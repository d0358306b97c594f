------------------------------ MODULE SaleLedger ------------------------------
(***************************************************************************)
(* What the row of a sale promises to everybody who tries to e-mail its    *)
(* NF-e, with no attempts, locks, workflows or errors: the sale is taken   *)
(* under claims that are numbered one after the other; under the claim     *)
(* that has it, and no other, one e-mail may leave; only that claim may    *)
(* settle it, as sent only if an e-mail left, and for good; and a claim    *)
(* may be undone, as if it had never been made, while nothing left under   *)
(* it.                                                                     *)
(***************************************************************************)
EXTENDS Integers

VARIABLES
    state,     \* "open" to claims, "taken" by one, or "sent"
    claim,     \* the claim the row tells of
    claims,    \* how many there were
    mailed     \* the claims under which an e-mail left

vars == <<state, claim, claims, mailed>>

Init ==
    /\ state = "open"
    /\ claim = 0
    /\ claims = 0
    /\ mailed = {}

Take ==
    /\ state = "open"
    /\ state' = "taken"
    /\ claims' = claims + 1
    /\ claim' = claims + 1
    /\ UNCHANGED mailed

Mail ==
    /\ state = "taken"
    /\ claim \notin mailed
    /\ mailed' = mailed \cup {claim}
    /\ UNCHANGED <<state, claim, claims>>

Settle ==
    /\ state = "taken"
    /\ \/ state' = "open"
       \/ state' = "sent" /\ mailed # {}
    /\ UNCHANGED <<claim, claims, mailed>>

Undo ==
    /\ state = "taken"
    /\ claim \notin mailed
    /\ state' = "open"
    /\ claim' < claim
    /\ UNCHANGED <<claims, mailed>>

Next == Take \/ Mail \/ Settle \/ Undo

Spec == Init /\ [][Next]_vars

===============================================================================
