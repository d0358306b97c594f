------------------------------ MODULE LeasedStep ------------------------------
(***************************************************************************)
(* What the durable idempotency record promises to the activities that use *)
(* it, with none of the SQL: a step has at most one verdict, which only    *)
(* the current holder of its lease may give; the lease of a step without a *)
(* verdict passes to another caller only once it has run out, or was given *)
(* back.  Time is what is left of the lease.                               *)
(***************************************************************************)
EXTENDS Integers

CONSTANTS
    Callers,      \* executions of the activity that guards the step
    NoCaller,     \* nobody holds the lease
    Verdicts,     \* final results a caller may record
    NoVerdict,    \* the step has no result yet
    TTL           \* life of a lease, PENDING_RESERVATION_TTL_SECONDS

VARIABLES
    owner,        \* the caller the lease was last granted to
    left,         \* the time until that lease may be taken over
    verdict       \* the recorded result

vars == <<owner, left, verdict>>

Init ==
    /\ owner = NoCaller
    /\ left = 0
    /\ verdict = NoVerdict

\* A lease whose caller never learns of it is granted to NoCaller, and runs all the same.
Grant(c) ==
    /\ verdict = NoVerdict
    /\ left = 0
    /\ owner' = c
    /\ left' = TTL
    /\ UNCHANGED verdict

Decide(c, v) ==
    /\ owner = c
    /\ verdict' = v
    /\ owner' = NoCaller
    /\ left' = 0

Release(c) ==
    /\ owner = c
    /\ owner' = NoCaller
    /\ left' = 0
    /\ UNCHANGED verdict

\* The caller is gone, and its lease goes on to its end.
Lose(c) ==
    /\ owner = c
    /\ owner' = NoCaller
    /\ UNCHANGED <<left, verdict>>

Tick ==
    /\ left > 0
    /\ left' = left - 1
    /\ UNCHANGED <<owner, verdict>>

Next ==
    \/ \E c \in Callers \cup {NoCaller} : Grant(c)
    \/ \E c \in Callers : Release(c) \/ Lose(c)
    \/ \E c \in Callers, v \in Verdicts : Decide(c, v)
    \/ Tick

Spec == Init /\ [][Next]_vars

===============================================================================
