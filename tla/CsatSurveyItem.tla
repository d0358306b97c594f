---------------------------- MODULE CsatSurveyItem ----------------------------
(***************************************************************************)
(* One service order of the CSAT survey: the child workflow that finds the *)
(* customer and a contact, sends the survey through IXC and registers it   *)
(* on the order, or forwards the order to another sector; the activity     *)
(* executions it starts, which outlive their timeouts and their leases;    *)
(* and the trigger, which starts the child again after it failed.          *)
(*                                                                         *)
(* Time is in units of the retry delay (30 seconds) and is kept as what is *)
(* left of each lease and timer.  An execution is prompt, less than one    *)
(* unit, unless it stalls.  A reservation is one step (StepIdempotency has *)
(* its statements).                                                        *)
(***************************************************************************)
EXTENDS Integers, FiniteSets

CONSTANTS
    Contacts,          \* WhatsApp numbers OPA may answer for the customer
    Slots,             \* executions of activities alive at the same time
    None,              \* no execution
    LeaseLife,         \* PENDING_RESERVATION_TTL_SECONDS
    ActivityTimeout,   \* startToCloseTimeout of the mutating activities
    RetryDelay,        \* initialInterval, REGISTER_SUCCESS_EVENT_RETRY_DELAY
    MaxAttempts,       \* maximumAttempts, REGISTER_SUCCESS_EVENT_MAX_ATTEMPTS
    Faulty,            \* what may fail: a subset of FaultKinds
    MaxFaults          \* bound of the failures

FaultKinds == {"reserve", "transient", "lost", "store", "crash", "stall"}

ASSUME SurveyAssumption ==
    /\ IsFiniteSet(Slots) /\ None \notin Slots
    /\ LeaseLife \in Nat \ {0}
    /\ ActivityTimeout \in Nat \ {0}
    /\ RetryDelay \in Nat \ {0}
    /\ MaxAttempts \in Nat \ {0}
    /\ Faulty \subseteq FaultKinds
    /\ MaxFaults \in Nat

VARIABLES
    child,     \* the child workflow of the service order
    execs,     \* executions of its mutating activities
    rows,      \* their idempotency rows
    faults,    \* failures so far
    applied    \* history: mutations IXC applied, per idempotency key

vars == <<child, execs, rows, faults, applied>>

--------------------------------------------------------------------------------
(* Types *)

Mutating == {"send", "register", "forward"}
Motives == {"lookup", "send"}    \* the step whose failure is forwarded

\* Every key has the workflow id, which the reruns of the child share.  The keys of
\* send and register name the contact, that of forward the failure message.
Keys == ({"send", "register"} \X Contacts) \cup ({"forward"} \X Motives)

\* What IXC refuses; "unclear" is an HTML page or an error no retry mends, of which
\* nobody knows what was applied.
Refusals == {"response-error", "unclear"}
Results == {"success"} \cup Refusals

FreeRow == [status |-> "absent", holder |-> None, left |-> 0, attempts |-> 0,
            result |-> "none"]
FreeSlot == [phase |-> "off", key |-> <<"none", None>>, result |-> "none",
             stalled |-> FALSE]

Settled == {"recorded", "forwarded"}

ChildStates ==
    [pc : {"off", "customer", "contact", "failed"} \cup Mutating \cup Settled,
     contact : Contacts \cup {None}, motive : Motives \cup {"none"},
     exec : Slots \cup {None}, tries : 0..MaxAttempts - 1, timer : Nat]

ExecStates ==
    [phase : {"off", "reserve", "call", "store"}, key : Keys \cup {<<"none", None>>},
     result : Results \cup {"none", "transient"}, stalled : BOOLEAN]

RowStates ==
    [status : {"absent", "pending", "completed", "failed"}, holder : Slots \cup {None},
     left : 0..LeaseLife, attempts : Nat, result : Results \cup {"none"}]

TypeOK ==
    /\ child \in ChildStates
    /\ execs \in [Slots -> ExecStates]
    /\ rows \in [Keys -> RowStates]
    /\ faults \in 0..MaxFaults
    /\ applied \in [Keys -> Nat]

Init ==
    /\ child = [pc |-> "off", contact |-> None, motive |-> "none", exec |-> None,
                tries |-> 0, timer |-> 0]
    /\ execs = [s \in Slots |-> FreeSlot]
    /\ rows = [k \in Keys |-> FreeRow]
    /\ faults = 0
    /\ applied = [k \in Keys |-> 0]

Fault(kind) ==
    /\ kind \in Faulty
    /\ faults < MaxFaults
    /\ faults' = faults + 1

--------------------------------------------------------------------------------
(* The child workflow *)

At(pc) == [child EXCEPT !.pc = pc, !.exec = None, !.tries = 0, !.timer = 0]

\* One of the failures that fail...() throw, none of them retryable.
Fails == At("failed")

Forwards(motive) == [At("forward") EXCEPT !.motive = motive]

\* The trigger starts the child, or starts it again when it failed
\* (ALLOW_DUPLICATE_FAILED_ONLY); a child that runs or completed is skipped.
Trigger ==
    /\ child.pc \in {"off", "failed"}
    /\ child' = [At("customer") EXCEPT !.contact = None, !.motive = "none"]
    /\ UNCHANGED <<execs, rows, faults, applied>>

\* What comes back from OPA: JSON rows, an html page, a refusal or a body that is no JSON,
\* or, three times in a row, trouble that would pass.
OpaReplies == {"rows", "html", "refused", "unavailable"}

\* The only customer found, with an id.
CustomerFound(reply, customers) == reply = "rows" /\ customers = 1

\* The mobile number of the holder of the contract, a WhatsApp number before a cell phone.
ContactFound(reply, number) == reply = "rows" /\ number # None

FindCustomer ==
    /\ child.pc = "customer"
    /\ \E reply \in OpaReplies, customers \in 0..2 :
          child' = IF CustomerFound(reply, customers) THEN At("contact") ELSE Forwards("lookup")
    /\ UNCHANGED <<execs, rows, faults, applied>>

FindContact ==
    /\ child.pc = "contact"
    /\ \E reply \in OpaReplies, number \in Contacts \cup {None} :
          child' = IF ContactFound(reply, number)
                   THEN [At("send") EXCEPT !.contact = number] ELSE Forwards("lookup")
    /\ UNCHANGED <<execs, rows, faults, applied>>

\* Another attempt of the activity, or of the register loop, after a delay.
Again ==
    IF child.tries + 1 < MaxAttempts
    THEN [child EXCEPT !.exec = None, !.tries = @ + 1, !.timer = RetryDelay]
    ELSE Fails

AfterSend(result) ==
    CASE result = "success" -> At("register")
      [] result = "response-error" -> Forwards("send")
      [] result \in {"pending", "unclear"} -> Fails

\* The register activity reports what is transient, pending included, as a result.
AfterRegister(result) ==
    CASE result = "success" -> At("recorded")
      [] result \in {"transient", "pending"} -> Again
      [] result \in Refusals -> Fails

\* Mutant: nobody looks at the status of the result.
AfterForwardAnyhow(result) == At("forwarded")

AfterForward(result) == IF result = "success" THEN At("forwarded") ELSE Fails

\* Execution s answers; an answer the child no longer waits for is dropped.
Answers(s, result) ==
    child' = IF child.exec # s THEN child
             ELSE CASE child.pc = "send" -> AfterSend(result)
                    [] child.pc = "register" -> AfterRegister(result)
                    [] child.pc = "forward" -> AfterForward(result)

\* A thrown error, or a timeout, is retried by Temporal; register has maximumAttempts 1.
Thrown == IF child.pc = "register" THEN Fails ELSE Again

Throws(s) == child' = IF child.exec # s THEN child ELSE Thrown

--------------------------------------------------------------------------------
(* Executions of the mutating activities *)

KeyOf == <<child.pc, IF child.pc = "forward" THEN child.motive ELSE child.contact>>

FreeSlots == {s \in Slots : execs[s].phase = "off"}

Start ==
    /\ child.pc \in Mutating
    /\ child.exec = None
    /\ child.timer = 0
    /\ FreeSlots # {}
    /\ LET s == CHOOSE s \in FreeSlots : TRUE IN
           /\ execs' = [execs EXCEPT ![s] = [FreeSlot EXCEPT !.phase = "reserve", !.key = KeyOf]]
           /\ child' = [child EXCEPT !.exec = s, !.timer = ActivityTimeout]
    /\ UNCHANGED <<rows, faults, applied>>

Free(s) == execs' = [execs EXCEPT ![s] = FreeSlot]

\* The rows once execution s ended: its lease token is in no other hands.
Unheld(s, table) ==
    [k \in Keys |-> IF table[k].holder = s THEN [table[k] EXCEPT !.holder = None] ELSE table[k]]

Row(s) == rows[execs[s].key]

\* Mutants: a pending reservation is never, or at once, taken over; a failed step is
\* tried again.
GrantableOnce(row) == row.status = "absent"
GrantableAnyway(row) == row.status \in {"absent", "pending"}
GrantableWhenFailed(row) == row.status \in {"absent", "failed"}

\* reserveWorkflowStepIdempotency.
Grantable(row) == row.status = "absent" \/ (row.status = "pending" /\ row.left = 0)

Leased(s) ==
    [Row(s) EXCEPT !.status = "pending", !.holder = s, !.left = LeaseLife, !.attempts = @ + 1]

Reserve(s) ==
    /\ execs[s].phase = "reserve"
    /\ \/ /\ Grantable(Row(s))
          /\ rows' = [rows EXCEPT ![execs[s].key] = Leased(s)]
          /\ execs' = [execs EXCEPT ![s].phase = "call"]
          /\ UNCHANGED <<child, faults>>
       \/ /\ Row(s).status = "pending"
          /\ ~Grantable(Row(s))
          /\ Answers(s, "pending")
          /\ Free(s)
          /\ UNCHANGED <<rows, faults>>
       \/ /\ Row(s).status \in {"completed", "failed"}
          /\ Answers(s, Row(s).result)
          /\ Free(s)
          /\ UNCHANGED <<rows, faults>>
       \/ /\ Fault("reserve")
          /\ \/ UNCHANGED rows
             \/ /\ Grantable(Row(s))
                /\ rows' = [rows EXCEPT ![execs[s].key] = [Leased(s) EXCEPT !.holder = None]]
          /\ Throws(s)
          /\ Free(s)
    /\ UNCHANGED applied

Applies(s) == applied' = [applied EXCEPT ![execs[s].key] = @ + 1]

Replied(s, result) ==
    execs' = [execs EXCEPT ![s].phase = "store", ![s].result = result]

\* The call to IXC; a transient error comes before IXC applied the mutation, or after.
Call(s) ==
    /\ execs[s].phase = "call"
    /\ \/ Replied(s, "success") /\ Applies(s) /\ UNCHANGED faults
       \/ Replied(s, "response-error") /\ UNCHANGED <<applied, faults>>
       \/ /\ Replied(s, "unclear")
          /\ Applies(s) \/ UNCHANGED applied
          /\ UNCHANGED faults
       \/ Fault("transient") /\ Replied(s, "transient") /\ UNCHANGED applied
       \/ Fault("lost") /\ Replied(s, "transient") /\ Applies(s)
    /\ UNCHANGED <<child, rows>>

\* What the register activity turns into a result, the others throw.
GivesUp(s) ==
    IF execs[s].key[1] = "register" THEN Answers(s, "transient") ELSE Throws(s)

Stored(s) ==
    [Row(s) EXCEPT !.status = IF execs[s].result = "success" THEN "completed" ELSE "failed",
                   !.holder = None, !.left = 0, !.result = execs[s].result]

Owns(s) == Row(s).status = "pending" /\ Row(s).holder = s

\* markWorkflowStepIdempotencyCompleted or Failed and the answer; a transient error
\* leaves the row pending.
Store(s) ==
    /\ execs[s].phase = "store"
    /\ \/ /\ execs[s].result = "transient"
          /\ rows' = Unheld(s, rows)
          /\ GivesUp(s)
          /\ UNCHANGED faults
       \/ /\ execs[s].result \in Results
          /\ Owns(s)
          /\ rows' = [rows EXCEPT ![execs[s].key] = Stored(s)]
          /\ Answers(s, execs[s].result)
          /\ UNCHANGED faults
       \/ /\ execs[s].result \in Results
          /\ ~Owns(s)
          /\ IF Row(s).status = "pending" THEN GivesUp(s) ELSE Answers(s, execs[s].result)
          /\ UNCHANGED <<rows, faults>>
       \/ /\ execs[s].result \in Results
          /\ Fault("store")
          /\ \/ rows' = Unheld(s, rows)
             \/ Owns(s) /\ rows' = [rows EXCEPT ![execs[s].key] = Stored(s)]
          /\ GivesUp(s) \/ (execs[s].result = "unclear" /\ Throws(s))
    /\ Free(s)
    /\ UNCHANGED applied

\* The worker dies: the child learns of it when the activity times out.
Crash(s) ==
    /\ execs[s].phase # "off"
    /\ Fault("crash")
    /\ Free(s)
    /\ rows' = Unheld(s, rows)
    /\ UNCHANGED <<child, applied>>

Stall(s) ==
    /\ execs[s].phase # "off"
    /\ ~execs[s].stalled
    /\ Fault("stall")
    /\ execs' = [execs EXCEPT ![s].stalled = TRUE]
    /\ UNCHANGED <<child, rows, applied>>

Timeout ==
    /\ child.exec # None
    /\ child.timer = 0
    /\ child' = Thrown
    /\ UNCHANGED <<execs, rows, faults, applied>>

Less(n) == IF n > 0 THEN n - 1 ELSE 0

\* Time passes over executions only when they stall, and never over a timeout.
Tick ==
    /\ \A s \in Slots : execs[s].phase # "off" => execs[s].stalled
    /\ child.exec # None => child.timer > 0
    /\ child' = [child EXCEPT !.timer = Less(@)]
    /\ rows' = [k \in Keys |-> [rows[k] EXCEPT !.left = Less(@)]]
    /\ child' # child \/ rows' # rows
    /\ UNCHANGED <<execs, faults, applied>>

--------------------------------------------------------------------------------

ChildNext == FindCustomer \/ FindContact \/ Start \/ Timeout

ExecNext(s) == Reserve(s) \/ Call(s) \/ Store(s)

Next ==
    \/ Trigger \/ ChildNext \/ Tick
    \/ \E s \in Slots : ExecNext(s) \/ Crash(s) \/ Stall(s)

Spec == Init /\ [][Next]_vars

\* The schedule fires for ever, Temporal and the workers go on, and time passes.
FairSpec ==
    /\ Spec
    /\ WF_vars(Trigger)
    /\ WF_vars(ChildNext)
    /\ \A s \in Slots : WF_vars(ExecNext(s))
    /\ SF_vars(Tick)

--------------------------------------------------------------------------------
(* Properties *)

\* A child that ends as recorded did send the survey and register it, to the contact it
\* names; one that ends as forwarded did forward the order: whatever stored answers,
\* retries and executions of earlier runs said.
OutcomeIsTrue ==
    /\ child.pc = "recorded" =>
          \A step \in {"send", "register"} : applied[<<step, child.contact>>] > 0
    /\ child.pc = "forwarded" => applied[<<"forward", child.motive>>] > 0

\* Each repetition of a mutation takes a failure of its own (a lost answer, a crash, a
\* stall past the lease): the retries of Temporal, the reruns of the child and the
\* register loop repeat nothing by themselves.
RepeatsNeedFaults == \A k \in Keys : applied[k] <= 1 + faults

\* What IXC refused once for good under a key is not asked again: rows are final.
AnswersStand ==
    [][\A k \in Keys : rows[k].status \in {"completed", "failed"} => rows'[k] = rows[k]]_vars

\* The service order is settled in the end, unless IXC refused: no lease, timer or
\* failed child of an earlier run keeps later ones from settling it.
EventuallySettled ==
    <>(child.pc \in Settled \/ \E k \in Keys : rows[k].status = "failed")

\* What the documents say, and the code does not keep.

\* A send that fails transiently is retried before the child gives up on it.
TransientSendIsRetried ==
    child.pc = "failed" => \A c \in Contacts :
        rows[<<"send", c>>].status = "pending" => rows[<<"send", c>>].attempts > 1

\* The strengthening that makes OutcomeIsTrue and RepeatsNeedFaults inductive.

Final == {"completed", "failed"}

\* A row is final without a holder, and tells of a success only what IXC applied.
RowOk(k) ==
    /\ rows[k].status # "pending" => rows[k].holder = None
    /\ rows[k].status \in Final => rows[k].left = 0 /\ rows[k].result # "none"
    /\ rows[k].status = "absent" => rows[k].attempts = 0
    /\ rows[k].result = "success" => applied[k] > 0
    /\ rows[k].holder # None =>
          execs[rows[k].holder].phase \in {"call", "store"} /\ execs[rows[k].holder].key = k

ExecOk(s) ==
    /\ execs[s].phase # "off" => execs[s].key \in Keys
    /\ execs[s].phase = "store" <=> execs[s].result # "none"
    /\ execs[s].result = "success" => applied[execs[s].key] > 0

\* The child is where its history brought it ...
Honest(ch) ==
    /\ ch.pc \in {"send", "register", "recorded"} => ch.contact \in Contacts
    /\ ch.pc \in {"forward", "forwarded"} => ch.motive \in Motives
    /\ ch.pc \in {"register", "recorded"} => applied[<<"send", ch.contact>>] > 0
    /\ ch.pc = "recorded" => applied[<<"register", ch.contact>>] > 0
    /\ ch.pc = "forwarded" => applied[<<"forward", ch.motive>>] > 0

\* ... and waits for an execution of the step it is at.
Awaits ==
    child.exec # None =>
        /\ child.pc \in Mutating
        /\ execs[child.exec].phase # "off" => execs[child.exec].key = KeyOf

TruthInv ==
    /\ TypeOK
    /\ \A k \in Keys : RowOk(k)
    /\ \A s \in Slots : ExecOk(s)
    /\ Honest(child) /\ Awaits

\* Every reservation allows one call.  A reservation of a row that was reserved before,
\* and every stalled execution that may still make one, has a failure of its own: only
\* the first one, and then only while its holder is well or has ended, has none.
Calling(k) == {s \in Slots : execs[s].phase = "call" /\ execs[s].key = k}

Delayed(k) == {s \in Slots : /\ execs[s].phase = "reserve" /\ execs[s].key = k
                             /\ execs[s].stalled}

WellHeld(k) ==
    \E s \in Slots : /\ rows[k].holder = s
                     /\ ~execs[s].stalled /\ execs[s].result # "transient"

Credit(k) == IF rows[k].status \in Final \/ WellHeld(k) THEN 1 ELSE 0

Counted(k) ==
    /\ applied[k] + Cardinality(Calling(k)) <= rows[k].attempts
    /\ rows[k].attempts + Cardinality(Delayed(k)) <= faults + Credit(k)
    /\ WellHeld(k) => rows[k].left > 0

CountInv == \A k \in Keys : Counted(k)

--------------------------------------------------------------------------------
(* The rows are the leased steps that StepIdempotency implements *)

Pending(k) == rows[k].status = "pending"

Lease(k) == INSTANCE LeasedStep WITH
    Callers   <- Slots,
    NoCaller  <- None,
    Verdicts  <- Results,
    NoVerdict <- "none",
    TTL       <- LeaseLife,
    owner     <- IF Pending(k) THEN rows[k].holder ELSE None,
    left      <- IF Pending(k) THEN rows[k].left ELSE 0,
    verdict   <- IF rows[k].status \in Final THEN rows[k].result ELSE "none"

\* What this module takes a reservation to be, in one step, is no more than what the
\* statements of the repository implement: under every key one verdict, given by the
\* execution that has the lease, and no other execution before the lease ran out.
RowsImplementLease ==
    /\ \A k \in Keys : Lease(k)!Init
    /\ [][\A k \in Keys : [Lease(k)!Next]_(Lease(k)!vars)]_vars

================================================================================
