---------------------------- MODULE StepIdempotency ----------------------------
(***************************************************************************)
(* The row of workflow_step_idempotency that guards one (workflow, step,   *)
(* key), and the activity executions ("callers") that reserve it, perform  *)
(* the guarded external mutation, and complete, fail or cancel the         *)
(* reservation.  Every SQL statement is one atomic step; between two of    *)
(* them other callers run and time passes.  reserve draws one random lease *)
(* token per call, so a caller is its own token.                           *)
(***************************************************************************)
EXTENDS Integers

CONSTANTS
    Callers,      \* executions of an activity with this key (retries included)
    NoCaller,     \* SQL NULL in lease_token
    Hashes,       \* payload hashes
    NoHash,
    PayloadHash,  \* the payload hash each caller computes
    Skew,         \* worker clock minus database clock, per caller
    TTL,          \* PENDING_RESERVATION_TTL_SECONDS
    MaxReloads,   \* MAX_RESERVATION_RELOAD_ATTEMPTS
    MaxTime       \* bound of the clock

ASSUME CallersAssumption == NoCaller \notin Callers
ASSUME HashAssumption ==
    /\ NoHash \notin Hashes
    /\ PayloadHash \in [Callers -> Hashes]
ASSUME TimeAssumption ==
    /\ Skew \in [Callers -> Int]
    /\ TTL \in Nat \ {0}
    /\ MaxReloads \in Nat \ {0}
    /\ MaxTime \in Nat

VARIABLES
    row,          \* the row, with status "absent" when there is none
    lastId,       \* AUTO_INCREMENT of the table
    now,          \* UTC_TIMESTAMP() of the database
    pc,           \* where each caller is
    reloads,      \* iterations of the reservation loop already spent
    seen,         \* what a caller about to reclaim remembers of its SELECT
    outcome,      \* how the caller's execution ended
    leaseEnd      \* history: when the lease granted to a caller expires

vars == <<row, lastId, now, pc, reloads, seen, outcome, leaseEnd>>

--------------------------------------------------------------------------------
(* Types *)

NullTime == 0    \* SQL NULL in pending_expires_at; the clock starts at 0, so
                 \* "IS NULL OR <= UTC_TIMESTAMP()" is "<= now" for it too

Final == {"completed", "failed"}
Verdicts == [status : Final, by : Callers]
NoVerdict == [status |-> "none", by |-> NoCaller]

Absent == [id |-> 0, status |-> "absent", lease |-> NoCaller, hash |-> NoHash,
           expires |-> NullTime, attempts |-> 0, result |-> NoVerdict]

Rows == [id : Nat, status : {"absent", "pending"} \cup Final,
         lease : Callers \cup {NoCaller}, hash : Hashes \cup {NoHash},
         expires : Nat, attempts : Nat, result : Verdicts \cup {NoVerdict}]

PCs == {"idle", "insert", "load", "reclaim", "holding", "performed", "recheck", "done"}

Outcomes ==
    {"none", "pending", "stored", "mismatch", "race",            \* reserve
     "recorded", "superseded", "released",                       \* finalize, cancel
     "lease-lost", "not-found", "not-finalized", "thrown"}

TypeOK ==
    /\ row \in Rows
    /\ lastId \in Nat
    /\ now \in Nat
    /\ pc \in [Callers -> PCs]
    /\ reloads \in [Callers -> Nat]
    /\ seen \in [Callers -> [id : Nat, expires : Nat]]
    /\ outcome \in [Callers -> [kind : Outcomes, result : Verdicts \cup {NoVerdict}]]
    /\ leaseEnd \in [Callers -> Nat]

Unseen == [id |-> 0, expires |-> NullTime]

Plain(kind) == [kind |-> kind, result |-> NoVerdict]

\* A row left pending by a release that had no leases: migration 002 added its
\* lease columns with NULL.
LegacyPending(h) ==
    [Absent EXCEPT !.id = 1, !.status = "pending", !.hash = h, !.attempts = 1]

Init ==
    /\ row \in {Absent} \cup {LegacyPending(h) : h \in Hashes}
    /\ lastId = row.id
    /\ now = 0
    /\ pc = [c \in Callers |-> "idle"]
    /\ reloads = [c \in Callers |-> 0]
    /\ seen = [c \in Callers |-> Unseen]
    /\ outcome = [c \in Callers |-> Plain("none")]
    /\ leaseEnd = [c \in Callers |-> 0]

--------------------------------------------------------------------------------
(* reserveWorkflowStepIdempotency *)

Ends(c, result) ==
    /\ pc' = [pc EXCEPT ![c] = "done"]
    /\ outcome' = [outcome EXCEPT ![c] = result]

\* The caller gets the row's lease: the statement that grants it stamps its expiry.
Granted(c) ==
    /\ leaseEnd' = [leaseEnd EXCEPT ![c] = now + TTL]
    /\ pc' = [pc EXCEPT ![c] = "holding"]

\* Mutant: the loop has no bound.
TryAgainForever(c) ==
    /\ pc' = [pc EXCEPT ![c] = "insert"]
    /\ UNCHANGED <<reloads, outcome>>

\* "continue": another iteration, or SYSTEM_DB_IDEMPOTENCY_RESERVATION_RACE.
TryAgain(c) ==
    /\ reloads' = [reloads EXCEPT ![c] = @ + 1]
    /\ IF reloads[c] + 1 < MaxReloads
       THEN pc' = [pc EXCEPT ![c] = "insert"] /\ UNCHANGED outcome
       ELSE Ends(c, Plain("race"))

FreshRow(c) ==
    [id |-> lastId + 1, status |-> "pending", lease |-> c, hash |-> PayloadHash[c],
     expires |-> now + TTL, attempts |-> 1, result |-> NoVerdict]

\* INSERT IGNORE: affects one row, or none when the unique key is taken.
Insert(c) ==
    /\ pc[c] \in {"idle", "insert"}
    /\ IF row.status = "absent"
       THEN /\ row' = FreshRow(c)
            /\ lastId' = lastId + 1
            /\ Granted(c)
       ELSE /\ pc' = [pc EXCEPT ![c] = "load"]
            /\ UNCHANGED <<row, lastId, leaseEnd>>
    /\ UNCHANGED <<now, reloads, seen, outcome>>

\* The SELECT after an ignored insert, and the decisions taken on what it returned.
Load(c) ==
    /\ pc[c] = "load"
    /\ \/ /\ row.status = "absent"
          /\ TryAgain(c)
          /\ UNCHANGED seen
       \/ /\ row.status # "absent"
          /\ row.hash # PayloadHash[c]
          /\ Ends(c, Plain("mismatch"))
          /\ UNCHANGED <<reloads, seen>>
       \/ /\ row.status = "pending"
          /\ row.hash = PayloadHash[c]
          /\ pc' = [pc EXCEPT ![c] = "reclaim"]
          /\ seen' = [seen EXCEPT ![c] = [id |-> row.id, expires |-> row.expires]]
          /\ UNCHANGED <<reloads, outcome>>
       \/ /\ row.status \in Final
          /\ row.hash = PayloadHash[c]
          /\ Ends(c, [kind |-> "stored", result |-> row.result])
          /\ UNCHANGED <<reloads, seen>>
    /\ UNCHANGED <<row, lastId, now, leaseEnd>>

\* Mutants: the WHERE clause without its expiry, its status, its row id.
ReclaimableUnexpired(c) == row.id = seen[c].id /\ row.status = "pending"
ReclaimableFinal(c) == row.id = seen[c].id /\ row.expires <= now
ReclaimableByKey(c) == row.status = "pending" /\ row.expires <= now

\* The WHERE clause of tryReclaimExpiredPendingReservation.
Reclaimable(c) ==
    /\ row.id = seen[c].id
    /\ row.status = "pending"
    /\ row.expires <= now

\* isExpiredPendingReservation: the loaded row against the worker's own clock.
ExpiredLocally(c) ==
    \/ seen[c].expires = NullTime
    \/ seen[c].expires <= now + Skew[c]

Reclaim(c) ==
    /\ pc[c] = "reclaim"
    /\ \/ /\ Reclaimable(c)
          /\ row' = [row EXCEPT !.lease = c, !.hash = PayloadHash[c],
                                !.expires = now + TTL, !.attempts = @ + 1]
          /\ Granted(c)
          /\ UNCHANGED <<reloads, outcome>>
       \/ /\ ~Reclaimable(c)
          /\ IF ExpiredLocally(c)
             THEN TryAgain(c)
             ELSE Ends(c, Plain("pending")) /\ UNCHANGED reloads
          /\ UNCHANGED <<row, leaseEnd>>
    /\ seen' = [seen EXCEPT ![c] = Unseen]
    /\ UNCHANGED <<lastId, now>>

--------------------------------------------------------------------------------
(* The activity between its reservation and its finalization *)

\* The external mutation (SMTP, IXC), however long it takes.
Perform(c) ==
    /\ pc[c] = "holding"
    /\ pc' = [pc EXCEPT ![c] = "performed"]
    /\ UNCHANGED <<row, lastId, now, reloads, seen, outcome, leaseEnd>>

\* Mutants: any pending row is mine; only an unexpired lease is mine; a row of any
\* status without a lease (those of an older release) is mine.
OwnsPendingRow(c) == row.status = "pending"
OwnsUnexpiredRow(c) == row.status = "pending" /\ row.lease = c /\ row.expires > now

OwnsUnleasedRow(c) == row.status # "absent" /\ row.lease \in {c, NoCaller}

\* WHERE execution_status = 'pending' AND lease_token = mine.
OwnsRow(c) == row.status = "pending" /\ row.lease = c

\* markWorkflowStepIdempotencyCompleted / Failed.  When the reply of the UPDATE
\* is lost the activity may be retried with the same token, matches nothing and
\* goes on with the reload.
Finalize(c, status) ==
    /\ pc[c] = "performed" \/ (pc[c] = "holding" /\ status = "failed")
    /\ \/ /\ OwnsRow(c)
          /\ row' = [row EXCEPT !.status = status, !.lease = NoCaller,
                                !.expires = NullTime,
                                !.result = [status |-> status, by |-> c]]
          /\ \/ Ends(c, Plain("recorded"))
             \/ pc' = [pc EXCEPT ![c] = "recheck"] /\ UNCHANGED outcome
       \/ /\ ~OwnsRow(c)
          /\ pc' = [pc EXCEPT ![c] = "recheck"]
          /\ UNCHANGED <<row, outcome>>
    /\ UNCHANGED <<lastId, now, reloads, seen, leaseEnd>>

\* cancelWorkflowStepIdempotencyReservation: only work that was not performed.
Cancel(c) ==
    /\ pc[c] = "holding"
    /\ \/ /\ OwnsRow(c)
          /\ row' = Absent
          /\ \/ Ends(c, Plain("released"))
             \/ pc' = [pc EXCEPT ![c] = "recheck"] /\ UNCHANGED outcome
       \/ /\ ~OwnsRow(c)
          /\ pc' = [pc EXCEPT ![c] = "recheck"]
          /\ UNCHANGED <<row, outcome>>
    /\ UNCHANGED <<lastId, now, reloads, seen, leaseEnd>>

\* The reload that explains why the UPDATE or the DELETE matched nothing.
RecheckKind(c) ==
    CASE row.status = "absent" -> "not-found"
      [] row.status \in Final -> "superseded"
      [] row.status = "pending" /\ row.lease # c -> "lease-lost"
      [] OTHER -> "not-finalized"

Recheck(c) ==
    /\ pc[c] = "recheck"
    /\ Ends(c, Plain(RecheckKind(c)))
    /\ UNCHANGED <<row, lastId, now, reloads, seen, leaseEnd>>

\* The worker dies, the activity times out or throws a transient error (of the
\* external system, or of a statement whose reply was lost): nobody undoes
\* anything, and the retry is another caller.
Throw(c) ==
    /\ pc[c] \notin {"idle", "done"}
    /\ Ends(c, Plain("thrown"))
    /\ UNCHANGED <<row, lastId, now, reloads, seen, leaseEnd>>

Tick ==
    /\ now < MaxTime
    /\ now' = now + 1
    /\ UNCHANGED <<row, lastId, pc, reloads, seen, outcome, leaseEnd>>

Step(c) ==
    \/ Insert(c) \/ Load(c) \/ Reclaim(c)
    \/ Perform(c) \/ Cancel(c) \/ Recheck(c)
    \/ \E status \in Final : Finalize(c, status)

Next == Tick \/ \E c \in Callers : Step(c) \/ Throw(c)

Spec == Init /\ [][Next]_vars

\* A started execution keeps running; nothing makes one start, or the clock move.
Fairness == \A c \in Callers : WF_vars(pc[c] # "idle" /\ Step(c))

FairSpec == Spec /\ Fairness

--------------------------------------------------------------------------------
(* Properties *)

Holds(c) == pc[c] \in {"holding", "performed"}

\* Two executions may both believe they hold the reservation (a holder that is
\* slower than its lease is never told), but never while both leases run: the
\* mutation cannot be in flight twice within the TTL.
AtMostOneLiveHolder ==
    \A c, d \in Callers :
        Holds(c) /\ Holds(d) /\ leaseEnd[c] > now /\ leaseEnd[d] > now => c = d

\* Whoever was answered a stored result, and whoever recorded one, keeps agreeing
\* with the row, whatever stale holders do afterwards: completed and failed
\* results are what retries of the activity return.
AnswersAgree ==
    \A c \in Callers :
        /\ outcome[c].kind = "stored" =>
              row.status \in Final /\ row.result = outcome[c].result
        /\ outcome[c].kind = "recorded" =>
              row.status \in Final /\ row.result.by = c

\* The result that stands was recorded under the most recently granted lease: a
\* holder whose lease was taken over cannot overwrite or pre-empt its successor.
ResultFromLatestLease ==
    row.status \in Final => \A c \in Callers : leaseEnd[c] <= leaseEnd[row.result.by]

\* The permanent errors FINALIZE_NOT_FOUND and CANCEL_NOT_FOUND are unreachable: a
\* row that was not matched by the UPDATE never becomes the caller's own again
\* before the reload.
NeverNotFinalized == \A c \in Callers : outcome[c].kind # "not-finalized"

\* A completed or failed row is never written or deleted again: not by a late
\* finalization, a cancellation, nor a reclaim decided on a stale SELECT.
VerdictIsFinal == [][row.status \in Final => row' = row]_vars

\* A row never serves two payloads: reclaiming overwrites payload_hash after a
\* check made on an earlier SELECT, of what must still be the same row.
PayloadNeverChanges ==
    [][row.id # 0 /\ row'.id = row.id => row'.hash = row.hash]_vars

\* Every execution that starts ends, even one whose clock runs ahead of the
\* database and keeps seeing the row expired when the database does not.
ExecutionsEnd == \A c \in Callers : (pc[c] # "idle") ~> (pc[c] = "done")

\* The strengthening that makes the above inductive.
RowShape ==
    /\ row.status = "absent" => row = Absent
    /\ row.status # "absent" => row.id # 0 /\ row.id <= lastId
    /\ row.status = "pending" => row.result = NoVerdict
    /\ row.status \in Final =>
          /\ row.lease = NoCaller
          /\ row.result \in Verdicts
          /\ row.result.status = row.status

\* Callers that were not granted a lease own nothing.
Ungranted(c) == pc[c] \in {"idle", "insert", "load", "reclaim"}

LeaseShape ==
    /\ \A c \in Callers : leaseEnd[c] <= now + TTL
    /\ \A c \in Callers : Ungranted(c) => row.lease # c
    /\ \A c \in Callers : OwnsRow(c) =>
          /\ row.expires = leaseEnd[c]
          /\ \A d \in Callers : leaseEnd[d] <= leaseEnd[c]

\* A holder that does not own the row outlived its lease.
LeaseExclusive ==
    \A c \in Callers : Holds(c) /\ ~OwnsRow(c) => leaseEnd[c] <= now

\* An UPDATE that matched nothing stays unmatched.
RecheckUnowned == \A c \in Callers : pc[c] = "recheck" => ~OwnsRow(c)

\* Whatever became of the row, the id a caller remembers stands for its payload.
SeenPayload ==
    \A c \in Callers : pc[c] = "reclaim" =>
        /\ seen[c].id # 0 /\ seen[c].id <= lastId
        /\ row.id = seen[c].id => row.hash = PayloadHash[c]

\* An execution has an answer only when it ended.
Unanswered == \A c \in Callers : pc[c] # "done" => outcome[c].kind = "none"

IInv ==
    /\ TypeOK
    /\ RowShape
    /\ LeaseShape
    /\ LeaseExclusive
    /\ RecheckUnowned
    /\ SeenPayload
    /\ Unanswered
    /\ AnswersAgree
    /\ ResultFromLatestLease
    /\ NeverNotFinalized

\* The SQL implements the lease it is meant to be.
Pending == row.status = "pending"

Lease == INSTANCE LeasedStep WITH
    owner   <- IF Pending THEN row.lease ELSE NoCaller,
    left    <- IF Pending /\ row.expires > now THEN row.expires - now ELSE 0,
    verdict <- row.result

ImplementsLease == Lease!Spec

===============================================================================
