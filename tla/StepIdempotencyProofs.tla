------------------------- MODULE StepIdempotencyProofs -------------------------
(***************************************************************************)
(* Theorems about the idempotency record, for every set of callers, every  *)
(* TTL, reload limit and clock skew.                                       *)
(***************************************************************************)
EXTENDS StepIdempotency, TLAPS

LEMMA ConstantTypes ==
    /\ Absent \in Rows
    /\ \A h \in Hashes : LegacyPending(h) \in Rows /\ LegacyPending(h).id = 1
  BY DEF Absent, Rows, Verdicts, NoVerdict, Final, LegacyPending, NullTime

LEMMA InitTypeOK == Init => TypeOK
<1> SUFFICES ASSUME Init PROVE TypeOK
  OBVIOUS
<1>1. row \in Rows /\ row.id \in Nat
  BY ConstantTypes DEF Init, Rows
<1>2. QED
  BY <1>1, ConstantTypes, Zenon DEF Init, TypeOK, PCs, Outcomes, Plain, Unseen, NullTime

--------------------------------------------------------------------------------
(* What the pieces of an action do to the types *)

LEMMA EndsType ==
    ASSUME TypeOK, NEW c \in Callers, NEW kind \in Outcomes, NEW r \in Verdicts \cup {NoVerdict},
           Ends(c, [kind |-> kind, result |-> r])
    PROVE  /\ pc' \in [Callers -> PCs]
           /\ outcome' \in [Callers -> [kind : Outcomes, result : Verdicts \cup {NoVerdict}]]
  BY DEF TypeOK, Ends, PCs

LEMMA TryAgainType ==
    ASSUME TypeOK, NEW c \in Callers, TryAgain(c)
    PROVE  /\ pc' \in [Callers -> PCs]
           /\ reloads' \in [Callers -> Nat]
           /\ outcome' \in [Callers -> [kind : Outcomes, result : Verdicts \cup {NoVerdict}]]
<1>1. reloads' \in [Callers -> Nat]
  BY DEF TypeOK, TryAgain
<1>2. CASE reloads[c] + 1 < MaxReloads
  BY <1>1, <1>2 DEF TypeOK, TryAgain, PCs
<1>3. CASE ~(reloads[c] + 1 < MaxReloads)
  <2>1. Ends(c, Plain("race"))
    BY <1>3 DEF TryAgain
  <2>2. QED
    BY <1>1, <2>1, EndsType DEF Plain, Outcomes
<1>4. QED
  BY <1>2, <1>3

LEMMA GrantedType ==
    ASSUME TypeOK, NEW c \in Callers, Granted(c)
    PROVE  /\ pc' \in [Callers -> PCs]
           /\ leaseEnd' \in [Callers -> Nat]
  BY TimeAssumption DEF TypeOK, Granted, PCs, TimeAssumption

--------------------------------------------------------------------------------
(* Each action *)

LEMMA InsertType == ASSUME TypeOK, NEW c \in Callers, Insert(c) PROVE TypeOK'
<1>1. CASE row.status = "absent"
  <2>1. FreshRow(c) \in Rows
    BY HashAssumption, TimeAssumption
    DEF TypeOK, FreshRow, Rows, HashAssumption, TimeAssumption
  <2>2. row' \in Rows /\ lastId' \in Nat /\ Granted(c)
    BY <1>1, <2>1 DEF Insert, TypeOK
  <2>3. QED
    BY <2>2, GrantedType DEF Insert, TypeOK
<1>2. CASE row.status # "absent"
  BY <1>2 DEF Insert, TypeOK, PCs
<1>3. QED
  BY <1>1, <1>2

LEMMA LoadType == ASSUME TypeOK, NEW c \in Callers, Load(c) PROVE TypeOK'
<1>0. row' \in Rows /\ row.id \in Nat /\ row.expires \in Nat
      /\ row.result \in Verdicts \cup {NoVerdict}
  BY DEF Load, TypeOK, Rows
<1>1. CASE TryAgain(c) /\ UNCHANGED seen
  BY <1>0, <1>1, TryAgainType DEF Load, TypeOK
<1>2. CASE Ends(c, Plain("mismatch")) /\ UNCHANGED <<reloads, seen>>
  BY <1>0, <1>2, EndsType DEF Load, TypeOK, Plain, Outcomes
<1>3. CASE /\ pc' = [pc EXCEPT ![c] = "reclaim"]
           /\ seen' = [seen EXCEPT ![c] = [id |-> row.id, expires |-> row.expires]]
           /\ UNCHANGED <<reloads, outcome>>
  BY <1>0, <1>3 DEF Load, TypeOK, PCs
<1>4. CASE /\ Ends(c, [kind |-> "stored", result |-> row.result])
           /\ UNCHANGED <<reloads, seen>>
  BY <1>0, <1>4, EndsType DEF Load, TypeOK, Outcomes
<1>5. QED
  BY <1>1, <1>2, <1>3, <1>4 DEF Load

LEMMA ReclaimType == ASSUME TypeOK, NEW c \in Callers, Reclaim(c) PROVE TypeOK'
<1>1. seen' \in [Callers -> [id : Nat, expires : Nat]]
  BY DEF Reclaim, TypeOK, Unseen, NullTime
<1>2. CASE Reclaimable(c)
  <2>1. row' \in Rows
    <3>1. /\ row.attempts + 1 \in Nat /\ now + TTL \in Nat
          /\ PayloadHash[c] \in Hashes /\ c \in Callers \cup {NoCaller}
      BY HashAssumption, TimeAssumption DEF TypeOK, Rows, HashAssumption, TimeAssumption
    <3>2. row' = [row EXCEPT !.lease = c, !.hash = PayloadHash[c],
                             !.expires = now + TTL, !.attempts = row.attempts + 1]
      BY <1>2 DEF Reclaim
    <3>3. QED
      BY <3>1, <3>2 DEF TypeOK, Rows
  <2>2. QED
    BY <1>1, <1>2, <2>1, GrantedType DEF Reclaim, TypeOK
<1>3. CASE ~Reclaimable(c) /\ ExpiredLocally(c)
  BY <1>1, <1>3, TryAgainType DEF Reclaim, TypeOK
<1>4. CASE ~Reclaimable(c) /\ ~ExpiredLocally(c)
  BY <1>1, <1>4, EndsType DEF Reclaim, TypeOK, Plain, Outcomes
<1>5. QED
  BY <1>2, <1>3, <1>4

LEMMA FinalizeType ==
    ASSUME TypeOK, NEW c \in Callers, NEW status \in Final, Finalize(c, status)
    PROVE  TypeOK'
<1>1. row' \in Rows
  <2>1. CASE ~OwnsRow(c)
    BY <2>1 DEF Finalize, TypeOK
  <2>2. CASE OwnsRow(c)
    <3>1. [status |-> status, by |-> c] \in Verdicts
      BY DEF Verdicts
    <3>2. row' = [row EXCEPT !.status = status, !.lease = NoCaller, !.expires = 0,
                             !.result = [status |-> status, by |-> c]]
      BY <2>2 DEF Finalize, NullTime
    <3>3. QED
      BY <3>1, <3>2 DEF TypeOK, Rows
  <2>3. QED
    BY <2>1, <2>2
<1>2. CASE Ends(c, Plain("recorded"))
  BY <1>1, <1>2, EndsType DEF Finalize, TypeOK, Plain, Outcomes
<1>3. CASE pc' = [pc EXCEPT ![c] = "recheck"] /\ UNCHANGED outcome
  BY <1>1, <1>3 DEF Finalize, TypeOK, PCs
<1>4. QED
  BY <1>2, <1>3 DEF Finalize

LEMMA CancelType == ASSUME TypeOK, NEW c \in Callers, Cancel(c) PROVE TypeOK'
<1>1. row' \in Rows
  BY ConstantTypes DEF Cancel, TypeOK
<1>2. CASE Ends(c, Plain("released"))
  BY <1>1, <1>2, EndsType DEF Cancel, TypeOK, Plain, Outcomes
<1>3. CASE pc' = [pc EXCEPT ![c] = "recheck"] /\ UNCHANGED outcome
  BY <1>1, <1>3 DEF Cancel, TypeOK, PCs
<1>4. QED
  BY <1>2, <1>3 DEF Cancel

LEMMA OtherType ==
    ASSUME TypeOK, NEW c \in Callers, Perform(c) \/ Recheck(c) \/ Throw(c)
    PROVE  TypeOK'
<1>1. CASE Perform(c)
  BY <1>1 DEF Perform, TypeOK, PCs
<1>2. CASE Recheck(c)
  <2>1. RecheckKind(c) \in Outcomes
    BY DEF RecheckKind, Outcomes
  <2>2. QED
    BY <1>2, <2>1, EndsType DEF Recheck, TypeOK, Plain
<1>3. CASE Throw(c)
  BY <1>3, EndsType DEF Throw, TypeOK, Plain, Outcomes
<1>4. QED
  BY <1>1, <1>2, <1>3

LEMMA StepTypeOK == TypeOK /\ [Next]_vars => TypeOK'
<1> SUFFICES ASSUME TypeOK, [Next]_vars PROVE TypeOK'
  OBVIOUS
<1>1. CASE Tick
  BY <1>1 DEF Tick, TypeOK
<1>2. CASE UNCHANGED vars
  BY <1>2 DEF vars, TypeOK
<1>3. QED
  BY <1>1, <1>2, InsertType, LoadType, ReclaimType, FinalizeType, CancelType, OtherType
  DEF Next, Step

\* Every reachable state is well typed.
THEOREM TypeCorrect == Spec => []TypeOK
  BY InitTypeOK, StepTypeOK, PTL DEF Spec

--------------------------------------------------------------------------------
(* The inductive invariant.  An action grants the lease, gives it up, or only   *)
(* moves its caller; each kind is one lemma.                                    *)

LEMMA InitIInv == Init => IInv
<1> SUFFICES ASSUME Init PROVE IInv
  OBVIOUS
<1>1. TypeOK
  BY InitTypeOK
<1>2. \A c \in Callers : /\ pc[c] = "idle" /\ leaseEnd[c] = 0
                         /\ outcome[c] = Plain("none")
  BY DEF Init
<1>3. row = Absent \/ \E h \in Hashes : row = LegacyPending(h)
  BY DEF Init
<1>4. /\ row.lease = NoCaller /\ row.result = NoVerdict /\ row.status \notin Final
      /\ row.status = "absent" => row = Absent
      /\ row.status # "absent" => row.id = 1
  <2>1. CASE row = Absent
    BY <2>1 DEF Absent, Final
  <2>2. ASSUME NEW h \in Hashes, row = LegacyPending(h)
        PROVE  row.lease = NoCaller /\ row.result = NoVerdict
               /\ row.status = "pending" /\ row.id = 1
    BY <2>2, Zenon DEF Absent, LegacyPending
  <2>3. QED
    BY <1>3, <2>1, <2>2 DEF Final
<1>5. lastId = row.id /\ now = 0
  BY DEF Init
<1>6. RowShape
  BY <1>4, <1>5, <1>1 DEF RowShape, TypeOK, Rows
<1>7. LeaseShape /\ LeaseExclusive /\ RecheckUnowned /\ SeenPayload
  BY <1>2, <1>4, <1>5, CallersAssumption, TimeAssumption
  DEF LeaseShape, LeaseExclusive, RecheckUnowned, SeenPayload, OwnsRow, Holds,
      CallersAssumption, TimeAssumption
<1>8. Unanswered /\ AnswersAgree /\ ResultFromLatestLease /\ NeverNotFinalized
  BY <1>2, <1>4 DEF Unanswered, AnswersAgree, ResultFromLatestLease, NeverNotFinalized, Plain
<1>9. QED
  BY <1>1, <1>6, <1>7, <1>8 DEF IInv

LEMMA GrantKeepsIInv ==
    ASSUME IInv, TypeOK', NEW c \in Callers,
           Ungranted(c),
           Granted(c),
           \/ row.status = "absent"
           \/ row.status = "pending" /\ row.expires <= now,
           row'.status = "pending", row'.lease = c, row'.expires = now + TTL,
           row'.result = NoVerdict,
           \/ row'.id = row.id /\ row.id # 0 /\ row'.hash = row.hash /\ lastId' = lastId
           \/ row'.id = lastId + 1 /\ lastId' = lastId + 1,
           \A d \in Callers \ {c} : seen'[d] = seen[d],
           UNCHANGED <<now, outcome>>
    PROVE  IInv'
<1> USE DEF IInv
<1>1. /\ leaseEnd'[c] = now + TTL /\ pc'[c] = "holding"
      /\ \A d \in Callers \ {c} : leaseEnd'[d] = leaseEnd[d] /\ pc'[d] = pc[d]
  BY DEF Granted, TypeOK
<1>2. now \in Nat /\ TTL \in Nat \ {0} /\ lastId \in Nat /\ row.id \in Nat
      /\ \A d \in Callers : leaseEnd[d] \in Nat
  BY TimeAssumption DEF TimeAssumption, TypeOK, Rows
<1>3. row.status \notin Final
  BY DEF Final
<1>4. \A d \in Callers : OwnsRow(d)' <=> d = c
  BY DEF OwnsRow
<1>5. RowShape'
  <2>1. row'.id # 0 /\ row'.id <= lastId'
    BY <1>2 DEF RowShape, Absent
  <2>2. QED
    BY <2>1 DEF RowShape, Final
<1>6. LeaseShape'
  BY <1>1, <1>2, <1>4 DEF LeaseShape, Ungranted
<1>7. LeaseExclusive'
  <2> SUFFICES ASSUME NEW d \in Callers, Holds(d)', ~OwnsRow(d)' PROVE (leaseEnd[d] <= now)'
    BY DEF LeaseExclusive
  <2>1. d # c /\ Holds(d)
    BY <1>1, <1>4 DEF Holds
  <2>2. CASE OwnsRow(d)
    BY <1>1, <2>1, <2>2 DEF OwnsRow, LeaseShape
  <2>3. CASE ~OwnsRow(d)
    BY <1>1, <2>1, <2>3 DEF LeaseExclusive
  <2>4. QED
    BY <2>2, <2>3
<1>8. RecheckUnowned'
  BY <1>1, <1>4 DEF RecheckUnowned
<1>9. SeenPayload'
  <2> SUFFICES ASSUME NEW d \in Callers, (pc[d] = "reclaim")'
               PROVE  (/\ seen[d].id # 0 /\ seen[d].id <= lastId
                       /\ row.id = seen[d].id => row.hash = PayloadHash[d])'
    BY DEF SeenPayload
  <2>1. d # c /\ pc[d] = "reclaim" /\ seen'[d] = seen[d]
    BY <1>1
  <2>2. /\ seen[d].id # 0 /\ seen[d].id <= lastId /\ seen[d].id \in Nat
        /\ row.id = seen[d].id => row.hash = PayloadHash[d]
    BY <2>1 DEF SeenPayload, TypeOK
  <2>3. QED
    BY <1>2, <2>1, <2>2
<1>10. AnswersAgree' /\ ResultFromLatestLease' /\ NeverNotFinalized' /\ Unanswered'
  <2>1. \A d \in Callers : outcome[d].kind \notin {"stored", "recorded"}
    BY <1>3 DEF AnswersAgree
  <2>2. row'.status \notin Final
    BY DEF Final
  <2>3. QED
    BY <1>1, <2>1, <2>2 DEF AnswersAgree, ResultFromLatestLease, NeverNotFinalized, Unanswered, Ungranted
<1>11. QED
  BY <1>5, <1>6, <1>7, <1>8, <1>9, <1>10

LEMMA MoveKeepsIInv ==
    ASSUME IInv, TypeOK', NEW c \in Callers,
           UNCHANGED <<row, lastId, now, leaseEnd>>,
           \A d \in Callers \ {c} :
               pc'[d] = pc[d] /\ seen'[d] = seen[d] /\ outcome'[d] = outcome[d],
           Ungranted(c)' => Ungranted(c),
           Holds(c)' => Holds(c),
           pc'[c] = "recheck" => ~OwnsRow(c),
           pc'[c] = "reclaim" =>
               row.status # "absent" /\ seen'[c].id = row.id /\ row.hash = PayloadHash[c],
           outcome'[c].kind = "stored" =>
               row.status \in Final /\ row.result = outcome'[c].result,
           pc'[c] # "done" => outcome'[c] = outcome[c] /\ pc[c] # "done",
           outcome'[c].kind \notin {"recorded", "not-finalized"}
    PROVE  IInv'
<1> USE DEF IInv
<1>1. \A d \in Callers : OwnsRow(d)' <=> OwnsRow(d)
  BY DEF OwnsRow
<1>2. RowShape' /\ ResultFromLatestLease'
  BY DEF RowShape, ResultFromLatestLease
<1>3. LeaseShape'
  BY <1>1 DEF LeaseShape, Ungranted
<1>4. LeaseExclusive' /\ RecheckUnowned'
  BY <1>1 DEF LeaseExclusive, RecheckUnowned, Holds
<1>5. SeenPayload'
  BY DEF SeenPayload, RowShape
<1>6. AnswersAgree' /\ NeverNotFinalized' /\ Unanswered'
  BY DEF AnswersAgree, NeverNotFinalized, Unanswered
<1>7. QED
  BY <1>2, <1>3, <1>4, <1>5, <1>6

LEMMA GiveUpKeepsIInv ==
    ASSUME IInv, TypeOK', NEW c \in Callers,
           Holds(c), OwnsRow(c),
           \/ row' = Absent
           \/ /\ row'.status \in Final /\ row'.lease = NoCaller
              /\ row'.id = row.id /\ row'.hash = row.hash
              /\ row'.result \in Verdicts /\ row'.result.status = row'.status
              /\ row'.result.by = c,
           \/ pc'[c] = "recheck" /\ outcome'[c] = outcome[c]
           \/ pc'[c] = "done" /\ outcome'[c] = Plain("released")
           \/ pc'[c] = "done" /\ outcome'[c] = Plain("recorded") /\ row'.status \in Final,
           \A d \in Callers \ {c} : pc'[d] = pc[d] /\ outcome'[d] = outcome[d],
           UNCHANGED <<lastId, now, leaseEnd, seen>>
    PROVE  IInv'
<1> USE DEF IInv
<1>1. row.status = "pending" /\ row.lease = c /\ row.status \notin Final
  BY DEF OwnsRow, Final
<1>2. row'.lease = NoCaller /\ row'.status # "pending"
  BY DEF Absent, Final
<1>3. \A d \in Callers : ~OwnsRow(d)'
  BY <1>2 DEF OwnsRow
<1>4. \A d \in Callers \ {c} : ~OwnsRow(d)
  BY <1>1 DEF OwnsRow
<1>5. RowShape'
  BY <1>1 DEF RowShape, Absent, Final
<1>6. LeaseShape'
  BY <1>2, <1>3, CallersAssumption DEF LeaseShape, Ungranted, CallersAssumption
<1>7. LeaseExclusive' /\ RecheckUnowned'
  BY <1>3, <1>4 DEF LeaseExclusive, RecheckUnowned, Holds
<1>8. SeenPayload'
  <2> SUFFICES ASSUME NEW d \in Callers, (pc[d] = "reclaim")'
               PROVE  (/\ seen[d].id # 0 /\ seen[d].id <= lastId
                       /\ row.id = seen[d].id => row.hash = PayloadHash[d])'
    BY DEF SeenPayload
  <2>1. d # c /\ pc[d] = "reclaim"
    OBVIOUS
  <2>2. QED
    BY <2>1 DEF SeenPayload, Absent
<1>9. AnswersAgree' /\ NeverNotFinalized' /\ Unanswered'
  <2>1. \A d \in Callers : outcome[d].kind \notin {"stored", "recorded"}
    BY <1>1 DEF AnswersAgree
  <2>2. \A d \in Callers : /\ outcome'[d].kind # "stored"
                           /\ outcome'[d].kind # "not-finalized"
                           /\ outcome'[d].kind = "recorded" => d = c /\ row'.status \in Final
    BY <2>1 DEF NeverNotFinalized, Plain
  <2>3. row'.status \in Final => row'.result.by = c
    BY DEF Absent, Final
  <2>4. QED
    BY <2>2, <2>3 DEF AnswersAgree, NeverNotFinalized, Unanswered, Holds
<1>10. ResultFromLatestLease'
  BY <1>1 DEF ResultFromLatestLease, LeaseShape, OwnsRow, Absent, Final
<1>11. QED
  BY <1>5, <1>6, <1>7, <1>8, <1>9, <1>10

--------------------------------------------------------------------------------

LEMMA TryAgainMoves ==
    ASSUME TypeOK, NEW c \in Callers, TryAgain(c), outcome[c].kind = "none"
    PROVE  /\ \A d \in Callers \ {c} : pc'[d] = pc[d] /\ outcome'[d] = outcome[d]
           /\ \/ pc'[c] = "insert" /\ outcome'[c] = outcome[c]
              \/ pc'[c] = "done" /\ outcome'[c] = Plain("race")
<1>1. CASE reloads[c] + 1 < MaxReloads
  BY <1>1 DEF TypeOK, TryAgain
<1>2. CASE ~(reloads[c] + 1 < MaxReloads)
  BY <1>2 DEF TypeOK, TryAgain, Ends
<1>3. QED
  BY <1>1, <1>2

LEMMA EndsMoves ==
    ASSUME TypeOK, NEW c \in Callers, NEW r, Ends(c, r)
    PROVE  /\ \A d \in Callers \ {c} : pc'[d] = pc[d] /\ outcome'[d] = outcome[d]
           /\ pc'[c] = "done" /\ outcome'[c] = r
  BY DEF TypeOK, Ends

LEMMA InsertKeepsIInv == ASSUME IInv, TypeOK', NEW c \in Callers, Insert(c) PROVE IInv'
<1>1. outcome[c].kind = "none"
  BY DEF Insert, IInv, Unanswered
<1>2. CASE row.status = "absent"
  BY <1>2, GrantKeepsIInv DEF Insert, FreshRow, Ungranted
<1>3. CASE row.status # "absent"
  BY <1>1, <1>3, MoveKeepsIInv DEF Insert, Ungranted, Holds, IInv, TypeOK
<1>4. QED
  BY <1>2, <1>3

LEMMA LoadKeepsIInv == ASSUME IInv, TypeOK', NEW c \in Callers, Load(c) PROVE IInv'
<1> USE DEF IInv
<1>1. /\ outcome[c].kind = "none" /\ pc[c] = "load"
      /\ UNCHANGED <<row, lastId, now, leaseEnd>>
  BY DEF Load, Unanswered
<1>2. CASE TryAgain(c) /\ UNCHANGED seen
  <2>1. /\ \A d \in Callers \ {c} : pc'[d] = pc[d] /\ outcome'[d] = outcome[d]
        /\ \/ pc'[c] = "insert" /\ outcome'[c] = outcome[c]
           \/ pc'[c] = "done" /\ outcome'[c] = Plain("race")
    BY <1>1, <1>2, TryAgainMoves
  <2>2. QED
    BY <1>1, <1>2, <2>1, MoveKeepsIInv DEF Ungranted, Holds, Plain
<1>3. CASE Ends(c, Plain("mismatch")) /\ UNCHANGED <<reloads, seen>>
  BY <1>1, <1>3, EndsMoves, MoveKeepsIInv DEF Ungranted, Holds, Plain
<1>4. CASE /\ row.status = "pending" /\ row.hash = PayloadHash[c]
           /\ pc' = [pc EXCEPT ![c] = "reclaim"]
           /\ seen' = [seen EXCEPT ![c] = [id |-> row.id, expires |-> row.expires]]
           /\ UNCHANGED <<reloads, outcome>>
  BY <1>1, <1>4, MoveKeepsIInv DEF Ungranted, Holds, TypeOK
<1>5. CASE /\ row.status \in Final
           /\ Ends(c, [kind |-> "stored", result |-> row.result])
           /\ UNCHANGED <<reloads, seen>>
  BY <1>1, <1>5, EndsMoves, MoveKeepsIInv DEF Ungranted, Holds
<1>6. QED
  BY <1>2, <1>3, <1>4, <1>5 DEF Load

LEMMA ReclaimKeepsIInv == ASSUME IInv, TypeOK', NEW c \in Callers, Reclaim(c) PROVE IInv'
<1> USE DEF IInv
<1>1. /\ outcome[c].kind = "none" /\ pc[c] = "reclaim" /\ UNCHANGED <<lastId, now>>
      /\ \A d \in Callers \ {c} : seen'[d] = seen[d]
  BY DEF Reclaim, Unanswered, TypeOK
<1>2. CASE Reclaimable(c)
  <2>1. /\ Granted(c) /\ row.status = "pending" /\ row.expires <= now
        /\ row.hash = PayloadHash[c] /\ row.id # 0 /\ UNCHANGED outcome
        /\ row' = [row EXCEPT !.lease = c, !.hash = PayloadHash[c],
                              !.expires = now + TTL, !.attempts = @ + 1]
    BY <1>1, <1>2 DEF Reclaim, Reclaimable, SeenPayload, RowShape
  <2>2. /\ row'.status = row.status /\ row'.lease = c /\ row'.expires = now + TTL
        /\ row'.result = row.result /\ row'.id = row.id /\ row'.hash = row.hash
    BY <2>1 DEF TypeOK, Rows
  <2>3. row.result = NoVerdict
    BY <2>1 DEF RowShape
  <2>4. QED
    BY <1>1, <2>1, <2>2, <2>3, GrantKeepsIInv DEF Ungranted
<1>3. CASE ~Reclaimable(c) /\ ExpiredLocally(c)
  <2>1. /\ \A d \in Callers \ {c} : pc'[d] = pc[d] /\ outcome'[d] = outcome[d]
        /\ \/ pc'[c] = "insert" /\ outcome'[c] = outcome[c]
           \/ pc'[c] = "done" /\ outcome'[c] = Plain("race")
    BY <1>1, <1>3, TryAgainMoves DEF Reclaim
  <2>2. QED
    BY <1>1, <1>3, <2>1, MoveKeepsIInv DEF Reclaim, Ungranted, Holds, Plain
<1>4. CASE ~Reclaimable(c) /\ ~ExpiredLocally(c)
  BY <1>1, <1>4, EndsMoves, MoveKeepsIInv DEF Reclaim, Ungranted, Holds, Plain
<1>5. QED
  BY <1>2, <1>3, <1>4

LEMMA FinalizeKeepsIInv ==
    ASSUME IInv, TypeOK', NEW c \in Callers, NEW status \in Final, Finalize(c, status)
    PROVE  IInv'
<1> USE DEF IInv
<1>1. /\ outcome[c].kind = "none" /\ Holds(c) /\ UNCHANGED <<lastId, now, leaseEnd, seen>>
  BY DEF Finalize, Unanswered, Holds
<1>2. CASE OwnsRow(c)
  <2>1. row' = [row EXCEPT !.status = status, !.lease = NoCaller, !.expires = NullTime,
                           !.result = [status |-> status, by |-> c]]
    BY <1>2 DEF Finalize
  <2>2. /\ row'.status = status /\ row'.lease = NoCaller /\ row'.id = row.id
        /\ row'.hash = row.hash /\ row'.result = [status |-> status, by |-> c]
    BY <2>1 DEF TypeOK, Rows
  <2>3. row'.result \in Verdicts
    BY <2>2 DEF Verdicts
  <2>4. CASE Ends(c, Plain("recorded"))
    BY <1>1, <1>2, <2>2, <2>3, <2>4, EndsMoves, GiveUpKeepsIInv
  <2>5. CASE pc' = [pc EXCEPT ![c] = "recheck"] /\ UNCHANGED outcome
    BY <1>1, <1>2, <2>2, <2>3, <2>5, GiveUpKeepsIInv DEF TypeOK
  <2>6. QED
    BY <1>2, <2>4, <2>5 DEF Finalize
<1>3. CASE ~OwnsRow(c)
  BY <1>1, <1>3, MoveKeepsIInv DEF Finalize, Ungranted, Holds, TypeOK
<1>4. QED
  BY <1>2, <1>3

LEMMA CancelKeepsIInv == ASSUME IInv, TypeOK', NEW c \in Callers, Cancel(c) PROVE IInv'
<1> USE DEF IInv
<1>1. /\ outcome[c].kind = "none" /\ Holds(c) /\ UNCHANGED <<lastId, now, leaseEnd, seen>>
  BY DEF Cancel, Unanswered, Holds
<1>2. CASE OwnsRow(c)
  <2>1. row' = Absent
    BY <1>2 DEF Cancel
  <2>2. CASE Ends(c, Plain("released"))
    BY <1>1, <1>2, <2>1, <2>2, EndsMoves, GiveUpKeepsIInv
  <2>3. CASE pc' = [pc EXCEPT ![c] = "recheck"] /\ UNCHANGED outcome
    BY <1>1, <1>2, <2>1, <2>3, GiveUpKeepsIInv DEF TypeOK
  <2>4. QED
    BY <1>2, <2>2, <2>3 DEF Cancel
<1>3. CASE ~OwnsRow(c)
  BY <1>1, <1>3, MoveKeepsIInv DEF Cancel, Ungranted, Holds, TypeOK
<1>4. QED
  BY <1>2, <1>3

LEMMA OtherKeepsIInv ==
    ASSUME IInv, TypeOK', NEW c \in Callers, Perform(c) \/ Recheck(c) \/ Throw(c)
    PROVE  IInv'
<1> USE DEF IInv
<1>1. outcome[c].kind = "none"
  BY DEF Perform, Recheck, Throw, Unanswered
<1>2. CASE Perform(c)
  BY <1>1, <1>2, MoveKeepsIInv DEF Perform, Ungranted, Holds, TypeOK
<1>3. CASE Recheck(c)
  <2>1. RecheckKind(c) \notin {"stored", "recorded", "not-finalized"}
    BY <1>3 DEF Recheck, RecheckKind, RecheckUnowned, OwnsRow, TypeOK, Rows
  <2>2. QED
    BY <1>1, <1>3, <2>1, EndsMoves, MoveKeepsIInv DEF Recheck, Ungranted, Holds, Plain
<1>4. CASE Throw(c)
  BY <1>1, <1>4, EndsMoves, MoveKeepsIInv DEF Throw, Ungranted, Holds, Plain
<1>5. QED
  BY <1>2, <1>3, <1>4

LEMMA TickKeepsIInv == ASSUME IInv, TypeOK', Tick PROVE IInv'
<1> USE DEF IInv, Tick
<1>1. now' = now + 1 /\ now \in Nat /\ TTL \in Nat /\ \A c \in Callers : leaseEnd[c] \in Nat
  BY TimeAssumption DEF TimeAssumption, TypeOK
<1>2. RowShape' /\ RecheckUnowned' /\ SeenPayload' /\ Unanswered'
  BY DEF RowShape, RecheckUnowned, OwnsRow, SeenPayload, Unanswered
<1>3. LeaseShape' /\ LeaseExclusive'
  BY <1>1 DEF LeaseShape, LeaseExclusive, Ungranted, Holds, OwnsRow
<1>4. AnswersAgree' /\ ResultFromLatestLease' /\ NeverNotFinalized'
  BY DEF AnswersAgree, ResultFromLatestLease, NeverNotFinalized
<1>5. QED
  BY <1>2, <1>3, <1>4

LEMMA StutterKeepsIInv == ASSUME IInv, TypeOK', UNCHANGED vars PROVE IInv'
<1> USE DEF IInv, vars
<1>1. RowShape' /\ RecheckUnowned' /\ SeenPayload' /\ Unanswered' /\ LeaseShape' /\ LeaseExclusive'
  BY DEF RowShape, RecheckUnowned, OwnsRow, SeenPayload, Unanswered, LeaseShape,
         LeaseExclusive, Ungranted, Holds
<1>2. AnswersAgree' /\ ResultFromLatestLease' /\ NeverNotFinalized'
  BY DEF AnswersAgree, ResultFromLatestLease, NeverNotFinalized
<1>3. QED
  BY <1>1, <1>2

LEMMA StepIInv == IInv /\ [Next]_vars => IInv'
<1> SUFFICES ASSUME IInv, [Next]_vars PROVE IInv'
  OBVIOUS
<1>1. TypeOK'
  BY StepTypeOK DEF IInv
<1>2. QED
  BY <1>1, InsertKeepsIInv, LoadKeepsIInv, ReclaimKeepsIInv, FinalizeKeepsIInv,
     CancelKeepsIInv, OtherKeepsIInv, TickKeepsIInv, StutterKeepsIInv
  DEF Next, Step

\* Everything below rests on this invariant.
THEOREM Invariance == Spec => []IInv
  BY InitIInv, StepIInv, PTL DEF Spec

--------------------------------------------------------------------------------
(* What the invariant gives *)

\* The lease excludes: no two executions hold a reservation whose lease still runs.
THEOREM LiveHolderUnique == Spec => []AtMostOneLiveHolder
<1>1. IInv => AtMostOneLiveHolder
  <2> SUFFICES ASSUME IInv, NEW c \in Callers, NEW d \in Callers,
                      Holds(c), Holds(d), leaseEnd[c] > now, leaseEnd[d] > now
               PROVE  c = d
    BY DEF AtMostOneLiveHolder
  <2>1. now \in Nat /\ leaseEnd[c] \in Nat /\ leaseEnd[d] \in Nat
    BY DEF IInv, TypeOK
  <2>2. OwnsRow(c) /\ OwnsRow(d)
    BY <2>1 DEF IInv, LeaseExclusive
  <2>3. QED
    BY <2>2 DEF OwnsRow
<1>2. QED
  BY <1>1, Invariance, PTL

\* An answer once returned or recorded agrees with the row ever after.
THEOREM AnswersHold == Spec => []AnswersAgree
<1>1. IInv => AnswersAgree
  BY DEF IInv
<1>2. QED
  BY <1>1, Invariance, PTL

\* The standing result was recorded by the caller the lease was granted to last.
THEOREM LatestLeaseDecides == Spec => []ResultFromLatestLease
<1>1. IInv => ResultFromLatestLease
  BY DEF IInv
<1>2. QED
  BY <1>1, Invariance, PTL

\* finalize and cancel cannot reach their FINALIZE_NOT_FOUND and CANCEL_NOT_FOUND errors.
THEOREM NotFoundUnreachable == Spec => []NeverNotFinalized
<1>1. IInv => NeverNotFinalized
  BY DEF IInv
<1>2. QED
  BY <1>1, Invariance, PTL

\* A completed or failed row is never changed or deleted.
THEOREM Finality == Spec => VerdictIsFinal
<1>1. IInv /\ [Next]_vars => [row.status \in Final => row' = row]_vars
  <2> SUFFICES ASSUME IInv, Next, row.status \in Final PROVE row' = row
    OBVIOUS
  <2>1. row.status # "absent" /\ row.status # "pending"
    BY DEF Final
  <2>2. QED
    BY <2>1
    DEF Next, Step, Tick, Insert, Load, Reclaim, Reclaimable, Perform, Finalize,
        Cancel, OwnsRow, Recheck, Throw
<1>2. QED
  BY <1>1, Invariance, PTL DEF Spec, VerdictIsFinal

\* One row, one payload, although reclaiming rewrites the hash checked earlier.
THEOREM PayloadIsStable == Spec => PayloadNeverChanges
<1>1. IInv /\ [Next]_vars => [row.id # 0 /\ row'.id = row.id => row'.hash = row.hash]_vars
  <2> SUFFICES ASSUME IInv, Next, row.id # 0, row'.id = row.id PROVE row'.hash = row.hash
    OBVIOUS
  <2> USE DEF IInv
  <2>1. row.status # "absent" /\ row \in Rows
    BY DEF RowShape, Absent, TypeOK
  <2>2. ASSUME NEW c \in Callers, Reclaim(c) PROVE row'.hash = row.hash
    <3>1. CASE ~Reclaimable(c)
      BY <2>2, <3>1 DEF Reclaim
    <3>2. CASE Reclaimable(c)
      <4>1. row.hash = PayloadHash[c]
        BY <2>2, <3>2 DEF Reclaim, Reclaimable, SeenPayload
      <4>2. QED
        BY <2>1, <2>2, <3>2, <4>1 DEF Reclaim, Rows
    <3>3. QED
      BY <3>1, <3>2
  <2>3. ASSUME NEW c \in Callers, NEW status \in Final, Finalize(c, status)
        PROVE  row'.hash = row.hash
    BY <2>1, <2>3 DEF Finalize, Rows
  <2>4. ASSUME NEW c \in Callers, Cancel(c) PROVE row'.hash = row.hash
    BY <2>4 DEF Cancel, Absent
  <2>5. CASE Tick
    BY <2>5 DEF Tick
  <2>6. ASSUME NEW c \in Callers, Insert(c) \/ Load(c) \/ Perform(c) \/ Recheck(c) \/ Throw(c)
        PROVE  row'.hash = row.hash
    BY <2>1, <2>6 DEF Insert, Load, Perform, Recheck, Throw
  <2>7. QED
    BY <2>2, <2>3, <2>4, <2>5, <2>6 DEF Next, Step
<1>2. QED
  BY <1>1, Invariance, PTL DEF Spec, PayloadNeverChanges

\* Every behaviour of the SQL protocol is a behaviour of the abstract lease.
THEOREM LeaseRefinement == Spec => ImplementsLease
<1>1. Init => Lease!Init
  <2> SUFFICES ASSUME Init PROVE Lease!Init
    OBVIOUS
  <2>1. row = Absent \/ \E h \in Hashes : row = LegacyPending(h)
    BY DEF Init
  <2>2. ASSUME NEW h \in Hashes
        PROVE  LegacyPending(h).lease = NoCaller /\ LegacyPending(h).result = NoVerdict
               /\ LegacyPending(h).expires = 0
    BY Zenon DEF Absent, LegacyPending, NullTime
  <2>3. row.lease = NoCaller /\ row.result = NoVerdict /\ row.expires = 0 /\ now = 0
    BY <2>1, <2>2 DEF Init, Absent, NullTime
  <2>4. QED
    BY <2>3 DEF Lease!Init
<1>2. IInv /\ [Next]_vars => [Lease!Next]_Lease!vars
  <2> SUFFICES ASSUME IInv, [Next]_vars PROVE [Lease!Next]_Lease!vars
    OBVIOUS
  <2> USE DEF IInv, Pending
  <2>0. row \in Rows /\ now \in Nat
    BY DEF TypeOK
  <2>1. ASSUME NEW c \in Callers, Insert(c) PROVE [Lease!Next]_Lease!vars
    <3>1. CASE row.status = "absent"
      <4>1. /\ row'.status = "pending" /\ row'.lease = c /\ row'.expires = now + TTL
            /\ row'.result = NoVerdict /\ row.result = NoVerdict /\ now' = now
        BY <2>1, <3>1 DEF Insert, FreshRow, RowShape, Absent
      <4>2. row'.expires > now' /\ row'.expires - now' = TTL
        BY <2>0, <4>1, TimeAssumption
      <4>3. Lease!Grant(c)
        BY <3>1, <4>1, <4>2 DEF Lease!Grant
      <4>4. QED
        BY <4>3 DEF Lease!Next
    <3>2. CASE row.status # "absent"
      BY <2>1, <3>2 DEF Insert, Lease!vars
    <3>3. QED
      BY <3>1, <3>2
  <2>2. ASSUME NEW c \in Callers, Reclaim(c) PROVE [Lease!Next]_Lease!vars
    <3>1. CASE Reclaimable(c)
      <4>1. /\ row'.status = "pending" /\ row'.lease = c /\ row'.expires = now + TTL
            /\ row'.result = row.result /\ row.result = NoVerdict
            /\ row.status = "pending" /\ row.expires <= now /\ now' = now
        BY <2>0, <2>2, <3>1 DEF Reclaim, Reclaimable, Rows, RowShape
      <4>2. ~(row.expires > now) /\ row'.expires > now' /\ row'.expires - now' = TTL
        BY <2>0, <4>1, TimeAssumption DEF Rows
      <4>3. Lease!Grant(c)
        BY <4>1, <4>2 DEF Lease!Grant
      <4>4. QED
        BY <4>3 DEF Lease!Next
    <3>2. CASE ~Reclaimable(c)
      BY <2>2, <3>2 DEF Reclaim, Lease!vars
    <3>3. QED
      BY <3>1, <3>2
  <2>3. ASSUME NEW c \in Callers, NEW status \in Final, Finalize(c, status)
        PROVE  [Lease!Next]_Lease!vars
    <3>1. CASE OwnsRow(c)
      <4> DEFINE v == [status |-> status, by |-> c]
      <4>1. v \in Verdicts
        BY DEF Verdicts
      <4>2. /\ row'.status # "pending" /\ row'.result = v /\ now' = now
            /\ row.status = "pending" /\ row.lease = c
        BY <2>0, <2>3, <3>1 DEF Finalize, OwnsRow, Rows, Final
      <4>3. Lease!Decide(c, v)
        BY <4>2 DEF Lease!Decide
      <4>4. QED
        BY <4>1, <4>3 DEF Lease!Next
    <3>2. CASE ~OwnsRow(c)
      BY <2>3, <3>2 DEF Finalize, Lease!vars
    <3>3. QED
      BY <3>1, <3>2
  <2>4. ASSUME NEW c \in Callers, Cancel(c) PROVE [Lease!Next]_Lease!vars
    <3>1. CASE OwnsRow(c)
      <4>1. Lease!Release(c)
        BY <2>4, <3>1 DEF Cancel, OwnsRow, RowShape, Absent, Lease!Release
      <4>2. QED
        BY <4>1 DEF Lease!Next
    <3>2. CASE ~OwnsRow(c)
      BY <2>4, <3>2 DEF Cancel, Lease!vars
    <3>3. QED
      BY <3>1, <3>2
  <2>5. ASSUME NEW c \in Callers, Load(c) \/ Perform(c) \/ Recheck(c) \/ Throw(c)
        PROVE  UNCHANGED Lease!vars
    BY <2>5 DEF Load, Perform, Recheck, Throw, Lease!vars
  <2>6. CASE Tick
    <3>1. row' = row /\ now' = now + 1
      BY <2>6 DEF Tick
    <3>2. CASE row.status = "pending" /\ row.expires > now
      <4>1. IF row.status = "pending" /\ row.expires > now + 1
            THEN row.expires - (now + 1) = (row.expires - now) - 1 ELSE (row.expires - now) - 1 = 0
        BY <2>0, <3>2 DEF Rows
      <4>2. row.expires - now > 0
        BY <2>0, <3>2 DEF Rows
      <4>3. Lease!Tick
        BY <3>1, <3>2, <4>1, <4>2 DEF Lease!Tick
      <4>4. QED
        BY <4>3 DEF Lease!Next
    <3>3. CASE ~(row.status = "pending" /\ row.expires > now)
      <4>1. ~(row.status = "pending" /\ row.expires > now + 1)
        BY <2>0, <3>3 DEF Rows
      <4>2. QED
        BY <3>1, <3>3, <4>1 DEF Lease!vars
    <3>4. QED
      BY <3>2, <3>3
  <2>7. CASE UNCHANGED vars
    BY <2>7 DEF vars, Lease!vars
  <2>8. QED
    BY <2>1, <2>2, <2>3, <2>4, <2>5, <2>6, <2>7 DEF Next, Step
<1>3. QED
  BY <1>1, <1>2, Invariance, PTL DEF Spec, ImplementsLease, Lease!Spec

================================================================================
