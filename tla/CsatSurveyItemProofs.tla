-------------------------- MODULE CsatSurveyItemProofs --------------------------
(***************************************************************************)
(* Theorems about the survey of one service order, for any set of          *)
(* contacts, number of executions alive at once, lease, timeout, delay,    *)
(* number of attempts and number of failures.                              *)
(***************************************************************************)
EXTENDS CsatSurveyItem, FiniteSetTheorems, TLAPS

LEMMA FreeAreTyped ==
    /\ FreeSlot \in ExecStates /\ FreeSlot.phase = "off" /\ FreeSlot.result = "none"
    /\ FreeRow \in RowStates /\ FreeRow.status = "absent" /\ FreeRow.holder = None
    /\ FreeRow.attempts = 0 /\ FreeRow.result = "none"
  BY SurveyAssumption DEF FreeSlot, ExecStates, FreeRow, RowStates

LEMMA TruthInit == Init => TruthInv
<1> SUFFICES ASSUME Init PROVE TruthInv
  OBVIOUS
<1>1. /\ child \in ChildStates /\ child.pc = "off" /\ child.exec = None
  BY SurveyAssumption DEF Init, ChildStates, Mutating, Settled
<1>2. TypeOK
  BY <1>1, FreeAreTyped, SurveyAssumption DEF Init, TypeOK
<1>3. ASSUME NEW k \in Keys PROVE RowOk(k)
  <2>1. rows[k] = FreeRow
    BY DEF Init
  <2>2. QED
    BY <2>1, FreeAreTyped DEF RowOk, Final
<1>4. ASSUME NEW s \in Slots PROVE ExecOk(s)
  <2>1. execs[s] = FreeSlot
    BY DEF Init
  <2>2. QED
    BY <2>1, FreeAreTyped DEF ExecOk
<1>5. QED
  BY <1>1, <1>2, <1>3, <1>4 DEF TruthInv, Honest, Awaits

--------------------------------------------------------------------------------
(* What the child does with an answer, an error or a timeout *)

LEMMA AtIs ==
    ASSUME child \in ChildStates, NEW pc \in {"off", "customer", "contact", "failed"} \cup Mutating \cup Settled
    PROVE  /\ At(pc) \in ChildStates /\ At(pc).pc = pc /\ At(pc).exec = None
           /\ At(pc).contact = child.contact /\ At(pc).motive = child.motive
<1>1. 0 \in 0..MaxAttempts - 1 /\ 0 \in Nat
  BY SurveyAssumption
<1>2. QED
  BY <1>1 DEF At, ChildStates

LEMMA ForwardsIs ==
    ASSUME child \in ChildStates, NEW motive \in Motives
    PROVE  /\ Forwards(motive) \in ChildStates /\ Honest(Forwards(motive))
           /\ Forwards(motive).exec = None
<1>1. /\ At("forward") \in ChildStates /\ At("forward").pc = "forward"
      /\ At("forward").exec = None
  BY AtIs DEF Mutating
<1> DEFINE ch == Forwards(motive)
<1>2. ch \in ChildStates /\ ch.pc = "forward" /\ ch.exec = None /\ ch.motive = motive
  BY <1>1 DEF Forwards, ChildStates
<1> HIDE DEF ch
<1>3. QED
  BY <1>2 DEF Honest, ch

LEMMA FailsIs ==
    ASSUME child \in ChildStates
    PROVE  Fails \in ChildStates /\ Honest(Fails) /\ Fails.exec = None
<1>1. Fails \in ChildStates /\ Fails.pc = "failed" /\ Fails.exec = None
  BY AtIs DEF Fails
<1>2. QED
  BY <1>1 DEF Honest

LEMMA AgainIs ==
    ASSUME child \in ChildStates, Honest(child)
    PROVE  Again \in ChildStates /\ Honest(Again) /\ Again.exec = None
<1>1. CASE child.tries + 1 < MaxAttempts
  <2> DEFINE ch == [child EXCEPT !.exec = None, !.tries = child.tries + 1, !.timer = RetryDelay]
  <2>1. child.tries + 1 \in 0..MaxAttempts - 1
    BY <1>1, SurveyAssumption DEF ChildStates
  <2>2. /\ ch \in ChildStates /\ ch.pc = child.pc /\ ch.contact = child.contact
        /\ ch.motive = child.motive /\ ch.exec = None
    BY <2>1, SurveyAssumption DEF ChildStates
  <2>3. Again = ch
    BY <1>1 DEF Again
  <2> HIDE DEF ch
  <2>4. QED
    BY <2>2, <2>3 DEF Honest
<1>2. CASE ~(child.tries + 1 < MaxAttempts)
  BY <1>2, FailsIs DEF Again
<1>3. QED
  BY <1>1, <1>2

LEMMA ThrownIs ==
    ASSUME TruthInv
    PROVE  Thrown \in ChildStates /\ Honest(Thrown) /\ Thrown.exec = None
  BY FailsIs, AgainIs DEF Thrown, TruthInv, TypeOK

\* The child hears from an execution that ends, or does not.
Heard ==
    \/ child' \in ChildStates /\ Honest(child') /\ child'.exec = None
    \/ child' = child

LEMMA ThrowsHeard ==
    ASSUME TruthInv, NEW s \in Slots, Throws(s)
    PROVE  Heard
  BY ThrownIs DEF Throws, Heard

\* Only an applied mutation is answered with success.
LEMMA AnswersHeard ==
    ASSUME TruthInv, NEW s \in Slots, execs[s].phase # "off",
           NEW result \in Results \cup {"pending", "transient"},
           result = "transient" => execs[s].key[1] = "register",
           result = "success" => applied[execs[s].key] > 0,
           Answers(s, result)
    PROVE  Heard
<1>1. CASE child.exec # s
  BY <1>1 DEF Answers, Heard
<1>2. CASE child.exec = s
  <2>1. child \in ChildStates /\ Honest(child) /\ child.pc \in Mutating /\ execs[s].key = KeyOf
    BY <1>2, SurveyAssumption DEF TruthInv, TypeOK, Awaits
  <2>2. execs[s].key[1] = child.pc
    BY <2>1 DEF KeyOf
  <2>3. CASE child.pc = "send"
    <3>1. child' = AfterSend(result) /\ execs[s].key = <<"send", child.contact>>
      BY <1>2, <2>1, <2>3 DEF Answers, KeyOf
    <3>2. CASE result = "success"
      <4>1. child' = At("register")
        BY <3>1, <3>2 DEF AfterSend
      <4>2. /\ At("register") \in ChildStates /\ At("register").pc = "register"
            /\ At("register").exec = None /\ At("register").contact = child.contact
        BY <2>1, AtIs DEF Mutating
      <4>3. Honest(At("register"))
        BY <2>1, <2>3, <3>1, <3>2, <4>2 DEF Honest
      <4>4. QED
        BY <4>1, <4>2, <4>3 DEF Heard
    <3>3. CASE result = "response-error"
      <4>1. child' = Forwards("send")
        BY <3>1, <3>3 DEF AfterSend
      <4>2. QED
        BY <2>1, <4>1, ForwardsIs DEF Heard, Motives
    <3>4. CASE result \in {"pending", "unclear"}
      BY <2>1, <3>1, <3>4, FailsIs DEF AfterSend, Heard
    <3>5. result # "transient"
      BY <2>2, <2>3
    <3>6. QED
      BY <3>2, <3>3, <3>4, <3>5 DEF Results, Refusals
  <2>4. CASE child.pc = "register"
    <3>1. child' = AfterRegister(result) /\ execs[s].key = <<"register", child.contact>>
      BY <1>2, <2>1, <2>4 DEF Answers, KeyOf
    <3>2. CASE result = "success"
      <4>1. child' = At("recorded")
        BY <3>1, <3>2 DEF AfterRegister, Refusals
      <4>2. /\ At("recorded") \in ChildStates /\ At("recorded").pc = "recorded"
            /\ At("recorded").exec = None /\ At("recorded").contact = child.contact
        BY <2>1, AtIs DEF Settled
      <4>3. Honest(At("recorded"))
        BY <2>1, <2>4, <3>1, <3>2, <4>2 DEF Honest
      <4>4. QED
        BY <4>1, <4>2, <4>3 DEF Heard
    <3>3. CASE result \in {"transient", "pending"}
      BY <2>1, <3>1, <3>3, AgainIs DEF AfterRegister, Heard, Refusals
    <3>4. CASE result \in Refusals
      BY <2>1, <3>1, <3>4, FailsIs DEF AfterRegister, Heard, Refusals
    <3>5. QED
      BY <3>2, <3>3, <3>4 DEF Results
  <2>5. CASE child.pc = "forward"
    <3>1. child' = AfterForward(result) /\ execs[s].key = <<"forward", child.motive>>
      BY <1>2, <2>1, <2>5 DEF Answers, KeyOf
    <3>2. CASE result = "success"
      <4>1. child' = At("forwarded")
        BY <3>1, <3>2 DEF AfterForward
      <4>2. /\ At("forwarded") \in ChildStates /\ At("forwarded").pc = "forwarded"
            /\ At("forwarded").exec = None /\ At("forwarded").motive = child.motive
        BY <2>1, AtIs DEF Settled
      <4>3. Honest(At("forwarded"))
        BY <2>1, <2>5, <3>1, <3>2, <4>2 DEF Honest
      <4>4. QED
        BY <4>1, <4>2, <4>3 DEF Heard
    <3>3. CASE result # "success"
      BY <2>1, <3>1, <3>3, FailsIs DEF AfterForward, Heard
    <3>4. QED
      BY <3>2, <3>3
  <2>6. QED
    BY <2>1, <2>3, <2>4, <2>5 DEF Mutating
<1>3. QED
  BY <1>1, <1>2

--------------------------------------------------------------------------------
(* How a step of an execution is put together *)

\* An execution that ends leaves the child waiting for a live one of its step, or for none.
LEMMA ChildAfterEnd ==
    ASSUME TruthInv, NEW s \in Slots, Heard, Free(s), UNCHANGED applied
    PROVE  child' \in ChildStates /\ Honest(child)' /\ Awaits'
<1>1. child' \in ChildStates /\ Honest(child)'
  BY DEF Heard, TruthInv, TypeOK, Honest
<1>2. Awaits'
  <2>1. CASE child'.exec = None
    BY <2>1 DEF Awaits
  <2>2. CASE child' = child
    <3>1. /\ child \in ChildStates /\ Awaits
          /\ \A r \in Slots : execs'[r] = IF r = s THEN FreeSlot ELSE execs[r]
      BY DEF TruthInv, TypeOK, Free
    <3>2. QED
      BY <2>2, <3>1, FreeAreTyped DEF Awaits, ChildStates, KeyOf
  <2>3. QED
    BY <2>1, <2>2 DEF Heard
<1>3. QED
  BY <1>1, <1>2

\* The row keeps what it says, or is stored by its holder; a freed execution holds none.
Kept(k, s) ==
    rows'[k] = IF rows[k].holder = s THEN [rows[k] EXCEPT !.holder = None] ELSE rows[k]

LEMMA ExecEnds ==
    ASSUME TruthInv, NEW s \in Slots, Free(s), Heard, UNCHANGED applied, faults' \in 0..MaxFaults,
           rows' \in [Keys -> RowStates],
           \A k \in Keys : Kept(k, s) \/ (RowOk(k)' /\ rows'[k].holder = None)
    PROVE  TruthInv'
<1>1. execs' \in [Slots -> ExecStates] /\ execs'[s] = FreeSlot
  BY FreeAreTyped DEF Free, TruthInv, TypeOK
<1>2. child' \in ChildStates /\ Honest(child)' /\ Awaits'
  BY ChildAfterEnd
<1>3. TypeOK'
  BY <1>1, <1>2 DEF TruthInv, TypeOK
<1>4. ASSUME NEW k \in Keys PROVE RowOk(k)'
  <2>1. CASE Kept(k, s)
    <3>1. rows[k] \in RowStates /\ RowOk(k)
      BY DEF TruthInv, TypeOK
    <3>2. CASE rows[k].holder = s
      <4>1. /\ rows'[k].status = rows[k].status /\ rows'[k].holder = None
            /\ rows'[k].left = rows[k].left /\ rows'[k].attempts = rows[k].attempts
            /\ rows'[k].result = rows[k].result
        BY <2>1, <3>1, <3>2 DEF Kept, RowStates
      <4>2. QED
        BY <3>1, <4>1 DEF RowOk
    <3>3. CASE rows[k].holder # s
      <4>1. rows'[k] = rows[k]
        BY <2>1, <3>3 DEF Kept
      <4>2. rows[k].holder # None => execs'[rows[k].holder] = execs[rows[k].holder]
        BY <3>1, <3>3 DEF Free, RowStates, TruthInv, TypeOK
      <4>3. QED
        BY <3>1, <4>1, <4>2 DEF RowOk
    <3>4. QED
      BY <3>2, <3>3
  <2>2. QED
    BY <2>1
<1>5. ASSUME NEW r \in Slots PROVE ExecOk(r)'
  <2>1. CASE r = s
    BY <1>1, <2>1, FreeAreTyped DEF ExecOk
  <2>2. CASE r # s
    <3>1. execs'[r] = execs[r] /\ ExecOk(r)
      BY <2>2 DEF Free, TruthInv, TypeOK
    <3>2. QED
      BY <3>1 DEF ExecOk
  <2>3. QED
    BY <2>1, <2>2
<1>6. QED
  BY <1>2, <1>3, <1>4, <1>5 DEF TruthInv

LEMMA FaultCounts ==
    ASSUME TruthInv, NEW kind, Fault(kind)
    PROVE  faults' = faults + 1 /\ faults' \in 0..MaxFaults
  BY SurveyAssumption DEF Fault, TruthInv, TypeOK

\* An execution goes on, the child goes on waiting for it.
LEMMA ExecMoves ==
    ASSUME TruthInv, NEW s \in Slots, NEW e \in ExecStates, execs[s].phase # "off",
           execs' = [execs EXCEPT ![s] = e], UNCHANGED child, faults' \in 0..MaxFaults,
           e.key = execs[s].key, e.phase # "off", e.phase = "store" <=> e.result # "none",
           execs[s].phase \in {"call", "store"} => e.phase \in {"call", "store"},
           applied' \in [Keys -> Nat], \A k \in Keys : applied'[k] >= applied[k],
           e.result = "success" => applied'[e.key] > 0,
           rows' \in [Keys -> RowStates], \A k \in Keys : rows'[k] = rows[k] \/ RowOk(k)'
    PROVE  TruthInv'
<1>1. execs' \in [Slots -> ExecStates] /\ execs'[s] = e
  BY DEF TruthInv, TypeOK
<1>2. TypeOK'
  BY <1>1 DEF TruthInv, TypeOK
<1>3. ASSUME NEW k \in Keys PROVE RowOk(k)'
  <2>1. CASE rows'[k] = rows[k]
    <3>1. /\ rows[k] \in RowStates /\ RowOk(k)
          /\ applied[k] \in Nat /\ applied'[k] \in Nat /\ applied'[k] >= applied[k]
      BY DEF TruthInv, TypeOK
    <3>2. rows[k].holder = s => e.phase \in {"call", "store"} /\ e.key = k
      BY <3>1, SurveyAssumption DEF RowOk
    <3>3. \A r \in Slots \ {s} : execs'[r] = execs[r]
      BY DEF TruthInv, TypeOK
    <3>4. rows[k].holder \in Slots \cup {None}
      BY <3>1 DEF RowStates
    <3>5. rows[k].holder # None =>
             execs'[rows[k].holder].phase \in {"call", "store"} /\ execs'[rows[k].holder].key = k
      BY <1>1, <3>1, <3>2, <3>3, <3>4 DEF RowOk
    <3>6. QED
      BY <2>1, <3>1, <3>5 DEF RowOk
  <2>2. QED
    BY <2>1
<1>4. ASSUME NEW r \in Slots PROVE ExecOk(r)'
  <2>1. ExecOk(r) /\ execs[r] \in ExecStates
    BY DEF TruthInv, TypeOK
  <2>2. CASE r = s
    BY <1>1, <2>1, <2>2 DEF ExecOk
  <2>3. CASE r # s
    <3>1. execs'[r] = execs[r]
      BY <2>3 DEF TruthInv, TypeOK
    <3>2. \A k \in Keys : applied[k] \in Nat /\ applied'[k] \in Nat
      BY DEF TruthInv, TypeOK
    <3>3. execs[r].result = "success" => execs[r].key \in Keys
      BY <2>1 DEF ExecOk
    <3>4. QED
      BY <2>1, <3>1, <3>2, <3>3 DEF ExecOk
  <2>4. QED
    BY <2>2, <2>3
<1>5. Honest(child)'
  <2>1. child \in ChildStates /\ Honest(child) /\ applied \in [Keys -> Nat]
    BY DEF TruthInv, TypeOK
  <2>2. ASSUME NEW k \in Keys, applied[k] > 0 PROVE applied'[k] > 0
    BY <2>1, <2>2
  <2>3. /\ \A c \in Contacts : <<"send", c>> \in Keys /\ <<"register", c>> \in Keys
        /\ \A motive \in Motives : <<"forward", motive>> \in Keys
    BY DEF Keys
  <2>4. QED
    BY <2>1, <2>2, <2>3 DEF Honest
<1>6. Awaits'
  BY <1>1 DEF Awaits, KeyOf, TruthInv, TypeOK, ChildStates
<1>7. QED
  BY <1>2, <1>3, <1>4, <1>5, <1>6 DEF TruthInv

\* The child moves on by itself.
LEMMA ChildMoves ==
    ASSUME TruthInv, child' \in ChildStates, Honest(child'), child'.exec = None,
           UNCHANGED <<execs, rows, faults, applied>>
    PROVE  TruthInv'
<1>1. TypeOK'
  BY DEF TruthInv, TypeOK
<1>2. (\A k \in Keys : RowOk(k)') /\ \A s \in Slots : ExecOk(s)'
  BY DEF TruthInv, RowOk, ExecOk
<1>3. Honest(child)' /\ Awaits'
  BY DEF Honest, Awaits
<1>4. QED
  BY <1>1, <1>2, <1>3 DEF TruthInv

--------------------------------------------------------------------------------
(* Steps of the child *)

LEMMA TriggerTruth == TruthInv /\ Trigger => TruthInv'
<1> SUFFICES ASSUME TruthInv, Trigger PROVE TruthInv'
  OBVIOUS
<1>1. At("customer") \in ChildStates /\ At("customer").pc = "customer" /\ At("customer").exec = None
  BY AtIs DEF TruthInv, TypeOK
<1> DEFINE ch == [At("customer") EXCEPT !.contact = None, !.motive = "none"]
<1>2. ch \in ChildStates /\ ch.pc = "customer" /\ ch.exec = None
  BY <1>1 DEF ChildStates
<1>3. child' = ch /\ UNCHANGED <<execs, rows, faults, applied>>
  BY DEF Trigger
<1> HIDE DEF ch
<1>4. Honest(ch)
  BY <1>2 DEF Honest
<1>5. QED
  BY <1>2, <1>3, <1>4, ChildMoves

LEMMA FindCustomerTruth == TruthInv /\ FindCustomer => TruthInv'
<1> SUFFICES ASSUME TruthInv, FindCustomer PROVE TruthInv'
  OBVIOUS
<1>1. child' \in {At("contact"), Forwards("lookup")} /\ UNCHANGED <<execs, rows, faults, applied>>
  BY DEF FindCustomer
<1>2. At("contact") \in ChildStates /\ At("contact").pc = "contact" /\ At("contact").exec = None
  BY AtIs DEF TruthInv, TypeOK
<1>3. Honest(At("contact"))
  BY <1>2 DEF Honest
<1>4. /\ Forwards("lookup") \in ChildStates /\ Honest(Forwards("lookup"))
      /\ Forwards("lookup").exec = None
  BY ForwardsIs DEF TruthInv, TypeOK, Motives
<1>5. QED
  BY <1>1, <1>2, <1>3, <1>4, ChildMoves

LEMMA FindContactTruth == TruthInv /\ FindContact => TruthInv'
<1> SUFFICES ASSUME TruthInv, FindContact PROVE TruthInv'
  OBVIOUS
<1>1. PICK reply \in OpaReplies, number \in Contacts \cup {None} :
         child' = IF ContactFound(reply, number)
                  THEN [At("send") EXCEPT !.contact = number] ELSE Forwards("lookup")
  BY DEF FindContact
<1>2. UNCHANGED <<execs, rows, faults, applied>>
  BY DEF FindContact
<1>3. CASE ContactFound(reply, number)
  <2>1. At("send") \in ChildStates /\ At("send").pc = "send" /\ At("send").exec = None
    BY AtIs DEF TruthInv, TypeOK, Mutating
  <2> DEFINE ch == [At("send") EXCEPT !.contact = number]
  <2>2. ch \in ChildStates /\ ch.pc = "send" /\ ch.exec = None /\ ch.contact = number
    BY <2>1 DEF ChildStates
  <2>3. child' = ch
    BY <1>1, <1>3
  <2>4. number \in Contacts
    BY <1>3 DEF ContactFound
  <2> HIDE DEF ch
  <2>5. Honest(ch)
    BY <2>2, <2>4 DEF Honest
  <2>6. QED
    BY <1>2, <2>2, <2>3, <2>5, ChildMoves
<1>4. CASE ~ContactFound(reply, number)
  BY <1>1, <1>2, <1>4, ForwardsIs, ChildMoves DEF TruthInv, TypeOK, Motives
<1>5. QED
  BY <1>3, <1>4

LEMMA TimeoutTruth == TruthInv /\ Timeout => TruthInv'
  BY ThrownIs, ChildMoves DEF Timeout

\* The activity that is started has the key of the step the child is at.
LEMMA KeyOfIsKey ==
    ASSUME child.pc \in Mutating, Honest(child)
    PROVE  KeyOf \in Keys
  BY DEF KeyOf, Keys, Honest, Mutating

LEMMA StartTruth == TruthInv /\ Start => TruthInv'
<1> SUFFICES ASSUME TruthInv, Start PROVE TruthInv'
  OBVIOUS
<1> DEFINE e == [FreeSlot EXCEPT !.phase = "reserve", !.key = KeyOf]
<1>1. PICK s \in Slots :
         /\ execs[s].phase = "off"
         /\ execs' = [execs EXCEPT ![s] = e]
         /\ child' = [child EXCEPT !.exec = s, !.timer = ActivityTimeout]
  BY DEF Start, FreeSlots
<1>2. UNCHANGED <<rows, faults, applied>> /\ child.pc \in Mutating
  BY DEF Start
<1>3. child \in ChildStates /\ Honest(child) /\ KeyOf \in Keys
  BY <1>2, KeyOfIsKey DEF TruthInv, TypeOK
<1>4. /\ e \in ExecStates /\ e.phase = "reserve" /\ e.key = KeyOf /\ e.result = "none"
  BY <1>3, FreeAreTyped DEF ExecStates
<1> HIDE DEF e
<1>5. /\ child' \in ChildStates /\ child'.exec = s /\ child'.pc = child.pc
      /\ child'.contact = child.contact /\ child'.motive = child.motive
  BY <1>1, <1>3, SurveyAssumption DEF ChildStates
<1>6. execs' \in [Slots -> ExecStates] /\ execs'[s] = e
  BY <1>1, <1>4 DEF TruthInv, TypeOK
<1>7. TypeOK'
  BY <1>2, <1>5, <1>6 DEF TruthInv, TypeOK
<1>8. ASSUME NEW k \in Keys PROVE RowOk(k)'
  <2>1. RowOk(k) /\ rows[k].holder \in Slots \cup {None} /\ rows[k].holder # s
    BY <1>1, SurveyAssumption DEF TruthInv, TypeOK, RowStates, RowOk
  <2>2. rows[k].holder # None => execs'[rows[k].holder] = execs[rows[k].holder]
    BY <1>1, <2>1 DEF TruthInv, TypeOK
  <2>3. QED
    BY <1>2, <2>1, <2>2 DEF RowOk
<1>9. ASSUME NEW r \in Slots PROVE ExecOk(r)'
  <2>1. CASE r = s
    BY <1>3, <1>4, <1>6, <2>1 DEF ExecOk
  <2>2. CASE r # s
    BY <1>1, <1>2, <2>2 DEF ExecOk, TruthInv, TypeOK
  <2>3. QED
    BY <2>1, <2>2
<1>10. Honest(child)'
  BY <1>2, <1>3, <1>5 DEF Honest
<1>11. Awaits'
  BY <1>2, <1>4, <1>5, <1>6 DEF Awaits, KeyOf
<1>12. QED
  BY <1>7, <1>8, <1>9, <1>10, <1>11 DEF TruthInv

--------------------------------------------------------------------------------
(* Steps of the executions *)

LEMMA LeasedIs ==
    ASSUME TruthInv, NEW s \in Slots, execs[s].phase = "reserve"
    PROVE  /\ execs[s] \in ExecStates /\ execs[s].key \in Keys /\ execs[s].result = "none"
           /\ Row(s) = rows[execs[s].key] /\ Row(s) \in RowStates /\ RowOk(execs[s].key)
           /\ \A k \in Keys : rows[k].holder # s
           /\ Leased(s) \in RowStates /\ Leased(s).status = "pending" /\ Leased(s).holder = s
           /\ Leased(s).left = LeaseLife /\ Leased(s).result = Row(s).result
           /\ Leased(s).attempts = Row(s).attempts + 1
<1>1. execs[s] \in ExecStates /\ execs[s].key \in Keys /\ execs[s].result = "none"
  BY DEF TruthInv, TypeOK, ExecOk
<1>2. Row(s) = rows[execs[s].key] /\ Row(s) \in RowStates /\ RowOk(execs[s].key)
  BY <1>1 DEF Row, TruthInv, TypeOK
<1>3. \A k \in Keys : rows[k].holder # s
  BY SurveyAssumption DEF TruthInv, RowOk
<1> DEFINE row == Row(s)
<1>4. row \in RowStates /\ row.attempts + 1 \in Nat /\ LeaseLife \in 0..LeaseLife
  BY <1>2, SurveyAssumption DEF RowStates
<1>5. Leased(s) = [row EXCEPT !.status = "pending", !.holder = s, !.left = LeaseLife,
                              !.attempts = row.attempts + 1]
  BY DEF Leased
<1> HIDE DEF row
<1>6. /\ Leased(s) \in RowStates /\ Leased(s).status = "pending" /\ Leased(s).holder = s
      /\ Leased(s).left = LeaseLife /\ Leased(s).result = row.result
      /\ Leased(s).attempts = row.attempts + 1
  BY <1>4, <1>5 DEF RowStates
<1>7. QED
  BY <1>1, <1>2, <1>3, <1>6 DEF row

LEMMA ReserveTruth ==
    ASSUME TruthInv, NEW s \in Slots, Reserve(s)
    PROVE  TruthInv'
<1> DEFINE key == execs[s].key
<1>1. execs[s].phase = "reserve" /\ UNCHANGED applied
  BY DEF Reserve
<1>2. /\ execs[s] \in ExecStates /\ key \in Keys /\ execs[s].result = "none"
      /\ Row(s) = rows[key] /\ Row(s) \in RowStates /\ RowOk(key)
      /\ \A k \in Keys : rows[k].holder # s
      /\ Leased(s) \in RowStates /\ Leased(s).status = "pending" /\ Leased(s).holder = s
      /\ Leased(s).left = LeaseLife /\ Leased(s).result = Row(s).result
      /\ Leased(s).attempts = Row(s).attempts + 1
  BY <1>1, LeasedIs
<1>3. rows \in [Keys -> RowStates] /\ applied \in [Keys -> Nat] /\ faults \in 0..MaxFaults
  BY DEF TruthInv, TypeOK
<1>4. UNCHANGED rows => \A k \in Keys : Kept(k, s)
  BY <1>2 DEF Kept
<1>5. CASE /\ rows' = [rows EXCEPT ![key] = Leased(s)]
           /\ execs' = [execs EXCEPT ![s].phase = "call"]
           /\ UNCHANGED <<child, faults>>
  <2> DEFINE e == [execs[s] EXCEPT !.phase = "call"]
  <2>1. /\ e \in ExecStates /\ e.phase = "call" /\ e.key = key /\ e.result = "none"
        /\ execs' = [execs EXCEPT ![s] = e]
    BY <1>2, <1>5 DEF ExecStates, TruthInv, TypeOK
  <2> HIDE DEF e
  <2>2. rows' \in [Keys -> RowStates] /\ rows'[key] = Leased(s)
    BY <1>2, <1>3, <1>5
  <2>3. RowOk(key)'
    <3>1. execs'[s] = e
      BY <2>1 DEF TruthInv, TypeOK
    <3>2. QED
      BY <1>1, <1>2, <2>1, <2>2, <3>1 DEF RowOk, Final
  <2>4. \A k \in Keys : rows'[k] = rows[k] \/ RowOk(k)'
    BY <1>3, <1>5, <2>3
  <2>5. \A k \in Keys : applied'[k] >= applied[k]
    BY <1>1, <1>3
  <2> HIDE DEF key
  <2>6. QED
    BY <1>1, <1>3, <1>5, <2>1, <2>2, <2>4, <2>5, ExecMoves DEF key
<1>6. CASE Row(s).status = "pending" /\ Answers(s, "pending") /\ Free(s) /\ UNCHANGED <<rows, faults>>
  BY <1>1, <1>3, <1>4, <1>6, AnswersHeard, ExecEnds
<1>7. CASE /\ Row(s).status \in Final /\ Answers(s, Row(s).result)
           /\ Free(s) /\ UNCHANGED <<rows, faults>>
  <2>1. /\ Row(s).result \in Results
        /\ Row(s).result = "success" => applied[key] > 0
    BY <1>2, <1>7 DEF RowOk, RowStates
  <2>2. Row(s).result # "transient"
    BY <2>1 DEF Results, Refusals
  <2>3. QED
    BY <1>1, <1>3, <1>4, <1>7, <2>1, <2>2, AnswersHeard, ExecEnds
<1>8. CASE /\ Fault("reserve") /\ Throws(s) /\ Free(s)
           /\ UNCHANGED rows \/ rows' = [rows EXCEPT ![key] = [Leased(s) EXCEPT !.holder = None]]
  <2>1. Heard /\ faults' \in 0..MaxFaults
    BY <1>8, ThrowsHeard, FaultCounts
  <2>2. CASE UNCHANGED rows
    BY <1>1, <1>3, <1>4, <1>8, <2>1, <2>2, ExecEnds
  <2>3. CASE rows' = [rows EXCEPT ![key] = [Leased(s) EXCEPT !.holder = None]]
    <3> DEFINE row == [Leased(s) EXCEPT !.holder = None]
    <3>1. /\ row \in RowStates /\ row.status = "pending" /\ row.holder = None
          /\ row.result = Row(s).result
      BY <1>2 DEF RowStates
    <3>2. rows' = [rows EXCEPT ![key] = row]
      BY <2>3
    <3> HIDE DEF row
    <3>3. rows' \in [Keys -> RowStates] /\ rows'[key] = row
      BY <1>2, <1>3, <3>1, <3>2
    <3>4. row.result = "success" => applied'[key] > 0
      BY <1>1, <1>2, <3>1 DEF RowOk
    <3>5. ASSUME NEW k \in Keys
          PROVE  Kept(k, s) \/ (RowOk(k)' /\ rows'[k].holder = None)
      <4>1. CASE k = key
        <5>1. rows'[k] = row /\ (row.result = "success" => applied'[k] > 0)
          BY <3>3, <3>4, <4>1
        <5>2. QED
          BY <3>1, <5>1 DEF RowOk, Final
      <4>2. CASE k # key
        <5>1. rows'[k] = rows[k] /\ rows[k].holder # s
          BY <1>2, <1>3, <3>2, <4>2
        <5>2. QED
          BY <5>1 DEF Kept
      <4>3. QED
        BY <4>1, <4>2
    <3>6. QED
      BY <1>1, <1>8, <2>1, <3>3, <3>5, ExecEnds
  <2>4. QED
    BY <1>8, <2>2, <2>3
<1>9. QED
  BY <1>5, <1>6, <1>7, <1>8 DEF Reserve, Final

LEMMA CallTruth ==
    ASSUME TruthInv, NEW s \in Slots, Call(s)
    PROVE  TruthInv'
<1> DEFINE key == execs[s].key
<1>1. PICK result \in Results \cup {"transient"} :
         /\ Replied(s, result)
         /\ Applies(s) \/ (result # "success" /\ UNCHANGED applied)
  BY DEF Call, Results, Refusals
<1>2. execs[s].phase = "call" /\ UNCHANGED <<child, rows>>
  BY DEF Call
<1>3. /\ execs[s] \in ExecStates /\ key \in Keys
      /\ rows \in [Keys -> RowStates] /\ applied \in [Keys -> Nat]
  BY <1>2 DEF TruthInv, TypeOK, ExecOk
<1>4. faults' \in 0..MaxFaults
  <2>1. UNCHANGED faults \/ \E kind \in {"transient", "lost"} : Fault(kind)
    BY DEF Call
  <2>2. QED
    BY <2>1, FaultCounts DEF TruthInv, TypeOK
<1> DEFINE e == [execs[s] EXCEPT !.phase = "store", !.result = result]
<1>5. e \in ExecStates /\ e.phase = "store" /\ e.result = result /\ e.key = key
  BY <1>3 DEF ExecStates
<1>6. execs' = [execs EXCEPT ![s] = e]
  BY <1>1 DEF Replied, TruthInv, TypeOK, ExecStates
<1>7. /\ applied' \in [Keys -> Nat] /\ \A k \in Keys : applied'[k] >= applied[k]
      /\ result = "success" => applied'[key] > 0
  <2>1. CASE Applies(s)
    <3>1. applied' = [applied EXCEPT ![key] = applied[key] + 1]
      BY <2>1 DEF Applies
    <3>2. applied[key] + 1 \in Nat /\ applied[key] + 1 > 0 /\ applied[key] + 1 >= applied[key]
      BY <1>3
    <3>3. QED
      BY <1>3, <3>1, <3>2
  <2>2. CASE result # "success" /\ UNCHANGED applied
    BY <1>3, <2>2
  <2>3. QED
    BY <1>1, <2>1, <2>2
<1>8. result # "none"
  BY DEF Results, Refusals
<1> HIDE DEF e
<1>9. QED
  BY <1>2, <1>3, <1>4, <1>5, <1>6, <1>7, <1>8, ExecMoves

LEMMA StallTruth ==
    ASSUME TruthInv, NEW s \in Slots, Stall(s)
    PROVE  TruthInv'
<1> DEFINE e == [execs[s] EXCEPT !.stalled = TRUE]
<1>1. execs[s].phase # "off" /\ faults' \in 0..MaxFaults /\ UNCHANGED <<child, rows, applied>>
  BY FaultCounts DEF Stall
<1>2. /\ execs[s] \in ExecStates /\ ExecOk(s)
      /\ rows \in [Keys -> RowStates] /\ applied \in [Keys -> Nat]
  BY DEF TruthInv, TypeOK
<1>3. /\ e \in ExecStates /\ e.phase = execs[s].phase /\ e.result = execs[s].result
      /\ e.key = execs[s].key
  BY <1>2 DEF ExecStates
<1>4. execs' = [execs EXCEPT ![s] = e]
  BY DEF Stall, TruthInv, TypeOK, ExecStates
<1>5. \A k \in Keys : applied'[k] >= applied[k] /\ rows'[k] = rows[k]
  BY <1>1, <1>2
<1> HIDE DEF e
<1>6. QED
  BY <1>1, <1>2, <1>3, <1>4, <1>5, ExecMoves DEF ExecOk

\* The lease token of an execution that ended is in no other hands.
LEMMA UnheldIs ==
    ASSUME TruthInv, NEW s \in Slots, rows' = Unheld(s, rows)
    PROVE  rows' \in [Keys -> RowStates] /\ \A k \in Keys : Kept(k, s)
<1>1. rows \in [Keys -> RowStates]
  BY DEF TruthInv, TypeOK
<1>2. ASSUME NEW k \in Keys PROVE Kept(k, s) /\ rows'[k] \in RowStates
  <2>1. Kept(k, s)
    BY DEF Unheld, Kept
  <2>2. rows[k] \in RowStates
    BY <1>1
  <2>3. [rows[k] EXCEPT !.holder = None] \in RowStates
    BY <2>2 DEF RowStates
  <2>4. QED
    BY <2>1, <2>2, <2>3 DEF Kept
<1>3. rows' = [k \in Keys |-> rows'[k]]
  BY DEF Unheld
<1>4. QED
  BY <1>2, <1>3

LEMMA CrashTruth ==
    ASSUME TruthInv, NEW s \in Slots, Crash(s)
    PROVE  TruthInv'
<1>1. /\ Free(s) /\ UNCHANGED <<child, applied>> /\ faults' \in 0..MaxFaults
      /\ rows' = Unheld(s, rows)
  BY FaultCounts DEF Crash
<1>2. rows' \in [Keys -> RowStates] /\ \A k \in Keys : Kept(k, s)
  BY <1>1, UnheldIs
<1>3. Heard
  BY <1>1 DEF Heard
<1>4. QED
  BY <1>1, <1>2, <1>3, ExecEnds

LEMMA GivesUpHeard ==
    ASSUME TruthInv, NEW s \in Slots, execs[s].phase # "off", GivesUp(s)
    PROVE  Heard
<1>1. CASE execs[s].key[1] = "register"
  BY <1>1, AnswersHeard DEF GivesUp
<1>2. CASE execs[s].key[1] # "register"
  BY <1>2, ThrowsHeard DEF GivesUp
<1>3. QED
  BY <1>1, <1>2

\* What the owner of a lease stores is what it heard from IXC.
LEMMA StoredIs ==
    ASSUME TruthInv, NEW s \in Slots, execs[s].phase = "store", execs[s].result \in Results,
           UNCHANGED applied, rows' = [rows EXCEPT ![execs[s].key] = Stored(s)],
           \A k \in Keys \ {execs[s].key} : rows[k].holder # s
    PROVE  /\ rows' \in [Keys -> RowStates]
           /\ \A k \in Keys : Kept(k, s) \/ (RowOk(k)' /\ rows'[k].holder = None)
<1> DEFINE key == execs[s].key
           result == execs[s].result
           old == rows[key]
           row == [old EXCEPT !.status = IF result = "success" THEN "completed" ELSE "failed",
                              !.holder = None, !.left = 0, !.result = result]
<1>1. /\ key \in Keys /\ rows \in [Keys -> RowStates]
      /\ result = "success" => applied[key] > 0
  BY DEF TruthInv, TypeOK, ExecOk
<1>2. old \in RowStates /\ 0 \in 0..LeaseLife
  BY <1>1, SurveyAssumption
<1>3. rows' = [rows EXCEPT ![key] = row]
  BY DEF Stored, Row
<1>4. result \in Results /\ result # "none"
  BY DEF Results, Refusals
<1> HIDE DEF key, result, old
<1>5. /\ row \in RowStates /\ row.status \in {"completed", "failed"} /\ row.holder = None
      /\ row.left = 0 /\ row.result = result
  BY <1>2, <1>4 DEF RowStates
<1> HIDE DEF row
<1>6. rows' \in [Keys -> RowStates] /\ rows'[key] = row /\ applied' = applied
  BY <1>1, <1>3, <1>5
<1>7. ASSUME NEW k \in Keys PROVE Kept(k, s) \/ (RowOk(k)' /\ rows'[k].holder = None)
  <2>1. CASE k = key
    <3>1. rows'[k] = row /\ (row.result = "success" => applied'[k] > 0)
      BY <1>1, <1>5, <1>6, <2>1
    <3>2. QED
      BY <1>4, <1>5, <3>1 DEF RowOk, Final
  <2>2. CASE k # key
    BY <1>1, <1>3, <2>2 DEF Kept, key
  <2>3. QED
    BY <2>1, <2>2
<1>8. QED
  BY <1>6, <1>7

LEMMA StoreTruth ==
    ASSUME TruthInv, NEW s \in Slots, Store(s)
    PROVE  TruthInv'
<1>1. /\ execs[s].phase = "store" /\ execs[s].phase # "off" /\ Free(s) /\ UNCHANGED applied
  BY DEF Store
<1>2. /\ rows \in [Keys -> RowStates] /\ faults \in 0..MaxFaults
      /\ execs[s].result = "success" => applied[execs[s].key] > 0
  BY DEF TruthInv, TypeOK, ExecOk
<1>3. ASSUME NEW k \in Keys, rows[k].holder = s PROVE k = execs[s].key
  BY <1>3, SurveyAssumption DEF TruthInv, RowOk
<1>4. CASE rows' = Unheld(s, rows) /\ Heard /\ faults' \in 0..MaxFaults
  BY <1>1, <1>4, UnheldIs, ExecEnds
<1>5. CASE /\ execs[s].result \in Results /\ rows' = [rows EXCEPT ![execs[s].key] = Stored(s)]
           /\ Heard /\ faults' \in 0..MaxFaults
  BY <1>1, <1>3, <1>5, StoredIs, ExecEnds
<1>6. CASE /\ execs[s].result = "transient" /\ rows' = Unheld(s, rows) /\ GivesUp(s)
           /\ UNCHANGED faults
  BY <1>1, <1>2, <1>4, <1>6, GivesUpHeard
<1>7. execs[s].result \in Results /\ Answers(s, execs[s].result) => Heard
  BY <1>1, <1>2, AnswersHeard DEF Results, Refusals
<1>8. CASE /\ execs[s].result \in Results /\ rows' = [rows EXCEPT ![execs[s].key] = Stored(s)]
           /\ Answers(s, execs[s].result) /\ UNCHANGED faults
  BY <1>2, <1>5, <1>7, <1>8
<1>9. CASE /\ execs[s].result \in Results /\ ~Owns(s) /\ UNCHANGED <<rows, faults>>
           /\ GivesUp(s) \/ Answers(s, execs[s].result)
  <2>1. Heard
    BY <1>1, <1>7, <1>9, GivesUpHeard
  <2>2. ASSUME NEW k \in Keys PROVE rows[k].holder # s
    <3>1. SUFFICES ASSUME rows[k].holder = s PROVE FALSE
      OBVIOUS
    <3>2. k = execs[s].key /\ RowOk(k)
      BY <1>3, <3>1 DEF TruthInv
    <3>3. rows[k].status = "pending"
      BY <3>1, <3>2, SurveyAssumption DEF RowOk
    <3>4. QED
      BY <1>9, <3>1, <3>2, <3>3 DEF Owns, Row
  <2>3. \A k \in Keys : Kept(k, s)
    BY <1>9, <2>2 DEF Kept
  <2>4. QED
    BY <1>1, <1>2, <1>9, <2>1, <2>3, ExecEnds
<1>10. CASE /\ execs[s].result \in Results /\ Fault("store")
            /\ GivesUp(s) \/ Throws(s)
            /\ \/ rows' = Unheld(s, rows)
               \/ rows' = [rows EXCEPT ![execs[s].key] = Stored(s)]
  <2>1. Heard /\ faults' \in 0..MaxFaults
    BY <1>1, <1>10, GivesUpHeard, ThrowsHeard, FaultCounts
  <2>2. QED
    BY <1>4, <1>5, <1>10, <2>1
<1>11. QED
  BY <1>6, <1>8, <1>9, <1>10 DEF Store

LEMMA TickTruth == TruthInv /\ Tick => TruthInv'
<1> SUFFICES ASSUME TruthInv, Tick PROVE TruthInv'
  OBVIOUS
<1>1. /\ child \in ChildStates /\ execs \in [Slots -> ExecStates]
      /\ rows \in [Keys -> RowStates]
  BY DEF TruthInv, TypeOK
<1>2. UNCHANGED <<execs, faults, applied>>
  BY DEF Tick
<1>3. /\ child' \in ChildStates /\ child'.pc = child.pc /\ child'.contact = child.contact
      /\ child'.motive = child.motive /\ child'.exec = child.exec
  <2>1. Less(child.timer) \in Nat
    BY <1>1 DEF Less, ChildStates
  <2>2. child' = [child EXCEPT !.timer = Less(child.timer)]
    BY DEF Tick
  <2>3. QED
    BY <1>1, <2>1, <2>2 DEF ChildStates
<1>4. ASSUME NEW k \in Keys
      PROVE  /\ rows'[k] \in RowStates /\ rows'[k].status = rows[k].status
             /\ rows'[k].holder = rows[k].holder /\ rows'[k].attempts = rows[k].attempts
             /\ rows'[k].result = rows[k].result /\ rows'[k].left = Less(rows[k].left)
  <2>1. rows[k] \in RowStates
    BY <1>1
  <2>2. Less(rows[k].left) \in 0..LeaseLife
    BY <2>1, SurveyAssumption DEF Less, RowStates
  <2>3. rows'[k] = [rows[k] EXCEPT !.left = Less(rows[k].left)]
    BY DEF Tick
  <2>4. QED
    BY <2>1, <2>2, <2>3 DEF RowStates
<1>5. rows' = [k \in Keys |-> rows'[k]]
  BY DEF Tick
<1>6. TypeOK'
  BY <1>2, <1>3, <1>4, <1>5 DEF TruthInv, TypeOK
<1>7. ASSUME NEW k \in Keys PROVE RowOk(k)'
  <2>1. RowOk(k)
    BY DEF TruthInv
  <2>2. rows[k].left = 0 => rows'[k].left = 0
    BY <1>4 DEF Less
  <2>3. QED
    BY <1>2, <1>4, <2>1, <2>2 DEF RowOk
<1>8. ASSUME NEW s \in Slots PROVE ExecOk(s)'
  BY <1>2 DEF TruthInv, ExecOk
<1>9. Honest(child)' /\ Awaits'
  BY <1>2, <1>3 DEF TruthInv, Honest, Awaits, KeyOf
<1>10. QED
  BY <1>6, <1>7, <1>8, <1>9 DEF TruthInv

--------------------------------------------------------------------------------

\* The rows, the executions and the child tell of a success only what IXC applied.
THEOREM TruthInvariance == Spec => []TruthInv
<1>1. Init => TruthInv
  BY TruthInit
<1>2. TruthInv /\ [Next]_vars => TruthInv'
  <2> SUFFICES ASSUME TruthInv, [Next]_vars PROVE TruthInv'
    OBVIOUS
  <2>1. CASE Trigger
    BY <2>1, TriggerTruth
  <2>2. CASE ChildNext
    BY <2>2, FindCustomerTruth, FindContactTruth, StartTruth, TimeoutTruth DEF ChildNext
  <2>3. CASE Tick
    BY <2>3, TickTruth
  <2>4. ASSUME NEW s \in Slots, ExecNext(s) PROVE TruthInv'
    BY <2>4, ReserveTruth, CallTruth, StoreTruth DEF ExecNext
  <2>5. ASSUME NEW s \in Slots, Crash(s) \/ Stall(s) PROVE TruthInv'
    BY <2>5, CrashTruth, StallTruth
  <2>6. CASE UNCHANGED vars
    BY <2>6 DEF vars, TruthInv, TypeOK, RowOk, ExecOk, Honest, Awaits, KeyOf
  <2>7. QED
    BY <2>1, <2>2, <2>3, <2>4, <2>5, <2>6 DEF Next
<1>3. QED
  BY <1>1, <1>2, PTL DEF Spec

\* A child that ends as recorded did send the survey and register it, one that ends as
\* forwarded did forward the order, whatever stored answers, retries, executions of
\* earlier runs, crashes and takeovers of leases came in between.
THEOREM OutcomesAreTrue == Spec => []OutcomeIsTrue
<1>1. TruthInv => OutcomeIsTrue
  BY DEF TruthInv, Honest, OutcomeIsTrue
<1>2. QED
  BY <1>1, TruthInvariance, PTL

--------------------------------------------------------------------------------
(* What is stored stands *)

\* Once a row is completed or failed no later attempt, takeover, crash or passing of time
\* changes it: what IXC answered for good under a key is what every later run is told.
THEOREM AnswersAreFinal == Spec => AnswersStand
<1> DEFINE Stands == \A k \in Keys : rows[k].status \in {"completed", "failed"} => rows'[k] = rows[k]
<1>1. TruthInv /\ [Next]_vars => [Stands]_vars
  <2> SUFFICES ASSUME TruthInv, [Next]_vars, NEW k \in Keys, rows[k].status \in {"completed", "failed"}
               PROVE  rows'[k] = rows[k]
    BY DEF vars
  <2>1. /\ rows \in [Keys -> RowStates] /\ rows[k] \in RowStates
        /\ rows[k].holder = None /\ rows[k].left = 0 /\ RowOk(k)
    BY DEF TruthInv, TypeOK, RowOk, Final
  <2>2. ASSUME NEW s \in Slots, rows' = Unheld(s, rows) PROVE rows'[k] = rows[k]
    BY <2>1, <2>2, SurveyAssumption DEF Unheld
  <2>3. CASE UNCHANGED rows
    BY <2>3
  <2>4. CASE Tick
    <3>1. rows'[k] = [rows[k] EXCEPT !.left = Less(rows[k].left)] /\ Less(rows[k].left) = rows[k].left
      BY <2>1, <2>4 DEF Tick, Less
    <3>2. QED
      BY <2>1, <3>1 DEF RowStates
  <2>5. ASSUME NEW s \in Slots, Reserve(s) PROVE rows'[k] = rows[k]
    <3>1. CASE Grantable(Row(s))
      <4>1. k # execs[s].key
        BY <3>1 DEF Grantable, Row
      <4>2. QED
        BY <2>1, <2>5, <4>1 DEF Reserve
    <3>2. CASE ~Grantable(Row(s))
      BY <2>5, <3>2 DEF Reserve
    <3>3. QED
      BY <3>1, <3>2
  <2>6. ASSUME NEW s \in Slots, Store(s) PROVE rows'[k] = rows[k]
    <3>1. CASE Owns(s) /\ rows' = [rows EXCEPT ![execs[s].key] = Stored(s)]
      <4>1. k # execs[s].key
        BY <3>1 DEF Owns, Row
      <4>2. QED
        BY <2>1, <3>1, <4>1
    <3>2. QED
      BY <2>2, <2>3, <2>6, <3>1 DEF Store
  <2>7. ASSUME NEW s \in Slots, Crash(s) PROVE rows'[k] = rows[k]
    BY <2>2, <2>7 DEF Crash
  <2>8. QED
    BY <2>3, <2>4, <2>5, <2>6, <2>7
       DEF Next, Trigger, ChildNext, FindCustomer, FindContact, Start, Timeout, ExecNext, Call,
           Stall, vars
<1>2. QED
  BY <1>1, TruthInvariance, PTL DEF Spec, AnswersStand

--------------------------------------------------------------------------------
(* Repetitions are paid for by failures *)

LEMMA Sizes ==
    ASSUME NEW S \in SUBSET Slots
    PROVE  /\ Cardinality(S) \in Nat
           /\ \A T \in SUBSET S : Cardinality(T) \in Nat /\ Cardinality(T) <= Cardinality(S)
           /\ \A x \in S : Cardinality(S \ {x}) = Cardinality(S) - 1
           /\ \A x : x \notin S => Cardinality(S \cup {x}) = Cardinality(S) + 1
<1>1. IsFiniteSet(S)
  BY FS_Subset, SurveyAssumption
<1>2. QED
  BY <1>1, FS_Subset, FS_CardinalityType, FS_RemoveElement, FS_AddElement

\* What a step leaves of the count of a key: as many calls and attempts, and a credit that
\* is lost only with a failure.
LEMMA CountKept ==
    ASSUME TruthInv, TruthInv', NEW k \in Keys, Counted(k),
           Calling(k)' \subseteq Calling(k), Delayed(k)' \subseteq Delayed(k),
           applied'[k] = applied[k], rows'[k].attempts = rows[k].attempts,
           faults' = faults + 1 \/ (faults' = faults /\ Credit(k)' >= Credit(k)),
           WellHeld(k)' => rows'[k].left > 0
    PROVE  Counted(k)'
<1>1. /\ faults \in Nat /\ applied[k] \in Nat /\ rows[k].attempts \in Nat
      /\ Credit(k) \in 0..1 /\ Credit(k)' \in 0..1
  BY DEF TruthInv, TypeOK, RowStates, Credit
<1>2. Calling(k) \in SUBSET Slots /\ Delayed(k) \in SUBSET Slots
  BY DEF Calling, Delayed
<1>3. /\ Cardinality(Calling(k)) \in Nat /\ Cardinality(Calling(k)') \in Nat
      /\ Cardinality(Calling(k)') <= Cardinality(Calling(k))
  BY <1>2, Sizes
<1>4. /\ Cardinality(Delayed(k)) \in Nat /\ Cardinality(Delayed(k)') \in Nat
      /\ Cardinality(Delayed(k)') <= Cardinality(Delayed(k))
  BY <1>2, Sizes
<1>5. QED
  BY <1>1, <1>3, <1>4 DEF Counted

\* Executions of other keys do not count for a key.
LEMMA OthersCounted ==
    ASSUME TruthInv, TruthInv', NEW s \in Slots, NEW e, NEW k \in Keys, Counted(k),
           execs' = [execs EXCEPT ![s] = e],
           e.phase = "call" => e.key # k,
           e.phase = "reserve" /\ e.stalled => e.key # k,
           rows[k].holder # s, rows'[k] = rows[k], applied'[k] = applied[k],
           faults' = faults + 1 \/ faults' = faults
    PROVE  Counted(k)'
<1>1. \A r \in Slots : execs'[r] = IF r = s THEN e ELSE execs[r]
  BY DEF TruthInv, TypeOK
<1>2. Calling(k)' \subseteq Calling(k) /\ Delayed(k)' \subseteq Delayed(k)
  BY <1>1 DEF Calling, Delayed
<1>3. WellHeld(k)' <=> WellHeld(k)
  BY <1>1 DEF WellHeld
<1>4. Credit(k)' = Credit(k)
  BY <1>3 DEF Credit
<1>5. Credit(k) \in 0..1
  BY DEF Credit
<1>6. QED
  BY <1>2, <1>3, <1>4, <1>5, CountKept DEF Counted

\* An execution that ends frees its row; if it could still have stored its answer that is
\* a failure.
LEMMA EndCounted ==
    ASSUME TruthInv, TruthInv', NEW s \in Slots, NEW k \in Keys, Counted(k), Free(s),
           Kept(k, s), UNCHANGED applied,
           \/ faults' = faults + 1
           \/ faults' = faults /\ (rows[k].holder = s => execs[s].result = "transient")
    PROVE  Counted(k)'
<1>1. /\ rows[k] \in RowStates
      /\ \A r \in Slots : execs'[r] = IF r = s THEN FreeSlot ELSE execs[r]
  BY DEF TruthInv, TypeOK, Free
<1>2. CASE rows[k].holder # s
  <2>1. rows'[k] = rows[k]
    BY <1>2 DEF Kept
  <2>2. execs' = [execs EXCEPT ![s] = FreeSlot] /\ FreeSlot.phase = "off"
    BY FreeAreTyped DEF Free
  <2>3. QED
    BY <1>2, <2>1, <2>2, OthersCounted
<1>3. CASE rows[k].holder = s
  <2>1. /\ rows'[k].attempts = rows[k].attempts /\ rows'[k].status = rows[k].status
        /\ rows'[k].holder = None
    BY <1>1, <1>3 DEF Kept, RowStates
  <2>2. Calling(k)' \subseteq Calling(k) /\ Delayed(k)' \subseteq Delayed(k)
    BY <1>1, FreeAreTyped DEF Calling, Delayed
  <2>3. ~WellHeld(k)'
    BY <2>1, SurveyAssumption DEF WellHeld
  <2>4. faults' = faults => Credit(k)' = Credit(k)
    <3>1. faults' = faults => ~WellHeld(k)
      BY <1>3 DEF WellHeld, TruthInv, TypeOK
    <3>2. QED
      BY <2>1, <2>3, <3>1 DEF Credit
  <2>5. Credit(k) \in 0..1
    BY DEF Credit
  <2>6. QED
    BY <2>1, <2>2, <2>3, <2>4, <2>5, CountKept
<1>4. QED
  BY <1>2, <1>3

LEMMA CountInit == Init => CountInv
<1> SUFFICES ASSUME Init, NEW k \in Keys PROVE Counted(k)
  BY DEF CountInv
<1>1. rows[k] = FreeRow /\ applied[k] = 0 /\ faults = 0
  BY DEF Init
<1>2. Calling(k) = {} /\ Delayed(k) = {}
  BY FreeAreTyped DEF Init, Calling, Delayed
<1>3. ~WellHeld(k) /\ Credit(k) = 0
  BY <1>1, FreeAreTyped, SurveyAssumption DEF WellHeld, Credit, Final
<1>4. QED
  BY <1>1, <1>2, <1>3, FreeAreTyped, FS_EmptySet DEF Counted

LEMMA StartCounted ==
    ASSUME TruthInv, TruthInv', CountInv, Start
    PROVE  CountInv'
<1> DEFINE e == [FreeSlot EXCEPT !.phase = "reserve", !.key = KeyOf]
<1>1. PICK s \in Slots : execs[s].phase = "off" /\ execs' = [execs EXCEPT ![s] = e]
  BY DEF Start, FreeSlots
<1>2. e.phase = "reserve" /\ e.stalled = FALSE
  BY DEF FreeSlot
<1> HIDE DEF e
<1>3. UNCHANGED <<rows, faults, applied>>
  BY DEF Start
<1>4. ASSUME NEW k \in Keys PROVE Counted(k)'
  <2>1. rows[k].holder # s /\ Counted(k)
    BY <1>1, SurveyAssumption DEF TruthInv, RowOk, CountInv
  <2>2. QED
    BY <1>1, <1>2, <1>3, <2>1, OthersCounted
<1>5. QED
  BY <1>4 DEF CountInv

\* A row that may be leased has no credit: the execution that takes it over is well, or it
\* was delayed and gives up the failure it was counted for.
LEMMA LeaseCounted ==
    ASSUME TruthInv, TruthInv', NEW s \in Slots, NEW key \in Keys, Counted(key),
           execs[s].phase = "reserve", execs[s].key = key, Grantable(rows[key]),
           rows'[key] = Leased(s), execs' = [execs EXCEPT ![s].phase = "call"],
           UNCHANGED <<applied, faults>>
    PROVE  Counted(key)'
<1>1. /\ execs[s] \in ExecStates /\ execs[s].result = "none" /\ RowOk(key)
      /\ rows[key] \in RowStates
      /\ Leased(s).holder = s /\ Leased(s).left = LeaseLife /\ Leased(s).status = "pending"
      /\ Leased(s).attempts = rows[key].attempts + 1
  BY LeasedIs DEF Row
<1> DEFINE e == [execs[s] EXCEPT !.phase = "call"]
<1>2. /\ e.phase = "call" /\ e.key = key /\ e.result = "none" /\ e.stalled = execs[s].stalled
      /\ e.stalled \in BOOLEAN
  BY <1>1 DEF ExecStates
<1>3. \A r \in Slots : execs'[r] = IF r = s THEN e ELSE execs[r]
  BY DEF TruthInv, TypeOK
<1> HIDE DEF e
<1>4. /\ faults \in Nat /\ applied[key] \in Nat /\ rows[key].attempts \in Nat
      /\ applied'[key] = applied[key] /\ LeaseLife > 0
      /\ Calling(key) \in SUBSET Slots /\ Delayed(key) \in SUBSET Slots
  BY <1>1, SurveyAssumption DEF TruthInv, TypeOK, RowStates, Calling, Delayed
<1>5. Cardinality(Calling(key)') = Cardinality(Calling(key)) + 1 /\ Cardinality(Calling(key)) \in Nat
  <2>1. s \notin Calling(key) /\ Calling(key)' = Calling(key) \cup {s}
    BY <1>2, <1>3 DEF Calling
  <2>2. QED
    BY <1>4, <2>1, Sizes
<1>6. Credit(key) = 0
  <2>1. ~WellHeld(key)
    BY <1>1, SurveyAssumption DEF Grantable, Counted, WellHeld, RowOk
  <2>2. rows[key].status \notin Final
    BY DEF Grantable, Final
  <2>3. QED
    BY <2>1, <2>2 DEF Credit
<1>7. CASE execs[s].stalled
  <2>1. s \in Delayed(key) /\ Delayed(key)' = Delayed(key) \ {s}
    BY <1>2, <1>3, <1>7 DEF Delayed
  <2>2. /\ Cardinality(Delayed(key)') = Cardinality(Delayed(key)) - 1
        /\ Cardinality(Delayed(key)) \in Nat
    BY <1>4, <2>1, Sizes
  <2>3. Credit(key)' \in 0..1
    BY DEF Credit
  <2>4. QED
    BY <1>1, <1>4, <1>5, <1>6, <2>2, <2>3 DEF Counted
<1>8. CASE ~execs[s].stalled
  <2>1. Delayed(key)' = Delayed(key)
    BY <1>2, <1>3, <1>8 DEF Delayed
  <2>2. Cardinality(Delayed(key)) \in Nat
    BY <1>4, Sizes
  <2>3. WellHeld(key)'
    BY <1>1, <1>2, <1>3, <1>8 DEF WellHeld
  <2>4. Credit(key)' = 1
    BY <2>3 DEF Credit
  <2>5. QED
    BY <1>1, <1>4, <1>5, <1>6, <2>1, <2>2, <2>4 DEF Counted
<1>9. QED
  BY <1>7, <1>8

LEMMA ReserveCounted ==
    ASSUME TruthInv, TruthInv', CountInv, NEW s \in Slots, Reserve(s), NEW k \in Keys
    PROVE  Counted(k)'
<1>1. execs[s].phase = "reserve" /\ UNCHANGED applied /\ Counted(k)
  BY DEF Reserve, CountInv
<1>2. /\ execs[s] \in ExecStates /\ execs[s].key \in Keys /\ Row(s) = rows[execs[s].key]
      /\ Row(s) \in RowStates /\ RowOk(execs[s].key)
      /\ \A i \in Keys : rows[i].holder # s
      /\ Leased(s) \in RowStates /\ Leased(s).status = "pending"
      /\ Leased(s).attempts = Row(s).attempts + 1
  BY <1>1, LeasedIs
<1>3. rows \in [Keys -> RowStates]
  BY DEF TruthInv, TypeOK
<1>4. CASE UNCHANGED rows /\ Free(s) /\ (faults' = faults \/ faults' = faults + 1)
  <2>1. Kept(k, s)
    BY <1>2, <1>4 DEF Kept
  <2>2. QED
    BY <1>1, <1>2, <1>4, <2>1, EndCounted
<1>5. CASE /\ Grantable(Row(s)) /\ rows' = [rows EXCEPT ![execs[s].key] = Leased(s)]
           /\ execs' = [execs EXCEPT ![s].phase = "call"] /\ UNCHANGED faults
  <2>1. CASE k = execs[s].key
    <3>1. rows'[k] = Leased(s)
      BY <1>2, <1>3, <1>5, <2>1
    <3>2. QED
      BY <1>1, <1>2, <1>5, <2>1, <3>1, LeaseCounted
  <2>2. CASE k # execs[s].key
    <3> DEFINE e == [execs[s] EXCEPT !.phase = "call"]
    <3>1. e.phase = "call" /\ e.key = execs[s].key
      BY <1>2 DEF ExecStates
    <3>2. execs' = [execs EXCEPT ![s] = e]
      BY <1>5 DEF TruthInv, TypeOK
    <3> HIDE DEF e
    <3>3. rows'[k] = rows[k] /\ applied'[k] = applied[k]
      BY <1>1, <1>3, <1>5, <2>2
    <3>4. QED
      BY <1>1, <1>2, <1>5, <2>2, <3>1, <3>2, <3>3, OthersCounted
  <2>3. QED
    BY <2>1, <2>2
<1>6. CASE /\ Fault("reserve") /\ Free(s) /\ Grantable(Row(s))
           /\ rows' = [rows EXCEPT ![execs[s].key] = [Leased(s) EXCEPT !.holder = None]]
  <2>1. faults' = faults + 1
    BY <1>6 DEF Fault
  <2>2. CASE k = execs[s].key
    <3> DEFINE row == [Leased(s) EXCEPT !.holder = None]
    <3>1. /\ row.status = "pending" /\ row.holder = None
          /\ row.attempts = rows[k].attempts + 1
      BY <1>2, <2>2 DEF RowStates
    <3>2. rows'[k] = row
      BY <1>2, <1>3, <1>6, <2>2
    <3> HIDE DEF row
    <3>3. ~WellHeld(k)' /\ Credit(k)' = 0
      BY <3>1, <3>2, SurveyAssumption DEF WellHeld, Credit, Final
    <3>4. Credit(k) = 0
      <4>1. rows[k].status \notin Final
        BY <1>2, <1>6, <2>2 DEF Grantable, Final
      <4>2. ~WellHeld(k)
        BY <1>1, <1>2, <1>6, <2>2, SurveyAssumption DEF Grantable, Counted, WellHeld, RowOk
      <4>3. QED
        BY <4>1, <4>2 DEF Credit
    <3>5. \A r \in Slots : execs'[r] = IF r = s THEN FreeSlot ELSE execs[r]
      BY <1>6 DEF TruthInv, TypeOK, Free
    <3>6. /\ Calling(k)' \subseteq Calling(k) /\ Delayed(k)' \subseteq Delayed(k)
          /\ Calling(k) \in SUBSET Slots /\ Delayed(k) \in SUBSET Slots
      BY <3>5, FreeAreTyped DEF Calling, Delayed
    <3>7. /\ Cardinality(Calling(k)) \in Nat /\ Cardinality(Calling(k)') \in Nat
          /\ Cardinality(Calling(k)') <= Cardinality(Calling(k))
          /\ Cardinality(Delayed(k)) \in Nat /\ Cardinality(Delayed(k)') \in Nat
          /\ Cardinality(Delayed(k)') <= Cardinality(Delayed(k))
      BY <3>6, Sizes
    <3>8. /\ faults \in Nat /\ applied[k] \in Nat /\ rows[k].attempts \in Nat
          /\ applied'[k] = applied[k]
      BY <1>1 DEF TruthInv, TypeOK, RowStates
    <3>9. QED
      BY <1>1, <2>1, <3>1, <3>2, <3>3, <3>4, <3>7, <3>8 DEF Counted
  <2>3. CASE k # execs[s].key
    <3>1. rows'[k] = rows[k] /\ rows[k].holder # s
      BY <1>2, <1>3, <1>6, <2>3
    <3>2. Kept(k, s)
      BY <3>1 DEF Kept
    <3>3. QED
      BY <1>1, <1>6, <2>1, <3>2, EndCounted
  <2>4. QED
    BY <2>2, <2>3
<1>7. QED
  BY <1>4, <1>5, <1>6 DEF Reserve, Fault

LEMMA CallCounted ==
    ASSUME TruthInv, TruthInv', CountInv, NEW s \in Slots, Call(s), NEW k \in Keys
    PROVE  Counted(k)'
<1>1. PICK result \in Results \cup {"transient"} :
         /\ Replied(s, result)
         /\ Applies(s) \/ UNCHANGED applied
         /\ faults' = faults + 1 \/ (faults' = faults /\ result # "transient")
  BY DEF Call, Results, Refusals, Fault
<1>2. /\ execs[s].phase = "call" /\ UNCHANGED rows /\ Counted(k)
      /\ execs[s] \in ExecStates /\ execs[s].key \in Keys
      /\ applied \in [Keys -> Nat] /\ faults \in Nat /\ rows[k].attempts \in Nat
  BY DEF Call, TruthInv, TypeOK, ExecOk, RowStates, CountInv
<1> DEFINE e == [execs[s] EXCEPT !.phase = "store", !.result = result]
<1>3. /\ e.phase = "store" /\ e.result = result /\ e.key = execs[s].key
      /\ e.stalled = execs[s].stalled
  BY <1>2 DEF ExecStates
<1>4. execs' = [execs EXCEPT ![s] = e]
  BY <1>1 DEF Replied, TruthInv, TypeOK, ExecStates
<1> HIDE DEF e
<1>5. \A r \in Slots : execs'[r] = IF r = s THEN e ELSE execs[r]
  BY <1>4 DEF TruthInv, TypeOK
<1>6. Delayed(k)' = Delayed(k)
  BY <1>2, <1>3, <1>5 DEF Delayed
<1>7. WellHeld(k)' => WellHeld(k)
  <2>1. execs[s].result = "none"
    BY <1>2 DEF TruthInv, ExecOk
  <2>2. QED
    BY <1>2, <1>3, <1>5, <2>1 DEF WellHeld
<1>8. faults' = faults + 1 \/ (faults' = faults /\ Credit(k)' >= Credit(k))
  <2>1. CASE result # "transient"
    <3>1. WellHeld(k) => WellHeld(k)'
      BY <1>2, <1>3, <1>5, <2>1 DEF WellHeld
    <3>2. Credit(k)' = Credit(k)
      BY <1>2, <1>7, <3>1 DEF Credit
    <3>3. Credit(k) \in 0..1
      BY DEF Credit
    <3>4. QED
      BY <1>1, <3>2, <3>3
  <2>2. QED
    BY <1>1, <2>1
<1>9. CASE execs[s].key # k \/ UNCHANGED applied
  <2>1. Calling(k)' \subseteq Calling(k)
    BY <1>2, <1>3, <1>5 DEF Calling
  <2>2. applied'[k] = applied[k]
    BY <1>1, <1>2, <1>9 DEF Applies
  <2>3. QED
    BY <1>2, <1>6, <1>7, <1>8, <2>1, <2>2, CountKept DEF Counted
<1>10. CASE execs[s].key = k /\ Applies(s)
  <2>1. applied'[k] = applied[k] + 1
    BY <1>2, <1>10 DEF Applies
  <2>2. s \in Calling(k) /\ Calling(k)' = Calling(k) \ {s} /\ Calling(k) \in SUBSET Slots
    BY <1>2, <1>3, <1>5, <1>10 DEF Calling
  <2>3. /\ Cardinality(Calling(k)') = Cardinality(Calling(k)) - 1
        /\ Cardinality(Calling(k)) \in Nat
    BY <2>2, Sizes
  <2>4. Delayed(k) \in SUBSET Slots
    BY DEF Delayed
  <2>5. /\ Cardinality(Delayed(k)) \in Nat /\ Credit(k) \in 0..1 /\ Credit(k)' \in 0..1
        /\ applied[k] \in Nat
    BY <1>2, <2>4, Sizes DEF Credit
  <2>6. QED
    BY <1>2, <1>6, <1>7, <1>8, <2>1, <2>3, <2>5 DEF Counted
<1>11. QED
  BY <1>1, <1>9, <1>10

LEMMA StoreCounted ==
    ASSUME TruthInv, TruthInv', CountInv, NEW s \in Slots, Store(s), NEW k \in Keys
    PROVE  Counted(k)'
<1>1. execs[s].phase = "store" /\ Free(s) /\ UNCHANGED applied /\ Counted(k)
  BY DEF Store, CountInv
<1>2. /\ rows \in [Keys -> RowStates] /\ execs[s].key \in Keys /\ faults \in Nat
      /\ rows[k].attempts \in Nat
  BY <1>1 DEF TruthInv, TypeOK, ExecOk, RowStates
<1>3. rows[k].holder = s => execs[s].key = k /\ rows[k].status = "pending"
  BY SurveyAssumption DEF TruthInv, RowOk
<1>4. CASE /\ Owns(s) /\ rows' = [rows EXCEPT ![execs[s].key] = Stored(s)]
           /\ faults' = faults \/ faults' = faults + 1
  <2>1. CASE k = execs[s].key
    <3>1. Row(s) = rows[k] /\ rows[k] \in RowStates
      BY <1>2, <2>1 DEF Row
    <3>2. /\ Stored(s).status \in Final /\ Stored(s).holder = None
          /\ Stored(s).attempts = rows[k].attempts
      BY <3>1 DEF Stored, RowStates, Final
    <3>3. rows'[k] = Stored(s)
      BY <1>2, <1>4, <2>1
    <3>4. ~WellHeld(k)' /\ Credit(k)' = 1
      BY <3>2, <3>3, SurveyAssumption DEF WellHeld, Credit
    <3>5. \A r \in Slots : execs'[r] = IF r = s THEN FreeSlot ELSE execs[r]
      BY <1>1 DEF TruthInv, TypeOK, Free
    <3>6. Calling(k)' \subseteq Calling(k) /\ Delayed(k)' \subseteq Delayed(k)
      BY <3>5, FreeAreTyped DEF Calling, Delayed
    <3>7. Credit(k) \in 0..1
      BY DEF Credit
    <3>8. QED
      BY <1>1, <1>4, <3>2, <3>3, <3>4, <3>6, <3>7, CountKept
  <2>2. CASE k # execs[s].key
    <3>1. rows'[k] = rows[k] /\ rows[k].holder # s
      BY <1>2, <1>3, <1>4, <2>2
    <3>2. Kept(k, s)
      BY <3>1 DEF Kept
    <3>3. QED
      BY <1>1, <1>4, <3>1, <3>2, EndCounted
  <2>3. QED
    BY <2>1, <2>2
<1>5. CASE /\ rows' = Unheld(s, rows)
           /\ faults' = faults + 1 \/ (faults' = faults /\ execs[s].result = "transient")
  <2>1. Kept(k, s)
    BY <1>5, UnheldIs
  <2>2. QED
    BY <1>1, <1>5, <2>1, EndCounted
<1>6. CASE ~Owns(s) /\ UNCHANGED <<rows, faults>>
  <2>1. rows[k].holder # s
    BY <1>3, <1>6 DEF Owns, Row
  <2>2. Kept(k, s)
    BY <1>6, <2>1 DEF Kept
  <2>3. QED
    BY <1>1, <1>6, <2>1, <2>2, EndCounted
<1>7. QED
  BY <1>4, <1>5, <1>6 DEF Store, Fault

LEMMA CrashCounted ==
    ASSUME TruthInv, TruthInv', CountInv, NEW s \in Slots, Crash(s), NEW k \in Keys
    PROVE  Counted(k)'
<1>1. /\ Free(s) /\ UNCHANGED applied /\ faults' = faults + 1 /\ rows' = Unheld(s, rows)
      /\ Counted(k)
  BY DEF Crash, Fault, CountInv
<1>2. Kept(k, s)
  BY <1>1, UnheldIs
<1>3. QED
  BY <1>1, <1>2, EndCounted

\* A stall pays for the takeover it may bring about.
LEMMA StallCounted ==
    ASSUME TruthInv, TruthInv', CountInv, NEW s \in Slots, Stall(s), NEW k \in Keys
    PROVE  Counted(k)'
<1>1. /\ execs[s].phase # "off" /\ ~execs[s].stalled /\ faults' = faults + 1
      /\ UNCHANGED <<child, rows, applied>> /\ Counted(k)
  BY DEF Stall, Fault, CountInv
<1>2. /\ execs[s] \in ExecStates /\ faults \in Nat /\ applied[k] \in Nat
      /\ rows[k].attempts \in Nat
  BY DEF TruthInv, TypeOK, RowStates
<1> DEFINE e == [execs[s] EXCEPT !.stalled = TRUE]
<1>3. /\ e.phase = execs[s].phase /\ e.key = execs[s].key /\ e.result = execs[s].result
      /\ e.stalled = TRUE
  BY <1>2 DEF ExecStates
<1>4. \A r \in Slots : execs'[r] = IF r = s THEN e ELSE execs[r]
  BY DEF Stall, TruthInv, TypeOK
<1> HIDE DEF e
<1>5. Calling(k)' = Calling(k) /\ Calling(k) \in SUBSET Slots
  BY <1>3, <1>4 DEF Calling
<1>6. WellHeld(k)' => WellHeld(k)
  BY <1>1, <1>3, <1>4 DEF WellHeld
<1>7. CASE execs[s].phase = "reserve" /\ execs[s].key = k
  <2>1. s \notin Delayed(k) /\ Delayed(k)' = Delayed(k) \cup {s} /\ Delayed(k) \in SUBSET Slots
    BY <1>1, <1>3, <1>4, <1>7 DEF Delayed
  <2>2. /\ Cardinality(Delayed(k)') = Cardinality(Delayed(k)) + 1
        /\ Cardinality(Delayed(k)) \in Nat
    BY <2>1, Sizes
  <2>3. Credit(k)' = Credit(k) /\ Credit(k) \in 0..1
    <3>1. rows[k].holder # s
      BY <1>7, SurveyAssumption DEF TruthInv, RowOk
    <3>2. WellHeld(k)' <=> WellHeld(k)
      BY <1>1, <1>4, <3>1 DEF WellHeld
    <3>3. QED
      BY <1>1, <3>2 DEF Credit
  <2>4. QED
    BY <1>1, <1>2, <1>5, <1>6, <2>2, <2>3 DEF Counted
<1>8. CASE ~(execs[s].phase = "reserve" /\ execs[s].key = k)
  <2>1. Delayed(k)' \subseteq Delayed(k)
    BY <1>3, <1>4, <1>8 DEF Delayed
  <2>2. QED
    BY <1>1, <1>5, <1>6, <2>1, CountKept DEF Counted
<1>9. QED
  BY <1>7, <1>8

\* Time passes over nobody who is well: a lease that runs out had lost its credit.
LEMMA TickCounted ==
    ASSUME TruthInv, TruthInv', CountInv, Tick, NEW k \in Keys
    PROVE  Counted(k)'
<1>1. UNCHANGED <<execs, faults, applied>> /\ Counted(k) /\ rows[k] \in RowStates /\ RowOk(k)
  BY DEF Tick, CountInv, TruthInv, TypeOK
<1>2. /\ rows'[k].status = rows[k].status /\ rows'[k].holder = rows[k].holder
      /\ rows'[k].attempts = rows[k].attempts
  <2>1. rows'[k] = [rows[k] EXCEPT !.left = Less(rows[k].left)]
    BY DEF Tick
  <2>2. QED
    BY <1>1, <2>1 DEF RowStates
<1>3. ~WellHeld(k)
  BY <1>1, SurveyAssumption DEF Tick, WellHeld, RowOk
<1>4. ~WellHeld(k)' /\ Credit(k)' = Credit(k)
  BY <1>1, <1>2, <1>3 DEF WellHeld, Credit
<1>5. Calling(k)' = Calling(k) /\ Delayed(k)' = Delayed(k)
  BY <1>1 DEF Calling, Delayed
<1>6. Credit(k) \in 0..1
  BY DEF Credit
<1>7. QED
  BY <1>1, <1>2, <1>4, <1>5, <1>6, CountKept

\* Every call of IXC under a key but the first is matched by a failure of its own.
THEOREM CountInvariance == Spec => []CountInv
<1>1. Init => CountInv
  BY CountInit
<1>2. TruthInv /\ TruthInv' /\ CountInv /\ [Next]_vars => CountInv'
  <2> SUFFICES ASSUME TruthInv, TruthInv', CountInv, [Next]_vars, NEW k \in Keys
               PROVE  Counted(k)'
    BY DEF CountInv
  <2>1. CASE UNCHANGED <<execs, rows, faults, applied>>
    BY <2>1 DEF CountInv, Counted, Calling, Delayed, WellHeld, Credit
  <2>2. CASE Start
    BY <2>2, StartCounted DEF CountInv
  <2>3. CASE Tick
    BY <2>3, TickCounted
  <2>4. ASSUME NEW s \in Slots, ExecNext(s) PROVE Counted(k)'
    BY <2>4, ReserveCounted, CallCounted, StoreCounted DEF ExecNext
  <2>5. ASSUME NEW s \in Slots, Crash(s) \/ Stall(s) PROVE Counted(k)'
    BY <2>5, CrashCounted, StallCounted
  <2>6. QED
    BY <2>1, <2>2, <2>3, <2>4, <2>5
       DEF Next, Trigger, ChildNext, FindCustomer, FindContact, Timeout, vars
<1>3. QED
  BY <1>1, <1>2, TruthInvariance, PTL DEF Spec

\* A mutation is applied once, and once more for each failure at most: the retries of
\* Temporal, the reruns of the child and the register loop repeat nothing by themselves.
THEOREM RepetitionsArePaidFor == Spec => []RepeatsNeedFaults
<1>1. TruthInv /\ CountInv => RepeatsNeedFaults
  <2> SUFFICES ASSUME TruthInv, CountInv, NEW k \in Keys PROVE applied[k] <= 1 + faults
    BY DEF RepeatsNeedFaults
  <2>1. Calling(k) \in SUBSET Slots /\ Delayed(k) \in SUBSET Slots
    BY DEF Calling, Delayed
  <2>2. Cardinality(Calling(k)) \in Nat /\ Cardinality(Delayed(k)) \in Nat
    BY <2>1, Sizes
  <2>3. /\ faults \in Nat /\ applied[k] \in Nat /\ rows[k].attempts \in Nat
        /\ Credit(k) \in 0..1
    BY DEF TruthInv, TypeOK, RowStates, Credit
  <2>4. QED
    BY <2>2, <2>3 DEF CountInv, Counted
<1>2. QED
  BY <1>1, TruthInvariance, CountInvariance, PTL

--------------------------------------------------------------------------------
(* A row is a leased step *)

\* A step that leaves a row alone stutters.
LEMMA LeaseStutters ==
    ASSUME NEW k \in Keys, rows'[k] = rows[k]
    PROVE  UNCHANGED Lease(k)!vars
BY DEF Lease!vars, Pending

\* The execution that goes loses the rows it holds.
LEMMA LeaseLost ==
    ASSUME TruthInv, NEW k \in Keys, NEW s \in Slots, rows' = Unheld(s, rows)
    PROVE  [Lease(k)!Next]_(Lease(k)!vars)
<1>1. rows[k] \in RowStates /\ RowOk(k)
  BY DEF TruthInv, TypeOK
<1>2. CASE rows[k].holder # s
  <2>1. rows'[k] = rows[k]
    BY <1>2 DEF Unheld
  <2>2. QED
    BY <2>1, LeaseStutters
<1>3. CASE rows[k].holder = s
  <2>1. /\ rows[k].status = "pending"
        /\ rows'[k].status = "pending" /\ rows'[k].holder = None
        /\ rows'[k].left = rows[k].left
    BY <1>1, <1>3, SurveyAssumption DEF Unheld, RowOk, RowStates
  <2>2. Lease(k)!Lose(s)
    BY <1>3, <2>1 DEF Lease!Lose, Pending, Final
  <2>3. QED
    BY <2>2 DEF Lease!Next
<1>4. QED
  BY <1>2, <1>3

\* Under every key the survey's reservations are those of a leased step, which is also
\* what the statements of the idempotency repository implement: one verdict, given by the
\* execution that has the lease, and no second lease before the first ran out or ended.
THEOREM SurveyLeases == Spec => RowsImplementLease
<1> DEFINE EveryRow == \A k \in Keys : [Lease(k)!Next]_(Lease(k)!vars)
<1>1. Init => \A k \in Keys : Lease(k)!Init
  BY DEF Init, FreeRow, Lease!Init, Pending, Final
<1>2. TruthInv /\ [Next]_vars => [EveryRow]_vars
  <2> SUFFICES ASSUME TruthInv, [Next]_vars, NEW k \in Keys
               PROVE  [Lease(k)!Next]_(Lease(k)!vars)
    OBVIOUS
  <2>1. /\ rows \in [Keys -> RowStates] /\ rows[k] \in RowStates
        /\ rows[k].holder \in Slots \cup {None} /\ rows[k].left \in 0..LeaseLife
    BY DEF TruthInv, TypeOK, RowStates
  <2>2. ASSUME NEW s \in Slots, Reserve(s) PROVE [Lease(k)!Next]_(Lease(k)!vars)
    <3>1. CASE k = execs[s].key /\ Grantable(Row(s)) /\ rows' # rows
      <4> DEFINE row == Leased(s)
      <4>1. /\ execs[s].phase = "reserve"
            /\ rows[k].status = "absent" \/ (rows[k].status = "pending" /\ rows[k].left = 0)
        BY <2>2, <3>1 DEF Reserve, Grantable, Row
      <4>2. /\ row \in RowStates /\ row.status = "pending" /\ row.holder = s /\ row.left = LeaseLife
        BY <2>2, <4>1, LeasedIs
      <4>3. rows'[k] = row \/ rows'[k] = [row EXCEPT !.holder = None]
        BY <2>1, <2>2, <3>1 DEF Reserve
      <4> HIDE DEF row
      <4>4. /\ rows'[k].status = "pending" /\ rows'[k].left = LeaseLife
            /\ rows'[k].holder \in Slots \cup {None}
        BY <4>2, <4>3 DEF RowStates
      <4>5. Lease(k)!Grant(rows'[k].holder)
        BY <4>1, <4>4 DEF Lease!Grant, Pending, Final
      <4>6. QED
        BY <4>4, <4>5 DEF Lease!Next
    <3>2. CASE ~(k = execs[s].key /\ Grantable(Row(s)) /\ rows' # rows)
      <4>1. rows'[k] = rows[k]
        BY <2>1, <2>2, <3>2 DEF Reserve
      <4>2. QED
        BY <4>1, LeaseStutters
    <3>3. QED
      BY <3>1, <3>2
  <2>3. ASSUME NEW s \in Slots, Store(s) PROVE [Lease(k)!Next]_(Lease(k)!vars)
    <3>1. CASE /\ Owns(s) /\ execs[s].result \in Results
               /\ rows' = [rows EXCEPT ![execs[s].key] = Stored(s)]
      <4>1. CASE k = execs[s].key
        <5> DEFINE result == execs[s].result
                   old == rows[k]
        <5>1. old \in RowStates /\ old.status = "pending" /\ old.holder = s /\ result \in Results
          BY <2>1, <3>1, <4>1 DEF Owns, Row
        <5>2. rows'[k] = [old EXCEPT !.status = IF result = "success" THEN "completed" ELSE "failed",
                                     !.holder = None, !.left = 0, !.result = result]
          BY <2>1, <3>1, <4>1 DEF Stored, Row
        <5> HIDE DEF result
        <5>3. rows'[k].status \in Final /\ rows'[k].result = result
          BY <5>1, <5>2 DEF RowStates, Final
        <5>4. Lease(k)!Decide(s, result)
          BY <5>1, <5>3 DEF Lease!Decide, Pending, Final
        <5>5. QED
          BY <5>1, <5>4 DEF Lease!Next
      <4>2. CASE k # execs[s].key
        <5>1. rows'[k] = rows[k]
          BY <2>1, <3>1, <4>2
        <5>2. QED
          BY <5>1, LeaseStutters
      <4>3. QED
        BY <4>1, <4>2
    <3>2. CASE UNCHANGED rows
      BY <3>2, LeaseStutters
    <3>3. CASE rows' = Unheld(s, rows)
      BY <3>3, LeaseLost
    <3>4. QED
      BY <2>3, <3>1, <3>2, <3>3 DEF Store
  <2>4. ASSUME NEW s \in Slots, Crash(s) PROVE [Lease(k)!Next]_(Lease(k)!vars)
    BY <2>4, LeaseLost DEF Crash
  <2>5. CASE Tick
    <3>1. rows'[k] = [rows[k] EXCEPT !.left = Less(rows[k].left)]
      BY <2>5 DEF Tick
    <3>2. CASE rows[k].status = "pending" /\ rows[k].left > 0
      <4>1. /\ rows'[k].status = "pending" /\ rows'[k].holder = rows[k].holder
            /\ rows'[k].left = rows[k].left - 1 /\ rows[k].left > 0
        BY <2>1, <3>1, <3>2 DEF Less, RowStates
      <4>2. Lease(k)!Tick
        BY <3>2, <4>1 DEF Lease!Tick, Pending, Final
      <4>3. QED
        BY <4>2 DEF Lease!Next
    <3>3. CASE ~(rows[k].status = "pending" /\ rows[k].left > 0)
      <4>1. /\ rows'[k].status = rows[k].status /\ rows'[k].result = rows[k].result
            /\ rows'[k].holder = rows[k].holder
        BY <2>1, <3>1 DEF RowStates
      <4>2. rows[k].status = "pending" => rows'[k].left = rows[k].left
        BY <2>1, <3>1, <3>3 DEF Less, RowStates
      <4>3. UNCHANGED Lease(k)!vars
        BY <4>1, <4>2 DEF Lease!vars, Pending, Final
      <4>4. QED
        BY <4>3
    <3>4. QED
      BY <3>2, <3>3
  <2>6. CASE UNCHANGED rows
    BY <2>6, LeaseStutters
  <2>7. QED
    BY <2>2, <2>3, <2>4, <2>5, <2>6
       DEF Next, Trigger, ChildNext, FindCustomer, FindContact, Start, Timeout, ExecNext, Call,
           Stall, vars
<1>3. QED
  BY <1>1, <1>2, TruthInvariance, PTL DEF Spec, RowsImplementLease

================================================================================
