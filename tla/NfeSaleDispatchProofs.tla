------------------------- MODULE NfeSaleDispatchProofs -------------------------
(***************************************************************************)
(* Theorems about one sale and everybody who tries to e-mail it, for any   *)
(* number of requests, any bound on the attempts and any failures.  The    *)
(* argument: a claim in progress belongs to one actor, whose last_attempt_at *)
(* nobody else has, and every statement that takes the row out of          *)
(* IN_PROGRESS names it.                                                   *)
(***************************************************************************)
EXTENDS NfeSaleDispatch, FiniteSetTheorems, TLAPS

LEMMA InitInv == Init => IInv
<1> SUFFICES ASSUME Init PROVE IInv
  OBVIOUS
<1>1. NewSale \in Sales /\ NoRun \in Runs /\ NoRun.pc = "off"
  BY DEF NewSale, Sales, Statuses, NoRun, Runs, PCs
<1>2. DataOK
  BY <1>1 DEF Init, DataOK, Kinds
<1>3. \A a \in Actors : act[a] = NoRun
  BY DEF Init
<1>4. HoldersOwn /\ ClaimsDistinct /\ TargetsAreTrue
  BY <1>3, <1>1 DEF HoldersOwn, Holding, HoldsAt, ClaimsDistinct, TargetsAreTrue, NoRun, Actors,
                    Init
<1>5. RowIsTrue(sale) /\ BeforeIsTrue /\ AnswersAreTrue /\ SentStaysSent
  BY DEF Init, NewSale, RowIsTrue, BeforeIsTrue, AnswersAreTrue, SentStaysSent
<1>6. QED
  BY <1>2, <1>4, <1>5 DEF IInv

--------------------------------------------------------------------------------
(* A step of one actor *)

\* What the actor does next fits the row as it is then.
Fits(a, run) ==
    /\ run \in Runs
    /\ HoldsAt(a, run.pc) => /\ sale'.status = "IN_PROGRESS" /\ sale'.claim = run.claim
                             /\ run.n \in Attempts /\ run.count \in Attempts
    /\ \/ run.claim = 0
       \/ run.claim = act[a].claim
       \/ run.claim = claims' /\ claims < claims'
    /\ a = Child /\ run.pc \in {"lock", "claim"} => run.n \in Attempts
    /\ run.pc \in {"finalize", "refinalize", "recover"} => run.target \in Verdicts
    /\ run.target = "SENT" => mails' # {}

Typed ==
    /\ smtp' \in [Kinds \X Attempts \X Attempts -> {"absent", "pending", "completed", "failed"}]
    /\ parent' \in [pc : {"idle", "listed", "waiting"}, count : Nat, limit : SendLimits]

\* The invariant is kept when the others' claims stand and the row stays true.
LEMMA OneActs ==
    ASSUME IInv, NEW a \in Actors, NEW run, Fits(a, run), act' = [act EXCEPT ![a] = run],
           Typed, AnswersAreTrue', mails \subseteq mails',
           sale' \in Sales, RowIsTrue(sale)', claims' \in Nat, claims <= claims',
           verdict' \in Verdicts \cup {"PENDING"}, SentStaysSent',
           before' \in [Requests -> Sales], BeforeIsTrue',
           \A b \in Actors \ {a} : Holding(b) => sale' = sale
    PROVE  IInv'
<1>1. act \in [Actors -> Runs] /\ claims \in Nat
  BY DEF IInv, DataOK
<1>2. act'[a] = run /\ \A b \in Actors \ {a} : act'[b] = act[b]
  BY <1>1
<1>3. DataOK'
  BY <1>1 DEF DataOK, Fits, Typed
<1>4. HoldersOwn'
  <2> SUFFICES ASSUME NEW b \in Actors, Holding(b)'
               PROVE  (Mine(b) /\ act[b].n \in Attempts /\ act[b].count \in Attempts)'
    BY DEF HoldersOwn, Attempts
  <2>1. CASE b = a
    BY <1>2, <2>1 DEF Fits, Holding, HoldsAt, Mine, Attempts
  <2>2. CASE b # a
    BY <1>2, <2>2 DEF IInv, HoldersOwn, Holding, HoldsAt, Mine, Attempts
  <2>3. QED
    BY <2>1, <2>2
<1>5. ClaimsDistinct'
  <2>1. \A b \in Actors : act[b].claim \in Nat /\ act[b].claim <= claims
    BY <1>1 DEF IInv, ClaimsDistinct, Runs
  <2>2. \A b \in Actors : act'[b].claim <= claims'
    BY <1>1, <1>2, <2>1 DEF Fits
  <2>3. ASSUME NEW b \in Actors, NEW c \in Actors, act'[b].claim = act'[c].claim,
               act'[b].claim # 0
        PROVE  b = c
    <3>1. CASE b = a /\ c # a
      BY <1>1, <1>2, <2>1, <2>3, <3>1 DEF Fits, IInv, ClaimsDistinct
    <3>2. CASE b # a /\ c = a
      BY <1>1, <1>2, <2>1, <2>3, <3>2 DEF Fits, IInv, ClaimsDistinct
    <3>3. CASE b # a /\ c # a
      BY <1>2, <2>3, <3>3 DEF IInv, ClaimsDistinct
    <3>4. QED
      BY <3>1, <3>2, <3>3
  <2>4. act'[Child].pc \in {"lock", "claim"} => act'[Child].n \in Attempts
    BY <1>2 DEF Fits, IInv, ClaimsDistinct, Actors
  <2>5. QED
    BY <2>2, <2>3, <2>4 DEF ClaimsDistinct, Attempts
<1>6. TargetsAreTrue'
  BY <1>2 DEF Fits, IInv, TargetsAreTrue
<1>7. QED
  BY <1>3, <1>4, <1>5, <1>6 DEF IInv

\* What the requests loaded stays true, for claims and e-mails only become more.
LEMMA BeforeStands ==
    ASSUME IInv, UNCHANGED before, mails \subseteq mails', claims' \in Nat, claims <= claims'
    PROVE  before' \in [Requests -> Sales] /\ BeforeIsTrue'
<1>1. before \in [Requests -> Sales] /\ BeforeIsTrue /\ claims \in Nat
  BY DEF IInv, DataOK
<1>2. \A r \in Requests : before[r].claim \in Nat
  BY <1>1 DEF Sales
<1>3. QED
  BY <1>1, <1>2 DEF BeforeIsTrue, RowIsTrue

\* A step that leaves the row alone.
LEMMA RowUntouched ==
    ASSUME IInv, NEW a \in Actors, NEW run, Fits(a, run), act' = [act EXCEPT ![a] = run],
           Typed, AnswersAreTrue', mails \subseteq mails',
           UNCHANGED <<sale, claims, before, verdict>>
    PROVE  IInv'
<1>1. sale \in Sales /\ claims \in Nat /\ verdict \in Verdicts \cup {"PENDING"}
  BY DEF IInv, DataOK
<1>2. before' \in [Requests -> Sales] /\ BeforeIsTrue'
  BY <1>1, BeforeStands
<1>3. RowIsTrue(sale)' /\ SentStaysSent'
  BY <1>1 DEF IInv, RowIsTrue, SentStaysSent
<1>4. claims' \in Nat /\ claims <= claims'
  BY <1>1
<1>5. QED
  BY <1>1, <1>2, <1>3, <1>4, OneActs

\* The actor whose claim the row bears is the only one that holds it.
LEMMA SoleHolder ==
    ASSUME IInv, NEW a \in Actors, Mine(a), NEW b \in Actors, Holding(b)
    PROVE  b = a
<1>1. sale.claim = act[a].claim /\ sale.claim # 0
  BY DEF IInv, RowIsTrue, Mine
<1>2. sale.claim = act[b].claim
  BY DEF IInv, HoldersOwn, Mine
<1>3. QED
  BY <1>1, <1>2 DEF IInv, ClaimsDistinct

--------------------------------------------------------------------------------
(* Where an actor may go *)

\* On to another step of the same attempt.
LEMMA GotoFits ==
    ASSUME IInv, NEW a \in Actors, NEW pc \in PCs, mails \subseteq mails',
           HoldsAt(a, pc) => Holding(a) /\ sale' = sale,
           pc \in {"finalize", "refinalize", "recover"} => act[a].target \in Verdicts,
           a = Child /\ pc \in {"lock", "claim"} => act[a].pc \in {"lock", "claim"}
    PROVE  Fits(a, [act[a] EXCEPT !.pc = pc])
<1>1. act[a] \in Runs
  BY DEF IInv, DataOK
<1> DEFINE run == [act[a] EXCEPT !.pc = pc]
<1>2. /\ run \in Runs /\ run.pc = pc /\ run.n = act[a].n /\ run.count = act[a].count
      /\ run.claim = act[a].claim /\ run.target = act[a].target
  BY <1>1 DEF Runs
<1> HIDE DEF run
<1>3. Holding(a) => Mine(a) /\ run.n \in Attempts /\ run.count \in Attempts
  BY <1>2 DEF IInv, HoldersOwn
<1>4. a = Child /\ run.pc \in {"lock", "claim"} => run.n \in Attempts
  BY <1>2 DEF IInv, ClaimsDistinct
<1>5. run.target = "SENT" => mails' # {}
  BY <1>2 DEF IInv, TargetsAreTrue
<1>6. Fits(a, run)
  BY <1>2, <1>3, <1>4, <1>5 DEF Fits, Mine
<1>7. QED
  BY <1>6 DEF run

\* On with a target: the one the attempt's outcome asks for.
LEMMA AimFits ==
    ASSUME IInv, NEW a \in Actors, NEW pc \in {"finalize", "refinalize", "recover"},
           NEW target \in Verdicts, HoldsAt(a, pc) => Holding(a) /\ sale' = sale,
           target = "SENT" => mails' # {}
    PROVE  Fits(a, [act[a] EXCEPT !.pc = pc, !.target = target])
<1>1. act[a] \in Runs
  BY DEF IInv, DataOK
<1> DEFINE run == [act[a] EXCEPT !.pc = pc, !.target = target]
<1>2. /\ run \in Runs /\ run.pc = pc /\ run.n = act[a].n /\ run.count = act[a].count
      /\ run.claim = act[a].claim /\ run.target = target
  BY <1>1 DEF Runs, PCs
<1> HIDE DEF run
<1>3. Holding(a) => Mine(a) /\ run.n \in Attempts /\ run.count \in Attempts
  BY <1>2 DEF IInv, HoldersOwn
<1>4. Fits(a, run)
  BY <1>2, <1>3 DEF Fits, Mine
<1>5. QED
  BY <1>4 DEF run

\* The end.
LEMMA EndFits ==
    ASSUME NEW a \in Actors, NEW pc \in {"off", "done"}
    PROVE  Fits(a, [NoRun EXCEPT !.pc = pc])
<1> DEFINE run == [NoRun EXCEPT !.pc = pc]
<1>1. run \in Runs /\ run.pc = pc /\ run.claim = 0 /\ run.target = "none"
  BY DEF NoRun, Runs, PCs
<1> HIDE DEF run
<1>2. Fits(a, run)
  BY <1>1 DEF Fits, HoldsAt
<1>3. QED
  BY <1>2 DEF run

--------------------------------------------------------------------------------
(* Steps that leave the row, its history and the e-mails alone *)

RowKept == UNCHANGED <<sale, claims, smtp, before, mails, verdict>>

LEMMA SmtpStands ==
    ASSUME IInv, UNCHANGED smtp, mails \subseteq mails'
    PROVE  /\ smtp' \in [Kinds \X Attempts \X Attempts ->
                            {"absent", "pending", "completed", "failed"}]
           /\ AnswersAreTrue'
  BY DEF IInv, DataOK, AnswersAreTrue, Attempts, Kinds

LEMMA ParentCloses ==
    ASSUME IInv, NEW a \in Actors, NEW how, Close(a, how)
    PROVE  /\ parent' \in [pc : {"idle", "listed", "waiting"}, count : Nat, limit : SendLimits]
           /\ \E pc \in {"off", "done"} : act' = [act EXCEPT ![a] = [NoRun EXCEPT !.pc = pc]]
  BY DEF IInv, DataOK, Close

LEMMA CloseKeeps ==
    ASSUME IInv, NEW a \in Actors, NEW how, Close(a, how), RowKept
    PROVE  IInv'
<1>1. PICK pc \in {"off", "done"} : act' = [act EXCEPT ![a] = [NoRun EXCEPT !.pc = pc]]
  BY ParentCloses
<1>2. Typed /\ AnswersAreTrue'
  BY ParentCloses, SmtpStands DEF RowKept, Typed
<1>3. QED
  BY <1>1, <1>2, EndFits, RowUntouched DEF RowKept

LEMMA GotoKeeps ==
    ASSUME IInv, NEW a \in Actors, NEW pc \in PCs, Goto(a, pc), RowKept, UNCHANGED parent,
           HoldsAt(a, pc) => Holding(a),
           pc \in {"finalize", "refinalize", "recover"} => act[a].target \in Verdicts,
           a = Child /\ pc \in {"lock", "claim"} => act[a].pc \in {"lock", "claim"}
    PROVE  IInv'
<1>1. act' = [act EXCEPT ![a] = [act[a] EXCEPT !.pc = pc]]
  BY DEF Goto, IInv, DataOK
<1>2. Typed /\ AnswersAreTrue'
  BY SmtpStands DEF RowKept, Typed, IInv, DataOK
<1>3. Fits(a, [act[a] EXCEPT !.pc = pc])
  BY GotoFits DEF RowKept
<1>4. QED
  BY <1>1, <1>2, <1>3, RowUntouched DEF RowKept

LEMMA LeavesKeeps ==
    ASSUME IInv, NEW r \in Requests, Leaves(r), RowKept, UNCHANGED parent
    PROVE  IInv'
<1>1. Typed /\ AnswersAreTrue' /\ r \in Actors
  BY SmtpStands DEF RowKept, Typed, IInv, DataOK, Actors
<1>2. Fits(r, [NoRun EXCEPT !.pc = "done"])
  BY <1>1, EndFits
<1>3. QED
  BY <1>1, <1>2, RowUntouched DEF RowKept, Leaves

LEMMA RecoversKeeps ==
    ASSUME IInv, NEW r \in Requests, Recovers(r), RowKept
    PROVE  IInv'
<1>1. Typed /\ AnswersAreTrue' /\ r \in Actors
  BY SmtpStands DEF RowKept, Typed, IInv, DataOK, Actors, Recovers
<1>2. act' = [act EXCEPT ![r] = [act[r] EXCEPT !.pc = "recover", !.target = "FAILED_TRANSIENT"]]
  BY <1>1 DEF Recovers, IInv, DataOK
<1>3. Fits(r, [act[r] EXCEPT !.pc = "recover", !.target = "FAILED_TRANSIENT"])
  BY <1>1, AimFits DEF Verdicts, HoldsAt
<1>4. QED
  BY <1>1, <1>2, <1>3, RowUntouched DEF RowKept

LEMMA ListInv ==
    ASSUME IInv, List
    PROVE  IInv'
<1>1. parent' \in [pc : {"idle", "listed", "waiting"}, count : Nat, limit : SendLimits]
  BY DEF List, IInv, DataOK, Sales
<1>2. UNCHANGED <<sale, claims, smtp, act, before, mails, verdict>>
  BY DEF List, history
<1>3. QED
  BY <1>1, <1>2 DEF IInv, DataOK, HoldersOwn, Holding, HoldsAt, Mine, ClaimsDistinct, RowIsTrue,
                    BeforeIsTrue, TargetsAreTrue, AnswersAreTrue, SentStaysSent

LEMMA StartChildInv ==
    ASSUME IInv, StartChild
    PROVE  IInv'
<1> DEFINE run == [NoRun EXCEPT !.pc = "lock", !.n = parent.count + 1]
<1>1. /\ parent.count + 1 \in Attempts /\ parent.count + 1 \in Nat /\ Child \in Actors
      /\ RowKept
  BY DispatchAssumption DEF StartChild, IInv, DataOK, Attempts, Actors, RowKept, history
<1>2. parent' \in [pc : {"idle", "listed", "waiting"}, count : Nat, limit : SendLimits]
  <2>1. \/ parent' = [parent EXCEPT !.pc = "waiting"]
        \/ parent' = [parent EXCEPT !.pc = "idle", !.count = 0]
    BY DEF StartChild
  <2>2. parent \in [pc : {"idle", "listed", "waiting"}, count : Nat, limit : SendLimits]
    BY DEF IInv, DataOK
  <2>3. \A p \in [pc : {"idle", "listed", "waiting"}, count : Nat, limit : SendLimits] :
           /\ [p EXCEPT !.pc = "waiting"]
                 \in [pc : {"idle", "listed", "waiting"}, count : Nat, limit : SendLimits]
           /\ [p EXCEPT !.pc = "idle", !.count = 0]
                 \in [pc : {"idle", "listed", "waiting"}, count : Nat, limit : SendLimits]
    OBVIOUS
  <2>4. QED
    BY <2>1, <2>2, <2>3
<1>3. Typed /\ AnswersAreTrue'
  BY <1>1, <1>2, SmtpStands DEF RowKept, Typed
<1>4. CASE UNCHANGED act
  BY <1>1, <1>2, <1>4 DEF RowKept, IInv, DataOK, HoldersOwn, Holding, HoldsAt, Mine,
     ClaimsDistinct, RowIsTrue, BeforeIsTrue, TargetsAreTrue, AnswersAreTrue, SentStaysSent
<1>5. CASE act' = [act EXCEPT ![Child] = run]
  <2>1. run \in Runs /\ run.pc = "lock" /\ run.n = parent.count + 1 /\ run.claim = 0
        /\ run.target = "none"
    BY <1>1 DEF NoRun, Runs, PCs
  <2> HIDE DEF run
  <2>2. Fits(Child, run)
    BY <1>1, <2>1 DEF Fits, HoldsAt
  <2>3. QED
    BY <1>1, <1>3, <1>5, <2>2, RowUntouched DEF RowKept
<1>6. QED
  BY <1>4, <1>5 DEF StartChild

LEMMA ChildAcquireInv ==
    ASSUME IInv, ChildAcquire
    PROVE  IInv'
<1>1. RowKept /\ Child \in Actors /\ act[Child].pc = "lock" /\ "claim" \in PCs
  BY DEF ChildAcquire, RowKept, history, Actors, PCs
<1>2. CASE Goto(Child, "claim") /\ UNCHANGED parent
  BY <1>1, <1>2, GotoKeeps DEF HoldsAt
<1>3. CASE \E how \in {"completed", "failed"} : Close(Child, how)
  BY <1>1, <1>3, CloseKeeps
<1>4. QED
  BY <1>2, <1>3 DEF ChildAcquire

LEMMA ChildCancelInv ==
    ASSUME IInv, ChildCancel
    PROVE  IInv'
  BY CloseKeeps DEF ChildCancel, RowKept, history, Actors

LEMMA UnlockInv ==
    ASSUME IInv, NEW a \in Actors, Unlock(a)
    PROVE  IInv'
  BY CloseKeeps DEF Unlock, RowKept, history

LEMMA RequestLoadInv ==
    ASSUME IInv, NEW r \in Requests, RequestLoad(r)
    PROVE  IInv'
<1>1. r \in Actors /\ act[r].pc = "off" /\ UNCHANGED <<sale, claims, smtp, parent, mails, verdict>>
  BY DEF RequestLoad, Actors, history
<1>2. CASE Leaves(r) /\ UNCHANGED before
  BY <1>1, <1>2, LeavesKeeps DEF RowKept
<1>3. CASE /\ sale.status \notin {"SENT", "IN_PROGRESS"} /\ Goto(r, "loaded")
           /\ before' = [before EXCEPT ![r] = sale]
  <2>1. before' \in [Requests -> Sales] /\ BeforeIsTrue'
    BY <1>1, <1>3 DEF IInv, DataOK, BeforeIsTrue, RowIsTrue
  <2>2. act' = [act EXCEPT ![r] = [act[r] EXCEPT !.pc = "loaded"]]
    BY <1>1, <1>3 DEF Goto, IInv, DataOK
  <2>3. Fits(r, [act[r] EXCEPT !.pc = "loaded"])
    BY <1>1, GotoFits, DispatchAssumption DEF HoldsAt, PCs
  <2>4. Typed /\ AnswersAreTrue'
    BY <1>1, SmtpStands DEF Typed, IInv, DataOK
  <2>5. /\ sale' \in Sales /\ claims' \in Nat /\ claims <= claims'
        /\ verdict' \in Verdicts \cup {"PENDING"}
    BY <1>1 DEF IInv, DataOK
  <2>6. RowIsTrue(sale)' /\ SentStaysSent'
    BY <1>1 DEF IInv, RowIsTrue, SentStaysSent
  <2>7. QED
    BY <1>1, <2>1, <2>2, <2>3, <2>4, <2>5, <2>6, OneActs
<1>4. QED
  BY <1>2, <1>3 DEF RequestLoad

LEMMA RequestStartInv ==
    ASSUME IInv, NEW r \in Requests, RequestStart(r)
    PROVE  IInv'
<1>1. /\ RowKept /\ UNCHANGED parent /\ r \in Actors /\ act[r].pc = "claimed"
      /\ {"load", "rollback"} \subseteq PCs
  BY DEF RequestStart, RowKept, history, Actors, PCs
<1>2. CASE \E pc \in {"load", "rollback"} : Goto(r, pc)
  BY <1>1, <1>2, GotoKeeps DEF Holding, HoldsAt
<1>3. CASE Leaves(r)
  BY <1>1, <1>3, LeavesKeeps
<1>4. QED
  BY <1>2, <1>3 DEF RequestStart, WorkflowStarts

LEMMA ManualLoadInv ==
    ASSUME IInv, NEW r \in Requests, ManualLoad(r)
    PROVE  IInv'
<1>1. /\ RowKept /\ r \in Actors /\ r # Child /\ act[r].pc = "load" /\ "lock" \in PCs
  BY DispatchAssumption DEF ManualLoad, RowKept, history, Actors, PCs
<1>2. CASE Goto(r, "lock") /\ UNCHANGED parent
  BY <1>1, <1>2, GotoKeeps DEF Holding, HoldsAt
<1>3. CASE Close(r, "completed")
  BY <1>1, <1>3, CloseKeeps
<1>4. CASE Recovers(r)
  BY <1>1, <1>4, RecoversKeeps
<1>5. QED
  BY <1>2, <1>3, <1>4 DEF ManualLoad

LEMMA ManualAcquireInv ==
    ASSUME IInv, NEW r \in Requests, ManualAcquire(r)
    PROVE  IInv'
<1>1. /\ RowKept /\ r \in Actors /\ r # Child /\ act[r].pc = "lock"
  BY DispatchAssumption DEF ManualAcquire, RowKept, history, Actors
<1>2. CASE act' = [act EXCEPT ![r].pc = "work", ![r].leased = TRUE] /\ UNCHANGED parent
  <2> DEFINE run == [act[r] EXCEPT !.pc = "work", !.leased = TRUE]
  <2>1. act[r] \in Runs /\ Holding(r)
    BY <1>1 DEF IInv, DataOK, Holding, HoldsAt
  <2>2. /\ run \in Runs /\ run.pc = "work" /\ run.n = act[r].n /\ run.count = act[r].count
        /\ run.claim = act[r].claim /\ run.target = act[r].target
    BY <2>1 DEF Runs, PCs
  <2>3. act' = [act EXCEPT ![r] = run]
    BY <1>1, <1>2 DEF IInv, DataOK
  <2> HIDE DEF run
  <2>4. Fits(r, run)
    BY <1>1, <2>1, <2>2 DEF Fits, RowKept, IInv, HoldersOwn, Mine, TargetsAreTrue
  <2>5. Typed /\ AnswersAreTrue'
    BY <1>1, <1>2, SmtpStands DEF RowKept, Typed, IInv, DataOK
  <2>6. QED
    BY <1>1, <2>3, <2>4, <2>5, RowUntouched DEF RowKept
<1>3. CASE \E how \in {"completed", "failed"} : Close(r, how)
  BY <1>1, <1>3, CloseKeeps
<1>4. CASE Recovers(r)
  BY <1>1, <1>4, RecoversKeeps
<1>5. QED
  BY <1>2, <1>3, <1>4 DEF ManualAcquire

--------------------------------------------------------------------------------
(* The attempt *)

LEMMA WorkInv ==
    ASSUME IInv, NEW a \in Actors, Work(a)
    PROVE  IInv'
<1>1. /\ UNCHANGED <<sale, claims, parent, before, verdict>> /\ act[a].pc = "work"
      /\ Holding(a) /\ act[a] \in Runs
  BY DEF Work, Holding, HoldsAt, IInv, DataOK
<1>2. SmtpKey(a) \in Kinds \X Attempts \X Attempts
  BY <1>1 DEF IInv, HoldersOwn, SmtpKey, Kind, Kinds
<1>3. \E target \in Verdicts :
         Aims(a, target) /\ mails \subseteq mails' /\ (target = "SENT" => mails' # {})
  <2>1. CASE WorkFailsBeforeMail(a)
    BY <2>1 DEF WorkFailsBeforeMail, ErpStage, IxcStage, RenderStage, Verdicts
  <2>2. CASE AnsweredByEarlierSend(a)
    BY <2>2, <1>2 DEF AnsweredByEarlierSend, Verdicts, IInv, AnswersAreTrue
  <2>3. CASE TalksToServer(a)
    BY <2>3 DEF TalksToServer, Mailed, Verdicts
  <2>4. QED
    BY <2>1, <2>2, <2>3 DEF Work
<1>4. \/ UNCHANGED smtp
      \/ \E row \in {"pending", "failed"} : SmtpRow(a, row)
      \/ SmtpRow(a, "completed") /\ mails' # {}
  BY DEF Work, WorkFailsBeforeMail, AnsweredByEarlierSend, TalksToServer, Mailed
<1>5. PICK target \in Verdicts :
         Aims(a, target) /\ mails \subseteq mails' /\ (target = "SENT" => mails' # {})
  BY <1>3
<1>6. smtp \in [Kinds \X Attempts \X Attempts -> {"absent", "pending", "completed", "failed"}]
  BY DEF IInv, DataOK
<1>7. Typed
  BY <1>1, <1>2, <1>4, <1>6 DEF Typed, SmtpRow, IInv, DataOK
<1>8. AnswersAreTrue'
  <2> SUFFICES ASSUME NEW k \in Kinds \X Attempts \X Attempts, smtp'[k] = "completed"
               PROVE  mails' # {}
    BY DEF AnswersAreTrue, Attempts, Kinds
  <2>1. CASE smtp[k] = "completed"
    BY <2>1, <1>5 DEF IInv, AnswersAreTrue
  <2>2. CASE smtp[k] # "completed"
    BY <2>2, <1>2, <1>4, <1>6 DEF SmtpRow
  <2>3. QED
    BY <2>1, <2>2
<1>9. act' = [act EXCEPT ![a] = [act[a] EXCEPT !.pc = "finalize", !.target = target]]
  BY <1>5 DEF Aims, IInv, DataOK
<1>10. Fits(a, [act[a] EXCEPT !.pc = "finalize", !.target = target])
  BY <1>1, <1>5, AimFits
<1>11. QED
  BY <1>1, <1>5, <1>7, <1>8, <1>9, <1>10, RowUntouched

--------------------------------------------------------------------------------
(* Claims *)

\* Nobody holds a row that may be claimed, and the claim's number is new.
LEMMA ClaimKeeps ==
    ASSUME IInv, NEW a \in Actors, NEW run, ClaimRow, sale.status \notin {"IN_PROGRESS", "SENT"},
           Fits(a, run), act' = [act EXCEPT ![a] = run],
           UNCHANGED <<smtp, parent, before, mails, verdict>>
    PROVE  IInv'
<1>1. /\ sale \in Sales /\ claims \in Nat /\ claims' \in Nat /\ claims <= claims'
      /\ verdict \in Verdicts \cup {"PENDING"}
  BY DEF IInv, DataOK, ClaimRow
<1>2. sale' \in Sales /\ RowIsTrue(sale)'
  BY <1>1 DEF ClaimRow, Sales, Statuses, RowIsTrue
<1>3. SentStaysSent'
  BY DEF IInv, SentStaysSent
<1>4. before' \in [Requests -> Sales] /\ BeforeIsTrue'
  BY <1>1, BeforeStands
<1>5. Typed /\ AnswersAreTrue'
  BY SmtpStands DEF Typed, IInv, DataOK
<1>6. \A b \in Actors : ~Holding(b)
  BY DEF IInv, HoldersOwn, Mine
<1>7. QED
  BY <1>1, <1>2, <1>3, <1>4, <1>5, <1>6, OneActs

\* A claim applied, whether its answer arrives or not, unless its actor goes on with it.
LEMMA ClaimForgotten ==
    ASSUME IInv, NEW a \in Actors, NEW run, ClaimRow, sale.status \notin {"IN_PROGRESS", "SENT"},
           run \in Runs, ~HoldsAt(a, run.pc), run.claim \in {0, act[a].claim},
           run.pc \notin {"lock", "claim", "finalize", "refinalize", "recover"},
           run.target \in {"none", act[a].target},
           act' = [act EXCEPT ![a] = run], UNCHANGED <<smtp, parent, before, mails, verdict>>
    PROVE  IInv'
<1>1. Fits(a, run)
  BY DEF Fits, IInv, TargetsAreTrue
<1>2. QED
  BY <1>1, ClaimKeeps

LEMMA ChildClaimInv ==
    ASSUME IInv, ChildClaim
    PROVE  IInv'
<1>1. /\ UNCHANGED <<smtp, parent, before, mails, verdict>> /\ act[Child].pc = "claim"
      /\ Child \in Actors /\ {"skip", "abort", "work"} \subseteq PCs
  BY DEF ChildClaim, history, Actors, PCs
<1>2. act[Child] \in Runs /\ act[Child].n \in Attempts /\ act \in [Actors -> Runs]
  BY <1>1 DEF IInv, DataOK, ClaimsDistinct
<1>3. Eligible => sale.status \notin {"IN_PROGRESS", "SENT"}
  BY DEF Eligible
<1>4. CASE Eligible /\ ClaimRow /\
           act' = [act EXCEPT ![Child].pc = "work", ![Child].count = sale.count + 1,
                              ![Child].claim = claims + 1, ![Child].leased = TRUE]
  <2> DEFINE run == [act[Child] EXCEPT !.pc = "work", !.count = sale.count + 1,
                                       !.claim = claims + 1, !.leased = TRUE]
  <2>1. /\ sale \in Sales /\ claims \in Nat /\ sale.count + 1 \in Attempts /\ sale.count + 1 \in Nat
        /\ claims + 1 \in Nat
    BY <1>4, DispatchAssumption DEF IInv, DataOK, ClaimRow, Attempts, Sales
  <2>2. /\ run \in Runs /\ run.pc = "work" /\ run.n = act[Child].n /\ run.count = sale.count + 1
        /\ run.claim = claims + 1 /\ run.target = act[Child].target
    BY <1>1, <1>2, <2>1 DEF Runs
  <2>3. act' = [act EXCEPT ![Child] = run]
    BY <1>1, <1>2, <1>4
  <2> HIDE DEF run
  <2>4. Fits(Child, run)
    BY <1>1, <1>2, <1>4, <2>1, <2>2 DEF Fits, ClaimRow, IInv, TargetsAreTrue
  <2>5. QED
    BY <1>1, <1>3, <1>4, <2>3, <2>4, ClaimKeeps
<1>5. CASE \E pc \in {"skip", "abort"} : Goto(Child, pc) /\ UNCHANGED <<sale, claims>>
  BY <1>1, <1>5, GotoKeeps DEF RowKept, HoldsAt
<1>6. CASE Eligible /\ ClaimRow /\ Goto(Child, "abort")
  <2> DEFINE run == [act[Child] EXCEPT !.pc = "abort"]
  <2>1. /\ run \in Runs /\ run.pc = "abort" /\ run.claim = act[Child].claim
        /\ run.target = act[Child].target /\ act' = [act EXCEPT ![Child] = run]
    BY <1>1, <1>2, <1>6 DEF Runs, Goto
  <2> HIDE DEF run
  <2>2. QED
    BY <1>1, <1>3, <1>6, <2>1, ClaimForgotten DEF HoldsAt
<1>7. QED
  BY <1>4, <1>5, <1>6 DEF ChildClaim

LEMMA RequestClaimInv ==
    ASSUME IInv, NEW r \in Requests, RequestClaim(r)
    PROVE  IInv'
<1>1. /\ UNCHANGED <<smtp, parent, before, mails, verdict>> /\ act[r].pc = "loaded"
      /\ r \in Actors /\ r # Child /\ {"claimed", "done"} \subseteq PCs
  BY DispatchAssumption DEF RequestClaim, history, Actors, PCs
<1>2. act[r] \in Runs /\ act \in [Actors -> Runs]
  BY <1>1 DEF IInv, DataOK
<1>3. ManuallyClaimable => sale.status \notin {"IN_PROGRESS", "SENT"}
  BY DEF ManuallyClaimable
<1>4. CASE ManuallyClaimable /\ ClaimRow /\
           act' = [act EXCEPT ![r].pc = "claimed", ![r].n = sale.count + 1,
                              ![r].count = sale.count + 1, ![r].claim = claims + 1]
  <2> DEFINE run == [act[r] EXCEPT !.pc = "claimed", !.n = sale.count + 1,
                                   !.count = sale.count + 1, !.claim = claims + 1]
  <2>1. /\ sale \in Sales /\ claims \in Nat /\ sale.count + 1 \in Attempts /\ sale.count + 1 \in Nat
        /\ claims + 1 \in Nat
    BY <1>4, DispatchAssumption DEF IInv, DataOK, ClaimRow, Attempts, Sales
  <2>2. /\ run \in Runs /\ run.pc = "claimed" /\ run.n = sale.count + 1
        /\ run.count = sale.count + 1 /\ run.claim = claims + 1 /\ run.target = act[r].target
    BY <1>1, <1>2, <2>1 DEF Runs
  <2>3. act' = [act EXCEPT ![r] = run]
    BY <1>1, <1>2, <1>4
  <2> HIDE DEF run
  <2>4. Fits(r, run)
    BY <1>1, <1>2, <1>4, <2>1, <2>2 DEF Fits, ClaimRow, IInv, TargetsAreTrue
  <2>5. QED
    BY <1>1, <1>3, <1>4, <2>3, <2>4, ClaimKeeps
<1>5. CASE Leaves(r) /\ UNCHANGED <<sale, claims>>
  BY <1>1, <1>5, LeavesKeeps DEF RowKept
<1>6. CASE ManuallyClaimable /\ ClaimRow /\ Leaves(r)
  <2> DEFINE run == [NoRun EXCEPT !.pc = "done"]
  <2>1. /\ run \in Runs /\ run.pc = "done" /\ run.claim = 0 /\ run.target = "none"
        /\ act' = [act EXCEPT ![r] = run]
    BY <1>6 DEF Leaves, NoRun, Runs, PCs
  <2> HIDE DEF run
  <2>2. QED
    BY <1>1, <1>3, <1>6, <2>1, ClaimForgotten DEF HoldsAt
<1>7. QED
  BY <1>4, <1>5, <1>6 DEF RequestClaim

--------------------------------------------------------------------------------
(* Finalizations, recoveries and rollbacks *)

\* The row changes only if it bears the claim of a, and then nobody else holds it.
LEMMA StoreKeeps ==
    ASSUME IInv, NEW a \in Actors, NEW run, Fits(a, run), ~HoldsAt(a, run.pc),
           act' = [act EXCEPT ![a] = run], Typed,
           NEW status \in Verdicts, status = "SENT" => mails # {},
           StoreVerdict(a, status) \/ UNCHANGED <<sale, verdict>>,
           UNCHANGED <<claims, smtp, before, mails>>
    PROVE  IInv'
<1>1. AnswersAreTrue'
  BY SmtpStands
<1>2. CASE UNCHANGED <<sale, verdict>>
  BY <1>1, <1>2, RowUntouched
<1>3. CASE Mine(a) /\ sale' = [sale EXCEPT !.status = status] /\ verdict' = status
  <2>1. /\ sale \in Sales /\ claims' \in Nat /\ claims <= claims'
        /\ verdict' \in Verdicts \cup {"PENDING"}
    BY <1>3 DEF IInv, DataOK
  <2>2. sale' \in Sales /\ RowIsTrue(sale)' /\ SentStaysSent'
    BY <1>3, <2>1 DEF Sales, Statuses, Verdicts, IInv, RowIsTrue, SentStaysSent
  <2>3. before' \in [Requests -> Sales] /\ BeforeIsTrue'
    BY <2>1, BeforeStands
  <2>4. \A b \in Actors \ {a} : ~Holding(b)
    BY <1>3, SoleHolder
  <2>5. QED
    BY <1>1, <2>1, <2>2, <2>3, <2>4, OneActs
<1>4. QED
  BY <1>2, <1>3 DEF StoreVerdict

\* Where a finalization that throws leads, the row is not held any more.
LEMMA ThrewFits ==
    ASSUME IInv, NEW a \in Actors, act[a].pc \in {"finalize", "refinalize"},
           NEW target \in {"FAILED_FINAL", "FAILED_TRANSIENT"}, FinalizeThrew(a, target),
           UNCHANGED mails
    PROVE  /\ parent' \in [pc : {"idle", "listed", "waiting"}, count : Nat, limit : SendLimits]
           /\ \E run \in Runs : /\ Fits(a, run) /\ ~HoldsAt(a, run.pc)
                                /\ act' = [act EXCEPT ![a] = run]
<1>1. /\ act \in [Actors -> Runs] /\ act[a].target \in Verdicts
      /\ parent \in [pc : {"idle", "listed", "waiting"}, count : Nat, limit : SendLimits]
  BY DEF IInv, DataOK, TargetsAreTrue
<1>2. CASE a # Child /\ Goto(a, "recover") /\ UNCHANGED parent
  <2> DEFINE run == [act[a] EXCEPT !.pc = "recover"]
  <2>1. "recover" \in PCs /\ ~HoldsAt(a, "recover")
    BY DEF PCs, HoldsAt
  <2>2. Fits(a, run)
    BY <1>1, <2>1, GotoFits
  <2>3. act' = [act EXCEPT ![a] = run] /\ run.pc = "recover"
    BY <1>1, <1>2 DEF Goto, Runs
  <2>4. QED
    BY <1>1, <1>2, <2>1, <2>2, <2>3 DEF Fits
<1>3. CASE act' = [act EXCEPT ![a].pc = "refinalize", ![a].target = target] /\ UNCHANGED parent
  <2> DEFINE run == [act[a] EXCEPT !.pc = "refinalize", !.target = target]
  <2>1. ~HoldsAt(a, "refinalize") /\ target \in Verdicts /\ target # "SENT"
    BY DEF HoldsAt, Verdicts
  <2>2. Fits(a, run)
    BY <2>1, AimFits
  <2>3. act' = [act EXCEPT ![a] = run] /\ run.pc = "refinalize"
    BY <1>1, <1>3 DEF Runs
  <2>4. QED
    BY <1>1, <1>3, <2>1, <2>2, <2>3 DEF Fits
<1>4. CASE Close(a, "failed")
  <2>1. PICK pc \in {"off", "done"} : act' = [act EXCEPT ![a] = [NoRun EXCEPT !.pc = pc]]
    BY <1>4, ParentCloses
  <2> DEFINE run == [NoRun EXCEPT !.pc = pc]
  <2>2. Fits(a, run) /\ run.pc = pc
    BY EndFits DEF NoRun
  <2>3. ~HoldsAt(a, pc)
    BY DEF HoldsAt
  <2>4. QED
    BY <1>4, <2>1, <2>2, <2>3, ParentCloses DEF Fits
<1>5. QED
  BY <1>2, <1>3, <1>4 DEF FinalizeThrew

LEMMA FinalizeInv ==
    ASSUME IInv, NEW a \in Actors, Finalize(a)
    PROVE  IInv'
<1>1. /\ act[a].pc \in {"finalize", "refinalize"} /\ UNCHANGED <<claims, smtp, before, mails>>
      /\ act \in [Actors -> Runs] /\ act[a].target \in Verdicts
      /\ act[a].target = "SENT" => mails # {}
  BY DEF Finalize, IInv, DataOK, TargetsAreTrue
<1>2. Effective(a) \in Verdicts /\ (Effective(a) = "SENT" => mails # {})
  BY <1>1 DEF Effective, Verdicts
<1>3. StoreVerdict(a, Effective(a)) \/ UNCHANGED <<sale, verdict>>
  BY DEF Finalize
<1>4. /\ parent' \in [pc : {"idle", "listed", "waiting"}, count : Nat, limit : SendLimits]
      /\ \E run \in Runs : /\ Fits(a, run) /\ ~HoldsAt(a, run.pc)
                           /\ act' = [act EXCEPT ![a] = run]
  <2>1. CASE Goto(a, "unlock") /\ UNCHANGED parent
    <3> DEFINE run == [act[a] EXCEPT !.pc = "unlock"]
    <3>1. "unlock" \in PCs /\ ~HoldsAt(a, "unlock")
      BY DEF PCs, HoldsAt
    <3>2. Fits(a, run)
      BY <1>1, <3>1, GotoFits
    <3>3. act' = [act EXCEPT ![a] = run] /\ run.pc = "unlock"
      BY <1>1, <2>1 DEF Goto, Runs
    <3>4. QED
      BY <2>1, <3>1, <3>2, <3>3 DEF Fits, IInv, DataOK
  <2>2. CASE \E target \in {"FAILED_FINAL", "FAILED_TRANSIENT"} : FinalizeThrew(a, target)
    BY <1>1, <2>2, ThrewFits
  <2>3. QED
    BY <2>1, <2>2 DEF Finalize
<1>5. Typed
  BY <1>1, <1>4, SmtpStands DEF Typed
<1>6. QED
  BY <1>1, <1>2, <1>3, <1>4, <1>5, StoreKeeps

LEMMA RecoverInv ==
    ASSUME IInv, NEW r \in Requests, Recover(r)
    PROVE  IInv'
<1>1. /\ r \in Actors /\ act[r].pc = "recover" /\ UNCHANGED <<claims, smtp, before, mails>>
  BY DEF Recover, Actors
<1>2. /\ act \in [Actors -> Runs] /\ act[r].target \in Verdicts
      /\ act[r].target = "SENT" => mails # {}
  BY <1>1 DEF IInv, DataOK, TargetsAreTrue
<1>3. StoreVerdict(r, act[r].target) \/ UNCHANGED <<sale, verdict>>
  BY DEF Recover
<1>4. CASE Goto(r, "unlock") /\ UNCHANGED parent
  <2> DEFINE run == [act[r] EXCEPT !.pc = "unlock"]
  <2>1. "unlock" \in PCs /\ ~HoldsAt(r, "unlock")
    BY DEF PCs, HoldsAt
  <2>2. Fits(r, run)
    BY <1>1, <2>1, GotoFits
  <2>3. act' = [act EXCEPT ![r] = run] /\ run.pc = "unlock"
    BY <1>2, <1>4 DEF Goto, Runs
  <2>4. Typed
    BY <1>1, <1>4, SmtpStands DEF Typed, IInv, DataOK
  <2>5. QED
    BY <1>1, <1>2, <1>3, <2>1, <2>2, <2>3, <2>4, StoreKeeps
<1>5. CASE Close(r, "failed")
  <2>1. PICK pc \in {"off", "done"} : act' = [act EXCEPT ![r] = [NoRun EXCEPT !.pc = pc]]
    BY <1>1, <1>5, ParentCloses
  <2> DEFINE run == [NoRun EXCEPT !.pc = pc]
  <2>2. Fits(r, run) /\ run.pc = pc /\ ~HoldsAt(r, pc)
    BY <1>1, EndFits DEF NoRun, HoldsAt
  <2>3. Typed
    BY <1>1, <1>5, SmtpStands, ParentCloses DEF Typed
  <2>4. QED
    BY <1>1, <1>2, <1>3, <2>1, <2>2, <2>3, StoreKeeps
<1>6. QED
  BY <1>4, <1>5 DEF Recover

\* A rollback puts back a row that was true when it was loaded, and still is.
LEMMA RequestRollbackInv ==
    ASSUME IInv, NEW r \in Requests, RequestRollback(r)
    PROVE  IInv'
<1>1. /\ r \in Actors /\ UNCHANGED <<claims, smtp, parent, before, mails, verdict>>
      /\ act' = [act EXCEPT ![r] = [NoRun EXCEPT !.pc = "done"]]
      /\ sale' \in {sale, Restored(r)}
  BY DEF RequestRollback, Leaves, history, Actors
<1>2. Fits(r, [NoRun EXCEPT !.pc = "done"])
  BY <1>1, EndFits
<1>3. Typed /\ AnswersAreTrue'
  BY <1>1, SmtpStands DEF Typed, IInv, DataOK
<1>4. CASE sale' = sale
  BY <1>1, <1>2, <1>3, <1>4, RowUntouched
<1>5. CASE Mine(r) /\ sale' = before[r]
  <2>1. /\ before[r] \in Sales /\ RowIsTrue(before[r]) /\ claims' \in Nat /\ claims <= claims'
        /\ verdict' \in Verdicts \cup {"PENDING"}
    BY <1>1 DEF IInv, DataOK, BeforeIsTrue
  <2>2. sale' \in Sales /\ RowIsTrue(sale)'
    BY <1>1, <1>5, <2>1 DEF RowIsTrue
  <2>3. SentStaysSent'
    BY <1>1, <1>5 DEF IInv, SentStaysSent, Mine
  <2>4. before' \in [Requests -> Sales] /\ BeforeIsTrue'
    BY <1>1, <2>1, BeforeStands
  <2>5. \A b \in Actors \ {r} : ~Holding(b)
    BY <1>1, <1>5, SoleHolder
  <2>6. QED
    BY <1>1, <1>2, <1>3, <2>1, <2>2, <2>3, <2>4, <2>5, OneActs
<1>6. QED
  BY <1>1, <1>4, <1>5 DEF Restored

--------------------------------------------------------------------------------
(* The invariant and what follows *)

LEMMA StepInv == IInv /\ [Next]_vars => IInv'
<1> SUFFICES ASSUME IInv, [Next]_vars PROVE IInv'
  OBVIOUS
<1>1. Child \in Actors /\ Requests \subseteq Actors
  BY DEF Actors
<1>2. CASE ChildNext
  BY <1>1, <1>2, StartChildInv, ChildAcquireInv, ChildClaimInv, ChildCancelInv, WorkInv,
     FinalizeInv, UnlockInv DEF ChildNext
<1>3. CASE \E r \in Requests : RequestLoad(r) \/ RequestNext(r)
  BY <1>1, <1>3, RequestLoadInv, RequestClaimInv, RequestStartInv, RequestRollbackInv,
     ManualLoadInv, ManualAcquireInv, WorkInv, FinalizeInv, RecoverInv, UnlockInv
     DEF RequestNext
<1>4. CASE UNCHANGED vars
  BY <1>4 DEF vars, IInv, DataOK, HoldersOwn, Holding, HoldsAt, Mine, ClaimsDistinct, RowIsTrue,
     BeforeIsTrue, TargetsAreTrue, AnswersAreTrue, SentStaysSent
<1>5. QED
  BY <1>2, <1>3, <1>4, ListInv DEF Next

\* Whatever fails, a claim in progress stays with the actor that made it, and the row, the
\* rows requests loaded and the answers kept for e-mails stay true.
THEOREM DispatchInvariance == Spec => []IInv
  BY InitInv, StepInv, PTL DEF Spec

\* At most one execution may hand an e-mail for the sale to the SMTP server, for any number
\* of requests: those that hold the row bear its claim, and no two bear the same.
THEOREM OneSender == Spec => []SingleSender
<1>1. IInv => SingleSender
  <2> SUFFICES ASSUME IInv, NEW a \in Actors, NEW b \in Actors,
                      act[a].pc = "work", act[b].pc = "work"
               PROVE  a = b
    BY DEF SingleSender
  <2>1. Holding(a) /\ Holding(b)
    BY DEF Holding, HoldsAt
  <2>2. Mine(a)
    BY <2>1 DEF IInv, HoldersOwn
  <2>3. QED
    BY <2>1, <2>2, SoleHolder
<1>2. QED
  BY <1>1, DispatchInvariance, PTL

\* A sale stored as SENT stays SENT, whatever late finalizations and rollbacks arrive.
THEOREM SentIsFinal == Spec => []SentStaysSent
<1>1. IInv => SentStaysSent
  BY DEF IInv
<1>2. QED
  BY <1>1, DispatchInvariance, PTL

\* SENT is only stored after the SMTP server accepted an e-mail for the sale.
THEOREM SentIsTrue == Spec => []SentWasMailed
<1>1. IInv => SentWasMailed
  BY DEF IInv, RowIsTrue, SentWasMailed
<1>2. QED
  BY <1>1, DispatchInvariance, PTL

\* A PENDING sale was never attempted, rolled back claims included.
THEOREM PendingIsUntried == Spec => []PendingMeansUntried
<1>1. IInv => PendingMeansUntried
  BY DEF IInv, RowIsTrue, PendingMeansUntried
<1>2. QED
  BY <1>1, DispatchInvariance, PTL

--------------------------------------------------------------------------------
(* The e-mails of the automation are bounded *)

\* An actor goes on with the claim it has, or ends.
Moves(a) ==
    \E run \in Runs : /\ run.pc # "rollback" /\ run.claim \in {0, act[a].claim}
                      /\ act' = [act EXCEPT ![a] = run]

LEMMA GotoMoves ==
    ASSUME IInv, NEW a \in Actors, NEW pc \in PCs \ {"rollback"}, Goto(a, pc)
    PROVE  Moves(a)
<1> DEFINE run == [act[a] EXCEPT !.pc = pc]
<1>1. act \in [Actors -> Runs]
  BY DEF IInv, DataOK
<1>2. run \in Runs /\ run.pc = pc /\ run.claim = act[a].claim
  BY <1>1 DEF Runs
<1>3. act' = [act EXCEPT ![a] = run]
  BY <1>1 DEF Goto
<1>4. QED
  BY <1>2, <1>3 DEF Moves

LEMMA AimMoves ==
    ASSUME IInv, NEW a \in Actors, NEW pc \in PCs \ {"rollback"}, NEW target \in Verdicts,
           act' = [act EXCEPT ![a].pc = pc, ![a].target = target]
    PROVE  Moves(a)
<1> DEFINE run == [act[a] EXCEPT !.pc = pc, !.target = target]
<1>1. act \in [Actors -> Runs]
  BY DEF IInv, DataOK
<1>2. run \in Runs /\ run.pc = pc /\ run.claim = act[a].claim
  BY <1>1 DEF Runs
<1>3. act' = [act EXCEPT ![a] = run]
  BY <1>1
<1>4. QED
  BY <1>2, <1>3 DEF Moves

LEMMA EndMoves ==
    ASSUME NEW a \in Actors, NEW pc \in {"off", "done"},
           act' = [act EXCEPT ![a] = [NoRun EXCEPT !.pc = pc]]
    PROVE  Moves(a)
<1> DEFINE run == [NoRun EXCEPT !.pc = pc]
<1>1. run \in Runs /\ run.pc = pc /\ run.claim = 0
  BY DEF NoRun, Runs, PCs
<1>2. QED
  BY <1>1 DEF Moves

LEMMA CloseMoves ==
    ASSUME IInv, NEW a \in Actors, NEW how, Close(a, how)
    PROVE  Moves(a) /\ parent'.limit = parent.limit
<1>1. PICK pc \in {"off", "done"} : act' = [act EXCEPT ![a] = [NoRun EXCEPT !.pc = pc]]
  BY ParentCloses
<1>2. parent'.limit = parent.limit
  BY DEF Close, IInv, DataOK
<1>3. QED
  BY <1>1, <1>2, EndMoves

\* Moving on, whoever does it, is within the bound; the e-mail of a child bears its claim.
LEMMA MovesKeepBound ==
    ASSUME IInv, BoundInv, NEW a \in Actors, Moves(a), parent'.limit = parent.limit,
           sale'.count = claims', sale'.claim = claims',
           mails' = mails \/ (act[a].pc = "work" /\ Mailed(a))
    PROVE  BoundInv'
<1>1. PICK run \in Runs : /\ run.pc # "rollback" /\ run.claim \in {0, act[a].claim}
                          /\ act' = [act EXCEPT ![a] = run]
  BY DEF Moves
<1>2. /\ act \in [Actors -> Runs] /\ parent.limit \in Nat \ {0} /\ Child \in Actors
      /\ act[a].claim \in Nat
  BY DispatchAssumption DEF IInv, DataOK, Actors, Runs
<1>3. \A b \in Actors : act'[b].pc # "rollback"
  BY <1>1, <1>2 DEF BoundInv
<1>4. act'[Child].claim <= parent'.limit
  BY <1>1, <1>2 DEF BoundInv, MaxSendAttempts
<1>5. ASSUME NEW m \in mails', m.by = "child"
      PROVE  m \in [by : {"child"}, claim : 1..parent'.limit]
  <2>1. CASE m \in mails
    BY <2>1, <1>5 DEF BoundInv, MaxSendAttempts
  <2>2. CASE act[a].pc = "work" /\ m = [by |-> Kind(a), claim |-> act[a].claim]
    <3>1. a = Child /\ m = [by |-> "child", claim |-> act[Child].claim]
      BY <2>2, <1>5 DEF Kind
    <3>2. act[Child].claim # 0 /\ act[Child].claim \in Nat
      BY <1>2, <2>2, <3>1 DEF IInv, HoldersOwn, Holding, HoldsAt, Mine, RowIsTrue
    <3>3. act[Child].claim \in 1..parent.limit
      BY <1>2, <3>2 DEF BoundInv, MaxSendAttempts
    <3>4. QED
      BY <3>1, <3>3
  <2>3. QED
    BY <2>1, <2>2 DEF Mailed
<1>6. QED
  BY <1>3, <1>4, <1>5 DEF BoundInv, MaxSendAttempts, Actors

\* A claim takes the row on to the number of the claim.
LEMMA ClaimCounts ==
    ASSUME IInv, BoundInv, ClaimRow
    PROVE  sale'.count = claims' /\ sale'.claim = claims'
  BY DEF ClaimRow, BoundInv

\* The child claims only within its bound, for a PENDING sale was never attempted.
LEMMA ChildClaimBounded ==
    ASSUME IInv, BoundInv, ChildClaim
    PROVE  BoundInv'
<1>1. /\ Child \in Actors /\ {"skip", "abort"} \subseteq PCs \ {"rollback"}
      /\ parent'.limit = parent.limit /\ mails' = mails
  BY DEF ChildClaim, history, Actors, PCs
<1>2. (Eligible /\ ClaimRow) \/ UNCHANGED <<sale, claims>>
  BY DEF ChildClaim
<1>3. sale'.count = claims' /\ sale'.claim = claims'
  BY <1>2, ClaimCounts DEF BoundInv
<1>4. CASE \E pc \in {"skip", "abort"} : Goto(Child, pc)
  BY <1>1, <1>3, <1>4, GotoMoves, MovesKeepBound
<1>5. CASE Eligible /\ ClaimRow /\
           act' = [act EXCEPT ![Child].pc = "work", ![Child].count = sale.count + 1,
                              ![Child].claim = claims + 1, ![Child].leased = TRUE]
  <2>1. /\ act \in [Actors -> Runs] /\ parent.limit \in Nat \ {0} /\ claims \in Nat
        /\ sale.count \in Nat
    BY DispatchAssumption DEF IInv, DataOK, Sales
  <2>2. act'[Child].pc = "work" /\ act'[Child].claim = claims + 1
        /\ \A a \in Actors \ {Child} : act'[a] = act[a]
    BY <1>1, <1>5, <2>1 DEF Runs
  <2>3. claims + 1 <= parent.limit
    <3>1. CASE sale.status = "PENDING"
      BY <2>1, <3>1 DEF IInv, RowIsTrue, BoundInv
    <3>2. CASE sale.count < parent.limit
      BY <2>1, <3>2 DEF BoundInv
    <3>3. QED
      BY <1>5, <3>1, <3>2 DEF Eligible, MaxSendAttempts
  <2>4. QED
    BY <1>1, <1>3, <2>2, <2>3 DEF BoundInv, MaxSendAttempts, Actors
<1>6. QED
  BY <1>4, <1>5 DEF ChildClaim

LEMMA RequestClaimBounded ==
    ASSUME IInv, BoundInv, NEW r \in Requests, RequestClaim(r)
    PROVE  BoundInv'
<1>1. /\ r \in Actors /\ r # Child /\ parent' = parent /\ mails' = mails
      /\ ClaimRow \/ UNCHANGED <<sale, claims>>
  BY DispatchAssumption DEF RequestClaim, history, Actors
<1>2. sale'.count = claims' /\ sale'.claim = claims'
  BY <1>1, ClaimCounts DEF BoundInv
<1>3. CASE Leaves(r)
  BY <1>1, <1>2, <1>3, EndMoves, MovesKeepBound DEF Leaves
<1>4. CASE act' = [act EXCEPT ![r].pc = "claimed", ![r].n = sale.count + 1,
                              ![r].count = sale.count + 1, ![r].claim = claims + 1]
  <2>1. act \in [Actors -> Runs]
    BY DEF IInv, DataOK
  <2>2. act'[r].pc = "claimed" /\ \A a \in Actors \ {r} : act'[a] = act[a]
    BY <1>1, <1>4, <2>1 DEF Runs
  <2>3. QED
    BY <1>1, <1>2, <2>2 DEF BoundInv, MaxSendAttempts, Actors
<1>5. QED
  BY <1>3, <1>4 DEF RequestClaim

\* Where a start cannot fail, a request that claimed never comes to its rollback.
LEMMA RequestStartBounded ==
    ASSUME IInv, BoundInv, "start" \notin Faulty, NEW r \in Requests, RequestStart(r)
    PROVE  BoundInv'
<1>1. /\ r \in Actors /\ "load" \in PCs \ {"rollback"} /\ parent' = parent /\ mails' = mails
      /\ UNCHANGED <<sale, claims>>
  BY DEF RequestStart, history, Actors, PCs
<1>2. Goto(r, "load") \/ Leaves(r)
  BY DEF RequestStart, WorkflowStarts, Fault
<1>3. Moves(r)
  BY <1>1, <1>2, GotoMoves, EndMoves DEF Leaves
<1>4. QED
  BY <1>1, <1>3, MovesKeepBound DEF BoundInv

LEMMA WorkBounded ==
    ASSUME IInv, BoundInv, NEW a \in Actors, Work(a)
    PROVE  BoundInv'
<1>1. /\ act[a].pc = "work" /\ UNCHANGED <<sale, claims, parent>>
      /\ mails' = mails \/ Mailed(a)
  BY DEF Work, WorkFailsBeforeMail, AnsweredByEarlierSend, TalksToServer
<1>2. \E target \in Verdicts : Aims(a, target)
  BY DEF Work, WorkFailsBeforeMail, AnsweredByEarlierSend, TalksToServer, ErpStage, IxcStage,
     RenderStage, Verdicts
<1>3. Moves(a)
  BY <1>2, AimMoves DEF Aims, PCs
<1>4. QED
  BY <1>1, <1>3, MovesKeepBound DEF BoundInv

\* A verdict leaves the attempts of the row alone.
LEMMA VerdictKeepsCount ==
    ASSUME IInv, NEW a \in Actors, NEW status \in Verdicts,
           StoreVerdict(a, status) \/ UNCHANGED <<sale, verdict>>
    PROVE  sale'.count = sale.count /\ sale'.claim = sale.claim
  BY DEF StoreVerdict, IInv, DataOK, Sales

LEMMA FinalizeBounded ==
    ASSUME IInv, BoundInv, NEW a \in Actors, Finalize(a)
    PROVE  BoundInv'
<1>1. /\ UNCHANGED <<claims, mails>> /\ act[a].target \in Verdicts
      /\ StoreVerdict(a, Effective(a)) \/ UNCHANGED <<sale, verdict>>
      /\ act[a].pc \in {"finalize", "refinalize"}
  BY DEF Finalize, IInv, TargetsAreTrue
<1>2. sale'.count = sale.count /\ sale'.claim = sale.claim
  BY <1>1, VerdictKeepsCount DEF Effective, Verdicts
<1>3. Moves(a) /\ parent'.limit = parent.limit
  <2>1. CASE Goto(a, "unlock") /\ UNCHANGED parent
    BY <2>1, GotoMoves DEF PCs
  <2>2. CASE Goto(a, "recover") /\ UNCHANGED parent
    BY <2>2, GotoMoves DEF PCs
  <2>3. CASE \E target \in {"FAILED_FINAL", "FAILED_TRANSIENT"} :
                /\ act' = [act EXCEPT ![a].pc = "refinalize", ![a].target = target]
                /\ UNCHANGED parent
    BY <2>3, AimMoves DEF PCs, Verdicts
  <2>4. CASE Close(a, "failed")
    BY <2>4, CloseMoves
  <2>5. QED
    BY <2>1, <2>2, <2>3, <2>4 DEF Finalize, FinalizeThrew
<1>4. QED
  BY <1>1, <1>2, <1>3, MovesKeepBound DEF BoundInv

LEMMA RecoverBounded ==
    ASSUME IInv, BoundInv, NEW r \in Requests, Recover(r)
    PROVE  BoundInv'
<1>1. /\ r \in Actors /\ act[r].pc = "recover" /\ UNCHANGED <<claims, mails>>
      /\ StoreVerdict(r, act[r].target) \/ UNCHANGED <<sale, verdict>>
  BY DEF Recover, Actors
<1>2. sale'.count = sale.count /\ sale'.claim = sale.claim
  BY <1>1, VerdictKeepsCount DEF IInv, TargetsAreTrue
<1>3. Moves(r) /\ parent'.limit = parent.limit
  BY <1>1, GotoMoves, CloseMoves DEF Recover, PCs
<1>4. QED
  BY <1>1, <1>2, <1>3, MovesKeepBound DEF BoundInv

\* The steps that leave the row and the e-mails alone.
LEMMA ChildBounded ==
    ASSUME IInv, BoundInv, ChildAcquire \/ ChildCancel \/ \E a \in Actors : Unlock(a)
    PROVE  BoundInv'
<1>1. UNCHANGED <<sale, claims, mails>> /\ Child \in Actors
  BY DEF ChildAcquire, ChildCancel, Unlock, history, Actors
<1>2. \E a \in Actors : Moves(a) /\ parent'.limit = parent.limit
  <2>1. CASE Goto(Child, "claim") /\ UNCHANGED parent
    BY <1>1, <2>1, GotoMoves DEF PCs
  <2>2. CASE \E a \in Actors, how \in {"completed", "failed"} : Close(a, how)
    BY <2>2, CloseMoves
  <2>3. QED
    BY <1>1, <2>1, <2>2 DEF ChildAcquire, ChildCancel, Unlock
<1>3. QED
  BY <1>1, <1>2, MovesKeepBound DEF BoundInv

LEMMA ManualBounded ==
    ASSUME IInv, BoundInv, NEW r \in Requests, ManualLoad(r) \/ ManualAcquire(r) \/ RequestLoad(r)
    PROVE  BoundInv'
<1>1. UNCHANGED <<sale, claims, mails>> /\ r \in Actors
  BY DEF ManualLoad, ManualAcquire, RequestLoad, history, Actors
<1>2. Moves(r) /\ parent'.limit = parent.limit
  <2>1. CASE \E pc \in {"lock", "loaded"} : Goto(r, pc) /\ UNCHANGED parent
    BY <1>1, <2>1, GotoMoves DEF PCs
  <2>2. CASE \E how \in {"completed", "failed"} : Close(r, how)
    BY <1>1, <2>2, CloseMoves
  <2>3. CASE Recovers(r)
    BY <1>1, <2>3, AimMoves DEF Recovers, PCs, Verdicts
  <2>4. CASE Leaves(r) /\ UNCHANGED parent
    BY <1>1, <2>4, EndMoves DEF Leaves
  <2>5. CASE act' = [act EXCEPT ![r].pc = "work", ![r].leased = TRUE] /\ UNCHANGED parent
    <3> DEFINE run == [act[r] EXCEPT !.pc = "work", !.leased = TRUE]
    <3>1. act \in [Actors -> Runs]
      BY DEF IInv, DataOK
    <3>2. run \in Runs /\ run.pc = "work" /\ run.claim = act[r].claim
      BY <1>1, <3>1 DEF Runs, PCs
    <3>3. act' = [act EXCEPT ![r] = run]
      BY <1>1, <2>5, <3>1
    <3>4. QED
      BY <2>5, <3>2, <3>3 DEF Moves
  <2>6. QED
    BY <2>1, <2>2, <2>3, <2>4, <2>5 DEF ManualLoad, ManualAcquire, RequestLoad
<1>3. QED
  BY <1>1, <1>2, MovesKeepBound DEF BoundInv

LEMMA ParentBounded ==
    ASSUME IInv, BoundInv, List \/ StartChild
    PROVE  BoundInv'
<1>1. /\ UNCHANGED <<sale, claims, mails>> /\ parent'.limit = parent.limit
      /\ act \in [Actors -> Runs] /\ Child \in Actors
  BY DEF List, StartChild, history, IInv, DataOK, Actors
<1>2. CASE UNCHANGED act
  BY <1>1, <1>2 DEF BoundInv, MaxSendAttempts
<1>3. CASE act' = [act EXCEPT ![Child] = [NoRun EXCEPT !.pc = "lock", !.n = parent.count + 1]]
  <2> DEFINE run == [NoRun EXCEPT !.pc = "lock", !.n = parent.count + 1]
  <2>1. parent.count + 1 \in Nat
    BY DEF IInv, DataOK
  <2>2. run \in Runs /\ run.pc = "lock" /\ run.claim = 0
    BY <2>1 DEF NoRun, Runs, PCs
  <2>3. Moves(Child)
    BY <1>3, <2>2 DEF Moves
  <2>4. QED
    BY <1>1, <2>3, MovesKeepBound DEF BoundInv
<1>4. QED
  BY <1>2, <1>3 DEF List, StartChild

LEMMA StepBounded ==
    ASSUME IInv, BoundInv, "start" \notin Faulty, [Next]_vars
    PROVE  BoundInv'
<1>1. Child \in Actors /\ Requests \subseteq Actors
  BY DEF Actors
<1>2. CASE List \/ ChildNext
  BY <1>1, <1>2, ParentBounded, ChildBounded, ChildClaimBounded, WorkBounded, FinalizeBounded
     DEF ChildNext
<1>3. ASSUME NEW r \in Requests, RequestLoad(r) \/ RequestNext(r)
      PROVE  BoundInv'
  <2>1. ~RequestRollback(r)
    BY <1>1 DEF RequestRollback, BoundInv
  <2>2. QED
    BY <1>1, <1>3, <2>1, RequestClaimBounded, RequestStartBounded, ManualBounded, WorkBounded,
       FinalizeBounded, RecoverBounded, ChildBounded DEF RequestNext
<1>4. CASE UNCHANGED vars
  BY <1>4 DEF vars, history, BoundInv, MaxSendAttempts
<1>5. QED
  BY <1>2, <1>3, <1>4 DEF Next

LEMMA InitBound == Init => BoundInv
<1> SUFFICES ASSUME Init PROVE BoundInv
  OBVIOUS
<1>1. \A a \in Actors : act[a].pc = "off" /\ act[a].claim = 0
  BY DEF Init, NoRun
<1>2. Child \in Actors /\ parent.limit \in Nat \ {0}
  BY DispatchAssumption DEF Init, Actors
<1>3. QED
  BY <1>1, <1>2 DEF Init, NewSale, BoundInv, MaxSendAttempts

\* Where starts of manual workflows do not fail, so that no claim is rolled back, the
\* schedule e-mails a sale at most maxSendAttempts times, whatever else fails: each e-mail
\* of a child bears an attempt number within the bound, and no two the same.
THEOREM AutomationIsBounded ==
    ASSUME "start" \notin Faulty
    PROVE  Spec => []AutomaticMailsBounded
<1>1. IInv /\ BoundInv /\ [Next]_vars => BoundInv'
  BY StepBounded
<1>2. IInv /\ BoundInv => AutomaticMailsBounded
  <2> SUFFICES ASSUME IInv, BoundInv PROVE AutomaticMailsBounded
    OBVIOUS
  <2> DEFINE byChild == {m \in mails : m.by = "child"}
             number == [m \in byChild |-> m.claim]
  <2>1. MaxSendAttempts \in Nat
    BY DispatchAssumption DEF IInv, DataOK, MaxSendAttempts
  <2>2. number \in Injection(byChild, 1..MaxSendAttempts)
    BY DEF BoundInv, Injection, IsInjective
  <2>3. IsFiniteSet(1..MaxSendAttempts) /\ Cardinality(1..MaxSendAttempts) = MaxSendAttempts
    BY <2>1, FS_Interval
  <2>4. QED
    BY <2>1, <2>2, <2>3, FS_Injection DEF AutomaticMailsBounded
<1>3. QED
  BY <1>1, <1>2, InitInv, InitBound, StepInv, PTL DEF Spec

--------------------------------------------------------------------------------
(* E-mails repeat only at the price of a failure *)

Alone(a) == \A b \in Actors \ {a} : act'[b] = act[b]

\* A request, and its workflow, moves nobody else.
LEMMA RequestsGoAlone ==
    ASSUME IInv, NEW r \in Requests, RequestLoad(r) \/ RequestNext(r)
    PROVE  Alone(r)
<1>1. r \in Actors /\ act \in [Actors -> Runs]
  BY DEF Actors, IInv, DataOK
<1>2. CASE RequestLoad(r) \/ RequestClaim(r) \/ RequestStart(r) \/ RequestRollback(r)
  BY <1>1, <1>2 DEF RequestLoad, RequestClaim, RequestStart, RequestRollback, WorkflowStarts,
     Alone, Leaves, Goto
<1>3. CASE ManualLoad(r) \/ ManualAcquire(r) \/ Recover(r) \/ Unlock(r)
  BY <1>1, <1>3 DEF ManualLoad, ManualAcquire, Recover, Recovers, Unlock, Close, Alone, Goto
<1>4. CASE Work(r)
  BY <1>1, <1>4 DEF Work, WorkFailsBeforeMail, AnsweredByEarlierSend, TalksToServer, Aims, Alone
<1>5. CASE Finalize(r)
  BY <1>1, <1>5 DEF Finalize, FinalizeThrew, Close, Goto, Alone
<1>6. QED
  BY <1>2, <1>3, <1>4, <1>5 DEF RequestNext

\* The parent waits as long as its child is under way, and there is no other.
LEMMA StepWaits == IInv /\ ParentWaits /\ [Next]_vars => ParentWaits'
<1> SUFFICES ASSUME IInv, ParentWaits, [Next]_vars PROVE ParentWaits'
  OBVIOUS
<1>1. act \in [Actors -> Runs] /\ Child \in Actors /\ Child \notin Requests
      /\ parent \in [pc : {"idle", "listed", "waiting"}, count : Nat, limit : SendLimits]
  BY DispatchAssumption DEF IInv, DataOK, Actors
<1>2. CASE List \/ StartChild
  BY <1>1, <1>2 DEF List, StartChild, ParentWaits
<1>3. CASE ChildAcquire \/ ChildClaim \/ ChildCancel \/ Work(Child) \/ Finalize(Child)
           \/ Unlock(Child)
  <2>1. act[Child].pc # "off"
    BY <1>3 DEF ChildAcquire, ChildClaim, ChildCancel, Work, Finalize, Unlock
  <2>2. parent' = parent \/ \E how : Close(Child, how)
    BY <1>3 DEF ChildAcquire, ChildClaim, ChildCancel, Work, Finalize, FinalizeThrew, Unlock
  <2>3. QED
    BY <1>1, <2>1, <2>2 DEF ParentWaits, Close, NoRun
<1>4. CASE \E r \in Requests : RequestLoad(r) \/ RequestNext(r)
  <2>1. PICK r \in Requests : RequestLoad(r) \/ RequestNext(r)
    BY <1>4
  <2>2. r \in Actors /\ r # Child
    BY <1>1, <2>1 DEF Actors
  <2>3. parent' = parent
    BY <2>1, <2>2 DEF RequestNext, RequestLoad, RequestClaim, RequestStart, RequestRollback,
       ManualLoad, ManualAcquire, Work, Finalize, FinalizeThrew, Recover, Recovers, Unlock, Close
  <2>4. act'[Child] = act[Child]
    BY <1>1, <2>1, <2>2, RequestsGoAlone DEF Alone
  <2>5. QED
    BY <2>3, <2>4 DEF ParentWaits
<1>5. CASE UNCHANGED vars
  BY <1>5 DEF vars, ParentWaits
<1>6. QED
  BY <1>2, <1>3, <1>4, <1>5 DEF Next, ChildNext

\* A failure costs one.
Counted == faults' = faults \/ faults' = faults + 1

LEMMA CountedDoubts ==
    ASSUME faults \in Nat, Counted
    PROVE  faults' \in Nat /\ Doubts \in Nat /\ Doubts' \in Nat /\ Doubts <= Doubts'
  BY DEF Counted, Doubts

\* Whose claim the row bears decides whether SENT is about to be stored.
LEMMA OnlyHolderDelivers ==
    ASSUME IInv, NEW a \in Actors, Mine(a), Delivered
    PROVE  act[a].pc = "finalize" /\ act[a].target = "SENT"
<1>1. PICK b \in Actors : act[b].pc = "finalize" /\ act[b].target = "SENT"
  BY DEF Delivered, Mine
<1>2. b = a
  BY <1>1, SoleHolder DEF Holding, HoldsAt
<1>3. QED
  BY <1>1, <1>2

\* A step of somebody who is not at its first finalization.
LEMMA OthersDeliver ==
    ASSUME IInv, MailsInv, NEW a \in Actors, act[a].pc # "finalize", Alone(a), Counted,
           mails' = mails, sale.status = "SENT" => sale'.status = "SENT", ParentWaits'
    PROVE  MailsInv'
<1>1. Delivered => Delivered'
  BY DEF Delivered, Alone
<1>2. Cardinality(mails) \in Nat
  BY FS_CardinalityType DEF MailsInv
<1>3. QED
  BY <1>1, <1>2, CountedDoubts DEF MailsInv

LEMMA GoesAlone ==
    ASSUME IInv, NEW a \in Actors,
           \/ \E pc \in PCs : Goto(a, pc)
           \/ \E how \in {"completed", "failed"} : Close(a, how)
           \/ Leaves(a)
           \/ Recovers(a)
    PROVE  Alone(a)
  BY DEF Alone, Goto, Close, Leaves, Recovers, IInv, DataOK

LEMMA ChildMails ==
    ASSUME IInv, MailsInv, ParentWaits', ChildAcquire \/ ChildClaim \/ ChildCancel \/ StartChild
    PROVE  MailsInv'
<1>1. Child \in Actors /\ mails' = mails /\ Counted
  BY DEF ChildAcquire, ChildClaim, ChildCancel, StartChild, history, Fault, Counted, Actors
<1>2. sale.status = "SENT" => sale' = sale
  BY DEF ChildAcquire, ChildClaim, ChildCancel, StartChild, Eligible
<1>3. CASE ChildAcquire \/ ChildCancel
  <2>1. Alone(Child) /\ act[Child].pc # "finalize"
    BY <1>1, <1>3, GoesAlone DEF ChildAcquire, ChildCancel, PCs
  <2>2. QED
    BY <1>1, <1>2, <2>1, OthersDeliver
<1>4. CASE ChildClaim
  <2>1. act[Child].pc # "finalize"
    BY <1>4 DEF ChildClaim
  <2>2. Alone(Child)
    BY <1>1, <1>4 DEF ChildClaim, Alone, Goto, IInv, DataOK
  <2>3. QED
    BY <1>1, <1>2, <2>1, <2>2, OthersDeliver
<1>5. CASE StartChild
  <2>1. CASE UNCHANGED act
    BY <1>1, <1>2, <1>5, <2>1 DEF MailsInv, Doubts, Delivered, StartChild
  <2>2. CASE act' = [act EXCEPT ![Child] = [NoRun EXCEPT !.pc = "lock", !.n = parent.count + 1]]
    <3>1. act[Child].pc # "finalize"
      BY <1>5 DEF MailsInv, ParentWaits, StartChild
    <3>2. Alone(Child)
      BY <1>1, <2>2 DEF Alone, IInv, DataOK
    <3>3. QED
      BY <1>1, <1>2, <3>1, <3>2, OthersDeliver
  <2>3. QED
    BY <1>5, <2>1, <2>2 DEF StartChild
<1>6. QED
  BY <1>3, <1>4, <1>5

LEMMA RequestMails ==
    ASSUME IInv, MailsInv, ParentWaits', NEW r \in Requests,
           RequestLoad(r) \/ RequestClaim(r) \/ RequestStart(r) \/ RequestRollback(r)
    PROVE  MailsInv'
<1>1. r \in Actors /\ mails' = mails /\ act[r].pc # "finalize"
  BY DEF RequestLoad, RequestClaim, RequestStart, RequestRollback, history, Actors
<1>2. Counted
  BY DEF RequestLoad, RequestClaim, RequestStart, RequestRollback, Fault, Counted
<1>3. sale.status = "SENT" => sale' = sale
  BY DEF RequestLoad, RequestClaim, RequestStart, RequestRollback, ManuallyClaimable, Restored, Mine
<1>4. Alone(r)
  BY <1>1 DEF RequestLoad, RequestClaim, RequestStart, RequestRollback, WorkflowStarts, Alone,
     Leaves, Goto, IInv, DataOK
<1>5. QED
  BY <1>1, <1>2, <1>3, <1>4, OthersDeliver

LEMMA ManualMails ==
    ASSUME IInv, MailsInv, ParentWaits', NEW r \in Requests,
           ManualLoad(r) \/ ManualAcquire(r) \/ Recover(r)
    PROVE  MailsInv'
<1>1. r \in Actors /\ mails' = mails /\ act[r].pc # "finalize"
  BY DEF ManualLoad, ManualAcquire, Recover, history, Actors
<1>2. Counted
  BY DEF ManualLoad, ManualAcquire, Recover, Fault, Counted
<1>3. sale.status = "SENT" => sale' = sale
  BY DEF ManualLoad, ManualAcquire, Recover, StoreVerdict, Mine
<1>4. Alone(r)
  BY <1>1 DEF ManualLoad, ManualAcquire, Recover, Recovers, Close, Alone, Goto, IInv, DataOK
<1>5. QED
  BY <1>1, <1>2, <1>3, <1>4, OthersDeliver

LEMMA UnlockMails ==
    ASSUME IInv, MailsInv, ParentWaits', NEW a \in Actors, Unlock(a)
    PROVE  MailsInv'
<1>1. mails' = mails /\ act[a].pc # "finalize" /\ Counted /\ sale' = sale
  BY DEF Unlock, history, Fault, Counted
<1>2. Alone(a)
  BY GoesAlone DEF Unlock
<1>3. QED
  BY <1>1, <1>2, OthersDeliver

\* An e-mail leaves while nobody is about to store SENT: its sender is, or it is paid for.
LEMMA WorkMails ==
    ASSUME IInv, MailsInv, ParentWaits', NEW a \in Actors, Work(a)
    PROVE  MailsInv'
<1>1. act[a].pc = "work" /\ sale' = sale /\ act \in [Actors -> Runs]
  BY DEF Work, IInv, DataOK
<1>2. Cardinality(mails) \in Nat /\ Cardinality(mails) <= Doubts /\ faults \in Nat
  <2>1. Mine(a)
    BY <1>1 DEF IInv, HoldersOwn, Holding, HoldsAt
  <2>2. ~Delivered
    BY <1>1, <2>1, OnlyHolderDelivers
  <2>3. QED
    BY <2>2, FS_CardinalityType DEF MailsInv, Doubts
<1>3. CASE UNCHANGED <<mails, faults>>
  BY <1>2, <1>3 DEF MailsInv, Doubts
<1>4. CASE Mailed(a) /\ ((Aims(a, "SENT") /\ UNCHANGED faults) \/ Fault("smtp"))
  <2> DEFINE mail == [by |-> Kind(a), claim |-> act[a].claim]
  <2>1. mails' = mails \cup {mail}
    BY <1>4 DEF Mailed
  <2> HIDE DEF mail
  <2>2. /\ IsFiniteSet(mails') /\ Cardinality(mails') \in Nat
        /\ Cardinality(mails') <= Cardinality(mails) + 1
    <3>1. IsFiniteSet(mails)
      BY DEF MailsInv
    <3>2. /\ IsFiniteSet(mails \cup {mail})
          /\ Cardinality(mails \cup {mail}) \in {Cardinality(mails), Cardinality(mails) + 1}
      BY <3>1, FS_AddElement
    <3>3. QED
      BY <1>2, <2>1, <3>2
  <2>3. CASE Aims(a, "SENT") /\ UNCHANGED faults
    <3>1. act'[a].pc = "finalize" /\ act'[a].target = "SENT"
      BY <1>1, <2>3 DEF Aims, Runs
    <3>2. Delivered'
      BY <3>1 DEF Delivered, Actors
    <3>3. QED
      BY <1>2, <2>2, <2>3, <3>2 DEF MailsInv, Doubts
  <2>4. CASE Fault("smtp")
    <3>1. Doubts' = Doubts + 1 /\ faults' \in Nat /\ Doubts \in Nat
      BY <1>2, <2>4 DEF Fault, Doubts
    <3>2. QED
      BY <1>2, <2>2, <3>1 DEF MailsInv
  <2>5. QED
    BY <1>4, <2>3, <2>4
<1>5. QED
  BY <1>3, <1>4 DEF Work, WorkFailsBeforeMail, AnsweredByEarlierSend, TalksToServer

\* The first finalization of a delivery stores it, or is lost at a price.
LEMMA FinalizeMails ==
    ASSUME IInv, MailsInv, ParentWaits', NEW a \in Actors, Finalize(a)
    PROVE  MailsInv'
<1>1. /\ act[a].pc \in {"finalize", "refinalize"} /\ mails' = mails /\ act \in [Actors -> Runs]
      /\ sale \in Sales /\ faults \in Nat /\ Cardinality(mails) \in Nat
      /\ StoreVerdict(a, Effective(a)) \/ UNCHANGED <<sale, verdict>>
  BY FS_CardinalityType DEF Finalize, IInv, DataOK, MailsInv
<1>2. Counted
  BY DEF Finalize, Fault, Counted
<1>3. sale.status = "SENT" => sale' = sale
  BY <1>1 DEF StoreVerdict, Mine
<1>4. Alone(a)
  BY <1>1 DEF Finalize, FinalizeThrew, Close, Goto, Alone
<1>5. CASE act[a].pc = "refinalize"
  BY <1>1, <1>2, <1>3, <1>4, <1>5, OthersDeliver
<1>6. CASE act[a].pc = "finalize"
  <2>1. Mine(a)
    BY <1>6 DEF IInv, HoldersOwn, Holding, HoldsAt
  <2>2. CASE act[a].target # "SENT"
    <3>1. ~Delivered
      BY <2>1, <2>2, OnlyHolderDelivers
    <3>2. QED
      BY <1>1, <1>2, <3>1, CountedDoubts DEF MailsInv
  <2>3. CASE act[a].target = "SENT" /\ StoreVerdict(a, Effective(a))
    <3>1. sale'.status = "SENT"
      BY <1>1, <2>1, <2>3 DEF Effective, StoreVerdict, Sales
    <3>2. Delivered'
      BY <3>1 DEF Delivered
    <3>3. QED
      BY <1>1, <1>2, <3>2, CountedDoubts DEF MailsInv
  <2>4. CASE Fault("finalize")
    <3>1. Doubts' = Doubts + 1 /\ faults' \in Nat /\ Doubts \in Nat
      BY <1>1, <2>4 DEF Fault, Doubts
    <3>2. QED
      BY <1>1, <3>1 DEF MailsInv
  <2>5. QED
    BY <2>1, <2>2, <2>3, <2>4 DEF Finalize
<1>7. QED
  BY <1>1, <1>5, <1>6

LEMMA StepMails == IInv /\ MailsInv /\ [Next]_vars => MailsInv'
<1> SUFFICES ASSUME IInv, MailsInv, [Next]_vars PROVE MailsInv'
  OBVIOUS
<1>1. Child \in Actors /\ Requests \subseteq Actors /\ ParentWaits'
  BY StepWaits DEF Actors, MailsInv
<1>2. CASE List
  BY <1>1, <1>2 DEF List, history, MailsInv, Doubts, Delivered
<1>3. CASE ChildNext
  BY <1>1, <1>3, ChildMails, WorkMails, FinalizeMails, UnlockMails DEF ChildNext
<1>4. CASE \E r \in Requests : RequestLoad(r) \/ RequestNext(r)
  BY <1>1, <1>4, RequestMails, ManualMails, WorkMails, FinalizeMails, UnlockMails DEF RequestNext
<1>5. CASE UNCHANGED vars
  BY <1>1, <1>5 DEF vars, history, MailsInv, Doubts, Delivered
<1>6. QED
  BY <1>2, <1>3, <1>4, <1>5 DEF Next

LEMMA MailsArePaidFor == Spec => []MailsInv
<1>1. Init => MailsInv
  BY FS_EmptySet DEF Init, MailsInv, ParentWaits, Doubts, Delivered, NoRun, Actors
<1>2. QED
  BY <1>1, InitInv, StepInv, StepMails, PTL DEF Spec

\* Whatever fails, however many requests there are and whether completed children may run
\* again: each e-mail for the sale but the first costs a failure.
THEOREM RepeatsCostFaults == Spec => []RepeatedMailsNeedFaults
<1>1. MailsInv => RepeatedMailsNeedFaults
  BY FS_CardinalityType DEF MailsInv, Doubts, RepeatedMailsNeedFaults
<1>2. QED
  BY <1>1, MailsArePaidFor, PTL

\* The sale is mailed at most once where neither the answer of the SMTP server nor that of a
\* finalization is lost, whatever else fails: what the documents promise holds but for these.
THEOREM MailedOnceUnlessAnswersLost ==
    ASSUME "smtp" \notin Faulty, "finalize" \notin Faulty
    PROVE  Spec => []MailedOnceWithoutRequests
<1>1. MailsInv => MailedOnceWithoutRequests
  BY FS_CardinalityType DEF MailsInv, Doubts, MailedOnceWithoutRequests
<1>2. QED
  BY <1>1, MailsArePaidFor, PTL

--------------------------------------------------------------------------------
(* What the schedule alone takes it finishes *)

LEMMA StepHolds ==
    ASSUME IInv, ParentWaits, ChildHolds, [Next]_vars,
           Requests = {}, "claim" \notin Faulty, "finalize" \notin Faulty
    PROVE  ChildHolds'
<1>1. act \in [Actors -> Runs] /\ Child \in Actors
  BY DispatchAssumption DEF IInv, DataOK, Actors
<1>2. CASE UNCHANGED <<sale, act>>
  BY <1>2 DEF ChildHolds
<1>3. CASE StartChild
  <2>1. act[Child].pc = "off" /\ sale' = sale
    BY <1>3 DEF StartChild, ParentWaits
  <2>2. QED
    BY <2>1 DEF ChildHolds
<1>4. CASE ChildAcquire \/ ChildCancel \/ Unlock(Child)
  BY <1>4 DEF ChildAcquire, ChildCancel, Unlock, ChildHolds
<1>5. CASE ChildClaim
  <2>1. CASE Eligible /\ ClaimRow
    <3>1. \/ act' = [act EXCEPT ![Child].pc = "work", ![Child].count = sale.count + 1,
                                ![Child].claim = claims + 1, ![Child].leased = TRUE]
      BY <1>5, <2>1 DEF ChildClaim, Fault
    <3>2. act'[Child].pc = "work" /\ act'[Child].claim = claims + 1
      BY <1>1, <3>1 DEF Runs
    <3>3. QED
      BY <2>1, <3>2 DEF ClaimRow, ChildHolds
  <2>2. CASE ~(Eligible /\ ClaimRow)
    <3>1. sale' = sale /\ act[Child].pc = "claim"
      BY <1>5, <2>2 DEF ChildClaim, Fault
    <3>2. QED
      BY <3>1 DEF ChildHolds
  <2>3. QED
    BY <2>1, <2>2
<1>6. CASE Work(Child)
  <2>1. \A target : Aims(Child, target) =>
            act'[Child].pc = "finalize" /\ act'[Child].claim = act[Child].claim
    BY <1>1 DEF Aims, Runs
  <2>2. \E target : Aims(Child, target)
    BY <1>6 DEF Work, WorkFailsBeforeMail, AnsweredByEarlierSend, TalksToServer
  <2>3. sale' = sale /\ act[Child].pc = "work"
    BY <1>6 DEF Work
  <2>4. QED
    BY <2>1, <2>2, <2>3 DEF ChildHolds
<1>7. CASE Finalize(Child)
  <2>1. sale.status = "IN_PROGRESS" => Mine(Child)
    BY DEF ChildHolds, Mine
  <2>2. Effective(Child) # "IN_PROGRESS"
    BY <1>1 DEF Effective, Runs, Verdicts
  <2>3. CASE Mine(Child)
    <3>1. StoreVerdict(Child, Effective(Child))
      BY <1>7, <2>3 DEF Finalize, Fault
    <3>2. sale'.status = Effective(Child)
      BY <2>3, <3>1 DEF StoreVerdict, IInv, DataOK, Sales
    <3>3. QED
      BY <2>2, <3>2 DEF ChildHolds
  <2>4. CASE ~Mine(Child)
    <3>1. sale' = sale
      BY <1>7, <2>4 DEF Finalize, StoreVerdict
    <3>2. QED
      BY <2>1, <2>4, <3>1 DEF ChildHolds
  <2>5. QED
    BY <2>3, <2>4
<1>8. QED
  BY <1>2, <1>3, <1>4, <1>5, <1>6, <1>7 DEF Next, ChildNext, List, vars

\* Where nobody asks by hand, and neither the statement of a claim nor that of a finalization
\* fails, IN_PROGRESS means that the child that claimed has not ended, whatever else fails:
\* locks, loads, the server.
THEOREM ScheduleFinishes ==
    ASSUME Requests = {}, "claim" \notin Faulty, "finalize" \notin Faulty
    PROVE  Spec => []InProgressIsAttempted
<1>1. Init => ParentWaits /\ ChildHolds
  BY DEF Init, NewSale, NoRun, Actors, ParentWaits, ChildHolds
<1>2. IInv /\ ParentWaits /\ ChildHolds /\ [Next]_vars => ChildHolds'
  BY StepHolds
<1>3. ChildHolds => InProgressIsAttempted
  BY DEF ChildHolds, InProgressIsAttempted, Actors
<1>4. QED
  BY <1>1, <1>2, <1>3, InitInv, StepInv, StepWaits, PTL DEF Spec

--------------------------------------------------------------------------------
(* What is eligible can be started, where neither lock statements nor starts fail *)

\* The row stays as it is, is claimed, or is settled; nothing makes it less eligible but a
\* claim, which raises its count.
RowGoesOn ==
    /\ parent'.limit = parent.limit
    /\ \/ sale' = sale
       \/ sale'.count = sale.count + 1
       \/ sale'.count = sale.count /\ sale.status = "IN_PROGRESS"

LEMMA UntakenStays ==
    ASSUME IInv, RowGoesOn, NEW n \in Nat, Untaken(n)
    PROVE  Untaken(n)'
  BY DEF RowGoesOn, Untaken, Eligible, MaxSendAttempts, IInv, DataOK, Sales

LEMMA CountGrows ==
    ASSUME IInv, RowGoesOn
    PROVE  sale.count \in Nat /\ sale'.count \in Nat /\ sale.count <= sale'.count
  BY DEF RowGoesOn, IInv, DataOK, Sales

LEMMA VerdictGoesOn ==
    ASSUME IInv, NEW a \in Actors, NEW status \in Verdicts, parent'.limit = parent.limit,
           StoreVerdict(a, status) \/ UNCHANGED <<sale, verdict>>
    PROVE  RowGoesOn
  BY DEF RowGoesOn, StoreVerdict, Mine, IInv, DataOK, Sales

LEMMA ClaimGoesOn ==
    ASSUME IInv, ClaimRow \/ UNCHANGED <<sale, claims>>, parent'.limit = parent.limit
    PROVE  RowGoesOn
  BY DEF RowGoesOn, ClaimRow

\* What the parent does for the child concerns the numbers that are not taken.
LEMMA ListStarts ==
    ASSUME IInv, StartInv, List
    PROVE  StartInv'
<1>1. UNCHANGED <<sale, act, ids, locks>> /\ parent'.limit = parent.limit /\ sale.count \in Nat
  BY DEF List, IInv, DataOK, Sales
<1>2. parent'.count = sale.count /\ Eligible
  BY DEF List, IInv, DataOK
<1>3. Untaken(parent.count + 1)'
  BY <1>1, <1>2 DEF Untaken, Eligible, MaxSendAttempts
<1>4. \A n : Untaken(n)' = Untaken(n)
  BY <1>1 DEF Untaken, Eligible, MaxSendAttempts
<1>5. ParentWaits'
  BY <1>1 DEF List, StartInv, ParentWaits
<1>6. QED
  BY <1>1, <1>3, <1>4, <1>5 DEF StartInv, ChildStarts, IdsUsed, LocksTaken

LEMMA StartChildStarts ==
    ASSUME IInv, StartInv, StartChild
    PROVE  StartInv'
<1>1. /\ parent.pc = "listed" /\ act[Child].pc = "off" /\ UNCHANGED <<sale, locks>>
      /\ parent'.limit = parent.limit /\ act \in [Actors -> Runs] /\ parent.count + 1 \in Attempts
      /\ Untaken(parent.count + 1) /\ Child \in Actors /\ Child \notin Requests
      /\ sale.count \in Nat
  <2>1. /\ parent.pc = "listed" /\ UNCHANGED <<sale, locks>> /\ parent.count < MaxCount
        /\ parent'.limit = parent.limit
    BY DEF StartChild, IInv, DataOK
  <2>2. parent.count + 1 \in Attempts
    BY <2>1, DispatchAssumption DEF IInv, DataOK, Attempts
  <2>3. act[Child].pc = "off" /\ Untaken(parent.count + 1)
    BY <2>1 DEF StartInv, ParentWaits, ChildStarts
  <2>4. QED
    BY <2>1, <2>2, <2>3, DispatchAssumption DEF IInv, DataOK, Actors, Sales
<1>2. \A n : Untaken(n)' = Untaken(n)
  BY <1>1 DEF Untaken, Eligible, MaxSendAttempts
<1>3. CASE UNCHANGED <<ids, act>> /\ parent'.pc = "idle"
  BY <1>1, <1>2, <1>3 DEF StartInv, ParentWaits, ChildStarts, IdsUsed, LocksTaken
<1>4. CASE /\ ids' = [ids EXCEPT ![<<"child", parent.count + 1>>] = "running"]
           /\ act' = [act EXCEPT ![Child] = [NoRun EXCEPT !.pc = "lock", !.n = parent.count + 1]]
           /\ parent'.pc = "waiting"
  <2>1. /\ act'[Child].pc = "lock" /\ act'[Child].n = parent.count + 1
        /\ \A r \in Requests : act'[r] = act[r]
    BY <1>1, <1>4 DEF NoRun, Actors
  <2>2. ChildStarts'
    BY <1>1, <1>2, <1>4, <2>1 DEF StartInv, ChildStarts
  <2>3. IdsUsed'
    BY <1>1, <1>4, <2>1 DEF StartInv, IdsUsed, Kinds
  <2>4. LocksTaken'
    BY <1>1, <2>1 DEF StartInv, LocksTaken
  <2>5. QED
    BY <1>4, <2>2, <2>3, <2>4 DEF StartInv, ParentWaits
<1>5. QED
  BY <1>3, <1>4 DEF StartChild, IInv, DataOK

\* A child that closes leaves the numbers above the count open and unlocked.
LEMMA ClosingStarts ==
    ASSUME IInv, StartInv, RowGoesOn, act[Child].pc # "off",
           NEW how \in {"completed", "failed"}, Close(Child, how),
           how = "completed" => act[Child].n <= sale'.count,
           locks' \in [Attempts -> [status : {"absent", "pending", "completed"},
                                    by : Actors \cup {"nobody"}]],
           \A n \in Attempts : locks'[n].status = "absent" \/ n <= sale'.count
    PROVE  StartInv'
<1>1. /\ act \in [Actors -> Runs] /\ Child \in Actors /\ Child \notin Requests
      /\ sale.count \in Nat /\ sale'.count \in Nat /\ sale.count <= sale'.count
      /\ parent'.pc = "idle"
  BY DispatchAssumption, CountGrows DEF IInv, DataOK, Actors, Close
<1>2. /\ act'[Child].pc = "off" /\ act'[Child].n = 0 /\ \A r \in Requests : act'[r] = act[r]
  BY <1>1 DEF Close, NoRun, Actors
<1>3. \A r \in Requests : act[r].n \in Nat
  BY <1>1 DEF Actors, Runs
<1>4. ChildStarts'
  BY <1>1, <1>2, <1>3 DEF StartInv, ChildStarts
<1>5. IdsUsed'
  <2>1. ids' = [ids EXCEPT ![<<"child", act[Child].n>>] = how]
    BY DEF Close, Id, Kind
  <2>2. ids' \in [Kinds \X Attempts -> {"unknown", "running", "completed", "failed"}]
    BY <2>1 DEF StartInv, IdsUsed
  <2>3. ASSUME NEW n \in Attempts
        PROVE  /\ ids'[<<"child", n>>] = "completed" => n <= sale'.count
               /\ ids'[<<"child", n>>] # "running"
    <3>1. <<"child", n>> \in Kinds \X Attempts /\ n \in Nat
      BY DEF Kinds, Attempts
    <3>2. CASE n = act[Child].n
      BY <2>1, <3>1, <3>2 DEF StartInv, IdsUsed
    <3>3. CASE n # act[Child].n
      BY <1>1, <2>1, <3>1, <3>3 DEF StartInv, IdsUsed
    <3>4. QED
      BY <3>2, <3>3
  <2>4. QED
    BY <2>2, <2>3 DEF IdsUsed, Attempts
<1>6. QED
  BY <1>1, <1>2, <1>4, <1>5 DEF StartInv, ParentWaits, LocksTaken, Attempts, Actors

\* A child that works goes on.
LEMMA GoingOnStarts ==
    ASSUME IInv, StartInv, RowGoesOn, UNCHANGED <<parent, ids, locks>>,
           act[Child].pc \notin {"off", "lock", "claim", "abort"},
           NEW run \in Runs, act' = [act EXCEPT ![Child] = run],
           run.n = act[Child].n, run.pc \notin {"off", "lock", "claim", "abort"}
    PROVE  StartInv'
<1>1. /\ act \in [Actors -> Runs] /\ Child \in Actors /\ Child \notin Requests
      /\ sale.count \in Nat /\ sale'.count \in Nat /\ sale.count <= sale'.count
  BY DispatchAssumption, CountGrows DEF IInv, DataOK, Actors
<1>2. act'[Child] = run /\ \A r \in Requests : act'[r] = act[r] /\ act[r].n \in Nat
  BY <1>1 DEF Actors, Runs
<1>3. run.n \in Nat /\ parent.count + 1 \in Nat
  BY DEF Runs, IInv, DataOK
<1>4. ChildStarts'
  BY <1>1, <1>2, <1>3, UntakenStays DEF StartInv, ChildStarts
<1>5. IdsUsed' /\ LocksTaken'
  BY <1>1, <1>2 DEF StartInv, IdsUsed, LocksTaken, Attempts
<1>6. QED
  BY <1>1, <1>2, <1>4, <1>5 DEF StartInv, ParentWaits

LEMMA ChildAcquireStarts ==
    ASSUME IInv, StartInv, "lock" \notin Faulty, ChildAcquire
    PROVE  StartInv'
<1>1. /\ act[Child].pc = "lock" /\ UNCHANGED sale /\ act \in [Actors -> Runs] /\ Child \in Actors
      /\ Child \notin Requests /\ act[Child].n \in Attempts /\ Untaken(act[Child].n)
      /\ sale.count \in Nat
  BY DispatchAssumption DEF ChildAcquire, IInv, DataOK, Actors, ClaimsDistinct, StartInv,
     ChildStarts, Sales
<1>2. CASE /\ LockGranted(Child) /\ Goto(Child, "claim") /\ UNCHANGED <<ids, parent>>
  <2>1. /\ act'[Child] = [act[Child] EXCEPT !.pc = "claim"]
        /\ \A r \in Requests : act'[r] = act[r]
    BY <1>1, <1>2 DEF Goto, Actors
  <2>2. act'[Child].pc = "claim" /\ act'[Child].n = act[Child].n
    BY <1>1, <2>1 DEF Runs
  <2>3. \A n : Untaken(n)' = Untaken(n)
    BY <1>1, <1>2 DEF Untaken, Eligible, MaxSendAttempts
  <2>4. ChildStarts' /\ IdsUsed'
    BY <1>1, <1>2, <2>1, <2>2, <2>3 DEF StartInv, ChildStarts, IdsUsed
  <2>5. LocksTaken'
    BY <1>1, <1>2, <2>2 DEF StartInv, LocksTaken, LockGranted
  <2>6. QED
    BY <1>1, <1>2, <2>4, <2>5 DEF StartInv, ParentWaits
<1>3. CASE /\ LockPending(Child) \/ LockCompleted(Child)
           /\ Close(Child, "completed") /\ UNCHANGED locks
  <2>1. \A n \in Attempts : locks[n].status = "absent" \/ n <= sale.count
    BY <1>1 DEF StartInv, LocksTaken
  <2>2. act[Child].n <= sale.count
    BY <1>1, <1>3, <2>1 DEF LockPending, LockCompleted
  <2>3. RowGoesOn
    BY <1>1, <1>3 DEF RowGoesOn, Close, IInv, DataOK
  <2>4. QED
    BY <1>1, <1>3, <2>1, <2>2, <2>3, ClosingStarts DEF StartInv, LocksTaken
<1>4. QED
  BY <1>2, <1>3 DEF ChildAcquire, Fault

LEMMA ChildClaimStarts ==
    ASSUME IInv, StartInv, ChildClaim
    PROVE  StartInv'
<1>1. /\ act[Child].pc = "claim" /\ UNCHANGED <<locks, ids, parent>> /\ act \in [Actors -> Runs]
      /\ Child \in Actors /\ Child \notin Requests /\ act[Child].n \in Attempts
      /\ Untaken(act[Child].n) /\ sale.count \in Nat /\ act[Child].n \in Nat
  BY DispatchAssumption DEF ChildClaim, IInv, DataOK, Actors, ClaimsDistinct, StartInv,
     ChildStarts, Sales, Attempts
<1>2. RowGoesOn
  BY <1>1, ClaimGoesOn DEF ChildClaim
<1>3. sale'.count \in Nat /\ sale.count <= sale'.count
  BY <1>2, CountGrows
<1>4. /\ act'[Child].n = act[Child].n /\ act'[Child].pc \in {"work", "skip", "abort"}
      /\ act'[Child].pc # "abort" => act[Child].n <= sale'.count
      /\ \A r \in Requests : act'[r] = act[r] /\ act[r].n \in Nat
  <2>1. CASE /\ Eligible /\ ClaimRow
             /\ act' = [act EXCEPT ![Child].pc = "work", ![Child].count = sale.count + 1,
                                   ![Child].claim = claims + 1, ![Child].leased = TRUE]
    BY <1>1, <2>1 DEF ClaimRow, Untaken, Actors, Runs
  <2>2. CASE ~Eligible /\ Goto(Child, "skip") /\ UNCHANGED sale
    BY <1>1, <2>2 DEF Untaken, Goto, Actors, Runs
  <2>3. CASE Goto(Child, "abort")
    BY <1>1, <2>3 DEF Goto, Actors, Runs
  <2>4. QED
    BY <2>1, <2>2, <2>3 DEF ChildClaim
<1>5. parent.count + 1 \in Nat
  BY DEF IInv, DataOK
<1>6. ChildStarts'
  BY <1>1, <1>2, <1>3, <1>4, <1>5, UntakenStays DEF StartInv, ChildStarts
<1>7. IdsUsed'
  BY <1>1, <1>3, <1>4 DEF StartInv, IdsUsed, Attempts
<1>8. LocksTaken'
  BY <1>1, <1>3, <1>4 DEF StartInv, LocksTaken, Attempts
<1>9. QED
  BY <1>1, <1>6, <1>7, <1>8 DEF StartInv, ParentWaits

\* The lock a child gives back is the only one above the count.
LEMMA ChildCancelStarts ==
    ASSUME IInv, StartInv, "lock" \notin Faulty, ChildCancel
    PROVE  StartInv'
<1>1. /\ act[Child].pc \in {"skip", "abort"} /\ UNCHANGED sale /\ sale.count \in Nat
      /\ locks' = IF LockMine(Child)
                  THEN [locks EXCEPT ![act[Child].n] = FreeLock] ELSE locks
      /\ Close(Child, IF act[Child].pc = "skip" THEN "completed" ELSE "failed")
  BY DEF ChildCancel, Fault, IInv, DataOK, Sales
<1>2. RowGoesOn
  BY <1>1 DEF RowGoesOn, Close, IInv, DataOK
<1>3. act[Child].pc = "skip" => act[Child].n <= sale'.count
  BY <1>1 DEF StartInv, ChildStarts
<1>4. /\ locks' \in [Attempts -> [status : {"absent", "pending", "completed"},
                                  by : Actors \cup {"nobody"}]]
      /\ \A n \in Attempts : locks'[n].status = "absent" \/ n <= sale'.count
  BY <1>1 DEF StartInv, LocksTaken, LockMine, FreeLock
<1>5. CASE act[Child].pc = "skip"
  BY <1>1, <1>2, <1>3, <1>4, <1>5, ClosingStarts
<1>6. CASE act[Child].pc = "abort"
  BY <1>1, <1>2, <1>4, <1>6, ClosingStarts
<1>7. QED
  BY <1>1, <1>5, <1>6

LEMMA ChildUnlockStarts ==
    ASSUME IInv, StartInv, Unlock(Child)
    PROVE  StartInv'
<1>1. /\ act[Child].pc = "unlock" /\ UNCHANGED sale /\ sale.count \in Nat
      /\ Close(Child, "completed")
      /\ \/ locks' = locks
         \/ locks' = [locks EXCEPT ![act[Child].n].status = "completed"]
  BY DEF Unlock, IInv, DataOK, Sales
<1>2. RowGoesOn
  BY <1>1 DEF RowGoesOn, Close, IInv, DataOK
<1>3. act[Child].n <= sale'.count
  BY <1>1 DEF StartInv, ChildStarts
<1>4. /\ locks' \in [Attempts -> [status : {"absent", "pending", "completed"},
                                  by : Actors \cup {"nobody"}]]
      /\ \A n \in Attempts : locks'[n].status = "absent" \/ n <= sale'.count
  BY <1>1, <1>3 DEF StartInv, LocksTaken
<1>5. QED
  BY <1>1, <1>2, <1>3, <1>4, ClosingStarts

LEMMA ChildWorkStarts ==
    ASSUME IInv, StartInv, Work(Child)
    PROVE  StartInv'
<1>1. /\ act[Child].pc = "work" /\ UNCHANGED <<sale, locks, ids, parent>>
      /\ act \in [Actors -> Runs] /\ Child \in Actors
  BY DEF Work, IInv, DataOK, Actors
<1>2. PICK target \in Verdicts : Aims(Child, target)
  BY DEF Work, WorkFailsBeforeMail, AnsweredByEarlierSend, TalksToServer, ErpStage, IxcStage,
     RenderStage, Verdicts
<1> DEFINE run == [act[Child] EXCEPT !.pc = "finalize", !.target = target]
<1>3. run \in Runs /\ run.n = act[Child].n /\ run.pc = "finalize"
  BY <1>1 DEF Runs, PCs
<1>4. act' = [act EXCEPT ![Child] = run]
  BY <1>1, <1>2 DEF Aims
<1>5. RowGoesOn
  BY <1>1 DEF RowGoesOn
<1> HIDE DEF run
<1>6. QED
  BY <1>1, <1>3, <1>4, <1>5, GoingOnStarts

LEMMA ChildFinalizeStarts ==
    ASSUME IInv, StartInv, Finalize(Child)
    PROVE  StartInv'
<1>1. /\ act[Child].pc \in {"finalize", "refinalize"} /\ UNCHANGED locks /\ Child \in Actors
      /\ act \in [Actors -> Runs] /\ sale.count \in Nat /\ act[Child].target \in Verdicts
      /\ StoreVerdict(Child, Effective(Child)) \/ UNCHANGED <<sale, verdict>>
  BY DEF Finalize, IInv, DataOK, Actors, Sales, TargetsAreTrue
<1>2. parent'.limit = parent.limit
  BY DEF Finalize, FinalizeThrew, Close, IInv, DataOK
<1>3. RowGoesOn
  <2>1. Effective(Child) \in Verdicts
    BY <1>1 DEF Effective, Verdicts
  <2>2. QED
    BY <1>1, <1>2, <2>1, VerdictGoesOn
<1>4. CASE Goto(Child, "unlock") /\ UNCHANGED <<ids, parent>>
  <2> DEFINE run == [act[Child] EXCEPT !.pc = "unlock"]
  <2>1. run \in Runs /\ run.n = act[Child].n /\ run.pc = "unlock"
    BY <1>1 DEF Runs, PCs
  <2>2. act' = [act EXCEPT ![Child] = run]
    BY <1>1, <1>4 DEF Goto
  <2> HIDE DEF run
  <2>3. QED
    BY <1>1, <1>3, <1>4, <2>1, <2>2, GoingOnStarts
<1>5. CASE \E target \in {"FAILED_FINAL", "FAILED_TRANSIENT"} :
              act' = [act EXCEPT ![Child].pc = "refinalize", ![Child].target = target]
              /\ UNCHANGED <<ids, parent>>
  <2>1. PICK target \in {"FAILED_FINAL", "FAILED_TRANSIENT"} :
              act' = [act EXCEPT ![Child].pc = "refinalize", ![Child].target = target]
    BY <1>5
  <2> DEFINE run == [act[Child] EXCEPT !.pc = "refinalize", !.target = target]
  <2>2. run \in Runs /\ run.n = act[Child].n /\ run.pc = "refinalize"
    BY <1>1 DEF Runs, PCs, Verdicts
  <2>3. act' = [act EXCEPT ![Child] = run]
    BY <1>1, <2>1
  <2> HIDE DEF run
  <2>4. QED
    BY <1>1, <1>3, <1>5, <2>2, <2>3, GoingOnStarts
<1>6. CASE Close(Child, "failed")
  <2>1. sale'.count \in Nat /\ sale.count <= sale'.count
    BY <1>3, CountGrows
  <2>2. \A n \in Attempts : locks'[n].status = "absent" \/ n <= sale'.count
    BY <1>1, <2>1 DEF StartInv, LocksTaken, Attempts
  <2>3. QED
    BY <1>1, <1>3, <1>6, <2>2, ClosingStarts DEF StartInv, LocksTaken, Attempts, Actors
<1>7. QED
  BY <1>1, <1>4, <1>5, <1>6 DEF Finalize, FinalizeThrew

\* A request, and its workflow, moves within the numbers that are taken.
LEMMA RequestGoesOn ==
    ASSUME IInv, BoundInv, "start" \notin Faulty,
           NEW r \in Requests, RequestLoad(r) \/ RequestNext(r)
    PROVE  RowGoesOn /\ parent' = parent
<1>1. r \in Actors /\ r # Child
  BY DispatchAssumption DEF Actors
<1>2. parent' = parent
  BY <1>1 DEF RequestNext, RequestLoad, RequestClaim, RequestStart, RequestRollback,
     ManualLoad, ManualAcquire, Work, Finalize, FinalizeThrew, Recover, Recovers, Unlock, Close
<1>3. CASE RequestLoad(r) \/ RequestStart(r) \/ ManualLoad(r) \/ ManualAcquire(r) \/ Work(r)
           \/ Unlock(r)
  BY <1>2, <1>3 DEF RequestLoad, RequestStart, ManualLoad, ManualAcquire, Work, Unlock, RowGoesOn
<1>4. CASE RequestClaim(r)
  BY <1>2, <1>4, ClaimGoesOn DEF RequestClaim
<1>5. CASE RequestRollback(r)
  BY <1>1, <1>5 DEF RequestRollback, BoundInv
<1>6. CASE Finalize(r) \/ Recover(r)
  <2>1. act[r].target \in Verdicts
    BY <1>1, <1>6 DEF Finalize, Recover, IInv, TargetsAreTrue
  <2>2. Effective(r) \in Verdicts
    BY <2>1 DEF Effective, Verdicts
  <2>3. QED
    BY <1>1, <1>2, <1>6, <2>1, <2>2, VerdictGoesOn DEF Finalize, Recover
<1>7. QED
  BY <1>2, <1>3, <1>4, <1>5, <1>6 DEF RequestNext

LEMMA RequestNumber ==
    ASSUME IInv, StartInv, RowGoesOn, NEW r \in Requests, RequestLoad(r) \/ RequestNext(r)
    PROVE  act'[r].n <= sale'.count
<1>1. /\ r \in Actors /\ act \in [Actors -> Runs] /\ act[r].n \in Nat /\ act[r].n <= sale.count
      /\ sale.count \in Nat /\ sale'.count \in Nat /\ sale.count <= sale'.count
  BY CountGrows DEF Actors, IInv, DataOK, StartInv, ChildStarts, Runs
<1>2. CASE act'[r].n \in {0, act[r].n}
  BY <1>1, <1>2
<1>3. CASE ClaimRow /\ act' = [act EXCEPT ![r].pc = "claimed", ![r].n = sale.count + 1,
                                          ![r].count = sale.count + 1, ![r].claim = claims + 1]
  BY <1>1, <1>3 DEF ClaimRow, Runs
<1>4. CASE RequestClaim(r)
  BY <1>1, <1>2, <1>3, <1>4 DEF RequestClaim, Leaves, NoRun
<1>5. CASE RequestLoad(r) \/ RequestStart(r) \/ RequestRollback(r)
  BY <1>1, <1>2, <1>5 DEF RequestLoad, RequestStart, WorkflowStarts, RequestRollback, Leaves,
     NoRun, Goto, Runs
<1>6. CASE ManualLoad(r) \/ ManualAcquire(r) \/ Recover(r) \/ Unlock(r)
  BY <1>1, <1>2, <1>6 DEF ManualLoad, ManualAcquire, Recover, Unlock, Recovers, Close, NoRun,
     Goto, Runs
<1>7. CASE Work(r)
  BY <1>1, <1>2, <1>7 DEF Work, WorkFailsBeforeMail, AnsweredByEarlierSend, TalksToServer, Aims,
     Runs
<1>8. CASE Finalize(r)
  BY <1>1, <1>2, <1>8 DEF Finalize, FinalizeThrew, Close, NoRun, Goto, Runs
<1>9. QED
  BY <1>4, <1>5, <1>6, <1>7, <1>8 DEF RequestNext

LEMMA RequestIds ==
    ASSUME IInv, IdsUsed, NEW r \in Requests, RequestLoad(r) \/ RequestNext(r)
    PROVE  /\ ids' \in [Kinds \X Attempts -> {"unknown", "running", "completed", "failed"}]
           /\ \A n \in Attempts : ids'[<<"child", n>>] = ids[<<"child", n>>]
<1>1. Id(r) = <<"manual", act[r].n>>
  BY DispatchAssumption DEF Id, Kind
<1>2. \/ ids' = ids
      \/ \E how \in {"running", "completed", "failed"} :
            ids' = [ids EXCEPT ![<<"manual", act[r].n>>] = how]
  <2>1. CASE RequestLoad(r) \/ RequestClaim(r) \/ RequestStart(r) \/ RequestRollback(r) \/ Work(r)
    BY <1>1, <2>1 DEF RequestLoad, RequestClaim, RequestStart, WorkflowStarts, RequestRollback, Work
  <2>2. CASE ManualLoad(r) \/ ManualAcquire(r) \/ Recover(r) \/ Unlock(r) \/ Finalize(r)
    BY <1>1, <2>2 DEF ManualLoad, ManualAcquire, Recover, Recovers, Unlock, Finalize,
       FinalizeThrew, Close
  <2>3. QED
    BY <2>1, <2>2 DEF RequestNext
<1>3. QED
  BY <1>2 DEF IdsUsed, Kinds

LEMMA RequestLocks ==
    ASSUME IInv, LocksTaken, NEW r \in Requests, RequestLoad(r) \/ RequestNext(r)
    PROVE  /\ locks' \in [Attempts -> [status : {"absent", "pending", "completed"},
                                       by : Actors \cup {"nobody"}]]
           /\ \A n \in Attempts \ {act[r].n} : locks'[n] = locks[n]
<1>1. r \in Actors
  BY DEF Actors
<1>2. \/ locks' = locks
      \/ LockGranted(r)
      \/ locks' = [locks EXCEPT ![act[r].n].status = "completed"]
  BY DEF RequestNext, RequestLoad, RequestClaim, RequestStart, RequestRollback, ManualLoad,
     ManualAcquire, Work, Finalize, Recover, Unlock
<1>3. QED
  BY <1>1, <1>2 DEF LocksTaken, LockGranted

LEMMA RequestStarts ==
    ASSUME IInv, BoundInv, StartInv, "start" \notin Faulty,
           NEW r \in Requests, RequestLoad(r) \/ RequestNext(r)
    PROVE  StartInv'
<1>1. RowGoesOn /\ parent' = parent /\ r \in Actors /\ r # Child
  BY RequestGoesOn, DispatchAssumption DEF Actors
<1>2. /\ sale.count \in Nat /\ sale'.count \in Nat /\ sale.count <= sale'.count
      /\ act \in [Actors -> Runs] /\ Child \in Actors /\ parent.count + 1 \in Nat
  BY <1>1, CountGrows DEF IInv, DataOK, Actors
<1>3. act'[Child] = act[Child] /\ \A q \in Requests \ {r} : act'[q] = act[q]
  BY <1>1, <1>2, RequestsGoAlone DEF Alone, Actors
<1>4. \A a \in Actors : act[a].n \in Nat
  BY <1>2 DEF Runs
<1>5. ChildStarts'
  <2>1. parent.pc = "listed" => Untaken(parent.count + 1)'
    BY <1>1, <1>2, UntakenStays DEF StartInv, ChildStarts
  <2>2. act[Child].pc \in {"lock", "claim"} => Untaken(act[Child].n)'
    BY <1>1, <1>2, <1>3, <1>4, UntakenStays DEF StartInv, ChildStarts
  <2>3. act[Child].pc \notin {"lock", "claim", "abort"} => act[Child].n <= sale'.count
    BY <1>2, <1>4 DEF StartInv, ChildStarts
  <2>4. \A q \in Requests : act'[q].n <= sale'.count
    BY <1>1, <1>2, <1>3, <1>4, RequestNumber DEF StartInv, ChildStarts, Actors
  <2>5. QED
    BY <1>1, <1>3, <2>1, <2>2, <2>3, <2>4 DEF ChildStarts, Untaken
<1>6. IdsUsed'
  BY <1>2, <1>3, RequestIds DEF StartInv, IdsUsed, Attempts
<1>7. LocksTaken'
  <2>1. act[r].n <= sale.count
    BY DEF StartInv, ChildStarts
  <2>2. QED
    BY <1>2, <1>3, <1>4, <2>1, RequestLocks DEF StartInv, LocksTaken, Attempts, Actors
<1>8. QED
  BY <1>1, <1>3, <1>5, <1>6, <1>7 DEF StartInv, ParentWaits

LEMMA StepStarts ==
    ASSUME IInv, BoundInv, StartInv, "lock" \notin Faulty, "start" \notin Faulty, [Next]_vars
    PROVE  StartInv'
<1>1. CASE List \/ ChildNext
  BY <1>1, ListStarts, StartChildStarts, ChildAcquireStarts, ChildClaimStarts, ChildCancelStarts,
     ChildWorkStarts, ChildFinalizeStarts, ChildUnlockStarts DEF ChildNext
<1>2. CASE \E r \in Requests : RequestLoad(r) \/ RequestNext(r)
  BY <1>2, RequestStarts
<1>3. CASE UNCHANGED vars
  BY <1>3 DEF vars, StartInv, ParentWaits, ChildStarts, Untaken, Eligible, MaxSendAttempts,
     IdsUsed, LocksTaken
<1>4. QED
  BY <1>1, <1>2, <1>3 DEF Next

LEMMA InitStarts == Init => StartInv
<1> SUFFICES ASSUME Init PROVE StartInv
  OBVIOUS
<1>1. /\ \A a \in Actors : act[a] = NoRun
      /\ Child \in Actors /\ Requests \subseteq Actors /\ sale.count = 0
      /\ parent.pc = "idle"
  BY DEF Init, Actors, NewSale
<1>2. ParentWaits /\ ChildStarts
  BY <1>1 DEF ParentWaits, ChildStarts, NoRun
<1>3. /\ ids = [i \in Kinds \X Attempts |-> "unknown"]
      /\ locks = [n \in Attempts |-> FreeLock]
  BY DEF Init
<1>4. IdsUsed
  BY <1>3 DEF IdsUsed, Kinds
<1>5. LocksTaken
  BY <1>3 DEF LocksTaken, FreeLock
<1>6. QED
  BY <1>2, <1>4, <1>5 DEF StartInv

\* Where neither lock statements nor workflow starts fail, the child of the next attempt of
\* an eligible sale can be started whenever the parent is not waiting for another: no
\* skipped, aborted or completed child, and no manual attempt, uses up its workflow id -
\* whatever else fails, for any number of requests.
THEOREM EligibleCanStart ==
    ASSUME "lock" \notin Faulty, "start" \notin Faulty, SendLimits \subseteq Attempts
    PROVE  Spec => []EligibleIsStartable
<1>1. IInv /\ BoundInv /\ [Next]_vars => BoundInv'
  BY StepBounded
<1>2. IInv /\ BoundInv /\ StartInv /\ [Next]_vars => StartInv'
  BY StepStarts
<1>3. IInv /\ StartInv => EligibleIsStartable
  <2> SUFFICES ASSUME IInv, StartInv, Eligible, parent.pc # "waiting"
               PROVE  Startable(<<"child", sale.count + 1>>)
    BY DEF EligibleIsStartable
  <2>1. act[Child].pc = "off" /\ sale.count \in Nat /\ parent.limit \in Attempts
        /\ MaxCount \in Nat \ {0}
    BY DispatchAssumption DEF StartInv, ParentWaits, IInv, DataOK, Sales
  <2>2. sale.count + 1 \in Attempts
    BY <2>1 DEF Eligible, IInv, RowIsTrue, MaxSendAttempts, Attempts
  <2>3. <<"child", sale.count + 1>> \in Kinds \X Attempts
    BY <2>2 DEF Kinds
  <2>4. ids[<<"child", sale.count + 1>>] \in {"unknown", "failed"}
    BY <2>1, <2>2, <2>3 DEF StartInv, IdsUsed
  <2>5. QED
    BY <2>4 DEF Startable
<1>4. QED
  BY <1>1, <1>2, <1>3, InitInv, InitBound, StepInv, InitStarts, PTL DEF Spec

--------------------------------------------------------------------------------
(* The row keeps the ledger *)

\* An actor that goes on with its claim, or ends, and may not come to its e-mail again.
Proceeds(a) ==
    \E run \in Runs :
        /\ act' = [act EXCEPT ![a] = run]
        /\ HoldsAt(a, run.pc) /\ run.pc # "finalize" =>
              Holding(a) /\ act[a].pc # "finalize" /\ run.claim = act[a].claim
        /\ run.pc \in {"claimed", "rollback"} =>
              act[a].pc \in {"claimed", "rollback"} /\ run.claim = act[a].claim

LEMMA GotoProceeds ==
    ASSUME IInv, NEW a \in Actors, NEW pc \in PCs, Goto(a, pc),
           HoldsAt(a, pc) /\ pc # "finalize" => Holding(a) /\ act[a].pc # "finalize",
           pc \in {"claimed", "rollback"} => act[a].pc \in {"claimed", "rollback"}
    PROVE  Proceeds(a)
<1> DEFINE run == [act[a] EXCEPT !.pc = pc]
<1>1. act \in [Actors -> Runs]
  BY DEF IInv, DataOK
<1>2. run \in Runs /\ run.pc = pc /\ run.claim = act[a].claim
  BY <1>1 DEF Runs
<1>3. act' = [act EXCEPT ![a] = run]
  BY <1>1 DEF Goto
<1> HIDE DEF run
<1>4. QED
  BY <1>2, <1>3 DEF Proceeds

LEMMA AimProceeds ==
    ASSUME IInv, NEW a \in Actors, NEW pc \in {"finalize", "refinalize", "recover"},
           NEW target \in Verdicts,
           act' = [act EXCEPT ![a].pc = pc, ![a].target = target]
    PROVE  Proceeds(a)
<1> DEFINE run == [act[a] EXCEPT !.pc = pc, !.target = target]
<1>1. act \in [Actors -> Runs]
  BY DEF IInv, DataOK
<1>2. run \in Runs /\ run.pc = pc /\ run.claim = act[a].claim
  BY <1>1 DEF Runs, PCs
<1>3. act' = [act EXCEPT ![a] = run]
  BY <1>1
<1> HIDE DEF run
<1>4. QED
  BY <1>2, <1>3 DEF Proceeds, HoldsAt

LEMMA EndProceeds ==
    ASSUME NEW a \in Actors, NEW pc \in {"off", "done"},
           act' = [act EXCEPT ![a] = [NoRun EXCEPT !.pc = pc]]
    PROVE  Proceeds(a)
<1> DEFINE run == [NoRun EXCEPT !.pc = pc]
<1>1. run \in Runs /\ run.pc = pc
  BY DEF NoRun, Runs, PCs
<1> HIDE DEF run
<1>2. QED
  BY <1>1 DEF Proceeds, HoldsAt, run

LEMMA CloseProceeds ==
    ASSUME IInv, NEW a \in Actors, NEW how, Close(a, how)
    PROVE  Proceeds(a)
  BY ParentCloses, EndProceeds

\* What the ledger needs is kept by a step that mails nothing and claims nothing ...
LEMMA ProceedingKeepsLedger ==
    ASSUME IInv, LedgerInv, NEW a \in Actors, Proceeds(a), UNCHANGED <<claims, mails, before>>
    PROVE  LedgerInv'
<1>1. PICK run \in Runs :
        /\ act' = [act EXCEPT ![a] = run]
        /\ HoldsAt(a, run.pc) /\ run.pc # "finalize" =>
              Holding(a) /\ act[a].pc # "finalize" /\ run.claim = act[a].claim
        /\ run.pc \in {"claimed", "rollback"} =>
              act[a].pc \in {"claimed", "rollback"} /\ run.claim = act[a].claim
  BY DEF Proceeds
<1>2. act \in [Actors -> Runs]
  BY DEF IInv, DataOK
<1>3. act'[a] = run /\ \A b \in Actors \ {a} : act'[b] = act[b]
  BY <1>1, <1>2
<1>4. \A b \in Actors : Holding(b)' /\ act'[b].pc # "finalize" => Unmailed(b)'
  BY <1>1, <1>3 DEF LedgerInv, Unmailed, Holding, HoldsAt
<1>5. \A r \in Requests :
         act'[r].pc \in {"claimed", "rollback"} => before'[r].claim < act'[r].claim
  BY <1>1, <1>3 DEF LedgerInv, Actors
<1>6. QED
  BY <1>4, <1>5 DEF LedgerInv, Actors

\* ... by a claim, whose number no e-mail bears yet, ...
LEMMA ClaimingKeepsLedger ==
    ASSUME IInv, LedgerInv, NEW a \in Actors, NEW run \in Runs, act' = [act EXCEPT ![a] = run],
           ClaimRow, UNCHANGED <<mails, before>>, ~(\E b \in Actors : Holding(b)),
           ~HoldsAt(a, run.pc) \/ run.claim = claims + 1
    PROVE  LedgerInv'
<1>1. act \in [Actors -> Runs] /\ claims \in Nat /\ before \in [Requests -> Sales]
  BY DEF IInv, DataOK
<1>2. act'[a] = run /\ \A b \in Actors \ {a} : act'[b] = act[b]
  BY <1>1
<1>3. claims' = claims + 1
  BY DEF ClaimRow
<1>4. \A m \in mails : m.claim \in 1..claims
  BY DEF LedgerInv
<1>5. \A m \in mails' : m.claim \in 1..claims'
  BY <1>1, <1>3, <1>4
<1>6. \A b \in Actors : Holding(b)' /\ act'[b].pc # "finalize" => Unmailed(b)'
  BY <1>1, <1>2, <1>4 DEF Unmailed, Holding, HoldsAt
<1>7. ASSUME NEW r \in Requests, act'[r].pc \in {"claimed", "rollback"}
      PROVE  before'[r].claim < act'[r].claim
  <2>1. r \in Actors /\ before[r].claim <= claims /\ before[r].claim \in Nat
    BY <1>1 DEF IInv, BeforeIsTrue, RowIsTrue, Sales, Actors
  <2>2. r = a /\ run.claim = claims + 1
    BY <1>2, <1>7, <2>1 DEF Holding, HoldsAt
  <2>3. QED
    BY <1>1, <1>2, <2>1, <2>2
<1>8. QED
  BY <1>5, <1>6, <1>7 DEF LedgerInv, Actors

\* ... and by an e-mail, after which its actor goes on to finalize.
LEMMA MailingKeepsLedger ==
    ASSUME IInv, LedgerInv, NEW a \in Actors, act[a].pc = "work", Mailed(a),
           NEW target \in Verdicts, Aims(a, target), UNCHANGED <<claims, before>>
    PROVE  LedgerInv'
<1>1. act \in [Actors -> Runs] /\ claims \in Nat
  BY DEF IInv, DataOK
<1>2. act'[a].pc = "finalize" /\ \A b \in Actors \ {a} : act'[b] = act[b]
  BY <1>1 DEF Aims, Runs
<1>3. Mine(a) /\ act[a].claim \in 1..claims
  BY <1>1 DEF IInv, HoldersOwn, Holding, HoldsAt, Mine, RowIsTrue, ClaimsDistinct, Runs
<1>4. \A m \in mails' : m.claim \in 1..claims'
  BY <1>3 DEF Mailed, LedgerInv
<1>5. ASSUME NEW b \in Actors, Holding(b)', act'[b].pc # "finalize"
      PROVE  FALSE
  <2>1. b # a /\ Holding(b)
    BY <1>2, <1>5 DEF Holding, HoldsAt
  <2>2. QED
    BY <1>3, <2>1, SoleHolder
<1>6. \A r \in Requests :
         act'[r].pc \in {"claimed", "rollback"} => before'[r].claim < act'[r].claim
  BY <1>2 DEF LedgerInv, Actors
<1>7. QED
  BY <1>4, <1>5, <1>6 DEF LedgerInv, Actors

LedgerStep == LedgerInv' /\ [Ledger!Next]_(Ledger!vars)

LEMMA LedgerStutters ==
    ASSUME UNCHANGED <<sale, claims, mails>>
    PROVE  UNCHANGED Ledger!vars
  BY DEF Ledger!vars, SaleState

\* Most steps do not touch the ledger.
LEMMA ProceedingStutters ==
    ASSUME IInv, LedgerInv, NEW a \in Actors, Proceeds(a),
           UNCHANGED <<sale, claims, mails, before>>
    PROVE  LedgerStep
<1>1. LedgerInv'
  BY ProceedingKeepsLedger
<1>2. UNCHANGED Ledger!vars
  BY LedgerStutters
<1>3. QED
  BY <1>1, <1>2 DEF LedgerStep

LEMMA ClaimTakes ==
    ASSUME ClaimRow, sale \in Sales, sale.status \notin {"IN_PROGRESS", "SENT"}, UNCHANGED mails
    PROVE  Ledger!Take
<1>1. sale'.status = "IN_PROGRESS" /\ sale'.claim = claims + 1 /\ claims' = claims + 1
  BY DEF ClaimRow
<1>2. SaleState = "open" /\ SaleState' = "taken"
  BY <1>1 DEF SaleState
<1>3. QED
  BY <1>1, <1>2 DEF Ledger!Take

LEMMA ChildClaimLedger ==
    ASSUME IInv, LedgerInv, ChildClaim
    PROVE  LedgerStep
<1>1. /\ Child \in Actors /\ act \in [Actors -> Runs] /\ UNCHANGED <<mails, before>>
      /\ {"skip", "abort", "work"} \subseteq PCs /\ sale \in Sales
  BY DEF ChildClaim, history, Actors, PCs, IInv, DataOK
<1>2. CASE \E pc \in {"skip", "abort"} : Goto(Child, pc) /\ UNCHANGED <<sale, claims>>
  BY <1>1, <1>2, GotoProceeds, ProceedingStutters DEF HoldsAt
<1>3. CASE /\ Eligible /\ ClaimRow
           /\ \/ Goto(Child, "abort")
              \/ act' = [act EXCEPT ![Child].pc = "work", ![Child].count = sale.count + 1,
                                    ![Child].claim = claims + 1, ![Child].leased = TRUE]
  <2>1. sale.status \notin {"IN_PROGRESS", "SENT"}
    BY <1>3 DEF Eligible
  <2>2. ~(\E b \in Actors : Holding(b))
    BY <2>1 DEF IInv, HoldersOwn, Mine
  <2>3. claims + 1 \in Nat /\ sale.count + 1 \in Nat /\ act[Child] \in Runs
    BY <1>1 DEF IInv, DataOK, Sales
  <2>4. \E run \in Runs : /\ act' = [act EXCEPT ![Child] = run]
                          /\ ~HoldsAt(Child, run.pc) \/ run.claim = claims + 1
    <3>1. CASE Goto(Child, "abort")
      <4> DEFINE run == [act[Child] EXCEPT !.pc = "abort"]
      <4>1. run \in Runs /\ run.pc = "abort"
        BY <1>1, <2>3 DEF Runs
      <4>2. act' = [act EXCEPT ![Child] = run]
        BY <1>1, <3>1 DEF Goto
      <4>3. QED
        BY <4>1, <4>2 DEF HoldsAt
    <3>2. CASE act' = [act EXCEPT ![Child].pc = "work", ![Child].count = sale.count + 1,
                                  ![Child].claim = claims + 1, ![Child].leased = TRUE]
      <4> DEFINE run == [act[Child] EXCEPT !.pc = "work", !.count = sale.count + 1,
                                           !.claim = claims + 1, !.leased = TRUE]
      <4>1. run \in Runs /\ run.claim = claims + 1
        BY <1>1, <2>3 DEF Runs
      <4>2. act' = [act EXCEPT ![Child] = run]
        BY <1>1, <3>2
      <4>3. QED
        BY <4>1, <4>2
    <3>3. QED
      BY <1>3, <3>1, <3>2
  <2>5. LedgerInv'
    BY <1>1, <1>3, <2>2, <2>4, ClaimingKeepsLedger
  <2>6. QED
    BY <1>1, <1>3, <2>1, <2>5, ClaimTakes DEF LedgerStep, Ledger!Next
<1>4. QED
  BY <1>2, <1>3 DEF ChildClaim

LEMMA RequestClaimLedger ==
    ASSUME IInv, LedgerInv, NEW r \in Requests, RequestClaim(r)
    PROVE  LedgerStep
<1>1. /\ r \in Actors /\ act \in [Actors -> Runs] /\ UNCHANGED <<mails, before>>
      /\ {"claimed", "done"} \subseteq PCs /\ sale \in Sales
  BY DEF RequestClaim, history, Actors, PCs, IInv, DataOK
<1>2. CASE Leaves(r) /\ UNCHANGED <<sale, claims>>
  BY <1>1, <1>2, EndProceeds, ProceedingStutters DEF Leaves
<1>3. CASE /\ ManuallyClaimable /\ ClaimRow
           /\ \/ Leaves(r)
              \/ act' = [act EXCEPT ![r].pc = "claimed", ![r].n = sale.count + 1,
                                    ![r].count = sale.count + 1, ![r].claim = claims + 1]
  <2>1. sale.status \notin {"IN_PROGRESS", "SENT"}
    BY <1>3 DEF ManuallyClaimable
  <2>2. ~(\E b \in Actors : Holding(b))
    BY <2>1 DEF IInv, HoldersOwn, Mine
  <2>3. claims + 1 \in Nat /\ sale.count + 1 \in Nat /\ act[r] \in Runs
    BY <1>1 DEF IInv, DataOK, Sales
  <2>4. \E run \in Runs : /\ act' = [act EXCEPT ![r] = run]
                          /\ ~HoldsAt(r, run.pc) \/ run.claim = claims + 1
    <3>1. CASE Leaves(r)
      <4> DEFINE run == [NoRun EXCEPT !.pc = "done"]
      <4>1. run \in Runs /\ run.pc = "done"
        BY <1>1 DEF Runs, NoRun
      <4>2. QED
        BY <3>1, <4>1 DEF HoldsAt, Leaves
    <3>2. CASE act' = [act EXCEPT ![r].pc = "claimed", ![r].n = sale.count + 1,
                                  ![r].count = sale.count + 1, ![r].claim = claims + 1]
      <4> DEFINE run == [act[r] EXCEPT !.pc = "claimed", !.n = sale.count + 1,
                                       !.count = sale.count + 1, !.claim = claims + 1]
      <4>1. run \in Runs /\ run.claim = claims + 1
        BY <1>1, <2>3 DEF Runs
      <4>2. act' = [act EXCEPT ![r] = run]
        BY <1>1, <3>2
      <4>3. QED
        BY <4>1, <4>2
    <3>3. QED
      BY <1>3, <3>1, <3>2
  <2>5. LedgerInv'
    BY <1>1, <1>3, <2>2, <2>4, ClaimingKeepsLedger
  <2>6. QED
    BY <1>1, <1>3, <2>1, <2>5, ClaimTakes DEF LedgerStep, Ledger!Next
<1>4. QED
  BY <1>2, <1>3 DEF RequestClaim

\* The e-mail leaves under the claim that has the sale, and is its first.
LEMMA WorkLedger ==
    ASSUME IInv, LedgerInv, NEW a \in Actors, Work(a)
    PROVE  LedgerStep
<1>1. act[a].pc = "work" /\ UNCHANGED <<sale, claims, before>>
  BY DEF Work
<1>2. \E target \in Verdicts : Aims(a, target)
  BY DEF Work, WorkFailsBeforeMail, AnsweredByEarlierSend, TalksToServer, ErpStage, IxcStage,
     RenderStage, Verdicts
<1>3. mails' = mails \/ Mailed(a)
  BY DEF Work, WorkFailsBeforeMail, AnsweredByEarlierSend, TalksToServer
<1>4. CASE mails' = mails
  BY <1>1, <1>2, <1>4, AimProceeds, ProceedingStutters DEF Aims
<1>5. CASE Mailed(a)
  <2>1. Mine(a) /\ Unmailed(a)
    BY <1>1 DEF IInv, HoldersOwn, Holding, HoldsAt, LedgerInv
  <2>2. SaleState = "taken" /\ SaleState' = "taken"
    BY <1>1, <2>1 DEF Mine, SaleState
  <2>3. sale.claim \notin {m.claim : m \in mails}
    BY <2>1 DEF Mine, Unmailed
  <2> DEFINE mail == [by |-> Kind(a), claim |-> act[a].claim]
  <2>4. mails' = mails \cup {mail} /\ mail.claim = sale.claim
    BY <1>5, <2>1 DEF Mine, Mailed
  <2> HIDE DEF mail
  <2>5. {m.claim : m \in mails'} = {m.claim : m \in mails} \cup {sale.claim}
    BY <2>4
  <2>6. Ledger!Mail
    BY <1>1, <2>2, <2>3, <2>5 DEF Ledger!Mail
  <2>7. LedgerInv'
    BY <1>1, <1>2, <1>5, MailingKeepsLedger
  <2>8. QED
    BY <2>6, <2>7 DEF LedgerStep, Ledger!Next
<1>6. QED
  BY <1>3, <1>4, <1>5

\* A verdict settles the sale for the claim that has it, or leaves it alone.
LEMMA VerdictLedger ==
    ASSUME IInv, LedgerInv, NEW a \in Actors, Proceeds(a), NEW status \in Verdicts,
           StoreVerdict(a, status) \/ UNCHANGED <<sale, verdict>>,
           status = "SENT" => mails # {}, UNCHANGED <<claims, mails, before>>
    PROVE  LedgerStep
<1>1. CASE sale' = sale
  BY <1>1, ProceedingStutters
<1>2. CASE Mine(a) /\ sale' = [sale EXCEPT !.status = status]
  <2>1. sale'.claim = sale.claim /\ sale'.status = status
    BY <1>2 DEF IInv, DataOK, Sales
  <2>2. SaleState = "taken" /\ SaleState' = IF status = "SENT" THEN "sent" ELSE "open"
    BY <1>2, <2>1 DEF Mine, SaleState, Verdicts
  <2>3. status = "SENT" => {m.claim : m \in mails} # {}
    OBVIOUS
  <2>4. Ledger!Settle
    BY <2>1, <2>2, <2>3 DEF Ledger!Settle
  <2>5. QED
    BY <2>4, ProceedingKeepsLedger DEF LedgerStep, Ledger!Next
<1>3. QED
  BY <1>1, <1>2 DEF StoreVerdict

LEMMA FinalizeLedger ==
    ASSUME IInv, LedgerInv, NEW a \in Actors, Finalize(a)
    PROVE  LedgerStep
<1>1. /\ UNCHANGED <<claims, mails, before>> /\ act[a].target \in Verdicts
      /\ act[a].target = "SENT" => mails # {}
      /\ StoreVerdict(a, Effective(a)) \/ UNCHANGED <<sale, verdict>>
      /\ act[a].pc \in {"finalize", "refinalize"}
  BY DEF Finalize, IInv, TargetsAreTrue
<1>2. Effective(a) \in Verdicts /\ (Effective(a) = "SENT" => mails # {})
  BY <1>1 DEF Effective, Verdicts
<1>3. Proceeds(a)
  <2>1. CASE \E pc \in {"unlock", "recover"} : Goto(a, pc)
    BY <2>1, GotoProceeds DEF PCs, HoldsAt
  <2>2. CASE \E target \in {"FAILED_FINAL", "FAILED_TRANSIENT"} :
                act' = [act EXCEPT ![a].pc = "refinalize", ![a].target = target]
    BY <2>2, AimProceeds DEF Verdicts
  <2>3. CASE Close(a, "failed")
    BY <2>3, CloseProceeds
  <2>4. QED
    BY <2>1, <2>2, <2>3 DEF Finalize, FinalizeThrew
<1>4. QED
  BY <1>1, <1>2, <1>3, VerdictLedger

LEMMA RecoverLedger ==
    ASSUME IInv, LedgerInv, NEW r \in Requests, Recover(r)
    PROVE  LedgerStep
<1>1. /\ r \in Actors /\ act[r].pc = "recover" /\ UNCHANGED <<claims, mails, before>>
      /\ StoreVerdict(r, act[r].target) \/ UNCHANGED <<sale, verdict>>
  BY DEF Recover, Actors
<1>2. act[r].target \in Verdicts /\ (act[r].target = "SENT" => mails # {})
  BY <1>1 DEF IInv, TargetsAreTrue
<1>3. Proceeds(r)
  <2>1. CASE Goto(r, "unlock")
    BY <1>1, <2>1, GotoProceeds DEF PCs, HoldsAt
  <2>2. CASE Close(r, "failed")
    BY <1>1, <2>2, CloseProceeds
  <2>3. QED
    BY <2>1, <2>2 DEF Recover
<1>4. QED
  BY <1>1, <1>2, <1>3, VerdictLedger

\* A rollback undoes a claim under which nothing was mailed: its workflow never started.
LEMMA RollbackLedger ==
    ASSUME IInv, LedgerInv, NEW r \in Requests, RequestRollback(r)
    PROVE  LedgerStep
<1>1. /\ r \in Actors /\ act[r].pc = "rollback" /\ UNCHANGED <<claims, mails, before>>
      /\ sale' \in {sale, Restored(r)} /\ Leaves(r)
  BY DEF RequestRollback, Actors, history
<1>2. Proceeds(r)
  BY <1>1, EndProceeds DEF Leaves
<1>3. CASE sale' = sale
  BY <1>1, <1>2, <1>3, ProceedingStutters
<1>4. CASE Mine(r) /\ sale' = before[r]
  <2>1. Unmailed(r) /\ before[r].claim < act[r].claim
    BY <1>1 DEF LedgerInv, Holding, HoldsAt
  <2>2. SaleState = "taken" /\ SaleState' = "open"
    BY <1>4 DEF IInv, BeforeIsTrue, Mine, SaleState
  <2>3. sale.claim \notin {m.claim : m \in mails} /\ sale'.claim < sale.claim
    BY <1>4, <2>1 DEF Mine, Unmailed
  <2>4. Ledger!Undo
    BY <1>1, <2>2, <2>3 DEF Ledger!Undo
  <2>5. QED
    BY <1>1, <1>2, <2>4, ProceedingKeepsLedger DEF LedgerStep, Ledger!Next
<1>5. QED
  BY <1>1, <1>3, <1>4 DEF Restored

LEMMA RequestLoadLedger ==
    ASSUME IInv, LedgerInv, NEW r \in Requests, RequestLoad(r)
    PROVE  LedgerStep
<1>1. /\ r \in Actors /\ UNCHANGED <<sale, claims, mails>> /\ act \in [Actors -> Runs]
      /\ before \in [Requests -> Sales]
  BY DEF RequestLoad, history, Actors, IInv, DataOK
<1>2. CASE Leaves(r) /\ UNCHANGED before
  BY <1>1, <1>2, EndProceeds, ProceedingStutters DEF Leaves
<1>3. CASE Goto(r, "loaded") /\ before' = [before EXCEPT ![r] = sale]
  <2>1. act'[r].pc = "loaded" /\ \A b \in Actors \ {r} : act'[b] = act[b]
    BY <1>1, <1>3 DEF Goto, Runs
  <2>2. \A b \in Actors : Holding(b)' /\ act'[b].pc # "finalize" => Unmailed(b)'
    BY <1>1, <2>1 DEF LedgerInv, Holding, HoldsAt, Unmailed
  <2>3. \A q \in Requests :
           act'[q].pc \in {"claimed", "rollback"} => before'[q].claim < act'[q].claim
    BY <1>1, <1>3, <2>1 DEF LedgerInv, Actors
  <2>4. LedgerInv'
    BY <1>1, <2>2, <2>3 DEF LedgerInv, Actors
  <2>5. QED
    BY <1>1, <2>4, LedgerStutters DEF LedgerStep
<1>4. QED
  BY <1>2, <1>3 DEF RequestLoad

LEMMA RequestStartLedger ==
    ASSUME IInv, LedgerInv, NEW r \in Requests, RequestStart(r)
    PROVE  LedgerStep
<1>1. /\ r \in Actors /\ act[r].pc = "claimed" /\ UNCHANGED <<sale, claims, mails, before>>
      /\ {"load", "rollback"} \subseteq PCs
  BY DEF RequestStart, history, Actors, PCs
<1>2. Proceeds(r)
  <2>1. CASE \E pc \in {"load", "rollback"} : Goto(r, pc)
    BY <1>1, <2>1, GotoProceeds DEF Holding, HoldsAt
  <2>2. CASE Leaves(r)
    BY <1>1, <2>2, EndProceeds DEF Leaves
  <2>3. QED
    BY <2>1, <2>2 DEF RequestStart, WorkflowStarts
<1>3. QED
  BY <1>1, <1>2, ProceedingStutters

LEMMA ManualLedger ==
    ASSUME IInv, LedgerInv, NEW r \in Requests, ManualLoad(r) \/ ManualAcquire(r)
    PROVE  LedgerStep
<1>1. /\ r \in Actors /\ r # Child /\ act[r].pc \in {"load", "lock"}
      /\ UNCHANGED <<sale, claims, mails, before>>
  BY DispatchAssumption DEF ManualLoad, ManualAcquire, history, Actors
<1>2. Proceeds(r)
  <2>1. CASE Goto(r, "lock")
    BY <1>1, <2>1, GotoProceeds DEF PCs, Holding, HoldsAt
  <2>2. CASE \E how \in {"completed", "failed"} : Close(r, how)
    BY <1>1, <2>2, CloseProceeds
  <2>3. CASE Recovers(r)
    BY <1>1, <2>3, AimProceeds DEF Recovers, Verdicts
  <2>4. CASE act' = [act EXCEPT ![r].pc = "work", ![r].leased = TRUE]
    <3> DEFINE run == [act[r] EXCEPT !.pc = "work", !.leased = TRUE]
    <3>1. act \in [Actors -> Runs]
      BY DEF IInv, DataOK
    <3>2. run \in Runs /\ run.pc = "work" /\ run.claim = act[r].claim
      BY <1>1, <3>1 DEF Runs, PCs
    <3>3. act' = [act EXCEPT ![r] = run]
      BY <1>1, <2>4, <3>1
    <3>4. (Holding(r) /\ act[r].pc # "finalize") \/ act[r].pc = "lock"
      BY <1>1 DEF Holding, HoldsAt
    <3> HIDE DEF run
    <3>5. QED
      BY <1>1, <3>2, <3>3, <3>4 DEF Proceeds, Holding, HoldsAt
  <2>5. QED
    BY <2>1, <2>2, <2>3, <2>4 DEF ManualLoad, ManualAcquire
<1>3. QED
  BY <1>1, <1>2, ProceedingStutters

LEMMA ChildLedger ==
    ASSUME IInv, LedgerInv, ChildAcquire \/ ChildCancel \/ \E a \in Actors : Unlock(a)
    PROVE  LedgerStep
<1>1. UNCHANGED <<sale, claims, mails, before>> /\ Child \in Actors
  BY DEF ChildAcquire, ChildCancel, Unlock, history, Actors
<1>2. \E a \in Actors : Proceeds(a)
  <2>1. CASE Goto(Child, "claim")
    BY <1>1, <2>1, GotoProceeds DEF PCs, HoldsAt
  <2>2. CASE \E a \in Actors, how \in {"completed", "failed"} : Close(a, how)
    BY <2>2, CloseProceeds
  <2>3. QED
    BY <1>1, <2>1, <2>2 DEF ChildAcquire, ChildCancel, Unlock
<1>3. QED
  BY <1>1, <1>2, ProceedingStutters

LEMMA ParentLedger ==
    ASSUME IInv, LedgerInv, List \/ StartChild
    PROVE  LedgerStep
<1>1. /\ UNCHANGED <<sale, claims, mails, before>> /\ Child \in Actors
      /\ act \in [Actors -> Runs]
  BY DEF List, StartChild, history, Actors, IInv, DataOK
<1>2. CASE UNCHANGED act
  BY <1>1, <1>2, LedgerStutters DEF LedgerInv, Holding, HoldsAt, Unmailed, LedgerStep
<1>3. CASE act' = [act EXCEPT ![Child] = [NoRun EXCEPT !.pc = "lock", !.n = parent.count + 1]]
  <2> DEFINE run == [NoRun EXCEPT !.pc = "lock", !.n = parent.count + 1]
  <2>1. parent.count + 1 \in Nat
    BY DEF IInv, DataOK
  <2>2. run \in Runs /\ run.pc = "lock"
    BY <2>1 DEF NoRun, Runs, PCs
  <2>3. Proceeds(Child)
    BY <1>3, <2>2 DEF Proceeds, HoldsAt
  <2>4. QED
    BY <1>1, <2>3, ProceedingStutters
<1>4. QED
  BY <1>2, <1>3 DEF List, StartChild

\* The row is the ledger of its sale: claims follow one another, an e-mail leaves under the
\* claim that has the sale and is its only one, a claim is undone only when nothing left
\* under it, and SENT is stored once something did, and for good - for any number of
\* requests and any failures.
THEOREM LedgerIsKept == Spec => KeepsLedger
<1>1. Init => LedgerInv /\ Ledger!Init
  <2> SUFFICES ASSUME Init PROVE LedgerInv /\ Ledger!Init
    OBVIOUS
  <2>1. \A a \in Actors : act[a].pc = "off"
    BY DEF Init, NoRun
  <2>2. mails = {} /\ claims = 0 /\ sale = NewSale
    BY DEF Init
  <2>3. LedgerInv
    BY <2>1, <2>2 DEF LedgerInv, Holding, HoldsAt, Actors
  <2>4. Ledger!Init
    BY <2>2 DEF Ledger!Init, SaleState, NewSale
  <2>5. QED
    BY <2>3, <2>4
<1>2. ASSUME IInv, LedgerInv, [Next]_vars
      PROVE  LedgerInv' /\ [Ledger!Next]_(Ledger!vars)
  <2>1. Child \in Actors /\ Requests \subseteq Actors
    BY DEF Actors
  <2>2. ASSUME List \/ ChildNext PROVE LedgerStep
    BY <1>2, <2>1, <2>2, ParentLedger, ChildLedger, ChildClaimLedger, WorkLedger, FinalizeLedger
       DEF ChildNext
  <2>3. ASSUME NEW r \in Requests, RequestLoad(r) \/ RequestNext(r) PROVE LedgerStep
    BY <1>2, <2>1, <2>3, RequestLoadLedger, RequestClaimLedger, RequestStartLedger, RollbackLedger,
       ManualLedger, WorkLedger, FinalizeLedger, RecoverLedger, ChildLedger
       DEF RequestNext
  <2>4. ASSUME UNCHANGED vars PROVE LedgerStep
    BY <1>2, <2>4, LedgerStutters DEF vars, history, LedgerInv, Holding, HoldsAt, Unmailed,
       LedgerStep
  <2>5. LedgerStep
    BY <1>2, <2>2, <2>3, <2>4 DEF Next
  <2>6. QED
    BY <2>5 DEF LedgerStep
<1>3. QED
  BY <1>1, <1>2, InitInv, StepInv, PTL DEF Spec, KeepsLedger, Ledger!Spec

================================================================================
