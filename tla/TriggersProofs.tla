----------------------------- MODULE TriggersProofs -----------------------------
(***************************************************************************)
(* Theorems about the scheduled triggers, for any number of triggers and   *)
(* items, of tries and of failures.  The runs and the items are two        *)
(* arguments: what a run does to an item is to start a child that may be   *)
(* started.                                                                *)
(***************************************************************************)
EXTENDS Triggers, TLAPS

\* A run is the trigger's own or its recovery's.
LEMMA RunsAre ==
    /\ \A t \in Triggers :
          /\ Main(t) \in Runs /\ Recovery(t) \in Runs
          /\ IsMain(Main(t)) /\ ~IsMain(Recovery(t))
          /\ Main(t)[1] = t /\ Recovery(t)[1] = t
    /\ \A r \in Runs : /\ r[1] \in Triggers
                       /\ r = IF IsMain(r) THEN Main(r[1]) ELSE Recovery(r[1])
  BY DEF Runs, Main, Recovery, IsMain

LEMMA RunInit == Init => RunInv
  BY RunsAre, BoundsAssumption
     DEF Init, RunInv, RunsTyped, RunOk, RecoveryOk, PastFailure, Succeeded

--------------------------------------------------------------------------------
(* Steps of the runs *)

LEMMA FireInv ==
    ASSUME RunInv, NEW t \in Triggers, Fire(t)
    PROVE  RunInv'
<1>1. /\ pc[Main(t)] = "idle" /\ pc' = [pc EXCEPT ![Main(t)] = "fetch"]
      /\ UNCHANGED <<kind, round, error, outcome, todo, context, refused, asked, unasked,
                     registered, unregistered, faults>>
  BY DEF Fire, Go, recoveryVars, reportVars
<1>2. RunsTyped'
  BY <1>1 DEF RunInv, RunsTyped
<1>3. \A r \in Runs : RunOk(r)'
  BY <1>1 DEF RunInv, RunsTyped, RunOk, Succeeded
<1>4. \A u \in Triggers : RecoveryOk(u)'
  BY <1>1, RunsAre DEF RunInv, RunsTyped, RecoveryOk, PastFailure, Succeeded
<1>5. QED
  BY <1>2, <1>3, <1>4 DEF RunInv, Runs

LEMMA AwakeInv ==
    ASSUME RunInv, NEW r \in Runs, Awake(r)
    PROVE  RunInv'
<1>1. /\ pc[r] = "delay" /\ pc' = [pc EXCEPT ![r] = "fetch"]
      /\ UNCHANGED <<kind, round, error, outcome, todo, context, refused, asked, unasked,
                     registered, unregistered, faults>>
  BY DEF Awake, Go, recoveryVars, reportVars
<1>2. RunsTyped'
  BY <1>1 DEF RunInv, RunsTyped
<1>3. \A q \in Runs : RunOk(q)'
  BY <1>1 DEF RunInv, RunsTyped, RunOk, Succeeded
<1>4. \A u \in Triggers : RecoveryOk(u)'
  BY <1>1, RunsAre DEF RunInv, RunsTyped, RecoveryOk, PastFailure, Succeeded
<1>5. QED
  BY <1>2, <1>3, <1>4 DEF RunInv, Runs

\* A run that succeeds has nothing left to start; a trigger without a recovery to cancel
\* has none asleep.
LEMMA SucceedsInv ==
    ASSUME RunInv, NEW r \in Runs, NEW how \in {"no-eligible-items", "child-workflows-started"},
           Succeeds(r, how), pc[r] \in {"fetch", "fan"}, todo[r] = {},
           UNCHANGED <<kind, round, error, todo, context, refused, asked, unasked,
                       registered, unregistered, faults>>
    PROVE  RunInv'
<1>1. /\ outcome' = [outcome EXCEPT ![r] = how]
      /\ pc' = [pc EXCEPT ![r] = IF IsMain(r) /\ r[1] \in context THEN "cancel" ELSE "ended"]
  BY DEF Succeeds, Go
<1>2. RunsTyped'
  BY <1>1 DEF RunInv, RunsTyped
<1>3. \A q \in Runs : RunOk(q)'
  BY <1>1 DEF RunInv, RunsTyped, RunOk, Succeeded
<1>4. \A u \in Triggers : RecoveryOk(u)'
  BY <1>1, RunsAre DEF RunInv, RunsTyped, RunOk, RecoveryOk, PastFailure, Succeeded
<1>5. QED
  BY <1>2, <1>3, <1>4 DEF RunInv, Runs

LEMMA FetchInv ==
    ASSUME RunInv, NEW r \in Runs, Fetch(r)
    PROVE  RunInv'
<1>1. /\ pc[r] = "fetch"
      /\ UNCHANGED <<kind, round, error, context, refused, asked, unasked,
                     registered, unregistered, faults>>
  BY DEF Fetch, recoveryVars, reportVars
<1>2. CASE /\ pc' = [pc EXCEPT ![r] = "fan"] /\ UNCHANGED outcome
           /\ \E valid \in SUBSET Items : todo' = [todo EXCEPT ![r] = valid]
  <2>1. RunsTyped'
    BY <1>1, <1>2 DEF RunInv, RunsTyped
  <2>2. \A q \in Runs : RunOk(q)'
    BY <1>1, <1>2 DEF RunInv, RunsTyped, RunOk, Succeeded
  <2>3. \A u \in Triggers : RecoveryOk(u)'
    BY <1>1, <1>2, RunsAre DEF RunInv, RunsTyped, RecoveryOk, PastFailure, Succeeded
  <2>4. QED
    BY <2>1, <2>2, <2>3 DEF RunInv, Runs
<1>3. CASE Succeeds(r, "no-eligible-items") /\ UNCHANGED todo
  BY <1>1, <1>3, SucceedsInv DEF RunInv, RunOk
<1>4. QED
  <2>1. \A records \in IF kind = "csat" THEN CsatRecords ELSE CobrancasRecords :
           records.valid \in SUBSET Items
    BY DEF CsatRecords, CobrancasRecords, Unordered
  <2>2. QED
    BY <1>2, <1>3, <2>1 DEF Fetch, Go

LEMMA FetchFailsInv ==
    ASSUME RunInv, NEW r \in Runs, FetchFails(r)
    PROVE  RunInv'
<1>1. PICK kindOfError \in ErrorKinds :
         /\ error' = [error EXCEPT ![r] = kindOfError]
         /\ pc' = [pc EXCEPT ![r] = AfterFailure(r, kindOfError)]
  BY DEF FetchFails, Go
<1> DEFINE next == AfterFailure(r, kindOfError)
<1>2. /\ pc[r] = "fetch" /\ faults' \in 0..MaxFaults
      /\ UNCHANGED <<kind, round, outcome, todo, context, refused, asked, unasked,
                     registered, unregistered>>
  BY BoundsAssumption DEF FetchFails, Fault, recoveryVars, reportVars, RunInv, RunsTyped
<1>3. /\ next \in {"register", "ensure", "sleep"}
      /\ next = "register" <=> kindOfError = "permanent" \/ round[r] = 2
      /\ next = "ensure" => kind = "cobrancas"
      /\ next = "sleep" => kind # "cobrancas"
  BY DEF AfterFailure, Terminal
<1> HIDE DEF next
<1>4. RunsTyped'
  BY <1>1, <1>2, <1>3 DEF RunInv, RunsTyped, ErrorKinds, next
<1>5. \A q \in Runs : RunOk(q)'
  <2>1. RunOk(r)'
    BY <1>1, <1>2, <1>3 DEF RunInv, RunsTyped, RunOk, Succeeded, ErrorKinds, next
  <2>2. \A q \in Runs \ {r} : RunOk(q)'
    BY <1>1, <1>2 DEF RunInv, RunsTyped, RunOk, Succeeded
  <2>3. QED
    BY <2>1, <2>2
<1>6. \A u \in Triggers : RecoveryOk(u)'
  <2> SUFFICES ASSUME NEW u \in Triggers PROVE RecoveryOk(u)'
    OBVIOUS
  <2>1. CASE r = Main(u)
    <3>1. round[r] \in 1..2 /\ pc' = [pc EXCEPT ![r] = next]
      BY <1>1 DEF RunInv, RunsTyped, next
    <3>2. QED
      BY <1>2, <1>3, <2>1, <3>1, RunsAre DEF RunInv, RunsTyped, RecoveryOk, PastFailure, Succeeded
  <2>2. CASE r = Recovery(u)
    <3>1. round[r] = 2 /\ pc' = [pc EXCEPT ![r] = next]
      BY <1>1, <2>2 DEF RunInv, RecoveryOk, next
    <3>2. QED
      BY <1>2, <1>3, <2>2, <3>1, RunsAre DEF RunInv, RunsTyped, RecoveryOk, PastFailure, Succeeded
  <2>3. CASE r # Main(u) /\ r # Recovery(u)
    BY <1>1, <1>2, <2>3, RunsAre DEF RunInv, RunsTyped, RecoveryOk, PastFailure, Succeeded
  <2>4. QED
    BY <2>1, <2>2, <2>3
<1>7. QED
  BY <1>4, <1>5, <1>6 DEF RunInv, Runs

LEMMA RetryFetchInv ==
    ASSUME RunInv, NEW r \in Runs, RetryFetch(r)
    PROVE  RunInv'
<1>1. /\ pc[r] = "sleep" /\ pc' = [pc EXCEPT ![r] = "fetch"]
      /\ round' = [round EXCEPT ![r] = 2]
      /\ UNCHANGED <<kind, error, outcome, todo, context, refused, asked, unasked,
                     registered, unregistered, faults>>
  BY DEF RetryFetch, Go, recoveryVars, reportVars
<1>2. RunsTyped'
  BY <1>1 DEF RunInv, RunsTyped
<1>3. \A q \in Runs : RunOk(q)'
  BY <1>1 DEF RunInv, RunsTyped, RunOk, Succeeded
<1>4. \A u \in Triggers : RecoveryOk(u)'
  BY <1>1, RunsAre DEF RunInv, RunsTyped, RecoveryOk, PastFailure, Succeeded
<1>5. QED
  BY <1>2, <1>3, <1>4 DEF RunInv, Runs

LEMMA RegisterFailureInv ==
    ASSUME RunInv, NEW r \in Runs, RegisterFailure(r)
    PROVE  RunInv'
<1>1. /\ pc[r] = "register" /\ pc' = [pc EXCEPT ![r] = "ended"]
      /\ outcome' = [outcome EXCEPT ![r] = "failed"]
      /\ UNCHANGED <<kind, round, error, todo, context, refused, asked, unasked>>
  BY DEF RegisterFailure, Ends, Go, recoveryVars
<1>2. \/ registered' = registered \cup {r} /\ UNCHANGED unregistered
      \/ unregistered' = unregistered \cup {r} /\ UNCHANGED registered
  BY DEF RegisterFailure, Register
<1>3. faults' \in 0..MaxFaults
  BY BoundsAssumption DEF RegisterFailure, Fault, RunInv, RunsTyped
<1>4. RunsTyped'
  BY <1>1, <1>2, <1>3 DEF RunInv, RunsTyped
<1>5. \A q \in Runs : RunOk(q)'
  BY <1>1, <1>2 DEF RunInv, RunsTyped, RunOk, Succeeded
<1>6. \A u \in Triggers : RecoveryOk(u)'
  BY <1>1, RunsAre DEF RunInv, RunsTyped, RecoveryOk, PastFailure, Succeeded
<1>7. QED
  BY <1>4, <1>5, <1>6 DEF RunInv, Runs

\* Only a trigger ensures a recovery, and then there is none.
LEMMA EnsureRecoveryInv ==
    ASSUME RunInv, NEW r \in Runs, EnsureRecovery(r)
    PROVE  RunInv'
<1>1. /\ pc[r] = "ensure" /\ faults' \in 0..MaxFaults
      /\ UNCHANGED <<kind, round, error, outcome, todo, asked, unasked,
                     registered, unregistered>>
  BY BoundsAssumption DEF EnsureRecovery, Fault, reportVars, RunInv, RunsTyped
<1>2. PICK t \in Triggers : r = Main(t) /\ r[1] = t
  BY <1>1, RunsAre DEF RunInv, RecoveryOk
<1>3. pc[Recovery(t)] = "idle" /\ round[Main(t)] = 1
  BY <1>1, <1>2 DEF RunInv, RecoveryOk, PastFailure
<1>4. \/ /\ pc' = [pc EXCEPT ![r] = "sleep", ![Recovery(t)] = "delay"]
         /\ context' = context \cup {t} /\ UNCHANGED refused
      \/ /\ pc' = [pc EXCEPT ![r] = "sleep"]
         /\ refused' = refused \cup {t} /\ UNCHANGED context
  BY <1>2 DEF EnsureRecovery, Remember, Go
<1>5. RunsTyped'
  BY <1>1, <1>4 DEF RunInv, RunsTyped
<1>6. \A q \in Runs : RunOk(q)'
  BY <1>1, <1>2, <1>3, <1>4, RunsAre DEF RunInv, RunsTyped, RunOk, Succeeded
<1>7. \A u \in Triggers : RecoveryOk(u)'
  <2> SUFFICES ASSUME NEW u \in Triggers PROVE RecoveryOk(u)'
    OBVIOUS
  <2>1. CASE u = t
    BY <1>1, <1>2, <1>3, <1>4, <2>1, RunsAre
       DEF RunInv, RunsTyped, RunOk, RecoveryOk, PastFailure, Succeeded
  <2>2. CASE u # t
    BY <1>1, <1>2, <1>4, <2>2, RunsAre DEF RunInv, RunsTyped, RecoveryOk, PastFailure, Succeeded
  <2>3. QED
    BY <2>1, <2>2
<1>8. QED
  BY <1>5, <1>6, <1>7 DEF RunInv, Runs

LEMMA CancelRecoveryInv ==
    ASSUME RunInv, NEW r \in Runs, CancelRecovery(r)
    PROVE  RunInv'
<1>1. /\ pc[r] = "cancel" /\ pc' = [pc EXCEPT ![r] = "ended"] /\ faults' \in 0..MaxFaults
      /\ UNCHANGED <<kind, round, error, outcome, todo, context, refused,
                     registered, unregistered>>
  BY BoundsAssumption DEF CancelRecovery, Go, Fault, reportVars, RunInv, RunsTyped
<1>2. PICK t \in Triggers : r = Main(t) /\ r[1] = t
  BY <1>1, RunsAre DEF RunInv, RecoveryOk
<1>3. \/ asked' = asked \cup {t} /\ UNCHANGED unasked
      \/ pc[Recovery(t)] = "ended" /\ UNCHANGED <<asked, unasked>>
      \/ unasked' = unasked \cup {t} /\ UNCHANGED asked
  BY <1>2 DEF CancelRecovery
<1>4. RunsTyped'
  BY <1>1, <1>3 DEF RunInv, RunsTyped
<1>5. \A q \in Runs : RunOk(q)'
  BY <1>1 DEF RunInv, RunsTyped, RunOk, Succeeded
<1>6. \A u \in Triggers : RecoveryOk(u)'
  BY <1>1, <1>2, <1>3, RunsAre DEF RunInv, RunsTyped, RunOk, RecoveryOk, PastFailure, Succeeded
<1>7. QED
  BY <1>4, <1>5, <1>6 DEF RunInv, Runs

LEMMA HeedCancellationInv ==
    ASSUME RunInv, NEW r \in Runs, HeedCancellation(r)
    PROVE  RunInv'
<1>1. /\ UNCHANGED <<kind, round, error, context, refused, asked, unasked,
                     registered, unregistered, faults>>
      /\ ~IsMain(r)
  BY DEF HeedCancellation, Cancelled, recoveryVars, reportVars
<1>2. \/ /\ pc[r] \in {"delay", "fetch", "register"} /\ UNCHANGED todo
         /\ pc' = [pc EXCEPT ![r] = "ended"] /\ outcome' = [outcome EXCEPT ![r] = "cancelled"]
      \/ todo' = [todo EXCEPT ![r] = {}] /\ UNCHANGED <<pc, outcome>>
  BY DEF HeedCancellation, Ends, Go
<1>3. RunsTyped'
  BY <1>1, <1>2 DEF RunInv, RunsTyped
<1>4. \A q \in Runs : RunOk(q)'
  BY <1>1, <1>2 DEF RunInv, RunsTyped, RunOk, Succeeded
<1>5. \A u \in Triggers : RecoveryOk(u)'
  BY <1>1, <1>2, RunsAre DEF RunInv, RunsTyped, RecoveryOk, PastFailure, Succeeded
<1>6. QED
  BY <1>3, <1>4, <1>5 DEF RunInv, Runs

LEMMA StartChildRunInv ==
    ASSUME RunInv, NEW r \in Runs, StartChild(r)
    PROVE  RunInv'
<1>1. PICK i \in todo[r] : todo' = [todo EXCEPT ![r] = @ \ {i}]
  BY DEF StartChild
<1>2. /\ pc[r] = "fan" /\ faults' \in 0..MaxFaults
      /\ UNCHANGED <<kind, pc, round, error, outcome, context, refused, asked, unasked,
                     registered, unregistered>>
  BY BoundsAssumption DEF StartChild, Fault, recoveryVars, reportVars, RunInv, RunsTyped
<1>3. RunsTyped'
  BY <1>1, <1>2 DEF RunInv, RunsTyped
<1>4. \A q \in Runs : RunOk(q)'
  BY <1>1, <1>2 DEF RunInv, RunsTyped, RunOk, Succeeded
<1>5. \A u \in Triggers : RecoveryOk(u)'
  BY <1>2 DEF RunInv, RecoveryOk, PastFailure, Succeeded
<1>6. QED
  BY <1>3, <1>4, <1>5 DEF RunInv, Runs

LEMMA FinishFanInv ==
    ASSUME RunInv, NEW r \in Runs, FinishFan(r)
    PROVE  RunInv'
  BY SucceedsInv DEF FinishFan, recoveryVars, reportVars

\* The items' steps leave the runs alone, but for the failures they may be.
LEMMA ItemStepRunInv ==
    ASSUME RunInv, NEW i \in Items, ItemStep(i)
    PROVE  RunInv'
<1>1. UNCHANGED <<kind, pc, round, error, outcome, todo, context, refused, asked, unasked,
                  registered, unregistered>>
  BY DEF ItemStep, Reserve, LeaseExpires, CreateOrder, RecordOrder, LoseAttempt, EndSurvey,
         runVars, recoveryVars, reportVars
<1>2. faults' \in 0..MaxFaults
  <2>1. Fault => faults' \in 0..MaxFaults
    BY BoundsAssumption DEF Fault, RunInv, RunsTyped
  <2>2. Fault \/ UNCHANGED faults
    BY DEF ItemStep, Reserve, LeaseExpires, CreateOrder, RecordOrder, LoseAttempt, EndSurvey
  <2>3. QED
    BY <2>1, <2>2 DEF RunInv, RunsTyped
<1>3. RunsTyped'
  BY <1>1, <1>2 DEF RunInv, RunsTyped
<1>4. QED
  BY <1>1, <1>3 DEF RunInv, RunOk, RecoveryOk, PastFailure, Succeeded, Runs

LEMMA StillRunInv ==
    ASSUME RunInv, UNCHANGED vars
    PROVE  RunInv'
  BY DEF RunInv, RunsTyped, RunOk, RecoveryOk, PastFailure, Succeeded, Runs, vars, runVars,
         recoveryVars, reportVars

\* What the runs and the failures they register look like, for ever.
THEOREM RunInvariance == Spec => []RunInv
<1>1. RunInv /\ [Next]_vars => RunInv'
  <2> SUFFICES ASSUME RunInv, [Next]_vars PROVE RunInv'
    OBVIOUS
  <2>1. CASE \E t \in Triggers : Fire(t)
    BY <2>1, FireInv
  <2>2. ASSUME NEW r \in Runs, TriggerStep(r) PROVE RunInv'
    BY <2>2, FetchInv, FetchFailsInv, RetryFetchInv, RegisterFailureInv, StartChildRunInv,
       FinishFanInv DEF TriggerStep
  <2>3. ASSUME NEW r \in Runs, RecoveryStep(r) PROVE RunInv'
    BY <2>3, AwakeInv, EnsureRecoveryInv, CancelRecoveryInv, HeedCancellationInv
       DEF RecoveryStep
  <2>4. CASE \E i \in Items : ItemStep(i)
    BY <2>4, ItemStepRunInv
  <2>5. CASE Finished \/ UNCHANGED vars
    BY <2>5, StillRunInv DEF Finished
  <2>6. QED
    BY <2>1, <2>2, <2>3, <2>4, <2>5 DEF Next, RunStep
<1>2. QED
  BY RunInit, <1>1, PTL DEF Spec

\* A trigger that a transient failure defeated leaves a recovery behind it, unless the
\* recovery could not be started.
THEOREM SecondChance == Spec => []DefeatLeavesRecovery
<1>1. RunInv => DefeatLeavesRecovery
  BY RunsAre DEF RunInv, RunOk, RecoveryOk, PastFailure, DefeatLeavesRecovery
<1>2. QED
  BY <1>1, RunInvariance, PTL

\* A recovery is only given up once its trigger succeeded and had its turn at every item.
THEOREM NoChanceWasted == Spec => []RecoveryIsReplaced
<1>1. RunInv => RecoveryIsReplaced
  BY RunsAre DEF RunInv, RunsTyped, RunOk, RecoveryOk, RecoveryIsReplaced
<1>2. QED
  BY <1>1, RunInvariance, PTL

\* A failed run was registered, after two rounds if time could have mended it; a run
\* that succeeded was not.
THEOREM FailuresAreTold == Spec => []FailuresAreRegistered
<1>1. RunInv => FailuresAreRegistered
  BY DEF RunInv, RunOk, FailuresAreRegistered, Succeeded
<1>2. QED
  BY <1>1, RunInvariance, PTL

--------------------------------------------------------------------------------
(* Items *)

LEMMA NoChildIsShaped ==
    /\ NoChild \in Children /\ ~Told(NoChild) /\ Shaped(NoChild)
    /\ [NoChild EXCEPT !.state = "running"] \in Children
    /\ ~Told([NoChild EXCEPT !.state = "running"])
    /\ Shaped([NoChild EXCEPT !.state = "running"])
<1>1. NoChild \in Children
  BY BoundsAssumption DEF NoChild, Children
<1>2. /\ NoChild.state = "none" /\ NoChild.tries = 0 /\ NoChild.step = "ready"
      /\ NoChild.row = "absent" /\ NoChild.result = "none"
  BY DEF NoChild
<1> DEFINE started == [NoChild EXCEPT !.state = "running"]
<1>3. /\ started \in Children
      /\ started.state = "running" /\ started.tries = 0 /\ started.step = "ready"
      /\ started.row = "absent" /\ started.result = "none"
  BY <1>1, <1>2 DEF Children
<1> HIDE DEF started
<1>4. ~Told(NoChild) /\ Shaped(NoChild)
  BY <1>2 DEF Told, Shaped
<1>5. ~Told(started) /\ Shaped(started)
  BY <1>3, BoundsAssumption DEF Told, Shaped
<1>6. QED
  BY <1>1, <1>3, <1>4, <1>5 DEF started

LEMMA ItemInit == Init => ItemInv
<1> SUFFICES ASSUME Init PROVE ItemInv
  OBVIOUS
<1>1. ItemsTyped
  BY NoChildIsShaped DEF Init, ItemsTyped
<1>2. ASSUME NEW i \in Items PROVE ItemOk(i)
  <2>1. child[i] = NoChild /\ orders[i] = 0 /\ doubts[i] = 0
    BY DEF Init
  <2>2. Shaped(child[i]) /\ ~Told(child[i])
    BY <2>1, NoChildIsShaped
  <2>3. QED
    BY <2>1, <2>2 DEF ItemOk
<1>3. QED
  BY <1>1, <1>2 DEF ItemInv

\* One item changes, and its orders are still accounted for.
LEMMA ItemActs ==
    ASSUME ItemInv, UNCHANGED kind, NEW i \in Items, NEW ch \in Children,
           NEW o \in Nat, NEW d \in Nat,
           child' = [child EXCEPT ![i] = ch],
           orders' = [orders EXCEPT ![i] = o], doubts' = [doubts EXCEPT ![i] = d],
           Shaped(ch), o = d + (IF Told(ch) THEN 1 ELSE 0)
    PROVE  ItemInv'
<1>1. ItemsTyped'
  BY DEF ItemInv, ItemOk, ItemsTyped
<1>2. ASSUME NEW j \in Items PROVE ItemOk(j)'
  <2>1. CASE j = i
    <3>1. child'[j] = ch /\ orders'[j] = o /\ doubts'[j] = d
      BY <2>1 DEF ItemInv, ItemsTyped
    <3>2. Shaped(child[j])'
      BY <3>1 DEF Shaped
    <3>3. QED
      BY <3>1, <3>2 DEF ItemOk, Told
  <2>2. CASE j # i
    <3>1. child'[j] = child[j] /\ orders'[j] = orders[j] /\ doubts'[j] = doubts[j]
      BY <2>2 DEF ItemInv, ItemsTyped
    <3>2. ItemOk(j)
      BY DEF ItemInv
    <3>3. Shaped(child[j])'
      BY <3>1, <3>2 DEF ItemOk, Shaped
    <3>4. QED
      BY <3>1, <3>2, <3>3 DEF ItemOk, Told
  <2>3. QED
    BY <2>1, <2>2
<1>3. QED
  BY <1>1, <1>2 DEF ItemInv

LEMMA SameItems ==
    ASSUME ItemInv, UNCHANGED <<kind, child, orders, doubts>>
    PROVE  ItemInv'
  BY DEF ItemInv, ItemOk, ItemsTyped, Shaped, Told

\* An attempt is over and the child knows no result: the order is told by the row, if
\* there is another attempt to read it.
LEMMA RetriedIsShaped ==
    ASSUME NEW ch \in Children, ch.state = "running", ch.tries < MaxTries,
           ch.result = "none", kind = "cobrancas"
    PROVE  /\ Retried(ch) \in Children /\ Shaped(Retried(ch))
           /\ Told(Retried(ch)) <=> ch.row = "success" /\ ch.tries + 1 # MaxTries
<1>1. ch.tries + 1 \in 0..MaxTries
  BY BoundsAssumption DEF Children
<1>2. CASE ch.tries + 1 = MaxTries
  BY <1>1, <1>2, BoundsAssumption DEF Retried, Children, Shaped, Told
<1>3. CASE ch.tries + 1 # MaxTries
  <2> DEFINE n == ch.tries + 1
             again == [ch EXCEPT !.tries = n, !.step = "ready"]
  <2>1. Retried(ch) = again
    BY <1>3 DEF Retried
  <2>2. n \in 0..MaxTries /\ n < MaxTries /\ n # MaxTries
    BY <1>1, <1>3, BoundsAssumption
  <2> HIDE DEF n
  <2>3. /\ again \in Children /\ again.state = "running" /\ again.tries = n
        /\ again.step = "ready" /\ again.row = ch.row /\ again.result = "none"
    BY <2>2 DEF Children
  <2> HIDE DEF again
  <2>4. Shaped(again) /\ (Told(again) <=> ch.row = "success")
    BY <2>2, <2>3 DEF Shaped, Told
  <2>5. QED
    BY <1>3, <2>1, <2>3, <2>4
<1>4. QED
  BY <1>2, <1>3

LEMMA ConcludedIsShaped ==
    ASSUME NEW ch \in Children, ch.state = "running", NEW result \in Results,
           ch.row = result, kind = "cobrancas"
    PROVE  /\ Concluded(ch, result) \in Children /\ Shaped(Concluded(ch, result))
           /\ Told(Concluded(ch, result)) <=> result = "success"
  BY DEF Concluded, Close, Children, Shaped, Told, Results, Failures

--------------------------------------------------------------------------------
(* Steps of the items *)

LEMMA ReserveInv ==
    ASSUME ItemInv, NEW i \in Items, Reserve(i)
    PROVE  ItemInv'
<1> DEFINE ch == child[i]
<1>1. /\ ch \in Children /\ ch.state = "running" /\ ch.step = "ready" /\ kind = "cobrancas"
      /\ ch.tries < MaxTries /\ ch.result = "none" /\ Shaped(ch)
      /\ orders[i] \in Nat /\ doubts[i] \in Nat
      /\ orders[i] = doubts[i] + (IF Told(ch) THEN 1 ELSE 0)
  BY DEF ItemInv, ItemOk, ItemsTyped, Shaped, Reserve, Ordering
<1>2. /\ child' = [child EXCEPT ![i] = Reserved(ch)]
      /\ orders' = [orders EXCEPT ![i] = orders[i]]
      /\ doubts' = [doubts EXCEPT ![i] = doubts[i]] /\ UNCHANGED kind
  BY DEF Reserve, ItemInv, ItemsTyped
<1> HIDE DEF ch
<1>3. /\ Reserved(ch) \in Children /\ Shaped(Reserved(ch))
      /\ Told(Reserved(ch)) <=> Told(ch)
  <2>1. CASE ch.row = "absent" \/ (ch.row = "pending" /\ ~ch.leased)
    <3>1. Reserved(ch) = [ch EXCEPT !.row = "pending", !.leased = TRUE, !.step = "reserved"]
      BY <2>1 DEF Reserved
    <3>2. QED
      BY <1>1, <2>1, <3>1 DEF Children, Shaped, Told, Results, Failures
  <2>2. CASE ch.row = "pending" /\ ch.leased
    <3>1. Reserved(ch) = Retried(ch)
      BY <2>2 DEF Reserved
    <3>2. QED
      BY <1>1, <2>2, <3>1, RetriedIsShaped DEF Told
  <2>3. CASE ch.row \notin {"absent", "pending"}
    <3>1. Reserved(ch) = Concluded(ch, ch.row) /\ ch.row \in Results
      BY <1>1, <2>3 DEF Reserved, Children
    <3>2. QED
      BY <1>1, <3>1, ConcludedIsShaped DEF Told
  <2>4. QED
    BY <2>1, <2>2, <2>3
<1>4. QED
  BY <1>1, <1>2, <1>3, ItemActs

LEMMA LeaseExpiresInv ==
    ASSUME ItemInv, NEW i \in Items, LeaseExpires(i)
    PROVE  ItemInv'
<1> DEFINE ch == child[i]
<1>1. /\ ch \in Children /\ ch.state = "running" /\ Shaped(ch)
      /\ orders[i] \in Nat /\ doubts[i] \in Nat
      /\ orders[i] = doubts[i] + (IF Told(ch) THEN 1 ELSE 0)
  BY DEF ItemInv, ItemOk, ItemsTyped, LeaseExpires, Ordering
<1>2. /\ child' = [child EXCEPT ![i] = [ch EXCEPT !.leased = FALSE]]
      /\ orders' = [orders EXCEPT ![i] = orders[i]]
      /\ doubts' = [doubts EXCEPT ![i] = doubts[i]] /\ UNCHANGED kind
  BY DEF LeaseExpires, ItemInv, ItemsTyped
<1> HIDE DEF ch
<1>3. /\ [ch EXCEPT !.leased = FALSE] \in Children /\ Shaped([ch EXCEPT !.leased = FALSE])
      /\ Told([ch EXCEPT !.leased = FALSE]) <=> Told(ch)
  BY <1>1 DEF Children, Shaped, Told
<1>4. QED
  BY <1>1, <1>2, <1>3, ItemActs

\* What IXC answers is a success only of the order it created.
LEMMA AnswersAre ==
    ASSUME NEW reply \in Replies
    PROVE  /\ OrderAnswer(reply) \in {"transient"} \cup Results
           /\ OrderAnswer(reply) = "success" <=> reply = "created"
  BY DEF OrderAnswer, CallIxcApi, Envelope, Replies, Results, Failures

LEMMA CreateOrderInv ==
    ASSUME ItemInv, NEW i \in Items, CreateOrder(i)
    PROVE  ItemInv'
<1> DEFINE ch == child[i]
<1>1. /\ ch \in Children /\ ch.state = "running" /\ kind = "cobrancas" /\ UNCHANGED kind
      /\ ch.tries < MaxTries /\ ch.result = "none" /\ ch.row = "pending"
      /\ orders[i] \in Nat /\ doubts[i] \in Nat
      /\ orders[i] = doubts[i]
  BY DEF ItemInv, ItemOk, ItemsTyped, Shaped, Told, CreateOrder, Ordering
<1>2. PICK reply \in Replies, applied \in BOOLEAN :
         /\ reply = "created" => applied
         /\ child' = [child EXCEPT ![i] =
               IF OrderAnswer(reply) = "transient" THEN Retried(@)
               ELSE [@ EXCEPT !.step = "answered", !.result = OrderAnswer(reply)]]
         /\ orders' = Count(orders, i, applied)
         /\ doubts' = Count(doubts, i, applied /\ OrderAnswer(reply) # "success")
  BY DEF CreateOrder
<1> DEFINE answer == OrderAnswer(reply)
           ch2 == IF answer = "transient" THEN Retried(ch)
                  ELSE [ch EXCEPT !.step = "answered", !.result = answer]
           o == IF applied THEN orders[i] + 1 ELSE orders[i]
           d == IF applied /\ answer # "success" THEN doubts[i] + 1 ELSE doubts[i]
<1>3. /\ child' = [child EXCEPT ![i] = ch2]
      /\ orders' = [orders EXCEPT ![i] = o] /\ doubts' = [doubts EXCEPT ![i] = d]
  BY <1>2 DEF Count, ItemInv, ItemsTyped
<1>4. o \in Nat /\ d \in Nat /\ o = d + (IF answer = "success" THEN 1 ELSE 0)
  BY <1>1, <1>2, AnswersAre
<1>5. ch2 \in Children /\ Shaped(ch2) /\ (Told(ch2) <=> answer = "success")
  <2> HIDE DEF ch
  <2>1. answer \in {"transient"} \cup Results
    BY AnswersAre
  <2> HIDE DEF answer
  <2>2. CASE answer = "transient"
    BY <1>1, <2>2, RetriedIsShaped
  <2>3. CASE answer \in Results
    <3>1. ch2 = [ch EXCEPT !.step = "answered", !.result = answer]
      BY <2>3 DEF Results, Failures
    <3>2. QED
      BY <1>1, <2>3, <3>1 DEF Children, Shaped, Told, Results, Failures
  <2>4. QED
    BY <2>1, <2>2, <2>3
<1> HIDE DEF ch2, o, d, answer
<1>6. QED
  BY <1>1, <1>3, <1>4, <1>5, ItemActs

LEMMA RecordOrderInv ==
    ASSUME ItemInv, NEW i \in Items, RecordOrder(i)
    PROVE  ItemInv'
<1> DEFINE ch == child[i]
           noted == Recorded(ch)
<1>1. /\ ch \in Children /\ ch.state = "running" /\ kind = "cobrancas" /\ UNCHANGED kind
      /\ ch.tries < MaxTries /\ ch.row = "pending" /\ ch.result \in Results
      /\ orders[i] \in Nat /\ doubts[i] \in Nat
      /\ orders[i] = doubts[i] + (IF ch.result = "success" THEN 1 ELSE 0)
  BY DEF ItemInv, ItemOk, ItemsTyped, Shaped, Told, RecordOrder, Ordering, Children
<1>2. orders' = [orders EXCEPT ![i] = orders[i]]
  BY DEF RecordOrder, ItemInv, ItemsTyped
<1>3. /\ noted \in Children /\ noted.state = "running" /\ noted.tries = ch.tries
      /\ noted.row = ch.result /\ noted.result = "none"
  <2> HIDE DEF ch
  <2>1. QED
    BY <1>1 DEF Recorded, Children
<1>4. CASE child' = [child EXCEPT ![i] = Concluded(noted, ch.result)] /\ UNCHANGED doubts
  <2>1. doubts' = [doubts EXCEPT ![i] = doubts[i]]
    BY <1>4 DEF ItemInv, ItemOk, ItemsTyped
  <2> HIDE DEF noted, ch
  <2>2. QED
    BY <1>1, <1>2, <1>3, <1>4, <2>1, ConcludedIsShaped, ItemActs
<1>5. CASE /\ child' = [child EXCEPT ![i] = Retried(noted)]
           /\ doubts' = Count(doubts, i, ch.result = "success" /\ ch.tries + 1 = MaxTries)
  <2> DEFINE d == IF ch.result = "success" /\ ch.tries + 1 = MaxTries THEN doubts[i] + 1
                  ELSE doubts[i]
  <2>1. doubts' = [doubts EXCEPT ![i] = d]
    BY <1>5 DEF Count, ItemInv, ItemsTyped
  <2> HIDE DEF noted, ch
  <2>2. /\ Retried(noted) \in Children /\ Shaped(Retried(noted))
        /\ Told(Retried(noted)) <=> ch.result = "success" /\ ch.tries + 1 # MaxTries
    BY <1>1, <1>3, RetriedIsShaped
  <2>3. d \in Nat /\ orders[i] = d + (IF Told(Retried(noted)) THEN 1 ELSE 0)
    BY <1>1, <2>2
  <2> HIDE DEF d
  <2>4. QED
    BY <1>1, <1>2, <1>5, <2>1, <2>2, <2>3, ItemActs
<1>6. QED
  BY <1>4, <1>5 DEF RecordOrder

LEMMA LoseAttemptInv ==
    ASSUME ItemInv, NEW i \in Items, LoseAttempt(i)
    PROVE  ItemInv'
<1> DEFINE ch == child[i]
           lost == [ch EXCEPT !.result = "none"]
           d == IF ch.result = "success" THEN doubts[i] + 1 ELSE doubts[i]
<1>1. /\ ch \in Children /\ ch.state = "running" /\ kind = "cobrancas" /\ UNCHANGED kind
      /\ ch.tries < MaxTries /\ ch.row = "pending"
      /\ orders[i] \in Nat /\ doubts[i] \in Nat
      /\ orders[i] = doubts[i] + (IF ch.result = "success" THEN 1 ELSE 0)
  BY DEF ItemInv, ItemOk, ItemsTyped, Shaped, Told, LoseAttempt, Ordering
<1>2. /\ child' = [child EXCEPT ![i] = Retried(lost)]
      /\ orders' = [orders EXCEPT ![i] = orders[i]]
      /\ doubts' = [doubts EXCEPT ![i] = d]
  BY DEF LoseAttempt, Count, ItemInv, ItemsTyped
<1> HIDE DEF ch
<1>3. /\ lost \in Children /\ lost.state = "running" /\ lost.tries = ch.tries
      /\ lost.row = "pending" /\ lost.result = "none"
  BY <1>1 DEF Children
<1> HIDE DEF lost
<1>4. Retried(lost) \in Children /\ Shaped(Retried(lost)) /\ ~Told(Retried(lost))
  BY <1>1, <1>3, RetriedIsShaped
<1>5. d \in Nat /\ orders[i] = d + (IF Told(Retried(lost)) THEN 1 ELSE 0)
  BY <1>1, <1>4
<1> HIDE DEF d
<1>6. QED
  BY <1>1, <1>2, <1>4, <1>5, ItemActs

LEMMA EndSurveyInv ==
    ASSUME ItemInv, NEW i \in Items, EndSurvey(i)
    PROVE  ItemInv'
<1> DEFINE ch == child[i]
<1>1. /\ ch \in Children /\ kind = "csat" /\ ch.row = "absent" /\ ch.result = "none"
      /\ orders[i] \in Nat /\ doubts[i] \in Nat /\ orders[i] = doubts[i]
  BY DEF ItemInv, ItemOk, ItemsTyped, Shaped, Told, EndSurvey
<1>2. PICK state \in {"completed", "failed"} :
         child' = [child EXCEPT ![i] = [ch EXCEPT !.state = state]]
  BY DEF EndSurvey
<1>3. /\ orders' = [orders EXCEPT ![i] = orders[i]]
      /\ doubts' = [doubts EXCEPT ![i] = doubts[i]] /\ UNCHANGED kind
  BY DEF EndSurvey, ItemInv, ItemsTyped
<1> DEFINE over == [ch EXCEPT !.state = state]
<1> HIDE DEF ch
<1>4. over \in Children /\ Shaped(over) /\ ~Told(over)
  BY <1>1 DEF Children, Shaped, Told
<1> HIDE DEF over
<1>5. orders[i] = doubts[i] + (IF Told(over) THEN 1 ELSE 0)
  BY <1>1, <1>4
<1>6. QED
  BY <1>1, <1>2, <1>3, <1>4, <1>5, ItemActs DEF over

\* A child is started only in the place of none, or of one that failed.
LEMMA StartChildItemInv ==
    ASSUME ItemInv, RunInv, NEW r \in Runs, StartChild(r)
    PROVE  ItemInv'
<1>1. UNCHANGED <<kind, orders, doubts>>
  BY DEF StartChild
<1>2. CASE UNCHANGED child
  BY <1>1, <1>2, SameItems
<1>3. ASSUME NEW i \in todo[r], Startable(i),
             child' = [child EXCEPT ![i] = [NoChild EXCEPT !.state = "running"]]
      PROVE  ItemInv'
  <2>1. i \in Items
    BY DEF RunInv, RunsTyped
  <2>2. ~Told(child[i])
    <3>1. CASE child[i].state = "none"
      <4>1. child[i] = NoChild
        BY <2>1, <3>1 DEF ItemInv, ItemOk, Shaped
      <4>2. QED
        BY <4>1, NoChildIsShaped
    <3>2. CASE child[i].state = "failed"
      BY <3>2 DEF Told
    <3>3. QED
      BY <1>3, <3>1, <3>2 DEF Startable
  <2>3. /\ orders' = [orders EXCEPT ![i] = orders[i]] /\ orders[i] \in Nat
        /\ doubts' = [doubts EXCEPT ![i] = doubts[i]] /\ doubts[i] \in Nat
        /\ orders[i] = doubts[i]
    BY <1>1, <2>1, <2>2 DEF ItemInv, ItemOk, ItemsTyped
  <2> DEFINE started == [NoChild EXCEPT !.state = "running"]
  <2>4. started \in Children /\ Shaped(started) /\ ~Told(started)
    BY NoChildIsShaped
  <2>5. child' = [child EXCEPT ![i] = started]
    BY <1>3
  <2> HIDE DEF started
  <2>6. orders[i] = doubts[i] + (IF Told(started) THEN 1 ELSE 0)
    BY <2>3, <2>4
  <2>7. QED
    BY <1>1, <2>1, <2>3, <2>4, <2>5, <2>6, ItemActs
<1>4. QED
  BY <1>2, <1>3 DEF StartChild

\* Every service order is one its child was told of, or is in doubt.
THEOREM ItemInvariance == Spec => []ItemInv
<1>1. ItemInv /\ RunInv /\ [Next]_vars => ItemInv'
  <2> SUFFICES ASSUME ItemInv, RunInv, [Next]_vars PROVE ItemInv'
    OBVIOUS
  <2>1. CASE \E t \in Triggers : Fire(t)
    BY <2>1, SameItems DEF Fire, itemVars
  <2>2. ASSUME NEW r \in Runs, RunStep(r), ~StartChild(r) PROVE ItemInv'
    <3>1. UNCHANGED <<kind, child, orders, doubts>>
      BY <2>2 DEF RunStep, TriggerStep, RecoveryStep, Fetch, FetchFails, RetryFetch,
                  RegisterFailure, FinishFan, Awake, EnsureRecovery, CancelRecovery,
                  HeedCancellation, itemVars
    <3>2. QED
      BY <3>1, SameItems
  <2>3. ASSUME NEW i \in Items, ItemStep(i) PROVE ItemInv'
    BY <2>3, ReserveInv, LeaseExpiresInv, CreateOrderInv, RecordOrderInv, LoseAttemptInv,
       EndSurveyInv DEF ItemStep
  <2>4. CASE Finished \/ UNCHANGED vars
    BY <2>4, SameItems DEF Finished, vars, itemVars
  <2>5. QED
    BY <2>1, <2>2, <2>3, <2>4, StartChildItemInv DEF Next
<1>2. QED
  BY ItemInit, <1>1, RunInvariance, PTL DEF Spec

\* An item gets a second service order only when its child was never told of the first.
THEOREM OneOrderUnlessInDoubt == Spec => []OrdersNeedDoubt
<1>1. ItemInv => OrdersNeedDoubt
  BY DEF ItemInv, ItemOk, ItemsTyped, OrdersNeedDoubt
<1>2. QED
  BY <1>1, ItemInvariance, PTL

\* A child that reports its order has one in IXC, and no item is closed by a failure that
\* may pass.
THEOREM ItemsCloseForAReason == Spec => []ClosedForAReason
<1>1. ItemInv => ClosedForAReason
  BY DEF ItemInv, ItemOk, ItemsTyped, Shaped, Told, ClosedForAReason
<1>2. QED
  BY <1>1, ItemInvariance, PTL

--------------------------------------------------------------------------------
(* The order's row keeps the lease *)

RowKept(i) == [Lease(i)!Next]_(Lease(i)!vars)

\* An attempt that ends under its lease loses it, or has none.
LEMMA RetriedLoses ==
    ASSUME NEW i \in Items, NEW ch \in Children, child[i] \in Children,
           child'[i] = Retried(ch), ch.tries = child[i].tries, child[i].tries < MaxTries,
           ch.row = child[i].row, ch.leased = child[i].leased
    PROVE  RowKept(i)
<1>1. /\ child'[i].row = child[i].row /\ child'[i].leased = child[i].leased
      /\ child'[i].step = "ready"
  BY DEF Retried, Children
<1>2. CASE Pending(child[i]) /\ child[i].step # "ready"
  <2>1. child[i].tries + 1 \in 1..MaxTries
    BY BoundsAssumption DEF Children
  <2>2. Lease(i)!Lose(child[i].tries + 1)
    BY <1>1, <1>2, <2>1 DEF Lease!Lose, Pending
  <2>3. QED
    BY <2>1, <2>2 DEF RowKept, Lease!Next
<1>3. CASE ~(Pending(child[i]) /\ child[i].step # "ready")
  BY <1>1, <1>3 DEF RowKept, Lease!vars, Pending
<1>4. QED
  BY <1>2, <1>3

\* The answer an attempt records is the verdict of the one that has the lease.
LEMMA RecordedDecides ==
    ASSUME NEW i \in Items, child[i] \in Children, child[i].tries < MaxTries,
           child[i].row = "pending", child[i].step = "answered", child[i].result \in Results,
           child'[i].row = child[i].result
    PROVE  RowKept(i)
<1>1. child[i].tries + 1 \in 1..MaxTries
  BY BoundsAssumption DEF Children
<1>2. child'[i].row \in Results /\ "pending" \notin Results
  BY DEF Results, Failures
<1>3. Lease(i)!Decide(child[i].tries + 1, child[i].result)
  BY <1>1, <1>2 DEF Lease!Decide, Pending
<1>4. QED
  BY <1>1, <1>3 DEF RowKept, Lease!Next

LEMMA SameRow ==
    ASSUME NEW i \in Items, child'[i] = child[i]
    PROVE  RowKept(i)
  BY DEF RowKept, Lease!vars, Pending

\* A child that concludes leaves a row that had its verdict, or none.
LEMMA FinalRowStays ==
    ASSUME NEW i \in Items, child[i].row # "pending", child'[i].row = child[i].row
    PROVE  RowKept(i)
  BY DEF RowKept, Lease!vars, Pending

LEMMA OrderStepKeepsRow ==
    ASSUME ItemInv, NEW i \in Items, ItemStep(i)
    PROVE  RowKept(i)
<1> DEFINE ch == child[i]
<1>1. /\ ch \in Children /\ ch.state = "running" /\ Shaped(ch) /\ ch.tries < MaxTries
      /\ child \in [Items -> Children]
  BY DEF ItemInv, ItemOk, ItemsTyped, Shaped, ItemStep, Reserve, LeaseExpires, CreateOrder,
     RecordOrder, LoseAttempt, EndSurvey, Ordering
<1>2. CASE Reserve(i)
  <2>1. child'[i] = Reserved(ch) /\ ch.step = "ready"
    BY <1>1, <1>2 DEF Reserve, Ordering
  <2>2. CASE ch.row = "absent" \/ (ch.row = "pending" /\ ~ch.leased)
    <3>1. child'[i] = [ch EXCEPT !.row = "pending", !.leased = TRUE, !.step = "reserved"]
      BY <2>1, <2>2 DEF Reserved
    <3>2. /\ child'[i].row = "pending" /\ child'[i].leased /\ child'[i].step = "reserved"
          /\ child'[i].tries = ch.tries /\ ch.tries + 1 \in 1..MaxTries
      BY <1>1, <3>1, BoundsAssumption DEF Children
    <3>3. ch.row \notin Results /\ "pending" \notin Results
      BY <2>2 DEF Results, Failures
    <3>4. Lease(i)!Grant(ch.tries + 1)
      BY <2>2, <3>2, <3>3 DEF Lease!Grant, Pending
    <3>5. QED
      BY <3>2, <3>4 DEF RowKept, Lease!Next
  <2>3. CASE ch.row = "pending" /\ ch.leased
    BY <1>1, <2>1, <2>3, RetriedLoses DEF Reserved
  <2>4. CASE ch.row \notin {"absent", "pending"}
    <3>1. child'[i] = Concluded(ch, ch.row)
      BY <2>1, <2>4 DEF Reserved
    <3>2. child'[i].row = ch.row
      BY <1>1, <3>1 DEF Concluded, Children
    <3>3. QED
      BY <2>4, <3>2, FinalRowStays
  <2>5. QED
    BY <2>2, <2>3, <2>4
<1>3. CASE LeaseExpires(i)
  <2>1. /\ child'[i] = [ch EXCEPT !.leased = FALSE] /\ ch.step = "ready"
        /\ ch.row = "pending" /\ ch.leased
    BY <1>1, <1>3 DEF LeaseExpires, Ordering
  <2>2. /\ child'[i].row = "pending" /\ ~child'[i].leased /\ child'[i].step = "ready"
    BY <1>1, <2>1 DEF Children
  <2>3. Lease(i)!Tick
    BY <2>1, <2>2 DEF Lease!Tick, Pending
  <2>4. QED
    BY <2>3 DEF RowKept, Lease!Next
<1>4. CASE CreateOrder(i)
  <2>1. ch.step = "reserved"
    BY <1>4 DEF CreateOrder, Ordering
  <2>2. CASE child'[i] = Retried(ch)
    BY <1>1, <2>2, RetriedLoses
  <2>3. CASE \E reply \in Replies :
                child'[i] = [ch EXCEPT !.step = "answered", !.result = OrderAnswer(reply)]
    <3>1. /\ child'[i].row = ch.row /\ child'[i].leased = ch.leased
          /\ child'[i].tries = ch.tries /\ child'[i].step = "answered"
      BY <1>1, <2>3 DEF Children
    <3>2. QED
      BY <2>1, <3>1 DEF RowKept, Lease!vars, Pending
  <2>4. QED
    BY <1>1, <1>4, <2>2, <2>3 DEF CreateOrder
<1>5. CASE RecordOrder(i)
  <2>1. ch.step = "answered" /\ ch.row = "pending" /\ ch.result \in Results
    BY <1>1, <1>5 DEF RecordOrder, Ordering, Shaped, Children
  <2>2. Recorded(ch) \in Children /\ Recorded(ch).row = ch.result
    BY <1>1, <2>1 DEF Recorded, Children, Results, Failures
  <2>3. child'[i] \in {Concluded(Recorded(ch), ch.result), Retried(Recorded(ch))}
    BY <1>1, <1>5 DEF RecordOrder
  <2>4. child'[i].row = ch.result
    BY <2>2, <2>3 DEF Concluded, Retried, Children
  <2>5. QED
    BY <1>1, <2>1, <2>4, RecordedDecides
<1>6. CASE LoseAttempt(i)
  <2> DEFINE lost == [ch EXCEPT !.result = "none"]
  <2>1. child'[i] = Retried(lost)
    BY <1>1, <1>6 DEF LoseAttempt
  <2>2. lost \in Children /\ lost.tries = ch.tries /\ lost.row = ch.row /\ lost.leased = ch.leased
    BY <1>1 DEF Children
  <2> HIDE DEF lost
  <2>3. QED
    BY <1>1, <2>1, <2>2, RetriedLoses
<1>7. CASE EndSurvey(i)
  <2>1. /\ kind = "csat"
        /\ \E state \in {"completed", "failed"} : child'[i] = [ch EXCEPT !.state = state]
    BY <1>1, <1>7 DEF EndSurvey
  <2>2. ch.row = "absent" /\ child'[i].row = "absent"
    BY <1>1, <2>1 DEF Shaped, Children
  <2>3. QED
    BY <2>2, FinalRowStays
<1>8. QED
  BY <1>2, <1>3, <1>4, <1>5, <1>6, <1>7 DEF ItemStep

\* The attempts of an item's order use its idempotency row as a lease, whatever fails,
\* until a later run starts the child anew.
THEOREM OrdersAreLeased == Spec => OrderRowsKeepLease
<1> DEFINE fresh == [NoChild EXCEPT !.state = "running"]
           Kept == \A i \in Items : child'[i] # fresh => RowKept(i)
<1>1. ASSUME ItemInv, [Next]_vars PROVE Kept
  <2>1. ASSUME UNCHANGED child PROVE Kept
    BY <2>1, SameRow
  <2>2. ASSUME NEW r \in Runs, StartChild(r) PROVE Kept
    <3>1. UNCHANGED child \/ \E j : child' = [child EXCEPT ![j] = fresh]
      BY <2>2 DEF StartChild
    <3>2. ASSUME NEW i \in Items, child'[i] # fresh PROVE child'[i] = child[i]
      BY <1>1, <3>1, <3>2 DEF ItemInv, ItemsTyped
    <3>3. QED
      BY <3>2, SameRow
  <2>3. ASSUME NEW j \in Items, ItemStep(j) PROVE Kept
    <3>1. \A i \in Items \ {j} : child'[i] = child[i]
      BY <1>1, <2>3 DEF ItemStep, Reserve, LeaseExpires, CreateOrder, RecordOrder, LoseAttempt,
         EndSurvey, ItemInv, ItemsTyped
    <3>2. QED
      BY <1>1, <2>3, <3>1, SameRow, OrderStepKeepsRow
  <2>4. CASE (\E t \in Triggers : Fire(t)) \/ Finished \/ UNCHANGED vars
    BY <2>1, <2>4 DEF Fire, Finished, vars, itemVars
  <2>5. ASSUME NEW r \in Runs, RunStep(r), ~StartChild(r) PROVE UNCHANGED child
    BY <2>5 DEF RunStep, TriggerStep, RecoveryStep, Fetch, FetchFails, RetryFetch,
       RegisterFailure, FinishFan, Awake, EnsureRecovery, CancelRecovery, HeedCancellation, itemVars
  <2> HIDE DEF Kept
  <2>6. QED
    BY <1>1, <2>1, <2>2, <2>3, <2>4, <2>5 DEF Next
<1>2. Kept <=> \A i \in Items : child'[i] # fresh => [Lease(i)!Next]_(Lease(i)!vars)
  BY DEF RowKept
<1>3. QED
  BY <1>1, <1>2, ItemInvariance, PTL DEF Spec, OrderRowsKeepLease

================================================================================
