--------------------------- MODULE WorkerProcessProofs ---------------------------
(***************************************************************************)
(* Theorems about a process of the system: what was proved of the          *)
(* migrations and of the shared SMTP client holds of the process they are  *)
(* parts of, whoever signals, kills or fails it, and the process tells the *)
(* truth about how it ended and whether it is ready.                       *)
(***************************************************************************)
EXTENDS WorkerProcess, MigrationsProofs, SmtpPoolProofs

--------------------------------------------------------------------------------
(* The parts *)

LEMMA StepOfParts ==
    ASSUME [Next]_vars
    PROVE  [MigrationsNext]_migrationVars /\ [SmtpNext]_smtpVars
<1>1. CASE MigrateStep
  BY <1>1 DEF MigrateStep, MigrationsNext
<1>2. CASE ProcessStep /\ UNCHANGED migrationVars
  BY <1>2 DEF ProcessStep
<1>3. CASE SendStep /\ UNCHANGED migrationVars
  BY <1>3 DEF SendStep, Sends, SmtpNext
<1>4. CASE ShutdownStep /\ UNCHANGED migrationVars
  <2>1. [SmtpNext]_smtpVars
    BY <1>4 DEF ShutdownStep, HandlerStep, CloseStep, Closes, FailsToClose, SmtpNext
  <2>2. QED
    BY <1>4, <2>1
<1>5. CASE UNCHANGED vars
  BY <1>5 DEF vars
<1>6. QED
  BY <1>1, <1>2, <1>3, <1>4, <1>5 DEF Next

\* A process migrates as Migrations says, whatever else it does and whenever it is killed.
THEOREM ProcessMigrates == Spec => MigrationsSpec
<1>1. ProcessInit => MigrationsInit
  BY DEF ProcessInit
<1>2. [Next]_vars => [MigrationsNext]_migrationVars
  BY StepOfParts
<1>3. QED
  BY <1>1, <1>2, PTL DEF Spec, MigrationsSpec

\* A process uses the shared SMTP client as SmtpPool says.
THEOREM ProcessSends == Spec => SmtpSpec
<1>1. ProcessInit => SmtpInit
  BY DEF ProcessInit
<1>2. [Next]_vars => [SmtpNext]_smtpVars
  BY StepOfParts
<1>3. QED
  BY <1>1, <1>2, PTL DEF Spec, SmtpSpec

\* Whoever starts beside others, a process past its migrations has the complete schema.
THEOREM ProcessSchemaReady == Spec => []SchemaReady
  BY ProcessMigrates, SchemaReadyTheorem

\* No process ever leaves the sales without a unique key, whenever it is stopped.
THEOREM ProcessRefusesDuplicates == Spec => []DuplicatesRefused
  BY ProcessMigrates, DuplicatesAlwaysRefused

\* The worker never has an open transport its next email would not use.
THEOREM ProcessLosesNoTransport == Spec => []OpenIsCached
  BY ProcessSends, NoTransportIsLost

\* An email another one's failure flushed out of the pool is tried again by the worker.
THEOREM ProcessRetriesNeighbours == Spec => []NeighboursAreRetried
  BY ProcessSends, FlushedAreRetried

\* The worker mails a recipient twice only after a send the server did not answer.
THEOREM ProcessCopiesNeedDoubt == Spec => []CopiesNeedDoubt
  BY ProcessSends, SecondCopyNeedsDoubt

--------------------------------------------------------------------------------
(* What is needed of the types *)

Records ==
    /\ handler \in [registered : BOOLEAN, signal : BOOLEAN, left : Seq(Steps),
                    created : BOOLEAN, drain : BOOLEAN]
    /\ closing \in [left : Seq(Steps), failed : SUBSET MayFail, error : BOOLEAN]
    /\ readyz \in [ok : BOOLEAN, expires : Nat, loading : BOOLEAN,
                   last : [ok : BOOLEAN, lag : Nat, should : BOOLEAN]]
    /\ now \in Nat /\ upAt \in Nat /\ upAt <= now

LEMMA Sequences ==
    ASSUME NEW S, NEW a \in S, NEW b \in S, NEW c \in S, NEW d \in S
    PROVE  /\ <<a, b, c, d>> \in Seq(S)
           /\ <<a, b, c>> \in Seq(S)
           /\ <<a, b>> \in Seq(S)
<1>1. <<a, b>> \in Seq(S)
  OBVIOUS
<1>2. <<a, b, c>> \in Seq(S)
  OBVIOUS
<1>3. <<a, b, c, d>> \in Seq(S)
  OBVIOUS
<1>4. QED
  BY <1>1, <1>2, <1>3

LEMMA StepsAreSequences ==
    ASSUME kind \in Kinds
    PROVE  ShutdownSteps(kind) \in Seq(Steps) /\ HandlerSteps(kind) \in Seq(Steps)
<1>1. kind \in {"control", "ixc", "smtp", "erp-read", "opa", "api"}
  BY WorkerProcessAssumption
<1>2. ShutdownSteps(kind) \in Seq(Steps)
  <2>1. CASE kind \in {"control", "ixc"}
    BY <2>1, Sequences DEF ShutdownSteps, Steps, Closable
  <2>2. CASE kind = "smtp"
    BY <2>2, Sequences DEF ShutdownSteps, Steps, Closable
  <2>3. CASE kind = "erp-read"
    BY <2>3, Sequences DEF ShutdownSteps, Steps, Closable
  <2>4. CASE kind = "opa"
    BY <2>4, Sequences DEF ShutdownSteps, Steps, Closable
  <2>5. CASE kind = "api"
    BY <2>5, Sequences DEF ShutdownSteps, Steps, Closable
  <2>6. QED
    BY <1>1, <2>1, <2>2, <2>3, <2>4, <2>5
<1>3. HandlerSteps(kind) \in Seq(Steps)
  BY <1>2, Sequences DEF HandlerSteps, Steps, Closable
<1>4. QED
  BY <1>2, <1>3

LEMMA RecordsInit == ProcessInit => Records
  BY StepsAreSequences DEF ProcessInit, Records, NoAnswer

LEMMA TailType ==
    ASSUME NEW s \in Seq(Steps), s # <<>>
    PROVE  Tail(s) \in Seq(Steps)
  OBVIOUS

\* Nothing but the clock and the requests touches the clock and the cache.
LEMMA CacheSteps ==
    ASSUME [Next]_vars
    PROVE  UNCHANGED <<readyz, now, upAt>> \/ Tick \/ AskReady \/ ReadyLoaded
<1>1. CASE MigrateStep
  BY <1>1 DEF MigrateStep, processVars
<1>2. CASE ProcessStep
  BY <1>2 DEF ProcessStep, Migrated, Listen, Connect, CreateFails, Created, UseClient, RunEnds,
              RunFails, Kill, Signal, WaitForHandler, End
<1>3. CASE SendStep
  BY <1>3 DEF SendStep
<1>4. CASE ShutdownStep
  BY <1>4 DEF ShutdownStep, HandlerStep, CloseStep
<1>5. CASE UNCHANGED vars
  BY <1>5 DEF vars, processVars
<1>6. QED
  BY <1>1, <1>2, <1>3, <1>4, <1>5 DEF Next

LEMMA CacheRecords ==
    ASSUME Records, [Next]_vars
    PROVE  /\ readyz' \in [ok : BOOLEAN, expires : Nat, loading : BOOLEAN,
                           last : [ok : BOOLEAN, lag : Nat, should : BOOLEAN]]
           /\ now' \in Nat /\ upAt' \in Nat /\ upAt' <= now'
<1>1. CASE UNCHANGED <<readyz, now, upAt>>
  BY <1>1 DEF Records
<1>2. CASE Tick
  BY <1>2 DEF Records, Tick
<1>3. CASE AskReady
  <2>1. now - upAt \in Nat
    BY DEF Records
  <2>2. CASE Cached
    <3>1. readyz' = [readyz EXCEPT !.last =
                        [ok |-> readyz.ok, lag |-> now - upAt, should |-> FALSE]]
      BY <1>3, <2>2 DEF AskReady
    <3>2. QED
      BY <1>3, <2>1, <3>1 DEF Records, AskReady
  <2>3. CASE ~Cached
    <3>1. readyz' = [readyz EXCEPT !.loading = TRUE]
      BY <1>3, <2>3 DEF AskReady
    <3>2. QED
      BY <1>3, <3>1 DEF Records, AskReady
  <2>4. QED
    BY <2>2, <2>3
<1>4. CASE ReadyLoaded
  <2>1. now - upAt \in Nat /\ now + CacheTTL \in Nat
    BY WorkerProcessAssumption DEF Records
  <2> DEFINE ok == Up /\ (kind = "api" \/ RuntimeHealthy)
             last == [ok |-> ok, lag |-> now - upAt, should |-> Up /\ phase = "running"]
  <2>2. ok \in BOOLEAN /\ (Up /\ phase = "running") \in BOOLEAN
    BY DEF Up
  <2>3. last \in [ok : BOOLEAN, lag : Nat, should : BOOLEAN]
    BY <2>1, <2>2
  <2>4. readyz' = [ok |-> ok, expires |-> now + CacheTTL, loading |-> FALSE, last |-> last]
    BY <1>4 DEF ReadyLoaded
  <2> HIDE DEF ok, last
  <2>5. QED
    BY <1>4, <2>1, <2>2, <2>3, <2>4 DEF Records, ReadyLoaded
<1>5. QED
  BY <1>1, <1>2, <1>3, <1>4, CacheSteps

\* A cached answer is used before it expires, and the dependencies had answered less than
\* the time to live before that.
LEMMA CacheStep ==
    ASSUME Records, CacheInv, [Next]_vars
    PROVE  CacheInv'
<1>1. CASE UNCHANGED <<readyz, now, upAt>>
  BY <1>1 DEF CacheInv, ReadyIsRecent
<1>2. CASE Tick
  <2>1. readyz' = readyz /\ upAt' >= upAt
    BY <1>2 DEF Tick, Records
  <2>2. QED
    BY <2>1, CacheRecords, WorkerProcessAssumption DEF CacheInv, ReadyIsRecent, Records
<1>3. CASE AskReady
  <2>1. upAt' = upAt /\ readyz'.ok = readyz.ok /\ readyz'.expires = readyz.expires
    BY <1>3 DEF AskReady, Records
  <2>2. CASE Cached
    <3>1. readyz'.last.ok = readyz.ok /\ readyz'.last.lag = now - upAt
      BY <1>3, <2>2 DEF AskReady, Records
    <3>2. QED
      BY <2>1, <2>2, <3>1, WorkerProcessAssumption DEF CacheInv, ReadyIsRecent, Records, Cached
  <2>3. CASE ~Cached
    <3>1. readyz'.last = readyz.last
      BY <1>3, <2>3 DEF AskReady, Records
    <3>2. QED
      BY <2>1, <3>1 DEF CacheInv, ReadyIsRecent
  <2>4. QED
    BY <2>2, <2>3
<1>4. CASE ReadyLoaded
  <2>1. /\ upAt' = upAt /\ readyz'.expires = now + CacheTTL
        /\ readyz'.last.lag = now - upAt
        /\ readyz'.ok => Up
        /\ readyz'.last.ok => Up
    BY <1>4 DEF ReadyLoaded
  <2>2. QED
    BY <2>1, WorkerProcessAssumption DEF CacheInv, ReadyIsRecent, Records, Up
<1>5. QED
  BY <1>1, <1>2, <1>3, <1>4, CacheSteps

--------------------------------------------------------------------------------
(* The end of a process *)

ExitVars == <<phase, closing, handler, exitCode>>

LEMMA ExitUntouched ==
    ASSUME ExitInv, Records, UNCHANGED ExitVars
    PROVE  ExitInv' /\ handler' = handler /\ closing' = closing
  BY DEF ExitVars, ExitInv, ExitCodeIsTrue

Shapes ==
    /\ handler' \in [registered : BOOLEAN, signal : BOOLEAN, left : Seq(Steps),
                     created : BOOLEAN, drain : BOOLEAN]
    /\ closing' \in [left : Seq(Steps), failed : SUBSET MayFail, error : BOOLEAN]

\* A step that leaves the closing, the handler and the exit code alone and neither begins
\* to wait nor ends.
LEMMA PhaseMoves ==
    ASSUME ExitInv, Records, UNCHANGED <<closing, handler, exitCode>>,
           phase \notin {"ended", "killed", "waiting", "closing"},
           phase' = "killed" \/ (phase' \notin {"ended", "waiting", "closing"} /\ phase # "running")
    PROVE  ExitInv' /\ Shapes
  BY DEF ExitInv, ExitCodeIsTrue, Records, Shapes

\* The catch block: an error, and a handler that hears no signal any more.
LEMMA FailKeeps ==
    ASSUME ExitInv, Records, Fail, UNCHANGED exitCode
    PROVE  ExitInv' /\ Shapes
<1>1. /\ closing'.error /\ closing'.failed = closing.failed /\ phase' = "waiting"
      /\ handler'.registered = FALSE /\ handler'.signal = handler.signal
      /\ handler'.drain = handler.drain /\ handler'.created = handler.created
  BY DEF Fail, Records
<1>2. Shapes
  BY DEF Fail, Records, Shapes
<1>3. QED
  BY <1>1, <1>2 DEF ExitInv, ExitCodeIsTrue

LEMMA StartKeeps ==
    ASSUME ExitInv, Records, Migrated \/ Listen \/ Connect
    PROVE  ExitInv' /\ Shapes
<1>1. CASE Migrated
  <2>1. /\ phase = "migrating" /\ phase' \in {"listening", "creating"}
        /\ handler' = [handler EXCEPT !.registered = TRUE]
        /\ closing' = closing /\ exitCode' = exitCode
    BY <1>1 DEF Migrated
  <2>2. handler'.signal = handler.signal /\ handler'.drain = handler.drain
        /\ handler'.created = handler.created
    BY <2>1 DEF Records
  <2>3. Shapes
    BY <2>1 DEF Records, Shapes
  <2>4. QED
    BY <2>1, <2>2, <2>3 DEF ExitInv, ExitCodeIsTrue
<1>2. CASE Listen
  <2>1. CASE Fail
    BY <1>2, <2>1, FailKeeps DEF Listen
  <2>2. CASE ~Fail
    <3>1. /\ UNCHANGED <<closing, handler, exitCode>> /\ phase = "listening"
          /\ phase' \in {"running", "creating"}
      BY <1>2, <2>2 DEF Listen, FailFatally
    <3>2. QED
      BY <3>1, PhaseMoves
  <2>3. QED
    BY <2>1, <2>2
<1>3. CASE Connect
  BY <1>3, PhaseMoves DEF Connect
<1>4. QED
  BY <1>1, <1>2, <1>3

LEMMA CreateKeeps ==
    ASSUME ExitInv, Records, CreateFails \/ Created
    PROVE  ExitInv' /\ Shapes
<1>1. CASE CreateFails
  <2>1. PICK closed \in {open \ {"connection"}, open} :
           closing' = [closing EXCEPT !.error = TRUE, !.failed = closed \cap {"connection"}]
    BY <1>1 DEF CreateFails
  <2>2. closing' \in [left : Seq(Steps), failed : SUBSET MayFail, error : BOOLEAN]
    BY <2>1 DEF Records, MayFail
  <2>3. closing'.error /\ phase' = "waiting" /\ handler' = [handler EXCEPT !.registered = FALSE]
    BY <1>1, <2>1 DEF CreateFails, Records
  <2>4. handler'.registered = FALSE /\ handler'.signal = handler.signal
        /\ handler'.drain = handler.drain
    BY <2>3 DEF Records
  <2>5. Shapes
    BY <2>2, <2>3 DEF Records, Shapes
  <2>6. QED
    BY <2>3, <2>4, <2>5 DEF ExitInv, ExitCodeIsTrue
<1>2. CASE Created /\ phase' = "running"
  <2>1. /\ handler' = [handler EXCEPT !.created = TRUE, !.drain = SignalledBefore]
        /\ closing' = closing /\ exitCode' = exitCode
    BY <1>2 DEF Created
  <2>2. handler'.signal = handler.signal /\ handler'.drain = handler.signal
    BY <2>1 DEF Records, SignalledBefore
  <2>3. Shapes
    BY <2>1 DEF Records, Shapes, SignalledBefore
  <2>4. QED
    BY <1>2, <2>1, <2>2, <2>3 DEF ExitInv, ExitCodeIsTrue
<1>3. CASE Created /\ phase' # "running"
  <2>1. /\ handler.signal /\ phase' = "waiting"
        /\ handler' = [handler EXCEPT !.created = TRUE, !.drain = TRUE, !.registered = FALSE]
        /\ closing' = [closing EXCEPT !.error = TRUE]
    BY <1>3 DEF Created, SignalledBefore
  <2>2. handler'.signal /\ handler'.registered = FALSE /\ closing'.error
    BY <2>1 DEF Records
  <2>3. Shapes
    BY <2>1 DEF Records, Shapes
  <2>4. QED
    BY <2>1, <2>2, <2>3 DEF ExitInv, ExitCodeIsTrue
<1>4. QED
  BY <1>1, <1>2, <1>3

LEMMA RunKeeps ==
    ASSUME ExitInv, Records, RunEnds \/ RunFails \/ Kill \/ Signal
    PROVE  ExitInv' /\ Shapes
<1>1. CASE RunEnds
  <2>1. /\ phase = "running" /\ phase' = "waiting" /\ handler.drain
        /\ handler' = [handler EXCEPT !.registered = FALSE]
        /\ closing' = closing /\ exitCode' = exitCode
    BY <1>1 DEF RunEnds
  <2>2. /\ handler'.registered = FALSE /\ handler'.signal = handler.signal
        /\ handler'.drain = handler.drain
    BY <2>1 DEF Records
  <2>3. Shapes
    BY <2>1 DEF Records, Shapes
  <2>4. QED
    BY <2>1, <2>2, <2>3 DEF ExitInv, ExitCodeIsTrue
<1>2. CASE RunFails
  BY <1>2, FailKeeps DEF RunFails, FailFatally
<1>3. CASE Kill
  BY <1>3 DEF Kill, ExitInv, ExitCodeIsTrue, Records, Shapes
<1>4. CASE Signal
  <2>1. /\ handler.registered /\ ~handler.signal /\ phase' = phase
        /\ handler' = [handler EXCEPT !.signal = TRUE]
        /\ closing' = closing /\ exitCode' = "0"
    BY <1>4 DEF Signal
  <2>2. /\ handler'.registered = handler.registered /\ handler'.signal
        /\ handler'.drain = handler.drain /\ handler'.created = handler.created
    BY <2>1 DEF Records
  <2>3. Shapes
    BY <2>1 DEF Records, Shapes
  <2>4. QED
    BY <2>1, <2>2, <2>3 DEF ExitInv, ExitCodeIsTrue
<1>5. QED
  BY <1>1, <1>2, <1>3, <1>4

LEMMA EndKeeps ==
    ASSUME ExitInv, Records, WaitForHandler \/ End
    PROVE  ExitInv' /\ Shapes
<1>1. CASE WaitForHandler
  BY <1>1 DEF WaitForHandler, ExitInv, ExitCodeIsTrue, Records, Shapes
<1>2. CASE End
  <2>1. /\ phase' = "ended" /\ closing' = closing /\ handler' = handler
        /\ exitCode' = FinalCode /\ HandlerDone
        /\ phase = "closing" \/ handler.signal
    BY <1>2 DEF End
  <2>2. ~closing.error /\ closing.failed = {} => handler.signal /\ exitCode' = "0"
    BY <2>1 DEF ExitInv, FinalCode
  <2>3. closing.error \/ closing.failed # {} => exitCode' = "1"
    BY <2>1 DEF FinalCode
  <2>4. ExitCodeIsTrue'
    BY <2>1, <2>2, <2>3 DEF ExitCodeIsTrue
  <2>5. QED
    BY <2>1, <2>2, <2>4 DEF ExitInv, HandlerDone, Records, Shapes
<1>3. QED
  BY <1>1, <1>2

LEMMA HandlerKeeps ==
    ASSUME ExitInv, Records, HandlerStep
    PROVE  ExitInv' /\ Shapes
<1> DEFINE step == Head(handler.left)
           next == [handler EXCEPT !.left = Tail(handler.left)]
<1>1. /\ handler.signal /\ handler.left # <<>> /\ phase' = phase /\ phase # "killed"
      /\ phase # "ended"
  BY DEF HandlerStep, ExitInv
<1>2. Tail(handler.left) \in Seq(Steps)
  BY <1>1 DEF Records
<1>3. /\ next \in [registered : BOOLEAN, signal : BOOLEAN, left : Seq(Steps),
                   created : BOOLEAN, drain : BOOLEAN]
      /\ next.registered = handler.registered /\ next.signal
      /\ next.drain = handler.drain /\ next.created = handler.created
  BY <1>1, <1>2 DEF Records
<1>4. CASE step = "drain"
  <2>1. /\ handler' = [next EXCEPT !.drain = handler.created] /\ closing' = closing
        /\ exitCode' = IF DrainRefused THEN "1" ELSE exitCode
    BY <1>4 DEF HandlerStep
  <2>2. /\ handler'.signal /\ handler'.drain = handler.created
        /\ handler'.registered = handler.registered /\ handler'.created = handler.created
    BY <1>3, <2>1
  <2>3. DrainRefused => closing.error
    BY <1>1 DEF DrainRefused, ExitInv
  <2>4. Shapes
    BY <1>3, <2>1 DEF Records, Shapes
  <2>5. QED
    BY <1>1, <2>1, <2>2, <2>3, <2>4 DEF ExitInv, ExitCodeIsTrue
<1>5. CASE step # "drain" /\ UNCHANGED <<closing, exitCode>>
  <2>1. handler' = next /\ closing' = closing /\ exitCode' = exitCode
    BY <1>5 DEF HandlerStep
  <2> HIDE DEF next
  <2>2. QED
    BY <1>1, <1>3, <2>1 DEF ExitInv, ExitCodeIsTrue, Records, Shapes
<1>6. CASE step # "drain" /\ ~UNCHANGED <<closing, exitCode>>
  <2>1. /\ handler' = next /\ step \in MayFail
        /\ closing' = [closing EXCEPT !.failed = @ \cup {step}]
    BY <1>6 DEF HandlerStep, FailsToClose
  <2>2. closing'.failed # {} /\ closing'.error = closing.error
    BY <2>1 DEF Records
  <2>3. Shapes
    BY <1>3, <2>1 DEF Records, Shapes
  <2> HIDE DEF next
  <2>4. QED
    BY <1>1, <1>3, <2>1, <2>2, <2>3 DEF ExitInv, ExitCodeIsTrue
<1>7. QED
  BY <1>4, <1>5, <1>6

LEMMA CloseKeeps ==
    ASSUME ExitInv, Records, CloseStep
    PROVE  ExitInv' /\ Shapes
<1> DEFINE client == Head(closing.left)
           next == [closing EXCEPT !.left = Tail(closing.left)]
<1>1. /\ phase = "closing" /\ phase' = phase /\ handler' = handler /\ exitCode' = exitCode
      /\ closing.left # <<>>
  BY DEF CloseStep
<1>2. Tail(closing.left) \in Seq(Steps)
  BY <1>1 DEF Records
<1>3. /\ next \in [left : Seq(Steps), failed : SUBSET MayFail, error : BOOLEAN]
      /\ next.error = closing.error /\ next.failed = closing.failed
  BY <1>2 DEF Records
<1>4. CASE closing' = next
  <2> HIDE DEF next
  <2>1. QED
    BY <1>1, <1>3, <1>4 DEF ExitInv, ExitCodeIsTrue, Records, Shapes
<1>5. CASE client \in MayFail /\ closing' = [next EXCEPT !.failed = @ \cup {client}]
  <2> HIDE DEF next, client
  <2>1. /\ closing' \in [left : Seq(Steps), failed : SUBSET MayFail, error : BOOLEAN]
        /\ closing'.error = closing.error /\ closing'.failed # {}
    BY <1>3, <1>5
  <2>2. QED
    BY <1>1, <2>1 DEF ExitInv, ExitCodeIsTrue, Records, Shapes
<1>6. QED
  BY <1>4, <1>5 DEF CloseStep, FailsToClose

--------------------------------------------------------------------------------

ProcessInv == Records /\ CacheInv /\ ExitInv

LEMMA InitKeeps == ProcessInit => ProcessInv
  BY RecordsInit, WorkerProcessAssumption
     DEF ProcessInit, ProcessInv, CacheInv, ReadyIsRecent, NoAnswer, ExitInv, ExitCodeIsTrue

LEMMA StepKeeps == ProcessInv /\ [Next]_vars => ProcessInv'
<1> SUFFICES ASSUME Records, CacheInv, ExitInv, [Next]_vars PROVE ProcessInv'
  BY DEF ProcessInv
<1>1. ExitInv' /\ Shapes
  <2>1. CASE UNCHANGED ExitVars
    BY <2>1, ExitUntouched DEF Records, Shapes
  <2>2. CASE MigrateStep
    BY <2>2, ExitUntouched DEF MigrateStep, processVars, ExitVars, Records, Shapes
  <2>3. CASE ProcessStep
    <3>1. CASE UseClient \/ Tick \/ AskReady \/ ReadyLoaded
      BY <2>1, <3>1 DEF UseClient, Tick, AskReady, ReadyLoaded, ExitVars
    <3>2. QED
      BY <2>3, <3>1, StartKeeps, CreateKeeps, RunKeeps, EndKeeps DEF ProcessStep
  <2>4. CASE SendStep
    BY <2>1, <2>4 DEF SendStep, ExitVars
  <2>5. CASE ShutdownStep
    BY <2>5, HandlerKeeps, CloseKeeps DEF ShutdownStep
  <2>6. CASE UNCHANGED vars
    BY <2>1, <2>6 DEF vars, processVars, ExitVars
  <2>7. QED
    BY <2>2, <2>3, <2>4, <2>5, <2>6 DEF Next
<1>2. Records'
  BY <1>1, CacheRecords DEF Records, Shapes
<1>3. QED
  BY <1>1, <1>2, CacheStep DEF ProcessInv

THEOREM ProcessInvariance == Spec => []ProcessInv
<1>1. ProcessInit => ProcessInv
  BY InitKeeps
<1>2. ProcessInv /\ [Next]_vars => ProcessInv'
  BY StepKeeps
<1>3. QED
  BY <1>1, <1>2, PTL DEF Spec

\* Whatever fails and whenever the signal comes, a supervisor that reads exit code 0 reads
\* of a shutdown that was asked for and in which everything was closed.
THEOREM ExitCodeTells == Spec => []ExitCodeIsTrue
<1>1. ProcessInv => ExitCodeIsTrue
  BY DEF ProcessInv, ExitInv
<1>2. QED
  BY <1>1, ProcessInvariance, PTL

\* For every time to live, nobody is told "ready" of dependencies that last answered longer
\* ago than that.
THEOREM ReadinessIsRecent == Spec => []ReadyIsRecent
<1>1. ProcessInv => ReadyIsRecent
  BY DEF ProcessInv, CacheInv
<1>2. QED
  BY <1>1, ProcessInvariance, PTL

--------------------------------------------------------------------------------
(* What a process that ended has closed *)

LEMMA NamedOf ==
    /\ \A a, b, c, d : Named(<<a, b, c, d>>) = {a, b, c, d}
    /\ \A a, b, c : Named(<<a, b, c>>) = {a, b, c}
    /\ Named(<<>>) = {}
<1>1. ASSUME NEW a, NEW b, NEW c, NEW d PROVE Named(<<a, b, c, d>>) = {a, b, c, d}
  <2>1. DOMAIN <<a, b, c, d>> = 1..4
    OBVIOUS
  <2>2. QED
    BY <2>1 DEF Named
<1>2. ASSUME NEW a, NEW b, NEW c PROVE Named(<<a, b, c>>) = {a, b, c}
  <2>1. DOMAIN <<a, b, c>> = 1..3
    OBVIOUS
  <2>2. QED
    BY <2>1 DEF Named
<1>3. Named(<<>>) = {}
  BY DEF Named
<1>4. QED
  BY <1>1, <1>2, <1>3

\* A step taken is the only one that is no longer left.
LEMMA NamedLeft ==
    ASSUME NEW s \in Seq(Steps), s # <<>>
    PROVE  Named(s) \subseteq {Head(s)} \cup Named(Tail(s))
<1> SUFFICES ASSUME NEW i \in 1..Len(s), i # 1 PROVE s[i] \in Named(Tail(s))
  BY DEF Named
<1>1. i - 1 \in DOMAIN Tail(s) /\ Tail(s)[i - 1] = s[i]
  OBVIOUS
<1> DEFINE rest == Tail(s)
<1> HIDE DEF rest
<1>2. rest[i - 1] \in Named(rest) /\ rest[i - 1] = s[i]
  BY <1>1, Zenon DEF Named, rest
<1>3. QED
  BY <1>2 DEF rest

\* The steps of a kind of process name all that it opens.
LEMMA StepsName ==
    ASSUME kind \in Kinds
    PROVE  LET names == Named(ShutdownSteps(kind)) IN
           /\ "listener" \in names /\ "drain" \notin names
           /\ kind # "api" => "connection" \in names
           /\ Uses(kind) \subseteq names
           /\ kind = "smtp" => {"smtp", "systemDb"} \subseteq names
           /\ kind = "api" => HandlerSteps(kind) = ShutdownSteps(kind)
<1>1. kind \in {"control", "ixc", "smtp", "erp-read", "opa", "api"}
  BY WorkerProcessAssumption
<1>2. CASE kind \in {"control", "ixc"}
  BY <1>2, NamedOf DEF ShutdownSteps, Uses
<1>3. CASE kind = "smtp"
  BY <1>3, NamedOf DEF ShutdownSteps, Uses
<1>4. CASE kind = "erp-read"
  BY <1>4, NamedOf DEF ShutdownSteps, Uses
<1>5. CASE kind = "opa"
  BY <1>5, NamedOf DEF ShutdownSteps, Uses
<1>6. CASE kind = "api"
  BY <1>6, NamedOf DEF ShutdownSteps, HandlerSteps, Uses
<1>7. QED
  BY <1>1, <1>2, <1>3, <1>4, <1>5, <1>6

EndInv == kind \in Kinds /\ ClosingInv

EndVars == <<kind, phase, open, closing, handler, mail, opened>>

LEMMA EndUntouched ==
    ASSUME EndInv, UNCHANGED EndVars
    PROVE  EndInv'
  BY DEF EndVars, EndInv, ClosingInv, EndedIsClosed, Busy

LEMMA EndInitially == ProcessInit => EndInv
<1> SUFFICES ASSUME ProcessInit PROVE EndInv
  OBVIOUS
<1>1. Busy = {} /\ opened = {}
  BY DEF ProcessInit, SmtpInit, Busy, Fresh
<1>2. QED
  BY <1>1 DEF ProcessInit, EndInv, ClosingInv, EndedIsClosed

\* A step before the process closes anything.
LEMMA EarlyEnds ==
    ASSUME EndInv, UNCHANGED <<kind, mail, opened>>,
           phase \in Starting \cup {"running"}, phase' \in Starting \cup {"running", "waiting"},
           phase' \in Starting => phase \in Starting,
           kind = "api" => phase' \notin {"creating", "connected"},
           open' \subseteq Named(ShutdownSteps(kind)),
           closing'.left = closing.left,
           handler'.left = handler.left, handler'.signal = handler.signal,
           kind = "api" /\ phase' = "running" => ~handler.signal,
           phase' = "waiting" /\ ~closing'.error => Busy = {}
    PROVE  EndInv'
<1>1. Busy' = Busy
  BY DEF Busy
<1>2. phase' \notin {"closing", "ended"}
  BY DEF Starting
<1>3. QED
  BY <1>1, <1>2 DEF EndInv, ClosingInv, EndedIsClosed

LEMMA FailEnds ==
    ASSUME Records, Fail
    PROVE  /\ phase' = "waiting" /\ closing'.error /\ closing'.left = closing.left
           /\ handler'.left = handler.left /\ handler'.signal = handler.signal
  BY DEF Records, Fail

LEMMA StartEnds ==
    ASSUME EndInv, Records, UNCHANGED smtpVars, Migrated \/ Listen \/ Connect
    PROVE  EndInv'
<1> USE DEF Starting, smtpVars
<1>1. kind \in Kinds /\ open \subseteq Named(ShutdownSteps(kind))
  BY DEF EndInv, ClosingInv
<1>2. CASE Migrated
  <2>1. handler'.left = handler.left /\ handler'.signal = handler.signal
    BY <1>2 DEF Migrated, Records
  <2>2. QED
    BY <1>1, <1>2, <2>1, EarlyEnds DEF Migrated
<1>3. CASE Listen /\ Fail
  <2>1. open' \subseteq open \cup {"listener"} /\ UNCHANGED kind /\ phase = "listening"
    BY <1>3 DEF Listen
  <2>2. QED
    BY <1>1, <1>3, <2>1, FailEnds, StepsName, EarlyEnds
<1>4. CASE Listen /\ ~Fail
  <2>1. /\ UNCHANGED <<kind, closing, handler>> /\ ~handler.signal
        /\ phase = "listening" /\ open' = open \cup {"listener"}
        /\ phase' = IF kind = "api" THEN "running" ELSE "creating"
    BY <1>4 DEF Listen, FailFatally
  <2>2. QED
    BY <1>1, <2>1, StepsName, EarlyEnds
<1>5. CASE Connect
  <2>1. /\ UNCHANGED <<kind, closing, handler>> /\ open' = open \cup {"connection"}
        /\ phase = "creating" /\ phase' = "connected"
    BY <1>5 DEF Connect
  <2>2. kind # "api"
    BY <2>1 DEF EndInv, ClosingInv
  <2>3. QED
    BY <1>1, <2>1, <2>2, StepsName, EarlyEnds
<1>6. QED
  BY <1>2, <1>3, <1>4, <1>5

LEMMA CreateEnds ==
    ASSUME EndInv, Records, UNCHANGED smtpVars, CreateFails \/ Created
    PROVE  EndInv'
<1> USE DEF Starting, smtpVars
<1>1. open \subseteq Named(ShutdownSteps(kind))
  BY DEF EndInv, ClosingInv
<1>2. CASE CreateFails
  <2>1. PICK closed \in {open \ {"connection"}, open} :
           /\ open' = closed
           /\ closing' = [closing EXCEPT !.error = TRUE, !.failed = closed \cap {"connection"}]
    BY <1>2 DEF CreateFails
  <2>2. closing'.error /\ closing'.left = closing.left
    BY <2>1 DEF Records
  <2>3. /\ phase \in {"creating", "connected"} /\ phase' = "waiting" /\ UNCHANGED kind
        /\ handler'.left = handler.left /\ handler'.signal = handler.signal
    BY <1>2 DEF CreateFails, Records
  <2>4. QED
    BY <1>1, <2>1, <2>2, <2>3, EarlyEnds
<1>3. CASE Created
  <2>1. /\ phase = "connected" /\ phase' \in {"running", "waiting"} /\ UNCHANGED <<kind, open>>
        /\ handler'.left = handler.left /\ handler'.signal = handler.signal
        /\ closing'.left = closing.left /\ kind # "api"
    BY <1>3 DEF Created, Records, EndInv, ClosingInv
  <2>2. Busy = {}
    BY <2>1 DEF EndInv, ClosingInv
  <2>3. QED
    BY <1>1, <2>1, <2>2, EarlyEnds
<1>4. QED
  BY <1>2, <1>3

LEMMA RunEndsWell ==
    ASSUME EndInv, Records, ExitInv, UNCHANGED smtpVars, UseClient \/ RunEnds \/ RunFails
    PROVE  EndInv'
<1> USE DEF Starting, smtpVars
<1>1. kind \in Kinds /\ open \subseteq Named(ShutdownSteps(kind))
  BY DEF EndInv, ClosingInv
<1>2. CASE UseClient
  <2>1. /\ UNCHANGED <<kind, phase, closing, handler>> /\ phase = "running" /\ ~handler.signal
        /\ open' \subseteq open \cup Uses(kind)
    BY <1>2 DEF UseClient
  <2>2. QED
    BY <1>1, <2>1, StepsName, EarlyEnds
<1>3. CASE RunEnds
  <2>1. /\ UNCHANGED <<kind, open, closing>> /\ phase = "running" /\ phase' = "waiting" /\ Busy = {}
        /\ handler'.left = handler.left /\ handler'.signal = handler.signal
    BY <1>3 DEF RunEnds, Records
  <2>2. QED
    BY <1>1, <2>1, EarlyEnds
<1>4. CASE RunFails
  <2>1. UNCHANGED <<kind, open>> /\ phase = "running" /\ Fail
    BY <1>4 DEF RunFails, FailFatally
  <2>2. QED
    BY <1>1, <2>1, FailEnds, EarlyEnds
<1>5. QED
  BY <1>2, <1>3, <1>4

LEMMA SignalEndsNothing ==
    ASSUME EndInv, Records, ExitInv, UNCHANGED smtpVars, Kill \/ Signal
    PROVE  EndInv'
<1>1. Busy' = Busy /\ opened' = opened
  BY DEF Busy, smtpVars
<1>2. CASE Kill
  BY <1>1, <1>2 DEF Kill, EndInv, ClosingInv, EndedIsClosed, Starting
<1>3. CASE Signal
  <2>1. /\ UNCHANGED <<kind, phase, open, closing>> /\ handler'.signal
        /\ handler'.left = handler.left /\ ~handler.signal
    BY <1>3 DEF Signal, Records
  <2>2. kind = "api" => open \ closing.failed \subseteq Named(handler.left)
    BY <2>1, StepsName DEF EndInv, ClosingInv
  <2>3. QED
    BY <1>1, <2>1, <2>2 DEF EndInv, ClosingInv, EndedIsClosed
<1>4. QED
  BY <1>2, <1>3

LEMMA EndEnds ==
    ASSUME EndInv, Records, UNCHANGED smtpVars, WaitForHandler \/ End
    PROVE  EndInv'
<1>1. Busy' = Busy /\ opened' = opened
  BY DEF Busy, smtpVars
<1>2. CASE WaitForHandler
  <2>1. UNCHANGED <<kind, open, closing, handler>> /\ phase = "waiting" /\ phase' = "closing"
    BY <1>2 DEF WaitForHandler
  <2>2. closing.left = ShutdownSteps(kind)
    BY <2>1 DEF EndInv, ClosingInv
  <2>3. opened = {} \/ "smtp" \in Named(closing.left)
    BY <2>2, StepsName DEF EndInv, ClosingInv
  <2>4. QED
    BY <1>1, <2>1, <2>2, <2>3 DEF EndInv, ClosingInv, EndedIsClosed, Starting
<1>3. CASE End
  <2>1. UNCHANGED <<kind, open, closing, handler>> /\ phase' = "ended"
    BY <1>3 DEF End
  <2>2. CASE phase = "closing" /\ closing.left = <<>>
    <3>1. Named(closing.left) = {}
      BY <2>2, NamedOf
    <3>2. QED
      BY <1>1, <2>1, <2>2, <3>1 DEF EndInv, ClosingInv, EndedIsClosed, Starting
  <2>3. CASE phase = "running" /\ kind = "api" /\ handler.signal /\ handler.left = <<>>
    <3>1. Named(handler.left) = {}
      BY <2>3, NamedOf
    <3>2. opened = {} /\ Busy = {} /\ open \subseteq closing.failed
      BY <2>3, <3>1 DEF EndInv, ClosingInv
    <3>3. QED
      BY <1>1, <2>1, <2>3, <3>2 DEF EndInv, ClosingInv, EndedIsClosed, Starting
  <2>4. QED
    BY <1>3, <2>2, <2>3 DEF End, HandlerDone
<1>4. QED
  BY <1>2, <1>3

LEMMA SendEnds ==
    ASSUME EndInv, SendStep
    PROVE  EndInv'
<1>1. UNCHANGED <<kind, phase, closing, handler>>
  BY DEF SendStep
<1>2. CASE kind = "smtp" /\ phase = "running" /\ open' = open \cup {"systemDb"}
  BY <1>1, <1>2, StepsName DEF EndInv, ClosingInv, EndedIsClosed, Starting
<1>3. CASE phase \notin {"ended", "killed"} /\ SmtpStep /\ UNCHANGED open
  <2>1. Busy # {}
    BY <1>3 DEF SmtpStep, RefuseMessage, Enqueue, Transmit, Deliver, DeliverPartly, FailToSend,
                Flush, Busy
  <2>2. /\ kind = "smtp" /\ phase \notin Starting
        /\ phase \in {"waiting", "closing"} => closing.error
    BY <2>1 DEF EndInv, ClosingInv
  <2>3. QED
    BY <1>1, <1>3, <2>2 DEF EndInv, ClosingInv, EndedIsClosed
<1>4. QED
  BY <1>2, <1>3 DEF SendStep, Sends

\* A closing step leaves less open, or names what it failed to close.
LEMMA StepCloses ==
    ASSUME NEW client, Records,
           \/ Closes(client) /\ closing'.failed = closing.failed
           \/ FailsToClose(client) /\ closing'.failed = closing.failed \cup {client}
    PROVE  /\ open' \subseteq open
           /\ open' \ closing'.failed \subseteq (open \ closing.failed) \ {client}
           /\ opened' = {} \/ (opened' = opened /\ client # "smtp")
           /\ Busy' = Busy
<1>1. Closes(client) => mail' = mail
  BY DEF Closes, CloseSharedSmtpClient, smtpVars
<1>2. FailsToClose(client) => UNCHANGED <<mail, opened>> /\ client # "smtp"
  BY DEF FailsToClose, smtpVars, MayFail
<1>3. Busy' = Busy
  BY <1>1, <1>2 DEF Busy
<1>4. QED
  BY <1>2, <1>3 DEF Closes, FailsToClose, CloseSharedSmtpClient, smtpVars

LEMMA HandlerEnds ==
    ASSUME EndInv, Records, ExitInv, HandlerStep
    PROVE  EndInv'
<1> DEFINE step == Head(handler.left)
<1>1. /\ UNCHANGED <<kind, phase>> /\ phase # "ended" /\ handler.signal /\ handler.left # <<>>
  BY DEF HandlerStep, ExitInv
<1>2. /\ handler.left \in Seq(Steps)
      /\ Named(handler.left) \subseteq {step} \cup Named(Tail(handler.left))
  BY <1>1, NamedLeft DEF Records
<1>3. handler'.left = Tail(handler.left) /\ handler'.signal = handler.signal
  BY DEF HandlerStep, Records
<1>4. closing'.left = closing.left /\ closing'.error = closing.error
  BY DEF HandlerStep, Records
<1>5. /\ open' \subseteq open
      /\ open' \ closing'.failed \subseteq (open \ closing.failed) \ {step}
      /\ opened' = {} \/ opened' = opened
      /\ Busy' = Busy
  <2>1. CASE step = "drain"
    <3>1. UNCHANGED <<open, closing, mail, opened>>
      BY <2>1 DEF HandlerStep, smtpVars
    <3>2. step \notin open
      BY <2>1, StepsName DEF EndInv, ClosingInv
    <3>3. QED
      BY <3>1, <3>2 DEF Busy
  <2>2. CASE step # "drain" /\ Closes(step) /\ UNCHANGED closing
    BY <2>2, StepCloses
  <2>3. CASE /\ step # "drain" /\ FailsToClose(step)
             /\ closing' = [closing EXCEPT !.failed = @ \cup {step}]
    <3>1. closing'.failed = closing.failed \cup {step}
      BY <2>3 DEF Records
    <3>2. QED
      BY <2>3, <3>1, StepCloses
  <2>4. QED
    BY <2>1, <2>2, <2>3 DEF HandlerStep
<1> HIDE DEF step
<1>6. ClosingInv'
  BY <1>1, <1>2, <1>3, <1>4, <1>5 DEF EndInv, ClosingInv, EndedIsClosed
<1>7. QED
  BY <1>1, <1>6 DEF EndInv

LEMMA CloseEnds ==
    ASSUME EndInv, Records, CloseStep
    PROVE  EndInv'
<1> DEFINE client == Head(closing.left)
<1>1. UNCHANGED <<kind, phase, handler>> /\ phase = "closing" /\ closing.left # <<>>
  BY DEF CloseStep
<1>2. Named(closing.left) \subseteq {client} \cup Named(Tail(closing.left))
  BY <1>1, NamedLeft DEF Records
<1>3. closing'.left = Tail(closing.left) /\ closing'.error = closing.error
  BY DEF CloseStep, Records
<1>4. \/ Closes(client) /\ closing'.failed = closing.failed
      \/ FailsToClose(client) /\ closing'.failed = closing.failed \cup {client}
  BY DEF CloseStep, Records
<1>5. /\ open' \subseteq open
      /\ open' \ closing'.failed \subseteq (open \ closing.failed) \ {client}
      /\ opened' = {} \/ (opened' = opened /\ client # "smtp")
      /\ Busy' = Busy
  BY <1>4, StepCloses
<1> HIDE DEF client
<1>6. ClosingInv'
  BY <1>1, <1>2, <1>3, <1>5 DEF EndInv, ClosingInv, EndedIsClosed, Starting
<1>7. QED
  BY <1>1, <1>6 DEF EndInv

LEMMA EndKept == ProcessInv /\ EndInv /\ [Next]_vars => EndInv'
<1> SUFFICES ASSUME Records, ExitInv, EndInv, [Next]_vars PROVE EndInv'
  BY DEF ProcessInv
<1>1. CASE MigrateStep
  BY <1>1, EndUntouched DEF MigrateStep, smtpVars, processVars, EndVars
<1>2. CASE ProcessStep
  <2>1. CASE Tick \/ AskReady \/ ReadyLoaded
    BY <1>2, <2>1, EndUntouched DEF ProcessStep, Tick, AskReady, ReadyLoaded, smtpVars, EndVars
  <2>2. QED
    BY <1>2, <2>1, StartEnds, CreateEnds, RunEndsWell, SignalEndsNothing, EndEnds DEF ProcessStep
<1>3. CASE SendStep
  BY <1>3, SendEnds
<1>4. CASE ShutdownStep
  BY <1>4, HandlerEnds, CloseEnds DEF ShutdownStep
<1>5. CASE UNCHANGED vars
  BY <1>5, EndUntouched DEF vars, smtpVars, processVars, EndVars
<1>6. QED
  BY <1>1, <1>2, <1>3, <1>4, <1>5 DEF Next

\* Whatever kind of process it is, wherever the signal or a failure finds it, and whichever
\* closing steps fail: when it has ended, nothing it opened is open but what a step failed
\* to close, and the transport an activity opens after the run loop failed under it.
THEOREM EndsClosed == Spec => []EndedIsClosed
<1>1. ProcessInit => EndInv
  BY EndInitially
<1>2. ProcessInv /\ EndInv /\ [Next]_vars => EndInv'
  BY EndKept
<1>3. EndInv => EndedIsClosed
  BY DEF EndInv, ClosingInv
<1>4. QED
  BY <1>1, <1>2, <1>3, ProcessInvariance, PTL DEF Spec

--------------------------------------------------------------------------------
(* A signal is kept *)

DrainVars == <<kind, phase, handler>>

LEMMA DrainKept == EndInv /\ Records /\ DrainInv /\ [Next]_vars => DrainInv'
<1> SUFFICES ASSUME EndInv, Records, DrainInv, [Next]_vars PROVE DrainInv'
  OBVIOUS
<1>1. CASE UNCHANGED DrainVars \/ (phase' # "running" /\ UNCHANGED kind)
  BY <1>1 DEF DrainVars, DrainInv
<1>2. CASE MigrateStep \/ SendStep \/ CloseStep \/ UNCHANGED vars
  BY <1>1, <1>2 DEF MigrateStep, SendStep, CloseStep, vars, processVars, DrainVars
<1>3. CASE ProcessStep
  <2>1. CASE Created /\ phase' = "running"
    <3>1. handler' = [handler EXCEPT !.created = TRUE, !.drain = SignalledBefore]
      BY <2>1 DEF Created
    <3>2. handler'.created /\ handler'.signal = handler.signal /\ handler'.drain = handler.signal
      BY <3>1 DEF Records, SignalledBefore
    <3>3. QED
      BY <3>2 DEF DrainInv
  <2>2. CASE Signal
    <3>1. /\ UNCHANGED <<kind, phase>> /\ ~handler.signal
          /\ handler'.left = handler.left /\ handler'.created = handler.created
      BY <2>2 DEF Signal, Records
    <3>2. kind # "api" => "drain" \in Named(handler.left)
      <4>1. kind # "api" => handler.left = <<"listener", "drain">>
        BY <3>1 DEF EndInv, ClosingInv, HandlerSteps
      <4>2. 2 \in DOMAIN <<"listener", "drain">> /\ <<"listener", "drain">>[2] = "drain"
        OBVIOUS
      <4>3. "drain" \in Named(<<"listener", "drain">>)
        BY <4>2, Zenon DEF Named
      <4>4. QED
        BY <4>1, <4>3
    <3>3. QED
      BY <3>1, <3>2 DEF DrainInv
  <2>3. CASE Listen
    BY <1>1, <2>3 DEF Listen, Fail, FailFatally, DrainInv
  <2>4. QED
    BY <1>1, <1>3, <2>1, <2>2, <2>3
       DEF ProcessStep, Migrated, Connect, CreateFails, Created, UseClient, RunEnds, RunFails,
           FailFatally, Fail, Tick, AskReady, ReadyLoaded, Kill, WaitForHandler, End, DrainVars
<1>4. CASE HandlerStep
  <2> DEFINE step == Head(handler.left)
  <2>1. /\ UNCHANGED <<kind, phase>> /\ handler.left # <<>>
        /\ handler'.left = Tail(handler.left) /\ handler'.created = handler.created
        /\ handler'.drain = IF step = "drain" THEN handler.created ELSE handler.drain
    BY <1>4 DEF HandlerStep, Records
  <2>2. Named(handler.left) \subseteq {step} \cup Named(Tail(handler.left))
    BY <2>1, NamedLeft DEF Records
  <2> HIDE DEF step
  <2>3. handler.signal
    BY <1>4 DEF HandlerStep
  <2>4. QED
    BY <2>1, <2>2, <2>3 DEF DrainInv
<1>5. QED
  BY <1>2, <1>3, <1>4 DEF Next, ShutdownStep

\* A worker that runs when its signal handler is done has been asked to drain, whether the
\* signal came before its connection, between its connection and its worker, or later.
THEOREM SignalsAreKept == Spec => []SignalIsKept
<1>1. ProcessInit => DrainInv /\ EndInv
  BY EndInitially DEF ProcessInit, DrainInv
<1>2. ProcessInv /\ EndInv /\ [Next]_vars => EndInv'
  BY EndKept
<1>3. ProcessInv /\ EndInv /\ DrainInv /\ [Next]_vars => DrainInv'
  BY DrainKept DEF ProcessInv
<1>4. DrainInv => SignalIsKept
  BY NamedOf DEF DrainInv, SignalIsKept
<1>5. QED
  BY <1>1, <1>2, <1>3, <1>4, ProcessInvariance, PTL DEF Spec

--------------------------------------------------------------------------------
(* A worker that runs is ready *)

HealthStates == [bootstrap : {"no", "started", "completed", "failed"},
                 active : BOOLEAN, fatal : BOOLEAN]

HealthVars == <<kind, phase, open, state, readyz>>

LEMMA HealthUntouched ==
    ASSUME HealthInv, UNCHANGED HealthVars
    PROVE  HealthInv'
  BY DEF HealthVars, HealthInv, RuntimeHealthy, ReadyWhenRunning

\* A step that does not touch the answers, after which the process either is where a
\* failure leads or knows no more of a failure than before.
LEMMA HealthMoves ==
    ASSUME HealthInv, UNCHANGED <<kind, readyz>>, state' \in HealthStates,
           phase' = "listening" \/ "listener" \in open' =>
               HasHealthServer(kind) \/ kind = "api",
           \/ phase' \notin Starting \cup {"running"}
           \/ phase' \in Starting /\ phase \in Starting /\ state'.fatal = state.fatal
           \/ kind # "control"
           \/ phase' = "running" /\ RuntimeHealthy'
    PROVE  HealthInv'
  BY DEF HealthInv, HealthStates, ReadyWhenRunning, RuntimeHealthy, HasHealthServer, Starting

LEMMA FailureMarks ==
    ASSUME state \in HealthStates, FailFatally
    PROVE  state' \in HealthStates /\ phase' = "waiting"
  BY DEF FailFatally, Fail, Mark, HealthStates

LEMMA StartHealth ==
    ASSUME HealthInv, Migrated \/ Listen \/ Connect
    PROVE  HealthInv'
<1> USE DEF Starting
<1>1. state \in HealthStates /\ ("listener" \in open => HasHealthServer(kind) \/ kind = "api")
  BY DEF HealthInv, HealthStates
<1>2. CASE Migrated
  BY <1>1, <1>2, HealthMoves DEF Migrated
<1>3. CASE Listen
  <2>1. /\ UNCHANGED <<kind, readyz>> /\ phase = "listening"
        /\ HasHealthServer(kind) \/ kind = "api"
    BY <1>3 DEF Listen, HealthInv
  <2>2. CASE Fail /\ UNCHANGED state
    BY <1>1, <2>1, <2>2, HealthMoves DEF Fail
  <2>3. CASE FailFatally
    BY <1>1, <2>1, <2>3, FailureMarks, HealthMoves
  <2>4. CASE UNCHANGED state /\ phase' = IF kind = "api" THEN "running" ELSE "creating"
    BY <1>1, <2>1, <2>4, HealthMoves
  <2>5. QED
    BY <1>3, <2>2, <2>3, <2>4 DEF Listen
<1>4. CASE Connect
  <2>1. /\ UNCHANGED <<kind, readyz>> /\ phase = "creating" /\ phase' = "connected"
        /\ open' = open \cup {"connection"}
    BY <1>4 DEF Connect
  <2>2. state' \in HealthStates /\ state'.fatal = state.fatal
    BY <1>1, <1>4 DEF Connect, Mark, HealthStates
  <2>3. QED
    BY <1>1, <2>1, <2>2, HealthMoves
<1>5. QED
  BY <1>2, <1>3, <1>4

LEMMA CreateHealth ==
    ASSUME HealthInv, CreateFails \/ Created
    PROVE  HealthInv'
<1> USE DEF Starting
<1>1. state \in HealthStates /\ ("listener" \in open => HasHealthServer(kind) \/ kind = "api")
  BY DEF HealthInv, HealthStates
<1>2. CASE CreateFails
  <2>1. /\ UNCHANGED <<kind, readyz>> /\ phase' = "waiting" /\ open' \subseteq open
    BY <1>2 DEF CreateFails
  <2>2. state' \in HealthStates
    BY <1>1, <1>2 DEF CreateFails, Mark, HealthStates
  <2>3. QED
    BY <1>1, <2>1, <2>2, HealthMoves
<1>3. CASE Created
  <2> DEFINE bootstrap == IF PassesHealthState(kind) THEN "completed" ELSE state.bootstrap
  <2>1. UNCHANGED <<kind, readyz, open>> /\ phase = "connected"
    BY <1>3 DEF Created
  <2>2. bootstrap \in {"no", "started", "completed", "failed"}
    BY <1>1 DEF HealthStates
  <2>3. kind = "control" => bootstrap = "completed" /\ HasHealthServer(kind) /\ ~state.fatal
    BY <2>1 DEF PassesHealthState, HasHealthServer, HealthInv
  <2>4. \/ /\ phase' = "running"
           /\ Mark([state EXCEPT !.bootstrap = bootstrap, !.active = TRUE])
        \/ /\ phase' = "waiting"
           /\ Mark([state EXCEPT !.bootstrap = bootstrap, !.active = FALSE, !.fatal = TRUE])
    BY <1>3 DEF Created
  <2> HIDE DEF bootstrap
  <2>5. CASE phase' = "waiting"
    <3>1. state' \in HealthStates
      BY <1>1, <2>2, <2>4 DEF Mark, HealthStates
    <3>2. QED
      BY <1>1, <2>1, <2>5, <3>1, HealthMoves
  <2>6. CASE phase' = "running" /\ Mark([state EXCEPT !.bootstrap = bootstrap, !.active = TRUE])
    <3>1. state' \in HealthStates
      BY <1>1, <2>2, <2>6 DEF Mark, HealthStates
    <3>2. kind = "control" => RuntimeHealthy'
      BY <1>1, <2>3, <2>6 DEF Mark, HealthStates, RuntimeHealthy
    <3>3. QED
      BY <1>1, <2>1, <2>6, <3>1, <3>2, HealthMoves
  <2>7. QED
    BY <2>4, <2>5, <2>6
<1>4. QED
  BY <1>2, <1>3

LEMMA RunHealth ==
    ASSUME HealthInv, kind \in Kinds,
           UseClient \/ RunEnds \/ RunFails \/ Tick \/ Kill \/ Signal \/ WaitForHandler \/ End
    PROVE  HealthInv'
<1> USE DEF Starting
<1>1. state \in HealthStates /\ ("listener" \in open => HasHealthServer(kind) \/ kind = "api")
  BY DEF HealthInv, HealthStates
<1>2. CASE UseClient
  <2>1. "listener" \notin Uses(kind)
    BY WorkerProcessAssumption DEF Uses
  <2>2. /\ UNCHANGED <<kind, phase, state, readyz>> /\ phase = "running"
    BY <1>2 DEF UseClient
  <2>3. QED
    BY <1>1, <1>2, <2>1, <2>2 DEF UseClient, HealthInv, ReadyWhenRunning, RuntimeHealthy
<1>3. CASE RunEnds
  <2>1. UNCHANGED <<kind, open, readyz>> /\ phase' = "waiting"
    BY <1>3 DEF RunEnds
  <2>2. state' \in HealthStates
    BY <1>1, <1>3 DEF RunEnds, Mark, HealthStates
  <2>3. QED
    BY <1>1, <2>1, <2>2, HealthMoves
<1>4. CASE RunFails
  BY <1>1, <1>4, FailureMarks, HealthMoves DEF RunFails
<1>5. CASE Tick \/ Signal
  BY <1>5, HealthUntouched DEF Tick, Signal, HealthVars
<1>6. CASE Kill \/ WaitForHandler \/ End
  BY <1>1, <1>6, HealthMoves DEF Kill, WaitForHandler, End
<1>7. QED
  BY <1>2, <1>3, <1>4, <1>5, <1>6

\* The answer given last, and whether the process was to be ready, when it was given.
LEMMA AnswerHealth ==
    ASSUME HealthInv, Records, AskReady \/ ReadyLoaded
    PROVE  HealthInv'
<1>1. UNCHANGED <<kind, phase, open, state>>
  BY DEF AskReady, ReadyLoaded
<1>2. readyz'.loading => HasHealthServer(kind) \/ kind = "api"
  <2>1. CASE AskReady
    BY <2>1 DEF AskReady, Accepts, HealthInv
  <2>2. CASE ReadyLoaded
    BY <2>2 DEF ReadyLoaded
  <2>3. QED
    BY <2>1, <2>2
<1>3. kind # "ixc" /\ readyz'.last.should => readyz'.last.ok
  <2>1. CASE AskReady /\ Cached
    <3>1. readyz'.last.should = FALSE
      BY <2>1 DEF AskReady, Records
    <3>2. QED
      BY <3>1
  <2>2. CASE AskReady /\ ~Cached
    <3>1. readyz'.last = readyz.last
      BY <2>2 DEF AskReady, Records
    <3>2. QED
      BY <3>1 DEF HealthInv, ReadyWhenRunning
  <2>3. CASE ReadyLoaded
    <3>1. /\ readyz'.last.ok = (Up /\ (kind = "api" \/ RuntimeHealthy))
          /\ readyz'.last.should = (Up /\ phase = "running")
      BY <2>3 DEF ReadyLoaded
    <3>2. kind \in {"control", "ixc", "api"}
      BY <2>3 DEF ReadyLoaded, HealthInv, HasHealthServer
    <3>3. QED
      BY <3>1, <3>2 DEF HealthInv
  <2>4. QED
    BY <2>1, <2>2, <2>3
<1>4. RuntimeHealthy' = RuntimeHealthy
  BY <1>1 DEF RuntimeHealthy
<1>5. QED
  BY <1>1, <1>2, <1>3, <1>4 DEF HealthInv, ReadyWhenRunning, HasHealthServer

LEMMA CloseHealth ==
    ASSUME HealthInv, ShutdownStep \/ SendStep
    PROVE  HealthInv'
<1>1. UNCHANGED <<kind, phase, state, readyz>>
  BY DEF ShutdownStep, HandlerStep, CloseStep, SendStep
<1>2. open' \subseteq open \cup {"systemDb"}
  BY DEF ShutdownStep, HandlerStep, CloseStep, Closes, FailsToClose, SendStep, Sends
<1>3. QED
  BY <1>1, <1>2 DEF HealthInv, ReadyWhenRunning, RuntimeHealthy

LEMMA HealthKept == HealthInv /\ Records /\ kind \in Kinds /\ [Next]_vars => HealthInv'
<1> SUFFICES ASSUME HealthInv, Records, kind \in Kinds, [Next]_vars PROVE HealthInv'
  OBVIOUS
<1>1. CASE MigrateStep \/ UNCHANGED vars
  BY <1>1, HealthUntouched DEF MigrateStep, vars, processVars, HealthVars
<1>2. CASE ProcessStep
  BY <1>2, StartHealth, CreateHealth, RunHealth, AnswerHealth DEF ProcessStep
<1>3. CASE SendStep \/ ShutdownStep
  BY <1>3, CloseHealth
<1>4. QED
  BY <1>1, <1>2, <1>3 DEF Next

\* A process that reaches Temporal and the system database while it runs answers that it is
\* ready, unless it is the ixc worker, whose health state is not handed on to where the
\* start of its worker is marked.
THEOREM ReadyUnlessIxc ==
    ASSUME "ixc" \notin Kinds
    PROVE  Spec => []ReadyWhenRunning
<1>1. ProcessInit => HealthInv
  BY DEF ProcessInit, HealthInv, ReadyWhenRunning, NoAnswer, HasHealthServer
<1>2. ProcessInv /\ EndInv /\ HealthInv /\ [Next]_vars => HealthInv'
  BY HealthKept DEF ProcessInv, EndInv
<1>3. EndInv /\ HealthInv => ReadyWhenRunning
  BY DEF EndInv, ClosingInv, HealthInv
<1>4. ProcessInit => EndInv
  BY EndInitially
<1>5. ProcessInv /\ EndInv /\ [Next]_vars => EndInv'
  BY EndKept
<1>6. QED
  BY <1>1, <1>2, <1>3, <1>4, <1>5, ProcessInvariance, PTL DEF Spec

================================================================================
