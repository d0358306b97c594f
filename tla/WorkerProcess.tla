----------------------------- MODULE WorkerProcess -----------------------------
(***************************************************************************)
(* One process of the system from start to exit: the API server or one of  *)
(* the Temporal workers.  It migrates the schema together with the other   *)
(* processes that start, serves its health routes, connects, runs, and on  *)
(* a signal or a failure closes what it opened.  The SMTP worker sends     *)
(* through the shared pool of SmtpPool.                                    *)
(*                                                                         *)
(* A signal reaches the process between two awaits only.  The health       *)
(* server listens on an address (its default is 0.0.0.0), so no signal     *)
(* comes between listen and listening.                                     *)
(***************************************************************************)
EXTENDS Migrations, SmtpPool

CONSTANTS
    Main,        \* the process looked at; the others only migrate
    Kinds,       \* what it may be started as
    Together,    \* bound: the kinds looked at while other processes start
    CacheTTL,    \* HEALTH_READINESS_CACHE_TTL_MS, in ticks
    MaxNow,      \* bound of the clock
    MaxFailures  \* bound of the failures of one process

ASSUME WorkerProcessAssumption ==
    /\ Main \in Processes
    /\ Kinds \subseteq {"control", "ixc", "smtp", "erp-read", "opa", "api"}
    /\ Together \subseteq Kinds
    /\ CacheTTL \in Nat /\ MaxNow \in Nat /\ MaxFailures \in Nat

VARIABLES
    kind,
    phase,     \* how far the process is
    open,      \* what it has to close: listener, connection, shared clients
    closing,   \* closing steps left to do, and those that failed
    handler,   \* the signal handler
    state,     \* WorkerHealthState
    exitCode,
    readyz,    \* the health cache, the load in flight and the last answer
    now,
    upAt,      \* the last tick in which Temporal and the system database answered
    failures

processVars == <<kind, phase, open, closing, handler, state, exitCode, readyz, now, upAt, failures>>
vars == <<migrationVars, smtpVars, processVars>>

--------------------------------------------------------------------------------
(* What the kinds of process have in common and where they differ *)

HasHealthServer(k) == k \in {"control", "ixc"}

\* The health state reaches createTemporalWorker only where createWorker hands it on.
PassesHealthState(k) == k = "control"

\* Shared clients the kind's activities, or routes, use; they are made when first used.
Uses(k) ==
    CASE k \in {"control", "ixc"} -> {"systemDb", "http"}
      [] k = "smtp" -> {"systemDb"}
      [] k = "erp-read" -> {"erpDb"}
      [] k = "opa" -> {"http"}
      [] k = "api" -> {"systemDb", "erpDb", "http"}

\* Mutant: a new shared client, and a worker that does not close it.
StepsWithoutDb(k) ==
    CASE k \in {"control", "ixc"} -> <<"listener", "http", "connection">>
      [] k = "smtp" -> <<"listener", "smtp", "systemDb", "connection">>
      [] k = "erp-read" -> <<"listener", "erpDb", "connection">>
      [] k = "opa" -> <<"listener", "http", "connection">>
      [] k = "api" -> <<"listener", "systemDb", "erpDb", "http">>

ShutdownSteps(k) ==
    CASE k \in {"control", "ixc"} -> <<"listener", "systemDb", "http", "connection">>
      [] k = "smtp" -> <<"listener", "smtp", "systemDb", "connection">>
      [] k = "erp-read" -> <<"listener", "erpDb", "connection">>
      [] k = "opa" -> <<"listener", "http", "connection">>
      [] k = "api" -> <<"listener", "systemDb", "erpDb", "http">>

HandlerSteps(k) == IF k = "api" THEN ShutdownSteps(k) ELSE <<"listener", "drain">>

Closable == {"listener", "connection", "systemDb", "http", "erpDb"}

Steps == Closable \cup {"smtp", "drain"}

\* Pools and connections end with a round trip; a listener, agents and transports do not.
MayFail == {"connection", "systemDb", "erpDb"}

NoAnswer == [ok |-> FALSE, lag |-> 0, should |-> FALSE]

ProcessTypeOK ==
    /\ MigrationsTypeOK
    /\ SmtpTypeOK
    /\ kind \in Kinds
    /\ phase \in {"migrating", "listening", "creating", "connected", "running", "waiting",
                  "closing", "ended", "killed"}
    /\ open \subseteq Closable
    /\ closing \in [left : Seq(Steps), failed : SUBSET MayFail, error : BOOLEAN]
    /\ handler \in [registered : BOOLEAN, signal : BOOLEAN, left : Seq(Steps),
                    created : BOOLEAN, drain : BOOLEAN]
    /\ state \in [bootstrap : {"no", "started", "completed", "failed"},
                  active : BOOLEAN, fatal : BOOLEAN]
    /\ exitCode \in {"unset", "0", "1"}
    /\ readyz \in [ok : BOOLEAN, expires : 0..(MaxNow + CacheTTL), loading : BOOLEAN,
                   last : [ok : BOOLEAN, lag : 0..MaxNow, should : BOOLEAN]]
    /\ now \in 0..MaxNow /\ upAt \in 0..now /\ failures \in 0..MaxFailures

ProcessInit ==
    /\ MigrationsInit
    /\ SmtpInit
    /\ kind \in Kinds
    /\ phase = "migrating"
    /\ open = {}
    /\ closing = [left |-> ShutdownSteps(kind), failed |-> {}, error |-> FALSE]
    /\ handler = [registered |-> FALSE, signal |-> FALSE, left |-> HandlerSteps(kind),
                  created |-> FALSE, drain |-> FALSE]
    /\ state = [bootstrap |-> "no", active |-> FALSE, fatal |-> FALSE]
    /\ exitCode = "unset"
    /\ readyz = [ok |-> FALSE, expires |-> 0, loading |-> FALSE, last |-> NoAnswer]
    /\ now = 0
    /\ upAt = 0
    /\ failures = 0

Fault == failures < MaxFailures /\ failures' = failures + 1

NoFault == UNCHANGED failures

\* healthState?.mark...: only the workers with a health server keep one.
Mark(marked) == state' = IF HasHealthServer(kind) THEN marked ELSE state

--------------------------------------------------------------------------------
(* Start *)

Starts(p) == IF p = Main THEN phase = "migrating" ELSE kind \in Together

MigrateStep ==
    /\ \E p \in Processes : Starts(p) /\ (Migrate(p) \/ Break(p))
    /\ UNCHANGED <<smtpVars, processVars>>

\* The signal handler is registered after the migrations and before anything is opened.
Migrated ==
    /\ phase = "migrating" /\ at[Main] = "done"
    /\ phase' = IF HasHealthServer(kind) \/ kind = "api" THEN "listening" ELSE "creating"
    /\ handler' = [handler EXCEPT !.registered = TRUE]
    /\ UNCHANGED <<kind, open, closing, state, exitCode, readyz, now, upAt, failures>>

\* The catch and finally blocks: the error is kept for the end, and from here on a
\* signal is no longer handled.
Fail ==
    /\ closing' = [closing EXCEPT !.error = TRUE]
    /\ handler' = [handler EXCEPT !.registered = FALSE]
    /\ phase' = "waiting"

FailFatally == Fail /\ Mark([state EXCEPT !.active = FALSE, !.fatal = TRUE])

\* A listen that a signal's close overtakes is refused.
Listen ==
    /\ phase = "listening"
    /\ IF handler.signal
       THEN Fail /\ NoFault /\ UNCHANGED <<open, state>>
       ELSE \/ /\ open' = open \cup {"listener"}
               /\ phase' = IF kind = "api" THEN "running" ELSE "creating"
               /\ NoFault
               /\ UNCHANGED <<closing, handler, state>>
            \/ /\ Fault
               /\ IF kind = "api" THEN Fail /\ UNCHANGED state ELSE FailFatally
               /\ UNCHANGED open
    /\ UNCHANGED <<kind, exitCode, readyz, now, upAt>>

Connect ==
    /\ phase = "creating"
    /\ IF PassesHealthState(kind) THEN Mark([state EXCEPT !.bootstrap = "started"]) ELSE UNCHANGED state
    /\ phase' = "connected"
    /\ open' = open \cup {"connection"}
    /\ UNCHANGED <<kind, closing, handler, exitCode, readyz, now, upAt, failures>>

\* createTemporalWorker gives up and closes its own connection, which its caller never saw.
CreateFails ==
    /\ phase \in {"creating", "connected"}
    /\ Fault
    /\ phase' = "waiting"
    /\ handler' = [handler EXCEPT !.registered = FALSE]
    /\ \E closed \in {open \ {"connection"}, open} :
          /\ open' = closed
          /\ closing' = [closing EXCEPT !.error = TRUE, !.failed = closed \cap {"connection"}]
    /\ IF PassesHealthState(kind)
       THEN Mark([state EXCEPT !.bootstrap = "failed", !.fatal = TRUE, !.active = FALSE])
       ELSE Mark([state EXCEPT !.fatal = TRUE, !.active = FALSE])
    /\ UNCHANGED <<kind, exitCode, readyz, now, upAt>>

\* Mutant: the signal that came too early for its handler is not looked at again.
SignalForgotten == FALSE

SignalledBefore == handler.signal

\* The worker is created and run at once, without an await between: a signal that came
\* before asks it to shut down before it runs, which the SDK may refuse with an error.
Created ==
    /\ phase = "connected"
    /\ LET bootstrap == IF PassesHealthState(kind) THEN "completed" ELSE state.bootstrap
       IN  \/ /\ phase' = "running"
              /\ Mark([state EXCEPT !.bootstrap = bootstrap, !.active = TRUE])
              /\ handler' = [handler EXCEPT !.created = TRUE, !.drain = SignalledBefore]
              /\ UNCHANGED closing
           \/ /\ SignalledBefore
              /\ phase' = "waiting"
              /\ Mark([state EXCEPT !.bootstrap = bootstrap, !.active = FALSE, !.fatal = TRUE])
              /\ handler' = [handler EXCEPT !.created = TRUE, !.drain = TRUE,
                                                  !.registered = FALSE]
              /\ closing' = [closing EXCEPT !.error = TRUE]
    /\ UNCHANGED <<kind, open, exitCode, readyz, now, upAt, failures>>

--------------------------------------------------------------------------------
(* Running *)

\* An activity or a route makes a shared client.
UseClient ==
    /\ phase = "running" /\ ~handler.signal
    /\ \E client \in Uses(kind) \ open : open' = open \cup {client}
    /\ UNCHANGED <<kind, phase, closing, handler, state, exitCode, readyz, now, upAt, failures>>

\* The worker runs its activities to their end before run() returns.
RunEnds ==
    /\ phase = "running" /\ kind # "api"
    /\ handler.drain /\ Busy = {}
    /\ Mark([state EXCEPT !.active = FALSE])
    /\ phase' = "waiting"
    /\ handler' = [handler EXCEPT !.registered = FALSE]
    /\ UNCHANGED <<kind, open, closing, exitCode, readyz, now, upAt, failures>>

RunFails ==
    /\ phase = "running" /\ kind # "api"
    /\ Fault
    /\ FailFatally
    /\ UNCHANGED <<kind, open, exitCode, readyz, now, upAt>>

Tick ==
    /\ now < MaxNow /\ "listener" \in open
    /\ now' = now + 1
    /\ upAt' \in {upAt, now + 1}
    /\ UNCHANGED <<kind, phase, open, closing, handler, state, exitCode, readyz, failures>>

--------------------------------------------------------------------------------
(* GET /readyz.  The listener takes no request once close() was called. *)

Accepts == "listener" \in open /\ ~handler.signal /\ phase \in {"creating", "connected", "running"}

\* isWorkerRuntimeHealthy
RuntimeHealthy == state.bootstrap = "completed" /\ state.active /\ ~state.fatal

\* Mutant: an answer is kept until it changes.
KeptForGood == readyz.expires > 0

Cached == readyz.expires > now

Up == upAt = now

\* getCached: the cached answer, or the load in flight, or a new load.
AskReady ==
    /\ Accepts
    /\ IF Cached
       THEN readyz' = [readyz EXCEPT !.last = [ok |-> readyz.ok, lag |-> now - upAt, should |-> FALSE]]
       ELSE readyz' = [readyz EXCEPT !.loading = TRUE]
    /\ UNCHANGED <<kind, phase, open, closing, handler, state, exitCode, now, upAt, failures>>

\* The checks are done, the snapshot of the worker is taken after them.
ReadyLoaded ==
    /\ readyz.loading
    /\ phase \notin {"ended", "killed"}
    /\ LET ok == Up /\ (kind = "api" \/ RuntimeHealthy)
       IN  readyz' = [ok |-> ok, expires |-> now + CacheTTL, loading |-> FALSE,
                      last |-> [ok |-> ok, lag |-> now - upAt, should |-> Up /\ phase = "running"]]
    /\ UNCHANGED <<kind, phase, open, closing, handler, state, exitCode, now, upAt, failures>>

--------------------------------------------------------------------------------
(* Shutdown *)

\* The default action of a signal nobody handles.
Kill ==
    /\ ~handler.registered
    /\ phase \notin {"ended", "killed"}
    /\ phase' = "killed"
    /\ UNCHANGED <<kind, open, closing, handler, state, exitCode, readyz, now, upAt, failures>>

\* The first signal; a repeated one is ignored.
Signal ==
    /\ handler.registered /\ ~handler.signal
    /\ ~(phase = "listening" /\ kind # "api")
    /\ handler' = [handler EXCEPT !.signal = TRUE]
    /\ exitCode' = "0"
    /\ UNCHANGED <<kind, phase, open, closing, state, readyz, now, upAt, failures>>

\* A step of runShutdownSteps that closes something.  close() waits for the requests
\* being answered; a shared client is forgotten before its pool is ended, so no later
\* step ends it again.
Closes(client) ==
    /\ client = "listener" => ~readyz.loading
    /\ open' = open \ ({client} \ closing.failed)
    /\ NoFault
    /\ IF client = "smtp" THEN CloseSharedSmtpClient ELSE UNCHANGED smtpVars

FailsToClose(client) ==
    /\ client \in (MayFail \cap open) \ closing.failed
    /\ Fault
    /\ UNCHANGED <<open, smtpVars>>

\* requestWorkerShutdown: nothing to drain yet, or asked before; a worker that failed
\* refuses, and with it the handler.
DrainRefused == handler.created /\ ~handler.drain /\ phase # "running"

HandlerStep ==
    /\ handler.signal /\ handler.left # <<>>
    /\ LET step == Head(handler.left)
           next == [handler EXCEPT !.left = Tail(handler.left)]
       IN  IF step = "drain"
           THEN /\ handler' = [next EXCEPT !.drain = handler.created]
                /\ exitCode' = IF DrainRefused THEN "1" ELSE exitCode
                /\ UNCHANGED <<open, closing, failures, smtpVars>>
           ELSE /\ handler' = next
                /\ \/ Closes(step) /\ UNCHANGED <<closing, exitCode>>
                   \/ /\ FailsToClose(step)
                      /\ closing' = [closing EXCEPT !.failed = @ \cup {step}]
                      /\ exitCode' = "1"
    /\ phase # "killed"
    /\ UNCHANGED <<kind, phase, state, readyz, now, upAt>>

HandlerDone == handler.signal => handler.left = <<>>

\* finally: the worker waits for the handler; the API, whose listen failed, does not.
WaitForHandler ==
    /\ phase = "waiting"
    /\ kind = "api" \/ HandlerDone
    /\ phase' = "closing"
    /\ UNCHANGED <<kind, open, closing, handler, state, exitCode, readyz, now, upAt, failures>>

\* Every step is run, whatever became of the ones before it.
CloseStep ==
    /\ phase = "closing" /\ closing.left # <<>>
    /\ LET client == Head(closing.left)
           next == [closing EXCEPT !.left = Tail(closing.left)]
       IN  \/ Closes(client) /\ closing' = next
           \/ FailsToClose(client) /\ closing' = [next EXCEPT !.failed = @ \cup {client}]
    /\ UNCHANGED <<kind, phase, handler, state, exitCode, readyz, now, upAt>>

\* Mutant: the exit code of the signal stands.
SignalCode == exitCode

FinalCode == IF closing.error \/ closing.failed # {} THEN "1" ELSE exitCode

\* The API's handler is all that keeps it going; a worker goes through its finally block.
End ==
    /\ \/ phase = "closing" /\ closing.left = <<>> /\ HandlerDone
       \/ phase = "running" /\ kind = "api" /\ handler.signal /\ HandlerDone
    /\ phase' = "ended"
    /\ exitCode' = FinalCode
    /\ UNCHANGED <<kind, open, closing, handler, state, readyz, now, upAt, failures>>

--------------------------------------------------------------------------------
(* Specification *)

Sends ==
    \/ /\ kind = "smtp" /\ phase = "running" /\ ~handler.drain
       /\ \E m \in Mails : BeginSend(m)
       /\ open' = open \cup {"systemDb"}
    \/ /\ phase \notin {"ended", "killed"}
       /\ SmtpStep
       /\ UNCHANGED open

SendStep ==
    /\ Sends
    /\ UNCHANGED <<kind, phase, closing, handler, state, exitCode, readyz, now, upAt, failures>>

ProcessStep ==
    /\ \/ Migrated \/ Listen \/ Connect \/ CreateFails \/ Created
       \/ UseClient \/ RunEnds \/ RunFails \/ Tick \/ AskReady \/ ReadyLoaded
       \/ Kill \/ Signal \/ WaitForHandler \/ End
    /\ UNCHANGED smtpVars

ShutdownStep == HandlerStep \/ CloseStep

Next ==
    \/ MigrateStep
    \/ (ProcessStep \/ SendStep \/ ShutdownStep) /\ UNCHANGED migrationVars

Spec == ProcessInit /\ [][Next]_vars

\* Every await ends: a listen, a connect, a check and a close answer or fail, an
\* activity that was started ends, and the supervisor starts a process that could not
\* migrate again.  Signals, failures and new requests are not due to come.
Due ==
    \/ /\ \E p \in Processes : Starts(p) /\ Migrate(p)
       /\ UNCHANGED <<smtpVars, processVars>>
    \/ /\ Migrated \/ Listen \/ Connect \/ Created \/ RunEnds \/ ReadyLoaded
          \/ WaitForHandler \/ End
       /\ UNCHANGED <<smtpVars, migrationVars>>
    \/ /\ ShutdownStep \/ (SmtpStep /\ SendStep)
       /\ UNCHANGED migrationVars

FairSpec == Spec /\ WF_vars(Due)

--------------------------------------------------------------------------------
(* Properties *)

\* A process that ended has closed what it and its handler opened, whenever the signal
\* or the failure came; only what a step failed to close is left, and the transport an
\* activity makes after the run loop failed under it.
EndedIsClosed ==
    phase = "ended" => /\ open \subseteq closing.failed
                       /\ opened = {} \/ closing.error

\* Exit code 0 is for a shutdown that was asked for and in which nothing failed, though
\* the handler, the catch block and the entry point set it in any order.
ExitCodeIsTrue ==
    phase = "ended" => (exitCode = "0" <=> ~closing.error /\ closing.failed = {})

\* Whoever is told "ready" is told so of dependencies that answered within the cache's
\* time to live, though requests share loads and answers begun by others.
ReadyIsRecent == readyz.last.ok => readyz.last.lag <= CacheTTL

\* A worker that runs and reaches Temporal and the system database is ready.
ReadyWhenRunning == readyz.last.should => readyz.last.ok

\* After a signal the process ends: nothing it waits for waits for it.
SignalEnds == handler.signal ~> phase \in {"ended", "killed"}

\* Processes that race for the same ALTER fail, start again and get through.
EveryoneMigrates == <>(\A p \in Processes : Starts(p) => at[p] = "done")

\* The strengthening that makes ExitCodeIsTrue inductive.  While nothing failed, the exit
\* code is 0 from the signal on; the run ends because of a failure or of the signal; and a
\* worker that can no longer be drained was drained before, or failed.
ExitInv ==
    /\ handler.signal /\ ~closing.error /\ closing.failed = {} => exitCode = "0"
    /\ phase \in {"waiting", "closing"} =>
          (closing.error \/ handler.signal) /\ ~handler.registered
    /\ handler.drain => handler.signal
    /\ handler.created /\ ~handler.drain =>
          closing.error \/ phase \in {"running", "ended", "killed"}
    /\ phase = "ended" =>
          (handler.signal /\ handler.left = <<>>) \/ (~handler.signal /\ ~handler.registered)
    /\ ExitCodeIsTrue

\* The cache never holds an answer longer than its time to live.
CacheInv ==
    /\ readyz.ok => readyz.expires <= upAt + CacheTTL
    /\ ReadyIsRecent

\* What ReadyWhenRunning rests on in every process but the ixc worker: only a process that
\* serves health routes is asked, and the state the control worker is handed tells of its
\* start and of its run.
HealthInv ==
    /\ state \in [bootstrap : {"no", "started", "completed", "failed"},
                  active : BOOLEAN, fatal : BOOLEAN]
    /\ phase = "listening" \/ "listener" \in open \/ readyz.loading =>
          HasHealthServer(kind) \/ kind = "api"
    /\ kind = "control" =>
          /\ phase \in {"migrating", "listening", "creating", "connected"} => ~state.fatal
          /\ phase = "running" => RuntimeHealthy
    /\ kind # "ixc" => ReadyWhenRunning

\* The strengthening that makes EndedIsClosed inductive.  What is open is named by the
\* steps its kind of process takes; of these the finally block, or the handler of the API,
\* still has those to take that can close what is left, and no activity is under way that
\* could open another transport, unless the run loop failed.
Named(steps) == {steps[i] : i \in DOMAIN steps}

Starting == {"migrating", "listening", "creating", "connected"}

ClosingInv ==
    /\ open \subseteq Named(ShutdownSteps(kind))
    /\ kind = "api" => phase \notin {"creating", "connected"}
    /\ phase \in Starting \cup {"running", "waiting"} => closing.left = ShutdownSteps(kind)
    /\ ~handler.signal => handler.left = HandlerSteps(kind)
    /\ phase = "closing" => open \ closing.failed \subseteq Named(closing.left)
    /\ kind = "api" /\ phase = "running" /\ handler.signal =>
          open \ closing.failed \subseteq Named(handler.left)
    /\ kind # "smtp" \/ phase \in Starting => opened = {} /\ Busy = {}
    /\ phase \in {"waiting", "closing", "ended"} /\ ~closing.error => Busy = {}
    /\ phase = "closing" /\ ~closing.error => opened = {} \/ "smtp" \in Named(closing.left)
    /\ EndedIsClosed

\* What SignalEnds rests on: a signal is not forgotten, though it may come before there is
\* a worker to drain and the worker is made after the handler looked for it: a worker that
\* runs when the handler is done has been asked to drain.
SignalIsKept ==
    handler.signal /\ handler.left = <<>> /\ phase = "running" /\ kind # "api" => handler.drain

\* Until the worker is drained the handler has the step to take that drains it.
DrainInv ==
    phase = "running" /\ kind # "api" =>
        /\ handler.created
        /\ handler.signal => handler.drain \/ "drain" \in Named(handler.left)

================================================================================
