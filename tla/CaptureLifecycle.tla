-------------------------- MODULE CaptureLifecycle --------------------------
(***************************************************************************)
(* The capture lifecycle of the engine (internal/pipeline/pipeline.go):    *)
(* Start, StartCapture, StopCapture, StartInterface, StopInterface and the *)
(* goroutine that startInterfaceLocked launches for every generation of a  *)
(* capture session.                                                        *)
(*                                                                         *)
(* A region of code that runs under lifecycleMu is one action; the wait on *)
(* the done channels, which happens with the mutex released, separates the *)
(* two regions of a Stop call.  Operators are the concurrent callers: HTTP *)
(* control handlers and the federation client.  Watcher is the goroutine   *)
(* of Engine.Start that calls StopCapture when the root context is done.   *)
(* Timestamps are reduced to "set or nil"; lastError is left out.          *)
(***************************************************************************)
EXTENDS Naturals, FiniteSets

CONSTANTS Interfaces,   \* names of the configured or discovered interfaces
          Operators,    \* concurrent callers of the control operations
          Watcher,      \* the goroutine waiting on the root context
          MaxGen        \* bound on the generations of one session

ASSUME LifecycleAssumption ==
         /\ Interfaces # {}
         /\ Watcher \notin Operators
         /\ MaxGen \in Nat \ {0}

VARIABLES root,            \* rootCtx: "none" before Start, "open", "closed"
          running,         \* the sessions with cs.running
          stopping,        \* the sessions with cs.stopping
          generation,      \* cs.generation
          goroutine,       \* phase of the goroutine of each run
          cancelled,       \* the runs whose cs.cancel has been called
          captureRunning,  \* e.captureRunning
          captureStopped,  \* e.captureStopped # nil
          call             \* what each caller is doing

session == <<running, stopping, generation, goroutine, cancelled>>
summary == <<captureRunning, captureStopped>>
vars == <<root, session, summary, call>>

Callers == Operators \cup {Watcher}
Runs == Interfaces \X (1..MaxGen)     \* a run is an interface and a generation
Phases == {"none", "capturing", "returned", "unlocked", "closed"}

\* The socket is held while the goroutine is inside capture.Source.Run.
Capturing == {r \in Runs : goroutine[r] = "capturing"}
CtxErr(r) == root = "closed" \/ r \in cancelled
CurrentRuns(S) == {r \in Runs : r[1] \in S /\ r[2] = generation[r[1]]}

Idle == [op |-> "idle", on |-> {}, waits |-> {}, saw |-> {}]

Init ==
  /\ root = "none"
  /\ running = {} /\ stopping = {} /\ cancelled = {}
  /\ generation = [i \in Interfaces |-> 0]
  /\ goroutine = [r \in Runs |-> "none"]
  /\ captureRunning = FALSE /\ captureStopped = FALSE
  /\ call = [c \in Callers |-> Idle]

-----------------------------------------------------------------------------

\* startInterfaceLocked for every session of S.
StartRuns(S) ==
  /\ \A i \in S : generation[i] < MaxGen
  /\ running' = running \cup S
  /\ stopping' = stopping \ S
  /\ generation' = [i \in Interfaces |->
                      IF i \in S THEN generation[i] + 1 ELSE generation[i]]
  /\ goroutine' = [r \in Runs |->
                     IF r[1] \in S /\ r[2] = generation[r[1]] + 1
                       THEN "capturing" ELSE goroutine[r]]
  /\ UNCHANGED cancelled

\* Every session is idle or running: start the idle ones and publish it.
StartAll ==
  /\ stopping = {}
  /\ StartRuns(Interfaces \ running)
  /\ captureRunning' = (running' # {})
  /\ captureStopped' = (captureStopped /\ running' = {})

\* The map is visited in any order and the first stopping session ends the
\* call with an error: the sessions visited before it have been started and
\* the summary fields are not recomputed.
StartSomeThenFail ==
  /\ stopping # {}
  /\ \E S \in SUBSET (Interfaces \ (running \cup stopping)) : StartRuns(S)
  /\ UNCHANGED summary

\* Engine.Start: main calls it once, before any operator can exist; when no
\* session can be created the process exits, which is not modelled.
EngineStart ==
  /\ root = "none"
  /\ root' = "open"
  /\ StartAll
  /\ UNCHANGED call

\* Mutant: the rootCtx.Err() check is missing.
StartCaptureAfterClose(c) ==
  /\ root # "none" /\ call[c] = Idle
  /\ StartAll \/ StartSomeThenFail
  /\ UNCHANGED <<root, call>>

StartCapture(c) ==
  /\ root = "open" /\ call[c] = Idle
  /\ StartAll \/ StartSomeThenFail
  /\ UNCHANGED <<root, call>>

\* Mutant: an interface that is already running is started again.
StartInterfaceTwice(c, i) ==
  /\ root = "open" /\ call[c] = Idle
  /\ i \notin stopping
  /\ StartRuns({i})
  /\ captureRunning' = TRUE /\ captureStopped' = FALSE
  /\ UNCHANGED <<root, call>>

StartInterface(c, i) ==
  /\ root = "open" /\ call[c] = Idle
  /\ i \notin stopping
  /\ StartRuns({i} \ running)
  /\ captureRunning' = (running' # {})
  /\ captureStopped' = FALSE
  /\ UNCHANGED <<root, call>>

-----------------------------------------------------------------------------
\* Mutant: the flags change but cs.cancel is not called.
CancelRunsForgetsCancel(c, op, S, scope) ==
  /\ running' = running \ S
  /\ stopping' = stopping \cup S
  /\ call' = [call EXCEPT ![c] =
                [op |-> op, on |-> scope, waits |-> CurrentRuns(S),
                 saw |-> {r \in Capturing : r[1] \in scope}]]
  /\ UNCHANGED <<root, generation, goroutine, cancelled>>

\* The first region of a Stop call on the sessions S: flag them, cancel their
\* contexts, and remember the done channels to wait for.  "saw" records, for
\* the properties, the goroutines inside Run when the call was made.
CancelRuns(c, op, S, scope) ==
  /\ running' = running \ S
  /\ stopping' = stopping \cup S
  /\ cancelled' = cancelled \cup CurrentRuns(S)
  /\ call' = [call EXCEPT ![c] =
                [op |-> op, on |-> scope, waits |-> CurrentRuns(S),
                 saw |-> {r \in Capturing : r[1] \in scope}]]
  /\ UNCHANGED <<root, generation, goroutine>>

\* The watcher calls StopCapture once, when the root context is done.
StopCaptureBegin(c) ==
  /\ root # "none" /\ call[c] = Idle
  /\ c = Watcher => root = "closed"
  /\ CancelRuns(c, "stopCapture", running, Interfaces)
  /\ captureRunning' = FALSE
  /\ captureStopped' = TRUE

\* The call returns: its record is kept for one state in which the caller
\* sees the result.
Returned(c, op) == [call[c] EXCEPT !.op = op]
ReturnedOps == {"captureStopped", "interfaceStopped"}

AllClosed(c) == \A r \in call[c].waits : goroutine[r] = "closed"

\* Every session's flag is cleared, also those another call is waiting for.
StopCaptureEnd(c) ==
  /\ call[c].op = "stopCapture"
  /\ AllClosed(c)
  /\ stopping' = {}
  /\ call' = [call EXCEPT ![c] = Returned(c, "captureStopped")]
  /\ UNCHANGED <<root, running, generation, goroutine, cancelled, summary>>

StopInterfaceBegin(c, i) ==
  /\ root # "none" /\ call[c] = Idle
  /\ i \in running
  /\ CancelRuns(c, "stopInterface", {i}, {i})
  /\ captureRunning' = (running' # {})
  /\ captureStopped' = (captureStopped \/ running' = {})

\* Mutant: the call returns without waiting for done.
StopInterfaceEndAtOnce(c) ==
  /\ call[c].op = "stopInterface"
  /\ stopping' = stopping \ call[c].on
  /\ call' = [call EXCEPT ![c] = Returned(c, "interfaceStopped")]
  /\ UNCHANGED <<root, running, generation, goroutine, cancelled, summary>>

StopInterfaceEnd(c) ==
  /\ call[c].op = "stopInterface"
  /\ AllClosed(c)
  /\ stopping' = stopping \ call[c].on
  /\ call' = [call EXCEPT ![c] = Returned(c, "interfaceStopped")]
  /\ UNCHANGED <<root, running, generation, goroutine, cancelled, summary>>

\* Another call is stopping the interface: wait for the same done channel.
StopInterfaceJoin(c, i) ==
  /\ root # "none" /\ call[c] = Idle
  /\ i \in stopping
  /\ call' = [call EXCEPT ![c] =
                [op |-> "join", on |-> {i}, waits |-> CurrentRuns({i}),
                 saw |-> {r \in Capturing : r[1] = i}]]
  /\ UNCHANGED <<root, session, summary>>

StopInterfaceJoined(c) ==
  /\ call[c].op = "join"
  /\ AllClosed(c)
  /\ call' = [call EXCEPT ![c] = Returned(c, "interfaceStopped")]
  /\ UNCHANGED <<root, session, summary>>

\* Neither running nor stopping: return at once.
StopInterfaceIdle(c, i) ==
  /\ root # "none" /\ call[c] = Idle
  /\ i \notin running \cup stopping
  /\ call' = [call EXCEPT ![c] =
                [op |-> "interfaceStopped", on |-> {i}, waits |-> {},
                 saw |-> {r \in Capturing : r[1] = i}]]
  /\ UNCHANGED <<root, session, summary>>

\* The handler writes its reply and is ready for the next request.
Reply(c) ==
  /\ call[c].op \in ReturnedOps
  /\ call' = [call EXCEPT ![c] = Idle]
  /\ UNCHANGED <<root, session, summary>>

-----------------------------------------------------------------------------
\* Run returns: its context is done, or the socket failed.
RunReturns(r) ==
  /\ goroutine[r] = "capturing"
  /\ goroutine' = [goroutine EXCEPT ![r] = "returned"]
  /\ UNCHANGED <<root, running, stopping, generation, cancelled, summary, call>>

\* Mutant: a run that failed leaves the session marked as running.
EpilogueKeepsRunning(r) ==
  /\ goroutine[r] = "returned"
  /\ goroutine' = [goroutine EXCEPT ![r] = "unlocked"]
  /\ UNCHANGED <<root, running, stopping, generation, cancelled, summary, call>>

\* The region under lifecycleMu after Run.
Epilogue(r) ==
  /\ goroutine[r] = "returned"
  /\ goroutine' = [goroutine EXCEPT ![r] = "unlocked"]
  /\ IF r[2] # generation[r[1]]
       THEN UNCHANGED <<running, stopping, summary>>
       ELSE /\ running' = IF CtxErr(r) THEN running ELSE running \ {r[1]}
            /\ stopping' = IF CtxErr(r) THEN stopping ELSE stopping \ {r[1]}
            /\ captureRunning' = (running' # {})
            /\ captureStopped' = (captureStopped \/ running' = {})
  /\ UNCHANGED <<root, generation, cancelled, call>>

\* The deferred close(done), which runs after the deferred Unlock.
CloseDone(r) ==
  /\ goroutine[r] = "unlocked"
  /\ goroutine' = [goroutine EXCEPT ![r] = "closed"]
  /\ UNCHANGED <<root, running, stopping, generation, cancelled, summary, call>>

\* SIGINT, SIGTERM or a failed web server cancels the root context.
Shutdown ==
  /\ root = "open"
  /\ root' = "closed"
  /\ UNCHANGED <<session, summary, call>>

-----------------------------------------------------------------------------
OperatorStep(c) ==
  \/ StartCapture(c)
  \/ \E i \in Interfaces : \/ StartInterface(c, i)
                           \/ StopInterfaceBegin(c, i)
                           \/ StopInterfaceJoin(c, i)
                           \/ StopInterfaceIdle(c, i)
  \/ StopInterfaceEnd(c)
  \/ StopInterfaceJoined(c)
  \/ Reply(c)

Next ==
  \/ EngineStart
  \/ Shutdown
  \/ \E c \in Callers : StopCaptureBegin(c) \/ StopCaptureEnd(c)
  \/ \E c \in Operators : OperatorStep(c)
  \/ \E r \in Runs : RunReturns(r) \/ Epilogue(r) \/ CloseDone(r)

Spec == Init /\ [][Next]_vars

\* Run polls its context between two receives with a one second timeout, so a
\* cancelled run returns; goroutines blocked on the mutex or on a closed
\* channel proceed.  Operators and the environment are not fair.
Fairness ==
  /\ \A r \in Runs : /\ WF_vars(CtxErr(r) /\ RunReturns(r))
                     /\ WF_vars(Epilogue(r))
                     /\ WF_vars(CloseDone(r))
  /\ \A c \in Callers : WF_vars(StopCaptureEnd(c))
  /\ \A c \in Operators : WF_vars(StopInterfaceEnd(c) \/ StopInterfaceJoined(c))
  /\ WF_vars(StopCaptureBegin(Watcher))

FairSpec == Spec /\ Fairness

-----------------------------------------------------------------------------
CallType == [op : {"idle", "stopCapture", "stopInterface", "join"} \cup ReturnedOps,
             on : SUBSET Interfaces, waits : SUBSET Runs, saw : SUBSET Runs]

\* The types of the session fields, the goroutines and the pending calls.
TypeOK ==
  /\ root \in {"none", "open", "closed"}
  /\ running \in SUBSET Interfaces
  /\ stopping \in SUBSET Interfaces
  /\ generation \in [Interfaces -> 0..MaxGen]
  /\ goroutine \in [Runs -> Phases]
  /\ cancelled \in SUBSET Runs
  /\ captureRunning \in BOOLEAN
  /\ captureStopped \in BOOLEAN
  /\ call \in [Callers -> CallType]

\* No capture goroutine escapes the controls: one that has not been cancelled
\* and has not finished belongs to the current generation of a session marked
\* running, so the next StopCapture or StopInterface cancels it.  It relates
\* the flags of startInterfaceLocked, the two regions of the Stop calls and
\* the epilogue's generation check.
NoOrphan ==
  \A r \in Runs :
    goroutine[r] \in {"capturing", "returned"} /\ r \notin cancelled
      => r[1] \in running /\ r[2] = generation[r[1]]

\* A session shown as running really has an uncancelled goroutine that is in
\* Run or about to take the mutex: Status never reports a capture that died.
\* (Between the end of the root context and the watcher's StopCapture the flag
\* may outlive the goroutine.)
RunningIsAlive ==
  root # "closed" => \A i \in running :
    \E r \in Runs : /\ r[1] = i /\ r[2] = generation[i]
                    /\ goroutine[r] \in {"capturing", "returned"}
                    /\ r \notin cancelled

\* The inductive strengthening of NoOrphan and RunningIsAlive.  A generation's
\* goroutine exists once the counter has reached it; only started runs are
\* cancelled; a running session's current run is not; a flag excludes the other.
StartedRuns ==
  \A r \in Runs : goroutine[r] = "none" <=> r[2] > generation[r[1]]
CancelledWereStarted == \A r \in cancelled : goroutine[r] # "none"
RunningNotCancelled ==
  \A i \in running : generation[i] > 0 /\ <<i, generation[i]>> \notin cancelled
OneFlag == running \cap stopping = {}

SessionInv ==
  /\ StartedRuns /\ CancelledWereStarted /\ RunningNotCancelled /\ OneFlag
  /\ NoOrphan /\ RunningIsAlive

\* What makes sockets exclusive when one operator calls: only the current run
\* of a session can be inside Run, and a cancelled one is still awaited by the
\* call that cancelled it, whose session stays flagged as stopping.
AwaitedBy(r) ==
  \E c \in Operators : /\ call[c].op \in {"stopCapture", "stopInterface"}
                      /\ r \in call[c].waits
ExclusiveInv ==
  /\ root # "closed" => call[Watcher] = Idle
  /\ \A r \in Capturing : r[2] = generation[r[1]]
  /\ root # "closed" => \A r \in cancelled :
       goroutine[r] # "closed" => AwaitedBy(r) /\ r[1] \in stopping

\* At most one goroutine of an interface is inside Run, so one AF_PACKET
\* socket per interface delivers each frame once ("its own context, AF_PACKET
\* socket, generation", docs/ARCHITECTURE.md:152).
OneSocketPerInterface ==
  \A r, s \in Capturing : r[1] = s[1] => r = s

\* What the controls tell an operator is true: capture is shown as running only
\* while some session runs and as stopped only while none does (Status reads
\* these fields), and a Stop call that returns has waited for every goroutine
\* that held a socket of its sessions when the call was made
\* (docs/ARCHITECTURE.md:168 and the comment above StopInterface).  It needs a
\* single operator: StartCapture's error return leaves the summary fields as
\* they were, and the call that arrives second does not wait for the first.
StatusTruthful ==
  /\ captureRunning <=> running # {}
  /\ captureStopped => running = {}
  /\ \A c \in Callers :
       root = "open" /\ call[c].op \in ReturnedOps
         => call[c].saw \cap Capturing = {}

\* Every Stop call returns: the done channels it waits for are closed.
StopReturns ==
  \A c \in Callers :
    call[c].op \in {"stopCapture", "stopInterface", "join"}
      ~> call[c].op \in ReturnedOps

\* After the root context is done every socket is eventually released for
\* good: no Start call can begin another run.
ShutdownReleases == (root = "closed") ~> [](Capturing = {} /\ running = {})

\* Captures come to an end: a call that asks for it returns, and the shutdown
\* of the daemon is final, whatever is started, fails or is restarted meanwhile.
CaptureEnds == StopReturns /\ ShutdownReleases
=============================================================================
