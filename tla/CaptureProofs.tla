---------------------------- MODULE CaptureProofs ----------------------------
(***************************************************************************)
(* Proofs about CaptureLifecycle, Attribution, Behaviours, Detection and   *)
(* FileExtraction, for any interfaces and operators, any sockets,          *)
(* processes, flows and lost events, any rules, thresholds, windows and    *)
(* times of packets, and any limits, queues and transfers of files.        *)
(***************************************************************************)
EXTENDS CaptureLifecycle, Attribution, Behaviours, Detection, FileExtraction,
        SequenceTheorems, FiniteSetTheorems, WellFoundedInduction, TLAPS

-----------------------------------------------------------------------------
\* A run names an interface and a generation within the bound.
LEMMA RunsComponents ==
  ASSUME NEW r \in Runs
  PROVE  /\ r[1] \in Interfaces /\ r[2] \in 1..MaxGen
         /\ r = <<r[1], r[2]>>
  BY DEF Runs

\* startInterfaceLocked keeps the types of the fields of the sessions.
LEMMA StartRunsType ==
  ASSUME TypeOK, NEW S \in SUBSET Interfaces, StartRuns(S)
  PROVE  /\ running' \in SUBSET Interfaces
         /\ stopping' \in SUBSET Interfaces
         /\ generation' \in [Interfaces -> 0..MaxGen]
         /\ goroutine' \in [Runs -> Phases]
         /\ cancelled' \in SUBSET Runs
<1>1. \A i \in S : generation[i] + 1 \in 0..MaxGen
  BY LifecycleAssumption DEF TypeOK, StartRuns
<1>2. generation' \in [Interfaces -> 0..MaxGen]
  BY <1>1 DEF TypeOK, StartRuns
<1>3. goroutine' \in [Runs -> Phases]
  BY DEF TypeOK, StartRuns, Phases
<1> QED BY <1>2, <1>3 DEF TypeOK, StartRuns

\* Writing a well-typed record for one caller keeps the type of the calls.
LEMMA CallUpdate ==
  ASSUME TypeOK, NEW c \in Callers, NEW v \in CallType,
         call' = [call EXCEPT ![c] = v]
  PROVE  call' \in [Callers -> CallType]
  BY DEF TypeOK

\* Every variable keeps its type, for every number of interfaces, operators
\* and generations.
THEOREM TypeCorrect == Spec => []TypeOK
<1>1. Init => TypeOK
  <2>1. Idle \in CallType
    BY DEF Idle, CallType
  <2>2. 0 \in 0..MaxGen
    BY LifecycleAssumption
  <2> QED BY <2>1, <2>2 DEF Init, TypeOK, Phases
<1>2. TypeOK /\ [Next]_vars => TypeOK'
  <2> SUFFICES ASSUME TypeOK, [Next]_vars PROVE TypeOK'
    OBVIOUS
  <2>1. CASE EngineStart
    <3>1. StartRuns(Interfaces \ running) /\ UNCHANGED call /\ root' = "open"
      BY <2>1 DEF EngineStart, StartAll
    <3> QED BY <2>1, <3>1, StartRunsType DEF EngineStart, StartAll, TypeOK
  <2>2. CASE Shutdown
    BY <2>2 DEF Shutdown, TypeOK, session, summary
  <2>3. ASSUME NEW c \in Callers, StopCaptureBegin(c) PROVE TypeOK'
    <3> DEFINE v == [op |-> "stopCapture", on |-> Interfaces,
                     waits |-> CurrentRuns(running),
                     saw |-> {r \in Capturing : r[1] \in Interfaces}]
    <3>1. v \in CallType
      BY DEF CallType, CurrentRuns, Capturing
    <3>2. call' = [call EXCEPT ![c] = v]
      BY <2>3 DEF StopCaptureBegin, CancelRuns
    <3>3. call' \in [Callers -> CallType]
      BY <3>1, <3>2, CallUpdate
    <3> QED BY <2>3, <3>3 DEF StopCaptureBegin, CancelRuns, TypeOK, CurrentRuns
  <2>4. ASSUME NEW c \in Callers, StopCaptureEnd(c) PROVE TypeOK'
    <3>1. Returned(c, "captureStopped") \in CallType
      BY DEF TypeOK, CallType, Returned, ReturnedOps
    <3>2. call' \in [Callers -> CallType]
      BY <2>4, <3>1, CallUpdate DEF StopCaptureEnd
    <3> QED BY <2>4, <3>2 DEF StopCaptureEnd, TypeOK, summary
  <2>5. ASSUME NEW c \in Operators, StartCapture(c) PROVE TypeOK'
    <3>1. PICK S \in SUBSET Interfaces : StartRuns(S)
      BY <2>5 DEF StartCapture, StartAll, StartSomeThenFail
    <3>2. captureRunning' \in BOOLEAN /\ captureStopped' \in BOOLEAN
      BY <2>5 DEF StartCapture, StartAll, StartSomeThenFail, TypeOK, summary
    <3> QED BY <2>5, <3>1, <3>2, StartRunsType DEF StartCapture, TypeOK
  <2>6. ASSUME NEW c \in Operators, NEW i \in Interfaces, StartInterface(c, i)
        PROVE  TypeOK'
    <3>1. StartRuns({i} \ running)
      BY <2>6 DEF StartInterface
    <3> QED BY <2>6, <3>1, StartRunsType DEF StartInterface, TypeOK
  <2>7. ASSUME NEW c \in Operators, NEW i \in Interfaces,
               StopInterfaceBegin(c, i)
        PROVE  TypeOK'
    <3> DEFINE v == [op |-> "stopInterface", on |-> {i},
                     waits |-> CurrentRuns({i}),
                     saw |-> {r \in Capturing : r[1] \in {i}}]
    <3>1. v \in CallType
      BY DEF CallType, CurrentRuns, Capturing
    <3>2. call' = [call EXCEPT ![c] = v]
      BY <2>7 DEF StopInterfaceBegin, CancelRuns
    <3>3. call' \in [Callers -> CallType]
      BY <3>1, <3>2, CallUpdate DEF Callers
    <3> QED
      BY <2>7, <3>3 DEF StopInterfaceBegin, CancelRuns, TypeOK, CurrentRuns
  <2>8. ASSUME NEW c \in Operators, NEW i \in Interfaces,
               StopInterfaceJoin(c, i) \/ StopInterfaceIdle(c, i)
        PROVE  TypeOK'
    <3>1. PICK v \in CallType : call' = [call EXCEPT ![c] = v]
      <4>1. {r \in Capturing : r[1] = i} \in SUBSET Runs
        BY DEF Capturing
      <4>2. CurrentRuns({i}) \in SUBSET Runs
        BY DEF CurrentRuns
      <4> QED BY <2>8, <4>1, <4>2
              DEF StopInterfaceJoin, StopInterfaceIdle, CallType, ReturnedOps
    <3>2. call' \in [Callers -> CallType]
      BY <3>1, CallUpdate DEF Callers
    <3> QED BY <2>8, <3>2 DEF StopInterfaceJoin, StopInterfaceIdle, TypeOK,
                              session, summary
  <2>9. ASSUME NEW c \in Operators, StopInterfaceEnd(c) \/ StopInterfaceJoined(c)
        PROVE  TypeOK'
    <3>1. Returned(c, "interfaceStopped") \in CallType
      BY DEF TypeOK, CallType, Returned, ReturnedOps, Callers
    <3>2. call' \in [Callers -> CallType]
      BY <2>9, <3>1, CallUpdate
      DEF StopInterfaceEnd, StopInterfaceJoined, Callers
    <3> QED BY <2>9, <3>2 DEF StopInterfaceEnd, StopInterfaceJoined, TypeOK,
                              session, summary
  <2>10. ASSUME NEW c \in Operators, Reply(c) PROVE TypeOK'
    <3>1. Idle \in CallType
      BY DEF Idle, CallType
    <3>2. call' \in [Callers -> CallType]
      BY <2>10, <3>1, CallUpdate DEF Reply, Callers
    <3> QED BY <2>10, <3>2 DEF Reply, TypeOK, session, summary
  <2>11. ASSUME NEW r \in Runs, RunReturns(r) \/ CloseDone(r) PROVE TypeOK'
    BY <2>11 DEF RunReturns, CloseDone, TypeOK, Phases, summary
  <2>12. ASSUME NEW r \in Runs, Epilogue(r) PROVE TypeOK'
    BY <2>12 DEF Epilogue, TypeOK, Phases, summary
  <2>13. CASE UNCHANGED vars
    BY <2>13 DEF vars, session, summary, TypeOK
  <2> QED BY <2>1, <2>2, <2>3, <2>4, <2>5, <2>6, <2>7, <2>8, <2>9, <2>10,
             <2>11, <2>12, <2>13 DEF Next, OperatorStep
<1> QED BY <1>1, <1>2, PTL DEF Spec

-----------------------------------------------------------------------------
\* The run that startInterfaceLocked is about to launch for an idle session is
\* fresh, and starting a set of idle sessions preserves SessionInv.
LEMMA StartRunsSession ==
  ASSUME TypeOK, SessionInv, NEW S \in SUBSET Interfaces,
         S \cap running = {}, StartRuns(S), root # "closed"
  PROVE  SessionInv'
<1> USE DEF SessionInv
<1>1. \A i \in S : /\ generation[i] \in 0..MaxGen
                   /\ <<i, generation[i] + 1>> \in Runs
                   /\ generation'[i] = generation[i] + 1
                   /\ goroutine[<<i, generation[i] + 1>>] = "none"
                   /\ generation'[i] > 0
                   /\ <<i, generation'[i]>> \in Runs
                   /\ <<i, generation'[i]>> \notin cancelled
                   /\ goroutine'[<<i, generation'[i]>>] = "capturing"
  <2> SUFFICES ASSUME NEW i \in S
               PROVE  /\ generation[i] \in 0..MaxGen
                      /\ <<i, generation[i] + 1>> \in Runs
                      /\ generation'[i] = generation[i] + 1
                      /\ goroutine[<<i, generation[i] + 1>>] = "none"
                      /\ generation'[i] > 0
                      /\ <<i, generation'[i]>> \in Runs
                      /\ <<i, generation'[i]>> \notin cancelled
                      /\ goroutine'[<<i, generation'[i]>>] = "capturing"
    OBVIOUS
  <2>1. generation[i] \in 0..MaxGen /\ generation[i] < MaxGen
    BY DEF TypeOK, StartRuns
  <2>2. <<i, generation[i] + 1>> \in Runs
    BY <2>1, LifecycleAssumption DEF Runs
  <2>3. generation'[i] = generation[i] + 1
    BY DEF StartRuns
  <2>4. goroutine[<<i, generation[i] + 1>>] = "none"
    BY <2>1, <2>2 DEF StartedRuns
  <2>5. <<i, generation[i] + 1>> \notin cancelled
    BY <2>4 DEF CancelledWereStarted
  <2>6. goroutine'[<<i, generation[i] + 1>>] = "capturing"
    BY <2>2 DEF StartRuns
  <2>7. generation'[i] > 0
    BY <2>1, <2>3, LifecycleAssumption
  <2> QED BY <2>1, <2>2, <2>3, <2>4, <2>5, <2>6, <2>7
<1>2. \A i \in Interfaces \ S : generation'[i] = generation[i]
  BY DEF StartRuns
<1>3. \A r \in Runs :
        goroutine'[r] = IF r[1] \in S /\ r[2] = generation[r[1]] + 1
                          THEN "capturing" ELSE goroutine[r]
  BY DEF StartRuns
<1>4. StartedRuns'
  <2> SUFFICES ASSUME NEW r \in Runs
               PROVE  goroutine'[r] = "none" <=> r[2] > generation'[r[1]]
    BY DEF StartedRuns
  <2>1. r[1] \in Interfaces /\ r[2] \in Nat
    BY RunsComponents, LifecycleAssumption
  <2>2. generation[r[1]] \in Nat
    BY <2>1, LifecycleAssumption DEF TypeOK
  <2>3. CASE r[1] \in S
    <3>1. generation'[r[1]] = generation[r[1]] + 1
      BY <1>1, <2>3
    <3>2. goroutine[r] = "none" <=> r[2] > generation[r[1]]
      BY DEF StartedRuns
    <3>3. goroutine'[r] = "none" <=>
            goroutine[r] = "none" /\ r[2] # generation[r[1]] + 1
      BY <1>3, <2>3
    <3> QED BY <2>1, <2>2, <3>1, <3>2, <3>3
  <2>4. CASE r[1] \notin S
    BY <1>2, <1>3, <2>1, <2>4 DEF StartedRuns
  <2> QED BY <2>3, <2>4
<1>5. CancelledWereStarted'
  BY <1>3 DEF CancelledWereStarted, StartRuns, TypeOK
<1>6. RunningNotCancelled'
  <2> SUFFICES ASSUME NEW i \in running'
               PROVE  generation'[i] > 0 /\ <<i, generation'[i]>> \notin cancelled
    BY DEF RunningNotCancelled, StartRuns
  <2>1. CASE i \in S
    BY <1>1, <2>1
  <2>2. CASE i \notin S
    BY <1>2, <2>2 DEF RunningNotCancelled, StartRuns, TypeOK
  <2> QED BY <2>1, <2>2
<1>7. OneFlag'
  BY DEF OneFlag, StartRuns
<1>8. NoOrphan'
  <2> SUFFICES ASSUME NEW r \in Runs, r \notin cancelled,
                      goroutine'[r] \in {"capturing", "returned"}
               PROVE  r[1] \in running' /\ r[2] = generation'[r[1]]
    BY DEF NoOrphan, StartRuns
  <2>1. r[1] \in Interfaces
    BY RunsComponents
  <2>2. CASE r[1] \in S
    BY <1>1, <1>3, <2>1, <2>2 DEF NoOrphan, StartRuns
  <2>3. CASE r[1] \notin S
    BY <1>2, <1>3, <2>1, <2>3 DEF NoOrphan, StartRuns
  <2> QED BY <2>2, <2>3
<1>9. RunningIsAlive'
  <2> SUFFICES ASSUME NEW i \in running'
               PROVE  \E r \in Runs : /\ r[1] = i /\ r[2] = generation'[i]
                                     /\ goroutine'[r] \in {"capturing", "returned"}
                                     /\ r \notin cancelled'
    BY DEF RunningIsAlive
  <2>1. CASE i \in S
    <3> DEFINE r == <<i, generation'[i]>>
    <3>1. /\ r \in Runs /\ r[1] = i /\ r[2] = generation'[i]
          /\ r \notin cancelled' /\ goroutine'[r] = "capturing"
      BY <1>1, <2>1 DEF StartRuns
    <3> QED BY <3>1
  <2>2. CASE i \notin S
    <3>1. i \in running /\ i \in Interfaces
      BY <2>2 DEF StartRuns, TypeOK
    <3>2. PICK r \in Runs : /\ r[1] = i /\ r[2] = generation[i]
                            /\ goroutine[r] \in {"capturing", "returned"}
                            /\ r \notin cancelled
      BY <3>1 DEF RunningIsAlive
    <3> QED BY <1>2, <1>3, <2>2, <3>1, <3>2 DEF StartRuns
  <2> QED BY <2>1, <2>2
<1> QED BY <1>4, <1>5, <1>6, <1>7, <1>8, <1>9

\* SessionInv mentions only root and the session variables: a step that leaves
\* them alone preserves it.
LEMMA SessionFrame ==
  ASSUME SessionInv, UNCHANGED session, root' = root \/ root' = "closed"
  PROVE  SessionInv'
  BY DEF SessionInv, session, StartedRuns, CancelledWereStarted,
         RunningNotCancelled, OneFlag, NoOrphan, RunningIsAlive

\* The first region of a Stop call cancels exactly the runs of the sessions
\* whose running flag it clears.
LEMMA CancelRunsSession ==
  ASSUME TypeOK, SessionInv, NEW c, NEW op, NEW scope, NEW S \in SUBSET running,
         CancelRuns(c, op, S, scope)
  PROVE  SessionInv'
<1> USE DEF SessionInv
<1>1. /\ running' = running \ S /\ stopping' = stopping \cup S
      /\ cancelled' = cancelled \cup CurrentRuns(S)
      /\ UNCHANGED <<root, generation, goroutine>>
  BY DEF CancelRuns
<1>2. StartedRuns'
  BY <1>1 DEF StartedRuns
<1>3. CancelledWereStarted'
  <2> SUFFICES ASSUME NEW r \in CurrentRuns(S) PROVE goroutine[r] # "none"
    BY <1>1 DEF CancelledWereStarted
  <2>1. r \in Runs /\ r[1] \in S /\ r[2] = generation[r[1]]
    BY DEF CurrentRuns
  <2>2. generation[r[1]] \in Nat
    BY <2>1, LifecycleAssumption DEF TypeOK
  <2> QED BY <2>1, <2>2 DEF StartedRuns
<1>4. RunningNotCancelled'
  <2> SUFFICES ASSUME NEW i \in running \ S
               PROVE  <<i, generation[i]>> \notin CurrentRuns(S)
    BY <1>1 DEF RunningNotCancelled
  <2> QED BY DEF CurrentRuns
<1>5. OneFlag'
  BY <1>1 DEF OneFlag
<1>6. NoOrphan'
  BY <1>1 DEF NoOrphan, CurrentRuns
<1>7. RunningIsAlive'
  BY <1>1 DEF RunningIsAlive, CurrentRuns
<1> QED BY <1>2, <1>3, <1>4, <1>5, <1>6, <1>7

\* A goroutine that returns from Run, ends its epilogue or closes its channel.
LEMMA GoroutineSession ==
  ASSUME TypeOK, SessionInv, NEW r \in Runs,
         RunReturns(r) \/ Epilogue(r) \/ CloseDone(r)
  PROVE  SessionInv'
<1> USE DEF SessionInv
<1>1. CASE RunReturns(r)
  BY <1>1 DEF RunReturns, StartedRuns, CancelledWereStarted, RunningNotCancelled,
              OneFlag, NoOrphan, RunningIsAlive, TypeOK
<1>2. CASE CloseDone(r)
  BY <1>2 DEF CloseDone, StartedRuns, CancelledWereStarted, RunningNotCancelled,
              OneFlag, NoOrphan, RunningIsAlive, TypeOK
<1>3. CASE Epilogue(r)
  <2>1. /\ goroutine[r] = "returned"
        /\ goroutine' = [goroutine EXCEPT ![r] = "unlocked"]
        /\ UNCHANGED <<root, generation, cancelled>>
        /\ running' \in SUBSET running /\ stopping' \in SUBSET stopping
        /\ running \ {r[1]} \in SUBSET running'
        /\ r \notin cancelled /\ root # "closed" => r[1] \notin running'
    <3>1. r \notin cancelled => r[2] = generation[r[1]]
      BY <1>3 DEF Epilogue, NoOrphan
    <3> QED BY <1>3, <3>1 DEF Epilogue, CtxErr, summary
  <2>2. StartedRuns' /\ CancelledWereStarted'
    BY <2>1 DEF StartedRuns, CancelledWereStarted, TypeOK
  <2>3. RunningNotCancelled' /\ OneFlag'
    BY <2>1 DEF RunningNotCancelled, OneFlag
  <2>4. NoOrphan'
    <3> SUFFICES ASSUME NEW s \in Runs, s \notin cancelled,
                        goroutine'[s] \in {"capturing", "returned"}
                 PROVE  s[1] \in running' /\ s[2] = generation[s[1]]
      BY <2>1 DEF NoOrphan
    <3>1. s # r /\ goroutine[s] \in {"capturing", "returned"}
      BY <2>1 DEF TypeOK
    <3>2. s[1] \in running /\ s[2] = generation[s[1]]
      BY <3>1 DEF NoOrphan
    <3>3. CASE r \notin cancelled
      <4>1. r[2] = generation[r[1]]
        BY <2>1, <3>3 DEF NoOrphan
      <4>2. s[1] # r[1]
        BY <3>1, <3>2, <4>1, RunsComponents
      <4> QED BY <2>1, <3>2, <4>2
    <3>4. CASE r \in cancelled
      <4>1. running' = running
        BY <1>3, <3>4 DEF Epilogue, CtxErr
      <4> QED BY <3>2, <4>1
    <3> QED BY <3>3, <3>4
  <2>5. RunningIsAlive'
    <3> SUFFICES ASSUME root # "closed", NEW i \in running'
                 PROVE  \E s \in Runs :
                           /\ s[1] = i /\ s[2] = generation[i]
                           /\ goroutine'[s] \in {"capturing", "returned"}
                           /\ s \notin cancelled
      BY <2>1 DEF RunningIsAlive
    <3>1. PICK s \in Runs : /\ s[1] = i /\ s[2] = generation[i]
                            /\ goroutine[s] \in {"capturing", "returned"}
                            /\ s \notin cancelled
      BY <2>1 DEF RunningIsAlive
    <3>2. s # r
      BY <2>1, <3>1
    <3>3. goroutine'[s] = goroutine[s]
      BY <2>1, <3>2 DEF TypeOK
    <3> QED BY <3>1, <3>3
  <2> QED BY <2>2, <2>3, <2>4, <2>5
<1> QED BY <1>1, <1>2, <1>3

\* The engine starts with no session: the strengthened invariant holds.
LEMMA SessionInit == Init => SessionInv
<1> SUFFICES ASSUME Init PROVE SessionInv
  OBVIOUS
<1>1. StartedRuns
  BY RunsComponents, LifecycleAssumption DEF Init, StartedRuns
<1> QED BY <1>1 DEF Init, SessionInv, CancelledWereStarted, RunningNotCancelled,
                    OneFlag, NoOrphan, RunningIsAlive

\* Every step of every caller and goroutine preserves the strengthened
\* invariant.
LEMMA SessionStep == TypeOK /\ SessionInv /\ [Next]_vars => SessionInv'
<1> SUFFICES ASSUME TypeOK, SessionInv, [Next]_vars PROVE SessionInv'
  OBVIOUS
<1>1. CASE EngineStart
  <2>1. StartRuns(Interfaces \ running) /\ root # "closed"
    BY <1>1 DEF EngineStart, StartAll
  <2> QED BY <2>1, StartRunsSession
<1>2. CASE Shutdown
  BY <1>2, SessionFrame DEF Shutdown
<1>3. ASSUME NEW c \in Callers, StopCaptureBegin(c) PROVE SessionInv'
  <2>1. CancelRuns(c, "stopCapture", running, Interfaces)
    BY <1>3 DEF StopCaptureBegin
  <2> QED BY <2>1, CancelRunsSession
<1>4. ASSUME NEW c \in Callers, StopCaptureEnd(c) PROVE SessionInv'
  BY <1>4 DEF StopCaptureEnd, SessionInv, StartedRuns, CancelledWereStarted,
              RunningNotCancelled, OneFlag, NoOrphan, RunningIsAlive
<1>5. ASSUME NEW c \in Operators, StartCapture(c) PROVE SessionInv'
  <2>1. PICK S \in SUBSET Interfaces : S \cap running = {} /\ StartRuns(S)
    BY <1>5 DEF StartCapture, StartAll, StartSomeThenFail
  <2>2. root # "closed"
    BY <1>5 DEF StartCapture
  <2> QED BY <2>1, <2>2, StartRunsSession
<1>6. ASSUME NEW c \in Operators, NEW i \in Interfaces, StartInterface(c, i)
      PROVE  SessionInv'
  <2>1. StartRuns({i} \ running) /\ root # "closed"
    BY <1>6 DEF StartInterface
  <2> QED BY <2>1, StartRunsSession
<1>7. ASSUME NEW c \in Operators, NEW i \in Interfaces, StopInterfaceBegin(c, i)
      PROVE  SessionInv'
  <2>1. CancelRuns(c, "stopInterface", {i}, {i}) /\ {i} \in SUBSET running
    BY <1>7 DEF StopInterfaceBegin
  <2> QED BY <2>1, CancelRunsSession
<1>8. ASSUME NEW c \in Operators, StopInterfaceEnd(c) PROVE SessionInv'
  BY <1>8 DEF StopInterfaceEnd, SessionInv, StartedRuns, CancelledWereStarted,
              RunningNotCancelled, OneFlag, NoOrphan, RunningIsAlive
<1>9. ASSUME NEW c \in Operators, NEW i \in Interfaces,
             StopInterfaceJoin(c, i) \/ StopInterfaceIdle(c, i)
      PROVE  SessionInv'
  BY <1>9, SessionFrame DEF StopInterfaceJoin, StopInterfaceIdle
<1>10. ASSUME NEW c \in Operators, StopInterfaceJoined(c) \/ Reply(c)
       PROVE  SessionInv'
  BY <1>10, SessionFrame DEF StopInterfaceJoined, Reply
<1>11. ASSUME NEW r \in Runs, RunReturns(r) \/ Epilogue(r) \/ CloseDone(r)
       PROVE  SessionInv'
  BY <1>11, GoroutineSession
<1>12. CASE UNCHANGED vars
  BY <1>12, SessionFrame DEF vars
<1> QED BY <1>1, <1>2, <1>3, <1>4, <1>5, <1>6, <1>7, <1>8, <1>9, <1>10,
           <1>11, <1>12 DEF Next, OperatorStep

\* The strengthened invariant holds in every reachable state: the flags, the
\* cancelled runs and the generations of the sessions agree at all times.
THEOREM SessionInvariant == Spec => []SessionInv
<1>1. Spec => [](TypeOK /\ SessionInv)
  BY TypeCorrect, SessionInit, SessionStep, PTL DEF Spec
<1> QED BY <1>1, PTL

\* Whatever the operators do, an uncancelled capture goroutine belongs to a
\* running session's current generation, so a Stop call reaches it.
THEOREM NoOrphanCorrect == Spec => []NoOrphan
<1>1. SessionInv => NoOrphan
  BY DEF SessionInv
<1> QED BY <1>1, SessionInvariant, PTL

\* Whatever the operators do, a session shown as running has a live goroutine.
THEOREM RunningIsAliveCorrect == Spec => []RunningIsAlive
<1>1. SessionInv => RunningIsAlive
  BY DEF SessionInv
<1> QED BY <1>1, SessionInvariant, PTL

-----------------------------------------------------------------------------
\* With one operator, a caller that is not in a Stop call of its own finds no
\* cancelled run still open: nothing awaits one.
LEMMA NothingPending ==
  ASSUME TypeOK, ExclusiveInv, NEW op, Operators = {op}, root # "closed",
         \/ call[op].op \notin {"stopCapture", "stopInterface"}
         \/ AllClosed(op)
  PROVE  \A r \in cancelled : goroutine[r] = "closed"
  BY DEF ExclusiveInv, AwaitedBy, AllClosed

\* Starting idle sessions, none of which has a cancelled run still open, keeps
\* the sockets exclusive.
LEMMA StartRunsExclusive ==
  ASSUME TypeOK, SessionInv, ExclusiveInv, root # "closed",
         NEW S \in SUBSET Interfaces, S \cap (running \cup stopping) = {},
         StartRuns(S), UNCHANGED call
  PROVE  ExclusiveInv'
<1>1. ASSUME NEW r \in Capturing PROVE r[1] \notin S
  <2>1. r \in Runs /\ goroutine[r] = "capturing"
    BY DEF Capturing
  <2>2. CASE r \in cancelled
    BY <2>1, <2>2 DEF ExclusiveInv
  <2>3. CASE r \notin cancelled
    BY <2>1, <2>3 DEF SessionInv, NoOrphan
  <2> QED BY <2>2, <2>3
<1>2. ASSUME NEW r \in Capturing' PROVE r[2] = generation'[r[1]]
  <2>1. r \in Runs /\ goroutine'[r] = "capturing" /\ r[1] \in Interfaces
    BY RunsComponents DEF Capturing
  <2>2. CASE r \in Capturing
    <3>1. r[1] \notin S /\ r[2] = generation[r[1]]
      BY <1>1, <2>2 DEF ExclusiveInv
    <3> QED BY <2>1, <3>1 DEF StartRuns
  <2>3. CASE r \notin Capturing
    <3>1. r[1] \in S /\ r[2] = generation[r[1]] + 1
      BY <2>1, <2>3 DEF StartRuns, Capturing
    <3> QED BY <2>1, <3>1 DEF StartRuns
  <2> QED BY <2>2, <2>3
<1>3. ASSUME NEW r \in cancelled', goroutine'[r] # "closed"
      PROVE  AwaitedBy(r)' /\ r[1] \in stopping'
  <2>1. r \in cancelled /\ r \in Runs
    BY <1>3 DEF StartRuns, TypeOK
  <2>2. goroutine[r] # "none"
    BY <2>1 DEF SessionInv, CancelledWereStarted
  <2>3. r[1] \in Interfaces /\ r[2] \in Nat /\ generation[r[1]] \in Nat
    BY <2>1, RunsComponents, LifecycleAssumption DEF TypeOK
  <2>4. ~(r[2] > generation[r[1]])
    BY <2>1, <2>2 DEF SessionInv, StartedRuns
  <2>5. goroutine'[r] = goroutine[r]
    BY <2>1, <2>3, <2>4 DEF StartRuns
  <2>6. AwaitedBy(r) /\ r[1] \in stopping
    BY <1>3, <2>1, <2>5 DEF ExclusiveInv
  <2> QED BY <2>6 DEF AwaitedBy, StartRuns
<1>4. root' # "closed" => call'[Watcher] = Idle
  BY DEF ExclusiveInv
<1> QED BY <1>2, <1>3, <1>4 DEF ExclusiveInv

\* A Stop call of the only operator keeps awaiting the runs it cancels.
LEMMA CancelRunsExclusive ==
  ASSUME TypeOK, ExclusiveInv, NEW op, Operators = {op}, NEW c \in Callers,
         call[c] = Idle, c = Watcher => root = "closed",
         NEW kind \in {"stopCapture", "stopInterface"}, NEW scope,
         NEW S \in SUBSET running, CancelRuns(c, kind, S, scope)
  PROVE  ExclusiveInv'
<1>1. /\ UNCHANGED <<root, generation, goroutine>>
      /\ cancelled' = cancelled \cup CurrentRuns(S)
      /\ stopping' = stopping \cup S
      /\ call'[c].op = kind /\ call'[c].waits = CurrentRuns(S)
      /\ \A d \in Callers \ {c} : call'[d] = call[d]
  BY DEF CancelRuns, TypeOK
<1>2. \A r \in Capturing' : r[2] = generation'[r[1]]
  BY <1>1 DEF ExclusiveInv, Capturing
<1>3. root' # "closed" => call'[Watcher] = Idle
  BY <1>1 DEF ExclusiveInv, Callers
<1>4. ASSUME root # "closed", NEW r \in cancelled', goroutine'[r] # "closed"
      PROVE  AwaitedBy(r)' /\ r[1] \in stopping'
  <2>1. c = op
    BY <1>4 DEF Callers
  <2>2. r \in CurrentRuns(S)
    BY <1>1, <1>4, <2>1, NothingPending DEF Idle
  <2> QED BY <1>1, <2>1, <2>2 DEF AwaitedBy, CurrentRuns
<1> QED BY <1>1, <1>2, <1>3, <1>4 DEF ExclusiveInv

\* The last region of a call, and the calls that cancel nothing: the caller was
\* not waiting or its wait is over, so no cancelled run is open.
LEMMA CallEndExclusive ==
  ASSUME TypeOK, ExclusiveInv, NEW op, Operators = {op}, NEW c \in Callers,
         NEW v, call' = [call EXCEPT ![c] = v],
         c = Watcher => call[c] # Idle,
         \/ call[c].op \notin {"stopCapture", "stopInterface"}
         \/ AllClosed(c),
         UNCHANGED <<root, generation, goroutine, cancelled>>
  PROVE  ExclusiveInv'
<1>1. root # "closed" => c = op /\ call'[Watcher] = Idle
  BY LifecycleAssumption DEF ExclusiveInv, Callers, TypeOK
<1>2. root # "closed" => \A r \in cancelled : goroutine[r] = "closed"
  BY <1>1, NothingPending
<1> QED BY <1>1, <1>2 DEF ExclusiveInv, Capturing

\* A step of a capture goroutine keeps the sockets exclusive.
LEMMA GoroutineExclusive ==
  ASSUME TypeOK, SessionInv, ExclusiveInv, NEW r \in Runs,
         RunReturns(r) \/ Epilogue(r) \/ CloseDone(r)
  PROVE  ExclusiveInv'
<1>1. /\ UNCHANGED <<root, generation, cancelled, call>>
      /\ goroutine[r] # "closed"
      /\ \A s \in Runs : s # r => goroutine'[s] = goroutine[s]
      /\ goroutine'[r] # "capturing"
  BY DEF RunReturns, Epilogue, CloseDone, TypeOK
<1>2. stopping' = stopping
  <2>1. CASE Epilogue(r)
    <3>1. ~CtxErr(r) => r[1] \notin stopping
      BY <2>1 DEF Epilogue, CtxErr, SessionInv, NoOrphan, OneFlag
    <3> QED BY <2>1, <3>1 DEF Epilogue
  <2> QED BY <2>1 DEF RunReturns, CloseDone
<1>3. \A s \in Capturing' : s[2] = generation'[s[1]]
  BY <1>1 DEF ExclusiveInv, Capturing
<1>4. ASSUME root # "closed", NEW s \in cancelled', goroutine'[s] # "closed"
      PROVE  AwaitedBy(s)' /\ s[1] \in stopping'
  <2>1. s \in cancelled /\ s \in Runs /\ goroutine[s] # "closed"
    BY <1>1, <1>4 DEF TypeOK
  <2>2. AwaitedBy(s) /\ s[1] \in stopping
    BY <1>4, <2>1 DEF ExclusiveInv
  <2> QED BY <1>1, <1>2, <2>2 DEF AwaitedBy
<1> QED BY <1>1, <1>3, <1>4 DEF ExclusiveInv

\* With a single operator every step keeps the sockets exclusive.
LEMMA ExclusiveStep ==
  ASSUME TypeOK, SessionInv, ExclusiveInv, NEW op, Operators = {op}, [Next]_vars
  PROVE  ExclusiveInv'
<1>1. CASE EngineStart
  <2>1. StartRuns(Interfaces \ running) /\ UNCHANGED call
        /\ root # "closed" /\ stopping = {} /\ root' = "open"
    BY <1>1 DEF EngineStart, StartAll
  <2>2. (Interfaces \ running) \cap (running \cup stopping) = {}
    BY <2>1
  <2> QED BY <2>1, <2>2, StartRunsExclusive
<1>2. CASE Shutdown
  <2>1. root' = "closed" /\ UNCHANGED <<generation, goroutine>>
    BY <1>2 DEF Shutdown, session
  <2> QED BY <2>1 DEF ExclusiveInv, Capturing
<1>3. ASSUME NEW c \in Callers, StopCaptureBegin(c) PROVE ExclusiveInv'
  <2>1. CancelRuns(c, "stopCapture", running, Interfaces)
    BY <1>3 DEF StopCaptureBegin
  <2> QED BY <1>3, <2>1, CancelRunsExclusive DEF StopCaptureBegin
<1>4. ASSUME NEW c \in Callers, StopCaptureEnd(c) PROVE ExclusiveInv'
  <2>1. /\ UNCHANGED <<root, generation, goroutine, cancelled>>
        /\ call[c] # Idle /\ AllClosed(c)
        /\ call' = [call EXCEPT ![c] = Returned(c, "captureStopped")]
    BY <1>4 DEF StopCaptureEnd, Idle
  <2> QED BY <2>1, CallEndExclusive
<1>5. ASSUME NEW c \in Operators, StartCapture(c) PROVE ExclusiveInv'
  <2>1. PICK S \in SUBSET Interfaces :
          S \cap (running \cup stopping) = {} /\ StartRuns(S)
    BY <1>5 DEF StartCapture, StartAll, StartSomeThenFail
  <2>2. root # "closed" /\ UNCHANGED call
    BY <1>5 DEF StartCapture
  <2> QED BY <2>1, <2>2, StartRunsExclusive
<1>6. ASSUME NEW c \in Operators, NEW i \in Interfaces, StartInterface(c, i)
      PROVE  ExclusiveInv'
  <2>1. /\ StartRuns({i} \ running) /\ root # "closed" /\ UNCHANGED call
        /\ ({i} \ running) \cap (running \cup stopping) = {}
    BY <1>6 DEF StartInterface
  <2> QED BY <2>1, StartRunsExclusive
<1>7. ASSUME NEW c \in Operators, NEW i \in Interfaces, StopInterfaceBegin(c, i)
      PROVE  ExclusiveInv'
  <2>1. /\ CancelRuns(c, "stopInterface", {i}, {i}) /\ {i} \in SUBSET running
        /\ call[c] = Idle /\ c # Watcher /\ c \in Callers
    BY <1>7, LifecycleAssumption DEF StopInterfaceBegin, Callers
  <2> QED BY <2>1, CancelRunsExclusive
<1>8. ASSUME NEW c \in Operators, NEW i \in Interfaces,
             \/ StopInterfaceJoin(c, i) \/ StopInterfaceIdle(c, i)
             \/ StopInterfaceEnd(c) \/ StopInterfaceJoined(c) \/ Reply(c)
      PROVE  ExclusiveInv'
  <2>1. /\ c # Watcher /\ c \in Callers
        /\ UNCHANGED <<root, generation, goroutine, cancelled>>
        /\ \/ call[c].op \notin {"stopCapture", "stopInterface"}
           \/ AllClosed(c)
    BY <1>8, LifecycleAssumption
    DEF StopInterfaceJoin, StopInterfaceIdle, StopInterfaceEnd,
        StopInterfaceJoined, Reply, Callers, session, Idle, ReturnedOps
  <2>2. PICK v : call' = [call EXCEPT ![c] = v]
    BY <1>8 DEF StopInterfaceJoin, StopInterfaceIdle, StopInterfaceEnd,
                StopInterfaceJoined, Reply
  <2> QED BY <2>1, <2>2, CallEndExclusive
<1>9. ASSUME NEW r \in Runs, RunReturns(r) \/ Epilogue(r) \/ CloseDone(r)
      PROVE  ExclusiveInv'
  BY <1>9, GoroutineExclusive
<1>10. CASE UNCHANGED vars
  <2>1. UNCHANGED <<root, stopping, generation, goroutine, cancelled, call>>
    BY <1>10 DEF vars, session
  <2>2. \A r : AwaitedBy(r)' <=> AwaitedBy(r)
    BY <2>1 DEF AwaitedBy
  <2> QED BY <2>1, <2>2 DEF ExclusiveInv, Capturing
<1>11. Interfaces # {}
  BY LifecycleAssumption
<1> QED BY <1>1, <1>2, <1>3, <1>4, <1>5, <1>6, <1>7, <1>8, <1>9, <1>10, <1>11
        DEF Next, OperatorStep

\* One operator at a time never has two sockets open on an interface, through
\* any sequence of starts, stops, socket failures and the shutdown.  (With two
\* the property fails: the run capture_two_sockets shows how.)
THEOREM OneSocketCorrect ==
  ASSUME NEW op, Operators = {op}
  PROVE  Spec => []OneSocketPerInterface
<1>1. Init => ExclusiveInv
  BY DEF Init, ExclusiveInv, Capturing, Callers
<1>2. TypeOK /\ SessionInv /\ ExclusiveInv /\ [Next]_vars => ExclusiveInv'
  BY ExclusiveStep
<1>3. ExclusiveInv => OneSocketPerInterface
  <2> SUFFICES ASSUME ExclusiveInv, NEW r \in Capturing, NEW s \in Capturing,
                      r[1] = s[1]
               PROVE  r = s
    BY DEF OneSocketPerInterface
  <2>1. r \in Runs /\ s \in Runs /\ r[2] = s[2]
    BY DEF ExclusiveInv, Capturing
  <2> QED BY <2>1, RunsComponents
<1> QED BY <1>1, <1>2, <1>3, TypeCorrect, SessionInvariant, PTL DEF Spec

-----------------------------------------------------------------------------
\* What makes the controls truthful when one operator calls: a session is only
\* flagged as stopping while the operator's own Stop call is on it, so no Start
\* call fails halfway and no Stop call joins another; a goroutine that such a
\* call saw in Run and that is still there is one that it waits for.
StopOps == {"stopCapture", "stopInterface"}
Summary ==
  /\ captureRunning <=> running # {}
  /\ captureStopped => running = {}
OwnStop ==
  root # "closed" => \A i \in stopping :
    \E c \in Operators : call[c].op \in StopOps /\ i \in call[c].on
SeenIsAwaited ==
  root # "closed" => \A c \in Callers :
    /\ call[c].op # "join"
    /\ call[c].op \in StopOps => call[c].saw \cap Capturing \subseteq call[c].waits
    /\ call[c].op \in ReturnedOps => call[c].saw \cap Capturing = {}
NoCallYet == root = "none" => \A c \in Callers : call[c] = Idle
TruthfulInv == Summary /\ OwnStop /\ SeenIsAwaited /\ NoCallYet

\* Starting sessions while no caller is in a call, and publishing the summary.
LEMMA StartRunsTruthful ==
  ASSUME TypeOK, TruthfulInv, NEW op, Operators = {op}, NEW S \in SUBSET Interfaces,
         StartRuns(S), UNCHANGED call, root # "closed", root' # "none",
         \A c \in Callers : call[c] = Idle, Summary'
  PROVE  TruthfulInv'
<1>1. stopping' \subseteq stopping /\ \A c \in Callers : call'[c] = Idle
  BY DEF StartRuns
<1>2. OwnStop'
  BY <1>1 DEF TruthfulInv, OwnStop
<1>3. SeenIsAwaited'
  BY <1>1 DEF SeenIsAwaited, Idle, StopOps, ReturnedOps
<1> QED BY <1>2, <1>3 DEF TruthfulInv, NoCallYet

\* The goroutines inside Run when a Stop call of the only operator begins, on
\* the sessions of its scope, are current runs of running sessions.
LEMMA CapturingIsCurrent ==
  ASSUME TypeOK, SessionInv, ExclusiveInv, NEW op, Operators = {op},
         root # "closed", call[op] = Idle, NEW r \in Capturing
  PROVE  r[1] \in running /\ r \in CurrentRuns(running)
<1>1. r \in Runs /\ goroutine[r] = "capturing"
  BY DEF Capturing
<1>2. r \notin cancelled
  BY <1>1, NothingPending DEF Idle
<1> QED BY <1>1, <1>2 DEF SessionInv, NoOrphan, CurrentRuns

\* The first region of a Stop call.
LEMMA CancelRunsTruthful ==
  ASSUME TypeOK, SessionInv, ExclusiveInv, TruthfulInv, NEW op, Operators = {op},
         NEW c \in Callers, call[c] = Idle, c = Watcher => root = "closed",
         root # "none", NEW kind \in StopOps, NEW scope \in SUBSET Interfaces,
         NEW S \in SUBSET running, running \cap scope \subseteq S, S \subseteq scope,
         CancelRuns(c, kind, S, scope), Summary'
  PROVE  TruthfulInv'
<1>1. /\ UNCHANGED <<root, generation, goroutine>>
      /\ stopping' = stopping \cup S
      /\ call'[c].op = kind /\ call'[c].waits = CurrentRuns(S)
      /\ call'[c].on = scope /\ call'[c].saw = {r \in Capturing : r[1] \in scope}
      /\ \A d \in Callers \ {c} : call'[d] = call[d]
  BY DEF CancelRuns, TypeOK
<1>2. OwnStop'
  <2> SUFFICES ASSUME root # "closed", NEW i \in stopping'
               PROVE  \E d \in Operators : call'[d].op \in StopOps /\ i \in call'[d].on
    BY <1>1 DEF OwnStop
  <2>1. c = op
    BY DEF Callers
  <2>2. i \notin stopping
    BY <2>1 DEF TruthfulInv, OwnStop, Idle, StopOps
  <2> QED BY <1>1, <2>1, <2>2
<1>3. SeenIsAwaited'
  <2> SUFFICES ASSUME root # "closed", NEW d \in Callers
               PROVE  /\ call'[d].op # "join"
                      /\ call'[d].op \in StopOps
                           => call'[d].saw \cap Capturing \subseteq call'[d].waits
                      /\ call'[d].op \in ReturnedOps => call'[d].saw \cap Capturing = {}
    BY <1>1 DEF SeenIsAwaited, Capturing
  <2>1. CASE d # c
    BY <1>1, <2>1 DEF TruthfulInv, SeenIsAwaited
  <2>2. CASE d = c
    <3>1. c = op
      BY DEF Callers
    <3>2. ASSUME NEW r \in Capturing, r[1] \in scope PROVE r \in CurrentRuns(S)
      BY <3>1, <3>2, CapturingIsCurrent DEF CurrentRuns
    <3> QED BY <1>1, <2>2, <3>2 DEF StopOps, ReturnedOps
  <2> QED BY <2>1, <2>2
<1> QED BY <1>1, <1>2, <1>3 DEF TruthfulInv, NoCallYet

\* A call record is replaced by one that is idle or has returned and has seen no
\* goroutine that is still in Run; the sessions of a Stop call lose their flag.
LEMMA CallEndTruthful ==
  ASSUME TypeOK, TruthfulInv, NEW op, Operators = {op}, NEW c \in Callers, NEW v,
         call' = [call EXCEPT ![c] = v], root # "none",
         v.op \in {"idle"} \cup ReturnedOps, root # "closed" => c = op,
         root # "closed" /\ v.op \in ReturnedOps => v.saw \cap Capturing = {},
         stopping' \subseteq stopping,
         call[c].op \in StopOps => stopping' \cap call[c].on = {},
         UNCHANGED <<root, running, generation, goroutine, cancelled, summary>>
  PROVE  TruthfulInv'
<1>1. call'[c] = v /\ \A d \in Callers \ {c} : call'[d] = call[d]
  BY DEF TypeOK
<1>2. OwnStop'
  BY DEF TruthfulInv, OwnStop
<1>3. SeenIsAwaited'
  BY <1>1 DEF TruthfulInv, SeenIsAwaited, Capturing, StopOps, ReturnedOps
<1> QED BY <1>2, <1>3 DEF TruthfulInv, Summary, NoCallYet, summary

\* A step of a capture goroutine.
LEMMA GoroutineTruthful ==
  ASSUME TypeOK, SessionInv, TruthfulInv, NEW r \in Runs,
         RunReturns(r) \/ Epilogue(r) \/ CloseDone(r)
  PROVE  TruthfulInv'
<1>1. /\ UNCHANGED <<root, call>> /\ stopping' \subseteq stopping
      /\ Capturing' \subseteq Capturing
  BY DEF RunReturns, Epilogue, CloseDone, TypeOK, Capturing
<1>2. Summary'
  <2>1. CASE Epilogue(r)
    BY <2>1 DEF Epilogue, TruthfulInv, Summary, summary, TypeOK
  <2> QED BY <2>1 DEF RunReturns, CloseDone, TruthfulInv, Summary, summary
<1>3. OwnStop'
  BY <1>1 DEF TruthfulInv, OwnStop
<1>4. SeenIsAwaited'
  BY <1>1 DEF TruthfulInv, SeenIsAwaited
<1> QED BY <1>1, <1>2, <1>3, <1>4 DEF TruthfulInv, NoCallYet

\* With a single operator every step keeps the controls truthful.
LEMMA TruthfulStep ==
  ASSUME TypeOK, SessionInv, ExclusiveInv, TruthfulInv,
         NEW op, Operators = {op}, [Next]_vars
  PROVE  TruthfulInv'
<1>0. op \in Callers /\ op # Watcher /\ Callers = {op, Watcher}
  BY LifecycleAssumption DEF Callers
<1>1. CASE EngineStart
  <2>1. /\ StartRuns(Interfaces \ running) /\ UNCHANGED call
        /\ root = "none" /\ root' = "open"
        /\ captureRunning' = (running' # {})
        /\ captureStopped' = (captureStopped /\ running' = {})
    BY <1>1 DEF EngineStart, StartAll
  <2>2. Summary' /\ \A c \in Callers : call[c] = Idle
    BY <2>1 DEF Summary, TruthfulInv, NoCallYet
  <2> QED BY <2>1, <2>2, StartRunsTruthful
<1>2. CASE Shutdown
  BY <1>2 DEF Shutdown, TruthfulInv, Summary, OwnStop, SeenIsAwaited, NoCallYet,
              session, summary
<1>3. ASSUME NEW c \in Callers, StopCaptureBegin(c) PROVE TruthfulInv'
  <2>1. /\ CancelRuns(c, "stopCapture", running, Interfaces)
        /\ captureRunning' = FALSE /\ captureStopped' = TRUE
        /\ call[c] = Idle /\ root # "none" /\ (c = Watcher => root = "closed")
    BY <1>3 DEF StopCaptureBegin
  <2>2. Summary'
    BY <2>1 DEF CancelRuns, Summary
  <2>3. "stopCapture" \in StopOps /\ running \in SUBSET Interfaces
    BY DEF StopOps, TypeOK
  <2> QED BY <2>1, <2>2, <2>3, CancelRunsTruthful
<1>4. ASSUME NEW c \in Operators, StartCapture(c) PROVE TruthfulInv'
  <2>1. root = "open" /\ call[c] = Idle /\ c = op /\ UNCHANGED <<root, call>>
    BY <1>4 DEF StartCapture
  <2>2. stopping = {}
    BY <2>1 DEF TruthfulInv, OwnStop, Idle, StopOps
  <2>3. StartAll
    BY <1>4, <2>2 DEF StartCapture, StartSomeThenFail
  <2>4. StartRuns(Interfaces \ running) /\ Summary'
    BY <2>3 DEF StartAll, Summary
  <2>5. \A d \in Callers : call[d] = Idle
    BY <1>0, <2>1 DEF ExclusiveInv
  <2> QED BY <2>1, <2>4, <2>5, StartRunsTruthful
<1>5. ASSUME NEW c \in Operators, NEW i \in Interfaces, StartInterface(c, i)
      PROVE  TruthfulInv'
  <2>1. /\ root = "open" /\ call[c] = Idle /\ c = op /\ UNCHANGED <<root, call>>
        /\ StartRuns({i} \ running) /\ {i} \ running \in SUBSET Interfaces
        /\ captureRunning' = (running' # {}) /\ captureStopped' = FALSE
    BY <1>5 DEF StartInterface
  <2>2. \A d \in Callers : call[d] = Idle
    BY <1>0, <2>1 DEF ExclusiveInv
  <2>3. Summary'
    BY <2>1 DEF Summary
  <2> QED BY <2>1, <2>2, <2>3, StartRunsTruthful
<1>6. ASSUME NEW c \in Operators, NEW i \in Interfaces, StopInterfaceBegin(c, i)
      PROVE  TruthfulInv'
  <2>1. /\ CancelRuns(c, "stopInterface", {i}, {i}) /\ i \in running
        /\ call[c] = Idle /\ root # "none" /\ c \in Callers /\ c # Watcher
        /\ captureRunning' = (running' # {})
        /\ captureStopped' = (captureStopped \/ running' = {})
    BY <1>0, <1>6 DEF StopInterfaceBegin
  <2>2. Summary'
    BY <2>1 DEF TruthfulInv, Summary
  <2>3. "stopInterface" \in StopOps
    BY DEF StopOps
  <2> QED BY <2>1, <2>2, <2>3, CancelRunsTruthful
<1>7. ASSUME NEW c \in Callers, NEW name,
             \/ StopCaptureEnd(c) /\ name = "captureStopped"
             \/ c \in Operators /\ StopInterfaceEnd(c) /\ name = "interfaceStopped"
             \/ c \in Operators /\ StopInterfaceJoined(c) /\ name = "interfaceStopped"
      PROVE  TruthfulInv'
  <2> DEFINE v == Returned(c, name)
  <2>1. /\ call' = [call EXCEPT ![c] = v] /\ AllClosed(c)
        /\ call[c].op \in {"stopCapture", "stopInterface", "join"}
        /\ UNCHANGED <<root, running, generation, goroutine, cancelled, summary>>
    BY <1>7 DEF StopCaptureEnd, StopInterfaceEnd, StopInterfaceJoined, session
  <2>2. v.op = name /\ v.saw = call[c].saw /\ name \in ReturnedOps
    BY <1>7 DEF Returned, ReturnedOps, TypeOK, CallType
  <2>3. stopping' \subseteq stopping
        /\ (call[c].op \in StopOps => stopping' \cap call[c].on = {})
    BY <1>7 DEF StopCaptureEnd, StopInterfaceEnd, StopInterfaceJoined, session, StopOps
  <2>4. root # "none" /\ (root # "closed" => c = op)
    BY <1>0, <2>1 DEF TruthfulInv, NoCallYet, ExclusiveInv, Idle
  <2>5. ASSUME root # "closed" PROVE v.saw \cap Capturing = {}
    <3>1. call[c].op \in StopOps
      BY <2>1, <2>5 DEF TruthfulInv, SeenIsAwaited, StopOps
    <3>2. call[c].saw \cap Capturing \subseteq call[c].waits
      BY <2>5, <3>1 DEF TruthfulInv, SeenIsAwaited
    <3> QED BY <2>1, <2>2, <3>2 DEF AllClosed, Capturing
  <2> HIDE DEF v
  <2> QED BY <2>1, <2>2, <2>3, <2>4, <2>5, CallEndTruthful
<1>8. ASSUME NEW c \in Operators, NEW i \in Interfaces, StopInterfaceJoin(c, i)
      PROVE  TruthfulInv'
  <2>1. /\ call[c] = Idle /\ i \in stopping /\ c = op
        /\ UNCHANGED <<root, session, summary>> /\ root # "none"
    BY <1>8 DEF StopInterfaceJoin
  <2>2. root = "closed"
    BY <2>1 DEF TruthfulInv, OwnStop, Idle, StopOps
  <2> QED BY <2>1, <2>2 DEF TruthfulInv, Summary, OwnStop, SeenIsAwaited, NoCallYet,
                            session, summary
<1>9. ASSUME NEW c \in Operators, NEW i \in Interfaces, StopInterfaceIdle(c, i)
      PROVE  TruthfulInv'
  <2> DEFINE v == [op |-> "interfaceStopped", on |-> {i}, waits |-> {},
                   saw |-> {r \in Capturing : r[1] = i}]
  <2>1. /\ call' = [call EXCEPT ![c] = v] /\ call[c] = Idle /\ c = op
        /\ i \notin running /\ root # "none"
        /\ UNCHANGED <<root, running, stopping, generation, goroutine, cancelled, summary>>
    BY <1>9 DEF StopInterfaceIdle, session
  <2>2. root # "closed" => v.saw \cap Capturing = {}
    BY <2>1, CapturingIsCurrent
  <2>3. v.op \in ReturnedOps /\ call[c].op \notin StopOps
    BY <2>1 DEF ReturnedOps, Idle, StopOps
  <2> HIDE DEF v
  <2> QED BY <1>0, <2>1, <2>2, <2>3, CallEndTruthful
<1>10. ASSUME NEW c \in Operators, Reply(c) PROVE TruthfulInv'
  <2>1. /\ call' = [call EXCEPT ![c] = Idle] /\ c = op /\ call[c].op \in ReturnedOps
        /\ UNCHANGED <<root, running, stopping, generation, goroutine, cancelled, summary>>
    BY <1>10 DEF Reply, session
  <2>2. Idle.op = "idle" /\ "idle" \notin ReturnedOps /\ call[c].op \notin StopOps
    BY <2>1 DEF Idle, ReturnedOps, StopOps
  <2>3. root # "none"
    BY <1>0, <2>1, <2>2 DEF TruthfulInv, NoCallYet
  <2> QED BY <1>0, <2>1, <2>2, <2>3, CallEndTruthful
<1>11. ASSUME NEW r \in Runs, RunReturns(r) \/ Epilogue(r) \/ CloseDone(r)
       PROVE  TruthfulInv'
  BY <1>11, GoroutineTruthful
<1>12. CASE UNCHANGED vars
  BY <1>12 DEF vars, session, summary, TruthfulInv, Summary, OwnStop, SeenIsAwaited,
               NoCallYet, Capturing
<1> QED BY <1>0, <1>1, <1>2, <1>3, <1>4, <1>5, <1>6, <1>7, <1>8, <1>9, <1>10,
           <1>11, <1>12, LifecycleAssumption DEF Next, OperatorStep

\* What Status shows one operator, and what his Stop calls tell him when they
\* return, is true through any sequence of starts, stops, socket failures and
\* the shutdown: running and stopped agree with the sessions, and no goroutine
\* that the call had to end is still inside Run.
THEOREM StatusTruthfulCorrect ==
  ASSUME NEW op, Operators = {op}
  PROVE  Spec => []StatusTruthful
<1>1. Init => ExclusiveInv
  BY DEF Init, ExclusiveInv, Capturing, Callers
<1>2. Init => TruthfulInv
  BY DEF Init, TruthfulInv, Summary, OwnStop, SeenIsAwaited, NoCallYet, Idle,
         StopOps, ReturnedOps
<1>3. TypeOK /\ SessionInv /\ ExclusiveInv /\ [Next]_vars => ExclusiveInv'
  BY ExclusiveStep
<1>4. TypeOK /\ SessionInv /\ ExclusiveInv /\ TruthfulInv /\ [Next]_vars => TruthfulInv'
  BY TruthfulStep
<1>5. TruthfulInv => StatusTruthful
  BY DEF TruthfulInv, Summary, SeenIsAwaited, StatusTruthful
<1> QED BY <1>1, <1>2, <1>3, <1>4, <1>5, TypeCorrect, SessionInvariant, PTL DEF Spec

-----------------------------------------------------------------------------
\* Attribution.  The types of the tracker and of what it observes.
EntryType == [pid : Pids \cup {Nobody}, time : Int]
EventType == [socket : Sockets, pid : Pids]
TrackerShape ==
  /\ instant \in Nat /\ owner \in [Sockets -> Pids \cup {Nobody}]
  /\ heldAt \in [Sockets -> [Pids -> Int]]
  /\ kernelEvents \in Seq(EventType) /\ kernelEntry \in [Sockets -> EntryType]
  /\ snapshot \in [Sockets -> Pids \cup {Nobody}] /\ lastRefresh \in Int /\ lastRefresh <= instant

\* No process held a socket later than now, and who has it open holds it now.
Holding ==
  \A s \in Sockets :
    /\ \A p \in Pids : heldAt[s][p] >= Never /\ heldAt[s][p] <= instant
    /\ owner[s] # Nobody => heldAt[s][owner[s]] = instant

\* What the kernel tells of, and what the tracker remembers of that, has happened.
Event(s, p) == [socket |-> s, pid |-> p]
Entered(s, p) == kernelEntry[s] # NoEntry /\ kernelEntry[s].pid = p
KernelTrue ==
  /\ \A i \in 1..Len(kernelEvents) : \A s \in Sockets, p \in Pids :
       kernelEvents[i] = Event(s, p) => HeldSince(s, p, 0)
  /\ \A s \in Sockets : kernelEntry[s] # NoEntry => kernelEntry[s].pid \in Pids
  /\ \A s \in Sockets, p \in Pids : Entered(s, p) => HeldSince(s, p, 0)

\* The last event of a socket names who held it last, and has it if anybody has:
\* the last one on its way, or else the one that was entered.
LastOwner(s, p) == LastHolder(s, p) /\ (owner[s] # Nobody => owner[s] = p)
NoneBehind(i, s) == \A j \in 1..Len(kernelEvents) : j > i => kernelEvents[j].socket # s
LastTold ==
  /\ \A i \in 1..Len(kernelEvents) : \A s \in Sockets \ lost, p \in Pids :
       kernelEvents[i] = Event(s, p) /\ NoneBehind(i, s) => LastOwner(s, p)
  /\ \A s \in Sockets \ lost, p \in Pids :
       Entered(s, p) /\ NoneBehind(0, s) => LastOwner(s, p)

\* A process in the snapshot held the socket when the snapshot was taken.
SnapshotTrue ==
  \A s \in Sockets : snapshot[s] # Nobody => HeldSince(s, snapshot[s], lastRefresh)

TrackerInv == TrackerShape /\ Holding /\ KernelTrue /\ LastTold /\ SnapshotTrue

LEMMA SensorIsSomebody == Nobody \notin Pids /\ SensorPid \in Pids
BY AttributionAssumption

LEMMA TrackerStarts == AttributionInit => TrackerInv
<1> SUFFICES ASSUME AttributionInit
             PROVE  TrackerInv
  OBVIOUS
<1>1. /\ instant = 0 /\ kernelEvents = <<>> /\ lastRefresh = -1
      /\ owner = [s \in Sockets |-> Nobody] /\ heldAt = [s \in Sockets |-> [p \in Pids |-> -1]]
      /\ kernelEntry = [s \in Sockets |-> NoEntry] /\ snapshot = [s \in Sockets |-> Nobody]
  BY DEF AttributionInit, Never
<1>2. NoEntry \in EntryType
  BY DEF NoEntry, EntryType, Never
<1>3. TrackerShape
  BY <1>1, <1>2 DEF TrackerShape
<1>4. Holding
  BY <1>1 DEF Holding, Never
<1>5. KernelTrue /\ LastTold /\ SnapshotTrue
  BY <1>1 DEF KernelTrue, LastTold, SnapshotTrue, Entered
<1> QED BY <1>3, <1>4, <1>5 DEF TrackerInv

\* An event on its way names a socket and a process.
LEMMA EventsName ==
  ASSUME TrackerShape, NEW i \in 1..Len(kernelEvents)
  PROVE  \E s \in Sockets, p \in Pids : kernelEvents[i] = Event(s, p)
<1>1. kernelEvents[i] \in EventType
  BY DEF TrackerShape
<1> QED BY <1>1 DEF EventType, Event

\* A process opens a socket: the event that tells it is the last one on its way.
LEMMA OpenTracked ==
  ASSUME TrackerInv, NEW s \in Sockets, NEW p \in Pids, Open(s, p)
  PROVE  TrackerInv'
<1>1. /\ owner[s] = Nobody /\ owner' = [owner EXCEPT ![s] = p]
      /\ heldAt' = [heldAt EXCEPT ![s][p] = instant]
      /\ kernelEvents' = Append(kernelEvents, Event(s, p))
      /\ UNCHANGED <<instant, lost, kernelEntry, snapshot, lastRefresh>>
  BY DEF Open, Event
<1>2. TrackerShape /\ Holding /\ KernelTrue /\ LastTold /\ SnapshotTrue
  BY DEF TrackerInv
<1>3. /\ Len(kernelEvents) \in Nat /\ Len(kernelEvents') = Len(kernelEvents) + 1
      /\ kernelEvents' \in Seq(EventType)
      /\ kernelEvents'[Len(kernelEvents) + 1] = Event(s, p)
      /\ \A i \in 1..Len(kernelEvents) : kernelEvents'[i] = kernelEvents[i]
  <2>1. Event(s, p) \in EventType /\ kernelEvents \in Seq(EventType)
    BY <1>2 DEF TrackerShape, EventType, Event
  <2> QED BY <1>1, <2>1
<1>4. /\ heldAt' \in [Sockets -> [Pids -> Int]] /\ heldAt'[s][p] = instant
      /\ \A z \in Sockets, q \in Pids : (z # s \/ q # p) => heldAt'[z][q] = heldAt[z][q]
      /\ owner'[s] = p /\ \A z \in Sockets : z # s => owner'[z] = owner[z]
  BY <1>1, <1>2 DEF TrackerShape
<1>5. TrackerShape'
  BY <1>1, <1>2, <1>3, <1>4 DEF TrackerShape
<1>6. Holding'
  BY <1>1, <1>2, <1>4, SensorIsSomebody DEF TrackerShape, Holding, Never
<1>7. \A z \in Sockets, q \in Pids : \A time \in Int :
        HeldSince(z, q, time) => HeldSince(z, q, time)'
  BY <1>1, <1>2, <1>4 DEF TrackerShape, Holding, HeldSince, Never
<1>8. HeldSince(s, p, 0)'
  BY <1>2, <1>4 DEF TrackerShape, HeldSince, Never
<1>9. KernelTrue'
  <2>1. ASSUME NEW i \in 1..Len(kernelEvents'), NEW z \in Sockets, NEW q \in Pids,
               kernelEvents'[i] = Event(z, q)
        PROVE  HeldSince(z, q, 0)'
    <3>1. CASE i = Len(kernelEvents) + 1
      BY <1>3, <1>8, <2>1, <3>1 DEF Event
    <3>2. CASE i # Len(kernelEvents) + 1
      <4>1. i \in 1..Len(kernelEvents) /\ kernelEvents[i] = Event(z, q)
        BY <1>3, <2>1, <3>2
      <4> QED BY <1>2, <1>7, <4>1 DEF KernelTrue
    <3> QED BY <3>1, <3>2
  <2>2. ASSUME NEW z \in Sockets, NEW q \in Pids, Entered(z, q)'
        PROVE  HeldSince(z, q, 0)'
    BY <1>1, <1>2, <1>7, <2>2 DEF KernelTrue, Entered
  <2>3. ASSUME NEW z \in Sockets, kernelEntry'[z] # NoEntry
        PROVE  kernelEntry'[z].pid \in Pids
    BY <1>1, <1>2, <2>3 DEF KernelTrue
  <2> QED BY <2>1, <2>2, <2>3 DEF KernelTrue
<1>10. LastOwner(s, p)'
  BY <1>1, <1>2, <1>4 DEF LastOwner, LastHolder, Holding, TrackerShape
<1>11. \A z \in Sockets, q \in Pids : z # s /\ LastOwner(z, q) => LastOwner(z, q)'
  BY <1>4 DEF LastOwner, LastHolder
<1>12. ASSUME NEW z, NEW i \in 0..Len(kernelEvents), NoneBehind(i, z)'
       PROVE  z # s /\ NoneBehind(i, z)
  BY <1>3, <1>12 DEF NoneBehind, Event
<1>13. LastTold'
  <2>1. ASSUME NEW i \in 1..Len(kernelEvents'), NEW z \in Sockets \ lost', NEW q \in Pids,
               kernelEvents'[i] = Event(z, q), NoneBehind(i, z)'
        PROVE  LastOwner(z, q)'
    <3>1. CASE i = Len(kernelEvents) + 1
      BY <1>3, <1>10, <2>1, <3>1 DEF Event
    <3>2. CASE i # Len(kernelEvents) + 1
      <4>1. i \in 1..Len(kernelEvents) /\ kernelEvents[i] = Event(z, q)
        BY <1>3, <2>1, <3>2
      <4>2. z # s /\ NoneBehind(i, z)
        BY <1>12, <2>1, <4>1
      <4>3. LastOwner(z, q)
        BY <1>1, <1>2, <4>1, <4>2 DEF LastTold
      <4> QED BY <1>11, <4>2, <4>3
    <3> QED BY <3>1, <3>2
  <2>2. ASSUME NEW z \in Sockets \ lost', NEW q \in Pids, Entered(z, q)', NoneBehind(0, z)'
        PROVE  LastOwner(z, q)'
    <3>1. z # s /\ NoneBehind(0, z)
      BY <1>3, <1>12, <2>2
    <3>2. LastOwner(z, q)
      BY <1>1, <1>2, <2>2, <3>1 DEF LastTold, Entered
    <3> QED BY <1>11, <3>1, <3>2
  <2> QED BY <2>1, <2>2 DEF LastTold
<1>14. SnapshotTrue'
  BY <1>1, <1>2, <1>7 DEF SnapshotTrue, TrackerShape
<1> QED BY <1>5, <1>6, <1>9, <1>13, <1>14 DEF TrackerInv

\* A socket is closed: who held it last stays its last holder.
LEMMA CloseTracked ==
  ASSUME TrackerInv, NEW s \in Sockets, Close(s)
  PROVE  TrackerInv'
<1>1. /\ owner' = [owner EXCEPT ![s] = Nobody]
      /\ UNCHANGED <<instant, heldAt, kernelEvents, lost, kernelEntry, snapshot, lastRefresh>>
  BY DEF Close
<1>2. TrackerShape /\ Holding /\ KernelTrue /\ LastTold /\ SnapshotTrue
  BY DEF TrackerInv
<1>3. owner' \in [Sockets -> Pids \cup {Nobody}]
      /\ \A z \in Sockets : owner'[z] = owner[z] \/ owner'[z] = Nobody
  BY <1>1, <1>2 DEF TrackerShape
<1>4. TrackerShape' /\ Holding'
  BY <1>1, <1>2, <1>3 DEF TrackerShape, Holding
<1>5. KernelTrue' /\ SnapshotTrue'
  BY <1>1, <1>2 DEF KernelTrue, SnapshotTrue, HeldSince, Entered
<1>6. \A z \in Sockets : \A q : LastOwner(z, q) => LastOwner(z, q)'
  BY <1>1, <1>3 DEF LastOwner, LastHolder
<1>7. LastTold'
  BY <1>1, <1>2, <1>6 DEF LastTold, NoneBehind, Entered
<1> QED BY <1>4, <1>5, <1>7 DEF TrackerInv

\* Time passes: those who have a socket open hold it still, and nobody else.
LEMMA PassTracked ==
  ASSUME TrackerInv, Pass
  PROVE  TrackerInv'
<1>1. /\ instant' = instant + 1
      /\ heldAt' = [s \in Sockets |-> [p \in Pids |-> IF owner[s] = p THEN instant' ELSE heldAt[s][p]]]
      /\ UNCHANGED <<owner, kernelEvents, lost, kernelEntry, snapshot, lastRefresh>>
  BY DEF Pass
<1>2. TrackerShape /\ Holding /\ KernelTrue /\ LastTold /\ SnapshotTrue
  BY DEF TrackerInv
<1>3. \A s \in Sockets, p \in Pids :
        /\ heldAt[s][p] \in Int /\ heldAt[s][p] <= instant /\ heldAt[s][p] >= -1
        /\ heldAt'[s][p] = IF owner[s] = p THEN instant + 1 ELSE heldAt[s][p]
  BY <1>1, <1>2 DEF TrackerShape, Holding, Never
<1>4. instant \in Nat
  BY <1>2 DEF TrackerShape
<1>5. TrackerShape'
  BY <1>1, <1>2, <1>3 DEF TrackerShape
<1>6. Holding'
  BY <1>1, <1>2, <1>3, <1>4 DEF TrackerShape, Holding, Never
<1>7. \A z \in Sockets, q \in Pids : \A time \in Int :
        HeldSince(z, q, time) => HeldSince(z, q, time)'
  BY <1>3, <1>4 DEF HeldSince, Never
<1>8. KernelTrue'
  BY <1>1, <1>2, <1>7 DEF KernelTrue, Entered
<1>9. SnapshotTrue'
  BY <1>1, <1>2, <1>7 DEF SnapshotTrue, TrackerShape
<1>10. \A z \in Sockets, q \in Pids : LastOwner(z, q) => LastOwner(z, q)'
  BY <1>1, <1>2, <1>3, <1>4, SensorIsSomebody DEF LastOwner, LastHolder, TrackerShape
<1>11. LastTold'
  BY <1>1, <1>2, <1>10 DEF LastTold, NoneBehind, Entered
<1> QED BY <1>5, <1>6, <1>8, <1>9, <1>11 DEF TrackerInv

\* The first event leaves the channel; the others keep their order.
LEMMA EventsMoveUp ==
  ASSUME TrackerShape, kernelEvents # <<>>, kernelEvents' = Tail(kernelEvents)
  PROVE  /\ Len(kernelEvents) \in Nat \ {0} /\ Len(kernelEvents') = Len(kernelEvents) - 1
         /\ kernelEvents' \in Seq(EventType) /\ Head(kernelEvents) = kernelEvents[1]
         /\ \A i \in 1..Len(kernelEvents') : kernelEvents'[i] = kernelEvents[i + 1]
         /\ \A i \in Nat : \A z : NoneBehind(i, z)' => NoneBehind(i + 1, z)
<1>1. kernelEvents \in Seq(EventType)
  BY DEF TrackerShape
<1>2. /\ Len(kernelEvents) \in Nat \ {0} /\ Len(kernelEvents') = Len(kernelEvents) - 1
      /\ kernelEvents' \in Seq(EventType) /\ Head(kernelEvents) = kernelEvents[1]
      /\ \A i \in 1..Len(kernelEvents') : kernelEvents'[i] = kernelEvents[i + 1]
  BY <1>1
<1>3. ASSUME NEW i \in Nat, NEW z, NoneBehind(i, z)'
      PROVE  NoneBehind(i + 1, z)
  <2> SUFFICES ASSUME NEW j \in 1..Len(kernelEvents), j > i + 1
               PROVE  kernelEvents[j].socket # z
    BY DEF NoneBehind
  <2>1. j - 1 \in 1..Len(kernelEvents') /\ j - 1 > i /\ kernelEvents'[j - 1] = kernelEvents[j]
    BY <1>2
  <2> QED BY <1>3, <2>1 DEF NoneBehind
<1> QED BY <1>2, <1>3

\* An event is entered: when it was the last of its socket on its way, it names who
\* held the socket last.
LEMMA AddKernelEventTracked ==
  ASSUME TrackerInv, AddKernelEvent
  PROVE  TrackerInv'
<1>1. /\ kernelEvents # <<>> /\ kernelEvents' = Tail(kernelEvents)
      /\ kernelEntry' = [PrunedEntries EXCEPT ![Head(kernelEvents).socket] =
                           [pid |-> Head(kernelEvents).pid, time |-> instant]]
      /\ UNCHANGED <<instant, owner, heldAt, lost, snapshot, lastRefresh>>
  BY DEF AddKernelEvent
<1>2. TrackerShape /\ Holding /\ KernelTrue /\ LastTold /\ SnapshotTrue
  BY DEF TrackerInv
<1>3. /\ Len(kernelEvents) \in Nat \ {0} /\ Len(kernelEvents') = Len(kernelEvents) - 1
      /\ kernelEvents' \in Seq(EventType) /\ Head(kernelEvents) = kernelEvents[1]
      /\ \A i \in 1..Len(kernelEvents') : kernelEvents'[i] = kernelEvents[i + 1]
      /\ \A i \in Nat : \A z : NoneBehind(i, z)' => NoneBehind(i + 1, z)
  BY <1>1, <1>2, EventsMoveUp
<1>4. 1 \in 1..Len(kernelEvents)
  BY <1>3
<1>5. PICK s \in Sockets, p \in Pids : kernelEvents[1] = Event(s, p)
  BY <1>2, <1>4, EventsName
<1>6. /\ kernelEntry' \in [Sockets -> EntryType]
      /\ kernelEntry'[s] = [pid |-> p, time |-> instant]
      /\ \A z \in Sockets : z # s => kernelEntry'[z] = kernelEntry[z] \/ kernelEntry'[z] = NoEntry
  <2>1. NoEntry \in EntryType
    BY DEF NoEntry, EntryType, Never
  <2>2. PrunedEntries \in [Sockets -> EntryType]
        /\ \A z \in Sockets : PrunedEntries[z] = kernelEntry[z] \/ PrunedEntries[z] = NoEntry
    BY <1>2, <2>1 DEF PrunedEntries, TrackerShape
  <2>3. [pid |-> p, time |-> instant] \in EntryType
    BY <1>2 DEF EntryType, TrackerShape
  <2>4. Head(kernelEvents).socket = s /\ Head(kernelEvents).pid = p
    BY <1>3, <1>5 DEF Event
  <2>5. kernelEntry' = [PrunedEntries EXCEPT ![s] = [pid |-> p, time |-> instant]]
    BY <1>1, <2>4
  <2> QED BY <2>2, <2>3, <2>5
<1>7. TrackerShape'
  BY <1>1, <1>2, <1>3, <1>6 DEF TrackerShape
<1>8. Holding' /\ SnapshotTrue'
  BY <1>1, <1>2 DEF Holding, SnapshotTrue, HeldSince
<1>9. \A z, q : HeldSince(z, q, 0)' = HeldSince(z, q, 0) /\ LastOwner(z, q)' = LastOwner(z, q)
  BY <1>1 DEF HeldSince, LastOwner, LastHolder
<1>10. ASSUME NEW z \in Sockets, NEW q \in Pids, Entered(z, q)'
       PROVE  IF z = s THEN q = p ELSE Entered(z, q)
  BY <1>6, <1>10 DEF Entered
<1>11. KernelTrue'
  <2>1. HeldSince(s, p, 0)
    BY <1>2, <1>4, <1>5 DEF KernelTrue
  <2>2. ASSUME NEW z \in Sockets, kernelEntry'[z] # NoEntry
        PROVE  kernelEntry'[z].pid \in Pids
    BY <1>2, <1>6, <2>2 DEF KernelTrue
  <2>3. ASSUME NEW z \in Sockets, NEW q \in Pids, Entered(z, q)'
        PROVE  HeldSince(z, q, 0)'
    BY <1>2, <1>9, <1>10, <2>1, <2>3 DEF KernelTrue
  <2>4. ASSUME NEW i \in 1..Len(kernelEvents'), NEW z \in Sockets, NEW q \in Pids,
               kernelEvents'[i] = Event(z, q)
        PROVE  HeldSince(z, q, 0)'
    <3>1. i + 1 \in 1..Len(kernelEvents) /\ kernelEvents[i + 1] = Event(z, q)
      BY <1>3, <2>4
    <3> QED BY <1>2, <1>9, <3>1 DEF KernelTrue
  <2> QED BY <2>2, <2>3, <2>4 DEF KernelTrue
<1>12. LastTold'
  <2>1. ASSUME NEW i \in 1..Len(kernelEvents'), NEW z \in Sockets \ lost', NEW q \in Pids,
               kernelEvents'[i] = Event(z, q), NoneBehind(i, z)'
        PROVE  LastOwner(z, q)'
    <3>1. i + 1 \in 1..Len(kernelEvents) /\ kernelEvents[i + 1] = Event(z, q)
      BY <1>3, <2>1
    <3>2. NoneBehind(i + 1, z)
      <4>1. i \in Nat
        BY <1>3
      <4>2. \A k : NoneBehind(i, k)' => NoneBehind(i + 1, k)
        BY <1>3, <4>1
      <4> QED BY <2>1, <4>2
    <3> QED BY <1>1, <1>2, <1>9, <3>1, <3>2 DEF LastTold
  <2>2. ASSUME NEW z \in Sockets \ lost', NEW q \in Pids, Entered(z, q)', NoneBehind(0, z)'
        PROVE  LastOwner(z, q)'
    <3>1. NoneBehind(0 + 1, z)
      BY <1>3, <2>2
    <3>2. CASE z = s
      BY <1>1, <1>2, <1>4, <1>5, <1>9, <1>10, <2>2, <3>1, <3>2 DEF LastTold
    <3>3. CASE z # s
      <4>1. Entered(z, q)
        BY <1>10, <2>2, <3>3
      <4>2. NoneBehind(0, z)
        <5> SUFFICES ASSUME NEW j \in 1..Len(kernelEvents)
                     PROVE  kernelEvents[j].socket # z
          BY DEF NoneBehind
        <5> QED BY <1>5, <3>1, <3>3 DEF NoneBehind, Event
      <4> QED BY <1>1, <1>2, <1>9, <4>1, <4>2 DEF LastTold
    <3> QED BY <3>2, <3>3
  <2> QED BY <2>1, <2>2 DEF LastTold
<1> QED BY <1>7, <1>8, <1>11, <1>12 DEF TrackerInv

\* An event is lost, and with it the order of those of its socket.
LEMMA LoseKernelEventTracked ==
  ASSUME TrackerInv, LoseKernelEvent
  PROVE  TrackerInv'
<1>1. /\ kernelEvents # <<>> /\ kernelEvents' = Tail(kernelEvents)
      /\ lost' = lost \cup {Head(kernelEvents).socket}
      /\ UNCHANGED <<instant, owner, heldAt, kernelEntry, snapshot, lastRefresh>>
  BY DEF LoseKernelEvent
<1>2. TrackerShape /\ Holding /\ KernelTrue /\ LastTold /\ SnapshotTrue
  BY DEF TrackerInv
<1>3. /\ Len(kernelEvents) \in Nat \ {0} /\ Len(kernelEvents') = Len(kernelEvents) - 1
      /\ kernelEvents' \in Seq(EventType) /\ Head(kernelEvents) = kernelEvents[1]
      /\ \A i \in 1..Len(kernelEvents') : kernelEvents'[i] = kernelEvents[i + 1]
      /\ \A i \in Nat : \A z : NoneBehind(i, z)' => NoneBehind(i + 1, z)
  BY <1>1, <1>2, EventsMoveUp
<1>4. TrackerShape' /\ Holding' /\ SnapshotTrue'
  BY <1>1, <1>2, <1>3 DEF TrackerShape, Holding, SnapshotTrue, HeldSince
<1>5. \A z, q : HeldSince(z, q, 0)' = HeldSince(z, q, 0) /\ LastOwner(z, q)' = LastOwner(z, q)
  BY <1>1 DEF HeldSince, LastOwner, LastHolder
<1>6. ASSUME NEW i \in 1..Len(kernelEvents'), NEW z, NEW q, kernelEvents'[i] = Event(z, q)
      PROVE  i + 1 \in 1..Len(kernelEvents) /\ kernelEvents[i + 1] = Event(z, q)
  BY <1>3, <1>6
<1>7. KernelTrue'
  BY <1>1, <1>2, <1>5, <1>6 DEF KernelTrue, Entered
<1>8. LastTold'
  <2>1. ASSUME NEW i \in 1..Len(kernelEvents'), NEW z \in Sockets \ lost', NEW q \in Pids,
               kernelEvents'[i] = Event(z, q), NoneBehind(i, z)'
        PROVE  LastOwner(z, q)'
    <3>1. NoneBehind(i + 1, z)
      <4>1. i \in Nat
        BY <1>3
      <4>2. \A k : NoneBehind(i, k)' => NoneBehind(i + 1, k)
        BY <1>3, <4>1
      <4> QED BY <2>1, <4>2
    <3> QED BY <1>1, <1>2, <1>5, <1>6, <2>1, <3>1 DEF LastTold
  <2>2. ASSUME NEW z \in Sockets \ lost', NEW q \in Pids, Entered(z, q)', NoneBehind(0, z)'
        PROVE  LastOwner(z, q)'
    <3>1. NoneBehind(0 + 1, z)
      BY <1>3, <2>2
    <3>2. kernelEvents[1].socket # z
      BY <1>1, <1>3, <2>2
    <3>3. NoneBehind(0, z)
      <4> SUFFICES ASSUME NEW j \in 1..Len(kernelEvents)
                   PROVE  kernelEvents[j].socket # z
        BY DEF NoneBehind
      <4> QED BY <3>1, <3>2 DEF NoneBehind
    <3> QED BY <1>1, <1>2, <1>5, <2>2, <3>3 DEF LastTold, Entered
  <2> QED BY <2>1, <2>2 DEF LastTold
<1> QED BY <1>4, <1>7, <1>8 DEF TrackerInv

\* A snapshot is taken: who is found by an inode holds that socket now.
LEMMA RefreshTracked ==
  ASSUME TrackerInv, RefreshBegin \/ RefreshEnd
  PROVE  TrackerInv'
<1>1. TrackerShape /\ Holding /\ KernelTrue /\ LastTold /\ SnapshotTrue
  BY DEF TrackerInv
<1>2. UNCHANGED <<instant, owner, heldAt, kernelEvents, lost, kernelEntry>>
  BY DEF RefreshBegin, RefreshEnd
<1>3. KernelTrue' /\ LastTold' /\ Holding'
  BY <1>1, <1>2 DEF KernelTrue, LastTold, Holding, HeldSince, LastOwner, LastHolder, NoneBehind,
                    Entered
<1>4. CASE RefreshBegin
  BY <1>1, <1>2, <1>3, <1>4 DEF RefreshBegin, TrackerInv, TrackerShape, SnapshotTrue, HeldSince
<1>5. CASE RefreshEnd
  <2>1. lastRefresh' = instant /\ snapshot' = [s \in Sockets |-> Scanned(s)]
    BY <1>5 DEF RefreshEnd
  <2>2. \A s \in Sockets : snapshot'[s] = owner[s] \/ snapshot'[s] = Nobody
    BY <2>1 DEF Scanned
  <2>3. TrackerShape'
    BY <1>1, <1>2, <2>1, <2>2 DEF TrackerShape
  <2>4. SnapshotTrue'
    BY <1>1, <1>2, <2>1, <2>2 DEF SnapshotTrue, HeldSince, Holding, TrackerShape, Never
  <2> QED BY <1>3, <2>3, <2>4 DEF TrackerInv
<1> QED BY <1>4, <1>5

LEMMA TrackerInvKept == TrackerInv /\ [AttributionNext]_trackerVars => TrackerInv'
<1> SUFFICES ASSUME TrackerInv, [AttributionNext]_trackerVars
             PROVE  TrackerInv'
  OBVIOUS
<1>1. CASE UNCHANGED trackerVars
  BY <1>1 DEF trackerVars, TrackerInv, TrackerShape, Holding, KernelTrue, LastTold, SnapshotTrue,
              HeldSince, LastOwner, LastHolder, NoneBehind, Entered
<1> QED BY <1>1, OpenTracked, CloseTracked, PassTracked, AddKernelEventTracked,
           LoseKernelEventTracked, RefreshTracked DEF AttributionNext

\* A set of positions that is not empty has a first one.
LEMMA EarliestIs ==
  ASSUME NEW S, S \subseteq Nat, S # {}
  PROVE  Earliest(S) \in S
<1>1. IsWellFoundedOn(OpToRel(<, Nat), Nat)
  BY NatLessThanWellFounded
<1>2. PICK s \in S : \A t \in S : ~ (<<t, s>> \in OpToRel(<, Nat))
  BY <1>1, WFMin
<1>3. ASSUME NEW t \in S PROVE s <= t
  <2>1. s \in Nat /\ t \in Nat
    OBVIOUS
  <2>2. t < s => <<t, s>> \in OpToRel(<, Nat)
    BY <2>1 DEF OpToRel
  <2>3. ~(t < s)
    BY <1>2, <2>2
  <2> QED BY <2>1, <2>3
<1> QED BY <1>2, <1>3 DEF Earliest

\* The ends of a flow, and the sockets that are found for one of them.
LEMMA EndsAre ==
  ASSUME NEW f \in TrackedFlows
  PROVE  /\ DOMAIN Ends[f] \subseteq Nat
         /\ \A i \in DOMAIN Ends[f] : /\ Ends[f][i].exact \subseteq Sockets
                                      /\ Ends[f][i].bound \subseteq Sockets
                                      /\ Ends[f][i].any \subseteq Sockets
<1>1. Ends[f] \in Seq([exact : SUBSET Sockets, bound : SUBSET Sockets, any : SUBSET Sockets])
  BY AttributionAssumption
<1>2. DOMAIN Ends[f] \subseteq Nat /\ \A i \in DOMAIN Ends[f] : i \in 1..Len(Ends[f])
  BY <1>1
<1>3. /\ \A i \in DOMAIN Ends[f] :
           Ends[f][i] \in [exact : SUBSET Sockets, bound : SUBSET Sockets, any : SUBSET Sockets]
  BY <1>1, <1>2, ElementOfSeq
<1> QED BY <1>2, <1>3

\* A process that is looked up is what the kernel said of the flow's own socket, or
\* what the snapshot says of a socket of one of its ends.
LEMMA LookupIs ==
  ASSUME NEW f \in TrackedFlows, NEW p \in Lookup(f).pids
  PROVE  \/ /\ Lookup(f).source = "ebpf-socket"
            /\ \E i \in DOMAIN Ends[f] : \E s \in Ends[f][i].exact :
                 kernelEntry[s].pid = p /\ Within(kernelEntry[s].time, KernelLife)
         \/ /\ Lookup(f).source # "ebpf-socket"
            /\ p # Nobody /\ \E s \in SocketsAt(f) : snapshot[s] = p
<1>1. CASE KernelKnows(f) # {}
  <2> DEFINE i == Earliest(KernelKnows(f))
  <2>1. i \in DOMAIN Ends[f]
    <3>1. KernelKnows(f) \subseteq Nat
      BY EndsAre DEF KernelKnows
    <3>2. i \in KernelKnows(f)
      BY <1>1, <3>1, EarliestIs
    <3> QED BY <3>2 DEF KernelKnows
  <2>2. Lookup(f) = KernelOffer(Ends[f][i])
    BY <1>1 DEF Lookup
  <2> HIDE DEF i
  <2> QED BY <2>1, <2>2 DEF KernelOffer, Offer
<1>2. CASE KernelKnows(f) = {} /\ Mapped(f) # {}
  <2> DEFINE i == Earliest(Mapped(f))
             j == Earliest(Matches(Ends[f][i]))
  <2>1. i \in DOMAIN Ends[f] /\ Matches(Ends[f][i]) # {}
    <3>1. Mapped(f) \subseteq Nat
      BY EndsAre DEF Mapped
    <3>2. i \in Mapped(f)
      BY <1>2, <3>1, EarliestIs
    <3> QED BY <3>2 DEF Mapped
  <2>2. Lookup(f) = SnapshotOffers(Ends[f][i])[j]
    BY <1>2 DEF Lookup
  <2>3. j \in 1..3
    <3> HIDE DEF i
    <3>1. Matches(Ends[f][i]) \subseteq Nat
      BY DEF Matches
    <3>2. j \in Matches(Ends[f][i])
      BY <2>1, <3>1, EarliestIs
    <3> QED BY <3>2 DEF Matches
  <2> HIDE DEF i, j
  <2>4. Lookup(f).source # "ebpf-socket"
        /\ (\/ Lookup(f).pids = ProcessesOf(Ends[f][i].exact)
            \/ Lookup(f).pids = ProcessesOf(Ends[f][i].bound)
            \/ Lookup(f).pids = ProcessesOf(Ends[f][i].any))
    BY <2>2, <2>3 DEF SnapshotOffers, Offer
  <2>5. p # Nobody /\ \E s \in Ends[f][i].exact \cup Ends[f][i].bound \cup Ends[f][i].any : snapshot[s] = p
    BY <2>4 DEF ProcessesOf
  <2> QED BY <2>1, <2>4, <2>5 DEF SocketsAt
<1>3. CASE KernelKnows(f) = {} /\ Mapped(f) = {}
  BY <1>3 DEF Lookup, Offer
<1> QED BY <1>1, <1>2, <1>3

\* When all events of a socket have arrived the entry names its last holder.
LEMMA EntryIsLast ==
  ASSUME TrackerInv, NEW s \in Sockets, kernelEntry[s].time # Never
  PROVE  /\ kernelEntry[s].pid \in Pids /\ HeldSince(s, kernelEntry[s].pid, 0)
         /\ AllArrived(s) => LastHolder(s, kernelEntry[s].pid)
<1>1. kernelEntry[s] # NoEntry
  BY DEF NoEntry
<1>2. AllArrived(s) => s \notin lost /\ NoneBehind(0, s)
  BY DEF AllArrived, NoneBehind, TrackerInv, TrackerShape
<1> QED BY <1>1, <1>2 DEF TrackerInv, KernelTrue, LastTold, LastOwner, Entered

LEMMA TrackerInvMeans == TrackerInv => SocketsAttributed
<1> SUFFICES ASSUME TrackerInv, NEW f \in TrackedFlows
             PROVE  /\ \A p \in Lookup(f).pids :
                         IF Lookup(f).source = "ebpf-socket"
                         THEN \E i \in DOMAIN Ends[f] : \E s \in Ends[f][i].exact :
                                HeldSince(s, p, 0) /\ (AllArrived(s) => LastHolder(s, p))
                         ELSE \E s \in SocketsAt(f) : HeldSince(s, p, lastRefresh)
                    /\ OwnsConnection(f) => \E s \in SocketsAt(f) :
                         \/ HeldSince(s, SensorPid, instant - OwnLife + 1)
                         \/ HeldSince(s, SensorPid, 0) /\ (AllArrived(s) => LastHolder(s, SensorPid))
  BY DEF SocketsAttributed
<1>1. SocketsAt(f) \subseteq Sockets
  BY EndsAre DEF SocketsAt
<1>2. \A s \in SocketsAt(f) : snapshot[s] # Nobody => HeldSince(s, snapshot[s], lastRefresh)
  BY <1>1 DEF TrackerInv, SnapshotTrue
<1>3. \A p \in Lookup(f).pids :
        IF Lookup(f).source = "ebpf-socket"
        THEN \E i \in DOMAIN Ends[f] : \E s \in Ends[f][i].exact :
               HeldSince(s, p, 0) /\ (AllArrived(s) => LastHolder(s, p))
        ELSE \E s \in SocketsAt(f) : HeldSince(s, p, lastRefresh)
  <2> TAKE p \in Lookup(f).pids
  <2>1. CASE Lookup(f).source = "ebpf-socket"
    <3>1. PICK i \in DOMAIN Ends[f] : \E s \in Ends[f][i].exact :
            kernelEntry[s].pid = p /\ Within(kernelEntry[s].time, KernelLife)
      BY <2>1, LookupIs
    <3>2. PICK s \in Ends[f][i].exact :
            kernelEntry[s].pid = p /\ Within(kernelEntry[s].time, KernelLife)
      BY <3>1
    <3>3. s \in Sockets /\ kernelEntry[s].time # Never
      BY <3>2, EndsAre DEF Within
    <3>4. HeldSince(s, p, 0) /\ (AllArrived(s) => LastHolder(s, p))
      BY <3>2, <3>3, EntryIsLast
    <3> QED BY <2>1, <3>4
  <2>2. CASE Lookup(f).source # "ebpf-socket"
    <3>1. p # Nobody /\ \E s \in SocketsAt(f) : snapshot[s] = p
      BY <2>2, LookupIs
    <3> QED BY <1>2, <2>2, <3>1
  <2> QED BY <2>1, <2>2
<1>4. ASSUME OwnsConnection(f)
      PROVE  \E s \in SocketsAt(f) :
               \/ HeldSince(s, SensorPid, instant - OwnLife + 1)
               \/ HeldSince(s, SensorPid, 0) /\ (AllArrived(s) => LastHolder(s, SensorPid))
  <2>1. PICK i \in DOMAIN Ends[f] :
          \/ \E s \in Ends[f][i].exact :
               kernelEntry[s].pid = SensorPid /\ Within(kernelEntry[s].time, KernelLife)
          \/ /\ Within(lastRefresh, OwnLife)
             /\ \E s \in Ends[f][i].exact \cup Ends[f][i].bound \cup Ends[f][i].any :
                  snapshot[s] = SensorPid
    BY <1>4 DEF OwnsConnection
  <2>2. Ends[f][i].exact \cup Ends[f][i].bound \cup Ends[f][i].any \subseteq SocketsAt(f)
    BY DEF SocketsAt
  <2>3. ASSUME NEW s \in Ends[f][i].exact, kernelEntry[s].pid = SensorPid,
               Within(kernelEntry[s].time, KernelLife)
        PROVE  s \in SocketsAt(f) /\ HeldSince(s, SensorPid, 0)
               /\ (AllArrived(s) => LastHolder(s, SensorPid))
    <3>1. s \in SocketsAt(f) /\ s \in Sockets /\ kernelEntry[s].time # Never
      BY <1>1, <2>2, <2>3 DEF Within
    <3> QED BY <2>3, <3>1, EntryIsLast
  <2>4. ASSUME Within(lastRefresh, OwnLife),
               NEW s \in Ends[f][i].exact \cup Ends[f][i].bound \cup Ends[f][i].any,
               snapshot[s] = SensorPid
        PROVE  s \in SocketsAt(f) /\ HeldSince(s, SensorPid, instant - OwnLife + 1)
    <3>1. s \in SocketsAt(f) /\ s \in Sockets
      BY <1>1, <2>2
    <3>2. HeldSince(s, SensorPid, lastRefresh)
      BY <1>2, <2>4, <3>1, SensorIsSomebody
    <3>3. OwnLife \in Nat /\ lastRefresh \in Int /\ instant \in Nat /\ heldAt[s][SensorPid] \in Int
      BY <3>1, AttributionAssumption DEF TrackerInv, TrackerShape
    <3> QED BY <2>4, <3>1, <3>2, <3>3 DEF HeldSince, Within
  <2> QED BY <2>1, <2>3, <2>4
<1> QED BY <1>3, <1>4

\* A process is named for a flow, and traffic hidden as the sensor's own, only on
\* true evidence (Lookup, OwnsConnection), for any sockets, processes, flows and
\* lost events, whenever sockets are opened, closed and opened again.
THEOREM SocketsAttributedCorrect == AttributionSpec => []SocketsAttributed
BY TrackerStarts, TrackerInvKept, TrackerInvMeans, PTL DEF AttributionSpec

-----------------------------------------------------------------------------
\* Behaviours.  The types of what the engines keep.
FlowType ==
  [actor : Programs, remote : RemoteHosts, service : BOOLEAN, time : Int, n : Nat]
AlertRules == {"exfil-volume", "fanout", "connection-burst", "beacon"}
AlertType == [rule : AlertRules, flow : Nat, time : Int]
Elements(s) == {s[i] : i \in DOMAIN s}
EnginesShape ==
  /\ newFlows \in Seq(FlowType) /\ alerts \in Seq(AlertType) /\ everAlerted \subseteq AlertType
  /\ \A k \in DOMAIN alertedAt : alertedAt[k] \in Int

\* The windows hold flows that were created; while times go up, every recent one.
Youngest == newFlows[Len(newFlows)].time
StillRecent(i, window) == newFlows[i].time > Youngest - window
WindowsTrue ==
  /\ windowed \subseteq FlowsBefore(Len(newFlows))
  /\ \A f \in reached : f \in FlowsBefore(Len(newFlows)) /\ f.service
  /\ Monotonic(Len(newFlows)) => \A i \in 1..Len(newFlows) :
       /\ StillRecent(i, EventWindow) => newFlows[i] \in windowed
       /\ StillRecent(i, LateralWindow) /\ newFlows[i].service => newFlows[i] \in reached

FanOutHostsOf(n) == {f.remote : f \in FanOutFlows(n)}
LateralHostsOf(n) == {f.remote : f \in LateralFlows(n)}
FanOutRight(n) ==
  /\ FanOutTold(n) => Cardinality(FanOutHostsOf(n)) >= FanOutHosts
  /\ Monotonic(n) => (FanOutTold(n) <=> Cardinality(FanOutHostsOf(n)) >= FanOutHosts)
LateralRight(n) ==
  /\ \A x \in lateral : x.hosts \subseteq LateralHostsOf(n)
  /\ Monotonic(n) /\ newFlows[n].service =>
       (lateral # {} <=> Cardinality(LateralHostsOf(n)) >= LateralHosts)
FlowsRight ==
  /\ \A n \in 1..Len(newFlows) : FanOutRight(n)
  /\ newFlows # <<>> => LateralRight(Len(newFlows))

\* The time kept for a rule and a flow is the latest of its alerts.
MutesTrue ==
  /\ \A a \in everAlerted :
       /\ a.flow \in 1..Len(newFlows)
       /\ <<a.rule, a.flow>> \in DOMAIN alertedAt /\ a.time <= alertedAt[<<a.rule, a.flow>>]
  /\ \A k \in DOMAIN alertedAt : k[2] \in 1..Len(newFlows)
  /\ \A a, b \in everAlerted : a.rule = b.rule /\ a.flow = b.flow /\ a # b =>
       a.time - b.time >= AlertMute \/ b.time - a.time >= AlertMute

\* Until the list is full it holds every alert.
ListTrue ==
  /\ Elements(alerts) \subseteq everAlerted /\ Len(alerts) <= MaxAlerts
  /\ Len(alerts) = MaxAlerts \/ everAlerted = Elements(alerts)

BehavioursInv == EnginesShape /\ WindowsTrue /\ FlowsRight /\ MutesTrue /\ ListTrue

\* A finite set has at most as many images.
LEMMA ImagesFew ==
  ASSUME NEW S, IsFiniteSet(S), NEW f, f = [x \in S |-> f[x]]
  PROVE  LET T == {f[x] : x \in S} IN IsFiniteSet(T) /\ Cardinality(T) <= Cardinality(S)
<1> DEFINE T == {f[x] : x \in S}
<1>1. f \in Surjection(S, T)
  BY DEF Surjection
<1> HIDE DEF T
<1>2. IsFiniteSet(T) /\ Cardinality(T) <= Cardinality(S)
  BY <1>1, FS_Surjection
<1> QED BY <1>2 DEF T

\* The bounds are numbers.
LEMMA BehavioursBounds ==
  /\ MaxAlerts \in Nat /\ AlertMute \in Nat /\ EventWindow \in Nat /\ FanOutHosts \in Nat
  /\ LateralWindow \in Nat \ {0} /\ LateralHosts \in Nat
BY BehavioursAssumption

LEMMA BehavioursStart == BehavioursInit => BehavioursInv
<1> SUFFICES ASSUME BehavioursInit
             PROVE  BehavioursInv
  OBVIOUS
<1>1. /\ newFlows = <<>> /\ alerts = <<>> /\ everAlerted = {} /\ alertedAt = <<>>
      /\ windowed = {} /\ reached = {}
  BY DEF BehavioursInit
<1>2. Len(newFlows) = 0 /\ Len(alerts) = 0 /\ 1..0 = {} /\ DOMAIN alertedAt = {} /\ DOMAIN alerts = {}
  BY <1>1
<1>3. EnginesShape
  BY <1>1, <1>2 DEF EnginesShape
<1>4. WindowsTrue /\ FlowsRight /\ MutesTrue
  BY <1>1, <1>2 DEF WindowsTrue, FlowsRight, MutesTrue
<1>5. ListTrue
  BY <1>1, <1>2, BehavioursBounds DEF ListTrue, Elements
<1> QED BY <1>3, <1>4, <1>5 DEF BehavioursInv

\* Elements of two sequences after one another, and of the end of one.
LEMMA ElementsOfBoth ==
  ASSUME NEW T, NEW s \in Seq(T), NEW t \in Seq(T)
  PROVE  s \o t \in Seq(T) /\ Elements(s \o t) = Elements(s) \cup Elements(t)
<1>1. /\ s \o t \in Seq(T) /\ Len(s \o t) = Len(s) + Len(t)
      /\ Len(s) \in Nat /\ Len(t) \in Nat
      /\ DOMAIN s = 1..Len(s) /\ DOMAIN t = 1..Len(t) /\ DOMAIN (s \o t) = 1..Len(s \o t)
  OBVIOUS
<1>2. \A i \in 1..Len(s) : (s \o t)[i] = s[i]
  OBVIOUS
<1>3. \A i \in 1..Len(t) : (s \o t)[Len(s) + i] = t[i]
  OBVIOUS
<1>4. ASSUME NEW x \in Elements(s \o t) PROVE x \in Elements(s) \cup Elements(t)
  <2>1. PICK i \in 1..(Len(s) + Len(t)) : (s \o t)[i] = x
    BY <1>1 DEF Elements
  <2>2. CASE i <= Len(s)
    BY <1>1, <1>2, <2>1, <2>2 DEF Elements
  <2>3. CASE i > Len(s)
    <3>1. i - Len(s) \in 1..Len(t) /\ Len(s) + (i - Len(s)) = i
      BY <1>1, <2>1, <2>3
    <3> QED BY <1>1, <1>3, <2>1, <3>1 DEF Elements
  <2> QED BY <1>1, <2>1, <2>2, <2>3
<1>5. ASSUME NEW x \in Elements(s) PROVE x \in Elements(s \o t)
  <2>1. PICK i \in 1..Len(s) : s[i] = x
    BY <1>1 DEF Elements
  <2>2. i \in 1..Len(s \o t) /\ (s \o t)[i] = x
    BY <1>1, <1>2, <2>1
  <2> QED BY <1>1, <2>2 DEF Elements
<1>6. ASSUME NEW x \in Elements(t) PROVE x \in Elements(s \o t)
  <2>1. PICK i \in 1..Len(t) : t[i] = x
    BY <1>1 DEF Elements
  <2>2. Len(s) + i \in 1..Len(s \o t) /\ (s \o t)[Len(s) + i] = x
    BY <1>1, <1>3, <2>1
  <2> QED BY <1>1, <2>2 DEF Elements
<1> QED BY <1>1, <1>4, <1>5, <1>6

LEMMA ElementsOfFour ==
  ASSUME NEW T, NEW s \in Seq(T), NEW t \in Seq(T), NEW u \in Seq(T), NEW v \in Seq(T)
  PROVE  /\ s \o t \o u \o v \in Seq(T)
         /\ Elements(s \o t \o u \o v)
              = ((Elements(s) \cup Elements(t)) \cup Elements(u)) \cup Elements(v)
<1>1. s \o t \in Seq(T) /\ Elements(s \o t) = Elements(s) \cup Elements(t)
  BY ElementsOfBoth
<1> DEFINE st == s \o t
<1> HIDE DEF st
<1>2. st \in Seq(T) /\ Elements(st) = Elements(s) \cup Elements(t)
  BY <1>1 DEF st
<1>3. st \o u \in Seq(T) /\ Elements(st \o u) = Elements(st) \cup Elements(u)
  BY <1>2, ElementsOfBoth
<1> DEFINE stu == st \o u
<1> HIDE DEF stu
<1>4. stu \in Seq(T) /\ Elements(stu) = Elements(st) \cup Elements(u)
  BY <1>3 DEF stu
<1>5. stu \o v \in Seq(T) /\ Elements(stu \o v) = Elements(stu) \cup Elements(v)
  BY <1>4, ElementsOfBoth
<1> QED BY <1>2, <1>4, <1>5 DEF st, stu

LEMMA NewestKept ==
  ASSUME NEW list \in Seq(AlertType)
  PROVE  /\ NewestAlerts(list) \in Seq(AlertType) /\ Elements(NewestAlerts(list)) \subseteq Elements(list)
         /\ Len(NewestAlerts(list)) <= MaxAlerts
         /\ Len(NewestAlerts(list)) = MaxAlerts \/ NewestAlerts(list) = list
<1> DEFINE from == IF Len(list) > MaxAlerts THEN Len(list) - MaxAlerts + 1 ELSE 1
           cut == SubSeq(list, from, Len(list))
<1>1. Len(list) \in Nat /\ MaxAlerts \in Nat /\ DOMAIN list = 1..Len(list)
  BY BehavioursBounds
<1>2. from \in 1..(Len(list) + 1)
  BY <1>1
<1>3. NewestAlerts(list) = cut
  BY DEF NewestAlerts
<1>4. from = IF Len(list) > MaxAlerts THEN Len(list) - MaxAlerts + 1 ELSE 1
  OBVIOUS
<1> HIDE DEF from
<1>5. /\ cut \in Seq(AlertType) /\ Len(cut) = Len(list) - from + 1 /\ DOMAIN cut = 1..Len(cut)
      /\ \A i \in 1..Len(cut) : cut[i] = list[from + i - 1]
  BY <1>1, <1>2
<1>6. Len(cut) <= MaxAlerts /\ (Len(cut) = MaxAlerts \/ from = 1)
  BY <1>1, <1>2, <1>4, <1>5
<1>7. from = 1 => cut = list
  BY <1>1
<1>8. Elements(cut) \subseteq Elements(list)
  <2> SUFFICES ASSUME NEW x \in Elements(cut) PROVE x \in Elements(list)
    OBVIOUS
  <2>1. PICK i \in 1..Len(cut) : cut[i] = x
    BY <1>5 DEF Elements
  <2>2. from + i - 1 \in 1..Len(list) /\ list[from + i - 1] = x
    BY <1>1, <1>2, <1>5, <2>1
  <2> QED BY <1>1, <2>2 DEF Elements
<1> HIDE DEF cut
<1> QED BY <1>3, <1>5, <1>6, <1>7, <1>8

\* The alerts that are raised are those of the rules that apply and are not muted.
Loud(rules, n, now) == {r \in AlertRules : r \in rules /\ ~IsMuted(r, n, now)}
RaisedAlerts(rules, n, now) == {Alert(r, n, now) : r \in Loud(rules, n, now)}
LEMMA RaisedAre ==
  ASSUME NEW rules, NEW n \in Nat, NEW now \in Int
  PROVE  /\ Raised(rules, n, now) \in Seq(AlertType)
         /\ Elements(Raised(rules, n, now)) = RaisedAlerts(rules, n, now)
<1> DEFINE raise(r) == AlertIf(r \in rules, r, n, now)
           These(r) == IF r \in Loud(rules, n, now) THEN {Alert(r, n, now)} ELSE {}
<1>1. ASSUME NEW r \in AlertRules
      PROVE  raise(r) \in Seq(AlertType) /\ Elements(raise(r)) = These(r)
  <2>1. Alert(r, n, now) \in AlertType
    BY DEF Alert, AlertType
  <2>2. CASE r \in Loud(rules, n, now)
    <3>1. raise(r) = <<Alert(r, n, now)>>
      BY <2>2 DEF AlertIf, Loud
    <3>2. <<Alert(r, n, now)>> \in Seq(AlertType)
          /\ Elements(<<Alert(r, n, now)>>) = {Alert(r, n, now)}
      BY <2>1 DEF Elements
    <3> QED BY <2>2, <3>1, <3>2
  <2>3. CASE r \notin Loud(rules, n, now)
    <3>1. raise(r) = <<>>
      BY <2>3 DEF AlertIf, Loud
    <3>2. <<>> \in Seq(AlertType) /\ Elements(<<>>) = {}
      BY DEF Elements
    <3> QED BY <2>3, <3>1, <3>2
  <2> QED BY <2>2, <2>3
<1>2. Raised(rules, n, now) =
        raise("exfil-volume") \o raise("fanout") \o raise("connection-burst") \o raise("beacon")
  BY DEF Raised
<1>3. /\ raise("exfil-volume") \in Seq(AlertType) /\ Elements(raise("exfil-volume")) = These("exfil-volume")
      /\ raise("fanout") \in Seq(AlertType) /\ Elements(raise("fanout")) = These("fanout")
      /\ raise("connection-burst") \in Seq(AlertType)
      /\ Elements(raise("connection-burst")) = These("connection-burst")
      /\ raise("beacon") \in Seq(AlertType) /\ Elements(raise("beacon")) = These("beacon")
  BY <1>1 DEF AlertRules
<1>4. RaisedAlerts(rules, n, now) =
        ((These("exfil-volume") \cup These("fanout")) \cup These("connection-burst")) \cup These("beacon")
  BY DEF RaisedAlerts, Loud, AlertRules
<1> HIDE DEF raise, These
<1> DEFINE s == raise("exfil-volume")
           t == raise("fanout")
           u == raise("connection-burst")
           v == raise("beacon")
<1>5. s \in Seq(AlertType) /\ t \in Seq(AlertType) /\ u \in Seq(AlertType) /\ v \in Seq(AlertType)
  BY <1>3
<1>6. /\ Elements(s) = These("exfil-volume") /\ Elements(t) = These("fanout")
      /\ Elements(u) = These("connection-burst") /\ Elements(v) = These("beacon")
  BY <1>3
<1>7. Raised(rules, n, now) = s \o t \o u \o v
  BY <1>2
<1> HIDE DEF s, t, u, v
<1>8. /\ s \o t \o u \o v \in Seq(AlertType)
      /\ Elements(s \o t \o u \o v)
           = ((Elements(s) \cup Elements(t)) \cup Elements(u)) \cup Elements(v)
  BY <1>5, ElementsOfFour
<1> QED BY <1>4, <1>6, <1>7, <1>8

\* What an alert that is raised leaves: mutes and the list stay true.
LEMMA AlertsTrue ==
  ASSUME EnginesShape, MutesTrue, ListTrue, NEW rules, NEW n \in Nat, NEW now \in Int,
         newFlows' \in Seq(FlowType), Len(newFlows') >= Len(newFlows), n \in 1..Len(newFlows'),
         AlertsFor(rules, n, now)
  PROVE  /\ EnginesShape' /\ MutesTrue' /\ ListTrue'
         /\ everAlerted' = everAlerted \cup RaisedAlerts(rules, n, now)
<1> DEFINE fresh == Raised(rules, n, now)
           loud == Loud(rules, n, now)
           more == {Alert(r, n, now) : r \in loud}
<1>1. fresh \in Seq(AlertType) /\ Elements(fresh) = more
  BY RaisedAre DEF RaisedAlerts
<1>2. {<<fresh[i].rule, n>> : i \in DOMAIN fresh} = {<<a.rule, n>> : a \in Elements(fresh)}
  BY DEF Elements
<1>3. {<<a.rule, n>> : a \in more} = {<<r, n>> : r \in loud}
  <2>1. \A r \in loud : Alert(r, n, now).rule = r
    BY DEF Alert
  <2> HIDE DEF loud
  <2> QED BY <2>1
<1>4. /\ alertedAt' = [k \in DOMAIN alertedAt \cup {<<r, n>> : r \in loud} |->
                         IF k \in {<<r, n>> : r \in loud} THEN now ELSE alertedAt[k]]
      /\ alerts' = NewestAlerts(alerts \o fresh)
      /\ everAlerted' = everAlerted \cup more
  BY <1>1, <1>2, <1>3 DEF AlertsFor, Elements
<1>5. more \subseteq AlertType
  BY DEF Alert, AlertType, Loud
<1>6. \A r \in loud : r \in AlertRules /\ ~IsMuted(r, n, now)
  BY DEF Loud
<1>7. \A a \in more : a.rule \in loud /\ a.flow = n /\ a.time = now
  BY DEF Alert
<1> HIDE DEF more, loud, fresh
<1>8. alerts \o fresh \in Seq(AlertType)
      /\ Elements(alerts \o fresh) = Elements(alerts) \cup more
  BY <1>1, ElementsOfBoth DEF EnginesShape
<1> DEFINE list == alerts \o fresh
<1>9. list \in Seq(AlertType) /\ Elements(list) = Elements(alerts) \cup more /\ alerts' = NewestAlerts(list)
  BY <1>4, <1>8
<1> HIDE DEF list
<1>10. /\ alerts' \in Seq(AlertType) /\ Elements(alerts') \subseteq Elements(list)
       /\ Len(alerts') <= MaxAlerts /\ (Len(alerts') = MaxAlerts \/ alerts' = list)
  BY <1>9, NewestKept
<1>11. EnginesShape'
  BY <1>4, <1>5, <1>10 DEF EnginesShape
<1>12. ListTrue'
  <2>1. Elements(alerts') \subseteq everAlerted'
    BY <1>4, <1>9, <1>10 DEF ListTrue
  <2>2. CASE alerts' = list /\ Len(alerts') # MaxAlerts
    <3>1. Len(alerts) # MaxAlerts
      <4>1. Len(list) = Len(alerts) + Len(fresh) /\ Len(fresh) \in Nat /\ Len(alerts) \in Nat
        BY <1>1 DEF list, EnginesShape
      <4> QED BY <1>10, <2>2, <4>1, BehavioursBounds DEF EnginesShape
    <3>2. everAlerted = Elements(alerts)
      BY <3>1 DEF ListTrue
    <3>3. everAlerted' = Elements(alerts')
      BY <1>4, <1>9, <2>2, <3>2
    <3> QED BY <1>10, <2>1, <3>3 DEF ListTrue, Elements
  <2>3. CASE Len(alerts') = MaxAlerts
    BY <1>10, <2>1, <2>3 DEF ListTrue, Elements
  <2> QED BY <1>10, <2>2, <2>3
<1>13. MutesTrue'
  <2> DEFINE keys == {<<r, n>> : r \in loud}
  <2>1. /\ DOMAIN alertedAt' = DOMAIN alertedAt \cup keys
        /\ \A k \in keys : alertedAt'[k] = now
        /\ \A k \in DOMAIN alertedAt \ keys : alertedAt'[k] = alertedAt[k]
    BY <1>4
  <2>2. \A k \in keys : k[2] = n /\ (k \in DOMAIN alertedAt => now - alertedAt[k] >= AlertMute)
    <3> SUFFICES ASSUME NEW r \in loud, <<r, n>> \in DOMAIN alertedAt
                 PROVE  now - alertedAt[<<r, n>>] >= AlertMute
      OBVIOUS
    <3>1. alertedAt[<<r, n>>] \in Int
      BY DEF EnginesShape
    <3> QED BY <1>6, <3>1, BehavioursBounds DEF IsMuted
  <2>3. Len(newFlows) \in Nat /\ Len(newFlows') \in Nat
    BY DEF EnginesShape
  <2>4. \A a \in more : <<a.rule, a.flow>> \in keys
    BY <1>7
  <2> HIDE DEF keys
  <2>5. \A a \in everAlerted :
          /\ <<a.rule, a.flow>> \in DOMAIN alertedAt /\ a.time <= alertedAt[<<a.rule, a.flow>>]
          /\ a.time \in Int /\ alertedAt[<<a.rule, a.flow>>] \in Int
    BY DEF MutesTrue, EnginesShape, AlertType
  <2>6. ASSUME NEW a \in everAlerted, <<a.rule, a.flow>> \in keys
        PROVE  now - a.time >= AlertMute
    BY <2>2, <2>5, <2>6, BehavioursBounds
  <2>7. ASSUME NEW a \in everAlerted'
        PROVE  /\ a.flow \in 1..Len(newFlows')
               /\ <<a.rule, a.flow>> \in DOMAIN alertedAt'
               /\ a.time <= alertedAt'[<<a.rule, a.flow>>]
    <3>1. CASE a \in more
      BY <1>7, <2>1, <2>4, <3>1
    <3>2. CASE a \in everAlerted
      <4>1. a.flow \in 1..Len(newFlows')
        <5>1. a.flow \in 1..Len(newFlows)
          BY <3>2 DEF MutesTrue
        <5> QED BY <2>3, <5>1
      <4>2. CASE <<a.rule, a.flow>> \in keys
        BY <2>1, <2>5, <2>6, <3>2, <4>1, <4>2, BehavioursBounds
      <4>3. CASE <<a.rule, a.flow>> \notin keys
        BY <2>1, <2>5, <3>2, <4>1, <4>3
      <4> QED BY <4>2, <4>3
    <3> QED BY <1>4, <2>7, <3>1, <3>2
  <2>8. \A k \in DOMAIN alertedAt' : k[2] \in 1..Len(newFlows')
    BY <2>1, <2>2, <2>3 DEF MutesTrue
  <2>9. ASSUME NEW a \in everAlerted', NEW b \in everAlerted', a.rule = b.rule, a.flow = b.flow, a # b
        PROVE  a.time - b.time >= AlertMute \/ b.time - a.time >= AlertMute
    <3>1. CASE a \in everAlerted /\ b \in everAlerted
      BY <2>9, <3>1 DEF MutesTrue
    <3>2. CASE a \in more /\ b \in more
      <4>1. a.rule = b.rule /\ a.flow = b.flow /\ a.time = b.time /\ a \in AlertType /\ b \in AlertType
        BY <1>5, <1>7, <2>9, <3>2
      <4>2. a = b
        BY <4>1 DEF AlertType
      <4> QED BY <2>9, <4>2
    <3>3. CASE a \in more /\ b \in everAlerted
      BY <1>7, <2>4, <2>6, <2>9, <3>3
    <3>4. CASE a \in everAlerted /\ b \in more
      BY <1>7, <2>4, <2>6, <2>9, <3>4
    <3> QED BY <1>4, <2>9, <3>1, <3>2, <3>3, <3>4
  <2> QED BY <2>7, <2>8, <2>9 DEF MutesTrue
<1> QED BY <1>4, <1>11, <1>12, <1>13 DEF more, loud, RaisedAlerts

\* Finite sets of flows, and the hosts they reached.
FirstFlows(flows, n) == {flows[i] : i \in 1..n}
LEMMA FlowsFinite ==
  ASSUME NEW n \in Nat, NEW flows
  PROVE  IsFiniteSet(FirstFlows(flows, n))
<1> DEFINE f == [i \in 1..n |-> flows[i]]
<1>1. f = [i \in 1..n |-> f[i]] /\ FirstFlows(flows, n) = {f[i] : i \in 1..n}
  BY DEF FirstFlows
<1>2. IsFiniteSet(1..n)
  BY FS_Interval
<1> HIDE DEF f
<1> QED BY <1>1, <1>2, ImagesFew

LEMMA HostsFew ==
  ASSUME NEW S, IsFiniteSet(S), NEW T \in SUBSET S
  PROVE  /\ IsFiniteSet({f.remote : f \in S})
         /\ Cardinality({f.remote : f \in T}) <= Cardinality({f.remote : f \in S})
         /\ Cardinality({f.remote : f \in T}) \in Nat /\ Cardinality({f.remote : f \in S}) \in Nat
<1> DEFINE g == [f \in S |-> f.remote]
           hosts == {f.remote : f \in S}
           fewer == {f.remote : f \in T}
<1>1. g = [f \in S |-> g[f]] /\ hosts = {g[f] : f \in S}
  OBVIOUS
<1>2. fewer \subseteq hosts
  OBVIOUS
<1> HIDE DEF g, hosts, fewer
<1>3. IsFiniteSet(hosts)
  BY <1>1, ImagesFew
<1>4. IsFiniteSet(fewer) /\ Cardinality(fewer) <= Cardinality(hosts)
  BY <1>2, <1>3, FS_Subset
<1>5. Cardinality(fewer) \in Nat /\ Cardinality(hosts) \in Nat
  BY <1>3, <1>4, FS_CardinalityType
<1> QED BY <1>3, <1>4, <1>5 DEF hosts, fewer

\* A flow is created: those before it stay.
LEMMA FlowsStay ==
  ASSUME newFlows \in Seq(FlowType), NEW f \in FlowType, newFlows' = Append(newFlows, f)
  PROVE  /\ newFlows' \in Seq(FlowType) /\ Len(newFlows) \in Nat
         /\ Len(newFlows') = Len(newFlows) + 1 /\ newFlows'[Len(newFlows) + 1] = f
         /\ \A i \in 1..Len(newFlows) : newFlows'[i] = newFlows[i]
         /\ \A m \in 1..Len(newFlows) :
              /\ (Monotonic(m)' <=> Monotonic(m)) /\ FanOutHostsOf(m)' = FanOutHostsOf(m)
         /\ FlowsBefore(Len(newFlows))' = FlowsBefore(Len(newFlows)) \cup {f}
<1>1. /\ newFlows' \in Seq(FlowType) /\ Len(newFlows) \in Nat
      /\ Len(newFlows') = Len(newFlows) + 1 /\ newFlows'[Len(newFlows) + 1] = f
      /\ \A i \in 1..Len(newFlows) : newFlows'[i] = newFlows[i]
  OBVIOUS
<1>2. ASSUME NEW m \in 1..Len(newFlows)
      PROVE  /\ (Monotonic(m)' <=> Monotonic(m)) /\ FanOutHostsOf(m)' = FanOutHostsOf(m)
  <2>1. 1..m \subseteq 1..Len(newFlows) /\ newFlows'[m] = newFlows[m]
    BY <1>1
  <2>2. FlowsBefore(m)' = FlowsBefore(m)
    BY <1>1, <2>1 DEF FlowsBefore
  <2> QED BY <1>1, <2>1, <2>2 DEF Monotonic, FanOutHostsOf, FanOutFlows
<1>3. FlowsBefore(Len(newFlows))' = FlowsBefore(Len(newFlows)) \cup {f}
  <2>1. 1..(Len(newFlows) + 1) = 1..Len(newFlows) \cup {Len(newFlows) + 1}
    BY <1>1
  <2> QED BY <1>1, <2>1 DEF FlowsBefore
<1> QED BY <1>1, <1>2, <1>3

\* The windows after a flow was created.
LEMMA WindowsStayTrue ==
  ASSUME BehavioursInv, NEW f \in FlowType, newFlows' = Append(newFlows, f),
         ObserveAnomaly(f), ObserveLateral(f)
  PROVE  /\ WindowsTrue'
         /\ \A g \in windowed' : g \in FlowsBefore(Len(newFlows))' /\ g.time > f.time - EventWindow
         /\ f.service => \A g \in reached' :
              g \in FlowsBefore(Len(newFlows))' /\ g.service /\ g.time > f.time - LateralWindow
<1> DEFINE last == Len(newFlows)
<1>1. /\ EnginesShape /\ WindowsTrue /\ newFlows \in Seq(FlowType)
  BY DEF BehavioursInv, EnginesShape
<1>2. /\ last \in Nat /\ Len(newFlows') = last + 1 /\ newFlows'[last + 1] = f
      /\ \A i \in 1..last : newFlows'[i] = newFlows[i]
      /\ FlowsBefore(Len(newFlows))' = FlowsBefore(Len(newFlows)) \cup {f}
      /\ newFlows' \in Seq(FlowType)
  BY <1>1, FlowsStay
<1>3. windowed' = {g \in windowed \cup {f} : g.time > f.time - EventWindow}
  BY DEF ObserveAnomaly, Compacted, InWindow, After
<1>4. reached' = IF f.service THEN {g \in reached : g.time > f.time - LateralWindow} \cup {f} ELSE reached
  BY DEF ObserveLateral, Compacted, InWindow, After
<1>5. \A g \in windowed' : g \in FlowsBefore(Len(newFlows))' /\ g.time > f.time - EventWindow
  BY <1>1, <1>2, <1>3 DEF WindowsTrue
<1>6. \A g \in reached' : g \in FlowsBefore(Len(newFlows))' /\ g.service
  BY <1>1, <1>2, <1>4 DEF WindowsTrue
<1>7. f.service => \A g \in reached' : g.time > f.time - LateralWindow
  BY <1>4, BehavioursBounds DEF FlowType
<1>8. ASSUME Monotonic(Len(newFlows))', NEW i \in 1..(last + 1)
      PROVE  /\ newFlows'[i].time > f.time - EventWindow => newFlows'[i] \in windowed'
             /\ newFlows'[i].time > f.time - LateralWindow /\ newFlows'[i].service => newFlows'[i] \in reached'
  <2>1. CASE i = last + 1
    BY <1>2, <1>3, <1>4, <2>1
  <2>2. CASE i # last + 1
    <3>1. i \in 1..last /\ last \in 1..last /\ newFlows'[i] = newFlows[i] /\ newFlows'[last] = newFlows[last]
      BY <1>2, <2>2
    <3>2. \A j, k \in 1..(last + 1) : j <= k => newFlows'[j].time <= newFlows'[k].time
      BY <1>2, <1>8 DEF Monotonic
    <3>3. Monotonic(Len(newFlows))
      BY <1>2, <3>2 DEF Monotonic
    <3>4. newFlows[last].time <= f.time
      BY <1>2, <3>1, <3>2
    <3>5. newFlows[last] \in FlowType /\ newFlows[i] \in FlowType
      BY <1>1, <3>1, ElementOfSeq
    <3>6. newFlows[last].time \in Int /\ newFlows[i].time \in Int /\ f.time \in Int
      BY <3>5 DEF FlowType
    <3>7. /\ newFlows[i].time > newFlows[last].time - EventWindow => newFlows[i] \in windowed
          /\ newFlows[i].time > newFlows[last].time - LateralWindow /\ newFlows[i].service
               => newFlows[i] \in reached
      BY <1>1, <3>1, <3>3 DEF WindowsTrue, StillRecent, Youngest
    <3>8. newFlows[i].time > f.time - EventWindow => newFlows[i].time > newFlows[last].time - EventWindow
      BY <3>4, <3>6, BehavioursBounds
    <3>9. newFlows[i].time > f.time - LateralWindow => newFlows[i].time > newFlows[last].time - LateralWindow
      BY <3>4, <3>6, BehavioursBounds
    <3> QED BY <1>3, <1>4, <3>1, <3>7, <3>8, <3>9
  <2> QED BY <2>1, <2>2
<1>9. WindowsTrue'
  <2>1. Monotonic(Len(newFlows))' => \A i \in 1..Len(newFlows)' :
          /\ StillRecent(i, EventWindow)' => newFlows'[i] \in windowed'
          /\ StillRecent(i, LateralWindow)' /\ newFlows'[i].service => newFlows'[i] \in reached'
    BY <1>2, <1>8 DEF StillRecent, Youngest
  <2> QED BY <1>5, <1>6, <2>1 DEF WindowsTrue
<1> QED BY <1>5, <1>6, <1>7, <1>9

\* The alert about many hosts and the finding of lateral movement of a new flow.
LEMMA FlowsStayRight ==
  ASSUME BehavioursInv, NEW f \in FlowType, newFlows' = Append(newFlows, f), f.n = Len(newFlows) + 1,
         ObserveAnomaly(f), ObserveLateral(f)
  PROVE  FlowsRight' /\ EnginesShape' /\ MutesTrue' /\ ListTrue'
<1>0. PICK n, rules : n = Len(newFlows) + 1 /\ rules = FlowRules(windowed', f, samples'[<<f.actor, f.remote>>])
  OBVIOUS
<1>1. /\ EnginesShape /\ WindowsTrue /\ FlowsRight /\ MutesTrue /\ ListTrue /\ newFlows \in Seq(FlowType)
  BY DEF BehavioursInv, EnginesShape
<1>2. /\ n \in Nat /\ Len(newFlows') = n /\ newFlows'[n] = f
      /\ \A i \in 1..Len(newFlows) : newFlows'[i] = newFlows[i]
      /\ \A m \in 1..Len(newFlows) :
           /\ (Monotonic(m)' <=> Monotonic(m)) /\ FanOutHostsOf(m)' = FanOutHostsOf(m)
      /\ newFlows' \in Seq(FlowType) /\ Len(newFlows) \in Nat
  BY <1>0, <1>1, FlowsStay
<1>3. /\ WindowsTrue'
      /\ \A g \in windowed' : g \in FlowsBefore(Len(newFlows))' /\ g.time > f.time - EventWindow
      /\ f.service => \A g \in reached' :
           g \in FlowsBefore(Len(newFlows))' /\ g.service /\ g.time > f.time - LateralWindow
  BY WindowsStayTrue
<1>4. AlertsFor(rules, n, f.time) /\ f.time \in Int
  BY <1>0 DEF ObserveAnomaly, FlowType
<1>5. /\ EnginesShape' /\ MutesTrue' /\ ListTrue'
      /\ everAlerted' = everAlerted \cup RaisedAlerts(rules, n, f.time)
  <2>1. n \in Nat /\ n \in 1..Len(newFlows') /\ Len(newFlows') >= Len(newFlows)
    BY <1>0, <1>2
  <2> QED BY <1>1, <1>2, <1>4, <2>1, AlertsTrue
<1>6. \A a \in everAlerted : a.flow \in 1..Len(newFlows)
  BY <1>1 DEF MutesTrue
<1>7. ASSUME NEW m \in 1..Len(newFlows)
      PROVE  FanOutRight(m)'
  <2>1. FanOutTold(m)' <=> FanOutTold(m)
    BY <1>2, <1>5 DEF FanOutTold, RaisedAlerts, Alert
  <2>2. FanOutRight(m)
    BY <1>1 DEF FlowsRight
  <2> QED BY <1>2, <2>1, <2>2 DEF FanOutRight
<1>8. FanOutTold(n)' <=> Cardinality(HostsReached(windowed', f.actor)) >= FanOutHosts
  <2>1. ~IsMuted("fanout", n, f.time)
    BY <1>1, <1>2 DEF MutesTrue, IsMuted
  <2>2. "fanout" \in Loud(rules, n, f.time) <=> "fanout" \in rules
    BY <2>1 DEF Loud, AlertRules
  <2>3. "fanout" \in rules <=> Cardinality(HostsReached(windowed', f.actor)) >= FanOutHosts
    BY <1>0 DEF FlowRules
  <2>4. FanOutTold(n)' <=> "fanout" \in Loud(rules, n, f.time)
    <3>1. \A r : Alert(r, n, f.time).rule = r /\ Alert(r, n, f.time).flow = n
      BY DEF Alert
    <3>2. \A a \in everAlerted : a.flow # n
      BY <1>2, <1>6
    <3>3. FanOutTold(n)' <=> \E a \in everAlerted' : a.rule = "fanout" /\ a.flow = n
      BY <1>2 DEF FanOutTold
    <3> QED BY <1>5, <3>1, <3>2, <3>3 DEF RaisedAlerts
  <2> QED BY <2>2, <2>3, <2>4
<1>9. f.actor = newFlows'[n].actor /\ f.time = newFlows'[n].time /\ f.service = newFlows'[n].service
  BY <1>2
<1>10. IsFiniteSet(FlowsBefore(n)')
  <2>1. PICK flows : flows = newFlows'
    OBVIOUS
  <2>2. IsFiniteSet(FirstFlows(flows, n))
    BY <1>2, FlowsFinite
  <2> QED BY <2>1, <2>2 DEF FlowsBefore, FirstFlows
<1>11. FanOutRight(n)'
  <2> DEFINE T == {g \in windowed' : g.actor = f.actor}
             S == {g \in FlowsBefore(n)' : g.actor = f.actor /\ g.time > f.time - EventWindow}
  <2>1. HostsReached(windowed', f.actor) = {g.remote : g \in T}
        /\ FanOutHostsOf(n)' = {g.remote : g \in S}
    BY <1>9 DEF HostsReached, FanOutHostsOf, FanOutFlows
  <2>2. T \subseteq S
    BY <1>2, <1>3
  <2>3. Monotonic(n)' => S \subseteq T
    <3> SUFFICES ASSUME Monotonic(n)', NEW g \in FlowsBefore(n)', g.time > f.time - EventWindow
                 PROVE  g \in windowed'
      OBVIOUS
    <3>1. PICK i \in 1..n : g = newFlows'[i]
      BY DEF FlowsBefore
    <3> QED BY <1>2, <1>3, <3>1 DEF WindowsTrue, StillRecent, Youngest
  <2>4. IsFiniteSet(S)
    BY <1>10, FS_Subset
  <2> HIDE DEF T, S
  <2>5. /\ Cardinality({g.remote : g \in T}) <= Cardinality({g.remote : g \in S})
        /\ Cardinality({g.remote : g \in T}) \in Nat /\ Cardinality({g.remote : g \in S}) \in Nat
    BY <2>2, <2>4, HostsFew
  <2>6. FanOutTold(n)' => Cardinality(FanOutHostsOf(n)') >= FanOutHosts
    BY <1>8, <2>1, <2>5, BehavioursBounds
  <2>7. Monotonic(n)' => T = S
    BY <2>2, <2>3
  <2>8. Monotonic(n)' => (FanOutTold(n)' <=> Cardinality(FanOutHostsOf(n)') >= FanOutHosts)
    BY <1>8, <2>1, <2>7
  <2> QED BY <2>6, <2>8 DEF FanOutRight
<1>12. LateralRight(n)'
  <2>1. CASE ~f.service
    <3>1. lateral' = {}
      BY <2>1 DEF ObserveLateral
    <3> QED BY <1>9, <2>1, <3>1 DEF LateralRight
  <2>2. CASE f.service
    <3> DEFINE hosts == HostsReached(reached', f.actor)
    <3>1. lateral' = IF Cardinality(hosts) >= LateralHosts THEN {[flow |-> f.n, hosts |-> hosts]} ELSE {}
      BY <2>2 DEF ObserveLateral
    <3>2. LateralHostsOf(n)' = {g.remote : g \in {h \in FlowsBefore(n)' :
            h.actor = f.actor /\ h.service /\ h.time > f.time - LateralWindow}}
      BY <1>9 DEF LateralHostsOf, LateralFlows
    <3>3. hosts \subseteq LateralHostsOf(n)'
      BY <1>2, <1>3, <2>2, <3>2 DEF HostsReached
    <3>4. Monotonic(n)' => LateralHostsOf(n)' \subseteq hosts
      <4> SUFFICES ASSUME Monotonic(n)', NEW g \in FlowsBefore(n)', g.actor = f.actor, g.service,
                          g.time > f.time - LateralWindow
                   PROVE  g.remote \in hosts
        BY <3>2
      <4>1. PICK i \in 1..n : g = newFlows'[i]
        BY DEF FlowsBefore
      <4>2. g \in reached'
        BY <1>2, <1>3, <4>1 DEF WindowsTrue, StillRecent, Youngest
      <4> QED BY <4>2 DEF HostsReached
    <3> HIDE DEF hosts
    <3>5. \A x \in lateral' : x.hosts \subseteq LateralHostsOf(n)'
      BY <3>1, <3>3
    <3>6. Monotonic(n)' => (lateral' # {} <=> Cardinality(LateralHostsOf(n)') >= LateralHosts)
      <4>1. lateral' # {} <=> Cardinality(hosts) >= LateralHosts
        BY <3>1
      <4>2. Monotonic(n)' => LateralHostsOf(n)' = hosts
        BY <3>3, <3>4
      <4> QED BY <4>1, <4>2
    <3> QED BY <3>5, <3>6 DEF LateralRight
  <2> QED BY <2>1, <2>2
<1>13. FlowsRight'
  <2>1. \A m \in 1..n : FanOutRight(m)'
    BY <1>0, <1>2, <1>7, <1>11
  <2>2. LateralRight(Len(newFlows))'
    BY <1>2, <1>12
  <2> QED BY <1>2, <2>1, <2>2 DEF FlowsRight
<1> QED BY <1>5, <1>13

\* A later packet that exceeds the volume raises no alert about many hosts.
LEMMA VolumePacketRight ==
  ASSUME BehavioursInv, NEW n \in 1..Len(newFlows), NEW time \in Int, VolumePacket(n, time)
  PROVE  BehavioursInv'
<1>1. /\ UNCHANGED <<newFlows, windowed, reached, lateral>> /\ AlertsFor({"exfil-volume"}, n, time)
  BY DEF VolumePacket
<1>2. EnginesShape /\ WindowsTrue /\ FlowsRight /\ MutesTrue /\ ListTrue
  BY DEF BehavioursInv
<1>3. newFlows \in Seq(FlowType) /\ Len(newFlows) \in Nat /\ n \in Nat
  BY <1>2 DEF EnginesShape
<1>4. /\ newFlows' \in Seq(FlowType) /\ Len(newFlows') >= Len(newFlows) /\ n \in 1..Len(newFlows')
  BY <1>1, <1>3
<1>5. /\ EnginesShape' /\ MutesTrue' /\ ListTrue'
      /\ everAlerted' = everAlerted \cup RaisedAlerts({"exfil-volume"}, n, time)
  BY <1>1, <1>2, <1>3, <1>4, AlertsTrue
<1>6. \A m : FanOutTold(m)' <=> FanOutTold(m)
  <2>1. \A r \in Loud({"exfil-volume"}, n, time) : Alert(r, n, time).rule = "exfil-volume"
    BY DEF Loud, Alert
  <2> QED BY <1>5, <2>1 DEF FanOutTold, RaisedAlerts
<1>7. WindowsTrue'
  BY <1>1, <1>2 DEF WindowsTrue, StillRecent, Youngest, Monotonic, FlowsBefore
<1>8. FlowsRight'
  <2>1. \A m : FanOutHostsOf(m)' = FanOutHostsOf(m) /\ LateralHostsOf(m)' = LateralHostsOf(m)
               /\ (Monotonic(m)' <=> Monotonic(m))
    BY <1>1 DEF FanOutHostsOf, FanOutFlows, LateralHostsOf, LateralFlows, FlowsBefore, Monotonic
  <2>2. \A m : FanOutRight(m)' <=> FanOutRight(m)
    BY <1>6, <2>1 DEF FanOutRight
  <2>3. \A m : LateralRight(m)' <=> LateralRight(m)
    BY <1>1, <2>1 DEF LateralRight
  <2> QED BY <1>1, <1>2, <2>2, <2>3 DEF FlowsRight
<1> QED BY <1>5, <1>7, <1>8 DEF BehavioursInv

LEMMA BehavioursInvKept == BehavioursInv /\ [BehavioursNext]_behaviourVars => BehavioursInv'
<1> SUFFICES ASSUME BehavioursInv, [BehavioursNext]_behaviourVars
             PROVE  BehavioursInv'
  OBVIOUS
<1>1. newFlows \in Seq(FlowType) /\ Len(newFlows) \in Nat /\ DOMAIN newFlows = 1..Len(newFlows)
  BY DEF BehavioursInv, EnginesShape
<1>2. ASSUME NEW a \in Programs, NEW r \in RemoteHosts, NEW s \in BOOLEAN, NEW t \in 0..LastPacketTime,
             FlowCreated(a, r, s, t)
      PROVE  BehavioursInv'
  <2>1. PICK f : f = [actor |-> a, remote |-> r, service |-> s, time |-> t, n |-> Len(newFlows) + 1]
    OBVIOUS
  <2>2. f \in FlowType /\ f.n = Len(newFlows) + 1
    BY <1>1, <2>1 DEF FlowType
  <2>3. newFlows' = Append(newFlows, f) /\ ObserveAnomaly(f) /\ ObserveLateral(f)
    BY <1>2, <2>1 DEF FlowCreated
  <2> QED BY <2>2, <2>3, WindowsStayTrue, FlowsStayRight DEF BehavioursInv
<1>3. ASSUME NEW n \in DOMAIN newFlows, NEW t \in 0..LastPacketTime, VolumePacket(n, t)
      PROVE  BehavioursInv'
  <2>1. n \in 1..Len(newFlows) /\ t \in Int
    BY <1>1
  <2> QED BY <1>3, <2>1, VolumePacketRight
<1>4. CASE UNCHANGED behaviourVars
  <2>1. EnginesShape' /\ MutesTrue' /\ ListTrue'
    BY <1>4 DEF behaviourVars, BehavioursInv, EnginesShape, MutesTrue, ListTrue, Elements
  <2>2. WindowsTrue'
    BY <1>4 DEF behaviourVars, BehavioursInv, WindowsTrue, StillRecent, Youngest, Monotonic, FlowsBefore
  <2>3. FlowsRight'
    BY <1>4 DEF behaviourVars, BehavioursInv, FlowsRight, FanOutRight, LateralRight, FanOutHostsOf,
       FanOutFlows, LateralHostsOf, LateralFlows, FanOutTold, FlowsBefore, Monotonic
  <2> QED BY <2>1, <2>2, <2>3 DEF BehavioursInv
<1> QED BY <1>2, <1>3, <1>4 DEF BehavioursNext

LEMMA BehavioursInvMeans == BehavioursInv => BehavioursTold
<1> SUFFICES ASSUME BehavioursInv
             PROVE  BehavioursTold
  OBVIOUS
<1>1. EnginesShape /\ FlowsRight /\ MutesTrue /\ ListTrue
  BY DEF BehavioursInv
<1>2. /\ DOMAIN newFlows = 1..Len(newFlows) /\ alerts \in Seq(AlertType)
  BY <1>1 DEF EnginesShape
<1>3. \A n \in DOMAIN newFlows :
        LET hosts == {f.remote : f \in FanOutFlows(n)} IN
        /\ FanOutTold(n) => Cardinality(hosts) >= FanOutHosts
        /\ Monotonic(n) => (FanOutTold(n) <=> Cardinality(hosts) >= FanOutHosts)
  BY <1>1, <1>2 DEF FlowsRight, FanOutRight, FanOutHostsOf
<1>4. newFlows # <<>> => LET n == Len(newFlows) IN
        /\ \A x \in lateral : x.hosts \subseteq {f.remote : f \in LateralFlows(n)}
        /\ Monotonic(n) /\ newFlows[n].service =>
             (lateral # {} <=> Cardinality({f.remote : f \in LateralFlows(n)}) >= LateralHosts)
  BY <1>1 DEF FlowsRight, LateralRight, LateralHostsOf
<1>5. Cardinality(everAlerted) >= MaxAlerts => Len(alerts) = MaxAlerts
  <2> SUFFICES ASSUME Len(alerts) # MaxAlerts
               PROVE  ~ (Cardinality(everAlerted) >= MaxAlerts)
    OBVIOUS
  <2>1. /\ everAlerted = {alerts[i] : i \in 1..Len(alerts)} /\ Len(alerts) \in Nat
        /\ alerts = [i \in 1..Len(alerts) |-> alerts[i]] /\ Len(alerts) <= MaxAlerts
    BY <1>1, <1>2 DEF ListTrue, Elements
  <2>2. IsFiniteSet(1..Len(alerts)) /\ Cardinality(1..Len(alerts)) = Len(alerts)
    BY <2>1, FS_Interval
  <2>3. IsFiniteSet(everAlerted) /\ Cardinality(everAlerted) <= Cardinality(1..Len(alerts))
    BY <2>1, <2>2, ImagesFew
  <2>4. Cardinality(everAlerted) \in Nat
    BY <2>3, FS_CardinalityType
  <2> QED BY <2>1, <2>2, <2>3, <2>4, BehavioursBounds
<1>6. /\ \A a, b \in everAlerted :
           a.rule = b.rule /\ a.flow = b.flow /\ a # b => a.time - b.time >= AlertMute \/ b.time - a.time >= AlertMute
      /\ Len(alerts) <= MaxAlerts /\ {alerts[i] : i \in DOMAIN alerts} \subseteq everAlerted
  BY <1>1 DEF MutesTrue, ListTrue, Elements
<1> QED BY <1>3, <1>4, <1>5, <1>6 DEF BehavioursTold

\* What is told of the behaviour of processes rests on flows of the window, nothing in
\* it is missed while times go up, mutes are kept and the list holds the newest
\* (ObserveAnomaly, ObserveLateral, AlertsFor), for any programs, hosts, thresholds,
\* windows and flows at any times.
THEOREM BehavioursToldCorrect == BehavioursSpec => []BehavioursTold
BY BehavioursStart, BehavioursInvKept, BehavioursInvMeans, PTL DEF BehavioursSpec

-----------------------------------------------------------------------------
\* The alerts of a packet, put into a list; only that there is such a list matters.
LEMMA SetToSeqExists ==
  ASSUME NEW S, IsFiniteSet(S)
  PROVE  SetToSeq(S) \in Seq(S)
<1>1. Cardinality(S) \in Nat /\ ExistsBijection(1..Cardinality(S), S)
  BY FS_CardinalityType
<1>2. PICK f \in Bijection(1..Cardinality(S), S) : TRUE
  BY <1>1 DEF ExistsBijection
<1>3. f \in [1..Cardinality(S) -> S] /\ IsInjective(f)
  BY <1>2 DEF Bijection, Injection, Surjection, IsInjective
<1>4. SetToSeq(S) \in [1..Cardinality(S) -> S]
  BY <1>3 DEF SetToSeq
<1> QED BY <1>1, <1>4, SeqDef

\* Newest keeps the end of a list: what is at a distance from the end stays there.
LEMMA NewestKeepsEnd ==
  ASSUME NEW S, NEW s \in Seq(S), NEW n \in Nat
  PROVE  /\ Newest(s, n) \in Seq(S)
         /\ Len(Newest(s, n)) <= n /\ Len(Newest(s, n)) <= Len(s)
         /\ \A d \in Nat : d < Len(s) /\ d < n =>
              d < Len(Newest(s, n)) /\ Newest(s, n)[Len(Newest(s, n)) - d] = s[Len(s) - d]
         /\ \A d \in Nat : d < Len(Newest(s, n)) =>
              d < Len(s) /\ Newest(s, n)[Len(Newest(s, n)) - d] = s[Len(s) - d]
<1>1. CASE Len(s) > n
  <2>1. Newest(s, n) = SubSeq(s, Len(s) - n + 1, Len(s))
    BY <1>1 DEF Newest
  <2> DEFINE t == SubSeq(s, Len(s) - n + 1, Len(s))
  <2>2. Len(s) \in Nat /\ Len(s) - n + 1 \in 1..(Len(s) + 1) /\ Len(s) \in (Len(s) - n)..Len(s)
    BY <1>1, LenProperties
  <2>3. t \in Seq(S) /\ Len(t) = n /\ \A i \in 1..n : t[i] = s[Len(s) - n + i]
    BY <2>2, SubSeqProperties
  <2> QED BY <1>1, <2>1, <2>2, <2>3
<1>2. CASE ~(Len(s) > n)
  BY <1>2, LenProperties DEF Newest
<1> QED BY <1>1, <1>2

\* The keys of alerts, and what is told of them.
AlertKeys ==
  {<<"sign", s>> : s \in Rules} \union {<<"ports", a, h>> : a \in Actors, h \in Hosts}
    \union {<<"hosts", a, s>> : a \in Actors, s \in Services}
    \union {<<"nxdomain", a>> : a \in Actors} \union {<<"other">>}
Told == [key : AlertKeys, time : Nat, n : Nat]

DetectionTypeOK ==
  /\ findings \in Seq(Told) /\ announced \in Seq(Told)
  /\ Len(findings) <= MaxFindings /\ Len(announced) <= MaxFindings
  /\ muted \in [DOMAIN muted -> Nat]
  /\ packetTime \in Nat /\ observed \in Nat /\ inOrder \in BOOLEAN
  /\ IsFiniteSet(contacts)
  /\ \A c \in contacts : c.time \in Nat /\ c.n \in 1..observed /\ c.asks \in BOOLEAN
  /\ conns \subseteq {c \in contacts : ~c.asks} /\ names \subseteq {c \in contacts : c.asks}
  /\ lastPacket.time \in Nat

\* While packets are in the order of time: an event of the window is kept, or as many
\* later ones of its kind as a window may hold have come.
LaterThan(c) == {x \in contacts : x.asks = c.asks /\ x.n > c.n}
KeptIn(asks) == IF asks THEN names ELSE conns
WindowsKept ==
  /\ \A c \in contacts : c.time <= packetTime
  /\ \A c, x \in contacts : c.n < x.n => c.time <= x.time
  /\ \A c \in contacts : c.time >= packetTime - DetectionWindow
       => c \in KeptIn(c.asks) \/ Cardinality(LaterThan(c)) >= MaxStateEvents

\* The table has the time of the newest alert of each key.
TableRight ==
  /\ \A k \in DOMAIN muted : \E r \in raised : r.key = k /\ r.time = muted[k]
  /\ \A r \in raised : r.key \in DOMAIN muted /\ r.time \in Nat /\ r.time <= muted[r.key]

\* What was announced is not much further from the end of the findings than from the
\* end of the announcements.
Slack == IF RecentFindings = 0 THEN 1 ELSE RecentFindings
ListedNear(listed, told) ==
  \A d \in Nat : d < Len(told) /\ d <= MaxFindings - RecentFindings =>
    \E e \in Nat : e < Len(listed) /\ e < d + Slack /\ listed[Len(listed) - e] = told[Len(told) - d]

DetectionInv ==
  /\ DetectionTypeOK
  /\ inOrder => WindowsKept
  /\ TableRight
  /\ AlertsInTime
  /\ ListedNear(findings, announced)

\* A packet begins a flow, is of a name query, or matches a signature.
LEMMA PacketFacts ==
  ASSUME NEW t \in 0..LastTime, NEW p \in PacketsAt(t)
  PROVE  /\ p.time = t /\ t \in Nat /\ p.created \in BOOLEAN /\ p.asks \in BOOLEAN
         /\ ~(p.created /\ p.asks)
         /\ p.created => p.actor \in Actors /\ p.host \in Hosts /\ p.port \in Services
         /\ p.asks => p.actor \in Actors
         /\ p.signs \subseteq Rules /\ IsFiniteSet(p.signs)
<1>1. t \in Nat
  BY DetectionAssumption
<1>2. CASE \E a \in Actors, h \in Hosts, s \in Services : p = Opening(t, a, h, s)
  BY <1>1, <1>2, FS_EmptySet DEF Opening, Plain
<1>3. CASE \E a \in Actors, failed \in BOOLEAN : p = Asking(t, a, failed)
  BY <1>1, <1>3, FS_EmptySet DEF Asking, Plain
<1>4. CASE \E x \in Rules : p = Matching(t, x)
  <2>1. PICK x \in Rules : p = Matching(t, x)
    BY <1>4
  <2>2. p.time = t /\ p.created = FALSE /\ p.asks = FALSE /\ p.signs = {x}
    BY <2>1 DEF Matching, Plain
  <2>3. IsFiniteSet({x})
    BY FS_Singleton
  <2> QED BY <2>2, <2>3, <1>1
<1> QED BY <1>2, <1>3, <1>4 DEF PacketsAt

\* The alerts of a packet are finitely many, and of the keys above.
LEMMA AlertFacts ==
  ASSUME NEW t \in 0..LastTime, NEW p \in PacketsAt(t)
  PROVE  Alerts(p) \subseteq AlertKeys /\ IsFiniteSet(Alerts(p))
<1> DEFINE Signs == {<<"sign", s>> : s \in p.signs}
           Others == {<<"ports", p.actor, p.host>>, <<"hosts", p.actor, p.port>>, <<"nxdomain", p.actor>>}
<1>1. IsFiniteSet(Signs) /\ Signs \subseteq AlertKeys
  <2>1. \A s \in p.signs : s \in Rules
    BY PacketFacts
  <2>2. IsFiniteSet(Signs)
    <3> DEFINE f == [s \in p.signs |-> <<"sign", s>>]
    <3>1. f = [s \in p.signs |-> f[s]] /\ {f[s] : s \in p.signs} = Signs /\ IsFiniteSet(p.signs)
      BY PacketFacts
    <3> HIDE DEF f
    <3>2. IsFiniteSet({f[s] : s \in p.signs})
      BY <3>1, ImagesFew
    <3> QED BY <3>1, <3>2
  <2> QED BY <2>1, <2>2 DEF AlertKeys
<1>2. IsFiniteSet(Others)
  <2>1. IsFiniteSet({<<"ports", p.actor, p.host>>} \cup {<<"hosts", p.actor, p.port>>})
    <3>1. IsFiniteSet({<<"ports", p.actor, p.host>>})
      BY FS_Singleton
    <3> QED BY <3>1, FS_AddElement
  <2>2. IsFiniteSet({<<"ports", p.actor, p.host>>} \cup {<<"hosts", p.actor, p.port>>} \cup {<<"nxdomain", p.actor>>})
    BY <2>1, FS_AddElement
  <2>3. Others = {<<"ports", p.actor, p.host>>} \cup {<<"hosts", p.actor, p.port>>} \cup {<<"nxdomain", p.actor>>}
    OBVIOUS
  <2> QED BY <2>2, <2>3
<1>3. StatefulAlerts(p) \subseteq Others /\ StatefulAlerts(p) \subseteq AlertKeys
  <2>1. ASSUME NEW E PROVE ScanAlerts(E, p) \subseteq {<<"ports", p.actor, p.host>>, <<"hosts", p.actor, p.port>>}
    BY DEF ScanAlerts
  <2>2. ASSUME NEW E, p.created PROVE ScanAlerts(E, p) \subseteq AlertKeys
    <3>1. p.actor \in Actors /\ p.host \in Hosts /\ p.port \in Services
      BY <2>2, PacketFacts
    <3>2. <<"ports", p.actor, p.host>> \in AlertKeys /\ <<"hosts", p.actor, p.port>> \in AlertKeys
      BY <3>1 DEF AlertKeys
    <3> QED BY <2>1, <3>2
  <2>3. ASSUME p.asks PROVE <<"nxdomain", p.actor>> \in AlertKeys
    BY <2>3, PacketFacts DEF AlertKeys
  <2> QED BY <2>1, <2>2, <2>3 DEF StatefulAlerts
<1>4. IsFiniteSet(StatefulAlerts(p))
  BY <1>2, <1>3, FS_Subset
<1>5. IsFiniteSet(Signs \cup StatefulAlerts(p))
  BY <1>1, <1>4, FS_Union
<1> QED BY <1>1, <1>3, <1>5 DEF Alerts

\* compactSeen only forgets.
LEMMA TableFacts ==
  ASSUME muted \in [DOMAIN muted -> Nat], NEW now, NEW table \in SeenTables(now)
  PROVE  /\ DOMAIN table \subseteq DOMAIN muted
         /\ table \in [DOMAIN table -> Nat]
         /\ \A k \in DOMAIN table : table[k] = muted[k]
<1>1. CASE table = muted
  BY <1>1
<1>2. CASE table # muted
  <2>1. PICK keep \in SUBSET Fresh(now) : table = [k \in keep |-> muted[k]]
    BY <1>2 DEF SeenTables
  <2>2. keep \subseteq DOMAIN muted
    BY DEF Fresh
  <2> QED BY <2>1, <2>2
<1> QED BY <1>1, <1>2

\* What a window drops of those that are young enough has as many later ones as the
\* window may hold.
LEMMA WindowKeeps ==
  ASSUME NEW K, IsFiniteSet(K), NEW W \in SUBSET K, NEW now
  PROVE  /\ Window(W, now) \subseteq {x \in W : x.time >= now - DetectionWindow}
         /\ \A c \in W : c.time >= now - DetectionWindow /\ c \notin Window(W, now)
              => Cardinality({x \in K : x.n > c.n}) >= MaxStateEvents
<1> DEFINE V == {x \in W : x.time >= now - DetectionWindow}
<1>1. Window(W, now) = LastOf(V)
  BY DEF Window
<1> SUFFICES ASSUME NEW c \in V, c \notin LastOf(V)
             PROVE  Cardinality({x \in K : x.n > c.n}) >= MaxStateEvents
  BY <1>1 DEF LastOf
<1> DEFINE A == {x \in V : x.n > c.n}
           B == {x \in K : x.n > c.n}
<1>2. A \in SUBSET B /\ B \in SUBSET K
  OBVIOUS
<1>3. IsFiniteSet(B) /\ IsFiniteSet(A) /\ Cardinality(A) <= Cardinality(B)
  BY <1>2, FS_Subset
<1>4. ~(Cardinality(A) < MaxStateEvents)
  BY DEF LastOf
<1>5. Cardinality(A) \in Nat /\ Cardinality(B) \in Nat /\ MaxStateEvents \in Nat
  BY <1>3, FS_CardinalityType, DetectionAssumption
<1> QED BY <1>3, <1>4, <1>5

\* The windows after a packet.
LEMMA WindowsAfterPacket ==
  ASSUME DetectionTypeOK, inOrder => WindowsKept,
         NEW t \in 0..LastTime, NEW p \in PacketsAt(t), ObservePacket(p)
  PROVE  /\ IsFiniteSet(contacts')
         /\ \A c \in contacts' : c.time \in Nat /\ c.n \in 1..(observed') /\ c.asks \in BOOLEAN
         /\ conns' \subseteq {c \in contacts' : ~c.asks} /\ names' \subseteq {c \in contacts' : c.asks}
         /\ \A c \in KeptIn(p.asks)' : p.created \/ p.asks => c.time >= p.time - DetectionWindow
         /\ inOrder' => WindowsKept' /\ packetTime' = p.time
<1> DEFINE e == Sighted(p)
           N == {x \in {e} : p.created \/ p.asks}
           K(asks) == {c \in contacts' : c.asks = asks}
           W(asks) == KeptIn(asks) \union {x \in N : x.asks = asks}
<1>1. /\ p.time = t /\ t \in Nat /\ p.created \in BOOLEAN /\ p.asks \in BOOLEAN /\ ~(p.created /\ p.asks)
      /\ DetectionWindow \in Nat /\ MaxStateEvents \in Nat
  BY PacketFacts, DetectionAssumption
<1>2. e.time = p.time /\ e.asks = p.asks /\ e.n = observed + 1
  BY DEF Sighted
<1>3. /\ contacts' = contacts \union N /\ observed' = observed + 1
      /\ conns' = ConnsAfter(p) /\ names' = NamesAfter(p)
      /\ inOrder' = (inOrder /\ p.time >= packetTime)
      /\ packetTime' = (IF p.time > packetTime THEN p.time ELSE packetTime)
  BY DEF ObservePacket
<1>4. /\ IsFiniteSet(contacts) /\ observed \in Nat /\ packetTime \in Nat /\ inOrder \in BOOLEAN
      /\ \A c \in contacts : c.time \in Nat /\ c.n \in 1..observed /\ c.asks \in BOOLEAN
      /\ conns \subseteq {c \in contacts : ~c.asks} /\ names \subseteq {c \in contacts : c.asks}
  BY DEF DetectionTypeOK
<1> HIDE DEF e
<1>5. IsFiniteSet(contacts')
  <2>1. N = {e} \/ N = {}
    BY <1>1
  <2>2. IsFiniteSet(contacts \union {e})
    BY <1>4, FS_AddElement
  <2>3. contacts \union {} = contacts
    OBVIOUS
  <2> QED BY <2>1, <2>2, <2>3, <1>3, <1>4
<1>6. \A c \in contacts' : c.time \in Nat /\ c.n \in 1..(observed + 1) /\ c.asks \in BOOLEAN
  BY <1>1, <1>2, <1>3, <1>4
<1>7. ASSUME NEW asks \in BOOLEAN
      PROVE  /\ KeptIn(asks)' = IF \E x \in N : x.asks = asks THEN Window(W(asks), p.time) ELSE KeptIn(asks)
             /\ W(asks) \in SUBSET K(asks) /\ IsFiniteSet(K(asks))
  <2>1. W(asks) \in SUBSET K(asks)
    BY <1>3, <1>4, <1>7 DEF KeptIn
  <2>2. IsFiniteSet(K(asks))
    <3>1. K(asks) \in SUBSET contacts'
      OBVIOUS
    <3> QED BY <3>1, <1>5, FS_Subset
  <2>3. CASE asks
    <3>1. KeptIn(asks)' = NamesAfter(p) /\ KeptIn(asks) = names
      BY <2>3, <1>3 DEF KeptIn
    <3>2. CASE p.asks
      <4>1. W(asks) = names \union {Sighted(p)} /\ \E x \in N : x.asks = asks
        BY <3>1, <3>2, <2>3, <1>2 DEF e
      <4>2. KeptIn(asks)' = Window(names \union {Sighted(p)}, p.time)
        BY <3>1, <3>2 DEF NamesAfter
      <4> HIDE DEF W, N
      <4> QED BY <4>1, <4>2, <2>1, <2>2
    <3>3. CASE ~p.asks
      <4>1. ~ \E x \in N : x.asks = asks
        BY <3>3, <2>3, <1>1, <1>2, <1>7
      <4>2. KeptIn(asks)' = KeptIn(asks)
        BY <3>1, <3>3 DEF NamesAfter
      <4> HIDE DEF W, N
      <4> QED BY <4>1, <4>2, <2>1, <2>2
    <3> QED BY <3>2, <3>3, <1>1
  <2>4. CASE ~asks
    <3>1. KeptIn(asks)' = ConnsAfter(p) /\ KeptIn(asks) = conns
      BY <2>4, <1>3 DEF KeptIn
    <3>2. CASE p.created
      <4>1. W(asks) = conns \union {Sighted(p)} /\ \E x \in N : x.asks = asks
        BY <3>1, <3>2, <2>4, <1>1, <1>2, <1>7 DEF e
      <4>2. KeptIn(asks)' = Window(conns \union {Sighted(p)}, p.time)
        BY <3>1, <3>2 DEF ConnsAfter
      <4> HIDE DEF W, N
      <4> QED BY <4>1, <4>2, <2>1, <2>2
    <3>3. CASE ~p.created
      <4>1. ~ \E x \in N : x.asks = asks
        BY <3>3, <2>4, <1>1, <1>2, <1>7
      <4>2. KeptIn(asks)' = KeptIn(asks)
        BY <3>1, <3>3 DEF ConnsAfter
      <4> HIDE DEF W, N
      <4> QED BY <4>1, <4>2, <2>1, <2>2
    <3> QED BY <3>2, <3>3, <1>1
  <2> QED BY <2>1, <2>2, <2>3, <2>4, <1>7
<1>8. ASSUME NEW asks \in BOOLEAN
      PROVE  /\ KeptIn(asks)' \subseteq K(asks)
             /\ (\E x \in N : x.asks = asks) => \A c \in KeptIn(asks)' : c.time >= p.time - DetectionWindow
             /\ \A c \in W(asks) : c.time >= p.time - DetectionWindow /\ c \notin KeptIn(asks)'
                  => Cardinality({x \in K(asks) : x.n > c.n}) >= MaxStateEvents
  <2>1. CASE \E x \in N : x.asks = asks
    <3>1. /\ Window(W(asks), p.time) \subseteq {x \in W(asks) : x.time >= p.time - DetectionWindow}
          /\ \A c \in W(asks) : c.time >= p.time - DetectionWindow /\ c \notin Window(W(asks), p.time)
               => Cardinality({x \in K(asks) : x.n > c.n}) >= MaxStateEvents
      <4>1. W(asks) \in SUBSET K(asks) /\ IsFiniteSet(K(asks))
        BY <1>7, <1>8
      <4> HIDE DEF W, K
      <4> QED BY <4>1, WindowKeeps
    <3>2. KeptIn(asks)' = Window(W(asks), p.time) /\ W(asks) \subseteq K(asks)
      BY <2>1, <1>7, <1>8
    <3> HIDE DEF W, K, N
    <3> QED BY <3>1, <3>2
  <2>2. CASE ~ \E x \in N : x.asks = asks
    <3>1. W(asks) = KeptIn(asks) /\ KeptIn(asks)' = KeptIn(asks)
      BY <2>2, <1>7, <1>8
    <3> QED BY <3>1, <2>2, <1>7, <1>8
  <2> QED BY <2>1, <2>2
<1>9. conns' \subseteq {c \in contacts' : ~c.asks} /\ names' \subseteq {c \in contacts' : c.asks}
  <2>1. conns' = KeptIn(FALSE)' /\ names' = KeptIn(TRUE)'
    BY DEF KeptIn
  <2>2. conns' \subseteq K(FALSE) /\ names' \subseteq K(TRUE)
    BY <2>1, <1>8
  <2> QED BY <2>2
<1>10. ASSUME NEW c \in KeptIn(p.asks)', p.created \/ p.asks PROVE c.time >= p.time - DetectionWindow
  <2>1. \E x \in N : x.asks = p.asks
    BY <1>10, <1>2
  <2> QED BY <2>1, <1>8, <1>10, <1>1
<1>11. ASSUME inOrder' PROVE WindowsKept' /\ packetTime' = p.time
  <2>1. WindowsKept /\ p.time >= packetTime /\ packetTime' = p.time
    BY <1>11, <1>1, <1>3, <1>4
  <2>2. ASSUME NEW c \in contacts' PROVE c.time <= packetTime'
    BY <2>1, <1>1, <1>2, <1>3, <1>4 DEF WindowsKept
  <2>3. ASSUME NEW c \in contacts', NEW x \in contacts', c.n < x.n PROVE c.time <= x.time
    <3>1. CASE x \in contacts /\ c \in contacts
      BY <3>1, <2>1, <2>3 DEF WindowsKept
    <3>2. CASE x = e
      BY <3>2, <2>1, <2>2, <1>2
    <3>3. CASE c = e /\ x \in contacts
      BY <3>3, <2>3, <1>2, <1>4
    <3> QED BY <3>1, <3>2, <3>3, <1>3
  <2>4. ASSUME NEW c \in contacts', c.time >= packetTime' - DetectionWindow
        PROVE  c \in KeptIn(c.asks)' \/ Cardinality(LaterThan(c)') >= MaxStateEvents
    <3>1. /\ LaterThan(c)' = {x \in K(c.asks) : x.n > c.n} /\ c.asks \in BOOLEAN
          /\ c.time >= p.time - DetectionWindow
      BY <2>1, <2>4, <1>6 DEF LaterThan
    <3>2. CASE c \in W(c.asks)
      BY <3>1, <3>2, <1>8
    <3>3. CASE c \notin W(c.asks)
      <4>1. c \in contacts /\ c \notin KeptIn(c.asks)
        BY <3>3, <1>3
      <4>2. c.time >= packetTime - DetectionWindow
        BY <4>1, <3>1, <2>1, <1>1, <1>4
      <4>3. Cardinality(LaterThan(c)) >= MaxStateEvents
        BY <4>1, <4>2, <2>1 DEF WindowsKept
      <4>4. LaterThan(c) \in SUBSET LaterThan(c)'
        BY <1>3 DEF LaterThan
      <4>5. IsFiniteSet(LaterThan(c)')
        <5>1. LaterThan(c)' \in SUBSET contacts'
          BY DEF LaterThan
        <5> QED BY <5>1, <1>5, FS_Subset
      <4>6. /\ Cardinality(LaterThan(c)) <= Cardinality(LaterThan(c)')
            /\ Cardinality(LaterThan(c)) \in Nat /\ Cardinality(LaterThan(c)') \in Nat
        BY <4>4, <4>5, FS_Subset, FS_CardinalityType
      <4> QED BY <4>3, <4>6, <1>1
    <3> QED BY <3>2, <3>3
  <2> QED BY <2>1, <2>2, <2>3, <2>4 DEF WindowsKept
<1> QED BY <1>3, <1>5, <1>6, <1>9, <1>10, <1>11

\* The table after a packet: an alert is raised now, or was less than Mute ago.
LEMMA TableAfterPacket ==
  ASSUME DetectionTypeOK, TableRight, RaisedOncePerMute,
         NEW t \in 0..LastTime, NEW p \in PacketsAt(t), ObservePacket(p)
  PROVE  /\ muted' \in [DOMAIN muted' -> Nat]
         /\ TableRight' /\ RaisedOncePerMute'
         /\ \A k \in Alerts(p) : \E r \in raised' : r.key = k /\ p.time - r.time < Mute
<1>1. PICK table \in SeenTables(p.time) :
        /\ muted' = Raise(table, Raises(table, p), p.time)
        /\ raised' = {r \in raised : r.key \in DOMAIN table}
                       \union {[key |-> k, time |-> p.time] : k \in Raises(table, p)}
  BY DEF ObservePacket
<1> DEFINE new == Raises(table, p)
           New == {[key |-> k, time |-> p.time] : k \in new}
           Old == {r \in raised : r.key \in DOMAIN table}
<1>2. p.time \in Nat /\ Mute \in Nat /\ Mute > 0
  BY PacketFacts, DetectionAssumption
<1>3. /\ muted \in [DOMAIN muted -> Nat] /\ DOMAIN table \subseteq DOMAIN muted
      /\ \A k \in DOMAIN table : table[k] = muted[k] /\ table[k] \in Nat
  BY TableFacts DEF DetectionTypeOK
<1>4. \A k \in new : k \in Alerts(p) /\ (k \in DOMAIN table => p.time - table[k] >= Mute)
  BY <1>2, <1>3 DEF Raises, Muted
<1>5. \A k \in Alerts(p) : k \in new \/ (k \in DOMAIN table /\ p.time - table[k] < Mute)
  BY DEF Raises, Muted
<1>6. raised' = Old \union New
  BY <1>1
<1>7. /\ DOMAIN muted' = DOMAIN table \union new
      /\ \A k \in new : muted'[k] = p.time
      /\ \A k \in DOMAIN table : k \notin new => muted'[k] = table[k]
      /\ muted' = [k \in DOMAIN table \union new |-> muted'[k]]
  BY <1>1 DEF Raise
<1>8. \A k \in DOMAIN table : \E r \in Old : r.key = k /\ r.time = table[k]
  BY <1>3 DEF TableRight
<1>9. \A r \in Old : r.key \in DOMAIN table /\ r.time \in Nat /\ r.time <= table[r.key]
  BY <1>3 DEF TableRight
<1>10. /\ \A r \in New : r.key \in new /\ r.time = p.time
       /\ \A k \in new : \E r \in New : r.key = k /\ r.time = p.time
  <2>1. ASSUME NEW r \in New PROVE r.key \in new /\ r.time = p.time
    OBVIOUS
  <2>2. ASSUME NEW k \in new PROVE [key |-> k, time |-> p.time] \in New
    OBVIOUS
  <2> HIDE DEF new, New
  <2>3. ASSUME NEW k \in new PROVE \E r \in New : r.key = k /\ r.time = p.time
    <3> DEFINE r == [key |-> k, time |-> p.time]
    <3>1. r \in New /\ r.key = k /\ r.time = p.time
      BY <2>2
    <3> QED BY <3>1
  <2> QED BY <2>1, <2>3
<1> HIDE DEF new, New, Old
<1>11. muted' \in [DOMAIN muted' -> Nat]
  BY <1>2, <1>3, <1>7
<1>12. TableRight'
  <2>1. ASSUME NEW k \in DOMAIN muted' PROVE \E r \in raised' : r.key = k /\ r.time = muted'[k]
    BY <1>6, <1>7, <1>8, <1>10
  <2>2. ASSUME NEW r \in raised'
        PROVE  r.key \in DOMAIN muted' /\ r.time \in Nat /\ r.time <= muted'[r.key]
    <3>1. CASE r \in New
      BY <3>1, <1>7, <1>10, <1>2
    <3>2. CASE r \in Old
      <4>1. r.key \in DOMAIN table /\ r.time \in Nat /\ r.time <= table[r.key] /\ table[r.key] \in Nat
        BY <3>2, <1>3, <1>9
      <4>2. CASE r.key \in new
        BY <4>1, <4>2, <1>2, <1>4, <1>7
      <4>3. CASE r.key \notin new
        BY <4>1, <4>3, <1>7
      <4> QED BY <4>2, <4>3
    <3> QED BY <3>1, <3>2, <1>6
  <2> QED BY <2>1, <2>2 DEF TableRight
<1>13. RaisedOncePerMute'
  <2> SUFFICES ASSUME NEW r \in raised', NEW q \in raised', r.key = q.key, r.time < q.time
               PROVE  q.time - r.time >= Mute
    BY DEF RaisedOncePerMute
  <2>1. CASE r \in Old /\ q \in Old
    <3>1. r \in raised /\ q \in raised
      BY <2>1 DEF Old
    <3> QED BY <3>1 DEF RaisedOncePerMute
  <2>2. CASE r \in Old /\ q \in New
    <3>1. q.key \in new /\ q.time = p.time
      BY <2>2, <1>10
    <3>2. r.key \in DOMAIN table /\ r.time \in Nat /\ r.time <= table[r.key] /\ table[r.key] \in Nat
      BY <2>2, <1>3, <1>9
    <3>3. p.time - table[r.key] >= Mute
      BY <3>1, <3>2, <1>4
    <3> QED BY <3>1, <3>2, <3>3, <1>2
  <2>3. CASE r \in New /\ q \in Old
    <3>1. r.key \in new /\ r.time = p.time
      BY <2>3, <1>10
    <3>2. q.key \in DOMAIN table /\ q.time \in Nat /\ q.time <= table[q.key] /\ table[q.key] \in Nat
      BY <2>3, <1>3, <1>9
    <3>3. p.time - table[q.key] >= Mute
      BY <3>1, <3>2, <1>4
    <3> QED BY <3>1, <3>2, <3>3, <1>2
  <2>4. CASE r \in New /\ q \in New
    BY <2>4, <1>2, <1>10
  <2> QED BY <2>1, <2>2, <2>3, <2>4, <1>6
<1>14. ASSUME NEW k \in Alerts(p) PROVE \E r \in raised' : r.key = k /\ p.time - r.time < Mute
  <2>1. CASE k \in new
    <3>1. PICK r \in New : r.key = k /\ r.time = p.time
      BY <2>1, <1>10
    <3> QED BY <3>1, <1>2, <1>6
  <2>2. CASE k \in DOMAIN table /\ p.time - table[k] < Mute
    <3>1. PICK r \in Old : r.key = k /\ r.time = table[k]
      BY <2>2, <1>8
    <3> QED BY <3>1, <2>2, <1>6
  <2> QED BY <2>1, <2>2, <1>5
<1> QED BY <1>11, <1>12, <1>13, <1>14

\* In the order of time, and with no more events than a window may hold, the window is
\* what was observed of that time.
LEMMA WindowIsRecent ==
  ASSUME DetectionTypeOK, inOrder => WindowsKept,
         NEW t \in 0..LastTime, NEW p \in PacketsAt(t), ObservePacket(p),
         inOrder', p.created \/ p.asks, Cardinality(Recent(p.asks)') <= MaxStateEvents
  PROVE  Recent(p.asks)' = KeptIn(p.asks)'
<1>1. /\ IsFiniteSet(contacts')
      /\ \A c \in contacts' : c.time \in Nat /\ c.n \in 1..(observed') /\ c.asks \in BOOLEAN
      /\ conns' \subseteq {c \in contacts' : ~c.asks} /\ names' \subseteq {c \in contacts' : c.asks}
      /\ \A c \in KeptIn(p.asks)' : c.time >= p.time - DetectionWindow
      /\ WindowsKept' /\ packetTime' = p.time
  BY WindowsAfterPacket
<1>2. p.time \in Nat /\ DetectionWindow \in Nat /\ MaxStateEvents \in Nat /\ p.asks \in BOOLEAN
  BY PacketFacts, DetectionAssumption
<1>3. lastPacket' = p /\ observed' \in Nat
  BY DEF ObservePacket, DetectionTypeOK
<1>4. Recent(p.asks)' = {c \in contacts' : c.asks = p.asks /\ c.time >= p.time - DetectionWindow
                                          /\ c.time <= p.time}
  BY <1>3 DEF Recent
<1>5. KeptIn(p.asks)' \subseteq Recent(p.asks)'
  <2>1. KeptIn(p.asks)' \subseteq {c \in contacts' : c.asks = p.asks}
    BY <1>1, <1>2 DEF KeptIn
  <2>2. \A c \in contacts' : c.time <= p.time
    BY <1>1 DEF WindowsKept
  <2> QED BY <2>1, <2>2, <1>1, <1>4
<1>6. ASSUME NEW c \in Recent(p.asks)', c \notin KeptIn(p.asks)' PROVE FALSE
  <2>1. c \in contacts' /\ c.asks = p.asks /\ c.time >= p.time - DetectionWindow
    BY <1>4, <1>6
  <2>2. Cardinality(LaterThan(c)') >= MaxStateEvents
    BY <2>1, <1>1, <1>6 DEF WindowsKept
  <2>3. LaterThan(c)' \union {c} \in SUBSET Recent(p.asks)'
    <3>1. ASSUME NEW x \in LaterThan(c)' PROVE x \in Recent(p.asks)'
      <4>1. x \in contacts' /\ x.asks = p.asks /\ x.n > c.n
        BY <3>1, <2>1 DEF LaterThan
      <4>2. c.n < x.n
        BY <4>1, <2>1, <1>1, <1>3
      <4>3. c.time <= x.time /\ x.time <= p.time
        BY <4>1, <4>2, <2>1, <1>1 DEF WindowsKept
      <4>4. x.time >= p.time - DetectionWindow
        BY <4>1, <4>3, <2>1, <1>1, <1>2
      <4> QED BY <4>1, <4>3, <4>4, <1>4
    <3> QED BY <3>1, <1>6
  <2>4. c \notin LaterThan(c)'
    BY <2>1, <1>1, <1>3 DEF LaterThan
  <2>5. IsFiniteSet(Recent(p.asks)')
    <3>1. Recent(p.asks)' \in SUBSET contacts'
      BY <1>4
    <3> QED BY <3>1, <1>1, FS_Subset
  <2>6. IsFiniteSet(LaterThan(c)')
    <3>1. LaterThan(c)' \in SUBSET Recent(p.asks)'
      BY <2>3
    <3> QED BY <3>1, <2>5, FS_Subset
  <2>7. Cardinality(LaterThan(c)' \union {c}) = Cardinality(LaterThan(c)') + 1
    BY <2>4, <2>6, FS_AddElement
  <2>8. Cardinality(LaterThan(c)' \union {c}) <= Cardinality(Recent(p.asks)')
    BY <2>3, <2>5, FS_Subset
  <2>9. Cardinality(LaterThan(c)') \in Nat /\ Cardinality(Recent(p.asks)') \in Nat
    BY <2>5, <2>6, FS_CardinalityType
  <2> QED BY <2>2, <2>7, <2>8, <2>9, <1>2
<1> QED BY <1>5, <1>6

LEMMA ScansAfterPacket ==
  ASSUME DetectionInv, NEW t \in 0..LastTime, NEW p \in PacketsAt(t), ObservePacket(p)
  PROVE  ScansAreRaised'
<1> SUFFICES ASSUME inOrder', \A asks \in BOOLEAN : Cardinality(Recent(asks)') <= MaxStateEvents,
                    NEW k \in ShouldBeRaised'
             PROVE  \E r \in raised' : r.key = k /\ p.time - r.time < Mute
  <2>1. lastPacket' = p
    BY DEF ObservePacket
  <2> QED BY <2>1 DEF ScansAreRaised
<1>1. /\ lastPacket' = p /\ conns' = ConnsAfter(p) /\ names' = NamesAfter(p)
      /\ p.created \in BOOLEAN /\ p.asks \in BOOLEAN /\ ~(p.created /\ p.asks)
  BY PacketFacts DEF ObservePacket
<1>2. p.created => Recent(FALSE)' = ConnsAfter(p)
  <2>1. ASSUME p.created PROVE p.asks = FALSE /\ KeptIn(FALSE)' = ConnsAfter(p)
    BY <2>1, <1>1 DEF KeptIn
  <2>2. ASSUME p.created PROVE Recent(p.asks)' = KeptIn(p.asks)'
    BY <2>2, <1>1, WindowIsRecent DEF DetectionInv
  <2> QED BY <2>1, <2>2
<1>3. p.asks => Recent(TRUE)' = NamesAfter(p)
  <2>1. ASSUME p.asks PROVE p.asks = TRUE /\ KeptIn(TRUE)' = NamesAfter(p)
    BY <2>1, <1>1 DEF KeptIn
  <2>2. ASSUME p.asks PROVE Recent(p.asks)' = KeptIn(p.asks)'
    BY <2>2, <1>1, WindowIsRecent DEF DetectionInv
  <2> QED BY <2>1, <2>2
<1>4. k \in Alerts(p)
  <2>1. CASE p.created /\ k \in ScanAlerts(Recent(FALSE)', p)
    BY <2>1, <1>2 DEF Alerts, StatefulAlerts
  <2>2. CASE /\ p.asks /\ k = <<"nxdomain", p.actor>>
             /\ Cardinality({c \in Recent(TRUE)' : c.actor = p.actor /\ c.nx}) >= NXDomains
    BY <2>2, <1>3 DEF Alerts, StatefulAlerts
  <2> QED BY <2>1, <2>2, <1>1 DEF ShouldBeRaised
<1> QED BY <1>4, TableAfterPacket DEF DetectionInv, AlertsInTime

\* The same put at the end of both lists leaves them near.
LEMMA AppendedStayNear ==
  ASSUME NEW listed \in Seq(Told), NEW told \in Seq(Told), NEW X \in Seq(Told),
         ListedNear(listed, told), Len(told) <= MaxFindings
  PROVE  ListedNear(Newest(listed \o X, MaxFindings), Newest(told \o X, MaxFindings))
<1> DEFINE ff == listed \o X
           aa == told \o X
           gs == Newest(ff, MaxFindings)
           bs == Newest(aa, MaxFindings)
           m == Len(X)
<1>1. /\ MaxFindings \in Nat /\ RecentFindings \in Nat /\ MaxFindings > 0
      /\ Slack \in Nat /\ Slack > 0 /\ (RecentFindings > 0 => Slack = RecentFindings)
      /\ (RecentFindings = 0 => Slack = 1)
  BY DetectionAssumption DEF Slack
<1>2. /\ ff \in Seq(Told) /\ aa \in Seq(Told) /\ m \in Nat /\ Len(listed) \in Nat /\ Len(told) \in Nat
      /\ Len(ff) = Len(listed) + m /\ Len(aa) = Len(told) + m
  BY ConcatProperties, LenProperties
<1>3. ASSUME NEW d \in Nat, d < m
      PROVE  ff[Len(ff) - d] = X[m - d] /\ aa[Len(aa) - d] = X[m - d]
  <2>1. Len(ff) - d \in 1..Len(ff) /\ Len(ff) - d > Len(listed) /\ Len(ff) - d - Len(listed) = m - d
    BY <1>2, <1>3
  <2>2. Len(aa) - d \in 1..Len(aa) /\ Len(aa) - d > Len(told) /\ Len(aa) - d - Len(told) = m - d
    BY <1>2, <1>3
  <2> QED BY <2>1, <2>2, ConcatProperties, <1>2
<1>4. ASSUME NEW d \in Nat, d >= m
      PROVE  /\ d < Len(ff) => d - m < Len(listed) /\ ff[Len(ff) - d] = listed[Len(listed) - (d - m)]
             /\ d < Len(aa) => d - m < Len(told) /\ aa[Len(aa) - d] = told[Len(told) - (d - m)]
  <2>1. ASSUME d < Len(ff) PROVE Len(ff) - d \in 1..Len(listed) /\ Len(ff) - d = Len(listed) - (d - m)
    BY <1>2, <1>4, <2>1
  <2>2. ASSUME d < Len(aa) PROVE Len(aa) - d \in 1..Len(told) /\ Len(aa) - d = Len(told) - (d - m)
    BY <1>2, <1>4, <2>2
  <2> QED BY <2>1, <2>2, ConcatProperties, <1>2
<1>5. /\ Len(bs) <= MaxFindings
      /\ \A d \in Nat : d < Len(bs) => d < Len(aa) /\ bs[Len(bs) - d] = aa[Len(aa) - d]
      /\ \A d \in Nat : d < Len(ff) /\ d < MaxFindings =>
           d < Len(gs) /\ gs[Len(gs) - d] = ff[Len(ff) - d]
      /\ Len(bs) \in Nat
  <2>1. bs \in Seq(Told)
    BY <1>1, <1>2, NewestKeepsEnd
  <2> QED BY <1>1, <1>2, <2>1, NewestKeepsEnd, LenProperties
<1> HIDE DEF ff, aa, gs, bs, m
<1> SUFFICES ASSUME NEW d \in Nat, d < Len(bs), d <= MaxFindings - RecentFindings
             PROVE  \E e \in Nat : e < Len(gs) /\ e < d + Slack /\ gs[Len(gs) - e] = bs[Len(bs) - d]
  BY DEF ListedNear, gs, bs, ff, aa
<1>6. d < Len(aa) /\ bs[Len(bs) - d] = aa[Len(aa) - d] /\ d < MaxFindings
  BY <1>1, <1>5
<1>7. CASE d < m
  <2>1. d < Len(ff)
    BY <1>2, <1>7
  <2>2. d < Len(gs) /\ gs[Len(gs) - d] = ff[Len(ff) - d]
    BY <1>5, <1>6, <2>1
  <2> QED BY <1>1, <1>3, <1>6, <1>7, <2>2
<1>8. CASE d >= m
  <2>1. d - m \in Nat /\ d - m < Len(told) /\ aa[Len(aa) - d] = told[Len(told) - (d - m)]
    <3>1. d - m \in Nat
      BY <1>2, <1>8
    <3>2. d - m < Len(told) /\ aa[Len(aa) - d] = told[Len(told) - (d - m)]
      BY <1>4, <1>6, <1>8
    <3> QED BY <3>1, <3>2
  <2>2. d - m <= MaxFindings - RecentFindings
    BY <1>1, <1>2
  <2>3. PICK e \in Nat : e < Len(listed) /\ e < (d - m) + Slack /\ listed[Len(listed) - e] = told[Len(told) - (d - m)]
    BY <2>1, <2>2 DEF ListedNear
  <2>4. /\ e + m \in Nat /\ e + m >= m /\ e + m < Len(ff) /\ e + m < d + Slack
        /\ (e + m) - m = e
    BY <1>1, <1>2, <2>3
  <2>5. e + m < MaxFindings
    BY <1>1, <1>2, <1>6, <2>4
  <2>6. gs[Len(gs) - (e + m)] = ff[Len(ff) - (e + m)] /\ e + m < Len(gs)
    BY <1>5, <2>4, <2>5
  <2>7. ff[Len(ff) - (e + m)] = listed[Len(listed) - e]
    BY <1>4, <2>4
  <2> QED BY <1>6, <2>1, <2>3, <2>4, <2>6, <2>7
<1>9. d < m \/ d >= m
  BY <1>2
<1> QED BY <1>7, <1>8, <1>9

\* A finding that is announced again is among the last of those listed.
LEMMA RepeatedStaysNear ==
  ASSUME NEW listed \in Seq(Told), NEW told \in Seq(Told), NEW id \in Told,
         NEW j \in 1..Len(listed), j > Len(listed) - RecentFindings, listed[j] = id,
         ListedNear(listed, told)
  PROVE  ListedNear(listed, Newest(Append(told, id), MaxFindings))
<1> DEFINE aa == Append(told, id)
           bs == Newest(aa, MaxFindings)
<1>1. /\ MaxFindings \in Nat /\ RecentFindings \in Nat /\ Slack \in Nat
      /\ (RecentFindings > 0 => Slack = RecentFindings)
  BY DetectionAssumption DEF Slack
<1>2. /\ aa \in Seq(Told) /\ Len(aa) = Len(told) + 1 /\ Len(told) \in Nat /\ Len(listed) \in Nat
      /\ aa[Len(aa)] = id /\ \A i \in 1..Len(told) : aa[i] = told[i]
  BY AppendProperties, LenProperties
<1>3. /\ \A d \in Nat : d < Len(bs) => d < Len(aa) /\ bs[Len(bs) - d] = aa[Len(aa) - d]
  BY <1>1, <1>2, NewestKeepsEnd
<1> HIDE DEF aa, bs
<1> SUFFICES ASSUME NEW d \in Nat, d < Len(bs), d <= MaxFindings - RecentFindings
             PROVE  \E e \in Nat : e < Len(listed) /\ e < d + Slack /\ listed[Len(listed) - e] = bs[Len(bs) - d]
  BY DEF ListedNear, bs, aa
<1>4. d < Len(aa) /\ bs[Len(bs) - d] = aa[Len(aa) - d]
  BY <1>3
<1>5. CASE d = 0
  <2>1. /\ Len(listed) - j \in Nat /\ Len(listed) - j < Len(listed) /\ Len(listed) - j < RecentFindings
        /\ RecentFindings > 0 /\ Len(listed) - (Len(listed) - j) = j
    BY <1>1, <1>2
  <2>2. aa[Len(aa) - d] = id
    BY <1>2, <1>5
  <2> WITNESS Len(listed) - j \in Nat
  <2> QED BY <1>1, <1>4, <1>5, <2>1, <2>2
<1>6. CASE d > 0
  <2>1. d - 1 \in Nat /\ d - 1 < Len(told) /\ d - 1 <= MaxFindings - RecentFindings
    BY <1>1, <1>2, <1>4, <1>6
  <2>2. Len(aa) - d = Len(told) - (d - 1) /\ Len(told) - (d - 1) \in 1..Len(told)
    BY <1>2, <2>1
  <2>3. PICK e \in Nat : e < Len(listed) /\ e < (d - 1) + Slack /\ listed[Len(listed) - e] = told[Len(told) - (d - 1)]
    BY <2>1 DEF ListedNear
  <2>4. e < d + Slack
    BY <2>3, <1>1
  <2> QED BY <1>2, <1>4, <2>2, <2>3, <2>4
<1> QED BY <1>5, <1>6

LEMMA NearIsListed ==
  ASSUME DetectionTypeOK, ListedNear(findings, announced)
  PROVE  AnnouncedIsListed
<1>1. MaxFindings \in Nat /\ RecentFindings \in Nat /\ Len(announced) \in Nat /\ Len(findings) \in Nat
  BY DetectionAssumption, LenProperties DEF DetectionTypeOK
<1> SUFFICES ASSUME NEW i \in 1..Len(announced), i > Len(announced) - (MaxFindings - RecentFindings + 1)
             PROVE  \E j \in 1..Len(findings) : findings[j] = announced[i]
  BY DEF AnnouncedIsListed
<1>2. /\ Len(announced) - i \in Nat /\ Len(announced) - i < Len(announced)
      /\ Len(announced) - i <= MaxFindings - RecentFindings
      /\ Len(announced) - (Len(announced) - i) = i
  BY <1>1
<1>3. PICK e \in Nat : e < Len(findings) /\ findings[Len(findings) - e] = announced[i]
  BY <1>2 DEF ListedNear
<1>4. Len(findings) - e \in 1..Len(findings)
  BY <1>1, <1>3
<1> QED BY <1>3, <1>4

-----------------------------------------------------------------------------
LEMMA ObserveKeeps ==
  ASSUME DetectionInv, NEW t \in 0..LastTime, NEW p \in PacketsAt(t), ObservePacket(p)
  PROVE  DetectionInv'
<1>1. PICK table \in SeenTables(p.time) :
        /\ findings' = Newest(findings \o SetToSeq(Ids(Raises(table, p), p.time)), MaxFindings)
        /\ announced' = Newest(announced \o SetToSeq(Ids(Raises(table, p), p.time)), MaxFindings)
  BY DEF ObservePacket
<1> DEFINE S == Ids(Raises(table, p), p.time)
           X == SetToSeq(S)
<1>2. X \in Seq(Told)
  <2>1. Raises(table, p) \in SUBSET Alerts(p) /\ Alerts(p) \subseteq AlertKeys /\ IsFiniteSet(Alerts(p))
    BY AlertFacts DEF Raises
  <2>2. IsFiniteSet(Raises(table, p))
    BY <2>1, FS_Subset
  <2>3. IsFiniteSet(S)
    <3> DEFINE f == [k \in Raises(table, p) |-> [key |-> k, time |-> p.time, n |-> observed + 1]]
    <3>1. f = [k \in Raises(table, p) |-> f[k]] /\ {f[k] : k \in Raises(table, p)} = S
      BY DEF Ids
    <3> HIDE DEF f, S
    <3>2. IsFiniteSet({f[k] : k \in Raises(table, p)})
      BY <2>2, <3>1, ImagesFew
    <3> QED BY <3>1, <3>2
  <2>4. S \subseteq Told
    <3>1. p.time \in Nat /\ observed + 1 \in Nat
      BY PacketFacts DEF DetectionInv, DetectionTypeOK
    <3> QED BY <2>1, <3>1 DEF Ids, Told
  <2>5. X \in Seq(S)
    BY <2>3, SetToSeqExists
  <2> HIDE DEF X, S
  <2> QED BY <2>4, <2>5, SeqDef
<1> HIDE DEF X
<1>3. /\ findings \in Seq(Told) /\ announced \in Seq(Told) /\ Len(announced) <= MaxFindings
      /\ MaxFindings \in Nat /\ ListedNear(findings, announced)
      /\ findings' = Newest(findings \o X, MaxFindings) /\ announced' = Newest(announced \o X, MaxFindings)
  BY <1>1, DetectionAssumption DEF DetectionInv, DetectionTypeOK, X
<1>4. ListedNear(findings, announced)'
  <2>1. ListedNear(findings', announced')
    BY <1>2, <1>3, AppendedStayNear
  <2> QED BY <2>1 DEF ListedNear
<1>5. /\ findings' \in Seq(Told) /\ Len(findings') <= MaxFindings
      /\ announced' \in Seq(Told) /\ Len(announced') <= MaxFindings
  <2>1. findings \o X \in Seq(Told) /\ announced \o X \in Seq(Told)
    BY <1>2, <1>3, ConcatProperties
  <2> QED BY <2>1, <1>3, NewestKeepsEnd
<1>6. /\ muted' \in [DOMAIN muted' -> Nat] /\ TableRight' /\ RaisedOncePerMute'
  BY TableAfterPacket DEF DetectionInv, AlertsInTime
<1>7. ScansAreRaised'
  BY ScansAfterPacket
<1>8. /\ IsFiniteSet(contacts')
      /\ \A c \in contacts' : c.time \in Nat /\ c.n \in 1..(observed') /\ c.asks \in BOOLEAN
      /\ conns' \subseteq {c \in contacts' : ~c.asks} /\ names' \subseteq {c \in contacts' : c.asks}
      /\ inOrder' => WindowsKept'
  BY WindowsAfterPacket DEF DetectionInv
<1>9. packetTime' \in Nat /\ observed' \in Nat /\ inOrder' \in BOOLEAN /\ lastPacket'.time \in Nat
  BY PacketFacts DEF DetectionInv, DetectionTypeOK, ObservePacket
<1> QED BY <1>4, <1>5, <1>6, <1>7, <1>8, <1>9 DEF DetectionInv, DetectionTypeOK, AlertsInTime

LEMMA AddFindingKeeps ==
  ASSUME DetectionInv, NEW k \in 1..2, AddFinding([key |-> <<"other">>, time |-> 0, n |-> k])
  PROVE  DetectionInv'
<1> DEFINE id == [key |-> <<"other">>, time |-> 0, n |-> k]
<1>1. id \in Told
  BY DEF Told, AlertKeys
<1> HIDE DEF id
<1>2. /\ findings \in Seq(Told) /\ announced \in Seq(Told) /\ Len(announced) <= MaxFindings
      /\ Len(findings) <= MaxFindings
      /\ MaxFindings \in Nat /\ ListedNear(findings, announced)
      /\ findings' = (IF IsRecent(id) THEN findings ELSE Newest(Append(findings, id), MaxFindings))
      /\ announced' = Newest(Append(announced, id), MaxFindings)
      /\ UNCHANGED <<muted, conns, names, packetTime, observed, contacts, raised, lastPacket, inOrder>>
  BY DetectionAssumption DEF DetectionInv, DetectionTypeOK, AddFinding, id
<1>3. Append(findings, id) \in Seq(Told) /\ Append(announced, id) \in Seq(Told)
  BY <1>1, <1>2, AppendProperties
<1>4. /\ findings' \in Seq(Told) /\ Len(findings') <= MaxFindings
      /\ announced' \in Seq(Told) /\ Len(announced') <= MaxFindings
  BY <1>2, <1>3, NewestKeepsEnd
<1>5. ListedNear(findings', announced')
  <2>1. CASE IsRecent(id)
    <3>1. PICK j \in 1..Len(findings) : j > Len(findings) - RecentFindings /\ findings[j] = id
      BY <2>1 DEF IsRecent
    <3> QED BY <3>1, <2>1, <1>1, <1>2, RepeatedStaysNear
  <2>2. CASE ~IsRecent(id)
    <3>1. /\ <<id>> \in Seq(Told) /\ Append(findings, id) = findings \o <<id>>
          /\ Append(announced, id) = announced \o <<id>>
      BY <1>1, <1>2, AppendIsConcat
    <3>2. ListedNear(Newest(findings \o <<id>>, MaxFindings), Newest(announced \o <<id>>, MaxFindings))
      BY <3>1, <1>2, AppendedStayNear
    <3> QED BY <3>1, <3>2, <2>2, <1>2
  <2> QED BY <2>1, <2>2
<1>6. AlertsInTime'
  <2>1. ShouldBeRaised' = ShouldBeRaised /\ \A asks : Recent(asks)' = Recent(asks)
    BY <1>2 DEF ShouldBeRaised, Recent, ScanAlerts
  <2> QED BY <2>1, <1>2 DEF DetectionInv, AlertsInTime, ScansAreRaised, RaisedOncePerMute
<1>7. (inOrder => WindowsKept)' /\ TableRight'
  BY <1>2 DEF DetectionInv, WindowsKept, KeptIn, LaterThan, TableRight
<1>8. DetectionTypeOK'
  BY <1>2, <1>4 DEF DetectionInv, DetectionTypeOK
<1> QED BY <1>5, <1>6, <1>7, <1>8 DEF DetectionInv, ListedNear

LEMMA DetectionInitially ==
  ASSUME DetectionInit
  PROVE  DetectionInv
<1>1. DetectionTypeOK
  BY FS_EmptySet, DetectionAssumption DEF DetectionInit, DetectionTypeOK, Plain
<1>2. TableRight /\ WindowsKept /\ RaisedOncePerMute
  BY DEF DetectionInit, TableRight, WindowsKept, RaisedOncePerMute
<1>3. ShouldBeRaised = {}
  BY DEF DetectionInit, ShouldBeRaised, Plain
<1>4. ListedNear(findings, announced)
  BY DEF DetectionInit, ListedNear
<1> QED BY <1>1, <1>2, <1>3, <1>4 DEF DetectionInv, AlertsInTime, ScansAreRaised

DetectionSpec == DetectionInit /\ [][DetectionNext]_detectionVars

\* What the detection engine promises, for any rules, thresholds, windows and limits,
\* any packets at any times and any findings of other detectors.
THEOREM AlertsToldCorrect == DetectionSpec => []AlertsTold
<1>1. DetectionInit => DetectionInv
  BY DetectionInitially
<1>2. DetectionInv /\ [DetectionNext]_detectionVars => DetectionInv'
  <2> SUFFICES ASSUME DetectionInv, [DetectionNext]_detectionVars
               PROVE  DetectionInv'
    OBVIOUS
  <2>1. CASE \E t \in 0..LastTime : \E p \in PacketsAt(t) : ObservePacket(p)
    BY <2>1, ObserveKeeps
  <2>2. CASE \E k \in 1..2 : AddFinding([key |-> <<"other">>, time |-> 0, n |-> k])
    BY <2>2, AddFindingKeeps
  <2>3. CASE UNCHANGED detectionVars
    <3>1. ShouldBeRaised' = ShouldBeRaised /\ \A asks : Recent(asks)' = Recent(asks)
      BY <2>3 DEF detectionVars, ShouldBeRaised, Recent, ScanAlerts
    <3> QED BY <3>1, <2>3 DEF detectionVars, DetectionInv, DetectionTypeOK, WindowsKept, KeptIn,
               LaterThan, TableRight, AlertsInTime, ScansAreRaised, RaisedOncePerMute, ListedNear
  <2> QED BY <2>1, <2>2, <2>3 DEF DetectionNext
<1>3. DetectionInv => AlertsTold
  BY NearIsListed DEF DetectionInv, AlertsTold
<1> QED BY <1>1, <1>2, <1>3, PTL DEF DetectionSpec

-----------------------------------------------------------------------------
\* FileExtraction: what is extracted is what was transferred, as far as the policy
\* lets it (observeHTTP, observeSMTP, observeFTPData, observeSMB), for any limits,
\* queues, policy, file ids and losses.

\* The types.
Units == Nat \X Nat \X Nat
Limit == 2 * MaxFileBytes
FilesTypeOK ==
  /\ wire \in {"http", "smtp", "ftp", "smb"}
  /\ sentUnits \in Seq(Units) /\ losses \in Nat /\ parsed \in Nat
  /\ buffers \in [0..MaxUnits -> Seq(Units)]
  /\ ftpSession \in [port : Nat, file : Nat]
  /\ smb \in [pending : Nat, open : [Fids -> Nat], data : [Fids -> Seq(Units)]]
  /\ extracted \in Seq([name : Nat, data : Seq(Units)])
  /\ complete \in Seq([name : Nat, data : Seq(Units), last : Nat])
  /\ scans \in Seq(Nat) /\ scanning \in Nat
  /\ updates \in Seq([id : Nat, found : BOOLEAN])

\* What is held was kept; a parser of HTTP does not run ahead of its buffer.
Held ==
  /\ \A i \in 1..Len(extracted) : Range(extracted[i].data) \subseteq evidence
  /\ \A k \in 0..MaxUnits : Len(buffers[k]) <= Limit /\ Range(buffers[k]) \subseteq evidence
  /\ \A f \in Fids : Range(smb.data[f]) \subseteq evidence
  /\ wire = "http" => parsed <= Len(buffers[0])

\* A match is announced, lost, or on its way.
MatchesOnTheWay ==
  /\ announcedMatches \subseteq matches
  /\ \A j \in 1..Len(updates) : updates[j].found => updates[j].id \in matches
  /\ \A id \in matches : id \in announcedMatches \union lostUpdates
                           \/ \E j \in 1..Len(updates) : updates[j] = [id |-> id, found |-> TRUE]

\* The files extracted are the first of those completed: those within the buffer.
FirstOnes ==
  /\ Len(extracted) <= Len(complete)
  /\ \A i \in 1..Len(complete) : /\ complete[i].last <= Len(sentUnits)
                                 /\ complete[i].last <= Limit <=> i <= Len(extracted)
  /\ \A i \in 1..Len(extracted) : extracted[i] = Transferred(complete[i])

\* Of HTTP the buffer is what was sent first, and the parser stands before the
\* message that has not arrived.
LastMessage ==
  sentUnits # <<>> =>
    /\ LastSent[2] <= LastSent[3] /\ LastSent[2] < Len(sentUnits)
    /\ \A q \in 0..LastSent[2] : sentUnits[Len(sentUnits) - q] = <<LastSent[1], LastSent[2] - q, LastSent[3]>>
StandsBefore(b) ==
  \/ parsed = Len(b) /\ (Len(sentUnits) <= Limit => Finished)
  \/ /\ parsed < Len(b) /\ b[parsed + 1][2] = 0 /\ ~Arrived(b, parsed + 1)
     /\ Len(sentUnits) <= Limit => (~Finished /\ parsed + 1 = Len(sentUnits) - LastSent[2])
HTTPRight ==
  /\ buffers[0] = FirstOf(sentUnits, Limit) /\ LastMessage /\ StandsBefore(buffers[0])

\* Of SMTP only the first mail is taken apart, over and over.
MailFile(i, n) == [name |-> 1, data |-> <<<<1, i, n>>>>]
FirstMail(n) ==
  /\ \A i \in 1..Len(sentUnits) : IF i <= n + 2 THEN sentUnits[i] = <<1, i - 1, n>> ELSE sentUnits[i][1] > 1
  /\ complete = IF Len(sentUnits) < n + 2 THEN <<>>
                ELSE [i \in 1..n |-> [name |-> 1, data |-> <<<<1, i, n>>>>, last |-> n + 2]]
  /\ Range(extracted) = IF Len(buffers[0]) < n + 2 THEN {} ELSE {MailFile(i, n) : i \in 1..n}
SMTPRight ==
  /\ buffers[0] = FirstOf(sentUnits, Limit)
  /\ IF sentUnits = <<>> THEN complete = <<>> /\ extracted = <<>> ELSE FirstMail(sentUnits[1][3])

\* Of FTP and SMB no file is too late for the buffer: each has one of its own.
NoneTooLate == \A i \in 1..Len(complete) : complete[i].last = 0

\* Transfers and files are numbered as they are asked for.
AskedInOrder ==
  /\ IsFiniteSet(Asked) /\ Asked = 1..Cardinality(Asked)
  /\ \A i \in 1..Len(sentUnits) : sentUnits[i][1] \in Asked
\* Of FTP the transfer that is not over is the one of the session.
FTPRight ==
  /\ \A m \in Asked : m <= MaxUnits /\ (~Over(m) =>
       /\ m = ftpSession.file /\ m \in dataPorts
       /\ buffers[m] = FirstOf(FileOf(m, DataSent(m), 0), Limit))
  /\ \A m \in Transfers \ Asked : buffers[m] = <<>>
\* Of SMB a file id leads to the one file that is open under it.
SMBRight ==
  /\ smb.pending \in Asked \union {NoFile} /\ \A f \in Fids : smb.open[f] \in Asked \union {NoFile}
  /\ smb.pending # NoFile =>
       (DataSent(smb.pending) = 0 /\ \A f \in Fids : smb.open[f] # smb.pending)
  /\ \A f, g \in Fids : smb.open[f] = smb.open[g] /\ smb.open[f] # NoFile => f = g
  /\ \A f \in Fids : smb.data[f] =
       IF smb.open[f] = NoFile THEN <<>> ELSE Cut(FileOf(smb.open[f], DataSent(smb.open[f]), 0))

TransfersRight ==
  /\ wire = "http" /\ losses = 0 => (FirstOnes /\ HTTPRight)
  /\ wire = "smtp" /\ losses = 0 => SMTPRight
  /\ wire = "ftp" => (AskedInOrder /\ FirstOnes /\ NoneTooLate /\ FTPRight)
  /\ wire = "smb" => (AskedInOrder /\ FirstOnes /\ NoneTooLate /\ SMBRight)
FilesInv == FilesTypeOK /\ Held /\ MatchesOnTheWay /\ TransfersRight

-----------------------------------------------------------------------------
\* A set of positions that is not empty has a first one.
LEMMA FirstIs ==
  ASSUME NEW S, S \subseteq Nat, S # {}
  PROVE  First(S) \in S /\ \A k \in S : First(S) <= k
<1>1. IsWellFoundedOn(OpToRel(<, Nat), Nat)
  BY NatLessThanWellFounded
<1>2. PICK s \in S : \A t \in S : ~ (<<t, s>> \in OpToRel(<, Nat))
  BY <1>1, WFMin
<1>3. ASSUME NEW t \in S PROVE s <= t
  <2>1. s \in Nat /\ t \in Nat
    OBVIOUS
  <2>2. t < s => <<t, s>> \in OpToRel(<, Nat)
    BY <2>1 DEF OpToRel
  <2>3. ~(t < s)
    BY <1>2, <2>2
  <2> QED BY <2>1, <2>3
<1> QED BY <1>2, <1>3 DEF First

\* The settings the buffers and files are cut to.
LEMMA LimitIs == MaxFileBytes \in Nat \ {0} /\ Limit \in Nat /\ Limit = 2 * MaxFileBytes /\ Limit > MaxFileBytes
<1>1. MaxFileBytes \in Nat /\ MaxFileBytes > 0
  BY FileExtractionAssumption
<1> QED BY <1>1 DEF Limit

\* The beginning of a sequence.
LEMMA BeginningOf ==
  ASSUME NEW S, NEW s \in Seq(S), NEW n \in Nat
  PROVE  /\ FirstOf(s, n) \in Seq(S)
         /\ Len(FirstOf(s, n)) = IF Len(s) > n THEN n ELSE Len(s)
         /\ \A i \in 1..Len(FirstOf(s, n)) : FirstOf(s, n)[i] = s[i]
         /\ Range(FirstOf(s, n)) \subseteq Range(s)
         /\ Len(s) <= n => FirstOf(s, n) = s
<1>1. Len(s) \in Nat /\ DOMAIN s = 1..Len(s)
  BY LenProperties
<1>2. CASE Len(s) > n
  <2> DEFINE t == SubSeq(s, 1, n)
  <2>1. t \in Seq(S) /\ Len(t) = n /\ \A i \in 1..n : t[i] = s[i]
    BY <1>1, <1>2, SubSeqProperties
  <2>2. DOMAIN t = 1..n
    BY <2>1, LenProperties
  <2>3. Range(t) \subseteq Range(s)
    BY <2>1, <2>2, <1>1, <1>2 DEF Range
  <2>4. FirstOf(s, n) = t
    BY <1>2 DEF FirstOf
  <2> HIDE DEF t
  <2> QED BY <1>1, <1>2, <2>1, <2>3, <2>4
<1>3. CASE ~(Len(s) > n)
  BY <1>1, <1>3 DEF FirstOf
<1> QED BY <1>2, <1>3

Files == [name : Nat, data : Seq(Units)]
\* What is stored comes behind what was extracted before, cut to the limit.
LEMMA StoreAppends ==
  ASSUME NEW new \in Seq(Files), Store(new), extracted \in Seq(Files), scans \in Seq(Nat)
  PROVE  /\ extracted' \in Seq(Files) /\ scans' \in Seq(Nat)
         /\ Len(extracted') = Len(extracted) + Len(new)
         /\ \A i \in 1..Len(extracted) : extracted'[i] = extracted[i]
         /\ \A i \in 1..Len(new) : extracted'[Len(extracted) + i] = [name |-> new[i].name, data |-> Cut(new[i].data)]
         /\ \A i \in 1..Len(extracted') : i <= Len(extracted) \/ (i - Len(extracted)) \in 1..Len(new)
<1> DEFINE cut == [i \in 1..Len(new) |-> [new[i] EXCEPT !.data = Cut(@)]]
           queued == Newly(new)
<1>1. Len(new) \in Nat /\ \A i \in 1..Len(new) : new[i] \in Files
  BY LenProperties, ElementOfSeq
<1>2. \A i \in 1..Len(new) : cut[i] = [name |-> new[i].name, data |-> Cut(new[i].data)] /\ cut[i] \in Files
  <2> SUFFICES ASSUME NEW i \in 1..Len(new)
               PROVE  cut[i] = [name |-> new[i].name, data |-> Cut(new[i].data)] /\ cut[i] \in Files
    OBVIOUS
  <2>1. new[i].name \in Nat /\ new[i].data \in Seq(Units)
    BY <1>1 DEF Files
  <2>2. Cut(new[i].data) \in Seq(Units)
    BY <2>1, LimitIs, BeginningOf DEF Cut
  <2>3. cut[i] = [name |-> new[i].name, data |-> Cut(new[i].data)]
    BY <1>1 DEF Files
  <2> QED BY <2>1, <2>2, <2>3 DEF Files
<1>3. cut \in Seq(Files) /\ Len(cut) = Len(new)
  <2>1. cut \in [1..Len(new) -> Files]
    BY <1>2
  <2> QED BY <1>1, <2>1, SeqDef, LenProperties
<1>4. queued \in Seq(Nat)
  <2>1. Len(extracted) \in Nat
    BY LenProperties
  <2> QED BY <1>1, <2>1, SeqDef DEF Newly
<1>5. extracted' = extracted \o cut /\ scans' = FirstOf(scans \o queued, ScanQueue)
  BY DEF Store
<1>6. ScanQueue \in Nat
  BY FileExtractionAssumption
<1>7. scans' \in Seq(Nat)
  BY <1>4, <1>5, <1>6, ConcatProperties, BeginningOf
<1> HIDE DEF cut, queued
<1>8. /\ extracted \o cut \in Seq(Files) /\ Len(extracted \o cut) = Len(extracted) + Len(cut)
      /\ \A i \in 1..(Len(extracted) + Len(cut)) :
           (extracted \o cut)[i] = IF i <= Len(extracted) THEN extracted[i] ELSE cut[i - Len(extracted)]
  BY <1>3, ConcatProperties
<1>9. Len(extracted) \in Nat
  BY LenProperties
<1> QED BY <1>1, <1>2, <1>3, <1>5, <1>7, <1>8, <1>9

\* The units of a buffer.
LEMMA UnitsOf ==
  ASSUME NEW b \in Seq(Units)
  PROVE  /\ Len(b) \in Nat /\ DOMAIN b = 1..Len(b)
         /\ \A j \in 1..Len(b) : b[j] \in Units /\ b[j][1] \in Nat /\ b[j][2] \in Nat /\ b[j][3] \in Nat
                                 /\ b[j] = <<b[j][1], b[j][2], b[j][3]>>
<1>1. \A j \in 1..Len(b) : b[j] \in Nat \X Nat \X Nat
  BY ElementOfSeq DEF Units
<1> QED BY <1>1, LenProperties DEF Units

\* Where the next header is, if there is one.
LEMMA NextHeader ==
  ASSUME NEW b \in Seq(Units), NEW i \in Nat \ {0}, HeaderAt(b, i) # {}
  PROVE  LET j == First(HeaderAt(b, i))
         IN  /\ j \in i..Len(b) /\ j \in Nat /\ b[j][2] = 0 /\ BodyEnd(b, j) \in Nat /\ BodyEnd(b, j) >= j
             /\ b[i][2] = 0 => j = i
<1> DEFINE j == First(HeaderAt(b, i))
<1>1. Len(b) \in Nat
  BY UnitsOf
<1>2. HeaderAt(b, i) \subseteq Nat
  BY <1>1 DEF HeaderAt
<1>3. j \in HeaderAt(b, i) /\ \A k \in HeaderAt(b, i) : j <= k
  BY <1>2, FirstIs
<1> HIDE DEF j
<1>4. j \in i..Len(b) /\ b[j][2] = 0 /\ j \in Nat
  BY <1>1, <1>3 DEF HeaderAt
<1>5. b[j][3] \in Nat
  BY <1>1, <1>4, UnitsOf
<1>6. b[i][2] = 0 => j = i
  <2> SUFFICES ASSUME b[i][2] = 0 PROVE j = i
    OBVIOUS
  <2>1. i \in HeaderAt(b, i)
    BY <1>1, <1>4 DEF HeaderAt
  <2> QED BY <1>1, <1>3, <1>4, <2>1
<1> QED BY <1>4, <1>5, <1>6 DEF j, BodyEnd

\* The parser asks only for what is found later in the buffer.
LEMMA LaterMatters ==
  ASSUME NEW b \in Seq(Units), NEW i \in Nat \ {0}, NEW g, NEW h,
         \A k \in Nat : i < k /\ k <= Len(b) + 1 => g[k] = h[k]
  PROVE  FoundFrom(b, i, g) = FoundFrom(b, i, h)
<1> DEFINE heads == HeaderAt(b, i)
           j == First(heads)
<1>1. Len(b) \in Nat
  BY UnitsOf
<1>2. CASE i > Len(b) \/ heads = {}
  BY <1>2 DEF FoundFrom
<1>3. CASE ~(i > Len(b) \/ heads = {}) /\ ~Arrived(b, j)
  BY <1>3 DEF FoundFrom
<1>4. CASE ~(i > Len(b) \/ heads = {}) /\ Arrived(b, j)
  <2>1. j \in i..Len(b) /\ BodyEnd(b, j) \in Nat /\ BodyEnd(b, j) >= j
    BY <1>4, NextHeader
  <2>2. BodyEnd(b, j) <= Len(b)
    BY <1>4 DEF Arrived
  <2>3. g[BodyEnd(b, j) + 1] = h[BodyEnd(b, j) + 1]
    BY <1>1, <2>1, <2>2
  <2> QED BY <1>4, <2>3 DEF FoundFrom
<1> QED BY <1>2, <1>3, <1>4

\* There is a parser: it is made from the end of the buffer on.
Positions == 1..(Limit + 2)
\* The parser is the function that is built from the end of the buffer.
LEMMA ParserExists ==
  ASSUME NEW b \in Seq(Units), Len(b) <= Limit
  PROVE  \E g : g = [i \in Positions |-> FoundFrom(b, i, g)]
<1> DEFINE Right(g, k) == /\ DOMAIN g = Positions /\ g = [i \in Positions |-> g[i]]
                          /\ \A i \in Positions : i > k => g[i] = FoundFrom(b, i, g)
           Wrong == {n \in 0..(Limit + 2) : ~ \E g : Right(g, Limit + 2 - n)}
<1>1. Limit \in Nat /\ Len(b) \in Nat
  BY LimitIs, UnitsOf
<1>2. Wrong = {}
  <2> SUFFICES ASSUME Wrong # {} PROVE FALSE
    OBVIOUS
  <2> DEFINE n == First(Wrong)
  <2>0. Wrong \subseteq 0..(Limit + 2)
    OBVIOUS
  <2>01. Wrong \subseteq Nat
    BY <1>1, <2>0
  <2> HIDE DEF Wrong
  <2>1. n \in Wrong /\ \A m \in Wrong : n <= m
    BY <2>01, FirstIs
  <2> HIDE DEF n
  <2> USE DEF Wrong
  <2>2. n \in 0..(Limit + 2) /\ ~ \E g : Right(g, Limit + 2 - n)
    BY <2>1
  <2>3. Right([i \in Positions |-> 0], Limit + 2)
    BY <1>1 DEF Positions
  <2>4. n # 0
    BY <1>1, <2>2, <2>3
  <2>5. n - 1 \notin Wrong /\ n - 1 \in 0..(Limit + 2)
    BY <1>1, <2>1, <2>2, <2>4
  <2>6. PICK g : Right(g, Limit + 2 - (n - 1))
    BY <2>5
  <2> DEFINE i == Limit + 2 - n + 1
             h == [g EXCEPT ![i] = FoundFrom(b, i, g)]
  <2>7. i \in Positions /\ i \in Nat \ {0}
    BY <1>1, <2>2, <2>4 DEF Positions
  <2>8. DOMAIN h = Positions /\ h = [k \in Positions |-> h[k]]
    BY <2>6
  <2>9. \A k \in Positions : k # i => h[k] = g[k]
    BY <2>6, <2>8
  <2>10. h[i] = FoundFrom(b, i, g)
    BY <2>6, <2>7, <2>8
  <2> HIDE DEF h
  <2>11. ASSUME NEW k \in Positions, k > Limit + 2 - n
         PROVE  h[k] = FoundFrom(b, k, h)
    <3>1. k \in Nat \ {0}
      BY <1>1 DEF Positions
    <3>2. \A x \in Nat : k < x /\ x <= Len(b) + 1 => g[x] = h[x]
      <4> SUFFICES ASSUME NEW x \in Nat, k < x, x <= Len(b) + 1 PROVE g[x] = h[x]
        OBVIOUS
      <4>1. x \in Positions /\ x # i
        BY <1>1, <2>2, <2>11, <3>1 DEF Positions
      <4> QED BY <4>1, <2>9
    <3>3. FoundFrom(b, k, g) = FoundFrom(b, k, h)
      BY <3>1, <3>2, LaterMatters
    <3>4. CASE k = i
      BY <3>3, <3>4, <2>10
    <3>5. CASE k # i
      <4>1. k > Limit + 2 - (n - 1)
        BY <1>1, <2>2, <2>11, <3>1, <3>5
      <4>2. g[k] = FoundFrom(b, k, g)
        BY <4>1, <2>6
      <4> QED BY <3>3, <3>5, <4>2, <2>9
    <3> QED BY <3>4, <3>5
  <2>12. Right(h, Limit + 2 - n)
    BY <2>8, <2>11
  <2> QED BY <2>2, <2>12
<1>3. \E g : Right(g, 0)
  <2>1. Limit + 2 \in 0..(Limit + 2) /\ Limit + 2 - (Limit + 2) = 0
    BY <1>1
  <2> QED BY <1>2, <2>1
<1>4. PICK g : Right(g, 0)
  BY <1>3
<1>5. \A i \in Positions : g[i] = FoundFrom(b, i, g)
  <2> SUFFICES ASSUME NEW i \in Positions PROVE g[i] = FoundFrom(b, i, g)
    OBVIOUS
  <2>1. i > 0
    BY <1>1 DEF Positions
  <2> QED BY <1>4, <2>1
<1>6. g = [i \in Positions |-> FoundFrom(b, i, g)]
  BY <1>4, <1>5
<1> QED BY <1>6

\* What the parser finds from a position is what FoundFrom makes of the later ones.
LEMMA ParserUnfolds ==
  ASSUME NEW b \in Seq(Units), Len(b) <= Limit, NEW i \in Positions
  PROVE  HTTPFrom(b)[i] = FoundFrom(b, i, HTTPFrom(b))
<1> DEFINE Is(g) == g = [k \in Positions |-> FoundFrom(b, k, g)]
<1>1. \E g : Is(g)
  BY ParserExists
<1>2. HTTPFrom(b) = CHOOSE g : Is(g)
  BY DEF HTTPFrom, Positions, Limit
<1>3. Is(HTTPFrom(b))
  BY <1>1, <1>2
<1> HIDE DEF Is
<1>4. HTTPFrom(b) = [k \in Positions |-> FoundFrom(b, k, HTTPFrom(b))]
  BY <1>3 DEF Is
<1> QED BY <1>4

\* Whatever the buffer holds, what is found in it is made of its units, and the
\* parser stays within it.
LEMMA ParserFinds ==
  ASSUME NEW b \in Seq(Units), Len(b) <= Limit, NEW from \in 0..Len(b)
  PROVE  /\ Parse(b, from).found \in Seq(Files)
         /\ \A x \in 1..Len(Parse(b, from).found) : Range(Parse(b, from).found[x].data) \subseteq Range(b)
         /\ Parse(b, from).at \in (from + 1)..(Len(b) + 1)
<1> DEFINE p == HTTPFrom(b)
           Fine(i) == /\ p[i].found \in Seq(Files)
                      /\ \A x \in 1..Len(p[i].found) : Range(p[i].found[x].data) \subseteq Range(b)
                      /\ p[i].at \in i..(Len(b) + 1)
           Wrong == {n \in 0..Len(b) : ~Fine(Len(b) + 1 - n)}
<1>1. Limit \in Nat /\ Len(b) \in Nat
  BY LimitIs, UnitsOf
<1>2. ASSUME NEW n \in 0..Len(b), \A m \in 0..Len(b) : m < n => Fine(Len(b) + 1 - m)
      PROVE  Fine(Len(b) + 1 - n)
  <2> DEFINE i == Len(b) + 1 - n
             heads == HeaderAt(b, i)
             j == First(heads)
  <2>1. i \in Positions /\ i \in Nat \ {0} /\ i <= Len(b) + 1
    BY <1>1 DEF Positions
  <2>2. p[i] = FoundFrom(b, i, p)
    BY <2>1, ParserUnfolds
  <2>3. CASE i > Len(b) \/ heads = {}
    <3>1. p[i] = [found |-> <<>>, at |-> i]
      BY <2>2, <2>3 DEF FoundFrom
    <3>2. <<>> \in Seq(Files) /\ Len(<<>>) = 0
      BY EmptySeq
    <3> HIDE DEF p
    <3> QED BY <1>1, <2>1, <3>1, <3>2
  <2>4. CASE ~(i > Len(b) \/ heads = {}) /\ ~Arrived(b, j)
    <3>1. p[i] = [found |-> <<>>, at |-> j]
      BY <2>2, <2>4 DEF FoundFrom
    <3>2. <<>> \in Seq(Files) /\ Len(<<>>) = 0
      BY EmptySeq
    <3>3. j \in i..Len(b)
      BY <2>1, <2>4, NextHeader
    <3> HIDE DEF p, j
    <3> QED BY <1>1, <2>1, <3>1, <3>2, <3>3
  <2>5. CASE ~(i > Len(b) \/ heads = {}) /\ Arrived(b, j)
    <3> DEFINE k == BodyEnd(b, j) + 1
               m == MessageAt(b, j)
    <3>1. j \in i..Len(b) /\ BodyEnd(b, j) \in Nat /\ BodyEnd(b, j) >= j /\ j \in Nat
      BY <2>1, <2>5, NextHeader
    <3>2. BodyEnd(b, j) <= Len(b)
      BY <2>5 DEF Arrived
    <3>3. p[i].found = m \o p[k].found /\ p[i].at = p[k].at
      <4>1. FoundFrom(b, i, p) = [found |-> m \o p[k].found, at |-> p[k].at]
        BY <2>5 DEF FoundFrom
      <4> HIDE DEF p, m, k
      <4> QED BY <2>2, <4>1
    <3>4. Fine(k)
      <4>1. Len(b) + 1 - k \in 0..Len(b) /\ Len(b) + 1 - k < n /\ Len(b) + 1 - (Len(b) + 1 - k) = k
        BY <1>1, <2>1, <3>1, <3>2
      <4> HIDE DEF k
      <4>2. Fine(Len(b) + 1 - (Len(b) + 1 - k))
        BY <1>2, <4>1
      <4> QED BY <4>1, <4>2
    <3>5. MessageData(b, j) \in Seq(Units) /\ Range(MessageData(b, j)) \subseteq Range(b)
      <4> DEFINE d == MessageData(b, j)
      <4>1. \A x \in (j + 1)..BodyEnd(b, j) : x \in 1..Len(b) /\ b[x] \in Units
        BY <1>1, <2>1, <3>1, <3>2, UnitsOf
      <4>2. d = SubSeq(b, j + 1, BodyEnd(b, j))
        BY DEF MessageData
      <4>3. d \in Seq(Units) /\ \A x \in 1..(BodyEnd(b, j) - (j + 1) + 1) : d[x] = b[j + 1 + x - 1]
        <5>1. j + 1 \in Int /\ BodyEnd(b, j) \in Int
          BY <3>1
        <5>2. \A x \in (j + 1)..BodyEnd(b, j) : b[x] \in Units
          BY <4>1
        <5> DEFINE to == BodyEnd(b, j)
                   after == j + 1
        <5> HIDE DEF to, after
        <5>3. after \in Int /\ to \in Int /\ \A x \in after..to : b[x] \in Units
          BY <5>1, <5>2 DEF after, to
        <5>4. /\ SubSeq(b, after, to) \in Seq(Units)
              /\ \A x \in 1..(to - after + 1) : SubSeq(b, after, to)[x] = b[after + x - 1]
          BY <5>3, SubSeqProperties
        <5>5. d = SubSeq(b, after, to)
          BY <4>2 DEF after, to
        <5> HIDE DEF d
        <5> QED BY <5>4, <5>5 DEF after, to
      <4>4. Len(d) = IF j + 1 <= BodyEnd(b, j) THEN BodyEnd(b, j) - (j + 1) + 1 ELSE 0
        BY <3>1, <4>1, <4>2, SubSeqProperties
      <4>5. DOMAIN d = 1..Len(d) /\ DOMAIN b = 1..Len(b)
        BY <4>3, LenProperties
      <4> HIDE DEF d
      <4>6. ASSUME NEW x \in 1..Len(d) PROVE d[x] \in Range(b)
        <5>1. x \in 1..(BodyEnd(b, j) - (j + 1) + 1) /\ j + 1 + x - 1 \in (j + 1)..BodyEnd(b, j)
          BY <3>1, <4>4
        <5> QED BY <4>1, <4>3, <4>5, <5>1 DEF Range
      <4> QED BY <4>3, <4>5, <4>6 DEF Range, d
    <3>6. /\ m \in Seq(Files)
          /\ \A x \in 1..Len(m) : Range(m[x].data) \subseteq Range(b)
      <4>1. b[j][1] \in Nat
        BY <1>1, <2>1, <3>1, UnitsOf
      <4> DEFINE one == [name |-> b[j][1], data |-> MessageData(b, j)]
      <4>2. one \in Files /\ Range(one.data) \subseteq Range(b)
        BY <3>5, <4>1 DEF Files
      <4> HIDE DEF one
      <4>3. <<one>> \in Seq(Files) /\ Len(<<one>>) = 1 /\ <<one>>[1] = one
        BY <4>2
      <4>4. <<>> \in Seq(Files) /\ Len(<<>>) = 0
        BY EmptySeq
      <4>5. m = IF b[j][3] = 0 THEN <<>> ELSE <<one>>
        BY DEF MessageAt, one
      <4> HIDE DEF m
      <4> QED BY <4>2, <4>3, <4>4, <4>5
    <3> HIDE DEF m, k, p
    <3>7. /\ m \o p[k].found \in Seq(Files) /\ Len(m \o p[k].found) = Len(m) + Len(p[k].found)
          /\ \A x \in 1..(Len(m) + Len(p[k].found)) :
               (m \o p[k].found)[x] = IF x <= Len(m) THEN m[x] ELSE p[k].found[x - Len(m)]
      BY <3>4, <3>6, ConcatProperties
    <3>8. Len(m) \in Nat /\ Len(p[k].found) \in Nat
      BY <3>4, <3>6, LenProperties
    <3>9. \A x \in 1..Len(p[i].found) : Range(p[i].found[x].data) \subseteq Range(b)
      <4> SUFFICES ASSUME NEW x \in 1..(Len(m) + Len(p[k].found))
                   PROVE  Range((m \o p[k].found)[x].data) \subseteq Range(b)
        BY <3>3, <3>7
      <4>1. CASE x <= Len(m)
        BY <3>6, <3>7, <3>8, <4>1
      <4>2. CASE ~(x <= Len(m))
        <5>1. x - Len(m) \in 1..Len(p[k].found)
          BY <3>8, <4>2
        <5> QED BY <3>4, <3>7, <4>2, <5>1
      <4> QED BY <4>1, <4>2
    <3>10. p[i].at \in i..(Len(b) + 1)
      BY <1>1, <2>1, <3>1, <3>2, <3>3, <3>4 DEF k
    <3> QED BY <3>3, <3>7, <3>9, <3>10
  <2> QED BY <2>3, <2>4, <2>5
<1>3. Wrong = {}
  <2> SUFFICES ASSUME Wrong # {} PROVE FALSE
    OBVIOUS
  <2> DEFINE n == First(Wrong)
  <2>1. Wrong \subseteq 0..Len(b) /\ Wrong \subseteq Nat
    BY <1>1
  <2>2. n \in Wrong /\ \A m \in Wrong : n <= m
    <3> HIDE DEF Wrong
    <3> QED BY <2>1, FirstIs
  <2> HIDE DEF n, Fine
  <2>3. \A m \in 0..Len(b) : m < n => Fine(Len(b) + 1 - m)
    BY <1>1, <2>1, <2>2
  <2> QED BY <1>2, <2>2, <2>3
<1>4. Fine(from + 1)
  <2>1. Len(b) - from \in 0..Len(b) /\ Len(b) + 1 - (Len(b) - from) = from + 1
    BY <1>1
  <2> HIDE DEF Fine
  <2>2. Fine(Len(b) + 1 - (Len(b) - from))
    BY <1>3, <2>1
  <2> QED BY <2>1, <2>2
<1> QED BY <1>4 DEF Parse

\* Nothing is found where there is no header or the message has not arrived, and one
\* message where it ends with the buffer.
LEMMA ParserAtOneMessage ==
  ASSUME NEW b \in Seq(Units), Len(b) <= Limit, NEW from \in 0..Len(b)
  PROVE  /\ from = Len(b) => Parse(b, from) = [found |-> <<>>, at |-> from + 1]
         /\ from < Len(b) /\ b[from + 1][2] = 0 /\ ~Arrived(b, from + 1)
              => Parse(b, from) = [found |-> <<>>, at |-> from + 1]
         /\ from < Len(b) /\ b[from + 1][2] = 0 /\ BodyEnd(b, from + 1) = Len(b)
              => Parse(b, from).found = MessageAt(b, from + 1) /\ Parse(b, from).at = Len(b) + 1
<1> DEFINE i == from + 1
           p == HTTPFrom(b)
           heads == HeaderAt(b, i)
<1>1. Limit \in Nat /\ Len(b) \in Nat /\ from \in Nat
  BY LimitIs, UnitsOf
<1>2. i \in Positions /\ Len(b) + 1 \in Positions /\ i \in Nat \ {0} /\ Len(b) + 1 \in Nat \ {0}
  BY <1>1 DEF Positions
<1>3. p[i] = FoundFrom(b, i, p) /\ p[Len(b) + 1] = FoundFrom(b, Len(b) + 1, p)
  BY <1>2, ParserUnfolds
<1>4. Parse(b, from) = p[i]
  BY DEF Parse
<1>5. p[Len(b) + 1] = [found |-> <<>>, at |-> Len(b) + 1]
  <2>1. Len(b) + 1 > Len(b)
    BY <1>1
  <2> QED BY <1>3, <2>1 DEF FoundFrom
<1> HIDE DEF p
<1>6. from < Len(b) /\ b[i][2] = 0 => heads # {} /\ First(heads) = i /\ ~(i > Len(b))
  <2> SUFFICES ASSUME from < Len(b), b[i][2] = 0 PROVE heads # {} /\ First(heads) = i /\ ~(i > Len(b))
    OBVIOUS
  <2>1. i \in heads
    BY <1>1 DEF HeaderAt
  <2>2. heads # {}
    BY <2>1
  <2> QED BY <1>1, <1>2, <2>2, NextHeader
<1>7. from < Len(b) /\ b[i][2] = 0 /\ ~Arrived(b, i) => p[i] = [found |-> <<>>, at |-> i]
  BY <1>3, <1>6 DEF FoundFrom
<1>8. ASSUME from < Len(b), b[i][2] = 0, BodyEnd(b, i) = Len(b)
      PROVE  p[i].found = MessageAt(b, i) /\ p[i].at = Len(b) + 1
  <2>1. Arrived(b, i)
    BY <1>1, <1>8 DEF Arrived
  <2>2. FoundFrom(b, i, p) = [found |-> MessageAt(b, i) \o p[Len(b) + 1].found, at |-> p[Len(b) + 1].at]
    BY <1>6, <1>8, <2>1 DEF FoundFrom
  <2>3. MessageAt(b, i) \in Seq({[name |-> b[i][1], data |-> MessageData(b, i)]})
    <3> DEFINE one == [name |-> b[i][1], data |-> MessageData(b, i)]
    <3>1. <<one>> \in Seq({one}) /\ <<>> \in Seq({one})
      OBVIOUS
    <3> HIDE DEF one
    <3> QED BY <3>1 DEF MessageAt, one
  <2>4. MessageAt(b, i) \o <<>> = MessageAt(b, i)
    BY <2>3, ConcatEmptySeq
  <2>5. FoundFrom(b, i, p) = [found |-> MessageAt(b, i), at |-> Len(b) + 1]
    BY <1>5, <2>2, <2>4
  <2> QED BY <1>3, <2>5
<1> QED BY <1>3, <1>4, <1>5, <1>7, <1>8

\* What a buffer holds after a payload.
LEMMA StreamGrows ==
  ASSUME FilesTypeOK, Held, NEW k \in 0..MaxUnits, NEW payload \in Seq(Units)
  PROVE  /\ Stream(k, payload) \in Seq(Units)
         /\ Len(buffers[k]) <= Len(Stream(k, payload)) /\ Len(Stream(k, payload)) <= Limit
         /\ Range(Stream(k, payload)) \subseteq Range(buffers[k]) \union Range(payload)
         /\ Len(buffers[k]) = Limit => Stream(k, payload) = buffers[k]
         /\ Len(buffers[k]) + Len(payload) <= Limit => Stream(k, payload) = buffers[k] \o payload
<1> DEFINE b == buffers[k]
           c == b \o payload
<1>1. b \in Seq(Units) /\ Len(b) \in Nat /\ Len(b) <= Limit /\ Len(payload) \in Nat /\ Limit \in Nat
  BY LimitIs, LenProperties DEF FilesTypeOK, Held
<1>2. /\ c \in Seq(Units) /\ Len(c) = Len(b) + Len(payload)
      /\ \A i \in 1..(Len(b) + Len(payload)) : c[i] = IF i <= Len(b) THEN b[i] ELSE payload[i - Len(b)]
  BY <1>1, ConcatProperties
<1>3. Stream(k, payload) = FirstOf(c, Limit)
  BY DEF Stream, Limit
<1> HIDE DEF b, c
<1>4. Range(c) \subseteq Range(b) \union Range(payload)
  <2>1. DOMAIN c = 1..(Len(b) + Len(payload)) /\ DOMAIN b = 1..Len(b) /\ DOMAIN payload = 1..Len(payload)
    BY <1>1, <1>2, LenProperties
  <2>2. ASSUME NEW i \in 1..(Len(b) + Len(payload)) PROVE c[i] \in Range(b) \union Range(payload)
    <3>1. CASE i <= Len(b)
      <4>1. i \in DOMAIN b /\ c[i] = b[i]
        BY <1>1, <1>2, <2>1, <3>1
      <4> QED BY <4>1 DEF Range
    <3>2. CASE ~(i <= Len(b))
      <4>1. i - Len(b) \in 1..Len(payload)
        BY <1>1, <3>2
      <4> QED BY <1>2, <2>1, <3>2, <4>1 DEF Range
    <3> QED BY <3>1, <3>2
  <2> QED BY <2>1, <2>2 DEF Range
<1> DEFINE t == FirstOf(c, Limit)
<1>5. /\ t \in Seq(Units) /\ Len(t) = (IF Len(c) > Limit THEN Limit ELSE Len(c))
      /\ \A i \in 1..Len(t) : t[i] = c[i]
      /\ Range(t) \subseteq Range(c) /\ (Len(c) <= Limit => t = c)
  BY <1>1, <1>2, BeginningOf
<1> HIDE DEF t
<1>6. Len(b) <= Len(t) /\ Len(t) <= Limit
  BY <1>1, <1>2, <1>5
<1>7. Len(b) = Limit => t = b
  <2> SUFFICES ASSUME Len(b) = Limit PROVE t = b
    OBVIOUS
  <2>1. Len(t) = Len(b)
    BY <1>1, <1>6
  <2>2. \A i \in 1..Len(t) : t[i] = b[i]
    BY <1>1, <1>2, <1>5, <2>1
  <2> QED BY <1>1, <1>5, <2>1, <2>2, SeqEqual
<1>8. Len(b) + Len(payload) <= Limit => t = c
  BY <1>2, <1>5
<1> QED BY <1>3, <1>4, <1>5, <1>6, <1>7, <1>8 DEF t, b, c

\* The attachments of a mail are units of its buffer.
LEMMA MailFinds ==
  ASSUME NEW b \in Seq(Units)
  PROVE  /\ Mail(b) \in Seq(Files)
         /\ \A x \in 1..Len(Mail(b)) : Range(Mail(b)[x].data) \subseteq Range(b)
         /\ HeaderAt(b, 1) # {} => MailEnd(b, First(HeaderAt(b, 1))) \in Nat
<1> DEFINE j == First(HeaderAt(b, 1))
<1>1. Len(b) \in Nat
  BY UnitsOf
<1>2. HeaderAt(b, 1) # {} => j \in 1..Len(b) /\ j \in Nat
  BY NextHeader
<1>3. HeaderAt(b, 1) # {} => MailEnd(b, j) \in Nat
  <2> SUFFICES ASSUME HeaderAt(b, 1) # {} PROVE MailEnd(b, j) \in Nat
    OBVIOUS
  <2>1. b[j][3] \in Nat
    BY <1>2, UnitsOf
  <2> QED BY <1>2, <2>1 DEF MailEnd
<1>4. CASE HeaderAt(b, 1) = {} \/ MailEnd(b, j) > Len(b)
  <2>1. Mail(b) = <<>>
    BY <1>4 DEF Mail
  <2> QED BY <1>3, <2>1, EmptySeq
<1>5. CASE ~(HeaderAt(b, 1) = {} \/ MailEnd(b, j) > Len(b))
  <2> DEFINE n == b[j][3]
             file(i) == [name |-> b[j + i][1], data |-> <<b[j + i]>>]
  <2>1. j \in 1..Len(b) /\ j \in Nat /\ n \in Nat /\ j + n + 1 <= Len(b)
    BY <1>1, <1>2, <1>3, <1>5, UnitsOf DEF MailEnd
  <2>2. Mail(b) = [i \in 1..n |-> file(i)]
    BY <1>5 DEF Mail
  <2>3. \A i \in 1..n : file(i) \in Files /\ Range(file(i).data) \subseteq Range(b)
    <3> SUFFICES ASSUME NEW i \in 1..n PROVE file(i) \in Files /\ Range(file(i).data) \subseteq Range(b)
      OBVIOUS
    <3> DEFINE u == b[j + i]
    <3>1. j + i \in 1..Len(b)
      BY <1>1, <2>1
    <3>2. u \in Units /\ u[1] \in Nat /\ u \in Range(b)
      BY <3>1, UnitsOf DEF Range
    <3> HIDE DEF u
    <3>3. <<u>> \in Seq(Units) /\ Range(<<u>>) = {u}
      BY <3>2 DEF Range
    <3>4. file(i) = [name |-> u[1], data |-> <<u>>]
      BY DEF u
    <3> QED BY <3>2, <3>3, <3>4 DEF Files
  <2> HIDE DEF n, file
  <2>4. Mail(b) \in [1..n -> Files] /\ Len(Mail(b)) = n
    BY <2>1, <2>2, <2>3
  <2> QED BY <1>3, <2>1, <2>2, <2>3, <2>4, SeqDef
<1> QED BY <1>4, <1>5

\* What the endpoints send next, and what it completes.
Wholes == [name : Nat, data : Seq(Units), last : Nat]
\* What the endpoints send next.
LEMMA NextUnitIs ==
  ASSUME FilesTypeOK, NEW u \in NextUnits
  PROVE  /\ u \in Units /\ u[1] \in Nat /\ u[2] \in Nat /\ u[3] \in Nat /\ u = <<u[1], u[2], u[3]>>
         /\ IF Finished
            THEN u[2] = 0 /\ u[1] = (IF sentUnits = <<>> THEN 1 ELSE LastSent[1] + 1)
            ELSE u = <<LastSent[1], LastSent[2] + 1, LastSent[3]>>
         /\ sentUnits # <<>> => Len(sentUnits) \in Nat \ {0} /\ LastSent \in Units
                                /\ LastSent[1] \in Nat /\ LastSent[2] \in Nat /\ LastSent[3] \in Nat
<1>1. sentUnits \in Seq(Units) /\ Len(sentUnits) \in Nat /\ MaxFileBytes \in Nat
  BY LimitIs, LenProperties DEF FilesTypeOK
<1>2. sentUnits # <<>> => Len(sentUnits) \in Nat \ {0} /\ LastSent \in Units
                          /\ LastSent[1] \in Nat /\ LastSent[2] \in Nat /\ LastSent[3] \in Nat
                          /\ LastSent = <<LastSent[1], LastSent[2], LastSent[3]>>
  <2> SUFFICES ASSUME sentUnits # <<>>
               PROVE  Len(sentUnits) \in Nat \ {0} /\ LastSent \in Units
                          /\ LastSent[1] \in Nat /\ LastSent[2] \in Nat /\ LastSent[3] \in Nat
                          /\ LastSent = <<LastSent[1], LastSent[2], LastSent[3]>>
    OBVIOUS
  <2>1. Len(sentUnits) \in Nat \ {0}
    BY <1>1, EmptySeq
  <2>2. Len(sentUnits) \in 1..Len(sentUnits)
    BY <2>1
  <2> QED BY <1>1, <2>1, <2>2, UnitsOf DEF LastSent
<1>3. CASE Finished
  <2> DEFINE first == IF sentUnits = <<>> THEN 1 ELSE LastSent[1] + 1
  <2>1. first \in Nat
    BY <1>2
  <2>2. NextUnits = {<<first, 0, n>> : n \in 0..(MaxFileBytes + 1)}
    BY <1>3 DEF NextUnits
  <2> HIDE DEF first
  <2>3. PICK n \in 0..(MaxFileBytes + 1) : u = <<first, 0, n>>
    BY <2>2
  <2>4. n \in Nat
    BY <1>1
  <2>5. u[1] = first /\ u[2] = 0 /\ u[3] = n
    BY <2>3
  <2> QED BY <1>2, <1>3, <2>1, <2>3, <2>4, <2>5 DEF Units, first
<1>4. CASE ~Finished
  <2>1. sentUnits # <<>>
    BY <1>4 DEF Finished
  <2>2. u = [LastSent EXCEPT ![2] = @ + 1]
    BY <1>4 DEF NextUnits
  <2>3. u = <<LastSent[1], LastSent[2] + 1, LastSent[3]>>
    BY <1>2, <2>1, <2>2
  <2> QED BY <1>2, <1>4, <2>1, <2>3 DEF Units
<1> QED BY <1>3, <1>4

\* The bytes a message announces.
LEMMA BodyIs ==
  ASSUME NEW m \in Nat, NEW n \in Nat
  PROVE  LET body == [i \in 1..n |-> <<m, i, n>>]
         IN  body \in Seq(Units) /\ Len(body) = n /\ Cut(body) \in Seq(Units)
<1> DEFINE body == [i \in 1..n |-> <<m, i, n>>]
<1>1. body \in [1..n -> Units] /\ Len(body) = n
  BY DEF Units
<1> HIDE DEF body
<1>2. body \in Seq(Units)
  BY <1>1, SeqDef
<1>3. Cut(body) \in Seq(Units)
  BY <1>2, LimitIs, BeginningOf DEF Cut
<1> QED BY <1>1, <1>2, <1>3 DEF body

\* What a unit completes is a sequence of files.
LEMMA WholeIs ==
  ASSUME NEW units \in Seq(Units), NEW u \in Units
  PROVE  Whole(units, u) \in Seq(Wholes)
<1>1. u[1] \in Nat /\ u[2] \in Nat /\ u[3] \in Nat /\ Len(units) \in Nat
  BY LenProperties DEF Units
<1> DEFINE body == [i \in 1..u[3] |-> <<u[1], i, u[3]>>]
           file == [name |-> u[1], data |-> Cut(body), last |-> Len(units)]
           mail == [i \in 1..u[3] |-> [name |-> 1, data |-> <<<<1, i, u[3]>>>>, last |-> Len(units)]]
<1>2. Whole(units, u) \in {<<file>>, mail, <<>>}
  BY DEF Whole
<1>3. <<>> \in Seq(Wholes)
  BY EmptySeq
<1>4. <<file>> \in Seq(Wholes)
  <2>1. Cut(body) \in Seq(Units)
    BY <1>1, BodyIs
  <2>2. file \in Wholes
    BY <1>1, <2>1 DEF Wholes
  <2> HIDE DEF file
  <2> QED BY <2>2
<1>5. mail \in Seq(Wholes)
  <2>1. ASSUME NEW i \in 1..u[3]
        PROVE  [name |-> 1, data |-> <<<<1, i, u[3]>>>>, last |-> Len(units)] \in Wholes
    <3>1. <<1, i, u[3]>> \in Units
      BY <1>1 DEF Units
    <3> DEFINE x == <<1, i, u[3]>>
    <3> HIDE DEF x
    <3>2. <<x>> \in Seq(Units)
      BY <3>1 DEF x
    <3> QED BY <1>1, <3>2 DEF Wholes, x
  <2>2. mail \in [1..u[3] -> Wholes]
    BY <2>1
  <2> HIDE DEF mail
  <2> QED BY <1>1, <2>2, SeqDef
<1> QED BY <1>2, <1>3, <1>4, <1>5

\* A payload is a number of copies of the unit sent.
LEMMA PayloadIs ==
  ASSUME NEW u \in Units, NEW r \in 0..2
  PROVE  LET payload == [i \in 1..r |-> u]
         IN  payload \in Seq(Units) /\ Len(payload) = r /\ Range(payload) = {v \in {u} : r > 0}
<1> DEFINE payload == [i \in 1..r |-> u]
<1>1. payload \in [1..r -> Units] /\ Len(payload) = r
  OBVIOUS
<1>2. payload \in Seq(Units)
  BY <1>1, SeqDef
<1>3. Range(payload) = {v \in {u} : r > 0}
  <2>1. r > 0 => 1 \in DOMAIN payload /\ payload[1] = u
    OBVIOUS
  <2>2. \A i \in DOMAIN payload : payload[i] = u /\ r > 0
    OBVIOUS
  <2> HIDE DEF payload
  <2> QED BY <2>1, <2>2 DEF Range
<1> QED BY <1>1, <1>2, <1>3

\* What is stored was kept, if what it is made of was.
LEMMA StoredWasKept ==
  ASSUME Held, extracted \in Seq(Files), scans \in Seq(Nat), evidence \subseteq evidence',
         NEW new \in Seq(Files), Store(new),
         \A x \in 1..Len(new) : Range(new[x].data) \subseteq evidence'
  PROVE  /\ extracted' \in Seq(Files) /\ scans' \in Seq(Nat)
         /\ \A i \in 1..Len(extracted') : Range(extracted'[i].data) \subseteq evidence'
<1>1. /\ extracted' \in Seq(Files) /\ scans' \in Seq(Nat)
      /\ Len(extracted') = Len(extracted) + Len(new)
      /\ \A i \in 1..Len(extracted) : extracted'[i] = extracted[i]
      /\ \A i \in 1..Len(new) : extracted'[Len(extracted) + i] = [name |-> new[i].name, data |-> Cut(new[i].data)]
  BY StoreAppends
<1>2. Len(extracted) \in Nat /\ Len(new) \in Nat
  BY LenProperties
<1> SUFFICES ASSUME NEW i \in 1..Len(extracted') PROVE Range(extracted'[i].data) \subseteq evidence'
  BY <1>1
<1>3. CASE i <= Len(extracted)
  <2>1. i \in 1..Len(extracted)
    BY <1>2, <1>3
  <2> QED BY <1>1, <2>1 DEF Held
<1>4. CASE ~(i <= Len(extracted))
  <2> DEFINE k == i - Len(extracted)
  <2>1. k \in 1..Len(new) /\ Len(extracted) + k = i
    BY <1>1, <1>2, <1>4
  <2> HIDE DEF k
  <2>2. extracted'[i] = [name |-> new[k].name, data |-> Cut(new[k].data)]
    BY <1>1, <2>1
  <2>3. new[k].data \in Seq(Units) /\ Range(new[k].data) \subseteq evidence'
    <3>1. new[k] \in Files
      BY <2>1, ElementOfSeq
    <3> QED BY <2>1, <3>1 DEF Files
  <2>4. Range(Cut(new[k].data)) \subseteq Range(new[k].data)
    BY <2>3, LimitIs, BeginningOf DEF Cut
  <2> QED BY <2>2, <2>3, <2>4
<1> QED BY <1>3, <1>4

\* A packet of HTTP or SMTP keeps the types, and what is held of it was kept.
LEMMA SendKeepsHeld ==
  ASSUME FilesTypeOK, Held, NEW u \in NextUnits, NEW d, NEW r \in 0..2, SendPacket(u, d, r)
  PROVE  FilesTypeOK' /\ Held'
<1> DEFINE payload == [i \in 1..r |-> u]
           b == Stream(0, payload)
<1>1. /\ u \in Units /\ 0 \in 0..MaxUnits /\ MaxUnits \in Nat
      /\ sentUnits \in Seq(Units) /\ complete \in Seq(Wholes)
  BY NextUnitIs, FileExtractionAssumption DEF FilesTypeOK, Wholes
<1>2. sentUnits' = Append(sentUnits, u) /\ sentUnits' \in Seq(Units)
  BY <1>1 DEF SendPacket
<1>3. complete' \in Seq(Wholes)
  BY <1>1, <1>2, WholeIs, ConcatProperties DEF SendPacket
<1>4. losses' \in Nat
  BY DEF SendPacket, Lose, FilesTypeOK
<1>5. /\ UNCHANGED <<wire, scanning, updates>>
      /\ evidence' = evidence \union {v \in {u} : r > 0 /\ KeptWhole(d)}
  BY DEF SendPacket, tracks
<1>6. CASE ~(Extracts(d) /\ r > 0)
  <2>1. UNCHANGED <<buffers, parsed, ftpSession, dataPorts, smb, artifacts, extracted, scans>>
    BY <1>6 DEF SendPacket
  <2>2. FilesTypeOK'
    BY <1>2, <1>3, <1>4, <1>5, <2>1 DEF FilesTypeOK, Wholes
  <2>3. Held'
    BY <1>5, <2>1 DEF Held
  <2> QED BY <2>2, <2>3
<1>7. CASE Extracts(d) /\ r > 0
  <2>1. payload \in Seq(Units) /\ Len(payload) = r /\ Range(payload) = {v \in {u} : r > 0}
    BY <1>1, PayloadIs
  <2>2. Range(payload) \subseteq evidence'
    <3>1. KeptWhole(d)
      BY <1>7 DEF Extracts, KeptWhole
    <3> QED BY <1>5, <2>1, <3>1
  <2>3. ObserveHTTP(payload) \/ ObserveSMTP(payload)
    BY <1>7 DEF SendPacket
  <2> HIDE DEF payload
  <2>4. /\ b \in Seq(Units) /\ Len(buffers[0]) <= Len(b) /\ Len(b) <= Limit /\ Len(b) \in Nat
        /\ Range(b) \subseteq evidence'
    <3>1. Range(buffers[0]) \subseteq evidence
      BY <1>1 DEF Held
    <3> QED BY <1>1, <1>5, <2>1, <2>2, <3>1, StreamGrows, LenProperties
  <2> HIDE DEF b
  <2>5. /\ buffers' = [buffers EXCEPT ![0] = b] /\ UNCHANGED <<ftpSession, smb>>
        /\ \E new \in Seq(Files) :
             /\ Store(new)
             /\ \A x \in 1..Len(new) : Range(new[x].data) \subseteq evidence'
        /\ parsed' \in Nat /\ (wire = "http" => parsed' <= Len(b))
    <3>1. CASE ObserveHTTP(payload)
      <4>1. parsed \in 0..Len(b)
        <5>1. parsed <= Len(buffers[0]) /\ parsed \in Nat /\ Len(buffers[0]) \in Nat
          BY <1>1, <3>1, LenProperties DEF ObserveHTTP, Held, FilesTypeOK
        <5> QED BY <2>4, <5>1
      <4>2. /\ Parse(b, parsed).found \in Seq(Files)
            /\ \A x \in 1..Len(Parse(b, parsed).found) : Range(Parse(b, parsed).found[x].data) \subseteq Range(b)
            /\ Parse(b, parsed).at \in (parsed + 1)..(Len(b) + 1)
        BY <2>4, <4>1, ParserFinds
      <4>3. /\ buffers' = [buffers EXCEPT ![0] = b] /\ UNCHANGED <<ftpSession, smb>>
            /\ Store(Parse(b, parsed).found) /\ parsed' = Parse(b, parsed).at - 1
        BY <3>1 DEF ObserveHTTP, b
      <4>4. parsed' \in Nat /\ parsed' <= Len(b)
        BY <2>4, <4>1, <4>2, <4>3
      <4> QED BY <2>4, <4>2, <4>3, <4>4
    <3>2. CASE ObserveSMTP(payload)
      <4>1. /\ Mail(b) \in Seq(Files)
            /\ \A x \in 1..Len(Mail(b)) : Range(Mail(b)[x].data) \subseteq Range(b)
            /\ HeaderAt(b, 1) # {} => MailEnd(b, First(HeaderAt(b, 1))) \in Nat
        BY <2>4, MailFinds
      <4>2. /\ buffers' = [buffers EXCEPT ![0] = b] /\ UNCHANGED <<ftpSession, smb>>
            /\ Store(Mail(b)) /\ wire # "http"
            /\ parsed' = (IF Mail(b) # <<>> THEN MailEnd(b, First(HeaderAt(b, 1))) ELSE parsed)
        BY <3>2 DEF ObserveSMTP, b
      <4>3. Mail(b) # <<>> => HeaderAt(b, 1) # {}
        BY DEF Mail
      <4>4. parsed' \in Nat
        BY <4>1, <4>2, <4>3 DEF FilesTypeOK
      <4> QED BY <2>4, <4>1, <4>2, <4>4
    <3> QED BY <2>3, <3>1, <3>2
  <2>6. PICK new \in Seq(Files) : /\ Store(new)
                                  /\ \A x \in 1..Len(new) : Range(new[x].data) \subseteq evidence'
    BY <2>5
  <2>7. extracted \in Seq(Files) /\ scans \in Seq(Nat)
    BY DEF FilesTypeOK, Files
  <2>8. /\ extracted' \in Seq(Files) /\ scans' \in Seq(Nat)
        /\ \A i \in 1..Len(extracted') : Range(extracted'[i].data) \subseteq evidence'
    BY <1>5, <2>6, <2>7, StoredWasKept
  <2>9. FilesTypeOK'
    <3>1. buffers' \in [0..MaxUnits -> Seq(Units)]
      BY <1>1, <2>4, <2>5 DEF FilesTypeOK
    <3> QED BY <1>2, <1>3, <1>4, <1>5, <2>5, <2>8, <3>1 DEF FilesTypeOK, Wholes, Files
  <2>10. Held'
    <3>1. \A k \in 0..MaxUnits : buffers'[k] = IF k = 0 THEN b ELSE buffers[k]
      BY <2>5 DEF FilesTypeOK
    <3> QED BY <1>1, <1>5, <2>4, <2>5, <2>8, <3>1 DEF Held
  <2> QED BY <2>9, <2>10
<1> QED BY <1>6, <1>7

-----------------------------------------------------------------------------
\* The beginning of a sequence that grows.
LEMMA BeginningGrows ==
  ASSUME NEW S, NEW s \in Seq(S), NEW e \in S, NEW n \in Nat
  PROVE  /\ Append(s, e) \in Seq(S) /\ Len(Append(s, e)) = Len(s) + 1 /\ Append(s, e) = s \o <<e>>
         /\ Append(s, e)[Len(s) + 1] = e /\ \A i \in 1..Len(s) : Append(s, e)[i] = s[i]
         /\ IF Len(s) < n THEN FirstOf(s, n) = s /\ FirstOf(Append(s, e), n) = Append(s, e)
            ELSE Len(FirstOf(s, n)) = n /\ FirstOf(Append(s, e), n) = FirstOf(s, n)
<1> DEFINE t == Append(s, e)
<1>1. /\ t \in Seq(S) /\ Len(t) = Len(s) + 1 /\ t[Len(s) + 1] = e /\ Len(s) \in Nat /\ t = s \o <<e>>
      /\ \A i \in 1..Len(s) : t[i] = s[i]
  OBVIOUS
<1> HIDE DEF t
<1>2. CASE Len(s) < n
  <2>1. ~(Len(s) > n) /\ ~(Len(t) > n)
    BY <1>1, <1>2
  <2> QED BY <1>1, <1>2, <2>1 DEF FirstOf, t
<1>3. CASE ~(Len(s) < n)
  <2> DEFINE x == FirstOf(s, n)
             y == FirstOf(t, n)
  <2>1. x \in Seq(S) /\ Len(x) = n /\ \A i \in 1..Len(x) : x[i] = s[i]
    <3>1. x \in Seq(S) /\ Len(x) = (IF Len(s) > n THEN n ELSE Len(s)) /\ \A i \in 1..Len(x) : x[i] = s[i]
      BY BeginningOf
    <3> HIDE DEF x
    <3> QED BY <1>1, <1>3, <3>1
  <2>2. y \in Seq(S) /\ Len(y) = n /\ \A i \in 1..Len(y) : y[i] = t[i]
    <3>1. y \in Seq(S) /\ Len(y) = (IF Len(t) > n THEN n ELSE Len(t)) /\ \A i \in 1..Len(y) : y[i] = t[i]
      BY <1>1, BeginningOf
    <3> HIDE DEF y
    <3> QED BY <1>1, <1>3, <3>1
  <2> HIDE DEF x, y
  <2>3. \A i \in 1..Len(x) : x[i] = y[i]
    BY <1>1, <1>3, <2>1, <2>2
  <2>4. x = y
    BY <2>1, <2>2, <2>3, SeqEqual
  <2> QED BY <1>1, <1>3, <2>1, <2>4 DEF x, y, t
<1> QED BY <1>2, <1>3

\* Nothing is stored, or one file.
LEMMA StoreOf ==
  ASSUME extracted \in Seq(Files), scans \in Seq(Nat)
  PROVE  /\ Store(<<>>) => extracted' = extracted /\ scans' \in Seq(Nat)
         /\ \A x \in Files : Store(<<x>>) =>
              /\ extracted' \in Seq(Files) /\ scans' \in Seq(Nat)
              /\ Len(extracted') = Len(extracted) + 1
              /\ \A i \in 1..Len(extracted) : extracted'[i] = extracted[i]
              /\ extracted'[Len(extracted) + 1] = [name |-> x.name, data |-> Cut(x.data)]
<1>1. Len(extracted) \in Nat
  BY LenProperties
<1>2. ASSUME Store(<<>>) PROVE extracted' = extracted /\ scans' \in Seq(Nat)
  <2>1. <<>> \in Seq(Files) /\ Len(<<>>) = 0
    BY EmptySeq
  <2>2. /\ extracted' \in Seq(Files) /\ Len(extracted') = Len(extracted) + 0 /\ scans' \in Seq(Nat)
        /\ \A i \in 1..Len(extracted) : extracted'[i] = extracted[i]
    BY <1>2, <2>1, StoreAppends
  <2> QED BY <1>1, <2>2, SeqEqual
<1>3. ASSUME NEW x \in Files, Store(<<x>>)
      PROVE  /\ extracted' \in Seq(Files) /\ scans' \in Seq(Nat)
             /\ Len(extracted') = Len(extracted) + 1
             /\ \A i \in 1..Len(extracted) : extracted'[i] = extracted[i]
             /\ extracted'[Len(extracted) + 1] = [name |-> x.name, data |-> Cut(x.data)]
  <2>1. <<x>> \in Seq(Files) /\ Len(<<x>>) = 1 /\ <<x>>[1] = x /\ 1 \in 1..Len(<<x>>)
    OBVIOUS
  <2> QED BY <1>3, <2>1, StoreAppends
<1> QED BY <1>2, <1>3

\* The files extracted are the first ones still, when nothing is completed,
LEMMA NothingCompleted ==
  ASSUME FilesTypeOK, FirstOnes, extracted' = extracted, complete' = complete,
         Len(sentUnits) \in Nat, Len(sentUnits') \in Nat, Len(sentUnits) <= Len(sentUnits')
  PROVE  FirstOnes'
<1>1. \A i \in 1..Len(complete) : complete[i].last \in Nat
  <2>1. complete \in Seq(Wholes)
    BY DEF FilesTypeOK, Wholes
  <2>2. \A i \in 1..Len(complete) : complete[i] \in Wholes
    BY <2>1, ElementOfSeq
  <2> QED BY <2>2 DEF Wholes
<1>2. \A i \in 1..Len(complete) : complete[i].last <= Len(sentUnits')
  BY <1>1 DEF FirstOnes
<1> QED BY <1>2 DEF FirstOnes, Transferred

\* and when the file that is completed is extracted.
LEMMA OneCompleted ==
  ASSUME FilesTypeOK, FirstOnes, NEW c \in Wholes, complete' = complete \o <<c>>,
         \A i \in 1..Len(complete) : complete[i].last <= Limit, c.last <= Limit,
         Len(sentUnits) \in Nat, Len(sentUnits') \in Nat, Len(sentUnits) <= Len(sentUnits'),
         c.last <= Len(sentUnits'), extracted' \in Seq(Files), Len(extracted') = Len(extracted) + 1,
         \A i \in 1..Len(extracted) : extracted'[i] = extracted[i],
         extracted'[Len(extracted) + 1] = Transferred(c)
  PROVE  FirstOnes'
<1>1. complete \in Seq(Wholes) /\ <<c>> \in Seq(Wholes) /\ Len(complete) \in Nat /\ Len(extracted) \in Nat
  BY LenProperties DEF FilesTypeOK, Wholes
<1>2. \A i \in 1..Len(complete) : complete[i].last \in Nat
  <2>1. \A i \in 1..Len(complete) : complete[i] \in Wholes
    BY <1>1, ElementOfSeq
  <2> QED BY <2>1 DEF Wholes
<1>3. Len(extracted) = Len(complete)
  <2>1. Len(complete) # 0 => Len(complete) \in 1..Len(complete)
    BY <1>1
  <2>2. Len(complete) # 0 => Len(complete) <= Len(extracted)
    BY <2>1 DEF FirstOnes
  <2> QED BY <1>1, <2>2 DEF FirstOnes
<1>4. /\ Len(complete') = Len(complete) + 1 /\ complete'[Len(complete) + 1] = c
      /\ \A i \in 1..Len(complete) : complete'[i] = complete[i]
  BY <1>1
<1>5. \A i \in 1..Len(complete') : complete'[i].last <= Len(sentUnits') /\ complete'[i].last <= Limit
  <2> SUFFICES ASSUME NEW i \in 1..Len(complete')
               PROVE  complete'[i].last <= Len(sentUnits') /\ complete'[i].last <= Limit
    OBVIOUS
  <2>1. CASE i = Len(complete) + 1
    BY <1>4, <2>1
  <2>2. CASE i # Len(complete) + 1
    <3>1. i \in 1..Len(complete)
      BY <1>1, <1>4, <2>2
    <3> QED BY <1>2, <1>4, <3>1 DEF FirstOnes
  <2> QED BY <2>1, <2>2
<1>6. \A i \in 1..Len(extracted') : extracted'[i] = Transferred(complete'[i])
  <2> SUFFICES ASSUME NEW i \in 1..Len(extracted')
               PROVE  extracted'[i] = Transferred(complete'[i])
    OBVIOUS
  <2>1. CASE i = Len(extracted) + 1
    BY <1>3, <1>4, <2>1
  <2>2. CASE i # Len(extracted) + 1
    <3>1. i \in 1..Len(extracted)
      BY <1>1, <2>2
    <3> QED BY <1>3, <1>4, <3>1 DEF FirstOnes
  <2> QED BY <2>1, <2>2
<1>7. \A i \in 1..Len(complete') : complete'[i].last <= Limit <=> i <= Len(extracted')
  BY <1>1, <1>3, <1>4, <1>5
<1>8. Len(extracted') <= Len(complete')
  BY <1>1, <1>3, <1>4
<1> QED BY <1>5, <1>6, <1>7, <1>8 DEF FirstOnes, Transferred

\* A packet of which nothing is lost.
LEMMA SentOnce ==
  ASSUME FilesTypeOK, NEW u \in NextUnits, NEW d, NEW r \in 0..2, SendPacket(u, d, r), losses' = 0
  PROVE  /\ losses = 0 /\ r > 0
         /\ ObserveHTTP(<<u>>) \/ ObserveSMTP(<<u>>)
         /\ u \in Units /\ sentUnits \in Seq(Units) /\ Len(sentUnits) \in Nat
         /\ sentUnits' = Append(sentUnits, u) /\ Len(sentUnits') = Len(sentUnits) + 1 /\ LastSent' = u
         /\ sentUnits'[Len(sentUnits) + 1] = u /\ \A i \in 1..Len(sentUnits) : sentUnits'[i] = sentUnits[i]
         /\ complete' = complete \o Whole(sentUnits', u) /\ UNCHANGED wire
<1>1. losses = 0 /\ Extracts(d) /\ r = 1
  BY DEF SendPacket, Lose, FilesTypeOK
<1>2. [i \in 1..r |-> u] = <<u>>
  BY <1>1
<1>3. u \in Units /\ sentUnits \in Seq(Units) /\ Len(sentUnits) \in Nat
  BY NextUnitIs, LenProperties DEF FilesTypeOK
<1>4. /\ ObserveHTTP(<<u>>) \/ ObserveSMTP(<<u>>)
      /\ sentUnits' = Append(sentUnits, u) /\ complete' = complete \o Whole(sentUnits', u) /\ UNCHANGED wire
  BY <1>1, <1>2 DEF SendPacket
<1>5. /\ Len(sentUnits') = Len(sentUnits) + 1 /\ sentUnits'[Len(sentUnits) + 1] = u
      /\ \A i \in 1..Len(sentUnits) : sentUnits'[i] = sentUnits[i]
  BY <1>3, <1>4
<1> QED BY <1>1, <1>3, <1>4, <1>5 DEF LastSent

\* The units of the last message stand together.
LEMMA LastMessageGrows ==
  ASSUME FilesTypeOK, wire = "http", NEW u \in NextUnits, LastMessage, sentUnits \in Seq(Units),
         Len(sentUnits) \in Nat, Len(sentUnits') = Len(sentUnits) + 1, LastSent' = u,
         sentUnits'[Len(sentUnits) + 1] = u, \A i \in 1..Len(sentUnits) : sentUnits'[i] = sentUnits[i]
  PROVE  LastMessage'
<1> DEFINE N == Len(sentUnits)
<1>1. /\ u \in Units /\ u[1] \in Nat /\ u[2] \in Nat /\ u[3] \in Nat /\ u = <<u[1], u[2], u[3]>>
      /\ IF Finished THEN u[2] = 0 ELSE u = <<LastSent[1], LastSent[2] + 1, LastSent[3]>>
      /\ sentUnits # <<>> => LastSent[2] \in Nat /\ LastSent[3] \in Nat
  BY NextUnitIs
<1>2. CASE Finished
  <2>1. \A q \in 0..u[2] : q = 0
    BY <1>1, <1>2
  <2>2. sentUnits'[N + 1 - 0] = <<u[1], u[2] - 0, u[3]>>
    BY <1>1
  <2>3. u[2] <= u[3] /\ u[2] < N + 1
    BY <1>1, <1>2
  <2> QED BY <2>1, <2>2, <2>3 DEF LastMessage
<1>3. CASE ~Finished
  <2>1. sentUnits # <<>> /\ LastSent[2] # LastSent[3]
    <3>1. sentUnits # <<>> /\ LastSent[2] # LastSent[3] + 0
      BY <1>3 DEF Finished, Trailer
    <3> QED BY <1>1, <3>1
  <2>2. /\ LastSent[2] <= LastSent[3] /\ LastSent[2] < N
        /\ \A q \in 0..LastSent[2] : sentUnits[N - q] = <<LastSent[1], LastSent[2] - q, LastSent[3]>>
    BY <2>1 DEF LastMessage
  <2>3. u[1] = LastSent[1] /\ u[2] = LastSent[2] + 1 /\ u[3] = LastSent[3] /\ LastSent[2] \in Nat
    BY <1>1, <1>3, <2>1
  <2>4. ASSUME NEW q \in 0..u[2] PROVE sentUnits'[N + 1 - q] = <<u[1], u[2] - q, u[3]>>
    <3>1. CASE q = 0
      BY <1>1, <3>1
    <3>2. CASE q # 0
      <4>1. q - 1 \in 0..LastSent[2] /\ N - (q - 1) = N + 1 - q /\ LastSent[2] - (q - 1) = u[2] - q
        BY <2>3, <3>2
      <4>2. N + 1 - q \in 1..N
        BY <1>1, <2>1, <2>2, <2>3, <3>2
      <4>3. sentUnits[N - (q - 1)] = <<LastSent[1], LastSent[2] - (q - 1), LastSent[3]>>
        BY <2>2, <4>1
      <4> QED BY <2>3, <4>1, <4>2, <4>3
    <3> QED BY <3>1, <3>2
  <2>5. u[2] <= u[3] /\ u[2] < N + 1
    BY <1>1, <2>1, <2>2, <2>3
  <2> QED BY <2>4, <2>5 DEF LastMessage
<1> QED BY <1>2, <1>3

\* A message that is complete in order is found whole.
LEMMA WholeMessage ==
  ASSUME NEW b \in Seq(Units), NEW m \in Nat, NEW n \in Nat \ {0}, NEW j \in 1..Len(b),
         Len(b) = j + n, \A q \in 0..n : b[Len(b) - q] = <<m, n - q, n>>
  PROVE  MessageAt(b, j) = <<[name |-> m, data |-> [i \in 1..n |-> <<m, i, n>>]]>>
<1> DEFINE body == [i \in 1..n |-> <<m, i, n>>]
           d == SubSeq(b, j + 1, j + n)
<1>1. Len(b) \in Nat /\ j \in Nat
  BY UnitsOf
<1>2. b[j] = <<m, 0, n>>
  <2>1. n \in 0..n /\ Len(b) - n = j /\ n - n = 0
    BY <1>1
  <2> QED BY <2>1
<1>3. body \in Seq(Units) /\ Len(body) = n
  BY BodyIs
<1>4. /\ d \in Seq(Units) /\ Len(d) = n
      /\ \A i \in 1..n : d[i] = b[j + 1 + i - 1]
  <2> DEFINE after == j + 1
             to == j + n
  <2>1. after \in Int /\ to \in Int /\ \A x \in after..to : b[x] \in Units
    <3>1. \A x \in after..to : x \in 1..Len(b)
      BY <1>1
    <3> QED BY <1>1, <3>1, UnitsOf
  <2>2. to - after + 1 = n /\ after <= to
    BY <1>1
  <2> HIDE DEF after, to
  <2>3. /\ SubSeq(b, after, to) \in Seq(Units) /\ Len(SubSeq(b, after, to)) = to - after + 1
        /\ \A i \in 1..(to - after + 1) : SubSeq(b, after, to)[i] = b[after + i - 1]
    BY <2>1, <2>2, SubSeqProperties
  <2>4. d = SubSeq(b, after, to)
    BY DEF after, to
  <2> HIDE DEF d
  <2> QED BY <2>2, <2>3, <2>4 DEF after
<1>5. ASSUME NEW i \in 1..n PROVE d[i] = <<m, i, n>>
  <2>1. n - i \in 0..n /\ Len(b) - (n - i) = j + 1 + i - 1 /\ n - (n - i) = i
    BY <1>1
  <2>2. b[Len(b) - (n - i)] = <<m, n - (n - i), n>>
    BY <2>1
  <2> HIDE DEF d
  <2> QED BY <1>4, <2>1, <2>2
<1>6. d = body
  <2>1. \A i \in 1..Len(d) : d[i] = body[i]
    <3> HIDE DEF d
    <3> QED BY <1>4, <1>5
  <2> HIDE DEF d, body
  <2> QED BY <1>3, <1>4, <2>1, SeqEqual
<1>7. MessageData(b, j) = d
  BY <1>2 DEF MessageData, BodyEnd
<1> HIDE DEF d, body
<1>8. b[j][1] = m /\ b[j][3] = n
  BY <1>2
<1> QED BY <1>6, <1>7, <1>8 DEF MessageAt, body

\* HTTP: a message is found when the last of its units comes, and only then.
LEMMA HTTPKeeps ==
  ASSUME FilesTypeOK, Held, wire = "http", FirstOnes, HTTPRight, NEW u \in NextUnits, NEW d, NEW r \in 0..2,
         SendPacket(u, d, r), losses' = 0
  PROVE  FirstOnes' /\ HTTPRight'
<1> DEFINE N == Len(sentUnits)
           b == buffers[0]
           c == Stream(0, <<u>>)
<1>1. /\ u \in Units /\ sentUnits \in Seq(Units) /\ N \in Nat
      /\ sentUnits' = Append(sentUnits, u) /\ Len(sentUnits') = N + 1 /\ LastSent' = u
      /\ sentUnits'[N + 1] = u /\ \A i \in 1..N : sentUnits'[i] = sentUnits[i]
      /\ complete' = complete \o Whole(sentUnits', u) /\ wire' = "http"
  BY SentOnce
<1>2. /\ buffers' = [buffers EXCEPT ![0] = c] /\ parsed' = Parse(c, parsed).at - 1
      /\ Store(Parse(c, parsed).found)
  <2>1. ObserveHTTP(<<u>>)
    BY SentOnce DEF ObserveSMTP
  <2> QED BY <2>1 DEF ObserveHTTP
<1>3. /\ u[1] \in Nat /\ u[2] \in Nat /\ u[3] \in Nat /\ u = <<u[1], u[2], u[3]>>
      /\ IF Finished THEN u[2] = 0 ELSE u = <<LastSent[1], LastSent[2] + 1, LastSent[3]>>
      /\ sentUnits # <<>> => N \in Nat \ {0} /\ LastSent[1] \in Nat /\ LastSent[2] \in Nat /\ LastSent[3] \in Nat
  BY NextUnitIs
<1>4. 0 \in 0..MaxUnits /\ Limit \in Nat
  BY FileExtractionAssumption, LimitIs
<1>5. b \in Seq(Units) /\ Len(b) \in Nat /\ Len(b) <= Limit /\ b = FirstOf(sentUnits, Limit)
  BY <1>4, LenProperties DEF FilesTypeOK, Held, HTTPRight
<1>6. /\ c \in Seq(Units) /\ Len(b) <= Len(c) /\ Len(c) <= Limit
      /\ Len(b) = Limit => c = b
      /\ Len(b) + 1 <= Limit => c = b \o <<u>>
  <2>1. <<u>> \in Seq(Units) /\ Len(<<u>>) = 1
    BY <1>1
  <2> QED BY <1>4, <2>1, StreamGrows
<1>7. buffers'[0] = c
  BY <1>2, <1>4 DEF FilesTypeOK
<1>8. extracted \in Seq(Files) /\ scans \in Seq(Nat) /\ complete \in Seq(Wholes) /\ parsed \in Nat
      /\ Len(complete) \in Nat
  BY LenProperties DEF FilesTypeOK, Files, Wholes
<1>9. LastMessage'
  BY <1>1, LastMessageGrows DEF HTTPRight
<1>10. /\ sentUnits' \in Seq(Units) /\ sentUnits' = sentUnits \o <<u>>
       /\ IF N < Limit THEN FirstOf(sentUnits, Limit) = sentUnits /\ FirstOf(sentUnits', Limit) = sentUnits'
          ELSE Len(FirstOf(sentUnits, Limit)) = Limit /\ FirstOf(sentUnits', Limit) = FirstOf(sentUnits, Limit)
  BY <1>1, <1>4, BeginningGrows
<1>11. StandsBefore(b) /\ LastMessage
  BY DEF HTTPRight
<1>12. \A i \in 1..Len(complete) : complete[i].last \in Nat /\ complete[i].last <= N
  <2>1. \A i \in 1..Len(complete) : complete[i] \in Wholes
    BY <1>8, ElementOfSeq
  <2> QED BY <2>1 DEF Wholes, FirstOnes
<1> HIDE DEF b, c, N
<1>13. CASE ~(N < Limit)
  <2>1. c = b /\ FirstOf(sentUnits', Limit) = c
    BY <1>5, <1>6, <1>10, <1>13
  <2>2. Parse(c, parsed) = [found |-> <<>>, at |-> parsed + 1]
    <3>1. parsed \in 0..Len(c)
      BY <1>5, <1>8, <1>11, <2>1 DEF StandsBefore
    <3> QED BY <1>6, <1>11, <2>1, <3>1, ParserAtOneMessage DEF StandsBefore
  <2>3. parsed' = parsed /\ Store(<<>>)
    BY <1>2, <1>8, <2>2
  <2>4. extracted' = extracted
    BY <1>8, <2>3, StoreOf
  <2>5. N + 1 > Limit
    BY <1>1, <1>4, <1>13 DEF N
  <2>6. StandsBefore(buffers[0])'
    <3>1. buffers'[0] = b /\ ~(Len(sentUnits') <= Limit)
      BY <1>1, <1>4, <1>7, <2>1, <2>5 DEF N
    <3>2. \/ parsed' = Len(b)
          \/ parsed' < Len(b) /\ b[parsed' + 1][2] = 0 /\ ~Arrived(b, parsed' + 1)
      BY <1>11, <2>3 DEF StandsBefore
    <3>3. ~Arrived(b, parsed' + 1) => ~(parsed' + 1 + b[parsed' + 1][3] <= Len(b))
      BY DEF Arrived, BodyEnd
    <3> QED BY <3>1, <3>2, <3>3 DEF StandsBefore, Arrived, BodyEnd
  <2>7. FirstOnes'
    <3> DEFINE w == Whole(sentUnits', u)
    <3>1. w \in Seq(Wholes)
      BY <1>1, <1>10, WholeIs
    <3>2. \A i \in 1..Len(w) : w[i].last = N + 1
      BY <1>1, <1>3 DEF Whole
    <3> HIDE DEF w
    <3>3. /\ Len(complete') = Len(complete) + Len(w)
          /\ \A i \in 1..(Len(complete) + Len(w)) :
               complete'[i] = IF i <= Len(complete) THEN complete[i] ELSE w[i - Len(complete)]
      BY <1>1, <1>8, <3>1, ConcatProperties DEF w
    <3>4. Len(extracted) \in Nat /\ Len(w) \in Nat
      BY <1>8, <3>1, LenProperties
    <3>5. ASSUME NEW i \in 1..Len(complete')
          PROVE  complete'[i].last <= N + 1 /\ (complete'[i].last <= Limit <=> i <= Len(extracted))
      <4>1. CASE i <= Len(complete)
        <5>1. i \in 1..Len(complete) /\ complete'[i] = complete[i]
          BY <1>8, <3>3, <3>4, <4>1
        <5> QED BY <1>1, <1>12, <5>1 DEF FirstOnes, N
      <4>2. CASE ~(i <= Len(complete))
        <5>1. i - Len(complete) \in 1..Len(w)
          BY <1>8, <3>3, <3>4, <4>2
        <5>2. complete'[i].last = N + 1
          BY <3>2, <3>3, <3>4, <4>2, <5>1, <1>8
        <5>3. i > Len(extracted)
          BY <1>8, <3>4, <4>2 DEF FirstOnes
        <5> QED BY <1>1, <1>4, <2>5, <3>4, <5>2, <5>3 DEF N
      <4> QED BY <4>1, <4>2
    <3>6. Len(extracted) <= Len(complete')
      BY <1>8, <3>3, <3>4 DEF FirstOnes
    <3>7. \A i \in 1..Len(extracted) : extracted'[i] = Transferred(complete'[i])
      BY <1>8, <2>4, <3>3, <3>4 DEF FirstOnes
    <3> QED BY <1>1, <2>4, <3>5, <3>6, <3>7 DEF FirstOnes, Transferred
  <2> QED BY <1>7, <1>9, <2>1, <2>6, <2>7 DEF HTTPRight
<1>14. CASE N < Limit
  <2>1. b = sentUnits /\ Len(b) = N /\ c = sentUnits' /\ Len(c) = N + 1 /\ N + 1 <= Limit
        /\ c[N + 1] = u /\ FirstOf(sentUnits', Limit) = c /\ \A i \in 1..N : c[i] = sentUnits[i]
    <3>1. b = sentUnits /\ Len(b) = N
      BY <1>5, <1>10, <1>14 DEF N
    <3>2. N + 1 <= Limit
      BY <1>1, <1>4, <1>14 DEF N
    <3>3. c = sentUnits' /\ FirstOf(sentUnits', Limit) = c
      BY <1>6, <1>10, <1>14, <3>1, <3>2
    <3> QED BY <1>1, <3>1, <3>2, <3>3 DEF N
  <2>2. CASE Finished
    <3>1. parsed = N /\ u[2] = 0
      BY <1>3, <1>11, <1>14, <2>1, <2>2, <1>1, <1>4 DEF StandsBefore, N
    <3>2. c[parsed + 1][2] = 0 /\ parsed \in 0..Len(c) /\ parsed < Len(c) /\ c[parsed + 1] = u
      BY <1>1, <2>1, <3>1 DEF N
    <3>3. Whole(sentUnits', u) = <<>>
      BY <1>1, <1>3, <3>1 DEF Whole
    <3>4. complete' = complete
      BY <1>1, <1>8, <3>3, ConcatEmptySeq
    <3>5. CASE u[3] = 0
      <4>1. BodyEnd(c, parsed + 1) = Len(c)
        BY <1>1, <2>1, <3>1, <3>2, <3>5 DEF BodyEnd, N
      <4>2. Parse(c, parsed).found = MessageAt(c, parsed + 1) /\ Parse(c, parsed).at = Len(c) + 1
        BY <1>6, <3>2, <4>1, ParserAtOneMessage
      <4>3. Parse(c, parsed).found = <<>>
        BY <3>2, <3>5, <4>2 DEF MessageAt
      <4>4. extracted' = extracted /\ parsed' = Len(c)
        BY <1>1, <1>2, <1>8, <2>1, <4>2, <4>3, StoreOf DEF N
      <4>5. FirstOnes'
        BY <1>1, <3>4, <4>4, NothingCompleted DEF N
      <4>6. Finished'
        BY <1>1, <3>1, <3>5 DEF Finished, Trailer
      <4>7. StandsBefore(buffers[0])'
        BY <1>7, <4>4, <4>6 DEF StandsBefore
      <4> QED BY <1>7, <1>9, <2>1, <4>5, <4>7 DEF HTTPRight
    <3>6. CASE u[3] # 0
      <4>1. ~Arrived(c, parsed + 1)
        BY <1>1, <1>3, <2>1, <3>1, <3>2, <3>6 DEF Arrived, BodyEnd, N
      <4>2. Parse(c, parsed) = [found |-> <<>>, at |-> parsed + 1]
        BY <1>6, <3>2, <4>1, ParserAtOneMessage
      <4>3. extracted' = extracted /\ parsed' = parsed
        BY <1>2, <1>8, <4>2, StoreOf
      <4>4. FirstOnes'
        BY <1>1, <3>4, <4>3, NothingCompleted DEF N
      <4>5. ~Finished'
        BY <1>1, <1>3, <3>1, <3>6, EmptySeq DEF Finished, Trailer
      <4>6. parsed' + 1 = Len(sentUnits') - LastSent'[2]
        BY <1>1, <3>1, <4>3 DEF N
      <4>7. StandsBefore(buffers[0])'
        BY <1>7, <3>2, <4>1, <4>3, <4>5, <4>6 DEF StandsBefore, Arrived, BodyEnd
      <4> QED BY <1>7, <1>9, <2>1, <4>4, <4>7 DEF HTTPRight
    <3> QED BY <3>5, <3>6
  <2>3. CASE ~Finished
    <3>1. /\ sentUnits # <<>> /\ u[1] = LastSent[1] /\ u[2] = LastSent[2] + 1 /\ u[3] = LastSent[3]
          /\ LastSent[1] \in Nat /\ LastSent[2] \in Nat /\ LastSent[3] \in Nat
      BY <1>3, <2>3 DEF Finished
    <3>2. parsed + 1 = N - LastSent[2] /\ parsed < N /\ parsed \in 0..Len(c) /\ parsed < Len(c)
      BY <1>1, <1>4, <1>8, <1>11, <1>14, <2>1, <2>3 DEF StandsBefore, N
    <3>3. c[parsed + 1] = <<u[1], 0, u[3]>> /\ u[2] <= u[3]
      <4>1. LastSent[2] \in 0..LastSent[2] /\ LastSent[2] - LastSent[2] = 0
        BY <3>1
      <4>2. sentUnits[N - LastSent[2]] = <<LastSent[1], 0, LastSent[3]>>
        BY <1>11, <3>1, <4>1 DEF LastMessage, N
      <4>3. parsed + 1 \in 1..N
        BY <1>1, <1>8, <3>2 DEF N
      <4>4. u[2] <= u[3]
        BY <1>1, <1>9, EmptySeq DEF LastMessage
      <4> QED BY <2>1, <3>1, <3>2, <4>2, <4>3, <4>4
    <3>4. BodyEnd(c, parsed + 1) = N + 1 - u[2] + u[3] /\ c[parsed + 1][2] = 0
      BY <1>1, <1>8, <3>1, <3>2, <3>3 DEF BodyEnd, N
    <3>5. CASE u[2] = u[3]
      <4>1. BodyEnd(c, parsed + 1) = Len(c)
        BY <1>1, <1>3, <2>1, <3>4, <3>5 DEF N
      <4>2. Parse(c, parsed).found = MessageAt(c, parsed + 1) /\ Parse(c, parsed).at = Len(c) + 1
        BY <1>6, <3>2, <3>4, <4>1, ParserAtOneMessage
      <4> DEFINE body == [i \in 1..u[3] |-> <<u[1], i, u[3]>>]
                 file == [name |-> u[1], data |-> body]
                 whole == [name |-> u[1], data |-> Cut(body), last |-> N + 1]
      <4>3. MessageAt(c, parsed + 1) = <<file>>
        <5>1. \A q \in 0..u[3] : c[Len(c) - q] = <<u[1], u[3] - q, u[3]>>
          <6>1. sentUnits' # <<>>
            <7>1. Len(sentUnits') # 0
              BY <1>1 DEF N
            <7> QED BY <7>1, EmptySeq
          <6>2. \A q \in 0..u[2] : sentUnits'[Len(sentUnits') - q] = <<u[1], u[2] - q, u[3]>>
            BY <1>1, <1>9, <6>1 DEF LastMessage
          <6> QED BY <2>1, <3>5, <6>2
        <5>2. u[3] \in Nat \ {0} /\ parsed + 1 \in 1..Len(c) /\ Len(c) = parsed + 1 + u[3]
          <6>1. u[3] = LastSent[2] + 1 /\ N \in Nat
            BY <1>1, <3>1, <3>5 DEF N
          <6> DEFINE l == LastSent[2]
          <6>2. l \in Nat /\ u[3] = l + 1 /\ parsed + 1 = N - l /\ Len(c) = N + 1
            BY <2>1, <3>1, <3>2, <6>1
          <6> HIDE DEF l
          <6>3. u[3] \in Nat \ {0}
            BY <6>2
          <6>4. Len(c) = parsed + 1 + u[3]
            <7>1. l \in Nat /\ N \in Nat /\ Len(c) = N + 1 /\ parsed + 1 = N - l /\ u[3] = l + 1
              BY <6>1, <6>2
            <7>2. parsed + 1 + u[3] = (N - l) + (l + 1)
              BY <7>1
            <7>3. (N - l) + (l + 1) = N + 1
              BY <7>1
            <7> QED BY <7>1, <7>2, <7>3
          <6>5. parsed + 1 \in 1..Len(c)
            <7>1. Len(c) \in Nat /\ parsed + 1 <= Len(c) /\ parsed \in Nat
              BY <1>8, <6>1, <6>2
            <7> QED BY <7>1
          <6> QED BY <6>3, <6>4, <6>5
        <5> QED BY <1>3, <1>6, <5>1, <5>2, WholeMessage
      <4>4. file \in Files /\ whole \in Wholes
        BY <1>1, <1>3, BodyIs DEF Files, Wholes, N
      <4>5. Whole(sentUnits', u) = <<whole>>
        BY <1>1, <1>3, <3>1, <3>5 DEF Whole, N
      <4>6. whole.last = N + 1 /\ Transferred(whole) = [name |-> u[1], data |-> Cut(body)]
            /\ file.name = u[1] /\ file.data = body
        BY DEF Transferred
      <4> HIDE DEF file, whole, body
      <4>7. Store(<<file>>) /\ parsed' = Len(c)
        BY <1>2, <1>1, <2>1, <4>2, <4>3 DEF N
      <4>8. /\ extracted' \in Seq(Files) /\ Len(extracted') = Len(extracted) + 1
            /\ \A i \in 1..Len(extracted) : extracted'[i] = extracted[i]
            /\ extracted'[Len(extracted) + 1] = Transferred(whole)
        BY <1>8, <4>4, <4>6, <4>7, StoreOf
      <4>9. \A i \in 1..Len(complete) : complete[i].last <= Limit
        BY <1>1, <1>4, <1>12, <1>14 DEF N
      <4>10. /\ complete' = complete \o <<whole>> /\ whole.last <= Limit /\ whole.last <= Len(sentUnits')
             /\ Len(sentUnits) \in Nat /\ Len(sentUnits') \in Nat /\ Len(sentUnits) <= Len(sentUnits')
        BY <1>1, <2>1, <4>5, <4>6 DEF N
      <4>11. FirstOnes'
        BY <4>4, <4>8, <4>9, <4>10, OneCompleted
      <4>12. Finished'
        BY <1>1, <1>3, <3>5 DEF Finished, Trailer
      <4>13. StandsBefore(buffers[0])'
        BY <1>7, <4>7, <4>12 DEF StandsBefore
      <4> QED BY <1>7, <1>9, <2>1, <4>11, <4>13 DEF HTTPRight
    <3>6. CASE u[2] # u[3]
      <4>1. ~Arrived(c, parsed + 1)
        BY <1>1, <1>3, <2>1, <3>3, <3>4, <3>6 DEF Arrived, N
      <4>2. Parse(c, parsed) = [found |-> <<>>, at |-> parsed + 1]
        BY <1>6, <3>2, <3>4, <4>1, ParserAtOneMessage
      <4>3. extracted' = extracted /\ parsed' = parsed
        BY <1>2, <1>8, <4>2, StoreOf
      <4>4. Whole(sentUnits', u) = <<>>
        BY <1>1, <3>6 DEF Whole
      <4>5. complete' = complete
        BY <1>1, <1>8, <4>4, ConcatEmptySeq
      <4>6. FirstOnes'
        BY <1>1, <4>3, <4>5, NothingCompleted DEF N
      <4>7. ~Finished'
        BY <1>1, <1>3, <3>6, EmptySeq DEF Finished, Trailer
      <4>8. parsed' + 1 = Len(sentUnits') - LastSent'[2]
        BY <1>1, <3>1, <3>2, <4>3 DEF N
      <4>9. StandsBefore(buffers[0])'
        BY <1>7, <3>2, <3>4, <4>1, <4>3, <4>7, <4>8 DEF StandsBefore, Arrived, BodyEnd
      <4> QED BY <1>7, <1>9, <2>1, <4>6, <4>9 DEF HTTPRight
    <3> QED BY <3>5, <3>6
  <2> QED BY <2>2, <2>3
<1> QED BY <1>13, <1>14

\* A buffer that is the beginning of what was sent stays that.
LEMMA BufferGrows ==
  ASSUME FilesTypeOK, Held, NEW k \in 0..MaxUnits, NEW s \in Seq(Units), buffers[k] = FirstOf(s, Limit),
         NEW u \in Units
  PROVE  LET c == Stream(k, <<u>>)
         IN  /\ c = FirstOf(Append(s, u), Limit) /\ c \in Seq(Units) /\ Len(c) \in Nat /\ Len(c) <= Limit
             /\ Len(buffers[k]) <= Len(c) /\ Len(c) # 0 /\ Len(c) <= Len(s) + 1
             /\ \A i \in 1..Len(c) : c[i] = Append(s, u)[i]
<1> DEFINE b == buffers[k]
           c == Stream(k, <<u>>)
           t == Append(s, u)
           N == Len(s)
<1>1. N \in Nat /\ Limit \in Nat /\ Limit > 0
  BY LimitIs, LenProperties
<1>2. b \in Seq(Units) /\ Len(b) \in Nat
  BY LenProperties DEF FilesTypeOK
<1>3. <<u>> \in Seq(Units) /\ Len(<<u>>) = 1
  OBVIOUS
<1>4. /\ c \in Seq(Units) /\ Len(b) <= Len(c) /\ Len(c) <= Limit
      /\ Len(b) = Limit => c = b
      /\ Len(b) + 1 <= Limit => c = b \o <<u>>
  BY <1>3, StreamGrows
<1>5. /\ t \in Seq(Units) /\ Len(t) = N + 1 /\ t = s \o <<u>>
      /\ IF N < Limit THEN FirstOf(s, Limit) = s /\ FirstOf(t, Limit) = t
         ELSE Len(FirstOf(s, Limit)) = Limit /\ FirstOf(t, Limit) = FirstOf(s, Limit)
  BY <1>1, BeginningGrows
<1>6. c = FirstOf(t, Limit)
  <2>1. CASE N < Limit
    <3>1. b = s /\ Len(b) + 1 <= Limit
      BY <1>1, <1>5, <2>1
    <3> HIDE DEF c, t, b
    <3> QED BY <1>4, <1>5, <2>1, <3>1
  <2>2. CASE ~(N < Limit)
    <3> HIDE DEF c, t
    <3> QED BY <1>4, <1>5, <2>2
  <2> QED BY <2>1, <2>2
<1> HIDE DEF c, t
<1>7. /\ Len(c) = (IF Len(t) > Limit THEN Limit ELSE Len(t))
      /\ \A i \in 1..Len(c) : c[i] = t[i]
  BY <1>1, <1>5, <1>6, BeginningOf
<1>8. Len(c) \in Nat /\ Len(c) # 0 /\ Len(c) <= N + 1
  <2> HIDE DEF N
  <2> QED BY <1>1, <1>5, <1>7
<1> QED BY <1>4, <1>6, <1>7, <1>8 DEF c, t, b

\* What is found of a mail in a buffer that begins with it.
LEMMA MailOf ==
  ASSUME NEW b \in Seq(Units), Len(b) # 0, NEW n \in Nat,
         \A i \in 1..Len(b) : i <= n + 2 => b[i] = <<1, i - 1, n>>
  PROVE  Mail(b) = IF Len(b) < n + 2 THEN <<>> ELSE [i \in 1..n |-> MailFile(i, n)]
<1>1. Len(b) \in Nat /\ 1 \in 1..Len(b)
  BY UnitsOf
<1>2. b[1] = <<1, 0, n>>
  BY <1>1
<1>3. HeaderAt(b, 1) # {} /\ First(HeaderAt(b, 1)) = 1
  <2>1. 1 \in HeaderAt(b, 1)
    BY <1>1, <1>2 DEF HeaderAt
  <2>2. HeaderAt(b, 1) # {}
    BY <2>1
  <2> QED BY <1>2, <2>2, NextHeader
<1>4. MailEnd(b, 1) = n + 2
  BY <1>2 DEF MailEnd
<1>5. CASE Len(b) < n + 2
  <2>1. MailEnd(b, 1) > Len(b)
    BY <1>1, <1>4, <1>5
  <2> QED BY <1>3, <1>5, <2>1 DEF Mail
<1>6. CASE ~(Len(b) < n + 2)
  <2>1. ~(MailEnd(b, 1) > Len(b))
    BY <1>1, <1>4, <1>6
  <2>2. Mail(b) = [i \in 1..b[1][3] |-> [name |-> b[1 + i][1], data |-> <<b[1 + i]>>]]
    BY <1>3, <2>1 DEF Mail
  <2>3. ASSUME NEW i \in 1..n
        PROVE  [name |-> b[1 + i][1], data |-> <<b[1 + i]>>] = MailFile(i, n)
    <3>1. 1 + i \in 1..Len(b) /\ 1 + i <= n + 2 /\ (1 + i) - 1 = i
      BY <1>1, <1>6
    <3>2. b[1 + i] = <<1, i, n>>
      BY <3>1
    <3> QED BY <3>2 DEF MailFile
  <2>4. b[1][3] = n
    BY <1>2
  <2> QED BY <1>6, <2>2, <2>3, <2>4
<1> QED BY <1>5, <1>6

\* The attachments of a mail are files, and cutting them changes nothing.
LEMMA MailFilesAre ==
  ASSUME NEW n \in Nat
  PROVE  LET mail == [i \in 1..n |-> MailFile(i, n)]
         IN  mail \in Seq(Files) /\ Len(mail) = n /\ \A i \in 1..n : Cut(mail[i].data) = mail[i].data
<1> DEFINE mail == [i \in 1..n |-> MailFile(i, n)]
<1>1. ASSUME NEW i \in 1..n
      PROVE  MailFile(i, n) \in Files /\ Cut(MailFile(i, n).data) = MailFile(i, n).data
  <2> DEFINE u == <<1, i, n>>
  <2>1. u \in Units
    BY DEF Units
  <2> HIDE DEF u
  <2>2. <<u>> \in Seq(Units) /\ Len(<<u>>) = 1
    BY <2>1
  <2>3. Cut(<<u>>) = <<u>>
    <3>1. Len(<<u>>) <= MaxFileBytes /\ MaxFileBytes \in Nat
      BY <2>2, LimitIs
    <3> QED BY <2>2, <3>1, BeginningOf DEF Cut
  <2>4. MailFile(i, n) = [name |-> 1, data |-> <<u>>]
    BY DEF MailFile, u
  <2> QED BY <2>2, <2>3, <2>4 DEF Files
<1>2. mail \in [1..n -> Files] /\ Len(mail) = n /\ \A i \in 1..n : mail[i] = MailFile(i, n)
  BY <1>1
<1> HIDE DEF mail
<1>3. mail \in Seq(Files)
  BY <1>2, SeqDef
<1> QED BY <1>1, <1>2, <1>3 DEF mail

\* What is stored joins what was extracted.
LEMMA RangeOfStored ==
  ASSUME extracted \in Seq(Files), scans \in Seq(Nat), NEW new \in Seq(Files), Store(new),
         \A i \in 1..Len(new) : Cut(new[i].data) = new[i].data
  PROVE  Range(extracted') = Range(extracted) \union {new[i] : i \in 1..Len(new)}
<1> DEFINE stored == {new[i] : i \in 1..Len(new)}
           L == Len(extracted)
<1>1. /\ extracted' \in Seq(Files) /\ Len(extracted') = L + Len(new)
      /\ \A i \in 1..L : extracted'[i] = extracted[i]
      /\ \A i \in 1..Len(new) : extracted'[L + i] = [name |-> new[i].name, data |-> Cut(new[i].data)]
  BY StoreAppends
<1>2. L \in Nat /\ Len(new) \in Nat /\ DOMAIN extracted = 1..L /\ DOMAIN extracted' = 1..(L + Len(new))
  BY <1>1, LenProperties
<1>3. \A i \in 1..Len(new) : extracted'[L + i] = new[i]
  <2>1. \A i \in 1..Len(new) : new[i] \in Files
    BY ElementOfSeq
  <2> QED BY <1>1, <2>1 DEF Files
<1> HIDE DEF L, stored
<1>4. ASSUME NEW i \in 1..(L + Len(new)) PROVE extracted'[i] \in Range(extracted) \union stored
  <2>1. CASE i <= L
    <3>1. i \in DOMAIN extracted /\ extracted'[i] = extracted[i]
      BY <1>1, <1>2, <2>1
    <3> QED BY <3>1 DEF Range
  <2>2. CASE ~(i <= L)
    <3>1. i - L \in 1..Len(new) /\ L + (i - L) = i
      BY <1>2, <2>2
    <3>2. extracted'[i] = new[i - L]
      BY <1>3, <3>1
    <3> QED BY <3>1, <3>2 DEF stored
  <2> QED BY <2>1, <2>2
<1>5. \A x \in Range(extracted) : x \in Range(extracted')
  <2> SUFFICES ASSUME NEW x \in Range(extracted) PROVE x \in Range(extracted')
    OBVIOUS
  <2>1. PICK i \in 1..L : x = extracted[i]
    BY <1>2 DEF Range
  <2>2. i \in DOMAIN extracted' /\ extracted'[i] = x
    BY <1>1, <1>2, <2>1
  <2> QED BY <2>2 DEF Range
<1>6. \A x \in stored : x \in Range(extracted')
  <2> SUFFICES ASSUME NEW x \in stored PROVE x \in Range(extracted')
    OBVIOUS
  <2>1. PICK i \in 1..Len(new) : x = new[i]
    BY DEF stored
  <2>2. L + i \in DOMAIN extracted' /\ extracted'[L + i] = x
    BY <1>2, <1>3, <2>1
  <2> QED BY <2>2 DEF Range
<1>7. \A x \in Range(extracted') : x \in Range(extracted) \union stored
  BY <1>2, <1>4 DEF Range
<1> QED BY <1>5, <1>6, <1>7 DEF stored

\* SMTP: which unit comes next, and what it completes.
LEMMA FirstMailGrows ==
  ASSUME FilesTypeOK, wire = "smtp", NEW u \in NextUnits, sentUnits # <<>>, NEW n \in Nat,
         FirstMail(n), sentUnits' = Append(sentUnits, u), complete' = complete \o Whole(sentUnits', u)
  PROVE  /\ \A i \in 1..(Len(sentUnits) + 1) :
              IF i <= n + 2 THEN sentUnits'[i] = <<1, i - 1, n>> ELSE sentUnits'[i][1] > 1
         /\ complete' = IF Len(sentUnits) + 1 < n + 2 THEN <<>>
                        ELSE [i \in 1..n |-> [name |-> 1, data |-> <<<<1, i, n>>>>, last |-> n + 2]]
<1> DEFINE N == Len(sentUnits)
<1>1. sentUnits \in Seq(Units) /\ N \in Nat \ {0} /\ complete \in Seq(Wholes) /\ sentUnits' \in Seq(Units)
  BY NextUnitIs, EmptySeq DEF FilesTypeOK, Wholes
<1>2. /\ u \in Units /\ u[1] \in Nat /\ u[2] \in Nat /\ u[3] \in Nat
      /\ IF Finished THEN u[2] = 0 /\ u[1] = LastSent[1] + 1
         ELSE u = <<LastSent[1], LastSent[2] + 1, LastSent[3]>>
      /\ LastSent[1] \in Nat /\ LastSent[2] \in Nat /\ LastSent[3] \in Nat
  BY NextUnitIs
<1>3. LastSent = sentUnits[N] /\ (Finished <=> LastSent[2] = LastSent[3] + 1)
  BY DEF LastSent, Finished, Trailer
<1>4. IF N <= n + 2 THEN LastSent = <<1, N - 1, n>> ELSE LastSent[1] > 1
  <2>1. N \in 1..Len(sentUnits)
    BY <1>1
  <2> QED BY <1>3, <2>1 DEF FirstMail
<1>5. IF N < n + 2 THEN u = <<1, N, n>> ELSE u[1] > 1
  <2>1. CASE N < n + 2
    <3>1. LastSent[1] = 1 /\ LastSent[2] = N - 1 /\ LastSent[3] = n
      BY <1>1, <1>4, <2>1
    <3>2. ~Finished
      <4>1. N - 1 # n + 1
        BY <1>1, <2>1
      <4> QED BY <1>3, <3>1, <4>1
    <3>3. LastSent[2] + 1 = N
      BY <1>1, <3>1
    <3> QED BY <1>2, <2>1, <3>1, <3>2, <3>3
  <2>2. CASE N = n + 2
    <3>1. LastSent[1] = 1 /\ LastSent[2] = n + 1 /\ LastSent[3] = n
      BY <1>1, <1>4, <2>2
    <3> QED BY <1>2, <1>3, <2>2, <3>1
  <2>3. CASE N > n + 2
    BY <1>1, <1>2, <1>4, <2>3
  <2> QED BY <1>1, <2>1, <2>2, <2>3
<1>6. Len(sentUnits') = N + 1 /\ sentUnits'[N + 1] = u /\ \A i \in 1..N : sentUnits'[i] = sentUnits[i]
  BY <1>1, <1>2
<1> HIDE DEF N
<1>7. ASSUME NEW i \in 1..(N + 1)
      PROVE  IF i <= n + 2 THEN sentUnits'[i] = <<1, i - 1, n>> ELSE sentUnits'[i][1] > 1
  <2>1. CASE i = N + 1
    <3>1. i <= n + 2 <=> N < n + 2
      BY <1>1, <2>1
    <3>2. i - 1 = N
      BY <1>1, <2>1
    <3> QED BY <1>5, <1>6, <2>1, <3>1, <3>2
  <2>2. CASE i # N + 1
    <3>1. i \in 1..Len(sentUnits) /\ i \in 1..N
      BY <1>1, <2>2 DEF N
    <3> QED BY <1>6, <3>1 DEF FirstMail
  <2> QED BY <2>1, <2>2
<1> DEFINE mail == [i \in 1..n |-> [name |-> 1, data |-> <<<<1, i, n>>>>, last |-> n + 2]]
<1>8. complete = IF N < n + 2 THEN <<>> ELSE mail
  BY DEF FirstMail, N
<1>9. CASE N + 1 < n + 2
  <2>1. u[1] = 1 /\ u[2] = N /\ u[3] = n /\ N # n + 1
    BY <1>1, <1>5, <1>9
  <2>2. Whole(sentUnits', u) = <<>>
    BY <2>1 DEF Whole
  <2>3. complete = <<>>
    BY <1>1, <1>8, <1>9
  <2>4. complete' = <<>>
    BY <1>1, <2>2, <2>3, ConcatEmptySeq
  <2> QED BY <1>7, <1>9, <2>4 DEF N
<1>10. CASE N + 1 = n + 2
  <2>1. u[1] = 1 /\ u[2] = n + 1 /\ u[3] = n /\ N = n + 1
    BY <1>1, <1>5, <1>10
  <2>2. Len(sentUnits') = n + 2
    BY <1>6, <1>10
  <2>3. Whole(sentUnits', u) = mail
    BY <2>1, <2>2 DEF Whole
  <2>4. complete = <<>>
    BY <1>1, <1>8, <1>10
  <2>5. mail \in Seq(Wholes)
    BY <1>1, <1>2, <2>3, WholeIs
  <2> HIDE DEF mail
  <2>6. complete' = mail
    BY <2>3, <2>4, <2>5, ConcatEmptySeq
  <2>7. ~(N + 1 < n + 2)
    BY <1>1, <1>10
  <2> QED BY <1>7, <2>6, <2>7 DEF N, mail
<1>11. CASE N + 1 > n + 2
  <2>1. u[1] > 1 /\ ~(N < n + 2)
    BY <1>1, <1>5, <1>11
  <2>2. Whole(sentUnits', u) = <<>>
    BY <1>2, <2>1 DEF Whole
  <2>3. complete' = complete
    BY <1>1, <2>2, ConcatEmptySeq
  <2>4. ~(N + 1 < n + 2)
    BY <1>1, <1>11
  <2> QED BY <1>7, <1>8, <2>1, <2>3, <2>4 DEF N
<1> QED BY <1>1, <1>9, <1>10, <1>11

\* SMTP: the first mail is taken apart when its last unit comes, and again with
\* every packet after it.
LEMMA SMTPKeeps ==
  ASSUME FilesTypeOK, Held, wire = "smtp", SMTPRight, NEW u \in NextUnits, NEW d, NEW r \in 0..2,
         SendPacket(u, d, r), losses' = 0
  PROVE  SMTPRight'
<1> DEFINE N == Len(sentUnits)
           c == Stream(0, <<u>>)
           n == sentUnits'[1][3]
<1>1. /\ u \in Units /\ sentUnits \in Seq(Units) /\ N \in Nat
      /\ sentUnits' = Append(sentUnits, u) /\ Len(sentUnits') = N + 1
      /\ sentUnits'[N + 1] = u /\ \A i \in 1..N : sentUnits'[i] = sentUnits[i]
      /\ complete' = complete \o Whole(sentUnits', u)
  BY SentOnce
<1>2. buffers' = [buffers EXCEPT ![0] = c] /\ Store(Mail(c))
  <2>1. ObserveSMTP(<<u>>)
    BY SentOnce DEF ObserveHTTP
  <2> QED BY <2>1 DEF ObserveSMTP
<1>3. 0 \in 0..MaxUnits
  BY FileExtractionAssumption
<1>4. buffers'[0] = c
  BY <1>2, <1>3 DEF FilesTypeOK
<1>5. extracted \in Seq(Files) /\ scans \in Seq(Nat) /\ complete \in Seq(Wholes)
  BY DEF FilesTypeOK, Files, Wholes
<1>6. /\ c = FirstOf(sentUnits', Limit) /\ c \in Seq(Units) /\ Len(c) \in Nat
      /\ Len(buffers[0]) <= Len(c) /\ Len(c) # 0 /\ Len(c) <= N + 1
      /\ \A i \in 1..Len(c) : c[i] = sentUnits'[i]
  BY <1>1, <1>3, BufferGrows DEF SMTPRight
<1> HIDE DEF c
<1>7. /\ n \in Nat
      /\ \A i \in 1..(N + 1) : IF i <= n + 2 THEN sentUnits'[i] = <<1, i - 1, n>> ELSE sentUnits'[i][1] > 1
      /\ complete' = IF N + 1 < n + 2 THEN <<>>
                     ELSE [i \in 1..n |-> [name |-> 1, data |-> <<<<1, i, n>>>>, last |-> n + 2]]
      /\ Len(buffers[0]) < n + 2 => Range(extracted) = {}
      /\ Range(extracted) \subseteq {MailFile(i, n) : i \in 1..n}
  <2>1. CASE sentUnits = <<>>
    <3>1. N = 0
      BY <2>1, EmptySeq
    <3>2. u = <<1, 0, u[3]>> /\ u[3] \in Nat
      BY <2>1, NextUnitIs DEF Finished
    <3>3. sentUnits'[1] = u
      BY <1>1, <3>1
    <3>4. complete = <<>> /\ extracted = <<>>
      BY <2>1 DEF SMTPRight
    <3>5. Whole(sentUnits', u) = <<>>
      <4>1. u[1] = 1 /\ u[2] = 0
        BY <3>2
      <4>2. u[2] # u[3] + 1
        BY <3>2, <4>1
      <4> QED BY <4>2, <1>3 DEF Whole
    <3>6. complete' = <<>>
      BY <1>1, <1>5, <3>4, <3>5, ConcatEmptySeq
    <3>7. Range(extracted) = {}
      BY <3>4 DEF Range
    <3>8. \A i \in 1..(N + 1) : i = 1
      BY <3>1
    <3>9. n \in Nat /\ N + 1 < n + 2 /\ 1 <= n + 2 /\ sentUnits'[1] = <<1, 1 - 1, n>>
      BY <3>1, <3>2, <3>3
    <3> QED BY <3>6, <3>7, <3>8, <3>9
  <2>2. CASE sentUnits # <<>>
    <3>1. N # 0 /\ 1 \in 1..N
      BY <1>1, <2>2, EmptySeq
    <3>2. n = sentUnits[1][3] /\ n \in Nat
      BY <1>1, <3>1, UnitsOf
    <3>3. FirstMail(n)
      BY <2>2, <3>2 DEF SMTPRight
    <3> HIDE DEF n
    <3>4. /\ \A i \in 1..(N + 1) : IF i <= n + 2 THEN sentUnits'[i] = <<1, i - 1, n>> ELSE sentUnits'[i][1] > 1
          /\ complete' = IF N + 1 < n + 2 THEN <<>>
                         ELSE [i \in 1..n |-> [name |-> 1, data |-> <<<<1, i, n>>>>, last |-> n + 2]]
      <4> USE DEF N
      <4> QED BY <1>1, <2>2, <3>2, <3>3, FirstMailGrows, SentOnce
    <3> QED BY <3>2, <3>3, <3>4 DEF FirstMail
  <2> QED BY <2>1, <2>2
<1> HIDE DEF n, N
<1> DEFINE mail == [i \in 1..n |-> MailFile(i, n)]
<1>8. Mail(c) = IF Len(c) < n + 2 THEN <<>> ELSE mail
  <2>1. \A i \in 1..Len(c) : i <= n + 2 => c[i] = <<1, i - 1, n>>
    <3>1. \A i \in 1..Len(c) : i \in 1..(N + 1)
      BY <1>1, <1>6 DEF N
    <3> QED BY <1>6, <1>7, <3>1
  <2> QED BY <1>6, <1>7, <2>1, MailOf
<1>9. Range(extracted') = IF Len(c) < n + 2 THEN {} ELSE {MailFile(i, n) : i \in 1..n}
  <2>1. CASE Len(c) < n + 2
    <3>1. extracted' = extracted
      BY <1>2, <1>5, <1>8, <2>1, StoreOf
    <3>2. Len(buffers[0]) < n + 2
      <4>1. Len(buffers[0]) \in Nat
        BY <1>3, LenProperties DEF FilesTypeOK
      <4> QED BY <1>6, <1>7, <2>1, <4>1
    <3> QED BY <1>7, <2>1, <3>1, <3>2
  <2>2. CASE ~(Len(c) < n + 2)
    <3>1. mail \in Seq(Files) /\ Len(mail) = n /\ \A i \in 1..n : Cut(mail[i].data) = mail[i].data
      BY <1>7, MailFilesAre
    <3>2. {mail[i] : i \in 1..n} = {MailFile(i, n) : i \in 1..n}
      OBVIOUS
    <3> HIDE DEF mail
    <3>3. Range(extracted') = Range(extracted) \union {mail[i] : i \in 1..n}
      BY <1>2, <1>5, <1>8, <2>2, <3>1, RangeOfStored
    <3> QED BY <1>7, <2>2, <3>2, <3>3
  <2> QED BY <2>1, <2>2
<1>10. sentUnits' # <<>>
  <2>1. Len(sentUnits') # 0
    BY <1>1 DEF N
  <2> QED BY <2>1, EmptySeq
<1>11. FirstMail(sentUnits[1][3])'
  <2>1. N + 1 = Len(sentUnits') /\ Len(c) = Len(buffers'[0]) /\ n = sentUnits'[1][3]
    BY <1>1, <1>4 DEF N, n
  <2> QED BY <1>7, <1>9, <2>1 DEF FirstMail
<1> QED BY <1>4, <1>6, <1>10, <1>11 DEF SMTPRight

-----------------------------------------------------------------------------
\* What a unit adds to what was asked for and to the data of its transfer or file.
LEMMA UnitSent ==
  ASSUME sentUnits \in Seq(Units), NEW u \in Units, sentUnits' = Append(sentUnits, u)
  PROVE  /\ sentUnits' \in Seq(Units) /\ Len(sentUnits') = Len(sentUnits) + 1 /\ Len(sentUnits) \in Nat
         /\ \A i \in 1..Len(sentUnits') : sentUnits'[i] = u \/ \E k \in 1..Len(sentUnits) : sentUnits'[i] = sentUnits[k]
         /\ \A m : DataSent(m) \in Nat
         /\ u[2] = 0 => Asked' = Asked \union {u[1]} /\ \A m : DataSent(m)' = DataSent(m)
         /\ u[2] > 0 => Asked' = Asked /\ \A m : DataSent(m)' = DataSent(m) + (IF m = u[1] THEN 1 ELSE 0)
         /\ \A m : Over(m)' <=> Over(m) \/ (u[1] = m /\ u[3] = 1)
<1> DEFINE N == Len(sentUnits)
           data(m) == {i \in 1..N : sentUnits[i][1] = m /\ sentUnits[i][2] > 0}
           more(m) == {i \in 1..(N + 1) : sentUnits'[i][1] = m /\ sentUnits'[i][2] > 0}
<1>1. N \in Nat /\ DOMAIN sentUnits = 1..N
  BY LenProperties
<1>2. /\ sentUnits' \in Seq(Units) /\ Len(sentUnits') = N + 1 /\ DOMAIN sentUnits' = 1..(N + 1)
      /\ sentUnits'[N + 1] = u /\ \A i \in 1..N : sentUnits'[i] = sentUnits[i]
  <2>1. /\ Append(sentUnits, u) \in Seq(Units) /\ Len(Append(sentUnits, u)) = N + 1
        /\ Append(sentUnits, u)[N + 1] = u /\ \A i \in 1..N : Append(sentUnits, u)[i] = sentUnits[i]
    BY <1>1
  <2> QED BY <2>1, LenProperties
<1>3. \A m : DataSent(m) = Cardinality(data(m)) /\ DataSent(m)' = Cardinality(more(m))
  BY <1>1, <1>2 DEF DataSent, DataOf
<1>4. u[1] \in Nat /\ u[2] \in Nat /\ u[3] \in Nat
  BY DEF Units
<1> HIDE DEF N
<1>5. \A m : IsFiniteSet(data(m)) /\ Cardinality(data(m)) \in Nat /\ N + 1 \notin data(m)
  <2> SUFFICES ASSUME NEW m PROVE IsFiniteSet(data(m)) /\ Cardinality(data(m)) \in Nat /\ N + 1 \notin data(m)
    OBVIOUS
  <2>1. IsFiniteSet(1..N)
    BY <1>1, FS_Interval
  <2>2. IsFiniteSet(data(m))
    BY <2>1, FS_Subset
  <2>3. N + 1 \notin data(m)
    BY <1>1
  <2> HIDE DEF data
  <2> QED BY <2>2, <2>3, FS_CardinalityType
<1>6. \A m : more(m) = data(m) \union {i \in {N + 1} : u[1] = m /\ u[2] > 0}
  <2> SUFFICES ASSUME NEW m PROVE more(m) = data(m) \union {i \in {N + 1} : u[1] = m /\ u[2] > 0}
    OBVIOUS
  <2>1. \A i \in 1..(N + 1) : i \in 1..N \/ i = N + 1
    BY <1>1
  <2>2. N + 1 \notin 1..N /\ N + 1 \in 1..(N + 1) /\ 1..N \subseteq 1..(N + 1)
    BY <1>1
  <2> QED BY <1>2, <2>1, <2>2
<1>7. \A m : Cardinality(more(m)) = Cardinality(data(m)) + (IF u[1] = m /\ u[2] > 0 THEN 1 ELSE 0)
  <2> SUFFICES ASSUME NEW m
               PROVE  Cardinality(more(m)) = Cardinality(data(m)) + (IF u[1] = m /\ u[2] > 0 THEN 1 ELSE 0)
    OBVIOUS
  <2>1. CASE u[1] = m /\ u[2] > 0
    <3>1. {i \in {N + 1} : u[1] = m /\ u[2] > 0} = {N + 1}
      BY <2>1
    <3>2. more(m) = data(m) \union {i \in {N + 1} : u[1] = m /\ u[2] > 0}
      BY <1>6
    <3> HIDE DEF more, data
    <3>3. more(m) = data(m) \union {N + 1}
      BY <3>1, <3>2
    <3>4. Cardinality(more(m)) = Cardinality(data(m)) + 1
      BY <1>5, <3>3, FS_AddElement
    <3> QED BY <2>1, <3>4
  <2>2. CASE ~(u[1] = m /\ u[2] > 0)
    <3>1. more(m) = data(m)
      BY <1>6, <2>2
    <3> HIDE DEF more, data
    <3> QED BY <1>5, <2>2, <3>1
  <2> QED BY <2>1, <2>2
<1> HIDE DEF data, more
<1>8. \A m : Over(m)' <=> Over(m) \/ (u[1] = m /\ u[3] = 1)
  <2> SUFFICES ASSUME NEW m PROVE Over(m)' <=> Over(m) \/ (u[1] = m /\ u[3] = 1)
    OBVIOUS
  <2>1. Over(m)' <=> \E i \in 1..(N + 1) : sentUnits'[i][1] = m /\ sentUnits'[i][3] = 1
    BY <1>2 DEF Over
  <2>2. Over(m) <=> \E i \in 1..N : sentUnits[i][1] = m /\ sentUnits[i][3] = 1
    BY DEF Over, N
  <2>3. \A i \in 1..(N + 1) : i \in 1..N \/ i = N + 1
    BY <1>1
  <2>4. N + 1 \in 1..(N + 1) /\ 1..N \subseteq 1..(N + 1)
    BY <1>1
  <2> QED BY <1>2, <2>1, <2>2, <2>3, <2>4
<1>9. Asked' = Asked \union {x \in {u[1]} : u[2] = 0}
  <2>1. Asked' = {sentUnits'[i][1] : i \in {j \in 1..(N + 1) : sentUnits'[j][2] = 0}}
    BY <1>2 DEF Asked
  <2>2. Asked = {sentUnits[i][1] : i \in {j \in 1..N : sentUnits[j][2] = 0}}
    BY DEF Asked, N
  <2>3. \A i \in 1..(N + 1) : i \in 1..N \/ i = N + 1
    BY <1>1
  <2>4. N + 1 \in 1..(N + 1) /\ 1..N \subseteq 1..(N + 1)
    BY <1>1
  <2> QED BY <1>2, <2>1, <2>2, <2>3, <2>4
<1>10. \A i \in 1..(N + 1) : sentUnits'[i] = u \/ \E k \in 1..N : sentUnits'[i] = sentUnits[k]
  <2>1. \A i \in 1..(N + 1) : i \in 1..N \/ i = N + 1
    BY <1>1
  <2> QED BY <1>2, <2>1
<1>11. u[2] = 0 => Asked' = Asked \union {u[1]} /\ \A m : DataSent(m)' = DataSent(m)
  <2> SUFFICES ASSUME u[2] = 0 PROVE Asked' = Asked \union {u[1]} /\ \A m : DataSent(m)' = DataSent(m)
    OBVIOUS
  <2>1. ~(u[2] > 0)
    OBVIOUS
  <2>2. \A m : DataSent(m)' = DataSent(m)
    BY <1>3, <1>5, <1>7, <2>1
  <2> QED BY <1>9, <2>2
<1>12. u[2] > 0 => Asked' = Asked /\ \A m : DataSent(m)' = DataSent(m) + (IF m = u[1] THEN 1 ELSE 0)
  <2> SUFFICES ASSUME u[2] > 0
               PROVE  Asked' = Asked /\ \A m : DataSent(m)' = DataSent(m) + (IF m = u[1] THEN 1 ELSE 0)
    OBVIOUS
  <2>1. u[2] # 0
    BY <1>4
  <2>2. \A m : DataSent(m)' = DataSent(m) + (IF m = u[1] THEN 1 ELSE 0)
    BY <1>3, <1>5, <1>7
  <2> QED BY <1>9, <2>1, <2>2
<1> QED BY <1>1, <1>2, <1>3, <1>5, <1>8, <1>10, <1>11, <1>12 DEF N

\* Units of what was asked for keep the numbers in order, and so does the next
\* transfer or file.
LEMMA AskedGrows ==
  ASSUME AskedInOrder, sentUnits \in Seq(Units), NEW u \in Units, sentUnits' = Append(sentUnits, u),
         \/ u[2] > 0 /\ u[1] \in Asked
         \/ u[2] = 0 /\ u[1] = Cardinality(Asked) + 1
  PROVE  AskedInOrder'
<1>1. \A i \in 1..Len(sentUnits') : sentUnits'[i] = u \/ \E k \in 1..Len(sentUnits) : sentUnits'[i] = sentUnits[k]
  BY UnitSent
<1>2. CASE u[2] > 0 /\ u[1] \in Asked
  <2>1. Asked' = Asked
    BY <1>2, UnitSent
  <2> QED BY <1>1, <1>2, <2>1 DEF AskedInOrder
<1>3. CASE u[2] = 0 /\ u[1] = Cardinality(Asked) + 1
  <2> DEFINE C == Cardinality(Asked)
  <2>1. C \in Nat /\ IsFiniteSet(Asked) /\ Asked = 1..C
    BY FS_CardinalityType DEF AskedInOrder
  <2>2. Asked' = Asked \union {C + 1}
    BY <1>3, UnitSent
  <2> HIDE DEF C
  <2>3. Asked' = 1..(C + 1)
    BY <2>1, <2>2
  <2>4. IsFiniteSet(Asked') /\ Cardinality(Asked') = C + 1
    <3>1. IsFiniteSet(1..(C + 1)) /\ Cardinality(1..(C + 1)) = C + 1
      <4>1. 1 \in Int /\ C + 1 \in Int /\ C + 1 - 1 + 1 = C + 1 /\ ~(1 > C + 1)
        BY <2>1
      <4>2. Cardinality(1..(C + 1)) = IF 1 > C + 1 THEN 0 ELSE C + 1 - 1 + 1
        BY <4>1, FS_Interval
      <4> QED BY <4>1, <4>2, FS_Interval
    <3> QED BY <2>3, <3>1
  <2>5. u[1] = C + 1
    BY <1>3 DEF C
  <2>6. \A i \in 1..Len(sentUnits') : sentUnits'[i][1] \in Asked'
    BY <1>1, <2>2, <2>5 DEF AskedInOrder
  <2> QED BY <2>3, <2>4, <2>6 DEF AskedInOrder
<1> QED BY <1>2, <1>3

\* Of what was not asked for nothing was sent.
LEMMA NotAskedNotSent ==
  ASSUME AskedInOrder, sentUnits \in Seq(Units), NEW m, m \notin Asked
  PROVE  DataSent(m) = 0 /\ ~Over(m)
<1>1. \A i \in DOMAIN sentUnits : sentUnits[i][1] # m
  BY LenProperties DEF AskedInOrder
<1>2. {i \in DOMAIN sentUnits : sentUnits[i][1] = m /\ sentUnits[i][2] > 0} = {}
  BY <1>1
<1>3. DataSent(m) = 0
  BY <1>2, FS_EmptySet DEF DataSent, DataOf
<1>4. ~Over(m)
  BY <1>1, LenProperties DEF Over
<1> QED BY <1>3, <1>4

\* A file is its units in order; the buffer's cut and the artifact's are one.
LEMMA FileGrows ==
  ASSUME NEW m \in Nat, NEW n \in Nat, NEW fin \in {0, 1}
  PROVE  /\ FileOf(m, n, fin) \in Seq(Units) /\ Len(FileOf(m, n, fin)) = n
         /\ FileOf(m, n + 1, fin) = Append(FileOf(m, n, 0), <<m, n + 1, fin>>)
<1>1. ASSUME NEW k \in Nat, NEW x \in {0, 1}
      PROVE  FileOf(m, k, x) \in Seq(Units) /\ Len(FileOf(m, k, x)) = k
             /\ \A i \in 1..k : FileOf(m, k, x)[i] = <<m, i, IF i = k THEN x ELSE 0>>
  <2>1. FileOf(m, k, x) \in [1..k -> Units] /\ Len(FileOf(m, k, x)) = k
    BY DEF FileOf, Units
  <2> QED BY <2>1, SeqDef DEF FileOf
<1> DEFINE s == FileOf(m, n, 0)
           t == FileOf(m, n + 1, fin)
           u == <<m, n + 1, fin>>
<1>2. u \in Units
  BY DEF Units
<1>3. s \in Seq(Units) /\ Len(s) = n /\ \A i \in 1..n : s[i] = <<m, i, 0>>
  BY <1>1
<1>4. t \in Seq(Units) /\ Len(t) = n + 1 /\ \A i \in 1..(n + 1) : t[i] = <<m, i, IF i = n + 1 THEN fin ELSE 0>>
  <2>1. n + 1 \in Nat
    OBVIOUS
  <2> QED BY <1>1, <2>1
<1> HIDE DEF s, t
<1>5. \A i \in 1..(n + 1) : t[i] = Append(s, u)[i]
  <2> SUFFICES ASSUME NEW i \in 1..(n + 1) PROVE t[i] = Append(s, u)[i]
    OBVIOUS
  <2>1. CASE i = n + 1
    <3>1. Append(s, u)[Len(s) + 1] = u
      BY <1>2, <1>3
    <3> QED BY <1>3, <1>4, <2>1, <3>1
  <2>2. CASE i # n + 1
    <3>1. i \in 1..n /\ i \in 1..Len(s)
      BY <1>3, <2>2
    <3>2. Append(s, u)[i] = s[i]
      BY <1>2, <1>3, <3>1
    <3> QED BY <1>3, <1>4, <2>2, <3>1, <3>2
  <2> QED BY <2>1, <2>2
<1>6. Append(s, u) \in Seq(Units) /\ Len(Append(s, u)) = n + 1
  BY <1>2, <1>3
<1>7. t = Append(s, u)
  BY <1>4, <1>5, <1>6, SeqEqual
<1> QED BY <1>1, <1>7 DEF s, t

\* A buffer is longer than an artifact: cutting the one cuts the other.
LEMMA CutOfBeginning ==
  ASSUME NEW s \in Seq(Units)
  PROVE  Cut(FirstOf(s, Limit)) = Cut(s)
<1> DEFINE b == FirstOf(s, Limit)
           x == FirstOf(b, MaxFileBytes)
           y == FirstOf(s, MaxFileBytes)
<1>1. MaxFileBytes \in Nat /\ Limit \in Nat /\ Limit > MaxFileBytes /\ Len(s) \in Nat
  BY LimitIs, LenProperties
<1>2. /\ b \in Seq(Units) /\ Len(b) = (IF Len(s) > Limit THEN Limit ELSE Len(s))
      /\ \A i \in 1..Len(b) : b[i] = s[i]
  BY <1>1, BeginningOf
<1> HIDE DEF b
<1>3. /\ x \in Seq(Units) /\ Len(x) = (IF Len(b) > MaxFileBytes THEN MaxFileBytes ELSE Len(b))
      /\ \A i \in 1..Len(x) : x[i] = b[i]
  BY <1>1, <1>2, BeginningOf
<1>4. /\ y \in Seq(Units) /\ Len(y) = (IF Len(s) > MaxFileBytes THEN MaxFileBytes ELSE Len(s))
      /\ \A i \in 1..Len(y) : y[i] = s[i]
  BY <1>1, BeginningOf
<1> HIDE DEF x, y
<1>5. Len(x) = Len(y) /\ Len(x) <= Len(b)
  BY <1>1, <1>2, <1>3, <1>4
<1>6. \A i \in 1..Len(x) : x[i] = y[i]
  <2>1. \A i \in 1..Len(x) : i \in 1..Len(b)
    BY <1>1, <1>2, <1>5
  <2> QED BY <1>2, <1>3, <1>4, <1>5, <2>1
<1>7. x = y
  BY <1>3, <1>4, <1>5, <1>6, SeqEqual
<1> QED BY <1>7 DEF Cut, b, x, y

\* The units of data that were sent are so many.
LEMMA DataIsCounted ==
  ASSUME sentUnits \in Seq(Units), NEW m
  PROVE  DataSent(m) \in Nat
<1>1. Len(sentUnits) \in Nat /\ DOMAIN sentUnits = 1..Len(sentUnits)
  BY LenProperties
<1>2. IsFiniteSet(1..Len(sentUnits))
  BY <1>1, FS_Interval
<1>3. {i \in DOMAIN sentUnits : sentUnits[i][1] = m /\ sentUnits[i][2] > 0} \subseteq 1..Len(sentUnits)
  BY <1>1
<1> QED BY <1>2, <1>3, FS_Subset, FS_CardinalityType DEF DataSent, DataOf

-----------------------------------------------------------------------------
\* What stays as it was is still in order.
LEMMA NoneCompleted ==
  ASSUME FilesTypeOK, FirstOnes, NoneTooLate, extracted' = extracted, complete' = complete,
         Len(sentUnits) \in Nat, Len(sentUnits') \in Nat, Len(sentUnits) <= Len(sentUnits')
  PROVE  FirstOnes' /\ NoneTooLate'
<1>1. FirstOnes'
  BY NothingCompleted
<1>2. NoneTooLate'
  BY DEF NoneTooLate
<1> QED BY <1>1, <1>2

\* A file that is completed and stored is the next one.
LEMMA TransferCompleted ==
  ASSUME FilesTypeOK, FirstOnes, NoneTooLate, NEW m \in Nat, NEW whole \in Seq(Units), NEW got \in Seq(Units),
         complete' = complete \o <<[name |-> m, data |-> Cut(whole), last |-> 0]>>,
         Store(<<[name |-> m, data |-> got]>>), Cut(got) = Cut(whole),
         Len(sentUnits) \in Nat, Len(sentUnits') \in Nat, Len(sentUnits) <= Len(sentUnits')
  PROVE  /\ FirstOnes' /\ NoneTooLate'
         /\ extracted' \in Seq(Files) /\ scans' \in Seq(Nat) /\ complete' \in Seq(Wholes)
<1> DEFINE c == [name |-> m, data |-> Cut(whole), last |-> 0]
           x == [name |-> m, data |-> got]
<1>1. extracted \in Seq(Files) /\ scans \in Seq(Nat) /\ complete \in Seq(Wholes) /\ Len(complete) \in Nat
  BY LenProperties DEF FilesTypeOK, Files, Wholes
<1>2. Cut(whole) \in Seq(Units)
  BY LimitIs, BeginningOf DEF Cut
<1>3. c \in Wholes /\ x \in Files /\ c.last = 0 /\ Transferred(c) = [name |-> x.name, data |-> Cut(x.data)]
  BY <1>2 DEF Wholes, Files, Transferred
<1>4. complete' = complete \o <<c>> /\ Store(<<x>>)
  OBVIOUS
<1> HIDE DEF c, x
<1>5. /\ extracted' \in Seq(Files) /\ scans' \in Seq(Nat) /\ Len(extracted') = Len(extracted) + 1
      /\ \A i \in 1..Len(extracted) : extracted'[i] = extracted[i]
      /\ extracted'[Len(extracted) + 1] = Transferred(c)
  BY <1>1, <1>3, <1>4, StoreOf
<1>6. \A i \in 1..Len(complete) : complete[i].last <= Limit
  BY LimitIs DEF NoneTooLate
<1>7. FirstOnes'
  <2>1. c.last <= Limit /\ c.last <= Len(sentUnits')
    BY <1>3, LimitIs
  <2> QED BY <1>3, <1>4, <1>5, <1>6, <2>1, OneCompleted
<1>8. complete' \in Seq(Wholes) /\ NoneTooLate'
  <2>1. /\ complete \o <<c>> \in Seq(Wholes) /\ Len(complete \o <<c>>) = Len(complete) + 1
        /\ \A i \in 1..Len(complete) : (complete \o <<c>>)[i] = complete[i]
        /\ (complete \o <<c>>)[Len(complete) + 1] = c
    BY <1>1, <1>3
  <2>2. \A i \in 1..(Len(complete) + 1) : i \in 1..Len(complete) \/ i = Len(complete) + 1
    BY <1>1
  <2> QED BY <1>3, <1>4, <2>1, <2>2 DEF NoneTooLate
<1> QED BY <1>5, <1>7, <1>8

\* FTP: a transfer that is asked for has an empty buffer.
LEMMA FTPControlKeeps ==
  ASSUME FilesTypeOK, Held, AskedInOrder, FirstOnes, NoneTooLate, FTPRight,
         NEW m \in Transfers, FTPControl(m)
  PROVE  FilesTypeOK' /\ Held' /\ AskedInOrder' /\ FirstOnes' /\ NoneTooLate' /\ FTPRight'
<1> DEFINE u == <<m, 0, 0>>
<1>1. MaxUnits \in Nat /\ m \in Nat /\ m \in 0..MaxUnits
  BY FileExtractionAssumption DEF Transfers
<1>2. u \in Units /\ u[1] = m /\ u[2] = 0 /\ u[3] = 0
  BY <1>1 DEF Units
<1>3. sentUnits \in Seq(Units)
  BY DEF FilesTypeOK
<1>4. /\ sentUnits' = Append(sentUnits, u) /\ ftpSession' = [port |-> m, file |-> m]
      /\ dataPorts' = dataPorts \union {m} /\ m = Cardinality(Asked) + 1 /\ \A k \in Asked : Over(k)
      /\ UNCHANGED <<wire, buffers, parsed, smb, extracted, complete, losses, evidence, scans, scanning, updates>>
  BY DEF FTPControl, tracks
<1> HIDE DEF u
<1>5. /\ sentUnits' \in Seq(Units) /\ Len(sentUnits') = Len(sentUnits) + 1 /\ Len(sentUnits) \in Nat
      /\ Asked' = Asked \union {m} /\ \A k : DataSent(k)' = DataSent(k)
      /\ \A k : Over(k)' <=> Over(k)
  BY <1>2, <1>3, <1>4, UnitSent
<1>6. AskedInOrder'
  BY <1>2, <1>3, <1>4, AskedGrows
<1>7. FirstOnes' /\ NoneTooLate'
  BY <1>4, <1>5, NoneCompleted
<1>8. FilesTypeOK'
  BY <1>1, <1>4, <1>5 DEF FilesTypeOK
<1>9. Held'
  BY <1>4 DEF Held
<1>10. m \notin Asked /\ DataSent(m) = 0
  <2>1. Cardinality(Asked) \in Nat /\ Asked = 1..Cardinality(Asked)
    BY FS_CardinalityType DEF AskedInOrder
  <2>2. m \notin Asked
    BY <1>4, <2>1
  <2> QED BY <1>3, <2>2, NotAskedNotSent
<1>11. FTPRight'
  <2>1. \A k \in Asked' : k <= MaxUnits
    BY <1>1, <1>5 DEF FTPRight
  <2>2. ASSUME NEW k \in Asked', ~Over(k)'
        PROVE  k = ftpSession'.file /\ k \in dataPorts' /\ buffers'[k] = FirstOf(FileOf(k, DataSent(k)', 0), Limit)
    <3>1. k = m
      BY <1>4, <1>5, <2>2
    <3>2. buffers[m] = <<>>
      BY <1>10 DEF FTPRight
    <3>3. FileOf(m, 0, 0) \in Seq(Units) /\ Len(FileOf(m, 0, 0)) = 0
      BY <1>1, FileGrows
    <3>4. FileOf(m, 0, 0) = <<>>
      BY <3>3, EmptySeq
    <3>5. FirstOf(<<>>, Limit) = <<>>
      <4>1. <<>> \in Seq(Units) /\ Len(<<>>) = 0
        BY EmptySeq
      <4> QED BY <4>1, LimitIs DEF FirstOf
    <3> QED BY <1>4, <1>5, <1>10, <3>1, <3>2, <3>4, <3>5
  <2>3. \A k \in Transfers \ Asked' : buffers'[k] = <<>>
    BY <1>4, <1>5 DEF FTPRight
  <2> QED BY <2>1, <2>2, <2>3 DEF FTPRight, Transfers
<1> QED BY <1>6, <1>7, <1>8, <1>9, <1>11

\* FTP: the buffer of the transfer at work is the beginning of its file; when it
\* ends, the artifact is what the file is cut to.
LEMMA FTPDataKeeps ==
  ASSUME FilesTypeOK, Held, AskedInOrder, FirstOnes, NoneTooLate, FTPRight,
         NEW m \in Transfers, NEW fin \in {0, 1}, FTPData(m, fin)
  PROVE  FilesTypeOK' /\ Held' /\ AskedInOrder' /\ FirstOnes' /\ NoneTooLate' /\ FTPRight'
<1> DEFINE n == DataSent(m) + 1
           u == <<m, n, fin>>
           b == Stream(m, <<u>>)
           new == IF fin = 1 THEN <<>> ELSE b
<1>1. MaxUnits \in Nat /\ m \in Nat /\ m \in 0..MaxUnits /\ fin \in Nat
  BY FileExtractionAssumption DEF Transfers
<1>2. sentUnits \in Seq(Units) /\ Len(sentUnits) \in Nat
  BY LenProperties DEF FilesTypeOK
<1>3. DataSent(m) \in Nat /\ n \in Nat /\ n > 0
  BY <1>2, DataIsCounted
<1>4. /\ m \in Asked /\ ~Over(m) /\ sentUnits' = Append(sentUnits, u) /\ evidence' = evidence \union {u}
      /\ complete' = complete \o (IF fin = 1 THEN <<[name |-> m, data |-> Cut(FileOf(m, n, 1)), last |-> 0]>>
                                  ELSE <<>>)
      /\ UNCHANGED <<wire, parsed, ftpSession, dataPorts, smb, losses, scanning, updates>>
  BY DEF FTPData, tracks
<1>5. m = ftpSession.file /\ m \in dataPorts /\ buffers[m] = FirstOf(FileOf(m, DataSent(m), 0), Limit)
  BY <1>4 DEF FTPRight
<1>6. /\ buffers' = [buffers EXCEPT ![m] = new]
      /\ Store(IF fin = 1 THEN <<[name |-> m, data |-> b]>> ELSE <<>>)
  BY <1>5 DEF FTPData
<1>7. u \in Units /\ u[1] = m /\ u[2] = n /\ u[3] = fin
  BY <1>1, <1>3 DEF Units
<1> HIDE DEF u
<1>8. /\ FileOf(m, DataSent(m), 0) \in Seq(Units) /\ FileOf(m, n, fin) \in Seq(Units)
      /\ FileOf(m, n, fin) = Append(FileOf(m, DataSent(m), 0), u)
  BY <1>1, <1>3, FileGrows DEF u
<1> HIDE DEF n
<1>9. /\ b = FirstOf(FileOf(m, n, fin), Limit) /\ b \in Seq(Units) /\ Len(b) \in Nat /\ Len(b) <= Limit
      /\ Len(b) # 0
  BY <1>1, <1>5, <1>7, <1>8, BufferGrows
<1>10. Range(b) \subseteq evidence'
  <2>1. <<u>> \in Seq(Units) /\ Range(<<u>>) = {u}
    <3>1. <<u>> \in Seq(Units) /\ DOMAIN <<u>> = {1} /\ <<u>>[1] = u
      BY <1>7
    <3> QED BY <3>1 DEF Range
  <2>2. Len(<<u>>) > 0 /\ Range(buffers[m]) \subseteq evidence /\ Len(buffers[m]) <= Limit
    BY <1>1 DEF Held
  <2> QED BY <1>1, <1>4, <2>1, <2>2, StreamGrows
<1> HIDE DEF b
<1>11. /\ sentUnits' \in Seq(Units) /\ Len(sentUnits') = Len(sentUnits) + 1
       /\ Asked' = Asked /\ \A k : DataSent(k)' = DataSent(k) + (IF k = m THEN 1 ELSE 0)
       /\ \A k : Over(k)' <=> Over(k) \/ (m = k /\ fin = 1)
  BY <1>2, <1>3, <1>4, <1>7, UnitSent
<1>12. AskedInOrder'
  BY <1>2, <1>3, <1>4, <1>7, AskedGrows
<1>13. Len(sentUnits') \in Nat /\ Len(sentUnits) <= Len(sentUnits')
  BY <1>2, <1>11
<1>14. /\ FirstOnes' /\ NoneTooLate'
       /\ extracted' \in Seq(Files) /\ scans' \in Seq(Nat) /\ complete' \in Seq(Wholes)
       /\ \A i \in 1..Len(extracted') : Range(extracted'[i].data) \subseteq evidence'
  <2>1. extracted \in Seq(Files) /\ scans \in Seq(Nat) /\ complete \in Seq(Wholes)
    BY DEF FilesTypeOK, Files, Wholes
  <2>2. CASE fin = 1
    <3>1. Cut(b) = Cut(FileOf(m, n, 1))
      BY <1>8, <1>9, <2>2, CutOfBeginning
    <3>2. /\ complete' = complete \o <<[name |-> m, data |-> Cut(FileOf(m, n, 1)), last |-> 0]>>
          /\ Store(<<[name |-> m, data |-> b]>>) /\ FileOf(m, n, 1) \in Seq(Units)
      BY <1>4, <1>6, <1>8, <2>2
    <3>3. /\ FirstOnes' /\ NoneTooLate'
          /\ extracted' \in Seq(Files) /\ scans' \in Seq(Nat) /\ complete' \in Seq(Wholes)
      BY <1>1, <1>2, <1>9, <1>13, <3>1, <3>2, TransferCompleted
    <3> DEFINE x == [name |-> m, data |-> b]
    <3>4. x \in Files /\ x.data = b
      BY <1>1, <1>9 DEF Files
    <3> HIDE DEF x
    <3>5. <<x>> \in Seq(Files) /\ \A i \in 1..Len(<<x>>) : <<x>>[i] = x
      BY <3>4
    <3>6. \A i \in 1..Len(extracted') : Range(extracted'[i].data) \subseteq evidence'
      <4>1. Store(<<x>>)
        BY <3>2 DEF x
      <4>2. \A i \in 1..Len(<<x>>) : Range(<<x>>[i].data) \subseteq evidence'
        BY <1>10, <3>4, <3>5
      <4> QED BY <1>4, <2>1, <3>5, <4>1, <4>2, StoredWasKept
    <3> QED BY <3>3, <3>6
  <2>3. CASE fin # 1
    <3>1. Store(<<>>) /\ complete' = complete \o <<>>
      BY <1>4, <1>6, <2>3
    <3>2. extracted' = extracted /\ scans' \in Seq(Nat)
      BY <2>1, <3>1, StoreOf
    <3>3. complete' = complete
      BY <2>1, <3>1
    <3>4. FirstOnes' /\ NoneTooLate'
      BY <1>2, <1>13, <3>2, <3>3, NoneCompleted
    <3> QED BY <1>4, <2>1, <3>2, <3>3, <3>4 DEF Held
  <2> QED BY <2>2, <2>3
<1>15. /\ new \in Seq(Units) /\ Len(new) <= Limit /\ Range(new) \subseteq evidence'
       /\ \A k \in 0..MaxUnits : buffers'[k] = IF k = m THEN new ELSE buffers[k]
  <2>1. <<>> \in Seq(Units) /\ Len(<<>>) = 0 /\ Range(<<>>) = {}
    BY EmptySeq DEF Range
  <2>2. new \in Seq(Units) /\ Len(new) <= Limit /\ Range(new) \subseteq evidence'
    BY <1>9, <1>10, <2>1, LimitIs
  <2> HIDE DEF new
  <2> QED BY <1>1, <1>6, <2>2 DEF FilesTypeOK
<1>16. FilesTypeOK'
  <2> HIDE DEF new
  <2>1. buffers' \in [0..MaxUnits -> Seq(Units)]
    BY <1>1, <1>6, <1>15 DEF FilesTypeOK
  <2> QED BY <1>4, <1>11, <1>14, <2>1 DEF FilesTypeOK, Files, Wholes
<1>17. Held'
  <2> HIDE DEF new
  <2>1. \A k \in 0..MaxUnits : Len(buffers'[k]) <= Limit /\ Range(buffers'[k]) \subseteq evidence'
    BY <1>4, <1>15 DEF Held
  <2>2. \A f \in Fids : Range(smb'.data[f]) \subseteq evidence'
    BY <1>4 DEF Held
  <2>3. buffers'[0] = buffers[0]
    BY <1>1, <1>15 DEF Transfers
  <2>4. wire' = "http" => parsed' <= Len(buffers'[0])
    BY <1>4, <2>3 DEF Held
  <2> QED BY <1>14, <2>1, <2>2, <2>4 DEF Held
<1>18. FTPRight'
  <2>1. \A k \in Asked' : k <= MaxUnits
    BY <1>11 DEF FTPRight
  <2>2. ASSUME NEW k \in Asked', ~Over(k)'
        PROVE  k = ftpSession'.file /\ k \in dataPorts' /\ buffers'[k] = FirstOf(FileOf(k, DataSent(k)', 0), Limit)
    <3>1. k = m /\ fin # 1 /\ fin = 0
      BY <1>5, <1>11, <2>2 DEF FTPRight
    <3>2. DataSent(k)' = n /\ new = b
      BY <1>11, <3>1 DEF n
    <3> HIDE DEF new
    <3> QED BY <1>1, <1>4, <1>5, <1>9, <1>15, <3>1, <3>2
  <2>3. \A k \in Transfers \ Asked' : buffers'[k] = <<>>
    <3>1. \A k \in Transfers \ Asked' : k \in 0..MaxUnits /\ k # m
      BY <1>1, <1>4, <1>11 DEF Transfers
    <3> QED BY <1>11, <1>15, <3>1 DEF FTPRight
  <2> QED BY <2>1, <2>2, <2>3 DEF FTPRight, Transfers
<1> QED BY <1>12, <1>14, <1>16, <1>17, <1>18

-----------------------------------------------------------------------------
\* What a file is cut to: once is enough, whenever it is done.
LEMMA CutAgain ==
  ASSUME NEW s \in Seq(Units)
  PROVE  /\ Cut(s) \in Seq(Units) /\ Cut(Cut(s)) = Cut(s) /\ (Cut(s) = <<>> <=> Len(s) = 0)
         /\ \A u \in Units : /\ Cut(Append(Cut(s), u)) = Cut(Append(s, u))
                             /\ Range(Cut(Append(s, u))) \subseteq Range(s) \union {u}
<1> DEFINE c == FirstOf(s, MaxFileBytes)
<1>1. MaxFileBytes \in Nat /\ MaxFileBytes > 0 /\ Len(s) \in Nat
  BY LimitIs, LenProperties
<1>2. c \in Seq(Units) /\ Len(c) = (IF Len(s) > MaxFileBytes THEN MaxFileBytes ELSE Len(s))
  BY <1>1, BeginningOf
<1>3. FirstOf(c, MaxFileBytes) = c
  <2> HIDE DEF c
  <2>1. Len(c) <= MaxFileBytes
    BY <1>1, <1>2
  <2> QED BY <1>1, <1>2, <2>1, BeginningOf
<1>4. c = <<>> <=> Len(s) = 0
  <2> HIDE DEF c
  <2>1. c = <<>> <=> Len(c) = 0
    BY <1>2, EmptySeq
  <2> QED BY <1>1, <1>2, <2>1
<1>5. ASSUME NEW u \in Units
      PROVE  /\ FirstOf(Append(c, u), MaxFileBytes) = FirstOf(Append(s, u), MaxFileBytes)
             /\ Range(FirstOf(Append(s, u), MaxFileBytes)) \subseteq Range(s) \union {u}
  <2> DEFINE again(t) == IF Len(t) < MaxFileBytes
                         THEN FirstOf(t, MaxFileBytes) = t /\ FirstOf(Append(t, u), MaxFileBytes) = Append(t, u)
                         ELSE /\ Len(FirstOf(t, MaxFileBytes)) = MaxFileBytes
                              /\ FirstOf(Append(t, u), MaxFileBytes) = FirstOf(t, MaxFileBytes)
  <2>1. again(s)
    BY <1>1, BeginningGrows
  <2>2. again(c)
    <3> HIDE DEF c
    <3> QED BY <1>1, <1>2, BeginningGrows
  <2>3. FirstOf(Append(c, u), MaxFileBytes) = FirstOf(Append(s, u), MaxFileBytes)
    <3>1. CASE Len(s) < MaxFileBytes
      BY <1>1, <3>1 DEF FirstOf
    <3>2. CASE ~(Len(s) < MaxFileBytes)
      <4>1. FirstOf(Append(s, u), MaxFileBytes) = c /\ Len(c) = MaxFileBytes
        BY <2>1, <3>2
      <4>2. FirstOf(Append(c, u), MaxFileBytes) = FirstOf(c, MaxFileBytes)
        <5> HIDE DEF c
        <5> QED BY <1>1, <2>2, <4>1
      <4> QED BY <1>3, <4>1, <4>2
    <3> QED BY <3>1, <3>2
  <2>4. Append(s, u) \in Seq(Units) /\ Range(Append(s, u)) = Range(s) \union {u}
    <3>1. /\ Append(s, u) \in Seq(Units) /\ Len(Append(s, u)) = Len(s) + 1
          /\ Append(s, u)[Len(s) + 1] = u /\ \A i \in 1..Len(s) : Append(s, u)[i] = s[i]
      OBVIOUS
    <3>2. DOMAIN s = 1..Len(s) /\ DOMAIN Append(s, u) = 1..(Len(s) + 1)
      BY <3>1, LenProperties
    <3>3. \A i \in 1..(Len(s) + 1) : i \in 1..Len(s) \/ i = Len(s) + 1
      BY <1>1
    <3>4. 1..Len(s) \subseteq 1..(Len(s) + 1) /\ Len(s) + 1 \in 1..(Len(s) + 1)
      BY <1>1
    <3> QED BY <3>1, <3>2, <3>3, <3>4 DEF Range
  <2>5. Range(FirstOf(Append(s, u), MaxFileBytes)) \subseteq Range(Append(s, u))
    BY <1>1, <2>4, BeginningOf
  <2> QED BY <2>3, <2>4, <2>5
<1> QED BY <1>2, <1>3, <1>4, <1>5 DEF Cut

\* SMB: a file that is created, and its id, which leads to nothing yet.
LEMMA SMBCreateKeeps ==
  ASSUME FilesTypeOK, Held, AskedInOrder, FirstOnes, NoneTooLate, SMBRight,
         NEW m \in Transfers, SMBCreate(m), UNCHANGED <<wire, buffers, parsed, ftpSession, dataPorts, losses, tracks>>
  PROVE  FilesTypeOK' /\ Held' /\ AskedInOrder' /\ FirstOnes' /\ NoneTooLate' /\ SMBRight'
<1> DEFINE u == <<m, 0, 0>>
<1>1. m \in Nat /\ m # NoFile
  BY FileExtractionAssumption DEF Transfers, NoFile
<1>2. u \in Units /\ u[1] = m /\ u[2] = 0 /\ u[3] = 0
  BY <1>1 DEF Units
<1>3. sentUnits \in Seq(Units)
  BY DEF FilesTypeOK
<1>4. /\ sentUnits' = Append(sentUnits, u) /\ m = Cardinality(Asked) + 1
      /\ smb' = [smb EXCEPT !.pending = m]
      /\ UNCHANGED <<wire, buffers, parsed, ftpSession, extracted, complete, losses, evidence, scans, scanning, updates>>
  BY DEF SMBCreate, tracks
<1> HIDE DEF u
<1>5. /\ sentUnits' \in Seq(Units) /\ Len(sentUnits') = Len(sentUnits) + 1 /\ Len(sentUnits) \in Nat
      /\ Asked' = Asked \union {m} /\ \A k : DataOf(k, sentUnits') = DataOf(k, sentUnits)
  BY <1>2, <1>3, <1>4, UnitSent DEF DataSent
<1>6. AskedInOrder'
  BY <1>2, <1>3, <1>4, AskedGrows
<1>7. FirstOnes' /\ NoneTooLate'
  BY <1>4, <1>5, NoneCompleted
<1>8. /\ smb' \in [pending : Nat, open : [Fids -> Nat], data : [Fids -> Seq(Units)]]
      /\ smb'.pending = m /\ smb'.open = smb.open /\ smb'.data = smb.data
  BY <1>1, <1>4 DEF FilesTypeOK
<1>9. FilesTypeOK'
  BY <1>4, <1>5, <1>8 DEF FilesTypeOK
<1>10. Held'
  BY <1>4, <1>8 DEF Held
<1>11. m \notin Asked /\ DataOf(m, sentUnits) = 0
  <2>1. Cardinality(Asked) \in Nat /\ Asked = 1..Cardinality(Asked)
    BY FS_CardinalityType DEF AskedInOrder
  <2>2. m \notin Asked
    BY <1>4, <2>1
  <2> QED BY <1>3, <2>2, NotAskedNotSent DEF DataSent
<1>12. SMBRight'
  <2>1. smb'.pending \in Asked' \union {NoFile} /\ \A f \in Fids : smb'.open[f] \in Asked' \union {NoFile}
    BY <1>5, <1>8 DEF SMBRight, DataSent
  <2>2. DataOf(smb'.pending, sentUnits') = 0 /\ \A f \in Fids : smb'.open[f] # smb'.pending
    BY <1>1, <1>5, <1>8, <1>11 DEF SMBRight, DataSent
  <2>3. \A f, g \in Fids : smb'.open[f] = smb'.open[g] /\ smb'.open[f] # NoFile => f = g
    BY <1>8 DEF SMBRight, DataSent
  <2>4. \A f \in Fids : smb'.data[f] =
          IF smb'.open[f] = NoFile THEN <<>> ELSE Cut(FileOf(smb'.open[f], DataOf(smb'.open[f], sentUnits'), 0))
    BY <1>5, <1>8 DEF SMBRight, DataSent
  <2> QED BY <1>8, <2>1, <2>2, <2>3, <2>4 DEF SMBRight, DataSent
<1> QED BY <1>6, <1>7, <1>9, <1>10, <1>12

\* SMB: the id a file is given was free, so it leads to this file alone.
LEMMA SMBCreatedKeeps ==
  ASSUME FilesTypeOK, Held, AskedInOrder, FirstOnes, NoneTooLate, SMBRight,
         NEW f \in Fids, SMBCreated(f), UNCHANGED <<wire, buffers, parsed, ftpSession, dataPorts, losses, tracks>>
  PROVE  FilesTypeOK' /\ Held' /\ AskedInOrder' /\ FirstOnes' /\ NoneTooLate' /\ SMBRight'
<1>1. /\ smb.pending # NoFile /\ smb.open[f] = NoFile
      /\ smb' = [smb EXCEPT !.pending = NoFile, !.open[f] = smb.pending]
      /\ UNCHANGED <<wire, sentUnits, buffers, parsed, ftpSession, extracted, complete, losses, evidence, scans,
                     scanning, updates>>
  BY DEF SMBCreated, OpenFids, tracks
<1>2. /\ smb' \in [pending : Nat, open : [Fids -> Nat], data : [Fids -> Seq(Units)]]
      /\ smb'.pending = NoFile /\ smb'.data = smb.data
      /\ \A g \in Fids : smb'.open[g] = IF g = f THEN smb.pending ELSE smb.open[g]
  BY <1>1 DEF FilesTypeOK, NoFile
<1>3. Asked' = Asked /\ \A k : DataOf(k, sentUnits') = DataOf(k, sentUnits)
  BY <1>1 DEF Asked
<1>4. AskedInOrder'
  BY <1>1, <1>3 DEF AskedInOrder
<1>5. FirstOnes' /\ NoneTooLate'
  BY <1>1 DEF FirstOnes, NoneTooLate, Transferred
<1>6. FilesTypeOK'
  BY <1>1, <1>2 DEF FilesTypeOK
<1>7. Held'
  BY <1>1, <1>2 DEF Held
<1>8. SMBRight'
  <2>1. \A g \in Fids : smb'.open[g] \in Asked' \union {NoFile}
    BY <1>2, <1>3 DEF SMBRight, DataSent
  <2>2. \A g, h \in Fids : smb'.open[g] = smb'.open[h] /\ smb'.open[g] # NoFile => g = h
    BY <1>1, <1>2 DEF SMBRight, DataSent
  <2>3. ASSUME NEW g \in Fids
        PROVE  smb'.data[g] =
                 IF smb'.open[g] = NoFile THEN <<>> ELSE Cut(FileOf(smb'.open[g], DataOf(smb'.open[g], sentUnits'), 0))
    <3>1. CASE g = f
      <4> DEFINE p == smb.pending
      <4>1. smb.data[f] = <<>> /\ DataOf(p, sentUnits) = 0 /\ p \in Nat
        BY <1>1 DEF SMBRight, DataSent, FilesTypeOK
      <4>2. FileOf(p, 0, 0) \in Seq(Units) /\ Len(FileOf(p, 0, 0)) = 0
        <5>1. \A k \in Nat : FileOf(k, 0, 0) \in Seq(Units) /\ Len(FileOf(k, 0, 0)) = 0
          BY FileGrows
        <5> HIDE DEF p
        <5> QED BY <4>1, <5>1
      <4>3. Cut(FileOf(p, 0, 0)) = <<>>
        BY <4>2, CutAgain
      <4> QED BY <1>1, <1>2, <1>3, <3>1, <4>1, <4>3
    <3>2. CASE g # f
      BY <1>2, <1>3, <3>2 DEF SMBRight, DataSent
    <3> QED BY <3>1, <3>2
  <2> QED BY <1>2, <2>1, <2>2, <2>3 DEF SMBRight, DataSent
<1> QED BY <1>4, <1>5, <1>6, <1>7, <1>8

\* SMB: what is written goes to the one file that is open under the id.
LEMMA SMBWriteKeeps ==
  ASSUME FilesTypeOK, Held, AskedInOrder, FirstOnes, NoneTooLate, SMBRight,
         NEW f \in Fids, SMBWrite(f), UNCHANGED <<wire, buffers, parsed, ftpSession, dataPorts, losses, tracks>>
  PROVE  FilesTypeOK' /\ Held' /\ AskedInOrder' /\ FirstOnes' /\ NoneTooLate' /\ SMBRight'
<1> DEFINE m == smb.open[f]
           n == DataOf(m, sentUnits)
           u == <<m, n + 1, 0>>
           d == Cut(Append(smb.data[f], u))
<1>1. sentUnits \in Seq(Units) /\ n \in Nat
  BY DataIsCounted DEF DataSent, FilesTypeOK
<1>2. /\ m # NoFile /\ sentUnits' = Append(sentUnits, u) /\ evidence' = evidence \union {u}
      /\ smb' = [smb EXCEPT !.data[f] = d]
      /\ UNCHANGED <<wire, buffers, parsed, ftpSession, extracted, complete, losses, scans, scanning, updates>>
  BY DEF SMBWrite, DataSent, OpenFids, tracks
<1>3. m \in Nat /\ m \in Asked /\ smb.data[f] = Cut(FileOf(m, n, 0)) /\ smb.data[f] \in Seq(Units)
  BY <1>2 DEF FilesTypeOK, SMBRight, DataSent
<1>4. u \in Units /\ u[1] = m /\ u[2] = n + 1 /\ u[2] > 0 /\ u[3] = 0
  BY <1>1, <1>3 DEF Units
<1>5. /\ FileOf(m, n, 0) \in Seq(Units) /\ FileOf(m, n + 1, 0) = Append(FileOf(m, n, 0), u)
  BY <1>1, <1>3, FileGrows
<1> HIDE DEF u
<1>6. d = Cut(FileOf(m, n + 1, 0))
  BY <1>3, <1>4, <1>5, CutAgain
<1>7. d \in Seq(Units) /\ Range(d) \subseteq evidence'
  <2>1. Append(smb.data[f], u) \in Seq(Units)
    BY <1>3, <1>4
  <2>2. d \in Seq(Units)
    BY <2>1, CutAgain
  <2>3. Range(d) \subseteq Range(smb.data[f]) \union {u}
    BY <1>3, <1>4, CutAgain
  <2> QED BY <1>2, <2>2, <2>3 DEF Held
<1> HIDE DEF d
<1>8. /\ sentUnits' \in Seq(Units) /\ Len(sentUnits') = Len(sentUnits) + 1 /\ Len(sentUnits) \in Nat
      /\ Asked' = Asked /\ \A k : DataOf(k, sentUnits') = DataOf(k, sentUnits) + (IF k = m THEN 1 ELSE 0)
  BY <1>1, <1>2, <1>4, UnitSent DEF DataSent
<1>9. AskedInOrder'
  BY <1>1, <1>2, <1>3, <1>4, AskedGrows
<1>10. FirstOnes' /\ NoneTooLate'
  BY <1>2, <1>8, NoneCompleted
<1>11. /\ smb' \in [pending : Nat, open : [Fids -> Nat], data : [Fids -> Seq(Units)]]
       /\ smb'.pending = smb.pending /\ smb'.open = smb.open
       /\ \A g \in Fids : smb'.data[g] = IF g = f THEN d ELSE smb.data[g]
  BY <1>2, <1>7 DEF FilesTypeOK
<1>12. FilesTypeOK'
  BY <1>2, <1>8, <1>11 DEF FilesTypeOK
<1>13. Held'
  <2>1. \A g \in Fids : Range(smb'.data[g]) \subseteq evidence'
    BY <1>2, <1>7, <1>11 DEF Held
  <2> QED BY <1>2, <2>1 DEF Held
<1>14. SMBRight'
  <2>1. smb'.pending \in Asked' \union {NoFile} /\ \A g \in Fids : smb'.open[g] \in Asked' \union {NoFile}
    BY <1>8, <1>11 DEF SMBRight, DataSent
  <2>2. smb'.pending # NoFile => (DataOf(smb'.pending, sentUnits') = 0 /\ \A g \in Fids : smb'.open[g] # smb'.pending)
    <3> SUFFICES ASSUME smb.pending # NoFile
                 PROVE  DataOf(smb.pending, sentUnits') = 0 /\ \A g \in Fids : smb.open[g] # smb.pending
      BY <1>11
    <3>1. DataOf(smb.pending, sentUnits) = 0 /\ \A g \in Fids : smb.open[g] # smb.pending
      BY DEF SMBRight, DataSent
    <3> QED BY <1>8, <3>1
  <2>3. \A g, h \in Fids : smb'.open[g] = smb'.open[h] /\ smb'.open[g] # NoFile => g = h
    BY <1>11 DEF SMBRight, DataSent
  <2>4. ASSUME NEW g \in Fids
        PROVE  smb'.data[g] =
                 IF smb'.open[g] = NoFile THEN <<>> ELSE Cut(FileOf(smb'.open[g], DataOf(smb'.open[g], sentUnits'), 0))
    <3>1. CASE g = f
      <4>1. DataOf(m, sentUnits') = n + 1
        BY <1>8
      <4> QED BY <1>2, <1>6, <1>11, <3>1, <4>1
    <3>2. CASE g # f
      <4> DEFINE k == smb.open[g]
      <4>1. k = NoFile \/ k # m
        BY <1>2, <3>2 DEF SMBRight, DataSent
      <4>2. k # m => DataOf(k, sentUnits') = DataOf(k, sentUnits)
        <5>1. DataOf(k, sentUnits) \in Nat
          BY <1>1, DataIsCounted DEF DataSent
        <5> QED BY <1>8, <5>1
      <4>3. smb.data[g] = IF k = NoFile THEN <<>> ELSE Cut(FileOf(k, DataOf(k, sentUnits), 0))
        BY DEF SMBRight, DataSent
      <4> QED BY <1>11, <3>2, <4>1, <4>2, <4>3
    <3> QED BY <3>1, <3>2
  <2> QED BY <2>1, <2>2, <2>3, <2>4 DEF SMBRight, DataSent
<1> QED BY <1>9, <1>10, <1>12, <1>13, <1>14

\* SMB: the artifact of a file that is closed is what was written to it.
LEMMA SMBCloseKeeps ==
  ASSUME FilesTypeOK, Held, AskedInOrder, FirstOnes, NoneTooLate, SMBRight,
         NEW f \in Fids, SMBClose(f), UNCHANGED <<wire, buffers, parsed, ftpSession, dataPorts, losses, tracks>>
  PROVE  FilesTypeOK' /\ Held' /\ AskedInOrder' /\ FirstOnes' /\ NoneTooLate' /\ SMBRight'
<1> DEFINE m == smb.open[f]
           n == DataOf(m, sentUnits)
           d == smb.data[f]
<1>1. sentUnits \in Seq(Units) /\ n \in Nat /\ Len(sentUnits) \in Nat
  BY DataIsCounted, LenProperties DEF DataSent, FilesTypeOK
<1>2. /\ m # NoFile /\ smb' = SmbClosed(f)
      /\ complete' = complete \o (IF n = 0 THEN <<>> ELSE <<[name |-> m, data |-> Cut(FileOf(m, n, 0)), last |-> 0]>>)
      /\ Store(IF d = <<>> THEN <<>> ELSE <<[name |-> m, data |-> d]>>)
      /\ UNCHANGED <<wire, sentUnits, buffers, parsed, ftpSession, losses, evidence, scanning, updates>>
  BY DEF SMBClose, DataSent, OpenFids, tracks
<1>3. m \in Nat /\ d = Cut(FileOf(m, n, 0)) /\ d \in Seq(Units) /\ Range(d) \subseteq evidence
  BY <1>2 DEF FilesTypeOK, SMBRight, DataSent, Held
<1>4. FileOf(m, n, 0) \in Seq(Units) /\ Len(FileOf(m, n, 0)) = n
  BY <1>1, <1>3, FileGrows
<1>5. Cut(d) = Cut(FileOf(m, n, 0)) /\ (d = <<>> <=> n = 0)
  BY <1>3, <1>4, CutAgain
<1>6. extracted \in Seq(Files) /\ scans \in Seq(Nat) /\ complete \in Seq(Wholes)
  BY DEF FilesTypeOK, Files, Wholes
<1>7. /\ FirstOnes' /\ NoneTooLate'
      /\ extracted' \in Seq(Files) /\ scans' \in Seq(Nat) /\ complete' \in Seq(Wholes)
      /\ \A i \in 1..Len(extracted') : Range(extracted'[i].data) \subseteq evidence'
  <2>1. CASE n = 0
    <3>1. Store(<<>>) /\ complete' = complete \o <<>>
      BY <1>2, <1>5, <2>1
    <3>2. extracted' = extracted /\ scans' \in Seq(Nat)
      BY <1>6, <3>1, StoreOf
    <3>3. complete' = complete
      BY <1>6, <3>1
    <3>4. FirstOnes' /\ NoneTooLate'
      BY <1>1, <1>2, <3>2, <3>3, NoneCompleted
    <3> QED BY <1>2, <1>6, <3>2, <3>3, <3>4 DEF Held
  <2>2. CASE n # 0
    <3>1. /\ complete' = complete \o <<[name |-> m, data |-> Cut(FileOf(m, n, 0)), last |-> 0]>>
          /\ Store(<<[name |-> m, data |-> d]>>)
      BY <1>2, <1>5, <2>2
    <3>2. /\ FirstOnes' /\ NoneTooLate'
          /\ extracted' \in Seq(Files) /\ scans' \in Seq(Nat) /\ complete' \in Seq(Wholes)
      <4>1. Len(sentUnits') \in Nat /\ Len(sentUnits) <= Len(sentUnits')
        BY <1>1, <1>2
      <4> HIDE DEF n, d
      <4> QED BY <1>1, <1>3, <1>4, <1>5, <3>1, <4>1, TransferCompleted
    <3> DEFINE x == [name |-> m, data |-> d]
    <3>3. x \in Files /\ x.data = d
      BY <1>3 DEF Files
    <3>4. Store(<<x>>)
      BY <3>1
    <3> HIDE DEF x
    <3>5. <<x>> \in Seq(Files) /\ \A i \in 1..Len(<<x>>) : <<x>>[i] = x
      BY <3>3
    <3>6. \A i \in 1..Len(<<x>>) : Range(<<x>>[i].data) \subseteq evidence'
      BY <1>2, <1>3, <3>3, <3>5
    <3>7. \A i \in 1..Len(extracted') : Range(extracted'[i].data) \subseteq evidence'
      BY <1>2, <1>6, <3>4, <3>5, <3>6, StoredWasKept
    <3> QED BY <3>2, <3>7
  <2> QED BY <2>1, <2>2
<1>8. /\ smb' \in [pending : Nat, open : [Fids -> Nat], data : [Fids -> Seq(Units)]]
      /\ smb'.pending = smb.pending
      /\ \A g \in Fids : /\ smb'.open[g] = IF g = f THEN NoFile ELSE smb.open[g]
                         /\ smb'.data[g] = IF g = f THEN <<>> ELSE smb.data[g]
  <2>1. <<>> \in Seq(Units)
    BY EmptySeq
  <2> QED BY <1>2, <2>1 DEF FilesTypeOK, SmbClosed, NoFile
<1>9. Asked' = Asked /\ \A k : DataOf(k, sentUnits') = DataOf(k, sentUnits)
  BY <1>2 DEF Asked
<1>10. AskedInOrder'
  BY <1>2, <1>9 DEF AskedInOrder
<1>11. FilesTypeOK'
  BY <1>2, <1>7, <1>8 DEF FilesTypeOK, Files, Wholes
<1>12. Held'
  <2>1. Range(<<>>) = {}
    BY DEF Range
  <2>2. \A g \in Fids : Range(smb'.data[g]) \subseteq evidence'
    BY <1>2, <1>8, <2>1 DEF Held
  <2> QED BY <1>2, <1>7, <2>2 DEF Held
<1>13. SMBRight'
  <2>1. smb'.pending \in Asked' \union {NoFile} /\ \A g \in Fids : smb'.open[g] \in Asked' \union {NoFile}
    BY <1>8, <1>9 DEF SMBRight, DataSent
  <2>2. smb'.pending # NoFile => (DataOf(smb'.pending, sentUnits') = 0 /\ \A g \in Fids : smb'.open[g] # smb'.pending)
    BY <1>8, <1>9 DEF SMBRight, DataSent
  <2>3. \A g, h \in Fids : smb'.open[g] = smb'.open[h] /\ smb'.open[g] # NoFile => g = h
    BY <1>8 DEF SMBRight, DataSent
  <2>4. \A g \in Fids : smb'.data[g] =
          IF smb'.open[g] = NoFile THEN <<>> ELSE Cut(FileOf(smb'.open[g], DataOf(smb'.open[g], sentUnits'), 0))
    <3> SUFFICES ASSUME NEW g \in Fids
                 PROVE  smb'.data[g] =
                          IF smb'.open[g] = NoFile THEN <<>>
                          ELSE Cut(FileOf(smb'.open[g], DataOf(smb'.open[g], sentUnits'), 0))
      OBVIOUS
    <3>1. CASE g = f
      BY <1>8, <3>1
    <3>2. CASE g # f
      <4>1. smb'.open[g] = smb.open[g] /\ smb'.data[g] = smb.data[g]
        BY <1>8, <3>2
      <4>2. smb.data[g] = IF smb.open[g] = NoFile THEN <<>>
                          ELSE Cut(FileOf(smb.open[g], DataOf(smb.open[g], sentUnits), 0))
        BY DEF SMBRight, DataSent
      <4> QED BY <1>2, <4>1, <4>2
    <3> QED BY <3>1, <3>2
  <2> QED BY <2>1, <2>2, <2>3, <2>4 DEF SMBRight, DataSent
<1> QED BY <1>7, <1>10, <1>11, <1>12, <1>13

-----------------------------------------------------------------------------
\* What concerns the transfers does not change with the scans.
LEMMA TransfersStay ==
  ASSUME Held, TransfersRight,
         UNCHANGED <<wire, sentUnits, buffers, parsed, ftpSession, dataPorts, smb, extracted, complete, losses,
                     evidence>>
  PROVE  Held' /\ TransfersRight'
<1>1. Held'
  BY DEF Held
<1>2. FirstOnes' = FirstOnes /\ NoneTooLate' = NoneTooLate
  BY DEF FirstOnes, NoneTooLate, Transferred
<1>3. HTTPRight' = HTTPRight
  BY DEF HTTPRight, LastMessage, StandsBefore, LastSent, Finished, Trailer
<1>4. SMTPRight' = SMTPRight
  BY DEF SMTPRight, FirstMail
<1>5. Asked' = Asked /\ \A k : DataSent(k)' = DataSent(k)
  BY DEF Asked, DataSent
<1>6. \A k : Over(k)' <=> Over(k)
  BY DEF Over
<1>7. AskedInOrder' = AskedInOrder
  BY <1>5 DEF AskedInOrder
<1>8. FTPRight' = FTPRight
  BY <1>5, <1>6 DEF FTPRight
<1>9. SMBRight' = SMBRight
  BY <1>5 DEF SMBRight, DataSent
<1> QED BY <1>1, <1>2, <1>3, <1>4, <1>7, <1>8, <1>9 DEF TransfersRight

\* The scanner: a match reaches whoever waits for updates, or is lost.
LEMMA ScanEndKeeps ==
  ASSUME FilesTypeOK, MatchesOnTheWay, NEW found \in BOOLEAN, ScanEnd(found)
  PROVE  MatchesOnTheWay' /\ scanning' \in Nat /\ updates' \in Seq([id : Nat, found : BOOLEAN])
<1> DEFINE told == IsKept(scanning) /\ Len(updates) < UpdateQueue
           e == [id |-> scanning, found |-> found]
           R == [id : Nat, found : BOOLEAN]
           N == Len(updates)
<1>1. updates \in Seq(R) /\ scanning \in Nat /\ N \in Nat /\ e \in R /\ scanning' = NoFile
  BY LenProperties DEF FilesTypeOK, ScanEnd
<1>2. /\ announcedMatches' = announcedMatches
      /\ matches' = matches \union {id \in {scanning} : found /\ IsKept(scanning)}
      /\ updates' = (IF told THEN Append(updates, e) ELSE updates)
      /\ lostUpdates' = lostUpdates \union {id \in {scanning} : IsKept(id) /\ ~told}
  BY DEF ScanEnd
<1>3. e.id = scanning /\ e.found = found
  OBVIOUS
<1> HIDE DEF e, R
<1>4. /\ Append(updates, e) \in Seq(R) /\ Len(Append(updates, e)) = N + 1 /\ Append(updates, e)[N + 1] = e
      /\ \A j \in 1..N : Append(updates, e)[j] = updates[j]
  BY <1>1
<1>5. /\ updates' \in Seq(R) /\ \A j \in 1..N : j \in 1..Len(updates') /\ updates'[j] = updates[j]
      /\ \A j \in 1..Len(updates') : j \in 1..N \/ (told /\ updates'[j] = e)
      /\ told => N + 1 \in 1..Len(updates') /\ updates'[N + 1] = e
  <2>1. CASE told
    <3>1. \A j \in 1..(N + 1) : j \in 1..N \/ j = N + 1
      BY <1>1
    <3>2. \A j \in 1..N : j \in 1..(N + 1)
      BY <1>1
    <3>3. N + 1 \in 1..(N + 1)
      BY <1>1
    <3> QED BY <1>2, <1>4, <2>1, <3>1, <3>2, <3>3
  <2>2. CASE ~told
    BY <1>1, <1>2, <2>2
  <2> QED BY <2>1, <2>2
<1>6. \A j \in 1..Len(updates') : updates'[j].found => updates'[j].id \in matches'
  <2> SUFFICES ASSUME NEW j \in 1..Len(updates'), updates'[j].found PROVE updates'[j].id \in matches'
    OBVIOUS
  <2>1. CASE j \in 1..N
    BY <1>2, <1>5, <2>1 DEF MatchesOnTheWay
  <2>2. CASE told /\ updates'[j] = e
    BY <1>2, <1>3, <2>2
  <2> QED BY <1>5, <2>1, <2>2
<1>7. ASSUME NEW id \in matches'
      PROVE  id \in announcedMatches' \union lostUpdates'
               \/ \E j \in 1..Len(updates') : updates'[j] = [id |-> id, found |-> TRUE]
  <2>1. CASE id \in matches
    <3>1. id \in announcedMatches \union lostUpdates \/ \E j \in 1..N : updates[j] = [id |-> id, found |-> TRUE]
      BY <2>1 DEF MatchesOnTheWay
    <3> QED BY <1>2, <1>5, <3>1
  <2>2. CASE id \notin matches
    <3>1. id = scanning /\ found /\ IsKept(scanning)
      BY <1>2, <2>2
    <3>2. CASE told
      <4>1. e = [id |-> id, found |-> TRUE]
        BY <3>1 DEF e
      <4> QED BY <1>5, <3>2, <4>1
    <3>3. CASE ~told
      BY <1>2, <3>1, <3>3
    <3> QED BY <3>2, <3>3
  <2> QED BY <2>1, <2>2
<1>8. announcedMatches' \subseteq matches'
  BY <1>2 DEF MatchesOnTheWay
<1> QED BY <1>1, <1>5, <1>6, <1>7, <1>8 DEF MatchesOnTheWay, R, NoFile

\* A match whose update is consumed is announced.
LEMMA ConsumeUpdateKeeps ==
  ASSUME FilesTypeOK, MatchesOnTheWay, ConsumeUpdate
  PROVE  MatchesOnTheWay' /\ updates' \in Seq([id : Nat, found : BOOLEAN])
<1> DEFINE R == [id : Nat, found : BOOLEAN]
           N == Len(updates)
<1>1. updates \in Seq(R) /\ updates # <<>>
  BY DEF FilesTypeOK, ConsumeUpdate
<1>2. /\ UNCHANGED <<matches, lostUpdates>> /\ updates' = Tail(updates)
      /\ announcedMatches' = announcedMatches \union {id \in {Head(updates).id} : Head(updates).found}
  BY DEF ConsumeUpdate
<1> HIDE DEF R
<1>3. /\ N \in Nat \ {0} /\ Head(updates) = updates[1] /\ Tail(updates) \in Seq(R) /\ Len(Tail(updates)) = N - 1
      /\ \A j \in 1..(N - 1) : Tail(updates)[j] = updates[j + 1]
  BY <1>1, EmptySeq, HeadTailProperties
<1>4. \A j \in 1..Len(updates') : j + 1 \in 1..N /\ updates'[j] = updates[j + 1]
  BY <1>2, <1>3
<1>5. announcedMatches' \subseteq matches'
  <2>1. 1 \in 1..N
    BY <1>3
  <2> QED BY <1>2, <1>3, <2>1 DEF MatchesOnTheWay
<1>6. \A j \in 1..Len(updates') : updates'[j].found => updates'[j].id \in matches'
  BY <1>2, <1>4 DEF MatchesOnTheWay
<1>7. ASSUME NEW id \in matches'
      PROVE  id \in announcedMatches' \union lostUpdates'
               \/ \E j \in 1..Len(updates') : updates'[j] = [id |-> id, found |-> TRUE]
  <2>1. id \in announcedMatches \union lostUpdates \/ \E j \in 1..N : updates[j] = [id |-> id, found |-> TRUE]
    BY <1>2 DEF MatchesOnTheWay
  <2>2. ASSUME NEW j \in 1..N, updates[j] = [id |-> id, found |-> TRUE]
        PROVE  id \in announcedMatches' \/ \E k \in 1..Len(updates') : updates'[k] = [id |-> id, found |-> TRUE]
    <3>1. CASE j = 1
      <4>1. Head(updates).id = id /\ Head(updates).found
        BY <1>3, <2>2, <3>1
      <4> QED BY <1>2, <4>1
    <3>2. CASE j # 1
      <4>1. j - 1 \in 1..Len(updates') /\ (j - 1) + 1 = j
        BY <1>2, <1>3, <3>2
      <4> QED BY <1>4, <2>2, <4>1
    <3> QED BY <3>1, <3>2
  <2> QED BY <1>2, <2>1, <2>2
<1> QED BY <1>2, <1>3, <1>5, <1>6, <1>7 DEF MatchesOnTheWay, R

\* What the endpoints transferred within the buffer: the first k, if those are the
\* ones that are not too late.
LEMMA WithinBufferIs ==
  ASSUME complete \in Seq(Wholes), NEW k \in Nat, k <= Len(complete),
         \A i \in 1..Len(complete) : complete[i].last <= Limit <=> i <= k
  PROVE  WithinBuffer \in Seq(Wholes) /\ Len(WithinBuffer) = k /\ \A i \in 1..k : WithinBuffer[i] = complete[i]
<1>1. Len(complete) \in Nat /\ DOMAIN complete = 1..Len(complete)
  BY LenProperties
<1>2. {i \in DOMAIN complete : complete[i].last <= 2 * MaxFileBytes} = 1..k
  <2>1. \A i \in 1..Len(complete) : complete[i].last <= 2 * MaxFileBytes <=> i <= k
    BY DEF Limit
  <2>2. \A i : i \in 1..k <=> i \in 1..Len(complete) /\ i <= k
    BY <1>1
  <2> QED BY <1>1, <2>1, <2>2
<1>3. Cardinality(1..k) = k
  <2>1. 1 \in Int /\ k \in Int /\ k - 1 + 1 = k /\ (1 > k => k = 0)
    OBVIOUS
  <2>2. Cardinality(1..k) = IF 1 > k THEN 0 ELSE k - 1 + 1
    BY <2>1, FS_Interval
  <2> QED BY <2>1, <2>2
<1>4. WithinBuffer = SubSeq(complete, 1, k)
  BY <1>2, <1>3 DEF WithinBuffer
<1> DEFINE s == SubSeq(complete, 1, k)
<1>5. s \in Seq(Wholes) /\ Len(s) = k /\ \A i \in 1..k : s[i] = complete[i]
  BY <1>1, SubSeqProperties
<1> QED BY <1>4, <1>5

\* Of HTTP, FTP and SMB: the first ones are those within the buffer.
LEMMA FirstOnesTold ==
  ASSUME FilesTypeOK, FirstOnes
  PROVE  extracted = [i \in 1..Len(WithinBuffer) |-> Transferred(WithinBuffer[i])]
<1>1. complete \in Seq(Wholes) /\ extracted \in Seq(Files) /\ Len(extracted) \in Nat
  BY LenProperties DEF FilesTypeOK, Files, Wholes
<1>2. Len(WithinBuffer) = Len(extracted) /\ \A i \in 1..Len(extracted) : WithinBuffer[i] = complete[i]
  BY <1>1, WithinBufferIs DEF FirstOnes
<1>3. \A i \in 1..Len(extracted) : extracted[i] = Transferred(WithinBuffer[i])
  BY <1>2 DEF FirstOnes
<1>4. extracted = [i \in 1..Len(extracted) |-> extracted[i]]
  BY <1>1, SeqDef
<1> QED BY <1>2, <1>3, <1>4

\* Of SMTP: the first mail is within the buffer with all its attachments, or without.
LEMMA FirstMailTold ==
  ASSUME FilesTypeOK, wire = "smtp", SMTPRight
  PROVE  Range(extracted) = {Transferred(c) : c \in Range(WithinBuffer)}
<1>1. /\ complete \in Seq(Wholes) /\ extracted \in Seq(Files) /\ sentUnits \in Seq(Units)
      /\ Len(sentUnits) \in Nat /\ Limit \in Nat
  BY LimitIs, LenProperties DEF FilesTypeOK, Files, Wholes
<1>2. ASSUME Len(complete) = 0, Range(extracted) = {}
      PROVE  Range(extracted) = {Transferred(c) : c \in Range(WithinBuffer)}
  <2>1. WithinBuffer \in Seq(Wholes) /\ Len(WithinBuffer) = 0
    BY <1>1, <1>2, WithinBufferIs
  <2>2. Range(WithinBuffer) = {}
    BY <2>1, LenProperties DEF Range
  <2> QED BY <1>2, <2>2
<1>3. CASE sentUnits = <<>>
  <2>1. complete = <<>> /\ extracted = <<>>
    BY <1>3 DEF SMTPRight
  <2>2. Len(complete) = 0 /\ Range(extracted) = {}
    BY <2>1 DEF Range
  <2> QED BY <1>2, <2>2
<1>4. CASE sentUnits # <<>>
  <2> DEFINE n == sentUnits[1][3]
             all == [i \in 1..n |-> [name |-> 1, data |-> <<<<1, i, n>>>>, last |-> n + 2]]
  <2>1. n \in Nat
    <3>1. 1 \in 1..Len(sentUnits)
      BY <1>1, <1>4, EmptySeq
    <3> QED BY <1>1, <3>1, UnitsOf
  <2>2. /\ complete = IF Len(sentUnits) < n + 2 THEN <<>> ELSE all
        /\ Range(extracted) = IF Len(buffers[0]) < n + 2 THEN {} ELSE {MailFile(i, n) : i \in 1..n}
        /\ buffers[0] = FirstOf(sentUnits, Limit)
    BY <1>4 DEF SMTPRight, FirstMail
  <2>3. Len(buffers[0]) = IF Len(sentUnits) > Limit THEN Limit ELSE Len(sentUnits)
    BY <1>1, <2>2, BeginningOf
  <2>4. Len(all) = n /\ \A i \in 1..n : all[i] = [name |-> 1, data |-> <<<<1, i, n>>>>, last |-> n + 2]
    BY <2>1
  <2> HIDE DEF n, all
  <2>5. CASE Len(sentUnits) < n + 2
    <3>1. complete = <<>> /\ Range(extracted) = {}
      BY <1>1, <2>1, <2>2, <2>3, <2>5
    <3> QED BY <1>2, <3>1
  <2>6. CASE ~(Len(sentUnits) < n + 2)
    <3>1. /\ complete = all /\ Len(complete) = n
          /\ \A i \in 1..n : complete[i] = [name |-> 1, data |-> <<<<1, i, n>>>>, last |-> n + 2]
      BY <2>2, <2>4, <2>6
    <3>2. \A i \in 1..n : complete[i].last = n + 2 /\ Transferred(complete[i]) = MailFile(i, n)
      BY <3>1 DEF Transferred, MailFile
    <3>3. CASE n + 2 <= Limit
      <4>1. Range(extracted) = {MailFile(i, n) : i \in 1..n}
        BY <1>1, <2>1, <2>2, <2>3, <2>6, <3>3
      <4>2. \A i \in 1..Len(complete) : complete[i].last <= Limit <=> i <= n
        BY <2>1, <3>1, <3>2, <3>3
      <4>3. /\ WithinBuffer \in Seq(Wholes) /\ Len(WithinBuffer) = n
            /\ \A i \in 1..n : WithinBuffer[i] = complete[i]
        <5>1. n <= Len(complete)
          BY <2>1, <3>1
        <5> QED BY <1>1, <2>1, <4>2, <5>1, WithinBufferIs
      <4>4. Range(WithinBuffer) = {complete[i] : i \in 1..n}
        BY <4>3, LenProperties DEF Range
      <4> QED BY <3>2, <4>1, <4>4
    <3>4. CASE ~(n + 2 <= Limit)
      <4>1. Range(extracted) = {}
        BY <1>1, <2>1, <2>2, <2>3, <3>4
      <4>2. \A i \in 1..Len(complete) : complete[i].last <= Limit <=> i <= 0
        BY <2>1, <3>1, <3>2, <3>4
      <4>3. WithinBuffer \in Seq(Wholes) /\ Len(WithinBuffer) = 0
        <5>1. 0 \in Nat /\ 0 <= Len(complete)
          BY <2>1, <3>1
        <5> QED BY <1>1, <4>2, <5>1, WithinBufferIs
      <4>4. Range(WithinBuffer) = {}
        BY <4>3, LenProperties DEF Range
      <4> QED BY <4>1, <4>4
    <3> QED BY <3>3, <3>4
  <2> QED BY <2>5, <2>6
<1> QED BY <1>3, <1>4

\* The invariant says what is promised.
LEMMA FilesInvTells == ASSUME FilesInv PROVE FilesTruthful
<1>1. FilesTypeOK /\ Held /\ MatchesOnTheWay /\ 0 \in 0..MaxUnits
  BY FileExtractionAssumption DEF FilesInv
<1>2. TransfersExtracted
  <2> SUFFICES ASSUME losses = 0
               PROVE  IF wire = "smtp" THEN Range(extracted) = {Transferred(c) : c \in Range(WithinBuffer)}
                      ELSE extracted = [i \in 1..Len(WithinBuffer) |-> Transferred(WithinBuffer[i])]
    BY DEF TransfersExtracted
  <2>1. CASE wire = "smtp"
    BY <1>1, <2>1, FirstMailTold DEF FilesInv, TransfersRight
  <2>2. CASE wire # "smtp"
    <3>1. FirstOnes
      BY <1>1, <2>2 DEF FilesInv, TransfersRight, FilesTypeOK
    <3> QED BY <1>1, <2>2, <3>1, FirstOnesTold
  <2> QED BY <2>1, <2>2
<1>3. NoSecondRetention
  BY <1>1 DEF Held, NoSecondRetention
<1>4. MatchesAnnounced
  <2>1. updates = <<>> => ~ \E j \in 1..Len(updates) : TRUE
    OBVIOUS
  <2>2. updates = <<>> => matches \subseteq announcedMatches \union lostUpdates
    <3> SUFFICES ASSUME updates = <<>>, NEW id \in matches PROVE id \in announcedMatches \union lostUpdates
      OBVIOUS
    <3> QED BY <1>1, <2>1 DEF MatchesOnTheWay
  <2> QED BY <1>1, <2>2 DEF MatchesOnTheWay, MatchesAnnounced
<1> QED BY <1>2, <1>3, <1>4 DEF FilesTruthful, FilesRetainedRightly

\* It holds when the engine starts.
LEMMA FilesInitKeeps == ASSUME FilesInit PROVE FilesInv
<1>1. <<>> \in Seq(Units) /\ Len(<<>>) = 0 /\ Range(<<>>) = {} /\ MaxUnits \in Nat
  BY EmptySeq, FileExtractionAssumption DEF Range
<1>2. FilesTypeOK
  BY <1>1 DEF FilesInit, FilesTypeOK, NoNames, NoFile
<1>3. Held
  BY <1>1, LimitIs DEF FilesInit, Held
<1>4. MatchesOnTheWay
  BY DEF FilesInit, MatchesOnTheWay
<1>5. FirstOf(<<>>, Limit) = <<>>
  BY <1>1, LimitIs DEF FirstOf
<1>6. FirstOnes /\ NoneTooLate
  BY <1>1 DEF FilesInit, FirstOnes, NoneTooLate
<1>7. HTTPRight
  BY <1>1, <1>5 DEF FilesInit, HTTPRight, LastMessage, StandsBefore, Finished
<1>8. SMTPRight
  BY <1>1, <1>5 DEF FilesInit, SMTPRight
<1>9. Asked = {}
  BY DEF FilesInit, Asked
<1>10. AskedInOrder
  <2>1. IsFiniteSet(Asked) /\ Cardinality(Asked) = 0 /\ Asked = 1..0
    BY <1>9, FS_EmptySet
  <2> QED BY <1>1, <2>1 DEF FilesInit, AskedInOrder
<1>11. FTPRight
  BY <1>1, <1>9 DEF FilesInit, FTPRight, Transfers
<1>12. SMBRight
  BY DEF FilesInit, SMBRight, NoNames, NoFile
<1> QED BY <1>2, <1>3, <1>4, <1>6, <1>7, <1>8, <1>10, <1>11, <1>12 DEF FilesInv, TransfersRight

\* Every step keeps the invariant.
LEMMA FilesNextKeeps == ASSUME FilesInv, FilesNext \/ UNCHANGED extractionVars PROVE FilesInv'
<1>1. FilesTypeOK /\ Held /\ MatchesOnTheWay /\ TransfersRight
  BY DEF FilesInv
<1>2. ASSUME UNCHANGED tracks PROVE MatchesOnTheWay'
  BY <1>1, <1>2 DEF MatchesOnTheWay, tracks
<1>3. ASSUME NEW u \in NextUnits, NEW d \in Decisions, NEW r \in 0..2, SendPacket(u, d, r) PROVE FilesInv'
  <2>1. FilesTypeOK' /\ Held'
    BY <1>1, <1>3, SendKeepsHeld
  <2>2. wire \in {"http", "smtp"} /\ wire' = wire /\ UNCHANGED tracks
    BY <1>3 DEF SendPacket
  <2>3. MatchesOnTheWay'
    BY <1>2, <2>2
  <2>4. losses' = 0 => losses = 0
    BY <1>1, <1>3, SentOnce
  <2>5. CASE wire = "http"
    <3>1. losses' = 0 => FirstOnes' /\ HTTPRight'
      BY <1>1, <1>3, <2>4, <2>5, HTTPKeeps DEF TransfersRight
    <3> QED BY <2>1, <2>2, <2>3, <2>5, <3>1 DEF FilesInv, TransfersRight
  <2>6. CASE wire = "smtp"
    <3>1. losses' = 0 => SMTPRight'
      BY <1>1, <1>3, <2>4, <2>6, SMTPKeeps DEF TransfersRight
    <3> QED BY <2>1, <2>2, <2>3, <2>6, <3>1 DEF FilesInv, TransfersRight
  <2> QED BY <2>2, <2>5, <2>6
<1>4. ASSUME NEW m \in Transfers, FTPControl(m) PROVE FilesInv'
  <2>1. wire = "ftp" /\ wire' = wire /\ UNCHANGED tracks
    BY <1>4 DEF FTPControl
  <2>2. FilesTypeOK' /\ Held' /\ AskedInOrder' /\ FirstOnes' /\ NoneTooLate' /\ FTPRight'
    BY <1>1, <1>4, <2>1, FTPControlKeeps DEF TransfersRight
  <2> QED BY <1>2, <2>1, <2>2 DEF FilesInv, TransfersRight
<1>5. ASSUME NEW m \in Transfers, NEW fin \in {0, 1}, FTPData(m, fin) PROVE FilesInv'
  <2>1. wire = "ftp" /\ wire' = wire /\ UNCHANGED tracks
    BY <1>5 DEF FTPData
  <2>2. FilesTypeOK' /\ Held' /\ AskedInOrder' /\ FirstOnes' /\ NoneTooLate' /\ FTPRight'
    BY <1>1, <1>5, <2>1, FTPDataKeeps DEF TransfersRight
  <2> QED BY <1>2, <2>1, <2>2 DEF FilesInv, TransfersRight
<1>6. ASSUME SMBStep PROVE FilesInv'
  <2>1. /\ wire' = wire /\ UNCHANGED tracks
        /\ UNCHANGED <<wire, buffers, parsed, ftpSession, dataPorts, losses, tracks>>
    BY <1>6 DEF SMBStep
  <2>2. wire = "smb"
    BY <1>6 DEF SMBStep, SMBCreate, SMBCreated, SMBWrite, SMBClose
  <2>3. AskedInOrder /\ FirstOnes /\ NoneTooLate /\ SMBRight
    BY <1>1, <2>2 DEF TransfersRight
  <2>4. FilesTypeOK' /\ Held' /\ AskedInOrder' /\ FirstOnes' /\ NoneTooLate' /\ SMBRight'
    <3>1. CASE \E m \in Transfers : SMBCreate(m)
      BY <1>1, <2>1, <2>3, <3>1, SMBCreateKeeps
    <3>2. CASE \E f \in Fids : SMBCreated(f)
      BY <1>1, <2>1, <2>3, <3>2, SMBCreatedKeeps
    <3>3. CASE \E f \in Fids : SMBWrite(f)
      BY <1>1, <2>1, <2>3, <3>3, SMBWriteKeeps
    <3>4. CASE \E f \in Fids : SMBClose(f)
      BY <1>1, <2>1, <2>3, <3>4, SMBCloseKeeps
    <3> QED BY <1>6, <3>1, <3>2, <3>3, <3>4 DEF SMBStep
  <2> QED BY <1>2, <2>1, <2>2, <2>4 DEF FilesInv, TransfersRight
<1>7. ASSUME ScanBegin PROVE FilesInv'
  <2>1. /\ UNCHANGED <<wire, sentUnits, buffers, parsed, ftpSession, dataPorts, smb, extracted, complete, losses,
                       evidence>>
        /\ UNCHANGED <<updates, matches, announcedMatches, lostUpdates>>
        /\ scans # <<>> /\ scanning' = Head(scans) /\ scans' = Tail(scans)
    BY <1>7 DEF ScanBegin
  <2>2. Held' /\ TransfersRight'
    BY <1>1, <2>1, TransfersStay
  <2>3. scanning' \in Nat /\ scans' \in Seq(Nat)
    <3>1. scans \in Seq(Nat)
      BY <1>1 DEF FilesTypeOK
    <3> QED BY <2>1, <3>1, HeadTailProperties
  <2>4. FilesTypeOK'
    BY <1>1, <2>1, <2>3 DEF FilesTypeOK
  <2>5. MatchesOnTheWay'
    BY <1>1, <2>1 DEF MatchesOnTheWay
  <2> QED BY <2>2, <2>4, <2>5 DEF FilesInv
<1>8. ASSUME NEW found \in BOOLEAN, ScanEnd(found) PROVE FilesInv'
  <2>1. /\ UNCHANGED <<wire, sentUnits, buffers, parsed, ftpSession, dataPorts, smb, extracted, complete, losses,
                       evidence>>
        /\ UNCHANGED scans
    BY <1>8 DEF ScanEnd
  <2>2. Held' /\ TransfersRight'
    BY <1>1, <2>1, TransfersStay
  <2>3. MatchesOnTheWay' /\ scanning' \in Nat /\ updates' \in Seq([id : Nat, found : BOOLEAN])
    BY <1>1, <1>8, ScanEndKeeps
  <2>4. FilesTypeOK'
    BY <1>1, <2>1, <2>3 DEF FilesTypeOK
  <2> QED BY <2>2, <2>3, <2>4 DEF FilesInv
<1>9. ASSUME ConsumeUpdate PROVE FilesInv'
  <2>1. /\ UNCHANGED <<wire, sentUnits, buffers, parsed, ftpSession, dataPorts, smb, extracted, complete, losses,
                       evidence>>
        /\ UNCHANGED <<scans, scanning>>
    BY <1>9 DEF ConsumeUpdate
  <2>2. Held' /\ TransfersRight'
    BY <1>1, <2>1, TransfersStay
  <2>3. MatchesOnTheWay' /\ updates' \in Seq([id : Nat, found : BOOLEAN])
    BY <1>1, <1>9, ConsumeUpdateKeeps
  <2>4. FilesTypeOK'
    BY <1>1, <2>1, <2>3 DEF FilesTypeOK
  <2> QED BY <2>2, <2>3, <2>4 DEF FilesInv
<1>10. CASE UNCHANGED extractionVars
  <2>1. /\ UNCHANGED <<wire, sentUnits, buffers, parsed, ftpSession, dataPorts, smb, extracted, complete, losses,
                       evidence>>
        /\ UNCHANGED <<scans, tracks>>
    BY <1>10 DEF extractionVars, tracks
  <2>2. Held' /\ TransfersRight'
    BY <1>1, <2>1, TransfersStay
  <2>3. FilesTypeOK'
    BY <1>1, <2>1 DEF FilesTypeOK, tracks
  <2> QED BY <1>2, <2>1, <2>2, <2>3 DEF FilesInv
<1> QED BY <1>3, <1>4, <1>5, <1>6, <1>7, <1>8, <1>9, <1>10 DEF FilesNext

\* Extraction alone, as the code does it.
FilesSpec == FilesInit /\ [][FilesNext]_extractionVars

\* When every packet is captured once, what is extracted are the files that were
\* transferred within the buffers (observeHTTP, observeSMTP, observeFTPControl,
\* observeFTPData, observeSMB); nothing the policy did not keep is held by an
\* artifact or a buffer; and a match is announced unless its update was lost.
THEOREM FilesTruthfulCorrect == FilesSpec => []FilesTruthful
<1>1. FilesInit => FilesInv
  BY FilesInitKeeps
<1>2. FilesInv /\ [FilesNext]_extractionVars => FilesInv'
  BY FilesNextKeeps
<1>3. FilesInv => FilesTruthful
  BY FilesInvTells
<1> QED BY <1>1, <1>2, <1>3, PTL DEF FilesSpec
=============================================================================
