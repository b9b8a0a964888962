----------------------- MODULE RecorderServiceProofs -----------------------
(***************************************************************************)
(* Theorems about RecorderService, for every set of recordings and request *)
(* threads, every bound on faults and both deployments.                    *)
(***************************************************************************)
EXTENDS RecorderService, TLAPS

-----------------------------------------------------------------------------
(* Type correctness. *)

\* Calls of start() and stop() keep the types.
LEMMA CallType ==
  ASSUME TypeOK, NEW c \in Callers, CallStep(c)
  PROVE  TypeOK'
<1> USE DEF TypeOK, At, Goto, Done, runVars, envVars, Callers, Procs, ProcOf,
            PcVals, ActVals, StateVals, JobFor
<1>1. CASE StartCheck(c) BY <1>1 DEF StartCheck
<1>2. CASE StartInsert(c) BY <1>2 DEF StartInsert
<1>3. CASE StartPersist(c) BY <1>3 DEF StartPersist
<1>4. CASE StartPersistFails(c) BY <1>4 DEF StartPersistFails
<1>5. CASE StartLaunch(c) BY <1>5 DEF StartLaunch
<1>6. CASE StopCheck(c) BY <1>6 DEF StopCheck
<1>7. CASE StopDriver(c) BY <1>7 DEF StopDriver
<1> QED BY <1>1, <1>2, <1>3, <1>4, <1>5, <1>6, <1>7 DEF CallStep

\* Worker threads keep the types.
LEMMA WorkerType ==
  ASSUME TypeOK, NEW r \in Runs, Worker(r)
  PROVE  TypeOK'
<1> USE DEF TypeOK, runVars, envVars, Procs, PcVals, StateVals
<1>1. CASE Hold(r) BY <1>1 DEF Hold
<1>2. CASE Handshake(r) BY <1>2 DEF Handshake
<1>3. CASE RunFails(r) BY <1>3 DEF RunFails
<1>4. CASE StreamEnds(r) BY <1>4 DEF StreamEnds
<1>5. CASE StreamCut(r) BY <1>5 DEF StreamCut
<1>6. CASE CaptureComplete(r) BY <1>6 DEF CaptureComplete
<1>7. CASE Roll(r) BY <1>7 DEF Roll
<1>8. CASE Close(r) BY <1>8 DEF Close
<1>9. CASE Finish(r) BY <1>9 DEF Finish
<1>10. CASE Report(r) BY <1>10 DEF Report, Reported
<1>11. CASE ReportFails(r) BY <1>11 DEF ReportFails
<1> QED BY <1>1, <1>2, <1>3, <1>4, <1>5, <1>6, <1>7, <1>8, <1>9, <1>10, <1>11
        DEF Worker

\* Reconciling a job's state keeps the type of st.
LEMMA ReconciledType ==
  ASSUME TypeOK, NEW p \in Procs
  PROVE  Reconciled(p) \in [Runs -> StateVals]
BY DEF TypeOK, Reconciled, StateVals

\* The scheduler thread keeps the types.
LEMMA TickType ==
  ASSUME TypeOK, Tick
  PROVE  TypeOK'
<1>0. Sched \in Callers BY DEF Callers
<1>a. Reconciled(LoopProc) \in [Runs -> StateVals]
  BY ReconciledType DEF Procs
<1> USE DEF TypeOK, At, Goto, runVars, envVars, ActVals
<1>1. CASE TickRead
  <2>1. Intent \in BOOLEAN BY SwitchAssumption DEF Intent
  <2> QED BY <1>0, <1>1, <2>1 DEF TickRead
<1>2. CASE TickDecide
  BY <1>0, <1>2, <1>a DEF TickDecide, NotRead
<1>3. CASE OverviewCheck BY <1>0, <1>3, <1>a DEF OverviewCheck
<1>4. CASE OverviewEnd BY <1>0, <1>4 DEF OverviewEnd
<1> QED BY <1>1, <1>2, <1>3, <1>4 DEF Tick

\* Requests keep the types.
LEMMA RequestType ==
  ASSUME TypeOK, NEW c \in Clients, Request(c) \/ Serve(c)
  PROVE  TypeOK'
<1>0. c \in Callers BY DEF Callers
<1>a. Reconciled(WebProc) \in [Runs -> StateVals]
  BY ReconciledType DEF Procs
<1> USE DEF TypeOK, At, Goto, runVars, envVars, ActVals
<1>1. CASE RecordContinuous(c) BY <1>0, <1>1 DEF RecordContinuous
<1>2. CASE CaptureProbe(c) BY <1>0, <1>2 DEF CaptureProbe
<1>3. CASE StopRequest(c) BY <1>0, <1>3 DEF StopRequest
<1>4. CASE StatusPoll(c) BY <1>0, <1>4, <1>a DEF StatusPoll
<1>5. CASE BenchCheck(c) BY <1>0, <1>5, <1>a DEF BenchCheck
<1>6. CASE DiagnoseBegin(c) BY <1>0, <1>6 DEF DiagnoseBegin
<1>7. CASE UpdateInstrument(c) BY <1>0, <1>7 DEF UpdateInstrument
<1>8. CASE ProbeRelease(c) BY <1>0, <1>8 DEF ProbeRelease
<1>9. CASE BenchHold(c) BY <1>0, <1>9 DEF BenchHold
<1>10. CASE BenchEnd(c) BY <1>0, <1>10 DEF BenchEnd
<1>11. CASE DiagnoseEnd(c) BY <1>0, <1>11 DEF DiagnoseEnd
<1> QED BY <1>1, <1>2, <1>3, <1>4, <1>5, <1>6, <1>7, <1>8, <1>9, <1>10, <1>11
        DEF Request, Serve

\* The window, the clock gate, crashes and restarts keep the types.
LEMMA EnvironmentType ==
  ASSUME TypeOK,
         WindowMoves \/ GateMoves \/ \E p \in Procs : Crash(p) \/ Restart(p)
  PROVE  TypeOK'
<1> USE DEF TypeOK, runVars, StateVals
<1>1. CASE WindowMoves BY <1>1 DEF WindowMoves
<1>2. CASE GateMoves BY <1>2 DEF GateMoves
<1>3. ASSUME NEW p \in Procs, Crash(p) PROVE TypeOK'
  <2> USE <1>3 DEF Crash
  <2>1. pc' \in [Runs -> PcVals] BY DEF PcVals
  <2>2. /\ running' \in [Runs -> BOOLEAN] /\ fd' \in [Runs -> BOOLEAN]
        /\ outcome' \in [Runs -> {"idle", "error"}]
    OBVIOUS
  <2>3. jobs' \in [Procs -> Runs \cup {None}] /\ up' \in [Procs -> BOOLEAN]
    OBVIOUS
  <2>4. act' \in [Callers -> ActVals] /\ tgt' \in [Callers -> Runs \cup {None}]
    BY DEF ActVals
  <2>5. want' \in [desired : BOOLEAN, gate : BOOLEAN] BY DEF NotRead
  <2>6. faults' \in [db : Nat, crash : Nat] OBVIOUS
  <2>7. lock' \in Runs \cup Clients \cup {None} BY DEF LockAfterCrash
  <2> QED BY <2>1, <2>2, <2>3, <2>4, <2>5, <2>6, <2>7
<1>4. ASSUME NEW p \in Procs, Restart(p) PROVE TypeOK'
  BY <1>4 DEF Restart
<1> QED BY <1>1, <1>2, <1>3, <1>4

\* Every reachable state has the declared types.
THEOREM TypeCorrect == Spec => []TypeOK
<1>1. Init => TypeOK
  <2> SUFFICES ASSUME Init PROVE TypeOK OBVIOUS
  <2>1. faults \in [db : Nat, crash : Nat] BY DEF Init
  <2>2. want \in [desired : BOOLEAN, gate : BOOLEAN] BY DEF Init, NotRead
  <2>3. jobs \in [Procs -> Runs \cup {None}] /\ up \in [Procs -> BOOLEAN]
    BY DEF Init
  <2>4. act \in [Callers -> ActVals] /\ tgt \in [Callers -> Runs \cup {None}]
    BY DEF Init, ActVals
  <2> QED BY <2>1, <2>2, <2>3, <2>4 DEF Init, TypeOK, PcVals, StateVals, Procs
<1>2. TypeOK /\ [Next]_vars => TypeOK'
  <2> SUFFICES ASSUME TypeOK, [Next]_vars PROVE TypeOK' OBVIOUS
  <2>1. CASE UNCHANGED vars BY <2>1 DEF vars, TypeOK
  <2>2. CASE Next
    BY <2>2, CallType, WorkerType, TickType, RequestType, EnvironmentType DEF Next
  <2> QED BY <2>1, <2>2
<1> QED BY <1>1, <1>2, PTL DEF Spec

-----------------------------------------------------------------------------
(* Mutual exclusion.  Whoever drives the device under the flock is its      *)
(* holder, and no step hands the flock from one holder to another.          *)

HolderInv ==
  /\ \A r \in Runs : Driving(r) => lock = r
  /\ \A c \in Clients : act[c] \in {"probe", "bench"} => lock = c

\* No step of the system replaces one holder of the flock by another.
LEMMA NoHandover ==
  ASSUME [Next]_vars
  PROVE  lock' = lock \/ lock = None \/ lock' = None
<1>1. CASE UNCHANGED vars BY <1>1 DEF vars
<1>2. ASSUME NEW r \in Runs, Worker(r) PROVE lock' = lock \/ lock = None \/ lock' = None
  BY <1>2 DEF Worker, Hold, Handshake, RunFails, StreamEnds, StreamCut,
     CaptureComplete, Roll, Close, Finish, Report, ReportFails, FlockFree
<1>3. ASSUME NEW c \in Callers, CallStep(c) PROVE lock' = lock
  BY <1>3 DEF CallStep, StartCheck, StartInsert, StartPersist,
     StartPersistFails, StartLaunch, StopCheck, StopDriver
<1>4. ASSUME NEW c \in Clients, Request(c) \/ Serve(c)
      PROVE lock' = lock \/ lock = None \/ lock' = None
  BY <1>4 DEF Request, Serve, RecordContinuous, CaptureProbe, StopRequest,
     StatusPoll, BenchCheck, DiagnoseBegin, UpdateInstrument, ProbeRelease,
     BenchHold, BenchEnd, DiagnoseEnd, FlockFree
<1>5. CASE Tick
  BY <1>5 DEF Tick, TickRead, TickDecide, OverviewCheck, OverviewEnd
<1>6. CASE WindowMoves \/ GateMoves BY <1>6 DEF WindowMoves, GateMoves
<1>7. ASSUME NEW p \in Procs, Crash(p) \/ Restart(p)
      PROVE lock' = lock \/ lock' = None
  BY <1>7 DEF Crash, LockAfterCrash, Restart
<1> QED BY <1>1, <1>2, <1>3, <1>4, <1>5, <1>6, <1>7 DEF Next

\* Worker threads preserve HolderInv.
LEMMA WorkerHolder ==
  ASSUME TypeOK, HolderInv, NEW r \in Runs, Worker(r)
  PROVE  HolderInv'
<1> USE NoneAssumption DEF HolderInv, Driving, TypeOK, runVars, envVars
<1>1. CASE Hold(r) BY <1>1 DEF Hold, FlockFree
<1>2. CASE Handshake(r) BY <1>2 DEF Handshake
<1>3. CASE RunFails(r) BY <1>3 DEF RunFails
<1>4. CASE StreamEnds(r) BY <1>4 DEF StreamEnds
<1>5. CASE StreamCut(r) BY <1>5 DEF StreamCut
<1>6. CASE CaptureComplete(r) BY <1>6 DEF CaptureComplete
<1>7. CASE Roll(r) BY <1>7 DEF Roll
<1>8. CASE Close(r) BY <1>8 DEF Close
<1>9. CASE Finish(r) BY <1>9 DEF Finish
<1>10. CASE Report(r) BY <1>10 DEF Report
<1>11. CASE ReportFails(r) BY <1>11 DEF ReportFails
<1> QED BY <1>1, <1>2, <1>3, <1>4, <1>5, <1>6, <1>7, <1>8, <1>9, <1>10, <1>11
        DEF Worker

\* Calls, requests and the scheduler preserve HolderInv.
LEMMA CallerHolder ==
  ASSUME TypeOK, HolderInv,
         \/ \E c \in Callers : CallStep(c)
         \/ \E c \in Clients : Request(c) \/ Serve(c)
         \/ Tick
  PROVE  HolderInv'
<1> USE NoneAssumption, SchedAssumption
    DEF HolderInv, Driving, TypeOK, runVars, envVars, At, Goto, Done, Callers
<1>1. ASSUME NEW c \in Callers, CallStep(c) PROVE HolderInv'
  <2>1. CASE StartCheck(c) BY <2>1 DEF StartCheck
  <2>2. CASE StartInsert(c) BY <2>2 DEF StartInsert
  <2>3. CASE StartPersist(c) BY <2>3 DEF StartPersist
  <2>4. CASE StartPersistFails(c) BY <2>4 DEF StartPersistFails
  <2>5. CASE StartLaunch(c) BY <2>5 DEF StartLaunch
  <2>6. CASE StopCheck(c) BY <2>6 DEF StopCheck
  <2>7. CASE StopDriver(c) BY <2>7 DEF StopDriver
  <2> QED BY <1>1, <2>1, <2>2, <2>3, <2>4, <2>5, <2>6, <2>7 DEF CallStep
<1>2. ASSUME NEW c \in Clients, Request(c) PROVE HolderInv'
  BY <1>2 DEF Request, RecordContinuous, CaptureProbe, StopRequest, StatusPoll,
     BenchCheck, DiagnoseBegin, UpdateInstrument, FlockFree
<1>3. ASSUME NEW c \in Clients, Serve(c) PROVE HolderInv'
  BY <1>3 DEF Serve, ProbeRelease, BenchHold, BenchEnd, DiagnoseEnd, FlockFree
<1>4. CASE Tick
  BY <1>4 DEF Tick, TickRead, TickDecide, OverviewCheck, OverviewEnd
<1> QED BY <1>1, <1>2, <1>3, <1>4

\* A crash takes the flock from the dead process and from nobody else.
LEMMA EnvironmentHolder ==
  ASSUME TypeOK, HolderInv,
         WindowMoves \/ GateMoves \/ \E p \in Procs : Crash(p) \/ Restart(p)
  PROVE  HolderInv'
<1> USE NoneAssumption, SchedAssumption DEF HolderInv, Driving, TypeOK, runVars
<1>1. CASE WindowMoves \/ GateMoves BY <1>1 DEF WindowMoves, GateMoves
<1>2. ASSUME NEW p \in Procs, Crash(p) PROVE HolderInv'
  BY <1>2 DEF Crash, LockAfterCrash, ProcOf, Callers
<1>3. ASSUME NEW p \in Procs, Restart(p) PROVE HolderInv'
  BY <1>3 DEF Restart
<1> QED BY <1>1, <1>2, <1>3

\* The holder of the flock is the operation that drives the device.
THEOREM HolderInvariant == Spec => []HolderInv
<1>1. Init => HolderInv
  BY DEF Init, HolderInv, Driving, Callers
<1>2. TypeOK /\ HolderInv /\ [Next]_vars => HolderInv'
  <2> SUFFICES ASSUME TypeOK, HolderInv, [Next]_vars PROVE HolderInv' OBVIOUS
  <2>1. CASE UNCHANGED vars BY <2>1 DEF vars, HolderInv, Driving
  <2>2. CASE Next
    BY <2>2, WorkerHolder, CallerHolder, EnvironmentHolder DEF Next
  <2> QED BY <2>1, <2>2
<1> QED BY <1>1, <1>2, TypeCorrect, PTL DEF Spec

\* Everything that drives the device under the flock is the flock's holder.
LEMMA HoldingIsHolder ==
  ASSUME HolderInv
  PROVE  \A u \in Holding : u = lock /\ u # None /\ u \in Runs \cup Clients
BY NoneAssumption DEF HolderInv, Holding

\* At most one recording, capture, bench session or on-demand overview drives
\* the device, in whatever process it runs.
THEOREM PortExclusiveTheorem == Spec => []PortExclusive
<1>1. HolderInv => PortExclusive BY HoldingIsHolder DEF PortExclusive
<1> QED BY <1>1, HolderInvariant, PTL

\* The control plane implements PortMutex: operations enter and leave the
\* device one at a time.
THEOREM ImplementsPortMutex == Spec => PortMutexSpec
<1>1. Init => Mutex!Init
  BY DEF Init, Mutex!Init, Holding, Driving, Callers
<1>2. HolderInv /\ HolderInv' /\ [Next]_vars => [Mutex!Next]_Holding
  <2> SUFFICES ASSUME HolderInv, HolderInv', [Next]_vars, Holding' # Holding
               PROVE  Mutex!Next
    OBVIOUS
  <2>1. \A u \in Holding : u = lock /\ u # None /\ u \in Runs \cup Clients
    BY HoldingIsHolder
  <2>2. \A u \in Holding' : u = lock' /\ u # None /\ u \in Runs \cup Clients
    BY NoneAssumption DEF HolderInv, Holding
  <2>3. lock' = lock \/ lock = None \/ lock' = None BY NoHandover
  <2>4. CASE Holding = {}
    <3>1. PICK u \in Holding' : TRUE BY <2>4
    <3>2. Holding' = {u} BY <2>2
    <3> QED BY <2>2, <2>4, <3>1, <3>2 DEF Mutex!Next, Mutex!Enter
  <2>5. CASE Holding # {}
    <3>1. PICK u \in Holding : TRUE BY <2>5
    <3>2. Holding = {u} BY <2>1
    <3>3. Holding' = {} BY <2>1, <2>2, <2>3, <3>1, <3>2
    <3> QED BY <2>1, <3>1, <3>2, <3>3 DEF Mutex!Next, Mutex!Leave
  <2> QED BY <2>4, <2>5
<1> QED BY <1>1, <1>2, HolderInvariant, PTL DEF Spec, PortMutexSpec, Mutex!Spec

-----------------------------------------------------------------------------
(* In the two-process deployment, without failing database writes, a        *)
(* recording of the daemon can always be stopped.  The daemon's registry is *)
(* written by its scheduler thread only, so between the status that tick    *)
(* reads and the thread start no other recording of the daemon comes to     *)
(* life, and the slot that a request thread starts is never the daemon's.   *)

Active(r) ==
  owner[r] = LoopProc /\ pc[r] \in {"lock", "handshake", "streaming", "closing", "finish"}

RegisteredInv == \A r \in Runs : Active(r) => jobs[LoopProc] = r /\ st[r] = "recording"

StartingInv ==
  /\ act[Sched] \in {"startCheck", "startInsert", "startPersist", "startLaunch"}
       => \A r \in Runs : ~Active(r)
  /\ act[Sched] \in {"startPersist", "startLaunch"}
       => /\ tgt[Sched] \in Runs /\ jobs[LoopProc] = tgt[Sched]
          /\ st[tgt[Sched]] = "recording" /\ owner[tgt[Sched]] = LoopProc

WebInv ==
  /\ \A c \in Clients : act[c] \in {"startPersist", "startLaunch"}
       => tgt[c] \in Runs /\ owner[tgt[c]] = WebProc
  /\ jobs[WebProc] \in Runs => owner[jobs[WebProc]] = WebProc

StopInv == RegisteredInv /\ StartingInv /\ WebInv

\* Worker threads preserve StopInv: each stays the registered job until its
\* own _finish, and reports of older ones no longer touch the registry.
LEMMA WorkerStop ==
  ASSUME LoopProc # WebProc, MaxDbFaults = 0, TypeOK, StopInv,
         NEW r \in Runs, Worker(r)
  PROVE  StopInv'
<1> USE DEF StopInv, RegisteredInv, StartingInv, WebInv, Active, TypeOK, runVars,
            envVars, Procs
<1>1. CASE Hold(r) BY <1>1 DEF Hold
<1>2. CASE Handshake(r) BY <1>2 DEF Handshake
<1>3. CASE RunFails(r) BY <1>3 DEF RunFails
<1>4. CASE StreamEnds(r) BY <1>4 DEF StreamEnds
<1>5. CASE StreamCut(r) BY <1>5 DEF StreamCut
<1>6. CASE CaptureComplete(r) BY <1>6 DEF CaptureComplete
<1>7. CASE Roll(r) BY <1>7 DEF Roll
<1>8. CASE Close(r) BY <1>8 DEF Close
<1>9. CASE Finish(r) BY <1>9 DEF Finish
<1>10. CASE Report(r) BY <1>10 DEF Report
<1>11. CASE ReportFails(r) BY <1>11 DEF ReportFails
<1> QED BY <1>1, <1>2, <1>3, <1>4, <1>5, <1>6, <1>7, <1>8, <1>9, <1>10, <1>11
        DEF Worker

\* start() and stop() preserve StopInv, whoever calls them.
LEMMA CallStop ==
  ASSUME LoopProc # WebProc, MaxDbFaults = 0, TypeOK, StopInv,
         NEW c \in Callers, CallStep(c)
  PROVE  StopInv'
<1> USE SchedAssumption, NoneAssumption
    DEF StopInv, RegisteredInv, StartingInv, WebInv, Active, TypeOK, runVars,
        envVars, Procs, Callers, At, Goto, Done, JobFor, ProcOf
<1>1. CASE StartCheck(c) BY <1>1 DEF StartCheck
<1>2. CASE StartInsert(c)
  BY <1>2 DEF StartInsert, Alive, Free
<1>3. CASE StartPersist(c) BY <1>3 DEF StartPersist
<1>4. CASE StartPersistFails(c) BY <1>4 DEF StartPersistFails
<1>5. CASE StartLaunch(c) BY <1>5 DEF StartLaunch
<1>6. CASE StopCheck(c) BY <1>6 DEF StopCheck
<1>7. CASE StopDriver(c) BY <1>7 DEF StopDriver
<1> QED BY <1>1, <1>2, <1>3, <1>4, <1>5, <1>6, <1>7 DEF CallStep

\* Requests preserve StopInv: the web process reconciles its own job only.
LEMMA RequestStop ==
  ASSUME LoopProc # WebProc, TypeOK, StopInv,
         NEW c \in Clients, Request(c) \/ Serve(c)
  PROVE  StopInv'
<1> USE SchedAssumption, NoneAssumption
    DEF StopInv, RegisteredInv, StartingInv, WebInv, Active, TypeOK, runVars,
        envVars, Procs, Callers, At, Goto, Reconciled, Alive
<1>1. CASE RecordContinuous(c) BY <1>1 DEF RecordContinuous
<1>2. CASE CaptureProbe(c) BY <1>2 DEF CaptureProbe
<1>3. CASE StopRequest(c) BY <1>3 DEF StopRequest
<1>4. CASE StatusPoll(c) BY <1>4 DEF StatusPoll
<1>5. CASE BenchCheck(c) BY <1>5 DEF BenchCheck
<1>6. CASE DiagnoseBegin(c) BY <1>6 DEF DiagnoseBegin
<1>7. CASE UpdateInstrument(c) BY <1>7 DEF UpdateInstrument
<1>8. CASE ProbeRelease(c) BY <1>8 DEF ProbeRelease
<1>9. CASE BenchHold(c) BY <1>9 DEF BenchHold
<1>10. CASE BenchEnd(c) BY <1>10 DEF BenchEnd
<1>11. CASE DiagnoseEnd(c) BY <1>11 DEF DiagnoseEnd
<1> QED BY <1>1, <1>2, <1>3, <1>4, <1>5, <1>6, <1>7, <1>8, <1>9, <1>10, <1>11
        DEF Request, Serve

\* The scheduler preserves StopInv: it starts only what is not active.
LEMMA TickStop ==
  ASSUME LoopProc # WebProc, TypeOK, StopInv, Tick
  PROVE  StopInv'
<1> USE SchedAssumption, NoneAssumption
    DEF StopInv, RegisteredInv, StartingInv, WebInv, Active, TypeOK, runVars,
        envVars, Procs, Callers, At, Goto, Reconciled, Alive
<1>1. CASE TickRead BY <1>1 DEF TickRead
<1>2. CASE TickDecide
  <2>1. \A r \in Runs : Active(r) => StatusOf(LoopProc) = "recording"
    BY DEF StatusOf
  <2> QED BY <1>2, <2>1 DEF TickDecide
<1>3. CASE OverviewCheck BY <1>3 DEF OverviewCheck
<1>4. CASE OverviewEnd BY <1>4 DEF OverviewEnd
<1> QED BY <1>1, <1>2, <1>3, <1>4 DEF Tick

\* The environment preserves StopInv: a crash ends every thread of a process
\* together with its registry.
LEMMA EnvironmentStop ==
  ASSUME LoopProc # WebProc, TypeOK, StopInv,
         WindowMoves \/ GateMoves \/ \E p \in Procs : Crash(p) \/ Restart(p)
  PROVE  StopInv'
<1> USE SchedAssumption, NoneAssumption
    DEF StopInv, RegisteredInv, StartingInv, WebInv, Active, TypeOK, runVars,
        Procs
<1>1. CASE WindowMoves \/ GateMoves BY <1>1 DEF WindowMoves, GateMoves
<1>2. ASSUME NEW p \in Procs, Crash(p) PROVE StopInv'
  BY <1>2 DEF Crash, ProcOf, Callers
<1>3. ASSUME NEW p \in Procs, Restart(p) PROVE StopInv'
  BY <1>3 DEF Restart
<1> QED BY <1>1, <1>2, <1>3

\* With the loops in a process of their own, every live recording of that
\* process is its registered job and says RECORDING, so that stop() reaches
\* it; a failing database write is the only thing that can undo this.
THEOREM StoppableTheorem ==
  ASSUME LoopProc # WebProc, MaxDbFaults = 0
  PROVE  Spec => []Stoppable
<1>1. Init => StopInv
  BY NoneAssumption DEF Init, StopInv, RegisteredInv, StartingInv, WebInv, Active,
     Callers, Procs
<1>2. TypeOK /\ StopInv /\ [Next]_vars => StopInv'
  <2> SUFFICES ASSUME TypeOK, StopInv, [Next]_vars PROVE StopInv' OBVIOUS
  <2>1. CASE UNCHANGED vars
    BY <2>1 DEF vars, StopInv, RegisteredInv, StartingInv, WebInv, Active
  <2>2. CASE Next
    BY <2>2, WorkerStop, CallStop, RequestStop, TickStop, EnvironmentStop DEF Next
  <2> QED BY <2>1, <2>2
<1>3. StopInv => Stoppable BY DEF StopInv, RegisteredInv, Active, Stoppable
<1> QED BY <1>1, <1>2, <1>3, TypeCorrect, PTL DEF Spec

=============================================================================
