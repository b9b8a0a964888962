-------------------------- MODULE RecorderService --------------------------
(***************************************************************************)
(* The recording control plane for one instrument.                         *)
(*                                                                         *)
(* A station runs two processes that share a SQLite row and a flock file:  *)
(* the web application and the `acquire' daemon (ADR-0007).  Each of them  *)
(* holds its own RecorderService, a registry with one job per instrument   *)
(* (services/recorder.py).  Calls come from request threads of the web     *)
(* process (api/routes/instruments.py) and from the scheduler thread of    *)
(* the process that runs the loops (services/scheduler_service.py).  Every *)
(* recording is a worker thread; what a thread does between two moments at *)
(* which another thread can observe it is one action here.                 *)
(*                                                                         *)
(* LoopProc = WebProc is the default deployment (run_loops_in_web), and    *)
(* LoopProc # WebProc the two-process one.                                 *)
(***************************************************************************)
EXTENDS Naturals

CONSTANTS
  WebProc,      \* the process that serves HTTP requests
  LoopProc,     \* the process that runs the scheduler loop
  Sched,        \* the scheduler thread
  Clients,      \* request threads of the web process
  Runs,         \* slots for recordings: bounds those referenced at once
  Ops,          \* the operations that clients ask for
  Windowed,     \* TRUE: a fixed/tracked schedule; FALSE: free-run
  Overviews,    \* TRUE: the schedule has an overview_at
  MaxDbFaults,  \* bound on failing database writes
  MaxCrashes,   \* bound on process crashes
  None

ASSUME SchedAssumption == Sched \notin Clients
ASSUME NoneAssumption ==
  /\ None \notin Runs \cup Clients \cup {Sched}
  /\ Runs \cap (Clients \cup {Sched}) = {}
ASSUME BoundAssumption == MaxDbFaults \in Nat /\ MaxCrashes \in Nat
ASSUME SwitchAssumption == Windowed \in BOOLEAN /\ Overviews \in BOOLEAN

Procs == {WebProc, LoopProc}
Callers == Clients \cup {Sched}
ProcOf(c) == IF c = Sched THEN LoopProc ELSE WebProc

VARIABLES
  pc,       \* pc[r]: where the worker thread of recording r is
  owner,    \* owner[r]: the process that started r
  kind,     \* kind[r]: "continuous" or "bounded" (a test capture)
  running,  \* running[r]: the _running flag of r's driver
  fd,       \* fd[r]: r's driver holds the serial port open
  outcome,  \* outcome[r]: the state r reports when it ends ("idle" when dead)
  st,       \* st[r]: RecorderStatus.state of r's job
  jobs,     \* jobs[p]: the recording registered in process p, or None
  lock,     \* holder of the instrument's flock, or None
  row,      \* RecorderRuntime.state, shared by the processes
  desired,  \* RecorderRuntime.desired, the operator's intent
  act,      \* act[c]: where caller c is
  tgt,      \* tgt[c]: the recording that c starts or stops, or None
  want,     \* what the scheduler read at the top of the current tick
  enabled,  \* Instrument.enabled
  open,     \* the recording window is open
  gate,     \* the clock gate lets recordings start
  up,       \* up[p]: process p runs
  faults    \* database faults and crashes so far

runVars == <<pc, owner, kind, running, fd, outcome>>
envVars == <<enabled, open, gate, up, faults>>
vars == <<pc, owner, kind, running, fd, outcome, st, jobs, lock, row, desired,
          act, tgt, want, enabled, open, gate, up, faults>>

PcVals == {"dead", "new", "lock", "handshake", "streaming", "closing",
           "finish", "report"}
ActVals == {"idle", "decide", "startCheck", "startInsert", "startPersist",
            "startLaunch", "stopCheck", "stopDriver", "overviewCheck",
            "overview", "probe", "benchHold", "bench", "diagnose"}
StateVals == {"idle", "recording", "error"}

TypeOK ==
  /\ pc \in [Runs -> PcVals]
  /\ owner \in [Runs -> Procs]
  /\ kind \in [Runs -> {"continuous", "bounded"}]
  /\ running \in [Runs -> BOOLEAN]
  /\ fd \in [Runs -> BOOLEAN]
  /\ outcome \in [Runs -> {"idle", "error"}]
  /\ st \in [Runs -> StateVals]
  /\ jobs \in [Procs -> Runs \cup {None}]
  /\ lock \in Runs \cup Clients \cup {None}
  /\ row \in StateVals
  /\ desired \in BOOLEAN
  /\ act \in [Callers -> ActVals]
  /\ tgt \in [Callers -> Runs \cup {None}]
  /\ want \in [desired : BOOLEAN, gate : BOOLEAN]
  /\ enabled \in BOOLEAN
  /\ open \in BOOLEAN
  /\ gate \in BOOLEAN
  /\ up \in [Procs -> BOOLEAN]
  /\ faults \in [db : Nat, crash : Nat]

\* `want' between ticks.
NotRead == [desired |-> FALSE, gate |-> FALSE]

Init ==
  /\ pc = [r \in Runs |-> "dead"]
  /\ owner = [r \in Runs |-> LoopProc]
  /\ kind = [r \in Runs |-> "continuous"]
  /\ running = [r \in Runs |-> FALSE]
  /\ fd = [r \in Runs |-> FALSE]
  /\ outcome = [r \in Runs |-> "idle"]
  /\ st = [r \in Runs |-> "idle"]
  /\ jobs = [p \in Procs |-> None]
  /\ lock = None
  /\ row = "idle"
  /\ desired = FALSE
  /\ act = [c \in Callers |-> "idle"]
  /\ tgt = [c \in Callers |-> None]
  /\ want = NotRead
  /\ enabled = TRUE
  /\ open = FALSE
  /\ gate = TRUE
  /\ up = [p \in Procs |-> TRUE]
  /\ faults = [db |-> 0, crash |-> 0]

-----------------------------------------------------------------------------
(* Helpers. *)

\* Mutant of Alive: a worker counts as alive only once it streams.
Alive_OnceStreaming(r) == pc[r] \notin {"dead", "new", "lock", "handshake"}

\* thread.is_alive(): false before start() and after _run returned.
Alive(r) == pc[r] \notin {"dead", "new"}

\* The statements of _run under port_lock.hold: the worker drives the device.
Driving(r) == pc[r] \in {"handshake", "streaming", "closing"}

Referenced(r) == (\E p \in Procs : jobs[p] = r) \/ (\E c \in Callers : tgt[c] = r)

\* The slot r can be that of a new job in p's registry: its thread is over and
\* nothing refers to it but the entry that the new job replaces.
Free(r, p) ==
  /\ ~Alive(r)
  /\ \A q \in Procs : jobs[q] = r => q = p
  /\ \A c \in Callers : tgt[c] # r

\* Mutant of Reconciled: no liveness reconciliation.
Reconciled_Never(p) == st

\* What job.status reads as after status() reconciled it: a job that claims
\* RECORDING although its thread is not alive becomes ERROR.
Reconciled(p) ==
  [r \in Runs |->
     IF r = jobs[p] /\ st[r] = "recording" /\ ~Alive(r) THEN "error" ELSE st[r]]

StatusOf(p) == IF jobs[p] = None THEN "idle" ELSE Reconciled(p)[jobs[p]]

\* The intent that tick acts on: the window of an enabled fixed/tracked
\* schedule, else the operator's flag.
Intent == IF Windowed THEN open ELSE desired

\* self._jobs.get(instrument_id), in the registry of the caller's process.
JobFor(c) == jobs[ProcOf(c)]

\* Mutant of FlockFree: LOCK_EX is forgotten.
FlockFree_Always == TRUE

\* flock(LOCK_EX | LOCK_NB) succeeds.
FlockFree == lock = None

At(c, a) == act[c] = a /\ up[ProcOf(c)]
Goto(c, a) == act' = [act EXCEPT ![c] = a]
Done(c) == Goto(c, "idle") /\ tgt' = [tgt EXCEPT ![c] = None]

-----------------------------------------------------------------------------
(* RecorderService.start, called by the scheduler and by test captures. *)

\* First locked block: refuse while the registered job claims RECORDING.
StartCheck(c) ==
  /\ At(c, "startCheck")
  /\ LET r == JobFor(c)
     IN  IF r # None /\ st[r] = "recording"
           THEN Goto(c, "idle")
           ELSE Goto(c, "startInsert")
  /\ UNCHANGED <<runVars, st, jobs, lock, row, desired, tgt, want, envVars>>

\* Second locked block: register the new job.  The thread does not run yet.
StartInsert(c) ==
  /\ At(c, "startInsert")
  /\ \E r \in Runs :
       /\ Free(r, ProcOf(c))
       /\ pc' = [pc EXCEPT ![r] = "new"]
       /\ owner' = [owner EXCEPT ![r] = ProcOf(c)]
       /\ kind' = [kind EXCEPT ![r] = IF c = Sched THEN "continuous" ELSE "bounded"]
       /\ running' = [running EXCEPT ![r] = FALSE]
       /\ fd' = [fd EXCEPT ![r] = FALSE]
       /\ outcome' = [outcome EXCEPT ![r] = "idle"]
       /\ st' = [st EXCEPT ![r] = "recording"]
       /\ jobs' = [jobs EXCEPT ![ProcOf(c)] = r]
       /\ tgt' = [tgt EXCEPT ![c] = r]
  /\ Goto(c, "startPersist")
  /\ UNCHANGED <<lock, row, desired, want, envVars>>

\* on_state(RECORDING): the row is committed before the thread starts.
StartPersist(c) ==
  /\ At(c, "startPersist")
  /\ row' = "recording"
  /\ Goto(c, "startLaunch")
  /\ UNCHANGED <<runVars, st, jobs, lock, desired, tgt, want, envVars>>

\* The commit raises: start() propagates it and the thread is never started.
StartPersistFails(c) ==
  /\ At(c, "startPersist")
  /\ faults.db < MaxDbFaults
  /\ faults' = [faults EXCEPT !.db = @ + 1]
  /\ Done(c)
  /\ UNCHANGED <<runVars, st, jobs, lock, row, desired, want, enabled, open, gate,
                 up>>

\* thread.start()
StartLaunch(c) ==
  /\ At(c, "startLaunch")
  /\ pc' = [pc EXCEPT ![tgt[c]] = "lock"]
  /\ Done(c)
  /\ UNCHANGED <<owner, kind, running, fd, outcome, st, jobs, lock, row,
                 desired, want, envVars>>

-----------------------------------------------------------------------------
(* RecorderService.stop *)

\* Fetch the job under the lock, then test its state without it.
StopCheck(c) ==
  /\ At(c, "stopCheck")
  /\ LET r == JobFor(c)
     IN  IF r # None /\ st[r] = "recording"
           THEN Goto(c, "stopDriver") /\ tgt' = [tgt EXCEPT ![c] = r]
           ELSE Done(c)
  /\ UNCHANGED <<runVars, st, jobs, lock, row, desired, want, envVars>>

\* driver.stop() on the caller's thread: clear _running and write STOP; the
\* write opens the port when it is closed (SerialConnection._ensure_open).
StopDriver(c) ==
  /\ At(c, "stopDriver")
  /\ running' = [running EXCEPT ![tgt[c]] = FALSE]
  /\ fd' = [fd EXCEPT ![tgt[c]] = TRUE]
  /\ Done(c)
  /\ UNCHANGED <<pc, owner, kind, outcome, st, jobs, lock, row, desired,
                 want, envVars>>

-----------------------------------------------------------------------------
(* The worker thread: RecorderService.start.<locals>._run *)

\* port_lock.hold: enter the lock, or InstrumentBusy.
Hold(r) ==
  /\ pc[r] = "lock"
  /\ \/ /\ FlockFree
        /\ lock' = r
        /\ pc' = [pc EXCEPT ![r] = "handshake"]
        /\ fd' = [fd EXCEPT ![r] = TRUE]
        /\ UNCHANGED outcome
     \/ /\ ~FlockFree
        /\ pc' = [pc EXCEPT ![r] = "finish"]
        /\ outcome' = [outcome EXCEPT ![r] = "error"]
        /\ UNCHANGED <<lock, fd>>
  /\ UNCHANGED <<owner, kind, running, st, jobs, row, desired, act, tgt, want,
                 envVars>>

\* connect, identify, configure, start: driver.start() sets _running, also
\* when a stop() came while the handshake was in progress.
Handshake(r) ==
  /\ pc[r] = "handshake"
  /\ pc' = [pc EXCEPT ![r] = "streaming"]
  /\ running' = [running EXCEPT ![r] = TRUE]
  /\ UNCHANGED <<owner, kind, fd, outcome, st, jobs, lock, row, desired, act,
                 tgt, want, envVars>>

\* A fault of the device or of a write: a handshake that times out, a
\* FatalInstrumentError, a product that cannot be written.
RunFails(r) ==
  /\ pc[r] \in {"handshake", "streaming"}
  /\ pc' = [pc EXCEPT ![r] = "closing"]
  /\ outcome' = [outcome EXCEPT ![r] = "error"]
  /\ UNCHANGED <<owner, kind, running, fd, st, jobs, lock, row, desired, act,
                 tgt, want, envVars>>

\* The stream ends because _running was cleared.  A continuous recording ends
\* IDLE; a capture that collected nothing ends in DataLossError.
StreamEnds(r) ==
  /\ pc[r] = "streaming" /\ ~running[r]
  /\ pc' = [pc EXCEPT ![r] = "closing"]
  /\ \E o \in (IF kind[r] = "bounded" THEN {"idle", "error"} ELSE {"idle"}) :
       outcome' = [outcome EXCEPT ![r] = o]
  /\ UNCHANGED <<owner, kind, running, fd, st, jobs, lock, row, desired, act,
                 tgt, want, envVars>>

\* The device reports Stopped, or the watchdog flags a corrupt sweep.
StreamCut(r) ==
  /\ pc[r] = "streaming" /\ running[r]
  /\ running' = [running EXCEPT ![r] = FALSE]
  /\ UNCHANGED <<pc, owner, kind, fd, outcome, st, jobs, lock, row, desired,
                 act, tgt, want, envVars>>

\* A capture has its max_frames sweeps.
CaptureComplete(r) ==
  /\ pc[r] = "streaming" /\ kind[r] = "bounded"
  /\ pc' = [pc EXCEPT ![r] = "closing"]
  /\ outcome' = [outcome EXCEPT ![r] = "idle"]
  /\ UNCHANGED <<owner, kind, running, fd, st, jobs, lock, row, desired, act,
                 tgt, want, envVars>>

\* A continuous recording rolls a file: _on_file writes RECORDING again.
Roll(r) ==
  /\ pc[r] = "streaming" /\ kind[r] = "continuous"
  /\ row' = "recording"
  /\ UNCHANGED <<runVars, st, jobs, lock, desired, act, tgt, want, envVars>>

\* The finally blocks: driver.stop(), driver.close(), then the flock.
Close(r) ==
  /\ pc[r] = "closing"
  /\ pc' = [pc EXCEPT ![r] = "finish"]
  /\ running' = [running EXCEPT ![r] = FALSE]
  /\ fd' = [fd EXCEPT ![r] = FALSE]
  /\ lock' = None
  /\ UNCHANGED <<owner, kind, outcome, st, jobs, row, desired, act, tgt, want,
                 envVars>>

\* _finish: write the outcome into whatever job is registered now.
Finish(r) ==
  /\ pc[r] = "finish"
  /\ pc' = [pc EXCEPT ![r] = "report"]
  /\ LET j == jobs[owner[r]]
     IN  st' = [s \in Runs |-> IF s = j THEN outcome[r] ELSE st[s]]
  /\ UNCHANGED <<owner, kind, running, fd, outcome, jobs, lock, row, desired,
                 act, tgt, want, envVars>>

\* Mutants of Reported: only faults are persisted; an unknown state is.
Reported_ErrorsOnly(r) == IF outcome[r] = "error" THEN "error" ELSE row
Reported_Unknown(r) == "stopped"

\* The state that ends up in the row.
Reported(r) == outcome[r]

\* on_state(IDLE) or on_state(ERROR), after _finish and outside its lock.
Report(r) ==
  /\ pc[r] = "report"
  /\ pc' = [pc EXCEPT ![r] = "dead"]
  /\ row' = Reported(r)
  /\ outcome' = [outcome EXCEPT ![r] = "idle"]
  /\ UNCHANGED <<owner, kind, running, fd, st, jobs, lock, desired, act, tgt,
                 want, envVars>>

\* That commit raises: `except Exception' finishes the job a second time as
\* ERROR; when the second report raises too, the thread dies.
ReportFails(r) ==
  /\ pc[r] = "report"
  /\ faults.db < MaxDbFaults
  /\ faults' = [faults EXCEPT !.db = @ + 1]
  /\ pc' = [pc EXCEPT ![r] = IF outcome[r] = "idle" THEN "finish" ELSE "dead"]
  /\ outcome' = [outcome EXCEPT ![r] = IF @ = "idle" THEN "error" ELSE "idle"]
  /\ UNCHANGED <<owner, kind, running, fd, st, jobs, lock, row, desired, act,
                 tgt, want, enabled, open, gate, up>>

Worker(r) ==
  \/ Hold(r) \/ Handshake(r) \/ RunFails(r) \/ StreamEnds(r) \/ StreamCut(r)
  \/ CaptureComplete(r) \/ Roll(r) \/ Close(r) \/ Finish(r) \/ Report(r)
  \/ ReportFails(r)

-----------------------------------------------------------------------------
(* The scheduler thread: SchedulerService.tick *)

\* Top of the tick: the clock gate and the intent are read.  An instrument
\* that is disabled (or deleted) is not visited.
TickRead ==
  /\ At(Sched, "idle") /\ enabled
  /\ want' = [desired |-> Intent, gate |-> gate]
  /\ Goto(Sched, "decide")
  /\ UNCHANGED <<runVars, st, jobs, lock, row, desired, tgt, envVars>>

\* Mutant of MustStop: a recording is only ever started.
MustStop_Never(rec) == FALSE

\* Only loss of intent stops a recording; a lost clock gate does not.
MustStop(rec) == ~want.desired /\ rec

\* recorder.status(), then start, stop, or the overview branch.
TickDecide ==
  /\ At(Sched, "decide")
  /\ st' = Reconciled(LoopProc)
  /\ LET rec == StatusOf(LoopProc) = "recording"
         mustStart == want.desired /\ want.gate /\ ~rec
     IN  \/ mustStart /\ Goto(Sched, "startCheck")
         \/ MustStop(rec) /\ Goto(Sched, "stopCheck")
         \/ /\ ~mustStart /\ ~MustStop(rec)
            /\ Goto(Sched, IF Windowed /\ Overviews THEN "overviewCheck" ELSE "idle")
  /\ want' = NotRead
  /\ UNCHANGED <<runVars, jobs, lock, row, desired, tgt, envVars>>

\* _maybe_overview: due or not, and only while status() is not RECORDING.
\* run_overview drives the device on this thread and takes no flock.
OverviewCheck ==
  /\ At(Sched, "overviewCheck")
  /\ st' = Reconciled(LoopProc)
  /\ \/ Goto(Sched, "idle")
     \/ StatusOf(LoopProc) # "recording" /\ Goto(Sched, "overview")
  /\ UNCHANGED <<runVars, jobs, lock, row, desired, tgt, want, envVars>>

OverviewEnd ==
  /\ At(Sched, "overview")
  /\ Goto(Sched, "idle")
  /\ UNCHANGED <<runVars, st, jobs, lock, row, desired, tgt, want, envVars>>

Tick == TickRead \/ TickDecide \/ OverviewCheck \/ OverviewEnd

-----------------------------------------------------------------------------
(* Requests: api/routes/instruments.py *)

\* POST record, frames = 0: express intent, the scheduler enacts it.
RecordContinuous(c) ==
  /\ At(c, "idle") /\ "record" \in Ops
  /\ desired' = TRUE
  /\ UNCHANGED <<runVars, st, jobs, lock, row, act, tgt, want, envVars>>

\* POST record, frames > 0: port_lock.is_busy takes the flock for a moment.
CaptureProbe(c) ==
  /\ At(c, "idle") /\ "capture" \in Ops
  /\ FlockFree
  /\ lock' = c
  /\ Goto(c, "probe")
  /\ UNCHANGED <<runVars, st, jobs, row, desired, tgt, want, envVars>>

ProbeRelease(c) ==
  /\ At(c, "probe")
  /\ lock' = None
  /\ Goto(c, "startCheck")
  /\ UNCHANGED <<runVars, st, jobs, row, desired, tgt, want, envVars>>

\* POST stop: clear the intent, then stop a recording of this process.
StopRequest(c) ==
  /\ At(c, "idle") /\ "stop" \in Ops
  /\ desired' = FALSE
  /\ Goto(c, "stopCheck")
  /\ UNCHANGED <<runVars, st, jobs, lock, row, tgt, want, envVars>>

\* GET status, and every page that shows the recorder's state.
StatusPoll(c) ==
  /\ At(c, "idle") /\ "status" \in Ops
  /\ st' = Reconciled(WebProc)
  /\ UNCHANGED <<runVars, jobs, lock, row, desired, act, tgt, want, envVars>>

\* POST overview and the bench routes: 409 while recording, else the flock.
BenchCheck(c) ==
  /\ At(c, "idle") /\ "bench" \in Ops
  /\ st' = Reconciled(WebProc)
  /\ StatusOf(WebProc) # "recording"
  /\ Goto(c, "benchHold")
  /\ UNCHANGED <<runVars, jobs, lock, row, desired, tgt, want, envVars>>

BenchHold(c) ==
  /\ At(c, "benchHold")
  /\ IF FlockFree
       THEN lock' = c /\ Goto(c, "bench")
       ELSE Goto(c, "idle") /\ UNCHANGED lock
  /\ UNCHANGED <<runVars, st, jobs, row, desired, tgt, want, envVars>>

BenchEnd(c) ==
  /\ At(c, "bench")
  /\ lock' = None
  /\ Goto(c, "idle")
  /\ UNCHANGED <<runVars, st, jobs, row, desired, tgt, want, envVars>>

\* GET diagnose: connect and identify, with neither check nor flock.
DiagnoseBegin(c) ==
  /\ At(c, "idle") /\ "diagnose" \in Ops
  /\ Goto(c, "diagnose")
  /\ UNCHANGED <<runVars, st, jobs, lock, row, desired, tgt, want, envVars>>

DiagnoseEnd(c) ==
  /\ At(c, "diagnose")
  /\ Goto(c, "idle")
  /\ UNCHANGED <<runVars, st, jobs, lock, row, desired, tgt, want, envVars>>

\* PATCH instrument (DELETE removes it from the tick in the same way): neither
\* looks at the recorder.
UpdateInstrument(c) ==
  /\ At(c, "idle")
  /\ \E e \in BOOLEAN :
       /\ (IF e THEN "enable" ELSE "disable") \in Ops
       /\ enabled' = e
  /\ UNCHANGED <<runVars, st, jobs, lock, row, desired, act, tgt, want, open,
                 gate, up, faults>>

Request(c) ==
  \/ RecordContinuous(c) \/ CaptureProbe(c) \/ StopRequest(c) \/ StatusPoll(c)
  \/ BenchCheck(c) \/ DiagnoseBegin(c) \/ UpdateInstrument(c)

\* What a request thread does next once it serves a request.
Serve(c) == ProbeRelease(c) \/ BenchHold(c) \/ BenchEnd(c) \/ DiagnoseEnd(c)

\* What any thread does next inside RecorderService.start or stop.
CallStep(c) ==
  \/ StartCheck(c) \/ StartInsert(c) \/ StartPersist(c) \/ StartPersistFails(c)
  \/ StartLaunch(c) \/ StopCheck(c) \/ StopDriver(c)

-----------------------------------------------------------------------------
(* The environment. *)

WindowMoves ==
  /\ Windowed
  /\ open' = ~open
  /\ UNCHANGED <<runVars, st, jobs, lock, row, desired, act, tgt, want, enabled,
                 gate, up, faults>>

GateMoves ==
  /\ gate' = ~gate
  /\ UNCHANGED <<runVars, st, jobs, lock, row, desired, act, tgt, want, enabled,
                 open, up, faults>>

\* Mutant of LockAfterCrash: the lock is cleared whoever holds it.
LockAfterCrash_Cleared(p) == None

\* The kernel drops the flocks of a dead process, and only those.
LockAfterCrash(p) ==
  IF \/ \E r \in Runs : lock = r /\ owner[r] = p
     \/ p = WebProc /\ lock \in Clients
    THEN None ELSE lock

\* A process dies: its threads, its registry, its descriptors and, with
\* them, its flock are gone.  The row stays.
Crash(p) ==
  /\ up[p] /\ faults.crash < MaxCrashes
  /\ faults' = [faults EXCEPT !.crash = @ + 1]
  /\ up' = [up EXCEPT ![p] = FALSE]
  /\ pc' = [r \in Runs |-> IF owner[r] = p THEN "dead" ELSE pc[r]]
  /\ running' = [r \in Runs |-> IF owner[r] = p THEN FALSE ELSE running[r]]
  /\ outcome' = [r \in Runs |-> IF owner[r] = p THEN "idle" ELSE outcome[r]]
  /\ fd' = [r \in Runs |-> IF owner[r] = p THEN FALSE ELSE fd[r]]
  /\ jobs' = [jobs EXCEPT ![p] = None]
  /\ act' = [c \in Callers |-> IF ProcOf(c) = p THEN "idle" ELSE act[c]]
  /\ tgt' = [c \in Callers |-> IF ProcOf(c) = p THEN None ELSE tgt[c]]
  /\ lock' = LockAfterCrash(p)
  /\ want' = IF p = LoopProc THEN NotRead ELSE want
  /\ UNCHANGED <<owner, kind, st, row, desired, enabled, open, gate>>

\* The service manager restarts it.  The process with the loops first runs
\* seed_desired_from_boot: a leftover `recording' row becomes idle.
Restart(p) ==
  /\ ~up[p]
  /\ up' = [up EXCEPT ![p] = TRUE]
  /\ row' = IF p = LoopProc /\ row = "recording" THEN "idle" ELSE row
  /\ UNCHANGED <<runVars, st, jobs, lock, desired, act, tgt, want, enabled,
                 open, gate, faults>>

Next ==
  \/ \E r \in Runs : Worker(r)
  \/ \E c \in Callers : CallStep(c)
  \/ \E c \in Clients : Request(c) \/ Serve(c)
  \/ Tick
  \/ WindowMoves \/ GateMoves
  \/ \E p \in Procs : Crash(p) \/ Restart(p)

Spec == Init /\ [][Next]_vars

-----------------------------------------------------------------------------
(* Fairness.  Threads of a live process get to run; reads of the port time *)
(* out, so a cleared _running flag ends the stream; a capture gets its      *)
(* sweeps or fails; systemd restarts a dead process.  Nothing is assumed    *)
(* of faults, requests, the window or the clock gate.                       *)

Progress(r) ==
  Hold(r) \/ Handshake(r) \/ StreamEnds(r) \/ CaptureComplete(r) \/ Close(r)
    \/ Finish(r) \/ Report(r)

Fairness ==
  /\ \A r \in Runs : WF_vars(Progress(r)) /\ WF_vars(Roll(r))
  /\ \A c \in Callers : WF_vars(CallStep(c))
  /\ \A c \in Clients : WF_vars(Serve(c))
  /\ WF_vars(Tick)
  /\ \A p \in Procs : WF_vars(Restart(p))

FairSpec == Spec /\ Fairness

-----------------------------------------------------------------------------
(* Properties. *)

\* The operations that drive the device under port_lock.hold.
Holding == {r \in Runs : Driving(r)} \cup {c \in Clients : act[c] = "bench"}

\* port_lock: of the operations that take the flock (recordings, captures,
\* bench sessions and on-demand overviews, in either process) at most one
\* drives the device at any time.
PortExclusive == \A u, v \in Holding : u = v

\* The same promise as an abstract specification: every step of the control
\* plane enters or leaves the device for one operation, or does neither.
Mutex == INSTANCE PortMutex WITH Users <- Runs \cup Clients, using <- Holding
PortMutexSpec == Mutex!Spec

\* port_lock.py: "One physical device, one operation at a time -- across
\* processes. Record, overview, diagnose, and bench all open the same serial
\* port".  Counts the diagnose request and the scheduled overview as well.
OneOperation ==
  LET users == Holding \cup {c \in Callers : act[c] \in {"diagnose", "overview"}}
  IN  \A u, v \in users : u = v

\* A recording of the process with the scheduler is the registered job and
\* says RECORDING from thread start until its stream ends, so that stop()
\* reaches its driver and tick does not start a second one.
Stoppable ==
  \A r \in Runs :
    owner[r] = LoopProc /\ pc[r] \in {"lock", "handshake", "streaming"}
      => jobs[LoopProc] = r /\ st[r] = "recording"

\* POST record with frames > 0 is "a bounded in-process test capture of that
\* many sweeps" (instruments.py:156): the tick, which stops what the schedule
\* does not want, must not stop a capture.
CapturesSpared == act[Sched] = "stopDriver" => kind[tgt[Sched]] # "bounded"

\* When no recording thread lives and no call is under way, no driver that a
\* registry keeps has the serial port open: recording "releases the port".
PortReleased ==
  (\A c \in Callers : act[c] = "idle") /\ (\A r \in Runs : ~Alive(r))
    => \A r \in Runs : Referenced(r) => ~fd[r]

\* While intent, clock gate and instrument stay on and requests leave the port
\* alone, the scheduler always gets a recording to the device again, whatever
\* faults, captures, bench sessions or moments of is_busy ended the one before.
ReArm ==
  <>[](Intent /\ gate /\ enabled /\ \A c \in Clients : act[c] = "idle")
    => []<>(\E r \in Runs :
              owner[r] = LoopProc /\ kind[r] = "continuous" /\ Driving(r))

\* When the operator pressed Record and later, for good, Stop, continuous
\* recording ends for good: "a human Stop is always respected"
\* (scheduler_service.py:269).
StopAlways ==
  <>desired /\ <>[]~desired
    => <>[](\A r \in Runs : ~(kind[r] = "continuous" /\ pc[r] = "streaming"))

\* Every write of the row succeeds.
NoDbFault == faults.db = 0

\* The same while no row write fails.  The handler of a failing one can mark
\* the job of the next recording, which stop() then ignores.
StopRespected == []NoDbFault => StopAlways

\* When recording has ended for good, the row does not go on saying RECORDING,
\* unless its last write failed.
RowSettles ==
  []NoDbFault /\ <>[](\A r \in Runs : ~Alive(r) /\ pc[r] # "new") => <>[](row # "recording")
=============================================================================
