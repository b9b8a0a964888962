---------------------------- MODULE AutoRecover ----------------------------
(***************************************************************************)
(* The opt-in recovery watchdog (services/auto_recover.py) of one          *)
(* instrument, with what it watches: the heartbeat of the recorder         *)
(* (RecorderRuntime.last_frame_at and updated_at, services/liveness.py)    *)
(* and the recordings that the scheduler starts and that end in faults.    *)
(*                                                                         *)
(* The unit of time is the scheduler's tick.  Timestamps are kept as ages, *)
(* which stop counting once they exceed every bound they are compared with.*)
(***************************************************************************)
EXTENDS Naturals, FiniteSets

CONSTANTS
  Bound,       \* stall_bound_seconds, in ticks
  Budget,      \* auto_recover_budget
  Window,      \* auto_recover_window_seconds, in ticks
  Faulty,      \* TRUE: the device may go mute
  MaxCrashes,  \* bound on crashes of the daemon
  Never        \* the timestamp of what has not happened yet

ASSUME NumberAssumption ==
  Bound \in Nat /\ Budget \in Nat /\ Window \in Nat /\ MaxCrashes \in Nat
ASSUME NeverAssumption == Never \notin Nat
ASSUME FaultyAssumption == Faulty \in BOOLEAN

VARIABLES
  rec,      \* the recorder: "idle", "starting", "streaming" or "error"
  since,    \* age of the current recording
  dev,      \* the device is "ok", or "mute"
  desired,  \* the intent that the scheduler acts on
  gate,     \* the clock gate lets recordings start
  seen,     \* age of row.last_frame_at, or Never
  upd,      \* age of row.updated_at, or Never: no row
  hist,     \* _history: ages of the recoveries the daemon remembers
  alerted,  \* the instrument is in _alerted
  due,      \* the next tick is due
  crashes,  \* crashes so far
  log       \* history: ages of all recoveries of the last Window ticks

vars == <<rec, since, dev, desired, gate, seen, upd, hist, alerted, due, crashes, log>>

Recording == {"starting", "streaming"}

AgeCap == Bound + 1
Older(a) == IF a = Never \/ a = AgeCap THEN a ELSE a + 1

\* Mutant of Aged: the deque is not cut to the window.
Aged_NoCut(ages) == {a + 1 : a \in ages}

\* Recoveries one tick older; those older than the window are forgotten.
Aged(ages) == {a + 1 : a \in ages} \cap 0..Window

TypeOK ==
  /\ rec \in Recording \cup {"idle", "error"}
  /\ since \in 0..AgeCap
  /\ dev \in {"ok", "mute"}
  /\ desired \in BOOLEAN
  /\ gate \in BOOLEAN
  /\ seen \in 0..AgeCap \cup {Never}
  /\ upd \in 0..AgeCap \cup {Never}
  /\ hist \subseteq 0..Window
  /\ alerted \in BOOLEAN
  /\ due \in BOOLEAN
  /\ crashes \in 0..MaxCrashes
  /\ log \subseteq 0..Window

Init ==
  /\ rec = "idle" /\ since = 0
  /\ dev \in (IF Faulty THEN {"ok", "mute"} ELSE {"ok"})
  /\ desired = FALSE /\ gate = TRUE
  /\ seen = Never /\ upd = Never
  /\ hist = {} /\ alerted = FALSE
  /\ due = FALSE /\ crashes = 0
  /\ log = {}

-----------------------------------------------------------------------------
(* The watchdog. *)

\* Mutants of HeartbeatAge: the age of any write of the row; of the recording.
HeartbeatAge_Run(u) == since
HeartbeatAge_AnyWrite(u) == u

\* The age that consider and is_stalled look at: of the last frame, or of the
\* last write of the row while no frame was ever seen.
HeartbeatAge(u) == IF seen = Never THEN u ELSE seen

\* Mutant of Spent: one recovery too many.
Spent_OffByOne == Cardinality(hist) > Budget

\* The deque has been cut to the window; is the budget used up?
Spent == Cardinality(hist) >= Budget

\* host.run_hook("recover"): the device may come back, or not.
RunHook == dev' \in {dev, "ok"}

\* AutoRecover.consider, with the row's updated_at age u (Never: no row).
Consider(u) ==
  \/ /\ u = Never \/ HeartbeatAge(u) <= Bound
     /\ alerted' = (alerted /\ u = Never)
     /\ UNCHANGED <<hist, log, dev>>
  \/ /\ u # Never /\ HeartbeatAge(u) > Bound /\ Spent
     /\ alerted' = TRUE
     /\ UNCHANGED <<hist, log, dev>>
  \/ /\ u # Never /\ HeartbeatAge(u) > Bound /\ ~Spent
     /\ hist' = hist \cup {0}
     /\ log' = log \cup {0}
     /\ RunHook
     /\ UNCHANGED alerted

\* SchedulerService.tick for this instrument: start or stop, then consider.
\* A stream that is stopped ends and writes IDLE before the next tick; a stop
\* in the handshake has no effect (driver.start() sets _running again).
Tick ==
  /\ due
  /\ due' = FALSE
  /\ LET start == desired /\ gate /\ rec \notin Recording
         ends == ~desired /\ rec = "streaming"
         u == IF start \/ ends THEN 0 ELSE upd
     IN  /\ rec' = IF start THEN "starting" ELSE IF ends THEN "idle" ELSE rec
         /\ since' = IF start THEN 0 ELSE since
         /\ upd' = u
         /\ IF desired /\ gate
              THEN Consider(u) ELSE UNCHANGED <<hist, log, dev, alerted>>
  /\ UNCHANGED <<desired, gate, seen, crashes>>

-----------------------------------------------------------------------------
(* The recording thread and the device. *)

\* The handshake succeeds.
Handshake ==
  /\ rec = "starting" /\ dev = "ok"
  /\ rec' = "streaming"
  /\ UNCHANGED <<since, dev, desired, gate, seen, upd, hist, alerted, due, crashes, log>>

\* on_heartbeat: touch_frame stamps last_frame_at and, as every write of the
\* row does, updated_at.
Heartbeat ==
  /\ rec = "streaming" /\ dev = "ok"
  /\ seen' = 0 /\ upd' = 0
  /\ UNCHANGED <<rec, since, dev, desired, gate, hist, alerted, due, crashes, log>>

\* A mute device: the handshake times out, or the driver's resets are used
\* up; the thread reports ERROR.
RunFails ==
  /\ rec \in Recording /\ dev = "mute"
  /\ rec' = "error"
  /\ upd' = 0
  /\ UNCHANGED <<since, dev, desired, gate, seen, hist, alerted, due, crashes, log>>

GoesMute ==
  /\ Faulty /\ dev = "ok"
  /\ dev' = "mute"
  /\ UNCHANGED <<rec, since, desired, gate, seen, upd, hist, alerted, due, crashes, log>>

\* One tick's time passes.  A healthy stream has stamped the row meanwhile.
Elapse ==
  /\ ~due
  /\ rec = "streaming" /\ dev = "ok" => seen = 0
  /\ due' = TRUE
  /\ since' = Older(since) /\ seen' = Older(seen) /\ upd' = Older(upd)
  /\ hist' = Aged(hist) /\ log' = Aged(log)
  /\ UNCHANGED <<rec, dev, desired, gate, alerted, crashes>>

\* The window opens or closes, the operator presses Record or Stop.
IntentMoves ==
  /\ desired' = ~desired
  /\ UNCHANGED <<rec, since, dev, gate, seen, upd, hist, alerted, due, crashes, log>>

\* The clock gains or loses its synchronisation.
GateMoves ==
  /\ gate' = ~gate
  /\ UNCHANGED <<rec, since, dev, desired, seen, upd, hist, alerted, due, crashes, log>>

\* The daemon dies and is restarted: its recording and its memory of
\* recoveries are gone; seed_desired_from_boot rewrites a `recording' row.
Crash ==
  /\ crashes < MaxCrashes
  /\ crashes' = crashes + 1
  /\ upd' = IF rec \in Recording THEN 0 ELSE upd
  /\ rec' = "idle"
  /\ hist' = {} /\ alerted' = FALSE
  /\ UNCHANGED <<since, dev, desired, gate, seen, due, log>>

Next ==
  \/ Tick \/ Handshake \/ Heartbeat \/ RunFails \/ GoesMute \/ Elapse
  \/ IntentMoves \/ GateMoves \/ Crash

Spec == Init /\ [][Next]_vars

\* Time passes, the scheduler ticks, handshakes and self-healing are bounded.
Fairness ==
  /\ WF_vars(Tick) /\ WF_vars(Elapse)
  /\ WF_vars(Handshake) /\ WF_vars(Heartbeat) /\ WF_vars(RunFails)

FairSpec == Spec /\ Fairness

-----------------------------------------------------------------------------
(* Properties. *)

\* The last step of the watchdog was a recovery.
Cycled == 0 \in log

\* "after auto_recover_budget attempts in a window it stops": no span of Window
\* ticks sees more than Budget recoveries, and as many again for each restart
\* of the daemon, which forgets the earlier ones.
BudgetHeld == Cardinality(log) <= Budget * (crashes + 1)

\* Frames that stop for good while recording is wanted end in an alert.
Escalates ==
  <>[](desired /\ gate /\ dev = "mute" /\ seen # Never) => <>[]alerted

\* liveness.py:66: "a mute-from-the-start one is once it passes the bound": a
\* device that is mute for good while recording is wanted ends in an alert, also
\* when it never delivered a frame.
MuteNoticed == <>[](desired /\ gate /\ dev = "mute") => <>[]alerted

\* A device that works again for good is left alone in the end, and its alert is
\* taken back: the age of a frame of before, a budget that is used up, and what
\* a restart forgot do not go on being held against it.
Calms ==
  <>[](desired /\ gate /\ dev = "ok") => <>[](~Cycled /\ ~alerted)

\* liveness.py:66: "a just-started recording isn't flagged": what is
\* power-cycled is no recording of a good device that began within the bound.
FreshStartSpared == Cycled /\ rec \in Recording /\ dev = "ok" => since > Bound
=============================================================================
