--------------------------- MODULE SchedulerTick ---------------------------
(***************************************************************************)
(* The scheduler (services/scheduler_service.py) over all instruments of a *)
(* station: seeding of the operator flags at boot, the tick that visits    *)
(* the instruments one after the other, the scheduled overview, and the    *)
(* requests that change flags, schedules and instruments meanwhile.        *)
(*                                                                         *)
(* A recording is one state per instrument here; its thread, the registry  *)
(* and the port are the subject of RecorderService, the watchdog that a    *)
(* visit ends with is the subject of AutoRecover.                          *)
(***************************************************************************)
EXTENDS ScheduleWindows, Sequences, SequencesExt

CONSTANTS
  N,          \* instruments 1 .. N, visited in the order of their ids
  Templates,  \* schedules that an operator may create
  Stations,   \* the stations to begin with: sky, start_on_boot, schedules
  Split,      \* TRUE: the loops run in the acquire daemon, apart from the web
  MaxDays, MaxScheds, MaxRequests, MaxReboots, MaxFaults   \* bounds

Instruments == 1..N

ASSUME BoundsAssumption ==
  /\ N \in Nat /\ MaxDays \in Nat /\ MaxScheds \in Nat /\ MaxRequests \in Nat
  /\ MaxReboots \in Nat /\ MaxFaults \in Nat /\ Split \in BOOLEAN

ASSUME SchedulesAssumption ==
  \A s \in Templates : s.kind = "tracked" => s.margin \in Nat

ASSUME StationsAssumption ==
  \A st \in Stations :
    /\ st.sky \in [rise : 0..(Day - 1), len : 0..Day]
    /\ st.start_on_boot \in [Instruments -> BOOLEAN]
    /\ st.scheds \in [Instruments -> Seq(Templates)]
    /\ \A i \in Instruments : Len(st.scheds[i]) <= MaxScheds

VARIABLES
  sky, day, now,  \* the station's sky and the UT clock
  inst,     \* instrument rows: enabled, start_on_boot, calibration resolves
  scheds,   \* per instrument its schedule rows, all enabled, in the order of creation
  desired,  \* operator flag of the runtime row
  rec,      \* the recorder's state: "idle", "recording" or "error"
  gone,     \* the device is unplugged
  gate,     \* the clock gate
  boot,     \* the machine's boot id
  marker,   \* contents of .boot_epoch
  pc,       \* the loop: "down", "seed", "idle", "tick" or "overview"
  todo,     \* ids still to be seeded or visited
  t,        \* the tick's now and gate_ok
  requests, faults,  \* counters for the bounds
  halted,   \* history: the marker when Stop was the operator's last word since
            \* the machine booted, NotHalted when it was not
  taken     \* history: overviews taken, per instrument and day

clock == <<sky, day, now>>
config == <<inst, scheds, requests>>
loop == <<pc, todo, t>>
vars == <<clock, config, desired, rec, gone, gate, boot, marker, loop, faults, halted, taken>>

Days == 0..MaxDays

\* Ids of schedule rows, which are only ever looked up within one instrument.
Ids == 1..MaxScheds

NotHalted == -1

Skies == {st.sky : st \in Stations}
Inst == [enabled : BOOLEAN, start_on_boot : BOOLEAN, cal : BOOLEAN]
Row  == [id : Ids, s : Templates, last : Days \cup {-1}]
Tick == [day : Days, now : 0..(Day - 1), gate_ok : BOOLEAN, sched : Ids \cup {0}]

NoTick == [day |-> 0, now |-> 0, gate_ok |-> TRUE, sched |-> 0]

\* The values that the state may take.
TypeOK ==
  /\ sky \in Skies /\ day \in Days /\ now \in 0..(Day - 1)
  /\ inst \in [Instruments -> Inst]
  /\ scheds \in [Instruments -> Seq(Row)]
  /\ \A i \in Instruments : Len(scheds[i]) <= MaxScheds
  /\ desired \in [Instruments -> BOOLEAN]
  /\ rec \in [Instruments -> {"idle", "recording", "error"}]
  /\ gone \in [Instruments -> BOOLEAN]
  /\ gate \in BOOLEAN
  /\ boot \in 1..(MaxReboots + 1) /\ marker \in 0..(MaxReboots + 1)
  /\ pc \in {"down", "seed", "idle", "tick", "overview"}
  /\ todo \subseteq Instruments
  /\ t \in Tick
  /\ requests \in 0..MaxRequests /\ faults \in 0..MaxFaults
  /\ halted \in [Instruments -> (0..(MaxReboots + 1)) \cup {NotHalted}]
  /\ taken \in [Instruments -> [Days -> Nat]]

Init ==
  /\ \E st \in Stations :
       /\ sky = st.sky
       /\ inst = [i \in Instruments |->
                   [enabled |-> TRUE, start_on_boot |-> st.start_on_boot[i], cal |-> TRUE]]
       /\ scheds = [i \in Instruments |->
                     [k \in DOMAIN st.scheds[i] |-> [id |-> k, s |-> st.scheds[i][k], last |-> -1]]]
  /\ day = 0 /\ now = 0
  /\ desired \in [Instruments -> BOOLEAN]
  /\ rec = [i \in Instruments |-> "idle"]
  /\ gone = [i \in Instruments |-> FALSE]
  /\ gate = TRUE
  /\ boot = 1 /\ marker = 0
  /\ pc = "down" /\ todo = {}
  /\ t = NoTick
  /\ requests = 0 /\ faults = 0
  /\ halted = [i \in Instruments |-> NotHalted]
  /\ taken = [i \in Instruments |-> [d \in Days |-> 0]]

-----------------------------------------------------------------------------
(* What a visit looks at. *)

\* _active_schedule: the first enabled schedule that is not manual, by index.
ActiveIndex(i) == {k \in DOMAIN scheds[i] : scheds[i][k].s.kind # "manual"}
Windowed(i) == ActiveIndex(i) # {}
Active(i) == scheds[i][Min(ActiveIndex(i))]

Window(i) == ScheduleWindow(Active(i).s, sky)

\* The intent at time n: the window, or the operator's flag in free-run.
Intent(i, n) == IF Windowed(i) THEN IsRecordingDesired(Window(i), n) ELSE desired[i]

\* _maybe_overview, up to the test of the recorder's state.
OverviewDue(i) ==
  /\ Windowed(i)
  /\ Active(i).s.overview # NotATime
  /\ Active(i).last # t.day
  /\ t.now >= Active(i).s.overview
  /\ rec[i] # "recording"

-----------------------------------------------------------------------------
(* Boot: seed_desired_from_boot, called by start_loop. *)

\* Mutant of BootRead: the flags are seeded whenever the process starts.
BootRead_Always ==
  /\ pc = "down"
  /\ marker' = boot
  /\ pc' = "seed" /\ todo' = Instruments
  /\ UNCHANGED <<clock, config, desired, rec, gone, gate, boot, t, faults, halted, taken>>

\* A mere restart of the service keeps the flags; after a reboot the marker is
\* written and then the flags are seeded.
BootRead ==
  /\ pc = "down"
  /\ marker' = boot
  /\ IF marker = boot THEN pc' = "idle" /\ todo' = {}
     ELSE pc' = "seed" /\ todo' = Instruments
  /\ UNCHANGED <<clock, config, desired, rec, gone, gate, boot, t, faults, halted, taken>>

\* The stale rows cannot be reset (database busy): nothing is seeded.
BootFails ==
  /\ pc = "down" /\ faults < MaxFaults
  /\ faults' = faults + 1
  /\ pc' = "idle"
  /\ UNCHANGED <<clock, config, desired, rec, gone, gate, boot, marker, todo, t, halted, taken>>

\* The intent of an instrument with a window is its window.
SeedOne ==
  /\ pc = "seed" /\ todo # {}
  /\ LET i == Min(todo) IN
       /\ desired' = [desired EXCEPT ![i] = IF Windowed(i) THEN @ ELSE inst[i].start_on_boot]
       /\ todo' = todo \ {i}
  /\ UNCHANGED <<clock, config, rec, gone, gate, boot, marker, pc, t, faults, halted, taken>>

\* The loop starts when all flags are seeded, or when set_desired raised.
SeedEnds ==
  /\ pc = "seed"
  /\ \/ todo = {} /\ UNCHANGED faults
     \/ todo # {} /\ faults < MaxFaults /\ faults' = faults + 1
  /\ pc' = "idle" /\ todo' = {}
  /\ UNCHANGED <<clock, config, desired, rec, gone, gate, boot, marker, t, halted, taken>>

-----------------------------------------------------------------------------
(* The tick. *)

\* The tick takes the time, the clock gate and the ids of enabled instruments.
TickBegin ==
  /\ pc = "idle"
  /\ pc' = "tick"
  /\ todo' = {i \in Instruments : inst[i].enabled}
  /\ t' = [NoTick EXCEPT !.day = day, !.now = now, !.gate_ok = gate]
  /\ UNCHANGED <<clock, config, desired, rec, gone, gate, boot, marker, faults, halted, taken>>

\* The end of the loop over the instruments, or an exception that the loop
\* thread swallows.
TickEnd ==
  /\ pc' = "idle" /\ todo' = {} /\ t' = NoTick
  /\ UNCHANGED <<clock, config, desired, rec, gone, gate, boot, marker, faults, halted, taken>>

TickDone == pc = "tick" /\ todo = {} /\ TickEnd

Visiting(i) == pc = "tick" /\ todo # {} /\ i = Min(todo)

Visited(i) ==
  /\ todo' = todo \ {i}
  /\ UNCHANGED <<clock, config, desired, gone, gate, boot, marker, pc, t, faults, halted, taken>>

Starts(i) == Intent(i, t.now) /\ t.gate_ok /\ rec[i] # "recording"
Stops(i)  == ~Intent(i, t.now) /\ rec[i] = "recording"

WindowRaises(i) == Windowed(i) /\ Window(i) = Raise

\* Mutant of VisitStart: a recording that ended in an error is not started again.
VisitStart_Error(i) ==
  /\ Visiting(i) /\ ~WindowRaises(i)
  /\ Starts(i) /\ inst[i].cal /\ rec[i] = "idle"
  /\ rec' = [rec EXCEPT ![i] = "recording"]
  /\ Visited(i)

\* _start: the calibration of the instrument resolves.
VisitStart(i) ==
  /\ Visiting(i) /\ ~WindowRaises(i)
  /\ Starts(i) /\ inst[i].cal
  /\ rec' = [rec EXCEPT ![i] = "recording"]
  /\ Visited(i)

\* Mutant of VisitStop: a closed clock gate keeps the recording.
VisitStop_Gate(i) ==
  /\ Visiting(i) /\ ~WindowRaises(i)
  /\ Stops(i) /\ t.gate_ok
  /\ rec' = [rec EXCEPT ![i] = "idle"]
  /\ Visited(i)

VisitStop(i) ==
  /\ Visiting(i) /\ ~WindowRaises(i)
  /\ Stops(i)
  /\ rec' = [rec EXCEPT ![i] = "idle"]
  /\ Visited(i)

VisitNothing(i) ==
  /\ Visiting(i) /\ ~WindowRaises(i)
  /\ ~Starts(i) /\ ~Stops(i) /\ ~OverviewDue(i)
  /\ UNCHANGED rec
  /\ Visited(i)

\* run_overview writes its files; the row is committed in a second step.
VisitOverview(i) ==
  /\ Visiting(i) /\ ~WindowRaises(i)
  /\ ~Starts(i) /\ ~Stops(i) /\ OverviewDue(i) /\ ~gone[i]
  /\ pc' = "overview"
  /\ t' = [t EXCEPT !.sched = Active(i).id]
  /\ taken' = [taken EXCEPT ![i][t.day] = @ + 1]
  /\ UNCHANGED <<clock, config, desired, rec, gone, gate, boot, marker, todo, faults, halted>>

\* The three ways in which a visit ends in an exception: a window that cannot
\* be computed, a calibration that does not fit, an overview without a device.
Raises(i) ==
  \/ WindowRaises(i)
  \/ Starts(i) /\ ~inst[i].cal
  \/ ~Starts(i) /\ ~Stops(i) /\ OverviewDue(i) /\ gone[i]

VisitRaises(i) == Visiting(i) /\ Raises(i) /\ TickEnd

\* Mutant of OverviewCommit: the date is not stored.
OverviewCommit_NoDate ==
  /\ pc = "overview"
  /\ pc' = "tick" /\ todo' = todo \ {Min(todo)}
  /\ UNCHANGED <<clock, config, desired, rec, gone, gate, boot, marker, t, faults, halted, taken>>

\* last_overview_date of the schedule that was looked at.  When the row was
\* deleted meanwhile the commit raises, which ends the tick.
OverviewCommit ==
  /\ pc = "overview"
  /\ LET i == Min(todo)
         rows == {k \in DOMAIN scheds[i] : scheds[i][k].id = t.sched}
     IN \/ /\ rows # {}
           /\ scheds' = [scheds EXCEPT ![i][Min(rows)].last = t.day]
           /\ pc' = "tick" /\ todo' = todo \ {i} /\ t' = [t EXCEPT !.sched = 0]
        \/ /\ rows = {}
           /\ pc' = "idle" /\ todo' = {} /\ t' = NoTick
           /\ UNCHANGED scheds
  /\ UNCHANGED <<clock, inst, requests, desired, rec, gone, gate, boot, marker, faults, halted, taken>>

OverviewCommitFails ==
  /\ pc = "overview" /\ faults < MaxFaults
  /\ faults' = faults + 1
  /\ pc' = "idle" /\ todo' = {} /\ t' = NoTick
  /\ UNCHANGED <<clock, config, desired, rec, gone, gate, boot, marker, halted, taken>>

-----------------------------------------------------------------------------
(* Requests.  One process serves them once its loops have started; a web   *)
(* process of its own serves them always.                                  *)

Serving == Split \/ pc \notin {"down", "seed"}
Requested == Serving /\ requests < MaxRequests /\ requests' = requests + 1

\* record_instrument without a number of frames.
Record(i) ==
  /\ Requested
  /\ desired' = [desired EXCEPT ![i] = TRUE]
  /\ halted' = [halted EXCEPT ![i] = NotHalted]
  /\ UNCHANGED <<clock, inst, scheds, rec, gone, gate, boot, marker, loop, faults, taken>>

\* stop_instrument; recorder.stop finds a job only in the process of the loop.
Stop(i) ==
  /\ Requested
  /\ desired' = [desired EXCEPT ![i] = FALSE]
  /\ halted' = [halted EXCEPT ![i] = marker]
  /\ rec' = [rec EXCEPT ![i] = IF ~Split /\ @ = "recording" THEN "idle" ELSE @]
  /\ UNCHANGED <<clock, inst, scheds, gone, gate, boot, marker, loop, faults, taken>>

\* A new row may have the id of a deleted one.
CreateSchedule(i) ==
  /\ Requested
  /\ Len(scheds[i]) < MaxScheds
  /\ \E s \in Templates, id \in Ids :
       /\ \A k \in DOMAIN scheds[i] : scheds[i][k].id # id
       /\ scheds' = [scheds EXCEPT ![i] = Append(@, [id |-> id, s |-> s, last |-> -1])]
  /\ UNCHANGED <<clock, inst, desired, rec, gone, gate, boot, marker, loop, faults, halted, taken>>

\* A new schedule has overviews of its own.
DeleteSchedule(i) ==
  /\ Requested
  /\ \E k \in DOMAIN scheds[i] :
       /\ scheds' = [scheds EXCEPT ![i] = RemoveAt(@, k)]
       /\ taken' = [taken EXCEPT ![i] = [d \in Days |-> 0]]
  /\ UNCHANGED <<clock, inst, desired, rec, gone, gate, boot, marker, loop, faults, halted>>

\* update_instrument: enabled, start_on_boot, or channels and calibration set
\* that fit each other or do not.
UpdateInstrument(i) ==
  /\ Requested
  /\ \/ inst' = [inst EXCEPT ![i].enabled = ~@]
     \/ inst' = [inst EXCEPT ![i].start_on_boot = ~@]
     \/ inst' = [inst EXCEPT ![i].cal = ~@]
  /\ UNCHANGED <<clock, scheds, desired, rec, gone, gate, boot, marker, loop, faults, halted, taken>>

-----------------------------------------------------------------------------
(* Environment. *)

Clock ==
  /\ now' = (now + 1) % Day
  /\ IF now' = 0 THEN day < MaxDays /\ day' = day + 1 ELSE UNCHANGED day
  /\ UNCHANGED <<sky, config, desired, rec, gone, gate, boot, marker, loop, faults, halted, taken>>

GateFlips ==
  /\ faults < MaxFaults
  /\ gate' = ~gate /\ faults' = faults + 1
  /\ UNCHANGED <<clock, config, desired, rec, gone, boot, marker, loop, halted, taken>>

\* A recording ends with an error of its thread.
RecordingFails(i) ==
  /\ rec[i] = "recording" /\ faults < MaxFaults
  /\ rec' = [rec EXCEPT ![i] = "error"] /\ faults' = faults + 1
  /\ UNCHANGED <<clock, config, desired, gone, gate, boot, marker, loop, halted, taken>>

\* A recording of an unplugged device ends with an error, too.
Unplugged(i) ==
  /\ ~gone[i] /\ faults < MaxFaults
  /\ gone' = [gone EXCEPT ![i] = TRUE] /\ faults' = faults + 1
  /\ rec' = [rec EXCEPT ![i] = IF @ = "recording" THEN "error" ELSE @]
  /\ UNCHANGED <<clock, config, desired, gate, boot, marker, loop, halted, taken>>

ProcessEnds ==
  /\ pc' = "down" /\ todo' = {} /\ t' = NoTick
  /\ rec' = [i \in Instruments |-> "idle"]

Crash ==
  /\ pc # "down" /\ faults < MaxFaults
  /\ ProcessEnds /\ faults' = faults + 1
  /\ UNCHANGED <<clock, config, desired, gone, gate, boot, marker, halted, taken>>

Reboot ==
  /\ boot <= MaxReboots
  /\ ProcessEnds /\ boot' = boot + 1
  /\ halted' = [i \in Instruments |-> NotHalted]
  /\ UNCHANGED <<clock, config, desired, gone, gate, marker, faults, taken>>

-----------------------------------------------------------------------------
Visit(i) ==
  \/ VisitStart(i) \/ VisitStop(i) \/ VisitNothing(i)
  \/ VisitOverview(i) \/ VisitRaises(i)

LoopStep ==
  \/ BootRead \/ SeedOne \/ SeedEnds
  \/ TickBegin \/ TickDone \/ OverviewCommit
  \/ \E i \in Instruments : Visit(i)

Request(i) ==
  \/ Record(i) \/ Stop(i)
  \/ CreateSchedule(i) \/ DeleteSchedule(i) \/ UpdateInstrument(i)

Next ==
  \/ LoopStep
  \/ BootFails \/ OverviewCommitFails
  \/ \E i \in Instruments : Request(i) \/ RecordingFails(i) \/ Unplugged(i)
  \/ Clock \/ GateFlips \/ Crash \/ Reboot

Spec == Init /\ [][Next]_vars

\* The loop thread runs, the service manager restarts the process.
FairSpec == Spec /\ WF_vars(LoopStep)

-----------------------------------------------------------------------------
(* Properties. *)

\* The windows follow the sky: a tracked source other than the Sun is never up
\* outside its window unless a margin trims it, the Sun's window never reaches
\* into the night, and it holds the whole of a day that does not span 0 UT.
SkyFollowed ==
  \A i \in Instruments : Windowed(i) /\ Active(i).s.kind = "tracked" =>
    LET s == Active(i).s IN
    /\ s.source \in Sources /\ s.margin = 0 /\ Up(sky, now) => Intent(i, now)
    /\ s.source = "sun" /\ Intent(i, now) => Up(sky, now)
    /\ s.source = "sun" /\ s.margin = 0 /\ Up(sky, now) /\ ~Up(sky, 0) => Intent(i, now)

\* A human Stop that comes after this boot's id was written is respected until
\* the operator says otherwise or the machine reboots: neither a restart of the
\* service nor a crash in the middle of the seeding brings the recording back.
StopKept == \A i \in Instruments : halted[i] = boot => ~desired[i]

\* A schedule's overview is taken once a day; only a fault or a reboot between
\* the overview and the commit of its date makes the scheduler repeat it.
OverviewOnce == \A i \in Instruments, d \in Days : taken[i][d] <= boot + faults

\* Nothing about instrument i makes its visit raise.
Sound(i) == inst[i].cal /\ ~gone[i] /\ ~WindowRaises(i)
Reached(i) == \A j \in 1..i : Sound(j)

\* An enabled instrument that is to record does so, again and again whatever
\* ends its recordings, when its visit and those before it do not raise.
Served ==
  \A i \in Instruments :
    <>[](inst[i].enabled /\ Intent(i, now) /\ gate /\ Reached(i))
      => []<>(rec[i] = "recording")

\* A recording ends for good when its window closes or its flag is cleared,
\* with the clock in doubt or not.
WindowCloses ==
  \A i \in Instruments :
    <>[](inst[i].enabled /\ ~Intent(i, now) /\ Reached(i))
      => <>[](rec[i] # "recording")

\* services/scheduler.py: no window means that the source is never up that day.
SunTracked ==
  \A i \in Instruments :
    Windowed(i) /\ Active(i).s.kind = "tracked" /\ Window(i) = NoWindow =>
      \A k \in 0..Day : ~Up(sky, k)

\* seed_desired_from_boot: "a human Stop is always respected".
StopAlwaysKept == \A i \in Instruments : halted[i] # NotHalted => ~desired[i]

\* DESIGN 14a: when the device of one instrument is lost the other instruments
\* are unaffected.
Isolated ==
  \A i \in Instruments :
    <>[](/\ inst[i].enabled /\ Intent(i, now) /\ gate /\ ~gone[i]
         /\ \A j \in Instruments : inst[j].cal /\ ~WindowRaises(j))
      => []<>(rec[i] = "recording")
=============================================================================
