--------------------------- MODULE CallistoStream ---------------------------
(***************************************************************************)
(* A continuous recording of one receiver, from the end of its handshake:  *)
(* CallistoDriver.stream with its self-heal (drivers/callisto/driver.py)   *)
(* and record_continuous, which consumes it and rolls files                *)
(* (services/acquisition.py).  Both run in one thread: the generator       *)
(* sleeps while the consumer handles a sweep.  Another thread may call     *)
(* driver.stop() at any time.                                              *)
(*                                                                         *)
(* The unit of time is the read timeout of the serial port.  Ages stop     *)
(* counting one past the bound they are compared with.  Sweeps are         *)
(* numbered in the order in which the receiver sends them.                 *)
(***************************************************************************)
EXTENDS Naturals, Sequences, FiniteSets

CONSTANTS
  Timeout,        \* _no_data_timeout()
  Window,         \* _RESET_WINDOW_S
  Budget,         \* _RESET_BUDGET
  FramesPerFile,  \* sweeps of a full file
  Period,         \* a healthy receiver sends a sweep at least this often
  MaxSlow,        \* the longest time the consumer spends between two sweeps
  Kinds,          \* the faults that the receiver may develop
  MaxFaults,      \* bound on faults
  MaxChunk,       \* bound on sweeps that one read returns
  MaxSweeps,      \* bound on sweeps
  None

\* mute: silent until a RESET.  junk: bytes without sweeps, until a RESET.
\* wedged: silent until the port is reopened.  latched: every call on the
\* file handle raises OSError.  dead: silent for good.  gone: OSError for good.
\* babble: bytes without sweeps, whatever is written to it.
Curable == {"mute", "junk", "wedged", "latched"}
Hopeless == {"dead", "gone", "babble"}

ASSUME TimeAssumption ==
  Timeout \in Nat /\ Window \in Nat /\ Period \in Nat /\ MaxSlow \in Nat
ASSUME BudgetAssumption == Budget \in Nat /\ FramesPerFile \in Nat \ {0}
ASSUME KindAssumption == Kinds \subseteq Curable \cup Hopeless
ASSUME BoundAssumption ==
  MaxFaults \in Nat /\ MaxChunk \in Nat /\ MaxSweeps \in Nat
ASSUME NoneAssumption == None \notin {"stop", "loss", "error", "fatal"}

VARIABLES
  pc,        \* where the recording thread is
  running,   \* _running
  gap,       \* time since last_frame
  resets,    \* ages of the resets in the deque, oldest first
  chunk,     \* parsed sweeps that are still to be yielded
  batch,     \* `collected': sweeps of the current file
  ending,    \* why the recording ends, or None
  filed,     \* the sweeps of all files written so far
  dev,       \* "ok", or the receiver's fault
  nsweep,    \* sweeps sent so far
  faults,    \* faults so far
  acquired,  \* history: the sweeps that the consumer accepted
  unwritten, \* history: a file could not be written
  held,      \* history: the consumer kept the generator asleep for longer than
             \* the timeout after last_frame was stamped
  holds      \* history: how often it did

vars == <<pc, running, gap, resets, chunk, batch, ending, filed, dev, nsweep,
          faults, acquired, unwritten, held, holds>>

history == <<acquired, unwritten, held, holds>>

Pcs == {"read", "deliver", "check", "stall", "fault", "drain", "flush", "close",
        "done"}
Endings == {None, "stop", "loss", "error", "fatal"}
GapCap == Timeout + 1
AgeCap == Window + 1

TypeOK ==
  /\ pc \in Pcs
  /\ running \in BOOLEAN
  /\ gap \in 0..GapCap
  /\ resets \in Seq(0..AgeCap)
  /\ chunk \in Seq(Nat)
  /\ batch \in Seq(Nat)
  /\ ending \in Endings
  /\ filed \in Seq(Nat)
  /\ dev \in {"ok"} \cup Kinds
  /\ nsweep \in Nat
  /\ faults \in Nat
  /\ acquired \in Seq(Nat)
  /\ unwritten \in BOOLEAN
  /\ held \in BOOLEAN
  /\ holds \in Nat

Init ==
  /\ pc = "read" /\ running = TRUE /\ gap = 0
  /\ resets = <<>> /\ chunk = <<>> /\ batch = <<>> /\ filed = <<>>
  /\ ending = None
  /\ dev = "ok" /\ nsweep = 0 /\ faults = 0
  /\ acquired = <<>> /\ unwritten = FALSE /\ held = FALSE /\ holds = 0

-----------------------------------------------------------------------------
(* Time. *)

Capped(n, cap) == IF n > cap THEN cap ELSE n

\* Mutant of Older: ages are not cut off.
Older_Uncut(d) == [i \in DOMAIN resets |-> resets[i] + d]

\* The deque after d units of time.
Older(d) == [i \in DOMAIN resets |-> Capped(resets[i] + d, AgeCap)]

\* d units of time pass.
Pass(d) == gap' = Capped(gap + d, GapCap) /\ resets' = Older(d)

-----------------------------------------------------------------------------
(* Reads: the top of the loop of stream() *)

\* A read returns k sweeps.
ReadSweeps ==
  /\ pc = "read" /\ running /\ dev = "ok"
  /\ \E k \in 1..MaxChunk :
       /\ nsweep + k <= MaxSweeps
       /\ nsweep' = nsweep + k
       /\ chunk' = [i \in 1..k |-> nsweep + i]
  /\ pc' = "deliver"
  /\ UNCHANGED <<running, gap, resets, batch, ending, filed, dev,
                 faults, history>>

\* A read returns no sweep: it times out, or there are other bytes.
ReadNothing ==
  /\ pc = "read" /\ running
  /\ dev \notin {"latched", "gone"}
  /\ dev = "ok" => gap < Period
  /\ Pass(1)
  /\ pc' = "check"
  /\ UNCHANGED <<running, chunk, batch, ending, filed, dev, nsweep,
                 faults, history>>

\* A message of the receiver says "Stopped".
ReadStopped ==
  /\ pc = "read" /\ running /\ dev = "ok"
  /\ running' = FALSE
  /\ pc' = "check"
  /\ UNCHANGED <<gap, resets, chunk, batch, ending, filed, dev, nsweep,
                 faults, history>>

\* A corrupt sample: the parser raises, and the sweeps that came before it in
\* this chunk are dropped.
ReadCorrupt ==
  /\ pc = "read" /\ running /\ dev = "ok" /\ faults < MaxFaults
  /\ faults' = faults + 1
  /\ \E k \in 0..(MaxChunk - 1) :
       nsweep + k <= MaxSweeps /\ nsweep' = nsweep + k
  /\ pc' = "fault"
  /\ UNCHANGED <<running, gap, resets, chunk, batch, ending, filed,
                 dev, history>>

\* The read raises OSError.
ReadError ==
  /\ pc = "read" /\ running /\ dev \in {"latched", "gone"}
  /\ pc' = "fault"
  /\ UNCHANGED <<running, gap, resets, chunk, batch, ending, filed, dev, nsweep,
                 faults, history>>

\* Mutant of Stalled: the timeout counts from the wrong side.
Stalled_Early == gap >= Timeout

\* No sweep for longer than the timeout.
Stalled == gap > Timeout

\* After the sweeps of a chunk: the stall test.
Check ==
  /\ pc = "check"
  /\ pc' = IF running /\ Stalled THEN "stall" ELSE "read"
  /\ UNCHANGED <<running, gap, resets, chunk, batch, ending, filed, dev, nsweep,
                 faults, history>>

-----------------------------------------------------------------------------
(* The consumer: record_continuous *)

\* History: with d more the consumer outlasts the timeout.
Late(since, d) == since <= Timeout /\ since + d > Timeout

\* The generator stamps last_frame and yields; the consumer publishes the
\* sweep, beats the heart and keeps it, which takes d: SQLite alone may make
\* it wait for longer than the timeout.
Deliver ==
  /\ pc = "deliver"
  /\ batch' = Append(batch, Head(chunk))
  /\ acquired' = Append(acquired, Head(chunk))
  /\ chunk' = Tail(chunk)
  /\ \E d \in 0..MaxSlow :
       /\ gap' = Capped(d, GapCap) /\ resets' = Older(d)
       /\ held' = Late(0, d)
       /\ holds' = IF Late(0, d) THEN holds + 1 ELSE holds
  /\ pc' = IF Len(batch') = FramesPerFile THEN "flush"
           ELSE IF chunk' # <<>> THEN "deliver" ELSE "check"
  /\ UNCHANGED <<running, ending, filed, dev, nsweep, faults, unwritten>>

\* Mutant of Ends: an exception skips the flush.
Ends_Unflushed(why) ==
  /\ ending' = why
  /\ pc' = IF why = "stop" /\ batch # <<>> THEN "flush" ELSE "close"
  /\ chunk' = <<>>

\* The batch ends, for good: it is flushed first (`finally').
Ends(why) ==
  /\ ending' = why
  /\ pc' = IF batch # <<>> THEN "flush" ELSE "close"
  /\ chunk' = <<>>

\* The watchdog rejects the sweep, or on_frame raises.
Reject ==
  /\ pc = "deliver"
  /\ Ends("loss") \/ Ends("error")
  /\ UNCHANGED <<running, gap, resets, batch, filed, dev, nsweep,
                 faults, history>>

\* The product is written and on_file called, which takes d more; on_file may
\* raise.
Flush ==
  /\ pc = "flush"
  /\ filed' = filed \o batch
  /\ batch' = <<>>
  /\ \E d \in 0..MaxSlow :
       /\ Pass(d)
       /\ held' = (held \/ Late(gap, d))
       /\ holds' = IF Late(gap, d) THEN holds + 1 ELSE holds
  /\ \/ /\ pc' = IF ending # None THEN "close"
                 ELSE IF chunk # <<>> THEN "deliver" ELSE "check"
        /\ UNCHANGED <<ending, chunk>>
     \/ pc' = "close" /\ ending' = "error" /\ chunk' = <<>>
  /\ UNCHANGED <<running, dev, nsweep, faults, acquired, unwritten>>

\* The product cannot be written: its sweeps are lost.
FlushFails ==
  /\ pc = "flush"
  /\ batch' = <<>>
  /\ unwritten' = TRUE
  /\ ending' = "error" /\ pc' = "close" /\ chunk' = <<>>
  /\ UNCHANGED <<running, gap, resets, filed, dev, nsweep, faults, acquired,
                 held, holds>>

\* The stream ends because _running is cleared: a short batch.
StreamEnds ==
  /\ pc = "read" /\ ~running
  /\ Ends("stop")
  /\ UNCHANGED <<running, gap, resets, batch, filed, dev, nsweep,
                 faults, history>>

\* driver.stop(), driver.close()
Close ==
  /\ pc = "close"
  /\ pc' = "done" /\ running' = FALSE
  /\ UNCHANGED <<gap, resets, chunk, batch, ending, filed, dev, nsweep,
                 faults, history>>

-----------------------------------------------------------------------------
(* The self-heal: _recover *)

\* Mutant of Recent: the window is the stall timeout.
Recent_Stall ==
  LET old == Cardinality({i \in DOMAIN resets : resets[i] > Timeout})
  IN  SubSeq(resets, old + 1, Len(resets))

\* The deque without the resets that left the window.
Recent ==
  LET old == Cardinality({i \in DOMAIN resets : resets[i] > Window})
  IN  SubSeq(resets, old + 1, Len(resets))

\* Mutant of Escalate: every reset is a soft one.
Escalate_Never == FALSE

\* Not the first reset of the window: reopen the port.
Escalate == Len(Recent) >= 1

\* What a reset makes of the receiver.
Healed(reopened) ==
  IF dev \in {"mute", "junk"} \/ (reopened /\ dev \in {"wedged", "latched"})
    THEN "ok" ELSE dev

\* The budget of the window is used up: FatalInstrumentError.
GiveUp ==
  /\ pc \in {"stall", "fault"}
  /\ Len(Recent) >= Budget
  /\ running' = FALSE
  /\ resets' = Recent
  /\ Ends("fatal")
  /\ UNCHANGED <<gap, batch, filed, dev, nsweep, faults, history>>

\* _soft_reset or _reopen writes RESET and drains the line.  A handle that
\* raises OSError ends the attempt.
Reset ==
  /\ pc \in {"stall", "fault"}
  /\ Len(Recent) < Budget
  /\ resets' = Append(Recent, 0)
  /\ dev' = Healed(Escalate)
  /\ IF dev' \in {"latched", "gone"}
       THEN pc' = "read" /\ gap' = 0
       ELSE pc' = "drain" /\ UNCHANGED gap
  /\ held' = FALSE
  /\ UNCHANGED <<running, chunk, batch, ending, filed, nsweep, faults, acquired,
                 unwritten, holds>>

\* Mutant of Drained: re-arming sets _running, as start() does.
Drained_Restarts ==
  /\ pc = "drain" /\ dev # "babble"
  /\ resets' = Older(1) /\ gap' = 0
  /\ pc' = "read" /\ running' = TRUE
  /\ UNCHANGED <<chunk, batch, ending, filed, dev, nsweep, faults, history>>

\* The line is silent for a read timeout; init and start are sent again.
\* _drain reads on while bytes come: from a receiver that never falls silent
\* it does not return, and the thread takes no further step.
Drained ==
  /\ pc = "drain" /\ dev # "babble"
  /\ resets' = Older(1) /\ gap' = 0
  /\ pc' = "read"
  /\ UNCHANGED <<running, chunk, batch, ending, filed, dev, nsweep,
                 faults, history>>

-----------------------------------------------------------------------------
(* Others. *)

\* driver.stop() of another thread: an operator's Stop, the scheduler.
Stop ==
  /\ running
  /\ running' = FALSE
  /\ UNCHANGED <<pc, gap, resets, chunk, batch, ending, filed, dev, nsweep,
                 faults, history>>

\* The receiver develops a fault.
Break ==
  /\ dev = "ok" /\ pc # "done" /\ faults < MaxFaults
  /\ dev' \in Kinds
  /\ faults' = faults + 1
  /\ UNCHANGED <<pc, running, gap, resets, chunk, batch, ending, filed,
                 nsweep, history>>

Read == ReadSweeps \/ ReadNothing \/ ReadStopped \/ ReadCorrupt \/ ReadError

Thread ==
  \/ Read \/ Check \/ Deliver \/ Reject \/ Flush \/ FlushFails \/ StreamEnds
  \/ Close \/ GiveUp \/ Reset \/ Drained

Next == Thread \/ Stop \/ Break

Spec == Init /\ [][Next]_vars

\* The thread runs: reads and writes of the port return.  Nothing is assumed
\* of faults, of Stop and of what the receiver says.
Progress ==
  \/ ReadSweeps \/ ReadNothing \/ ReadError \/ Check \/ Deliver \/ Flush
  \/ StreamEnds \/ Close \/ GiveUp \/ Reset \/ Drained

FairSpec == Spec /\ WF_vars(Progress)

-----------------------------------------------------------------------------
(* Properties. *)

\* "acquired sweeps are never lost": whatever ends the recording, the sweeps
\* that the consumer accepted are in files, each once and in order, unless a
\* file could not be written.
NothingLost == pc \in {"close", "done"} /\ ~unwritten => filed = acquired

\* A receiver that keeps sending sweeps is reset for a stall only when the
\* consumer outlasted the timeout: the time between sweeps, and shorter waits of
\* the consumer, are not held against it.
HealthyLeftAlone == pc = "stall" /\ dev = "ok" => held

\* "Stall = no data for max(...)", "a no-data stall": a receiver that is reset
\* for a stall has stopped sending sweeps.
StallIsSilence == pc = "stall" => dev # "ok"

\* The driver self-heals: a recording ends as fatal only when the receiver is
\* beyond repair, or there were Budget incidents: faults, and turns in which the
\* consumer outlasted the timeout.  An incident costs one reset, and the first
\* of a window may cost two.
FatalJustified ==
  ending = "fatal" => dev \in Hopeless \/ faults + holds >= Budget

\* "Bounded liveness (ADR-0010): never blocks indefinitely".  The self-heal
\* comes to an end.
HealEnds == pc = "drain" ~> pc # "drain"

\* A receiver that fails for good ends the recording (FatalInstrumentError),
\* so that the engine can rebuild.
DeadEnds == <>[](dev \in Hopeless) => <>(pc = "done")

\* Stop ends the recording, in whatever state the self-heal is.
StopEnds == ~running ~> pc = "done"
=============================================================================
