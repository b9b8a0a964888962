------------------------------ MODULE StationDb ------------------------------
(***************************************************************************)
(* The recorder and the uploader share one SQLite database.  The recording *)
(* thread writes its row every few seconds (recorder_state.touch_frame),   *)
(* and for each new file (recorder_state.write); the uploader keeps the    *)
(* write lock from its first flushed row to the commit at the end of its   *)
(* pass, transfers included (see Uploader).  A write that waits longer     *)
(* than the busy timeout raises in the recording thread.                   *)
(***************************************************************************)
EXTENDS Uploader

VARIABLE rec  \* the continuous recording: "recording" or "error"

dbVars == <<vars, rec>>

DbInit == Init /\ rec = "recording"

\* record_continuous rolls a file, and _on_file writes the row: when that
\* raises, the recording ends; the file stays.
Roll ==
  /\ rec = "recording"
  /\ WriteProduct
  /\ rec' = IF wlock = None THEN rec ELSE "error"

\* touch_frame raises "database is locked" through on_frame; _run reports it
\* as a failed recording.
HeartbeatFails ==
  /\ rec = "recording" /\ wlock # None
  /\ rec' = "error"
  /\ UNCHANGED vars

\* tick starts a new recording; RecorderService.start writes the row first.
Rearm ==
  /\ rec = "error" /\ wlock = None
  /\ rec' = "recording"
  /\ UNCHANGED vars

DbNext == Roll \/ HeartbeatFails \/ Rearm \/ (Distribute /\ UNCHANGED rec)

DbSpec == DbInit /\ [][DbNext]_dbVars

\* Threads run, transfers with a timeout end, the uploader's loop and the
\* scheduler tick.
DbFairness ==
  /\ \A w \in Workers : WF_dbVars(Timed(w) /\ UNCHANGED rec)
  /\ WF_dbVars(Tick /\ UNCHANGED rec)
  /\ WF_dbVars(Rearm)

DbFairSpec == DbSpec /\ DbFairness

-----------------------------------------------------------------------------
(* Properties. *)

\* OPERATIONS.md:94: "a target being down never blocks recording": a recording
\* that lost the database to a pass is taken up again.
Rearms == []<>(rec = "recording")

\* recorder_state.py:60: a heartbeat is "best-effort -- a missed heartbeat write
\* is corrected by the next one": one that meets a busy database does not end
\* the recording.
HeartbeatHarmless ==
  [][rec = "recording" /\ UNCHANGED nrec => rec' = "recording"]_dbVars
=============================================================================
