------------------------------ MODULE Uploader ------------------------------
(***************************************************************************)
(* The distribution of finished recordings: the data directory, the        *)
(* upload passes (services/uploader.py), the loop that dispatches them and *)
(* then prunes or archives (services/uploader_service.py), the operator's  *)
(* "run now" (api/routes/upload.py), "delete" and "re-queue"               *)
(* (api/routes/data.py), and the names that the FITS writer chooses        *)
(* (writers/fits/standard.py).                                             *)
(*                                                                         *)
(* A pass adds one UploadJob per file to its database session and commits  *)
(* at the end; the session flushes what it holds before every query        *)
(* (autoflush), so from the second file on the pass owns SQLite's write    *)
(* lock.  The contents of the n-th recording are the number n, 0 is none.  *)
(***************************************************************************)
EXTENDS Naturals

CONSTANTS
  Targets,       \* upload targets
  Enabled,       \* those with enabled = True
  Immediate,     \* those with dispatch = "immediate"
  Scheduled,     \* those with dispatch = "scheduled"; the others are manual
  Untimed,       \* those over SFTP, whose transfers have no timeout
  Loop,          \* the uploader thread
  Manual,        \* request threads that serve POST targets/{id}/run
  Retention,     \* "keep", "prune" (retention_days >= 0) or "archive"
  OnePerSecond,  \* TRUE: no two recordings begin within one UT second
  MaxClock,      \* bound on the UT seconds in which recordings begin
  MaxSuffix,     \* bound on the _NN suffixes of _unique_path
  MaxRecs,       \* bound on recordings
  MaxNetFaults,  \* bound on failing transfers
  MaxCrashes,    \* bound on crashes
  MaxRequeues,   \* bound on re-queue requests
  None

ASSUME TargetAssumption ==
  /\ Enabled \subseteq Targets /\ Immediate \subseteq Targets
  /\ Scheduled \subseteq Targets /\ Untimed \subseteq Targets
ASSUME LoopAssumption == Loop \notin Manual /\ None \notin Manual \cup {Loop}
ASSUME RetentionAssumption == Retention \in {"keep", "prune", "archive"}
ASSUME SecondAssumption == OnePerSecond \in BOOLEAN
ASSUME NumberAssumption ==
  /\ MaxClock \in Nat \ {0} /\ MaxSuffix \in Nat /\ MaxRecs \in Nat
  /\ MaxNetFaults \in Nat /\ MaxCrashes \in Nat /\ MaxRequeues \in Nat

Workers == Manual \cup {Loop}

\* A file name: the second of its first sweep and the _NN suffix (0: none).
Names == (1..MaxClock) \X (0..MaxSuffix)
Recs == 0..MaxRecs

VARIABLES
  clock,    \* the current UT second
  begun,    \* a recording has begun in this second
  nrec,     \* recordings written so far
  disk,     \* disk[n]: the contents of file n of the data directory
  archive,  \* archive[n]: the contents of file n of the dated archive
  remote,   \* remote[t][n]: the contents of file n on target t
  done,     \* committed UploadJob rows with state "done"
  phase,    \* phase[w]: what worker w is doing
  tgt,      \* tgt[w]: the target of w's pass
  todo,     \* todo[w]: the listed files that w has still to visit
  cur,      \* cur[w]: the file that w transfers
  queue,    \* the targets that the tick has still to visit
  pend,     \* pend[w]: "done" rows of w's session that are not committed
  dirty,    \* dirty[w]: w's session holds rows that are not flushed
  wlock,    \* the worker whose transaction holds SQLite's write lock
  dropped,  \* recordings that an operator deleted
  faults    \* failed transfers, crashes and re-queue requests so far

fileVars == <<clock, begun, nrec, disk, archive, remote>>
workVars == <<phase, tgt, todo, cur, queue, pend, dirty>>
vars == <<fileVars, done, workVars, wlock, dropped, faults>>

Phases == {"idle", "pick", "check", "put", "sweep"}

TypeOK ==
  /\ clock \in 1..MaxClock
  /\ begun \in BOOLEAN
  /\ nrec \in Recs
  /\ disk \in [Names -> Recs]
  /\ archive \in [Names -> Recs]
  /\ remote \in [Targets -> [Names -> Recs]]
  /\ done \subseteq Targets \X Names
  /\ phase \in [Workers -> Phases]
  /\ tgt \in [Workers -> Targets \cup {None}]
  /\ todo \in [Workers -> SUBSET Names]
  /\ cur \in [Workers -> Names \cup {None}]
  /\ queue \subseteq Targets
  /\ pend \in [Workers -> SUBSET (Targets \X Names)]
  /\ dirty \in [Workers -> BOOLEAN]
  /\ wlock \in Workers \cup {None}
  /\ dropped \subseteq Recs
  /\ faults \in [net : 0..MaxNetFaults, crash : 0..MaxCrashes, req : 0..MaxRequeues]

Init ==
  /\ clock = 1 /\ begun = FALSE /\ nrec = 0
  /\ disk = [n \in Names |-> 0]
  /\ archive = [n \in Names |-> 0]
  /\ remote = [t \in Targets |-> [n \in Names |-> 0]]
  /\ done = {}
  /\ phase = [w \in Workers |-> "idle"]
  /\ tgt = [w \in Workers |-> None]
  /\ todo = [w \in Workers |-> {}]
  /\ cur = [w \in Workers |-> None]
  /\ queue = {}
  /\ pend = [w \in Workers |-> {}]
  /\ dirty = [w \in Workers |-> FALSE]
  /\ wlock = None
  /\ dropped = {}
  /\ faults = [net |-> 0, crash |-> 0, req |-> 0]

-----------------------------------------------------------------------------
(* Files. *)

\* list_recordings: files appear by rename, so every *.fit is complete.
Listed == {n \in Names : disk[n] # 0}

\* n sorts after m; a suffixed name sorts after the plain one.
After(n, m) == n[1] > m[1] \/ (n[1] = m[1] /\ n[2] >= m[2])

\* The listing is newest first.
IsNewest(n, S) == n \in S /\ \A m \in S : After(n, m)

\* _unique_path looks at the data directory only.
IsUnique(n) ==
  /\ n[1] = clock /\ disk[n] = 0
  /\ \A k \in 0..MaxSuffix : k < n[2] => disk[<<clock, k>>] # 0

\* StandardFitsWriter.write: a recording that began in the current second.
WriteProduct ==
  /\ nrec < MaxRecs
  /\ OnePerSecond => ~begun
  /\ \E n \in Names :
       /\ IsUnique(n)
       /\ disk' = [disk EXCEPT ![n] = nrec + 1]
  /\ nrec' = nrec + 1
  /\ begun' = TRUE
  /\ UNCHANGED <<clock, archive, remote, done, workVars, wlock, dropped,
                 faults>>

SecondPasses ==
  /\ clock < MaxClock
  /\ clock' = clock + 1
  /\ begun' = FALSE
  /\ UNCHANGED <<nrec, disk, archive, remote, done, workVars, wlock, dropped, faults>>

-----------------------------------------------------------------------------
(* One pass: upload_pending(db, target, data_dir) *)

BeginPass(w, t) ==
  /\ tgt' = [tgt EXCEPT ![w] = t]
  /\ todo' = [todo EXCEPT ![w] = Listed]
  /\ phase' = [phase EXCEPT ![w] = "check"]
  /\ UNCHANGED <<fileVars, done, cur, pend, dirty, wlock, dropped, faults>>

\* A flush of unwritten rows gets the write lock.
MayWrite(w) == dirty[w] => wlock \in {None, w}

\* The query sees the committed rows and those of its own session.
IsDone(w, n) == <<tgt[w], n>> \in done \cup pend[w]

\* The query for the next file: flush, then skip the file or transfer it.
Check(w) ==
  /\ phase[w] = "check" /\ todo[w] # {}
  /\ MayWrite(w)
  /\ wlock' = IF dirty[w] THEN w ELSE wlock
  /\ dirty' = [dirty EXCEPT ![w] = FALSE]
  /\ \E n \in Names :
       /\ IsNewest(n, todo[w])
       /\ todo' = [todo EXCEPT ![w] = @ \ {n}]
       /\ IF IsDone(w, n)
            THEN UNCHANGED <<phase, cur>>
            ELSE /\ phase' = [phase EXCEPT ![w] = "put"]
                 /\ cur' = [cur EXCEPT ![w] = n]
  /\ UNCHANGED <<fileVars, done, tgt, queue, pend, dropped, faults>>

\* Mutant of DoneRow: target and file name are exchanged.
DoneRow_Swapped(w, n) == <<n, tgt[w]>>

\* UploadJob(target_id, filename, state="done")
DoneRow(w, n) == <<tgt[w], n>>

\* A row for the file at hand; on to the next file.
Visited(w) ==
  /\ dirty' = [dirty EXCEPT ![w] = TRUE]
  /\ cur' = [cur EXCEPT ![w] = None]
  /\ phase' = [phase EXCEPT ![w] = "check"]

\* upload_file: the transfer arrives under its final name and is verified.
Put(w) ==
  /\ phase[w] = "put"
  /\ LET n == cur[w] t == tgt[w]
     IN  /\ disk[n] # 0
         /\ remote' = [remote EXCEPT ![t][n] = disk[n]]
         /\ pend' = [pend EXCEPT ![w] = @ \cup {DoneRow(w, n)}]
         /\ Visited(w)
  /\ UNCHANGED <<clock, begun, nrec, disk, archive, done, tgt, todo, queue,
                 wlock, dropped, faults>>

\* Mutant of FailedRows: a failed transfer is recorded as done.
FailedRows_Done(w, n) == {DoneRow(w, n)}

\* What a failed transfer adds to the "done" rows.
FailedRows(w, n) == {}

\* The file is gone, or the transfer fails: before or after the rename on the
\* target.  The row says "error".
PutFails(w) ==
  /\ phase[w] = "put"
  /\ LET n == cur[w] t == tgt[w]
     IN  /\ \/ disk[n] = 0 /\ UNCHANGED <<faults, remote>>
            \/ /\ disk[n] # 0 /\ faults.net < MaxNetFaults
               /\ faults' = [faults EXCEPT !.net = @ + 1]
               /\ \/ UNCHANGED remote
                  \/ remote' = [remote EXCEPT ![t][n] = disk[n]]
         /\ pend' = [pend EXCEPT ![w] = @ \cup FailedRows(w, n)]
         /\ Visited(w)
  /\ UNCHANGED <<clock, begun, nrec, disk, archive, done, tgt, todo, queue,
                 wlock, dropped>>

\* Mutant of Unlocked: a transaction keeps the lock.
Unlocked_Never(w) == wlock

\* The lock once w's transaction has ended.
Unlocked(w) == IF wlock = w THEN None ELSE wlock

\* db.commit(): the loop goes on with the next target.
Commit(w) ==
  /\ phase[w] = "check" /\ todo[w] = {}
  /\ MayWrite(w)
  /\ done' = done \cup pend[w]
  /\ wlock' = Unlocked(w)
  /\ pend' = [pend EXCEPT ![w] = {}]
  /\ dirty' = [dirty EXCEPT ![w] = FALSE]
  /\ tgt' = [tgt EXCEPT ![w] = None]
  /\ phase' = [phase EXCEPT ![w] = IF w = Loop THEN "pick" ELSE "idle"]
  /\ UNCHANGED <<fileVars, todo, cur, queue, dropped, faults>>

\* The session is closed without a commit.
Abort(w) ==
  /\ wlock' = Unlocked(w)
  /\ pend' = [pend EXCEPT ![w] = {}]
  /\ dirty' = [dirty EXCEPT ![w] = FALSE]
  /\ tgt' = [tgt EXCEPT ![w] = None]
  /\ todo' = [todo EXCEPT ![w] = {}]
  /\ cur' = [cur EXCEPT ![w] = None]
  /\ queue' = IF w = Loop THEN {} ELSE queue
  /\ phase' = [phase EXCEPT ![w] = "idle"]

\* The busy timeout of a flush expires: OperationalError ends the pass, and
\* the tick with it.
LockTimeout(w) ==
  /\ phase[w] = "check" /\ ~MayWrite(w)
  /\ Abort(w)
  /\ UNCHANGED <<fileVars, done, dropped, faults>>

-----------------------------------------------------------------------------
(* The loop: UploaderService.tick *)

TickBegin ==
  /\ phase[Loop] = "idle"
  /\ phase' = [phase EXCEPT ![Loop] = "pick"]
  /\ queue' = Targets
  /\ UNCHANGED <<fileVars, done, tgt, todo, cur, pend, dirty, wlock, dropped, faults>>

\* _due, and the pass.
Dispatch ==
  /\ phase[Loop] = "pick"
  /\ \E t \in queue \cap Enabled \cap (Immediate \cup Scheduled) :
       /\ queue' = queue \ {t}
       /\ BeginPass(Loop, t)

\* A target that is not due: disabled, manual, or outside its window.
Skip ==
  /\ phase[Loop] = "pick"
  /\ \E t \in queue :
       /\ t \notin Enabled \cap Immediate
       /\ queue' = queue \ {t}
  /\ UNCHANGED <<fileVars, done, phase, tgt, todo, cur, pend, dirty, wlock,
                 dropped, faults>>

\* archive_done, or prune, when there are enabled targets.
SweepBegin ==
  /\ phase[Loop] = "pick" /\ queue = {}
  /\ phase' = [phase EXCEPT ![Loop] = "sweep"]
  /\ todo' = [todo EXCEPT ![Loop] =
                IF Enabled # {} /\ Retention # "keep" THEN Listed ELSE {}]
  /\ UNCHANGED <<fileVars, done, tgt, cur, queue, pend, dirty, wlock, dropped, faults>>

\* Mutant of UploadedEverywhere: one target suffices.
UploadedEverywhere_Some(n) == \E t \in Enabled : <<t, n>> \in done

\* target_ids.issubset(done)
UploadedEverywhere(n) == \A t \in Enabled : <<t, n>> \in done

\* One file: kept (not uploaded everywhere, or too young to be pruned), or
\* removed.  archive_file replaces a file of the same name.
SweepFile ==
  /\ phase[Loop] = "sweep"
  /\ \E n \in todo[Loop] :
       /\ todo' = [todo EXCEPT ![Loop] = @ \ {n}]
       /\ \/ /\ ~UploadedEverywhere(n) \/ (Retention = "prune" /\ disk[n] # 0)
             /\ UNCHANGED <<disk, archive>>
          \/ /\ UploadedEverywhere(n) /\ disk[n] # 0
             /\ disk' = [disk EXCEPT ![n] = 0]
             /\ archive' = IF Retention = "archive"
                             THEN [archive EXCEPT ![n] = disk[n]] ELSE archive
  /\ UNCHANGED <<clock, begun, nrec, remote, done, phase, tgt, cur, queue, pend,
                 dirty, wlock, dropped, faults>>

\* The file vanished after it was listed: stat or rename raises and ends the
\* tick.
SweepFails ==
  /\ phase[Loop] = "sweep"
  /\ \E n \in todo[Loop] : disk[n] = 0 /\ UploadedEverywhere(n)
  /\ Abort(Loop)
  /\ UNCHANGED <<fileVars, done, dropped, faults>>

SweepEnd ==
  /\ phase[Loop] = "sweep" /\ todo[Loop] = {}
  /\ phase' = [phase EXCEPT ![Loop] = "idle"]
  /\ UNCHANGED <<fileVars, done, tgt, todo, cur, queue, pend, dirty, wlock,
                 dropped, faults>>

-----------------------------------------------------------------------------
(* Requests and crashes. *)

\* POST targets/{id}/run: also for a disabled target.
RunTarget(w) ==
  /\ phase[w] = "idle"
  /\ \E t \in Targets : BeginPass(w, t)
  /\ UNCHANGED queue

Rows(n) == Targets \X {n}

\* POST files/bulk/delete: the file, then its rows; when the write lock is
\* taken the commit raises, and the rows stay.
BulkDelete ==
  \E n \in Listed :
    /\ dropped' = dropped \cup {disk[n]}
    /\ disk' = [disk EXCEPT ![n] = 0]
    /\ done' = IF wlock = None THEN done \ Rows(n) ELSE done
    /\ UNCHANGED <<clock, begun, nrec, archive, remote, workVars, wlock,
                   faults>>

\* POST files/bulk/requeue: drop the "done" rows, so that the file is sent
\* again.
BulkRequeue ==
  /\ wlock = None /\ faults.req < MaxRequeues
  /\ faults' = [faults EXCEPT !.req = @ + 1]
  /\ \E n \in Names :
       /\ done \cap Rows(n) # {}
       /\ done' = done \ Rows(n)
  /\ UNCHANGED <<fileVars, workVars, wlock, dropped>>

\* The process of w dies in the middle of a pass or a tick.
Crash(w) ==
  /\ phase[w] # "idle" /\ faults.crash < MaxCrashes
  /\ faults' = [faults EXCEPT !.crash = @ + 1]
  /\ Abort(w)
  /\ UNCHANGED <<fileVars, done, dropped>>

Pass(w) == Check(w) \/ Put(w) \/ PutFails(w) \/ Commit(w) \/ LockTimeout(w)

\* w is in a transfer that may never return: SftpTransport sets a timeout for
\* the connection only, FTP for every operation.
Hanging(w) == phase[w] = "put" /\ tgt[w] \in Untimed

\* What a pass does in bounded time.
Timed(w) ==
  \/ Check(w) \/ Commit(w) \/ LockTimeout(w)
  \/ ~Hanging(w) /\ (Put(w) \/ PutFails(w))

Tick ==
  \/ TickBegin \/ Dispatch \/ Skip \/ SweepBegin \/ SweepFile \/ SweepFails
  \/ SweepEnd

\* Everything but the production of files.
Distribute ==
  \/ SecondPasses
  \/ \E w \in Workers : Pass(w) \/ Crash(w)
  \/ Tick
  \/ \E w \in Manual : RunTarget(w)
  \/ BulkDelete \/ BulkRequeue

Next == WriteProduct \/ Distribute

Spec == Init /\ [][Next]_vars

-----------------------------------------------------------------------------
(* Properties. *)

\* Recording r is on target t.
On(t, r) == \E n \in Names : remote[t][n] = r

\* uploader_service.py: "un-uploaded files are never pruned".  A recording
\* that is no longer in the data directory is on every enabled target, unless
\* an operator deleted it.
RemovedIsUploaded ==
  \A r \in 1..nrec :
    r \in dropped \/ (\E n \in Names : disk[n] = r) \/ (\A t \in Enabled : On(t, r))

\* What RemovedIsUploaded rests on: a "done" row, committed or not, is about
\* the contents that the file still has.
DoneIsRemote ==
  \A t \in Targets, n \in Names :
    /\ <<t, n>> \in done \/ (\E w \in Workers : <<t, n>> \in pend[w])
    /\ disk[n] # 0
    => remote[t][n] = disk[n]

\* Every recording gets to every immediate target, as long as no transfer hangs
\* for good: failing transfers, lost passes and concurrent runs only delay it.
Delivered ==
  (\A w \in Workers : []<>~Hanging(w))
    => \A r \in 1..MaxRecs, t \in Enabled \cap Immediate :
         r <= nrec ~> (r \in dropped \/ On(t, r))

\* Whatever fails, times out or crashes, a pass gives SQLite's write lock back,
\* but for one that hangs for good in a transfer without a timeout.
LockReleased ==
  \A w \in Workers : []<>(wlock # w) \/ <>[](wlock = w /\ Hanging(w))
=============================================================================
