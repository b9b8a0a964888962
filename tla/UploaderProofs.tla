--------------------------- MODULE UploaderProofs ---------------------------
(***************************************************************************)
(* The types of the uploader and its safety: when no two recordings begin  *)
(* within one second, whatever has left the data directory is on every     *)
(* enabled target, for every number of targets, request threads, files,    *)
(* failing transfers, crashes and re-queue requests; by refinement it is   *)
(* so as well next to the recorder that writes the same database.          *)
(***************************************************************************)
EXTENDS StationDb, TLAPS

\* A worker in a pass has a target, and a file while it transfers one.
PassInv ==
  \A w \in Workers :
    /\ phase[w] \in {"check", "put"} => tgt[w] \in Targets
    /\ phase[w] = "put" => cur[w] \in Names

\* Abort keeps the types and leaves the worker without a pass.
LEMMA AbortType ==
  ASSUME TypeOK, PassInv, NEW w \in Workers, Abort(w)
  PROVE  /\ PassInv'
         /\ wlock' \in Workers \cup {None}
         /\ pend' \in [Workers -> SUBSET (Targets \X Names)]
         /\ dirty' \in [Workers -> BOOLEAN]
         /\ tgt' \in [Workers -> Targets \cup {None}]
         /\ todo' \in [Workers -> SUBSET Names]
         /\ cur' \in [Workers -> Names \cup {None}]
         /\ queue' \subseteq Targets
         /\ phase' \in [Workers -> Phases]
BY DEF Abort, Unlocked, TypeOK, PassInv, Phases

\* Writing one remote file keeps the type of the remote files.
LEMMA RemoteType ==
  ASSUME TypeOK, NEW t \in Targets, NEW n \in Names
  PROVE  [remote EXCEPT ![t][n] = disk[n]] \in [Targets -> [Names -> Recs]]
<1>1. disk[n] \in Recs /\ remote[t] \in [Names -> Recs] BY DEF TypeOK
<1>2. [remote[t] EXCEPT ![n] = disk[n]] \in [Names -> Recs] BY <1>1
<1> QED BY <1>2 DEF TypeOK

\* Every reachable state has the declared types.
THEOREM TypeCorrect == Spec => [](TypeOK /\ PassInv)
<1>1. Init => TypeOK /\ PassInv
  <2> SUFFICES ASSUME Init PROVE TypeOK /\ PassInv OBVIOUS
  <2>1. 0 \in Recs /\ 1 \in 1..MaxClock BY NumberAssumption DEF Recs
  <2>2. faults \in [net : 0..MaxNetFaults, crash : 0..MaxCrashes, req : 0..MaxRequeues]
    BY NumberAssumption DEF Init
  <2> QED BY <2>1, <2>2 DEF Init, TypeOK, PassInv, Phases
<1>2. TypeOK /\ PassInv /\ [Next]_vars => TypeOK' /\ PassInv'
  <2> SUFFICES ASSUME TypeOK, PassInv, [Next]_vars PROVE TypeOK' /\ PassInv'
    OBVIOUS
  <2> USE NumberAssumption
  <2>1. CASE UNCHANGED vars
    BY <2>1 DEF vars, fileVars, workVars, TypeOK, PassInv
  <2>2. CASE WriteProduct
    <3>1. nrec + 1 \in Recs BY <2>2 DEF WriteProduct, TypeOK, Recs
    <3> QED BY <2>2, <3>1 DEF WriteProduct, workVars, TypeOK, PassInv
  <2>3. CASE SecondPasses
    <3>1. clock' \in 1..MaxClock BY <2>3 DEF SecondPasses, TypeOK
    <3> QED BY <2>3, <3>1 DEF SecondPasses, workVars, TypeOK, PassInv
  <2>4. ASSUME NEW w \in Workers, Check(w) PROVE TypeOK' /\ PassInv'
    <3>1. PICK n \in Names :
            /\ todo' = [todo EXCEPT ![w] = @ \ {n}]
            /\ \/ UNCHANGED <<phase, cur>>
               \/ phase' = [phase EXCEPT ![w] = "put"] /\ cur' = [cur EXCEPT ![w] = n]
      BY <2>4 DEF Check
    <3>t. /\ todo \in [Workers -> SUBSET Names]
          /\ cur \in [Workers -> Names \cup {None}]
          /\ phase \in [Workers -> Phases]
      BY DEF TypeOK
    <3>a. todo' \in [Workers -> SUBSET Names] BY <3>1, <3>t
    <3>b. cur' \in [Workers -> Names \cup {None}] BY <3>1, <3>t
    <3>c. phase' \in [Workers -> Phases] BY <3>1, <3>t DEF Phases
    <3>2. /\ todo' \in [Workers -> SUBSET Names]
          /\ cur' \in [Workers -> Names \cup {None}]
          /\ phase' \in [Workers -> Phases]
      BY <3>a, <3>b, <3>c
    <3>3. wlock' \in Workers \cup {None} /\ dirty' \in [Workers -> BOOLEAN]
      BY <2>4 DEF Check, TypeOK
    <3>4. UNCHANGED <<fileVars, done, tgt, queue, pend, dropped, faults>>
          /\ phase[w] = "check"
      BY <2>4 DEF Check
    <3>5. TypeOK' BY <3>2, <3>3, <3>4 DEF fileVars, TypeOK
    <3>6. PassInv' BY <3>1, <3>4 DEF PassInv, TypeOK
    <3> QED BY <3>5, <3>6
  <2>5. ASSUME NEW w \in Workers, Put(w) PROVE TypeOK' /\ PassInv'
    <3>1. tgt[w] \in Targets /\ cur[w] \in Names BY <2>5 DEF Put, PassInv
    <3>2. remote' \in [Targets -> [Names -> Recs]]
      BY <2>5, <3>1, RemoteType DEF Put
    <3>3. <<tgt[w], cur[w]>> \in Targets \X Names /\ disk[cur[w]] \in Recs
      BY <3>1 DEF TypeOK
    <3>4. pend' \in [Workers -> SUBSET (Targets \X Names)]
      BY <2>5, <3>1, <3>3 DEF Put, DoneRow, TypeOK
    <3> QED BY <2>5, <3>2, <3>4 DEF Put, Visited, TypeOK, PassInv, Phases
  <2>6. ASSUME NEW w \in Workers, PutFails(w) PROVE TypeOK' /\ PassInv'
    <3>1. tgt[w] \in Targets /\ cur[w] \in Names BY <2>6 DEF PutFails, PassInv
    <3>2. remote' \in [Targets -> [Names -> Recs]]
      <4>1. remote' = remote \/ remote' = [remote EXCEPT ![tgt[w]][cur[w]] = disk[cur[w]]]
        BY <2>6 DEF PutFails
      <4>2. [remote EXCEPT ![tgt[w]][cur[w]] = disk[cur[w]]] \in [Targets -> [Names -> Recs]]
        BY <3>1, RemoteType
      <4>3. remote \in [Targets -> [Names -> Recs]] BY DEF TypeOK
      <4> QED BY <4>1, <4>2, <4>3, Zenon
    <3>3. faults' \in [net : 0..MaxNetFaults, crash : 0..MaxCrashes, req : 0..MaxRequeues]
      BY <2>6 DEF PutFails, TypeOK
    <3>4. pend' \in [Workers -> SUBSET (Targets \X Names)]
      BY <2>6 DEF PutFails, FailedRows, TypeOK
    <3> QED BY <2>6, <3>2, <3>3, <3>4 DEF PutFails, Visited, TypeOK, PassInv, Phases
  <2>7. ASSUME NEW w \in Workers, Commit(w) PROVE TypeOK' /\ PassInv'
    <3>1. done' \subseteq Targets \X Names BY <2>7 DEF Commit, TypeOK
    <3> QED BY <2>7, <3>1 DEF Commit, Unlocked, fileVars, TypeOK, PassInv, Phases
  <2>8. ASSUME NEW w \in Workers, LockTimeout(w) PROVE TypeOK' /\ PassInv'
    BY <2>8, AbortType DEF LockTimeout, fileVars, TypeOK
  <2>9. ASSUME NEW w \in Workers, Crash(w) PROVE TypeOK' /\ PassInv'
    <3>1. faults' \in [net : 0..MaxNetFaults, crash : 0..MaxCrashes, req : 0..MaxRequeues]
      BY <2>9 DEF Crash, TypeOK
    <3> QED BY <2>9, <3>1, AbortType DEF Crash, fileVars, TypeOK
  <2>10. CASE TickBegin
    BY <2>10 DEF TickBegin, fileVars, TypeOK, PassInv, Phases, Workers
  <2>11. CASE Dispatch
    BY <2>11, TargetAssumption
    DEF Dispatch, BeginPass, Listed, fileVars, TypeOK, PassInv, Phases, Workers
  <2>12. CASE Skip
    BY <2>12 DEF Skip, fileVars, TypeOK, PassInv
  <2>13. CASE SweepBegin
    BY <2>13 DEF SweepBegin, Listed, fileVars, TypeOK, PassInv, Phases, Workers
  <2>14. CASE SweepFile
    <3>1. 0 \in Recs BY DEF Recs
    <3>2. PICK n \in todo[Loop] :
            /\ todo' = [todo EXCEPT ![Loop] = @ \ {n}]
            /\ disk' = disk \/ disk' = [disk EXCEPT ![n] = 0]
            /\ archive' = archive \/ archive' = [archive EXCEPT ![n] = disk[n]]
      BY <2>14 DEF SweepFile
    <3>3. n \in Names BY <3>2 DEF TypeOK, Workers
    <3>4. disk' \in [Names -> Recs] /\ archive' \in [Names -> Recs]
      BY <3>1, <3>2, <3>3 DEF TypeOK
    <3>5. todo' \in [Workers -> SUBSET Names] BY <3>2 DEF TypeOK
    <3> QED BY <2>14, <3>4, <3>5 DEF SweepFile, TypeOK, PassInv
  <2>15. CASE SweepFails
    BY <2>15, AbortType DEF SweepFails, fileVars, TypeOK, Workers
  <2>16. CASE SweepEnd
    BY <2>16 DEF SweepEnd, fileVars, TypeOK, PassInv, Phases, Workers
  <2>17. ASSUME NEW w \in Manual, RunTarget(w) PROVE TypeOK' /\ PassInv'
    BY <2>17 DEF RunTarget, BeginPass, Listed, fileVars, TypeOK, PassInv, Phases, Workers
  <2>18. CASE BulkDelete
    <3>1. 0 \in Recs BY DEF Recs
    <3> QED BY <2>18, <3>1 DEF BulkDelete, Listed, workVars, TypeOK, PassInv
  <2>19. CASE BulkRequeue
    <3>1. faults' \in [net : 0..MaxNetFaults, crash : 0..MaxCrashes, req : 0..MaxRequeues]
      BY <2>19 DEF BulkRequeue, TypeOK
    <3> QED BY <2>19, <3>1 DEF BulkRequeue, fileVars, workVars, TypeOK, PassInv
  <2> QED BY <2>1, <2>2, <2>3, <2>4, <2>5, <2>6, <2>7, <2>8, <2>9, <2>10, <2>11,
             <2>12, <2>13, <2>14, <2>15, <2>16, <2>17, <2>18, <2>19
          DEF Next, Distribute, Pass, Tick
<1> QED BY <1>1, <1>2, PTL DEF Spec

\* No trace of names that a recording may still get.
FreshNames ==
  \A n \in Names :
    n[1] > clock \/ (n[1] = clock /\ ~begun)
      => /\ disk[n] = 0
         /\ \A t \in Targets :
              /\ remote[t][n] = 0 /\ <<t, n>> \notin done
              /\ \A w \in Workers : <<t, n>> \notin pend[w]

\* A target has the contents that the data directory has under a name, or
\* nothing yet.
SameContents ==
  \A t \in Targets, n \in Names : disk[n] # 0 => remote[t][n] \in {0, disk[n]}

SafeInv == FreshNames /\ SameContents /\ DoneIsRemote /\ RemovedIsUploaded

\* A step that touches neither files, rows nor the clock keeps the invariant;
\* rows may be forgotten.
LEMMA QuietStep ==
  ASSUME SafeInv, UNCHANGED <<fileVars, dropped>>,
         done' \subseteq done \cup UNION {pend[w] : w \in Workers},
         \A w \in Workers : pend'[w] \subseteq pend[w]
  PROVE  SafeInv'
<1>1. FreshNames'
  BY DEF SafeInv, FreshNames, fileVars
<1>2. SameContents' BY DEF SafeInv, SameContents, fileVars
<1>3. DoneIsRemote'
  BY DEF SafeInv, DoneIsRemote, fileVars
<1>4. RemovedIsUploaded'
  BY DEF SafeInv, RemovedIsUploaded, On, fileVars
<1> QED BY <1>1, <1>2, <1>3, <1>4 DEF SafeInv

\* A transfer of the contents of file n to target t, with or without its row,
\* keeps the invariant.
LEMMA TransferStep ==
  ASSUME TypeOK, SafeInv, NEW w \in Workers, NEW t \in Targets, NEW n \in Names,
         disk[n] # 0,
         remote' = [remote EXCEPT ![t][n] = disk[n]],
         UNCHANGED <<clock, begun, nrec, disk, done, dropped>>,
         pend' = pend \/ pend' = [pend EXCEPT ![w] = @ \cup {<<t, n>>}]
  PROVE  SafeInv'
<1>1. \A s \in Targets, m \in Names :
        remote'[s][m] = IF s = t /\ m = n THEN disk[n] ELSE remote[s][m]
  BY DEF TypeOK
<1>2. \A v \in Workers : pend'[v] \subseteq pend[v] \cup {<<t, n>>}
  BY DEF TypeOK
<1>3. FreshNames'
  BY <1>1, <1>2 DEF SafeInv, FreshNames
<1>4. SameContents' BY <1>1 DEF SafeInv, SameContents
<1>5. DoneIsRemote'
  BY <1>1, <1>2 DEF SafeInv, DoneIsRemote
<1>6. RemovedIsUploaded'
  <2>1. \A s \in Targets, m \in Names, r \in 1..nrec :
          remote[s][m] = r => remote'[s][m] = r
    BY <1>1 DEF SafeInv, SameContents
  <2> QED BY <2>1, TargetAssumption DEF SafeInv, RemovedIsUploaded, On
<1> QED BY <1>3, <1>4, <1>5, <1>6 DEF SafeInv

\* Removing file n keeps the invariant when an operator drops its contents or
\* all enabled targets have a row for it.
LEMMA RemovalStep ==
  ASSUME TypeOK, SafeInv, NEW n \in Names,
         disk' = [disk EXCEPT ![n] = 0],
         UNCHANGED <<clock, begun, nrec, remote, pend>>,
         done' \subseteq done, dropped \subseteq dropped',
         disk[n] \in dropped' \/ UploadedEverywhere(n)
  PROVE  SafeInv'
<1>1. \A m \in Names : disk'[m] = IF m = n THEN 0 ELSE disk[m]
  BY DEF TypeOK
<1>2. FreshNames' BY <1>1 DEF SafeInv, FreshNames
<1>3. SameContents' BY <1>1 DEF SafeInv, SameContents
<1>4. DoneIsRemote' BY <1>1 DEF SafeInv, DoneIsRemote
<1>5. RemovedIsUploaded'
  <2> SUFFICES ASSUME NEW r \in 1..nrec
               PROVE \/ r \in dropped' \/ \E m \in Names : disk'[m] = r
                     \/ \A t \in Enabled : \E m \in Names : remote[t][m] = r
    BY DEF RemovedIsUploaded, On
  <2>1. CASE disk[n] = r /\ UploadedEverywhere(n)
    <3>1. r # 0 BY NumberAssumption DEF TypeOK, Recs
    <3>2. \A t \in Enabled : t \in Targets /\ <<t, n>> \in done
      BY <2>1, TargetAssumption DEF UploadedEverywhere
    <3>3. \A t \in Enabled : remote[t][n] = r
      BY <2>1, <3>1, <3>2 DEF SafeInv, DoneIsRemote
    <3> QED BY <3>3
  <2>2. CASE disk[n] = r /\ r \in dropped' BY <2>2
  <2>3. CASE disk[n] # r
    BY <2>3, <1>1 DEF SafeInv, RemovedIsUploaded, On
  <2> QED BY <2>1, <2>2, <2>3
<1> QED BY <1>2, <1>3, <1>4, <1>5 DEF SafeInv

\* Writing a product under a new name keeps the invariant.
LEMMA WriteStep ==
  ASSUME OnePerSecond = TRUE, TypeOK, SafeInv, WriteProduct
  PROVE  SafeInv'
<1>1. PICK n \in Names :
        n[1] = clock /\ disk[n] = 0 /\ disk' = [disk EXCEPT ![n] = nrec + 1]
  BY DEF WriteProduct, IsUnique
<1>2. \A m \in Names : disk'[m] = IF m = n THEN nrec + 1 ELSE disk[m]
  BY <1>1 DEF TypeOK
<1>3. /\ ~begun /\ begun' = TRUE /\ nrec' = nrec + 1
      /\ UNCHANGED <<clock, remote, done, pend, dropped>>
  BY DEF WriteProduct, workVars
<1>4. \A t \in Targets :
        /\ remote[t][n] = 0 /\ <<t, n>> \notin done
        /\ \A w \in Workers : <<t, n>> \notin pend[w]
  BY <1>1, <1>3 DEF SafeInv, FreshNames
<1>5. FreshNames'
  BY <1>1, <1>2, <1>3, NumberAssumption DEF SafeInv, FreshNames, TypeOK, Names
<1>6. SameContents' BY <1>2, <1>3, <1>4 DEF SafeInv, SameContents
<1>7. DoneIsRemote' BY <1>2, <1>3, <1>4 DEF SafeInv, DoneIsRemote
<1>8. RemovedIsUploaded'
  <2>1. \A r \in 1..nrec' : r \in 1..nrec \/ r = nrec + 1
    BY <1>3 DEF TypeOK, Recs
  <2>2. \A r \in 1..nrec : \A m \in Names : disk[m] = r => m # n
    BY <1>1
  <2>3. \E m \in Names : disk'[m] = nrec + 1 BY <1>2
  <2> SUFFICES ASSUME NEW r \in 1..nrec'
               PROVE \/ r \in dropped \/ \E m \in Names : disk'[m] = r
                     \/ \A t \in Enabled : \E m \in Names : remote[t][m] = r
    BY <1>3 DEF RemovedIsUploaded, On
  <2>4. CASE r = nrec + 1 BY <2>3, <2>4
  <2>5. CASE r \in 1..nrec
    BY <2>5, <2>2, <1>2 DEF SafeInv, RemovedIsUploaded, On
  <2> QED BY <2>1, <2>4, <2>5
<1> QED BY <1>5, <1>6, <1>7, <1>8 DEF SafeInv

\* The invariant is inductive when names are not reused.
LEMMA SafeStep ==
  ASSUME OnePerSecond = TRUE, TypeOK, PassInv, SafeInv, [Next]_vars
  PROVE  SafeInv'
<1>1. CASE UNCHANGED vars
  BY <1>1, QuietStep DEF vars, workVars
<1>2. CASE WriteProduct BY <1>2, WriteStep
<1>3. CASE SecondPasses
  <2>1. UNCHANGED <<nrec, disk, remote, done, pend, dropped>>
    BY <1>3 DEF SecondPasses, workVars
  <2>2. FreshNames'
    <3>1. clock' = clock + 1 /\ ~begun' BY <1>3 DEF SecondPasses
    <3>2. clock \in Nat BY NumberAssumption DEF TypeOK
    <3>3. \A n \in Names : n[1] \in Nat BY NumberAssumption DEF Names
    <3>4. \A n \in Names :
            n[1] > clock' \/ (n[1] = clock' /\ ~begun') => n[1] > clock
      BY <3>1, <3>2, <3>3
    <3> QED BY <2>1, <3>4 DEF SafeInv, FreshNames
  <2>3. SameContents' /\ DoneIsRemote' /\ RemovedIsUploaded'
    BY <2>1 DEF SafeInv, SameContents, DoneIsRemote, RemovedIsUploaded, On
  <2> QED BY <2>2, <2>3 DEF SafeInv
<1>4. ASSUME NEW w \in Workers, Check(w) PROVE SafeInv'
  BY <1>4, QuietStep DEF Check
<1>5. ASSUME NEW w \in Workers, Put(w) PROVE SafeInv'
  <2>1. tgt[w] \in Targets /\ cur[w] \in Names BY <1>5 DEF Put, PassInv
  <2>2. /\ disk[cur[w]] # 0
        /\ remote' = [remote EXCEPT ![tgt[w]][cur[w]] = disk[cur[w]]]
        /\ pend' = [pend EXCEPT ![w] = @ \cup {<<tgt[w], cur[w]>>}]
        /\ UNCHANGED <<clock, begun, nrec, disk, done, dropped>>
    BY <1>5 DEF Put, DoneRow
  <2> QED BY <2>1, <2>2, TransferStep
<1>6. ASSUME NEW w \in Workers, PutFails(w) PROVE SafeInv'
  <2>1. tgt[w] \in Targets /\ cur[w] \in Names BY <1>6 DEF PutFails, PassInv
  <2>2. UNCHANGED <<clock, begun, nrec, disk, archive, done, dropped>>
    BY <1>6 DEF PutFails
  <2>3. pend' = pend BY <1>6 DEF PutFails, FailedRows, TypeOK
  <2>4. CASE UNCHANGED remote
    BY <2>2, <2>3, <2>4, QuietStep DEF fileVars
  <2>5. CASE disk[cur[w]] # 0
             /\ remote' = [remote EXCEPT ![tgt[w]][cur[w]] = disk[cur[w]]]
    BY <2>1, <2>2, <2>3, <2>5, TransferStep
  <2> QED BY <1>6, <2>4, <2>5 DEF PutFails
<1>7. ASSUME NEW w \in Workers, Commit(w) PROVE SafeInv'
  <2>1. \A v \in Workers : pend'[v] \subseteq pend[v] BY <1>7 DEF Commit, TypeOK
  <2>2. done' \subseteq done \cup UNION {pend[v] : v \in Workers}
    BY <1>7 DEF Commit
  <2>3. UNCHANGED <<fileVars, dropped>> BY <1>7 DEF Commit
  <2> QED BY <2>1, <2>2, <2>3, QuietStep
<1>8. ASSUME NEW w \in Workers, Abort(w), UNCHANGED <<fileVars, done, dropped>>
      PROVE  SafeInv'
  <2>1. \A v \in Workers : pend'[v] \subseteq pend[v] BY <1>8 DEF Abort, TypeOK
  <2> QED BY <1>8, <2>1, QuietStep
<1>9. ASSUME NEW w \in Workers, LockTimeout(w) \/ Crash(w) PROVE SafeInv'
  BY <1>8, <1>9 DEF LockTimeout, Crash
<1>10. CASE SweepFails BY <1>8, <1>10 DEF SweepFails, Workers
<1>11. CASE TickBegin \/ Dispatch \/ Skip \/ SweepBegin \/ SweepEnd
  BY <1>11, QuietStep DEF TickBegin, Dispatch, BeginPass, Skip, SweepBegin, SweepEnd
<1>12. CASE SweepFile
  <2>1. PICK n \in todo[Loop] :
          \/ UNCHANGED <<disk, archive>>
          \/ UploadedEverywhere(n) /\ disk' = [disk EXCEPT ![n] = 0]
    BY <1>12 DEF SweepFile
  <2>2. n \in Names BY <2>1 DEF TypeOK, Workers
  <2>3. UNCHANGED <<clock, begun, nrec, remote, done, pend, dropped>>
    BY <1>12 DEF SweepFile
  <2>4. CASE UNCHANGED <<disk, archive>>
    BY <2>3, <2>4, QuietStep DEF fileVars
  <2>5. CASE UploadedEverywhere(n) /\ disk' = [disk EXCEPT ![n] = 0]
    BY <2>2, <2>3, <2>5, RemovalStep
  <2> QED BY <2>1, <2>4, <2>5
<1>13. ASSUME NEW w \in Manual, RunTarget(w) PROVE SafeInv'
  BY <1>13, QuietStep DEF RunTarget, BeginPass
<1>14. CASE BulkDelete
  <2>1. PICK n \in Names :
          /\ dropped' = dropped \cup {disk[n]}
          /\ disk' = [disk EXCEPT ![n] = 0]
          /\ done' \subseteq done
    BY <1>14 DEF BulkDelete, Listed
  <2>2. UNCHANGED <<clock, begun, nrec, remote, pend>>
    BY <1>14 DEF BulkDelete, workVars
  <2> QED BY <2>1, <2>2, RemovalStep
<1>15. CASE BulkRequeue
  BY <1>15, QuietStep DEF BulkRequeue, workVars
<1> QED BY <1>1, <1>2, <1>3, <1>4, <1>5, <1>6, <1>7, <1>9, <1>10, <1>11, <1>12,
           <1>13, <1>14, <1>15
        DEF Next, Distribute, Pass, Tick

\* The invariant holds in every reachable state when names are not reused.
LEMMA SafeInvariant ==
  ASSUME OnePerSecond = TRUE
  PROVE  Spec => []SafeInv
<1>1. Init => SafeInv
  <2> SUFFICES ASSUME Init PROVE SafeInv OBVIOUS
  <2>1. FreshNames /\ SameContents /\ DoneIsRemote
    BY DEF Init, FreshNames, SameContents, DoneIsRemote
  <2>2. RemovedIsUploaded BY DEF Init, RemovedIsUploaded
  <2> QED BY <2>1, <2>2 DEF SafeInv
<1>2. TypeOK /\ PassInv /\ SafeInv /\ [Next]_vars => SafeInv' BY SafeStep
<1> QED BY <1>1, <1>2, TypeCorrect, PTL DEF Spec

\* When no two recordings begin within one second, a "done" row is about the
\* contents that the file has, in spite of concurrent passes, failing
\* transfers, crashes before the commit, deletions and re-queue requests.
THEOREM DoneIsRemoteTheorem ==
  ASSUME OnePerSecond = TRUE
  PROVE  Spec => []DoneIsRemote
<1>1. SafeInv => DoneIsRemote BY DEF SafeInv
<1> QED BY <1>1, SafeInvariant, PTL

\* Under the same condition pruning and archiving never remove a recording
\* that an enabled target lacks.
THEOREM RemovedIsUploadedTheorem ==
  ASSUME OnePerSecond = TRUE
  PROVE  Spec => []RemovedIsUploaded
<1>1. SafeInv => RemovedIsUploaded BY DEF SafeInv
<1> QED BY <1>1, SafeInvariant, PTL

-----------------------------------------------------------------------------
(* The uploader next to the recorder, on the database that both write. *)

\* A recorder that stops at a busy database, and is started again, leaves the
\* files and the rows as the uploader's own specification allows: every step of
\* the station is a step of the uploader or none at all.
THEOREM StationIsUploader == DbSpec => Spec
<1>1. DbInit => Init BY DEF DbInit
<1>2. [DbNext]_dbVars => [Next]_vars
  <2> SUFFICES ASSUME [DbNext]_dbVars PROVE [Next]_vars OBVIOUS
  <2>1. CASE Roll BY <2>1 DEF Roll, Next
  <2>2. CASE HeartbeatFails BY <2>2 DEF HeartbeatFails
  <2>3. CASE Rearm BY <2>3 DEF Rearm
  <2>4. CASE Distribute BY <2>4 DEF Next
  <2>5. CASE UNCHANGED dbVars BY <2>5 DEF dbVars
  <2> QED BY <2>1, <2>2, <2>3, <2>4, <2>5 DEF DbNext
<1> QED BY <1>1, <1>2, PTL DEF DbSpec, Spec

\* So the station too keeps its done rows true, and removes no recording that an
\* enabled target lacks, also when writes of the recorder fail half-way.
THEOREM StationSafe ==
  ASSUME OnePerSecond = TRUE
  PROVE  DbSpec => [](DoneIsRemote /\ RemovedIsUploaded)
BY StationIsUploader, DoneIsRemoteTheorem, RemovedIsUploadedTheorem, PTL
=============================================================================
