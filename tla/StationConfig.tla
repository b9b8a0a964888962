--------------------------- MODULE StationConfig ---------------------------
(***************************************************************************)
(* What the web application keeps of a station (api/models.py) and the     *)
(* requests that change it: accounts and their sessions, the first-run     *)
(* wizard, the frequency programs, calibration sets, instruments,          *)
(* schedules and upload targets, backup and restore, and the import of a   *)
(* legacy station.                                                         *)
(*                                                                         *)
(* A table is a function from the row ids in use.  SQLite hands out ids    *)
(* anew (the largest in use plus one), refuses a second row of the same    *)
(* name and, by the pragma that db.py sets, a reference to no row and the  *)
(* deletion of a row that another row refers to.  It does neither for a    *)
(* column that an upgrade added: _add_missing_columns adds it without its  *)
(* foreign key.  A handler that commits once is one action; one that       *)
(* commits more often, or awaits, is split there, and so is the export,    *)
(* whose reads share no transaction.  Left out: the access and peer rows,  *)
(* which nothing refers to, the audit trail, and every field that the      *)
(* properties do not tell apart.  A backup that is restored is one that    *)
(* this station exported, one restore at a time.                           *)
(***************************************************************************)
EXTENDS Integers, FiniteSets, FiniteSetsExt

CONSTANTS
  UserNames, ProgramNames, Tokens,  \* what accounts, programs and sessions are called
  Posts,      \* wizard forms that may be on their way at once
  NoId,       \* a reference that is None
  Added,      \* the columns that an upgrade of an older database has added
  Scenarios,  \* the stations to begin with
  MaxId, MaxRequests, MaxFaults     \* bounds

ASSUME BoundsAssumption ==
  /\ MaxId \in Nat /\ MaxRequests \in Nat /\ MaxFaults \in Nat /\ NoId \notin Int

\* The columns with a foreign key that older tables may lack.
Addable == {"instrument.program", "instrument.calset", "schedule.program"}
ASSUME AddedAssumption == Added \subseteq Addable

Ids == 1..MaxId
Refs == Ids \cup {NoId}
Roles == {"viewer", "operator", "admin"}
Pages == <<"admin", "station", "coordinates", "instrument", "review">>
FINAL == 4   \* steps count from 0, as the code's

VARIABLES
  user,       \* id -> [name, role, active]
  session,    \* token -> id of the account
  calset,     \* ids of the calibration sets
  program,    \* id -> [name, empty]
  station,    \* the Station row exists
  instrument, \* id -> [program, calset]
  schedule,   \* id -> [instrument, program]
  target,     \* ids of the upload targets
  job,        \* targets that some UploadJob row refers to
  desired,    \* ids whose RecorderRuntime row says that the operator wants a recording
  wizard,     \* the WizardState row, or NoRow: [step, answered]
  shown,      \* wizard pages that some browser shows
  post,       \* per wizard form what its handler read before the await, or NoPost
  final,      \* _finalize between its commits: what it has still to store
  backup,     \* the export: tables read so far
  restore,    \* import_config: "idle", "cleared"; then how the last one ended
  legacy,     \* import_legacy between its commits
  requests, faults

accounts == <<user, session>>
tables == <<calset, program, instrument, schedule, target>>
setup == <<wizard, shown, post, final>>
vars == <<accounts, tables, station, job, desired, setup, backup, restore, legacy,
          requests, faults>>

NoRow == [step |-> -1, answered |-> {}]
NoPost == [step |-> -1, answered |-> {}, page |-> -1]
NoFinal == [answered |-> {}, id |-> NoId]
NoBackup == [read |-> 0, calset |-> {}, program |-> <<>>, station |-> FALSE,
             instrument |-> <<>>, schedule |-> <<>>, target |-> {}]
NoLegacy == [at |-> "no", program |-> FALSE, schedule |-> FALSE, id |-> NoId]

Maps(K, R) == UNION {[D -> R] : D \in SUBSET K}
Table(R) == Maps(Ids, R)
UserRow == [name : UserNames, role : Roles, active : BOOLEAN]
ProgramRow == [name : ProgramNames, empty : BOOLEAN]
InstrumentRow == [program : Refs, calset : Refs]
ScheduleRow == [instrument : Ids, program : Refs]
Answers == {Pages[k + 1] : k \in 0..FINAL}
WizardRow == [step : 0..FINAL, answered : SUBSET Answers]
Post == [step : 0..FINAL, answered : SUBSET Answers, page : 0..FINAL]
Backup == [read : 0..6, calset : SUBSET Ids, program : Table(ProgramRow), station : BOOLEAN,
           instrument : Table(InstrumentRow), schedule : Table(ScheduleRow),
           target : SUBSET Ids]
Legacy == [at : {"no", "instrument", "rest"}, program : BOOLEAN, schedule : BOOLEAN, id : Refs]

\* The values that the state may take.
TypeOK ==
  /\ user \in Table(UserRow) /\ session \in Maps(Tokens, Ids)
  /\ calset \subseteq Ids /\ program \in Table(ProgramRow) /\ station \in BOOLEAN
  /\ instrument \in Table(InstrumentRow) /\ schedule \in Table(ScheduleRow)
  /\ target \subseteq Ids /\ job \subseteq Ids /\ desired \subseteq Ids
  /\ wizard \in WizardRow \cup {NoRow} /\ shown \subseteq 0..FINAL
  /\ post \in [Posts -> Post \cup {NoPost}]
  /\ final \in [answered : SUBSET Answers, id : Refs]
  /\ backup \in Backup /\ legacy \in Legacy
  /\ restore \in {"idle", "cleared", "ok", "refused", "lost"}
  /\ requests \in 0..MaxRequests /\ faults \in 0..MaxFaults

-----------------------------------------------------------------------------
(* The database. *)

Put(f, k, v) == [x \in DOMAIN f \cup {k} |-> IF x = k THEN v ELSE f[x]]
Drop(f, k) == [x \in DOMAIN f \ {k} |-> f[x]]

\* SQLite's id for a new row: a rowid without AUTOINCREMENT.
NextId(ids) == 1 + Max(ids \cup {0})

\* A connection that does not enforce foreign keys.
Referenced_NoPragma(table, id) == FALSE

\* Some row refers to this one, by a foreign key that the database knows.
Referenced(table, id) ==
  CASE table = "user"       -> \E t \in DOMAIN session : session[t] = id
    [] table = "program"    -> \/ /\ "instrument.program" \notin Added
                                  /\ \E i \in DOMAIN instrument : instrument[i].program = id
                               \/ /\ "schedule.program" \notin Added
                                  /\ \E s \in DOMAIN schedule : schedule[s].program = id
    [] table = "calset"     -> /\ "instrument.calset" \notin Added
                               /\ \E i \in DOMAIN instrument : instrument[i].calset = id
    [] table = "instrument" -> \E s \in DOMAIN schedule : schedule[s].instrument = id
    [] table = "target"     -> id \in job

\* The database takes this reference to one of these rows.
Refers(column, ref, ids) == column \in Added \/ ref = NoId \/ ref \in ids

\* The stations to begin with are databases that keep the foreign keys they have.
ASSUME ScenariosAssumption ==
  \A sc \in Scenarios :
    /\ sc.user \in Table(UserRow) /\ sc.program \in Table(ProgramRow) /\ sc.station \in BOOLEAN
    /\ sc.instrument \in Table(InstrumentRow) /\ sc.schedule \in Table(ScheduleRow)
    /\ \A i \in DOMAIN sc.instrument :
         /\ Refers("instrument.program", sc.instrument[i].program, DOMAIN sc.program)
         /\ sc.instrument[i].calset = NoId
    /\ \A i \in DOMAIN sc.schedule :
         /\ sc.schedule[i].instrument \in DOMAIN sc.instrument
         /\ Refers("schedule.program", sc.schedule[i].program, DOMAIN sc.program)

FreeName(f, n) == \A x \in DOMAIN f : f[x].name # n

-----------------------------------------------------------------------------
(* Accounts. *)

is_configured == DOMAIN user # {}

\* get_current_user for a live session: the account, or nobody.
Current(t) == IF session[t] \in DOMAIN user THEN session[t] ELSE NoId
Order == [viewer |-> 0, operator |-> 1, admin |-> 2]

\* require_role: the accounts whose requests are let through.
Actors(role) ==
  { u \in DOMAIN user : /\ user[u].active /\ Order[user[u].role] >= Order[role]
                        /\ \E t \in DOMAIN session : Current(t) = u }

Request(role) ==
  /\ requests < MaxRequests /\ requests' = requests + 1
  /\ Actors(role) # {}

Login(u, t) ==
  /\ requests < MaxRequests /\ requests' = requests + 1
  /\ u \in DOMAIN user /\ user[u].active /\ t \notin DOMAIN session
  /\ session' = Put(session, t, u)
  /\ UNCHANGED <<user, tables, station, job, desired, setup, backup, restore, legacy, faults>>

\* Logout, or the first request after the session expired.
Logout(t) ==
  /\ t \in DOMAIN session
  /\ session' = Drop(session, t)
  /\ UNCHANGED <<user, tables, station, job, desired, setup, backup, restore, legacy,
                 requests, faults>>

Account(changed) ==
  /\ Request("admin")
  /\ user' = changed
  /\ UNCHANGED <<session, tables, station, job, desired, setup, backup, restore, legacy, faults>>

CreateUser(name, role) ==
  /\ FreeName(user, name) /\ NextId(DOMAIN user) \in Ids
  /\ Account(Put(user, NextId(DOMAIN user), [name |-> name, role |-> role, active |-> TRUE]))

\* PATCH with a role, with active, or with both as one after the other: the
\* audit record commits the first before the second is set.
UpdateUser(u, role, active) ==
  /\ u \in DOMAIN user /\ (role = user[u].role \/ active = user[u].active)
  /\ Account([user EXCEPT ![u].role = role, ![u].active = active])

\* One cannot delete oneself; whoever has a session cannot be deleted at all.
DeleteUser(u) ==
  /\ u \in DOMAIN user /\ Actors("admin") \ {u} # {}
  /\ ~Referenced("user", u)
  /\ Account(Drop(user, u))

-----------------------------------------------------------------------------
(* The first-run wizard. *)

Row == IF wizard = NoRow THEN [step |-> 0, answered |-> {}] ELSE wizard

WizardPage ==
  /\ ~is_configured
  /\ wizard' = Row /\ shown' = shown \cup {Row.step}
  /\ UNCHANGED <<accounts, tables, station, job, desired, post, final, backup, restore,
                 legacy, requests, faults>>

\* wizard_submit up to its await: what it goes by is read here.
SubmitBegin(p, page) ==
  /\ ~is_configured /\ requests < MaxRequests
  /\ post[p] = NoPost /\ page \in shown
  /\ wizard' = Row
  /\ post' = [post EXCEPT ![p] = [step |-> Row.step, answered |-> Row.answered, page |-> page]]
  /\ requests' = requests + 1
  /\ UNCHANGED <<accounts, tables, station, job, desired, shown, final, backup, restore,
                 legacy, faults>>

\* The rest of wizard_submit before the last step: a form moves on by one
\* whatever page it is of, a pasted callisto.cfg moves to the review.  The
\* row is written back, unless it has gone.
SubmitEnd(p) ==
  /\ post[p] # NoPost /\ final = NoFinal
  /\ \/ /\ post[p].page = 1
        /\ wizard' = [step |-> FINAL, answered |-> post[p].answered
                                        \cup {"station", "coordinates", "instrument"}]
     \/ /\ post[p].step < FINAL
        /\ wizard' = [step |-> post[p].step + 1,
                      answered |-> post[p].answered \cup {Pages[post[p].page + 1]}]
  /\ wizard # NoRow
  /\ post' = [post EXCEPT ![p] = NoPost]
  /\ UNCHANGED <<accounts, tables, station, job, desired, shown, final, backup, restore,
                 legacy, requests, faults>>

\* The row is gone (StaleDataError), or the account exists (IntegrityError).
SubmitFails(p) ==
  /\ post[p] # NoPost /\ final = NoFinal
  /\ \/ wizard = NoRow /\ post[p].step < FINAL
     \/ post[p].step = FINAL /\ \A n \in UserNames : ~FreeName(user, n)
  /\ post' = [post EXCEPT ![p] = NoPost]
  /\ UNCHANGED <<accounts, tables, station, job, desired, wizard, shown, final, backup,
                 restore, legacy, requests, faults>>

\* _finalize, first commit: the account.
FinalizeAccount(p, name) ==
  /\ post[p] # NoPost /\ post[p].step = FINAL /\ final = NoFinal
  /\ FreeName(user, name) /\ NextId(DOMAIN user) \in Ids
  /\ user' = Put(user, NextId(DOMAIN user), [name |-> name, role |-> "admin", active |-> TRUE])
  /\ final' = [answered |-> post[p].answered \cup {Pages[post[p].page + 1]},
               id |-> NextId(DOMAIN user)]
  /\ post' = [post EXCEPT ![p] = NoPost]
  /\ UNCHANGED <<session, tables, station, job, desired, wizard, shown, backup, restore,
                 legacy, requests, faults>>

\* Second commit: station, instrument if one was named, no wizard any more; login.
FinalizeStation(t, named) ==
  /\ final # NoFinal /\ t \notin DOMAIN session
  /\ named => "instrument" \in final.answered /\ NextId(DOMAIN instrument) \in Ids
  /\ station' = TRUE
  /\ instrument' = IF named
                     THEN Put(instrument, NextId(DOMAIN instrument), [program |-> NoId, calset |-> NoId])
                     ELSE instrument
  /\ wizard' = NoRow /\ final' = NoFinal
  /\ session' = IF final.id \in DOMAIN user /\ user[final.id].active
                  THEN Put(session, t, final.id)
                  ELSE session
  /\ UNCHANGED <<user, calset, program, schedule, target, job, desired, shown, post, backup,
                 restore, legacy, requests, faults>>

\* A number in the answers does not parse: the request fails after its first commit.
FinalizeRaises ==
  /\ final # NoFinal /\ faults < MaxFaults
  /\ final' = NoFinal /\ faults' = faults + 1
  /\ UNCHANGED <<accounts, tables, station, job, desired, wizard, shown, post, backup,
                 restore, legacy, requests>>

-----------------------------------------------------------------------------
(* Programs, calibration sets, instruments, schedules, targets. *)

Configure == UNCHANGED <<accounts, station, job, desired, setup, backup, restore, legacy, faults>>

\* Entered by hand, generated from an overview, or read from a frq file.
CreateProgram(name, empty) ==
  /\ Request("operator")
  /\ FreeName(program, name) /\ NextId(DOMAIN program) \in Ids
  /\ program' = Put(program, NextId(DOMAIN program), [name |-> name, empty |-> empty])
  /\ Configure /\ UNCHANGED <<calset, instrument, schedule, target>>

DeleteProgram(id) ==
  /\ Request("operator")
  /\ id \in DOMAIN program /\ ~Referenced("program", id)
  /\ program' = Drop(program, id)
  /\ Configure /\ UNCHANGED <<calset, instrument, schedule, target>>

CreateSet ==
  /\ Request("operator")
  /\ NextId(calset) \in Ids /\ calset' = calset \cup {NextId(calset)}
  /\ Configure /\ UNCHANGED <<program, instrument, schedule, target>>

DeleteSet(id) ==
  /\ Request("operator")
  /\ id \in calset /\ ~Referenced("calset", id)
  /\ calset' = calset \ {id}
  /\ Configure /\ UNCHANGED <<program, instrument, schedule, target>>

CreateInstrument(row) ==
  /\ Request("operator")
  /\ Refers("instrument.program", row.program, DOMAIN program)
  /\ Refers("instrument.calset", row.calset, calset)
  /\ NextId(DOMAIN instrument) \in Ids
  /\ instrument' = Put(instrument, NextId(DOMAIN instrument), row)
  /\ Configure /\ UNCHANGED <<calset, program, schedule, target>>

UpdateInstrument(i, row) ==
  /\ Request("operator")
  /\ i \in DOMAIN instrument
  /\ Refers("instrument.program", row.program, DOMAIN program)
  /\ Refers("instrument.calset", row.calset, calset)
  /\ instrument' = Put(instrument, i, row)
  /\ Configure /\ UNCHANGED <<calset, program, schedule, target>>

\* The RecorderRuntime row of the instrument has no foreign key, and stays.
DeleteInstrument(i) ==
  /\ Request("operator")
  /\ i \in DOMAIN instrument /\ ~Referenced("instrument", i)
  /\ instrument' = Drop(instrument, i)
  /\ Configure /\ UNCHANGED <<calset, program, schedule, target>>

CreateSchedule(row) ==
  /\ Request("operator")
  /\ row.instrument \in DOMAIN instrument
  /\ Refers("schedule.program", row.program, DOMAIN program)
  /\ NextId(DOMAIN schedule) \in Ids
  /\ schedule' = Put(schedule, NextId(DOMAIN schedule), row)
  /\ Configure /\ UNCHANGED <<calset, program, instrument, target>>

DeleteSchedule(s) ==
  /\ Request("operator")
  /\ s \in DOMAIN schedule
  /\ schedule' = Drop(schedule, s)
  /\ Configure /\ UNCHANGED <<calset, program, instrument, target>>

CreateTarget ==
  /\ Request("operator")
  /\ NextId(target) \in Ids /\ target' = target \cup {NextId(target)}
  /\ Configure /\ UNCHANGED <<calset, program, instrument, schedule>>

\* An upload pass records what it did with a file.
Upload(id) ==
  /\ id \in target \ job
  /\ job' = job \cup {id}
  /\ UNCHANGED <<accounts, tables, station, desired, setup, backup, restore, legacy,
                 requests, faults>>

\* Record and Stop of an instrument that nothing schedules.
SetDesired(i, wanted) ==
  /\ Request("operator")
  /\ wanted => i \in DOMAIN instrument
  /\ desired' = IF wanted THEN desired \cup {i} ELSE desired \ {i}
  /\ UNCHANGED <<accounts, tables, station, job, setup, backup, restore, legacy, faults>>

\* What an instrument records with: the schedule's program, else its own, else a ramp.
ProgramChannels(ref) == IF ref \in DOMAIN program /\ ~program[ref].empty THEN {program[ref].name} ELSE {}

resolve_channels(own, override) ==
  IF ProgramChannels(override) # {} THEN ProgramChannels(override) ELSE ProgramChannels(own)

-----------------------------------------------------------------------------
(* Backup and restore, legacy import. *)

ExportBegin ==
  /\ Request("admin") /\ backup.read \in {0, 6}
  /\ backup' = [NoBackup EXCEPT !.read = 1, !.calset = calset]
  /\ UNCHANGED <<accounts, tables, station, job, desired, setup, restore, legacy, faults>>

\* The tables are read one after the other.
ExportRead ==
  /\ backup.read \in 1..5
  /\ backup' = CASE backup.read = 1 -> [backup EXCEPT !.read = 2, !.program = program]
                 [] backup.read = 2 -> [backup EXCEPT !.read = 3, !.station = station]
                 [] backup.read = 3 -> [backup EXCEPT !.read = 4, !.instrument = instrument]
                 [] backup.read = 4 -> [backup EXCEPT !.read = 5, !.schedule = schedule]
                 [] backup.read = 5 -> [backup EXCEPT !.read = 6, !.target = target]
  /\ UNCHANGED <<accounts, tables, station, job, desired, setup, restore, legacy,
                 requests, faults>>

\* import_config, first commit: the tables are emptied, unless upload jobs
\* refer to a target.
RestoreClear ==
  /\ Request("admin") /\ backup.read = 6 /\ restore # "cleared"
  /\ IF \E id \in target : Referenced("target", id)
       THEN restore' = "refused" /\ UNCHANGED <<tables, station>>
       ELSE /\ restore' = "cleared" /\ station' = FALSE
            /\ calset' = {} /\ program' = <<>> /\ instrument' = <<>>
            /\ schedule' = <<>> /\ target' = {}
  /\ UNCHANGED <<accounts, job, desired, setup, backup, legacy, faults>>

\* Mutant of Fits: the references of the rows are not looked at.
Fits_Unchecked ==
  /\ calset \cap backup.calset = {} /\ target \cap backup.target = {}
  /\ DOMAIN program \cap DOMAIN backup.program = {}
  /\ DOMAIN instrument \cap DOMAIN backup.instrument = {}
  /\ DOMAIN schedule \cap DOMAIN backup.schedule = {}
  /\ \A p \in DOMAIN backup.program : FreeName(program, backup.program[p].name)

\* The rows of the backup fit into what is there by now.
Fits ==
  /\ calset \cap backup.calset = {} /\ target \cap backup.target = {}
  /\ DOMAIN program \cap DOMAIN backup.program = {}
  /\ DOMAIN instrument \cap DOMAIN backup.instrument = {}
  /\ DOMAIN schedule \cap DOMAIN backup.schedule = {}
  /\ \A p \in DOMAIN backup.program : FreeName(program, backup.program[p].name)
  /\ \A i \in DOMAIN backup.instrument :
       /\ Refers("instrument.program", backup.instrument[i].program, DOMAIN program \cup DOMAIN backup.program)
       /\ Refers("instrument.calset", backup.instrument[i].calset, calset \cup backup.calset)
  /\ \A s \in DOMAIN backup.schedule :
       /\ backup.schedule[s].instrument \in DOMAIN instrument \cup DOMAIN backup.instrument
       /\ Refers("schedule.program", backup.schedule[s].program, DOMAIN program \cup DOMAIN backup.program)

Both(f, g) == [x \in DOMAIN f \cup DOMAIN g |-> IF x \in DOMAIN f THEN f[x] ELSE g[x]]

\* Second commit: all rows with their old ids, or none of them.
RestoreInsert ==
  /\ restore = "cleared"
  /\ IF Fits
       THEN /\ restore' = "ok" /\ station' = (station \/ backup.station)
            /\ calset' = calset \cup backup.calset /\ target' = target \cup backup.target
            /\ program' = Both(program, backup.program)
            /\ instrument' = Both(instrument, backup.instrument)
            /\ schedule' = Both(schedule, backup.schedule)
       ELSE restore' = "lost" /\ UNCHANGED <<tables, station>>
  /\ UNCHANGED <<accounts, job, desired, setup, backup, legacy, requests, faults>>

\* import_legacy, first commit: the station, and the calibration set if there is
\* one (a second set of the same name fails here, before anything is stored).
LegacyBegin(cal, prog, sched) ==
  /\ Request("operator") /\ legacy = NoLegacy
  /\ cal => NextId(calset) \in Ids
  /\ IF cal THEN station' = TRUE /\ calset' = calset \cup {NextId(calset)}
            ELSE UNCHANGED <<station, calset>>
  /\ legacy' = [at |-> "instrument", program |-> prog, schedule |-> sched,
                id |-> IF cal THEN NextId(calset) ELSE NoId]
  /\ UNCHANGED <<accounts, program, instrument, schedule, target, job, desired, setup,
                 backup, restore, faults>>

\* Second commit: the instrument; it fails if the set has gone meanwhile.
LegacyInstrument ==
  /\ legacy.at = "instrument" /\ NextId(DOMAIN instrument) \in Ids
  /\ IF Refers("instrument.calset", legacy.id, calset)
       THEN /\ station' = TRUE
            /\ instrument' = Put(instrument, NextId(DOMAIN instrument),
                                 [program |-> NoId, calset |-> legacy.id])
            /\ legacy' = [legacy EXCEPT !.at = "rest", !.id = NextId(DOMAIN instrument)]
       ELSE legacy' = NoLegacy /\ UNCHANGED <<station, instrument>>
  /\ UNCHANGED <<accounts, calset, program, schedule, target, job, desired, setup, backup,
                 restore, requests, faults>>

\* Third commit: the program, which nothing refers to, and the schedule; both or none.
LegacyRest(name) ==
  /\ legacy.at = "rest"
  /\ legacy.program => NextId(DOMAIN program) \in Ids
  /\ legacy.schedule => NextId(DOMAIN schedule) \in Ids
  /\ IF (legacy.program => FreeName(program, name)) /\ (legacy.schedule => legacy.id \in DOMAIN instrument)
       THEN /\ program' = IF legacy.program
                            THEN Put(program, NextId(DOMAIN program), [name |-> name, empty |-> FALSE])
                            ELSE program
            /\ schedule' = IF legacy.schedule
                             THEN Put(schedule, NextId(DOMAIN schedule),
                                      [instrument |-> legacy.id, program |-> NoId])
                             ELSE schedule
       ELSE UNCHANGED <<program, schedule>>
  /\ legacy' = NoLegacy
  /\ UNCHANGED <<accounts, calset, station, instrument, target, job, desired, setup, backup,
                 restore, requests, faults>>

\* The process dies: requests on their way are forgotten, the tables stay.
Crash ==
  /\ faults < MaxFaults /\ faults' = faults + 1
  /\ post' = [p \in Posts |-> NoPost] /\ final' = NoFinal
  /\ restore' = IF restore = "cleared" THEN "lost" ELSE restore
  /\ backup' = IF backup.read = 6 THEN backup ELSE NoBackup
  /\ legacy' = NoLegacy
  /\ UNCHANGED <<accounts, tables, station, job, desired, wizard, shown, requests>>

-----------------------------------------------------------------------------

Init ==
  /\ \E sc \in Scenarios :
       /\ user = sc.user /\ program = sc.program /\ instrument = sc.instrument
       /\ schedule = sc.schedule /\ station = sc.station
  /\ session = <<>> /\ calset = {} /\ target = {} /\ job = {} /\ desired = {}
  /\ wizard = NoRow /\ shown = {} /\ post = [p \in Posts |-> NoPost] /\ final = NoFinal
  /\ backup = NoBackup /\ restore = "idle" /\ legacy = NoLegacy
  /\ requests = 0 /\ faults = 0

Next ==
  \/ \E u \in Ids, t \in Tokens : Login(u, t)
  \/ \E t \in Tokens : Logout(t)
  \/ \E n \in UserNames, r \in Roles : CreateUser(n, r)
  \/ \E u \in Ids, r \in Roles, a \in BOOLEAN : UpdateUser(u, r, a)
  \/ \E u \in Ids : DeleteUser(u)
  \/ WizardPage
  \/ \E p \in Posts, page \in 0..FINAL : SubmitBegin(p, page)
  \/ \E p \in Posts : SubmitEnd(p) \/ SubmitFails(p)
  \/ \E p \in Posts, n \in UserNames : FinalizeAccount(p, n)
  \/ \E t \in Tokens, named \in BOOLEAN : FinalizeStation(t, named)
  \/ FinalizeRaises
  \/ \E n \in ProgramNames, e \in BOOLEAN : CreateProgram(n, e)
  \/ \E id \in Ids : DeleteProgram(id) \/ DeleteSet(id) \/ DeleteInstrument(id)
                       \/ DeleteSchedule(id) \/ Upload(id)
  \/ CreateSet \/ CreateTarget
  \/ \E row \in InstrumentRow : CreateInstrument(row) \/ \E i \in Ids : UpdateInstrument(i, row)
  \/ \E row \in ScheduleRow : CreateSchedule(row)
  \/ \E i \in Ids, wanted \in BOOLEAN : SetDesired(i, wanted)
  \/ ExportBegin \/ ExportRead \/ RestoreClear \/ RestoreInsert
  \/ \E cal, prog, sched \in BOOLEAN : LegacyBegin(cal, prog, sched)
  \/ LegacyInstrument \/ \E n \in ProgramNames : LegacyRest(n)
  \/ Crash

Spec == Init /\ [][Next]_vars

-----------------------------------------------------------------------------
(* Properties. *)

\* crud.py: "a duplicate name or dangling reference becomes a 409".  No row
\* refers to a row that is not there, however requests, the torn reads of an
\* export, a restore and an import are split at their commits.
NoDangling ==
  /\ \A t \in DOMAIN session : session[t] \in DOMAIN user
  /\ \A i \in DOMAIN instrument : /\ instrument[i].program \in DOMAIN program \cup {NoId}
                                  /\ instrument[i].calset \in calset \cup {NoId}
  /\ \A s \in DOMAIN schedule : /\ schedule[s].instrument \in DOMAIN instrument
                                /\ schedule[s].program \in DOMAIN program \cup {NoId}
  /\ job \subseteq target

\* What a step leaves of an instrument row and of a schedule row, it leaves of
\* the channels they record with: no request that is about something else
\* (the deletion of a program, a restore, an import, a reused id) makes an
\* instrument fall back to the ramp of resolve_channels, or to another plan.
PlanKept ==
  [][/\ \A i \in DOMAIN instrument \cap DOMAIN instrument' :
          instrument'[i] = instrument[i] =>
            resolve_channels(instrument[i].program, NoId)' = resolve_channels(instrument[i].program, NoId)
     /\ \A s \in DOMAIN schedule \cap DOMAIN schedule' :
          schedule'[s] = schedule[s] =>
            ProgramChannels(schedule[s].program)' = ProgramChannels(schedule[s].program)]_vars

\* A session stands for the account that opened it for as long as it exists:
\* get_current_user never finds another account, or none, behind a token,
\* although accounts are deleted and their ids given to new ones.
SessionKept ==
  [][\A t \in DOMAIN session \cap DOMAIN session' :
        /\ session[t] \in DOMAIN user /\ session[t] \in DOMAIN user'
        /\ user'[session'[t]].name = user[session[t]].name]_vars

\* config_backup.py: a restore on the same station round-trips.
RoundTrips == restore \notin {"refused", "lost"}

\* wizard.py: is_configured stays false until setup is complete.
SetupComplete == is_configured /\ final = NoFinal => station

\* models.py: Record and Stop set the operator's flag.  An instrument that has
\* just been created is not one that somebody pressed Record for.
NewIsIdle ==
  [][\A i \in DOMAIN instrument' \ DOMAIN instrument : restore # "cleared" => i \notin desired]_vars
=============================================================================
