------------------------ MODULE StationConfigProofs ------------------------
(***************************************************************************)
(* What is proved of StationConfig for every number of rows, names,        *)
(* sessions, wizard forms and requests, and every station to begin with:   *)
(* a session keeps its account and an instrument keeps its plan, whatever  *)
(* is deleted, reused, restored or imported.  Both rest on the foreign     *)
(* keys, which no step of any handler leaves broken (ReferencesOK).        *)
(***************************************************************************)
EXTENDS StationConfig, SequenceTheorems, WellFoundedInduction, TLAPS

-----------------------------------------------------------------------------
(* Tables. *)

\* A table has rows of its kind under ids of its own.
LEMMA MapsRows ==
  ASSUME NEW K, NEW R, NEW f \in Maps(K, R)
  PROVE  /\ DOMAIN f \in SUBSET K
         /\ \A x \in DOMAIN f : f[x] \in R
         /\ f \in [DOMAIN f -> R]
<1>1. PICK D \in SUBSET K : f \in [D -> R]
  BY DEF Maps
<1> QED
  BY <1>1

\* A function with such rows is a table.
LEMMA RowsMaps ==
  ASSUME NEW K, NEW R, NEW D \in SUBSET K, NEW f \in [D -> R]
  PROVE  f \in Maps(K, R)
BY DEF Maps

\* A table without rows.
LEMMA EmptyMaps ==
  ASSUME NEW K, NEW R
  PROVE  <<>> \in Maps(K, R) /\ DOMAIN <<>> = {}
<1>1. <<>> \in Seq(R) /\ Len(<<>>) = 0
  BY EmptySeq
<1>2. <<>> \in [1..0 -> R]
  BY <1>1, LenProperties
<1>3. 1..0 = {}
  OBVIOUS
<1>4. <<>> \in [{} -> R]
  BY <1>2, <1>3
<1> QED
  BY <1>4, RowsMaps

\* Put stores one row and leaves the others.
LEMMA PutRows ==
  ASSUME NEW f, NEW k, NEW v
  PROVE  /\ DOMAIN Put(f, k, v) = DOMAIN f \cup {k}
         /\ Put(f, k, v)[k] = v
         /\ \A x \in DOMAIN f : x # k => Put(f, k, v)[x] = f[x]
BY DEF Put

\* A row that is put into a table leaves it a table.
LEMMA PutMaps ==
  ASSUME NEW K, NEW R, NEW f \in Maps(K, R), NEW k \in K, NEW v \in R
  PROVE  Put(f, k, v) \in Maps(K, R)
<1>1. DOMAIN f \in SUBSET K /\ \A x \in DOMAIN f : f[x] \in R
  BY MapsRows
<1>2. Put(f, k, v) \in [DOMAIN f \cup {k} -> R]
  BY <1>1 DEF Put
<1> QED
  BY <1>1, <1>2, RowsMaps

\* Drop removes one row and leaves the others.
LEMMA DropRows ==
  ASSUME NEW f, NEW k
  PROVE  /\ DOMAIN Drop(f, k) = DOMAIN f \ {k}
         /\ \A x \in DOMAIN f : x # k => Drop(f, k)[x] = f[x]
BY DEF Drop

\* A row that is dropped leaves it a table.
LEMMA DropMaps ==
  ASSUME NEW K, NEW R, NEW f \in Maps(K, R), NEW k
  PROVE  Drop(f, k) \in Maps(K, R)
<1>1. DOMAIN f \in SUBSET K /\ \A x \in DOMAIN f : f[x] \in R
  BY MapsRows
<1>2. Drop(f, k) \in [DOMAIN f \ {k} -> R]
  BY <1>1 DEF Drop
<1> QED
  BY <1>1, <1>2, RowsMaps

\* Both adds the rows of a second table that the first one has no id for.
LEMMA BothRows ==
  ASSUME NEW f, NEW g
  PROVE  /\ DOMAIN Both(f, g) = DOMAIN f \cup DOMAIN g
         /\ \A x \in DOMAIN f : Both(f, g)[x] = f[x]
         /\ \A x \in DOMAIN g \ DOMAIN f : Both(f, g)[x] = g[x]
BY DEF Both

\* Two tables together are a table.
LEMMA BothMaps ==
  ASSUME NEW K, NEW R, NEW f \in Maps(K, R), NEW g \in Maps(K, R)
  PROVE  Both(f, g) \in Maps(K, R)
<1>1. DOMAIN f \in SUBSET K /\ \A x \in DOMAIN f : f[x] \in R
  BY MapsRows
<1>2. DOMAIN g \in SUBSET K /\ \A x \in DOMAIN g : g[x] \in R
  BY MapsRows
<1>3. Both(f, g) \in [DOMAIN f \cup DOMAIN g -> R]
  BY <1>1, <1>2 DEF Both
<1> QED
  BY <1>1, <1>2, <1>3, RowsMaps

\* The id that SQLite gives to a new row is not in use.
LEMMA NextIdFresh ==
  ASSUME NEW ids \in SUBSET Ids
  PROVE  NextId(ids) \notin ids
<1>0. MaxId \in Nat
  BY BoundsAssumption
<1> DEFINE S == ids \cup {0}
           below == {MaxId - x : x \in S}
<1>1. below \in SUBSET Nat /\ below # {}
  BY <1>0 DEF Ids
<1>2. \A x, y \in Nat : y < x => <<y, x>> \in OpToRel(<, Nat)
  BY DEF OpToRel
<1>3. PICK x \in below : \A y \in below : ~(<<y, x>> \in OpToRel(<, Nat))
  BY <1>1, NatLessThanWellFounded, WFMin
<1>4. \A y \in below : ~(y < x)
  BY <1>1, <1>2, <1>3, Zenon
<1>5. PICK m \in S : x = MaxId - m
  OBVIOUS
<1>6. \A y \in S : MaxId - y \in below
  OBVIOUS
<1>7. S \subseteq Int
  BY DEF Ids
<1>8. ASSUME NEW y \in S
      PROVE  m >= y
  <2>1. ~(MaxId - y < MaxId - m)
    BY <1>4, <1>5, <1>6, Zenon
  <2>2. y \in Int /\ m \in Int
    BY <1>5, <1>7
  <2> QED
    BY <1>0, <2>1, <2>2
<1>9. Max(S) \in S /\ \A y \in S : Max(S) >= y
  BY <1>8 DEF Max
<1> QED
  BY <1>7, <1>9 DEF NextId
-----------------------------------------------------------------------------
(* The invariant: what each group of variables holds, and the foreign keys *)
(* that the database knows.                                                *)

InstrumentRefs(instruments, programs, sets) ==
  \A i \in DOMAIN instruments :
    /\ Refers("instrument.program", instruments[i].program, DOMAIN programs)
    /\ Refers("instrument.calset", instruments[i].calset, sets)

ScheduleRefs(schedules, instruments, programs) ==
  \A s \in DOMAIN schedules :
    /\ schedules[s].instrument \in DOMAIN instruments
    /\ Refers("schedule.program", schedules[s].program, DOMAIN programs)

SessionRefs == \A t \in DOMAIN session : session[t] \in DOMAIN user

AccountsOK == user \in Table(UserRow) /\ session \in Maps(Tokens, Ids) /\ SessionRefs

TablesOK ==
  /\ calset \subseteq Ids /\ target \subseteq Ids
  /\ program \in Table(ProgramRow)
  /\ instrument \in Table(InstrumentRow) /\ InstrumentRefs(instrument, program, calset)
  /\ schedule \in Table(ScheduleRow) /\ ScheduleRefs(schedule, instrument, program)

SetupOK ==
  /\ wizard \in WizardRow \cup {NoRow} /\ shown \subseteq 0..FINAL
  /\ post \in [Posts -> Post \cup {NoPost}]
  /\ final \in [answered : SUBSET Answers, id : Refs]

CopiesOK == backup \in Backup /\ legacy \in Legacy

RestOK ==
  /\ station \in BOOLEAN /\ job \subseteq Ids /\ desired \subseteq Ids
  /\ restore \in {"idle", "cleared", "ok", "refused", "lost"}
  /\ requests \in 0..MaxRequests /\ faults \in 0..MaxFaults

ConfigInv == AccountsOK /\ TablesOK /\ SetupOK /\ CopiesOK /\ RestOK

\* What the invariant is for.
LEMMA Implied == ConfigInv => TypeOK
BY DEF ConfigInv, AccountsOK, TablesOK, SetupOK, CopiesOK, RestOK, TypeOK

\* A group of variables that a step leaves alone stays as it was.
LEMMA Unchanged ==
  /\ AccountsOK /\ UNCHANGED accounts => AccountsOK'
  /\ TablesOK /\ UNCHANGED tables => TablesOK'
  /\ SetupOK /\ UNCHANGED setup => SetupOK'
  /\ CopiesOK /\ UNCHANGED <<backup, legacy>> => CopiesOK'
  /\ RestOK /\ UNCHANGED <<station, job, desired, restore, requests, faults>> => RestOK'
<1>1. AccountsOK /\ UNCHANGED accounts => AccountsOK'
  BY DEF AccountsOK, SessionRefs, accounts
<1>2. TablesOK /\ UNCHANGED tables => TablesOK'
  BY DEF TablesOK, InstrumentRefs, ScheduleRefs, tables
<1>3. SetupOK /\ UNCHANGED setup => SetupOK'
  BY DEF SetupOK, setup
<1>4. CopiesOK /\ UNCHANGED <<backup, legacy>> => CopiesOK'
  BY DEF CopiesOK
<1>5. RestOK /\ UNCHANGED <<station, job, desired, restore, requests, faults>> => RestOK'
  BY DEF RestOK
<1> QED
  BY <1>1, <1>2, <1>3, <1>4, <1>5

\* A request counts itself and changes none of the other small variables.
LEMMA Counted ==
  ASSUME RestOK, requests < MaxRequests, requests' = requests + 1,
         UNCHANGED <<station, job, desired, restore, faults>>
  PROVE  RestOK'
BY BoundsAssumption DEF RestOK

\* The rows to begin with.
LEMMA ConstantRows ==
  /\ NoRow \in WizardRow \cup {NoRow}
  /\ [p \in Posts |-> NoPost] \in [Posts -> Post \cup {NoPost}]
  /\ NoFinal \in [answered : SUBSET Answers, id : Refs]
  /\ NoBackup \in Backup
  /\ NoLegacy \in Legacy
  /\ FINAL \in 0..FINAL /\ 0 \in 0..FINAL
<1>1. NoFinal \in [answered : SUBSET Answers, id : Refs]
  BY DEF NoFinal, Refs
<1>2. NoBackup \in Backup
  BY EmptyMaps DEF NoBackup, Backup, Table
<1>3. NoLegacy \in Legacy
  BY DEF NoLegacy, Legacy, Refs
<1>4. FINAL \in 0..FINAL /\ 0 \in 0..FINAL
  BY DEF FINAL
<1> QED
  BY <1>1, <1>2, <1>3, <1>4

\* An empty database.
LEMMA Initially == Init => ConfigInv
<1> SUFFICES ASSUME Init
             PROVE  ConfigInv
  OBVIOUS
<1>1. PICK sc \in Scenarios :
        /\ user = sc.user /\ program = sc.program /\ instrument = sc.instrument
        /\ schedule = sc.schedule /\ station = sc.station
  BY DEF Init
<1>2. /\ session = <<>> /\ calset = {} /\ target = {} /\ job = {} /\ desired = {}
      /\ wizard = NoRow /\ shown = {} /\ post = [p \in Posts |-> NoPost] /\ final = NoFinal
      /\ backup = NoBackup /\ restore = "idle" /\ legacy = NoLegacy
      /\ requests = 0 /\ faults = 0
  BY DEF Init
<1>3. AccountsOK
  BY <1>1, <1>2, EmptyMaps, ScenariosAssumption DEF AccountsOK, SessionRefs
<1>4. TablesOK
  BY <1>1, <1>2, ScenariosAssumption DEF TablesOK, InstrumentRefs, ScheduleRefs, Refers
<1>5. SetupOK
  BY <1>2, ConstantRows DEF SetupOK
<1>6. CopiesOK
  BY <1>2, ConstantRows DEF CopiesOK
<1>7. RestOK
  BY <1>1, <1>2, BoundsAssumption, ScenariosAssumption DEF RestOK
<1> QED
  BY <1>3, <1>4, <1>5, <1>6, <1>7 DEF ConfigInv

-----------------------------------------------------------------------------
(* Accounts. *)

\* An account that is stored under an id of its own, or anew, leaves the
\* sessions with an account.
LEMMA AccountStored ==
  ASSUME AccountsOK, NEW u \in Ids, NEW row \in UserRow,
         user' = Put(user, u, row), session' = session
  PROVE  AccountsOK'
<1>1. user' \in Table(UserRow)
  BY PutMaps DEF AccountsOK, Table
<1>2. DOMAIN user' = DOMAIN user \cup {u}
  BY PutRows
<1> QED
  BY <1>1, <1>2 DEF AccountsOK, SessionRefs

\* A session is opened for an account that exists.
LEMMA SessionOpened ==
  ASSUME AccountsOK, NEW u \in DOMAIN user, NEW t \in Tokens,
         session' = Put(session, t, u), user' = user
  PROVE  AccountsOK'
<1>1. u \in Ids
  BY MapsRows DEF AccountsOK, Table
<1>2. session' \in Maps(Tokens, Ids)
  BY <1>1, PutMaps DEF AccountsOK
<1>3. DOMAIN session' = DOMAIN session \cup {t} /\ session'[t] = u
  BY DEF Put
<1>4. \A x \in DOMAIN session : x # t => session'[x] = session[x]
  BY DEF Put
<1>5. SessionRefs'
  BY <1>3, <1>4 DEF AccountsOK, SessionRefs
<1> QED
  BY <1>2, <1>5 DEF AccountsOK

\* A session is opened for an active account that exists.
LEMMA LoginStep ==
  ASSUME ConfigInv, NEW u \in Ids, NEW t \in Tokens, Login(u, t)
  PROVE  ConfigInv'
<1>1. AccountsOK'
  BY SessionOpened DEF ConfigInv, Login
<1>2. TablesOK' /\ SetupOK' /\ CopiesOK'
  BY Unchanged DEF ConfigInv, Login
<1>3. RestOK'
  BY Counted DEF ConfigInv, Login
<1> QED
  BY <1>1, <1>2, <1>3 DEF ConfigInv

\* Nothing refers to a session.
LEMMA LogoutStep ==
  ASSUME ConfigInv, NEW t \in Tokens, Logout(t)
  PROVE  ConfigInv'
<1>1. session' \in Maps(Tokens, Ids)
  BY DropMaps DEF ConfigInv, AccountsOK, Logout
<1>2. SessionRefs'
  BY DEF ConfigInv, AccountsOK, SessionRefs, Logout, Drop
<1>3. AccountsOK'
  BY <1>1, <1>2 DEF ConfigInv, AccountsOK, Logout
<1>4. TablesOK' /\ SetupOK' /\ CopiesOK' /\ RestOK'
  BY Unchanged DEF ConfigInv, Logout
<1> QED
  BY <1>3, <1>4 DEF ConfigInv

\* What a request that changes the accounts leaves alone.
LEMMA AccountRest ==
  ASSUME ConfigInv, NEW changed, Account(changed)
  PROVE  TablesOK' /\ SetupOK' /\ CopiesOK' /\ RestOK'
<1>1. TablesOK' /\ SetupOK' /\ CopiesOK'
  BY Unchanged DEF ConfigInv, Account
<1>2. RestOK'
  BY Counted DEF ConfigInv, Account, Request
<1> QED
  BY <1>1, <1>2

\* A new account takes a fresh id, to which nothing refers.
LEMMA CreateUserStep ==
  ASSUME ConfigInv, NEW name \in UserNames, NEW role \in Roles, CreateUser(name, role)
  PROVE  ConfigInv'
<1> DEFINE row == [name |-> name, role |-> role, active |-> TRUE]
<1>1. row \in UserRow
  BY DEF UserRow
<1>2. Account(Put(user, NextId(DOMAIN user), row)) /\ NextId(DOMAIN user) \in Ids
  BY DEF CreateUser
<1>3. AccountsOK'
  BY <1>1, <1>2, AccountStored DEF ConfigInv, Account
<1> QED
  BY <1>2, <1>3, AccountRest DEF ConfigInv

\* A change of role or of activity keeps the account.
LEMMA UpdateUserStep ==
  ASSUME ConfigInv, NEW u \in Ids, NEW role \in Roles, NEW active \in BOOLEAN,
         UpdateUser(u, role, active)
  PROVE  ConfigInv'
<1> DEFINE changed == [user EXCEPT ![u].role = role, ![u].active = active]
<1>1. Account(changed) /\ u \in DOMAIN user
  BY DEF UpdateUser
<1>2. user \in [DOMAIN user -> UserRow] /\ DOMAIN user \in SUBSET Ids
  BY MapsRows DEF ConfigInv, AccountsOK, Table
<1>3. changed \in [DOMAIN user -> UserRow]
  BY <1>1, <1>2 DEF UserRow
<1>4. user' = changed /\ session' = session
  BY <1>1 DEF Account
<1>5. user' \in Table(UserRow) /\ DOMAIN user' = DOMAIN user
  BY <1>2, <1>3, <1>4, RowsMaps DEF Table
<1>6. AccountsOK'
  BY <1>4, <1>5 DEF ConfigInv, AccountsOK, SessionRefs
<1> QED
  BY <1>1, <1>6, AccountRest DEF ConfigInv

\* An account is deleted only when no row refers to it, sessions included.
LEMMA DeleteUserStep ==
  ASSUME ConfigInv, NEW u \in Ids, DeleteUser(u)
  PROVE  ConfigInv'
<1>1. Account(Drop(user, u)) /\ user' = Drop(user, u) /\ session' = session
  BY DEF DeleteUser, Account
<1>2. \A t \in DOMAIN session : session[t] # u
  BY DEF DeleteUser, Referenced
<1>3. user' \in Table(UserRow)
  BY <1>1, DropMaps DEF ConfigInv, AccountsOK, Table
<1>4. DOMAIN user' = DOMAIN user \ {u}
  BY <1>1, DropRows
<1>5. AccountsOK'
  BY <1>1, <1>2, <1>3, <1>4 DEF ConfigInv, AccountsOK, SessionRefs
<1> QED
  BY <1>1, <1>5, AccountRest DEF ConfigInv
-----------------------------------------------------------------------------
(* The first-run wizard. *)

\* The row that a form goes by is one of the wizard's.
LEMMA RowTyped ==
  ASSUME SetupOK
  PROVE  Row \in WizardRow
<1>1. [step |-> 0, answered |-> {}] \in WizardRow
  BY ConstantRows DEF WizardRow
<1> QED
  BY <1>1 DEF Row, SetupOK

\* The pages that a callisto.cfg answers are pages of the wizard.
LEMMA LegacyAnswers == {"station", "coordinates", "instrument"} \subseteq Answers
<1>1. Pages[2] = "station" /\ Pages[3] = "coordinates" /\ Pages[4] = "instrument"
  BY DEF Pages
<1>2. Pages[1 + 1] \in Answers /\ Pages[2 + 1] \in Answers /\ Pages[3 + 1] \in Answers
  BY DEF Answers, FINAL
<1>3. 1 + 1 = 2 /\ 2 + 1 = 3 /\ 3 + 1 = 4
  OBVIOUS
<1> QED
  BY <1>1, <1>2, <1>3

\* What a form that is on its way has read.
LEMMA PostTyped ==
  ASSUME SetupOK, NEW p \in Posts, post[p] # NoPost
  PROVE  /\ post[p].step \in 0..FINAL /\ post[p].answered \in SUBSET Answers
         /\ post[p].page \in 0..FINAL
         /\ post[p].answered \cup {Pages[post[p].page + 1]} \in SUBSET Answers
<1>1. post[p] \in Post
  BY DEF SetupOK
<1>2. /\ post[p].step \in 0..FINAL /\ post[p].answered \in SUBSET Answers
      /\ post[p].page \in 0..FINAL
  BY <1>1 DEF Post
<1>3. Pages[post[p].page + 1] \in Answers
  BY <1>2 DEF Answers
<1> QED
  BY <1>2, <1>3

\* A form that has been answered is forgotten.
LEMMA PostForgotten ==
  ASSUME SetupOK, NEW p \in Posts, post' = [post EXCEPT ![p] = NoPost]
  PROVE  post' \in [Posts -> Post \cup {NoPost}]
BY DEF SetupOK

\* A page of the wizard touches no account and no table.
LEMMA WizardPageStep ==
  ASSUME ConfigInv, WizardPage
  PROVE  ConfigInv'
<1>1. Row \in WizardRow /\ Row.step \in 0..FINAL
  BY RowTyped DEF ConfigInv, WizardRow
<1>2. SetupOK'
  BY <1>1 DEF ConfigInv, SetupOK, WizardPage
<1>3. AccountsOK' /\ TablesOK' /\ CopiesOK' /\ RestOK'
  BY Unchanged DEF ConfigInv, WizardPage
<1> QED
  BY <1>2, <1>3 DEF ConfigInv

\* A form that is read is not yet written.
LEMMA SubmitBeginStep ==
  ASSUME ConfigInv, NEW p \in Posts, NEW page \in 0..FINAL, SubmitBegin(p, page)
  PROVE  ConfigInv'
<1>1. Row \in WizardRow /\ Row.step \in 0..FINAL /\ Row.answered \in SUBSET Answers
  BY RowTyped DEF ConfigInv, WizardRow
<1>2. [step |-> Row.step, answered |-> Row.answered, page |-> page] \in Post
  BY <1>1 DEF Post
<1>3. post' \in [Posts -> Post \cup {NoPost}]
  BY <1>2 DEF ConfigInv, SetupOK, SubmitBegin
<1>4. SetupOK'
  BY <1>1, <1>3 DEF ConfigInv, SetupOK, SubmitBegin
<1>5. AccountsOK' /\ TablesOK' /\ CopiesOK'
  BY Unchanged DEF ConfigInv, SubmitBegin
<1>6. RestOK'
  BY Counted DEF ConfigInv, SubmitBegin
<1> QED
  BY <1>4, <1>5, <1>6 DEF ConfigInv

\* A form that is stored touches the wizard only.
LEMMA SubmitEndStep ==
  ASSUME ConfigInv, NEW p \in Posts, SubmitEnd(p)
  PROVE  ConfigInv'
<1>0. SetupOK /\ post[p] # NoPost
  BY DEF ConfigInv, SubmitEnd
<1>1. wizard' \in WizardRow
  <2>1. CASE wizard' = [step |-> FINAL, answered |-> post[p].answered
                                          \cup {"station", "coordinates", "instrument"}]
    BY <2>1, <1>0, PostTyped, LegacyAnswers, ConstantRows DEF WizardRow
  <2>2. CASE /\ post[p].step < FINAL
             /\ wizard' = [step |-> post[p].step + 1,
                           answered |-> post[p].answered \cup {Pages[post[p].page + 1]}]
    <3>1. post[p].step + 1 \in 0..FINAL
      BY <2>2, <1>0, PostTyped DEF FINAL
    <3> QED
      BY <2>2, <3>1, <1>0, PostTyped DEF WizardRow
  <2> QED
    BY <2>1, <2>2 DEF SubmitEnd
<1>2. SetupOK'
  BY <1>0, <1>1, PostForgotten DEF SetupOK, SubmitEnd
<1>3. AccountsOK' /\ TablesOK' /\ CopiesOK' /\ RestOK'
  BY Unchanged DEF ConfigInv, SubmitEnd
<1> QED
  BY <1>2, <1>3 DEF ConfigInv

\* A form that fails is dropped.
LEMMA SubmitFailsStep ==
  ASSUME ConfigInv, NEW p \in Posts, SubmitFails(p)
  PROVE  ConfigInv'
<1>1. SetupOK'
  BY PostForgotten DEF ConfigInv, SetupOK, SubmitFails
<1>2. AccountsOK' /\ TablesOK' /\ CopiesOK' /\ RestOK'
  BY Unchanged DEF ConfigInv, SubmitFails
<1> QED
  BY <1>1, <1>2 DEF ConfigInv

\* The first account takes a fresh id.
LEMMA FinalizeAccountStep ==
  ASSUME ConfigInv, NEW p \in Posts, NEW name \in UserNames, FinalizeAccount(p, name)
  PROVE  ConfigInv'
<1> DEFINE row == [name |-> name, role |-> "admin", active |-> TRUE]
<1>1. row \in UserRow
  BY DEF UserRow, Roles
<1>2. /\ user' = Put(user, NextId(DOMAIN user), row) /\ session' = session
      /\ NextId(DOMAIN user) \in Ids /\ SetupOK /\ post[p] # NoPost
  BY DEF ConfigInv, FinalizeAccount
<1>3. AccountsOK'
  BY <1>1, <1>2, AccountStored DEF ConfigInv
<1>4. final' \in [answered : SUBSET Answers, id : Refs]
  BY <1>2, PostTyped DEF FinalizeAccount, Refs
<1>5. SetupOK'
  BY <1>2, <1>4, PostForgotten DEF SetupOK, FinalizeAccount
<1>6. TablesOK' /\ CopiesOK' /\ RestOK'
  BY Unchanged DEF ConfigInv, FinalizeAccount
<1> QED
  BY <1>3, <1>5, <1>6 DEF ConfigInv

\* An instrument is stored anew, or written over, with references that hold.
LEMMA InstrumentStored ==
  ASSUME TablesOK, NEW i \in Ids, NEW row \in InstrumentRow,
         Refers("instrument.program", row.program, DOMAIN program),
         Refers("instrument.calset", row.calset, calset),
         instrument' = Put(instrument, i, row), UNCHANGED <<calset, program, schedule, target>>
  PROVE  TablesOK'
<1>1. instrument' \in Table(InstrumentRow)
  BY PutMaps DEF TablesOK, Table
<1>2. DOMAIN instrument' = DOMAIN instrument \cup {i} /\ instrument'[i] = row
  BY DEF Put
<1>3. \A x \in DOMAIN instrument : x # i => instrument'[x] = instrument[x]
  BY DEF Put
<1>4. InstrumentRefs(instrument, program, calset)'
  BY <1>2, <1>3 DEF TablesOK, InstrumentRefs
<1>5. ScheduleRefs(schedule, instrument, program)'
  BY <1>2 DEF TablesOK, ScheduleRefs
<1> QED
  BY <1>1, <1>4, <1>5 DEF TablesOK

\* A row without references.
LEMMA BareInstrument ==
  [program |-> NoId, calset |-> NoId] \in InstrumentRow
BY DEF InstrumentRow, Refs

\* The session that ends the wizard is of an account that exists.
LEMMA FinalizeStationStep ==
  ASSUME ConfigInv, NEW t \in Tokens, NEW named \in BOOLEAN, FinalizeStation(t, named)
  PROVE  ConfigInv'
<1>1. AccountsOK'
  <2>1. CASE final.id \in DOMAIN user /\ user[final.id].active
    <3>1. session' = Put(session, t, final.id) /\ user' = user
      BY <2>1 DEF FinalizeStation
    <3> QED
      BY <2>1, <3>1, SessionOpened DEF ConfigInv
  <2>2. CASE ~(final.id \in DOMAIN user /\ user[final.id].active)
    <3>1. UNCHANGED accounts
      BY <2>2 DEF FinalizeStation, accounts
    <3> QED
      BY <3>1, Unchanged DEF ConfigInv
  <2> QED
    BY <2>1, <2>2
<1>2. TablesOK'
  <2>1. CASE named
    BY <2>1, InstrumentStored, BareInstrument DEF ConfigInv, FinalizeStation, Refers
  <2>2. CASE ~named
    <3>1. UNCHANGED tables
      BY <2>2 DEF FinalizeStation, tables
    <3> QED
      BY <3>1, Unchanged DEF ConfigInv
  <2> QED
    BY <2>1, <2>2
<1>3. SetupOK'
  BY ConstantRows DEF ConfigInv, SetupOK, FinalizeStation
<1>4. CopiesOK'
  BY Unchanged DEF ConfigInv, FinalizeStation
<1>5. RestOK'
  BY DEF ConfigInv, RestOK, FinalizeStation
<1> QED
  BY <1>1, <1>2, <1>3, <1>4, <1>5 DEF ConfigInv

\* A failure in between keeps the account that was committed.
LEMMA FinalizeRaisesStep ==
  ASSUME ConfigInv, FinalizeRaises
  PROVE  ConfigInv'
<1>1. SetupOK'
  BY ConstantRows DEF ConfigInv, SetupOK, FinalizeRaises
<1>2. AccountsOK' /\ TablesOK' /\ CopiesOK'
  BY Unchanged DEF ConfigInv, FinalizeRaises
<1>3. RestOK'
  BY BoundsAssumption DEF ConfigInv, RestOK, FinalizeRaises
<1> QED
  BY <1>1, <1>2, <1>3 DEF ConfigInv
-----------------------------------------------------------------------------
(* Programs, calibration sets, instruments, schedules, targets. *)

\* What a request that configures leaves alone.
LEMMA ConfigureRest ==
  ASSUME ConfigInv, Configure, Request("operator"), TablesOK'
  PROVE  ConfigInv'
<1>1. AccountsOK' /\ SetupOK' /\ CopiesOK'
  BY Unchanged DEF ConfigInv, Configure
<1>2. RestOK'
  BY Counted DEF ConfigInv, Configure, Request
<1> QED
  BY <1>1, <1>2 DEF ConfigInv

\* A new program is one more that a row may refer to.
LEMMA ProgramStored ==
  ASSUME TablesOK, NEW id \in Ids, NEW row \in ProgramRow,
         program' = Put(program, id, row), UNCHANGED <<calset, instrument, schedule, target>>
  PROVE  TablesOK'
<1>1. program' \in Table(ProgramRow)
  BY PutMaps DEF TablesOK, Table
<1>2. DOMAIN program' = DOMAIN program \cup {id}
  BY DEF Put
<1>3. InstrumentRefs(instrument, program, calset)'
  BY <1>2 DEF TablesOK, InstrumentRefs, Refers
<1>4. ScheduleRefs(schedule, instrument, program)'
  BY <1>2 DEF TablesOK, ScheduleRefs, Refers
<1> QED
  BY <1>1, <1>3, <1>4 DEF TablesOK

\* A schedule is stored with references that hold.
LEMMA ScheduleStored ==
  ASSUME TablesOK, NEW id \in Ids, NEW row \in ScheduleRow,
         row.instrument \in DOMAIN instrument,
         Refers("schedule.program", row.program, DOMAIN program),
         schedule' = Put(schedule, id, row), UNCHANGED <<calset, program, instrument, target>>
  PROVE  TablesOK'
<1>1. schedule' \in Table(ScheduleRow)
  BY PutMaps DEF TablesOK, Table
<1>2. DOMAIN schedule' = DOMAIN schedule \cup {id} /\ schedule'[id] = row
  BY DEF Put
<1>3. \A x \in DOMAIN schedule : x # id => schedule'[x] = schedule[x]
  BY DEF Put
<1>4. ScheduleRefs(schedule, instrument, program)'
  BY <1>2, <1>3 DEF TablesOK, ScheduleRefs
<1>5. InstrumentRefs(instrument, program, calset)'
  BY DEF TablesOK, InstrumentRefs
<1> QED
  BY <1>1, <1>4, <1>5 DEF TablesOK

\* A new program takes a fresh id.
LEMMA CreateProgramStep ==
  ASSUME ConfigInv, NEW name \in ProgramNames, NEW empty \in BOOLEAN, CreateProgram(name, empty)
  PROVE  ConfigInv'
<1>1. [name |-> name, empty |-> empty] \in ProgramRow
  BY DEF ProgramRow
<1>2. TablesOK'
  BY <1>1, ProgramStored DEF ConfigInv, CreateProgram
<1> QED
  BY <1>2, ConfigureRest DEF CreateProgram

\* A program is deleted only when no row refers to it.
LEMMA DeleteProgramStep ==
  ASSUME ConfigInv, NEW id \in Ids, DeleteProgram(id)
  PROVE  ConfigInv'
<1>1. /\ \A i \in DOMAIN instrument :
           "instrument.program" \in Added \/ instrument[i].program # id
      /\ \A s \in DOMAIN schedule : "schedule.program" \in Added \/ schedule[s].program # id
  BY DEF DeleteProgram, Referenced
<1>2. program' \in Table(ProgramRow)
  BY DropMaps DEF ConfigInv, TablesOK, DeleteProgram, Table
<1>3. DOMAIN program' = DOMAIN program \ {id}
  BY DropRows DEF DeleteProgram
<1>4. UNCHANGED <<calset, instrument, schedule, target>>
  BY DEF DeleteProgram
<1>5. InstrumentRefs(instrument, program, calset)'
  BY <1>1, <1>3, <1>4 DEF ConfigInv, TablesOK, InstrumentRefs, Refers
<1>6. ScheduleRefs(schedule, instrument, program)'
  BY <1>1, <1>3, <1>4 DEF ConfigInv, TablesOK, ScheduleRefs, Refers
<1>7. TablesOK'
  BY <1>2, <1>4, <1>5, <1>6 DEF ConfigInv, TablesOK
<1> QED
  BY <1>7, ConfigureRest DEF DeleteProgram

\* Another calibration set, or another target, breaks no reference.
LEMMA SetsGrow ==
  ASSUME TablesOK, calset \subseteq calset', calset' \subseteq Ids, target' \subseteq Ids,
         UNCHANGED <<program, instrument, schedule>>
  PROVE  TablesOK'
BY DEF TablesOK, InstrumentRefs, ScheduleRefs, Refers

\* A new calibration set takes a fresh id.
LEMMA CreateSetStep == ASSUME ConfigInv, CreateSet PROVE ConfigInv'
<1>1. TablesOK'
  BY SetsGrow DEF ConfigInv, TablesOK, CreateSet
<1> QED
  BY <1>1, ConfigureRest DEF CreateSet

\* A new target takes a fresh id.
LEMMA CreateTargetStep == ASSUME ConfigInv, CreateTarget PROVE ConfigInv'
<1>1. TablesOK'
  BY SetsGrow DEF ConfigInv, TablesOK, CreateTarget
<1> QED
  BY <1>1, ConfigureRest DEF CreateTarget

\* A calibration set is deleted only when no row refers to it.
LEMMA DeleteSetStep ==
  ASSUME ConfigInv, NEW id \in Ids, DeleteSet(id)
  PROVE  ConfigInv'
<1>1. \A i \in DOMAIN instrument : "instrument.calset" \in Added \/ instrument[i].calset # id
  BY DEF DeleteSet, Referenced
<1>2. calset' = calset \ {id} /\ UNCHANGED <<program, instrument, schedule, target>>
  BY DEF DeleteSet
<1>3. TablesOK'
  BY <1>1, <1>2 DEF ConfigInv, TablesOK, InstrumentRefs, ScheduleRefs, Refers
<1> QED
  BY <1>3, ConfigureRest DEF DeleteSet

\* The rows that a new instrument refers to exist.
LEMMA CreateInstrumentStep ==
  ASSUME ConfigInv, NEW row \in InstrumentRow, CreateInstrument(row)
  PROVE  ConfigInv'
<1>1. TablesOK'
  BY InstrumentStored DEF ConfigInv, CreateInstrument
<1> QED
  BY <1>1, ConfigureRest DEF CreateInstrument

\* So do those that a changed one refers to.
LEMMA UpdateInstrumentStep ==
  ASSUME ConfigInv, NEW i \in Ids, NEW row \in InstrumentRow, UpdateInstrument(i, row)
  PROVE  ConfigInv'
<1>1. TablesOK'
  BY InstrumentStored DEF ConfigInv, UpdateInstrument
<1> QED
  BY <1>1, ConfigureRest DEF UpdateInstrument

\* An instrument is deleted only when no row refers to it.
LEMMA DeleteInstrumentStep ==
  ASSUME ConfigInv, NEW i \in Ids, DeleteInstrument(i)
  PROVE  ConfigInv'
<1>1. \A s \in DOMAIN schedule : schedule[s].instrument # i
  BY DEF DeleteInstrument, Referenced
<1>2. instrument' \in Table(InstrumentRow)
  BY DropMaps DEF ConfigInv, TablesOK, DeleteInstrument, Table
<1>3. /\ DOMAIN instrument' = DOMAIN instrument \ {i}
      /\ \A x \in DOMAIN instrument' : instrument'[x] = instrument[x]
  BY DEF DeleteInstrument, Drop
<1>4. UNCHANGED <<calset, program, schedule, target>>
  BY DEF DeleteInstrument
<1>5. InstrumentRefs(instrument, program, calset)'
  BY <1>3, <1>4 DEF ConfigInv, TablesOK, InstrumentRefs
<1>6. ScheduleRefs(schedule, instrument, program)'
  BY <1>1, <1>3, <1>4 DEF ConfigInv, TablesOK, ScheduleRefs
<1>7. TablesOK'
  BY <1>2, <1>4, <1>5, <1>6 DEF ConfigInv, TablesOK
<1> QED
  BY <1>7, ConfigureRest DEF DeleteInstrument

\* A new schedule is of an instrument that exists.
LEMMA CreateScheduleStep ==
  ASSUME ConfigInv, NEW row \in ScheduleRow, CreateSchedule(row)
  PROVE  ConfigInv'
<1>1. TablesOK'
  BY ScheduleStored DEF ConfigInv, CreateSchedule
<1> QED
  BY <1>1, ConfigureRest DEF CreateSchedule

\* Nothing refers to a schedule.
LEMMA DeleteScheduleStep ==
  ASSUME ConfigInv, NEW s \in Ids, DeleteSchedule(s)
  PROVE  ConfigInv'
<1>1. schedule' \in Table(ScheduleRow)
  BY DropMaps DEF ConfigInv, TablesOK, DeleteSchedule, Table
<1>2. /\ DOMAIN schedule' = DOMAIN schedule \ {s}
      /\ \A x \in DOMAIN schedule' : schedule'[x] = schedule[x]
  BY DEF DeleteSchedule, Drop
<1>3. UNCHANGED <<calset, program, instrument, target>>
  BY DEF DeleteSchedule
<1>4. TablesOK'
  BY <1>1, <1>2, <1>3 DEF ConfigInv, TablesOK, InstrumentRefs, ScheduleRefs
<1> QED
  BY <1>4, ConfigureRest DEF DeleteSchedule

\* An upload job is of a target that exists.
LEMMA UploadStep ==
  ASSUME ConfigInv, NEW id \in Ids, Upload(id)
  PROVE  ConfigInv'
<1>1. AccountsOK' /\ TablesOK' /\ SetupOK' /\ CopiesOK'
  BY Unchanged DEF ConfigInv, Upload
<1>2. RestOK'
  BY DEF ConfigInv, RestOK, Upload
<1> QED
  BY <1>1, <1>2 DEF ConfigInv

\* Only an instrument that exists can be wanted.
LEMMA SetDesiredStep ==
  ASSUME ConfigInv, NEW i \in Ids, NEW wanted \in BOOLEAN, SetDesired(i, wanted)
  PROVE  ConfigInv'
<1>1. AccountsOK' /\ TablesOK' /\ SetupOK' /\ CopiesOK'
  BY Unchanged DEF ConfigInv, SetDesired
<1>2. RestOK'
  BY BoundsAssumption DEF ConfigInv, RestOK, SetDesired, Request
<1> QED
  BY <1>1, <1>2 DEF ConfigInv
-----------------------------------------------------------------------------
(* Backup and restore, legacy import, crash. *)

\* A backup of which the counter and one other field are replaced by values of their kind.
LEMMA BackupWith ==
  ASSUME NEW A, NEW B, NEW C, NEW D, NEW E, NEW F, NEW G, NEW n \in A,
         NEW S, S = [read : A, calset : B, program : C, station : D, instrument : E, schedule : F, target : G],
         NEW b \in S
  PROVE  /\ \A v \in B : [b EXCEPT !.read = n, !.calset = v] \in S
         /\ \A v \in C : [b EXCEPT !.read = n, !.program = v] \in S
         /\ \A v \in D : [b EXCEPT !.read = n, !.station = v] \in S
         /\ \A v \in E : [b EXCEPT !.read = n, !.instrument = v] \in S
         /\ \A v \in F : [b EXCEPT !.read = n, !.schedule = v] \in S
         /\ \A v \in G : [b EXCEPT !.read = n, !.target = v] \in S
<1>1. \A v \in B : [b EXCEPT !.read = n, !.calset = v] \in S
  OBVIOUS
<1>2. \A v \in C : [b EXCEPT !.read = n, !.program = v] \in S
  OBVIOUS
<1>3. \A v \in D : [b EXCEPT !.read = n, !.station = v] \in S
  OBVIOUS
<1>4. \A v \in E : [b EXCEPT !.read = n, !.instrument = v] \in S
  OBVIOUS
<1>5. \A v \in F : [b EXCEPT !.read = n, !.schedule = v] \in S
  OBVIOUS
<1>6. \A v \in G : [b EXCEPT !.read = n, !.target = v] \in S
  OBVIOUS
<1> QED
  BY <1>1, <1>2, <1>3, <1>4, <1>5, <1>6

\* The fields of a backup, one by one.
LEMMA BackupField ==
  ASSUME NEW n \in 0..6, NEW b \in Backup
  PROVE  /\ \A v \in SUBSET Ids : [b EXCEPT !.read = n, !.calset = v] \in Backup
         /\ \A v \in Table(ProgramRow) : [b EXCEPT !.read = n, !.program = v] \in Backup
         /\ \A v \in BOOLEAN : [b EXCEPT !.read = n, !.station = v] \in Backup
         /\ \A v \in Table(InstrumentRow) : [b EXCEPT !.read = n, !.instrument = v] \in Backup
         /\ \A v \in Table(ScheduleRow) : [b EXCEPT !.read = n, !.schedule = v] \in Backup
         /\ \A v \in SUBSET Ids : [b EXCEPT !.read = n, !.target = v] \in Backup
BY BackupWith, Zenon DEF Backup

\* The tables of a backup are counted.
LEMMA ReadCounts ==
  1 \in 0..6 /\ 2 \in 0..6 /\ 3 \in 0..6 /\ 4 \in 0..6 /\ 5 \in 0..6 /\ 6 \in 0..6
OBVIOUS

\* An export begins with nothing read.
LEMMA ExportBeginStep == ASSUME ConfigInv, ExportBegin PROVE ConfigInv'
<1>1. AccountsOK' /\ TablesOK' /\ SetupOK'
  BY Unchanged DEF ConfigInv, ExportBegin
<1>2. CopiesOK'
  <2>1. calset \in SUBSET Ids /\ NoBackup \in Backup
    BY ConstantRows DEF ConfigInv, TablesOK
  <2>2. [NoBackup EXCEPT !.read = 1, !.calset = calset] \in Backup
    BY <2>1, ReadCounts, BackupField, Zenon
  <2> QED
    BY <2>2 DEF ConfigInv, CopiesOK, ExportBegin
<1>3. RestOK'
  BY Counted DEF ConfigInv, ExportBegin, Request
<1> QED
  BY <1>1, <1>2, <1>3 DEF ConfigInv

\* An export reads one table at a time, and writes nothing.
LEMMA ExportReadStep == ASSUME ConfigInv, ExportRead PROVE ConfigInv'
<1>1. AccountsOK' /\ TablesOK' /\ SetupOK' /\ RestOK'
  BY Unchanged DEF ConfigInv, ExportRead
<1>2. backup \in Backup /\ backup.read \in 1..5
  BY DEF ConfigInv, CopiesOK, ExportRead
<1>3. /\ program \in Table(ProgramRow) /\ instrument \in Table(InstrumentRow)
      /\ schedule \in Table(ScheduleRow) /\ target \in SUBSET Ids /\ station \in BOOLEAN
  BY DEF ConfigInv, TablesOK, RestOK
<1>4. backup' \in Backup
  <2>1. CASE backup.read = 1
    <3>1. backup' = [backup EXCEPT !.read = 2, !.program = program]
      BY <2>1 DEF ExportRead
    <3>2. [backup EXCEPT !.read = 2, !.program = program] \in Backup
      BY <1>2, <1>3, ReadCounts, BackupField, Zenon
    <3> QED
      BY <3>1, <3>2
  <2>2. CASE backup.read = 2
    <3>1. backup' = [backup EXCEPT !.read = 3, !.station = station]
      BY <2>2 DEF ExportRead
    <3>2. [backup EXCEPT !.read = 3, !.station = station] \in Backup
      BY <1>2, <1>3, ReadCounts, BackupField, Zenon
    <3> QED
      BY <3>1, <3>2
  <2>3. CASE backup.read = 3
    <3>1. backup' = [backup EXCEPT !.read = 4, !.instrument = instrument]
      BY <2>3 DEF ExportRead
    <3>2. [backup EXCEPT !.read = 4, !.instrument = instrument] \in Backup
      BY <1>2, <1>3, ReadCounts, BackupField, Zenon
    <3> QED
      BY <3>1, <3>2
  <2>4. CASE backup.read = 4
    <3>1. backup' = [backup EXCEPT !.read = 5, !.schedule = schedule]
      BY <2>4 DEF ExportRead
    <3>2. [backup EXCEPT !.read = 5, !.schedule = schedule] \in Backup
      BY <1>2, <1>3, ReadCounts, BackupField, Zenon
    <3> QED
      BY <3>1, <3>2
  <2>5. CASE backup.read = 5
    <3>1. backup' = [backup EXCEPT !.read = 6, !.target = target]
      BY <2>5 DEF ExportRead
    <3>2. [backup EXCEPT !.read = 6, !.target = target] \in Backup
      BY <1>2, <1>3, ReadCounts, BackupField, Zenon
    <3> QED
      BY <3>1, <3>2
  <2> QED
    BY <1>2, <2>1, <2>2, <2>3, <2>4, <2>5
<1>5. CopiesOK'
  BY <1>4 DEF ConfigInv, CopiesOK, ExportRead
<1> QED
  BY <1>1, <1>5 DEF ConfigInv

\* A restore clears the tables unless an upload job refers to a target.
LEMMA RestoreClearStep == ASSUME ConfigInv, RestoreClear PROVE ConfigInv'
<1>1. AccountsOK' /\ SetupOK' /\ CopiesOK'
  BY Unchanged DEF ConfigInv, RestoreClear
<1>2. TablesOK'
  <2>1. CASE \E id \in target : Referenced("target", id)
    BY <2>1, Unchanged DEF ConfigInv, RestoreClear
  <2>2. CASE ~\E id \in target : Referenced("target", id)
    <3>1. /\ calset' = {} /\ program' = <<>> /\ instrument' = <<>>
          /\ schedule' = <<>> /\ target' = {}
      BY <2>2 DEF RestoreClear
    <3> QED
      BY <3>1, EmptyMaps DEF TablesOK, InstrumentRefs, ScheduleRefs, Table
  <2> QED
    BY <2>1, <2>2
<1>3. RestOK'
  <2>1. restore' \in {"refused", "cleared"} /\ station' \in BOOLEAN
    BY DEF ConfigInv, RestOK, RestoreClear
  <2>2. requests' \in 0..MaxRequests
    BY BoundsAssumption DEF ConfigInv, RestOK, RestoreClear, Request
  <2> QED
    BY <2>1, <2>2 DEF ConfigInv, RestOK, RestoreClear
<1> QED
  BY <1>1, <1>2, <1>3 DEF ConfigInv

\* A restore adds only rows whose references are there.
LEMMA RestoreInsertStep == ASSUME ConfigInv, RestoreInsert PROVE ConfigInv'
<1>1. AccountsOK' /\ SetupOK' /\ CopiesOK'
  BY Unchanged DEF ConfigInv, RestoreInsert
<1>2. /\ backup.calset \subseteq Ids /\ backup.target \subseteq Ids
      /\ backup.program \in Table(ProgramRow) /\ backup.instrument \in Table(InstrumentRow)
      /\ backup.schedule \in Table(ScheduleRow) /\ backup.station \in BOOLEAN
  BY DEF ConfigInv, CopiesOK, Backup
<1>3. TablesOK'
  <2>1. CASE ~Fits
    BY <2>1, Unchanged DEF ConfigInv, RestoreInsert
  <2>2. CASE Fits
    <3>1. /\ calset' = calset \cup backup.calset /\ target' = target \cup backup.target
          /\ program' = Both(program, backup.program)
          /\ instrument' = Both(instrument, backup.instrument)
          /\ schedule' = Both(schedule, backup.schedule)
      BY <2>2 DEF RestoreInsert
    <3>2. /\ program' \in Table(ProgramRow) /\ instrument' \in Table(InstrumentRow)
          /\ schedule' \in Table(ScheduleRow)
      BY <1>2, <3>1, BothMaps DEF ConfigInv, TablesOK, Table
    <3>3. DOMAIN program' = DOMAIN program \cup DOMAIN backup.program
      BY <3>1, BothRows
    <3>4. /\ DOMAIN instrument' = DOMAIN instrument \cup DOMAIN backup.instrument
          /\ \A x \in DOMAIN instrument : instrument'[x] = instrument[x]
          /\ \A x \in DOMAIN instrument' \ DOMAIN instrument : instrument'[x] = backup.instrument[x]
      BY <3>1 DEF Both
    <3>5. /\ DOMAIN schedule' = DOMAIN schedule \cup DOMAIN backup.schedule
          /\ \A x \in DOMAIN schedule : schedule'[x] = schedule[x]
          /\ \A x \in DOMAIN schedule' \ DOMAIN schedule : schedule'[x] = backup.schedule[x]
      BY <3>1 DEF Both
    <3>6. InstrumentRefs(instrument, program, calset)'
      BY <2>2, <3>1, <3>3, <3>4 DEF ConfigInv, TablesOK, InstrumentRefs, Refers, Fits
    <3>7. ScheduleRefs(schedule, instrument, program)'
      BY <2>2, <3>3, <3>4, <3>5 DEF ConfigInv, TablesOK, ScheduleRefs, Refers, Fits
    <3> QED
      BY <1>2, <3>1, <3>2, <3>6, <3>7 DEF ConfigInv, TablesOK
  <2> QED
    BY <2>1, <2>2
<1>4. RestOK'
  <2>1. restore' \in {"ok", "lost"}
    BY DEF RestoreInsert
  <2>2. station' \in BOOLEAN
    BY <1>2 DEF ConfigInv, RestOK, RestoreInsert
  <2> QED
    BY <2>1, <2>2 DEF ConfigInv, RestOK, RestoreInsert
<1> QED
  BY <1>1, <1>3, <1>4 DEF ConfigInv

\* The import of an old configuration first adds its calibration set.
LEMMA LegacyBeginStep ==
  ASSUME ConfigInv, NEW cal \in BOOLEAN, NEW prog \in BOOLEAN, NEW sched \in BOOLEAN,
         LegacyBegin(cal, prog, sched)
  PROVE  ConfigInv'
<1>1. AccountsOK' /\ SetupOK'
  BY Unchanged DEF ConfigInv, LegacyBegin
<1>2. TablesOK'
  <2>1. calset \subseteq calset' /\ calset' \subseteq Ids
    BY DEF ConfigInv, TablesOK, LegacyBegin
  <2> QED
    BY <2>1, SetsGrow DEF ConfigInv, TablesOK, LegacyBegin
<1>3. CopiesOK'
  <2>1. (IF cal THEN NextId(calset) ELSE NoId) \in Refs
    BY DEF LegacyBegin, Refs
  <2>2. legacy' \in Legacy
    BY <2>1 DEF LegacyBegin, Legacy
  <2> QED
    BY <2>2 DEF ConfigInv, CopiesOK, LegacyBegin
<1>4. RestOK'
  <2>1. station' \in BOOLEAN
    BY DEF ConfigInv, RestOK, LegacyBegin
  <2>2. requests' \in 0..MaxRequests
    BY BoundsAssumption DEF ConfigInv, RestOK, LegacyBegin, Request
  <2> QED
    BY <2>1, <2>2 DEF ConfigInv, RestOK, LegacyBegin
<1> QED
  BY <1>1, <1>2, <1>3, <1>4 DEF ConfigInv

\* Then an instrument, if that set is still there.
LEMMA LegacyInstrumentStep == ASSUME ConfigInv, LegacyInstrument PROVE ConfigInv'
<1>1. AccountsOK' /\ SetupOK'
  BY Unchanged DEF ConfigInv, LegacyInstrument
<1>2. legacy \in Legacy /\ legacy.id \in Refs
  BY DEF ConfigInv, CopiesOK, Legacy
<1>3. TablesOK'
  <2>1. CASE Refers("instrument.calset", legacy.id, calset)
    <3>1. [program |-> NoId, calset |-> legacy.id] \in InstrumentRow
      BY <1>2 DEF InstrumentRow, Refs
    <3> QED
      BY <2>1, <3>1, InstrumentStored DEF ConfigInv, LegacyInstrument, Refers
  <2>2. CASE ~Refers("instrument.calset", legacy.id, calset)
    <3>1. UNCHANGED tables
      BY <2>2 DEF LegacyInstrument, tables
    <3> QED
      BY <3>1, Unchanged DEF ConfigInv
  <2> QED
    BY <2>1, <2>2
<1>4. CopiesOK'
  <2>1. legacy' \in Legacy
    BY <1>2, ConstantRows DEF LegacyInstrument, Legacy, Refs
  <2> QED
    BY <2>1 DEF ConfigInv, CopiesOK, LegacyInstrument
<1>5. RestOK'
  BY DEF ConfigInv, RestOK, LegacyInstrument
<1> QED
  BY <1>1, <1>3, <1>4, <1>5 DEF ConfigInv

\* Then the program and the schedule, if the instrument is still there.
LEMMA LegacyRestStep ==
  ASSUME ConfigInv, NEW name \in ProgramNames, LegacyRest(name)
  PROVE  ConfigInv'
<1> DEFINE stored == /\ legacy.program => FreeName(program, name)
                     /\ legacy.schedule => legacy.id \in DOMAIN instrument
           plan == [name |-> name, empty |-> FALSE]
           row == [instrument |-> legacy.id, program |-> NoId]
<1>1. AccountsOK' /\ SetupOK'
  BY Unchanged DEF ConfigInv, LegacyRest
<1>2. TablesOK'
  <2>1. CASE ~stored
    <3>1. UNCHANGED tables
      BY <2>1 DEF LegacyRest, tables
    <3> QED
      BY <3>1, Unchanged DEF ConfigInv
  <2>2. CASE stored
    <3>1. UNCHANGED <<calset, instrument, target>>
      BY DEF LegacyRest
    <3>2. program' \in Table(ProgramRow) /\ DOMAIN program \subseteq DOMAIN program'
      <4>1. CASE legacy.program
        <5>1. program' = Put(program, NextId(DOMAIN program), plan) /\ NextId(DOMAIN program) \in Ids
          BY <2>2, <4>1 DEF LegacyRest
        <5>2. plan \in ProgramRow
          BY DEF ProgramRow
        <5>3. program' \in Table(ProgramRow)
          BY <5>1, <5>2, PutMaps DEF ConfigInv, TablesOK, Table
        <5>4. DOMAIN program \subseteq DOMAIN program'
          BY <5>1 DEF Put
        <5> QED
          BY <5>3, <5>4
      <4>2. CASE ~legacy.program
        BY <2>2, <4>2 DEF LegacyRest, ConfigInv, TablesOK
      <4> QED
        BY <4>1, <4>2
    <3>3. InstrumentRefs(instrument, program, calset)'
      BY <3>1, <3>2 DEF ConfigInv, TablesOK, InstrumentRefs, Refers
    <3>4. schedule' \in Table(ScheduleRow) /\ ScheduleRefs(schedule, instrument, program)'
      <4>1. CASE legacy.schedule
        <5>1. /\ schedule' = Put(schedule, NextId(DOMAIN schedule), row)
              /\ NextId(DOMAIN schedule) \in Ids /\ legacy.id \in DOMAIN instrument
          BY <2>2, <4>1 DEF LegacyRest
        <5>2. legacy.id \in Ids
          BY <5>1, MapsRows DEF ConfigInv, TablesOK, Table
        <5>3. row \in ScheduleRow /\ row.instrument = legacy.id /\ row.program = NoId
          BY <5>2 DEF ScheduleRow, Refs
        <5>4. schedule' \in Table(ScheduleRow)
          BY <5>1, <5>3, PutMaps DEF ConfigInv, TablesOK, Table
        <5>5. /\ DOMAIN schedule' = DOMAIN schedule \cup {NextId(DOMAIN schedule)}
              /\ schedule'[NextId(DOMAIN schedule)] = row
          BY <5>1 DEF Put
        <5>6. \A x \in DOMAIN schedule : x # NextId(DOMAIN schedule) => schedule'[x] = schedule[x]
          BY <5>1 DEF Put
        <5>7. ScheduleRefs(schedule, instrument, program)'
          BY <3>1, <3>2, <5>1, <5>3, <5>5, <5>6
          DEF ConfigInv, TablesOK, ScheduleRefs, Refers
        <5> QED
          BY <5>4, <5>7
      <4>2. CASE ~legacy.schedule
        <5>1. schedule' = schedule
          BY <2>2, <4>2 DEF LegacyRest
        <5> QED
          BY <3>1, <3>2, <5>1 DEF ConfigInv, TablesOK, ScheduleRefs, Refers
      <4> QED
        BY <4>1, <4>2
    <3> QED
      BY <3>1, <3>2, <3>3, <3>4 DEF ConfigInv, TablesOK
  <2> QED
    BY <2>1, <2>2
<1>3. CopiesOK'
  BY ConstantRows DEF ConfigInv, CopiesOK, LegacyRest
<1>4. RestOK'
  BY Unchanged DEF ConfigInv, LegacyRest
<1> QED
  BY <1>1, <1>2, <1>3, <1>4 DEF ConfigInv

\* A crash ends what was under way between two commits.
LEMMA CrashStep == ASSUME ConfigInv, Crash PROVE ConfigInv'
<1>1. AccountsOK' /\ TablesOK'
  BY Unchanged DEF ConfigInv, Crash
<1>2. SetupOK'
  BY ConstantRows DEF ConfigInv, SetupOK, Crash
<1>3. CopiesOK'
  BY ConstantRows DEF ConfigInv, CopiesOK, Crash
<1>4. RestOK'
  BY BoundsAssumption DEF ConfigInv, RestOK, Crash
<1> QED
  BY <1>1, <1>2, <1>3, <1>4 DEF ConfigInv
-----------------------------------------------------------------------------
(* Every step. *)

\* Every step keeps the invariant.
LEMMA NextStep == ConfigInv /\ [Next]_vars => ConfigInv'
<1> SUFFICES ASSUME ConfigInv, [Next]_vars
             PROVE  ConfigInv'
  OBVIOUS
<1>1. CASE UNCHANGED vars
  BY <1>1, Unchanged DEF ConfigInv, vars
<1>2. ASSUME NEW u \in Ids, NEW t \in Tokens, Login(u, t) PROVE ConfigInv'
  BY <1>2, LoginStep
<1>3. ASSUME NEW t \in Tokens, Logout(t) PROVE ConfigInv'
  BY <1>3, LogoutStep
<1>4. ASSUME NEW n \in UserNames, NEW r \in Roles, CreateUser(n, r) PROVE ConfigInv'
  BY <1>4, CreateUserStep
<1>5. ASSUME NEW u \in Ids, NEW r \in Roles, NEW a \in BOOLEAN, UpdateUser(u, r, a) PROVE ConfigInv'
  BY <1>5, UpdateUserStep
<1>6. ASSUME NEW u \in Ids, DeleteUser(u) PROVE ConfigInv'
  BY <1>6, DeleteUserStep
<1>7. ASSUME NEW p \in Posts, NEW page \in 0..FINAL, SubmitBegin(p, page) PROVE ConfigInv'
  BY <1>7, SubmitBeginStep
<1>8. ASSUME NEW p \in Posts, SubmitEnd(p) \/ SubmitFails(p) PROVE ConfigInv'
  BY <1>8, SubmitEndStep, SubmitFailsStep
<1>9. ASSUME NEW p \in Posts, NEW n \in UserNames, FinalizeAccount(p, n) PROVE ConfigInv'
  BY <1>9, FinalizeAccountStep
<1>10. ASSUME NEW t \in Tokens, NEW named \in BOOLEAN, FinalizeStation(t, named) PROVE ConfigInv'
  BY <1>10, FinalizeStationStep
<1>11. ASSUME NEW n \in ProgramNames, NEW e \in BOOLEAN, CreateProgram(n, e) PROVE ConfigInv'
  BY <1>11, CreateProgramStep
<1>12. ASSUME NEW id \in Ids, \/ DeleteProgram(id) \/ DeleteSet(id) \/ DeleteInstrument(id)
                              \/ DeleteSchedule(id) \/ Upload(id)
       PROVE  ConfigInv'
  BY <1>12, DeleteProgramStep, DeleteSetStep, DeleteInstrumentStep, DeleteScheduleStep, UploadStep
<1>13. ASSUME NEW row \in InstrumentRow,
              CreateInstrument(row) \/ \E i \in Ids : UpdateInstrument(i, row)
       PROVE  ConfigInv'
  BY <1>13, CreateInstrumentStep, UpdateInstrumentStep
<1>14. ASSUME NEW row \in ScheduleRow, CreateSchedule(row) PROVE ConfigInv'
  BY <1>14, CreateScheduleStep
<1>15. ASSUME NEW i \in Ids, NEW wanted \in BOOLEAN, SetDesired(i, wanted) PROVE ConfigInv'
  BY <1>15, SetDesiredStep
<1>16. ASSUME NEW cal \in BOOLEAN, NEW prog \in BOOLEAN, NEW sched \in BOOLEAN,
              LegacyBegin(cal, prog, sched)
       PROVE  ConfigInv'
  BY <1>16, LegacyBeginStep
<1>17. ASSUME NEW n \in ProgramNames, LegacyRest(n) PROVE ConfigInv'
  BY <1>17, LegacyRestStep
<1>18. CASE \/ WizardPage \/ FinalizeRaises \/ CreateSet \/ CreateTarget \/ ExportBegin
            \/ ExportRead \/ RestoreClear \/ RestoreInsert \/ LegacyInstrument \/ Crash
  BY <1>18, WizardPageStep, FinalizeRaisesStep, CreateSetStep, CreateTargetStep,
     ExportBeginStep, ExportReadStep, RestoreClearStep, RestoreInsertStep,
     LegacyInstrumentStep, CrashStep
<1> QED
  BY <1>1, <1>2, <1>3, <1>4, <1>5, <1>6, <1>7, <1>8, <1>9, <1>10, <1>11, <1>12, <1>13,
     <1>14, <1>15, <1>16, <1>17, <1>18 DEF Next

\* The invariant of the configuration.
LEMMA Inductive == Spec => []ConfigInv
BY Initially, NextStep, PTL DEF Spec

\* The state always has its type: every handler writes rows of the models.
THEOREM TypeCorrect == Spec => []TypeOK
BY Inductive, Implied, PTL

\* The targets of upload jobs are kept: a restore that would delete one is refused.
JobRefs == job \subseteq target

\* Every step keeps JobRefs.
LEMMA JobStep == ConfigInv /\ JobRefs /\ [Next]_vars => JobRefs'
<1> SUFFICES ASSUME ConfigInv, JobRefs, [Next]_vars
             PROVE  JobRefs'
  OBVIOUS
<1> USE DEF JobRefs
<1>1. CASE UNCHANGED <<job, target>>
  BY <1>1
<1>2. ASSUME NEW id \in Ids, Upload(id) PROVE JobRefs'
  BY <1>2 DEF Upload, tables
<1>3. CASE CreateTarget
  BY <1>3 DEF CreateTarget, Configure
<1>4. CASE RestoreClear
  <2>1. CASE \E id \in target : Referenced("target", id)
    BY <1>4, <2>1 DEF RestoreClear, tables
  <2>2. CASE ~\E id \in target : Referenced("target", id)
    <3>1. \A id \in target : id \notin job
      BY <2>2 DEF Referenced
    <3> QED
      BY <1>4, <3>1 DEF RestoreClear
  <2> QED
    BY <2>1, <2>2
<1>5. CASE RestoreInsert
  BY <1>5 DEF RestoreInsert, tables
<1>6. ASSUME NEW u \in Ids, NEW t \in Tokens, Login(u, t) PROVE UNCHANGED <<job, target>>
  BY <1>6 DEF Login, tables
<1>7. ASSUME NEW t \in Tokens, Logout(t) PROVE UNCHANGED <<job, target>>
  BY <1>7 DEF Logout, tables
<1>8. ASSUME NEW n \in UserNames, NEW r \in Roles, CreateUser(n, r)
      PROVE  UNCHANGED <<job, target>>
  BY <1>8 DEF CreateUser, Account, tables
<1>9. ASSUME NEW u \in Ids, NEW r \in Roles, NEW a \in BOOLEAN, UpdateUser(u, r, a)
      PROVE  UNCHANGED <<job, target>>
  BY <1>9 DEF UpdateUser, Account, tables
<1>10. ASSUME NEW u \in Ids, DeleteUser(u) PROVE UNCHANGED <<job, target>>
  BY <1>10 DEF DeleteUser, Account, tables
<1>11. ASSUME NEW p \in Posts, NEW page \in 0..FINAL, SubmitBegin(p, page)
       PROVE  UNCHANGED <<job, target>>
  BY <1>11 DEF SubmitBegin, tables
<1>12. ASSUME NEW p \in Posts, SubmitEnd(p) \/ SubmitFails(p) PROVE UNCHANGED <<job, target>>
  BY <1>12 DEF SubmitEnd, SubmitFails, tables
<1>13. ASSUME NEW p \in Posts, NEW n \in UserNames, FinalizeAccount(p, n)
       PROVE  UNCHANGED <<job, target>>
  BY <1>13 DEF FinalizeAccount, tables
<1>14. ASSUME NEW t \in Tokens, NEW named \in BOOLEAN, FinalizeStation(t, named)
       PROVE  UNCHANGED <<job, target>>
  BY <1>14 DEF FinalizeStation
<1>15. ASSUME NEW n \in ProgramNames, NEW e \in BOOLEAN, CreateProgram(n, e)
       PROVE  UNCHANGED <<job, target>>
  BY <1>15 DEF CreateProgram, Configure
<1>16. ASSUME NEW id \in Ids,
              DeleteProgram(id) \/ DeleteSet(id) \/ DeleteInstrument(id) \/ DeleteSchedule(id)
       PROVE  UNCHANGED <<job, target>>
  BY <1>16 DEF DeleteProgram, DeleteSet, DeleteInstrument, DeleteSchedule, Configure
<1>17. ASSUME NEW row \in InstrumentRow,
              CreateInstrument(row) \/ \E i \in Ids : UpdateInstrument(i, row)
       PROVE  UNCHANGED <<job, target>>
  BY <1>17 DEF CreateInstrument, UpdateInstrument, Configure
<1>18. ASSUME NEW row \in ScheduleRow, CreateSchedule(row) PROVE UNCHANGED <<job, target>>
  BY <1>18 DEF CreateSchedule, Configure
<1>19. ASSUME NEW i \in Ids, NEW wanted \in BOOLEAN, SetDesired(i, wanted)
       PROVE  UNCHANGED <<job, target>>
  BY <1>19 DEF SetDesired, tables
<1>20. ASSUME NEW cal \in BOOLEAN, NEW prog \in BOOLEAN, NEW sched \in BOOLEAN,
              LegacyBegin(cal, prog, sched)
       PROVE  UNCHANGED <<job, target>>
  BY <1>20 DEF LegacyBegin
<1>21. ASSUME NEW n \in ProgramNames, LegacyRest(n) PROVE UNCHANGED <<job, target>>
  BY <1>21 DEF LegacyRest
<1>22. CASE \/ WizardPage \/ FinalizeRaises \/ CreateSet \/ ExportBegin
            \/ ExportRead \/ LegacyInstrument \/ Crash \/ UNCHANGED vars
  <2>1. UNCHANGED <<job, target>>
    BY <1>22 DEF WizardPage, FinalizeRaises, CreateSet, ExportBegin, ExportRead,
       LegacyInstrument, Crash, Configure, tables, vars
  <2> QED
    BY <2>1, <1>1
<1> QED
  BY <1>1, <1>2, <1>3, <1>4, <1>5, <1>6, <1>7, <1>8, <1>9, <1>10, <1>11, <1>12, <1>13,
     <1>14, <1>15, <1>16, <1>17, <1>18, <1>19, <1>20, <1>21, <1>22 DEF Next

\* On a station whose tables have all their foreign keys (no upgrade has added
\* a column) no handler, in whatever order and split at whichever commit,
\* leaves a session without its account, an instrument without its program or
\* its calibration set, a schedule without its instrument or its program, or an
\* upload job without its target.
THEOREM ReferencesTheorem ==
  ASSUME Added = {}
  PROVE  Spec => []NoDangling
<1>1. Init => JobRefs
  BY DEF Init, JobRefs
<1>2. Spec => []JobRefs
  BY <1>1, Inductive, JobStep, PTL DEF Spec
<1>3. ConfigInv /\ JobRefs => NoDangling
  <2> SUFFICES ASSUME ConfigInv, JobRefs
               PROVE  NoDangling
    OBVIOUS
  <2>1. SessionRefs /\ InstrumentRefs(instrument, program, calset)
                    /\ ScheduleRefs(schedule, instrument, program)
    BY DEF ConfigInv, AccountsOK, TablesOK
  <2> QED
    BY <2>1 DEF NoDangling, SessionRefs, InstrumentRefs, ScheduleRefs, Refers, JobRefs
<1> QED
  BY <1>2, <1>3, Inductive, PTL
-----------------------------------------------------------------------------
(* Sessions keep their account. *)

\* What a step may do to the accounts: store one under an id that is not in
\* use, change one but for its name, or delete one that has no session.
\* Sessions come and go, and none is handed to another account.
AccountsChange ==
  /\ \A t \in DOMAIN session \cap DOMAIN session' : session'[t] = session[t]
  /\ \A u \in DOMAIN user :
       \/ u \in DOMAIN user' /\ user'[u].name = user[u].name
       \/ \A t \in DOMAIN session : session[t] # u

\* A new account is stored under an id of its own.
LEMMA AccountAdded ==
  ASSUME ConfigInv, NEW row, user' = Put(user, NextId(DOMAIN user), row), session' = session
  PROVE  AccountsChange
<1>1. NextId(DOMAIN user) \notin DOMAIN user
  BY NextIdFresh, MapsRows DEF ConfigInv, AccountsOK, Table
<1>2. \A u \in DOMAIN user : u \in DOMAIN user' /\ user'[u] = user[u]
  BY <1>1 DEF Put
<1> QED
  BY <1>2 DEF AccountsChange

\* How a step may change accounts and sessions.
LEMMA AccountsStep == ConfigInv /\ [Next]_vars => AccountsChange
<1> SUFFICES ASSUME ConfigInv, [Next]_vars
             PROVE  AccountsChange
  OBVIOUS
<1>1. CASE UNCHANGED accounts
  BY <1>1 DEF AccountsChange, accounts
<1>2. ASSUME NEW u \in Ids, NEW t \in Tokens, Login(u, t) PROVE AccountsChange
  <2>1. /\ t \notin DOMAIN session /\ session' = Put(session, t, u) /\ user' = user
    BY <1>2 DEF Login
  <2> QED
    BY <2>1 DEF AccountsChange, Put
<1>3. ASSUME NEW t \in Tokens, Logout(t) PROVE AccountsChange
  <2>1. session' = Drop(session, t) /\ user' = user
    BY <1>3 DEF Logout
  <2> QED
    BY <2>1 DEF AccountsChange, Drop
<1>4. ASSUME NEW n \in UserNames, NEW r \in Roles, CreateUser(n, r) PROVE AccountsChange
  BY <1>4, AccountAdded DEF CreateUser, Account
<1>5. ASSUME NEW u \in Ids, NEW r \in Roles, NEW a \in BOOLEAN, UpdateUser(u, r, a)
      PROVE  AccountsChange
  <2>1. /\ user' = [user EXCEPT ![u].role = r, ![u].active = a] /\ session' = session
    BY <1>5 DEF UpdateUser, Account
  <2>2. user \in [DOMAIN user -> UserRow]
    BY MapsRows DEF ConfigInv, AccountsOK, Table
  <2>3. \A x \in DOMAIN user : x \in DOMAIN user' /\ user'[x].name = user[x].name
    BY <2>1, <2>2 DEF UserRow
  <2> QED
    BY <2>1, <2>3 DEF AccountsChange
<1>6. ASSUME NEW u \in Ids, DeleteUser(u) PROVE AccountsChange
  <2>1. user' = Drop(user, u) /\ session' = session
    BY <1>6 DEF DeleteUser, Account
  <2>2. \A t \in DOMAIN session : session[t] # u
    BY <1>6 DEF DeleteUser, Referenced
  <2> QED
    BY <2>1, <2>2 DEF AccountsChange, Drop
<1>7. ASSUME NEW p \in Posts, NEW n \in UserNames, FinalizeAccount(p, n) PROVE AccountsChange
  BY <1>7, AccountAdded DEF FinalizeAccount
<1>8. ASSUME NEW t \in Tokens, NEW named \in BOOLEAN, FinalizeStation(t, named)
      PROVE  AccountsChange
  <2>1. /\ t \notin DOMAIN session /\ user' = user
        /\ session' = Put(session, t, final.id) \/ session' = session
    BY <1>8 DEF FinalizeStation
  <2> QED
    BY <2>1 DEF AccountsChange, Put
<1>9. ASSUME NEW p \in Posts, NEW page \in 0..FINAL, SubmitBegin(p, page) PROVE UNCHANGED accounts
  BY <1>9 DEF SubmitBegin
<1>10. ASSUME NEW p \in Posts, SubmitEnd(p) \/ SubmitFails(p) PROVE UNCHANGED accounts
  BY <1>10 DEF SubmitEnd, SubmitFails
<1>11. ASSUME NEW n \in ProgramNames, NEW e \in BOOLEAN, CreateProgram(n, e)
       PROVE  UNCHANGED accounts
  BY <1>11 DEF CreateProgram, Configure
<1>12. ASSUME NEW id \in Ids, \/ DeleteProgram(id) \/ DeleteSet(id) \/ DeleteInstrument(id)
                              \/ DeleteSchedule(id) \/ Upload(id)
       PROVE  UNCHANGED accounts
  BY <1>12 DEF DeleteProgram, DeleteSet, DeleteInstrument, DeleteSchedule, Upload, Configure
<1>13. ASSUME NEW row \in InstrumentRow,
              CreateInstrument(row) \/ \E i \in Ids : UpdateInstrument(i, row)
       PROVE  UNCHANGED accounts
  BY <1>13 DEF CreateInstrument, UpdateInstrument, Configure
<1>14. ASSUME NEW row \in ScheduleRow, CreateSchedule(row) PROVE UNCHANGED accounts
  BY <1>14 DEF CreateSchedule, Configure
<1>15. ASSUME NEW i \in Ids, NEW wanted \in BOOLEAN, SetDesired(i, wanted)
       PROVE  UNCHANGED accounts
  BY <1>15 DEF SetDesired
<1>16. ASSUME NEW cal \in BOOLEAN, NEW prog \in BOOLEAN, NEW sched \in BOOLEAN,
              LegacyBegin(cal, prog, sched)
       PROVE  UNCHANGED accounts
  BY <1>16 DEF LegacyBegin
<1>17. ASSUME NEW n \in ProgramNames, LegacyRest(n) PROVE UNCHANGED accounts
  BY <1>17 DEF LegacyRest
<1>18. CASE \/ WizardPage \/ FinalizeRaises \/ CreateSet \/ CreateTarget \/ ExportBegin
            \/ ExportRead \/ RestoreClear \/ RestoreInsert \/ LegacyInstrument \/ Crash
            \/ UNCHANGED vars
  <2>1. UNCHANGED accounts
    BY <1>18 DEF WizardPage, FinalizeRaises, CreateSet, CreateTarget, ExportBegin, ExportRead,
       RestoreClear, RestoreInsert, LegacyInstrument, Crash, Configure, vars
  <2> QED
    BY <2>1, <1>1
<1> QED
  BY <1>1, <1>2, <1>3, <1>4, <1>5, <1>6, <1>7, <1>8, <1>9, <1>10, <1>11, <1>12, <1>13,
     <1>14, <1>15, <1>16, <1>17, <1>18 DEF Next

\* A session stands for the account that opened it for as long as it exists:
\* accounts with a session are not deleted, so no id of theirs is used anew.
THEOREM SessionKeptTheorem == Spec => SessionKept
<1> DEFINE Kept == \A t \in DOMAIN session \cap DOMAIN session' :
                     /\ session[t] \in DOMAIN user /\ session[t] \in DOMAIN user'
                     /\ user'[session'[t]].name = user[session[t]].name
<1>1. ConfigInv /\ [Next]_vars => Kept
  <2> SUFFICES ASSUME ConfigInv, [Next]_vars, NEW t \in DOMAIN session \cap DOMAIN session'
               PROVE  /\ session[t] \in DOMAIN user /\ session[t] \in DOMAIN user'
                      /\ user'[session'[t]].name = user[session[t]].name
    OBVIOUS
  <2>1. session[t] \in DOMAIN user
    BY DEF ConfigInv, AccountsOK, SessionRefs
  <2>2. session'[t] = session[t]
    BY AccountsStep DEF AccountsChange
  <2>3. session[t] \in DOMAIN user' /\ user'[session[t]].name = user[session[t]].name
    BY <2>1, AccountsStep DEF AccountsChange
  <2> QED
    BY <2>1, <2>2, <2>3
<1> QED
  BY <1>1, Inductive, PTL DEF Spec, SessionKept
-----------------------------------------------------------------------------
(* Instruments and schedules keep their plan. *)

\* What a step may do to the programs: store one under an id that is not in
\* use, delete one that no row refers to, or empty the tables that refer.
ProgramsChange ==
  \/ DOMAIN instrument' = {} /\ DOMAIN schedule' = {}
  \/ \A id \in DOMAIN program :
       \/ id \in DOMAIN program' /\ program'[id] = program[id]
       \/ /\ \A i \in DOMAIN instrument :
               "instrument.program" \in Added \/ instrument[i].program # id
          /\ \A s \in DOMAIN schedule : "schedule.program" \in Added \/ schedule[s].program # id

\* A new program is stored under an id of its own.
LEMMA ProgramAdded ==
  ASSUME ConfigInv, NEW row, program' = Put(program, NextId(DOMAIN program), row)
  PROVE  ProgramsChange
<1>1. NextId(DOMAIN program) \notin DOMAIN program
  BY NextIdFresh, MapsRows DEF ConfigInv, TablesOK, Table
<1>2. \A id \in DOMAIN program : id \in DOMAIN program' /\ program'[id] = program[id]
  BY <1>1 DEF Put
<1> QED
  BY <1>2 DEF ProgramsChange

\* How a step may change programs.
LEMMA ProgramsStep == ConfigInv /\ [Next]_vars => ProgramsChange
<1> SUFFICES ASSUME ConfigInv, [Next]_vars
             PROVE  ProgramsChange
  OBVIOUS
<1>1. CASE program' = program
  BY <1>1 DEF ProgramsChange
<1>2. ASSUME NEW n \in ProgramNames, NEW e \in BOOLEAN, CreateProgram(n, e) PROVE ProgramsChange
  BY <1>2, ProgramAdded DEF CreateProgram
<1>3. ASSUME NEW id \in Ids, DeleteProgram(id) PROVE ProgramsChange
  <2>1. program' = Drop(program, id)
    BY <1>3 DEF DeleteProgram
  <2>2. /\ \A i \in DOMAIN instrument :
             "instrument.program" \in Added \/ instrument[i].program # id
        /\ \A s \in DOMAIN schedule : "schedule.program" \in Added \/ schedule[s].program # id
    BY <1>3 DEF DeleteProgram, Referenced
  <2> QED
    BY <2>1, <2>2 DEF ProgramsChange, Drop
<1>4. ASSUME NEW n \in ProgramNames, LegacyRest(n) PROVE ProgramsChange
  <2>1. \/ program' = program
        \/ program' = Put(program, NextId(DOMAIN program), [name |-> n, empty |-> FALSE])
    BY <1>4 DEF LegacyRest
  <2> QED
    BY <2>1, <1>1, ProgramAdded
<1>5. CASE RestoreClear
  <2>1. program' = program \/ (instrument' = <<>> /\ schedule' = <<>>)
    BY <1>5 DEF RestoreClear, tables
  <2> QED
    BY <2>1, <1>1, EmptyMaps DEF ProgramsChange
<1>6. CASE RestoreInsert
  <2>1. program' = program \/ program' = Both(program, backup.program)
    BY <1>6 DEF RestoreInsert, tables
  <2> QED
    BY <2>1, <1>1 DEF ProgramsChange, Both
<1>7. ASSUME NEW u \in Ids, NEW t \in Tokens, Login(u, t) PROVE program' = program
  BY <1>7 DEF Login, tables
<1>8. ASSUME NEW t \in Tokens, Logout(t) PROVE program' = program
  BY <1>8 DEF Logout, tables
<1>9. ASSUME NEW n \in UserNames, NEW r \in Roles, CreateUser(n, r) PROVE program' = program
  BY <1>9 DEF CreateUser, Account, tables
<1>10. ASSUME NEW u \in Ids, NEW r \in Roles, NEW a \in BOOLEAN, UpdateUser(u, r, a)
       PROVE  program' = program
  BY <1>10 DEF UpdateUser, Account, tables
<1>11. ASSUME NEW u \in Ids, DeleteUser(u) PROVE program' = program
  BY <1>11 DEF DeleteUser, Account, tables
<1>12. ASSUME NEW p \in Posts, NEW page \in 0..FINAL, SubmitBegin(p, page)
       PROVE  program' = program
  BY <1>12 DEF SubmitBegin, tables
<1>13. ASSUME NEW p \in Posts, SubmitEnd(p) \/ SubmitFails(p) PROVE program' = program
  BY <1>13 DEF SubmitEnd, SubmitFails, tables
<1>14. ASSUME NEW p \in Posts, NEW n \in UserNames, FinalizeAccount(p, n)
       PROVE  program' = program
  BY <1>14 DEF FinalizeAccount, tables
<1>15. ASSUME NEW t \in Tokens, NEW named \in BOOLEAN, FinalizeStation(t, named)
       PROVE  program' = program
  BY <1>15 DEF FinalizeStation
<1>16. ASSUME NEW id \in Ids, DeleteSet(id) \/ DeleteInstrument(id) \/ DeleteSchedule(id) \/ Upload(id)
       PROVE  program' = program
  BY <1>16 DEF DeleteSet, DeleteInstrument, DeleteSchedule, Upload, tables
<1>17. ASSUME NEW row \in InstrumentRow,
              CreateInstrument(row) \/ \E i \in Ids : UpdateInstrument(i, row)
       PROVE  program' = program
  BY <1>17 DEF CreateInstrument, UpdateInstrument
<1>18. ASSUME NEW row \in ScheduleRow, CreateSchedule(row) PROVE program' = program
  BY <1>18 DEF CreateSchedule
<1>19. ASSUME NEW i \in Ids, NEW wanted \in BOOLEAN, SetDesired(i, wanted)
       PROVE  program' = program
  BY <1>19 DEF SetDesired, tables
<1>20. ASSUME NEW cal \in BOOLEAN, NEW prog \in BOOLEAN, NEW sched \in BOOLEAN,
              LegacyBegin(cal, prog, sched)
       PROVE  program' = program
  BY <1>20 DEF LegacyBegin
<1>21. CASE \/ WizardPage \/ FinalizeRaises \/ CreateSet \/ CreateTarget \/ ExportBegin
            \/ ExportRead \/ LegacyInstrument \/ Crash \/ UNCHANGED vars
  <2>1. program' = program
    BY <1>21 DEF WizardPage, FinalizeRaises, CreateSet, CreateTarget, ExportBegin, ExportRead,
       LegacyInstrument, Crash, tables, vars
  <2> QED
    BY <2>1, <1>1
<1> QED
  BY <1>1, <1>2, <1>3, <1>4, <1>5, <1>6, <1>7, <1>8, <1>9, <1>10, <1>11, <1>12, <1>13,
     <1>14, <1>15, <1>16, <1>17, <1>18, <1>19, <1>20, <1>21 DEF Next

\* No program has None for its id: a schedule without a program overrides nothing.
LEMMA NoOverride ==
  ASSUME TablesOK
  PROVE  NoId \notin DOMAIN program
BY MapsRows, BoundsAssumption DEF TablesOK, Table, Ids

\* The channels of a reference that a row holds before and after a step.
LEMMA ChannelsKept ==
  ASSUME ConfigInv, ConfigInv', NEW r, r = NoId \/ r \in DOMAIN program,
         r \in DOMAIN program => r \in DOMAIN program' /\ program'[r] = program[r]
  PROVE  /\ ProgramChannels(r)' = ProgramChannels(r)
         /\ resolve_channels(r, NoId)' = resolve_channels(r, NoId)
<1>1. NoId \notin DOMAIN program /\ NoId \notin DOMAIN program'
  <2>1. TablesOK => NoId \notin DOMAIN program
    BY NoOverride
  <2>2. (TablesOK => NoId \notin DOMAIN program)'
    BY NoOverride, PTL
  <2> QED
    BY <2>1, <2>2 DEF ConfigInv
<1>2. ProgramChannels(r)' = ProgramChannels(r)
  BY <1>1 DEF ProgramChannels
<1>3. ProgramChannels(NoId) = {} /\ ProgramChannels(NoId)' = {}
  BY <1>1 DEF ProgramChannels
<1> QED
  BY <1>2, <1>3 DEF resolve_channels

\* An instrument row and a schedule row that a step leaves as they are record
\* with the same channels after it: no deletion, restore, import or reuse of
\* an id moves an instrument to the ramp or to another plan, on a station where
\* no upgrade has added a column that refers to programs.
THEOREM PlanKeptTheorem ==
  ASSUME "instrument.program" \notin Added, "schedule.program" \notin Added
  PROVE  Spec => PlanKept
<1> DEFINE Kept ==
      /\ \A i \in DOMAIN instrument \cap DOMAIN instrument' :
           instrument'[i] = instrument[i] =>
             resolve_channels(instrument[i].program, NoId)' = resolve_channels(instrument[i].program, NoId)
      /\ \A s \in DOMAIN schedule \cap DOMAIN schedule' :
           schedule'[s] = schedule[s] =>
             ProgramChannels(schedule[s].program)' = ProgramChannels(schedule[s].program)
<1>1. ConfigInv /\ [Next]_vars => Kept
  <2> SUFFICES ASSUME ConfigInv, [Next]_vars
               PROVE  Kept
    OBVIOUS
  <2>0. ConfigInv' /\ ProgramsChange
    BY NextStep, ProgramsStep
  <2>1. ASSUME NEW i \in DOMAIN instrument \cap DOMAIN instrument', instrument'[i] = instrument[i]
        PROVE  resolve_channels(instrument[i].program, NoId)' = resolve_channels(instrument[i].program, NoId)
    <3>1. PICK r : r = instrument[i].program
      OBVIOUS
    <3>2. instrument'[i].program = r
      BY <2>1, <3>1
    <3>3. r = NoId \/ r \in DOMAIN program
      BY <3>1 DEF ConfigInv, TablesOK, InstrumentRefs, Refers
    <3>4. r \in DOMAIN program => r \in DOMAIN program' /\ program'[r] = program[r]
      BY <2>0, <3>1 DEF ProgramsChange
    <3>5. resolve_channels(r, NoId)' = resolve_channels(r, NoId)
      BY <2>0, <3>3, <3>4, ChannelsKept
    <3> QED
      BY <3>1, <3>2, <3>5 DEF resolve_channels, ProgramChannels
  <2>2. ASSUME NEW s \in DOMAIN schedule \cap DOMAIN schedule', schedule'[s] = schedule[s]
        PROVE  ProgramChannels(schedule[s].program)' = ProgramChannels(schedule[s].program)
    <3>1. PICK r : r = schedule[s].program
      OBVIOUS
    <3>2. schedule'[s].program = r
      BY <2>2, <3>1
    <3>3. r = NoId \/ r \in DOMAIN program
      BY <3>1 DEF ConfigInv, TablesOK, ScheduleRefs, Refers
    <3>4. r \in DOMAIN program => r \in DOMAIN program' /\ program'[r] = program[r]
      BY <2>0, <3>1 DEF ProgramsChange
    <3>5. ProgramChannels(r)' = ProgramChannels(r)
      BY <2>0, <3>3, <3>4, ChannelsKept
    <3> QED
      BY <3>1, <3>2, <3>5 DEF ProgramChannels
  <2> QED
    BY <2>1, <2>2
<1> QED
  BY <1>1, Inductive, PTL DEF Spec, PlanKept
=============================================================================
