------------------------ MODULE SchedulerTickProofs ------------------------
(***************************************************************************)
(* Proofs about SchedulerTick: the types, that a Stop is kept, and that an *)
(* overview is taken once a day.                                           *)
(***************************************************************************)
EXTENDS SchedulerTick, WellFoundedInduction, TLAPS

-----------------------------------------------------------------------------
(* Helpers. *)

\* Min, which the tick uses to take the next id, is the least element.
LEMMA MinNat ==
  ASSUME NEW S \in SUBSET Nat, S # {}
  PROVE  Min(S) \in S /\ \A y \in S : Min(S) <= y
<1>1. \E x \in S : \A y \in S : ~(<<y, x>> \in OpToRel(<, Nat))
  BY NatLessThanWellFounded, WFMin
<1>2. \A x, y \in Nat : y < x => <<y, x>> \in OpToRel(<, Nat)
  BY DEF OpToRel
<1>3. \E x \in S : \A y \in S : ~(y < x)
  BY <1>1, <1>2, Zenon
<1>4. \E x \in S : \A y \in S : x =< y
  BY <1>3
<1> QED
  BY <1>4 DEF Min

-----------------------------------------------------------------------------
(* The inductive invariants. *)

\* A flag that must stay cleared is not among those a seeding has yet to set.
StopInv ==
  \A i \in Instruments : halted[i] = boot => ~desired[i] /\ marker = boot /\ pc # "seed"

\* The ids of an instrument's schedules differ.
IdsDiffer ==
  \A i \in Instruments : \A k, l \in DOMAIN scheds[i] :
    scheds[i][k].id = scheds[i][l].id => k = l

\* No schedule has an overview from the future of the clock or of the tick.
DatesPast ==
  /\ pc \in {"tick", "overview"} => t.day <= day
  /\ \A i \in Instruments : \A k \in DOMAIN scheds[i] :
       /\ scheds[i][k].last <= day
       /\ pc \in {"tick", "overview"} => scheds[i][k].last <= t.day

Untaken(i) == \A d \in Days : taken[i][d] = 0

\* The overview under way is that of the schedule which is still the active
\* one, or a schedule was deleted meanwhile and counting began anew.
PendingInv ==
  /\ \A i \in Instruments : ~Windowed(i) => Untaken(i)
  /\ pc = "overview" =>
       /\ Min(todo) \in Instruments
       /\ \/ Windowed(Min(todo)) /\ Active(Min(todo)).id = t.sched
          \/ Untaken(Min(todo))

\* The overview of day d is stored with the active schedule, or under way.
Pending(i, d) == pc = "overview" /\ Min(todo) = i /\ t.day = d
Settled(i, d) == (Windowed(i) /\ Active(i).last >= d) \/ Pending(i, d)

\* An overview that is not settled costs one of the faults or reboots.
CountInv ==
  \A i \in Instruments, d \in Days :
    taken[i][d] <= boot + faults /\ (taken[i][d] = boot + faults => Settled(i, d))

OverviewInv == IdsDiffer /\ DatesPast /\ PendingInv /\ CountInv

-----------------------------------------------------------------------------
(* Types. *)

\* No tick is a tick.
LEMMA NoTickType == NoTick \in Tick
BY BoundsAssumption, DayAssumption DEF NoTick, Tick, Days, Ids

\* The type before the first boot.
LEMMA TypeInit == Init => TypeOK
<1> SUFFICES ASSUME Init PROVE TypeOK
  OBVIOUS
<1> USE BoundsAssumption, DayAssumption
<1>1. PICK st \in Stations :
        /\ sky = st.sky
        /\ inst = [i \in Instruments |->
                    [enabled |-> TRUE, start_on_boot |-> st.start_on_boot[i], cal |-> TRUE]]
        /\ scheds = [i \in Instruments |->
                      [k \in DOMAIN st.scheds[i] |-> [id |-> k, s |-> st.scheds[i][k], last |-> -1]]]
  BY DEF Init
<1>2. ASSUME NEW i \in Instruments
      PROVE  scheds[i] \in Seq(Row) /\ Len(scheds[i]) <= MaxScheds
  <2>1. /\ st.scheds[i] \in Seq(Templates) /\ Len(st.scheds[i]) \in Nat
        /\ Len(st.scheds[i]) <= MaxScheds /\ DOMAIN st.scheds[i] = 1..Len(st.scheds[i])
        /\ \A k \in DOMAIN st.scheds[i] : st.scheds[i][k] \in Templates
    BY StationsAssumption
  <2> DEFINE rows == [k \in 1..Len(st.scheds[i]) |-> [id |-> k, s |-> st.scheds[i][k], last |-> -1]]
  <2>2. scheds[i] = rows
    BY <1>1, <2>1
  <2>3. \A k \in 1..Len(st.scheds[i]) : [id |-> k, s |-> st.scheds[i][k], last |-> -1] \in Row
    BY <2>1 DEF Row, Ids
  <2>4. rows \in Seq(Row) /\ Len(rows) = Len(st.scheds[i])
    BY <2>1, <2>3
  <2> QED
    BY <2>1, <2>2, <2>4
<1>3. scheds \in [Instruments -> Seq(Row)]
  BY <1>1, <1>2
<1>4. sky \in Skies
  BY <1>1 DEF Skies
<1>5. inst \in [Instruments -> Inst]
  BY <1>1, StationsAssumption DEF Inst
<1>6. /\ rec \in [Instruments -> {"idle", "recording", "error"}]
      /\ gone \in [Instruments -> BOOLEAN] /\ desired \in [Instruments -> BOOLEAN]
      /\ halted \in [Instruments -> (0..(MaxReboots + 1)) \cup {NotHalted}]
  BY DEF Init, NotHalted
<1>7. taken \in [Instruments -> [Days -> Nat]]
  BY DEF Init, Days
<1>8. /\ day \in Days /\ now \in 0..(Day - 1) /\ gate \in BOOLEAN
      /\ boot \in 1..(MaxReboots + 1) /\ marker \in 0..(MaxReboots + 1)
      /\ pc \in {"down", "seed", "idle", "tick", "overview"} /\ todo \subseteq Instruments
      /\ requests \in 0..MaxRequests /\ faults \in 0..MaxFaults
  BY DEF Init, Days
<1>9. t \in Tick
  BY NoTickType DEF Init
<1> QED
  BY <1>2, <1>3, <1>4, <1>5, <1>6, <1>7, <1>8, <1>9 DEF TypeOK

\* What is left of a schedule list when a row is deleted.
LEMMA RemoveAtRows ==
  ASSUME NEW S, NEW rows \in Seq(S), NEW k \in DOMAIN rows
  PROVE  /\ RemoveAt(rows, k) \in Seq(S)
         /\ Len(RemoveAt(rows, k)) = Len(rows) - 1
         /\ \A n \in DOMAIN RemoveAt(rows, k) :
              RemoveAt(rows, k)[n] = rows[IF n < k THEN n ELSE n + 1]
<1> DEFINE before == SubSeq(rows, 1, k - 1)
           after  == SubSeq(rows, k + 1, Len(rows))
<1>1. k \in 1..Len(rows) /\ Len(rows) \in Nat
  OBVIOUS
<1>2. /\ before \in Seq(S) /\ Len(before) = k - 1
      /\ \A n \in 1..(k - 1) : before[n] = rows[n]
  BY <1>1
<1>3. /\ after \in Seq(S) /\ Len(after) = Len(rows) - k
      /\ \A n \in 1..(Len(rows) - k) : after[n] = rows[n + k]
  BY <1>1
<1>4. RemoveAt(rows, k) = before \o after
  BY DEF RemoveAt
<1> HIDE DEF before, after
<1>5. Len(before \o after) = Len(rows) - 1 /\ before \o after \in Seq(S)
  BY <1>1, <1>2, <1>3
<1>6. ASSUME NEW n \in 1..(Len(rows) - 1)
      PROVE  (before \o after)[n] = rows[IF n < k THEN n ELSE n + 1]
  BY <1>1, <1>2, <1>3
<1>7. DOMAIN (before \o after) = 1..(Len(rows) - 1)
  BY <1>1, <1>5
<1> QED
  BY <1>4, <1>5, <1>6, <1>7

\* A list whose rows are rewritten in place is a list of rows of its length.
LEMMA SeqOfRows ==
  ASSUME NEW S, NEW a \in Seq(S), NEW f, f = [k \in DOMAIN f |-> f[k]],
         DOMAIN f = DOMAIN a, \A k \in DOMAIN a : f[k] \in S
  PROVE  f \in Seq(S) /\ Len(f) = Len(a)
OBVIOUS

\* The exception that ends a tick.
LEMMA TickEndType == TypeOK /\ TickEnd => TypeOK'
BY NoTickType DEF TypeOK, TickEnd, clock, config

\* The scheduler's own steps, and their failures, keep the type.
LEMMA LoopType ==
  ASSUME TypeOK, LoopStep \/ BootFails \/ OverviewCommitFails
  PROVE  TypeOK'
<1> USE BoundsAssumption, DayAssumption
<1>1. CASE BootRead
  BY <1>1 DEF TypeOK, BootRead, clock, config
<1>2. CASE BootFails
  BY <1>2 DEF TypeOK, BootFails, clock, config
<1>3. CASE SeedOne
  <2>1. \A i \in Instruments : inst[i].start_on_boot \in BOOLEAN
    BY DEF TypeOK, Inst
  <2>2. desired' \in [Instruments -> BOOLEAN]
    BY <1>3, <2>1 DEF TypeOK, SeedOne
  <2> QED
    BY <1>3, <2>2 DEF TypeOK, SeedOne, clock, config
<1>4. CASE SeedEnds
  BY <1>4 DEF TypeOK, SeedEnds, clock, config
<1>5. CASE TickBegin
  <2>1. [NoTick EXCEPT !.day = day, !.now = now, !.gate_ok = gate] \in Tick
    BY DEF TypeOK, NoTick, Tick, Ids
  <2> QED
    BY <1>5, <2>1 DEF TypeOK, TickBegin, clock, config
<1>6. CASE TickDone
  BY <1>6, TickEndType DEF TickDone
<1>7. CASE OverviewCommitFails
  BY <1>7, NoTickType DEF TypeOK, OverviewCommitFails, clock, config
<1>8. CASE OverviewCommit
  <2> DEFINE i == Min(todo)
             rows == {k \in DOMAIN scheds[i] : scheds[i][k].id = t.sched}
  <2>1. CASE rows = {} /\ pc' = "idle" /\ todo' = {} /\ t' = NoTick /\ UNCHANGED scheds
    BY <1>8, <2>1, NoTickType DEF TypeOK, OverviewCommit, clock
  <2>2. CASE /\ scheds' = [scheds EXCEPT ![i][Min(rows)].last = t.day]
             /\ pc' = "tick" /\ todo' = todo \ {i} /\ t' = [t EXCEPT !.sched = 0]
    <3>1. /\ scheds' \in [Instruments -> Seq(Row)]
          /\ \A j \in Instruments : Len(scheds'[j]) <= MaxScheds
      <4> SUFFICES ASSUME NEW j \in Instruments
                   PROVE  scheds'[j] \in Seq(Row) /\ Len(scheds'[j]) <= MaxScheds
        BY <2>2 DEF TypeOK
      <4>1. scheds[j] \in Seq(Row) /\ Len(scheds[j]) <= MaxScheds
        BY DEF TypeOK
      <4>2. CASE j # i
        BY <2>2, <4>1, <4>2 DEF TypeOK
      <4>3. CASE j = i
        <5>1. scheds'[j] = [scheds[j] EXCEPT ![Min(rows)].last = t.day]
          BY <2>2, <4>3 DEF TypeOK
        <5>2. \A r \in Row : [r EXCEPT !.last = t.day] \in Row
          BY DEF TypeOK, Row, Tick
        <5>3. \A k \in DOMAIN scheds[j] : scheds[j][k] \in Row
          BY <4>1
        <5>4. /\ scheds'[j] = [k \in DOMAIN scheds'[j] |-> scheds'[j][k]]
              /\ DOMAIN scheds'[j] = DOMAIN scheds[j]
              /\ \A k \in DOMAIN scheds[j] : scheds'[j][k] \in Row
          BY <5>1, <5>2, <5>3
        <5> QED
          BY <4>1, <5>4, SeqOfRows
      <4> QED
        BY <4>2, <4>3
    <3>2. [t EXCEPT !.sched = 0] \in Tick
      BY DEF TypeOK, Tick
    <3> QED
      BY <1>8, <2>2, <3>1, <3>2 DEF TypeOK, OverviewCommit, clock
  <2> QED
    BY <1>8, <2>1, <2>2 DEF OverviewCommit
<1>9. ASSUME NEW i \in Instruments, Visit(i) PROVE TypeOK'
  <2>1. CASE VisitRaises(i)
    BY <2>1, TickEndType DEF VisitRaises
  <2>2. CASE VisitStart(i) \/ VisitStop(i) \/ VisitNothing(i)
    BY <2>2 DEF TypeOK, VisitStart, VisitStop, VisitNothing, Visited, clock, config
  <2>3. CASE VisitOverview(i)
    <3>1. Active(i).id \in Ids
      <4>1. scheds[i] \in Seq(Row) /\ ActiveIndex(i) # {} /\ ActiveIndex(i) \subseteq DOMAIN scheds[i]
        BY <2>3 DEF TypeOK, VisitOverview, OverviewDue, Windowed, ActiveIndex
      <4>2. Min(ActiveIndex(i)) \in DOMAIN scheds[i]
        BY <4>1, MinNat
      <4>3. Active(i) \in Row
        BY <4>1, <4>2 DEF Active
      <4> QED
        BY <4>3 DEF Row
    <3>2. taken' \in [Instruments -> [Days -> Nat]]
      <4>1. t.day \in Days /\ taken[i] \in [Days -> Nat]
        BY DEF TypeOK, Tick
      <4>2. taken' = [taken EXCEPT ![i] = [taken[i] EXCEPT ![t.day] = taken[i][t.day] + 1]]
        BY <2>3 DEF VisitOverview
      <4>3. [taken[i] EXCEPT ![t.day] = taken[i][t.day] + 1] \in [Days -> Nat]
        BY <4>1
      <4> QED
        BY <4>2, <4>3 DEF TypeOK
    <3>3. [t EXCEPT !.sched = Active(i).id] \in Tick
      BY <3>1 DEF TypeOK, Tick
    <3> QED
      BY <2>3, <3>2, <3>3 DEF TypeOK, VisitOverview, clock, config
  <2> QED
    BY <1>9, <2>1, <2>2, <2>3 DEF Visit
<1> QED
  BY <1>1, <1>2, <1>3, <1>4, <1>5, <1>6, <1>7, <1>8, <1>9 DEF LoopStep

\* A request of an operator keeps the type.
LEMMA RequestType ==
  ASSUME TypeOK, NEW i \in Instruments, Request(i)
  PROVE  TypeOK'
<1> USE BoundsAssumption
<1>0. requests' \in 0..MaxRequests
  BY DEF TypeOK, Request, Record, Stop, CreateSchedule, DeleteSchedule, UpdateInstrument, Requested
<1>1. CASE Record(i)
  BY <1>0, <1>1 DEF TypeOK, Record, NotHalted, clock, loop
<1>2. CASE Stop(i)
  BY <1>0, <1>2 DEF TypeOK, Stop, clock, loop
<1>3. CASE CreateSchedule(i)
  <2>1. PICK s \in Templates, id \in Ids :
          scheds' = [scheds EXCEPT ![i] = Append(@, [id |-> id, s |-> s, last |-> -1])]
    BY <1>3 DEF CreateSchedule
  <2> DEFINE e == [id |-> id, s |-> s, last |-> -1]
  <2>2. e \in Row
    BY DEF Row
  <2>3. scheds[i] \in Seq(Row) /\ Len(scheds[i]) < MaxScheds
    BY <1>3 DEF TypeOK, CreateSchedule
  <2> HIDE DEF e
  <2>4. Append(scheds[i], e) \in Seq(Row) /\ Len(Append(scheds[i], e)) <= MaxScheds
    BY <2>2, <2>3
  <2>5. scheds' = [scheds EXCEPT ![i] = Append(scheds[i], e)]
    BY <2>1 DEF e
  <2> QED
    BY <1>0, <1>3, <2>4, <2>5 DEF TypeOK, CreateSchedule, clock, loop
<1>4. CASE DeleteSchedule(i)
  <2>1. PICK k \in DOMAIN scheds[i] :
          /\ scheds' = [scheds EXCEPT ![i] = RemoveAt(@, k)]
          /\ taken' = [taken EXCEPT ![i] = [d \in Days |-> 0]]
    BY <1>4 DEF DeleteSchedule
  <2>2. RemoveAt(scheds[i], k) \in Seq(Row) /\ Len(RemoveAt(scheds[i], k)) <= MaxScheds
    <3>1. scheds[i] \in Seq(Row) /\ Len(scheds[i]) <= MaxScheds /\ Len(scheds[i]) \in Nat
      BY DEF TypeOK
    <3> QED
      BY <3>1, RemoveAtRows
  <2>3. taken' \in [Instruments -> [Days -> Nat]]
    BY <2>1 DEF TypeOK
  <2>4. scheds' = [scheds EXCEPT ![i] = RemoveAt(scheds[i], k)]
    BY <2>1
  <2> QED
    BY <1>0, <1>4, <2>2, <2>3, <2>4 DEF TypeOK, DeleteSchedule, clock, loop
<1>5. CASE UpdateInstrument(i)
  <2>1. \A r \in Inst : /\ [r EXCEPT !.enabled = ~@] \in Inst
                         /\ [r EXCEPT !.start_on_boot = ~@] \in Inst
                         /\ [r EXCEPT !.cal = ~@] \in Inst
    BY DEF Inst
  <2>2. inst' \in [Instruments -> Inst]
    <3>1. PICK r \in Inst : inst' = [inst EXCEPT ![i] = r]
      <4>1. inst[i] \in Inst
        BY DEF TypeOK
      <4> QED
        BY <1>5, <2>1, <4>1 DEF UpdateInstrument
    <3> QED
      BY <3>1 DEF TypeOK
  <2> QED
    BY <1>0, <1>5, <2>2 DEF TypeOK, UpdateInstrument, clock, loop
<1> QED
  BY <1>1, <1>2, <1>3, <1>4, <1>5 DEF Request

Environment ==
  \/ \E i \in Instruments : RecordingFails(i) \/ Unplugged(i)
  \/ Clock \/ GateFlips \/ Crash \/ Reboot

\* The clock, the sky, faults and reboots keep the type.
LEMMA EnvironmentType == TypeOK /\ Environment => TypeOK'
<1> SUFFICES ASSUME TypeOK, Environment PROVE TypeOK'
  OBVIOUS
<1> USE BoundsAssumption, DayAssumption
<1>1. CASE \E i \in Instruments : RecordingFails(i) \/ Unplugged(i)
  <2>1. ASSUME NEW i \in Instruments, RecordingFails(i) PROVE TypeOK'
    BY <2>1 DEF TypeOK, RecordingFails, clock, config, loop
  <2>2. ASSUME NEW i \in Instruments, Unplugged(i) PROVE TypeOK'
    <3>1. PICK x \in {"idle", "recording", "error"} : rec' = [rec EXCEPT ![i] = x]
      BY <2>2 DEF TypeOK, Unplugged
    <3> QED
      BY <2>2, <3>1 DEF TypeOK, Unplugged, clock, config, loop
  <2> QED
    BY <1>1, <2>1, <2>2
<1>2. CASE Clock
  <2>1. now' \in 0..(Day - 1)
    BY <1>2 DEF TypeOK, Clock
  <2> QED
    BY <1>2, <2>1 DEF TypeOK, Clock, Days, config, loop
<1>3. CASE GateFlips
  BY <1>3 DEF TypeOK, GateFlips, clock, config, loop
<1>4. CASE Crash
  BY <1>4, NoTickType DEF TypeOK, Crash, ProcessEnds, clock, config
<1>5. CASE Reboot
  BY <1>5, NoTickType DEF TypeOK, Reboot, ProcessEnds, NotHalted, clock, config
<1> QED
  BY <1>1, <1>2, <1>3, <1>4, <1>5 DEF Environment

\* The cases of Next.
LEMMA NextCases ==
  Next <=> \/ LoopStep \/ BootFails \/ OverviewCommitFails
           \/ \E i \in Instruments : Request(i)
           \/ Environment
BY DEF Next, Environment

\* Every state of the scheduler is of its type, whatever the order of ticks,
\* requests, faults and reboots.
THEOREM TypeCorrect == Spec => []TypeOK
<1>1. TypeOK /\ [Next]_vars => TypeOK'
  <2> SUFFICES ASSUME TypeOK, [Next]_vars PROVE TypeOK'
    OBVIOUS
  <2>1. CASE UNCHANGED vars
    BY <2>1 DEF TypeOK, vars, clock, config, loop
  <2>2. CASE Next
    BY <2>2, NextCases, LoopType, RequestType, EnvironmentType
  <2> QED
    BY <2>1, <2>2
<1> QED
  BY <1>1, TypeInit, PTL DEF Spec

-----------------------------------------------------------------------------
(* A Stop is kept. *)

\* A step that touches neither flags nor boot ids and does not start a seeding.
LEMMA StopQuiet ==
  StopInv /\ UNCHANGED <<halted, boot, desired, marker>> /\ pc' \in {pc, "idle", "tick", "overview", "down"}
    => StopInv'
BY DEF StopInv

\* In one process every step keeps what a Stop means.
LEMMA StopStep ==
  ASSUME ~Split, TypeOK, StopInv, [Next]_vars
  PROVE  StopInv'
<1> USE BoundsAssumption
<1>1. CASE UNCHANGED vars
  BY <1>1, StopQuiet DEF vars, loop
<1>2. CASE BootRead
  BY <1>2 DEF StopInv, BootRead
<1>3. CASE SeedOne
  \* No flag that must stay cleared exists while a seeding is under way.
  BY <1>3 DEF StopInv, SeedOne
<1>4. CASE BootFails \/ SeedEnds \/ TickBegin \/ TickDone \/ OverviewCommit \/ OverviewCommitFails
  BY <1>4, StopQuiet
    DEF BootFails, SeedEnds, TickBegin, TickDone, TickEnd, OverviewCommit, OverviewCommitFails
<1>5. ASSUME NEW i \in Instruments, Visit(i) PROVE StopInv'
  BY <1>5, StopQuiet
    DEF Visit, VisitStart, VisitStop, VisitNothing, VisitOverview, VisitRaises, Visited, TickEnd
<1>6. ASSUME NEW i \in Instruments, Record(i) PROVE StopInv'
  BY <1>6 DEF StopInv, TypeOK, Record, NotHalted, loop
<1>7. ASSUME NEW i \in Instruments, Stop(i) PROVE StopInv'
  \* The one process serves no Stop before its seeding is over.
  <2>1. pc # "seed"
    BY <1>7 DEF Stop, Requested, Serving
  <2> QED
    BY <1>7, <2>1 DEF StopInv, TypeOK, Stop, loop
<1>8. ASSUME NEW i \in Instruments, CreateSchedule(i) \/ DeleteSchedule(i) \/ UpdateInstrument(i)
      PROVE  StopInv'
  BY <1>8, StopQuiet DEF CreateSchedule, DeleteSchedule, UpdateInstrument, loop
<1>9. ASSUME NEW i \in Instruments, RecordingFails(i) \/ Unplugged(i) PROVE StopInv'
  BY <1>9, StopQuiet DEF RecordingFails, Unplugged, loop
<1>10. CASE Clock \/ GateFlips \/ Crash
  BY <1>10, StopQuiet DEF Clock, GateFlips, Crash, ProcessEnds, loop
<1>11. CASE Reboot
  BY <1>11 DEF StopInv, TypeOK, Reboot, NotHalted
<1> QED
  BY <1>1, <1>2, <1>3, <1>4, <1>5, <1>6, <1>7, <1>8, <1>9, <1>10, <1>11
    DEF Next, LoopStep, Request

\* With the loops and the requests in one process, a Stop that comes after the
\* boot id was written keeps the instrument's flag cleared until a Record or a
\* reboot, however often the process dies in its seeding or in a tick.
THEOREM StopKeptTheorem ==
  ASSUME ~Split
  PROVE  Spec => []StopKept
<1>1. Init => StopInv
  BY DEF Init, StopInv, NotHalted
<1>2. StopInv => StopKept
  BY DEF StopInv, StopKept
<1>3. TypeOK /\ StopInv /\ [Next]_vars => StopInv'
  BY StopStep
<1> QED
  BY <1>1, <1>2, <1>3, TypeCorrect, PTL DEF Spec

-----------------------------------------------------------------------------
(* An overview is taken once a day. *)

\* The active schedule of an instrument depends on its own list only.
LEMMA ActiveSame ==
  ASSUME NEW i \in Instruments, scheds'[i] = scheds[i]
  PROVE  (Windowed(i)' <=> Windowed(i)) /\ Active(i)' = Active(i)
BY DEF Windowed, Active, ActiveIndex

\* The active schedule is one of the rows.
LEMMA ActiveRow ==
  ASSUME TypeOK, NEW i \in Instruments, Windowed(i)
  PROVE  /\ Min(ActiveIndex(i)) \in DOMAIN scheds[i]
         /\ Min(ActiveIndex(i)) \in ActiveIndex(i)
         /\ \A k \in ActiveIndex(i) : Min(ActiveIndex(i)) <= k
         /\ Active(i) \in Row
<1>1. scheds[i] \in Seq(Row) /\ ActiveIndex(i) # {} /\ ActiveIndex(i) \subseteq DOMAIN scheds[i]
  BY DEF TypeOK, Windowed, ActiveIndex
<1>2. /\ Min(ActiveIndex(i)) \in ActiveIndex(i)
      /\ \A k \in ActiveIndex(i) : Min(ActiveIndex(i)) <= k
  BY <1>1, MinNat
<1> QED
  BY <1>1, <1>2 DEF Active

\* Rows at least 1 of which is active keep their first active one when a row
\* is appended; if none is active, the new row is the only one that can be.
LEMMA ActiveAppended ==
  ASSUME TypeOK, TypeOK', NEW i \in Instruments, NEW e \in Row,
         scheds'[i] = Append(scheds[i], e)
  PROVE  /\ Windowed(i) => Windowed(i)' /\ Active(i)' = Active(i)
         /\ ~Windowed(i) /\ Windowed(i)' => Active(i)' = e
<1> DEFINE n == Len(scheds[i])
<1>1. /\ scheds[i] \in Seq(Row) /\ n \in Nat /\ DOMAIN scheds[i] = 1..n
      /\ DOMAIN scheds'[i] = 1..(n + 1) /\ scheds'[i][n + 1] = e
      /\ \A k \in 1..n : scheds'[i][k] = scheds[i][k]
  <2>1. scheds[i] \in Seq(Row)
    BY DEF TypeOK
  <2> QED
    BY <2>1
<1> HIDE DEF n
<1>2. /\ ActiveIndex(i) = {k \in 1..n : scheds[i][k].s.kind # "manual"}
      /\ ActiveIndex(i)' = {k \in 1..(n + 1) : scheds'[i][k].s.kind # "manual"}
  BY <1>1 DEF ActiveIndex
<1>3. ActiveIndex(i) \subseteq ActiveIndex(i)' /\ ActiveIndex(i)' \subseteq ActiveIndex(i) \cup {n + 1}
  BY <1>1, <1>2
<1>4. ActiveIndex(i)' \in SUBSET Nat /\ ActiveIndex(i) \in SUBSET (1..n)
  BY <1>1, <1>2
<1>5. ASSUME Windowed(i) PROVE Windowed(i)' /\ Active(i)' = Active(i)
  <2>1. ActiveIndex(i)' # {}
    BY <1>3, <1>5 DEF Windowed
  <2>2. /\ Min(ActiveIndex(i)') \in ActiveIndex(i)'
        /\ \A k \in ActiveIndex(i)' : Min(ActiveIndex(i)') <= k
    BY <1>4, <2>1, MinNat
  <2>3. /\ Min(ActiveIndex(i)) \in ActiveIndex(i)
        /\ \A k \in ActiveIndex(i) : Min(ActiveIndex(i)) <= k
    BY <1>5, ActiveRow
  <2>4. Min(ActiveIndex(i)') = Min(ActiveIndex(i)) /\ Min(ActiveIndex(i)) \in 1..n
    BY <1>1, <1>3, <1>4, <2>2, <2>3
  <2> QED
    BY <1>1, <2>1, <2>4 DEF Active, Windowed
<1>6. ASSUME ~Windowed(i), Windowed(i)' PROVE Active(i)' = e
  <2>1. ActiveIndex(i)' = {n + 1}
    BY <1>3, <1>6 DEF Windowed
  <2>2. Min(ActiveIndex(i)') = n + 1
    BY <1>4, <2>1, MinNat
  <2> QED
    BY <1>1, <2>2 DEF Active
<1> QED
  BY <1>5, <1>6

\* Storing a date with row k changes nothing but that date.
LEMMA ActiveDated ==
  ASSUME TypeOK, NEW i \in Instruments, NEW k \in DOMAIN scheds[i], NEW d \in Days,
         scheds'[i] = [scheds[i] EXCEPT ![k].last = d]
  PROVE  /\ DOMAIN scheds'[i] = DOMAIN scheds[i]
         /\ \A n \in DOMAIN scheds[i] :
              /\ scheds'[i][n].id = scheds[i][n].id
              /\ scheds'[i][n].last = IF n = k THEN d ELSE scheds[i][n].last
         /\ (Windowed(i)' <=> Windowed(i))
         /\ Windowed(i) =>
              /\ Active(i)'.id = Active(i).id
              /\ Active(i)'.last = IF k = Min(ActiveIndex(i)) THEN d ELSE Active(i).last
<1>1. scheds[i] \in Seq(Row)
  BY DEF TypeOK
<1>2. DOMAIN scheds'[i] = DOMAIN scheds[i]
  OBVIOUS
<1>3. ASSUME NEW n \in DOMAIN scheds[i]
      PROVE  /\ scheds'[i][n].id = scheds[i][n].id
             /\ scheds'[i][n].s = scheds[i][n].s
             /\ scheds'[i][n].last = IF n = k THEN d ELSE scheds[i][n].last
  <2>1. scheds[i][n] \in Row
    BY <1>1
  <2>2. CASE n = k
    <3>1. scheds'[i][n] = [scheds[i][n] EXCEPT !.last = d]
      BY <2>2
    <3> QED
      BY <2>1, <2>2, <3>1 DEF Row
  <2>3. CASE n # k
    BY <2>3
  <2> QED
    BY <2>2, <2>3
<1>4. ActiveIndex(i)' = ActiveIndex(i)
  BY <1>2, <1>3 DEF ActiveIndex
<1>5. (Windowed(i)' <=> Windowed(i))
  BY <1>4 DEF Windowed
<1>6. ASSUME Windowed(i)
      PROVE  /\ Active(i)'.id = Active(i).id
             /\ Active(i)'.last = IF k = Min(ActiveIndex(i)) THEN d ELSE Active(i).last
  BY <1>3, <1>4, <1>6, ActiveRow DEF Active
<1> QED
  BY <1>2, <1>3, <1>5, <1>6

\* The numbers that the counting is about.
LEMMA CounterTypes ==
  ASSUME TypeOK
  PROVE  /\ boot \in Nat /\ boot >= 1 /\ faults \in Nat
         /\ t.day \in Days /\ t.day \in Int /\ day \in Int
         /\ \A i \in Instruments, d \in Days : taken[i][d] \in Nat
         /\ \A d \in Days : d \in Int
<1>1. boot \in Nat /\ boot >= 1 /\ faults \in Nat
  BY BoundsAssumption DEF TypeOK
<1>2. t.day \in Days /\ day \in Days
  BY DEF TypeOK, Tick
<1>3. \A d \in Days : d \in Int
  BY BoundsAssumption DEF Days
<1>4. \A i \in Instruments, d \in Days : taken[i][d] \in Nat
  BY DEF TypeOK
<1> QED
  BY <1>1, <1>2, <1>3, <1>4

\* The date of a schedule row.
LEMMA RowDates ==
  ASSUME TypeOK, NEW i \in Instruments, NEW k \in DOMAIN scheds[i]
  PROVE  scheds[i][k] \in Row /\ scheds[i][k].last \in Int
<1>1. scheds[i] \in Seq(Row)
  BY DEF TypeOK
<1>2. scheds[i][k] \in Row
  BY <1>1
<1> QED
  BY <1>2, BoundsAssumption DEF Row, Days

\* The steps that neither change a schedule nor take an overview.  One that
\* gives up the overview under way is a fault or a reboot.
LEMMA OverviewQuiet ==
  ASSUME TypeOK, TypeOK', OverviewInv, UNCHANGED <<scheds, taken>>,
         day' >= day, boot' + faults' >= boot + faults,
         \/ UNCHANGED <<pc, todo, t>>
         \/ pc # "overview" /\ pc' \in {"down", "seed", "idle"}
         \/ pc = "tick" /\ pc' = "tick" /\ UNCHANGED t
         \/ pc' \in {"down", "idle"} /\ boot' + faults' >= boot + faults + 1
         \/ pc = "idle" /\ pc' = "tick" /\ t'.day = day /\ UNCHANGED day
  PROVE  OverviewInv'
<1>1. /\ boot \in Nat /\ faults \in Nat /\ boot' \in Nat /\ faults' \in Nat
      /\ day \in Int /\ day' \in Int /\ t.day \in Int /\ t'.day \in Int
      /\ \A i \in Instruments, d \in Days : taken[i][d] \in Nat
  <2>1. t'.day \in Days /\ day' \in Days /\ boot' \in 1..(MaxReboots + 1) /\ faults' \in 0..MaxFaults
    BY DEF TypeOK, Tick
  <2> QED
    BY <2>1, CounterTypes, BoundsAssumption
<1>2. \A i \in Instruments : \A k \in DOMAIN scheds[i] : scheds[i][k].last \in Int
  BY RowDates
<1>3. \A i \in Instruments : (Windowed(i)' <=> Windowed(i)) /\ Active(i)' = Active(i)
  BY ActiveSame
<1>4. IdsDiffer'
  BY DEF OverviewInv, IdsDiffer
<1>5. DatesPast'
  BY <1>1, <1>2 DEF OverviewInv, DatesPast
<1>6. PendingInv'
  BY <1>3 DEF OverviewInv, PendingInv, Untaken
<1>7. ASSUME NEW i \in Instruments, NEW d \in Days
      PROVE  taken'[i][d] <= boot' + faults' /\ (taken'[i][d] = boot' + faults' => Settled(i, d)')
  <2>1. taken[i][d] <= boot + faults /\ (taken[i][d] = boot + faults => Settled(i, d))
    BY DEF OverviewInv, CountInv
  <2>2. taken'[i][d] \in Nat /\ taken'[i][d] = taken[i][d]
    BY <1>1
  <2>0. /\ boot + faults \in Int /\ boot' + faults' \in Int /\ taken[i][d] \in Int
        /\ boot' + faults' >= boot + faults
    <3>1. boot + faults \in Int
      BY <1>1
    <3>2. boot' + faults' \in Int
      BY <1>1
    <3>3. taken[i][d] \in Int
      BY <1>1
    <3>4. boot' + faults' >= boot + faults
      OBVIOUS
    <3> QED BY <3>1, <3>2, <3>3, <3>4
  <2>3. taken'[i][d] <= boot' + faults'
    BY <2>0, <2>1, <2>2
  <2>4. ASSUME taken'[i][d] = boot' + faults' PROVE Settled(i, d)'
    <3>1. taken[i][d] = boot + faults /\ ~(boot' + faults' >= boot + faults + 1)
      BY <2>0, <2>1, <2>2, <2>4
    <3>2. Settled(i, d)
      BY <2>1, <3>1
    <3> QED
      BY <1>3, <3>1, <3>2 DEF Settled, Pending
  <2> QED
    BY <2>3, <2>4
<1> QED
  BY <1>4, <1>5, <1>6, <1>7 DEF OverviewInv, CountInv

\* An overview is begun only when that of the day is not settled.
LEMMA OverviewTaken ==
  ASSUME TypeOK, TypeOK', OverviewInv, NEW i \in Instruments, VisitOverview(i)
  PROVE  OverviewInv'
<1>1. /\ boot \in Nat /\ faults \in Nat /\ t.day \in Days /\ t.day \in Int /\ day \in Int
      /\ \A j \in Instruments, d \in Days : taken[j][d] \in Nat
      /\ \A d \in Days : d \in Int
  BY CounterTypes
<1>2. /\ pc = "tick" /\ pc' = "overview" /\ i = Min(todo) /\ UNCHANGED <<todo, scheds, day, boot, faults>>
      /\ Windowed(i) /\ Active(i).last # t.day
      /\ t' = [t EXCEPT !.sched = Active(i).id]
      /\ taken' = [taken EXCEPT ![i][t.day] = @ + 1]
  BY DEF VisitOverview, Visiting, OverviewDue, clock, config
<1>3. t'.day = t.day /\ t'.sched = Active(i).id
  BY <1>2 DEF TypeOK, Tick
<1>4. \A j \in Instruments : (Windowed(j)' <=> Windowed(j)) /\ Active(j)' = Active(j)
  BY <1>2, ActiveSame
<1>5. Active(i).last \in Int /\ Active(i).last < t.day
  <2>1. Active(i).last \in Int
    BY <1>2, ActiveRow DEF Row, Days
  <2>2. Active(i).last <= t.day
    BY <1>2, ActiveRow DEF OverviewInv, DatesPast, Active
  <2> QED
    BY <1>1, <1>2, <2>1, <2>2
<1>6. IdsDiffer' /\ DatesPast'
  BY <1>2, <1>3 DEF OverviewInv, IdsDiffer, DatesPast
<1>7. ASSUME NEW j \in Instruments, NEW d \in Days, j # i \/ d # t.day
      PROVE  taken'[j][d] = taken[j][d]
  BY <1>2, <1>7 DEF TypeOK
<1>8. taken'[i][t.day] = taken[i][t.day] + 1
  BY <1>1, <1>2 DEF TypeOK
<1>9. PendingInv'
  <2>1. ASSUME NEW j \in Instruments, ~Windowed(j)' PROVE Untaken(j)'
    <3>1. j # i /\ Untaken(j)
      BY <1>2, <1>4, <2>1 DEF OverviewInv, PendingInv
    <3> QED
      BY <1>7, <3>1 DEF Untaken
  <2> QED
    BY <1>2, <1>3, <1>4, <2>1 DEF PendingInv
<1>10. ASSUME NEW j \in Instruments, NEW d \in Days
       PROVE  taken'[j][d] <= boot' + faults' /\ (taken'[j][d] = boot' + faults' => Settled(j, d)')
  <2>1. taken[j][d] <= boot + faults /\ (taken[j][d] = boot + faults => Settled(j, d))
    BY DEF OverviewInv, CountInv
  <2>2. CASE j # i \/ d # t.day
    <3>1. Settled(j, d) => Settled(j, d)'
      BY <1>2, <1>4 DEF Settled, Pending
    <3> QED
      BY <1>1, <1>2, <1>7, <2>1, <2>2, <3>1
  <2>3. CASE j = i /\ d = t.day
    <3>1. ~Settled(j, d) /\ Settled(j, d)'
      BY <1>1, <1>2, <1>3, <1>5, <2>3 DEF Settled, Pending
    <3> QED
      BY <1>1, <1>2, <1>8, <2>1, <2>3, <3>1
  <2> QED
    BY <2>2, <2>3
<1> QED
  BY <1>6, <1>9, <1>10 DEF OverviewInv, CountInv

\* The commit of the date settles the overview; a commit that finds the row
\* deleted has nothing to settle.
LEMMA OverviewCommitted ==
  ASSUME TypeOK, TypeOK', OverviewInv, OverviewCommit
  PROVE  OverviewInv'
<1>0. PICK i \in Instruments : i = Min(todo)
  BY DEF OverviewInv, PendingInv, OverviewCommit
<1> DEFINE rows == {k \in DOMAIN scheds[i] : scheds[i][k].id = t.sched}
<1>1. /\ pc = "overview" /\ UNCHANGED <<day, boot, faults, taken>>
      /\ (Windowed(i) /\ Active(i).id = t.sched) \/ Untaken(i)
  BY <1>0 DEF OverviewInv, PendingInv, OverviewCommit, clock
<1>2. /\ boot \in Nat /\ boot >= 1 /\ faults \in Nat /\ t.day \in Days /\ t.day \in Int /\ day \in Int
      /\ \A j \in Instruments, d \in Days : taken[j][d] \in Nat
      /\ \A d \in Days : d \in Int
  BY CounterTypes
<1>3. ASSUME Windowed(i), Active(i).id = t.sched
      PROVE  rows = {Min(ActiveIndex(i))} /\ Min(rows) = Min(ActiveIndex(i))
  <2>1. Min(ActiveIndex(i)) \in rows
    BY <1>1, <1>3, ActiveRow DEF Active
  <2>2. \A k, l \in rows : k = l
    BY <1>1 DEF OverviewInv, IdsDiffer
  <2>3. rows = {Min(ActiveIndex(i))}
    BY <2>1, <2>2
  <2>4. rows \in SUBSET Nat
    <3>1. scheds[i] \in Seq(Row)
      BY <1>1 DEF TypeOK
    <3> QED
      BY <3>1
  <2>5. Min(rows) \in rows
    BY <2>1, <2>4, MinNat
  <2> QED
    BY <2>3, <2>5
<1> HIDE DEF rows
<1>4. ASSUME rows = {}, pc' = "idle", UNCHANGED scheds
      PROVE  OverviewInv'
  <2>1. Untaken(i)
    BY <1>1, <1>3, <1>4
  <2>2. \A j \in Instruments : (Windowed(j)' <=> Windowed(j)) /\ Active(j)' = Active(j)
    BY <1>4, ActiveSame
  <2>3. IdsDiffer' /\ DatesPast' /\ PendingInv'
    BY <1>0, <1>1, <1>4, <2>2 DEF OverviewInv, IdsDiffer, DatesPast, PendingInv, Untaken
  <2>4. ASSUME NEW j \in Instruments, NEW d \in Days
        PROVE  taken'[j][d] <= boot' + faults' /\ (taken'[j][d] = boot' + faults' => Settled(j, d)')
    <3>1. taken[j][d] <= boot + faults /\ (taken[j][d] = boot + faults => Settled(j, d))
      BY DEF OverviewInv, CountInv
    <3>2. CASE j = i
      BY <1>1, <1>2, <2>1, <3>2 DEF Untaken
    <3>3. CASE j # i
      BY <1>0, <1>1, <2>2, <3>1, <3>3 DEF Settled, Pending
    <3> QED
      BY <3>2, <3>3
  <2> QED
    BY <2>3, <2>4 DEF OverviewInv, CountInv
<1>5. ASSUME rows # {}, scheds' = [scheds EXCEPT ![i][Min(rows)].last = t.day],
             pc' = "tick", t' = [t EXCEPT !.sched = 0]
      PROVE  OverviewInv'
  <2>1. Min(rows) \in DOMAIN scheds[i]
    <3>1. scheds[i] \in Seq(Row)
      BY <1>1 DEF TypeOK
    <3>2. rows \in SUBSET Nat /\ rows \subseteq DOMAIN scheds[i]
      BY <3>1 DEF rows
    <3> QED
      BY <1>5, <3>2, MinNat
  <2>2. /\ scheds'[i] = [scheds[i] EXCEPT ![Min(rows)].last = t.day]
        /\ \A j \in Instruments \ {i} : scheds'[j] = scheds[j]
    BY <1>1, <1>5 DEF TypeOK
  <2>3. /\ DOMAIN scheds'[i] = DOMAIN scheds[i]
        /\ \A n \in DOMAIN scheds[i] :
             /\ scheds'[i][n].id = scheds[i][n].id
             /\ scheds'[i][n].last = IF n = Min(rows) THEN t.day ELSE scheds[i][n].last
        /\ (Windowed(i)' <=> Windowed(i))
        /\ Windowed(i) =>
             /\ Active(i)'.id = Active(i).id
             /\ Active(i)'.last = IF Min(rows) = Min(ActiveIndex(i)) THEN t.day ELSE Active(i).last
    BY <1>1, <1>2, <2>1, <2>2, ActiveDated
  <2>4. \A j \in Instruments \ {i} : (Windowed(j)' <=> Windowed(j)) /\ Active(j)' = Active(j)
    BY <2>2, ActiveSame
  <2>5. t'.day = t.day
    BY <1>5 DEF TypeOK, Tick
  <2>6. IdsDiffer'
    <3> SUFFICES ASSUME NEW j \in Instruments, NEW k \in DOMAIN scheds'[j], NEW l \in DOMAIN scheds'[j],
                        scheds'[j][k].id = scheds'[j][l].id
                 PROVE  k = l
      BY DEF IdsDiffer
    <3>1. CASE j = i
      BY <1>1, <2>3, <3>1 DEF OverviewInv, IdsDiffer
    <3>2. CASE j # i
      BY <2>2, <3>2 DEF OverviewInv, IdsDiffer
    <3> QED
      BY <3>1, <3>2
  <2>7. DatesPast'
    <3>1. t.day <= day /\ \A j \in Instruments : \A k \in DOMAIN scheds[j] :
                             scheds[j][k].last <= day /\ scheds[j][k].last <= t.day
      BY <1>1 DEF OverviewInv, DatesPast
    <3>2. ASSUME NEW j \in Instruments, NEW k \in DOMAIN scheds'[j]
          PROVE  scheds'[j][k].last <= day /\ scheds'[j][k].last <= t.day
      <4>1. CASE j = i
        BY <1>1, <1>2, <2>3, <3>1, <4>1
      <4>2. CASE j # i
        BY <2>2, <3>1, <4>2
      <4> QED
        BY <4>1, <4>2
    <3> QED
      BY <1>1, <2>5, <3>1, <3>2 DEF DatesPast
  <2>8. PendingInv'
    <3>1. \A j \in Instruments : (Windowed(j)' <=> Windowed(j))
      BY <2>3, <2>4
    <3> QED
      BY <1>1, <1>5, <3>1 DEF OverviewInv, PendingInv, Untaken
  <2>9. ASSUME NEW j \in Instruments, NEW d \in Days
        PROVE  taken'[j][d] <= boot' + faults' /\ (taken'[j][d] = boot' + faults' => Settled(j, d)')
    <3>1. taken[j][d] <= boot + faults /\ (taken[j][d] = boot + faults => Settled(j, d))
      BY DEF OverviewInv, CountInv
    <3>2. CASE j # i
      BY <1>0, <1>1, <2>4, <3>1, <3>2 DEF Settled, Pending
    <3>3. CASE j = i /\ Untaken(i)
      BY <1>1, <1>2, <3>3 DEF Untaken
    <3>4. CASE j = i /\ Windowed(i) /\ Active(i).id = t.sched
      <4>1. Windowed(i)' /\ Active(i)'.last = t.day
        BY <1>3, <2>3, <3>4
      <4>2. Active(i).last <= t.day /\ Active(i).last \in Int
        BY <1>1, <3>4, ActiveRow, RowDates DEF OverviewInv, DatesPast, Active
      <4>3. Settled(j, d) => t.day >= d
        BY <1>0, <1>2, <3>4, <4>2 DEF Settled, Pending
      <4>4. Settled(j, d) => Settled(j, d)'
        BY <3>4, <4>1, <4>3 DEF Settled
      <4> QED
        BY <1>1, <3>1, <4>4
    <3> QED
      BY <1>1, <3>2, <3>3, <3>4
  <2> QED
    BY <2>6, <2>7, <2>8, <2>9 DEF OverviewInv, CountInv
<1> QED
  BY <1>0, <1>4, <1>5 DEF OverviewCommit, rows

\* A new schedule is appended with an id of its own and no overview, so the
\* schedule that was active stays so.
LEMMA ScheduleCreated ==
  ASSUME TypeOK, TypeOK', OverviewInv, NEW i \in Instruments, CreateSchedule(i)
  PROVE  OverviewInv'
<1>1. PICK s \in Templates, id \in Ids :
        /\ \A k \in DOMAIN scheds[i] : scheds[i][k].id # id
        /\ scheds' = [scheds EXCEPT ![i] = Append(@, [id |-> id, s |-> s, last |-> -1])]
  BY DEF CreateSchedule
<1> DEFINE e == [id |-> id, s |-> s, last |-> -1]
           n == Len(scheds[i])
<1>2. e \in Row /\ e.id = id /\ e.last = -1
  BY DEF Row
<1> HIDE DEF e
<1>3. /\ scheds'[i] = Append(scheds[i], e)
      /\ \A j \in Instruments \ {i} : scheds'[j] = scheds[j]
  BY <1>1 DEF TypeOK, e
<1>4. /\ scheds[i] \in Seq(Row) /\ n \in Nat /\ DOMAIN scheds[i] = 1..n
      /\ DOMAIN scheds'[i] = 1..(n + 1) /\ scheds'[i][n + 1] = e
      /\ \A k \in 1..n : scheds'[i][k] = scheds[i][k]
  <2>1. scheds[i] \in Seq(Row)
    BY DEF TypeOK
  <2> QED
    BY <1>2, <1>3, <2>1
<1> HIDE DEF n
<1>5. UNCHANGED <<day, boot, faults, pc, todo, t, taken>>
  BY DEF CreateSchedule, clock, loop
<1>6. /\ boot \in Nat /\ boot >= 1 /\ faults \in Nat /\ t.day \in Int /\ t.day >= 0
      /\ day \in Int /\ day >= 0
      /\ \A j \in Instruments, d \in Days : taken[j][d] \in Nat
  <2>1. t.day \in Days /\ day \in Days
    BY DEF TypeOK, Tick
  <2> QED
    BY <2>1, CounterTypes, BoundsAssumption DEF Days
<1>7. /\ Windowed(i) => Windowed(i)' /\ Active(i)' = Active(i)
      /\ \A j \in Instruments \ {i} : (Windowed(j)' <=> Windowed(j)) /\ Active(j)' = Active(j)
  BY <1>2, <1>3, ActiveAppended, ActiveSame
<1>8. IdsDiffer'
  <2> SUFFICES ASSUME NEW j \in Instruments, NEW k \in DOMAIN scheds'[j], NEW l \in DOMAIN scheds'[j],
                      scheds'[j][k].id = scheds'[j][l].id
               PROVE  k = l
    BY DEF IdsDiffer
  <2>1. CASE j = i
    <3>1. \A m \in 1..n : scheds[i][m].id # id
      BY <1>1, <1>4
    <3>2. k \in 1..n \/ k = n + 1
      BY <1>4, <2>1
    <3>3. l \in 1..n \/ l = n + 1
      BY <1>4, <2>1
    <3>4. \A a, b \in 1..n : scheds[i][a].id = scheds[i][b].id => a = b
      BY <1>4 DEF OverviewInv, IdsDiffer
    <3> QED
      BY <1>2, <1>4, <2>1, <3>1, <3>2, <3>3, <3>4
  <2>2. CASE j # i
    BY <1>3, <2>2 DEF OverviewInv, IdsDiffer
  <2> QED
    BY <2>1, <2>2
<1>9. DatesPast'
  <2>1. ASSUME NEW j \in Instruments, NEW k \in DOMAIN scheds'[j]
        PROVE  /\ scheds'[j][k].last <= day
               /\ pc \in {"tick", "overview"} => scheds'[j][k].last <= t.day
    <3>1. CASE j # i
      BY <1>3, <3>1 DEF OverviewInv, DatesPast
    <3>2. CASE j = i /\ k \in 1..n
      BY <1>4, <3>2 DEF OverviewInv, DatesPast
    <3>3. CASE j = i /\ k = n + 1
      BY <1>2, <1>4, <1>6, <3>3
    <3> QED
      BY <1>4, <3>1, <3>2, <3>3
  <2> QED
    BY <1>5, <2>1 DEF OverviewInv, DatesPast
<1>10. PendingInv'
  <2>1. \A j \in Instruments : ~Windowed(j)' => ~Windowed(j)
    BY <1>7
  <2>2. \A j \in Instruments : Windowed(j) => Windowed(j)' /\ Active(j)' = Active(j)
    BY <1>7
  <2> QED
    BY <1>5, <2>1, <2>2 DEF OverviewInv, PendingInv, Untaken
<1>11. ASSUME NEW j \in Instruments, NEW d \in Days
       PROVE  taken'[j][d] <= boot' + faults' /\ (taken'[j][d] = boot' + faults' => Settled(j, d)')
  <2>1. taken[j][d] <= boot + faults /\ (taken[j][d] = boot + faults => Settled(j, d))
    BY DEF OverviewInv, CountInv
  <2>2. Settled(j, d) => Settled(j, d)'
    BY <1>5, <1>7 DEF Settled, Pending
  <2> QED
    BY <1>5, <2>1, <2>2
<1> QED
  BY <1>8, <1>9, <1>10, <1>11 DEF OverviewInv, CountInv

\* Deleting a schedule starts the count of its instrument anew.
LEMMA ScheduleDeleted ==
  ASSUME TypeOK, TypeOK', OverviewInv, NEW i \in Instruments, DeleteSchedule(i)
  PROVE  OverviewInv'
<1>1. PICK k \in DOMAIN scheds[i] :
        /\ scheds' = [scheds EXCEPT ![i] = RemoveAt(@, k)]
        /\ taken' = [taken EXCEPT ![i] = [d \in Days |-> 0]]
  BY DEF DeleteSchedule
<1>2. /\ scheds'[i] = RemoveAt(scheds[i], k) /\ taken'[i] = [d \in Days |-> 0]
      /\ \A j \in Instruments \ {i} : scheds'[j] = scheds[j] /\ taken'[j] = taken[j]
  BY <1>1 DEF TypeOK
<1>3. UNCHANGED <<day, boot, faults, pc, todo, t>>
  BY DEF DeleteSchedule, clock, loop
<1>4. /\ boot \in Nat /\ boot >= 1 /\ faults \in Nat
  BY CounterTypes
<1>5. Untaken(i)'
  BY <1>2 DEF Untaken
<1>6. \A j \in Instruments \ {i} :
        (Windowed(j)' <=> Windowed(j)) /\ Active(j)' = Active(j) /\ (Untaken(j)' <=> Untaken(j))
  BY <1>2, ActiveSame DEF Untaken
<1>7. /\ scheds[i] \in Seq(Row) /\ DOMAIN scheds[i] = 1..Len(scheds[i]) /\ Len(scheds[i]) \in Nat
      /\ DOMAIN scheds'[i] = 1..(Len(scheds[i]) - 1)
      /\ \A m \in DOMAIN scheds'[i] : scheds'[i][m] = scheds[i][IF m < k THEN m ELSE m + 1]
  <2>1. scheds[i] \in Seq(Row)
    BY DEF TypeOK
  <2>2. /\ RemoveAt(scheds[i], k) \in Seq(Row)
        /\ Len(RemoveAt(scheds[i], k)) = Len(scheds[i]) - 1
        /\ \A m \in DOMAIN RemoveAt(scheds[i], k) :
             RemoveAt(scheds[i], k)[m] = scheds[i][IF m < k THEN m ELSE m + 1]
    BY <2>1, RemoveAtRows
  <2> QED
    BY <1>2, <2>1, <2>2
<1>8. IdsDiffer'
  <2> SUFFICES ASSUME NEW j \in Instruments, NEW a \in DOMAIN scheds'[j], NEW b \in DOMAIN scheds'[j],
                      scheds'[j][a].id = scheds'[j][b].id
               PROVE  a = b
    BY DEF IdsDiffer
  <2>1. CASE j = i
    <3> DEFINE p == IF a < k THEN a ELSE a + 1
               q == IF b < k THEN b ELSE b + 1
    <3>1. a \in Int /\ b \in Int /\ k \in Int /\ p \in DOMAIN scheds[i] /\ q \in DOMAIN scheds[i]
      BY <1>7, <2>1
    <3>2. scheds[i][p].id = scheds[i][q].id
      BY <1>7, <2>1
    <3>3. p = q
      BY <3>1, <3>2 DEF OverviewInv, IdsDiffer
    <3> QED
      BY <3>1, <3>3
  <2>2. CASE j # i
    BY <1>2, <2>2 DEF OverviewInv, IdsDiffer
  <2> QED
    BY <2>1, <2>2
<1>9. DatesPast'
  <2>1. ASSUME NEW j \in Instruments, NEW a \in DOMAIN scheds'[j]
        PROVE  /\ scheds'[j][a].last <= day
               /\ pc \in {"tick", "overview"} => scheds'[j][a].last <= t.day
    <3>1. CASE j # i
      BY <1>2, <3>1 DEF OverviewInv, DatesPast
    <3>2. CASE j = i
      <4>1. PICK p \in DOMAIN scheds[i] : scheds'[i][a] = scheds[i][p]
        <5>1. (IF a < k THEN a ELSE a + 1) \in DOMAIN scheds[i]
          BY <1>7, <3>2
        <5> QED
          BY <1>7, <3>2, <5>1
      <4> QED
        BY <3>2, <4>1 DEF OverviewInv, DatesPast
    <3> QED
      BY <3>1, <3>2
  <2> QED
    BY <1>3, <2>1 DEF OverviewInv, DatesPast
<1>10. PendingInv'
  BY <1>3, <1>5, <1>6 DEF OverviewInv, PendingInv
<1>11. ASSUME NEW j \in Instruments, NEW d \in Days
       PROVE  taken'[j][d] <= boot' + faults' /\ (taken'[j][d] = boot' + faults' => Settled(j, d)')
  <2>1. CASE j = i
    BY <1>3, <1>4, <1>5, <2>1 DEF Untaken
  <2>2. CASE j # i
    <3>1. taken[j][d] <= boot + faults /\ (taken[j][d] = boot + faults => Settled(j, d))
      BY DEF OverviewInv, CountInv
    <3>2. Settled(j, d) => Settled(j, d)'
      BY <1>3, <1>6, <2>2 DEF Settled, Pending
    <3> QED
      BY <1>2, <1>3, <2>2, <3>1, <3>2
  <2> QED
    BY <2>1, <2>2
<1> QED
  BY <1>8, <1>9, <1>10, <1>11 DEF OverviewInv, CountInv

\* Every step keeps the account of the overviews.
LEMMA OverviewStep ==
  ASSUME TypeOK, TypeOK', OverviewInv, [Next]_vars
  PROVE  OverviewInv'
<1>0. /\ boot \in Int /\ faults \in Int /\ day \in Int
  BY CounterTypes
<1>1. CASE UNCHANGED vars
  BY <1>0, <1>1, OverviewQuiet DEF vars, clock, config, loop
<1>2. CASE BootRead \/ BootFails \/ SeedOne \/ SeedEnds \/ TickDone
  <2>1. UNCHANGED <<scheds, taken, day, boot>> /\ (UNCHANGED faults \/ faults' = faults + 1)
    BY <1>2 DEF BootRead, BootFails, SeedOne, SeedEnds, TickDone, TickEnd, clock, config
  <2>2. pc # "overview" /\ pc' \in {"down", "seed", "idle"}
    BY <1>2 DEF BootRead, BootFails, SeedOne, SeedEnds, TickDone, TickEnd
  <2>3. day' >= day /\ boot' + faults' >= boot + faults
    BY <1>0, <2>1
  <2> QED
    BY <2>1, <2>2, <2>3, OverviewQuiet
<1>3. CASE TickBegin
  <2>1. /\ UNCHANGED <<scheds, taken, day, boot, faults>> /\ pc = "idle" /\ pc' = "tick"
        /\ t' = [NoTick EXCEPT !.day = day, !.now = now, !.gate_ok = gate]
    BY <1>3 DEF TickBegin, clock, config
  <2>2. t'.day = day
    BY <2>1 DEF NoTick
  <2>3. day' >= day /\ boot' + faults' >= boot + faults
    BY <1>0, <2>1
  <2> QED
    BY <2>1, <2>2, <2>3, OverviewQuiet
<1>4. CASE OverviewCommit
  BY <1>4, OverviewCommitted
<1>5. ASSUME NEW i \in Instruments, Visit(i) PROVE OverviewInv'
  <2>1. CASE VisitOverview(i)
    BY <2>1, OverviewTaken
  <2>2. CASE VisitStart(i) \/ VisitStop(i) \/ VisitNothing(i) \/ VisitRaises(i)
    <3>1. /\ UNCHANGED <<scheds, taken, day, boot, faults>> /\ pc = "tick"
          /\ \/ pc' = "tick" /\ UNCHANGED t
             \/ pc' = "idle"
      BY <2>2 DEF VisitStart, VisitStop, VisitNothing, VisitRaises, Visiting, Visited, TickEnd,
                  clock, config
    <3>2. day' >= day /\ boot' + faults' >= boot + faults
      BY <1>0, <3>1
    <3> QED
      BY <3>1, <3>2, OverviewQuiet
  <2> QED
    BY <1>5, <2>1, <2>2 DEF Visit
<1>6. CASE OverviewCommitFails \/ Crash \/ Reboot
  <2>1. /\ UNCHANGED <<scheds, taken, day>> /\ pc' \in {"down", "idle"}
        /\ \/ UNCHANGED boot /\ faults' = faults + 1
           \/ UNCHANGED faults /\ boot' = boot + 1
    BY <1>6 DEF OverviewCommitFails, Crash, Reboot, ProcessEnds, clock, config
  <2>2. /\ day' >= day /\ boot' + faults' >= boot + faults
        /\ boot' + faults' >= boot + faults + 1
    BY <1>0, <2>1
  <2> QED
    BY <2>1, <2>2, OverviewQuiet
<1>7. ASSUME NEW i \in Instruments, Request(i) PROVE OverviewInv'
  <2>1. CASE CreateSchedule(i)
    BY <2>1, ScheduleCreated
  <2>2. CASE DeleteSchedule(i)
    BY <2>2, ScheduleDeleted
  <2>3. CASE Record(i) \/ Stop(i) \/ UpdateInstrument(i)
    <3>1. UNCHANGED <<scheds, taken, day, boot, faults, pc, todo, t>>
      BY <2>3 DEF Record, Stop, UpdateInstrument, clock, loop
    <3>2. day' >= day /\ boot' + faults' >= boot + faults
      BY <1>0, <3>1
    <3> QED
      BY <3>1, <3>2, OverviewQuiet
  <2> QED
    BY <1>7, <2>1, <2>2, <2>3 DEF Request
<1>8. CASE \/ \E i \in Instruments : RecordingFails(i) \/ Unplugged(i)
           \/ Clock \/ GateFlips
  <2>1. /\ UNCHANGED <<scheds, taken, boot, pc, todo, t>>
        /\ UNCHANGED faults \/ faults' = faults + 1
        /\ UNCHANGED day \/ day' = day + 1
    BY <1>8 DEF RecordingFails, Unplugged, Clock, GateFlips, clock, config, loop
  <2>2. day' >= day /\ boot' + faults' >= boot + faults
    BY <1>0, <2>1
  <2> QED
    BY <2>1, <2>2, OverviewQuiet
<1> QED
  BY <1>1, <1>2, <1>3, <1>4, <1>5, <1>6, <1>7, <1>8, NextCases DEF LoopStep, Environment

\* No overview was taken.
LEMMA OverviewInit == Init => OverviewInv
<1> SUFFICES ASSUME Init PROVE OverviewInv
  OBVIOUS
<1>1. TypeOK
  BY TypeInit
<1>2. PICK st \in Stations : scheds = [i \in Instruments |->
         [k \in DOMAIN st.scheds[i] |-> [id |-> k, s |-> st.scheds[i][k], last |-> -1]]]
  BY DEF Init
<1>3. \A i \in Instruments : \A k \in DOMAIN scheds[i] : scheds[i][k].id = k /\ scheds[i][k].last = -1
  BY <1>2
<1>4. \A i \in Instruments, d \in Days : taken[i][d] = 0
  BY DEF Init
<1>5. pc = "down" /\ day = 0 /\ boot = 1 /\ faults = 0
  BY DEF Init
<1>6. IdsDiffer
  BY <1>3 DEF IdsDiffer
<1>7. DatesPast
  BY <1>3, <1>5 DEF DatesPast
<1>8. PendingInv
  BY <1>4, <1>5 DEF PendingInv, Untaken
<1>9. CountInv
  BY <1>4, <1>5 DEF CountInv
<1> QED
  BY <1>6, <1>7, <1>8, <1>9 DEF OverviewInv

\* An instrument's overview is taken once a day, and once more for each fault
\* or reboot at most, whatever schedules are created and deleted meanwhile: an
\* overview that is counted is stored with the active schedule, under way, or
\* paid for.
THEOREM OverviewOnceTheorem == Spec => []OverviewOnce
<1>1. TypeOK /\ TypeOK' /\ OverviewInv /\ [Next]_vars => OverviewInv'
  BY OverviewStep
<1>2. OverviewInv => OverviewOnce
  BY DEF OverviewInv, CountInv, OverviewOnce
<1> QED
  BY <1>1, <1>2, OverviewInit, TypeCorrect, PTL DEF Spec
=============================================================================
