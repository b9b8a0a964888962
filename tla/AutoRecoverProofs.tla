------------------------- MODULE AutoRecoverProofs -------------------------
(***************************************************************************)
(* The watchdog's types and its budget, for every bound, budget, window    *)
(* and number of restarts of the daemon.                                   *)
(***************************************************************************)
EXTENDS AutoRecover, FiniteSetTheorems, TLAPS

\* Ages grow by one and stay within their range.
LEMMA OlderType ==
  ASSUME NEW a \in 0..AgeCap \cup {Never}
  PROVE  /\ Older(a) \in 0..AgeCap \cup {Never}
         /\ a \in 0..AgeCap => Older(a) \in 0..AgeCap
BY NumberAssumption, NeverAssumption DEF Older, AgeCap

\* Sets of ages within the window are finite.
LEMMA AgesFinite ==
  ASSUME NEW S, S \subseteq 0..Window
  PROVE  IsFiniteSet(S)
<1>1. IsFiniteSet(0..Window) BY FS_Interval, NumberAssumption
<1> QED BY <1>1, FS_Subset

\* Ageing a set of recoveries never adds one.
LEMMA AgedSmaller ==
  ASSUME NEW S \in SUBSET (0..Window)
  PROVE  /\ Aged(S) \in SUBSET (0..Window)
         /\ Cardinality(Aged(S)) <= Cardinality(S)
<1>1. IsFiniteSet(S) BY AgesFinite
<1> DEFINE f == [a \in Aged(S) |-> a - 1]
<1>2. f \in [Aged(S) -> S]
  <2>1. ASSUME NEW b \in Aged(S) PROVE b - 1 \in S
    <3>1. PICK a \in S : b = a + 1 BY DEF Aged
    <3>2. a \in Nat BY NumberAssumption
    <3> QED BY <3>1, <3>2
  <2> QED BY <2>1
<1>3. \A a, b \in Aged(S) : f[a] = f[b] => a = b
  BY NumberAssumption DEF Aged
<1>4. f \in Injection(Aged(S), S)
  BY <1>2, <1>3 DEF Injection, IsInjective
<1>5. Cardinality(Aged(S)) <= Cardinality(S)
  BY <1>1, <1>4, FS_Injection
<1> QED BY <1>5 DEF Aged

\* What consider does keeps the types.
LEMMA ConsiderType ==
  ASSUME TypeOK, NEW u \in 0..AgeCap \cup {Never}, Consider(u)
  PROVE  /\ hist' \subseteq 0..Window /\ log' \subseteq 0..Window
         /\ alerted' \in BOOLEAN /\ dev' \in {"ok", "mute"}
<1>1. CASE UNCHANGED <<hist, log, dev>> /\ alerted' \in BOOLEAN
  BY <1>1 DEF TypeOK
<1>2. CASE hist' = hist \cup {0} /\ log' = log \cup {0} /\ RunHook /\ UNCHANGED alerted
  <2>1. 0 \in 0..Window BY NumberAssumption
  <2> QED BY <1>2, <2>1 DEF TypeOK, RunHook
<1>3. (alerted /\ u = Never) \in BOOLEAN OBVIOUS
<1> QED BY <1>1, <1>2, <1>3, Zenon DEF Consider

\* Every reachable state has the declared types.
THEOREM TypeCorrect == Spec => []TypeOK
<1>1. Init => TypeOK
  <2> SUFFICES ASSUME Init PROVE TypeOK OBVIOUS
  <2>1. since \in 0..AgeCap /\ crashes \in 0..MaxCrashes
    BY NumberAssumption DEF Init, AgeCap
  <2>2. dev \in {"ok", "mute"} BY DEF Init
  <2>3. seen = Never /\ upd = Never /\ hist = {} /\ log = {} BY DEF Init
  <2>4. rec = "idle" /\ desired = FALSE /\ gate = TRUE /\ alerted = FALSE /\ due = FALSE
    BY DEF Init
  <2> QED BY <2>1, <2>2, <2>3, <2>4 DEF TypeOK
<1>2. TypeOK /\ [Next]_vars => TypeOK'
  <2> SUFFICES ASSUME TypeOK, [Next]_vars PROVE TypeOK' OBVIOUS
  <2>0. 0 \in 0..AgeCap BY NumberAssumption DEF AgeCap
  <2>1. CASE UNCHANGED vars BY <2>1 DEF vars, TypeOK
  <2>2. CASE Tick
    <3> DEFINE u == IF \/ desired /\ gate /\ rec \notin Recording
                       \/ ~desired /\ rec = "streaming"
                      THEN 0 ELSE upd
    <3>1. u \in 0..AgeCap \cup {Never} BY <2>0 DEF TypeOK
    <3>2. IF desired /\ gate THEN Consider(u)
          ELSE UNCHANGED <<hist, log, dev, alerted>>
      BY <2>2 DEF Tick
    <3>3. /\ hist' \subseteq 0..Window /\ log' \subseteq 0..Window
          /\ alerted' \in BOOLEAN /\ dev' \in {"ok", "mute"}
      BY <3>1, <3>2, ConsiderType DEF TypeOK
    <3>4. upd' = u /\ UNCHANGED <<desired, gate, seen, crashes>> /\ due' = FALSE
      BY <2>2 DEF Tick
    <3>5. rec' \in Recording \cup {"idle", "error"} /\ since' \in 0..AgeCap
      BY <2>0, <2>2 DEF Tick, TypeOK, Recording
    <3> QED BY <3>1, <3>3, <3>4, <3>5 DEF TypeOK
  <2>3. CASE Handshake BY <2>3 DEF Handshake, TypeOK, Recording
  <2>4. CASE Heartbeat BY <2>0, <2>4 DEF Heartbeat, TypeOK
  <2>5. CASE RunFails BY <2>0, <2>5 DEF RunFails, TypeOK
  <2>6. CASE GoesMute BY <2>6 DEF GoesMute, TypeOK
  <2>7. CASE Elapse
    BY <2>7, OlderType, AgedSmaller DEF Elapse, TypeOK
  <2>8. CASE IntentMoves BY <2>8 DEF IntentMoves, TypeOK
  <2>9. CASE GateMoves BY <2>9 DEF GateMoves, TypeOK
  <2>10. CASE Crash
    <3>1. crashes' \in 0..MaxCrashes
      BY <2>10, NumberAssumption DEF Crash, TypeOK
    <3> QED BY <2>0, <2>10, <3>1 DEF Crash, TypeOK
  <2> QED BY <2>1, <2>2, <2>3, <2>4, <2>5, <2>6, <2>7, <2>8, <2>9, <2>10
    DEF Next
<1> QED BY <1>1, <1>2, PTL DEF Spec

\* Ageing loses no distinction between remembered and forgotten recoveries.
LEMMA AgedDifference ==
  ASSUME NEW S \in SUBSET (0..Window), NEW T \in SUBSET (0..Window), S \subseteq T
  PROVE  Aged(S) \subseteq Aged(T) /\ Aged(T) \ Aged(S) = Aged(T \ S)
<1>1. \A b : b \in Aged(T) \ Aged(S) <=> b \in Aged(T \ S)
  BY NumberAssumption DEF Aged
<1> QED BY <1>1 DEF Aged

\* The cardinality of a set of ages is a number that a subset does not exceed.
LEMMA AgesCardinality ==
  ASSUME NEW T \in SUBSET (0..Window), NEW S \in SUBSET T
  PROVE  /\ Cardinality(S) \in Nat /\ Cardinality(T) \in Nat
         /\ Cardinality(S) <= Cardinality(T)
<1>1. IsFiniteSet(T) /\ IsFiniteSet(S) BY AgesFinite
<1> QED BY <1>1, FS_CardinalityType, FS_Subset

\* A set of ages is not larger than its parts together.
LEMMA AgesSplit ==
  ASSUME NEW T \in SUBSET (0..Window), NEW S \in SUBSET T
  PROVE  Cardinality(T) <= Cardinality(T \ S) + Cardinality(S)
<1>1. IsFiniteSet(T \ S) /\ IsFiniteSet(S) BY AgesFinite
<1>2. T = (T \ S) \cup S /\ (T \ S) \cap S = {} OBVIOUS
<1>3. Cardinality((T \ S) \cup S)
        = Cardinality(T \ S) + Cardinality(S) - Cardinality((T \ S) \cap S)
  BY <1>1, FS_Union
<1>4. Cardinality((T \ S) \cap S) = 0 BY <1>2, FS_EmptySet
<1>5. Cardinality(T \ S) \in Nat /\ Cardinality(S) \in Nat
  BY <1>1, FS_CardinalityType
<1>6. Cardinality((T \ S) \cup S) = Cardinality(T \ S) + Cardinality(S)
  BY <1>3, <1>4, <1>5
<1> QED BY <1>2, <1>5, <1>6

\* The recoveries that the daemon remembers are within the budget, and those
\* it forgot are within one budget for each restart.
BudgetInv ==
  /\ hist \subseteq log
  /\ Cardinality(hist) <= Budget
  /\ Cardinality(log \ hist) <= Budget * crashes

\* consider keeps the memory and the budget.
LEMMA ConsiderBudget ==
  ASSUME TypeOK, BudgetInv, NEW u, Consider(u), UNCHANGED crashes
  PROVE  BudgetInv'
<1>1. CASE UNCHANGED <<hist, log>> BY <1>1 DEF BudgetInv
<1>2. CASE ~Spent /\ hist' = hist \cup {0} /\ log' = log \cup {0}
  <2>1. IsFiniteSet(hist)
    BY AgesFinite DEF TypeOK
  <2>2. Cardinality(hist) \in Nat BY <2>1, FS_CardinalityType
  <2>3. Cardinality(hist) < Budget
    BY <1>2, <2>2, NumberAssumption DEF Spent
  <2>4. Cardinality(hist \cup {0}) <= Cardinality(hist) + 1
    BY <2>1, <2>2, FS_AddElement
  <2>5. Cardinality(hist \cup {0}) \in Nat
    BY <2>1, FS_AddElement, FS_CardinalityType
  <2>6. Cardinality(hist') <= Budget
    BY <1>2, <2>2, <2>3, <2>4, <2>5, NumberAssumption
  <2>7. log' \ hist' \in SUBSET (log \ hist) /\ log \ hist \in SUBSET (0..Window)
    BY <1>2 DEF TypeOK
  <2>8. /\ Cardinality(log' \ hist') \in Nat /\ Cardinality(log \ hist) \in Nat
        /\ Cardinality(log' \ hist') <= Cardinality(log \ hist)
    BY <2>7, AgesCardinality
  <2>9. crashes \in Nat BY NumberAssumption DEF TypeOK
  <2>10. Budget * crashes \in Nat BY <2>9, NumberAssumption
  <2>11. Cardinality(log' \ hist') <= Budget * crashes'
    BY <2>8, <2>10 DEF BudgetInv
  <2> QED BY <1>2, <2>6, <2>11 DEF BudgetInv
<1> QED BY <1>1, <1>2 DEF Consider

\* No span of Window ticks sees more than Budget power-cycles, and as many
\* again for each restart, whatever the device, the operator and the clock do.
THEOREM BudgetTheorem == Spec => []BudgetHeld
<1>1. Init => BudgetInv
  <2> SUFFICES ASSUME Init PROVE BudgetInv OBVIOUS
  <2>1. hist = {} /\ log \ hist = {} /\ crashes = 0 BY DEF Init
  <2> QED BY <2>1, FS_EmptySet, NumberAssumption DEF BudgetInv
<1>2. TypeOK /\ BudgetInv /\ [Next]_vars => BudgetInv'
  <2> SUFFICES ASSUME TypeOK, BudgetInv, [Next]_vars PROVE BudgetInv' OBVIOUS
  <2>a. hist \in SUBSET (0..Window) /\ log \in SUBSET (0..Window) BY DEF TypeOK
  <2>b. crashes \in Nat BY NumberAssumption DEF TypeOK
  <2>c. Budget * crashes \in Nat BY <2>b, NumberAssumption
  <2>1. CASE UNCHANGED vars BY <2>1 DEF vars, BudgetInv
  <2>2. CASE Tick
    BY <2>2, ConsiderBudget DEF Tick, BudgetInv
  <2>3. CASE Elapse
    <3>1. /\ Cardinality(Aged(hist)) <= Cardinality(hist)
          /\ Cardinality(hist) \in Nat /\ Cardinality(Aged(hist)) \in Nat
      BY <2>a, AgedSmaller, AgesCardinality
    <3>2. log \ hist \in SUBSET (0..Window) BY <2>a
    <3>3. /\ Cardinality(Aged(log \ hist)) <= Cardinality(log \ hist)
          /\ Cardinality(log \ hist) \in Nat
          /\ Cardinality(Aged(log \ hist)) \in Nat
      BY <3>2, AgedSmaller, AgesCardinality
    <3>4. Aged(hist) \subseteq Aged(log) /\ Aged(log) \ Aged(hist) = Aged(log \ hist)
      BY <2>a, AgedDifference DEF BudgetInv
    <3>5. hist' = Aged(hist) /\ log' = Aged(log) /\ crashes' = crashes
      BY <2>3 DEF Elapse
    <3>6. Cardinality(hist') <= Budget
      BY <3>1, <3>5, NumberAssumption DEF BudgetInv
    <3>7. Cardinality(Aged(log \ hist)) <= Budget * crashes
      BY <2>c, <3>3 DEF BudgetInv
    <3>8. Cardinality(log' \ hist') <= Budget * crashes'
      BY <3>4, <3>5, <3>7
    <3> QED BY <3>4, <3>5, <3>6, <3>8 DEF BudgetInv
  <2>4. CASE Crash
    <3>1. hist' = {} /\ log' = log /\ crashes' = crashes + 1 BY <2>4 DEF Crash
    <3>4. /\ Cardinality(hist) \in Nat /\ Cardinality(log \ hist) \in Nat
          /\ Cardinality(log) \in Nat
      BY <2>a, AgesCardinality
    <3>6. Cardinality(log) <= Cardinality(log \ hist) + Cardinality(hist)
      BY <2>a, AgesSplit DEF BudgetInv
    <3>7. Budget * (crashes + 1) = Budget * crashes + Budget
      BY <2>b, NumberAssumption
    <3>8. Cardinality(log) <= Budget * crashes'
      BY <2>c, <3>1, <3>4, <3>6, <3>7, NumberAssumption DEF BudgetInv
    <3>9. log' \ hist' = log BY <3>1
    <3> QED BY <3>1, <3>8, <3>9, FS_EmptySet, NumberAssumption DEF BudgetInv
  <2>5. CASE Handshake \/ Heartbeat \/ RunFails \/ GoesMute \/ IntentMoves
            \/ GateMoves
    BY <2>5 DEF Handshake, Heartbeat, RunFails, GoesMute, IntentMoves, GateMoves,
                BudgetInv
  <2> QED BY <2>1, <2>2, <2>3, <2>4, <2>5 DEF Next
<1>3. TypeOK /\ BudgetInv => BudgetHeld
  <2> SUFFICES ASSUME TypeOK, BudgetInv PROVE BudgetHeld OBVIOUS
  <2>1. hist \in SUBSET (0..Window) /\ log \in SUBSET (0..Window) /\ crashes \in Nat
    BY NumberAssumption DEF TypeOK
  <2>3. /\ Cardinality(hist) \in Nat /\ Cardinality(log \ hist) \in Nat
        /\ Cardinality(log) \in Nat
    BY <2>1, AgesCardinality
  <2>5. Cardinality(log) <= Cardinality(log \ hist) + Cardinality(hist)
    BY <2>1, AgesSplit DEF BudgetInv
  <2>6. /\ Budget * (crashes + 1) = Budget * crashes + Budget
        /\ Budget * crashes \in Nat
    BY <2>1, NumberAssumption
  <2> QED BY <2>3, <2>5, <2>6, NumberAssumption DEF BudgetInv, BudgetHeld
<1> QED BY <1>1, <1>2, <1>3, TypeCorrect, PTL DEF Spec

=============================================================================
