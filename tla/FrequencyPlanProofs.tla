------------------------ MODULE FrequencyPlanProofs ------------------------
(***************************************************************************)
(* Proofs about FrequencyPlan: a generated program is sound, and tunes the *)
(* receiver alike after the way through a legacy file.                     *)
(***************************************************************************)
EXTENDS FrequencyPlan, WellFoundedInduction, TLAPS

-----------------------------------------------------------------------------
(* Arithmetic. *)

\* Division with remainder.
LEMMA DivMod ==
  ASSUME NEW a \in Int, NEW b \in Nat \ {0}
  PROVE  /\ a \div b \in Int /\ a % b \in Int
         /\ a = b * (a \div b) + (a % b)
         /\ 0 <= a % b /\ a % b < b
OBVIOUS

\* What RoundHalfEven returns is an integer within a half of a / b.
LEMMA RoundNear ==
  ASSUME NEW a \in Int, NEW b \in Nat \ {0}
  PROVE  /\ RoundHalfEven(a, b) \in Int
         /\ 2 * a - b <= 2 * (b * RoundHalfEven(a, b))
         /\ 2 * (b * RoundHalfEven(a, b)) <= 2 * a + b
<1> DEFINE q == a \div b
           r == a % b
<1>1. q \in Int /\ r \in Int /\ a = b * q + r /\ 0 <= r /\ r < b
  BY DivMod
<1>2. b * (q + 1) = b * q + b /\ b * q \in Int
  BY <1>1
<1>3. q % 2 \in {0, 1}
  BY <1>1
<1>4. CASE 2 * r < b
  <2>1. RoundHalfEven(a, b) = q
    BY <1>4 DEF RoundHalfEven
  <2> HIDE DEF q, r
  <2> QED
    BY <2>1, <1>1, <1>4
<1>5. CASE 2 * r > b
  <2>1. RoundHalfEven(a, b) = q + 1
    BY <1>1, <1>5 DEF RoundHalfEven
  <2> HIDE DEF q, r
  <2> QED
    BY <2>1, <1>1, <1>2, <1>5
<1>6. CASE 2 * r = b
  <2>1. RoundHalfEven(a, b) = q + (q % 2)
    BY <1>1, <1>6 DEF RoundHalfEven
  <2> HIDE DEF q, r
  <2>2. RoundHalfEven(a, b) \in {q, q + 1}
    BY <2>1, <1>1, <1>3
  <2> QED
    BY <2>2, <1>1, <1>2, <1>6
<1> QED
  BY <1>1, <1>4, <1>5, <1>6

\* Multiplication by a positive number keeps the order, both ways.
LEMMA Cancel ==
  ASSUME NEW a \in Int, NEW b \in Int, NEW n \in Nat \ {0}
  PROVE  /\ a <= b <=> a * n <= b * n
         /\ a < b <=> a * n < b * n
<1>1. a <= b => a * n <= b * n
  OBVIOUS
<1>2. a < b => a * n < b * n
  OBVIOUS
<1>3. b <= a => b * n <= a * n
  OBVIOUS
<1>4. b < a => b * n < a * n
  OBVIOUS
<1>5. a * n \in Int /\ b * n \in Int
  OBVIOUS
<1> QED
  BY <1>1, <1>2, <1>3, <1>4, <1>5

\* Quotient and remainder are unique.
LEMMA DivUnique ==
  ASSUME NEW a \in Int, NEW b \in Nat \ {0}, NEW q \in Int, NEW r \in Int,
         a = b * q + r, 0 <= r, r < b
  PROVE  q = a \div b /\ r = a % b
<1> DEFINE p == a \div b
           s == a % b
<1>1. p \in Int /\ s \in Int /\ a = b * p + s /\ 0 <= s /\ s < b
  BY DivMod
<1> HIDE DEF p, s
<1>2. b * p < b * (q + 1) /\ b * q < b * (p + 1)
  BY <1>1
<1>3. p < q + 1 /\ q < p + 1
  BY <1>1, <1>2, Cancel
<1>4. p = q
  BY <1>1, <1>3
<1> QED
  BY <1>1, <1>4 DEF p, s

\* RoundHalfEven depends on the quotient alone.
LEMMA RoundScaled ==
  ASSUME NEW a \in Int, NEW b \in Nat \ {0}, NEW n \in Nat \ {0}
  PROVE  RoundHalfEven(a * n, b * n) = RoundHalfEven(a, b)
<1> DEFINE q == a \div b
           r == a % b
<1>1. q \in Int /\ r \in Int /\ a = b * q + r /\ 0 <= r /\ r < b
  BY DivMod
<1> HIDE DEF q, r
<1>2. a * n \in Int /\ b * n \in Nat \ {0} /\ r * n \in Int
  BY <1>1
<1>3. a * n = (b * n) * q + r * n
  BY <1>1
<1>4. 0 <= r * n /\ r * n < b * n
  BY <1>1, Cancel
<1>5. q = (a * n) \div (b * n) /\ r * n = (a * n) % (b * n)
  BY <1>1, <1>2, <1>3, <1>4, DivUnique
<1>6. /\ 2 * r < b <=> 2 * (r * n) < b * n
      /\ 2 * r > b <=> 2 * (r * n) > b * n
  <2>1. 2 * r \in Int /\ b \in Int /\ (2 * r) * n = 2 * (r * n)
    BY <1>1
  <2> QED
    BY <2>1, <1>1, <1>2, Cancel
<1> QED
  BY <1>5, <1>6 DEF RoundHalfEven, q, r

\* RoundHalfEven is monotone.
LEMMA RoundMonotone ==
  ASSUME NEW a \in Int, NEW c \in Int, NEW b \in Nat \ {0}, a <= c
  PROVE  RoundHalfEven(a, b) <= RoundHalfEven(c, b)
<1>1. CASE a = c
  BY <1>1, RoundNear
<1>2. CASE a < c
  <2> DEFINE x == RoundHalfEven(a, b)
             y == RoundHalfEven(c, b)
  <2>1. x \in Int /\ y \in Int /\ 2 * (b * x) <= 2 * a + b /\ 2 * c - b <= 2 * (b * y)
    BY RoundNear
  <2> HIDE DEF x, y
  <2>2. x * b < (y + 1) * b
    BY <2>1, <1>2
  <2>3. x < y + 1
    BY <2>1, <2>2, Cancel
  <2> QED
    BY <2>1, <2>3 DEF x, y
<1> QED
  BY <1>1, <1>2

\* A frequency and its grid frequency, both times n.
LEMMA SnapNear ==
  ASSUME NEW f \in Int, NEW n \in Nat \ {0}
  PROVE  /\ Snap(f, n) \in {Grid * k : k \in Int}
         /\ Snap(f, n) \in Int
         /\ f - Half * n <= Snap(f, n) * n /\ Snap(f, n) * n <= f + Half * n
<1> DEFINE k == RoundHalfEven(f, Grid * n)
<1>1. Grid = 250 /\ Half = 125 /\ Grid * n \in Nat \ {0}
  BY DEF Grid, Half
<1>2. /\ k \in Int
      /\ 2 * f - Grid * n <= 2 * ((Grid * n) * k)
      /\ 2 * ((Grid * n) * k) <= 2 * f + Grid * n
  BY <1>1, RoundNear
<1>3. Snap(f, n) = Grid * k
  BY DEF Snap
<1> HIDE DEF k
<1>4. (Grid * k) * n = (Grid * n) * k /\ (Grid * n) * k \in Int
  BY <1>1, <1>2
<1> QED
  BY <1>1, <1>2, <1>3, <1>4

\* Rounding to the grid keeps the order.
LEMMA SnapMonotone ==
  ASSUME NEW f \in Int, NEW g \in Int, NEW n \in Nat \ {0}, f <= g
  PROVE  Snap(f, n) <= Snap(g, n)
<1>1. Grid = 250 /\ Grid * n \in Nat \ {0}
  BY DEF Grid
<1>2. /\ RoundHalfEven(f, Grid * n) <= RoundHalfEven(g, Grid * n)
      /\ RoundHalfEven(f, Grid * n) \in Int /\ RoundHalfEven(g, Grid * n) \in Int
  BY <1>1, RoundMonotone, RoundNear
<1> QED
  BY <1>1, <1>2 DEF Snap

\* Rounding does not depend on the unit.
LEMMA SnapScaled ==
  ASSUME NEW f \in Int, NEW n \in Nat \ {0}
  PROVE  Snap(f * n, n) = Snap(f, 1)
<1>1. Grid \in Nat \ {0} /\ Grid * 1 = Grid
  BY DEF Grid
<1>2. RoundHalfEven(f * n, Grid * n) = RoundHalfEven(f, Grid)
  BY <1>1, RoundScaled
<1> QED
  BY <1>1, <1>2 DEF Snap

\* A grid frequency comes back from the file within two units, and exactly
\* when its multiple of the grid is even.
LEMMA GridFormat ==
  ASSUME NEW k \in Int
  PROVE  LET f == FormatMHz(Grid * k)
         IN  /\ f \in Int /\ Grid * k - 2 <= f /\ f <= Grid * k + 2
             /\ k % 2 = 0 => f = Grid * k
BY DEF FormatMHz, Milli, Grid, RoundHalfEven

\* The file keeps the divider and the band of a grid frequency.
LEMMA GridTuned ==
  ASSUME NEW f \in {Grid * k : k \in Int}, NEW ifInit \in IfInits
  PROVE  Tuned(FormatMHz(f), ifInit) = Tuned(f, ifInit)
<1>1. PICK k \in Int : f = 250 * k
  BY DEF Grid
<1> DEFINE g == FormatMHz(f)
<1>2. g \in Int /\ f - 2 <= g /\ g <= f + 2 /\ (k % 2 = 0 => g = f)
  BY <1>1, GridFormat DEF Grid
<1> HIDE DEF g
<1>3. Divider(g, ifInit) = Divider(f, ifInit)
  BY <1>1, <1>2 DEF Divider, Grid, IfInits
<1>4. BandFor(g) = BandFor(f)
  <2>1. g <= 684000 <=> f <= 684000
    BY <1>1, <1>2
  <2>2. g <= 1800000 <=> f <= 1800000
    BY <1>1, <1>2
  <2>3. g > 684000 <=> f > 684000
    BY <1>1, <1>2
  <2> QED
    BY <2>1, <2>2, <2>3 DEF BandFor, LowBand, MidBand
<1> QED
  BY <1>3, <1>4 DEF Tuned, g

-----------------------------------------------------------------------------
(* The inductive invariants. *)

GridFreqs == {Grid * k : k \in Int}
Working == {"loop", "stored", "exported", "imported", "failed"}

TypeOK ==
  /\ req \in Requests
  /\ pc \in Working \cup {"new", "refused"}
  /\ freq \in Int
  /\ plan \in Seq(GridFreqs)
  /\ file \in [channels : Seq(Int), sweeps : BOOLEAN]
  /\ copy \in Seq(Int)
  /\ pc \in Working => Valid
  /\ pc = "new" => plan = <<>>

Shown(s) == [j \in 1 .. Len(s) |-> FormatMHz(s[j])]

\* The file and the copy hold the plan as the file shows it.
CarriedInv ==
  /\ pc = "exported" => file.channels = Shown(plan)
  /\ pc = "imported" => copy = Shown(plan)

-----------------------------------------------------------------------------
(* Types. *)

\* A valid request has a range, a band and a step that are numbers.
LEMMA RequestTypes ==
  ASSUME TypeOK
  PROVE  /\ req.n \in Nat /\ req.pinned \in Nat
         /\ req.start \in Nat /\ req.stop \in Nat
         /\ req.band # NoBand => req.band[1] \in Nat /\ req.band[2] \in Nat
         /\ req.overview \subseteq [at : Nat, amp : Nat]
         /\ Valid => Linear \in Nat \ {0}
<1>1. req \in Requests
  BY DEF TypeOK
<1>2. /\ req.n \in 0 .. MaxChannels /\ req.pinned \in 0 .. MaxChannels
      /\ req.start \in Starts /\ req.stop \in Stops
      /\ req.band \in {NoBand} \cup (Edges \X Edges)
      /\ req.overview \in Sweeps
  BY <1>1 DEF Requests
<1>3. req.n \in Nat /\ req.pinned \in Nat
  BY <1>2, PlanConstants
<1>4. req.start \in Nat /\ req.stop \in Nat
  BY <1>2, PlanConstants
<1>5. req.band # NoBand => req.band[1] \in Nat /\ req.band[2] \in Nat
  BY <1>2, PlanConstants
<1>6. req.overview \subseteq [at : Nat, amp : Nat]
  BY <1>2, PlanConstants
<1>7. Valid => Linear \in Nat \ {0}
  BY <1>3 DEF Valid, Linear
<1> QED
  BY <1>3, <1>4, <1>5, <1>6, <1>7

\* The quietest point is one of the points.
LEMMA QuietestIn ==
  ASSUME NEW w \in SUBSET [at : Nat, amp : Nat], w # {}
  PROVE  Quietest(w) \in w
<1>1. \A x, y \in Nat : y < x => <<y, x>> \in OpToRel(<, Nat)
  BY DEF OpToRel
<1>2. ASSUME NEW S \in SUBSET Nat, S # {}
      PROVE  \E x \in S : \A y \in S : x <= y
  <2>1. \E x \in S : \A y \in S : ~(<<y, x>> \in OpToRel(<, Nat))
    BY <1>2, NatLessThanWellFounded, WFMin
  <2>2. \E x \in S : \A y \in S : ~(y < x)
    BY <1>1, <1>2, <2>1, Zenon
  <2> QED
    BY <2>2
<1> DEFINE amps == {p.amp : p \in w}
<1>3. PICK a \in amps : \A b \in amps : a <= b
  <2>1. amps \in SUBSET Nat /\ amps # {}
    OBVIOUS
  <2> QED
    BY <2>1, <1>2
<1> DEFINE v == {p \in w : p.amp = a}
           ats == {p.at : p \in v}
<1>4. PICK t \in ats : \A b \in ats : t <= b
  <2>1. ats \in SUBSET Nat /\ ats # {}
    BY <1>3
  <2> QED
    BY <2>1, <1>2
<1>5. PICK p \in v : p.at = t
  BY <1>4
<1>6. ASSUME NEW q \in w
      PROVE  p.amp < q.amp \/ (p.amp = q.amp /\ p.at <= q.at)
  <2>1. p.amp = a /\ a <= q.amp /\ a \in Nat /\ q.amp \in Nat
    BY <1>3, <1>5
  <2>2. q.amp = a => p.at <= q.at
    BY <1>4, <1>5
  <2> QED
    BY <2>1, <2>2
<1>7. \E x \in w : \A q \in w : x.amp < q.amp \/ (x.amp = q.amp /\ x.at <= q.at)
  BY <1>5, <1>6
<1> QED
  BY <1>7, Zenon DEF Quietest

\* What Select selects: where the channel starts, and its frequency.
Lo == IF Excluded(freq, Linear) THEN req.band[2] * Linear ELSE freq

\* What a channel that is selected adds to the plan.
LEMMA Selected ==
  ASSUME TypeOK, Select
  PROVE  \E sel \in Int :
           /\ plan' = Append(plan, Snap(sel, Linear))
           /\ Lo \in Int /\ freq' = Lo + Step
           /\ Lo <= sel /\ (sel = Lo \/ sel < Lo + Step)
           /\ sel = Lo \/ ~Excluded(sel, Linear)
<1> DEFINE w == IF req.mode = "quiet" THEN Window(Lo) ELSE {}
           sel == IF w = {} THEN Lo ELSE Quietest(w).at * Linear
<1>1. Valid /\ Linear \in Nat \ {0} /\ freq \in Int
  BY RequestTypes DEF TypeOK, Select, Working
<1>2. Lo \in Int
  BY <1>1, RequestTypes DEF Lo, Excluded
<1>3. plan' = Append(plan, Snap(sel, Linear)) /\ freq' = Lo + Step
  BY DEF Select, Lo
<1>4. CASE w = {}
  BY <1>2, <1>3, <1>4
<1>5. CASE w # {}
  <2> DEFINE p == Quietest(w)
  <2>1. w = Window(Lo)
    BY <1>5
  <2>2. w \subseteq req.overview
    BY <2>1 DEF Window
  <2>3. p \in w
    BY <1>5, <2>2, RequestTypes, QuietestIn
  <2>4. p.at \in Nat
    BY <2>2, <2>3, RequestTypes
  <2>5. /\ Lo <= p.at * Linear /\ p.at * Linear < Lo + Step
        /\ ~Excluded(p.at, 1)
    BY <2>1, <2>3 DEF Window
  <2>6. p.at * Linear \in Int /\ sel = p.at * Linear
    BY <1>1, <1>5, <2>4
  <2>7. ~Excluded(p.at * Linear, Linear)
    <3>1. CASE req.band = NoBand
      BY <3>1 DEF Excluded
    <3>2. CASE req.band # NoBand
      <4>1. req.band[1] \in Nat /\ req.band[2] \in Nat
        BY <3>2, RequestTypes
      <4>2. ~(req.band[1] <= p.at /\ p.at < req.band[2])
        BY <2>4, <2>5, <3>2, <4>1 DEF Excluded
      <4>3. /\ req.band[1] <= p.at <=> req.band[1] * Linear <= p.at * Linear
            /\ p.at < req.band[2] <=> p.at * Linear < req.band[2] * Linear
        BY <1>1, <2>4, <4>1, Cancel
      <4> QED
        BY <4>2, <4>3 DEF Excluded
    <3> QED
      BY <3>1, <3>2
  <2> QED
    BY <1>2, <1>3, <2>5, <2>6, <2>7
<1> QED
  BY <1>4, <1>5

\* Every step keeps the type.
LEMMA TypeStep == TypeOK /\ [Next]_planVars => TypeOK'
<1> SUFFICES ASSUME TypeOK, [Next]_planVars PROVE TypeOK'
  OBVIOUS
<1>1. CASE Generate
  <2>1. CASE Valid
    <3>1. Linear \in Nat \ {0} /\ req.start \in Nat /\ req.pinned \in Nat
      BY <2>1, RequestTypes
    <3>2. Snap(req.start, 1) \in GridFreqs
      BY <3>1, SnapNear DEF GridFreqs
    <3>3. plan' \in Seq(GridFreqs)
      BY <1>1, <2>1, <3>1, <3>2 DEF Generate
    <3>4. freq' \in Int
      BY <1>1, <2>1, <3>1 DEF Generate
    <3>5. Valid'
      BY <1>1, <2>1 DEF Generate, Valid
    <3>6. pc' = "loop" /\ req' = req /\ file' = file /\ copy' = copy
      BY <1>1, <2>1 DEF Generate
    <3> QED
      BY <3>3, <3>4, <3>5, <3>6 DEF TypeOK, Working
  <2>2. CASE ~Valid
    BY <1>1, <2>2 DEF Generate, TypeOK, Working
  <2> QED
    BY <2>1, <2>2
<1>2. CASE Select
  <2>1. PICK sel \in Int : plan' = Append(plan, Snap(sel, Linear)) /\ Lo \in Int
                           /\ freq' = Lo + Step
    BY <1>2, Selected
  <2>2. Valid /\ pc = "loop" /\ Linear \in Nat \ {0} /\ plan \in Seq(GridFreqs)
    BY <1>2, RequestTypes DEF TypeOK, Select, Working
  <2>3. Snap(sel, Linear) \in GridFreqs
    BY <2>2, SnapNear DEF GridFreqs
  <2>4. plan' \in Seq(GridFreqs)
    BY <2>1, <2>2, <2>3
  <2>5. Step \in Int
    BY RequestTypes DEF Step, ExcludedWidth, Larger, Smaller
  <2>6. Valid'
    BY <1>2, <2>2 DEF Select, Valid
  <2>7. req' = req /\ pc' = pc /\ file' = file /\ copy' = copy
    BY <1>2 DEF Select
  <2> QED
    BY <2>1, <2>2, <2>4, <2>5, <2>6, <2>7 DEF TypeOK, Working
<1>3. CASE Store
  BY <1>3 DEF Store, TypeOK, Working, Valid
<1>4. CASE Export
  <2>1. Valid /\ plan \in Seq(GridFreqs) /\ Len(plan) \in Nat
    BY <1>4 DEF Export, TypeOK, Working
  <2>2. \A j \in 1 .. Len(plan) : FormatMHz(plan[j]) \in Int
    <3>1. ASSUME NEW f \in GridFreqs PROVE FormatMHz(f) \in Int
      <4>1. PICK k \in Int : f = Grid * k
        BY DEF GridFreqs
      <4> QED
        BY <4>1, GridFormat
    <3> QED
      BY <2>1, <3>1
  <2>3. [j \in 1 .. Len(plan) |-> FormatMHz(plan[j])] \in Seq(Int)
    BY <2>1, <2>2
  <2>4. file' \in [channels : Seq(Int), sweeps : BOOLEAN]
    BY <1>4, <2>3 DEF Export, FrequencyProgramCfg
  <2> QED
    BY <1>4, <2>1, <2>4 DEF Export, TypeOK, Working, Valid
<1>5. CASE Import
  BY <1>5 DEF Import, TypeOK, Working, Valid
<1>6. CASE UNCHANGED planVars
  BY <1>6 DEF planVars, TypeOK, Valid
<1> QED
  BY <1>1, <1>2, <1>3, <1>4, <1>5, <1>6 DEF Next

\* The request, the plan, the file and the copy have their types; the generator
\* works on valid requests only.
THEOREM TypeCorrect == Spec => []TypeOK
<1>1. Init => TypeOK
  BY DEF Init, TypeOK, Working
<1> QED
  BY <1>1, TypeStep, PTL DEF Spec

-----------------------------------------------------------------------------
(* Tuned alike. *)

\* What was exported, and what was imported again, is the plan as it is shown.
LEMMA CarriedStep == TypeOK /\ CarriedInv /\ [Next]_planVars => CarriedInv'
<1> SUFFICES ASSUME TypeOK, CarriedInv, [Next]_planVars PROVE CarriedInv'
  OBVIOUS
<1>1. CASE Generate
  BY <1>1 DEF Generate, CarriedInv
<1>2. CASE Select
  BY <1>2 DEF Select, CarriedInv
<1>3. CASE Store
  BY <1>3 DEF Store, CarriedInv
<1>4. CASE Export
  BY <1>4 DEF Export, CarriedInv, FrequencyProgramCfg, Shown
<1>5. CASE Import
  BY <1>5 DEF Import, CarriedInv, Shown
<1>6. CASE UNCHANGED planVars
  BY <1>6 DEF planVars, CarriedInv, Shown
<1> QED
  BY <1>1, <1>2, <1>3, <1>4, <1>5, <1>6 DEF Next

\* Whatever the band, the excluded band, the overview and the channel count: a
\* generated program tunes the receiver as before after export_frq and
\* import_frq, because every channel is on the grid of the synthesizer.
THEOREM TunedAlikeTheorem == Spec => []TunedAlike
<1>1. Init => CarriedInv
  BY DEF Init, CarriedInv
<1>2. TypeOK /\ CarriedInv => TunedAlike
  <2> SUFFICES ASSUME TypeOK, CarriedInv, pc = "imported"
               PROVE  /\ Len(copy) = Len(plan)
                      /\ \A j \in 1 .. Len(plan), ifInit \in IfInits :
                           Tuned(copy[j], ifInit) = Tuned(plan[j], ifInit)
    BY DEF TunedAlike
  <2>1. plan \in Seq(GridFreqs) /\ Len(plan) \in Nat
    BY DEF TypeOK
  <2>2. copy = [j \in 1 .. Len(plan) |-> FormatMHz(plan[j])]
    BY DEF CarriedInv, Shown
  <2>3. Len(copy) = Len(plan)
    BY <2>1, <2>2
  <2>4. \A j \in 1 .. Len(plan) : copy[j] = FormatMHz(plan[j]) /\ plan[j] \in GridFreqs
    BY <2>1, <2>2
  <2> QED
    BY <2>3, <2>4, GridTuned DEF GridFreqs
<1> QED
  BY <1>1, <1>2, CarriedStep, TypeCorrect, PTL DEF Spec

-----------------------------------------------------------------------------
(* The plan is sound.  All frequencies are now times Linear. *)

\* The excluded band, which is empty when there is none.
Low  == IF req.band = NoBand THEN 0 ELSE req.band[1] * Linear
High == IF req.band = NoBand THEN 0 ELSE req.band[2] * Linear

\* What lies above f, below the stop and outside the band from low to high.
Free(low, high, stop, f) == stop - f - Larger(0, Smaller(high, stop) - Larger(low, f))
FreeAbove(f) == Free(Low, High, req.stop * Linear, f)

\* Channels that are still to be selected.
Left == req.n - Len(plan)

\* The bounds on what is left for them: as much as they need, and less than
\* one step more, which the lower edge of the excluded band may cut off.
RoomInv ==
  Step > 0 =>
    /\ Left * Step <= FreeAbove(freq) /\ FreeAbove(freq) < Left * Step + Step
    /\ freq < Low => FreeAbove(freq) = Left * Step

\* A selected channel is outside the excluded band and inside the requested one.
Placed(f) ==
  /\ req.band # NoBand => ~(req.band[1] + Half < f /\ f < req.band[2] - Half)
  /\ Step > 0 => req.start - Half <= f /\ f <= Top + Half

Rising == \A j \in 1 .. (Len(plan) - 1) : plan[j] <= plan[j + 1]

ChannelsInv ==
  /\ Len(plan) \in req.pinned .. req.n
  /\ Rising
  /\ \A j \in (req.pinned + 1) .. Len(plan) : Placed(plan[j])

LastInv ==
  Len(plan) = req.n /\ Step > 0 => (Usable(plan[req.n]) - Half) * Linear < 2 * Step

LoopInv ==
  pc = "loop" =>
    /\ ChannelsInv
    /\ req.start * Linear <= freq
    /\ Len(plan) > 0 => plan[Len(plan)] <= Snap(freq, Linear)
    /\ RoomInv
    /\ LastInv

SoundInv == LoopInv /\ PlanSound

\* Free falls, and by no more than the distance.
LEMMA FreeFalls ==
  ASSUME NEW low \in Int, NEW high \in Int, NEW stop \in Int,
         NEW f \in Int, NEW g \in Int, f <= g
  PROVE  /\ Free(low, high, stop, g) <= Free(low, high, stop, f)
         /\ Free(low, high, stop, f) <= Free(low, high, stop, g) + (g - f)
BY DEF Free, Larger, Smaller

\* The excluded band and the usable rest of the requested one, times Linear.
LEMMA Scaled ==
  ASSUME TypeOK, Valid
  PROVE  /\ Linear \in Nat \ {0} /\ Low \in Int /\ High \in Int
         /\ req.start * Linear \in Int /\ req.stop * Linear \in Int
         /\ Step \in Int /\ 0 <= Step
         /\ \A f \in Int : Excluded(f, Linear) <=> Low <= f /\ f < High
         /\ \A f \in Int : Usable(f) \in Int /\ Usable(f) * Linear = FreeAbove(f * Linear)
         /\ FreeAbove(req.start * Linear) = Linear * Step
<1> DEFINE n == Linear
<1>1. n \in Nat \ {0} /\ req.start \in Nat /\ req.stop \in Nat /\ req.start < req.stop
  BY RequestTypes DEF Valid
<1>2. req.start * n \in Int /\ req.stop * n \in Int
  BY <1>1
<1>3. Low \in Int /\ High \in Int
  <2>1. CASE req.band = NoBand
    BY <2>1 DEF Low, High
  <2>2. CASE req.band # NoBand
    BY <1>1, <2>2, RequestTypes DEF Low, High
  <2> QED
    BY <2>1, <2>2
<1>4. Step \in Int /\ 0 <= Step
  BY <1>1, RequestTypes DEF Step, ExcludedWidth, Larger, Smaller
<1>5. ASSUME NEW f \in Int
      PROVE  Excluded(f, Linear) <=> Low <= f /\ f < High
  <2>1. CASE req.band = NoBand
    BY <2>1 DEF Low, High, Excluded
  <2>2. CASE req.band # NoBand
    BY <2>2 DEF Low, High, Excluded
  <2> QED
    BY <2>1, <2>2
<1>6. ASSUME NEW f \in Int
      PROVE  Usable(f) \in Int /\ Usable(f) * n = FreeAbove(f * n)
  <2>1. f * n \in Int
    BY <1>1
  <2>2. CASE req.band = NoBand
    <3>1. Usable(f) = req.stop - f
      BY <1>1, <2>2 DEF Usable, ExcludedWidth
    <3>2. (req.stop - f) * n = req.stop * n - f * n
      BY <1>1
    <3>3. FreeAbove(f * n) = req.stop * n - f * n
      BY <1>2, <2>1, <2>2 DEF FreeAbove, Free, Low, High, Larger, Smaller
    <3> QED
      BY <1>1, <3>1, <3>2, <3>3
  <2>3. CASE req.band # NoBand
    <3> DEFINE a == req.band[1]
               b == req.band[2]
               c == req.stop
               x == Smaller(b, c) - Larger(a, f)
    <3>1. a \in Nat /\ b \in Nat /\ c \in Nat
      BY <1>1, <2>3, RequestTypes
    <3>2. Low = a * n /\ High = b * n
      BY <2>3 DEF Low, High
    <3>3. Usable(f) = c - f - Larger(0, x)
      BY <2>3 DEF Usable, ExcludedWidth
    <3> HIDE DEF a, b, c, n
    <3>4. Smaller(b, c) * n = Smaller(b * n, c * n) /\ Smaller(b, c) \in Int
      BY <1>1, <3>1, Cancel DEF Smaller
    <3>5. Larger(a, f) * n = Larger(a * n, f * n) /\ Larger(a, f) \in Int
      BY <1>1, <3>1, Cancel DEF Larger
    <3>6. x \in Int /\ x * n = Smaller(b * n, c * n) - Larger(a * n, f * n)
      <4>1. (Smaller(b, c) - Larger(a, f)) * n = Smaller(b, c) * n - Larger(a, f) * n
        BY <1>1, <3>4, <3>5
      <4> QED
        BY <4>1, <3>4, <3>5
    <3> HIDE DEF x
    <3>7. Larger(0, x) * n = Larger(0, x * n) /\ Larger(0, x) \in Int
      <4>1. 0 * n = 0 /\ (0 < x <=> 0 * n < x * n)
        BY <1>1, <3>6, Cancel
      <4> QED
        BY <1>1, <3>6, <4>1 DEF Larger
    <3>8. (c - f - Larger(0, x)) * n = c * n - f * n - Larger(0, x * n)
      <4>1. (c - f - Larger(0, x)) * n = c * n - f * n - Larger(0, x) * n
        BY <1>1, <3>1, <3>7
      <4> QED
        BY <4>1, <3>7
    <3>9. FreeAbove(f * n) = c * n - f * n - Larger(0, x * n)
      BY <3>2, <3>6 DEF FreeAbove, Free, c, n
    <3> QED
      BY <3>1, <3>3, <3>7, <3>8, <3>9
  <2> QED
    BY <2>2, <2>3
<1>7. FreeAbove(req.start * n) = n * Step
  <2>1. Step = Usable(req.start) /\ req.start \in Int
    BY <1>1 DEF Step, Usable
  <2>2. Usable(req.start) * n = FreeAbove(req.start * n)
    BY <1>6, <2>1
  <2> QED
    BY <1>1, <1>4, <2>1, <2>2
<1> QED
  BY <1>1, <1>2, <1>3, <1>4, <1>5, <1>6, <1>7

\* Snapping a frequency that lies right moves it by no more than half a step.
LEMMA SnapPlaced ==
  ASSUME TypeOK, Valid, NEW sel \in Int, ~Excluded(sel, Linear),
         Step > 0 => req.start * Linear <= sel /\ sel < req.stop * Linear
  PROVE  Placed(Snap(sel, Linear))
<1> DEFINE n == Linear
           f == Snap(sel, n)
<1>1. n \in Nat \ {0} /\ req.start \in Nat /\ req.stop \in Nat
  BY RequestTypes
<1>2. f \in Int /\ sel - Half * n <= f * n /\ f * n <= sel + Half * n
  BY <1>1, SnapNear
<1>3. Half = 125 /\ Half * n \in Int /\ f * n \in Int
  BY <1>1, <1>2 DEF Half, Grid
<1>4. ASSUME req.band # NoBand
      PROVE  /\ sel < req.band[1] * n => f < req.band[1] + Half
             /\ sel >= req.band[2] * n => req.band[2] - Half <= f
             /\ req.band[1] \in Nat /\ req.band[2] \in Nat
             /\ sel < req.band[1] * n \/ sel >= req.band[2] * n
  <2> DEFINE a == req.band[1]
             b == req.band[2]
  <2>1. a \in Nat /\ b \in Nat /\ a * n \in Int /\ b * n \in Int
    BY <1>1, <1>4, RequestTypes
  <2>2. sel < a * n \/ sel >= b * n
    BY <1>4, <2>1 DEF Excluded
  <2> HIDE DEF a, b, f, n
  <2>3. (a + Half) * n = a * n + Half * n /\ (b - Half) * n = b * n - Half * n
    BY <1>1, <1>3, <2>1
  <2>4. sel < a * n => f * n < (a + Half) * n
    BY <1>2, <1>3, <2>1, <2>3
  <2>5. sel >= b * n => (b - Half) * n <= f * n
    BY <1>2, <1>3, <2>1, <2>3
  <2>6. a + Half \in Int /\ b - Half \in Int
    BY <1>3, <2>1
  <2>7. sel < a * n => f < a + Half
    BY <1>1, <1>2, <2>4, <2>6, Cancel
  <2>8. sel >= b * n => b - Half <= f
    BY <1>1, <1>2, <2>5, <2>6, Cancel
  <2> QED
    BY <2>1, <2>2, <2>7, <2>8 DEF a, b
<1>5. req.band # NoBand => ~(req.band[1] + Half < f /\ f < req.band[2] - Half)
  BY <1>2, <1>3, <1>4
<1>6. ASSUME Step > 0 PROVE req.start - Half <= f
  <2>1. (req.start - Half) * n = req.start * n - Half * n /\ req.start * n \in Int
    BY <1>1, <1>3
  <2>2. (req.start - Half) * n <= f * n
    BY <1>2, <1>3, <1>6, <2>1
  <2>3. req.start - Half \in Int
    BY <1>1, <1>3
  <2> QED
    BY <1>1, <1>2, <2>2, <2>3, Cancel
<1>7. ASSUME Step > 0 PROVE f <= req.stop + Half
  <2>1. (req.stop + Half) * n = req.stop * n + Half * n /\ req.stop * n \in Int
    BY <1>1, <1>3
  <2>2. f * n <= (req.stop + Half) * n
    BY <1>2, <1>3, <1>7, <2>1
  <2>3. req.stop + Half \in Int
    BY <1>1, <1>3
  <2> QED
    BY <1>1, <1>2, <2>2, <2>3, Cancel
<1>8. ASSUME Step > 0 PROVE f <= Top + Half
  <2>1. CASE req.band # NoBand /\ req.band[1] < req.stop /\ req.stop <= req.band[2]
    <3>1. req.stop * n <= req.band[2] * n
      BY <1>1, <1>4, <2>1, Cancel
    <3>2. sel < req.band[1] * n
      BY <1>1, <1>4, <1>8, <2>1, <3>1
    <3> QED
      BY <1>2, <1>3, <1>4, <2>1, <3>2 DEF Top
  <2>2. CASE ~(req.band # NoBand /\ req.band[1] < req.stop /\ req.stop <= req.band[2])
    BY <1>7, <1>8, <2>2 DEF Top
  <2> QED
    BY <2>1, <2>2
<1> QED
  BY <1>5, <1>6, <1>8 DEF Placed

\* What depends on the request alone.
LEMMA SameRequest ==
  ASSUME req' = req
  PROVE  /\ Linear' = Linear /\ Step' = Step /\ Low' = Low
         /\ \A f \in Int : FreeAbove(f)' = FreeAbove(f)
         /\ \A f \in Int : Usable(f)' = Usable(f)
         /\ \A f \in Int : Placed(f)' <=> Placed(f)
<1>1. Linear' = Linear /\ Step' = Step /\ Low' = Low /\ High' = High /\ Top' = Top
  BY DEF Linear, Step, ExcludedWidth, Low, High, Top
<1>2. \A f \in Int : FreeAbove(f)' = FreeAbove(f)
  BY <1>1 DEF FreeAbove
<1>3. \A f \in Int : Usable(f)' = Usable(f)
  BY DEF Usable, ExcludedWidth
<1>4. \A f \in Int : Placed(f)' <=> Placed(f)
  BY <1>1 DEF Placed
<1> QED
  BY <1>1, <1>2, <1>3, <1>4

\* The loop begins with a sound plan.
LEMMA GenerateSound == TypeOK /\ Generate => SoundInv'
<1> SUFFICES ASSUME TypeOK, Generate PROVE SoundInv'
  OBVIOUS
<1>1. CASE ~Valid
  BY <1>1 DEF Generate, SoundInv, LoopInv, PlanSound
<1>2. CASE Valid
  <2> DEFINE g == Snap(req.start, 1)
  <2>1. /\ pc' = "loop" /\ req' = req
        /\ plan' = [j \in 1 .. req.pinned |-> g] /\ freq' = req.start * Linear
    BY <1>2 DEF Generate
  <2>2. /\ req.pinned \in Nat /\ req.n \in Nat /\ req.pinned < req.n /\ req.start \in Nat
        /\ Linear \in Nat \ {0} /\ Linear = req.n - req.pinned
    BY <1>2, RequestTypes DEF Valid, Linear
  <2>3. g \in Int
    <3>1. req.start \in Int /\ 1 \in Nat \ {0}
      BY <2>2
    <3> QED
      BY <3>1, SnapNear
  <2> HIDE DEF g
  <2>4. /\ Len(plan') = req.pinned
        /\ \A j \in 1 .. req.pinned : plan'[j] = g
    BY <2>1, <2>2
  <2>5. ChannelsInv'
    <3>1. Len(plan') \in req.pinned .. req.n
      BY <2>2, <2>4
    <3>2. \A j \in 1 .. (Len(plan') - 1) : plan'[j] <= plan'[j + 1]
      BY <2>2, <2>3, <2>4
    <3>3. (req.pinned + 1) .. Len(plan') = {}
      BY <2>2, <2>4
    <3> QED
      BY <2>1, <3>1, <3>2, <3>3 DEF ChannelsInv, Rising
  <2>6. Len(plan') > 0 => plan'[Len(plan')] <= Snap(freq', Linear)
    <3>1. Snap(freq', Linear) = g
      <4>1. req.start \in Int
        BY <2>2
      <4>2. Snap(req.start * Linear, Linear) = Snap(req.start, 1)
        BY <2>2, <4>1, SnapScaled
      <4> QED
        BY <2>1, <4>2 DEF g
    <3> QED
      BY <2>2, <2>3, <2>4, <3>1
  <2>7. RoomInv'
    <3>1. FreeAbove(freq') = Linear * Step /\ Step \in Int /\ Low \in Int /\ freq' \in Int
      BY <1>2, <2>1, Scaled
    <3>2. Left' = Linear
      BY <2>1, <2>2, <2>4 DEF Left
    <3>3. FreeAbove(freq)' = Linear * Step /\ Step' = Step /\ Low' = Low
      <4>1. Low' = Low /\ High' = High /\ Linear' = Linear /\ Step' = Step
        BY <2>1 DEF Low, High, Linear, Step, ExcludedWidth
      <4> QED
        BY <2>1, <3>1, <4>1 DEF FreeAbove
    <3> QED
      BY <2>2, <3>1, <3>2, <3>3 DEF RoomInv
  <2>8. LastInv'
    BY <2>1, <2>2, <2>4 DEF LastInv
  <2>9. freq' = req'.start * Linear' /\ freq' \in Int /\ Linear' = Linear
    BY <2>1, <2>2 DEF Linear
  <2>10. LoopInv'
    BY <2>5, <2>6, <2>7, <2>8, <2>9 DEF LoopInv
  <2> QED
    BY <2>1, <2>10 DEF SoundInv, PlanSound
<1> QED
  BY <1>1, <1>2

\* A selected channel keeps the plan sound.
LEMMA SelectSound == TypeOK /\ LoopInv /\ Select => SoundInv'
<1> SUFFICES ASSUME TypeOK, LoopInv, Select PROVE SoundInv'
  OBVIOUS
<1> DEFINE n == Linear
           m == Len(plan)
           sum == Lo + Step
<1>1. /\ Valid /\ pc = "loop" /\ pc' = "loop" /\ req' = req /\ m < req.n
      /\ plan \in Seq(GridFreqs) /\ m \in Nat /\ freq \in Int
  BY DEF TypeOK, Select, Working
<1>2. /\ n \in Nat \ {0} /\ Low \in Int /\ High \in Int
      /\ req.start * n \in Int /\ req.stop * n \in Int
      /\ Step \in Int /\ 0 <= Step
      /\ \A f \in Int : Excluded(f, n) <=> Low <= f /\ f < High
      /\ req.n \in Nat /\ req.pinned \in Nat
  BY <1>1, Scaled, RequestTypes
<1>3. PICK sel \in Int :
        /\ plan' = Append(plan, Snap(sel, n))
        /\ Lo \in Int /\ freq' = sum
        /\ Lo <= sel /\ (sel = Lo \/ sel < sum)
        /\ sel = Lo \/ ~Excluded(sel, n)
  BY Selected
<1>4. Lo = IF Low <= freq /\ freq < High THEN High ELSE freq
  <2>1. CASE Excluded(freq, n)
    <3>1. req.band # NoBand
      BY <2>1 DEF Excluded
    <3> QED
      BY <1>1, <1>2, <2>1, <3>1 DEF Lo, High
  <2>2. CASE ~Excluded(freq, n)
    BY <1>1, <1>2, <2>2 DEF Lo
  <2> QED
    BY <2>1, <2>2
<1>5. freq <= Lo /\ ~(Low <= Lo /\ Lo < High)
  BY <1>1, <1>2, <1>3, <1>4
<1>6. ~Excluded(sel, n)
  BY <1>2, <1>3, <1>5
<1> DEFINE f == Snap(sel, n)
<1>7. f \in Int /\ sel - Half * n <= f * n /\ f * n <= sel + Half * n
  BY <1>2, <1>3, SnapNear
<1>8. /\ Len(plan') = m + 1 /\ plan'[m + 1] = f
      /\ \A j \in 1 .. m : plan'[j] = plan[j]
      /\ \A j \in 1 .. m : plan[j] \in Int
  BY <1>1, <1>3 DEF GridFreqs, Grid
<1> HIDE DEF f, m, n
<1>9. /\ m \in req.pinned .. req.n
      /\ \A j \in 1 .. (m - 1) : plan[j] <= plan[j + 1]
      /\ \A j \in (req.pinned + 1) .. m : Placed(plan[j])
      /\ req.start * n <= freq
      /\ m > 0 => plan[m] <= Snap(freq, n)
  BY <1>1 DEF LoopInv, ChannelsInv, Rising, m, n
<1>10. sum \in Int /\ sel <= sum /\ freq <= sel
  BY <1>1, <1>2, <1>3, <1>5
<1>11. f <= Snap(sum, n) /\ Snap(freq, n) <= f /\ Snap(freq, n) \in Int
  BY <1>1, <1>2, <1>10, SnapMonotone, SnapNear DEF f
\* There is room for this channel and for those that are left after it: the
\* excluded band is passed once, and costs less than a step.
<1> DEFINE need == (req.n - m) * Step
<1>12. ASSUME Step > 0
       PROVE  /\ sum <= req.stop * n /\ sel < req.stop * n
              /\ FreeAbove(Lo) < need + Step
              /\ need - Step <= FreeAbove(sum) /\ FreeAbove(sum) < need
              /\ sum < Low => FreeAbove(sum) = need - Step
              /\ need \in Int
  <2>1. req.n - m \in Nat \ {0}
    BY <1>1, <1>2, <1>9
  <2>2. need \in Int /\ Step <= need
    BY <1>2, <1>12, <2>1
  <2>3. /\ need <= FreeAbove(freq) /\ FreeAbove(freq) < need + Step
        /\ freq < Low => FreeAbove(freq) = need
    BY <1>1, <1>12 DEF LoopInv, RoomInv, Left, m
  <2> HIDE DEF need
  <2>4. /\ sum <= req.stop * n
        /\ FreeAbove(Lo) < need + Step
        /\ need - Step <= FreeAbove(sum) /\ FreeAbove(sum) < need
        /\ sum < Low => FreeAbove(sum) = need - Step
    <3> DEFINE stop == req.stop * n
    <3>1. /\ need <= Free(Low, High, stop, freq) /\ Free(Low, High, stop, freq) < need + Step
          /\ freq < Low => Free(Low, High, stop, freq) = need
      BY <2>3 DEF FreeAbove, n
    <3>2. stop \in Int
      BY <1>2
    <3> HIDE DEF stop
    <3>3. /\ Lo + Step <= stop
          /\ Free(Low, High, stop, Lo) < need + Step
          /\ need - Step <= Free(Low, High, stop, Lo + Step)
          /\ Free(Low, High, stop, Lo + Step) < need
          /\ Lo + Step < Low => Free(Low, High, stop, Lo + Step) = need - Step
      <4>1. /\ Low \in Int /\ High \in Int /\ freq \in Int /\ Step \in Int /\ Lo \in Int
            /\ Step > 0
        BY <1>1, <1>2, <1>3, <1>12
      <4> QED
        BY <1>4, <2>2, <3>1, <3>2, <4>1 DEF Free, Larger, Smaller
    <3> QED
      BY <3>3 DEF FreeAbove, n, stop
  <2>5. sel < req.stop * n
    BY <1>2, <1>3, <1>12, <2>4
  <2> QED
    BY <2>2, <2>4, <2>5
<1>13. Placed(f)
  <2>1. Step > 0 => req.start * n <= sel /\ sel < req.stop * n
    BY <1>1, <1>2, <1>9, <1>10, <1>12
  <2> QED
    BY <1>1, <1>6, <2>1, SnapPlaced DEF f, n
<1>14. ASSUME Step > 0, m + 1 = req.n
       PROVE  (Usable(f) - Half) * n < 2 * Step
  <2>1. need = Step
    BY <1>1, <1>2, <1>14
  <2>2. FreeAbove(Lo) < Step + Step
    BY <1>12, <1>14, <2>1
  <2>3. /\ FreeAbove(sel) <= FreeAbove(Lo)
        /\ FreeAbove(sel) \in Int /\ FreeAbove(Lo) \in Int
    <3>1. FreeAbove(sel) <= FreeAbove(Lo)
      BY <1>2, <1>3, FreeFalls DEF FreeAbove, n
    <3>2. \A x \in Int : FreeAbove(x) \in Int
      BY <1>2 DEF FreeAbove, Free, Larger, Smaller, n
    <3> QED
      BY <1>3, <3>1, <3>2
  <2>4. Half * n \in Int /\ f * n \in Int /\ Half \in Int
    BY <1>2, <1>7 DEF Half, Grid
  <2>5. FreeAbove(f * n) <= FreeAbove(sel) + Half * n /\ FreeAbove(f * n) \in Int
    <3>1. FreeAbove(f * n) \in Int
      BY <1>2, <2>4 DEF FreeAbove, Free, Larger, Smaller, n
    <3>2. CASE sel <= f * n
      <4>1. FreeAbove(f * n) <= FreeAbove(sel)
        BY <1>2, <2>4, <3>2, FreeFalls DEF FreeAbove, n
      <4>2. 0 <= Half * n
        BY <1>2 DEF Half, Grid
      <4> QED
        BY <2>3, <2>4, <3>1, <4>1, <4>2
    <3>3. CASE f * n <= sel
      <4>1. FreeAbove(f * n) <= FreeAbove(sel) + (sel - f * n)
        BY <1>2, <2>4, <3>3, FreeFalls DEF FreeAbove, n
      <4> QED
        BY <1>7, <2>3, <2>4, <3>1, <4>1
    <3> QED
      BY <2>4, <3>2, <3>3
  <2>6. Usable(f) \in Int /\ Usable(f) * n = FreeAbove(f * n)
    BY <1>1, <1>7, Scaled DEF n
  <2>7. (Usable(f) - Half) * n = Usable(f) * n - Half * n
    BY <1>2, <2>4, <2>6
  <2> QED
    BY <1>2, <2>2, <2>3, <2>4, <2>5, <2>6, <2>7
\* The next state.
<1> DEFINE p == plan'
<1>15. Linear' = n /\ Step' = Step /\ Low' = Low
  BY <1>1, SameRequest DEF n
<1>16. ChannelsInv'
  <2>1. Len(p) \in req.pinned .. req.n
    BY <1>1, <1>2, <1>8, <1>9
  <2>2. ASSUME NEW j \in 1 .. (Len(p) - 1) PROVE p[j] <= p[j + 1]
    <3>1. CASE j < m
      BY <1>1, <1>8, <1>9, <3>1 DEF m
    <3>2. CASE j = m
      BY <1>1, <1>7, <1>8, <1>9, <1>11, <3>2 DEF m
    <3> QED
      BY <1>1, <1>8, <3>1, <3>2 DEF m
  <2>3. ASSUME NEW j \in (req.pinned + 1) .. Len(p) PROVE Placed(p[j]) /\ p[j] \in Int
    <3>1. CASE j <= m
      BY <1>1, <1>2, <1>8, <1>9, <3>1 DEF m
    <3>2. CASE j = m + 1
      BY <1>7, <1>8, <1>13, <3>2
    <3> QED
      BY <1>1, <1>2, <1>8, <3>1, <3>2 DEF m
  <2>4. \A j \in (req.pinned + 1) .. Len(p) : \E x \in Int : x = p[j] /\ Placed(x)'
    BY <1>1, <2>3, SameRequest
  <2>5. \A j \in (req.pinned + 1) .. Len(p) : Placed(plan[j])'
    BY <1>1, <2>4 DEF Placed
  <2> QED
    BY <1>1, <2>1, <2>2, <2>5 DEF ChannelsInv, Rising
<1>17. req'.start * Linear' <= freq'
  BY <1>1, <1>2, <1>3, <1>9, <1>10, <1>15
<1>18. Len(p) > 0 => p[Len(p)] <= Snap(freq', Linear')
  BY <1>3, <1>8, <1>11, <1>15
<1>19. RoomInv'
  <2>1. Left' = req.n - m - 1
    BY <1>1, <1>2, <1>8 DEF Left, m
  <2>2. Left' * Step = need - Step
    BY <1>1, <1>2, <2>1 DEF m
  <2>3. FreeAbove(freq)' = FreeAbove(sum)
    BY <1>1, <1>3 DEF FreeAbove, Low, High, Linear
  <2> HIDE DEF need, sum
  <2>4. Step > 0 => /\ Left' * Step <= FreeAbove(freq)' /\ FreeAbove(freq)' < Left' * Step + Step
                    /\ freq' < Low => FreeAbove(freq)' = Left' * Step
    BY <1>2, <1>3, <1>12, <2>2, <2>3
  <2> QED
    BY <1>15, <2>4 DEF RoomInv
<1>20. LastInv'
  <2>1. ASSUME Len(p) = req.n, Step > 0
        PROVE  (Usable(plan[req.n])' - Half) * n < 2 * Step
    <3>1. plan'[req.n] = f /\ m + 1 = req.n
      BY <1>8, <2>1
    <3>2. Usable(plan[req.n])' = Usable(f)
      BY <1>1, <3>1 DEF Usable, ExcludedWidth
    <3> QED
      BY <1>14, <2>1, <3>1, <3>2
  <2> QED
    BY <1>1, <1>15, <2>1 DEF LastInv, Half
<1>21. LoopInv'
  BY <1>16, <1>17, <1>18, <1>19, <1>20 DEF LoopInv
<1> QED
  BY <1>1, <1>21 DEF SoundInv, PlanSound

\* Every step keeps the plan sound.
LEMMA SoundStep == TypeOK /\ SoundInv /\ [Next]_planVars => SoundInv'
<1> SUFFICES ASSUME TypeOK, SoundInv, [Next]_planVars PROVE SoundInv'
  OBVIOUS
<1>1. CASE Generate
  BY <1>1, GenerateSound
<1>2. CASE Select
  BY <1>2, SelectSound DEF SoundInv
<1>3. CASE Store
  <2>1. ChannelsInv /\ LastInv /\ Len(plan) = req.n
    BY <1>3 DEF Store, SoundInv, LoopInv
  <2>2. /\ \A j \in 1 .. (req.n - 1) : plan[j] <= plan[j + 1]
        /\ \A j \in (req.pinned + 1) .. req.n : Placed(plan[j])
    BY <2>1 DEF ChannelsInv, Rising
  <2>3. /\ \A j \in (req.pinned + 1) .. req.n :
             req.band # NoBand =>
               ~(req.band[1] + Half < plan[j] /\ plan[j] < req.band[2] - Half)
        /\ Step > 0 =>
             /\ \A j \in (req.pinned + 1) .. req.n :
                  req.start - Half <= plan[j] /\ plan[j] <= Top + Half
             /\ (Usable(plan[req.n]) - Half) * Linear < 2 * Step
    BY <2>1, <2>2 DEF Placed, LastInv
  <2>4. req' = req /\ plan' = plan /\ pc' # "loop"
    BY <1>3 DEF Store
  <2>5. Step' = Step /\ Top' = Top /\ Linear' = Linear /\ Half' = Half
        /\ Usable(plan[req.n])' = Usable(plan[req.n])
    BY <2>4 DEF Step, Top, Linear, Half, Grid, Usable, ExcludedWidth
  <2>6. PlanSound'
    BY <2>1, <2>2, <2>3, <2>4, <2>5 DEF PlanSound
  <2> QED
    BY <2>4, <2>6 DEF SoundInv, LoopInv
<1>4. CASE Export
  BY <1>4 DEF Export, SoundInv, LoopInv, PlanSound
<1>5. CASE Import
  BY <1>5 DEF Import, SoundInv, LoopInv, PlanSound
<1>6. CASE UNCHANGED planVars
  <2>1. req' = req /\ plan' = plan /\ pc' = pc /\ freq' = freq
    BY <1>6 DEF planVars
  <2>2. PlanSound'
    BY <2>1 DEF SoundInv, PlanSound, Step, Top, Linear, Usable, ExcludedWidth
  <2>3. LoopInv'
    BY <2>1 DEF SoundInv, LoopInv, ChannelsInv, Rising, Placed, RoomInv, LastInv, Left,
                FreeAbove, Low, High, Step, Top, Linear, Usable, ExcludedWidth
  <2> QED
    BY <2>2, <2>3 DEF SoundInv
<1> QED
  BY <1>1, <1>2, <1>3, <1>4, <1>5, <1>6 DEF Next

\* For every request: a stored program has its channel count, rises, stays in
\* the requested band and out of the excluded one up to half a grid step, and
\* leaves less than two steps of the usable band (generate_frequencies).
THEOREM PlanSoundTheorem == Spec => []PlanSound
<1>1. Init => SoundInv
  BY DEF Init, SoundInv, LoopInv, PlanSound
<1>2. SoundInv => PlanSound
  BY DEF SoundInv
<1> QED
  BY <1>1, <1>2, SoundStep, TypeCorrect, PTL DEF Spec
=============================================================================
