---------------------------- MODULE FrequencyPlan ----------------------------
(***************************************************************************)
(* A frequency program from the generator to the tuner: POST               *)
(* /programs/generate (services/freqgen.py) selects the channels, export   *)
(* and import (legacy_export.py, legacy_import.py) carry them through a    *)
(* legacy frqXXXXX.cfg, and the Callisto driver turns each channel into    *)
(* the divider and the band of its tuner (drivers/callisto/protocol.py).   *)
(*                                                                         *)
(* Frequencies are integers, in units of 1/4000 MHz: 250 of them are the   *)
(* synthesizer's step of 0.0625 MHz and 4 the last digit that the file     *)
(* shows.  The loop's frequency is kept times linear_n, which makes its    *)
(* step an integer: arithmetic is exact here and in floating point there.  *)
(***************************************************************************)
EXTENDS Integers, Sequences, FiniteSets

CONSTANTS
  Starts, Stops,  \* band edges that an operator may ask for
  Edges,          \* edges of the excluded band
  Sweeps,         \* overviews: sets of points [at, amp]
  MaxChannels     \* bound: n_channels

Grid == 250                       \* SYNTHESIZER_RESOLUTION
Milli == 4                        \* %08.3f
Throughput == 800                 \* _PIX_PER_SEC
IfInits == {150800, 144520}       \* 37.7 and 36.13 MHz: Firmware.if_init
LowBand == 684000                 \* 171 MHz
MidBand == 1800000                \* 450 MHz

NoBand == <<>>
Modes == {"quiet", "even", "other"}
Converters == {"known", "other"}  \* known: direct, usb, lsb or up

ASSUME PlanConstants ==
  /\ Starts \cup Stops \cup Edges \subseteq Nat
  /\ \A o \in Sweeps : IsFiniteSet(o) /\ o \subseteq [at : Nat, amp : Nat]
  /\ MaxChannels \in Nat

\* GenerateIn, without the name.
Requests ==
  [start : Starts, stop : Stops, n : 0 .. MaxChannels, mode : Modes,
   band : {NoBand} \cup (Edges \X Edges), pinned : 0 .. MaxChannels,
   overview : Sweeps, converter : Converters]

VARIABLES
  req,   \* the request
  pc,    \* "new", "loop", "stored", "exported", "imported"; "refused", "failed"
  freq,  \* freq times Linear
  plan,  \* result: the selected frequencies
  file,  \* the exported file: [channels, sweeps]
  copy   \* the frequencies of the imported program

planVars == <<req, pc, freq, plan, file, copy>>

Init ==
  /\ req \in Requests
  /\ pc = "new"
  /\ freq = 0
  /\ plan = <<>> /\ copy = <<>>
  /\ file = [channels |-> <<>>, sweeps |-> TRUE]

-----------------------------------------------------------------------------
(* The generator. *)

Larger(a, b) == IF a < b THEN b ELSE a
Smaller(a, b) == IF a < b THEN a ELSE b

\* Python's round of a / b: to the nearest integer, a half to the even one.
RoundHalfEven(a, b) ==
  LET q == a \div b
      r == a % b
  IN  CASE 2 * r < b -> q
        [] 2 * r > b -> q + 1
        [] OTHER -> q + (q % 2)

\* _snap of f / scale.
Snap(f, scale) == Grid * RoundHalfEven(f, Grid * scale)

\* linear_n: the channels that are not pinned to the start.
Linear == req.n - req.pinned

\* _excluded, for f / scale.
Excluded(f, scale) ==
  req.band # NoBand /\ req.band[1] * scale <= f /\ f < req.band[2] * scale

\* excl_w: how much of the excluded band lies between from and the stop.
ExcludedWidth(from) ==
  IF req.band = NoBand THEN 0
  ELSE Larger(0, Smaller(req.band[2], req.stop) - Larger(req.band[1], from))

\* Mutated form of Step: the excluded width is not taken off.
Step_FullBand == req.stop - req.start

\* step times Linear.
Step == req.stop - req.start - ExcludedWidth(req.start)

\* The checks at the head of generate_frequencies.
Valid ==
  /\ req.n >= 1
  /\ req.start < req.stop
  /\ req.mode # "other"
  /\ req.pinned < req.n

\* generate_frequencies up to its loop; ValueError is a 400.
Generate ==
  /\ pc = "new"
  /\ pc' = IF Valid THEN "loop" ELSE "refused"
  /\ plan' = IF Valid THEN [j \in 1 .. req.pinned |-> Snap(req.start, 1)] ELSE plan
  /\ freq' = IF Valid THEN req.start * Linear ELSE freq
  /\ UNCHANGED <<req, file, copy>>

\* The points of the overview in the bin from lo, and the quietest of them:
\* the points are sorted, and min takes the first.
Window(lo) ==
  {p \in req.overview :
     /\ lo <= p.at * Linear /\ p.at * Linear < lo + Step
     /\ ~Excluded(p.at, 1)}

Quietest(w) ==
  CHOOSE p \in w : \A q \in w : p.amp < q.amp \/ (p.amp = q.amp /\ p.at <= q.at)

\* One channel: skip the excluded band, select, snap, step.
Select ==
  LET lo == IF Excluded(freq, Linear) THEN req.band[2] * Linear ELSE freq
      w == IF req.mode = "quiet" THEN Window(lo) ELSE {}
      sel == IF w = {} THEN lo ELSE Quietest(w).at * Linear
  IN  /\ pc = "loop" /\ Len(plan) < req.n
      /\ plan' = Append(plan, Snap(sel, Linear))
      /\ freq' = lo + Step
      /\ UNCHANGED <<req, pc, file, copy>>

\* generate_program: rf_to_if of every channel must be defined, then the
\* program is saved.
Store ==
  /\ pc = "loop" /\ Len(plan) = req.n
  /\ pc' = IF req.converter = "other" THEN "refused" ELSE "stored"
  /\ UNCHANGED <<req, freq, plan, file, copy>>

-----------------------------------------------------------------------------
(* The frequency file and the tuner. *)

\* Mutated form of FormatMHz: one decimal.
FormatMHz_Tenths(f) == 100 * Milli * RoundHalfEven(f, 100 * Milli)

\* A frequency as the file shows it, with three decimals.
FormatMHz(f) == Milli * RoundHalfEven(f, Milli)

\* build_frequency_program_cfg: one line for each channel, and the sweeps per
\* second, which are shown with a fraction unless n divides 800.
FrequencyProgramCfg(channels) ==
  [channels |-> [j \in 1 .. Len(channels) |-> FormatMHz(channels[j])],
   sweeps |-> Throughput % Len(channels) = 0]

\* export_frq.
Export ==
  /\ pc = "stored"
  /\ file' = FrequencyProgramCfg(plan)
  /\ pc' = "exported"
  /\ UNCHANGED <<req, freq, plan, copy>>

\* parse_frequency_program and import_frq: int() of sweeps with a fraction
\* raises; otherwise the channels are taken in the order of their numbers.
Import ==
  /\ pc = "exported"
  /\ pc' = IF file.sweeps THEN "imported" ELSE "failed"
  /\ copy' = IF file.sweeps THEN file.channels ELSE copy
  /\ UNCHANGED <<req, freq, plan, file>>

\* divider_bytes and band_for: what channel_command writes for a channel.
Divider(f, ifInit) == (f + ifInit) \div Grid
BandFor(f) ==
  CASE f <= LowBand -> 1
    [] f > LowBand /\ f <= MidBand -> 2
    [] OTHER -> 4
Tuned(f, ifInit) == <<Divider(f, ifInit), BandFor(f)>>

Next == Generate \/ Select \/ Store \/ Export \/ Import

Spec == Init /\ [][Next]_planVars

-----------------------------------------------------------------------------
(* Properties. *)

\* The upper end of what the linear channels may use: the excluded band may
\* take the top of the requested one.
Top == IF req.band # NoBand /\ req.band[1] < req.stop /\ req.stop <= req.band[2]
         THEN req.band[1] ELSE req.stop

\* What lies above f in the requested band and outside the excluded one.
Usable(f) == req.stop - f - ExcludedWidth(f)

\* A frequency and the grid frequency it snaps to are at most this far apart.
Half == Grid \div 2

\* A stored program keeps the channel count, rises, stays in the requested band
\* and out of the excluded one ("nothing inside the gap") up to the rounding
\* to the grid, and leaves less than two steps of the usable band above its
\* last channel, wherever the excluded band lies, unless that covers all.
PlanSound ==
  LET linear == (req.pinned + 1) .. req.n
  IN  pc = "stored" =>
        /\ Len(plan) = req.n
        /\ \A j \in 1 .. (req.n - 1) : plan[j] <= plan[j + 1]
        /\ \A j \in linear :
             req.band # NoBand =>
               ~(req.band[1] + Half < plan[j] /\ plan[j] < req.band[2] - Half)
        /\ Step > 0 =>
             /\ \A j \in linear : req.start - Half <= plan[j] /\ plan[j] <= Top + Half
             /\ (Usable(plan[req.n]) - Half) * Linear < 2 * Step

\* A generated program that went out to a legacy file and came back tunes the
\* receiver as before, although the file drops the fourth decimal of the grid:
\* the divider is cut off, not rounded, and the bands have edges.
TunedAlike ==
  pc = "imported" =>
    /\ Len(copy) = Len(plan)
    /\ \A j \in 1 .. Len(plan), ifInit \in IfInits :
         Tuned(copy[j], ifInit) = Tuned(plan[j], ifInit)
=============================================================================
