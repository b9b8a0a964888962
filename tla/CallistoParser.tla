--------------------------- MODULE CallistoParser ---------------------------
(***************************************************************************)
(* The bytes that a Callisto receiver sends, and how the driver reads them *)
(* (drivers/callisto/parser.py and protocol.py).  A byte is a string; the  *)
(* text of a message is one byte here, and a sample has Width digits of    *)
(* base Base (four hexadecimal ones in the code).                          *)
(***************************************************************************)
EXTENDS Integers, FiniteSets, Sequences, SequencesExt

CONSTANTS
  Base, Width,   \* digits of a sample
  Eight, Ten,    \* number of values of an 8-bit and of a 10-bit sample
  EndMarker,     \* END_MARKER, the sample that ends a transmission
  NChannels      \* samples in a sweep

ASSUME WireAssumption ==
  /\ Base \in 3..16 /\ Width \in Nat \ {0} /\ NChannels \in Nat \ {0}
  /\ Eight \in Nat \ {0} /\ Ten \in Nat /\ Ten % Eight = 0 /\ EndMarker \in Nat

HexDigits == <<"0", "1", "2", "3", "4", "5", "6", "7", "8", "9", "A", "B", "C", "D", "E", "F">>
Digits == {HexDigits[k] : k \in 1..Base}
DigitOf(v) == HexDigits[v + 1]

MESSAGE_START == "$"
MESSAGE_END   == "CR"
DATA_START    == "2"
DATA_END      == "&"
EEPROM_READY  == "]"

Line(text) == <<MESSAGE_START, text, MESSAGE_END>>

Power[k \in 0..Width] == IF k = 0 THEN 1 ELSE Base * Power[k - 1]

(* A sample on the wire, and the value of Width digits. *)
Encode(v) == [k \in 1..Width |-> DigitOf((v \div Power[Width - k]) % Base)]

DigitVal == [d \in Digits |-> CHOOSE v \in 0..(Base - 1) : DigitOf(v) = d]
Value(digits) == FoldLeft(LAMBDA acc, d : Base * acc + DigitVal[d], 0, digits)

(* to_8bit *)
To8(value, data10bit) == IF data10bit THEN value \div (Ten \div Eight) ELSE value % Eight

Limit(data10bit) == IF data10bit THEN Ten ELSE Eight

-----------------------------------------------------------------------------
(* Firmware profiles, by what the driver derives from them. *)

Firmwares == {"1.5", "1.7", "1.8", "default"}
Data10bit(fw) == fw # "1.5"

StatusLine == [fw \in {"1.5", "1.7", "1.8"} |->
                 CASE fw = "1.5" -> "ChargePump" [] fw = "1.7" -> "Debug" [] fw = "1.8" -> "V1.8"]

(* detect_firmware: anything unknown is the default profile. *)
DetectFirmware(line) ==
  IF \E fw \in DOMAIN StatusLine : Contains(line, StatusLine[fw])
  THEN CHOOSE fw \in DOMAIN StatusLine : Contains(line, StatusLine[fw])
  ELSE "default"

-----------------------------------------------------------------------------
(* StreamParser.  `sweeps' and `texts' are the items yielded so far, `bad' *)
(* is RecoverableInstrumentError.                                          *)

NewParser(data10bit) ==
  [ten |-> data10bit, in_data |-> FALSE, in_message |-> FALSE, message |-> <<>>,
   hexbuf |-> <<>>, sweep |-> <<>>, sweeps |-> <<>>, texts |-> <<>>, bad |-> FALSE]

ConsumeMessage(p, byte) ==
  IF byte = MESSAGE_END
  THEN [p EXCEPT !.in_message = FALSE, !.message = <<>>, !.texts = Append(@, p.message)]
  ELSE [p EXCEPT !.message = Append(@, byte)]

\* A sample that fits the bit depth; the sweep is yielded when it is complete.
AddSample(p, value) ==
  LET sweep == Append(p.sweep, To8(value, p.ten))
  IN IF Len(sweep) = NChannels
     THEN [p EXCEPT !.hexbuf = <<>>, !.sweep = <<>>, !.sweeps = Append(@, sweep)]
     ELSE [p EXCEPT !.hexbuf = <<>>, !.sweep = sweep]

\* Mutant of ConsumeHex: high bits are clamped, not tested.
ConsumeHex_Clamp(p, byte) ==
  LET hexbuf == Append(p.hexbuf, byte)
      value  == Value(hexbuf)
  IN CASE Len(hexbuf) < Width -> [p EXCEPT !.hexbuf = hexbuf]
       [] OTHER -> IF value = EndMarker THEN [p EXCEPT !.hexbuf = <<>>]
                   ELSE AddSample(p, value % Limit(p.ten))

\* _consume_hex
ConsumeHex(p, byte) ==
  LET hexbuf == Append(p.hexbuf, byte)
      value  == Value(hexbuf)
  IN CASE Len(hexbuf) < Width -> [p EXCEPT !.hexbuf = hexbuf]
       [] OTHER -> IF value = EndMarker THEN [p EXCEPT !.hexbuf = <<>>]
                   ELSE IF value >= Limit(p.ten) THEN [p EXCEPT !.hexbuf = <<>>, !.bad = TRUE]
                   ELSE AddSample(p, value)

\* Mutant of Consume: the byte that starts data starts it anew within data.
Consume_Restart(p, byte) ==
  CASE p.bad -> p
    [] ~p.bad /\ p.in_message -> ConsumeMessage(p, byte)
    [] OTHER ->
         CASE byte = MESSAGE_START -> [p EXCEPT !.in_message = TRUE, !.message = <<>>]
           [] byte = DATA_START -> [p EXCEPT !.in_data = TRUE, !.hexbuf = <<>>, !.sweep = <<>>]
           [] p.in_data /\ byte = DATA_END -> [p EXCEPT !.in_data = FALSE]
           [] p.in_data /\ byte \in Digits \ {DATA_START} -> ConsumeHex(p, byte)
           [] OTHER -> p

\* _consume; the exception leaves the parser as it is.
Consume(p, byte) ==
  CASE p.bad -> p
    [] ~p.bad /\ p.in_message -> ConsumeMessage(p, byte)
    [] OTHER ->
         CASE byte = MESSAGE_START -> [p EXCEPT !.in_message = TRUE, !.message = <<>>]
           [] ~p.in_data /\ byte = DATA_START ->
                [p EXCEPT !.in_data = TRUE, !.hexbuf = <<>>, !.sweep = <<>>]
           [] p.in_data /\ byte = DATA_END -> [p EXCEPT !.in_data = FALSE]
           [] p.in_data /\ byte \in Digits -> ConsumeHex(p, byte)
           [] OTHER -> p

\* feed: a chunk into a parser whose items were taken.
Feed(p, chunk) == FoldLeft(Consume, [p EXCEPT !.sweeps = <<>>, !.texts = <<>>], chunk)

-----------------------------------------------------------------------------
(* The reference: the sweeps in a byte string, by position.                *)

InMessage(b, i) ==
  \E j \in 1..(i - 1) : b[j] = MESSAGE_START /\ \A k \in j..(i - 1) : b[k] # MESSAGE_END

\* Bytes of the data stream: neither a `$' nor anything up to the CR after it.
Plain(b, i) == ~InMessage(b, i) /\ b[i] # MESSAGE_START

InData(b, i) ==
  \E j \in 1..(i - 1) :
    /\ Plain(b, j) /\ b[j] = DATA_START
    /\ \A k \in j..(i - 1) : ~(Plain(b, k) /\ b[k] = DATA_END)

DataStarts(b) == {i \in DOMAIN b : Plain(b, i) /\ b[i] = DATA_START /\ ~InData(b, i)}

Pieces(s, n) == [k \in 1..(Len(s) \div n) |-> SubSeq(s, n * (k - 1) + 1, n * k)]

\* Position j belongs to the transmission that starts at i.
Within(b, i, j) ==
  /\ i < j /\ Plain(b, j)
  /\ \A k \in i..j : ~(Plain(b, k) /\ b[k] = DATA_END)

DigitsFrom(b, i) ==
  FlattenSeq([j \in DOMAIN b |-> IF Within(b, i, j) /\ b[j] \in Digits THEN <<b[j]>> ELSE <<>>])

\* The samples of the words of a transmission, without end markers.
SamplesOf(words) ==
  FlattenSeq([k \in DOMAIN words |-> IF Value(words[k]) = EndMarker THEN <<>>
                                     ELSE <<Value(words[k])>>])

SamplesFrom(b, i) == SamplesOf(Pieces(DigitsFrom(b, i), Width))

SweepsFrom(b, i, data10bit) ==
  LET raw == Pieces(SamplesFrom(b, i), NChannels)
  IN [k \in DOMAIN raw |-> [c \in 1..NChannels |-> To8(raw[k][c], data10bit)]]

SweepsIn(b, data10bit) ==
  FlattenSeq([i \in DOMAIN b |-> IF i \in DataStarts(b) THEN SweepsFrom(b, i, data10bit) ELSE <<>>])

Corrupt(b, data10bit) ==
  \E i \in DataStarts(b) : \E k \in DOMAIN SamplesFrom(b, i) :
    SamplesFrom(b, i)[k] >= Limit(data10bit)
=============================================================================
