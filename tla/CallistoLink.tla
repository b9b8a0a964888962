---------------------------- MODULE CallistoLink ----------------------------
(***************************************************************************)
(* A session of the Callisto driver with the receiver at the other end of  *)
(* the serial line (drivers/callisto/driver.py): connect, identify,        *)
(* configure and start, then the stream; or an overview; or one reading of *)
(* the detector.  The receiver answers as drivers/callisto/simulator.py    *)
(* does, but its bytes arrive in pieces, late, or not at all.              *)
(*                                                                         *)
(* CallistoStream is about when the stream heals itself; this module is    *)
(* about the bytes.                                                        *)
(***************************************************************************)
EXTENDS CallistoParser

CONSTANTS
  Samples,     \* per firmware the raw values that the receiver sends
  Channels,    \* channels that configure() programs
  Patience,    \* empty reads after which the handshake gives up
  MaxEmpty,    \* _MAX_EMPTY_READS of overview() and read_detector()
  MaxSent, MaxLate, MaxLost, MaxHeals, MaxSessions   \* bounds

ASSUME LinkAssumption ==
  /\ Channels \in Nat \ {0} /\ Patience \in Nat \ {0} /\ MaxEmpty \in Nat \ {0}
  /\ MaxSent \in Nat /\ MaxLate \in Nat /\ MaxLost \in Nat
  /\ MaxHeals \in Nat /\ MaxSessions \in Nat
  /\ \A f \in DOMAIN StatusLine : Samples[f] \subseteq Nat

\* A receiver sends no sample beyond its bit depth, and none is an end marker.
ASSUME SampleAssumption ==
  \A f \in DOMAIN StatusLine : \A v \in Samples[f] :
    v < Limit(Data10bit(f)) /\ v # EndMarker /\ v < Power[Width]

VARIABLES
  receiver,  \* fw, running, and the bytes it sent that nobody read
  call,      \* the driver call in progress
  op,        \* what the session is for
  rx,        \* _rx, the bytes read and not yet used
  waits,     \* empty reads of the current wait
  chan,      \* the channel that configure() waits for
  fw,        \* _firmware
  parser,    \* the parser of the stream or of the overview
  got,       \* sweeps yielded by stream(), or the rows of the overview
  mv,        \* digits of the detector reading, or NoReading
  late, lost, heals, sessions,  \* counters for the bounds
  undrained, \* history: connect() ended its drain before all bytes were there
  sent,      \* history: raw sweeps of the receiver in this session
  fed        \* history: bytes that the current parser was fed

driver == <<call, op, rx, waits, chan, fw, parser, got, mv>>
linkVars == <<receiver, driver, late, lost, heals, sessions, undrained, sent, fed>>

NoReading == <<"none">>
Rows == <<"row", "end">>
Reading == <<"1", "3">>

\* The values that the state may take.
LinkTypeOK ==
  /\ receiver.fw \in DOMAIN StatusLine /\ receiver.running \in BOOLEAN
  /\ call \in {"closed", "drain", "id", "status", "configure", "stream", "redrain",
             "overview", "detector", "done", "failed"}
  /\ op \in {"record", "overview", "detector"}
  /\ waits \in 0..Patience + MaxEmpty /\ chan \in 1..Channels
  /\ fw \in Firmwares
  /\ Len(parser.hexbuf) < Width /\ Len(parser.sweep) < NChannels
  /\ ToSet(parser.hexbuf) \subseteq Digits /\ ToSet(parser.sweep) \subseteq 0..(Eight - 1)
  /\ late \in 0..MaxLate /\ lost \in 0..MaxLost
  /\ heals \in 0..MaxHeals /\ sessions \in 0..MaxSessions

LinkInit ==
  /\ \E f \in DOMAIN StatusLine, r \in BOOLEAN : receiver = [fw |-> f, running |-> r, out |-> <<>>]
  /\ call = "closed" /\ op = "record"
  /\ rx = <<>> /\ waits = 0 /\ chan = 1
  /\ fw = "1.5" /\ parser = NewParser(FALSE)
  /\ got = <<>> /\ mv = NoReading
  /\ late = 0 /\ lost = 0 /\ heals = 0 /\ sessions = 0
  /\ undrained = FALSE /\ sent = <<>> /\ fed = <<>>

-----------------------------------------------------------------------------
(* The receiver: what a command makes it send. *)

Says(d, bytes) == [d EXCEPT !.out = @ \o bytes]

Handle(d, cmd) ==
  CASE cmd = "S0" -> Says(d, Line("Stopped"))
    [] cmd = "GD" -> IF d.running
                     THEN Says([d EXCEPT !.running = FALSE], <<DATA_END>> \o Line("Stopped"))
                     ELSE d
    [] cmd = "?"  -> Says(d, Line(StatusLine[d.fw]))
    [] cmd = "FE" -> Says(d, <<EEPROM_READY>>)
    [] cmd = "S1" -> Says(d, Line("Started"))
    [] cmd = "GE" -> Says([d EXCEPT !.running = TRUE], <<DATA_START>>)
    [] cmd = "P2" -> Says(d, FlattenSeq([k \in DOMAIN Rows |-> Line(Rows[k])]))
    [] cmd = "A0" -> Says(d, <<MESSAGE_START, "ADC0=">> \o Reading \o <<MESSAGE_END>>)
    [] OTHER      -> d

Write(d, cmds) == FoldLeft(Handle, d, cmds)

\* RESET stops the receiver and asks for its state.
RESET          == <<"D0", "GD", "S0">>
ID_QUERY       == <<"S0">>
STATUS_QUERY   == <<"?">>
OVERVIEW       == <<"T0", "M2", "%5", "F0", "L13200", "P2">>
DETECTOR_QUERY == <<"O", "F0", "A0">>        \* after set_gain and tune
InitStart      == <<"GS", "T", "O", "C", "FS", "L", "S1", "GE">>

\* A sweep in the transmission, without digit `gap' unless that is 0.
Sweeping(gap) ==
  /\ receiver.running /\ receiver.out = <<>> /\ Len(sent) < MaxSent
  /\ \E s \in [1..NChannels -> Samples[receiver.fw]] :
       LET digits == FlattenSeq([c \in 1..NChannels |-> Encode(s[c])])
       IN /\ receiver' = Says(receiver, IF gap = 0 THEN digits ELSE RemoveAt(digits, gap))
          /\ sent' = Append(sent, s)

EmitSweep ==
  /\ Sweeping(0)
  /\ UNCHANGED <<driver, late, lost, heals, sessions, undrained, fed>>

LoseDigit ==
  /\ lost < MaxLost /\ lost' = lost + 1
  /\ \E gap \in 1..(NChannels * Width) : Sweeping(gap)
  /\ UNCHANGED <<driver, late, heals, sessions, undrained, fed>>

\* A byte of a reply in the handshake is lost.
LoseReply ==
  /\ call \in {"id", "status", "configure"} /\ receiver.out # <<>>
  /\ lost < MaxLost /\ lost' = lost + 1
  /\ receiver' = [receiver EXCEPT !.out = Tail(@)]
  /\ UNCHANGED <<driver, late, heals, sessions, undrained, sent, fed>>

-----------------------------------------------------------------------------
(* Reading: _fill gets some of the bytes, or nothing within the timeout.   *)

Arrivals == {SubSeq(receiver.out, 1, k) : k \in 1..Len(receiver.out)}
Taken(chunk) == [receiver EXCEPT !.out = SubSeq(@, Len(chunk) + 1, Len(@))]

EmptyRead ==
  \/ receiver.out = <<>> /\ UNCHANGED late
  \/ receiver.out # <<>> /\ late < MaxLate /\ late' = late + 1

\* An exception, after which the caller closes the driver.
Fails ==
  /\ call' = "failed" /\ waits' = 0
  /\ UNCHANGED <<receiver, op, rx, chan, fw, parser, got, mv, lost, heals, sessions, undrained, sent, fed>>

-----------------------------------------------------------------------------
(* The session. *)

\* connect(): a new driver on a port that is opened anew, which drops what had
\* arrived by then.
Connect ==
  /\ call = "closed" /\ sessions < MaxSessions /\ sessions' = sessions + 1
  /\ \E k \in 0..Len(receiver.out) :
       receiver' = Write([receiver EXCEPT !.out = SubSeq(@, k + 1, Len(@))], RESET)
  /\ op' \in {"record", "overview", "detector"}
  /\ call' = "drain" /\ rx' = <<>> /\ waits' = 0 /\ chan' = 1
  /\ fw' = "1.5" /\ parser' = NewParser(FALSE) /\ got' = <<>> /\ mv' = NoReading
  /\ undrained' = FALSE /\ sent' = <<>> /\ fed' = <<>>
  /\ UNCHANGED <<late, lost, heals>>

Drain ==
  /\ call \in {"drain", "redrain"}
  /\ \E chunk \in Arrivals : receiver' = Taken(chunk)
  /\ UNCHANGED <<driver, late, lost, heals, sessions, undrained, sent, fed>>

\* What the session is for.
BeginCall ==
  CASE op = "record" ->
         receiver' = Write(receiver, ID_QUERY) /\ call' = "id" /\ UNCHANGED parser
    [] op = "overview" ->
         receiver' = Write(receiver, OVERVIEW) /\ call' = "overview" /\ parser' = NewParser(FALSE)
    [] op = "detector" ->
         receiver' = Write(receiver, DETECTOR_QUERY) /\ call' = "detector" /\ UNCHANGED parser

\* Mutant of DrainEnds: connect() reads once and goes on.
DrainEnds_Once ==
  /\ call = "drain"
  /\ UNCHANGED late
  /\ undrained' = FALSE
  /\ BeginCall
  /\ UNCHANGED <<op, rx, waits, chan, fw, got, mv, lost, heals, sessions, sent, fed>>

\* The drain of connect() ends with an empty read; the next call writes.
DrainEnds ==
  /\ call = "drain"
  /\ EmptyRead
  /\ undrained' = (receiver.out # <<>>)
  /\ BeginCall
  /\ UNCHANGED <<op, rx, waits, chan, fw, got, mv, lost, heals, sessions, sent, fed>>

\* What the current wait of the handshake looks for in _rx.
Awaited == IF call = "configure" THEN EEPROM_READY ELSE MESSAGE_END
Waiting == call \in {"id", "status", "configure"}
Found == Waiting /\ Contains(rx, Awaited)
At == CHOOSE k \in DOMAIN rx : rx[k] = Awaited /\ \A j \in 1..(k - 1) : rx[j] # Awaited
Before == SubSeq(rx, 1, At - 1)
After == SubSeq(rx, At + 1, Len(rx))

Fill ==
  /\ Waiting /\ ~Found
  /\ \E chunk \in Arrivals : receiver' = Taken(chunk) /\ rx' = rx \o chunk
  /\ UNCHANGED <<call, op, waits, chan, fw, parser, got, mv, late, lost, heals, sessions,
                 undrained, sent, fed>>

\* _read_line and _wait_for give up after the handshake timeout.
NoAnswer ==
  /\ Waiting /\ ~Found
  /\ EmptyRead
  /\ \/ waits + 1 = Patience /\ Fails
     \/ /\ waits + 1 < Patience /\ waits' = waits + 1
        /\ UNCHANGED <<receiver, call, op, rx, chan, fw, parser, got, mv, lost, heals, sessions,
                       undrained, sent, fed>>

\* identify(): the answer to S0.
Identify ==
  /\ call = "id" /\ Found
  /\ \/ /\ Before = <<MESSAGE_START, "Stopped">>
        /\ receiver' = Write(receiver, STATUS_QUERY)
        /\ rx' = After /\ waits' = 0 /\ call' = "status"
        /\ UNCHANGED <<op, chan, fw, parser, got, mv, lost, heals, sessions, undrained, sent, fed>>
     \/ Before # <<MESSAGE_START, "Stopped">> /\ Fails
  /\ UNCHANGED late

\* identify(): the answer to `?', then configure() writes the first channel.
Status ==
  /\ call = "status" /\ Found
  /\ fw' = DetectFirmware(Before)
  /\ receiver' = Write(receiver, <<"FE">>)
  /\ rx' = After /\ waits' = 0 /\ chan' = 1 /\ call' = "configure"
  /\ UNCHANGED <<op, parser, got, mv, late, lost, heals, sessions, undrained, sent, fed>>

\* configure(): a channel is acknowledged.  After the last one the driver is
\* initialised and started, and stream() begins with a new parser.
Configure ==
  /\ call = "configure" /\ Found
  /\ rx' = After /\ waits' = 0
  /\ \/ /\ chan < Channels /\ chan' = chan + 1
        /\ receiver' = Write(receiver, <<"FE">>)
        /\ UNCHANGED <<call, parser>>
     \/ /\ chan = Channels /\ UNCHANGED chan
        /\ receiver' = Write(receiver, InitStart)
        /\ parser' = NewParser(Data10bit(fw)) /\ call' = "stream"
  /\ UNCHANGED <<op, fw, got, mv, late, lost, heals, sessions, undrained, sent, fed>>

\* One turn of stream(): the chunk is parsed as a whole.  A corrupt sample
\* discards the chunk's sweeps and resets the receiver, a message that says
\* Stopped ends the stream after the chunk's sweeps.
Stream ==
  /\ call = "stream"
  /\ \E chunk \in Arrivals :
       LET p == Feed(parser, rx \o chunk)
           over == \E k \in DOMAIN p.texts : Contains(p.texts[k], "Stopped")
       IN \/ /\ p.bad /\ heals < MaxHeals /\ heals' = heals + 1
             /\ receiver' = Write(Taken(chunk), RESET)
             /\ call' = "redrain" /\ fed' = <<>>
             /\ parser' = NewParser(Data10bit(fw))
             /\ UNCHANGED got
          \/ /\ p.bad /\ heals = MaxHeals /\ UNCHANGED <<heals, got>>
             /\ receiver' = Taken(chunk)
             /\ call' = "failed" /\ fed' = <<>>
             /\ parser' = NewParser(Data10bit(fw))
          \/ /\ ~p.bad /\ UNCHANGED heals
             /\ receiver' = Taken(chunk)
             /\ call' = IF over THEN "done" ELSE "stream"
             /\ fed' = fed \o rx \o chunk
             /\ parser' = [p EXCEPT !.sweeps = <<>>, !.texts = <<>>]
             /\ got' = got \o p.sweeps
  /\ rx' = <<>>
  /\ UNCHANGED <<op, waits, chan, fw, mv, late, lost, sessions, undrained, sent>>

\* _soft_reset after its drain: init and start, the channels are kept.
Restart ==
  /\ call = "redrain"
  /\ EmptyRead
  /\ receiver' = Write(receiver, InitStart) /\ call' = "stream"
  /\ UNCHANGED <<op, rx, waits, chan, fw, parser, got, mv, lost, heals, sessions, undrained, sent, fed>>

\* stop() of another thread: the stream ends at its next turn.
StopStream ==
  /\ call = "stream"
  /\ receiver' = Write(receiver, <<"GD">>) /\ call' = "done"
  /\ UNCHANGED <<op, rx, waits, chan, fw, parser, got, mv, late, lost, heals, sessions, undrained, sent, fed>>

\* overview(): rows until the last one, or until too many empty reads.
Overview ==
  /\ call = "overview"
  /\ \/ \E chunk \in Arrivals :
          LET p == Feed(parser, rx \o chunk)
              row(text) == Len(text) = 1 /\ text[1] \in ToSet(Rows)
              rows == SelectSeq(p.texts, row)
          IN /\ receiver' = Taken(chunk) /\ waits' = 0
             /\ got' = got \o [k \in DOMAIN rows |-> rows[k][1]]
             /\ parser' = [p EXCEPT !.sweeps = <<>>, !.texts = <<>>]
             /\ call' = IF Contains(got', "end") THEN "done" ELSE call
             /\ fed' = fed \o rx \o chunk
             /\ UNCHANGED late
     \/ /\ EmptyRead /\ waits' = waits + 1
        /\ call' = IF waits' = MaxEmpty THEN "failed" ELSE call
        /\ UNCHANGED <<receiver, got, parser, fed>>
  /\ rx' = <<>>
  /\ UNCHANGED <<op, chan, fw, mv, lost, heals, sessions, undrained, sent>>

\* parse_detector of one chunk: the digits after the first ADC0=.
ParseDetector(chunk) ==
  LET from == {k \in DOMAIN chunk : chunk[k] = "ADC0="}
      first == CHOOSE k \in from : \A j \in from : k <= j
      run == {n \in 0..(Len(chunk) - first) : \A j \in first + 1..first + n : chunk[j] \in Digits}
  IN IF from = {} THEN <<>> ELSE SubSeq(chunk, first + 1, first + (CHOOSE n \in run : \A j \in run : j <= n))

\* read_detector(): every chunk is looked at on its own; 0.0 after too many
\* empty reads.
Detector ==
  /\ call = "detector"
  /\ \/ \E chunk \in Arrivals :
          LET digits == ParseDetector(chunk)
          IN /\ receiver' = Taken(chunk) /\ waits' = 0
             /\ \/ digits # <<>> /\ mv' = digits /\ call' = "done"
                \/ digits = <<>> /\ UNCHANGED <<mv, call>>
             /\ UNCHANGED late
     \/ /\ EmptyRead /\ waits' = waits + 1
        /\ \/ waits' = MaxEmpty /\ mv' = <<"0">> /\ call' = "done"
           \/ waits' < MaxEmpty /\ UNCHANGED <<mv, call>>
        /\ UNCHANGED receiver
  /\ UNCHANGED <<op, rx, chan, fw, parser, got, lost, heals, sessions, undrained, sent, fed>>

\* close() writes HALT, after STOP at the end of a recording; nobody waits for
\* the answers.
CloseDriver ==
  /\ call \in {"done", "failed"}
  /\ call' = "closed"
  /\ receiver' = Write(receiver, IF op = "record" THEN <<"GD", "S0">> ELSE <<"S0">>)
  /\ UNCHANGED <<op, rx, waits, chan, fw, parser, got, mv, late, lost, heals, sessions, undrained, sent, fed>>

-----------------------------------------------------------------------------
LinkNext ==
  \/ EmitSweep \/ LoseDigit \/ LoseReply
  \/ Connect \/ Drain \/ DrainEnds \/ Fill \/ NoAnswer \/ Identify \/ Status \/ Configure
  \/ Stream \/ Restart \/ StopStream \/ Overview \/ Detector \/ CloseDriver

LinkSpec == LinkInit /\ [][LinkNext]_linkVars

-----------------------------------------------------------------------------
(* Properties. *)

\* However its bytes are cut into chunks, the parser has yielded the sweeps of
\* the byte string: StreamParser against the definition by position.
ParserCorrect ==
  call = "stream" /\ heals = 0 =>
    /\ got = SweepsIn(fed, parser.ten)
    /\ ~Corrupt(fed, parser.ten)

Normal(s) == [c \in 1..NChannels |-> To8(s[c], Data10bit(receiver.fw))]

\* What stream() yields is what the receiver measured: the sweeps in order from
\* the first one when no byte is lost, and at most one false sweep for each lost
\* digit, because the test of the high bits then finds the lost framing (for
\* samples that are not close to zero, and a firmware that was recognised).
SweepsTrue ==
  op = "record" /\ Data10bit(fw) = Data10bit(receiver.fw) =>
    /\ lost = 0 => IsPrefix(got, [k \in DOMAIN sent |-> Normal(sent[k])])
    /\ Cardinality({k \in DOMAIN got : \A j \in DOMAIN sent : got[k] # Normal(sent[j])}) <= lost

\* The firmware profile that a recording uses is the receiver's own, provided
\* that the answers to RESET had all arrived when connect() ended its drain.
FirmwareRight ==
  call \in {"configure", "stream", "redrain"} /\ ~undrained /\ lost = 0 => fw = receiver.fw

\* read_detector() returns the voltage that the receiver measured.
DetectorWhole == mv \in {NoReading, Reading}
=============================================================================
