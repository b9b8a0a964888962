----------------------------- MODULE SdrStream ------------------------------
(***************************************************************************)
(* A recording or an overview of an SDR instrument, driven the way         *)
(* services/acquisition.py and services/overview.py drive every driver:    *)
(*                                                                         *)
(*  - "fpga" (drivers/sdr/fpga.py over connections/network.py): spectra    *)
(*    arrive over TCP, a sweep being an STX byte and a byte per channel.   *)
(*    A power value may equal STX.  TCP keeps bytes and their order, and a *)
(*    read returns any part of what has arrived.                           *)
(*  - "rx888" (drivers/sdr/rx888.py): IQ samples come from SoapySDR and    *)
(*    the host computes the spectrum; without a device the samples are     *)
(*    synthetic.                                                           *)
(*                                                                         *)
(* The device may lose its power or be unplugged (the open connection is   *)
(* mute: reads time out), close the connection or reset it, and come back. *)
(***************************************************************************)
EXTENDS Integers, Sequences

CONSTANTS
  Kinds,       \* driver kinds of the instrument
  N,           \* channels of the program, and of the appliance's sweeps
  Powers,      \* power values that tell frames apart; one of them is STX
  MaxSweeps    \* bound: sweeps that the appliance sends over a connection

STX == 2
Losses == {"mute", "closed", "reset"}

VARIABLES
  kind,     \* the instrument's driver
  present,  \* whether the device can be reached
  device,   \* whether the appliance sends sweeps
  link,     \* the open connection: "none", "open", "synthetic" or a loss
  wire,     \* bytes that have arrived at the host and are not read
  rx,       \* FpgaSdrDriver._rx
  running,  \* _running
  n,        \* _n
  call,     \* who runs the driver: "none", "stream" or "overview"
  pc,       \* where that call is
  told,     \* what the operator was told of the source during the call
  sent,     \* history: sweeps of the appliance over the connection
  got       \* history: frames made of them

sdrVars == <<kind, present, device, link, wire, rx, running, n, call, pc,
             told, sent, got>>

Init ==
  /\ kind \in Kinds
  /\ present \in BOOLEAN /\ device = FALSE /\ link = "none"
  /\ wire = <<>> /\ rx = <<>>
  /\ running = FALSE /\ n = 0
  /\ call = "none" /\ pc = "build" /\ told = "none"
  /\ sent = <<>> /\ got = <<>>

-----------------------------------------------------------------------------
(* The device. *)

\* A command reaches the appliance over an open connection; one that has
\* closed it answers with a reset.
Obeys(command) == IF link = "open" THEN command = "START" ELSE device
Write(command) ==
  /\ device' = Obeys(command)
  /\ link' = IF link = "closed" THEN "reset" ELSE link

\* One sweep of the appliance.
EmitSweep(payload) ==
  /\ kind = "fpga" /\ link = "open" /\ device /\ Len(sent) < MaxSweeps
  /\ wire' = wire \o <<STX>> \o payload
  /\ sent' = Append(sent, payload)
  /\ UNCHANGED <<kind, present, device, link, rx, running, n, call, pc, told, got>>

\* The device is lost, and with it the connection for good.
Lose(how) ==
  /\ present
  /\ present' = FALSE /\ device' = FALSE
  /\ link' = IF link = "open" THEN how ELSE link
  /\ UNCHANGED <<kind, wire, rx, running, n, call, pc, told, sent, got>>

\* The device is plugged in again.
Return ==
  /\ ~present
  /\ present' = TRUE
  /\ UNCHANGED <<kind, device, link, wire, rx, running, n, call, pc, told, sent, got>>

-----------------------------------------------------------------------------
(* The life of a driver. *)

\* hardware_available: what an RX-888 driver that is built now will use.
Source == IF present THEN "open" ELSE "synthetic"

\* Rx888Driver decides between device and synthetic when it is constructed.
Constructed == IF kind = "rx888" THEN Source ELSE "none"

\* build_driver, by the instrument's class and address.
Build(who) ==
  /\ pc = "build"
  /\ call' = who
  /\ n' = N
  /\ link' = Constructed
  /\ pc' = "connect"
  /\ UNCHANGED <<kind, present, device, wire, rx, running, told, sent, got>>

\* Without a device create_connection raises, and so does SoapySDR.Device.
OpenTcp    == present
OpenSource == link = "synthetic" \/ present

\* connect.  A recording then configures the driver; an overview does not.
Connect ==
  /\ pc = "connect"
  /\ IF (kind = "fpga" /\ OpenTcp) \/ (kind = "rx888" /\ OpenSource)
       THEN /\ link' = IF link = "synthetic" THEN link ELSE "open"
            /\ pc' = IF call = "stream" THEN "configure" ELSE "start"
       ELSE link' = "none" /\ pc' = "finally"
  /\ UNCHANGED <<kind, present, device, wire, rx, running, n, call, told, sent, got>>

\* configure sets the length of a frame (the program is not empty); an
\* appliance is not told of it.
Configure ==
  /\ pc = "configure"
  /\ n' = N
  /\ pc' = "start"
  /\ UNCHANGED <<kind, present, device, link, wire, rx, running, call, told, sent, got>>

\* start, or the first lines of overview.
Start ==
  /\ pc = "start"
  /\ IF kind = "fpga" THEN Write("START") ELSE UNCHANGED <<device, link>>
  /\ running' = (kind = "fpga" \/ call = "stream")
  /\ pc' = IF call = "stream" THEN "check" ELSE "read"
  /\ UNCHANGED <<kind, present, wire, rx, n, call, told, sent, got>>

\* stream: while self._running.
Check ==
  /\ pc = "check"
  /\ pc' = IF running THEN "read" ELSE "finally"
  /\ UNCHANGED <<kind, present, device, link, wire, rx, running, n, call, told, sent, got>>

\* What follows a read: stream looks at _running again, overview is done.
Returned ==
  /\ running' = (call = "stream" /\ running)
  /\ pc' = IF call = "stream" THEN "check" ELSE "finally"

-----------------------------------------------------------------------------
(* FpgaSdrDriver._read_frame. *)

\* The first STX of rx, if there is one, and the bytes after it.
Starts == {i \in DOMAIN rx : rx[i] = STX}
First == CHOOSE i \in Starts : \A j \in Starts : i <= j
Complete == Starts # {} /\ Len(rx) - First >= n

\* A frame is complete: it is cut off and yielded.
ReadFrame ==
  /\ kind = "fpga" /\ pc = "read" /\ Complete
  /\ got' = Append(got, SubSeq(rx, First + 1, First + n))
  /\ rx' = SubSeq(rx, First + n + 1, Len(rx))
  /\ Returned
  /\ UNCHANGED <<kind, present, device, link, wire, n, call, told, sent>>

\* recv returns some of what has arrived.
ReadChunk(k) ==
  /\ kind = "fpga" /\ pc = "read" /\ ~Complete
  /\ k \in 1 .. Len(wire)
  /\ rx' = rx \o SubSeq(wire, 1, k)
  /\ wire' = SubSeq(wire, k + 1, Len(wire))
  /\ UNCHANGED <<kind, present, device, link, running, n, call, pc, told, sent, got>>

\* recv returns no byte, after a timeout or from a closed connection:
\* _read_frame returns None.
ReadNothing ==
  /\ kind = "fpga" /\ pc = "read" /\ ~Complete
  /\ wire = <<>> /\ link # "reset"
  /\ Returned
  /\ UNCHANGED <<kind, present, device, link, wire, rx, n, call, told, sent, got>>

\* recv raises ConnectionResetError.
ReadRaises ==
  /\ kind = "fpga" /\ pc = "read" /\ ~Complete
  /\ wire = <<>> /\ link = "reset"
  /\ pc' = "finally"
  /\ UNCHANGED <<kind, present, device, link, wire, rx, running, n, call, told, sent, got>>

\* Rx888Driver._dsp_frame: a block of samples, whatever readStream returned
\* (a lost device leaves zeros in it, and the spectrum is flat).
DspFrame ==
  /\ kind = "rx888" /\ pc = "read"
  /\ Returned
  /\ UNCHANGED <<kind, present, device, link, wire, rx, n, call, told, sent, got>>

-----------------------------------------------------------------------------
(* Requests, and the end of the call. *)

\* driver.stop, which an FPGA's appliance is told of.
StopFpga  == kind = "fpga" /\ Write("STOP") /\ running' = FALSE
StopRx888 == kind = "rx888" /\ running' = FALSE /\ UNCHANGED <<device, link>>

\* An operator's Stop, from the thread of a request: driver.stop.
StopRequest ==
  /\ call = "stream" /\ pc \in {"check", "read"} /\ running
  /\ StopFpga \/ StopRx888
  /\ UNCHANGED <<kind, present, wire, rx, n, call, pc, told, sent, got>>

\* GET .../diagnose: a driver of its own is built and identified.
Diagnose ==
  /\ kind = "rx888" /\ call = "stream" /\ pc \in {"check", "read"}
  /\ told' = Source
  /\ UNCHANGED <<kind, present, device, link, wire, rx, running, n, call, pc, sent, got>>

\* The caller's finally: a recording stops the driver, an overview does not;
\* both close it, and the next call builds a new one.
Finally ==
  /\ pc = "finally"
  /\ device' = IF kind = "fpga" /\ call = "stream" THEN Obeys("STOP") ELSE device
  /\ link' = "none" /\ running' = FALSE
  /\ rx' = <<>> /\ wire' = <<>>
  /\ sent' = <<>> /\ got' = <<>> /\ told' = "none"
  /\ call' = "none" /\ pc' = "build" /\ n' = 0
  /\ UNCHANGED <<kind, present>>

Host ==
  \/ Connect \/ Configure \/ Start \/ Check
  \/ ReadFrame \/ (\E k \in 1 .. Len(wire) : ReadChunk(k))
  \/ ReadNothing \/ ReadRaises \/ DspFrame \/ Finally

Next ==
  \/ \E payload \in [1 .. N -> Powers] : EmitSweep(payload)
  \/ \E how \in Losses : Lose(how)
  \/ Return
  \/ \E who \in {"stream", "overview"} : Build(who)
  \/ Host \/ StopRequest \/ Diagnose

Spec == Init /\ [][Next]_sdrVars

\* The thread that runs the driver goes on.  Nothing makes a device send or
\* come back, and no operator has to press Stop.
FairSpec == Spec /\ WF_sdrVars(Host)
-----------------------------------------------------------------------------
(* Properties. *)

\* ADR-0010 and record_continuous ("a stalled-but-enumerated device cannot hang
\* here"): once the connection of a recording is lost no frame comes, and
\* stream() ends or raises, so that the recording is built again.
LossNoticed == (call = "stream" /\ link \in Losses) ~> (call = "none")

\* rx888.py: identify tells "whether a recording is real or synthetic".
OriginKnown == told # "none" => (told = "synthetic") = (link = "synthetic")

\* While the appliance's sweeps are as long as the program, the frames are its
\* sweeps, whole and in order, although values may equal STX and reads split a
\* sweep anywhere: a connection starts between sweeps and loses nothing.
FramesTrue == Len(got) <= Len(sent) /\ got = SubSeq(sent, 1, Len(got))
=============================================================================
