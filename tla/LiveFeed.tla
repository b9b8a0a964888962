------------------------------ MODULE LiveFeed ------------------------------
(***************************************************************************)
(* Live frames, from the recording to the browser (services/hub.py,        *)
(* api/routes/live.py).  A recording thread publishes every sweep to its   *)
(* process's FrameHub, which copies it to the bounded queue of each        *)
(* WebSocket connection that watches the instrument; each connection is a  *)
(* coroutine that drains its own queue and tells the browser "live" or     *)
(* "stalled".  When the recordings run in the acquire daemon, its hub      *)
(* forwards the frames in UDP datagrams over the loopback interface and a  *)
(* listener thread of the web process publishes them again.                *)
(*                                                                         *)
(* A frame is a pair <<instrument, n>>: the n-th frame of its instrument.  *)
(* An instrument has one recording at a time (see RecorderService), so one *)
(* thread publishes its frames.  The loopback interface drops datagrams    *)
(* (nobody listens, the socket's buffer is full) and keeps their order.    *)
(***************************************************************************)
EXTENDS Integers, SequencesExt

CONSTANTS
  Instr,      \* instruments
  Remote,     \* those that the acquire daemon records
  Conns,      \* WebSocket connections; each is opened at most once
  Slow,       \* those whose browser may stop reading
  QueueMax,   \* _QUEUE_MAX
  Grace,      \* stall_grace_seconds, in ticks
  BufferMax,  \* datagrams that the listener's socket holds
  MaxFrames,  \* bound: frames per instrument
  MaxStray,   \* bound: datagrams that are not frames
  MaxCrashes  \* bound: restarts of the web process

ASSUME FeedConstants ==
  /\ Remote \subseteq Instr /\ Slow \subseteq Conns
  /\ "listener" \notin Instr
  /\ {QueueMax, Grace, BufferMax} \subseteq Nat \ {0}
  /\ {MaxFrames, MaxStray, MaxCrashes} \subseteq Nat

VARIABLES
  web,      \* the web process: [up, listening]
  made,     \* number of frames that each instrument has published
  net,      \* datagrams in the listener's socket
  subs,     \* FrameHub._subs of the web process
  fan,      \* what each publishing thread still has to put: [frame, to]
  queue,    \* the queue of each connection
  pc,       \* where ws_live is: "new", "loop", "send" or "off"
  watch,    \* the instrument that a connection watches
  held,     \* the frame that ws_live is sending
  idle,     \* ticks since last_frame
  status,   \* sent_state
  log,      \* history: frames that reached the web process's hub
  since,    \* history: Len(log) when the connection subscribed
  seen,     \* history: frames sent to the browser
  full,     \* history: whether a frame was dropped for a full queue
  stray,    \* datagrams so far that were not frames
  crashes   \* restarts so far

feedVars == <<web, made, net, subs, fan, queue, pc, watch, held, idle,
              status, log, since, seen, full, stray, crashes>>

Listener == "listener"
Threads == (Instr \ Remote) \cup {Listener}
Junk == <<>>
NoFan == [frame |-> Junk, to |-> <<>>]
Copies(f, to) == IF to = <<>> THEN NoFan ELSE [frame |-> f, to |-> to]
Open == {c \in Conns : pc[c] \in {"loop", "send"}}

Init ==
  /\ web = [up |-> FALSE, listening |-> FALSE]
  /\ made = [i \in Instr |-> 0]
  /\ net = <<>>
  /\ subs = [i \in Instr |-> <<>>]
  /\ fan = [t \in Threads |-> NoFan]
  /\ queue = [c \in Conns |-> <<>>]
  /\ pc = [c \in Conns |-> "new"]
  /\ watch \in [Conns -> Instr]
  /\ held = [c \in Conns |-> <<>>]
  /\ idle = [c \in Conns |-> 0]
  /\ status = [c \in Conns |-> "none"]
  /\ log = [i \in Instr |-> <<>>]
  /\ since = [c \in Conns |-> 0]
  /\ seen = [c \in Conns |-> <<>>]
  /\ full = [c \in Conns |-> FALSE]
  /\ stray = 0 /\ crashes = 0

-----------------------------------------------------------------------------
(* The hub. *)

\* _publish_local, first half: the subscribers are copied under the lock.
PublishLocal(t, f) ==
  /\ fan' = [fan EXCEPT ![t] = Copies(f, subs[f[1]])]
  /\ log' = [log EXCEPT ![f[1]] = Append(@, f)]

\* A recording of the web process publishes a sweep.
Publish(i) ==
  /\ web.up /\ i \notin Remote
  /\ made[i] < MaxFrames /\ fan[i].to = <<>>
  /\ made' = [made EXCEPT ![i] = @ + 1]
  /\ PublishLocal(i, <<i, made[i] + 1>>)
  /\ UNCHANGED <<web, net, subs, queue, pc, watch, held, idle, status,
                 since, seen, full, stray, crashes>>

\* Mutated form of Put: a full queue ends the loop (return instead of pass).
Put_Abort(t) ==
  LET c == Head(fan[t].to)
      fits == Len(queue[c]) < QueueMax
  IN  /\ fan[t].to # <<>>
      /\ fan' = [fan EXCEPT ![t] = Copies(@.frame, IF c \in Open /\ ~fits THEN <<>>
                                                ELSE Tail(@.to))]
      /\ queue' = IF c \in Open /\ fits
                    THEN [queue EXCEPT ![c] = Append(@, fan[t].frame)]
                    ELSE queue
      /\ full' = [full EXCEPT ![c] = @ \/ (c \in Open /\ ~fits)]
      /\ UNCHANGED <<web, made, net, subs, pc, watch, held, idle,
                     status, log, since, seen, stray, crashes>>

\* _publish_local, second half, for the next queue of the copy: put_nowait,
\* and a frame for a full queue is dropped.  The queue of a connection that has
\* left since the copy is garbage.
Put(t) ==
  LET c == Head(fan[t].to)
      fits == Len(queue[c]) < QueueMax
  IN  /\ fan[t].to # <<>>
      /\ fan' = [fan EXCEPT ![t] = Copies(@.frame, Tail(@.to))]
      /\ queue' = IF c \in Open /\ fits
                    THEN [queue EXCEPT ![c] = Append(@, fan[t].frame)]
                    ELSE queue
      /\ full' = [full EXCEPT ![c] = @ \/ (c \in Open /\ ~fits)]
      /\ UNCHANGED <<web, made, net, subs, pc, watch, held, idle,
                     status, log, since, seen, stray, crashes>>

\* A datagram arrives at the listener's socket, or nowhere.
Deliver(d) ==
  net' = IF web.listening /\ Len(net) < BufferMax THEN Append(net, d) ELSE net

\* A recording of the daemon publishes a sweep: nobody subscribes there, and
\* _forward_frame sends it to the web process unless it does not fit a
\* datagram; OSError is ignored.
Forward(i, oversize) ==
  /\ i \in Remote /\ made[i] < MaxFrames
  /\ made' = [made EXCEPT ![i] = @ + 1]
  /\ IF oversize THEN UNCHANGED net ELSE Deliver(<<i, made[i] + 1>>)
  /\ UNCHANGED <<web, subs, fan, queue, pc, watch, held, idle, status, log,
                 since, seen, full, stray, crashes>>

\* Another program of the host sends something to the port.
Stray ==
  /\ web.listening /\ stray < MaxStray
  /\ stray' = stray + 1
  /\ Deliver(Junk)
  /\ UNCHANGED <<web, made, subs, fan, queue, pc, watch, held, idle,
                 status, log, since, seen, full, crashes>>

\* _serve and _ingest: a frame is published locally.  Anything else is ignored,
\* or ends the listener: OverflowError of int() is caught nowhere.
Ingest ==
  /\ web.listening /\ net # <<>> /\ fan[Listener].to = <<>>
  /\ net' = Tail(net)
  /\ IF Head(net) = Junk
       THEN /\ \E goes_on \in BOOLEAN : web' = [web EXCEPT !.listening = goes_on]
            /\ UNCHANGED <<fan, log>>
       ELSE PublishLocal(Listener, Head(net)) /\ UNCHANGED web
  /\ UNCHANGED <<made, subs, queue, pc, watch, held, idle, status,
                 since, seen, full, stray, crashes>>

-----------------------------------------------------------------------------
(* One WebSocket connection: ws_live. *)

\* FrameHub.subscribe and unsubscribe, under the lock.
Subscribe(c)   == subs' = [subs EXCEPT ![watch[c]] = Append(@, c)]
Unsubscribe(c) == subs' = [subs EXCEPT ![watch[c]] = RemoveFirst(@, c)]

\* The browser opens the feed: accept and subscribe.
Connect(c) ==
  /\ web.up /\ pc[c] = "new"
  /\ pc' = [pc EXCEPT ![c] = "loop"]
  /\ Subscribe(c)
  /\ since' = [since EXCEPT ![c] = Len(log[watch[c]])]
  /\ UNCHANGED <<web, made, net, fan, queue, watch, held, idle, status,
                 log, seen, full, stray, crashes>>

\* emit_status with the given time since the last frame.
EmitStatus(c, silence) ==
  status' = [status EXCEPT ![c] = IF silence > Grace THEN "stalled" ELSE "live"]

\* Mutated form of Poll: the status is only reported with a frame.
Poll_Silent(c) ==
  /\ pc[c] = "loop" /\ queue[c] = <<>>
  /\ UNCHANGED feedVars

\* The queue is empty: report the status, sleep, and look again.
Poll(c) ==
  /\ pc[c] = "loop" /\ queue[c] = <<>>
  /\ EmitStatus(c, idle[c])
  /\ UNCHANGED <<web, made, net, subs, fan, queue, pc, watch, held,
                 idle, log, since, seen, full, stray, crashes>>

\* A frame is there: it is the last frame now, and about to be sent.
Take(c) ==
  /\ pc[c] = "loop" /\ queue[c] # <<>>
  /\ held' = [held EXCEPT ![c] = <<Head(queue[c])>>]
  /\ queue' = [queue EXCEPT ![c] = Tail(@)]
  /\ idle' = [idle EXCEPT ![c] = 0]
  /\ EmitStatus(c, 0)
  /\ pc' = [pc EXCEPT ![c] = "send"]
  /\ UNCHANGED <<web, made, net, subs, fan, watch, log, since, seen,
                 full, stray, crashes>>

\* The browser takes the frame.
Send(c) ==
  /\ pc[c] = "send"
  /\ seen' = [seen EXCEPT ![c] = @ \o held[c]]
  /\ held' = [held EXCEPT ![c] = <<>>]
  /\ pc' = [pc EXCEPT ![c] = "loop"]
  /\ UNCHANGED <<web, made, net, subs, fan, queue, watch, idle, status,
                 log, since, full, stray, crashes>>

\* The local variables of connections that end are gone.
Forget(C) ==
  /\ queue' = [c \in Conns |-> IF c \in C THEN <<>> ELSE queue[c]]
  /\ held' = [c \in Conns |-> IF c \in C THEN <<>> ELSE held[c]]
  /\ seen' = [c \in Conns |-> IF c \in C THEN <<>> ELSE seen[c]]
  /\ idle' = [c \in Conns |-> IF c \in C THEN 0 ELSE idle[c]]
  /\ since' = [c \in Conns |-> IF c \in C THEN 0 ELSE since[c]]
  /\ full' = [c \in Conns |-> IF c \in C THEN FALSE ELSE full[c]]
  /\ status' = [c \in Conns |-> IF c \in C THEN "none" ELSE status[c]]

\* The browser has left: WebSocketDisconnect or a cancelled task, and
\* unsubscribe.
Leave(c) ==
  /\ c \in Open
  /\ pc' = [pc EXCEPT ![c] = "off"]
  /\ Unsubscribe(c)
  /\ Forget({c})
  /\ UNCHANGED <<web, made, net, fan, watch, log, stray, crashes>>

Watch(c) == Poll(c) \/ Take(c)

-----------------------------------------------------------------------------
(* The web process and the clock. *)

\* _lifespan: start_listener binds the socket, or goes on without one.
WebStart(bound) ==
  /\ ~web.up
  /\ web' = [up |-> TRUE, listening |-> Remote # {} /\ bound]
  /\ UNCHANGED <<made, net, subs, fan, queue, pc, watch, held, idle,
                 status, log, since, seen, full, stray, crashes>>

\* The web process dies, with its threads, connections and socket.
WebCrash ==
  /\ web.up /\ crashes < MaxCrashes
  /\ crashes' = crashes + 1
  /\ web' = [up |-> FALSE, listening |-> FALSE]
  /\ net' = <<>>
  /\ subs' = [i \in Instr |-> <<>>]
  /\ fan' = [t \in Threads |-> NoFan]
  /\ pc' = [c \in Conns |-> IF c \in Open THEN "off" ELSE pc[c]]
  /\ Forget(Open)
  /\ UNCHANGED <<made, watch, log, stray>>

\* Time passes for the open connections.
Tick ==
  /\ \E c \in Open : idle[c] <= Grace
  /\ idle' = [c \in Conns |-> IF c \in Open /\ idle[c] <= Grace
                                THEN idle[c] + 1 ELSE idle[c]]
  /\ UNCHANGED <<web, made, net, subs, fan, queue, pc, watch, held,
                 status, log, since, seen, full, stray, crashes>>

Next ==
  \/ \E i \in Instr : Publish(i)
  \/ \E i \in Instr, oversize \in BOOLEAN : Forward(i, oversize)
  \/ \E t \in Threads : Put(t)
  \/ Stray \/ Ingest
  \/ \E c \in Conns : Connect(c) \/ Watch(c) \/ Send(c) \/ Leave(c)
  \/ \E bound \in BOOLEAN : WebStart(bound)
  \/ WebCrash \/ Tick

Spec == Init /\ [][Next]_feedVars

\* Threads and coroutines run, time passes, and the browsers that are not slow
\* read what they are sent.  Nothing makes an instrument produce frames.
Fairness ==
  /\ \A t \in Threads : WF_feedVars(Put(t))
  /\ WF_feedVars(Ingest)
  /\ \A c \in Conns : WF_feedVars(Watch(c))
  /\ \A c \in Conns \ Slow : WF_feedVars(Send(c))
  /\ WF_feedVars(Tick)

FairSpec == Spec /\ Fairness
-----------------------------------------------------------------------------
(* Properties. *)

\* A frame of this connection's instrument is still being put.
InFlight(c) == \E t \in Threads : \E k \in DOMAIN fan[t].to : fan[t].to[k] = c

\* What the connection got, and what reached the hub since it subscribed.
Got(c) == seen[c] \o held[c] \o queue[c]
Due(c) == SubSeq(log[watch[c]], since[c] + 1,
                 Len(log[watch[c]]) - IF InFlight(c) THEN 1 ELSE 0)

\* Every viewer gets the frames of its instrument, each once and in the order
\* of recording; one whose queue never filled gets all that reached the hub,
\* whatever the other viewers do ("slow clients drop frames rather than block
\* acquisition").  Viewers come and go while a frame is handed out.
FeedFaithful ==
  \A c \in Open :
    /\ ~full[c] => Got(c) = Due(c)
    /\ \A k \in DOMAIN Got(c) : \E j \in DOMAIN Due(c) : Got(c)[k] = Due(c)[j]
    /\ \A j, k \in DOMAIN Got(c) : j < k => Got(c)[j][2] < Got(c)[k][2]

\* ADR-0012: when an instrument falls silent (it records no more than
\* MaxFrames frames, or the bridge delivers none), each viewer that stays is
\* told "stalled", after all that its queue still held.
StallShown ==
  \A c \in Conns \ Slow :
    <>[](c \in Open) => <>[](status[c] = "stalled" /\ queue[c] = <<>>)
=============================================================================
