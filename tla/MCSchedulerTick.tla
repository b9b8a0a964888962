-------------------------- MODULE MCSchedulerTick --------------------------
(* Constants of SchedulerTick for TLC. *)
EXTENDS SchedulerTick

Schedule(kind, source, start, stop, overview) ==
  [kind |-> kind, source |-> source, start |-> start, stop |-> stop,
   margin |-> 0, overview |-> overview]

Fixed         == Schedule("fixed", "sun", 0, 1, 0)
UntilMidnight == Schedule("fixed", "sun", 0, Day, NotATime)   \* until 24:00
Sun           == Schedule("tracked", "sun", 0, Day - 1, NotATime)
Star          == Schedule("tracked", "cas_a", 0, Day - 1, 1)
Manual        == Schedule("manual", "sun", 0, Day - 1, 0)

MCTemplates == {Fixed, UntilMidnight, Sun, Star, Manual}

Station(rise, len, onboot, s1, s2) ==
  [sky |-> [rise |-> rise, len |-> len], start_on_boot |-> onboot, scheds |-> <<s1, s2>>]

\* The source is up within a UT day, across 0 UT, or always.
MCStations ==
  { Station(1, 1, <<FALSE, TRUE>>, <<Sun>>, <<>>),
    Station(0, 1, <<TRUE, FALSE>>, <<>>, <<Star>>),
    Station(0, Day, <<FALSE, FALSE>>, <<Fixed>>, <<>>) }
=============================================================================
