-------------------------- MODULE ScheduleWindows --------------------------
(***************************************************************************)
(* The daily recording window of a schedule (services/scheduler.py and     *)
(* schedule_window of services/scheduler_service.py).  The unit of time is *)
(* the step at which the ephemeris is sampled: a UT day has the samples    *)
(* 0 .. Day, the last one being the first of the next day.                 *)
(***************************************************************************)
EXTENDS Integers, FiniteSets, FiniteSetsExt

CONSTANTS
  Day,       \* samples in a UT day
  Sources,   \* astro_track.SOURCES other than the Sun
  NotATime   \* a text that is not of the form HH:MM, e.g. the empty one

ASSUME DayAssumption == Day \in Nat \ {0}
ASSUME NotATimeAssumption == NotATime \notin Int
ASSUME SourcesAssumption == "sun" \notin Sources

(* None, and a call that ends in an exception. *)
NoWindow == <<>>
Raise    == <<"raise">>

(* What the ephemeris says: the source rises at sample sky.rise and is up  *)
(* for sky.len samples of every day (0: never, Day: always).               *)
Up(sky, i) == (i + Day - sky.rise) % Day < sky.len

(* The samples of the UT day at which the source has just come up, and at  *)
(* which it has just gone down.                                            *)
Rises(sky) == {i \in 1..Day : ~Up(sky, i - 1) /\ Up(sky, i)}
Sets(sky)  == {i \in 1..Day : Up(sky, i - 1) /\ ~Up(sky, i)}

Trimmed(start, stop, trim) ==
  IF stop - trim <= start + trim THEN NoWindow ELSE <<start + trim, stop - trim>>

(* sun_window: first sunrise to last sunset of the UT day. *)
SunWindow(sky, trim) ==
  LET sunrise == IF Rises(sky) = {} THEN 0 ELSE Min(Rises(sky))
      sunset  == IF Sets(sky) = {} THEN Day ELSE Max(Sets(sky))
  IN IF Rises(sky) = {} /\ Sets(sky) = {} THEN NoWindow
     ELSE Trimmed(sunrise, sunset, trim)

\* Mutant of SourceWindow: a source that is up at midnight has no window.
SourceWindow_NoMidnight(sky, margin) ==
  IF Rises(sky) = {} \/ Sets(sky) = {} THEN NoWindow
  ELSE Trimmed(Min(Rises(sky)), Max(Sets(sky)), margin)

(* source_window for a source that is not the Sun: the span from rise to   *)
(* set, or the whole UT day when it is up across midnight.                 *)
SourceWindow(sky, margin) ==
  CASE Rises(sky) # {} /\ Sets(sky) # {} /\ Max(Sets(sky)) > Min(Rises(sky)) ->
         Trimmed(Min(Rises(sky)), Max(Sets(sky)), margin)
    [] OTHER -> IF \E i \in 0..Day : Up(sky, i) THEN Trimmed(0, Day, margin)
                ELSE NoWindow

(* fixed_window: sample Day stands for 24:00, which int() accepts and      *)
(* datetime() does not.                                                    *)
FixedWindow(start, stop) ==
  CASE start = NotATime \/ stop = NotATime -> NoWindow
    [] OTHER -> IF Day \in {start, stop} THEN Raise ELSE Trimmed(start, stop, 0)

(* schedule_window; an unknown source is an error of source_altitudes. *)
ScheduleWindow(s, sky) ==
  CASE s.kind = "manual" -> NoWindow
    [] s.kind = "fixed"  -> FixedWindow(s.start, s.stop)
    [] OTHER -> CASE s.source = "sun"      -> SunWindow(sky, s.margin)
                  [] s.source \in Sources  -> SourceWindow(sky, s.margin)
                  [] OTHER                 -> Raise

IsRecordingDesired(window, now) ==
  /\ window \notin {NoWindow, Raise}
  /\ window[1] <= now
  /\ now < window[2]
=============================================================================
