---- MODULE MCUnit ----
(***************************************************************************)
(* Time in units of which a day has nine in three hours.  An interval of   *)
(* readings is an hour, and a body lasts up to one unit, so a round may    *)
(* begin before the end of an hour or a day and end behind it.  The        *)
(* server is asked every six units; its answer takes up to one and moves   *)
(* now() back by two or on by one.  MaxTime is beyond Wrap: millis() wraps.*)
(*                                                                         *)
(* A level changes with every reading, in steps that tell most sets of     *)
(* readings apart.  Longs are eight bits wide, the whole numbers below 16  *)
(* are floats and the count of readings has two bits, so that sums wrap,   *)
(* are rounded and reach the last long, and the count wraps.               *)
(***************************************************************************)
EXTENDS Unit

PerTask(s, r, v) ==
    [k \in Tasks |-> CASE k = "readSensors" -> s
                       [] k = "Rule_Apply" -> r
                       [] k = "applyRemoteToValve" -> v]
MCInterval == PerTask(3, 6, 2)
MCFirst == PerTask(1, 2, 0)
MCBlock == PerTask(1, 1, 1)
MCCorrections == {-2, 1}
MCConfigurations == {"level", "output"}
MCUlps == {1, 2, 4, 8, 16, 32, 64, 128}
MCLevel(t) == (t * t) % 7
\* what lies in EEPROM: a count that is about to wrap, longs as erased bytes
\* make them, sums of floats that are near the last long
MCLeftOver ==
    LET sum == [f \in Sums |-> IF f \in Whole THEN -1 ELSE 110] IN
    {[n_sample |-> 3, sum |-> sum, SN |-> [h \in Hours |-> 3 - h], S |-> [h \in Hours |-> sum]]}
MCEnArgs == {0, 1, 2}
MCDurations == {0, 3}
====
