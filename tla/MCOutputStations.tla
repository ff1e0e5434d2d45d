---- MODULE MCOutputStations ----
(***************************************************************************)
(* Two channels, the one whose slot is statn and one whose slot is not,    *)
(* and durations of up to two seconds: commands overlap, are renewed, run  *)
(* out on and off power, and are stored over one another.                  *)
(***************************************************************************)
EXTENDS OutputStations

MCErasedStop == 3
MCDurations == {0, 2}
\* en = 0 and 1 as the comment has them, and a value that is neither
MCEnArgs == {0, 1, 2}
\* no level is measured; or a sum over a slot reads as open, or as a Stop_time
\* beyond every duration
MCNoLevel == {}
MCLevelSums == {1, 4}
====
