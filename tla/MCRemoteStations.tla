---- MODULE MCRemoteStations ----
(***************************************************************************)
(* Two units, each with rules that may call the other one or a third       *)
(* station: calls that cross, that are given up and answered late, and     *)
(* power losses at either end.                                             *)
(***************************************************************************)
EXTENDS RemoteStations

CONSTANTS a, b, s

MCUnits == {a, b}
MCOthers == {s}
====
