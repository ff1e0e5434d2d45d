---- MODULE MCSensorLog ----
(***************************************************************************)
(* A table whose thermometers may deliver more values than it says, and a  *)
(* longer one, whose sensors deliver what it says.                         *)
(***************************************************************************)
EXTENDS SensorLog

Sensor(t, n) == [type |-> t, pin2 |-> n]
MCTables == { <<Sensor(5, 1), Sensor(6, 1)>>,
              <<Sensor(4, 2), Sensor(0, 1)>> }
MCThermometers == {1, 2}
====
