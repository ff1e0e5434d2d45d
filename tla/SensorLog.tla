------------------------------ MODULE SensorLog ------------------------------
(***************************************************************************)
(* From a sensor to the reply of /sensor.  The table of sensors, read from *)
(* the configuration at every start, says of each how many values it has   *)
(* (pin2), and param[] has a name for each of them.  readSensors puts into *)
(* value[] as many values as each sensor delivers, one after the other;    *)
(* recordSensors appends the values, as many as there are names, to        *)
(* /logs.txt; and readSensorsFromFile gives the values of a line their     *)
(* names again, those of the table of today.  Nothing but counting keeps   *)
(* value and name together.                                                *)
(*                                                                         *)
(* The j-th value of the i-th sensor measured at time t is <<i, j, t>>     *)
(* here, and its name is <<i, j>>.                                         *)
(***************************************************************************)
EXTENDS Integers, Sequences, SequencesExt

CONSTANTS
    Tables,         \* configurations, sequences of [type, pin2]
    Thermometers,   \* how many there may be on the one-wire bus
    NValues,        \* length of value[], 30
    MaxRounds       \* bound: rounds of readings

ASSUME TableAssumption ==
    /\ Tables \subseteq Seq([type : 0..9, pin2 : 1..8])
    /\ Thermometers \subseteq Nat /\ NValues \in Nat /\ MaxRounds \in Nat

VARIABLES
    up,             \* the program is past setup()
    stored,         \* the configuration the next start reads
    table,          \* sensorT, pin2 and param, as read at the start
    nDSsens,        \* thermometers found at the start
    value,          \* value[]
    head,           \* time_sensor1 = START_INTERVAL: no line was logged yet
    file,           \* the lines of /logs.txt
    logfile,        \* lines before its position, or Closed
    now,            \* counts the rounds
    reply           \* the latest reply of /sensor, or None

vars == <<up, stored, table, nDSsens, value, head, file, logfile, now, reply>>

Closed == -1
None == [asked |-> -1]
Unset == <<0, 0, 0>>        \* a value that was not measured
Header == [time |-> 0, table |-> <<>>, values |-> <<>>, complete |-> FALSE]

Names(T) == FlattenSeq([i \in DOMAIN T |-> [j \in 1..T[i].pin2 |-> <<i, j>>]])

\* beginSensor and readSensors write behind param[] and value[], which are as
\* long, when a table has more values: the tables here do not.
ASSUME FitAssumption == \A T \in Tables : Len(Names(T)) <= NValues

Init ==
    /\ up = FALSE
    /\ stored \in Tables
    /\ table = <<>> /\ nDSsens = 0
    /\ value = [k \in 1..NValues |-> Unset]
    /\ head = FALSE
    /\ file = <<>> /\ logfile = Closed
    /\ now = 0
    /\ reply = None

-----------------------------------------------------------------------------
(* readSensors *)

\* How many values a sensor puts into value[]: thermometers and a DHT whatever
\* the table says, the others as many as it says up to what they have.
Delivered(s) ==
    CASE s.type \in {0, 8} -> IF s.pin2 > 1 THEN 2 ELSE 1
      [] s.type = 1 -> 2
      [] s.type = 3 -> s.pin2
      [] s.type = 4 -> IF s.pin2 > 2 THEN 3 ELSE s.pin2
      [] s.type = 5 -> nDSsens
      [] s.type \in {2, 6, 7} -> 1
      [] OTHER -> 0

\* A digital input (type 7) goes to lvalue[] and leaves value[] as it was.
Measured(t) ==
    LET new == FlattenSeq([i \in DOMAIN table |->
                   [j \in 1..Delivered(table[i]) |-> <<i, j, t>>]])
    IN [k \in 1..NValues |->
           IF k \in DOMAIN new /\ table[new[k][1]].type # 7 THEN new[k] ELSE value[k]]

\* For the properties: every sensor delivers what the table says.
Complete ==
    \A i \in DOMAIN table : table[i].type # 7 /\ Delivered(table[i]) = table[i].pin2

-----------------------------------------------------------------------------
(* recordSensors *)

\* Values in front of the first of the i-th sensor of T.
Offset(T, i) == Len(Names(SubSeq(T, 1, i - 1)))

\* Mutants: k advances once for each sensor; as many values as were delivered.
Recorded_per_sensor(v) ==
    [i \in DOMAIN table |-> [j \in 1..table[i].pin2 |-> v[i - 1 + j]]]
Recorded_delivered(v) ==
    [i \in DOMAIN table |-> [j \in 1..Delivered(table[i]) |-> v[Offset(table, i) + j]]]

Recorded(v) ==
    [i \in DOMAIN table |-> [j \in 1..table[i].pin2 |-> v[Offset(table, i) + j]]]

\* The header of the first round is printed to logfile before it is opened: it
\* goes where an earlier /sensor request has left the file open, or nowhere.
WithHeader ==
    IF ~head \/ logfile = Closed THEN file
    ELSE IF logfile = Len(file) THEN Append(file, Header)
         ELSE [file EXCEPT ![logfile + 1] = Header]

\* A pass of loop() in which readSensors is due, with recordSensors after it.
Round ==
    /\ up
    /\ now < MaxRounds
    /\ now' = now + 1
    /\ value' = Measured(now')
    /\ file' = Append(WithHeader, [time |-> now', table |-> table,
                                   values |-> Recorded(value'), complete |-> Complete])
    /\ head' = FALSE /\ logfile' = Closed
    /\ UNCHANGED <<up, stored, table, nDSsens, reply>>

-----------------------------------------------------------------------------
(* readSensorsFromFile *)

\* The line is cut at every ':', into an opening brace and the values for each
\* sensor.
Tokens(r) == FlattenSeq([i \in DOMAIN r.values |-> <<Unset>> \o r.values[i]])

\* Mutant: the opening braces are not counted.
TokenOf_no_brace(i, j) == Offset(table, i) + j
TokenOf(i, j) == Offset(table, i) + i + j

LastToken == Len(Names(table)) + Len(table)

Restarted ==
    /\ up' = FALSE
    /\ table' = <<>> /\ nDSsens' = 0
    /\ value' = [k \in 1..NValues |-> Unset]
    /\ head' = FALSE /\ logfile' = Closed
    /\ reply' = None

\* Where "t:" is searched from: a line the file size and the time determine, and
\* never the first line of a file that begins with one, since a character is
\* read before the search.
Starts == 1..(Len(file) + 1) \ (IF file # <<>> /\ file[1] # Header THEN {1} ELSE {})

Fitting(s, asked) ==
    {n \in s..Len(file) : file[n] # Header /\ file[n].time >= asked}

\* Mutant: the file stays open when the line was found.
handleSensorsGet_open(asked) ==
    \E s \in Starts : LET found == Fitting(s, asked) IN
        /\ up
        /\ IF found = {} THEN logfile' = Len(file)
           ELSE \E n \in found : (\A m \in found : n <= m) /\ logfile' = n
        /\ UNCHANGED <<up, stored, table, nDSsens, value, head, file, now, reply>>

(* The first line from there on that is not older than asked.  When there  *)
(* is none the file stays open, at its end.  A line with fewer parts than  *)
(* the table of today has makes strtok return NULL, which is read through. *)
handleSensorsGet(asked) ==
    \E s \in Starts : LET found == Fitting(s, asked) IN
        /\ up
        /\ \/ /\ found = {}
              /\ logfile' = Len(file)
              /\ UNCHANGED <<up, table, nDSsens, value, head, reply>>
           \/ \E n \in found :
                 /\ \A m \in found : n <= m
                 /\ LET tokens == Tokens(file[n]) IN
                    IF Len(tokens) < LastToken THEN Restarted
                    ELSE /\ logfile' = Closed
                         /\ reply' = [asked |-> asked, line |-> file[n], table |-> table,
                                      values |-> [i \in DOMAIN table |->
                                          [j \in 1..table[i].pin2 |-> tokens[TokenOf(i, j)]]]]
                         /\ UNCHANGED <<up, table, nDSsens, value, head>>
        /\ UNCHANGED <<stored, file, now>>

-----------------------------------------------------------------------------
\* A rule sets a value: sval(i, val).
sval(k) ==
    /\ up
    /\ value' = [value EXCEPT ![k] = Unset]
    /\ UNCHANGED <<up, stored, table, nDSsens, head, file, logfile, now, reply>>

\* /logrule changes the configuration, for the next start.
handleLogRule(T) ==
    /\ up
    /\ stored' = T
    /\ UNCHANGED <<up, table, nDSsens, value, head, file, logfile, now, reply>>

PowerLoss == up /\ Restarted /\ UNCHANGED <<stored, file, now>>

Boot ==
    /\ ~up
    /\ up' = TRUE
    /\ table' = stored
    /\ nDSsens' \in Thermometers
    /\ head' = TRUE
    /\ UNCHANGED <<stored, value, file, logfile, now, reply>>

Next ==
    \/ Round
    \/ \E asked \in 0..(now + 1) : handleSensorsGet(asked)
    \/ \E k \in 1..NValues : sval(k)
    \/ \E T \in Tables : handleLogRule(T)
    \/ PowerLoss
    \/ Boot

Spec == Init /\ [][Next]_vars

-----------------------------------------------------------------------------
\* Types of the variables: the values that are recorded have their table's
\* shape, and the position of an open file lies within it.
TypeOK ==
    /\ up \in BOOLEAN /\ head \in BOOLEAN
    /\ stored \in Tables /\ table \in Tables \cup {<<>>}
    /\ nDSsens \in Thermometers \cup {0}
    /\ DOMAIN value = 1..NValues
    /\ logfile \in {Closed} \cup 0..Len(file)
    /\ now \in 0..MaxRounds
    /\ \A n \in DOMAIN file : \A i \in DOMAIN file[n].table :
          Len(file[n].values[i]) = file[n].table[i].pin2

\* The value of each sensor, and nobody else's: what a line should hold at i, j.
TrueValues(r, v) ==
    \A i \in DOMAIN r.table : \A j \in 1..r.table[i].pin2 : v[i][j] = <<i, j, r.time>>

\* When every sensor delivers as many values as the table says, each line of
\* the log holds, sensor by sensor, what was measured in its round: no value
\* of another sensor, of an earlier round or of a rule.
RecordsAreTrue ==
    \A n \in DOMAIN file : file[n].complete => TrueValues(file[n], file[n].values)

\* A reply names each value of such a line by the sensor and the parameter it
\* was measured for, when the line was logged with the table of the reply; how
\* often the table has changed in between is no matter.
ReplyIsTrue ==
    reply # None /\ reply.line.complete /\ reply.line.table = reply.table
        => TrueValues(reply.line, reply.values)

\* No line of the log is lost or changed: the file that /sensor leaves open is
\* at its end, so that a header goes behind the lines and not over one.
RecordsAreKept ==
    [][\A n \in DOMAIN file : file[n] # Header => n \in DOMAIN file' /\ file'[n] = file[n]]_vars
=============================================================================
