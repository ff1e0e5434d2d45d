--------------------------- MODULE LogFileProofs ---------------------------
(***************************************************************************)
(* About the log file, seen as lines (SensorLog) and as bytes              *)
(* (FileRequests).                                                         *)
(*                                                                         *)
(* First, that values and names stay together, for any tables, numbers of  *)
(* thermometers and rounds.  Both are counted through several sequences,   *)
(* laid one behind the other; SequenceLemmas says where things are then.   *)
(*                                                                         *)
(* Then, what a download sends and what an edit leaves, for any sizes of   *)
(* files and buffers.  Each is a loop: its invariant is stated of what the *)
(* loop has in hand (Going and Ended of a download, Moving of an edit),    *)
(* and kept by a pass.                                                     *)
(***************************************************************************)
EXTENDS SensorLog, FileRequests, SequenceLemmas, FiniteSetTheorems

\* The rows of a table, what value[] holds, and the lines of the file.
Row == [type : 0..9, pin2 : 1..8]
Cell == Nat \X Nat \X Nat
Line == [time : Nat, table : Seq(Row), values : Seq(Seq(Cell)),
         complete : BOOLEAN]

\* s has as many sequences as T sensors, of as many values as they have.
Shaped(s, T) == Len(s) = Len(T) /\ \A i \in 1..Len(T) : Len(s[i]) = T[i].pin2

-----------------------------------------------------------------------------
\* Where things are.

\* What is known of a sequence's places.
LEMMA Member ==
  ASSUME NEW S, NEW s \in Seq(S)
  PROVE  Len(s) \in Nat /\ DOMAIN s = 1..Len(s) /\ \A i \in 1..Len(s) : s[i] \in S
OBVIOUS

\* A table of sensors, or none, is a sequence of rows.
LEMMA TablesAreSequences ==
  ASSUME NEW T \in Tables \cup {<<>>}
  PROVE  T \in Seq(Row)
<1>1. <<>> \in Seq(Row)
  OBVIOUS
<1> QED BY <1>1, TableAssumption DEF Row

\* A row's type and its pin2, which counts the values of a thermometer.
LEMMA Rows ==
  ASSUME NEW T \in Seq(Row), NEW i \in 1..Len(T)
  PROVE  T[i].type \in 0..9 /\ T[i].pin2 \in 1..8 /\ T[i].pin2 \in Nat /\ i \in Nat
<1>1. T[i] \in Row
  BY Member
<1> QED BY <1>1 DEF Row

\* The names of a table, sensor by sensor.
Named(T) == [i \in DOMAIN T |-> [j \in 1..T[i].pin2 |-> <<i, j>>]]

\* The names of a table come in groups, as many in each as its sensor has values.
LEMMA NamedIsShaped ==
  ASSUME NEW T \in Seq(Row)
  PROVE  Named(T) \in Seq(Seq(Nat \X Nat)) /\ Shaped(Named(T), T) /\ Names(T) = FlattenSeq(Named(T))
<1>1. ASSUME NEW i \in 1..Len(T)
      PROVE  [j \in 1..T[i].pin2 |-> <<i, j>>] \in Seq(Nat \X Nat) /\ T[i].pin2 \in Nat
  <2>1. T[i].pin2 \in Nat /\ i \in Nat
    BY Rows
  <2>2. \A j \in 1..T[i].pin2 : <<i, j>> \in Nat \X Nat
    BY <2>1
  <2> QED BY <2>1, <2>2
<1>2. Named(T) \in Seq(Seq(Nat \X Nat)) /\ Len(Named(T)) = Len(T)
  <2>1. Named(T) \in [1..Len(T) -> Seq(Nat \X Nat)]
    BY <1>1, Member DEF Named
  <2>2. Len(T) \in Nat
    BY Member
  <2> QED BY <2>1, <2>2
<1>3. \A i \in 1..Len(T) : Len(Named(T)[i]) = T[i].pin2
  <2>1. DOMAIN T = 1..Len(T)
    BY Member
  <2>2. ASSUME NEW i \in 1..Len(T) PROVE Len(Named(T)[i]) = T[i].pin2
    <3>1. Named(T)[i] = [j \in 1..T[i].pin2 |-> <<i, j>>]
      BY <2>1 DEF Named
    <3>2. T[i].pin2 \in Nat
      BY <1>1
    <3> QED BY <3>1, <3>2
  <2> QED BY <2>2
<1>4. Names(T) = FlattenSeq(Named(T))
  BY DEF Names, Named
<1> QED BY <1>2, <1>3, <1>4 DEF Shaped

\* recordSensors finds a sensor's values where its names are: behind those of all
\* the sensors before it.
LEMMA OffsetIsPlace ==
  ASSUME NEW T \in Seq(Row), NEW X, NEW s \in Seq(Seq(X)), Shaped(s, T)
  PROVE  /\ Len(FlattenSeq(s)) = Len(Names(T))
         /\ \A i \in 1..Len(T) : Len(FlattenSeq(SubSeq(s, 1, i - 1))) = Offset(T, i)
<1>1. Len(FlattenSeq(s)) = Len(Names(T))
  BY NamedIsShaped, FlattenSameLength DEF Shaped
<1>2. ASSUME NEW i \in 1..Len(T)
      PROVE  Len(FlattenSeq(SubSeq(s, 1, i - 1))) = Offset(T, i)
  <2> DEFINE t == SubSeq(s, 1, i - 1)
             U == SubSeq(T, 1, i - 1)
  <2>0. i - 1 \in 0..Len(T)
    OBVIOUS
  <2>1. Len(T) = Len(s)
    BY DEF Shaped
  <2>2. t \in Seq(Seq(X)) /\ Len(t) = i - 1 /\ \A k \in 1..(i - 1) : t[k] = s[k]
    BY <2>0, <2>1, BeginningOf
  <2>3. U \in Seq(Row) /\ Len(U) = i - 1 /\ \A k \in 1..(i - 1) : U[k] = T[k]
    BY <2>0, BeginningOf
  <2>4. \A k \in 1..(i - 1) : k \in 1..Len(T)
    OBVIOUS
  <2>5. Shaped(t, U)
    <3> HIDE DEF t, U
    <3> QED BY <2>2, <2>3, <2>4 DEF Shaped
  <2>6. Offset(T, i) = Len(Names(U))
    BY DEF Offset
  <2> HIDE DEF t, U
  <2>7. Len(FlattenSeq(t)) = Len(Names(U))
    BY <2>2, <2>3, <2>5, NamedIsShaped, FlattenSameLength DEF Shaped
  <2> QED BY <2>6, <2>7 DEF t
<1> QED BY <1>1, <1>2

\* What a sequence shaped as the table holds at i, j comes where Offset says.
LEMMA ValuePlaces ==
  ASSUME NEW T \in Seq(Row), NEW X, NEW s \in Seq(Seq(X)), Shaped(s, T),
         NEW i \in 1..Len(T), NEW j \in 1..T[i].pin2
  PROVE  /\ Offset(T, i) + j \in 1..Len(FlattenSeq(s))
         /\ Len(FlattenSeq(s)) = Len(Names(T))
         /\ FlattenSeq(s)[Offset(T, i) + j] = s[i][j]
<1>1. i \in 1..Len(s) /\ j \in 1..Len(s[i])
  BY DEF Shaped
<1>2. LET place == Len(FlattenSeq(SubSeq(s, 1, i - 1))) + j
      IN place \in 1..Len(FlattenSeq(s)) /\ FlattenSeq(s)[place] = s[i][j]
  BY <1>1, FlattenPlaces
<1>3. /\ Len(FlattenSeq(s)) = Len(Names(T))
      /\ Len(FlattenSeq(SubSeq(s, 1, i - 1))) = Offset(T, i)
  BY OffsetIsPlace
<1> QED BY <1>2, <1>3

\* A brace in front of a sensor's values moves them by one place.
LEMMA Braced ==
  ASSUME NEW b \in Seq(Cell)
  PROVE  /\ <<Unset>> \o b \in Seq(Cell) /\ Len(<<Unset>> \o b) = Len(b) + 1
         /\ \A q \in 1..Len(b) : /\ 1 + q \in 1..Len(<<Unset>> \o b)
                                 /\ (<<Unset>> \o b)[1 + q] = b[q]
<1>1. Unset \in Cell
  BY DEF Unset, Cell
<1> QED BY <1>1, ConsPlaces

\* With a brace in front of each sensor's, where TokenOf says.
LEMMA TokenPlaces ==
  ASSUME NEW T \in Seq(Row), NEW s \in Seq(Seq(Cell)), Shaped(s, T),
         NEW i \in 1..Len(T), NEW j \in 1..T[i].pin2
  PROVE  FlattenSeq([k \in DOMAIN s |-> <<Unset>> \o s[k]])[Offset(T, i) + i + j] = s[i][j]
<1> DEFINE t == [k \in DOMAIN s |-> <<Unset>> \o s[k]]
<1>2. DOMAIN s = 1..Len(s) /\ Len(s) \in Nat
  BY Member
<1>3. ASSUME NEW k \in 1..Len(s)
      PROVE  /\ t[k] = <<Unset>> \o s[k] /\ t[k] \in Seq(Cell)
             /\ Len(t[k]) = Len(s[k]) + 1
             /\ \A q \in 1..Len(s[k]) : 1 + q \in 1..Len(t[k]) /\ t[k][1 + q] = s[k][q]
  <2>1. s[k] \in Seq(Cell)
    BY Member
  <2>2. t[k] = <<Unset>> \o s[k]
    BY <1>2
  <2> QED BY <2>1, <2>2, Braced
<1>4. t \in Seq(Seq(Cell)) /\ Len(t) = Len(s)
  <2>1. t \in [1..Len(s) -> Seq(Cell)]
    BY <1>2, <1>3
  <2> HIDE DEF t
  <2> QED BY <1>2, <2>1
<1> HIDE DEF t
<1>5. i \in 1..Len(s) /\ j \in 1..Len(s[i]) /\ 1 + j \in 1..Len(t[i]) /\ t[i][1 + j] = s[i][j]
  <2>1. i \in 1..Len(s) /\ j \in 1..Len(s[i])
    BY DEF Shaped
  <2> QED BY <1>3, <2>1
<1>6. Len(FlattenSeq(SubSeq(t, 1, i - 1))) = Offset(T, i) + (i - 1)
  <2> DEFINE u == SubSeq(t, 1, i - 1)
             v == SubSeq(s, 1, i - 1)
  <2>1. i - 1 \in 0..Len(s) /\ i - 1 \in 0..Len(t)
    BY <1>2, <1>4, <1>5
  <2>2. u \in Seq(Seq(Cell)) /\ Len(u) = i - 1 /\ \A k \in 1..(i - 1) : u[k] = t[k]
    BY <1>4, <2>1, BeginningOf
  <2>3. v \in Seq(Seq(Cell)) /\ Len(v) = i - 1 /\ \A k \in 1..(i - 1) : v[k] = s[k]
    BY <2>1, BeginningOf
  <2>4. \A k \in 1..(i - 1) : k \in 1..Len(s)
    BY <1>2, <1>5
  <2>5. Len(FlattenSeq(v)) = Offset(T, i)
    BY OffsetIsPlace
  <2> HIDE DEF u, v
  <2>6. \A k \in 1..Len(v) : Len(u[k]) = Len(v[k]) + 1
    BY <1>3, <2>2, <2>3, <2>4
  <2>7. Len(FlattenSeq(u)) = Len(FlattenSeq(v)) + Len(v)
    BY <2>2, <2>3, <2>6, FlattenLonger
  <2> QED BY <2>3, <2>5, <2>7 DEF u
<1>7. i \in 1..Len(t)
  BY <1>4, <1>5
<1>8. FlattenSeq(t)[Len(FlattenSeq(SubSeq(t, 1, i - 1))) + (1 + j)] = t[i][1 + j]
  BY <1>4, <1>5, <1>7, FlattenPlaces
<1>9. Offset(T, i) \in Nat /\ i \in Int /\ j \in Int
  <2>1. Len(FlattenSeq(SubSeq(s, 1, i - 1))) = Offset(T, i)
    BY OffsetIsPlace
  <2>2. SubSeq(s, 1, i - 1) \in Seq(Seq(Cell))
    <3>1. i - 1 \in 0..Len(s)
      BY <1>2, <1>5
    <3> QED BY <3>1, BeginningOf
  <2>3. FlattenSeq(SubSeq(s, 1, i - 1)) \in Seq(Cell)
    BY <2>2, FlattenType
  <2> QED BY <1>5, <2>1, <2>3, Member
<1>10. (Offset(T, i) + (i - 1)) + (1 + j) = Offset(T, i) + i + j
  BY <1>9
<1> QED BY <1>5, <1>6, <1>8, <1>10 DEF t

-----------------------------------------------------------------------------
(* What stays true. *)

\* More than TypeOK says: what value[] and the lines hold, and that the file, if
\* it is open, is at its end.
Types ==
    /\ up \in BOOLEAN /\ head \in BOOLEAN
    /\ stored \in Tables /\ table \in Tables \cup {<<>>}
    /\ nDSsens \in Thermometers \cup {0}
    /\ value \in [1..NValues -> Cell]
    /\ file \in Seq(Line)
    /\ now \in 0..MaxRounds

Shapes == \A n \in 1..Len(file) : Shaped(file[n].values, file[n].table)

AtEnd == logfile \in {Closed, Len(file)}

LogInv == Types /\ Shapes /\ AtEnd /\ RecordsAreTrue /\ ReplyIsTrue

\* What a sensor delivers is a number.
LEMMA DeliveredIsNat ==
  ASSUME Types, NEW i \in 1..Len(table)
  PROVE  Delivered(table[i]) \in Nat
<1>1. table \in Seq(Row)
  BY TablesAreSequences DEF Types
<1>2. table[i].pin2 \in Nat
  BY <1>1, Rows
<1>3. nDSsens \in Nat
  BY TableAssumption DEF Types
<1> QED BY <1>2, <1>3 DEF Delivered

\* The values that are measured.
LEMMA MeasuredIsType ==
  ASSUME Types, NEW t \in Nat
  PROVE  Measured(t) \in [1..NValues -> Cell]
<1> DEFINE raw == [i \in DOMAIN table |-> [j \in 1..Delivered(table[i]) |-> <<i, j, t>>]]
           new == FlattenSeq(raw)
<1>1. table \in Seq(Row) /\ DOMAIN table = 1..Len(table) /\ Len(table) \in Nat
  BY TablesAreSequences, Member DEF Types
<1>2. ASSUME NEW i \in 1..Len(table)
      PROVE  [j \in 1..Delivered(table[i]) |-> <<i, j, t>>] \in Seq(Cell)
  <2>1. Delivered(table[i]) \in Nat
    BY DeliveredIsNat
  <2>2. \A j \in 1..Delivered(table[i]) : <<i, j, t>> \in Cell
    BY <1>1 DEF Cell
  <2> QED BY <2>1, <2>2
<1>3. raw \in Seq(Seq(Cell))
  <2>1. raw \in [1..Len(table) -> Seq(Cell)]
    BY <1>1, <1>2
  <2> HIDE DEF raw
  <2> QED BY <1>1, <2>1
<1>4. new \in Seq(Cell)
  <2> HIDE DEF raw
  <2> QED BY <1>3, FlattenType
<1>5. Measured(t) = [k \in 1..NValues |->
           IF k \in DOMAIN new /\ table[new[k][1]].type # 7 THEN new[k] ELSE value[k]]
  BY DEF Measured
<1> HIDE DEF new, raw
<1>6. ASSUME NEW k \in 1..NValues
      PROVE  (IF k \in DOMAIN new /\ table[new[k][1]].type # 7 THEN new[k] ELSE value[k]) \in Cell
  <2>1. value[k] \in Cell
    BY DEF Types
  <2>2. k \in DOMAIN new => new[k] \in Cell
    BY <1>4, Member
  <2> QED BY <2>1, <2>2
<1> QED BY <1>5, <1>6

\* What is recorded has the shape of the table.
LEMMA RecordedIsShaped ==
  ASSUME Types, NEW v \in [1..NValues -> Cell]
  PROVE  /\ Recorded(v) \in Seq(Seq(Cell)) /\ Shaped(Recorded(v), table)
         /\ \A i \in 1..Len(table) : \A j \in 1..table[i].pin2 :
               /\ Recorded(v)[i][j] = v[Offset(table, i) + j]
               /\ Offset(table, i) + j \in 1..NValues
<1>1. table \in Seq(Row) /\ DOMAIN table = 1..Len(table) /\ Len(table) \in Nat
  BY TablesAreSequences, Member DEF Types
<1>2. Len(Names(table)) <= NValues /\ NValues \in Nat
  <2>1. CASE table \in Tables
    BY <2>1, FitAssumption, TableAssumption
  <2>2. CASE table = <<>>
    <3>1. Named(<<>>) = <<>>
      BY DEF Named
    <3>2. <<>> \in Seq(Row)
      OBVIOUS
    <3>3. Names(<<>>) = FlattenSeq(<<>>)
      BY <3>1, <3>2, NamedIsShaped
    <3>4. FlattenSeq(<<>>) = <<>>
      BY DEF FlattenSeq
    <3> QED BY <2>2, <3>3, <3>4, TableAssumption
  <2> QED BY <2>1, <2>2 DEF Types
<1>3. ASSUME NEW i \in 1..Len(table), NEW j \in 1..table[i].pin2
      PROVE  Offset(table, i) + j \in 1..NValues
  <2>1. Offset(table, i) + j \in 1..Len(Names(table))
    <3>1. Named(table) \in Seq(Seq(Nat \X Nat)) /\ Shaped(Named(table), table)
      BY <1>1, NamedIsShaped
    <3> QED BY <1>1, <3>1, ValuePlaces
  <2> QED BY <1>2, <2>1
<1>4. ASSUME NEW i \in 1..Len(table)
      PROVE  /\ Recorded(v)[i] = [j \in 1..table[i].pin2 |-> v[Offset(table, i) + j]]
             /\ Recorded(v)[i] \in Seq(Cell) /\ Len(Recorded(v)[i]) = table[i].pin2
  <2>1. Recorded(v)[i] = [j \in 1..table[i].pin2 |-> v[Offset(table, i) + j]]
    BY <1>1 DEF Recorded
  <2>2. \A j \in 1..table[i].pin2 : v[Offset(table, i) + j] \in Cell
    BY <1>3
  <2>3. table[i].pin2 \in Nat
    BY <1>1, Rows
  <2> QED BY <2>1, <2>2, <2>3
<1>5. Recorded(v) \in Seq(Seq(Cell)) /\ Len(Recorded(v)) = Len(table)
  <2>1. DOMAIN Recorded(v) = 1..Len(table)
    BY <1>1 DEF Recorded
  <2>2. Recorded(v) \in [1..Len(table) -> Seq(Cell)]
    BY <1>4, <2>1 DEF Recorded
  <2> QED BY <1>1, <2>2
<1> QED BY <1>3, <1>4, <1>5 DEF Shaped

\* With sensors that deliver what the table says, a value is where its name is.
LEMMA MeasuredIsTrue ==
  ASSUME Types, Complete, NEW t \in Nat, NEW i \in 1..Len(table), NEW j \in 1..table[i].pin2,
         Offset(table, i) + j \in 1..NValues
  PROVE  Measured(t)[Offset(table, i) + j] = <<i, j, t>>
<1> DEFINE raw == [h \in DOMAIN table |-> [k \in 1..Delivered(table[h]) |-> <<h, k, t>>]]
           new == FlattenSeq(raw)
           place == Offset(table, i) + j
<1>1. table \in Seq(Row) /\ DOMAIN table = 1..Len(table) /\ Len(table) \in Nat
  BY TablesAreSequences, Member DEF Types
<1>2. ASSUME NEW h \in 1..Len(table)
      PROVE  /\ raw[h] = [k \in 1..table[h].pin2 |-> <<h, k, t>>]
             /\ raw[h] \in Seq(Cell) /\ Len(raw[h]) = table[h].pin2
  <2>1. raw[h] = [k \in 1..table[h].pin2 |-> <<h, k, t>>]
    BY <1>1 DEF Complete
  <2>2. table[h].pin2 \in Nat
    BY <1>1, Rows
  <2>3. \A k \in 1..table[h].pin2 : <<h, k, t>> \in Cell
    BY <1>1 DEF Cell
  <2> HIDE DEF raw
  <2> QED BY <2>1, <2>2, <2>3
<1>3. raw \in Seq(Seq(Cell)) /\ Len(raw) = Len(table)
  <2>1. raw \in [1..Len(table) -> Seq(Cell)]
    BY <1>1, <1>2
  <2> HIDE DEF raw
  <2> QED BY <1>1, <2>1
<1> HIDE DEF raw
<1>4. Shaped(raw, table)
  BY <1>2, <1>3 DEF Shaped
<1>5. place \in 1..Len(new) /\ new[place] = raw[i][j]
  BY <1>1, <1>3, <1>4, ValuePlaces
<1>6. raw[i][j] = <<i, j, t>>
  BY <1>2
<1>7. place \in DOMAIN new
  <2>1. new \in Seq(Cell)
    BY <1>3, FlattenType
  <2> QED BY <1>5, <2>1, Member
<1>8. table[i].type # 7
  BY <1>1 DEF Complete
<1>9. new[place][1] = i
  BY <1>5, <1>6
<1>10. Measured(t) = [k \in 1..NValues |->
           IF k \in DOMAIN new /\ table[new[k][1]].type # 7 THEN new[k] ELSE value[k]]
  BY DEF Measured, raw
<1> HIDE DEF new
<1> QED BY <1>5, <1>6, <1>7, <1>8, <1>9, <1>10

\* A line that is appended to the log moves no other.
LEMMA AppendPlaces ==
  ASSUME NEW S, NEW s \in Seq(S), NEW e \in S
  PROVE  /\ Append(s, e) \in Seq(S) /\ Len(Append(s, e)) = Len(s) + 1
         /\ DOMAIN Append(s, e) = 1..(Len(s) + 1)
         /\ \A n \in 1..Len(s) : Append(s, e)[n] = s[n]
         /\ Append(s, e)[Len(s) + 1] = e
OBVIOUS

\* A header has the shape of its table.
LEMMA HeaderIsLine == Header \in Line /\ Shaped(Header.values, Header.table) /\ ~Header.complete
<1>1. <<>> \in Seq(Row) /\ <<>> \in Seq(Seq(Cell)) /\ Len(<<>>) = 0
  OBVIOUS
<1>2. Header \in Line
  BY <1>1 DEF Header, Line
<1> QED BY <1>1, <1>2 DEF Header, Shaped

\* With the header the lines that were there stay where they were.
LEMMA HeaderGoesBehind ==
  ASSUME Types, AtEnd
  PROVE  /\ WithHeader \in Seq(Line) /\ Len(file) <= Len(WithHeader)
         /\ \A n \in 1..Len(file) : WithHeader[n] = file[n]
         /\ \A n \in 1..Len(WithHeader) : n \in 1..Len(file) \/ WithHeader[n] = Header
<1>1. file \in Seq(Line) /\ Len(file) \in Nat
  BY Member DEF Types
<1>2. WithHeader \in {file, Append(file, Header)}
  BY DEF WithHeader, AtEnd
<1>3. CASE WithHeader = file
  BY <1>1, <1>3
<1>4. CASE WithHeader = Append(file, Header)
  <2>1. /\ Append(file, Header) \in Seq(Line) /\ Len(Append(file, Header)) = Len(file) + 1
        /\ \A n \in 1..Len(file) : Append(file, Header)[n] = file[n]
        /\ Append(file, Header)[Len(file) + 1] = Header
    BY <1>1, HeaderIsLine, AppendPlaces
  <2>2. \A n \in 1..(Len(file) + 1) : n \in 1..Len(file) \/ n = Len(file) + 1
    BY <1>1
  <2> QED BY <1>1, <1>4, <2>1, <2>2
<1> QED BY <1>2, <1>3, <1>4

\* The line a round adds.
Added == [time |-> now', table |-> table, values |-> Recorded(value'), complete |-> Complete]

\* The line a round adds has the shape of today's table, and when it is complete
\* every value in it is the one its sensor gave in this round.
LEMMA AddedIsLine ==
  ASSUME Types, Round
  PROVE  /\ Added \in Line /\ Shaped(Added.values, Added.table)
         /\ Added.complete => TrueValues(Added, Added.values)
         /\ value' \in [1..NValues -> Cell] /\ now' \in 0..MaxRounds
<1>1. now \in Nat /\ now' = now + 1 /\ now' \in Nat /\ now' \in 0..MaxRounds
  BY TableAssumption DEF Types, Round
<1>2. value' = Measured(now') /\ value' \in [1..NValues -> Cell]
  BY <1>1, MeasuredIsType DEF Round
<1>3. /\ Recorded(value') \in Seq(Seq(Cell)) /\ Shaped(Recorded(value'), table)
      /\ \A i \in 1..Len(table) : \A j \in 1..table[i].pin2 :
            /\ Recorded(value')[i][j] = value'[Offset(table, i) + j]
            /\ Offset(table, i) + j \in 1..NValues
  BY <1>2, RecordedIsShaped
<1>4. table \in Seq(Row) /\ DOMAIN table = 1..Len(table)
  BY TablesAreSequences, Member DEF Types
<1>5. Complete \in BOOLEAN
  BY DEF Complete
<1>6. Added \in Line
  BY <1>1, <1>3, <1>4, <1>5 DEF Added, Line
<1>7. ASSUME Complete, NEW i \in 1..Len(table), NEW j \in 1..table[i].pin2
      PROVE  Recorded(value')[i][j] = <<i, j, now'>>
  <2>1. Measured(now')[Offset(table, i) + j] = <<i, j, now'>>
    BY <1>1, <1>3, <1>7, MeasuredIsTrue
  <2> QED BY <1>2, <1>3, <2>1
<1>8. Added.complete => TrueValues(Added, Added.values)
  BY <1>4, <1>7 DEF Added, TrueValues
<1> QED BY <1>1, <1>2, <1>3, <1>6, <1>8 DEF Added

\* A round of readings keeps the log in order.
LEMMA RoundStep == LogInv /\ Round => LogInv'
<1> SUFFICES ASSUME LogInv, Round PROVE LogInv'
  OBVIOUS
<1>0. Types /\ Shapes /\ AtEnd /\ RecordsAreTrue /\ ReplyIsTrue
  BY DEF LogInv
<1> DEFINE W == WithHeader  A == Added
<1>1. /\ W \in Seq(Line) /\ Len(file) <= Len(W)
      /\ \A n \in 1..Len(W) : n \in 1..Len(file) \/ W[n] = Header
      /\ \A n \in 1..Len(file) : W[n] = file[n]
  BY <1>0, HeaderGoesBehind
<1>2. /\ A \in Line /\ Shaped(A.values, A.table)
      /\ A.complete => TrueValues(A, A.values)
      /\ value' \in [1..NValues -> Cell] /\ now' \in 0..MaxRounds
  BY <1>0, AddedIsLine
<1>3. file' = Append(W, A)
  BY DEF Round, Added
<1> HIDE DEF W, A
<1>4. /\ file' \in Seq(Line) /\ Len(file') = Len(W) + 1 /\ DOMAIN file' = 1..(Len(W) + 1)
      /\ \A n \in 1..Len(W) : file'[n] = W[n]
      /\ file'[Len(W) + 1] = A
  BY <1>1, <1>2, <1>3, AppendPlaces
<1>5. ASSUME NEW n \in 1..(Len(W) + 1)
      PROVE  \/ n \in 1..Len(file) /\ file'[n] = file[n]
             \/ file'[n] = Header
             \/ file'[n] = A
  <2>1. Len(W) \in Nat
    BY <1>1, Member
  <2>2. n \in 1..Len(W) \/ n = Len(W) + 1
    BY <2>1
  <2> QED BY <1>1, <1>4, <2>2
<1>6. Types'
  BY <1>0, <1>2, <1>4 DEF Types, Round
<1>7. Shapes'
  <2>1. ASSUME NEW n \in 1..(Len(W) + 1) PROVE Shaped(file'[n].values, file'[n].table)
    BY <1>0, <1>2, <1>5, HeaderIsLine DEF Shapes
  <2> QED BY <1>4, <2>1 DEF Shapes
<1>8. AtEnd'
  BY DEF AtEnd, Round
<1>9. RecordsAreTrue'
  <2>1. DOMAIN file = 1..Len(file)
    BY <1>0, Member DEF Types
  <2>2. ASSUME NEW n \in 1..(Len(W) + 1), file'[n].complete
        PROVE  TrueValues(file'[n], file'[n].values)
    BY <1>0, <1>2, <1>5, <2>1, <2>2, HeaderIsLine DEF RecordsAreTrue
  <2>3. \A n \in DOMAIN file' : file'[n].complete => TrueValues(file'[n], file'[n].values)
    BY <1>4, <2>2
  <2> QED BY <2>3 DEF RecordsAreTrue, TrueValues
<1>10. ReplyIsTrue'
  BY <1>0 DEF ReplyIsTrue, Round, TrueValues
<1> QED BY <1>6, <1>7, <1>8, <1>9, <1>10 DEF LogInv

\* What a restart clears keeps its types.
LEMMA RestartStep ==
  ASSUME LogInv, Restarted, UNCHANGED file
  PROVE  Types' <=> (stored' \in Tables /\ now' \in 0..MaxRounds)
<1>1. [k \in 1..NValues |-> Unset] \in [1..NValues -> Cell]
  BY DEF Unset, Cell
<1> QED BY <1>1 DEF LogInv, Types, Restarted

\* So does a reply to /sensor, which only moves the position of the file.
LEMMA GetStep ==
  ASSUME LogInv, NEW asked \in Nat, handleSensorsGet(asked)
  PROVE  LogInv'
<1>0. Types /\ Shapes /\ AtEnd /\ RecordsAreTrue /\ ReplyIsTrue
  BY DEF LogInv
<1>1. PICK s \in Starts :
        LET found == Fitting(s, asked) IN
        /\ up
        /\ \/ /\ found = {}
              /\ logfile' = Len(file)
              /\ UNCHANGED <<up, table, nDSsens, value, head, reply>>
           \/ \E n \in found :
                 /\ \A m \in found : n <= m
                 /\ LET tokens == Tokens(file[n]) IN
                    IF Len(tokens) < LastToken THEN Restarted
                    ELSE /\ logfile' = Closed
                         /\ reply' = [asked |-> asked, line |-> file[n], table |-> table,
                                      values |-> [i \in DOMAIN table |->
                                          [j \in 1..table[i].pin2 |-> tokens[TokenOf(i, j)]]]]
                         /\ UNCHANGED <<up, table, nDSsens, value, head>>
        /\ UNCHANGED <<stored, file, now>>
  BY DEF handleSensorsGet
<1>2. stored' = stored /\ file' = file /\ now' = now
  BY <1>1
<1>3. Shapes' /\ RecordsAreTrue'
  BY <1>0, <1>2 DEF Shapes, RecordsAreTrue, TrueValues
<1>4. CASE /\ logfile' = Len(file)
           /\ UNCHANGED <<up, table, nDSsens, value, head, reply>>
  <2>1. Types' /\ AtEnd'
    BY <1>0, <1>2, <1>4 DEF Types, AtEnd
  <2>2. ReplyIsTrue'
    BY <1>0, <1>4 DEF ReplyIsTrue, TrueValues
  <2> QED BY <1>3, <2>1, <2>2 DEF LogInv
<1>5. CASE Restarted
  <2>1. Types'
    BY <1>0, <1>2, <1>5, RestartStep DEF Types
  <2>2. AtEnd' /\ ReplyIsTrue'
    BY <1>5 DEF Restarted, AtEnd, ReplyIsTrue
  <2> QED BY <1>3, <2>1, <2>2 DEF LogInv
<1>6. ASSUME NEW n \in Fitting(s, asked),
             logfile' = Closed,
             reply' = [asked |-> asked, line |-> file[n], table |-> table,
                       values |-> [i \in DOMAIN table |->
                           [j \in 1..table[i].pin2 |-> Tokens(file[n])[TokenOf(i, j)]]]],
             UNCHANGED <<up, table, nDSsens, value, head>>
      PROVE  LogInv'
  <2>1. n \in 1..Len(file) /\ n \in DOMAIN file /\ file[n] \in Line
    <3>1. n \in s..Len(file) /\ s \in 1..(Len(file) + 1)
      BY DEF Fitting, Starts
    <3>2. Len(file) \in Nat /\ DOMAIN file = 1..Len(file) /\ \A m \in 1..Len(file) : file[m] \in Line
      BY <1>0, Member DEF Types
    <3>3. n \in 1..Len(file)
      BY <3>1, <3>2
    <3> QED BY <3>2, <3>3
  <2> DEFINE r == file[n]
  <2>2. r.values \in Seq(Seq(Cell)) /\ Shaped(r.values, r.table)
    BY <1>0, <2>1 DEF Shapes, Line
  <2>3. table \in Seq(Row) /\ DOMAIN table = 1..Len(table)
    BY <1>0, TablesAreSequences, Member DEF Types
  <2>4. /\ reply'.line = r /\ reply'.table = table
        /\ reply'.values = [i \in DOMAIN table |->
                               [j \in 1..table[i].pin2 |-> Tokens(r)[TokenOf(i, j)]]]
    BY <1>6
  <2>5. ASSUME r.complete, r.table = table, NEW i \in 1..Len(table), NEW j \in 1..table[i].pin2
        PROVE  reply'.values[i][j] = <<i, j, r.time>>
    <3>1. reply'.values[i][j] = Tokens(r)[Offset(table, i) + i + j]
      BY <2>3, <2>4 DEF TokenOf
    <3>2. Tokens(r)[Offset(table, i) + i + j] = r.values[i][j]
      BY <2>2, <2>3, <2>5, TokenPlaces DEF Tokens
    <3>3. r.values[i][j] = <<i, j, r.time>>
      BY <1>0, <2>1, <2>3, <2>5 DEF RecordsAreTrue, TrueValues
    <3> QED BY <3>1, <3>2, <3>3
  <2> HIDE DEF r
  <2>6. ReplyIsTrue'
    <3>1. ASSUME reply'.line.complete, reply'.line.table = reply'.table
          PROVE  TrueValues(reply'.line, reply'.values)
      BY <2>3, <2>4, <2>5, <3>1 DEF TrueValues
    <3> QED BY <3>1 DEF ReplyIsTrue, TrueValues
  <2>7. Types' /\ AtEnd'
    BY <1>0, <1>2, <1>6 DEF Types, AtEnd
  <2> QED BY <1>3, <2>6, <2>7 DEF LogInv
<1> QED BY <1>1, <1>4, <1>5, <1>6

\* So does every other step.
LEMMA LogStep == LogInv /\ [Next]_vars => LogInv'
<1> SUFFICES ASSUME LogInv, [Next]_vars PROVE LogInv'
  OBVIOUS
<1>0. Types /\ Shapes /\ AtEnd /\ RecordsAreTrue /\ ReplyIsTrue
  BY DEF LogInv
<1>1. CASE Round
  BY <1>1, RoundStep
<1>2. ASSUME NEW asked \in 0..(now + 1), handleSensorsGet(asked) PROVE LogInv'
  <2>1. asked \in Nat
    BY <1>0, TableAssumption DEF Types
  <2> QED BY <1>2, <2>1, GetStep
<1>3. CASE UNCHANGED <<file, reply, table, logfile>> /\ Types'
  <2>1. Shapes' /\ RecordsAreTrue' /\ AtEnd' /\ ReplyIsTrue'
    BY <1>0, <1>3 DEF Shapes, RecordsAreTrue, TrueValues, AtEnd, ReplyIsTrue
  <2> QED BY <1>3, <2>1 DEF LogInv
<1>4. ASSUME NEW k \in 1..NValues, sval(k) PROVE LogInv'
  <2>1. Unset \in Cell
    BY DEF Unset, Cell
  <2>2. value' \in [1..NValues -> Cell]
    BY <1>0, <1>4, <2>1 DEF Types, sval
  <2>3. UNCHANGED <<file, reply, table, logfile>> /\ Types'
    BY <1>0, <1>4, <2>2 DEF Types, sval
  <2> QED BY <1>3, <2>3
<1>5. ASSUME NEW T \in Tables, handleLogRule(T) PROVE LogInv'
  <2>1. UNCHANGED <<file, reply, table, logfile>> /\ Types'
    BY <1>0, <1>5 DEF Types, handleLogRule
  <2> QED BY <1>3, <2>1
<1>6. CASE PowerLoss
  <2>1. Restarted /\ stored' = stored /\ file' = file /\ now' = now
    BY <1>6 DEF PowerLoss
  <2>2. Types'
    BY <1>0, <2>1, RestartStep DEF Types
  <2>3. Shapes' /\ RecordsAreTrue' /\ AtEnd' /\ ReplyIsTrue'
    BY <1>0, <2>1 DEF Shapes, RecordsAreTrue, TrueValues, AtEnd, ReplyIsTrue, Restarted
  <2> QED BY <2>2, <2>3 DEF LogInv
<1>7. CASE Boot
  <2>1. Types'
    BY <1>0, <1>7 DEF Types, Boot
  <2>2. Shapes' /\ RecordsAreTrue' /\ AtEnd' /\ ReplyIsTrue'
    BY <1>0, <1>7 DEF Shapes, RecordsAreTrue, TrueValues, AtEnd, ReplyIsTrue, Boot
  <2> QED BY <2>1, <2>2 DEF LogInv
<1>8. CASE UNCHANGED vars
  <2>1. UNCHANGED <<file, reply, table, logfile>> /\ Types'
    BY <1>0, <1>8 DEF Types, vars
  <2> QED BY <1>3, <2>1
<1> QED BY <1>1, <1>2, <1>4, <1>5, <1>6, <1>7, <1>8 DEF Next

\* The log is in order when the unit is new.
LEMMA LogStart == Init => LogInv
<1> SUFFICES ASSUME Init PROVE LogInv
  OBVIOUS
<1>1. [k \in 1..NValues |-> Unset] \in [1..NValues -> Cell]
  BY DEF Unset, Cell
<1>2. file = <<>> /\ file \in Seq(Line) /\ Len(file) = 0 /\ DOMAIN file = {}
  BY DEF Init
<1>3. Types
  <2>1. up \in BOOLEAN /\ head \in BOOLEAN /\ stored \in Tables /\ table \in Tables \cup {<<>>}
    BY Zenon DEF Init
  <2>2. nDSsens \in Thermometers \cup {0}
    BY DEF Init
  <2>3. value \in [1..NValues -> Cell]
    BY <1>1 DEF Init
  <2>4. now \in 0..MaxRounds
    BY TableAssumption DEF Init
  <2> QED BY <1>2, <2>1, <2>2, <2>3, <2>4 DEF Types
<1>4. Shapes /\ RecordsAreTrue
  BY <1>2 DEF Shapes, RecordsAreTrue
<1>5. AtEnd /\ ReplyIsTrue
  BY DEF Init, AtEnd, ReplyIsTrue
<1> QED BY <1>3, <1>4, <1>5 DEF LogInv

\* Together: the log is always in order.
LEMMA LogInvariant == Spec => []LogInv
BY LogStart, LogStep, PTL DEF Spec

-----------------------------------------------------------------------------
\* The variables keep their types, lines are as long as their table says, and
\* the log file is never open beyond its end, for any tables and rounds.
THEOREM TypeCorrect == Spec => []TypeOK
<1>1. LogInv => TypeOK
  <2> SUFFICES ASSUME LogInv PROVE TypeOK
    OBVIOUS
  <2>1. Types /\ Shapes /\ AtEnd
    BY DEF LogInv
  <2>2. /\ Len(file) \in Nat /\ DOMAIN file = 1..Len(file)
        /\ \A n \in 1..Len(file) : file[n] \in Line
    BY <2>1, Member DEF Types
  <2>3. ASSUME NEW n \in DOMAIN file, NEW i \in DOMAIN file[n].table
        PROVE  Len(file[n].values[i]) = file[n].table[i].pin2
    <3>1. file[n].table \in Seq(Row) /\ Shaped(file[n].values, file[n].table)
      BY <2>1, <2>2 DEF Line, Shapes
    <3>2. i \in 1..Len(file[n].table)
      BY <3>1, Member
    <3> QED BY <3>1, <3>2 DEF Shaped
  <2>4. logfile \in {Closed} \cup 0..Len(file)
    BY <2>1, <2>2 DEF AtEnd
  <2>5. DOMAIN value = 1..NValues
    BY <2>1 DEF Types
  <2> QED BY <2>1, <2>3, <2>4, <2>5 DEF TypeOK, Types
<1> QED BY <1>1, LogInvariant, PTL

\* A line logged when every sensor delivered what the table says holds what was
\* measured, each value with its own sensor, for any table that fits value[].
THEOREM LinesAreTrue == Spec => []RecordsAreTrue
<1>1. LogInv => RecordsAreTrue
  BY DEF LogInv
<1> QED BY <1>1, LogInvariant, PTL

\* A reply made of such a line with the table it was logged with names every
\* value rightly.
THEOREM RepliesAreTrue == Spec => []ReplyIsTrue
<1>1. LogInv => ReplyIsTrue
  BY DEF LogInv
<1> QED BY <1>1, LogInvariant, PTL

\* No step overwrites or drops a line of the log: wherever /sensor has left the
\* file open, the header that follows goes behind the lines.
THEOREM LinesStay == Spec => RecordsAreKept
<1> DEFINE Kept == \A n \in DOMAIN file : file[n] # Header => n \in DOMAIN file' /\ file'[n] = file[n]
<1>1. ASSUME LogInv, Next PROVE Kept
  <2>1. Types /\ AtEnd
    BY <1>1 DEF LogInv
  <2>2. CASE Round
    <3> DEFINE W == WithHeader  A == Added
    <3>1. W \in Seq(Line) /\ Len(file) <= Len(W) /\ \A n \in 1..Len(file) : W[n] = file[n]
      BY <2>1, HeaderGoesBehind
    <3>2. A \in Line
      BY <2>1, <2>2, AddedIsLine
    <3>3. file' = Append(W, A)
      BY <2>2 DEF Round, Added
    <3> HIDE DEF W, A
    <3>4. DOMAIN file' = 1..(Len(W) + 1) /\ \A n \in 1..Len(W) : file'[n] = W[n]
      BY <3>1, <3>2, <3>3, AppendPlaces
    <3>5. DOMAIN file = 1..Len(file) /\ Len(file) \in Nat /\ Len(W) \in Nat
      BY <2>1, <3>1, Member DEF Types
    <3> QED BY <3>1, <3>4, <3>5
  <2>3. CASE ~Round
    <3>1. file' = file
      BY <1>1, <2>3 DEF Next, handleSensorsGet, sval, handleLogRule, PowerLoss, Boot
    <3> QED BY <3>1
  <2> QED BY <2>2, <2>3
<1>2. LogInv /\ [Next]_vars => [Kept]_vars
  BY <1>1
<1> HIDE DEF Kept
<1>3. Spec => [][Kept]_vars
  BY <1>2, LogInvariant, PTL DEF Spec
<1> QED BY <1>3 DEF RecordsAreKept, Kept

-----------------------------------------------------------------------------
(* A file as bytes. *)

\* What a write leaves of a file, and what it adds.
LEMMA WriteIs ==
  ASSUME NEW X, NEW f \in Seq(X), NEW text \in Seq(X), NEW pos \in 0..Len(f)
  PROVE  LET w == Write(f, pos, text) IN
         /\ w \in Seq(X)
         /\ Len(w) = IF pos + Len(text) > Len(f) THEN pos + Len(text) ELSE Len(f)
         /\ \A i \in 1..pos : w[i] = f[i]
         /\ \A i \in 1..Len(text) : w[pos + i] = text[i]
         /\ \A i \in (pos + Len(text) + 1)..Len(f) : w[i] = f[i]
<1> DEFINE n == Len(f)
           m == Len(text)
           k == pos + m + 1
           a == SubSeq(f, 1, pos)
           c == SubSeq(f, k, n)
           w == Write(f, pos, text)
<1>1. n \in Nat /\ m \in Nat /\ pos \in Nat /\ pos <= n
  OBVIOUS
<1>2. a \in Seq(X) /\ Len(a) = pos /\ \A i \in 1..pos : a[i] = f[i]
  BY BeginningOf
<1>3. c \in Seq(X) /\ Len(c) = (IF pos + m + 1 <= n THEN n - (pos + m) ELSE 0)
      /\ \A i \in 1..Len(c) : c[i] = f[pos + m + i]
  <2>1. k \in Nat \ {0} /\ n \in Nat /\ n <= Len(f) /\ n - k + 1 = n - (pos + m)
    BY <1>1
  <2>2. c \in Seq(X) /\ Len(c) = (IF k <= n THEN n - k + 1 ELSE 0)
        /\ \A i \in 1..Len(c) : c[i] = f[k + i - 1]
    <3> HIDE DEF k, n
    <3> QED BY <2>1, PartOf
  <2> HIDE DEF c
  <2>3. ASSUME NEW i \in 1..Len(c) PROVE c[i] = f[pos + m + i]
    <3>1. k + i - 1 = pos + m + i
      BY <1>1
    <3> QED BY <2>2, <3>1
  <2> QED BY <2>1, <2>2, <2>3
<1>4. w = (a \o text) \o c
  BY DEF Write
<1>0. text \in Seq(X) /\ Len(text) = m /\ Len(f) = n
  OBVIOUS
<1> HIDE DEF a, c, w, n, m
<1> DEFINE b == a \o text
<1>5. b \in Seq(X) /\ Len(b) = pos + m
      /\ (\A i \in 1..pos : b[i] = a[i]) /\ \A i \in 1..m : b[pos + i] = text[i]
  <2>1. b \in Seq(X)
    BY <1>0, <1>2
  <2>2. Len(b) = pos + m
    BY <1>0, <1>2, ConcatLength
  <2>3. \A i \in 1..Len(a) : b[i] = a[i]
    BY <1>0, <1>2, ConcatFirst
  <2>4. \A i \in 1..Len(text) : b[Len(a) + i] = text[i]
    BY <1>0, <1>2, ConcatSecond
  <2> QED BY <1>0, <1>2, <2>1, <2>2, <2>3, <2>4
<1> HIDE DEF b
<1>6. w = b \o c
  BY <1>4 DEF b
<1>7. w \in Seq(X) /\ Len(w) = pos + m + Len(c)
  <2>1. w \in Seq(X)
    BY <1>3, <1>5, <1>6
  <2>2. Len(w) = Len(b) + Len(c)
    BY <1>3, <1>5, <1>6, ConcatLength
  <2> QED BY <1>5, <2>1, <2>2
<1>8. \A i \in 1..(pos + m) : w[i] = b[i]
  BY <1>3, <1>5, <1>6, ConcatFirst
<1>9. \A i \in 1..Len(c) : w[pos + m + i] = c[i]
  <2>0. b \in Seq(X) /\ c \in Seq(X)
    BY <1>3, <1>5
  <2>1. \A i \in 1..Len(c) : (b \o c)[Len(b) + i] = c[i]
    BY <2>0, ConcatSecond
  <2> QED BY <1>5, <1>6, <2>1
<1>10. Len(w) = IF pos + m > n THEN pos + m ELSE n
  BY <1>1, <1>3, <1>7
<1>11. \A i \in 1..pos : w[i] = f[i]
  BY <1>1, <1>2, <1>5, <1>8
<1>12. \A i \in 1..m : w[pos + i] = text[i]
  <2>1. ASSUME NEW i \in 1..m PROVE w[pos + i] = text[i]
    <3>1. pos + i \in 1..(pos + m)
      BY <1>1
    <3> QED BY <1>5, <1>8, <3>1
  <2> QED BY <2>1
<1>13. \A i \in (pos + m + 1)..n : w[i] = f[i]
  <2>1. ASSUME NEW i \in (pos + m + 1)..n PROVE w[i] = f[i]
    <3> DEFINE j == i - (pos + m)
    <3>1. j \in 1..Len(c) /\ pos + m + j = i
      BY <1>1, <1>3
    <3> HIDE DEF j
    <3> QED BY <1>3, <1>9, <3>1
  <2> QED BY <2>1
<1> QED BY <1>0, <1>7, <1>10, <1>11, <1>12, <1>13 DEF w
\* The smaller of two numbers is one of them.
LEMMA SmallerIs ==
  ASSUME NEW a \in Int, NEW b \in Int
  PROVE  /\ Smaller(a, b) \in Int /\ Smaller(a, b) <= a /\ Smaller(a, b) <= b
         /\ Smaller(a, b) \in {a, b}
BY DEF Smaller

-----------------------------------------------------------------------------
(* What a download sends. *)

\* The last bytes of the file, no more than MAXSIZ, are what a download is of.
LEMMA SoughtIs ==
  ASSUME NEW f \in Seq(Bytes)
  PROVE  /\ Sought(f) \in Seq(Bytes) /\ Len(Sought(f)) <= MAXSIZ
         /\ Sought(f) = LastBytes(f)
<1>1. MAXSIZ \in Nat /\ Len(f) \in Nat
  BY BufferAssumption
<1>2. CASE Len(f) <= MAXSIZ
  <2>1. Smaller(Len(f), MAXSIZ) = Len(f) /\ Len(f) - Len(f) + 1 = 1
    BY <1>1, <1>2 DEF Smaller
  <2>2. SubSeq(f, 1, Len(f)) = f
    BY WholeSeq
  <2>3. Sought(f) = f /\ LastBytes(f) = f
    BY <1>2, <2>1, <2>2 DEF Sought, LastBytes
  <2> QED BY <1>2, <2>3
<1>3. CASE ~(Len(f) <= MAXSIZ)
  <2> DEFINE a == Len(f) - MAXSIZ + 1
  <2>1. Smaller(Len(f), MAXSIZ) = MAXSIZ
    BY <1>1, <1>3 DEF Smaller
  <2>2. Sought(f) = SubSeq(f, a, Len(f)) /\ LastBytes(f) = SubSeq(f, a, Len(f))
    BY <1>3, <2>1 DEF Sought, LastBytes
  <2>3. a \in Nat \ {0} /\ Len(f) <= Len(f) /\ a <= Len(f) + 1 /\ Len(f) - a + 1 = MAXSIZ
    BY <1>1, <1>3
  <2> HIDE DEF a
  <2>4. SubSeq(f, a, Len(f)) \in Seq(Bytes)
        /\ Len(SubSeq(f, a, Len(f))) = IF a <= Len(f) THEN Len(f) - a + 1 ELSE 0
    BY <1>1, <2>3, PartOf
  <2> QED BY <1>1, <2>2, <2>3, <2>4
<1> QED BY <1>2, <1>3

\* What a download has in hand.
Downloads == [siz : Int, left : Seq(Bytes), buf : Seq(Bytes), str : Seq(Bytes)]

\* A download of T that goes on after k full buffers: each of them took one off
\* siz less than it sent.
Going(T, s, k) ==
    /\ s.siz > 0 /\ Len(T) - s.siz = k * (BUFFDIM - 1) /\ Len(s.str) + s.siz = Len(T) + k
    /\ Len(s.left) = IF Len(s.str) <= Len(T) THEN Len(T) - Len(s.str) ELSE 0
    /\ \A i \in 1..Len(s.left) : s.left[i] = T[Len(s.str) + i]
    /\ (k = 0 \/ Len(s.buf) = BUFFDIM) /\ Len(s.buf) <= BUFFDIM

\* One that has sent all, and a byte more for each of its full buffers.
Ended(T, s, k) ==
    /\ s.siz <= 0 /\ k * (BUFFDIM - 1) <= Len(T)
    /\ Len(T) <= Len(s.str) /\ Len(s.str) <= Len(T) + k

SendsFirst(T, s) == \A i \in 1..Len(s.str) : i <= Len(T) => s.str[i] = T[i]

\* A pass of a download that goes on sends what comes next.
LEMMA ChunkGoes ==
  ASSUME NEW T \in Seq(Bytes), NEW k \in Nat, NEW s \in Downloads,
         SendsFirst(T, s), Going(T, s, k)
  PROVE  /\ Chunk(s) \in Downloads /\ SendsFirst(T, Chunk(s))
         /\ Chunk(s).siz = s.siz - (BUFFDIM - 1)
         /\ Going(T, Chunk(s), k + 1) \/ Ended(T, Chunk(s), k)
<1> DEFINE B == BUFFDIM
           L == Len(T)
           d == Len(s.str)
           l == Len(s.left)
           len == Smaller(s.siz, B)
           g == Smaller(len, l)
           got == SubSeq(s.left, 1, g)
           rest == SubSeq(s.buf, g + 1, Len(s.buf))
           buf == got \o rest
           out == SubSeq(buf, 1, len)
           left == SubSeq(s.left, len + 1, l)
           str == s.str \o out
<1>1. /\ B \in Nat /\ B >= 2 /\ L \in Nat /\ d \in Nat /\ l \in Nat /\ Len(s.buf) \in Nat
      /\ s.siz \in Int /\ s.left \in Seq(Bytes) /\ s.buf \in Seq(Bytes) /\ s.str \in Seq(Bytes)
  BY BufferAssumption DEF Downloads
<1>2. /\ s.siz > 0 /\ L - s.siz = k * (B - 1) /\ d + s.siz = L + k
      /\ l = (IF d <= L THEN L - d ELSE 0)
      /\ (\A i \in 1..l : s.left[i] = T[d + i])
      /\ (k = 0 \/ Len(s.buf) = B) /\ Len(s.buf) <= B
  BY DEF Going
<1>3. len \in Nat \ {0} /\ len <= s.siz /\ len <= B /\ len \in {s.siz, B}
  <2>1. s.siz \in Int /\ B \in Int /\ s.siz > 0 /\ B > 0
    BY <1>1, <1>2
  <2> HIDE DEF B
  <2>2. len \in Int /\ len <= s.siz /\ len <= B /\ len \in {s.siz, B}
    BY <2>1, SmallerIs
  <2> HIDE DEF len
  <2> QED BY <2>1, <2>2
<1>4. Chunk(s) = [siz |-> s.siz - (B - 1), left |-> left, buf |-> buf, str |-> str]
  <2>0. g \in Nat /\ g <= Len(s.left)
    <3>1. len \in Int /\ l \in Int /\ len \in Nat /\ l \in Nat
      BY <1>1, <1>3
    <3> HIDE DEF len, l
    <3>2. g \in Int /\ g <= l /\ g \in {len, l}
      BY <3>1, SmallerIs
    <3> HIDE DEF g
    <3> QED BY <3>1, <3>2 DEF l
  <2>1. Len(got) = g
    <3> HIDE DEF g
    <3> QED BY <1>1, <2>0, BeginningOf
  <2>2. ~(s.siz <= 0)
    BY <1>1, <1>2
  <2> QED BY <2>1, <2>2 DEF Chunk
<1>5. \A i \in 1..d : i <= L => s.str[i] = T[i]
  BY DEF SendsFirst
<1> HIDE DEF B, L, d, l, len
<1>6. g \in Nat /\ g <= len /\ g <= l /\ g \in {len, l}
  <2>1. len \in Int /\ l \in Int /\ len \in Nat /\ l \in Nat
    BY <1>1, <1>3
  <2>2. g \in Int /\ g <= len /\ g <= l /\ g \in {len, l}
    BY <2>1, SmallerIs
  <2> HIDE DEF g
  <2> QED BY <2>1, <2>2
<1> HIDE DEF g
<1>7. got \in Seq(Bytes) /\ Len(got) = g /\ \A i \in 1..g : got[i] = s.left[i]
  <2>1. s.left \in Seq(Bytes) /\ g \in 0..Len(s.left)
    BY <1>1, <1>6 DEF l
  <2> QED BY <2>1, BeginningOf
<1> HIDE DEF got
<1>8. rest \in Seq(Bytes) /\ Len(rest) = IF g + 1 <= Len(s.buf) THEN Len(s.buf) - g ELSE 0
  <2>1. g + 1 \in Nat \ {0} /\ Len(s.buf) <= Len(s.buf) /\ Len(s.buf) - (g + 1) + 1 = Len(s.buf) - g
    BY <1>1, <1>6
  <2>2. rest \in Seq(Bytes) /\ Len(rest) = IF g + 1 <= Len(s.buf) THEN Len(s.buf) - (g + 1) + 1 ELSE 0
    BY <1>1, <2>1, PartOf
  <2> QED BY <2>1, <2>2
<1> HIDE DEF rest
<1>9. /\ buf \in Seq(Bytes) /\ Len(buf) = g + Len(rest)
      /\ \A i \in 1..g : buf[i] = got[i]
  <2>1. got \in Seq(Bytes) /\ rest \in Seq(Bytes)
    BY <1>7, <1>8
  <2>2. buf \in Seq(Bytes) /\ Len(buf) = Len(got) + Len(rest)
    BY <2>1, ConcatLength
  <2>3. \A i \in 1..Len(got) : buf[i] = got[i]
    BY <2>1, ConcatFirst
  <2> QED BY <1>7, <2>2, <2>3
<1> HIDE DEF buf
<1>10. len <= Len(buf) /\ Len(buf) <= B /\ (len = B => Len(buf) = B)
  <2>1. CASE k = 0
    <3>1. k * (B - 1) = 0
      BY <1>1, <2>1
    <3>2. s.siz = L /\ d = 0 /\ l = L
      <4> DEFINE z == s.siz
      <4>1. z \in Int /\ L - z = 0 /\ d + z = L
        BY <1>1, <1>2, <2>1, <3>1
      <4> HIDE DEF z
      <4>2. z = L /\ d = 0
        BY <1>1, <2>1, <4>1
      <4>3. l = L
        BY <1>1, <1>2, <4>2
      <4> QED BY <4>2, <4>3 DEF z
    <3>3. g = len
      BY <1>1, <1>3, <1>6, <3>2
    <3> DEFINE a == Len(s.buf)
               b == Len(buf)
               c == Len(rest)
    <3>4. /\ a \in Nat /\ b \in Int /\ c \in Int /\ a <= B /\ B \in Int /\ len \in Int
          /\ len <= B
      BY <1>1, <1>2, <1>3, <1>8, <1>9
    <3>5. b = len + c /\ c = IF len + 1 <= a THEN a - len ELSE 0
      BY <1>8, <1>9, <3>3
    <3> HIDE DEF a, b, c
    <3>6. len <= b /\ b <= B /\ (len = B => b = B)
      BY <3>4, <3>5
    <3> QED BY <3>6 DEF b
  <2>2. CASE k # 0
    <3>1. Len(s.buf) = B
      BY <1>2, <2>2
    <3> QED BY <1>1, <1>3, <1>6, <1>8, <1>9, <3>1
  <2> QED BY <2>1, <2>2
<1>11. out \in Seq(Bytes) /\ Len(out) = len /\ \A i \in 1..len : out[i] = buf[i]
  <2>1. len \in 0..Len(buf)
    BY <1>3, <1>9, <1>10
  <2> QED BY <1>9, <2>1, BeginningOf
<1> HIDE DEF out
<1>12. /\ left \in Seq(Bytes) /\ Len(left) = (IF len + 1 <= l THEN l - len ELSE 0)
       /\ \A i \in 1..Len(left) : left[i] = s.left[len + i]
  <2> DEFINE m == len + 1
  <2>1. m \in Nat \ {0} /\ l \in Nat /\ l <= Len(s.left) /\ l - m + 1 = l - len
    BY <1>1, <1>3 DEF l
  <2>2. s.left \in Seq(Bytes) /\ left = SubSeq(s.left, m, l)
    BY <1>1 DEF l
  <2> HIDE DEF left, m
  <2>3. left \in Seq(Bytes) /\ Len(left) = (IF m <= l THEN l - m + 1 ELSE 0)
        /\ \A i \in 1..Len(left) : left[i] = s.left[m + i - 1]
    BY <2>1, <2>2, PartOf
  <2> USE DEF m
  <2>4. ASSUME NEW i \in 1..Len(left) PROVE left[i] = s.left[len + i]
    <3>1. m + i - 1 = len + i
      BY <1>3
    <3> QED BY <2>3, <3>1
  <2> QED BY <2>1, <2>3, <2>4
<1> HIDE DEF left
<1>13. /\ str \in Seq(Bytes) /\ Len(str) = d + len
       /\ (\A i \in 1..d : str[i] = s.str[i]) /\ \A i \in 1..len : str[d + i] = out[i]
  <2>1. out \in Seq(Bytes) /\ s.str \in Seq(Bytes)
    BY <1>1, <1>11
  <2>2. str \in Seq(Bytes) /\ Len(str) = Len(s.str) + Len(out)
    BY <2>1, ConcatLength
  <2>3. \A i \in 1..Len(s.str) : str[i] = s.str[i]
    BY <2>1, ConcatFirst
  <2>4. \A i \in 1..Len(out) : str[Len(s.str) + i] = out[i]
    BY <2>1, ConcatSecond
  <2> QED BY <1>11, <2>2, <2>3, <2>4 DEF d
<1> HIDE DEF str
<1> DEFINE siz == s.siz
           n == Len(str)
           after == siz - (B - 1)
           done == k * (B - 1)
<1>14. /\ siz \in Int /\ n = d + len /\ L - siz = done /\ d + siz = L + k /\ done \in Int
       /\ siz > 0 /\ B \in Nat /\ B >= 2 /\ L \in Nat /\ d \in Nat /\ l \in Nat /\ len \in Nat
       /\ len \in {siz, B} /\ len <= siz /\ len <= B
  BY <1>1, <1>2, <1>3, <1>13
<1>15. /\ l = (IF d <= L THEN L - d ELSE 0) /\ Len(left) = (IF len + 1 <= l THEN l - len ELSE 0)
       /\ (g = len \/ g = l)
  BY <1>2, <1>6, <1>12
<1> DEFINE t == [siz |-> after, left |-> left, buf |-> buf, str |-> str]
<1>16. Chunk(s) = t /\ t \in Downloads /\ t.siz = after /\ t.left = left
       /\ t.buf = buf /\ t.str = str /\ after = s.siz - (BUFFDIM - 1)
  <2>1. after \in Int
    BY <1>14
  <2> HIDE DEF after
  <2>2. t \in Downloads /\ t.siz = after /\ t.left = left /\ t.buf = buf /\ t.str = str
    BY <1>9, <1>12, <1>13, <2>1 DEF Downloads
  <2> QED BY <1>4, <2>2 DEF after, siz, B
<1> HIDE DEF t, siz, after, n, done
<1>17. SendsFirst(T, t)
  <2>1. ASSUME NEW i \in 1..Len(str), i <= L PROVE str[i] = T[i]
    <3>0. i \in Nat /\ i >= 1 /\ i <= n
      BY <1>13, <2>1 DEF n
    <3>1. CASE i <= d
      <4>1. i \in 1..d
        BY <1>14, <3>0, <3>1
      <4> QED BY <1>5, <1>13, <2>1, <4>1
    <3>2. CASE i > d
      <4> DEFINE j == i - d
      <4>1. j \in 1..len /\ j \in 1..l /\ d + j = i
        BY <1>14, <1>15, <2>1, <3>0, <3>2
      <4>2. j \in 1..g
        BY <1>6, <1>14, <4>1
      <4> HIDE DEF j
      <4>3. str[d + j] = out[j] /\ out[j] = buf[j]
        BY <1>11, <1>13, <4>1
      <4>4. buf[j] = got[j] /\ got[j] = s.left[j]
        BY <1>7, <1>9, <4>2
      <4>5. s.left[j] = T[d + j]
        BY <1>2, <4>1
      <4> QED BY <4>1, <4>3, <4>4, <4>5
    <3> QED BY <1>14, <3>0, <3>1, <3>2
  <2> QED BY <1>16, <2>1 DEF SendsFirst, L
<1>18. CASE siz >= B
  <2>1. len = B
    BY <1>14, <1>18
  <2>2. Len(buf) = B
    BY <1>10, <2>1
  <2>3. after > 0 /\ n + after = L + (k + 1)
    BY <1>14, <1>18, <2>1 DEF after
  <2>4. L - after = (k + 1) * (B - 1)
    <3>1. (k + 1) * (B - 1) = done + (B - 1)
      BY <1>14 DEF done
    <3>2. L - after = done + (B - 1)
      BY <1>14 DEF after
    <3> QED BY <3>1, <3>2
  <2>5. Len(left) = IF n <= L THEN L - n ELSE 0
    BY <1>14, <1>15
  <2>6. ASSUME NEW i \in 1..Len(left) PROVE left[i] = T[n + i]
    <3>1. len + i \in 1..l /\ d + (len + i) = n + i
      <4>1. len + 1 <= l
        BY <1>14, <1>15
      <4> QED BY <1>14, <1>15, <4>1
    <3>2. s.left[len + i] = T[d + (len + i)]
      BY <1>2, <3>1
    <3> QED BY <1>12, <3>1, <3>2
  <2>7. Going(T, t, k + 1)
    <3>1. \A i \in 1..Len(t.left) : t.left[i] = T[Len(t.str) + i]
      BY <1>16, <2>6 DEF n
    <3>2. Len(t.buf) = BUFFDIM /\ Len(t.buf) <= BUFFDIM
      BY <1>1, <1>16, <2>2 DEF B
    <3>3. t.siz > 0 /\ Len(T) - t.siz = (k + 1) * (BUFFDIM - 1) /\ Len(t.str) + t.siz = Len(T) + (k + 1)
      BY <1>16, <2>3, <2>4 DEF L, B, n
    <3>4. Len(t.left) = IF Len(t.str) <= Len(T) THEN Len(T) - Len(t.str) ELSE 0
      BY <1>16, <2>5 DEF L, n
    <3> QED BY <3>1, <3>2, <3>3, <3>4 DEF Going
  <2> QED BY <1>16, <1>17, <2>7
<1>19. CASE ~(siz >= B)
  <2>1. len = siz
    BY <1>14, <1>19
  <2>2. after <= 0 /\ n = L + k /\ done <= L
    BY <1>14, <1>19, <2>1 DEF after
  <2>3. t.siz <= 0 /\ k * (BUFFDIM - 1) <= Len(T) /\ Len(t.str) = Len(T) + k
    BY <1>16, <2>2 DEF done, L, B, n
  <2>4. Ended(T, t, k)
    BY <2>3 DEF Ended
  <2> QED BY <1>16, <1>17, <2>4
<1> QED BY <1>18, <1>19

\* A download that is opened is one of T that goes on, unless T is empty.
LEMMA OpenedGoes ==
  ASSUME NEW f \in Seq(Bytes)
  PROVE  LET T == Sought(f)  s == Opened(f) IN
         s \in Downloads /\ SendsFirst(T, s) /\ (Going(T, s, 0) \/ Ended(T, s, 0)) /\ s.siz = Len(T)
<1> DEFINE T == Sought(f)
           s == Opened(f)
<1>1. T \in Seq(Bytes)
  BY SoughtIs
<1>2. BUFFDIM \in Nat /\ BUFFDIM >= 2
  BY BufferAssumption
<1>3. <<>> \in Seq(Bytes) /\ Len(<<>>) = 0
  OBVIOUS
<1>4. s = [siz |-> Len(T), left |-> T, buf |-> <<>>, str |-> <<>>]
  BY DEF Opened
<1> HIDE DEF T, s
<1> DEFINE L == Len(T)
<1>5. L \in Nat
  BY <1>1
<1>6. s \in Downloads /\ s.siz = L /\ s.left = T /\ Len(s.str) = 0 /\ Len(s.buf) = 0
  BY <1>1, <1>3, <1>4, <1>5 DEF Downloads
<1>7. SendsFirst(T, s)
  BY <1>6 DEF SendsFirst
<1>8. 0 * (BUFFDIM - 1) = 0
  BY <1>2
<1>9. CASE L > 0
  <2>1. \A i \in 1..Len(s.left) : s.left[i] = T[Len(s.str) + i]
    <3>1. ASSUME NEW i \in 1..L PROVE 0 + i = i
      OBVIOUS
    <3> QED BY <1>6, <3>1
  <2>2. s.siz > 0 /\ L - s.siz = 0 /\ Len(s.str) + s.siz = L + 0 /\ Len(s.str) <= L /\ L - Len(s.str) = L
    BY <1>5, <1>6, <1>9
  <2>3. Len(s.left) = L /\ Len(s.buf) <= BUFFDIM
    BY <1>2, <1>6
  <2>4. Going(T, s, 0)
    BY <1>8, <2>1, <2>2, <2>3 DEF Going
  <2> QED BY <1>6, <1>7, <2>4 DEF s, T
<1>10. CASE L = 0
  <2>1. s.siz <= 0 /\ 0 <= L /\ L <= Len(s.str) /\ Len(s.str) <= L + 0
    BY <1>6, <1>10
  <2>2. Ended(T, s, 0)
    BY <1>8, <2>1 DEF Ended
  <2> QED BY <1>6, <1>7, <2>2 DEF s, T
<1> QED BY <1>5, <1>9, <1>10

\* States of a download of T, from its opening to its end.
DownloadsOf(T) ==
    {s \in Downloads : SendsFirst(T, s) /\ \E k \in Nat : Going(T, s, k) \/ Ended(T, s, k)}

LEMMA ChunkStays ==
  ASSUME NEW T \in Seq(Bytes), NEW s \in DownloadsOf(T)
  PROVE  /\ Chunk(s) \in DownloadsOf(T)
         /\ s.siz <= 0 => Chunk(s) = s
         /\ s.siz > 0 => Chunk(s).siz = s.siz - (BUFFDIM - 1)
<1>1. PICK k \in Nat : Going(T, s, k) \/ Ended(T, s, k)
  BY DEF DownloadsOf
<1>2. s \in Downloads /\ SendsFirst(T, s) /\ s.siz \in Int
  BY DEF DownloadsOf, Downloads
<1>3. CASE s.siz <= 0
  <2>1. Chunk(s) = s
    BY <1>3 DEF Chunk
  <2> QED BY <1>2, <1>3, <2>1
<1>4. CASE s.siz > 0
  <2>1. Going(T, s, k)
    BY <1>1, <1>2, <1>4 DEF Ended
  <2>2. /\ Chunk(s) \in Downloads /\ SendsFirst(T, Chunk(s))
        /\ Chunk(s).siz = s.siz - (BUFFDIM - 1)
        /\ Going(T, Chunk(s), k + 1) \/ Ended(T, Chunk(s), k)
    BY <1>2, <2>1, ChunkGoes
  <2>3. k + 1 \in Nat
    OBVIOUS
  <2>4. Chunk(s) \in DownloadsOf(T)
    BY <2>2, <2>3 DEF DownloadsOf
  <2> QED BY <1>2, <1>4, <2>2, <2>4
<1> QED BY <1>2, <1>3, <1>4

\* The passes of a download.
LEMMA DownloadPasses ==
  ASSUME NEW f \in Seq(Bytes)
  PROVE  \E pass \in [Nat -> DownloadsOf(Sought(f))] :
            /\ Downloaded(f) = pass[Len(Sought(f))].str
            /\ pass[0] = Opened(f)
            /\ \A k \in Nat : pass[k + 1] = Chunk(pass[k])
<1> DEFINE T == Sought(f)
           V == DownloadsOf(T)
           step == [s \in V |-> Chunk(s)]
           base == Opened(f)
<1>1. T \in Seq(Bytes)
  BY SoughtIs
<1>2. base \in V
  <2>1. base \in Downloads /\ SendsFirst(T, base) /\ (Going(T, base, 0) \/ Ended(T, base, 0))
    BY OpenedGoes
  <2> QED BY <2>1 DEF DownloadsOf
<1>3. step \in [V -> V]
  <2>1. ASSUME NEW s \in V PROVE Chunk(s) \in V
    <3> HIDE DEF T
    <3> QED BY <1>1, <2>1, ChunkStays
  <2> HIDE DEF V
  <2> QED BY <2>1
<1>4. \A s \in V : step[s] = Chunk(s)
  OBVIOUS
<1> HIDE DEF V, step, base, T
<1>5. \E h : Iterates(h, V, base, step)
  BY <1>2, <1>3, Iteration
<1>17. PICK h : h \in [Nat -> V] /\ h[0] = base /\ \A k \in Nat : h[k + 1] = step[h[k]]
  BY <1>5 DEF Iterates
<1> DEFINE pass[k \in Nat] == IF k = 0 THEN base ELSE Chunk(pass[k - 1])
           A == {k \in Nat : pass[k] = h[k]}
<1>6. h = [k \in Nat |-> IF k = 0 THEN base ELSE Chunk(h[k - 1])]
  <2>1. ASSUME NEW k \in Nat PROVE h[k] = IF k = 0 THEN base ELSE Chunk(h[k - 1])
    <3>1. CASE k = 0
      BY <1>17, <3>1
    <3>2. CASE k # 0
      <4>1. k - 1 \in Nat /\ (k - 1) + 1 = k
        BY <3>2
      <4>2. h[k - 1] \in V
        BY <1>17, <4>1
      <4> QED BY <1>4, <1>17, <3>2, <4>1, <4>2
    <3> QED BY <3>1, <3>2
  <2> QED BY <1>17, <2>1
<1>7. pass = [k \in Nat |-> IF k = 0 THEN base ELSE Chunk(pass[k - 1])]
  BY <1>6, Zenon
<1>8. Downloaded(f) = pass[Len(T)].str
  BY Zenon DEF Downloaded, base, T
<1> HIDE DEF pass
<1>9. 0 \in A
  BY <1>17, <1>7
<1>10. ASSUME NEW k \in Nat, k \in A PROVE k + 1 \in A
  <2>1. (k + 1) - 1 = k /\ k + 1 # 0 /\ k + 1 \in Nat
    OBVIOUS
  <2>2. pass[k + 1] = Chunk(pass[k]) /\ h[k + 1] = Chunk(h[k])
    BY <1>6, <1>7, <2>1
  <2> QED BY <1>10, <2>2
<1> HIDE DEF A
<1>11. Nat \subseteq A
  BY <1>9, <1>10, NatSetInduction
<1>12. \A k \in Nat : pass[k] = h[k]
  BY <1>11 DEF A
<1>13. Len(T) \in Nat
  BY <1>1
<1>14. Downloaded(f) = h[Len(T)].str
  BY <1>8, <1>12, <1>13
<1>15. h[0] = base
  BY <1>6
<1>16. ASSUME NEW k \in Nat PROVE h[k + 1] = Chunk(h[k])
  <2>1. (k + 1) - 1 = k /\ k + 1 # 0 /\ k + 1 \in Nat
    OBVIOUS
  <2> QED BY <1>6, <2>1
<1> QED BY <1>17, <1>14, <1>15, <1>16 DEF V, T, base

\* What a download sends: the last bytes first, and one more for each full buffer.
LEMMA DownloadIs ==
  ASSUME NEW f \in Seq(Bytes)
  PROVE  /\ Downloaded(f) \in Seq(Bytes)
         /\ Len(Downloaded(f)) <= MAXSIZ + MAXSIZ \div (BUFFDIM - 1)
         /\ IsPrefix(LastBytes(f), Downloaded(f))
<1> DEFINE T == Sought(f)
           L == Len(T)
<1>1. T \in Seq(Bytes) /\ L <= MAXSIZ /\ T = LastBytes(f) /\ L \in Nat
  BY SoughtIs
<1>2. BUFFDIM \in Nat /\ BUFFDIM >= 2 /\ MAXSIZ \in Nat /\ BUFFDIM - 1 \in Nat \ {0}
  BY BufferAssumption
<1>3. PICK pass \in [Nat -> DownloadsOf(T)] :
            /\ Downloaded(f) = pass[L].str
            /\ pass[0] = Opened(f)
            /\ \A k \in Nat : pass[k + 1] = Chunk(pass[k])
  BY DownloadPasses
<1>4. pass[0].siz = L
  BY <1>3, OpenedGoes
<1> HIDE DEF T
<1> DEFINE A == {k \in Nat : pass[k].siz <= 0 \/ pass[k].siz <= L - k}
<1>5. 0 \in A
  BY <1>1, <1>4
<1>6. ASSUME NEW k \in Nat, k \in A PROVE k + 1 \in A
  <2> DEFINE s == pass[k]
  <2>1. s \in DownloadsOf(T) /\ pass[k + 1] = Chunk(s)
    BY <1>3
  <2>2. s.siz \in Int
    BY <2>1 DEF DownloadsOf, Downloads
  <2>3. (s.siz <= 0 => Chunk(s) = s) /\ (s.siz > 0 => Chunk(s).siz = s.siz - (BUFFDIM - 1))
    <3> HIDE DEF s
    <3> QED BY <1>1, <2>1, ChunkStays
  <2>4. s.siz <= 0 \/ s.siz <= L - k
    BY <1>6
  <2> DEFINE z == s.siz
  <2> HIDE DEF s
  <2>5. Chunk(s).siz <= 0 \/ Chunk(s).siz <= L - (k + 1)
    <3>1. CASE z <= 0
      BY <2>3, <3>1
    <3>2. CASE ~(z <= 0)
      <4>1. z - (BUFFDIM - 1) <= L - (k + 1)
        <5> HIDE DEF L
        <5>1. z \in Int /\ z <= L - k
          BY <2>2, <2>4, <3>2
        <5> HIDE DEF z
        <5> QED BY <1>1, <1>2, <5>1
      <4>2. z > 0
        <5>1. z \in Int
          BY <2>2
        <5> HIDE DEF z
        <5> QED BY <3>2, <5>1
      <4> QED BY <2>3, <4>1, <4>2
    <3> QED BY <3>1, <3>2
  <2> QED BY <2>1, <2>5
<1> HIDE DEF A
<1>7. Nat \subseteq A
  BY <1>5, <1>6, NatSetInduction
<1> DEFINE s == pass[L]
<1>8. s \in DownloadsOf(T) /\ Downloaded(f) = s.str
  BY <1>1, <1>3
<1>9. s.siz <= 0
  <2>1. L \in A
    BY <1>1, <1>7
  <2>2. s.siz <= 0 \/ s.siz <= L - L
    BY <2>1 DEF A
  <2>3. L - L = 0
    BY <1>1
  <2> QED BY <2>2, <2>3
<1> HIDE DEF s
<1>10. s.siz \in Int /\ s.str \in Seq(Bytes) /\ SendsFirst(T, s)
  BY <1>8 DEF DownloadsOf, Downloads
<1>11. PICK k \in Nat : Going(T, s, k) \/ Ended(T, s, k)
  BY <1>8 DEF DownloadsOf
<1>12. k * (BUFFDIM - 1) <= L /\ L <= Len(s.str) /\ Len(s.str) <= L + k
  BY <1>9, <1>10, <1>11 DEF Going, Ended
<1>13. k <= MAXSIZ \div (BUFFDIM - 1)
  <2> HIDE DEF L
  <2>1. k * (BUFFDIM - 1) \in Int
    BY <1>2
  <2>2. k * (BUFFDIM - 1) <= MAXSIZ
    <3> DEFINE p == k * (BUFFDIM - 1)
    <3>1. p \in Int /\ p <= L
      BY <1>12, <2>1
    <3> HIDE DEF p
    <3>2. p <= MAXSIZ
      BY <1>1, <1>2, <3>1
    <3> QED BY <3>2 DEF p
  <2> QED BY <1>2, <2>2, AtMostQuotient
<1>14. Len(s.str) <= MAXSIZ + MAXSIZ \div (BUFFDIM - 1)
  <2> DEFINE q == MAXSIZ \div (BUFFDIM - 1)
             n == Len(s.str)
  <2>1. q \in Int /\ n \in Nat /\ k <= q /\ n <= L + k
    BY <1>2, <1>10, <1>12, <1>13
  <2> HIDE DEF q, n, L
  <2>2. n <= MAXSIZ + q
    BY <1>1, <1>2, <2>1
  <2> QED BY <2>2 DEF q, n
<1>15. IsPrefix(T, s.str)
  <2>1. \A i \in 1..Len(T) : T[i] = s.str[i]
    <3>1. ASSUME NEW i \in 1..Len(T) PROVE T[i] = s.str[i]
      <4>1. i \in 1..Len(s.str) /\ i <= Len(T)
        BY <1>1, <1>10, <1>12
      <4> QED BY <1>10, <4>1 DEF SendsFirst
    <3> QED BY <3>1
  <2> QED BY <1>1, <1>10, <1>12, <2>1, PrefixIs
<1> QED BY <1>1, <1>8, <1>10, <1>14, <1>15

-----------------------------------------------------------------------------
(* The lines that are skipped in front of the one that an edit is of. *)

\* What a line that is read leaves behind it: a position that is no less, and the
\* one of the next CR, if there is one that a buffer reaches.
LEMMA ReadLineIs ==
  ASSUME NEW f \in Seq(Bytes), NEW pos \in 0..Len(f)
  PROVE  /\ ReadLine(f, pos).bytes \in Seq(Bytes)
         /\ ReadLine(f, pos).pos \in pos..Len(f)
         /\ \A q \in Ends(f) : q > pos /\ q - 1 - pos < Block /\ (\A r \in Ends(f) : r > pos => q <= r)
               => ReadLine(f, pos).pos = q
<1> DEFINE L == Len(f)
           ends == {p \in pos..(L - 1) : f[p + 1] = CR}
           end == IF ends = {} THEN L ELSE CHOOSE p \in ends : \A q \in ends : p <= q
           recl == Smaller(end - pos, Block)
           there == IF ends # {} /\ recl < Block THEN pos + recl + 1 ELSE pos + recl
           bytes == SubSeq(f, pos + 1, pos + recl)
<1>1. L \in Nat /\ pos \in Nat /\ pos <= L /\ Block \in Nat \ {0}
  BY BufferAssumption
<1>2. ReadLine(f, pos) = [bytes |-> bytes, pos |-> there]
  BY DEF ReadLine
<1> HIDE DEF L
<1>3. ends # {} => end \in ends /\ \A q \in ends : end <= q
  <2>1. ASSUME ends # {} PROVE \E p \in ends : \A q \in ends : p <= q
    <3>1. ends \subseteq Nat
      BY <1>1
    <3> HIDE DEF ends
    <3> QED BY <2>1, <3>1, LeastOf
  <2> HIDE DEF ends
  <2> QED BY <2>1
<1>4. ends = {} => end = L
  OBVIOUS
<1> HIDE DEF end
<1>5. end \in Nat /\ pos <= end /\ end <= L /\ (ends # {} => end <= L - 1)
  <2>1. CASE ends = {}
    BY <1>1, <1>4, <2>1
  <2>2. CASE ends # {}
    <3>1. end \in pos..(L - 1)
      BY <1>3, <2>2
    <3> QED BY <1>1, <2>2, <3>1
  <2> QED BY <2>1, <2>2
<1>6. recl \in Nat /\ recl <= end - pos /\ recl <= Block /\ recl \in {end - pos, Block}
  <2>1. end - pos \in Int /\ Block \in Int /\ end - pos \in Nat
    BY <1>1, <1>5
  <2> DEFINE w == end - pos
  <2>2. w \in Int /\ w \in Nat /\ Block \in Int
    BY <2>1
  <2>3. recl = Smaller(w, Block)
    OBVIOUS
  <2> HIDE DEF w, recl
  <2>4. recl \in Int /\ recl <= w /\ recl <= Block /\ recl \in {w, Block}
    BY <2>2, <2>3, SmallerIs
  <2>5. recl \in Nat
    BY <1>1, <2>2, <2>4
  <2> QED BY <2>4, <2>5 DEF w
<1> HIDE DEF recl
<1>7. there \in pos..L
  <2>1. CASE ends = {}
    BY <1>1, <1>5, <1>6, <2>1
  <2>2. CASE ends # {}
    BY <1>1, <1>5, <1>6, <2>2
  <2> QED BY <2>1, <2>2
<1>8. bytes \in Seq(Bytes)
  <2>1. pos + recl <= Len(f)
    BY <1>1, <1>5, <1>6 DEF L
  <2>2. pos \in Nat /\ recl \in Nat
    BY <1>1, <1>6
  <2> QED BY <2>1, <2>2, MiddleOf
<1>9. ASSUME NEW q \in Ends(f), q > pos, q - 1 - pos < Block,
             \A r \in Ends(f) : r > pos => q <= r
      PROVE  there = q
  <2>1. q \in Nat /\ q >= 1 /\ q <= L /\ f[q] = CR
    BY DEF Ends, L
  <2> DEFINE p == q - 1
  <2>2. p \in pos..(L - 1) /\ p + 1 = q
    BY <1>1, <1>9, <2>1
  <2>3. p \in ends
    BY <2>1, <2>2
  <2>4. end \in pos..(L - 1) /\ f[end + 1] = CR /\ end <= p
    BY <1>3, <2>3
  <2>5. end + 1 \in Ends(f) /\ end + 1 > pos
    <3>1. end + 1 \in 1..L /\ end + 1 > pos
      BY <1>1, <2>4
    <3> QED BY <2>4, <3>1 DEF Ends, L
  <2>6. q <= end + 1
    BY <1>9, <2>5
  <2>7. end = p
    BY <1>5, <2>1, <2>4, <2>6
  <2>8. recl = end - pos /\ recl < Block
    <3>1. end - pos < Block
      BY <1>9, <2>7
    <3> QED BY <1>1, <1>5, <1>6, <3>1
  <2>9. there = pos + recl + 1
    BY <2>3, <2>8
  <2> HIDE DEF p, there
  <2> QED BY <1>1, <1>5, <2>2, <2>7, <2>8, <2>9
<1>10. ReadLine(f, pos).bytes = bytes /\ ReadLine(f, pos).pos = there
  <2> HIDE DEF bytes, there, ends
  <2> QED BY <1>2
<1>11. there \in pos..Len(f)
  BY <1>7 DEF L
<1> HIDE DEF there, bytes, ends
<1> QED BY <1>8, <1>9, <1>10, <1>11

\* The positions of the lines that are skipped.
LEMMA SkippedIs ==
  ASSUME NEW f \in Seq(Bytes)
  PROVE  /\ Skipped(f, 0) = 0
         /\ \A k \in Nat : /\ Skipped(f, k) \in 0..Len(f)
                           /\ Skipped(f, k + 1) = ReadLine(f, Skipped(f, k)).pos
<1> DEFINE V == 0..Len(f)
           step == [p \in V |-> ReadLine(f, p).pos]
<1>1. 0 \in V
  OBVIOUS
<1>2. step \in [V -> V]
  <2>1. ASSUME NEW p \in V PROVE ReadLine(f, p).pos \in V
    <3>1. ReadLine(f, p).pos \in p..Len(f)
      BY ReadLineIs
    <3> QED BY <3>1
  <2> HIDE DEF V
  <2> QED BY <2>1
<1>3. \A p \in V : step[p] = ReadLine(f, p).pos
  OBVIOUS
<1> HIDE DEF V, step
<1>4. \E h : Iterates(h, V, 0, step)
  BY <1>1, <1>2, Iteration
<1>5. PICK h : h \in [Nat -> V] /\ h[0] = 0 /\ \A k \in Nat : h[k + 1] = step[h[k]]
  BY <1>4 DEF Iterates
<1> DEFINE skip[k \in Nat] == IF k = 0 THEN 0 ELSE ReadLine(f, skip[k - 1]).pos
           A == {k \in Nat : skip[k] = h[k]}
<1>6. h = [k \in Nat |-> IF k = 0 THEN 0 ELSE ReadLine(f, h[k - 1]).pos]
  <2>1. ASSUME NEW k \in Nat PROVE h[k] = IF k = 0 THEN 0 ELSE ReadLine(f, h[k - 1]).pos
    <3>1. CASE k = 0
      BY <1>5, <3>1
    <3>2. CASE k # 0
      <4>1. k - 1 \in Nat /\ (k - 1) + 1 = k
        BY <3>2
      <4>2. h[k - 1] \in V
        BY <1>5, <4>1
      <4> QED BY <1>3, <1>5, <3>2, <4>1, <4>2
    <3> QED BY <3>1, <3>2
  <2> QED BY <1>5, <2>1
<1>7. skip = [k \in Nat |-> IF k = 0 THEN 0 ELSE ReadLine(f, skip[k - 1]).pos]
  BY <1>6, Zenon
<1>8. \A k \in Nat : Skipped(f, k) = skip[k]
  BY Zenon DEF Skipped
<1> HIDE DEF skip
<1>9. 0 \in A
  BY <1>5, <1>7
<1>10. ASSUME NEW k \in Nat, k \in A PROVE k + 1 \in A
  <2>1. (k + 1) - 1 = k /\ k + 1 # 0 /\ k + 1 \in Nat
    OBVIOUS
  <2>2. skip[k + 1] = ReadLine(f, skip[k]).pos /\ h[k + 1] = ReadLine(f, h[k]).pos
    BY <1>6, <1>7, <2>1
  <2> QED BY <1>10, <2>2
<1> HIDE DEF A
<1>11. Nat \subseteq A
  BY <1>9, <1>10, NatSetInduction
<1>12. \A k \in Nat : Skipped(f, k) = h[k]
  BY <1>8, <1>11 DEF A
<1>13. Skipped(f, 0) = 0
  BY <1>5, <1>12
<1>14. ASSUME NEW k \in Nat
       PROVE  Skipped(f, k) \in 0..Len(f) /\ Skipped(f, k + 1) = ReadLine(f, Skipped(f, k)).pos
  <2>1. k + 1 \in Nat /\ h[k] \in V
    BY <1>5
  <2>2. h[k + 1] = ReadLine(f, h[k]).pos
    BY <1>3, <1>5, <2>1
  <2> QED BY <1>12, <2>1, <2>2 DEF V
<1> QED BY <1>13, <1>14

\* The line ends of f up to a position.
EndsTo(f, p) == {q \in Ends(f) : q <= p}

\* There are finitely many.
LEMMA EndsAreFinite ==
  ASSUME NEW f \in Seq(Bytes), NEW p
  PROVE  /\ IsFiniteSet(Ends(f)) /\ Cardinality(Ends(f)) \in Nat
         /\ IsFiniteSet(EndsTo(f, p)) /\ Cardinality(EndsTo(f, p)) \in Nat
<1>1. IsFiniteSet(1..Len(f))
  <2>1. 1 \in Int /\ Len(f) \in Int
    OBVIOUS
  <2> QED BY <2>1, FS_Interval
<1>2. Ends(f) \in SUBSET (1..Len(f))
  BY DEF Ends
<1>3. EndsTo(f, p) \in SUBSET Ends(f)
  BY DEF EndsTo
<1>4. IsFiniteSet(Ends(f))
  BY <1>1, <1>2, FS_Subset
<1>5. IsFiniteSet(EndsTo(f, p))
  BY <1>3, <1>4, FS_Subset
<1> QED BY <1>4, <1>5, FS_CardinalityType

\* Where lines are short the next line end behind a position is within a buffer.
LEMMA NextEnd ==
  ASSUME NEW f \in Seq(Bytes), ShortLines(f), NEW pos \in 0..Len(f), NEW q \in Ends(f), q > pos,
         \A r \in Ends(f) : r > pos => q <= r
  PROVE  ReadLine(f, pos).pos = q
<1>1. Len(f) \in Nat /\ pos \in Nat /\ q \in Nat /\ q <= Len(f) /\ Block \in Nat \ {0}
  BY BufferAssumption DEF Ends
<1>2. q - 1 - pos < Block
  <2>1. SUFFICES ASSUME q - 1 - pos >= Block PROVE FALSE
    BY <1>1
  <2> DEFINE p == pos + 1
  <2>2. p \in 1..(Len(f) - Block + 1)
    BY <1>1, <2>1
  <2>3. PICK r \in p..(p + Block - 1) : f[r] = CR
    BY <2>2 DEF ShortLines
  <2>4. r \in 1..Len(f) /\ r > pos /\ r < q
    BY <1>1, <2>1, <2>3
  <2>5. r \in Ends(f)
    BY <2>3, <2>4 DEF Ends
  <2> QED BY <1>1, <2>4, <2>5
<1> QED BY <1>2, ReadLineIs

\* Where lines are short, and as long as there is one more, a line is skipped at a
\* time.
LEMMA SkippedLines ==
  ASSUME NEW f \in Seq(Bytes), ShortLines(f)
  PROVE  \A k \in Nat : k <= Cardinality(Ends(f)) =>
            /\ Cardinality(EndsTo(f, Skipped(f, k))) = k
            /\ k # 0 => Skipped(f, k) \in Ends(f)
<1> DEFINE E == Ends(f)
           A == {k \in Nat : k <= Cardinality(E) =>
                    /\ Cardinality(EndsTo(f, Skipped(f, k))) = k
                    /\ k # 0 => Skipped(f, k) \in E}
<1>1. Cardinality(E) \in Nat /\ E \subseteq Nat
  <2>1. E \subseteq Nat
    BY DEF Ends
  <2> QED BY <2>1, EndsAreFinite
<1>2. 0 \in A
  <2>1. EndsTo(f, 0) = {}
    BY DEF EndsTo, Ends
  <2>2. Cardinality(EndsTo(f, 0)) = 0
    BY <2>1, FS_EmptySet
  <2> QED BY <2>2, SkippedIs
<1>3. ASSUME NEW k \in Nat, k \in A PROVE k + 1 \in A
  <2>1. SUFFICES ASSUME k + 1 <= Cardinality(E)
                 PROVE  Cardinality(EndsTo(f, Skipped(f, k + 1))) = k + 1 /\ Skipped(f, k + 1) \in E
    <3>1. k + 1 \in Nat
      OBVIOUS
    <3> QED BY <2>1, <3>1
  <2> DEFINE pos == Skipped(f, k)
             more == {r \in E : r > pos}
  <2>2. Cardinality(EndsTo(f, pos)) = k
    BY <1>1, <1>3, <2>1
  <2>3. pos \in 0..Len(f) /\ Skipped(f, k + 1) = ReadLine(f, pos).pos
    BY SkippedIs
  <2> HIDE DEF pos, E
  <2>4. more # {}
    <3>1. SUFFICES ASSUME more = {} PROVE FALSE
      OBVIOUS
    <3>2. ASSUME NEW r \in E PROVE r <= pos
      <4>1. r \in Nat /\ pos \in Nat /\ ~(r > pos)
        BY <1>1, <2>3, <3>1, <3>2
      <4> QED BY <4>1
    <3>3. EndsTo(f, pos) = E
      BY <3>2 DEF EndsTo, E
    <3> QED BY <1>1, <2>1, <2>2, <3>3
  <2>5. PICK q \in more : \A r \in more : q <= r
    <3>1. more \subseteq Nat
      BY <1>1
    <3> HIDE DEF more
    <3> QED BY <2>4, <3>1, LeastOf
  <2>6. ReadLine(f, pos).pos = q
    <3>1. q \in Ends(f) /\ q > pos /\ \A r \in Ends(f) : r > pos => q <= r
      BY <2>5 DEF E
    <3> QED BY <2>3, <3>1, NextEnd
  <2>7. EndsTo(f, q) = EndsTo(f, pos) \cup {q}
    <3>1. ASSUME NEW r \in E PROVE r <= q <=> r <= pos \/ r = q
      <4>1. r \in Nat /\ q \in Nat /\ pos \in Nat /\ q > pos /\ (r > pos => q <= r)
        BY <1>1, <2>3, <2>5, <3>1
      <4> QED BY <4>1
    <3>2. q \in E
      BY <2>5
    <3> QED BY <3>1, <3>2 DEF EndsTo, E
  <2>8. q \notin EndsTo(f, pos)
    <3>1. q \in Nat /\ pos \in Nat /\ q > pos
      BY <1>1, <2>3, <2>5
    <3>2. ~(q <= pos)
      BY <3>1
    <3> QED BY <3>2 DEF EndsTo
  <2>9. Cardinality(EndsTo(f, q)) = k + 1
    <3>1. IsFiniteSet(EndsTo(f, pos))
      BY EndsAreFinite
    <3>2. Cardinality(EndsTo(f, pos) \cup {q}) = Cardinality(EndsTo(f, pos)) + 1
      BY <2>8, <3>1, FS_AddElement
    <3> QED BY <2>2, <2>7, <3>2
  <2> QED BY <2>3, <2>5, <2>6, <2>9
<1> HIDE DEF A
<1>4. Nat \subseteq A
  BY <1>2, <1>3, NatSetInduction
<1> QED BY <1>4 DEF A

\* So the n-th line ends where n lines are skipped.
LEMMA LineEndIs ==
  ASSUME NEW f \in Seq(Bytes), ShortLines(f), NEW n \in Nat \ {0}, n <= Cardinality(Ends(f))
  PROVE  LineEnd(f, n) = Skipped(f, n) /\ Skipped(f, n) \in Ends(f)
<1> DEFINE E == Ends(f)
           s == Skipped(f, n)
<1>1. s \in E /\ Cardinality(EndsTo(f, s)) = n
  BY SkippedLines
<1>2. \A p, q \in E : p < q => Cardinality(EndsTo(f, p)) < Cardinality(EndsTo(f, q))
  <2>1. SUFFICES ASSUME NEW p \in E, NEW q \in E, p < q
                 PROVE  Cardinality(EndsTo(f, p)) < Cardinality(EndsTo(f, q))
    OBVIOUS
  <2>2. p \in Nat /\ q \in Nat /\ E \subseteq Nat
    BY DEF Ends
  <2>3. q \notin EndsTo(f, p)
    <3>1. ~(q <= p)
      BY <2>1, <2>2
    <3> QED BY <3>1 DEF EndsTo
  <2>4. EndsTo(f, p) \cup {q} \in SUBSET EndsTo(f, q)
    <3>1. ASSUME NEW r \in E, r <= p PROVE r <= q
      <4>1. r \in Nat
        BY <2>2
      <4> QED BY <2>1, <2>2, <3>1, <4>1
    <3>2. q <= q
      BY <2>2
    <3> QED BY <3>1, <3>2 DEF EndsTo
  <2>5. Cardinality(EndsTo(f, p) \cup {q}) = Cardinality(EndsTo(f, p)) + 1
    BY <2>3, EndsAreFinite, FS_AddElement
  <2>6. Cardinality(EndsTo(f, p) \cup {q}) <= Cardinality(EndsTo(f, q))
    BY <2>4, EndsAreFinite, FS_Subset
  <2> DEFINE x == Cardinality(EndsTo(f, p))
             y == Cardinality(EndsTo(f, q))
  <2>7. x \in Nat /\ y \in Nat /\ x + 1 <= y
    BY <2>5, <2>6, EndsAreFinite
  <2> HIDE DEF x, y
  <2>8. x < y
    BY <2>7
  <2> QED BY <2>8 DEF x, y
<1>3. \A p \in E : Cardinality(EndsTo(f, p)) = n => p = s
  <2>1. SUFFICES ASSUME NEW p \in E, Cardinality(EndsTo(f, p)) = n, p # s PROVE FALSE
    OBVIOUS
  <2>2. p \in Nat /\ s \in Nat
    BY <1>1 DEF Ends
  <2> HIDE DEF s
  <2>3. p < s \/ s < p
    BY <2>1, <2>2
  <2>4. \/ Cardinality(EndsTo(f, p)) < Cardinality(EndsTo(f, s))
        \/ Cardinality(EndsTo(f, s)) < Cardinality(EndsTo(f, p))
    BY <1>1, <1>2, <2>3
  <2>5. n < n
    BY <1>1, <2>1, <2>4
  <2> QED BY <2>5
<1>4. LineEnd(f, n) = CHOOSE p \in E : Cardinality(EndsTo(f, p)) = n
  BY DEF LineEnd, EndsTo
<1> HIDE DEF E, s
<1>5. LineEnd(f, n) = s
  BY <1>1, <1>3, <1>4
<1> QED BY <1>1, <1>5 DEF s, E

\* What is in front of line n, and what is behind it.
LEMMA AroundLine ==
  ASSUME NEW f \in Seq(Bytes), ShortLines(f), NEW n \in Nat \ {0}, n <= Cardinality(Ends(f))
  PROVE  /\ Ahead(f, n) = SubSeq(f, 1, Skipped(f, n - 1))
         /\ Behind(f, n) = SubSeq(f, Skipped(f, n) + 1, Len(f))
         /\ LineEnd(f, n) = Skipped(f, n)
<1>1. LineEnd(f, n) = Skipped(f, n)
  BY LineEndIs
<1>2. Behind(f, n) = SubSeq(f, Skipped(f, n) + 1, Len(f))
  BY <1>1 DEF Behind
<1>3. CASE n = 1
  <2>1. n - 1 = 0 /\ Skipped(f, n - 1) = 0
    BY <1>3, SkippedIs
  <2>2. SubSeq(f, 1, 0) = <<>>
    OBVIOUS
  <2> QED BY <1>1, <1>2, <1>3, <2>1, <2>2 DEF Ahead
<1>4. CASE n # 1
  <2>1. n - 1 \in Nat \ {0} /\ n - 1 <= Cardinality(Ends(f))
    <3>1. Cardinality(Ends(f)) \in Nat
      BY EndsAreFinite
    <3> QED BY <1>4, <3>1
  <2>2. LineEnd(f, n - 1) = Skipped(f, n - 1)
    BY <2>1, LineEndIs
  <2> QED BY <1>1, <1>2, <1>4, <2>2 DEF Ahead
<1> QED BY <1>3, <1>4

-----------------------------------------------------------------------------
(* What an edit leaves. *)

\* What an edit writes for the line.
TextOf(new, del) == IF del THEN <<>> ELSE Append(new, CR)

LEMMA TextIs ==
  ASSUME NEW new \in Seq(Bytes), NEW del
  PROVE  /\ TextOf(new, del) \in Seq(Bytes)
         /\ Len(TextOf(new, del)) = IF del THEN 0 ELSE Len(new) + 1
<1>1. CR \in Bytes
  BY LineAssumption DEF CR, Bytes, Garbage
<1> QED BY <1>1 DEF TextOf

\* What an edit of f has in hand: its block ends no further than f, and it writes no
\* further than its file.
EditsOf(f) ==
    {s \in [f : Seq(Bytes), fread : Nat, len : Nat, fwrite : Nat, held : Seq(Bytes)] :
        /\ Len(s.held) = s.len /\ s.fread + s.len <= Len(f)
        /\ Len(f) <= Len(s.f) /\ s.fwrite <= Len(s.f)}

\* The lines in front of the one that is edited end in the file.
LEMMA PlacesOfLine ==
  ASSUME NEW f \in Seq(Bytes), NEW n \in Nat \ {0}
  PROVE  /\ Skipped(f, n - 1) \in Nat /\ Skipped(f, n) \in Nat
         /\ Skipped(f, n - 1) <= Skipped(f, n) /\ Skipped(f, n) <= Len(f)
<1>1. n - 1 \in Nat /\ (n - 1) + 1 = n
  OBVIOUS
<1> DEFINE p == Skipped(f, n - 1)
<1>2. p \in 0..Len(f) /\ Skipped(f, (n - 1) + 1) = ReadLine(f, p).pos
  BY <1>1, SkippedIs
<1> HIDE DEF p
<1>3. ReadLine(f, p).pos \in p..Len(f)
  BY <1>2, ReadLineIs
<1>4. Skipped(f, n) \in p..Len(f)
  BY <1>1, <1>2, <1>3
<1> DEFINE q == Skipped(f, n)
<1>5. p \in Nat /\ q \in Nat /\ p <= q /\ q <= Len(f)
  <2>1. Len(f) \in Nat /\ p \in 0..Len(f) /\ q \in p..Len(f)
    BY <1>2, <1>4
  <2> HIDE DEF q
  <2> QED BY <2>1
<1> QED BY <1>5 DEF p, q

\* What an edit that begins has in hand.
LEMMA BegunIs ==
  ASSUME NEW f \in Seq(Bytes), NEW n \in Nat \ {0}, NEW new \in Seq(Bytes), NEW del
  PROVE  LET s == Begun(f, n, new, del)
             line == Skipped(f, n - 1)
             text == TextOf(new, del)
         IN /\ s \in EditsOf(f)
            /\ s.f = Write(f, line, text)
            /\ s.fread = Skipped(f, n)
            /\ s.len = Smaller(Len(f) - s.fread, Block)
            /\ s.fwrite = line + Len(text)
            /\ \A i \in 1..s.len : s.held[i] = f[s.fread + i]
<1> DEFINE s == Begun(f, n, new, del)
           line == Skipped(f, n - 1)
           text == TextOf(new, del)
           L == Len(f)
           e == Skipped(f, n)
           len == Smaller(L - e, Block)
           m == Len(text)
           w == Write(f, line, text)
           held == SubSeq(f, e + 1, e + len)
<1>1. L \in Nat /\ line \in Nat /\ e \in Nat /\ line <= e /\ e <= L /\ Block \in Nat \ {0}
  BY PlacesOfLine, BufferAssumption
<1>2. text \in Seq(Bytes) /\ m \in Nat
  BY TextIs
<1>3. s = [f |-> w, fread |-> e, len |-> len, fwrite |-> line + m, held |-> held]
  BY DEF Begun, TextOf
<1> HIDE DEF s, line, text, e
<1>4. w \in Seq(Bytes) /\ Len(w) = IF line + m > L THEN line + m ELSE L
  <2>1. line \in 0..Len(f)
    BY <1>1
  <2> QED BY <1>2, <2>1, WriteIs
<1> HIDE DEF w, m, L
<1>5. len \in Nat /\ len <= L - e
  <2> DEFINE x == L - e
  <2>1. x \in Int /\ x \in Nat /\ Block \in Int
    BY <1>1
  <2>2. len = Smaller(x, Block)
    OBVIOUS
  <2> HIDE DEF x, len
  <2>3. len \in Int /\ len <= x /\ len \in {x, Block}
    BY <2>1, <2>2, SmallerIs
  <2> QED BY <1>1, <2>1, <2>3 DEF x
<1> HIDE DEF len
<1>6. held \in Seq(Bytes) /\ Len(held) = len /\ \A i \in 1..len : held[i] = f[e + i]
  <2>1. e + len <= Len(f)
    BY <1>1, <1>5 DEF L
  <2>2. e \in Nat /\ len \in Nat
    BY <1>1, <1>5
  <2> QED BY <2>1, <2>2, MiddleOf
<1> HIDE DEF held
<1>7. line + m \in Nat /\ e + len <= L /\ L <= Len(w) /\ line + m <= Len(w)
  BY <1>1, <1>2, <1>4, <1>5
<1>8. s \in EditsOf(f)
  <2>1. s \in [f : Seq(Bytes), fread : Nat, len : Nat, fwrite : Nat, held : Seq(Bytes)]
    BY <1>1, <1>3, <1>4, <1>5, <1>6, <1>7
  <2>2. Len(s.held) = s.len /\ s.fread + s.len <= Len(f) /\ Len(f) <= Len(s.f) /\ s.fwrite <= Len(s.f)
    BY <1>3, <1>6, <1>7 DEF L
  <2> QED BY <2>1, <2>2 DEF EditsOf
<1>9. /\ s.f = w /\ s.fread = e /\ s.len = len /\ s.fwrite = line + m
      /\ \A i \in 1..s.len : s.held[i] = f[s.fread + i]
  BY <1>3, <1>6
<1> QED BY <1>8, <1>9 DEF s, w, e, len, L, m, text, line

\* What it has in hand after a pass, if one is left to do.
LEMMA MoveIs ==
  ASSUME NEW f \in Seq(Bytes), NEW s \in EditsOf(f)
  PROVE  LET t == Move(s, Len(f)) IN
         /\ t \in EditsOf(f)
         /\ s.fread + s.len >= Len(f) => t = s
         /\ s.fread + s.len < Len(f) =>
               /\ t.f = Write(s.f, s.fwrite, s.held)
               /\ t.fread = s.fread + s.len
               /\ t.len = Smaller(Len(f) - t.fread, s.len)
               /\ t.fwrite = s.fwrite + s.len
               /\ \A i \in 1..t.len : t.held[i] = s.f[t.fread + i]
<1> DEFINE t == Move(s, Len(f))
           L == Len(f)
           e == s.fread + s.len
           z == s.len
           p == s.fwrite
           g == s.f
           len == Smaller(L - e, z)
           w == Write(g, p, s.held)
           held == SubSeq(g, e + 1, e + len)
<1>1. /\ L \in Nat /\ s.fread \in Nat /\ z \in Nat /\ p \in Nat /\ e \in Nat /\ e <= L
      /\ g \in Seq(Bytes) /\ s.held \in Seq(Bytes) /\ Len(s.held) = z
      /\ Len(g) \in Nat /\ L <= Len(g) /\ p <= Len(g)
  BY DEF EditsOf
<1>2. CASE e >= L
  <2>1. t = s
    BY <1>2 DEF Move
  <2> QED BY <1>1, <1>2, <2>1
<1>3. CASE e < L
  <2>1. t = [f |-> w, fread |-> e, len |-> len, fwrite |-> p + z, held |-> held]
    <3>1. ~(s.fread + s.len >= Len(f))
      BY <1>1, <1>3
    <3> QED BY <3>1 DEF Move
  <2> HIDE DEF t, L, e, z, p, g
  <2>2. w \in Seq(Bytes) /\ Len(w) = IF p + z > Len(g) THEN p + z ELSE Len(g)
    <3>1. p \in 0..Len(g)
      BY <1>1
    <3> QED BY <1>1, <3>1, WriteIs
  <2> HIDE DEF w
  <2>3. len \in Nat /\ len <= L - e
    <3> DEFINE x == L - e
    <3>1. x \in Int /\ x \in Nat /\ z \in Int
      BY <1>1
    <3>2. len = Smaller(x, z)
      OBVIOUS
    <3> HIDE DEF x, len
    <3>3. len \in Int /\ len <= x /\ len \in {x, z}
      BY <3>1, <3>2, SmallerIs
    <3> QED BY <1>1, <3>1, <3>3 DEF x
  <2> HIDE DEF len
  <2>4. held \in Seq(Bytes) /\ Len(held) = len /\ \A i \in 1..len : held[i] = g[e + i]
    <3>1. e + len <= Len(g)
      BY <1>1, <2>3
    <3> QED BY <1>1, <2>3, <3>1, MiddleOf
  <2> HIDE DEF held
  <2>5. p + z \in Nat /\ e + len <= L /\ L <= Len(w) /\ p + z <= Len(w)
    BY <1>1, <2>2, <2>3
  <2>6. t \in EditsOf(f)
    <3>1. t \in [f : Seq(Bytes), fread : Nat, len : Nat, fwrite : Nat, held : Seq(Bytes)]
      BY <1>1, <2>1, <2>2, <2>3, <2>4, <2>5
    <3>2. Len(t.held) = t.len /\ t.fread + t.len <= Len(f) /\ Len(f) <= Len(t.f) /\ t.fwrite <= Len(t.f)
      BY <2>1, <2>4, <2>5 DEF L
    <3> QED BY <3>1, <3>2 DEF EditsOf
  <2>7. /\ t.f = w /\ t.fread = e /\ t.len = len /\ t.fwrite = p + z
        /\ \A i \in 1..t.len : t.held[i] = g[t.fread + i]
    BY <2>1, <2>4
  <2>8. ~(e >= L)
    BY <1>1, <1>3
  <2> QED BY <2>6, <2>7, <2>8 DEF t, w, e, len, L, z, p, g
<1> QED BY <1>1, <1>2, <1>3

\* The passes of an edit, one by one.
Passes(f, n, new, del, pass) ==
    /\ pass \in [Nat -> EditsOf(f)]
    /\ \A k \in Nat : Moved(f, n, new, del, k) = pass[k]
    /\ pass[0] = Begun(f, n, new, del)
    /\ \A k \in Nat : pass[k + 1] = Move(pass[k], Len(f))

\* There are such, and what is in hand after each is sound.
LEMMA MovedIs ==
  ASSUME NEW f \in Seq(Bytes), NEW n \in Nat \ {0}, NEW new \in Seq(Bytes), NEW del
  PROVE  \E pass : Passes(f, n, new, del, pass)
<1> DEFINE V == EditsOf(f)
           base == Begun(f, n, new, del)
           step == [s \in V |-> Move(s, Len(f))]
<1>1. base \in V
  BY BegunIs
<1>2. step \in [V -> V]
  <2>1. ASSUME NEW s \in V PROVE Move(s, Len(f)) \in V
    BY MoveIs
  <2> HIDE DEF V
  <2> QED BY <2>1
<1>3. \A s \in V : step[s] = Move(s, Len(f))
  OBVIOUS
<1> HIDE DEF V, step, base
<1>4. \E h : Iterates(h, V, base, step)
  BY <1>1, <1>2, Iteration
<1>5. PICK h : h \in [Nat -> V] /\ h[0] = base /\ \A k \in Nat : h[k + 1] = step[h[k]]
  BY <1>4 DEF Iterates
<1> DEFINE pass[k \in Nat] == IF k = 0 THEN base ELSE Move(pass[k - 1], Len(f))
           A == {k \in Nat : pass[k] = h[k]}
<1>6. h = [k \in Nat |-> IF k = 0 THEN base ELSE Move(h[k - 1], Len(f))]
  <2>1. ASSUME NEW k \in Nat PROVE h[k] = IF k = 0 THEN base ELSE Move(h[k - 1], Len(f))
    <3>1. CASE k = 0
      BY <1>5, <3>1
    <3>2. CASE k # 0
      <4>1. k - 1 \in Nat /\ (k - 1) + 1 = k
        BY <3>2
      <4>2. h[k - 1] \in V
        BY <1>5, <4>1
      <4> QED BY <1>3, <1>5, <3>2, <4>1, <4>2
    <3> QED BY <3>1, <3>2
  <2> QED BY <1>5, <2>1
<1>7. pass = [k \in Nat |-> IF k = 0 THEN base ELSE Move(pass[k - 1], Len(f))]
  BY <1>6, Zenon
<1>8. \A k \in Nat : Moved(f, n, new, del, k) = pass[k]
  BY Zenon DEF Moved, base
<1> HIDE DEF pass
<1>9. 0 \in A
  BY <1>5, <1>7
<1>10. ASSUME NEW k \in Nat, k \in A PROVE k + 1 \in A
  <2>1. (k + 1) - 1 = k /\ k + 1 # 0 /\ k + 1 \in Nat
    OBVIOUS
  <2>2. pass[k + 1] = Move(pass[k], Len(f)) /\ h[k + 1] = Move(h[k], Len(f))
    BY <1>6, <1>7, <2>1
  <2> QED BY <1>10, <2>2
<1> HIDE DEF A
<1>11. Nat \subseteq A
  BY <1>9, <1>10, NatSetInduction
<1>12. \A k \in Nat : Moved(f, n, new, del, k) = h[k]
  BY <1>8, <1>11 DEF A
<1>13. ASSUME NEW k \in Nat PROVE h[k + 1] = Move(h[k], Len(f))
  <2>1. h[k] \in V
    BY <1>5
  <2> QED BY <1>3, <1>5, <2>1
<1> QED BY <1>5, <1>12, <1>13 DEF V, base, Passes

\* The file that an edit leaves.
LEMMA EditedIs ==
  ASSUME NEW f \in Seq(Bytes), NEW n \in Nat \ {0}, NEW new \in Seq(Bytes), NEW del
  PROVE  LET s == Moved(f, n, new, del, Len(f))
             w == Edited(f, n, new, del)
         IN /\ s \in EditsOf(f)
            /\ w \in Seq(Bytes) /\ s.fwrite <= Len(w)
            /\ \A i \in 1..s.fwrite : w[i] = s.f[i]
<1> DEFINE s == Moved(f, n, new, del, Len(f))
           w == Edited(f, n, new, del)
           len == s.len
           g == [k \in 1..len |-> Garbage]
<1>1. s \in EditsOf(f)
  <2>1. Len(f) \in Nat
    OBVIOUS
  <2>2. PICK pass : Passes(f, n, new, del, pass)
    BY MovedIs
  <2> QED BY <2>1, <2>2 DEF Passes
<1>2. w = Write(s.f, s.fwrite, g)
  BY DEF Edited
<1> HIDE DEF s, w
<1>3. /\ s.f \in Seq(Bytes) /\ s.fwrite \in Nat /\ s.len \in Nat /\ Len(s.f) \in Nat
      /\ s.fwrite <= Len(s.f)
  BY <1>1 DEF EditsOf
<1> HIDE DEF len
<1>4. g \in Seq(Bytes)
  <2>1. Garbage \in Bytes
    BY LineAssumption DEF Garbage, Bytes
  <2>2. len \in Nat
    BY <1>3 DEF len
  <2> HIDE DEF Garbage
  <2>3. g \in [1..len -> Bytes]
    BY <2>1
  <2> HIDE DEF g
  <2> QED BY <2>2, <2>3
<1> HIDE DEF g
<1> DEFINE p == s.fwrite
           h == s.f
<1>5. /\ w \in Seq(Bytes)
      /\ Len(w) = IF p + Len(g) > Len(h) THEN p + Len(g) ELSE Len(h)
      /\ \A i \in 1..p : w[i] = h[i]
  <2>1. p \in 0..Len(h) /\ h \in Seq(Bytes)
    BY <1>3
  <2>2. w = Write(h, p, g)
    BY <1>2
  <2> HIDE DEF p, h
  <2> QED BY <1>4, <2>1, <2>2, WriteIs
<1>6. p <= Len(w)
  <2>1. p \in Nat /\ Len(h) \in Nat /\ p <= Len(h) /\ Len(g) \in Nat
    BY <1>3, <1>4
  <2> HIDE DEF p, h
  <2> QED BY <1>5, <2>1
<1> QED BY <1>1, <1>5, <1>6 DEF s, w, p, h

\* An edit of f that writes text for the bytes from line to e, and has moved what is
\* behind them as far as fread by whole blocks: the block behind is the one it
\* holds, and the rest is still in its place.
Moving(f, line, e, text, s) ==
    LET h == line + Len(text) IN
    /\ e <= s.fread /\ s.fwrite + e = s.fread + h
    /\ s.len <= Block /\ (s.len = Block \/ s.fread + s.len = Len(f))
    /\ e < Len(f) => s.len > 0
    /\ \E q \in Nat : s.fread = e + q * Block
    /\ \A i \in 1..line : s.f[i] = f[i]
    /\ \A i \in 1..Len(text) : s.f[line + i] = text[i]
    /\ \A i \in (e + 1)..s.fread : s.f[(i - e) + h] = f[i]
    /\ \A i \in 1..s.len : s.held[i] = f[s.fread + i]
    /\ \A i \in (s.fread + s.len + 1)..Len(f) : s.f[i] = f[i]

\* It does when it begins, if the text reaches no further than a block behind.
LEMMA BegunMoves ==
  ASSUME NEW f \in Seq(Bytes), NEW n \in Nat \ {0}, NEW new \in Seq(Bytes), NEW del,
         Skipped(f, n - 1) + Len(TextOf(new, del)) <= Skipped(f, n) + Block
  PROVE  Moving(f, Skipped(f, n - 1), Skipped(f, n), TextOf(new, del), Begun(f, n, new, del))
<1> DEFINE s == Begun(f, n, new, del)
           line == Skipped(f, n - 1)
           e == Skipped(f, n)
           text == TextOf(new, del)
           L == Len(f)
           m == Len(text)
           len == Smaller(L - e, Block)
           g == s.f
<1>1. L \in Nat /\ line \in Nat /\ e \in Nat /\ line <= e /\ e <= L /\ Block \in Nat \ {0}
  BY PlacesOfLine, BufferAssumption
<1>2. text \in Seq(Bytes) /\ m \in Nat /\ line + m <= e + Block
  BY TextIs
<1>3. /\ g = Write(f, line, text) /\ s.fread = e /\ s.len = len /\ s.fwrite = line + m
      /\ \A i \in 1..s.len : s.held[i] = f[s.fread + i]
  BY BegunIs
<1> HIDE DEF s, line, e, text
<1>4. /\ \A i \in 1..line : g[i] = f[i]
      /\ \A i \in 1..m : g[line + i] = text[i]
      /\ \A i \in (line + m + 1)..L : g[i] = f[i]
  <2>1. line \in 0..Len(f)
    BY <1>1
  <2> QED BY <1>2, <1>3, <2>1, WriteIs
<1> HIDE DEF L, m, g
<1>5. len \in Nat /\ len <= L - e /\ len <= Block /\ (len = Block \/ len = L - e)
  <2> DEFINE x == L - e
  <2>1. x \in Int /\ x \in Nat /\ Block \in Int
    BY <1>1
  <2>2. len = Smaller(x, Block)
    OBVIOUS
  <2> HIDE DEF x, len
  <2>3. len \in Int /\ len <= x /\ len <= Block /\ len \in {x, Block}
    BY <2>1, <2>2, SmallerIs
  <2> QED BY <1>1, <2>1, <2>3 DEF x
<1> HIDE DEF len
<1>6. e < L => len > 0
  BY <1>1, <1>5
<1>7. len = Block \/ e + len = L
  BY <1>1, <1>5
<1>8. e <= e /\ (line + m) + e = e + (line + m) /\ e = e + 0 * Block
  <2>1. 0 * Block = 0
    BY <1>1
  <2> QED BY <1>1, <1>2, <2>1
<1>9. \A i \in (e + 1)..e : g[(i - e) + (line + m)] = f[i]
  <2>1. (e + 1)..e = {}
    BY <1>1
  <2> QED BY <2>1
<1>10. \A i \in (e + len + 1)..L : g[i] = f[i]
  <2>1. ASSUME NEW i \in (e + len + 1)..L PROVE i \in (line + m + 1)..L
    BY <1>1, <1>2, <1>5, <1>7
  <2> QED BY <1>4, <2>1
<1> QED
  <2>1. \E q \in Nat : e = e + q * Block
    BY <1>8
  <2>2. e <= s.fread /\ s.fwrite + e = s.fread + (line + Len(text))
    BY <1>3, <1>8 DEF m
  <2>3. s.len <= Block /\ (s.len = Block \/ s.fread + s.len = Len(f)) /\ (e < Len(f) => s.len > 0)
    BY <1>3, <1>5, <1>6, <1>7 DEF L
  <2>4. /\ \A i \in 1..line : s.f[i] = f[i]
        /\ \A i \in 1..Len(text) : s.f[line + i] = text[i]
    BY <1>4 DEF m, g
  <2>5. \A i \in (e + 1)..s.fread : s.f[(i - e) + (line + Len(text))] = f[i]
    BY <1>3, <1>9 DEF m, g
  <2>6. \A i \in (s.fread + s.len + 1)..Len(f) : s.f[i] = f[i]
    BY <1>3, <1>10 DEF L, g
  <2>7. \E q \in Nat : s.fread = e + q * Block
    BY <1>3, <2>1
  <2>8. Moving(f, line, e, text, s)
    BY <1>3, <2>2, <2>3, <2>4, <2>5, <2>6, <2>7 DEF Moving
  <2> QED BY <2>8 DEF s, line, e, text

\* And it does after a pass: what the block that is written lies over has been read.
LEMMA MoveMoves ==
  ASSUME NEW f \in Seq(Bytes), NEW line \in Nat, NEW e \in Nat, NEW text \in Seq(Bytes),
         line <= e, e <= Len(f), line + Len(text) <= e + Block,
         NEW s \in EditsOf(f), Moving(f, line, e, text, s), s.fread + s.len < Len(f)
  PROVE  /\ Moving(f, line, e, text, Move(s, Len(f)))
         /\ Move(s, Len(f)).fread = s.fread + Block
<1> DEFINE t == Move(s, Len(f))
           L == Len(f)
           m == Len(text)
           h == line + m
           r == s.fread
           z == s.len
           p == s.fwrite
           g == s.f
           held == s.held
           u == t.fread
           len == t.len
           w == t.f
<1>1. /\ L \in Nat /\ r \in Nat /\ z \in Nat /\ p \in Nat /\ m \in Nat /\ h \in Nat
      /\ g \in Seq(Bytes) /\ held \in Seq(Bytes) /\ Len(held) = z
      /\ Len(g) \in Nat /\ L <= Len(g) /\ p <= Len(g) /\ Block \in Nat \ {0}
  BY BufferAssumption DEF EditsOf
<1>2. /\ w = Write(g, p, held) /\ u = r + z /\ len = Smaller(L - u, z) /\ t.fwrite = p + z
      /\ \A i \in 1..len : t.held[i] = g[u + i]
  BY MoveIs
<1>3. /\ e <= r /\ p + e = r + h /\ z <= Block /\ (z = Block \/ r + z = L) /\ r + z < L
      /\ (\E q \in Nat : r = e + q * Block)
      /\ (\A i \in 1..line : g[i] = f[i]) /\ (\A i \in 1..m : g[line + i] = text[i])
      /\ (\A i \in (e + 1)..r : g[(i - e) + h] = f[i])
      /\ (\A i \in 1..z : held[i] = f[r + i])
      /\ (\A i \in (r + z + 1)..L : g[i] = f[i])
  BY DEF Moving
<1> HIDE DEF t
<1>4. /\ \A i \in 1..p : w[i] = g[i]
      /\ \A i \in 1..Len(held) : w[p + i] = held[i]
      /\ \A i \in (p + Len(held) + 1)..Len(g) : w[i] = g[i]
  <2>1. p \in 0..Len(g) /\ g \in Seq(Bytes) /\ held \in Seq(Bytes)
    BY <1>1
  <2>2. w = Write(g, p, held)
    BY <1>2
  <2> HIDE DEF p, g, held, w
  <2>3. /\ \A i \in 1..p : Write(g, p, held)[i] = g[i]
        /\ \A i \in 1..Len(held) : Write(g, p, held)[p + i] = held[i]
        /\ \A i \in (p + Len(held) + 1)..Len(g) : Write(g, p, held)[i] = g[i]
    BY <2>1, WriteIs
  <2> QED BY <2>2, <2>3
<1> HIDE DEF L, m, h, r, z, p, g, held, u, len, w
<1>5. z = Block /\ u = r + Block /\ p >= h /\ h <= e + Block /\ line <= h
  <2>1. z = Block
    BY <1>1, <1>3
  <2>2. p >= h
    <3>1. e <= r /\ p + e = r + h
      BY <1>3
    <3> QED BY <1>1, <3>1
  <2>3. h <= e + Block /\ line <= h
    BY <1>1 DEF h, m
  <2> QED BY <1>2, <2>1, <2>2, <2>3
<1>6. len \in Nat /\ len <= Block /\ (len = Block \/ u + len = L) /\ len > 0
  <2> DEFINE x == L - u
  <2>1. x \in Int /\ x > 0 /\ Block \in Int
    BY <1>1, <1>2, <1>3, <1>5
  <2>2. len = Smaller(x, Block)
    BY <1>2, <1>5
  <2> HIDE DEF x
  <2>3. len \in Int /\ len <= x /\ len <= Block /\ len \in {x, Block}
    BY <2>1, <2>2, SmallerIs
  <2>4. len \in Nat /\ len > 0
    BY <1>1, <2>1, <2>3
  <2>5. x = L - u /\ u \in Nat
    BY <1>1, <1>5 DEF x
  <2>6. len = x => u + len = L
    BY <1>1, <2>5
  <2> QED BY <2>3, <2>4, <2>6
<1>7. \E q \in Nat : u = e + q * Block
  <2>1. PICK q \in Nat : r = e + q * Block
    BY <1>3
  <2>2. (q + 1) * Block = q * Block + Block /\ q * Block \in Nat
    BY <1>1
  <2>3. u = e + (q + 1) * Block /\ q + 1 \in Nat
    BY <1>1, <1>5, <2>1, <2>2
  <2> QED BY <2>3
<1>8. e <= u /\ t.fwrite + e = u + h
  BY <1>1, <1>2, <1>3, <1>5
<1>9. \A i \in 1..line : w[i] = f[i]
  <2>1. ASSUME NEW i \in 1..line PROVE i \in 1..p
    BY <1>1, <1>5
  <2> QED BY <1>3, <1>4, <2>1
<1>10. \A i \in 1..m : w[line + i] = text[i]
  <2>1. ASSUME NEW i \in 1..m PROVE line + i \in 1..p
    <3>1. line + i >= 1 /\ line + i <= h
      BY <1>1 DEF h
    <3> QED BY <1>1, <1>5, <3>1
  <2> QED BY <1>3, <1>4, <2>1
<1>11. \A i \in (e + 1)..u : w[(i - e) + h] = f[i]
  <2>1. ASSUME NEW i \in (e + 1)..u PROVE w[(i - e) + h] = f[i]
    <3>1. CASE i <= r
      <4>1. i \in (e + 1)..r /\ (i - e) + h \in 1..p
        BY <1>1, <1>3, <1>5, <3>1
      <4> QED BY <1>3, <1>4, <4>1
    <3>2. CASE ~(i <= r)
      <4> DEFINE j == i - r
      <4>1. j \in 1..z /\ (i - e) + h = p + j /\ r + j = i
        BY <1>1, <1>3, <1>5, <3>2
      <4> HIDE DEF j
      <4>2. w[p + j] = held[j] /\ held[j] = f[r + j]
        BY <1>1, <1>3, <1>4, <4>1
      <4> QED BY <4>1, <4>2
    <3> QED BY <3>1, <3>2
  <2> QED BY <2>1
<1>12. \A i \in 1..len : t.held[i] = f[u + i]
  <2>1. ASSUME NEW i \in 1..len PROVE t.held[i] = f[u + i]
    <3>1. u + i \in (r + z + 1)..L
      <4>1. u + len <= L
        <5>1. len <= L - u
          <6> DEFINE x == L - u
          <6>1. x \in Int /\ z \in Int
            BY <1>1, <1>5
          <6> HIDE DEF x
          <6>2. Smaller(x, z) <= x
            BY <6>1, SmallerIs
          <6> QED BY <1>2, <6>2 DEF x
        <5> QED BY <1>1, <1>5, <1>6, <5>1
      <4>2. i \in Nat /\ i >= 1 /\ i <= len /\ u = r + Block /\ z = Block
        BY <1>5, <1>6, <2>1
      <4>3. u + i >= r + z + 1 /\ u + i <= L /\ u + i \in Int
        BY <1>1, <1>6, <4>1, <4>2
      <4> QED BY <1>1, <4>3
    <3> QED BY <1>2, <1>3, <3>1
  <2> QED BY <2>1
<1>13. \A i \in (u + len + 1)..L : w[i] = f[i]
  <2>1. ASSUME NEW i \in (u + len + 1)..L PROVE w[i] = f[i]
    <3>1. i \in Nat /\ i <= L /\ u + len < i
      BY <1>1, <1>5, <1>6
    <3>2. len = Block
      BY <1>1, <1>5, <1>6, <3>1
    <3>3. i \in (r + z + 1)..L /\ i \in (p + Len(held) + 1)..Len(g)
      BY <1>1, <1>3, <1>5, <3>1, <3>2
    <3> QED BY <1>3, <1>4, <3>3
  <2> QED BY <2>1
<1> QED
  <2>1. e <= t.fread /\ t.fwrite + e = t.fread + (line + Len(text))
    BY <1>8 DEF u, h, m
  <2>2. t.len <= Block /\ (t.len = Block \/ t.fread + t.len = Len(f)) /\ (e < Len(f) => t.len > 0)
    BY <1>6 DEF L, u, len
  <2>3. /\ \A i \in 1..line : t.f[i] = f[i]
        /\ \A i \in 1..Len(text) : t.f[line + i] = text[i]
    BY <1>9, <1>10 DEF m, w
  <2>4. \A i \in (e + 1)..t.fread : t.f[(i - e) + (line + Len(text))] = f[i]
    BY <1>11 DEF m, w, h, u
  <2>5. \A i \in 1..t.len : t.held[i] = f[t.fread + i]
    BY <1>12 DEF len, u
  <2>6. \A i \in (t.fread + t.len + 1)..Len(f) : t.f[i] = f[i]
    BY <1>13 DEF len, u, L, w
  <2>7. \E q \in Nat : t.fread = e + q * Block
    BY <1>7 DEF u
  <2>8. Moving(f, line, e, text, t)
    BY <2>1, <2>2, <2>3, <2>4, <2>5, <2>6, <2>7 DEF Moving
  <2> QED BY <1>5, <2>8 DEF t, u, r

\* All passes of an edit move the rest, and after as many as the file has bytes none is
\* left to do.
LEMMA PassesMove ==
  ASSUME NEW f \in Seq(Bytes), NEW n \in Nat \ {0}, NEW new \in Seq(Bytes), NEW del,
         Skipped(f, n - 1) + Len(TextOf(new, del)) <= Skipped(f, n) + Block
  PROVE  /\ \A k \in Nat : Moving(f, Skipped(f, n - 1), Skipped(f, n), TextOf(new, del),
                                  Moved(f, n, new, del, k))
         /\ LET s == Moved(f, n, new, del, Len(f)) IN s.fread + s.len = Len(f)
<1> DEFINE line == Skipped(f, n - 1)
           e == Skipped(f, n)
           text == TextOf(new, del)
           L == Len(f)
<1>1. L \in Nat /\ line \in Nat /\ e \in Nat /\ line <= e /\ e <= L /\ Block \in Nat \ {0}
  BY PlacesOfLine, BufferAssumption
<1>2. text \in Seq(Bytes) /\ line + Len(text) <= e + Block
  BY TextIs
<1>12. PICK pass : Passes(f, n, new, del, pass)
  BY MovedIs
<1>3. /\ pass \in [Nat -> EditsOf(f)]
      /\ \A k \in Nat : Moved(f, n, new, del, k) = pass[k]
      /\ pass[0] = Begun(f, n, new, del)
      /\ \A k \in Nat : pass[k + 1] = Move(pass[k], L)
  BY <1>12 DEF Passes
<1>4. Moving(f, line, e, text, pass[0])
  BY <1>3, BegunMoves
<1>5. \A k \in Nat : pass[k] \in EditsOf(f) /\ pass[k + 1] = Move(pass[k], L)
  BY <1>3
<1> HIDE DEF line, e, text
<1>6. \A k \in Nat : pass[k].fread \in Nat /\ pass[k].len \in Nat /\ pass[k].fread + pass[k].len <= L
  BY <1>5 DEF EditsOf
<1> DEFINE A == {k \in Nat : /\ Moving(f, line, e, text, pass[k])
                             /\ pass[k].fread + pass[k].len = L \/ k <= pass[k].fread}
<1>7. 0 \in A
  <2>1. pass[0].fread \in Nat
    BY <1>6
  <2>2. 0 <= pass[0].fread
    BY <2>1
  <2> QED BY <1>4, <2>2
<1>8. ASSUME NEW k \in Nat, k \in A PROVE k + 1 \in A
  <2> DEFINE s == pass[k]
             t == pass[k + 1]
  <2>1. /\ s \in EditsOf(f) /\ t = Move(s, L) /\ Moving(f, line, e, text, s)
        /\ s.fread \in Nat /\ s.len \in Nat /\ s.fread + s.len <= L
        /\ (s.fread + s.len = L \/ k <= s.fread)
    BY <1>5, <1>6, <1>8
  <2> SUFFICES Moving(f, line, e, text, t) /\ (t.fread + t.len = L \/ k + 1 <= t.fread)
    OBVIOUS
  <2> HIDE DEF s, t
  <2>2. CASE s.fread + s.len = L
    <3>1. s.fread + s.len >= Len(f)
      BY <1>1, <2>2
    <3>2. t = s
      BY <2>1, <3>1, MoveIs
    <3> QED BY <2>1, <2>2, <3>2
  <2>3. CASE s.fread + s.len # L
    <3>1. s.fread + s.len < Len(f) /\ k <= s.fread
      BY <1>1, <2>1, <2>3
    <3>2. Moving(f, line, e, text, Move(s, Len(f))) /\ Move(s, Len(f)).fread = s.fread + Block
      BY <1>1, <1>2, <2>1, <3>1, MoveMoves
    <3>3. Moving(f, line, e, text, t) /\ t.fread = s.fread + Block
      BY <2>1, <3>2
    <3>4. k + 1 <= s.fread + Block
      BY <1>1, <2>1, <3>1
    <3> QED BY <3>3, <3>4
  <2> QED BY <2>2, <2>3
<1> HIDE DEF A
<1>9. Nat \subseteq A
  BY <1>7, <1>8, NatSetInduction
<1>10. \A k \in Nat : Moving(f, line, e, text, pass[k])
  BY <1>9 DEF A
<1>11. pass[L].fread + pass[L].len = L
  <2>1. pass[L].fread + pass[L].len = L \/ L <= pass[L].fread
    BY <1>1, <1>9 DEF A
  <2>2. pass[L].fread \in Nat /\ pass[L].len \in Nat /\ pass[L].fread + pass[L].len <= L
    BY <1>1, <1>6
  <2> QED BY <1>1, <2>1, <2>2
<1> QED BY <1>1, <1>3, <1>10, <1>11 DEF line, e, text, L

\* What is gone of the bytes behind the line is in the block that an edit holds.
LEMMA OneBlockLost ==
  ASSUME NEW f \in Seq(Bytes), NEW line \in Nat, NEW e \in Nat, NEW text \in Seq(Bytes),
         line <= e, e <= Len(f), NEW s \in EditsOf(f), Moving(f, line, e, text, s),
         NEW w \in Seq(Bytes), s.fwrite <= Len(w), \A i \in 1..s.fwrite : w[i] = s.f[i],
         w = s.f \/ s.fread + s.len = Len(f)
  PROVE  /\ IsPrefix(SubSeq(f, 1, line), w)
         /\ Cardinality(Range(SubSeq(f, e + 1, Len(f))) \ (Range(w) \cup {CR})) <= Block
<1> DEFINE L == Len(f)
           m == Len(text)
           h == line + m
           r == s.fread
           z == s.len
           p == s.fwrite
           g == s.f
           held == s.held
           rest == SubSeq(f, e + 1, L)
           lost == Range(rest) \ (Range(w) \cup {CR})
<1>1. /\ L \in Nat /\ r \in Nat /\ z \in Nat /\ p \in Nat /\ m \in Nat /\ h \in Nat
      /\ g \in Seq(Bytes) /\ held \in Seq(Bytes) /\ Len(held) = z /\ r + z <= L
      /\ Len(g) \in Nat /\ L <= Len(g) /\ p <= Len(g) /\ Block \in Nat \ {0} /\ Len(w) \in Nat
  BY BufferAssumption DEF EditsOf
<1>2. e <= r /\ p + e = r + h /\ z <= Block
  BY DEF Moving
<1>3. /\ (\A i \in 1..line : g[i] = f[i])
      /\ (\A i \in (e + 1)..r : g[(i - e) + h] = f[i])
      /\ (\A i \in 1..z : held[i] = f[r + i])
      /\ (\A i \in (r + z + 1)..L : g[i] = f[i])
  BY DEF Moving
<1>4. \A i \in 1..p : w[i] = g[i]
  OBVIOUS
<1>5. p <= Len(w) /\ (w = g \/ r + z = L) /\ line <= h
  BY <1>1
<1>6. IsPrefix(SubSeq(f, 1, line), w)
  <2> DEFINE a == SubSeq(f, 1, line)
  <2>1. line \in 0..Len(f)
    BY <1>1
  <2>2. a \in Seq(Bytes) /\ Len(a) = line /\ \A i \in 1..line : a[i] = f[i]
    BY <2>1, BeginningOf
  <2> HIDE DEF a
  <2>5. line <= p
    <3> HIDE DEF h, p, r
    <3> QED BY <1>1, <1>2, <1>5
  <2>6. ASSUME NEW i \in 1..Len(a) PROVE a[i] = w[i]
    <3>1. i \in 1..line
      BY <2>2
    <3>2. i \in 1..p
      <4> HIDE DEF p
      <4> QED BY <1>1, <2>5, <3>1
    <3> QED BY <1>3, <1>4, <2>2, <3>1, <3>2
  <2>7. Len(a) <= Len(w)
    <3> HIDE DEF p
    <3> QED BY <1>1, <1>5, <2>2, <2>5
  <2>8. IsPrefix(a, w)
    BY <2>2, <2>6, <2>7, PrefixIs
  <2> QED BY <2>8 DEF a
<1>7. Range(rest) = {f[i] : i \in (e + 1)..L}
  <2>1. rest \in Seq(Bytes) /\ Len(rest) = L - e /\ \A i \in 1..(L - e) : rest[i] = f[e + i]
    BY RestOf
  <2> HIDE DEF rest, L
  <2>2. DOMAIN rest = 1..Len(rest)
    BY <2>1
  <2>3. ASSUME NEW i \in 1..Len(rest) PROVE rest[i] = f[e + i] /\ e + i \in (e + 1)..L
    <3>1. e + i \in (e + 1)..L
      BY <1>1, <2>1
    <3> QED BY <2>1, <3>1
  <2>4. ASSUME NEW i \in (e + 1)..L PROVE \E j \in 1..Len(rest) : rest[j] = f[i]
    <3>1. i - e \in 1..Len(rest) /\ e + (i - e) = i
      BY <1>1, <2>1
    <3> QED BY <2>3, <3>1
  <2>5. Range(rest) = {rest[j] : j \in 1..Len(rest)}
    BY <2>2 DEF Range
  <2> QED
    <3>1. {rest[j] : j \in 1..Len(rest)} \subseteq {f[i] : i \in (e + 1)..L}
      <4>1. ASSUME NEW j \in 1..Len(rest) PROVE rest[j] \in {f[i] : i \in (e + 1)..L}
        BY <2>3
      <4> QED BY <4>1
    <3>2. {f[i] : i \in (e + 1)..L} \subseteq {rest[j] : j \in 1..Len(rest)}
      BY <2>4, Zenon
    <3> QED BY <2>5, <3>1, <3>2, Zenon
<1>8. \A i \in 1..Len(w) : w[i] \in Range(w)
  BY DEF Range
<1> HIDE DEF L, m, h, r, z, p, g, held, rest
<1>9. lost \subseteq Range(held)
  <2>1. ASSUME NEW i \in (e + 1)..L, f[i] \notin Range(w) PROVE f[i] \in Range(held)
    <3>1. CASE i <= r
      <4>1. i \in (e + 1)..r /\ (i - e) + h \in 1..p
        <5>1. i \in (e + 1)..r /\ e \in Nat /\ r \in Nat /\ h \in Nat /\ p \in Nat
          BY <1>1, <3>1
        <5> QED BY <1>2, <5>1, ShiftedPlace
      <4>2. (i - e) + h \in 1..Len(w)
        BY <1>1, <1>5, <4>1
      <4> QED BY <1>3, <1>4, <1>8, <2>1, <4>1, <4>2
    <3>2. CASE r < i /\ i <= r + z
      <4> DEFINE j == i - r
      <4>1. j \in 1..z /\ r + j = i
        BY <1>1, <3>2
      <4> HIDE DEF j
      <4>2. held[j] = f[i]
        <5>1. held[j] = f[r + j]
          BY <1>3, <4>1
        <5> QED BY <4>1, <5>1
      <4>3. j \in DOMAIN held
        <5>1. held \in Seq(Bytes) /\ Len(held) = z
          BY <1>1
        <5> QED BY <4>1, <5>1
      <4> QED BY <4>2, <4>3 DEF Range
    <3>3. CASE r + z < i
      <4>1. i \in (r + z + 1)..L /\ r + z # L
        BY <1>1, <3>3
      <4>2. w = g
        BY <1>5, <4>1
      <4>3. i \in 1..Len(w)
        <5>1. L <= Len(w)
          BY <1>1, <4>2
        <5> QED BY <1>1, <5>1
      <4> QED BY <1>3, <1>8, <2>1, <4>1, <4>2, <4>3
    <3> QED BY <1>1, <3>1, <3>2, <3>3
  <2> QED BY <1>7, <2>1
<1>10. IsFiniteSet(Range(held)) /\ Cardinality(Range(held)) <= z
  <2>1. held \in Surjection(1..z, Range(held))
    BY <1>1 DEF Surjection, Range
  <2>2. IsFiniteSet(1..z) /\ Cardinality(1..z) <= z
    <3>1. 1 \in Int /\ z \in Int
      BY <1>1
    <3>2. IsFiniteSet(1..z) /\ Cardinality(1..z) = IF 1 > z THEN 0 ELSE z - 1 + 1
      BY <3>1, FS_Interval
    <3> QED BY <1>1, <3>2
  <2>3. IsFiniteSet(Range(held)) /\ Cardinality(Range(held)) <= Cardinality(1..z)
    BY <2>1, <2>2, FS_Surjection
  <2> DEFINE x == Cardinality(Range(held))
             y == Cardinality(1..z)
  <2>4. x \in Nat /\ y \in Nat /\ x <= y /\ y <= z
    BY <2>2, <2>3, FS_CardinalityType
  <2> HIDE DEF x, y
  <2>5. x <= z
    BY <1>1, <2>4
  <2> QED BY <2>3, <2>5 DEF x
<1>11. Cardinality(lost) <= Block
  <2>1. lost \in SUBSET Range(held)
    BY <1>9
  <2> HIDE DEF lost
  <2>2. IsFiniteSet(lost) /\ Cardinality(lost) <= Cardinality(Range(held))
    BY <1>10, <2>1, FS_Subset
  <2> DEFINE x == Cardinality(lost)
             y == Cardinality(Range(held))
  <2>3. x \in Nat /\ y \in Nat /\ x <= y /\ y <= z /\ z <= Block
    BY <1>2, <1>10, <2>2, FS_CardinalityType
  <2> HIDE DEF x, y
  <2>4. x <= Block
    BY <1>1, <2>3
  <2> QED BY <2>4 DEF x
<1> QED BY <1>6, <1>11 DEF lost, rest, L

\* An edit that has come to its end has left what was behind the line up to the last
\* block.
LEMMA RestMoved ==
  ASSUME NEW f \in Seq(Bytes), NEW line \in Nat, NEW e \in Nat, NEW text \in Seq(Bytes),
         line <= e, e <= Len(f), NEW s \in EditsOf(f), Moving(f, line, e, text, s),
         NEW w \in Seq(Bytes), s.fwrite <= Len(w), \A i \in 1..s.fwrite : w[i] = s.f[i],
         s.fread + s.len = Len(f)
  PROVE  LET rest == SubSeq(f, e + 1, Len(f))
         IN IsPrefix(SubSeq(f, 1, line) \o text \o SubSeq(rest, 1, Len(rest) - LastBlock(rest)), w)
<1> DEFINE L == Len(f)
           m == Len(text)
           h == line + m
           r == s.fread
           z == s.len
           p == s.fwrite
           g == s.f
           rest == SubSeq(f, e + 1, L)
           a == SubSeq(f, 1, line)
           k == r - e
           tail == SubSeq(rest, 1, k)
           b == a \o text
           want == b \o tail
<1>1. /\ L \in Nat /\ r \in Nat /\ z \in Nat /\ p \in Nat /\ m \in Nat /\ h \in Nat
      /\ g \in Seq(Bytes) /\ Block \in Nat \ {0} /\ Len(w) \in Nat
  BY BufferAssumption DEF EditsOf
<1>2. e <= r /\ p + e = r + h /\ z <= Block /\ r + z = L /\ (e < L => z > 0)
  BY DEF Moving
<1>3. /\ (\A i \in 1..line : g[i] = f[i])
      /\ (\A i \in 1..m : g[line + i] = text[i])
      /\ (\A i \in (e + 1)..r : g[(i - e) + h] = f[i])
  BY DEF Moving
<1>4. PICK q \in Nat : r = e + q * Block
  BY DEF Moving
<1>5. \A i \in 1..p : w[i] = g[i]
  OBVIOUS
<1>6. rest \in Seq(Bytes) /\ Len(rest) = L - e /\ \A i \in 1..(L - e) : rest[i] = f[e + i]
  BY RestOf
<1>7. a \in Seq(Bytes) /\ Len(a) = line /\ \A i \in 1..line : a[i] = f[i]
  <2>1. line <= Len(f)
    BY <1>1
  <2> QED BY <2>1, BeginningOf
<1>0. p <= Len(w) /\ h = line + m /\ text \in Seq(Bytes) /\ Len(text) = m
  OBVIOUS
<1> HIDE DEF L, m, h, r, z, p, g, rest, a
<1>8. LastBlock(rest) = z
  <2>1. CASE L = e
    <3>1. Len(rest) = 0 /\ z = 0
      BY <1>1, <1>2, <1>6, <2>1
    <3>2. rest = <<>>
      BY <1>6, <3>1
    <3> QED BY <3>1, <3>2 DEF LastBlock
  <2>2. CASE L # e
    <3>1. z > 0 /\ L - e - 1 = (r - e) + (z - 1)
      BY <1>1, <1>2, <2>2
    <3>2. r - e = q * Block
      <4> DEFINE y == q * Block
      <4>1. y \in Nat /\ r = e + y
        BY <1>1, <1>4
      <4> HIDE DEF y
      <4>2. r - e = y
        BY <1>1, <4>1
      <4> QED BY <4>2 DEF y
    <3>3. z - 1 \in 0..(Block - 1)
      BY <1>1, <1>2, <3>1
    <3> DEFINE x == z - 1
    <3>4. x \in 0..(Block - 1) /\ x + 1 = z
      BY <1>1, <3>3
    <3> HIDE DEF x
    <3>5. (q * Block + x) % Block = x
      BY <1>1, <3>4, RemainderIs
    <3>6. Len(rest) - 1 = q * Block + x
      BY <1>6, <3>1, <3>2 DEF x
    <3>7. rest # <<>>
      <4>1. Len(rest) # 0
        BY <1>1, <1>6, <2>2
      <4> QED BY <4>1
    <3>8. LastBlock(rest) = ((Len(rest) - 1) % Block) + 1
      BY <3>7 DEF LastBlock
    <3> QED BY <3>4, <3>5, <3>6, <3>8
  <2> QED BY <2>1, <2>2
<1>9. k \in Nat /\ k <= Len(rest) /\ Len(rest) - LastBlock(rest) = k
  BY <1>1, <1>2, <1>6, <1>8
<1>10. tail \in Seq(Bytes) /\ Len(tail) = k /\ \A i \in 1..k : tail[i] = f[e + i]
  <2>1. tail \in Seq(Bytes) /\ Len(tail) = k /\ \A i \in 1..k : tail[i] = rest[i]
    <3> HIDE DEF k
    <3> QED BY <1>6, <1>9, BeginningOf
  <2>2. k <= L - e
    BY <1>6, <1>9
  <2> HIDE DEF tail
  <2>3. ASSUME NEW i \in 1..k PROVE tail[i] = f[e + i]
    <3>1. i \in 1..(L - e)
      BY <1>1, <1>9, <2>2
    <3> QED BY <1>6, <2>1, <3>1
  <2> QED BY <2>1, <2>3
<1> HIDE DEF tail
<1>11. b \in Seq(Bytes) /\ Len(b) = h /\ (\A i \in 1..line : b[i] = a[i])
       /\ \A i \in 1..m : b[line + i] = text[i]
  <2>1. a \in Seq(Bytes) /\ text \in Seq(Bytes)
    BY <1>7
  <2> HIDE DEF b
  <2>2. b = a \o text
    BY DEF b
  <2>3. /\ b \in Seq(Bytes) /\ Len(b) = Len(a) + Len(text)
        /\ \A i \in 1..Len(a) : b[i] = a[i]
        /\ \A i \in 1..Len(text) : b[Len(a) + i] = text[i]
    BY <2>1, <2>2, ConcatIs
  <2> QED BY <1>0, <1>7, <2>3
<1> HIDE DEF b
<1>12. want \in Seq(Bytes) /\ Len(want) = h + k /\ (\A i \in 1..h : want[i] = b[i])
       /\ \A i \in 1..k : want[h + i] = tail[i]
  <2>1. b \in Seq(Bytes) /\ tail \in Seq(Bytes)
    BY <1>10, <1>11
  <2> HIDE DEF want
  <2>2. want = b \o tail
    BY DEF want
  <2>3. /\ want \in Seq(Bytes) /\ Len(want) = Len(b) + Len(tail)
        /\ \A i \in 1..Len(b) : want[i] = b[i]
        /\ \A i \in 1..Len(tail) : want[Len(b) + i] = tail[i]
    BY <2>1, <2>2, ConcatIs
  <2> QED BY <1>10, <1>11, <2>3
<1>13. h + k = p
  BY <1>1, <1>2
<1> HIDE DEF want
<1>14. ASSUME NEW i \in 1..p PROVE want[i] = g[i]
  <2>1. CASE i <= line
    <3>1. i \in 1..line /\ i \in 1..h
      BY <1>0, <1>1, <2>1
    <3>2. want[i] = b[i] /\ b[i] = a[i] /\ a[i] = f[i]
      BY <1>7, <1>11, <1>12, <3>1
    <3>3. g[i] = f[i]
      BY <1>3, <3>1
    <3> QED BY <3>2, <3>3
  <2>2. CASE line < i /\ i <= h
    <3> DEFINE j == i - line
    <3>1. j \in 1..m /\ line + j = i /\ i \in 1..h
      BY <1>0, <1>1, <2>2
    <3> HIDE DEF j
    <3>2. want[i] = b[i]
      BY <1>12, <3>1
    <3>3. b[line + j] = text[j] /\ g[line + j] = text[j]
      BY <1>3, <1>11, <3>1
    <3> QED BY <3>1, <3>2, <3>3
  <2>3. CASE h < i
    <3> DEFINE j == i - h
    <3>1. j \in 1..k /\ h + j = i /\ e + j \in (e + 1)..r /\ ((e + j) - e) + h = i
      BY <1>1, <1>2, <1>13, <2>3
    <3> HIDE DEF j
    <3>2. want[h + j] = tail[j] /\ tail[j] = f[e + j]
      BY <1>10, <1>12, <3>1
    <3>3. g[((e + j) - e) + h] = f[e + j]
      BY <1>3, <3>1
    <3> QED BY <3>1, <3>2, <3>3
  <2> QED BY <1>1, <2>1, <2>2, <2>3
<1>15. IsPrefix(want, w)
  <2>1. Len(want) = p /\ Len(want) <= Len(w)
    BY <1>0, <1>12, <1>13
  <2>2. \A i \in 1..Len(want) : want[i] = w[i]
    BY <1>5, <1>14, <2>1
  <2> QED BY <1>12, <2>1, <2>2, PrefixIs
<1> QED BY <1>9, <1>15 DEF want, b, a, tail, rest, L

\* The places of an edit that is modest, by the lines that are skipped.
LEMMA ModestIs ==
  ASSUME NEW e, e.before \in Seq(Bytes), e.line \in Nat \ {0}, e.new \in Seq(Bytes), Modest(e)
  PROVE  LET f == e.before
             line == Skipped(f, e.line - 1)
             end == Skipped(f, e.line)
         IN /\ Ahead(f, e.line) = SubSeq(f, 1, line) /\ Behind(f, e.line) = SubSeq(f, end + 1, Len(f))
            /\ line + Len(TextOf(e.new, e.del)) <= end + Block
<1> DEFINE f == e.before
           n == e.line
           line == Skipped(f, n - 1)
           end == Skipped(f, n)
           m == Len(TextOf(e.new, e.del))
<1>1. f \in Seq(Bytes) /\ n \in Nat \ {0} /\ n <= Cardinality(Ends(f)) /\ ShortLines(f)
  BY DEF Modest
<1>2. e.del \/ Len(Ahead(f, n)) + Len(e.new) + 1 <= LineEnd(f, n) + Block
  BY DEF Modest
<1> HIDE DEF f, n
<1>3. Ahead(f, n) = SubSeq(f, 1, line) /\ Behind(f, n) = SubSeq(f, end + 1, Len(f)) /\ LineEnd(f, n) = end
  BY <1>1, AroundLine
<1>4. line \in Nat /\ end \in Nat /\ line <= end /\ end <= Len(f) /\ line <= Len(f)
  <2>1. line \in Nat /\ end \in Nat /\ line <= end /\ end <= Len(f)
    BY <1>1, PlacesOfLine
  <2> HIDE DEF line, end
  <2> QED BY <1>1, <2>1
<1>5. Len(SubSeq(f, 1, line)) = line
  <2> HIDE DEF line
  <2> QED BY <1>1, <1>4, BeginningOf
<1>6. m = (IF e.del THEN 0 ELSE Len(e.new) + 1) /\ Len(e.new) \in Nat /\ Block \in Nat
  <2> DEFINE new == e.new
             del == e.del
  <2>1. new \in Seq(Bytes)
    OBVIOUS
  <2> HIDE DEF new, del
  <2>2. Len(TextOf(new, del)) = IF del THEN 0 ELSE Len(new) + 1
    BY <2>1, TextIs
  <2>3. Len(new) \in Nat
    BY <2>1
  <2> QED BY <2>2, <2>3, BufferAssumption DEF new, del
<1> HIDE DEF line, end, m
<1>7. line + m <= end + Block
  <2>1. CASE e.del
    BY <1>4, <1>6, <2>1
  <2>2. CASE ~e.del
    <3> DEFINE x == Len(e.new)
    <3>1. m = x + 1 /\ x \in Nat /\ Block \in Nat
      BY <1>6, <2>2
    <3>2. line + x + 1 <= end + Block
      BY <1>2, <1>3, <1>5, <2>2
    <3> HIDE DEF x
    <3> QED BY <1>4, <3>1, <3>2
  <2> QED BY <2>1, <2>2
<1> QED BY <1>3, <1>7 DEF f, n, line, end, m

-----------------------------------------------------------------------------
(* The files over the steps of the unit. *)

\* The file or none, and what was sent of it: the last bytes first; and what the
\* edit just made has left.
FilesInv ==
    /\ content = Absent \/ content \in Seq(Bytes)
    /\ edits \in 0..MaxEdits
    /\ sent.text \in Seq(Bytes)
    /\ Len(sent.text) <= MAXSIZ + MAXSIZ \div (BUFFDIM - 1)
    /\ DownloadHasTail
    /\ EditLosesOneBlock

\* Nothing sent is nothing of an empty file.
LEMMA NoneSentIs ==
  /\ NoneSent.text \in Seq(Bytes)
  /\ Len(NoneSent.text) <= MAXSIZ + MAXSIZ \div (BUFFDIM - 1)
  /\ IsPrefix(LastBytes(NoneSent.of), NoneSent.text)
<1> DEFINE none == <<>>
           q == MAXSIZ \div (BUFFDIM - 1)
<1>1. none \in Seq(Bytes) /\ Len(none) = 0 /\ NoneSent.text = none /\ NoneSent.of = none
  BY DEF NoneSent
<1>2. MAXSIZ \in Nat /\ BUFFDIM - 1 \in Nat \ {0}
  BY BufferAssumption
<1>3. q \in Nat
  <2>1. 0 * (BUFFDIM - 1) <= MAXSIZ /\ 0 \in Nat
    BY <1>2
  <2> QED BY <1>2, <2>1, AtMostQuotient
<1> HIDE DEF none, q
<1>4. LastBytes(none) = none
  BY <1>1, <1>2 DEF LastBytes
<1>5. IsPrefix(none, none)
  <2>1. \A i \in 1..Len(none) : none[i] = none[i]
    OBVIOUS
  <2>2. Len(none) <= Len(none)
    BY <1>1
  <2> QED BY <1>1, <2>1, <2>2, PrefixIs
<1>6. Len(none) <= MAXSIZ + q
  BY <1>1, <1>2, <1>3
<1> QED BY <1>1, <1>4, <1>5, <1>6 DEF q

\* A line that is logged is one of bytes.
LEMMA RecordedIs ==
  ASSUME content = Absent \/ content \in Seq(Bytes), recordSensors
  PROVE  content' \in Seq(Bytes)
<1> DEFINE old == IF content = Absent THEN <<>> ELSE content
           L == Len(old)
<1>1. old \in Seq(Bytes) /\ L \in Nat /\ L < MaxSize
  BY DEF recordSensors
<1>2. PICK n \in 0..MaxLine : content' = Append(old \o [k \in 1..n |-> L + k], CR)
  BY DEF recordSensors
<1>3. MaxSize \in Nat /\ MaxLine \in Nat /\ Bytes = (-2)..(MaxSize + MaxLine) /\ n \in Nat /\ n <= MaxLine
  BY LineAssumption DEF Bytes, Garbage
<1> DEFINE new == [k \in 1..n |-> L + k]
<1>4. new \in Seq(Bytes)
  <2>1. ASSUME NEW k \in 1..n PROVE L + k \in Bytes
    <3> HIDE DEF L
    <3> QED BY <1>1, <1>3
  <2> HIDE DEF L
  <2> QED BY <1>3, <2>1
<1>5. CR \in Bytes
  BY <1>3 DEF CR
<1> HIDE DEF old, new
<1>6. old \o new \in Seq(Bytes)
  BY <1>1, <1>4
<1> QED BY <1>2, <1>5, <1>6 DEF new

\* What a request may make of a line is of bytes.
LEMMA ReplacedIs ==
  ASSUME content \in Seq(Bytes), NEW n \in Nat \ {0}, NEW del, NEW new \in Replaced(n, del)
  PROVE  new \in Seq(Bytes)
<1> DEFINE old == ReadLine(content, Skipped(content, n - 1)).bytes
<1>1. old \in Seq(Bytes)
  <2> DEFINE pos == Skipped(content, n - 1)
  <2>1. n - 1 \in Nat
    OBVIOUS
  <2>2. pos \in 0..Len(content)
    BY <2>1, SkippedIs
  <2> HIDE DEF pos
  <2>3. ReadLine(content, pos).bytes \in Seq(Bytes)
    BY <2>2, ReadLineIs
  <2> QED BY <2>3 DEF pos
<1>2. NewLines \subseteq Seq(Bytes)
  <2>1. New \in Bytes
    BY LineAssumption DEF New, Bytes, Garbage
  <2> QED BY <2>1, LineAssumption
<1>3. new \in NewLines \cup {old}
  BY DEF Replaced
<1> QED BY <1>1, <1>2, <1>3

\* An edit: what it was of, and the file it left.
Edit(f, n, new, del, done) == [before |-> f, line |-> n, new |-> new, del |-> del, done |-> done]

\* Wherever it was cut off, an edit has not lost more than a block.
LEMMA CutOffEdit ==
  ASSUME NEW f \in Seq(Bytes), NEW n \in Nat \ {0}, NEW new \in Seq(Bytes), NEW del, NEW done,
         NEW k \in Nat, Modest(Edit(f, n, new, del, done))
  PROVE  LET w == Moved(f, n, new, del, k).f IN
         /\ IsPrefix(Ahead(f, n), w)
         /\ Cardinality(Range(Behind(f, n)) \ (Range(w) \cup {CR})) <= Block
<1> DEFINE E == Edit(f, n, new, del, done)
           line == Skipped(f, n - 1)
           end == Skipped(f, n)
           text == TextOf(new, del)
           s == Moved(f, n, new, del, k)
<1>1. E.before = f /\ E.line = n /\ E.new = new /\ E.del = del
  BY DEF Edit
<1>2. /\ Ahead(f, n) = SubSeq(f, 1, line) /\ Behind(f, n) = SubSeq(f, end + 1, Len(f))
      /\ line + Len(text) <= end + Block
  <2> HIDE DEF E
  <2>1. E.before \in Seq(Bytes) /\ E.line \in Nat \ {0} /\ E.new \in Seq(Bytes) /\ Modest(E)
    BY <1>1 DEF E
  <2> QED BY <1>1, <2>1, ModestIs
<1>3. Moving(f, line, end, text, s)
  BY <1>2, PassesMove
<1>4. s \in EditsOf(f)
  <2>1. PICK pass : Passes(f, n, new, del, pass)
    BY MovedIs
  <2> QED BY <2>1 DEF Passes
<1>5. line \in Nat /\ end \in Nat /\ line <= end /\ end <= Len(f)
  BY PlacesOfLine
<1>6. text \in Seq(Bytes)
  BY TextIs
<1> HIDE DEF line, end, text, s
<1> DEFINE w == s.f
<1>7. w \in Seq(Bytes) /\ s.fwrite <= Len(w) /\ \A i \in 1..s.fwrite : w[i] = s.f[i]
  BY <1>4 DEF EditsOf
<1>8. /\ IsPrefix(SubSeq(f, 1, line), w)
      /\ Cardinality(Range(SubSeq(f, end + 1, Len(f))) \ (Range(w) \cup {CR})) <= Block
  <2>1. w = s.f
    OBVIOUS
  <2> HIDE DEF w
  <2> QED BY <1>3, <1>4, <1>5, <1>6, <1>7, <2>1, OneBlockLost
<1> QED BY <1>2, <1>8 DEF s, w

\* Nor when it comes to its end, and then the rest is behind the line.
LEMMA WholeEdit ==
  ASSUME NEW f \in Seq(Bytes), NEW n \in Nat \ {0}, NEW new \in Seq(Bytes), NEW del, NEW done,
         Modest(Edit(f, n, new, del, done))
  PROVE  LET w == Edited(f, n, new, del)
             rest == Behind(f, n)
         IN /\ IsPrefix(Ahead(f, n), w)
            /\ Cardinality(Range(rest) \ (Range(w) \cup {CR})) <= Block
            /\ IsPrefix(Ahead(f, n) \o TextOf(new, del) \o SubSeq(rest, 1, Len(rest) - LastBlock(rest)), w)
<1> DEFINE E == Edit(f, n, new, del, done)
           line == Skipped(f, n - 1)
           end == Skipped(f, n)
           text == TextOf(new, del)
           s == Moved(f, n, new, del, Len(f))
           w == Edited(f, n, new, del)
<1>1. E.before = f /\ E.line = n /\ E.new = new /\ E.del = del
  BY DEF Edit
<1>2. /\ Ahead(f, n) = SubSeq(f, 1, line) /\ Behind(f, n) = SubSeq(f, end + 1, Len(f))
      /\ line + Len(text) <= end + Block
  <2> HIDE DEF E
  <2>1. E.before \in Seq(Bytes) /\ E.line \in Nat \ {0} /\ E.new \in Seq(Bytes) /\ Modest(E)
    BY <1>1 DEF E
  <2> QED BY <1>1, <2>1, ModestIs
<1>3. Moving(f, line, end, text, s) /\ s.fread + s.len = Len(f)
  <2>1. Len(f) \in Nat
    OBVIOUS
  <2> QED BY <1>2, <2>1, PassesMove
<1>4. s \in EditsOf(f) /\ w \in Seq(Bytes) /\ s.fwrite <= Len(w) /\ \A i \in 1..s.fwrite : w[i] = s.f[i]
  BY EditedIs
<1>5. line \in Nat /\ end \in Nat /\ line <= end /\ end <= Len(f)
  BY PlacesOfLine
<1>6. text \in Seq(Bytes)
  BY TextIs
<1> HIDE DEF line, end, text, s, w
<1>7. /\ IsPrefix(SubSeq(f, 1, line), w)
      /\ Cardinality(Range(SubSeq(f, end + 1, Len(f))) \ (Range(w) \cup {CR})) <= Block
  BY <1>3, <1>4, <1>5, <1>6, OneBlockLost
<1> DEFINE rest == SubSeq(f, end + 1, Len(f))
<1>8. IsPrefix(SubSeq(f, 1, line) \o text \o SubSeq(rest, 1, Len(rest) - LastBlock(rest)), w)
  BY <1>3, <1>4, <1>5, <1>6, RestMoved
<1> QED BY <1>2, <1>7, <1>8 DEF w, text

\* A request to edit begins such an edit of the file there is.
LEMMA HandlesEdit ==
  ASSUME FilesInv, NEW n \in 1..(MaxSize + 2), NEW del \in BOOLEAN, handleEdit(n, del)
  PROVE  \E new \in Seq(Bytes) :
            /\ content \in Seq(Bytes) /\ n \in Nat \ {0}
            /\ edit' = Edit(content, n, new, del, TRUE)
            /\ content' = Edited(content, n, new, del)
            /\ edits' = edits + 1 /\ edits < MaxEdits /\ sent' = NoneSent
<1>1. content \in Seq(Bytes) /\ edits < MaxEdits
  BY DEF FilesInv, handleEdit, Opens
<1>2. n \in Nat \ {0}
  OBVIOUS
<1>3. PICK new \in Replaced(n, del) : Begins(n, new, del, TRUE) /\ content' = Edited(content, n, new, del)
  BY DEF handleEdit
<1>4. new \in Seq(Bytes)
  BY <1>1, <1>2, <1>3, ReplacedIs
<1>5. edit' = Edit(content, n, new, del, TRUE) /\ edits' = edits + 1 /\ sent' = NoneSent
  BY <1>3 DEF Begins, Edit
<1> QED BY <1>1, <1>2, <1>3, <1>4, <1>5

\* So does one that the power interrupts.
LEMMA LosesPower ==
  ASSUME FilesInv, NEW n \in 1..(MaxSize + 2), NEW del \in BOOLEAN,
         NEW passes \in Nat, PowerLossInEdit(n, del, passes)
  PROVE  \E new \in Seq(Bytes) :
            /\ content \in Seq(Bytes) /\ n \in Nat \ {0}
            /\ edit' = Edit(content, n, new, del, FALSE)
            /\ content' = Moved(content, n, new, del, passes).f
            /\ edits' = edits + 1 /\ edits < MaxEdits /\ sent' = NoneSent
<1>1. content \in Seq(Bytes) /\ edits < MaxEdits
  BY DEF FilesInv, PowerLossInEdit, Opens
<1>2. n \in Nat \ {0}
  OBVIOUS
<1>3. PICK new \in Replaced(n, del) :
         Begins(n, new, del, FALSE) /\ content' = Moved(content, n, new, del, passes).f
  BY DEF PowerLossInEdit
<1>4. new \in Seq(Bytes)
  BY <1>1, <1>2, <1>3, ReplacedIs
<1>5. edit' = Edit(content, n, new, del, FALSE) /\ edits' = edits + 1 /\ sent' = NoneSent
  BY <1>3 DEF Begins, Edit
<1> QED BY <1>1, <1>2, <1>3, <1>4, <1>5

\* A step that sends nothing and edits nothing keeps all but the file in order.
LEMMA NothingSent ==
  ASSUME sent' = NoneSent
  PROVE  /\ sent'.text \in Seq(Bytes)
         /\ Len(sent'.text) <= MAXSIZ + MAXSIZ \div (BUFFDIM - 1)
         /\ DownloadHasTail'
BY NoneSentIs DEF DownloadHasTail

\* The files are in order after each step.
LEMMA FilesStep == FilesInv /\ [FilesNext]_fileVars => FilesInv'
<1> SUFFICES ASSUME FilesInv, [FilesNext]_fileVars PROVE FilesInv'
  OBVIOUS
<1>1. content = Absent \/ content \in Seq(Bytes)
  BY DEF FilesInv
<1>2. edits \in 0..MaxEdits /\ MaxEdits \in Nat
  BY LineAssumption DEF FilesInv
<1>3. edit' = NoEdit => EditLosesOneBlock'
  BY DEF EditLosesOneBlock
<1>4. CASE recordSensors
  <2>1. content' \in Seq(Bytes)
    BY <1>1, <1>4, RecordedIs
  <2>2. sent' = NoneSent /\ edit' = NoEdit /\ edits' = edits
    BY <1>4 DEF recordSensors
  <2> QED BY <1>2, <1>3, <2>1, <2>2, NothingSent DEF FilesInv
<1>5. CASE handleDownload
  <2>1. content \in Seq(Bytes) /\ content' = content /\ edit' = NoEdit /\ edits' = edits
        /\ sent'.of = content /\ sent'.text = Downloaded(content)
    BY <1>1, <1>5 DEF handleDownload
  <2>2. /\ Downloaded(content) \in Seq(Bytes)
        /\ Len(Downloaded(content)) <= MAXSIZ + MAXSIZ \div (BUFFDIM - 1)
        /\ IsPrefix(LastBytes(content), Downloaded(content))
    BY <2>1, DownloadIs
  <2>3. DownloadHasTail'
    BY <2>1, <2>2 DEF DownloadHasTail
  <2> QED BY <1>2, <1>3, <2>1, <2>2, <2>3 DEF FilesInv
<1>6. ASSUME NEW n \in 1..(MaxSize + 2), NEW del \in BOOLEAN, handleEdit(n, del)
      PROVE  FilesInv'
  <2>1. PICK new \in Seq(Bytes) :
            /\ content \in Seq(Bytes) /\ n \in Nat \ {0}
            /\ edit' = Edit(content, n, new, del, TRUE)
            /\ content' = Edited(content, n, new, del)
            /\ edits' = edits + 1 /\ edits < MaxEdits /\ sent' = NoneSent
    BY <1>6, HandlesEdit
  <2>2. content' \in Seq(Bytes)
    BY <2>1, EditedIs
  <2>3. edits' \in 0..MaxEdits
    BY <1>2, <2>1
  <2>4. EditLosesOneBlock'
    <3>1. SUFFICES ASSUME Modest(edit')
                   PROVE  /\ IsPrefix(Ahead(content, n), content')
                          /\ Cardinality(Range(Behind(content, n)) \ (Range(content') \cup {CR})) <= Block
      BY <2>1 DEF EditLosesOneBlock, Edit
    <3>2. Modest(Edit(content, n, new, del, TRUE))
      BY <2>1, <3>1
    <3> QED BY <2>1, <3>2, WholeEdit
  <2> QED BY <2>1, <2>2, <2>3, <2>4, NothingSent DEF FilesInv
<1>7. ASSUME NEW n \in 1..(MaxSize + 2), NEW del \in BOOLEAN,
             NEW passes \in Nat, PowerLossInEdit(n, del, passes)
      PROVE  FilesInv'
  <2>1. PICK new \in Seq(Bytes) :
            /\ content \in Seq(Bytes) /\ n \in Nat \ {0}
            /\ edit' = Edit(content, n, new, del, FALSE)
            /\ content' = Moved(content, n, new, del, passes).f
            /\ edits' = edits + 1 /\ edits < MaxEdits /\ sent' = NoneSent
    BY <1>7, LosesPower
  <2>2. content' \in Seq(Bytes)
    <3>1. PICK pass : Passes(content, n, new, del, pass)
      BY <2>1, MovedIs
    <3>2. Moved(content, n, new, del, passes) \in EditsOf(content)
      BY <3>1 DEF Passes
    <3> QED BY <2>1, <3>2 DEF EditsOf
  <2>3. edits' \in 0..MaxEdits
    BY <1>2, <2>1
  <2>4. EditLosesOneBlock'
    <3>1. SUFFICES ASSUME Modest(edit')
                   PROVE  /\ IsPrefix(Ahead(content, n), content')
                          /\ Cardinality(Range(Behind(content, n)) \ (Range(content') \cup {CR})) <= Block
      BY <2>1 DEF EditLosesOneBlock, Edit
    <3>2. Modest(Edit(content, n, new, del, FALSE))
      BY <2>1, <3>1
    <3> QED BY <2>1, <3>2, CutOffEdit
  <2> QED BY <2>1, <2>2, <2>3, <2>4, NothingSent DEF FilesInv
<1>8. CASE handleDel
  <2>1. content' = Absent /\ sent' = NoneSent /\ edit' = NoEdit /\ edits' = edits
    BY <1>8 DEF handleDel
  <2> QED BY <1>2, <1>3, <2>1, NothingSent DEF FilesInv
<1>9. CASE UNCHANGED fileVars
  BY <1>9 DEF fileVars, FilesInv, DownloadHasTail, EditLosesOneBlock
<1>10. \A passes \in 0..((MaxSize + MaxLine) \div Block + 1) : passes \in Nat
  OBVIOUS
<1> QED BY <1>4, <1>5, <1>6, <1>7, <1>8, <1>9, <1>10 DEF FilesNext

\* And at the start.
LEMMA FilesStart == FilesInit => FilesInv
<1> SUFFICES ASSUME FilesInit PROVE FilesInv
  OBVIOUS
<1>1. content = Absent \/ content \in Seq(Bytes)
  <2>1. <<>> \in Seq(Bytes)
    OBVIOUS
  <2> QED BY <2>1 DEF FilesInit
<1>2. edits \in 0..MaxEdits
  BY LineAssumption DEF FilesInit
<1>3. sent = NoneSent /\ edit = NoEdit
  BY DEF FilesInit
<1> QED BY <1>1, <1>2, <1>3, NoneSentIs DEF FilesInv, DownloadHasTail, EditLosesOneBlock

\* Together: the files are always in order.
LEMMA FilesInvariant == FilesSpec => []FilesInv
BY FilesStart, FilesStep, PTL DEF FilesSpec

-----------------------------------------------------------------------------
\* The file and what is sent of it are bytes, and a download is no longer than MAXSIZ
\* and one byte for each of its full buffers, for any buffers and files.
THEOREM FilesTypeCorrect == FilesSpec => []FilesTypeOK
<1>1. FilesInv => FilesTypeOK
  <2>1. \A s \in Seq(Bytes) : Range(s) \subseteq Bytes
    BY DEF Range
  <2> QED BY <2>1 DEF FilesInv, FilesTypeOK
<1> QED BY <1>1, FilesInvariant, PTL

\* A download sends the last MAXSIZ bytes of the file before anything else, for any
\* size of the file and of the buffers.
THEOREM DownloadsHaveTail == FilesSpec => []DownloadHasTail
<1>1. FilesInv => DownloadHasTail
  BY DEF FilesInv
<1> QED BY <1>1, FilesInvariant, PTL

\* An edit with short lines that ends or is cut off by a loss of power, wherever, keeps
\* what is in front of the line and loses no more than a buffer of what is behind.
THEOREM EditsLoseOneBlock == FilesSpec => []EditLosesOneBlock
<1>1. FilesInv => EditLosesOneBlock
  BY DEF FilesInv
<1> QED BY <1>1, FilesInvariant, PTL

\* An edit with short lines that comes to its end leaves the new line and all that was
\* behind it but the last block, for any file, buffer and line.
THEOREM EditsMoveRest == FilesSpec => EditMovesRest
<1> DEFINE f == edit'.before
           n == edit'.line
           rest == Behind(f, n)
           text == IF edit'.del THEN <<>> ELSE Append(edit'.new, CR)
           want == Ahead(f, n) \o text \o SubSeq(rest, 1, Len(rest) - LastBlock(rest))
           Moves == edits' # edits /\ edit'.done => (Modest(edit') => IsPrefix(want, content'))
<1>1. ASSUME FilesInv, FilesNext PROVE Moves
  <2>1. CASE recordSensors \/ handleDownload \/ handleDel
    BY <2>1 DEF recordSensors, handleDownload, handleDel
  <2>2. ASSUME NEW m \in 1..(MaxSize + 2), NEW del \in BOOLEAN, handleEdit(m, del)
        PROVE  Moves
    <3>1. PICK new \in Seq(Bytes) :
              /\ content \in Seq(Bytes) /\ m \in Nat \ {0}
              /\ edit' = Edit(content, m, new, del, TRUE)
              /\ content' = Edited(content, m, new, del)
      BY <1>1, <2>2, HandlesEdit
    <3>2. f = content /\ n = m /\ text = TextOf(new, del)
      BY <3>1 DEF Edit, TextOf
    <3>3. SUFFICES ASSUME Modest(edit') PROVE IsPrefix(want, content')
      OBVIOUS
    <3>4. Modest(Edit(content, m, new, del, TRUE))
      BY <3>1, <3>3
    <3> DEFINE r == Behind(content, m)
    <3>5. IsPrefix(Ahead(content, m) \o TextOf(new, del) \o SubSeq(r, 1, Len(r) - LastBlock(r)),
                   Edited(content, m, new, del))
      BY <3>1, <3>4, WholeEdit
    <3> QED BY <3>1, <3>2, <3>5
  <2>3. ASSUME NEW m \in 1..(MaxSize + 2), NEW del \in BOOLEAN, NEW passes \in Nat,
               PowerLossInEdit(m, del, passes)
        PROVE  Moves
    <3>1. edit'.done = FALSE
      BY <1>1, <2>3, LosesPower DEF Edit
    <3> QED BY <3>1
  <2>4. \A passes \in 0..((MaxSize + MaxLine) \div Block + 1) : passes \in Nat
    OBVIOUS
  <2> HIDE DEF Moves
  <2> QED BY <1>1, <2>1, <2>2, <2>3, <2>4 DEF FilesNext
<1>2. FilesInv /\ [FilesNext]_fileVars => [Moves]_fileVars
  <2> HIDE DEF Moves
  <2> QED BY <1>1
<1>3. FilesSpec => [][Moves]_fileVars
  BY <1>2, FilesInvariant, PTL DEF FilesSpec
<1> QED BY <1>3 DEF EditMovesRest
=============================================================================
