----------------------------- MODULE UnitProofs -----------------------------
(***************************************************************************)
(* What holds of the schedule of loop() for every interval, every time a   *)
(* body may take, every length of the day and whatever a time server       *)
(* answers: until the clock wraps no task runs early or late, and the      *)
(* daily sum is set to 0 again on a day only when now() was set back.  And *)
(* what holds of a unit, whatever its commands and readings are: its tasks *)
(* run on that schedule, so an output does not stay high for long after    *)
(* its time; and the trends made of the level's sums are of the readings   *)
(* they claim, whatever wraps, and whatever the floats lose is bounded.    *)
(***************************************************************************)
EXTENDS Unit, SequenceLemmas

\* A number is its quotient and its rest.
LEMMA DivMod ==
    ASSUME NEW n \in Nat, NEW d \in Nat \ {0}
    PROVE  /\ n \div d \in Nat /\ n % d \in 0..(d - 1)
           /\ n = (d * (n \div d)) + (n % d)
OBVIOUS

\* So is a number of either sign.
LEMMA DivModInt ==
    ASSUME NEW a \in Int, NEW d \in Nat \ {0}
    PROVE  /\ a \div d \in Int /\ a % d \in 0..(d - 1)
           /\ a = (d * (a \div d)) + (a % d)
OBVIOUS

\* A number below the divisor is its own rest.
LEMMA ModSmall ==
    ASSUME NEW n \in Nat, NEW d \in Nat \ {0}, n < d
    PROVE  n % d = n
OBVIOUS

\* Within a day the time of day advances with the time.
LEMMA SameDay ==
    ASSUME NEW d \in Nat \ {0}, NEW a \in Int, NEW b \in Int,
           a \div d = b \div d
    PROVE  (b % d) - (a % d) = b - a
<1>1. a = (d * (a \div d)) + (a % d) /\ b = (d * (b \div d)) + (b % d)
  BY DivModInt
<1>2. a % d \in Int /\ b % d \in Int /\ d * (a \div d) \in Int
  BY DivModInt
<1>3. QED
  BY <1>1, <1>2

-----------------------------------------------------------------------------
(* now() *)

ClockType == [ahead : Int, nextSync : Int]

\* now() returns the time of when it was called or of when it was answered, as
\* the clock that it leaves counts it.
LEMMA NowIs ==
    ASSUME NEW c \in ClockType, NEW t \in Nat, NEW r \in Now(c, t)
    PROVE  /\ r.clock \in ClockType /\ r.now \in Int /\ r.wait \in 0..Wait
           /\ r.clock.ahead \in Int
           /\ t + r.clock.ahead <= r.now /\ r.now <= t + r.wait + r.clock.ahead
<1>1. c.ahead \in Int /\ c.nextSync \in Int /\ Wait \in Nat /\ SyncInterval \in Nat
      /\ Corrections \subseteq Int
  BY SyncAssumption DEF ClockType
<1>2. ASSUME NEW u \in Nat, NEW s \in Int
      PROVE  Set(c, u, s) \in ClockType /\ Set(c, u, s).ahead = c.ahead + s
  <2>1. c.ahead + s \in Int /\ u + c.ahead + s + SyncInterval \in Int
    BY <1>1
  <2>2. QED
    BY <2>1 DEF Set, ClockType
<1>3. CASE r \in {[clock |-> c, now |-> t + c.ahead, wait |-> 0]}
  BY <1>1, <1>3
<1>4. ASSUME NEW w \in 0..Wait, NEW s \in Corrections,
             r = [clock |-> Set(c, t + w, s), now |-> t + w + c.ahead + s, wait |-> w]
      PROVE  /\ r.clock \in ClockType /\ r.now \in Int /\ r.wait \in 0..Wait
             /\ r.clock.ahead \in Int
             /\ t + r.clock.ahead <= r.now /\ r.now <= t + r.wait + r.clock.ahead
  <2>1. t + w \in Nat /\ s \in Int /\ w \in Nat
    BY <1>1
  <2>2. r.clock \in ClockType /\ r.clock.ahead = c.ahead + s
    BY <1>2, <1>4, <2>1
  <2>3. r.now = t + w + c.ahead + s /\ r.wait = w
    BY <1>4
  <2>4. QED
    BY <1>1, <2>1, <2>2, <2>3
<1>5. CASE r = [clock |-> Set(c, t, 0), now |-> t + c.ahead, wait |-> Wait]
  <2>1. r.clock \in ClockType /\ r.clock.ahead = c.ahead + 0
    BY <1>2, <1>5
  <2>2. r.now = t + c.ahead /\ r.wait = Wait
    BY <1>5
  <2>3. QED
    BY <1>1, <2>1, <2>2
<1>6. QED
  BY <1>3, <1>4, <1>5 DEF Now

\* The clock stays one, whatever calls a body makes.
LEMMA ClocksType ==
    ASSUME NEW c \in ClockType, NEW t1 \in Nat, NEW t2 \in Nat, NEW e \in Clocks(c, t1, t2)
    PROVE  e \in ClockType
<1>1. /\ c.ahead \in Int /\ SyncInterval \in Int
      /\ Corrections \cup {0} \subseteq Int /\ t1..t2 \subseteq Int
  BY SyncAssumption DEF ClockType
<1>2. ASSUME NEW t \in t1..t2, NEW s \in Corrections \cup {0}
      PROVE  Set(c, t, s) \in ClockType
  <2>1. t \in Int /\ s \in Int
    BY <1>1
  <2>2. c.ahead + s \in Int /\ t + c.ahead + s + SyncInterval \in Int
    BY <1>1, <2>1
  <2>3. QED
    BY <2>2 DEF Set, ClockType
<1>3. QED
  BY <1>2 DEF Clocks

\* Where a body that takes d ends.
LEMMA UntilIs ==
    ASSUME NEW a \in Nat, NEW d \in Nat, a <= MaxTime
    PROVE  /\ Until(a + d) \in 0..MaxTime /\ Until(a + d) \in Nat
           /\ a <= Until(a + d) /\ Until(a + d) <= a + d
BY ClockAssumption DEF Until

-----------------------------------------------------------------------------
Sensors == "readSensors"

\* The noted time of a task that has run is its interval after that, wrapped.
Noted ==
    \A k \in Tasks : last[k] >= 0 =>
        /\ last[k] <= time
        /\ target[k] = ((last[k] % Wrap) + Interval[k]) % Wrap

\* The last reset is no later than the last reading, and now() was not ahead of
\* its clock.
Reset ==
    /\ lastReset.time <= last[Sensors]
    /\ lastReset.time >= 0 => lastReset.now <= lastReset.time + lastReset.ahead

IInv == TypeOK /\ Noted /\ Reset

\* At the start no task has run.
LEMMA InitIInv == Init => IInv
<1> SUFFICES ASSUME Init PROVE IInv
  OBVIOUS
<1>1. target \in [Tasks -> 0..(Wrap - 1)]
  <2>1. ASSUME NEW k \in Tasks PROVE First[k] % Wrap \in 0..(Wrap - 1)
    BY DivMod, TaskAssumption, ClockAssumption
  <2>2. QED
    BY <2>1 DEF Init
<1>2. clock \in [ahead : Int, nextSync : Int]
  <2>1. PICK n \in 0..(Day - 1) : clock = [ahead |-> n, nextSync |-> n + SyncInterval]
    BY DEF Init
  <2>2. n \in Int /\ n + SyncInterval \in Int
    BY SyncAssumption
  <2>3. QED
    BY <2>1, <2>2
<1>3. lastReset = NoReset /\ NoReset.time = -1
      /\ NoReset \in [time : Nat \cup {-1}, now : Int, ahead : Int]
  BY DEF Init, NoReset
<1>4. TypeOK
  BY <1>1, <1>2, <1>3, ClockAssumption DEF Init, TypeOK, Tasks
<1>5. QED
  BY <1>3, <1>4 DEF Init, IInv, Noted, Reset, Tasks, Sensors

\* A body or a round that ends leaves the invariant as it was when no task has
\* noted a time.
LEMMA QuietStep ==
    ASSUME IInv, time' \in 0..MaxTime, time' >= time, clock' \in ClockType,
           at' \in Tasks \cup {"handleClient"},
           UNCHANGED <<target, last, lastReset>>
    PROVE  IInv'
<1>1. TypeOK'
  BY DEF IInv, TypeOK, ClockType
<1>2. Noted'
  BY DEF IInv, TypeOK, Noted
<1>3. Reset'
  BY DEF IInv, Reset
<1>4. QED
  BY <1>1, <1>2, <1>3 DEF IInv

\* A task that runs notes its time.
LEMMA RearmStep ==
    ASSUME NEW k \in Tasks, NEW t \in Nat, TypeOK, Noted, Rearm(k, t),
           time' \in 0..MaxTime, time <= t, t <= time'
    PROVE  /\ target' \in [Tasks -> 0..(Wrap - 1)]
           /\ last' \in [Tasks -> Nat \cup {-1}]
           /\ last'[k] = t /\ \A j \in Tasks : j # k => last'[j] = last[j] /\ target'[j] = target[j]
           /\ Noted'
<1>1. ((t % Wrap) + Interval[k]) % Wrap \in 0..(Wrap - 1)
  <2>1. t % Wrap \in Nat /\ Interval[k] \in Nat
    BY DivMod, TaskAssumption, ClockAssumption
  <2>2. (t % Wrap) + Interval[k] \in Nat /\ Wrap \in Nat \ {0}
    BY <2>1, ClockAssumption
  <2>3. QED
    BY <2>2, DivMod
<1>2. target' \in [Tasks -> 0..(Wrap - 1)] /\ last' \in [Tasks -> Nat \cup {-1}]
  BY <1>1 DEF Rearm, TypeOK
<1>3. last'[k] = t /\ target'[k] = ((t % Wrap) + Interval[k]) % Wrap
  BY DEF Rearm, TypeOK
<1>4. \A j \in Tasks : j # k => last'[j] = last[j] /\ target'[j] = target[j]
  BY DEF Rearm, TypeOK
<1>5. ASSUME NEW j \in Tasks, last'[j] >= 0
      PROVE  /\ last'[j] <= time'
             /\ target'[j] = ((last'[j] % Wrap) + Interval[j]) % Wrap
  <2>1. CASE j = k
    BY <1>3, <2>1
  <2>2. CASE j # k
    <3>1. last'[j] = last[j] /\ target'[j] = target[j]
      BY <1>4, <2>2
    <3>2. last[j] <= time /\ target[j] = ((last[j] % Wrap) + Interval[j]) % Wrap
      BY <1>5, <3>1 DEF Noted
    <3>3. last[j] \in Int /\ time \in Int /\ time' \in Int
      BY DEF TypeOK
    <3>4. QED
      BY <3>1, <3>2, <3>3
  <2>3. QED
    BY <2>1, <2>2
<1>6. QED
  BY <1>2, <1>3, <1>4, <1>5 DEF Noted

\* When a round of readings begins and ends.
LEMMA RoundTimes ==
    ASSUME IInv, NEW r \in Now(clock, time), NEW d \in 0..Block[Sensors], Round(r, d)
    PROVE  /\ time + r.wait \in Nat /\ time <= time + r.wait /\ time + r.wait <= time'
           /\ time' \in 0..MaxTime /\ time' <= time + (Wait + Block[Sensors])
           /\ r.now \in Int /\ r.clock \in ClockType /\ r.clock.ahead \in Int
           /\ time + r.clock.ahead <= r.now /\ r.now <= (time + r.wait) + r.clock.ahead
           /\ clock' \in ClockType
<1>1. /\ time \in Nat /\ clock \in ClockType /\ Block[Sensors] \in Nat /\ Wait \in Nat
      /\ MaxTime \in Nat
  BY TaskAssumption, ClockAssumption, SyncAssumption
     DEF IInv, TypeOK, ClockType, Sensors, Tasks
<1>2. /\ r.clock \in ClockType /\ r.now \in Int /\ r.wait \in 0..Wait
      /\ r.clock.ahead \in Int
      /\ time + r.clock.ahead <= r.now /\ r.now <= time + r.wait + r.clock.ahead
  BY <1>1, NowIs
<1> DEFINE begun == time + r.wait
<1>3. begun \in Nat /\ time <= begun /\ begun <= time + Wait
  BY <1>1, <1>2
<1>4. begun <= MaxTime /\ time' = Until(begun + d) /\ clock' \in Clocks(r.clock, begun, time')
  BY DEF Round
<1>5. r.now <= begun + r.clock.ahead
  BY <1>2
<1> HIDE DEF begun
<1>6. d \in Nat /\ d <= Block[Sensors]
  BY <1>1
<1>7. time' \in 0..MaxTime /\ time' \in Nat /\ begun <= time' /\ time' <= begun + d
  BY <1>3, <1>4, <1>6, UntilIs
<1>8. clock' \in ClockType
  BY <1>2, <1>3, <1>4, <1>7, ClocksType
<1>9. time' <= time + (Wait + Block[Sensors])
  BY <1>1, <1>3, <1>6, <1>7
<1>10. QED
  BY <1>2, <1>3, <1>5, <1>7, <1>8, <1>9 DEF begun

\* readSensors, when it reads.
LEMMA ReadingStep ==
    ASSUME IInv, NEW r \in Now(clock, time), NEW d \in 0..Block[Sensors], Round(r, d),
           Pass(Sensors, "Rule_Apply")
    PROVE  IInv'
<1> DEFINE begun == time + r.wait
<1>1. /\ begun \in Nat /\ time <= begun /\ begun <= time' /\ time' \in 0..MaxTime
      /\ r.now \in Int /\ r.clock.ahead \in Int /\ r.now <= begun + r.clock.ahead
      /\ clock' \in ClockType
  BY RoundTimes
<1>2. /\ lastReset' = IF FirstOfDay(r.now)
                      THEN [time |-> begun, now |-> r.now, ahead |-> r.clock.ahead]
                      ELSE lastReset
      /\ Rearm(Sensors, begun)
  BY DEF Round, Sensors
<1> HIDE DEF begun
<1>3. Sensors \in Tasks
  BY DEF Sensors, Tasks
<1>4. /\ target' \in [Tasks -> 0..(Wrap - 1)] /\ last' \in [Tasks -> Nat \cup {-1}]
      /\ last'[Sensors] = begun /\ Noted'
  BY <1>1, <1>2, <1>3, RearmStep DEF IInv
<1> DEFINE now == [time |-> begun, now |-> r.now, ahead |-> r.clock.ahead]
<1>5. /\ now \in [time : Nat \cup {-1}, now : Int, ahead : Int]
      /\ now.time = begun /\ now.now <= now.time + now.ahead
  BY <1>1
<1>6. lastReset' \in {now, lastReset}
  BY <1>2, Zenon
<1> HIDE DEF now
<1>7. lastReset' \in [time : Nat \cup {-1}, now : Int, ahead : Int]
  BY <1>5, <1>6 DEF IInv, TypeOK
<1>8. at' \in Tasks \cup {"handleClient"}
  BY DEF Pass, Tasks
<1>9. TypeOK'
  BY <1>1, <1>4, <1>7, <1>8 DEF TypeOK, ClockType
<1>10. lastReset.time <= begun
  <2>1. lastReset.time <= last[Sensors] /\ last[Sensors] \in Nat \cup {-1}
        /\ lastReset.time \in Nat \cup {-1}
    BY <1>3 DEF IInv, TypeOK, Reset
  <2>2. last[Sensors] >= 0 => last[Sensors] <= time
    BY <1>3 DEF IInv, Noted
  <2>3. time \in Nat
    BY DEF IInv, TypeOK
  <2>4. QED
    BY <1>1, <2>1, <2>2, <2>3
<1>11. Reset'
  <2>1. CASE lastReset' = now
    BY <1>4, <1>5, <2>1 DEF Reset
  <2>2. CASE lastReset' = lastReset
    BY <1>4, <1>10, <2>2 DEF IInv, Reset
  <2>3. QED
    BY <1>6, <2>1, <2>2
<1>12. QED
  BY <1>4, <1>9, <1>11 DEF IInv

\* A body or a round of up to d, and what its calls of now() leave.
LEMMA SpendStep ==
    ASSUME IInv, NEW d \in Nat, Spend(d)
    PROVE  /\ time \in Nat /\ time' \in 0..MaxTime /\ time' \in Nat
           /\ time <= time' /\ time' <= time + d
           /\ clock' \in ClockType
<1>1. time \in Nat /\ time <= MaxTime /\ clock \in ClockType
  BY ClockAssumption DEF IInv, TypeOK, ClockType
<1>2. time' = Until(time + d) /\ clock' \in Clocks(clock, time, time')
  BY DEF Spend
<1>3. time' \in 0..MaxTime /\ time' \in Nat /\ time <= time' /\ time' <= time + d
  BY <1>1, <1>2, UntilIs
<1>4. clock' \in ClockType
  BY <1>1, <1>2, <1>3, ClocksType
<1>5. QED
  BY <1>1, <1>3, <1>4

\* Every step keeps the invariant.
LEMMA NextIInv == IInv /\ [Next]_vars => IInv'
<1> SUFFICES ASSUME IInv, [Next]_vars PROVE IInv'
  OBVIOUS
<1>1. time \in 0..MaxTime /\ time \in Nat /\ clock \in ClockType
  BY ClockAssumption DEF IInv, TypeOK, ClockType
<1>2. ASSUME NEW k \in Tasks, Skip(k), at' \in Tasks \cup {"handleClient"},
             UNCHANGED lastReset
      PROVE  IInv'
  BY <1>1, <1>2, QuietStep DEF Skip
<1>3. CASE readSensors
  <2>1. at' \in Tasks \cup {"handleClient"} /\ Sensors \in Tasks /\ Pass(Sensors, "Rule_Apply")
    BY <1>3 DEF readSensors, Pass, Tasks, Sensors
  <2>2. CASE NoRound
    BY <1>2, <2>1, <2>2 DEF NoRound, Sensors
  <2>3. CASE \E r \in Now(clock, time), d \in 0..Block["readSensors"] : Round(r, d)
    BY <2>1, <2>3, ReadingStep DEF Sensors
  <2>4. QED
    BY <1>3, <2>2, <2>3 DEF readSensors
<1>4. ASSUME NEW k \in {"Rule_Apply", "applyRemoteToValve"}, NEW next, Task(k, next),
             next \in Tasks \cup {"handleClient"}
      PROVE  IInv'
  <2>1. k \in Tasks /\ k # Sensors /\ Sensors \in Tasks
    BY DEF Tasks, Sensors
  <2>2. CASE Skip(k)
    BY <1>2, <1>4, <2>1, <2>2 DEF Task, Pass
  <2>3. CASE Rearm(k, time) /\ \E d \in 0..Block[k] : Spend(d)
    <3>1. PICK d \in 0..Block[k] : Spend(d)
      BY <2>3
    <3>2. d \in Nat
      BY <2>1, TaskAssumption
    <3>3. time' \in 0..MaxTime /\ time <= time' /\ clock' \in ClockType
      BY <3>1, <3>2, SpendStep
    <3>4. /\ target' \in [Tasks -> 0..(Wrap - 1)] /\ last' \in [Tasks -> Nat \cup {-1}]
          /\ last'[Sensors] = last[Sensors] /\ Noted'
      BY <1>1, <2>1, <2>3, <3>3, RearmStep DEF IInv
    <3>5. TypeOK'
      BY <1>4, <3>3, <3>4 DEF IInv, TypeOK, ClockType, Task, Pass
    <3>6. Reset'
      BY <1>4, <3>4 DEF IInv, Reset, Task
    <3>7. QED
      BY <3>4, <3>5, <3>6 DEF IInv
  <2>4. QED
    BY <1>4, <2>2, <2>3 DEF Task
<1>5. CASE Rule_Apply
  BY <1>4, <1>5 DEF Rule_Apply, Tasks
<1>6. CASE applyRemoteToValve
  BY <1>4, <1>6 DEF applyRemoteToValve
<1>7. CASE handleClient
  <2>1. PICK d \in 1..MaxIdle : Spend(d)
    BY <1>7 DEF handleClient
  <2>2. d \in Nat
    BY ClockAssumption
  <2>3. time' \in 0..MaxTime /\ time <= time' /\ clock' \in ClockType
    BY <2>1, <2>2, SpendStep
  <2>4. QED
    BY <1>1, <1>7, <2>3, QuietStep DEF handleClient, Pass, Tasks
<1>8. CASE UNCHANGED vars
  BY <1>1, <1>8, QuietStep DEF vars, IInv, TypeOK
<1>9. QED
  BY <1>3, <1>5, <1>6, <1>7, <1>8 DEF Next

\* Together: noted times are those of the last runs, and the last reset is known.
LEMMA Invariance == Spec => []IInv
BY InitIInv, NextIInv, PTL DEF Spec

\* The type invariant of the schedule, noted times of millis()'s width included.
THEOREM TypeCorrect == Spec => []TypeOK
BY Invariance, PTL DEF IInv

-----------------------------------------------------------------------------
\* A task that is due before the wrap is due since its interval has passed.
LEMMA DueLate ==
    ASSUME IInv, NEW k \in Tasks, Due(k), last[k] >= 0, Unwrapped(k)
    PROVE  time >= last[k] + Interval[k]
<1>1. /\ last[k] \in Nat /\ Interval[k] \in Nat /\ time \in Nat /\ Wrap \in Nat \ {0}
      /\ last[k] + Interval[k] < Wrap /\ time < Wrap
  BY TaskAssumption, ClockAssumption DEF IInv, TypeOK, Unwrapped
<1>2. last[k] % Wrap = last[k]
  BY <1>1, ModSmall
<1>3. target[k] = (last[k] + Interval[k]) % Wrap
  BY <1>2 DEF IInv, Noted
<1>4. last[k] + Interval[k] \in Nat
  BY <1>1
<1>5. target[k] = last[k] + Interval[k]
  BY <1>1, <1>3, <1>4, ModSmall
<1>6. millis = time
  BY <1>1, ModSmall DEF millis
<1>7. QED
  BY <1>1, <1>5, <1>6 DEF Due

\* Until the clock wraps no task runs before its interval has passed, however
\* long the bodies and the rounds take.
THEOREM TasksKeepTheirDistance == Spec => NeverEarly
<1>1. IInv /\ [Next]_vars =>
        [\A k \in Tasks : Ran(k) /\ last[k] >= 0 /\ Unwrapped(k)
            => time - last[k] >= Interval[k]]_vars
  <2> SUFFICES ASSUME IInv, Next, NEW k \in Tasks, Ran(k), last[k] >= 0, Unwrapped(k)
               PROVE  time - last[k] >= Interval[k]
    OBVIOUS
  <2>1. Due(k)
    <3>1. ASSUME NEW j \in Tasks, NEW t, Rearm(j, t) PROVE j = k
      BY <3>1 DEF Rearm, Ran, IInv, TypeOK
    <3>2. QED
      BY <3>1 DEF Next, readSensors, NoRound, Round, Rule_Apply, applyRemoteToValve, Task,
                  handleClient, Skip, Ran, Tasks
  <2>2. time >= last[k] + Interval[k]
    BY <2>1, DueLate
  <2>3. QED
    BY <2>2, TaskAssumption DEF IInv, TypeOK
<1>2. QED
  BY <1>1, Invariance, PTL DEF NeverEarly, Spec

\* Until the clock wraps the daily sum is set to 0 by a second reading of a day
\* only when now() has been set back by more than it was past midnight.
THEOREM SumIsResetOnce == Spec => ResetOncePerDay
<1>1. IInv /\ [Next]_vars =>
        [Again => lastReset.ahead - lastReset'.ahead > lastReset.now % Day]_vars
  <2> SUFFICES ASSUME IInv, Next, Again
               PROVE  lastReset.ahead - lastReset'.ahead > lastReset.now % Day
    OBVIOUS
  <2>1. PICK r \in Now(clock, time), d \in 0..Block["readSensors"] : Round(r, d)
    BY DEF Again, Next, readSensors, NoRound, Rule_Apply, applyRemoteToValve, Task,
           handleClient
  <2>2. Due(Sensors)
    BY DEF Again, Next, readSensors, NoRound, Rule_Apply, applyRemoteToValve, Task,
           handleClient, Sensors
  <2>3. FirstOfDay(r.now) /\ lastReset'.now = r.now /\ lastReset'.ahead = r.clock.ahead
    BY <2>1 DEF Again, Round
  <2>4. r.now \in Int /\ r.clock.ahead \in Int /\ time + r.clock.ahead <= r.now
    BY <2>1, RoundTimes DEF Sensors
  <2> DEFINE n1 == lastReset.now
             a1 == lastReset.ahead
             t1 == lastReset.time
             n2 == r.now
             a2 == r.clock.ahead
             L == last[Sensors]
             I == Interval[Sensors]
  <2>5. /\ n1 \in Int /\ a1 \in Int /\ t1 \in Nat /\ L \in Nat /\ time \in Nat /\ I \in Nat
        /\ t1 <= L /\ L <= time /\ n1 <= t1 + a1
    <3>1. Sensors \in Tasks
      BY DEF Sensors, Tasks
    <3>2. n1 \in Int /\ a1 \in Int /\ t1 \in Nat
      BY DEF Again, IInv, TypeOK
    <3>3. L \in Nat /\ time \in Nat /\ t1 <= L
      BY <3>1, <3>2 DEF IInv, TypeOK, Reset
    <3>4. QED
      BY <3>1, <3>2, <3>3, TaskAssumption DEF IInv, Noted, Reset
  <2>6. L + I <= time
    BY <2>2, <2>5, DueLate DEF Again, Sensors, Tasks
  <2>7. n1 \div Day = n2 \div Day
    BY <2>3 DEF Again, DayOf
  <2>8. n2 % Day < I /\ Day \in Nat \ {0}
    BY <2>3, ClockAssumption DEF FirstOfDay, Sensors
  <2> HIDE DEF n1, a1, t1, n2, a2, L, I
  <2>9. (n2 % Day) - (n1 % Day) = n2 - n1
    BY <2>4, <2>5, <2>7, <2>8, SameDay DEF n2
  <2>10. n1 % Day \in Int /\ n2 % Day \in Int
    <3>1. n1 \in Int /\ n2 \in Int /\ Day \in Nat \ {0}
      BY <2>4, <2>5, <2>8 DEF n2
    <3>2. QED
      BY <3>1, DivModInt
  <2>11. n2 \in Int /\ a2 \in Int /\ time + a2 <= n2
    BY <2>4 DEF n2, a2
  <2>12. n2 - n1 >= I + a2 - a1
    BY <2>5, <2>6, <2>11
  <2>13. a1 - a2 > n1 % Day
    BY <2>5, <2>8, <2>9, <2>10, <2>11, <2>12
  <2>14. QED
    BY <2>3, <2>13 DEF n1, a1, a2
<1>2. QED
  BY <1>1, Invariance, PTL DEF ResetOncePerDay, Spec

-----------------------------------------------------------------------------
(* Lateness *)

\* What the pass comes to behind a task or the web server, and the longest time
\* that it takes.
After(a) ==
    CASE a = "readSensors" -> "Rule_Apply"
      [] a = "Rule_Apply" -> "applyRemoteToValve"
      [] a = "applyRemoteToValve" -> "handleClient"
      [] a = "handleClient" -> "readSensors"
Cost(a) ==
    IF a = "handleClient" THEN MaxIdle
    ELSE IF a = Sensors THEN Wait + Block[a] ELSE Block[a]

\* The longest time from where the pass comes to task k until it comes to a,
\* a whole pass if that is k again.
Spent(k, a) ==
    CASE a = After(k) -> Cost(k)
      [] a = After(After(k)) -> Cost(k) + Cost(After(k))
      [] a = After(After(After(k))) -> Cost(k) + Cost(After(k)) + Cost(After(After(k)))
      [] OTHER -> PassTime

Places == Tasks \cup {"handleClient"}

\* The time spent since a place of the pass grows by what each place costs.
LEMMA SpentSteps ==
    ASSUME NEW k \in Tasks, NEW a \in Places
    PROVE  /\ Spent(k, a) \in 0..PassTime /\ Cost(a) \in Nat /\ After(a) \in Places
           /\ IF a = k THEN Spent(k, After(a)) = Cost(a)
              ELSE Spent(k, After(a)) = Spent(k, a) + Cost(a)
<1>1. /\ Block["readSensors"] \in Nat /\ Block["Rule_Apply"] \in Nat
      /\ Block["applyRemoteToValve"] \in Nat /\ MaxIdle \in Nat /\ Wait \in Nat
  BY TaskAssumption, ClockAssumption, SyncAssumption DEF Tasks
<1>2. CASE k = "readSensors"
  BY <1>1, <1>2 DEF Spent, Cost, After, PassTime, Places, Tasks, Sensors
<1>3. CASE k = "Rule_Apply"
  BY <1>1, <1>3 DEF Spent, Cost, After, PassTime, Places, Tasks, Sensors
<1>4. CASE k = "applyRemoteToValve"
  BY <1>1, <1>4 DEF Spent, Cost, After, PassTime, Places, Tasks, Sensors
<1>5. QED
  BY <1>2, <1>3, <1>4 DEF Tasks

\* Before its first run a task waits for the time that setup() noted.
NotedFirst == \A k \in Tasks : last[k] = -1 => target[k] = First[k] % Wrap

\* No task is due for longer than the time since the pass came to it.
Prompt ==
    \A k \in Tasks : time < Wrap /\ DueAt(k) < Wrap => time <= DueAt(k) + Spent(k, at)

\* A step of the pass: what runs notes its time, the rest stays.
LEMMA StepOfPass ==
    ASSUME IInv, Next
    PROVE  /\ at \in Places /\ at' = After(at)
           /\ time' \in Nat /\ time <= time' /\ time' <= time + Cost(at)
           /\ \A k \in Tasks : k # at => last'[k] = last[k] /\ target'[k] = target[k]
           /\ at \in Tasks =>
                 \/ ~Due(at) /\ last' = last /\ target' = target /\ time' = time
                 \/ /\ last'[at] \in Nat /\ time <= last'[at] /\ last'[at] <= time'
                    /\ at # Sensors => last'[at] = time
<1>1. /\ time \in Nat /\ TypeOK /\ Noted
  BY ClockAssumption DEF IInv, TypeOK
<1>2. CASE readSensors
  <2>1. at = Sensors /\ at' = After(Sensors) /\ Sensors \in Tasks /\ Sensors \in Places
    BY <1>2 DEF readSensors, Pass, After, Tasks, Sensors, Places
  <2>2. Cost(Sensors) = Wait + Block[Sensors] /\ Cost(Sensors) \in Nat
    BY TaskAssumption, SyncAssumption DEF Cost, Tasks, Sensors
  <2>3. CASE NoRound
    <3>1. ~Due(Sensors) /\ last' = last /\ target' = target /\ time' = time
      BY <2>3 DEF NoRound, Skip, Sensors
    <3>2. QED
      BY <1>1, <2>1, <2>2, <3>1
  <2>4. CASE \E r \in Now(clock, time), d \in 0..Block["readSensors"] : Round(r, d)
    <3>1. PICK r \in Now(clock, time), d \in 0..Block[Sensors] : Round(r, d)
      BY <2>4 DEF Sensors
    <3> DEFINE begun == time + r.wait
    <3>2. /\ begun \in Nat /\ time <= begun /\ begun <= time' /\ time' \in 0..MaxTime
          /\ time' <= time + (Wait + Block[Sensors])
      BY <3>1, RoundTimes
    <3>3. Rearm(Sensors, begun)
      BY <3>1 DEF Round, Sensors
    <3> HIDE DEF begun
    <3>4. last'[Sensors] = begun
          /\ \A j \in Tasks : j # Sensors => last'[j] = last[j] /\ target'[j] = target[j]
      BY <1>1, <2>1, <3>2, <3>3, RearmStep
    <3>5. time' \in Nat /\ time <= time'
      BY <1>1, <3>2
    <3>6. QED
      BY <2>1, <2>2, <3>2, <3>4, <3>5
  <2>5. QED
    BY <1>2, <2>3, <2>4 DEF readSensors
<1>3. ASSUME NEW k \in {"Rule_Apply", "applyRemoteToValve"}, NEW next, next = After(k),
             Task(k, next)
      PROVE  /\ at = k /\ at' = After(at) /\ at \in Places /\ k \in Tasks
             /\ time' \in Nat /\ time <= time' /\ time' <= time + Cost(k)
             /\ \A j \in Tasks : j # k => last'[j] = last[j] /\ target'[j] = target[j]
             /\ \/ ~Due(k) /\ last' = last /\ target' = target /\ time' = time
                \/ last'[k] = time
  <2>1. /\ at = k /\ at' = After(at) /\ k \in Tasks /\ k \in Places /\ k # Sensors
        /\ k # "handleClient"
    BY <1>3 DEF Task, Pass, Tasks, Places, Sensors
  <2>2. Cost(k) = Block[k] /\ Block[k] \in Nat
    BY <2>1, TaskAssumption DEF Cost
  <2>3. CASE Skip(k)
    BY <1>1, <2>1, <2>2, <2>3 DEF Skip
  <2>4. CASE Rearm(k, time) /\ \E d \in 0..Block[k] : Spend(d)
    <3>1. PICK d \in 0..Block[k] : Spend(d)
      BY <2>4
    <3>2. d \in Nat /\ d <= Block[k]
      BY <2>2
    <3>3. time' \in 0..MaxTime /\ time' \in Nat /\ time <= time' /\ time' <= time + d
      BY <3>1, <3>2, SpendStep
    <3>4. last'[k] = time
          /\ \A j \in Tasks : j # k => last'[j] = last[j] /\ target'[j] = target[j]
      BY <1>1, <2>1, <2>4, <3>3, RearmStep
    <3>5. time' <= time + Cost(k)
      BY <1>1, <2>2, <3>2, <3>3
    <3>6. QED
      BY <2>1, <3>3, <3>4, <3>5
  <2>5. QED
    BY <1>3, <2>3, <2>4 DEF Task
<1>4. CASE Rule_Apply
  <2>1. "applyRemoteToValve" = After("Rule_Apply") /\ Task("Rule_Apply", "applyRemoteToValve")
    BY <1>4 DEF Rule_Apply, After
  <2>2. /\ at = "Rule_Apply" /\ at' = After(at) /\ at \in Places /\ "Rule_Apply" \in Tasks
        /\ time' \in Nat /\ time <= time' /\ time' <= time + Cost("Rule_Apply")
        /\ \A j \in Tasks : j # "Rule_Apply" => last'[j] = last[j] /\ target'[j] = target[j]
        /\ \/ ~Due("Rule_Apply") /\ last' = last /\ target' = target /\ time' = time
           \/ last'["Rule_Apply"] = time
    BY <1>3, <2>1
  <2>3. QED
    BY <1>1, <2>2
<1>5. CASE applyRemoteToValve
  <2>1. /\ "handleClient" = After("applyRemoteToValve")
        /\ Task("applyRemoteToValve", "handleClient")
    BY <1>5 DEF applyRemoteToValve, After
  <2>2. /\ at = "applyRemoteToValve" /\ at' = After(at) /\ at \in Places
        /\ "applyRemoteToValve" \in Tasks
        /\ time' \in Nat /\ time <= time' /\ time' <= time + Cost("applyRemoteToValve")
        /\ \A j \in Tasks :
              j # "applyRemoteToValve" => last'[j] = last[j] /\ target'[j] = target[j]
        /\ \/ ~Due("applyRemoteToValve") /\ last' = last /\ target' = target /\ time' = time
           \/ last'["applyRemoteToValve"] = time
    BY <1>3, <2>1
  <2>3. QED
    BY <1>1, <2>2
<1>6. CASE handleClient
  <2>1. /\ at = "handleClient" /\ at' = After("handleClient") /\ at \notin Tasks
        /\ at \in Places /\ last' = last /\ target' = target
    BY <1>6 DEF handleClient, Pass, After, Tasks, Places
  <2>2. PICK d \in 1..MaxIdle : Spend(d)
    BY <1>6 DEF handleClient
  <2>3. d \in Nat /\ d <= MaxIdle /\ MaxIdle \in Nat /\ Cost(at) = MaxIdle
    BY <2>1, ClockAssumption DEF Cost
  <2>4. time' \in Nat /\ time <= time' /\ time' <= time + d
    BY <2>2, <2>3, SpendStep
  <2>5. QED
    BY <1>1, <2>1, <2>3, <2>4
<1>7. QED
  BY <1>2, <1>4, <1>5, <1>6 DEF Next

\* A task that is not due before the wrap waits for a time that has not come.
LEMMA NotDueYet ==
    ASSUME IInv, NotedFirst, NEW k \in Tasks, ~Due(k), time < Wrap, DueAt(k) < Wrap
    PROVE  time <= DueAt(k)
<1>1. /\ Interval[k] \in Nat /\ First[k] \in Nat /\ time \in Nat /\ Wrap \in Nat \ {0}
      /\ last[k] \in Nat \cup {-1}
  BY TaskAssumption, ClockAssumption DEF IInv, TypeOK
<1>2. millis = time
  BY <1>1, ModSmall DEF millis
<1>3. target[k] = DueAt(k)
  <2>1. CASE last[k] = -1
    <3>1. DueAt(k) = First[k]
      BY <2>1 DEF DueAt
    <3>2. QED
      BY <1>1, <2>1, <3>1, ModSmall DEF NotedFirst
  <2>2. CASE last[k] \in Nat
    <3>1. DueAt(k) = last[k] + Interval[k] /\ last[k] < Wrap
      BY <1>1, <2>2 DEF DueAt
    <3>2. last[k] % Wrap = last[k]
      BY <1>1, <2>2, <3>1, ModSmall
    <3>3. target[k] = (last[k] + Interval[k]) % Wrap
      BY <2>2, <3>2 DEF IInv, Noted
    <3>4. last[k] + Interval[k] \in Nat
      BY <1>1, <2>2
    <3>5. QED
      BY <1>1, <3>1, <3>3, <3>4, ModSmall
  <2>3. QED
    BY <1>1, <2>1, <2>2
<1>4. ~(millis > target[k])
  <2>1. CASE k = "readSensors"
    BY <2>1 DEF Due
  <2>2. CASE k # "readSensors"
    <3>1. ~(millis >= target[k])
      BY <2>2 DEF Due
    <3>2. target[k] \in Nat /\ millis \in Nat
      BY <1>1, <1>2 DEF IInv, TypeOK
    <3>3. QED
      BY <3>1, <3>2
  <2>3. QED
    BY <2>1, <2>2
<1>5. DueAt(k) \in Nat
  BY <1>1 DEF DueAt
<1>6. QED
  BY <1>1, <1>2, <1>3, <1>4, <1>5

\* Until the clock wraps no task waits for longer than one pass takes, whatever
\* the bodies of the others do.
THEOREM NoTaskIsLate == Spec => []NeverLate
<1> DEFINE Inv == NotedFirst /\ Prompt
<1>1. Init => Inv
  <2> SUFFICES ASSUME Init PROVE Inv
    OBVIOUS
  <2>1. NotedFirst
    BY DEF Init, NotedFirst
  <2>2. ASSUME NEW k \in Tasks PROVE time <= DueAt(k) + Spent(k, at)
    <3>1. DueAt(k) = First[k] /\ First[k] \in Nat /\ time = 0
      BY TaskAssumption DEF Init, DueAt
    <3>2. Spent(k, at) \in Nat
      <4>1. at \in Places
        BY DEF Init, Places, Tasks
      <4>2. QED
        BY <4>1, SpentSteps
    <3>3. QED
      BY <3>1, <3>2
  <2>3. QED
    BY <2>1, <2>2 DEF Prompt
<1>2. IInv /\ Inv /\ [Next]_vars => Inv'
  <2> SUFFICES ASSUME IInv, Inv, [Next]_vars PROVE Inv'
    OBVIOUS
  <2>1. CASE UNCHANGED vars
    BY <2>1 DEF vars, NotedFirst, Prompt, DueAt
  <2>2. CASE Next
    <3>1. /\ at \in Places /\ at' = After(at)
          /\ time' \in Nat /\ time <= time' /\ time' <= time + Cost(at)
          /\ \A k \in Tasks : k # at => last'[k] = last[k] /\ target'[k] = target[k]
          /\ at \in Tasks =>
                \/ ~Due(at) /\ last' = last /\ target' = target /\ time' = time
                \/ last'[at] \in Nat /\ time <= last'[at]
      BY <2>2, StepOfPass
    <3>2. ASSUME NEW k \in Tasks
          PROVE  /\ last'[k] = -1 => target'[k] = First[k] % Wrap
                 /\ time' < Wrap /\ DueAt(k)' < Wrap => time' <= DueAt(k)' + Spent(k, at')
      <4>1. /\ Spent(k, at) \in Nat /\ Cost(at) \in Nat /\ Wrap \in Nat
            /\ Interval[k] \in Nat /\ First[k] \in Nat /\ time \in Nat
            /\ last[k] \in Nat \cup {-1}
        BY <3>1, SpentSteps, TaskAssumption, ClockAssumption DEF IInv, TypeOK
      <4>2. DueAt(k) \in Nat
        BY <4>1 DEF DueAt
      <4>3. CASE k # at
        <5>1. DueAt(k)' = DueAt(k)
          BY <3>1, <4>3 DEF DueAt
        <5>2. Spent(k, at') = Spent(k, at) + Cost(at)
          BY <3>1, <4>3, SpentSteps
        <5>3. QED
          BY <3>1, <4>1, <4>2, <4>3, <5>1, <5>2 DEF NotedFirst, Prompt
      <4>4. CASE k = at
        <5>1. Spent(k, at') = Cost(at)
          BY <3>1, <4>4, SpentSteps
        <5>2. CASE ~Due(k) /\ last' = last /\ target' = target /\ time' = time
          <6>1. DueAt(k)' = DueAt(k)
            BY <5>2 DEF DueAt
          <6>2. time < Wrap /\ DueAt(k) < Wrap => time <= DueAt(k)
            BY <5>2, NotDueYet
          <6>3. QED
            BY <4>1, <4>2, <5>1, <5>2, <6>1, <6>2 DEF NotedFirst
        <5>3. CASE last'[k] \in Nat /\ time <= last'[k]
          <6>1. DueAt(k)' = last'[k] + Interval[k] /\ last'[k] # -1
            BY <4>1, <5>3 DEF DueAt
          <6>2. QED
            BY <3>1, <4>1, <4>4, <5>1, <5>3, <6>1
        <5>4. QED
          BY <3>1, <4>4, <5>2, <5>3
      <4>5. QED
        BY <4>3, <4>4
    <3>3. QED
      BY <3>2 DEF NotedFirst, Prompt
  <2>3. QED
    BY <2>1, <2>2
<1>3. IInv /\ Inv => NeverLate
  <2> SUFFICES ASSUME IInv, Inv, NEW k \in Tasks, time < Wrap, DueAt(k) < Wrap
               PROVE  time <= DueAt(k) + PassTime
    BY DEF NeverLate
  <2>1. /\ Spent(k, at) \in 0..PassTime /\ PassTime \in Nat
        /\ time <= DueAt(k) + Spent(k, at)
    <3>1. PassTime \in Nat
      BY TaskAssumption, ClockAssumption, SyncAssumption DEF PassTime, Tasks
    <3>2. QED
      BY <3>1, SpentSteps DEF IInv, TypeOK, Places, Prompt
  <2>2. DueAt(k) \in Nat /\ time \in Nat
    BY TaskAssumption, ClockAssumption DEF IInv, TypeOK, DueAt
  <2>3. QED
    BY <2>1, <2>2
<1>4. QED
  BY <1>1, <1>2, <1>3, Invariance, PTL DEF Spec

-----------------------------------------------------------------------------
(* The unit. *)

V == "applyRemoteToValve"

\* What the tasks do to sums, commands and pins leaves their schedule alone:
\* the unit is an implementation of LoopSchedule.
THEOREM RunsOnSchedule == UnitSpec => Spec
<1>1. UnitInit => Init
  BY DEF UnitInit
<1>2. [UnitNext]_unitVars => [Next]_vars
  <2> SUFFICES ASSUME [UnitNext]_unitVars PROVE [Next]_vars
    OBVIOUS
  <2>1. CASE UNCHANGED unitVars
    BY <2>1 DEF unitVars, vars
  <2>2. CASE Readings
    BY <2>2 DEF Readings, readSensors, Next
  <2>3. CASE Rules
    BY <2>3 DEF Rules, Next
  <2>4. CASE Outputs
    BY <2>4 DEF Outputs, Next
  <2>5. CASE Requests
    BY <2>5 DEF Requests, Next
  <2>6. QED
    BY <2>1, <2>2, <2>3, <2>4, <2>5 DEF UnitNext
<1>3. QED
  BY <1>1, <1>2, PTL DEF UnitSpec, Spec

\* An output that is high and timed was last looked at within its time, counted
\* as now() has counted it since at its slowest.
SeenInTime ==
    /\ st \in [Flag : Nat, Stop_time : Int] /\ lowest \in Int
    /\ pin = 1 => last[V] >= 0
    /\ pin = 1 /\ st.Flag = 1 => last[V] + lowest <= st.Stop_time

\* What is noted of the clock is no more than it was and than it is.
LEMMA WatchStep ==
    ASSUME Watch, clock' \in ClockType, lowest \in Int
    PROVE  /\ lowest' \in Int
           /\ st'.Flag = 1 => lowest' <= lowest /\ lowest' <= clock'.ahead
<1>1. clock'.ahead \in Int
  BY DEF ClockType
<1>2. QED
  BY <1>1 DEF Watch

\* A look at the output notes when it was; no other step does.
LEMMA Looks ==
    ASSUME IInv, Next
    PROVE  /\ time \in Nat /\ time' \in Nat /\ time <= time' /\ last[V] \in Nat \cup {-1}
           /\ last[V] <= time /\ clock \in ClockType /\ clock' \in ClockType
           /\ last'[V] = last[V] \/ (at = V /\ last'[V] = time)
<1>1. V \in Tasks /\ V # Sensors /\ time \in Nat /\ last[V] \in Nat \cup {-1} /\ last[V] <= time
  BY DEF V, Tasks, Sensors, IInv, TypeOK, Noted
<1>2. time' \in Nat /\ time <= time'
  BY StepOfPass
<1>3. /\ \A k \in Tasks : k # at => last'[k] = last[k]
      /\ at \in Tasks => last' = last \/ (at # Sensors => last'[at] = time)
  BY StepOfPass
<1>4. last'[V] = last[V] \/ (at = V /\ last'[V] = time)
  <2>1. CASE at = V
    <3>1. last' = last \/ last'[V] = time
      BY <1>1, <1>3, <2>1
    <3>2. QED
      BY <2>1, <3>1
  <2>2. CASE at # V
    <3>1. last'[V] = last[V]
      BY <1>1, <1>3, <2>2
    <3>2. QED
      BY <3>1
  <2>3. QED
    BY <2>1, <2>2
<1>5. clock \in ClockType /\ clock' \in ClockType
  <2>1. IInv'
    BY NextIInv
  <2>2. QED
    BY <2>1 DEF IInv, TypeOK, ClockType
<1>6. QED
  BY <1>1, <1>2, <1>4, <1>5

\* While nothing is done to the output it stays as it was seen.
LEMMA Unseen ==
    ASSUME SeenInTime, Watch, clock' \in ClockType, last[V] \in Nat \cup {-1},
           st' = st, pin' = pin, last'[V] = last[V]
    PROVE  SeenInTime'
<1>1. /\ lowest \in Int /\ lowest' \in Int
      /\ st.Flag = 1 => lowest' <= lowest
  <2>1. lowest \in Int
    BY DEF SeenInTime
  <2>2. QED
    BY <2>1, WatchStep
<1>2. st' \in [Flag : Nat, Stop_time : Int] /\ st.Stop_time \in Int
  BY DEF SeenInTime
<1>3. pin' = 1 /\ st'.Flag = 1 => last'[V] + lowest' <= st'.Stop_time
  BY <1>1, <1>2 DEF SeenInTime
<1>4. QED
  BY <1>1, <1>2, <1>3 DEF SeenInTime

\* applyRemoteToValve looks at the output in time, or closes it.
LEMMA OutputStep ==
    ASSUME IInv, SeenInTime, Outputs
    PROVE  SeenInTime'
<1>1. at = V /\ Next /\ Watch
  BY DEF Outputs, applyRemoteToValve, Task, Pass, V, Next
<1>2. /\ time \in Nat /\ last[V] \in Nat \cup {-1}
      /\ clock \in ClockType /\ clock' \in ClockType
      /\ last'[V] = last[V] \/ last'[V] = time
  BY <1>1, Looks
<1>3. /\ st.Flag \in Nat /\ st.Stop_time \in Int /\ lowest \in Int
      /\ Closed \in [Flag : Nat, Stop_time : Int] /\ Closed.Flag = 0
  BY DEF SeenInTime, Closed
<1>4. lowest' \in Int /\ (st'.Flag = 1 => lowest' <= lowest /\ lowest' <= clock'.ahead)
  BY <1>1, <1>2, <1>3, WatchStep
<1>5. CASE ~Ran(V)
  <2>1. st' = st /\ pin' = pin /\ last'[V] = last[V]
    BY <1>5 DEF Outputs, Ran, V
  <2>2. QED
    BY <1>1, <1>2, <2>1, Unseen
<1>6. CASE Ran(V) /\ ~(st.Flag > 0)
  <2>1. st' = st /\ pin' = pin
    BY <1>6 DEF Outputs, V
  <2>2. st'.Flag = 0 /\ last'[V] >= 0
    BY <1>2, <1>3, <1>6, <2>1 DEF Ran
  <2>3. QED
    BY <1>4, <2>1, <2>2 DEF SeenInTime
<1>7. CASE Ran(V) /\ st.Flag > 0
  <2>1. PICK r \in Now(clock, time) :
           /\ clock' = r.clock
           /\ st' = IF RunsOut(r.now) THEN Closed ELSE st
           /\ pin' = st'.Flag
    BY <1>7 DEF Outputs, V
  <2>2. r.now \in Int /\ r.clock.ahead \in Int /\ time + r.clock.ahead <= r.now
    BY <1>2, NowIs
  <2>3. last'[V] = time
    BY <1>2, <1>7 DEF Ran
  <2>4. CASE RunsOut(r.now)
    <3>1. st' = Closed /\ pin' = 0
      BY <1>3, <2>1, <2>4
    <3>2. QED
      BY <1>3, <1>4, <3>1 DEF SeenInTime
  <2>5. CASE ~RunsOut(r.now)
    <3>1. st' = st /\ pin' = st.Flag
      BY <2>1, <2>5
    <3>2. r.now <= st.Stop_time
      BY <1>3, <2>2, <2>5 DEF RunsOut
    <3>3. st.Flag = 1 => time + lowest' <= st.Stop_time
      BY <1>2, <1>4, <2>1, <2>2, <3>1, <3>2, <1>3
    <3>4. QED
      BY <1>2, <1>4, <2>3, <3>1, <3>3 DEF SeenInTime
  <2>6. QED
    BY <2>4, <2>5
<1>8. QED
  BY <1>5, <1>6, <1>7

\* A command counts its time from now, which is after the last look.
LEMMA RequestStep ==
    ASSUME IInv, SeenInTime, Requests
    PROVE  SeenInTime'
<1>1. handleClient /\ Next
  BY DEF Requests, Next
<1>2. /\ time \in Nat /\ time' \in Nat /\ last[V] \in Nat \cup {-1} /\ last[V] <= time
      /\ clock \in ClockType /\ clock' \in ClockType
  BY <1>1, Looks
<1>3. last' = last /\ pin' = pin
  BY DEF Requests, handleClient
<1>4. CASE UNCHANGED st /\ Watch
  BY <1>2, <1>3, <1>4, Unseen
<1>5. ASSUME NEW en \in EnArgs, NEW t \in Durations, Command(en, t)
      PROVE  SeenInTime'
  <2>1. en \in Nat /\ t \in Nat
    BY CommandAssumption
  <2>0. PICK u \in time..time' : \E r \in Now(clock, u) :
           clock' = r.clock /\ st' = [Flag |-> en, Stop_time |-> r.now + t]
    BY <1>5 DEF Command
  <2>2. PICK r \in Now(clock, u) :
           clock' = r.clock /\ st' = [Flag |-> en, Stop_time |-> r.now + t]
    BY <2>0
  <2>3. u \in Nat /\ time <= u
    BY <1>2
  <2>4. r.now \in Int /\ r.clock.ahead \in Int /\ u + r.clock.ahead <= r.now
    BY <1>2, <2>3, NowIs
  <2> DEFINE n == r.now
             a == clock'.ahead
  <2>5. n \in Int /\ a \in Int /\ u + a <= n
    BY <2>2, <2>4
  <2>6. lowest' = IF en = 1 THEN a ELSE 0
    BY <1>5 DEF Command
  <2>7. st'.Flag = en /\ st'.Stop_time = n + t
    BY <2>2
  <2>8. st' = [Flag |-> en, Stop_time |-> n + t]
    BY <2>2
  <2> HIDE DEF n, a
  <2>9. n + t \in Int /\ last[V] + a <= n + t
    BY <1>2, <2>1, <2>3, <2>5
  <2>10. lowest' \in Int
    BY <2>5, <2>6
  <2>11. st' \in [Flag : Nat, Stop_time : Int]
    BY <2>1, <2>8, <2>9
  <2>12. st'.Flag = 1 => last[V] + lowest' <= st'.Stop_time
    BY <2>6, <2>7, <2>9
  <2>13. QED
    BY <1>3, <2>10, <2>11, <2>12 DEF SeenInTime
<1>6. QED
  BY <1>4, <1>5 DEF Requests

\* Every step of the unit leaves the output seen in time.
LEMMA SeenInTimeStep == IInv /\ SeenInTime /\ [UnitNext]_unitVars => SeenInTime'
<1> SUFFICES ASSUME IInv, SeenInTime, [UnitNext]_unitVars PROVE SeenInTime'
  OBVIOUS
<1>1. CASE UNCHANGED unitVars
  BY <1>1 DEF unitVars, SeenInTime
<1>2. CASE Readings \/ Rules
  <2>1. Next /\ at # V /\ st' = st /\ pin' = pin /\ Watch
    BY <1>2 DEF Readings, Rules, readSensors, Rule_Apply, Task, Pass, V, Next
  <2>2. last'[V] = last[V] /\ last[V] \in Nat \cup {-1} /\ clock' \in ClockType
    BY <2>1, Looks
  <2>3. QED
    BY <2>1, <2>2, Unseen
<1>3. CASE Outputs
  BY <1>3, OutputStep
<1>4. CASE Requests
  BY <1>4, RequestStep
<1>5. QED
  BY <1>1, <1>2, <1>3, <1>4 DEF UnitNext

\* So it is always seen in time.
LEMMA OutputIsSeenInTime == UnitSpec => []SeenInTime
<1>1. UnitInit => SeenInTime
  BY DEF UnitInit, Closed, SeenInTime
<1>2. UnitSpec => []IInv
  BY RunsOnSchedule, Invariance
<1>3. QED
  BY <1>1, <1>2, SeenInTimeStep, PTL DEF UnitSpec

\* Until the clock wraps an output is high after its Stop_time for no longer
\* than an interval and one pass, and what now() has been set back since, however
\* long the other bodies take.
THEOREM OutputsCloseInTime == UnitSpec => []ClosesInTime
<1>1. IInv /\ SeenInTime /\ NeverLate => ClosesInTime
  <2> SUFFICES ASSUME IInv, SeenInTime, NeverLate, pin = 1, st.Flag = 1,
                      time < Wrap, DueAt(V) < Wrap
               PROVE  time + lowest <= st.Stop_time + Interval[V] + PassTime
    BY DEF ClosesInTime, V
  <2>1. V \in Tasks /\ time \in Nat /\ Interval[V] \in Nat
    BY TaskAssumption DEF V, Tasks, IInv, TypeOK
  <2>2. /\ st.Stop_time \in Int /\ lowest \in Int /\ last[V] \in Nat
        /\ last[V] + lowest <= st.Stop_time
    BY <2>1 DEF SeenInTime, IInv, TypeOK
  <2>3. PassTime \in Nat
    BY TaskAssumption, ClockAssumption, SyncAssumption DEF PassTime, Tasks
  <2>4. DueAt(V) = last[V] + Interval[V]
    BY <2>2 DEF DueAt
  <2>5. time <= DueAt(V) + PassTime
    BY <2>1 DEF NeverLate
  <2>6. QED
    BY <2>1, <2>2, <2>3, <2>4, <2>5
<1>2. UnitSpec => []IInv
  BY RunsOnSchedule, Invariance
<1>3. UnitSpec => []NeverLate
  BY RunsOnSchedule, NoTaskIsLate
<1>4. QED
  BY <1>1, <1>2, <1>3, OutputIsSeenInTime, PTL
-----------------------------------------------------------------------------
(* The arithmetic of numbers that wrap.                                    *)

\* Multiples that are less than one apart are in order.
LEMMA Spread ==
    ASSUME NEW d \in Nat \ {0}, NEW x \in Int, NEW y \in Int,
           (d * x) - (d * y) < d
    PROVE  x <= y
<1> SUFFICES ASSUME x > y PROVE FALSE
  OBVIOUS
<1>1. x - y \in Nat /\ x - y >= 1
  OBVIOUS
<1>2. d * (x - y) = (d * x) - (d * y)
  OBVIOUS
<1>3. d * (x - y) >= d
  <2>1. \A k \in Nat : k >= 1 => d * k >= d
    OBVIOUS
  <2> QED BY <1>1, <2>1
<1> QED BY <1>2, <1>3

\* A remainder is determined by its range.
LEMMA ModUnique ==
    ASSUME NEW a \in Int, NEW d \in Nat \ {0}, NEW q \in Int, NEW r \in 0..(d - 1),
           a = (d * q) + r
    PROVE  a % d = r
<1>1. /\ a \div d \in Int /\ a % d \in 0..(d - 1)
      /\ a = (d * (a \div d)) + (a % d)
  BY DivModInt
<1> DEFINE p == a \div d
           s == a % d
<1>2. p \in Int /\ s \in 0..(d - 1) /\ a = (d * p) + s
  BY <1>1
<1> HIDE DEF p, s
<1>3. d * p \in Int /\ d * q \in Int
  BY <1>2
<1>4. (d * p) - (d * q) < d /\ (d * q) - (d * p) < d
  BY <1>2, <1>3
<1>5. p <= q /\ q <= p
  BY <1>2, <1>4, Spread
<1>6. p = q
  BY <1>2, <1>5
<1>7. s = r
  BY <1>2, <1>3, <1>6
<1> QED BY <1>7 DEF s

\* Adding a multiple leaves the remainder.
LEMMA ModShift ==
    ASSUME NEW a \in Int, NEW d \in Nat \ {0}, NEW k \in Int
    PROVE  (a + (d * k)) % d = a % d
<1>1. a \div d \in Int /\ a % d \in 0..(d - 1) /\ a = (d * (a \div d)) + (a % d)
  BY DivModInt
<1> DEFINE p == a \div d
           s == a % d
<1>2. p \in Int /\ s \in 0..(d - 1) /\ a = (d * p) + s
  BY <1>1
<1> HIDE DEF p, s
<1>3. d * (p + k) = (d * p) + (d * k)
  BY <1>2
<1>4. p + k \in Int /\ d * p \in Int /\ d * k \in Int /\ a + (d * k) \in Int
  BY <1>2
<1>5. a + (d * k) = (d * (p + k)) + s
  BY <1>2, <1>3, <1>4
<1>6. (a + (d * k)) % d = s
  BY <1>2, <1>4, <1>5, ModUnique
<1> QED BY <1>6 DEF s

\* The quotient of a number below a product.
LEMMA DivBelow ==
    ASSUME NEW a \in Nat, NEW d \in Nat \ {0}, NEW n \in Nat, a < n * d
    PROVE  a \div d \in 0..(n - 1)
<1>1. a \div d \in Nat /\ a % d \in 0..(d - 1) /\ a = (d * (a \div d)) + (a % d)
  BY DivMod
<1> DEFINE p == a \div d
           s == a % d
<1>2. p \in Nat /\ s \in 0..(d - 1) /\ a = (d * p) + s
  BY <1>1
<1> HIDE DEF p, s
<1>3. d * p \in Int /\ d * n \in Int /\ n * d = d * n
  BY <1>2
<1>4. d * p < d * n
  BY <1>2, <1>3
<1>5. p < n
  <2> SUFFICES ASSUME n <= p PROVE FALSE
    BY <1>2
  <2>1. p - n \in Nat
    BY <1>2
  <2>2. d * p = (d * n) + (d * (p - n))
    BY <1>2
  <2>3. d * (p - n) \in Nat
    BY <2>1
  <2> QED BY <1>3, <1>4, <2>2, <2>3
<1> QED BY <1>2, <1>5 DEF p

-----------------------------------------------------------------------------
\* A number and the long made of it differ by some times LongSize.
LEMMA LongType ==
    ASSUME NEW v \in Int
    PROVE  /\ Long(v) \in Longs
           /\ \E q \in Int : v = Long(v) + (LongSize * q)
<1> DEFINE H == LongSize \div 2
<1>1. H \in Int /\ LongSize \in Nat \ {0}
  BY WidthAssumption
<1> HIDE DEF H
<1> DEFINE m == (v + H) % LongSize
           q == (v + H) \div LongSize
<1>2. q \in Int /\ m \in 0..(LongSize - 1) /\ v + H = (LongSize * q) + m
  BY <1>1, DivModInt
<1>3. Long(v) = m - H
  BY DEF Long, H
<1> HIDE DEF m, q
<1>4. LongSize * q \in Int
  BY <1>1, <1>2
<1>5. m - H \in (-H)..(LongSize - 1 - H)
  BY <1>1, <1>2
<1>6. v = (m - H) + (LongSize * q)
  BY <1>1, <1>2, <1>4
<1> QED BY <1>2, <1>3, <1>5, <1>6 DEF Longs, H

\* Numbers that do are the same long.
LEMMA LongShift ==
    ASSUME NEW v \in Int, NEW q \in Int
    PROVE  Long(v + (LongSize * q)) = Long(v)
<1> DEFINE H == LongSize \div 2
<1>1. H \in Int /\ LongSize \in Nat \ {0}
  BY WidthAssumption
<1> HIDE DEF H
<1>2. LongSize * q \in Int
  BY <1>1
<1>3. ((v + H) + (LongSize * q)) % LongSize = (v + H) % LongSize
  <2>1. v + H \in Int
    BY <1>1
  <2> QED BY <1>1, <2>1, ModShift
<1>4. (v + (LongSize * q)) + H = (v + H) + (LongSize * q)
  BY <1>1, <1>2
<1>5. ((v + (LongSize * q)) + H) % LongSize = (v + H) % LongSize
  BY <1>3, <1>4
<1> QED BY <1>5 DEF Long, H

\* So a long may be made after each addition or at the end, and after the
\* subtraction.
LEMMA LongAdd ==
    ASSUME NEW a \in Int, NEW b \in Int
    PROVE  Long(Long(a) + b) = Long(a + b)
<1>1. PICK q \in Int : a = Long(a) + (LongSize * q)
  BY LongType
<1>2. Long(a) \in Int /\ LongSize * q \in Int
  BY LongType, WidthAssumption DEF Longs
<1> DEFINE c == Long(a)
<1>3. c \in Int /\ a = c + (LongSize * q)
  BY <1>1, <1>2
<1> HIDE DEF c
<1>4. a + b = (c + b) + (LongSize * q) /\ c + b \in Int
  BY <1>2, <1>3
<1>5. Long(a + b) = Long(c + b)
  BY <1>4, LongShift
<1> QED BY <1>5 DEF c

\* Differences of longs may be wrapped before or after.
LEMMA LongSub ==
    ASSUME NEW a \in Int, NEW b \in Int
    PROVE  Long(Long(a) - Long(b)) = Long(a - b)
<1>1. Long(b) \in Int
  BY LongType, WidthAssumption DEF Longs
<1>2. PICK q \in Int : b = Long(b) + (LongSize * q)
  BY LongType
<1> DEFINE c == Long(b)
<1>3. c \in Int /\ b = c + (LongSize * q)
  BY <1>1, <1>2
<1>4. Long(Long(a) - c) = Long(a - c)
  <2> HIDE DEF c
  <2>1. -c \in Int
    BY <1>3
  <2>2. Long(Long(a) + (-c)) = Long(a + (-c))
    BY <2>1, LongAdd
  <2>3. Long(a) \in Int
    BY LongType, WidthAssumption DEF Longs
  <2>4. Long(a) + (-c) = Long(a) - c /\ a + (-c) = a - c
    BY <1>3, <2>3
  <2> QED BY <2>2, <2>4
<1> HIDE DEF c
<1>5. LongSize * q \in Int
  BY WidthAssumption
<1>6. a - c = (a - b) + (LongSize * q) /\ a - b \in Int
  BY <1>3, <1>5
<1>7. Long(a - c) = Long(a - b)
  BY <1>6, LongShift
<1> QED BY <1>4, <1>7 DEF c

\* A long is a long.
LEMMA LongOfLong ==
    ASSUME NEW v \in Longs
    PROVE  v \in Int /\ Long(v) = v
<1> DEFINE H == LongSize \div 2
<1>1. H \in Int /\ LongSize \in Nat \ {0}
  BY WidthAssumption
<1>2. v \in (-H)..(LongSize - 1 - H)
  BY DEF Longs
<1> HIDE DEF H
<1>3. v \in Int /\ v + H \in 0..(LongSize - 1) /\ v + H \in Int
  BY <1>1, <1>2
<1>4. v + H = (LongSize * 0) + (v + H)
  BY <1>1, <1>3
<1>5. (v + H) % LongSize = v + H
  BY <1>1, <1>3, <1>4, ModUnique
<1> QED BY <1>1, <1>3, <1>5 DEF Long, H

-----------------------------------------------------------------------------
(* Floats *)

\* A larger number is so however often it is taken.
LEMMA Times ==
    ASSUME NEW a \in Int, NEW b \in Int, NEW c \in Nat, a <= b
    PROVE  a * c <= b * c /\ a * c \in Int /\ b * c \in Int
<1>1. b - a \in Nat
  OBVIOUS
<1>2. b * c = (a * c) + ((b - a) * c)
  OBVIOUS
<1>3. \A m, n \in Nat : m * n \in Nat
  OBVIOUS
<1>4. (b - a) * c \in Nat
  BY <1>1, <1>3
<1>5. a * c \in Int
  OBVIOUS
<1> DEFINE x == a * c
           y == b * c
           z == (b - a) * c
<1>6. x \in Int /\ z \in Nat /\ y = x + z
  BY <1>2, <1>4, <1>5
<1> HIDE DEF x, y, z
<1>7. x <= y /\ y \in Int
  BY <1>6
<1>8. QED
  BY <1>6, <1>7 DEF x, y

\* The distance of the floats about a number is no larger than any that spans it.
LEMMA UlpIs ==
    ASSUME NEW v \in Int, NEW u \in Ulps, Spans(u, v)
    PROVE  Ulp(v) \in Nat \ {0} /\ Ulp(v) <= u
<1> DEFINE S == {w \in Ulps : Spans(w, v)}
<1>1. S \subseteq Nat /\ u \in S
  BY FloatAssumption
<1>2. PICK m \in S : \A k \in S : m <= k
  <2> HIDE DEF S
  <2>1. S # {}
    BY <1>1
  <2>2. QED
    BY <1>1, <2>1, LeastOf
<1>3. \E m_1 \in Ulps : Spans(m_1, v) /\ \A w \in Ulps : Spans(w, v) => m_1 <= w
  BY <1>2
<1>4. Ulp(v) \in Ulps /\ \A w \in Ulps : Spans(w, v) => Ulp(v) <= w
  BY <1>3, Zenon DEF Ulp
<1>5. QED
  BY <1>4, FloatAssumption

\* A float is off by no more than half the distance.
LEMMA FloatIs ==
    ASSUME NEW v \in Int, NEW u \in Ulps, Spans(u, v)
    PROVE  /\ Float(v) \in Int
           /\ 2 * (Float(v) - v) <= u /\ 2 * (v - Float(v)) <= u
           /\ u = 1 => Float(v) = v
<1> DEFINE w == Ulp(v)
           q == v \div w
           rest == v % w
           p == w * q
           up == 2 * rest > w \/ (2 * rest = w /\ q % 2 = 1)
<1>1. w \in Nat \ {0} /\ w <= u /\ u \in Nat
  BY UlpIs, FloatAssumption
<1> HIDE DEF w
<1>2. q \in Int /\ rest \in 0..(w - 1) /\ v = p + rest
  BY <1>1, DivModInt
<1>3. Float(v) = w * (IF up THEN q + 1 ELSE q)
  BY DEF Float, w
<1>4. w * (q + 1) = p + w /\ p \in Int
  BY <1>1, <1>2
<1>5. Float(v) = IF up THEN p + w ELSE p
  BY <1>3, <1>4
<1>6. (up => 2 * rest >= w) /\ (~up => 2 * rest <= w)
  BY <1>1, <1>2
<1> HIDE DEF up, p, q, rest
<1>7. CASE up
  BY <1>1, <1>2, <1>4, <1>5, <1>6, <1>7
<1>8. CASE ~up
  BY <1>1, <1>2, <1>4, <1>5, <1>6, <1>8
<1>9. QED
  BY <1>7, <1>8

\* FloatToLong makes longs.
LEMMA FloatToLongIs ==
    ASSUME NEW v \in Int
    PROVE  FloatToLong(v) \in Longs
<1>1. LongSize \in Nat /\ LongSize >= 2
  BY WidthAssumption
<1>2. \A n \in Nat : n >= 2 => n \div 2 >= 0 /\ n \div 2 <= n - 1 /\ n \div 2 \in Int
  OBVIOUS
<1> DEFINE H == LongSize \div 2
<1>3. H >= 0 /\ H <= LongSize - 1 /\ H \in Int
  BY <1>1, <1>2
<1>4. Longs = (-H)..(LongSize - 1 - H)
  BY DEF Longs
<1>5. FloatToLong(v) = IF v \in Longs THEN v ELSE IF v < 0 THEN -H ELSE LongSize - 1 - H
  BY DEF FloatToLong
<1> HIDE DEF H
<1>6. -H \in Longs /\ LongSize - 1 - H \in Longs
  BY <1>1, <1>3, <1>4
<1>7. QED
  BY <1>5, <1>6

\* Where the floats are u apart and the sum is within the longs, an addition is
\* off by no more than half a distance for each of its three floats.
Off(e, u) == e \in Int /\ 2 * e <= 3 * u /\ -(2 * e) <= 3 * u /\ (u = 1 => e = 0)

\* So much is one addition off.
LEMMA AddIs ==
    ASSUME NEW f \in Sums \ Whole, NEW a \in Int, NEW x \in Int, NEW u \in Ulps,
           Abs(a) + Abs(x) + 2 * u <= u * Mantissa,
           Abs(a) + Abs(x) + 2 * u <= LongSize \div 2
    PROVE  \E e : Off(e, u) /\ Add(f, a, x) = (a + x) + e
<1> DEFINE H == LongSize \div 2
           most == u * Mantissa
           A == Float(a)
           X == Float(x)
           y == A + X
           z == Float(y)
<1>1. u \in Nat \ {0} /\ most \in Nat /\ H \in Int /\ LongSize \in Nat /\ 2 * H <= LongSize
  <2>1. u \in Nat \ {0} /\ Mantissa \in Nat /\ LongSize \in Nat
    BY FloatAssumption, WidthAssumption
  <2>2. \A m, n \in Nat : m * n \in Nat
    OBVIOUS
  <2>3. H \in Int /\ 2 * H <= LongSize
    BY <2>1
  <2>4. QED
    BY <2>1, <2>2, <2>3
<1>2. Abs(a) + Abs(x) + 2 * u <= most /\ Abs(a) + Abs(x) + 2 * u <= H
  OBVIOUS
<1>3. Spans(u, a) <=> Abs(a) < most
  BY DEF Spans
<1>4. Spans(u, x) <=> Abs(x) < most
  BY DEF Spans
<1>5. Spans(u, y) <=> Abs(y) < most
  BY DEF Spans
<1>6. Longs = (-H)..(LongSize - 1 - H)
  BY DEF Longs
<1>7. Add(f, a, x) = FloatToLong(z)
  BY DEF Add
<1> HIDE DEF most, H
<1>8. /\ Abs(a) \in Nat /\ -Abs(a) <= a /\ a <= Abs(a)
      /\ Abs(x) \in Nat /\ -Abs(x) <= x /\ x <= Abs(x)
  BY DEF Abs
<1>9. Abs(a) < most /\ Abs(x) < most
  BY <1>1, <1>2, <1>8
<1>10. /\ A \in Int /\ 2 * (A - a) <= u /\ 2 * (a - A) <= u /\ (u = 1 => A = a)
       /\ X \in Int /\ 2 * (X - x) <= u /\ 2 * (x - X) <= u /\ (u = 1 => X = x)
  BY <1>3, <1>4, <1>9, FloatIs
<1> HIDE DEF A, X
<1>11. y \in Int /\ Abs(y) < most
  <2>1. y \in Int /\ y < most /\ -y < most
    BY <1>1, <1>2, <1>8, <1>10
  <2>2. QED
    BY <2>1 DEF Abs
<1>12. z \in Int /\ 2 * (z - y) <= u /\ 2 * (y - z) <= u /\ (u = 1 => z = y)
  <2>1. Spans(u, y)
    BY <1>5, <1>11
  <2>2. QED
    BY <1>11, <2>1, FloatIs
<1> HIDE DEF z
<1>13. y = A + X
  OBVIOUS
<1> HIDE DEF y
<1>14. z \in Longs
  <2>1. 2 * z < 2 * H /\ -(2 * z) < 2 * H
    BY <1>1, <1>2, <1>8, <1>10, <1>11, <1>12, <1>13
  <2>2. QED
    BY <1>1, <1>6, <1>12, <2>1
<1>15. Add(f, a, x) = z
  BY <1>7, <1>14 DEF FloatToLong
<1> DEFINE e == z - (a + x)
<1>16. Off(e, u) /\ z = (a + x) + e
  BY <1>1, <1>10, <1>11, <1>12, <1>13 DEF Off
<1>17. QED
  BY <1>15, <1>16

\* An addition of what a reading may come to makes a long.
LEMMA AddType ==
    ASSUME NEW f \in Sums, NEW a \in Longs, NEW x \in Int,
           Abs(x) <= Mantissa * (N12 * N3600)
    PROVE  Add(f, a, x) \in Longs
<1>1. a \in Int
  BY LongOfLong
<1>2. CASE f \in Whole
  <2>1. a + x \in Int
    BY <1>1
  <2>2. QED
    BY <1>2, <2>1, LongType DEF Add
<1>3. CASE f \notin Whole
  <2>1. PICK u \in Ulps, w \in Ulps :
           LongSize < u * Mantissa /\ N12 * N3600 < u /\ 4 * u <= w
    BY FloatAssumption
  <2> DEFINE D == N12 * N3600
             most == u * Mantissa
             wide == w * Mantissa
  <2>2. /\ u \in Nat \ {0} /\ w \in Nat /\ Mantissa \in Nat \ {0} /\ LongSize \in Nat
        /\ D \in Nat /\ D <= u /\ 4 * u <= w
    <3>1. N12 \in Nat /\ N3600 \in Nat
      BY HourAssumption
    <3>2. \A m, n \in Nat : m * n \in Nat
      OBVIOUS
    <3>3. D \in Nat
      BY <3>1, <3>2
    <3>4. D < u
      BY <2>1
    <3> HIDE DEF D
    <3>5. QED
      BY <2>1, <3>3, <3>4, FloatAssumption, WidthAssumption
  <2>3. LongSize < most
    BY <2>1
  <2>4. Abs(x) <= Mantissa * D
    OBVIOUS
  <2>5. \A v : (Spans(u, v) <=> Abs(v) < most) /\ (Spans(w, v) <=> Abs(v) < wide)
    BY DEF Spans
  <2> HIDE DEF D
  <2>6. /\ D * Mantissa <= most /\ D * Mantissa \in Int /\ most \in Int
        /\ (4 * u) * Mantissa <= wide /\ wide \in Int
        /\ 1 * u <= Mantissa * u
    BY <2>2, Times
  <2>7. (4 * u) * Mantissa = 4 * most /\ Mantissa * u = most /\ Mantissa * D = D * Mantissa
    BY <2>2
  <2>8. 4 * most <= wide /\ u <= most /\ Abs(x) <= most
    <3>1. Abs(x) \in Int
      BY DEF Abs
    <3> HIDE DEF most, wide
    <3>2. QED
      BY <2>2, <2>4, <2>6, <2>7, <3>1
  <2>9. Abs(x) < most
    <3>1. D + 1 <= u
      <4>1. D < u
        BY <2>1 DEF D
      <4>2. QED
        BY <2>2, <4>1
    <3>2. D + 1 \in Int /\ (D + 1) * Mantissa <= u * Mantissa
      BY <2>2, <3>1, Times
    <3>3. (D + 1) * Mantissa = (D * Mantissa) + Mantissa
      BY <2>2
    <3>4. Abs(x) \in Int
      BY DEF Abs
    <3> DEFINE m == D * Mantissa
    <3>5. m \in Int /\ Abs(x) <= m /\ m + Mantissa <= most
      BY <2>4, <2>6, <2>7, <3>2, <3>3
    <3> HIDE DEF m, most
    <3>6. QED
      BY <2>2, <2>6, <3>4, <3>5
  <2> DEFINE A == Float(a)
             X == Float(x)
             y == A + X
  <2>10. Abs(a) \in Int /\ -Abs(a) <= a /\ a <= Abs(a) /\ Abs(a) < most
    <3> DEFINE H == LongSize \div 2
    <3>1. a \in (-H)..(LongSize - 1 - H)
      BY DEF Longs
    <3>2. H \in Nat /\ H <= LongSize
      BY <2>2
    <3> HIDE DEF H, most
    <3>3. QED
      BY <1>1, <2>2, <2>3, <2>6, <3>1, <3>2 DEF Abs
  <2>11. Abs(x) \in Int /\ -Abs(x) <= x /\ x <= Abs(x)
    BY DEF Abs
  <2>12. Spans(u, a) /\ Spans(u, x)
    BY <2>5, <2>9, <2>10
  <2>13. /\ A \in Int /\ 2 * (A - a) <= u /\ 2 * (a - A) <= u
         /\ X \in Int /\ 2 * (X - x) <= u /\ 2 * (x - X) <= u
    BY <1>1, <2>12, FloatIs
  <2> HIDE DEF A, X, most, wide
  <2>14. y \in Int /\ y < wide /\ -y < wide
    BY <1>1, <2>2, <2>6, <2>8, <2>9, <2>10, <2>11, <2>13
  <2>15. Abs(y) < wide
    <3> HIDE DEF y
    <3>1. QED
      BY <2>14 DEF Abs
  <2>16. Spans(w, y)
    BY <2>5, <2>15
  <2> HIDE DEF y
  <2>17. Float(y) \in Int
    BY <2>14, <2>16, FloatIs
  <2>18. Add(f, a, x) = FloatToLong(Float(y))
    BY <1>3 DEF Add, y, A, X
  <2>19. QED
    BY <2>17, <2>18, FloatToLongIs
<1>4. QED
  BY <1>2, <1>3

-----------------------------------------------------------------------------
(* What has been read, and the sums of it.                                 *)

Fit == [ora : Nat, value : Int, sum : [Sums -> Longs]]

\* The sums of a reading.
LEMMA SampleType ==
    ASSUME NEW ora \in Nat, NEW value \in Int
    PROVE  Sample(ora, value) \in [Sums -> Int]
BY DEF Sample, Sums

\* What a level adds to the sums of floats is no more than a level times a time.
LEMMA SampleBound ==
    ASSUME NEW ora \in Nat, ora < N12 * N3600, NEW value \in Int, Abs(value) <= Mantissa,
           NEW f \in Sums \ Whole
    PROVE  Abs(Sample(ora, value)[f]) <= Mantissa * (N12 * N3600)
<1> DEFINE D == N12 * N3600
           most == Mantissa * D
           x == value * ora
<1>1. ora < D /\ Mantissa \in Nat \ {0} /\ value <= Mantissa /\ -Mantissa <= value
  BY FloatAssumption DEF Abs
<1>2. D \in Nat \ {0}
  <2>1. N12 \in Nat /\ N3600 \in Nat
    BY HourAssumption
  <2>2. \A m, n \in Nat : m * n \in Nat
    OBVIOUS
  <2>3. D \in Nat
    BY <2>1, <2>2
  <2> HIDE DEF D
  <2>4. QED
    BY <1>1, <2>3
<1>3. Sample(ora, value)["Y"] = value /\ Sample(ora, value)["XY"] = x
  BY DEF Sample, Sums
<1>4. f \in {"Y", "XY"}
  BY DEF Sums, Whole
<1> HIDE DEF D
<1>5. most \in Int /\ Mantissa <= most
  <2>1. 1 * Mantissa <= D * Mantissa /\ D * Mantissa \in Int
    BY <1>1, <1>2, Times
  <2>2. 1 * Mantissa = Mantissa /\ D * Mantissa = Mantissa * D
    BY <1>1, <1>2
  <2>3. QED
    BY <2>1, <2>2
<1>6. x \in Int /\ x <= most /\ -x <= most
  <2>1. /\ value * ora <= Mantissa * ora /\ value * ora \in Int /\ Mantissa * ora \in Int
        /\ (-Mantissa) * ora <= value * ora /\ (-Mantissa) * ora \in Int
    BY <1>1, Times
  <2>2. ora * Mantissa <= D * Mantissa
    BY <1>1, <1>2, Times
  <2>3. /\ ora * Mantissa = Mantissa * ora /\ D * Mantissa = Mantissa * D
        /\ (-Mantissa) * ora = -(Mantissa * ora)
    BY <1>1, <1>2
  <2> DEFINE y == Mantissa * ora
             z == (-Mantissa) * ora
  <2>4. x <= y /\ x \in Int /\ y \in Int /\ z \in Int /\ z <= x /\ y <= most /\ z = -y
    BY <2>1, <2>2, <2>3
  <2> HIDE DEF x, y, z, most
  <2>5. QED
    BY <1>5, <2>4
<1> HIDE DEF x, most
<1>7. Abs(value) <= most /\ Abs(x) <= most
  <2>1. Abs(value) <= most
    BY <1>1, <1>5 DEF Abs
  <2>2. Abs(x) <= most
    BY <1>6 DEF Abs
  <2>3. QED
    BY <2>1, <2>2
<1>8. QED
  BY <1>3, <1>4, <1>7 DEF most, D

\* The places in s of the readings of an hour.
PlacesOf(s, h) == {k \in 1..Len(s) : HourOf(s[k].ora) = h}

\* Each reading was added to the sums that the one before it left.
SumsUp(s) ==
    \A k \in 2..Len(s) : s[k].sum = Plus(s[k - 1].sum, Sample(s[k].ora, s[k].value))

\* What an hour notes of the readings up to place l.
NotedAt(p, h, s, b, l) ==
    /\ p.SN[h] = (b + (l - 1)) % ByteSize
    /\ p.S[h] = s[l].sum

\* p holds the sums of s and of its beginnings up to the last reading of each
\* hour; b is what was counted before s.
Holds(p, s, b) ==
    /\ SumsUp(s)
    /\ Len(s) > 0 => p.sum = s[Len(s)].sum
    /\ p.n_sample = (b + Len(s)) % ByteSize
    /\ \A h \in Hours : PlacesOf(s, h) # {} =>
          \E l \in PlacesOf(s, h) :
             (\A k \in PlacesOf(s, h) : k <= l) /\ NotedAt(p, h, s, b, l)

\* Sums and counts begin as longs and bytes, and stay so.
LEMMA NoneType == None \in [Sums -> Longs]
<1>1. 0 \in Longs
  <2>1. LongSize \in Nat /\ LongSize >= 2
    BY WidthAssumption
  <2>2. \A n \in Nat : n >= 2 => n \div 2 >= 0 /\ n \div 2 <= n - 1 /\ n \div 2 \in Int
    OBVIOUS
  <2> QED BY <2>1, <2>2 DEF Longs
<1> QED BY <1>1 DEF None

\* A count of one byte is one.
LEMMA ByteType ==
    ASSUME NEW n \in Int
    PROVE  n % ByteSize \in 0..(ByteSize - 1)
BY DivModInt, WidthAssumption

\* The pool begins with any sums and any count.
LEMMA BeginHolds ==
    ASSUME NEW p \in Pools
    PROVE  \E b \in Nat : Holds(p, <<>>, b)
<1>1. p.n_sample \in 0..(ByteSize - 1) /\ ByteSize \in Nat \ {0}
  BY WidthAssumption DEF Pools
<1>2. p.n_sample \in Nat /\ p.n_sample % ByteSize = p.n_sample
  BY <1>1, ModSmall
<1>3. p.n_sample + Len(<<>>) = p.n_sample
  BY <1>2
<1>4. SumsUp(<<>>) /\ \A h \in Hours : PlacesOf(<<>>, h) = {}
  BY DEF SumsUp, PlacesOf
<1>5. Holds(p, <<>>, p.n_sample)
  BY <1>2, <1>3, <1>4 DEF Holds
<1>6. QED
  BY <1>2, <1>5

\* levelBegin leaves a pool.
LEMMA levelBeginType ==
    ASSUME NEW p \in Pools
    PROVE  levelBegin(p) \in Pools
<1>1. 0 \in 0..(ByteSize - 1)
  BY WidthAssumption
<1> QED BY <1>1, NoneType DEF levelBegin, Pools

\* A reading keeps the types.
LEMMA levelFitType ==
    ASSUME NEW p \in Pools, NEW ora \in Nat, ora < N12 * N3600, HourOf(ora) \in Hours,
           NEW value \in Int, Abs(value) <= Mantissa
    PROVE  levelFit(p, ora, value) \in Pools
<1> DEFINE sum == Plus(p.sum, Sample(ora, value))
<1>1. /\ p.sum \in [Sums -> Longs] /\ p.n_sample \in 0..(ByteSize - 1)
      /\ p.SN \in [Hours -> 0..(ByteSize - 1)] /\ p.S \in [Hours -> [Sums -> Longs]]
  BY DEF Pools
<1>2. sum \in [Sums -> Longs]
  <2>1. ASSUME NEW f \in Sums
        PROVE  Add(f, p.sum[f], Sample(ora, value)[f]) \in Longs
    <3>1. p.sum[f] \in Longs /\ p.sum[f] \in Int /\ Sample(ora, value)[f] \in Int
      BY <1>1, LongOfLong, SampleType
    <3>2. CASE f \in Whole
      <4>1. p.sum[f] + Sample(ora, value)[f] \in Int
        BY <3>1
      <4>2. QED
        BY <3>2, <4>1, LongType DEF Add
    <3>3. CASE f \notin Whole
      <4>1. f \in Sums \ Whole
        BY <3>3
      <4>2. Abs(Sample(ora, value)[f]) <= Mantissa * (N12 * N3600)
        BY <4>1, SampleBound
      <4>3. QED
        BY <3>1, <4>2, AddType
    <3>4. QED
      BY <3>2, <3>3
  <2>2. QED
    BY <2>1 DEF Plus
<1>3. (p.n_sample + 1) % ByteSize \in 0..(ByteSize - 1)
  <2>1. p.n_sample + 1 \in Int
    BY <1>1, WidthAssumption
  <2> QED BY <2>1, ByteType
<1> HIDE DEF sum
<1>4. /\ [p.S EXCEPT ![HourOf(ora)] = sum] \in [Hours -> [Sums -> Longs]]
      /\ [p.SN EXCEPT ![HourOf(ora)] = p.n_sample] \in [Hours -> 0..(ByteSize - 1)]
  BY <1>1, <1>2
<1> DEFINE q == levelFit(p, ora, value)
<1>5. /\ q.sum = sum /\ q.n_sample = (p.n_sample + 1) % ByteSize
      /\ q.S = [p.S EXCEPT ![HourOf(ora)] = sum]
      /\ q.SN = [p.SN EXCEPT ![HourOf(ora)] = p.n_sample]
      /\ q = [n_sample |-> q.n_sample, sum |-> q.sum, SN |-> q.SN, S |-> q.S]
  BY DEF sum, levelFit
<1> HIDE DEF q
<1>6. q \in Pools
  BY <1>2, <1>3, <1>4, <1>5 DEF Pools
<1> QED BY <1>6 DEF q

\* What Append adds and leaves.
LEMMA AppendIs ==
    ASSUME NEW X, NEW s \in Seq(X), NEW e \in X
    PROVE  /\ Append(s, e) \in Seq(X) /\ Len(s) \in Nat /\ Len(Append(s, e)) = Len(s) + 1
           /\ Append(s, e)[Len(s) + 1] = e
           /\ \A k \in 1..Len(s) : Append(s, e)[k] = s[k]
OBVIOUS

\* The fields of a pool.
LEMMA HoldsType ==
    ASSUME NEW p \in Pools
    PROVE  /\ p.sum \in [Sums -> Longs] /\ p.n_sample \in Int
           /\ p.SN \in [Hours -> 0..(ByteSize - 1)] /\ p.S \in [Hours -> [Sums -> Longs]]
BY WidthAssumption DEF Pools

\* The count goes on as if it had not wrapped.
LEMMA CountOn ==
    ASSUME NEW b \in Int, NEW n \in Int, NEW c, c = (b + n) % ByteSize
    PROVE  (c + 1) % ByteSize = (b + (n + 1)) % ByteSize
<1>1. b + n \in Int /\ ByteSize \in Nat \ {0}
  BY WidthAssumption
<1> DEFINE q == (b + n) \div ByteSize
<1>2. q \in Int /\ c \in 0..(ByteSize - 1) /\ b + n = (ByteSize * q) + c
  BY <1>1, DivModInt
<1> HIDE DEF q
<1>3. ByteSize * q \in Int
  BY <1>1, <1>2
<1>4. b + (n + 1) = (c + 1) + (ByteSize * q) /\ c + 1 \in Int
  BY <1>2, <1>3
<1>5. ((c + 1) + (ByteSize * q)) % ByteSize = (c + 1) % ByteSize
  BY <1>1, <1>2, <1>4, ModShift
<1> QED BY <1>4, <1>5

\* A reading is added to the sums, and its hour notes them.
LEMMA FitHolds ==
    ASSUME NEW p \in Pools, NEW s \in Seq(Fit), NEW ora \in Nat, NEW value \in Int,
           HourOf(ora) \in Hours, NEW b \in Nat, Holds(p, s, b),
           levelFit(p, ora, value).sum \in [Sums -> Longs]
    PROVE  /\ Append(s, [ora |-> ora, value |-> value,
                         sum |-> levelFit(p, ora, value).sum]) \in Seq(Fit)
           /\ Holds(levelFit(p, ora, value),
                    Append(s, [ora |-> ora, value |-> value,
                               sum |-> levelFit(p, ora, value).sum]), b)
<1> DEFINE q == levelFit(p, ora, value)
           e == [ora |-> ora, value |-> value, sum |-> q.sum]
           t == Append(s, e)
           n == Len(s)
           g == HourOf(ora)
<1>1. /\ t \in Seq(Fit) /\ n \in Nat /\ Len(t) = n + 1
      /\ t[n + 1].ora = ora /\ t[n + 1].value = value /\ t[n + 1].sum = q.sum
      /\ \A k \in 1..n : t[k] = s[k]
  <2>1. e \in Fit
    <3> HIDE DEF q
    <3>1. q.sum \in [Sums -> Longs]
      BY DEF q
    <3>2. QED
      BY <3>1 DEF Fit
  <2>2. e.ora = ora /\ e.value = value /\ e.sum = q.sum
    OBVIOUS
  <2> HIDE DEF e, q
  <2>3. QED
    BY <2>1, <2>2, AppendIs
<1>2. /\ q.sum = Plus(p.sum, Sample(ora, value))
      /\ q.n_sample = (p.n_sample + 1) % ByteSize
      /\ q.S = [p.S EXCEPT ![g] = q.sum]
      /\ q.SN = [p.SN EXCEPT ![g] = p.n_sample]
  BY DEF levelFit
<1> HIDE DEF e, t, n, g, q
<1>3. /\ SumsUp(s) /\ (n > 0 => p.sum = s[n].sum) /\ p.n_sample = (b + n) % ByteSize
      /\ \A h \in Hours : PlacesOf(s, h) # {} =>
            \E l \in PlacesOf(s, h) :
               (\A k \in PlacesOf(s, h) : k <= l) /\ NotedAt(p, h, s, b, l)
  BY DEF Holds, n
<1>4. SumsUp(t)
  <2>1. ASSUME NEW k \in 2..(n + 1)
        PROVE  t[k].sum = Plus(t[k - 1].sum, Sample(t[k].ora, t[k].value))
    <3>1. k - 1 \in 1..n /\ t[k - 1] = s[k - 1]
      BY <1>1
    <3>2. CASE k = n + 1
      <4>1. k - 1 = n /\ n > 0
        BY <1>1, <3>1, <3>2
      <4>2. t[k - 1].sum = p.sum
        BY <1>3, <3>1, <4>1
      <4>3. QED
        BY <1>1, <1>2, <3>2, <4>2
    <3>3. CASE k # n + 1
      <4>1. k \in 1..n /\ k \in 2..n
        BY <1>1, <3>3
      <4>2. s[k].sum = Plus(s[k - 1].sum, Sample(s[k].ora, s[k].value))
        BY <1>3, <4>1 DEF SumsUp, n
      <4>3. QED
        BY <1>1, <3>1, <4>1, <4>2
    <3>4. QED
      BY <3>2, <3>3
  <2>2. QED
    BY <1>1, <2>1 DEF SumsUp
<1>5. Len(t) > 0 => q.sum = t[Len(t)].sum
  BY <1>1
<1>6. q.n_sample = (b + (n + 1)) % ByteSize
  BY <1>1, <1>2, <1>3, CountOn
<1>7. g \in Hours /\ p.S \in [Hours -> [Sums -> Longs]] /\ p.SN \in [Hours -> 0..(ByteSize - 1)]
  BY HoldsType DEF g
<1>8. n + 1 \in 1..Len(t) /\ n + 1 \in PlacesOf(t, g)
  BY <1>1 DEF PlacesOf, g
<1>9. ASSUME NEW h \in Hours, h # g
      PROVE  PlacesOf(t, h) = PlacesOf(s, h)
  <2>1. PlacesOf(t, h) \subseteq PlacesOf(s, h)
    <3>1. ASSUME NEW k \in 1..(n + 1), HourOf(t[k].ora) = h
          PROVE  k \in PlacesOf(s, h)
      <4>1. k # n + 1
        BY <1>1, <1>9, <3>1 DEF g
      <4>2. k \in 1..n
        BY <1>1, <4>1
      <4>3. QED
        BY <1>1, <3>1, <4>2 DEF PlacesOf, n
    <3>2. QED
      BY <1>1, <3>1 DEF PlacesOf
  <2>2. PlacesOf(s, h) \subseteq PlacesOf(t, h)
    <3>1. \A k \in 1..n : k \in 1..(n + 1)
      BY <1>1
    <3>2. QED
      BY <1>1, <3>1 DEF PlacesOf, n
  <2>3. QED
    BY <2>1, <2>2
<1>10. ASSUME NEW h \in Hours, PlacesOf(t, h) # {}
       PROVE  \E l \in PlacesOf(t, h) :
                 (\A k \in PlacesOf(t, h) : k <= l) /\ NotedAt(q, h, t, b, l)
  <2>1. CASE h = g
    <3>1. \A k \in PlacesOf(t, h) : k <= n + 1
      BY <1>1 DEF PlacesOf
    <3>2. q.SN[h] = p.n_sample /\ q.S[h] = t[n + 1].sum
      BY <1>1, <1>2, <1>7, <2>1
    <3>3. (n + 1) - 1 = n
      BY <1>1
    <3>4. NotedAt(q, h, t, b, n + 1)
      BY <1>3, <3>2, <3>3 DEF NotedAt
    <3>5. QED
      BY <1>8, <2>1, <3>1, <3>4
  <2>2. CASE h # g
    <3>1. PlacesOf(t, h) = PlacesOf(s, h)
      BY <1>9, <2>2
    <3>2. PICK l \in PlacesOf(s, h) :
             (\A k \in PlacesOf(s, h) : k <= l) /\ NotedAt(p, h, s, b, l)
      BY <1>3, <1>10, <3>1
    <3>3. l \in 1..n
      BY DEF PlacesOf, n
    <3>4. q.SN[h] = p.SN[h] /\ q.S[h] = p.S[h]
      BY <1>2, <1>7, <2>2
    <3>5. NotedAt(q, h, t, b, l)
      BY <1>1, <3>2, <3>3, <3>4 DEF NotedAt
    <3>6. QED
      BY <3>1, <3>2, <3>5
  <2>3. QED
    BY <2>1, <2>2
<1>11. Holds(q, t, b)
  BY <1>1, <1>4, <1>5, <1>6, <1>10 DEF Holds
<1>12. QED
  BY <1>1, <1>11 DEF q, t, e

-----------------------------------------------------------------------------
\* A byte tells apart the numbers of readings it can count.
LEMMA CountBetween ==
    ASSUME NEW b \in Nat, NEW k \in Nat, NEW l \in Nat, k < l, l - k <= ByteSize,
           ((b + (l - 1)) % ByteSize) - ((b + (k - 1)) % ByteSize) > 0
    PROVE  ((b + (l - 1)) % ByteSize) - ((b + (k - 1)) % ByteSize) = l - k
<1> DEFINE c == b + (k - 1)
           d == b + (l - 1)
<1>1. c \in Int /\ d \in Int /\ d - c = l - k /\ ByteSize \in Nat \ {0}
  BY WidthAssumption
<1> HIDE DEF c, d
<1> DEFINE x == c \div ByteSize
           y == d \div ByteSize
           u == c % ByteSize
           v == d % ByteSize
<1>2. /\ x \in Int /\ u \in 0..(ByteSize - 1) /\ c = (ByteSize * x) + u
      /\ y \in Int /\ v \in 0..(ByteSize - 1) /\ d = (ByteSize * y) + v
  BY <1>1, DivModInt
<1>3. v - u > 0
  BY DEF c, d
<1> HIDE DEF x, y, u, v
<1> DEFINE X == ByteSize * x
           Y == ByteSize * y
<1>4. X \in Int /\ Y \in Int
  BY <1>1, <1>2
<1>5. Y - X < ByteSize /\ X - Y < ByteSize
  BY <1>1, <1>2, <1>3, <1>4
<1>6. x <= y /\ y <= x
  BY <1>1, <1>2, <1>5, Spread
<1>7. X = Y
  BY <1>2, <1>6
<1>8. v - u = d - c
  BY <1>1, <1>2, <1>4, <1>7
<1> QED BY <1>1, <1>8 DEF c, d, u, v

\* What the readings behind one place up to another add up to, reading by
\* reading.
AddsUp(T, k, n) ==
    /\ T \in [Nat -> [Sums -> Longs]]
    /\ T[0] = None
    /\ \A m \in Nat : m < n =>
          T[m + 1] = [f \in Sums |->
                        Long(T[m][f] + Sample(fits[k + m + 1].ora, fits[k + m + 1].value)[f])]

\* Total does so.
LEMMA TotalIs ==
    ASSUME fits \in Seq(Fit), NEW k \in Nat, NEW n \in Nat, k + n <= Len(fits)
    PROVE  \E T : AddsUp(T, k, n) /\ Total(k + 1, k + n) = T[n]
<1> DEFINE V1 == [Sums -> Longs]
           next(v, i) == [f \in Sums |-> Long(v[f] + Sample(fits[i].ora, fits[i].value)[f])]
           Step == [i \in Nat |-> [v \in V1 |-> IF i <= n THEN next(v, k + i) ELSE v]]
           K == k..(k + n)
           sum[i \in K] == IF i < k + 1 THEN None ELSE next(sum[i - 1], i)
<1>1. Len(fits) \in Nat
  OBVIOUS
<1>2. ASSUME NEW i \in Nat \ {0}, i <= n, NEW v \in V1 PROVE next(v, k + i) \in V1
  <2>1. k + i \in 1..Len(fits)
    BY <1>1, <1>2
  <2>2. fits[k + i] \in Fit
    BY <2>1
  <2>3. fits[k + i].ora \in Nat /\ fits[k + i].value \in Int
    BY <2>2 DEF Fit
  <2> DEFINE a == Sample(fits[k + i].ora, fits[k + i].value)
  <2>4. a \in [Sums -> Int]
    BY <2>3, SampleType
  <2> HIDE DEF a
  <2>5. ASSUME NEW f \in Sums PROVE Long(v[f] + a[f]) \in Longs
    <3>1. v[f] \in Int /\ a[f] \in Int
      BY <2>4, LongOfLong
    <3>2. v[f] + a[f] \in Int
      BY <3>1
    <3>3. QED
      BY <3>2, LongType
  <2>6. [f \in Sums |-> Long(v[f] + a[f])] \in V1
    BY <2>5
  <2>7. QED
    BY <2>6 DEF a
<1> DEFINE Step1 == [i \in Nat |-> IF i = 0 THEN [v \in V1 |-> v] ELSE Step[i]]
<1>3. Steps(V1, Step1) /\ \A i \in Nat \ {0}, v \in V1 : i <= n => Step1[i][v] = next(v, k + i)
  <2>1. ASSUME NEW i \in Nat PROVE Step1[i] \in [V1 -> V1]
    <3>1. CASE i = 0
      BY <3>1
    <3>2. CASE i # 0
      <4>1. ASSUME NEW v \in V1 PROVE (IF i <= n THEN next(v, k + i) ELSE v) \in V1
        <5>1. CASE i <= n
          BY <1>2, <3>2, <5>1
        <5>2. CASE ~(i <= n)
          BY <5>2
        <5>3. QED
          BY <5>1, <5>2
      <4>2. Step1[i] = [v \in V1 |-> IF i <= n THEN next(v, k + i) ELSE v]
        BY <3>2
      <4> HIDE DEF next, V1, Step1, Step
      <4>3. QED
        BY <4>1, <4>2
    <3>3. QED
      BY <3>1, <3>2
  <2>2. Step1 \in [Nat -> [V1 -> V1]]
    <3>1. Step1 = [i \in Nat |-> Step1[i]]
      OBVIOUS
    <3> HIDE DEF Step1, V1
    <3>2. QED
      BY <2>1, <3>1
  <2>3. \A i \in Nat \ {0}, v \in V1 : i <= n => Step1[i][v] = next(v, k + i)
    <3> HIDE DEF next, V1
    <3>1. QED
      OBVIOUS
  <2>4. QED
    BY <2>2, <2>3 DEF Steps
<1> HIDE DEF Step, Step1
<1>4. None \in V1
  BY NoneType
<1>5. PICK T : Unfolds(T, V1, None, Step1)
  BY <1>3, <1>4, Recursion
<1>6. T \in [Nat -> V1] /\ T[0] = None
  BY <1>5 DEF Unfolds
<1>7. ASSUME NEW m \in Nat, m < n PROVE T[m + 1] = next(T[m], k + (m + 1))
  <2>1. T[m] \in V1 /\ m + 1 \in Nat \ {0} /\ m + 1 <= n
    BY <1>6, <1>7
  <2>2. T[m + 1] = Step1[m + 1][T[m]]
    BY <1>5 DEF Unfolds
  <2> HIDE DEF V1, next
  <2>3. QED
    BY <1>3, <2>1, <2>2
<1>8. AddsUp(T, k, n)
  <2>1. ASSUME NEW m \in Nat, m < n PROVE T[m + 1] = next(T[m], k + m + 1)
    <3>1. k + (m + 1) = k + m + 1
      OBVIOUS
    <3> HIDE DEF next
    <3>2. QED
      BY <1>7, <2>1, <3>1
  <2>2. QED
    BY <1>6, <2>1 DEF AddsUp
<1> DEFINE g == [i \in K |-> T[i - k]]
<1>9. g = [i \in K |-> IF i < k + 1 THEN None ELSE next(g[i - 1], i)]
  <2>1. ASSUME NEW i \in K PROVE g[i] = IF i < k + 1 THEN None ELSE next(g[i - 1], i)
    <3>1. CASE i < k + 1
      <4>1. i - k = 0
        BY <3>1
      <4>2. QED
        BY <1>6, <3>1, <4>1
    <3>2. CASE ~(i < k + 1)
      <4> DEFINE m == i - k - 1
      <4>1. m \in Nat /\ m < n /\ m + 1 = i - k /\ k + (m + 1) = i
            /\ i - 1 \in K /\ (i - 1) - k = m
        BY <3>2
      <4>2. g[i] = T[m + 1] /\ g[i - 1] = T[m]
        BY <4>1
      <4> HIDE DEF m, g, next
      <4>3. T[m + 1] = next(T[m], k + (m + 1))
        BY <1>7, <4>1
      <4>4. QED
        BY <3>2, <4>1, <4>2, <4>3
    <3>3. QED
      BY <3>1, <3>2
  <2>2. g = [i \in K |-> g[i]]
    OBVIOUS
  <2> HIDE DEF g, next
  <2>3. QED
    BY <2>1, <2>2, Zenon
<1>10. g[k + n] = T[n]
  <2>1. k + n \in K /\ (k + n) - k = n
    OBVIOUS
  <2>2. QED
    BY <2>1
<1> HIDE DEF g
<1>11. sum = [i \in K |-> IF i < k + 1 THEN None ELSE next(sum[i - 1], i)]
  <2> HIDE DEF K, next
  <2>1. QED
    BY <1>9, Zenon
<1>12. Total(k + 1, k + n) = sum[k + n]
  <2>1. (k + 1) - 1 = k
    OBVIOUS
  <2>2. QED
    BY <2>1, Zenon DEF Total
<1> DEFINE A == {m \in Nat : m <= n => sum[k + m] = g[k + m]}
<1> HIDE DEF sum, next
<1>13. 0 \in A
  <2>1. k + 0 = k /\ k \in K /\ k < k + 1
    OBVIOUS
  <2>2. sum[k] = None /\ g[k] = None
    BY <1>9, <1>11, <2>1
  <2>3. QED
    BY <2>1, <2>2
<1>14. ASSUME NEW m \in Nat, m \in A PROVE m + 1 \in A
  <2> DEFINE i == k + (m + 1)
  <2>1. SUFFICES ASSUME m + 1 <= n PROVE sum[i] = g[i]
    OBVIOUS
  <2>2. ~(i < k + 1) /\ i - 1 = k + m /\ i \in K /\ m <= n
    BY <2>1
  <2>3. sum[i - 1] = g[i - 1]
    BY <1>14, <2>2
  <2> HIDE DEF i, K
  <2>4. sum[i] = next(sum[i - 1], i) /\ g[i] = next(g[i - 1], i)
    BY <1>9, <1>11, <2>2
  <2>5. QED
    BY <2>3, <2>4
<1> HIDE DEF A
<1>15. Nat \subseteq A
  BY <1>13, <1>14, NatSetInduction
<1>16. sum[k + n] = g[k + n]
  <2>1. n \in A /\ n <= n
    BY <1>15
  <2>2. QED
    BY <2>1 DEF A
<1>17. QED
  BY <1>8, <1>10, <1>12, <1>16

\* One reading more: what it was, what was added to each sum, and to the total.
LEMMA OneMore ==
    ASSUME fits \in Seq(Fit), SumsUp(fits), NEW k \in Nat \ {0}, NEW n \in Nat,
           k + n <= Len(fits), NEW T, AddsUp(T, k, n), NEW m \in Nat, m < n, NEW f \in Sums
    PROVE  \E x \in Int :
              /\ x = Sample(fits[k + m + 1].ora, fits[k + m + 1].value)[f]
              /\ k + m + 1 \in (k + 1)..(k + n) /\ (k + m + 1) - 1 = k + m
              /\ fits[k].sum[f] \in Int /\ fits[k + m].sum[f] \in Int
              /\ fits[k + m + 1].sum[f] = Add(f, fits[k + m].sum[f], x)
              /\ T[m][f] \in Int /\ T[m + 1][f] = Long(T[m][f] + x)
<1> DEFINE i == k + m + 1
           x == Sample(fits[i].ora, fits[i].value)[f]
<1>1. /\ Len(fits) \in Nat /\ i \in 2..Len(fits) /\ i \in 1..Len(fits) /\ i - 1 = k + m
      /\ k + m \in 1..Len(fits) /\ k \in 1..Len(fits) /\ i \in (k + 1)..(k + n)
  OBVIOUS
<1>2. fits[i] \in Fit /\ fits[k + m] \in Fit /\ fits[k] \in Fit
  BY <1>1
<1>3. /\ fits[i].ora \in Nat /\ fits[i].value \in Int
      /\ fits[k].sum[f] \in Longs /\ fits[k + m].sum[f] \in Longs
  BY <1>2 DEF Fit
<1>4. fits[k].sum[f] \in Int /\ fits[k + m].sum[f] \in Int
  BY <1>3, LongOfLong
<1>5. x \in Int
  BY <1>3, SampleType
<1>6. fits[i].sum = Plus(fits[i - 1].sum, Sample(fits[i].ora, fits[i].value))
  BY <1>1 DEF SumsUp
<1>7. fits[i].sum[f] = Add(f, fits[k + m].sum[f], x)
  BY <1>1, <1>6 DEF Plus
<1>8. T[m][f] \in Longs /\ T[m + 1][f] = Long(T[m][f] + x)
  BY DEF AddsUp
<1>9. T[m][f] \in Int
  BY <1>8, LongOfLong
<1>10. QED
  BY <1>1, <1>4, <1>5, <1>7, <1>8, <1>9

\* Sums of longs differ by what was added, in longs.
LEMMA WholeSums ==
    ASSUME fits \in Seq(Fit), SumsUp(fits), NEW k \in Nat \ {0}, NEW n \in Nat,
           k + n <= Len(fits), NEW T, AddsUp(T, k, n), NEW f \in Whole
    PROVE  Long(fits[k + n].sum[f] - fits[k].sum[f]) = T[n][f]
<1> DEFINE base == fits[k].sum[f]
           A == {m \in Nat : m <= n => Long(fits[k + m].sum[f] - base) = T[m][f]}
<1>1. f \in Sums
  BY DEF Whole, Sums
<1>2. base \in Int
  <2>1. k \in 1..Len(fits)
    OBVIOUS
  <2>2. fits[k] \in Fit
    BY <2>1
  <2>3. base \in Longs
    BY <1>1, <2>2 DEF Fit
  <2>4. QED
    BY <2>3, LongOfLong
<1>3. 0 \in A
  <2>1. k + 0 = k /\ base - base = 0
    BY <1>2
  <2>2. T[0][f] = 0 /\ 0 \in Longs
    BY <1>1, NoneType DEF AddsUp, None
  <2>3. Long(0) = 0
    BY <2>2, LongOfLong
  <2>4. QED
    BY <2>1, <2>2, <2>3
<1>4. ASSUME NEW m \in Nat, m \in A PROVE m + 1 \in A
  <2>1. SUFFICES ASSUME m < n PROVE Long(fits[k + m + 1].sum[f] - base) = T[m + 1][f]
    <3>1. k + (m + 1) = k + m + 1 /\ (m + 1 <= n <=> m < n)
      OBVIOUS
    <3> HIDE DEF base
    <3>2. QED
      BY <2>1, <3>1
  <2>2. PICK x \in Int :
           /\ fits[k + m].sum[f] \in Int
           /\ fits[k + m + 1].sum[f] = Add(f, fits[k + m].sum[f], x)
           /\ T[m][f] \in Int /\ T[m + 1][f] = Long(T[m][f] + x)
    BY <1>1, <1>4, <2>1, OneMore
  <2> DEFINE s == fits[k + m].sum[f]
             t == T[m][f]
  <2>3. s \in Int /\ t \in Int /\ fits[k + m + 1].sum[f] = Long(s + x) /\ T[m + 1][f] = Long(t + x)
    BY <2>2 DEF Add
  <2>4. Long(s - base) = t
    BY <1>4, <2>1
  <2> HIDE DEF base, s, t
  <2>5. -base \in Int /\ s + x \in Int /\ s - base \in Int
    BY <1>2, <2>3
  <2>6. Long(Long(s + x) + (-base)) = Long((s + x) + (-base))
    BY <2>5, LongAdd
  <2>7. Long(Long(s - base) + x) = Long((s - base) + x)
    BY <2>5, LongAdd
  <2>8. (s + x) + (-base) = (s - base) + x /\ Long(s + x) \in Int
    BY <1>2, <2>3, <2>5, LongType, LongOfLong
  <2>9. Long(s + x) + (-base) = Long(s + x) - base
    BY <1>2, <2>8
  <2>10. QED
    BY <2>3, <2>4, <2>6, <2>7, <2>8, <2>9
<1> HIDE DEF A
<1>5. Nat \subseteq A
  BY <1>3, <1>4, NatSetInduction
<1>6. n \in A /\ n <= n
  BY <1>5
<1>7. QED
  BY <1>6 DEF A

\* So much are additions off whose distances come to w.
Far(e, w, u) == e \in Int /\ 2 * e <= 3 * w /\ -(2 * e) <= 3 * w /\ (u = 1 => e = 0)

\* Sums of floats differ by what was added and what the additions were off.
LEMMA FloatSums ==
    ASSUME fits \in Seq(Fit), SumsUp(fits), NEW k \in Nat \ {0}, NEW n \in Nat,
           k + n <= Len(fits), NEW T, AddsUp(T, k, n), NEW f \in Sums \ Whole, NEW u \in Ulps,
           WithinFloats(f, u, k + 1, k + n)
    PROVE  \E e : Far(e, n * u, u)
                  /\ Long(fits[k + n].sum[f] - fits[k].sum[f]) = Long(T[n][f] + e)
<1> DEFINE base == fits[k].sum[f]
           Good(m) == \E e : Far(e, m * u, u) /\ Long(fits[k + m].sum[f] - base) = Long(T[m][f] + e)
           A == {m \in Nat : m <= n => Good(m)}
<1>1. f \in Sums /\ u \in Nat
  BY FloatAssumption
<1>2. base \in Int
  <2>1. k \in 1..Len(fits)
    OBVIOUS
  <2>2. fits[k] \in Fit
    BY <2>1
  <2>3. base \in Longs
    BY <1>1, <2>2 DEF Fit
  <2>4. QED
    BY <2>3, LongOfLong
<1>3. 0 \in A
  <2>1. k + 0 = k /\ base - base = 0 /\ 0 * u = 0
    BY <1>1, <1>2
  <2>2. T[0][f] = 0
    BY <1>1 DEF AddsUp, None
  <2>3. Far(0, 0, u) /\ T[0][f] + 0 = 0
    BY <2>2 DEF Far
  <2>4. Good(0)
    <3> HIDE DEF base
    <3>1. fits[k + 0].sum[f] - base = T[0][f] + 0
      BY <2>1, <2>3 DEF base
    <3>2. QED
      BY <2>1, <2>3, <3>1
  <2> HIDE DEF Good
  <2>5. QED
    BY <2>4
<1>4. ASSUME NEW m \in Nat, m \in A PROVE m + 1 \in A
  <2>1. SUFFICES ASSUME m < n PROVE Good(m + 1)
    <3> HIDE DEF Good
    <3>1. m + 1 <= n <=> m < n
      OBVIOUS
    <3>2. QED
      BY <2>1, <3>1
  <2>2. PICK x \in Int :
           /\ x = Sample(fits[k + m + 1].ora, fits[k + m + 1].value)[f]
           /\ k + m + 1 \in (k + 1)..(k + n) /\ (k + m + 1) - 1 = k + m
           /\ fits[k].sum[f] \in Int /\ fits[k + m].sum[f] \in Int
           /\ fits[k + m + 1].sum[f] = Add(f, fits[k + m].sum[f], x)
           /\ T[m][f] \in Int /\ T[m + 1][f] = Long(T[m][f] + x)
    <3> HIDE DEF base, Good, A
    <3>1. QED
      BY <1>1, <1>4, <2>1, OneMore
  <2> DEFINE s == fits[k + m].sum[f]
             t == T[m][f]
             i == k + m + 1
  <2>3. Abs(s) + Abs(x) + 2 * u <= u * Mantissa /\ Abs(s) + Abs(x) + 2 * u <= LongSize \div 2
    BY <2>2 DEF WithinFloats
  <2>4. PICK d : Off(d, u) /\ Add(f, s, x) = (s + x) + d
    BY <2>2, <2>3, AddIs
  <2>5. PICK e : Far(e, m * u, u) /\ Long(s - base) = Long(t + e)
    BY <1>4, <2>1
  <2> DEFINE w == m * u
  <2>6. (m + 1) * u = w + u /\ w \in Int
    <3>1. \A a, b \in Nat : (a + 1) * b = a * b + b /\ a * b \in Int
      OBVIOUS
    <3>2. QED
      BY <1>1, <3>1
  <2>7. Far(e, w, u)
    BY <2>5
  <2>8. k + (m + 1) = i
    OBVIOUS
  <2>9. fits[i].sum[f] = (s + x) + d /\ s \in Int /\ t \in Int /\ T[m + 1][f] = Long(t + x)
    BY <2>2, <2>4
  <2> HIDE DEF base, s, t, w, i
  <2>10. e \in Int /\ d \in Int /\ Far(e + d, w + u, u)
    BY <1>1, <2>4, <2>6, <2>7 DEF Far, Off
  <2>11. Long(((s + x) + d) - base) = Long(Long(s - base) + (x + d))
    <3>0. s \in Int /\ base \in Int /\ x \in Int /\ d \in Int
      BY <1>2, <2>9, <2>10
    <3>1. s - base \in Int /\ x + d \in Int /\ (s - base) + (x + d) = ((s + x) + d) - base
      BY <3>0
    <3>2. Long(Long(s - base) + (x + d)) = Long((s - base) + (x + d))
      BY <3>1, LongAdd
    <3>3. QED
      BY <3>1, <3>2
  <2>12. Long(Long(t + e) + (x + d)) = Long(Long(t + x) + (e + d))
    <3>0. t \in Int /\ e \in Int /\ x \in Int /\ d \in Int
      BY <2>9, <2>10
    <3>1. /\ t + e \in Int /\ x + d \in Int /\ t + x \in Int /\ e + d \in Int
          /\ (t + e) + (x + d) = (t + x) + (e + d)
      BY <3>0
    <3>2. Long(Long(t + e) + (x + d)) = Long((t + e) + (x + d))
      BY <3>1, LongAdd
    <3>3. Long(Long(t + x) + (e + d)) = Long((t + x) + (e + d))
      BY <3>1, LongAdd
    <3>4. QED
      BY <3>1, <3>2, <3>3
  <2>13. Long(fits[k + (m + 1)].sum[f] - base) = Long(T[m + 1][f] + (e + d))
    BY <2>5, <2>8, <2>9, <2>11, <2>12
  <2>14. Far(e + d, (m + 1) * u, u)
    BY <2>6, <2>10
  <2>15. QED
    BY <2>13, <2>14
<1> HIDE DEF Good, A
<1>5. Nat \subseteq A
  BY <1>3, <1>4, NatSetInduction
<1>6. n \in A /\ n <= n
  BY <1>5
<1>7. Good(n)
  BY <1>6 DEF A
<1>8. QED
  BY <1>7 DEF Good

\* That is near.
LEMMA FarIsNear ==
    ASSUME NEW n \in Nat, NEW u \in Ulps, NEW e, Far(e, n * u, u), NEW s, NEW total,
           s = Long(total + e)
    PROVE  Near(s, total, n, u)
<1> DEFINE w == n * u
           v == 3 * n * u
           most == IF u = 1 THEN 0 ELSE v \div 2
<1>1. v = 3 * w /\ w \in Nat
  <2>1. u \in Nat
    BY FloatAssumption
  <2>2. \A a, b \in Nat : 3 * a * b = 3 * (a * b) /\ a * b \in Nat
    OBVIOUS
  <2>3. QED
    BY <2>1, <2>2
<1>2. e \in Int /\ 2 * e <= 3 * w /\ -(2 * e) <= 3 * w /\ (u = 1 => e = 0)
  BY DEF Far
<1>3. Near(s, total, n, u) <=> \E d \in (-most)..most : s = Long(total + d)
  BY DEF Near
<1> HIDE DEF v, w
<1>4. e \in (-most)..most
  <2>1. CASE u = 1
    BY <1>2, <2>1
  <2>2. CASE u # 1
    <3>1. v \div 2 \in Int /\ e <= v \div 2 /\ -e <= v \div 2
      BY <1>1, <1>2
    <3>2. most = v \div 2
      BY <2>2
    <3> HIDE DEF most
    <3>3. QED
      BY <1>2, <3>1, <3>2
  <2>3. QED
    BY <2>1, <2>2
<1> HIDE DEF most
<1>5. QED
  BY <1>3, <1>4

\* What levelGet makes of two hours.
LEMMA TrendStep ==
    ASSUME pool \in Pools, fits \in Seq(Fit), NEW b \in Nat, Holds(pool, fits, b),
           NEW i \in Hours, NEW j \in Hours, Of(i) # {}, Of(j) # {},
           levelGet(pool, i, j).ns > 0, LastOf(i) + 1 <= LastOf(j),
           LastOf(j) - (LastOf(i) + 1) + 1 <= ByteSize
    PROVE  LET trend == levelGet(pool, i, j)
               first == LastOf(i) + 1
               end == LastOf(j)
               n == end - first + 1
               total == Total(first, end)
           IN /\ trend.ns = n
              /\ \A f \in Whole : trend.s[f] = total[f]
              /\ \A f \in Sums \ Whole, u \in Ulps :
                    WithinFloats(f, u, first, end) => Near(trend.s[f], total[f], n, u)
<1>1. ASSUME NEW h \in Hours, Of(h) # {}
      PROVE  LastOf(h) \in 1..Len(fits) /\ NotedAt(pool, h, fits, b, LastOf(h))
  <2>1. Of(h) = PlacesOf(fits, h) /\ Of(h) \subseteq 1..Len(fits)
    BY DEF Of, PlacesOf
  <2>2. PICK l \in Of(h) : (\A k \in Of(h) : k <= l) /\ NotedAt(pool, h, fits, b, l)
    BY <1>1, <2>1 DEF Holds
  <2>3. LastOf(h) \in Of(h) /\ \A k \in Of(h) : k <= LastOf(h)
    BY <2>2, Zenon DEF LastOf
  <2>4. LastOf(h) = l
    BY <2>1, <2>2, <2>3
  <2>5. QED
    BY <2>1, <2>2, <2>4
<1> DEFINE k == LastOf(i)
           l == LastOf(j)
           n == l - (k + 1) + 1
           trend == levelGet(pool, i, j)
<1>2. /\ k \in 1..Len(fits) /\ NotedAt(pool, i, fits, b, k)
      /\ l \in 1..Len(fits) /\ NotedAt(pool, j, fits, b, l)
  BY <1>1
<1>3. k + 1 <= l /\ n <= ByteSize /\ trend.ns > 0
  OBVIOUS
<1>4. /\ trend.ns = pool.SN[j] - pool.SN[i]
      /\ \A f \in Sums : trend.s[f] = Long(pool.S[j][f] - pool.S[i][f])
  BY DEF levelGet, Minus
<1> HIDE DEF trend
<1> SUFFICES /\ trend.ns = n
             /\ \A f \in Whole : trend.s[f] = Total(k + 1, l)[f]
             /\ \A f \in Sums \ Whole, u \in Ulps :
                   WithinFloats(f, u, k + 1, l) => Near(trend.s[f], Total(k + 1, l)[f], n, u)
  BY DEF trend
<1> HIDE DEF k, l
<1>5. /\ k \in Nat \ {0} /\ l \in Nat /\ k < l /\ n = l - k /\ n \in Nat
      /\ k + n = l /\ k + n <= Len(fits) /\ ByteSize \in Nat
  BY <1>2, <1>3, WidthAssumption
<1> HIDE DEF n
<1>6. trend.ns = ((b + (l - 1)) % ByteSize) - ((b + (k - 1)) % ByteSize)
  BY <1>2, <1>4 DEF NotedAt
<1>7. trend.ns = n
  <2>1. k \in Nat /\ l \in Nat /\ k < l /\ l - k <= ByteSize
    BY <1>3, <1>5
  <2>2. ((b + (l - 1)) % ByteSize) - ((b + (k - 1)) % ByteSize) > 0
    BY <1>3, <1>6
  <2>3. ((b + (l - 1)) % ByteSize) - ((b + (k - 1)) % ByteSize) = l - k
    BY <2>1, <2>2, CountBetween, Zenon
  <2>4. QED
    BY <1>5, <1>6, <2>3
<1>8. ASSUME NEW f \in Sums
      PROVE  trend.s[f] = Long(fits[k + n].sum[f] - fits[k].sum[f])
  BY <1>2, <1>4, <1>5 DEF NotedAt
<1>9. PICK T : AddsUp(T, k, n) /\ Total(k + 1, k + n) = T[n]
  BY <1>5, TotalIs
<1>10. SumsUp(fits) /\ AddsUp(T, k, n) /\ k \in Nat \ {0} /\ n \in Nat /\ k + n <= Len(fits)
  BY <1>5, <1>9 DEF Holds
<1>11. ASSUME NEW f \in Whole PROVE trend.s[f] = Total(k + 1, l)[f]
  <2>1. f \in Sums
    BY DEF Whole, Sums
  <2>2. Long(fits[k + n].sum[f] - fits[k].sum[f]) = T[n][f]
    BY <1>10, WholeSums, Zenon
  <2>3. QED
    BY <1>5, <1>8, <1>9, <2>1, <2>2
<1>12. ASSUME NEW f \in Sums \ Whole, NEW u \in Ulps, WithinFloats(f, u, k + 1, l)
       PROVE  Near(trend.s[f], Total(k + 1, l)[f], n, u)
  <2>1. WithinFloats(f, u, k + 1, k + n)
    BY <1>5, <1>12
  <2>2. PICK e : Far(e, n * u, u)
                 /\ Long(fits[k + n].sum[f] - fits[k].sum[f]) = Long(T[n][f] + e)
    BY <1>10, <2>1, FloatSums
  <2>3. trend.s[f] = Long(T[n][f] + e)
    BY <1>8, <2>2
  <2>4. Near(trend.s[f], T[n][f], n, u)
    BY <1>5, <2>2, <2>3, FarIsNear
  <2>5. QED
    BY <1>5, <1>9, <2>4
<1>13. QED
  BY <1>7, <1>11, <1>12

-----------------------------------------------------------------------------
\* What the readings in fits have been summed up to.
SumsInv ==
    conf = "level" =>
        pool \in Pools /\ fits \in Seq(Fit) /\ \E b \in Nat : Holds(pool, fits, b)

\* When the sums are of the readings noted, so is every trend made of them.
LEMMA SumsInvIsTrend == SumsInv => TrendIsTrue
<1> SUFFICES ASSUME SumsInv, conf = "level" PROVE TrendIsTrue
  BY DEF TrendIsTrue
<1>1. pool \in Pools /\ fits \in Seq(Fit)
  BY DEF SumsInv
<1>2. PICK b \in Nat : Holds(pool, fits, b)
  BY DEF SumsInv
<1>3. QED
  BY <1>1, <1>2, TrendStep DEF TrendIsTrue

\* A unit starts with sums of nothing.
LEMMA InitSums == UnitInit => SumsInv
<1> SUFFICES ASSUME UnitInit, conf = "level" PROVE SumsInv
  BY DEF SumsInv
<1>1. pool \in Pools /\ fits = <<>>
  BY LevelAssumption DEF UnitInit
<1>2. <<>> \in Seq(Fit)
  OBVIOUS
<1>3. QED
  BY <1>1, <1>2, BeginHolds DEF SumsInv

\* The hour that is read is one of the day, whenever its parts are asked for.
LEMMA HourIsOne ==
    ASSUME NEW n \in Int, NEW m \in Int
    PROVE  /\ OraAt(n, m) \in Nat /\ OraAt(n, m) < N12 * N3600
           /\ HourOf(OraAt(n, m)) \in Hours
<1> DEFINE a == n % Day
           r == (m % Day) % N3600
           h == HourOf(a)
           D == N12 * N3600
<1>1. N12 \in Nat /\ N3600 \in Nat \ {0} /\ Day \in Nat \ {0} /\ Day <= D
  BY HourAssumption, ClockAssumption, HoursAssumption
<1>2. a \in 0..(Day - 1) /\ m % Day \in 0..(Day - 1)
  BY <1>1, DivModInt
<1>3. r \in 0..(N3600 - 1)
  BY <1>1, <1>2, DivMod
<1>4. D \in Nat
  <2>1. \A x, y \in Nat : x * y \in Nat
    OBVIOUS
  <2>2. QED
    BY <1>1, <2>1
<1>5. a \in Nat /\ a < D
  <2> HIDE DEF a, D
  <2>1. QED
    BY <1>1, <1>2, <1>4
<1>6. h \in 0..(N12 - 1)
  <2>1. a < N12 * N3600
    BY <1>5
  <2> HIDE DEF a
  <2>2. a \div N3600 \in 0..(N12 - 1)
    BY <1>1, <1>5, <2>1, DivBelow
  <2>3. QED
    BY <2>2 DEF HourOf
<1>7. OraAt(n, m) = (h * N3600) + r
  BY DEF OraAt
<1> HIDE DEF a, r, h
<1>8. (h * N3600) + r \in Nat /\ (h * N3600) + r < D
  <2>1. (h + 1) * N3600 <= N12 * N3600
    BY <1>1, <1>6, Times
  <2>2. (h + 1) * N3600 = (h * N3600) + N3600 /\ h * N3600 \in Nat
    <3>1. \A x, y \in Nat : (x + 1) * y = (x * y) + y /\ x * y \in Nat
      OBVIOUS
    <3>2. QED
      BY <1>1, <1>6, <3>1
  <2> DEFINE p == h * N3600
             q == (h + 1) * N3600
  <2>3. p \in Nat /\ q = p + N3600 /\ q <= D
    BY <2>1, <2>2
  <2> HIDE DEF p, q, D
  <2>4. p + r \in Nat /\ p + r < D
    BY <1>1, <1>3, <1>4, <2>3
  <2>5. QED
    BY <2>4 DEF p
<1> DEFINE o == OraAt(n, m)
<1>9. o \in Nat /\ o < D
  BY <1>7, <1>8
<1>10. o < N12 * N3600
  BY <1>9
<1> HIDE DEF o, D
<1>11. o \div N3600 \in 0..(N12 - 1)
  BY <1>1, <1>9, <1>10, DivBelow
<1>12. QED
  BY <1>9, <1>10, <1>11 DEF o, Hours, HourOf

\* What a round begins with.
LEMMA BegunHolds ==
    ASSUME pool \in Pools, fits \in Seq(Fit), NEW b \in Nat, Holds(pool, fits, b), NEW n
    PROVE  /\ Begun(n).pool \in Pools /\ Begun(n).fits \in Seq(Fit)
           /\ \E c \in Nat : Holds(Begun(n).pool, Begun(n).fits, c)
<1>1. CASE FirstOfDay(n)
  <2> DEFINE p == levelBegin(pool)
  <2>1. Begun(n).pool = p /\ Begun(n).fits = <<>>
    BY <1>1 DEF Begun
  <2>2. p \in Pools /\ <<>> \in Seq(Fit)
    BY levelBeginType
  <2> HIDE DEF p
  <2>3. \E c \in Nat : Holds(p, <<>>, c)
    BY <2>2, BeginHolds
  <2>4. QED
    BY <2>1, <2>2, <2>3
<1>2. CASE ~FirstOfDay(n)
  BY <1>2 DEF Begun
<1>3. QED
  BY <1>1, <1>2

\* The reading is added to sums that may have begun anew.
LEMMA ReadLevelSums ==
    ASSUME IInv, SumsInv, conf = "level", conf' = conf, NEW r \in Now(clock, time),
           NEW d \in 0..Block[Sensors], Round(r, d), ReadLevel(r)
    PROVE  SumsInv'
<1>1. pool \in Pools /\ fits \in Seq(Fit) /\ \E b \in Nat : Holds(pool, fits, b)
  BY DEF SumsInv
<1>2. /\ time + r.wait \in Nat /\ time' \in 0..MaxTime
      /\ r.clock.ahead \in Int /\ clock' \in ClockType /\ MaxTime \in Nat
  BY RoundTimes, ClockAssumption
<1>3. clock'.ahead \in Int
  BY <1>2 DEF ClockType
<1> DEFINE p == Begun(r.now).pool
           s == Begun(r.now).fits
<1>4. PICK t \in (time + r.wait)..time' : \E ora \in Oras(r.clock, t) :
         /\ pool' = levelFit(p, ora, Level(t))
         /\ fits' = Append(s, [ora |-> ora, value |-> Level(t), sum |-> pool'.sum])
  BY DEF ReadLevel
<1>5. PICK o \in Oras(r.clock, t) :
         /\ pool' = levelFit(p, o, Level(t))
         /\ fits' = Append(s, [ora |-> o, value |-> Level(t), sum |-> pool'.sum])
  BY <1>4
<1>6. t \in 0..MaxTime
  BY <1>2
<1> DEFINE v == Level(t)
<1>7. v \in Int /\ Abs(v) <= Mantissa
  BY <1>6, LevelAssumption
<1>8. o \in Nat /\ o < N12 * N3600 /\ HourOf(o) \in Hours
  <2> DEFINE a == t + r.clock.ahead
             c == t + clock'.ahead
  <2>1. a \in Int /\ a + 1 \in Int /\ c \in Int
    BY <1>2, <1>3, <1>6
  <2>2. o \in {OraAt(a, a), OraAt(a, a + 1), OraAt(a, c), OraAt(c, c)}
    BY DEF Oras
  <2> HIDE DEF a, c
  <2>3. QED
    BY <2>1, <2>2, HourIsOne
<1>9. PICK b \in Nat : Holds(pool, fits, b)
  BY <1>1
<1>10. p \in Pools /\ s \in Seq(Fit) /\ \E c \in Nat : Holds(p, s, c)
  BY <1>1, <1>9, BegunHolds
<1>11. /\ pool' = levelFit(p, o, v)
       /\ fits' = Append(s, [ora |-> o, value |-> v, sum |-> levelFit(p, o, v).sum])
  BY <1>5
<1> HIDE DEF p, s, v
<1>12. PICK c \in Nat : Holds(p, s, c)
  BY <1>10
<1>13. levelFit(p, o, v) \in Pools
  BY <1>7, <1>8, <1>10, levelFitType
<1>14. levelFit(p, o, v).sum \in [Sums -> Longs]
  BY <1>13, HoldsType
<1> DEFINE f == Append(s, [ora |-> o, value |-> v, sum |-> levelFit(p, o, v).sum])
<1>15. f \in Seq(Fit) /\ Holds(levelFit(p, o, v), f, c)
  BY <1>7, <1>8, <1>10, <1>12, <1>14, FitHolds
<1> HIDE DEF f
<1>16. pool' \in Pools /\ fits' \in Seq(Fit) /\ Holds(pool', fits', c)
  <2>1. fits' = f
    BY <1>11 DEF f
  <2>2. QED
    BY <1>11, <1>13, <1>15, <2>1
<1>17. QED
  BY <1>16 DEF SumsInv

\* Every step of the unit keeps the sums those of its readings.
LEMMA NextSums == IInv /\ SumsInv /\ [UnitNext]_unitVars => SumsInv'
<1> SUFFICES ASSUME IInv, SumsInv, [UnitNext]_unitVars PROVE SumsInv'
  OBVIOUS
<1>1. CASE UNCHANGED <<conf, pool, fits>>
  BY <1>1 DEF SumsInv
<1>2. CASE Readings
  <2>1. conf' = conf
    BY <1>2 DEF Readings
  <2>2. CASE UNCHANGED <<pool, fits>>
    BY <1>1, <2>1, <2>2
  <2>3. CASE ~UNCHANGED <<pool, fits>>
    <3>1. PICK r \in Now(clock, time) : \E d \in 0..Block["readSensors"] :
             /\ Round(r, d)
             /\ IF conf = "level" THEN ReadLevel(r) ELSE UNCHANGED <<pool, fits>>
      BY <1>2, <2>3 DEF Readings
    <3>2. PICK d \in 0..Block["readSensors"] :
             /\ Round(r, d)
             /\ IF conf = "level" THEN ReadLevel(r) ELSE UNCHANGED <<pool, fits>>
      BY <3>1
    <3>3. conf = "level" /\ ReadLevel(r)
      BY <2>3, <3>2
    <3>4. d \in 0..Block[Sensors]
      BY DEF Sensors
    <3>5. QED
      BY <2>1, <3>2, <3>3, <3>4, ReadLevelSums
  <2>4. QED
    BY <2>2, <2>3
<1>3. QED
  BY <1>1, <1>2 DEF UnitNext, Rules, Outputs, Requests, unitVars

\* The output's flag is one of the commands', and its pin written 0 or 1.
OutputType == conf \in Configurations /\ st.Flag \in EnArgs \cup {0} /\ pin \in 0..1

\* Every step of the unit keeps the output's variables what they are.
LEMMA OutputTypeStep == OutputType /\ [UnitNext]_unitVars => OutputType'
<1> SUFFICES ASSUME OutputType, [UnitNext]_unitVars PROVE OutputType'
  OBVIOUS
<1>1. CASE UNCHANGED <<conf, st, pin>>
  BY <1>1 DEF OutputType
<1>2. Closed.Flag = 0
  BY DEF Closed
<1>3. CASE Outputs
  <2>1. conf' = conf
    BY <1>3 DEF Outputs
  <2>2. CASE st' = st /\ pin' = pin
    BY <2>1, <2>2 DEF OutputType
  <2>3. ASSUME st.Flag > 0, NEW m, st' = (IF RunsOut(m) THEN Closed ELSE st), pin' = st'.Flag
        PROVE  OutputType'
    <3>1. CASE RunsOut(m)
      BY <1>2, <2>1, <2>3, <3>1 DEF OutputType
    <3>2. CASE ~RunsOut(m)
      <4>1. st' = st /\ ~(st.Flag > 1)
        BY <2>3, <3>2 DEF RunsOut
      <4>2. st.Flag \in Nat
        <5>1. \A n \in EnArgs \cup {0} : n \in Nat
          BY CommandAssumption
        <5>2. QED
          BY <5>1 DEF OutputType
      <4>3. st.Flag = 1
        BY <2>3, <4>1, <4>2
      <4>4. QED
        BY <2>1, <2>3, <4>1, <4>3 DEF OutputType
    <3>3. QED
      BY <3>1, <3>2
  <2>4. QED
    BY <1>3, <2>2, <2>3 DEF Outputs
<1>4. CASE Requests
  <2>1. pin' = pin /\ conf' = conf
    BY <1>4 DEF Requests
  <2>2. CASE UNCHANGED st
    BY <2>1, <2>2 DEF OutputType
  <2>3. ASSUME NEW en \in EnArgs, NEW t \in Durations, Command(en, t)
        PROVE  OutputType'
    <3>1. st'.Flag = en
      BY <2>3 DEF Command
    <3>2. QED
      BY <2>1, <3>1 DEF OutputType
  <2>4. QED
    BY <1>4, <2>2, <2>3 DEF Requests
<1>5. QED
  BY <1>1, <1>3, <1>4 DEF UnitNext, Rules, Readings, unitVars

\* Together: the sums are always those of the readings since levelBegin.
LEMMA UnitInvariance == UnitSpec => [](OutputType /\ SumsInv)
<1>1. UnitInit => OutputType
  BY DEF UnitInit, OutputType, Closed
<1>2. UnitSpec => []IInv
  BY RunsOnSchedule, Invariance
<1>3. QED
  BY <1>1, <1>2, InitSums, NextSums, OutputTypeStep, PTL DEF UnitSpec

\* The types of the unit's variables: the counts of readings stay bytes and the
\* sums longs, and a pin is only written 0 or 1.
THEOREM UnitTypeCorrect == UnitSpec => []UnitTypeOK
<1>1. OutputType /\ SumsInv /\ SeenInTime => UnitTypeOK
  BY DEF OutputType, SumsInv, SeenInTime, UnitTypeOK
<1>2. QED
  BY <1>1, UnitInvariance, OutputIsSeenInTime, PTL

\* Every trend /level makes of two hours it has read is of exactly the readings
\* between them, however wide the longs and the count are and how often they have
\* wrapped, and whatever now() was set to; the sums that are added up as floats
\* are so to within one and a half of the floats' distances for each reading,
\* until they reach the last long.
THEOREM TrendsAreTrue == UnitSpec => []TrendIsTrue
BY SumsInvIsTrend, UnitInvariance, PTL
=============================================================================
