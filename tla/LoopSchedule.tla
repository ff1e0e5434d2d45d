---------------------------- MODULE LoopSchedule ----------------------------
(***************************************************************************)
(* How loop() of SensorServer.ino shares its time.  There is one thread:   *)
(* each pass calls readSensors, Rule_Apply, applyRemoteToValve and the web *)
(* server in turn, and each of the first three returns at once until       *)
(* millis() has reached the time it noted when it last ran.  A call that   *)
(* does run may take seconds (sensor timeouts, web queries, bitlash        *)
(* delays), and everything else waits.                                     *)
(*                                                                         *)
(* millis() is 32 bits wide and so are the noted times.  now() counts the  *)
(* seconds of millis() from what a time server last said, and asks it      *)
(* again every hour, in the midst of whatever called it.  The first        *)
(* reading of a day by now(), the one within an interval of midnight,      *)
(* starts the daily sum of ET0 afresh.                                     *)
(***************************************************************************)
EXTENDS Integers

CONSTANTS
    Interval,       \* of each task: opt[1], 60 s and 1 s in the code
    First,          \* its first run after setup(): 200 s, 120 s and 0
    Block,          \* the longest time its body takes
    MaxIdle,        \* the longest time of one web, telnet and OTA round
    Wrap,           \* 2^32 ms, where millis() begins again
    Day,            \* SECS_PER_DAY
    SyncInterval,   \* syncInterval of the Time library, 3600 s
    Wait,           \* MILLISWAIT, how long an answer is waited for, 10 s
    Corrections,    \* what an answer may move now() by
    MaxTime         \* bound: the clock stops here

Tasks == {"readSensors", "Rule_Apply", "applyRemoteToValve"}

ASSUME TaskAssumption ==
    /\ Interval \in [Tasks -> Nat \ {0}]
    /\ First \in [Tasks -> Nat]
    /\ Block \in [Tasks -> Nat]
ASSUME ClockAssumption ==
    /\ MaxIdle \in Nat \ {0} /\ Wrap \in Nat \ {0} /\ MaxTime \in Nat
    /\ Day \in Nat \ {0}
\* No body is as long as the time between two questions to the server.
ASSUME SyncAssumption ==
    /\ SyncInterval \in Nat \ {0} /\ Wait \in Nat /\ Corrections \subseteq Int
    /\ \A k \in Tasks : Wait + Block[k] < SyncInterval
    /\ MaxIdle < SyncInterval

VARIABLES
    at,             \* what the pass comes to next
    time,           \* time since the start; millis() is time modulo Wrap
    clock,          \* sysTime of now(), less time, and nextSyncTime
    target,         \* time_sensor, ruleCheck and next_out_mill
    last,           \* history: when each task last ran, -1 before
    lastReset       \* history: the last time sumET0 was set to 0

vars == <<at, time, clock, target, last, lastReset>>

millis == time % Wrap
DayOf(n) == n \div Day
NoReset == [time |-> -1, now |-> 0, ahead |-> 0]

Init ==
    /\ at = "readSensors"
    /\ time = 0
    /\ \E n \in 0..(Day - 1) : clock = [ahead |-> n, nextSync |-> n + SyncInterval]
    /\ target = [k \in Tasks |-> First[k] % Wrap]
    /\ last = [k \in Tasks |-> -1]
    /\ lastReset = NoReset

-----------------------------------------------------------------------------
(* now() *)

\* setTime, when an answer moves now() at time t.
Set(c, t, step) ==
    [ahead |-> c.ahead + step, nextSync |-> t + c.ahead + step + SyncInterval]

\* What a call of now() at time t returns, how long it takes, and what it
\* leaves: once nextSyncTime has come getNtpTime asks the server.  Its answer is
\* in whole seconds and as old as its way was long; when none comes, what is
\* returned is of before the wait.
Now(c, t) ==
    IF t + c.ahead < c.nextSync
    THEN {[clock |-> c, now |-> t + c.ahead, wait |-> 0]}
    ELSE {[clock |-> Set(c, t + w, step), now |-> t + w + c.ahead + step, wait |-> w]
             : w \in 0..Wait, step \in Corrections}
         \cup {[clock |-> Set(c, t, 0), now |-> t + c.ahead, wait |-> Wait]}

\* What the calls of a body between two times may leave.  Only one of them finds
\* nextSyncTime come.
Clocks(c, t1, t2) ==
    {c} \cup {Set(c, t, step) :
                t \in {u \in t1..t2 : c.nextSync <= u + c.ahead}, step \in Corrections \cup {0}}

-----------------------------------------------------------------------------
Due(k) == IF k = "readSensors" THEN millis > target[k] ELSE millis >= target[k]

\* Where time is when a body or a round ends; it stops at MaxTime.
Until(t) == IF t < MaxTime THEN t ELSE MaxTime

\* Mutants: the next time is counted from the one that was noted; it is not
\* kept to 32 bits.
Rearm_from_target(k, t) ==
    /\ target' = [target EXCEPT ![k] = (@ + Interval[k]) % Wrap]
    /\ last' = [last EXCEPT ![k] = t]

Rearm_wide(k, t) ==
    /\ target' = [target EXCEPT ![k] = (t % Wrap) + Interval[k]]
    /\ last' = [last EXCEPT ![k] = t]

\* Each task notes its next time before it does its work.
Rearm(k, t) ==
    /\ target' = [target EXCEPT ![k] = ((t % Wrap) + Interval[k]) % Wrap]
    /\ last' = [last EXCEPT ![k] = t]

Pass(k, next) == at = k /\ at' = next

\* Mutant: the next time is noted on every call.
Skip_rearms(k) ==
    /\ ~Due(k)
    /\ target' = [target EXCEPT ![k] = (millis + Interval[k]) % Wrap]
    /\ UNCHANGED <<time, clock, last>>

Skip(k) == ~Due(k) /\ UNCHANGED <<time, clock, target, last>>

\* Mutant: the first reading of the day is one close to midnight on both sides.
FirstOfDay_around(n) == n % Day < Interval["readSensors"] \/ n % Day = Day - 1

\* "0h first time of the day": now() % SECS_PER_DAY < timeint
FirstOfDay(n) == n % Day < Interval["readSensors"]

\* A round of readings that takes d after its first call of now(), which r is:
\* one within an interval of midnight sets the sum to 0.
Round(r, d) ==
    LET begun == time + r.wait IN
    /\ begun <= MaxTime
    /\ lastReset' = IF FirstOfDay(r.now)
                    THEN [time |-> begun, now |-> r.now, ahead |-> r.clock.ahead]
                    ELSE lastReset
    /\ Rearm("readSensors", begun)
    /\ time' = Until(begun + d)
    /\ clock' \in Clocks(r.clock, begun, time')

NoRound == Skip("readSensors") /\ UNCHANGED lastReset

readSensors ==
    /\ Pass("readSensors", "Rule_Apply")
    /\ \/ NoRound
       \/ /\ Due("readSensors")
          /\ \E r \in Now(clock, time), d \in 0..Block["readSensors"] : Round(r, d)

\* A body or a round of d; now() is called in it or not.
Spend(d) == time' = Until(time + d) /\ clock' \in Clocks(clock, time, time')

Task(k, next) ==
    /\ Pass(k, next)
    /\ \/ Skip(k)
       \/ Due(k) /\ Rearm(k, time) /\ \E d \in 0..Block[k] : Spend(d)
    /\ UNCHANGED lastReset

Rule_Apply == Task("Rule_Apply", "applyRemoteToValve")
applyRemoteToValve == Task("applyRemoteToValve", "handleClient")

\* The web server, and on the next pass telnet and OTA.
handleClient ==
    /\ Pass("handleClient", "readSensors")
    /\ \E d \in 1..MaxIdle : Spend(d)
    /\ UNCHANGED <<target, last, lastReset>>

Next == readSensors \/ Rule_Apply \/ applyRemoteToValve \/ handleClient

Spec == Init /\ [][Next]_vars

-----------------------------------------------------------------------------
Ran(k) == last'[k] # last[k]

\* Types of the variables; the noted times are as wide as millis().
TypeOK ==
    /\ at \in Tasks \cup {"handleClient"}
    /\ time \in 0..MaxTime
    /\ clock \in [ahead : Int, nextSync : Int]
    /\ target \in [Tasks -> 0..(Wrap - 1)]
    /\ last \in [Tasks -> Nat \cup {-1}]
    /\ lastReset \in [time : Nat \cup {-1}, now : Int, ahead : Int]

\* Until the noted time or millis() itself wraps, a task never runs again
\* before its interval has passed.
Unwrapped(k) == time < Wrap /\ last[k] + Interval[k] < Wrap
NeverEarly ==
    [][\A k \in Tasks : Ran(k) /\ last[k] >= 0 /\ Unwrapped(k)
          => time - last[k] >= Interval[k]]_vars

\* Until then no task is kept waiting, after its interval or after the start,
\* longer than the time of one pass: everybody's body once, the answer that
\* the readings wait for, and one round.
PassTime ==
    Wait + Block["readSensors"] + Block["Rule_Apply"] + Block["applyRemoteToValve"] + MaxIdle
DueAt(k) == IF last[k] >= 0 THEN last[k] + Interval[k] ELSE First[k]
NeverLate ==
    \A k \in Tasks : time < Wrap /\ DueAt(k) < Wrap => time <= DueAt(k) + PassTime

\* The daily sum is set to 0 by a second reading of a day only when now() was
\* set back in between, by more than it was past midnight at the first, however
\* late the server answers or whether it does; until the noted time or millis()
\* itself wraps.
Again ==
    /\ lastReset' # lastReset /\ lastReset.time >= 0 /\ Unwrapped("readSensors")
    /\ DayOf(lastReset'.now) = DayOf(lastReset.now)
ResetOncePerDay ==
    [][Again => lastReset.ahead - lastReset'.ahead > lastReset.now % Day]_vars
=============================================================================
