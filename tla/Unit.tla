-------------------------------- MODULE Unit --------------------------------
(***************************************************************************)
(* What the loop of SensorServer.ino does in its time.  LoopSchedule says  *)
(* when the tasks run; here a unit with a level sensor sums up what it     *)
(* reads (LevelSums), starting afresh with the first reading of a day, and *)
(* a unit with an output opens and closes it: the web server takes a       *)
(* command, and a later pass carries it out.                               *)
(*                                                                         *)
(* The unit of time is the second of now(), in which Stop_time is given.   *)
(***************************************************************************)
EXTENDS LoopSchedule, LevelSums, Sequences, SequencesExt

CONSTANTS
    Configurations, \* what a unit has: "level", "output"
    Level(_),       \* what the sensor reads at a time
    LeftOver,       \* pool as setup() may find it in EEPROM
    EnArgs,         \* the values of en=
    Durations       \* the values of t=

ASSUME HoursAssumption == Day <= N12 * N3600
\* Whatever bytes the EEPROM holds, pool's members are bytes and longs; a level
\* is a number of millimetres.
ASSUME LevelAssumption ==
    /\ LeftOver \subseteq Pools
    /\ \A t \in 0..MaxTime : Level(t) \in Int /\ Abs(Level(t)) <= Mantissa
ASSUME ConfigurationAssumption == Configurations \subseteq {"level", "output"}
ASSUME CommandAssumption == EnArgs \subseteq 0..255 /\ Durations \subseteq Nat

VARIABLES
    conf,           \* what this unit has
    pool,           \* the level's sums
    fits,           \* history: the readings since levelBegin or the start, and the sums
    st,             \* Flag and Stop_time of the output
    pin,            \* its level
    lowest          \* history: the least that now() was ahead since the command

unitVars ==
    <<at, time, clock, target, last, lastReset, conf, pool, fits, st, pin, lowest>>

Closed == [Flag |-> 0, Stop_time |-> 0]

UnitInit ==
    /\ Init
    /\ conf \in Configurations
    /\ pool \in IF conf = "level" THEN LeftOver ELSE {<<>>}
    /\ fits = <<>>
    /\ st = Closed
    /\ pin = 0
    /\ lowest = 0

-----------------------------------------------------------------------------
\* The hour is noted by a call of hour(), the rest by minute() and second(): each
\* asks now(), and the next second, or the server's answer, may come in between.
OraAt(n, m) == (HourOf(n % Day) * N3600) + ((m % Day) % N3600)
Oras(c, t) ==
    {OraAt(t + c.ahead, t + c.ahead), OraAt(t + c.ahead, t + c.ahead + 1),
     OraAt(t + c.ahead, t + clock'.ahead), OraAt(t + clock'.ahead, t + clock'.ahead)}

\* levelBegin, when the round begins within an interval of midnight.
Begun(n) ==
    IF FirstOfDay(n) THEN [pool |-> levelBegin(pool), fits |-> <<>>]
    ELSE [pool |-> pool, fits |-> fits]

\* The round that began with the call r of now() reads the level some time later,
\* maybe in the next hour or on the next day.
ReadLevel(r) ==
    \E t \in (time + r.wait)..time' : \E ora \in Oras(r.clock, t) :
       LET begun == Begun(r.now) IN
       /\ pool' = levelFit(begun.pool, ora, Level(t))
       /\ fits' = Append(begun.fits,
                         [ora |-> ora, value |-> Level(t), sum |-> pool'.sum])

\* The least that now() has been ahead of time, while an output is open.
Watch ==
    lowest' = IF st'.Flag # 1 THEN 0
              ELSE IF clock'.ahead < lowest THEN clock'.ahead ELSE lowest

Readings ==
    /\ Pass("readSensors", "Rule_Apply")
    /\ \/ NoRound /\ UNCHANGED <<pool, fits>>
       \/ /\ Due("readSensors")
          /\ \E r \in Now(clock, time), d \in 0..Block["readSensors"] :
                /\ Round(r, d)
                /\ IF conf = "level" THEN ReadLevel(r) ELSE UNCHANGED <<pool, fits>>
    /\ UNCHANGED <<conf, st, pin>>
    /\ Watch

Rules == Rule_Apply /\ UNCHANGED <<conf, pool, fits, st, pin>> /\ Watch

\* Mutant: an output is closed only by a pass that finds it out of time to the
\* second.
RunsOut_on_time(n) == n = st.Stop_time + 1 \/ st.Flag > 1

\* Mutant: a byte above 1 passes for an open output.
RunsOut_any_flag(n) == n > st.Stop_time

RunsOut(n) == n > st.Stop_time \/ st.Flag > 1

\* The loop over the outputs, here of one, asks for the time when it is open.
Outputs ==
    /\ applyRemoteToValve
    /\ IF Ran("applyRemoteToValve") /\ st.Flag > 0
       THEN \E r \in Now(clock, time) :
               /\ time + r.wait <= time' /\ clock' = r.clock
               /\ st' = IF RunsOut(r.now) THEN Closed ELSE st
               /\ pin' = st'.Flag
       ELSE clock' = clock /\ UNCHANGED <<st, pin>>
    /\ Watch
    /\ UNCHANGED <<conf, pool, fits>>

\* "t=duration_in_seconds" is added to what now() returns, and the command is
\* taken.
Command(en, t) ==
    /\ conf = "output"
    /\ \E u \in time..time' : \E r \in Now(clock, u) :
          /\ u + r.wait = time' /\ clock' = r.clock
          /\ st' = [Flag |-> en, Stop_time |-> r.now + t]
    /\ lowest' = IF en = 1 THEN clock'.ahead ELSE 0

\* A command comes, or something else or nothing.
Requests ==
    /\ handleClient
    /\ \/ UNCHANGED st /\ Watch
       \/ \E en \in EnArgs, t \in Durations : Command(en, t)
    /\ UNCHANGED <<conf, pool, fits, pin>>

UnitNext == Readings \/ Rules \/ Outputs \/ Requests

UnitSpec == UnitInit /\ [][UnitNext]_unitVars

-----------------------------------------------------------------------------
\* Types of the variables: the counts of readings are bytes and the sums longs;
\* a pin is only written 0 or 1.
UnitTypeOK ==
    /\ conf \in Configurations
    /\ conf = "level" => pool \in Pools
    /\ st.Flag \in EnArgs \cup {0} /\ st.Stop_time \in Int /\ lowest \in Int
    /\ pin \in 0..1

\* The places in fits of the readings of an hour; where its last one is.
Of(h) == {k \in DOMAIN fits : HourOf(fits[k].ora) = h}
LastOf(h) == CHOOSE k \in Of(h) : \A j \in Of(h) : j <= k

\* What the readings from one place in fits to another add up to, in longs.
Total(first, end) ==
    LET sum[k \in (first - 1)..end] ==
            IF k < first THEN None
            ELSE [f \in Sums |->
                    Long(sum[k - 1][f] + Sample(fits[k].ora, fits[k].value)[f])]
    IN sum[end]

\* The readings from one place to another are summed up where the floats are u
\* apart, and within the longs.
WithinFloats(f, u, first, end) ==
    \A k \in first..end :
       LET need == Abs(fits[k - 1].sum[f]) + Abs(Sample(fits[k].ora, fits[k].value)[f]) + 2 * u
       IN need <= u * Mantissa /\ need <= LongSize \div 2

\* n additions are no further off than half a distance for each of their three
\* floats; there are none between whole numbers.
Near(s, total, n, u) ==
    LET most == IF u = 1 THEN 0 ELSE (3 * n * u) \div 2
    IN \E e \in (-most)..most : s = Long(total + e)

\* A trend between two hours that the unit has read since levelBegin, the first
\* of them before the other, is of exactly the readings behind the one hour and
\* up to the end of the other: whatever the sums were when the unit started,
\* however often the count and the sums of longs have wrapped, when a day's
\* levelBegin has been missed, when a round lies over the end of an hour or of
\* the day, and when now() is set back.  Of the sums of floats that is so to
\* within one and a half distances for each reading, as long as they do not leave
\* the longs.  Only a trend of more readings than the byte counts is not.
TrendIsTrue ==
    conf = "level" =>
    \A i, j \in Hours : Of(i) # {} /\ Of(j) # {} =>
        LET trend == levelGet(pool, i, j)
            first == LastOf(i) + 1
            end == LastOf(j)
            n == end - first + 1
            total == Total(first, end)
        IN trend.ns > 0 /\ first <= end /\ n <= ByteSize =>
              /\ trend.ns = n
              /\ \A f \in Whole : trend.s[f] = total[f]
              /\ \A f \in Sums \ Whole, u \in Ulps :
                    WithinFloats(f, u, first, end) => Near(trend.s[f], total[f], n, u)

\* "t=duration_in_seconds": until the clock wraps an output is high for no
\* longer after its Stop_time than the loop takes to come to it again, with
\* readings, rules and requests in its way; and when now() has been set back
\* since, for as much longer.
ClosesInTime ==
    pin = 1 /\ st.Flag = 1 /\ time < Wrap /\ DueAt("applyRemoteToValve") < Wrap
       => time + lowest <= st.Stop_time + Interval["applyRemoteToValve"] + PassTime
=============================================================================
