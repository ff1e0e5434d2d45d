----------------------------- MODULE WeatherRing ----------------------------
(***************************************************************************)
(* The readings weather[0..MAX_WEATHER_READ-1] of SensorServer.ino, from   *)
(* which ET0 is computed, and their copy in EEPROM.  iw is the slot of the *)
(* next reading, the one before it has the latest.  At the end of a round  *)
(* readSensors commits the slot's index and then the slot; setup() goes on *)
(* behind the index it finds.  Power may fail between any two commits.     *)
(*                                                                         *)
(* A round adds to the day's ET0 the hourly value times the time since the *)
(* latest reading, or times the interval if that is about as long.  Of a   *)
(* reading only its time is kept here.                                     *)
(***************************************************************************)
EXTENDS Integers, FiniteSets

CONSTANTS
    MAX_WEATHER_READ,   \* slots of the ring, 10
    timeint,            \* the time between two rounds, opt[1]
    Tolerance,          \* the 100 s of the round that adds
    START_INTERVAL,     \* from the start to the first round
    MaxTime,            \* bound: the clock stops here
    MaxTorn             \* bound: power failures between index and slot

ASSUME RingAssumption == MAX_WEATHER_READ \in Nat \ {0, 1} /\ MAX_WEATHER_READ < 255
ASSUME TimeAssumption ==
    /\ timeint \in Nat \ {0} /\ Tolerance \in Nat /\ START_INTERVAL \in Nat
    /\ MaxTime \in Nat
ASSUME TornAssumption == MaxTorn \in Nat

VARIABLES
    pc,             \* "off", "idle", or the commit the round comes to next
    ring, iw,       \* weather[].time and iw in RAM
    index, slots,   \* the same at WEATHERPOS, iw as of the last round
    span,           \* the time whose ET0 the last round added, 0 for none
    due,            \* time_sensor
    now,
    latest,         \* history: time of the last reading that was committed
    torn, stale     \* history: power failures between index and slot, and
                    \* whether one has come since the last reading

history == <<latest, torn, stale>>
vars == <<pc, ring, iw, index, slots, span, due, now, history>>

Slot == 0..(MAX_WEATHER_READ - 1)
Never == 0          \* time of a slot that was not filled since the RAM was cleared
Erased == -1        \* time of a slot in erased flash
NoIndex == 255

Init ==
    /\ pc = "off"
    /\ ring = [i \in Slot |-> Never] /\ iw = 0
    /\ index = NoIndex /\ slots = [i \in Slot |-> Erased]
    /\ span = 0 /\ due = 0
    /\ now = 1
    /\ latest = 0 /\ torn = 0 /\ stale = FALSE

-----------------------------------------------------------------------------
\* iw++; if (iw >= MAX_WEATHER_READ) iw = 0
Succ(i) == IF i + 1 >= MAX_WEATHER_READ THEN 0 ELSE i + 1

\* Mutant: the slot before slot 0 is slot 0.
Latest_first == IF iw = 0 THEN 0 ELSE iw - 1

\* iwm1 of readSensors
Latest == IF iw = 0 THEN MAX_WEATHER_READ - 1 ELSE iw - 1

\* What setup() makes of the index n and the slots s.
RestoredRing(n, s) == IF n \in Slot THEN s ELSE [i \in Slot |-> Never]
\* Mutant: the slot of the last reading comes next.
RestoredIw_same(n) == IF n \in Slot THEN n ELSE 1
RestoredIw(n) == Succ(IF n \in Slot THEN n ELSE 0)

Boot ==
    /\ pc = "off"
    /\ pc' = "idle"
    /\ ring' = RestoredRing(index, slots)
    /\ iw' = RestoredIw(index)
    /\ due' = now + START_INTERVAL
    /\ span' = 0
    /\ UNCHANGED <<index, slots, now, history>>

\* ET0_calc gives a value, or none: at night, for want of data, or because the
\* slot behind the next one was not filled yet.
CanCompute == ring[Succ(iw)] # Never

Elapsed ==
    IF now > ring[Latest] + timeint + Tolerance THEN now - ring[Latest] ELSE timeint

\* A round begins: the next one is noted, ET0 is added to the sum and the sum
\* is committed.
Read ==
    /\ pc = "idle"
    /\ now > due
    /\ pc' = "index"
    /\ due' = now + timeint
    /\ span' \in {0} \cup (IF CanCompute THEN {Elapsed} ELSE {})
    /\ UNCHANGED <<ring, iw, index, slots, now, history>>

\* Mutant: the index of the next slot is committed, as it comes.
CommitIndex_next ==
    /\ pc = "index"
    /\ pc' = "slot"
    /\ ring' = [ring EXCEPT ![iw] = now]
    /\ index' = iw + 1
    /\ UNCHANGED <<iw, slots, span, due, now, history>>

CommitIndex ==
    /\ pc = "index"
    /\ pc' = "slot"
    /\ ring' = [ring EXCEPT ![iw] = now]
    /\ index' = iw
    /\ UNCHANGED <<iw, slots, span, due, now, history>>

\* Mutant: iw is advanced before the slot is written.
CommitSlot_advanced ==
    /\ pc = "slot"
    /\ pc' = "idle"
    /\ slots' = [slots EXCEPT ![Succ(iw)] = ring[Succ(iw)]]
    /\ iw' = Succ(iw)
    /\ latest' = ring[iw] /\ stale' = FALSE
    /\ UNCHANGED <<ring, index, span, due, now, torn>>

CommitSlot ==
    /\ pc = "slot"
    /\ pc' = "idle"
    /\ slots' = [slots EXCEPT ![iw] = ring[iw]]
    /\ iw' = Succ(iw)
    /\ latest' = ring[iw] /\ stale' = FALSE
    /\ UNCHANGED <<ring, index, span, due, now, torn>>

PowerLoss ==
    /\ pc # "off"
    /\ pc = "slot" => torn < MaxTorn
    /\ pc' = "off"
    /\ ring' = [i \in Slot |-> Never] /\ iw' = 0
    /\ span' = 0 /\ due' = 0
    /\ IF pc = "slot" THEN torn' = torn + 1 /\ stale' = TRUE ELSE UNCHANGED <<torn, stale>>
    /\ UNCHANGED <<index, slots, now, latest>>

\* Time passes between the rounds, within one and without power.
Tick ==
    /\ now < MaxTime
    /\ now' = now + 1
    /\ UNCHANGED <<pc, ring, iw, index, slots, span, due, history>>

Next == Boot \/ Read \/ CommitIndex \/ CommitSlot \/ PowerLoss \/ Tick

Spec == Init /\ [][Next]_vars

-----------------------------------------------------------------------------
\* Types of the variables: iw and the index name slots.
TypeOK ==
    /\ pc \in {"off", "idle", "index", "slot"}
    /\ ring \in [Slot -> Nat \cup {Erased}] /\ iw \in Slot
    /\ index \in Slot \cup {NoIndex} /\ slots \in [Slot -> Nat \cup {Erased}]
    /\ span \in Nat /\ due \in Nat /\ now \in Nat \ {0}
    /\ latest \in Nat /\ torn \in 0..MaxTorn /\ stale \in BOOLEAN

\* Between two rounds nothing is lost by a restart: setup() would go on at the
\* same slot and find every reading the ring holds, torn readings before or not.
RestartIsSeamless ==
    pc = "idle" =>
        /\ RestoredIw(index) = iw
        /\ \A i \in Slot : ring[i] # Never => RestoredRing(index, slots)[i] = ring[i]

\* The place of the i-th oldest slot.
Place(i) == (iw + i) % MAX_WEATHER_READ

\* From iw on the slots go from the oldest reading to the latest.  Every power
\* failure between index and slot leaves at most one reading out of order.
InOrderButForTorn ==
    pc = "idle" =>
        Cardinality({i \in 0..(MAX_WEATHER_READ - 2) : ring[Place(i)] > ring[Place(i + 1)]})
            <= torn

\* When a round makes up for a time without readings it adds the time since the
\* last reading that was committed, neither more nor less, over restarts and
\* rounds that were cut short too.  Only the round after a power failure between
\* index and slot, which leaves the index on a reading of the round of the ring
\* before, may count from there.
GapSinceLatest ==
    [][Read /\ span' > timeint /\ ~stale => span' = now - latest]_vars
=============================================================================
