--------------------------- MODULE OutputStations ---------------------------
(***************************************************************************)
(* The valve and relay outputs of SensorServer.ino.  A /cm request gives a *)
(* channel a Flag and a Stop_time (handleRunOnce), and once a second the   *)
(* main loop moves the pins and closes what has run out                    *)
(* (applyRemoteToValve).  The channels are kept in RAM (st) and in flash   *)
(* slots (ee), and the unit can lose its power at any point, in the middle *)
(* of applyRemoteToValve too.                                              *)
(*                                                                         *)
(* The level statistics, pool, are kept at MYPOS, 400 bytes in front of    *)
(* the slots, and are 428 bytes long: their last seven words, SXY[17] to   *)
(* SXY[23], lie over slots 0 and 1 and the Flag of slot 2.  setup() reads  *)
(* them with whatever the slots hold, and loop() writes them back after    *)
(* every round of readings.                                                *)
(*                                                                         *)
(* The out_pin values of config.txt are distinct, so a channel stands for  *)
(* its pin here.  A request for a pin no channel has changes nothing.      *)
(*                                                                         *)
(* Only the difference of a Stop_time and now() matters, so a Stop_time is *)
(* kept here as the seconds left until it, -1 once it has passed, and no   *)
(* request is ever refused.  now() runs evenly here; what the hourly       *)
(* setting of the clock does to an open output is in module Unit.          *)
(***************************************************************************)
EXTENDS Integers

CONSTANTS
    NChan,          \* n_out_pin, the channels the configuration defines
    EnArgs,         \* the values of en= after atoi and the cast to byte
    Durations,      \* the values of t=, in seconds
    ErasedStop,     \* the seconds left to the Stop_time of an erased slot
    LevelSums       \* what levelFit may sum up in SXY, read as a Flag or as the
                    \* seconds left to a Stop_time; {}: no level is measured

ASSUME ChanAssumption == NChan \in 1..8                    \* MAX_OUT_CHAN
ASSUME ArgAssumption == EnArgs \subseteq 0..255 /\ Durations \subseteq Nat
ASSUME ErasedAssumption == ErasedStop \in Nat
ASSUME LevelAssumption == LevelSums \subseteq Nat

VARIABLES
    up,             \* the program is past setup()
    st,             \* st[] in RAM: Flag and Stop_time of each channel
    ee,             \* the same records in flash, at EEPROM_ST
    pool,           \* the words of pool in RAM, seen as the slots they lie over
    pin,            \* the level digitalWrite gave each output
    zeroed,         \* history: channels whose latest request said en=0
    due             \* millis() >= next_out_mill

vars == <<up, st, ee, pool, pin, zeroed, due>>

Chan == 0..(NChan - 1)
Past == -1          \* now() > Stop_time
Station == [Flag : 0..255, Stop_time : Nat \cup {Past}]
Closed == [Flag |-> 0, Stop_time |-> Past]
Erased == [Flag |-> 255, Stop_time |-> ErasedStop]
statn == 0          \* the slot index of handleRunOnce, never assigned again

Init ==
    /\ up = FALSE
    /\ st = [c \in Chan |-> Closed]
    /\ ee \in {[c \in Chan |-> Erased], [c \in Chan |-> Closed]}
    /\ pool = [c \in Chan |-> Closed]
    /\ pin = [c \in Chan |-> 0]
    /\ zeroed = {}
    /\ due = FALSE

-----------------------------------------------------------------------------
\* Mutant: a request adds to the time the channel already has.
handleRunOnce_adds(c, en, t) ==
    /\ up
    /\ LET cmd == [Flag |-> en, Stop_time |-> st[c].Stop_time + t]
       IN /\ st' = [st EXCEPT ![c] = cmd]
          /\ ee' = [ee EXCEPT ![statn] = cmd]
    /\ zeroed' = IF en = 0 THEN zeroed \cup {c} ELSE zeroed \ {c}
    /\ UNCHANGED <<up, pool, pin, due>>

\* /cm?sid=c&en=en&t=t: the record goes to RAM slot c, and to flash slot statn.
handleRunOnce(c, en, t) ==
    /\ up
    /\ LET cmd == [Flag |-> en, Stop_time |-> t]
       IN /\ st' = [st EXCEPT ![c] = cmd]
          /\ ee' = [ee EXCEPT ![statn] = cmd]
    /\ zeroed' = IF en = 0 THEN zeroed \cup {c} ELSE zeroed \ {c}
    /\ UNCHANGED <<up, pool, pin, due>>

\* Mutants: a Flag above 1 is kept; the time test is turned round.
RunsOut_any_flag(c) == st[c].Flag > 0 /\ st[c].Stop_time = Past
RunsOut_early(c) == st[c].Flag > 0 /\ (st[c].Stop_time > 0 \/ st[c].Flag > 1)

\* What applyRemoteToValve closes: a channel out of time, or a Flag that is
\* neither 0 nor 1 (a request with en=2, a slot that was never written).
RunsOut(c) ==
    /\ st[c].Flag > 0
    /\ st[c].Stop_time = Past \/ st[c].Flag > 1

\* The records of the channels S as applyRemoteToValve leaves them.
CloseIn(S, f) == [c \in Chan |-> IF c \in S /\ RunsOut(c) THEN Closed ELSE f[c]]

\* Mutant: the pin is written only while the channel stays open.
applyRemoteToValve_no_low ==
    /\ up /\ due
    /\ st' = CloseIn(Chan, st)
    /\ ee' = CloseIn(Chan, ee)
    /\ pin' = [c \in Chan |-> IF st'[c].Flag > 0 THEN st'[c].Flag ELSE pin[c]]
    /\ due' = FALSE
    /\ UNCHANGED <<up, pool, zeroed>>

\* A channel with Flag 0 is passed over: its pin keeps the level it has.
applyRemoteToValve ==
    /\ up /\ due
    /\ st' = CloseIn(Chan, st)
    /\ ee' = CloseIn(Chan, ee)
    /\ pin' = [c \in Chan |-> IF st[c].Flag > 0 THEN st'[c].Flag ELSE pin[c]]
    /\ due' = FALSE
    /\ UNCHANGED <<up, pool, zeroed>>

\* The slots f after pool was written over them.
Covered(f) ==
    [c \in Chan |-> CASE c < 2 -> pool'[c]
                      [] c = 2 -> [f[c] EXCEPT !.Flag = pool'[c].Flag]
                      [] OTHER -> f[c]]

\* A round of readings: levelFit has summed up an hour, or there is no level to
\* measure, and loop() stores pool.
StorePool ==
    /\ up
    /\ \/ UNCHANGED pool
       \/ \E c \in Chan, w \in LevelSums :
             \/ pool' = [pool EXCEPT ![c].Flag = w % 256]
             \/ pool' = [pool EXCEPT ![c].Stop_time = w]
    /\ ee' = Covered(ee)
    /\ UNCHANGED <<up, st, pin, zeroed, due>>

\* Power fails, or /restart is asked for.  When it happens inside
\* applyRemoteToValve the first k channels have already been committed.
PowerLoss(k) ==
    /\ up
    /\ k > 0 => due
    /\ ee' = CloseIn(0..(k - 1), ee)
    /\ up' = FALSE
    /\ st' = [c \in Chan |-> Closed]
    /\ pool' = [c \in Chan |-> Closed]
    /\ pin' = [c \in Chan |-> 0]
    /\ zeroed' = {}
    /\ due' = FALSE

\* setup(): the slots are read back, next_out_mill is 0, and the pins are
\* made outputs at level 0.
Boot ==
    /\ ~up
    /\ up' = TRUE
    /\ st' = ee
    /\ pool' = ee
    /\ due' = TRUE
    /\ UNCHANGED <<ee, pin, zeroed>>

\* The records of f a second later.
Later(f) ==
    [c \in Chan |-> [f[c] EXCEPT !.Stop_time = IF @ = Past THEN Past ELSE @ - 1]]

\* A second passes, with the unit on or off.
Tick ==
    /\ st' = Later(st)
    /\ ee' = Later(ee)
    /\ pool' = Later(pool)
    /\ due' = up
    /\ UNCHANGED <<up, pin, zeroed>>

Next ==
    \/ \E c \in Chan, en \in EnArgs, t \in Durations : handleRunOnce(c, en, t)
    \/ applyRemoteToValve
    \/ StorePool
    \/ \E k \in 0..NChan : PowerLoss(k)
    \/ Boot
    \/ Tick

Spec == Init /\ [][Next]_vars

\* loop() calls applyRemoteToValve on every pass and time passes; nothing is
\* assumed about requests, power losses or the unit being switched on again.
Fairness == WF_vars(applyRemoteToValve) /\ WF_vars(Tick)
FairSpec == Spec /\ Fairness

-----------------------------------------------------------------------------
\* The variables keep their types; in particular a pin is only ever written
\* 0 or 1 although Flag is a byte taken from the request or from flash.
TypeOK ==
    /\ up \in BOOLEAN
    /\ st \in [Chan -> Station]
    /\ ee \in [Chan -> Station]
    /\ pool \in [Chan -> Station]
    /\ pin \in [Chan -> 0..1]
    /\ zeroed \subseteq Chan
    /\ due \in BOOLEAN

\* "en=1-open_0-close&t=duration_in_seconds": however often the unit restarts,
\* and whichever slot a command was stored in, no channel is open (or stored as
\* open) for longer than the longest duration a request may ask for, counted
\* from now.  This holds of a unit that measures no level; one that does may
\* store sums over the slots that a restart takes for a command.
OpenTimeBounded ==
    \A c \in Chan : \A r \in {st[c], ee[c]} :
        r.Flag = 1 => \E t \in Durations : r.Stop_time <= t

\* An output goes high only for a channel whose Flag is 1 and whose Stop_time
\* has not passed: not after its time, not for an erased slot, not at a restart.
PinRisesInItsTime ==
    [][\A c \in Chan : pin[c] = 0 /\ pin'[c] = 1 =>
          st[c].Flag = 1 /\ st[c].Stop_time # Past]_vars

\* A high output has a channel that is timing or closing it, or the latest
\* request for it said en=0, which nothing takes low again but a restart.
OpenPinIsTimed == \A c \in Chan : pin[c] = 1 => st[c].Flag > 0 \/ c \in zeroed

\* A request opens channel c, or renews the time it is open for.
Opens(c) == \E t \in Durations : handleRunOnce(c, 1, t)

\* Every output that is high goes low again: the loop closes it, or the power
\* fails; or a request says en=0 of it.  The one exception is an output that
\* requests keep opening without end: whoever renews en=1 before its time is
\* up keeps the pin high for as long as the requests go on.
EveryPinCloses ==
    \A c \in Chan : <>[][~Opens(c)]_vars =>
            (pin[c] = 1) ~> (pin[c] = 0 \/ c \in zeroed)

\* handleRunOnce is commented "en=1-open_0-close": after the loop has applied
\* a channel's Flag 0 its output is low.  The code passes Flag 0 over.
CloseDrivesPinLow ==
    [][applyRemoteToValve => \A c \in Chan : st'[c].Flag = 0 => pin'[c] = 0]_vars
=============================================================================
