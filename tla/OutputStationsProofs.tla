------------------------ MODULE OutputStationsProofs ------------------------
(***************************************************************************)
(* What holds of the outputs for any number of channels, any requests and  *)
(* any power losses.                                                       *)
(***************************************************************************)
EXTENDS OutputStations, TLAPS

\* The slot every command is stored in is one of the channels'.
LEMMA StatnIsChannel == statn \in Chan
BY ChanAssumption DEF statn, Chan

\* A command or a closed record is a record of the right type.
LEMMA RecordTypes ==
    /\ Closed \in Station
    /\ Erased \in Station
    /\ \A en \in EnArgs, t \in Durations :
          [Flag |-> en, Stop_time |-> t] \in Station
BY ArgAssumption, ErasedAssumption DEF Closed, Erased, Station, Past

\* Closing channels of a table of records leaves a table of records.
LEMMA CloseInType ==
    ASSUME NEW S, NEW f \in [Chan -> Station]
    PROVE  CloseIn(S, f) \in [Chan -> Station]
BY RecordTypes DEF CloseIn

\* A second later a table of records is a table of records, with the Flags it
\* had and no more time left than it had.
LEMMA LaterType ==
    ASSUME NEW f \in [Chan -> Station]
    PROVE  /\ Later(f) \in [Chan -> Station]
           /\ \A c \in Chan : /\ Later(f)[c].Flag = f[c].Flag
                             /\ Later(f)[c].Stop_time <= f[c].Stop_time
<1>1. ASSUME NEW c \in Chan
      PROVE  /\ Later(f)[c] \in Station
             /\ Later(f)[c].Flag = f[c].Flag
             /\ Later(f)[c].Stop_time <= f[c].Stop_time
  <2>1. f[c].Stop_time \in Nat \cup {Past} /\ f[c] \in Station
    BY DEF Station
  <2>2. Later(f)[c] = [f[c] EXCEPT !.Stop_time =
                           IF f[c].Stop_time = Past THEN Past ELSE f[c].Stop_time - 1]
    BY DEF Later, Station
  <2>3. (IF f[c].Stop_time = Past THEN Past ELSE f[c].Stop_time - 1) \in Nat \cup {Past}
    BY <2>1 DEF Past
  <2>4. QED
    BY <2>1, <2>2, <2>3 DEF Station, Past
<1>2. QED
  BY <1>1 DEF Later

\* What StorePool leaves of a table of records, and in pool.
LEMMA StorePoolType ==
    ASSUME TypeOK, StorePool
    PROVE  pool' \in [Chan -> Station] /\ ee' \in [Chan -> Station]
<1>1. pool' \in [Chan -> Station]
  <2>1. CASE UNCHANGED pool
    BY <2>1 DEF TypeOK
  <2>2. ASSUME NEW c \in Chan, NEW w \in LevelSums, pool' = [pool EXCEPT ![c].Flag = w % 256]
        PROVE  pool' \in [Chan -> Station]
    <3> DEFINE b == w % 256
    <3>1. b \in 0..255
      BY LevelAssumption
    <3>2. pool' = [pool EXCEPT ![c].Flag = b]
      BY <2>2
    <3> HIDE DEF b
    <3>3. [pool[c] EXCEPT !.Flag = b] \in Station
      BY <3>1 DEF TypeOK, Station
    <3>4. pool' = [pool EXCEPT ![c] = [pool[c] EXCEPT !.Flag = b]]
      BY <3>2
    <3>5. QED
      BY <3>3, <3>4 DEF TypeOK
  <2>3. ASSUME NEW c \in Chan, NEW w \in LevelSums, pool' = [pool EXCEPT ![c].Stop_time = w]
        PROVE  pool' \in [Chan -> Station]
    <3>1. [pool[c] EXCEPT !.Stop_time = w] \in Station
      BY LevelAssumption DEF TypeOK, Station
    <3>2. pool' = [pool EXCEPT ![c] = [pool[c] EXCEPT !.Stop_time = w]]
      BY <2>3
    <3>3. QED
      BY <3>1, <3>2 DEF TypeOK
  <2>4. QED
    BY <2>1, <2>2, <2>3 DEF StorePool
<1>2. ASSUME NEW c \in Chan
      PROVE  /\ pool'[c] \in Station /\ ee[c] \in Station
             /\ [ee[c] EXCEPT !.Flag = pool'[c].Flag] \in Station
  BY <1>1 DEF TypeOK, Station
<1>3. QED
  BY <1>1, <1>2 DEF StorePool, Covered

\* The type invariant: pins are only ever written 0 or 1, whatever Flag a
\* request or an old flash slot holds.
THEOREM TypeCorrect == Spec => []TypeOK
<1>1. Init => TypeOK
  <2> SUFFICES ASSUME Init PROVE TypeOK
    OBVIOUS
  <2>1. [c \in Chan |-> Erased] \in [Chan -> Station]
    BY RecordTypes
  <2>2. [c \in Chan |-> Closed] \in [Chan -> Station]
    BY RecordTypes
  <2>3. ee = [c \in Chan |-> Erased] \/ ee = [c \in Chan |-> Closed]
    BY DEF Init
  <2>4. ee \in [Chan -> Station]
    BY <2>1, <2>2, <2>3
  <2>5. st \in [Chan -> Station]
    BY <2>2 DEF Init
  <2>9. pool \in [Chan -> Station]
    BY <2>2 DEF Init
  <2>6. pin \in [Chan -> 0..1]
    BY DEF Init
  <2>7. up \in BOOLEAN /\ due \in BOOLEAN /\ zeroed \subseteq Chan
    BY DEF Init
  <2>8. QED
    BY <2>4, <2>5, <2>6, <2>7, <2>9 DEF TypeOK
<1>2. TypeOK /\ [Next]_vars => TypeOK'
  <2> SUFFICES ASSUME TypeOK, [Next]_vars PROVE TypeOK'
    OBVIOUS
  <2> USE DEF TypeOK
  <2>1. ASSUME NEW c \in Chan, NEW en \in EnArgs, NEW t \in Durations,
               handleRunOnce(c, en, t)
        PROVE  TypeOK'
    <3>1. [Flag |-> en, Stop_time |-> t] \in Station
      BY RecordTypes
    <3>2. QED
      BY <2>1, <3>1, StatnIsChannel DEF handleRunOnce
  <2>2. ASSUME applyRemoteToValve PROVE TypeOK'
    <3>1. st' \in [Chan -> Station] /\ ee' \in [Chan -> Station]
      BY <2>2, CloseInType DEF applyRemoteToValve
    <3>2. pin' \in [Chan -> 0..1]
      <4>1. ASSUME NEW c \in Chan
            PROVE  (IF st[c].Flag > 0 THEN st'[c].Flag ELSE pin[c]) \in 0..1
        <5>1. CASE RunsOut(c)
          BY <2>2, <5>1 DEF applyRemoteToValve, CloseIn, Closed
        <5>2. CASE ~RunsOut(c)
          <6>1. st'[c] = st[c]
            BY <2>2, <5>2 DEF applyRemoteToValve, CloseIn
          <6>2. st[c].Flag \in 0..255
            BY DEF Station
          <6>3. QED
            BY <5>2, <6>1, <6>2 DEF RunsOut
        <5>3. QED
          BY <5>1, <5>2
      <4>2. QED
        BY <2>2, <4>1 DEF applyRemoteToValve
    <3>3. QED
      BY <2>2, <3>1, <3>2 DEF applyRemoteToValve
  <2>3. ASSUME NEW k \in 0..NChan, PowerLoss(k) PROVE TypeOK'
    <3>1. ee' \in [Chan -> Station]
      BY <2>3, CloseInType DEF PowerLoss
    <3>2. [c \in Chan |-> Closed] \in [Chan -> Station]
      BY RecordTypes
    <3>3. st' \in [Chan -> Station] /\ pool' \in [Chan -> Station]
      BY <2>3, <3>2 DEF PowerLoss
    <3>4. pin' \in [Chan -> 0..1]
      BY <2>3 DEF PowerLoss
    <3>5. QED
      BY <2>3, <3>1, <3>3, <3>4 DEF PowerLoss
  <2>4. CASE Boot
    BY <2>4 DEF Boot
  <2>5. CASE Tick
    BY <2>5, LaterType DEF Tick
  <2>6. CASE UNCHANGED vars
    BY <2>6 DEF vars
  <2>7. CASE StorePool
    BY <2>7, StorePoolType DEF StorePool
  <2>8. QED
    BY <2>1, <2>2, <2>3, <2>4, <2>5, <2>6, <2>7 DEF Next
<1>3. QED
  BY <1>1, <1>2, PTL DEF Spec

-----------------------------------------------------------------------------
\* A record that is open for some duration at most.
OpenUntil(r) == r.Flag = 1 => \E t \in Durations : r.Stop_time <= t

\* As time goes by no record is open for longer.
LEMMA OpenUntilLater ==
    ASSUME NEW r \in Station, NEW q \in Station, OpenUntil(r),
           q.Flag = r.Flag, q.Stop_time <= r.Stop_time
    PROVE  OpenUntil(q)
<1>1. ASSUME NEW t \in Durations, r.Stop_time <= t PROVE q.Stop_time <= t
  <2>1. r.Stop_time \in Int /\ q.Stop_time \in Int /\ t \in Int
    BY ArgAssumption DEF Station, Past
  <2>2. QED
    BY <1>1, <2>1
<1>2. QED
  BY <1>1 DEF OpenUntil

\* Closing channels opens none.
LEMMA CloseInOpenUntil ==
    ASSUME NEW S, NEW f \in [Chan -> Station], NEW c \in Chan, OpenUntil(f[c])
    PROVE  OpenUntil(CloseIn(S, f)[c])
BY DEF CloseIn, OpenUntil, Closed

\* The record slot c would be if pool's Flag were written over it.
Flagged(p, r) == [r EXCEPT !.Flag = p.Flag]

\* No channel is open, in RAM or in flash, for longer than the longest
\* duration a request may ask for: restarts, commands stored in another
\* channel's slot and slots put back as they were at the last restart included.
\* The invariant bounds what pool would put back, too, and the mix of an old
\* Flag and a newer time that it makes of slot 2.
THEOREM OpenTimeIsBounded ==
    ASSUME LevelSums = {}
    PROVE  Spec => []OpenTimeBounded
<1> DEFINE Bounded == \A c \in Chan :
             /\ OpenUntil(st[c]) /\ OpenUntil(ee[c])
             /\ OpenUntil(pool[c])
             /\ c = 2 => OpenUntil(Flagged(pool[c], ee[c]))
<1>1. Init => Bounded
  BY DEF Init, OpenUntil, Closed, Erased, Flagged
<1>2. TypeOK /\ Bounded /\ [Next]_vars => Bounded'
  <2> SUFFICES ASSUME TypeOK, Bounded, [Next]_vars, NEW c \in Chan
               PROVE  /\ OpenUntil(st'[c]) /\ OpenUntil(ee'[c])
                      /\ OpenUntil(pool'[c])
                      /\ c = 2 => OpenUntil(Flagged(pool'[c], ee'[c]))
    BY DEF OpenUntil, Flagged
  <2> DEFINE Goal == /\ OpenUntil(st'[c]) /\ OpenUntil(ee'[c])
                     /\ OpenUntil(pool'[c])
                     /\ c = 2 => OpenUntil(Flagged(pool'[c], ee'[c]))
  <2>0. /\ st \in [Chan -> Station] /\ ee \in [Chan -> Station]
        /\ pool \in [Chan -> Station]
    BY DEF TypeOK
  <2>1. ASSUME NEW d \in Chan, NEW en \in EnArgs, NEW t \in Durations,
               handleRunOnce(d, en, t)
        PROVE  Goal
    <3> DEFINE cmd == [Flag |-> en, Stop_time |-> t]
    <3>1. OpenUntil(cmd)
      BY <2>0, ArgAssumption DEF OpenUntil
    <3>2. (st'[c] = cmd \/ st'[c] = st[c]) /\ (ee'[c] = cmd \/ ee'[c] = ee[c])
      BY <2>0, <2>1, StatnIsChannel DEF handleRunOnce
    <3>3. pool' = pool
      BY <2>1 DEF handleRunOnce
    <3>4. c = 2 => ee'[c] = ee[c]
      BY <2>0, <2>1, StatnIsChannel DEF handleRunOnce, statn
    <3>5. QED
      BY <3>1, <3>2, <3>3, <3>4
  <2>2. ASSUME NEW S, ee' = CloseIn(S, ee)
        PROVE  /\ OpenUntil(ee'[c])
               /\ c = 2 => OpenUntil(Flagged(pool[c], ee'[c]))
    <3>1. CASE ee'[c] = ee[c]
      BY <3>1
    <3>2. CASE ee'[c] = Closed
      <4>1. ASSUME c = 2, pool[c].Flag = 1
            PROVE  \E t \in Durations : Past <= t
        <5>1. \E t \in Durations : ee[c].Stop_time <= t
          BY <2>0, <4>1 DEF OpenUntil, Flagged, Station
        <5>2. QED
          BY <5>1, ArgAssumption DEF Past
      <4>2. QED
        BY <3>2, <4>1 DEF OpenUntil, Flagged, Closed
    <3>3. QED
      BY <2>2, <3>1, <3>2 DEF CloseIn
  <2>3. CASE applyRemoteToValve
    BY <2>0, <2>2, <2>3, CloseInOpenUntil DEF applyRemoteToValve
  <2>4. ASSUME NEW k \in 0..NChan, PowerLoss(k)
        PROVE  Goal
    <3>1. OpenUntil(ee'[c])
      BY <2>2, <2>4 DEF PowerLoss
    <3>2. st'[c] = Closed /\ pool'[c] = Closed
      BY <2>4 DEF PowerLoss
    <3>3. QED
      BY <3>1, <3>2 DEF OpenUntil, Flagged, Closed
  <2>5. CASE StorePool
    <3>1. pool' = pool
      BY <2>5 DEF StorePool
    <3>2. ee'[c] = pool[c] \/ ee'[c] = ee[c] \/ (c = 2 /\ ee'[c] = Flagged(pool[c], ee[c]))
      BY <2>5, <3>1 DEF StorePool, Covered, Flagged
    <3>3. c = 2 => ee'[c] = Flagged(pool[c], ee[c])
      BY <2>5, <3>1 DEF StorePool, Covered, Flagged
    <3>4. c = 2 => Flagged(pool[c], ee'[c]) = ee'[c]
      BY <2>0, <3>3 DEF Flagged, Station
    <3>5. st' = st
      BY <2>5 DEF StorePool
    <3>6. QED
      BY <3>1, <3>2, <3>3, <3>4, <3>5
  <2>6. CASE Boot
    <3>1. Flagged(ee[c], ee[c]) = ee[c]
      BY <2>0 DEF Flagged, Station
    <3>2. QED
      BY <2>6, <3>1 DEF Boot
  <2>7. CASE Tick
    <3>1. st' = Later(st) /\ ee' = Later(ee) /\ pool' = Later(pool)
      BY <2>7 DEF Tick
    <3>2. /\ st'[c] \in Station /\ ee'[c] \in Station /\ pool'[c] \in Station
          /\ st'[c].Flag = st[c].Flag /\ st'[c].Stop_time <= st[c].Stop_time
          /\ ee'[c].Flag = ee[c].Flag /\ ee'[c].Stop_time <= ee[c].Stop_time
          /\ pool'[c].Flag = pool[c].Flag /\ pool'[c].Stop_time <= pool[c].Stop_time
      BY <2>0, <3>1, LaterType
    <3>3. OpenUntil(st'[c]) /\ OpenUntil(ee'[c]) /\ OpenUntil(pool'[c])
      BY <2>0, <3>2, OpenUntilLater
    <3>4. ASSUME c = 2 PROVE OpenUntil(Flagged(pool'[c], ee'[c]))
      <4> DEFINE r == Flagged(pool[c], ee[c])
                 q == Flagged(pool'[c], ee'[c])
      <4>1. r \in Station /\ q \in Station /\ OpenUntil(r)
        BY <2>0, <3>2, <3>4 DEF Flagged, Station
      <4>2. q.Flag = r.Flag /\ q.Stop_time <= r.Stop_time
        BY <2>0, <3>2 DEF Flagged, Station
      <4>3. QED
        BY <4>1, <4>2, OpenUntilLater
    <3>5. QED
      BY <3>3, <3>4
  <2>8. CASE UNCHANGED vars
    BY <2>8 DEF vars
  <2>9. QED
    BY <2>1, <2>3, <2>4, <2>5, <2>6, <2>7, <2>8 DEF Next
<1>3. Bounded => OpenTimeBounded
  BY DEF OpenTimeBounded, OpenUntil
<1>4. QED
  BY <1>1, <1>2, <1>3, TypeCorrect, PTL DEF Spec

-----------------------------------------------------------------------------
\* A pin goes high only while its channel's own time runs.
THEOREM PinsRiseInTime == Spec => PinRisesInItsTime
<1>1. TypeOK /\ [Next]_vars =>
        [\A c \in Chan : pin[c] = 0 /\ pin'[c] = 1 =>
            st[c].Flag = 1 /\ st[c].Stop_time # Past]_vars
  <2> SUFFICES ASSUME TypeOK, Next, NEW c \in Chan, pin[c] = 0, pin'[c] = 1
               PROVE  st[c].Flag = 1 /\ st[c].Stop_time # Past
    OBVIOUS
  <2>1. CASE applyRemoteToValve
    <3>1. st[c].Flag \in 0..255
      BY DEF TypeOK, Station
    <3>2. st[c].Flag > 0 /\ st'[c].Flag = 1
      BY <2>1 DEF applyRemoteToValve
    <3>3. ~RunsOut(c)
      BY <2>1, <3>2 DEF applyRemoteToValve, CloseIn, Closed
    <3>4. QED
      BY <3>1, <3>2, <3>3 DEF RunsOut
  <2>2. CASE ~applyRemoteToValve
    <3>1. pin' = pin \/ pin' = [d \in Chan |-> 0]
      BY <2>2 DEF Next, handleRunOnce, StorePool, PowerLoss, Boot, Tick
    <3>2. QED
      BY <3>1
  <2>3. QED
    BY <2>1, <2>2
<1>2. QED
  BY <1>1, TypeCorrect, PTL DEF Spec, PinRisesInItsTime

\* A high pin has a channel that will take it low, or the latest request for
\* it said en=0; the invariant adds that a unit without power drives none.
THEOREM OpenPinsAreTimed == Spec => []OpenPinIsTimed
<1> DEFINE OffIsLow == ~up => \A c \in Chan : pin[c] = 0
<1> DEFINE Timed == OpenPinIsTimed /\ OffIsLow
<1>1. Init => Timed
  BY DEF Init, OpenPinIsTimed
<1>2. TypeOK /\ Timed /\ [Next]_vars => Timed'
  <2> SUFFICES ASSUME TypeOK, Timed, [Next]_vars PROVE Timed'
    OBVIOUS
  <2> USE DEF OpenPinIsTimed
  <2>1. ASSUME NEW c \in Chan, NEW en \in EnArgs, NEW t \in Durations,
               handleRunOnce(c, en, t)
        PROVE  Timed'
    <3>1. ASSUME NEW d \in Chan, pin'[d] = 1
          PROVE  st'[d].Flag > 0 \/ d \in zeroed'
      <4>1. CASE d = c
        <5>1. st'[d].Flag = en
          BY <2>1, <4>1 DEF handleRunOnce, TypeOK
        <5>2. en > 0 \/ d \in zeroed'
          BY <2>1, <4>1, ArgAssumption DEF handleRunOnce
        <5>3. QED
          BY <5>1, <5>2
      <4>2. CASE d # c
        BY <2>1, <3>1, <4>2 DEF handleRunOnce, TypeOK
      <4>3. QED
        BY <4>1, <4>2
    <3>2. QED
      BY <2>1, <3>1 DEF handleRunOnce
  <2>2. CASE applyRemoteToValve
    <3>1. ASSUME NEW d \in Chan, pin'[d] = 1 PROVE st'[d].Flag > 0 \/ d \in zeroed'
      <4>1. CASE st[d].Flag > 0
        BY <2>2, <3>1, <4>1 DEF applyRemoteToValve
      <4>2. CASE ~(st[d].Flag > 0)
        BY <2>2, <3>1, <4>2 DEF applyRemoteToValve
      <4>3. QED
        BY <4>1, <4>2
    <3>2. QED
      BY <2>2, <3>1 DEF applyRemoteToValve
  <2>3. ASSUME NEW k \in 0..NChan, PowerLoss(k) PROVE Timed'
    BY <2>3 DEF PowerLoss
  <2>4. CASE Boot
    BY <2>4 DEF Boot
  <2>5. CASE Tick
    <3>1. \A c \in Chan : st'[c].Flag = st[c].Flag
      BY <2>5, LaterType DEF Tick, TypeOK
    <3>2. QED
      BY <2>5, <3>1 DEF Tick
  <2>6. CASE UNCHANGED vars
    BY <2>6 DEF vars
  <2>7. CASE StorePool
    BY <2>7 DEF StorePool
  <2>8. QED
    BY <2>1, <2>2, <2>3, <2>4, <2>5, <2>6, <2>7 DEF Next
<1>3. QED
  BY <1>1, <1>2, TypeCorrect, PTL DEF Spec
=============================================================================
