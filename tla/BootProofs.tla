----------------------------- MODULE BootProofs -----------------------------
(***************************************************************************)
(* The two bytes tell the next boot the truth, whatever the number of      *)
(* tries, the size of a count and the order of faults: eecode is the       *)
(* outcome of the last boot and ntimes is less than the number of boots in *)
(* a row that had it.  From this follows that the configuration and the    *)
(* fixed address are given up only after that many failures.               *)
(***************************************************************************)
EXTENDS Boot, TLAPS

\* A count of repetitions never gets ahead of the repetitions.
LEMMA IncBounds ==
    ASSUME NEW b \in Bytes
    PROVE  Inc(b) \in Bytes /\ Inc(b) <= b + 1
BY TryAssumption DEF Inc, Bytes

\* What EEPROMk commits is well typed and carries the code it was given.
LEMMA EEPROMkResult ==
    ASSUME NEW m \in Memory, NEW ind \in Codes, ntimes \in Bytes
    PROVE  /\ EEPROMk(m, ind) \in Memory
           /\ EEPROMk(m, ind).code = ind
           /\ EEPROMk(m, ind).conf = m.conf
           /\ EEPROMk(m, ind).times = IF ind = eecode THEN Inc(ntimes) ELSE 0
<1>1. (IF ind = eecode THEN Inc(ntimes) ELSE 0) \in Bytes
  BY IncBounds, TryAssumption DEF Bytes
<1>2. QED
  BY <1>1 DEF EEPROMk, Memory

Waiting == {"config", "parse", "wifi", "ntp", "log"}

\* The types the proofs need; fixedIp and the counters do not matter to them.
Types ==
    /\ pc \in {"off", "begin", "loop"} \cup Waiting
    /\ flash \in Memory /\ buf \in Memory
    /\ eecode \in Codes /\ ntimes \in Bytes
    /\ file \in Files
    /\ last \in Codes /\ row \in 1..MaxRow

\* flash as EEPROMk(ind) has left its two bytes in this boot.
Recorded(m, ind) ==
    /\ m.code = ind
    /\ m.times = IF ind = eecode THEN Inc(ntimes) ELSE 0

\* The inductive invariant.  Between two boots the bytes in flash tell the last
\* outcome, during one eecode and ntimes do, and flash holds what would be told
\* if this boot died now.
Told ==
    /\ pc = "off" => flash.code = last /\ flash.times < row
    /\ pc # "off" => eecode = last /\ ntimes < row
    /\ pc = "begin" => flash.code = eecode /\ flash.times = ntimes
    /\ pc \in Waiting => Recorded(flash, 3)
    /\ pc = "loop" => Recorded(flash, 0) /\ Recorded(buf, 0)
    /\ pc = "config" => Recorded(buf, 3)
    /\ pc # "off" => buf.conf \in {"erased", flash.conf}
    /\ pc \in {"ntp", "log", "loop"} /\ ~fixedIp => eecode = 4 /\ ntimes > MaxTries

IInv == Types /\ Told

\* A new unit has told nothing yet.
LEMMA InitIInv == Init => IInv
BY TryAssumption, RowAssumption
   DEF Init, IInv, Types, Told, Memory, Bytes, Codes, Configs, Waiting

\* When a boot ends with outcome o and its bytes are recorded, the next one is
\* told the truth.
LEMMA OffTellsTruth ==
    ASSUME Types, eecode = last, ntimes < row, Off(buf'.code), buf' = flash',
           Recorded(flash', flash'.code), flash' \in Memory, file' = file
    PROVE  IInv'
<1>1. row' \in 1..MaxRow /\ last' = flash'.code /\ pc' = "off"
  BY RowAssumption DEF Types, Off
<1>2. flash'.times < row'
  <2>1. CASE flash'.code = last
    <3>1. flash'.times = Inc(ntimes) /\ Inc(ntimes) \in Bytes /\ Inc(ntimes) <= ntimes + 1
      BY <2>1, IncBounds DEF Recorded, Types
    <3>2. CASE row < MaxRow
      BY <2>1, <3>1, <3>2, RowAssumption DEF Off, Types, Bytes
    <3>3. CASE ~(row < MaxRow)
      <4>1. row' = MaxRow
        BY <2>1, <3>3, RowAssumption DEF Off, Types
      <4>2. QED
        BY <3>1, <4>1, RowAssumption, TryAssumption DEF Bytes
    <3>4. QED
      BY <3>2, <3>3
  <2>2. CASE flash'.code # last
    BY <2>2 DEF Recorded, Off
  <2>3. QED
    BY <2>1, <2>2
<1>3. Types'
  BY <1>1 DEF Types, Off, Memory
<1>4. QED
  BY <1>1, <1>2, <1>3 DEF IInv, Told, Waiting

\* restart(ind) from any point of a boot.
LEMMA RestartTellsTruth ==
    ASSUME NEW ind \in Codes, IInv, pc # "off", restart(ind), file' = file
    PROVE  IInv'
<1>1. EEPROMk(buf, ind) \in Memory /\ Recorded(EEPROMk(buf, ind), ind)
  BY EEPROMkResult DEF IInv, Types, Recorded
<1>2. flash' \in Memory /\ buf' = flash' /\ flash'.code = ind /\ Recorded(flash', ind)
  BY <1>1 DEF restart, Recorded
<1>3. eecode' = eecode /\ ntimes' = ntimes
  BY DEF restart, Off
<1>4. QED
  BY <1>2, <1>3, OffTellsTruth DEF restart, IInv, Told, Recorded

\* A reset that records nothing, before EEPROMk(3) or after it.
LEMMA DieTellsTruth ==
    ASSUME IInv, Die, file' = file
    PROVE  IInv'
<1>1. CASE pc = "begin"
  BY <1>1 DEF Die, IInv, Told, Types, history, ram, Waiting
<1>2. ASSUME NEW ind \in Codes, Recorded(flash, ind), pc # "off", Off(ind)
      PROVE  IInv'
  <2>1. flash' = flash /\ buf' = flash /\ flash'.code = ind
    BY <1>2 DEF Die, Recorded
  <2>2. QED
    BY <1>2, <2>1, OffTellsTruth DEF IInv, Told, Types, Recorded
<1>3. QED
  BY <1>1, <1>2 DEF Die, IInv, Told, Types, Waiting, Codes

-----------------------------------------------------------------------------
\* Every step keeps the invariant.
LEMMA NextIInv == IInv /\ [Next]_vars => IInv'
<1> SUFFICES ASSUME IInv, [Next]_vars PROVE IInv'
  OBVIOUS
<1>1. ASSUME NEW button \in BOOLEAN, Begin(button) PROVE IInv'
  <2>1. buf' \in Memory
    BY <1>1 DEF Begin, IInv, Types, Memory, Configs
  <2>2. QED
    BY <1>1, <2>1 DEF Begin, IInv, Types, Told, Memory, Recorded, Waiting, history, env
<1>2. CASE NoSpiffs
  BY <1>2, RestartTellsTruth DEF NoSpiffs, Codes
<1>3. CASE Mount
  <2>1. buf' \in Memory /\ Recorded(buf', 3)
    BY <1>3, EEPROMkResult DEF Mount, IInv, Types, Recorded, Codes
  <2>2. QED
    BY <1>3, <2>1 DEF Mount, IInv, Types, Told, Recorded, Waiting, ram, history, env
<1>4. CASE LoadConfig
  <2>1. buf' \in Memory /\ flash' \in Memory
    BY <1>4, ConfigAssumption DEF LoadConfig, IInv, Types, Memory, Configs, env
  <2>2. flash'.code = flash.code /\ flash'.times = flash.times
    BY <1>4 DEF LoadConfig, IInv, Types, Told, Memory, Recorded
  <2>3. buf'.conf \in {"erased", flash'.conf}
    BY <1>4 DEF LoadConfig, IInv, Types, Told, Memory
  <2>4. Types' /\ eecode' = eecode /\ ntimes' = ntimes /\ pc = "config" /\ pc' = "parse"
    BY <1>4, <2>1 DEF LoadConfig, IInv, Types, Waiting, ram, history, env
  <2>5. QED
    BY <1>4, <2>2, <2>3, <2>4
       DEF LoadConfig, IInv, Told, Recorded, Waiting, history
<1>5. CASE ParseCrashes
  BY <1>5, DieTellsTruth DEF ParseCrashes, env
<1>6. CASE Parse
  BY <1>6 DEF Parse, IInv, Types, Told, Recorded, Waiting, ram, history, env
<1>7. CASE WifiConnects
  BY <1>7 DEF WifiConnects, KeepFixedIp, IInv, Types, Told, Recorded, Waiting,
              history, env
<1>8. CASE WifiTimesOut
  BY <1>8, RestartTellsTruth DEF WifiTimesOut, Codes, env
<1>9. CASE NtpAnswers
  BY <1>9 DEF NtpAnswers, IInv, Types, Told, Recorded, Waiting, ram, history, env
<1>10. CASE NtpSilent
  <2>1. CASE restart(5)
    BY <1>10, <2>1, RestartTellsTruth DEF NtpSilent, Codes, env
  <2>2. CASE UNCHANGED <<pc, flash, buf, eecode, ntimes, fixedIp, history>>
    BY <1>10, <2>2 DEF NtpSilent, IInv, Types, Told, Recorded, history, env
  <2>3. QED
    BY <1>10, <2>1, <2>2 DEF NtpSilent
<1>11. CASE NoLogFile
  BY <1>11, RestartTellsTruth DEF NoLogFile, Codes, env
<1>12. CASE SetupDone
  <2>1. buf' \in Memory /\ Recorded(buf', 0)
    BY <1>12, EEPROMkResult DEF SetupDone, IInv, Types, Recorded, Codes
  <2>2. QED
    BY <1>12, <2>1 DEF SetupDone, IInv, Types, Told, Recorded, Waiting, ram, history, env
<1>13. CASE PowerCut
  BY <1>13, DieTellsTruth DEF PowerCut
<1>14. CASE handleReset
  <2> DEFINE m == [code |-> 0, times |-> 0, conf |-> "erased"]
  <2>1. m \in Memory
    BY TryAssumption DEF Memory, Codes, Bytes, Configs
  <2>2. EEPROMk(m, 0) \in Memory /\ Recorded(EEPROMk(m, 0), 0)
    BY <2>1, EEPROMkResult DEF IInv, Types, Recorded, Codes
  <2>3. QED
    BY <1>14, <2>2, OffTellsTruth
       DEF handleReset, IInv, Types, Told, Recorded, Off, env
<1>15. ASSUME NEW c \in Edits, handleLogRule(c) PROVE IInv'
  <2>1. buf' \in Memory /\ flash' = buf'
    BY <1>15, ConfigAssumption DEF handleLogRule, IInv, Types, Memory, Configs
  <2>2. QED
    BY <1>15, <2>1 DEF handleLogRule, IInv, Types, Told, Recorded, Waiting, ram, history
<1>16. CASE handleRestart
  BY <1>16, DieTellsTruth DEF handleRestart, env
<1>17. CASE UNCHANGED vars
  BY <1>17 DEF vars, IInv, Types, Told, Recorded, ram, history, env
<1>18. QED
  BY <1>1, <1>2, <1>3, <1>4, <1>5, <1>6, <1>7, <1>8, <1>9, <1>10, <1>11, <1>12,
     <1>13, <1>14, <1>15, <1>16, <1>17 DEF Next, Setup

\* Together: what flash holds is always what would be told of this boot.
LEMMA Invariance == Spec => []IInv
BY InitIInv, NextIInv, PTL DEF Spec

\* The type invariant: the invariant above, and the variables it does not need.
THEOREM TypeCorrect == Spec => []TypeOK
<1> DEFINE Others == /\ fixedIp \in BOOLEAN /\ attempt \in 0..1
                     /\ faults \in 0..MaxFaults /\ edits \in 0..MaxEdits
<1>1. Init => Others
  <2>1. Init => fixedIp \in BOOLEAN
    BY Zenon DEF Init
  <2>2. Init => attempt \in 0..1 /\ faults \in 0..MaxFaults /\ edits \in 0..MaxEdits
    BY BoundAssumption DEF Init
  <2>3. QED
    BY <2>1, <2>2
<1>2. IInv /\ Others /\ [Next]_vars => Others'
  <2> SUFFICES ASSUME Others, [Next]_vars PROVE Others'
    OBVIOUS
  <2>1. fixedIp' \in BOOLEAN
    BY ZenonT(30)
       DEF Next, Setup, Begin, NoSpiffs, Mount, LoadConfig, ParseCrashes, Parse,
           WifiConnects, KeepFixedIp, WifiTimesOut, NtpAnswers, NtpSilent, NoLogFile,
           SetupDone, PowerCut, handleReset, handleLogRule, handleRestart, Die,
           restart, Off, ram, vars
  <2>4. attempt' \in 0..1
    BY DEF Next, Setup, Begin, NoSpiffs, Mount, LoadConfig, ParseCrashes, Parse,
           WifiConnects, WifiTimesOut, NtpAnswers, NtpSilent, NoLogFile,
           SetupDone, PowerCut, handleReset, handleLogRule, handleRestart, Die,
           restart, Off, ram, vars
  <2>2. faults' \in 0..MaxFaults /\ edits' \in 0..MaxEdits
    BY BoundAssumption
       DEF Next, Setup, Begin, NoSpiffs, Mount, LoadConfig, ParseCrashes, Parse,
           WifiConnects, WifiTimesOut, NtpAnswers, NtpSilent, NoLogFile, SetupDone,
           PowerCut, handleReset, handleLogRule, handleRestart, env, vars
  <2>3. QED
    BY <2>1, <2>2, <2>4
<1>3. IInv /\ Others => TypeOK
  BY DEF IInv, Types, TypeOK, Waiting
<1>4. QED
  BY <1>1, <1>2, <1>3, Invariance, PTL DEF Spec

-----------------------------------------------------------------------------
\* The fixed address is left out only after more than MaxTries + 1 boots in a
\* row that could not connect.
THEOREM FixedIpNotDroppedEarly == Spec => []FixedIpDroppedLate
<1>1. IInv => FixedIpDroppedLate
  <2> SUFFICES ASSUME IInv, pc \in {"ntp", "log", "loop"}, ~fixedIp
               PROVE  last = 4 /\ row > MaxTries + 1
    BY DEF FixedIpDroppedLate
  <2>1. eecode = 4 /\ ntimes > MaxTries /\ eecode = last /\ ntimes < row
    BY DEF IInv, Told
  <2>2. ntimes \in Nat /\ row \in Nat /\ MaxTries \in Nat
    BY TryAssumption, RowAssumption DEF IInv, Types, Bytes
  <2>3. QED
    BY <2>1, <2>2
<1>2. QED
  BY <1>1, Invariance, PTL

\* A boot changes the stored configuration only if it was erased, or if more
\* than MaxTries boots in a row have died without recording an outcome.
THEOREM ConfigNotGivenUpEarly == Spec => ConfigGivenUpLate
<1>1. IInv /\ [Next]_vars =>
        [\/ buf.conf = "erased" \/ buf'.conf = buf.conf
         \/ pc \in {"off", "loop"}
         \/ last = 3 /\ row > MaxTries]_vars
  <2> SUFFICES ASSUME IInv, Next, buf.conf # "erased", pc \notin {"off", "loop"}
               PROVE  buf'.conf = buf.conf \/ (last = 3 /\ row > MaxTries)
    OBVIOUS
  <2>0. buf \in Memory /\ flash \in Memory
    BY DEF IInv, Types
  <2>1. CASE LoadConfig
    <3>1. CASE GiveUpConfig
      <4>1. eecode = 3 /\ eecode = last /\ ntimes < row /\ buf.times > MaxTries
        BY <2>1, <3>1 DEF LoadConfig, GiveUpConfig, IInv, Told
      <4>2. buf.times = Inc(ntimes) /\ Inc(ntimes) <= ntimes + 1
        BY <2>1, <4>1, IncBounds DEF LoadConfig, IInv, Types, Told, Recorded
      <4>3. ntimes \in Nat /\ row \in Nat /\ buf.times \in Nat /\ MaxTries \in Nat
        BY <2>0, TryAssumption, RowAssumption DEF IInv, Types, Bytes, Memory
      <4>4. QED
        BY <4>1, <4>2, <4>3
    <3>2. CASE ~GiveUpConfig
      BY <2>0, <2>1, <3>2 DEF LoadConfig, Memory
    <3>3. QED
      BY <3>1, <3>2
  <2>2. ASSUME NEW ind \in Codes, buf' = EEPROMk(buf, ind)
        PROVE  buf'.conf = buf.conf
    BY <2>0, <2>2, EEPROMkResult DEF IInv, Types
  <2>3. CASE Die
    BY <2>3 DEF Die, IInv, Told
  <2>4. CASE NoSpiffs \/ Mount \/ WifiTimesOut \/ NoLogFile \/ SetupDone
    BY <2>2, <2>4
       DEF NoSpiffs, Mount, WifiTimesOut, NoLogFile, SetupDone, restart, Codes
  <2>5. CASE NtpSilent
    BY <2>2, <2>5 DEF NtpSilent, restart, Codes
  <2>6. CASE Parse \/ WifiConnects \/ NtpAnswers
    BY <2>6 DEF Parse, WifiConnects, NtpAnswers
  <2>7. QED
    BY <2>1, <2>3, <2>4, <2>5, <2>6
       DEF Next, Setup, Begin, PowerCut, ParseCrashes, handleReset, handleLogRule,
           handleRestart
<1>2. QED
  BY <1>1, Invariance, PTL DEF ConfigGivenUpLate, Spec
=============================================================================
