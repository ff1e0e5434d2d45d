-------------------------------- MODULE Boot --------------------------------
(***************************************************************************)
(* setup() of SensorServer.ino and the two bytes by which one boot tells   *)
(* the next how it went.  EEPROM[0] is the code of the last outcome:       *)
(*                                                                         *)
(*    0 past setup   2 no SPIFFS   3 configuration not read                *)
(*    4 no connection   5 no NTP   6 no log file                           *)
(*                                                                         *)
(* and EEPROM[1] counts how often it has come up in a row.  setup() reads  *)
(* both once into eecode and ntimes and changes what it does when a code   *)
(* has repeated more than MaxTries times: after 3 it drops the             *)
(* configuration kept in EEPROM and copies /config.txt over it, after 4 it *)
(* does not use the fixed IP address.                                      *)
(*                                                                         *)
(* EEPROM.write changes the RAM copy buf; only EEPROM.commit makes it the  *)
(* contents of flash, which is what a reset leaves.                        *)
(***************************************************************************)
EXTENDS Integers

CONSTANTS
    MaxTries,       \* the 10 of "EEPROM.read(1)>10" and "ntimes>10"
    ByteMod,        \* 256: EEPROM[1] is a byte
    MaxRow,         \* bound: the history variable row counts up to here
    MaxFaults,      \* bound: power cuts and mount failures in one behaviour
    MaxEdits,       \* bound: configuration edits in one behaviour
    Edits,          \* what /logrule may turn the configuration into
    Files           \* what /config.txt may hold

Configs == {"erased", "default", "edited", "crashing", "wrongnet"}

ASSUME TryAssumption == MaxTries \in Nat /\ ByteMod \in Nat /\ MaxTries + 1 < ByteMod
ASSUME RowAssumption == MaxRow \in Nat /\ ByteMod <= MaxRow
ASSUME BoundAssumption == MaxFaults \in Nat /\ MaxEdits \in Nat
ASSUME ConfigAssumption ==
    /\ Edits \subseteq Configs \ {"erased"}
    /\ Files \subseteq {"none", "default", "crashing"}

VARIABLES
    pc,             \* how far setup() is; "off" between a reset and the next boot
    flash,          \* committed code, times and configuration
    buf,            \* EEPROM's copy of them in RAM
    eecode, ntimes, \* EEPROM[0] and EEPROM[1] as setup() found them
    fixedIp,        \* WiFi.config was called
    attempt,        \* parity of the NTP requests of SyncNPT
    file,           \* /config.txt
    last, row,      \* history: outcome of the last boot, and its repetitions
    faults, edits     \* counters for the bounds MaxFaults and MaxEdits

ram == <<eecode, ntimes, fixedIp, attempt>>
history == <<last, row>>
env == <<file, faults, edits>>
vars == <<pc, flash, buf, ram, history, env>>

Codes == {0, 2, 3, 4, 5, 6, 255}
Bytes == 0..(ByteMod - 1)
Memory == [code : Codes, times : Bytes, conf : Configs]

\* A new unit: erased flash, or one the configuration file was copied into.
Init ==
    /\ pc = "off"
    /\ flash \in [code : {255}, times : {ByteMod - 1}, conf : {"erased"}]
    /\ buf = flash
    /\ eecode = 255 /\ ntimes = 0
    /\ fixedIp = FALSE /\ attempt = 0
    /\ file \in Files
    /\ last = 255 /\ row = ByteMod
    /\ faults = 0 /\ edits = 0

-----------------------------------------------------------------------------
Inc(b) == IF b + 1 = ByteMod THEN 0 ELSE b + 1        \* b++ on a byte

\* Mutants: the count is not kept to a byte; it starts again with every boot.
EEPROMk_wide(m, ind) ==
    [m EXCEPT !.code = ind,
              !.times = IF ind = eecode THEN ntimes + 1 ELSE 0]
EEPROMk_forgets(m, ind) == [m EXCEPT !.code = ind, !.times = 0]

(* EEPROMk(ind), the only writer of the two bytes besides handleReset: m   *)
(* is the buffer it works on, the result what is committed.                *)
EEPROMk(m, ind) ==
    [m EXCEPT !.code = ind,
              !.times = IF ind = eecode THEN Inc(ntimes) ELSE 0]

(* The boot is over with outcome o: the RAM is lost, what was written but  *)
(* not committed too.  history is for the properties only.                 *)
Off(o) ==
    /\ pc' = "off"
    /\ last' = o
    /\ row' = IF o # last THEN 1 ELSE IF row < MaxRow THEN row + 1 ELSE row
    /\ fixedIp' = FALSE /\ attempt' = 0
    /\ UNCHANGED <<eecode, ntimes>>

restart(ind) ==
    /\ flash' = EEPROMk(buf, ind)
    /\ buf' = flash'
    /\ Off(ind)

\* Reset by a power cut, a watchdog or a crash: nothing more is committed.  A
\* boot that has passed EEPROMk(3) goes by the code 3, one in loop() by 0, and
\* one that has done neither leaves no trace.
Die ==
    /\ buf' = flash
    /\ \/ pc = "begin" /\ pc' = "off" /\ UNCHANGED <<history, ram>>
       \/ pc \in {"config", "parse", "wifi", "ntp", "log"} /\ Off(3)
       \/ pc = "loop" /\ Off(0)
    /\ UNCHANGED flash

PowerCut ==
    /\ pc # "off"
    /\ faults < MaxFaults
    /\ faults' = faults + 1
    /\ Die
    /\ UNCHANGED <<file, edits>>

-----------------------------------------------------------------------------
(* setup() *)

\* EEPROM.begin, the two bytes, and the flash button on pin 0.
Begin(button) ==
    /\ pc = "off"
    /\ pc' = "begin"
    /\ buf' = IF button THEN [flash EXCEPT !.conf = "erased"] ELSE flash
    /\ eecode' = flash.code
    /\ ntimes' = flash.times
    /\ UNCHANGED <<flash, fixedIp, attempt, history, env>>

NoSpiffs ==
    /\ pc = "begin"
    /\ faults < MaxFaults
    /\ faults' = faults + 1
    /\ restart(2)
    /\ UNCHANGED <<file, edits>>

Mount ==
    /\ pc = "begin"
    /\ pc' = "config"
    /\ buf' = EEPROMk(buf, 3)
    /\ flash' = buf'
    /\ UNCHANGED <<ram, history, env>>

GiveUpConfig == eecode = 3 /\ buf.times > MaxTries

\* The rewrite of the configuration is committed as a whole.  With no file the
\* configuration stays erased in buf, and is committed with the next EEPROMk.
LoadConfig ==
    /\ pc = "config"
    /\ pc' = "parse"
    /\ LET conf == IF GiveUpConfig THEN "erased" ELSE buf.conf
       IN IF conf = "erased" /\ file # "none"
          THEN /\ buf' = [buf EXCEPT !.conf = file]
               /\ flash' = buf'
          ELSE /\ buf' = [buf EXCEPT !.conf = conf]
               /\ UNCHANGED flash
    /\ UNCHANGED <<ram, history, env>>

\* A malformed record has strtok return NULL, which the parser reads through;
\* with the record count gone (255) it reads on into whatever follows.
ParseCrashes ==
    /\ pc = "parse"
    /\ buf.conf \in {"erased", "crashing"}
    /\ Die
    /\ UNCHANGED env

Parse ==
    /\ pc = "parse"
    /\ buf.conf # "crashing"
    /\ pc' = "wifi"
    /\ UNCHANGED <<flash, buf, ram, history, env>>

\* Mutant: the number of failures is not asked for.
KeepFixedIp_first == eecode # 4

KeepFixedIp == ~(eecode = 4 /\ ntimes > MaxTries)

WifiConnects ==
    /\ pc = "wifi"
    /\ buf.conf # "wrongnet"
    /\ pc' = "ntp"
    /\ fixedIp' = KeepFixedIp
    /\ UNCHANGED <<flash, buf, eecode, ntimes, attempt, history, env>>

WifiTimesOut ==
    /\ pc = "wifi"
    /\ restart(4)
    /\ UNCHANGED env

\* SyncNPT returns once a request has taken no more than MILLISWAIT.
NtpAnswers ==
    /\ pc = "ntp"
    /\ pc' = "log"
    /\ UNCHANGED <<flash, buf, ram, history, env>>

\* An unanswered request takes MILLISWAIT or longer.  Longer, and SyncNPT
\* asks again; MILLISWAIT to the millisecond, and it returns with no time set.
NtpSilent ==
    /\ pc = "ntp"
    /\ \/ /\ attempt' = 1 - attempt
          /\ UNCHANGED <<pc, flash, buf, eecode, ntimes, fixedIp, history>>
       \/ restart(5)
    /\ UNCHANGED env

NoLogFile ==
    /\ pc = "log"
    /\ restart(6)
    /\ UNCHANGED env

\* Mutant: setup() ends without recording the outcome 0.
SetupDone_unrecorded ==
    /\ pc = "log"
    /\ pc' = "loop"
    /\ UNCHANGED <<flash, buf, ram, history, env>>

SetupDone ==
    /\ pc = "log"
    /\ pc' = "loop"
    /\ buf' = EEPROMk(buf, 0)
    /\ flash' = buf'
    /\ UNCHANGED <<ram, history, env>>

-----------------------------------------------------------------------------
(* loop(): the requests that touch these bytes. *)

\* /rst.  The zeros it commits first are overwritten by restart(0).
handleReset ==
    /\ pc = "loop"
    /\ flash' = EEPROMk([code |-> 0, times |-> 0, conf |-> "erased"], 0)
    /\ buf' = flash'
    /\ Off(0)
    /\ UNCHANGED env

\* /logrule: one commit for the whole edit.
handleLogRule(c) ==
    /\ pc = "loop"
    /\ edits < MaxEdits
    /\ edits' = edits + 1
    /\ buf' = [buf EXCEPT !.conf = c]
    /\ flash' = buf'
    /\ UNCHANGED <<pc, ram, history, file, faults>>

\* /restart
handleRestart ==
    /\ pc = "loop"
    /\ Die
    /\ UNCHANGED env

Setup ==
    \/ \E button \in BOOLEAN : Begin(button)
    \/ NoSpiffs \/ Mount \/ LoadConfig \/ ParseCrashes \/ Parse
    \/ WifiConnects \/ WifiTimesOut \/ NtpAnswers \/ NtpSilent
    \/ NoLogFile \/ SetupDone

Next ==
    \/ Setup
    \/ PowerCut
    \/ handleReset
    \/ \E c \in Edits : handleLogRule(c)
    \/ handleRestart

Spec == Init /\ [][Next]_vars

\* setup() never stops by itself; the network, the time server and the log file
\* each work now and then when they are tried again and again.
Fairness ==
    /\ WF_vars(Setup)
    /\ SF_vars(WifiConnects) /\ SF_vars(NtpAnswers) /\ SF_vars(SetupDone)
FairSpec == Spec /\ Fairness

-----------------------------------------------------------------------------
\* Types of the variables: the outcome codes, and a count that stays a byte.
TypeOK ==
    /\ pc \in {"off", "begin", "config", "parse", "wifi", "ntp", "log", "loop"}
    /\ flash \in Memory /\ buf \in Memory
    /\ eecode \in Codes /\ ntimes \in Bytes
    /\ fixedIp \in BOOLEAN /\ attempt \in 0..1
    /\ file \in Files
    /\ last \in Codes /\ row \in 1..MaxRow
    /\ faults \in 0..MaxFaults /\ edits \in 0..MaxEdits

\* The configuration kept in EEPROM changes during a boot only when it was
\* already erased, or when more than MaxTries boots in a row have died between
\* EEPROMk(3) and a recorded outcome.  At "off" the user may hold the button.
ConfigGivenUpLate ==
    [][\/ buf.conf = "erased" \/ buf'.conf = buf.conf
       \/ pc \in {"off", "loop"}
       \/ last = 3 /\ row > MaxTries]_vars

\* The fixed IP address is left out only after more than MaxTries + 1 boots in
\* a row that could not connect.
FixedIpDroppedLate ==
    pc \in {"ntp", "log", "loop"} /\ ~fixedIp => last = 4 /\ row > MaxTries + 1

\* A unit whose stored configuration makes setup() crash gets running again by
\* itself when /config.txt is sound: the boots fail until the file is copied.
CrashingConfigHeals ==
    (flash.conf = "crashing" /\ file = "default") ~> (pc = "loop")
=============================================================================
