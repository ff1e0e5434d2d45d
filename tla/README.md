# Models of SensorServer

SensorServer is the firmware of an ESP8266 unit that reads sensors, logs what
it reads, computes evapotranspiration (ET0), runs user rules, drives outputs
and answers web requests. It is one Arduino sketch, `src/SensorServer.ino`,
with a few files of its own (`NPTtimeSync1`, `Eeprom_ESP`, `ET_penmam.h`) and
vendored libraries. This directory holds TLA+ models of it, the TLC
configurations that check them and proofs that TLAPS checks.

All line numbers are of `src/SensorServer.ino` unless another file is named;
`bitlashMio.h` is `src/bitlashMio.h`.
The build modelled is the one the sketch's own defines select: `OTA`, `IOT`,
`FIX_IP`, `OS_API`, `TELNET`, `READCONF`, `NO_DELAY`, `NEW_ET0`, `SHORTFILE`;
not `PING_F`, `MYDECODE` or `FTP`.

## The system

There is one thread. `setup()` runs once after every reset; `loop()` then calls
the tasks in turn and each returns at once until `millis()` has reached the
time it noted. Requests are handled by `server.handleClient()` at the end of
each pass, so handlers never overlap with tasks. What makes the code hard is
therefore not threads but **resets**: the power may fail at any point, EEPROM
writes reach flash only with `EEPROM.commit`, and every component keeps part of
its state in RAM and part in EEPROM or in a file. Next come **places shared by
components** (bytes of EEPROM, one log file object, one array of values), a
**32-bit clock**, a second clock that **a time server sets back or on every
hour**, bodies that **take seconds**, and a network that may not answer.

### Inventory

| Component | State | Operations | Talks to | Hard behaviour | Correct when |
|---|---|---|---|---|---|
| Output stations (1922-1938, 2059-2102) | `st[]` in RAM, slots at EEPROM 900, pins | `/cm`, one look per second | clients; level statistics share its EEPROM | restart with slots of other channels, commit per channel, byte `Flag` | no output is open longer than asked, each one closes |
| Rule and configuration store (1940-2058, 2174-2209, 2308-2363) | count, length and text bytes at EEPROM 1000 and 1600 | `/rule`, `/logrule` add, del, rep, list; `/rst`; checks at boot and each minute | rule interpreter, setup | in-place moves through a queue, byte counts, no checks | the bytes are two independent lists |
| Boot (2260-2718, `NPTtimeSync1.cpp`) | EEPROM[0], EEPROM[1], configuration, `/config.txt` | `setup()`, `EEPROMk`, `restart`, `/restart`, button | WiFi, time server, files | a crash is told apart from a sound boot only by what was committed | what is given up (address, configuration) is given up late, and the unit heals |
| Loop schedule (928-946, 2171-2178, 2720-2757; `Time.cpp`:250-284) | `time_sensor`, `ruleCheck`, `next_out_mill`, `sumET0`, the clock of `now()` | one pass | every task, the time server | 32-bit wrap, long bodies, midnight, `now()` set back | never early, never late, a second daily reset only when `now()` was set back |
| Weather ring (268-295, 1066-1132, 2696-2713) | `weather[]`, `iw`, copies in EEPROM | a round of readings, ET0, restore at boot | readings, schedule | two commits per round | a restart loses nothing; gaps are counted once |
| Sensor table and readings (579-606, 946-1117, 2402-2450) | `sensorT`, `pin2`, `param`, `value[]` | `beginSensor`, `readSensors` | rules (`gval`, `sval`), log | values and names meet only by counting | each value is its sensor's |
| Log file (1159-1309, 2232-2249) | `/logs.txt`, the object `logfile`, `time_sensor1` | `recordSensors`, `/sensor` | sensor table | early returns leave the file open; header before open; tables change | lines are true and are kept, replies name them rightly |
| File requests (1466-1619) | files | `/download`, `/edit`, `/del`, `/dir` | log file | chunk arithmetic, in-place moves through two buffers | the end of the file is sent, an edit changes one line |
| Level regression (130-168, 931-991, 2220-2231) | `pool`: sums of the day and what they were after each hour | `levelBegin`, `levelFit`, `/level` | readings, stations' EEPROM | hours of two days, a count of one byte, sums that wrap or pass through floats | a trend is of the readings of its hours |
| Remote stations (1835-1917, 2128-2168) | a connection during a call | `apicom`, `apiget` | other units, from within a rule | no answer, late answer, a request that outlives its caller, units that wait for each other | success is told only of what was run, nothing runs twice or out of order, calls return |
| Rule interpreter (`bitlashMio.h`, `bitlashMio-functions.h`) | value stack and string pool in one array, `arg`, `vars[]` | `espressione`: parses and runs a rule's text | rules, `rep=-1`, functions | mistakes are only printed, and what they leave stays until a restart; strings and stack grow towards each other | a rule does what it means, whatever ran before |
| ThingSpeak, telnet, OTA | none that others read | send, print, update | | | |

## Modules

| Module | Models | Runs |
|---|---|---|
| `OutputStations`, `MCOutputStations` | stations and the part of the level statistics that lies over their slots | `stations`, `stations_level`, `stations_close` |
| `RuleList` | abstract: what the store promises | |
| `RuleStore`, `MCRuleStore` | the store's bytes, shown to implement `RuleList` | `rule_store`, `rule_store_limit` |
| `Boot`, `MCBoot` | `setup()` over any sequence of resets | `boot` |
| `LoopSchedule` | when the tasks run, and what time `now()` says it is | `unit` |
| `LevelSums` | the class `Level`, as functions on its fields | `unit` |
| `Unit`, `MCUnit` | the composition of `LoopSchedule` with the level's sums and an output | `unit` |
| `RemoteStations`, `MCRemoteStations` | the composition of units that call each other and other stations | `remote` |
| `RuleMeaning` | rules as trees, their text and what they mean: the reference of `Interpreter` | |
| `Interpreter`, `MCInterpreter` | the parser, its stack and its string pool | `interpreter` |
| `WeatherRing`, `MCWeatherRing` | the ring of weather readings and its copies | `weather` |
| `SensorLog`, `MCSensorLog` | from the table of sensors to the log and the reply of `/sensor` | `sensor_log` |
| `FileRequests`, `MCFileRequests` | downloads and edits | `files` |
| `OutputStationsProofs`, `RuleStoreProofs`, `BootProofs`, `UnitProofs`, `RemoteStationsProofs`, `WeatherRingProofs`, `LogFileProofs` | theorems about these modules; `UnitProofs` begins with those about `LoopSchedule`, and `LogFileProofs` is about `SensorLog` and `FileRequests` | |
| `SequenceLemmas` | lemmas about parts, concatenation and flattening of sequences and about functions that repeat a step, which the proofs about the store, the unit, the log and the files cite | |

`PROJECT.json` maps every definition to the lines it stands for. Definitions
whose names have a lower-case suffix (`Recorded_delivered`) are mutants: a
plausible bug in the definition of that name, which makes the property it is
listed with fail.

### How state and actions correspond to the code

**OutputStations.** `st` is `st[]`; `ee` is the same records as flash holds
them; `pool` is the part of `pool` that lies over those slots, as words. `pool`
is stored at 500 and is 428 bytes long, the slots begin at 900, so `Covered`
says which bytes of which slot a store of `pool` writes. `handleRunOnce` writes
the slot `statn`, as line 2071 does, whatever the channel. `applyRemoteToValve`
is one action for the whole loop over the channels; `PowerLoss(k)` is the same
loop cut short after channel k, since each close is a commit. `Boot` reads the
slots. `zeroed` is a history variable: the channels whose latest request said
`en=0`, which nothing closes again. Only the difference of a `Stop_time` and
`now()` is ever looked at, so `Stop_time` is kept as the seconds left until it,
`Past` once it is over, and `Tick`, a second, counts all of them down (`Later`).
That leaves no bound on time: requests may come, and renew, for ever.

**RuleStore.** The EEPROM is `mem`; `store` says how it is divided and who sends
requests, and never changes. `GetRule_add`, `GetRule_del` and
`GetRule_rep` are the three branches of `GetRule` down to the order in which
bytes are read and written, with the queue that `rep` moves the rest through.
`CheckCounts` is the judgement of the counts in `setup()`. A `careful` client
names lines that are there and keeps to what fits and to the counts that
`setup()` accepts (`MaxLines`), a `documented` one keeps to the README's limits
only. `Held` are the lists a careful client has; of others nothing is promised,
and theirs stay as on a new unit.

**Boot.** `buf` is the EEPROM library's RAM copy and `flash` what a reset leaves.
`pc` is how far `setup()` is; each action goes from one commit or outcome to the
next. `EEPROMk` is the function of that name, `restart(ind)` and `Die` are the
resets with and without it. `eecode` and `ntimes` are what `setup()` found.

**LoopSchedule.** Each task is an action that either returns (`Skip`) or notes
its next time (`Rearm`) and takes up to `Block` time. `millis` is time modulo
`Wrap`. `clock` is the clock of `now()`: how far `sysTime` is ahead of the time
since the start, and `nextSyncTime`. `Now(c, t)` is what a call of `now()` at
time t returns and leaves. Once `nextSyncTime` has come it asks the time server
and waits; the answer moves `now()` by one of `Corrections`, whole seconds that
may be negative, at the time it arrives, and when none arrives what is returned
is of before the wait. Any body may call `now()` too, so it leaves one of
`Clocks`. `Round` is what `readSensors` does when it is due, the daily reset
(931-935) by its first call of `now()` included.

**LevelSums, Unit.** `pool` is the object of that name: `sum` is `sumX` to
`sumX2`, `S` and `SN` what they and the count were after the last reading of
each hour. A level is a float, so only `sumX` and `sumX2` are sums of longs,
which wrap. `sumY += value` and `sumXY += value * ora` (147-148) make the long a
float, add, round to a float and make that a long again (`Add`): `Float` rounds
to the nearest multiple of the distance that floats have at that size (`Ulp`), of
two to the even one, and `FloatToLong` stays at the last long, as the ESP8266's
libgcc does. Levels are whole numbers (978 assigns `lvalue`, a long). `Readings`
is a round of `readSensors` on a unit with a level sensor: `levelBegin` when the
round begins within an interval of midnight, `levelFit` when the sensor is read,
some time later, with an `ora` that three calls of `now()` make (990): the next
second, or the server's answer, may come between the hour and the rest
(`Oras`). `Outputs` and `Requests` are `applyRemoteToValve` and `handleRunOnce`
on a unit with one output, which both ask `now()`. `OutputStations` has the
channels, flash slots and restarts that `Unit` leaves out, `Unit` the clocks and
the other tasks that `OutputStations` leaves out. `fits` and `lowest` are history
variables: the readings summed up since `levelBegin` or the start, with the sums
they left, and the furthest back that `now()` was set since the command.

**RemoteStations.** `pc` is where each unit's loop is. `Rule_Apply` begins with
the rules; the one that runs may make a `Call` at any time and as often as it
likes, and may or may not come to its end (`RuleEnds`). A call first connects
(`Refused`, `Connected`); the unit then does nothing but wait until `ReadAnswer`
or `GiveUp`, and only after its rules does `handleClient` look at one request of
`backlog`. Attempts to call are not bounded, connections are (`MaxCalls`); when
these are used up every further attempt is refused. A call is a connection of
its own, so what arrives on it later is never read (`Readable`), but its request
stays with the other station. A message gets lost by not being added to
`backlog` or `answers`. What a unit answers to `/cm` has no `:` (2079), so
`apicom` to another unit returns 0 even when the command was run (`UnitForms`);
other stations answer what they like.

**Interpreter.** A run of `espressione` is one step, and within it a record `s`
goes through functions that have the names of the code's and call each other as
those do. A text is a sequence of words `<<sym, symval>>`; a word that begins
with a character no token begins with is `bad`, and `getsym` does not pass it.
`stack` is `vstack`, `vsptr`, `arg`, `stringPool` and `sym`, which outlive a run;
pointers are `Address(i)`. The unit of memory is a word, also for strings, of
which the code packs four characters into one. `Rest` is the loop of all the
levels of operators, `parseargs` that of `parsearglist`. `Patience` counts down
to the watchdog. `Says` is a message on the serial line, the only thing an
error does.

**WeatherRing.** `ring` and `iw` are RAM, `slots` and `index` the copies. A round
is `Read`, `CommitIndex`, `CommitSlot`, as lines 1066-1132 commit, and the power
may fail between any two. `Boot` is lines 2696-2713, where a never written byte
is 255. A reading is its time.

**SensorLog.** A value is the triple of sensor, parameter and round it was
measured for, so the model can tell a shifted value from the right one.
`Delivered` is how far each branch of `readSensors` moves `k`, `Recorded` how
`recordSensors` deals the values out to the table's names, `Tokens` and `TokenOf`
how `strtok` takes a line apart again. `logfile` is the position of the one
file object between calls. Where a search starts is any line: the code seeks by
bytes from the end.

**FileRequests.** Bytes are opaque and distinct. `Chunk` is a pass of the
download's loop with what stays in its buffer; `Move` is a pass of the edit's
loop, and `PowerLossInEdit` an edit that ends after some of them. Both loops are
functions of the number of passes; after as many passes as the file has bytes
there is nothing left to do, which the proofs show. The last block of an edit
comes from `buf[i+1 % 2]`, which is `buf[i+1]`, outside of the two buffers, and
is the value `Garbage`.

## Runs

Passing runs check that the properties hold of all behaviours of a small
instance. The runs `stations_level`, `stations_close` and `rule_store_limit`
each show that the code does not do what a comment of it says.

| Run | Question | Bounds and why they are enough | States |
|---|---|---|---|
| `stations` | Are outputs open only in their time, bounded, timed while they are open, and closed at last, with requests and power losses anywhere? | two channels (one slot is shared, one is not), `en` of 0, 1 and 2, slots that are erased at first, durations of 0 and 2 s; no bound on time or on requests; fair | 184 905 |
| `stations_level` | Same bound on a unit that stores level sums | | violated |
| `stations_close` | Does `en=0` drive the pin low? | | violated |
| `boot` | What is given up, when, and does the unit heal? | one try where the code has ten, a count of two bits so that it wraps, four faults, one edit | 23 810 |
| `rule_store` | Do the bytes implement two lists for a careful client? Does anything leave the EEPROM, can configuration edits reach the rules, for a documented one? | lines of one and two bytes, 8 bytes of rules and 5 of configuration: lists of up to three lines, every growth and shrink; and 6 and 3, which fill to the last byte | 50 654 |
| `rule_store_limit` | Can rule edits reach the configuration? | | violated |
| `unit` | Is a task early or late, the day's sum reset twice, a trend of the wrong readings, an output open for too long? | a unit with a level sensor or with an output; a day of nine time units in three hours, readings every three, rules every six, outputs every two, bodies of up to one, every start time of day; a time server asked every six units, late by one or silent, that moves `now()` by -2 or 1; 13 time units with a wrap of `millis()` at 11; longs of eight bits, floats exact below 16 and distances up to 128, a count of two bits: within the run sums wrap, are rounded and stay at the last long, trends span up to three readings, a second reset of a day happens, and an output closes as late as it may | 1 629 355 |
| `remote` | Is success only told of what was run, are calls run once and in order, do calls return, are requests served? | two units and a third station, a rule each that calls as often as it likes; three connections, so that a call follows one that was given up and calls cross; power losses at any time; fair | 141 902 |
| `interpreter` | Does a rule do what it means, whatever ran before it? | 137 rules: each pair of operators of different levels on either side, every choice around every call, loops and returns, strings that fit and that do not; up to two of 13 mistaken texts between restarts. vsptr begins at 20 as in the code; the stack has 28 words of 256, of which those above 20 are only reached by mistakes | 78 282 |
| `weather` | Does a restart lose readings, is a gap counted from the latest one? | a ring of three, several times around, power failures at every commit, two of them torn | 192 912 |
| `sensor_log` | Are lines true, kept, and named rightly? | two tables of different length, one or two thermometers where the table says one, three rounds: the least in which a restart, a request that stops in the middle and a header can meet | 91 638 |
| `files` | Is the end of the file sent, does an edit move the rest, and what does one lose that the power cuts short? | up to 12 bytes against buffers of 4 and 3, so every end of a line or file meets every end of a buffer | 118 645 |

Deadlock checking is on in every run.

### Fairness

Only `stations`, `boot` and `remote` have liveness properties.
`OutputStations` assumes that the loop goes on calling `applyRemoteToValve` and
that time passes; it assumes nothing of power or the switch. Of clients
`EveryPinCloses` says what it must: whoever renews `en=1` before its time is up,
again and again without end, keeps the output open without end, so the property
is about channels whose requests with `en=1` stop some time.
`RemoteStations` assumes that each unit's loop goes on (weak fairness of
`Pass(u)`), in whatever way its rules have it go: a wait ends by itself since it
is counted. It assumes nothing of the rules, the network, other stations or
power. So `CallsReturn` holds of any rules; `RequestsAreServed` is about units
whose rules come to their end again and again, however many calls they make
before. A rule such as `while(!apicom(..))` that never succeeds has `loop()`
never come to `handleClient`.
`Boot` assumes that `setup()` goes on by itself (weak fairness of its steps) and
that the network, the time server and the log file each work now and then if
they are tried again and again (strong fairness of `WifiConnects`, `NtpAnswers`,
`SetupDone`); they are outside the unit and without them nothing can be said.
No fairness is assumed of power cuts, edits or requests.

### What does not hold

- On a unit that measures a level, what is stored over the station slots passes
  for a command after a restart (`stations_level`).
- `en=0` leaves the output at its level (`stations_close`).
- A longer rule writes behind the rules, over the configuration
  (`rule_store_limit`).

Seen in the code while it was modelled, present in the models, and claimed by
no property: all commands share one flash slot, so a restart may not resume what
was running (2071); after more than ten power cuts within `setup()` the stored
configuration is replaced although it is sound (2349); the count of failures
wraps, and the fixed address that was given up is used again (2264); `del` with
a number past the end takes the last line, and of an empty list makes the count
255 (2033); more than 40 rules are dropped at boot (2310), and a configuration of
255 lines is replaced by that of the file (2351); a power failure
between the commit of the ET0 sum and the reading counts that time twice (1092);
a day may pass without a reading within the interval of midnight and the
"daily" sum goes on, and when the time server sets `now()` back over the first
readings of a day the sum is reset twice, where the comment says "0h first time
of the day" (931); when `millis()` wraps a task may wait for long (2176);
an unanswered time request is repeated without end (`NPTtimeSync1.cpp:26`);
the first line of a log that has no header is never found (1229); a line with
fewer parts than today's table restarts the unit (1289); a download of 2024
bytes or more carries some bytes twice, and README:95 says 20000 bytes where
`MAXSIZ` is 10000; the last block of an edited file is lost (1615), and a power
failure within an edit loses up to a block more (1599).

Of time and levels: a level is a float, so the sum of `value * ora` is off by a
little with each reading once it is past 2^24, and after some 125 readings of two
metres in the evening it comes to 2^31 and stays there, so that every later trend
of the day is of nothing (148); the second may turn between `hour()` and
`second()`, and a reading then counts for the start of the hour that has just
ended (990); `now()` set back keeps an output open for as much longer (2090); an
output whose next look was noted behind the wrap of
`millis()` stays open for up to 49 days (2083); `/level` subtracts sums of
yesterday's hours from today's when the earlier count is the smaller, and
`levelGet` returns a negative count as a byte that is not 0 (155-166); two level
sensors would add to the same sums.

Of the rules: a command to another unit always returns 0, since the answer has
no `:` (2079, 2159), so a rule that repeats until success repeats for good, and
its unit answers no request and applies no command from then on; a call that was given up is still run, and its caller never told. A mistaken rule
such as `1+` leaves `vsptr` one word higher at each run, so after 235 of them the
stack's index wraps around (`bitlashMio.h`:1448). A rule with a character such as
`?` makes the parser ask for it without end until the watchdog resets the unit
(1683), and the next minute again. `f(,1)` makes the caller's string pool 0, and
the next call that writes its name there resets the unit (1566). Strings of more
than some 50 characters in a call reach the stack and overwrite the call's own
arguments, with no more than a message on the serial line (1413). `if (c) -a;`
subtracts, since the condition is an expression like any other (1100).

## Proofs

The theorems hold for every value of the constants that the named assumptions
allow. All rest on an inductive invariant and the three facts that `Init`
establishes it, every step keeps it and it implies the property; an action
property or the step of a refinement is then shown of each action from the
invariant.

| Theorem | Says | Argument |
|---|---|---|
| `OutputStationsProofs!TypeCorrect` | types; a pin is only written 0 or 1 | the types are inductive: a byte that is neither 0 nor 1 is closed before it is written |
| `OutputStationsProofs!OpenTimeIsBounded` | no channel is open longer than the longest duration, on a unit without level sums | the bound must hold of the three copies at once: RAM, flash and `pool`, where the third slot gets only its `Flag` from `pool` (`Flagged`) |
| `OutputStationsProofs!PinsRiseInTime` | outputs rise only in their time, level sums or not | a step property over the loop's one place that writes pins |
| `OutputStationsProofs!OpenPinsAreTimed` | a high output is timed, unless its latest request said `en=0` | inductive with the types |
| `BootProofs!TypeCorrect`, `FixedIpNotDroppedEarly`, `ConfigNotGivenUpEarly` | codes are codes; the address and the configuration are only given up after more than `MaxTries` failures in a row | `Told`: at each point of `setup()` flash holds what would be told of this boot if it died now, and the stored count is below the true number of repetitions |
| `UnitProofs!TypeCorrect`, `TasksKeepTheirDistance` | noted times fit the clock; no task is early | `Noted`: a noted time is the last run plus the interval, wrapped. Facts about division come first |
| `UnitProofs!SumIsResetOnce` | a second reset on a day only when `now()` was set back by more than it was past midnight at the first | `Reset`: the last reset is no later than the last reading, and began with what `now()` then said. The next reading comes an interval later or more (`DueLate`), what it is told is no less than its clock says (`NowIs`), and it is within an interval of the same midnight (`SameDay`): the rest must be what the clock was moved back |
| `UnitProofs!NoTaskIsLate` | no task waits for more than a pass | an invariant over the positions of a pass: a task that is due and not yet looked at has waited for no longer than the bodies of the tasks between, and the wait for an answer |
| `UnitProofs!RunsOnSchedule` | the unit implements the loop schedule | each action of `Unit` is one of `LoopSchedule` with more said |
| `UnitProofs!OutputsCloseInTime` | an output closes within an interval and a pass of its time, and what `now()` was set back | `SeenInTime`: a high output that is timed was last looked at when `now()`, at least as far ahead as `lowest`, had not passed its time; with `NoTaskIsLate` it is looked at again soon enough |
| `UnitProofs!UnitTypeCorrect` | the level's sums and the output's fields keep their widths | `OutputType` and the first part of `SumsInv` are inductive; every sum is made a long before it is stored (`AddType`), which needs a distance of floats for each sum (`SampleBound`, from `FloatAssumption`) |
| `UnitProofs!TrendsAreTrue` | a trend of hours read since `levelBegin` is of the readings between them: exactly, or to within 3/2 distances for each reading | `SumsInv`: each reading in `fits` notes the sums it left, which are `Plus` of those before (`SumsUp`), and there is a count `b` from before them, such that `pool` holds the last of these sums and each hour's copy those of the hour's last reading (`Holds`). Two copies then differ by what the additions between them did (`OneMore`): for longs by `Total`, since wrapping commutes with addition (`WholeSums`); for floats each addition is off by no more than half a distance for each of its three roundings (`AddIs`), which adds up by induction over the readings (`FloatSums`, `Far`) |
| `RemoteStationsProofs!TypeCorrect`, `SuccessIsTrue`, `RunsInOrder` | success is told of what was run; calls run once and in order | connections are numbered: an answer carries the number of a request that was run (`AnswersRan`), sent to the host that the number stands for (`Addressed`), and what a station has run is older than what waits there |
| `WeatherRingProofs!TypeCorrect`, `RestartKeepsRing`, `GapsAreSinceLatest` | restarts keep every committed reading; a gap is counted from the latest | `Agree`: at each of the round's commits, how the copies relate to the ring; `Known`: where the latest reading is |
| `WeatherRingProofs!RingIsInOrder` | no more neighbours in the ring are out of order than power failures came between a round's commits | `Ordered` counts the descents among the stored slots, read from the oldest one, and bounds every stored time by the clock; a round moves the one place where the count starts, so it adds no descent, and a torn one adds at most one. `Mirrors`: the ring is what is stored, but for slots that were never filled |
| `LogFileProofs!TypeCorrect`, `LinesAreTrue`, `RepliesAreTrue` | a complete line holds each sensor's own values, a reply with the line's table names them rightly | `LogInv`: a table's sensors deliver what the table counts (`complete`), so the places of values and names are the same sums; `Offset` is the length of what goes before, and the parts of a line are its flattening, one further for each brace. By induction over the table |
| `LogFileProofs!LinesStay` | no step changes or drops a line | `AtEnd`: between calls the file object is closed or at the end of the file, so a header goes behind the lines |
| `LogFileProofs!FilesTypeCorrect`, `DownloadsHaveTail` | a download begins with the last `MAXSIZ` bytes of the file and is no longer than the bytes that it may send twice | `Going` and `Ended`, the invariant of the download's loop: `k` passes have sent `k * BUFFDIM` bytes, the file's ones first, and have counted one less for each pass; so a buffer is filled short only where the file ends, and there are no more passes than bytes. By induction over the passes (`DownloadIs`) |
| `LogFileProofs!EditsLoseOneBlock`, `EditsMoveRest` | an edit loses no more than a block of what is behind its line, wherever the power fails, and moves the rest unchanged | where no line fills a buffer, reading `n` lines stops behind the `n`-th CR (`SkippedIs`). `Moving`, the invariant of the edit's loop: the bytes behind the line up to `fread` are where they belong, those from there to `fread + len` are in the buffer that is held, and the ones behind are not yet overwritten, since the line has grown by no more than a block. By induction over the passes; the loss is then counted as the image of the one block held (`OneBlockLost`) |
| `RuleStoreProofs!TypeCorrect`, `ConfEditsAreHarmless` | no write leaves the EEPROM; no edit of the configuration reaches the rules, whatever it writes | each edit only writes from its list's begin on (`OnlyFrom`); rules that end in front of the configuration (`Placed`) are then read as before |
| `RuleStoreProofs!ListsStayInPlace`, `ListsAreKept` | a careful client's lists stay in their parts; the bytes implement `RuleList` | `StoreInv`, with `Room`: both lists end in their parts and have counts that no reader takes for an error. What `add`, `del` and `rep` do to the bytes is worked out once for each (`AppendedIs`, `WithoutIs`, `ReplacedIs`), from where lines begin in bytes that agree in part (`PosMoved` and the lemmas before it), by induction over the line's number; the other list lies outside what is written. Then every step is the step of `RuleList` of the same name, or changes no list |

Assumptions are the `ASSUME`s of the modules, each named and evaluated by the
runs:

- sizes are positive, counts fit their bytes, `MaxRow` is at least the byte's
  range so that the history variable does not saturate first;
- `SensorLog!FitAssumption`: a table has no more values than `value[]` and
  `param[]` have places, behind which the code writes without a check;
- `Unit!LevelAssumption`: what `pool` holds at first is any record of bytes and
  longs; the level read is a whole number that a float holds exactly, of either
  sign;
- `LevelSums!FloatAssumption`: there are distances of floats for sums as large as
  a long and one more sample, as the float's exponent gives many times over;
- `LoopSchedule!SyncAssumption`: a body and a wait for the time server take less
  than the hour between two questions, so a body asks once at most; an answer may
  move `now()` by any amount;
- `OutputStations!ErasedAssumption`: the `Stop_time` of an erased slot is not
  negative as seen from now;
- `RuleStore!LineAssumption`, `FileAssumption`: the lengths of the buffers that
  lines are read into, 80 and 150 bytes, and a file of less than 255 lines;
- `FileRequests!BufferAssumption`, `LineAssumption`: a download's buffer has two
  bytes or more (it counts one less than it holds), an edit's at least one, and
  what replaces a line is of the value `New`;
- `RuleStore!StoreAssumption`: the rules lie in front of the configuration, at
  most 250 rules are accepted at boot (the code accepts 40; above 250
  `Rule_Apply` would drop what `setup()` has accepted), and the file of a careful
  client's unit fits behind the rules.

The proof of `ListsAreKept` showed two conditions that the small instances are
too small to meet. `RuleStore` now has a careful client keep to them: no more
than 254 lines of configuration (2351), and no more rules than `setup()` accepts
(2310). For a documented client nothing is proved of the configuration: its
rules may run over it (`rule_store_limit`).

Induction over data is done in first-order steps: what a recursive function
does is stated for a number `n` of lines, values, readings or passes, as
membership of `n` in a set that is then shown to be all of `Nat`.

Only model-checked:

- liveness (`EveryPinCloses`, `CrashingConfigHeals`, `CallsReturn`,
  `RequestsAreServed`): it rests on fairness and `ENABLED`, which the prover does
  not handle;
- `Interpreter`: its operators are recursive in each other as the parser's
  functions are (`RECURSIVE`), of which the prover proves nothing.

## Not modelled

- Floating-point formulas (`ET_penmam.h`, `ET0_calc`, the slope that `levelGet`
  makes of its differences). The floats that the level's sums pass through are
  modelled.
- The setting of the clock in `OutputStations` and `WeatherRing`, whose `now()`
  runs evenly: what setting it does to the daily reset, to the level's hours and
  to an open output is in `LoopSchedule` and `Unit`. That a restart finds the
  time again is `Boot`'s `NtpAnswers`. A gap between weather readings is then as
  wrong as the setting was.
- What sensor drivers read, and the JSON of weather stations: I/O, and values
  that the code leaves unset when a name is missing. Of `apiget`'s answer
  `RemoteStations` keeps only whether the name was there.
- The pulse interrupt (567-577): pulses less than 100 ms apart are dropped and
  its two variables are read microseconds apart, so there is nothing to
  interleave but one pulse.
- In rules: prefix `*` and `&`, which read memory by address, `arg()`, `run`,
  strings that do not end (the parser then reads what earlier rules have left
  behind the text), a text of 200 characters or more (`inpStr` has as many
  bytes), and how characters make words. A `while` with a block in a branch that
  is not taken is left out of the checked rules: `skipstatement` stops at the
  first semicolon of the block, and the rest of it runs (`bitlashMio.h`:1037).
  The functions that find a value by its name, of which `gval` and `sval` search
  the first `nsensors` names only (1808), are one function of their arguments.
- ThingSpeak, telnet and OTA: data goes out, nothing that others read is kept.
- Memory: each `/sensor` reply leaks 300 bytes (1258).
- Torn writes of a single commit or of a log line, and an edit of line 0, which
  uses values that were never set.
- Vendored libraries, but for what the sketch relies on.

## Plan

Order was by importance: what drives outputs, what rules are stored, how the
unit starts, when tasks run, what is kept of the weather; the log and the files;
then the compositions, of tasks in a unit and of units with each other; and the
interpreter of the rules; then proofs, in the order of what a failure would
cost: outputs, boot, the schedule, calls, the ring, the log, the level's sums and
the store, and last the downloads and edits of files. Every property that a
passing run checks is now a theorem, but for liveness and the three of
`Interpreter`.
