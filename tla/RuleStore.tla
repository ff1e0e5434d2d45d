----------------------------- MODULE RuleStore ------------------------------
(***************************************************************************)
(* The rules and the configuration records of SensorServer.ino, as the     *)
(* bytes they are in EEPROM.  Each list is a count byte and then, one      *)
(* after the other, a length byte and the characters of each line; the     *)
(* rules begin at EE_POS_RULES and the configuration, right behind the 600 *)
(* bytes meant for them, at EE_CONF_POS.  GetRule edits either list in     *)
(* place, with no check of any kind, and commits each edit as a whole;     *)
(* Rule_Apply and setup() check the counts.                                *)
(***************************************************************************)
EXTENDS Integers, Sequences, SequencesExt

CONSTANTS
    Lines,          \* the lines requests carry, as sequences of characters
    FileLines,      \* the lines of /config.txt
    Stores          \* how the EEPROM is divided, and what requests come

VARIABLES
    mem,            \* the committed bytes
    store           \* which of Stores this is

vars == <<mem, store>>

Byte == 0..255
EE_POS_RULES == 0
EE_CONF_POS == store.conf       \* end of the rules and begin of the rest
EepromSize == store.size        \* the size EEPROM.begin was given
MaxRules == store.rules         \* the 40 of setup()
Lists == {EE_POS_RULES, EE_CONF_POS}
Limit(base) == IF base = EE_POS_RULES THEN EE_CONF_POS ELSE EepromSize

\* GetRule takes a line into 80 bytes and setup() one of the file into 150, whose
\* number it counts in a byte.
ASSUME LineAssumption == \A r \in Lines : r \in Seq(Byte) /\ Len(r) < 80
ASSUME FileAssumption ==
    /\ FileLines \in Seq(Seq(Byte)) /\ Len(FileLines) < 255
    /\ \A i \in 1..Len(FileLines) : Len(FileLines[i]) <= 150

\* EEPROM.read and a run of EEPROM.writes: outside the buffer the library
\* reads 0 and ignores a write.
Rd(m, a) == IF a \in DOMAIN m THEN m[a] ELSE 0
Put_unbounded(m, a, s) ==                   \* mutant: the write is not ignored
    [x \in DOMAIN m \cup a..(a + Len(s) - 1) |->
        IF x - a + 1 \in 1..Len(s) THEN s[x - a + 1] ELSE m[x]]

Put(m, a, s) ==
    [x \in DOMAIN m |-> IF x - a + 1 \in 1..Len(s) THEN s[x - a + 1] ELSE m[x]]

Slice(m, a, b) == [i \in 1..(IF b > a THEN b - a ELSE 0) |-> Rd(m, a + i - 1)]

\* Mutant: the count is always the one of the rules.
SetCount_rules(m, base, n) == Put(m, EE_POS_RULES, <<n % 256>>)

SetCount(m, base, n) == Put(m, base, <<n % 256>>)

Count(m, base) == Rd(m, base)

\* Address of line n: "rulep += EEPROM.read(rulep) + 1", n times.  Past the
\* end of the EEPROM every length reads 0.
Pos(m, base, n) ==
    LET walk[k \in Nat] ==
            [a \in Nat |-> IF k = 0 \/ a \notin DOMAIN m THEN a + k
                          ELSE walk[k - 1][a + m[a] + 1]]
    IN walk[n][base + 1]
End(m, base) == Pos(m, base, Count(m, base))

Line(m, a) == Slice(m, a + 1, a + 1 + Rd(m, a))
ListAt(m, base) == [i \in 1..Count(m, base) |-> Line(m, Pos(m, base, i - 1))]

\* A list written afresh, as setup() copies /config.txt.
Record(r) == <<Len(r)>> \o r
Records(s) == FlattenSeq([i \in 1..Len(s) |-> Record(s[i])])
Written(m, base, s) == Put(SetCount(m, base, Len(s)), base + 1, Records(s))

\* The rules and the configuration lie one behind the other; a careful client's
\* configuration has room for the file.
ASSUME StoreAssumption ==
    \A s \in Stores :
        /\ {s.conf, s.size, s.rules} \subseteq Nat /\ s.client \in {"careful", "documented", "any"}
        /\ 0 < s.conf /\ s.conf < s.size /\ s.rules <= 250
        /\ s.client = "careful" => s.conf + 1 + Len(Records(FileLines)) <= s.size

Erased == [a \in 0..(EepromSize - 1) |-> 255]

Init ==
    /\ store \in Stores
    /\ mem = Written(SetCount(Erased, EE_POS_RULES, 0), EE_CONF_POS, FileLines)

-----------------------------------------------------------------------------
(* GetRule *)

(* The requests made.  A "documented" client names lines that are there    *)
(* and keeps each list in its place ("max 600 char all rules"); a careful  *)
(* one knows the code, and keeps to the lines that each count may have and *)
(* leaves free as many bytes behind the list as a longer line adds; "any"  *)
(* sends what it likes.                                                    *)
NamesLine(base, n) == store.client = "any" \/ n < Count(mem, base)
Fits(base, end) == store.client = "any" \/ end <= Limit(base)

\* The configuration of 255 lines is taken for erased.
MaxLines(base) == IF base = EE_POS_RULES THEN MaxRules ELSE 254

Appended(m, base, r) ==
    Put(SetCount(m, base, Count(m, base) + 1), End(m, base), Record(r))

GetRule_add(base, r) ==
    /\ Fits(base, End(mem, base) + Len(r) + 1)
    /\ store.client = "careful" => Count(mem, base) < MaxLines(base)
    /\ mem' = Appended(mem, base, r)

\* The bytes of the lines behind line n.
Behind(m, base, n) ==
    Slice(m, Pos(m, base, n + 1), IF n < Count(m, base) THEN End(m, base) ELSE 0)

\* Mutant: the count stays.
Without_uncounted(m, base, n) == Put(m, Pos(m, base, n), Behind(m, base, n))

\* The following lines move up, a byte at a time from the front.  A line number
\* past the end moves nothing, and still one is taken off the count.
Without(m, base, n) ==
    SetCount(Put(m, Pos(m, base, n), Behind(m, base, n)), base, Count(m, base) - 1)

GetRule_del(base, n) ==
    /\ NamesLine(base, n)
    /\ mem' = Without(mem, base, n)

Growth(m, base, n, r) ==
    LET longer == Len(r) - Rd(m, Pos(m, base, n))
    IN IF longer > 0 THEN longer ELSE 0

\* Mutant: the lines behind are moved even when the new line is longer, over
\* the bytes they are read from.
Replaced_in_place(m, base, n, r) ==
    Put(Put(m, Pos(m, base, n), Record(r)), Pos(m, base, n) + Len(r) + 1,
        Slice(Put(m, Pos(m, base, n), Record(r)), Pos(m, base, n + 1), End(m, base)))

\* A line no longer than the old one: the following lines move up.  A longer
\* one pushes what it covers into a queue, through which the following lines
\* then pass; the bytes left in the queue at the end, as many as the line has
\* grown, are written behind the last line.  The queue's indices are bytes, and
\* nothing is left to write when one of them has passed 255 and not the other.
Replaced(m, base, n, r) ==
    LET grown == Growth(m, base, n, r)
        behind == Behind(m, base, n)
        oldEnd == Pos(m, base, n + 1) + Len(behind)
        left == IF (Len(behind) % 256) + grown < 256
                THEN Slice(m, oldEnd, oldEnd + grown) ELSE <<>>
    IN Put(m, Pos(m, base, n), Record(r) \o behind \o left)

GetRule_rep(base, n, r) ==
    /\ NamesLine(base, n)
    /\ LET newEnd == End(mem, base) + Len(r) - Rd(mem, Pos(mem, base, n))
           grown == Growth(mem, base, n, r)
       IN Fits(base, newEnd + IF store.client = "careful" THEN grown ELSE 0)
    /\ mem' = Replaced(mem, base, n, r)

-----------------------------------------------------------------------------
(* The readers. *)

\* Rule_Apply runs the rules unless their count cannot be one.
Rule_Apply ==
    mem' = IF Count(mem, EE_POS_RULES) > 250
           THEN SetCount(mem, EE_POS_RULES, 0) ELSE mem

\* setup(): "if wrong reset n. of rules to 0", and the configuration is read
\* from the file when its count is 255.
CheckCounts(m) ==
    LET checked == IF Count(m, EE_POS_RULES) > MaxRules
                   THEN SetCount(m, EE_POS_RULES, 0) ELSE m
    IN IF Count(m, EE_CONF_POS) = 255
       THEN Written(checked, EE_CONF_POS, FileLines) ELSE checked

Boot == mem' = CheckCounts(mem)

\* /rst sets the counts and restarts.
handleReset ==
    mem' = CheckCounts(SetCount(SetCount(mem, EE_POS_RULES, 0), EE_CONF_POS, 255))

\* Line numbers go to MaxRules, one more than a careful client's last.
Edits(base) ==
    \/ \E r \in Lines : GetRule_add(base, r)
    \/ \E n \in 0..MaxRules : GetRule_del(base, n)
    \/ \E n \in 0..MaxRules, r \in Lines : GetRule_rep(base, n, r)

Next ==
    /\ \/ \E base \in Lists : Edits(base)
       \/ Rule_Apply
       \/ Boot
       \/ handleReset
    /\ UNCHANGED store

Spec == Init /\ [][Next]_vars

-----------------------------------------------------------------------------
\* The stored bytes are bytes, and stay within the EEPROM.
TypeOK == mem \in [0..(EepromSize - 1) -> Byte]

\* Whatever is written past the end of a list, an edit of the configuration
\* leaves the rules, which lie in front of it, as they are, when those are kept
\* in their place.
ConfEditsKeepRules ==
    [][store.client # "any" /\ Edits(EE_CONF_POS)
         => ListAt(mem', EE_POS_RULES) = ListAt(mem, EE_POS_RULES)]_vars

\* With a careful client each list ends in its own part of the EEPROM.
ListsInPlace ==
    store.client = "careful" => \A base \in Lists : End(mem, base) <= Limit(base)

\* With a careful client the bytes implement two lists: every edit changes the
\* one line it names, moves the others byte by byte without loss, and leaves
\* the other list alone; Rule_Apply and a restart change nothing, and /rst
\* leaves no rules and the configuration of the file.
Base(list) == IF list = "rules" THEN EE_POS_RULES ELSE EE_CONF_POS
Held == [list \in {"rules", "conf"} |->
            IF store.client = "careful" THEN ListAt(mem, Base(list))
            ELSE IF list = "rules" THEN <<>> ELSE FileLines]
Promised == INSTANCE RuleList WITH Rules <- "rules", Conf <- "conf", lists <- Held
PromisedSpec == Promised!Spec

\* "max 600 char all rules": for a client that keeps to it, an edit of the rules
\* leaves the configuration as it is.  A rep with a longer line does not: what
\* its queue holds at the end is written behind the rules.
RuleEditsKeepConf ==
    [][Edits(EE_POS_RULES) => ListAt(mem', EE_CONF_POS) = ListAt(mem, EE_CONF_POS)]_vars
=============================================================================
