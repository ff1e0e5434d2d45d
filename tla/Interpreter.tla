---------------------------- MODULE Interpreter -----------------------------
(***************************************************************************)
(* The interpreter of the rules, src/bitlashMio.h: espressione runs the    *)
(* text of one rule, as Rule_Apply asks for one rule after the other.  A   *)
(* recursive descent over the words of the text computes on a stack whose  *)
(* free end holds, from the other side, the strings of the calls being     *)
(* made.  Mistakes in a text are only printed: parsing goes on, and what   *)
(* is then left on the stack stays there until the unit restarts.          *)
(*                                                                         *)
(* The stack's words and the words of a text are the units of memory: a    *)
(* word of a text takes one word in the string pool.                       *)
(***************************************************************************)
EXTENDS RuleMeaning

CONSTANTS
    VSTACKLEN,      \* words of the stack: 256, as many as a byte counts
    Bottom,         \* where vinit puts vsptr: 20
    Frame,          \* where vinit puts arg: 206
    Vars,           \* the variables and pins rules use
    Rules,          \* the rules that may be stored, as trees
    Slips,          \* texts with a mistake outside of a call's arguments
    ArgSlips,       \* texts with a mistake within a call's arguments
    Patience,       \* words and statements until the watchdog resets the unit
    MaxMistakes     \* bound: mistaken texts between two restarts

ASSUME StackAssumption == {Bottom, Frame} \subseteq 0..(VSTACKLEN - 2)
ASSUME PatienceAssumption == {Patience, MaxMistakes} \subseteq Nat

VARIABLES
    rule,           \* the rule that is stored
    vars,           \* vars[] and the pins
    stack,          \* vstack, vsptr, arg and stringPool
    ran,            \* history: what ran last, and what it did
    mistakes        \* history: mistakes since the restart, and those in arguments

allvars == <<rule, vars, stack, ran, mistakes>>

\* Addresses of the words of vstack; other numbers are none.
Address(i) == 10000 + i

vinit == [vstack |-> [i \in 0..(VSTACKLEN - 1) |-> 0], vsptr |-> Bottom,
          arg |-> Address(Frame), stringPool |-> Address(0), sym |-> "eof"]

none == [all |-> 0, inArguments |-> 0]

Init ==
    /\ rule \in Rules
    /\ vars = [v \in Vars |-> 0]
    /\ stack = vinit
    /\ ran = [kind |-> "nothing"]
    /\ mistakes = none

-----------------------------------------------------------------------------
(* A run is a record s: the text and the position in it, sym and symval,   *)
(* expval, the stack, the variables; the calls made, whether anything was  *)
(* printed, and whether the unit has been reset under it.                  *)

Begin(text) ==
    [text |-> text, pos |-> 1, sym |-> stack.sym, symval |-> 0, expval |-> 0, ret |-> 0,
     vstack |-> stack.vstack, vsptr |-> stack.vsptr, arg |-> stack.arg,
     stringPool |-> stack.stringPool, vars |-> vars, calls |-> <<>>,
     said |-> FALSE, left |-> Patience, reset |-> FALSE]

Says(s, mistake) == [s EXCEPT !.said = @ \/ mistake]
\* unexpected() prints nothing while no more than one character has been read.
Unexpected(s) == Says(s, s.pos > 2)
Reset(s) == [s EXCEPT !.reset = TRUE]
Works(s) == IF s.left = 0 THEN Reset(s) ELSE [s EXCEPT !.left = @ - 1]

\* The next word.  A character that begins none is not passed: sym stays.
getsym(s) ==
    IF s.pos > Len(s.text) THEN [s EXCEPT !.sym = "eof"]
    ELSE LET word == s.text[s.pos]
         IN IF word[1] = "bad" THEN Unexpected(s)
            ELSE [s EXCEPT !.pos = @ + 1, !.sym = word[1], !.symval = word[2]]

Cell(s, a) == IF a - Address(0) \in DOMAIN s.vstack THEN s.vstack[a - Address(0)] ELSE 0
Put(s, a, x) == IF a - Address(0) \in DOMAIN s.vstack
                THEN [s EXCEPT !.vstack[a - Address(0)] = x] ELSE Reset(s)

\* vsptr is a byte, and both checks only print.
vpush(s, x) ==
    LET p == Says(s, Address(s.vsptr) < s.stringPool)
    IN [p EXCEPT !.vstack[s.vsptr] = x, !.vsptr = (@ - 1) % VSTACKLEN]
Top(s) == s.vstack[(s.vsptr + 1) % VSTACKLEN]
vpop(s) == [Says(s, s.vsptr >= VSTACKLEN - 1) EXCEPT !.vsptr = (@ + 1) % VSTACKLEN]

\* Both operands are popped; dividing by zero is an exception.
vop(op, s) ==
    LET x == Top(s)  y == Top(vpop(s))  p == vpop(vpop(s))
    IN IF op \in {"/", "%"} /\ x = 0 THEN Reset(s) ELSE vpush(p, Binary(op, y, x))

\* Mutant: nothing is said when the strings have reached the stack.
spush_unchecked(s, c) == [Put(s, s.stringPool, c) EXCEPT !.stringPool = @ + 1]

\* A word for the string pool, where a stray address is an exception.
spush(s, c) ==
    [Put(Says(s, s.stringPool >= Address(s.vsptr)), s.stringPool, c) EXCEPT !.stringPool = @ + 1]

\* What the words of a string are in memory: ids as they are, others as 1.
Code(word) == IF word[1] = "id" THEN word[2] ELSE 1

\* The words up to the closing quote, into the pool or nowhere.  A string that
\* does not end would be read on behind the text: no text here has one.
RECURSIVE parsestring(_, _)
parsestring(s, keep) ==
    LET word == s.text[s.pos]
        next == [s EXCEPT !.pos = @ + 1]
    IN CASE s.pos > Len(s.text) \/ s.reset -> Reset(s)
         [] word[1] = "quote" -> next
         [] OTHER -> parsestring(IF keep THEN spush(next, Code(word)) ELSE next, keep)

-----------------------------------------------------------------------------
(* Expressions *)

RECURSIVE getfactor(_), Level(_, _), Rest(_, _), parseargs(_, _), StringAt(_, _, _)

\* One operand, and while an operator of the level follows, another.
Level(n, s) == IF n = 0 THEN getfactor(s) ELSE Rest(n, Level(n - 1, s))
Rest(n, s) ==
    IF s.sym \in Levels[n] /\ ~s.reset
    THEN Rest(n, vop(s.sym, Level(n - 1, getsym(s))))
    ELSE s

getexpression(s) ==
    LET e == Level(Len(Levels), s) IN [vpop(e) EXCEPT !.expval = Top(e)]

\* A number is pushed; of a string, its address, and a bit marks it.
NumberArg(e) == vpush(e, e.expval)
StringArg(s, newarg) ==
    Put(getsym(spush(parsestring(vpush(s, s.stringPool), TRUE), 0)),
        newarg + 2, Cell(s, newarg + 2) + 2^Cell(s, newarg))
Counted(s, newarg) == Put(s, newarg, Cell(s, newarg) + 1)

\* The arguments: a comma brings another one.
NextArg(s, newarg) == IF s.sym = "," THEN parseargs(getsym(s), newarg) ELSE s
parseargs(s, newarg) ==
    IF s.sym \in {")", "eof"} \/ s.reset THEN s
    ELSE NextArg(Counted(IF s.sym = "quote" THEN StringArg(s, newarg)
                         ELSE NumberArg(getexpression(s)), newarg), newarg)

\* The frame of a call: the caller's frame, the marks of strings, the caller's
\* pool, the number of arguments.  The function's name goes to the pool.
Framed(s) == spush(spush(vpush(vpush(vpush(s, s.arg), 0), s.stringPool), 1), 0)
Closed(s) == IF s.sym = ")" THEN getsym(s) ELSE Says(s, TRUE)
Bracketed(s, newarg) ==
    [IF s.sym = "(" THEN Closed(parseargs(getsym(s), newarg)) ELSE s EXCEPT !.arg = newarg]
parsearglist(s) ==
    LET framed == Framed(s) IN Bracketed(vpush(framed, 0), Address(framed.vsptr))

\* Mutant: the caller's pool is popped, and not taken up again.
releaseargblock_keeps_pool(s) ==
    LET count == [s EXCEPT !.vsptr = (@ + Cell(s, s.arg) + 1) % VSTACKLEN]
        marks == vpop(vpop(count))
    IN [vpop(marks) EXCEPT !.arg = Top(marks)]

releaseargblock(s) ==
    LET count == [s EXCEPT !.vsptr = (@ + Cell(s, s.arg) + 1) % VSTACKLEN]
        pool == [vpop(count) EXCEPT !.stringPool = Top(count)]
        marks == vpop(pool)
    IN [vpop(marks) EXCEPT !.arg = Top(marks)]

\* What a function finds: getarg and getstringarg.
StringAt(s, a, n) ==
    IF Cell(s, a) = 0 \/ n = 0 THEN <<>> ELSE <<Cell(s, a)>> \o StringAt(s, a + 1, n - 1)
Argument(s, i) ==
    LET x == Cell(s, s.arg - i)
    IN IF (Cell(s, s.arg + 2) \div 2^(i - 1)) % 2 = 1
       THEN [string |-> TRUE, words |-> StringAt(s, x, VSTACKLEN)]
       ELSE [string |-> FALSE, value |-> x]

Called(entry, s) ==
    LET args == [i \in 1..Cell(s, s.arg) |-> Argument(s, i)]
    IN IF s.reset THEN s
       ELSE vpush([releaseargblock(s) EXCEPT !.calls = Append(@, [fn |-> entry, args |-> args])],
                  Answer(args))
dofunctioncall(entry, s) == Called(entry, parsearglist(s))

Step(sign) == IF sign = "++" THEN 1 ELSE -1
Assigned(v, e) == vpush([e EXCEPT !.vars[v] = e.expval], e.expval)

\* A variable, and what follows it.
Variables(v, s) ==
    CASE s.sym = "=" -> Assigned(v, getexpression(getsym(s)))
      [] s.sym \in {"++", "--"} ->
             getsym([vpush(s, s.vars[v]) EXCEPT !.vars[v] = @ + Step(s.sym)])
      [] OTHER -> vpush(s, s.vars[v])

\* In the texts here a variable follows each ++ and -- that is in front.
Stepped(sign, v, s) ==
    getsym(vpush([s EXCEPT !.vars[v] = @ + Step(sign)], s.vars[v] + Step(sign)))
Enclosed(e) == getsym(vpush(Says(e, e.sym # ")"), e.expval))
Applied(op, f) == vpush(vpop(f), Unary(op, Top(f)))

\* A factor; what begins none is passed, and nothing is pushed for it.
Factor(kind, val, s) ==
    CASE s.reset -> s
      [] kind = "num" -> vpush(s, val)
      [] kind = "var" -> Variables(val, s)
      [] kind = "fn" -> dofunctioncall(val, s)
      [] kind \in {"++", "--"} /\ s.sym = "var" -> Stepped(kind, s.symval, s)
      [] kind = "(" -> Enclosed(getexpression(s))
      [] kind = "+" -> getfactor(s)
      [] kind \in {"-", "~", "!"} -> Applied(kind, getfactor(s))
      [] OTHER -> Unexpected(s)
getfactor(s) == Factor(s.sym, s.symval, getsym(Works(s)))

-----------------------------------------------------------------------------
(* Statements *)

RECURSIVE skipbraces(_, _), skipstatement(_), skipto(_, _), skipone(_, _)

\* Behind the brace that closes the one passed.
skipbraces(s, nest) ==
    LET next == getsym(Works(IF s.sym = "quote" THEN parsestring(s, FALSE) ELSE s))
    IN CASE s.sym = "eof" \/ s.reset -> s
         [] s.sym = "{" -> skipbraces(next, nest + 1)
         [] s.sym = "}" /\ nest > 0 -> skipbraces(next, nest - 1)
         [] s.sym = "}" -> next
         [] OTHER -> skipbraces(next, nest)

\* To one of these words, even within a string.
skipto(s, words) ==
    IF s.sym \in words \cup {"eof"} \/ s.reset THEN s ELSE skipto(getsym(Works(s)), words)

\* Behind the next semicolon outside of brackets.
skipone(s, nest) ==
    LET next == getsym(Works(IF s.sym = "quote" THEN parsestring(s, FALSE) ELSE s))
    IN CASE s.sym = "eof" \/ s.reset -> s
         [] s.sym = "(" -> skipone(next, nest + 1)
         [] s.sym = ")" /\ nest > 0 -> skipone(next, nest - 1)
         [] s.sym = ")" \/ (s.sym = ";" /\ nest = 0) -> next
         [] OTHER -> skipone(next, nest)

\* Mutant: what is behind else is left to the next statement.
skipelse_runs(s) == IF s.sym = "else" THEN getsym(s) ELSE s

skipelse(s) == IF s.sym = "else" THEN skipstatement(getsym(s)) ELSE s

\* A block, an if with its else, or anything else as far as its semicolon.
SkipTrue(s) == IF s.sym = "{" THEN skipstatement(s) ELSE getsym(s)
skipstatement(s) ==
    CASE s.sym = "{" -> skipbraces(getsym(s), 0)
      [] s.sym = "if" -> skipelse(SkipTrue(skipto(s, {";", "{"})))
      [] OTHER -> skipone(s, 0)

RECURSIVE getstatement(_), whilestatement(_, _), block(_, _)

\* Statements until one of these words, which getstatementlist and { } share.
block(s, ends) ==
    IF s.sym \in ends \cup {"eof", "returning"} \/ s.reset THEN s ELSE block(getstatement(s), ends)

\* A condition is looked at again from the position marked behind while.
Again(s, mark) == IF s.sym = "returning" \/ s.reset THEN s ELSE whilestatement(s, mark)
Looped(cond, mark) ==
    IF cond.expval = 0 \/ cond.reset THEN skipstatement(cond) ELSE Again(getstatement(cond), mark)
whilestatement(s, mark) == Looped(getexpression(getsym([s EXCEPT !.pos = mark])), mark)

doelse(s) == IF s.sym = "else" THEN getstatement(getsym(s)) ELSE s
Branched(cond) ==
    IF cond.expval # 0 THEN skipelse(getstatement(cond)) ELSE doelse(skipstatement(cond))
ifstatement(s) == Branched(getexpression(getsym(s)))

Valued(e) == [e EXCEPT !.ret = e.expval]
returnstatement(s) ==
    [IF s.sym \in {"eof", ";"} THEN s ELSE Valued(getexpression(s)) EXCEPT !.sym = "returning"]

\* The value of a statement is in ret; a semicolon behind it is passed.
Past(s, sign) == IF s.sym = sign THEN getsym(s) ELSE s
Statement(s) ==
    CASE s.reset -> s
      [] s.sym = "while" -> whilestatement(s, s.pos)
      [] s.sym = "if" -> ifstatement(s)
      [] s.sym = "{" -> Past(block(getsym(s), {"}"}), "}")
      [] s.sym = "return" -> returnstatement(getsym(s))
      [] s.sym \in {"print", "stop"} -> getsym(s)
      [] s.sym = ";" -> s
      [] OTHER -> Valued(getexpression(s))
getstatement(s) == Past(Statement([Works(s) EXCEPT !.ret = 0]), ";")

espressione(text) == block(getsym(Begin(text)), {})

-----------------------------------------------------------------------------
(* The unit *)

Kept(s) == [vstack |-> s.vstack, vsptr |-> s.vsptr, arg |-> s.arg,
            stringPool |-> s.stringPool, sym |-> s.sym]

\* What a run leaves: with a reset, setup() and the variables' first values.
Leaves(s, made) ==
    /\ stack' = IF s.reset THEN vinit ELSE Kept(s)
    /\ vars' = IF s.reset THEN [v \in Vars |-> 0] ELSE s.vars
    /\ mistakes' = IF s.reset THEN none ELSE made
    /\ UNCHANGED rule

\* What a run of the stored rule did.
Did(s) ==
    [kind |-> "rule", vars |-> vars, careless |-> mistakes.inArguments > 0, did |-> s.vars,
     calls |-> s.calls, value |-> s.ret, moved |-> s.vsptr - stack.vsptr,
     said |-> s.said, reset |-> s.reset]

\* Rule_Apply runs the rule that is stored.
Rule_Apply ==
    LET s == espressione(Text(rule))
    IN Leaves(s, mistakes) /\ ran' = Did(s)

\* rep=-1, or another rule of the list, whose text has a mistake: as many as
\* leave vsptr short of wrapping around, VSTACKLEN - Bottom of them at most.
Mistaken(s, inArguments) ==
    /\ s.reset \/ s.vsptr \in Bottom..(VSTACKLEN - 1)
    /\ Leaves(s, [all |-> mistakes.all + 1,
                  inArguments |-> mistakes.inArguments + inArguments])
    /\ ran' = [kind |-> "mistake"]
Mistake(texts, inArguments) ==
    /\ mistakes.all < MaxMistakes
    /\ \E text \in texts : Mistaken(espressione(text), inArguments)

Restart ==
    /\ stack' = vinit
    /\ vars' = [v \in Vars |-> 0]
    /\ ran' = [kind |-> "nothing"]
    /\ mistakes' = none
    /\ UNCHANGED rule

Next ==
    \/ Rule_Apply
    \/ Mistake(Slips, 0)
    \/ Mistake(ArgSlips, 1)
    \/ Restart

Spec == Init /\ [][Next]_allvars

-----------------------------------------------------------------------------
\* Words of stack and pool a rule may need: a call takes six and each of its
\* arguments, like every operand, one.
Need == FoldLeft(LAMBDA n, word : n + CASE word[1] = "fn" -> 6
                                         [] word[1] \in {"num", "var", "id", "quote"} -> 1
                                         [] OTHER -> 0, 0, Text(rule))

\* Whatever mistakes came before, as long as none was in arguments and the rule
\* has room for its strings, what they leave lies above vsptr: the frame and the
\* string pool are those of vinit, and vsptr is not below its place.
StackIsSound ==
    mistakes.inArguments = 0 /\ Need <= Bottom =>
        /\ stack.vsptr \in Bottom..(VSTACKLEN - 1)
        /\ stack.arg = Address(Frame) /\ stack.stringPool = Address(0)

Right == LET w == Meaning(rule, ran.vars)
         IN <<ran.did, ran.calls, ran.value>> = <<w.vars, w.calls, w.value>>

\* A rule without a mistake, with room for its strings, does what it means to
\* and leaves vsptr where it was, whatever mistaken rules ran before it.
RuleIsTrue ==
    ran.kind = "rule" /\ ~ran.careless /\ Need <= Bottom
        => Right /\ ~ran.said /\ ~ran.reset /\ ran.moved = 0

\* No error is silent: a rule, of any length and after any mistakes, does what
\* it means to, or says that the stack and the strings meet, or the unit resets.
NoSilentError == ran.kind = "rule" => Right \/ ran.said \/ ran.reset
=============================================================================
