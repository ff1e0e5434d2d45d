---------------------------- MODULE RuleMeaning -----------------------------
(***************************************************************************)
(* What a rule means: rules as trees, their text as the words the          *)
(* interpreter reads, and what running one does.  The trees are            *)
(*   num n, val v, set v e, bin op l r, un op e, call f args, str words    *)
(* for expressions and                                                     *)
(*   do e, if e s, else e s t, block ss, while e s, return e               *)
(* for statements, each a tuple that begins with its name.                 *)
(***************************************************************************)
EXTENDS Integers, Sequences, SequencesExt, Bitwise

\* The binary operators from the tightest to the loosest, as in C but for
\* three things: all comparisons bind alike, and so do & | ^, and && and ||.
Levels == << {"*", "/", "%"}, {"+", "-"}, {"<<", ">>"},
             {"<", ">", "<=", ">=", "==", "!="}, {"&", "|", "^"}, {"&&", "||"} >>

Truth(b) == IF b THEN 1 ELSE 0
Magnitude(x) == IF x < 0 THEN -x ELSE x
Quotient(y, x) ==                                       \* rounds towards 0
    (IF (y < 0) = (x < 0) THEN 1 ELSE -1) * (Magnitude(y) \div Magnitude(x))

Binary(op, y, x) ==
    CASE op = "*" -> y * x
      [] op = "/" -> Quotient(y, x)
      [] op = "%" -> y - x * Quotient(y, x)
      [] op = "+" -> y + x
      [] op = "-" -> y - x
      [] op = "<<" -> y * 2^x
      [] op = ">>" -> y \div 2^x
      [] op = "&" -> y & x
      [] op = "|" -> y | x
      [] op = "^" -> y ^^ x
      [] op = "<" -> Truth(y < x)
      [] op = ">" -> Truth(y > x)
      [] op = "<=" -> Truth(y <= x)
      [] op = ">=" -> Truth(y >= x)
      [] op = "==" -> Truth(y = x)
      [] op = "!=" -> Truth(y # x)
      [] op = "&&" -> Truth(y # 0 /\ x # 0)
      [] op = "||" -> Truth(y # 0 \/ x # 0)

Unary(op, x) ==
    CASE op = "+" -> x
      [] op = "-" -> -x
      [] op = "~" -> -1 - x
      [] op = "!" -> Truth(x = 0)

-----------------------------------------------------------------------------
(* The text of a tree: words <<kind, value>>. *)

Sign(k) == << <<k, 0>> >>
Number(n) == << <<"num", n>> >>
Variable(v) == << <<"var", v>> >>
Function(f) == << <<"fn", f>> >>
Quoted(words) == Sign("quote") \o [i \in DOMAIN words |-> <<"id", words[i]>>] \o Sign("quote")
Brackets(text) == Sign("(") \o text \o Sign(")")

\* How tightly the outermost operator of a tree binds.
LevelOf(op) == CHOOSE n \in DOMAIN Levels : op \in Levels[n]
Binds(e) == CASE e[1] = "bin" -> LevelOf(e[2])
              [] e[1] = "set" -> Len(Levels) + 1
              [] OTHER -> 0

RECURSIVE ExprText(_), StatText(_)
Within(e, n) == IF Binds(e) <= n THEN ExprText(e) ELSE Brackets(ExprText(e))
Listed(texts) ==
    FoldLeft(LAMBDA all, t : IF all = <<>> THEN t ELSE all \o Sign(",") \o t, <<>>, texts)
ExprText(e) ==
    CASE e[1] = "num" -> Number(e[2])
      [] e[1] = "val" -> Variable(e[2])
      [] e[1] = "str" -> Quoted(e[2])
      [] e[1] = "set" -> Variable(e[2]) \o Sign("=") \o ExprText(e[3])
      [] e[1] = "un" -> Sign(e[2]) \o Within(e[3], 0)
      [] e[1] = "bin" -> Within(e[3], Binds(e)) \o Sign(e[2]) \o Within(e[4], Binds(e) - 1)
      [] e[1] = "call" -> Function(e[2])
                          \o Brackets(Listed([i \in DOMAIN e[3] |-> ExprText(e[3][i])]))
StatText(t) ==
    CASE t[1] = "do" -> ExprText(t[2]) \o Sign(";")
      [] t[1] = "if" -> Sign("if") \o Brackets(ExprText(t[2])) \o StatText(t[3])
      [] t[1] = "else" -> Sign("if") \o Brackets(ExprText(t[2])) \o StatText(t[3])
                          \o Sign("else") \o StatText(t[4])
      [] t[1] = "block" -> Sign("{") \o FlattenSeq([i \in DOMAIN t[2] |-> StatText(t[2][i])])
                           \o Sign("}")
      [] t[1] = "while" -> Sign("while") \o Brackets(ExprText(t[2])) \o StatText(t[3])
      [] t[1] = "return" -> Sign("return") \o ExprText(t[2]) \o Sign(";")

-----------------------------------------------------------------------------
(* What a tree does to a world: a record of the variables, the calls made, *)
(* the last value, and whether the rule has returned.                      *)

\* The functions answer the number of their arguments and their first number.
Answer(args) ==
    Len(args) + FoldLeft(LAMBDA n, a : IF n = 0 /\ ~a.string THEN a.value ELSE n, 0, args)

RECURSIVE Evaluated(_, _), Passed(_, _, _), Executed(_, _), Repeated(_, _)
\* e has been evaluated in w; every operand of an operator is, in order.
Evaluated(e, w) ==
    CASE e[1] = "num" -> [w EXCEPT !.value = e[2]]
      [] e[1] = "val" -> [w EXCEPT !.value = w.vars[e[2]]]
      [] e[1] = "set" -> LET x == Evaluated(e[3], w) IN [x EXCEPT !.vars[e[2]] = x.value]
      [] e[1] = "un" -> LET x == Evaluated(e[3], w) IN [x EXCEPT !.value = Unary(e[2], @)]
      [] e[1] = "bin" -> LET l == Evaluated(e[3], w)
                             r == Evaluated(e[4], l)
                         IN [r EXCEPT !.value = Binary(e[2], l.value, r.value)]
      [] e[1] = "call" -> Passed(e, <<>>, w)

\* The arguments got are evaluated; the others follow, and then the call.
Passed(e, got, w) ==
    LET n == Len(got) + 1
        x == IF e[3][n][1] = "str" THEN w ELSE Evaluated(e[3][n], w)
        arg == IF e[3][n][1] = "str" THEN [string |-> TRUE, words |-> e[3][n][2]]
               ELSE [string |-> FALSE, value |-> x.value]
    IN IF n > Len(e[3])
       THEN [w EXCEPT !.calls = Append(@, [fn |-> e[2], args |-> got]), !.value = Answer(got)]
       ELSE Passed(e, Append(got, arg), x)

Executed(t, w) ==
    LET c == Evaluated(t[2], w)
        none == [c EXCEPT !.value = 0]
    IN CASE t[1] = "do" -> c
         [] t[1] = "if" -> IF c.value # 0 THEN Executed(t[3], none) ELSE none
         [] t[1] = "else" -> Executed(IF c.value # 0 THEN t[3] ELSE t[4], none)
         [] t[1] = "block" -> FoldLeft(LAMBDA x, s : IF x.done THEN x ELSE Executed(s, x),
                                       [w EXCEPT !.value = 0], t[2])
         [] t[1] = "while" -> Repeated(t, [w EXCEPT !.value = 0])
         [] t[1] = "return" -> [c EXCEPT !.done = TRUE]

\* The value of a while is that of its last statement.
Repeated(t, w) ==
    LET c == Evaluated(t[2], w)
        body == Executed(t[3], c)
    IN CASE c.value = 0 -> [c EXCEPT !.value = w.value]
         [] body.done -> body
         [] OTHER -> Repeated(t, body)

\* A rule is a sequence of statements.
Text(rule) == FlattenSeq([i \in DOMAIN rule |-> StatText(rule[i])])
Meaning(rule, vars) ==
    Executed(<<"block", rule>>, [vars |-> vars, calls |-> <<>>, value |-> 0, done |-> FALSE])
=============================================================================
