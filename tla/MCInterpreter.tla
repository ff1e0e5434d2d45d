---- MODULE MCInterpreter ----
(***************************************************************************)
(* Rules with every pair of operators in each order, blocks, nested ifs,   *)
(* loops and returns, calls within calls and strings, some too long for    *)
(* the stack; texts with mistakes of every kind the parser looks for.      *)
(***************************************************************************)
EXTENDS Interpreter

N(n) == <<"num", n>>
A == <<"val", "a">>
B == <<"val", "b">>
SetB(e) == <<"set", "b", e>>
Bin(op, l, r) == <<"bin", op, l, r>>
Do(e) == <<"do", e>>
Call(f, args) == <<"call", f, args>>
Str(words) == <<"str", words>>
Block(ss) == <<"block", ss>>
If(c, t) == <<"if", c, t>>
IfElse(c, t, e) == <<"else", c, t, e>>
While(c, t) == <<"while", c, t>>

\* One operator of each level, and each pair of them on either side.
Ops == {"*", "-", "<<", "<", "|", "&&"}
Pairs == {Bin(p, Bin(q, N(5), N(2)), N(3)) : p, q \in Ops}
    \cup {Bin(p, N(7), Bin(q, N(2), N(1))) : p, q \in Ops}
Others == {Bin("/", <<"un", "-", N(7)>>, N(2)), Bin("%", <<"un", "-", N(7)>>, N(2)),
           Bin("==", <<"un", "!", A>>, <<"un", "~", N(0)>>), Bin(">=", A, SetB(N(3)))}
Assignments == {<<Do(SetB(e)), Do(<<"set", "a", Bin("-", N(1), A)>>)>> : e \in Pairs \cup Others}

CallOne == Do(Call("f", <<N(1), A>>))
Calls ==
    {CallOne,
     Do(SetB(Bin("+", N(2), Call("f", <<Str(<<7>>), Bin("*", N(2), N(3))>>)))),
     Do(Call("f", <<Call("g", <<N(4)>>), Call("g", <<>>)>>)),
     Do(Call("f", <<Str(<<7, 8>>), Call("g", <<Str(<<9>>)>>)>>)),
     Do(Call("f", <<Call("g", <<Str(<<9, 9>>)>>), Str(<<7>>)>>)),
     Do(Call("f", <<N(3), Str([i \in 1..10 |-> 9])>>)),
     Do(Call("f", <<N(3), Str([i \in 1..16 |-> 9])>>)),
     Do(Call("f", <<Str([i \in 1..10 |-> 9]), Call("g", <<N(3), N(4)>>)>>))}

\* x under every choice, taken or skipped.
ZeroB == Do(SetB(N(0)))
Choice(c, x) ==
    {If(c, x), IfElse(c, x, Do(SetB(N(2)))), If(c, If(B, x)), If(c, IfElse(B, ZeroB, x)),
     IfElse(c, Block(<<If(B, ZeroB)>>), Block(<<x, Do(SetB(N(1)))>>)),
     IfElse(c, Block(<<x, Block(<<Do(SetB(A))>>)>>), <<"return", N(4)>>)}
FlipA == Do(<<"set", "a", Bin("-", N(1), A)>>)
Chosen == UNION {{<<FlipA, s, Do(B)>> : s \in Choice(A, x)} : x \in Calls} 

Up == SetB(Bin("+", B, N(1)))
Loops ==
    {<<ZeroB, s, Do(A)>> : s \in
        {While(Bin("<", B, N(3)), Do(Up)), While(Bin("<", Up, N(3)), CallOne),
         While(N(1), If(Bin(">", Up, N(2)), <<"return", Bin("*", B, N(5))>>)),
         While(Bin("<", Up, N(4)), IfElse(Bin("==", B, N(2)), Block(<<>>), CallOne)),
         If(N(0), While(N(1), Do(A)))}}

MCRules == Assignments \cup {<<x>> : x \in Calls} \cup Chosen \cup Loops

V(v) == << <<"var", v>> >>
MCSlips ==
    {Number(1) \o Sign("+"),                                        \* an operand missing
     Sign(")"),
     V("b") \o Sign("=") \o Sign(";") \o Number(2) \o Sign("-"),
     Sign("(") \o Number(1),                                        \* a bracket missing
     Number(1) \o Sign("bad") \o Number(2),                         \* 1 ? 2
     Sign("bad"),
     Number(1) \o Sign("/") \o Number(0),
     Sign("else") \o V("b"),
     Sign("if") \o Brackets(Number(1) \o Sign("+")) \o V("b") \o Sign("++")}
MCArgSlips ==
    {Function("f") \o Sign("(") \o Number(1),
     Function("f") \o Brackets(Sign(",") \o Number(1)),
     Function("f") \o Brackets(Number(1) \o Sign("+")),
     Function("f") \o Brackets(Quoted(<<7>>) \o Quoted(<<8>>))}
====
