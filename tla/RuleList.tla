------------------------------ MODULE RuleList ------------------------------
(***************************************************************************)
(* What the /rule and /logrule requests promise: two lists of lines, each  *)
(* of which can be appended to, cut and replaced by line number, and which *)
(* have nothing to do with one another.  Lines are numbered from 0.        *)
(***************************************************************************)
EXTENDS Integers, Sequences, SequencesExt

CONSTANTS
    Lines,          \* the lines a request may carry
    Rules, Conf,    \* names of the two lists
    FileLines       \* the configuration of a new unit and after a reset

VARIABLE lists

Lists == {Rules, Conf}

Fresh == [l \in Lists |-> IF l = Rules THEN <<>> ELSE FileLines]

Init == lists = Fresh

Add(l, r) == lists' = [lists EXCEPT ![l] = Append(@, r)]
Del(l, n) == lists' = [lists EXCEPT ![l] = RemoveAt(@, n + 1)]
Rep(l, n, r) == lists' = [lists EXCEPT ![l] = ReplaceAt(@, n + 1, r)]

Reset == lists' = Fresh

Next ==
    \/ \E l \in Lists :
          \/ \E r \in Lines : Add(l, r)
          \/ \E n \in 0..(Len(lists[l]) - 1) :
                Del(l, n) \/ \E r \in Lines : Rep(l, n, r)
    \/ Reset

Spec == Init /\ [][Next]_lists
=============================================================================
