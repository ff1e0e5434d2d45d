------------------------------ MODULE LevelSums ------------------------------
(***************************************************************************)
(* The class Level of SensorServer.ino: running sums over the readings of  *)
(* a water level, and what they were after the last reading of each hour   *)
(* of the day.  The trend between two hours is made of differences of      *)
(* these.  The sums are kept in longs and the readings counted in a byte,  *)
(* which wrap.  But a level is a float, and so is, for the time of an      *)
(* addition, every sum that it is added to: what a float cannot tell apart *)
(* is lost, and a float beyond the longs becomes the last of them.         *)
(***************************************************************************)
EXTENDS Integers

CONSTANTS
    N12,            \* hours of the day that are kept, 24
    N3600,          \* length of an hour, in the unit of ora
    ByteSize,       \* 2^8
    LongSize,       \* 2^32
    Mantissa,       \* 2^24: the whole numbers below are floats
    Ulps            \* the distances of the floats from there on: 1, 2, 4, ...

ASSUME HourAssumption == N12 \in Nat \ {0} /\ N3600 \in Nat \ {0}
ASSUME WidthAssumption == ByteSize \in Nat \ {0} /\ LongSize \in Nat \ {0, 1}
\* The distances reach as far as the sums do.
ASSUME FloatAssumption ==
    /\ Mantissa \in Nat \ {0} /\ Ulps \subseteq Nat \ {0}
    /\ \E u, w \in Ulps : LongSize < u * Mantissa /\ N12 * N3600 < u /\ 4 * u <= w

Hours == 0..(N12 - 1)
HourOf(ora) == ora \div N3600

\* The longs, and what an addition or a subtraction makes of its sum.
Longs == (-(LongSize \div 2))..(LongSize - 1 - LongSize \div 2)
Long(v) == ((v + LongSize \div 2) % LongSize) - LongSize \div 2

\* The distance of the floats about v; the float next to v, of two the one that
\* is even.
Abs(v) == IF v < 0 THEN -v ELSE v
Spans(u, v) == Abs(v) < u * Mantissa
Ulp(v) == CHOOSE u \in Ulps : Spans(u, v) /\ \A w \in Ulps : Spans(w, v) => u <= w
Float(v) ==
    LET u == Ulp(v)
        q == v \div u
        rest == v % u
        up == 2 * rest > u \/ (2 * rest = u /\ q % 2 = 1)
    IN u * (IF up THEN q + 1 ELSE q)

\* The long made of a float.
FloatToLong(v) ==
    IF v \in Longs THEN v ELSE IF v < 0 THEN -(LongSize \div 2)
    ELSE LongSize - 1 - LongSize \div 2

(* sumX, sumY, sumXY and sumX2, and what a reading adds to them.           *)
Sums == {"X", "Y", "XY", "X2"}
Sample(ora, value) ==
    [f \in Sums |-> CASE f = "X" -> ora
                      [] f = "Y" -> value
                      [] f = "XY" -> value * ora
                      [] f = "X2" -> ora * ora]

\* An addition to one of the sums: a long to a long, or a float to a long.
Whole == {"X", "X2"}
Add(f, sum, sample) ==
    IF f \in Whole THEN Long(sum + sample)
    ELSE FloatToLong(Float(Float(sum) + Float(sample)))

\* What an object of the class holds.
Pools ==
    [n_sample : 0..(ByteSize - 1), sum : [Sums -> Longs],
     SN : [Hours -> 0..(ByteSize - 1)], S : [Hours -> [Sums -> Longs]]]

None == [f \in Sums |-> 0]
Plus(a, b) == [f \in Sums |-> Add(f, a[f], b[f])]
Minus(a, b) == [f \in Sums |-> Long(a[f] - b[f])]

\* The sums of the day, and of its hours: those that this day has not read
\* yet are as an earlier day left them.
levelBegin(p) == [p EXCEPT !.n_sample = 0, !.sum = None]

\* Mutant: the hour's sums are noted before the reading is added.
levelFit_behind(p, ora, value) ==
    LET h == HourOf(ora) IN
    [n_sample |-> (p.n_sample + 1) % ByteSize, sum |-> Plus(p.sum, Sample(ora, value)),
     SN |-> [p.SN EXCEPT ![h] = p.n_sample], S |-> [p.S EXCEPT ![h] = p.sum]]

levelFit(p, ora, value) ==
    LET h == HourOf(ora)
        sum == Plus(p.sum, Sample(ora, value))
    IN [n_sample |-> (p.n_sample + 1) % ByteSize, sum |-> sum,
        SN |-> [p.SN EXCEPT ![h] = p.n_sample], S |-> [p.S EXCEPT ![h] = sum]]

\* ns and s1 to s4; only with ns above 0 are they used.
levelGet(p, ind1, ind2) ==
    [ns |-> p.SN[ind2] - p.SN[ind1], s |-> Minus(p.S[ind2], p.S[ind1])]
=============================================================================
