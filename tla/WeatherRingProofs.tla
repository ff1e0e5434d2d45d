-------------------------- MODULE WeatherRingProofs --------------------------
(***************************************************************************)
(* What a restart of the ring keeps and what a round adds after a gap, for *)
(* every size of the ring, interval and number of power failures.          *)
(***************************************************************************)
EXTENDS WeatherRing, FiniteSetTheorems, TLAPS

\* The order of the commits as seen from any point: the index in EEPROM is one
\* behind iw, but for the moment between the two commits, and only the slot the
\* index was just moved to may differ from the ring.
Agree ==
    /\ pc \in {"idle", "index"} =>
          /\ RestoredIw(index) = iw
          /\ \A i \in Slot : ring[i] # Never => RestoredRing(index, slots)[i] = ring[i]
    /\ pc = "slot" =>
          /\ index = iw /\ ring[iw] \in Nat
          /\ \A i \in Slot \ {iw} : ring[i] # Never => slots[i] = ring[i]

\* Where the latest reading is, unless a power failure has left the index on
\* another: behind the index in EEPROM, and behind iw.
Known ==
    /\ pc # "slot" /\ ~stale => latest = IF index \in Slot THEN slots[index] ELSE 0
    /\ pc \in {"idle", "index"} /\ ~stale => ring[Latest] = latest

IInv == TypeOK /\ Agree /\ Known

-----------------------------------------------------------------------------
\* Stepping on from a slot arrives at a slot, behind which lies the first.
LEMMA SuccIsSlot ==
    ASSUME NEW i \in Slot
    PROVE  /\ Succ(i) \in Slot
           /\ i = IF Succ(i) = 0 THEN MAX_WEATHER_READ - 1 ELSE Succ(i) - 1
BY RingAssumption DEF Slot, Succ

\* A ring has a first slot.
LEMMA ZeroIsSlot == 0 \in Slot
BY RingAssumption DEF Slot

\* A ring of which nothing was filled is a ring.
LEMMA EmptyRing == [i \in Slot |-> Never] \in [Slot -> Nat \cup {Erased}]
BY DEF Never

\* What setup() restores is a ring and a slot of it, whatever it found.
LEMMA RestoredTypes ==
    ASSUME TypeOK
    PROVE  /\ RestoredRing(index, slots) \in [Slot -> Nat \cup {Erased}]
           /\ RestoredIw(index) \in Slot
<1>1. RestoredIw(index) \in Slot
  BY ZeroIsSlot, SuccIsSlot DEF RestoredIw
<1> QED BY <1>1, EmptyRing DEF TypeOK, RestoredRing

\* A new unit's copies agree with its ring.
LEMMA InitEstablishes == Init => IInv
<1> SUFFICES ASSUME Init PROVE IInv
  OBVIOUS
<1>1. ring \in [Slot -> Nat \cup {Erased}] /\ slots \in [Slot -> Nat \cup {Erased}]
  BY EmptyRing DEF Init, Never
<1>2. NoIndex \notin Slot
  BY RingAssumption DEF NoIndex, Slot
<1>3. iw \in Slot /\ torn \in 0..MaxTorn
  BY ZeroIsSlot, TornAssumption DEF Init
<1>4. index \in Slot \cup {NoIndex}
  BY DEF Init
<1>5. /\ pc \in {"off", "idle", "index", "slot"} /\ span \in Nat /\ due \in Nat
      /\ now \in Nat \ {0} /\ latest \in Nat
  BY SMT DEF Init
<1>6. stale \in BOOLEAN
  BY Zenon DEF Init
<1>7. TypeOK
  BY <1>1, <1>3, <1>4, <1>5, <1>6 DEF TypeOK
<1> QED BY <1>2, <1>7 DEF Init, IInv, Agree, Known

\* The types are kept by every step; a slot's time is one, not what erased
\* flash reads as, when it becomes the latest.
LEMMA TypeStep == IInv /\ [Next]_vars => TypeOK'
<1> SUFFICES ASSUME IInv, [Next]_vars PROVE TypeOK'
  OBVIOUS
<1> USE DEF IInv, TypeOK
<1>1. CASE Boot
  <2>1. due' \in Nat
    BY <1>1, TimeAssumption DEF Boot
  <2> QED BY <1>1, <2>1, RestoredTypes DEF Boot, history
<1>2. CASE Read
  <2>1. Latest \in Slot
    BY RingAssumption DEF Latest, Slot
  <2>2. ring[Latest] \in Int
    BY <2>1 DEF Erased
  <2>3. Elapsed \in Nat
    BY <2>2, TimeAssumption DEF Elapsed
  <2>4. span' \in Nat /\ due' \in Nat
    BY <1>2, <2>3, TimeAssumption DEF Read
  <2> QED BY <1>2, <2>4 DEF Read, history
<1>3. CASE CommitIndex
  BY <1>3 DEF CommitIndex, history
<1>4. CASE CommitSlot
  <2>1. ring[iw] \in Nat
    BY <1>4 DEF CommitSlot, Agree
  <2> QED BY <1>4, <2>1, SuccIsSlot DEF CommitSlot
<1>5. CASE PowerLoss
  <2>1. torn' \in 0..MaxTorn /\ stale' \in BOOLEAN
    <3>1. CASE pc = "slot"
      BY <1>5, <3>1, TornAssumption DEF PowerLoss
    <3> QED BY <1>5, <3>1 DEF PowerLoss
  <2> QED BY <1>5, <2>1, ZeroIsSlot, EmptyRing DEF PowerLoss
<1>6. CASE Tick
  BY <1>6 DEF Tick, history
<1>7. CASE UNCHANGED vars
  BY <1>7 DEF vars, history
<1> QED BY <1>1, <1>2, <1>3, <1>4, <1>5, <1>6, <1>7 DEF Next

\* Ring and EEPROM agree after every step.
LEMMA AgreeStep == IInv /\ [Next]_vars => Agree'
<1> SUFFICES ASSUME IInv, [Next]_vars PROVE Agree'
  OBVIOUS
<1> USE DEF IInv, Agree
<1>1. CASE Boot
  BY <1>1 DEF Boot
<1>2. CASE Read
  BY <1>2 DEF Read
<1>3. CASE CommitIndex
  <2>1. index' = iw /\ iw' = iw /\ slots' = slots /\ pc' = "slot"
    BY <1>3 DEF CommitIndex
  <2>2. ring'[iw] = now /\ \A i \in Slot \ {iw} : ring'[i] = ring[i]
    BY <1>3 DEF CommitIndex, TypeOK
  <2>3. ASSUME NEW i \in Slot, ring[i] # Never PROVE slots[i] = ring[i]
    BY <1>3, <2>3 DEF CommitIndex, RestoredRing
  <2> QED BY <2>1, <2>2, <2>3 DEF TypeOK
<1>4. CASE CommitSlot
  <2>1. index' \in Slot /\ iw' = Succ(index') /\ pc' = "idle" /\ ring' = ring
    BY <1>4 DEF CommitSlot, TypeOK
  <2>2. \A i \in Slot : slots'[i] = IF i = iw THEN ring[iw] ELSE slots[i]
    BY <1>4 DEF CommitSlot, TypeOK
  <2>3. \A i \in Slot : ring[i] # Never => slots'[i] = ring[i]
    BY <1>4, <2>2 DEF CommitSlot
  <2> QED BY <2>1, <2>3 DEF RestoredIw, RestoredRing
<1>5. CASE PowerLoss
  BY <1>5 DEF PowerLoss
<1>6. CASE Tick
  BY <1>6 DEF Tick
<1>7. CASE UNCHANGED vars
  BY <1>7 DEF vars
<1> QED BY <1>1, <1>2, <1>3, <1>4, <1>5, <1>6, <1>7 DEF Next

\* The latest reading is where the next round looks for it.
LEMMA KnownStep == IInv /\ [Next]_vars => Known'
<1> SUFFICES ASSUME IInv, [Next]_vars PROVE Known'
  OBVIOUS
<1> USE DEF IInv, Known
<1>1. CASE Boot
  <2>1. SUFFICES ASSUME ~stale PROVE ring'[Latest'] = latest
    BY <1>1 DEF Boot, history
  <2>2. iw' = RestoredIw(index) /\ ring' = RestoredRing(index, slots)
    BY <1>1 DEF Boot
  <2>3. CASE index \in Slot
    <3>1. Latest' = index
      BY <2>2, <2>3, SuccIsSlot DEF Latest, RestoredIw
    <3> QED BY <1>1, <2>1, <2>2, <2>3, <3>1 DEF Boot, RestoredRing
  <2>4. CASE index \notin Slot
    <3>1. Latest' = 0
      BY <2>2, <2>4, SuccIsSlot, ZeroIsSlot DEF Latest, RestoredIw
    <3> QED BY <1>1, <2>1, <2>2, <2>4, <3>1, ZeroIsSlot DEF Boot, RestoredRing, Never
  <2> QED BY <2>3, <2>4
<1>2. CASE Read
  BY <1>2 DEF Read, history, Latest
<1>3. CASE CommitIndex
  BY <1>3 DEF CommitIndex
<1>4. CASE CommitSlot
  <2>1. index' = iw /\ iw \in Slot /\ iw' = Succ(iw) /\ latest' = ring[iw] /\ ring' = ring
    BY <1>4 DEF CommitSlot, Agree, TypeOK
  <2>2. slots'[iw] = ring[iw]
    BY <1>4 DEF CommitSlot, TypeOK
  <2>3. Latest' = iw
    BY <2>1, SuccIsSlot DEF Latest
  <2> QED BY <2>1, <2>2, <2>3
<1>5. CASE PowerLoss
  <2>1. CASE pc = "slot"
    BY <1>5, <2>1 DEF PowerLoss
  <2>2. CASE pc # "slot"
    BY <1>5, <2>2 DEF PowerLoss
  <2> QED BY <2>1, <2>2
<1>6. CASE Tick
  BY <1>6 DEF Tick, history, Latest
<1>7. CASE UNCHANGED vars
  BY <1>7 DEF vars, history, Latest
<1> QED BY <1>1, <1>2, <1>3, <1>4, <1>5, <1>6, <1>7 DEF Next

\* Together: ring and copies always agree, but for what a round has yet to commit.
LEMMA Inductive == Spec => []IInv
<1>1. IInv /\ [Next]_vars => IInv'
  BY TypeStep, AgreeStep, KnownStep DEF IInv
<1> QED BY <1>1, InitEstablishes, PTL DEF Spec

-----------------------------------------------------------------------------
\* iw and the stored index always name slots, for any ring of up to 254.
THEOREM TypeCorrect == Spec => []TypeOK
<1>1. IInv => TypeOK
  BY DEF IInv
<1> QED BY <1>1, Inductive, PTL

\* A restart between two rounds loses no reading and goes on at the same slot,
\* whatever power failures came before.
THEOREM RestartKeepsRing == Spec => []RestartIsSeamless
<1>1. IInv => RestartIsSeamless
  BY DEF IInv, Agree, RestartIsSeamless
<1> QED BY <1>1, Inductive, PTL

\* A round that makes up for a gap adds the time since the last committed
\* reading, unless the latest power failure fell between index and slot.
THEOREM GapsAreSinceLatest == Spec => GapSinceLatest
<1>1. ASSUME IInv, Read, span' > timeint, ~stale
      PROVE  span' = now - latest
  <2>1. span' \in {0, Elapsed}
    BY <1>1 DEF Read
  <2>2. span' = Elapsed
    BY <1>1, <2>1, TimeAssumption
  <2>3. Elapsed = now - ring[Latest]
    BY <1>1, <2>2, TimeAssumption DEF Elapsed
  <2>4. ring[Latest] = latest
    BY <1>1 DEF IInv, Known, Read
  <2> QED BY <2>2, <2>3, <2>4
<1>2. IInv /\ [Next]_vars => [Read /\ span' > timeint /\ ~stale => span' = now - latest]_vars
  BY <1>1
<1> QED BY <1>2, Inductive, PTL DEF Spec, GapSinceLatest

-----------------------------------------------------------------------------
(* The order of the readings. *)

\* Where EEPROM has the oldest reading, and so where its order begins; a torn
\* commit has moved the index on and not yet written the slot.
Oldest == IF pc = "slot" THEN index ELSE RestoredIw(index)

\* The slots of s before one that was read earlier, but for the last in order.
Descents(s, first) == {p \in Slot : Succ(p) # first /\ s[p] > s[Succ(p)]}

\* What EEPROM holds was read in the past, and in order but for torn readings.
Ordered ==
    /\ \A i \in Slot : slots[i] # Never /\ slots[i] <= now
    /\ index \notin Slot => \A i \in Slot : slots[i] = Erased
    /\ Cardinality(Descents(slots, Oldest)) <= torn
    /\ pc = "slot" => ring[iw] \in Nat \ {0} /\ ring[iw] <= now /\ \A i \in Slot : slots[i] <= ring[iw]

\* The ring is what EEPROM holds, with the slots that were never filled as Never
\* until the first restart that finds an index, and as Erased after it.
Mirrors ==
    pc # "off" =>
        \E low \in {Never, Erased} :
            \A i \in Slot : \/ pc = "slot" /\ i = iw
                            \/ ring[i] = IF slots[i] = Erased THEN low ELSE slots[i]

OrderInv == IInv /\ Ordered /\ Mirrors

\* Descents are finitely many.
LEMMA DescentsAreFinite ==
  ASSUME NEW s, NEW first
  PROVE  IsFiniteSet(Descents(s, first)) /\ Cardinality(Descents(s, first)) \in Nat
<1>1. IsFiniteSet(Slot)
  BY FS_Interval, RingAssumption DEF Slot
<1>2. Descents(s, first) \in SUBSET Slot
  BY DEF Descents
<1>3. IsFiniteSet(Descents(s, first))
  BY <1>1, <1>2, FS_Subset
<1> QED BY <1>3, FS_CardinalityType

\* Fewer places where the ring goes back are fewer to count.
LEMMA FewerDescents ==
  ASSUME NEW s, NEW first, NEW t, NEW next, Descents(s, first) \subseteq Descents(t, next)
  PROVE  Cardinality(Descents(s, first)) <= Cardinality(Descents(t, next))
BY DescentsAreFinite, FS_Subset

\* No two slots are before the same one.
LEMMA SuccIsInjective ==
  ASSUME NEW i \in Slot, NEW j \in Slot, Succ(i) = Succ(j)
  PROVE  i = j
BY SuccIsSlot

\* An empty ring is in order.
LEMMA OrderStart == Init => OrderInv
<1> SUFFICES ASSUME Init PROVE OrderInv
  OBVIOUS
<1>1. NoIndex \notin Slot
  BY RingAssumption DEF NoIndex, Slot
<1>2. \A i \in Slot : slots[i] = Erased
  BY DEF Init
<1>3. Descents(slots, Oldest) = {}
  <2>1. \A i \in Slot : slots[Succ(i)] = Erased
    BY <1>2, SuccIsSlot
  <2> QED BY <1>2, <2>1 DEF Descents, Erased
<1>4. Cardinality(Descents(slots, Oldest)) = 0
  BY <1>3, FS_EmptySet
<1>5. Ordered
  BY <1>1, <1>2, <1>4 DEF Ordered, Init, Erased, Never
<1>6. Mirrors
  BY DEF Mirrors, Init
<1> QED BY <1>5, <1>6, InitEstablishes DEF OrderInv

\* Every step leaves a ring that goes back no more often than was torn.
LEMMA OrderedStep == OrderInv /\ [Next]_vars => Ordered'
<1> SUFFICES ASSUME OrderInv, [Next]_vars PROVE Ordered'
  OBVIOUS
<1>0. TypeOK /\ Agree /\ Ordered
  BY DEF OrderInv, IInv
<1>t. slots \in [Slot -> Nat \cup {Erased}] /\ ring \in [Slot -> Nat \cup {Erased}] /\ now \in Nat \ {0} /\ iw \in Slot
  BY <1>0 DEF TypeOK
<1>1. CASE UNCHANGED <<index, slots, torn>> /\ now <= now' /\ pc \notin {"slot"} /\ pc' # "slot" /\ now' \in Nat
  <2>1. Oldest' = Oldest
    BY <1>1 DEF Oldest, RestoredIw, Succ
  <2>2. Descents(slots', Oldest') = Descents(slots, Oldest)
    BY <1>1, <2>1 DEF Descents, Succ
  <2>3. \A i \in Slot : slots[i] \in Int /\ slots[i] <= now'
    BY <1>0, <1>1, <1>t DEF Ordered, Erased
  <2> QED BY <1>0, <1>1, <2>2, <2>3 DEF Ordered
<1>2. CASE Boot
  BY <1>1, <1>2, <1>t DEF Boot, history
<1>3. CASE Read
  BY <1>1, <1>3, <1>t DEF Read, history
<1>4. CASE CommitIndex
  <2>1. /\ pc = "index" /\ pc' = "slot" /\ ring' = [ring EXCEPT ![iw] = now] /\ index' = iw
        /\ UNCHANGED <<iw, slots, now, torn>>
    BY <1>4 DEF CommitIndex, history
  <2>2. Oldest = iw /\ Oldest' = iw
    BY <1>0, <2>1 DEF Oldest, Agree
  <2>3. Descents(slots', Oldest') = Descents(slots, Oldest)
    BY <2>1, <2>2 DEF Descents, Succ
  <2>4. ring'[iw'] = now
    BY <1>t, <2>1
  <2> QED BY <1>0, <1>t, <2>1, <2>3, <2>4 DEF Ordered
<1>5. CASE CommitSlot
  <2>1. /\ pc = "slot" /\ pc' = "idle" /\ slots' = [slots EXCEPT ![iw] = ring[iw]]
        /\ iw' = Succ(iw) /\ index = iw /\ UNCHANGED <<index, ring, now, torn>>
    BY <1>0, <1>5 DEF CommitSlot, Agree
  <2>2. Oldest = iw /\ Oldest' = Succ(iw)
    BY <1>t, <2>1 DEF Oldest, RestoredIw, Succ
  <2>3. slots'[iw] = ring[iw] /\ \A i \in Slot : i # iw => slots'[i] = slots[i]
    BY <1>t, <2>1
  <2>4. ASSUME NEW p \in Slot, Succ(p) # Succ(iw), slots'[p] > slots'[Succ(p)]
        PROVE  Succ(p) # iw /\ slots[p] > slots[Succ(p)]
    <3>1. p # iw
      BY <2>4
    <3>2. Succ(p) # iw
      <4>1. slots[p] <= ring[iw] /\ slots[p] \in Int /\ ring[iw] \in Int
        BY <1>0, <1>t, <2>1 DEF Ordered, Erased
      <4> QED BY <2>3, <2>4, <3>1, <4>1
    <3> QED BY <2>3, <2>4, <3>1, <3>2, SuccIsSlot
  <2>5. Descents(slots', Succ(iw)) \subseteq Descents(slots, iw)
    BY <2>4 DEF Descents
  <2>6. Cardinality(Descents(slots', Succ(iw))) <= Cardinality(Descents(slots, iw))
    BY <2>5, FewerDescents
  <2>7. Cardinality(Descents(slots', Oldest')) <= torn'
    <3>1. Cardinality(Descents(slots, iw)) <= torn /\ torn \in Nat
      BY <1>0, <2>2, TornAssumption DEF Ordered, TypeOK
    <3> QED BY <2>1, <2>2, <2>6, <3>1, DescentsAreFinite
  <2>8. \A i \in Slot : slots'[i] # Never /\ slots'[i] <= now'
    BY <1>0, <2>1, <2>3 DEF Ordered, Never
  <2> QED BY <1>t, <2>1, <2>7, <2>8 DEF Ordered
<1>6. CASE PowerLoss /\ pc # "slot"
  BY <1>1, <1>6, <1>t DEF PowerLoss
<1>7. CASE PowerLoss /\ pc = "slot"
  <2>1. /\ pc = "slot" /\ pc' = "off" /\ torn' = torn + 1 /\ index = iw
        /\ UNCHANGED <<index, slots, now>>
    BY <1>0, <1>7 DEF PowerLoss, Agree
  <2>2. Oldest = iw /\ Oldest' = Succ(iw)
    BY <1>t, <2>1 DEF Oldest, RestoredIw, Succ
  <2> DEFINE D == Descents(slots, iw)
             E == Descents(slots, Succ(iw))
  <2>3. \E x : E \subseteq D \cup {x}
    <3>1. CASE \E x \in Slot : Succ(x) = iw
      <4>1. PICK x \in Slot : Succ(x) = iw
        BY <3>1
      <4>2. E \subseteq D \cup {x}
        BY <4>1, SuccIsInjective DEF Descents
      <4> QED BY <4>2
    <3>2. CASE ~\E x \in Slot : Succ(x) = iw
      BY <3>2 DEF Descents
    <3> QED BY <3>1, <3>2
  <2>4. PICK x : E \subseteq D \cup {x}
    BY <2>3
  <2>5. Cardinality(E) <= Cardinality(D) + 1
    <3>1. IsFiniteSet(D) /\ Cardinality(D) \in Nat /\ Cardinality(E) \in Nat
      BY DescentsAreFinite
    <3> HIDE DEF D, E
    <3>2. IsFiniteSet(D \cup {x}) /\ Cardinality(D \cup {x}) <= Cardinality(D) + 1
      BY <3>1, FS_AddElement
    <3>3. Cardinality(E) <= Cardinality(D \cup {x})
      BY <2>4, <3>2, FS_Subset
    <3>4. Cardinality(D \cup {x}) \in Nat
      BY <3>2, FS_CardinalityType
    <3> QED BY <3>1, <3>2, <3>3, <3>4
  <2>6. Cardinality(Descents(slots', Oldest')) = Cardinality(E)
    BY <2>1, <2>2
  <2>7. Cardinality(E) <= torn'
    <3>1. Cardinality(D) <= torn /\ torn \in Nat
      BY <1>0, <2>2, TornAssumption DEF Ordered, TypeOK
    <3> QED BY <2>1, <2>5, <3>1, DescentsAreFinite
  <2> QED BY <1>0, <1>t, <2>1, <2>6, <2>7 DEF Ordered
<1>8. CASE Tick /\ pc # "slot"
  <2>1. now' \in Nat /\ now <= now'
    BY <1>8, <1>t DEF Tick
  <2> QED BY <1>1, <1>8, <2>1 DEF Tick, history
<1>9. CASE Tick /\ pc = "slot"
  <2>1. now' = now + 1 /\ UNCHANGED <<pc, ring, iw, index, slots, torn>>
    BY <1>9 DEF Tick, history
  <2>2. Oldest' = Oldest /\ Descents(slots', Oldest') = Descents(slots, Oldest)
    BY <2>1 DEF Oldest, RestoredIw, Succ, Descents
  <2>3. \A i \in Slot : slots[i] \in Int
    BY <1>t DEF Erased
  <2> QED BY <1>0, <1>t, <2>1, <2>2, <2>3 DEF Ordered
<1>10. CASE UNCHANGED vars
  <2>1. UNCHANGED <<pc, ring, iw, index, slots, now, torn>>
    BY <1>10 DEF vars, history
  <2>2. Oldest' = Oldest /\ Descents(slots', Oldest') = Descents(slots, Oldest)
    BY <2>1 DEF Oldest, RestoredIw, Succ, Descents
  <2> QED BY <1>0, <2>1, <2>2 DEF Ordered
<1> QED BY <1>2, <1>3, <1>4, <1>5, <1>6, <1>7, <1>8, <1>9, <1>10 DEF Next

\* Every step leaves the ring what EEPROM holds, but for what was never filled.
LEMMA MirrorsStep == OrderInv /\ [Next]_vars => Mirrors'
<1> SUFFICES ASSUME OrderInv, [Next]_vars PROVE Mirrors'
  OBVIOUS
<1>0. TypeOK /\ Agree /\ Ordered /\ Mirrors
  BY DEF OrderInv, IInv
<1>t. slots \in [Slot -> Nat \cup {Erased}] /\ ring \in [Slot -> Nat \cup {Erased}] /\ now \in Nat \ {0} /\ iw \in Slot
  BY <1>0 DEF TypeOK
<1>1. CASE UNCHANGED <<pc, ring, iw, slots>>
  BY <1>0, <1>1 DEF Mirrors
<1>2. CASE Boot
  <2>1. ring' = RestoredRing(index, slots) /\ slots' = slots
    BY <1>2 DEF Boot
  <2>2. CASE index \in Slot
    <3>1. \A i \in Slot : ring'[i] = IF slots'[i] = Erased THEN Erased ELSE slots'[i]
      BY <2>1, <2>2 DEF RestoredRing
    <3> QED BY <3>1 DEF Mirrors
  <2>3. CASE index \notin Slot
    <3>1. \A i \in Slot : slots'[i] = Erased
      BY <1>0, <2>1, <2>3 DEF Ordered
    <3>2. \A i \in Slot : ring'[i] = IF slots'[i] = Erased THEN Never ELSE slots'[i]
      BY <2>1, <2>3, <3>1 DEF RestoredRing
    <3> QED BY <3>2 DEF Mirrors
  <2> QED BY <2>2, <2>3
<1>3. CASE Read
  <2>1. pc = "idle" /\ pc' = "index" /\ UNCHANGED <<ring, iw, slots>>
    BY <1>3 DEF Read
  <2> QED BY <1>0, <2>1 DEF Mirrors
<1>4. CASE CommitIndex
  <2>1. pc = "index" /\ pc' = "slot" /\ UNCHANGED <<iw, slots>> /\ \A i \in Slot : i # iw => ring'[i] = ring[i]
    BY <1>4, <1>t DEF CommitIndex
  <2>2. PICK low \in {Never, Erased} : \A i \in Slot : ring[i] = IF slots[i] = Erased THEN low ELSE slots[i]
    BY <1>0, <2>1 DEF Mirrors
  <2> QED BY <2>1, <2>2 DEF Mirrors
<1>5. CASE CommitSlot
  <2>1. /\ pc = "slot" /\ pc' = "idle" /\ ring' = ring /\ slots' = [slots EXCEPT ![iw] = ring[iw]]
    BY <1>5 DEF CommitSlot
  <2>2. PICK low \in {Never, Erased} :
           \A i \in Slot : i = iw \/ ring[i] = IF slots[i] = Erased THEN low ELSE slots[i]
    BY <1>0, <2>1 DEF Mirrors
  <2>3. ring[iw] # Erased
    BY <1>0, <2>1 DEF Ordered, Erased
  <2>4. \A i \in Slot : ring'[i] = IF slots'[i] = Erased THEN low ELSE slots'[i]
    BY <1>t, <2>1, <2>2, <2>3
  <2> QED BY <2>1, <2>4 DEF Mirrors
<1>6. CASE PowerLoss
  BY <1>6 DEF PowerLoss, Mirrors
<1>7. CASE Tick
  BY <1>1, <1>7 DEF Tick
<1>8. CASE UNCHANGED vars
  BY <1>1, <1>8 DEF vars
<1> QED BY <1>2, <1>3, <1>4, <1>5, <1>6, <1>7, <1>8 DEF Next

\* Together: the ring is always in order but for what power failures tore.
LEMMA OrderInvariant == Spec => []OrderInv
<1>1. OrderInv /\ [Next]_vars => OrderInv'
  <2>1. OrderInv /\ [Next]_vars => IInv'
    BY TypeStep, AgreeStep, KnownStep DEF IInv, OrderInv
  <2> QED BY <2>1, OrderedStep, MirrorsStep DEF OrderInv
<1> QED BY <1>1, OrderStart, PTL DEF Spec

\* The places that are counted from iw are slots, each of them once, and the
\* next place is the next slot.
LEMMA PlaceIsSlot ==
  ASSUME iw \in Slot, NEW i \in 0..(MAX_WEATHER_READ - 1)
  PROVE  /\ Place(i) = IF iw + i < MAX_WEATHER_READ THEN iw + i ELSE iw + i - MAX_WEATHER_READ
         /\ Place(i) \in Slot
<1> DEFINE M == MAX_WEATHER_READ
<1>1. M \in Nat /\ M > 0 /\ iw \in Nat /\ i \in Nat /\ iw < M /\ i < M
  BY RingAssumption DEF Slot
<1> HIDE DEF M
<1>2. (iw + i) % M = IF iw + i < M THEN iw + i ELSE iw + i - M
  BY <1>1
<1> QED BY <1>1, <1>2 DEF Place, M, Slot

\* The places from iw on are the slots of the ring, one behind the other.
LEMMA PlacesAreInOrder ==
  ASSUME iw \in Slot, NEW i \in 0..(MAX_WEATHER_READ - 2)
  PROVE  /\ Place(i) \in Slot
         /\ Place(i + 1) = Succ(Place(i)) /\ Succ(Place(i)) # iw
         /\ \A j \in 0..(MAX_WEATHER_READ - 2) : Place(i) = Place(j) => i = j
<1>1. MAX_WEATHER_READ \in Nat \ {0, 1} /\ iw \in 0..(MAX_WEATHER_READ - 1)
  BY RingAssumption DEF Slot
<1>2. i \in 0..(MAX_WEATHER_READ - 1) /\ i + 1 \in 0..(MAX_WEATHER_READ - 1)
  BY <1>1
<1>3. Place(i) = IF iw + i < MAX_WEATHER_READ THEN iw + i ELSE iw + i - MAX_WEATHER_READ
  BY <1>2, PlaceIsSlot
<1>4. Place(i + 1) = IF iw + (i + 1) < MAX_WEATHER_READ THEN iw + (i + 1) ELSE iw + (i + 1) - MAX_WEATHER_READ
  BY <1>2, PlaceIsSlot
<1>5. Place(i) \in Slot
  BY <1>2, PlaceIsSlot
<1>6. Place(i + 1) = Succ(Place(i)) /\ Place(i + 1) # iw
  BY <1>1, <1>2, <1>3, <1>4 DEF Succ
<1>7. ASSUME NEW j \in 0..(MAX_WEATHER_READ - 2), Place(i) = Place(j) PROVE i = j
  <2>1. j \in 0..(MAX_WEATHER_READ - 1)
    BY <1>1
  <2>2. Place(j) = IF iw + j < MAX_WEATHER_READ THEN iw + j ELSE iw + j - MAX_WEATHER_READ
    BY <2>1, PlaceIsSlot
  <2> QED BY <1>1, <1>2, <1>3, <1>7, <2>1, <2>2
<1> QED BY <1>5, <1>6, <1>7

\* Whatever the ring's size and however often the power fails at whatever
\* moment: no more readings are out of order than commits were torn.
THEOREM RingIsInOrder == Spec => []InOrderButForTorn
<1>1. OrderInv => InOrderButForTorn
  <2> SUFFICES ASSUME OrderInv, pc = "idle"
               PROVE  Cardinality({i \in 0..(MAX_WEATHER_READ - 2) : ring[Place(i)] > ring[Place(i + 1)]})
                         <= torn
    BY DEF InOrderButForTorn
  <2> DEFINE Out == {i \in 0..(MAX_WEATHER_READ - 2) : ring[Place(i)] > ring[Place(i + 1)]}
             D == Descents(slots, iw)
             f == [i \in Out |-> Place(i)]
  <2>0. TypeOK /\ Agree /\ Ordered /\ Mirrors
    BY DEF OrderInv, IInv
  <2>1. slots \in [Slot -> Nat \cup {Erased}] /\ iw \in Slot /\ torn \in Nat
    BY <2>0, TornAssumption DEF TypeOK
  <2>2. Cardinality(D) <= torn
    BY <2>0 DEF Ordered, Oldest, Agree
  <2>3. PICK low \in {Never, Erased} : \A i \in Slot : ring[i] = IF slots[i] = Erased THEN low ELSE slots[i]
    BY <2>0 DEF Mirrors
  <2>4. ASSUME NEW p \in Slot, NEW q \in Slot, ring[p] > ring[q] PROVE slots[p] > slots[q]
    <3>1. slots[p] \in Nat \cup {Erased} /\ slots[q] \in Nat \cup {Erased} /\ slots[p] # Never /\ slots[q] # Never
      BY <2>0, <2>1 DEF Ordered
    <3>2. /\ ring[p] = IF slots[p] = Erased THEN low ELSE slots[p]
          /\ ring[q] = IF slots[q] = Erased THEN low ELSE slots[q]
      BY <2>3
    <3> QED BY <2>4, <3>1, <3>2 DEF Never, Erased
  <2>5. ASSUME NEW i \in Out PROVE Place(i) \in D
    <3>1. /\ Place(i) \in Slot /\ Place(i + 1) = Succ(Place(i)) /\ Succ(Place(i)) # iw
      BY <2>1, PlacesAreInOrder
    <3>2. slots[Place(i)] > slots[Succ(Place(i))]
      BY <2>4, <3>1, SuccIsSlot
    <3> QED BY <3>1, <3>2 DEF Descents
  <2>6. ASSUME NEW i \in Out, NEW j \in Out, Place(i) = Place(j) PROVE i = j
    BY <2>1, <2>6, PlacesAreInOrder
  <2>7. IsFiniteSet(D) /\ Cardinality(D) \in Nat
    BY DescentsAreFinite
  <2>8. IsFiniteSet(Out) /\ Cardinality(Out) \in Nat
    <3>1. IsFiniteSet(0..(MAX_WEATHER_READ - 2))
      BY FS_Interval, RingAssumption
    <3>2. Out \in SUBSET (0..(MAX_WEATHER_READ - 2))
      OBVIOUS
    <3> HIDE DEF Out
    <3>3. IsFiniteSet(Out)
      BY <3>1, <3>2, FS_Subset
    <3> QED BY <3>3, FS_CardinalityType
  <2> HIDE DEF Out, D
  <2>9. f \in Injection(Out, D)
    BY <2>5, <2>6 DEF Injection, IsInjective
  <2> HIDE DEF f
  <2>10. Cardinality(Out) <= Cardinality(D)
    BY <2>7, <2>9, FS_Injection
  <2>11. Cardinality(Out) <= torn
    BY <2>1, <2>2, <2>7, <2>8, <2>10
  <2> QED BY <2>11 DEF Out
<1> QED BY <1>1, OrderInvariant, PTL
=============================================================================
