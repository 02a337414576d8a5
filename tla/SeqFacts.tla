-------------------------------- MODULE SeqFacts --------------------------------
(***************************************************************************)
(* Facts about sequences that the proofs of several drivers need: a        *)
(* sequence cut in two, and what was sent, or received, numbered from 1.   *)
(***************************************************************************)
EXTENDS Integers, Sequences, SequenceTheorems, TLAPS

\* What is left of a sequence after its first m elements.
LEMMA CutSeq ==
    ASSUME NEW S, NEW s \in Seq(S), NEW m \in Nat, m <= Len(s)
    PROVE  /\ SubSeq(s, 1, m) \in Seq(S)
           /\ Len(SubSeq(s, 1, m)) = m
           /\ SubSeq(s, m + 1, Len(s)) \in Seq(S)
           /\ Len(SubSeq(s, m + 1, Len(s))) = Len(s) - m
           /\ SubSeq(s, 1, m) \o SubSeq(s, m + 1, Len(s)) = s
<1>1. Len(s) \in Nat /\ \A i \in 1..Len(s) : s[i] \in S
  BY LenProperties, ElementOfSeq
<1>2. /\ SubSeq(s, 1, m) \in Seq(S)
      /\ Len(SubSeq(s, 1, m)) = m
      /\ \A i \in 1..m : SubSeq(s, 1, m)[i] = s[i]
  <2>1. \A i \in 1..m : s[i] \in S
    BY <1>1
  <2>2. QED
    BY <2>1, SubSeqProperties
<1>3. /\ SubSeq(s, m + 1, Len(s)) \in Seq(S)
      /\ Len(SubSeq(s, m + 1, Len(s))) = Len(s) - m
      /\ \A i \in 1..(Len(s) - m) : SubSeq(s, m + 1, Len(s))[i] = s[m + i]
  <2>1. \A i \in (m + 1)..Len(s) : s[i] \in S
    BY <1>1
  <2>2. m + 1 \in Int /\ Len(s) \in Int
    BY <1>1
  <2>3. /\ SubSeq(s, m + 1, Len(s)) \in Seq(S)
        /\ Len(SubSeq(s, m + 1, Len(s)))
               = IF m + 1 <= Len(s) THEN Len(s) - (m + 1) + 1 ELSE 0
        /\ \A i \in 1..(Len(s) - (m + 1) + 1) :
               SubSeq(s, m + 1, Len(s))[i] = s[m + 1 + i - 1]
    BY <2>1, <2>2, SubSeqProperties
  <2>4. QED
    BY <2>3, <1>1
<1>4. SubSeq(s, 1, m) \o SubSeq(s, m + 1, Len(s)) = s
  <2>1. SubSeq(s, 1, m) \o SubSeq(s, m + 1, Len(s)) = SubSeq(s, 1, Len(s))
    <3>1. 1 \in 1..(Len(s) + 1) /\ m \in (1 - 1)..Len(s) /\ Len(s) \in m..Len(s)
      BY <1>1
    <3>2. QED
      BY <3>1, ConcatAdjacentSubSeq, Zenon
  <2>2. QED
    BY <2>1, SubSeqFull
<1>5. QED
  BY <1>2, <1>3, <1>4

\* Short tails.
LEMMA ShortTail ==
    \A x, y : Tail(<<x>>) = << >> /\ Tail(<<x, y>>) = <<y>>
  OBVIOUS

\* A sequence is its first element and the others.
LEMMA HeadThenTail ==
    ASSUME NEW S, NEW s \in Seq(S), s # << >>
    PROVE  /\ <<Head(s)>> \in Seq(S)
           /\ Tail(s) \in Seq(S)
           /\ <<Head(s)>> \o Tail(s) = s
<1>1. /\ Head(s) = s[1] /\ Head(s) \in S
      /\ Tail(s) \in Seq(S) /\ Len(Tail(s)) = Len(s) - 1
      /\ \A i \in 1..(Len(s) - 1) : Tail(s)[i] = s[i + 1]
  BY HeadTailProperties
<1>2. Len(s) \in Nat \ {0} /\ <<Head(s)>> \in Seq(S) /\ Len(<<Head(s)>>) = 1
  BY <1>1, EmptySeq
<1>3. /\ <<Head(s)>> \o Tail(s) \in Seq(S)
      /\ Len(<<Head(s)>> \o Tail(s)) = Len(s)
      /\ \A i \in 1..Len(s) : (<<Head(s)>> \o Tail(s))[i] = s[i]
  BY <1>1, <1>2, ConcatProperties
<1>4. QED
  BY <1>1, <1>2, <1>3, SeqEqual

\* Concatenation is associative, for the provers that need it as one formula.
LEMMA Regroup ==
    ASSUME NEW S
    PROVE  \A x, y, z \in Seq(S) : (x \o y) \o z = x \o (y \o z)
  BY ConcatAssociative

\* Concatenation under a name of its own: the provers instantiate its laws.
Cat(s, t) == s \o t

LEMMA CatClosed ==
    ASSUME NEW S
    PROVE  \A x, y \in Seq(S) : Cat(x, y) \in Seq(S)
  BY ConcatProperties DEF Cat

LEMMA CatAssociative ==
    ASSUME NEW S
    PROVE  \A x, y, z \in Seq(S) : Cat(Cat(x, y), z) = Cat(x, Cat(y, z))
  BY Regroup DEF Cat

\* Elements that move from one stage of a queue to the next, with new ones at
\* its end, keep their places.
LEMMA MovedAlong ==
    ASSUME NEW S, NEW a \in Seq(S), NEW p \in Seq(S), NEW d \in Seq(S),
           NEW t \in Seq(S), NEW q \in Seq(S), NEW e \in Seq(S),
           Cat(q, e) = Cat(p, Cat(d, t))
    PROVE  Cat(Cat(a, q), e) = Cat(Cat(Cat(a, p), d), t)
<1>1. Cat(a, p) \in Seq(S) /\ Cat(d, t) \in Seq(S)
  BY CatClosed
<1>2. Cat(Cat(a, q), e) = Cat(a, Cat(q, e))
  BY CatAssociative
<1>3. Cat(Cat(a, p), Cat(d, t)) = Cat(a, Cat(p, Cat(d, t)))
  BY <1>1, CatAssociative
<1>4. Cat(Cat(Cat(a, p), d), t) = Cat(Cat(a, p), Cat(d, t))
  BY <1>1, CatAssociative
<1>5. QED
  BY <1>2, <1>3, <1>4

\* n more, numbered after the first m.
LEMMA CountOn ==
    ASSUME NEW m \in Nat, NEW n \in Nat
    PROVE  [i \in 1..m |-> i] \o [i \in 1..n |-> m + i] = [i \in 1..(m + n) |-> i]
<1> DEFINE s == [i \in 1..m |-> i]
           t == [i \in 1..n |-> m + i]
           u == [i \in 1..(m + n) |-> i]
<1>1. /\ s \in Seq(Nat) /\ Len(s) = m /\ \A i \in 1..m : s[i] = i
      /\ t \in Seq(Nat) /\ Len(t) = n /\ \A i \in 1..n : t[i] = m + i
      /\ u \in Seq(Nat) /\ Len(u) = m + n /\ \A i \in 1..(m + n) : u[i] = i
  OBVIOUS
<1> HIDE DEF s, t, u
<1>2. /\ s \o t \in Seq(Nat) /\ Len(s \o t) = m + n
      /\ \A i \in 1..(m + n) : (s \o t)[i] = IF i <= m THEN s[i] ELSE t[i - m]
  BY <1>1, ConcatProperties
<1>3. \A i \in 1..(m + n) : (s \o t)[i] = u[i]
  <2> SUFFICES ASSUME NEW i \in 1..(m + n) PROVE (s \o t)[i] = u[i]
    OBVIOUS
  <2>1. CASE i <= m
    BY <1>1, <1>2, <2>1
  <2>2. CASE i > m
    <3>1. i - m \in 1..n
      BY <2>2
    <3>2. QED
      BY <1>1, <1>2, <2>2, <3>1
  <2>3. i <= m \/ i > m
    OBVIOUS
  <2>4. QED
    BY <2>1, <2>2, <2>3
<1>4. s \o t = u
  BY <1>1, <1>2, <1>3, SeqEqual
<1>5. QED
  BY <1>4 DEF s, t, u

\* The numbers from 1, cut: what comes after the first m is m + 1, m + 2...
LEMMA CountAfter ==
    ASSUME NEW S, NEW s \in Seq(S), NEW t \in Seq(S), NEW n \in Nat,
           s \o t = [i \in 1..n |-> i]
    PROVE  /\ Len(s) \in Nat /\ Len(t) \in Nat
           /\ Len(s) + Len(t) = n
           /\ s = [i \in 1..Len(s) |-> i]
           /\ \A i \in 1..Len(t) : t[i] = Len(s) + i
<1>1. /\ Len(s) \in Nat /\ Len(t) \in Nat
      /\ Len(s \o t) = Len(s) + Len(t)
      /\ \A i \in 1..(Len(s) + Len(t)) :
             (s \o t)[i] = IF i <= Len(s) THEN s[i] ELSE t[i - Len(s)]
  <2>1. Len(s) \in Nat /\ Len(t) \in Nat
    BY LenProperties
  <2>2. QED
    BY <2>1, ConcatProperties, Zenon
<1>2. Len(s \o t) = n /\ \A i \in 1..n : (s \o t)[i] = i
  OBVIOUS
<1>3. Len(s) + Len(t) = n
  BY <1>1, <1>2
<1>4. \A i \in 1..Len(s) : s[i] = i
  <2> SUFFICES ASSUME NEW i \in 1..Len(s) PROVE s[i] = i
    OBVIOUS
  <2>1. i \in 1..n /\ i <= Len(s)
    BY <1>1, <1>3
  <2>2. QED
    BY <1>1, <1>2, <1>3, <2>1
<1>5. \A i \in 1..Len(t) : t[i] = Len(s) + i
  <2> SUFFICES ASSUME NEW i \in 1..Len(t) PROVE t[i] = Len(s) + i
    OBVIOUS
  <2>1. Len(s) + i \in 1..n /\ ~(Len(s) + i <= Len(s)) /\ Len(s) + i - Len(s) = i
    BY <1>1, <1>3
  <2>2. QED
    BY <1>1, <1>2, <1>3, <2>1
<1>6. s = [i \in 1..Len(s) |-> i]
  BY <1>4, LenProperties
<1>7. QED
  BY <1>1, <1>3, <1>5, <1>6

\* Two sequences of the numbers from 1 agree as far as the shorter one goes.
LEMMA CountedAgree ==
    ASSUME NEW S, NEW s \in Seq(S), NEW t \in Seq(S),
           Len(s) \in Nat, Len(t) \in Nat, Len(s) <= Len(t),
           s = [i \in 1..Len(s) |-> i], t = [i \in 1..Len(t) |-> i]
    PROVE  \A i \in 1..Len(s) : s[i] = t[i]
<1> DEFINE m == Len(s)
           n == Len(t)
<1>1. m \in Nat /\ n \in Nat /\ m <= n
      /\ s = [i \in 1..m |-> i] /\ t = [i \in 1..n |-> i]
  OBVIOUS
<1> HIDE DEF m, n
<1>2. \A i \in 1..m : s[i] = t[i]
  BY <1>1
<1>3. QED
  BY <1>2 DEF m

\* The numbers from 1, under a name too.
Count(n) == [i \in 1..n |-> i]

LEMMA CutCount ==
    ASSUME NEW S, NEW s \in Seq(S), NEW t \in Seq(S), NEW n \in Nat,
           Cat(s, t) = Count(n)
    PROVE  /\ Len(s) \in Nat /\ Len(t) \in Nat
           /\ Len(s) + Len(t) = n
           /\ s = Count(Len(s))
<1>1. s \o t = [i \in 1..n |-> i]
  BY DEF Cat, Count
<1>2. /\ Len(s) \in Nat /\ Len(t) \in Nat
      /\ Len(s) + Len(t) = n
      /\ s = [i \in 1..Len(s) |-> i]
  BY <1>1, CountAfter
<1>3. QED
  BY <1>2 DEF Count

\* The numbers from 1, cut in three.
LEMMA ThreeCounted ==
    ASSUME NEW S, NEW a \in Seq(S), NEW p \in Seq(S), NEW d \in Seq(S),
           NEW n \in Nat, Cat(Cat(a, p), d) = Count(n)
    PROVE  /\ Len(a) \in Nat /\ Len(p) \in Nat /\ Len(d) \in Nat
           /\ Len(a) + Len(p) + Len(d) = n
           /\ a = Count(Len(a))
<1>1. PICK q \in Seq(S) : q = Cat(a, p)
  BY CatClosed
<1>2. /\ Len(q) \in Nat /\ Len(d) \in Nat
      /\ Len(q) + Len(d) = n
      /\ q = Count(Len(q))
  BY <1>1, CutCount, SMTT(30)
<1>3. /\ Len(a) \in Nat /\ Len(p) \in Nat
      /\ Len(a) + Len(p) = Len(q)
      /\ a = Count(Len(a))
  BY <1>1, <1>2, CutCount
<1>4. QED
  BY <1>2, <1>3

\* A first-in first-out queue in two stages: what went out begins what came in,
\* and what is on its way is what the stages hold.
LEMMA InFlight ==
    ASSUME NEW S, NEW a \in Seq(S), NEW p \in Seq(S), NEW d \in Seq(S),
           NEW n \in Nat, NEW k \in Nat, NEW l \in Nat,
           Len(p) <= k, Len(d) <= l, Cat(Cat(a, p), d) = Count(n)
    PROVE  /\ Len(a) \in Nat /\ Len(a) <= n /\ n - Len(a) <= k + l
           /\ a = Count(Len(a))
<1>1. /\ Len(a) \in Nat /\ Len(p) \in Nat /\ Len(d) \in Nat
      /\ Len(a) + Len(p) + Len(d) = n
      /\ a = Count(Len(a))
  BY ThreeCounted
<1>2. QED
  BY <1>1
================================================================================
