------------------------------ MODULE PathLemmas ------------------------------
(* What the proofs about file trees need to know of paths. *)
EXTENDS Paths, SequenceTheorems, WellFoundedInduction, TLAPS

\* A set of natural numbers with a member has a least one.  What holds at a
\* number if it holds below it is proved from this, by looking at the least
\* number for which it does not.
LEMMA Least == ASSUME NEW S, S \subseteq Nat, S # {}
               PROVE  \E n \in S : \A m \in S : n <= m
<1> DEFINE R == OpToRel(<, Nat)
<1>1. PICK x \in S : \A y \in S : ~(<<y, x>> \in R)
  BY NatLessThanWellFounded, WFMin, Zenon
<1>2. \A y \in S : y < x => <<y, x>> \in R
  BY DEF OpToRel
<1> HIDE DEF R
<1>3. \A y \in S : ~(y < x)
  BY <1>1, <1>2
<1> QED BY <1>3

LEMMA PathType ==
    ASSUME NEW p \in Path
    PROVE  p \in Seq(STRING) /\ Len(p) \in Nat /\ Len(p) > 0
<1>1. p \in Seq(STRING) /\ p # <<>>
  BY PathsAreSequences, PathsClosed
<1> QED BY <1>1, EmptySeq

LEMMA PathEqual ==
    ASSUME NEW p \in Seq(STRING), NEW q \in Seq(STRING), Len(p) = Len(q),
           \A i \in 1..Len(p) : p[i] = q[i]
    PROVE  p = q
BY SeqEqual, Zenon

\* The prefix of p of length n.
Prefix(p, n) == SubSeq(p, 1, n)

LEMMA PrefixType ==
    ASSUME NEW p \in Path, NEW n \in 0..Len(p)
    PROVE  /\ Prefix(p, n) \in Seq(STRING) /\ Len(Prefix(p, n)) = n
           /\ \A i \in 1..n : Prefix(p, n)[i] = p[i]
BY PathType DEF Prefix

LEMMA ParentType ==
    ASSUME NEW p \in Path
    PROVE  /\ Parent(p) \in Seq(STRING) /\ Len(Parent(p)) = Len(p) - 1
           /\ \A i \in 1..(Len(p) - 1) : Parent(p)[i] = p[i]
<1>1. Parent(p) = Prefix(p, Len(p) - 1) /\ Len(p) - 1 \in 0..Len(p)
  BY PathType DEF Parent, Prefix
<1> QED BY <1>1, PrefixType

\* Path is closed under Parent, so under prefixes.
LEMMA PrefixInPath ==
    ASSUME NEW p \in Path, NEW n \in 1..Len(p)
    PROVE  Prefix(p, n) \in Path
<1> DEFINE Bad == {k \in Nat : k < Len(p) /\ Prefix(p, Len(p) - k) \notin Path}
<1>1. SUFFICES ASSUME Bad # {} PROVE FALSE
  <2>1. Len(p) - n \in Bad \/ Prefix(p, n) \in Path
    BY PathType
  <2> QED BY <1>1, <2>1
<1>2. PICK k \in Bad : \A m \in Bad : k <= m
  BY <1>1, Least
<1>3. k # 0
  BY PathType, PrefixType, PathEqual
<1> DEFINE q == Prefix(p, Len(p) - (k - 1))
<1>4. k - 1 \in Nat /\ Len(p) - k \in 0..Len(p) /\ Len(p) - (k - 1) \in 0..Len(p)
  BY <1>3, PathType
<1> DEFINE Is(s, m) == /\ s \in Seq(STRING) /\ Len(s) = m
                       /\ \A i \in 1..m : s[i] = p[i]
<1>5. /\ Is(Prefix(p, Len(p) - k), Len(p) - k)
      /\ Is(q, Len(p) - (k - 1))
  <2>1. \A m \in 0..Len(p) : Is(Prefix(p, m), m)
    BY PrefixType
  <2> HIDE DEF Is
  <2> QED BY <1>4, <2>1, Zenon
<1>6. /\ q \in Path /\ q \in Seq(STRING) /\ Len(q) = Len(p) - k + 1
      /\ \A i \in 1..Len(q) : q[i] = p[i]
  <2>1. k - 1 \notin Bad
    BY <1>2, <1>4
  <2>2. q \in Path
    BY <1>4, <2>1, PathType
  <2> HIDE DEF q
  <2> QED BY <1>4, <1>5, <2>2, PathType
<1>7. Parent(q) = Prefix(p, Len(p) - k)
  <2>1. /\ Parent(q) \in Seq(STRING) /\ Len(Parent(q)) = Len(p) - k
        /\ \A i \in 1..(Len(p) - k) : Parent(q)[i] = p[i]
    <3> HIDE DEF q
    <3>1. /\ Parent(q) \in Seq(STRING) /\ Len(Parent(q)) = Len(q) - 1
          /\ \A i \in 1..(Len(q) - 1) : Parent(q)[i] = q[i]
      BY <1>6, ParentType
    <3> QED BY <1>4, <1>6, <3>1, PathType
  <2>2. /\ Prefix(p, Len(p) - k) \in Seq(STRING) /\ Len(Prefix(p, Len(p) - k)) = Len(p) - k
        /\ \A i \in 1..(Len(p) - k) : Prefix(p, Len(p) - k)[i] = p[i]
    BY <1>5
  <2> QED BY <2>1, <2>2, PathEqual
<1>8. Parent(q) # <<>>
  BY <1>6, ParentType, PathType, EmptySeq
<1> QED BY <1>6, <1>7, <1>8, PathsClosed

-----------------------------------------------------------------------------

LEMMA AboveIff ==
    ASSUME NEW p \in Path, NEW q
    PROVE  q \in Above(p) <=> q \in Path /\ Under(p, q)
BY DEF Above, above

LEMMA ChildrenIff ==
    ASSUME NEW q \in Path \cup {<<>>}, NEW p
    PROVE  p \in Children(q) <=> p \in Path /\ Parent(p) = q
BY DEF Children, children

LEMMA UnderTransitive ==
    ASSUME NEW p \in Path, NEW q \in Path, NEW r \in Path, Under(p, q), Under(q, r)
    PROVE  Under(p, r)
BY PathType DEF Under

\* What is above p is its parent and what is above that.
LEMMA AboveParent ==
    ASSUME NEW p \in Path
    PROVE  Above(p) = IF Parent(p) = <<>> THEN {} ELSE Above(Parent(p)) \cup {Parent(p)}
<1>1. CASE Parent(p) = <<>>
  <2>1. Len(p) = 1
    <3>1. Len(Parent(p)) = 0
      BY <1>1, EmptySeq
    <3>2. Len(Parent(p)) = Len(p) - 1 /\ Len(p) \in Nat
      BY ParentType, PathType
    <3> QED BY <3>1, <3>2
  <2>2. \A q \in Path : ~Under(p, q)
    BY <2>1, PathType DEF Under
  <2> QED BY <1>1, <2>2, AboveIff
<1>2. CASE Parent(p) # <<>>
  <2>1. Parent(p) \in Path
    BY <1>2, PathsClosed
  <2>2. Under(p, Parent(p))
    BY ParentType, PathType DEF Under
  <2>3. ASSUME NEW q \in Path, Under(p, q), q # Parent(p)
        PROVE  Under(Parent(p), q)
    <3>1. Len(q) # Len(p) - 1
      BY <2>3, ParentType, PathType, PathEqual DEF Under
    <3> QED BY <2>3, <3>1, ParentType, PathType DEF Under
  <2>4. ASSUME NEW q \in Path, Under(Parent(p), q)
        PROVE  Under(p, q)
    BY <2>1, <2>2, <2>4, UnderTransitive
  <2> QED BY <1>2, <2>1, <2>2, <2>3, <2>4, AboveIff
<1> QED BY <1>1, <1>2

\* On the way from x down to p there is a child of x.
LEMMA ChildOnTheWay ==
    ASSUME NEW p \in Path, NEW x \in Above(p)
    PROVE  \E c \in Children(x) : c = p \/ c \in Above(p)
<1>1. x \in Path /\ Under(p, x)
  BY AboveIff
<1> DEFINE n == Len(x) + 1
           c == Prefix(p, n)
<1>2. n \in 1..Len(p) /\ n > 1
  BY <1>1, PathType DEF Under
<1>3. c \in Path
  BY <1>2, PrefixInPath
<1>4. Len(c) = n /\ \A i \in 1..n : c[i] = p[i]
  BY <1>2, PrefixType
<1>5. Parent(c) = x
  <2>1. \A i \in 1..Len(x) : Parent(c)[i] = x[i]
    <3> HIDE DEF c
    <3>1. \A i \in 1..(Len(c) - 1) : Parent(c)[i] = c[i]
      BY <1>3, ParentType
    <3> QED BY <1>1, <1>4, <3>1, PathType DEF Under
  <2> QED BY <1>1, <1>3, <1>4, <2>1, ParentType, PathType, PathEqual
<1>6. CASE n = Len(p)
  <2>1. c = p
    BY <1>3, <1>4, <1>6, PathType, PathEqual
  <2> QED BY <1>1, <1>3, <1>5, <2>1, ChildrenIff
<1>7. CASE n < Len(p)
  <2>1. Under(p, c)
    BY <1>4, <1>7 DEF Under
  <2> QED BY <1>1, <1>3, <1>5, <2>1, ChildrenIff, AboveIff
<1> QED BY <1>2, <1>6, <1>7, PathType
=============================================================================
