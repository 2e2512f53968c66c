---------------------------- MODULE ChListsProofs ----------------------------
(***************************************************************************)
(* Proof that the links of module ChLists implement the sequences of       *)
(* module ThreadLists, for every set of threads, queues and lists and      *)
(* every assignment of priorities.                                         *)
(***************************************************************************)
EXTENDS ChLists, TLAPS, SequenceTheorems, FiniteSetTheorems, FunctionTheorems, WellFoundedInduction

\* The i-th node of a ring: the anchor is before the first thread and behind the
\* last.
Place(L, l, i) == IF i \in 1 .. Len(L[l]) THEN L[l][i] ELSE l

\* The links go from each node to the next one, and back in a queue.
Forward(L, nx) == \A l \in Anchors : \A i \in 0 .. Len(L[l]) : nx[Place(L, l, i)] = Place(L, l, i + 1)
Backward(L, pv) == \A q \in Queues : \A i \in 0 .. Len(L[q]) : pv[Place(L, q, i + 1)] = Place(L, q, i)

\* A thread is in one place of one list.
Apart(L) == \A l, k \in Anchors : \A i \in 1 .. Len(L[l]), j \in 1 .. Len(L[k]) :
                L[l][i] = L[k][j] => l = k /\ i = j

\* The links nx and pv represent the sequences L.
Represent(L, nx, pv) ==
    /\ L \in [Anchors -> Seq(Threads)] /\ nx \in [Node -> Node] /\ pv \in [Node -> Node]
    /\ Forward(L, nx) /\ Backward(L, pv) /\ Apart(L)

\* What the links of the state represent, and that they represent anything.
Ls == [l \in Anchors |-> Walk(p_next, l)]
LinksInv == Represent(Ls, p_next, p_prev)

-----------------------------------------------------------------------------
(* Sequences                                                                 *)

\* A set of naturals that is not empty has a least element.
LEMMA LeastNat ==
    ASSUME NEW T \in SUBSET Nat, T # {}
    PROVE  \E x \in T : \A y \in T : x <= y
<1>1. PICK x \in T : \A y \in T : ~(<<y, x>> \in OpToRel(<, Nat))
  BY NatLessThanWellFounded, WFMin
<1>2. \A y \in T : ~(y < x)
  BY <1>1 DEF OpToRel
<1> QED
  BY <1>2

\* What a sequence y is that comes from s with e at place c, or without place c.
Inserted(y, s, c, e, S) ==
    /\ y \in Seq(S) /\ Len(y) = Len(s) + 1
    /\ \A i \in 1 .. Len(s) + 1 : y[i] = IF i < c THEN s[i] ELSE IF i = c THEN e ELSE s[i - 1]
Removed(y, s, c, S) ==
    /\ y \in Seq(S) /\ Len(y) = Len(s) - 1
    /\ \A i \in 1 .. Len(s) - 1 : y[i] = IF i < c THEN s[i] ELSE s[i + 1]

\* InsertAt, place by place.
LEMMA InsertAtFacts ==
    ASSUME NEW S, NEW s \in Seq(S), NEW c \in 1 .. Len(s) + 1, NEW e \in S
    PROVE  Inserted(Abstract!InsertAt(s, c, e), s, c, e, S)
<1> DEFINE a == SubSeq(s, 1, c - 1)
           b == SubSeq(s, c, Len(s))
<1>1. Len(s) \in Nat /\ \A i \in 1 .. Len(s) : s[i] \in S
  BY LenProperties, ElementOfSeq
<1>2. a \in Seq(S) /\ Len(a) = c - 1 /\ \A i \in 1 .. c - 1 : a[i] = s[i]
  BY <1>1, SubSeqProperties
<1>3. b \in Seq(S) /\ Len(b) = Len(s) - c + 1 /\ \A i \in 1 .. Len(s) - c + 1 : b[i] = s[c + i - 1]
  BY <1>1, SubSeqProperties
<1>4. <<e>> \in Seq(S) /\ Len(<<e>>) = 1 /\ <<e>>[1] = e
  OBVIOUS
<1> HIDE DEF a, b
<1> DEFINE x == a \o <<e>>
           y == x \o b
<1>5. x \in Seq(S) /\ Len(x) = c /\ \A i \in 1 .. c : x[i] = IF i < c THEN s[i] ELSE e
  BY <1>2, <1>4, ConcatProperties
<1> HIDE DEF x
<1>6. /\ y \in Seq(S) /\ Len(y) = Len(x) + Len(b)
      /\ \A i \in 1 .. Len(x) + Len(b) : y[i] = IF i <= Len(x) THEN x[i] ELSE b[i - Len(x)]
  BY <1>3, <1>5, ConcatProperties
<1> HIDE DEF y
<1>7. c \in Nat /\ c >= 1 /\ c <= Len(s) + 1 /\ Len(y) = Len(s) + 1
  BY <1>1, <1>3, <1>5, <1>6
<1>8. ASSUME NEW i \in 1 .. Len(s) + 1
      PROVE  y[i] = IF i < c THEN s[i] ELSE IF i = c THEN e ELSE s[i - 1]
  <2>1. CASE i <= c
    BY <1>3, <1>5, <1>6, <1>7, <2>1
  <2>2. CASE i > c
    <3>1. i - c \in 1 .. Len(s) - c + 1 /\ c + (i - c) - 1 = i - 1
      BY <1>1, <1>7, <2>2
    <3>2. b[i - c] = s[i - 1]
      BY <1>3, <3>1
    <3>3. y[i] = b[i - c]
      BY <1>1, <1>3, <1>5, <1>6, <1>7, <2>2
    <3> QED
      BY <1>7, <2>2, <3>2, <3>3
  <2> QED
    BY <1>7, <2>1, <2>2
<1>9. Abstract!InsertAt(s, c, e) = y
  BY DEF Abstract!InsertAt, a, b, x, y
<1> QED
  BY <1>6, <1>7, <1>8, <1>9 DEF Inserted

\* RemoveAt, place by place.
LEMMA RemoveAtFacts ==
    ASSUME NEW S, NEW s \in Seq(S), NEW c \in 1 .. Len(s)
    PROVE  Removed(Abstract!RemoveAt(s, c), s, c, S)
<1> DEFINE a == SubSeq(s, 1, c - 1)
           b == SubSeq(s, c + 1, Len(s))
<1>1. Len(s) \in Nat /\ \A i \in 1 .. Len(s) : s[i] \in S
  BY LenProperties, ElementOfSeq
<1>2. a \in Seq(S) /\ Len(a) = c - 1 /\ \A i \in 1 .. c - 1 : a[i] = s[i]
  BY <1>1, SubSeqProperties
<1>3. b \in Seq(S) /\ Len(b) = Len(s) - c /\ \A i \in 1 .. Len(s) - c : b[i] = s[c + i]
  BY <1>1, SubSeqProperties
<1> HIDE DEF a, b
<1> DEFINE y == a \o b
<1>4. /\ y \in Seq(S) /\ Len(y) = Len(a) + Len(b)
      /\ \A i \in 1 .. Len(a) + Len(b) : y[i] = IF i <= Len(a) THEN a[i] ELSE b[i - Len(a)]
  BY <1>2, <1>3, ConcatProperties
<1> HIDE DEF y
<1>5. c \in Nat /\ c >= 1 /\ c <= Len(s) /\ Len(y) = Len(s) - 1
  BY <1>1, <1>2, <1>3, <1>4
<1>6. ASSUME NEW i \in 1 .. Len(s) - 1
      PROVE  y[i] = IF i < c THEN s[i] ELSE s[i + 1]
  <2>1. CASE i < c
    <3>1. i \in 1 .. Len(a) + Len(b) /\ i <= Len(a) /\ i \in 1 .. c - 1
      BY <1>1, <1>2, <1>3, <1>5, <2>1
    <3>2. y[i] = a[i] /\ a[i] = s[i]
      BY <1>2, <1>4, <3>1
    <3> QED
      BY <2>1, <3>2
  <2>2. CASE i >= c
    <3>1. i - (c - 1) \in 1 .. Len(s) - c /\ c + (i - (c - 1)) = i + 1
      BY <1>1, <1>5, <2>2
    <3>2. b[i - (c - 1)] = s[i + 1]
      BY <1>3, <3>1
    <3>3. i \in 1 .. Len(a) + Len(b) /\ ~(i <= Len(a)) /\ Len(a) = c - 1
      BY <1>1, <1>2, <1>3, <1>5, <2>2
    <3>4. y[i] = b[i - (c - 1)]
      BY <1>4, <3>3
    <3> QED
      BY <1>5, <2>2, <3>2, <3>4
  <2> QED
    BY <1>5, <2>1, <2>2
<1>7. Abstract!RemoveAt(s, c) = y
  BY DEF Abstract!RemoveAt, a, b, y
<1> QED
  BY <1>4, <1>5, <1>6, <1>7 DEF Removed

\* The operations at the ends of a sequence are insertions and removals.
LEMMA EndFacts ==
    ASSUME NEW S, NEW s \in Seq(S)
    PROVE  /\ \A e \in S : Append(s, e) = Abstract!InsertAt(s, Len(s) + 1, e)
           /\ \A e \in S : <<e>> \o s = Abstract!InsertAt(s, 1, e)
           /\ Len(s) > 0 => Tail(s) = Abstract!RemoveAt(s, 1) /\ Abstract!Front(s) = Abstract!RemoveAt(s, Len(s))
<1>1. Len(s) \in Nat /\ \A i \in 1 .. Len(s) : s[i] \in S
  BY LenProperties, ElementOfSeq
<1>2. ASSUME NEW e \in S PROVE Append(s, e) = Abstract!InsertAt(s, Len(s) + 1, e)
  <2>1. /\ Append(s, e) \in Seq(S) /\ Len(Append(s, e)) = Len(s) + 1
        /\ \A i \in 1 .. Len(s) + 1 : Append(s, e)[i] = IF i < Len(s) + 1 THEN s[i] ELSE e
    BY <1>1, AppendProperties
  <2> DEFINE c == Len(s) + 1
             y == Abstract!InsertAt(s, c, e)
  <2>2. c \in 1 .. Len(s) + 1
    BY <1>1
  <2> HIDE DEF c
  <2>3. /\ y \in Seq(S) /\ Len(y) = Len(s) + 1
        /\ \A i \in 1 .. Len(s) + 1 : y[i] = IF i < c THEN s[i] ELSE IF i = c THEN e ELSE s[i - 1]
    BY <2>2, InsertAtFacts DEF Inserted
  <2> HIDE DEF y
  <2>4. \A i \in 1 .. Len(s) + 1 : y[i] = IF i < Len(s) + 1 THEN s[i] ELSE e
    BY <1>1, <2>3 DEF c
  <2>5. y = Append(s, e)
    BY <2>1, <2>3, <2>4, SeqEqual
  <2> QED
    BY <2>5 DEF y, c
<1>3. ASSUME NEW e \in S PROVE <<e>> \o s = Abstract!InsertAt(s, 1, e)
  <2>0. <<e>> \in Seq(S) /\ Len(<<e>>) = 1 /\ <<e>>[1] = e
    OBVIOUS
  <2>1. /\ <<e>> \o s \in Seq(S) /\ Len(<<e>> \o s) = Len(s) + 1
        /\ \A i \in 1 .. Len(s) + 1 : (<<e>> \o s)[i] = IF i = 1 THEN e ELSE s[i - 1]
    BY <1>1, <2>0, ConcatProperties
  <2>2. /\ Abstract!InsertAt(s, 1, e) \in Seq(S) /\ Len(Abstract!InsertAt(s, 1, e)) = Len(s) + 1
        /\ \A i \in 1 .. Len(s) + 1 : Abstract!InsertAt(s, 1, e)[i] = IF i = 1 THEN e ELSE s[i - 1]
    BY <1>1, InsertAtFacts DEF Inserted
  <2> QED
    BY <2>1, <2>2, SeqEqual
<1>4. ASSUME Len(s) > 0 PROVE Tail(s) = Abstract!RemoveAt(s, 1)
  <2>1. /\ Tail(s) \in Seq(S) /\ Len(Tail(s)) = Len(s) - 1
        /\ \A i \in 1 .. Len(s) - 1 : Tail(s)[i] = s[i + 1]
    BY <1>1, <1>4, HeadTailProperties
  <2>2. /\ Abstract!RemoveAt(s, 1) \in Seq(S) /\ Len(Abstract!RemoveAt(s, 1)) = Len(s) - 1
        /\ \A i \in 1 .. Len(s) - 1 : Abstract!RemoveAt(s, 1)[i] = s[i + 1]
    BY <1>1, <1>4, RemoveAtFacts DEF Removed
  <2> QED
    BY <2>1, <2>2, SeqEqual
<1>5. ASSUME Len(s) > 0 PROVE Abstract!Front(s) = Abstract!RemoveAt(s, Len(s))
  <2> DEFINE c == Len(s)
             d == Len(s) - 1
             x == SubSeq(s, 1, d)
             y == Abstract!RemoveAt(s, c)
  <2>0. d \in Nat /\ d < Len(s) /\ \A i \in 1 .. d : s[i] \in S
    BY <1>1, <1>5
  <2> HIDE DEF d
  <2>1. x \in Seq(S) /\ Len(x) = d /\ \A i \in 1 .. d : x[i] = s[i]
    BY <2>0, SubSeqProperties
  <2>2. c \in 1 .. Len(s)
    BY <1>1, <1>5
  <2> HIDE DEF c
  <2>3. /\ y \in Seq(S) /\ Len(y) = Len(s) - 1
        /\ \A i \in 1 .. Len(s) - 1 : y[i] = IF i < c THEN s[i] ELSE s[i + 1]
    BY <2>2, RemoveAtFacts DEF Removed
  <2> HIDE DEF x, y
  <2>4. Len(y) = d /\ \A i \in 1 .. d : y[i] = s[i]
    BY <1>1, <2>3 DEF c, d
  <2>5. y = x
    BY <2>1, <2>3, <2>4, SeqEqual
  <2> QED
    BY <2>5 DEF Abstract!Front, x, y, c, d
<1> QED
  BY <1>2, <1>3, <1>4, <1>5

-----------------------------------------------------------------------------
(* What Walk finds                                                           *)

\* One step of the walk.
Step(link, p) == IF p[Len(p)] \in Anchors THEN p ELSE Append(p, link[p[Len(p)]])
Steps == Cardinality(Threads) + 1
IsWalk(W, link, l) == W = [i \in 0 .. Steps |-> IF i = 0 THEN <<link[l]>> ELSE Step(link, W[i - 1])]

\* Walk is the last of the steps, if there is a function of all of them.
LEMMA WalkSteps ==
    ASSUME NEW link, NEW l, \E W : IsWalk(W, link, l)
    PROVE  \E W : IsWalk(W, link, l) /\ Walk(link, l) = SubSeq(W[Steps], 1, Len(W[Steps]) - 1)
<1> DEFINE W == CHOOSE W : W = [i \in 0 .. Cardinality(Threads) + 1 |->
                  IF i = 0 THEN <<link[l]>>
                  ELSE LET p == W[i - 1] IN  IF p[Len(p)] \in Anchors THEN p ELSE Append(p, link[p[Len(p)]])]
<1>1. W = [i \in 0 .. Cardinality(Threads) + 1 |->
             IF i = 0 THEN <<link[l]>>
             ELSE LET p == W[i - 1] IN  IF p[Len(p)] \in Anchors THEN p ELSE Append(p, link[p[Len(p)]])]
  BY Zenon DEF IsWalk, Step, Steps
<1>2. Walk(link, l) = SubSeq(W[Cardinality(Threads) + 1], 1, Len(W[Cardinality(Threads) + 1]) - 1)
  BY Zenon DEF Walk
<1> HIDE DEF W
<1>3. IsWalk(W, link, l) /\ Walk(link, l) = SubSeq(W[Steps], 1, Len(W[Steps]) - 1)
  BY <1>1, <1>2, Zenon DEF IsWalk, Step, Steps
<1> QED
  BY <1>3, Zenon

\* There is one such function.
LEMMA WalkUnique ==
    ASSUME NEW link, NEW l, NEW V, NEW W, IsWalk(V, link, l), IsWalk(W, link, l), Steps \in Nat
    PROVE  \A i \in 0 .. Steps : V[i] = W[i]
<1> DEFINE T == {i \in 0 .. Steps : V[i] # W[i]}
<1>1. SUFFICES ASSUME T # {} PROVE FALSE
  OBVIOUS
<1>2. PICK i \in T : \A j \in T : i <= j
  <2>1. T \in SUBSET Nat
    OBVIOUS
  <2> HIDE DEF T
  <2> QED
    BY <1>1, <2>1, LeastNat
<1>3. i # 0
  BY DEF IsWalk
<1>4. i - 1 \in 0 .. Steps /\ i - 1 \notin T
  BY <1>2, <1>3
<1>5. V[i - 1] = W[i - 1]
  BY <1>4
<1>6. V[i] = Step(link, V[i - 1]) /\ W[i] = Step(link, W[i - 1])
  BY <1>3 DEF IsWalk
<1> QED
  BY <1>5, <1>6

\* A list has no more threads than there are.
LEMMA ListLength ==
    ASSUME NEW L \in [Anchors -> Seq(Threads)], Apart(L), NEW l \in Anchors
    PROVE  Len(L[l]) \in Nat /\ Cardinality(Threads) \in Nat /\ Len(L[l]) <= Cardinality(Threads)
<1> DEFINE s == L[l]
<1>1. s \in Seq(Threads)
  OBVIOUS
<1>2. \A i, j \in 1 .. Len(s) : s[i] = s[j] => i = j
  BY DEF Apart
<1> HIDE DEF s
<1>3. Len(s) \in Nat /\ s \in [1 .. Len(s) -> Threads]
  BY <1>1, LenProperties
<1>4. s \in Injection(1 .. Len(s), Threads)
  BY <1>2, <1>3 DEF Injection, IsInjective
<1>5. IsFiniteSet(Threads)
  BY NodesApart
<1>6. Cardinality(1 .. Len(s)) <= Cardinality(Threads)
  BY <1>4, <1>5, FS_Injection
<1>7. Cardinality(1 .. Len(s)) = Len(s)
  <2>1. \A n \in Nat : Cardinality(1 .. n) = IF 1 > n THEN 0 ELSE n - 1 + 1
    BY FS_Interval
  <2> QED
    BY <1>3, <2>1
<1>8. Cardinality(Threads) \in Nat
  BY <1>5, FS_CardinalityType
<1> QED
  BY <1>3, <1>6, <1>7, <1>8 DEF s

\* The prefixes of a sequence, one longer each time.
LEMMA PrefixFacts ==
    ASSUME NEW S, NEW s \in Seq(S), NEW i \in 1 .. Len(s)
    PROVE  /\ SubSeq(s, 1, i) \in Seq(S) /\ Len(SubSeq(s, 1, i)) = i /\ SubSeq(s, 1, i)[i] = s[i]
           /\ i < Len(s) => Append(SubSeq(s, 1, i), s[i + 1]) = SubSeq(s, 1, i + 1)
           /\ SubSeq(s, 1, 1) = <<s[1]>>
           /\ SubSeq(s, 1, Len(s)) = s
<1>1. Len(s) \in Nat /\ i \in Nat /\ 1 <= i /\ i <= Len(s) /\ \A j \in 1 .. Len(s) : s[j] \in S
  BY LenProperties, ElementOfSeq
<1>2. ASSUME NEW n \in 1 .. Len(s)
      PROVE  SubSeq(s, 1, n) \in Seq(S) /\ Len(SubSeq(s, 1, n)) = n /\ \A j \in 1 .. n : SubSeq(s, 1, n)[j] = s[j]
  BY <1>1, SubSeqProperties
<1>3. ASSUME i < Len(s) PROVE Append(SubSeq(s, 1, i), s[i + 1]) = SubSeq(s, 1, i + 1)
  <2> DEFINE p == SubSeq(s, 1, i)
             n == i + 1
             q == SubSeq(s, 1, n)
             a == Append(p, s[n])
  <2>1. n \in 1 .. Len(s) /\ s[n] \in S
    BY <1>1, <1>3
  <2>2. p \in Seq(S) /\ Len(p) = i /\ \A j \in 1 .. i : p[j] = s[j]
    BY <1>2
  <2> HIDE DEF n, p
  <2>3. q \in Seq(S) /\ Len(q) = n /\ \A j \in 1 .. n : q[j] = s[j]
    BY <1>2, <2>1
  <2>4. a \in Seq(S) /\ Len(a) = i + 1 /\ (\A j \in 1 .. i : a[j] = p[j]) /\ a[i + 1] = s[n]
    BY <2>1, <2>2, AppendProperties
  <2> HIDE DEF a, q
  <2>5. Len(a) = Len(q) /\ \A j \in 1 .. Len(a) : a[j] = q[j]
    BY <1>1, <2>2, <2>3, <2>4 DEF n
  <2>6. a = q
    BY <2>3, <2>4, <2>5, SeqEqual
  <2> QED
    BY <2>6 DEF a, q, n, p
<1>4. SubSeq(s, 1, 1) = <<s[1]>>
  <2>1. 1 \in 1 .. Len(s) /\ s[1] \in S
    BY <1>1
  <2>2. SubSeq(s, 1, 1) \in Seq(S) /\ Len(SubSeq(s, 1, 1)) = 1 /\ SubSeq(s, 1, 1)[1] = s[1]
    BY <1>2, <2>1
  <2>3. <<s[1]>> \in Seq(S) /\ Len(<<s[1]>>) = 1 /\ <<s[1]>>[1] = s[1]
    BY <2>1
  <2>4. \A j \in 1 .. 1 : j = 1
    OBVIOUS
  <2> QED
    BY <2>2, <2>3, <2>4, SeqEqual
<1>5. SubSeq(s, 1, Len(s)) = s
  <2>1. Len(s) \in 1 .. Len(s)
    BY <1>1
  <2> QED
    BY <1>2, <2>1, SeqEqual
<1> QED
  BY <1>1, <1>2, <1>3, <1>4, <1>5

\* The walk along links that represent sequences gives each of them.
LEMMA WalkOf ==
    ASSUME NEW L \in [Anchors -> Seq(Threads)], NEW nx, Forward(L, nx), Apart(L), NEW l \in Anchors
    PROVE  Walk(nx, l) = L[l]
<1> DEFINE s == L[l]
           n == Len(s)
           e == Append(s, l)
           G == [i \in 0 .. Steps |-> IF i + 1 <= n THEN SubSeq(s, 1, i + 1) ELSE e]
<1>1. s \in Seq(Threads) /\ s \in Seq(Node) /\ l \in Node
  <2>1. Threads \in SUBSET Node
    BY DEF Node
  <2> QED
    BY <2>1, SeqMonotonic DEF Node
<1>2. n \in Nat /\ Steps \in Nat /\ n + 1 <= Steps
  BY ListLength DEF Steps
<1>3. \A i \in 1 .. n : s[i] \in Threads /\ s[i] \notin Anchors
  BY <1>1, ElementOfSeq, NodesApart DEF Anchors
<1>4. nx[l] = IF n = 0 THEN l ELSE s[1]
  <2>1. nx[Place(L, l, 0)] = Place(L, l, 0 + 1)
    BY <1>2 DEF Forward
  <2> QED
    BY <1>2, <2>1 DEF Place
<1>5. \A i \in 1 .. n : nx[s[i]] = IF i = n THEN l ELSE s[i + 1]
  <2>1. \A i \in 1 .. n : nx[Place(L, l, i)] = Place(L, l, i + 1)
    BY <1>2 DEF Forward
  <2> QED
    BY <1>2, <2>1 DEF Place
<1> HIDE DEF s
<1>6. /\ e \in Seq(Node) /\ Len(e) = n + 1 /\ e[n + 1] = l
      /\ \A i \in 1 .. n : e[i] = s[i]
  BY <1>1, AppendProperties
<1>7. SubSeq(e, 1, n) = s
  <2>1. \A i \in 1 .. n : e[i] \in Node
    BY <1>1, <1>6, ElementOfSeq
  <2>2. SubSeq(e, 1, n) \in Seq(Node) /\ Len(SubSeq(e, 1, n)) = n /\ \A i \in 1 .. n : SubSeq(e, 1, n)[i] = e[i]
    BY <1>2, <2>1, SubSeqProperties
  <2> QED
    BY <1>1, <1>6, <2>2, SeqEqual
<1>8. n = 0 => <<l>> = e
  <2>1. ASSUME n = 0 PROVE <<l>> = e
    <3>1. <<l>> \in Seq(Node) /\ Len(<<l>>) = 1 /\ <<l>>[1] = l
      BY <1>1
    <3>2. \A i \in 1 .. 1 : i = 1
      OBVIOUS
    <3>3. Len(e) = 1 /\ e[1] = l
      BY <1>6, <2>1
    <3> QED
      BY <1>6, <3>1, <3>2, <3>3, SeqEqual
  <2> QED
    BY <2>1
<1> HIDE DEF n, e
<1>9. ASSUME NEW i \in 1 .. n
      PROVE  /\ SubSeq(s, 1, i)[Len(SubSeq(s, 1, i))] = s[i]
             /\ i < n => Append(SubSeq(s, 1, i), s[i + 1]) = SubSeq(s, 1, i + 1)
             /\ i = n => SubSeq(s, 1, i) = s
             /\ SubSeq(s, 1, 1) = <<s[1]>>
  BY <1>1, PrefixFacts DEF n
<1>10. IsWalk(G, nx, l)
  <2>1. ASSUME NEW i \in 0 .. Steps
        PROVE  G[i] = IF i = 0 THEN <<nx[l]>> ELSE Step(nx, G[i - 1])
    <3>1. CASE i = 0
      <4>1. CASE n = 0
        BY <1>2, <1>4, <1>8, <3>1, <4>1
      <4>2. CASE n # 0
        <5>1. 1 \in 1 .. n
          BY <1>2, <4>2
        <5>2. SubSeq(s, 1, 1) = <<s[1]>>
          BY <1>9, <5>1
        <5>3. G[i] = SubSeq(s, 1, 1)
          BY <1>2, <3>1, <5>1
        <5> QED
          BY <1>4, <3>1, <4>2, <5>2, <5>3
      <4> QED
        BY <4>1, <4>2
    <3>2. CASE i # 0 /\ i <= n
      <4>1. i \in 1 .. n /\ i - 1 \in 0 .. Steps /\ (i - 1) + 1 = i
        BY <1>2, <3>2
      <4>2. G[i - 1] = SubSeq(s, 1, i)
        BY <1>2, <3>2, <4>1
      <4>3. Step(nx, G[i - 1]) = Append(SubSeq(s, 1, i), nx[s[i]])
        BY <1>3, <1>9, <4>1, <4>2 DEF Step
      <4>4. CASE i < n
        <5>1. Append(SubSeq(s, 1, i), s[i + 1]) = SubSeq(s, 1, i + 1)
          BY <1>9, <4>1, <4>4
        <5>2. nx[s[i]] = s[i + 1]
          BY <1>2, <1>5, <4>1, <4>4
        <5>3. G[i] = SubSeq(s, 1, i + 1)
          BY <1>2, <4>1, <4>4
        <5> QED
          BY <3>2, <4>3, <5>1, <5>2, <5>3
      <4>5. CASE i = n
        <5>1. SubSeq(s, 1, i) = s /\ nx[s[i]] = l
          BY <1>5, <1>9, <4>1, <4>5
        <5>2. G[i] = e
          BY <1>2, <4>1, <4>5
        <5> QED
          BY <3>2, <4>3, <5>1, <5>2 DEF e
      <4> QED
        BY <1>2, <3>2, <4>4, <4>5
    <3>3. CASE i > n
      <4>1. i # 0 /\ i - 1 \in 0 .. Steps /\ ~(i + 1 <= n) /\ ~((i - 1) + 1 <= n)
        BY <1>2, <3>3
      <4>2. G[i] = e /\ G[i - 1] = e
        BY <4>1
      <4>3. Step(nx, e) = e
        BY <1>6 DEF Step
      <4> QED
        BY <4>1, <4>2, <4>3
    <3> QED
      BY <1>2, <3>1, <3>2, <3>3
  <2> DEFINE H == [i \in 0 .. Steps |-> IF i = 0 THEN <<nx[l]>> ELSE Step(nx, G[i - 1])]
  <2>2. DOMAIN G = 0 .. Steps /\ DOMAIN H = 0 .. Steps /\ \A i \in 0 .. Steps : G[i] = H[i]
    BY <2>1
  <2>3. G = H
    BY <2>1
  <2> QED
    BY <2>3 DEF IsWalk
<1>11. PICK W : IsWalk(W, nx, l) /\ Walk(nx, l) = SubSeq(W[Steps], 1, Len(W[Steps]) - 1)
  BY <1>10, WalkSteps
<1>12. W[Steps] = e
  <2>1. G[Steps] = e
    BY <1>2
  <2> HIDE DEF G
  <2>2. Steps \in 0 .. Steps
    BY <1>2
  <2> QED
    BY <1>2, <1>10, <1>11, <2>1, <2>2, WalkUnique
<1>13. Len(W[Steps]) - 1 = n
  BY <1>2, <1>6, <1>12
<1> QED
  BY <1>7, <1>11, <1>12, <1>13 DEF s

-----------------------------------------------------------------------------
(* What linking and unlinking a thread does                                  *)

\* Places are nodes; going round a ring each node comes once, and rings share none.
LEMMA PlaceFacts ==
    ASSUME NEW L \in [Anchors -> Seq(Threads)], Apart(L)
    PROVE  /\ \A l \in Anchors : Len(L[l]) \in Nat
           /\ \A l \in Anchors : \A i \in 1 .. Len(L[l]) : Place(L, l, i) = L[l][i] /\ L[l][i] \in Threads
           /\ \A l \in Anchors : Place(L, l, 0) = l /\ Place(L, l, Len(L[l]) + 1) = l
           /\ \A l \in Anchors : \A i \in Int : Place(L, l, i) \in Node
           /\ \A l, k \in Anchors : \A i \in 0 .. Len(L[l]), j \in 0 .. Len(L[k]) :
                 Place(L, l, i) = Place(L, k, j) => l = k /\ i = j
           /\ \A l, k \in Anchors : \A i \in 1 .. Len(L[l]) + 1, j \in 1 .. Len(L[k]) + 1 :
                 Place(L, l, i) = Place(L, k, j) => l = k /\ i = j
<1>1. \A l \in Anchors : L[l] \in Seq(Threads)
  OBVIOUS
<1>2. \A l \in Anchors : Len(L[l]) \in Nat
  BY <1>1, LenProperties
<1>3. \A l \in Anchors : \A i \in 1 .. Len(L[l]) : Place(L, l, i) = L[l][i] /\ L[l][i] \in Threads
  BY <1>1, ElementOfSeq DEF Place
<1>4. \A l \in Anchors : Place(L, l, 0) = l /\ Place(L, l, Len(L[l]) + 1) = l
  BY <1>2 DEF Place
<1>5. \A l \in Anchors : \A i \in Int : Place(L, l, i) \in Node
  BY <1>3 DEF Place, Node
<1>6. \A t \in Threads : t \notin Anchors
  BY NodesApart DEF Anchors
<1>7. \A l, k \in Anchors : \A i \in 1 .. Len(L[l]), j \in 1 .. Len(L[k]) :
         Place(L, l, i) = Place(L, k, j) => l = k /\ i = j
  BY <1>3 DEF Apart
<1>8. ASSUME NEW l \in Anchors, NEW k \in Anchors, NEW i \in 0 .. Len(L[l]), NEW j \in 0 .. Len(L[k]),
             Place(L, l, i) = Place(L, k, j)
      PROVE  l = k /\ i = j
  <2>1. i \in 1 .. Len(L[l]) \/ i = 0
    BY <1>2
  <2>2. j \in 1 .. Len(L[k]) \/ j = 0
    BY <1>2
  <2> QED
    <3>1. CASE i = 0 /\ j = 0
      BY <1>4, <1>8, <3>1
    <3>2. CASE i = 0 /\ j \in 1 .. Len(L[k])
      <4>1. Place(L, l, i) = l /\ Place(L, k, j) \in Threads
        BY <1>3, <1>4, <3>2
      <4> QED
        BY <1>6, <1>8, <4>1
    <3>3. CASE i \in 1 .. Len(L[l]) /\ j = 0
      <4>1. Place(L, l, i) \in Threads /\ Place(L, k, j) = k
        BY <1>3, <1>4, <3>3
      <4> QED
        BY <1>6, <1>8, <4>1
    <3>4. CASE i \in 1 .. Len(L[l]) /\ j \in 1 .. Len(L[k])
      BY <1>7, <1>8, <3>4
    <3> QED
      BY <2>1, <2>2, <3>1, <3>2, <3>3, <3>4, Zenon
<1>9. ASSUME NEW l \in Anchors, NEW k \in Anchors, NEW i \in 1 .. Len(L[l]) + 1, NEW j \in 1 .. Len(L[k]) + 1,
             Place(L, l, i) = Place(L, k, j)
      PROVE  l = k /\ i = j
  <2>1. i \in 1 .. Len(L[l]) \/ i = Len(L[l]) + 1
    BY <1>2
  <2>2. j \in 1 .. Len(L[k]) \/ j = Len(L[k]) + 1
    BY <1>2
  <2> QED
    <3>1. CASE i = Len(L[l]) + 1 /\ j = Len(L[k]) + 1
      BY <1>4, <1>9, <3>1
    <3>2. CASE i = Len(L[l]) + 1 /\ j \in 1 .. Len(L[k])
      <4>1. Place(L, l, i) = l /\ Place(L, k, j) \in Threads
        BY <1>3, <1>4, <3>2
      <4> QED
        BY <1>6, <1>9, <4>1
    <3>3. CASE i \in 1 .. Len(L[l]) /\ j = Len(L[k]) + 1
      <4>1. Place(L, l, i) \in Threads /\ Place(L, k, j) = k
        BY <1>3, <1>4, <3>3
      <4> QED
        BY <1>6, <1>9, <4>1
    <3>4. CASE i \in 1 .. Len(L[l]) /\ j \in 1 .. Len(L[k])
      BY <1>7, <1>9, <3>4
    <3> QED
      BY <2>1, <2>2, <3>1, <3>2, <3>3, <3>4, Zenon
<1> QED
  BY <1>2, <1>3, <1>4, <1>5, <1>8, <1>9

\* Thread t, which is in no list, goes in front of place c of list l; in a queue the
\* links back follow.
OutsideOf(L, t) == \A k \in Anchors : \A i \in 1 .. Len(L[k]) : L[k][i] # t
LinkedIn(L, l, c, t, nx, pv, nx2, pv2) ==
    /\ nx2 = [nx EXCEPT ![t] = Place(L, l, c), ![Place(L, l, c - 1)] = t]
    /\ \/ l \in Queues /\ pv2 = [pv EXCEPT ![t] = Place(L, l, c - 1), ![Place(L, l, c)] = t]
       \/ l \notin Queues /\ pv2 = pv

\* That inserts it into the sequence.
LEMMA InsertKeeps ==
    ASSUME NEW L, NEW nx, NEW pv, Represent(L, nx, pv), NEW l \in Anchors, NEW t \in Threads,
           OutsideOf(L, t), NEW c \in 1 .. Len(L[l]) + 1, NEW nx2, NEW pv2,
           LinkedIn(L, l, c, t, nx, pv, nx2, pv2)
    PROVE  Represent([L EXCEPT ![l] = Abstract!InsertAt(L[l], c, t)], nx2, pv2)
<1> DEFINE n == Len(L[l])
           s == Abstract!InsertAt(L[l], c, t)
           M == [L EXCEPT ![l] = s]
           P(i) == Place(L, l, i)
<1>0. /\ L \in [Anchors -> Seq(Threads)] /\ nx \in [Node -> Node] /\ pv \in [Node -> Node]
      /\ Forward(L, nx) /\ Backward(L, pv) /\ Apart(L)
  BY DEF Represent
<1>1. /\ s \in Seq(Threads) /\ Len(s) = n + 1
      /\ \A i \in 1 .. n + 1 : s[i] = IF i < c THEN L[l][i] ELSE IF i = c THEN t ELSE L[l][i - 1]
  <2>1. L[l] \in Seq(Threads)
    BY <1>0
  <2>2. Inserted(s, L[l], c, t, Threads)
    BY <2>1, InsertAtFacts, Zenon
  <2> QED
    BY <2>2 DEF Inserted
<1> HIDE DEF s
<1>2. M \in [Anchors -> Seq(Threads)] /\ M[l] = s /\ \A k \in Anchors : k # l => M[k] = L[k]
  BY <1>0, <1>1
<1> HIDE DEF M
<1>3. n \in Nat /\ c \in Nat /\ 1 <= c /\ c <= n + 1
  BY <1>0, PlaceFacts
<1>4. \A i \in 0 .. n + 2 : Place(M, l, i) = IF i < c THEN P(i) ELSE IF i = c THEN t ELSE P(i - 1)
  BY <1>1, <1>2, <1>3 DEF Place
<1>5. \A k \in Anchors : k # l => Len(M[k]) = Len(L[k]) /\ \A i \in Int : Place(M, k, i) = Place(L, k, i)
  BY <1>2 DEF Place
<1>6. \A k \in Anchors : \A i \in 0 .. Len(L[k]) + 1 : Place(L, k, i) # t
  BY NodesApart DEF Place, Anchors, OutsideOf
<1>7. t \in Node /\ \A k \in Anchors : \A i \in Int : Place(L, k, i) \in Node
  BY <1>0, PlaceFacts DEF Node
<1>8. P(c) \in Node /\ P(c - 1) \in Node /\ P(c) # t /\ P(c - 1) # t
  <2>1. c \in Int /\ c - 1 \in Int /\ c \in 0 .. Len(L[l]) + 1 /\ c - 1 \in 0 .. Len(L[l]) + 1
    BY <1>3
  <2> QED
    BY <1>6, <1>7, <2>1, Zenon
<1>9. nx2 \in [Node -> Node] /\ pv2 \in [Node -> Node]
  <2>1. nx2 \in [Node -> Node]
    BY <1>0, <1>7, <1>8 DEF LinkedIn
  <2>2. pv2 \in [Node -> Node]
    BY <1>0, <1>7, <1>8 DEF LinkedIn
  <2> QED
    BY <2>1, <2>2
<1>10. /\ nx2[t] = P(c) /\ nx2[P(c - 1)] = t
      /\ \A x \in Node : x # t /\ x # P(c - 1) => nx2[x] = nx[x]
  BY <1>0, <1>7, <1>8 DEF LinkedIn
<1>11. l \in Queues => /\ pv2[t] = P(c - 1) /\ pv2[P(c)] = t
                       /\ \A x \in Node : x # t /\ x # P(c) => pv2[x] = pv[x]
  BY <1>0, <1>7, <1>8 DEF LinkedIn
<1>12. Apart(M)
  <2>1. ASSUME NEW k \in Anchors, NEW i \in 1 .. Len(M[k])
        PROVE  \/ M[k][i] = t /\ k = l /\ i = c
               \/ \E a \in 1 .. Len(L[k]) : M[k][i] = L[k][a] /\ i = IF k = l /\ a >= c THEN a + 1 ELSE a
    <3>1. CASE k # l
      BY <1>2, <3>1
    <3>2. CASE k = l /\ i <= c
      BY <1>1, <1>2, <1>3, <3>2
    <3>3. CASE k = l /\ i > c
      <4>1. i - 1 \in 1 .. Len(L[k]) /\ i - 1 >= c /\ i = (i - 1) + 1 /\ M[k][i] = L[k][i - 1]
        BY <1>1, <1>2, <1>3, <3>3
      <4> QED
        BY <3>3, <4>1
    <3> QED
      BY <1>1, <1>2, <1>3, <3>1, <3>2, <3>3
  <2>2. ASSUME NEW k \in Anchors, NEW j \in Anchors, NEW i \in 1 .. Len(M[k]), NEW h \in 1 .. Len(M[j]),
               M[k][i] = M[j][h]
        PROVE  k = j /\ i = h
    <3>1. CASE M[k][i] = t
      <4>1. ASSUME NEW x \in Anchors, NEW a \in 1 .. Len(M[x]), M[x][a] = t PROVE x = l /\ a = c
        <5>1. ~ \E b \in 1 .. Len(L[x]) : M[x][a] = L[x][b]
          BY <4>1 DEF OutsideOf
        <5> QED
          BY <2>1, <5>1
      <4>2. M[j][h] = t
        BY <2>2, <3>1
      <4>3. k = l /\ i = c
        BY <3>1, <4>1
      <4>4. j = l /\ h = c
        BY <4>1, <4>2
      <4> QED
        BY <4>3, <4>4
    <3>2. CASE M[k][i] # t
      <4>1. PICK a \in 1 .. Len(L[k]) : M[k][i] = L[k][a] /\ i = IF k = l /\ a >= c THEN a + 1 ELSE a
        BY <2>1, <3>2
      <4>2. PICK b \in 1 .. Len(L[j]) : M[j][h] = L[j][b] /\ h = IF j = l /\ b >= c THEN b + 1 ELSE b
        BY <2>1, <2>2, <3>2
      <4>3. L[k][a] = L[j][b]
        BY <2>2, <4>1, <4>2
      <4>4. k = j /\ a = b
        BY <1>0, <4>3 DEF Apart
      <4> QED
        BY <4>1, <4>2, <4>4
    <3> QED
      BY <3>1, <3>2
  <2> QED
    BY <2>2 DEF Apart
<1>13. Forward(M, nx2)
  <2>1. ASSUME NEW k \in Anchors, k # l, NEW i \in 0 .. Len(M[k])
        PROVE  nx2[Place(M, k, i)] = Place(M, k, i + 1)
    <3>1. Place(L, k, i) # t /\ Place(L, k, i) # P(c - 1) /\ Place(L, k, i) \in Node
      BY <1>0, <1>3, <1>5, <1>6, <1>7, <2>1, PlaceFacts
    <3>2. nx[Place(L, k, i)] = Place(L, k, i + 1)
      BY <1>0, <1>5, <2>1 DEF Forward
    <3> QED
      BY <1>0, <1>5, <1>10, <2>1, <3>1, <3>2
  <2>2. ASSUME NEW i \in 0 .. n + 1
        PROVE  nx2[Place(M, l, i)] = Place(M, l, i + 1)
    <3>1. \A j \in 0 .. n : nx[P(j)] = P(j + 1)
      BY <1>0 DEF Forward
    <3>2. \A j \in 0 .. n : j # c - 1 => nx2[P(j)] = P(j + 1)
      <4>1. ASSUME NEW j \in 0 .. n, j # c - 1 PROVE P(j) # P(c - 1) /\ P(j) # t /\ P(j) \in Node
        BY <1>0, <1>3, <1>6, <1>7, <4>1, PlaceFacts
      <4> QED
        BY <1>10, <3>1, <4>1
    <3> HIDE DEF P
    <3>3. CASE i < c - 1
      <4>1. i \in 0 .. n /\ i \in 0 .. n + 2 /\ i + 1 \in 0 .. n + 2 /\ i # c - 1 /\ i < c /\ i + 1 < c
        BY <1>3, <3>3
      <4> QED
        BY <1>4, <3>2, <4>1
    <3>4. CASE i = c - 1
      BY <1>3, <1>4, <1>10, <3>4
    <3>5. CASE i = c
      BY <1>3, <1>4, <1>10, <3>5
    <3>6. CASE i > c
      <4>1. i - 1 \in 0 .. n /\ i - 1 # c - 1 /\ (i - 1) + 1 = i /\ (i + 1) - 1 = i
        BY <1>3, <3>6
      <4>2. nx2[P(i - 1)] = P(i)
        BY <3>2, <4>1
      <4> QED
        BY <1>3, <1>4, <3>6, <4>1, <4>2
    <3> QED
      BY <1>3, <3>3, <3>4, <3>5, <3>6
  <2> QED
    BY <1>1, <1>2, <2>1, <2>2 DEF Forward
<1>14. Backward(M, pv2)
  <2>0. \A k \in Queues : k \in Anchors
    BY DEF Anchors
  <2>1. ASSUME NEW k \in Queues, k # l, NEW i \in 0 .. Len(M[k])
        PROVE  pv2[Place(M, k, i + 1)] = Place(M, k, i)
    <3>1. Place(L, k, i + 1) # t /\ Place(L, k, i + 1) # P(c) /\ Place(L, k, i + 1) \in Node
      BY <1>0, <1>3, <1>5, <1>6, <1>7, <2>0, <2>1, PlaceFacts
    <3>2. pv[Place(L, k, i + 1)] = Place(L, k, i)
      BY <1>0, <1>5, <2>0, <2>1 DEF Backward
    <3>3. pv2[Place(L, k, i + 1)] = pv[Place(L, k, i + 1)]
      BY <1>11, <3>1 DEF LinkedIn
    <3> QED
      BY <1>5, <2>0, <2>1, <3>2, <3>3
  <2>2. ASSUME l \in Queues, NEW i \in 0 .. n + 1
        PROVE  pv2[Place(M, l, i + 1)] = Place(M, l, i)
    <3>1. \A j \in 0 .. n : pv[P(j + 1)] = P(j)
      BY <1>0, <2>2 DEF Backward
    <3>2. \A j \in 1 .. n + 1 : j # c => pv2[P(j)] = P(j - 1)
      <4>1. ASSUME NEW j \in 1 .. n + 1, j # c PROVE P(j) # P(c) /\ P(j) # t /\ P(j) \in Node
        BY <1>0, <1>3, <1>6, <1>7, <4>1, PlaceFacts
      <4>2. \A j \in 1 .. n + 1 : pv[P(j)] = P(j - 1)
        <5>1. ASSUME NEW j \in 1 .. n + 1 PROVE j - 1 \in 0 .. n /\ (j - 1) + 1 = j
          BY <1>3
        <5> QED
          BY <3>1, <5>1
      <4> QED
        BY <1>11, <2>2, <4>1, <4>2
    <3> HIDE DEF P
    <3>3. CASE i < c - 1
      <4>1. i \in 0 .. n /\ i \in 0 .. n + 2 /\ i + 1 \in 0 .. n + 2 /\ i # c - 1 /\ i < c /\ i + 1 < c
        BY <1>3, <3>3
      <4> QED
        BY <1>4, <3>2, <4>1
    <3>4. CASE i = c - 1
      BY <1>3, <1>4, <1>11, <2>2, <3>4
    <3>5. CASE i = c
      BY <1>3, <1>4, <1>11, <2>2, <3>5
    <3>6. CASE i > c
      BY <1>3, <1>4, <3>2, <3>6
    <3> QED
      BY <1>3, <3>3, <3>4, <3>5, <3>6
  <2> QED
    BY <1>1, <1>2, <2>0, <2>1, <2>2 DEF Backward
<1> QED
  BY <1>2, <1>9, <1>12, <1>13, <1>14 DEF Represent, M, s

\* The thread at place c of list l is taken out; in a queue the links back follow.
\* It keeps its own links.
TakenOut(L, l, c, nx, pv, nx2, pv2) ==
    /\ nx2 = [nx EXCEPT ![Place(L, l, c - 1)] = Place(L, l, c + 1)]
    /\ \/ l \in Queues /\ pv2 = [pv EXCEPT ![Place(L, l, c + 1)] = Place(L, l, c - 1)]
       \/ l \notin Queues /\ pv2 = pv

\* That removes it from the sequence.
LEMMA RemoveKeeps ==
    ASSUME NEW L, NEW nx, NEW pv, Represent(L, nx, pv), NEW l \in Anchors, NEW c \in 1 .. Len(L[l]),
           NEW nx2, NEW pv2, TakenOut(L, l, c, nx, pv, nx2, pv2)
    PROVE  Represent([L EXCEPT ![l] = Abstract!RemoveAt(L[l], c)], nx2, pv2)
<1> DEFINE n == Len(L[l])
           s == Abstract!RemoveAt(L[l], c)
           M == [L EXCEPT ![l] = s]
           P(i) == Place(L, l, i)
<1>0. /\ L \in [Anchors -> Seq(Threads)] /\ nx \in [Node -> Node] /\ pv \in [Node -> Node]
      /\ Forward(L, nx) /\ Backward(L, pv) /\ Apart(L)
  BY DEF Represent
<1>1. /\ s \in Seq(Threads) /\ Len(s) = n - 1
      /\ \A i \in 1 .. n - 1 : s[i] = IF i < c THEN L[l][i] ELSE L[l][i + 1]
  <2>1. L[l] \in Seq(Threads)
    BY <1>0
  <2>2. Removed(s, L[l], c, Threads)
    BY <2>1, RemoveAtFacts, Zenon
  <2> QED
    BY <2>2 DEF Removed
<1> HIDE DEF s
<1>2. M \in [Anchors -> Seq(Threads)] /\ M[l] = s /\ \A k \in Anchors : k # l => M[k] = L[k]
  BY <1>0, <1>1
<1> HIDE DEF M
<1>3. n \in Nat /\ c \in Nat /\ 1 <= c /\ c <= n
  BY <1>0, PlaceFacts
<1>4. \A i \in 0 .. n : Place(M, l, i) = IF i < c THEN P(i) ELSE P(i + 1)
  BY <1>1, <1>2, <1>3 DEF Place
<1>5. \A k \in Anchors : k # l => Len(M[k]) = Len(L[k]) /\ \A i \in Int : Place(M, k, i) = Place(L, k, i)
  BY <1>2 DEF Place
<1>6. \A k \in Anchors : \A i \in Int : Place(L, k, i) \in Node
  BY <1>0, PlaceFacts
<1>7. P(c - 1) \in Node /\ P(c + 1) \in Node
  BY <1>3, <1>6
<1>8. nx2 \in [Node -> Node] /\ pv2 \in [Node -> Node]
  BY <1>0, <1>7 DEF TakenOut
<1>9. nx2[P(c - 1)] = P(c + 1) /\ \A x \in Node : x # P(c - 1) => nx2[x] = nx[x]
  BY <1>0, <1>7 DEF TakenOut
<1>10. /\ l \in Queues => pv2[P(c + 1)] = P(c - 1)
       /\ \A x \in Node : x # P(c + 1) => pv2[x] = pv[x]
       /\ l \notin Queues => pv2 = pv
  BY <1>0, <1>7 DEF TakenOut
<1>11. Apart(M)
  <2>1. ASSUME NEW k \in Anchors, NEW i \in 1 .. Len(M[k])
        PROVE  \E a \in 1 .. Len(L[k]) : M[k][i] = L[k][a] /\ i = IF k = l /\ a > c THEN a - 1 ELSE a
    <3>1. CASE k # l
      BY <1>2, <3>1
    <3>2. CASE k = l /\ i < c
      BY <1>1, <1>2, <1>3, <3>2
    <3>3. CASE k = l /\ i >= c
      <4>1. i + 1 \in 1 .. Len(L[k]) /\ i + 1 > c /\ i = (i + 1) - 1 /\ M[k][i] = L[k][i + 1]
        BY <1>1, <1>2, <1>3, <3>3
      <4> QED
        BY <3>3, <4>1
    <3> QED
      BY <1>1, <1>2, <1>3, <3>1, <3>2, <3>3
  <2>2. ASSUME NEW k \in Anchors, NEW j \in Anchors, NEW i \in 1 .. Len(M[k]), NEW h \in 1 .. Len(M[j]),
               M[k][i] = M[j][h]
        PROVE  k = j /\ i = h
    <3>1. PICK a \in 1 .. Len(L[k]) : M[k][i] = L[k][a] /\ i = IF k = l /\ a > c THEN a - 1 ELSE a
      BY <2>1
    <3>2. PICK b \in 1 .. Len(L[j]) : M[j][h] = L[j][b] /\ h = IF j = l /\ b > c THEN b - 1 ELSE b
      BY <2>1
    <3>3. L[k][a] = L[j][b]
      BY <2>2, <3>1, <3>2
    <3>4. k = j /\ a = b
      BY <1>0, <3>3 DEF Apart
    <3> QED
      BY <3>1, <3>2, <3>4
  <2> QED
    BY <2>2 DEF Apart
<1>12. Forward(M, nx2)
  <2>1. ASSUME NEW k \in Anchors, k # l, NEW i \in 0 .. Len(M[k])
        PROVE  nx2[Place(M, k, i)] = Place(M, k, i + 1)
    <3>1. Place(L, k, i) # P(c - 1) /\ Place(L, k, i) \in Node
      BY <1>0, <1>3, <1>5, <1>6, <2>1, PlaceFacts
    <3>2. nx[Place(L, k, i)] = Place(L, k, i + 1)
      BY <1>0, <1>5, <2>1 DEF Forward
    <3> QED
      BY <1>0, <1>5, <1>9, <2>1, <3>1, <3>2
  <2>2. ASSUME NEW i \in 0 .. n - 1
        PROVE  nx2[Place(M, l, i)] = Place(M, l, i + 1)
    <3>1. \A j \in 0 .. n : nx[P(j)] = P(j + 1)
      BY <1>0 DEF Forward
    <3>2. \A j \in 0 .. n : j # c - 1 => nx2[P(j)] = P(j + 1)
      <4>1. ASSUME NEW j \in 0 .. n, j # c - 1 PROVE P(j) # P(c - 1) /\ P(j) \in Node
        BY <1>0, <1>3, <1>6, <4>1, PlaceFacts
      <4> QED
        BY <1>9, <3>1, <4>1
    <3> HIDE DEF P
    <3>3. CASE i < c - 1
      <4>1. i \in 0 .. n /\ i + 1 \in 0 .. n /\ i # c - 1 /\ i < c /\ i + 1 < c
        BY <1>3, <3>3
      <4> QED
        BY <1>4, <3>2, <4>1
    <3>4. CASE i = c - 1
      <4>1. i \in 0 .. n /\ i < c /\ i + 1 \in 0 .. n /\ ~(i + 1 < c) /\ (i + 1) + 1 = c + 1
        BY <1>3, <3>4
      <4> QED
        BY <1>4, <1>9, <3>4, <4>1
    <3>5. CASE i >= c
      <4>1. i \in 0 .. n /\ i + 1 \in 0 .. n /\ ~(i < c) /\ ~(i + 1 < c) /\ i + 1 # c - 1
        BY <1>3, <3>5
      <4> QED
        BY <1>4, <3>2, <4>1
    <3> QED
      BY <1>3, <3>3, <3>4, <3>5
  <2> QED
    BY <1>1, <1>2, <2>1, <2>2 DEF Forward
<1>13. Backward(M, pv2)
  <2>0. \A k \in Queues : k \in Anchors
    BY DEF Anchors
  <2>1. ASSUME NEW k \in Queues, k # l, NEW i \in 0 .. Len(M[k])
        PROVE  pv2[Place(M, k, i + 1)] = Place(M, k, i)
    <3>1. Place(L, k, i + 1) # P(c + 1) /\ Place(L, k, i + 1) \in Node
      <4>1. i + 1 \in 1 .. Len(L[k]) + 1 /\ c + 1 \in 1 .. Len(L[l]) + 1 /\ i + 1 \in Int
        BY <1>3, <1>5, <2>0, <2>1
      <4>2. \A x, y \in Anchors : \A a \in 1 .. Len(L[x]) + 1, b \in 1 .. Len(L[y]) + 1 :
               Place(L, x, a) = Place(L, y, b) => x = y
        BY <1>0, PlaceFacts
      <4> QED
        BY <1>6, <2>0, <2>1, <4>1, <4>2
    <3>2. pv[Place(L, k, i + 1)] = Place(L, k, i)
      BY <1>0, <1>5, <2>0, <2>1 DEF Backward
    <3>3. pv2[Place(L, k, i + 1)] = pv[Place(L, k, i + 1)]
      BY <1>10, <3>1
    <3> QED
      BY <1>5, <2>0, <2>1, <3>2, <3>3
  <2>2. ASSUME l \in Queues, NEW i \in 0 .. n - 1
        PROVE  pv2[Place(M, l, i + 1)] = Place(M, l, i)
    <3>1. \A j \in 0 .. n : pv[P(j + 1)] = P(j)
      BY <1>0, <2>2 DEF Backward
    <3>2. \A j \in 0 .. n : j # c => pv2[P(j + 1)] = P(j)
      <4>1. ASSUME NEW j \in 0 .. n, j # c PROVE P(j + 1) # P(c + 1) /\ P(j + 1) \in Node
        <5>1. j + 1 \in 1 .. n + 1 /\ c + 1 \in 1 .. n + 1 /\ j + 1 # c + 1 /\ j + 1 \in Int
          BY <1>3, <4>1
        <5>2. \A a, b \in 1 .. n + 1 : P(a) = P(b) => a = b
          BY <1>0, PlaceFacts
        <5> QED
          BY <1>6, <5>1, <5>2
      <4> QED
        BY <1>10, <3>1, <4>1
    <3> HIDE DEF P
    <3>3. CASE i < c - 1
      <4>1. i \in 0 .. n /\ i + 1 \in 0 .. n /\ i # c /\ i < c /\ i + 1 < c
        BY <1>3, <3>3
      <4> QED
        BY <1>4, <3>2, <4>1
    <3>4. CASE i = c - 1
      <4>1. i \in 0 .. n /\ i < c /\ i + 1 \in 0 .. n /\ ~(i + 1 < c) /\ (i + 1) + 1 = c + 1
        BY <1>3, <3>4
      <4> QED
        BY <1>4, <1>10, <2>2, <3>4, <4>1
    <3>5. CASE i >= c
      <4>1. i \in 0 .. n /\ i + 1 \in 0 .. n /\ ~(i < c) /\ ~(i + 1 < c) /\ i + 1 # c
        BY <1>3, <3>5
      <4> QED
        BY <1>4, <3>2, <4>1
    <3> QED
      BY <1>3, <3>3, <3>4, <3>5
  <2> QED
    BY <1>1, <1>2, <2>0, <2>1, <2>2 DEF Backward
<1> QED
  BY <1>2, <1>8, <1>11, <1>12, <1>13 DEF Represent, M, s

-----------------------------------------------------------------------------
(* The operations                                                            *)

\* Links that represent sequences L are what the state's sequences are read from.
LEMMA ReadBack ==
    ASSUME NEW L, NEW nx, NEW pv, Represent(L, nx, pv)
    PROVE  [l \in Anchors |-> Walk(nx, l)] = L
<1>1. L \in [Anchors -> Seq(Threads)] /\ Forward(L, nx) /\ Apart(L)
  BY DEF Represent
<1>2. \A l \in Anchors : Walk(nx, l) = L[l]
  BY <1>1, WalkOf
<1> QED
  BY <1>1, <1>2

\* An operation on list l that leaves links of M there.
LEMMA StepTo ==
    ASSUME NEW M, Represent(M, p_next', p_prev')
    PROVE  LinksInv' /\ Ls' = M
<1>1. Ls' = M
  BY ReadBack DEF Ls
<1> QED
  BY <1>1 DEF LinksInv

\* The nodes around a place, as the operations find them.
LEMMA Around ==
    ASSUME LinksInv, NEW l \in Anchors
    PROVE  /\ Ls[l] \in Seq(Threads) /\ Len(Ls[l]) \in Nat /\ Ls[l] = Walk(p_next, l)
           /\ \A i \in 0 .. Len(Ls[l]) : p_next[Place(Ls, l, i)] = Place(Ls, l, i + 1)
           /\ l \in Queues => \A i \in 1 .. Len(Ls[l]) + 1 : p_prev[Place(Ls, l, i)] = Place(Ls, l, i - 1)
           /\ Place(Ls, l, 0) = l /\ Place(Ls, l, Len(Ls[l]) + 1) = l
           /\ \A i \in 1 .. Len(Ls[l]) : Place(Ls, l, i) = Ls[l][i] /\ Ls[l][i] \in Threads
           /\ isempty(l) <=> Len(Ls[l]) = 0
<1>0. /\ Ls \in [Anchors -> Seq(Threads)] /\ Forward(Ls, p_next) /\ Backward(Ls, p_prev) /\ Apart(Ls)
  BY DEF LinksInv, Represent
<1>1. Ls[l] \in Seq(Threads) /\ Ls[l] = Walk(p_next, l)
  BY <1>0 DEF Ls
<1>2. Len(Ls[l]) \in Nat
  BY <1>1, LenProperties
<1>3. \A i \in 0 .. Len(Ls[l]) : p_next[Place(Ls, l, i)] = Place(Ls, l, i + 1)
  BY <1>0 DEF Forward
<1>4. ASSUME l \in Queues, NEW i \in 1 .. Len(Ls[l]) + 1
      PROVE  p_prev[Place(Ls, l, i)] = Place(Ls, l, i - 1)
  <2>1. i - 1 \in 0 .. Len(Ls[l]) /\ (i - 1) + 1 = i
    BY <1>2
  <2> QED
    BY <1>0, <1>4, <2>1 DEF Backward
<1>5. Place(Ls, l, 0) = l /\ Place(Ls, l, Len(Ls[l]) + 1) = l
  BY <1>0, PlaceFacts
<1>6. \A i \in 1 .. Len(Ls[l]) : Place(Ls, l, i) = Ls[l][i] /\ Ls[l][i] \in Threads
  BY <1>0, PlaceFacts
<1>7. isempty(l) <=> Len(Ls[l]) = 0
  <2>1. p_next[l] = Place(Ls, l, 1)
    BY <1>2, <1>3, <1>5
  <2>2. CASE Len(Ls[l]) = 0
    BY <1>5, <2>1, <2>2 DEF isempty
  <2>3. CASE Len(Ls[l]) # 0
    <3>1. 1 \in 1 .. Len(Ls[l])
      BY <1>2, <2>3
    <3>2. Place(Ls, l, 1) \in Threads
      BY <1>6, <3>1
    <3> QED
      BY <2>1, <2>3, <3>2, NodesApart DEF isempty, Anchors
  <2> QED
    BY <2>2, <2>3
<1> QED
  BY <1>1, <1>2, <1>3, <1>4, <1>5, <1>6, <1>7

\* A thread that is not linked is in no sequence.
LEMMA NotLinked ==
    ASSUME LinksInv, NEW t \in Threads, ~Linked(t)
    PROVE  OutsideOf(Ls, t) /\ Abstract!Outside(t)
<1>1. \A l \in Anchors : Ls[l] = Walk(p_next, l)
  BY DEF Ls
<1>2. OutsideOf(Ls, t)
  BY <1>1 DEF OutsideOf, Linked
<1>3. ASSUME NEW l \in Anchors PROVE t \notin Abstract!Range(Ls[l])
  <2>1. Ls[l] \in Seq(Threads)
    BY Around
  <2>2. DOMAIN Ls[l] = 1 .. Len(Ls[l])
    BY <2>1, LenProperties
  <2> QED
    BY <1>2, <2>2 DEF OutsideOf, Abstract!Range
<1> QED
  BY <1>2, <1>3 DEF Abstract!Outside, Anchors, Ls

\* An operation that links a thread in inserts it into the sequence.
LEMMA InsertStep ==
    ASSUME LinksInv, NEW l \in Anchors, NEW t \in Threads, ~Linked(t), NEW c \in 1 .. Len(Ls[l]) + 1,
           LinkedIn(Ls, l, c, t, p_next, p_prev, p_next', p_prev')
    PROVE  LinksInv' /\ Ls' = [Ls EXCEPT ![l] = Abstract!InsertAt(Ls[l], c, t)]
<1>1. OutsideOf(Ls, t)
  BY NotLinked
<1>2. Represent([Ls EXCEPT ![l] = Abstract!InsertAt(Ls[l], c, t)], p_next', p_prev')
  BY <1>1, InsertKeeps, Zenon DEF LinksInv
<1> QED
  BY <1>2, StepTo, Zenon

\* An operation that takes a thread out removes it from the sequence.
LEMMA RemoveStep ==
    ASSUME LinksInv, NEW l \in Anchors, NEW c \in 1 .. Len(Ls[l]),
           TakenOut(Ls, l, c, p_next, p_prev, p_next', p_prev')
    PROVE  LinksInv' /\ Ls' = [Ls EXCEPT ![l] = Abstract!RemoveAt(Ls[l], c)]
<1>1. Represent([Ls EXCEPT ![l] = Abstract!RemoveAt(Ls[l], c)], p_next', p_prev')
  BY RemoveKeeps, Zenon DEF LinksInv
<1> QED
  BY <1>1, StepTo, Zenon

\* queue_insert puts the thread at the end of the queue.
LEMMA QueueInsert ==
    ASSUME LinksInv, NEW t \in Threads, ~Linked(t), NEW q \in Queues, queue_insert(t, q)
    PROVE  LinksInv' /\ Abstract!Insert
<1> DEFINE n == Len(Ls[q])
           c == n + 1
<1>1. q \in Anchors
  BY DEF Anchors
<1>2. /\ n \in Nat /\ Ls[q] \in Seq(Threads) /\ Place(Ls, q, n + 1) = q
      /\ \A i \in 1 .. n + 1 : p_prev[Place(Ls, q, i)] = Place(Ls, q, i - 1)
  BY <1>1, Around
<1> HIDE DEF n
<1>3. c \in 1 .. n + 1 /\ p_prev[q] = Place(Ls, q, c - 1) /\ Place(Ls, q, c) = q
  BY <1>2
<1> HIDE DEF c
<1>4. LinkedIn(Ls, q, c, t, p_next, p_prev, p_next', p_prev')
  BY <1>3 DEF LinkedIn, queue_insert, LinkBefore
<1>5. LinksInv' /\ Ls' = [Ls EXCEPT ![q] = Abstract!InsertAt(Ls[q], c, t)]
  BY <1>1, <1>3, <1>4, InsertStep, Zenon DEF n
<1>6. Append(Ls[q], t) = Abstract!InsertAt(Ls[q], c, t)
  BY <1>2, EndFacts, Zenon DEF c, n
<1>7. op' = <<"queue_insert", t>> /\ Abstract!Outside(t)
  BY NotLinked DEF queue_insert
<1>8. Abstract!Inserts("queue_insert", q, Append)
  BY <1>5, <1>6, <1>7 DEF Abstract!Inserts, Abstract!Op, Abstract!Becomes, Ls, Anchors
<1> QED
  BY <1>5, <1>8, Zenon DEF Abstract!Insert

\* list_insert puts the thread on top of the stack.
LEMMA ListInsert ==
    ASSUME LinksInv, NEW t \in Threads, ~Linked(t), NEW l \in Lists, list_insert(t, l)
    PROVE  LinksInv' /\ Abstract!Insert
<1> DEFINE n == Len(Ls[l])
<1>1. l \in Anchors /\ l \notin Queues
  BY NodesApart DEF Anchors
<1>2. /\ n \in Nat /\ Ls[l] \in Seq(Threads) /\ Place(Ls, l, 0) = l
      /\ \A i \in 0 .. n : p_next[Place(Ls, l, i)] = Place(Ls, l, i + 1)
  BY <1>1, Around
<1> HIDE DEF n
<1>3. 1 \in 1 .. n + 1 /\ p_next[l] = Place(Ls, l, 1) /\ Place(Ls, l, 1 - 1) = l
  BY <1>2
<1>4. LinkedIn(Ls, l, 1, t, p_next, p_prev, p_next', p_prev')
  BY <1>1, <1>3 DEF LinkedIn, list_insert
<1>5. LinksInv' /\ Ls' = [Ls EXCEPT ![l] = Abstract!InsertAt(Ls[l], 1, t)]
  BY <1>1, <1>3, <1>4, InsertStep, Zenon DEF n
<1>6. Abstract!Push(Ls[l], t) = Abstract!InsertAt(Ls[l], 1, t)
  BY <1>2, EndFacts, Zenon DEF Abstract!Push
<1>7. op' = <<"list_insert", t>> /\ Abstract!Outside(t)
  BY NotLinked DEF list_insert
<1>8. Abstract!Inserts("list_insert", l, Abstract!Push)
  BY <1>5, <1>6, <1>7 DEF Abstract!Inserts, Abstract!Op, Abstract!Becomes, Ls, Anchors
<1> QED
  BY <1>5, <1>8, Zenon DEF Abstract!Insert

\* Where the loop of prio_insert stops in the ring, and that it is where the order of
\* the priorities says.
StopPlace(t, q) ==
    CHOOSE j \in 1 .. Len(Append(Walk(p_next, q), q)) :
        /\ Append(Walk(p_next, q), q)[j] \in StopAt(t, q)
        /\ \A h \in 1 .. j - 1 : Append(Walk(p_next, q), q)[h] \notin StopAt(t, q)

LEMMA FirstStop ==
    ASSUME LinksInv, NEW t \in Threads, NEW q \in Queues
    PROVE  /\ StopPlace(t, q) \in 1 .. Len(Ls[q]) + 1
           /\ Append(Walk(p_next, q), q)[StopPlace(t, q)] = Place(Ls, q, StopPlace(t, q))
           /\ Abstract!InPriorityOrder(Ls[q], t) = Abstract!InsertAt(Ls[q], StopPlace(t, q), t)
<1> DEFINE s == Ls[q]
           n == Len(s)
           path == Append(Walk(p_next, q), q)
           i == StopPlace(t, q)
           I == {j \in 1 .. n : Prio[s[j]] < Prio[t]}
           T == {j \in 1 .. n + 1 : path[j] \in StopAt(t, q)}
<1>1. q \in Anchors /\ q \notin Threads
  BY NodesApart DEF Anchors
<1>2. /\ n \in Nat /\ s \in Seq(Threads) /\ s = Walk(p_next, q) /\ Place(Ls, q, n + 1) = q
      /\ \A j \in 1 .. n : Place(Ls, q, j) = s[j] /\ s[j] \in Threads
  BY <1>1, Around
<1>3. s \in Seq(Node) /\ q \in Node
  <2>1. Threads \in SUBSET Node
    BY DEF Node
  <2> QED
    BY <1>1, <1>2, <2>1, SeqMonotonic DEF Node
<1> HIDE DEF s
<1>4. /\ Len(path) = n + 1
      /\ \A j \in 1 .. n + 1 : path[j] = IF j <= n THEN s[j] ELSE q
  BY <1>2, <1>3, AppendProperties
<1>5. \A j \in 1 .. n + 1 : path[j] = Place(Ls, q, j)
  BY <1>2, <1>4
<1> HIDE DEF path
<1>6. \A j \in 1 .. n + 1 : j \in T <=> j = n + 1 \/ j \in I
  <2>1. ASSUME NEW j \in 1 .. n PROVE j \in T <=> j \in I
    <3>1. path[j] = s[j] /\ s[j] \in Threads /\ s[j] # q /\ j \in 1 .. n + 1
      BY <1>1, <1>2, <1>4
    <3>2. path[j] \in StopAt(t, q) <=> Prio[s[j]] < Prio[t]
      BY <3>1 DEF StopAt
    <3> QED
      BY <3>1, <3>2
  <2>2. n + 1 \in T
    BY <1>2, <1>4 DEF StopAt
  <2> QED
    BY <1>2, <2>1, <2>2
<1>7. T \in SUBSET (1 .. n + 1) /\ T \in SUBSET Nat /\ n + 1 \in T /\ I \in SUBSET (1 .. n)
  BY <1>2, <1>6
<1>8. \A j \in 1 .. n + 1 : path[j] \in StopAt(t, q) <=> j \in T
  OBVIOUS
<1> HIDE DEF T
<1>9. i \in T /\ \A j \in T : i <= j
  <2>1. PICK x \in T : \A y \in T : x <= y
    BY <1>7, LeastNat
  <2>2. x \in 1 .. Len(path) /\ path[x] \in StopAt(t, q) /\ \A h \in 1 .. x - 1 : path[h] \notin StopAt(t, q)
    <3>1. x \in 1 .. n + 1
      BY <1>7
    <3>2. ASSUME NEW h \in 1 .. x - 1 PROVE h \in 1 .. n + 1 /\ h \notin T
      BY <1>2, <1>7, <2>1, <3>1
    <3> QED
      BY <1>4, <1>8, <3>1, <3>2
  <2>3. i \in 1 .. Len(path) /\ path[i] \in StopAt(t, q) /\ \A h \in 1 .. i - 1 : path[h] \notin StopAt(t, q)
    BY <2>2, Zenon DEF StopPlace, path
  <2> HIDE DEF i
  <2>4. i \in T
    BY <1>4, <1>8, <2>3
  <2>5. ASSUME NEW j \in T PROVE i <= j
    <3>1. SUFFICES ASSUME j < i PROVE FALSE
      BY <1>7, <2>4
    <3>2. j \in 1 .. i - 1 /\ j \in 1 .. n + 1
      BY <1>7, <2>4, <3>1
    <3> QED
      BY <1>8, <2>3, <3>2
  <2> QED
    BY <2>4, <2>5
<1> HIDE DEF i
<1>10. i \in 1 .. n + 1 /\ path[i] = Place(Ls, q, i)
  BY <1>5, <1>7, <1>9
<1>11. Abstract!InPriorityOrder(s, t) = Abstract!InsertAt(s, i, t)
  <2>1. CASE I = {}
    <3>1. i = n + 1
      BY <1>6, <1>7, <1>9, <2>1
    <3>2. Abstract!InPriorityOrder(s, t) = Append(s, t)
      BY <2>1 DEF Abstract!InPriorityOrder, Abstract!SelectInSeq
    <3>3. Append(s, t) = Abstract!InsertAt(s, n + 1, t)
      BY <1>2, EndFacts, Zenon
    <3> QED
      BY <3>1, <3>2, <3>3, Zenon
  <2>2. CASE I # {}
    <3>1. i \in I
      BY <1>2, <1>6, <1>7, <1>9, <2>2
    <3>2. \A j \in I : i <= j /\ j \in Nat
      BY <1>2, <1>6, <1>7, <1>9
    <3>3. Abstract!Min(I) = i
      BY <3>1, <3>2 DEF Abstract!Min
    <3>4. i # 0
      BY <1>7, <3>1
    <3>5. Abstract!SelectInSeq(s, LAMBDA o : Prio[o] < Prio[t]) = i
      BY <2>2, <3>3 DEF Abstract!SelectInSeq
    <3> QED
      BY <3>4, <3>5 DEF Abstract!InPriorityOrder
  <2> QED
    BY <2>1, <2>2
<1> QED
  BY <1>10, <1>11 DEF i, path, s

\* prio_insert puts the thread behind those of the same or a higher priority.
LEMMA PrioInsert ==
    ASSUME LinksInv, NEW t \in Threads, ~Linked(t), NEW q \in Queues, prio_insert(t, q)
    PROVE  LinksInv' /\ Abstract!Insert
<1> DEFINE n == Len(Ls[q])
           c == StopPlace(t, q)
<1>1. q \in Anchors
  BY DEF Anchors
<1>2. /\ c \in 1 .. n + 1 /\ Append(Walk(p_next, q), q)[c] = Place(Ls, q, c)
      /\ Abstract!InPriorityOrder(Ls[q], t) = Abstract!InsertAt(Ls[q], c, t)
  BY FirstStop
<1>3. LinkBefore(t, Append(Walk(p_next, q), q)[c]) /\ op' = <<"prio_insert", t>>
  BY Zenon DEF prio_insert, StopPlace
<1> HIDE DEF c
<1>4. p_prev[Place(Ls, q, c)] = Place(Ls, q, c - 1)
  BY <1>1, <1>2, Around
<1>5. LinkedIn(Ls, q, c, t, p_next, p_prev, p_next', p_prev')
  BY <1>2, <1>3, <1>4 DEF LinkedIn, LinkBefore
<1>6. LinksInv' /\ Ls' = [Ls EXCEPT ![q] = Abstract!InsertAt(Ls[q], c, t)]
  BY <1>1, <1>2, <1>5, InsertStep, Zenon DEF n
<1>7. Abstract!Outside(t)
  BY NotLinked
<1>8. Abstract!Inserts("prio_insert", q, Abstract!InPriorityOrder)
  BY <1>2, <1>3, <1>6, <1>7 DEF Abstract!Inserts, Abstract!Op, Abstract!Becomes, Ls, Anchors
<1> QED
  BY <1>6, <1>8, Zenon DEF Abstract!Insert

\* What a step that takes the thread at place c of list l out of it shows.
TakenFrom(l, c) == /\ LinksInv' /\ op'[2] = Ls[l][c] /\ Ls[l] # <<>>
                   /\ Ls' = [Ls EXCEPT ![l] = Abstract!RemoveAt(Ls[l], c)]
                   /\ Ls[l] \in Seq(Threads) /\ Ls[l][c] \in Threads

\* The first thread of a list is the one behind the anchor.
LEMMA TakeFirst ==
    ASSUME LinksInv, NEW l \in Anchors, ~isempty(l), NEW name, op' = <<name, p_next[l]>>,
           p_next' = [p_next EXCEPT ![l] = p_next[p_next[l]]],
           \/ l \in Queues /\ p_prev' = [p_prev EXCEPT ![p_next[p_next[l]]] = l]
           \/ l \notin Queues /\ p_prev' = p_prev
    PROVE  /\ TakenFrom(l, 1) /\ op' \in {name} \X Threads
           /\ op'[2] = Head(Ls[l]) /\ Ls' = [Ls EXCEPT ![l] = Tail(Ls[l])]
<1> DEFINE n == Len(Ls[l])
<1>1. /\ n \in Nat /\ n > 0 /\ Ls[l] \in Seq(Threads) /\ Place(Ls, l, 0) = l
      /\ \A i \in 0 .. n : p_next[Place(Ls, l, i)] = Place(Ls, l, i + 1)
      /\ \A i \in 1 .. n : Place(Ls, l, i) = Ls[l][i] /\ Ls[l][i] \in Threads
  BY Around
<1>2. /\ p_next[l] = Place(Ls, l, 1) /\ p_next[p_next[l]] = Place(Ls, l, 2)
      /\ Place(Ls, l, 1) = Ls[l][1] /\ Ls[l][1] \in Threads /\ 1 \in 1 .. n /\ Ls[l] # <<>>
  BY <1>1
<1>3. TakenOut(Ls, l, 1, p_next, p_prev, p_next', p_prev')
  <2>1. Place(Ls, l, 1 - 1) = l /\ Place(Ls, l, 1 + 1) = p_next[p_next[l]]
    BY <1>1, <1>2
  <2> QED
    BY <2>1, Zenon DEF TakenOut
<1>4. LinksInv' /\ Ls' = [Ls EXCEPT ![l] = Abstract!RemoveAt(Ls[l], 1)]
  BY <1>2, <1>3, RemoveStep, Zenon
<1>5. Tail(Ls[l]) = Abstract!RemoveAt(Ls[l], 1)
  BY <1>1, EndFacts, Zenon
<1>6. Head(Ls[l]) = Ls[l][1]
  BY <1>1
<1> QED
  BY <1>1, <1>2, <1>4, <1>5, <1>6 DEF TakenFrom

\* fifo_remove takes the first thread of the queue.
LEMMA FifoRemove ==
    ASSUME LinksInv, NEW q \in Queues, ~isempty(q), fifo_remove(q)
    PROVE  LinksInv' /\ Abstract!Take
<1>1. q \in Anchors
  BY DEF Anchors
<1>2. /\ op' = <<"fifo_remove", p_next[q]>>
      /\ p_next' = [p_next EXCEPT ![q] = p_next[p_next[q]]]
      /\ p_prev' = [p_prev EXCEPT ![p_next[p_next[q]]] = q]
  BY Zenon DEF fifo_remove
<1>3. /\ TakenFrom(q, 1) /\ op' \in {"fifo_remove"} \X Threads
      /\ op'[2] = Head(Ls[q]) /\ Ls' = [Ls EXCEPT ![q] = Tail(Ls[q])]
  BY <1>1, <1>2, TakeFirst, Zenon
<1>4. Abstract!Returns("fifo_remove", q, Head, Tail)
  BY <1>1, <1>3 DEF TakenFrom, Abstract!Returns, Abstract!Op, Abstract!Becomes, Ls, Anchors
<1> QED
  BY <1>3, <1>4, Zenon DEF Abstract!Take, TakenFrom

\* list_remove takes the thread on top of the stack.
LEMMA ListRemove ==
    ASSUME LinksInv, NEW l \in Lists, ~isempty(l), list_remove(l)
    PROVE  LinksInv' /\ Abstract!Take
<1>1. l \in Anchors /\ l \notin Queues
  BY NodesApart DEF Anchors
<1>2. /\ op' = <<"list_remove", p_next[l]>>
      /\ p_next' = [p_next EXCEPT ![l] = p_next[p_next[l]]]
      /\ p_prev' = p_prev
  BY Zenon DEF list_remove
<1>3. /\ TakenFrom(l, 1) /\ op' \in {"list_remove"} \X Threads
      /\ op'[2] = Head(Ls[l]) /\ Ls' = [Ls EXCEPT ![l] = Tail(Ls[l])]
  BY <1>1, <1>2, TakeFirst, Zenon
<1>4. Abstract!Returns("list_remove", l, Head, Tail)
  BY <1>1, <1>3 DEF TakenFrom, Abstract!Returns, Abstract!Op, Abstract!Becomes, Ls, Anchors
<1> QED
  BY <1>3, <1>4, Zenon DEF Abstract!Take, TakenFrom

\* lifo_remove takes the last thread of the queue.
LEMMA LifoRemove ==
    ASSUME LinksInv, NEW q \in Queues, ~isempty(q), lifo_remove(q)
    PROVE  LinksInv' /\ Abstract!Take
<1> DEFINE n == Len(Ls[q])
<1>1. q \in Anchors
  BY DEF Anchors
<1>2. /\ n \in Nat /\ n > 0 /\ Ls[q] \in Seq(Threads) /\ Place(Ls, q, n + 1) = q
      /\ \A i \in 1 .. n + 1 : p_prev[Place(Ls, q, i)] = Place(Ls, q, i - 1)
      /\ \A i \in 1 .. n : Place(Ls, q, i) = Ls[q][i] /\ Ls[q][i] \in Threads
  BY <1>1, Around
<1>3. p_prev[q] = Ls[q][n] /\ p_prev[p_prev[q]] = Place(Ls, q, n - 1) /\ Ls[q][n] \in Threads /\ n \in 1 .. n
  <2>1. n \in 1 .. n /\ n \in 1 .. n + 1 /\ n + 1 \in 1 .. n + 1 /\ (n + 1) - 1 = n
    BY <1>2
  <2> QED
    BY <1>2, <2>1
<1>4. op' = <<"lifo_remove", Ls[q][n]>>
  BY <1>3 DEF lifo_remove
<1>5. TakenOut(Ls, q, n, p_next, p_prev, p_next', p_prev')
  BY <1>2, <1>3 DEF TakenOut, lifo_remove
<1>6. LinksInv' /\ Ls' = [Ls EXCEPT ![q] = Abstract!RemoveAt(Ls[q], n)]
  BY <1>1, <1>3, <1>5, RemoveStep, Zenon
<1>7. Abstract!Front(Ls[q]) = Abstract!RemoveAt(Ls[q], n) /\ Ls[q] # <<>>
  BY <1>2, EndFacts
<1>8. Abstract!Last(Ls[q]) = Ls[q][n]
  BY DEF Abstract!Last
<1>9. Abstract!Returns("lifo_remove", q, Abstract!Last, Abstract!Front)
  BY <1>1, <1>3, <1>4, <1>6, <1>7, <1>8 DEF Abstract!Returns, Abstract!Op, Abstract!Becomes, Ls, Anchors
<1> QED
  BY <1>6, <1>9, Zenon DEF Abstract!Take

\* dequeue takes the thread out of whatever place of its queue it is in.
LEMMA Dequeue ==
    ASSUME LinksInv, NEW t \in Threads, InQueue(t), dequeue(t)
    PROVE  LinksInv' /\ Abstract!Take
<1>1. PICK q \in Queues : \E i \in 1 .. Len(Walk(p_next, q)) : Walk(p_next, q)[i] = t
  BY DEF InQueue
<1> DEFINE n == Len(Ls[q])
<1>2. q \in Anchors
  BY DEF Anchors
<1>3. /\ n \in Nat /\ Ls[q] \in Seq(Threads) /\ Ls[q] = Walk(p_next, q)
      /\ \A i \in 0 .. n : p_next[Place(Ls, q, i)] = Place(Ls, q, i + 1)
      /\ \A i \in 1 .. n + 1 : p_prev[Place(Ls, q, i)] = Place(Ls, q, i - 1)
      /\ \A i \in 1 .. n : Place(Ls, q, i) = Ls[q][i] /\ Ls[q][i] \in Threads
  BY <1>2, Around
<1>4. PICK c \in 1 .. n : Ls[q][c] = t
  BY <1>1, <1>3
<1>5. p_next[t] = Place(Ls, q, c + 1) /\ p_prev[t] = Place(Ls, q, c - 1) /\ n > 0
  <2>1. c \in 0 .. n /\ c \in 1 .. n + 1 /\ n > 0
    BY <1>3
  <2> QED
    BY <1>3, <1>4, <2>1
<1>6. TakenOut(Ls, q, c, p_next, p_prev, p_next', p_prev')
  BY <1>5 DEF TakenOut, dequeue
<1>7. LinksInv' /\ Ls' = [Ls EXCEPT ![q] = Abstract!RemoveAt(Ls[q], c)]
  BY <1>2, <1>4, <1>6, RemoveStep, Zenon
<1>8. Ls[q] # <<>> /\ c \in DOMAIN Ls[q] /\ op' = <<"dequeue", t>>
  BY <1>3, <1>5, LenProperties DEF dequeue
<1>9. Abstract!Returns("dequeue", q, LAMBDA s : s[c], LAMBDA s : Abstract!RemoveAt(s, c))
  BY <1>2, <1>4, <1>7, <1>8 DEF Abstract!Returns, Abstract!Op, Abstract!Becomes, Ls, Anchors
<1>10. \E i \in DOMAIN Ls[q] : Abstract!Returns("dequeue", q, LAMBDA s : s[i], LAMBDA s : Abstract!RemoveAt(s, i))
  BY <1>8, <1>9, Zenon
<1> QED
  BY <1>2, <1>7, <1>10, Zenon DEF Abstract!Take, Ls

-----------------------------------------------------------------------------
(* The refinement                                                            *)

\* Empty lists are their anchors.
LEMMA InitLinks ==
    ASSUME ListsInit
    PROVE  LinksInv /\ Abstract!Init
<1> DEFINE L == [l \in Anchors |-> <<>>]
<1>1. L \in [Anchors -> Seq(Threads)] /\ p_next \in [Node -> Node] /\ p_prev \in [Node -> Node]
  BY DEF ListsInit
<1>2. \A l \in Anchors : Len(L[l]) = 0 /\ p_next[l] = l /\ p_prev[l] = l
  BY DEF ListsInit, Node
<1>3. \A l \in Anchors : \A i \in Int : Place(L, l, i) = l
  BY <1>2 DEF Place
<1> HIDE DEF L
<1>4. \A i \in 0 .. 0 : i \in Int /\ i + 1 \in Int
  OBVIOUS
<1>5. Forward(L, p_next)
  BY <1>2, <1>3, <1>4 DEF Forward
<1>6. Backward(L, p_prev)
  BY <1>2, <1>3, <1>4 DEF Backward, Anchors
<1>7. Apart(L)
  BY <1>2 DEF Apart
<1>8. Represent(L, p_next, p_prev)
  BY <1>1, <1>5, <1>6, <1>7 DEF Represent
<1>9. Ls = L
  BY <1>8, ReadBack DEF Ls
<1>10. op = <<"init">>
  BY DEF ListsInit
<1> QED
  BY <1>8, <1>9, <1>10 DEF LinksInv, Abstract!Init, Ls, L, Anchors

\* Every operation on the links is one on the sequences.
LEMMA StepLinks ==
    ASSUME LinksInv, [ListsNext]_linkVars
    PROVE  LinksInv' /\ [Abstract!Next]_<<Ls, op>>
<1>1. CASE UNCHANGED linkVars
  <2>1. p_next' = p_next /\ p_prev' = p_prev /\ op' = op
    BY <1>1 DEF linkVars
  <2>2. Ls' = Ls
    BY <2>1, Zenon DEF Ls
  <2>3. LinksInv'
    BY <2>1, <2>2, Zenon DEF LinksInv
  <2> QED
    BY <2>1, <2>2, <2>3
<1>2. ASSUME NEW t \in Threads, ~Linked(t), NEW q \in Queues, prio_insert(t, q) \/ queue_insert(t, q)
      PROVE  LinksInv' /\ Abstract!Next
  BY <1>2, PrioInsert, QueueInsert, Zenon DEF Abstract!Next
<1>3. ASSUME NEW t \in Threads, ~Linked(t), NEW l \in Lists, list_insert(t, l)
      PROVE  LinksInv' /\ Abstract!Next
  BY <1>3, ListInsert, Zenon DEF Abstract!Next
<1>4. ASSUME NEW q \in Queues, ~isempty(q), fifo_remove(q) \/ lifo_remove(q)
      PROVE  LinksInv' /\ Abstract!Next
  BY <1>4, FifoRemove, LifoRemove, Zenon DEF Abstract!Next
<1>5. ASSUME NEW t \in Threads, InQueue(t), dequeue(t)
      PROVE  LinksInv' /\ Abstract!Next
  BY <1>5, Dequeue, Zenon DEF Abstract!Next
<1>6. ASSUME NEW l \in Lists, ~isempty(l), list_remove(l)
      PROVE  LinksInv' /\ Abstract!Next
  BY <1>6, ListRemove, Zenon DEF Abstract!Next
<1> QED
  BY <1>1, <1>2, <1>3, <1>4, <1>5, <1>6, Zenon DEF ListsNext

\* The thread lists (chlists.c) are sequences: whatever was inserted, taken and
\* unlinked before, and whatever stale links the threads carry, every operation
\* inserts the thread where the order of its list says and returns the right one.
THEOREM ListsImplement == ListsSpec => ListsAreSequences
<1>1. ListsInit => LinksInv /\ Abstract!Init
  BY InitLinks
<1>2. LinksInv /\ [ListsNext]_linkVars => LinksInv' /\ [Abstract!Next]_<<Ls, op>>
  BY StepLinks
<1>3. LinksInv /\ [ListsNext]_linkVars => LinksInv' /\ [Abstract!Next]_<<[l \in Anchors |-> Walk(p_next, l)], op>>
  BY <1>2 DEF Ls
<1> QED
  BY <1>1, <1>3, PTL DEF ListsSpec, ListsAreSequences, Abstract!Spec
=============================================================================
