------------------------ MODULE Translation_proofs -------------------------
(***************************************************************************)
(* Theorems about Translation, for any number of cues, any lengths, any    *)
(* limits and any answers of the model.                                    *)
(*                                                                         *)
(* The deque is always replaced at its head: by nothing, by the two halves *)
(* of the head, or by single cues of it.  Replaced is the one lemma about  *)
(* that; the others say what the replacements are.                         *)
(***************************************************************************)
EXTENDS Translation, FiniteSetTheorems, FunctionTheorems, SequenceTheorems, TLAPS

-----------------------------------------------------------------------------
(***************************************************************************)
(* Natural numbers and finite sets                                         *)
(***************************************************************************)
\* The least-number principle, from the well-foundedness of strict inclusion.
LEMMA Least ==
    ASSUME NEW T \in SUBSET Nat, T # {}
    PROVE  \E x \in T : \A y \in T : x <= y
<1> DEFINE upto(n) == 1 .. n
           U == {upto(n) : n \in T}
           R == StrictSubsetOrdering(Nat)
           S == FiniteSubsetsOf(Nat)
<1>1. IsWellFoundedOn(R, S) BY FS_StrictSubsetOrderingWellFounded
<1>2. U \subseteq S
  <2>1. ASSUME NEW n \in T PROVE upto(n) \in S
    <3>1. IsFiniteSet(1 .. n) BY FS_Interval
    <3> QED BY <3>1 DEF FiniteSubsetsOf
  <2> QED BY <2>1
<1>3. U # {} OBVIOUS
<1> HIDE DEF U, R, S
<1>4. PICK m \in U : \A y \in U : ~(<<y, m>> \in R)
  BY <1>1, <1>2, <1>3, WFMin, Zenon
<1>5. PICK x \in T : m = upto(x) BY DEF U
<1>6. ASSUME NEW y \in T, ~(x <= y) PROVE FALSE
  <2>1. upto(y) \in U BY DEF U
  <2>2. upto(y) \subseteq upto(x) /\ upto(y) # upto(x)
    <3>1. y < x /\ x \in Nat /\ y \in Nat BY <1>6
    <3>2. x \in upto(x) /\ x \notin upto(y) BY <3>1
    <3> QED BY <3>1, <3>2
  <2>3. upto(x) \in SUBSET Nat /\ upto(y) \in SUBSET Nat OBVIOUS
  <2>4. <<upto(y), upto(x)>> \in R BY <2>2, <2>3 DEF R, StrictSubsetOrdering
  <2> QED BY <2>1, <2>4, <1>4, <1>5
<1> QED BY <1>6

\* A bounded set has a greatest element.
LEMMA Greatest ==
    ASSUME NEW n \in Nat, NEW T \in SUBSET (1 .. n), T # {}
    PROVE  \E x \in T : \A y \in T : y <= x
<1> DEFINE U == {n - x : x \in T}
<1>1. U \in SUBSET Nat /\ U # {}
  <2>1. \A x \in T : x \in 1 .. n /\ n - x \in Nat OBVIOUS
  <2> QED BY <2>1
<1> HIDE DEF U
<1>2. PICK u \in U : \A v \in U : u <= v BY <1>1, Least
<1>3. PICK x \in T : u = n - x BY DEF U
<1>4. ASSUME NEW y \in T PROVE y <= x
  <2>1. n - y \in U BY DEF U
  <2>2. n - x <= n - y BY <2>1, <1>2, <1>3
  <2> QED BY <2>2
<1> QED BY <1>4

Increasing(q) == \A j, k \in DOMAIN q : j < k => q[j] < q[k]

\* Every set of cues can be listed in increasing order.  By contradiction: of the
\* sets that cannot, take one of least size, and list it without its greatest.
LEMMA Listing ==
    ASSUME NEW S \in SUBSET Cue
    PROVE  \E q \in [1 .. Cardinality(S) -> S] : Increasing(q)
<1> DEFINE Listed(A) == \E q \in [1 .. Cardinality(A) -> A] : Increasing(q)
           Bad == {A \in SUBSET Cue : ~Listed(A)}
           Sizes == {Cardinality(A) : A \in Bad}
<1> USE TranslationAssumption
<1>0. \A A \in SUBSET Cue : IsFiniteSet(A) /\ Cardinality(A) \in Nat
  <2>1. IsFiniteSet(Cue) BY FS_Interval DEF Cue
  <2> QED BY <2>1, FS_Subset, FS_CardinalityType
<1>1. SUFFICES ASSUME Bad # {} PROVE FALSE OBVIOUS
<1>2. Sizes \in SUBSET Nat /\ Sizes # {} BY <1>0, <1>1
<1>3. PICK c \in Sizes : \A d \in Sizes : c <= d
  <2> HIDE DEF Sizes
  <2> QED BY <1>2, Least
<1>4. PICK A \in Bad : c = Cardinality(A) OBVIOUS
<1>5. A # {}
  <2>1. SUFFICES ASSUME A = {} PROVE Listed(A) BY DEF Bad
  <2>2. Cardinality(A) = 0 BY <2>1, FS_EmptySet
  <2>3. [k \in 1 .. 0 |-> 1] \in [1 .. Cardinality(A) -> A] BY <2>2
  <2>4. Increasing([k \in 1 .. 0 |-> 1]) BY DEF Increasing
  <2> QED BY <2>3, <2>4
<1>6. PICK x \in A : \A y \in A : y <= x BY <1>5, Greatest DEF Cue
<1> DEFINE B == A \ {x}
<1>7. B \in SUBSET Cue /\ IsFiniteSet(A) /\ Cardinality(B) = c - 1 /\ c \in Nat \ {0}
  <2>1. IsFiniteSet(A) /\ Cardinality(A) \in Nat BY <1>0
  <2>2. Cardinality(A) # 0 BY <2>1, <1>5, FS_EmptySet
  <2>3. Cardinality(B) = Cardinality(A) - 1 BY <2>1, FS_RemoveElement
  <2> QED BY <2>1, <2>2, <2>3, <1>4
<1>8. Listed(B)
  <2>1. B \notin Bad
    <3>1. SUFFICES ASSUME B \in Bad PROVE FALSE OBVIOUS
    <3>2. Cardinality(B) \in Sizes BY <3>1
    <3>3. c <= Cardinality(B) BY <3>2, <1>3
    <3> QED BY <3>3, <1>7
  <2> QED BY <2>1, <1>7
<1>9. PICK p \in [1 .. Cardinality(B) -> B] : Increasing(p) BY <1>8
<1> HIDE DEF B
<1> DEFINE q == [k \in 1 .. c |-> IF k = c THEN x ELSE p[k]]
<1>10. \A k \in 1 .. c : (k = c /\ q[k] = x) \/ (k \in 1 .. c - 1 /\ q[k] = p[k] /\ p[k] \in B)
  BY <1>7, <1>9
<1>11. q \in [1 .. c -> A]
  <2>1. \A k \in 1 .. c : q[k] \in A BY <1>10 DEF B
  <2> QED BY <2>1
<1>12. Increasing(q)
  <2>1. SUFFICES ASSUME NEW j \in 1 .. c, NEW k \in 1 .. c, j < k PROVE q[j] < q[k]
    BY DEF Increasing
  <2>2. j \in 1 .. c - 1 /\ q[j] = p[j] /\ p[j] \in B BY <2>1, <1>10, <1>7
  <2>3. CASE k = c
    <3>1. p[j] <= x /\ p[j] # x /\ p[j] \in Cue /\ x \in Cue BY <2>2, <1>6 DEF B
    <3> QED BY <2>2, <2>3, <3>1, <1>10 DEF Cue
  <2>4. CASE k # c
    <3>1. k \in 1 .. c - 1 /\ q[k] = p[k] BY <2>4, <1>10
    <3>2. DOMAIN p = 1 .. c - 1 BY <1>7, <1>9
    <3>3. p[j] < p[k] BY <3>1, <3>2, <2>1, <2>2, <1>9 DEF Increasing
    <3> QED BY <3>1, <3>3, <2>2
  <2> QED BY <2>3, <2>4
<1>13. Listed(A) BY <1>4, <1>11, <1>12
<1> QED BY <1>13 DEF Bad

\* What InOrder lists is the set, each of its members, in increasing order.
LEMMA InOrderLists ==
    ASSUME NEW S \in SUBSET Cue
    PROVE  /\ Cardinality(S) \in Nat /\ IsFiniteSet(S)
           /\ InOrder(S) \in [1 .. Cardinality(S) -> S]
           /\ Increasing(InOrder(S))
           /\ \A i \in S : \E k \in 1 .. Cardinality(S) : InOrder(S)[k] = i
<1> DEFINE c == Cardinality(S)
           q == InOrder(S)
<1>1. IsFiniteSet(S) /\ c \in Nat
  <2>1. IsFiniteSet(Cue) BY TranslationAssumption, FS_Interval DEF Cue
  <2> QED BY <2>1, FS_Subset, FS_CardinalityType
<1>2. q \in [1 .. c -> S] /\ Increasing(q)
  <2>1. \E p \in [1 .. c -> S] : \A j, k \in DOMAIN p : j < k => p[j] < p[k]
    BY Listing DEF Increasing
  <2> QED BY <2>1 DEF InOrder, Increasing
<1> HIDE DEF q, c
<1>3. q \in Injection(1 .. c, S)
  <2>1. ASSUME NEW a \in 1 .. c, NEW b \in 1 .. c, q[a] = q[b] PROVE a = b
    <3>0. q[a] \in S /\ q[b] \in S /\ S \subseteq Nat BY <1>2 DEF Cue
    <3>1. q[a] \in Nat /\ q[b] \in Nat /\ DOMAIN q = 1 .. c BY <1>2, <3>0
    <3>2. ~(a < b) /\ ~(b < a) BY <3>1, <2>1, <1>2 DEF Increasing
    <3> QED BY <3>2
  <2> QED BY <1>2, <2>1, Fun_IsInj
<1>4. Cardinality(1 .. c) = c BY <1>1, FS_Interval
<1>5. q \in Surjection(1 .. c, S) BY <1>1, <1>3, <1>4, FS_Injection DEF c
<1>6. \A i \in S : \E k \in 1 .. c : q[k] = i BY <1>5 DEF Surjection
<1> QED BY <1>1, <1>2, <1>6 DEF q, c

-----------------------------------------------------------------------------
(***************************************************************************)
(* Ranges and the deque                                                    *)
(***************************************************************************)
CueRange == Cue \X (2 .. N + 1)

\* The bounds of a range are cues, or one more.
LEMMA RangeBounds ==
    ASSUME NEW r \in CueRange
    PROVE  r[1] \in Nat \ {0} /\ r[1] <= N /\ r[2] \in Nat /\ r[2] <= N + 1 /\ N \in Nat
<1> QED BY TranslationAssumption DEF CueRange, Cue

Deque(w) == w \in Seq(CueRange) /\ \A k \in 1 .. Len(w) : w[k][1] < w[k][2]

\* The ranges of w lie from a to b, b excluded.
Between(w, a, b) == \A k \in 1 .. Len(w) : a <= w[k][1] /\ w[k][2] <= b

\* Where a range ends: after the cue it begins at, and not beyond the cues.
LEMMA RangeEndType ==
    ASSUME NEW s \in Cue, NEW size \in Nat
    PROVE  RangeEnd(s, size) \in s + 1 .. N + 1
<1> DEFINE T == {e \in s + 1 .. N + 1 : ~Extends(s, e, size)}
<1> USE TranslationAssumption
<1>0. s \in Nat /\ N \in Nat /\ s <= N BY DEF Cue
<1>1. T \in SUBSET Nat BY <1>0
<1>2. N + 1 \in T BY <1>0 DEF Extends
<1>3. PICK e \in T : \A d \in T : e <= d
  <2> HIDE DEF T
  <2> QED BY <1>1, <1>2, Least
<1>4. \A d \in s + 1 .. e - 1 : Extends(s, d, size)
  <2>1. SUFFICES ASSUME NEW d \in s + 1 .. e - 1, ~Extends(s, d, size) PROVE FALSE OBVIOUS
  <2>2. d \in T /\ d < e BY <1>0, <1>3, <2>1
  <2> QED BY <2>2, <1>3, <1>1
<1>5. \E x \in s + 1 .. N + 1 : /\ ~Extends(s, x, size)
                               /\ \A d \in s + 1 .. x - 1 : Extends(s, d, size)
  BY <1>4
<1> QED BY <1>5 DEF RangeEnd

\* Of a deque in order the head comes first, then all the rest.
LEMMA HeadFirst ==
    ASSUME NEW w, Deque(w), Apart(w), w # <<>>
    PROVE  /\ Head(w) \in CueRange /\ Head(w)[1] < Head(w)[2] /\ Head(w) = w[1]
           /\ Deque(Tail(w)) /\ Apart(Tail(w))
           /\ \A k \in 1 .. Len(Tail(w)) : Head(w)[2] <= Tail(w)[k][1] /\ Tail(w)[k] = w[k + 1]
           /\ Len(w) \in Nat \ {0} /\ Len(Tail(w)) = Len(w) - 1
           /\ Covered(w) = Positions(Head(w)) \cup Covered(Tail(w))
<1>1. w \in Seq(CueRange) BY DEF Deque
<1>2. /\ Tail(w) \in Seq(CueRange) /\ Len(w) \in Nat \ {0} /\ Len(Tail(w)) = Len(w) - 1
      /\ \A k \in 1 .. Len(Tail(w)) : Tail(w)[k] = w[k + 1] /\ k + 1 \in 1 .. Len(w)
      /\ Head(w) = w[1] /\ Head(w) \in CueRange
  BY <1>1, HeadTailProperties
<1>3. Head(w)[1] < Head(w)[2] BY <1>2 DEF Deque
<1>4. Deque(Tail(w)) BY <1>2 DEF Deque
<1>5. Apart(Tail(w))
  <2>1. SUFFICES ASSUME NEW j \in 1 .. Len(Tail(w)), NEW k \in 1 .. Len(Tail(w)), j < k
                 PROVE  Tail(w)[j][2] <= Tail(w)[k][1]
    BY DEF Apart
  <2>2. j + 1 < k + 1 BY <2>1
  <2> QED BY <1>2, <2>2 DEF Apart
<1>6. \A k \in 1 .. Len(Tail(w)) : Head(w)[2] <= Tail(w)[k][1]
  <2>1. SUFFICES ASSUME NEW k \in 1 .. Len(Tail(w)) PROVE Head(w)[2] <= Tail(w)[k][1] OBVIOUS
  <2>2. 1 < k + 1 /\ 1 \in 1 .. Len(w) /\ k + 1 \in 1 .. Len(w) BY <1>2
  <2> QED BY <1>2, <2>2 DEF Apart
<1>7. Covered(w) = Positions(Head(w)) \cup Covered(Tail(w))
  <2>1. ASSUME NEW k \in 1 .. Len(w) PROVE k = 1 \/ k - 1 \in 1 .. Len(Tail(w)) BY <1>2
  <2>2. ASSUME NEW k \in 1 .. Len(w), k # 1 PROVE w[k] = Tail(w)[k - 1]
    <3>1. k - 1 \in 1 .. Len(Tail(w)) /\ (k - 1) + 1 = k BY <2>1, <2>2
    <3> QED BY <1>2, <3>1
  <2>3. Covered(w) \subseteq Positions(Head(w)) \cup Covered(Tail(w))
    BY <1>2, <2>1, <2>2 DEF Covered
  <2>4. Positions(Head(w)) \cup Covered(Tail(w)) \subseteq Covered(w)
    BY <1>2 DEF Covered
  <2> QED BY <2>3, <2>4
<1> QED BY <1>2, <1>3, <1>4, <1>5, <1>6, <1>7

\* The head replaced by ranges of its own in order: the deque stays in order.
LEMMA Replaced ==
    ASSUME NEW w, Deque(w), Apart(w), w # <<>>,
           NEW s, Deque(s), Apart(s), Between(s, Head(w)[1], Head(w)[2])
    PROVE  /\ Deque(s \o Tail(w)) /\ Apart(s \o Tail(w))
           /\ Covered(s \o Tail(w)) = Covered(s) \cup Covered(Tail(w))
           /\ \A c \in Nat : Between(w, 1, c) => Between(s \o Tail(w), 1, c)
<1> DEFINE t == Tail(w)
           v == s \o t
<1>1. /\ Head(w) \in CueRange /\ Deque(t) /\ Apart(t) /\ Head(w) = w[1]
      /\ \A k \in 1 .. Len(t) : Head(w)[2] <= t[k][1] /\ t[k] = w[k + 1]
      /\ Len(w) \in Nat \ {0} /\ Len(t) = Len(w) - 1
  BY HeadFirst
<1> HIDE DEF t
<1>2. s \in Seq(CueRange) /\ t \in Seq(CueRange) /\ Len(s) \in Nat /\ Len(t) \in Nat
  BY <1>1 DEF Deque
<1>3. /\ v \in Seq(CueRange) /\ Len(v) = Len(s) + Len(t)
      /\ \A k \in 1 .. Len(v) :
           \/ k <= Len(s) /\ k \in 1 .. Len(s) /\ v[k] = s[k]
           \/ k > Len(s) /\ k - Len(s) \in 1 .. Len(t) /\ v[k] = t[k - Len(s)]
  BY <1>2, ConcatProperties
<1>3a. /\ \A k \in 1 .. Len(s) : k \in 1 .. Len(v) /\ v[k] = s[k]
       /\ \A k \in 1 .. Len(t) : k + Len(s) \in 1 .. Len(v) /\ v[k + Len(s)] = t[k]
  <2>1. ASSUME NEW k \in 1 .. Len(s) PROVE k \in 1 .. Len(v) /\ v[k] = s[k]
    BY <1>2, <1>3
  <2>2. ASSUME NEW k \in 1 .. Len(t) PROVE k + Len(s) \in 1 .. Len(v) /\ v[k + Len(s)] = t[k]
    <3>1. k + Len(s) \in 1 .. Len(v) /\ k + Len(s) > Len(s) /\ (k + Len(s)) - Len(s) = k
      BY <1>2, <1>3
    <3> QED BY <1>2, <1>3, <3>1
  <2> QED BY <2>1, <2>2
<1> HIDE DEF v
<1>4. Deque(v)
  <2>1. \A k \in 1 .. Len(v) : v[k][1] < v[k][2] BY <1>1, <1>3 DEF Deque
  <2> QED BY <1>3, <2>1 DEF Deque
<1>5. Apart(v)
  <2>1. SUFFICES ASSUME NEW j \in 1 .. Len(v), NEW k \in 1 .. Len(v), j < k
                 PROVE  v[j][2] <= v[k][1]
    BY DEF Apart
  <2>2. CASE k <= Len(s)
    <3>1. j \in 1 .. Len(s) /\ k \in 1 .. Len(s) /\ v[j] = s[j] /\ v[k] = s[k]
      BY <1>2, <1>3, <2>1, <2>2
    <3> QED BY <3>1, <2>1 DEF Apart
  <2>3. CASE j > Len(s)
    <3>1. /\ j - Len(s) \in 1 .. Len(t) /\ k - Len(s) \in 1 .. Len(t)
          /\ v[j] = t[j - Len(s)] /\ v[k] = t[k - Len(s)] /\ j - Len(s) < k - Len(s)
      BY <1>2, <1>3, <2>1, <2>3
    <3> QED BY <3>1, <1>1 DEF Apart
  <2>4. CASE j <= Len(s) /\ k > Len(s)
    <3>1. /\ j \in 1 .. Len(s) /\ v[j] = s[j]
          /\ k - Len(s) \in 1 .. Len(t) /\ v[k] = t[k - Len(s)]
      BY <1>2, <1>3, <2>1, <2>4
    <3>2. v[j][2] <= Head(w)[2] BY <3>1 DEF Between
    <3>3. Head(w)[2] <= v[k][1] BY <3>1, <1>1
    <3>4. v[j][2] \in Nat /\ v[k][1] \in Nat /\ Head(w)[2] \in Nat
      <4>1. v[j] \in CueRange /\ v[k] \in CueRange BY <1>3, <2>1, ElementOfSeq
      <4> QED BY <4>1, <1>1, RangeBounds
    <3> QED BY <3>2, <3>3, <3>4
  <2> QED BY <1>2, <2>1, <2>2, <2>3, <2>4
<1>6. Covered(v) = Covered(s) \cup Covered(t)
  <2>1. Covered(v) \subseteq Covered(s) \cup Covered(t)
    BY <1>3 DEF Covered
  <2>2. Covered(s) \subseteq Covered(v) BY <1>3a DEF Covered
  <2>3. Covered(t) \subseteq Covered(v) BY <1>3a DEF Covered
  <2> QED BY <2>1, <2>2, <2>3
<1>7. ASSUME NEW c \in Nat, Between(w, 1, c) PROVE Between(v, 1, c)
  <2>1. SUFFICES ASSUME NEW k \in 1 .. Len(v) PROVE 1 <= v[k][1] /\ v[k][2] <= c
    BY DEF Between
  <2>2. CASE k \in 1 .. Len(s) /\ v[k] = s[k]
    <3>1. Head(w)[1] <= v[k][1] /\ v[k][2] <= Head(w)[2] BY <2>2 DEF Between
    <3>2. 1 <= Head(w)[1] /\ Head(w)[2] <= c BY <1>1, <1>7 DEF Between
    <3>3. v[k] \in CueRange BY <1>3, <2>1, ElementOfSeq
    <3> QED BY <3>1, <3>2, <3>3, <1>1, RangeBounds
  <2>3. CASE k - Len(s) \in 1 .. Len(t) /\ v[k] = t[k - Len(s)]
    <3>1. v[k] = w[(k - Len(s)) + 1] /\ (k - Len(s)) + 1 \in 1 .. Len(w)
      BY <1>1, <1>2, <2>3
    <3> QED BY <3>1, <1>7 DEF Between
  <2> QED BY <1>3, <2>1, <2>2, <2>3
<1> QED BY <1>4, <1>5, <1>6, <1>7 DEF v, t

\* The cues asked for one by one are in order, and no more than they were.
LEMMA SinglesOf ==
    ASSUME NEW r \in CueRange, NEW S \in SUBSET Positions(r)
    PROVE  /\ Deque(Singles(S)) /\ Apart(Singles(S))
           /\ Between(Singles(S), r[1], r[2]) /\ Covered(Singles(S)) = S
<1> DEFINE c == Cardinality(S)
           q == InOrder(S)
           w == Singles(S)
<1>1. S \in SUBSET Cue /\ \A i \in S : i \in Nat /\ r[1] <= i /\ i < r[2]
  BY RangeBounds DEF Positions, Cue
<1>2. /\ c \in Nat /\ q \in [1 .. c -> S] /\ Increasing(q)
      /\ \A i \in S : \E k \in 1 .. c : q[k] = i
  BY <1>1, InOrderLists
<1>3. w = [k \in 1 .. c |-> <<q[k], q[k] + 1>>] BY DEF Singles
<1> HIDE DEF c, q, w
<1>4. \A k \in 1 .. c : q[k] \in S /\ <<q[k], q[k] + 1>> \in CueRange
  <2>1. \A i \in S : i \in Cue /\ i + 1 \in 2 .. N + 1 BY <1>1, RangeBounds DEF Cue
  <2>2. \A k \in 1 .. c : q[k] \in S BY <1>2
  <2> QED BY <2>1, <2>2 DEF CueRange
<1>5. w \in Seq(CueRange) /\ Len(w) = c BY <1>2, <1>3, <1>4
<1>6. \A k \in 1 .. c : w[k] = <<q[k], q[k] + 1>> BY <1>3
<1>7. \A k \in 1 .. c : /\ w[k][1] = q[k] /\ w[k][2] = q[k] + 1
                       /\ q[k] \in Nat /\ r[1] <= q[k] /\ q[k] < r[2]
  <2>1. SUFFICES ASSUME NEW k \in 1 .. c
                 PROVE  /\ w[k][1] = q[k] /\ w[k][2] = q[k] + 1
                        /\ q[k] \in Nat /\ r[1] <= q[k] /\ q[k] < r[2]
    OBVIOUS
  <2>2. w[k][1] = q[k] /\ w[k][2] = q[k] + 1 BY <1>6
  <2>3. q[k] \in S BY <1>4
  <2> QED BY <1>1, <2>2, <2>3
<1>8. Deque(w) BY <1>5, <1>7 DEF Deque
<1>9. Apart(w)
  <2>1. SUFFICES ASSUME NEW j \in 1 .. c, NEW k \in 1 .. c, j < k PROVE q[j] + 1 <= q[k]
    BY <1>5, <1>7 DEF Apart
  <2>2. q[j] < q[k] /\ q[j] \in Nat /\ q[k] \in Nat
    BY <1>2, <1>7, <2>1 DEF Increasing
  <2> QED BY <2>2
<1>10. Between(w, r[1], r[2])
  <2>1. r[2] \in Nat BY RangeBounds
  <2>2. ASSUME NEW k \in 1 .. c PROVE r[1] <= w[k][1] /\ w[k][2] <= r[2]
    BY <1>7, <2>1, <2>2
  <2> QED BY <1>5, <2>2 DEF Between
<1>11. Covered(w) = S
  <2>1. \A k \in 1 .. c : Positions(w[k]) = {q[k]} BY <1>7 DEF Positions
  <2>2. ASSUME NEW i \in Covered(w) PROVE i \in S
    <3>1. PICK k \in 1 .. c : i \in Positions(w[k]) BY <1>5 DEF Covered
    <3>2. i = q[k] BY <2>1, <3>1
    <3> QED BY <1>4, <3>2
  <2>3. ASSUME NEW i \in S PROVE i \in Covered(w)
    <3>1. PICK k \in 1 .. c : q[k] = i BY <1>2
    <3>2. i \in Positions(w[k]) BY <2>1, <3>1
    <3> QED BY <1>5, <3>2 DEF Covered
  <2> QED BY <2>2, <2>3
<1> QED BY <1>8, <1>9, <1>10, <1>11 DEF w

\* Halving loses nothing, and each half has a cue.
LEMMA HalvesOf ==
    ASSUME NEW r \in CueRange, Several(r)
    PROVE  /\ Deque(Halves(r)) /\ Apart(Halves(r))
           /\ Between(Halves(r), r[1], r[2]) /\ Covered(Halves(r)) = Positions(r)
<1> DEFINE m == r[1] + (r[2] - r[1]) \div 2
           w == Halves(r)
<1>1. r[1] \in Nat \ {0} /\ r[2] \in Nat /\ r[2] <= N + 1 /\ r[1] <= N /\ N \in Nat
  BY RangeBounds
<1>2. m \in Nat /\ r[1] < m /\ m < r[2] BY <1>1 DEF Several
<1>3. w = <<<<r[1], m>>, <<m, r[2]>>>> BY DEF Halves
<1> HIDE DEF m, w
<1>4. <<r[1], m>> \in CueRange /\ <<m, r[2]>> \in CueRange BY <1>1, <1>2 DEF CueRange, Cue
<1>5. w \in Seq(CueRange) /\ Len(w) = 2 /\ w[1] = <<r[1], m>> /\ w[2] = <<m, r[2]>>
  BY <1>3, <1>4
<1>6. w[1][1] = r[1] /\ w[1][2] = m /\ w[2][1] = m /\ w[2][2] = r[2] BY <1>5
<1>7. \A k \in 1 .. Len(w) : k = 1 \/ k = 2 BY <1>5
<1>8. Deque(w) BY <1>2, <1>5, <1>6, <1>7 DEF Deque
<1>9. Apart(w)
  <2>1. SUFFICES ASSUME NEW j \in 1 .. Len(w), NEW k \in 1 .. Len(w), j < k
                 PROVE  w[j][2] <= w[k][1]
    BY DEF Apart
  <2>2. j = 1 /\ k = 2 BY <1>7, <2>1
  <2> QED BY <1>2, <1>6, <2>2
<1>10. Between(w, r[1], r[2]) BY <1>1, <1>2, <1>6, <1>7 DEF Between
<1>11. Covered(w) = Positions(w[1]) \cup Positions(w[2])
  <2>1. 1 \in 1 .. Len(w) /\ 2 \in 1 .. Len(w) BY <1>5
  <2> QED BY <1>7, <2>1 DEF Covered
<1>12. Positions(w[1]) \cup Positions(w[2]) = Positions(r)
  BY <1>1, <1>2, <1>6 DEF Positions
<1> QED BY <1>8, <1>9, <1>10, <1>11, <1>12 DEF w

\* Nothing in place of the head.
LEMMA NothingOf ==
    ASSUME NEW r
    PROVE  /\ Deque(<<>>) /\ Apart(<<>>) /\ Between(<<>>, r[1], r[2]) /\ Covered(<<>>) = {}
<1> QED BY DEF Deque, Apart, Between, Covered

-----------------------------------------------------------------------------
(***************************************************************************)
(* The deque and the cursor                                                *)
(***************************************************************************)
\* What is queued is in order, and ends where the cursor is.
DequeInv(w, c) == /\ Deque(w) /\ Apart(w) /\ Between(w, 1, c) /\ c \in 1 .. N + 1

\* Of a range: all of its cues are queued, before all others that are.
LEMMA HeadQueued ==
    ASSUME DequeInv(work, cursor), work # <<>>
    PROVE  /\ Head(work) \in CueRange /\ Head(work)[1] < Head(work)[2]
           /\ Positions(Head(work)) \subseteq Cue
           /\ Queued = Positions(Head(work)) \cup Covered(Tail(work)) \cup (cursor .. N)
           /\ \A i \in Covered(Tail(work)) \cup (cursor .. N) : i \in Nat /\ Head(work)[2] <= i
           /\ \A i \in Positions(Head(work)) : i < Head(work)[2]
<1> DEFINE r == Head(work)
           t == Tail(work)
<1>1. /\ r \in CueRange /\ r[1] < r[2] /\ r = work[1] /\ Deque(t)
      /\ \A k \in 1 .. Len(t) : r[2] <= t[k][1] /\ t[k] = work[k + 1]
      /\ Len(work) \in Nat \ {0} /\ Covered(work) = Positions(r) \cup Covered(t)
  BY HeadFirst DEF DequeInv
<1> HIDE DEF r, t
<1>2. r[1] \in Nat \ {0} /\ r[1] <= N /\ r[2] \in Nat /\ r[2] <= N + 1 /\ N \in Nat
  BY <1>1, RangeBounds
<1>3. Positions(r) \subseteq Cue /\ \A i \in Positions(r) : i < r[2]
  BY <1>2 DEF Positions, Cue
<1>4. r[2] <= cursor /\ cursor \in Nat
  BY <1>1, <1>2 DEF DequeInv, Between
<1>5. \A i \in Covered(t) : i \in Nat /\ r[2] <= i
  <2>1. SUFFICES ASSUME NEW i \in Covered(t) PROVE i \in Nat /\ r[2] <= i OBVIOUS
  <2>2. PICK k \in 1 .. Len(t) : i \in Positions(t[k]) BY DEF Covered
  <2>3. t[k] \in CueRange BY <1>1, ElementOfSeq DEF Deque
  <2>4. t[k][1] \in Nat /\ t[k][2] \in Nat BY <2>3, RangeBounds
  <2>5. i \in Nat /\ t[k][1] <= i BY <2>2, <2>4 DEF Positions
  <2> QED BY <1>1, <1>2, <2>4, <2>5
<1>6. \A i \in cursor .. N : i \in Nat /\ r[2] <= i BY <1>2, <1>4
<1>7. Queued = Positions(r) \cup Covered(t) \cup (cursor .. N) BY <1>1 DEF Queued
<1> QED BY <1>1, <1>3, <1>5, <1>6, <1>7 DEF r, t

\* The next range is taken off what is not taken yet.
LEMMA Taken ==
    ASSUME DequeInv(work, cursor), NEW size \in Nat, TakeRange(size)
    PROVE  DequeInv(work', cursor') /\ Queued' = Queued
<1> DEFINE e == RangeEnd(cursor, size)
           w == <<<<cursor, e>>>>
<1> USE TranslationAssumption
<1>1. work = <<>> /\ work' = w /\ cursor' = e /\ cursor \in Cue /\ N \in Nat /\ cursor \in Nat
  BY DEF TakeRange, DequeInv, Cue
<1>2. e \in cursor + 1 .. N + 1 BY <1>1, RangeEndType
<1> HIDE DEF e
<1>3. <<cursor, e>> \in CueRange BY <1>1, <1>2 DEF CueRange, Cue
<1>4. w \in Seq(CueRange) /\ Len(w) = 1 /\ w[1] = <<cursor, e>> BY <1>3
<1>5. w[1][1] = cursor /\ w[1][2] = e BY <1>4
<1> HIDE DEF w
<1>6. \A k \in 1 .. Len(w) : k = 1 BY <1>4
<1>7. DequeInv(w, e)
  <2>1. Deque(w) BY <1>1, <1>2, <1>4, <1>5, <1>6 DEF Deque
  <2>2. Apart(w) BY <1>6 DEF Apart
  <2>3. Between(w, 1, e)
    <3>1. e \in Nat /\ 1 <= cursor BY <1>1, <1>2 DEF Cue
    <3> QED BY <1>5, <1>6, <3>1 DEF Between
  <2>4. e \in 1 .. N + 1 BY <1>1, <1>2
  <2> QED BY <2>1, <2>2, <2>3, <2>4 DEF DequeInv
<1>8. Covered(w) = cursor .. e - 1
  <2>1. Positions(w[1]) = cursor .. e - 1 BY <1>5 DEF Positions
  <2>2. {Positions(w[k]) : k \in 1 .. Len(w)} = {Positions(w[1])} BY <1>4, <1>6
  <2> QED BY <2>1, <2>2 DEF Covered
<1>9. Covered(<<>>) = {} BY DEF Covered
<1>10. (cursor .. e - 1) \cup (e .. N) = cursor .. N BY <1>1, <1>2
<1> QED BY <1>1, <1>7, <1>8, <1>9, <1>10 DEF Queued

\* The head replaced: what is queued is what the replacement covers, and the rest.
LEMMA QueueReplaced ==
    ASSUME DequeInv(work, cursor), work # <<>>, cursor' = cursor,
           NEW s, Deque(s), Apart(s), Between(s, Head(work)[1], Head(work)[2]),
           work' = s \o Tail(work)
    PROVE  /\ DequeInv(work', cursor')
           /\ Queued' = Covered(s) \cup Covered(Tail(work)) \cup (cursor .. N)
<1>1. cursor \in Nat BY TranslationAssumption DEF DequeInv
<1>2. /\ Deque(s \o Tail(work)) /\ Apart(s \o Tail(work))
      /\ Covered(s \o Tail(work)) = Covered(s) \cup Covered(Tail(work))
      /\ Between(s \o Tail(work), 1, cursor)
  BY <1>1, Replaced DEF DequeInv
<1> QED BY <1>2 DEF DequeInv, Queued

\* The head dropped.
LEMMA QueueDropped ==
    ASSUME DequeInv(work, cursor), work # <<>>, cursor' = cursor, work' = Tail(work)
    PROVE  /\ DequeInv(work', cursor')
           /\ Queued' = Covered(Tail(work)) \cup (cursor .. N)
<1>1. Tail(work) = <<>> \o Tail(work)
  <2>1. Tail(work) \in Seq(CueRange) BY HeadTailProperties DEF DequeInv, Deque
  <2> QED BY <2>1, ConcatEmptySeq
<1>2. /\ Deque(<<>>) /\ Apart(<<>>) /\ Between(<<>>, Head(work)[1], Head(work)[2])
      /\ Covered(<<>>) = {}
  BY NothingOf
<1> QED BY <1>1, <1>2, QueueReplaced

-----------------------------------------------------------------------------
(***************************************************************************)
(* The invariant                                                           *)
(***************************************************************************)
Types ==
    /\ phase \in {"translating", "reviewing", "rendering", "rendered", "failed"}
    /\ text \in [Cue -> Text \cup {"none"}]
    /\ pending \subseteq Cue
    /\ attempt \in 0 .. MaxRetries /\ repairing \in BOOLEAN
    /\ log \in Seq(Cue)

Untranslated == {i \in Cue : text[i] = "none"}

Translated == phase = "translating" => Queued = Untranslated /\ log = <<>>

\* What is still to be reviewed holds all that must be corrected, and lies behind
\* all that was.
Reviewed ==
    phase = "reviewing" =>
        /\ pending \subseteq Queued
        /\ \A i \in Cue : text[i] # "none" /\ (Concern(i, text[i]) => i \in pending)
        /\ \A k \in 1 .. Len(log) : \A i \in Queued : log[k] < i

Clean == phase \in {"rendering", "rendered"} => \A i \in Cue : ~Concern(i, text[i])

IInv == Types /\ DequeInv(work, cursor) /\ Translated /\ Reviewed /\ Clean /\ LogInOrder

\* A request begins with no failure.
LEMMA FreshAttempt == 0 \in 0 .. MaxRetries
<1>1. MaxRetries \in Nat BY TranslationAssumption
<1> QED BY <1>1

\* The invariant holds at first.
LEMMA InitInv == Init => IInv
<1> USE TranslationAssumption
<1> SUFFICES ASSUME Init PROVE IInv OBVIOUS
<1>1. Types
  <2>1. text \in [Cue -> Text \cup {"none"}] /\ log \in Seq(Cue) BY DEF Init
  <2> QED BY <2>1, FreshAttempt DEF Init, Types
<1>2. DequeInv(work, cursor)
  <2>1. Deque(<<>>) /\ Apart(<<>>) /\ Between(<<>>, 1, 1)
    BY DEF Deque, Apart, Between
  <2> QED BY <2>1 DEF Init, DequeInv
<1>3. Queued = Cue
  <2>1. Covered(<<>>) = {} BY DEF Covered
  <2> QED BY <2>1 DEF Init, Queued, Cue
<1>4. Untranslated = Cue BY DEF Init, Untranslated
<1>5. Translated /\ Reviewed /\ Clean /\ LogInOrder
  BY <1>3, <1>4 DEF Init, Translated, Reviewed, Clean, LogInOrder
<1> QED BY <1>1, <1>2, <1>5 DEF IInv

\* A translation that fails leaves everything as it was.
LEMMA FailKept == ASSUME IInv, Fail PROVE IInv'
<1> USE TranslationAssumption
<1>1. /\ phase' = "failed" /\ cursor' = cursor /\ work' = work /\ text' = text
      /\ pending' = pending /\ log' = log /\ attempt' = 0 /\ repairing' = FALSE
  BY DEF Fail, Answered
<1>2. Types' BY <1>1, FreshAttempt DEF IInv, Types
<1>3. DequeInv(work, cursor)' /\ LogInOrder' BY <1>1 DEF IInv, LogInOrder
<1>4. Translated' /\ Reviewed' /\ Clean' BY <1>1 DEF Translated, Reviewed, Clean
<1> QED BY <1>2, <1>3, <1>4 DEF IInv

\* A step that leaves texts, phase, log and what is queued.
LEMMA QueueKept ==
    ASSUME IInv, DequeInv(work', cursor'), Queued' = Queued,
           UNCHANGED <<phase, text, pending, log>>,
           attempt' \in 0 .. MaxRetries, repairing' \in BOOLEAN
    PROVE  IInv'
<1>1. Types' BY DEF IInv, Types
<1>2. DequeInv(work, cursor)' /\ LogInOrder' BY DEF IInv, LogInOrder
<1>3. Translated' BY DEF IInv, Translated, Untranslated
<1>4. Reviewed' BY DEF IInv, Reviewed
<1>5. Clean' BY DEF IInv, Clean
<1> QED BY <1>1, <1>2, <1>3, <1>4, <1>5 DEF IInv

\* A range taken, a request tried again or made out anew, a range halved.
LEMMA WaitingKept ==
    ASSUME IInv,
           \/ NextBatch \/ NextReview \/ Retry \/ Reformat
           \/ work # <<>> /\ Several(Head(work)) /\ SplitReview
    PROVE  IInv'
<1> USE TranslationAssumption
<1>1. CASE NextBatch \/ NextReview
  <2>1. /\ TakeRange(BatchSize) \/ TakeRange(AlignmentBatchSize)
        /\ UNCHANGED <<phase, text, pending, log>> /\ attempt' = attempt
        /\ repairing' = repairing
    BY <1>1 DEF NextBatch, NextReview
  <2>2. DequeInv(work', cursor') /\ Queued' = Queued BY <2>1, Taken DEF IInv
  <2> QED BY <2>1, <2>2, QueueKept DEF IInv, Types
<1>2. CASE Retry
  <2>1. /\ attempt' \in 0 .. MaxRetries /\ repairing' = repairing /\ work' = work
        /\ cursor' = cursor /\ UNCHANGED <<phase, text, pending, log>>
    BY <1>2 DEF Retry, IInv, Types
  <2> QED BY <2>1, QueueKept DEF IInv, Types, Queued
<1>3. CASE Reformat
  <2>1. /\ attempt' \in 0 .. MaxRetries /\ repairing' \in BOOLEAN /\ work' = work
        /\ cursor' = cursor /\ UNCHANGED <<phase, text, pending, log>>
    BY <1>3 DEF Reformat
  <2> QED BY <2>1, QueueKept DEF IInv, Queued
<1>4. CASE work # <<>> /\ Several(Head(work)) /\ SplitReview
  <2>1. /\ work' = Halves(Head(work)) \o Tail(work) /\ cursor' = cursor
        /\ UNCHANGED <<phase, text, pending, log>> /\ attempt' = 0 /\ repairing' = FALSE
    BY <1>4 DEF SplitReview, Answered
  <2>2. DequeInv(work, cursor) BY DEF IInv
  <2>3. Head(work) \in CueRange BY <1>4, <2>2, HeadQueued
  <2>4. DequeInv(work', cursor')
        /\ Queued' = Positions(Head(work)) \cup Covered(Tail(work)) \cup (cursor .. N)
    BY <1>4, <2>1, <2>2, <2>3, HalvesOf, QueueReplaced
  <2>5. Queued' = Queued BY <1>4, <2>2, <2>4, HeadQueued
  <2>6. attempt' \in 0 .. MaxRetries /\ repairing' \in BOOLEAN BY <2>1, FreshAttempt
  <2> QED BY <2>1, <2>4, <2>5, <2>6, QueueKept
<1> QED BY <1>1, <1>2, <1>3, <1>4

\* What the model answers is texts for cues of the range it was asked for.
LEMMA ReplyType ==
    ASSUME NEW values \in Reply
    PROVE  /\ work # <<>> /\ DOMAIN values \subseteq Positions(Head(work))
           /\ \A i \in DOMAIN values : values[i] \in Text
<1>1. work # <<>> BY DEF Reply
<1>2. PICK S \in SUBSET Positions(Head(work)) : values \in [S -> Text] BY <1>1 DEF Reply
<1> QED BY <1>1, <1>2

\* An answer takes from what is queued exactly the cues it gives a text to.
LEMMA AnswerKept == ASSUME IInv, NEW values \in Reply, Answer(values) PROVE IInv'
<1> DEFINE D == DOMAIN values
           P == Positions(Head(work))
           new == [i \in Cue |-> IF i \in D THEN values[i] ELSE text[i]]
<1>1. /\ work # <<>> /\ D \subseteq P /\ \A i \in D : values[i] \in Text
      /\ phase = "translating"
  BY ReplyType DEF Answer, Translating
<1>2. CASE Fail BY <1>2, FailKept
<1>3. CASE ~Fail
  <2>1. /\ text' = new
        /\ work' = Singles(P \ D) \o Tail(work) /\ cursor' = cursor
        /\ phase' = phase /\ pending' = pending /\ log' = log
        /\ attempt' = 0 /\ repairing' = FALSE
    BY <1>3 DEF Answer, Answered
  <2>2. DequeInv(work, cursor) BY DEF IInv
  <2>3. Head(work) \in CueRange BY <1>1, <2>2, HeadQueued
  <2> HIDE DEF D, P
  <2>4. /\ DequeInv(work', cursor')
        /\ Queued' = (P \ D) \cup Covered(Tail(work)) \cup (cursor .. N)
    <3>1. /\ Deque(Singles(P \ D)) /\ Apart(Singles(P \ D))
          /\ Between(Singles(P \ D), Head(work)[1], Head(work)[2])
          /\ Covered(Singles(P \ D)) = P \ D
      BY <2>3, SinglesOf DEF P
    <3> QED BY <1>1, <2>1, <2>2, <3>1, QueueReplaced
  <2>5. /\ Queued = P \cup Covered(Tail(work)) \cup (cursor .. N) /\ P \subseteq Cue
        /\ \A i \in P : i \notin Covered(Tail(work)) \cup (cursor .. N)
    <3>1. /\ P \subseteq Cue /\ Queued = P \cup Covered(Tail(work)) \cup (cursor .. N)
          /\ \A i \in Covered(Tail(work)) \cup (cursor .. N) : i \in Nat /\ Head(work)[2] <= i
          /\ \A i \in P : i < Head(work)[2]
      BY <1>1, <2>2, HeadQueued DEF P
    <3>2. Head(work)[2] \in Nat BY <2>3, RangeBounds
    <3>3. \A i \in P : i \in Nat BY <3>1 DEF Cue
    <3> QED BY <3>1, <3>2, <3>3
  <2>6. Queued' = Queued \ D BY <1>1, <2>4, <2>5
  <2>7. text \in [Cue -> Text \cup {"none"}] BY DEF IInv, Types
  <2>8. new \in [Cue -> Text \cup {"none"}] BY <1>1, <2>7
  <2>9. Untranslated' = Untranslated \ D
    <3>1. \A i \in Cue : new[i] = "none" <=> i \notin D /\ text[i] = "none"
      BY <1>1 DEF Text
    <3> HIDE DEF new
    <3> QED BY <2>1, <3>1 DEF Untranslated
  <2> HIDE DEF new
  <2>10. Types' BY <2>1, <2>8, FreshAttempt DEF IInv, Types
  <2>11. Translated' BY <1>1, <2>1, <2>6, <2>9 DEF IInv, Translated
  <2>12. Reviewed' /\ Clean' BY <1>1, <2>1 DEF Reviewed, Clean
  <2>13. LogInOrder' BY <2>1 DEF IInv, LogInOrder
  <2> QED BY <2>4, <2>10, <2>11, <2>12, <2>13 DEF IInv
<1> QED BY <1>2, <1>3

\* The source kept for a single cue takes that cue from what is queued.
LEMMA KeepSourceKept == ASSUME IInv, KeepSource PROVE IInv'
<1> DEFINE c == Head(work)[1]
<1>1. /\ phase = "translating" /\ work # <<>> /\ ~Several(Head(work))
      /\ text' = [text EXCEPT ![c] = "english"] /\ pending' = pending \cup {c}
      /\ work' = Tail(work) /\ phase' = phase /\ cursor' = cursor /\ log' = log
      /\ attempt' = 0 /\ repairing' = FALSE
  BY DEF KeepSource, Translating, Answered
<1>2. DequeInv(work, cursor) BY DEF IInv
<1>3. /\ Head(work) \in CueRange /\ c < Head(work)[2] /\ Positions(Head(work)) \subseteq Cue
      /\ Queued = Positions(Head(work)) \cup Covered(Tail(work)) \cup (cursor .. N)
      /\ \A i \in Covered(Tail(work)) \cup (cursor .. N) : i \in Nat /\ Head(work)[2] <= i
  BY <1>1, <1>2, HeadQueued
<1>4. c \in Nat /\ Head(work)[2] \in Nat BY <1>3, RangeBounds
<1>5. Positions(Head(work)) = {c} BY <1>1, <1>3, <1>4 DEF Positions, Several
<1> HIDE DEF c
<1>6. /\ DequeInv(work', cursor')
      /\ Queued' = Covered(Tail(work)) \cup (cursor .. N)
  BY <1>1, <1>2, QueueDropped
<1>7. Queued' = Queued \ {c}
  <2>1. c \notin Covered(Tail(work)) \cup (cursor .. N) BY <1>3, <1>4
  <2> QED BY <1>3, <1>5, <1>6, <2>1
<1>8. text \in [Cue -> Text \cup {"none"}] /\ c \in Cue BY <1>3, <1>5 DEF IInv, Types
<1>9. Types' BY <1>1, <1>8, FreshAttempt DEF IInv, Types, Text
<1>10. Untranslated' = Untranslated \ {c} BY <1>1, <1>8 DEF Untranslated
<1>11. Translated' BY <1>1, <1>7, <1>10 DEF IInv, Translated
<1>12. Reviewed' /\ Clean' BY <1>1 DEF Reviewed, Clean
<1>13. LogInOrder' BY <1>1 DEF IInv, LogInOrder
<1> QED BY <1>6, <1>9, <1>11, <1>12, <1>13 DEF IInv

\* Every cue has a text when the review begins, and every cue is to be reviewed.
LEMMA QueueConcernsKept == ASSUME IInv, QueueConcerns PROVE IInv'
<1> USE TranslationAssumption
<1>1. /\ phase = "translating" /\ work = <<>> /\ cursor > N
      /\ pending' = pending \cup {i \in Cue : Concern(i, text[i])}
      /\ phase' = IF ReviewAll \/ pending' # {} THEN "reviewing" ELSE "rendering"
      /\ cursor' = 1 /\ work' = work /\ text' = text /\ log' = log
      /\ attempt' = attempt /\ repairing' = repairing
  BY DEF QueueConcerns
<1>2. N \in Nat /\ cursor \in Nat BY DEF IInv, DequeInv
<1>3. Covered(<<>>) = {} BY DEF Covered
<1>4. Queued = {}
  <2>1. cursor .. N = {} BY <1>1, <1>2
  <2> QED BY <1>1, <1>3, <2>1 DEF Queued
<1>5. Queued' = Cue BY <1>1, <1>3 DEF Queued, Cue
<1>6. Untranslated = {} /\ log = <<>> BY <1>1, <1>4 DEF IInv, Translated
<1>7. \A i \in Cue : text[i] # "none" BY <1>6 DEF Untranslated
<1>8. pending' \subseteq Cue BY <1>1 DEF IInv, Types
<1>9. phase' \in {"reviewing", "rendering"} BY <1>1
<1>10. Types' BY <1>1, <1>8, <1>9 DEF IInv, Types
<1>11. DequeInv(work', cursor')
  <2>1. Deque(<<>>) /\ Apart(<<>>) /\ Between(<<>>, 1, 1) BY DEF Deque, Apart, Between
  <2>2. 1 \in 1 .. N + 1 BY <1>2
  <2> QED BY <1>1, <2>1, <2>2 DEF DequeInv
<1>12. Translated' BY <1>9 DEF Translated
<1>13. Reviewed' BY <1>1, <1>5, <1>6, <1>7, <1>8 DEF Reviewed
<1>14. Clean' BY <1>1 DEF Clean
<1>15. LogInOrder' BY <1>1, <1>6 DEF LogInOrder
<1> QED BY <1>10, <1>11, <1>12, <1>13, <1>14, <1>15 DEF IInv

\* A single cue may be left as it is when it need not be corrected.
LEMMA ReviewErrorKept == ASSUME IInv, ReviewError PROVE IInv'
<1> DEFINE c == Head(work)[1]
<1>0. phase = "reviewing" /\ work # <<>> BY DEF ReviewError, Reviewing
<1>1. CASE Several(Head(work))
  <2>1. SplitReview BY <1>1 DEF ReviewError
  <2> QED BY <1>0, <1>1, <2>1, WaitingKept
<1>2. CASE Fail BY <1>2, FailKept
<1>3. CASE ~Several(Head(work)) /\ ~Fail
  <2>1. /\ c \notin pending /\ work' = Tail(work) /\ phase' = phase /\ cursor' = cursor
        /\ text' = text /\ pending' = pending /\ log' = log
        /\ attempt' = 0 /\ repairing' = FALSE
    BY <1>3 DEF ReviewError, Answered
  <2>2. DequeInv(work, cursor) BY DEF IInv
  <2>3. /\ Head(work) \in CueRange /\ c < Head(work)[2]
        /\ Queued = Positions(Head(work)) \cup Covered(Tail(work)) \cup (cursor .. N)
    BY <1>0, <2>2, HeadQueued
  <2>4. c \in Nat /\ Head(work)[2] \in Nat BY <2>3, RangeBounds
  <2>5. Positions(Head(work)) = {c} BY <1>3, <2>3, <2>4 DEF Positions, Several
  <2> HIDE DEF c
  <2>6. /\ DequeInv(work', cursor')
        /\ Queued' = Covered(Tail(work)) \cup (cursor .. N)
    BY <1>0, <2>1, <2>2, QueueDropped
  <2>7. Queued' \subseteq Queued /\ Queued \subseteq Queued' \cup {c} BY <2>3, <2>5, <2>6
  <2>8. Types' BY <2>1, FreshAttempt DEF IInv, Types
  <2>9. Reviewed' BY <1>0, <2>1, <2>7 DEF IInv, Reviewed
  <2>10. Translated' /\ Clean' BY <1>0, <2>1 DEF Translated, Clean
  <2>11. LogInOrder' BY <2>1 DEF IInv, LogInOrder
  <2> QED BY <2>6, <2>8, <2>9, <2>10, <2>11 DEF IInv
<1> QED BY <1>1, <1>2, <1>3

\* The log with the corrections of one answer behind it.
LEMMA LogAppended ==
    ASSUME log \in Seq(Cue), NEW D \in SUBSET Cue
    PROVE  LET new == log \o InOrder(D)
           IN  /\ new \in Seq(Cue)
               /\ Len(new) = Len(log) + Cardinality(D) /\ Len(log) \in Nat
               /\ Cardinality(D) \in Nat
               /\ \A k \in 1 .. Len(new) :
                    \/ k \in 1 .. Len(log) /\ new[k] = log[k]
                    \/ /\ k > Len(log) /\ k - Len(log) \in 1 .. Cardinality(D)
                       /\ new[k] = InOrder(D)[k - Len(log)] /\ new[k] \in D
               /\ \A i \in D : \E k \in Len(log) + 1 .. Len(new) : new[k] = i
<1> DEFINE q == InOrder(D)
           c == Cardinality(D)
           new == log \o q
<1>1. /\ c \in Nat /\ q \in [1 .. c -> D] /\ \A i \in D : \E k \in 1 .. c : q[k] = i
  BY InOrderLists
<1> HIDE DEF q, c
<1>2. q \in Seq(Cue) /\ Len(q) = c
  <2>1. \A k \in 1 .. c : q[k] \in Cue BY <1>1
  <2>2. q = [k \in 1 .. c |-> q[k]] BY <1>1
  <2> QED BY <1>1, <2>1, <2>2
<1>3. /\ new \in Seq(Cue) /\ Len(new) = Len(log) + c /\ Len(log) \in Nat
      /\ \A k \in 1 .. Len(log) + c : new[k] = IF k <= Len(log) THEN log[k] ELSE q[k - Len(log)]
  <2>1. /\ log \o q \in Seq(Cue) /\ Len(log \o q) = Len(log) + Len(q)
        /\ \A k \in 1 .. Len(log) + Len(q) :
             (log \o q)[k] = IF k <= Len(log) THEN log[k] ELSE q[k - Len(log)]
    BY <1>2, ConcatProperties, Zenon
  <2>2. Len(log) \in Nat OBVIOUS
  <2> QED BY <1>2, <2>1, <2>2, Zenon
<1> HIDE DEF new
<1>4. ASSUME NEW k \in 1 .. Len(new)
      PROVE  \/ k \in 1 .. Len(log) /\ new[k] = log[k]
             \/ /\ k > Len(log) /\ k - Len(log) \in 1 .. c
                /\ new[k] = q[k - Len(log)] /\ new[k] \in D
  <2>1. CASE k <= Len(log) BY <1>3, <2>1
  <2>2. CASE k > Len(log)
    <3>1. k - Len(log) \in 1 .. c /\ new[k] = q[k - Len(log)] BY <1>1, <1>3, <2>2
    <3> QED BY <1>1, <2>2, <3>1
  <2> QED BY <1>3, <2>1, <2>2
<1>5. ASSUME NEW i \in D PROVE \E k \in Len(log) + 1 .. Len(new) : new[k] = i
  <2>1. PICK j \in 1 .. c : q[j] = i BY <1>1
  <2>2. /\ Len(log) + j \in Len(log) + 1 .. Len(new) /\ Len(log) + j \in 1 .. Len(log) + c
        /\ ~(Len(log) + j <= Len(log)) /\ (Len(log) + j) - Len(log) = j
    BY <1>1, <1>3
  <2>3. new[Len(log) + j] = i BY <1>3, <2>1, <2>2
  <2> QED BY <2>2, <2>3
<1> QED BY <1>1, <1>3, <1>4, <1>5 DEF q, c, new

\* What a correction leaves to be corrected lies behind its range.
LEMMA ApplyKept ==
    ASSUME IInv, phase = "reviewing", NEW corrections \in Reply,
           (pending \cap Positions(Head(work))) \ DOMAIN corrections = {},
           \A i \in DOMAIN corrections : ~Concern(i, corrections[i]),
           ApplyCorrections(corrections)
    PROVE  IInv'
<1> DEFINE D == DOMAIN corrections
           P == Positions(Head(work))
           new == [i \in Cue |-> IF i \in D THEN corrections[i] ELSE text[i]]
<1>1. /\ work # <<>> /\ D \subseteq P /\ \A i \in D : corrections[i] \in Text
  BY ReplyType
<1>2. /\ text' = new /\ pending' = pending \ D /\ log' = log \o InOrder(D)
      /\ work' = Tail(work) /\ phase' = phase /\ cursor' = cursor
      /\ attempt' = 0 /\ repairing' = FALSE
  BY DEF ApplyCorrections, Answered
<1>3. DequeInv(work, cursor) BY DEF IInv
<1>4. /\ Head(work) \in CueRange /\ P \subseteq Cue
      /\ Queued = P \cup Covered(Tail(work)) \cup (cursor .. N)
      /\ \A i \in Covered(Tail(work)) \cup (cursor .. N) : i \in Nat /\ Head(work)[2] <= i
      /\ \A i \in P : i < Head(work)[2]
  BY <1>1, <1>3, HeadQueued
<1>5. DequeInv(work', cursor') /\ Queued' = Covered(Tail(work)) \cup (cursor .. N)
  BY <1>1, <1>2, <1>3, QueueDropped
<1>6. Head(work)[2] \in Nat /\ \A i \in P : i \in Nat
  <2>1. Head(work)[2] \in Nat BY <1>4, RangeBounds
  <2> QED BY <2>1, <1>4 DEF Cue
<1>7. \A i \in D : \A j \in Queued' : i < j BY <1>1, <1>4, <1>5, <1>6
<1>8. text \in [Cue -> Text \cup {"none"}] /\ log \in Seq(Cue) /\ pending \subseteq Cue
  BY DEF IInv, Types
<1>9. new \in [Cue -> Text \cup {"none"}] BY <1>1, <1>8
<1>10. /\ \A k \in 1 .. Len(log) : \A i \in Queued : log[k] < i
       /\ pending \subseteq Queued
       /\ \A i \in Cue : text[i] # "none" /\ (Concern(i, text[i]) => i \in pending)
  BY DEF IInv, Reviewed
<1>11. /\ log' \in Seq(Cue) /\ Len(log) \in Nat /\ Cardinality(D) \in Nat
       /\ Len(log') = Len(log) + Cardinality(D)
       /\ \A k \in 1 .. Len(log') :
            \/ k \in 1 .. Len(log) /\ log'[k] = log[k]
            \/ /\ k > Len(log) /\ k - Len(log) \in 1 .. Cardinality(D)
               /\ log'[k] = InOrder(D)[k - Len(log)] /\ log'[k] \in D
  <2>1. D \in SUBSET Cue BY <1>1, <1>4
  <2> HIDE DEF D
  <2> QED BY <1>2, <1>8, <2>1, LogAppended
<1>12. Increasing(InOrder(D)) /\ DOMAIN InOrder(D) = 1 .. Cardinality(D)
  <2>1. D \in SUBSET Cue BY <1>1, <1>4
  <2> HIDE DEF D
  <2>2. InOrder(D) \in [1 .. Cardinality(D) -> D] /\ Increasing(InOrder(D))
    BY <2>1, InOrderLists
  <2> QED BY <2>2
<1> HIDE DEF D, P
<1>13. Types' BY <1>2, <1>8, <1>9, <1>11, FreshAttempt DEF IInv, Types
<1>14. LogInOrder'
  <2>1. SUFFICES ASSUME NEW j \in 1 .. Len(log'), NEW k \in 1 .. Len(log'), j < k
                 PROVE  log'[j] < log'[k]
    BY DEF LogInOrder
  <2>2. CASE k \in 1 .. Len(log)
    <3>1. j \in 1 .. Len(log) /\ log'[j] = log[j] /\ log'[k] = log[k]
      BY <1>11, <2>1, <2>2
    <3> QED BY <2>1, <2>2, <3>1 DEF IInv, LogInOrder
  <2>3. CASE j \in 1 .. Len(log) /\ k > Len(log)
    <3>1. log'[j] = log[j] /\ log'[k] \in D BY <1>11, <2>1, <2>3
    <3>2. log'[k] \in Queued BY <1>1, <1>4, <3>1
    <3> QED BY <1>10, <2>3, <3>1, <3>2
  <2>4. CASE j > Len(log) /\ k > Len(log)
    <3>1. /\ j - Len(log) \in 1 .. Cardinality(D) /\ k - Len(log) \in 1 .. Cardinality(D)
          /\ log'[j] = InOrder(D)[j - Len(log)] /\ log'[k] = InOrder(D)[k - Len(log)]
      BY <1>11, <2>1, <2>4
    <3>2. j - Len(log) < k - Len(log) BY <1>11, <2>1
    <3> QED BY <1>12, <3>1, <3>2 DEF Increasing
  <2> QED BY <1>11, <2>1, <2>2, <2>3, <2>4
<1>15. Reviewed'
  <2>1. pending' \subseteq Queued' BY <1>2, <1>4, <1>5, <1>10 DEF D, P
  <2>2. \A i \in Cue : text'[i] # "none" /\ (Concern(i, text'[i]) => i \in pending')
    <3>1. SUFFICES ASSUME NEW i \in Cue
                   PROVE  text'[i] # "none" /\ (Concern(i, text'[i]) => i \in pending')
      OBVIOUS
    <3>2. CASE i \in D
      <4>1. text'[i] = corrections[i] /\ corrections[i] \in Text BY <1>1, <1>2, <3>2
      <4>2. ~Concern(i, corrections[i]) BY <3>2 DEF D
      <4> QED BY <4>1, <4>2 DEF Text
    <3>3. CASE i \notin D
      <4>1. text'[i] = text[i] BY <1>2, <3>3
      <4> QED BY <1>2, <1>10, <3>3, <4>1
    <3> QED BY <3>2, <3>3
  <2>3. \A k \in 1 .. Len(log') : \A i \in Queued' : log'[k] < i
    <3>1. SUFFICES ASSUME NEW k \in 1 .. Len(log'), NEW i \in Queued' PROVE log'[k] < i
      OBVIOUS
    <3>2. CASE k \in 1 .. Len(log) /\ log'[k] = log[k] BY <1>4, <1>5, <1>10, <3>2
    <3>3. CASE log'[k] \in D BY <1>7, <3>3
    <3> QED BY <1>11, <3>1, <3>2, <3>3
  <2> QED BY <2>1, <2>2, <2>3 DEF Reviewed
<1>16. Translated' /\ Clean' BY <1>2 DEF Translated, Clean
<1> QED BY <1>5, <1>13, <1>14, <1>15, <1>16 DEF IInv

\* The outcomes of an answer to a review.
LEMMA CorrectKept == ASSUME IInv, NEW corrections \in Reply, Correct(corrections) PROVE IInv'
<1> DEFINE missing == (pending \cap Positions(Head(work))) \ DOMAIN corrections
<1>0. phase = "reviewing" /\ work # <<>> BY DEF Correct, Reviewing
<1>1. CASE Fail BY <1>1, FailKept
<1>2. CASE Several(Head(work)) /\ SplitReview BY <1>0, <1>2, WaitingKept
<1>3. CASE /\ missing = {} /\ \A i \in DOMAIN corrections : ~Concern(i, corrections[i])
           /\ ApplyCorrections(corrections)
  BY <1>0, <1>3, ApplyKept
<1> QED BY <1>1, <1>2, <1>3 DEF Correct

\* The end of the review, and of the translation.
LEMMA EndKept == ASSUME IInv, FinishReview \/ Render PROVE IInv'
<1> USE TranslationAssumption
<1>1. /\ UNCHANGED <<cursor, work, text, pending, attempt, repairing, log>>
      /\ phase' \in {"rendering", "rendered", "failed"}
  BY DEF FinishReview, Render
<1>2. Types' /\ DequeInv(work, cursor)' /\ LogInOrder'
  BY <1>1 DEF IInv, Types, LogInOrder
<1>3. Translated' /\ Reviewed' BY <1>1 DEF Translated, Reviewed
<1>4. Clean'
  <2>1. CASE FinishReview
    <3>1. phase = "reviewing" /\ (phase' = "rendering" => pending = {}) BY <2>1 DEF FinishReview
    <3>2. phase' # "rendered" BY <2>1 DEF FinishReview
    <3> QED BY <1>1, <3>1, <3>2 DEF IInv, Reviewed, Clean
  <2>2. CASE Render BY <1>1, <2>2 DEF IInv, Clean, Render
  <2> QED BY <2>1, <2>2
<1> QED BY <1>1, <1>2, <1>3, <1>4 DEF IInv

\* Every step keeps the invariant.
LEMMA NextInv == IInv /\ [Next]_vars => IInv'
<1> SUFFICES ASSUME IInv, [Next]_vars PROVE IInv' OBVIOUS
<1>1. CASE SplitBatch
  <2>1. work # <<>> /\ Several(Head(work)) /\ SplitReview
    BY <1>1 DEF SplitBatch, Translating, SplitReview
  <2> QED BY <2>1, WaitingKept
<1>2. CASE NextBatch \/ NextReview \/ Retry \/ Reformat BY <1>2, WaitingKept
<1>3. CASE UNCHANGED vars
  <2>1. IInv' = IInv
    BY <1>3 DEF vars, IInv, Types, Translated, Untranslated, Reviewed, Clean, LogInOrder, Queued
  <2> QED BY <2>1
<1>4. CASE \E values \in Reply : Answer(values) \/ Correct(values)
  BY <1>4, AnswerKept, CorrectKept
<1> QED BY <1>1, <1>2, <1>3, <1>4, KeepSourceKept, QueueConcernsKept, ReviewErrorKept, EndKept
        DEF Next, Finished

\* It is an invariant.
LEMMA Invariant == Spec => []IInv
<1> QED BY InitInv, NextInv, PTL DEF Spec

-----------------------------------------------------------------------------
(***************************************************************************)
(* The theorems                                                            *)
(***************************************************************************)
\* No range of the deque is empty or beyond the cues (translate_range_adaptive).
THEOREM TypeCorrect == Spec => []TypeOK
<1>1. IInv => TypeOK
  BY DEF IInv, Types, DequeInv, Deque, CueRange, TypeOK
<1> QED BY Invariant, <1>1, PTL

\* The deque holds exactly the cues without a translation, each once and in
\* order (translate_range_adaptive).
THEOREM EachCueIsTranslatedOnce == Spec => []EachCueOnce
<1>1. IInv => EachCueOnce
  BY DEF IInv, DequeInv, Between, Translated, Untranslated, EachCueOnce
<1> QED BY Invariant, <1>1, PTL

\* Nothing is rendered that had to be corrected and was not (audit_alignment).
THEOREM NothingQuestionableIsRendered == Spec => []NothingQuestionableRendered
<1>1. IInv => NothingQuestionableRendered
  BY DEF IInv, Reviewed, Clean, NothingQuestionableRendered
<1> QED BY Invariant, <1>1, PTL

\* The quality log is in the order of the film (audit_alignment).
THEOREM LogIsInOrder == Spec => []LogInOrder
<1>1. IInv => LogInOrder BY DEF IInv
<1> QED BY Invariant, <1>1, PTL

\* A cue that must be corrected is settled by a logged correction that raises no
\* concern, and by nothing else (validate_corrections, audit_alignment).
THEOREM SettledOnlyByCorrection == Spec => SettledByCorrection
<1> DEFINE Settled == \A i \in pending \ pending' :
                         /\ \E k \in Len(log) + 1 .. Len(log') : log'[k] = i
                         /\ ~Concern(i, text'[i])
<1>1. IInv /\ [Next]_vars => [Settled]_vars
  <2> SUFFICES ASSUME IInv, Next PROVE Settled BY DEF vars
  <2>1. ASSUME NEW c \in Reply, ApplyCorrections(c),
               \A i \in DOMAIN c : ~Concern(i, c[i])
        PROVE  Settled
    <3> DEFINE D == DOMAIN c
    <3>1. /\ text' = [i \in Cue |-> IF i \in D THEN c[i] ELSE text[i]]
          /\ pending' = pending \ D /\ log' = log \o InOrder(D)
      BY <2>1 DEF ApplyCorrections
    <3>2. pending \ pending' \subseteq D /\ pending \subseteq Cue /\ log \in Seq(Cue)
      BY <3>1 DEF IInv, Types
    <3>3. D \in SUBSET Cue BY ReplyType, HeadQueued DEF IInv
    <3>4. \A i \in D : text'[i] = c[i] BY <3>1, <3>3
    <3>5. \A i \in D : ~Concern(i, c[i]) BY <2>1
    <3> HIDE DEF D
    <3>6. \A i \in D : \E k \in Len(log) + 1 .. Len(log') : log'[k] = i
      BY <3>1, <3>2, <3>3, LogAppended
    <3> QED BY <3>2, <3>4, <3>5, <3>6
  <2>2. CASE pending \subseteq pending' BY <2>2
  <2>3. CASE \E c \in Reply : Correct(c)
    <3>1. PICK c \in Reply : Correct(c) BY <2>3
    <3>2. \/ pending' = pending
          \/ ApplyCorrections(c) /\ \A i \in DOMAIN c : ~Concern(i, c[i])
      BY <3>1 DEF Correct, SplitReview, Fail
    <3> QED BY <2>1, <2>2, <3>2
  <2>4. CASE \E c \in Reply : Answer(c)
    <3>1. pending' = pending BY <2>4 DEF Answer, Fail
    <3> QED BY <2>2, <3>1
  <2>5. CASE \/ NextBatch \/ Retry \/ SplitBatch \/ KeepSource \/ QueueConcerns
             \/ NextReview \/ Reformat \/ ReviewError \/ FinishReview \/ Render \/ Finished
    <3>1. pending \subseteq pending'
      BY <2>5 DEF NextBatch, Retry, SplitBatch, KeepSource, QueueConcerns, NextReview,
         Reformat, ReviewError, SplitReview, Fail, FinishReview, Render, Finished, vars
    <3> QED BY <2>2, <3>1
  <2> QED BY <2>3, <2>4, <2>5 DEF Next
<1> QED BY Invariant, <1>1, PTL DEF Spec, SettledByCorrection
=============================================================================
