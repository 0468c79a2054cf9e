------------------------- MODULE DxeDispatch_proofs -------------------------
(***************************************************************************)
(* Proofs about DxeDispatch and AprioriTools, for every set of GUIDs,      *)
(* every volume layout, every image the tools read and every size of the   *)
(* two arrays: the SEQ line is a prefix reading, the unhit checksum holds, *)
(* the slots and the records tell what happened, KEY names the first       *)
(* failure (DispatchInv); and what the analysis tools predict of a run and *)
(* read from its letters is what the device does (PredictionsHold).        *)
(***************************************************************************)
EXTENDS AprioriTools, SequenceTheorems, FiniteSetTheorems, WellFoundedInduction, TLAPS

Letters == {"NUL", "?", "s", "S", "L"}
WhyLetters == {"NUL", "s", "R", "N", "X", "D", "E", "P", "U", "O"}

(* The slots in use are slots. *)
LEMMA SeqLenType ==
    ASSUME mP2Apriori \in Nat
    PROVE  SeqLen \in Nat /\ SeqLen <= AprioriMax /\ SeqLen <= mP2Apriori
                /\ 1..SeqLen \subseteq Slot
  BY GuidAssumption DEF SeqLen, Slot

(* A status always has one of the class letters. *)
LEMMA WhyLetterType ==
    ASSUME NEW status PROVE WhyLetter(status) \in WhyLetters \ {"NUL"}
  BY DEF WhyLetter, WhyLetters

(* Marking a slot keeps the three letter arrays well typed. *)
LEMMA MarkSeqType ==
    ASSUME TypeOK, NEW g, NEW ch \in Letters, NEW status \in ErrorStatus \cup {Success},
           MarkSeq(g, ch, status)
    PROVE  /\ mP2AprioriRes' \in [Slot -> Letters]
           /\ mP2ApriWhy' \in [Slot -> WhyLetters]
           /\ mP2ApriSt' \in [Slot -> ErrorStatus \cup {Success}]
  <1>1. mP2AprioriRes' \in [Slot -> Letters]
    BY DEF TypeOK, MarkSeq, Letters
  <1>2. mP2ApriWhy' \in [Slot -> WhyLetters]
    BY WhyLetterType DEF TypeOK, MarkSeq, WhyLetters
  <1>3. mP2ApriSt' \in [Slot -> ErrorStatus \cup {Success}]
    BY DEF TypeOK, MarkSeq
  <1>4. QED BY <1>1, <1>2, <1>3

(* A queue that is not empty loses its head and keeps the rest in order. *)
LEMMA TailFacts ==
    ASSUME NEW S, NEW q \in Seq(S), q # <<>>
    PROVE  /\ Tail(q) \in Seq(S)
           /\ Len(q) \in Nat \ {0} /\ Len(Tail(q)) = Len(q) - 1
           /\ Head(q) = q[1] /\ Head(q) \in S
           /\ \A k \in 1..Len(Tail(q)) : Tail(q)[k] = q[k + 1]
  OBVIOUS

(* A sequence is the function of its elements. *)
LEMMA SeqAsFunction ==
    ASSUME NEW S, NEW q \in Seq(S)
    PROVE  q = [i \in 1..Len(q) |-> q[i]]
  OBVIOUS

(* Appending keeps every element and adds one at the end. *)
LEMMA AppendFacts ==
    ASSUME NEW S, NEW q \in Seq(S), NEW e \in S
    PROVE  /\ Append(q, e) \in Seq(S)
           /\ Len(Append(q, e)) = Len(q) + 1 /\ Len(q) \in Nat
           /\ \A k \in 1..Len(q) : Append(q, e)[k] = q[k]
           /\ Append(q, e)[Len(q) + 1] = e
  OBVIOUS

-----------------------------------------------------------------------------
(* Induction, from the order of the naturals: every set of them has a      *)
(* least element, so one that grows by one from 0 is all of them.          *)
LEMMA LeastOfNaturals ==
    ASSUME NEW S \in SUBSET Nat, S # {}
    PROVE  \E n \in S : \A m \in S : n <= m
<1> DEFINE less == OpToRel(<, Nat)
<1>1. IsWellFoundedOn(less, Nat)
  BY NatLessThanWellFounded
<1>2. \A i, j \in Nat : i < j => <<i, j>> \in less
  BY DEF OpToRel
<1> HIDE DEF less
<1>3. PICK n \in S : \A m \in S : ~ (<<m, n>> \in less)
  BY <1>1, WFMin
<1>4. \A m \in S : m \in Nat /\ n \in Nat /\ ~(m < n)
  BY <1>2, <1>3
<1> QED BY <1>3, <1>4

(* What holds of 0 and of every next number holds of all. *)
LEMMA Induction ==
    ASSUME NEW S \in SUBSET Nat, 0 \in S, \A n \in S : n + 1 \in S
    PROVE  S = Nat
<1> SUFFICES ASSUME Nat \ S # {} PROVE FALSE
  OBVIOUS
<1>1. Nat \ S \in SUBSET Nat
  OBVIOUS
<1>2. PICK n \in Nat \ S : \A m \in Nat \ S : n <= m
  BY <1>1, LeastOfNaturals
<1>3. n # 0 /\ n - 1 \in Nat /\ (n - 1) + 1 = n
  BY <1>2
<1>4. n - 1 \in S
  BY <1>2, <1>3
<1> QED BY <1>2, <1>3, <1>4

(* The greatest number of a set of indices, as the folds use it. *)
LEMMA MaxOf ==
    ASSUME NEW n \in Nat, NEW s \in SUBSET (1..n), s # {}
    PROVE  Max(s) \in s /\ \A x \in s : x <= Max(s)
<1> DEFINE above == {u \in Nat : \A x \in s : x <= u}
<1>1. n \in above
  OBVIOUS
<1>2. PICK u \in above : \A v \in above : u <= v
  BY <1>1, LeastOfNaturals
<1>3. u \in s
  <2> SUFFICES ASSUME u \notin s PROVE FALSE
    OBVIOUS
  <2>1. \A x \in s : x \in Nat /\ x >= 1 /\ x <= u /\ x # u
    BY <1>2
  <2>2. u - 1 \in Nat
    <3>1. PICK x \in s : TRUE
      OBVIOUS
    <3>2. x \in Nat /\ x >= 1 /\ x <= u /\ u \in Nat
      BY <1>2, <2>1
    <3> QED BY <3>2
  <2>3. \A x \in s : x <= u - 1
    BY <1>2, <2>1
  <2>4. u - 1 \in above
    BY <2>2, <2>3
  <2> QED BY <1>2, <2>4
<1>4. \A x \in s : u >= x
  BY <1>2
<1>5. Max(s) \in s /\ \A x \in s : Max(s) >= x
  BY <1>3, <1>4 DEF Max
<1> QED BY <1>5

(* ... and of the first k. *)
LEMMA MaxOfRun ==
    ASSUME NEW k \in Nat \ {0}
    PROVE  Max(1..k) = k /\ (1..k) \ {Max(1..k)} = 1..(k - 1)
<1>1. 1..k \in SUBSET (1..k) /\ k \in 1..k
  OBVIOUS
<1>2. Max(1..k) \in 1..k /\ k <= Max(1..k)
  BY <1>1, MaxOf
<1>3. Max(1..k) = k
  BY <1>2
<1> QED BY <1>3

(* The recursion of a fold has a solution: G[k] is what its k-th step does. *)
Solves(f, A, base, G, m) ==
    /\ f \in [SUBSET (1..m) -> A]
    /\ \A s \in SUBSET (1..m) : f[s] = IF s = {} THEN base ELSE G[Max(s)][f[s \ {Max(s)}]]

(* A fold over nothing has a graph. *)
LEMMA FoldStarts ==
    ASSUME NEW A, NEW base \in A, NEW G
    PROVE  \E f : Solves(f, A, base, G, 0)
<1> DEFINE f == [s \in SUBSET (1..0) |-> base]
<1>1. \A s \in SUBSET (1..0) : s = {}
  OBVIOUS
<1>2. f \in [SUBSET (1..0) -> A] /\ \A s \in SUBSET (1..0) : f[s] = base
  OBVIOUS
<1> HIDE DEF f
<1>3. Solves(f, A, base, G, 0)
  BY <1>1, <1>2 DEF Solves
<1> QED BY <1>3

(* ... over one element more too. *)
LEMMA FoldGoesOn ==
    ASSUME NEW A, NEW n \in Nat, NEW m \in 0..(n - 1), NEW base \in A, NEW G \in [1..n -> [A -> A]],
           NEW g, Solves(g, A, base, G, m)
    PROVE  \E f : Solves(f, A, base, G, m + 1)
<1> DEFINE f == [s \in SUBSET (1..(m + 1)) |-> IF m + 1 \in s THEN G[m + 1][g[s \ {m + 1}]] ELSE g[s]]
<1>1. m \in Nat /\ m + 1 \in Nat /\ m + 1 \in 1..n
  OBVIOUS
<1>2. \A s \in SUBSET (1..(m + 1)) : s \ {m + 1} \in SUBSET (1..m) /\ (m + 1 \notin s => s \in SUBSET (1..m))
  BY <1>1
<1>3. /\ g \in [SUBSET (1..m) -> A]
      /\ \A s \in SUBSET (1..m) : g[s] = IF s = {} THEN base ELSE G[Max(s)][g[s \ {Max(s)}]]
  BY DEF Solves
<1>4. \A s \in SUBSET (1..(m + 1)) : f[s] = IF m + 1 \in s THEN G[m + 1][g[s \ {m + 1}]] ELSE g[s]
  OBVIOUS
<1>5. f \in [SUBSET (1..(m + 1)) -> A]
  <2>1. \A s \in SUBSET (1..(m + 1)) : (IF m + 1 \in s THEN G[m + 1][g[s \ {m + 1}]] ELSE g[s]) \in A
    BY <1>1, <1>2, <1>3
  <2> QED BY <2>1
<1> HIDE DEF f
<1>6. ASSUME NEW s \in SUBSET (1..(m + 1)), s # {} PROVE f[s] = G[Max(s)][f[s \ {Max(s)}]]
  <2>1. Max(s) \in s /\ \A x \in s : x <= Max(s)
    BY <1>1, <1>6, MaxOf
  <2>2. CASE m + 1 \in s
    <3>1. Max(s) = m + 1
      <4>1. Max(s) \in 1..(m + 1) /\ m + 1 <= Max(s)
        BY <2>1, <2>2
      <4> QED BY <1>1, <4>1
    <3>2. m + 1 \notin s \ {m + 1} /\ s \ {m + 1} \in SUBSET (1..(m + 1))
      OBVIOUS
    <3>3. f[s \ {m + 1}] = g[s \ {m + 1}]
      BY <1>4, <3>2
    <3> QED BY <1>4, <2>2, <3>1, <3>3
  <2>3. CASE m + 1 \notin s
    <3>1. s \in SUBSET (1..m) /\ s \ {Max(s)} \in SUBSET (1..(m + 1)) /\ m + 1 \notin s \ {Max(s)}
      BY <1>2, <2>3
    <3>2. f[s] = g[s] /\ f[s \ {Max(s)}] = g[s \ {Max(s)}]
      BY <1>4, <2>3, <3>1
    <3>3. g[s] = G[Max(s)][g[s \ {Max(s)}]]
      BY <1>3, <1>6, <3>1
    <3> QED BY <3>2, <3>3
  <2> QED BY <2>2, <2>3
<1>7. f[{}] = base
  <2>1. {} \in SUBSET (1..(m + 1)) /\ m + 1 \notin {} /\ {} \in SUBSET (1..m)
    OBVIOUS
  <2>2. g[{}] = base
    BY <1>3, <2>1
  <2> QED BY <1>4, <2>1, <2>2
<1>8. Solves(f, A, base, G, m + 1)
  BY <1>5, <1>6, <1>7 DEF Solves
<1> QED BY <1>8

(* ... and over any list, as long as its steps stay within A. *)
LEMMA FoldGraph ==
    ASSUME NEW A, NEW n \in Nat, NEW base \in A, NEW G \in [1..n -> [A -> A]]
    PROVE  \E f : Solves(f, A, base, G, n)
<1> DEFINE S == {m \in Nat : m <= n => \E f : Solves(f, A, base, G, m)}
<1>1. 0 \in S
  BY FoldStarts
<1>2. ASSUME NEW m \in S PROVE m + 1 \in S
  <2>1. m \in Nat /\ m + 1 \in Nat
    OBVIOUS
  <2>2. CASE m + 1 <= n
    <3>1. m \in 0..(n - 1) /\ \E g : Solves(g, A, base, G, m)
      BY <2>1, <2>2
    <3>2. \E f : Solves(f, A, base, G, m + 1)
      BY <3>1, FoldGoesOn
    <3> QED BY <2>1, <3>2
  <2> QED BY <2>1, <2>2
<1>3. S \in SUBSET Nat
  OBVIOUS
<1> HIDE DEF S
<1>4. S = Nat
  BY <1>1, <1>2, <1>3, Induction
<1>5. n \in S
  BY <1>4
<1> QED BY <1>5 DEF S

(* How many of T there are among the first k: the place of k, if it is one. *)
Rank(T, k) == Cardinality(T \cap 1..k)

(* The next number adds one if it is of T. *)
LEMMA RankStep ==
    ASSUME NEW T, NEW k \in Nat
    PROVE  /\ Rank(T, k) \in Nat /\ IsFiniteSet(T \cap 1..k) /\ Rank(T, 0) = 0
           /\ Rank(T, k + 1) = IF k + 1 \in T THEN Rank(T, k) + 1 ELSE Rank(T, k)
<1> DEFINE was == T \cap 1..k
           now == T \cap 1..(k + 1)
<1>1. IsFiniteSet(was) /\ Cardinality(was) \in Nat
  <2>1. IsFiniteSet(1..k)
    BY FS_Interval
  <2>2. was \in SUBSET (1..k)
    OBVIOUS
  <2> HIDE DEF was
  <2> QED BY <2>1, <2>2, FS_Subset, FS_CardinalityType
<1>2. Rank(T, 0) = 0
  <2>1. T \cap 1..0 = {}
    OBVIOUS
  <2> QED BY <2>1, FS_EmptySet DEF Rank
<1>3. CASE k + 1 \in T
  <2>1. now = was \cup {k + 1} /\ k + 1 \notin was
    BY <1>3
  <2> HIDE DEF now, was
  <2>2. Cardinality(now) = Cardinality(was) + 1
    BY <1>1, <2>1, FS_AddElement
  <2> QED BY <1>1, <1>2, <1>3, <2>2 DEF Rank, now, was
<1>4. CASE k + 1 \notin T
  <2>1. now = was
    BY <1>4
  <2> QED BY <1>1, <1>2, <1>4, <2>1 DEF Rank
<1> QED BY <1>3, <1>4

(* Places never go back, and one of T has a place behind all before it. *)
LEMMA RankGrows ==
    ASSUME NEW T, NEW k \in Nat, NEW m \in Nat, k <= m
    PROVE  Rank(T, k) <= Rank(T, m) /\ ((k < m /\ m \in T) => Rank(T, k) < Rank(T, m))
<1> DEFINE I == {d \in Nat : Rank(T, k) <= Rank(T, k + d)}
<1>1. 0 \in I
  <2>1. Rank(T, k) \in Nat
    BY RankStep
  <2>2. k + 0 = k
    OBVIOUS
  <2> QED BY <2>1, <2>2
<1>2. ASSUME NEW d \in I PROVE d + 1 \in I
  <2>1. d \in Nat /\ k + d \in Nat /\ k + (d + 1) = (k + d) + 1
    OBVIOUS
  <2>2. Rank(T, k) <= Rank(T, k + d)
    OBVIOUS
  <2>3. Rank(T, k) \in Nat /\ Rank(T, k + d) \in Nat /\ Rank(T, (k + d) + 1) \in {Rank(T, k + d), Rank(T, k + d) + 1}
    BY <2>1, RankStep
  <2> QED BY <2>1, <2>2, <2>3
<1>3. I \in SUBSET Nat
  OBVIOUS
<1>4. I = Nat
  <2> HIDE DEF I
  <2> QED BY <1>1, <1>2, <1>3, Induction
<1>5. \A d \in Nat : Rank(T, k) <= Rank(T, k + d)
  BY <1>4
<1>6. Rank(T, k) <= Rank(T, m)
  <2>1. m - k \in Nat /\ k + (m - k) = m
    OBVIOUS
  <2>2. Rank(T, k) <= Rank(T, k + (m - k))
    BY <1>5, <2>1
  <2> QED BY <2>1, <2>2
<1>7. ASSUME k < m, m \in T PROVE Rank(T, k) < Rank(T, m)
  <2>1. PICK p \in Nat : p + 1 = m /\ p - k \in Nat /\ k + (p - k) = p
    <3>1. m - 1 \in Nat /\ (m - 1) + 1 = m /\ (m - 1) - k \in Nat /\ k + ((m - 1) - k) = m - 1
      BY <1>7
    <3> QED BY <3>1
  <2>2. Rank(T, k) <= Rank(T, k + (p - k))
    BY <1>5, <2>1
  <2>3. Rank(T, k) \in Nat /\ Rank(T, p) \in Nat
    BY RankStep
  <2>4. p + 1 \in T => Rank(T, p + 1) = Rank(T, p) + 1
    BY RankStep
  <2>5. Rank(T, m) = Rank(T, p) + 1
    BY <1>7, <2>1, <2>4
  <2>6. Rank(T, k) <= Rank(T, p)
    BY <2>1, <2>2
  <2> QED BY <2>3, <2>5, <2>6
<1> QED BY <1>6, <1>7

(* ... so a place says which one of T it is, *)
LEMMA RankTells ==
    ASSUME NEW T, NEW k \in T, NEW m \in T, k \in Nat, m \in Nat, Rank(T, k) = Rank(T, m)
    PROVE  k = m
<1>1. Rank(T, k) \in Nat /\ Rank(T, m) \in Nat
  BY RankStep
<1>2. k < m => Rank(T, k) < Rank(T, m)
  BY RankGrows
<1>3. m < k => Rank(T, m) < Rank(T, k)
  BY RankGrows
<1> QED BY <1>1, <1>2, <1>3

(* and every place is that of one of T. *)
LEMMA RankOnto ==
    ASSUME NEW T, NEW k \in Nat, NEW i \in 1..Rank(T, k)
    PROVE  \E u \in T \cap 1..k : Rank(T, u) = i
<1> DEFINE I == {d \in Nat : \A j \in 1..Rank(T, d) : \E u \in T \cap 1..d : Rank(T, u) = j}
<1>1. 0 \in I
  <2>1. Rank(T, 0) = 0
    BY RankStep
  <2>2. 1..Rank(T, 0) = {}
    BY <2>1
  <2> QED BY <2>2
<1>2. ASSUME NEW d \in I PROVE d + 1 \in I
  <2>1. d \in Nat /\ d + 1 \in Nat
    OBVIOUS
  <2>2. \A j \in 1..Rank(T, d) : \E u \in T \cap 1..d : Rank(T, u) = j
    OBVIOUS
  <2>3. ASSUME NEW j \in 1..Rank(T, d + 1) PROVE \E u \in T \cap 1..(d + 1) : Rank(T, u) = j
    <3>1. /\ Rank(T, d) \in Nat
          /\ Rank(T, d + 1) = IF d + 1 \in T THEN Rank(T, d) + 1 ELSE Rank(T, d)
      BY <2>1, RankStep
    <3>2. CASE j \in 1..Rank(T, d)
      <4>1. PICK u \in T \cap 1..d : Rank(T, u) = j
        BY <2>2, <3>2
      <4>2. u \in T \cap 1..(d + 1)
        BY <2>1
      <4> QED BY <4>1, <4>2
    <3>3. CASE j \notin 1..Rank(T, d)
      <4>1. d + 1 \in T /\ j = Rank(T, d + 1)
        BY <3>1, <3>3
      <4>2. d + 1 \in T \cap 1..(d + 1)
        BY <2>1, <4>1
      <4> QED BY <4>1, <4>2
    <3> QED BY <3>2, <3>3
  <2> QED BY <2>1, <2>3
<1>3. I \in SUBSET Nat
  OBVIOUS
<1>4. I = Nat
  <2> HIDE DEF I
  <2> QED BY <1>1, <1>2, <1>3, Induction
<1> QED BY <1>4

(* Numbers that start at 0 are counted as their successors are. *)
LEMMA ShiftCount ==
    ASSUME NEW T, NEW k \in Nat, NEW B, B = {b \in 0..(k - 1) : b + 1 \in T}
    PROVE  IsFiniteSet(B) /\ Cardinality(B) = Rank(T, k)
<1> DEFINE A == T \cap 1..k
           f == [a \in A |-> a - 1]
<1>1. IsFiniteSet(A) /\ Cardinality(A) = Rank(T, k)
  BY RankStep DEF Rank
<1>2. f \in [A -> B] /\ \A a \in A : f[a] = a - 1
  OBVIOUS
<1>3. \A b \in B : b + 1 \in A /\ (b + 1) - 1 = b
  OBVIOUS
<1>4. \A a \in A : a \in Nat
  OBVIOUS
<1> HIDE DEF A, f
<1>5. f \in Injection(A, B)
  <2>1. \A a, c \in A : f[a] = f[c] => a = c
    BY <1>2, <1>4
  <2> QED BY <1>2, <2>1, Zenon DEF Injection, IsInjective
<1>6. f \in Surjection(A, B)
  <2>1. \A b \in B : \E a \in A : f[a] = b
    BY <1>2, <1>3
  <2> QED BY <1>2, <2>1, Zenon DEF Surjection
<1>7. ExistsBijection(A, B)
  BY <1>5, <1>6, Zenon DEF ExistsBijection, Bijection
<1> QED BY <1>1, <1>7, FS_Bijection

(* The places up to k are no more than k. *)
LEMMA RankWithin ==
    ASSUME NEW T, NEW k \in Nat
    PROVE  Rank(T, k) \in 0..k
<1>1. T \cap 1..k \in SUBSET (1..k) /\ IsFiniteSet(1..k) /\ Cardinality(1..k) = k
  <2>1. IsFiniteSet(1..k) /\ Cardinality(1..k) = IF 1 > k THEN 0 ELSE k - 1 + 1
    BY FS_Interval
  <2> QED BY <2>1
<1>2. Cardinality(T \cap 1..k) <= Cardinality(1..k)
  BY <1>1, FS_Subset
<1>3. Rank(T, k) <= k
  BY <1>1, <1>2 DEF Rank
<1>4. Rank(T, k) \in Nat
  BY RankStep
<1> QED BY <1>3, <1>4

(* The fold that picks: H[k] is added when k is one of T. *)
PickRule(f, n, T, H) ==
    f = [u \in SUBSET (1..n) |->
            IF u = {} THEN <<>>
            ELSE IF Max(u) \in T THEN Append(f[u \ {Max(u)}], H[Max(u)]) ELSE f[u \ {Max(u)}]]

(* What it has picked of the first k: each one at its place. *)
Picked(v, S, T, H, k) ==
    /\ v \in Seq(S) /\ Len(v) = Rank(T, k)
    /\ \A u \in T \cap 1..k : v[Rank(T, u)] = H[u]

(* The graph of such a fold is there, *)
LEMMA PickGraph ==
    ASSUME NEW S, NEW n \in Nat, NEW T, NEW H \in [1..n -> S]
    PROVE  \E f : PickRule(f, n, T, H)
<1> DEFINE G == [k \in 1..n |-> [a \in Seq(S) |-> IF k \in T THEN Append(a, H[k]) ELSE a]]
<1>1. G \in [1..n -> [Seq(S) -> Seq(S)]]
  <2>1. \A k \in 1..n, a \in Seq(S) : (IF k \in T THEN Append(a, H[k]) ELSE a) \in Seq(S)
    BY AppendProperties
  <2> QED BY <2>1
<1>2. <<>> \in Seq(S)
  BY EmptySeq
<1>3. \A k \in 1..n, a \in Seq(S) : G[k][a] = IF k \in T THEN Append(a, H[k]) ELSE a
  OBVIOUS
<1> HIDE DEF G
<1>4a. \E f : Solves(f, Seq(S), <<>>, G, n)
  BY <1>1, <1>2, FoldGraph
<1>4. PICK f \in [SUBSET (1..n) -> Seq(S)] : \A s \in SUBSET (1..n) :
          f[s] = IF s = {} THEN <<>> ELSE G[Max(s)][f[s \ {Max(s)}]]
  BY <1>4a DEF Solves
<1>5. ASSUME NEW u \in SUBSET (1..n)
      PROVE  f[u] = IF u = {} THEN <<>>
                    ELSE IF Max(u) \in T THEN Append(f[u \ {Max(u)}], H[Max(u)]) ELSE f[u \ {Max(u)}]
  <2>1. CASE u = {}
    BY <1>4, <2>1
  <2>2. CASE u # {}
    <3>1. Max(u) \in 1..n /\ u \ {Max(u)} \in SUBSET (1..n)
      BY <2>2, MaxOf
    <3>2. f[u \ {Max(u)}] \in Seq(S)
      BY <3>1
    <3>3. f[u] = G[Max(u)][f[u \ {Max(u)}]]
      BY <1>4, <2>2
    <3> QED BY <1>3, <2>2, <3>1, <3>2, <3>3
  <2> QED BY <2>1, <2>2
<1>6. PickRule(f, n, T, H)
  BY <1>5 DEF PickRule
<1> QED BY <1>6

(* One element more is picked or passed over. *)
LEMMA PickGoesOn ==
    ASSUME NEW S, NEW n \in Nat, NEW T, NEW H \in [1..n -> S], NEW k \in 0..(n - 1),
           NEW v, Picked(v, S, T, H, k),
           NEW w, w = IF k + 1 \in T THEN Append(v, H[k + 1]) ELSE v
    PROVE  Picked(w, S, T, H, k + 1)
<1>1. k \in Nat /\ k + 1 \in 1..n /\ H[k + 1] \in S
  OBVIOUS
<1>2. v \in Seq(S) /\ Len(v) = Rank(T, k) /\ \A u \in T \cap 1..k : v[Rank(T, u)] = H[u]
  BY DEF Picked
<1>3. /\ Rank(T, k) \in Nat
      /\ Rank(T, k + 1) = IF k + 1 \in T THEN Rank(T, k) + 1 ELSE Rank(T, k)
  BY <1>1, RankStep
<1>4. CASE k + 1 \notin T
  <2>1. w = v /\ T \cap 1..(k + 1) = T \cap 1..k
    BY <1>1, <1>4
  <2> QED BY <1>2, <1>3, <1>4, <2>1 DEF Picked
<1>5. CASE k + 1 \in T
  <2>1. w = Append(v, H[k + 1])
    BY <1>5
  <2>2. /\ w \in Seq(S) /\ Len(w) = Len(v) + 1 /\ w[Len(v) + 1] = H[k + 1]
        /\ \A i \in 1..Len(v) : w[i] = v[i]
    BY <1>1, <1>2, <2>1, AppendProperties
  <2>3. ASSUME NEW u \in T \cap 1..(k + 1) PROVE w[Rank(T, u)] = H[u]
    <3>1. CASE u = k + 1
      BY <1>2, <1>3, <1>5, <2>2, <3>1
    <3>2. CASE u # k + 1
      <4>1. u \in T \cap 1..k /\ u \in Nat /\ u <= k
        BY <1>1, <3>2
      <4>2. Rank(T, u) \in Nat /\ Rank(T, u) <= Rank(T, k)
        BY <1>1, <4>1, RankStep, RankGrows
      <4>3. Rank(T, u) # 0
        <5>1. 0 \in Nat /\ u \in T /\ 0 < u
          BY <4>1
        <5>2. Rank(T, 0) = 0
          BY <5>1, RankStep
        <5>3. Rank(T, 0) < Rank(T, u)
          BY <4>1, <5>1, RankGrows
        <5> QED BY <5>2, <5>3
      <4>4. Rank(T, u) \in 1..Len(v)
        BY <1>2, <1>3, <4>2, <4>3
      <4> QED BY <1>2, <2>2, <4>1, <4>4
    <3> QED BY <3>1, <3>2
  <2>4. Len(w) = Rank(T, k + 1)
    BY <1>2, <1>3, <1>5, <2>2
  <2> QED BY <2>2, <2>3, <2>4 DEF Picked
<1> QED BY <1>4, <1>5

(* ... so it picks the H[k] of T, each at its place. *)
LEMMA PickFacts ==
    ASSUME NEW S, NEW n \in Nat, NEW T, NEW H \in [1..n -> S], NEW it, PickRule(it, n, T, H)
    PROVE  Picked(it[1..n], S, T, H, n)
<1>1. \A u \in SUBSET (1..n) :
         it[u] = IF u = {} THEN <<>>
                 ELSE IF Max(u) \in T THEN Append(it[u \ {Max(u)}], H[Max(u)]) ELSE it[u \ {Max(u)}]
  BY DEF PickRule
<1> DEFINE I == {k \in Nat : k <= n => Picked(it[1..k], S, T, H, k)}
<1>2. 0 \in I
  <2>1. 1..0 = {} /\ {} \in SUBSET (1..n)
    OBVIOUS
  <2>2. it[1..0] = <<>>
    BY <1>1, <2>1
  <2>3. <<>> \in Seq(S) /\ Len(<<>>) = 0 /\ Rank(T, 0) = 0 /\ T \cap 1..0 = {}
    BY <2>1, EmptySeq, RankStep
  <2>4. Picked(it[1..0], S, T, H, 0)
    BY <2>2, <2>3 DEF Picked
  <2> QED BY <2>4
<1>3. ASSUME NEW k \in I PROVE k + 1 \in I
  <2>1. k \in Nat /\ k + 1 \in Nat
    OBVIOUS
  <2>2. ASSUME k + 1 <= n PROVE Picked(it[1..(k + 1)], S, T, H, k + 1)
    <3>1. k \in 0..(n - 1) /\ Picked(it[1..k], S, T, H, k)
      BY <2>1, <2>2
    <3>2. 1..(k + 1) \in SUBSET (1..n) /\ 1..(k + 1) # {}
      <4>1. k + 1 \in 1..(k + 1)
        BY <2>1
      <4>2. 1..(k + 1) \in SUBSET (1..n)
        BY <2>1, <2>2
      <4> QED BY <4>1, <4>2
    <3>3. Max(1..(k + 1)) = k + 1 /\ (1..(k + 1)) \ {Max(1..(k + 1))} = 1..k
      <4>1. k + 1 \in Nat \ {0} /\ (k + 1) - 1 = k
        BY <2>1
      <4> QED BY <4>1, MaxOfRun
    <3>4. it[1..(k + 1)] = IF k + 1 \in T THEN Append(it[1..k], H[k + 1]) ELSE it[1..k]
      BY <1>1, <3>2, <3>3
    <3> QED BY <3>1, <3>4, PickGoesOn
  <2> QED BY <2>1, <2>2
<1>4. I \in SUBSET Nat
  OBVIOUS
<1> HIDE DEF I
<1>5. I = Nat
  BY <1>2, <1>3, <1>4, Induction
<1>6. n \in I
  BY <1>5
<1> QED BY <1>6 DEF I

(* Every element was picked from somewhere. *)
LEMMA PickedFrom ==
    ASSUME NEW v, NEW S, NEW T, NEW H, NEW n \in Nat, Picked(v, S, T, H, n), NEW i \in 1..Len(v)
    PROVE  \E u \in T \cap 1..n : Rank(T, u) = i /\ v[i] = H[u]
<1>1. i \in 1..Rank(T, n)
  BY DEF Picked
<1>2. PICK u \in T \cap 1..n : Rank(T, u) = i
  BY <1>1, RankOnto
<1> QED BY <1>2 DEF Picked

-----------------------------------------------------------------------------
(* The inductive invariant holds when the core has just been entered. *)
LEMMA InitInv == Init => DispatchInv
  <1> SUFFICES ASSUME Init PROVE DispatchInv OBVIOUS
  <1> USE GuidAssumption DEF Init
  <1>0. WellFormed(volumes) BY VolumeAssumption
  <1>1. TypeOK BY <1>0 DEF TypeOK, WellFormed, Slot, None, AttemptType
  <1>2. VolumeInv BY <1>0 DEF VolumeInv, AprioriShape
  <1>3. ScanInv BY DEF ScanInv
  <1>4. QueueInv BY DEF QueueInv
  <1>5. SeqLen = 0 BY DEF SeqLen
  <1>6. SlotInv BY <1>5 DEF SlotInv, PendingAt
  <1>7. AttemptInv BY DEF AttemptInv
  <1>8. SeqIsAPrefix /\ SlotsTellTheAttempts
    BY <1>5 DEF SeqIsAPrefix, SlotsTellTheAttempts
  <1>9. OrderInv BY <1>5 DEF OrderInv
  <1>10. RecordInv
    <2>1. Len(attempts) = 0 /\ Len(mP2Diag) = 0 OBVIOUS
    <2>2. Failures = {} BY <2>1 DEF Failures
    <2>3. Cardinality(Failures) = 0 BY <2>2, FS_EmptySet
    <2>4. QED BY <2>1, <2>2, <2>3 DEF RecordInv
  <1>11. QED BY <1>1, <1>2, <1>3, <1>4, <1>6, <1>7, <1>8, <1>9, <1>10 DEF DispatchInv

-----------------------------------------------------------------------------
(* What a notification adds: drivers of the next volume, all of them new. *)
LEMMA NotifyFacts ==
    ASSUME DispatchInv, FwVolNotify
    PROVE  /\ \E seen \in SUBSET (volumes[1].files \ {DxeCore}) :
                  /\ discovered' = discovered \cup seen
                  /\ dependent' = dependent \cup seen
                  /\ mP2Discovered' = mP2Discovered + Cardinality(seen)
                  /\ walked' = seen
                  /\ seen \cap discovered = {}
                  /\ seen \subseteq Driver
                  /\ Cardinality(seen) \in Nat
           /\ volumes' \in Seq(Volume)
           /\ Len(volumes) \in Nat \ {0} /\ Len(volumes') = Len(volumes) - 1
           /\ \A k \in 1..Len(volumes') : volumes'[k] = volumes[k + 1]
           /\ Head(volumes) = volumes[1] /\ volumes[1] \in Volume
  <1>1. volumes \in Seq(Volume) /\ volumes # <<>> /\ volumes' = Tail(volumes)
    BY DEF DispatchInv, TypeOK, FwVolNotify
  <1>2. /\ volumes' \in Seq(Volume)
        /\ Len(volumes) \in Nat \ {0} /\ Len(volumes') = Len(volumes) - 1
        /\ \A k \in 1..Len(volumes') : volumes'[k] = volumes[k + 1]
        /\ Head(volumes) = volumes[1] /\ volumes[1] \in Volume
    BY <1>1, TailFacts
  <1>3. PICK seen \in SUBSET (volumes[1].files \ {DxeCore}) :
                  /\ discovered' = discovered \cup seen
                  /\ dependent' = dependent \cup seen
                  /\ mP2Discovered' = mP2Discovered + Cardinality(seen)
                  /\ walked' = seen
    BY <1>2 DEF FwVolNotify
  <1>4. seen \subseteq Driver
    BY <1>2, <1>3 DEF Volume, Driver
  <1>5. seen \cap discovered = {}
    BY <1>2, <1>3 DEF DispatchInv, VolumeInv
  <1>6. Cardinality(seen) \in Nat
    <2>1. seen \subseteq Guid BY <1>4 DEF Driver
    <2>2. IsFiniteSet(seen) BY <2>1, GuidAssumption, FS_Subset
    <2>3. QED BY <2>2, FS_CardinalityType
  <1>7. QED BY <1>2, <1>3, <1>4, <1>5, <1>6

(* The drivers CoreDispatcher schedules are drivers that were waiting. *)
LEMMA ReadyFacts ==
    ASSUME DispatchInv, ScheduleReady
    PROVE  /\ mScheduledQueue' \in Seq(dependent)
           /\ \A k, m \in 1..Len(mScheduledQueue') :
                 mScheduledQueue'[k] = mScheduledQueue'[m] => k = m
           /\ dependent' = {d \in dependent :
                 \A k \in 1..Len(mScheduledQueue') : mScheduledQueue'[k] # d}
  <1>1. dependent \subseteq Guid BY DEF DispatchInv, TypeOK, Driver
  <1>2. Cardinality(dependent) \in Nat
    BY <1>1, GuidAssumption, FS_Subset, FS_CardinalityType
  <1>3a. PICK n \in 1..Cardinality(dependent) :
            \E order \in [1..n -> dependent] :
              /\ \A i, j \in 1..n : i # j => order[i] # order[j]
              /\ mScheduledQueue' = order
              /\ dependent' = dependent \ {order[i] : i \in 1..n}
    BY DEF ScheduleReady
  <1>3. PICK order \in [1..n -> dependent] :
            /\ \A i, j \in 1..n : i # j => order[i] # order[j]
            /\ mScheduledQueue' = order
            /\ dependent' = dependent \ {order[i] : i \in 1..n}
    BY <1>3a
  <1>4. n \in Nat BY <1>2
  <1>5. mScheduledQueue' \in Seq(dependent) /\ Len(mScheduledQueue') = n
    BY <1>3, <1>4
  <1>6. QED BY <1>3, <1>4, <1>5

(* Type correctness is preserved by every step. *)
LEMMA TypeStep == DispatchInv /\ [Next]_vars => TypeOK'
  <1> SUFFICES ASSUME DispatchInv, [Next]_vars PROVE TypeOK' OBVIOUS
  <1>0. TypeOK BY DEF DispatchInv
  <1>1. CASE FwVolNotify
    <2>1. PICK seen \in SUBSET (volumes[1].files \ {DxeCore}) :
                  /\ discovered' = discovered \cup seen
                  /\ dependent' = dependent \cup seen
                  /\ mP2Discovered' = mP2Discovered + Cardinality(seen)
                  /\ walked' = seen
                  /\ seen \subseteq Driver
                  /\ Cardinality(seen) \in Nat
      BY <1>1, NotifyFacts
    <2>2. volumes' \in Seq(Volume) /\ Head(volumes).apriori \in Seq(Guid)
      BY <1>1, NotifyFacts DEF Volume
    <2>3. /\ AprioriFile' \in Seq(Guid) /\ scanIdx' \in 0..(Len(AprioriFile') + 1)
          /\ mP2ApriEntries' \in Nat /\ mP2AprioriCount' \in Nat
      <3>1. CASE Head(volumes).apriori = <<>>
        BY <1>0, <1>1, <3>1 DEF FwVolNotify, TypeOK
      <3>2. CASE Head(volumes).apriori # <<>>
        <4>1. Len(Head(volumes).apriori) \in Nat BY <2>2
        <4>2. /\ AprioriFile' = Head(volumes).apriori /\ scanIdx' = 1
              /\ mP2ApriEntries' = Len(Head(volumes).apriori)
              /\ mP2AprioriCount' \in {Len(Head(volumes).apriori), mP2AprioriCount}
          BY <1>1, <3>2 DEF FwVolNotify
        <4>3. mP2AprioriCount \in Nat BY <1>0 DEF TypeOK
        <4>4. QED BY <2>2, <4>1, <4>2, <4>3
      <3>3. QED BY <3>1, <3>2
    <2>4. /\ discovered' \subseteq Driver /\ dependent' \subseteq discovered'
          /\ walked' \subseteq discovered' /\ mP2Discovered' \in Nat
          /\ untrusted \subseteq discovered' /\ initialized \subseteq discovered'
      BY <1>0, <2>1 DEF TypeOK
    <2>5. QED
      BY <1>0, <1>1, <2>2, <2>3, <2>4
      DEF FwVolNotify, TypeOK, slotVars, runVars
  <1>2. CASE PromoteHit
    <2>1. AprioriFile[scanIdx] \in Driver /\ AprioriFile[scanIdx] \in discovered
      BY <1>0, <1>2 DEF PromoteHit, TypeOK
    <2>2. /\ mP2AprioriGuid' \in [Slot -> Driver \cup {NoGuid}]
          /\ mP2AprioriRes' \in [Slot -> Letters]
      BY <1>0, <1>2, <2>1 DEF PromoteHit, TypeOK, Letters
    <2>3. mScheduledQueue' \in Seq(Driver)
      BY <1>0, <1>2, <2>1, AppendFacts DEF PromoteHit, Scheduled, TypeOK
    <2>4. scanIdx' \in 0..(Len(AprioriFile') + 1)
      BY <1>0, <1>2 DEF PromoteHit, TypeOK, Scanning
    <2>5. scanIdx - 1 \in Nat
      BY <1>0, <1>2 DEF PromoteHit, TypeOK, Scanning
    <2>6. /\ mP2ApriMatchFirst' \in Nat \cup {None} /\ mP2ApriMatchLast' \in Nat
          /\ mP2Apriori' \in Nat
      BY <1>0, <1>2, <2>5 DEF PromoteHit, TypeOK
    <2>7. QED
      BY <1>0, <1>2, <2>2, <2>3, <2>4, <2>6
      DEF PromoteHit, TypeOK, Letters, runVars
  <1>3. CASE PromoteMiss
    <2>1. scanIdx - 1 \in Nat /\ scanIdx' \in 0..(Len(AprioriFile') + 1)
      BY <1>0, <1>3 DEF PromoteMiss, TypeOK, Scanning
    <2>2. mP2ApriUnhit' \in Nat /\ mP2ApriMiss' \in Nat \cup {None}
      BY <1>0, <1>3, <2>1 DEF PromoteMiss, TypeOK
    <2>3. QED
      BY <1>0, <1>3, <2>1, <2>2
      DEF PromoteMiss, TypeOK, listVars, slotVars, runVars
  <1>4. CASE PromoteEnd
    BY <1>0, <1>4
    DEF PromoteEnd, TypeOK, listVars, slotVars, runVars, apriVars
  <1>5. CASE Dispatch
    BY <1>0, <1>5
    DEF Dispatch, TypeOK, listVars, slotVars, runVars, apriVars, scanVars
  <1>6. CASE BeginLoad
    <2>1. cur' \in Driver
      BY <1>0, <1>6, TailFacts DEF BeginLoad, TypeOK
    <2>2. QED
      BY <1>0, <1>6, <2>1
      DEF BeginLoad, TypeOK, listVars, slotVars, runVars, apriVars, scanVars
  <1>7. CASE BeginStart
    <2>1. mScheduledQueue' \in Seq(Driver) /\ cur \in discovered
      BY <1>0, <1>7, TailFacts DEF BeginStart, TypeOK, DispatchInv, QueueInv
    <2>2. QED
      BY <1>0, <1>7, <2>1
      DEF BeginStart, TypeOK, slotVars, runVars, apriVars, scanVars
  <1>8. CASE StartHangs
    BY <1>0, <1>8
    DEF StartHangs, TypeOK, listVars, slotVars, runVars, apriVars, scanVars
  <1>9. CASE StartSucceeds
    <2>1. cur \in Driver
      BY <1>0, <1>9 DEF StartSucceeds, DispatchInv, QueueInv, TypeOK
    <2>2. Entry(cur, "s", Success) \in AttemptType
      BY <2>1 DEF Entry, AttemptType
    <2>3. attempts' \in Seq(AttemptType)
      BY <1>0, <1>9, <2>2, AppendFacts DEF StartSucceeds, TypeOK
    <2>4. /\ mP2AprioriRes' \in [Slot -> Letters]
          /\ mP2ApriWhy' \in [Slot -> WhyLetters]
          /\ mP2ApriSt' \in [Slot -> ErrorStatus \cup {Success}]
      BY <1>0, <1>9, MarkSeqType DEF StartSucceeds, Letters
    <2>5. QED
      BY <1>0, <1>9, <2>1, <2>3, <2>4
      DEF StartSucceeds, Tick, TypeOK, Letters, WhyLetters, listVars, apriVars, scanVars
  <1>10. ASSUME NEW status \in ErrorStatus, LoadFails(status) PROVE TypeOK'
    <2>1. cur \in Driver /\ cur \in discovered
      BY <1>0, <1>10 DEF LoadFails, DispatchInv, QueueInv, TypeOK
    <2>2. Entry(cur, "L", status) \in AttemptType
      BY <1>10, <2>1 DEF Entry, AttemptType
    <2>3. attempts' \in Seq(AttemptType)
      BY <1>0, <1>10, <2>2, AppendFacts DEF LoadFails, TypeOK
    <2>4. mP2Diag' \in Seq(AttemptType) /\ Len(mP2Diag') <= DiagMax
      BY <1>0, <1>10, <2>2, AppendFacts, GuidAssumption DEF LoadFails, Record, TypeOK
    <2>5. /\ mP2AprioriRes' \in [Slot -> Letters]
          /\ mP2ApriWhy' \in [Slot -> WhyLetters]
          /\ mP2ApriSt' \in [Slot -> ErrorStatus \cup {Success}]
      BY <1>0, <1>10, MarkSeqType DEF LoadFails, Record, Letters
    <2>6. mScheduledQueue' \in Seq(Driver)
      BY <1>0, <1>10, TailFacts DEF LoadFails, TypeOK, DispatchInv, QueueInv
    <2>7. QED
      BY <1>0, <1>10, <2>1, <2>3, <2>4, <2>5, <2>6
      DEF LoadFails, Tick, TypeOK, Letters, WhyLetters, apriVars, scanVars
  <1>11. ASSUME NEW status \in ErrorStatus, StartFails(status) PROVE TypeOK'
    <2>1. cur \in Driver
      BY <1>0, <1>11 DEF StartFails, DispatchInv, QueueInv, TypeOK
    <2>2. Entry(cur, "S", status) \in AttemptType
      BY <1>11, <2>1 DEF Entry, AttemptType
    <2>3. attempts' \in Seq(AttemptType)
      BY <1>0, <1>11, <2>2, AppendFacts DEF StartFails, TypeOK
    <2>4. mP2Diag' \in Seq(AttemptType) /\ Len(mP2Diag') <= DiagMax
      BY <1>0, <1>11, <2>2, AppendFacts, GuidAssumption DEF StartFails, Record, TypeOK
    <2>5. /\ mP2AprioriRes' \in [Slot -> Letters]
          /\ mP2ApriWhy' \in [Slot -> WhyLetters]
          /\ mP2ApriSt' \in [Slot -> ErrorStatus \cup {Success}]
      BY <1>0, <1>11, MarkSeqType DEF StartFails, Record, Letters
    <2>6. QED
      BY <1>0, <1>11, <2>1, <2>3, <2>4, <2>5
      DEF StartFails, Tick, TypeOK, Letters, WhyLetters, listVars, apriVars, scanVars
  <1>12. CASE ScheduleReady
    <2>1. dependent' \subseteq discovered
      BY <1>0, <1>12, ReadyFacts DEF TypeOK
    <2>2. mScheduledQueue' \in Seq(Driver)
      BY <1>0, <1>12, ReadyFacts DEF TypeOK
    <2>3. QED
      BY <1>0, <1>12, <2>1, <2>2
      DEF ScheduleReady, TypeOK, slotVars, runVars, apriVars, scanVars
  <1>13. CASE Finish
    BY <1>0, <1>13
    DEF Finish, TypeOK, listVars, slotVars, runVars, apriVars, scanVars
  <1>14. CASE UNCHANGED vars
    BY <1>0, <1>14
    DEF vars, TypeOK, listVars, slotVars, runVars, apriVars, scanVars
  <1>15. QED
    BY <1>1, <1>2, <1>3, <1>4, <1>5, <1>6, <1>7, <1>8, <1>9, <1>10, <1>11,
       <1>12, <1>13, <1>14 DEF Next, Step, Halted

-----------------------------------------------------------------------------
(* The volumes still to come stay disjoint from those already walked. *)
LEMMA VolumeStep == DispatchInv /\ [Next]_vars => VolumeInv'
  <1> SUFFICES ASSUME DispatchInv, [Next]_vars PROVE VolumeInv' OBVIOUS
  <1>0. VolumeInv BY DEF DispatchInv
  <1>1. CASE FwVolNotify
    <2>1. /\ volumes' \in Seq(Volume)
          /\ Len(volumes) \in Nat \ {0} /\ Len(volumes') = Len(volumes) - 1
          /\ \A k \in 1..Len(volumes') : volumes'[k] = volumes[k + 1]
          /\ Head(volumes) = volumes[1] /\ volumes[1] \in Volume
      BY <1>1, NotifyFacts
    <2>2. PICK seen \in SUBSET (volumes[1].files \ {DxeCore}) :
            discovered' = discovered \cup seen
      BY <1>1, NotifyFacts
    <2>3. \A k \in 1..Len(volumes') : k + 1 \in 1..Len(volumes) /\ k + 1 # 1
      BY <2>1
    <2>4. WellFormed(volumes')
      <3>0. WellFormed(volumes) BY <1>0 DEF VolumeInv
      <3>1. ASSUME NEW k \in 1..Len(volumes'), NEW m \in 1..Len(volumes')
            PROVE  /\ k # m => (volumes'[k].files \cap volumes'[m].files) \ {DxeCore} = {}
                   /\ volumes'[k].apriori # <<>> /\ volumes'[m].apriori # <<>> => k = m
        <4>1. k + 1 \in 1..Len(volumes) /\ m + 1 \in 1..Len(volumes)
          BY <2>3
        <4>2. volumes'[k] = volumes[k + 1] /\ volumes'[m] = volumes[m + 1]
          BY <2>1
        <4>3. k # m => k + 1 # m + 1 OBVIOUS
        <4>4. /\ k # m => (volumes[k + 1].files \cap volumes[m + 1].files) \ {DxeCore} = {}
              /\ volumes[k + 1].apriori # <<>> /\ volumes[m + 1].apriori # <<>> => k + 1 = m + 1
          BY <3>0, <4>1, <4>3 DEF WellFormed
        <4>5. QED BY <4>2, <4>3, <4>4
      <3>2. \A k \in 1..Len(volumes') : AprioriShape(volumes'[k].apriori)
        BY <2>1, <2>3, <3>0 DEF WellFormed
      <3>3. QED BY <2>1, <3>1, <3>2 DEF WellFormed
    <2>5. \A k \in 1..Len(volumes') : (volumes'[k].files \ {DxeCore}) \cap discovered' = {}
      <3> TAKE k \in 1..Len(volumes')
      <3>1. (volumes[k + 1].files \ {DxeCore}) \cap discovered = {}
        BY <1>0, <2>3 DEF VolumeInv
      <3>2. (volumes[k + 1].files \cap volumes[1].files) \ {DxeCore} = {}
        BY <1>0, <2>1, <2>3 DEF VolumeInv, WellFormed
      <3>3. QED BY <2>1, <2>2, <3>1, <3>2
    <2>6. \A k \in 1..Len(volumes') : AprioriFile' # <<>> => volumes'[k].apriori = <<>>
      BY <1>0, <1>1, <2>1, <2>3 DEF VolumeInv, WellFormed, FwVolNotify
    <2>7. AprioriShape(AprioriFile')
      BY <1>0, <1>1, <2>1 DEF VolumeInv, WellFormed, FwVolNotify
    <2>8. QED BY <2>4, <2>5, <2>6, <2>7 DEF VolumeInv
  <1>2. CASE UNCHANGED <<volumes, discovered, AprioriFile>>
    BY <1>0, <1>2 DEF VolumeInv
  <1>3. QED
    BY <1>1, <1>2
    DEF Next, Step, Halted, vars, listVars, scanVars, PromoteHit, PromoteMiss, PromoteEnd,
        Dispatch, BeginLoad, BeginStart, StartSucceeds, StartHangs, LoadFails, StartFails,
        ScheduleReady, Finish

(* The promotion loop classifies one entry a turn, as a hit or as unhit. *)
LEMMA ScanStep == DispatchInv /\ [Next]_vars => ScanInv'
  <1> SUFFICES ASSUME DispatchInv, [Next]_vars PROVE ScanInv' OBVIOUS
  <1>0. TypeOK /\ ScanInv /\ VolumeInv BY DEF DispatchInv
  <1>a. Len(AprioriFile) \in Nat /\ mP2Apriori \in Nat /\ mP2ApriUnhit \in Nat
        /\ scanIdx \in Nat
    BY <1>0 DEF TypeOK
  <1>1. CASE FwVolNotify
    <2>0. PICK seen \in SUBSET (volumes[1].files \ {DxeCore}) :
            dependent' = dependent \cup seen /\ walked' = seen
      BY <1>1, NotifyFacts
    <2>1. CASE Head(volumes).apriori = <<>>
      BY <1>0, <1>a, <1>1, <2>0, <2>1 DEF FwVolNotify, ScanInv
    <2>2. CASE Head(volumes).apriori # <<>>
      <3>1. Len(volumes) \in Nat \ {0} /\ Head(volumes) = volumes[1]
        BY <1>1, NotifyFacts
      <3>2. AprioriFile = <<>>
        BY <1>0, <2>2, <3>1 DEF VolumeInv
      <3>3. mP2Apriori = 0 /\ mP2ApriUnhit = 0
        BY <1>0, <1>a, <1>1, <3>2 DEF ScanInv, FwVolNotify
      <3>4. QED
        BY <1>a, <1>1, <2>0, <2>2, <3>3 DEF FwVolNotify, ScanInv
    <2>3. QED BY <2>1, <2>2
  <1>2. CASE PromoteHit
    <2>1. \A k \in 1..Len(AprioriFile) : k >= scanIdx + 1 => AprioriFile[k] # AprioriFile[scanIdx]
      BY <1>0, <1>a, <1>2 DEF VolumeInv, AprioriShape, PromoteHit, Scanning
    <2>2. QED
      BY <1>0, <1>a, <1>2, <2>1 DEF PromoteHit, Scanning, ScanInv
  <1>3. CASE PromoteMiss
    BY <1>0, <1>a, <1>3 DEF PromoteMiss, Scanning, ScanInv, listVars
  <1>4. CASE PromoteEnd
    BY <1>0, <1>a, <1>4 DEF PromoteEnd, ScanInv, apriVars
  <1>5. CASE Dispatch
    BY <1>0, <1>5 DEF Dispatch, ScanInv, scanVars, listVars, apriVars
  <1>6. ASSUME scanIdx = 0, UNCHANGED <<scanVars, apriVars, mP2Apriori>>
        PROVE  ScanInv'
    BY <1>0, <1>a, <1>6 DEF ScanInv, scanVars, apriVars
  <1>7. CASE phase \notin {"init", "starting"}
    <2>1. scanIdx = 0 BY <1>0, <1>a, <1>7 DEF ScanInv
    <2>2. QED
      BY <1>1, <1>2, <1>3, <1>4, <1>5, <1>6, <1>7, <2>1
      DEF Next, Step, Halted, vars, BeginLoad, BeginStart, StartSucceeds,
          StartHangs, LoadFails, StartFails, ScheduleReady, Finish
  <1>8. CASE UNCHANGED vars
    BY <1>0, <1>8 DEF vars, ScanInv, scanVars, apriVars, listVars
  <1>9. QED
    BY <1>1, <1>2, <1>3, <1>4, <1>5, <1>6, <1>7, <1>8
    DEF Next, Step, Halted, StartSucceeds, StartHangs, StartFails, BeginLoad,
        BeginStart, LoadFails, ScheduleReady, Finish

(* The queue stays a sequence of distinct drivers that have left the wait. *)
LEMMA QueueStep == DispatchInv /\ [Next]_vars => QueueInv'
  <1> SUFFICES ASSUME DispatchInv, [Next]_vars PROVE QueueInv' OBVIOUS
  <1>0. TypeOK /\ QueueInv /\ ScanInv BY DEF DispatchInv
  <1>a. mScheduledQueue \in Seq(Driver) /\ Len(mScheduledQueue) \in Nat
        /\ dependent \subseteq discovered
    BY <1>0 DEF TypeOK
  <1>1. CASE FwVolNotify
    <2>1. PICK seen \in SUBSET (volumes[1].files \ {DxeCore}) :
            /\ discovered' = discovered \cup seen /\ dependent' = dependent \cup seen
            /\ seen \cap discovered = {}
      BY <1>1, NotifyFacts
    <2>2. QED
      BY <1>0, <1>a, <1>1, <2>1 DEF FwVolNotify, QueueInv, Running
  <1>2. CASE PromoteHit
    <2> DEFINE g == AprioriFile[scanIdx]
    <2>1. g \in dependent /\ g \in Driver /\ g \in discovered
      BY <1>0, <1>2 DEF PromoteHit, Scanning, ScanInv, TypeOK
    <2>2. \A k \in 1..Len(mScheduledQueue) : mScheduledQueue[k] # g
      BY <1>0, <2>1 DEF QueueInv
    <2>3. ~Running(g)
      BY <1>0, <2>1 DEF QueueInv, Running
    <2>4. phase \in {"init", "starting"}
      BY <1>0, <1>2 DEF ScanInv, PromoteHit, Scanning, TypeOK
    <2>5. /\ Len(mScheduledQueue') = Len(mScheduledQueue) + 1
          /\ \A k \in 1..Len(mScheduledQueue) : mScheduledQueue'[k] = mScheduledQueue[k]
          /\ mScheduledQueue'[Len(mScheduledQueue) + 1] = g
      BY <1>a, <1>2, <2>1, AppendFacts DEF PromoteHit, Scheduled
    <2>6. /\ dependent' = dependent \ {g}
          /\ UNCHANGED <<phase, cur, discovered>>
      BY <1>2 DEF PromoteHit
    <2> HIDE DEF g
    <2>7. QED
      BY <1>0, <1>a, <2>1, <2>2, <2>3, <2>4, <2>5, <2>6 DEF QueueInv, Running
  <1>3. CASE BeginLoad
    BY <1>0, <1>a, <1>3, TailFacts DEF BeginLoad, QueueInv, Running, listVars
  <1>4. ASSUME phase = "loading", mScheduledQueue' = Tail(mScheduledQueue),
               \/ phase' = "idle"
               \/ phase' = "starting" /\ UNCHANGED cur,
               UNCHANGED <<discovered, dependent>>
        PROVE  QueueInv'
    <2>1. /\ Len(mScheduledQueue') = Len(mScheduledQueue) - 1
          /\ \A k \in 1..Len(mScheduledQueue') : mScheduledQueue'[k] = mScheduledQueue[k + 1]
          /\ cur = mScheduledQueue[1] /\ Len(mScheduledQueue) \in Nat \ {0}
      BY <1>0, <1>a, <1>4, TailFacts DEF QueueInv
    <2>2. \A k \in 1..Len(mScheduledQueue') :
            k + 1 \in 1..Len(mScheduledQueue) /\ 1 \in 1..Len(mScheduledQueue)
      BY <2>1
    <2>3. \A k \in 1..Len(mScheduledQueue') : mScheduledQueue'[k] # cur
      BY <1>0, <2>1, <2>2 DEF QueueInv
    <2>4. QED
      BY <1>0, <1>4, <2>1, <2>2, <2>3 DEF QueueInv, Running
  <1>5. ASSUME phase = "starting", phase' \in {"idle", "hung"},
               phase' = "hung" => UNCHANGED cur,
               UNCHANGED <<discovered, dependent, mScheduledQueue>>
        PROVE  QueueInv'
    BY <1>0, <1>a, <1>5 DEF QueueInv, Running
  <1>6. CASE ScheduleReady
    <2>1. /\ mScheduledQueue' \in Seq(dependent)
          /\ \A k, m \in 1..Len(mScheduledQueue') :
                 mScheduledQueue'[k] = mScheduledQueue'[m] => k = m
          /\ dependent' = {d \in dependent :
                 \A k \in 1..Len(mScheduledQueue') : mScheduledQueue'[k] # d}
      BY <1>6, ReadyFacts
    <2>2. \A k \in 1..Len(mScheduledQueue') : mScheduledQueue'[k] \in dependent \ dependent'
      BY <2>1
    <2>3. QED
      BY <1>a, <1>6, <2>1, <2>2 DEF ScheduleReady, QueueInv, Running
  <1>7. CASE UNCHANGED <<discovered, dependent, mScheduledQueue, cur>> /\
             (UNCHANGED phase \/ Dispatch \/ Finish)
    BY <1>0, <1>7 DEF QueueInv, Running, Dispatch, Finish
  <1>8. QED
    BY <1>1, <1>2, <1>3, <1>4, <1>5, <1>6, <1>7
    DEF Next, Step, Halted, vars, listVars, PromoteMiss, PromoteEnd, Dispatch,
        BeginStart, StartSucceeds, StartHangs, LoadFails, StartFails, Finish

-----------------------------------------------------------------------------
(* MarkSeq rewrites the slot of g, if it is pending there, and no other. *)
LEMMA MarkSeqFacts ==
    ASSUME DispatchInv, NEW g, NEW ch \in {"s", "S", "L"}, NEW status,
           MarkSeq(g, ch, status), UNCHANGED <<mP2Apriori, mP2AprioriGuid>>
    PROVE  /\ SeqLen' = SeqLen
           /\ \A i \in 1..SeqLen :
                /\ mP2AprioriGuid[i] = g =>
                      mP2AprioriRes'[i] = ch /\ mP2ApriSt'[i] = status
                /\ mP2AprioriGuid[i] # g =>
                      /\ mP2AprioriRes'[i] = mP2AprioriRes[i]
                      /\ mP2ApriSt'[i] = mP2ApriSt[i]
           /\ \A i \in Slot : i > SeqLen => mP2ApriSt'[i] = mP2ApriSt[i]
  <1>1. SeqLen \in Nat /\ 1..SeqLen \subseteq Slot
    BY SeqLenType DEF DispatchInv, TypeOK
  <1>2. SeqLen' = SeqLen BY DEF SeqLen
  <1>3. \A i \in 1..SeqLen : IsSlotOf(i, g) <=> mP2AprioriGuid[i] = g
    BY <1>1 DEF IsSlotOf, DispatchInv, SlotInv
  <1>4. \A i \in Slot : i > SeqLen => ~IsSlotOf(i, g)
    BY <1>1 DEF IsSlotOf, Slot
  <1>5. QED
    BY <1>1, <1>2, <1>3, <1>4 DEF MarkSeq, DispatchInv, TypeOK

(* When the drain resolves the driver it has been loading or starting.     *)
(* `cur` is off the queue afterwards, whichever way the attempt ended.     *)
AttemptReturns(ch, status) ==
    /\ phase \in {"loading", "starting"}
    /\ scanIdx = 0
    /\ MarkSeq(cur, ch, status)
    /\ mScheduledQueue' = IF phase = "loading" THEN Tail(mScheduledQueue)
                                               ELSE mScheduledQueue
    /\ attempts' = Append(attempts, Entry(cur, ch, status))
    /\ phase' = "idle"
    /\ UNCHANGED <<discovered, dependent, mP2Apriori, mP2AprioriGuid>>

(* The three ways an attempt returns are of that shape. *)
LEMMA ReturnSteps ==
    ASSUME DispatchInv
    PROVE  /\ StartSucceeds => AttemptReturns("s", Success)
           /\ \A status \in ErrorStatus :
                 /\ LoadFails(status) => AttemptReturns("L", status)
                 /\ StartFails(status) => AttemptReturns("S", status)
  <1>1. phase = "loading" => scanIdx = 0
    BY DEF DispatchInv, ScanInv, TypeOK
  <1>2. QED
    BY <1>1
    DEF StartSucceeds, LoadFails, StartFails, AttemptReturns, Record, listVars

(* Where the queue's elements are after an attempt returned. *)
LEMMA ReturnFacts ==
    ASSUME DispatchInv, NEW ch \in {"s", "S", "L"}, NEW status, AttemptReturns(ch, status)
    PROVE  /\ \A g : Queued(g)' <=> Queued(g) /\ g # cur
           /\ \A g : ~Running(g)'
           /\ phase = "starting" => ~Queued(cur)
           /\ cur \in discovered \ dependent /\ cur \in Driver
           /\ Running(cur) \/ Queued(cur)
           /\ Len(mScheduledQueue') \in Nat
           /\ \A k \in 1..Len(mScheduledQueue') :
                 LET d == IF phase = "loading" THEN 1 ELSE 0 IN
                 /\ k + d \in 1..Len(mScheduledQueue)
                 /\ mScheduledQueue'[k] = mScheduledQueue[k + d]
  <1>0. TypeOK /\ QueueInv BY DEF DispatchInv
  <1>1. cur \in discovered \ dependent /\ cur \in Driver
    BY <1>0 DEF QueueInv, AttemptReturns, TypeOK
  <1>2. \A g : ~Running(g)'
    BY DEF Running, AttemptReturns
  <1>3. mScheduledQueue \in Seq(Driver) /\ Len(mScheduledQueue) \in Nat
    BY <1>0 DEF TypeOK
  <1>4. CASE phase = "starting"
    <2>1. mScheduledQueue' = mScheduledQueue BY <1>4 DEF AttemptReturns
    <2>2. ~Queued(cur) BY <1>0, <1>4 DEF QueueInv, Queued, Running
    <2>3. \A g : Queued(g)' <=> Queued(g) BY <2>1 DEF Queued
    <2>4. Running(cur) BY <1>4 DEF Running
    <2>5. QED BY <1>1, <1>2, <1>3, <1>4, <2>1, <2>2, <2>3, <2>4 DEF Running
  <1>5. CASE phase = "loading"
    <2>1. mScheduledQueue # <<>> /\ cur = mScheduledQueue[1]
          /\ mScheduledQueue' = Tail(mScheduledQueue)
      BY <1>0, <1>5 DEF QueueInv, AttemptReturns
    <2>2. /\ Len(mScheduledQueue') = Len(mScheduledQueue) - 1
          /\ Len(mScheduledQueue) \in Nat \ {0}
          /\ \A k \in 1..Len(mScheduledQueue') : mScheduledQueue'[k] = mScheduledQueue[k + 1]
      BY <1>3, <2>1, TailFacts
    <2>3. \A k \in 1..Len(mScheduledQueue') :
            k + 1 \in 1..Len(mScheduledQueue) /\ k + 1 # 1 /\ 1 \in 1..Len(mScheduledQueue)
      BY <2>2
    <2>4. \A g : Queued(g)' => Queued(g) /\ g # cur
      BY <1>0, <2>1, <2>2, <2>3 DEF Queued, QueueInv
    <2>5. ASSUME NEW g, Queued(g), g # cur PROVE Queued(g)'
      <3>1. PICK k \in 1..Len(mScheduledQueue) : mScheduledQueue[k] = g
        BY <2>5 DEF Queued
      <3>2. k - 1 \in 1..Len(mScheduledQueue') /\ mScheduledQueue'[k - 1] = g
        BY <2>1, <2>2, <2>5, <3>1
      <3>3. QED BY <3>2 DEF Queued
    <2>6. Queued(cur) BY <2>1, <2>2 DEF Queued
    <2>7. Running(cur) = FALSE BY <1>5 DEF Running
    <2>8. QED BY <1>1, <1>2, <1>5, <2>2, <2>3, <2>4, <2>5, <2>6 DEF Running
  <1>6. QED BY <1>4, <1>5 DEF AttemptReturns

-----------------------------------------------------------------------------
(* What a promotion does to the slots: a new '?' behind the others, or,    *)
(* with the arrays full, nothing.  The driver was waiting for its DEPEX.   *)
LEMMA PromoteFacts ==
    ASSUME DispatchInv, PromoteHit
    PROVE  LET g == AprioriFile[scanIdx] IN
           /\ g \in dependent /\ g \in discovered /\ g \in Driver
           /\ ~Queued(g) /\ ~Running(g)
           /\ \A h : Queued(h)' <=> Queued(h) \/ h = g
           /\ \A h : Running(h)' <=> Running(h)
           /\ Len(mScheduledQueue) \in Nat
           /\ Len(mScheduledQueue') = Len(mScheduledQueue) + 1
           /\ \A k \in 1..Len(mScheduledQueue) : mScheduledQueue'[k] = mScheduledQueue[k]
           /\ mScheduledQueue'[Len(mScheduledQueue) + 1] = g
           /\ \/ /\ SeqLen' = SeqLen
                 /\ UNCHANGED <<mP2AprioriGuid, mP2AprioriRes>>
              \/ /\ SeqLen' = SeqLen + 1
                 /\ mP2AprioriGuid'[SeqLen + 1] = g
                 /\ mP2AprioriRes'[SeqLen + 1] = "?"
                 /\ SeqLen + 1 \in Slot
           /\ \A i \in 1..SeqLen : /\ mP2AprioriGuid'[i] = mP2AprioriGuid[i]
                                   /\ mP2AprioriRes'[i] = mP2AprioriRes[i]
           /\ \A i \in 1..SeqLen : mP2AprioriGuid[i] # g
  <1> DEFINE g == AprioriFile[scanIdx]
  <1>0. TypeOK /\ QueueInv /\ SlotInv /\ ScanInv BY DEF DispatchInv
  <1>1. g \in dependent /\ g \in Driver /\ g \in discovered
    BY <1>0 DEF PromoteHit, Scanning, ScanInv, TypeOK
  <1>2. ~Queued(g) /\ ~Running(g)
    BY <1>0, <1>1 DEF QueueInv, Running, Queued
  <1>3. mScheduledQueue \in Seq(Driver) BY <1>0 DEF TypeOK
  <1>4. /\ Len(mScheduledQueue) \in Nat
        /\ Len(mScheduledQueue') = Len(mScheduledQueue) + 1
        /\ \A k \in 1..Len(mScheduledQueue) : mScheduledQueue'[k] = mScheduledQueue[k]
        /\ mScheduledQueue'[Len(mScheduledQueue) + 1] = g
    BY <1>1, <1>3, AppendFacts DEF PromoteHit, Scheduled
  <1>5. \A h : Queued(h)' <=> Queued(h) \/ h = g
    <2> HIDE DEF g
    <2>1. \A k : k \in 1..Len(mScheduledQueue') <=>
                    k \in 1..Len(mScheduledQueue) \/ k = Len(mScheduledQueue) + 1
      BY <1>4
    <2>2. QED BY <1>4, <2>1 DEF Queued
  <1>6. \A h : Running(h)' <=> Running(h) BY DEF PromoteHit, Running
  <1>7. SeqLen \in Nat /\ 1..SeqLen \subseteq Slot /\ AprioriMax \in Nat
    BY <1>0, SeqLenType, GuidAssumption DEF TypeOK
  <1>8. \A i \in 1..SeqLen : mP2AprioriGuid[i] # g
    BY <1>0, <1>1 DEF SlotInv
  <1>9. CASE mP2Apriori < AprioriMax
    <2>1. SeqLen = mP2Apriori /\ SeqLen' = SeqLen + 1 /\ SeqLen + 1 \in Slot
      BY <1>0, <1>7, <1>9 DEF SeqLen, PromoteHit, Slot, TypeOK
    <2>2. /\ mP2AprioriGuid' = [mP2AprioriGuid EXCEPT ![SeqLen + 1] = g]
          /\ mP2AprioriRes' = [mP2AprioriRes EXCEPT ![SeqLen + 1] = "?"]
      BY <1>9, <2>1 DEF PromoteHit
    <2>3. /\ mP2AprioriGuid'[SeqLen + 1] = g
          /\ mP2AprioriRes'[SeqLen + 1] = "?"
          /\ \A i \in 1..SeqLen : /\ mP2AprioriGuid'[i] = mP2AprioriGuid[i]
                                  /\ mP2AprioriRes'[i] = mP2AprioriRes[i]
      BY <1>0, <1>7, <2>1, <2>2 DEF TypeOK
    <2>4. QED BY <1>1, <1>2, <1>4, <1>5, <1>6, <1>8, <2>1, <2>3
  <1>10. CASE ~(mP2Apriori < AprioriMax)
    <2>1. SeqLen' = SeqLen
      BY <1>0, <1>7, <1>10 DEF SeqLen, PromoteHit, TypeOK
    <2>2. UNCHANGED <<mP2AprioriGuid, mP2AprioriRes>>
      BY <1>10 DEF PromoteHit
    <2>3. QED BY <1>1, <1>2, <1>4, <1>5, <1>6, <1>8, <2>1, <2>2
  <1>11. QED BY <1>9, <1>10

(* A started driver moves from the queue's head to being the one running. *)
LEMMA BeginStartFacts ==
    ASSUME DispatchInv, BeginStart
    PROVE  /\ \A g : Queued(g)' <=> Queued(g) /\ g # cur
           /\ \A g : Running(g)' <=> g = cur
           /\ \A g : ~Running(g)
           /\ Queued(cur)
           /\ mScheduledQueue[1] = cur /\ Len(mScheduledQueue) \in Nat \ {0}
           /\ Len(mScheduledQueue') \in Nat
           /\ \A k \in 1..Len(mScheduledQueue') :
                 k + 1 \in 1..Len(mScheduledQueue) /\ mScheduledQueue'[k] = mScheduledQueue[k + 1]
  <1>0. TypeOK /\ QueueInv BY DEF DispatchInv
  <1>1. /\ mScheduledQueue # <<>> /\ cur = mScheduledQueue[1]
        /\ mScheduledQueue' = Tail(mScheduledQueue) /\ mScheduledQueue \in Seq(Driver)
    BY <1>0 DEF BeginStart, QueueInv, TypeOK
  <1>2. /\ Len(mScheduledQueue') = Len(mScheduledQueue) - 1
        /\ Len(mScheduledQueue) \in Nat \ {0}
        /\ \A k \in 1..Len(mScheduledQueue') : mScheduledQueue'[k] = mScheduledQueue[k + 1]
    BY <1>1, TailFacts
  <1>3. \A k \in 1..Len(mScheduledQueue') :
            k + 1 \in 1..Len(mScheduledQueue) /\ k + 1 # 1 /\ 1 \in 1..Len(mScheduledQueue)
    BY <1>2
  <1>4. \A g : Queued(g)' => Queued(g) /\ g # cur
    BY <1>0, <1>1, <1>2, <1>3 DEF Queued, QueueInv
  <1>5. ASSUME NEW g, Queued(g), g # cur PROVE Queued(g)'
    <2>1. PICK k \in 1..Len(mScheduledQueue) : mScheduledQueue[k] = g
      BY <1>5 DEF Queued
    <2>2. k - 1 \in 1..Len(mScheduledQueue') /\ mScheduledQueue'[k - 1] = g
      BY <1>1, <1>2, <1>5, <2>1
    <2>3. QED BY <2>2 DEF Queued
  <1>6. Queued(cur) BY <1>1, <1>2 DEF Queued
  <1>7. (\A g : ~Running(g)) /\ (\A g : Running(g)' <=> g = cur)
    BY DEF BeginStart, Running
  <1>8. QED BY <1>1, <1>2, <1>3, <1>4, <1>5, <1>6, <1>7

(* The remaining steps, none of which touches the slots or the attempts,   *)
(* and which leave every driver queued, running or waiting as it was.      *)
QuietStep ==
    \/ UNCHANGED vars \/ PromoteMiss \/ PromoteEnd \/ Dispatch
    \/ BeginLoad \/ StartHangs \/ Finish

(* ... as their UNCHANGEDs say. *)
LEMMA QuietFacts ==
    ASSUME DispatchInv, QuietStep
    PROVE  /\ UNCHANGED <<discovered, dependent, mScheduledQueue, mP2Apriori, slotVars,
                          attempts>>
           /\ SeqLen' = SeqLen
           /\ \A g : Queued(g)' <=> Queued(g)
           /\ \A g : Running(g)' <=> Running(g)
  <1>1. UNCHANGED <<discovered, dependent, mScheduledQueue, mP2Apriori, slotVars, attempts>>
    BY DEF QuietStep, vars, PromoteMiss, PromoteEnd, Dispatch, BeginLoad, StartHangs, Finish,
           listVars, runVars, slotVars
  <1>2. SeqLen' = SeqLen BY <1>1 DEF SeqLen
  <1>3. \A g : Queued(g)' <=> Queued(g) BY <1>1 DEF Queued
  <1>4. \A g : Running(g)' <=> Running(g)
    BY DEF Running, QuietStep, vars, PromoteMiss, PromoteEnd, Dispatch, BeginLoad, StartHangs,
           Finish
  <1>5. QED BY <1>1, <1>2, <1>3, <1>4

(* Every step is one of seven kinds. *)
LEMMA StepKinds ==
    ASSUME DispatchInv, [Next]_vars
    PROVE  \/ FwVolNotify \/ PromoteHit \/ BeginStart \/ ScheduleReady \/ QuietStep
           \/ \E ch \in {"s", "S", "L"}, status \in ErrorStatus \cup {Success} :
                 AttemptReturns(ch, status)
  BY ReturnSteps DEF Next, Step, Halted, QuietStep

-----------------------------------------------------------------------------
(* The slots keep telling queued, running and finished drivers apart. *)
LEMMA SlotStep == DispatchInv /\ [Next]_vars => SlotInv'
  <1> SUFFICES ASSUME DispatchInv, [Next]_vars PROVE SlotInv' OBVIOUS
  <1>0. TypeOK /\ QueueInv /\ SlotInv BY DEF DispatchInv
  <1>a. SeqLen \in Nat /\ 1..SeqLen \subseteq Slot
    BY <1>0, SeqLenType DEF TypeOK
  <1>b. dependent \subseteq discovered BY <1>0 DEF TypeOK
  <1>1. CASE FwVolNotify
    <2>1. PICK seen \in SUBSET (volumes[1].files \ {DxeCore}) :
            /\ discovered' = discovered \cup seen /\ dependent' = dependent \cup seen
            /\ seen \cap discovered = {}
      BY <1>1, NotifyFacts
    <2>2. UNCHANGED <<mP2Apriori, mP2AprioriGuid, mP2AprioriRes, mP2ApriSt,
                      mScheduledQueue, phase, cur>>
      BY <1>1 DEF FwVolNotify, slotVars
    <2>3. SeqLen' = SeqLen BY <2>2 DEF SeqLen
    <2>4. QED
      BY <1>0, <2>1, <2>2, <2>3 DEF SlotInv, Running, Queued, PendingAt
  <1>2. CASE PromoteHit
    <2> DEFINE g == AprioriFile[scanIdx]
    <2>1. /\ g \in dependent /\ g \in discovered
          /\ \A h : Queued(h)' <=> Queued(h) \/ h = g
          /\ \A h : Running(h)' <=> Running(h)
          /\ ~Queued(g) /\ ~Running(g)
          /\ \A i \in 1..SeqLen : /\ mP2AprioriGuid'[i] = mP2AprioriGuid[i]
                                  /\ mP2AprioriRes'[i] = mP2AprioriRes[i]
          /\ \A i \in 1..SeqLen : mP2AprioriGuid[i] # g
      BY <1>2, PromoteFacts
    <2>2. \/ /\ SeqLen' = SeqLen
          \/ /\ SeqLen' = SeqLen + 1
             /\ mP2AprioriGuid'[SeqLen + 1] = g
             /\ mP2AprioriRes'[SeqLen + 1] = "?"
             /\ SeqLen + 1 \in Slot
      BY <1>2, PromoteFacts
    <2>3. /\ Len(mScheduledQueue) \in Nat
          /\ Len(mScheduledQueue') = Len(mScheduledQueue) + 1
          /\ \A k \in 1..Len(mScheduledQueue) : mScheduledQueue'[k] = mScheduledQueue[k]
          /\ mScheduledQueue'[Len(mScheduledQueue) + 1] = g
      BY <1>2, PromoteFacts
    <2>4. discovered' = discovered /\ dependent' = dependent \ {g} /\ mP2ApriSt' = mP2ApriSt
      BY <1>2 DEF PromoteHit
    <2> HIDE DEF g
    <2>5. \A i \in 1..SeqLen' :
             \/ i \in 1..SeqLen
             \/ i = SeqLen + 1 /\ mP2AprioriGuid'[i] = g /\ mP2AprioriRes'[i] = "?"
      <3>1. CASE SeqLen' = SeqLen
        BY <3>1
      <3>2. CASE SeqLen' = SeqLen + 1 /\ mP2AprioriGuid'[SeqLen + 1] = g
                    /\ mP2AprioriRes'[SeqLen + 1] = "?"
        <4> SUFFICES ASSUME NEW i \in 1..SeqLen', i \notin 1..SeqLen
                     PROVE  i = SeqLen + 1
          BY <3>2
        <4>1. QED BY <1>a, <3>2
      <3>3. QED BY <2>2, <3>1, <3>2
    <2>6. \A k \in 1..Len(mScheduledQueue') :
             \/ k \in 1..Len(mScheduledQueue) /\ mScheduledQueue'[k] # g
                /\ mScheduledQueue'[k] = mScheduledQueue[k]
             \/ k = Len(mScheduledQueue) + 1 /\ mScheduledQueue'[k] = g
      BY <2>1, <2>3 DEF Queued
    <2>7. \A i \in 1..SeqLen' :
          /\ mP2AprioriGuid'[i] \in discovered' \ dependent'
          /\ mP2AprioriRes'[i] # "NUL"
          /\ mP2AprioriRes'[i] = "?" <=>
                (Running(mP2AprioriGuid[i]) \/ Queued(mP2AprioriGuid[i]))'
      BY <1>0, <2>1, <2>4, <2>5 DEF SlotInv
    <2>8. \A i \in Slot : i > SeqLen' => mP2ApriSt'[i] = Success
      BY <1>0, <1>a, <2>2, <2>4 DEF SlotInv, Slot
    <2>9. \A i, j \in 1..SeqLen' : mP2AprioriGuid'[i] = mP2AprioriGuid'[j] => i = j
      BY <1>0, <2>1, <2>5 DEF SlotInv
    <2>10. \A i, j \in 1..SeqLen' : i < j /\ PendingAt(i)' => ~(Running(mP2AprioriGuid[j])')
      <3> SUFFICES ASSUME NEW i \in 1..SeqLen', NEW j \in 1..SeqLen', i < j, PendingAt(i)'
                   PROVE  ~(Running(mP2AprioriGuid[j])')
        OBVIOUS
      <3>1. CASE j \in 1..SeqLen
        <4>1. i \in 1..SeqLen BY <1>a, <3>1
        <4>2. PendingAt(i) BY <2>1, <4>1 DEF PendingAt
        <4>3. QED BY <1>0, <2>1, <3>1, <4>1, <4>2 DEF SlotInv
      <3>2. CASE mP2AprioriGuid'[j] = g
        BY <2>1, <3>2
      <3>3. QED BY <2>5, <3>1, <3>2
    <2>11. \A i, j \in 1..SeqLen' :
             \A k, m \in 1..Len(mScheduledQueue') :
              /\ i < j
              /\ mScheduledQueue'[k] = mP2AprioriGuid'[i]
              /\ mScheduledQueue'[m] = mP2AprioriGuid'[j]
              => k < m
      <3> SUFFICES ASSUME NEW i \in 1..SeqLen', NEW j \in 1..SeqLen',
                          NEW k \in 1..Len(mScheduledQueue'),
                          NEW m \in 1..Len(mScheduledQueue'), i < j,
                          mScheduledQueue'[k] = mP2AprioriGuid'[i],
                          mScheduledQueue'[m] = mP2AprioriGuid'[j]
                   PROVE  k < m
        OBVIOUS
      <3>0. i \in 1..SeqLen
        BY <1>a, <2>5
      <3>1. k \in 1..Len(mScheduledQueue) /\ mScheduledQueue[k] = mP2AprioriGuid[i]
        BY <2>1, <2>6, <3>0
      <3>2. CASE j \in 1..SeqLen
        <4>1. m \in 1..Len(mScheduledQueue) /\ mScheduledQueue[m] = mP2AprioriGuid[j]
          BY <2>1, <2>6, <3>2
        <4>2. QED BY <1>0, <3>0, <3>1, <3>2, <4>1 DEF SlotInv
      <3>3. CASE mP2AprioriGuid'[j] = g
        BY <2>3, <2>6, <3>1, <3>3
      <3>4. QED BY <2>5, <3>2, <3>3
    <2>12. QED BY <2>7, <2>8, <2>9, <2>10, <2>11 DEF SlotInv
  <1>3. CASE BeginStart
    <2>1. /\ \A g : Queued(g)' <=> Queued(g) /\ g # cur
          /\ \A g : Running(g)' <=> g = cur
          /\ \A g : ~Running(g)
          /\ Queued(cur)
      BY <1>3, BeginStartFacts
    <2>2. /\ mScheduledQueue[1] = cur /\ Len(mScheduledQueue) \in Nat \ {0}
          /\ \A k \in 1..Len(mScheduledQueue') :
                k + 1 \in 1..Len(mScheduledQueue) /\ mScheduledQueue'[k] = mScheduledQueue[k + 1]
      BY <1>3, BeginStartFacts
    <2>3. UNCHANGED <<mP2Apriori, mP2AprioriGuid, mP2AprioriRes, mP2ApriSt, discovered,
                      dependent>> /\ SeqLen' = SeqLen
      BY <1>3 DEF BeginStart, slotVars, SeqLen
    <2>4. ASSUME NEW i \in 1..SeqLen, NEW j \in 1..SeqLen, i < j, PendingAt(i)
          PROVE  mP2AprioriGuid[j] # cur
      <3>1. PICK k \in 1..Len(mScheduledQueue) : mScheduledQueue[k] = mP2AprioriGuid[i]
        BY <1>0, <2>1, <2>4 DEF SlotInv, PendingAt, Queued
      <3>2. mP2AprioriGuid[j] = mScheduledQueue[1] => k < 1
        BY <1>0, <2>2, <2>4, <3>1 DEF SlotInv
      <3>3. QED BY <2>2, <3>2
    <2>5. \A i \in 1..SeqLen' : mP2AprioriRes'[i] = "?" <=>
                (Running(mP2AprioriGuid[i]) \/ Queued(mP2AprioriGuid[i]))'
      BY <1>0, <2>1, <2>3 DEF SlotInv
    <2>6. \A i, j \in 1..SeqLen' : i < j /\ PendingAt(i)' => ~(Running(mP2AprioriGuid[j])')
      BY <2>1, <2>3, <2>4 DEF PendingAt
    <2>7. \A i, j \in 1..SeqLen' :
             \A k, m \in 1..Len(mScheduledQueue') :
              /\ i < j
              /\ mScheduledQueue'[k] = mP2AprioriGuid'[i]
              /\ mScheduledQueue'[m] = mP2AprioriGuid'[j]
              => k < m
      <3> SUFFICES ASSUME NEW i \in 1..SeqLen, NEW j \in 1..SeqLen,
                          NEW k \in 1..Len(mScheduledQueue'),
                          NEW m \in 1..Len(mScheduledQueue'), i < j,
                          mScheduledQueue[k + 1] = mP2AprioriGuid[i],
                          mScheduledQueue[m + 1] = mP2AprioriGuid[j]
                   PROVE  k < m
        BY <2>2, <2>3
      <3>1. k + 1 < m + 1 BY <1>0, <2>2 DEF SlotInv
      <3>2. QED BY <3>1
    <2>8. QED BY <1>0, <2>3, <2>5, <2>6, <2>7 DEF SlotInv
  <1>4. CASE ScheduleReady
    <2>1. /\ mScheduledQueue' \in Seq(dependent)
          /\ dependent' = {d \in dependent :
                 \A k \in 1..Len(mScheduledQueue') : mScheduledQueue'[k] # d}
      BY <1>4, ReadyFacts
    <2>2. UNCHANGED <<mP2Apriori, mP2AprioriGuid, mP2AprioriRes, mP2ApriSt, discovered>>
          /\ SeqLen' = SeqLen /\ phase = "idle" /\ phase' = "idle" /\ mScheduledQueue = <<>>
      BY <1>4 DEF ScheduleReady, slotVars, SeqLen
    <2>3. \A i \in 1..SeqLen : mP2AprioriRes[i] # "?"
      BY <1>0, <2>2 DEF SlotInv, Running, Queued
    <2>4. \A i \in 1..SeqLen :
            \A k \in 1..Len(mScheduledQueue') : mScheduledQueue'[k] # mP2AprioriGuid[i]
      BY <1>0, <2>1 DEF SlotInv
    <2>5. QED
      BY <1>0, <2>1, <2>2, <2>3, <2>4 DEF SlotInv, Running, Queued, PendingAt
  <1>5. CASE QuietStep
    <2>1. /\ UNCHANGED <<discovered, dependent, mScheduledQueue, mP2Apriori, mP2AprioriGuid,
                         mP2AprioriRes, mP2ApriSt>>
          /\ SeqLen' = SeqLen
          /\ \A g : Queued(g)' <=> Queued(g)
          /\ \A g : Running(g)' <=> Running(g)
      BY <1>5, QuietFacts DEF slotVars
    <2>2. QED BY <1>0, <2>1 DEF SlotInv, PendingAt
  <1>6. ASSUME NEW ch \in {"s", "S", "L"}, NEW status \in ErrorStatus \cup {Success},
               AttemptReturns(ch, status)
        PROVE  SlotInv'
    <2>0. UNCHANGED <<discovered, dependent, mP2Apriori, mP2AprioriGuid>>
          /\ MarkSeq(cur, ch, status)
      BY <1>6 DEF AttemptReturns
    <2>1. /\ SeqLen' = SeqLen
          /\ \A i \in 1..SeqLen :
                /\ mP2AprioriGuid[i] = cur => mP2AprioriRes'[i] = ch
                /\ mP2AprioriGuid[i] # cur => mP2AprioriRes'[i] = mP2AprioriRes[i]
          /\ \A i \in Slot : i > SeqLen => mP2ApriSt'[i] = mP2ApriSt[i]
      BY <2>0, MarkSeqFacts
    <2>2. /\ \A g : Queued(g)' <=> Queued(g) /\ g # cur
          /\ \A g : ~Running(g)'
          /\ \A k \in 1..Len(mScheduledQueue') :
                 LET d == IF phase = "loading" THEN 1 ELSE 0 IN
                 /\ k + d \in 1..Len(mScheduledQueue)
                 /\ mScheduledQueue'[k] = mScheduledQueue[k + d]
      BY <1>6, ReturnFacts
    <2>3. \A g : Running(g) => g = cur BY DEF Running
    <2>4. \A i \in 1..SeqLen' :
          /\ mP2AprioriGuid'[i] \in discovered' \ dependent'
          /\ mP2AprioriRes'[i] # "NUL"
          /\ mP2AprioriRes'[i] = "?" <=>
                (Running(mP2AprioriGuid[i]) \/ Queued(mP2AprioriGuid[i]))'
      BY <1>0, <2>0, <2>1, <2>2, <2>3 DEF SlotInv
    <2>5. \A i, j \in 1..SeqLen' :
             \A k, m \in 1..Len(mScheduledQueue') :
              /\ i < j
              /\ mScheduledQueue'[k] = mP2AprioriGuid'[i]
              /\ mScheduledQueue'[m] = mP2AprioriGuid'[j]
              => k < m
      <3> DEFINE d == IF phase = "loading" THEN 1 ELSE 0
      <3> SUFFICES ASSUME NEW i \in 1..SeqLen, NEW j \in 1..SeqLen,
                          NEW k \in 1..Len(mScheduledQueue'),
                          NEW m \in 1..Len(mScheduledQueue'), i < j,
                          mScheduledQueue[k + d] = mP2AprioriGuid[i],
                          mScheduledQueue[m + d] = mP2AprioriGuid[j]
                   PROVE  k < m
        BY <2>0, <2>1, <2>2
      <3>1. k + d < m + d BY <1>0, <2>2 DEF SlotInv
      <3>2. QED BY <3>1
    <2>6. QED BY <1>0, <2>0, <2>1, <2>2, <2>4, <2>5 DEF SlotInv
  <1>7. QED BY <1>1, <1>2, <1>3, <1>4, <1>5, <1>6, StepKinds

(* An attempt that returned stays the only one of its driver. *)
LEMMA AttemptStep == DispatchInv /\ [Next]_vars => AttemptInv'
  <1> SUFFICES ASSUME DispatchInv, [Next]_vars PROVE AttemptInv' OBVIOUS
  <1>0. TypeOK /\ AttemptInv BY DEF DispatchInv
  <1>1. CASE FwVolNotify
    <2>1. PICK seen \in SUBSET (volumes[1].files \ {DxeCore}) :
            /\ discovered' = discovered \cup seen /\ dependent' = dependent \cup seen
            /\ seen \cap discovered = {}
      BY <1>1, NotifyFacts
    <2>2. UNCHANGED <<attempts, mScheduledQueue, phase, cur>>
      BY <1>1 DEF FwVolNotify, runVars
    <2>3. QED BY <1>0, <2>1, <2>2 DEF AttemptInv, Queued, Running
  <1>2. CASE PromoteHit
    <2> DEFINE g == AprioriFile[scanIdx]
    <2>1. /\ g \in dependent /\ g \in discovered
          /\ \A h : Queued(h)' <=> Queued(h) \/ h = g
          /\ \A h : Running(h)' <=> Running(h)
      BY <1>2, PromoteFacts
    <2>2. UNCHANGED <<discovered, attempts>> /\ dependent' = dependent \ {g}
      BY <1>2 DEF PromoteHit, runVars
    <2> HIDE DEF g
    <2>3. QED BY <1>0, <2>1, <2>2 DEF AttemptInv
  <1>3. CASE BeginStart
    <2>1. /\ \A g : Queued(g)' <=> Queued(g) /\ g # cur
          /\ \A g : Running(g)' <=> g = cur
          /\ Queued(cur)
      BY <1>3, BeginStartFacts
    <2>2. UNCHANGED <<discovered, dependent, attempts>>
      BY <1>3 DEF BeginStart, runVars
    <2>3. QED BY <1>0, <2>1, <2>2 DEF AttemptInv
  <1>4. CASE ScheduleReady
    <2>1. /\ mScheduledQueue' \in Seq(dependent)
          /\ dependent' = {d \in dependent :
                 \A k \in 1..Len(mScheduledQueue') : mScheduledQueue'[k] # d}
      BY <1>4, ReadyFacts
    <2>2. UNCHANGED <<discovered, attempts, phase, cur>>
      BY <1>4 DEF ScheduleReady, runVars
    <2>3. \A g : Queued(g)' => g \in dependent
      BY <2>1 DEF Queued
    <2>4. QED BY <1>0, <2>1, <2>2, <2>3 DEF AttemptInv, Running
  <1>5. CASE QuietStep
    <2>1. /\ UNCHANGED <<discovered, dependent, attempts>>
          /\ \A g : Queued(g)' <=> Queued(g)
          /\ \A g : Running(g)' <=> Running(g)
      BY <1>5, QuietFacts
    <2>2. QED BY <1>0, <2>1 DEF AttemptInv
  <1>6. ASSUME NEW ch \in {"s", "S", "L"}, NEW status \in ErrorStatus \cup {Success},
               AttemptReturns(ch, status)
        PROVE  AttemptInv'
    <2>1. /\ \A g : Queued(g)' <=> Queued(g) /\ g # cur
          /\ \A g : ~Running(g)'
          /\ cur \in discovered \ dependent /\ cur \in Driver
      BY <1>6, ReturnFacts
    <2>2. /\ UNCHANGED <<discovered, dependent>>
          /\ attempts' = Append(attempts, Entry(cur, ch, status))
      BY <1>6 DEF AttemptReturns
    <2>3. Entry(cur, ch, status) \in AttemptType /\ Entry(cur, ch, status).guid = cur
      BY <2>1 DEF Entry, AttemptType
    <2>4. \A k \in 1..Len(attempts') :
            \/ k \in 1..Len(attempts) /\ attempts'[k] = attempts[k]
            \/ attempts'[k].guid = cur
      BY <1>0, <2>2, <2>3, AppendFacts DEF TypeOK
    <2>5. QED BY <1>0, <2>1, <2>2, <2>4 DEF AttemptInv
  <1>7. QED BY <1>1, <1>2, <1>3, <1>4, <1>5, <1>6, StepKinds

-----------------------------------------------------------------------------
(* Nothing is resolved behind a pending slot. *)
LEMMA PrefixStep == DispatchInv /\ [Next]_vars => SeqIsAPrefix'
  <1> SUFFICES ASSUME DispatchInv, [Next]_vars PROVE SeqIsAPrefix' OBVIOUS
  <1>0. TypeOK /\ QueueInv /\ SlotInv /\ SeqIsAPrefix BY DEF DispatchInv
  <1>a. SeqLen \in Nat BY <1>0, SeqLenType DEF TypeOK
  <1>1. CASE PromoteHit
    <2>1. \A i \in 1..SeqLen : mP2AprioriRes'[i] = mP2AprioriRes[i]
      BY <1>1, PromoteFacts
    <2>2. \/ SeqLen' = SeqLen
          \/ SeqLen' = SeqLen + 1 /\ mP2AprioriRes'[SeqLen + 1] = "?"
      BY <1>1, PromoteFacts
    <2>3. CASE SeqLen' = SeqLen
      BY <1>0, <2>1, <2>3 DEF SeqIsAPrefix
    <2>4. CASE SeqLen' = SeqLen + 1 /\ mP2AprioriRes'[SeqLen + 1] = "?"
      <3> SUFFICES ASSUME NEW i \in 1..(SeqLen + 1), NEW j \in 1..(SeqLen + 1), i < j,
                          mP2AprioriRes'[i] = "?"
                   PROVE  mP2AprioriRes'[j] = "?"
        BY <2>4 DEF SeqIsAPrefix
      <3>1. i \in 1..SeqLen BY <1>a
      <3>2. CASE j \in 1..SeqLen BY <1>0, <2>1, <3>1, <3>2 DEF SeqIsAPrefix
      <3>3. CASE j = SeqLen + 1 BY <2>4, <3>3
      <3>4. QED BY <1>a, <3>2, <3>3
    <2>5. QED BY <2>2, <2>3, <2>4
  <1>2. ASSUME NEW ch \in {"s", "S", "L"}, NEW status \in ErrorStatus \cup {Success},
               AttemptReturns(ch, status)
        PROVE  SeqIsAPrefix'
    <2>1. /\ SeqLen' = SeqLen
          /\ \A i \in 1..SeqLen :
                /\ mP2AprioriGuid[i] = cur => mP2AprioriRes'[i] = ch
                /\ mP2AprioriGuid[i] # cur => mP2AprioriRes'[i] = mP2AprioriRes[i]
      <3>1. MarkSeq(cur, ch, status) /\ UNCHANGED <<mP2Apriori, mP2AprioriGuid>>
        BY <1>2 DEF AttemptReturns
      <3>2. QED BY <3>1, MarkSeqFacts
    <2>2. ASSUME NEW i \in 1..SeqLen, NEW j \in 1..SeqLen, i < j,
                 mP2AprioriRes[i] = "?", mP2AprioriGuid[i] # cur
          PROVE  mP2AprioriGuid[j] # cur
      <3>1. CASE phase = "starting"
        BY <1>0, <2>2, <3>1 DEF SlotInv, PendingAt, Running
      <3>2. CASE phase = "loading"
        <4>1. ~Running(mP2AprioriGuid[i]) BY <3>2 DEF Running
        <4>2. PICK k \in 1..Len(mScheduledQueue) : mScheduledQueue[k] = mP2AprioriGuid[i]
          BY <1>0, <2>2, <4>1 DEF SlotInv, Queued
        <4>3. mScheduledQueue[1] = cur /\ 1 \in 1..Len(mScheduledQueue)
          BY <1>0, <3>2, <4>2 DEF QueueInv, TypeOK
        <4>4. mP2AprioriGuid[j] = mScheduledQueue[1] => k < 1
          BY <1>0, <2>2, <4>2, <4>3 DEF SlotInv
        <4>5. QED BY <4>3, <4>4
      <3>3. QED BY <1>2, <3>1, <3>2 DEF AttemptReturns
    <2>3. QED BY <1>0, <2>1, <2>2 DEF SeqIsAPrefix
  <1>3. ASSUME UNCHANGED <<mP2Apriori, mP2AprioriRes>> PROVE SeqIsAPrefix'
    <2>1. SeqLen' = SeqLen BY <1>3 DEF SeqLen
    <2>2. QED BY <1>0, <1>3, <2>1 DEF SeqIsAPrefix
  <1>4. QED
    <2>1. QuietStep => UNCHANGED <<mP2Apriori, mP2AprioriRes>>
      BY QuietFacts DEF slotVars
    <2>2. FwVolNotify \/ BeginStart \/ ScheduleReady => UNCHANGED <<mP2Apriori, mP2AprioriRes>>
      BY DEF FwVolNotify, BeginStart, ScheduleReady, slotVars
    <2>3. QED BY <1>1, <1>2, <1>3, <2>1, <2>2, StepKinds

(* A slot's letter and status stay those of its driver's one attempt. *)
LEMMA TellStep == DispatchInv /\ [Next]_vars => SlotsTellTheAttempts'
  <1> SUFFICES ASSUME DispatchInv, [Next]_vars PROVE SlotsTellTheAttempts' OBVIOUS
  <1>0. TypeOK /\ SlotInv /\ AttemptInv /\ SlotsTellTheAttempts BY DEF DispatchInv
  <1>a. SeqLen \in Nat /\ 1..SeqLen \subseteq Slot
    BY <1>0, SeqLenType DEF TypeOK
  <1>1. CASE PromoteHit
    <2> DEFINE g == AprioriFile[scanIdx]
    <2>1. /\ g \in dependent
          /\ \A i \in 1..SeqLen : /\ mP2AprioriGuid'[i] = mP2AprioriGuid[i]
                                  /\ mP2AprioriRes'[i] = mP2AprioriRes[i]
      BY <1>1, PromoteFacts
    <2>2. \/ /\ SeqLen' = SeqLen
          \/ /\ SeqLen' = SeqLen + 1
             /\ mP2AprioriGuid'[SeqLen + 1] = g
             /\ mP2AprioriRes'[SeqLen + 1] = "?"
             /\ SeqLen + 1 \in Slot
      BY <1>1, PromoteFacts
    <2>3. UNCHANGED <<attempts, mP2ApriSt>> BY <1>1 DEF PromoteHit, runVars
    <2>4. \A k \in 1..Len(attempts) : attempts[k].guid # g
      BY <1>0, <2>1 DEF AttemptInv
    <2>5. SeqLen' = SeqLen + 1 => mP2ApriSt[SeqLen + 1] = Success
      BY <1>0, <1>a, <2>2 DEF SlotInv
    <2> HIDE DEF g
    <2>6. CASE SeqLen' = SeqLen
      BY <1>0, <2>1, <2>3, <2>6 DEF SlotsTellTheAttempts
    <2>7. CASE SeqLen' = SeqLen + 1 /\ mP2AprioriGuid'[SeqLen + 1] = g
                 /\ mP2AprioriRes'[SeqLen + 1] = "?"
      <3>1. \A i \in 1..SeqLen' : i \in 1..SeqLen \/ i = SeqLen + 1
        BY <1>a, <2>7
      <3>2. QED
        BY <1>0, <2>1, <2>3, <2>4, <2>5, <2>7, <3>1 DEF SlotsTellTheAttempts
    <2>8. QED BY <2>2, <2>6, <2>7
  <1>2. ASSUME NEW ch \in {"s", "S", "L"}, NEW status \in ErrorStatus \cup {Success},
               AttemptReturns(ch, status)
        PROVE  SlotsTellTheAttempts'
    <2>0. MarkSeq(cur, ch, status) /\ UNCHANGED <<mP2Apriori, mP2AprioriGuid>>
      BY <1>2 DEF AttemptReturns
    <2>1. /\ SeqLen' = SeqLen
          /\ \A i \in 1..SeqLen :
                /\ mP2AprioriGuid[i] = cur =>
                      mP2AprioriRes'[i] = ch /\ mP2ApriSt'[i] = status
                /\ mP2AprioriGuid[i] # cur =>
                      /\ mP2AprioriRes'[i] = mP2AprioriRes[i]
                      /\ mP2ApriSt'[i] = mP2ApriSt[i]
          /\ \A i \in Slot : i > SeqLen => mP2ApriSt'[i] = mP2ApriSt[i]
      BY <2>0, MarkSeqFacts
    <2>2. /\ mP2AprioriGuid' = mP2AprioriGuid
          /\ attempts' = Append(attempts, Entry(cur, ch, status))
      BY <1>2 DEF AttemptReturns
    <2>3. cur \in Driver /\ (Running(cur) \/ Queued(cur))
      BY <1>2, ReturnFacts
    <2>4. Entry(cur, ch, status) \in AttemptType /\ Entry(cur, ch, status).guid = cur
      BY <2>3 DEF Entry, AttemptType
    <2>5. /\ Len(attempts') = Len(attempts) + 1 /\ Len(attempts) \in Nat
          /\ \A k \in 1..Len(attempts) : attempts'[k] = attempts[k]
          /\ attempts'[Len(attempts) + 1] = Entry(cur, ch, status)
      BY <1>0, <2>2, <2>4, AppendFacts DEF TypeOK
    <2>6. \A k \in 1..Len(attempts) : attempts[k].guid # cur
      BY <1>0, <2>3 DEF AttemptInv
    <2>7. \A k \in 1..Len(attempts') : k \in 1..Len(attempts) \/ k = Len(attempts) + 1
      BY <2>5
    <2>8. \A k, m \in 1..Len(attempts') : attempts'[k].guid = attempts'[m].guid => k = m
      BY <1>0, <2>4, <2>5, <2>6, <2>7 DEF SlotsTellTheAttempts
    <2>9. ASSUME NEW i \in 1..SeqLen
          PROVE  IF mP2AprioriRes'[i] = "?"
                   THEN /\ mP2ApriSt'[i] = Success
                        /\ \A k \in 1..Len(attempts') : attempts'[k].guid # mP2AprioriGuid'[i]
                   ELSE \E k \in 1..Len(attempts') :
                          attempts'[k] = Entry(mP2AprioriGuid'[i], mP2AprioriRes'[i],
                                               mP2ApriSt'[i])
      <3>1. CASE mP2AprioriGuid[i] = cur
        <4>1. mP2AprioriRes'[i] = ch /\ mP2ApriSt'[i] = status /\ ch # "?"
          BY <2>1, <3>1
        <4>2. Len(attempts) + 1 \in 1..Len(attempts') BY <2>5
        <4>3. QED BY <2>2, <2>5, <3>1, <4>1, <4>2
      <3>2. CASE mP2AprioriGuid[i] # cur
        <4>1. mP2AprioriRes'[i] = mP2AprioriRes[i] /\ mP2ApriSt'[i] = mP2ApriSt[i]
          BY <2>1, <3>2
        <4>2. CASE mP2AprioriRes[i] = "?"
          BY <1>0, <2>2, <2>4, <2>5, <2>7, <3>2, <4>1, <4>2 DEF SlotsTellTheAttempts
        <4>3. CASE mP2AprioriRes[i] # "?"
          <5>1. PICK k \in 1..Len(attempts) :
                  attempts[k] = Entry(mP2AprioriGuid[i], mP2AprioriRes[i], mP2ApriSt[i])
            BY <1>0, <4>3 DEF SlotsTellTheAttempts
          <5>2. k \in 1..Len(attempts') /\ attempts'[k] = attempts[k] BY <2>5
          <5>3. QED BY <2>2, <4>1, <4>3, <5>1, <5>2
        <4>4. QED BY <4>2, <4>3
      <3>3. QED BY <3>1, <3>2
    <2>10. QED BY <2>1, <2>8, <2>9 DEF SlotsTellTheAttempts
  <1>3. ASSUME UNCHANGED <<mP2Apriori, slotVars, attempts>> PROVE SlotsTellTheAttempts'
    <2>1. SeqLen' = SeqLen BY <1>3 DEF SeqLen
    <2>2. QED BY <1>0, <1>3, <2>1 DEF SlotsTellTheAttempts, slotVars
  <1>4. QED
    <2>1. QuietStep => UNCHANGED <<mP2Apriori, slotVars, attempts>>
      BY QuietFacts
    <2>2. FwVolNotify \/ BeginStart \/ ScheduleReady
             => UNCHANGED <<mP2Apriori, slotVars, attempts>>
      BY DEF FwVolNotify, BeginStart, ScheduleReady, runVars
    <2>3. QED BY <1>1, <1>2, <1>3, <2>1, <2>2, StepKinds

-----------------------------------------------------------------------------
(* The slots behind a pending one are pending, so an attempt that returns  *)
(* is later than those of the slots before it, and the first behind it.    *)
LEMMA OrderStep == DispatchInv /\ [Next]_vars => OrderInv'
  <1> SUFFICES ASSUME DispatchInv, [Next]_vars PROVE OrderInv' OBVIOUS
  <1>0. TypeOK /\ SlotInv /\ AttemptInv /\ OrderInv /\ SeqIsAPrefix /\ SlotsTellTheAttempts
    BY DEF DispatchInv
  <1>a. SeqLen \in Nat BY <1>0, SeqLenType DEF TypeOK
  <1>1. CASE PromoteHit
    <2> DEFINE g == AprioriFile[scanIdx]
    <2>1. /\ g \in dependent
          /\ \A i \in 1..SeqLen : mP2AprioriGuid'[i] = mP2AprioriGuid[i]
          /\ \/ SeqLen' = SeqLen
             \/ SeqLen' = SeqLen + 1 /\ mP2AprioriGuid'[SeqLen + 1] = g
      BY <1>1, PromoteFacts
    <2>2. attempts' = attempts BY <1>1 DEF PromoteHit, runVars
    <2>3. \A k \in 1..Len(attempts) : attempts[k].guid # g
      BY <1>0, <2>1 DEF AttemptInv
    <2> HIDE DEF g
    <2>4. \A i \in 1..SeqLen' : i \in 1..SeqLen \/ mP2AprioriGuid'[i] = g
      BY <1>a, <2>1
    <2>5. QED BY <1>0, <2>1, <2>2, <2>3, <2>4 DEF OrderInv
  <1>2. ASSUME NEW ch \in {"s", "S", "L"}, NEW status \in ErrorStatus \cup {Success},
               AttemptReturns(ch, status)
        PROVE  OrderInv'
    <2>1. /\ UNCHANGED <<mP2Apriori, mP2AprioriGuid>>
          /\ attempts' = Append(attempts, Entry(cur, ch, status))
      BY <1>2 DEF AttemptReturns
    <2>2. SeqLen' = SeqLen BY <2>1 DEF SeqLen
    <2>3. cur \in Driver /\ (Running(cur) \/ Queued(cur))
      BY <1>2, ReturnFacts
    <2>4. Entry(cur, ch, status) \in AttemptType /\ Entry(cur, ch, status).guid = cur
      BY <2>3 DEF Entry, AttemptType
    <2>5. /\ Len(attempts') = Len(attempts) + 1 /\ Len(attempts) \in Nat
          /\ \A k \in 1..Len(attempts) : attempts'[k] = attempts[k]
          /\ attempts'[Len(attempts) + 1].guid = cur
      BY <1>0, <2>1, <2>4, AppendFacts DEF TypeOK
    <2>6. \A k \in 1..Len(attempts) : attempts[k].guid # cur
      BY <1>0, <2>3 DEF AttemptInv
    <2>7. ASSUME NEW i \in 1..SeqLen, NEW j \in 1..SeqLen, i < j, mP2AprioriGuid[i] = cur,
                 NEW m \in 1..Len(attempts)
          PROVE  attempts[m].guid # mP2AprioriGuid[j]
      <3>1. mP2AprioriRes[i] = "?" BY <1>0, <2>3, <2>7 DEF SlotInv
      <3>2. mP2AprioriRes[j] = "?" BY <1>0, <2>7, <3>1 DEF SeqIsAPrefix
      <3>3. QED BY <1>0, <3>2 DEF SlotsTellTheAttempts
    <2>8. ASSUME NEW i \in 1..SeqLen, NEW j \in 1..SeqLen, i < j,
                 NEW k \in 1..Len(attempts'), NEW m \in 1..Len(attempts'),
                 attempts'[k].guid = mP2AprioriGuid[i], attempts'[m].guid = mP2AprioriGuid[j]
          PROVE  k < m
      <3>1. (k \in 1..Len(attempts) \/ k = Len(attempts) + 1)
              /\ (m \in 1..Len(attempts) \/ m = Len(attempts) + 1)
        BY <2>5
      <3>2. CASE k \in 1..Len(attempts) /\ m \in 1..Len(attempts)
        BY <1>0, <2>5, <2>8, <3>2 DEF OrderInv
      <3>3. CASE k \in 1..Len(attempts) /\ m = Len(attempts) + 1
        BY <2>5, <3>3
      <3>4. CASE k = Len(attempts) + 1
        <4>1. mP2AprioriGuid[i] = cur BY <2>5, <2>8, <3>4
        <4>2. mP2AprioriGuid[j] # cur BY <1>0, <2>8, <4>1 DEF SlotInv
        <4>3. m \in 1..Len(attempts) BY <2>5, <2>8, <3>1, <4>2
        <4>4. QED BY <2>5, <2>7, <2>8, <4>1, <4>3
      <3>5. QED BY <3>1, <3>2, <3>3, <3>4
    <2>9. QED BY <2>1, <2>2, <2>8 DEF OrderInv
  <1>3. ASSUME UNCHANGED <<mP2Apriori, mP2AprioriGuid, attempts>> PROVE OrderInv'
    <2>1. SeqLen' = SeqLen BY <1>3 DEF SeqLen
    <2>2. QED BY <1>0, <1>3, <2>1 DEF OrderInv
  <1>4. QED
    <2>1. QuietStep => UNCHANGED <<mP2Apriori, mP2AprioriGuid, attempts>>
      BY QuietFacts DEF slotVars
    <2>2. FwVolNotify \/ BeginStart \/ ScheduleReady
             => UNCHANGED <<mP2Apriori, mP2AprioriGuid, attempts>>
      BY DEF FwVolNotify, BeginStart, ScheduleReady, runVars, slotVars
    <2>3. QED BY <1>1, <1>2, <1>3, <2>1, <2>2, StepKinds

-----------------------------------------------------------------------------
(* How the records and the counters follow an attempt that returned. *)
Counted(ch, status) ==
    /\ attempts' = Append(attempts, Entry(cur, ch, status))
    /\ mP2Tick' = mP2Tick + 1
    /\ ch = "s" <=> status = Success
    /\ mP2Started' = IF ch = "s" THEN mP2Started + 1 ELSE mP2Started
    /\ mP2Diag' = IF ch # "s" /\ Len(mP2Diag) < DiagMax
                    THEN Append(mP2Diag, Entry(cur, ch, status)) ELSE mP2Diag
    /\ cur \in Driver

(* The steps that return are counted so. *)
LEMMA CountedSteps ==
    ASSUME DispatchInv, [Next]_vars
    PROVE  \/ UNCHANGED <<attempts, mP2Diag, mP2Tick, mP2Started>>
           \/ \E ch \in {"s", "S", "L"}, status \in ErrorStatus \cup {Success} :
                 Counted(ch, status)
  <1>1. phase \in {"loading", "starting"} => cur \in Driver
    BY DEF DispatchInv, TypeOK, QueueInv
  <1>2. StartSucceeds => Counted("s", Success)
    BY <1>1 DEF StartSucceeds, Counted, Tick
  <1>3. ASSUME NEW status \in ErrorStatus
        PROVE  /\ LoadFails(status) => Counted("L", status)
               /\ StartFails(status) => Counted("S", status)
    BY <1>1, <1>3, GuidAssumption DEF LoadFails, StartFails, Counted, Record, Tick
  <1>4. FwVolNotify \/ BeginStart \/ ScheduleReady \/ QuietStep \/ PromoteHit
           => UNCHANGED <<attempts, mP2Diag, mP2Tick, mP2Started>>
    BY DEF FwVolNotify, BeginStart, ScheduleReady, QuietStep, PromoteHit, PromoteMiss, PromoteEnd,
           Dispatch, BeginLoad, StartHangs, Finish, vars, runVars
  <1>5. QED
    BY <1>2, <1>3, <1>4 DEF Next, Step, Halted, QuietStep

(* The failures are finitely many, and the last one has the last place. *)
LEMMA FailureFacts ==
    ASSUME TypeOK
    PROVE  /\ IsFiniteSet(Failures) /\ Cardinality(Failures) \in Nat
           /\ \A k \in Failures : Place(k) \in 1..Cardinality(Failures)
  <1>1. Len(attempts) \in Nat BY DEF TypeOK
  <1>2. Failures \in SUBSET (1..Len(attempts)) BY DEF Failures
  <1>3. IsFiniteSet(Failures)
    <2>1. IsFiniteSet(1..Len(attempts)) BY <1>1, FS_Interval
    <2>2. QED BY <1>2, <2>1, FS_Subset
  <1>4. ASSUME NEW k \in Failures PROVE Place(k) \in 1..Cardinality(Failures)
    <2> DEFINE upTo == {l \in Failures : l <= k}
    <2>1. k \in upTo BY <1>1, <1>2
    <2>2. IsFiniteSet(upTo) /\ Cardinality(upTo) <= Cardinality(Failures)
      BY <1>3, FS_Subset
    <2>3. Cardinality(upTo) # 0 BY <2>1, <2>2, FS_EmptySet
    <2>4. QED BY <1>3, <2>2, <2>3, FS_CardinalityType DEF Place
  <1>5. QED BY <1>3, <1>4, FS_CardinalityType

(* A failure is recorded in its place while there is room. *)
LEMMA RecordStep == DispatchInv /\ [Next]_vars => RecordInv'
  <1> SUFFICES ASSUME DispatchInv, [Next]_vars PROVE RecordInv' OBVIOUS
  <1>0. TypeOK /\ RecordInv BY DEF DispatchInv
  <1>a. /\ Len(attempts) \in Nat /\ Len(mP2Diag) \in Nat /\ DiagMax \in Nat \ {0}
        /\ mP2Tick \in Nat /\ mP2Started \in Nat
    BY <1>0, GuidAssumption DEF TypeOK
  <1>b. /\ IsFiniteSet(Failures) /\ Cardinality(Failures) \in Nat
        /\ \A k \in Failures : Place(k) \in 1..Cardinality(Failures) /\ k \in 1..Len(attempts)
    BY <1>0, FailureFacts DEF Failures
  <1>1. ASSUME UNCHANGED <<attempts, mP2Diag, mP2Tick, mP2Started>> PROVE RecordInv'
    BY <1>0, <1>1 DEF RecordInv, Failures, Place
  <1>2. ASSUME NEW ch \in {"s", "S", "L"}, NEW status \in ErrorStatus \cup {Success},
               Counted(ch, status)
        PROVE  RecordInv'
    <2> DEFINE n == Len(attempts) + 1
               e == Entry(cur, ch, status)
    <2>1. /\ e \in AttemptType /\ e.phase = ch /\ e.status = status
          /\ ch = "s" <=> status = Success
      BY <1>2 DEF Counted, Entry, AttemptType
    <2>2. /\ Len(attempts') = n
          /\ \A k \in 1..Len(attempts) : attempts'[k] = attempts[k]
          /\ attempts'[n] = e
      BY <1>0, <1>2, <2>1, AppendFacts DEF Counted, TypeOK
    <2> HIDE DEF e
    <2>3. \A k \in 1..Len(attempts') : k \in 1..Len(attempts) \/ k = n
      BY <1>a, <2>2
    <2>4. \A k \in 1..Len(attempts') : attempts'[k].phase = "s" <=> attempts'[k].status = Success
      BY <1>0, <2>1, <2>2, <2>3 DEF RecordInv
    <2>5. CASE status = Success
      <3>1. Failures' = Failures
        BY <1>a, <2>1, <2>2, <2>3, <2>5 DEF Failures
      <3>2. \A k : Place(k)' = Place(k)
        BY <3>1 DEF Place
      <3>3. mP2Diag' = mP2Diag /\ mP2Started' = mP2Started + 1 /\ mP2Tick' = mP2Tick + 1
        BY <1>2, <2>5 DEF Counted
      <3>4. \A k \in Failures' : Place(k)' <= DiagMax => mP2Diag'[Place(k)'] = attempts'[k]
        BY <1>0, <1>b, <2>2, <3>1, <3>2, <3>3 DEF RecordInv
      <3>5. /\ Len(mP2Diag') = IF Cardinality(Failures') > DiagMax THEN DiagMax
                                                                   ELSE Cardinality(Failures')
            /\ mP2Tick' = mP2Started' + Cardinality(Failures')
        BY <1>0, <1>a, <1>b, <3>1, <3>3 DEF RecordInv
      <3>6. QED BY <2>4, <3>4, <3>5 DEF RecordInv
    <2>6. CASE status # Success
      <3>1. Failures' = Failures \cup {n}
        BY <1>a, <2>1, <2>2, <2>3, <2>6 DEF Failures
      <3>2. n \notin Failures
        BY <1>a, <1>b
      <3>3. Cardinality(Failures') = Cardinality(Failures) + 1
        BY <1>b, <3>1, <3>2, FS_AddElement
      <3>4. \A k \in Failures : Place(k)' = Place(k)
        <4>1. \A k \in Failures : ~(n <= k)
          BY <1>a, <1>b
        <4>2. \A k \in Failures : {l \in Failures' : l <= k} = {l \in Failures : l <= k}
          BY <3>1, <4>1
        <4>3. QED BY <4>2 DEF Place
      <3>5. ASSUME NEW k, k = n PROVE Place(k)' = Cardinality(Failures) + 1
        <4>1. \A l \in Failures' : l <= k
          BY <1>a, <1>b, <3>1, <3>5
        <4>2. {l \in Failures' : l <= k} = Failures'
          BY <4>1
        <4>3. QED BY <3>3, <4>2 DEF Place
      <3>6. /\ mP2Diag' = IF Len(mP2Diag) < DiagMax THEN Append(mP2Diag, e) ELSE mP2Diag
            /\ mP2Started' = mP2Started /\ mP2Tick' = mP2Tick + 1
        BY <1>2, <2>1, <2>6 DEF Counted, e
      <3>7. /\ Len(mP2Diag') = IF Len(mP2Diag) < DiagMax THEN Len(mP2Diag) + 1 ELSE Len(mP2Diag)
            /\ \A p \in 1..Len(mP2Diag) : mP2Diag'[p] = mP2Diag[p]
            /\ Len(mP2Diag) < DiagMax => mP2Diag'[Len(mP2Diag) + 1] = e
        BY <1>0, <2>1, <3>6, AppendFacts DEF TypeOK
      <3>8. Len(mP2Diag) = IF Cardinality(Failures) > DiagMax THEN DiagMax
                                                              ELSE Cardinality(Failures)
        BY <1>0 DEF RecordInv
      <3>9. ASSUME NEW k \in Failures', Place(k)' <= DiagMax
            PROVE  mP2Diag'[Place(k)'] = attempts'[k]
        <4>1. CASE k \in Failures
          <5>1. Place(k) <= DiagMax /\ Place(k) \in 1..Len(mP2Diag)
            BY <1>a, <1>b, <3>4, <3>8, <3>9, <4>1
          <5>2. QED BY <1>0, <1>b, <2>2, <3>4, <3>7, <4>1, <5>1 DEF RecordInv
        <4>2. CASE k = n
          <5>1. Place(k)' = Cardinality(Failures) + 1 BY <3>5, <4>2
          <5>2. Cardinality(Failures) = Len(mP2Diag) /\ Len(mP2Diag) < DiagMax
            BY <1>a, <1>b, <3>8, <3>9, <5>1
          <5>3. QED BY <2>2, <3>7, <4>2, <5>1, <5>2
        <4>3. QED BY <3>1, <4>1, <4>2
      <3>10. /\ Len(mP2Diag') = IF Cardinality(Failures') > DiagMax THEN DiagMax
                                                                    ELSE Cardinality(Failures')
             /\ mP2Tick' = mP2Started' + Cardinality(Failures')
        <4>1. mP2Tick = mP2Started + Cardinality(Failures) BY <1>0 DEF RecordInv
        <4>2. mP2Tick' = mP2Started' + Cardinality(Failures')
          BY <1>a, <1>b, <3>3, <3>6, <4>1
        <4>3. Len(mP2Diag') = IF Cardinality(Failures) + 1 > DiagMax THEN DiagMax
                                                                    ELSE Cardinality(Failures) + 1
          BY <1>a, <1>b, <3>7, <3>8
        <4>4. QED BY <3>3, <4>2, <4>3
      <3>11. QED BY <2>4, <3>9, <3>10 DEF RecordInv
    <2>7. QED BY <2>5, <2>6
  <1>3. QED BY <1>1, <1>2, CountedSteps

-----------------------------------------------------------------------------
(* DispatchInv holds in every state of every run. *)
THEOREM DispatchInvariant == Spec => []DispatchInv
  <1>1. Init => DispatchInv BY InitInv
  <1>2. DispatchInv /\ [Next]_vars => DispatchInv'
    BY TypeStep, VolumeStep, ScanStep, QueueStep, SlotStep, AttemptStep, PrefixStep, TellStep,
       OrderStep, RecordStep
    DEF DispatchInv
  <1>3. QED BY <1>1, <1>2, PTL DEF Spec

(* Every variable of the dispatcher and of its instrumentation keeps its   *)
(* type, for any volumes and any sizes of the arrays.                      *)
THEOREM TypeCorrect == Spec => []TypeOK
  <1>1. DispatchInv => TypeOK BY DEF DispatchInv
  <1>2. QED BY <1>1, DispatchInvariant, PTL

(* The SEQ line can be read as a prefix: behind a '?' there are only '?'s. *)
THEOREM SeqReading == Spec => []SeqIsAPrefix
  <1>1. DispatchInv => SeqIsAPrefix BY DEF DispatchInv
  <1>2. QED BY <1>1, DispatchInvariant, PTL

(* A slot's letter and status are those of its driver's only attempt. *)
THEOREM SlotReading == Spec => []SlotsTellTheAttempts
  <1>1. DispatchInv => SlotsTellTheAttempts BY DEF DispatchInv
  <1>2. QED BY <1>1, DispatchInvariant, PTL

(* entries = apriori + unhit once the promotion loop is over. *)
THEOREM Checksum == Spec => []UnhitChecksum
  <1>1. DispatchInv => UnhitChecksum
    BY DEF DispatchInv, TypeOK, ScanInv, UnhitChecksum
  <1>2. QED BY <1>1, DispatchInvariant, PTL

(* The least slot of a set of slots that is not empty is the one KEY names. *)
LEMMA KeyIsLeast ==
    ASSUME TypeOK, FailedSlots # {}
    PROVE  KeyAt \in FailedSlots /\ \A j \in FailedSlots : KeyAt <= j
  <1>1. SeqLen \in Nat BY SeqLenType DEF TypeOK
  <1>2. FailedSlots \subseteq 1..SeqLen BY DEF FailedSlots
  <1>3. \E i \in FailedSlots : \A j \in FailedSlots : i <= j
    <2>1. FailedSlots \in SUBSET Nat BY <1>1, <1>2
    <2>2. QED BY <2>1, LeastOfNaturals
  <1>4. QED BY <1>3 DEF KeyAt

(* KEY's `at` is the promoted driver that failed first: every other one    *)
(* that failed was attempted after it.                                     *)
THEOREM KeyReading == Spec => []KeyNamesTheFirstFailure
  <1>1. DispatchInv => KeyNamesTheFirstFailure
    <2> SUFFICES ASSUME DispatchInv, NEW k \in 1..Len(attempts), NEW m \in 1..Len(attempts),
                        NEW j \in FailedSlots,
                        attempts[k].guid = mP2AprioriGuid[j],
                        attempts[m].guid = mP2AprioriGuid[KeyAt]
                 PROVE  m <= k
      BY DEF KeyNamesTheFirstFailure
    <2>1. TypeOK /\ OrderInv /\ SlotsTellTheAttempts BY DEF DispatchInv
    <2>2. KeyAt \in FailedSlots /\ KeyAt <= j BY <2>1, KeyIsLeast
    <2>3. SeqLen \in Nat /\ KeyAt \in 1..SeqLen /\ j \in 1..SeqLen
      BY <2>1, <2>2, SeqLenType DEF FailedSlots, TypeOK
    <2>4. CASE KeyAt = j
      BY <2>1, <2>4 DEF SlotsTellTheAttempts
    <2>5. CASE KeyAt < j
      <3>1. m < k BY <2>1, <2>3, <2>5 DEF OrderInv
      <3>2. QED BY <3>1
    <2>6. QED BY <2>2, <2>3, <2>4, <2>5
  <1>2. QED BY <1>1, DispatchInvariant, PTL

(* Once the digest is printed no slot is pending, and the letters tell the *)
(* failures from the starts.                                               *)
LEMMA DoneFacts ==
    ASSUME DispatchInv, phase = "done", NEW i \in 1..SeqLen
    PROVE  mP2AprioriRes[i] # "?" /\ (mP2ApriSt[i] = Success <=> mP2AprioriRes[i] = "s")
<1>1. QueueInv /\ SlotInv /\ RecordInv /\ SlotsTellTheAttempts
  BY DEF DispatchInv
<1>2. mP2AprioriRes[i] # "?"
  <2>1. mScheduledQueue = <<>>
    BY <1>1 DEF QueueInv
  <2>2. ~Queued(mP2AprioriGuid[i]) /\ ~Running(mP2AprioriGuid[i])
    BY <2>1 DEF Queued, Running
  <2> QED BY <1>1, <2>2 DEF SlotInv
<1>3. PICK k \in 1..Len(attempts) :
          attempts[k] = Entry(mP2AprioriGuid[i], mP2AprioriRes[i], mP2ApriSt[i])
  BY <1>1, <1>2 DEF SlotsTellTheAttempts
<1>4. attempts[k].phase = mP2AprioriRes[i] /\ attempts[k].status = mP2ApriSt[i]
  BY <1>3 DEF Entry
<1> QED BY <1>1, <1>2, <1>4 DEF RecordInv

(* The digest leaves nothing out: no promoted driver is pending when it is *)
(* printed, KEY 0 means that all of them started, the records are the      *)
(* first DiagMax failures in order, and the counters add up.               *)
THEOREM DigestReading == Spec => []DigestIsComplete
  <1>1. DispatchInv => DigestIsComplete
    <2> SUFFICES ASSUME DispatchInv, phase = "done" PROVE DigestIsComplete
      BY DEF DigestIsComplete
    <2>1. TypeOK /\ QueueInv /\ SlotInv /\ RecordInv /\ SlotsTellTheAttempts BY DEF DispatchInv
    <2>2. \A i \in 1..SeqLen : mP2AprioriRes[i] # "?"
      BY DoneFacts
    <2>3. \A i \in 1..SeqLen : mP2ApriSt[i] = Success <=> mP2AprioriRes[i] = "s"
      BY DoneFacts
    <2>4. KeyErrors = 0 <=> \A i \in 1..SeqLen : mP2AprioriRes[i] = "s"
      <3>1. SeqLen \in Nat BY <2>1, SeqLenType DEF TypeOK
      <3>2. IsFiniteSet(FailedSlots)
        <4>1. IsFiniteSet(1..SeqLen) BY <3>1, FS_Interval
        <4>2. FailedSlots \in SUBSET (1..SeqLen) BY DEF FailedSlots
        <4>3. QED BY <4>1, <4>2, FS_Subset
      <3>3. KeyErrors = 0 <=> FailedSlots = {}
        BY <3>2, FS_EmptySet DEF KeyErrors
      <3>4. QED BY <2>3, <3>3 DEF FailedSlots
    <2>5. \A k \in Failures : Place(k) <= DiagMax => mP2Diag[Place(k)] = attempts[k]
      BY <2>1 DEF RecordInv
    <2>6. Cardinality(Failures) \in Nat /\ DiagMax \in Nat /\ \A k \in Failures : Place(k) \in Nat
      BY <2>1, FailureFacts, GuidAssumption
    <2>7. QED BY <2>1, <2>2, <2>4, <2>5, <2>6 DEF DigestIsComplete, RecordInv
  <1>2. QED BY <1>1, DispatchInvariant, PTL

-----------------------------------------------------------------------------
(* The SEQ line as a sequence of letters. *)
LEMMA LettersFacts ==
    ASSUME TypeOK
    PROVE  /\ SeqLetters \in Seq(Letters) /\ Len(SeqLetters) = SeqLen
           /\ SeqLen \in Nat /\ SeqLen <= AprioriMax
           /\ \A i \in 1..SeqLen : SeqLetters[i] = mP2AprioriRes[i]
  <1>1. SeqLen \in Nat /\ SeqLen <= AprioriMax /\ 1..SeqLen \subseteq Slot
    BY SeqLenType DEF TypeOK
  <1>2. SeqLetters \in [1..SeqLen -> Letters]
    BY <1>1 DEF SeqLetters, TypeOK, Letters
  <1>3. QED BY <1>1, <1>2 DEF SeqLetters

(* A step of the dispatcher is a step of the reader's contract, or none. *)
LEMMA ContractStep ==
    ASSUME DispatchInv, DispatchInv', [Next]_vars
    PROVE  [SeqContract!Next]_SeqLetters
  <1>0. TypeOK /\ QueueInv /\ SlotInv /\ SeqIsAPrefix BY DEF DispatchInv
  <1>a. /\ SeqLetters \in Seq(Letters) /\ Len(SeqLetters) = SeqLen
        /\ SeqLen \in Nat /\ SeqLen <= AprioriMax
        /\ \A i \in 1..SeqLen : SeqLetters[i] = mP2AprioriRes[i]
    BY <1>0, LettersFacts
  <1>b. SeqLetters' = [i \in 1..SeqLen' |-> mP2AprioriRes'[i]]
    BY DEF SeqLetters
  <1>1. CASE PromoteHit
    <2>1. \A i \in 1..SeqLen : mP2AprioriRes'[i] = mP2AprioriRes[i]
      BY <1>1, PromoteFacts
    <2>2. \/ SeqLen' = SeqLen
          \/ /\ SeqLen' = SeqLen + 1
             /\ mP2AprioriRes'[SeqLen + 1] = "?"
             /\ SeqLen + 1 \in Slot
      BY <1>1, PromoteFacts
    <2>3. CASE SeqLen' = SeqLen
      <3>1. SeqLetters' = SeqLetters BY <1>b, <2>1, <2>3 DEF SeqLetters
      <3>2. QED BY <3>1
    <2>4. CASE SeqLen' = SeqLen + 1 /\ mP2AprioriRes'[SeqLen + 1] = "?" /\ SeqLen + 1 \in Slot
      <3>1. /\ Append(SeqLetters, "?") \in Seq(Letters)
            /\ Len(Append(SeqLetters, "?")) = SeqLen + 1
            /\ \A i \in 1..SeqLen : Append(SeqLetters, "?")[i] = SeqLetters[i]
            /\ Append(SeqLetters, "?")[SeqLen + 1] = "?"
        BY <1>a, AppendFacts DEF Letters
      <3>2. \A i \in 1..(SeqLen + 1) : i \in 1..SeqLen \/ i = SeqLen + 1
        BY <1>a
      <3>3. \A i \in 1..(SeqLen + 1) : mP2AprioriRes'[i] = Append(SeqLetters, "?")[i]
        BY <1>a, <2>1, <2>4, <3>1, <3>2
      <3>4. SeqLetters' = Append(SeqLetters, "?")
        <4>1. Append(SeqLetters, "?") = [i \in 1..(SeqLen + 1) |-> Append(SeqLetters, "?")[i]]
          BY <3>1, SeqAsFunction
        <4>2. QED BY <1>b, <2>4, <3>3, <4>1
      <3>5. Len(SeqLetters) < AprioriMax
        BY <1>a, <2>4, GuidAssumption DEF Slot
      <3>6. QED
        BY <3>4, <3>5 DEF SeqContract!Next, SeqContract!Promote, SeqContract!Pending
    <2>5. QED BY <2>2, <2>3, <2>4
  <1>2. ASSUME NEW ch \in {"s", "S", "L"}, NEW status \in ErrorStatus \cup {Success},
               AttemptReturns(ch, status)
        PROVE  [SeqContract!Next]_SeqLetters
    <2>0. MarkSeq(cur, ch, status) /\ UNCHANGED <<mP2Apriori, mP2AprioriGuid>>
      BY <1>2 DEF AttemptReturns
    <2>1. /\ SeqLen' = SeqLen
          /\ \A i \in 1..SeqLen :
                /\ mP2AprioriGuid[i] = cur => mP2AprioriRes'[i] = ch
                /\ mP2AprioriGuid[i] # cur => mP2AprioriRes'[i] = mP2AprioriRes[i]
      BY <2>0, MarkSeqFacts
    <2>2. CASE \A i \in 1..SeqLen : mP2AprioriGuid[i] # cur
      <3>1. SeqLetters' = SeqLetters BY <1>b, <2>1, <2>2 DEF SeqLetters
      <3>2. QED BY <3>1
    <2>3. ASSUME NEW i \in 1..SeqLen, mP2AprioriGuid[i] = cur
          PROVE  [SeqContract!Next]_SeqLetters
      <3>1. SeqLetters[i] = "?"
        BY <1>0, <1>2, <1>a, <2>3, ReturnFacts DEF SlotInv
      <3>2. \A j \in 1..SeqLen : j # i => mP2AprioriGuid[j] # cur
        BY <1>0, <2>3 DEF SlotInv
      <3>3. SeqLetters' = [SeqLetters EXCEPT ![i] = ch]
        BY <1>a, <1>b, <2>1, <2>3, <3>2 DEF SeqLetters
      <3>4. \A j \in 1..(i - 1) : SeqLetters[j] # "?"
        <4> SUFFICES ASSUME NEW j \in 1..(i - 1), mP2AprioriRes[j] = "?" PROVE FALSE
          BY <1>a
        <4>1. j \in 1..SeqLen /\ j < i BY <1>a
        <4>2. mP2AprioriRes'[j] = "?" BY <2>1, <3>2, <4>1
        <4>3. mP2AprioriRes'[i] = "?"
          BY <2>1, <4>1, <4>2 DEF DispatchInv, SeqIsAPrefix
        <4>4. QED BY <2>1, <2>3, <4>3
      <3>5. i \in 1..Len(SeqLetters) BY <1>a
      <3>6. QED
        BY <3>1, <3>3, <3>4, <3>5
        DEF SeqContract!Next, SeqContract!Resolve, SeqContract!Resolved, SeqContract!Pending
    <2>4. QED BY <2>2, <2>3
  <1>3. ASSUME UNCHANGED <<mP2Apriori, mP2AprioriRes>> PROVE [SeqContract!Next]_SeqLetters
    <2>1. SeqLen' = SeqLen BY <1>3 DEF SeqLen
    <2>2. SeqLetters' = SeqLetters BY <1>3, <1>b, <2>1 DEF SeqLetters
    <2>3. QED BY <2>2
  <1>4. QED
    <2>1. QuietStep => UNCHANGED <<mP2Apriori, mP2AprioriRes>>
      BY QuietFacts DEF slotVars
    <2>2. FwVolNotify \/ BeginStart \/ ScheduleReady => UNCHANGED <<mP2Apriori, mP2AprioriRes>>
      BY DEF FwVolNotify, BeginStart, ScheduleReady, slotVars
    <2>3. QED BY <1>1, <1>2, <1>3, <2>1, <2>2, StepKinds

(* The dispatcher implements the reader's contract of the SEQ line: it     *)
(* only grows at its end, and only its leftmost '?' is ever resolved.      *)
THEOREM ContractKept == Spec => KeepsSeqContract
  <1>1. Init => SeqContract!Init
    <2> SUFFICES ASSUME Init PROVE SeqLetters = <<>> BY DEF SeqContract!Init
    <2>1. SeqLen = 0 BY GuidAssumption DEF Init, SeqLen
    <2>2. QED BY <2>1 DEF SeqLetters
  <1>2. DispatchInv /\ DispatchInv' /\ [Next]_vars => [SeqContract!Next]_SeqLetters
    BY ContractStep
  <1>3. QED
    BY <1>1, <1>2, DispatchInvariant, PTL
    DEF Spec, KeepsSeqContract, SeqContract!Spec

-----------------------------------------------------------------------------
(* The drivers of an image, in the order of its files. *)
DriverFiles(img) == {k \in 1..Len(img.files) : img.files[k].type = DRIVER}

(* An image's two lists, and that a driver's name is its own. *)
LEMMA ImageFacts ==
    ASSUME NEW img \in Images
    PROVE  /\ Len(img.files) \in Nat /\ img.files \in [1..Len(img.files) -> ImageFile]
           /\ Len(img.apriori) \in Nat /\ img.apriori \in [1..Len(img.apriori) -> Guid]
           /\ \A i, j \in 1..Len(img.files) :
                 (img.files[i].type = DRIVER /\ img.files[j].guid = img.files[i].guid) => i = j
<1>1. img.files \in Seq(ImageFile) /\ img.apriori \in Seq(Guid)
  BY ImageAssumption
<1>2. DOMAIN img.files = 1..Len(img.files) /\ DOMAIN img.apriori = 1..Len(img.apriori)
  BY <1>1, LenProperties
<1>3. /\ Len(img.files) \in Nat /\ img.files \in [1..Len(img.files) -> ImageFile]
      /\ Len(img.apriori) \in Nat /\ img.apriori \in [1..Len(img.apriori) -> Guid]
  BY <1>1, LenProperties
<1>4. \A i, j \in DOMAIN img.files :
          (img.files[i].type = DRIVER /\ img.files[j].guid = img.files[i].guid) => i = j
  BY ImageAssumption
<1> QED BY <1>2, <1>3, <1>4

(* They are what the tools' fold over the files picks. *)
LEMMA DriversArePicked ==
    ASSUME NEW img \in Images
    PROVE  Picked(Drivers(img), ImageFile, DriverFiles(img), img.files, Len(img.files))
<1> DEFINE s == img.files
           n == Len(s)
           T == DriverFiles(img)
           P(it) == it = [u \in SUBSET DOMAIN s |->
                            IF u = {} THEN <<>>
                            ELSE IF s[Max(u)].type = DRIVER THEN Append(it[u \ {Max(u)}], s[Max(u)])
                                 ELSE it[u \ {Max(u)}]]
<1>1. n \in Nat /\ DOMAIN s = 1..n /\ s \in [1..n -> ImageFile]
  BY ImageFacts
<1>2. Drivers(img) = (CHOOSE it : P(it))[DOMAIN s]
  BY ONLY Zenon DEF Drivers, FoldLeft, MapThenFoldSet
<1>3a. \A k \in 1..n : k \in T <=> s[k].type = DRIVER
  BY DEF DriverFiles
<1> HIDE DEF n, T, s
<1>3. ASSUME NEW u \in SUBSET (1..n), u # {} PROVE Max(u) \in T <=> s[Max(u)].type = DRIVER
  BY <1>1, <1>3, <1>3a, MaxOf
<1>4. ASSUME NEW it PROVE P(it) <=> PickRule(it, n, T, s)
  <2>1. \A u \in SUBSET (1..n) :
          (IF u = {} THEN <<>> ELSE IF s[Max(u)].type = DRIVER THEN Append(it[u \ {Max(u)}], s[Max(u)])
                                    ELSE it[u \ {Max(u)}])
          = (IF u = {} THEN <<>> ELSE IF Max(u) \in T THEN Append(it[u \ {Max(u)}], s[Max(u)])
                                      ELSE it[u \ {Max(u)}])
    BY <1>3
  <2> QED BY <1>1, <2>1 DEF PickRule
<1> DEFINE it == CHOOSE it : P(it)
<1>5. PickRule(it, n, T, s)
  <2>2. \E f : PickRule(f, n, T, s)
    BY <1>1, PickGraph
  <2>3. \E f : P(f)
    BY <1>4, <2>2
  <2> HIDE DEF P
  <2>4. P(it)
    BY <2>3
  <2> QED BY <1>4, <2>4
<1> HIDE DEF it
<1>7. Picked(it[1..n], ImageFile, T, s, n)
  BY <1>1, <1>5, PickFacts
<1> QED BY <1>1, <1>2, <1>7, Zenon DEF T, n, s, it

(* The entries of an image's Apriori file that a walk hit. *)
HitsOf(img, seen) == {k \in 1..Len(img.apriori) : MatchedBy(img, img.apriori[k], seen)}
BatchAt(img) == [k \in 1..Len(img.apriori) |-> k - 1]

(* The batch apriori-prefix.py predicts is those entries, in their order. *)
LEMMA BatchIsPicked ==
    ASSUME NEW img \in Images, NEW seen
    PROVE  Picked(Batch(img, seen), Nat, HitsOf(img, seen), BatchAt(img), Len(img.apriori))
<1> DEFINE s == BatchAt(img)
           n == Len(img.apriori)
           T == HitsOf(img, seen)
           P(it) == it = [u \in SUBSET DOMAIN s |->
                            IF u = {} THEN <<>>
                            ELSE IF MatchedBy(img, EntryAt(img, s[Max(u)]), seen)
                                 THEN Append(it[u \ {Max(u)}], s[Max(u)]) ELSE it[u \ {Max(u)}]]
<1>1. n \in Nat /\ DOMAIN s = 1..n /\ s \in [1..n -> Nat]
  BY ImageFacts DEF BatchAt
<1>2. Batch(img, seen) = (CHOOSE it : P(it))[DOMAIN s]
  BY ONLY Zenon DEF Batch, BatchAt, FoldLeft, MapThenFoldSet
<1>3a. \A k \in 1..n : k \in T <=> MatchedBy(img, EntryAt(img, s[k]), seen)
  <2>1. \A k \in 1..n : s[k] = k - 1 /\ (k - 1) + 1 = k
    BY <1>1 DEF BatchAt
  <2>2. \A k \in 1..n : EntryAt(img, s[k]) = img.apriori[k]
    BY <2>1 DEF EntryAt
  <2> QED BY <2>2 DEF HitsOf
<1> HIDE DEF n, T, s
<1>3. ASSUME NEW u \in SUBSET (1..n), u # {}
      PROVE  Max(u) \in T <=> MatchedBy(img, EntryAt(img, s[Max(u)]), seen)
  <2>1. Max(u) \in 1..n
    BY <1>1, <1>3, MaxOf
  <2> QED BY <1>3a, <2>1
<1>4. ASSUME NEW it PROVE P(it) <=> PickRule(it, n, T, s)
  <2>1. \A u \in SUBSET (1..n) :
          (IF u = {} THEN <<>> ELSE IF MatchedBy(img, EntryAt(img, s[Max(u)]), seen)
                                    THEN Append(it[u \ {Max(u)}], s[Max(u)]) ELSE it[u \ {Max(u)}])
          = (IF u = {} THEN <<>> ELSE IF Max(u) \in T THEN Append(it[u \ {Max(u)}], s[Max(u)])
                                      ELSE it[u \ {Max(u)}])
    BY <1>3
  <2> QED BY <1>1, <2>1 DEF PickRule
<1> DEFINE it == CHOOSE it : P(it)
<1>5. PickRule(it, n, T, s)
  <2>2. \E f : PickRule(f, n, T, s)
    BY <1>1, PickGraph
  <2>3. \E f : P(f)
    BY <1>4, <2>2
  <2> HIDE DEF P
  <2>4. P(it)
    BY <2>3
  <2> QED BY <1>4, <2>4
<1> HIDE DEF it
<1>7. Picked(it[1..n], Nat, T, s, n)
  BY <1>1, <1>5, PickFacts
<1> QED BY <1>1, <1>2, <1>7, Zenon DEF T, n, s, it

-----------------------------------------------------------------------------
(* The runs of a line: one more letter lengthens the last or starts one. *)
Run(C) == [ch : C, start : Nat, end : Nat]
RunsOn(runs, s, i) ==
    IF runs = <<>> \/ Last(runs).ch # s[i]
      THEN Append(runs, [ch |-> s[i], start |-> i - 1, end |-> i - 1])
      ELSE [runs EXCEPT ![Len(runs)].end = i - 1]

(* The runs of the first k letters: they cover them, and neighbours differ. *)
RunsTo(r, s, C, k) ==
    /\ r \in Seq(Run(C)) /\ (k = 0 => r = <<>>)
    /\ k > 0 => Len(r) > 0 /\ r[Len(r)].ch = s[k] /\ r[Len(r)].start < k /\ r[Len(r)].end = k - 1
    /\ \A i \in 1..k : \E q \in 1..Len(r) : r[q].start < i /\ i <= r[q].end + 1 /\ r[q].ch = s[i]
    /\ \A q \in 1..Len(r) : q > 1 => r[q - 1].ch # r[q].ch

(* Runs stay runs, *)
LEMMA RunsOnType ==
    ASSUME NEW C, NEW s \in Seq(C), NEW i \in 1..Len(s), NEW r \in Seq(Run(C))
    PROVE  RunsOn(r, s, i) \in Seq(Run(C))
<1>1. s[i] \in C /\ i - 1 \in Nat
  <2>1. Len(s) \in Nat /\ i \in 1..Len(s)
    BY LenProperties
  <2> QED BY <2>1, ElementOfSeq
<1>2. Append(r, [ch |-> s[i], start |-> i - 1, end |-> i - 1]) \in Seq(Run(C))
  <2>1. [ch |-> s[i], start |-> i - 1, end |-> i - 1] \in Run(C)
    BY <1>1 DEF Run
  <2> QED BY <2>1, AppendProperties
<1>3. CASE r # <<>>
  <2> DEFINE n == Len(r)
  <2>1. n \in Nat /\ n \in 1..n /\ r \in [1..n -> Run(C)] /\ DOMAIN r = 1..n
    BY <1>3, LenProperties, EmptySeq
  <2> HIDE DEF n
  <2>2. [r EXCEPT ![n].end = i - 1] \in [1..n -> Run(C)]
    BY <1>1, <2>1 DEF Run
  <2>3. \A n0 \in Nat : \A f \in [1..n0 -> Run(C)] : f \in Seq(Run(C))
    OBVIOUS
  <2>4. [r EXCEPT ![n].end = i - 1] \in Seq(Run(C))
    BY <2>1, <2>2, <2>3
  <2> QED BY <1>2, <2>4 DEF n, RunsOn
<1>4. CASE r = <<>>
  BY <1>2, <1>4 DEF RunsOn
<1> QED BY <1>3, <1>4

(* and cover one letter more. *)
LEMMA RunsGoOn ==
    ASSUME NEW C, NEW s \in Seq(C), NEW k \in Nat, k + 1 <= Len(s), NEW r, RunsTo(r, s, C, k)
    PROVE  RunsTo(RunsOn(r, s, k + 1), s, C, k + 1)
<1> DEFINE w == RunsOn(r, s, k + 1)
           n == Len(r)
           new == [ch |-> s[k + 1], start |-> (k + 1) - 1, end |-> (k + 1) - 1]
<1>1. k + 1 \in 1..Len(s) /\ (k + 1) - 1 = k
  BY LenProperties
<1>2. /\ r \in Seq(Run(C)) /\ n \in Nat /\ \A q \in 1..n : r[q] \in Run(C)
      /\ r = <<>> <=> n = 0
  BY LenProperties, ElementOfSeq, EmptySeq DEF RunsTo
<1>3. /\ k > 0 => n > 0 /\ r[n].ch = s[k] /\ r[n].start < k /\ r[n].end = k - 1
      /\ \A i \in 1..k : \E q \in 1..n : r[q].start < i /\ i <= r[q].end + 1 /\ r[q].ch = s[i]
      /\ \A q \in 1..n : q > 1 => r[q - 1].ch # r[q].ch
  BY DEF RunsTo
<1>4. w \in Seq(Run(C))
  BY <1>1, <1>2, RunsOnType
<1>5. \A i \in 1..(k + 1) : i \in 1..k \/ i = k + 1
  OBVIOUS
<1>6. CASE r = <<>> \/ Last(r).ch # s[k + 1]
  <2>1. w = Append(r, new)
    BY <1>6 DEF RunsOn
  <2>2. new \in Run(C) /\ new.ch = s[k + 1] /\ new.start = k /\ new.end = k
    <3>1. s[k + 1] \in C
      BY <1>1, ElementOfSeq
    <3> QED BY <3>1, <1>1 DEF Run
  <2> HIDE DEF w, new, n
  <2>3. Len(w) = n + 1 /\ w[n + 1] = new /\ \A q \in 1..n : w[q] = r[q]
    BY <1>2, <2>1, <2>2, AppendProperties DEF n
  <2>4. \A q \in 1..(n + 1) : q \in 1..n \/ q = n + 1
    BY <1>2
  <2>5. \A q \in 1..n : q \in 1..(n + 1)
    BY <1>2
  <2>6. n + 1 \in 1..(n + 1) /\ n + 1 > 0
    BY <1>2
  <2>7. \A i \in 1..(k + 1) : \E q \in 1..(n + 1) : w[q].start < i /\ i <= w[q].end + 1 /\ w[q].ch = s[i]
    <3>1. new.start < k + 1 /\ k + 1 <= new.end + 1
      BY <2>2
    <3>2. \A i \in 1..k : \E q \in 1..(n + 1) : w[q].start < i /\ i <= w[q].end + 1 /\ w[q].ch = s[i]
      BY <1>3, <2>3, <2>5
    <3>3. \E q \in 1..(n + 1) : w[q].start < k + 1 /\ k + 1 <= w[q].end + 1 /\ w[q].ch = s[k + 1]
      BY <2>2, <2>3, <2>6, <3>1
    <3> QED BY <1>5, <3>2, <3>3
  <2>8. ASSUME NEW q \in 1..(n + 1), q > 1 PROVE w[q - 1].ch # w[q].ch
    <3>1. CASE q \in 1..n
      <4>1. q - 1 \in 1..n
        BY <1>2, <2>8, <3>1
      <4> QED BY <1>3, <2>3, <2>8, <3>1, <4>1
    <3>2. CASE q = n + 1
      <4>1. n > 0 /\ n \in 1..n /\ q - 1 = n
        BY <1>2, <2>8, <3>2
      <4>2. r # <<>> /\ Last(r) = r[n]
        BY <1>2, <4>1 DEF Last, n
      <4>3. r[n].ch # s[k + 1]
        BY <1>6, <4>2
      <4> QED BY <2>2, <2>3, <3>2, <4>1, <4>3
    <3> QED BY <2>4, <3>1, <3>2
  <2>9. w[n + 1].ch = s[k + 1] /\ w[n + 1].start < k + 1 /\ w[n + 1].end = (k + 1) - 1
    BY <1>1, <2>2, <2>3
  <2>10. RunsTo(w, s, C, k + 1)
    BY <1>4, <2>3, <2>6, <2>7, <2>8, <2>9 DEF RunsTo
  <2> QED BY <2>10 DEF w
<1>7. CASE ~(r = <<>> \/ Last(r).ch # s[k + 1])
  <2>1. w = [r EXCEPT ![n].end = (k + 1) - 1]
    BY <1>7 DEF RunsOn
  <2>2. n > 0 /\ n \in 1..n /\ r[n].ch = s[k + 1]
    BY <1>2, <1>7 DEF Last
  <2>3. r \in [1..n -> Run(C)] /\ DOMAIN r = 1..n
    BY <1>2, LenProperties
  <2> HIDE DEF n
  <2>4. /\ \A q \in 1..n : q # n => w[q] = r[q]
        /\ w[n] = [r[n] EXCEPT !.end = k]
        /\ DOMAIN w = 1..n
    BY <1>1, <2>1, <2>2, <2>3
  <2>5. w[n].ch = r[n].ch /\ w[n].start = r[n].start /\ w[n].end = k
    <3>1. r[n] \in Run(C)
      BY <1>2, <2>2
    <3> HIDE DEF w
    <3> QED BY <2>4, <3>1 DEF Run
  <2>6. Len(w) = n
    <3> HIDE DEF w
    <3>1. Len(w) \in Nat /\ 1..Len(w) = 1..n
      BY <1>4, <2>4, LenProperties
    <3>2. \A a, b \in Nat : 1..a = 1..b => a = b
      <4>1. ASSUME NEW a \in Nat, NEW b \in Nat, 1..a = 1..b PROVE ~(a < b)
        <5>1. a < b => b \in 1..b /\ b \notin 1..a
          OBVIOUS
        <5> QED BY <4>1, <5>1
      <4> QED BY <4>1
    <3> QED BY <1>2, <3>1, <3>2
  <2> HIDE DEF w
  <2>7. k > 0 /\ r[n].start < k /\ r[n].end = k - 1
    <3>1. k # 0
      BY <1>7 DEF RunsTo
    <3> QED BY <1>3, <3>1
  <2>8. \A q \in 1..n : w[q].ch = r[q].ch /\ w[q].start = r[q].start /\ (q # n => w[q].end = r[q].end)
    BY <2>4, <2>5
  <2>9. ASSUME NEW i \in 1..(k + 1)
        PROVE  \E q \in 1..n : w[q].start < i /\ i <= w[q].end + 1 /\ w[q].ch = s[i]
    <3>1. CASE i \in 1..k
      <4>1. PICK q \in 1..n : r[q].start < i /\ i <= r[q].end + 1 /\ r[q].ch = s[i]
        BY <1>3, <3>1
      <4>2. w[q].start < i /\ w[q].ch = s[i]
        BY <2>8, <4>1
      <4>3. i <= w[q].end + 1
        <5>1. CASE q = n
          BY <2>5, <3>1, <5>1
        <5>2. CASE q # n
          BY <2>8, <4>1, <5>2
        <5> QED BY <5>1, <5>2
      <4> QED BY <4>2, <4>3
    <3>2. CASE i = k + 1
      <4>1. w[n].start < k /\ w[n].start \in Nat
        <5>1. r[n].start \in Nat
          BY <1>2, <2>2 DEF Run
        <5> QED BY <2>5, <2>7, <5>1
      <4>2. w[n].start < i /\ i <= w[n].end + 1 /\ w[n].ch = s[i]
        BY <2>2, <2>5, <3>2, <4>1
      <4> QED BY <2>2, <4>2
    <3> QED BY <1>5, <3>1, <3>2
  <2>10. \A q \in 1..n : q > 1 => w[q - 1].ch # w[q].ch
    <3>1. \A q \in 1..n : q > 1 => q - 1 \in 1..n
      BY <1>2
    <3> QED BY <1>3, <2>8, <3>1
  <2>11. w[n].ch = s[k + 1] /\ w[n].start < k + 1 /\ w[n].end = (k + 1) - 1
    <3>1. r[n].start \in Nat
      BY <1>2, <2>2 DEF Run
    <3> QED BY <2>2, <2>5, <2>7, <3>1
  <2>12. k + 1 # 0 /\ k + 1 > 0
    OBVIOUS
  <2>13. RunsTo(w, s, C, k + 1)
    BY <1>4, <2>2, <2>6, <2>9, <2>10, <2>11, <2>12 DEF RunsTo
  <2> QED BY <2>13 DEF w
<1> QED BY <1>6, <1>7

(* ... so the runs of a line are the line. *)
LEMMA RunsFacts ==
    ASSUME NEW C, NEW s \in Seq(C)
    PROVE  RunsTo(Runs(s), s, C, Len(s))
<1> DEFINE n == Len(s)
           A == Seq(Run(C))
           line == [i \in 1..n |-> i]
           P(it) == it = [u \in SUBSET DOMAIN line |->
                            IF u = {} THEN <<>> ELSE RunsOn(it[u \ {Max(u)}], s, line[Max(u)])]
           it == CHOOSE it : P(it)
           end == Runs(s)
<1>1. n \in Nat /\ DOMAIN line = 1..n /\ \A k \in 1..n : line[k] = k
  BY LenProperties
<1>2. end = (CHOOSE it0 : P(it0))[DOMAIN line]
  BY ONLY Zenon DEF Runs, RunsOn, FoldLeft, MapThenFoldSet
<1>3. ASSUME NEW k \in 1..n, NEW a \in A PROVE RunsOn(a, s, k) \in A
  BY RunsOnType
<1> HIDE DEF n, A, line
<1> DEFINE G == [k \in 1..n |-> [a \in A |-> RunsOn(a, s, k)]]
<1>4. G \in [1..n -> [A -> A]]
  BY <1>3
<1>5. \A k \in 1..n, a \in A : G[k][a] = RunsOn(a, s, k)
  OBVIOUS
<1> HIDE DEF G
<1>5a. <<>> \in A
  BY EmptySeq DEF A
<1>6. \E f : P(f)
  <2>1. \E f : Solves(f, A, <<>>, G, n)
    BY <1>1, <1>4, <1>5a, FoldGraph
  <2>2. PICK f \in [SUBSET (1..n) -> A] : \A u \in SUBSET (1..n) :
          f[u] = IF u = {} THEN <<>> ELSE G[Max(u)][f[u \ {Max(u)}]]
    BY <2>1 DEF Solves
  <2>3. ASSUME NEW u \in SUBSET (1..n)
        PROVE  f[u] = IF u = {} THEN <<>> ELSE RunsOn(f[u \ {Max(u)}], s, line[Max(u)])
    <3>1. CASE u = {}
      BY <2>2, <3>1
    <3>2. CASE u # {}
      <4>1. Max(u) \in 1..n /\ u \ {Max(u)} \in SUBSET (1..n)
        BY <1>1, <3>2, MaxOf
      <4>2. f[u \ {Max(u)}] \in A /\ line[Max(u)] = Max(u)
        BY <1>1, <2>2, <4>1
      <4>3. f[u] = G[Max(u)][f[u \ {Max(u)}]]
        BY <2>2, <3>2
      <4> QED BY <1>5, <3>2, <4>1, <4>2, <4>3
    <3> QED BY <3>1, <3>2
  <2>4. P(f)
    BY <1>1, <2>2, <2>3
  <2> QED BY <2>4
<1>7. P(it)
  <2> HIDE DEF P
  <2> QED BY <1>6
<1> HIDE DEF it
<1>8. \A u \in SUBSET (1..n) : it[u] = IF u = {} THEN <<>> ELSE RunsOn(it[u \ {Max(u)}], s, line[Max(u)])
  BY <1>1, <1>7
<1> DEFINE I == {k \in Nat : k <= n => RunsTo(it[1..k], s, C, k)}
<1>9. 0 \in I
  <2>1. 1..0 = {} /\ {} \in SUBSET (1..n)
    OBVIOUS
  <2>2. it[1..0] = <<>>
    BY <1>8, <2>1
  <2>3. <<>> \in Seq(Run(C)) /\ Len(<<>>) = 0
    BY EmptySeq
  <2>4. RunsTo(it[1..0], s, C, 0)
    BY <2>1, <2>2, <2>3 DEF RunsTo
  <2> QED BY <2>4
<1>10. ASSUME NEW k \in I PROVE k + 1 \in I
  <2>1. k \in Nat /\ k + 1 \in Nat
    OBVIOUS
  <2>2. ASSUME k + 1 <= n PROVE RunsTo(it[1..(k + 1)], s, C, k + 1)
    <3>1. k + 1 \in 1..n /\ RunsTo(it[1..k], s, C, k)
      BY <1>1, <2>1, <2>2
    <3>2. 1..(k + 1) \in SUBSET (1..n) /\ 1..(k + 1) # {}
      <4>1. k + 1 \in 1..(k + 1)
        BY <2>1
      <4>2. 1..(k + 1) \in SUBSET (1..n)
        BY <1>1, <2>1, <2>2
      <4> QED BY <4>1, <4>2
    <3>3. Max(1..(k + 1)) = k + 1 /\ (1..(k + 1)) \ {Max(1..(k + 1))} = 1..k
      <4>1. k + 1 \in Nat \ {0} /\ (k + 1) - 1 = k
        BY <2>1
      <4> QED BY <4>1, MaxOfRun
    <3>4. it[1..(k + 1)] = RunsOn(it[1..k], s, k + 1)
      <4>1. it[1..(k + 1)] = RunsOn(it[(1..(k + 1)) \ {Max(1..(k + 1))}], s, line[Max(1..(k + 1))])
        BY <1>8, <3>2
      <4>2. line[k + 1] = k + 1
        BY <1>1, <3>1
      <4> QED BY ONLY <3>3, <4>1, <4>2, Zenon
    <3> QED BY <2>1, <2>2, <3>1, <3>4, RunsGoOn DEF n
  <2> QED BY <2>1, <2>2
<1>11. I \in SUBSET Nat
  OBVIOUS
<1> HIDE DEF I
<1>12. I = Nat
  BY <1>9, <1>10, <1>11, Induction
<1>13. n \in I
  BY <1>1, <1>12
<1>14. RunsTo(it[1..n], s, C, n)
  BY <1>13 DEF I, n
<1>15. end = it[1..n]
  BY <1>1, <1>2, Zenon DEF it
<1> HIDE DEF end
<1>16. RunsTo(end, s, C, n)
  BY <1>14, <1>15
<1> QED BY <1>16 DEF end, n

-----------------------------------------------------------------------------
(* What the promotion loop has counted, kept and remembered of the entries *)
(* it has passed, in terms of those it hit: the n-th hit has the n-th slot. *)
Hits == {k \in 1..Len(AprioriFile) : AprioriFile[k] \in walked}

SlotsHoldTheHits ==
    /\ mP2Apriori = Rank(Hits, scanIdx - 1)
    /\ \A k \in Hits : (k < scanIdx /\ Rank(Hits, k) <= AprioriMax) =>
           mP2AprioriGuid[Rank(Hits, k)] = AprioriFile[k]
MissIsLeast ==
    IF mP2ApriMiss = None
      THEN \A k \in 2..(scanIdx - 1) : k \in Hits
      ELSE /\ mP2ApriMiss + 1 \in 2..(scanIdx - 1) /\ mP2ApriMiss + 1 \notin Hits
           /\ \A k \in 2..mP2ApriMiss : k \in Hits
FirstIsLeast ==
    IF mP2ApriMatchFirst = None
      THEN \A k \in 1..(scanIdx - 1) : k \notin Hits
      ELSE /\ mP2ApriMatchFirst + 1 \in 1..(scanIdx - 1) /\ mP2ApriMatchFirst + 1 \in Hits
           /\ \A k \in 1..mP2ApriMatchFirst : k \notin Hits
LastIsGreatest ==
    (\E k \in 1..(scanIdx - 1) : k \in Hits) =>
        /\ mP2ApriMatchLast + 1 \in 1..(scanIdx - 1) /\ mP2ApriMatchLast + 1 \in Hits
        /\ \A k \in (mP2ApriMatchLast + 2)..(scanIdx - 1) : k \notin Hits

PromoteInv ==
    /\ AprioriFile = <<>> =>
          mP2Apriori = 0 /\ mP2ApriMiss = None /\ mP2ApriMatchFirst = None
    /\ scanIdx > 0 => SlotsHoldTheHits /\ MissIsLeast /\ FirstIsLeast /\ LastIsGreatest

(* The letter of the WHY line is that of the status. *)
WhyInv == \A i \in 1..SeqLen : mP2AprioriRes[i] # "?" => mP2ApriWhy[i] = WhyLetter(mP2ApriSt[i])

(* Nothing is promoted and no letter written at the start. *)
LEMMA PromoteStart == Init => PromoteInv /\ WhyInv
<1> SUFFICES ASSUME Init PROVE PromoteInv /\ WhyInv
  OBVIOUS
<1>1. mP2Apriori = 0 /\ AprioriMax \in Nat
  BY GuidAssumption DEF Init
<1>2. 1..SeqLen = {}
  <2>1. SeqLen = 0
    BY <1>1 DEF SeqLen
  <2> QED BY <2>1
<1>3. WhyInv
  BY <1>2 DEF WhyInv
<1>4. PromoteInv
  BY DEF Init, PromoteInv
<1> QED BY <1>3, <1>4

(* A new volume's Apriori file starts from nothing: it is the only one. *)
LEMMA NotifyPromotes == ASSUME DispatchInv, PromoteInv, FwVolNotify PROVE PromoteInv'
<1>1. TypeOK /\ VolumeInv /\ ScanInv
  BY DEF DispatchInv
<1>2. /\ scanIdx = 0 /\ volumes # <<>>
      /\ UNCHANGED <<mP2Apriori, mP2ApriMiss, mP2ApriMatchFirst>>
  BY DEF FwVolNotify
<1>3. Head(volumes) = volumes[1] /\ 1 \in 1..Len(volumes)
  <2>1. volumes \in Seq(Volume)
    BY <1>1 DEF TypeOK
  <2>2. Len(volumes) \in Nat \ {0} /\ Head(volumes) = volumes[1]
    BY <1>2, <2>1, TailFacts
  <2> QED BY <2>2
<1>4. CASE Head(volumes).apriori = <<>>
  <2>1. UNCHANGED <<scanIdx, AprioriFile>>
    BY <1>4 DEF FwVolNotify
  <2> QED BY <1>2, <2>1 DEF PromoteInv
<1>5. CASE Head(volumes).apriori # <<>>
  <2>1. AprioriFile' = Head(volumes).apriori /\ scanIdx' = 1
    BY <1>5 DEF FwVolNotify
  <2>2. AprioriFile = <<>>
    BY <1>1, <1>3, <1>5 DEF VolumeInv
  <2>3. mP2Apriori' = 0 /\ mP2ApriMiss' = None /\ mP2ApriMatchFirst' = None
    BY <1>2, <2>2 DEF PromoteInv
  <2>4. scanIdx' - 1 = 0 /\ 1..(scanIdx' - 1) = {} /\ 2..(scanIdx' - 1) = {}
    BY <2>1
  <2>5. Rank(Hits', 0) = 0
    BY RankStep
  <2>6. SlotsHoldTheHits'
    <3>1. mP2Apriori' = Rank(Hits', scanIdx' - 1)
      BY <2>3, <2>4, <2>5
    <3>2. \A k \in Hits' : ~(k < scanIdx')
      BY <2>1 DEF Hits
    <3> QED BY <3>1, <3>2 DEF SlotsHoldTheHits
  <2>7. MissIsLeast' /\ FirstIsLeast' /\ LastIsGreatest'
    BY <2>3, <2>4 DEF MissIsLeast, FirstIsLeast, LastIsGreatest
  <2>8. AprioriFile' # <<>>
    BY <1>5, <2>1
  <2> QED BY <2>6, <2>7, <2>8 DEF PromoteInv
<1> QED BY <1>4, <1>5

(* What the two steps of the loop share. *)
LEMMA ScanFacts ==
    ASSUME DispatchInv, Scanning, PromoteInv
    PROVE  /\ scanIdx \in Nat \ {0} /\ scanIdx \in 1..Len(AprioriFile) /\ Len(AprioriFile) \in Nat
           /\ SlotsHoldTheHits /\ MissIsLeast /\ FirstIsLeast /\ LastIsGreatest
           /\ AprioriFile # <<>>
           /\ mP2Apriori \in Nat /\ mP2ApriMatchLast \in Nat
           /\ mP2ApriMiss \in Nat \cup {None} /\ mP2ApriMatchFirst \in Nat \cup {None}
           /\ mP2AprioriGuid \in [Slot -> Driver \cup {NoGuid}]
           /\ \A k \in Hits : k \in Nat /\ k >= 1 /\ k <= Len(AprioriFile)
           /\ scanIdx \in Hits <=> AprioriFile[scanIdx] \in walked
<1>1. TypeOK /\ ScanInv
  BY DEF DispatchInv
<1>2. AprioriFile \in Seq(Guid) /\ Len(AprioriFile) \in Nat
  BY <1>1, LenProperties DEF TypeOK
<1>3. scanIdx \in Nat \ {0} /\ scanIdx \in 1..Len(AprioriFile)
  BY <1>2 DEF Scanning
<1>4. /\ SlotsHoldTheHits /\ MissIsLeast /\ FirstIsLeast /\ LastIsGreatest /\ AprioriFile # <<>>
  BY <1>1, <1>3 DEF PromoteInv, ScanInv
<1>5. /\ mP2Apriori \in Nat /\ mP2ApriMatchLast \in Nat
      /\ mP2ApriMiss \in Nat \cup {None} /\ mP2ApriMatchFirst \in Nat \cup {None}
      /\ mP2AprioriGuid \in [Slot -> Driver \cup {NoGuid}]
  BY <1>1 DEF TypeOK
<1>6. \A k \in Hits : k \in Nat /\ k >= 1 /\ k <= Len(AprioriFile)
  BY <1>2 DEF Hits
<1>7. scanIdx \in Hits <=> AprioriFile[scanIdx] \in walked
  BY <1>3 DEF Hits
<1> QED BY <1>2, <1>3, <1>4, <1>5, <1>6, <1>7

(* A hit takes the next slot, while there is one; it is the last so far,   *)
(* and the first if there was none.                                        *)
LEMMA HitPromotes == ASSUME DispatchInv, PromoteInv, PromoteHit PROVE PromoteInv'
<1> DEFINE x == scanIdx
           p == scanIdx - 1
<1>1. /\ x \in Nat \ {0} /\ x \in 1..Len(AprioriFile)
      /\ SlotsHoldTheHits /\ MissIsLeast /\ FirstIsLeast /\ LastIsGreatest /\ AprioriFile # <<>>
      /\ mP2Apriori \in Nat /\ mP2ApriMatchLast \in Nat
      /\ mP2ApriMiss \in Nat \cup {None} /\ mP2ApriMatchFirst \in Nat \cup {None}
      /\ mP2AprioriGuid \in [Slot -> Driver \cup {NoGuid}]
      /\ \A k \in Hits : k \in Nat /\ k >= 1
      /\ x \in Hits
  <2>1. Scanning /\ AprioriFile[scanIdx] \in walked
    BY DEF PromoteHit
  <2> QED BY <2>1, ScanFacts
<1>2. /\ mP2Apriori' = mP2Apriori + 1 /\ scanIdx' = x + 1 /\ scanIdx' - 1 = x
      /\ mP2ApriMatchLast' = p /\ UNCHANGED <<AprioriFile, walked, mP2ApriMiss>>
      /\ mP2ApriMatchFirst' = IF mP2ApriMatchFirst = None THEN p ELSE mP2ApriMatchFirst
  <2>1. /\ mP2Apriori' = mP2Apriori + 1 /\ scanIdx' = x + 1
        /\ mP2ApriMatchLast' = p /\ UNCHANGED <<AprioriFile, walked, mP2ApriMiss>>
        /\ mP2ApriMatchFirst' = IF mP2ApriMatchFirst = None THEN p ELSE mP2ApriMatchFirst
    BY DEF PromoteHit
  <2> QED BY <1>1, <2>1
<1>3. Hits' = Hits
  BY <1>2 DEF Hits
<1>4. p \in Nat /\ p + 1 = x /\ \A k \in 1..x : k \in 1..p \/ k = x
  BY <1>1
<1>5. Rank(Hits, p) \in Nat /\ Rank(Hits, x) = Rank(Hits, p) + 1
  <2>1. p + 1 \in Hits
    BY <1>1, <1>4
  <2> HIDE DEF p, x
  <2>2. Rank(Hits, p) \in Nat /\ Rank(Hits, p + 1) = Rank(Hits, p) + 1
    BY <1>4, <2>1, RankStep
  <2> QED BY <1>4, <2>2
<1>6. mP2Apriori = Rank(Hits, p)
  BY <1>1 DEF SlotsHoldTheHits
<1>7. SlotsHoldTheHits'
  <2>1. mP2Apriori' = Rank(Hits', scanIdx' - 1)
    BY <1>2, <1>3, <1>5, <1>6
  <2>2. ASSUME NEW k \in Hits, k < x + 1, Rank(Hits, k) <= AprioriMax
        PROVE  mP2AprioriGuid'[Rank(Hits, k)] = AprioriFile[k]
    <3>1. CASE k = x
      <4>1. Rank(Hits, k) = mP2Apriori + 1 /\ mP2Apriori < AprioriMax
        BY <1>5, <1>6, <1>1, <2>2, <3>1, GuidAssumption
      <4>2. mP2AprioriGuid' = [mP2AprioriGuid EXCEPT ![mP2Apriori + 1] = AprioriFile[scanIdx]]
        BY <4>1 DEF PromoteHit
      <4>3. mP2Apriori + 1 \in Slot
        BY <1>1, <4>1, GuidAssumption DEF Slot
      <4> QED BY <1>1, <3>1, <4>1, <4>2, <4>3
    <3>2. CASE k # x
      <4>1. k \in Nat /\ k <= p /\ k < scanIdx
        BY <1>1, <2>2, <3>2
      <4>2. mP2AprioriGuid[Rank(Hits, k)] = AprioriFile[k]
        BY <1>1, <2>2, <4>1 DEF SlotsHoldTheHits
      <4>3. Rank(Hits, k) \in Nat /\ Rank(Hits, k) <= mP2Apriori
        BY <1>4, <1>6, <4>1, RankStep, RankGrows
      <4>4. Rank(Hits, k) # 0
        <5>1. 0 \in Nat /\ 0 < k /\ k \in Nat
          BY <1>1
        <5>2. Rank(Hits, 0) = 0
          BY <5>1, RankStep
        <5>3. Rank(Hits, 0) < Rank(Hits, k)
          BY <5>1, RankGrows
        <5> QED BY <5>2, <5>3
      <4>5. Rank(Hits, k) \in Slot /\ Rank(Hits, k) # mP2Apriori + 1
        BY <1>1, <2>2, <4>3, <4>4, GuidAssumption DEF Slot
      <4>6. \/ mP2AprioriGuid' = [mP2AprioriGuid EXCEPT ![mP2Apriori + 1] = AprioriFile[scanIdx]]
            \/ mP2AprioriGuid' = mP2AprioriGuid
        BY DEF PromoteHit
      <4>7. mP2AprioriGuid'[Rank(Hits, k)] = mP2AprioriGuid[Rank(Hits, k)]
        BY <1>1, <4>5, <4>6
      <4> QED BY <4>2, <4>7
    <3> QED BY <3>1, <3>2
  <2> QED BY <1>2, <1>3, <2>1, <2>2 DEF SlotsHoldTheHits
<1>8. MissIsLeast'
  <2>1. CASE mP2ApriMiss = None
    <3>1. \A k \in 2..p : k \in Hits
      BY <1>1, <2>1 DEF MissIsLeast
    <3>2. \A k \in 2..x : k \in Hits
      BY <1>1, <1>4, <3>1
    <3> QED BY <1>2, <1>3, <2>1, <3>2 DEF MissIsLeast
  <2>2. CASE mP2ApriMiss # None
    <3>1. /\ mP2ApriMiss + 1 \in 2..p /\ mP2ApriMiss + 1 \notin Hits
          /\ \A k \in 2..mP2ApriMiss : k \in Hits
      BY <1>1, <2>2 DEF MissIsLeast
    <3>2. mP2ApriMiss + 1 \in 2..x
      BY <1>4, <3>1
    <3> QED BY <1>2, <1>3, <2>2, <3>1, <3>2 DEF MissIsLeast
  <2> QED BY <2>1, <2>2
<1>9. FirstIsLeast'
  <2>1. CASE mP2ApriMatchFirst = None
    <3>1. \A k \in 1..p : k \notin Hits
      BY <1>1, <2>1 DEF FirstIsLeast
    <3>2. mP2ApriMatchFirst' = p /\ p # None /\ p + 1 \in 1..x /\ p + 1 \in Hits
      BY <1>1, <1>2, <1>4, <2>1 DEF None
    <3> QED BY <1>2, <1>3, <3>1, <3>2 DEF FirstIsLeast
  <2>2. CASE mP2ApriMatchFirst # None
    <3>1. /\ mP2ApriMatchFirst + 1 \in 1..p /\ mP2ApriMatchFirst + 1 \in Hits
          /\ \A k \in 1..mP2ApriMatchFirst : k \notin Hits
      BY <1>1, <2>2 DEF FirstIsLeast
    <3>2. mP2ApriMatchFirst' = mP2ApriMatchFirst /\ mP2ApriMatchFirst + 1 \in 1..x
      BY <1>2, <1>4, <2>2, <3>1
    <3> QED BY <1>2, <1>3, <2>2, <3>1, <3>2 DEF FirstIsLeast
  <2> QED BY <2>1, <2>2
<1>10. LastIsGreatest'
  <2>1. mP2ApriMatchLast' = p /\ p + 1 \in 1..x /\ p + 1 \in Hits /\ (p + 2)..x = {}
    BY <1>1, <1>2, <1>4
  <2> QED BY <1>2, <1>3, <2>1 DEF LastIsGreatest
<1> QED BY <1>1, <1>2, <1>7, <1>8, <1>9, <1>10 DEF PromoteInv

(* A miss moves no place; behind the core's entry the first is kept. *)
LEMMA MissPromotes == ASSUME DispatchInv, PromoteInv, PromoteMiss PROVE PromoteInv'
<1> DEFINE x == scanIdx
           p == scanIdx - 1
<1>1. /\ x \in Nat \ {0} /\ x \in 1..Len(AprioriFile)
      /\ SlotsHoldTheHits /\ MissIsLeast /\ FirstIsLeast /\ LastIsGreatest /\ AprioriFile # <<>>
      /\ mP2ApriMatchLast \in Nat
      /\ mP2ApriMiss \in Nat \cup {None} /\ mP2ApriMatchFirst \in Nat \cup {None}
      /\ \A k \in Hits : k \in Nat /\ k >= 1
      /\ x \notin Hits
  <2>1. Scanning /\ AprioriFile[scanIdx] \notin walked
    BY DEF PromoteMiss
  <2> QED BY <2>1, ScanFacts
<1>2. /\ scanIdx' = x + 1 /\ scanIdx' - 1 = x
      /\ mP2ApriMiss' = IF p > 0 /\ mP2ApriMiss = None THEN p ELSE mP2ApriMiss
      /\ UNCHANGED <<AprioriFile, walked, mP2Apriori, mP2AprioriGuid, mP2ApriMatchFirst, mP2ApriMatchLast>>
  <2>1. /\ scanIdx' = x + 1
        /\ mP2ApriMiss' = IF p > 0 /\ mP2ApriMiss = None THEN p ELSE mP2ApriMiss
        /\ UNCHANGED <<AprioriFile, walked, mP2Apriori, mP2AprioriGuid, mP2ApriMatchFirst, mP2ApriMatchLast>>
    BY DEF PromoteMiss, MissIsNew, slotVars
  <2> QED BY <1>1, <2>1
<1>3. Hits' = Hits
  BY <1>2 DEF Hits
<1>4. p \in Nat /\ p + 1 = x /\ \A k \in 1..x : k \in 1..p \/ k = x
  BY <1>1
<1>5. Rank(Hits, x) = Rank(Hits, p)
  <2>1. p + 1 \notin Hits
    BY <1>1, <1>4
  <2> HIDE DEF p, x
  <2>2. Rank(Hits, p + 1) = Rank(Hits, p)
    BY <1>4, <2>1, RankStep
  <2> QED BY <1>4, <2>2
<1>6. mP2Apriori = Rank(Hits, p)
  BY <1>1 DEF SlotsHoldTheHits
<1>7. SlotsHoldTheHits'
  <2>1. mP2Apriori' = Rank(Hits', scanIdx' - 1)
    BY <1>2, <1>3, <1>5, <1>6
  <2>2. ASSUME NEW k \in Hits, k < x + 1, Rank(Hits, k) <= AprioriMax
        PROVE  mP2AprioriGuid'[Rank(Hits, k)] = AprioriFile[k]
    <3>1. k # x
      BY <1>1
    <3>2. k < scanIdx
      BY <1>1, <2>2, <3>1
    <3> QED BY <1>1, <1>2, <2>2, <3>2 DEF SlotsHoldTheHits
  <2> QED BY <1>2, <1>3, <2>1, <2>2 DEF SlotsHoldTheHits
<1>8. MissIsLeast'
  <2>1. CASE mP2ApriMiss = None
    <3>1. \A k \in 2..p : k \in Hits
      BY <1>1, <2>1 DEF MissIsLeast
    <3>2. CASE p > 0
      <4>1. mP2ApriMiss' = p /\ p # None /\ p + 1 \in 2..x /\ p + 1 \notin Hits
        BY <1>1, <1>2, <1>4, <2>1, <3>2 DEF None
      <4> QED BY <1>2, <1>3, <3>1, <4>1 DEF MissIsLeast
    <3>3. CASE ~(p > 0)
      <4>1. mP2ApriMiss' = None /\ 2..x = {}
        BY <1>1, <1>2, <1>4, <2>1, <3>3
      <4> QED BY <1>2, <1>3, <4>1 DEF MissIsLeast
    <3> QED BY <3>2, <3>3
  <2>2. CASE mP2ApriMiss # None
    <3>1. /\ mP2ApriMiss + 1 \in 2..p /\ mP2ApriMiss + 1 \notin Hits
          /\ \A k \in 2..mP2ApriMiss : k \in Hits
      BY <1>1, <2>2 DEF MissIsLeast
    <3>2. mP2ApriMiss + 1 \in 2..x /\ mP2ApriMiss' = mP2ApriMiss
      BY <1>2, <1>4, <2>2, <3>1
    <3> QED BY <1>2, <1>3, <2>2, <3>1, <3>2 DEF MissIsLeast
  <2> QED BY <2>1, <2>2
<1>9. FirstIsLeast'
  <2>1. CASE mP2ApriMatchFirst = None
    <3>1. \A k \in 1..p : k \notin Hits
      BY <1>1, <2>1 DEF FirstIsLeast
    <3>2. \A k \in 1..x : k \notin Hits
      BY <1>1, <1>4, <3>1
    <3> QED BY <1>2, <1>3, <2>1, <3>2 DEF FirstIsLeast
  <2>2. CASE mP2ApriMatchFirst # None
    <3>1. /\ mP2ApriMatchFirst + 1 \in 1..p /\ mP2ApriMatchFirst + 1 \in Hits
          /\ \A k \in 1..mP2ApriMatchFirst : k \notin Hits
      BY <1>1, <2>2 DEF FirstIsLeast
    <3>2. mP2ApriMatchFirst + 1 \in 1..x
      BY <1>4, <3>1
    <3> QED BY <1>2, <1>3, <2>2, <3>1, <3>2 DEF FirstIsLeast
  <2> QED BY <2>1, <2>2
<1>10. LastIsGreatest'
  <2> DEFINE l == mP2ApriMatchLast
  <2>1. SUFFICES ASSUME \E k \in 1..x : k \in Hits
                 PROVE  l + 1 \in 1..x /\ l + 1 \in Hits /\ \A k \in (l + 2)..x : k \notin Hits
    BY <1>2, <1>3 DEF LastIsGreatest
  <2>2. \E k \in 1..p : k \in Hits
    BY <1>1, <1>4, <2>1
  <2>3. l + 1 \in 1..p /\ l + 1 \in Hits /\ \A k \in (l + 2)..p : k \notin Hits
    BY <1>1, <2>2 DEF LastIsGreatest
  <2>4. l + 1 \in 1..x /\ \A k \in (l + 2)..x : k \in (l + 2)..p \/ k = x
    BY <1>1, <1>4, <2>3
  <2> QED BY <1>1, <2>3, <2>4
<1> QED BY <1>1, <1>2, <1>7, <1>8, <1>9, <1>10 DEF PromoteInv

(* No other step comes near what the loop keeps, and the last one leaves it. *)
LEMMA PromoteStep == ASSUME DispatchInv, PromoteInv, [Next]_vars PROVE PromoteInv'
<1>1. CASE FwVolNotify
  BY <1>1, NotifyPromotes
<1>2. CASE PromoteHit
  BY <1>2, HitPromotes
<1>3. CASE PromoteMiss
  BY <1>3, MissPromotes
<1>4. CASE PromoteEnd
  <2>1. scanIdx' = 0 /\ UNCHANGED <<AprioriFile, mP2Apriori, mP2ApriMiss, mP2ApriMatchFirst>>
    BY <1>4 DEF PromoteEnd, apriVars
  <2> QED BY <2>1 DEF PromoteInv
<1>5. CASE UNCHANGED <<scanVars, apriVars, mP2Apriori, mP2AprioriGuid>>
  BY <1>5 DEF PromoteInv, SlotsHoldTheHits, MissIsLeast, FirstIsLeast, LastIsGreatest, Hits,
              scanVars, apriVars
<1>6. \/ FwVolNotify \/ PromoteHit \/ PromoteMiss \/ PromoteEnd
      \/ UNCHANGED <<scanVars, apriVars, mP2Apriori, mP2AprioriGuid>>
  BY DEF Next, Step, Halted, Dispatch, BeginLoad, BeginStart, StartSucceeds, StartHangs, LoadFails,
         StartFails, ScheduleReady, Finish, vars, scanVars, apriVars, slotVars
<1> QED BY <1>1, <1>2, <1>3, <1>4, <1>5, <1>6

(* The letters are written with the status. *)
LEMMA WhyStep == ASSUME DispatchInv, WhyInv, [Next]_vars PROVE WhyInv'
<1>0. TypeOK
  BY DEF DispatchInv
<1>a. SeqLen \in Nat /\ 1..SeqLen \subseteq Slot
  BY <1>0, SeqLenType DEF TypeOK
<1>1. CASE PromoteHit
  <2>1. /\ SeqLen' \in {SeqLen, SeqLen + 1}
        /\ SeqLen' = SeqLen + 1 => mP2AprioriRes'[SeqLen + 1] = "?"
        /\ \A i \in 1..SeqLen : mP2AprioriRes'[i] = mP2AprioriRes[i]
    <3>1. SeqLen + 1 # SeqLen
      BY <1>a
    <3> QED BY <1>1, <3>1, PromoteFacts
  <2>2. UNCHANGED <<mP2ApriWhy, mP2ApriSt>>
    BY <1>1 DEF PromoteHit
  <2>3. ASSUME NEW i \in 1..SeqLen', mP2AprioriRes'[i] # "?"
        PROVE  mP2ApriWhy'[i] = WhyLetter(mP2ApriSt'[i])
    <3>1. i \in 1..SeqLen
      BY <1>a, <2>1, <2>3
    <3> QED BY <2>1, <2>2, <2>3, <3>1 DEF WhyInv
  <2> QED BY <2>3 DEF WhyInv
<1>2. CASE \E ch \in {"s", "S", "L"}, status \in ErrorStatus \cup {Success} : AttemptReturns(ch, status)
  <2>1. PICK g, ch, status : MarkSeq(g, ch, status) /\ UNCHANGED <<mP2Apriori, mP2AprioriGuid>>
    BY <1>2 DEF AttemptReturns
  <2>2. SeqLen' = SeqLen
    BY <2>1 DEF SeqLen
  <2>3. ASSUME NEW i \in 1..SeqLen, mP2AprioriRes'[i] # "?"
        PROVE  mP2ApriWhy'[i] = WhyLetter(mP2ApriSt'[i])
    <3>1. i \in Slot
      BY <1>a
    <3>2. CASE IsSlotOf(i, g)
      BY <2>1, <3>1, <3>2 DEF MarkSeq
    <3>3. CASE ~IsSlotOf(i, g)
      BY <2>1, <2>3, <3>1, <3>3 DEF MarkSeq, WhyInv
    <3> QED BY <3>2, <3>3
  <2> QED BY <2>2, <2>3 DEF WhyInv
<1>3. CASE FwVolNotify \/ BeginStart \/ ScheduleReady \/ QuietStep
  <2>1. UNCHANGED <<mP2Apriori, slotVars>>
    BY <1>3 DEF FwVolNotify, BeginStart, ScheduleReady, QuietStep, PromoteMiss, PromoteEnd, Dispatch,
                BeginLoad, StartHangs, Finish, vars
  <2>2. SeqLen' = SeqLen
    BY <2>1 DEF SeqLen
  <2> QED BY <2>1, <2>2 DEF WhyInv, slotVars
<1> QED BY <1>1, <1>2, <1>3, StepKinds

(* The slots hold the hits in the file's order, the miss and the two       *)
(* matches are the outermost, and WHY has the letter of the status.        *)
THEOREM PromotionInvariant == Spec => [](DispatchInv /\ PromoteInv /\ WhyInv)
<1>1. Init => PromoteInv /\ WhyInv
  BY PromoteStart
<1>2. DispatchInv /\ (PromoteInv /\ WhyInv) /\ [Next]_vars => (PromoteInv /\ WhyInv)'
  BY PromoteStep, WhyStep
<1> QED BY <1>1, <1>2, DispatchInvariant, PTL DEF Spec

-----------------------------------------------------------------------------
(* What apriori-index.py reads from the letters. *)

(* The position, from 0, of the first of a set of indices. *)
FirstAt(I) == IF I = {} THEN None ELSE Min(I) - 1

(* The least number of a set. *)
LEMMA MinOf ==
    ASSUME NEW I \in SUBSET Nat, I # {}
    PROVE  Min(I) \in I /\ \A j \in I : Min(I) <= j
<1>1. \E i \in I : \A j \in I : i <= j
  BY LeastOfNaturals
<1> QED BY <1>1 DEF Min

(* What nons[0] and s.index('?') are. *)
LEMMA FirstFacts ==
    ASSUME NEW s
    PROVE  /\ FirstNot(s) = FirstAt({i \in 1..Len(s) : s[i] # "s"})
           /\ FirstPending(s) = FirstAt({i \in 1..Len(s) : s[i] = "?"})
<1>1. ASSUME NEW I, I \in SUBSET (1..Len(s))
      PROVE  LET n == IF I # {} THEN Min(I) ELSE 0 IN (IF n = 0 THEN None ELSE n - 1) = FirstAt(I)
  <2>1. I \in SUBSET Nat
    BY <1>1
  <2>2. I # {} => Min(I) \in 1..Len(s)
    BY <1>1, <2>1, MinOf
  <2>3. I # {} => Min(I) # 0
    BY <2>2
  <2> QED BY <2>3 DEF FirstAt
<1>2. FirstNot(s) = FirstAt({i \in 1..Len(s) : s[i] # "s"})
  <2> DEFINE I == {i \in 1..Len(s) : s[i] # "s"}
             n == IF I # {} THEN Min(I) ELSE 0
  <2>1. FirstNot(s) = IF n = 0 THEN None ELSE n - 1
    BY DEF FirstNot, SelectInSeq
  <2>2. I \in SUBSET (1..Len(s))
    OBVIOUS
  <2> HIDE DEF I
  <2>3. (IF n = 0 THEN None ELSE n - 1) = FirstAt(I)
    BY <1>1, <2>2
  <2> QED BY <2>1, <2>3 DEF I
<1>3. FirstPending(s) = FirstAt({i \in 1..Len(s) : s[i] = "?"})
  <2> DEFINE I == {i \in 1..Len(s) : s[i] = "?"}
             n == IF I # {} THEN Min(I) ELSE 0
  <2>1. FirstPending(s) = IF n = 0 THEN None ELSE n - 1
    BY DEF FirstPending, SelectInSeq
  <2>2. I \in SUBSET (1..Len(s))
    OBVIOUS
  <2> HIDE DEF I
  <2>3. (IF n = 0 THEN None ELSE n - 1) = FirstAt(I)
    BY <1>1, <2>2
  <2> QED BY <2>1, <2>3 DEF I
<1> QED BY <1>2, <1>3

(* The answers of decode(), one by one. *)
LEMMA DecodeFields ==
    ASSUME NEW img, NEW s, NEW table, NEW n, Len(s) = n
    PROVE  /\ Decode(img, s, table).bad <=> \E i \in 1..n : s[i] \notin table
           /\ Decode(img, s, table).at = FirstNot(s)
           /\ Decode(img, s, table).unattempted = FirstPending(s)
           /\ Decode(img, s, table).noneRan <=> \A i \in 1..n : s[i] # "S"
           /\ Decode(img, s, table).runs = Runs(s)
BY Zenon DEF Decode

(* Only EFI_SUCCESS has the letter 's'. *)
LEMMA WhyOfSuccess == \A status : WhyLetter(status) = "s" <=> status = Success
BY DEF WhyLetter, Success, SecurityViolation

(* Every reading of the letters is so, whatever volume they are read with. *)
LEMMA LettersAreTrue == ASSUME DispatchInv, WhyInv, NEW img \in Images PROVE LettersTell(img)
<1> DEFINE seq  == Decode(img, SeqLetters, SEQ_LETTERS)
           whys == [i \in 1..SeqLen |-> mP2ApriWhy[i]]
           why  == Decode(img, whys, WHY_TABLE)
           Tried(i) == {k \in 1..Len(attempts) : attempts[k].guid = mP2AprioriGuid[i]}
<1>0. TypeOK /\ SlotInv /\ SeqIsAPrefix /\ SlotsTellTheAttempts
  BY DEF DispatchInv
<1>1. /\ SeqLetters \in Seq(Letters) /\ Len(SeqLetters) = SeqLen /\ SeqLen \in Nat
      /\ \A i \in 1..SeqLen : SeqLetters[i] = mP2AprioriRes[i]
  BY <1>0, LettersFacts
<1>2. Len(whys) = SeqLen /\ \A i \in 1..SeqLen : whys[i] = mP2ApriWhy[i]
  <2>1. whys \in [1..SeqLen -> {mP2ApriWhy[i] : i \in 1..SeqLen}]
    OBVIOUS
  <2> QED BY <1>1, <2>1
<1>3. 1..SeqLen \subseteq Slot
  BY <1>0, SeqLenType DEF TypeOK
<1> HIDE DEF whys, seq, why
<1>4. /\ seq.bad <=> \E i \in 1..SeqLen : SeqLetters[i] \notin SEQ_LETTERS
      /\ seq.at = FirstNot(SeqLetters) /\ seq.unattempted = FirstPending(SeqLetters)
      /\ seq.noneRan <=> \A i \in 1..SeqLen : SeqLetters[i] # "S"
      /\ seq.runs = Runs(SeqLetters)
  <2>1. Len(SeqLetters) = SeqLen
    BY <1>1
  <2>2. /\ Decode(img, SeqLetters, SEQ_LETTERS).bad <=> \E i \in 1..SeqLen : SeqLetters[i] \notin SEQ_LETTERS
        /\ Decode(img, SeqLetters, SEQ_LETTERS).at = FirstNot(SeqLetters)
        /\ Decode(img, SeqLetters, SEQ_LETTERS).unattempted = FirstPending(SeqLetters)
        /\ Decode(img, SeqLetters, SEQ_LETTERS).noneRan <=> \A i \in 1..SeqLen : SeqLetters[i] # "S"
        /\ Decode(img, SeqLetters, SEQ_LETTERS).runs = Runs(SeqLetters)
    BY ONLY <2>1, DecodeFields
  <2> QED BY ONLY <2>2, Zenon DEF seq
<1>5. /\ why.bad <=> \E i \in 1..SeqLen : whys[i] \notin WHY_TABLE
      /\ why.at = FirstNot(whys)
  <2>1. Len(whys) = SeqLen
    BY <1>2
  <2>2. /\ Decode(img, whys, WHY_TABLE).bad <=> \E i \in 1..SeqLen : whys[i] \notin WHY_TABLE
        /\ Decode(img, whys, WHY_TABLE).at = FirstNot(whys)
    BY ONLY <2>1, DecodeFields
  <2> QED BY ONLY <2>2, Zenon DEF why
<1>6. ~seq.bad
  <2>1. ASSUME NEW i \in 1..SeqLen PROVE SeqLetters[i] \in SEQ_LETTERS
    <3>1. mP2AprioriRes[i] # "NUL" /\ mP2AprioriRes[i] \in {"NUL", "?", "s", "S", "L"}
      BY <1>0, <1>3 DEF SlotInv, TypeOK
    <3> QED BY <1>1, <3>1 DEF SEQ_LETTERS
  <2> QED BY <1>4, <2>1
<1>7. phase = "done" => ~why.bad
  <2>1. ASSUME phase = "done", NEW i \in 1..SeqLen PROVE whys[i] \in WHY_TABLE
    <3>1. whys[i] = WhyLetter(mP2ApriSt[i])
      BY <1>2, <2>1, DoneFacts DEF WhyInv
    <3>2. WhyLetter(mP2ApriSt[i]) \in WhyLetters \ {"NUL"}
      BY WhyLetterType
    <3> QED BY <3>1, <3>2 DEF WhyLetters, WHY_TABLE
  <2> QED BY <1>5, <2>1
<1>8. seq.unattempted # None => \A i \in (seq.unattempted + 1)..SeqLen : Tried(i) = {}
  <2> DEFINE I == {i \in 1..SeqLen : SeqLetters[i] = "?"}
  <2>1. seq.unattempted = FirstAt(I)
    <3>1. FirstPending(SeqLetters) = FirstAt({i \in 1..Len(SeqLetters) : SeqLetters[i] = "?"})
      BY FirstFacts
    <3> QED BY <1>1, <1>4, <3>1
  <2>2. ASSUME seq.unattempted # None, NEW i \in (seq.unattempted + 1)..SeqLen PROVE Tried(i) = {}
    <3>1. I # {} /\ seq.unattempted = Min(I) - 1
      <4> HIDE DEF I
      <4> QED BY <2>1, <2>2 DEF FirstAt
    <3>2. Min(I) \in I
      <4>1. I \in SUBSET Nat
        OBVIOUS
      <4> HIDE DEF I
      <4> QED BY <3>1, <4>1, MinOf
    <3> DEFINE m == Min(I)
    <3>3. m \in 1..SeqLen /\ mP2AprioriRes[m] = "?"
      <4>1. m \in 1..SeqLen /\ SeqLetters[m] = "?"
        BY <3>2
      <4> HIDE DEF m
      <4> QED BY <1>1, <4>1
    <3>4. seq.unattempted = m - 1
      BY <3>1
    <3> HIDE DEF m
    <3>5. i \in 1..SeqLen /\ m <= i
      BY <1>1, <2>2, <3>3, <3>4
    <3>6. mP2AprioriRes[i] = "?"
      <4>1. CASE m = i
        BY <3>3, <4>1
      <4>2. CASE m # i
        <5>1. m < i
          BY <3>3, <3>5, <4>2
        <5> QED BY <1>0, <3>3, <3>5, <5>1 DEF SeqIsAPrefix
      <4> QED BY <4>1, <4>2
    <3> QED BY <1>0, <3>5, <3>6 DEF SlotsTellTheAttempts
  <2> QED BY <2>2
<1>9. seq.noneRan => \A i \in 1..SeqLen : \A k \in Tried(i) : attempts[k].phase # "S"
  <2> SUFFICES ASSUME seq.noneRan, NEW i \in 1..SeqLen, NEW k \in Tried(i) PROVE attempts[k].phase # "S"
    OBVIOUS
  <2>1. k \in 1..Len(attempts) /\ attempts[k].guid = mP2AprioriGuid[i]
    OBVIOUS
  <2>2. mP2AprioriRes[i] # "?"
    BY <1>0, <2>1 DEF SlotsTellTheAttempts
  <2>3. PICK l \in 1..Len(attempts) :
          attempts[l] = Entry(mP2AprioriGuid[i], mP2AprioriRes[i], mP2ApriSt[i])
    BY <1>0, <2>2 DEF SlotsTellTheAttempts
  <2>4. attempts[l].guid = mP2AprioriGuid[i] /\ attempts[l].phase = mP2AprioriRes[i]
    BY <2>3 DEF Entry
  <2>5. l = k
    BY <1>0, <2>1, <2>4 DEF SlotsTellTheAttempts
  <2> QED BY <1>1, <1>4, <2>4, <2>5
<1>10. \A i \in 1..SeqLen : \E r \in 1..Len(seq.runs) :
              /\ seq.runs[r].start < i /\ i <= seq.runs[r].end + 1 /\ seq.runs[r].ch = SeqLetters[i]
              /\ r > 1 => seq.runs[r - 1].ch # seq.runs[r].ch
  <2>1. RunsTo(seq.runs, SeqLetters, Letters, SeqLen)
    BY <1>1, <1>4, RunsFacts
  <2> DEFINE runs == seq.runs
  <2>2. RunsTo(runs, SeqLetters, Letters, SeqLen)
    BY <2>1
  <2> HIDE DEF runs
  <2>3. /\ \A i \in 1..SeqLen : \E q \in 1..Len(runs) :
              runs[q].start < i /\ i <= runs[q].end + 1 /\ runs[q].ch = SeqLetters[i]
        /\ \A q \in 1..Len(runs) : q > 1 => runs[q - 1].ch # runs[q].ch
    BY <2>2 DEF RunsTo
  <2>4. \A i \in 1..SeqLen : \E r \in 1..Len(runs) :
              /\ runs[r].start < i /\ i <= runs[r].end + 1 /\ runs[r].ch = SeqLetters[i]
              /\ r > 1 => runs[r - 1].ch # runs[r].ch
    BY <2>3
  <2> QED BY <2>4 DEF runs
<1>11. phase = "done" =>
              /\ seq.at = why.at
              /\ IF FailedSlots = {} THEN seq.at = None
                 ELSE seq.at = KeyAt - 1 /\ whys[KeyAt] = WhyLetter(mP2ApriSt[KeyAt])
  <2> SUFFICES ASSUME phase = "done"
               PROVE  /\ seq.at = why.at
                      /\ IF FailedSlots = {} THEN seq.at = None
                         ELSE seq.at = KeyAt - 1 /\ whys[KeyAt] = WhyLetter(mP2ApriSt[KeyAt])
    OBVIOUS
  <2>1. \A i \in 1..SeqLen : mP2AprioriRes[i] # "?" /\ (mP2ApriSt[i] = Success <=> mP2AprioriRes[i] = "s")
    BY DoneFacts
  <2>2. \A i \in 1..SeqLen : whys[i] = WhyLetter(mP2ApriSt[i])
    BY <1>2, <2>1 DEF WhyInv
  <2>3. {i \in 1..SeqLen : SeqLetters[i] # "s"} = FailedSlots
    BY <1>1, <2>1 DEF FailedSlots
  <2>4. {i \in 1..SeqLen : whys[i] # "s"} = FailedSlots
    BY <2>2, WhyOfSuccess DEF FailedSlots
  <2>5. seq.at = FirstAt(FailedSlots)
    <3>1. FirstNot(SeqLetters) = FirstAt({i \in 1..Len(SeqLetters) : SeqLetters[i] # "s"})
      BY FirstFacts
    <3> QED BY <1>1, <1>4, <2>3, <3>1
  <2>6. why.at = FirstAt(FailedSlots)
    <3>1. FirstNot(whys) = FirstAt({i \in 1..Len(whys) : whys[i] # "s"})
      BY FirstFacts
    <3> QED BY <1>2, <1>5, <2>4, <3>1
  <2>7. FailedSlots # {} => KeyAt = Min(FailedSlots) /\ KeyAt \in 1..SeqLen
    <3>1. ASSUME FailedSlots # {} PROVE KeyAt \in FailedSlots
      BY <1>0, <3>1, KeyIsLeast
    <3> QED BY <3>1 DEF FailedSlots, KeyAt, Min
  <2> QED BY <2>2, <2>5, <2>6, <2>7 DEF FirstAt
<1> QED BY <1>6, <1>7, <1>8, <1>9, <1>10, <1>11 DEF LettersTell, seq, why, whys

-----------------------------------------------------------------------------
(* A walk that stopped after `seen` drivers, of an image the device scanned *)
(* to the end: a tool's match is the device's hit.                         *)
LEMMA StopFacts ==
    ASSUME DispatchInv, PromoteInv, NEW img \in Images, NEW seen, StoppedAt(img, seen)
    PROVE  /\ img.apriori = AprioriFile /\ Len(AprioriFile) \in Nat \ {0}
           /\ scanIdx > 0 /\ scanIdx - 1 = Len(AprioriFile) /\ scanIdx = Len(AprioriFile) + 1
           /\ \A g : MatchedBy(img, g, seen) <=> g \in walked
           /\ HitsOf(img, seen) = Hits /\ 1 \notin Hits
           /\ Hits \in SUBSET (1..Len(AprioriFile))
           /\ SlotsHoldTheHits /\ MissIsLeast /\ FirstIsLeast /\ LastIsGreatest
           /\ mP2Apriori \in Nat /\ mP2ApriUnhit \in Nat /\ mP2ApriMatchLast \in Nat
           /\ mP2ApriMiss \in Nat \cup {None} /\ mP2ApriMatchFirst \in Nat \cup {None}
           /\ mP2Apriori = Rank(Hits, Len(AprioriFile))
           /\ mP2Apriori + mP2ApriUnhit = Len(AprioriFile)
           /\ Len(Drivers(img)) \in Nat /\ seen \in Nat /\ seen <= Len(Drivers(img))
<1>1. TypeOK /\ ScanInv /\ VolumeInv
  BY DEF DispatchInv
<1>2. /\ AprioriFile # <<>> /\ scanIdx = Len(AprioriFile) + 1 /\ img.apriori = AprioriFile
      /\ seen = Cardinality(walked) /\ seen <= Len(Drivers(img))
      /\ walked = {Drivers(img)[k].guid : k \in 1..seen}
  BY DEF StoppedAt, LoopIsOver
<1>3. AprioriFile \in Seq(Guid) /\ Len(AprioriFile) \in Nat \ {0}
  <2>1. AprioriFile \in Seq(Guid)
    BY <1>1 DEF TypeOK
  <2> QED BY <1>2, <2>1, LenProperties, EmptySeq
<1>4. scanIdx > 0 /\ scanIdx - 1 = Len(AprioriFile)
  BY <1>2, <1>3
<1>5. Len(Drivers(img)) \in Nat
  <2>1. Drivers(img) \in Seq(ImageFile)
    BY DriversArePicked DEF Picked
  <2> QED BY <2>1, LenProperties
<1>6. seen \in Nat
  <2>1. IsFiniteSet(walked)
    <3>1. walked \in SUBSET Guid
      BY <1>1 DEF TypeOK, Driver
    <3> QED BY <3>1, GuidAssumption, FS_Subset
  <2> QED BY <1>2, <2>1, FS_CardinalityType
<1>7. \A g : MatchedBy(img, g, seen) <=> g \in walked
  <2> DEFINE D == Drivers(img)
             d == Len(D)
  <2>1. walked = {D[k].guid : k \in 1..seen} /\ d \in Nat /\ seen <= d
    BY <1>2, <1>5
  <2>2. \A g : MatchedBy(img, g, seen) <=> \E k \in 1..d : k <= seen /\ D[k].guid = g
    BY DEF MatchedBy
  <2> HIDE DEF D, d
  <2>3. \A k : k \in 1..seen <=> (k \in 1..d /\ k <= seen)
    BY <1>6, <2>1
  <2> QED BY <2>1, <2>2, <2>3
<1>8. HitsOf(img, seen) = Hits
  BY <1>2, <1>7 DEF HitsOf, Hits
<1>9. 1 \notin Hits
  <2>1. AprioriFile[1] = DxeCore
    BY <1>1, <1>2 DEF VolumeInv, AprioriShape
  <2>2. DxeCore \notin walked
    BY <1>1 DEF TypeOK, Driver
  <2> QED BY <2>1, <2>2 DEF Hits
<1>10. SlotsHoldTheHits /\ MissIsLeast /\ FirstIsLeast /\ LastIsGreatest
  BY <1>4 DEF PromoteInv
<1>11. /\ mP2Apriori \in Nat /\ mP2ApriUnhit \in Nat /\ mP2ApriMatchLast \in Nat
       /\ mP2ApriMiss \in Nat \cup {None} /\ mP2ApriMatchFirst \in Nat \cup {None}
  BY <1>1 DEF TypeOK
<1>12. mP2Apriori = Rank(Hits, Len(AprioriFile))
  BY <1>4, <1>10 DEF SlotsHoldTheHits
<1>13. mP2Apriori + mP2ApriUnhit = Len(AprioriFile)
  BY <1>1, <1>4 DEF ScanInv
<1>14. Hits \in SUBSET (1..Len(AprioriFile))
  BY DEF Hits
<1> QED BY <1>2, <1>3, <1>4, <1>5, <1>6, <1>7, <1>8, <1>9, <1>10, <1>11, <1>12, <1>13, <1>14

(* The entries from 0 that were hit, those that were not, and the miss.    *)
LEMMA UnhitFacts ==
    ASSUME DispatchInv, PromoteInv, NEW img \in Images, NEW seen, StoppedAt(img, seen)
    PROVE  /\ Entries(img) = 0..(Len(AprioriFile) - 1)
           /\ Unhit(img, seen) = {a \in Entries(img) : a + 1 \notin Hits}
           /\ Cardinality(Unhit(img, seen)) = mP2ApriUnhit
           /\ mP2ApriMiss = Miss(img, seen)
<1> DEFINE n == Len(AprioriFile)
           E == 0..(n - 1)
           C == {b \in 0..(n - 1) : b + 1 \in Hits}
           U == Unhit(img, seen)
<1>1. /\ img.apriori = AprioriFile /\ n \in Nat \ {0} /\ scanIdx - 1 = n
      /\ \A g : MatchedBy(img, g, seen) <=> g \in walked
      /\ MissIsLeast /\ mP2ApriUnhit \in Nat /\ mP2Apriori \in Nat
      /\ mP2ApriMiss \in Nat \cup {None}
      /\ mP2Apriori = Rank(Hits, n) /\ mP2Apriori + mP2ApriUnhit = n
  BY StopFacts
<1>2. Entries(img) = E
  BY <1>1 DEF Entries
<1>3. \A a \in E : MatchedBy(img, EntryAt(img, a), seen) <=> a + 1 \in Hits
  <2>1. \A a \in E : a + 1 \in 1..n /\ EntryAt(img, a) = AprioriFile[a + 1]
    BY <1>1 DEF EntryAt
  <2> QED BY <1>1, <2>1 DEF Hits
<1>4. U = {a \in E : a + 1 \notin Hits}
  BY <1>2, <1>3 DEF Unhit
<1> HIDE DEF n
<1>5. Cardinality(U) = mP2ApriUnhit
  <2>1. IsFiniteSet(E) /\ Cardinality(E) = n
    <3>1. 0 \in Int /\ n - 1 \in Int
      BY <1>1
    <3>2. IsFiniteSet(0..(n - 1)) /\ Cardinality(0..(n - 1)) = IF 0 > n - 1 THEN 0 ELSE n - 1 - 0 + 1
      BY <3>1, FS_Interval
    <3> QED BY <1>1, <3>2
  <2>2. Cardinality(C) = Rank(Hits, n)
    BY <1>1, ShiftCount
  <2>3. U = E \ C /\ E \cap C = C
    BY <1>4
  <2> HIDE DEF E, C, U
  <2>4. Cardinality(E \ C) = Cardinality(E) - Cardinality(E \cap C)
    BY <2>1, FS_Difference
  <2>5. Cardinality(U) = n - Rank(Hits, n)
    BY <2>1, <2>2, <2>3, <2>4
  <2> HIDE DEF n
  <2> QED BY <1>1, <2>5
<1>6. mP2ApriMiss = Miss(img, seen)
  <2> DEFINE u == U \ {0}
             m == mP2ApriMiss
  <2>1. Miss(img, seen) = IF u = {} THEN None ELSE CHOOSE a \in u : \A b \in u : a <= b
    BY DEF Miss
  <2>2. \A a : a \in u <=> (a \in 1..(n - 1) /\ a + 1 \notin Hits)
    BY <1>1, <1>4
  <2> HIDE DEF u
  <2>3. CASE m = None
    <3>1. \A k \in 2..n : k \in Hits
      BY <1>1, <2>3 DEF MissIsLeast
    <3>2. \A a \in 1..(n - 1) : a + 1 \in 2..n
      BY <1>1
    <3>3. u = {}
      BY <2>2, <3>1, <3>2
    <3> QED BY <2>1, <2>3, <3>3
  <2>4. CASE m # None
    <3>1. m + 1 \in 2..n /\ m + 1 \notin Hits /\ \A k \in 2..m : k \in Hits
      BY <1>1, <2>4 DEF MissIsLeast
    <3>2. m \in Nat
      BY <1>1, <2>4
    <3>3. m \in u
      BY <1>1, <2>2, <3>1, <3>2
    <3>4. ASSUME NEW b \in u PROVE m <= b /\ b \in Nat
      <4>1. b \in 1..(n - 1) /\ b + 1 \notin Hits /\ b \in Nat
        BY <1>1, <2>2
      <4>2. b < m => b + 1 \in 2..m
        BY <3>2, <4>1
      <4> QED BY <3>1, <3>2, <4>1, <4>2
    <3> HIDE DEF m
    <3>5. (CHOOSE a \in u : \A b \in u : a <= b) = m
      <4>1. \A a \in u : (\A b \in u : a <= b) => a = m
        BY <3>2, <3>3, <3>4
      <4>2. \E a \in u : \A b \in u : a <= b
        BY <3>3, <3>4
      <4> QED BY <4>1, <4>2
    <3>6. u # {}
      BY <3>3
    <3> QED BY <2>1, <3>5, <3>6 DEF m
  <2> QED BY <2>3, <2>4
<1> QED BY <1>2, <1>4, <1>5, <1>6 DEF n

(* The batch apriori-prefix.py computes is what the slots hold. *)
LEMMA BatchFacts ==
    ASSUME DispatchInv, PromoteInv, NEW img \in Images, NEW seen, StoppedAt(img, seen)
    PROVE  LET batch == Batch(img, seen)
           IN  /\ mP2Apriori = Len(batch)
               /\ batch # <<>> => /\ mP2ApriMatchFirst = batch[1]
                                  /\ mP2ApriMatchLast = batch[Len(batch)]
               /\ \A i \in 1..SeqLen : mP2AprioriGuid[i] = EntryAt(img, batch[i])
<1> DEFINE n == Len(AprioriFile)
           v == Batch(img, seen)
<1>1. /\ img.apriori = AprioriFile /\ n \in Nat \ {0} /\ scanIdx - 1 = n /\ scanIdx = n + 1
      /\ HitsOf(img, seen) = Hits /\ Hits \in SUBSET (1..n)
      /\ SlotsHoldTheHits /\ FirstIsLeast /\ LastIsGreatest
      /\ mP2Apriori \in Nat /\ mP2ApriMatchLast \in Nat /\ mP2ApriMatchFirst \in Nat \cup {None}
      /\ mP2Apriori = Rank(Hits, n)
  BY StopFacts
<1>2. Picked(v, Nat, Hits, BatchAt(img), n)
  BY <1>1, BatchIsPicked
<1>3. \A k \in 1..n : BatchAt(img)[k] = k - 1
  BY <1>1 DEF BatchAt
<1> HIDE DEF n, v
<1>4. v \in Seq(Nat) /\ Len(v) = Rank(Hits, n) /\ \A k \in Hits : k \in 1..n /\ v[Rank(Hits, k)] = k - 1
  <2>1. \A k \in Hits : k \in Hits \cap 1..n
    BY <1>1
  <2> QED BY <1>2, <1>3, <2>1 DEF Picked
<1>5. ASSUME v # <<>> PROVE mP2ApriMatchFirst = v[1] /\ mP2ApriMatchLast = v[Len(v)]
  <2>1. Len(v) \in Nat \ {0}
    BY <1>4, <1>5, LenProperties, EmptySeq
  <2>2. \E k \in 1..n : k \in Hits
    <3>1. 1 \in 1..Rank(Hits, n)
      BY <1>4, <2>1
    <3> QED BY <1>1, <3>1, RankOnto
  <2>3. mP2ApriMatchFirst = v[1]
    <3> DEFINE f == mP2ApriMatchFirst
    <3>1. f + 1 \in 1..n /\ f + 1 \in Hits /\ f \in Nat /\ \A k \in 1..f : k \notin Hits
      <4>1. mP2ApriMatchFirst # None
        BY <1>1, <2>2 DEF FirstIsLeast
      <4> QED BY <1>1, <4>1 DEF FirstIsLeast
    <3> HIDE DEF f
    <3>2. Rank(Hits, f) = 0
      <4>1. Hits \cap 1..f = {}
        BY <3>1
      <4> QED BY <4>1, FS_EmptySet DEF Rank
    <3>3. Rank(Hits, f + 1) = 1
      <4>1. Rank(Hits, f + 1) = Rank(Hits, f) + 1
        BY <3>1, RankStep
      <4> QED BY <3>2, <4>1
    <3>4. v[1] = (f + 1) - 1
      BY <1>4, <3>1, <3>3
    <3> QED BY <3>1, <3>4 DEF f
  <2>4. mP2ApriMatchLast = v[Len(v)]
    <3> DEFINE l == mP2ApriMatchLast
    <3>1. l + 1 \in 1..n /\ l + 1 \in Hits /\ l \in Nat /\ \A k \in (l + 2)..n : k \notin Hits
      BY <1>1, <2>2 DEF LastIsGreatest
    <3> HIDE DEF l
    <3>2. Rank(Hits, l + 1) = Rank(Hits, n)
      <4>1. Hits \cap 1..(l + 1) = Hits \cap 1..n
        BY <1>1, <3>1
      <4> QED BY ONLY <4>1, Zenon DEF Rank
    <3>3. v[Len(v)] = (l + 1) - 1
      BY <1>4, <3>1, <3>2
    <3> QED BY <3>1, <3>3 DEF l
  <2> QED BY <2>3, <2>4
<1>6. ASSUME NEW i \in 1..SeqLen PROVE mP2AprioriGuid[i] = EntryAt(img, v[i])
  <2>1. i \in Nat /\ i \in 1..mP2Apriori /\ i <= AprioriMax
    <3>1. SeqLen \in Nat /\ SeqLen <= AprioriMax /\ SeqLen <= mP2Apriori
      BY <1>1, SeqLenType
    <3> QED BY <1>1, <3>1, GuidAssumption
  <2>2. PICK u \in Hits \cap 1..n : Rank(Hits, u) = i
    BY <1>1, <2>1, RankOnto
  <2>3. mP2AprioriGuid[i] = AprioriFile[u]
    <3>1. u < scanIdx
      BY <1>1, <2>2
    <3> QED BY <1>1, <2>1, <2>2, <3>1 DEF SlotsHoldTheHits
  <2>4. v[i] = u - 1 /\ (u - 1) + 1 = u
    BY <1>4, <2>2
  <2> QED BY <1>1, <2>3, <2>4 DEF EntryAt
<1>7. mP2Apriori = Len(v)
  BY <1>1, <1>4
<1> QED BY <1>5, <1>6, <1>7 DEF v

(* Told what was not hit, apriori-index.py counts to the slot of an entry. *)
LEMMA PositionFacts ==
    ASSUME DispatchInv, PromoteInv, NEW img \in Images, NEW seen, StoppedAt(img, seen),
           NEW skips, skips = Unhit(img, seen)
    PROVE  /\ Cardinality(DOMAIN Positions(img, skips)) = mP2Apriori
           /\ \A a \in DOMAIN Positions(img, skips) :
                 /\ Positions(img, skips)[a] \in Nat
                 /\ Positions(img, skips)[a] < SeqLen =>
                       mP2AprioriGuid[Positions(img, skips)[a] + 1] = EntryAt(img, a)
<1> DEFINE n == Len(AprioriFile)
           pos == Positions(img, skips)
           C == {b \in 0..(n - 1) : b + 1 \in Hits}
<1>1. /\ img.apriori = AprioriFile /\ n \in Nat \ {0} /\ scanIdx - 1 = n /\ scanIdx = n + 1
      /\ Hits \in SUBSET (1..n) /\ SlotsHoldTheHits
      /\ mP2Apriori \in Nat /\ mP2Apriori = Rank(Hits, n)
  BY StopFacts
<1>2. Entries(img) = 0..(n - 1) /\ skips = {a \in Entries(img) : a + 1 \notin Hits}
  BY UnhitFacts
<1> HIDE DEF n
<1>3. Entries(img) \ skips = C
  BY <1>2
<1>4. DOMAIN pos = C /\ \A a \in C : pos[a] = Cardinality((0..(a - 1)) \ skips)
  BY <1>3 DEF Positions
<1>5. Cardinality(DOMAIN pos) = mP2Apriori
  <2>1. Cardinality(C) = Rank(Hits, n)
    BY <1>1, ShiftCount
  <2> QED BY <1>1, <1>4, <2>1
<1> HIDE DEF pos
<1>6. ASSUME NEW a \in C PROVE pos[a] \in Nat /\ (pos[a] < SeqLen => mP2AprioriGuid[pos[a] + 1] = EntryAt(img, a))
  <2>1. a \in Nat /\ a <= n - 1 /\ a + 1 \in Hits
    BY <1>1
  <2>2. (0..(a - 1)) \ skips = {b \in 0..(a - 1) : b + 1 \in Hits}
    BY <1>1, <1>2, <2>1
  <2>3. pos[a] = Rank(Hits, a)
    BY <1>4, <2>1, <2>2, ShiftCount
  <2>4. Rank(Hits, a) \in Nat /\ Rank(Hits, a + 1) = Rank(Hits, a) + 1
    BY <2>1, RankStep
  <2>5. ASSUME pos[a] < SeqLen PROVE mP2AprioriGuid[pos[a] + 1] = EntryAt(img, a)
    <3>1. SeqLen \in Nat /\ SeqLen <= AprioriMax
      BY <1>1, SeqLenType
    <3>2. Rank(Hits, a + 1) <= AprioriMax
      BY <2>3, <2>4, <2>5, <3>1, GuidAssumption
    <3>3. a + 1 < scanIdx
      BY <1>1, <2>1
    <3>4. mP2AprioriGuid[Rank(Hits, a + 1)] = AprioriFile[a + 1]
      BY <1>1, <2>1, <3>2, <3>3 DEF SlotsHoldTheHits
    <3> QED BY <1>1, <2>3, <2>4, <3>4 DEF EntryAt
  <2> QED BY <2>3, <2>4, <2>5
<1> QED BY <1>4, <1>5, <1>6 DEF pos

(* What a walk did not hit, no later driver of the volume would have been. *)
LEMMA SkipFacts ==
    ASSUME DispatchInv, PromoteInv, NEW img \in Images, NEW seen \in 0..Len(img.files),
           StoppedAt(img, seen)
    PROVE  /\ Skips(img, Unhit(img, seen)) = Unhit(img, seen)
           /\ seen = Len(Drivers(img)) => Skips(img, {}) = Unhit(img, seen)
<1> DEFINE D == Drivers(img)
           d == Len(D)
           m == Len(img.files)
<1>1. m \in Nat /\ d \in Nat /\ seen \in Nat /\ seen <= m /\ d <= m
  <2>1. Len(Drivers(img)) \in Nat /\ seen \in Nat
    BY StopFacts
  <2>2. m \in Nat
    BY ImageFacts
  <2>3. d = Rank(DriverFiles(img), m)
    BY DriversArePicked DEF Picked
  <2>4. d <= m
    <3> HIDE DEF d, m
    <3> QED BY <2>2, <2>3, RankWithin
  <2> QED BY <2>1, <2>2, <2>4
<1>2. \A g, l : MatchedBy(img, g, l) <=> \E k \in 1..d : k <= l /\ D[k].guid = g
  BY DEF MatchedBy
<1> HIDE DEF D, d, m
<1>3. \A g : MatchedBy(img, g, seen) => MatchedBy(img, g, m)
  BY <1>1, <1>2
<1>4. seen = d => \A g : MatchedBy(img, g, m) => MatchedBy(img, g, seen)
  BY <1>1, <1>2
<1>5. \A S : Skips(img, S) = S \cup {a \in Entries(img) : ~MatchedBy(img, EntryAt(img, a), m)}
  BY DEF Skips, m
<1> DEFINE U == Unhit(img, seen)
<1>6. U = {a \in Entries(img) : ~MatchedBy(img, EntryAt(img, a), seen)}
  BY DEF Unhit
<1> HIDE DEF U
<1>7. Skips(img, U) = U
  BY <1>3, <1>5, <1>6
<1>8. seen = d => Skips(img, {}) = U
  BY <1>3, <1>4, <1>5, <1>6
<1> QED BY <1>7, <1>8 DEF U, d, D

(* The line is shorter than the volume's array only after a walk that     *)
(* stopped, and after a whole one the names are right.                     *)
LEMMA LengthIsTrue ==
    ASSUME DispatchInv, PromoteInv, NEW img \in Images, NEW seen \in 0..Len(img.files),
           StoppedAt(img, seen)
    PROVE  LengthTells(img, seen)
<1> DEFINE seq == Decode(img, SeqLetters, SEQ_LETTERS)
           pos == Positions(img, Skips(img, {}))
           d   == Len(Drivers(img))
<1>1. Len(SeqLetters) = SeqLen /\ SeqLen \in Nat
  BY LettersFacts DEF DispatchInv
<1>2. /\ seq.stopped <=> Len(SeqLetters) # Cardinality(DOMAIN pos)
      /\ seq.named = [i \in 1..Len(SeqLetters) |-> EntryOfSlot(pos, i - 1)]
  BY Zenon DEF Decode
<1>3. mP2Apriori \in Nat /\ d \in Nat /\ seen \in Nat /\ seen <= d
  BY StopFacts
<1>4. ASSUME seen = d
      PROVE  /\ Cardinality(DOMAIN pos) = mP2Apriori
             /\ \A a \in DOMAIN pos :
                   pos[a] \in Nat /\ (pos[a] < SeqLen => mP2AprioriGuid[pos[a] + 1] = EntryAt(img, a))
  <2>1. Skips(img, {}) = Unhit(img, seen)
    BY <1>4, SkipFacts
  <2> QED BY <2>1, PositionFacts
<1> HIDE DEF seq, pos, d
<1>5. (seq.stopped /\ mP2Apriori <= AprioriMax) => seen < d
  <2>1. mP2Apriori <= AprioriMax => SeqLen = mP2Apriori
    BY <1>3, GuidAssumption DEF SeqLen
  <2> QED BY <1>1, <1>2, <1>3, <1>4, <2>1
<1>6. ASSUME seen = d, NEW i \in 1..SeqLen, NEW a \in seq.named[i]
      PROVE  EntryAt(img, a) = mP2AprioriGuid[i]
  <2>1. seq.named[i] = EntryOfSlot(pos, i - 1)
    BY <1>1, <1>2
  <2>2. a \in DOMAIN pos /\ pos[a] = i - 1
    BY <1>6, <2>1 DEF EntryOfSlot
  <2>3. pos[a] < SeqLen /\ pos[a] + 1 = i
    BY <1>1, <2>2
  <2> QED BY <1>4, <1>6, <2>2, <2>3
<1> QED BY <1>5, <1>6 DEF LengthTells, seq, d

-----------------------------------------------------------------------------
(* fv-census.py thinks of the stop as a file: that of the last driver seen *)
(* or of anything behind it and before the next.                           *)
LEMMA StopPromotes ==
    ASSUME DispatchInv, PromoteInv, NEW img \in Images, NEW seen, StoppedAt(img, seen),
           NothingAbsent(img), NEW k \in Physical(img) \cup {-1}, Rank(DriverFiles(img), k + 1) = seen
    PROVE  k \in Candidates(img, mP2Apriori) \cap MissBand(img, mP2ApriMiss)
<1> DEFINE n == Len(AprioriFile)
           m == Len(img.files)
           T == DriverFiles(img)
           D == Drivers(img)
           E == Entries(img)
<1>1. /\ img.apriori = AprioriFile /\ n \in Nat \ {0} /\ Hits \in SUBSET (1..n) /\ 1 \notin Hits
      /\ mP2Apriori = Rank(Hits, n) /\ \A g : MatchedBy(img, g, seen) <=> g \in walked
      /\ Len(D) \in Nat /\ seen \in Nat /\ seen <= Len(D)
  BY StopFacts
<1>2. E = 0..(n - 1) /\ Unhit(img, seen) = {a \in E : a + 1 \notin Hits} /\ mP2ApriMiss = Miss(img, seen)
  BY UnhitFacts
<1>3. /\ m \in Nat
      /\ \A i, j \in 1..m : (img.files[i].type = DRIVER /\ img.files[j].guid = img.files[i].guid) => i = j
  BY ImageFacts
<1>4. Picked(D, ImageFile, T, img.files, m)
  BY DriversArePicked
<1>5. k + 1 \in Nat /\ k \in Int /\ k <= m - 1
  BY <1>3 DEF Physical
<1>6. walked = {D[l].guid : l \in 1..seen}
  BY DEF StoppedAt
<1>7. \A a \in E \ {0} : \E l \in 1..Len(D) : D[l].guid = EntryAt(img, a)
  BY DEF NothingAbsent
<1>8. \A u \in T : u \in 1..m /\ u \in Nat /\ img.files[u].type = DRIVER
  BY <1>3 DEF DriverFiles
<1> HIDE DEF n, m, T, D, E
<1>9. ASSUME NEW a \in E \ {0} PROVE Within(img, a, k) <=> a + 1 \in Hits
  <2> DEFINE g == EntryAt(img, a)
  <2>1. a \in 0..(n - 1) /\ a + 1 \in 1..n /\ g = AprioriFile[a + 1]
    BY <1>1, <1>2 DEF EntryAt
  <2>2. a + 1 \in Hits <=> g \in walked
    BY <2>1 DEF Hits, n
  <2>3. PICK l \in 1..Len(D) : D[l].guid = g
    BY <1>7
  <2>4. PICK u \in T \cap 1..m : Rank(T, u) = l /\ D[l] = img.files[u]
    BY <1>3, <1>4, PickedFrom
  <2> HIDE DEF g
  <2>5. u \in 1..m /\ u \in Nat /\ img.files[u].type = DRIVER /\ img.files[u].guid = g
    BY <1>8, <2>3, <2>4
  <2>6. ByGuidOr0(img, g) = u - 1
    <3> DEFINE S == {i \in Physical(img) : FileAt(img, i).guid = g}
    <3>1. u - 1 \in Physical(img) /\ FileAt(img, u - 1).guid = g
      <4>1. u - 1 \in 0..(m - 1) /\ (u - 1) + 1 = u
        BY <1>3, <2>5
      <4> QED BY <2>5, <4>1 DEF Physical, FileAt, m
    <3>2. ASSUME NEW i \in S PROVE i = u - 1
      <4>1. i \in 0..(m - 1) /\ img.files[i + 1].guid = g
        BY DEF Physical, FileAt, m
      <4>2. i + 1 \in 1..m
        BY <1>3, <4>1
      <4>3. i + 1 = u
        BY <1>3, <2>5, <4>1, <4>2
      <4> QED BY <4>1, <4>3
    <3>3. S = {u - 1} /\ u - 1 \in Int
      BY <2>5, <3>1, <3>2
    <3>4. ByGuidOr0(img, g) = IF S = {} THEN 0 ELSE CHOOSE i \in S : \A j \in S : j <= i
      BY DEF ByGuidOr0
    <3> HIDE DEF S
    <3>5. (CHOOSE i \in S : \A j \in S : j <= i) = u - 1
      <4> DEFINE x == u - 1
      <4>1. S = {x} /\ x <= x
        BY <3>3
      <4> HIDE DEF x
      <4>2. (CHOOSE i \in S : \A j \in S : j <= i) = x
        BY <4>1
      <4> QED BY <4>2 DEF x
    <3> QED BY <3>3, <3>4, <3>5
  <2>7. Within(img, a, k) <=> u <= k + 1
    <3>1. Within(img, a, k) <=> u - 1 <= k
      BY <2>6 DEF Within, g
    <3> QED BY <1>5, <2>5, <3>1
  <2>8. u <= k + 1 <=> l <= seen
    <3>1. Rank(T, k + 1) = seen
      BY DEF T
    <3> DEFINE p == k + 1
    <3>2. p \in Nat /\ Rank(T, p) = seen
      BY <1>5, <3>1
    <3> HIDE DEF p
    <3>3. u <= p => Rank(T, u) <= Rank(T, p)
      BY <2>5, <3>2, RankGrows
    <3>4. p < u => Rank(T, p) < Rank(T, u)
      BY <2>4, <2>5, <3>2, RankGrows
    <3>5. Rank(T, u) \in Nat
      BY <2>5, RankStep
    <3> QED BY <1>1, <2>4, <2>5, <3>2, <3>3, <3>4, <3>5 DEF p
  <2>9. g \in walked <=> l <= seen
    <3>1. l <= seen => g \in walked
      <4>1. l <= seen => l \in 1..seen
        BY <1>1, <2>3
      <4> QED BY <1>6, <2>3, <4>1
    <3>2. ASSUME g \in walked PROVE l <= seen
      <4>1. PICK q \in 1..seen : D[q].guid = g
        BY <1>6, <3>2
      <4>2. q \in 1..Len(D)
        BY <1>1
      <4>3. PICK w \in T \cap 1..m : Rank(T, w) = q /\ D[q] = img.files[w]
        BY <1>3, <1>4, <4>2, PickedFrom
      <4>4. w = u
        BY <1>3, <1>8, <2>5, <4>1, <4>3
      <4> QED BY <1>1, <2>4, <4>3, <4>4
    <3> QED BY <3>1, <3>2
  <2> QED BY <2>2, <2>7, <2>8, <2>9
<1>10. PromotedCount(img, k) = mP2Apriori
  <2> DEFINE W == {a \in E \ {0} : Within(img, a, k)}
  <2>1. PromotedCount(img, k) = Cardinality(W)
    BY DEF PromotedCount, E
  <2>2. W = {b \in 0..(n - 1) : b + 1 \in Hits}
    <3>1. \A b \in 0..(n - 1) : b + 1 \in Hits => b # 0
      BY <1>1
    <3> QED BY <1>2, <1>9, <3>1
  <2> HIDE DEF W
  <2>3. Cardinality(W) = Rank(Hits, n)
    BY <1>1, <2>2, ShiftCount
  <2> QED BY <1>1, <2>1, <2>3
<1>11. FirstMiss(img, k) = mP2ApriMiss
  <2> DEFINE M == {a \in E \ {0} : ~Within(img, a, k)}
             U == Unhit(img, seen) \ {0}
  <2>1. FirstMiss(img, k) = IF M = {} THEN None ELSE CHOOSE a \in M : \A b \in M : a <= b
    BY DEF FirstMiss, E
  <2>2. Miss(img, seen) = IF U = {} THEN None ELSE CHOOSE a \in U : \A b \in U : a <= b
    BY DEF Miss
  <2>3. M = U
    BY <1>2, <1>9
  <2> HIDE DEF M, U
  <2> QED BY <1>2, <2>1, <2>2, <2>3
<1> QED BY <1>10, <1>11 DEF Candidates, MissBand

(* The drivers seen up to a file, and the last of them. *)
LEMMA SeenFacts ==
    ASSUME NEW img \in Images, NEW k \in Physical(img)
    PROVE  /\ SeenAt(img, k) = Rank(DriverFiles(img), k + 1)
           /\ SeenAt(img, k) > 0 => WalkLast(img, k) = Drivers(img)[SeenAt(img, k)].guid
<1> DEFINE m == Len(img.files)
           T == DriverFiles(img)
           D == Drivers(img)
           S == {i \in 0..k : FileAt(img, i).type = DRIVER}
           p == k + 1
<1>1. m \in Nat
  BY ImageFacts
<1>2. p \in Nat /\ p <= m /\ k \in Nat
  BY <1>1 DEF Physical
<1>3. \A u : u \in T <=> (u \in 1..m /\ img.files[u].type = DRIVER)
  BY DEF DriverFiles
<1>4. S = {b \in 0..(p - 1) : b + 1 \in T}
  <2>1. p - 1 = k /\ \A b \in 0..k : b + 1 \in 1..m
    BY <1>1, <1>2
  <2> QED BY <1>3, <2>1 DEF FileAt
<1>5. SeenAt(img, k) = Cardinality(S)
  BY DEF SeenAt
<1>6. WalkLast(img, k) = IF S = {} THEN NoGuid ELSE FileAt(img, CHOOSE i \in S : \A j \in S : j <= i).guid
  BY DEF WalkLast
<1>7. Picked(D, ImageFile, T, img.files, m)
  BY DriversArePicked
<1> HIDE DEF m, T, D, S
<1>8. Cardinality(S) = Rank(T, p)
  <2> HIDE DEF p
  <2> QED BY <1>2, <1>4, ShiftCount
<1>9. ASSUME Rank(T, p) > 0 PROVE WalkLast(img, k) = D[Rank(T, p)].guid
  <2>0. Rank(T, p) \in Nat
    <3> HIDE DEF p
    <3> QED BY <1>2, RankStep
  <2>1. PICK u \in T \cap 1..p : Rank(T, u) = Rank(T, p)
    <3>1. Rank(T, p) \in 1..Rank(T, p)
      BY <1>9, <2>0
    <3> HIDE DEF p
    <3> QED BY <1>2, <3>1, RankOnto
  <2>2. u \in Nat /\ u \in T /\ u \in 1..p /\ u \in T \cap 1..m
    BY <1>1, <1>2, <2>1
  <2>3. D[Rank(T, p)] = img.files[u]
    BY <1>7, <2>1, <2>2 DEF Picked
  <2>4. u - 1 \in S
    <3>1. u - 1 \in 0..(p - 1) /\ (u - 1) + 1 = u
      BY <1>2, <2>2
    <3> QED BY <1>4, <2>2, <3>1
  <2>5. ASSUME NEW j \in S PROVE j <= u - 1 /\ j \in Nat
    <3>1. j \in Nat /\ j + 1 \in T /\ j + 1 <= p
      BY <1>2, <1>4
    <3> DEFINE w == j + 1
    <3>2. w \in Nat /\ w \in T /\ w <= p
      BY <3>1
    <3> HIDE DEF w, p
    <3>3. u < w => Rank(T, u) < Rank(T, w)
      BY <2>2, <3>2, RankGrows
    <3>4. Rank(T, w) <= Rank(T, p)
      BY <1>2, <3>2, RankGrows
    <3>5. Rank(T, w) \in Nat
      BY <3>2, RankStep
    <3>6. ~(u < w)
      BY <2>0, <2>1, <3>3, <3>4, <3>5
    <3> QED BY <2>2, <3>1, <3>2, <3>6 DEF w
  <2>6. (CHOOSE i \in S : \A j \in S : j <= i) = u - 1
    <3> DEFINE x == u - 1
    <3>1. x \in S /\ x \in Nat /\ \A j \in S : j <= x /\ j \in Nat
      BY <2>4, <2>5
    <3> HIDE DEF x
    <3>2. \A i \in S : (\A j \in S : j <= i) => i = x
      BY <3>1
    <3>3. \E i \in S : \A j \in S : j <= i
      BY <3>1
    <3>4. (CHOOSE i \in S : \A j \in S : j <= i) = x
      BY <3>2, <3>3
    <3> QED BY <3>4 DEF x
  <2>7. FileAt(img, u - 1) = img.files[u]
    <3>1. (u - 1) + 1 = u
      BY <2>2
    <3> QED BY <3>1 DEF FileAt
  <2>8. S # {}
    BY <2>4
  <2> QED BY <1>6, <2>3, <2>6, <2>7, <2>8
<1> QED BY <1>5, <1>8, <1>9 DEF T, D

(* The stop the device had is among those named, and each has its WALK line. *)
LEMMA StopIsThere ==
    ASSUME DispatchInv, PromoteInv, NEW img \in Images
    PROVE  StopIsNamed(img)
<1> SUFFICES ASSUME NEW seen \in 0..Len(img.files), StoppedAt(img, seen), NothingAbsent(img)
             PROVE  /\ Candidates(img, mP2Apriori) \cap MissBand(img, mP2ApriMiss) # {}
                    /\ \A k \in Physical(img) : SeenAt(img, k) = seen =>
                          /\ k \in Candidates(img, mP2Apriori) \cap MissBand(img, mP2ApriMiss)
                          /\ seen > 0 => WalkLast(img, k) = Drivers(img)[seen].guid
  BY DEF StopIsNamed
<1> DEFINE T == DriverFiles(img)
           m == Len(img.files)
<1>1. Len(Drivers(img)) \in Nat /\ seen \in Nat /\ seen <= Len(Drivers(img))
  BY StopFacts
<1>2. m \in Nat /\ Len(Drivers(img)) = Rank(T, m)
  BY ImageFacts, DriversArePicked DEF Picked
<1>3. \E k \in Physical(img) \cup {-1} : Rank(T, k + 1) = seen
  <2>1. CASE seen = 0
    <3>1. Rank(T, 0) = 0
      BY <1>1, RankStep
    <3>2. -1 + 1 = 0
      OBVIOUS
    <3>3. Rank(T, -1 + 1) = seen
      BY <2>1, <3>1, <3>2
    <3> QED BY <3>3
  <2>2. CASE seen # 0
    <3>1. seen \in 1..Rank(T, m)
      BY <1>1, <1>2, <2>2
    <3> HIDE DEF T, m
    <3>2. PICK u \in T \cap 1..m : Rank(T, u) = seen
      BY <1>2, <3>1, RankOnto
    <3>3. u - 1 \in 0..(m - 1) /\ (u - 1) + 1 = u
      BY <1>2
    <3>4. u - 1 \in Physical(img)
      BY <3>3 DEF Physical, m
    <3> QED BY <3>2, <3>3, <3>4
  <2> QED BY <2>1, <2>2
<1>4. ASSUME NEW k \in Physical(img), SeenAt(img, k) = seen
      PROVE  /\ k \in Candidates(img, mP2Apriori) \cap MissBand(img, mP2ApriMiss)
             /\ seen > 0 => WalkLast(img, k) = Drivers(img)[seen].guid
  <2>1. Rank(T, k + 1) = seen
    BY <1>4, SeenFacts
  <2>2. k \in Candidates(img, mP2Apriori) \cap MissBand(img, mP2ApriMiss)
    BY <2>1, StopPromotes
  <2> QED BY <1>4, <2>2, SeenFacts
<1>5. Candidates(img, mP2Apriori) \cap MissBand(img, mP2ApriMiss) # {}
  BY <1>3, StopPromotes
<1> QED BY <1>4, <1>5

(* What the three tools say of a run is what the device does: whatever the *)
(* image, the files around the drivers, the stop of the walk, the sizes of *)
(* the arrays and the fates of the drivers.                                *)
THEOREM PredictionsAreTrue == Spec => []PredictionsHold
<1>1. ASSUME DispatchInv, PromoteInv, WhyInv PROVE PredictionsHold
  <2>1. \A img \in Images : StopIsNamed(img) /\ LettersTell(img)
    BY <1>1, StopIsThere, LettersAreTrue
  <2>2. ASSUME NEW img \in Images, NEW seen \in 0..Len(img.files), StoppedAt(img, seen)
        PROVE  LengthTells(img, seen) /\
               LET batch == Batch(img, seen)
                   pos   == Positions(img, Skips(img, Unhit(img, seen)))
               IN  /\ mP2Apriori = Len(batch)
                   /\ mP2ApriUnhit = Cardinality(Unhit(img, seen))
                   /\ mP2ApriMiss = Miss(img, seen)
                   /\ batch # <<>> => /\ mP2ApriMatchFirst = batch[1]
                                      /\ mP2ApriMatchLast = batch[Len(batch)]
                   /\ \A i \in 1..SeqLen : mP2AprioriGuid[i] = EntryAt(img, batch[i])
                   /\ \A a \in DOMAIN pos : pos[a] < SeqLen =>
                          mP2AprioriGuid[pos[a] + 1] = EntryAt(img, a)
    <3>1. LengthTells(img, seen)
      BY <1>1, <2>2, LengthIsTrue
    <3>2. /\ mP2Apriori = Len(Batch(img, seen))
          /\ Batch(img, seen) # <<>> => /\ mP2ApriMatchFirst = Batch(img, seen)[1]
                                        /\ mP2ApriMatchLast = Batch(img, seen)[Len(Batch(img, seen))]
          /\ \A i \in 1..SeqLen : mP2AprioriGuid[i] = EntryAt(img, Batch(img, seen)[i])
      BY <1>1, <2>2, BatchFacts
    <3>3. mP2ApriUnhit = Cardinality(Unhit(img, seen)) /\ mP2ApriMiss = Miss(img, seen)
      BY <1>1, <2>2, UnhitFacts
    <3> DEFINE pos == Positions(img, Skips(img, Unhit(img, seen)))
    <3>4. \A a \in DOMAIN pos : pos[a] < SeqLen => mP2AprioriGuid[pos[a] + 1] = EntryAt(img, a)
      <4>1. Skips(img, Unhit(img, seen)) = Unhit(img, seen)
        BY <1>1, <2>2, SkipFacts
      <4> QED BY <1>1, <2>2, <4>1, PositionFacts
    <3> HIDE DEF pos
    <3> QED BY <3>1, <3>2, <3>3, <3>4 DEF pos
  <2> QED BY <2>1, <2>2 DEF PredictionsHold
<1> QED BY <1>1, PromotionInvariant, PTL
=============================================================================
