-------------------------- MODULE PayloadBuild_proofs --------------------------
(***************************************************************************)
(* AcceptedBoots and CheckersAgree of PayloadBuild, for every memory map,  *)
(* board, dtbo, kernel and ramdisk that satisfies PayloadAssumption.       *)
(*                                                                         *)
(* AcceptedBoots needs no offset: wherever ABL walks, it finds trees that  *)
(* were packed, and the replay selects the one ABL selects.  CheckersAgree *)
(* is about the layout: the offset from the header's page counts, or from  *)
(* the kernel, is where the tree is, and the tree ends inside the region.  *)
(***************************************************************************)
EXTENDS PayloadBuild, FiniteSetTheorems, SequenceTheorems, WellFoundedInduction, TLAPS

(* What a tree has to have. *)
IsTree(t) ==
    /\ t.size \in Nat \ {0} /\ t.total = t.size
    /\ t.ramoops \in Seq(Regions) /\ t.fb \subseteq Regions
    /\ \A s \in DOMAIN t.syms : t.syms[s] = Sink(s) /\ t.syms[s] \in t.nodes
    /\ \A p \in DOMAIN t.owners : IsFiniteSet(t.owners[p])

(* A dtbo asks for finitely many symbols. *)
LEMMA NeededIsFinite ==
    ASSUME PayloadAssumption, NEW d \in Dtbos
    PROVE  IsFiniteSet(Needed(d))
<1>1. /\ Len(d) \in Nat
      /\ \A k \in 1..Len(d) : IsFiniteSet(d[k].fixups)
  BY DEF PayloadAssumption
<1> DEFINE T == {d[k].fixups : k \in 1..Len(d)}
<1> DEFINE f == [k \in 1..Len(d) |-> d[k].fixups]
<1>2. f \in Surjection(1..Len(d), T)
  BY DEF Surjection
<1>3. IsFiniteSet(1..Len(d))
  BY <1>1, FS_Interval
<1>4. IsFiniteSet(T)
  <2> HIDE DEF T, f
  <2> QED BY <1>2, <1>3, FS_Surjection
<1>5. \A S \in T : IsFiniteSet(S)
  BY <1>1
<1>6. IsFiniteSet(UNION T)
  <2> HIDE DEF T
  <2> QED BY <1>4, <1>5, FS_UNION
<1> QED BY <1>6 DEF Needed

(* ... so the sinks of a set of them are finitely many nodes. *)
LEMMA SinksAreFinite ==
    ASSUME NEW syms, IsFiniteSet(syms)
    PROVE  IsFiniteSet({Sink(s) : s \in syms})
<1> DEFINE T == {Sink(s) : s \in syms}
<1> DEFINE f == [s \in syms |-> Sink(s)]
<1>1. f \in Surjection(syms, T)
  BY DEF Surjection
<1>2. IsFiniteSet(T)
  <2> HIDE DEF T, f
  <2> QED BY <1>1, FS_Surjection
<1> QED BY <1>2

(* build-device-tree.sh makes nothing else. *)
LEMMA TreeOfIsTree ==
    ASSUME PayloadAssumption, NEW b \in Boards, NEW d \in Dtbos
    PROVE  IsTree(TreeOf(b, d))
<1> DEFINE syms == Needed(d)
           t    == TreeOf(b, d)
<1>1. IsFiniteSet(syms)
  BY NeededIsFinite
<1>2. /\ t.size = b.size /\ t.total = b.size
      /\ t.ramoops = b.ramoops /\ t.fb = b.fb
      /\ t.syms = [s \in syms |-> Sink(s)]
  BY DEF TreeOf
<1>3. t.nodes = {<<"node", p>> : p \in b.phandles} \cup {Sink(s) : s \in syms}
  BY DEF TreeOf
<1>4. \A s \in DOMAIN t.syms : t.syms[s] = Sink(s) /\ t.syms[s] \in t.nodes
  <2> HIDE DEF t, syms
  <2> QED BY <1>2, <1>3
<1>5. ASSUME NEW p \in DOMAIN t.owners PROVE IsFiniteSet(t.owners[p])
  <2> DEFINE A == {<<"node", q>> : q \in b.phandles \cap {p}}
             X == {s \in syms : SinkPhandle(syms, s) = p}
             B == {Sink(s) : s \in X}
  <2>1. t.owners[p] = A \cup B
    BY DEF TreeOf
  <2>2. IsFiniteSet(A)
    <3>1. A = {} \/ A = {<<"node", p>>}
      OBVIOUS
    <3> QED BY <3>1, FS_EmptySet, FS_Singleton
  <2>3. IsFiniteSet(X)
    <3>1. X \in SUBSET syms
      OBVIOUS
    <3> HIDE DEF X, syms
    <3> QED BY <3>1, <1>1, FS_Subset
  <2>4. IsFiniteSet(B)
    <3> HIDE DEF X
    <3> QED BY <2>3, SinksAreFinite
  <2> HIDE DEF A, B, X, t, syms
  <2> QED BY <2>1, <2>2, <2>4, FS_Union
<1>6. /\ b.size \in Nat \ {0}
      /\ b.ramoops \in Seq(Regions) /\ b.fb \subseteq Regions
  BY DEF PayloadAssumption
<1> HIDE DEF t, syms
<1>7. IsTree(t)
  BY <1>2, <1>4, <1>5, <1>6 DEF IsTree
<1> QED BY <1>7 DEF t

-----------------------------------------------------------------------------
(* What SizeOf adds up, from any function that satisfies its recursion.    *)
LEMMA SizeOfWith ==
    ASSUME NEW s, NEW g,
           g = [k \in 0..Len(s) |-> IF k = 0 THEN 0 ELSE g[k - 1] + s[k].size]
    PROVE  \E h : /\ SizeOf(s) = h[Len(s)]
                  /\ h = [k \in 0..Len(s) |-> IF k = 0 THEN 0 ELSE h[k - 1] + s[k].size]
BY DEF SizeOf

(* SizeOf of no tree, of one and of two. *)
LEMMA SizeOfNone == SizeOf(<<>>) = 0
<1> DEFINE g == [k \in 0..0 |-> 0]
<1>0. Len(<<>>) = 0
  BY EmptySeq
<1>1. g = [k \in 0..Len(<<>>) |-> IF k = 0 THEN 0 ELSE g[k - 1] + (<<>>[k]).size]
  BY <1>0
<1>2. PICK h : /\ SizeOf(<<>>) = h[Len(<<>>)]
               /\ h = [k \in 0..Len(<<>>) |-> IF k = 0 THEN 0 ELSE h[k - 1] + (<<>>[k]).size]
  <2> HIDE DEF g
  <2> QED BY <1>1, SizeOfWith
<1> QED BY <1>0, <1>2

LEMMA SizeOfOne ==
    ASSUME NEW t, t.size \in Nat
    PROVE  SizeOf(<<t>>) = t.size
<1> DEFINE s == <<t>>
           g == [k \in 0..1 |-> IF k = 0 THEN 0 ELSE t.size]
<1>0. Len(s) = 1 /\ s[1] = t
  OBVIOUS
<1> HIDE DEF s
<1>1. g = [k \in 0..Len(s) |-> IF k = 0 THEN 0 ELSE g[k - 1] + s[k].size]
  BY <1>0
<1>2. PICK h : /\ SizeOf(s) = h[Len(s)]
               /\ h = [k \in 0..Len(s) |-> IF k = 0 THEN 0 ELSE h[k - 1] + s[k].size]
  <2> HIDE DEF g
  <2> QED BY <1>1, SizeOfWith
<1>3. h[0] = 0 /\ h[1] = h[0] + t.size
  BY <1>0, <1>2
<1> QED BY <1>0, <1>2, <1>3 DEF s

LEMMA SizeOfTwo ==
    ASSUME NEW t, NEW u, t.size \in Nat, u.size \in Nat
    PROVE  SizeOf(<<t, u>>) = t.size + u.size
<1> DEFINE s == <<t, u>>
           g == [k \in 0..2 |-> IF k = 0 THEN 0 ELSE IF k = 1 THEN t.size ELSE t.size + u.size]
<1>0. Len(s) = 2 /\ s[1] = t /\ s[2] = u
  OBVIOUS
<1> HIDE DEF s
<1>1. g = [k \in 0..Len(s) |-> IF k = 0 THEN 0 ELSE g[k - 1] + s[k].size]
  BY <1>0
<1>2. PICK h : /\ SizeOf(s) = h[Len(s)]
               /\ h = [k \in 0..Len(s) |-> IF k = 0 THEN 0 ELSE h[k - 1] + s[k].size]
  <2> HIDE DEF g
  <2> QED BY <1>1, SizeOfWith
<1>3. h[0] = 0 /\ h[1] = h[0] + t.size /\ h[2] = h[1] + u.size
  BY <1>0, <1>2
<1> QED BY <1>0, <1>2, <1>3 DEF s

-----------------------------------------------------------------------------
(* What is found at an offset is the end of one of the two places. *)
LEMMA FoundIsATail ==
    ASSUME NEW T, NEW img, NEW off,
           img.kernel.trees \in Seq(T), Len(img.kernel.trees) <= 2,
           img.slot \in Seq(T), Len(img.slot) <= 2
    PROVE  TreesFrom(img, off) \in Seq(T) /\ Len(TreesFrom(img, off)) <= 2
<1>1. \/ TreesFrom(img, off) = <<>>
      \/ \E n \in 1..Len(img.kernel.trees) :
            TreesFrom(img, off) = SubSeq(img.kernel.trees, n, Len(img.kernel.trees))
      \/ \E n \in 1..Len(img.slot) : TreesFrom(img, off) = SubSeq(img.slot, n, Len(img.slot))
  <2> DEFINE A == {n \in 1..Len(img.kernel.trees) :
                     off = img.page + img.kernel.member
                             + SizeOf(SubSeq(img.kernel.trees, 1, n - 1))}
             B == {n \in 1..Len(img.slot) :
                     off = img.slotAt + SizeOf(SubSeq(img.slot, 1, n - 1))}
  <2>1. TreesFrom(img, off) =
          IF A # {}
            THEN SubSeq(img.kernel.trees, CHOOSE n \in A : TRUE, Len(img.kernel.trees))
          ELSE IF B # {} THEN SubSeq(img.slot, CHOOSE n \in B : TRUE, Len(img.slot))
          ELSE <<>>
    BY DEF TreesFrom
  <2>2. A # {} => (CHOOSE n \in A : TRUE) \in 1..Len(img.kernel.trees)
    OBVIOUS
  <2>3. B # {} => (CHOOSE n \in B : TRUE) \in 1..Len(img.slot)
    OBVIOUS
  <2> HIDE DEF A, B
  <2> QED BY <2>1, <2>2, <2>3
<1>2. ASSUME NEW s \in Seq(T), Len(s) <= 2, NEW n \in 1..Len(s)
      PROVE  SubSeq(s, n, Len(s)) \in Seq(T) /\ Len(SubSeq(s, n, Len(s))) <= 2
  <2>1. Len(s) \in Nat /\ \A i \in n..Len(s) : s[i] \in T
    BY <1>2, ElementOfSeq, LenProperties
  <2>2. /\ SubSeq(s, n, Len(s)) \in Seq(T)
        /\ Len(SubSeq(s, n, Len(s))) = IF n <= Len(s) THEN Len(s) - n + 1 ELSE 0
    BY <2>1, SubSeqProperties
  <2> QED BY <1>2, <2>1, <2>2
<1>3. <<>> \in Seq(T) /\ Len(<<>>) = 0
  BY EmptySeq
<1>4. CASE TreesFrom(img, off) = <<>>
  BY <1>3, <1>4
<1>5. CASE \E n \in 1..Len(img.kernel.trees) :
              TreesFrom(img, off) = SubSeq(img.kernel.trees, n, Len(img.kernel.trees))
  BY <1>2, <1>5
<1>6. CASE \E n \in 1..Len(img.slot) : TreesFrom(img, off) = SubSeq(img.slot, n, Len(img.slot))
  BY <1>2, <1>6
<1> QED BY <1>1, <1>4, <1>5, <1>6

(* ... and what ABL walks over is a beginning of that: all of it that      *)
(* ends inside the region, and the first tree if that one does.            *)
LEMMA TreesAreABeginning ==
    ASSUME NEW T, NEW img,
           NEW found, found = TreesFrom(img, DtbPlace(img).base + DtbPlace(img).off),
           found \in Seq(T), Len(found) <= 2
    PROVE  /\ Trees(img) \in Seq(T)
           /\ Trees(img) # <<>> => found # <<>> /\ Trees(img)[1] = found[1]
           /\ (/\ found # <<>> /\ DtbPlace(img).off # 0
               /\ ~(DtbPlace(img).off >= DtbPlace(img).region)
               /\ 0 + found[1].total <= DtbPlace(img).region - DtbPlace(img).off)
                => Trees(img) # <<>>
<1> DEFINE place   == DtbPlace(img)
           room(k) == SizeOf(SubSeq(found, 1, k - 1)) + found[k].total <= place.region - place.off
           Fits(n) == \A k \in 1..n : room(k)
           last    == CHOOSE n \in 0..Len(found) : Fits(n) /\ (n = Len(found) \/ ~Fits(n + 1))
<1>1. Trees(img) = IF place.off = 0 \/ place.off >= place.region THEN <<>>
                   ELSE SubSeq(found, 1, last)
  BY DEF Trees
<1>2. \E n \in 0..Len(found) : Fits(n) /\ (n = Len(found) \/ ~Fits(n + 1))
  <2> HIDE DEF room
  <2>0. Len(found) \in Nat
    BY LenProperties
  <2>a. \A n \in Nat : n <= 2 => n = 0 \/ n = 1 \/ n = 2
    OBVIOUS
  <2>1. Len(found) \in {0, 1, 2}
    BY <2>0, <2>a
  <2>2. Fits(0) /\ (Fits(1) <=> room(1)) /\ (Fits(2) <=> room(1) /\ room(2))
    OBVIOUS
  <2> HIDE DEF Fits
  <2> QED BY <2>1, <2>2
<1>3. last \in 0..Len(found) /\ Fits(last) /\ (last = Len(found) \/ ~Fits(last + 1))
  <2> HIDE DEF room, Fits
  <2> QED BY <1>2
<1>4. (found # <<>> /\ room(1)) => last >= 1
  <2> HIDE DEF room, last
  <2>1. Fits(1) <=> room(1)
    OBVIOUS
  <2>2. found # <<>> => Len(found) >= 1 /\ Len(found) \in Nat
    BY LenProperties, EmptySeq
  <2> HIDE DEF Fits
  <2> QED BY <1>3, <2>1, <2>2
<1>5. (found # <<>> /\ 0 + found[1].total <= place.region - place.off) => room(1)
  <2>1. SubSeq(found, 1, 1 - 1) = <<>>
    BY SubSeqEmpty
  <2> QED BY <2>1, SizeOfNone
<1> HIDE DEF Fits, room, last
<1>6. /\ SubSeq(found, 1, last) \in Seq(T)
      /\ Len(SubSeq(found, 1, last)) = last
      /\ last >= 1 => SubSeq(found, 1, last)[1] = found[1]
  <2>1. Len(found) \in Nat /\ last \in Nat /\ \A i \in 1..last : found[i] \in T
    BY <1>3, ElementOfSeq, LenProperties
  <2>2. /\ SubSeq(found, 1, last) \in Seq(T)
        /\ Len(SubSeq(found, 1, last)) = IF 1 <= last THEN last - 1 + 1 ELSE 0
        /\ \A i \in 1..(last - 1 + 1) : SubSeq(found, 1, last)[i] = found[1 + i - 1]
    BY <2>1, SubSeqProperties
  <2> QED BY <2>1, <2>2
<1>7. <<>> \in Seq(T) /\ Len(<<>>) = 0
  BY EmptySeq
<1>8. last >= 1 => found # <<>>
  BY <1>3, EmptySeq, LenProperties
<1>9. Len(SubSeq(found, 1, last)) = 0 <=> SubSeq(found, 1, last) = <<>>
  BY <1>6, EmptySeq
<1>10. last \in Nat
  BY <1>3, LenProperties
<1> HIDE DEF place
<1>11. /\ Trees(img) \in Seq(T)
       /\ Trees(img) # <<>> => found # <<>> /\ Trees(img)[1] = found[1]
       /\ (/\ found # <<>> /\ place.off # 0
           /\ ~(place.off >= place.region)
           /\ 0 + found[1].total <= place.region - place.off)
                => Trees(img) # <<>>
  BY <1>1, <1>4, <1>5, <1>6, <1>7, <1>8, <1>9, <1>10
<1> QED BY <1>11 DEF place

-----------------------------------------------------------------------------
(* A set of naturals that is not empty has a least element. *)
LEMMA LeastOfNaturals ==
    ASSUME NEW S \in SUBSET Nat, S # {}
    PROVE  \E n \in S : \A m \in S : n <= m
<1> DEFINE less == OpToRel(<, Nat)
<1>1. IsWellFoundedOn(less, Nat)
  BY NatLessThanWellFounded
<1>2. \A i, j \in Nat : i < j => <<i, j>> \in less
  BY DEF OpToRel
<1> HIDE DEF less
<1>3. PICK n \in S : \A m \in S : ~ (<<m, n>> \in less)
  BY <1>1, WFMin
<1>4. \A m \in S : m \in Nat /\ n \in Nat /\ ~(m < n)
  BY <1>2, <1>3
<1> QED BY <1>4

(* FirstOf gives one of the trees, and gives one if there is one.          *)
LEMMA FirstOfIsOneOfThem ==
    ASSUME NEW T, NEW s \in Seq(T), NEW msms
    PROVE  /\ FirstOf(s, msms) = <<>> \/ \E t \in T : FirstOf(s, msms) = <<t>>
           /\ (\E k \in 1..Len(s) : s[k].msm \in msms) => FirstOf(s, msms) # <<>>
<1> DEFINE hits == {k \in 1..Len(s) : s[k].msm \in msms}
           k0   == CHOOSE k \in hits : \A m \in hits : k <= m
<1>1. FirstOf(s, msms) = IF hits = {} THEN <<>> ELSE <<s[k0]>>
  BY DEF FirstOf
<1>2. ASSUME hits # {} PROVE k0 \in 1..Len(s)
  <2>1. hits \in SUBSET Nat /\ hits # {}
    BY <1>2
  <2>2. \E k \in hits : \A m \in hits : k <= m
    <3> HIDE DEF hits
    <3> QED BY <2>1, LeastOfNaturals
  <2>3. k0 \in hits
    <3> HIDE DEF hits
    <3> QED BY <2>2
  <2> QED BY <2>3
<1>3. ASSUME hits # {} PROVE s[k0] \in T
  BY <1>2, <1>3, ElementOfSeq
<1>4. (\E k \in 1..Len(s) : s[k].msm \in msms) => hits # {}
  OBVIOUS
<1> HIDE DEF hits, k0
<1> QED BY <1>1, <1>3, <1>4

(* A region the replay lets pass is memory of the kernel's, every byte.    *)
LEMMA PassedIsFree ==
    ASSUME PayloadAssumption, NEW r \in Regions, in_dram(r), reserved_overlaps(r) = {},
           NEW b \in Bytes(r)
    PROVE  Free(b)
<1>1. r.addr \in Nat /\ r.size \in Nat /\ b \in Int /\ r.addr <= b /\ b <= r.addr + r.size - 1
  BY DEF Regions, Bytes
<1>2. PICK d \in DRAM : r.addr >= d.base /\ r.addr + r.size <= d.base + d.size
  BY DEF in_dram
<1>3. d.base \in Nat /\ d.size \in Nat
  BY DEF PayloadAssumption
<1>4. b >= d.base /\ b < d.base + d.size
  BY <1>1, <1>2, <1>3
<1>5. ASSUME NEW c \in PHONE_RESERVED PROVE b < c.base \/ b >= c.base + c.size
  <2>1. c.base \in Nat /\ c.size \in Nat
    BY DEF PayloadAssumption
  <2>2. ~(r.addr < c.base + c.size /\ c.base < r.addr + r.size)
    BY DEF reserved_overlaps
  <2> QED BY <1>1, <2>1, <2>2
<1> QED BY <1>4, <1>5 DEF Free

(* With the merge replayed, a tree the gates let pass is one ABL can merge *)
(* the entry into, and every fragment lands in its own sink.               *)
LEMMA PassedLandsInTheSink ==
    ASSUME NEW t, IsTree(t), NEW e,
           OverlayGate(t), SinkCheck(t, e), FdtOverlay(t, e)
    PROVE  /\ AblMerges(t, e)
           /\ \A s \in e.fixups : Lands(t, s) = {Sink(s)}
<1>1. \A s \in e.fixups : /\ s \in DOMAIN t.syms
                          /\ t.syms[s] = Sink(s) /\ t.syms[s] \in t.nodes
                          /\ PhandlesAt(t, Sink(s)) # {}
  BY DEF FdtOverlay, IsTree
<1>2. AblMerges(t, e)
  BY <1>1 DEF AblMerges, OverlayGate
<1>3. ASSUME NEW s \in e.fixups PROVE Lands(t, s) = {Sink(s)}
  <2> DEFINE sinks == {x \in e.fixups \cap DOMAIN t.syms : t.syms[x][1] = "sink"}
  <2>1. Sink(s)[1] = "sink"
    BY DEF Sink
  <2>2. s \in sinks
    BY <1>1, <2>1
  <2>3. \A p \in DOMAIN t.owners : Cardinality(t.owners[p]) = 1
    <3>1. sinks # {} => \A p \in DOMAIN t.owners : Cardinality(t.owners[p]) = 1
      BY DEF SinkCheck
    <3> HIDE DEF sinks
    <3> QED BY <2>2, <3>1
  <2>4. ASSUME NEW p \in PhandlesAt(t, Sink(s)) PROVE t.owners[p] = {Sink(s)}
    <3>1. p \in DOMAIN t.owners /\ Sink(s) \in t.owners[p]
      BY DEF PhandlesAt
    <3>2. IsFiniteSet(t.owners[p])
      BY <3>1 DEF IsTree
    <3>3. \E x : t.owners[p] = {x}
      BY <2>3, <3>1, <3>2, FS_Singleton
    <3> QED BY <3>1, <3>3
  <2>5. Lands(t, s) = UNION {t.owners[p] : p \in PhandlesAt(t, Sink(s))}
    BY <1>1 DEF Lands
  <2>6. PhandlesAt(t, Sink(s)) # {}
    BY <1>1
  <2> QED BY <2>4, <2>5, <2>6
<1> QED BY <1>2, <1>3

(* The replay and ABL select the same tree, one of those in the image.     *)
LEMMA AcceptedTree ==
    ASSUME PayloadAssumption, NEW T, \A t \in T : IsTree(t),
           NEW img,
           img.kernel.trees \in Seq(T), Len(img.kernel.trees) <= 2,
           img.slot \in Seq(T), Len(img.slot) <= 2,
           img.cmdline \in Seq(Regions),
           NEW d, Replay(img, d, TRUE),
           \E k \in 1..Len(Trees(img)) : Trees(img)[k].msm = "ours"
    PROVE  \E t \in T :
              /\ AblHandsOver(img, d) = <<t>>
              /\ BoardEntry(d) # <<>> =>
                    \A s \in BoardEntry(d)[1].fixups : Lands(t, s) = {Sink(s)}
              /\ \A r \in t.fb : \A b \in Bytes(r) : Free(b)
              /\ \A k \in 1..Len(LogRegion(img, t)) :
                    \A b \in Bytes(LogRegion(img, t)[k]) : Free(b)
<1>1. Trees(img) \in Seq(T)
  <2> DEFINE found == TreesFrom(img, DtbPlace(img).base + DtbPlace(img).off)
  <2>1. found \in Seq(T) /\ Len(found) <= 2
    BY FoundIsATail
  <2> QED BY <2>1, TreesAreABeginning
<1>2. PICK t \in T : AblSelects(img) = <<t>>
  BY <1>1, FirstOfIsOneOfThem DEF AblSelects
<1>3. AblSelects(img) # <<>> /\ AblSelects(img)[1] = t
  BY <1>2
<1>4. ReplaySelects(img) = AblSelects(img)
  BY <1>3 DEF ReplaySelects
<1>5. /\ CheckImageHeader(img) /\ Headroom(img) > 0 /\ CheckKernelMode(img)
      /\ CheckRegions(img, t) /\ CheckOverlay(t, d, TRUE)
  BY <1>3, <1>4 DEF Replay
<1>6. ASSUME BoardEntry(d) # <<>>
      PROVE  /\ AblMerges(t, BoardEntry(d)[1])
             /\ \A s \in BoardEntry(d)[1].fixups : Lands(t, s) = {Sink(s)}
  <2>1. /\ OverlayGate(t) /\ SinkCheck(t, BoardEntry(d)[1])
        /\ FdtOverlay(t, BoardEntry(d)[1])
    BY <1>5, <1>6 DEF CheckOverlay
  <2> QED BY <2>1, PassedLandsInTheSink
<1>7. AblHandsOver(img, d) = <<t>>
  BY <1>2, <1>3, <1>5, <1>6 DEF AblHandsOver
<1> DEFINE placed == {t.ramoops[k] : k \in 1..Len(t.ramoops)} \cup t.fb
                       \cup {img.cmdline[k] : k \in 1..Len(img.cmdline)}
<1>8. \A r \in placed : in_dram(r) /\ reserved_overlaps(r) = {}
  BY <1>5 DEF CheckRegions
<1>9. t.ramoops \in Seq(Regions) /\ t.fb \subseteq Regions
  BY DEF IsTree
<1>10. placed \subseteq Regions
  <2>1. \A k \in 1..Len(t.ramoops) : t.ramoops[k] \in Regions
    BY <1>9, ElementOfSeq
  <2>2. \A k \in 1..Len(img.cmdline) : img.cmdline[k] \in Regions
    BY ElementOfSeq
  <2> QED BY <1>9, <2>1, <2>2
<1>11. \A r \in placed : \A b \in Bytes(r) : Free(b)
  <2> HIDE DEF placed
  <2> QED BY <1>8, <1>10, PassedIsFree
<1>12. \A k \in 1..Len(LogRegion(img, t)) : LogRegion(img, t)[k] \in placed
  <2>1. CASE img.cmdline # <<>>
    BY <2>1 DEF LogRegion
  <2>2. CASE img.cmdline = <<>> /\ t.ramoops = <<>>
    <3>1. LogRegion(img, t) = <<>>
      BY <2>2 DEF LogRegion, First
    <3> QED BY <3>1, EmptySeq
  <2>3. CASE img.cmdline = <<>> /\ t.ramoops # <<>>
    <3>1. LogRegion(img, t) = <<t.ramoops[1]>>
      BY <2>3 DEF LogRegion, First
    <3>2. 1 \in 1..Len(t.ramoops)
      BY <1>9, <2>3, EmptySeq, LenProperties
    <3>3. t.ramoops[1] \in placed
      BY <3>2
    <3> HIDE DEF placed
    <3>4. \A x : \A k \in 1..Len(<<x>>) : <<x>>[k] = x
      OBVIOUS
    <3> QED BY <3>1, <3>3, <3>4
  <2> QED BY <2>1, <2>2, <2>3
<1>13. \A r \in t.fb : r \in placed
  OBVIOUS
<1> HIDE DEF placed
<1> QED BY <1>6, <1>7, <1>11, <1>12, <1>13

-----------------------------------------------------------------------------
PageSizes == {2, 4, 8}

(* Pages and padding are numbers for the pages a header may have.          *)
LEMMA PagesAreCounted ==
    ASSUME NEW page \in PageSizes, NEW n \in Nat
    PROVE  Pages(n, page) \in Nat /\ RoundPage(n, page) \in Nat
<1>1. \A m \in Nat : (m + 1) \div 2 \in Nat /\ (m + 3) \div 4 \in Nat /\ (m + 7) \div 8 \in Nat
  OBVIOUS
<1>2. /\ n + 2 - 1 = n + 1 /\ n + 4 - 1 = n + 3 /\ n + 8 - 1 = n + 7
  OBVIOUS
<1>3. page = 2 \/ page = 4 \/ page = 8
  BY DEF PageSizes
<1>4. Pages(n, page) \in Nat
  BY <1>1, <1>2, <1>3 DEF Pages
<1>5. \A p \in Nat : 2 * p \in Nat /\ 4 * p \in Nat /\ 8 * p \in Nat
  OBVIOUS
<1> QED BY <1>3, <1>4, <1>5 DEF RoundPage

(* An offset behind the header's own page is not 0. *)
LEMMA PartsAreBehindTheHeader ==
    ASSUME NEW page \in PageSizes, NEW a \in Nat, NEW b \in Nat
    PROVE  page * (1 + a + b) \in Nat \ {0}
<1>1. page = 2 \/ page = 4 \/ page = 8
  BY DEF PageSizes
<1>2. \A p \in Nat : 2 * (1 + p) \in Nat \ {0} /\ 4 * (1 + p) \in Nat \ {0} /\ 8 * (1 + p) \in Nat \ {0}
  OBVIOUS
<1>3. a + b \in Nat /\ 1 + a + b = 1 + (a + b)
  OBVIOUS
<1> QED BY <1>1, <1>2, <1>3

(* The fields of an image. *)
LEMMA ImageFields ==
    ASSUME NEW k, NEW rs, NEW slot, NEW hv, NEW page, NEW c,
           NEW img, img = Image(k, rs, slot, hv, page, c)
    PROVE  /\ img.hv = hv /\ img.page = page /\ img.ks = KernelSize(k) /\ img.rs = rs
           /\ img.ds = SizeOf(slot) /\ img.kernel = k /\ img.slot = slot /\ img.cmdline = c
           /\ img.slotAt = page * (1 + Pages(KernelSize(k), page) + Pages(rs, page))
           /\ img.size = img.slotAt + RoundPage(SizeOf(slot), page)
BY DEF Image

(* The sizes of the trees a slot may hold. *)
LEMMA SlotSize ==
    ASSUME NEW t, NEW u, IsTree(t), IsTree(u), NEW slot,
           slot = <<>> \/ slot = <<u>> \/ slot = <<t, u>>
    PROVE  /\ SizeOf(slot) \in Nat /\ (SizeOf(slot) = 0 <=> slot = <<>>)
           /\ \E T : /\ slot \in Seq(T) /\ Len(slot) <= 2
                     /\ \A x \in T : (x = t \/ x = u) /\ x.total <= SizeOf(slot)
<1>1. /\ t.size \in Nat \ {0} /\ t.total = t.size
      /\ u.size \in Nat \ {0} /\ u.total = u.size
  BY DEF IsTree
<1>2. CASE slot = <<>>
  <2>1. slot \in Seq({}) /\ Len(slot) <= 2
    BY <1>2, EmptySeq
  <2>2. SizeOf(slot) = 0
    BY ONLY <1>2, SizeOfNone, Zenon
  <2>3. \E T : /\ slot \in Seq(T) /\ Len(slot) <= 2
               /\ \A x \in T : (x = t \/ x = u) /\ x.total <= SizeOf(slot)
    <3> WITNESS {}
    <3> QED BY ONLY <2>1, Zenon
  <2> QED BY <1>2, <2>2, <2>3
<1>3. CASE slot = <<u>>
  <2>1. slot \in Seq({u}) /\ Len(slot) <= 2 /\ slot # <<>>
    BY <1>3
  <2>2. SizeOf(slot) = u.size
    BY <1>1, <1>3, SizeOfOne
  <2>3. SizeOf(slot) \in Nat /\ SizeOf(slot) # 0 /\ u.total <= SizeOf(slot)
    BY <1>1, <2>2
  <2> QED BY <2>1, <2>3
<1>4. CASE slot = <<t, u>>
  <2>1. slot \in Seq({t, u}) /\ Len(slot) <= 2 /\ slot # <<>>
    BY <1>4
  <2>2. SizeOf(slot) = t.size + u.size
    BY <1>1, <1>4, SizeOfTwo
  <2>3. /\ SizeOf(slot) \in Nat /\ SizeOf(slot) # 0
        /\ t.total <= SizeOf(slot) /\ u.total <= SizeOf(slot)
    BY <1>1, <2>2
  <2> QED BY <2>1, <2>3
<1> QED BY <1>2, <1>3, <1>4

(* Header version 2: the check and ABL compute the same offset, and what   *)
(* the check has found there ends inside the region ABL walks.             *)
LEMMA TheSlotIsReadByBoth ==
    ASSUME PayloadAssumption, NEW k \in Kernels, NEW rs \in Nat, NEW page \in PageSizes, NEW c,
           NEW t, NEW u, IsTree(t), IsTree(u), NEW slot,
           slot = <<>> \/ slot = <<u>> \/ slot = <<t, u>>,
           NEW img, img = Image(k, rs, slot, 2, page, c),
           Problems(img) = {}
    PROVE  CarriedTree(img, PROFILES[DetectProfile(img)]) = First(Trees(img))
<1>1. /\ img.hv = 2 /\ img.page = page /\ img.ks = KernelSize(k) /\ img.rs = rs
      /\ img.ds = SizeOf(slot) /\ img.kernel = k /\ img.slot = slot
  BY ImageFields
<1>2. DetectProfile(img) = "stock"
  BY <1>1 DEF DetectProfile
<1>3. PROFILES["stock"].dtb_in_header
  BY DEF PROFILES
<1> DEFINE found == TreesFrom(img, DtbOff(img))
<1>4. CarriedTree(img, PROFILES[DetectProfile(img)]) = First(found)
  BY <1>2, <1>3 DEF CarriedTree
<1>5. k.member \in Nat \ {0} /\ k.trees = <<>>
  BY DEF PayloadAssumption
<1>6. KernelSize(k) \in Nat
  BY <1>5, SizeOfNone DEF KernelSize
<1>7. DtbOff(img) \in Nat \ {0}
  BY <1>1, <1>6, PagesAreCounted, PartsAreBehindTheHeader DEF DtbOff
<1>8. SizeOf(slot) \in Nat
  BY SlotSize
<1>9. /\ DtbPlace(img).base = 0 /\ DtbPlace(img).off = DtbOff(img)
      /\ DtbPlace(img).region = img.ds + DtbOff(img)
  <2>1. DtbPlace(img) = [base |-> 0, off |-> DtbOff(img), region |-> img.ds + DtbOff(img)]
    <3>1. img.hv > 1
      BY <1>1
    <3> QED BY <3>1 DEF DtbPlace, DtbOff
  <2> HIDE DEF found
  <2> QED BY <2>1
<1>10. ~(img.ds = 0) /\ ~(img.ds # 0 /\ CarriedTree(img, PROFILES[DetectProfile(img)]) = <<>>)
  <2>1. PROFILES[DetectProfile(img)].dtb_in_header
    BY <1>2, <1>3
  <2>2. "no DTB declared" \notin Problems(img) /\ "DTB magic" \notin Problems(img)
    OBVIOUS
  <2>3. /\ (PROFILES[DetectProfile(img)].dtb_in_header /\ img.ds = 0)
             => "no DTB declared" \in Problems(img)
        /\ (PROFILES[DetectProfile(img)].dtb_in_header /\ img.ds # 0
              /\ CarriedTree(img, PROFILES[DetectProfile(img)]) = <<>>)
             => "DTB magic" \in Problems(img)
    BY DEF Problems
  <2> QED BY <2>1, <2>2, <2>3
<1>11. found # <<>>
  BY <1>4, <1>10 DEF First
<1>12. PICK T : /\ slot \in Seq(T) /\ Len(slot) <= 2
                /\ \A x \in T : (x = t \/ x = u) /\ x.total <= SizeOf(slot)
  BY SlotSize
<1>13. found \in Seq(T) /\ Len(found) <= 2
  <2>1. k.trees \in Seq(T) /\ Len(k.trees) <= 2
    BY <1>5, EmptySeq
  <2> QED BY <1>1, <1>12, <2>1, FoundIsATail
<1>14. found[1] \in T
  <2>1. 1 \in 1..Len(found)
    BY <1>11, <1>13, EmptySeq, LenProperties
  <2> QED BY <1>13, <2>1, ElementOfSeq
<1>15. found[1].total \in Nat /\ found[1].total <= SizeOf(slot)
  BY <1>12, <1>14 DEF IsTree
<1>16. found = TreesFrom(img, DtbPlace(img).base + DtbPlace(img).off)
  BY <1>7, <1>9
<1> HIDE DEF found
<1>17. \A o \in Nat \ {0}, n \in Nat, m \in Nat :
          (n # 0 /\ m <= n) => o # 0 /\ ~(o >= n + o) /\ 0 + m <= n + o - o
  OBVIOUS
<1>18. /\ DtbPlace(img).off # 0 /\ ~(DtbPlace(img).off >= DtbPlace(img).region)
       /\ 0 + found[1].total <= DtbPlace(img).region - DtbPlace(img).off
  BY <1>1, <1>7, <1>8, <1>9, <1>10, <1>15, <1>17
<1>19. Trees(img) # <<>> /\ Trees(img)[1] = found[1]
  BY <1>11, <1>13, <1>16, <1>18, TreesAreABeginning
<1> QED BY <1>4, <1>11, <1>19 DEF First

Glued(k, t) == [k EXCEPT !.trees = <<t>>]

(* Header version 1: the one tree is behind the kernel, where the gzip     *)
(* stream ends or the patched kernel's header says.                        *)
LEMMA TheGluedTreeIsReadByBoth ==
    ASSUME PayloadAssumption, NEW k0 \in Kernels, NEW t, IsTree(t),
           NEW img, img = Image(Glued(k0, t), 1, <<>>, 1, 2, <<>>),
           k0.form = "gzip" \/ k0.form = "patched"
    PROVE  First(Trees(img)) = <<t>>
<1> PICK k : k = [k0 EXCEPT !.trees = <<t>>]
  OBVIOUS
<1> PICK page \in Nat \ {0} : page = 2
  OBVIOUS
<1>0. img = Image(k, 1, <<>>, 1, page, <<>>)
  BY DEF Glued
<1>1. /\ img.hv = 1 /\ img.page = page /\ img.ks = KernelSize(k)
      /\ img.kernel = k /\ img.slot = <<>>
  BY <1>0, ImageFields
<1>2. /\ k0.member \in Nat \ {0}
      /\ k0.form = "patched" => k0.field \in Nat \ {0} /\ k0.field + PATCHED_HEADER = k0.member
  BY DEF PayloadAssumption
<1>3. {"form", "member", "field", "trees", "arm64"} \subseteq DOMAIN k0
  BY DEF PayloadAssumption
<1>4. /\ k.member = k0.member /\ k.form = k0.form /\ k.field = k0.field /\ k.trees = <<t>>
  BY <1>3
<1>5. t.size \in Nat \ {0} /\ t.total = t.size
  BY DEF IsTree
<1>6. KernelSize(k) = k.member + t.size
  BY <1>4, <1>5, SizeOfOne DEF KernelSize
<1> DEFINE place == DtbPlace(img)
           off   == place.base + place.off
           found == TreesFrom(img, off)
<1>7. place = [base   |-> page + IF k.form = "patched" THEN PATCHED_HEADER ELSE 0,
               off    |-> IF k.form = "gzip" THEN k.member ELSE k.field,
               region |-> KernelSize(k)]
  <2>1. ~(img.hv > 1)
    BY <1>1
  <2>2. DtbOffsetBefore(img) = IF k.form = "gzip" THEN k.member ELSE k.field
    <3>1. CASE k.form = "gzip"
      BY <1>1, <3>1 DEF DtbOffsetBefore
    <3>2. CASE k.form = "patched"
      BY <1>1, <3>2 DEF DtbOffsetBefore
    <3> QED BY <3>1, <3>2
  <2> QED BY <1>1, <2>1, <2>2 DEF DtbPlace
<1>8. /\ place.off \in Nat \ {0} /\ off = page + k.member
      /\ place.region \in Nat /\ place.off < place.region
      /\ t.size <= place.region - place.off
  <2>1. CASE k.form = "gzip"
    <3>1. place.base = page /\ place.off = k.member /\ place.region = k.member + t.size
      <4>1. ~(k.form = "patched")
        BY <2>1
      <4>2. page + 0 = page
        OBVIOUS
      <4> HIDE DEF place
      <4> QED BY <1>6, <1>7, <2>1, <4>1, <4>2
    <3> HIDE DEF place
    <3> QED BY <1>2, <1>4, <1>5, <3>1
  <2>2. CASE k.form = "patched"
    <3>1. place.base = page + 1 /\ place.off = k.field /\ place.region = k.member + t.size
      <4>1. ~(k.form = "gzip")
        BY <2>2
      <4> HIDE DEF place
      <4> QED BY <1>6, <1>7, <2>2, <4>1 DEF PATCHED_HEADER
    <3>2. k.field \in Nat \ {0} /\ k.field + 1 = k.member
      BY <1>2, <1>4, <2>2 DEF PATCHED_HEADER
    <3> HIDE DEF place
    <3> QED BY <1>2, <1>4, <1>5, <3>1, <3>2
  <2> QED BY <2>1, <2>2
<1>9. found = <<t>>
  <2> HIDE DEF place
  <2> DEFINE A == {n \in 1..Len(img.kernel.trees) :
                     off = img.page + img.kernel.member
                             + SizeOf(SubSeq(img.kernel.trees, 1, n - 1))}
  <2>1. A # {} => found = SubSeq(img.kernel.trees, CHOOSE n \in A : TRUE, Len(img.kernel.trees))
    BY DEF TreesFrom
  <2>2. img.kernel.trees = <<t>> /\ Len(<<t>>) = 1
    BY <1>1, <1>4
  <2>3. SubSeq(<<t>>, 1, 1 - 1) = <<>>
    BY SubSeqEmpty
  <2>4. page + k.member = page + k.member + 0
    BY <1>2, <1>4
  <2>5. 1 \in A
    <3>1. off = img.page + img.kernel.member + SizeOf(SubSeq(img.kernel.trees, 1, 1 - 1))
      <4>1. off = page + k.member + SizeOf(SubSeq(<<t>>, 1, 1 - 1))
        BY <1>8, <2>3, <2>4, SizeOfNone
      <4> HIDE DEF off, A, found
      <4> QED BY <1>1, <2>2, <4>1
    <3>2. 1 \in 1..Len(img.kernel.trees)
      BY <2>2
    <3> HIDE DEF off
    <3> QED BY <3>1, <3>2
  <2>6. (CHOOSE n \in A : TRUE) = 1
    BY <2>2, <2>5
  <2>7. SubSeq(<<t>>, 1, Len(<<t>>)) = <<t>>
    <3>1. <<t>> \in Seq({t})
      OBVIOUS
    <3> QED BY <3>1, SubSeqFull
  <2> HIDE DEF A, off, found
  <2> QED BY <2>1, <2>2, <2>5, <2>6, <2>7
<1>10. found \in Seq({t}) /\ Len(found) <= 2 /\ found # <<>> /\ found[1] = t
  <2>1. <<t>> \in Seq({t}) /\ Len(<<t>>) <= 2 /\ <<t>> # <<>> /\ <<t>>[1] = t
    OBVIOUS
  <2> HIDE DEF found
  <2> QED BY <1>9, <2>1
<1>11. Trees(img) # <<>> /\ Trees(img)[1] = found[1]
  <2>1. /\ ~(place.off >= place.region)
        /\ 0 + found[1].total <= place.region - place.off
    <3> HIDE DEF place, found, off
    <3>1. 0 + t.size = t.size
      BY <1>5
    <3> QED BY <1>5, <1>8, <1>10, <3>1
  <2>2. place.off # 0
    BY <1>8
  <2>3. found = TreesFrom(img, DtbPlace(img).base + DtbPlace(img).off)
    OBVIOUS
  <2> HIDE DEF found
  <2> QED BY <1>10, <2>1, <2>2, <2>3, TreesAreABeginning
<1> HIDE DEF found
<1> QED BY <1>10, <1>11 DEF First

-----------------------------------------------------------------------------
(* All that may be wrong with an image but where its tree begins. *)
LEMMA NothingElseIsWrong ==
    ASSUME NEW img, NEW p, p = PROFILES[DetectProfile(img)],
           img.hv = p.header_version, img.page = p.page_size, img.ks # 0,
           p.dtb_in_header => img.ds # 0 /\ CarriedTree(img, p) # <<>>,
           ~p.dtb_in_header => AppendedDtb(img) # <<>>,
           ~(RegionsEnd(img) > img.size), ~(img.size - RegionsEnd(img) > img.page),
           img.kernel.arm64, RamoopsProblems(img, p) = {}
    PROVE  Problems(img) = {} <=> ~(~p.dtb_in_header /\ img.kernel.form = "raw")
<1>1. ASSUME NEW x \in Problems(img) PROVE ~p.dtb_in_header /\ img.kernel.form = "raw"
  <2>1. \/ x = "header_version" /\ img.hv # p.header_version
        \/ x = "page_size" /\ img.page # p.page_size
        \/ x = "no kernel" /\ img.ks = 0
        \/ x = "DTB magic" /\ p.dtb_in_header /\ img.ds # 0 /\ CarriedTree(img, p) = <<>>
        \/ x = "no DTB declared" /\ p.dtb_in_header /\ img.ds = 0
        \/ x = "no offset" /\ ~p.dtb_in_header /\ img.kernel.form = "raw"
        \/ x = "no appended DTB" /\ ~p.dtb_in_header /\ AppendedDtb(img) = <<>>
        \/ x = "past the file" /\ RegionsEnd(img) > img.size
        \/ x = "trailing" /\ img.size - RegionsEnd(img) > img.page
        \/ x = "no arm64" /\ ~img.kernel.arm64
        \/ x \in RamoopsProblems(img, p)
    BY DEF Problems
  <2> QED BY <2>1
<1>2. ASSUME ~p.dtb_in_header, img.kernel.form = "raw" PROVE "no offset" \in Problems(img)
  BY <1>2 DEF Problems
<1> QED BY <1>1, <1>2

(* A tree build-device-tree.sh lets pass, alone on the command line too. *)
LEMMA ItsLogIsTheOne ==
    ASSUME NEW t, Validates(t), NEW img, NEW p,
           CarriedTree(img, p) = <<t>>, img.cmdline = <<>>
    PROVE  RamoopsProblems(img, p) = {}
<1>1. Len(t.ramoops) = 1
  BY DEF Validates
<1>2. t.ramoops # <<>>
  BY <1>1, EmptySeq
<1>3. CarriedTree(img, p) # <<>> /\ CarriedTree(img, p)[1] = t
  OBVIOUS
<1> QED BY <1>1, <1>2, <1>3 DEF RamoopsProblems

(* The stock shape has nothing wrong with it. *)
LEMMA AStockPayloadIsInOrder ==
    ASSUME PayloadAssumption, NEW k \in Kernels, k.arm64, NEW rs \in Nat,
           NEW t, IsTree(t), Validates(t),
           NEW img, img = Image(k, rs, <<t>>, 2, 4, <<>>)
    PROVE  Problems(img) = {}
<1>1. /\ img.hv = 2 /\ img.page = 4 /\ img.ks = KernelSize(k) /\ img.rs = rs
      /\ img.ds = SizeOf(<<t>>) /\ img.kernel = k /\ img.slot = <<t>> /\ img.cmdline = <<>>
      /\ img.slotAt = 4 * (1 + Pages(KernelSize(k), 4) + Pages(rs, 4))
      /\ img.size = img.slotAt + RoundPage(SizeOf(<<t>>), 4)
  BY ImageFields
<1>2. k.member \in Nat \ {0} /\ k.trees = <<>>
  BY DEF PayloadAssumption
<1>3. t.size \in Nat \ {0} /\ SizeOf(<<t>>) = t.size
  BY SizeOfOne DEF IsTree
<1>4. KernelSize(k) = k.member
  <2>1. k.member + 0 = k.member
    BY <1>2
  <2> QED BY <1>2, <2>1, SizeOfNone DEF KernelSize
<1>5. DetectProfile(img) = "stock"
  BY <1>1 DEF DetectProfile
<1> DEFINE p == PROFILES["stock"]
<1>6. p.header_version = 2 /\ p.page_size = 4 /\ p.dtb_in_header
  BY DEF PROFILES
<1>7. DtbOff(img) = img.slotAt
  BY <1>1 DEF DtbOff
<1>8. img.slotAt \in Nat
  <2>1. 4 \in PageSizes
    BY DEF PageSizes
  <2>2. Pages(KernelSize(k), 4) \in Nat /\ Pages(rs, 4) \in Nat
    BY <1>2, <1>4, <2>1, PagesAreCounted
  <2>3. 4 * (1 + Pages(KernelSize(k), 4) + Pages(rs, 4)) \in Nat \ {0}
    BY <2>1, <2>2, PartsAreBehindTheHeader
  <2> QED BY <1>1, <2>3
<1>9. TreesFrom(img, DtbOff(img)) = <<t>>
  <2> DEFINE off == DtbOff(img)
             A == {n \in 1..Len(img.kernel.trees) :
                     off = img.page + img.kernel.member
                             + SizeOf(SubSeq(img.kernel.trees, 1, n - 1))}
             B == {n \in 1..Len(img.slot) :
                     off = img.slotAt + SizeOf(SubSeq(img.slot, 1, n - 1))}
  <2>1. (A = {} /\ B # {}) =>
          TreesFrom(img, off) = SubSeq(img.slot, CHOOSE n \in B : TRUE, Len(img.slot))
    BY DEF TreesFrom
  <2>2. A = {}
    <3>1. Len(img.kernel.trees) = 0
      BY <1>1, <1>2, EmptySeq
    <3> QED BY <3>1
  <2>3. Len(<<t>>) = 1 /\ SubSeq(<<t>>, 1, 1 - 1) = <<>>
    BY SubSeqEmpty
  <2>4. 1 \in B
    <3>1. off = img.slotAt + SizeOf(SubSeq(<<t>>, 1, 1 - 1))
      <4>1. img.slotAt = img.slotAt + 0
        BY <1>8
      <4> QED BY <1>7, <2>3, <4>1, SizeOfNone
    <3>2. 1 \in 1..Len(img.slot) /\ off = img.slotAt + SizeOf(SubSeq(img.slot, 1, 1 - 1))
      <4>1. img.slot = <<t>>
        BY <1>1
      <4>2. SubSeq(img.slot, 1, 1 - 1) = SubSeq(<<t>>, 1, 1 - 1)
        BY ONLY <4>1, Zenon
      <4>3. 1 \in 1..Len(img.slot)
        <5>1. Len(img.slot) = 1
          BY ONLY <2>3, <4>1, Zenon
        <5>2. 1 \in 1..1
          OBVIOUS
        <5> QED BY ONLY <5>1, <5>2, Zenon
      <4> HIDE DEF off
      <4>4. off = img.slotAt + SizeOf(SubSeq(img.slot, 1, 1 - 1))
        BY ONLY <3>1, <4>2, Zenon
      <4> QED BY <4>3, <4>4
    <3> HIDE DEF off
    <3> QED BY <3>2
  <2>5. (CHOOSE n \in B : TRUE) = 1
    BY <1>1, <2>3, <2>4
  <2>6. SubSeq(<<t>>, 1, Len(<<t>>)) = <<t>>
    <3>1. <<t>> \in Seq({t})
      OBVIOUS
    <3> QED BY <3>1, SubSeqFull
  <2> HIDE DEF A, B, off
  <2>7. TreesFrom(img, off) = <<t>>
    BY <1>1, <2>1, <2>2, <2>4, <2>5, <2>6
  <2> QED BY <2>7 DEF off
<1>10. CarriedTree(img, p) = <<t>>
  <2>1. First(<<t>>) = <<t>>
    BY DEF First
  <2> QED BY <1>6, <1>9, <2>1 DEF CarriedTree
<1>11. RegionsEnd(img) = img.size
  BY <1>1, <1>7 DEF RegionsEnd
<1>12. /\ ~(RegionsEnd(img) > img.size) /\ ~(img.size - RegionsEnd(img) > img.page)
  <2>1. RoundPage(SizeOf(<<t>>), 4) \in Nat
    BY <1>3, PagesAreCounted DEF PageSizes
  <2>2. img.size \in Nat
    BY <1>1, <1>8, <2>1
  <2> QED BY <1>1, <1>11, <2>2
<1>13. RamoopsProblems(img, p) = {}
  BY <1>1, <1>10, ItsLogIsTheOne
<1>14. img.hv = p.header_version /\ img.page = p.page_size /\ img.ks # 0 /\ img.ds # 0
  BY <1>1, <1>2, <1>3, <1>4, <1>6
<1> HIDE DEF p
<1> QED BY <1>1, <1>5, <1>6, <1>10, <1>12, <1>13, <1>14, NothingElseIsWrong DEF p

(* Nor has the silicon shape, unless its kernel is raw: then nothing says  *)
(* where the tree begins.                                                  *)
LEMMA ASiliconPayloadIsInOrder ==
    ASSUME PayloadAssumption, NEW k0 \in Kernels, k0.arm64, NEW rs \in Nat,
           NEW t, IsTree(t), Validates(t),
           NEW img, img = Image(Glued(k0, t), rs, <<>>, 1, 2, <<>>)
    PROVE  Problems(img) = {} <=> k0.form # "raw"
<1> PICK k : k = [k0 EXCEPT !.trees = <<t>>]
  OBVIOUS
<1>0. img = Image(k, rs, <<>>, 1, 2, <<>>)
  BY DEF Glued
<1>1. /\ img.hv = 1 /\ img.page = 2 /\ img.ks = KernelSize(k) /\ img.rs = rs
      /\ img.ds = SizeOf(<<>>) /\ img.kernel = k /\ img.slot = <<>> /\ img.cmdline = <<>>
      /\ img.slotAt = 2 * (1 + Pages(KernelSize(k), 2) + Pages(rs, 2))
      /\ img.size = img.slotAt + RoundPage(SizeOf(<<>>), 2)
  BY <1>0, ImageFields
<1>2. k0.member \in Nat \ {0} /\ {"form", "member", "field", "trees", "arm64"} \subseteq DOMAIN k0
  BY DEF PayloadAssumption
<1>3. t.size \in Nat \ {0} /\ SizeOf(<<t>>) = t.size /\ t.total = t.size
  BY SizeOfOne DEF IsTree
<1>4. k.member = k0.member /\ k.form = k0.form /\ k.arm64 /\ k.trees = <<t>>
  BY <1>2
<1>5. KernelSize(k) \in Nat \ {0}
  <2>1. KernelSize(k) = k.member + t.size
    BY <1>3, <1>4 DEF KernelSize
  <2> QED BY <1>2, <1>3, <1>4, <2>1
<1>6. DetectProfile(img) = "silicon"
  BY <1>1 DEF DetectProfile
<1> DEFINE p == PROFILES["silicon"]
<1>7. p.header_version = 1 /\ p.page_size = 2 /\ ~p.dtb_in_header
  BY DEF PROFILES
<1>8. AppendedDtb(img) = <<t>>
  <2>1. img.kernel.trees = <<t>>
    BY <1>1, <1>4
  <2>2. <<t>> # <<>> /\ Len(<<t>>) = 1 /\ <<t>>[1] = t
    OBVIOUS
  <2> QED BY <1>3, <2>1, <2>2 DEF AppendedDtb
<1>9. CarriedTree(img, p) = <<t>>
  BY <1>7, <1>8 DEF CarriedTree
<1>10. RegionsEnd(img) = img.size
  BY <1>1 DEF RegionsEnd, DtbOff
<1>11. ~(RegionsEnd(img) > img.size) /\ ~(img.size - RegionsEnd(img) > img.page)
  <2>1. 2 \in PageSizes
    BY DEF PageSizes
  <2>2. img.slotAt \in Nat
    BY <1>1, <1>5, <2>1, PagesAreCounted, PartsAreBehindTheHeader
  <2>3. RoundPage(SizeOf(<<>>), 2) \in Nat
    BY <2>1, PagesAreCounted, SizeOfNone
  <2>4. img.size \in Nat
    BY <1>1, <2>2, <2>3
  <2> QED BY <1>1, <1>10, <2>4
<1>12. RamoopsProblems(img, p) = {}
  BY <1>1, <1>9, ItsLogIsTheOne
<1>13. img.hv = p.header_version /\ img.page = p.page_size /\ img.ks # 0
  BY <1>1, <1>5, <1>7
<1>14. AppendedDtb(img) # <<>> /\ img.kernel.arm64
  <2>1. img.kernel.arm64
    BY ONLY <1>1, <1>4, Zenon
  <2>2. <<t>> # <<>>
    OBVIOUS
  <2> QED BY <1>8, <2>1, <2>2
<1> HIDE DEF p
<1>15. Problems(img) = {} <=> ~(~p.dtb_in_header /\ img.kernel.form = "raw")
  BY <1>6, <1>7, <1>11, <1>12, <1>13, <1>14, NothingElseIsWrong DEF p
<1> QED BY <1>1, <1>4, <1>7, <1>15 DEF p

-----------------------------------------------------------------------------
(* The inductive invariant.  The tree of an earlier build may be there for *)
(* another dtbo, but it is a tree and it has been validated before it is   *)
(* packed; the image is what one of the builders or a hand made of it; and *)
(* what let it pass lets it pass still, as nothing it was judged by moves  *)
(* until the next build.                                                   *)
Packed == step \in {"check", "replay", "flash", "done"}

TreeInv ==
    /\ dtb = <<>> \/ (dtb = <<dtb[1]>> /\ IsTree(dtb[1]))
    /\ step = "image" \/ Packed => dtb # <<>> /\ Validates(dtb[1])

MadeByP1 ==
    builder = "p1" /\ \E k \in Kernels, rs \in Ramdisks, c \in Cmdlines :
                         image = <<Build(k, rs, dtb[1], PROFILES["stock"], c)>>
MadeByP2 ==
    builder = "p2" /\ \E k \in Kernels, p \in DOMAIN PROFILES :
                         image = <<Build(k, 1, dtb[1], PROFILES[p], <<>>)>>
MadeByHand ==
    builder = "hand" /\
        \E k \in Kernels, rs \in Ramdisks \cup {0}, page \in PageSizes, other \in Boards :
            \E slot \in {<<>>, dtb, <<TreeOf(other, dtbo)>> \o dtb} :
                image = <<MkBootImg(k, rs, slot, page, <<>>)>>
ImageInv ==
    /\ image = <<>> \/ Len(image) = 1
    /\ Packed => MadeByP1 \/ MadeByP2 \/ MadeByHand

JudgedInv ==
    /\ (step \in {"replay", "flash", "done"} /\ builder # "p1") => Problems(image[1]) = {}
    /\ step \in {"flash", "done"} => Replay(image[1], dtbo, hasFdtoverlay)
    /\ step = "done" => booted = AblHandsOver(image[1], dtbo)
    /\ booted = <<>> \/ Len(booted) = 1

KindInv ==
    /\ board \in Boards /\ dtbo \in Dtbos /\ hasFdtoverlay \in BOOLEAN
    /\ step \in {"tree", "image", "check", "replay", "flash", "done", "stopped"}
    /\ builder \in {"p1", "p2", "hand"}

IInv == KindInv /\ TreeInv /\ ImageInv /\ JudgedInv

(* The invariant holds at first, and every action keeps it. *)
LEMMA InitHolds == Init => IInv
<1> SUFFICES ASSUME Init PROVE IInv
  OBVIOUS
<1>1. KindInv
  BY DEF Init, KindInv
<1>2. TreeInv
  BY DEF Init, TreeInv, Packed
<1>3. ImageInv
  BY DEF Init, ImageInv, Packed
<1>4. JudgedInv
  BY DEF Init, JudgedInv
<1> QED BY <1>1, <1>2, <1>3, <1>4 DEF IInv

LEMMA ReusesTreeKeeps == ASSUME IInv, ReusesTree PROVE IInv'
<1>1. step = "tree" /\ UNCHANGED <<board, dtbo, dtb, image, builder, hasFdtoverlay, booted>>
  BY DEF ReusesTree, Stops
<1>2. /\ step' = "image" \/ step' = "stopped"
      /\ step' = "image" => dtb # <<>> /\ Validates(dtb[1])
  BY DEF ReusesTree, Stops
<1>3. KindInv'
  BY <1>1, <1>2 DEF IInv, KindInv
<1>4. TreeInv'
  BY <1>1, <1>2 DEF IInv, TreeInv, Packed
<1>5. ImageInv'
  BY <1>1, <1>2 DEF IInv, ImageInv, Packed
<1>6. JudgedInv'
  BY <1>1, <1>2 DEF IInv, JudgedInv
<1> QED BY <1>3, <1>4, <1>5, <1>6 DEF IInv

LEMMA BuildsTreeKeeps == ASSUME PayloadAssumption, IInv, BuildsTree PROVE IInv'
<1>1. UNCHANGED <<board, dtbo, image, builder, hasFdtoverlay, booted>>
  BY DEF BuildsTree
<1>2. dtb' = <<TreeOf(board, dtbo)>> /\ dtb'[1] = TreeOf(board, dtbo) /\ dtb' # <<>>
  BY DEF BuildsTree
<1>3. /\ step' = "image" \/ step' = "stopped"
      /\ step' = "image" => Validates(dtb'[1])
  BY DEF BuildsTree
<1>4. KindInv'
  BY <1>1, <1>3 DEF IInv, KindInv
<1>5. IsTree(dtb'[1])
  BY <1>2, TreeOfIsTree DEF IInv, KindInv
<1>6. TreeInv'
  BY <1>2, <1>3, <1>5 DEF TreeInv, Packed
<1>7. ImageInv'
  BY <1>1, <1>3 DEF IInv, ImageInv, Packed
<1>8. JudgedInv'
  BY <1>1, <1>3 DEF IInv, JudgedInv
<1> QED BY <1>4, <1>6, <1>7, <1>8 DEF IInv

LEMMA BuildsImageKeeps == ASSUME IInv, BuildsImage PROVE IInv'
<1>1. step = "image" /\ UNCHANGED <<board, dtbo, dtb, builder, hasFdtoverlay, booted>>
  BY DEF BuildsImage
<1>2. /\ MadeByP1' \/ MadeByP2'
      /\ Len(image') = 1
      /\ step' = "check" \/ (step' = "replay" /\ builder = "p1")
  <2>1. PICK k \in Kernels :
          \/ \E rs \in Ramdisks, c \in Cmdlines : BuildsP1(k, rs, c)
          \/ \E p \in DOMAIN PROFILES : BuildsP2(k, p)
    BY DEF BuildsImage
  <2>2. CASE \E rs \in Ramdisks, c \in Cmdlines : BuildsP1(k, rs, c)
    <3>1. PICK rs \in Ramdisks, c \in Cmdlines : BuildsP1(k, rs, c)
      BY <2>2
    <3>2. /\ builder = "p1" /\ step' = "replay"
          /\ image' = <<Build(k, rs, dtb[1], PROFILES["stock"], c)>>
      BY <3>1 DEF BuildsP1
    <3>3. MadeByP1'
      BY <1>1, <3>2 DEF MadeByP1
    <3>4. Len(image') = 1
      BY <3>2
    <3> QED BY <3>2, <3>3, <3>4
  <2>3. CASE \E p \in DOMAIN PROFILES : BuildsP2(k, p)
    <3>1. PICK p \in DOMAIN PROFILES : BuildsP2(k, p)
      BY <2>3
    <3>2. /\ builder = "p2" /\ step' = "check"
          /\ image' = <<Build(k, 1, dtb[1], PROFILES[p], <<>>)>>
      BY <3>1 DEF BuildsP2
    <3>3. MadeByP2'
      BY <1>1, <3>2 DEF MadeByP2
    <3>4. Len(image') = 1
      BY <3>2
    <3> QED BY <3>2, <3>3, <3>4
  <2> QED BY <2>1, <2>2, <2>3
<1>3. KindInv'
  BY <1>1, <1>2 DEF IInv, KindInv
<1>4. TreeInv'
  BY <1>1 DEF IInv, TreeInv
<1>5. ImageInv'
  BY <1>2 DEF ImageInv
<1>6. JudgedInv'
  BY <1>1, <1>2 DEF IInv, JudgedInv
<1> QED BY <1>3, <1>4, <1>5, <1>6 DEF IInv

LEMMA PacksByHandKeeps == ASSUME IInv, PacksByHand PROVE IInv'
<1>1. /\ step = "image" /\ step' = "check" /\ builder' = "hand"
      /\ UNCHANGED <<board, dtbo, dtb, hasFdtoverlay, booted>>
  BY DEF PacksByHand
<1>2. MadeByHand' /\ Len(image') = 1
  <2>1. PICK k \in Kernels, rs \in Ramdisks \cup {0}, page \in {2, 4, 8}, other \in Boards :
          \E slot \in {<<>>, dtb, <<TreeOf(other, dtbo)>> \o dtb} :
              image' = <<MkBootImg(k, rs, slot, page, <<>>)>>
    BY DEF PacksByHand
  <2>2. PICK slot \in {<<>>, dtb, <<TreeOf(other, dtbo)>> \o dtb} :
          image' = <<MkBootImg(k, rs, slot, page, <<>>)>>
    BY <2>1
  <2>3. slot \in {<<>>, dtb', <<TreeOf(other, dtbo')>> \o dtb'}
    BY <1>1, <2>2
  <2>4. MadeByHand'
    BY <1>1, <2>2, <2>3 DEF MadeByHand, PageSizes
  <2>5. Len(image') = 1
    BY <2>2
  <2> QED BY <2>4, <2>5
<1>3. KindInv'
  BY <1>1 DEF IInv, KindInv
<1>4. TreeInv'
  BY <1>1 DEF IInv, TreeInv
<1>5. ImageInv'
  BY <1>2 DEF ImageInv
<1>6. JudgedInv'
  BY <1>1 DEF IInv, JudgedInv
<1> QED BY <1>3, <1>4, <1>5, <1>6 DEF IInv

(* The checks and the boot change nothing of what was packed. *)
LEMMA StaysPacked ==
    ASSUME TreeInv, ImageInv, Packed, UNCHANGED <<dtbo, dtb, image, builder>>
    PROVE  TreeInv' /\ ImageInv'
<1>1. TreeInv'
  BY DEF TreeInv
<1>2. (MadeByP1 => MadeByP1') /\ (MadeByP2 => MadeByP2') /\ (MadeByHand => MadeByHand')
  <2>1. MadeByP1 => MadeByP1'
    BY DEF MadeByP1
  <2>2. MadeByP2 => MadeByP2'
    BY DEF MadeByP2
  <2>3. MadeByHand => MadeByHand'
    BY DEF MadeByHand
  <2> QED BY <2>1, <2>2, <2>3
<1>3. ImageInv'
  BY <1>2 DEF ImageInv
<1> QED BY <1>1, <1>3

LEMMA ChecksPayloadKeeps == ASSUME IInv, ChecksPayload PROVE IInv'
<1>1. step = "check" /\ UNCHANGED <<board, dtbo, dtb, image, builder, hasFdtoverlay, booted>>
  BY DEF ChecksPayload
<1>2. /\ step' = "replay" \/ step' = "stopped"
      /\ step' = "replay" => Problems(image[1]) = {}
  BY DEF ChecksPayload
<1>3. KindInv'
  BY <1>1, <1>2 DEF IInv, KindInv
<1>4. TreeInv' /\ ImageInv'
  BY <1>1, StaysPacked DEF IInv, Packed
<1>5. JudgedInv'
  BY <1>1, <1>2 DEF IInv, JudgedInv
<1> QED BY <1>3, <1>4, <1>5 DEF IInv

LEMMA ReplaysKeeps == ASSUME IInv, Replays PROVE IInv'
<1>1. step = "replay" /\ UNCHANGED <<board, dtbo, dtb, image, builder, hasFdtoverlay, booted>>
  BY DEF Replays
<1>2. /\ step' = "flash" \/ step' = "stopped"
      /\ step' = "flash" => Replay(image[1], dtbo, hasFdtoverlay)
  BY DEF Replays
<1>3. KindInv'
  BY <1>1, <1>2 DEF IInv, KindInv
<1>4. TreeInv' /\ ImageInv'
  BY <1>1, StaysPacked DEF IInv, Packed
<1>5. JudgedInv'
  BY <1>1, <1>2 DEF IInv, JudgedInv
<1> QED BY <1>3, <1>4, <1>5 DEF IInv

LEMMA BootsKeeps == ASSUME IInv, Boots PROVE IInv'
<1>1. /\ step = "flash" /\ step' = "done" /\ booted' = AblHandsOver(image[1], dtbo)
      /\ UNCHANGED <<board, dtbo, dtb, image, builder, hasFdtoverlay>>
  BY DEF Boots
<1>2. KindInv'
  BY <1>1 DEF IInv, KindInv
<1>3. TreeInv' /\ ImageInv'
  BY <1>1, StaysPacked DEF IInv, Packed
<1>4. booted' = <<>> \/ Len(booted') = 1
  <2>1. \A x : Len(<<x>>) = 1
    OBVIOUS
  <2>2. \A s, m : FirstOf(s, m) = <<>> \/ \E x : FirstOf(s, m) = <<x>>
    BY DEF FirstOf
  <2>3. AblSelects(image[1]) = <<>> \/ \E x : AblSelects(image[1]) = <<x>>
    BY <2>2 DEF AblSelects
  <2>4. booted' = <<>> \/ booted' = AblSelects(image[1])
    BY <1>1 DEF AblHandsOver
  <2> QED BY <2>1, <2>3, <2>4
<1>5. JudgedInv'
  BY <1>1, <1>4 DEF IInv, JudgedInv
<1> QED BY <1>2, <1>3, <1>5 DEF IInv

LEMMA StartsOverKeeps == ASSUME IInv, StartsOver PROVE IInv'
<1>1. /\ step' = "tree" /\ builder' \in {"p1", "p2"} /\ dtbo' \in Dtbos /\ board' \in Boards
      /\ image' = <<>> /\ booted' = <<>> /\ UNCHANGED <<dtb, hasFdtoverlay>>
  BY DEF StartsOver
<1>2. KindInv'
  BY <1>1 DEF IInv, KindInv
<1>3. TreeInv'
  BY <1>1 DEF IInv, TreeInv, Packed
<1>4. ImageInv'
  BY <1>1 DEF ImageInv, Packed
<1>5. JudgedInv'
  BY <1>1 DEF JudgedInv
<1> QED BY <1>2, <1>3, <1>4, <1>5 DEF IInv

(* Whatever was built, packed, judged and booted, in every order of builds *)
(* and of changes of the phone's dtbo and the board's dts.                 *)
THEOREM PayloadHolds == Spec => []IInv
<1>1. IInv /\ [Next]_vars => IInv'
  <2> SUFFICES ASSUME IInv, [Next]_vars PROVE IInv'
    OBVIOUS
  <2>1. CASE ReusesTree
    BY <2>1, ReusesTreeKeeps
  <2>2. CASE BuildsTree
    BY <2>2, BuildsTreeKeeps, PayloadTypes
  <2>3. CASE BuildsImage
    BY <2>3, BuildsImageKeeps
  <2>4. CASE PacksByHand
    BY <2>4, PacksByHandKeeps
  <2>5. CASE ChecksPayload
    BY <2>5, ChecksPayloadKeeps
  <2>6. CASE Replays
    BY <2>6, ReplaysKeeps
  <2>7. CASE Boots
    BY <2>7, BootsKeeps
  <2>8. CASE StartsOver
    BY <2>8, StartsOverKeeps
  <2>9. CASE UNCHANGED vars
    BY <2>9 DEF vars, IInv, KindInv, TreeInv, ImageInv, JudgedInv, Packed,
                MadeByP1, MadeByP2, MadeByHand
  <2> QED BY <2>1, <2>2, <2>3, <2>4, <2>5, <2>6, <2>7, <2>8, <2>9 DEF Next
<1> QED BY <1>1, InitHolds, PTL DEF Spec

-----------------------------------------------------------------------------
(* A slot of two trees. *)
LEMMA TwoTrees == ASSUME NEW t, NEW u PROVE <<t>> \o <<u>> = <<t, u>>
<1> DEFINE S == {t, u}
<1>1. <<t>> \in Seq(S) /\ <<u>> \in Seq(S) /\ <<t, u>> \in Seq(S)
  OBVIOUS
<1>2. /\ Len(<<t>>) = 1 /\ Len(<<u>>) = 1 /\ Len(<<t, u>>) = 2
      /\ <<t>>[1] = t /\ <<u>>[1] = u /\ <<t, u>>[1] = t /\ <<t, u>>[2] = u
  OBVIOUS
<1> HIDE DEF S
<1> DEFINE c == <<t>> \o <<u>>
<1>3. /\ c \in Seq(S) /\ Len(c) = Len(<<t>>) + Len(<<u>>)
      /\ \A i \in 1..(Len(<<t>>) + Len(<<u>>)) :
            c[i] = IF i <= Len(<<t>>) THEN <<t>>[i] ELSE <<u>>[i - Len(<<t>>)]
  BY <1>1, ConcatProperties
<1> HIDE DEF c
<1>4. Len(c) = 2 /\ c[1] = t /\ c[2] = u
  BY <1>2, <1>3
<1>5. \A i \in 1..2 : c[i] = <<t, u>>[i]
  BY <1>2, <1>4
<1>6. c = <<t, u>>
  BY <1>1, <1>2, <1>3, <1>4, <1>5, SeqEqual
<1> QED BY <1>6 DEF c

(* The shapes of an image, as the layout lemmas name them. *)
LEMMA P2Shapes ==
    ASSUME PayloadAssumption, IInv, MadeByP2
    PROVE  \E k \in Kernels :
              \/ image[1] = Image(k, 1, <<dtb[1]>>, 2, 4, <<>>)
              \/ image[1] = Image(Glued(k, dtb[1]), 1, <<>>, 1, 2, <<>>)
<1>1. PICK k \in Kernels, p \in DOMAIN PROFILES :
        image = <<Build(k, 1, dtb[1], PROFILES[p], <<>>)>>
  BY DEF MadeByP2
<1>2. image[1] = Build(k, 1, dtb[1], PROFILES[p], <<>>)
  BY <1>1
<1>3. k.trees = <<>>
  BY DEF PayloadAssumption
<1>4. Append(<<>>, dtb[1]) = <<dtb[1]>>
  OBVIOUS
<1>5. p = "stock" \/ p = "silicon"
  BY DEF PROFILES
<1>6. CASE p = "stock"
  <2>1. /\ PROFILES[p].dtb_in_header
        /\ PROFILES[p].header_version = 2 /\ PROFILES[p].page_size = 4
    BY <1>6 DEF PROFILES
  <2> QED BY <1>2, <2>1 DEF Build
<1>7. CASE p = "silicon"
  <2>1. /\ ~PROFILES[p].dtb_in_header
        /\ PROFILES[p].header_version = 1 /\ PROFILES[p].page_size = 2
    BY <1>7 DEF PROFILES
  <2>2. image[1] = Image([k EXCEPT !.trees = Append(k.trees, dtb[1])], 1, <<>>, 1, 2, <<>>)
    BY <1>2, <2>1 DEF Build
  <2> QED BY <1>3, <1>4, <2>2 DEF Glued
<1> QED BY <1>5, <1>6, <1>7

(* ... and an image packed by hand. *)
LEMMA HandShape ==
    ASSUME PayloadAssumption, IInv, Packed, MadeByHand
    PROVE  \E k \in Kernels, rs \in Nat, page \in PageSizes : \E t, slot :
              /\ IsTree(t)
              /\ slot = <<>> \/ slot = <<dtb[1]>> \/ slot = <<t, dtb[1]>>
              /\ image[1] = Image(k, rs, slot, 2, page, <<>>)
<1> DEFINE u == dtb[1]
<1>1. dtb = <<u>>
  BY DEF IInv, TreeInv
<1>2. PICK k \in Kernels, rs \in Ramdisks \cup {0}, page \in PageSizes, other \in Boards :
        \E slot \in {<<>>, dtb, <<TreeOf(other, dtbo)>> \o dtb} :
            image = <<MkBootImg(k, rs, slot, page, <<>>)>>
  BY DEF MadeByHand
<1>3. PICK slot \in {<<>>, dtb, <<TreeOf(other, dtbo)>> \o dtb} :
        image = <<MkBootImg(k, rs, slot, page, <<>>)>>
  BY <1>2
<1> DEFINE t == TreeOf(other, dtbo)
<1>4. IsTree(t)
  BY TreeOfIsTree DEF IInv, KindInv
<1>5. slot = <<>> \/ slot = <<u>> \/ slot = <<t, u>>
  <2> HIDE DEF t, u
  <2>1. <<t>> \o <<u>> = <<t, u>>
    BY TwoTrees
  <2> QED BY <1>1, <1>3, <2>1 DEF t
<1>6. rs \in Nat
  BY DEF PayloadAssumption
<1>7. image[1] = Image(k, rs, slot, 2, page, <<>>)
  BY <1>3 DEF MkBootImg
<1> HIDE DEF t
<1> QED BY <1>4, <1>5, <1>6, <1>7

(* What an image that was made holds: trees, and of the builders' only     *)
(* the one that was built.                                                 *)
LEMMA WhatIsPacked ==
    ASSUME PayloadAssumption, IInv, Packed
    PROVE  \E T : /\ \A t \in T : IsTree(t)
                  /\ builder # "hand" => \A t \in T : dtb = <<t>>
                  /\ image[1].kernel.trees \in Seq(T) /\ Len(image[1].kernel.trees) <= 2
                  /\ image[1].slot \in Seq(T) /\ Len(image[1].slot) <= 2
                  /\ image[1].cmdline \in Seq(Regions)
<1> DEFINE u == dtb[1]
<1>1. dtb = <<u>> /\ IsTree(u)
  BY DEF IInv, TreeInv
<1> HIDE DEF u
<1>2. <<u>> \in Seq({u}) /\ Len(<<u>>) <= 2 /\ <<>> \in Seq({u}) /\ Len(<<>>) <= 2
  BY EmptySeq
<1>3. /\ \A c \in Cmdlines : c \in Seq(Regions)
      /\ <<>> \in Seq(Regions)
      /\ \A k \in Kernels : k.trees = <<>> /\ {"form", "member", "field", "trees"} \subseteq DOMAIN k
  BY EmptySeq DEF PayloadAssumption
<1>4. ASSUME NEW k \in Kernels, NEW rs, NEW p \in DOMAIN PROFILES, NEW c \in Seq(Regions),
             NEW img, img = Build(k, rs, u, PROFILES[p], c)
      PROVE  /\ img.kernel.trees \in Seq({u}) /\ Len(img.kernel.trees) <= 2
             /\ img.slot \in Seq({u}) /\ Len(img.slot) <= 2
             /\ img.cmdline \in Seq(Regions)
  <2>1. CASE PROFILES[p].dtb_in_header
    <3>1. img.kernel = k /\ img.slot = <<u>> /\ img.cmdline = c
      BY <1>4, <2>1, ImageFields DEF Build
    <3> QED BY <1>2, <1>3, <3>1
  <2>2. CASE ~PROFILES[p].dtb_in_header
    <3>1. /\ img.kernel = [k EXCEPT !.trees = Append(k.trees, u)]
          /\ img.slot = <<>> /\ img.cmdline = c
      BY <1>4, <2>2, ImageFields DEF Build
    <3>2. img.kernel.trees = <<u>>
      <4>1. img.kernel.trees = Append(<<>>, u)
        BY <1>3, <3>1
      <4>2. Append(<<>>, u) = <<u>>
        OBVIOUS
      <4> QED BY <4>1, <4>2
    <3> QED BY <1>2, <1>4, <3>1, <3>2
  <2> QED BY <2>1, <2>2
<1>5. CASE MadeByP1
  <2>1. PICK k \in Kernels, rs \in Ramdisks, c \in Cmdlines :
          image = <<Build(k, rs, u, PROFILES["stock"], c)>>
    BY <1>5 DEF MadeByP1, u
  <2>2. image[1] = Build(k, rs, u, PROFILES["stock"], c) /\ "stock" \in DOMAIN PROFILES
    BY <2>1 DEF PROFILES
  <2>3. /\ image[1].kernel.trees \in Seq({u}) /\ Len(image[1].kernel.trees) <= 2
        /\ image[1].slot \in Seq({u}) /\ Len(image[1].slot) <= 2
        /\ image[1].cmdline \in Seq(Regions)
    BY ONLY <1>3, <1>4, <2>2, k \in Kernels, c \in Cmdlines
  <2> WITNESS {u}
  <2> QED BY <1>1, <2>3
<1>6. CASE MadeByP2
  <2>1. PICK k \in Kernels, p \in DOMAIN PROFILES : image = <<Build(k, 1, u, PROFILES[p], <<>>)>>
    BY <1>6 DEF MadeByP2, u
  <2>2. image[1] = Build(k, 1, u, PROFILES[p], <<>>)
    BY <2>1
  <2>3. /\ image[1].kernel.trees \in Seq({u}) /\ Len(image[1].kernel.trees) <= 2
        /\ image[1].slot \in Seq({u}) /\ Len(image[1].slot) <= 2
        /\ image[1].cmdline \in Seq(Regions)
    BY ONLY <1>3, <1>4, <2>2, k \in Kernels, p \in DOMAIN PROFILES
  <2> WITNESS {u}
  <2> QED BY <1>1, <2>3
<1>7. CASE MadeByHand
  <2>0. PICK k \in Kernels, rs \in Nat, page \in PageSizes : \E t, slot :
          /\ IsTree(t)
          /\ slot = <<>> \/ slot = <<u>> \/ slot = <<t, u>>
          /\ image[1] = Image(k, rs, slot, 2, page, <<>>)
    BY <1>7, HandShape DEF u
  <2>1. PICK t, slot :
          /\ IsTree(t)
          /\ slot = <<>> \/ slot = <<u>> \/ slot = <<t, u>>
          /\ image[1] = Image(k, rs, slot, 2, page, <<>>)
    BY <2>0
  <2>2. image[1].kernel = k /\ image[1].slot = slot /\ image[1].cmdline = <<>>
    BY <2>1, ImageFields
  <2>3. slot \in Seq({t, u}) /\ Len(slot) <= 2 /\ <<>> \in Seq({t, u}) /\ Len(<<>>) <= 2
    <3>1. /\ <<>> \in Seq({t, u}) /\ Len(<<>>) <= 2
          /\ <<u>> \in Seq({t, u}) /\ Len(<<u>>) <= 2
          /\ <<t, u>> \in Seq({t, u}) /\ Len(<<t, u>>) <= 2
      BY EmptySeq
    <3> QED BY <2>1, <3>1
  <2>4. builder = "hand"
    BY <1>7 DEF MadeByHand
  <2> WITNESS {t, u}
  <2> QED BY <1>1, <1>3, <2>1, <2>2, <2>3, <2>4
<1> QED BY <1>5, <1>6, <1>7 DEF IInv, ImageInv

(* A payload both checks let through boots, with the tree that was packed, *)
(* its overlay in the sinks, and its log and framebuffer in memory that is *)
(* the kernel's.                                                           *)
THEOREM AcceptedPayloadsBoot == Spec => []AcceptedBoots
<1>1. IInv => AcceptedBoots
  <2> SUFFICES ASSUME IInv, step = "done", hasFdtoverlay, HasOurTree
               PROVE  /\ booted # <<>>
                      /\ builder # "hand" => booted = dtb
                      /\ BoardEntry(dtbo) # <<>> =>
                            \A s \in BoardEntry(dtbo)[1].fixups : Lands(booted[1], s) = {Sink(s)}
                      /\ \A r \in booted[1].fb : \A b \in Bytes(r) : Free(b)
                      /\ \A k \in 1..Len(LogRegion(image[1], booted[1])) :
                            \A b \in Bytes(LogRegion(image[1], booted[1])[k]) : Free(b)
    BY DEF AcceptedBoots
  <2>1. booted = AblHandsOver(image[1], dtbo) /\ Replay(image[1], dtbo, hasFdtoverlay)
    BY DEF IInv, JudgedInv
  <2>2. hasFdtoverlay = TRUE
    BY DEF IInv, KindInv
  <2>3. Replay(image[1], dtbo, TRUE)
    BY <2>1, <2>2
  <2>4. PICK T : /\ \A t \in T : IsTree(t)
                 /\ builder # "hand" => \A t \in T : dtb = <<t>>
                 /\ image[1].kernel.trees \in Seq(T) /\ Len(image[1].kernel.trees) <= 2
                 /\ image[1].slot \in Seq(T) /\ Len(image[1].slot) <= 2
                 /\ image[1].cmdline \in Seq(Regions)
    BY WhatIsPacked, PayloadTypes DEF Packed
  <2>5. \E k \in 1..Len(Trees(image[1])) : Trees(image[1])[k].msm = "ours"
    BY DEF HasOurTree
  <2>6. PICK t \in T :
          /\ AblHandsOver(image[1], dtbo) = <<t>>
          /\ BoardEntry(dtbo) # <<>> =>
                \A s \in BoardEntry(dtbo)[1].fixups : Lands(t, s) = {Sink(s)}
          /\ \A r \in t.fb : \A b \in Bytes(r) : Free(b)
          /\ \A k \in 1..Len(LogRegion(image[1], t)) :
                \A b \in Bytes(LogRegion(image[1], t)[k]) : Free(b)
    BY <2>3, <2>4, <2>5, AcceptedTree, PayloadTypes
  <2>7. booted = <<t>> /\ booted[1] = t /\ booted # <<>>
    BY <2>1, <2>6
  <2>8. builder # "hand" => booted = dtb
    BY <2>4, <2>6, <2>7
  <2> QED BY <2>6, <2>7, <2>8
<1> QED BY <1>1, PayloadHolds, PTL

-----------------------------------------------------------------------------
(* The two halves of CheckersAgree: the tree of a payload that passed, and *)
(* that the P2 builder's payloads pass.                                    *)
LEMMA PackedIsJudgedAlike ==
    ASSUME PayloadAssumption, IInv, step = "replay", builder # "p1"
    PROVE  CarriedTree(image[1], PROFILES[DetectProfile(image[1])]) = First(Trees(image[1]))
<1> DEFINE u == dtb[1]
<1>1. dtb = <<u>> /\ IsTree(u) /\ Validates(u) /\ Problems(image[1]) = {}
  BY DEF IInv, TreeInv, JudgedInv, Packed
<1>2. MadeByP2 \/ MadeByHand
  BY DEF IInv, ImageInv, Packed, MadeByP1
<1>3. CASE MadeByP2
  <2>1. PICK k \in Kernels : \/ image[1] = Image(k, 1, <<u>>, 2, 4, <<>>)
                             \/ image[1] = Image(Glued(k, u), 1, <<>>, 1, 2, <<>>)
    BY <1>3, P2Shapes
  <2> HIDE DEF u
  <2>2. CASE image[1] = Image(k, 1, <<u>>, 2, 4, <<>>)
    <3>1. 4 \in PageSizes /\ 1 \in Nat
      BY DEF PageSizes
    <3> QED BY <1>1, <2>2, <3>1, TheSlotIsReadByBoth
  <2>3. CASE image[1] = Image(Glued(k, u), 1, <<>>, 1, 2, <<>>)
    <3> DEFINE glued == Glued(k, u)
    <3>1. image[1].hv = 1 /\ image[1].kernel = glued
      BY <2>3, ImageFields
    <3>2. DetectProfile(image[1]) = "silicon"
      BY <3>1 DEF DetectProfile
    <3>3. glued.form = k.form
      BY DEF PayloadAssumption, Glued
    <3>4. k.form \in {"gzip", "patched", "raw"}
      BY DEF PayloadAssumption
    <3>5. glued.form # "raw"
      <4>1. "no offset" \notin Problems(image[1])
        BY <1>1
      <4>2. ~PROFILES[DetectProfile(image[1])].dtb_in_header
        BY <3>2 DEF PROFILES
      <4>3. image[1].kernel.form # "raw"
        BY <4>1, <4>2 DEF Problems
      <4> HIDE DEF glued
      <4> QED BY <3>1, <4>3
    <3>6. AppendedDtb(image[1]) = <<u>>
      <4>1. image[1].kernel.trees = <<u>>
        <5>1. glued.trees = <<u>>
          BY DEF PayloadAssumption, Glued
        <5> HIDE DEF glued
        <5> QED BY <3>1, <5>1
      <4>2. <<u>> # <<>> /\ Len(<<u>>) = 1 /\ <<u>>[1] = u
        OBVIOUS
      <4>3. u.total = u.size
        BY <1>1 DEF IsTree
      <4> QED BY <4>1, <4>2, <4>3 DEF AppendedDtb
    <3>7. CarriedTree(image[1], PROFILES[DetectProfile(image[1])]) = <<u>>
      <4>1. ~PROFILES[DetectProfile(image[1])].dtb_in_header
        BY <3>2 DEF PROFILES
      <4> QED BY <3>6, <4>1 DEF CarriedTree
    <3>8. k.form = "gzip" \/ k.form = "patched"
      <4> HIDE DEF glued
      <4> QED BY <3>3, <3>4, <3>5
    <3>11. First(Trees(image[1])) = <<u>>
      BY <1>1, <2>3, <3>8, TheGluedTreeIsReadByBoth
    <3> QED BY <3>7, <3>11
  <2> QED BY <2>1, <2>2, <2>3
<1>4. CASE MadeByHand
  <2>0. PICK k \in Kernels, rs \in Nat, page \in PageSizes : \E t, slot :
          /\ IsTree(t)
          /\ slot = <<>> \/ slot = <<u>> \/ slot = <<t, u>>
          /\ image[1] = Image(k, rs, slot, 2, page, <<>>)
    BY <1>4, HandShape DEF Packed
  <2>1. PICK t, slot :
          /\ IsTree(t)
          /\ slot = <<>> \/ slot = <<u>> \/ slot = <<t, u>>
          /\ image[1] = Image(k, rs, slot, 2, page, <<>>)
    BY <2>0
  <2> HIDE DEF u
  <2> QED BY <1>1, <2>1, TheSlotIsReadByBoth
<1> QED BY <1>2, <1>3, <1>4

LEMMA P2PayloadsPass ==
    ASSUME PayloadAssumption, IInv, step = "check", builder = "p2", image[1].kernel.arm64
    PROVE  Problems(image[1]) = {} <=> (image[1].hv = 1 => image[1].kernel.form # "raw")
<1> DEFINE u == dtb[1]
<1>1. IsTree(u) /\ Validates(u)
  BY DEF IInv, TreeInv, Packed
<1>2. MadeByP2
  BY DEF IInv, ImageInv, Packed, MadeByP1, MadeByHand
<1>3. PICK k \in Kernels : \/ image[1] = Image(k, 1, <<u>>, 2, 4, <<>>)
                           \/ image[1] = Image(Glued(k, u), 1, <<>>, 1, 2, <<>>)
  BY <1>2, P2Shapes
<1> HIDE DEF u
<1>4. CASE image[1] = Image(k, 1, <<u>>, 2, 4, <<>>)
  <2>1. image[1].hv = 2 /\ image[1].kernel = k
    BY <1>4, ImageFields
  <2>2. k.arm64
    BY ONLY <2>1, image[1].kernel.arm64, Zenon
  <2>3. Problems(image[1]) = {}
    BY <1>1, <1>4, <2>2, AStockPayloadIsInOrder
  <2> QED BY <2>1, <2>3
<1>5. CASE image[1] = Image(Glued(k, u), 1, <<>>, 1, 2, <<>>)
  <2> DEFINE glued == Glued(k, u)
  <2>1. image[1].hv = 1 /\ image[1].kernel = glued
    BY <1>5, ImageFields
  <2>2. {"form", "arm64"} \subseteq DOMAIN k
    BY DEF PayloadAssumption
  <2>3. glued.arm64 = k.arm64 /\ glued.form = k.form
    BY <2>2 DEF Glued
  <2> HIDE DEF glued
  <2>4. k.arm64
    BY ONLY <2>1, <2>3, image[1].kernel.arm64, Zenon
  <2>5. Problems(image[1]) = {} <=> k.form # "raw"
    BY <1>1, <1>5, <2>4, ASiliconPayloadIsInOrder
  <2> QED BY <2>1, <2>3, <2>5
<1> QED BY <1>3, <1>4, <1>5

(* check-payload.py and ABL look at the same tree, and the builders'       *)
(* images are never stopped for their shape.                               *)
THEOREM TheChecksAgree == Spec => []CheckersAgree
<1>1. IInv => CheckersAgree
  <2> SUFFICES ASSUME IInv PROVE CheckersAgree
    OBVIOUS
  <2>1. TypeOK
    <3>1. Len(dtb) <= 1
      <4>1. \A x : Len(<<x>>) <= 1
        OBVIOUS
      <4> QED BY <4>1, EmptySeq DEF IInv, TreeInv
    <3>2. Len(image) <= 1 /\ Len(booted) <= 1
      <4>0. Len(<<>>) = 0
        BY EmptySeq
      <4>1. 0 <= 1 /\ 1 <= 1
        OBVIOUS
      <4>2. /\ Len(image) = 0 \/ Len(image) = 1
            /\ Len(booted) = 0 \/ Len(booted) = 1
        BY <4>0, Zenon DEF IInv, ImageInv, JudgedInv
      <4> QED BY <4>1, <4>2
    <3> QED BY <3>1, <3>2 DEF TypeOK, IInv, KindInv
  <2>2. (step = "replay" /\ builder # "p1") =>
          CarriedTree(image[1], PROFILES[DetectProfile(image[1])]) = First(Trees(image[1]))
    BY PackedIsJudgedAlike, PayloadTypes
  <2>3. (step = "check" /\ builder = "p2" /\ image[1].kernel.arm64) =>
          (Problems(image[1]) = {} <=> (image[1].hv = 1 => image[1].kernel.form # "raw"))
    BY P2PayloadsPass, PayloadTypes
  <2> QED BY <2>1, <2>2, <2>3 DEF CheckersAgree
<1> QED BY <1>1, PayloadHolds, PTL
================================================================================
