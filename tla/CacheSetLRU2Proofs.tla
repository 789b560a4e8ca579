------------------------- MODULE CacheSetLRU2Proofs -------------------------
(***************************************************************************)
(* Proofs about CacheSetLRU2 for every associativity and every set of      *)
(* blocks.  IInv is inductive: the age bits stay a permutation because the *)
(* accessed way is the only one that skips over others, and TypeOK's bound *)
(* on the bits follows from the permutation only.  The refinement of       *)
(* PartitionedLru follows from it and from two facts: an update of the     *)
(* bits is a use in the abstract order, and the victim is one it allows.   *)
(***************************************************************************)
EXTENDS CacheSetLRU2, WellFoundedInduction, TLAPS

(* Every nonempty set of naturals has a least element.                     *)
LEMMA LeastNat ==
    ASSUME NEW T \in SUBSET Nat, T # {}
    PROVE  \E m \in T : \A k \in T : m <= k
<1> DEFINE R == OpToRel(<, Nat)
<1>1. IsWellFoundedOn(R, Nat)
  BY NatLessThanWellFounded
<1>2. \A k, m \in T : k < m => <<k, m>> \in R
  BY DEF OpToRel
<1> HIDE DEF R
<1>3. \E m \in T : \A k \in T : ~(<<k, m>> \in R)
  BY <1>1, WFMin
<1>4. PICK m \in T : \A k \in T : ~(<<k, m>> \in R)
  BY <1>3
<1>5. \A k \in T : ~(k < m)
  BY <1>2, <1>4
<1>6. QED
  BY <1>5

(* Every nonempty set of naturals below a bound has a greatest element.    *)
LEMMA GreatestNat ==
    ASSUME NEW T \in SUBSET Nat, T # {}, NEW n \in Nat, \A k \in T : k <= n
    PROVE  \E m \in T : \A k \in T : k <= m
<1> DEFINE D == {n - k : k \in T}
<1>1. D \in SUBSET Nat
  OBVIOUS
<1>0. D # {}
  <2>1. PICK k \in T : TRUE
    OBVIOUS
  <2>2. n - k \in D
    OBVIOUS
  <2>3. QED
    BY <2>2
<1>2. PICK d \in D : \A e \in D : d <= e
  BY <1>0, <1>1, LeastNat
<1>3. PICK m \in T : d = n - m
  OBVIOUS
<1>4. \A k \in T : n - m <= n - k
  BY <1>2, <1>3
<1>5. QED
  BY <1>4

(* FirstWay returns a member of its argument.                              *)
LEMMA FirstWayIn ==
    ASSUME NEW P \in SUBSET Way, P # {}
    PROVE  FirstWay(P) \in P
<1>1. P \in SUBSET Nat
  BY MarginAssumption DEF Way
<1>2. \E w \in P : \A v \in P : w <= v
  BY <1>1, LeastNat
<1>3. QED
  BY <1>2 DEF FirstWay

(* The two partitions are nonempty sets of ways.                           *)
LEMMA PartitionsInWay ==
    /\ ExactWays \in SUBSET Way /\ ExactWays # {}
    /\ ApproxWays \in SUBSET Way /\ ApproxWays # {}
    /\ \A P \in {ExactWays, ApproxWays} : \A v, w \in P : v \in Partition(w)
<1>1. 0 \in ExactWays /\ approx_margin \in ApproxWays
  BY MarginAssumption DEF ExactWays, ApproxWays
<1>2. ExactWays \in SUBSET Way /\ ApproxWays \in SUBSET Way
  BY MarginAssumption DEF ExactWays, ApproxWays, Way
<1>3. \A P \in {ExactWays, ApproxWays} : \A v, w \in P : v \in Partition(w)
  BY MarginAssumption DEF ExactWays, ApproxWays, Partition
<1>4. QED
  BY <1>1, <1>2, <1>3

(* The ways the victim search considers, once no way of P is free.         *)
Candidates(P) == {w \in P : m_lru_bits[w] > 0 /\ isValidReplacement(w)}

(* If there is a candidate, the victim is the oldest of them.              *)
LEMMA VictimIsOldest ==
    ASSUME TypeOK, LruPermutation, NEW P \in {ExactWays, ApproxWays}, Candidates(P) # {}
    PROVE  /\ OldestReplaceable(P) \in Candidates(P)
           /\ \A v \in Candidates(P) : m_lru_bits[v] <= m_lru_bits[OldestReplaceable(P)]
<1> DEFINE Cand == Candidates(P)
           Bits == {m_lru_bits[w] : w \in Cand}
           Oldest(w) == \A v \in Cand : \/ m_lru_bits[v] < m_lru_bits[w]
                                        \/ m_lru_bits[v] = m_lru_bits[w] /\ w <= v
<1>1. Cand \in SUBSET P /\ P \in SUBSET Way
  BY PartitionsInWay DEF Candidates
<1>2. \A w \in Way : m_lru_bits[w] \in 0..255 /\ w \in Int
  BY MarginAssumption DEF TypeOK, Way
<1> HIDE DEF Cand
<1>3. Bits \in SUBSET Nat /\ \A k \in Bits : k <= 255
  BY <1>1, <1>2
<1>4. Bits # {}
  <2>1. PICK w \in Cand : TRUE
    BY DEF Cand
  <2>2. m_lru_bits[w] \in Bits
    OBVIOUS
  <2>3. QED
    BY <2>2
<1> HIDE DEF Bits
<1>5. PICK b \in Bits : \A k \in Bits : k <= b
  <2>1. 255 \in Nat
    OBVIOUS
  <2>2. QED
    BY <1>3, <1>4, <2>1, GreatestNat
<1> USE DEF Bits
<1>6. PICK w \in Cand : m_lru_bits[w] = b
  OBVIOUS
<1>7. \A v \in Cand : m_lru_bits[v] <= m_lru_bits[w]
  BY <1>5, <1>6
<1>8. \A v \in Cand : v # w => m_lru_bits[v] # m_lru_bits[w]
  BY <1>1, PartitionsInWay DEF LruPermutation, AgesDistinct
<1>9. Oldest(w)
  <2>1. SUFFICES ASSUME NEW v \in Cand
                 PROVE  \/ m_lru_bits[v] < m_lru_bits[w]
                        \/ m_lru_bits[v] = m_lru_bits[w] /\ w <= v
    OBVIOUS
  <2>2. v \in Int /\ w \in Int /\ m_lru_bits[v] \in Int /\ m_lru_bits[w] \in Int
    BY <1>1, <1>2
  <2>3. CASE v = w
    BY <2>2, <2>3
  <2>4. CASE v # w
    BY <2>2, <2>4, <1>7, <1>8
  <2>5. QED
    BY <2>3, <2>4
<1>10. OldestReplaceable(P) = CHOOSE x \in Cand : Oldest(x)
  BY DEF OldestReplaceable, Candidates, Cand
<1>11. OldestReplaceable(P) \in Cand /\ Oldest(OldestReplaceable(P))
  BY <1>9, <1>10
<1>12. \A v \in Cand : m_lru_bits[v] <= m_lru_bits[OldestReplaceable(P)]
  <2>1. \A v \in Cand : m_lru_bits[v] \in Int
    BY <1>1, <1>2
  <2>2. QED
    BY <1>11, <2>1
<1>13. QED
  BY <1>11, <1>12 DEF Cand

(* The victim search returns a way of the partition it was asked about.    *)
LEMMA ReplacementInPartition ==
    ASSUME TypeOK, LruPermutation, NEW P \in {ExactWays, ApproxWays}
    PROVE  getReplacementIndex(P) \in P
<1> DEFINE Free == {w \in P : ~IsValid(w)}
<1>1. P \in SUBSET Way /\ P # {}
  BY PartitionsInWay
<1>2. CASE Free # {}
  <2>1. FirstWay(Free) \in Free
    BY <1>1, <1>2, FirstWayIn
  <2>2. QED
    BY <1>2, <2>1 DEF getReplacementIndex
<1>3. CASE Free = {} /\ Candidates(P) = {}
  <2>1. FirstWay(P) \in P
    BY <1>1, FirstWayIn
  <2>2. QED
    BY <1>3, <2>1 DEF getReplacementIndex, OldestReplaceable, Candidates
<1>4. CASE Free = {} /\ Candidates(P) # {}
  <2>1. OldestReplaceable(P) \in P
    BY <1>4, VictimIsOldest DEF Candidates
  <2>2. QED
    BY <1>4, <2>1 DEF getReplacementIndex
<1>5. QED
  BY <1>2, <1>3, <1>4

(* updateReplacementIndex permutes the ages of the accessed partition.     *)
LEMMA UpdateKeepsAges ==
    ASSUME NEW bits \in [Way -> 0..255], AgesDistinct(bits), NEW a \in Way
    PROVE  /\ updateReplacementIndex(bits, a) \in [Way -> 0..255]
           /\ AgesDistinct(updateReplacementIndex(bits, a))
<1> DEFINE new == updateReplacementIndex(bits, a)
<1>1. \A w \in Way : new[w] = IF w = a THEN 0
                              ELSE IF w \in Partition(a) /\ bits[w] < bits[a]
                                   THEN bits[w] + 1 ELSE bits[w]
  BY DEF updateReplacementIndex
<1>2. \A w \in Way : bits[w] \in 0..255 /\ w \in Int
  BY MarginAssumption DEF Way
<1>3. \A w \in Way : new[w] \in 0..255
  BY <1>1, <1>2
<1>4. new \in [Way -> 0..255]
  BY <1>3 DEF updateReplacementIndex
<1> HIDE DEF new
<1>5. ASSUME NEW w \in Way PROVE new[w] < PartitionSize(w)
  <2>1. PartitionSize(w) \in Nat /\ PartitionSize(w) > 0
    BY <1>2, MarginAssumption DEF PartitionSize, Way
  <2>2. w \in Partition(a) => PartitionSize(w) = PartitionSize(a)
    BY <1>2, MarginAssumption DEF Partition, PartitionSize, ExactWays, ApproxWays
  <2>3. bits[w] < PartitionSize(w) /\ bits[a] < PartitionSize(a)
    BY DEF AgesDistinct
  <2>4. bits[w] \in Int /\ bits[a] \in Int
    BY <1>2
  <2>5. CASE w = a
    <3>1. new[w] = 0
      BY <1>1, <2>5
    <3>2. QED
      BY <3>1, <2>1
  <2>6. CASE w # a /\ w \in Partition(a) /\ bits[w] < bits[a]
    <3>1. new[w] = bits[w] + 1
      BY <1>1, <2>6
    <3>2. QED
      BY <3>1, <2>1, <2>2, <2>3, <2>4, <2>6
  <2>7. CASE w # a /\ ~(w \in Partition(a) /\ bits[w] < bits[a])
    <3>1. new[w] = bits[w]
      BY <1>1, <2>7
    <3>2. QED
      BY <3>1, <2>3
  <2>8. QED
    BY <2>5, <2>6, <2>7
<1>6. ASSUME NEW w \in Way, NEW v \in Partition(w), v # w PROVE new[v] # new[w]
  <2>1. v \in Way /\ w \in Partition(v) /\ Partition(v) = Partition(w)
    BY <1>2, MarginAssumption DEF Partition, ExactWays, ApproxWays, Way
  <2>2. bits[v] # bits[w]
    BY <1>6 DEF AgesDistinct
  <2>3. a \in Partition(w) => (a # v => bits[a] # bits[v]) /\ (a # w => bits[a] # bits[w])
    BY <2>1 DEF AgesDistinct
  <2>4. v \in Partition(a) <=> w \in Partition(a)
    BY <1>2, MarginAssumption DEF Partition, ExactWays, ApproxWays, Way
  <2>5. a \in Partition(w) <=> w \in Partition(a)
    BY <1>2, MarginAssumption DEF Partition, ExactWays, ApproxWays, Way
  <2>6. v = a \/ w = a => w \in Partition(a)
    BY <2>1
  <2>7. bits[w] \in Nat /\ bits[v] \in Nat /\ bits[a] \in Nat
    BY <1>2, <2>1
  <2>8. CASE w \notin Partition(a)
    <3>1. new[w] = bits[w] /\ new[v] = bits[v]
      BY <1>1, <2>1, <2>4, <2>6, <2>8
    <3>2. QED
      BY <2>2, <3>1
  <2>9. CASE w \in Partition(a)
    <3>1. /\ new[w] = IF w = a THEN 0 ELSE IF bits[w] < bits[a] THEN bits[w] + 1 ELSE bits[w]
          /\ new[v] = IF v = a THEN 0 ELSE IF bits[v] < bits[a] THEN bits[v] + 1 ELSE bits[v]
      BY <1>1, <2>1, <2>4, <2>9
    <3>2. /\ a # v => bits[a] # bits[v]
          /\ a # w => bits[a] # bits[w]
      BY <2>3, <2>5, <2>9
    <3>3. QED
      BY <1>6, <2>2, <2>7, <3>1, <3>2
  <2>10. QED
    BY <2>8, <2>9
<1>7. AgesDistinct(new)
  BY <1>5, <1>6 DEF AgesDistinct
<1>8. QED
  BY <1>4, <1>7 DEF new

(* A cached block is found, in the only way that holds it.                 *)
LEMMA FindWay ==
    ASSUME TypeOK, TagsUnique, NEW t \in Tag, Cached(t)
    PROVE  find(t) \in Way /\ tag[find(t)] = t
<1>1. PICK w \in Way : tag[w] = t
  BY DEF Cached
<1>2. \A v \in Way : tag[v] = t => v = w
  BY <1>1, NoTagAssumption DEF TagsUnique, IsValid
<1>3. w <= w
  BY MarginAssumption DEF Way
<1>4. \E x \in Way : tag[x] = t /\ \A v \in Way : tag[v] = t => v <= x
  BY <1>1, <1>2, <1>3
<1>5. QED
  BY <1>4 DEF find
-----------------------------------------------------------------------------
(* The inductive invariant: find and the fill need all three parts.        *)
IInv == TypeOK /\ LruPermutation /\ TagsUnique

(* A new set satisfies the invariant: the constructor numbers the ways.    *)
LEMMA InitIInv == Init => IInv
<1> SUFFICES ASSUME Init PROVE IInv
  OBVIOUS
<1> USE DEF Init
<1>1. TypeOK
  BY MarginAssumption DEF TypeOK, Way, CState
<1>2. LruPermutation
  <2>1. \A w \in Way : m_lru_bits[w] < PartitionSize(w)
    BY MarginAssumption DEF Way, PartitionSize
  <2>2. \A w \in Way : \A v \in Partition(w) : v # w => m_lru_bits[v] # m_lru_bits[w]
    BY MarginAssumption DEF Way, Partition, ExactWays, ApproxWays
  <2>3. QED
    BY <2>1, <2>2 DEF LruPermutation, AgesDistinct
<1>3. TagsUnique
  BY DEF TagsUnique, IsValid
<1>4. QED
  BY <1>1, <1>2, <1>3 DEF IInv

(* A hit keeps the invariant.                                             *)
LEMMA AccessIInv ==
    ASSUME IInv, NEW t \in Tag, Access(t) PROVE IInv'
<1>1. find(t) \in Way
  BY FindWay DEF IInv, Access
<1>2. m_lru_bits' \in [Way -> 0..255] /\ LruPermutation'
  BY <1>1, UpdateKeepsAges DEF IInv, TypeOK, LruPermutation, Access, AgesDistinct
<1>3. TypeOK'
  BY <1>2 DEF IInv, TypeOK, Access
<1>4. TagsUnique'
  BY DEF IInv, TagsUnique, IsValid, Access
<1>5. QED
  BY <1>2, <1>3, <1>4 DEF IInv

(* A fill keeps the invariant: it comes only after a failed lookup.        *)
LEMMA InsertIInv ==
    ASSUME IInv, NEW t \in Tag, NEW s \in CState, Insert(t, s) PROVE IInv'
<1> DEFINE w == getReplacementIndex(PartitionOf(t))
<1>1. w \in Way
  BY ReplacementInPartition, PartitionsInWay DEF IInv, PartitionOf
<1> HIDE DEF w
<1>2. /\ evicted' = IF IsValid(w) THEN tag[w] ELSE NoTag
      /\ tag' = [tag EXCEPT ![w] = t]
      /\ cstate' = [cstate EXCEPT ![w] = s]
      /\ m_lru_bits' = updateReplacementIndex(m_lru_bits, w)
      /\ approx' = approx
      /\ ~Cached(t)
  BY DEF Insert, w
<1>3. m_lru_bits' \in [Way -> 0..255] /\ LruPermutation'
  BY <1>1, <1>2, UpdateKeepsAges DEF IInv, TypeOK, LruPermutation, AgesDistinct
<1>4. TypeOK'
  BY <1>1, <1>2, <1>3 DEF IInv, TypeOK
<1>5. TagsUnique'
  <2>1. \A v \in Way : tag'[v] = IF v = w THEN t ELSE tag[v]
    BY <1>1, <1>2 DEF IInv, TypeOK
  <2>2. \A v \in Way : tag[v] # t
    BY <1>2 DEF Cached
  <2>3. QED
    BY <2>1, <2>2 DEF IInv, TagsUnique, IsValid
<1>6. QED
  BY <1>3, <1>4, <1>5 DEF IInv

(* An invalidation keeps the invariant, although it leaves the ages alone. *)
LEMMA InvalidateIInv ==
    ASSUME IInv, NEW t \in Tag, Invalidate(t) PROVE IInv'
<1>1. find(t) \in Way
  BY FindWay DEF IInv, Invalidate
<1>2. TypeOK'
  BY <1>1 DEF IInv, TypeOK, Invalidate, CState
<1>3. LruPermutation'
  BY DEF IInv, LruPermutation, Invalidate, AgesDistinct
<1>4. TagsUnique'
  <2>1. \A v \in Way : tag'[v] = IF v = find(t) THEN NoTag ELSE tag[v]
    BY <1>1 DEF IInv, TypeOK, Invalidate
  <2>2. QED
    BY <2>1 DEF IInv, TagsUnique, IsValid
<1>5. QED
  BY <1>2, <1>3, <1>4 DEF IInv

(* The age bits of each partition stay a permutation, no block is ever in  *)
(* two ways and every variable keeps its type, for every associativity.    *)
THEOREM SetInvariant == Spec => [](TypeOK /\ LruPermutation /\ TagsUnique)
<1>1. IInv /\ [Next]_vars => IInv'
  <2>1. SUFFICES ASSUME IInv, [Next]_vars PROVE IInv'
    OBVIOUS
  <2>2. CASE UNCHANGED vars
    BY <2>1, <2>2 DEF IInv, TypeOK, LruPermutation, AgesDistinct, TagsUnique, IsValid, vars
  <2>3. ASSUME NEW t \in Tag, Access(t) PROVE IInv'
    BY <2>1, <2>3, AccessIInv
  <2>4. ASSUME NEW t \in Tag, NEW s \in {"SHARED", "MODIFIED"}, Insert(t, s) PROVE IInv'
    BY <2>1, <2>4, InsertIInv DEF CState
  <2>5. ASSUME NEW t \in Tag, Invalidate(t) PROVE IInv'
    BY <2>1, <2>5, InvalidateIInv
  <2>6. ASSUME NEW t \in Tag, NEW s \in CState, SetCState(t, s) PROVE IInv'
    BY <2>1, <2>6 DEF IInv, TypeOK, LruPermutation, AgesDistinct, TagsUnique, IsValid, SetCState
  <2>7. ASSUME NEW t \in Tag, AddApprox(t) \/ DelApprox(t) PROVE IInv'
    BY <2>1, <2>7 DEF IInv, TypeOK, LruPermutation, AgesDistinct, TagsUnique, IsValid,
                      AddApprox, DelApprox
  <2>8. QED
    BY <2>1, <2>2, <2>3, <2>4, <2>5, <2>6, <2>7 DEF Next
<1>2. QED
  BY InitIInv, <1>1, PTL DEF Spec, IInv

(* SetInvariant in terms of the inductive invariant.                       *)
LEMMA InvariantIInv == Spec => []IInv
  BY SetInvariant, PTL DEF IInv

(* No block is ever in two ways, although lookups and fills see only the   *)
(* ways of the class that the block has at that moment (find, insert).     *)
THEOREM TagsAreUnique == Spec => []TagsUnique
<1>1. QED
  BY SetInvariant, PTL

(* insert fills a block only into the ways of the block's class at that    *)
(* moment, for every associativity and however classes change.             *)
THEOREM FillsStayInPartition == Spec => FillInPartition
<1> DEFINE A == \A w \in Way : tag'[w] \notin {tag[w], NoTag} => w \in PartitionOf(tag'[w])
<1>1. IInv /\ [Next]_vars => [A]_vars
  <2>1. SUFFICES ASSUME IInv, Next PROVE A
    BY DEF vars
  <2>2. ASSUME NEW t \in Tag, NEW s \in {"SHARED", "MODIFIED"}, Insert(t, s) PROVE A
    <3> DEFINE i == getReplacementIndex(PartitionOf(t))
    <3>1. i \in PartitionOf(t) /\ i \in Way
      BY <2>1, ReplacementInPartition, PartitionsInWay DEF IInv, PartitionOf
    <3> HIDE DEF i
    <3>2. tag' = [tag EXCEPT ![i] = t]
      BY <2>2 DEF Insert, i
    <3>3. \A w \in Way : tag'[w] = IF w = i THEN t ELSE tag[w]
      BY <2>1, <3>1, <3>2 DEF IInv, TypeOK
    <3>4. QED
      BY <3>1, <3>3
  <2>3. ASSUME NEW t \in Tag, Invalidate(t) PROVE A
    <3>1. \A w \in Way : tag'[w] \in {tag[w], NoTag}
      BY <2>1, <2>3 DEF IInv, TypeOK, Invalidate
    <3>2. QED
      BY <3>1
  <2>4. ASSUME NEW t \in Tag, NEW s \in CState, Access(t) \/ SetCState(t, s) \/ AddApprox(t) \/ DelApprox(t)
        PROVE  A
    BY <2>4 DEF Access, SetCState, AddApprox, DelApprox
  <2>5. QED
    BY <2>1, <2>2, <2>3, <2>4 DEF Next, CState
<1>2. QED
  BY <1>1, InvariantIInv, PTL DEF Spec, FillInPartition

(* A block that a fill pushes out of the set is the one insert reports.    *)
THEOREM EvictionsAreReported == Spec => EvictionsReported
<1> DEFINE A == \A t \in Tag : (\E s \in CState : Insert(t, s)) =>
                  \A u \in Tag : Cached(u) /\ ~Cached(u)' => evicted' = u
<1>1. IInv /\ [Next]_vars => [A]_vars
  <2>1. SUFFICES ASSUME IInv, NEW t \in Tag, NEW s \in CState, Insert(t, s),
                        NEW u \in Tag, Cached(u), ~Cached(u)'
                 PROVE  evicted' = u
    BY DEF vars
  <2> DEFINE i == getReplacementIndex(PartitionOf(t))
  <2>2. i \in Way
    BY <2>1, ReplacementInPartition, PartitionsInWay DEF IInv, PartitionOf
  <2> HIDE DEF i
  <2>3. /\ tag' = [tag EXCEPT ![i] = t]
        /\ evicted' = IF IsValid(i) THEN tag[i] ELSE NoTag
    BY <2>1 DEF Insert, i
  <2>4. \A w \in Way : tag'[w] = IF w = i THEN t ELSE tag[w]
    BY <2>1, <2>2, <2>3 DEF IInv, TypeOK
  <2>5. PICK w \in Way : tag[w] = u
    BY <2>1 DEF Cached
  <2>6. w = i
    BY <2>1, <2>4, <2>5 DEF Cached
  <2>7. QED
    BY <2>3, <2>5, <2>6, NoTagAssumption DEF IsValid
<1>2. QED
  BY <1>1, InvariantIInv, PTL DEF Spec, EvictionsReported
-----------------------------------------------------------------------------
(* Two ways are in one partition for PartitionedLru as they are here.      *)
LEMMA SamePartition ==
    /\ Lru!Way = Way
    /\ \A v, w \in Way : Lru!Together(v, w) <=> w \in Partition(v)
<1>1. Lru!Way = Way
  BY MarginAssumption DEF Lru!Way, Way, ExactWays, ApproxWays
<1>2. ASSUME NEW v \in Way, NEW w \in Way PROVE Lru!Together(v, w) <=> w \in Partition(v)
  BY MarginAssumption DEF Lru!Together, Way, Partition, ExactWays, ApproxWays
<1>3. QED
  BY <1>1, <1>2

(* The order of the ways read off their bits.                              *)
LEMMA InByAge ==
    ASSUME NEW v \in Way, NEW w \in Way
    PROVE  <<v, w>> \in ByAge <=> w \in Partition(v) /\ m_lru_bits[v] < m_lru_bits[w]
  BY DEF ByAge

(* updateReplacementIndex makes the accessed way the youngest and keeps    *)
(* the order of the others.                                                *)
LEMMA UpdateIsUse ==
    ASSUME IInv, NEW a \in Way, m_lru_bits' = updateReplacementIndex(m_lru_bits, a)
    PROVE  Lru!Use(a)
<1>1. \A w \in Way : m_lru_bits'[w] = IF w = a THEN 0
                                      ELSE IF w \in Partition(a) /\ m_lru_bits[w] < m_lru_bits[a]
                                           THEN m_lru_bits[w] + 1 ELSE m_lru_bits[w]
  BY DEF updateReplacementIndex
<1>2. \A w \in Way : m_lru_bits[w] \in 0..255 /\ w \in Int
  BY MarginAssumption DEF IInv, TypeOK, Way
<1>3. ASSUME NEW v \in Way, NEW w \in Way
      PROVE  w \in Partition(v) /\ m_lru_bits'[v] < m_lru_bits'[w]
             <=> w \in Partition(v) /\ w # a /\ (v = a \/ m_lru_bits[v] < m_lru_bits[w])
  <2>1. SUFFICES ASSUME w \in Partition(v)
                 PROVE  m_lru_bits'[v] < m_lru_bits'[w] <=> w # a /\ (v = a \/ m_lru_bits[v] < m_lru_bits[w])
    OBVIOUS
  <2>2. /\ v \in Partition(a) <=> w \in Partition(a)
        /\ a \in Partition(v) <=> v \in Partition(a)
        /\ a \in Partition(w) <=> w \in Partition(a)
        /\ a \in Partition(a) /\ v \in Partition(w)
    BY <1>2, <2>1, MarginAssumption DEF Partition, ExactWays, ApproxWays, Way
  <2>3. /\ v # w => m_lru_bits[v] # m_lru_bits[w]
        /\ a \in Partition(v) => (a # v => m_lru_bits[a] # m_lru_bits[v])
        /\ a \in Partition(w) => (a # w => m_lru_bits[a] # m_lru_bits[w])
    BY <2>2 DEF IInv, LruPermutation, AgesDistinct
  <2>4. m_lru_bits[w] \in Nat /\ m_lru_bits[v] \in Nat /\ m_lru_bits[a] \in Nat
    BY <1>2
  <2>5. CASE w \notin Partition(a)
    <3>1. w # a /\ v # a /\ m_lru_bits'[v] = m_lru_bits[v] /\ m_lru_bits'[w] = m_lru_bits[w]
      BY <1>1, <2>2, <2>5
    <3>2. QED
      BY <3>1
  <2>6. CASE w \in Partition(a)
    <3>1. /\ m_lru_bits'[w] = IF w = a THEN 0 ELSE IF m_lru_bits[w] < m_lru_bits[a]
                                                  THEN m_lru_bits[w] + 1 ELSE m_lru_bits[w]
          /\ m_lru_bits'[v] = IF v = a THEN 0 ELSE IF m_lru_bits[v] < m_lru_bits[a]
                                                  THEN m_lru_bits[v] + 1 ELSE m_lru_bits[v]
      BY <1>1, <2>2, <2>6
    <3>2. /\ a # v => m_lru_bits[a] # m_lru_bits[v]
          /\ a # w => m_lru_bits[a] # m_lru_bits[w]
      BY <2>2, <2>3, <2>6
    <3>3. CASE w = a
      BY <2>4, <3>1, <3>3
    <3>4. CASE w # a /\ v = a
      BY <2>4, <3>1, <3>2, <3>4
    <3>5. CASE w # a /\ v # a
      BY <2>3, <2>4, <3>1, <3>2, <3>5
    <3>6. QED
      BY <3>3, <3>4, <3>5
  <2>7. QED
    BY <2>5, <2>6
<1>4. ByAge' = {p \in Way \X Way : p[2] \in Partition(p[1]) /\ m_lru_bits'[p[1]] < m_lru_bits'[p[2]]}
  BY DEF ByAge
<1>5. ASSUME NEW p \in Way \X Way
      PROVE  p \in ByAge' <=> \/ p \in ByAge /\ p[2] # a
                              \/ p \in {a} \X Way /\ Lru!Together(a, p[2]) /\ p[2] # a
  <2>1. p[1] \in Way /\ p[2] \in Way /\ (p \in {a} \X Way <=> p[1] = a)
    OBVIOUS
  <2>2. p \in ByAge' <=> p[2] \in Partition(p[1]) /\ m_lru_bits'[p[1]] < m_lru_bits'[p[2]]
    BY <1>4
  <2>3. p \in ByAge <=> p[2] \in Partition(p[1]) /\ m_lru_bits[p[1]] < m_lru_bits[p[2]]
    BY DEF ByAge
  <2>4. Lru!Together(a, p[2]) <=> p[2] \in Partition(a)
    BY <2>1, SamePartition
  <2>5. p[2] \in Partition(p[1]) /\ m_lru_bits'[p[1]] < m_lru_bits'[p[2]]
          <=> p[2] \in Partition(p[1]) /\ p[2] # a /\ (p[1] = a \/ m_lru_bits[p[1]] < m_lru_bits[p[2]])
    BY <1>3, <2>1
  <2>6. QED
    BY <2>1, <2>2, <2>3, <2>4, <2>5
<1>6. ByAge' = {p \in ByAge : p[2] # a} \cup {p \in {a} \X Way : Lru!Together(a, p[2]) /\ p[2] # a}
  <2>1. ByAge' \in SUBSET (Way \X Way) /\ ByAge \in SUBSET (Way \X Way)
    BY <1>4 DEF ByAge
  <2>2. \A p \in {a} \X Way : p \in Way \X Way
    OBVIOUS
  <2>3. QED
    BY <1>5, <2>1, <2>2
<1>7. QED
  BY <1>6, SamePartition DEF Lru!Use

(* The way getReplacementIndex returns may be given away: it is free, or   *)
(* no unpinned way of the partition is older.                              *)
LEMMA VictimIsReplaceable ==
    ASSUME IInv, NEW P \in {ExactWays, ApproxWays}
    PROVE  Lru!Replaceable(getReplacementIndex(P), P)
<1> DEFINE Free == {w \in P : ~IsValid(w)}
           i == getReplacementIndex(P)
<1>1. P \in SUBSET Way /\ \A v, w \in P : v \in Partition(w)
  BY PartitionsInWay
<1>2. \A w \in P : m_lru_bits[w] \in Nat
  BY <1>1 DEF IInv, TypeOK
<1>3. \A v, w \in P : <<v, w>> \in ByAge <=> m_lru_bits[v] < m_lru_bits[w]
  BY <1>1, InByAge
<1>4. CASE Free # {}
  <2>1. i \in Free
    <3>1. FirstWay(Free) \in Free
      BY <1>1, <1>4, FirstWayIn
    <3>2. QED
      BY <1>4, <3>1 DEF getReplacementIndex
  <2>2. tag[i] = NoTag
    BY <2>1 DEF IsValid
  <2>3. QED
    BY <2>2 DEF Lru!Replaceable
<1>5. ASSUME Free = {} PROVE \A v \in P : tag[v] # NoTag
  BY <1>5 DEF IsValid
<1>6. \A v \in P : v \notin Candidates(P) /\ m_lru_bits[v] > 0 => v \in Pinned
  BY <1>1 DEF Candidates, isValidReplacement, Pinned
<1>7. CASE Free = {} /\ Candidates(P) = {}
  <2>1. ASSUME NEW v \in P, NEW u \in P, <<u, v>> \in ByAge PROVE v \in Pinned
    <3>1. m_lru_bits[u] < m_lru_bits[v]
      BY <1>3, <2>1
    <3>2. m_lru_bits[v] > 0
      BY <1>2, <3>1
    <3>3. QED
      BY <1>6, <1>7, <3>2
  <2>2. QED
    BY <1>5, <1>7, <2>1 DEF Lru!Replaceable
<1>8. CASE Free = {} /\ Candidates(P) # {}
  <2>1. i = OldestReplaceable(P)
    BY <1>8 DEF getReplacementIndex
  <2>2. i \in Candidates(P) /\ \A v \in Candidates(P) : m_lru_bits[v] <= m_lru_bits[i]
    BY <1>8, <2>1, VictimIsOldest DEF IInv
  <2> HIDE DEF i
  <2>3. i \in P /\ i \notin Pinned /\ m_lru_bits[i] > 0
    BY <2>2 DEF Candidates, isValidReplacement, Pinned
  <2>4. ASSUME NEW v \in P, <<i, v>> \in ByAge PROVE v \in Pinned
    <3>1. m_lru_bits[i] < m_lru_bits[v]
      BY <1>3, <2>3, <2>4
    <3>2. m_lru_bits[v] > 0 /\ v \notin Candidates(P)
      BY <1>2, <2>2, <2>3, <3>1
    <3>3. QED
      BY <1>6, <3>2
  <2>5. Lru!Replaceable(i, P)
    BY <1>5, <1>8, <2>3, <2>4 DEF Lru!Replaceable
  <2>6. QED
    BY <2>5 DEF i
<1>9. QED
  BY <1>4, <1>7, <1>8

(* A new set is a new PartitionedLru.                                      *)
LEMMA InitMaps == Init => Lru!Init
<1> SUFFICES ASSUME Init PROVE Lru!Init
  OBVIOUS
<1>1. IInv
  BY InitIInv
<1>2. Lru!Way = Way
  BY SamePartition
<1>3. \A w \in Way : m_lru_bits[w] \in Int
  BY <1>1 DEF IInv, TypeOK
<1>4. Lru!OrdersPartitions
  <2>1. \A v, w \in Way : <<v, w>> \in ByAge <=> w \in Partition(v) /\ m_lru_bits[v] < m_lru_bits[w]
    BY InByAge
  <2>2. \A v, w \in Way : w \in Partition(v) => v \in Partition(w) /\ Partition(v) = Partition(w)
    BY MarginAssumption DEF Way, Partition, ExactWays, ApproxWays
  <2>3. \A v, w \in Way : w \in Partition(v) /\ v # w => m_lru_bits[v] # m_lru_bits[w]
    BY <1>1 DEF IInv, LruPermutation, AgesDistinct
  <2>4. \A v, w \in Way : <<v, w>> \in ByAge => Lru!Together(v, w) /\ <<w, v>> \notin ByAge
    BY <1>3, <2>1, SamePartition
  <2>5. \A v, w \in Way : Lru!Together(v, w) /\ v # w => <<v, w>> \in ByAge \/ <<w, v>> \in ByAge
    BY <1>3, <2>1, <2>2, <2>3, SamePartition
  <2>6. \A u, v, w \in Way : <<u, v>> \in ByAge /\ <<v, w>> \in ByAge => <<u, w>> \in ByAge
    BY <1>3, <2>1, <2>2
  <2>7. QED
    BY <1>2, <2>4, <2>5, <2>6 DEF Lru!OrdersPartitions
<1>5. ByAge \in SUBSET (Way \X Way)
  BY DEF ByAge
<1>6. Pinned = {}
  BY DEF Pinned, Init
<1>7. tag = [w \in Way |-> NoTag] /\ approx = {}
  BY DEF Init
<1>8. QED
  BY <1>2, <1>4, <1>5, <1>6, <1>7 DEF Lru!Init

(* Writing one way's state pins or unpins that way only.                   *)
LEMMA PinnedAfter ==
    ASSUME TypeOK, NEW w \in Way, NEW s \in CState, cstate' = [cstate EXCEPT ![w] = s]
    PROVE  Pinned' = IF s = "SHARED_UPGRADING" THEN Pinned \cup {w} ELSE Pinned \ {w}
<1>1. \A v \in Way : cstate'[v] = IF v = w THEN s ELSE cstate[v]
  BY DEF TypeOK
<1>2. Pinned' = {v \in Way : cstate'[v] = "SHARED_UPGRADING"}
  BY DEF Pinned
<1>3. QED
  BY <1>1, <1>2 DEF Pinned

(* Every step of the set is a step of PartitionedLru or leaves it alone.   *)
LEMMA StepMaps == IInv /\ [Next]_vars => [Lru!Next]_Lru!vars
<1>1. SUFFICES ASSUME IInv, [Next]_vars PROVE [Lru!Next]_Lru!vars
  OBVIOUS
<1>2. Lru!Way = Way
  BY SamePartition
<1>3. CASE UNCHANGED vars
  BY <1>3 DEF vars, Lru!vars, Pinned, ByAge
<1>4. ASSUME NEW t \in Tag, Access(t) PROVE Lru!Next
  <2>1. find(t) \in Way /\ tag[find(t)] = t
    BY <1>1, <1>4, FindWay DEF IInv, Access
  <2>2. Lru!Use(find(t))
    BY <1>1, <1>4, <2>1, UpdateIsUse DEF Access
  <2>3. tag' = tag /\ Pinned' = Pinned /\ approx' = approx
    BY <1>4 DEF Access, Pinned
  <2>4. Lru!Touch(find(t))
    BY <2>1, <2>2, <2>3, NoTagAssumption DEF Lru!Touch
  <2>5. QED
    BY <1>2, <2>1, <2>4 DEF Lru!Next
<1>5. ASSUME NEW t \in Tag, NEW s \in {"SHARED", "MODIFIED"}, Insert(t, s) PROVE Lru!Next
  <2> DEFINE P == PartitionOf(t)
             i == getReplacementIndex(P)
  <2>1. P \in {ExactWays, ApproxWays} /\ P = Lru!PartitionOf(t)
    BY DEF PartitionOf, Lru!PartitionOf
  <2> HIDE DEF P
  <2>2. i \in P /\ i \in Way /\ Lru!Replaceable(i, P)
    BY <1>1, <2>1, ReplacementInPartition, VictimIsReplaceable, PartitionsInWay DEF IInv
  <2> HIDE DEF i
  <2>3. /\ tag' = [tag EXCEPT ![i] = t]
        /\ cstate' = [cstate EXCEPT ![i] = s]
        /\ m_lru_bits' = updateReplacementIndex(m_lru_bits, i)
        /\ approx' = approx
        /\ ~Cached(t)
    BY <1>5 DEF Insert, i, P
  <2>4. Lru!Use(i)
    BY <1>1, <2>2, <2>3, UpdateIsUse
  <2>5. Pinned' = Pinned \ {i}
    <3>1. s \in CState /\ s # "SHARED_UPGRADING" /\ TypeOK
      BY <1>1 DEF CState, IInv
    <3>2. QED
      BY <2>2, <2>3, <3>1, PinnedAfter
  <2>6. \A v \in Way : tag[v] # t
    BY <2>3 DEF Cached
  <2>7. Lru!Fill(t, i)
    BY <1>2, <2>1, <2>2, <2>3, <2>4, <2>5, <2>6 DEF Lru!Fill
  <2>8. QED
    BY <1>2, <2>2, <2>7 DEF Lru!Next
<1>6. ASSUME NEW t \in Tag, Invalidate(t) PROVE Lru!Next
  <2>1. find(t) \in Way /\ tag[find(t)] = t
    BY <1>1, <1>6, FindWay DEF IInv, Invalidate
  <2>2. Pinned' = Pinned \ {find(t)}
    <3>1. "INVALID" \in CState /\ TypeOK /\ cstate' = [cstate EXCEPT ![find(t)] = "INVALID"]
      BY <1>1, <1>6 DEF CState, IInv, Invalidate
    <3>2. QED
      BY <2>1, <3>1, PinnedAfter
  <2>3. tag' = [tag EXCEPT ![find(t)] = NoTag] /\ ByAge' = ByAge /\ approx' = approx
    BY <1>6 DEF Invalidate, ByAge
  <2>4. Lru!Drop(find(t))
    BY <2>1, <2>2, <2>3, NoTagAssumption DEF Lru!Drop
  <2>5. QED
    BY <1>2, <2>1, <2>4 DEF Lru!Next
<1>7. ASSUME NEW t \in Tag, NEW s \in CState, SetCState(t, s) PROVE Lru!Next
  <2>1. find(t) \in Way /\ tag[find(t)] = t
    BY <1>1, <1>7, FindWay DEF IInv, SetCState
  <2>2. Pinned' \in {Pinned \cup {find(t)}, Pinned \ {find(t)}}
    <3>1. TypeOK /\ cstate' = [cstate EXCEPT ![find(t)] = s]
      BY <1>1, <1>7 DEF IInv, SetCState
    <3>2. QED
      BY <2>1, <3>1, PinnedAfter
  <2>3. tag' = tag /\ ByAge' = ByAge /\ approx' = approx
    BY <1>7 DEF SetCState, ByAge
  <2>4. Lru!Pin(find(t))
    BY <2>1, <2>2, <2>3, NoTagAssumption DEF Lru!Pin
  <2>5. QED
    BY <1>2, <2>1, <2>4 DEF Lru!Next
<1>8. ASSUME NEW t \in Tag, AddApprox(t) \/ DelApprox(t) PROVE Lru!Next
  <2>1. /\ approx' \in {approx \cup {t}, approx \ {t}}
        /\ tag' = tag /\ Pinned' = Pinned /\ ByAge' = ByAge
    BY <1>8 DEF AddApprox, DelApprox, Pinned, ByAge
  <2>2. Lru!Reclassify(t)
    BY <2>1 DEF Lru!Reclassify
  <2>3. QED
    BY <2>2 DEF Lru!Next
<1>9. QED
  BY <1>1, <1>3, <1>4, <1>5, <1>6, <1>7, <1>8 DEF Next

(* The age bits implement least-recently-used order in each partition, for *)
(* every associativity: a hit makes a way the youngest and keeps the order *)
(* of the others, and the victim of a fill is a free way or the oldest one *)
(* that no upgrade pins.                                                   *)
THEOREM RefinesPartitionedLru == Spec => ImplementsLru
<1>1. QED
  BY InvariantIInv, InitMaps, StepMaps, PTL DEF Spec, ImplementsLru, Lru!Spec
=============================================================================
