---------------------------- MODULE CacheSetLRU2 ----------------------------
(***************************************************************************)
(* One cache set under the LRU2 replacement policy: CacheSet (find,        *)
(* invalidate, insert, read_line/write_line) with CacheSetLRU2's           *)
(* getReplacementIndex and updateReplacementIndex.  The ways below         *)
(* approx_margin are reserved for exact blocks and the others for          *)
(* approximate ones; each partition keeps its own LRU order.  The class of *)
(* a block is what MagicServer::is_block_approx answers when the block is  *)
(* filled, and it can change while the block is cached.                    *)
(*                                                                         *)
(* The set is driven as CacheCntlr drives it: under the stack lock, so one *)
(* operation at a time, and inserting only a block it does not hold.       *)
(* Data bytes are left out: no operation of the set looks at them.         *)
(***************************************************************************)
EXTENDS Integers, FiniteSets

CONSTANTS
    m_associativity,  \* number of ways
    approx_margin,    \* number of ways reserved for exact blocks
    Tag,              \* blocks that map to this set
    NoTag             \* the tag of an invalid way (~0 in CacheBlockInfo)

(* approx_margin is the UInt32 that log2(m_associativity) truncates to. A  *)
(* direct-mapped set has margin 0, hence no way for exact blocks, and dies *)
(* in the assertion of getReplacementIndex on the first exact fill.        *)
ASSUME MarginAssumption ==
    /\ m_associativity \in 2..256          \* m_lru_bits are UInt8
    /\ approx_margin \in 1..(m_associativity - 1)
ASSUME MarginIsLog2 ==
    2^approx_margin <= m_associativity /\ m_associativity < 2^(approx_margin + 1)
ASSUME NoTagAssumption == NoTag \notin Tag

VARIABLES
    tag,          \* m_cache_block_info_array[way]->getTag()
    cstate,       \* m_cache_block_info_array[way]->getCState()
    m_lru_bits,   \* age of the way within its partition, 0 = youngest
    approx,       \* blocks with a registered approximate byte (MagicServer)
    evicted       \* evict_block_info's tag after the last insert, NoTag if no eviction

vars == <<tag, cstate, m_lru_bits, approx, evicted>>

Way == 0..(m_associativity - 1)

ExactWays  == 0..(approx_margin - 1)
ApproxWays == approx_margin..(m_associativity - 1)

(* The states the replacement policy tells apart: EXCLUSIVE lines behave   *)
(* like SHARED and MODIFIED ones here.                                     *)
CState == {"INVALID", "SHARED", "SHARED_UPGRADING", "MODIFIED"}

IsValid(w) == tag[w] # NoTag

Partition(w) == IF w < approx_margin THEN ExactWays ELSE ApproxWays

PartitionSize(w) == IF w < approx_margin THEN approx_margin
                                         ELSE m_associativity - approx_margin

FirstWay(P) == CHOOSE w \in P : \A v \in P : w <= v

(* The partition insert selects through m_approx_flag.                     *)
PartitionOf(t) == IF t \in approx THEN ApproxWays ELSE ExactWays

Cached(t) == \E w \in Way : tag[w] = t

(* find: the highest way whose tag matches.                                *)
find(t) == CHOOSE w \in Way : tag[w] = t /\ \A v \in Way : tag[v] = t => v <= w
-----------------------------------------------------------------------------
isValidReplacement(w) == cstate[w] # "SHARED_UPGRADING"

(* Mutant: the victim search ignores pinned lines.                         *)
OldestReplaceable_AnyState(P) ==
    CHOOSE w \in P : \A v \in P : m_lru_bits[v] <= m_lru_bits[w]

(* The oldest replaceable way of P.  The search starts from max_bits = 0,  *)
(* so a way with age 0 is never a candidate, and falls back on the first   *)
(* way of P when there is none, replaceable or not.                        *)
OldestReplaceable(P) ==
    LET Candidates == {w \in P : m_lru_bits[w] > 0 /\ isValidReplacement(w)}
    IN  IF Candidates = {} THEN FirstWay(P)
        ELSE CHOOSE w \in Candidates :
                \A v \in Candidates : \/ m_lru_bits[v] < m_lru_bits[w]
                                      \/ m_lru_bits[v] = m_lru_bits[w] /\ w <= v

(* Mutant: the search for a free way covers the whole set.                 *)
getReplacementIndex_AnyFree(P) ==
    LET Free == {w \in Way : ~IsValid(w)}
    IN  IF Free # {} THEN FirstWay(Free) ELSE OldestReplaceable(P)

getReplacementIndex(P) ==
    LET Free == {w \in P : ~IsValid(w)}
    IN  IF Free # {} THEN FirstWay(Free) ELSE OldestReplaceable(P)

(* Mutant: an access ages the ways of both partitions.                     *)
updateReplacementIndex_WholeSet(bits, accessed) ==
    [w \in Way |->
        IF w = accessed THEN 0
        ELSE IF bits[w] < bits[accessed] THEN bits[w] + 1 ELSE bits[w]]

updateReplacementIndex(bits, accessed) ==
    [w \in Way |->
        IF w = accessed THEN 0
        ELSE IF w \in Partition(accessed) /\ bits[w] < bits[accessed]
             THEN bits[w] + 1
             ELSE bits[w]]

Init ==
    /\ tag = [w \in Way |-> NoTag]
    /\ cstate = [w \in Way |-> "INVALID"]
    /\ m_lru_bits = [w \in Way |-> IF w < approx_margin THEN w ELSE w - approx_margin]
    /\ approx = {}
    /\ evicted = NoTag

(* A demand hit: read_line or write_line with update_replacement.          *)
Access(t) ==
    /\ Cached(t)
    /\ m_lru_bits' = updateReplacementIndex(m_lru_bits, find(t))
    /\ UNCHANGED <<tag, cstate, approx, evicted>>

(* Mutant: only the partition of the block's class is searched for it.     *)
Insert_ClassLookup(t, s) ==
    /\ \A w \in PartitionOf(t) : tag[w] # t
    /\ LET w == getReplacementIndex(PartitionOf(t))
       IN  /\ evicted' = IF IsValid(w) THEN tag[w] ELSE NoTag
           /\ tag' = [tag EXCEPT ![w] = t]
           /\ cstate' = [cstate EXCEPT ![w] = s]
           /\ m_lru_bits' = updateReplacementIndex(m_lru_bits, w)
    /\ UNCHANGED approx

(* Mutant: only dirty victims are reported.                                *)
Insert_DirtyOnly(t, s) ==
    /\ ~Cached(t)
    /\ LET w == getReplacementIndex(PartitionOf(t))
       IN  /\ evicted' = IF cstate[w] = "MODIFIED" THEN tag[w] ELSE NoTag
           /\ tag' = [tag EXCEPT ![w] = t]
           /\ cstate' = [cstate EXCEPT ![w] = s]
           /\ m_lru_bits' = updateReplacementIndex(m_lru_bits, w)
    /\ UNCHANGED approx

(* insertCacheBlock's use of the set: insertSingleLine, then setCacheState.*)
Insert(t, s) ==
    /\ ~Cached(t)
    /\ LET w == getReplacementIndex(PartitionOf(t))
       IN  /\ evicted' = IF IsValid(w) THEN tag[w] ELSE NoTag
           /\ tag' = [tag EXCEPT ![w] = t]
           /\ cstate' = [cstate EXCEPT ![w] = s]
           /\ m_lru_bits' = updateReplacementIndex(m_lru_bits, w)
    /\ UNCHANGED approx

Invalidate(t) ==
    /\ Cached(t)
    /\ tag' = [tag EXCEPT ![find(t)] = NoTag]
    /\ cstate' = [cstate EXCEPT ![find(t)] = "INVALID"]
    /\ UNCHANGED <<m_lru_bits, approx, evicted>>

(* setCState on a cached line: a write hit or an upgrade that was granted, *)
(* a downgrade, or the start of an upgrade.                                *)
SetCState(t, s) ==
    /\ Cached(t)
    /\ <<cstate[find(t)], s>> \in {<<"SHARED", "MODIFIED">>, <<"MODIFIED", "SHARED">>,
                                   <<"SHARED", "SHARED_UPGRADING">>,
                                   <<"SHARED_UPGRADING", "MODIFIED">>}
    /\ cstate' = [cstate EXCEPT ![find(t)] = s]
    /\ UNCHANGED <<tag, m_lru_bits, approx, evicted>>

(* The application registers or removes approximate bytes of a block with  *)
(* a magic instruction; no lock orders this with the cache's operations.   *)
AddApprox(t) ==
    /\ t \notin approx
    /\ approx' = approx \cup {t}
    /\ UNCHANGED <<tag, cstate, m_lru_bits, evicted>>

DelApprox(t) ==
    /\ t \in approx
    /\ approx' = approx \ {t}
    /\ UNCHANGED <<tag, cstate, m_lru_bits, evicted>>

Next ==
    \E t \in Tag :
        \/ Access(t)
        \/ \E s \in {"SHARED", "MODIFIED"} : Insert(t, s)
        \/ Invalidate(t)
        \/ \E s \in CState : SetCState(t, s)
        \/ AddApprox(t)
        \/ DelApprox(t)

Spec == Init /\ [][Next]_vars
-----------------------------------------------------------------------------
(* Every variable has its type.                                            *)
TypeOK ==
    /\ tag \in [Way -> Tag \cup {NoTag}]
    /\ cstate \in [Way -> CState]
    /\ m_lru_bits \in [Way -> 0..255]
    /\ approx \subseteq Tag
    /\ evicted \in Tag \cup {NoTag}

AgesDistinct(bits) ==
    \A w \in Way :
        /\ bits[w] < PartitionSize(w)
        /\ \A v \in Partition(w) : v # w => bits[v] # bits[w]

(* The age bits of each partition are a permutation of 0..size-1, through  *)
(* any mix of hits, fills, invalidations and class changes: two ways of    *)
(* the same age, or an age past the last, would make getReplacementIndex   *)
(* forget a way for ever.                                                  *)
LruPermutation == AgesDistinct(m_lru_bits)

(* No block is in two ways, although find and invalidate act on the first  *)
(* match only and a block whose class changes is filled elsewhere.         *)
TagsUnique ==
    \A v, w \in Way : v # w /\ IsValid(v) => tag[v] # tag[w]

(* A fill that makes a block disappear reports it to insertCacheBlock, who *)
(* is the only one to write it back and to tell the directory.             *)
EvictionsReported ==
    [][\A t \in Tag : (\E s \in CState : Insert(t, s)) =>
          \A u \in Tag : Cached(u) /\ ~Cached(u)' => evicted' = u]_vars

(* A block is filled into the ways of its class and nowhere else: exact    *)
(* fills never push an approximate block out of the approximate ways, nor  *)
(* the reverse ("0 to approx_margin-1 cache ways are exact and others      *)
(* approximate").                                                          *)
FillInPartition ==
    [][\A w \in Way : tag'[w] \notin {tag[w], NoTag} => w \in PartitionOf(tag'[w])]_vars

Pinned == {w \in Way : cstate[w] = "SHARED_UPGRADING"}

(* Pairs of ways of one partition, the younger one first.                  *)
ByAge == {p \in Way \X Way : p[2] \in Partition(p[1]) /\ m_lru_bits[p[1]] < m_lru_bits[p[2]]}

Lru == INSTANCE PartitionedLru WITH
           content <- tag, pinned <- Pinned, order <- ByAge, class <- approx

(* The age bits implement least-recently-used order: the set behaves as    *)
(* PartitionedLru with the ways of each partition ordered by their bits.   *)
ImplementsLru == Lru!Spec
=============================================================================
