--------------------------- MODULE LifetimeProofs ---------------------------
(***************************************************************************)
(* The life times of approximate bytes are right, for every table, block and *)
(* page size and any order of access times.                                *)
(*                                                                         *)
(* The walk of update_liftime (LifetimeWalk): the heart of the loop        *)
(* invariant is a race between the loop counter and the iterator.  Once    *)
(* found, the iterator is never behind offset i - 1, so that it has left the *)
(* block when the loop ends.                                               *)
(*                                                                         *)
(* The DRAM controller (DramCntlr): what makes LifetimeExact inductive is  *)
(* that poten_maxlifetime is the larger of two histories, the interval since *)
(* the last write and the best one that was read.  A write forgets the first *)
(* by going back to maxlifetime, and loses nothing of the second.          *)
(***************************************************************************)
EXTENDS LifetimeWalk, DramCntlr, WellFoundedInduction, FiniteSetTheorems, TLAPS

(* The invariant of the loop: what has been settled when the iterator is   *)
(* at a byte, off the table after a visit, or not found yet.               *)
WalkInv ==
    /\ ~realend => settled = {}
    /\ it = End /\ realend => settled = BytesOf(address) \cap approx_vars
    /\ it = End /\ ~realend =>
         \A b \in BytesOf(address) \cap approx_vars : address + i <= b
    /\ it # End =>
         /\ it \in approx_vars
         /\ address + i <= it + 1
         /\ settled = {b \in BytesOf(address) \cap approx_vars : b < it}

(* The inductive invariant of LifetimeWalk.                                *)
WalkIInv ==
    /\ WalkTypeOK
    /\ WindowCovers
    /\ pc = "start" => settled = {} /\ i = 0 /\ ~realend
    /\ pc = "loop" => WalkInv
    /\ BlockSettled

(* Every nonempty set of naturals has a least element.                     *)
LEMMA LeastNat ==
    ASSUME NEW T \in SUBSET Nat, T # {}
    PROVE  \E m \in T : \A k \in T : m <= k
<1> DEFINE R == OpToRel(<, Nat)
<1>1. IsWellFoundedOn(R, Nat)
  BY NatLessThanWellFounded
<1>2. \A k, m \in T : k < m => <<k, m>> \in R
  BY DEF OpToRel
<1> HIDE DEF R
<1>3. \E m \in T : \A k \in T : ~(<<k, m>> \in R)
  BY <1>1, WFMin
<1>4. PICK m \in T : \A k \in T : ~(<<k, m>> \in R)
  BY <1>3
<1>5. \A k \in T : ~(k < m)
  BY <1>2, <1>4
<1>6. QED
  BY <1>5

(* The increment of the iterator: the least registered byte beyond b, or   *)
(* the end of the table.                                                   *)
LEMMA AfterIsNext ==
    ASSUME approx_vars \subseteq Byte, NEW b \in Byte
    PROVE  \/ After(b) = End /\ \A v \in approx_vars : v <= b
           \/ /\ After(b) \in approx_vars /\ After(b) > b
              /\ \A v \in approx_vars : v > b => After(b) <= v
<1> DEFINE later == {v \in approx_vars : v > b}
<1>0. Byte \subseteq Nat
  BY AddrAssumption DEF Byte
<1>1. later \in SUBSET Nat
  BY <1>0
<1>2. CASE later = {}
  <2>1. \A v \in approx_vars : v <= b
    BY <1>2, AddrAssumption DEF Byte
  <2>2. After(b) = End
    BY <1>2 DEF After
  <2>3. QED
    BY <2>1, <2>2
<1>3. CASE later # {}
  <2>1. \E v \in later : \A w \in later : v <= w
    <3> HIDE DEF later
    <3> QED BY <1>1, <1>3, LeastNat
  <2>2. After(b) \in later /\ \A w \in later : After(b) <= w
    BY <1>3, <2>1 DEF After
  <2>3. QED
    BY <2>2
<1>4. QED
  BY <1>2, <1>3

(* Every registered byte is a number below End, so the end of the table is *)
(* never mistaken for a byte.                                              *)
LEMMA EndAbove == ASSUME approx_vars \subseteq Byte
                  PROVE  \A b \in approx_vars : b \in Nat /\ b < End
BY AddrAssumption DEF Byte, End, Above

(* A block that the window rejects has no approximate byte.                *)
LEMMA RejectedHasNone ==
    ASSUME WalkTypeOK, WindowCovers, OutsideWindow(address)
    PROVE  BytesOf(address) \cap approx_vars = {}
BY AddrAssumption
   DEF WalkTypeOK, TableTypeOK, WindowCovers, OutsideWindow, BytesOf, Byte, Above, BlockAddress

(* The initial states of the loop satisfy the invariant.                   *)
LEMMA InitWalkIInv == InitWalk => WalkIInv
<1> SUFFICES ASSUME InitWalk PROVE WalkIInv
  OBVIOUS
<1>1. i \in 0..(BlockSize + 1) /\ it \in 0..End
  BY AddrAssumption DEF InitWalk, End, Above
<1>2. WalkTypeOK
  BY <1>1 DEF InitWalk, WalkTypeOK, TableTypeOK
<1>3. QED
  BY <1>2 DEF InitWalk, WalkIInv, BlockSettled

(* Every pass through the loop keeps the invariant.                        *)
LEMMA NextWalkIInv == WalkIInv /\ [NextWalk]_walkVars => WalkIInv'
<1> SUFFICES ASSUME WalkIInv, [NextWalk]_walkVars PROVE WalkIInv'
  OBVIOUS
<1> USE AddrAssumption
<1>0. /\ WalkTypeOK /\ WindowCovers /\ BlockSettled
      /\ address \in Nat /\ i \in Nat /\ it \in Nat /\ End \in Nat
      /\ approx_vars \subseteq Byte
      /\ pc = "loop" => WalkInv
  BY DEF WalkIInv, WalkTypeOK, TableTypeOK, BlockAddress, Byte, End, Above
<1>e. \A b \in approx_vars : b \in Nat /\ b < End
  BY <1>0, EndAbove
<1>1. CASE Enter
  <2>1. WalkTypeOK' /\ WindowCovers'
    BY <1>0, <1>1, <1>e DEF Enter, WalkTypeOK, TableTypeOK, tableVars, WindowCovers, find, End, Above
  <2>2. BlockSettled'
    <3>1. CASE OutsideWindow(address)
      BY <1>0, <1>1, <3>1, RejectedHasNone DEF Enter, BlockSettled, tableVars, BytesOf, WalkIInv
    <3>2. CASE ~OutsideWindow(address)
      BY <1>1, <3>2 DEF Enter, BlockSettled
    <3>3. QED
      BY <3>1, <3>2
  <2>3. pc' = "loop" => WalkInv'
    <3> SUFFICES ASSUME pc' = "loop" PROVE WalkInv'
      OBVIOUS
    <3>1. /\ it' = find(address) /\ settled = {} /\ i = 0 /\ ~realend
          /\ UNCHANGED <<approx_vars, address, i, realend, settled>>
      BY <1>1 DEF Enter, WalkIInv, tableVars
    <3>2. CASE address \in approx_vars
      BY <1>0, <1>e, <3>1, <3>2 DEF WalkInv, find, BytesOf
    <3>3. CASE address \notin approx_vars
      BY <1>0, <1>e, <3>1, <3>3 DEF WalkInv, find, BytesOf
    <3>4. QED
      BY <3>2, <3>3
  <2>4. QED
    BY <1>1, <2>1, <2>2, <2>3 DEF WalkIInv, Enter
<1>2. CASE LookAgain
  <2>1. WalkTypeOK' /\ WindowCovers'
    BY <1>0, <1>2, <1>e DEF LookAgain, WalkTypeOK, TableTypeOK, tableVars, WindowCovers, find, End, Above
  <2>2. WalkInv'
    <3>1. /\ WalkInv /\ it = End /\ ~realend
          /\ it' = find(address + i) /\ i' = i + 1
          /\ UNCHANGED <<approx_vars, address, realend, settled>>
      BY <1>0, <1>2 DEF LookAgain, tableVars
    <3>2. CASE address + i \in approx_vars
      BY <1>0, <1>e, <3>1, <3>2 DEF WalkInv, find, BytesOf
    <3>3. CASE address + i \notin approx_vars
      BY <1>0, <1>e, <3>1, <3>3 DEF WalkInv, find, BytesOf
    <3>4. QED
      BY <3>2, <3>3
  <2>3. QED
    BY <1>2, <2>1, <2>2 DEF WalkIInv, LookAgain, BlockSettled
<1>3. CASE Visit
  <2>1. /\ WalkInv /\ it # End /\ it \in approx_vars /\ it \in Byte
        /\ it' = After(it) /\ i' = i + 1 /\ i <= BlockSize
        /\ UNCHANGED <<tableVars, approx_vars, address, pc>>
    BY <1>0, <1>3 DEF Visit, tableVars, WalkInv
  <2>2. \/ it' = End /\ \A v \in approx_vars : v <= it
        \/ /\ it' \in approx_vars /\ it' > it /\ it' # End
           /\ \A v \in approx_vars : v > it => it' <= v
    BY <1>0, <1>e, <2>1, AfterIsNext
  <2>3. settled' = {b \in BytesOf(address) \cap approx_vars : b <= it}
    <3>1. settled = {b \in BytesOf(address) \cap approx_vars : b < it}
      BY <2>1 DEF WalkInv
    <3>0. \A b \in approx_vars : b <= it <=> b < it \/ b = it
      BY <1>0, <1>e
    <3>2. CASE it \in BytesOf(address)
      <4>1. settled' = settled \cup {it}
        BY <1>3, <3>2 DEF Visit
      <4>2. QED
        BY <2>1, <3>0, <3>1, <3>2, <4>1
    <3>3. CASE it \notin BytesOf(address)
      <4>1. settled' = settled
        BY <1>3, <3>3 DEF Visit
      <4>2. QED
        BY <3>0, <3>1, <3>3, <4>1
    <3>4. QED
      BY <3>2, <3>3
  <2>4. ~realend' => settled' = {}
    BY <1>3, <2>1 DEF Visit, WalkInv
  <2>5. ASSUME it' = End, \A v \in approx_vars : v <= it
        PROVE  WalkInv'
    <3>1. settled' = BytesOf(address) \cap approx_vars
      BY <2>3, <2>5
    <3>2. ~realend' => BytesOf(address) \cap approx_vars = {}
      BY <2>4, <3>1
    <3>3. UNCHANGED <<address, approx_vars, BytesOf(address)>>
      BY <2>1 DEF BytesOf
    <3>4. QED
      BY <2>4, <2>5, <3>1, <3>2, <3>3 DEF WalkInv
  <2>6. ASSUME it' \in approx_vars, it' > it, it' # End,
               \A v \in approx_vars : v > it => it' <= v
        PROVE  WalkInv'
    <3>0. \A b \in approx_vars : b <= it <=> b < it'
      BY <1>0, <1>e, <2>6
    <3>1. settled' = {b \in BytesOf(address) \cap approx_vars : b < it'}
      BY <2>3, <3>0
    <3>2. address' + i' <= it' + 1
      BY <1>0, <1>e, <2>1, <2>6 DEF WalkInv
    <3>3. UNCHANGED <<address, approx_vars, BytesOf(address)>>
      BY <2>1 DEF BytesOf
    <3>4. QED
      BY <2>4, <2>6, <3>1, <3>2, <3>3 DEF WalkInv
  <2>7. WalkInv'
    BY <2>2, <2>5, <2>6
  <2>8. WalkTypeOK'
    <3>1. it' \in 0..End
      BY <1>0, <1>e, <2>2
    <3>2. realend' \in BOOLEAN /\ settled' \subseteq Byte
      BY <1>0, <1>3, <2>3 DEF Visit, WalkTypeOK
    <3>3. QED
      BY <1>0, <2>1, <3>1, <3>2 DEF WalkTypeOK, TableTypeOK, tableVars
  <2>9. QED
    BY <1>0, <1>3, <2>1, <2>7, <2>8 DEF WalkIInv, Visit, WindowCovers, tableVars, BlockSettled
<1>4. CASE Return
  <2>1. WalkTypeOK' /\ WindowCovers'
    BY <1>0, <1>4 DEF Return, WalkTypeOK, TableTypeOK, tableVars, WindowCovers
  <2>2. settled = BytesOf(address) \cap approx_vars
    <3>1. WalkInv
      BY <1>0, <1>4 DEF Return
    <3>2. CASE it = End /\ realend
      BY <3>1, <3>2 DEF WalkInv
    <3>3. CASE it = End /\ ~realend
      BY <1>0, <1>4, <1>e, <3>1, <3>3 DEF WalkInv, Return, BytesOf
    <3>4. CASE it # End
      BY <1>0, <1>4, <1>e, <3>1, <3>4 DEF WalkInv, Return, BytesOf
    <3>5. QED
      BY <3>2, <3>3, <3>4
  <2>3. QED
    BY <1>4, <2>1, <2>2 DEF WalkIInv, Return, BlockSettled, tableVars, BytesOf
<1>5. CASE UNCHANGED walkVars
  BY <1>5 DEF walkVars, tableVars, WalkIInv, WalkTypeOK, TableTypeOK, WindowCovers, WalkInv, BlockSettled, BytesOf
<1>6. QED
  BY <1>1, <1>2, <1>3, <1>4, <1>5 DEF NextWalk

(* For every table, window and block size: update_liftime returns having   *)
(* updated exactly the approximate bytes of the block it was given.        *)
THEOREM WalkSettlesBlock == WalkSpec => []BlockSettled
<1>1. WalkIInv => BlockSettled
  BY DEF WalkIInv
<1>2. QED
  BY InitWalkIInv, NextWalkIInv, <1>1, PTL DEF WalkSpec

(* The one step in which DramCntlr has update_liftime settle the bytes of  *)
(* an accessed block is what the loop of update_liftime comes to.          *)
THEOREM WalkIsSettlement == WalkSpec => [](pc = "done" => settled = Settled(address))
<1>1. WalkIInv => (pc = "done" => settled = Settled(address))
  <2> SUFFICES ASSUME WalkIInv, pc = "done" PROVE settled = Settled(address)
    OBVIOUS
  <2>1. settled = BytesOf(address) \cap approx_vars
    BY DEF WalkIInv, BlockSettled
  <2>2. OutsideWindow(address) => BytesOf(address) \cap approx_vars = {}
    BY RejectedHasNone DEF WalkIInv
  <2>3. QED
    BY <2>1, <2>2 DEF Settled
<1>2. QED
  BY InitWalkIInv, NextWalkIInv, <1>1, PTL DEF WalkSpec

-----------------------------------------------------------------------------
(***************************************************************************)
(* The DRAM controller.                                                    *)
(***************************************************************************)

(* What poten_maxlifetime stands for.                                      *)
PotentialExact ==
    \A b \in approx_vars : poten_maxlifetime[b] = Larger(exposed[b], lived[b])

(* A byte that is not registered has no record, so it starts from zero     *)
(* when it is registered again.                                            *)
UnregisteredZero ==
    \A b \in Byte \ approx_vars :
        /\ poten_maxlifetime[b] = 0 /\ maxlifetime[b] = 0
        /\ exposed[b] = 0 /\ lived[b] = 0

(* The inductive invariant of DramCntlr's life times.                      *)
IInv == TypeOK /\ WindowCovers /\ LifetimeExact /\ PotentialExact /\ UnregisteredZero

(* Larger is the maximum of two times.                                     *)
LEMMA LargerTime ==
    ASSUME NEW x \in Time, NEW y \in Time
    PROVE  /\ Larger(x, y) \in Time
           /\ Larger(x, y) >= x /\ Larger(x, y) >= y
           /\ Larger(x, y) = x \/ Larger(x, y) = y
BY PageAssumption DEF Larger, Time

(* Intervals between times are times, whichever comes first.               *)
LEMMA InterTime ==
    ASSUME TypeOK, NEW p \in Page, NEW now \in Time
    PROVE  Inter(now, p) \in Time
<1>1. lastacc[p] \in Time
  BY DEF TypeOK
<1>2. CASE now >= lastacc[p]
  BY <1>1, <1>2, PageAssumption DEF Inter, Time
<1>3. CASE ~(now >= lastacc[p])
  BY <1>1, <1>3, PageAssumption DEF Inter, Time
<1>4. QED
  BY <1>2, <1>3

(* The window never rejects a block with an approximate byte.              *)
LEMMA SettledIsBlock ==
    ASSUME TypeOK, WindowCovers, NEW a \in BlockAddress
    PROVE  Settled(a) = BytesOf(a) \cap approx_vars
<1>1. CASE OutsideWindow(a)
  <2>1. BytesOf(a) \cap approx_vars = {}
    BY <1>1, AddrAssumption
       DEF TypeOK, TableTypeOK, WindowCovers, OutsideWindow, BytesOf, Byte, Above, BlockAddress
  <2>2. QED
    BY <1>1, <2>1 DEF Settled
<1>2. CASE ~OutsideWindow(a)
  BY <1>2 DEF Settled
<1>3. QED
  BY <1>1, <1>2

(* A block lies in one page only when blocks divide pages, which nothing   *)
(* here needs; its first byte does lie in a page.                          *)
LEMMA AddressPage ==
    ASSUME NEW a \in BlockAddress
    PROVE  a \in Byte /\ PageOf(a) \in Page
BY DEF BlockAddress, Page

(* Three times: the maximum of the maximum of two with a third.            *)
LEMMA LargerOfThree ==
    ASSUME NEW x \in Time, NEW y \in Time, NEW z \in Time
    PROVE  Larger(Larger(x, y), z) = Larger(Larger(x, z), y)
BY PageAssumption DEF Larger, Time

(* Aging keeps poten_maxlifetime the larger of the two histories.          *)
LEMMA AgedExact ==
    ASSUME IInv, NEW a \in BlockAddress, NEW now \in Time, NEW b \in approx_vars
    PROVE  /\ Aged(b, a, now) \in Time
           /\ Exposure(b, a, now) \in Time
           /\ lived[b] \in Time /\ maxlifetime[b] \in Time
           /\ Aged(b, a, now) = Larger(Exposure(b, a, now), lived[b])
<1> DEFINE x == Inter(now, PageOf(a))
<1>1. x \in Time
  BY AddressPage, InterTime DEF IInv
<1>2. /\ b \in Byte /\ exposed[b] \in Time /\ lived[b] \in Time /\ maxlifetime[b] \in Time
      /\ poten_maxlifetime[b] \in Time
      /\ poten_maxlifetime[b] = Larger(exposed[b], lived[b])
  BY DEF IInv, TypeOK, TableTypeOK, PotentialExact
<1> HIDE DEF x
<1>3. Larger(exposed[b], x) \in Time /\ Larger(poten_maxlifetime[b], x) \in Time
  BY <1>1, <1>2, LargerTime
<1>4. Larger(poten_maxlifetime[b], x) = Larger(Larger(exposed[b], x), lived[b])
  BY <1>1, <1>2, LargerOfThree
<1>5. QED
  BY <1>2, <1>3, <1>4 DEF Aged, Exposure, x

(* Bytes that are not registered do not age.                               *)
LEMMA AgedUnregistered ==
    ASSUME IInv, NEW a \in BlockAddress, NEW now \in Time,
           NEW b \in Byte \ approx_vars
    PROVE  Aged(b, a, now) = 0 /\ Exposure(b, a, now) = 0
BY DEF IInv, UnregisteredZero, Aged, Exposure, SharesPage

(* Every value the access writes to a page clock is a time.                *)
LEMMA TouchTime ==
    ASSUME TypeOK, NEW a \in BlockAddress, NEW now \in Time, TouchPage(a, now)
    PROVE  lastacc' \in [Page -> Time]
<1>1. PageOf(a) \in Page
  BY AddressPage
<1>2. Larger(lastacc[PageOf(a)], now) \in Time
  BY <1>1, LargerTime DEF TypeOK
<1>3. QED
  BY <1>1, <1>2 DEF TouchPage, TypeOK

(* The page statistics keep their types.                                   *)
LEMMA CountTypes ==
    ASSUME TypeOK, NEW a \in BlockAddress, CountPage(a)
    PROVE  /\ total_addrs' \subseteq Page /\ approx_addrs' \subseteq Page
           /\ overall_addr_cnter' \in Nat /\ approx_addr_cnter' \in Nat
BY AddressPage DEF CountPage, TypeOK

(* A read moves the potential life time of its block to maxlifetime.       *)
LEMMA ReadKeepsIInv ==
    ASSUME IInv, NEW a \in BlockAddress, NEW now \in Time,
           getDataFromDram(a, now)
    PROVE  IInv'
<1>0. /\ TypeOK /\ WindowCovers /\ approx_vars' = approx_vars
      /\ approx_vars \subseteq Byte /\ UNCHANGED <<start_addr, end_addr>>
  BY DEF IInv, getDataFromDram, tableVars, TypeOK, TableTypeOK
<1>1. Settled(a) = BytesOf(a) \cap approx_vars
  BY <1>0, SettledIsBlock
<1>2. \A b \in approx_vars :
        /\ poten_maxlifetime'[b] = Aged(b, a, now)
        /\ exposed'[b] = Exposure(b, a, now)
        /\ maxlifetime'[b] = IF b \in BytesOf(a) /\ maxlifetime[b] < Aged(b, a, now)
                             THEN Aged(b, a, now) ELSE maxlifetime[b]
        /\ lived'[b] = IF b \in BytesOf(a)
                       THEN Larger(lived[b], Exposure(b, a, now)) ELSE lived[b]
  BY <1>0, <1>1 DEF getDataFromDram, LifetimeRead, RecordRead
<1>3. \A b \in approx_vars :
        /\ poten_maxlifetime'[b] \in Time /\ exposed'[b] \in Time
        /\ maxlifetime'[b] \in Time /\ lived'[b] \in Time
        /\ maxlifetime'[b] = lived'[b]
        /\ poten_maxlifetime'[b] = Larger(exposed'[b], lived'[b])
  <2> SUFFICES ASSUME NEW b \in approx_vars
               PROVE  /\ poten_maxlifetime'[b] \in Time /\ exposed'[b] \in Time
                      /\ maxlifetime'[b] \in Time /\ lived'[b] \in Time
                      /\ maxlifetime'[b] = lived'[b]
                      /\ poten_maxlifetime'[b] = Larger(exposed'[b], lived'[b])
    OBVIOUS
  <2> DEFINE A == Aged(b, a, now)
             E == Exposure(b, a, now)
  <2>1. /\ A \in Time /\ E \in Time /\ lived[b] \in Time
        /\ A = Larger(E, lived[b]) /\ maxlifetime[b] = lived[b]
    BY AgedExact DEF IInv, LifetimeExact
  <2>2. /\ poten_maxlifetime'[b] = A /\ exposed'[b] = E
        /\ maxlifetime'[b] = IF b \in BytesOf(a) /\ maxlifetime[b] < A
                             THEN A ELSE maxlifetime[b]
        /\ lived'[b] = IF b \in BytesOf(a)
                       THEN Larger(lived[b], E) ELSE lived[b]
    BY <1>2
  <2> HIDE DEF A, E
  <2>3. CASE b \in BytesOf(a)
    BY <2>1, <2>2, <2>3, PageAssumption DEF Larger, Time
  <2>4. CASE b \notin BytesOf(a)
    BY <2>1, <2>2, <2>4
  <2>5. QED
    BY <2>3, <2>4
<1>4. \A b \in Byte \ approx_vars :
        /\ poten_maxlifetime'[b] = 0 /\ maxlifetime'[b] = 0
        /\ exposed'[b] = 0 /\ lived'[b] = 0
  BY <1>1, AgedUnregistered
     DEF getDataFromDram, LifetimeRead, RecordRead, IInv, UnregisteredZero
<1>5. 0 \in Time
  BY PageAssumption DEF Time
<1>6. /\ poten_maxlifetime' \in [Byte -> Time] /\ maxlifetime' \in [Byte -> Time]
      /\ exposed' \in [Byte -> Time] /\ lived' \in [Byte -> Time]
  <2>1. \A b \in Byte : /\ poten_maxlifetime'[b] \in Time /\ maxlifetime'[b] \in Time
                        /\ exposed'[b] \in Time /\ lived'[b] \in Time
    BY <1>3, <1>4, <1>5
  <2>2. QED
    BY <2>1 DEF getDataFromDram, LifetimeRead, RecordRead
<1>7. TypeOK'
  <2>1. lastacc' \in [Page -> Time]
    BY <1>0, TouchTime DEF getDataFromDram
  <2>2. /\ total_addrs' \subseteq Page /\ approx_addrs' \subseteq Page
        /\ overall_addr_cnter' \in Nat /\ approx_addr_cnter' \in Nat
    BY <1>0, CountTypes DEF getDataFromDram
  <2>3. QED
    BY <1>0, <1>6, <2>1, <2>2 DEF TypeOK, TableTypeOK
<1>8. QED
  BY <1>0, <1>3, <1>4, <1>7
     DEF IInv, WindowCovers, LifetimeExact, PotentialExact, UnregisteredZero

(* A write takes the potential life time of its block back.                *)
LEMMA WriteKeepsIInv ==
    ASSUME IInv, NEW a \in BlockAddress, NEW now \in Time,
           putDataToDram(a, now)
    PROVE  IInv'
<1>0. /\ TypeOK /\ WindowCovers /\ approx_vars' = approx_vars
      /\ approx_vars \subseteq Byte /\ UNCHANGED <<start_addr, end_addr>>
  BY DEF IInv, putDataToDram, tableVars, TypeOK, TableTypeOK
<1>1. Settled(a) = BytesOf(a) \cap approx_vars
  BY <1>0, SettledIsBlock
<1>2. \A b \in approx_vars :
        /\ poten_maxlifetime'[b] = IF b \in BytesOf(a) /\ maxlifetime[b] < Aged(b, a, now)
                                   THEN maxlifetime[b] ELSE Aged(b, a, now)
        /\ exposed'[b] = IF b \in BytesOf(a) THEN 0 ELSE Exposure(b, a, now)
        /\ maxlifetime'[b] = maxlifetime[b] /\ lived'[b] = lived[b]
  BY <1>0, <1>1 DEF putDataToDram, LifetimeWrite, RecordWrite
<1>5. 0 \in Time
  BY PageAssumption DEF Time
<1>3. \A b \in approx_vars :
        /\ poten_maxlifetime'[b] \in Time /\ exposed'[b] \in Time
        /\ maxlifetime'[b] \in Time /\ lived'[b] \in Time
        /\ maxlifetime'[b] = lived'[b]
        /\ poten_maxlifetime'[b] = Larger(exposed'[b], lived'[b])
  <2> SUFFICES ASSUME NEW b \in approx_vars
               PROVE  /\ poten_maxlifetime'[b] \in Time /\ exposed'[b] \in Time
                      /\ maxlifetime'[b] \in Time /\ lived'[b] \in Time
                      /\ maxlifetime'[b] = lived'[b]
                      /\ poten_maxlifetime'[b] = Larger(exposed'[b], lived'[b])
    OBVIOUS
  <2> DEFINE A == Aged(b, a, now)
             E == Exposure(b, a, now)
  <2>1. /\ A \in Time /\ E \in Time /\ lived[b] \in Time
        /\ A = Larger(E, lived[b]) /\ maxlifetime[b] = lived[b]
    BY AgedExact DEF IInv, LifetimeExact
  <2>2. /\ poten_maxlifetime'[b] = IF b \in BytesOf(a) /\ maxlifetime[b] < A
                                   THEN maxlifetime[b] ELSE A
        /\ exposed'[b] = IF b \in BytesOf(a) THEN 0 ELSE E
        /\ maxlifetime'[b] = maxlifetime[b] /\ lived'[b] = lived[b]
    BY <1>2
  <2> HIDE DEF A, E
  <2>3. CASE b \in BytesOf(a)
    BY <1>5, <2>1, <2>2, <2>3, PageAssumption DEF Larger, Time
  <2>4. CASE b \notin BytesOf(a)
    BY <2>1, <2>2, <2>4
  <2>5. QED
    BY <2>3, <2>4
<1>4. \A b \in Byte \ approx_vars :
        /\ poten_maxlifetime'[b] = 0 /\ maxlifetime'[b] = 0
        /\ exposed'[b] = 0 /\ lived'[b] = 0
  BY <1>1, AgedUnregistered
     DEF putDataToDram, LifetimeWrite, RecordWrite, IInv, UnregisteredZero
<1>6. /\ poten_maxlifetime' \in [Byte -> Time] /\ maxlifetime' \in [Byte -> Time]
      /\ exposed' \in [Byte -> Time] /\ lived' \in [Byte -> Time]
  <2>1. \A b \in Byte : poten_maxlifetime'[b] \in Time /\ exposed'[b] \in Time
    BY <1>3, <1>4, <1>5
  <2>2. QED
    BY <1>0, <2>1 DEF putDataToDram, LifetimeWrite, RecordWrite, TypeOK
<1>7. TypeOK'
  <2>1. lastacc' \in [Page -> Time]
    BY <1>0, TouchTime DEF putDataToDram
  <2>2. /\ total_addrs' \subseteq Page /\ approx_addrs' \subseteq Page
        /\ overall_addr_cnter' \in Nat /\ approx_addr_cnter' \in Nat
    BY <1>0, CountTypes DEF putDataToDram
  <2>3. QED
    BY <1>0, <1>6, <2>1, <2>2 DEF TypeOK, TableTypeOK
<1>8. QED
  BY <1>0, <1>3, <1>4, <1>7
     DEF IInv, WindowCovers, LifetimeExact, PotentialExact, UnregisteredZero

(* A registration widens the window over its byte and starts it from zero. *)
LEMMA AddKeepsIInv ==
    ASSUME IInv, NEW b \in Byte, AddApprox(b)
    PROVE  IInv'
<1>0. /\ TypeOK /\ UNCHANGED <<lifeVars, lastacc, pageVars>>
      /\ approx_vars \subseteq Byte /\ start_addr \in Int /\ end_addr \in Int
  BY AddrAssumption DEF IInv, AddApprox, TypeOK, TableTypeOK, Byte, Above
<1>1. CASE b \in approx_vars
  BY <1>0, <1>1
     DEF IInv, AddApprox, add_approx, tableVars, lifeVars, pageVars, TypeOK, TableTypeOK,
         WindowCovers, LifetimeExact, PotentialExact, UnregisteredZero
<1>2. CASE b \notin approx_vars
  <2>1. /\ approx_vars' = approx_vars \cup {b}
        /\ end_addr' = IF b > end_addr THEN b ELSE end_addr
        /\ start_addr' = IF b < start_addr THEN b ELSE start_addr
    BY <1>2 DEF AddApprox, add_approx
  <2>2. TableTypeOK' /\ WindowCovers'
    BY <1>0, <2>1, AddrAssumption
       DEF IInv, TypeOK, TableTypeOK, WindowCovers, Byte, Above
  <2>3. TypeOK'
    BY <1>0, <2>2 DEF TypeOK, lifeVars, pageVars
  <2>4. maxlifetime[b] = 0 /\ lived[b] = 0 /\ poten_maxlifetime[b] = 0 /\ exposed[b] = 0
    BY <1>2 DEF IInv, UnregisteredZero
  <2>5. LifetimeExact' /\ PotentialExact' /\ UnregisteredZero'
    BY <1>0, <2>1, <2>4
       DEF IInv, lifeVars, LifetimeExact, PotentialExact, UnregisteredZero, Larger
  <2>6. QED
    BY <2>2, <2>3, <2>5 DEF IInv
<1>3. QED
  BY <1>1, <1>2

(* A deletion leaves the window and the other bytes alone.                 *)
LEMMA DelKeepsIInv ==
    ASSUME IInv, NEW b \in Byte, DelApprox(b)
    PROVE  IInv'
<1>0. /\ TypeOK /\ approx_vars' = approx_vars \ {b} /\ UNCHANGED <<start_addr, end_addr>>
      /\ UNCHANGED <<lastacc, pageVars>> /\ 0 \in Time
  BY PageAssumption DEF IInv, DelApprox, del_approx, Time
<1>1. /\ poten_maxlifetime' = [poten_maxlifetime EXCEPT ![b] = 0]
      /\ maxlifetime' = [maxlifetime EXCEPT ![b] = 0]
      /\ exposed' = [exposed EXCEPT ![b] = 0]
      /\ lived' = [lived EXCEPT ![b] = 0]
  BY DEF DelApprox
<1>2. TypeOK'
  BY <1>0, <1>1 DEF TypeOK, TableTypeOK, pageVars
<1>3. WindowCovers'
  BY <1>0 DEF IInv, WindowCovers
<1>4. LifetimeExact' /\ PotentialExact' /\ UnregisteredZero'
  BY <1>0, <1>1
     DEF IInv, TypeOK, TableTypeOK, LifetimeExact, PotentialExact, UnregisteredZero
<1>5. QED
  BY <1>2, <1>3, <1>4 DEF IInv

(* The controller starts with no approximate byte.                         *)
LEMMA InitIInv == Init => IInv
<1> SUFFICES ASSUME Init PROVE IInv
  OBVIOUS
<1>1. 0 \in Time /\ Above \in 0..Above /\ 0 \in Byte
  BY AddrAssumption, PageAssumption DEF Time, Above, Byte
<1>2. TypeOK
  BY <1>1 DEF Init, InitTable, TypeOK, TableTypeOK, Zero
<1>3. QED
  BY <1>2
     DEF Init, InitTable, Zero, IInv, WindowCovers, LifetimeExact, PotentialExact, UnregisteredZero

(* Every step of the controller and of the magic server keeps IInv.        *)
LEMMA NextIInv == IInv /\ [Next]_vars => IInv'
<1> SUFFICES ASSUME IInv, [Next]_vars PROVE IInv'
  OBVIOUS
<1>1. ASSUME NEW b \in Byte, AddApprox(b) PROVE IInv'
  BY <1>1, AddKeepsIInv
<1>2. ASSUME NEW b \in Byte, DelApprox(b) PROVE IInv'
  BY <1>2, DelKeepsIInv
<1>3. ASSUME NEW a \in BlockAddress, NEW now \in Time, getDataFromDram(a, now)
      PROVE  IInv'
  BY <1>3, ReadKeepsIInv
<1>4. ASSUME NEW a \in BlockAddress, NEW now \in Time, putDataToDram(a, now)
      PROVE  IInv'
  BY <1>4, WriteKeepsIInv
<1>5. CASE UNCHANGED vars
  BY <1>5
     DEF vars, tableVars, lifeVars, pageVars, IInv, TypeOK, TableTypeOK, WindowCovers,
         LifetimeExact, PotentialExact, UnregisteredZero
<1>6. QED
  BY <1>1, <1>2, <1>3, <1>4, <1>5 DEF Next

(* The types of the controller's state: no interval exceeds the latest     *)
(* time, in whatever order the accesses arrive (getDataFromDram,           *)
(* putDataToDram, update_liftime).                                         *)
THEOREM DramTypes == Spec => []TypeOK
<1>1. IInv => TypeOK
  BY DEF IInv
<1>2. QED
  BY InitIInv, NextIInv, <1>1, PTL DEF Spec

(* The life time of an approximate byte is the longest interval that a     *)
(* read, and no write before it, followed (update_liftime).                *)
THEOREM LifetimesAreExact == Spec => []LifetimeExact
<1>1. IInv => LifetimeExact
  BY DEF IInv
<1>2. QED
  BY InitIInv, NextIInv, <1>1, PTL DEF Spec

(* Adding one page to a set of pages adds one to its size unless the page  *)
(* was there.                                                              *)
LEMMA OneMore ==
    ASSUME NEW S, IsFiniteSet(S), NEW p
    PROVE  /\ Cardinality(S) \in Nat /\ IsFiniteSet(S \cup {p})
           /\ Cardinality(S \cup {p}) = Cardinality(S) + (IF p \notin S THEN 1 ELSE 0)
BY FS_AddElement, FS_CardinalityType

(* The statistics with the finiteness that counting needs.                 *)
PagesInv == PagesCounted /\ IsFiniteSet(total_addrs) /\ IsFiniteSet(approx_addrs)

(* An access counts its page at most once in each class.                   *)
LEMMA CountKeepsPages ==
    ASSUME PagesInv, NEW a, CountPage(a)
    PROVE  PagesInv'
<1> DEFINE p == PageOf(a)
<1>1. /\ total_addrs' = total_addrs \cup {p}
      /\ overall_addr_cnter' = overall_addr_cnter + (IF p \notin total_addrs THEN 1 ELSE 0)
  BY DEF CountPage
<1>2. \/ approx_addrs' = approx_addrs /\ approx_addr_cnter' = approx_addr_cnter + 0
      \/ /\ approx_addrs' = approx_addrs \cup {p}
         /\ approx_addr_cnter' = approx_addr_cnter + (IF p \notin approx_addrs THEN 1 ELSE 0)
  BY DEF CountPage
<1> HIDE DEF p
<1>3. IsFiniteSet(total_addrs') /\ overall_addr_cnter' = Cardinality(total_addrs')
  BY <1>1, OneMore DEF PagesInv, PagesCounted
<1>4. IsFiniteSet(approx_addrs') /\ approx_addr_cnter' = Cardinality(approx_addrs')
  <2>1. CASE approx_addrs' = approx_addrs /\ approx_addr_cnter' = approx_addr_cnter + 0
    BY <2>1, FS_CardinalityType DEF PagesInv, PagesCounted
  <2>2. CASE /\ approx_addrs' = approx_addrs \cup {p}
             /\ approx_addr_cnter' = approx_addr_cnter + (IF p \notin approx_addrs THEN 1 ELSE 0)
    BY <2>2, OneMore DEF PagesInv, PagesCounted
  <2>3. QED
    BY <1>2, <2>1, <2>2
<1>5. approx_addrs' \subseteq total_addrs'
  BY <1>1, <1>2 DEF PagesInv, PagesCounted
<1>6. QED
  BY <1>3, <1>4, <1>5 DEF PagesInv, PagesCounted

(* The page statistics count every accessed page once, and the approximate *)
(* pages are among them (getDataFromDram, putDataToDram).                  *)
THEOREM PagesAreCounted == Spec => []PagesCounted
<1>1. Init => PagesInv
  BY FS_EmptySet DEF Init, PagesInv, PagesCounted
<1>2. PagesInv /\ [Next]_vars => PagesInv'
  <2> SUFFICES ASSUME PagesInv, [Next]_vars PROVE PagesInv'
    OBVIOUS
  <2>1. CASE UNCHANGED pageVars
    BY <2>1 DEF pageVars, PagesInv, PagesCounted
  <2>2. \/ UNCHANGED pageVars
        \/ \E a \in BlockAddress : CountPage(a)
    BY DEF Next, vars, AddApprox, DelApprox, getDataFromDram, putDataToDram
  <2>3. QED
    BY <2>1, <2>2, CountKeepsPages
<1>3. PagesInv => PagesCounted
  BY DEF PagesInv
<1>4. QED
  BY <1>1, <1>2, <1>3, PTL DEF Spec
=============================================================================
