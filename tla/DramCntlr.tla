------------------------------ MODULE DramCntlr -----------------------------
(***************************************************************************)
(* The DRAM controller (getDataFromDram, putDataToDram) with the life      *)
(* times that MagicServer::update_liftime keeps for the approximate bytes. *)
(* An access opens a page and so refreshes it; the interval since the      *)
(* page's previous access is how long its bytes had to live unrefreshed.   *)
(* A byte's life time counts an interval only if the byte is read before   *)
(* it is overwritten.                                                      *)
(*                                                                         *)
(* One controller handles its accesses one at a time ("only one dram       *)
(* controller", dram_cntlr.cc:62).  Their times come from the clocks of    *)
(* different cores and need not grow.  Data, the fault injector and the    *)
(* latency model are left out: none of them looks at this state.           *)
(***************************************************************************)
EXTENDS ApproxVars, FiniteSets

CONSTANTS
    PageSize,   \* bytes in a page (PAGE_SIZE)
    MaxTime     \* bound: the latest time of an access, in ns

ASSUME PageAssumption == PageSize \in Nat \ {0} /\ MaxTime \in Nat

VARIABLES
    poten_maxlifetime,   \* per byte: the life time if it is read next
    maxlifetime,         \* per byte: the life time that counts
    lastacc,             \* per page: time of the latest access; 0 for a page without pagevar
    total_addrs,         \* pages accessed
    approx_addrs,        \* pages accessed in an approximate block
    overall_addr_cnter,  \* statistics: number of pages accessed
    approx_addr_cnter,   \* statistics: number of approximate pages accessed
    exposed,             \* history: longest interval since the byte was written or registered
    lived                \* history: longest such interval that ended in a read

lifeVars == <<poten_maxlifetime, maxlifetime, exposed, lived>>
pageVars == <<total_addrs, approx_addrs, overall_addr_cnter, approx_addr_cnter>>
vars == <<tableVars, lifeVars, lastacc, pageVars>>

Time == 0..MaxTime
PageOf(b) == b \div PageSize
Page == {PageOf(b) : b \in Byte}

TypeOK ==
    /\ TableTypeOK
    /\ poten_maxlifetime \in [Byte -> Time]
    /\ maxlifetime \in [Byte -> Time]
    /\ lastacc \in [Page -> Time]
    /\ total_addrs \subseteq Page
    /\ approx_addrs \subseteq Page
    /\ overall_addr_cnter \in Nat
    /\ approx_addr_cnter \in Nat
    /\ exposed \in [Byte -> Time]
    /\ lived \in [Byte -> Time]

Zero == [b \in Byte |-> 0]

Init ==
    /\ InitTable
    /\ poten_maxlifetime = Zero
    /\ maxlifetime = Zero
    /\ lastacc = [p \in Page |-> 0]
    /\ total_addrs = {}
    /\ approx_addrs = {}
    /\ overall_addr_cnter = 0
    /\ approx_addr_cnter = 0
    /\ exposed = Zero
    /\ lived = Zero
-----------------------------------------------------------------------------
(* Registering a byte again leaves its record; a deleted byte has none,    *)
(* which the model writes as zeros.                                        *)
AddApprox(b) ==
    /\ add_approx(b)
    /\ UNCHANGED <<lifeVars, lastacc, pageVars>>

DelApprox(b) ==
    /\ b \in approx_vars
    /\ del_approx(b)
    /\ poten_maxlifetime' = [poten_maxlifetime EXCEPT ![b] = 0]
    /\ maxlifetime' = [maxlifetime EXCEPT ![b] = 0]
    /\ exposed' = [exposed EXCEPT ![b] = 0]
    /\ lived' = [lived EXCEPT ![b] = 0]
    /\ UNCHANGED <<lastacc, pageVars>>

Larger(x, y) == IF x < y THEN y ELSE x

(* Mutant: the difference of two UInt64s wraps (here at 2^30).             *)
Inter_Wraps(now, p) == (now - lastacc[p]) % 2^30

(* The interval since the last access of the page.                         *)
Inter(now, p) == IF now >= lastacc[p] THEN now - lastacc[p]
                                      ELSE lastacc[p] - now

SharesPage(b, address) == b \in approx_vars /\ PageOf(b) = PageOf(address)

(* Every approximate byte of the page ages by the interval.                *)
Aged(b, address, now) ==
    IF SharesPage(b, address)
    THEN Larger(poten_maxlifetime[b], Inter(now, PageOf(address)))
    ELSE poten_maxlifetime[b]

(* The approximate bytes of the block, unless the window rejects it.       *)
(* LifetimeWalk models the loop that visits them.                          *)
Settled(address) ==
    IF OutsideWindow(address) THEN {} ELSE BytesOf(address) \cap approx_vars

(* update_liftime for a read: the byte was used, the aging counts.         *)
LifetimeRead(address, now) ==
    /\ poten_maxlifetime' = [b \in Byte |-> Aged(b, address, now)]
    /\ maxlifetime' = [b \in Byte |->
          IF b \in Settled(address) /\ maxlifetime[b] < Aged(b, address, now)
          THEN Aged(b, address, now) ELSE maxlifetime[b]]

(* Mutant: a write does not withdraw the aging since the last read.        *)
LifetimeWrite_Keeps(address, now) ==
    /\ poten_maxlifetime' = [b \in Byte |-> Aged(b, address, now)]
    /\ maxlifetime' = maxlifetime

(* update_liftime for a write: the byte is overwritten, the aging since    *)
(* the last read is withdrawn.                                             *)
LifetimeWrite(address, now) ==
    /\ poten_maxlifetime' = [b \in Byte |->
          IF b \in Settled(address) /\ maxlifetime[b] < Aged(b, address, now)
          THEN maxlifetime[b] ELSE Aged(b, address, now)]
    /\ maxlifetime' = maxlifetime

TouchPage(address, now) ==
    lastacc' = [lastacc EXCEPT ![PageOf(address)] = Larger(@, now)]

(* Mutant: the page of a precise block is not counted.                     *)
CountPage_ApproxOnly(address) ==
    LET p == PageOf(address)
        a == is_block_approx(address)
    IN  /\ approx_addrs' = approx_addrs \cup (IF a THEN {p} ELSE {})
        /\ approx_addr_cnter' = approx_addr_cnter + (IF a /\ p \notin approx_addrs THEN 1 ELSE 0)
        /\ total_addrs' = total_addrs \cup (IF a THEN {} ELSE {p})
        /\ overall_addr_cnter' = overall_addr_cnter + (IF ~a /\ p \notin total_addrs THEN 1 ELSE 0)

(* The statistics of both accesses: each page counts once in each class.   *)
CountPage(address) ==
    LET p == PageOf(address)
        a == is_block_approx(address)
    IN  /\ approx_addrs' = approx_addrs \cup (IF a THEN {p} ELSE {})
        /\ approx_addr_cnter' = approx_addr_cnter + (IF a /\ p \notin approx_addrs THEN 1 ELSE 0)
        /\ total_addrs' = total_addrs \cup {p}
        /\ overall_addr_cnter' = overall_addr_cnter + (IF p \notin total_addrs THEN 1 ELSE 0)

Exposure(b, address, now) ==
    IF SharesPage(b, address)
    THEN Larger(exposed[b], Inter(now, PageOf(address)))
    ELSE exposed[b]

RecordRead(address, now) ==
    /\ exposed' = [b \in Byte |-> Exposure(b, address, now)]
    /\ lived' = [b \in Byte |->
          IF b \in BytesOf(address) \cap approx_vars
          THEN Larger(lived[b], Exposure(b, address, now)) ELSE lived[b]]

RecordWrite(address, now) ==
    /\ exposed' = [b \in Byte |->
          IF b \in BytesOf(address) \cap approx_vars THEN 0 ELSE Exposure(b, address, now)]
    /\ lived' = lived

getDataFromDram(address, now) ==
    /\ LifetimeRead(address, now)
    /\ TouchPage(address, now)
    /\ CountPage(address)
    /\ RecordRead(address, now)
    /\ UNCHANGED tableVars

putDataToDram(address, now) ==
    /\ LifetimeWrite(address, now)
    /\ TouchPage(address, now)
    /\ CountPage(address)
    /\ RecordWrite(address, now)
    /\ UNCHANGED tableVars

Next ==
    \/ \E b \in Byte : AddApprox(b) \/ DelApprox(b)
    \/ \E address \in BlockAddress, now \in Time :
          getDataFromDram(address, now) \/ putDataToDram(address, now)

Spec == Init /\ [][Next]_vars
-----------------------------------------------------------------------------
(* The life time the log reports for an approximate byte is the longest    *)
(* interval without an access to its page, between two writes of its       *)
(* block, that a read of its block came after (update_liftime keeps only   *)
(* two numbers, and neither the window nor the bytes of other blocks       *)
(* disturb them).                                                          *)
LifetimeExact == \A b \in approx_vars : maxlifetime[b] = lived[b]

(* Pages are counted once, and every approximate page is among the pages   *)
(* (the statistics are what approx_addr_cnter is compared with).           *)
PagesCounted ==
    /\ overall_addr_cnter = Cardinality(total_addrs)
    /\ approx_addr_cnter = Cardinality(approx_addrs)
    /\ approx_addrs \subseteq total_addrs
=============================================================================
