----------------------------- MODULE CacheCntlr -----------------------------
(***************************************************************************)
(* The cache controllers of a two-level hierarchy: one first-level cache   *)
(* per core, last-level caches (LLC) shared by SharedCores cores each, and *)
(* behind them either a directory or, with dramDirect, the DRAM itself.    *)
(*                                                                         *)
(* The blocks are those of one first-level set, so one set lock of each    *)
(* LLC protects all of them; they also compete for one LLC set.  Three     *)
(* kinds of threads run: the user thread of a core (processMemOpFromCore), *)
(* the network thread of an LLC (handleMsgFromDramDirectory) and the       *)
(* directory.  What a thread does between two points where it gives up or  *)
(* waits for the set lock is one action: no other thread can touch the     *)
(* lines of the set meanwhile.  Timing, statistics, prefetching and the    *)
(* perfect, passthrough and writethrough cache options are left out.       *)
(*                                                                         *)
(* The directory, the network, the set lock and the semaphores belong to   *)
(* the part of the simulator that is not in this repository.  They are     *)
(* modelled from the way the controllers use them.                         *)
(***************************************************************************)
EXTENDS Integers, Sequences, FiniteSets

CONSTANTS
    NumCores, SharedCores,  \* cores, and cores per LLC (m_shared_cores)
    Block, NoBlock,         \* the blocks of the set
    L1Ways, LlcWays,        \* ways of the set in each level
    DramConfig              \* the values of dramDirect to start from

ASSUME CoresAssumption ==
    /\ NumCores \in Nat \ {0}
    /\ SharedCores \in Nat \ {0}
    /\ L1Ways \in Nat \ {0}
    /\ LlcWays \in Nat \ {0}
    /\ DramConfig \subseteq BOOLEAN
    /\ NoBlock \notin Block
(* One directory-less LLC serves all cores.                                *)
ASSUME DirectAssumption == TRUE \in DramConfig => SharedCores >= NumCores

VARIABLES
    l1,       \* core -> block -> its line in the first-level cache
    llc,      \* LLC -> block -> its line in the LLC
    dram,     \* block -> whether the DRAM holds the latest data
    lock,     \* LLC -> its set lock: [excl, readers]
    waiters,  \* LLC -> block -> m_directory_waiters
    user,     \* core -> [pc, op, block] of its user thread
    net,      \* LLC -> block whose waiter its network thread has woken, or NoBlock
    userSem,  \* core -> m_user_thread_sem
    netSem,   \* core -> m_network_thread_sem
    up,       \* LLC -> block -> messages to the directory
    down,     \* LLC -> block -> messages from the directory
    dir,      \* block -> [sharers, owned, queue, sent], the directory
    failed,   \* labels of the assertions that failed; the program stops then
    dramDirect \* configuration: whether the LLC has a DRAM controller (m_dram_cntlr)

vars == <<l1, llc, dram, lock, waiters, user, net, userSem, netSem, up, down, dir, failed, dramDirect>>

Core == 0..(NumCores - 1)
Master(c) == c - (c % SharedCores)        \* m_core_id_master
Llc == {Master(c) : c \in Core}
L1sOf(g) == {c \in Core : Master(c) = g}  \* m_prev_cache_cntlrs

(* A line is its coherence state and whether its data is that of the last  *)
(* write to the block; values themselves do not matter.                    *)
CState == {"INVALID", "SHARED", "SHARED_UPGRADING", "EXCLUSIVE", "MODIFIED"}
Line == [st : CState, cur : BOOLEAN]
Absent == [st |-> "INVALID", cur |-> FALSE]

Op == {"READ", "WRITE", "READ_EX"}        \* READ_EX locks, and is followed by a write

Readable == {"SHARED", "EXCLUSIVE", "MODIFIED"}

(* Mutant: an EXCLUSIVE line can be written where it is.                   *)
operationPermissibleinCache_WriteE(st, op) ==
    IF op = "READ" THEN st \in Readable ELSE st \in {"EXCLUSIVE", "MODIFIED"}

operationPermissibleinCache(st, op) ==
    IF op = "READ" THEN st \in Readable ELSE st = "MODIFIED"

Idle == [pc |-> "idle", op |-> "READ", block |-> NoBlock]

Free == [excl |-> FALSE, readers |-> {}]
Held == [excl |-> TRUE, readers |-> {}]

(* A failed assertion ends the program.                                    *)
Running == failed = {}

(* The assertions of a step: <<label, condition>> pairs.                   *)
Checked(assertions) == failed' = {x[1] : x \in {y \in assertions : ~y[2]}}

Init ==
    /\ l1 = [c \in Core |-> [b \in Block |-> Absent]]
    /\ llc = [g \in Llc |-> [b \in Block |-> Absent]]
    /\ dram = [b \in Block |-> TRUE]
    /\ lock = [g \in Llc |-> Free]
    /\ waiters = [g \in Llc |-> [b \in Block |-> <<>>]]
    /\ user = [c \in Core |-> Idle]
    /\ net = [g \in Llc |-> NoBlock]
    /\ userSem = [c \in Core |-> 0]
    /\ netSem = [c \in Core |-> 0]
    /\ up = [g \in Llc |-> [b \in Block |-> <<>>]]
    /\ down = [g \in Llc |-> [b \in Block |-> <<>>]]
    /\ dir = [b \in Block |-> [sharers |-> {}, owned |-> FALSE, queue |-> <<>>, sent |-> FALSE]]
    /\ failed = {}
    /\ dramDirect \in DramConfig
-----------------------------------------------------------------------------
(* Operations on the lines.  L1 and LLC stand for the contents of the      *)
(* first-level caches and of the LLCs at that point of a handler.          *)

Valid(line) == line.st # "INVALID"

(* The first-level copies of b that are written back when the caches of g  *)
(* other than those of skip are snooped.                                   *)
Dirty(L1, g, b, skip) == {c \in L1sOf(g) \ skip : L1[c][b].st = "MODIFIED"}

(* Mutant: a downgrade is not passed on to the first-level caches.         *)
Snooped_InvalidOnly(L1, g, b, new, skip) ==
    [c \in Core |->
        IF c \in L1sOf(g) \ skip /\ Valid(L1[c][b]) /\ new = "INVALID"
        THEN [L1[c] EXCEPT ![b] = Absent] ELSE L1[c]]

(* Mutant: an invalidation is not passed on to the first-level caches.     *)
Snooped_DowngradeOnly(L1, g, b, new, skip) ==
    [c \in Core |->
        IF c \in L1sOf(g) \ skip /\ Valid(L1[c][b]) /\ new # "INVALID"
        THEN [L1[c] EXCEPT ![b].st = new] ELSE L1[c]]

(* updateCacheBlock on every first-level cache of g not in skip.           *)
Snooped(L1, g, b, new, skip) ==
    [c \in Core |->
        IF c \in L1sOf(g) \ skip /\ Valid(L1[c][b])
        THEN [L1[c] EXCEPT ![b] = IF new = "INVALID" THEN Absent ELSE [@ EXCEPT !.st = new]]
        ELSE L1[c]]

(* Mutant: the data of dirty first-level copies is dropped.                *)
WrittenBack_Dropped(L1, LLC, g, b, skip) == LLC[g][b]

(* The LLC line of b after the snoop: the caches are visited in order, so  *)
(* the last dirty one wins.                                                *)
WrittenBack(L1, LLC, g, b, skip) ==
    LET D == Dirty(L1, g, b, skip)
    IN  IF D = {} THEN LLC[g][b]
        ELSE [LLC[g][b] EXCEPT !.cur = L1[CHOOSE c \in D : \A d \in D : d <= c][b].cur]

(* writeCacheBlock takes data for MODIFIED lines only.                     *)
WritebackAccepted(g, b) ==
    <<"writeback", Dirty(l1, g, b, {}) # {} => llc[g][b].st = "MODIFIED">>

(* The lines a fill of b may evict: none while a way is free.              *)
L1Victims(L1, c) ==
    LET In == {v \in Block : Valid(L1[c][v])}
    IN  IF Cardinality(In) < L1Ways THEN {NoBlock} ELSE In

(* A line that waits for an upgrade is spared, but not when the youngest   *)
(* line is the only other choice (see CacheSetLRU2).                       *)
LlcVictims(LLC, g) ==
    LET In == {v \in Block : Valid(LLC[g][v])}
        Other == {v \in In : LLC[g][v].st # "SHARED_UPGRADING"}
    IN  IF Cardinality(In) < LlcWays THEN {NoBlock}
        ELSE IF Cardinality(Other) > 1 THEN Other ELSE In

Outdated(msgs) == [i \in DOMAIN msgs |-> [msgs[i] EXCEPT !.cur = FALSE]]

(* accessCache: a store makes every other copy of the block outdated.      *)
accessCache(c, op, b, L1, LLC, DRAM) ==
    IF op = "WRITE"
    THEN /\ l1' = [d \in Core |-> [L1[d] EXCEPT ![b].cur = (d = c)]]
         /\ llc' = [g \in Llc |-> [LLC[g] EXCEPT ![b].cur = FALSE]]
         /\ dram' = [DRAM EXCEPT ![b] = FALSE]
         /\ up' = [g \in Llc |-> [up[g] EXCEPT ![b] = Outdated(@)]]
         /\ down' = [g \in Llc |-> [down[g] EXCEPT ![b] = Outdated(@)]]
    ELSE /\ l1' = L1
         /\ llc' = LLC
         /\ dram' = DRAM
         /\ UNCHANGED <<up, down>>

(* The end of processMemOpFromCore with the line in the first level: the   *)
(* access itself, then the lock is released, or kept by a READ_EX.         *)
Complete(c, op, b, readers, L1, LLC, DRAM) ==
    /\ accessCache(c, op, b, L1, LLC, DRAM)
    /\ lock' = [lock EXCEPT ![Master(c)] =
                   [excl |-> FALSE, readers |-> readers \cup IF op = "READ_EX" THEN {c} ELSE {}]]
    /\ user' = [user EXCEPT ![c] =
                   IF op = "READ_EX" THEN [pc |-> "locked", op |-> op, block |-> b] ELSE Idle]

(* copyDataFromNextLevel and the rest: the first level takes the line as   *)
(* it is in the LLC, whatever the operation, and evicts one of its own.    *)
FillAndComplete(c, op, b, L1, LLC, DRAM, assertions) ==
    LET g == Master(c)
    IN  \E v \in L1Victims(L1, c) :
          LET Evicts == v # NoBlock
              Kept == IF Evicts THEN [L1 EXCEPT ![c][v] = Absent] ELSE L1
              Below == IF Evicts /\ L1[c][v].st = "MODIFIED"
                       THEN [LLC EXCEPT ![g][v].cur = L1[c][v].cur] ELSE LLC
          IN  /\ Complete(c, op, b, {}, [Kept EXCEPT ![c][b] = LLC[g][b]], Below, DRAM)
              /\ Checked(assertions \cup
                    {<<"gone", operationPermissibleinCache(LLC[g][b].st, op)>>,
                     <<"insert", ~Valid(L1[c][b])>>,
                     <<"writeback", Evicts /\ L1[c][v].st = "MODIFIED" => LLC[g][v].st = "MODIFIED">>})
-----------------------------------------------------------------------------
(* The user thread of a core.                                              *)

(* A first-level hit.  Nobody else can change the line between the check   *)
(* and the access: the set lock is held in shared mode.                    *)
Hit(c, op, b) ==
    /\ Running
    /\ user[c] = Idle
    /\ ~lock[Master(c)].excl
    /\ operationPermissibleinCache(l1[c][b].st, op)
    /\ Complete(c, op, b, lock[Master(c)].readers, l1, llc, dram)
    /\ UNCHANGED <<waiters, net, userSem, netSem, dir, failed, dramDirect>>

(* A first-level miss: the upgrade of the set lock lets go of it first.    *)
Miss(c, op, b) ==
    /\ Running
    /\ user[c] = Idle
    /\ ~lock[Master(c)].excl
    /\ ~operationPermissibleinCache(l1[c][b].st, op)
    /\ user' = [user EXCEPT ![c] = [pc |-> "miss", op |-> op, block |-> b]]
    /\ UNCHANGED <<l1, llc, dram, lock, waiters, net, userSem, netSem, up, down, dir, failed, dramDirect>>

(* The write that ends an atomic pair, under the lock its READ_EX kept.    *)
Unlock(c) ==
    LET b == user[c].block
    IN  /\ Running
        /\ user[c].pc = "locked"
        /\ Complete(c, "WRITE", b, lock[Master(c)].readers \ {c}, l1, llc, dram)
        /\ Checked({<<"unlock", operationPermissibleinCache(l1[c][b].st, "WRITE")>>})
        /\ UNCHANGED <<waiters, net, userSem, netSem, dir, dramDirect>>

(* processShmemReqFromPrevCache finds the line in a state that serves op,  *)
(* or can make it one without a message.                                   *)
Serves(st, op) ==
    \/ operationPermissibleinCache(st, op)
    \/ st = "EXCLUSIVE"
    \/ dramDirect /\ st = "SHARED"

(* Mutant: reads leave the copies of the siblings alone.                   *)
Snoops_WritesOnly(st, op) == op # "READ" /\ st \in {"SHARED", "EXCLUSIVE", "MODIFIED"}

Snoops(st, op) == st \in {"EXCLUSIVE", "MODIFIED"} \/ (op # "READ" /\ st = "SHARED")

SnoopsTo(op) == IF op = "READ" THEN "SHARED" ELSE "INVALID"

L1AfterRequest(c, op, b, L1) ==
    IF Snoops(llc[Master(c)][b].st, op)
    THEN Snooped(L1, Master(c), b, SnoopsTo(op), {c}) ELSE L1

LlcAfterRequest(c, op, b, L1) ==
    LET g == Master(c)
        st == llc[g][b].st
        Snoop == IF Snoops(st, op) THEN WrittenBack(L1, llc, g, b, {c}) ELSE llc[g][b]
    IN  [llc EXCEPT ![g][b] = IF op # "READ" /\ Serves(st, op)
                              THEN [Snoop EXCEPT !.st = "MODIFIED"] ELSE Snoop]

(* The miss has the set lock exclusively; its own copy goes first.         *)
OwnInvalidated(c) == [l1 EXCEPT ![c][user[c].block] = Absent]

RequestChecks(c) ==
    LET b == user[c].block
        st == llc[Master(c)][b].st
    IN  {<<"writeback", Snoops(st, user[c].op) /\ Dirty(l1, Master(c), b, {c}) # {} => st = "MODIFIED">>}

MissChecks(c) ==
    RequestChecks(c) \cup {<<"invalidate", l1[c][user[c].block].st # "MODIFIED">>}

HasStackLock(c) == Running /\ user[c].pc = "miss" /\ lock[Master(c)] = Free

(* The LLC serves the miss.                                                *)
MissHitsLlc(c) ==
    LET b == user[c].block
        op == user[c].op
        L1 == OwnInvalidated(c)
    IN  /\ HasStackLock(c)
        /\ Serves(llc[Master(c)][b].st, op)
        /\ FillAndComplete(c, op, b, L1AfterRequest(c, op, b, L1), LlcAfterRequest(c, op, b, L1),
                           dram, MissChecks(c))
        /\ UNCHANGED <<waiters, net, userSem, netSem, dir, dramDirect>>

(* Mutant: evicted lines stay in the first-level caches.                   *)
L1AfterEvict_NoBackInval(L1, g, v) == L1

(* The lines after the LLC of g takes b in and evicts v: the first-level   *)
(* copies of v go first and leave their data in the eviction buffer.       *)
L1AfterEvict(L1, g, v) == IF v = NoBlock THEN L1 ELSE Snooped(L1, g, v, "INVALID", {})

LlcAfterInsert(LLC, g, b, line, v) ==
    IF v = NoBlock THEN [LLC EXCEPT ![g][b] = line]
                   ELSE [LLC EXCEPT ![g][b] = line, ![g][v] = Absent]

(* The LLC has no directory and fetches the line from DRAM itself.         *)
MissGoesToDram(c) ==
    LET b == user[c].block
        op == user[c].op
        g == Master(c)
        L1 == OwnInvalidated(c)
        line == [st |-> IF op = "READ" THEN "SHARED" ELSE "MODIFIED", cur |-> dram[b]]
    IN  /\ dramDirect
        /\ HasStackLock(c)
        /\ ~Valid(llc[g][b])
        /\ \E v \in LlcVictims(llc, g) :
              FillAndComplete(c, op, b, L1AfterEvict(L1, g, v), LlcAfterInsert(llc, g, b, line, v),
                  IF v # NoBlock /\ llc[g][v].st = "MODIFIED"
                  THEN [dram EXCEPT ![v] = WrittenBack(L1, llc, g, v, {}).cur] ELSE dram,
                  MissChecks(c))
        /\ UNCHANGED <<waiters, net, userSem, netSem, dir, dramDirect>>

Msg(type, cur) == [type |-> type, cur |-> cur]

Sent(chan, g, b, m) == [chan EXCEPT ![g][b] = Append(@, m)]

(* Mutant: every miss asks the directory, not the first one only.          *)
MissWaits_EachAsks(c) ==
    LET b == user[c].block
        op == user[c].op
        g == Master(c)
        st == llc[g][b].st
        L1 == OwnInvalidated(c)
        LLC == LlcAfterRequest(c, op, b, L1)
        upgrade == op # "READ" /\ st = "SHARED"
        request == CASE op = "READ" -> "SH_REQ"
                     [] upgrade -> "UPGRADE_REQ"
                     [] OTHER -> "EX_REQ"
    IN  /\ ~dramDirect
        /\ HasStackLock(c)
        /\ ~Serves(st, op)
        /\ l1' = L1AfterRequest(c, op, b, L1)
        /\ llc' = IF upgrade THEN [LLC EXCEPT ![g][b].st = "SHARED_UPGRADING"] ELSE LLC
        /\ waiters' = [waiters EXCEPT ![g][b] = Append(@, [core |-> c, exclusive |-> op # "READ"])]
        /\ up' = Sent(up, g, b, Msg(request, FALSE))
        /\ user' = [user EXCEPT ![c].pc = "wait"]
        /\ Checked(MissChecks(c) \cup {<<"exreq", request = "EX_REQ" => ~Valid(llc[g][b])>>})
        /\ UNCHANGED <<dram, lock, net, userSem, netSem, down, dir, dramDirect>>

(* The LLC cannot serve the miss: initiateDirectoryAccess queues it, and   *)
(* asks the directory if nobody waits for the block yet.  The lock is      *)
(* released and the thread waits for the network thread.                   *)
MissWaits(c) ==
    LET b == user[c].block
        op == user[c].op
        g == Master(c)
        st == llc[g][b].st
        L1 == OwnInvalidated(c)
        LLC == LlcAfterRequest(c, op, b, L1)
        first == waiters[g][b] = <<>>
        upgrade == first /\ op # "READ" /\ st = "SHARED"
        request == CASE op = "READ" -> "SH_REQ"
                     [] upgrade -> "UPGRADE_REQ"
                     [] OTHER -> "EX_REQ"
    IN  /\ ~dramDirect
        /\ HasStackLock(c)
        /\ ~Serves(st, op)
        /\ l1' = L1AfterRequest(c, op, b, L1)
        /\ llc' = IF upgrade THEN [LLC EXCEPT ![g][b].st = "SHARED_UPGRADING"] ELSE LLC
        /\ waiters' = [waiters EXCEPT ![g][b] = Append(@, [core |-> c, exclusive |-> op # "READ"])]
        /\ up' = IF first THEN Sent(up, g, b, Msg(request, FALSE)) ELSE up
        /\ user' = [user EXCEPT ![c].pc = "wait"]
        /\ Checked(MissChecks(c) \cup {<<"exreq", first /\ request = "EX_REQ" => ~Valid(llc[g][b])>>})
        /\ UNCHANGED <<dram, lock, net, userSem, netSem, down, dir, dramDirect>>

(* The network thread has woken this thread and passed it the set lock.    *)
Resume(c) ==
    LET b == user[c].block
        op == user[c].op
    IN  /\ Running
        /\ user[c].pc = "wait"
        /\ userSem[c] > 0
        /\ userSem' = [userSem EXCEPT ![c] = @ - 1]
        /\ netSem' = [netSem EXCEPT ![c] = @ + 1]
        /\ FillAndComplete(c, op, b, L1AfterRequest(c, op, b, l1), LlcAfterRequest(c, op, b, l1),
                           dram, RequestChecks(c))
        /\ UNCHANGED <<waiters, net, dir, dramDirect>>
-----------------------------------------------------------------------------
(* The network thread of an LLC.                                           *)

Received(g, b, type) ==
    /\ Running
    /\ net[g] = NoBlock
    /\ lock[g] = Free
    /\ down[g][b] # <<>>
    /\ Head(down[g][b]).type = type

(* Mutant: the lock is released before the waiter is woken.                *)
ServeWaiters_Releases(g, b, queue, LLC, UP) ==
    LET upgrade == queue # <<>> /\ Head(queue).exclusive /\ LLC[g][b].st = "SHARED"
        wake == queue # <<>> /\ ~upgrade
    IN  /\ waiters' = [waiters EXCEPT ![g][b] = queue]
        /\ llc' = IF upgrade THEN [LLC EXCEPT ![g][b].st = "SHARED_UPGRADING"] ELSE LLC
        /\ up' = IF upgrade THEN Sent(UP, g, b, Msg("UPGRADE_REQ", FALSE)) ELSE UP
        /\ lock' = [lock EXCEPT ![g] = Free]
        /\ net' = [net EXCEPT ![g] = IF wake THEN b ELSE NoBlock]
        /\ userSem' = IF wake THEN [userSem EXCEPT ![Head(queue).core] = @ + 1] ELSE userSem

(* Mutant: a writer is woken on a line that is only SHARED.                *)
ServeWaiters_NoUpgrade(g, b, queue, LLC, UP) ==
    LET wake == queue # <<>>
    IN  /\ waiters' = [waiters EXCEPT ![g][b] = queue]
        /\ llc' = LLC
        /\ up' = UP
        /\ lock' = [lock EXCEPT ![g] = IF wake THEN Held ELSE Free]
        /\ net' = [net EXCEPT ![g] = IF wake THEN b ELSE NoBlock]
        /\ userSem' = IF wake THEN [userSem EXCEPT ![Head(queue).core] = @ + 1] ELSE userSem

(* The loop over the waiters of b, from the point where queue is left: it  *)
(* ends when nobody waits, it starts an upgrade for a writer who finds the *)
(* line SHARED, or it wakes the first waiter and passes it the set lock.   *)
ServeWaiters(g, b, queue, LLC, UP) ==
    LET upgrade == queue # <<>> /\ Head(queue).exclusive /\ LLC[g][b].st = "SHARED"
        wake == queue # <<>> /\ ~upgrade
    IN  /\ waiters' = [waiters EXCEPT ![g][b] = queue]
        /\ llc' = IF upgrade THEN [LLC EXCEPT ![g][b].st = "SHARED_UPGRADING"] ELSE LLC
        /\ up' = IF upgrade THEN Sent(UP, g, b, Msg("UPGRADE_REQ", FALSE)) ELSE UP
        /\ lock' = [lock EXCEPT ![g] = IF wake THEN Held ELSE Free]
        /\ net' = [net EXCEPT ![g] = IF wake THEN b ELSE NoBlock]
        /\ userSem' = IF wake THEN [userSem EXCEPT ![Head(queue).core] = @ + 1] ELSE userSem

(* processExRepFromDramDirectory and processShRepFromDramDirectory.        *)
HandleDataRep(g, b, type) ==
    LET line == [st |-> IF type = "EX_REP" THEN "EXCLUSIVE" ELSE "SHARED",
                 cur |-> Head(down[g][b]).cur]
    IN  /\ Received(g, b, type)
        /\ down' = [down EXCEPT ![g][b] = Tail(@)]
        /\ \E v \in LlcVictims(llc, g) :
              LET old == llc[g][v].st
                  note == IF old = "MODIFIED"
                          THEN Msg("FLUSH_REP", WrittenBack(l1, llc, g, v, {}).cur)
                          ELSE Msg("INV_REP", FALSE)
              IN  /\ l1' = L1AfterEvict(l1, g, v)
                  /\ ServeWaiters(g, b, waiters[g][b], LlcAfterInsert(llc, g, b, line, v),
                                  IF v = NoBlock THEN up ELSE Sent(up, g, v, note))
                  /\ Checked({<<"insert", ~Valid(llc[g][b])>>,
                              <<"waiter", waiters[g][b] # <<>> >>,
                              <<"evict", v # NoBlock => old # "SHARED_UPGRADING">>})
        /\ UNCHANGED <<dram, user, netSem, dir, dramDirect>>

(* processUpgradeRepFromDramDirectory.  A line that was invalidated while  *)
(* the request was under way dies in updateCacheBlock: the data that comes *)
(* with the reply is passed as the buffer to fill.                         *)
HandleUpgradeRep(g, b) ==
    /\ Received(g, b, "UPGRADE_REP")
    /\ down' = [down EXCEPT ![g][b] = Tail(@)]
    /\ l1' = Snooped(l1, g, b, "MODIFIED", {})
    /\ ServeWaiters(g, b, waiters[g][b], [llc EXCEPT ![g][b].st = "MODIFIED"], up)
    /\ Checked({<<"out_buf", Valid(llc[g][b])>>,
                <<"upgrade", llc[g][b].st \in {"INVALID", "SHARED_UPGRADING"}>>,
                <<"waiter", waiters[g][b] # <<>> >>,
                WritebackAccepted(g, b)})
    /\ UNCHANGED <<dram, user, netSem, dir, dramDirect>>

(* Mutant: the thread goes on without waiting for the user thread.         *)
NetResumes_NoWait(g) ==
    LET b == net[g]
    IN  /\ Running
        /\ b # NoBlock
        /\ lock[g] = Free
        /\ ServeWaiters(g, b, Tail(waiters[g][b]), llc, up)
        /\ UNCHANGED <<l1, dram, user, netSem, down, dir, failed, dramDirect>>

(* Mutant: only the first waiter is served.                                *)
NetResumes_OneWaiter(g) ==
    LET b == net[g]
        c == Head(waiters[g][b]).core
    IN  /\ Running
        /\ b # NoBlock
        /\ netSem[c] > 0
        /\ lock[g] = Free
        /\ netSem' = [netSem EXCEPT ![c] = @ - 1]
        /\ waiters' = [waiters EXCEPT ![g][b] = Tail(@)]
        /\ net' = [net EXCEPT ![g] = NoBlock]
        /\ UNCHANGED <<l1, llc, dram, lock, user, userSem, up, down, dir, failed, dramDirect>>

(* The woken user thread has signalled back; the thread takes the lock     *)
(* again, drops the request it served and goes on with the next one.       *)
NetResumes(g) ==
    LET b == net[g]
        c == Head(waiters[g][b]).core
    IN  /\ Running
        /\ b # NoBlock
        /\ netSem[c] > 0
        /\ lock[g] = Free
        /\ netSem' = [netSem EXCEPT ![c] = @ - 1]
        /\ ServeWaiters(g, b, Tail(waiters[g][b]), llc, up)
        /\ UNCHANGED <<l1, dram, user, down, dir, failed, dramDirect>>

(* A request of the directory: the line is given up or written back, and   *)
(* the directory told so; if it is gone, its eviction is under way.        *)
HandleDirReq(g, b, type, new, reply, checks) ==
    LET old == llc[g][b]
        sharing == new = "SHARED" /\ old.st = "SHARED_UPGRADING"  \* an unset buffer is sent
    IN  /\ Received(g, b, type)
        /\ down' = [down EXCEPT ![g][b] = Tail(@)]
        /\ IF Valid(old) /\ ~sharing
           THEN LET line == WrittenBack(l1, llc, g, b, {})
                IN  /\ l1' = Snooped(l1, g, b, new, {})
                    /\ llc' = [llc EXCEPT ![g][b] = IF new = "INVALID" THEN Absent ELSE [line EXCEPT !.st = new]]
                    /\ up' = Sent(up, g, b, Msg(reply, line.cur /\ reply # "INV_REP"))
                    /\ Checked(checks \cup {WritebackAccepted(g, b)})
           ELSE /\ IF sharing THEN \E cur \in BOOLEAN : up' = Sent(up, g, b, Msg(reply, cur))
                              ELSE up' = up
                /\ UNCHANGED <<l1, llc, failed>>
        /\ UNCHANGED <<dram, lock, waiters, user, net, userSem, netSem, dir, dramDirect>>

HandleInvReq(g, b) ==   \* nobody takes the data of a MODIFIED line here
    HandleDirReq(g, b, "INV_REQ", "INVALID", "INV_REP", {<<"lost", llc[g][b].st # "MODIFIED">>})

HandleFlushReq(g, b) == HandleDirReq(g, b, "FLUSH_REQ", "INVALID", "FLUSH_REP", {})

HandleWbReq(g, b) == HandleDirReq(g, b, "WB_REQ", "SHARED", "WB_REP", {})
-----------------------------------------------------------------------------
(* The directory (not in this repository), one block at a time: requests   *)
(* queue up; the first one is answered when no LLC holds the line in a way *)
(* that conflicts with it, after the LLCs that do were told, once.         *)

DirReceive(g, b) ==
    LET m == Head(up[g][b])
        d == dir[b]
        gone == [d EXCEPT !.sharers = @ \ {g}, !.owned = @ /\ g \notin d.sharers]
    IN  /\ Running
        /\ up[g][b] # <<>>
        /\ up' = [up EXCEPT ![g][b] = Tail(@)]
        /\ dir' = [dir EXCEPT ![b] =
                      CASE m.type \in {"INV_REP", "FLUSH_REP"} -> gone
                        [] m.type = "WB_REP" -> [d EXCEPT !.owned = FALSE]
                        [] OTHER -> [d EXCEPT !.queue = Append(@, [type |-> m.type, from |-> g])]]
        /\ dram' = IF m.type \in {"FLUSH_REP", "WB_REP"} THEN [dram EXCEPT ![b] = m.cur] ELSE dram
        /\ UNCHANGED <<l1, llc, lock, waiters, user, net, userSem, netSem, down, failed, dramDirect>>

Conflicting(d) ==
    LET r == Head(d.queue)
    IN  CASE r.type = "SH_REQ" -> IF d.owned THEN d.sharers ELSE {}
          [] r.type = "EX_REQ" -> d.sharers
          [] r.type = "UPGRADE_REQ" -> IF d.owned THEN d.sharers ELSE d.sharers \ {r.from}

DirForward(b) ==
    LET d == dir[b]
        type == CASE ~d.owned -> "INV_REQ"
                  [] Head(d.queue).type = "SH_REQ" -> "WB_REQ"
                  [] OTHER -> "FLUSH_REQ"
    IN  /\ Running
        /\ d.queue # <<>> /\ ~d.sent /\ Conflicting(d) # {}
        /\ dir' = [dir EXCEPT ![b].sent = TRUE]
        /\ down' = [g \in Llc |-> IF g \in Conflicting(d)
                                  THEN [down[g] EXCEPT ![b] = Append(@, Msg(type, FALSE))]
                                  ELSE down[g]]
        /\ UNCHANGED <<l1, llc, dram, lock, waiters, user, net, userSem, netSem, up, failed, dramDirect>>

(* A first reader may get the line EXCLUSIVE.  A writer who lost its copy  *)
(* while its upgrade was under way gets the data with the answer.          *)
DirReply(b) ==
    LET d == dir[b]
        r == Head(d.queue)
        upgrade == r.type = "UPGRADE_REQ"
    IN  /\ Running
        /\ d.queue # <<>> /\ Conflicting(d) = {}
        /\ \E exclusive \in IF r.type # "SH_REQ" THEN {TRUE}
                             ELSE IF d.sharers = {} THEN BOOLEAN ELSE {FALSE} :
              /\ dir' = [dir EXCEPT ![b] =
                            [sharers |-> d.sharers \cup {r.from}, owned |-> exclusive,
                             queue |-> Tail(d.queue), sent |-> FALSE]]
              /\ down' = Sent(down, r.from, b,
                            Msg(CASE upgrade -> "UPGRADE_REP"
                                  [] exclusive /\ ~upgrade -> "EX_REP"
                                  [] ~exclusive -> "SH_REP",
                                dram[b] /\ ~(upgrade /\ r.from \in d.sharers)))
        /\ UNCHANGED <<l1, llc, dram, lock, waiters, user, net, userSem, netSem, up, failed, dramDirect>>
-----------------------------------------------------------------------------
UserStep(c) ==
    \/ \E op \in Op, b \in Block : Hit(c, op, b) \/ Miss(c, op, b)
    \/ MissHitsLlc(c) \/ MissGoesToDram(c) \/ MissWaits(c)
    \/ Resume(c)
    \/ Unlock(c)

HandleMsgFromDramDirectory(g, b) ==
    \/ \E type \in {"EX_REP", "SH_REP"} : HandleDataRep(g, b, type)
    \/ HandleUpgradeRep(g, b)
    \/ HandleInvReq(g, b) \/ HandleFlushReq(g, b) \/ HandleWbReq(g, b)

NetStep(g) == NetResumes(g) \/ \E b \in Block : HandleMsgFromDramDirectory(g, b)

DirStep(b) == DirForward(b) \/ DirReply(b) \/ \E g \in Llc : DirReceive(g, b)

Stopped == ~Running /\ UNCHANGED vars

Next ==
    \/ \E c \in Core : UserStep(c)
    \/ \E g \in Llc : NetStep(g)
    \/ \E b \in Block : DirStep(b)
    \/ Stopped

Spec == Init /\ [][Next]_vars

(* A thread that can go on does so, a message in a queue is received, and  *)
(* nobody waits for ever for a set lock that keeps becoming free.  A core  *)
(* need not ask for anything.                                              *)
Fairness ==
    /\ \A c \in Core :
         /\ SF_vars(MissHitsLlc(c) \/ MissGoesToDram(c) \/ MissWaits(c))
         /\ WF_vars(Resume(c))
         /\ WF_vars(Unlock(c))
    /\ \A g \in Llc : SF_vars(NetResumes(g))
    /\ \A g \in Llc, b \in Block : SF_vars(HandleMsgFromDramDirectory(g, b))
    /\ \A b \in Block : WF_vars(DirStep(b))

FairSpec == Spec /\ Fairness
-----------------------------------------------------------------------------
Message == [type : {"SH_REQ", "EX_REQ", "UPGRADE_REQ", "INV_REP", "FLUSH_REP", "WB_REP",
                    "SH_REP", "EX_REP", "UPGRADE_REP", "INV_REQ", "FLUSH_REQ", "WB_REQ"},
            cur : BOOLEAN]

(* Every variable has its type; the semaphores are binary.                 *)
TypeOK ==
    /\ l1 \in [Core -> [Block -> Line]]
    /\ llc \in [Llc -> [Block -> Line]]
    /\ dram \in [Block -> BOOLEAN]
    /\ lock \in [Llc -> [excl : BOOLEAN, readers : SUBSET Core]]
    /\ waiters \in [Llc -> [Block -> Seq([core : Core, exclusive : BOOLEAN])]]
    /\ user \in [Core -> [pc : {"idle", "miss", "wait", "locked"}, op : Op, block : Block \cup {NoBlock}]]
    /\ net \in [Llc -> Block \cup {NoBlock}]
    /\ userSem \in [Core -> 0..1]
    /\ netSem \in [Core -> 0..1]
    /\ up \in [Llc -> [Block -> Seq(Message)]]
    /\ down \in [Llc -> [Block -> Seq(Message)]]
    /\ dir \in [Block -> [sharers : SUBSET Llc, owned : BOOLEAN, sent : BOOLEAN,
                          queue : Seq([type : {"SH_REQ", "EX_REQ", "UPGRADE_REQ"}, from : Llc])]]
    /\ dramDirect \in BOOLEAN
    /\ failed \subseteq {"invalidate", "writeback", "insert", "gone", "unlock", "exreq",
                         "waiter", "evict", "out_buf", "upgrade", "lost"}

(* "All caches are inclusive": a line in a first-level cache is in the LLC *)
(* below it, and a writable one is writable there.                         *)
Inclusion ==
    Running =>
    \A c \in Core, b \in Block :
        /\ Valid(l1[c][b]) => Valid(llc[Master(c)][b])
        /\ l1[c][b].st = "MODIFIED" => llc[Master(c)][b].st = "MODIFIED"

(* The data of the last write to a block is never dropped: the DRAM has    *)
(* it, or a MODIFIED line, or a message to the directory that carries it.  *)
NoWriteLost ==
    Running =>
    \A b \in Block :
        \/ dram[b]
        \/ \E c \in Core : l1[c][b] = [st |-> "MODIFIED", cur |-> TRUE]
        \/ \E g \in Llc : llc[g][b] = [st |-> "MODIFIED", cur |-> TRUE]
        \/ \E g \in Llc : \E i \in DOMAIN up[g][b] : up[g][b][i].cur

(* A core never reads outdated data in its first-level cache.              *)
ReadsCurrent ==
    Running => \A c \in Core, b \in Block : l1[c][b].st \in Readable => l1[c][b].cur

(* A first-level copy in EXCLUSIVE or MODIFIED state is the only one.      *)
SingleOwner ==
    Running =>
    \A c, d \in Core, b \in Block :
        c # d /\ l1[c][b].st \in {"EXCLUSIVE", "MODIFIED"} => ~Valid(l1[d][b])

(* When several cores share an LLC, at most one of their caches can write  *)
(* a block outside the hand-over of an upgraded line to its requester.     *)
SingleDirty ==
    Running =>
    \A c, d \in Core, b \in Block :
        l1[c][b].st = "MODIFIED" /\ l1[d][b].st = "MODIFIED" => c = d \/ lock[Master(c)].excl

(* The set lock has one owner through the hand-over from the network       *)
(* thread to the user thread it wakes: a signalled user thread owns the    *)
(* lock and is the first waiter of the block that is served; the lock is   *)
(* held only by a signalled thread or by the cores inside an atomic pair.  *)
HandoffOwned ==
    Running =>
    /\ \A c \in Core :
         LET g == Master(c)
             b == user[c].block
         IN  /\ userSem[c] > 0 => /\ user[c].pc = "wait" /\ lock[g] = Held
                                  /\ net[g] = b /\ Head(waiters[g][b]).core = c
             /\ user[c].pc = "wait" => \E i \in DOMAIN waiters[g][b] : waiters[g][b][i].core = c
    /\ \A g \in Llc :
         /\ lock[g].excl => \E c \in L1sOf(g) : userSem[c] > 0
         /\ lock[g].readers = {c \in L1sOf(g) : user[c].pc = "locked"}

(* A line that the network thread brought in for a waiter is still there,  *)
(* and usable for the waiter's operation, when the waiter gets to it       *)
(* ("what if it's already gone?"), and an atomic pair keeps its line.      *)
DataStillThere == failed \cap {"gone", "unlock"} = {}

(* Dirty data always finds a taker: no MODIFIED line is invalidated, and   *)
(* no write-back reaches an LLC line that is not MODIFIED.                 *)
DirtyDataTaken == failed \cap {"invalidate", "writeback", "lost"} = {}

(* Requests and replies match the state of the LLC line: a line that is    *)
(* filled is not there yet, a reply finds its request queued, a line asked *)
(* for exclusively is not held, and an upgrade finds a line to upgrade.    *)
RepliesMatch == failed \cap {"insert", "waiter", "exreq", "upgrade"} = {}

(* An LLC that has the DRAM controller never fails an assertion: it never  *)
(* waits for an upgrade, so no fill can evict a line that does.            *)
DirectNeverFails == dramDirect => failed = {}

(* An upgrade reply for a line that was lost meanwhile is handled: "I lost *)
(* my copy because a concurrent UPGRADE REQ had INVed it, ... the data     *)
(* should be in the message".                                              *)
LostUpgradeHandled == "out_buf" \notin failed

(* Every operation a core starts is completed: no miss waits for ever for  *)
(* the set lock, for the directory or for the network thread.              *)
EveryAccessCompletes ==
    \A c \in Core : user[c] # Idle ~> user[c] = Idle \/ ~Running
=============================================================================
