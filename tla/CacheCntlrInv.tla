---------------------------- MODULE CacheCntlrInv ---------------------------
(***************************************************************************)
(* The inductive invariant of CacheCntlr, in four layers:                  *)
(*   HandoverInv   the set lock, the semaphores and the queues of waiters, *)
(*   HierarchyInv  the first-level lines against the LLC line below them,  *)
(*   LinkInv       an LLC line, the messages between the LLC and the       *)
(*                 directory, and what the directory believes,             *)
(*   DataInv       where the data of the last write to a block is.         *)
(* All but the types speak of a program that has not stopped.              *)
(***************************************************************************)
EXTENDS CacheCntlr

REQ  == {"SH_REQ", "EX_REQ", "UPGRADE_REQ"}     \* LLC to directory
GONE == {"INV_REP", "FLUSH_REP"}                \* the LLC has no copy any more
REP  == {"SH_REP", "EX_REP", "UPGRADE_REP"}     \* directory to LLC
FWD  == {"INV_REQ", "FLUSH_REQ", "WB_REQ"}
UpTypes == REQ \cup GONE \cup {"WB_REP"}
DownTypes == REP \cup FWD

(* Message queues: s holds a message of a type in T; at most one; those of *)
(* T1 come before those of T2; one of T comes after every reply.           *)
Has(s, T) == \E i \in DOMAIN s : s[i].type \in T
AtMostOne(s, T) == \A i, j \in DOMAIN s : s[i].type \in T /\ s[j].type \in T => i = j
Before(s, T1, T2) == \A i, j \in DOMAIN s : s[i].type \in T1 /\ s[j].type \in T2 => i < j
Unanswered(s, i) == s[i].type \in FWD /\ \A j \in DOMAIN s : j > i => s[j].type \notin REP
Fresh(s, T) == \E i \in DOMAIN s : s[i].type \in T /\ Unanswered(s, i)
FreshOnce(s) == \A i, j \in DOMAIN s : Unanswered(s, i) /\ Unanswered(s, j) => i = j

Queued(q, g, T) == \E i \in DOMAIN q : q[i].from = g /\ q[i].type \in T
QueuedOnce(q, g) == \A i, j \in DOMAIN q : q[i].from = g /\ q[j].from = g => i = j
-----------------------------------------------------------------------------
(* Which messages go up to the directory, and which come down.             *)
ChannelInv ==
    \A g \in Llc, b \in Block :
        /\ \A i \in DOMAIN up[g][b] : up[g][b][i].type \in UpTypes
        /\ \A i \in DOMAIN down[g][b] : down[g][b][i].type \in DownTypes

(* The entry of the queue that was served and not yet dropped.             *)
Served(g, b, i) == i = 1 /\ net[g] = b /\ ~lock[g].excl

(* The waiter that the network thread of g serves.                         *)
Turn(g) == waiters[g][net[g]][1].core

(* The set lock is held by the atomic pairs of some cores, or exclusively  *)
(* by the user thread that the network thread has woken.                   *)
LockInv ==
    \A g \in Llc :
        /\ lock[g].readers = {c \in L1sOf(g) : user[c].pc = "locked"}
        /\ lock[g].excl => lock[g].readers = {} /\ net[g] # NoBlock
        /\ net[g] # NoBlock =>
             /\ 1 \in DOMAIN waiters[g][net[g]]
             /\ IF lock[g].excl THEN userSem[Turn(g)] = 1 ELSE netSem[Turn(g)] = 1

(* A semaphore is up for the waiter that is served only.                   *)
SemInv ==
    \A c \in Core :
        LET g == Master(c)
            Mine == net[g] # NoBlock /\ Turn(g) = c
        IN  /\ userSem[c] \in {0, 1}
            /\ netSem[c] \in {0, 1}
            /\ userSem[c] = 1 => Mine /\ lock[g].excl
            /\ netSem[c] = 1 => Mine /\ ~lock[g].excl

(* The queues hold the waiting cores, once each.                           *)
WaiterInv ==
    \A g \in Llc, b \in Block :
        /\ \A i \in DOMAIN waiters[g][b] :
             LET w == waiters[g][b][i]
             IN  /\ w.core \in L1sOf(g)
                 /\ ~Served(g, b, i) =>
                      /\ user[w.core].pc = "wait"
                      /\ user[w.core].block = b
                      /\ w.exclusive <=> user[w.core].op # "READ"
        /\ \A i, j \in DOMAIN waiters[g][b] :
             ~Served(g, b, i) /\ ~Served(g, b, j)
             /\ waiters[g][b][i].core = waiters[g][b][j].core => i = j

UserInv ==
    \A c \in Core :
        /\ user[c].pc # "idle" => user[c].block \in Block
        /\ user[c].pc = "idle" => user[c] = Idle
        /\ user[c].pc = "locked" => user[c].op = "READ_EX"
        /\ user[c].pc = "wait" =>
             \E i \in DOMAIN waiters[Master(c)][user[c].block] :
                 /\ waiters[Master(c)][user[c].block][i].core = c
                 /\ ~Served(Master(c), user[c].block, i)

HandoverInv == LockInv /\ SemInv /\ WaiterInv /\ UserInv
-----------------------------------------------------------------------------
(* The user thread of an exclusive request has been woken for b and has    *)
(* not run yet.                                                            *)
Handed(g, b) == lock[g].excl /\ net[g] = b /\ Head(waiters[g][b]).exclusive

OwnerState == {"EXCLUSIVE", "MODIFIED"}

InclusionInv ==
    \A c \in Core, b \in Block :
        /\ Valid(l1[c][b]) => Valid(llc[Master(c)][b])
        /\ l1[c][b].st = "MODIFIED" => llc[Master(c)][b].st = "MODIFIED"
        /\ l1[c][b].st = "EXCLUSIVE" => llc[Master(c)][b].st \in OwnerState

(* Two first-level caches have a MODIFIED line, or one has it whose core   *)
(* is about to give it up, only until the new owner runs.                  *)
DirtyInv ==
    \A c \in Core, b \in Block :
        l1[c][b].st = "MODIFIED" =>
            /\ user[c].pc = "miss" /\ user[c].block = b => Handed(Master(c), b)
            /\ \A d \in L1sOf(Master(c)) :
                 l1[d][b].st = "MODIFIED" => d = c \/ Handed(Master(c), b)

ThreadLineInv ==
    \A c \in Core :
        /\ user[c].pc = "wait" => ~Valid(l1[c][user[c].block])
        /\ user[c].pc = "locked" => l1[c][user[c].block].st = "MODIFIED"

ServedLineInv ==
    \A g \in Llc, b \in Block :
        /\ net[g] = b => llc[g][b].st \in Readable
        /\ Handed(g, b) => llc[g][b].st \in OwnerState

HierarchyInv == InclusionInv /\ DirtyInv /\ ThreadLineInv /\ ServedLineInv
-----------------------------------------------------------------------------
(* The link between an LLC g and the directory entry d of a block: st is   *)
(* the state of the LLC line, U and D are the messages up and down.        *)
Asked(g, U, D, d) == Has(U, REQ) \/ Queued(d.queue, g, REQ) \/ Has(D, REP)

Upgrading(g, U, D, d) ==
    \/ Has(U, {"UPGRADE_REQ"})
    \/ Queued(d.queue, g, {"UPGRADE_REQ"})
    \/ Has(D, {"UPGRADE_REP"})

(* The directory has asked the LLCs that stand in the way of the first     *)
(* request, and g has not answered.                                        *)
Blocks(g, d) == d.sent /\ d.queue # <<>> /\ g \in Conflicting(d)

ForwardType(d) ==
    CASE ~d.owned -> "INV_REQ"
      [] d.owned /\ Head(d.queue).type = "SH_REQ" -> "WB_REQ"
      [] d.owned /\ Head(d.queue).type # "SH_REQ" -> "FLUSH_REQ"

(* One request at a time, which is on its way up, or queued, or answered.  *)
RequestOnce(g, U, D, d) ==
    /\ AtMostOne(U, REQ) /\ AtMostOne(D, REP) /\ QueuedOnce(d.queue, g)
    /\ ~(Has(U, REQ) /\ Queued(d.queue, g, REQ))
    /\ ~(Has(U, REQ) /\ Has(D, REP))
    /\ ~(Queued(d.queue, g, REQ) /\ Has(D, REP))

RequestState(g, st, U, D, d) ==
    /\ Asked(g, U, D, d) => st \in {"INVALID", "SHARED_UPGRADING"}
    /\ st = "SHARED_UPGRADING" => Upgrading(g, U, D, d)

(* What the directory believes of g.                                       *)
Believed(g, st, U, D, d) ==
    /\ g \in d.sharers <=> st # "INVALID" \/ Has(D, REP) \/ Has(U, GONE)
    /\ st \in OwnerState \/ Has(D, {"EX_REP", "UPGRADE_REP"})
          \/ Has(U, {"WB_REP", "FLUSH_REP"}) => d.owned /\ g \in d.sharers
    /\ d.owned /\ g \in d.sharers =>
          \/ st \in OwnerState
          \/ Has(D, {"EX_REP", "UPGRADE_REP"})
          \/ Has(U, GONE \cup {"WB_REP"})

(* A copy is given up once, after it was written back, and before the next *)
(* request; only an upgrade may have been asked for before.                *)
GoneOrder(g, st, U, D, d) ==
    /\ AtMostOne(U, GONE) /\ AtMostOne(U, {"WB_REP"}) /\ Before(U, {"WB_REP"}, GONE)
    /\ ~(Has(U, {"WB_REP"}) /\ Has(U, {"FLUSH_REP"}))
    /\ Before(U, GONE, {"SH_REQ", "EX_REQ"})
    /\ Has(U, GONE) => /\ st = "INVALID" /\ ~Has(D, REP)
                       /\ ~Queued(d.queue, g, {"SH_REQ", "EX_REQ"})
                       /\ Upgrading(g, U, D, d) => Blocks(g, d) /\ ~Has(U, {"WB_REP"})

WrittenBackOrder(g, st, U, D, d) ==
    Has(U, {"WB_REP"}) => /\ st \notin OwnerState /\ ~Has(D, REP)
                          /\ Blocks(g, d) /\ Head(d.queue).type = "SH_REQ"

(* The request of the directory that a sharer has not seen is the one that *)
(* the directory waits for.                                                *)
ForwardOrder(g, st, U, D, d) ==
    /\ FreshOnce(D)
    /\ st # "INVALID" => Before(D, REP, FWD)
    /\ Fresh(D, FWD) /\ g \in d.sharers =>
          /\ Blocks(g, d) /\ ~Has(U, {"WB_REP"})
          /\ \A t \in FWD : Fresh(D, {t}) => t = ForwardType(d)

LinkInv(g, st, U, D, d) ==
    /\ RequestOnce(g, U, D, d)
    /\ RequestState(g, st, U, D, d)
    /\ Believed(g, st, U, D, d)
    /\ GoneOrder(g, st, U, D, d)
    /\ WrittenBackOrder(g, st, U, D, d)
    /\ ForwardOrder(g, st, U, D, d)

OwnerAlone(d) == d.owned => d.sharers # {} /\ \A g, h \in d.sharers : g = h

(* Who waits for the answer to a request.                                  *)
WaitsInv(g, b) ==
    /\ Asked(g, up[g][b], down[g][b], dir[b]) => waiters[g][b] # <<>> /\ net[g] # b
    /\ Upgrading(g, up[g][b], down[g][b], dir[b]) => Head(waiters[g][b]).exclusive

DirectoryInv ==
    \A b \in Block :
        /\ OwnerAlone(dir[b])
        /\ \A g \in Llc :
             /\ LinkInv(g, llc[g][b].st, up[g][b], down[g][b], dir[b])
             /\ WaitsInv(g, b)

(* With a DRAM controller there are no messages and nobody waits.          *)
DirectInv ==
    /\ \A g \in Llc : net[g] = NoBlock
    /\ \A g \in Llc, b \in Block :
         /\ up[g][b] = <<>> /\ down[g][b] = <<>> /\ waiters[g][b] = <<>>
         /\ llc[g][b].st \in {"INVALID", "SHARED", "MODIFIED"}
    /\ \A b \in Block : dir[b].queue = <<>>

ProtocolInv == IF dramDirect THEN DirectInv ELSE DirectoryInv
-----------------------------------------------------------------------------
(* Data in flight is current.                                              *)
MessageData(g, b) ==
    /\ \A i \in DOMAIN up[g][b] : up[g][b][i].type \in {"WB_REP", "FLUSH_REP"} => up[g][b][i].cur
    /\ \A i \in DOMAIN down[g][b] : down[g][b][i].type \in {"SH_REP", "EX_REP"} => down[g][b][i].cur

(* The DRAM is outdated only below a MODIFIED line or its data in flight.  *)
DramData(b) ==
    /\ \/ dram[b]
       \/ \E g \in Llc : llc[g][b].st = "MODIFIED" \/ Has(up[g][b], {"WB_REP", "FLUSH_REP"})
    /\ \A g \in Llc : llc[g][b].st = "EXCLUSIVE" \/ Has(down[g][b], {"EX_REP"}) => dram[b]

(* An LLC line is outdated only below a MODIFIED first-level line.         *)
LineData(g, b) ==
    /\ Valid(llc[g][b]) => \/ llc[g][b].cur
                           \/ \E c \in L1sOf(g) : l1[c][b].st = "MODIFIED"
    /\ \A c \in L1sOf(g) : l1[c][b].st = "MODIFIED" => l1[c][b].cur
    /\ llc[g][b].st = "SHARED_UPGRADING" \/ (net[g] = b /\ llc[g][b].st = "SHARED") =>
          \A c \in L1sOf(g) : Valid(l1[c][b]) => l1[c][b].cur

PrivateData == SharedCores = 1 => \A c \in Core, b \in Block : Valid(l1[c][b]) => l1[c][b].cur

DataInv ==
    /\ \A b \in Block : DramData(b)
    /\ \A g \in Llc, b \in Block : MessageData(g, b) /\ LineData(g, b)
    /\ PrivateData

CoreInv == ChannelInv /\ HandoverInv /\ HierarchyInv /\ ProtocolInv /\ DataInv

(* The only assertions that can fail, and never with a DRAM controller.    *)
FailureInv == failed \subseteq {"evict", "out_buf"} /\ (dramDirect => failed = {})

IInv == TypeOK /\ FailureInv /\ (Running => CoreInv)
=============================================================================
