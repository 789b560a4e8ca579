-------------------------- MODULE HierarchyProofs ---------------------------
(***************************************************************************)
(* The first-level lines against the LLC line below them: the third layer  *)
(* of the inductive invariant of CacheCntlrInv, on top of the link with    *)
(* the directory (DirectoryProofs), and the assertions of the code that it *)
(* shows never to fail.  The last part of the module proves the fourth     *)
(* layer, where the data of the last write to a block is, and from it that *)
(* no write is lost and no core with a private LLC reads outdated data.    *)
(***************************************************************************)
EXTENDS DirectoryProofs

(* A first-level line in state s above an LLC line in state t.             *)
Within(s, t) ==
    /\ s # "INVALID" => t # "INVALID"
    /\ s = "MODIFIED" => t = "MODIFIED"
    /\ s = "EXCLUSIVE" => t \in OwnerState

(* The user thread that was woken for b owns the lock k, is the first of   *)
(* the queue q and wants to write; n is the block that is served.          *)
HandedTo(b, k, q, n) == k.excl /\ n = b /\ Head(q).exclusive

(* The lines of b in the caches of g: L are the first-level caches, t is   *)
(* the state of the LLC line, u are the user threads.                      *)
LineOk(g, b, L, t, u, k, q, n) ==
    /\ \A c \in L1sOf(g) : Within(L[c][b].st, t)
    /\ ~HandedTo(b, k, q, n) =>
         \A c \in L1sOf(g) :
             L[c][b].st = "MODIFIED" =>
                 /\ ~(u[c].pc = "miss" /\ u[c].block = b)
                 /\ \A d \in L1sOf(g) : L[d][b].st = "MODIFIED" => d = c
    /\ \A c \in L1sOf(g) :
         u[c].block = b => /\ u[c].pc = "wait" => L[c][b].st = "INVALID"
                           /\ u[c].pc = "locked" => L[c][b].st = "MODIFIED"
    /\ n = b => t \in Readable
    /\ HandedTo(b, k, q, n) => t \in OwnerState

LEMMA HierarchyParts ==
    ASSUME HandoverInv
    PROVE  HierarchyInv <=>
               \A g \in Llc, b \in Block :
                   LineOk(g, b, l1, llc[g][b].st, user, lock[g], waiters[g][b], net[g])
<1>1. \A g \in Llc, b \in Block : Handed(g, b) <=> HandedTo(b, lock[g], waiters[g][b], net[g])
  BY DEF Handed, HandedTo
<1>2. ASSUME HierarchyInv, NEW g \in Llc, NEW b \in Block
      PROVE  LineOk(g, b, l1, llc[g][b].st, user, lock[g], waiters[g][b], net[g])
  BY <1>1, <1>2, MasterFacts
     DEF HierarchyInv, InclusionInv, DirtyInv, ThreadLineInv, ServedLineInv, LineOk, Within, Valid
<1>3. ASSUME \A g \in Llc, b \in Block :
                 LineOk(g, b, l1, llc[g][b].st, user, lock[g], waiters[g][b], net[g])
      PROVE  HierarchyInv
  <2>1. InclusionInv
    BY <1>3, MasterFacts DEF InclusionInv, LineOk, Within, Valid
  <2>2. DirtyInv
    BY <1>1, <1>3, MasterFacts DEF DirtyInv, LineOk
  <2>3. ThreadLineInv
    <3>1. \A c \in Core : user[c].pc # "idle" => user[c].block \in Block
      BY DEF HandoverInv, UserInv
    <3>2. QED
      BY <1>3, <3>1, MasterFacts DEF ThreadLineInv, LineOk, Valid
  <2>4. ServedLineInv
    BY <1>1, <1>3 DEF ServedLineInv, LineOk
  <2>5. QED
    BY <2>1, <2>2, <2>3, <2>4 DEF HierarchyInv
<1>4. QED
  BY <1>2, <1>3

LineNext(g, b) == LineOk(g, b, l1', llc'[g][b].st, user', lock'[g], waiters'[g][b], net'[g])

LEMMA HierarchyPartsNext ==
    ASSUME HandoverInv', \A g \in Llc, b \in Block : LineNext(g, b)
    PROVE  HierarchyInv'
<1>1. \A g \in Llc, b \in Block : Handed(g, b)' <=> HandedTo(b, lock'[g], waiters'[g][b], net'[g])
  BY DEF Handed, HandedTo
<1>2. \A g \in Llc, b \in Block :
          LineOk(g, b, l1', llc'[g][b].st, user', lock'[g], waiters'[g][b], net'[g])
  BY DEF LineNext
<1>3. InclusionInv'
  BY <1>2, MasterFacts DEF InclusionInv, LineOk, Within, Valid
<1>4. DirtyInv'
  BY <1>1, <1>2, MasterFacts DEF DirtyInv, LineOk
<1>5. ThreadLineInv'
  <2>1. \A c \in Core : user'[c].pc # "idle" => user'[c].block \in Block
    BY DEF HandoverInv, UserInv
  <2>2. QED
    BY <1>2, <2>1, MasterFacts DEF ThreadLineInv, LineOk, Valid
<1>6. ServedLineInv'
  BY <1>1, <1>2 DEF ServedLineInv, LineOk
<1>7. QED
  BY <1>3, <1>4, <1>5, <1>6 DEF HierarchyInv

(* Lines that stay, or go, of a block that no other thread turns to.       *)
LEMMA LineKept ==
    ASSUME NEW g, NEW b, NEW L, NEW t, NEW u, NEW k, NEW q, NEW n,
           LineOk(g, b, L, t, u, k, q, n),
           NEW L2, NEW t2, NEW u2, NEW k2, NEW q2, NEW n2,
           \A c \in L1sOf(g) : L2[c][b].st = L[c][b].st \/ L2[c][b].st = "INVALID",
           t2 = t \/ (t2 = "INVALID" /\ n2 # b /\ \A c \in L1sOf(g) : L2[c][b].st = "INVALID"),
           \A c \in L1sOf(g) : u2[c].block = b /\ u2[c].pc \in {"miss", "wait", "locked"} =>
               /\ u2[c].pc = u[c].pc /\ u[c].block = b
               /\ u2[c].pc = "locked" => L2[c][b].st = L[c][b].st,
           HandedTo(b, k2, q2, n2) <=> HandedTo(b, k, q, n),
           n2 = b => n = b
    PROVE  LineOk(g, b, L2, t2, u2, k2, q2, n2)
<1>1. \A c \in L1sOf(g) : Within(L2[c][b].st, t2)
  BY DEF LineOk, Within
<1>2. ASSUME ~HandedTo(b, k2, q2, n2), NEW c \in L1sOf(g), L2[c][b].st = "MODIFIED"
      PROVE  /\ ~(u2[c].pc = "miss" /\ u2[c].block = b)
             /\ \A d \in L1sOf(g) : L2[d][b].st = "MODIFIED" => d = c
  BY <1>2 DEF LineOk
<1>3. \A c \in L1sOf(g) :
         u2[c].block = b => /\ u2[c].pc = "wait" => L2[c][b].st = "INVALID"
                            /\ u2[c].pc = "locked" => L2[c][b].st = "MODIFIED"
  BY DEF LineOk
<1>4. (n2 = b => t2 \in Readable) /\ (HandedTo(b, k2, q2, n2) => t2 \in OwnerState)
  BY DEF LineOk, HandedTo
<1>5. QED
  BY <1>1, <1>2, <1>3, <1>4 DEF LineOk

(* The line of a core that has just accessed it.                           *)
LEMMA LineFilled ==
    ASSUME NEW g, NEW b, NEW L, NEW t, NEW u, NEW k, NEW q, NEW n,
           NEW c \in L1sOf(g), L[c][b].st = t, t \in Readable, ~k.excl,
           u[c].pc = "idle" \/ (u[c].pc = "locked" /\ t = "MODIFIED"),
           \A d \in L1sOf(g) : d # c =>
               /\ L[d][b].st \notin OwnerState /\ u[d].pc # "locked"
               /\ u[d].pc = "wait" /\ u[d].block = b => L[d][b].st = "INVALID"
    PROVE  LineOk(g, b, L, t, u, k, q, n)
<1>1. ~HandedTo(b, k, q, n)
  BY DEF HandedTo
<1>2. \A d \in L1sOf(g) : Within(L[d][b].st, t)
  BY DEF Within, OwnerState, Readable
<1>3. \A d \in L1sOf(g) : L[d][b].st = "MODIFIED" => d = c
  BY DEF OwnerState
<1>4. QED
  BY <1>1, <1>2, <1>3 DEF LineOk

(* The lines of another set or block across a step.                        *)
LineSame(h, x) ==
    /\ \A c \in L1sOf(h) : l1'[c][x].st = l1[c][x].st \/ l1'[c][x].st = "INVALID"
    /\ \/ llc'[h][x].st = llc[h][x].st
       \/ llc'[h][x].st = "INVALID" /\ net'[h] # x /\ \A c \in L1sOf(h) : l1'[c][x].st = "INVALID"
    /\ \A c \in L1sOf(h) : user'[c].block = x /\ user'[c].pc \in {"miss", "wait", "locked"} =>
         /\ user'[c].pc = user[c].pc /\ user[c].block = x
         /\ user'[c].pc = "locked" => l1'[c][x].st = l1[c][x].st
    /\ HandedTo(x, lock'[h], waiters'[h][x], net'[h]) <=> HandedTo(x, lock[h], waiters[h][x], net[h])
    /\ net'[h] = x => net[h] = x

LEMMA LinesKeep ==
    ASSUME HandoverInv, HandoverInv', HierarchyInv, NEW g, NEW b, LineNext(g, b),
           \A h \in Llc, x \in Block : h # g \/ x # b => LineSame(h, x)
    PROVE  HierarchyInv'
<1>1. ASSUME NEW h \in Llc, NEW x \in Block
      PROVE  LineNext(h, x)
  <2>1. CASE h = g /\ x = b
    BY <2>1
  <2>2. CASE h # g \/ x # b
    <3>1. LineOk(h, x, l1, llc[h][x].st, user, lock[h], waiters[h][x], net[h])
      BY HierarchyParts
    <3>2. LineSame(h, x)
      BY <2>2
    <3>3. LineOk(h, x, l1', llc'[h][x].st, user', lock'[h], waiters'[h][x], net'[h])
      BY <3>1, <3>2, LineKept DEF LineSame
    <3>4. QED
      BY <3>3 DEF LineNext
  <2>3. QED
    BY <2>1, <2>2
<1>2. QED
  BY <1>1, HierarchyPartsNext
-----------------------------------------------------------------------------
(* The steps of a user thread.                                             *)

(* A state that changes no line and none of the threads but c's, who is    *)
(* idle afterwards, or locks or misses in b.                               *)
LEMMA UserLines ==
    ASSUME HandoverInv, HandoverInv', HierarchyInv, NEW c \in Core, NEW b,
           \A d \in Core, x \in Block : l1'[d][x].st = l1[d][x].st,
           \A h \in Llc, x \in Block : llc'[h][x].st = llc[h][x].st,
           \A d \in Core : d # c => user'[d] = user[d],
           \/ user'[c].pc = "idle"
           \/ user'[c].pc = "locked" /\ user'[c].block = b /\ l1[c][b].st = "MODIFIED"
           \/ user'[c].pc = "miss" /\ user'[c].block = b /\ l1[c][b].st # "MODIFIED",
           \A h \in Llc : lock'[h].excl <=> lock[h].excl,
           UNCHANGED <<waiters, net>>
    PROVE  HierarchyInv'
<1>1. ASSUME NEW h \in Llc, NEW x \in Block
      PROVE  LineNext(h, x)
  <2>1. LineOk(h, x, l1, llc[h][x].st, user, lock[h], waiters[h][x], net[h])
    BY HierarchyParts
  <2>2. HandedTo(x, lock'[h], waiters'[h][x], net'[h]) <=> HandedTo(x, lock[h], waiters[h][x], net[h])
    BY DEF HandedTo
  <2>3. \A d \in L1sOf(h) : l1'[d][x].st = l1[d][x].st /\ d \in Core
    BY MasterFacts
  <2>4. \A d \in L1sOf(h) : Within(l1'[d][x].st, llc'[h][x].st)
    BY <2>1, <2>3 DEF LineOk
  <2>5. ASSUME ~HandedTo(x, lock'[h], waiters'[h][x], net'[h]), NEW d \in L1sOf(h), l1'[d][x].st = "MODIFIED"
        PROVE  /\ ~(user'[d].pc = "miss" /\ user'[d].block = x)
               /\ \A e \in L1sOf(h) : l1'[e][x].st = "MODIFIED" => e = d
    <3>1. /\ ~(user[d].pc = "miss" /\ user[d].block = x)
          /\ \A e \in L1sOf(h) : l1[e][x].st = "MODIFIED" => e = d
      BY <2>1, <2>2, <2>3, <2>5 DEF LineOk
    <3>2. d = c => ~(user'[d].pc = "miss" /\ user'[d].block = x)
      BY <2>3, <2>5
    <3>3. QED
      BY <2>3, <3>1, <3>2
  <2>6. ASSUME NEW d \in L1sOf(h), user'[d].block = x
        PROVE  /\ user'[d].pc = "wait" => l1'[d][x].st = "INVALID"
               /\ user'[d].pc = "locked" => l1'[d][x].st = "MODIFIED"
    <3>1. CASE d = c
      BY <2>3, <2>6, <3>1
    <3>2. CASE d # c
      BY <2>1, <2>3, <2>6, <3>2 DEF LineOk
    <3>3. QED
      BY <3>1, <3>2
  <2>7. /\ net'[h] = x => llc'[h][x].st \in Readable
        /\ HandedTo(x, lock'[h], waiters'[h][x], net'[h]) => llc'[h][x].st \in OwnerState
    BY <2>1, <2>2 DEF LineOk
  <2>8. LineOk(h, x, l1', llc'[h][x].st, user', lock'[h], waiters'[h][x], net'[h])
    BY <2>4, <2>5, <2>6, <2>7 DEF LineOk
  <2>9. QED
    BY <2>8 DEF LineNext
<1>2. QED
  BY <1>1, HierarchyPartsNext

LEMMA HitLines ==
    ASSUME TypeOK, HandoverInv, HandoverInv', HierarchyInv, NEW c \in Core, NEW op \in Op, NEW b \in Block,
           Hit(c, op, b)
    PROVE  HierarchyInv'
<1>1. CacheType /\ HandoverType /\ l1 \in L1Type /\ llc \in LlcType /\ dram \in [Block -> BOOLEAN]
  BY TypeParts DEF CacheType
<1>2. Accessed(c, op, b, l1, llc, dram) /\ UNCHANGED <<waiters, net>>
  BY <1>1, AccessFacts DEF Hit, Complete
<1>3. PICK g \in Llc : g = Master(c)
  BY MasterFacts
<1>4. PICK k : k = IF op = "READ_EX" THEN [pc |-> "locked", op |-> op, block |-> b] ELSE Idle
  OBVIOUS
<1>5. /\ op = "READ_EX" => k.pc = "locked" /\ k.block = b
      /\ op # "READ_EX" => k.pc = "idle"
  BY <1>4 DEF Idle
<1>6. user' = [user EXCEPT ![c] = k]
  BY <1>4 DEF Hit, Complete
<1>7. user'[c] = k /\ \A d \in Core : d # c => user'[d] = user[d]
  BY <1>1, <1>6 DEF HandoverType
<1>8. op = "READ_EX" => l1[c][b].st = "MODIFIED"
  BY DEF Hit, operationPermissibleinCache
<1>9. PICK R : lock' = [lock EXCEPT ![g] = [excl |-> FALSE, readers |-> R]]
  BY <1>3 DEF Hit, Complete
<1>10. ~lock[g].excl
  BY <1>3 DEF Hit
<1>11. \A h \in Llc : lock'[h].excl <=> lock[h].excl
  BY <1>1, <1>9, <1>10 DEF HandoverType
<1>12. /\ \A d \in Core, x \in Block : l1'[d][x].st = l1[d][x].st
       /\ \A h \in Llc, x \in Block : llc'[h][x].st = llc[h][x].st
  BY <1>2 DEF Accessed
<1>13. QED
  BY <1>2, <1>5, <1>7, <1>8, <1>11, <1>12, UserLines

LEMMA MissLines ==
    ASSUME TypeOK, HandoverInv, HandoverInv', HierarchyInv, NEW c \in Core, NEW op \in Op, NEW b \in Block,
           Miss(c, op, b)
    PROVE  HierarchyInv'
<1>1. UNCHANGED <<l1, llc, lock, waiters, net>> /\ user' = [user EXCEPT ![c] = [pc |-> "miss", op |-> op, block |-> b]]
  BY DEF Miss
<1>2. user'[c].pc = "miss" /\ user'[c].block = b /\ \A d \in Core : d # c => user'[d] = user[d]
  BY <1>1, TypeParts DEF HandoverType
<1>3. l1[c][b].st # "MODIFIED"
  BY DEF Miss, operationPermissibleinCache, Readable
<1>4. QED
  BY <1>1, <1>2, <1>3, UserLines

LEMMA UnlockLines ==
    ASSUME TypeOK, HandoverInv, HandoverInv', HierarchyInv, NEW c \in Core, Unlock(c)
    PROVE  HierarchyInv'
<1>1. CacheType /\ HandoverType /\ l1 \in L1Type /\ llc \in LlcType /\ dram \in [Block -> BOOLEAN]
  BY TypeParts DEF CacheType
<1>2. PICK b \in Block, op \in Op, g \in Llc : b = user[c].block /\ op = "WRITE" /\ g = Master(c)
  BY MasterFacts DEF Unlock, HandoverInv, UserInv, Op
<1>3. Accessed(c, op, b, l1, llc, dram) /\ UNCHANGED <<waiters, net>>
  BY <1>1, <1>2, AccessFacts DEF Unlock, Complete
<1>4. user' = [user EXCEPT ![c] = Idle]
  BY DEF Unlock, Complete
<1>5. user'[c].pc = "idle" /\ \A d \in Core : d # c => user'[d] = user[d]
  BY <1>1, <1>4 DEF HandoverType, Idle
<1>6. PICK R : lock' = [lock EXCEPT ![g] = [excl |-> FALSE, readers |-> R]]
  BY <1>2 DEF Unlock, Complete
<1>7. ~lock[g].excl
  <2>1. c \in lock[g].readers
    BY <1>2, MasterFacts DEF Unlock, HandoverInv, LockInv
  <2>2. QED
    BY <2>1 DEF HandoverInv, LockInv
<1>8. \A h \in Llc : lock'[h].excl <=> lock[h].excl
  BY <1>1, <1>6, <1>7 DEF HandoverType
<1>9. /\ \A d \in Core, x \in Block : l1'[d][x].st = l1[d][x].st
      /\ \A h \in Llc, x \in Block : llc'[h][x].st = llc[h][x].st
  BY <1>3 DEF Accessed
<1>10. QED
  BY <1>3, <1>5, <1>8, <1>9, UserLines

(* What the request of core c for b has made of the lines before c fills   *)
(* its own: L1 and LLC are the lines, g is the LLC.                        *)
Prepared(c, op, b, g, L1, LLC) ==
    /\ \A d \in L1sOf(g) : user[d].pc # "locked"
    /\ L1[c][b].st = "INVALID"
    /\ \A d \in Core, x \in Block :
         d \notin L1sOf(g) \/ x # b => L1[d][x].st = l1[d][x].st \/ (d \in L1sOf(g) /\ L1[d][x].st = "INVALID")
    /\ \A x \in Block : x # b => ~HandedTo(x, lock[g], waiters[g][x], net[g])
    /\ \A h \in Llc, x \in Block :
         h # g \/ x # b =>
           \/ LLC[h][x].st = llc[h][x].st
           \/ h = g /\ LLC[h][x].st = "INVALID" /\ net[h] # x /\ \A d \in L1sOf(h) : L1[d][x].st = "INVALID"
    /\ LLC[g][b].st \in Readable
    /\ op # "READ" => LLC[g][b].st = "MODIFIED"
    /\ \A d \in L1sOf(g) : d # c =>
         /\ L1[d][b].st \notin OwnerState
         /\ user[d].pc = "wait" /\ user[d].block = b => L1[d][b].st = "INVALID"

LEMMA FillLines ==
    ASSUME TypeOK, HandoverInv, HandoverInv', HierarchyInv, UNCHANGED <<waiters, net>>,
           NEW c \in Core, NEW op \in Op, NEW b \in Block, NEW g \in Llc, g = Master(c),
           NEW L1 \in L1Type, NEW LLC \in LlcType, NEW DRAM \in [Block -> BOOLEAN], NEW checks,
           FillAndComplete(c, op, b, L1, LLC, DRAM, checks),
           Prepared(c, op, b, g, L1, LLC)
    PROVE  HierarchyInv'
<1>1. HandoverType
  BY TypeParts
<1>2. PICK v \in L1Victims(L1, c) :
         /\ v = NoBlock \/ (v \in Block /\ Valid(L1[c][v]))
         /\ Accessed(c, op, b, FillL1(c, b, v, L1, LLC), FillLlc(c, v, L1, LLC), DRAM)
  BY FillFacts
<1>3. /\ lock' = [lock EXCEPT ![g] = [excl |-> FALSE, readers |-> IF op = "READ_EX" THEN {c} ELSE {}]]
      /\ user' = [user EXCEPT ![c] = IF op = "READ_EX" THEN [pc |-> "locked", op |-> op, block |-> b] ELSE Idle]
  BY FillFacts
<1>4. /\ ~lock'[g].excl
      /\ \A h \in Llc : h # g => lock'[h] = lock[h]
  BY <1>1, <1>3 DEF HandoverType
<1>5. PICK k : k = IF op = "READ_EX" THEN [pc |-> "locked", op |-> op, block |-> b] ELSE Idle
  OBVIOUS
<1>6. /\ op = "READ_EX" => k.pc = "locked" /\ k.block = b
      /\ op # "READ_EX" => k.pc = "idle"
  BY <1>5 DEF Idle
<1>7. user'[c] = k /\ \A d \in Core : d # c => user'[d] = user[d]
  BY <1>1, <1>3, <1>5 DEF HandoverType
<1>8. c \in L1sOf(g) /\ \A h \in Llc : \A d \in L1sOf(h) : d \in Core /\ (h # g => d \notin L1sOf(g))
  BY MasterFacts
<1>9. v # b
  <2>1. L1[c][b].st = "INVALID"
    BY DEF Prepared
  <2>2. QED
    BY <1>2, <2>1, CoresAssumption DEF Valid
<1>10. FilledLines(c, b, v, L1, LLC, FillL1(c, b, v, L1, LLC), FillLlc(c, v, L1, LLC))
  BY <1>2, FillLineFacts
<1>11. /\ \A d \in Core, x \in Block :
            l1'[d][x].st = (IF d = c /\ x = b THEN LLC[g][b].st
                            ELSE IF d = c /\ x = v THEN "INVALID" ELSE L1[d][x].st)
       /\ \A h \in Llc, x \in Block : llc'[h][x].st = LLC[h][x].st
  <2>1. PICK F, B : F = FillL1(c, b, v, L1, LLC) /\ B = FillLlc(c, v, L1, LLC)
    OBVIOUS
  <2>2. FilledLines(c, b, v, L1, LLC, F, B) /\ Accessed(c, op, b, F, B, DRAM)
    BY <1>2, <1>10, <2>1
  <2>3. \A d \in Core, x \in Block : l1'[d][x].st = F[d][x].st
    BY <2>2 DEF Accessed
  <2>4. \A h \in Llc, x \in Block : llc'[h][x].st = B[h][x].st
    BY <2>2 DEF Accessed
  <2>5. \A d \in Core, x \in Block :
          F[d][x] = IF d = c /\ x = b THEN LLC[g][b]
                    ELSE IF d = c /\ x = v THEN Absent ELSE L1[d][x]
    BY <2>2 DEF FilledLines
  <2>6. \A h \in Llc, x \in Block : B[h][x].st = LLC[h][x].st
    BY <2>2 DEF FilledLines
  <2>7. QED
    BY <2>3, <2>4, <2>5, <2>6, LineFacts
<1>12. LineNext(g, b)
  <2>1. PICK L, t, u, k2, q, n :
           L = l1' /\ t = llc'[g][b].st /\ u = user' /\ k2 = lock'[g] /\ q = waiters'[g][b] /\ n = net'[g]
    OBVIOUS
  <2>2. L[c][b].st = t /\ t \in Readable /\ ~k2.excl
    BY <1>4, <1>8, <1>11, <2>1 DEF Prepared
  <2>3. u[c].pc = "idle" \/ (u[c].pc = "locked" /\ t = "MODIFIED")
    BY <1>6, <1>7, <1>11, <2>1 DEF Prepared
  <2>4. \A d \in L1sOf(g) : d # c =>
          /\ L[d][b].st \notin OwnerState /\ u[d].pc # "locked"
          /\ u[d].pc = "wait" /\ u[d].block = b => L[d][b].st = "INVALID"
    BY <1>7, <1>8, <1>11, <2>1 DEF Prepared
  <2>5. LineOk(g, b, L, t, u, k2, q, n)
    BY <1>8, <2>2, <2>3, <2>4, LineFilled
  <2>6. QED
    BY <2>1, <2>5 DEF LineNext
<1>13. ASSUME NEW h \in Llc, NEW x \in Block, h # g \/ x # b
       PROVE  LineSame(h, x)
  <2>1. \A d \in L1sOf(h) : l1'[d][x].st = l1[d][x].st \/ l1'[d][x].st = "INVALID"
    BY <1>8, <1>11, <1>13 DEF Prepared
  <2>2. \/ llc'[h][x].st = llc[h][x].st
        \/ llc'[h][x].st = "INVALID" /\ net'[h] # x /\ \A d \in L1sOf(h) : l1'[d][x].st = "INVALID"
    <3>1. CASE LLC[h][x].st = llc[h][x].st
      BY <1>11, <3>1
    <3>2. CASE h = g /\ LLC[h][x].st = "INVALID" /\ net[h] # x /\ \A d \in L1sOf(h) : L1[d][x].st = "INVALID"
      BY <1>8, <1>11, <1>13, <3>2
    <3>3. QED
      BY <1>13, <3>1, <3>2 DEF Prepared
  <2>3. ASSUME NEW d \in L1sOf(h), user'[d].block = x, user'[d].pc \in {"miss", "wait", "locked"}
        PROVE  /\ user'[d].pc = user[d].pc /\ user[d].block = x
               /\ user'[d].pc = "locked" => l1'[d][x].st = l1[d][x].st
    <3>1. d # c
      BY <1>6, <1>7, <1>8, <1>13, <2>3
    <3>2. user'[d] = user[d]
      BY <1>7, <1>8, <3>1
    <3>3. h = g => user[d].pc # "locked"
      BY DEF Prepared
    <3>4. h # g => l1'[d][x].st = l1[d][x].st
      BY <1>8, <1>11, <3>1 DEF Prepared
    <3>5. QED
      BY <2>3, <3>2, <3>3, <3>4
  <2>4. HandedTo(x, lock'[h], waiters'[h][x], net'[h]) <=> HandedTo(x, lock[h], waiters[h][x], net[h])
    <3>1. CASE h = g
      <4>1. ~HandedTo(x, lock[h], waiters[h][x], net[h])
        BY <1>13, <3>1 DEF Prepared
      <4>2. ~HandedTo(x, lock'[h], waiters'[h][x], net'[h])
        BY <1>4, <3>1 DEF HandedTo
      <4>3. QED
        BY <4>1, <4>2
    <3>2. CASE h # g
      BY <1>4, <3>2
    <3>3. QED
      BY <3>1, <3>2
  <2>5. QED
    BY <2>1, <2>2, <2>3, <2>4 DEF LineSame
<1>14. QED
  BY <1>12, <1>13, LinesKeep

(* The caches before the request of c for b: its own copy is gone.         *)
OwnGone(c, b, K) ==
    /\ K \in L1Type /\ K[c][b].st = "INVALID"
    /\ \A d \in Core, x \in Block : d # c \/ x # b => K[d][x] = l1[d][x]

(* Where the line comes from: the LLC serves the request, ...              *)
Supplied(c, op, b, g, L1, LLC, DRAM) ==
    /\ Serves(llc[g][b].st, op) /\ DRAM = dram /\ l1[c][b].st # "MODIFIED"
    /\ \E K : OwnGone(c, b, K) /\ L1 = L1AfterRequest(c, op, b, K) /\ LLC = LlcAfterRequest(c, op, b, K)

(* ... or fetches it from the DRAM in place of v.                          *)
FetchedInto(c, b, g, K, v, line, L1, LLC, DRAM) ==
    /\ OwnGone(c, b, K) /\ (v = NoBlock \/ (v \in Block /\ Valid(llc[g][v])))
    /\ line.st \in {"SHARED", "MODIFIED"} /\ line.cur = dram[b]
    /\ L1 = L1AfterEvict(K, g, v) /\ LLC = LlcAfterInsert(llc, g, b, line, v)
    /\ DRAM = IF v # NoBlock /\ llc[g][v].st = "MODIFIED"
              THEN [dram EXCEPT ![v] = WrittenBack(K, llc, g, v, {}).cur] ELSE dram

Fetched(c, b, g, L1, LLC, DRAM) ==
    /\ dramDirect /\ ~Valid(llc[g][b])
    /\ \E K, v, line : line \in Line /\ FetchedInto(c, b, g, K, v, line, L1, LLC, DRAM)

(* The fill that ends an access: c takes b from the LLC, which has         *)
(* prepared it.                                                            *)
FillFrom(c, op, b, g, L1, LLC, DRAM, checks) ==
    /\ g = Master(c) /\ UNCHANGED <<waiters, net>>
    /\ FillAndComplete(c, op, b, L1, LLC, DRAM, checks)
    /\ Prepared(c, op, b, g, L1, LLC)
    /\ Supplied(c, op, b, g, L1, LLC, DRAM) \/ Fetched(c, b, g, L1, LLC, DRAM)

FillStep(c, checks) ==
    \E op \in Op, b \in Block, g \in Llc, L1 \in L1Type, LLC \in LlcType, DRAM \in [Block -> BOOLEAN] :
        FillFrom(c, op, b, g, L1, LLC, DRAM, checks)

LEMMA FillStepLines ==
    ASSUME TypeOK, HandoverInv, HandoverInv', HierarchyInv, NEW c \in Core, NEW checks, FillStep(c, checks)
    PROVE  HierarchyInv'
<1>1. PICK op \in Op, b \in Block, g \in Llc, L1 \in L1Type, LLC \in LlcType, DRAM \in [Block -> BOOLEAN] :
        FillFrom(c, op, b, g, L1, LLC, DRAM, checks)
  BY DEF FillStep
<1>2. QED
  BY <1>1, FillLines DEF FillFrom

(* The LLC line serves the request of c.                                   *)
LEMMA RequestPrepared ==
    ASSUME TypeOK, HandoverInv, HierarchyInv, NEW c \in Core, NEW op \in Op, NEW b \in Block,
           NEW g \in Llc, g = Master(c), NEW L1 \in L1Type, L1[c][b].st = "INVALID",
           \A d \in Core, x \in Block : d # c \/ x # b => L1[d][x] = l1[d][x],
           NEW M, M = L1AfterRequest(c, op, b, L1), NEW LLC, LLC = LlcAfterRequest(c, op, b, L1),
           Serves(llc[g][b].st, op), lock[g].readers = {},
           \A x \in Block : x # b => ~HandedTo(x, lock[g], waiters[g][x], net[g])
    PROVE  Prepared(c, op, b, g, M, LLC)
<1>1. PICK st : st = llc[g][b].st
  OBVIOUS
<1>2. \A d \in Core, x \in Block :
        M[d][x] = IF /\ x = b /\ Master(d) = g /\ d # c /\ Valid(L1[d][b]) /\ Snoops(st, op)
                  THEN IF op = "READ" THEN [st |-> "SHARED", cur |-> L1[d][b].cur] ELSE Absent
                  ELSE L1[d][x]
  BY <1>1, L1AfterRequestFacts
<1>3. /\ \A h \in Llc, x \in Block : h # g \/ x # b => LLC[h][x] = llc[h][x]
      /\ LLC[g][b].st = IF op # "READ" /\ Serves(st, op) THEN "MODIFIED" ELSE st
  <2>1. /\ \A h \in Llc, x \in Block :
             h # Master(c) \/ x # b => LlcAfterRequest(c, op, b, L1)[h][x] = llc[h][x]
        /\ LlcAfterRequest(c, op, b, L1)[Master(c)][b].st =
               IF op # "READ" /\ Serves(llc[Master(c)][b].st, op) THEN "MODIFIED" ELSE llc[Master(c)][b].st
    BY ZenonT(60), LlcAfterRequestFacts
  <2>2. QED
    BY <1>1, <2>1
<1>4. st \in Readable /\ (op # "READ" \/ st \in OwnerState => Snoops(st, op))
  BY <1>1 DEF Serves, Snoops, operationPermissibleinCache, Readable, OwnerState
<1>5. LineOk(g, b, l1, st, user, lock[g], waiters[g][b], net[g])
  BY <1>1, HierarchyParts
<1>6. \A d \in L1sOf(g) : d \in Core /\ Master(d) = g
  BY MasterFacts
<1>7. \A d \in L1sOf(g) : user[d].pc # "locked"
  BY <1>6 DEF HandoverInv, LockInv
<1>8. M[c][b].st = "INVALID"
  BY <1>2
<1>9. ASSUME NEW d \in L1sOf(g), d # c
      PROVE  /\ M[d][b].st \notin OwnerState
             /\ user[d].pc = "wait" /\ user[d].block = b => M[d][b].st = "INVALID"
  <2>1. L1[d][b] = l1[d][b] /\ d \in Core
    BY <1>6, <1>9
  <2>2. Within(l1[d][b].st, st) /\ (user[d].pc = "wait" /\ user[d].block = b => l1[d][b].st = "INVALID")
    BY <1>5 DEF LineOk
  <2>3. CASE Valid(L1[d][b]) /\ Snoops(st, op)
    <3>1. M[d][b] = IF op = "READ" THEN [st |-> "SHARED", cur |-> L1[d][b].cur] ELSE Absent
      BY <1>2, <1>6, <1>9, <2>1, <2>3
    <3>2. M[d][b].st \notin OwnerState
      BY <3>1, LineFacts DEF OwnerState
    <3>3. QED
      BY <2>1, <2>2, <2>3, <3>2 DEF Valid
  <2>4. CASE ~(Valid(L1[d][b]) /\ Snoops(st, op))
    <3>1. M[d][b] = l1[d][b]
      BY <1>2, <1>9, <2>1, <2>4
    <3>2. l1[d][b].st \notin OwnerState
      BY <1>4, <2>1, <2>2, <2>4 DEF Within, Valid, OwnerState
    <3>3. QED
      BY <2>2, <3>1, <3>2
  <2>5. QED
    BY <2>3, <2>4
<1>10. \A d \in Core, x \in Block : d \notin L1sOf(g) \/ x # b => M[d][x].st = l1[d][x].st
  <2>1. ASSUME NEW d \in Core, NEW x \in Block, d \notin L1sOf(g) \/ x # b
        PROVE  M[d][x].st = l1[d][x].st
    <3>1. ~(x = b /\ Master(d) = g)
      BY <2>1 DEF L1sOf
    <3>2. d # c \/ x # b
      BY <3>1
    <3>3. QED
      BY ZenonT(60), <1>2, <3>1, <3>2
  <2>2. QED
    BY <2>1
<1>11. LLC[g][b].st \in Readable /\ (op # "READ" => LLC[g][b].st = "MODIFIED")
  BY <1>1, <1>3, <1>4 DEF Readable
<1>12. QED
  BY <1>3, <1>7, <1>8, <1>9, <1>10, <1>11 DEF Prepared

LEMMA MissHitsFills ==
    ASSUME TypeOK, HandoverInv, HierarchyInv, NEW c \in Core, MissHitsLlc(c)
    PROVE  FillStep(c, MissChecks(c))
<1>1. CacheType /\ HandoverType
  BY TypeParts
<1>2. PICK b \in Block, op \in Op : b = user[c].block /\ op = user[c].op
  <2>1. user[c].pc = "miss"
    BY DEF MissHitsLlc, HasStackLock
  <2>2. QED
    BY <1>1, <2>1, RequestTypes
<1>3. PICK L1 \in L1Type : L1 = OwnInvalidated(c)
  BY <1>1, <1>2, OwnInvalidatedFacts
<1>4. L1[c][b].st = "INVALID" /\ \A d \in Core, x \in Block : d # c \/ x # b => L1[d][x] = l1[d][x]
  BY <1>1, <1>2, <1>3, OwnInvalidatedFacts, LineFacts
<1>5. PICK M \in L1Type, LLC \in LlcType :
        M = L1AfterRequest(c, op, b, L1) /\ LLC = LlcAfterRequest(c, op, b, L1)
  BY L1AfterRequestFacts, LlcAfterRequestFacts
<1>6. PICK g \in Llc : g = Master(c)
  BY MasterFacts
<1>7. /\ lock[g] = Free /\ Serves(llc[g][b].st, op)
      /\ FillAndComplete(c, op, b, M, LLC, dram, MissChecks(c))
      /\ UNCHANGED <<waiters, net>>
  BY <1>2, <1>3, <1>5, <1>6 DEF MissHitsLlc, HasStackLock
<1>8. lock[g].readers = {} /\ \A x \in Block : x # b => ~HandedTo(x, lock[g], waiters[g][x], net[g])
  BY <1>7 DEF Free, HandedTo
<1>9. Prepared(c, op, b, g, M, LLC)
  BY <1>4, <1>5, <1>6, <1>7, <1>8, RequestPrepared
<1>10. dram \in [Block -> BOOLEAN]
  BY <1>1 DEF CacheType
<1>11. l1[c][b].st # "MODIFIED"
  BY <1>2, <1>6, <1>7 DEF MissHitsLlc, HasStackLock, HierarchyInv, DirtyInv, Handed, Free
<1>12. Supplied(c, op, b, g, M, LLC, dram)
  BY <1>3, <1>4, <1>5, <1>7, <1>11 DEF Supplied, OwnGone
<1>13. FillFrom(c, op, b, g, M, LLC, dram, MissChecks(c))
  BY <1>6, <1>7, <1>9, <1>12 DEF FillFrom
<1>14. QED
  BY <1>10, <1>13 DEF FillStep

LEMMA ResumeFills ==
    ASSUME TypeOK, HandoverInv, HierarchyInv, NEW c \in Core, Resume(c)
    PROVE  FillStep(c, RequestChecks(c))
<1>1. CacheType /\ HandoverType /\ l1 \in L1Type /\ dram \in [Block -> BOOLEAN]
  BY TypeParts DEF CacheType
<1>2. PICK b \in Block, op \in Op : b = user[c].block /\ op = user[c].op
  <2>1. user[c].pc = "wait"
    BY DEF Resume
  <2>2. QED
    BY <1>1, <2>1, RequestTypes
<1>3. PICK M \in L1Type, LLC \in LlcType :
        M = L1AfterRequest(c, op, b, l1) /\ LLC = LlcAfterRequest(c, op, b, l1)
  BY <1>1, L1AfterRequestFacts, LlcAfterRequestFacts
<1>4. PICK g \in Llc : g = Master(c)
  BY MasterFacts
<1>5. /\ userSem[c] > 0
      /\ FillAndComplete(c, op, b, M, LLC, dram, RequestChecks(c))
      /\ UNCHANGED <<waiters, net>>
  BY <1>2, <1>3 DEF Resume
<1>6. userSem[c] = 1 /\ \A h \in Llc : net[h] = NoBlock \/ net[h] \in Block
  BY <1>1, <1>5, NetTypes
<1>7. /\ user[c].pc = "wait" /\ net[g] = b
      /\ 1 \in DOMAIN waiters[g][b]
      /\ waiters[g][b][1].exclusive <=> op # "READ"
      /\ lock[g].excl /\ lock[g].readers = {}
  BY <1>2, <1>4, <1>6, SignalledFacts
<1>8. Head(waiters[g][b]) = waiters[g][b][1]
  BY <1>1, <1>7 DEF HandoverType, WaiterType
<1>9. LineOk(g, b, l1, llc[g][b].st, user, lock[g], waiters[g][b], net[g]) /\ c \in L1sOf(g)
  BY <1>4, HierarchyParts, MasterFacts
<1>10. l1[c][b].st = "INVALID"
  BY <1>2, <1>7, <1>9 DEF LineOk
<1>11. Serves(llc[g][b].st, op)
  <2>1. llc[g][b].st \in Readable /\ (op # "READ" => llc[g][b].st \in OwnerState)
    BY <1>7, <1>8, <1>9 DEF LineOk, HandedTo
  <2>2. QED
    BY <2>1 DEF Serves, operationPermissibleinCache, OwnerState
<1>12. \A x \in Block : x # b => ~HandedTo(x, lock[g], waiters[g][x], net[g])
  BY <1>7 DEF HandedTo
<1>13. Prepared(c, op, b, g, M, LLC)
  BY <1>1, <1>3, <1>4, <1>7, <1>10, <1>11, <1>12, RequestPrepared
<1>14. Supplied(c, op, b, g, M, LLC, dram)
  BY <1>1, <1>3, <1>10, <1>11 DEF Supplied, OwnGone
<1>15. FillFrom(c, op, b, g, M, LLC, dram, RequestChecks(c))
  BY <1>4, <1>5, <1>13, <1>14 DEF FillFrom
<1>16. QED
  BY <1>1, <1>15 DEF FillStep

LEMMA MissGoesToDramFills ==
    ASSUME TypeOK, HandoverInv, HierarchyInv, DirectInv, NEW c \in Core, MissGoesToDram(c)
    PROVE  FillStep(c, MissChecks(c))
<1>1. CacheType /\ HandoverType /\ llc \in LlcType /\ dram \in [Block -> BOOLEAN]
  BY TypeParts DEF CacheType
<1>2. PICK b \in Block, op \in Op : b = user[c].block /\ op = user[c].op
  <2>1. user[c].pc = "miss"
    BY DEF MissGoesToDram, HasStackLock
  <2>2. QED
    BY <1>1, <2>1, RequestTypes
<1>3. PICK L1 \in L1Type : L1 = OwnInvalidated(c)
  BY <1>1, <1>2, OwnInvalidatedFacts
<1>4. L1[c][b].st = "INVALID" /\ \A d \in Core, x \in Block : d # c \/ x # b => L1[d][x] = l1[d][x]
  BY <1>1, <1>2, <1>3, OwnInvalidatedFacts, LineFacts
<1>5. PICK g \in Llc : g = Master(c)
  BY MasterFacts
<1>6. PICK line \in Line : /\ line = [st |-> IF op = "READ" THEN "SHARED" ELSE "MODIFIED", cur |-> dram[b]]
                           /\ line.st = (IF op = "READ" THEN "SHARED" ELSE "MODIFIED") /\ line.cur = dram[b]
  <2>1. PICK s \in CState, k \in BOOLEAN : s = (IF op = "READ" THEN "SHARED" ELSE "MODIFIED") /\ k = dram[b]
    BY <1>1 DEF CState
  <2>2. PICK l \in Line : l = [st |-> s, cur |-> k] /\ l.st = s /\ l.cur = k
    BY LineMade
  <2>3. QED
    BY <2>1, <2>2
<1>7. PICK v \in LlcVictims(llc, g) :
        FillAndComplete(c, op, b, L1AfterEvict(L1, g, v), LlcAfterInsert(llc, g, b, line, v),
            IF v # NoBlock /\ llc[g][v].st = "MODIFIED"
            THEN [dram EXCEPT ![v] = WrittenBack(L1, llc, g, v, {}).cur] ELSE dram,
            MissChecks(c))
  BY <1>2, <1>3, <1>5, <1>6 DEF MissGoesToDram
<1>8. v = NoBlock \/ (v \in Block /\ Valid(llc[g][v]))
  BY LlcVictimFacts
<1>9. PICK M \in L1Type, LLC \in LlcType :
        M = L1AfterEvict(L1, g, v) /\ LLC = LlcAfterInsert(llc, g, b, line, v)
  BY <1>1, <1>8, EvictFacts, InsertFacts
<1>10. PICK DRAM \in [Block -> BOOLEAN] :
        DRAM = IF v # NoBlock /\ llc[g][v].st = "MODIFIED"
               THEN [dram EXCEPT ![v] = WrittenBack(L1, llc, g, v, {}).cur] ELSE dram
  <2>1. v \in Block => WrittenBack(L1, llc, g, v, {}).cur \in BOOLEAN
    BY <1>1, WrittenBackFacts, LineFacts
  <2>2. QED
    BY <1>1, <1>8, <2>1
<1>11. /\ lock[g] = Free /\ ~Valid(llc[g][b])
       /\ FillAndComplete(c, op, b, M, LLC, DRAM, MissChecks(c))
       /\ UNCHANGED <<waiters, net>>
  BY <1>2, <1>5, <1>7, <1>9, <1>10 DEF MissGoesToDram, HasStackLock
<1>12. \A d \in Core, x \in Block :
         /\ x # v \/ Master(d) # g => M[d][x] = L1[d][x]
         /\ x = v /\ Master(d) = g => M[d][x].st = "INVALID"
  BY <1>8, <1>9, EvictFacts
<1>13. \A h \in Llc, x \in Block :
         LLC[h][x] = IF h = g /\ x = v THEN Absent ELSE IF h = g /\ x = b THEN line ELSE llc[h][x]
  BY <1>1, <1>8, <1>9, InsertFacts
<1>14. v # b
  BY <1>8, <1>11, CoresAssumption
<1>15. \A d \in L1sOf(g) : d \in Core /\ Master(d) = g
  BY MasterFacts
<1>16. \A d \in L1sOf(g) : user[d].pc # "locked"
  BY <1>11, <1>15 DEF Free, HandoverInv, LockInv
<1>17. M[c][b].st = "INVALID"
  BY <1>4, <1>12, <1>14
<1>18. \A d \in Core, x \in Block :
         d \notin L1sOf(g) \/ x # b =>
            M[d][x].st = l1[d][x].st \/ (d \in L1sOf(g) /\ M[d][x].st = "INVALID")
  <2>1. ASSUME NEW d \in Core, NEW x \in Block, d \notin L1sOf(g) \/ x # b
        PROVE  M[d][x].st = l1[d][x].st \/ (d \in L1sOf(g) /\ M[d][x].st = "INVALID")
    <3>1. Master(d) = g <=> d \in L1sOf(g)
      BY DEF L1sOf
    <3>2. L1[d][x] = l1[d][x]
      BY <1>4, <1>5, <2>1, <3>1
    <3>3. QED
      BY <1>12, <3>1, <3>2
  <2>2. QED
    BY <2>1
<1>19. \A x \in Block : ~HandedTo(x, lock[g], waiters[g][x], net[g])
  BY <1>11 DEF Free, HandedTo
<1>20. \A h \in Llc, x \in Block :
         h # g \/ x # b =>
           \/ LLC[h][x].st = llc[h][x].st
           \/ h = g /\ LLC[h][x].st = "INVALID" /\ net[h] # x /\ \A d \in L1sOf(h) : M[d][x].st = "INVALID"
  <2>1. ASSUME NEW h \in Llc, NEW x \in Block, h # g \/ x # b
        PROVE  \/ LLC[h][x].st = llc[h][x].st
               \/ h = g /\ LLC[h][x].st = "INVALID" /\ net[h] # x /\ \A d \in L1sOf(h) : M[d][x].st = "INVALID"
    <3>1. CASE h = g /\ x = v
      <4>1. LLC[h][x].st = "INVALID"
        BY <1>13, <3>1, LineFacts
      <4>2. net[h] # x
        BY CoresAssumption DEF DirectInv
      <4>3. QED
        BY <1>12, <1>15, <3>1, <4>1, <4>2
    <3>2. CASE ~(h = g /\ x = v)
      BY <1>13, <2>1, <3>2
    <3>3. QED
      BY <3>1, <3>2
  <2>2. QED
    BY <2>1
<1>21. LLC[g][b].st \in Readable /\ (op # "READ" => LLC[g][b].st = "MODIFIED")
  BY <1>6, <1>13, <1>14 DEF Readable
<1>22. ASSUME NEW d \in L1sOf(g), d # c
       PROVE  M[d][b].st = "INVALID"
  <2>1. LineOk(g, b, l1, llc[g][b].st, user, lock[g], waiters[g][b], net[g])
    BY HierarchyParts
  <2>2. l1[d][b].st = "INVALID"
    BY <1>11, <1>22, <2>1 DEF LineOk, Within, Valid
  <2>3. M[d][b] = l1[d][b]
    BY <1>4, <1>12, <1>14, <1>15, <1>22
  <2>4. QED
    BY <2>2, <2>3
<1>23. Prepared(c, op, b, g, M, LLC)
  BY <1>16, <1>17, <1>18, <1>19, <1>20, <1>21, <1>22 DEF Prepared, OwnerState
<1>24. Fetched(c, b, g, M, LLC, DRAM)
  <2>1. OwnGone(c, b, L1)
    BY <1>4 DEF OwnGone
  <2>2. line.st \in {"SHARED", "MODIFIED"} /\ line.cur = dram[b]
    BY <1>6
  <2>3. dramDirect
    BY DEF MissGoesToDram
  <2>4. FetchedInto(c, b, g, L1, v, line, M, LLC, DRAM)
    BY <1>8, <1>9, <1>10, <2>1, <2>2 DEF FetchedInto
  <2>5. QED
    BY <1>11, <2>3, <2>4 DEF Fetched
<1>25. FillFrom(c, op, b, g, M, LLC, DRAM, MissChecks(c))
  BY <1>5, <1>11, <1>23, <1>24 DEF FillFrom
<1>26. QED
  BY <1>25 DEF FillStep

LEMMA MissWaitsLines ==
    ASSUME TypeOK, HandoverInv, HandoverInv', HierarchyInv, NEW c \in Core, MissWaits(c)
    PROVE  HierarchyInv'
<1>1. CacheType /\ HandoverType /\ llc \in LlcType
  BY TypeParts DEF CacheType
<1>2. PICK b \in Block, op \in Op : b = user[c].block /\ op = user[c].op
  <2>1. user[c].pc = "miss"
    BY DEF MissWaits, HasStackLock
  <2>2. QED
    BY <1>1, <2>1, RequestTypes
<1>3. PICK L1 \in L1Type : L1 = OwnInvalidated(c)
  BY <1>1, <1>2, OwnInvalidatedFacts
<1>4. L1[c][b].st = "INVALID" /\ \A d \in Core, x \in Block : d # c \/ x # b => L1[d][x] = l1[d][x]
  BY <1>1, <1>2, <1>3, OwnInvalidatedFacts, LineFacts
<1>5. PICK g \in Llc, st \in CState : g = Master(c) /\ st = llc[g][b].st
  BY MasterFacts, PartTypes
<1>6. PICK M \in L1Type, LLC \in LlcType :
        M = L1AfterRequest(c, op, b, L1) /\ LLC = LlcAfterRequest(c, op, b, L1)
  BY L1AfterRequestFacts, LlcAfterRequestFacts
<1>7. PICK Q \in BOOLEAN : Q <=> waiters[g][b] = <<>> /\ op # "READ" /\ st = "SHARED"
  OBVIOUS
<1>8. PICK su \in CState : su = "SHARED_UPGRADING"
  BY DEF CState
<1>9. PICK t : t = Append(waiters[g][b], [core |-> c, exclusive |-> op # "READ"])
  OBVIOUS
<1>10. /\ lock[g] = Free /\ ~Serves(st, op)
       /\ l1' = M
       /\ llc' = IF Q THEN PutSt(LLC, g, b, su) ELSE LLC
       /\ waiters' = Put(waiters, g, b, t)
       /\ user' = [user EXCEPT ![c].pc = "wait"]
       /\ UNCHANGED <<lock, net>>
  BY <1>2, <1>3, <1>5, <1>6, <1>7, <1>8, <1>9 DEF MissWaits, HasStackLock, Put, PutSt
<1>11. \A d \in Core, x \in Block :
         M[d][x] = IF /\ x = b /\ Master(d) = g /\ d # c /\ Valid(L1[d][b]) /\ Snoops(st, op)
                   THEN IF op = "READ" THEN [st |-> "SHARED", cur |-> L1[d][b].cur] ELSE Absent
                   ELSE L1[d][x]
  BY <1>5, <1>6, L1AfterRequestFacts
<1>12. /\ \A h \in Llc, x \in Block : h # g \/ x # b => LLC[h][x] = llc[h][x]
       /\ LLC[g][b].st = st
  <2>1. /\ \A h \in Llc, x \in Block :
             h # Master(c) \/ x # b => LlcAfterRequest(c, op, b, L1)[h][x] = llc[h][x]
        /\ LlcAfterRequest(c, op, b, L1)[Master(c)][b].st =
               IF op # "READ" /\ Serves(llc[Master(c)][b].st, op) THEN "MODIFIED" ELSE llc[Master(c)][b].st
    BY ZenonT(60), LlcAfterRequestFacts
  <2>2. QED
    BY <1>5, <1>6, <1>10, <2>1
<1>13. Snoops(st, op) <=> op # "READ" /\ st = "SHARED"
  BY <1>10 DEF Snoops, Serves, operationPermissibleinCache, Readable
<1>14. \A d \in L1sOf(g) : d \in Core /\ Master(d) = g
  BY MasterFacts
<1>15. /\ M[c][b].st = "INVALID"
       /\ \A d \in L1sOf(g) : M[d][b].st = l1[d][b].st \/ M[d][b].st = "INVALID"
       /\ Q => \A d \in L1sOf(g) : M[d][b].st = "INVALID"
       /\ \A d \in Core, x \in Block : d \notin L1sOf(g) \/ x # b => M[d][x].st = l1[d][x].st
  <2>1. M[c][b].st = "INVALID"
    BY <1>4, <1>11
  <2>2. ASSUME NEW d \in L1sOf(g), d # c
        PROVE  /\ M[d][b].st = l1[d][b].st \/ M[d][b].st = "INVALID"
               /\ Q => M[d][b].st = "INVALID"
    <3>1. L1[d][b] = l1[d][b] /\ d \in Core /\ Master(d) = g
      BY <1>4, <1>14, <2>2
    <3>2. CASE Valid(L1[d][b]) /\ Snoops(st, op)
      <4>1. M[d][b] = Absent
        BY <1>11, <1>13, <2>2, <3>1, <3>2
      <4>2. QED
        BY <4>1, LineFacts
    <3>3. CASE ~(Valid(L1[d][b]) /\ Snoops(st, op))
      BY <1>7, <1>11, <1>13, <3>1, <3>3 DEF Valid
    <3>4. QED
      BY <3>2, <3>3
  <2>3. ASSUME NEW d \in Core, NEW x \in Block, d \notin L1sOf(g) \/ x # b
        PROVE  M[d][x].st = l1[d][x].st
    <3>1. ~(x = b /\ Master(d) = g)
      BY <2>3 DEF L1sOf
    <3>2. d # c \/ x # b
      BY <1>5, <3>1
    <3>3. QED
      BY <1>4, <1>11, <3>1, <3>2
  <2>4. QED
    BY <2>1, <2>2, <2>3
<1>16. /\ llc'[g][b].st = IF Q THEN "SHARED_UPGRADING" ELSE st
       /\ \A h \in Llc, x \in Block : h # g \/ x # b => llc'[h][x].st = llc[h][x].st
  BY <1>8, <1>10, <1>12, PutStFacts
<1>17. /\ user'[c].pc = "wait" /\ user'[c].block = b
       /\ \A d \in Core : d # c => user'[d] = user[d]
  BY <1>1, <1>2, <1>10 DEF HandoverType, UserType
<1>18. \A h \in Llc, x \in Block : h # g \/ x # b => waiters'[h][x] = waiters[h][x]
  BY <1>1, <1>10 DEF HandoverType, WaiterType, Put
<1>19. \A d \in L1sOf(g) : user[d].pc # "locked"
  BY <1>10, <1>14 DEF Free, HandoverInv, LockInv
<1>20. \A x \in Block : /\ ~HandedTo(x, lock[g], waiters[g][x], net[g])
                        /\ ~HandedTo(x, lock'[g], waiters'[g][x], net'[g])
  BY <1>10 DEF Free, HandedTo
<1>21. LineNext(g, b)
  <2>1. LineOk(g, b, l1, st, user, lock[g], waiters[g][b], net[g])
    BY <1>5, HierarchyParts
  <2>2. \A d \in L1sOf(g) : Within(l1'[d][b].st, llc'[g][b].st)
    BY <1>10, <1>15, <1>16, <2>1 DEF LineOk, Within
  <2>3. ASSUME NEW d \in L1sOf(g), l1'[d][b].st = "MODIFIED"
        PROVE  /\ ~(user'[d].pc = "miss" /\ user'[d].block = b)
               /\ \A e \in L1sOf(g) : l1'[e][b].st = "MODIFIED" => e = d
    <3>1. d # c /\ l1[d][b].st = "MODIFIED"
      BY <1>10, <1>15, <2>3
    <3>2. /\ ~(user[d].pc = "miss" /\ user[d].block = b)
          /\ \A e \in L1sOf(g) : l1[e][b].st = "MODIFIED" => e = d
      BY <1>20, <2>1, <3>1 DEF LineOk
    <3>3. QED
      BY <1>10, <1>14, <1>15, <1>17, <3>1, <3>2
  <2>4. ASSUME NEW d \in L1sOf(g), user'[d].block = b
        PROVE  /\ user'[d].pc = "wait" => l1'[d][b].st = "INVALID"
               /\ user'[d].pc # "locked"
    <3>1. CASE d = c
      BY <1>10, <1>15, <1>17, <3>1
    <3>2. CASE d # c
      <4>1. user'[d] = user[d]
        BY <1>14, <1>17, <3>2
      <4>2. user[d].pc = "wait" => l1[d][b].st = "INVALID"
        BY <2>1, <2>4, <4>1 DEF LineOk
      <4>3. QED
        BY <1>10, <1>15, <1>19, <4>1, <4>2
    <3>3. QED
      BY <3>1, <3>2
  <2>5. net'[g] = b => llc'[g][b].st \in Readable
    <3>1. net[g] = b => 1 \in DOMAIN waiters[g][b]
      BY CoresAssumption DEF HandoverInv, LockInv
    <3>2. net[g] = b => ~Q
      BY <1>7, <3>1
    <3>3. net[g] = b => st \in Readable
      BY <2>1 DEF LineOk
    <3>4. QED
      BY <1>10, <1>16, <3>2, <3>3
  <2>6. QED
    BY <1>20, <2>2, <2>3, <2>4, <2>5 DEF LineNext, LineOk
<1>22. ASSUME NEW h \in Llc, NEW x \in Block, h # g \/ x # b
       PROVE  LineSame(h, x)
  <2>1. \A d \in L1sOf(h) : d \in Core /\ (h # g => d \notin L1sOf(g)) /\ Master(d) = h
    BY MasterFacts
  <2>2. \A d \in L1sOf(h) : l1'[d][x].st = l1[d][x].st
    BY <1>10, <1>15, <1>22, <2>1
  <2>3. \A d \in L1sOf(h) : user'[d].block = x => user'[d] = user[d]
    BY <1>5, <1>17, <1>22, <2>1
  <2>4. HandedTo(x, lock'[h], waiters'[h][x], net'[h]) <=> HandedTo(x, lock[h], waiters[h][x], net[h])
    BY <1>10, <1>18, <1>22
  <2>5. QED
    BY <1>10, <1>16, <1>22, <2>2, <2>3, <2>4 DEF LineSame
<1>23. QED
  BY <1>21, <1>22, LinesKeep
-----------------------------------------------------------------------------
(* The steps of the network thread of an LLC.                              *)

(* At most one first-level cache of g has b MODIFIED, and its core does    *)
(* not miss.                                                               *)
OneDirty(g, b, L, u) ==
    \A c \in L1sOf(g) :
        L[c][b].st = "MODIFIED" =>
            /\ ~(u[c].pc = "miss" /\ u[c].block = b)
            /\ \A d \in L1sOf(g) : L[d][b].st = "MODIFIED" => d = c

(* The waiters of b are served on a line that is t afterwards, before the  *)
(* upgrade that the next one may need.                                     *)
LEMMA ServedLines ==
    ASSUME HandoverInv, HandoverInv', HierarchyInv, UNCHANGED user, NEW g \in Llc, NEW b \in Block,
           lock[g] = Free, NEW queue \in Seq(Waiter), NEW LLC, NEW UP, QueueServed(g, b, queue, LLC, UP),
           NEW t, t = LLC[g][b].st, t \in Readable,
           \A d \in L1sOf(g) : Within(l1'[d][b].st, t),
           \A d \in L1sOf(g) : user[d].pc = "wait" /\ user[d].block = b => l1'[d][b].st = "INVALID",
           \/ OneDirty(g, b, l1', user)
           \/ queue # <<>> /\ Head(queue).exclusive /\ t # "SHARED",
           \A h \in Llc : \A d \in L1sOf(h) : \A x \in Block :
               h # g \/ x # b =>
                  l1'[d][x].st = l1[d][x].st \/ (h = g /\ l1'[d][x].st = "INVALID"),
           \A h \in Llc, x \in Block :
               h # g \/ x # b =>
                  \/ LLC[h][x].st = llc[h][x].st
                  \/ h = g /\ LLC[h][x].st = "INVALID" /\ \A d \in L1sOf(h) : l1'[d][x].st = "INVALID"
    PROVE  HierarchyInv'
<1>1. PICK P, W, E \in BOOLEAN :
         /\ P <=> Upgrades(g, b, queue, LLC)
         /\ W <=> Wakes(g, b, queue, LLC)
         /\ E <=> queue # <<>> /\ queue[1].exclusive
  OBVIOUS
<1>2. /\ waiters'[g][b] = queue
      /\ \A h \in Llc, x \in Block : h # g \/ x # b => waiters'[h][x] = waiters[h][x]
      /\ llc'[g][b].st = IF P THEN "SHARED_UPGRADING" ELSE t
      /\ \A h \in Llc, x \in Block : h # g \/ x # b => llc'[h][x] = LLC[h][x]
      /\ lock'[g].excl <=> W
      /\ net'[g] = IF W THEN b ELSE NoBlock
      /\ \A h \in Llc : h # g => lock'[h] = lock[h] /\ net'[h] = net[h]
  BY <1>1 DEF QueueServed
<1>3. /\ P <=> E /\ t = "SHARED"
      /\ W <=> queue # <<>> /\ ~P
      /\ E <=> queue # <<>> /\ Head(queue).exclusive
  BY <1>1 DEF Upgrades, Wakes
<1>4. \A h \in Llc : \A d \in L1sOf(h) : d \in Core /\ Master(d) = h
  BY MasterFacts
<1>5. \A d \in L1sOf(g) : user[d].pc # "locked"
  BY <1>4 DEF Free, HandoverInv, LockInv
<1>6. \A x \in Block : ~HandedTo(x, lock[g], waiters[g][x], net[g])
  BY DEF Free, HandedTo
<1>7. HandedTo(b, lock'[g], waiters'[g][b], net'[g]) <=> W /\ E
  BY <1>2, <1>3 DEF HandedTo
<1>8. LineNext(g, b)
  <2>1. \A d \in L1sOf(g) : Within(l1'[d][b].st, llc'[g][b].st)
    BY <1>2, <1>3 DEF Within, OwnerState
  <2>2. ~HandedTo(b, lock'[g], waiters'[g][b], net'[g]) => OneDirty(g, b, l1', user')
    BY <1>3, <1>7
  <2>3. \A d \in L1sOf(g) :
          user'[d].block = b => /\ user'[d].pc = "wait" => l1'[d][b].st = "INVALID"
                                /\ user'[d].pc = "locked" => l1'[d][b].st = "MODIFIED"
    BY <1>5
  <2>4. net'[g] = b => llc'[g][b].st \in Readable
    BY <1>2, <1>3, CoresAssumption
  <2>5. HandedTo(b, lock'[g], waiters'[g][b], net'[g]) => llc'[g][b].st \in OwnerState
    BY <1>2, <1>3, <1>7 DEF Readable, OwnerState
  <2>6. QED
    BY <2>1, <2>2, <2>3, <2>4, <2>5 DEF LineNext, LineOk, OneDirty
<1>9. ASSUME NEW h \in Llc, NEW x \in Block, h # g \/ x # b
      PROVE  LineSame(h, x)
  <2>1. \A d \in L1sOf(h) : l1'[d][x].st = l1[d][x].st \/ l1'[d][x].st = "INVALID"
    BY <1>9
  <2>2. h = g => net'[h] # x
    BY <1>2, <1>9, CoresAssumption
  <2>3. \/ llc'[h][x].st = llc[h][x].st
        \/ llc'[h][x].st = "INVALID" /\ net'[h] # x /\ \A c \in L1sOf(h) : l1'[c][x].st = "INVALID"
    BY <1>2, <1>9, <2>2
  <2>4. \A c \in L1sOf(h) : user'[c].block = x /\ user'[c].pc \in {"miss", "wait", "locked"} =>
         /\ user'[c].pc = user[c].pc /\ user[c].block = x
         /\ user'[c].pc = "locked" => l1'[c][x].st = l1[c][x].st
    BY <1>5, <1>9
  <2>5. /\ HandedTo(x, lock'[h], waiters'[h][x], net'[h]) <=> HandedTo(x, lock[h], waiters[h][x], net[h])
        /\ net'[h] = x => net[h] = x
    <3>1. CASE h = g
      BY <1>6, <2>2, <3>1 DEF HandedTo
    <3>2. CASE h # g
      BY <1>2, <3>2
    <3>3. QED
      BY <3>1, <3>2
  <2>6. QED
    BY <2>1, <2>3, <2>4, <2>5 DEF LineSame
<1>10. QED
  BY <1>8, <1>9, LinesKeep

LEMMA NetResumesLines ==
    ASSUME TypeOK, HandoverInv, HandoverInv', HierarchyInv, NEW g \in Llc, NetResumes(g)
    PROVE  HierarchyInv'
<1>1. CacheType /\ HandoverType /\ llc \in LlcType /\ up \in ChannelType
  BY TypeParts DEF CacheType
<1>2. PICK b \in Block : b = net[g]
  BY <1>1, NetTypes DEF NetResumes
<1>3. 1 \in DOMAIN waiters[g][b]
  BY <1>2, CoresAssumption DEF HandoverInv, LockInv
<1>4. PICK q \in Seq(Waiter) : q = waiters[g][b] /\ q # <<>>
  BY <1>1, <1>3 DEF HandoverType, WaiterType
<1>5. PICK queue \in Seq(Waiter) : queue = Tail(q)
  BY <1>4, TailFacts
<1>6. lock[g] = Free /\ ServeWaiters(g, b, queue, llc, up) /\ UNCHANGED <<l1, user>>
  BY <1>2, <1>4, <1>5 DEF NetResumes
<1>7. QueueServed(g, b, queue, llc, up)
  BY <1>1, <1>4, <1>5, <1>6, QueueTaken
<1>8. PICK t : t = llc[g][b].st
  OBVIOUS
<1>9. LineOk(g, b, l1, t, user, lock[g], waiters[g][b], net[g])
  BY <1>8, HierarchyParts
<1>10. ~HandedTo(b, lock[g], waiters[g][b], net[g])
  BY <1>6 DEF Free, HandedTo
<1>11. /\ t \in Readable
       /\ \A d \in L1sOf(g) : Within(l1'[d][b].st, t)
       /\ \A d \in L1sOf(g) : user[d].pc = "wait" /\ user[d].block = b => l1'[d][b].st = "INVALID"
       /\ OneDirty(g, b, l1', user)
  BY <1>2, <1>6, <1>9, <1>10 DEF LineOk, OneDirty
<1>12. QED
  BY <1>6, <1>7, <1>8, <1>11, ServedLines

(* What an LLC knows of its line when a message of the directory comes.    *)
LEMMA FirstMessage ==
    ASSUME TypeOK, DirectoryInv, NEW g \in Llc, NEW b \in Block, down[g][b] # <<>>
    PROVE  \E st \in CState, U, D, D2 \in Seq(Message), d \in DirEntry, m \in Message :
             /\ st = llc[g][b].st /\ U = up[g][b] /\ D = down[g][b] /\ d = dir[b]
             /\ Begins(D, m, D2) /\ m = Head(down[g][b])
             /\ LinkInv(g, st, U, D, d)
             /\ Asked(g, U, D, d) => waiters[g][b] # <<>> /\ net[g] # b
             /\ Upgrading(g, U, D, d) => Head(waiters[g][b]).exclusive
<1>1. PICK st \in CState, U, D \in Seq(Message), d \in DirEntry :
         st = llc[g][b].st /\ U = up[g][b] /\ D = down[g][b] /\ d = dir[b]
  BY PartTypes
<1>2. PICK m \in Message, D2 \in Seq(Message) : m = Head(D) /\ D2 = Tail(D)
  BY <1>1, TailFacts
<1>3. LinkedAt(g, b, llc[g][b].st, up[g][b], down[g][b], dir[b], waiters[g][b], net[g])
  BY DirectoryParts
<1>4. /\ LinkInv(g, st, U, D, d)
      /\ Asked(g, U, D, d) => waiters[g][b] # <<>> /\ net[g] # b
      /\ Upgrading(g, U, D, d) => Head(waiters[g][b]).exclusive
  BY <1>1, <1>3 DEF LinkedAt
<1>5. Begins(D, m, D2)
  BY <1>1, <1>2 DEF Begins
<1>6. QED
  BY <1>1, <1>2, <1>4, <1>5

LEMMA DataRepExpected ==
    ASSUME TypeOK, DirectoryInv, NEW g \in Llc, NEW b \in Block, down[g][b] # <<>>,
           Head(down[g][b]).type \in {"EX_REP", "SH_REP"}
    PROVE  llc[g][b].st = "INVALID" /\ waiters[g][b] # <<>>
<1>1. PICK st \in CState, U, D, D2 \in Seq(Message), d \in DirEntry, m \in Message :
        /\ st = llc[g][b].st /\ D = down[g][b] /\ Begins(D, m, D2) /\ m = Head(down[g][b])
        /\ LinkInv(g, st, U, D, d) /\ (Asked(g, U, D, d) => waiters[g][b] # <<>>)
  BY FirstMessage
<1>2. PICK st2 \in CState : (m.type = "EX_REP" => st2 = "EXCLUSIVE") /\ (m.type = "SH_REP" => st2 = "SHARED")
  BY DEF CState
<1>3. m.type \in {"EX_REP", "SH_REP"}
  BY <1>1
<1>4. st = "INVALID"
  BY <1>1, <1>2, <1>3, LinkFilled
<1>5. Asked(g, U, D, d)
  <2>1. 1 \in DOMAIN D /\ D[1] = m
    BY <1>1, TailFacts DEF Begins
  <2>2. Has(D, REP)
    BY <1>3, <2>1 DEF Has, REP
  <2>3. QED
    BY <2>2 DEF Asked
<1>6. QED
  BY <1>1, <1>4, <1>5

LEMMA UpgradeRepExpected ==
    ASSUME TypeOK, DirectoryInv, NEW g \in Llc, NEW b \in Block, down[g][b] # <<>>,
           Head(down[g][b]).type = "UPGRADE_REP"
    PROVE  /\ llc[g][b].st \in {"INVALID", "SHARED_UPGRADING"}
           /\ waiters[g][b] # <<>> /\ Head(waiters[g][b]).exclusive
<1>1. PICK st \in CState, U, D, D2 \in Seq(Message), d \in DirEntry, m \in Message :
        /\ st = llc[g][b].st /\ D = down[g][b] /\ Begins(D, m, D2) /\ m = Head(down[g][b])
        /\ LinkInv(g, st, U, D, d) /\ (Asked(g, U, D, d) => waiters[g][b] # <<>>)
        /\ Upgrading(g, U, D, d) => Head(waiters[g][b]).exclusive
  BY FirstMessage
<1>2. m.type = "UPGRADE_REP"
  BY <1>1
<1>3. st \in {"INVALID", "SHARED_UPGRADING"}
  BY <1>1, <1>2, LinkUpgraded
<1>4. Upgrading(g, U, D, d)
  <2>1. 1 \in DOMAIN D /\ D[1] = m
    BY <1>1, TailFacts DEF Begins
  <2>2. Has(D, {"UPGRADE_REP"})
    BY <1>2, <2>1 DEF Has
  <2>3. QED
    BY <2>2 DEF Upgrading
<1>5. QED
  BY <1>1, <1>3, <1>4, UpgradingAsks

LEMMA DirReqExpected ==
    ASSUME TypeOK, DirectoryInv, NEW g \in Llc, NEW b \in Block, down[g][b] # <<>>,
           Head(down[g][b]).type \in FWD, Valid(llc[g][b])
    PROVE  Head(down[g][b]).type = "INV_REQ" => llc[g][b].st \notin OwnerState
<1>1. PICK st \in CState, U, D, D2 \in Seq(Message), d \in DirEntry, m \in Message :
        /\ st = llc[g][b].st /\ D = down[g][b] /\ Begins(D, m, D2) /\ m = Head(down[g][b])
        /\ LinkInv(g, st, U, D, d)
  BY FirstMessage
<1>2. m.type \in FWD /\ st # "INVALID"
  BY <1>1 DEF Valid
<1>3. m.type = "INV_REQ" => st \notin OwnerState
  BY <1>1, <1>2, LinkMeets
<1>4. QED
  BY <1>1, <1>3

LEMMA HandleUpgradeRepLines ==
    ASSUME TypeOK, HandoverInv, HandoverInv', HierarchyInv, DirectoryInv, Running',
           NEW g \in Llc, NEW b \in Block, HandleUpgradeRep(g, b)
    PROVE  HierarchyInv'
<1>1. CacheType /\ HandoverType
  BY TypeParts
<1>2. lock[g] = Free /\ down[g][b] # <<>> /\ Head(down[g][b]).type = "UPGRADE_REP"
  BY DEF HandleUpgradeRep, Received
<1>3. PICK LLC \in LlcType :
        /\ LLC[g][b].st = "MODIFIED"
        /\ \A h \in Llc, x \in Block : h # g \/ x # b => LLC[h][x] = llc[h][x]
        /\ ServeWaiters(g, b, waiters[g][b], LLC, up)
        /\ \A c \in Core, x \in Block :
             l1'[c][x] = IF x = b /\ Master(c) = g /\ Valid(l1[c][b])
                         THEN [st |-> "MODIFIED", cur |-> l1[c][b].cur] ELSE l1[c][x]
        /\ UNCHANGED user
  BY UpgradeRepFacts
<1>4. PICK q \in Seq(Waiter), UP \in ChannelType : q = waiters[g][b] /\ UP = up
  BY <1>1 DEF HandoverType, WaiterType, CacheType
<1>5. QueueServed(g, b, q, LLC, UP)
  BY <1>2, <1>3, <1>4, QueueTaken
<1>6. q # <<>> /\ Head(q).exclusive
  BY <1>2, <1>4, UpgradeRepExpected
<1>7. \A h \in Llc : \A d \in L1sOf(h) : d \in Core /\ Master(d) = h
  BY MasterFacts
<1>8. PICK t : t = "MODIFIED"
  OBVIOUS
<1>9. \A d \in L1sOf(g) : Within(l1'[d][b].st, t)
  BY <1>8 DEF Within, OwnerState
<1>10. LineOk(g, b, l1, llc[g][b].st, user, lock[g], waiters[g][b], net[g])
  BY HierarchyParts
<1>11. \A d \in L1sOf(g) : user[d].pc = "wait" /\ user[d].block = b => l1'[d][b].st = "INVALID"
  <2>1. ASSUME NEW d \in L1sOf(g), user[d].pc = "wait", user[d].block = b
        PROVE  l1'[d][b].st = "INVALID"
    <3>1. l1[d][b].st = "INVALID"
      BY <1>10, <2>1 DEF LineOk
    <3>2. l1'[d][b] = l1[d][b]
      BY <1>3, <1>7, <3>1 DEF Valid
    <3>3. QED
      BY <3>1, <3>2
  <2>2. QED
    BY <2>1
<1>12. \A h \in Llc : \A d \in L1sOf(h) : \A x \in Block :
         h # g \/ x # b => l1'[d][x].st = l1[d][x].st
  BY ZenonT(60), <1>3, <1>7
<1>13. t = LLC[g][b].st /\ t \in Readable /\ t # "SHARED"
  BY <1>3, <1>8 DEF Readable
<1>14. QED
  BY <1>2, <1>3, <1>5, <1>6, <1>9, <1>11, <1>12, <1>13, ServedLines

LEMMA HandleDataRepLines ==
    ASSUME TypeOK, HandoverInv, HandoverInv', HierarchyInv, DirectoryInv,
           NEW g \in Llc, NEW b \in Block, NEW type \in {"EX_REP", "SH_REP"}, HandleDataRep(g, b, type)
    PROVE  HierarchyInv'
<1>1. CacheType /\ HandoverType /\ l1 \in L1Type /\ llc \in LlcType
  BY TypeParts DEF CacheType
<1>2. lock[g] = Free /\ down[g][b] # <<>> /\ Head(down[g][b]).type = type
  BY DEF HandleDataRep, Received
<1>3. PICK v \in LlcVictims(llc, g), line \in Line, LLC \in LlcType, UP \in ChannelType :
        DataTaken(g, b, type, v, line, LLC, UP)
  BY DataRepFacts
<1>4. /\ v = NoBlock \/ (v \in Block /\ Valid(llc[g][v]))
      /\ line.st = IF type = "EX_REP" THEN "EXCLUSIVE" ELSE "SHARED"
      /\ LLC = LlcAfterInsert(llc, g, b, line, v)
      /\ l1' = L1AfterEvict(l1, g, v)
      /\ ServeWaiters(g, b, waiters[g][b], LLC, UP)
      /\ UNCHANGED user
  BY <1>3 DEF DataTaken
<1>5. PICK q \in Seq(Waiter) : q = waiters[g][b]
  BY <1>1 DEF HandoverType, WaiterType
<1>6. QueueServed(g, b, q, LLC, UP)
  BY <1>2, <1>4, <1>5, QueueTaken
<1>7. \A h \in Llc, x \in Block :
        LLC[h][x] = IF h = g /\ x = v THEN Absent ELSE IF h = g /\ x = b THEN line ELSE llc[h][x]
  BY <1>1, <1>4, InsertFacts
<1>8. \A d \in Core, x \in Block :
        /\ x # v \/ Master(d) # g => l1'[d][x] = l1[d][x]
        /\ x = v /\ Master(d) = g => l1'[d][x].st = "INVALID"
  BY <1>1, <1>4, EvictFacts
<1>9. llc[g][b].st = "INVALID"
  BY <1>2, DataRepExpected
<1>10. v # b
  BY <1>4, <1>9, CoresAssumption DEF Valid
<1>11. \A h \in Llc : \A d \in L1sOf(h) : d \in Core /\ Master(d) = h
  BY MasterFacts
<1>12. \A d \in L1sOf(g) : l1'[d][b].st = "INVALID"
  <2>1. LineOk(g, b, l1, llc[g][b].st, user, lock[g], waiters[g][b], net[g])
    BY HierarchyParts
  <2>2. \A d \in L1sOf(g) : l1[d][b].st = "INVALID"
    BY <1>9, <2>1 DEF LineOk, Within
  <2>3. QED
    BY <1>8, <1>10, <1>11, <2>2
<1>13. PICK t : t = line.st
  OBVIOUS
<1>14. t = LLC[g][b].st /\ t \in Readable
  BY <1>4, <1>7, <1>10, <1>13 DEF Readable
<1>15. (\A d \in L1sOf(g) : Within(l1'[d][b].st, t)) /\ OneDirty(g, b, l1', user)
  BY <1>12 DEF Within, OneDirty
<1>16. \A h \in Llc : \A d \in L1sOf(h) : \A x \in Block :
         h # g \/ x # b => l1'[d][x].st = l1[d][x].st \/ (h = g /\ l1'[d][x].st = "INVALID")
  BY <1>8, <1>11
<1>17. \A h \in Llc, x \in Block :
         h # g \/ x # b =>
            \/ LLC[h][x].st = llc[h][x].st
            \/ h = g /\ LLC[h][x].st = "INVALID" /\ \A d \in L1sOf(h) : l1'[d][x].st = "INVALID"
  BY <1>7, <1>8, <1>11, LineFacts
<1>18. QED
  BY <1>2, <1>4, <1>6, <1>12, <1>14, <1>15, <1>16, <1>17, ServedLines

(* A request of the directory takes the line away, or makes it SHARED.     *)
LEMMA DirReqLines ==
    ASSUME TypeOK, TypeOK', HandoverInv, HandoverInv', HierarchyInv, DirectoryInv,
           NEW g \in Llc, NEW b \in Block, NEW type, NEW new, NEW reply, NEW checks,
           DirRequest(type, new, reply), HandleDirReq(g, b, type, new, reply, checks)
    PROVE  HierarchyInv'
<1>1. CacheType /\ HandoverType /\ l1 \in L1Type /\ llc \in LlcType
  BY TypeParts DEF CacheType
<1>2. new \in CState /\ reply \in GONE \cup {"WB_REP"} /\ new \in {"INVALID", "SHARED"}
  BY DirRequestFacts DEF DirRequest
<1>3. /\ net[g] = NoBlock /\ lock[g] = Free
      /\ UNCHANGED <<lock, waiters, user, net>>
      /\ \/ ~Valid(llc[g][b]) /\ UNCHANGED <<l1, llc, up, failed>>
         \/ /\ Unset(g, b, new) /\ UNCHANGED <<l1, llc, failed>>
            /\ \E m \in Message : m.type = reply /\ up' = Sent(up, g, b, m)
         \/ \E m \in Message : Yields(g, b, new, reply, checks, m)
  BY <1>2, DirReqFacts
<1>4. \A h \in Llc : \A d \in L1sOf(h) : d \in Core /\ Master(d) = h
  BY MasterFacts
<1>5. CASE UNCHANGED <<l1, llc>>
  <2>1. \A h \in Llc, x \in Block : LineSame(h, x)
    BY <1>3, <1>5 DEF LineSame
  <2>2. LineOk(g, b, l1, llc[g][b].st, user, lock[g], waiters[g][b], net[g])
    BY HierarchyParts
  <2>3. LineNext(g, b)
    BY <1>3, <1>5, <2>2 DEF LineNext
  <2>4. QED
    BY <2>1, <2>3, LinesKeep
<1>6. ASSUME NEW m \in Message, Yields(g, b, new, reply, checks, m)
      PROVE  HierarchyInv'
  <2>1. /\ \A c \in Core, x \in Block :
             l1'[c][x] = IF x = b /\ Master(c) = g /\ Valid(l1[c][b]) THEN SnoopedLine(l1[c][b], new) ELSE l1[c][x]
        /\ llc'[g][b] = SnoopedLine(WrittenBack(l1, llc, g, b, {}), new)
        /\ \A h \in Llc, x \in Block : h # g \/ x # b => llc'[h][x] = llc[h][x]
    BY <1>6 DEF Yields
  <2>2. \A line \in Line : SnoopedLine(line, new).st = new
    BY <1>2, LineFacts DEF SnoopedLine
  <2>3. llc'[g][b].st = new
    BY <1>1, <2>1, <2>2, WrittenBackFacts
  <2>4. \A d \in L1sOf(g) : l1'[d][b].st = "INVALID" \/ (l1[d][b].st # "INVALID" /\ l1'[d][b].st = new)
    <3>1. ASSUME NEW d \in L1sOf(g)
          PROVE  l1'[d][b].st = "INVALID" \/ (l1[d][b].st # "INVALID" /\ l1'[d][b].st = new)
      <4>1. l1[d][b] \in Line /\ d \in Core /\ Master(d) = g
        BY <1>1, <1>4 DEF L1Type
      <4>2. CASE Valid(l1[d][b])
        BY <2>1, <2>2, <4>1, <4>2 DEF Valid
      <4>3. CASE ~Valid(l1[d][b])
        BY <2>1, <4>1, <4>3 DEF Valid
      <4>4. QED
        BY <4>2, <4>3
    <3>2. QED
      BY <3>1
  <2>5. \A d \in L1sOf(g) : user[d].pc # "locked"
    BY <1>3, <1>4 DEF Free, HandoverInv, LockInv
  <2>6. LineNext(g, b)
    <3>1. LineOk(g, b, l1, llc[g][b].st, user, lock[g], waiters[g][b], net[g])
      BY HierarchyParts
    <3>2. \A d \in L1sOf(g) : Within(l1'[d][b].st, llc'[g][b].st) /\ l1'[d][b].st # "MODIFIED"
      BY <1>2, <2>3, <2>4 DEF Within
    <3>3. \A d \in L1sOf(g) : user'[d].block = b /\ user'[d].pc = "wait" => l1'[d][b].st = "INVALID"
      BY <1>3, <2>4, <3>1 DEF LineOk
    <3>4. net'[g] # b /\ ~HandedTo(b, lock'[g], waiters'[g][b], net'[g])
      BY <1>3, CoresAssumption DEF HandedTo
    <3>5. QED
      BY <1>3, <2>5, <3>2, <3>3, <3>4 DEF LineNext, LineOk
  <2>7. ASSUME NEW h \in Llc, NEW x \in Block, h # g \/ x # b
        PROVE  LineSame(h, x)
    <3>1. \A d \in L1sOf(h) : l1'[d][x] = l1[d][x]
      BY <1>4, <2>1, <2>7
    <3>2. QED
      BY <1>3, <2>1, <2>7, <3>1 DEF LineSame
  <2>8. QED
    BY <2>6, <2>7, LinesKeep
<1>7. QED
  BY <1>3, <1>5, <1>6
-----------------------------------------------------------------------------
(* The lines survive every step.                                           *)
HierarchyIInv == DirectoryIInv /\ dramDirect \in DramConfig /\ (Running => HierarchyInv)

LEMMA HierarchySame ==
    ASSUME HandoverInv, HandoverInv', HierarchyInv, UNCHANGED <<l1, llc, lock, waiters, user, net>>
    PROVE  HierarchyInv'
<1>1. ASSUME NEW g \in Llc, NEW b \in Block
      PROVE  LineNext(g, b)
  BY HierarchyParts DEF LineNext
<1>2. QED
  BY <1>1, HierarchyPartsNext

LEMMA HierarchyUser ==
    ASSUME TypeOK, HandoverInv, HandoverInv', ProtocolInv, HierarchyInv, NEW c \in Core, UserStep(c)
    PROVE  HierarchyInv'
<1>1. ASSUME NEW op \in Op, NEW b \in Block, Hit(c, op, b)
      PROVE  HierarchyInv'
  BY <1>1, HitLines
<1>2. ASSUME NEW op \in Op, NEW b \in Block, Miss(c, op, b)
      PROVE  HierarchyInv'
  BY <1>2, MissLines
<1>3. CASE MissHitsLlc(c)
  BY <1>3, MissHitsFills, FillStepLines
<1>4. CASE MissGoesToDram(c)
  <2>1. DirectInv
    BY <1>4 DEF MissGoesToDram, ProtocolInv
  <2>2. QED
    BY <1>4, <2>1, MissGoesToDramFills, FillStepLines
<1>5. CASE MissWaits(c)
  BY <1>5, MissWaitsLines
<1>6. CASE Resume(c)
  BY <1>6, ResumeFills, FillStepLines
<1>7. CASE Unlock(c)
  BY <1>7, UnlockLines
<1>8. QED
  BY <1>1, <1>2, <1>3, <1>4, <1>5, <1>6, <1>7 DEF UserStep

LEMMA HierarchyNet ==
    ASSUME TypeOK, TypeOK', HandoverInv, HandoverInv', DirectoryInv, HierarchyInv, Running',
           NEW g \in Llc, NetStep(g)
    PROVE  HierarchyInv'
<1>1. CASE NetResumes(g)
  BY <1>1, NetResumesLines
<1>2. ASSUME NEW b \in Block, HandleMsgFromDramDirectory(g, b)
      PROVE  HierarchyInv'
  <2>1. ASSUME NEW type \in {"EX_REP", "SH_REP"}, HandleDataRep(g, b, type)
        PROVE  HierarchyInv'
    BY <2>1, HandleDataRepLines
  <2>2. CASE HandleUpgradeRep(g, b)
    BY <2>2, HandleUpgradeRepLines
  <2>3. ASSUME NEW type, NEW new, NEW reply, NEW checks,
               DirRequest(type, new, reply), HandleDirReq(g, b, type, new, reply, checks)
        PROVE  HierarchyInv'
    BY <2>3, DirReqLines
  <2>4. CASE HandleInvReq(g, b)
    BY <2>3, <2>4 DEF HandleInvReq, DirRequest
  <2>5. CASE HandleFlushReq(g, b)
    BY <2>3, <2>5 DEF HandleFlushReq, DirRequest
  <2>6. CASE HandleWbReq(g, b)
    BY <2>3, <2>6 DEF HandleWbReq, DirRequest
  <2>7. QED
    BY <1>2, <2>1, <2>2, <2>4, <2>5, <2>6 DEF HandleMsgFromDramDirectory
<1>3. QED
  BY <1>1, <1>2 DEF NetStep

LEMMA HierarchyDir ==
    ASSUME HandoverInv, HandoverInv', HierarchyInv, NEW b \in Block, DirStep(b)
    PROVE  HierarchyInv'
<1>1. UNCHANGED <<l1, llc, lock, waiters, user, net>>
  BY DEF DirStep, DirForward, DirReply, DirReceive
<1>2. QED
  BY <1>1, HierarchySame

LEMMA HierarchyStep ==
    ASSUME HierarchyIInv, [Next]_vars
    PROVE  HierarchyIInv'
<1>1. DirectoryIInv /\ DirectoryIInv' /\ TypeOK /\ TypeOK'
  BY DirectoryStep DEF HierarchyIInv, DirectoryIInv, HandoverIInv
<1>2. SUFFICES ASSUME Running'
               PROVE  HierarchyInv'
  BY <1>1, SameConfig DEF HierarchyIInv
<1>3. HandoverInv'
  BY <1>1, <1>2 DEF DirectoryIInv, HandoverIInv
<1>4. CASE UNCHANGED vars
  <2>1. Running
    BY <1>2, <1>4 DEF vars, Running
  <2>2. HandoverInv /\ HierarchyInv
    BY <2>1 DEF HierarchyIInv, DirectoryIInv, HandoverIInv
  <2>3. UNCHANGED <<l1, llc, lock, waiters, user, net>>
    BY <1>4 DEF vars
  <2>4. QED
    BY <1>3, <2>2, <2>3, HierarchySame
<1>5. ASSUME \/ \E c \in Core : UserStep(c)
             \/ \E g \in Llc : NetStep(g)
             \/ \E b \in Block : DirStep(b)
      PROVE  HierarchyInv'
  <2>1. Running
    BY <1>5, OnlyRunning
  <2>2. HandoverInv /\ ProtocolInv /\ HierarchyInv
    BY <2>1 DEF HierarchyIInv, DirectoryIInv, HandoverIInv
  <2>3. CASE \E c \in Core : UserStep(c)
    BY <1>1, <1>3, <2>2, <2>3, HierarchyUser
  <2>4. ASSUME NEW g \in Llc, NetStep(g)
        PROVE  HierarchyInv'
    <3>1. DirectoryInv
      BY <1>1, <2>2, <2>4, DirectQuiet DEF ProtocolInv
    <3>2. QED
      BY <1>1, <1>2, <1>3, <2>2, <2>4, <3>1, HierarchyNet
  <2>5. CASE \E b \in Block : DirStep(b)
    BY <1>3, <2>2, <2>5, HierarchyDir
  <2>6. QED
    BY <1>5, <2>3, <2>4, <2>5
<1>6. QED
  BY <1>4, <1>5 DEF Next, Stopped

LEMMA HierarchyStart == Init => HierarchyIInv
<1> SUFFICES ASSUME Init
             PROVE  HierarchyIInv
  OBVIOUS
<1>1. DirectoryIInv
  BY DirectoryStart
<1>2. /\ \A c \in Core, b \in Block : l1[c][b].st = "INVALID"
      /\ \A c \in Core : user[c].pc = "idle"
      /\ \A g \in Llc : net[g] = NoBlock /\ lock[g].excl = FALSE
  BY LineFacts DEF Init, Idle, Free
<1>3. \A g \in Llc : \A c \in L1sOf(g) : c \in Core
  BY MasterFacts
<1>4. InclusionInv /\ DirtyInv
  BY <1>2 DEF InclusionInv, DirtyInv, Valid
<1>5. ThreadLineInv /\ ServedLineInv
  BY <1>2, CoresAssumption DEF ThreadLineInv, ServedLineInv, Handed
<1>6. QED
  BY <1>1, <1>4, <1>5 DEF HierarchyIInv, HierarchyInv, Init

(* The first-level lines, the threads and the LLC lines fit together at    *)
(* every step of a thread (processMemOpFromCore, its hand-over from the    *)
(* network thread, insertCacheBlock and updateCacheBlock): the caches are  *)
(* inclusive, a woken thread finds a line that it can use, and two copies  *)
(* are writable only while the lock is being passed on.                    *)
THEOREM HierarchyInvariant == Spec => []HierarchyIInv
<1>1. HierarchyIInv /\ [Next]_vars => HierarchyIInv'
  BY HierarchyStep
<1>2. QED
  BY <1>1, HierarchyStart, PTL DEF Spec
-----------------------------------------------------------------------------
(* All caches are inclusive, whatever the interleaving of evictions,       *)
(* invalidations and fills (insertCacheBlock, updateCacheBlock).           *)
THEOREM CachesInclusive == Spec => []Inclusion
<1>1. HierarchyIInv => Inclusion
  <2>1. ASSUME HierarchyIInv, Running
        PROVE  \A c \in Core, b \in Block :
                 /\ Valid(l1[c][b]) => Valid(llc[Master(c)][b])
                 /\ l1[c][b].st = "MODIFIED" => llc[Master(c)][b].st = "MODIFIED"
    BY <2>1 DEF HierarchyIInv, HierarchyInv, InclusionInv
  <2>2. QED
    BY <2>1 DEF Inclusion
<1>2. QED
  BY <1>1, HierarchyInvariant, PTL

(* An LLC with a DRAM controller is the only one.                          *)
LEMMA OneLlc ==
    ASSUME dramDirect, dramDirect \in DramConfig
    PROVE  \A c \in Core : Master(c) = 0
<1>1. SharedCores >= NumCores
  BY DirectAssumption
<1>2. ASSUME NEW c \in Core
      PROVE  Master(c) = 0
  <2>1. c \in Nat /\ c < SharedCores /\ SharedCores \in Nat
    BY <1>1, <1>2, CoresAssumption DEF Core
  <2>2. c % SharedCores = c
    BY <2>1
  <2>3. QED
    BY <2>1, <2>2 DEF Master
<1>3. QED
  BY <1>2

(* An LLC line that may be written has no copy in another LLC.             *)
LEMMA OwnerIsAlone ==
    ASSUME HierarchyIInv, Running, NEW c \in Core, NEW d \in Core, NEW b \in Block,
           llc[Master(c)][b].st \in OwnerState, Valid(llc[Master(d)][b])
    PROVE  Master(c) = Master(d)
<1>1. CASE dramDirect
  BY <1>1, OneLlc DEF HierarchyIInv
<1>2. CASE ~dramDirect
  <2>1. LlcOwnerAlone
    BY LlcsAlone DEF HierarchyIInv
  <2>2. QED
    BY <1>2, <2>1, MasterFacts DEF LlcOwnerAlone
<1>3. QED
  BY <1>1, <1>2

(* Of the caches below one LLC at most one can write a block, except while *)
(* the network thread passes the set lock to the requester of an upgraded  *)
(* line (processUpgradeRepFromDramDirectory).  Needs that the LLCs agree.  *)
THEOREM OneDirtyCopy == Spec => []SingleDirty
<1>1. HierarchyIInv => SingleDirty
  <2>1. ASSUME HierarchyIInv, Running, NEW c \in Core, NEW d \in Core, NEW b \in Block,
               l1[c][b].st = "MODIFIED", l1[d][b].st = "MODIFIED"
        PROVE  c = d \/ lock[Master(c)].excl
    <3>1. HierarchyInv
      BY <2>1 DEF HierarchyIInv
    <3>2. llc[Master(c)][b].st = "MODIFIED" /\ llc[Master(d)][b].st = "MODIFIED"
      BY <2>1, <3>1 DEF HierarchyInv, InclusionInv
    <3>3. Master(c) = Master(d)
      BY <2>1, <3>2, OwnerIsAlone DEF OwnerState, Valid
    <3>4. d \in L1sOf(Master(c))
      BY <3>3, MasterFacts
    <3>5. d = c \/ Handed(Master(c), b)
      BY <2>1, <3>1, <3>4 DEF HierarchyInv, DirtyInv
    <3>6. QED
      BY <3>5 DEF Handed
  <2>2. QED
    BY <2>1 DEF SingleDirty
<1>2. QED
  BY <1>1, HierarchyInvariant, PTL

(* With an LLC for each core, a copy that may be written, or is EXCLUSIVE, *)
(* is the only first-level copy, through all the messages of the directory *)
(* (operationPermissibleinCache, updateCacheBlock).  Cores that share an   *)
(* LLC break this: a fill copies the EXCLUSIVE state of the LLC.           *)
THEOREM OwnerOnly == SharedCores = 1 => (Spec => []SingleOwner)
<1>1. ASSUME SharedCores = 1, HierarchyIInv
      PROVE  SingleOwner
  <2>1. SUFFICES ASSUME Running, NEW c \in Core, NEW d \in Core, NEW b \in Block,
                        c # d, l1[c][b].st \in OwnerState, Valid(l1[d][b])
                 PROVE  FALSE
    BY DEF SingleOwner, OwnerState
  <2>2. HierarchyInv
    BY <1>1, <2>1 DEF HierarchyIInv
  <2>3. llc[Master(c)][b].st \in OwnerState /\ Valid(llc[Master(d)][b])
    BY <2>1, <2>2 DEF HierarchyInv, InclusionInv, OwnerState
  <2>4. Master(c) = Master(d)
    BY <1>1, <2>1, <2>3, OwnerIsAlone
  <2>5. c % 1 = 0 /\ d % 1 = 0 /\ c \in Int /\ d \in Int
    BY <2>1, CoresAssumption DEF Core
  <2>6. Master(c) = c /\ Master(d) = d
    BY <1>1, <2>5 DEF Master
  <2>7. QED
    BY <2>1, <2>4, <2>6
<1>2. SUFFICES ASSUME SharedCores = 1
               PROVE  Spec => []SingleOwner
  OBVIOUS
<1>3. HierarchyIInv => SingleOwner
  BY <1>1, <1>2
<1>4. QED
  BY <1>3, HierarchyInvariant, PTL
-----------------------------------------------------------------------------
(* The assertions of the code.                                             *)

(* Of the assertions A at most those with a label in F fail.               *)
Passes(A, F) == \A x \in A : x[1] \in F \/ x[2]

LEMMA PassesEnds ==
    ASSUME NEW A, Checked(A), NEW F, Passes(A, F)
    PROVE  failed' \subseteq F
  BY CheckedHolds DEF Passes

LEMMA PassesUnion == \A A, B, F : Passes(A, F) /\ Passes(B, F) => Passes(A \cup B, F)
  BY DEF Passes

LEMMA PassesOne == \A P \in BOOLEAN : \A l, F : P \/ l \in F => Passes({<<l, P>>}, F)
  BY DEF Passes

LEMMA PassesThree ==
    \A P, Q, R \in BOOLEAN : \A k, l, m, F :
        (P \/ k \in F) /\ (Q \/ l \in F) /\ (R \/ m \in F) => Passes({<<k, P>>, <<l, Q>>, <<m, R>>}, F)
  BY DEF Passes

(* A snoop that meets dirty data meets a MODIFIED LLC line.                *)
LEMMA DirtyAccepted ==
    ASSUME HierarchyInv, NEW g \in Llc, NEW b \in Block, NEW skip, Dirty(l1, g, b, skip) # {}
    PROVE  llc[g][b].st = "MODIFIED"
<1>1. PICK d \in L1sOf(g) : l1[d][b].st = "MODIFIED"
  BY DEF Dirty
<1>2. d \in Core /\ Master(d) = g
  BY MasterFacts
<1>3. QED
  BY <1>1, <1>2 DEF HierarchyInv, InclusionInv

LEMMA RequestChecksPass ==
    ASSUME HierarchyInv, NEW c \in Core, user[c].block \in Block, NEW F
    PROVE  Passes(RequestChecks(c), F)
<1>1. PICK g \in Llc, b \in Block : g = Master(c) /\ b = user[c].block
  BY MasterFacts
<1>2. PICK P \in BOOLEAN :
         P <=> (Snoops(llc[g][b].st, user[c].op) /\ Dirty(l1, g, b, {c}) # {} => llc[g][b].st = "MODIFIED")
  OBVIOUS
<1>3. P
  BY <1>2, DirtyAccepted
<1>4. RequestChecks(c) = {<<"writeback", P>>}
  BY <1>1, <1>2 DEF RequestChecks
<1>5. Passes({<<"writeback", P>>}, F)
  BY <1>3, PassesOne
<1>6. QED
  BY <1>4, <1>5

LEMMA MissChecksPass ==
    ASSUME HierarchyInv, NEW c \in Core, user[c].block \in Block, user[c].pc = "miss",
           lock[Master(c)] = Free, NEW F
    PROVE  Passes(MissChecks(c), F)
<1>1. PICK P \in BOOLEAN : P <=> l1[c][user[c].block].st # "MODIFIED"
  OBVIOUS
<1>2. P
  BY <1>1 DEF HierarchyInv, DirtyInv, Handed, Free
<1>3. <<"invalidate", l1[c][user[c].block].st # "MODIFIED">> = <<"invalidate", P>>
  BY <1>1
<1>4. Passes(RequestChecks(c), F) /\ Passes({<<"invalidate", P>>}, F)
  BY <1>2, PassesOne, RequestChecksPass
<1>5. MissChecks(c) = RequestChecks(c) \cup {<<"invalidate", P>>}
  BY <1>3 DEF MissChecks
<1>6. QED
  BY <1>4, <1>5, PassesUnion

(* A fill of the first level: the line is usable, it was not there, and    *)
(* the line that goes finds its data accepted.                             *)
LEMMA FillPasses ==
    ASSUME TypeOK, HierarchyInv,
           NEW c \in Core, NEW op \in Op, NEW b \in Block, NEW g \in Llc, g = Master(c),
           NEW L1 \in L1Type, NEW LLC \in LlcType, NEW DRAM \in [Block -> BOOLEAN], NEW checks,
           FillAndComplete(c, op, b, L1, LLC, DRAM, checks),
           Prepared(c, op, b, g, L1, LLC), NEW F, Passes(checks, F)
    PROVE  failed' \subseteq F
<1>0. PICK v \in L1Victims(L1, c) :
        Checked(checks \cup
               {<<"gone", operationPermissibleinCache(LLC[Master(c)][b].st, op)>>,
                <<"insert", ~Valid(L1[c][b])>>,
                <<"writeback", v # NoBlock /\ L1[c][v].st = "MODIFIED"
                                => LLC[Master(c)][v].st = "MODIFIED">>})
  BY DEF FillAndComplete
<1>1. v = NoBlock \/ (v \in Block /\ Valid(L1[c][v]))
  BY VictimFacts
<1>2. PICK P, Q, R \in BOOLEAN :
         /\ P <=> operationPermissibleinCache(LLC[Master(c)][b].st, op)
         /\ Q <=> ~Valid(L1[c][b])
         /\ R <=> (v # NoBlock /\ L1[c][v].st = "MODIFIED" => LLC[Master(c)][v].st = "MODIFIED")
  OBVIOUS
<1>3. /\ <<"gone", operationPermissibleinCache(LLC[Master(c)][b].st, op)>> = <<"gone", P>>
      /\ <<"insert", ~Valid(L1[c][b])>> = <<"insert", Q>>
      /\ <<"writeback", v # NoBlock /\ L1[c][v].st = "MODIFIED"
                        => LLC[Master(c)][v].st = "MODIFIED">> = <<"writeback", R>>
  BY <1>2 DEF operationPermissibleinCache, Valid
<1>4. Checked(checks \cup {<<"gone", P>>, <<"insert", Q>>, <<"writeback", R>>})
  BY <1>0, <1>3
<1>5. P
  BY <1>2 DEF Prepared, operationPermissibleinCache, Readable
<1>6. Q
  BY <1>2 DEF Prepared, Valid
<1>7. R
  <2>1. SUFFICES ASSUME v # NoBlock, L1[c][v].st = "MODIFIED"
                 PROVE  LLC[g][v].st = "MODIFIED"
    BY <1>2
  <2>2. v \in Block /\ v # b /\ c \in L1sOf(g)
    BY <1>1, <2>1, MasterFacts DEF Prepared
  <2>3. l1[c][v].st = "MODIFIED"
    BY <2>1, <2>2 DEF Prepared
  <2>4. llc[g][v].st = "MODIFIED"
    BY <2>2, <2>3 DEF HierarchyInv, InclusionInv
  <2>5. LLC[g][v].st = llc[g][v].st
    BY <2>1, <2>2 DEF Prepared
  <2>6. QED
    BY <2>4, <2>5
<1>8. Passes({<<"gone", P>>, <<"insert", Q>>, <<"writeback", R>>}, F)
  BY <1>5, <1>6, <1>7, PassesThree
<1>9. Passes(checks \cup {<<"gone", P>>, <<"insert", Q>>, <<"writeback", R>>}, F)
  BY <1>8, PassesUnion
<1>10. QED
  BY <1>4, <1>9, PassesEnds

LEMMA FillStepPasses ==
    ASSUME TypeOK, HierarchyInv, NEW c \in Core, NEW checks, FillStep(c, checks), NEW F, Passes(checks, F)
    PROVE  failed' \subseteq F
<1>1. PICK op \in Op, b \in Block, g \in Llc, L1 \in L1Type, LLC \in LlcType, DRAM \in [Block -> BOOLEAN] :
        FillFrom(c, op, b, g, L1, LLC, DRAM, checks)
  BY DEF FillStep
<1>2. QED
  BY <1>1, FillPasses DEF FillFrom

LEMMA UnlockPasses ==
    ASSUME HierarchyInv, NEW c \in Core, Unlock(c)
    PROVE  failed' \subseteq {}
<1>1. PICK P \in BOOLEAN : P <=> l1[c][user[c].block].st = "MODIFIED"
  OBVIOUS
<1>2. P
  BY <1>1 DEF Unlock, HierarchyInv, ThreadLineInv
<1>3. <<"unlock", operationPermissibleinCache(l1[c][user[c].block].st, "WRITE")>> = <<"unlock", P>>
  BY <1>1 DEF operationPermissibleinCache
<1>4. Checked({<<"unlock", P>>})
  BY <1>3 DEF Unlock
<1>5. Passes({<<"unlock", P>>}, {})
  BY <1>2, PassesOne
<1>6. QED
  BY <1>4, <1>5, PassesEnds

(* Nobody asks for a line exclusively that the LLC holds: the line would   *)
(* serve the request, or is SHARED and upgraded, or waits for an upgrade,  *)
(* and then somebody waits for it already.                                 *)
LEMMA MissWaitsPasses ==
    ASSUME TypeOK, HandoverInv, HierarchyInv, DirectoryInv, NEW c \in Core, MissWaits(c)
    PROVE  failed' \subseteq {}
<1>1. PICK b \in Block, op \in Op : b = user[c].block /\ op = user[c].op
  <2>1. user[c].pc = "miss"
    BY DEF MissWaits, HasStackLock
  <2>2. QED
    BY TypeParts, <2>1, RequestTypes
<1>2. PICK g \in Llc, st \in CState : g = Master(c) /\ st = llc[g][b].st
  BY MasterFacts, PartTypes
<1>3. PICK N, U \in BOOLEAN : (N <=> waiters[g][b] = <<>>) /\ (U <=> N /\ op # "READ" /\ st = "SHARED")
  OBVIOUS
<1>4. PICK request : request = CASE op = "READ" -> "SH_REQ" [] U -> "UPGRADE_REQ" [] OTHER -> "EX_REQ"
  OBVIOUS
<1>5. PICK P \in BOOLEAN : P <=> (N /\ request = "EX_REQ" => Valid(llc[g][b]) = FALSE)
  OBVIOUS
<1>6. ~Serves(st, op) /\ user[c].pc = "miss" /\ lock[g] = Free
  BY <1>1, <1>2 DEF MissWaits, HasStackLock
<1>7. P
  <2>1. SUFFICES ASSUME N, request = "EX_REQ", Valid(llc[g][b])
                 PROVE  FALSE
    BY <1>5 DEF Valid
  <2>2. op # "READ" /\ ~U
    BY <1>4, <2>1
  <2>3. st = "SHARED_UPGRADING"
    <3>1. st \in CState /\ st # "INVALID"
      BY <1>2, <2>1, PartTypes DEF Valid
    <3>2. QED
      BY <1>3, <1>6, <2>1, <2>2, <3>1 DEF CState, Serves, operationPermissibleinCache
  <2>4. LinkedAt(g, b, llc[g][b].st, up[g][b], down[g][b], dir[b], waiters[g][b], net[g])
    BY DirectoryParts
  <2>5. Upgrading(g, up[g][b], down[g][b], dir[b])
    BY <1>2, <2>3, <2>4 DEF LinkedAt, LinkInv, RequestState
  <2>6. Asked(g, up[g][b], down[g][b], dir[b])
    BY <2>5, UpgradingAsks
  <2>7. waiters[g][b] # <<>>
    BY <2>4, <2>6 DEF LinkedAt
  <2>8. QED
    BY <1>3, <2>1, <2>7
<1>8. Checked(MissChecks(c) \cup {<<"exreq", N /\ request = "EX_REQ" => ~Valid(llc[g][b])>>})
  BY <1>1, <1>2, <1>3, <1>4 DEF MissWaits
<1>9. <<"exreq", N /\ request = "EX_REQ" => ~Valid(llc[g][b])>> = <<"exreq", P>>
  BY <1>5 DEF Valid
<1>10. Passes(MissChecks(c), {}) /\ Passes({<<"exreq", P>>}, {})
  BY <1>1, <1>2, <1>6, <1>7, MissChecksPass, PassesOne
<1>11. Passes(MissChecks(c) \cup {<<"exreq", P>>}, {})
  BY <1>10, PassesUnion
<1>12. QED
  BY <1>8, <1>9, <1>11, PassesEnds

LEMMA WritebackPasses ==
    ASSUME HierarchyInv, NEW g \in Llc, NEW b \in Block, NEW F
    PROVE  Passes({WritebackAccepted(g, b)}, F)
<1>1. PICK P \in BOOLEAN : P <=> (Dirty(l1, g, b, {}) # {} => llc[g][b].st = "MODIFIED")
  OBVIOUS
<1>2. P
  BY <1>1, DirtyAccepted
<1>3. WritebackAccepted(g, b) = <<"writeback", P>>
  BY <1>1 DEF WritebackAccepted
<1>4. Passes({<<"writeback", P>>}, F)
  BY <1>2, PassesOne
<1>5. QED
  BY <1>3, <1>4

(* A reply with data may find that only a line that waits for an upgrade   *)
(* can go; all else fits.                                                  *)
LEMMA HandleDataRepPasses ==
    ASSUME TypeOK, DirectoryInv, NEW g \in Llc, NEW b \in Block, NEW type \in {"EX_REP", "SH_REP"},
           HandleDataRep(g, b, type)
    PROVE  failed' \subseteq {"evict"}
<1>1. down[g][b] # <<>> /\ Head(down[g][b]).type = type
  BY DEF HandleDataRep, Received
<1>2. llc[g][b].st = "INVALID" /\ waiters[g][b] # <<>>
  BY <1>1, DataRepExpected
<1>3. PICK v \in LlcVictims(llc, g) :
        Checked({<<"insert", ~Valid(llc[g][b])>>,
                 <<"waiter", waiters[g][b] # <<>> >>,
                 <<"evict", v # NoBlock => llc[g][v].st # "SHARED_UPGRADING">>})
  BY DEF HandleDataRep
<1>4. PICK P, Q, R \in BOOLEAN :
        /\ P <=> ~Valid(llc[g][b])
        /\ Q <=> waiters[g][b] # <<>>
        /\ R <=> (v # NoBlock => llc[g][v].st # "SHARED_UPGRADING")
  OBVIOUS
<1>5. /\ <<"insert", ~Valid(llc[g][b])>> = <<"insert", P>>
      /\ <<"waiter", waiters[g][b] # <<>> >> = <<"waiter", Q>>
      /\ <<"evict", v # NoBlock => llc[g][v].st # "SHARED_UPGRADING">> = <<"evict", R>>
  BY <1>4 DEF Valid
<1>6. Checked({<<"insert", P>>, <<"waiter", Q>>, <<"evict", R>>})
  BY <1>3, <1>5
<1>7. P /\ Q
  BY <1>2, <1>4 DEF Valid
<1>8. PICK F : F = {"evict"}
  OBVIOUS
<1>9. Passes({<<"insert", P>>, <<"waiter", Q>>, <<"evict", R>>}, F)
  BY <1>7, <1>8, PassesThree
<1>10. failed' \subseteq F
  BY <1>6, <1>9, PassesEnds
<1>11. QED
  BY <1>8, <1>10

LEMMA HandleUpgradeRepPasses ==
    ASSUME TypeOK, DirectoryInv, HierarchyInv, NEW g \in Llc, NEW b \in Block, HandleUpgradeRep(g, b)
    PROVE  failed' \subseteq {"out_buf"}
<1>1. down[g][b] # <<>> /\ Head(down[g][b]).type = "UPGRADE_REP"
  BY DEF HandleUpgradeRep, Received
<1>2. llc[g][b].st \in {"INVALID", "SHARED_UPGRADING"} /\ waiters[g][b] # <<>>
  BY <1>1, UpgradeRepExpected
<1>3. PICK P, Q, R \in BOOLEAN :
        /\ P <=> Valid(llc[g][b])
        /\ Q <=> llc[g][b].st \in {"INVALID", "SHARED_UPGRADING"}
        /\ R <=> waiters[g][b] # <<>>
  OBVIOUS
<1>4. /\ <<"out_buf", Valid(llc[g][b])>> = <<"out_buf", P>>
      /\ <<"upgrade", llc[g][b].st \in {"INVALID", "SHARED_UPGRADING"}>> = <<"upgrade", Q>>
      /\ <<"waiter", waiters[g][b] # <<>> >> = <<"waiter", R>>
  BY <1>3 DEF Valid
<1>5. PICK A, B : /\ A = {<<"out_buf", P>>, <<"upgrade", Q>>, <<"waiter", R>>}
                  /\ B = {WritebackAccepted(g, b)}
  OBVIOUS
<1>6. Checked(A \cup B)
  <2>1. Checked({<<"out_buf", Valid(llc[g][b])>>,
                 <<"upgrade", llc[g][b].st \in {"INVALID", "SHARED_UPGRADING"}>>,
                 <<"waiter", waiters[g][b] # <<>> >>,
                 WritebackAccepted(g, b)})
    BY DEF HandleUpgradeRep
  <2>2. Checked({<<"out_buf", P>>, <<"upgrade", Q>>, <<"waiter", R>>, WritebackAccepted(g, b)})
    BY <1>4, <2>1
  <2>3. {<<"out_buf", P>>, <<"upgrade", Q>>, <<"waiter", R>>, WritebackAccepted(g, b)} = A \cup B
    BY <1>5
  <2>4. QED
    BY <2>2, <2>3
<1>7. PICK F : F = {"out_buf"}
  OBVIOUS
<1>8. Passes({<<"out_buf", P>>, <<"upgrade", Q>>, <<"waiter", R>>}, F)
  BY <1>2, <1>3, <1>7, PassesThree
<1>9. Passes(A, F) /\ Passes(B, F)
  BY <1>5, <1>8, WritebackPasses
<1>10. failed' \subseteq F
  BY <1>6, <1>9, PassesUnion, PassesEnds
<1>11. QED
  BY <1>7, <1>10

(* The directory invalidates only lines that it knows to be clean.         *)
LEMMA DirReqPasses ==
    ASSUME TypeOK, Running, HierarchyInv, NEW g \in Llc, NEW b \in Block, NEW type, NEW new, NEW reply, NEW checks,
           DirRequest(type, new, reply), HandleDirReq(g, b, type, new, reply, checks),
           Valid(llc[g][b]) => Passes(checks, {})
    PROVE  failed' \subseteq {}
<1>1. new \in CState /\ reply \in GONE \cup {"WB_REP"}
  BY DirRequestFacts
<1>2. UNCHANGED failed \/ \E m \in Message : Yields(g, b, new, reply, checks, m)
  BY <1>1, DirReqFacts
<1>3. CASE UNCHANGED failed
  BY <1>3 DEF Running
<1>4. ASSUME NEW m \in Message, Yields(g, b, new, reply, checks, m)
      PROVE  failed' \subseteq {}
  <2>1. Valid(llc[g][b]) /\ Checked(checks \cup {WritebackAccepted(g, b)})
    BY <1>4 DEF Yields
  <2>2. Passes(checks, {}) /\ Passes({WritebackAccepted(g, b)}, {})
    BY <2>1, WritebackPasses
  <2>3. QED
    BY <2>1, <2>2, PassesUnion, PassesEnds
<1>5. QED
  BY <1>2, <1>3, <1>4

LEMMA NotLost ==
    ASSUME TypeOK, DirectoryInv, NEW g \in Llc, NEW b \in Block, HandleInvReq(g, b), Valid(llc[g][b])
    PROVE  Passes({<<"lost", llc[g][b].st # "MODIFIED">>}, {})
<1>1. down[g][b] # <<>> /\ Head(down[g][b]).type = "INV_REQ"
  BY DEF HandleInvReq, HandleDirReq, Received
<1>2. llc[g][b].st # "MODIFIED"
  BY <1>1, DirReqExpected DEF FWD, OwnerState
<1>3. PICK P \in BOOLEAN : P <=> llc[g][b].st # "MODIFIED"
  OBVIOUS
<1>4. <<"lost", llc[g][b].st # "MODIFIED">> = <<"lost", P>>
  BY <1>3
<1>5. Passes({<<"lost", P>>}, {})
  BY <1>2, <1>3, PassesOne
<1>6. QED
  BY <1>4, <1>5

LEMMA UserPasses ==
    ASSUME TypeOK, Running, HandoverInv, ProtocolInv, HierarchyInv, NEW c \in Core, UserStep(c)
    PROVE  failed' \subseteq {}
<1>1. ASSUME NEW op \in Op, NEW b \in Block, Hit(c, op, b) \/ Miss(c, op, b)
      PROVE  failed' \subseteq {}
  BY <1>1 DEF Hit, Miss, Running
<1>2. ASSUME user[c].pc = "miss", lock[Master(c)] = Free
      PROVE  Passes(MissChecks(c), {})
  <2>1. user[c].block \in Block
    BY <1>2 DEF HandoverInv, UserInv
  <2>2. QED
    BY <1>2, <2>1, MissChecksPass
<1>3. CASE MissHitsLlc(c)
  <2>1. FillStep(c, MissChecks(c))
    BY <1>3, MissHitsFills
  <2>2. Passes(MissChecks(c), {})
    BY <1>2, <1>3 DEF MissHitsLlc, HasStackLock
  <2>3. QED
    BY <2>1, <2>2, FillStepPasses
<1>4. CASE MissGoesToDram(c)
  <2>1. DirectInv
    BY <1>4 DEF MissGoesToDram, ProtocolInv
  <2>2. FillStep(c, MissChecks(c))
    BY <1>4, <2>1, MissGoesToDramFills
  <2>3. Passes(MissChecks(c), {})
    BY <1>2, <1>4 DEF MissGoesToDram, HasStackLock
  <2>4. QED
    BY <2>2, <2>3, FillStepPasses
<1>5. CASE MissWaits(c)
  <2>1. DirectoryInv
    BY <1>5 DEF MissWaits, ProtocolInv
  <2>2. QED
    BY <1>5, <2>1, MissWaitsPasses
<1>6. CASE Resume(c)
  <2>1. FillStep(c, RequestChecks(c))
    BY <1>6, ResumeFills
  <2>2. user[c].block \in Block
    BY <1>6 DEF Resume, HandoverInv, UserInv
  <2>3. Passes(RequestChecks(c), {})
    BY <2>2, RequestChecksPass
  <2>4. QED
    BY <2>1, <2>3, FillStepPasses
<1>7. CASE Unlock(c)
  BY <1>7, UnlockPasses
<1>8. QED
  BY <1>1, <1>3, <1>4, <1>5, <1>6, <1>7 DEF UserStep

LEMMA NetPasses ==
    ASSUME TypeOK, Running, DirectoryInv, HierarchyInv, NEW g \in Llc, NetStep(g)
    PROVE  failed' \subseteq {"evict", "out_buf"}
<1>1. CASE NetResumes(g)
  BY <1>1 DEF NetResumes, Running
<1>2. ASSUME NEW b \in Block, HandleMsgFromDramDirectory(g, b)
      PROVE  failed' \subseteq {"evict", "out_buf"}
  <2>1. ASSUME NEW type \in {"EX_REP", "SH_REP"}, HandleDataRep(g, b, type)
        PROVE  failed' \subseteq {"evict"}
    BY <2>1, HandleDataRepPasses
  <2>2. CASE HandleUpgradeRep(g, b)
    BY <2>2, HandleUpgradeRepPasses
  <2>3. ASSUME NEW type, NEW new, NEW reply, NEW checks,
               DirRequest(type, new, reply), HandleDirReq(g, b, type, new, reply, checks),
               Valid(llc[g][b]) => Passes(checks, {})
        PROVE  failed' \subseteq {}
    BY <2>3, DirReqPasses
  <2>4. Passes({}, {})
    BY DEF Passes
  <2>5. CASE HandleInvReq(g, b)
    <3>1. Valid(llc[g][b]) => Passes({<<"lost", llc[g][b].st # "MODIFIED">>}, {})
      BY <2>5, NotLost
    <3>2. HandleDirReq(g, b, "INV_REQ", "INVALID", "INV_REP", {<<"lost", llc[g][b].st # "MODIFIED">>})
      BY <2>5 DEF HandleInvReq
    <3>3. QED
      BY <2>3, <3>1, <3>2 DEF DirRequest
  <2>6. CASE HandleFlushReq(g, b)
    BY <2>3, <2>4, <2>6 DEF HandleFlushReq, DirRequest
  <2>7. CASE HandleWbReq(g, b)
    BY <2>3, <2>4, <2>7 DEF HandleWbReq, DirRequest
  <2>8. QED
    BY <1>2, <2>1, <2>2, <2>5, <2>6, <2>7 DEF HandleMsgFromDramDirectory
<1>3. QED
  BY <1>1, <1>2 DEF NetStep

(* What can fail, on top of the lines: a fill from the directory may find  *)
(* only a line that waits for an upgrade to evict, and an upgraded line    *)
(* may be gone, whose data comes in a buffer that is set already.          *)
FailureIInv == HierarchyIInv /\ FailureInv

LEMMA FailureStep ==
    ASSUME FailureIInv, [Next]_vars
    PROVE  FailureIInv'
<1>1. HierarchyIInv /\ HierarchyIInv' /\ TypeOK /\ UNCHANGED dramDirect
  BY HierarchyStep, SameConfig DEF FailureIInv, HierarchyIInv, DirectoryIInv, HandoverIInv
<1>2. SUFFICES FailureInv'
  BY <1>1 DEF FailureIInv
<1>3. CASE UNCHANGED vars
  BY <1>3 DEF vars, FailureIInv, FailureInv
<1>4. ASSUME \/ \E c \in Core : UserStep(c)
             \/ \E g \in Llc : NetStep(g)
             \/ \E b \in Block : DirStep(b)
      PROVE  FailureInv'
  <2>1. Running
    BY <1>4, OnlyRunning
  <2>2. HandoverInv /\ ProtocolInv /\ HierarchyInv
    BY <1>1, <2>1 DEF HierarchyIInv, DirectoryIInv, HandoverIInv
  <2>3. CASE \E c \in Core : UserStep(c)
    <3>1. failed' \subseteq {}
      BY <1>1, <2>1, <2>2, <2>3, UserPasses
    <3>2. QED
      BY <3>1 DEF FailureInv
  <2>4. ASSUME NEW g \in Llc, NetStep(g)
        PROVE  FailureInv'
    <3>1. DirectoryInv /\ ~dramDirect
      BY <1>1, <2>2, <2>4, DirectQuiet DEF ProtocolInv
    <3>2. failed' \subseteq {"evict", "out_buf"}
      BY <1>1, <2>1, <2>2, <2>4, <3>1, NetPasses
    <3>3. QED
      BY <1>1, <3>1, <3>2 DEF FailureInv
  <2>5. CASE \E b \in Block : DirStep(b)
    <3>1. failed' = failed
      BY <2>5 DEF DirStep, DirForward, DirReply, DirReceive
    <3>2. QED
      BY <2>1, <3>1 DEF FailureInv, Running
  <2>6. QED
    BY <1>4, <2>3, <2>4, <2>5
<1>5. QED
  BY <1>3, <1>4 DEF Next, Stopped

(* Of all the assertions of the controllers only two can fail: an eviction *)
(* that chooses a line in SHARED_UPGRADING (insertCacheBlock), and the     *)
(* reply to an upgrade whose line has been invalidated (updateCacheBlock). *)
THEOREM OnlyTwoFail == Spec => []FailureIInv
<1>1. Init => FailureIInv
  BY HierarchyStart DEF FailureIInv, FailureInv, Init
<1>2. FailureIInv /\ [Next]_vars => FailureIInv'
  BY FailureStep
<1>3. QED
  BY <1>1, <1>2, PTL DEF Spec

(* No dirty data is dropped by an invalidation, and every write-back of a  *)
(* first-level cache finds a MODIFIED LLC line (writeCacheBlock).          *)
THEOREM DirtyDataIsTaken == Spec => []DirtyDataTaken
<1>1. FailureIInv => DirtyDataTaken
  BY DEF FailureIInv, FailureInv, DirtyDataTaken
<1>2. QED
  BY <1>1, OnlyTwoFail, PTL

(* A thread that was woken finds the line that it waited for, in a state   *)
(* for its operation (copyDataFromNextLevel), and the write that ends an   *)
(* atomic pair finds the line that its READ_EX has locked.                 *)
THEOREM DataIsStillThere == Spec => []DataStillThere
<1>1. FailureIInv => DataStillThere
  BY DEF FailureIInv, FailureInv, DataStillThere
<1>2. QED
  BY <1>1, OnlyTwoFail, PTL

(* Each reply of the directory finds the line and the waiter that it is    *)
(* for (processExRep, processShRep and processUpgradeRep), and no fill     *)
(* finds its line there already.                                           *)
THEOREM RepliesAreExpected == Spec => []RepliesMatch
<1>1. FailureIInv => RepliesMatch
  BY DEF FailureIInv, FailureInv, RepliesMatch
<1>2. QED
  BY <1>1, OnlyTwoFail, PTL

(* An LLC with the DRAM controller (m_dram_cntlr) never fails an assertion.*)
THEOREM DirectIsSafe == Spec => []DirectNeverFails
<1>1. FailureIInv => DirectNeverFails
  BY DEF FailureIInv, FailureInv, DirectNeverFails
<1>2. QED
  BY <1>1, OnlyTwoFail, PTL

-----------------------------------------------------------------------------
(* The data of the last write to each block: the fourth layer of the       *)
(* invariant.                                                              *)
WRITEBACK == {"WB_REP", "FLUSH_REP"}
DATAREP == {"SH_REP", "EX_REP"}

(* The messages of types T in s carry current data.                        *)
Carry(s, T) == \A i \in DOMAIN s : s[i].type \in T => s[i].cur

(* The last write is in the LLC line t, or on its way up in U.             *)
Holds(t, U) == t.st = "MODIFIED" \/ Has(U, WRITEBACK)

(* Whoever needs current first-level copies of b: an upgrade (st is the    *)
(* state of the LLC line, n the block that is served), and private LLCs.   *)
NeedsCopies(b, st, n) == st = "SHARED_UPGRADING" \/ (n = b /\ st = "SHARED") \/ SharedCores = 1

(* The copies of b at the LLC of g: L are the first-level caches, t is the *)
(* LLC line, U and D are the messages, r says whether the DRAM is current. *)
SideOk(g, b, L, t, U, D, n, r) ==
    /\ Carry(U, WRITEBACK)
    /\ Carry(D, DATAREP)
    /\ t.st = "EXCLUSIVE" \/ Has(D, {"EX_REP"}) => r
    /\ Valid(t) => t.cur \/ \E c \in L1sOf(g) : L[c][b].st = "MODIFIED"
    /\ \A c \in L1sOf(g) : L[c][b].st = "MODIFIED" => L[c][b].cur
    /\ NeedsCopies(b, t.st, n) => \A c \in L1sOf(g) : Valid(L[c][b]) => L[c][b].cur

Kept(b, K, M, U) == M[b] \/ \E g \in Llc : Holds(K[g][b], U[g][b])

DataIs(L, K, M, U, D, n) ==
    \A b \in Block :
        /\ Kept(b, K, M, U)
        /\ \A g \in Llc : SideOk(g, b, L, K[g][b], U[g][b], D[g][b], n[g], M[b])

LEMMA DataParts == DataInv <=> DataIs(l1, llc, dram, up, down, net)
<1>1. ASSUME DataInv, NEW b \in Block, NEW g \in Llc
      PROVE  SideOk(g, b, l1, llc[g][b], up[g][b], down[g][b], net[g], dram[b])
  BY <1>1, MasterFacts
     DEF DataInv, DramData, MessageData, LineData, PrivateData, SideOk, Carry, NeedsCopies, WRITEBACK, DATAREP
<1>2. ASSUME DataInv, NEW b \in Block
      PROVE  Kept(b, llc, dram, up)
  BY <1>2 DEF DataInv, DramData, Kept, Holds, WRITEBACK
<1>3. ASSUME DataIs(l1, llc, dram, up, down, net)
      PROVE  DataInv
  <2>1. \A b \in Block, g \in Llc : SideOk(g, b, l1, llc[g][b], up[g][b], down[g][b], net[g], dram[b])
    BY <1>3 DEF DataIs
  <2>2. \A b \in Block : Kept(b, llc, dram, up)
    BY <1>3 DEF DataIs
  <2>3. \A b \in Block : DramData(b)
    BY <2>1, <2>2 DEF DramData, Kept, Holds, SideOk, WRITEBACK
  <2>4. \A g \in Llc, b \in Block : MessageData(g, b)
    BY <2>1 DEF MessageData, SideOk, Carry, WRITEBACK, DATAREP
  <2>5. \A g \in Llc, b \in Block : LineData(g, b)
    BY <2>1 DEF LineData, SideOk, NeedsCopies
  <2>6. PrivateData
    BY <2>1, MasterFacts DEF PrivateData, SideOk, NeedsCopies
  <2>7. QED
    BY <2>3, <2>4, <2>5, <2>6 DEF DataInv
<1>4. QED
  BY <1>1, <1>2, <1>3 DEF DataIs

DataHere == DataIs(l1, llc, dram, up, down, net)

LEMMA DataHereNext == DataInv' <=> DataHere'
<1>1. DataInv <=> DataHere
  BY DataParts DEF DataHere
<1>2. QED
  BY <1>1, PTL

LEMMA DataPartsNext == DataInv' <=> DataIs(l1', llc', dram', up', down', net')
  BY DataHereNext DEF DataHere

(* A side whose lines and messages stay.                                   *)
LEMMA SideKept ==
    ASSUME NEW g, NEW b, NEW L, NEW t, NEW U, NEW D, NEW n, NEW r, SideOk(g, b, L, t, U, D, n, r),
           NEW L2, \A c \in L1sOf(g) : L2[c][b] = L[c][b],
           NEW n2, n2 = b => n = b, NEW r2, r => r2
    PROVE  SideOk(g, b, L2, t, U, D, n2, r2)
  BY DEF SideOk, NeedsCopies

LEMMA HasParts ==
    ASSUME NEW s
    PROVE  /\ Has(s, WRITEBACK) => Has(s, {"WB_REP"}) \/ Has(s, GONE)
           /\ Has(s, WRITEBACK) => Has(s, {"WB_REP", "FLUSH_REP"})
           /\ Has(s, DATAREP) => Has(s, REP)
           /\ Has(s, {"EX_REP"}) => Has(s, DATAREP)
  BY DEF Has, WRITEBACK, DATAREP, REP, GONE

(* An LLC that may write has its line alone, and no data is on its way.    *)
LEMMA OwnerQuiet ==
    ASSUME NEW g \in Llc, NEW st, NEW U, NEW D, NEW d, LinkInv(g, st, U, D, d), st \in OwnerState
    PROVE  d.owned /\ g \in d.sharers /\ ~Has(U, WRITEBACK) /\ ~Has(D, DATAREP)
<1>1. d.owned /\ g \in d.sharers
  BY DEF LinkInv, Believed
<1>2. ~Has(U, GONE)
  BY DEF LinkInv, GoneOrder, OwnerState
<1>3. ~Has(U, {"WB_REP"})
  BY DEF LinkInv, WrittenBackOrder
<1>4. ~Has(D, REP)
  BY DEF LinkInv, RequestState, Asked, OwnerState
<1>5. QED
  BY <1>1, <1>2, <1>3, <1>4, HasParts

LEMMA OthersQuiet ==
    ASSUME NEW h \in Llc, NEW st, NEW U, NEW D, NEW d, LinkInv(h, st, U, D, d), h \notin d.sharers
    PROVE  st = "INVALID" /\ ~Has(U, WRITEBACK) /\ ~Has(D, DATAREP)
<1>1. st = "INVALID" /\ ~Has(U, {"WB_REP", "FLUSH_REP"}) /\ ~Has(D, REP)
  BY DEF LinkInv, Believed
<1>2. QED
  BY <1>1, HasParts

WriterAlone(g, b) ==
    llc[g][b].st \in OwnerState =>
        \A h \in Llc : /\ h # g => llc[h][b].st = "INVALID"
                       /\ ~Has(up[h][b], WRITEBACK) /\ ~Has(down[h][b], DATAREP)

WritersAlone == Running => \A g \in Llc, b \in Block : WriterAlone(g, b)

LEMMA NothingHas == \A T : ~Has(<<>>, T)
  BY DEF Has

LEMMA WritersAreAlone == HierarchyIInv => WritersAlone
<1> SUFFICES ASSUME HierarchyIInv, Running, NEW g \in Llc, NEW b \in Block, llc[g][b].st \in OwnerState,
                    NEW h \in Llc
             PROVE  /\ h # g => llc[h][b].st = "INVALID"
                    /\ ~Has(up[h][b], WRITEBACK) /\ ~Has(down[h][b], DATAREP)
  BY DEF WritersAlone, WriterAlone
<1>1. ProtocolInv /\ dramDirect \in DramConfig
  BY DEF HierarchyIInv, DirectoryIInv
<1>2. CASE dramDirect
  <2>1. DirectInv
    BY <1>1, <1>2 DEF ProtocolInv
  <2>2. up[h][b] = <<>> /\ down[h][b] = <<>>
    BY <2>1 DEF DirectInv
  <2>3. h = g
    BY <1>1, <1>2, OneLlc DEF Llc
  <2>4. QED
    BY <2>2, <2>3, NothingHas
<1>3. CASE ~dramDirect
  <2>1. DirectoryInv
    BY <1>1, <1>3 DEF ProtocolInv
  <2>2. /\ OwnerAlone(dir[b])
        /\ LinkInv(g, llc[g][b].st, up[g][b], down[g][b], dir[b])
        /\ LinkInv(h, llc[h][b].st, up[h][b], down[h][b], dir[b])
    BY <2>1 DEF DirectoryInv
  <2>3. dir[b].owned /\ g \in dir[b].sharers /\ ~Has(up[g][b], WRITEBACK) /\ ~Has(down[g][b], DATAREP)
    BY <2>2, OwnerQuiet
  <2>4. h # g => h \notin dir[b].sharers
    BY <2>2, <2>3 DEF OwnerAlone
  <2>5. h # g => llc[h][b].st = "INVALID" /\ ~Has(up[h][b], WRITEBACK) /\ ~Has(down[h][b], DATAREP)
    BY <2>2, <2>4, OthersQuiet
  <2>6. QED
    BY <2>3, <2>5
<1>4. QED
  BY <1>2, <1>3

LEMMA WritersAreAloneNext == HierarchyIInv' => WritersAlone'
  BY WritersAreAlone, PTL

(* After a write: every other copy is outdated, and nobody uses one.       *)
LEMMA WrittenData ==
    ASSUME HierarchyIInv', Running', NEW c \in Core, NEW b \in Block, NEW g \in Llc, g = Master(c),
           l1'[c][b].st = "MODIFIED", ~lock'[g].excl, \A d \in Core : l1'[d][b].cur <=> d = c
    PROVE  /\ Kept(b, llc', dram', up')
           /\ \A h \in Llc : SideOk(h, b, l1', llc'[h][b], up'[h][b], down'[h][b], net'[h], dram'[b])
<1>1. InclusionInv' /\ DirtyInv'
  BY DEF HierarchyIInv, HierarchyInv
<1>2. llc'[g][b].st = "MODIFIED"
  BY <1>1 DEF InclusionInv
<1>3. \A h \in Llc : /\ h # g => llc'[h][b].st = "INVALID"
                     /\ ~Has(up'[h][b], WRITEBACK) /\ ~Has(down'[h][b], DATAREP)
  BY <1>2, WritersAreAloneNext DEF WritersAlone, WriterAlone, OwnerState
<1>4. Kept(b, llc', dram', up')
  BY <1>2 DEF Kept, Holds
<1>5. ASSUME NEW h \in Llc
      PROVE  SideOk(h, b, l1', llc'[h][b], up'[h][b], down'[h][b], net'[h], dram'[b])
  <2>1. Carry(up'[h][b], WRITEBACK) /\ Carry(down'[h][b], DATAREP)
    BY <1>3 DEF Carry, Has
  <2>2. llc'[h][b].st # "EXCLUSIVE" /\ ~Has(down'[h][b], {"EX_REP"})
    BY <1>2, <1>3, HasParts
  <2>3. \A d \in L1sOf(h) : d \in Core /\ Master(d) = h
    BY MasterFacts
  <2>4. c \in L1sOf(g)
    BY MasterFacts
  <2>5. Valid(llc'[h][b]) => \E d \in L1sOf(h) : l1'[d][b].st = "MODIFIED"
    BY <1>3, <2>4 DEF Valid
  <2>6. ASSUME NEW d \in L1sOf(h), Valid(l1'[d][b])
        PROVE  d \in L1sOf(g) /\ h = g
    <3>1. Valid(llc'[h][b])
      BY <1>1, <2>3, <2>6 DEF InclusionInv
    <3>2. QED
      BY <1>3, <2>6, <3>1 DEF Valid
  <2>7. ASSUME NEW d \in L1sOf(h), l1'[d][b].st = "MODIFIED"
        PROVE  l1'[d][b].cur
    <3>1. d \in L1sOf(g)
      BY <2>6, <2>7 DEF Valid
    <3>2. d = c \/ Handed(g, b)'
      BY <1>1, <2>7, <3>1 DEF DirtyInv
    <3>3. QED
      BY <2>3, <2>7, <3>2 DEF Handed
  <2>8. ASSUME NeedsCopies(b, llc'[h][b].st, net'[h]), NEW d \in L1sOf(h), Valid(l1'[d][b])
        PROVE  l1'[d][b].cur
    <3>1. h = g
      BY <2>6, <2>8
    <3>2. SharedCores = 1
      BY <1>2, <2>8, <3>1 DEF NeedsCopies
    <3>3. d \in Int /\ c \in Int /\ d % 1 = 0 /\ c % 1 = 0
      BY <2>3, <2>8, CoresAssumption DEF Core
    <3>4. Master(d) = d /\ Master(c) = c
      BY <3>2, <3>3 DEF Master
    <3>5. d = c
      BY <2>3, <2>8, <3>1, <3>4
    <3>6. QED
      BY <3>5
  <2>9. QED
    BY <2>1, <2>2, <2>5, <2>7, <2>8 DEF SideOk
<1>6. QED
  BY <1>4, <1>5

(* An access to lines L1 and LLC that hold current data keeps it so.       *)
LEMMA AccessData ==
    ASSUME HierarchyIInv', Running', NEW c \in Core, NEW op \in Op, NEW b \in Block,
           NEW L1 \in L1Type, NEW LLC \in LlcType, NEW DRAM \in [Block -> BOOLEAN],
           Accessed(c, op, b, L1, LLC, DRAM), DataIs(L1, LLC, DRAM, up, down, net), net' = net,
           op = "WRITE" => L1[c][b].st = "MODIFIED", ~lock'[Master(c)].excl
    PROVE  DataInv'
<1>1. ASSUME NEW x \in Block, op # "WRITE" \/ x # b
      PROVE  /\ Kept(x, llc', dram', up')
             /\ \A h \in Llc : SideOk(h, x, l1', llc'[h][x], up'[h][x], down'[h][x], net'[h], dram'[x])
  <2>1. /\ \A d \in Core : l1'[d][x] = L1[d][x]
        /\ \A h \in Llc : llc'[h][x] = LLC[h][x] /\ up'[h][x] = up[h][x] /\ down'[h][x] = down[h][x]
        /\ dram'[x] = DRAM[x]
    BY ZenonT(60), <1>1 DEF Accessed
  <2>2. /\ Kept(x, LLC, DRAM, up)
        /\ \A h \in Llc : SideOk(h, x, L1, LLC[h][x], up[h][x], down[h][x], net[h], DRAM[x])
    BY DEF DataIs
  <2>3. Kept(x, llc', dram', up')
    BY <2>1, <2>2 DEF Kept
  <2>4. ASSUME NEW h \in Llc
        PROVE  SideOk(h, x, l1', llc'[h][x], up'[h][x], down'[h][x], net'[h], dram'[x])
    <3>1. \A d \in L1sOf(h) : l1'[d][x] = L1[d][x]
      BY <2>1, MasterFacts
    <3>2. SideOk(h, x, l1', LLC[h][x], up[h][x], down[h][x], net'[h], dram'[x])
      BY <2>1, <2>2, <3>1, SideKept
    <3>3. QED
      BY <2>1, <3>2
  <2>5. QED
    BY <2>3, <2>4
<1>2. CASE op # "WRITE"
  BY <1>1, <1>2, DataPartsNext DEF DataIs
<1>3. CASE op = "WRITE"
  <2>1. PICK g \in Llc : g = Master(c)
    BY MasterFacts
  <2>2. l1'[c][b].st = "MODIFIED" /\ \A d \in Core : l1'[d][b].cur <=> d = c
    BY <1>3 DEF Accessed
  <2>3. /\ Kept(b, llc', dram', up')
        /\ \A h \in Llc : SideOk(h, b, l1', llc'[h][b], up'[h][b], down'[h][b], net'[h], dram'[b])
    BY <2>1, <2>2, WrittenData
  <2>4. QED
    BY <1>1, <2>3, DataPartsNext DEF DataIs
<1>4. QED
  BY <1>2, <1>3

LEMMA DataHereParts ==
    ASSUME DataInv, NEW x \in Block
    PROVE  /\ Kept(x, llc, dram, up)
           /\ \A h \in Llc : SideOk(h, x, l1, llc[h][x], up[h][x], down[h][x], net[h], dram[x])
  BY DataParts DEF DataIs

(* A snoop of the first-level caches brings the line up to date.           *)
LEMMA WrittenBackCurrent ==
    ASSUME TypeOK, DataInv, NEW K \in L1Type, NEW g \in Llc, NEW b \in Block, NEW skip,
           Valid(llc[g][b]),
           \A d \in L1sOf(g) : IF d \in skip THEN l1[d][b].st # "MODIFIED" ELSE K[d][b] = l1[d][b]
    PROVE  WrittenBack(K, llc, g, b, skip).cur
<1>1. SideOk(g, b, l1, llc[g][b], up[g][b], down[g][b], net[g], dram[b])
  BY DataHereParts
<1>2. llc \in LlcType
  BY TypeParts DEF CacheType
<1>3. CASE Dirty(K, g, b, skip) = {}
  <2>1. WrittenBack(K, llc, g, b, skip) = llc[g][b]
    BY <1>2, <1>3, WrittenBackFacts
  <2>2. \A d \in L1sOf(g) : l1[d][b].st # "MODIFIED"
    BY <1>3 DEF Dirty
  <2>3. QED
    BY <1>1, <2>1, <2>2 DEF SideOk
<1>4. CASE Dirty(K, g, b, skip) # {}
  <2>1. PICK d \in Dirty(K, g, b, skip) : WrittenBack(K, llc, g, b, skip).cur = K[d][b].cur
    BY <1>2, <1>4, WrittenBackFacts
  <2>2. d \in L1sOf(g) /\ K[d][b] = l1[d][b] /\ l1[d][b].st = "MODIFIED"
    BY <2>1 DEF Dirty
  <2>3. l1[d][b].cur
    BY <1>1, <2>2 DEF SideOk
  <2>4. QED
    BY <2>1, <2>2, <2>3
<1>5. QED
  BY <1>3, <1>4

(* The data of the LLC line after a request of core c.                     *)
SnoopedData(c, op, b, L1, LLC) ==
    LET g == Master(c)
        S == Snoops(llc[g][b].st, op)
        D == Dirty(L1, g, b, {c})
    IN  /\ ~S \/ D = {} => LLC[g][b].cur = llc[g][b].cur
        /\ S /\ D # {} => \E d \in D : LLC[g][b].cur = L1[d][b].cur

LEMMA LlcSnooped ==
    ASSUME TypeOK, NEW c \in Core, NEW op \in Op, NEW b \in Block, NEW L1 \in L1Type
    PROVE  SnoopedData(c, op, b, L1, LlcAfterRequest(c, op, b, L1))
  BY LlcAfterRequestFacts DEF SnoopedData

(* The LLC serves a request: the line it passes on is current.             *)
LEMMA SuppliedData ==
    ASSUME TypeOK, HandoverInv, HierarchyInv, DataInv, NEW c \in Core, NEW op \in Op, NEW b \in Block,
           NEW g \in Llc, g = Master(c), NEW L1 \in L1Type, NEW LLC \in LlcType, NEW DRAM,
           Supplied(c, op, b, g, L1, LLC, DRAM)
    PROVE  DataIs(L1, LLC, DRAM, up, down, net) /\ LLC[g][b].cur
<1>1. PICK K : OwnGone(c, b, K) /\ L1 = L1AfterRequest(c, op, b, K) /\ LLC = LlcAfterRequest(c, op, b, K)
  BY DEF Supplied
<1>2. K \in L1Type /\ K[c][b].st = "INVALID" /\ \A d \in Core, x \in Block : d # c \/ x # b => K[d][x] = l1[d][x]
  BY <1>1 DEF OwnGone
<1>3. PICK st \in CState, S \in BOOLEAN : st = llc[g][b].st /\ (S <=> Snoops(st, op))
  BY PartTypes
<1>4. \A d \in Core, x \in Block :
        L1[d][x] = IF x = b /\ Master(d) = g /\ d # c /\ Valid(K[d][b]) /\ S
                   THEN IF op = "READ" THEN [st |-> "SHARED", cur |-> K[d][b].cur] ELSE Absent
                   ELSE K[d][x]
  BY <1>1, <1>2, <1>3, L1AfterRequestFacts
<1>5. PICK D : D = Dirty(K, g, b, {c})
  OBVIOUS
<1>6. Serves(st, op) /\ DRAM = dram /\ l1[c][b].st # "MODIFIED"
  BY <1>3 DEF Supplied
<1>7. /\ \A h \in Llc, x \in Block : h # g \/ x # b => LLC[h][x] = llc[h][x]
      /\ LLC[g][b].st = IF op # "READ" THEN "MODIFIED" ELSE st
      /\ ~S \/ D = {} => LLC[g][b].cur = llc[g][b].cur
      /\ S /\ D # {} => \E d \in D : LLC[g][b].cur = K[d][b].cur
  <2>1. Requested(c, op, b, LLC) /\ SnoopedData(c, op, b, K, LLC)
    BY <1>1, <1>2, LlcRequested, LlcSnooped
  <2>2. QED
    BY <1>3, <1>5, <1>6, <2>1 DEF Requested, SnoopedData
<1>8. st \in Readable /\ (op # "READ" \/ st \in OwnerState => S)
  BY <1>3, <1>6 DEF Serves, Snoops, operationPermissibleinCache, Readable, OwnerState
<1>9. \A h \in Llc : \A d \in L1sOf(h) : d \in Core /\ Master(d) = h
  BY MasterFacts
<1>10. SideOk(g, b, l1, llc[g][b], up[g][b], down[g][b], net[g], dram[b])
  BY DataHereParts
<1>11. \A d \in L1sOf(g) : l1[d][b].st = "MODIFIED" => st = "MODIFIED"
  BY <1>3, <1>9 DEF HierarchyInv, InclusionInv
<1>12. LLC[g][b].cur
  <2>1. CASE S /\ D # {}
    <3>1. PICK d \in D : LLC[g][b].cur = K[d][b].cur
      BY <1>7, <2>1
    <3>2. d \in L1sOf(g) /\ d # c /\ K[d][b].st = "MODIFIED"
      BY <1>5, <3>1 DEF Dirty
    <3>3. K[d][b] = l1[d][b]
      BY <1>2, <1>9, <3>2
    <3>4. QED
      BY <1>10, <3>1, <3>2, <3>3 DEF SideOk
  <2>2. CASE ~S \/ D = {}
    <3>1. \A d \in L1sOf(g) : l1[d][b].st # "MODIFIED"
      <4>1. CASE S
        <5>1. D = {}
          BY <2>2, <4>1
        <5>2. \A d \in L1sOf(g) : d # c => K[d][b].st # "MODIFIED"
          BY <1>5, <5>1 DEF Dirty
        <5>3. QED
          BY <1>2, <1>6, <1>9, <5>2
      <4>2. CASE ~S
        BY <1>8, <1>11, <4>2 DEF OwnerState
      <4>3. QED
        BY <4>1, <4>2
    <3>2. Valid(llc[g][b])
      BY <1>3, <1>8 DEF Valid, Readable
    <3>3. llc[g][b].cur
      BY <1>10, <3>1, <3>2 DEF SideOk
    <3>4. QED
      BY <1>7, <2>2, <3>3
  <2>3. QED
    BY <2>1, <2>2
<1>13. ASSUME NEW d \in L1sOf(g), Valid(L1[d][b])
       PROVE  /\ Valid(l1[d][b]) /\ L1[d][b].cur = l1[d][b].cur
              /\ L1[d][b].st = "MODIFIED" => l1[d][b].st = "MODIFIED"
  <2>1. d \in Core /\ Master(d) = g
    BY <1>9
  <2>2. d # c
    BY <1>2, <1>4, <1>13, <2>1 DEF Valid
  <2>3. K[d][b] = l1[d][b]
    BY <1>2, <2>1, <2>2
  <2>4. CASE Valid(K[d][b]) /\ S
    <3>1. L1[d][b] = IF op = "READ" THEN [st |-> "SHARED", cur |-> K[d][b].cur] ELSE Absent
      BY <1>4, <2>1, <2>2, <2>4
    <3>2. QED
      BY <1>13, <2>3, <2>4, <3>1, LineFacts DEF Valid
  <2>5. CASE ~(Valid(K[d][b]) /\ S)
    <3>1. L1[d][b] = K[d][b]
      BY <1>4, <2>1, <2>5
    <3>2. QED
      BY <1>13, <2>3, <3>1
  <2>6. QED
    BY <2>4, <2>5
<1>14. SideOk(g, b, L1, LLC[g][b], up[g][b], down[g][b], net[g], DRAM[b])
  <2>1. LLC[g][b].st = "EXCLUSIVE" => st = "EXCLUSIVE"
    BY <1>7
  <2>2. NeedsCopies(b, LLC[g][b].st, net[g]) => NeedsCopies(b, st, net[g])
    BY <1>7, <1>8 DEF NeedsCopies, Readable
  <2>3. QED
    BY <1>3, <1>6, <1>10, <1>12, <1>13, <2>1, <2>2 DEF SideOk, Valid
<1>15. \A h \in Llc, x \in Block : h # g \/ x # b =>
          SideOk(h, x, L1, LLC[h][x], up[h][x], down[h][x], net[h], DRAM[x])
  <2>1. ASSUME NEW h \in Llc, NEW x \in Block, h # g \/ x # b
        PROVE  SideOk(h, x, L1, LLC[h][x], up[h][x], down[h][x], net[h], DRAM[x])
    <3>1. SideOk(h, x, l1, llc[h][x], up[h][x], down[h][x], net[h], dram[x])
      BY DataHereParts
    <3>2. \A d \in L1sOf(h) : L1[d][x] = l1[d][x]
      BY <1>2, <1>4, <1>9, <2>1
    <3>3. LLC[h][x] = llc[h][x]
      BY <1>7, <2>1
    <3>4. SideOk(h, x, L1, llc[h][x], up[h][x], down[h][x], net[h], dram[x])
      BY <3>1, <3>2, SideKept
    <3>5. QED
      BY <1>6, <3>3, <3>4
  <2>2. QED
    BY <2>1
<1>16. \A x \in Block : Kept(x, LLC, DRAM, up)
  <2>1. \A h \in Llc, x \in Block : llc[h][x].st = "MODIFIED" => LLC[h][x].st = "MODIFIED"
    BY <1>3, <1>7
  <2>2. QED
    BY <1>6, <2>1, DataHereParts DEF Kept, Holds
<1>17. QED
  BY <1>12, <1>14, <1>15, <1>16 DEF DataIs

(* The line comes from the DRAM, and the one that it replaces goes there.  *)
LEMMA FetchedData ==
    ASSUME TypeOK, HierarchyInv, DirectInv, dramDirect \in DramConfig, DataInv, NEW c \in Core, NEW b \in Block,
           NEW g \in Llc, g = Master(c), NEW L1 \in L1Type, NEW LLC \in LlcType, NEW DRAM,
           Fetched(c, b, g, L1, LLC, DRAM)
    PROVE  DataIs(L1, LLC, DRAM, up, down, net) /\ LLC[g][b].cur
<1>1. PICK K, v, line : line \in Line /\ FetchedInto(c, b, g, K, v, line, L1, LLC, DRAM)
  BY DEF Fetched
<1>2. /\ K \in L1Type /\ K[c][b].st = "INVALID" /\ \A d \in Core, x \in Block : d # c \/ x # b => K[d][x] = l1[d][x]
      /\ v = NoBlock \/ (v \in Block /\ Valid(llc[g][v]))
      /\ line.st \in {"SHARED", "MODIFIED"} /\ line.cur = dram[b]
  BY <1>1 DEF FetchedInto, OwnGone
<1>3. dramDirect /\ ~Valid(llc[g][b]) /\ v # b
  BY <1>2, CoresAssumption DEF Fetched
<1>4. llc \in LlcType /\ dram \in [Block -> BOOLEAN]
  BY TypeParts DEF CacheType
<1>5. \A d \in Core : Master(d) = g /\ d \in L1sOf(g)
  BY <1>3, OneLlc, MasterFacts
<1>6. \A h \in Llc : h = g
  BY <1>5 DEF Llc
<1>7. \A d \in Core, x \in Block :
        /\ x # v => L1[d][x] = K[d][x]
        /\ x = v => L1[d][x].st = "INVALID"
  <2>1. /\ L1 = L1AfterEvict(K, g, v)
        /\ \A d \in Core, x \in Block :
             /\ x # v \/ Master(d) # g => L1AfterEvict(K, g, v)[d][x] = K[d][x]
             /\ x = v /\ Master(d) = g => L1AfterEvict(K, g, v)[d][x].st = "INVALID"
    BY <1>1, <1>2, EvictFacts DEF FetchedInto
  <2>2. QED
    BY <1>5, <2>1
<1>8. \A h \in Llc, x \in Block :
        LLC[h][x] = IF h = g /\ x = v THEN Absent ELSE IF h = g /\ x = b THEN line ELSE llc[h][x]
  <2>1. LLC = LlcAfterInsert(llc, g, b, line, v) /\ line \in Line
    BY <1>1 DEF FetchedInto
  <2>2. QED
    BY <1>2, <1>4, <2>1, InsertFacts
<1>9. \A h \in Llc, x \in Block : up[h][x] = <<>> /\ down[h][x] = <<>> /\ net[h] = NoBlock
  BY DEF DirectInv
<1>10. \A x \in Block : dram[x] \/ llc[g][x].st = "MODIFIED"
  <2>1. \A x \in Block, h \in Llc : ~Has(up[h][x], WRITEBACK)
    BY <1>9, NothingHas
  <2>2. QED
    BY <1>6, <2>1, DataHereParts DEF Kept, Holds
<1>11. line.cur /\ dram[b]
  BY <1>2, <1>3, <1>10 DEF Valid
<1>12. \A x \in Block : x # v => DRAM[x] = dram[x]
  BY <1>1, <1>2, <1>4 DEF FetchedInto
<1>13. v \in Block => DRAM[v]
  <2>1. CASE v \in Block /\ llc[g][v].st = "MODIFIED"
    <3>1. v # NoBlock
      BY <2>1, CoresAssumption
    <3>2. DRAM = [dram EXCEPT ![v] = WrittenBack(K, llc, g, v, {}).cur]
      BY <1>1, <2>1, <3>1 DEF FetchedInto
    <3>3. \A d \in L1sOf(g) : K[d][v] = l1[d][v]
      BY <1>2, <1>3, <2>1, MasterFacts
    <3>4. WrittenBack(K, llc, g, v, {}).cur
      BY <1>2, <2>1, <3>3, WrittenBackCurrent DEF Valid
    <3>5. QED
      BY <1>4, <2>1, <3>2, <3>4
  <2>2. CASE llc[g][v].st # "MODIFIED"
    <3>1. DRAM = dram
      BY <1>1, <2>2 DEF FetchedInto
    <3>2. QED
      BY <1>10, <2>2, <3>1
  <2>3. QED
    BY <2>1, <2>2
<1>14. LLC[g][b].cur
  BY <1>3, <1>8, <1>11
<1>15. \A d \in Core : ~Valid(L1[d][b])
  <2>1. \A d \in Core : ~Valid(l1[d][b])
    BY <1>3, <1>5 DEF HierarchyInv, InclusionInv
  <2>2. QED
    BY <1>2, <1>3, <1>7, <2>1 DEF Valid
<1>16. \A x \in Block : Kept(x, LLC, DRAM, up)
  <2>1. ASSUME NEW x \in Block, ~DRAM[x]
        PROVE  LLC[g][x].st = "MODIFIED"
    BY <1>8, <1>10, <1>11, <1>12, <1>13, <2>1
  <2>2. QED
    BY <2>1 DEF Kept, Holds
<1>17. ASSUME NEW x \in Block, NEW h \in Llc
       PROVE  SideOk(h, x, L1, LLC[h][x], up[h][x], down[h][x], net[h], DRAM[x])
  <2>1. Carry(up[h][x], WRITEBACK) /\ Carry(down[h][x], DATAREP) /\ ~Has(down[h][x], {"EX_REP"})
    BY <1>9, NothingHas DEF Carry
  <2>2. \A d \in L1sOf(h) : d \in Core
    BY MasterFacts
  <2>3. CASE x = b
    <3>1. LLC[h][x].st \in {"SHARED", "MODIFIED"}
      BY <1>2, <1>3, <1>6, <1>8, <2>3
    <3>2. QED
      BY <1>6, <1>14, <1>15, <2>1, <2>2, <2>3, <3>1 DEF SideOk, Valid
  <2>4. CASE x = v
    <3>1. LLC[h][x] = Absent
      BY <1>6, <1>8, <2>4
    <3>2. \A d \in L1sOf(h) : L1[d][x].st = "INVALID"
      BY <1>7, <2>2, <2>4
    <3>3. QED
      BY <2>1, <3>1, <3>2, LineFacts DEF SideOk, Valid
  <2>5. CASE x # b /\ x # v
    <3>1. SideOk(h, x, l1, llc[h][x], up[h][x], down[h][x], net[h], dram[x])
      BY DataHereParts
    <3>2. LLC[h][x] = llc[h][x] /\ DRAM[x] = dram[x]
      BY <1>8, <1>12, <2>5
    <3>3. \A d \in L1sOf(h) : L1[d][x] = l1[d][x]
      BY <1>2, <1>7, <2>2, <2>5
    <3>4. SideOk(h, x, L1, llc[h][x], up[h][x], down[h][x], net[h], dram[x])
      BY <3>1, <3>3, SideKept
    <3>5. QED
      BY <3>2, <3>4
  <2>6. QED
    BY <2>3, <2>4, <2>5
<1>18. QED
  BY <1>14, <1>16, <1>17 DEF DataIs

(* The first level takes a current line, and leaves the victim's data in   *)
(* the LLC.                                                                *)
LEMMA FilledData ==
    ASSUME NEW c \in Core, NEW b \in Block, NEW g \in Llc, g = Master(c),
           NEW L1 \in L1Type, NEW LLC \in LlcType, NEW DRAM, NEW v, v # b,
           DataIs(L1, LLC, DRAM, up, down, net), LLC[g][b].cur,
           \A d \in L1sOf(g) : d # c => L1[d][b].st # "MODIFIED",
           NEW F, NEW B, FilledLines(c, b, v, L1, LLC, F, B)
    PROVE  DataIs(F, B, DRAM, up, down, net)
<1>1. \A h \in Llc : \A d \in L1sOf(h) : d \in Core /\ Master(d) = h
  BY MasterFacts
<1>2. /\ \A d \in Core, x \in Block :
           F[d][x] = IF d = c /\ x = b THEN LLC[g][b]
                     ELSE IF d = c /\ x = v THEN Absent ELSE L1[d][x]
      /\ \A h \in Llc, x \in Block :
           /\ B[h][x].st = LLC[h][x].st
           /\ B[h][x].cur = IF h = g /\ x = v /\ L1[c][v].st = "MODIFIED" THEN L1[c][v].cur ELSE LLC[h][x].cur
  BY DEF FilledLines
<1>3. \A x \in Block : Kept(x, B, DRAM, up)
  BY <1>2 DEF DataIs, Kept, Holds
<1>4. ASSUME NEW h \in Llc, NEW x \in Block
      PROVE  SideOk(h, x, F, B[h][x], up[h][x], down[h][x], net[h], DRAM[x])
  <2>1. SideOk(h, x, L1, LLC[h][x], up[h][x], down[h][x], net[h], DRAM[x])
    BY DEF DataIs
  <2>2. B[h][x].st = LLC[h][x].st
    BY <1>2
  <2>3. CASE h = g /\ x = b
    <3>1. B[h][x].cur
      BY <1>2, <2>3
    <3>2. \A d \in L1sOf(h) : F[d][x] = (IF d = c THEN LLC[g][b] ELSE L1[d][x])
      BY <1>1, <1>2, <2>3
    <3>3. QED
      BY <2>1, <2>2, <2>3, <3>1, <3>2 DEF SideOk, Valid
  <2>4. CASE h = g /\ x = v
    <3>1. \A d \in L1sOf(h) : F[d][x] = (IF d = c THEN Absent ELSE L1[d][x])
      BY <1>1, <1>2, <2>4
    <3>2. c \in L1sOf(h)
      BY <2>4, MasterFacts
    <3>3. B[h][x].cur = IF L1[c][x].st = "MODIFIED" THEN L1[c][x].cur ELSE LLC[h][x].cur
      BY <1>2, <2>4
    <3>4. Valid(B[h][x]) => B[h][x].cur \/ \E d \in L1sOf(h) : F[d][x].st = "MODIFIED"
      BY <2>1, <2>2, <3>1, <3>2, <3>3 DEF SideOk, Valid
    <3>5. \A d \in L1sOf(h) : F[d][x] = L1[d][x] \/ F[d][x].st = "INVALID"
      BY <3>1, LineFacts
    <3>6. QED
      BY <2>1, <2>2, <3>4, <3>5 DEF SideOk, Valid
  <2>5. CASE h # g \/ (x # b /\ x # v)
    <3>1. \A d \in L1sOf(h) : F[d][x] = L1[d][x]
      BY <1>1, <1>2, <2>5
    <3>2. B[h][x].cur = LLC[h][x].cur
      BY <1>2, <2>5
    <3>3. QED
      BY <2>1, <2>2, <3>1, <3>2 DEF SideOk, Valid
  <2>6. QED
    BY <2>3, <2>4, <2>5
<1>5. QED
  BY <1>3, <1>4 DEF DataIs

LEMMA FillStepData ==
    ASSUME TypeOK, HandoverInv, HierarchyInv, ProtocolInv, dramDirect \in DramConfig, DataInv,
           HierarchyIInv', Running', NEW c \in Core, NEW checks, FillStep(c, checks)
    PROVE  DataInv'
<1>1. PICK op \in Op, b \in Block, g \in Llc, L1 \in L1Type, LLC \in LlcType, DRAM \in [Block -> BOOLEAN] :
        FillFrom(c, op, b, g, L1, LLC, DRAM, checks)
  BY DEF FillStep
<1>2. /\ g = Master(c) /\ net' = net
      /\ FillAndComplete(c, op, b, L1, LLC, DRAM, checks)
      /\ Prepared(c, op, b, g, L1, LLC)
      /\ Supplied(c, op, b, g, L1, LLC, DRAM) \/ Fetched(c, b, g, L1, LLC, DRAM)
  BY <1>1 DEF FillFrom
<1>3. DataIs(L1, LLC, DRAM, up, down, net) /\ LLC[g][b].cur
  <2>1. CASE Supplied(c, op, b, g, L1, LLC, DRAM)
    BY <1>2, <2>1, SuppliedData
  <2>2. CASE Fetched(c, b, g, L1, LLC, DRAM)
    <3>1. DirectInv
      BY <2>2 DEF Fetched, ProtocolInv
    <3>2. QED
      BY <1>2, <2>2, <3>1, FetchedData
  <2>3. QED
    BY <1>2, <2>1, <2>2
<1>4. PICK v \in L1Victims(L1, c) :
         /\ v = NoBlock \/ (v \in Block /\ Valid(L1[c][v]))
         /\ FillL1(c, b, v, L1, LLC) \in L1Type /\ FillLlc(c, v, L1, LLC) \in LlcType
         /\ Accessed(c, op, b, FillL1(c, b, v, L1, LLC), FillLlc(c, v, L1, LLC), DRAM)
  BY <1>2, FillFacts
<1>5. v # b
  BY <1>2, <1>4, CoresAssumption DEF Prepared, Valid
<1>6. PICK F \in L1Type, B \in LlcType : F = FillL1(c, b, v, L1, LLC) /\ B = FillLlc(c, v, L1, LLC)
  BY <1>4
<1>7. FilledLines(c, b, v, L1, LLC, F, B)
  BY <1>4, <1>6, FillLineFacts
<1>8. DataIs(F, B, DRAM, up, down, net)
  BY <1>2, <1>3, <1>5, <1>7, FilledData DEF Prepared, OwnerState
<1>9. op = "WRITE" => F[c][b].st = "MODIFIED"
  <2>1. F[c][b] = LLC[g][b]
    BY <1>2, <1>7 DEF FilledLines
  <2>2. QED
    BY <1>2, <2>1 DEF Prepared
<1>10. ~lock'[Master(c)].excl
  <2>1. lock' = [lock EXCEPT ![g] = [excl |-> FALSE, readers |-> IF op = "READ_EX" THEN {c} ELSE {}]]
    BY <1>2, FillFacts
  <2>2. QED
    BY <1>2, <2>1, TypeParts DEF HandoverType
<1>11. Accessed(c, op, b, F, B, DRAM)
  BY <1>4, <1>6
<1>12. QED
  BY <1>2, <1>8, <1>9, <1>10, <1>11, AccessData

(* A hit, or the write that ends an atomic pair.                           *)
LEMMA InPlaceData ==
    ASSUME TypeOK, DataInv, HierarchyIInv', Running', NEW c \in Core, NEW op \in Op, NEW b \in Block,
           NEW R, ~lock[Master(c)].excl, Complete(c, op, b, R, l1, llc, dram), net' = net,
           op = "WRITE" => l1[c][b].st = "MODIFIED"
    PROVE  DataInv'
<1>1. CacheType /\ HandoverType /\ l1 \in L1Type /\ llc \in LlcType /\ dram \in [Block -> BOOLEAN]
  BY TypeParts DEF CacheType
<1>2. Accessed(c, op, b, l1, llc, dram)
  BY <1>1, AccessFacts DEF Complete
<1>3. PICK S : S = R \cup IF op = "READ_EX" THEN {c} ELSE {}
  OBVIOUS
<1>4. lock' = [lock EXCEPT ![Master(c)] = [excl |-> FALSE, readers |-> S]]
  BY <1>3 DEF Complete
<1>5. ~lock'[Master(c)].excl
  BY <1>1, <1>4, MasterFacts DEF HandoverType
<1>6. DataIs(l1, llc, dram, up, down, net)
  BY DataParts
<1>7. QED
  BY <1>1, <1>2, <1>5, <1>6, AccessData

LEMMA HitData ==
    ASSUME TypeOK, DataInv, HierarchyIInv', Running', NEW c \in Core, NEW op \in Op, NEW b \in Block, Hit(c, op, b)
    PROVE  DataInv'
<1>1. op = "WRITE" => l1[c][b].st = "MODIFIED"
  BY DEF Hit, operationPermissibleinCache
<1>2. PICK R : R = lock[Master(c)].readers
  OBVIOUS
<1>3. ~lock[Master(c)].excl /\ Complete(c, op, b, R, l1, llc, dram) /\ net' = net
  BY <1>2 DEF Hit
<1>4. QED
  BY <1>1, <1>3, InPlaceData

LEMMA UnlockData ==
    ASSUME TypeOK, HandoverInv, HierarchyInv, DataInv, HierarchyIInv', Running', NEW c \in Core, Unlock(c)
    PROVE  DataInv'
<1>1. PICK b \in Block, op \in Op, g \in Llc : b = user[c].block /\ op = "WRITE" /\ g = Master(c)
  BY MasterFacts DEF Unlock, HandoverInv, UserInv, Op
<1>2. l1[c][b].st = "MODIFIED"
  BY <1>1 DEF Unlock, HierarchyInv, ThreadLineInv
<1>3. ~lock[Master(c)].excl
  <2>1. c \in lock[g].readers
    BY <1>1, MasterFacts DEF Unlock, HandoverInv, LockInv
  <2>2. QED
    BY <1>1, <2>1 DEF HandoverInv, LockInv
<1>4. PICK R : R = lock[Master(c)].readers \ {c}
  OBVIOUS
<1>5. Complete(c, op, b, R, l1, llc, dram) /\ net' = net
  BY <1>1, <1>4 DEF Unlock
<1>6. QED
  BY <1>2, <1>3, <1>5, InPlaceData
-----------------------------------------------------------------------------
(* The steps that write nothing.                                           *)
LEMMA CarryAppend ==
    ASSUME NEW s \in Seq(Message), NEW m \in Message, NEW t \in Seq(Message), t = Append(s, m),
           NEW T, Carry(s, T), m.type \in T => m.cur
    PROVE  Carry(t, T)
<1>1. /\ DOMAIN s = 1..Len(s) /\ Len(s) \in Nat /\ DOMAIN t = 1..(Len(s) + 1)
      /\ \A i \in DOMAIN s : t[i] = s[i]
      /\ t[Len(s) + 1] = m
  BY AppendFacts
<1>2. ASSUME NEW i \in DOMAIN t, t[i].type \in T
      PROVE  t[i].cur
  <2>1. CASE i \in DOMAIN s
    BY <1>1, <1>2, <2>1 DEF Carry
  <2>2. CASE i \notin DOMAIN s
    <3>1. i = Len(s) + 1
      BY <1>1, <2>2
    <3>2. QED
      BY <1>1, <1>2, <3>1
  <2>3. QED
    BY <2>1, <2>2
<1>3. QED
  BY <1>2 DEF Carry

LEMMA CarryTail ==
    ASSUME NEW s \in Seq(Message), s # <<>>, NEW t \in Seq(Message), t = Tail(s),
           NEW m \in Message, m = Head(s), NEW T, Carry(s, T)
    PROVE  Carry(t, T) /\ (m.type \in T => m.cur)
<1>1. /\ m = s[1] /\ DOMAIN s = 1..Len(s) /\ Len(s) \in Nat /\ Len(s) >= 1
      /\ DOMAIN t = 1..(Len(s) - 1)
      /\ \A i \in DOMAIN t : t[i] = s[i + 1]
  BY TailFacts
<1>2. ASSUME NEW i \in DOMAIN t, t[i].type \in T
      PROVE  t[i].cur
  <2>1. t[i] = s[i + 1] /\ i + 1 \in DOMAIN s
    BY <1>1
  <2>2. QED
    BY <1>2, <2>1 DEF Carry
<1>3. 1 \in DOMAIN s
  BY <1>1
<1>4. QED
  BY <1>1, <1>2, <1>3 DEF Carry

SideNext(h, x) == SideOk(h, x, l1', llc'[h][x], up'[h][x], down'[h][x], net'[h], dram'[x])
KeptNext(x) == Kept(x, llc', dram', up')

(* The lines and messages of x at h stay.                                  *)
DataSame(h, x) ==
    /\ \A d \in L1sOf(h) : l1'[d][x] = l1[d][x]
    /\ llc'[h][x] = llc[h][x] /\ up'[h][x] = up[h][x] /\ down'[h][x] = down[h][x]
    /\ net'[h] = x => net[h] = x
    /\ dram[x] => dram'[x]

LEMMA DataKeeps ==
    ASSUME DataInv, \A x \in Block : KeptNext(x),
           \A h \in Llc, x \in Block : DataSame(h, x) \/ SideNext(h, x)
    PROVE  DataInv'
<1>1. ASSUME NEW h \in Llc, NEW x \in Block
      PROVE  SideNext(h, x)
  <2>1. CASE DataSame(h, x)
    <3>1. SideOk(h, x, l1, llc[h][x], up[h][x], down[h][x], net[h], dram[x])
      BY DataHereParts
    <3>2. SideOk(h, x, l1', llc[h][x], up[h][x], down[h][x], net'[h], dram'[x])
      BY <2>1, <3>1, SideKept DEF DataSame
    <3>3. QED
      BY <2>1, <3>2 DEF DataSame, SideNext
  <2>2. QED
    BY <2>1
<1>2. QED
  BY <1>1, DataPartsNext DEF DataIs, SideNext, KeptNext

LEMMA KeptKeeps ==
    ASSUME DataInv, NEW x \in Block, dram[x] => dram'[x],
           \A h \in Llc : Holds(llc[h][x], up[h][x]) => Holds(llc'[h][x], up'[h][x]) \/ dram'[x]
    PROVE  KeptNext(x)
  BY DataHereParts DEF Kept, KeptNext

LEMMA MissData ==
    ASSUME DataInv, NEW c \in Core, NEW op \in Op, NEW b \in Block, Miss(c, op, b)
    PROVE  DataInv'
<1>1. UNCHANGED <<l1, llc, up, down, net, dram>>
  BY DEF Miss
<1>2. \A h \in Llc, x \in Block : DataSame(h, x)
  BY <1>1 DEF DataSame
<1>3. \A x \in Block : KeptNext(x)
  BY <1>1, KeptKeeps
<1>4. QED
  BY <1>2, <1>3, DataKeeps

(* A miss that waits gives up copies only, and starts an upgrade when all  *)
(* the copies of the line are gone.                                        *)
LEMMA MissWaitsLlc ==
    ASSUME TypeOK, HierarchyInv, NEW c \in Core, NEW op \in Op, NEW b \in Block, NEW g \in Llc, g = Master(c),
           NEW st \in CState, st = llc[g][b].st, ~Serves(st, op), NEW L1 \in L1Type,
           \A d \in Core, x \in Block : d # c \/ x # b => L1[d][x] = l1[d][x],
           NEW LLC, LLC = LlcAfterRequest(c, op, b, L1)
    PROVE  /\ LLC \in LlcType
           /\ \A h \in Llc, x \in Block : LLC[h][x].st = llc[h][x].st /\ LLC[h][x].cur = llc[h][x].cur
<1>1. LLC \in LlcType
  BY LlcAfterRequestFacts
<1>2. Requested(c, op, b, LLC) /\ SnoopedData(c, op, b, L1, LLC)
  BY LlcRequested, LlcSnooped
<1>3. \A d \in L1sOf(g) : d # c => L1[d][b].st # "MODIFIED"
  <2>1. ASSUME NEW d \in L1sOf(g), d # c, L1[d][b].st = "MODIFIED"
        PROVE  FALSE
    <3>1. d \in Core /\ Master(d) = g
      BY MasterFacts
    <3>2. l1[d][b].st = "MODIFIED"
      BY <2>1, <3>1
    <3>3. st = "MODIFIED"
      BY <3>1, <3>2 DEF HierarchyInv, InclusionInv
    <3>4. QED
      BY <3>3 DEF Serves, operationPermissibleinCache, Readable
  <2>2. QED
    BY <2>1
<1>4. Dirty(L1, g, b, {c}) = {}
  BY <1>3 DEF Dirty
<1>5. LLC[g][b].st = llc[g][b].st /\ LLC[g][b].cur = llc[g][b].cur
  BY <1>2, <1>4 DEF Requested, SnoopedData
<1>6. \A h \in Llc, x \in Block : h # g \/ x # b => LLC[h][x] = llc[h][x]
  BY <1>2 DEF Requested
<1>7. QED
  BY <1>1, <1>5, <1>6

LEMMA MissWaitsData ==
    ASSUME TypeOK, HandoverInv, HierarchyInv, DataInv, NEW c \in Core, MissWaits(c)
    PROVE  DataInv'
<1>1. CacheType /\ HandoverType /\ llc \in LlcType /\ up \in ChannelType
  BY TypeParts DEF CacheType
<1>2. PICK b \in Block, op \in Op : b = user[c].block /\ op = user[c].op
  <2>1. user[c].pc = "miss"
    BY DEF MissWaits, HasStackLock
  <2>2. user[c].block \in Block
    BY <2>1 DEF HandoverInv, UserInv
  <2>3. user[c].op \in Op
    BY <1>1 DEF HandoverType, UserType
  <2>4. QED
    BY <2>2, <2>3
<1>3. PICK L1 \in L1Type : L1 = OwnInvalidated(c)
  BY <1>1, <1>2, OwnInvalidatedFacts
<1>4. L1[c][b].st = "INVALID" /\ \A d \in Core, x \in Block : d # c \/ x # b => L1[d][x] = l1[d][x]
  BY <1>1, <1>2, <1>3, OwnInvalidatedFacts, LineFacts
<1>5. PICK g \in Llc : g = Master(c)
  BY MasterFacts
<1>6. PICK st \in CState : st = llc[g][b].st
  BY PartTypes
<1>7. PICK M \in L1Type, LLC \in LlcType :
        M = L1AfterRequest(c, op, b, L1) /\ LLC = LlcAfterRequest(c, op, b, L1)
  BY L1AfterRequestFacts, LlcAfterRequestFacts
<1>8. PICK P, Q \in BOOLEAN : (P <=> waiters[g][b] = <<>>) /\ (Q <=> P /\ op # "READ" /\ st = "SHARED")
  OBVIOUS
<1>9. PICK su \in CState : su = "SHARED_UPGRADING"
  BY DEF CState
<1>10. PICK r \in REQ : r = CASE op = "READ" -> "SH_REQ" [] Q -> "UPGRADE_REQ" [] OTHER -> "EX_REQ"
  BY DEF REQ
<1>11. PICK m \in Message : m = Msg(r, FALSE) /\ m.type = r
  BY MsgFacts
<1>12. /\ ~Serves(st, op)
       /\ l1' = M
       /\ llc' = IF Q THEN PutSt(LLC, g, b, su) ELSE LLC
       /\ up' = IF P THEN Sent(up, g, b, m) ELSE up
       /\ UNCHANGED <<net, down, dram>>
  BY <1>2, <1>3, <1>5, <1>6, <1>7, <1>8, <1>9, <1>10, <1>11 DEF MissWaits, PutSt
<1>13. \A h \in Llc, x \in Block :
         /\ llc'[h][x].st = IF Q /\ h = g /\ x = b THEN "SHARED_UPGRADING" ELSE llc[h][x].st
         /\ llc'[h][x].cur = llc[h][x].cur
         /\ h # g \/ x # b => llc'[h][x] = llc[h][x]
  <2>1. \A h \in Llc, x \in Block : LLC[h][x].st = llc[h][x].st /\ LLC[h][x].cur = llc[h][x].cur
    BY <1>4, <1>5, <1>6, <1>7, <1>12, MissWaitsLlc
  <2>2. \A h \in Llc, x \in Block : h # g \/ x # b => LLC[h][x] = llc[h][x]
    <3>1. Requested(c, op, b, LLC)
      BY <1>7, LlcRequested
    <3>2. QED
      BY <1>5, <3>1 DEF Requested
  <2>3. CASE Q
    BY <1>9, <1>12, <2>1, <2>2, <2>3, PutStFacts
  <2>4. CASE ~Q
    BY <1>12, <2>1, <2>2, <2>4
  <2>5. QED
    BY <2>3, <2>4
<1>14. \A h \in Llc, x \in Block :
         up'[h][x] = IF P /\ h = g /\ x = b THEN Append(up[g][b], m) ELSE up[h][x]
  <2>1. CASE P
    BY <1>1, <1>12, <2>1, SentFacts
  <2>2. CASE ~P
    BY <1>12, <2>2
  <2>3. QED
    BY <2>1, <2>2
<1>15. \A d \in Core, x \in Block :
         M[d][x] = IF /\ x = b /\ Master(d) = g /\ d # c /\ Valid(L1[d][b]) /\ Snoops(st, op)
                   THEN IF op = "READ" THEN [st |-> "SHARED", cur |-> L1[d][b].cur] ELSE Absent
                   ELSE L1[d][x]
  BY <1>5, <1>6, <1>7, L1AfterRequestFacts
<1>16. Snoops(st, op) <=> op # "READ" /\ st = "SHARED"
  BY <1>12 DEF Snoops, Serves, operationPermissibleinCache, Readable
<1>17. \A h \in Llc : \A d \in L1sOf(h) : d \in Core /\ Master(d) = h
  BY MasterFacts
<1>18. ASSUME NEW d \in L1sOf(g), Valid(l1'[d][b])
       PROVE  l1'[d][b] = l1[d][b] /\ ~Q
  <2>1. d # c /\ d \in Core /\ Master(d) = g
    BY <1>4, <1>12, <1>15, <1>17, <1>18 DEF Valid
  <2>2. L1[d][b] = l1[d][b]
    BY <1>4, <2>1
  <2>3. CASE Valid(L1[d][b]) /\ Snoops(st, op)
    <3>1. M[d][b] = Absent
      BY <1>15, <1>16, <2>1, <2>3
    <3>2. QED
      BY <1>12, <1>18, <3>1, LineFacts DEF Valid
  <2>4. CASE ~(Valid(L1[d][b]) /\ Snoops(st, op))
    <3>1. M[d][b] = L1[d][b]
      BY <1>15, <2>1, <2>4
    <3>2. QED
      BY <1>8, <1>12, <1>16, <1>18, <2>2, <2>4, <3>1
  <2>5. QED
    BY <2>3, <2>4
<1>19. SideNext(g, b)
  <2>1. SideOk(g, b, l1, llc[g][b], up[g][b], down[g][b], net[g], dram[b])
    BY DataHereParts
  <2>2. PICK U, V \in Seq(Message) : U = up[g][b] /\ V = up'[g][b] /\ (V = U \/ V = Append(U, m))
    <3>1. up[g][b] \in Seq(Message) /\ Append(up[g][b], m) \in Seq(Message)
      BY PartTypes, AppendFacts
    <3>2. QED
      BY <1>14, <3>1
  <2>3. Carry(V, WRITEBACK)
    <3>1. m.type \notin WRITEBACK
      BY <1>11 DEF REQ, WRITEBACK
    <3>2. Carry(U, WRITEBACK)
      BY <2>1, <2>2 DEF SideOk
    <3>3. QED
      BY <2>2, <3>1, <3>2, CarryAppend
  <2>4. \A d \in L1sOf(g) : l1[d][b].st # "MODIFIED"
    <3>1. st # "MODIFIED"
      BY <1>12 DEF Serves, operationPermissibleinCache, Readable
    <3>2. QED
      BY <1>6, <1>17, <3>1 DEF HierarchyInv, InclusionInv
  <2>5. PICK t \in Line : t = llc'[g][b] /\ t.cur = llc[g][b].cur /\ t.st = (IF Q THEN "SHARED_UPGRADING" ELSE st)
    <3>1. llc' \in LlcType
      BY <1>7, <1>9, <1>12, PutStFacts
    <3>2. QED
      BY <1>6, <1>13, <3>1 DEF LlcType
  <2>6. Valid(t) => t.cur
    BY <1>6, <1>8, <2>1, <2>4, <2>5 DEF SideOk, Valid
  <2>7. \A d \in L1sOf(g) : l1'[d][b].st # "MODIFIED"
    BY <1>18, <2>4 DEF Valid
  <2>8. ASSUME NeedsCopies(b, t.st, net'[g]), NEW d \in L1sOf(g), Valid(l1'[d][b])
        PROVE  l1'[d][b].cur
    <3>1. l1'[d][b] = l1[d][b] /\ ~Q
      BY <1>18, <2>8
    <3>2. NeedsCopies(b, llc[g][b].st, net[g])
      BY <1>6, <1>12, <2>5, <2>8, <3>1 DEF NeedsCopies
    <3>3. QED
      BY <2>1, <2>8, <3>1, <3>2 DEF SideOk
  <2>9. t.st = "EXCLUSIVE" => llc[g][b].st = "EXCLUSIVE"
    BY <1>6, <2>5
  <2>10. SideOk(g, b, l1', t, V, down[g][b], net'[g], dram[b])
    BY <2>1, <2>3, <2>6, <2>7, <2>8, <2>9 DEF SideOk
  <2>11. QED
    BY <1>12, <2>2, <2>5, <2>10 DEF SideNext
<1>20. ASSUME NEW h \in Llc, NEW x \in Block, h # g \/ x # b
       PROVE  DataSame(h, x)
  <2>1. \A d \in L1sOf(h) : l1'[d][x] = l1[d][x]
    <3>1. ASSUME NEW d \in L1sOf(h)
          PROVE  l1'[d][x] = l1[d][x]
      <4>1. d \in Core /\ ~(x = b /\ Master(d) = g)
        BY <1>17, <1>20
      <4>2. d # c \/ x # b
        BY <1>5, <4>1
      <4>3. QED
        BY <1>4, <1>12, <1>15, <4>1, <4>2
    <3>2. QED
      BY <3>1
  <2>2. QED
    BY <1>12, <1>13, <1>14, <1>20, <2>1 DEF DataSame
<1>21. ASSUME NEW x \in Block
       PROVE  KeptNext(x)
  <2>1. ASSUME NEW h \in Llc, Holds(llc[h][x], up[h][x])
        PROVE  Holds(llc'[h][x], up'[h][x])
    <3>1. CASE h = g /\ x = b
      <4>1. PICK U, V \in Seq(Message) : U = up[g][b] /\ V = up'[g][b] /\ (V = U \/ V = Append(U, m))
        <5>1. up[g][b] \in Seq(Message) /\ Append(up[g][b], m) \in Seq(Message)
          BY PartTypes, AppendFacts
        <5>2. QED
          BY <1>14, <5>1
      <4>2. Has(U, WRITEBACK) => Has(V, WRITEBACK)
        BY ZenonT(60), <4>1, HasAppend
      <4>3. st # "MODIFIED"
        BY <1>12 DEF Serves, operationPermissibleinCache, Readable
      <4>4. QED
        BY <1>6, <2>1, <3>1, <4>1, <4>2, <4>3 DEF Holds
    <3>2. CASE h # g \/ x # b
      <4>1. llc'[h][x] = llc[h][x] /\ up'[h][x] = up[h][x]
        BY <1>13, <1>14, <3>2
      <4>2. QED
        BY <2>1, <4>1
    <3>3. QED
      BY <3>1, <3>2
  <2>2. dram'[x] = dram[x]
    BY <1>12
  <2>3. QED
    BY <2>1, <2>2, KeptKeeps
<1>22. QED
  BY <1>19, <1>20, <1>21, DataKeeps

(* The waiters of b are served: a writer that finds the line SHARED asks   *)
(* for an upgrade, when nobody holds another copy of it that is outdated.  *)
SameBefore(h, x, LLC, UP) ==
    /\ \A d \in L1sOf(h) : l1'[d][x] = l1[d][x]
    /\ LLC[h][x] = llc[h][x] /\ UP[h][x] = up[h][x] /\ down'[h][x] = down[h][x]

LEMMA ServedData ==
    ASSUME DataInv, dram' = dram, NEW g \in Llc, NEW b \in Block, NEW queue \in Seq(Waiter),
           NEW LLC \in LlcType, NEW UP \in ChannelType, QueueServed(g, b, queue, LLC, UP),
           SideOk(g, b, l1', LLC[g][b], UP[g][b], down'[g][b], b, dram[b]),
           \A x \in Block : Kept(x, LLC, dram, UP),
           \A h \in Llc, x \in Block :
               h # g \/ x # b =>
                  \/ SameBefore(h, x, LLC, UP)
                  \/ h = g /\ SideOk(h, x, l1', LLC[h][x], UP[h][x], down'[h][x], NoBlock, dram[x])
    PROVE  DataInv'
<1>1. PICK P, W \in BOOLEAN : (P <=> Upgrades(g, b, queue, LLC)) /\ (W <=> Wakes(g, b, queue, LLC))
  OBVIOUS
<1>2. PICK t \in Line, u \in Line : t = LLC[g][b] /\ u = llc'[g][b]
  BY DEF QueueServed, LlcType
<1>3. PICK m \in Message : m = Msg("UPGRADE_REQ", FALSE) /\ m.type = "UPGRADE_REQ"
  BY MsgFacts DEF REQ
<1>4. PICK U, V \in Seq(Message) : U = UP[g][b] /\ V = up'[g][b]
  <2>1. UP[g][b] \in Seq(Message)
    BY DEF ChannelType
  <2>2. up' \in ChannelType
    BY DEF QueueServed
  <2>3. up'[g][b] \in Seq(Message)
    BY <2>2 DEF ChannelType
  <2>4. QED
    BY <2>1, <2>3
<1>5. /\ u.st = IF P THEN "SHARED_UPGRADING" ELSE t.st
      /\ u.cur = t.cur
      /\ P => t.st = "SHARED"
      /\ V = IF P THEN Append(U, m) ELSE U
      /\ \A h \in Llc, x \in Block : h # g \/ x # b => llc'[h][x] = LLC[h][x] /\ up'[h][x] = UP[h][x]
      /\ net'[g] \in {b, NoBlock}
      /\ \A h \in Llc : h # g => net'[h] = net[h]
  <2>1. /\ u.st = IF P THEN "SHARED_UPGRADING" ELSE t.st
        /\ u.cur = t.cur
        /\ \A h \in Llc, x \in Block : h # g \/ x # b => llc'[h][x] = LLC[h][x] /\ up'[h][x] = UP[h][x]
    BY <1>1, <1>2 DEF QueueServed
  <2>2. P => t.st = "SHARED"
    BY <1>1, <1>2 DEF Upgrades
  <2>3. V = IF P THEN Append(U, m) ELSE U
    BY <1>1, <1>3, <1>4 DEF QueueServed
  <2>4. net'[g] = (IF W THEN b ELSE NoBlock) /\ \A h \in Llc : h # g => net'[h] = net[h]
    BY <1>1 DEF QueueServed
  <2>5. QED
    BY <2>1, <2>2, <2>3, <2>4
<1>6. m.type \notin WRITEBACK
  BY <1>3 DEF WRITEBACK
<1>7. SideNext(g, b)
  <2>1. SideOk(g, b, l1', t, U, down'[g][b], b, dram[b])
    BY <1>2, <1>4
  <2>2. Carry(V, WRITEBACK)
    <3>1. Carry(U, WRITEBACK)
      BY <2>1 DEF SideOk
    <3>2. QED
      BY <1>5, <1>6, <3>1, CarryAppend
  <2>3. u.st = "EXCLUSIVE" => t.st = "EXCLUSIVE"
    BY <1>5
  <2>4. Valid(u) => Valid(t)
    BY <1>5 DEF Valid
  <2>5. NeedsCopies(b, u.st, net'[g]) => NeedsCopies(b, t.st, b)
    BY <1>5 DEF NeedsCopies
  <2>6. SideOk(g, b, l1', u, V, down'[g][b], net'[g], dram[b])
    BY <1>5, <2>1, <2>2, <2>3, <2>4, <2>5 DEF SideOk
  <2>7. QED
    BY <1>2, <1>4, <2>6 DEF SideNext
<1>8. ASSUME NEW h \in Llc, NEW x \in Block, h # g \/ x # b
      PROVE  DataSame(h, x) \/ SideNext(h, x)
  <2>1. h = g => net'[h] # x
    BY <1>5, <1>8, CoresAssumption
  <2>2. CASE SameBefore(h, x, LLC, UP)
    <3>1. net'[h] = x => net[h] = x
      BY <1>5, <2>1
    <3>2. QED
      BY <1>5, <1>8, <2>2, <3>1 DEF SameBefore, DataSame
  <2>3. CASE h = g /\ SideOk(h, x, l1', LLC[h][x], UP[h][x], down'[h][x], NoBlock, dram[x])
    <3>1. SideOk(h, x, l1', LLC[h][x], UP[h][x], down'[h][x], net'[h], dram[x])
      BY <2>1, <2>3, SideKept
    <3>2. QED
      BY <1>5, <1>8, <3>1 DEF SideNext
  <2>4. QED
    BY <1>8, <2>2, <2>3
<1>9. ASSUME NEW x \in Block
      PROVE  KeptNext(x)
  <2>1. ASSUME NEW h \in Llc, Holds(LLC[h][x], UP[h][x])
        PROVE  Holds(llc'[h][x], up'[h][x])
    <3>1. CASE h = g /\ x = b
      <4>1. Has(U, WRITEBACK) => Has(V, WRITEBACK)
        BY <1>5, HasAppend
      <4>2. Holds(t, U)
        BY <1>2, <1>4, <2>1, <3>1
      <4>3. Holds(u, V)
        BY <1>5, <4>1, <4>2 DEF Holds
      <4>4. QED
        BY <1>2, <1>4, <3>1, <4>3
    <3>2. CASE h # g \/ x # b
      BY <1>5, <2>1, <3>2
    <3>3. QED
      BY <3>1, <3>2
  <2>2. Kept(x, LLC, dram, UP)
    OBVIOUS
  <2>3. QED
    BY <2>1, <2>2 DEF Kept, KeptNext
<1>10. QED
  BY <1>7, <1>8, <1>9, DataKeeps

LEMMA NetResumesData ==
    ASSUME TypeOK, HandoverInv, DataInv, NEW g \in Llc, NetResumes(g)
    PROVE  DataInv'
<1>1. CacheType /\ HandoverType /\ llc \in LlcType /\ up \in ChannelType
  BY TypeParts DEF CacheType
<1>2. PICK b \in Block : b = net[g]
  BY <1>1, NetTypes DEF NetResumes
<1>3. 1 \in DOMAIN waiters[g][b]
  BY <1>2, CoresAssumption DEF HandoverInv, LockInv
<1>4. PICK q \in Seq(Waiter) : q = waiters[g][b] /\ q # <<>>
  BY <1>1, <1>3 DEF HandoverType, WaiterType
<1>5. PICK queue \in Seq(Waiter) : queue = Tail(q)
  BY <1>4, TailFacts
<1>6. lock[g] = Free /\ ServeWaiters(g, b, queue, llc, up) /\ UNCHANGED <<l1, dram, down>>
  BY <1>2, <1>4, <1>5 DEF NetResumes
<1>7. PICK LLC \in LlcType, UP \in ChannelType : LLC = llc /\ UP = up
  BY <1>1
<1>8. QueueServed(g, b, queue, LLC, UP)
  BY <1>4, <1>5, <1>6, <1>7, QueueTaken
<1>9. SideOk(g, b, l1', LLC[g][b], UP[g][b], down'[g][b], b, dram[b])
  <2>1. SideOk(g, b, l1, llc[g][b], up[g][b], down[g][b], net[g], dram[b])
    BY DataHereParts
  <2>2. QED
    BY <1>2, <1>6, <1>7, <2>1
<1>10. \A x \in Block : Kept(x, LLC, dram, UP)
  BY <1>7, DataHereParts
<1>11. \A h \in Llc, x \in Block : SameBefore(h, x, LLC, UP)
  BY <1>6, <1>7 DEF SameBefore
<1>12. QED
  BY <1>6, <1>8, <1>9, <1>10, <1>11, ServedData

(* An upgrade makes every copy that is left the writer's: they are all     *)
(* current, and so is the LLC line, which no first-level cache has dirty.  *)
LEMMA HandleUpgradeRepData ==
    ASSUME TypeOK, HandoverInv, HierarchyInv, DirectoryInv, DataInv, Running',
           NEW g \in Llc, NEW b \in Block, HandleUpgradeRep(g, b)
    PROVE  DataInv'
<1>1. CacheType /\ HandoverType /\ l1 \in L1Type /\ up \in ChannelType /\ down \in ChannelType
  BY TypeParts DEF CacheType
<1>2. lock[g] = Free /\ down[g][b] # <<>> /\ Head(down[g][b]).type = "UPGRADE_REP"
  BY DEF HandleUpgradeRep, Received
<1>3. PICK LLC \in LlcType :
        /\ LLC[g][b].st = "MODIFIED" /\ LLC[g][b].cur = llc[g][b].cur
        /\ \A h \in Llc, x \in Block : h # g \/ x # b => LLC[h][x] = llc[h][x]
        /\ ServeWaiters(g, b, waiters[g][b], LLC, up)
        /\ \A c \in Core, x \in Block :
             l1'[c][x] = IF x = b /\ Master(c) = g /\ Valid(l1[c][b])
                         THEN [st |-> "MODIFIED", cur |-> l1[c][b].cur] ELSE l1[c][x]
        /\ down' = [down EXCEPT ![g][b] = Tail(@)]
        /\ dram' = dram
  BY UpgradeRepFacts
<1>4. PICK q \in Seq(Waiter), UP \in ChannelType : q = waiters[g][b] /\ UP = up
  BY <1>1 DEF HandoverType, WaiterType
<1>5. QueueServed(g, b, q, LLC, UP)
  BY <1>2, <1>3, <1>4, QueueTaken
<1>6. Valid(llc[g][b])
  <2>1. PICK P \in BOOLEAN : P <=> Valid(llc[g][b])
    OBVIOUS
  <2>2. PICK A : A = {<<"out_buf", P>>,
                      <<"upgrade", llc[g][b].st \in {"INVALID", "SHARED_UPGRADING"}>>,
                      <<"waiter", waiters[g][b] # <<>> >>,
                      WritebackAccepted(g, b)}
    OBVIOUS
  <2>3. (P = Valid(llc[g][b])) /\ <<"out_buf", P>> \in A
    BY <2>1, <2>2 DEF Valid
  <2>4. Checked(A)
    BY <2>2, <2>3 DEF HandleUpgradeRep
  <2>5. P
    BY <2>3, <2>4, CheckedFails DEF Running
  <2>6. QED
    BY <2>1, <2>5
<1>7. llc[g][b].st = "SHARED_UPGRADING"
  BY <1>2, <1>6, UpgradeRepExpected DEF Valid
<1>8. \A d \in L1sOf(g) : d \in Core /\ Master(d) = g
  BY MasterFacts
<1>9. PICK D, E \in Seq(Message), m \in Message : D = down[g][b] /\ E = down'[g][b] /\ E = Tail(D) /\ m = Head(D) /\ D # <<>>
  <2>1. down'[g][b] = Tail(down[g][b])
    BY <1>2, <1>3, DownTaken
  <2>2. PICK D \in Seq(Message) : D = down[g][b] /\ D # <<>>
    BY <1>2, PartTypes
  <2>3. PICK E \in Seq(Message), m \in Message : E = Tail(D) /\ m = Head(D)
    BY <2>2, TailFacts
  <2>4. QED
    BY <2>1, <2>2, <2>3
<1>10. PICK K \in L1Type, t \in Line : K = l1 /\ t = llc[g][b]
  BY <1>1, PartTypes
<1>11. SideOk(g, b, K, t, UP[g][b], D, net[g], dram[b])
  BY <1>4, <1>9, <1>10, DataHereParts
<1>12. \A d \in L1sOf(g) : K[d][b].st # "MODIFIED"
  <2>1. LineOk(g, b, K, t.st, user, lock[g], waiters[g][b], net[g])
    BY <1>10, HierarchyParts
  <2>2. QED
    BY <1>7, <1>10, <2>1 DEF LineOk, Within
<1>13. \A d \in L1sOf(g) : Valid(K[d][b]) => K[d][b].cur
  BY <1>7, <1>10, <1>11 DEF SideOk, NeedsCopies
<1>14. \A d \in L1sOf(g) : Valid(l1'[d][b]) => l1'[d][b].cur
  <2>1. ASSUME NEW d \in L1sOf(g), Valid(l1'[d][b])
        PROVE  l1'[d][b].cur
    <3>1. Valid(K[d][b])
      BY <1>3, <1>8, <1>10, <2>1
    <3>2. l1'[d][b] = [st |-> "MODIFIED", cur |-> K[d][b].cur]
      <4>1. Valid(l1[d][b]) /\ d \in Core /\ Master(d) = g
        BY <1>8, <1>10, <3>1
      <4>2. l1'[d][b] = [st |-> "MODIFIED", cur |-> l1[d][b].cur]
        BY <1>3, <4>1
      <4>3. QED
        BY <1>10, <4>2
    <3>3. QED
      BY <1>13, <3>1, <3>2
  <2>2. QED
    BY <2>1
<1>15. t.cur
  BY <1>6, <1>10, <1>11, <1>12 DEF SideOk
<1>16. SideOk(g, b, l1', LLC[g][b], UP[g][b], E, b, dram[b])
  <2>1. Carry(E, DATAREP)
    BY <1>9, <1>11, CarryTail DEF SideOk
  <2>2. Has(E, {"EX_REP"}) => Has(D, {"EX_REP"})
    BY <1>9, HasTail
  <2>3. \A d \in L1sOf(g) : l1'[d][b].st = "MODIFIED" => l1'[d][b].cur
    BY <1>14 DEF Valid
  <2>4. QED
    BY <1>3, <1>10, <1>11, <1>14, <1>15, <2>1, <2>2, <2>3 DEF SideOk
<1>17. \A x \in Block : Kept(x, LLC, dram, UP)
  <2>1. ASSUME NEW x \in Block
        PROVE  Kept(x, LLC, dram, UP)
    <3>1. Kept(x, llc, dram, UP)
      BY <1>4, DataHereParts
    <3>2. \A h \in Llc : Holds(llc[h][x], UP[h][x]) => Holds(LLC[h][x], UP[h][x])
      BY <1>3 DEF Holds
    <3>3. QED
      BY <3>1, <3>2 DEF Kept
  <2>2. QED
    BY <2>1
<1>18. \A h \in Llc, x \in Block : h # g \/ x # b => SameBefore(h, x, LLC, UP)
  <2>1. ASSUME NEW h \in Llc, NEW x \in Block, h # g \/ x # b
        PROVE  SameBefore(h, x, LLC, UP)
    <3>1. \A d \in L1sOf(h) : l1'[d][x] = l1[d][x]
      BY ZenonT(60), <1>3, <2>1, MasterFacts
    <3>2. down'[h][x] = down[h][x]
      BY <1>2, <1>3, <2>1, DownTaken
    <3>3. QED
      BY <1>3, <1>4, <2>1, <3>1, <3>2 DEF SameBefore
  <2>2. QED
    BY <2>1
<1>19. QED
  BY SMTT(30), <1>3, <1>5, <1>9, <1>16, <1>17, <1>18, ServedData

LEMMA UpEvicted ==
    ASSUME TypeOK, NEW g \in Llc, NEW v, v = NoBlock \/ v \in Block,
           NEW UP, UP = UpAfterEvict(g, v)
    PROVE  /\ \A h \in Llc, x \in Block : h # g \/ x # v => UP[h][x] = up[h][x]
           /\ v \in Block => UP[g][v] = Append(up[g][v], EvictNote(g, v))
<1>1. CASE v = NoBlock
  BY <1>1, CoresAssumption DEF UpAfterEvict
<1>2. CASE v \in Block
  <2>1. PICK chan \in ChannelType : chan = up
    BY TypeParts DEF CacheType
  <2>2. PICK m \in Message : m = EvictNote(g, v)
    BY <1>2, EvictNoteFacts, TypeParts
  <2>3. UP = Sent(chan, g, v, m)
    BY <1>2, <2>1, <2>2, CoresAssumption DEF UpAfterEvict
  <2>4. \A h \in Llc, x \in Block :
          UP[h][x] = IF h = g /\ x = v THEN Append(chan[g][v], m) ELSE chan[h][x]
    BY <1>2, <2>3, SentFacts
  <2>5. QED
    BY <1>2, <2>1, <2>2, <2>4
<1>3. QED
  BY <1>1, <1>2

(* The reply of the directory carries current data, and so does the note   *)
(* that a dirty line was evicted for it.                                   *)
LEMMA HandleDataRepData ==
    ASSUME TypeOK, HandoverInv, HierarchyInv, DirectoryInv, DataInv,
           NEW g \in Llc, NEW b \in Block, NEW type \in {"EX_REP", "SH_REP"}, HandleDataRep(g, b, type)
    PROVE  DataInv'
<1>1. CacheType /\ HandoverType /\ l1 \in L1Type /\ llc \in LlcType
  BY TypeParts DEF CacheType
<1>2. lock[g] = Free /\ down[g][b] # <<>> /\ Head(down[g][b]).type = type
  BY DEF HandleDataRep, Received
<1>3. PICK v \in LlcVictims(llc, g), line \in Line, LLC \in LlcType, UP \in ChannelType :
        DataTaken(g, b, type, v, line, LLC, UP)
  BY DataRepFacts
<1>4. /\ v = NoBlock \/ (v \in Block /\ Valid(llc[g][v]))
      /\ line.st = IF type = "EX_REP" THEN "EXCLUSIVE" ELSE "SHARED"
      /\ line.cur = Head(down[g][b]).cur
      /\ LLC = LlcAfterInsert(llc, g, b, line, v)
      /\ UP = UpAfterEvict(g, v)
      /\ l1' = L1AfterEvict(l1, g, v)
      /\ ServeWaiters(g, b, waiters[g][b], LLC, UP)
      /\ down' = [down EXCEPT ![g][b] = Tail(@)]
      /\ dram' = dram
  BY <1>3 DEF DataTaken
<1>5. PICK q \in Seq(Waiter) : q = waiters[g][b]
  BY <1>1 DEF HandoverType, WaiterType
<1>6. QueueServed(g, b, q, LLC, UP)
  BY <1>2, <1>4, <1>5, QueueTaken
<1>7. \A h \in Llc, x \in Block :
        LLC[h][x] = IF h = g /\ x = v THEN Absent ELSE IF h = g /\ x = b THEN line ELSE llc[h][x]
  BY <1>1, <1>4, InsertFacts
<1>8. \A d \in Core, x \in Block :
        /\ x # v \/ Master(d) # g => l1'[d][x] = l1[d][x]
        /\ x = v /\ Master(d) = g => l1'[d][x].st = "INVALID"
  BY <1>1, <1>4, EvictFacts
<1>9. llc[g][b].st = "INVALID"
  BY <1>2, DataRepExpected
<1>10. v # b
  BY <1>4, <1>9, CoresAssumption DEF Valid
<1>11. \A h \in Llc : \A d \in L1sOf(h) : d \in Core /\ Master(d) = h
  BY MasterFacts
<1>12. \A d \in L1sOf(g) : l1'[d][b].st = "INVALID"
  <2>1. LineOk(g, b, l1, llc[g][b].st, user, lock[g], waiters[g][b], net[g])
    BY HierarchyParts
  <2>2. \A d \in L1sOf(g) : l1[d][b].st = "INVALID"
    BY <1>9, <2>1 DEF LineOk, Within
  <2>3. QED
    BY <1>8, <1>10, <1>11, <2>2
<1>13. PICK D, E \in Seq(Message), m \in Message : D = down[g][b] /\ E = down'[g][b] /\ E = Tail(D) /\ m = Head(D) /\ D # <<>>
  <2>1. down'[g][b] = Tail(down[g][b])
    BY <1>2, <1>4, DownTaken
  <2>2. PICK D \in Seq(Message) : D = down[g][b] /\ D # <<>>
    BY <1>2, PartTypes
  <2>3. PICK E \in Seq(Message), m \in Message : E = Tail(D) /\ m = Head(D)
    BY <2>2, TailFacts
  <2>4. QED
    BY <2>1, <2>2, <2>3
<1>14. \A h \in Llc, x \in Block : h # g \/ x # b => down'[h][x] = down[h][x]
  BY <1>2, <1>4, DownTaken
<1>15. /\ \A h \in Llc, x \in Block : h # g \/ x # v => UP[h][x] = up[h][x]
       /\ v \in Block => UP[g][v] = Append(up[g][v], EvictNote(g, v))
  BY <1>4, UpEvicted
<1>16. SideOk(g, b, l1', LLC[g][b], UP[g][b], E, b, dram[b])
  <2>1. SideOk(g, b, l1, llc[g][b], up[g][b], D, net[g], dram[b])
    BY <1>13, DataHereParts
  <2>2. LLC[g][b] = line /\ UP[g][b] = up[g][b]
    BY <1>7, <1>10, <1>15
  <2>3. m.type = type /\ line.cur = m.cur
    BY <1>2, <1>4, <1>13
  <2>4. Carry(E, DATAREP) /\ line.cur
    BY <1>13, <2>1, <2>3, CarryTail DEF SideOk, DATAREP
  <2>5. Has(D, {"EX_REP"}) <=> Has(E, {"EX_REP"}) \/ type = "EX_REP"
    BY <1>13, <2>3, HasTail
  <2>6. line.st = "EXCLUSIVE" => type = "EX_REP"
    BY <1>4
  <2>7. \A d \in L1sOf(g) : ~Valid(l1'[d][b]) /\ l1'[d][b].st # "MODIFIED"
    BY <1>12 DEF Valid
  <2>8. Carry(up[g][b], WRITEBACK) /\ (Has(D, {"EX_REP"}) => dram[b])
    BY <2>1 DEF SideOk
  <2>9. QED
    BY <2>2, <2>4, <2>5, <2>6, <2>7, <2>8 DEF SideOk
<1>17. ASSUME v \in Block
       PROVE  /\ SideOk(g, v, l1', LLC[g][v], UP[g][v], down'[g][v], NoBlock, dram[v])
              /\ Holds(llc[g][v], up[g][v]) => Holds(LLC[g][v], UP[g][v])
  <2>1. PICK U, V \in Seq(Message), n \in Message :
          U = up[g][v] /\ V = UP[g][v] /\ n = EvictNote(g, v) /\ V = Append(U, n)
    <3>1. up[g][v] \in Seq(Message) /\ EvictNote(g, v) \in Message
      BY <1>1, <1>17, EvictNoteFacts, PartTypes
    <3>2. Append(up[g][v], EvictNote(g, v)) \in Seq(Message)
      BY <3>1, AppendFacts
    <3>3. QED
      BY <1>15, <1>17, <3>1, <3>2
  <2>2. /\ n.type = IF llc[g][v].st = "MODIFIED" THEN "FLUSH_REP" ELSE "INV_REP"
        /\ llc[g][v].st = "MODIFIED" => n.cur = WrittenBack(l1, llc, g, v, {}).cur
    BY <1>1, <1>17, <2>1, EvictNoteFacts
  <2>3. PICK K \in L1Type : K = l1
    BY <1>1
  <2>4. Valid(llc[g][v])
    BY <1>4, <1>17, CoresAssumption
  <2>5. WrittenBack(K, llc, g, v, {}).cur
    BY <1>17, <2>3, <2>4, WrittenBackCurrent
  <2>6. n.type \in WRITEBACK => n.type = "FLUSH_REP" /\ n.cur
    BY <2>2, <2>3, <2>5 DEF WRITEBACK
  <2>7. SideOk(g, v, l1, llc[g][v], U, down[g][v], net[g], dram[v])
    BY <1>17, <2>1, DataHereParts
  <2>8. Carry(V, WRITEBACK)
    BY <2>1, <2>6, <2>7, CarryAppend DEF SideOk
  <2>9. LLC[g][v] = Absent /\ down'[g][v] = down[g][v]
    BY <1>7, <1>10, <1>14, <1>17
  <2>10. \A d \in L1sOf(g) : ~Valid(l1'[d][v]) /\ l1'[d][v].st # "MODIFIED"
    BY <1>8, <1>11, <1>17 DEF Valid
  <2>11. ~Valid(Absent) /\ Absent.st # "EXCLUSIVE"
    BY LineFacts DEF Valid
  <2>12. SideOk(g, v, l1', Absent, V, down[g][v], NoBlock, dram[v])
    BY <2>7, <2>8, <2>10, <2>11 DEF SideOk
  <2>13. Holds(llc[g][v], U) => Has(V, WRITEBACK)
    <3>1. llc[g][v].st = "MODIFIED" => n.type \in WRITEBACK
      BY <2>2 DEF WRITEBACK
    <3>2. Has(V, WRITEBACK) <=> Has(U, WRITEBACK) \/ n.type \in WRITEBACK
      BY <2>1, HasAppend
    <3>3. QED
      BY <3>1, <3>2 DEF Holds
  <2>14. QED
    BY <2>1, <2>9, <2>12, <2>13 DEF Holds
<1>18. \A x \in Block : Kept(x, LLC, dram, UP)
  <2>1. ASSUME NEW x \in Block
        PROVE  Kept(x, LLC, dram, UP)
    <3>1. Kept(x, llc, dram, up)
      BY DataHereParts
    <3>2. ASSUME NEW h \in Llc, Holds(llc[h][x], up[h][x])
          PROVE  Holds(LLC[h][x], UP[h][x])
      <4>1. CASE h = g /\ x = v
        BY <1>17, <2>1, <3>2, <4>1
      <4>2. CASE h # g \/ x # v
        <5>1. UP[h][x] = up[h][x]
          BY <1>15, <4>2
        <5>2. h = g /\ x = b => llc[h][x].st # "MODIFIED"
          BY <1>9
        <5>3. h # g \/ x # b => LLC[h][x] = llc[h][x]
          BY <1>7, <4>2
        <5>4. QED
          BY <3>2, <5>1, <5>2, <5>3 DEF Holds
      <4>3. QED
        BY <4>1, <4>2
    <3>3. QED
      BY <3>1, <3>2 DEF Kept
  <2>2. QED
    BY <2>1
<1>19. ASSUME NEW h \in Llc, NEW x \in Block, h # g \/ x # b
       PROVE  \/ SameBefore(h, x, LLC, UP)
              \/ h = g /\ SideOk(h, x, l1', LLC[h][x], UP[h][x], down'[h][x], NoBlock, dram[x])
  <2>1. CASE h = g /\ x = v
    BY <1>17, <1>19, <2>1
  <2>2. CASE h # g \/ x # v
    <3>1. \A d \in L1sOf(h) : l1'[d][x] = l1[d][x]
      BY <1>8, <1>11, <2>2
    <3>2. LLC[h][x] = llc[h][x] /\ UP[h][x] = up[h][x] /\ down'[h][x] = down[h][x]
      BY <1>7, <1>14, <1>15, <1>19, <2>2
    <3>3. QED
      BY <3>1, <3>2 DEF SameBefore
  <2>3. QED
    BY <2>1, <2>2
<1>20. QED
  BY SMTT(30), <1>4, <1>6, <1>13, <1>16, <1>18, <1>19, ServedData

LEMMA UpSent ==
    ASSUME TypeOK, NEW g \in Llc, NEW b \in Block, NEW m \in Message, up' = Sent(up, g, b, m)
    PROVE  /\ up'[g][b] = Append(up[g][b], m)
           /\ \A h \in Llc, x \in Block : h # g \/ x # b => up'[h][x] = up[h][x]
<1>1. PICK chan \in ChannelType : chan = up
  BY TypeParts DEF CacheType
<1>2. \A h \in Llc, x \in Block :
        Sent(chan, g, b, m)[h][x] = IF h = g /\ x = b THEN Append(chan[g][b], m) ELSE chan[h][x]
  BY SentFacts
<1>3. up' = Sent(chan, g, b, m)
  BY <1>1
<1>4. QED
  BY <1>1, <1>2, <1>3

(* A line that is taken away or downgraded leaves with the data of its     *)
(* dirty first-level copy.                                                 *)
LEMMA YieldsData ==
    ASSUME TypeOK, TypeOK', DataInv, NEW g \in Llc, NEW b \in Block, NEW type, NEW new, NEW reply, NEW checks,
           DirRequest(type, new, reply), type = "INV_REQ" => llc[g][b].st # "MODIFIED",
           NEW m \in Message, Yields(g, b, new, reply, checks, m),
           down[g][b] # <<>>, down' = [down EXCEPT ![g][b] = Tail(@)],
           net[g] = NoBlock, UNCHANGED <<dram, net>>
    PROVE  DataInv'
<1>1. /\ new \in CState /\ new \in {"INVALID", "SHARED"}
      /\ reply \in WRITEBACK => reply # "INV_REP"
      /\ type # "INV_REQ" => reply \in WRITEBACK
  BY DEF DirRequest, CState, WRITEBACK
<1>2. CacheType /\ up \in ChannelType
  BY TypeParts DEF CacheType
<1>3. PICK K \in L1Type, K2 \in L1Type : K = l1 /\ K2 = l1'
  BY <1>2 DEF Yields, CacheType
<1>4. PICK w \in Line : w = WrittenBack(K, llc, g, b, {})
  BY <1>2, <1>3, WrittenBackFacts DEF CacheType
<1>5. /\ Valid(llc[g][b]) /\ m.type = reply /\ (m.cur <=> w.cur /\ reply # "INV_REP")
      /\ up' = Sent(up, g, b, m)
      /\ \A c \in Core, x \in Block :
           K2[c][x] = IF x = b /\ Master(c) = g /\ Valid(K[c][b]) THEN SnoopedLine(K[c][b], new) ELSE K[c][x]
      /\ llc'[g][b] = SnoopedLine(w, new)
      /\ \A h \in Llc, x \in Block : h # g \/ x # b => llc'[h][x] = llc[h][x]
  BY <1>3, <1>4 DEF Yields
<1>6. w.cur
  BY <1>3, <1>4, <1>5, WrittenBackCurrent
<1>7. m.type \in WRITEBACK => m.cur
  BY <1>1, <1>5, <1>6
<1>8. \A line \in Line : /\ SnoopedLine(line, new).st = new
                         /\ new = "SHARED" => SnoopedLine(line, new).cur = line.cur
  BY <1>1, LineFacts DEF SnoopedLine
<1>9. PICK t \in Line : t = llc'[g][b] /\ t.st = new /\ (Valid(t) => t.cur)
  <2>1. llc'[g][b] \in Line
    BY PartTypesNext
  <2>2. QED
    BY <1>1, <1>5, <1>6, <1>8, <2>1 DEF Valid
<1>10. \A d \in L1sOf(g) : d \in Core /\ Master(d) = g
  BY MasterFacts
<1>11. ASSUME NEW d \in L1sOf(g)
       PROVE  /\ K2[d][b].st # "MODIFIED" \/ (~Valid(K[d][b]) /\ K2[d][b] = K[d][b])
              /\ Valid(K2[d][b]) => Valid(K[d][b]) /\ K2[d][b].cur = K[d][b].cur
  <2>1. CASE Valid(K[d][b])
    <3>1. K2[d][b] = SnoopedLine(K[d][b], new) /\ K[d][b] \in Line
      BY <1>5, <1>10, <2>1 DEF L1Type
    <3>2. K2[d][b].st = new /\ (new = "SHARED" => K2[d][b].cur = K[d][b].cur)
      BY <1>8, <3>1
    <3>3. QED
      BY <1>1, <2>1, <3>2 DEF Valid
  <2>2. CASE ~Valid(K[d][b])
    BY <1>5, <1>10, <2>2
  <2>3. QED
    BY <2>1, <2>2
<1>12. \A d \in L1sOf(g) : K2[d][b].st # "MODIFIED"
  BY <1>11 DEF Valid
<1>13. PICK U, V, D, E \in Seq(Message), n \in Message :
         /\ U = up[g][b] /\ V = up'[g][b] /\ V = Append(U, m)
         /\ D = down[g][b] /\ E = down'[g][b] /\ E = Tail(D) /\ n = Head(D) /\ D # <<>>
  <2>1. down'[g][b] = Tail(down[g][b])
    BY DownTaken
  <2>2. PICK D \in Seq(Message) : D = down[g][b] /\ D # <<>>
    BY PartTypes
  <2>3. PICK E \in Seq(Message), n \in Message : E = Tail(D) /\ n = Head(D)
    BY <2>2, TailFacts
  <2>4. PICK U \in Seq(Message), V \in Seq(Message) : U = up[g][b] /\ V = Append(U, m)
    BY PartTypes, AppendFacts
  <2>5. up'[g][b] = Append(up[g][b], m)
    BY <1>5, UpSent
  <2>6. QED
    BY <2>1, <2>2, <2>3, <2>4, <2>5
<1>14. \A h \in Llc, x \in Block : h # g \/ x # b => up'[h][x] = up[h][x] /\ down'[h][x] = down[h][x]
  BY <1>5, UpSent, DownTaken
<1>15. SideOk(g, b, K, llc[g][b], U, D, net[g], dram[b])
  BY <1>3, <1>13, DataHereParts
<1>16. SideNext(g, b)
  <2>1. Carry(V, WRITEBACK)
    BY <1>7, <1>13, <1>15, CarryAppend DEF SideOk
  <2>2. Carry(E, DATAREP)
    BY <1>13, <1>15, CarryTail DEF SideOk
  <2>3. Has(E, {"EX_REP"}) => dram[b]
    BY <1>13, <1>15, HasTail DEF SideOk
  <2>4. NeedsCopies(b, t.st, net'[g]) => NeedsCopies(b, llc[g][b].st, net[g])
    BY <1>1, <1>9, CoresAssumption DEF NeedsCopies
  <2>5. NeedsCopies(b, t.st, net'[g]) => \A d \in L1sOf(g) : Valid(K2[d][b]) => K2[d][b].cur
    BY <1>11, <1>15, <2>4 DEF SideOk
  <2>6. SideOk(g, b, K2, t, V, E, net'[g], dram'[b])
    BY <1>1, <1>9, <1>12, <2>1, <2>2, <2>3, <2>5 DEF SideOk
  <2>7. QED
    BY <1>3, <1>9, <1>13, <2>6 DEF SideNext
<1>17. ASSUME NEW h \in Llc, NEW x \in Block, h # g \/ x # b
       PROVE  DataSame(h, x)
  <2>1. \A d \in L1sOf(h) : l1'[d][x] = l1[d][x]
    BY <1>3, <1>5, <1>17, MasterFacts
  <2>2. QED
    BY <1>5, <1>14, <1>17, <2>1 DEF DataSame
<1>18. ASSUME NEW x \in Block
       PROVE  KeptNext(x)
  <2>1. ASSUME NEW h \in Llc, Holds(llc[h][x], up[h][x])
        PROVE  Holds(llc'[h][x], up'[h][x])
    <3>1. CASE h = g /\ x = b
      <4>1. Has(V, WRITEBACK) <=> Has(U, WRITEBACK) \/ m.type \in WRITEBACK
        BY <1>13, HasAppend
      <4>2. llc[g][b].st = "MODIFIED" => m.type \in WRITEBACK
        BY <1>1, <1>5
      <4>3. Has(V, WRITEBACK)
        BY <1>13, <2>1, <3>1, <4>1, <4>2 DEF Holds
      <4>4. QED
        BY <1>13, <3>1, <4>3 DEF Holds
    <3>2. CASE h # g \/ x # b
      BY <1>5, <1>14, <2>1, <3>2
    <3>3. QED
      BY <3>1, <3>2
  <2>2. QED
    BY <2>1, KeptKeeps
<1>19. QED
  BY <1>16, <1>17, <1>18, DataKeeps

LEMMA DirReqData ==
    ASSUME TypeOK, TypeOK', DirectoryInv, DataInv,
           NEW g \in Llc, NEW b \in Block, NEW type, NEW new, NEW reply, NEW checks,
           DirRequest(type, new, reply), HandleDirReq(g, b, type, new, reply, checks)
    PROVE  DataInv'
<1>1. type \in FWD /\ new \in CState /\ reply \in GONE \cup {"WB_REP"}
  BY DirRequestFacts
<1>2. /\ down[g][b] # <<>> /\ Head(down[g][b]).type = type
      /\ down' = [down EXCEPT ![g][b] = Tail(@)]
      /\ net[g] = NoBlock /\ UNCHANGED <<dram, net>>
      /\ \/ ~Valid(llc[g][b]) /\ UNCHANGED <<l1, llc, up, failed>>
         \/ Unset(g, b, new)
         \/ \E m \in Message : Yields(g, b, new, reply, checks, m)
  BY <1>1, DirReqFacts
<1>3. ~Unset(g, b, new)
  BY DirReqLinks
<1>4. CASE ~Valid(llc[g][b]) /\ UNCHANGED <<l1, llc, up, failed>>
  <2>1. /\ down'[g][b] = Tail(down[g][b])
        /\ \A h \in Llc, x \in Block : h # g \/ x # b => down'[h][x] = down[h][x]
    BY <1>2, DownTaken
  <2>2. PICK D \in Seq(Message) : D = down[g][b] /\ D # <<>>
    BY <1>2, PartTypes
  <2>3. PICK E \in Seq(Message), n \in Message : E = Tail(D) /\ n = Head(D)
    BY <2>2, TailFacts
  <2>4. E = down'[g][b]
    BY <2>1, <2>2, <2>3
  <2>5. SideOk(g, b, l1, llc[g][b], up[g][b], D, net[g], dram[b])
    BY <2>2, DataHereParts
  <2>6. Carry(E, DATAREP) /\ (Has(E, {"EX_REP"}) => Has(D, {"EX_REP"}))
    BY <2>2, <2>3, <2>5, CarryTail, HasTail DEF SideOk
  <2>7. SideOk(g, b, l1, llc[g][b], up[g][b], E, net[g], dram[b])
    BY <2>5, <2>6 DEF SideOk
  <2>8. SideNext(g, b)
    BY <1>2, <1>4, <2>4, <2>7 DEF SideNext
  <2>9. \A h \in Llc, x \in Block : h # g \/ x # b => DataSame(h, x)
    BY <1>2, <1>4, <2>1 DEF DataSame
  <2>10. \A x \in Block : KeptNext(x)
    BY <1>2, <1>4, KeptKeeps
  <2>11. QED
    BY <2>8, <2>9, <2>10, DataKeeps
<1>5. ASSUME NEW m \in Message, Yields(g, b, new, reply, checks, m)
      PROVE  DataInv'
  <2>1. Valid(llc[g][b])
    BY <1>5 DEF Yields
  <2>2. type = "INV_REQ" => llc[g][b].st \notin OwnerState
    BY <1>1, <1>2, <2>1, DirReqExpected
  <2>3. type = "INV_REQ" => llc[g][b].st # "MODIFIED"
    BY <2>2 DEF OwnerState
  <2>4. QED
    BY <1>2, <1>5, <2>3, YieldsData
<1>6. QED
  BY <1>2, <1>3, <1>4, <1>5
-----------------------------------------------------------------------------
(* The directory takes a message: a write back makes the DRAM current.     *)
LEMMA DirReceiveData ==
    ASSUME TypeOK, DataInv, NEW g \in Llc, NEW b \in Block, DirReceive(g, b)
    PROVE  DataInv'
<1>1. /\ up[g][b] # <<>>
      /\ up' = [up EXCEPT ![g][b] = Tail(@)]
      /\ dram' = IF Head(up[g][b]).type \in {"FLUSH_REP", "WB_REP"}
                 THEN [dram EXCEPT ![b] = Head(up[g][b]).cur] ELSE dram
      /\ UNCHANGED <<l1, llc, net, down>>
  BY ReceiveFacts
<1>2. /\ up'[g][b] = Tail(up[g][b])
      /\ \A h \in Llc, x \in Block : h # g \/ x # b => up'[h][x] = up[h][x]
  BY <1>1, UpTaken
<1>3. PICK U, V \in Seq(Message), m \in Message :
        U = up[g][b] /\ V = up'[g][b] /\ V = Tail(U) /\ m = Head(U) /\ U # <<>>
  <2>1. PICK U \in Seq(Message) : U = up[g][b] /\ U # <<>>
    BY <1>1, PartTypes
  <2>2. PICK V \in Seq(Message), m \in Message : V = Tail(U) /\ m = Head(U)
    BY <2>1, TailFacts
  <2>3. QED
    BY <1>2, <2>1, <2>2
<1>4. SideOk(g, b, l1, llc[g][b], U, down[g][b], net[g], dram[b])
  BY <1>3, DataHereParts
<1>5. Carry(V, WRITEBACK) /\ (m.type \in WRITEBACK => m.cur)
  BY <1>3, <1>4, CarryTail DEF SideOk
<1>6. /\ \A x \in Block : dram[x] => dram'[x]
      /\ m.type \in WRITEBACK => dram'[b]
  <2>1. dram \in [Block -> BOOLEAN]
    BY TypeParts DEF CacheType
  <2>2. CASE m.type \in WRITEBACK
    <3>1. dram' = [dram EXCEPT ![b] = m.cur]
      BY <1>1, <1>3, <2>2 DEF WRITEBACK
    <3>2. QED
      BY <1>5, <2>1, <2>2, <3>1
  <2>3. CASE m.type \notin WRITEBACK
    BY <1>1, <1>3, <2>3 DEF WRITEBACK
  <2>4. QED
    BY <2>2, <2>3
<1>7. SideNext(g, b)
  <2>1. SideOk(g, b, l1, llc[g][b], V, down[g][b], net[g], dram[b])
    BY <1>4, <1>5 DEF SideOk
  <2>2. SideOk(g, b, l1', llc[g][b], V, down[g][b], net[g], dram'[b])
    BY <1>1, <1>6, <2>1, SideKept
  <2>3. QED
    BY <1>1, <1>3, <2>2 DEF SideNext
<1>8. \A h \in Llc, x \in Block : h # g \/ x # b => DataSame(h, x)
  BY <1>1, <1>2, <1>6 DEF DataSame
<1>9. ASSUME NEW x \in Block
      PROVE  KeptNext(x)
  <2>1. ASSUME NEW h \in Llc, Holds(llc[h][x], up[h][x])
        PROVE  Holds(llc'[h][x], up'[h][x]) \/ dram'[x]
    <3>1. CASE h = g /\ x = b
      <4>1. Has(U, WRITEBACK) <=> Has(V, WRITEBACK) \/ m.type \in WRITEBACK
        BY <1>3, HasTail
      <4>2. QED
        BY <1>1, <1>3, <1>6, <2>1, <3>1, <4>1 DEF Holds
    <3>2. CASE h # g \/ x # b
      BY <1>1, <1>2, <2>1, <3>2
    <3>3. QED
      BY <3>1, <3>2
  <2>2. QED
    BY <1>6, <2>1, KeptKeeps
<1>10. QED
  BY <1>7, <1>8, <1>9, DataKeeps

(* A message to g that carries current data, if it carries data.           *)
LEMMA DownGrows ==
    ASSUME DataInv, NEW g \in Llc, NEW b \in Block, NEW m \in Message,
           NEW D \in Seq(Message), D = down[g][b], NEW E \in Seq(Message), E = down'[g][b], E = Append(D, m),
           m.type \in DATAREP => m.cur, m.type = "EX_REP" => dram[b],
           UNCHANGED <<l1, llc, dram, net, up>>
    PROVE  SideNext(g, b)
<1>1. SideOk(g, b, l1, llc[g][b], up[g][b], D, net[g], dram[b])
  BY DataHereParts
<1>2. Carry(E, DATAREP)
  BY <1>1, CarryAppend DEF SideOk
<1>3. Has(E, {"EX_REP"}) <=> Has(D, {"EX_REP"}) \/ m.type = "EX_REP"
  BY HasAppend
<1>4. SideOk(g, b, l1, llc[g][b], up[g][b], E, net[g], dram[b])
  BY <1>1, <1>2, <1>3 DEF SideOk
<1>5. QED
  BY <1>4 DEF SideNext

LEMMA DirForwardData ==
    ASSUME TypeOK, DataInv, NEW b \in Block, DirForward(b)
    PROVE  DataInv'
<1>1. PICK type \in FWD :
        /\ down' = [g \in Llc |-> IF g \in Conflicting(dir[b])
                                  THEN [down[g] EXCEPT ![b] = Append(@, Msg(type, FALSE))]
                                  ELSE down[g]]
        /\ UNCHANGED <<l1, llc, dram, net, up>>
  <2>1. PICK type : type = CASE ~dir[b].owned -> "INV_REQ"
                             [] Head(dir[b].queue).type = "SH_REQ" -> "WB_REQ"
                             [] OTHER -> "FLUSH_REQ"
    OBVIOUS
  <2>2. type \in FWD
    BY <2>1 DEF FWD
  <2>3. QED
    BY <2>1, <2>2 DEF DirForward
<1>2. PICK m \in Message : m = Msg(type, FALSE) /\ m.type = type
  BY MsgFacts
<1>3. m.type \notin DATAREP /\ m.type # "EX_REP"
  BY <1>2 DEF DATAREP, FWD
<1>4. PICK chan \in ChannelType : chan = down
  BY TypeParts DEF CacheType
<1>5. ASSUME NEW g \in Llc
      PROVE  /\ \A x \in Block : x # b => down'[g][x] = down[g][x]
             /\ down'[g][b] = down[g][b] \/ down'[g][b] = Append(down[g][b], m)
  <2>1. chan[g] \in [Block -> Seq(Message)]
    BY DEF ChannelType
  <2>2. CASE g \in Conflicting(dir[b])
    <3>1. down'[g] = [chan[g] EXCEPT ![b] = Append(@, m)]
      BY <1>1, <1>2, <1>4, <2>2
    <3>2. QED
      BY <1>4, <2>1, <3>1
  <2>3. CASE g \notin Conflicting(dir[b])
    BY <1>1, <2>3
  <2>4. QED
    BY <2>2, <2>3
<1>6. ASSUME NEW h \in Llc, NEW x \in Block
      PROVE  DataSame(h, x) \/ SideNext(h, x)
  <2>1. CASE x = b /\ down'[h][b] = Append(down[h][b], m)
    <3>1. PICK D \in Seq(Message) : D = down[h][b]
      BY PartTypes
    <3>2. PICK E \in Seq(Message) : E = Append(D, m)
      BY AppendFacts
    <3>3. QED
      BY <1>1, <1>3, <2>1, <3>1, <3>2, DownGrows
  <2>2. CASE down'[h][x] = down[h][x]
    BY <1>1, <2>2 DEF DataSame
  <2>3. QED
    BY <1>5, <2>1, <2>2
<1>7. \A x \in Block : KeptNext(x)
  BY <1>1, KeptKeeps
<1>8. QED
  BY <1>6, <1>7, DataKeeps

(* The directory answers from the DRAM when nobody owns the line.          *)
LEMMA DramCurrent ==
    ASSUME DirectoryInv, DataInv, NEW b \in Block, ~dir[b].owned
    PROVE  dram[b]
<1>1. ASSUME NEW g \in Llc, Holds(llc[g][b], up[g][b])
      PROVE  FALSE
  <2>1. LinkInv(g, llc[g][b].st, up[g][b], down[g][b], dir[b])
    BY DEF DirectoryInv
  <2>2. Believed(g, llc[g][b].st, up[g][b], down[g][b], dir[b])
    BY <2>1 DEF LinkInv
  <2>3. QED
    BY <1>1, <2>2 DEF Believed, Holds, OwnerState, WRITEBACK
<1>2. Kept(b, llc, dram, up)
  BY DataHereParts
<1>3. QED
  BY <1>1, <1>2 DEF Kept

LEMMA DirReplyData ==
    ASSUME TypeOK, DirectoryInv, DataInv, NEW b \in Block, DirReply(b)
    PROVE  DataInv'
<1>1. /\ Conflicting(dir[b]) = {} /\ Head(dir[b].queue) \in Request
      /\ UNCHANGED <<l1, llc, dram, net, up>>
  BY ReplyFacts
<1>2. PICK exclusive \in BOOLEAN :
        /\ Reply(dir[b], exclusive, dram[b]) \in Message
        /\ down' = Sent(down, Head(dir[b].queue).from, b, Reply(dir[b], exclusive, dram[b]))
  BY ReplyFacts
<1>3. PICK r \in Request, m \in Message :
        r = Head(dir[b].queue) /\ m = Reply(dir[b], exclusive, dram[b])
  BY <1>1, <1>2
<1>4. PICK f \in Llc : f = r.from
  BY DEF Request
<1>5. r.type # "UPGRADE_REQ" => dram[b]
  <2>1. SUFFICES ASSUME r.type # "UPGRADE_REQ"
                 PROVE  ~dir[b].owned
    BY DramCurrent
  <2>2. r.type = "SH_REQ" \/ r.type = "EX_REQ"
    BY <2>1 DEF Request, REQ
  <2>3. dir[b].owned => dir[b].sharers # {}
    BY DEF DirectoryInv, OwnerAlone
  <2>4. QED
    BY <1>1, <1>3, <2>2, <2>3 DEF Conflicting
<1>6. /\ m.type \in DATAREP => r.type # "UPGRADE_REQ"
      /\ r.type # "UPGRADE_REQ" => m.cur = dram[b]
  <2>1. PICK type, k : /\ type = IF r.type = "UPGRADE_REQ" THEN "UPGRADE_REP"
                                ELSE IF exclusive THEN "EX_REP" ELSE "SH_REP"
                       /\ k = (dram[b] /\ ~(r.type = "UPGRADE_REQ" /\ r.from \in dir[b].sharers))
    OBVIOUS
  <2>2. m = Msg(type, k)
    BY <1>3, <2>1 DEF Reply
  <2>3. m.type = type /\ m.cur = k
    BY <2>2 DEF Msg
  <2>4. dram[b] \in BOOLEAN
    BY TypeParts DEF CacheType
  <2>5. QED
    BY <2>1, <2>3, <2>4 DEF DATAREP
<1>7. m.type \in DATAREP => m.cur /\ dram[b]
  BY <1>5, <1>6
<1>8. m.type = "EX_REP" => dram[b]
  BY <1>7 DEF DATAREP
<1>9. PICK chan \in ChannelType : chan = down
  BY TypeParts DEF CacheType
<1>10. PICK next : next = down'
  OBVIOUS
<1>11. \A h \in Llc, x \in Block :
         next[h][x] = IF h = f /\ x = b THEN Append(chan[f][b], m) ELSE chan[h][x]
  <2>1. next = Sent(chan, f, b, m)
    BY <1>2, <1>3, <1>4, <1>9, <1>10
  <2>2. QED
    BY <2>1, SentFacts
<1>12. PICK D \in Seq(Message), E \in Seq(Message) :
         D = down[f][b] /\ E = down'[f][b] /\ E = Append(D, m)
  <2>1. PICK D \in Seq(Message) : D = chan[f][b]
    BY DEF ChannelType
  <2>2. PICK E \in Seq(Message) : E = Append(D, m)
    BY AppendFacts
  <2>3. QED
    BY <1>9, <1>10, <1>11, <2>1, <2>2
<1>13. SideNext(f, b)
  BY <1>1, <1>7, <1>8, <1>12, DownGrows
<1>14. \A h \in Llc, x \in Block : h # f \/ x # b => DataSame(h, x)
  BY <1>1, <1>9, <1>10, <1>11 DEF DataSame
<1>15. \A x \in Block : KeptNext(x)
  BY <1>1, KeptKeeps
<1>16. QED
  BY <1>13, <1>14, <1>15, DataKeeps
-----------------------------------------------------------------------------
(* The data survives every step.                                           *)
DataIInv == HierarchyIInv /\ (Running => DataInv)

LEMMA DataUser ==
    ASSUME TypeOK, HandoverInv, ProtocolInv, HierarchyInv, dramDirect \in DramConfig, DataInv,
           HierarchyIInv', Running', NEW c \in Core, UserStep(c)
    PROVE  DataInv'
<1>1. ASSUME NEW op \in Op, NEW b \in Block, Hit(c, op, b)
      PROVE  DataInv'
  BY <1>1, HitData
<1>2. ASSUME NEW op \in Op, NEW b \in Block, Miss(c, op, b)
      PROVE  DataInv'
  BY <1>2, MissData
<1>3. CASE MissHitsLlc(c)
  BY <1>3, MissHitsFills, FillStepData
<1>4. CASE MissGoesToDram(c)
  <2>1. DirectInv
    BY <1>4 DEF MissGoesToDram, ProtocolInv
  <2>2. QED
    BY <1>4, <2>1, MissGoesToDramFills, FillStepData
<1>5. CASE MissWaits(c)
  BY <1>5, MissWaitsData
<1>6. CASE Resume(c)
  BY <1>6, ResumeFills, FillStepData
<1>7. CASE Unlock(c)
  BY <1>7, UnlockData
<1>8. QED
  BY <1>1, <1>2, <1>3, <1>4, <1>5, <1>6, <1>7 DEF UserStep

LEMMA DataNet ==
    ASSUME TypeOK, TypeOK', HandoverInv, DirectoryInv, HierarchyInv, DataInv, Running',
           NEW g \in Llc, NetStep(g)
    PROVE  DataInv'
<1>1. CASE NetResumes(g)
  BY <1>1, NetResumesData
<1>2. ASSUME NEW b \in Block, HandleMsgFromDramDirectory(g, b)
      PROVE  DataInv'
  <2>1. ASSUME NEW type \in {"EX_REP", "SH_REP"}, HandleDataRep(g, b, type)
        PROVE  DataInv'
    BY <2>1, HandleDataRepData
  <2>2. CASE HandleUpgradeRep(g, b)
    BY <2>2, HandleUpgradeRepData
  <2>3. ASSUME NEW type, NEW new, NEW reply, NEW checks,
               DirRequest(type, new, reply), HandleDirReq(g, b, type, new, reply, checks)
        PROVE  DataInv'
    BY <2>3, DirReqData
  <2>4. CASE HandleInvReq(g, b)
    BY <2>3, <2>4 DEF HandleInvReq, DirRequest
  <2>5. CASE HandleFlushReq(g, b)
    BY <2>3, <2>5 DEF HandleFlushReq, DirRequest
  <2>6. CASE HandleWbReq(g, b)
    BY <2>3, <2>6 DEF HandleWbReq, DirRequest
  <2>7. QED
    BY <1>2, <2>1, <2>2, <2>4, <2>5, <2>6 DEF HandleMsgFromDramDirectory
<1>3. QED
  BY <1>1, <1>2 DEF NetStep

LEMMA DataDir ==
    ASSUME TypeOK, ProtocolInv, DataInv, NEW b \in Block, DirStep(b)
    PROVE  DataInv'
<1>1. CASE DirForward(b)
  BY <1>1, DirForwardData
<1>2. ASSUME NEW g \in Llc, DirReceive(g, b)
      PROVE  DataInv'
  BY <1>2, DirReceiveData
<1>3. CASE DirReply(b)
  <2>1. DirectoryInv
    BY <1>3 DEF ProtocolInv, DirectInv, DirReply
  <2>2. QED
    BY <1>3, <2>1, DirReplyData
<1>4. QED
  BY <1>1, <1>2, <1>3 DEF DirStep

LEMMA DataStep ==
    ASSUME DataIInv, [Next]_vars
    PROVE  DataIInv'
<1>1. HierarchyIInv /\ HierarchyIInv' /\ TypeOK /\ TypeOK'
  BY HierarchyStep DEF DataIInv, HierarchyIInv, DirectoryIInv, HandoverIInv
<1>2. SUFFICES ASSUME Running'
               PROVE  DataInv'
  BY <1>1 DEF DataIInv
<1>3. CASE UNCHANGED vars
  <2>1. Running /\ UNCHANGED <<l1, llc, dram, net, up, down>>
    BY <1>2, <1>3 DEF vars, Running
  <2>2. DataInv
    BY <2>1 DEF DataIInv
  <2>3. QED
    BY <2>1, <2>2, DataParts, DataPartsNext
<1>4. ASSUME \/ \E c \in Core : UserStep(c)
             \/ \E g \in Llc : NetStep(g)
             \/ \E b \in Block : DirStep(b)
      PROVE  DataInv'
  <2>1. Running
    BY <1>4, OnlyRunning
  <2>2. HandoverInv /\ ProtocolInv /\ HierarchyInv /\ dramDirect \in DramConfig /\ DataInv
    BY <1>1, <2>1 DEF DataIInv, HierarchyIInv, DirectoryIInv, HandoverIInv
  <2>3. CASE \E c \in Core : UserStep(c)
    BY <1>1, <1>2, <2>2, <2>3, DataUser
  <2>4. ASSUME NEW g \in Llc, NetStep(g)
        PROVE  DataInv'
    <3>1. DirectoryInv
      BY <1>1, <2>2, <2>4, DirectQuiet DEF ProtocolInv
    <3>2. QED
      BY <1>1, <1>2, <2>2, <2>4, <3>1, DataNet
  <2>5. CASE \E b \in Block : DirStep(b)
    BY <1>1, <2>2, <2>5, DataDir
  <2>6. QED
    BY <1>4, <2>3, <2>4, <2>5
<1>5. QED
  BY <1>3, <1>4 DEF Next, Stopped

LEMMA DataStart == Init => DataIInv
<1> SUFFICES ASSUME Init
             PROVE  DataIInv
  OBVIOUS
<1>1. HierarchyIInv
  BY HierarchyStart
<1>2. /\ \A c \in Core, b \in Block : l1[c][b].st = "INVALID"
      /\ \A g \in Llc, b \in Block : llc[g][b].st = "INVALID" /\ up[g][b] = <<>> /\ down[g][b] = <<>>
      /\ \A b \in Block : dram[b]
  BY LineFacts DEF Init
<1>3. \A T : Carry(<<>>, T) /\ ~Has(<<>>, T)
  BY NothingHas DEF Carry
<1>4. ASSUME NEW g \in Llc, NEW b \in Block
      PROVE  SideOk(g, b, l1, llc[g][b], up[g][b], down[g][b], net[g], dram[b])
  <2>1. \A c \in L1sOf(g) : ~Valid(l1[c][b]) /\ l1[c][b].st # "MODIFIED"
    BY <1>2, MasterFacts DEF Valid
  <2>2. ~Valid(llc[g][b]) /\ llc[g][b].st # "EXCLUSIVE"
    BY <1>2 DEF Valid
  <2>3. QED
    BY <1>2, <1>3, <2>1, <2>2 DEF SideOk
<1>5. DataIs(l1, llc, dram, up, down, net)
  BY <1>2, <1>4 DEF DataIs, Kept
<1>6. QED
  BY <1>1, <1>5, DataParts DEF DataIInv

(* The data of the last write to a block is in the DRAM, or in a MODIFIED  *)
(* LLC line or the one dirty first-level copy above it, or in a write-back *)
(* on its way to the directory; the replies of the directory carry it, and *)
(* an upgrade finds nothing but current copies (accessCache,               *)
(* updateCacheBlock, retrieveCacheBlock, insertCacheBlock and the handlers *)
(* of the messages of the directory).                                      *)
THEOREM DataInvariant == Spec => []DataIInv
<1>1. DataIInv /\ [Next]_vars => DataIInv'
  BY DataStep
<1>2. QED
  BY <1>1, DataStart, PTL DEF Spec

(* The whole inductive invariant of CacheCntlrInv: the types, the locks,   *)
(* the hierarchy, the directory, the data, and the assertions that fail.   *)
THEOREM InductiveInvariant == Spec => []IInv
<1>1. DataIInv /\ FailureIInv => IInv
  BY DEF DataIInv, FailureIInv, HierarchyIInv, DirectoryIInv, HandoverIInv, IInv, CoreInv
<1>2. QED
  BY <1>1, DataInvariant, OnlyTwoFail, PTL

(* No write is ever lost: not by an eviction (insertCacheBlock), not by an *)
(* invalidation or a write-back that the directory asks for, and not by an *)
(* upgrade (updateCacheBlock).                                             *)
THEOREM NoWriteIsLost == Spec => []NoWriteLost
<1>1. DataIInv => NoWriteLost
  <2>1. ASSUME DataIInv, Running, NEW b \in Block, ~dram[b]
        PROVE  \/ \E c \in Core : l1[c][b] = [st |-> "MODIFIED", cur |-> TRUE]
               \/ \E g \in Llc : llc[g][b] = [st |-> "MODIFIED", cur |-> TRUE]
               \/ \E g \in Llc : \E i \in DOMAIN up[g][b] : up[g][b][i].cur
    <3>1. DataInv /\ TypeOK
      BY <2>1 DEF DataIInv, HierarchyIInv, DirectoryIInv, HandoverIInv
    <3>2. PICK g \in Llc : Holds(llc[g][b], up[g][b])
      BY <2>1, <3>1, DataHereParts DEF Kept
    <3>3. SideOk(g, b, l1, llc[g][b], up[g][b], down[g][b], net[g], dram[b])
      BY <3>1, DataHereParts
    <3>4. CASE Has(up[g][b], WRITEBACK)
      BY <3>3, <3>4 DEF SideOk, Carry, Has
    <3>5. CASE llc[g][b].st = "MODIFIED"
      <4>1. CASE llc[g][b].cur
        <5>1. PICK t \in Line : t = llc[g][b]
          BY <3>1, PartTypes
        <5>2. t.cur \in BOOLEAN /\ t = [st |-> t.st, cur |-> t.cur]
          BY LineFacts
        <5>3. t = [st |-> "MODIFIED", cur |-> TRUE]
          BY <3>5, <4>1, <5>1, <5>2
        <5>4. QED
          BY <5>1, <5>3
      <4>2. CASE ~llc[g][b].cur
        <5>1. PICK c \in L1sOf(g) : l1[c][b].st = "MODIFIED" /\ l1[c][b].cur
          BY <3>3, <3>5, <4>2 DEF SideOk, Valid
        <5>2. PICK t \in Line : c \in Core /\ t = l1[c][b]
          BY <3>1, <5>1, MasterFacts, TypeParts DEF CacheType, L1Type
        <5>3. t.cur \in BOOLEAN /\ t = [st |-> t.st, cur |-> t.cur]
          BY LineFacts
        <5>4. t = [st |-> "MODIFIED", cur |-> TRUE]
          BY <5>1, <5>2, <5>3
        <5>5. QED
          BY <5>2, <5>4
      <4>3. QED
        BY <4>1, <4>2
    <3>6. QED
      BY <3>2, <3>4, <3>5 DEF Holds
  <2>2. QED
    BY <2>1 DEF NoWriteLost
<1>2. QED
  BY <1>1, DataInvariant, PTL

(* With private last-level caches no core ever reads outdated data in its  *)
(* first-level cache (accessCache).  Where several cores share an LLC, a   *)
(* dirty neighbour is only snooped once a miss reaches the LLC.            *)
THEOREM ReadsAreCurrent == SharedCores = 1 => (Spec => []ReadsCurrent)
<1> SUFFICES ASSUME SharedCores = 1
             PROVE  Spec => []ReadsCurrent
  OBVIOUS
<1>1. DataIInv => ReadsCurrent
  <2>1. ASSUME DataIInv, Running, NEW c \in Core, NEW b \in Block, l1[c][b].st \in Readable
        PROVE  l1[c][b].cur
    <3>1. DataInv
      BY <2>1 DEF DataIInv
    <3>2. PICK g \in Llc : g = Master(c) /\ c \in L1sOf(g)
      BY MasterFacts
    <3>3. SideOk(g, b, l1, llc[g][b], up[g][b], down[g][b], net[g], dram[b])
      BY <3>1, DataHereParts
    <3>4. Valid(l1[c][b])
      BY <2>1 DEF Readable, Valid
    <3>5. QED
      BY <3>2, <3>3, <3>4 DEF SideOk, NeedsCopies
  <2>2. QED
    BY <2>1 DEF ReadsCurrent
<1>2. QED
  BY <1>1, DataInvariant, PTL
=============================================================================
