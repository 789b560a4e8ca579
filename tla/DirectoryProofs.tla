-------------------------- MODULE DirectoryProofs ---------------------------
(***************************************************************************)
(* Theorems about CacheCntlr, for any number of cores, LLCs and blocks.    *)
(*                                                                         *)
(* First the types and the thread hand-over: the set lock, the two         *)
(* semaphores and the queues of waiters. Then the link between the LLCs and *)
(* the directory: the state of every LLC line, the messages under way and  *)
(* what the directory believes agree.                                      *)
(***************************************************************************)
EXTENDS CacheCntlrInv, WellFoundedInduction, SequenceTheorems, TLAPS

(* Every nonempty set of naturals below a bound has a greatest element.    *)
LEMMA GreatestNat ==
    ASSUME NEW T \in SUBSET Nat, T # {}, NEW n \in Nat, \A k \in T : k <= n
    PROVE  \E m \in T : \A k \in T : k <= m
<1> DEFINE D == {n - k : k \in T}
           R == OpToRel(<, Nat)
<1>1. D \in SUBSET Nat
  OBVIOUS
<1>2. D # {}
  <2>1. PICK k \in T : TRUE
    OBVIOUS
  <2>2. n - k \in D
    OBVIOUS
  <2>3. QED
    BY <2>2
<1>3. PICK d \in D : \A e \in D : ~(<<e, d>> \in R)
  <2> HIDE DEF D, R
  <2>1. IsWellFoundedOn(R, Nat)
    BY NatLessThanWellFounded DEF R
  <2>2. QED
    BY <1>1, <1>2, <2>1, WFMin
<1>4. PICK m \in T : d = n - m
  OBVIOUS
<1>5. \A e \in D : ~(e < d)
  <2>1. \A e, c \in D : e < c => <<e, c>> \in R
    BY <1>1 DEF OpToRel
  <2> HIDE DEF D, R
  <2>2. QED
    BY <1>1, <1>3, <2>1
<1>6. \A k \in T : ~(n - k < n - m)
  BY <1>4, <1>5
<1>7. QED
  BY <1>6

(* A queue with one more entry.                                            *)
LEMMA AppendFacts ==
    ASSUME NEW S, NEW s \in Seq(S), NEW x \in S
    PROVE  /\ Append(s, x) \in Seq(S) /\ Append(s, x) # <<>>
           /\ DOMAIN s = 1..Len(s) /\ Len(s) \in Nat
           /\ DOMAIN Append(s, x) = 1..(Len(s) + 1)
           /\ \A i \in DOMAIN s : Append(s, x)[i] = s[i]
           /\ Append(s, x)[Len(s) + 1] = x
           /\ Head(Append(s, x)) = IF s = <<>> THEN x ELSE Head(s)
  BY AppendProperties, LenProperties, HeadTailAppend

(* A queue without its first entry.                                        *)
LEMMA TailFacts ==
    ASSUME NEW S, NEW s \in Seq(S), s # <<>>
    PROVE  /\ Tail(s) \in Seq(S) /\ Head(s) \in S /\ Head(s) = s[1]
           /\ DOMAIN s = 1..Len(s) /\ Len(s) \in Nat /\ Len(s) >= 1
           /\ DOMAIN Tail(s) = 1..(Len(s) - 1)
           /\ \A i \in DOMAIN Tail(s) : Tail(s)[i] = s[i + 1]
<1>1. Tail(s) \in Seq(S) /\ Head(s) \in S /\ Len(Tail(s)) = Len(s) - 1
      /\ \A i \in 1..Len(Tail(s)) : Tail(s)[i] = s[i + 1]
  BY HeadTailProperties
<1>2. DOMAIN s = 1..Len(s) /\ Len(s) \in Nat /\ DOMAIN Tail(s) = 1..Len(Tail(s))
  BY <1>1, LenProperties
<1>3. Len(s) >= 1
  BY <1>2, EmptySeq
<1>4. Head(s) = s[1]
  OBVIOUS
<1>5. QED
  BY <1>1, <1>2, <1>3, <1>4

(* The first-level caches of an LLC are those of the cores it serves.      *)
LEMMA MasterFacts ==
    /\ \A c \in Core : Master(c) \in Llc /\ c \in L1sOf(Master(c))
    /\ \A g \in Llc : \A c \in L1sOf(g) : c \in Core /\ Master(c) = g
    /\ \A g \in Llc : \E c \in Core : c \in L1sOf(g)
  BY DEF Llc, L1sOf
-----------------------------------------------------------------------------
(* Types of the caches' contents, and of the lines the operations on them  *)
(* leave.                                                                  *)
L1Type == [Core -> [Block -> Line]]
LlcType == [Llc -> [Block -> Line]]
ChannelType == [Llc -> [Block -> Seq(Message)]]
Waiter == [core : Core, exclusive : BOOLEAN]
WaiterType == [Llc -> [Block -> Seq(Waiter)]]

LEMMA LineFacts ==
    /\ Absent \in Line /\ Absent.st = "INVALID" /\ Absent.cur = FALSE
    /\ \A l \in Line : l.st \in CState /\ l.cur \in BOOLEAN /\ l = [st |-> l.st, cur |-> l.cur]
    /\ \A l \in Line, s \in CState :
         /\ [l EXCEPT !.st = s] \in Line
         /\ [l EXCEPT !.st = s].st = s /\ [l EXCEPT !.st = s].cur = l.cur
    /\ \A l \in Line, k \in BOOLEAN :
         /\ [l EXCEPT !.cur = k] \in Line
         /\ [l EXCEPT !.cur = k].st = l.st /\ [l EXCEPT !.cur = k].cur = k
  BY DEF Line, Absent, CState

LEMMA LineMade == \A s \in CState, k \in BOOLEAN :
                      \E l \in Line : l = [st |-> s, cur |-> k] /\ l.st = s /\ l.cur = k
<1> TAKE s \in CState, k \in BOOLEAN
<1> DEFINE l == [st |-> s, cur |-> k]
<1>1. l \in Line /\ l.st = s /\ l.cur = k
  BY DEF Line
<1> HIDE DEF l
<1>2. \E m \in Line : m = l /\ m.st = s /\ m.cur = k
  BY <1>1
<1>3. QED
  BY <1>2 DEF l

Put(F, i, j, t) == [F EXCEPT ![i][j] = t]

(* An entry of a table set to another value.                               *)
LEMMA PutL1 ==
    \A F \in L1Type : \A i \in Core, j \in Block, t \in Line :
        /\ Put(F, i, j, t) \in L1Type
        /\ Put(F, i, j, t)[i][j] = t
        /\ \A k \in Core, m \in Block : k # i \/ m # j => Put(F, i, j, t)[k][m] = F[k][m]
<1> TAKE F \in L1Type
<1> TAKE i \in Core, j \in Block, t \in Line
<1> QED
  BY DEF Put, L1Type

LEMMA PutLlc ==
    \A F \in LlcType : \A i \in Llc, j \in Block, t \in Line :
        /\ Put(F, i, j, t) \in LlcType
        /\ Put(F, i, j, t)[i][j] = t
        /\ \A k \in Llc, m \in Block : k # i \/ m # j => Put(F, i, j, t)[k][m] = F[k][m]
<1> TAKE F \in LlcType
<1> TAKE i \in Llc, j \in Block, t \in Line
<1> QED
  BY DEF Put, LlcType

LEMMA PutChannel ==
    \A F \in ChannelType : \A i \in Llc, j \in Block, t \in Seq(Message) :
        /\ Put(F, i, j, t) \in ChannelType
        /\ Put(F, i, j, t)[i][j] = t
        /\ \A k \in Llc, m \in Block : k # i \/ m # j => Put(F, i, j, t)[k][m] = F[k][m]
<1> TAKE F \in ChannelType
<1> TAKE i \in Llc, j \in Block, t \in Seq(Message)
<1> QED
  BY DEF Put, ChannelType

LEMMA PutWaiters ==
    \A F \in WaiterType : \A i \in Llc, j \in Block, t \in Seq(Waiter) :
        /\ Put(F, i, j, t) \in WaiterType
        /\ Put(F, i, j, t)[i][j] = t
        /\ \A k \in Llc, m \in Block : k # i \/ m # j => Put(F, i, j, t)[k][m] = F[k][m]
<1> TAKE F \in WaiterType
<1> TAKE i \in Llc, j \in Block, t \in Seq(Waiter)
<1> QED
  BY DEF Put, WaiterType

(* A line of a cache set to another one.                                   *)
LEMMA SetFacts ==
    ASSUME NEW I, NEW J, NEW T, NEW F \in [I -> [J -> T]], NEW i \in I, NEW j \in J, NEW t \in T
    PROVE  /\ [F EXCEPT ![i][j] = t] \in [I -> [J -> T]]
           /\ \A k \in I, m \in J : [F EXCEPT ![i][j] = t][k][m] = IF k = i /\ m = j THEN t ELSE F[k][m]
  OBVIOUS

PutSt(F, i, j, s) == [F EXCEPT ![i][j].st = s]

(* The state of an LLC line set to another one.                            *)
LEMMA PutStFacts ==
    \A F \in LlcType : \A i \in Llc, j \in Block, s \in CState :
        /\ PutSt(F, i, j, s) \in LlcType
        /\ PutSt(F, i, j, s)[i][j].st = s /\ PutSt(F, i, j, s)[i][j].cur = F[i][j].cur
        /\ \A k \in Llc, m \in Block : k # i \/ m # j => PutSt(F, i, j, s)[k][m] = F[k][m]
<1> TAKE F \in LlcType
<1> TAKE i \in Llc, j \in Block, s \in CState
<1>1. F[i][j] \in Line
  BY DEF LlcType
<1>2. PICK n : n = [F[i][j] EXCEPT !.st = s]
  OBVIOUS
<1>3. n \in Line /\ n.st = s /\ n.cur = F[i][j].cur
  BY <1>1, <1>2, LineFacts
<1>4. PutSt(F, i, j, s) = Put(F, i, j, n)
  BY <1>2 DEF Put, PutSt, LlcType
<1>5. QED
  BY <1>3, <1>4, PutLlc

SnoopedLine(line, new) == IF new = "INVALID" THEN Absent ELSE [st |-> new, cur |-> line.cur]

(* Snooping changes the copies of one block in the caches of one LLC.      *)
LEMMA SnoopedFacts ==
    \A L1 \in L1Type, b \in Block, new \in CState : \A g, skip :
        /\ Snooped(L1, g, b, new, skip) \in L1Type
        /\ \A c \in Core, x \in Block :
             Snooped(L1, g, b, new, skip)[c][x] =
                 IF x = b /\ c \in L1sOf(g) \ skip /\ Valid(L1[c][b])
                 THEN SnoopedLine(L1[c][b], new) ELSE L1[c][x]
<1> TAKE L1 \in L1Type, b \in Block, new \in CState
<1> TAKE g, skip
<1> DEFINE S == Snooped(L1, g, b, new, skip)
<1>1. ASSUME NEW c \in Core
      PROVE  /\ S[c] \in [Block -> Line]
             /\ \A x \in Block :
                  S[c][x] = IF x = b /\ c \in L1sOf(g) \ skip /\ Valid(L1[c][b])
                            THEN SnoopedLine(L1[c][b], new) ELSE L1[c][x]
  <2>1. L1[c] \in [Block -> Line] /\ L1[c][b] \in Line
    BY DEF L1Type
  <2>2. PICK n \in Line : /\ n = IF new = "INVALID" THEN Absent ELSE [L1[c][b] EXCEPT !.st = new]
                         /\ n = SnoopedLine(L1[c][b], new)
    BY <2>1, LineFacts DEF Line, SnoopedLine
  <2>3. S[c] = IF c \in L1sOf(g) \ skip /\ Valid(L1[c][b]) THEN [L1[c] EXCEPT ![b] = n] ELSE L1[c]
    BY <2>1, <2>2 DEF Snooped
  <2>4. /\ [L1[c] EXCEPT ![b] = n] \in [Block -> Line]
        /\ \A x \in Block : [L1[c] EXCEPT ![b] = n][x] = IF x = b THEN n ELSE L1[c][x]
    BY <2>1
  <2> HIDE DEF S
  <2>5. QED
    BY <2>1, <2>2, <2>3, <2>4
<1>2. S = [c \in Core |-> S[c]]
  BY DEF Snooped
<1> HIDE DEF S
<1>3. S \in L1Type
  BY <1>1, <1>2 DEF L1Type
<1>4. QED
  BY <1>1, <1>3 DEF S

(* A snoop writes back the data of a dirty copy, if there is one.          *)
LEMMA WrittenBackFacts ==
    ASSUME NEW L1 \in L1Type, NEW LLC \in LlcType, NEW g \in Llc, NEW b \in Block, NEW skip
    PROVE  /\ WrittenBack(L1, LLC, g, b, skip) \in Line
           /\ WrittenBack(L1, LLC, g, b, skip).st = LLC[g][b].st
           /\ Dirty(L1, g, b, skip) = {} => WrittenBack(L1, LLC, g, b, skip) = LLC[g][b]
           /\ Dirty(L1, g, b, skip) # {} =>
                \E c \in Dirty(L1, g, b, skip) : WrittenBack(L1, LLC, g, b, skip).cur = L1[c][b].cur
<1> DEFINE D == Dirty(L1, g, b, skip)
           m == CHOOSE c \in D : \A d \in D : d <= c
<1>1. LLC[g][b] \in Line
  BY DEF LlcType
<1>2. CASE D = {}
  BY <1>1, <1>2 DEF WrittenBack
<1>3. CASE D # {}
  <2>1. D \in SUBSET Nat /\ D \subseteq Core /\ NumCores - 1 \in Nat /\ \A k \in D : k <= NumCores - 1
    BY CoresAssumption DEF Dirty, L1sOf, Core
  <2>2. \E c \in D : \A d \in D : d <= c
    BY <1>3, <2>1, GreatestNat
  <2>3. m \in D
    BY <2>2
  <2>4. L1[m][b] \in Line /\ L1[m][b].cur \in BOOLEAN
    BY <2>1, <2>3, LineFacts DEF L1Type
  <2>5. WrittenBack(L1, LLC, g, b, skip) = [LLC[g][b] EXCEPT !.cur = L1[m][b].cur]
    BY <1>3 DEF WrittenBack
  <2> HIDE DEF m, D
  <2>6. QED
    BY <1>1, <1>3, <2>3, <2>4, <2>5, LineFacts DEF D
<1>4. QED
  BY <1>2, <1>3

(* The first-level lines and the LLC line after a request of core c.       *)
LEMMA L1AfterRequestFacts ==
    ASSUME TypeOK, NEW c \in Core, NEW op \in Op, NEW b \in Block, NEW L1 \in L1Type
    PROVE  /\ L1AfterRequest(c, op, b, L1) \in L1Type
           /\ \A d \in Core, x \in Block :
                L1AfterRequest(c, op, b, L1)[d][x] =
                    IF /\ x = b /\ Master(d) = Master(c) /\ d # c /\ Valid(L1[d][b])
                       /\ Snoops(llc[Master(c)][b].st, op)
                    THEN IF op = "READ" THEN [st |-> "SHARED", cur |-> L1[d][b].cur] ELSE Absent
                    ELSE L1[d][x]
<1> DEFINE new == SnoopsTo(op)
           S == Snooped(L1, Master(c), b, new, {c})
<1>1. new \in CState /\ new = IF op = "READ" THEN "SHARED" ELSE "INVALID"
  BY DEF SnoopsTo, CState
<1>2. /\ S \in L1Type
      /\ \A d \in Core, x \in Block :
           S[d][x] = IF x = b /\ d \in L1sOf(Master(c)) \ {c} /\ Valid(L1[d][b])
                     THEN SnoopedLine(L1[d][b], new) ELSE L1[d][x]
  <2> DEFINE skip == {c}
  <2> HIDE DEF skip, new
  <2>1. /\ Snooped(L1, Master(c), b, new, skip) \in L1Type
        /\ \A d \in Core, x \in Block :
             Snooped(L1, Master(c), b, new, skip)[d][x] =
                     IF x = b /\ d \in L1sOf(Master(c)) \ skip /\ Valid(L1[d][b])
                     THEN SnoopedLine(L1[d][b], new) ELSE L1[d][x]
    <3>1. new \in CState
      BY <1>1
    <3>2. QED
      BY <3>1, SnoopedFacts
  <2>2. QED
    BY <2>1 DEF skip
<1>3. \A d \in Core : d \in L1sOf(Master(c)) \ {c} <=> Master(d) = Master(c) /\ d # c
  BY DEF L1sOf
<1>4. L1AfterRequest(c, op, b, L1) = IF Snoops(llc[Master(c)][b].st, op) THEN S ELSE L1
  BY DEF L1AfterRequest
<1> HIDE DEF S, new
<1>5. CASE Snoops(llc[Master(c)][b].st, op)
  BY <1>1, <1>2, <1>3, <1>4, <1>5 DEF SnoopedLine
<1>6. CASE ~Snoops(llc[Master(c)][b].st, op)
  BY <1>4, <1>6
<1>7. QED
  BY <1>5, <1>6

LEMMA LlcAfterRequestFacts ==
    ASSUME TypeOK, NEW c \in Core, NEW op \in Op, NEW b \in Block, NEW L1 \in L1Type
    PROVE  LET g == Master(c)
               st == llc[g][b].st
               LLC == LlcAfterRequest(c, op, b, L1)
               D == Dirty(L1, g, b, {c})
           IN  /\ LLC \in LlcType
               /\ \A h \in Llc, x \in Block : h # g \/ x # b => LLC[h][x] = llc[h][x]
               /\ LLC[g][b].st = IF op # "READ" /\ Serves(st, op) THEN "MODIFIED" ELSE st
               /\ ~Snoops(st, op) \/ D = {} => LLC[g][b].cur = llc[g][b].cur
               /\ Snoops(st, op) /\ D # {} => \E d \in D : LLC[g][b].cur = L1[d][b].cur
<1> DEFINE g == Master(c)
           st == llc[g][b].st
           LLC == LlcAfterRequest(c, op, b, L1)
           D == Dirty(L1, g, b, {c})
           Snoop == IF Snoops(st, op) THEN WrittenBack(L1, llc, g, b, {c}) ELSE llc[g][b]
           line == IF op # "READ" /\ Serves(st, op) THEN [Snoop EXCEPT !.st = "MODIFIED"] ELSE Snoop
<1>1. g \in Llc /\ llc \in LlcType /\ llc[g][b] \in Line
  BY MasterFacts DEF TypeOK, LlcType
<1>2. /\ WrittenBack(L1, llc, g, b, {c}) \in Line /\ WrittenBack(L1, llc, g, b, {c}).st = st
      /\ D = {} => WrittenBack(L1, llc, g, b, {c}) = llc[g][b]
      /\ D # {} => \E d \in D : WrittenBack(L1, llc, g, b, {c}).cur = L1[d][b].cur
  <2> DEFINE skip == {c}
  <2> HIDE DEF skip, g
  <2>1. LET W == WrittenBack(L1, llc, g, b, skip)
            E == Dirty(L1, g, b, skip)
        IN  /\ W \in Line /\ W.st = st
            /\ E = {} => W = llc[g][b]
            /\ E # {} => \E d \in E : W.cur = L1[d][b].cur
    BY <1>1, WrittenBackFacts
  <2>2. QED
    BY <2>1 DEF skip
<1>3. LLC = [llc EXCEPT ![g][b] = line]
  BY DEF LlcAfterRequest
<1>4. /\ Snoop \in Line /\ Snoop.st = st
      /\ ~Snoops(st, op) \/ D = {} => Snoop.cur = llc[g][b].cur
      /\ Snoops(st, op) /\ D # {} => \E d \in D : Snoop.cur = L1[d][b].cur
  <2> HIDE DEF D, g
  <2>1. QED
    BY <1>1, <1>2
<1> HIDE DEF Snoop, D, g, st
<1>5. /\ line \in Line /\ line.cur = Snoop.cur
      /\ line.st = IF op # "READ" /\ Serves(st, op) THEN "MODIFIED" ELSE st
  <2>1. LET m == [Snoop EXCEPT !.st = "MODIFIED"]
        IN  m \in Line /\ m.st = "MODIFIED" /\ m.cur = Snoop.cur
    BY <1>4 DEF Line, CState
  <2>2. QED
    BY <1>4, <2>1
<1> HIDE DEF line, LLC
<1>6. LLC \in LlcType /\ \A h \in Llc, x \in Block : LLC[h][x] = IF h = g /\ x = b THEN line ELSE llc[h][x]
  BY <1>1, <1>3, <1>5, SetFacts DEF LlcType
<1>7. QED
  BY <1>1, <1>4, <1>5, <1>6 DEF D, LLC, g, st

(* A store outdates the messages in flight and leaves their types.         *)
LEMMA OutdatedFacts ==
    ASSUME NEW s \in Seq(Message)
    PROVE  /\ Outdated(s) \in Seq(Message) /\ DOMAIN Outdated(s) = DOMAIN s
           /\ \A i \in DOMAIN s : Outdated(s)[i].type = s[i].type /\ Outdated(s)[i].cur = FALSE
<1>1. DOMAIN s = 1..Len(s) /\ Len(s) \in Nat /\ \A i \in 1..Len(s) : s[i] \in Message
  BY LenProperties, ElementOfSeq
<1>2. \A m \in Message : /\ [m EXCEPT !.cur = FALSE] \in Message
                         /\ [m EXCEPT !.cur = FALSE].type = m.type /\ [m EXCEPT !.cur = FALSE].cur = FALSE
  BY DEF Message
<1>3. Outdated(s) = [i \in 1..Len(s) |-> [s[i] EXCEPT !.cur = FALSE]]
  BY <1>1 DEF Outdated
<1>4. Outdated(s) \in Seq(Message)
  BY <1>1, <1>2, <1>3, IsASeq
<1>5. ASSUME NEW i \in DOMAIN s
      PROVE  Outdated(s)[i].type = s[i].type /\ Outdated(s)[i].cur = FALSE
  <2>1. s[i] \in Message /\ Outdated(s)[i] = [s[i] EXCEPT !.cur = FALSE]
    BY <1>1, <1>3
  <2>2. QED
    BY <1>2, <2>1
<1>6. QED
  BY <1>1, <1>3, <1>4, <1>5

SameTypes(s, t) == DOMAIN s = DOMAIN t /\ \A i \in DOMAIN s : s[i].type = t[i].type

OutdatedAt(chan, b) == [g \in Llc |-> [chan[g] EXCEPT ![b] = Outdated(@)]]

(* Outdating the messages of one block.                                    *)
LEMMA OutdatedChannel ==
    ASSUME NEW chan \in ChannelType, NEW b \in Block
    PROVE  /\ OutdatedAt(chan, b) \in ChannelType
           /\ \A g \in Llc, x \in Block :
                /\ SameTypes(OutdatedAt(chan, b)[g][x], chan[g][x])
                /\ x # b => OutdatedAt(chan, b)[g][x] = chan[g][x]
                /\ x = b => OutdatedAt(chan, b)[g][x] = Outdated(chan[g][x])
<1> DEFINE C == OutdatedAt(chan, b)
<1>1. \A g \in Llc : chan[g] \in [Block -> Seq(Message)] /\ chan[g][b] \in Seq(Message)
                    /\ Outdated(chan[g][b]) \in Seq(Message)
  BY OutdatedFacts DEF ChannelType
<1>2. ASSUME NEW g \in Llc
      PROVE  /\ C[g] \in [Block -> Seq(Message)]
             /\ \A x \in Block : C[g][x] = IF x = b THEN Outdated(chan[g][b]) ELSE chan[g][x]
  BY <1>1 DEF OutdatedAt
<1>3. C = [g \in Llc |-> C[g]]
  BY DEF OutdatedAt
<1> HIDE DEF C
<1>7. C \in ChannelType
  BY <1>2, <1>3 DEF ChannelType
<1>4. \A g \in Llc : SameTypes(Outdated(chan[g][b]), chan[g][b])
  BY <1>1, OutdatedFacts DEF SameTypes
<1>5. \A g \in Llc, x \in Block : SameTypes(chan[g][x], chan[g][x])
  BY DEF SameTypes
<1>6. QED
  BY <1>2, <1>4, <1>5, <1>7 DEF C

(* What an access to b leaves of the lines L1, LLC, of the DRAM and of the *)
(* messages.                                                               *)
Accessed(c, op, b, L1, LLC, DRAM) ==
    /\ l1' \in L1Type /\ llc' \in LlcType /\ dram' \in [Block -> BOOLEAN]
    /\ up' \in ChannelType /\ down' \in ChannelType
    /\ \A d \in Core, x \in Block :
         /\ l1'[d][x].st = L1[d][x].st
         /\ op = "WRITE" /\ x = b => (l1'[d][x].cur <=> d = c)
         /\ op # "WRITE" \/ x # b => l1'[d][x] = L1[d][x]
    /\ \A h \in Llc, x \in Block :
         /\ llc'[h][x].st = LLC[h][x].st
         /\ op = "WRITE" /\ x = b => llc'[h][x].cur = FALSE
         /\ op # "WRITE" \/ x # b => llc'[h][x] = LLC[h][x]
    /\ \A x \in Block : dram'[x] = IF op = "WRITE" /\ x = b THEN FALSE ELSE DRAM[x]
    /\ \A h \in Llc, x \in Block :
         /\ SameTypes(up'[h][x], up[h][x]) /\ SameTypes(down'[h][x], down[h][x])
         /\ op # "WRITE" \/ x # b => up'[h][x] = up[h][x] /\ down'[h][x] = down[h][x]
         /\ op = "WRITE" /\ x = b => /\ up'[h][x] = Outdated(up[h][x])
                                    /\ down'[h][x] = Outdated(down[h][x])

(* The access itself changes no state of a line and no type of a message.  *)
LEMMA AccessFacts ==
    ASSUME TypeOK, NEW c \in Core, NEW op \in Op, NEW b \in Block, NEW L1 \in L1Type,
           NEW LLC \in LlcType, NEW DRAM \in [Block -> BOOLEAN],
           accessCache(c, op, b, L1, LLC, DRAM)
    PROVE  Accessed(c, op, b, L1, LLC, DRAM)
<1>0. up \in ChannelType /\ down \in ChannelType
  BY DEF TypeOK, ChannelType
<1>1. CASE op # "WRITE"
  <2>1. l1' = L1 /\ llc' = LLC /\ dram' = DRAM /\ up' = up /\ down' = down
    BY <1>1 DEF accessCache
  <2>2. QED
    BY <1>0, <1>1, <2>1 DEF SameTypes, Accessed
<1>2. CASE op = "WRITE"
  <2>1. /\ l1' = [d \in Core |-> [L1[d] EXCEPT ![b].cur = (d = c)]]
        /\ llc' = [g \in Llc |-> [LLC[g] EXCEPT ![b].cur = FALSE]]
        /\ dram' = [DRAM EXCEPT ![b] = FALSE]
        /\ up' = OutdatedAt(up, b) /\ down' = OutdatedAt(down, b)
    BY <1>2 DEF accessCache, OutdatedAt
  <2>2. ASSUME NEW d \in Core
        PROVE  /\ l1'[d] \in [Block -> Line]
               /\ \A x \in Block : /\ l1'[d][x].st = L1[d][x].st
                                   /\ x = b => (l1'[d][x].cur <=> d = c)
                                   /\ x # b => l1'[d][x] = L1[d][x]
    <3>1. L1[d] \in [Block -> Line] /\ L1[d][b] \in Line
      BY DEF L1Type
    <3>2. PICK n \in Line : n = [L1[d][b] EXCEPT !.cur = (d = c)] /\ n.st = L1[d][b].st /\ n.cur = (d = c)
      BY <3>1, LineFacts
    <3>3. l1'[d] = [L1[d] EXCEPT ![b] = n]
      BY <2>1, <3>1, <3>2
    <3>4. QED
      BY <3>1, <3>2, <3>3
  <2>3. ASSUME NEW h \in Llc
        PROVE  /\ llc'[h] \in [Block -> Line]
               /\ \A x \in Block : /\ llc'[h][x].st = LLC[h][x].st
                                   /\ x = b => llc'[h][x].cur = FALSE
                                   /\ x # b => llc'[h][x] = LLC[h][x]
    <3>1. LLC[h] \in [Block -> Line] /\ LLC[h][b] \in Line
      BY DEF LlcType
    <3>2. PICK n \in Line : n = [LLC[h][b] EXCEPT !.cur = FALSE] /\ n.st = LLC[h][b].st /\ n.cur = FALSE
      BY <3>1, LineFacts
    <3>3. llc'[h] = [LLC[h] EXCEPT ![b] = n]
      BY <2>1, <3>1, <3>2
    <3>4. QED
      BY <3>1, <3>2, <3>3
  <2>4. l1' \in L1Type /\ llc' \in LlcType
    BY <2>1, <2>2, <2>3 DEF L1Type, LlcType
  <2>5. dram' \in [Block -> BOOLEAN] /\ \A x \in Block : dram'[x] = IF x = b THEN FALSE ELSE DRAM[x]
    BY <2>1
  <2>6. /\ up' \in ChannelType
        /\ \A h \in Llc, x \in Block : /\ SameTypes(up'[h][x], up[h][x])
                                       /\ x # b => up'[h][x] = up[h][x]
                                       /\ x = b => up'[h][x] = Outdated(up[h][x])
    BY <1>0, <2>1, OutdatedChannel
  <2>7. /\ down' \in ChannelType
        /\ \A h \in Llc, x \in Block : /\ SameTypes(down'[h][x], down[h][x])
                                       /\ x # b => down'[h][x] = down[h][x]
                                       /\ x = b => down'[h][x] = Outdated(down[h][x])
    BY <1>0, <2>1, OutdatedChannel
  <2>8. \A d \in Core, x \in Block :
          /\ l1'[d][x].st = L1[d][x].st
          /\ op = "WRITE" /\ x = b => (l1'[d][x].cur <=> d = c)
          /\ op # "WRITE" \/ x # b => l1'[d][x] = L1[d][x]
    BY <1>2, <2>2
  <2>9. \A h \in Llc, x \in Block :
          /\ llc'[h][x].st = LLC[h][x].st
          /\ op = "WRITE" /\ x = b => llc'[h][x].cur = FALSE
          /\ op # "WRITE" \/ x # b => llc'[h][x] = LLC[h][x]
    BY <1>2, <2>3
  <2>10. \A x \in Block : dram'[x] = IF op = "WRITE" /\ x = b THEN FALSE ELSE DRAM[x]
    BY <1>2, <2>5
  <2>11. \A h \in Llc, x \in Block :
           /\ SameTypes(up'[h][x], up[h][x]) /\ SameTypes(down'[h][x], down[h][x])
           /\ op # "WRITE" \/ x # b => up'[h][x] = up[h][x] /\ down'[h][x] = down[h][x]
           /\ op = "WRITE" /\ x = b => /\ up'[h][x] = Outdated(up[h][x])
                                      /\ down'[h][x] = Outdated(down[h][x])
    BY <1>2, <2>6, <2>7
  <2>12. QED
    BY <2>4, <2>5, <2>6, <2>7, <2>8, <2>9, <2>10, <2>11 DEF Accessed
<1>3. QED
  BY <1>1, <1>2

(* A fill: the victim of the first level leaves its data in the LLC.       *)
FillL1(c, b, v, L1, LLC) ==
    [IF v # NoBlock THEN [L1 EXCEPT ![c][v] = Absent] ELSE L1 EXCEPT ![c][b] = LLC[Master(c)][b]]
FillLlc(c, v, L1, LLC) ==
    IF v # NoBlock /\ L1[c][v].st = "MODIFIED"
    THEN [LLC EXCEPT ![Master(c)][v].cur = L1[c][v].cur] ELSE LLC

LEMMA VictimFacts ==
    ASSUME NEW L1, NEW c, NEW v \in L1Victims(L1, c)
    PROVE  v = NoBlock \/ (v \in Block /\ Valid(L1[c][v]))
  BY DEF L1Victims

(* The lines F and B after the fill.                                       *)
FilledLines(c, b, v, L1, LLC, F, B) ==
    /\ F \in L1Type
    /\ \A d \in Core, x \in Block :
         F[d][x] = IF d = c /\ x = b THEN LLC[Master(c)][b]
                   ELSE IF d = c /\ x = v THEN Absent ELSE L1[d][x]
    /\ B \in LlcType
    /\ \A h \in Llc, x \in Block :
         /\ B[h][x].st = LLC[h][x].st
         /\ B[h][x].cur =
               IF h = Master(c) /\ x = v /\ L1[c][v].st = "MODIFIED" THEN L1[c][v].cur ELSE LLC[h][x].cur

LEMMA FillLineFacts ==
    ASSUME NEW c \in Core, NEW b \in Block, NEW L1 \in L1Type, NEW LLC \in LlcType,
           NEW v, v = NoBlock \/ v \in Block
    PROVE  FilledLines(c, b, v, L1, LLC, FillL1(c, b, v, L1, LLC), FillLlc(c, v, L1, LLC))
<1> DEFINE g == Master(c)
           K == IF v # NoBlock THEN [L1 EXCEPT ![c][v] = Absent] ELSE L1
           F == FillL1(c, b, v, L1, LLC)
           B == FillLlc(c, v, L1, LLC)
<1>0. g \in Llc /\ LLC[g][b] \in Line /\ Absent \in Line /\ NoBlock \notin Block
  BY MasterFacts, LineFacts, CoresAssumption DEF LlcType
<1>1. K \in L1Type /\ \A d \in Core, x \in Block : K[d][x] = IF d = c /\ x = v THEN Absent ELSE L1[d][x]
  <2>1. CASE v = NoBlock
    BY <1>0, <2>1
  <2>2. CASE v \in Block
    BY SMTT(30), <1>0, <2>2, SetFacts DEF L1Type
  <2>3. QED
    BY <2>1, <2>2
<1>2. F = [K EXCEPT ![c][b] = LLC[g][b]]
  BY DEF FillL1
<1> HIDE DEF K, F
<1>3. F \in L1Type /\ \A d \in Core, x \in Block : F[d][x] = IF d = c /\ x = b THEN LLC[g][b] ELSE K[d][x]
  BY SMTT(30), <1>0, <1>1, <1>2, SetFacts DEF L1Type
<1>4. \A d \in Core, x \in Block : F[d][x] = IF d = c /\ x = b THEN LLC[g][b]
                                           ELSE IF d = c /\ x = v THEN Absent ELSE L1[d][x]
  BY <1>1, <1>3
<1>5. /\ B \in LlcType
      /\ \A h \in Llc, x \in Block :
           /\ B[h][x].st = LLC[h][x].st
           /\ B[h][x].cur = IF h = g /\ x = v /\ L1[c][v].st = "MODIFIED" THEN L1[c][v].cur ELSE LLC[h][x].cur
  <2>1. CASE v # NoBlock /\ L1[c][v].st = "MODIFIED"
    <3>1. v \in Block /\ LLC[g][v] \in Line /\ L1[c][v] \in Line /\ L1[c][v].cur \in BOOLEAN
      BY <1>0, <2>1, LineFacts DEF LlcType, L1Type
    <3>2. PICK n \in Line : n = [LLC[g][v] EXCEPT !.cur = L1[c][v].cur] /\ n.st = LLC[g][v].st /\ n.cur = L1[c][v].cur
      <4>1. \A l \in Line, k \in BOOLEAN :
              \E n \in Line : n = [l EXCEPT !.cur = k] /\ n.st = l.st /\ n.cur = k
        <5> TAKE l \in Line, k \in BOOLEAN
        <5> DEFINE n == [l EXCEPT !.cur = k]
        <5>1. n \in Line /\ n.st = l.st /\ n.cur = k
          BY LineFacts
        <5> HIDE DEF n
        <5>2. \E m \in Line : m = n /\ m.st = l.st /\ m.cur = k
          BY <5>1
        <5>3. QED
          BY <5>2 DEF n
      <4> HIDE DEF g
      <4>2. QED
        BY <3>1, <4>1
    <3>3. B = [LLC EXCEPT ![g][v] = n]
      BY <2>1, <3>1, <3>2, <1>0 DEF FillLlc, LlcType
    <3>4. B \in LlcType /\ \A h \in Llc, x \in Block : B[h][x] = IF h = g /\ x = v THEN n ELSE LLC[h][x]
      BY SMTT(30), <1>0, <3>1, <3>3, SetFacts DEF LlcType
    <3> HIDE DEF B, g
    <3>5. QED
      BY <2>1, <3>2, <3>4
  <2>2. CASE ~(v # NoBlock /\ L1[c][v].st = "MODIFIED")
    <3>1. B = LLC
      BY <2>2 DEF FillLlc
    <3> HIDE DEF B, g
    <3>2. QED
      BY <1>0, <2>2, <3>1
  <2>3. QED
    BY <2>1, <2>2
<1>6. QED
  BY <1>3, <1>4, <1>5 DEF F, FilledLines

(* What a fill and the access that follows it do.                          *)
LEMMA FillFacts ==
    ASSUME TypeOK, NEW c \in Core, NEW op \in Op, NEW b \in Block, NEW L1 \in L1Type,
           NEW LLC \in LlcType, NEW DRAM \in [Block -> BOOLEAN], NEW checks,
           FillAndComplete(c, op, b, L1, LLC, DRAM, checks)
    PROVE  /\ lock' = [lock EXCEPT ![Master(c)] =
                          [excl |-> FALSE, readers |-> IF op = "READ_EX" THEN {c} ELSE {}]]
           /\ user' = [user EXCEPT ![c] =
                          IF op = "READ_EX" THEN [pc |-> "locked", op |-> op, block |-> b] ELSE Idle]
           /\ \E v \in L1Victims(L1, c) :
                /\ v = NoBlock \/ (v \in Block /\ Valid(L1[c][v]))
                /\ FillL1(c, b, v, L1, LLC) \in L1Type /\ FillLlc(c, v, L1, LLC) \in LlcType
                /\ Accessed(c, op, b, FillL1(c, b, v, L1, LLC), FillLlc(c, v, L1, LLC), DRAM)
                /\ Checked(checks \cup
                      {<<"gone", operationPermissibleinCache(LLC[Master(c)][b].st, op)>>,
                       <<"insert", ~Valid(L1[c][b])>>,
                       <<"writeback", v # NoBlock /\ L1[c][v].st = "MODIFIED"
                                       => LLC[Master(c)][v].st = "MODIFIED">>})
<1>1. PICK v \in L1Victims(L1, c) :
        /\ Complete(c, op, b, {}, FillL1(c, b, v, L1, LLC), FillLlc(c, v, L1, LLC), DRAM)
        /\ Checked(checks \cup
              {<<"gone", operationPermissibleinCache(LLC[Master(c)][b].st, op)>>,
               <<"insert", ~Valid(L1[c][b])>>,
               <<"writeback", v # NoBlock /\ L1[c][v].st = "MODIFIED"
                               => LLC[Master(c)][v].st = "MODIFIED">>})
  BY DEF FillAndComplete, FillL1, FillLlc
<1>2. v = NoBlock \/ (v \in Block /\ Valid(L1[c][v]))
  BY VictimFacts
<1>3. FillL1(c, b, v, L1, LLC) \in L1Type /\ FillLlc(c, v, L1, LLC) \in LlcType
  BY <1>2, FillLineFacts DEF FilledLines
<1>4. accessCache(c, op, b, FillL1(c, b, v, L1, LLC), FillLlc(c, v, L1, LLC), DRAM)
  BY <1>1 DEF Complete
<1>5. Accessed(c, op, b, FillL1(c, b, v, L1, LLC), FillLlc(c, v, L1, LLC), DRAM)
  BY <1>3, <1>4, AccessFacts
<1>6. /\ lock' = [lock EXCEPT ![Master(c)] =
                    [excl |-> FALSE, readers |-> {} \cup IF op = "READ_EX" THEN {c} ELSE {}]]
      /\ user' = [user EXCEPT ![c] =
                    IF op = "READ_EX" THEN [pc |-> "locked", op |-> op, block |-> b] ELSE Idle]
  BY <1>1 DEF Complete
<1>7. {} \cup (IF op = "READ_EX" THEN {c} ELSE {}) = IF op = "READ_EX" THEN {c} ELSE {}
  OBVIOUS
<1>8. QED
  BY <1>1, <1>2, <1>3, <1>5, <1>6, <1>7

(* An eviction from the LLC of g invalidates the copies above it.          *)
LEMMA EvictFacts ==
    ASSUME NEW L1 \in L1Type, NEW g \in Llc, NEW v, v = NoBlock \/ v \in Block
    PROVE  /\ L1AfterEvict(L1, g, v) \in L1Type
           /\ \A c \in Core, x \in Block :
                /\ x # v \/ Master(c) # g => L1AfterEvict(L1, g, v)[c][x] = L1[c][x]
                /\ x = v /\ Master(c) = g => L1AfterEvict(L1, g, v)[c][x].st = "INVALID"
<1>0. NoBlock \notin Block
  BY CoresAssumption
<1>1. CASE v = NoBlock
  BY <1>0, <1>1 DEF L1AfterEvict
<1>2. CASE v \in Block
  <2> DEFINE new == "INVALID"
             none == {}
             S == Snooped(L1, g, v, new, none)
  <2>1. L1AfterEvict(L1, g, v) = S
    BY <1>0, <1>2 DEF L1AfterEvict
  <2>2. new \in CState
    BY DEF CState
  <2> HIDE DEF new, none
  <2>3. /\ S \in L1Type
        /\ \A c \in Core, x \in Block :
             S[c][x] = IF x = v /\ c \in L1sOf(g) \ none /\ Valid(L1[c][v])
                       THEN SnoopedLine(L1[c][v], new) ELSE L1[c][x]
    <3>1. ASSUME NEW w \in Block
          PROVE  /\ Snooped(L1, g, w, new, none) \in L1Type
                 /\ \A c \in Core, x \in Block :
                      Snooped(L1, g, w, new, none)[c][x] =
                          IF x = w /\ c \in L1sOf(g) \ none /\ Valid(L1[c][w])
                          THEN SnoopedLine(L1[c][w], new) ELSE L1[c][x]
      BY <2>2, SnoopedFacts
    <3>2. QED
      BY <1>2, <3>1
  <2>4. \A c \in Core : c \in L1sOf(g) \ none <=> Master(c) = g
    BY DEF L1sOf, none
  <2>5. \A line : SnoopedLine(line, new) = Absent /\ Absent.st = "INVALID"
    BY LineFacts DEF SnoopedLine, new
  <2> HIDE DEF S
  <2>6. QED
    BY <2>1, <2>3, <2>4, <2>5 DEF Valid
<1>3. QED
  BY <1>1, <1>2

(* The LLC of g takes a line in and evicts v.                              *)
LEMMA InsertFacts ==
    ASSUME NEW LLC \in LlcType, NEW g \in Llc, NEW b \in Block, NEW line \in Line,
           NEW v, v = NoBlock \/ v \in Block
    PROVE  /\ LlcAfterInsert(LLC, g, b, line, v) \in LlcType
           /\ \A h \in Llc, x \in Block :
                LlcAfterInsert(LLC, g, b, line, v)[h][x] =
                    IF h = g /\ x = v THEN Absent ELSE IF h = g /\ x = b THEN line ELSE LLC[h][x]
<1> DEFINE B == [LLC EXCEPT ![g][b] = line]
<1>0. NoBlock \notin Block /\ Absent \in Line
  BY CoresAssumption, LineFacts
<1>1. B \in LlcType /\ \A h \in Llc, x \in Block : B[h][x] = IF h = g /\ x = b THEN line ELSE LLC[h][x]
  BY SetFacts DEF LlcType
<1>2. LlcAfterInsert(LLC, g, b, line, v) = IF v = NoBlock THEN B ELSE [B EXCEPT ![g][v] = Absent]
  BY DEF LlcAfterInsert
<1> HIDE DEF B
<1>3. CASE v = NoBlock
  BY <1>0, <1>1, <1>2, <1>3
<1>4. CASE v \in Block
  <2>1. LET V == [B EXCEPT ![g][v] = Absent]
        IN  V \in LlcType /\ \A h \in Llc, x \in Block : V[h][x] = IF h = g /\ x = v THEN Absent ELSE B[h][x]
    <3>1. B \in [Llc -> [Block -> Line]]
      BY <1>1 DEF LlcType
    <3>2. QED
      BY <1>0, <1>4, <3>1 DEF LlcType
  <2>2. QED
    BY <1>0, <1>1, <1>2, <1>4, <2>1
<1>5. QED
  BY <1>3, <1>4

LEMMA LlcVictimFacts ==
    ASSUME NEW LLC, NEW g, NEW v \in LlcVictims(LLC, g)
    PROVE  v = NoBlock \/ (v \in Block /\ Valid(LLC[g][v]))
  BY DEF LlcVictims

(* A message sent on one channel.                                          *)
LEMMA SentFacts ==
    ASSUME NEW chan \in ChannelType, NEW g \in Llc, NEW b \in Block, NEW m \in Message
    PROVE  /\ Sent(chan, g, b, m) \in ChannelType
           /\ \A h \in Llc, x \in Block :
                Sent(chan, g, b, m)[h][x] = IF h = g /\ x = b THEN Append(chan[g][b], m) ELSE chan[h][x]
<1>1. chan[g][b] \in Seq(Message)
  BY DEF ChannelType
<1>2. PICK s \in Seq(Message) : s = Append(chan[g][b], m)
  BY <1>1, AppendFacts
<1>3. Sent(chan, g, b, m) = [chan EXCEPT ![g][b] = s]
  BY <1>2 DEF Sent, ChannelType
<1>4. QED
  BY <1>2, <1>3, SetFacts DEF ChannelType

(* A message taken from one channel.                                       *)
LEMMA TakenFacts ==
    ASSUME NEW chan \in ChannelType, NEW g \in Llc, NEW b \in Block, chan[g][b] # <<>>
    PROVE  /\ [chan EXCEPT ![g][b] = Tail(@)] \in ChannelType
           /\ \A h \in Llc, x \in Block :
                [chan EXCEPT ![g][b] = Tail(@)][h][x] = IF h = g /\ x = b THEN Tail(chan[g][b]) ELSE chan[h][x]
           /\ Head(chan[g][b]) \in Message
<1>1. chan[g][b] \in Seq(Message)
  BY DEF ChannelType
<1>2. PICK s \in Seq(Message) : s = Tail(chan[g][b])
  BY <1>1, TailFacts
<1>3. [chan EXCEPT ![g][b] = Tail(@)] = [chan EXCEPT ![g][b] = s]
  BY <1>2 DEF ChannelType
<1>4. Head(chan[g][b]) \in Message
  BY <1>1, TailFacts
<1>5. QED
  BY <1>2, <1>3, <1>4, SetFacts DEF ChannelType

(* The assertions of a step: the labels that fail, and one that holds.     *)
LEMMA CheckedFails ==
    ASSUME NEW A, Checked(A), NEW l, NEW P \in BOOLEAN, <<l, P>> \in A, ~P
    PROVE  l \in failed'
<1>1. <<l, P>> \in {y \in A : ~y[2]} /\ <<l, P>>[1] = l
  OBVIOUS
<1>2. QED
  BY <1>1 DEF Checked

LEMMA CheckedHolds ==
    ASSUME NEW A, Checked(A), NEW F, \A x \in A : x[1] \in F \/ x[2]
    PROVE  failed' \subseteq F
  BY DEF Checked

Labels == {"invalidate", "writeback", "insert", "gone", "unlock", "exreq",
           "waiter", "evict", "out_buf", "upgrade", "lost"}
-----------------------------------------------------------------------------
(* The steps of the set lock, the semaphores and the queues of waiters.    *)

UserType == [pc : {"idle", "miss", "wait", "locked"}, op : Op, block : Block \cup {NoBlock}]
LockType == [excl : BOOLEAN, readers : SUBSET Core]
HandoverType ==
    /\ lock \in [Llc -> LockType]
    /\ waiters \in WaiterType
    /\ user \in [Core -> UserType]
    /\ net \in [Llc -> Block \cup {NoBlock}]
    /\ userSem \in [Core -> 0..1]
    /\ netSem \in [Core -> 0..1]

(* An access ends, and keeps the lock when it was a READ_EX.               *)
LEMMA AccessEnds ==
    ASSUME HandoverType, HandoverInv, NEW c \in Core, NEW b \in Block,
           user[c].pc \in {"idle", "miss", "locked"}, ~lock[Master(c)].excl,
           NEW keeps \in BOOLEAN,
           user' = [user EXCEPT ![c] = IF keeps THEN [pc |-> "locked", op |-> "READ_EX", block |-> b] ELSE Idle],
           NEW R \in SUBSET Core,
           R = (lock[Master(c)].readers \ {c}) \cup IF keeps THEN {c} ELSE {},
           lock' = [lock EXCEPT ![Master(c)] = [excl |-> FALSE, readers |-> R]],
           UNCHANGED <<waiters, net, userSem, netSem>>
    PROVE  HandoverType' /\ HandoverInv'
<1> DEFINE g == Master(c)
<1>0. /\ g \in Llc /\ NoBlock \notin Block
      /\ \A d \in Core : Master(d) \in Llc
      /\ \A h \in Llc, d \in Core : d \in L1sOf(h) <=> Master(d) = h
      /\ \A h \in Llc : L1sOf(h) \subseteq Core
  BY MasterFacts, CoresAssumption DEF L1sOf
<1>1. /\ user'[c] \in UserType /\ user'[c].block \in Block \cup {NoBlock}
      /\ user'[c].pc = IF keeps THEN "locked" ELSE "idle"
      /\ keeps => user'[c].block = b /\ user'[c].op = "READ_EX"
      /\ ~keeps => user'[c] = Idle
      /\ \A d \in Core : d # c => user'[d] = user[d]
      /\ user' \in [Core -> UserType]
  BY DEF HandoverType, UserType, Idle, Op
<1>2. /\ lock' \in [Llc -> LockType]
      /\ \A h \in Llc : lock'[h].excl = lock[h].excl
      /\ lock'[g].readers = R
      /\ \A h \in Llc : h # g => lock'[h] = lock[h]
  BY <1>0 DEF HandoverType, LockType
<1>3. HandoverType'
  BY <1>1, <1>2 DEF HandoverType
<1>4. \A h \in Llc, x \in Block : \A i : Served(h, x, i)' <=> Served(h, x, i)
  BY <1>2 DEF Served
<1>5. LockInv'
  <2>1. lock'[g].readers = {d \in L1sOf(g) : user'[d].pc = "locked"}
    <3>1. lock[g].readers = {d \in L1sOf(g) : user[d].pc = "locked"} /\ c \in L1sOf(g)
      BY <1>0 DEF HandoverInv, LockInv
    <3>2. \A d : d \in R <=> d \in {e \in L1sOf(g) : user'[e].pc = "locked"}
      BY <1>0, <1>1, <3>1
    <3>3. QED
      BY <1>2, <3>2
  <2>2. \A h \in Llc : h # g => lock'[h].readers = {d \in L1sOf(h) : user'[d].pc = "locked"}
    BY <1>0, <1>1, <1>2 DEF HandoverInv, LockInv
  <2>3. QED
    BY <1>0, <1>2, <2>1, <2>2 DEF HandoverInv, LockInv, Turn
<1>6. SemInv'
  BY <1>0, <1>2 DEF HandoverInv, SemInv, Turn
<1>7. WaiterInv'
  <2> SUFFICES ASSUME NEW h \in Llc, NEW x \in Block
               PROVE  WaiterInv!(h, x)'
    BY DEF WaiterInv
  <2>1. \A i \in DOMAIN waiters[h][x] : ~Served(h, x, i) => waiters[h][x][i].core # c
    BY DEF HandoverInv, WaiterInv
  <2>2. QED
    BY SMTT(30), <1>0, <1>1, <1>4, <2>1 DEF HandoverInv, WaiterInv
<1>8. UserInv'
  <2> SUFFICES ASSUME NEW d \in Core
               PROVE  UserInv!(d)'
    BY DEF UserInv
  <2>1. CASE d = c
    BY <1>0, <1>1, <2>1 DEF UserInv, Idle
  <2>2. CASE d # c
    BY <1>0, <1>1, <1>4, <2>2 DEF HandoverInv, UserInv
  <2>3. QED
    BY <2>1, <2>2
<1>9. QED
  BY <1>3, <1>5, <1>6, <1>7, <1>8 DEF HandoverInv

(* A miss starts: it has to wait for the lock.                             *)
LEMMA MissStarts ==
    ASSUME HandoverType, HandoverInv, NEW c \in Core, NEW op \in Op, NEW b \in Block,
           user[c] = Idle,
           user' = [user EXCEPT ![c] = [pc |-> "miss", op |-> op, block |-> b]],
           UNCHANGED <<lock, waiters, net, userSem, netSem>>
    PROVE  HandoverType' /\ HandoverInv'
<1>0. /\ \A d \in Core : Master(d) \in Llc
      /\ \A h \in Llc, d \in Core : d \in L1sOf(h) <=> Master(d) = h
      /\ \A h \in Llc : L1sOf(h) \subseteq Core
      /\ user[c].pc = "idle"
  BY MasterFacts DEF L1sOf, Idle
<1>1. /\ user' \in [Core -> UserType]
      /\ user'[c].pc = "miss" /\ user'[c].block = b
      /\ \A d \in Core : d # c => user'[d] = user[d]
  BY DEF HandoverType, UserType
<1>2. HandoverType'
  BY <1>1 DEF HandoverType
<1>3. \A h \in Llc, x \in Block : \A i : Served(h, x, i)' <=> Served(h, x, i)
  BY DEF Served
<1>4. LockInv'
  <2>1. \A h \in Llc : {d \in L1sOf(h) : user'[d].pc = "locked"} = {d \in L1sOf(h) : user[d].pc = "locked"}
    BY <1>0, <1>1
  <2>2. QED
    BY <2>1 DEF HandoverInv, LockInv, Turn
<1>5. SemInv'
  BY DEF HandoverInv, SemInv, Turn
<1>6. WaiterInv'
  <2> SUFFICES ASSUME NEW h \in Llc, NEW x \in Block
               PROVE  WaiterInv!(h, x)'
    BY DEF WaiterInv
  <2>1. \A i \in DOMAIN waiters[h][x] : ~Served(h, x, i) => waiters[h][x][i].core # c
    BY <1>0 DEF HandoverInv, WaiterInv
  <2>2. QED
    BY SMTT(30), <1>0, <1>1, <1>3, <2>1 DEF HandoverInv, WaiterInv
<1>7. UserInv'
  <2> SUFFICES ASSUME NEW d \in Core
               PROVE  UserInv!(d)'
    BY DEF UserInv
  <2>1. CASE d = c
    BY <1>0, <1>1, <2>1 DEF UserInv, Idle
  <2>2. CASE d # c
    BY <1>0, <1>1, <1>3, <2>2 DEF HandoverInv, UserInv
  <2>3. QED
    BY <2>1, <2>2
<1>8. QED
  BY <1>2, <1>4, <1>5, <1>6, <1>7 DEF HandoverInv

(* A miss queues up for its block and releases the lock.                   *)
LEMMA WaitStarts ==
    ASSUME HandoverInv, NEW c \in Core, NEW g \in Llc, g = Master(c), NEW b \in Block,
           \A h \in Llc : net[h] = NoBlock \/ net[h] \in Block,
           user[c].pc = "miss", user[c].block = b,
           user'[c].pc = "wait", user'[c].block = b,
           \A d \in Core : d # c => user'[d] = user[d],
           NEW n \in Nat, DOMAIN waiters[g][b] = 1..n, DOMAIN waiters'[g][b] = 1..(n + 1),
           \A i \in 1..n : waiters'[g][b][i] = waiters[g][b][i],
           waiters'[g][b][n + 1].core = c,
           waiters'[g][b][n + 1].exclusive <=> user'[c].op # "READ",
           \A h \in Llc, x \in Block : h # g \/ x # b => waiters'[h][x] = waiters[h][x],
           UNCHANGED <<lock, net, userSem, netSem>>
    PROVE  HandoverInv'
<1>0. /\ NoBlock \notin Block
      /\ \A d \in Core : Master(d) \in Llc
      /\ \A h \in Llc, d \in Core : d \in L1sOf(h) <=> Master(d) = h
      /\ \A h \in Llc : L1sOf(h) \subseteq Core
  BY MasterFacts, CoresAssumption DEF L1sOf
<1>1. \A h \in Llc, x \in Block : \A i : Served(h, x, i)' <=> Served(h, x, i)
  BY DEF Served
<1>2. \A h \in Llc : net[h] # NoBlock => 1 \in DOMAIN waiters'[h][net[h]] /\ Turn(h)' = Turn(h)
  <2> SUFFICES ASSUME NEW h \in Llc, net[h] # NoBlock
               PROVE  1 \in DOMAIN waiters'[h][net[h]] /\ waiters'[h][net[h]][1] = waiters[h][net[h]][1]
    BY DEF Turn
  <2>1. net[h] \in Block /\ 1 \in DOMAIN waiters[h][net[h]]
    BY DEF HandoverInv, LockInv
  <2>2. QED
    BY <2>1
<1>3. LockInv'
  <2>1. \A h \in Llc : {d \in L1sOf(h) : user'[d].pc = "locked"} = {d \in L1sOf(h) : user[d].pc = "locked"}
    BY <1>0
  <2>2. QED
    BY <1>2, <2>1 DEF HandoverInv, LockInv
<1>4. SemInv'
  BY <1>0, <1>2 DEF HandoverInv, SemInv
<1>5. WaiterInv'
  <2> SUFFICES ASSUME NEW h \in Llc, NEW x \in Block
               PROVE  WaiterInv!(h, x)'
    BY DEF WaiterInv
  <2>1. WaiterInv!(h, x) /\ \A i \in DOMAIN waiters[h][x] : ~Served(h, x, i) => waiters[h][x][i].core # c
    BY DEF HandoverInv, WaiterInv
  <2>2. CASE h # g \/ x # b
    BY <1>0, <1>1, <2>1, <2>2
  <2>3. CASE h = g /\ x = b
    <3>0. /\ \A i \in 1..n : WaiterInv!(g, b)!1!(i) /\ (~Served(g, b, i) => waiters[g][b][i].core # c)
          /\ \A i, j \in 1..n : WaiterInv!(g, b)!2!(i, j)
      BY SMTT(30), <2>1, <2>3
    <3>1. ASSUME NEW i \in 1..(n + 1)
          PROVE  WaiterInv!(g, b)!1!(i)'
      <4>1. CASE i \in 1..n
        <5>1. waiters'[g][b][i] = waiters[g][b][i] /\ (Served(g, b, i)' <=> Served(g, b, i))
          BY <1>1, <4>1
        <5>2. WaiterInv!(g, b)!1!(i) /\ (~Served(g, b, i) => waiters[g][b][i].core # c)
          BY <3>0, <4>1
        <5>3. QED
          BY <1>0, <5>1, <5>2
      <4>2. CASE i = n + 1
        BY <1>0, <4>2
      <4>3. QED
        BY <4>1, <4>2
    <3>2. ASSUME NEW i \in 1..(n + 1), NEW j \in 1..(n + 1), ~Served(g, b, i), ~Served(g, b, j),
                 waiters'[g][b][i].core = waiters'[g][b][j].core
          PROVE  i = j
      <4>1. CASE i \in 1..n /\ j \in 1..n
        BY SMTT(30), <3>0, <3>2, <4>1
      <4>2. CASE i = n + 1 /\ j \in 1..n
        BY SMTT(30), <3>0, <3>2, <4>2
      <4>3. CASE i \in 1..n /\ j = n + 1
        BY <3>0, <3>2, <4>3
      <4>4. CASE i = n + 1 /\ j = n + 1
        BY <4>4
      <4>5. QED
        BY <4>1, <4>2, <4>3, <4>4
    <3>3. QED
      BY SMTT(30), <1>1, <2>3, <3>1, <3>2
  <2>4. QED
    BY <2>2, <2>3
<1>6. UserInv'
  <2> SUFFICES ASSUME NEW d \in Core
               PROVE  UserInv!(d)'
    BY DEF UserInv
  <2>1. CASE d = c
    <3>1. ~Served(g, b, n + 1)
      BY <1>0 DEF Served, HandoverInv, LockInv
    <3>2. \E i \in DOMAIN waiters'[g][b] : waiters'[g][b][i].core = c /\ ~Served(g, b, i)'
      BY <1>1, <3>1
    <3>3. QED
      BY <1>0, <2>1, <3>2
  <2>2. CASE d # c
    <3>0. UserInv!(d) /\ user'[d] = user[d]
      BY <2>2 DEF HandoverInv, UserInv
    <3>1. CASE user[d].pc # "wait"
      BY <3>0, <3>1
    <3>2. CASE user[d].pc = "wait"
      <4>1. PICK x \in Block, h \in Llc : x = user[d].block /\ h = Master(d)
        BY <1>0, <3>0, <3>2
      <4>2. PICK i \in DOMAIN waiters[h][x] : waiters[h][x][i].core = d /\ ~Served(h, x, i)
        BY <3>0, <3>2, <4>1
      <4>3. i \in DOMAIN waiters'[h][x] /\ waiters'[h][x][i].core = d
        BY <4>2
      <4>4. ~Served(h, x, i)'
        BY <1>1, <4>2
      <4>5. QED
        BY <3>0, <3>2, <4>1, <4>3, <4>4
    <3>3. QED
      BY <3>1, <3>2
  <2>3. QED
    BY <2>1, <2>2
<1>7. QED
  BY <1>3, <1>4, <1>5, <1>6 DEF HandoverInv

(* A user thread that was signalled owns the set lock and is the waiter    *)
(* that is served.                                                         *)
LEMMA SignalledFacts ==
    ASSUME HandoverInv, NEW c \in Core, NEW g \in Llc, g = Master(c), userSem[c] = 1,
           \A h \in Llc : net[h] = NoBlock \/ net[h] \in Block
    PROVE  /\ user[c].pc = "wait" /\ user[c].block = net[g] /\ net[g] \in Block
           /\ 1 \in DOMAIN waiters[g][net[g]] /\ Turn(g) = c
           /\ waiters[g][net[g]][1].exclusive <=> user[c].op # "READ"
           /\ lock[g].excl /\ lock[g].readers = {} /\ netSem[c] = 0
<1>1. net[g] # NoBlock /\ net[g] \in Block /\ Turn(g) = c /\ lock[g].excl /\ netSem[c] = 0
  BY DEF HandoverInv, SemInv
<1>2. 1 \in DOMAIN waiters[g][net[g]] /\ lock[g].readers = {}
  BY <1>1 DEF HandoverInv, LockInv
<1>3. ~Served(g, net[g], 1)
  BY <1>1 DEF Served
<1>4. WaiterInv!(g, net[g])!1!(1)
  BY SMTT(30), <1>1, <1>2 DEF HandoverInv, WaiterInv
<1>5. QED
  BY <1>1, <1>2, <1>3, <1>4 DEF Turn

(* The woken user thread completes its access and signals back.            *)
LEMMA Resumed ==
    ASSUME HandoverInv, NEW c \in Core, NEW g \in Llc, g = Master(c),
           \A h \in Llc : net[h] = NoBlock \/ net[h] \in Block,
           userSem[c] = 1, NEW keeps \in BOOLEAN,
           keeps => user'[c].pc = "locked" /\ user'[c].block \in Block /\ user'[c].op = "READ_EX",
           ~keeps => user'[c].pc = "idle" /\ user'[c] = Idle,
           \A d \in Core : d # c => user'[d] = user[d] /\ userSem'[d] = userSem[d] /\ netSem'[d] = netSem[d],
           userSem'[c] = 0, netSem'[c] = 1,
           lock'[g].excl = FALSE, lock'[g].readers = IF keeps THEN {c} ELSE {},
           \A h \in Llc : h # g => lock'[h] = lock[h],
           UNCHANGED <<waiters, net>>
    PROVE  HandoverInv'
<1>0. /\ NoBlock \notin Block
      /\ \A d \in Core : Master(d) \in Llc
      /\ \A h \in Llc, d \in Core : d \in L1sOf(h) <=> Master(d) = h
      /\ \A h \in Llc : L1sOf(h) \subseteq Core
  BY MasterFacts, CoresAssumption DEF L1sOf
<1>1. PICK b \in Block :
        /\ user[c].pc = "wait" /\ user[c].block = b /\ net[g] = b
        /\ 1 \in DOMAIN waiters[g][b] /\ Turn(g) = c /\ waiters[g][b][1].core = c
        /\ lock[g].excl /\ lock[g].readers = {}
  BY SignalledFacts DEF Turn
<1>2. \A h \in Llc : Turn(h)' = Turn(h)
  BY DEF Turn
<1>3. \A h \in Llc, x \in Block : \A i : Served(h, x, i)' <=> Served(h, x, i) \/ (h = g /\ x = b /\ i = 1)
  BY <1>1 DEF Served
<1>4. LockInv'
  <2>1. lock'[g].readers = {d \in L1sOf(g) : user'[d].pc = "locked"}
    <3>1. {} = {d \in L1sOf(g) : user[d].pc = "locked"} /\ c \in L1sOf(g)
      BY <1>0, <1>1 DEF HandoverInv, LockInv
    <3>2. \A d : d \in (IF keeps THEN {c} ELSE {}) <=> d \in {e \in L1sOf(g) : user'[e].pc = "locked"}
      BY <1>0, <3>1
    <3>3. QED
      BY <3>2
  <2>2. \A h \in Llc : h # g => lock'[h].readers = {d \in L1sOf(h) : user'[d].pc = "locked"}
    BY <1>0 DEF HandoverInv, LockInv
  <2>3. \A h \in Llc : h # g /\ net[h] # NoBlock => Turn(h) # c
    <3> SUFFICES ASSUME NEW h \in Llc, h # g, net[h] # NoBlock
                 PROVE  Turn(h) # c
      OBVIOUS
    <3>1. net[h] \in Block /\ 1 \in DOMAIN waiters[h][net[h]]
      BY DEF HandoverInv, LockInv
    <3>2. waiters[h][net[h]][1].core \in L1sOf(h)
      BY <3>1 DEF HandoverInv, WaiterInv
    <3>3. QED
      BY <1>0, <3>2 DEF Turn
  <2>4. \A h \in Llc : net[h] # NoBlock => Turn(h) \in Core
    <3> SUFFICES ASSUME NEW h \in Llc, net[h] # NoBlock
                 PROVE  Turn(h) \in Core
      OBVIOUS
    <3>1. net[h] \in Block /\ 1 \in DOMAIN waiters[h][net[h]]
      BY DEF HandoverInv, LockInv
    <3>2. waiters[h][net[h]][1].core \in L1sOf(h)
      BY <3>1 DEF HandoverInv, WaiterInv
    <3>3. QED
      BY <1>0, <3>2 DEF Turn
  <2>5. ASSUME NEW h \in Llc
        PROVE  LockInv!(h)'
    <3>1. CASE h = g
      BY <1>1, <1>2, <2>1, <3>1
    <3>2. CASE h # g
      <4>1. LockInv!(h)
        BY DEF HandoverInv, LockInv
      <4>2. QED
        BY <1>2, <2>2, <2>3, <2>4, <3>2, <4>1
    <3>3. QED
      BY <3>1, <3>2
  <2>6. QED
    BY <2>5 DEF LockInv
<1>5. SemInv'
  <2> SUFFICES ASSUME NEW d \in Core
               PROVE  SemInv!(d)'
    BY DEF SemInv
  <2>0. SemInv!(d)
    BY DEF HandoverInv, SemInv
  <2>1. CASE d = c
    BY <1>0, <1>1, <1>2, <2>1
  <2>2. CASE d # c
    BY <1>0, <1>1, <1>2, <2>0, <2>2
  <2>3. QED
    BY <2>1, <2>2
<1>6. WaiterInv'
  <2> SUFFICES ASSUME NEW h \in Llc, NEW x \in Block
               PROVE  WaiterInv!(h, x)'
    BY DEF WaiterInv
  <2>1. WaiterInv!(h, x)
    BY DEF HandoverInv, WaiterInv
  <2>2. ASSUME NEW i \in DOMAIN waiters[h][x], ~Served(h, x, i)'
        PROVE  ~Served(h, x, i) /\ waiters[h][x][i].core # c
    <3>1. ~Served(h, x, i) /\ ~(h = g /\ x = b /\ i = 1)
      BY <1>3, <2>2
    <3>2. CASE h = g /\ x = b
      <4>1. ~Served(g, b, 1)
        BY <1>1 DEF Served
      <4>2. QED
        BY <1>1, <2>1, <3>1, <3>2, <4>1
    <3>3. CASE ~(h = g /\ x = b)
      BY <1>0, <1>1, <2>1, <3>1, <3>3
    <3>4. QED
      BY <3>1, <3>2, <3>3
  <2>3. QED
    BY <1>0, <2>1, <2>2
<1>7. UserInv'
  <2> SUFFICES ASSUME NEW d \in Core
               PROVE  UserInv!(d)'
    BY DEF UserInv
  <2>1. CASE d = c
    BY <2>1 DEF Idle
  <2>2. CASE d # c
    <3>0. UserInv!(d) /\ user'[d] = user[d]
      BY <2>2 DEF HandoverInv, UserInv
    <3>1. CASE user[d].pc # "wait"
      BY <3>0, <3>1
    <3>2. CASE user[d].pc = "wait"
      <4>1. PICK x \in Block, h \in Llc : x = user[d].block /\ h = Master(d)
        BY <1>0, <3>0, <3>2
      <4>2. PICK i \in DOMAIN waiters[h][x] : waiters[h][x][i].core = d /\ ~Served(h, x, i)
        BY <3>0, <3>2, <4>1
      <4>3. ~Served(h, x, i)'
        BY <1>1, <1>3, <2>2, <4>2
      <4>4. QED
        BY <3>0, <3>2, <4>1, <4>2, <4>3
    <3>3. QED
      BY <3>1, <3>2
  <2>3. QED
    BY <2>1, <2>2
<1>8. QED
  BY <1>4, <1>5, <1>6, <1>7 DEF HandoverInv

(* The waiter that is served is a core of the LLC.                         *)
LEMMA TurnFacts ==
    ASSUME HandoverInv, NEW g \in Llc, net[g] \in Block
    PROVE  Turn(g) \in L1sOf(g) /\ Turn(g) \in Core /\ Master(Turn(g)) = g
<1>1. net[g] # NoBlock
  BY CoresAssumption
<1>2. 1 \in DOMAIN waiters[g][net[g]]
  BY <1>1 DEF HandoverInv, LockInv
<1>3. waiters[g][net[g]][1].core \in L1sOf(g)
  BY <1>2 DEF HandoverInv, WaiterInv
<1>4. QED
  BY <1>3, MasterFacts DEF Turn

(* The network thread starts to serve the waiters of b, or drops the one   *)
(* it has served (o = 1), and either wakes the next one or stops.          *)
LEMMA WaitersServed ==
    ASSUME HandoverInv, NEW g \in Llc, NEW b \in Block,
           \A h \in Llc : net[h] = NoBlock \/ net[h] \in Block,
           ~lock[g].excl, lock[g].readers = {},
           NEW o \in {0, 1}, o = 0 => net[g] = NoBlock, o = 1 => net[g] = b,
           NEW n \in Nat, o <= n, DOMAIN waiters[g][b] = 1..n, DOMAIN waiters'[g][b] = 1..(n - o),
           \A i \in 1..(n - o) : waiters'[g][b][i] = waiters[g][b][i + o],
           \A h \in Llc, x \in Block : h # g \/ x # b => waiters'[h][x] = waiters[h][x],
           NEW wake \in BOOLEAN, wake => n - o >= 1,
           wake => net'[g] = b /\ lock'[g].excl, ~wake => net'[g] = NoBlock /\ ~lock'[g].excl,
           lock'[g].readers = {},
           \A h \in Llc : h # g => net'[h] = net[h] /\ lock'[h] = lock[h],
           \A d \in Core : userSem'[d] = IF wake /\ d = waiters'[g][b][1].core THEN 1 ELSE userSem[d],
           \A d \in Core : netSem'[d] = IF o = 1 /\ d = Turn(g) THEN 0 ELSE netSem[d],
           UNCHANGED user
    PROVE  HandoverInv'
<1>0. /\ NoBlock \notin Block
      /\ \A d \in Core : Master(d) \in Llc
      /\ \A h \in Llc, d \in Core : d \in L1sOf(h) <=> Master(d) = h
      /\ \A h \in Llc : L1sOf(h) \subseteq Core
  BY MasterFacts, CoresAssumption DEF L1sOf
<1>1. \A h \in Llc : h # g /\ net[h] # NoBlock =>
        /\ Turn(h)' = Turn(h) /\ Turn(h) \in Core /\ Master(Turn(h)) = h /\ 1 \in DOMAIN waiters[h][net[h]]
  BY TurnFacts DEF Turn, HandoverInv, LockInv
<1>2. \A h \in Llc, x \in Block : h # g => \A i : Served(h, x, i)' <=> Served(h, x, i)
  BY DEF Served
<1>3. \A x \in Block : \A i : /\ ~Served(g, x, i)'
                             /\ Served(g, x, i) <=> i = 1 /\ o = 1 /\ x = b
  BY <1>0 DEF Served
<1>a. ASSUME NEW i \in 1..(n - o)
      PROVE  i + o \in 1..n /\ i + o \in Nat /\ ~(i + o = 1 /\ o = 1)
  <2>1. CASE o = 0
    BY <2>1
  <2>2. CASE o = 1
    BY <2>2
  <2>3. QED
    BY <2>1, <2>2
<1>4. wake => /\ 1 \in DOMAIN waiters'[g][b] /\ Turn(g)' = waiters'[g][b][1].core
              /\ Turn(g)' \in Core /\ Master(Turn(g)') = g
  <2>1. ASSUME wake
        PROVE  1 \in DOMAIN waiters'[g][b] /\ Turn(g)' = waiters'[g][b][1].core
               /\ waiters'[g][b][1] = waiters[g][b][1 + o] /\ 1 + o \in DOMAIN waiters[g][b]
    BY <2>1 DEF Turn
  <2>2. ASSUME wake
        PROVE  waiters[g][b][1 + o].core \in L1sOf(g)
    BY <2>1, <2>2 DEF HandoverInv, WaiterInv
  <2>3. QED
    BY <1>0, <2>1, <2>2
<1>5. \A d \in Core : Master(d) = g => netSem'[d] = 0 /\ userSem[d] = 0
  BY <1>0 DEF HandoverInv, SemInv
<1>6. LockInv'
  <2> SUFFICES ASSUME NEW h \in Llc
               PROVE  LockInv!(h)'
    BY DEF LockInv
  <2>0. LockInv!(h)
    BY DEF HandoverInv, LockInv
  <2>1. CASE h = g
    BY <1>0, <1>4, <2>0, <2>1
  <2>2. CASE h # g
    <3>1. net[h] # NoBlock => userSem'[Turn(h)] = userSem[Turn(h)] /\ netSem'[Turn(h)] = netSem[Turn(h)]
      BY <1>0, <1>1, <1>4, <2>2, TurnFacts
    <3>2. net[h] # NoBlock => net[h] \in Block /\ waiters'[h][net[h]] = waiters[h][net[h]]
      BY <2>2
    <3>3. QED
      BY <1>1, <2>0, <2>2, <3>1, <3>2
  <2>3. QED
    BY <2>1, <2>2
<1>7. SemInv'
  <2> SUFFICES ASSUME NEW d \in Core
               PROVE  SemInv!(d)'
    BY DEF SemInv
  <2>0. SemInv!(d)
    BY DEF HandoverInv, SemInv
  <2>1. CASE Master(d) = g
    <3>1. CASE wake
      BY <1>0, <1>4, <1>5, <2>1, <3>1
    <3>2. CASE ~wake
      BY <1>0, <1>5, <2>1, <3>2
    <3>3. QED
      BY <3>1, <3>2
  <2>2. CASE Master(d) # g
    <3>1. userSem'[d] = userSem[d] /\ netSem'[d] = netSem[d]
      BY <1>0, <1>4, <2>2, TurnFacts
    <3>2. QED
      BY <1>0, <1>1, <2>0, <2>2, <3>1
  <2>3. QED
    BY <2>1, <2>2
<1>8. WaiterInv'
  <2> SUFFICES ASSUME NEW h \in Llc, NEW x \in Block
               PROVE  WaiterInv!(h, x)'
    BY DEF WaiterInv
  <2>1. WaiterInv!(h, x)
    BY DEF HandoverInv, WaiterInv
  <2>2. CASE h # g
    BY <1>2, <2>1, <2>2
  <2>3. CASE h = g /\ x # b
    BY <1>3, <2>1, <2>3
  <2>4. CASE h = g /\ x = b
    <3>1. ASSUME NEW i \in 1..(n - o)
          PROVE  /\ waiters'[g][b][i] = waiters[g][b][i + o]
                 /\ i + o \in DOMAIN waiters[g][b] /\ ~Served(g, b, i + o)
      <4>1. i + o \in 1..n /\ ~(i + o = 1 /\ o = 1)
        BY <1>a
      <4>2. ~Served(g, b, i + o)
        BY <1>0, <4>1 DEF Served
      <4>3. QED
        BY <4>1, <4>2
    <3>2. ASSUME NEW i \in 1..(n - o)
          PROVE  WaiterInv!(g, b)!1!(i)'
      <4>1. PICK w : w = waiters[g][b][i + o]
        OBVIOUS
      <4>2. /\ w.core \in L1sOf(g) /\ user[w.core].pc = "wait" /\ user[w.core].block = b
            /\ w.exclusive <=> user[w.core].op # "READ"
        BY <2>1, <2>4, <3>1, <4>1
      <4>3. waiters'[g][b][i] = w /\ user' = user
        BY <3>1, <4>1
      <4>4. QED
        BY <4>2, <4>3
    <3>3. ASSUME NEW i \in 1..(n - o), NEW j \in 1..(n - o), waiters'[g][b][i].core = waiters'[g][b][j].core
          PROVE  i = j
      <4>0. \A k, m \in DOMAIN waiters[g][b] : WaiterInv!(g, b)!2!(k, m)
        BY <2>1, <2>4
      <4>1. i + o = j + o
        BY <3>1, <3>3, <4>0
      <4>2. QED
        BY <4>1
    <3>4. QED
      BY <2>4, <3>2, <3>3
  <2>5. QED
    BY <2>2, <2>3, <2>4
<1>9. UserInv'
  <2> SUFFICES ASSUME NEW d \in Core
               PROVE  UserInv!(d)'
    BY DEF UserInv
  <2>0. UserInv!(d)
    BY DEF HandoverInv, UserInv
  <2>1. CASE user[d].pc # "wait"
    BY <2>0, <2>1
  <2>2. CASE user[d].pc = "wait"
    <3>1. PICK x \in Block, h \in Llc : x = user[d].block /\ h = Master(d)
      BY <1>0, <2>0, <2>2
    <3>2. PICK i \in DOMAIN waiters[h][x] : waiters[h][x][i].core = d /\ ~Served(h, x, i)
      BY <2>0, <2>2, <3>1
    <3>3. \E j \in DOMAIN waiters'[h][x] : waiters'[h][x][j].core = d /\ ~Served(h, x, j)'
      <4>1. CASE h # g \/ x # b
        <5>1. waiters'[h][x] = waiters[h][x] /\ ~Served(h, x, i)'
          BY <1>0, <3>2, <4>1 DEF Served
        <5>2. QED
          BY <3>2, <5>1
      <4>2. CASE h = g /\ x = b
        <5>0. i \in 1..n /\ ~(i = 1 /\ o = 1)
          BY <1>3, <3>2, <4>2
        <5>1. PICK j \in 1..(n - o) : j + o = i
          <6>1. i - o \in 1..(n - o) /\ (i - o) + o = i
            BY <5>0
          <6>2. QED
            BY <6>1
        <5>2. waiters'[g][b][j] = waiters[g][b][i] /\ ~Served(g, b, j)'
          BY <1>0, <5>1 DEF Served
        <5>3. QED
          BY <3>2, <4>2, <5>1, <5>2
      <4>3. QED
        BY <4>1, <4>2
    <3>4. QED
      BY <2>0, <2>2, <3>1, <3>3
  <2>3. QED
    BY <2>1, <2>2
<1>10. QED
  BY <1>6, <1>7, <1>8, <1>9 DEF HandoverInv
-----------------------------------------------------------------------------
(* Every action keeps the types and the hand-over invariant.               *)

DirType == [Block -> [sharers : SUBSET Llc, owned : BOOLEAN, sent : BOOLEAN,
                      queue : Seq([type : REQ, from : Llc])]]

CacheType ==
    /\ l1 \in L1Type /\ llc \in LlcType /\ dram \in [Block -> BOOLEAN]
    /\ up \in ChannelType /\ down \in ChannelType

LEMMA TypeParts ==
    TypeOK <=> CacheType /\ HandoverType /\ dir \in DirType /\ dramDirect \in BOOLEAN /\ failed \subseteq Labels
  BY DEF TypeOK, CacheType, HandoverType, DirType, L1Type, LlcType, ChannelType, WaiterType, Waiter,
         UserType, LockType, Labels, REQ

LEMMA TypePartsNext ==
    TypeOK' <=> /\ CacheType' /\ HandoverType' /\ dir' \in DirType
                /\ dramDirect' \in BOOLEAN /\ failed' \subseteq Labels
  BY DEF TypeOK, CacheType, HandoverType, DirType, L1Type, LlcType, ChannelType, WaiterType, Waiter,
         UserType, LockType, Labels, REQ

LEMMA NetTypes ==
    ASSUME HandoverType
    PROVE  /\ \A g \in Llc : net[g] = NoBlock \/ net[g] \in Block
           /\ \A c \in Core : userSem[c] \in 0..1 /\ netSem[c] \in 0..1
  BY DEF HandoverType

LEMMA HitKeeps ==
    ASSUME TypeOK, HandoverInv, NEW c \in Core, NEW op \in Op, NEW b \in Block, Hit(c, op, b)
    PROVE  TypeOK' /\ HandoverInv'
<1>0. CacheType /\ HandoverType /\ dir \in DirType /\ dramDirect \in BOOLEAN /\ failed \subseteq Labels
  BY TypeParts
<1>1. Accessed(c, op, b, l1, llc, dram)
  BY <1>0, AccessFacts DEF Hit, Complete, CacheType
<1>2. CacheType'
  BY <1>1 DEF Accessed, CacheType
<1>3. PICK keeps \in BOOLEAN : keeps <=> op = "READ_EX"
  OBVIOUS
<1>4. PICK R : R = lock[Master(c)].readers \cup IF op = "READ_EX" THEN {c} ELSE {}
  OBVIOUS
<1>5. /\ user[c].pc = "idle" /\ ~lock[Master(c)].excl
      /\ user' = [user EXCEPT ![c] = IF keeps THEN [pc |-> "locked", op |-> "READ_EX", block |-> b] ELSE Idle]
      /\ lock' = [lock EXCEPT ![Master(c)] = [excl |-> FALSE, readers |-> R]]
      /\ UNCHANGED <<waiters, net, userSem, netSem>>
  <2>1. user[c].pc = "idle" /\ ~lock[Master(c)].excl /\ UNCHANGED <<waiters, net, userSem, netSem>>
    BY DEF Hit, Idle
  <2>2. lock' = [lock EXCEPT ![Master(c)] =
                   [excl |-> FALSE, readers |-> lock[Master(c)].readers \cup IF op = "READ_EX" THEN {c} ELSE {}]]
    BY DEF Hit, Complete
  <2>3. user' = [user EXCEPT ![c] = IF op = "READ_EX" THEN [pc |-> "locked", op |-> op, block |-> b] ELSE Idle]
    BY DEF Hit, Complete
  <2>4. lock' = [lock EXCEPT ![Master(c)] = [excl |-> FALSE, readers |-> R]]
    BY <1>4, <2>2
  <2>5. user' = [user EXCEPT ![c] = IF keeps THEN [pc |-> "locked", op |-> "READ_EX", block |-> b] ELSE Idle]
    BY <1>3, <2>3
  <2>6. QED
    BY <2>1, <2>4, <2>5
<1>6. /\ R = (lock[Master(c)].readers \ {c}) \cup IF keeps THEN {c} ELSE {}
      /\ R \in SUBSET Core
  <2>1. /\ lock[Master(c)].readers = {d \in L1sOf(Master(c)) : user[d].pc = "locked"}
        /\ lock[Master(c)].readers \in SUBSET Core
    BY <1>0, MasterFacts DEF HandoverInv, LockInv, HandoverType, LockType
  <2>2. c \notin lock[Master(c)].readers
    BY <1>5, <2>1
  <2>3. QED
    BY <1>3, <1>4, <2>1, <2>2
<1>7. HandoverType' /\ HandoverInv'
  BY <1>0, <1>5, <1>6, AccessEnds
<1>8. dir' = dir /\ dramDirect' = dramDirect /\ failed' = failed
  BY DEF Hit
<1>9. QED
  BY <1>0, <1>2, <1>7, <1>8, TypePartsNext

LEMMA MissKeeps ==
    ASSUME TypeOK, HandoverInv, NEW c \in Core, NEW op \in Op, NEW b \in Block, Miss(c, op, b)
    PROVE  TypeOK' /\ HandoverInv'
<1>0. CacheType /\ HandoverType /\ dir \in DirType /\ dramDirect \in BOOLEAN /\ failed \subseteq Labels
  BY TypeParts
<1>1. /\ user[c] = Idle /\ user' = [user EXCEPT ![c] = [pc |-> "miss", op |-> op, block |-> b]]
      /\ UNCHANGED <<l1, llc, dram, lock, waiters, net, userSem, netSem, up, down, dir, failed, dramDirect>>
  BY DEF Miss
<1>2. HandoverType' /\ HandoverInv'
  BY <1>0, <1>1, MissStarts
<1>3. CacheType'
  BY <1>0, <1>1 DEF CacheType
<1>4. QED
  BY <1>0, <1>1, <1>2, <1>3, TypePartsNext

LEMMA UnlockKeeps ==
    ASSUME TypeOK, HandoverInv, NEW c \in Core, Unlock(c)
    PROVE  TypeOK' /\ HandoverInv'
<1>0. CacheType /\ HandoverType /\ dir \in DirType /\ dramDirect \in BOOLEAN /\ failed \subseteq Labels
  BY TypeParts
<1>1. PICK b \in Block : b = user[c].block
  BY DEF Unlock, HandoverInv, UserInv
<1>2. PICK op \in Op : op = "WRITE"
  BY DEF Op
<1>3. Accessed(c, op, b, l1, llc, dram)
  BY <1>0, <1>1, <1>2, AccessFacts DEF Unlock, Complete, CacheType
<1>4. CacheType'
  BY <1>3 DEF Accessed, CacheType
<1>5. PICK R : R = lock[Master(c)].readers \ {c}
  OBVIOUS
<1>6. PICK keeps \in BOOLEAN : keeps = FALSE
  OBVIOUS
<1>7. /\ user[c].pc = "locked"
      /\ user' = [user EXCEPT ![c] = IF keeps THEN [pc |-> "locked", op |-> "READ_EX", block |-> b] ELSE Idle]
      /\ lock' = [lock EXCEPT ![Master(c)] = [excl |-> FALSE, readers |-> R]]
      /\ UNCHANGED <<waiters, net, userSem, netSem>>
  <2>1. (lock[Master(c)].readers \ {c}) \cup (IF "WRITE" = "READ_EX" THEN {c} ELSE {}) = R
    BY <1>5
  <2>2. QED
    BY <1>1, <1>6, <2>1 DEF Unlock, Complete
<1>8. ~lock[Master(c)].excl /\ R \in SUBSET Core
  <2>1. /\ lock[Master(c)].readers = {d \in L1sOf(Master(c)) : user[d].pc = "locked"}
        /\ lock[Master(c)].readers \in SUBSET Core
        /\ lock[Master(c)].excl => lock[Master(c)].readers = {}
    BY <1>0, MasterFacts DEF HandoverInv, LockInv, HandoverType, LockType
  <2>2. c \in lock[Master(c)].readers
    BY <1>7, <2>1, MasterFacts
  <2>3. QED
    BY <1>5, <2>1, <2>2
<1>9. HandoverType' /\ HandoverInv'
  <2>1. R = (lock[Master(c)].readers \ {c}) \cup IF keeps THEN {c} ELSE {}
    BY <1>5, <1>6
  <2>2. QED
    BY <1>0, <1>7, <1>8, <2>1, AccessEnds
<1>10. dir' = dir /\ dramDirect' = dramDirect /\ failed' \subseteq Labels
  BY DEF Unlock, Checked, Labels
<1>11. QED
  BY <1>0, <1>4, <1>9, <1>10, TypePartsNext

LEMMA OwnInvalidatedFacts ==
    ASSUME CacheType, NEW c \in Core, NEW b \in Block, user[c].block = b
    PROVE  /\ OwnInvalidated(c) \in L1Type
           /\ OwnInvalidated(c)[c][b] = Absent
           /\ \A d \in Core, x \in Block : d # c \/ x # b => OwnInvalidated(c)[d][x] = l1[d][x]
<1>1. OwnInvalidated(c) = Put(l1, c, b, Absent)
  BY DEF OwnInvalidated, Put
<1>2. Absent \in Line /\ l1 \in L1Type
  BY LineFacts DEF CacheType
<1>3. QED
  BY <1>1, <1>2, PutL1

LEMMA AccessedCarries ==
    ASSUME NEW c, NEW op, NEW b, NEW L1, NEW LLC, NEW DRAM, Accessed(c, op, b, L1, LLC, DRAM), ChannelInv
    PROVE  ChannelInv'
<1>1. \A h \in Llc, x \in Block : SameTypes(up'[h][x], up[h][x]) /\ SameTypes(down'[h][x], down[h][x])
  BY DEF Accessed
<1>2. QED
  BY <1>1 DEF ChannelInv, SameTypes

(* Completed accesses leave the types of the messages.                     *)
LEMMA FillCarries ==
    ASSUME TypeOK, ChannelInv, NEW c \in Core, NEW op \in Op, NEW b \in Block, NEW L1 \in L1Type,
           NEW LLC \in LlcType, NEW DRAM \in [Block -> BOOLEAN], NEW checks,
           FillAndComplete(c, op, b, L1, LLC, DRAM, checks)
    PROVE  ChannelInv'
<1>1. \E v : Accessed(c, op, b, FillL1(c, b, v, L1, LLC), FillLlc(c, v, L1, LLC), DRAM)
  BY FillFacts
<1>2. QED
  BY <1>1, AccessedCarries

(* The end of a miss, for the lock and the threads.                        *)
LEMMA FillKeeps ==
    ASSUME TypeOK, HandoverInv, NEW c \in Core, NEW op \in Op, NEW b \in Block,
           user[c].pc = "miss", lock[Master(c)] = Free,
           NEW L1 \in L1Type, NEW LLC \in LlcType, NEW DRAM \in [Block -> BOOLEAN], NEW checks,
           FillAndComplete(c, op, b, L1, LLC, DRAM, checks),
           UNCHANGED <<waiters, net, userSem, netSem>>
    PROVE  HandoverType' /\ HandoverInv' /\ CacheType'
<1>0. CacheType /\ HandoverType
  BY TypeParts
<1>1. PICK keeps \in BOOLEAN : keeps <=> op = "READ_EX"
  OBVIOUS
<1>2. PICK R : R = IF op = "READ_EX" THEN {c} ELSE {}
  OBVIOUS
<1>3. /\ lock' = [lock EXCEPT ![Master(c)] =
                    [excl |-> FALSE, readers |-> IF op = "READ_EX" THEN {c} ELSE {}]]
      /\ user' = [user EXCEPT ![c] =
                    IF op = "READ_EX" THEN [pc |-> "locked", op |-> op, block |-> b] ELSE Idle]
      /\ \E v : Accessed(c, op, b, FillL1(c, b, v, L1, LLC), FillLlc(c, v, L1, LLC), DRAM)
  BY FillFacts
<1>4. CacheType'
  BY <1>3 DEF Accessed, CacheType
<1>5. lock' = [lock EXCEPT ![Master(c)] = [excl |-> FALSE, readers |-> R]]
  BY <1>2, <1>3
<1>6. user' = [user EXCEPT ![c] = IF keeps THEN [pc |-> "locked", op |-> "READ_EX", block |-> b] ELSE Idle]
  BY <1>1, <1>3
<1>7. /\ R = (lock[Master(c)].readers \ {c}) \cup IF keeps THEN {c} ELSE {}
      /\ R \in SUBSET Core /\ ~lock[Master(c)].excl
  <2>1. lock[Master(c)].readers = {} /\ ~lock[Master(c)].excl
    BY DEF Free
  <2>2. QED
    BY <1>1, <1>2, <2>1
<1>8. HandoverType' /\ HandoverInv'
  BY <1>0, <1>5, <1>6, <1>7, AccessEnds
<1>9. QED
  BY <1>4, <1>8

(* A user thread with a pending request asks for a block.                  *)
LEMMA RequestTypes ==
    ASSUME HandoverType, HandoverInv, NEW c \in Core, user[c].pc # "idle"
    PROVE  user[c].block \in Block /\ user[c].op \in Op
<1>1. user[c].block \in Block
  BY DEF HandoverInv, UserInv
<1>2. user[c] \in UserType
  BY DEF HandoverType
<1>3. QED
  BY <1>1, <1>2 DEF UserType

LEMMA MissHitsLlcKeeps ==
    ASSUME TypeOK, HandoverInv, NEW c \in Core, MissHitsLlc(c)
    PROVE  TypeOK' /\ HandoverInv'
<1>0. CacheType /\ HandoverType /\ dir \in DirType /\ dramDirect \in BOOLEAN /\ failed \subseteq Labels
  BY TypeParts
<1>1. PICK b \in Block, op \in Op : b = user[c].block /\ op = user[c].op
  <2>1. user[c].pc = "miss"
    BY DEF MissHitsLlc, HasStackLock
  <2>2. QED
    BY <1>0, <2>1, RequestTypes
<1>2. PICK L1 \in L1Type : L1 = OwnInvalidated(c)
  BY <1>0, <1>1, OwnInvalidatedFacts
<1>3. PICK M \in L1Type, LLC \in LlcType :
        M = L1AfterRequest(c, op, b, L1) /\ LLC = LlcAfterRequest(c, op, b, L1)
  BY L1AfterRequestFacts, LlcAfterRequestFacts
<1>4. /\ user[c].pc = "miss" /\ lock[Master(c)] = Free
      /\ FillAndComplete(c, op, b, M, LLC, dram, MissChecks(c))
      /\ UNCHANGED <<waiters, net, userSem, netSem, dir, dramDirect>>
  BY <1>1, <1>2, <1>3 DEF MissHitsLlc, HasStackLock
<1>5. HandoverType' /\ HandoverInv' /\ CacheType'
  BY <1>0, <1>4, FillKeeps DEF CacheType
<1>6. failed' \subseteq Labels
  BY <1>4 DEF FillAndComplete, Checked, MissChecks, RequestChecks, Labels
<1>7. QED
  BY <1>0, <1>4, <1>5, <1>6, TypePartsNext

LEMMA MissGoesToDramKeeps ==
    ASSUME TypeOK, HandoverInv, NEW c \in Core, MissGoesToDram(c)
    PROVE  /\ TypeOK' /\ HandoverInv'
           /\ ChannelInv => ChannelInv'
<1>0. CacheType /\ HandoverType /\ dir \in DirType /\ dramDirect \in BOOLEAN /\ failed \subseteq Labels
  BY TypeParts
<1>1. PICK b \in Block, op \in Op : b = user[c].block /\ op = user[c].op
  <2>1. user[c].pc = "miss"
    BY DEF MissGoesToDram, HasStackLock
  <2>2. QED
    BY <1>0, <2>1, RequestTypes
<1>2. PICK L1 \in L1Type : L1 = OwnInvalidated(c)
  BY <1>0, <1>1, OwnInvalidatedFacts
<1>3. PICK g \in Llc : g = Master(c)
  BY MasterFacts
<1>4. PICK line \in Line : line = [st |-> IF op = "READ" THEN "SHARED" ELSE "MODIFIED", cur |-> dram[b]]
  <2>1. PICK s \in CState, k \in BOOLEAN : s = (IF op = "READ" THEN "SHARED" ELSE "MODIFIED") /\ k = dram[b]
    BY <1>0 DEF CacheType, CState
  <2>2. PICK l \in Line : l = [st |-> s, cur |-> k]
    BY LineMade
  <2>3. QED
    BY <2>1, <2>2
<1>5. PICK v \in LlcVictims(llc, g) :
        FillAndComplete(c, op, b, L1AfterEvict(L1, g, v), LlcAfterInsert(llc, g, b, line, v),
            IF v # NoBlock /\ llc[g][v].st = "MODIFIED"
            THEN [dram EXCEPT ![v] = WrittenBack(L1, llc, g, v, {}).cur] ELSE dram,
            MissChecks(c))
  BY <1>1, <1>2, <1>3, <1>4 DEF MissGoesToDram
<1>6. v = NoBlock \/ v \in Block
  BY LlcVictimFacts
<1>7. PICK M \in L1Type, LLC \in LlcType :
        M = L1AfterEvict(L1, g, v) /\ LLC = LlcAfterInsert(llc, g, b, line, v)
  BY <1>0, <1>6, EvictFacts, InsertFacts DEF CacheType
<1>8. PICK DRAM \in [Block -> BOOLEAN] :
        DRAM = IF v # NoBlock /\ llc[g][v].st = "MODIFIED"
               THEN [dram EXCEPT ![v] = WrittenBack(L1, llc, g, v, {}).cur] ELSE dram
  <2>1. v \in Block => WrittenBack(L1, llc, g, v, {}).cur \in BOOLEAN
    BY <1>0, WrittenBackFacts, LineFacts DEF CacheType
  <2>2. QED
    BY <1>0, <1>6, <2>1 DEF CacheType
<1>9. /\ user[c].pc = "miss" /\ lock[Master(c)] = Free
      /\ FillAndComplete(c, op, b, M, LLC, DRAM, MissChecks(c))
      /\ UNCHANGED <<waiters, net, userSem, netSem, dir, dramDirect>>
  BY <1>5, <1>7, <1>8 DEF MissGoesToDram, HasStackLock
<1>10. HandoverType' /\ HandoverInv' /\ CacheType'
  BY <1>0, <1>9, FillKeeps
<1>11. failed' \subseteq Labels
  BY <1>9 DEF FillAndComplete, Checked, MissChecks, RequestChecks, Labels
<1>12. ChannelInv => ChannelInv'
  BY <1>9, FillCarries
<1>13. QED
  BY <1>0, <1>9, <1>10, <1>11, <1>12, TypePartsNext

LEMMA MissWaitsKeeps ==
    ASSUME TypeOK, HandoverInv, NEW c \in Core, MissWaits(c)
    PROVE  TypeOK' /\ HandoverInv'
<1>0. CacheType /\ HandoverType /\ dir \in DirType /\ dramDirect \in BOOLEAN /\ failed \subseteq Labels
  BY TypeParts
<1>1. PICK b \in Block, op \in Op : b = user[c].block /\ op = user[c].op
  <2>1. user[c].pc = "miss"
    BY DEF MissWaits, HasStackLock
  <2>2. QED
    BY <1>0, <2>1, RequestTypes
<1>2. PICK L1 \in L1Type : L1 = OwnInvalidated(c)
  BY <1>0, <1>1, OwnInvalidatedFacts
<1>3. PICK g \in Llc : g = Master(c)
  BY MasterFacts
<1>4. PICK M \in L1Type, LLC \in LlcType :
        M = L1AfterRequest(c, op, b, L1) /\ LLC = LlcAfterRequest(c, op, b, L1)
  BY L1AfterRequestFacts, LlcAfterRequestFacts
<1> DEFINE first == waiters[g][b] = <<>>
           upgrade == first /\ op # "READ" /\ llc[g][b].st = "SHARED"
           request == CASE op = "READ" -> "SH_REQ"
                        [] upgrade -> "UPGRADE_REQ"
                        [] OTHER -> "EX_REQ"
           w == [core |-> c, exclusive |-> op # "READ"]
           t == Append(waiters[g][b], w)
<1>5. /\ user[c].pc = "miss"
      /\ l1' = M
      /\ llc' = IF upgrade THEN [LLC EXCEPT ![g][b].st = "SHARED_UPGRADING"] ELSE LLC
      /\ waiters' = Put(waiters, g, b, t)
      /\ up' = IF first THEN Sent(up, g, b, Msg(request, FALSE)) ELSE up
      /\ user' = [user EXCEPT ![c].pc = "wait"]
      /\ UNCHANGED <<dram, lock, net, userSem, netSem, down, dir, dramDirect>>
  BY <1>1, <1>2, <1>3, <1>4 DEF MissWaits, HasStackLock, Put
<1>6. Msg(request, FALSE) \in Message
  BY DEF Msg, Message
<1>7. up' \in ChannelType
  <2>1. Sent(up, g, b, Msg(request, FALSE)) \in ChannelType
    BY <1>0, <1>6, SentFacts DEF CacheType
  <2>2. QED
    BY <1>0, <1>5, <2>1 DEF CacheType
<1>8. llc' \in LlcType
  <2>1. PICK su \in CState : su = "SHARED_UPGRADING"
    BY DEF CState
  <2>2. llc' = IF upgrade THEN PutSt(LLC, g, b, su) ELSE LLC
    BY <1>5, <2>1 DEF PutSt
  <2> HIDE DEF upgrade
  <2>3. QED
    BY <2>2, PutStFacts
<1>9. w \in Waiter /\ w.core = c /\ (w.exclusive <=> op # "READ") /\ waiters[g][b] \in Seq(Waiter)
  <2>1. w \in Waiter /\ w.core = c /\ (w.exclusive <=> op # "READ")
    BY DEF Waiter
  <2>2. QED
    BY <1>0, <2>1 DEF HandoverType, WaiterType
<1> HIDE DEF w
<1>10. /\ t \in Seq(Waiter)
       /\ DOMAIN waiters[g][b] = 1..Len(waiters[g][b]) /\ Len(waiters[g][b]) \in Nat
       /\ DOMAIN t = 1..(Len(waiters[g][b]) + 1)
       /\ \A i \in DOMAIN waiters[g][b] : t[i] = waiters[g][b][i]
       /\ t[Len(waiters[g][b]) + 1] = w
  BY <1>9, AppendFacts
<1>11. PICK n \in Nat : n = Len(waiters[g][b])
  BY <1>10
<1> HIDE DEF t
<1>12. /\ waiters' \in WaiterType /\ waiters'[g][b] = t
       /\ \A h \in Llc, x \in Block : h # g \/ x # b => waiters'[h][x] = waiters[h][x]
  <2>1. waiters \in WaiterType
    BY <1>0 DEF HandoverType
  <2>2. QED
    BY <1>5, <1>10, <2>1, PutWaiters
<1>13. /\ user' \in [Core -> UserType]
       /\ user'[c].pc = "wait" /\ user'[c].block = b /\ user'[c].op = op
       /\ \A d \in Core : d # c => user'[d] = user[d]
  BY <1>0, <1>1, <1>5 DEF HandoverType, UserType
<1>14. HandoverInv'
  <2>1. \A h \in Llc : net[h] = NoBlock \/ net[h] \in Block
    BY <1>0, NetTypes
  <2>2. /\ DOMAIN waiters[g][b] = 1..n /\ DOMAIN waiters'[g][b] = 1..(n + 1)
        /\ \A i \in 1..n : waiters'[g][b][i] = waiters[g][b][i]
        /\ waiters'[g][b][n + 1].core = c
        /\ waiters'[g][b][n + 1].exclusive <=> user'[c].op # "READ"
    BY <1>9, <1>10, <1>11, <1>12, <1>13
  <2>3. user[c].pc = "miss" /\ user[c].block = b /\ UNCHANGED <<lock, net, userSem, netSem>>
    BY <1>1, <1>5
  <2>4. QED
    BY <1>3, <1>12, <1>13, <2>1, <2>2, <2>3, WaitStarts
<1>15. HandoverType' /\ CacheType'
  BY <1>0, <1>5, <1>7, <1>8, <1>12, <1>13 DEF HandoverType, CacheType
<1>16. failed' \subseteq Labels
  <2>1. PICK P : Checked(MissChecks(c) \cup {<<"exreq", P>>})
    BY DEF MissWaits
  <2>2. QED
    BY <2>1 DEF Checked, MissChecks, RequestChecks, Labels
<1>17. QED
  BY <1>0, <1>5, <1>14, <1>15, <1>16, TypePartsNext

LEMMA ResumeKeeps ==
    ASSUME TypeOK, HandoverInv, NEW c \in Core, Resume(c)
    PROVE  TypeOK' /\ HandoverInv'
<1>0. CacheType /\ HandoverType /\ dir \in DirType /\ dramDirect \in BOOLEAN /\ failed \subseteq Labels
  BY TypeParts
<1>1. PICK b \in Block, op \in Op : b = user[c].block /\ op = user[c].op
  <2>1. user[c].pc = "wait"
    BY DEF Resume
  <2>2. QED
    BY <1>0, <2>1, RequestTypes
<1>2. PICK M \in L1Type, LLC \in LlcType :
        M = L1AfterRequest(c, op, b, l1) /\ LLC = LlcAfterRequest(c, op, b, l1)
  BY <1>0, L1AfterRequestFacts, LlcAfterRequestFacts DEF CacheType
<1>3. PICK g \in Llc : g = Master(c)
  BY MasterFacts
<1>4. /\ userSem[c] > 0
      /\ userSem' = [userSem EXCEPT ![c] = @ - 1] /\ netSem' = [netSem EXCEPT ![c] = @ + 1]
      /\ FillAndComplete(c, op, b, M, LLC, dram, RequestChecks(c))
      /\ UNCHANGED <<waiters, net, dir, dramDirect>>
  BY <1>1, <1>2 DEF Resume
<1>5. \A h \in Llc : net[h] = NoBlock \/ net[h] \in Block
  BY <1>0, NetTypes
<1>6. userSem[c] = 1
  BY <1>0, <1>4, NetTypes
<1>7. lock[g].excl /\ lock[g].readers = {} /\ netSem[c] = 0
  BY <1>3, <1>5, <1>6, SignalledFacts
<1>8. /\ lock' = [lock EXCEPT ![Master(c)] =
                    [excl |-> FALSE, readers |-> IF op = "READ_EX" THEN {c} ELSE {}]]
      /\ user' = [user EXCEPT ![c] =
                    IF op = "READ_EX" THEN [pc |-> "locked", op |-> op, block |-> b] ELSE Idle]
      /\ \E v : Accessed(c, op, b, FillL1(c, b, v, M, LLC), FillLlc(c, v, M, LLC), dram)
  BY <1>0, <1>4, FillFacts DEF CacheType
<1>9. CacheType'
  BY <1>8 DEF Accessed, CacheType
<1>10. PICK keeps \in BOOLEAN : keeps <=> op = "READ_EX"
  OBVIOUS
<1>11. /\ user' \in [Core -> UserType]
       /\ keeps => user'[c].pc = "locked" /\ user'[c].block \in Block /\ user'[c].op = "READ_EX"
       /\ ~keeps => user'[c].pc = "idle" /\ user'[c] = Idle
       /\ \A d \in Core : d # c => user'[d] = user[d]
  BY <1>0, <1>8, <1>10 DEF HandoverType, UserType, Idle, Op
<1>12. PICK R \in SUBSET Core : R = (IF op = "READ_EX" THEN {c} ELSE {}) /\ R = (IF keeps THEN {c} ELSE {})
  BY <1>10
<1>13. /\ lock' \in [Llc -> LockType]
       /\ lock'[g].excl = FALSE /\ lock'[g].readers = R
       /\ \A h \in Llc : h # g => lock'[h] = lock[h]
  <2>1. lock' = [lock EXCEPT ![g] = [excl |-> FALSE, readers |-> R]]
    BY <1>3, <1>8, <1>12
  <2>2. QED
    BY <1>0, <2>1 DEF HandoverType, LockType
<1>14. /\ userSem' \in [Core -> 0..1] /\ netSem' \in [Core -> 0..1]
       /\ userSem'[c] = 0 /\ netSem'[c] = 1
       /\ \A d \in Core : d # c => userSem'[d] = userSem[d] /\ netSem'[d] = netSem[d]
  BY <1>0, <1>4, <1>6, <1>7 DEF HandoverType
<1>15. HandoverInv'
  <2>1. \A d \in Core : d # c => user'[d] = user[d] /\ userSem'[d] = userSem[d] /\ netSem'[d] = netSem[d]
    BY <1>11, <1>14
  <2>2. lock'[g].readers = IF keeps THEN {c} ELSE {}
    BY <1>12, <1>13
  <2>3. UNCHANGED <<waiters, net>>
    BY <1>4
  <2>4. QED
    BY <1>3, <1>5, <1>6, <1>11, <1>13, <1>14, <2>1, <2>2, <2>3, Resumed
<1>16. HandoverType'
  BY <1>0, <1>4, <1>11, <1>13, <1>14 DEF HandoverType
<1>17. failed' \subseteq Labels
  BY <1>4 DEF FillAndComplete, Checked, RequestChecks, Labels
<1>18. QED
  BY <1>0, <1>4, <1>9, <1>15, <1>16, <1>17, TypePartsNext

Upgrades(g, b, queue, LLC) == queue # <<>> /\ queue[1].exclusive /\ LLC[g][b].st = "SHARED"
Wakes(g, b, queue, LLC) == queue # <<>> /\ ~Upgrades(g, b, queue, LLC)

(* What serving the queue of b leaves.                                     *)
QueueServed(g, b, queue, LLC, UP) ==
    /\ waiters' \in WaiterType /\ waiters'[g][b] = queue
    /\ \A h \in Llc, x \in Block : h # g \/ x # b => waiters'[h][x] = waiters[h][x]
    /\ llc' \in LlcType
    /\ llc'[g][b].st = IF Upgrades(g, b, queue, LLC) THEN "SHARED_UPGRADING" ELSE LLC[g][b].st
    /\ llc'[g][b].cur = LLC[g][b].cur
    /\ \A h \in Llc, x \in Block : h # g \/ x # b => llc'[h][x] = LLC[h][x]
    /\ up' \in ChannelType
    /\ up'[g][b] = IF Upgrades(g, b, queue, LLC)
                   THEN Append(UP[g][b], Msg("UPGRADE_REQ", FALSE)) ELSE UP[g][b]
    /\ \A h \in Llc, x \in Block : h # g \/ x # b => up'[h][x] = UP[h][x]
    /\ lock' \in [Llc -> LockType]
    /\ lock'[g].excl <=> Wakes(g, b, queue, LLC)
    /\ lock'[g].readers = {}
    /\ net' \in [Llc -> Block \cup {NoBlock}]
    /\ net'[g] = IF Wakes(g, b, queue, LLC) THEN b ELSE NoBlock
    /\ \A h \in Llc : h # g => lock'[h] = lock[h] /\ net'[h] = net[h]
    /\ userSem' \in [Core -> 0..1]
    /\ \A d \in Core : userSem'[d] = IF Wakes(g, b, queue, LLC) /\ d = queue[1].core THEN 1 ELSE userSem[d]

LEMMA ServeFacts ==
    ASSUME HandoverType, NEW g \in Llc, NEW b \in Block, NEW queue \in Seq(Waiter),
           NEW LLC \in LlcType, NEW UP \in ChannelType, ServeWaiters(g, b, queue, LLC, UP),
           \A d \in L1sOf(g) : userSem[d] = 0,
           queue # <<>> => queue[1].core \in L1sOf(g)
    PROVE  QueueServed(g, b, queue, LLC, UP)
<1>1. PICK upgrade \in BOOLEAN : upgrade <=> Upgrades(g, b, queue, LLC)
  OBVIOUS
<1>2. PICK wake \in BOOLEAN : wake <=> Wakes(g, b, queue, LLC)
  OBVIOUS
<1>3. queue # <<>> => Head(queue) = queue[1] /\ queue[1] \in Waiter
  BY TailFacts
<1>4. /\ waiters' = Put(waiters, g, b, queue)
      /\ llc' = IF upgrade THEN PutSt(LLC, g, b, "SHARED_UPGRADING") ELSE LLC
      /\ up' = IF upgrade THEN Sent(UP, g, b, Msg("UPGRADE_REQ", FALSE)) ELSE UP
      /\ lock' = [lock EXCEPT ![g] = IF wake THEN Held ELSE Free]
      /\ net' = [net EXCEPT ![g] = IF wake THEN b ELSE NoBlock]
      /\ userSem' = IF wake THEN [userSem EXCEPT ![queue[1].core] = @ + 1] ELSE userSem
  <2>1. upgrade <=> queue # <<>> /\ Head(queue).exclusive /\ LLC[g][b].st = "SHARED"
    BY <1>1, <1>3 DEF Upgrades
  <2>2. wake <=> queue # <<>> /\ ~(queue # <<>> /\ Head(queue).exclusive /\ LLC[g][b].st = "SHARED")
    BY <1>2, <1>3 DEF Upgrades, Wakes
  <2>3. wake => Head(queue) = queue[1]
    BY <1>2, <1>3 DEF Wakes
  <2>4. QED
    BY <2>1, <2>2, <2>3 DEF ServeWaiters, Put, PutSt
<1>5. /\ waiters' \in WaiterType /\ waiters'[g][b] = queue
      /\ \A h \in Llc, x \in Block : h # g \/ x # b => waiters'[h][x] = waiters[h][x]
  BY <1>4, PutWaiters DEF HandoverType
<1>6. /\ llc' \in LlcType
      /\ llc'[g][b].st = IF upgrade THEN "SHARED_UPGRADING" ELSE LLC[g][b].st
      /\ llc'[g][b].cur = LLC[g][b].cur
      /\ \A h \in Llc, x \in Block : h # g \/ x # b => llc'[h][x] = LLC[h][x]
  <2>1. "SHARED_UPGRADING" \in CState
    BY DEF CState
  <2>2. QED
    BY <1>4, <2>1, PutStFacts
<1>7. /\ up' \in ChannelType
      /\ up'[g][b] = IF upgrade THEN Append(UP[g][b], Msg("UPGRADE_REQ", FALSE)) ELSE UP[g][b]
      /\ \A h \in Llc, x \in Block : h # g \/ x # b => up'[h][x] = UP[h][x]
  <2>1. PICK m \in Message : m = Msg("UPGRADE_REQ", FALSE)
    BY DEF Msg, Message
  <2>2. up' = IF upgrade THEN Sent(UP, g, b, m) ELSE UP
    BY <1>4, <2>1
  <2>3. /\ up' \in ChannelType
        /\ up'[g][b] = IF upgrade THEN Append(UP[g][b], m) ELSE UP[g][b]
        /\ \A h \in Llc, x \in Block : h # g \/ x # b => up'[h][x] = UP[h][x]
    <3>1. /\ Sent(UP, g, b, m) \in ChannelType
          /\ \A h \in Llc, x \in Block :
               Sent(UP, g, b, m)[h][x] = IF h = g /\ x = b THEN Append(UP[g][b], m) ELSE UP[h][x]
      BY SentFacts
    <3>2. CASE upgrade
      BY <2>2, <3>1, <3>2
    <3>3. CASE ~upgrade
      BY <2>2, <3>3
    <3>4. QED
      BY <3>2, <3>3
  <2>4. QED
    BY <2>1, <2>3
<1>8. /\ lock' \in [Llc -> LockType] /\ (lock'[g].excl <=> wake) /\ lock'[g].readers = {}
      /\ \A h \in Llc : h # g => lock'[h] = lock[h]
  BY <1>4 DEF HandoverType, LockType, Held, Free
<1>9. /\ net' \in [Llc -> Block \cup {NoBlock}] /\ net'[g] = IF wake THEN b ELSE NoBlock
      /\ \A h \in Llc : h # g => net'[h] = net[h]
  BY <1>4 DEF HandoverType
<1>10. /\ userSem' \in [Core -> 0..1]
       /\ \A d \in Core : userSem'[d] = IF wake /\ d = queue[1].core THEN 1 ELSE userSem[d]
  <2>1. CASE ~wake
    BY <1>4, <2>1 DEF HandoverType
  <2>2. CASE wake
    <3>1. PICK e \in Core : e = queue[1].core /\ userSem[e] = 0
      BY <1>2, <2>2, MasterFacts DEF Wakes
    <3>2. userSem' = [userSem EXCEPT ![e] = 1]
      BY <1>4, <2>2, <3>1
    <3>3. QED
      BY <2>2, <3>1, <3>2 DEF HandoverType
  <2>3. QED
    BY <2>1, <2>2
<1>11. QED
  BY ZenonT(40), <1>1, <1>2, <1>5, <1>6, <1>7, <1>8, <1>9, <1>10 DEF QueueServed

(* The queue that is served: all of it, or what is left without its head.  *)
RestOf(queue, w, o, n) ==
    /\ queue \in Seq(Waiter) /\ n \in Nat /\ o <= n
    /\ DOMAIN w = 1..n /\ DOMAIN queue = 1..(n - o)
    /\ \A i \in 1..(n - o) : queue[i] = w[i + o]
    /\ queue # <<>> <=> n - o >= 1

LEMMA RestFacts ==
    ASSUME NEW w \in Seq(Waiter)
    PROVE  /\ RestOf(w, w, 0, Len(w))
           /\ w # <<>> => RestOf(Tail(w), w, 1, Len(w))
<1>1. \A q \in Seq(Waiter) : DOMAIN q = 1..Len(q) /\ Len(q) \in Nat /\ (q # <<>> <=> Len(q) >= 1)
  BY LenProperties, EmptySeq
<1>2. RestOf(w, w, 0, Len(w))
  BY <1>1 DEF RestOf
<1>3. ASSUME w # <<>>
      PROVE  RestOf(Tail(w), w, 1, Len(w))
  <2>1. PICK q \in Seq(Waiter) : q = Tail(w) /\ DOMAIN q = 1..(Len(w) - 1) /\ \A i \in DOMAIN q : q[i] = w[i + 1]
    BY ZenonT(40), <1>3, TailFacts
  <2>2. Len(q) = Len(w) - 1
    BY <1>1, <1>3, <2>1
  <2>3. QED
    BY <1>1, <1>3, <2>1, <2>2 DEF RestOf
<1>4. QED
  BY <1>2, <1>3

(* The network thread takes a reply, or goes on after a waiter: the lock   *)
(* is free, and so is every semaphore but that of the waiter it served.    *)
LEMMA ServeKeeps ==
    ASSUME HandoverType, HandoverInv, NEW g \in Llc, NEW b \in Block, lock[g] = Free,
           NEW o \in {0, 1}, o = 0 => net[g] = NoBlock, o = 1 => net[g] = b,
           NEW queue \in Seq(Waiter), NEW n \in Nat, RestOf(queue, waiters[g][b], o, n),
           NEW LLC \in LlcType, NEW UP \in ChannelType, ServeWaiters(g, b, queue, LLC, UP),
           netSem' \in [Core -> 0..1],
           \A d \in Core : netSem'[d] = IF o = 1 /\ d = Turn(g) THEN 0 ELSE netSem[d],
           UNCHANGED user
    PROVE  QueueServed(g, b, queue, LLC, UP) /\ HandoverType' /\ HandoverInv'
<1>0. ~lock[g].excl /\ lock[g].readers = {}
  BY DEF Free
<1>4. /\ queue \in Seq(Waiter) /\ n \in Nat /\ o <= n
      /\ DOMAIN waiters[g][b] = 1..n /\ DOMAIN queue = 1..(n - o)
      /\ \A i \in 1..(n - o) : queue[i] = waiters[g][b][i + o]
      /\ queue # <<>> <=> n - o >= 1
  BY DEF RestOf
<1>5. queue # <<>> => 1 + o \in DOMAIN waiters[g][b] /\ queue[1] = waiters[g][b][1 + o]
  BY <1>4
<1>6. queue # <<>> => queue[1].core \in L1sOf(g)
  BY <1>5 DEF HandoverInv, WaiterInv
<1>7. \A d \in L1sOf(g) : userSem[d] = 0
  BY <1>0, MasterFacts DEF HandoverInv, SemInv
<1>8. QueueServed(g, b, queue, LLC, UP)
  BY <1>4, <1>6, <1>7, ServeFacts
<1>9. PICK wake \in BOOLEAN : wake <=> Wakes(g, b, queue, LLC)
  OBVIOUS
<1>10. /\ \A h \in Llc : net[h] = NoBlock \/ net[h] \in Block
       /\ waiters'[g][b] = queue
       /\ \A h \in Llc, x \in Block : h # g \/ x # b => waiters'[h][x] = waiters[h][x]
       /\ wake => net'[g] = b /\ lock'[g].excl
       /\ ~wake => net'[g] = NoBlock /\ ~lock'[g].excl
       /\ lock'[g].readers = {}
       /\ \A h \in Llc : h # g => net'[h] = net[h] /\ lock'[h] = lock[h]
       /\ \A d \in Core : userSem'[d] = IF wake /\ d = queue[1].core THEN 1 ELSE userSem[d]
  BY <1>8, <1>9, NetTypes DEF QueueServed
<1>11. wake => n - o >= 1
  BY <1>4, <1>9 DEF Wakes
<1>12. HandoverInv'
  <2>1. /\ DOMAIN waiters'[g][b] = 1..(n - o)
        /\ \A i \in 1..(n - o) : waiters'[g][b][i] = waiters[g][b][i + o]
    BY <1>4, <1>10
  <2>2. \A d \in Core : userSem'[d] = IF wake /\ d = waiters'[g][b][1].core THEN 1 ELSE userSem[d]
    BY <1>10
  <2>3. o <= n /\ DOMAIN waiters[g][b] = 1..n
    BY <1>4
  <2>4. QED
    BY SMTT(30), <1>0, <1>10, <1>11, <2>1, <2>2, <2>3, WaitersServed
<1>13. HandoverType'
  BY <1>8 DEF HandoverType, QueueServed
<1>14. QED
  BY <1>8, <1>12, <1>13

(* A message made from parts of the right types.                           *)
LEMMA MsgFacts ==
    \A t \in REQ \cup GONE \cup {"WB_REP"} \cup REP \cup FWD, k \in BOOLEAN :
        Msg(t, k) \in Message /\ Msg(t, k).type = t /\ Msg(t, k).cur = k
  BY DEF Msg, Message, REQ, GONE, REP, FWD

(* The message an LLC of g sends when it evicts v.                         *)
EvictNote(g, v) ==
    IF llc[g][v].st = "MODIFIED" THEN Msg("FLUSH_REP", WrittenBack(l1, llc, g, v, {}).cur)
                                 ELSE Msg("INV_REP", FALSE)

LEMMA EvictNoteFacts ==
    ASSUME CacheType, NEW g \in Llc, NEW v \in Block
    PROVE  /\ EvictNote(g, v) \in Message
           /\ EvictNote(g, v).type = IF llc[g][v].st = "MODIFIED" THEN "FLUSH_REP" ELSE "INV_REP"
           /\ llc[g][v].st = "MODIFIED" => EvictNote(g, v).cur = WrittenBack(l1, llc, g, v, {}).cur
<1>1. PICK k \in BOOLEAN : k = WrittenBack(l1, llc, g, v, {}).cur
  BY WrittenBackFacts, LineFacts DEF CacheType
<1>2. EvictNote(g, v) = IF llc[g][v].st = "MODIFIED" THEN Msg("FLUSH_REP", k) ELSE Msg("INV_REP", FALSE)
  BY <1>1 DEF EvictNote
<1>3. PICK m \in Message : m = Msg("FLUSH_REP", k) /\ m.type = "FLUSH_REP" /\ m.cur = k
  BY MsgFacts DEF GONE
<1>4. PICK n \in Message : n = Msg("INV_REP", FALSE) /\ n.type = "INV_REP"
  BY MsgFacts DEF GONE
<1>5. QED
  BY <1>1, <1>2, <1>3, <1>4

UpAfterEvict(g, v) == IF v = NoBlock THEN up ELSE Sent(up, g, v, EvictNote(g, v))

(* What the LLC of g does with the data that a reply brings.               *)
DataTaken(g, b, type, v, line, LLC, UP) ==
    /\ v = NoBlock \/ (v \in Block /\ Valid(llc[g][v]))
    /\ line.st = IF type = "EX_REP" THEN "EXCLUSIVE" ELSE "SHARED"
    /\ line.cur = Head(down[g][b]).cur
    /\ LLC = LlcAfterInsert(llc, g, b, line, v) /\ UP = UpAfterEvict(g, v)
    /\ l1' = L1AfterEvict(l1, g, v)
    /\ ServeWaiters(g, b, waiters[g][b], LLC, UP)
    /\ Checked({<<"insert", ~Valid(llc[g][b])>>,
                <<"waiter", waiters[g][b] # <<>> >>,
                <<"evict", v # NoBlock => llc[g][v].st # "SHARED_UPGRADING">>})
    /\ down' = [down EXCEPT ![g][b] = Tail(@)]
    /\ UNCHANGED <<dram, user, netSem, dir, dramDirect>>

LEMMA DataRepFacts ==
    ASSUME TypeOK, HandoverInv, NEW g \in Llc, NEW b \in Block, NEW type \in {"EX_REP", "SH_REP"},
           HandleDataRep(g, b, type)
    PROVE  \E v \in LlcVictims(llc, g), line \in Line, LLC \in LlcType, UP \in ChannelType :
             DataTaken(g, b, type, v, line, LLC, UP)
<1>0. CacheType
  BY TypeParts
<1>1. PICK k \in BOOLEAN : k = Head(down[g][b]).cur
  <2>1. down[g][b] # <<>>
    BY DEF HandleDataRep, Received
  <2>2. Head(down[g][b]) \in Message
    BY <1>0, <2>1, TakenFacts DEF CacheType
  <2>3. QED
    BY <2>2 DEF Message
<1>2. PICK s \in CState : s = IF type = "EX_REP" THEN "EXCLUSIVE" ELSE "SHARED"
  BY DEF CState
<1>3. PICK line \in Line : line = [st |-> s, cur |-> k] /\ line.st = s /\ line.cur = k
  BY LineMade
<1>4. PICK v \in LlcVictims(llc, g) :
        /\ l1' = L1AfterEvict(l1, g, v)
        /\ ServeWaiters(g, b, waiters[g][b], LlcAfterInsert(llc, g, b, line, v), UpAfterEvict(g, v))
        /\ Checked({<<"insert", ~Valid(llc[g][b])>>,
                    <<"waiter", waiters[g][b] # <<>> >>,
                    <<"evict", v # NoBlock => llc[g][v].st # "SHARED_UPGRADING">>})
  BY <1>1, <1>2, <1>3 DEF HandleDataRep, UpAfterEvict, EvictNote
<1>5. v = NoBlock \/ (v \in Block /\ Valid(llc[g][v]))
  BY LlcVictimFacts
<1>6. PICK LLC \in LlcType : LLC = LlcAfterInsert(llc, g, b, line, v)
  BY <1>0, <1>5, InsertFacts DEF CacheType
<1>7. PICK UP \in ChannelType : UP = UpAfterEvict(g, v)
  <2>1. CASE v = NoBlock
    BY <1>0, <2>1 DEF UpAfterEvict, CacheType
  <2>2. CASE v \in Block
    <3>1. EvictNote(g, v) \in Message
      BY <1>0, <2>2, EvictNoteFacts
    <3>2. Sent(up, g, v, EvictNote(g, v)) \in ChannelType
      BY <1>0, <2>2, <3>1, SentFacts DEF CacheType
    <3>3. QED
      BY <1>0, <3>2 DEF UpAfterEvict, CacheType
  <2>3. QED
    BY <1>5, <2>1, <2>2
<1>8. /\ down' = [down EXCEPT ![g][b] = Tail(@)]
      /\ UNCHANGED <<dram, user, netSem, dir, dramDirect>>
  BY DEF HandleDataRep
<1>9. DataTaken(g, b, type, v, line, LLC, UP)
  BY <1>1, <1>2, <1>3, <1>4, <1>5, <1>6, <1>7, <1>8 DEF DataTaken
<1>10. QED
  BY <1>9

LEMMA HandleDataRepKeeps ==
    ASSUME TypeOK, HandoverInv, NEW g \in Llc, NEW b \in Block, NEW type \in {"EX_REP", "SH_REP"},
           HandleDataRep(g, b, type)
    PROVE  TypeOK' /\ HandoverInv'
<1>0. CacheType /\ HandoverType /\ dir \in DirType /\ dramDirect \in BOOLEAN
  BY TypeParts
<1>1. net[g] = NoBlock /\ lock[g] = Free /\ down[g][b] # <<>>
  BY DEF HandleDataRep, Received
<1>a. PICK v \in LlcVictims(llc, g), line \in Line, LLC \in LlcType, UP \in ChannelType :
        DataTaken(g, b, type, v, line, LLC, UP)
  BY DataRepFacts
<1>2. /\ v = NoBlock \/ v \in Block
      /\ l1' = L1AfterEvict(l1, g, v)
      /\ ServeWaiters(g, b, waiters[g][b], LLC, UP)
      /\ Checked({<<"insert", ~Valid(llc[g][b])>>,
                  <<"waiter", waiters[g][b] # <<>> >>,
                  <<"evict", v # NoBlock => llc[g][v].st # "SHARED_UPGRADING">>})
      /\ down' = [down EXCEPT ![g][b] = Tail(@)]
      /\ UNCHANGED <<dram, user, netSem, dir, dramDirect>>
  BY <1>a DEF DataTaken
<1>3. RestOf(waiters[g][b], waiters[g][b], 0, Len(waiters[g][b]))
  BY <1>0, RestFacts DEF HandoverType, WaiterType
<1>4. netSem' \in [Core -> 0..1] /\ netSem' = netSem /\ UNCHANGED user
  BY <1>0, <1>2 DEF HandoverType
<1>5. /\ QueueServed(g, b, waiters[g][b], LLC, UP)
      /\ HandoverType' /\ HandoverInv'
  <2>1. PICK o \in {0, 1} : o = 0
    OBVIOUS
  <2>2. RestOf(waiters[g][b], waiters[g][b], o, Len(waiters[g][b]))
    BY <1>3, <2>1
  <2>3. \A d \in Core : netSem'[d] = IF o = 1 /\ d = Turn(g) THEN 0 ELSE netSem[d]
    BY <1>4, <2>1
  <2>4. PICK queue \in Seq(Waiter), n \in Nat : queue = waiters[g][b] /\ n = Len(waiters[g][b])
    BY <2>2 DEF RestOf
  <2>5. RestOf(queue, waiters[g][b], o, n) /\ ServeWaiters(g, b, queue, LLC, UP)
    BY <1>2, <2>2, <2>4
  <2>6. QueueServed(g, b, queue, LLC, UP) /\ HandoverType' /\ HandoverInv'
    BY <1>0, <1>1, <1>4, <2>1, <2>3, <2>5, ServeKeeps
  <2>7. QED
    BY <2>4, <2>6
<1>6. l1' \in L1Type
  BY <1>0, <1>2, EvictFacts DEF CacheType
<1>7. down' \in ChannelType
  BY <1>0, <1>1, <1>2, TakenFacts DEF CacheType
<1>8. CacheType'
  BY <1>0, <1>2, <1>5, <1>6, <1>7 DEF CacheType, QueueServed
<1>9. failed' \subseteq Labels
  <2>1. PICK P, Q, R : Checked({<<"insert", P>>, <<"waiter", Q>>, <<"evict", R>>})
    BY <1>2
  <2>2. QED
    BY <2>1 DEF Checked, Labels
<1>10. dir' \in DirType /\ dramDirect' \in BOOLEAN
  BY <1>0, <1>2
<1>11. QED
  BY <1>5, <1>8, <1>9, <1>10, TypePartsNext

(* The LLC line is upgraded before the queue is served.                    *)
LEMMA UpgradeRepFacts ==
    ASSUME TypeOK, NEW g \in Llc, NEW b \in Block, HandleUpgradeRep(g, b)
    PROVE  \E LLC \in LlcType :
             /\ LLC[g][b].st = "MODIFIED" /\ LLC[g][b].cur = llc[g][b].cur
             /\ \A h \in Llc, x \in Block : h # g \/ x # b => LLC[h][x] = llc[h][x]
             /\ ServeWaiters(g, b, waiters[g][b], LLC, up)
             /\ l1' \in L1Type
             /\ \A c \in Core, x \in Block :
                  l1'[c][x] = IF x = b /\ Master(c) = g /\ Valid(l1[c][b])
                              THEN [st |-> "MODIFIED", cur |-> l1[c][b].cur] ELSE l1[c][x]
             /\ down' = [down EXCEPT ![g][b] = Tail(@)]
             /\ UNCHANGED <<dram, user, netSem, dir, dramDirect>>
<1>0. CacheType
  BY TypeParts
<1>1. PICK s \in CState : s = "MODIFIED"
  BY DEF CState
<1>2. PICK LLC \in LlcType : LLC = PutSt(llc, g, b, s)
  BY <1>0, PutStFacts DEF CacheType
<1>3. /\ LLC[g][b].st = "MODIFIED" /\ LLC[g][b].cur = llc[g][b].cur
      /\ \A h \in Llc, x \in Block : h # g \/ x # b => LLC[h][x] = llc[h][x]
  BY <1>0, <1>1, <1>2, PutStFacts DEF CacheType
<1>4. ServeWaiters(g, b, waiters[g][b], LLC, up)
  BY <1>1, <1>2 DEF HandleUpgradeRep, PutSt
<1>5. /\ l1' \in L1Type
      /\ \A c \in Core, x \in Block :
           l1'[c][x] = IF x = b /\ Master(c) = g /\ Valid(l1[c][b])
                       THEN [st |-> "MODIFIED", cur |-> l1[c][b].cur] ELSE l1[c][x]
  <2>1. PICK none : none = {}
    OBVIOUS
  <2>2. l1' = Snooped(l1, g, b, s, none)
    BY <1>1, <2>1 DEF HandleUpgradeRep
  <2>3. /\ l1' \in L1Type
        /\ \A c \in Core, x \in Block :
             l1'[c][x] = IF x = b /\ c \in L1sOf(g) \ none /\ Valid(l1[c][b])
                         THEN SnoopedLine(l1[c][b], s) ELSE l1[c][x]
    BY <1>0, <2>2, SnoopedFacts DEF CacheType
  <2>4. \A c \in Core : c \in L1sOf(g) \ none <=> Master(c) = g
    BY <2>1 DEF L1sOf
  <2>5. \A l : SnoopedLine(l, s) = [st |-> "MODIFIED", cur |-> l.cur]
    BY <1>1 DEF SnoopedLine
  <2>6. QED
    BY <2>3, <2>4, <2>5
<1>6. /\ down' = [down EXCEPT ![g][b] = Tail(@)]
      /\ UNCHANGED <<dram, user, netSem, dir, dramDirect>>
  BY DEF HandleUpgradeRep
<1>7. QED
  BY <1>3, <1>4, <1>5, <1>6

LEMMA HandleUpgradeRepKeeps ==
    ASSUME TypeOK, HandoverInv, NEW g \in Llc, NEW b \in Block, HandleUpgradeRep(g, b)
    PROVE  TypeOK' /\ HandoverInv'
<1>0. CacheType /\ HandoverType /\ dir \in DirType /\ dramDirect \in BOOLEAN
  BY TypeParts
<1>1. net[g] = NoBlock /\ lock[g] = Free /\ down[g][b] # <<>>
  BY DEF HandleUpgradeRep, Received
<1>2. PICK LLC \in LlcType :
        /\ ServeWaiters(g, b, waiters[g][b], LLC, up)
        /\ l1' \in L1Type
        /\ down' = [down EXCEPT ![g][b] = Tail(@)]
        /\ UNCHANGED <<dram, user, netSem, dir, dramDirect>>
  BY UpgradeRepFacts
<1>4. netSem' \in [Core -> 0..1] /\ netSem' = netSem /\ UNCHANGED user /\ up \in ChannelType
  BY <1>0, <1>2 DEF HandoverType, CacheType
<1>5. PICK queue : /\ QueueServed(g, b, queue, LLC, up)
                   /\ HandoverType' /\ HandoverInv'
  <2>1. PICK o \in {0, 1} : o = 0
    OBVIOUS
  <2>2. RestOf(waiters[g][b], waiters[g][b], o, Len(waiters[g][b]))
    BY <1>0, <2>1, RestFacts DEF HandoverType, WaiterType
  <2>3. \A d \in Core : netSem'[d] = IF o = 1 /\ d = Turn(g) THEN 0 ELSE netSem[d]
    BY <1>4, <2>1
  <2>4. PICK queue \in Seq(Waiter), n \in Nat : queue = waiters[g][b] /\ n = Len(waiters[g][b])
    BY <2>2 DEF RestOf
  <2>5. RestOf(queue, waiters[g][b], o, n) /\ ServeWaiters(g, b, queue, LLC, up)
    BY <1>2, <2>2, <2>4
  <2>6. QueueServed(g, b, queue, LLC, up) /\ HandoverType' /\ HandoverInv'
    BY <1>0, <1>1, <1>4, <2>1, <2>3, <2>5, ServeKeeps
  <2>7. QED
    BY <2>6
<1>7. down' \in ChannelType
  BY <1>0, <1>1, <1>2, TakenFacts DEF CacheType
<1>8. CacheType'
  BY <1>0, <1>2, <1>5, <1>7 DEF CacheType, QueueServed
<1>9. failed' \subseteq Labels
  <2>1. PICK P, Q, R, S : Checked({<<"out_buf", P>>, <<"upgrade", Q>>, <<"waiter", R>>, <<"writeback", S>>})
    BY DEF HandleUpgradeRep, WritebackAccepted
  <2>2. QED
    BY <2>1 DEF Checked, Labels
<1>10. dir' \in DirType /\ dramDirect' \in BOOLEAN
  BY <1>0, <1>2
<1>11. QED
  BY <1>5, <1>8, <1>9, <1>10, TypePartsNext

LEMMA NetResumesKeeps ==
    ASSUME TypeOK, HandoverInv, NEW g \in Llc, NetResumes(g)
    PROVE  TypeOK' /\ HandoverInv'
<1>0. CacheType /\ HandoverType /\ dir \in DirType /\ dramDirect \in BOOLEAN /\ failed \subseteq Labels
  BY TypeParts
<1>1. PICK b \in Block : b = net[g]
  BY <1>0, NetTypes DEF NetResumes
<1>2. lock[g] = Free /\ UNCHANGED <<l1, dram, user, down, dir, failed, dramDirect>>
  BY DEF NetResumes
<1>3. waiters[g][b] # <<>> /\ waiters[g][b] \in Seq(Waiter) /\ Head(waiters[g][b]).core = Turn(g)
      /\ Turn(g) \in Core
  <2>1. b # NoBlock /\ waiters[g][b] \in Seq(Waiter)
    BY <1>0, CoresAssumption DEF HandoverType, WaiterType
  <2>2. 1 \in DOMAIN waiters[g][b]
    BY <1>1, <2>1 DEF HandoverInv, LockInv
  <2>3. waiters[g][b] # <<>>
    BY <2>1, <2>2, EmptySeq
  <2>4. QED
    BY <1>1, <2>1, <2>3, TailFacts, TurnFacts DEF Turn
<1>4. netSem[Turn(g)] > 0 /\ netSem' = [netSem EXCEPT ![Turn(g)] = @ - 1]
      /\ ServeWaiters(g, b, Tail(waiters[g][b]), llc, up)
  BY <1>1, <1>3 DEF NetResumes
<1>5. /\ netSem' \in [Core -> 0..1]
      /\ \A d \in Core : netSem'[d] = IF d = Turn(g) THEN 0 ELSE netSem[d]
  <2>1. netSem[Turn(g)] = 1 /\ netSem \in [Core -> 0..1]
    BY <1>0, <1>3, <1>4, NetTypes DEF HandoverType
  <2>2. QED
    BY <1>3, <1>4, <2>1
<1>6. PICK queue : /\ QueueServed(g, b, queue, llc, up)
                   /\ HandoverType' /\ HandoverInv'
  <2>1. PICK o \in {0, 1} : o = 1
    OBVIOUS
  <2>2. RestOf(Tail(waiters[g][b]), waiters[g][b], o, Len(waiters[g][b]))
    BY <1>3, <2>1, RestFacts
  <2>3. \A d \in Core : netSem'[d] = IF o = 1 /\ d = Turn(g) THEN 0 ELSE netSem[d]
    BY <1>5, <2>1
  <2>4. PICK queue \in Seq(Waiter), n \in Nat : queue = Tail(waiters[g][b]) /\ n = Len(waiters[g][b])
    BY <2>2 DEF RestOf
  <2>5. RestOf(queue, waiters[g][b], o, n) /\ ServeWaiters(g, b, queue, llc, up)
    BY <1>4, <2>2, <2>4
  <2>6. llc \in LlcType /\ up \in ChannelType /\ UNCHANGED user
    BY <1>0, <1>2 DEF CacheType
  <2>7. QueueServed(g, b, queue, llc, up) /\ HandoverType' /\ HandoverInv'
    BY <1>0, <1>1, <1>2, <1>5, <2>1, <2>3, <2>5, <2>6, ServeKeeps
  <2>8. QED
    BY <2>7
<1>8. CacheType'
  BY <1>0, <1>2, <1>6 DEF CacheType, QueueServed
<1>9. QED
  BY <1>0, <1>2, <1>6, <1>8, TypePartsNext

(* How a request of the directory is served: the line is gone; its buffer  *)
(* is unset; or it is given up or written back.                            *)
Unset(g, b, new) == new = "SHARED" /\ llc[g][b].st = "SHARED_UPGRADING"

Yields(g, b, new, reply, checks, m) ==
    /\ Valid(llc[g][b]) /\ ~Unset(g, b, new)
    /\ m.type = reply /\ (m.cur <=> WrittenBack(l1, llc, g, b, {}).cur /\ reply # "INV_REP")
    /\ up' = Sent(up, g, b, m)
    /\ l1' \in L1Type /\ llc' \in LlcType
    /\ \A c \in Core, x \in Block :
         l1'[c][x] = IF x = b /\ Master(c) = g /\ Valid(l1[c][b])
                     THEN SnoopedLine(l1[c][b], new) ELSE l1[c][x]
    /\ llc'[g][b] = SnoopedLine(WrittenBack(l1, llc, g, b, {}), new)
    /\ \A h \in Llc, x \in Block : h # g \/ x # b => llc'[h][x] = llc[h][x]
    /\ Checked(checks \cup {WritebackAccepted(g, b)})

LEMMA DirReqFacts ==
    ASSUME TypeOK, NEW g \in Llc, NEW b \in Block, NEW type, NEW new \in CState,
           NEW reply \in GONE \cup {"WB_REP"}, NEW checks,
           HandleDirReq(g, b, type, new, reply, checks)
    PROVE  /\ down[g][b] # <<>> /\ Head(down[g][b]).type = type
           /\ down' = [down EXCEPT ![g][b] = Tail(@)]
           /\ net[g] = NoBlock /\ lock[g] = Free
           /\ UNCHANGED <<dram, lock, waiters, user, net, userSem, netSem, dir, dramDirect>>
           /\ \/ ~Valid(llc[g][b]) /\ UNCHANGED <<l1, llc, up, failed>>
              \/ /\ Unset(g, b, new) /\ UNCHANGED <<l1, llc, failed>>
                 /\ \E m \in Message : m.type = reply /\ up' = Sent(up, g, b, m)
              \/ \E m \in Message : Yields(g, b, new, reply, checks, m)
<1>0. CacheType
  BY TypeParts
<1>1. /\ down[g][b] # <<>> /\ Head(down[g][b]).type = type
      /\ down' = [down EXCEPT ![g][b] = Tail(@)]
      /\ net[g] = NoBlock /\ lock[g] = Free
      /\ UNCHANGED <<dram, lock, waiters, user, net, userSem, netSem, dir, dramDirect>>
  BY DEF HandleDirReq, Received
<1>2. reply \in REQ \cup GONE \cup {"WB_REP"} \cup REP \cup FWD
  OBVIOUS
<1>3. CASE ~Valid(llc[g][b])
  <2>1. ~Unset(g, b, new)
    BY <1>3 DEF Unset, Valid
  <2>2. UNCHANGED <<l1, llc, up, failed>>
    BY <1>3, <2>1 DEF HandleDirReq, Unset
  <2>3. QED
    BY <1>1, <1>3, <2>2
<1>4. CASE Valid(llc[g][b]) /\ Unset(g, b, new)
  <2>1. UNCHANGED <<l1, llc, failed>> /\ \E k \in BOOLEAN : up' = Sent(up, g, b, Msg(reply, k))
    BY <1>4 DEF HandleDirReq, Unset
  <2>2. PICK k \in BOOLEAN : up' = Sent(up, g, b, Msg(reply, k))
    BY <2>1
  <2>3. PICK m \in Message : m = Msg(reply, k) /\ m.type = reply
    BY <1>2, MsgFacts
  <2>4. QED
    BY <1>1, <1>4, <2>1, <2>2, <2>3
<1>5. CASE Valid(llc[g][b]) /\ ~Unset(g, b, new)
  <2>1. PICK line \in Line : line = WrittenBack(l1, llc, g, b, {})
    BY <1>0, WrittenBackFacts DEF CacheType
  <2>2. PICK k \in BOOLEAN : k <=> line.cur /\ reply # "INV_REP"
    OBVIOUS
  <2>3. PICK m \in Message : m = Msg(reply, k) /\ m.type = reply /\ m.cur = k
    BY <1>2, MsgFacts
  <2>4. PICK n \in Line : n = SnoopedLine(line, new) /\ n = IF new = "INVALID" THEN Absent ELSE [line EXCEPT !.st = new]
    <3>1. PICK n : n = IF new = "INVALID" THEN Absent ELSE [line EXCEPT !.st = new]
      OBVIOUS
    <3>2. n \in Line
      BY <3>1, LineFacts
    <3>3. n = SnoopedLine(line, new)
      BY <3>1 DEF Line, SnoopedLine
    <3>4. QED
      BY <3>1, <3>2, <3>3
  <2>5. /\ l1' = Snooped(l1, g, b, new, {})
        /\ llc' = Put(llc, g, b, n)
        /\ up' = Sent(up, g, b, Msg(reply, line.cur /\ reply # "INV_REP"))
        /\ Checked(checks \cup {WritebackAccepted(g, b)})
    BY <1>5, <2>1, <2>4 DEF HandleDirReq, Unset, Put
  <2>6. up' = Sent(up, g, b, m)
    <3>1. (line.cur /\ reply # "INV_REP") = k
      BY <2>2
    <3>2. QED
      BY <2>3, <2>5, <3>1
  <2>7. /\ l1' \in L1Type
        /\ \A c \in Core, x \in Block :
             l1'[c][x] = IF x = b /\ Master(c) = g /\ Valid(l1[c][b])
                         THEN SnoopedLine(l1[c][b], new) ELSE l1[c][x]
    <3>1. PICK none : none = {}
      OBVIOUS
    <3>2. l1' = Snooped(l1, g, b, new, none)
      BY <2>5, <3>1
    <3>3. /\ l1' \in L1Type
          /\ \A c \in Core, x \in Block :
               l1'[c][x] = IF x = b /\ c \in L1sOf(g) \ none /\ Valid(l1[c][b])
                           THEN SnoopedLine(l1[c][b], new) ELSE l1[c][x]
      BY <1>0, <3>2, SnoopedFacts DEF CacheType
    <3>4. \A c \in Core : c \in L1sOf(g) \ none <=> Master(c) = g
      BY <3>1 DEF L1sOf
    <3>5. QED
      BY <3>3, <3>4
  <2>8. /\ llc' \in LlcType /\ llc'[g][b] = SnoopedLine(line, new)
        /\ \A h \in Llc, x \in Block : h # g \/ x # b => llc'[h][x] = llc[h][x]
    <3>1. llc \in LlcType /\ llc' = Put(llc, g, b, n) /\ n = SnoopedLine(line, new)
      BY <1>0, <2>4, <2>5 DEF CacheType
    <3>2. QED
      BY <3>1, PutLlc
  <2>9. Yields(g, b, new, reply, checks, m)
    BY <1>5, <2>1, <2>2, <2>3, <2>5, <2>6, <2>7, <2>8 DEF Yields
  <2>10. QED
    BY <1>1, <2>9
<1>6. QED
  BY <1>3, <1>4, <1>5

(* A step that leaves the lock and the threads alone.                      *)
LEMMA HandoverSame ==
    ASSUME HandoverType, HandoverInv, UNCHANGED <<lock, waiters, user, net, userSem, netSem>>
    PROVE  HandoverType' /\ HandoverInv'
  BY SMTT(30) DEF HandoverType, HandoverInv, LockInv, SemInv, WaiterInv, UserInv, Served, Turn

LEMMA DirReqKeeps ==
    ASSUME TypeOK, HandoverInv, NEW g \in Llc, NEW b \in Block, NEW type, NEW new \in CState,
           NEW reply \in GONE \cup {"WB_REP"}, NEW checks, \A x \in checks : x[1] \in Labels,
           HandleDirReq(g, b, type, new, reply, checks)
    PROVE  TypeOK' /\ HandoverInv'
<1>0. CacheType /\ HandoverType /\ dir \in DirType /\ dramDirect \in BOOLEAN /\ failed \subseteq Labels
  BY TypeParts
<1>1. /\ down[g][b] # <<>>
      /\ down' = [down EXCEPT ![g][b] = Tail(@)]
      /\ UNCHANGED <<dram, lock, waiters, user, net, userSem, netSem, dir, dramDirect>>
      /\ \/ UNCHANGED <<l1, llc, up, failed>>
         \/ UNCHANGED <<l1, llc, failed>> /\ \E m \in Message : up' = Sent(up, g, b, m)
         \/ \E m \in Message : Yields(g, b, new, reply, checks, m)
  BY DirReqFacts
<1>2. down' \in ChannelType /\ dram' \in [Block -> BOOLEAN]
  BY <1>0, <1>1, TakenFacts DEF CacheType
<1>3. l1' \in L1Type /\ llc' \in LlcType /\ up' \in ChannelType
  <2>1. \A m \in Message : Sent(up, g, b, m) \in ChannelType
    BY <1>0, SentFacts DEF CacheType
  <2>2. QED
    BY <1>0, <1>1, <2>1 DEF CacheType, Yields
<1>4. failed' \subseteq Labels
  <2>1. ASSUME NEW m, Yields(g, b, new, reply, checks, m)
        PROVE  failed' \subseteq Labels
    <3>1. PICK P : Checked(checks \cup {<<"writeback", P>>})
      BY <2>1 DEF Yields, WritebackAccepted
    <3>2. QED
      BY <3>1 DEF Checked, Labels
  <2>2. QED
    BY <1>0, <1>1, <2>1
<1>5. HandoverType' /\ HandoverInv'
  BY <1>0, <1>1, HandoverSame
<1>6. CacheType' /\ dir' \in DirType /\ dramDirect' \in BOOLEAN
  BY <1>0, <1>1, <1>2, <1>3 DEF CacheType
<1>7. QED
  BY <1>4, <1>5, <1>6, TypePartsNext

LEMMA DirRequestsKeep ==
    ASSUME TypeOK, HandoverInv, NEW g \in Llc, NEW b \in Block,
           HandleInvReq(g, b) \/ HandleFlushReq(g, b) \/ HandleWbReq(g, b)
    PROVE  TypeOK' /\ HandoverInv'
<1>1. "INVALID" \in CState /\ "SHARED" \in CState /\ "INV_REP" \in GONE \cup {"WB_REP"}
      /\ "FLUSH_REP" \in GONE \cup {"WB_REP"} /\ "WB_REP" \in GONE \cup {"WB_REP"}
  BY DEF CState, GONE
<1>2. CASE HandleInvReq(g, b)
  <2>1. PICK P : HandleDirReq(g, b, "INV_REQ", "INVALID", "INV_REP", {<<"lost", P>>})
    BY <1>2 DEF HandleInvReq
  <2>2. \A x \in {<<"lost", P>>} : x[1] \in Labels
    BY DEF Labels
  <2>3. QED
    BY <1>1, <2>1, <2>2, DirReqKeeps
<1>3. CASE HandleFlushReq(g, b)
  <2>1. \A x \in {} : x[1] \in Labels
    OBVIOUS
  <2>2. QED
    BY <1>1, <1>3, <2>1, DirReqKeeps DEF HandleFlushReq
<1>4. CASE HandleWbReq(g, b)
  <2>1. \A x \in {} : x[1] \in Labels
    OBVIOUS
  <2>2. QED
    BY <1>1, <1>4, <2>1, DirReqKeeps DEF HandleWbReq
<1>5. QED
  BY <1>2, <1>3, <1>4

Request == [type : REQ, from : Llc]
DirEntry == [sharers : SUBSET Llc, owned : BOOLEAN, sent : BOOLEAN, queue : Seq(Request)]

LEMMA DirEntryFacts ==
    /\ DirType = [Block -> DirEntry]
    /\ \A d \in DirEntry : /\ d.sharers \in SUBSET Llc /\ d.owned \in BOOLEAN /\ d.sent \in BOOLEAN
                           /\ d.queue \in Seq(Request)
    /\ \A d \in DirEntry : \A b \in BOOLEAN : [d EXCEPT !.sent = b] \in DirEntry /\ [d EXCEPT !.owned = b] \in DirEntry
    /\ \A d \in DirEntry : \A q \in Seq(Request) : [d EXCEPT !.queue = q] \in DirEntry
    /\ \A d \in DirEntry : \A S \in SUBSET Llc, b \in BOOLEAN : [d EXCEPT !.sharers = S, !.owned = b] \in DirEntry
<1> USE DEF DirEntry
<1>1. DirType = [Block -> DirEntry]
  BY DEF DirType, Request
<1>2. \A d \in DirEntry : /\ d.sharers \in SUBSET Llc /\ d.owned \in BOOLEAN /\ d.sent \in BOOLEAN
                         /\ d.queue \in Seq(Request)
  OBVIOUS
<1>3. \A d \in DirEntry : \A b \in BOOLEAN : [d EXCEPT !.sent = b] \in DirEntry /\ [d EXCEPT !.owned = b] \in DirEntry
  OBVIOUS
<1>4. \A d \in DirEntry : \A q \in Seq(Request) : [d EXCEPT !.queue = q] \in DirEntry
  OBVIOUS
<1>5. \A d \in DirEntry : \A S \in SUBSET Llc, b \in BOOLEAN : [d EXCEPT !.sharers = S, !.owned = b] \in DirEntry
  OBVIOUS
<1> QED
  BY <1>1, <1>2, <1>3, <1>4, <1>5

(* The entry of a block after a message of the LLC g.                      *)
EntryAfter(d, g, m) ==
    CASE m.type \in GONE -> [d EXCEPT !.sharers = @ \ {g}, !.owned = @ /\ g \notin d.sharers]
      [] m.type = "WB_REP" -> [d EXCEPT !.owned = FALSE]
      [] OTHER -> [d EXCEPT !.queue = Append(@, [type |-> m.type, from |-> g])]

EntryChanged(d, g, m, e) ==
    /\ e \in DirEntry /\ e.sent = d.sent
    /\ m.type \in GONE => /\ e.sharers = d.sharers \ {g}
                          /\ e.owned <=> d.owned /\ g \notin d.sharers
                          /\ e.queue = d.queue
    /\ m.type = "WB_REP" => e.sharers = d.sharers /\ ~e.owned /\ e.queue = d.queue
    /\ m.type \in REQ => /\ e.sharers = d.sharers /\ (e.owned <=> d.owned)
                         /\ e.queue = Append(d.queue, [type |-> m.type, from |-> g])
                         /\ [type |-> m.type, from |-> g] \in Request

LEMMA EntryFacts ==
    ASSUME NEW d \in DirEntry, NEW g \in Llc, NEW m, m.type \in UpTypes, NEW e, e = EntryAfter(d, g, m)
    PROVE  EntryChanged(d, g, m, e)
<1> USE DEF EntryChanged
<1>1. PICK S \in SUBSET Llc, k \in BOOLEAN : S = d.sharers \ {g} /\ k = (d.owned /\ g \notin d.sharers)
  BY DirEntryFacts
<1>2. PICK e1 : e1 = [d EXCEPT !.sharers = @ \ {g}, !.owned = @ /\ g \notin d.sharers]
  OBVIOUS
<1>3. PICK e2 : e2 = [d EXCEPT !.owned = FALSE]
  OBVIOUS
<1>4. PICK r : r = [type |-> m.type, from |-> g]
  OBVIOUS
<1>5. PICK q : q = Append(d.queue, r)
  OBVIOUS
<1>6. PICK e3 : e3 = [d EXCEPT !.queue = q]
  OBVIOUS
<1>a. PICK P \in BOOLEAN : P <=> m.type \in GONE
  OBVIOUS
<1>7. PICK Q \in BOOLEAN : Q = (m.type = "WB_REP")
  OBVIOUS
<1>8. e = CASE P -> e1 [] Q -> e2 [] OTHER -> e3
  <2>1. e3 = [d EXCEPT !.queue = Append(@, [type |-> m.type, from |-> g])]
    BY <1>4, <1>5, <1>6
  <2>2. QED
    BY <1>a, <1>2, <1>3, <1>7, <2>1 DEF EntryAfter
<1>9. CASE m.type \in GONE
  <2>1. e = e1
    BY <1>a, <1>7, <1>8, <1>9 DEF GONE
  <2>2. e1 = [d EXCEPT !.sharers = S, !.owned = k]
    BY <1>1, <1>2, Zenon
  <2>3. e1 \in DirEntry /\ e1.sharers = S /\ (e1.owned <=> k) /\ e1.queue = d.queue /\ e1.sent = d.sent
    BY <2>2 DEF DirEntry
  <2>4. QED
    BY <1>1, <1>9, <2>1, <2>3 DEF GONE, REQ
<1>10. CASE m.type = "WB_REP"
  <2>1. e = e2
    BY <1>a, <1>7, <1>8, <1>10 DEF GONE
  <2>2. e2 \in DirEntry /\ e2.sharers = d.sharers /\ ~e2.owned /\ e2.queue = d.queue /\ e2.sent = d.sent
    BY <1>3 DEF DirEntry
  <2>3. QED
    BY <1>10, <2>1, <2>2 DEF GONE, REQ
<1>11. CASE m.type \in REQ
  <2>1. e = e3
    BY <1>a, <1>7, <1>8, <1>11 DEF GONE, REQ
  <2>2. d.queue \in Seq(Request) /\ r \in Request
    BY <1>4, <1>11, DirEntryFacts DEF Request
  <2>3. q \in Seq(Request)
    BY <1>5, <2>2, AppendFacts
  <2>4. /\ e3 \in DirEntry /\ e3.sharers = d.sharers /\ (e3.owned <=> d.owned)
        /\ e3.queue = q /\ e3.sent = d.sent
    BY <1>6, <2>3 DEF DirEntry
  <2>5. QED
    BY <1>4, <1>5, <1>11, <2>1, <2>2, <2>4 DEF GONE, REQ
<1>12. QED
  BY <1>9, <1>10, <1>11 DEF UpTypes

LEMMA ReceiveFacts ==
    ASSUME NEW g \in Llc, NEW b \in Block, DirReceive(g, b)
    PROVE  /\ up[g][b] # <<>>
           /\ up' = [up EXCEPT ![g][b] = Tail(@)]
           /\ dir' = [dir EXCEPT ![b] = EntryAfter(dir[b], g, Head(up[g][b]))]
           /\ dram' = IF Head(up[g][b]).type \in {"FLUSH_REP", "WB_REP"}
                      THEN [dram EXCEPT ![b] = Head(up[g][b]).cur] ELSE dram
           /\ UNCHANGED <<l1, llc, lock, waiters, user, net, userSem, netSem, down, failed, dramDirect>>
  BY DEF DirReceive, EntryAfter, GONE

(* The types of the messages on a channel are kept by a message that goes, *)
(* by one of those types that comes, and by a store that outdates them.    *)
Carries(chan, T) == \A g \in Llc, b \in Block : \A i \in DOMAIN chan[g][b] : chan[g][b][i].type \in T

LEMMA ChannelParts == ChannelInv <=> Carries(up, UpTypes) /\ Carries(down, DownTypes)
  BY DEF ChannelInv, Carries

LEMMA ChannelPartsNext == ChannelInv' <=> Carries(up', UpTypes) /\ Carries(down', DownTypes)
  BY DEF ChannelInv, Carries

LEMMA AppendCarries ==
    ASSUME NEW s \in Seq(Message), NEW m \in Message, NEW T, m.type \in T,
           \A i \in DOMAIN s : s[i].type \in T
    PROVE  \A i \in DOMAIN Append(s, m) : Append(s, m)[i].type \in T
<1>1. PICK t : t = Append(s, m)
  OBVIOUS
<1>2. /\ DOMAIN s = 1..Len(s) /\ Len(s) \in Nat /\ DOMAIN t = 1..(Len(s) + 1)
      /\ \A i \in DOMAIN s : t[i] = s[i]
      /\ t[Len(s) + 1] = m
  BY <1>1, AppendFacts
<1>3. \A i \in DOMAIN t : t[i].type \in T
  BY <1>2
<1>4. QED
  BY <1>1, <1>3

LEMMA TailCarries ==
    ASSUME NEW s \in Seq(Message), s # <<>>, NEW T, \A i \in DOMAIN s : s[i].type \in T
    PROVE  Head(s).type \in T /\ \A i \in DOMAIN Tail(s) : Tail(s)[i].type \in T
<1>1. PICK t : t = Tail(s)
  OBVIOUS
<1>2. /\ DOMAIN s = 1..Len(s) /\ Len(s) \in Nat /\ Len(s) >= 1 /\ DOMAIN t = 1..(Len(s) - 1)
      /\ \A i \in DOMAIN t : t[i] = s[i + 1]
      /\ Head(s) = s[1]
  BY <1>1, TailFacts
<1>3. \A i \in DOMAIN t : t[i].type \in T
  BY <1>2
<1>4. QED
  BY <1>1, <1>2, <1>3

LEMMA SentCarries ==
    ASSUME NEW chan \in ChannelType, NEW g \in Llc, NEW b \in Block, NEW m \in Message, NEW T,
           Carries(chan, T), m.type \in T
    PROVE  Carries(Sent(chan, g, b, m), T)
<1>0. PICK C : C = Sent(chan, g, b, m)
  OBVIOUS
<1>1. \A h \in Llc, x \in Block : C[h][x] = IF h = g /\ x = b THEN Append(chan[g][b], m) ELSE chan[h][x]
  BY <1>0, SentFacts
<1>2. chan[g][b] \in Seq(Message)
  BY DEF ChannelType
<1>3. PICK t : t = Append(chan[g][b], m)
  OBVIOUS
<1>4. \A i \in DOMAIN t : t[i].type \in T
  BY <1>2, <1>3, AppendCarries DEF Carries
<1>5. \A h \in Llc, x \in Block : \A i \in DOMAIN C[h][x] : C[h][x][i].type \in T
  <2> TAKE h \in Llc, x \in Block
  <2>1. CASE h = g /\ x = b
    BY <1>1, <1>3, <1>4, <2>1
  <2>2. CASE h # g \/ x # b
    <3>1. C[h][x] = chan[h][x]
      BY <1>1, <2>2
    <3>2. QED
      BY <3>1 DEF Carries
  <2>3. QED
    BY <2>1, <2>2
<1>6. QED
  BY <1>0, <1>5 DEF Carries

LEMMA TakenCarries ==
    ASSUME NEW chan \in ChannelType, NEW g \in Llc, NEW b \in Block, chan[g][b] # <<>>, NEW T,
           Carries(chan, T)
    PROVE  Carries([chan EXCEPT ![g][b] = Tail(@)], T) /\ Head(chan[g][b]).type \in T
<1>0. PICK C : C = [chan EXCEPT ![g][b] = Tail(@)]
  OBVIOUS
<1>1. \A h \in Llc, x \in Block : C[h][x] = IF h = g /\ x = b THEN Tail(chan[g][b]) ELSE chan[h][x]
  BY <1>0, TakenFacts
<1>2. chan[g][b] \in Seq(Message)
  BY DEF ChannelType
<1>3. PICK t : t = Tail(chan[g][b])
  OBVIOUS
<1>4. Head(chan[g][b]).type \in T /\ \A i \in DOMAIN t : t[i].type \in T
  BY <1>2, <1>3, TailCarries DEF Carries
<1>5. QED
  BY <1>0, <1>1, <1>3, <1>4 DEF Carries

(* Serving the queue sends at most an upgrade request.                     *)
LEMMA ServeCarries ==
    ASSUME NEW g \in Llc, NEW b \in Block, NEW queue, NEW LLC \in LlcType, NEW UP \in ChannelType,
           Carries(UP, UpTypes), ServeWaiters(g, b, queue, LLC, UP)
    PROVE  Carries(up', UpTypes)
<1>1. up' = UP \/ up' = Sent(UP, g, b, Msg("UPGRADE_REQ", FALSE))
  BY DEF ServeWaiters
<1>2. PICK m \in Message : m = Msg("UPGRADE_REQ", FALSE) /\ m.type = "UPGRADE_REQ"
  BY MsgFacts DEF REQ
<1>3. m.type \in UpTypes
  BY <1>2 DEF UpTypes, REQ
<1>4. Carries(Sent(UP, g, b, m), UpTypes)
  BY <1>3, SentCarries
<1>5. QED
  BY <1>1, <1>2, <1>4

LEMMA MissWaitsCarries ==
    ASSUME TypeOK, HandoverInv, ChannelInv, NEW c \in Core, MissWaits(c)
    PROVE  ChannelInv'
<1>0. up \in ChannelType /\ Carries(up, UpTypes) /\ Carries(down, DownTypes)
  BY TypeParts, ChannelParts DEF CacheType
<1>1. PICK b \in Block : b = user[c].block
  BY DEF MissWaits, HasStackLock, HandoverInv, UserInv
<1>2. PICK g \in Llc : g = Master(c)
  BY MasterFacts
<1>3. PICK request \in REQ : up' = up \/ up' = Sent(up, g, b, Msg(request, FALSE))
  <2>1. PICK P \in BOOLEAN, Q \in BOOLEAN :
          up' = up \/ up' = Sent(up, g, b, Msg(CASE P -> "SH_REQ" [] Q -> "UPGRADE_REQ" [] OTHER -> "EX_REQ", FALSE))
    <3>1. up' = up \/ up' = Sent(up, g, b, Msg(
              CASE user[c].op = "READ" -> "SH_REQ"
                [] waiters[g][b] = <<>> /\ user[c].op # "READ" /\ llc[g][b].st = "SHARED" -> "UPGRADE_REQ"
                [] OTHER -> "EX_REQ", FALSE))
      BY <1>1, <1>2 DEF MissWaits
    <3>2. PICK P \in BOOLEAN, Q \in BOOLEAN :
            /\ P = (user[c].op = "READ")
            /\ Q = (waiters[g][b] = <<>> /\ user[c].op # "READ" /\ llc[g][b].st = "SHARED")
      OBVIOUS
    <3>3. up' = up \/ up' = Sent(up, g, b, Msg(CASE P -> "SH_REQ" [] Q -> "UPGRADE_REQ" [] OTHER -> "EX_REQ", FALSE))
      BY <3>1, <3>2
    <3>4. QED
      BY <3>3
  <2>2. PICK t : t = CASE P -> "SH_REQ" [] Q -> "UPGRADE_REQ" [] OTHER -> "EX_REQ"
    OBVIOUS
  <2>3. t \in REQ
    BY <2>2 DEF REQ
  <2>4. QED
    BY <2>1, <2>2, <2>3
<1>4. PICK m \in Message : m = Msg(request, FALSE) /\ m.type \in UpTypes
  BY MsgFacts DEF UpTypes
<1>5. Carries(Sent(up, g, b, m), UpTypes)
  BY <1>0, <1>4, SentCarries
<1>6. Carries(up', UpTypes)
  BY <1>0, <1>3, <1>4, <1>5
<1>7. down' = down
  BY DEF MissWaits
<1>8. QED
  BY <1>0, <1>6, <1>7, ChannelPartsNext

LEMMA HandleDataRepCarries ==
    ASSUME TypeOK, HandoverInv, ChannelInv, NEW g \in Llc, NEW b \in Block,
           NEW type \in {"EX_REP", "SH_REP"}, HandleDataRep(g, b, type)
    PROVE  ChannelInv'
<1>0. /\ CacheType /\ up \in ChannelType /\ down \in ChannelType
      /\ Carries(up, UpTypes) /\ Carries(down, DownTypes)
  BY TypeParts, ChannelParts DEF CacheType
<1>1. PICK v \in LlcVictims(llc, g), line \in Line, LLC \in LlcType, UP \in ChannelType :
        DataTaken(g, b, type, v, line, LLC, UP)
  BY DataRepFacts
<1>2. /\ v = NoBlock \/ v \in Block
      /\ UP = UpAfterEvict(g, v) /\ ServeWaiters(g, b, waiters[g][b], LLC, UP)
      /\ down' = [down EXCEPT ![g][b] = Tail(@)]
  BY <1>1 DEF DataTaken
<1>3. Carries(UP, UpTypes)
  <2>1. CASE v = NoBlock
    BY <1>0, <1>2, <2>1 DEF UpAfterEvict
  <2>2. CASE v # NoBlock
    <3>1. PICK x \in Block : x = v
      BY <1>2, <2>2
    <3>2. PICK m \in Message : m = EvictNote(g, x) /\ m.type \in UpTypes
      BY <1>0, EvictNoteFacts DEF UpTypes, GONE
    <3>3. Carries(Sent(up, g, x, m), UpTypes)
      BY <1>0, <3>2, SentCarries
    <3>4. UP = Sent(up, g, x, m)
      BY <1>2, <2>2, <3>1, <3>2 DEF UpAfterEvict
    <3>5. QED
      BY <3>3, <3>4
  <2>3. QED
    BY <2>1, <2>2
<1>4. Carries(up', UpTypes)
  BY <1>2, <1>3, ServeCarries
<1>5. down[g][b] # <<>>
  BY DEF HandleDataRep, Received
<1>6. Carries(down', DownTypes)
  BY <1>0, <1>2, <1>5, TakenCarries
<1>7. QED
  BY <1>4, <1>6, ChannelPartsNext

LEMMA HandleUpgradeRepCarries ==
    ASSUME TypeOK, ChannelInv, NEW g \in Llc, NEW b \in Block, HandleUpgradeRep(g, b)
    PROVE  ChannelInv'
<1>0. up \in ChannelType /\ down \in ChannelType /\ Carries(up, UpTypes) /\ Carries(down, DownTypes)
  BY TypeParts, ChannelParts DEF CacheType
<1>1. PICK LLC \in LlcType :
        /\ ServeWaiters(g, b, waiters[g][b], LLC, up)
        /\ down' = [down EXCEPT ![g][b] = Tail(@)]
  BY UpgradeRepFacts
<1>2. Carries(up', UpTypes)
  BY <1>0, <1>1, ServeCarries
<1>3. down[g][b] # <<>>
  BY DEF HandleUpgradeRep, Received
<1>4. Carries(down', DownTypes)
  BY <1>0, <1>1, <1>3, TakenCarries
<1>5. QED
  BY <1>2, <1>4, ChannelPartsNext

LEMMA NetResumesCarries ==
    ASSUME TypeOK, ChannelInv, NEW g \in Llc, NetResumes(g)
    PROVE  ChannelInv'
<1>0. /\ up \in ChannelType /\ llc \in LlcType /\ Carries(up, UpTypes) /\ Carries(down, DownTypes)
      /\ HandoverType
  BY TypeParts, ChannelParts DEF CacheType
<1>1. PICK b \in Block : ServeWaiters(g, b, Tail(waiters[g][b]), llc, up)
  BY <1>0, NetTypes DEF NetResumes
<1>2. Carries(up', UpTypes)
  BY <1>0, <1>1, ServeCarries
<1>3. down' = down
  BY DEF NetResumes
<1>4. QED
  BY <1>0, <1>2, <1>3, ChannelPartsNext

LEMMA DirReqCarries ==
    ASSUME TypeOK, ChannelInv, NEW g \in Llc, NEW b \in Block, NEW type, NEW new \in CState,
           NEW reply \in GONE \cup {"WB_REP"}, NEW checks,
           HandleDirReq(g, b, type, new, reply, checks)
    PROVE  ChannelInv'
<1>0. up \in ChannelType /\ down \in ChannelType /\ Carries(up, UpTypes) /\ Carries(down, DownTypes)
  BY TypeParts, ChannelParts DEF CacheType
<1>1. /\ down[g][b] # <<>> /\ down' = [down EXCEPT ![g][b] = Tail(@)]
      /\ up' = up \/ \E m \in Message : m.type = reply /\ up' = Sent(up, g, b, m)
  <2>1. \A m \in Message : Yields(g, b, new, reply, checks, m) => m.type = reply /\ up' = Sent(up, g, b, m)
    BY DEF Yields
  <2>2. /\ down[g][b] # <<>> /\ down' = [down EXCEPT ![g][b] = Tail(@)]
        /\ \/ up' = up
           \/ \E m \in Message : m.type = reply /\ up' = Sent(up, g, b, m)
           \/ \E m \in Message : Yields(g, b, new, reply, checks, m)
    BY DirReqFacts
  <2>3. QED
    BY <2>1, <2>2
<1>2. Carries(up', UpTypes)
  <2>1. reply \in UpTypes
    BY DEF UpTypes
  <2>2. \A m \in Message : m.type = reply => Carries(Sent(up, g, b, m), UpTypes)
    BY <1>0, <2>1, SentCarries
  <2>3. QED
    BY <1>0, <1>1, <2>2
<1>3. Carries(down', DownTypes)
  BY <1>0, <1>1, TakenCarries
<1>4. QED
  BY <1>2, <1>3, ChannelPartsNext

LEMMA DirRequestsCarry ==
    ASSUME TypeOK, ChannelInv, NEW g \in Llc, NEW b \in Block,
           HandleInvReq(g, b) \/ HandleFlushReq(g, b) \/ HandleWbReq(g, b)
    PROVE  ChannelInv'
<1>1. "INVALID" \in CState /\ "SHARED" \in CState /\ "INV_REP" \in GONE \cup {"WB_REP"}
      /\ "FLUSH_REP" \in GONE \cup {"WB_REP"} /\ "WB_REP" \in GONE \cup {"WB_REP"}
  BY DEF CState, GONE
<1>2. CASE HandleInvReq(g, b)
  <2>1. PICK P : HandleDirReq(g, b, "INV_REQ", "INVALID", "INV_REP", {<<"lost", P>>})
    BY <1>2 DEF HandleInvReq
  <2>2. QED
    BY <1>1, <2>1, DirReqCarries
<1>3. CASE HandleFlushReq(g, b)
  BY <1>1, <1>3, DirReqCarries DEF HandleFlushReq
<1>4. CASE HandleWbReq(g, b)
  BY <1>1, <1>4, DirReqCarries DEF HandleWbReq
<1>5. QED
  BY <1>2, <1>3, <1>4

(* The directory takes a message and updates its entry.                    *)
LEMMA DirReceiveKeeps ==
    ASSUME TypeOK, HandoverInv, ChannelInv, NEW g \in Llc, NEW b \in Block, DirReceive(g, b)
    PROVE  TypeOK' /\ HandoverInv' /\ ChannelInv'
<1>0. /\ CacheType /\ HandoverType /\ dir \in DirType /\ dramDirect \in BOOLEAN /\ failed \subseteq Labels
      /\ up \in ChannelType /\ Carries(up, UpTypes) /\ Carries(down, DownTypes)
  BY TypeParts, ChannelParts DEF CacheType
<1>1. /\ up[g][b] # <<>>
      /\ up' = [up EXCEPT ![g][b] = Tail(@)]
      /\ dir' = [dir EXCEPT ![b] = EntryAfter(dir[b], g, Head(up[g][b]))]
      /\ dram' = IF Head(up[g][b]).type \in {"FLUSH_REP", "WB_REP"}
                 THEN [dram EXCEPT ![b] = Head(up[g][b]).cur] ELSE dram
      /\ UNCHANGED <<l1, llc, lock, waiters, user, net, userSem, netSem, down, failed, dramDirect>>
  BY ReceiveFacts
<1>2. /\ up' \in ChannelType /\ Carries(up', UpTypes)
      /\ Head(up[g][b]) \in Message /\ Head(up[g][b]).type \in UpTypes
  BY <1>0, <1>1, TakenFacts, TakenCarries
<1>3. PICK m \in Message : m = Head(up[g][b]) /\ m.type \in UpTypes
  BY <1>2
<1>4. dram' \in [Block -> BOOLEAN]
  <2>1. m.cur \in BOOLEAN /\ dram \in [Block -> BOOLEAN]
    BY <1>0 DEF Message, CacheType
  <2>2. QED
    BY <1>1, <1>3, <2>1
<1>5. PICK d \in DirEntry : d = dir[b]
  BY <1>0, DirEntryFacts
<1>6. EntryAfter(d, g, m) \in DirEntry
  BY <1>3, EntryFacts DEF EntryChanged
<1>7. dir' \in DirType
  <2>1. PICK e \in DirEntry : e = EntryAfter(d, g, m)
    BY <1>6
  <2>2. dir' = [dir EXCEPT ![b] = e] /\ dir \in [Block -> DirEntry]
    BY <1>0, <1>1, <1>3, <1>5, <2>1, DirEntryFacts
  <2>3. dir' \in [Block -> DirEntry]
    BY <2>2
  <2>4. QED
    BY <2>3, DirEntryFacts
<1>8. HandoverType' /\ HandoverInv'
  BY <1>0, <1>1, HandoverSame
<1>9. ChannelInv'
  BY <1>0, <1>1, <1>2, ChannelPartsNext
<1>10. CacheType'
  BY <1>0, <1>1, <1>2, <1>4 DEF CacheType
<1>11. QED
  BY <1>0, <1>1, <1>7, <1>8, <1>9, <1>10, TypePartsNext

LEMMA DirForwardKeeps ==
    ASSUME TypeOK, HandoverInv, ChannelInv, NEW b \in Block, DirForward(b)
    PROVE  TypeOK' /\ HandoverInv' /\ ChannelInv'
<1>0. /\ CacheType /\ HandoverType /\ dir \in DirType /\ dramDirect \in BOOLEAN /\ failed \subseteq Labels
      /\ down \in ChannelType /\ Carries(up, UpTypes) /\ Carries(down, DownTypes)
  BY TypeParts, ChannelParts DEF CacheType
<1>1. PICK type \in FWD :
        /\ dir' = [dir EXCEPT ![b].sent = TRUE]
        /\ down' = [g \in Llc |-> IF g \in Conflicting(dir[b])
                                  THEN [down[g] EXCEPT ![b] = Append(@, Msg(type, FALSE))]
                                  ELSE down[g]]
        /\ UNCHANGED <<l1, llc, dram, lock, waiters, user, net, userSem, netSem, up, failed, dramDirect>>
  <2>1. PICK P \in BOOLEAN, Q \in BOOLEAN : P = (~dir[b].owned) /\ Q = (Head(dir[b].queue).type = "SH_REQ")
    OBVIOUS
  <2>2. PICK type : type = CASE P -> "INV_REQ" [] Q -> "WB_REQ" [] OTHER -> "FLUSH_REQ"
    OBVIOUS
  <2>3. type \in FWD
    BY <2>2 DEF FWD
  <2>4. type = CASE ~dir[b].owned -> "INV_REQ"
                 [] Head(dir[b].queue).type = "SH_REQ" -> "WB_REQ"
                 [] OTHER -> "FLUSH_REQ"
    BY <2>1, <2>2
  <2>5. QED
    BY <2>3, <2>4 DEF DirForward
<1>2. PICK m \in Message : m = Msg(type, FALSE) /\ m.type = type
  BY MsgFacts
<1>3. ASSUME NEW g \in Llc
      PROVE  /\ down'[g] \in [Block -> Seq(Message)]
             /\ \A x \in Block : \A i \in DOMAIN down'[g][x] : down'[g][x][i].type \in DownTypes
  <2>0. /\ down[g] \in [Block -> Seq(Message)] /\ down[g][b] \in Seq(Message)
        /\ \A x \in Block : \A i \in DOMAIN down[g][x] : down[g][x][i].type \in DownTypes
    BY <1>0 DEF ChannelType, Carries
  <2>1. PICK s \in Seq(Message) : s = Append(down[g][b], m)
    BY <2>0, AppendFacts
  <2>2. \A i \in DOMAIN s : s[i].type \in DownTypes
    <3>1. m.type \in DownTypes
      BY <1>2 DEF DownTypes
    <3>2. QED
      BY <2>0, <2>1, <3>1, AppendCarries
  <2>3. down'[g] = down[g] \/ down'[g] = [down[g] EXCEPT ![b] = s]
    BY <1>1, <1>2, <2>1
  <2>4. CASE down'[g] = down[g]
    BY <2>0, <2>4
  <2>5. CASE down'[g] = [down[g] EXCEPT ![b] = s]
    BY <2>0, <2>2, <2>5
  <2>6. QED
    BY <2>3, <2>4, <2>5
<1>4. down' = [g \in Llc |-> down'[g]]
  BY <1>1
<1>5. down' \in ChannelType
  BY <1>3, <1>4 DEF ChannelType
<1>6. Carries(down', DownTypes)
  BY <1>3 DEF Carries
<1>7. dir' \in DirType
  <2>1. PICK e \in DirEntry : e = [dir[b] EXCEPT !.sent = TRUE]
    BY <1>0, DirEntryFacts
  <2>2. dir' = [dir EXCEPT ![b] = e] /\ dir \in [Block -> DirEntry]
    BY <1>0, <1>1, <2>1, DirEntryFacts
  <2>3. dir' \in [Block -> DirEntry]
    BY <2>2
  <2>4. QED
    BY <2>3, DirEntryFacts
<1>8. HandoverType' /\ HandoverInv'
  BY <1>0, <1>1, HandoverSame
<1>9. ChannelInv' /\ CacheType'
  BY <1>0, <1>1, <1>5, <1>6, ChannelPartsNext DEF CacheType
<1>10. QED
  BY <1>0, <1>1, <1>7, <1>8, <1>9, TypePartsNext

(* The answer to the first request of a block.                             *)
Reply(d, exclusive, cur) ==
    Msg(IF Head(d.queue).type = "UPGRADE_REQ" THEN "UPGRADE_REP" ELSE IF exclusive THEN "EX_REP" ELSE "SH_REP",
        cur /\ ~(Head(d.queue).type = "UPGRADE_REQ" /\ Head(d.queue).from \in d.sharers))

LEMMA ReplyFacts ==
    ASSUME TypeOK, NEW b \in Block, DirReply(b)
    PROVE  /\ dir[b].queue # <<>> /\ Conflicting(dir[b]) = {} /\ Head(dir[b].queue) \in Request
           /\ UNCHANGED <<l1, llc, dram, lock, waiters, user, net, userSem, netSem, up, failed, dramDirect>>
           /\ \E exclusive \in BOOLEAN :
                /\ Head(dir[b].queue).type # "SH_REQ" => exclusive
                /\ Head(dir[b].queue).type = "SH_REQ" /\ exclusive => dir[b].sharers = {}
                /\ dir' = [dir EXCEPT ![b] = [sharers |-> dir[b].sharers \cup {Head(dir[b].queue).from},
                                             owned |-> exclusive, queue |-> Tail(dir[b].queue), sent |-> FALSE]]
                /\ Reply(dir[b], exclusive, dram[b]) \in Message
                /\ Reply(dir[b], exclusive, dram[b]).type \in REP
                /\ down' = Sent(down, Head(dir[b].queue).from, b, Reply(dir[b], exclusive, dram[b]))
<1>1. PICK d \in DirEntry : d = dir[b]
  BY TypeParts, DirEntryFacts
<1>2. /\ d.queue # <<>> /\ Conflicting(d) = {}
      /\ UNCHANGED <<l1, llc, dram, lock, waiters, user, net, userSem, netSem, up, failed, dramDirect>>
  BY <1>1 DEF DirReply
<1>3. PICK r \in Request : r = Head(d.queue)
  BY <1>2, TailFacts, DirEntryFacts
<1>4. r.type \in REQ
  BY DEF Request
<1>5. PICK exclusive \in (IF r.type # "SH_REQ" THEN {TRUE} ELSE IF d.sharers = {} THEN BOOLEAN ELSE {FALSE}) :
        /\ dir' = [dir EXCEPT ![b] = [sharers |-> d.sharers \cup {r.from}, owned |-> exclusive,
                                     queue |-> Tail(d.queue), sent |-> FALSE]]
        /\ down' = Sent(down, r.from, b,
                        Msg(CASE r.type = "UPGRADE_REQ" -> "UPGRADE_REP"
                              [] exclusive /\ r.type # "UPGRADE_REQ" -> "EX_REP"
                              [] ~exclusive -> "SH_REP",
                            dram[b] /\ ~(r.type = "UPGRADE_REQ" /\ r.from \in d.sharers)))
  BY <1>1, <1>3 DEF DirReply
<1>6. /\ exclusive \in BOOLEAN /\ (r.type # "SH_REQ" => exclusive)
      /\ (r.type = "SH_REQ" /\ exclusive => d.sharers = {})
  <2>1. CASE r.type # "SH_REQ"
    BY <1>5, <2>1
  <2>2. CASE r.type = "SH_REQ"
    BY <1>5, <2>2
  <2>3. QED
    BY <2>1, <2>2
<1>7. PICK t : t = CASE r.type = "UPGRADE_REQ" -> "UPGRADE_REP"
                     [] exclusive /\ r.type # "UPGRADE_REQ" -> "EX_REP"
                     [] ~exclusive -> "SH_REP"
  OBVIOUS
<1>8. t = (IF r.type = "UPGRADE_REQ" THEN "UPGRADE_REP" ELSE IF exclusive THEN "EX_REP" ELSE "SH_REP") /\ t \in REP
  <2>1. CASE r.type = "UPGRADE_REQ"
    <3>1. exclusive
      BY <1>6, <2>1
    <3>2. QED
      BY <1>7, <2>1, <3>1 DEF REP
  <2>2. CASE r.type # "UPGRADE_REQ" /\ exclusive
    BY <1>7, <2>2 DEF REP
  <2>3. CASE r.type # "UPGRADE_REQ" /\ ~exclusive
    BY <1>7, <2>3 DEF REP
  <2>4. QED
    BY <2>1, <2>2, <2>3
<1>9. PICK k \in BOOLEAN : k = (dram[b] /\ ~(r.type = "UPGRADE_REQ" /\ r.from \in d.sharers))
  OBVIOUS
<1>10. PICK m \in Message : m = Msg(t, k) /\ m.type = t
  BY <1>8, MsgFacts
<1>11. m = Reply(d, exclusive, dram[b])
  BY <1>3, <1>8, <1>9, <1>10 DEF Reply
<1>12. down' = Sent(down, r.from, b, m)
  BY <1>5, <1>7, <1>9, <1>10
<1>13. QED
  BY <1>1, <1>2, <1>3, <1>5, <1>6, <1>8, <1>10, <1>11, <1>12

LEMMA DirReplyKeeps ==
    ASSUME TypeOK, HandoverInv, ChannelInv, NEW b \in Block, DirReply(b)
    PROVE  TypeOK' /\ HandoverInv' /\ ChannelInv'
<1>0. /\ CacheType /\ HandoverType /\ dir \in DirType /\ dramDirect \in BOOLEAN /\ failed \subseteq Labels
      /\ down \in ChannelType /\ Carries(up, UpTypes) /\ Carries(down, DownTypes)
  BY TypeParts, ChannelParts DEF CacheType
<1>1. PICK r \in Request : r = Head(dir[b].queue)
  BY ReplyFacts
<1>2. PICK exclusive \in BOOLEAN, m \in Message :
        /\ dir' = [dir EXCEPT ![b] = [sharers |-> dir[b].sharers \cup {r.from}, owned |-> exclusive,
                                     queue |-> Tail(dir[b].queue), sent |-> FALSE]]
        /\ m.type \in REP /\ down' = Sent(down, r.from, b, m)
  BY <1>1, ReplyFacts
<1>3. dir[b].queue # <<>> /\ UNCHANGED <<l1, llc, dram, lock, waiters, user, net, userSem, netSem, up, failed, dramDirect>>
  BY ReplyFacts
<1>4. r.from \in Llc
  BY DEF Request
<1>5. down' \in ChannelType /\ Carries(down', DownTypes)
  <2>1. m.type \in DownTypes
    BY <1>2 DEF DownTypes
  <2>2. QED
    BY <1>0, <1>2, <1>4, <2>1, SentFacts, SentCarries
<1>6. dir' \in DirType
  <2>1. PICK S \in SUBSET Llc, q \in Seq(Request) : S = dir[b].sharers \cup {r.from} /\ q = Tail(dir[b].queue)
    <3>1. dir[b].queue \in Seq(Request) /\ dir[b].sharers \in SUBSET Llc
      BY <1>0, DirEntryFacts
    <3>2. QED
      BY <1>3, <1>4, <3>1, TailFacts
  <2>2. PICK e \in DirEntry : e = [sharers |-> S, owned |-> exclusive, queue |-> q, sent |-> FALSE]
    BY DEF DirEntry
  <2>3. dir' = [dir EXCEPT ![b] = e] /\ dir \in [Block -> DirEntry]
    BY <1>0, <1>2, <2>1, <2>2, DirEntryFacts
  <2>4. dir' \in [Block -> DirEntry]
    BY <2>3
  <2>5. QED
    BY <2>4, DirEntryFacts
<1>7. HandoverType' /\ HandoverInv'
  BY <1>0, <1>3, HandoverSame
<1>8. ChannelInv' /\ CacheType'
  BY <1>0, <1>3, <1>5, ChannelPartsNext DEF CacheType
<1>9. QED
  BY <1>0, <1>3, <1>6, <1>7, <1>8, TypePartsNext
-----------------------------------------------------------------------------
(* The invariant of this module: while the program runs, messages go the   *)
(* right way and the hand-over of the set lock is in order.                *)
HandoverIInv == TypeOK /\ (Running => ChannelInv /\ HandoverInv)

LEMMA UserStepKeeps ==
    ASSUME TypeOK, HandoverInv, ChannelInv, NEW c \in Core, UserStep(c)
    PROVE  TypeOK' /\ HandoverInv' /\ ChannelInv'
<1>0. /\ CacheType /\ HandoverType
      /\ \A b \in Block : \A op \in Op : Hit(c, op, b) => Accessed(c, op, b, l1, llc, dram)
  <2>1. CacheType /\ HandoverType
    BY TypeParts
  <2>2. ASSUME NEW op \in Op, NEW b \in Block, Hit(c, op, b)
        PROVE  Accessed(c, op, b, l1, llc, dram)
    BY <2>1, <2>2, AccessFacts DEF Hit, Complete, CacheType
  <2>3. QED
    BY <2>1, <2>2
<1>1. ASSUME NEW op \in Op, NEW b \in Block, Hit(c, op, b)
      PROVE  TypeOK' /\ HandoverInv' /\ ChannelInv'
  BY <1>0, <1>1, HitKeeps, AccessedCarries
<1>2. ASSUME NEW op \in Op, NEW b \in Block, Miss(c, op, b)
      PROVE  TypeOK' /\ HandoverInv' /\ ChannelInv'
  <2>1. up' = up /\ down' = down
    BY <1>2 DEF Miss
  <2>2. QED
    BY <1>2, <2>1, MissKeeps DEF ChannelInv
<1>3. CASE MissHitsLlc(c)
  <2>1. PICK b \in Block, op \in Op : b = user[c].block /\ op = user[c].op
    <3>1. user[c].pc = "miss"
      BY <1>3 DEF MissHitsLlc, HasStackLock
    <3>2. QED
      BY <1>0, <3>1, RequestTypes
  <2>2. PICK L1 \in L1Type : L1 = OwnInvalidated(c)
    BY <1>0, <2>1, OwnInvalidatedFacts
  <2>3. PICK M \in L1Type, LLC \in LlcType :
          M = L1AfterRequest(c, op, b, L1) /\ LLC = LlcAfterRequest(c, op, b, L1)
    BY L1AfterRequestFacts, LlcAfterRequestFacts
  <2>4. FillAndComplete(c, op, b, M, LLC, dram, MissChecks(c)) /\ dram \in [Block -> BOOLEAN]
    BY <1>0, <1>3, <2>1, <2>2, <2>3 DEF MissHitsLlc, CacheType
  <2>5. QED
    BY <1>3, <2>4, FillCarries, MissHitsLlcKeeps
<1>4. CASE MissGoesToDram(c)
  <2>1. TypeOK' /\ HandoverInv' /\ ChannelInv'
    BY <1>4, MissGoesToDramKeeps
  <2>2. QED
    BY <2>1
<1>5. CASE MissWaits(c)
  BY <1>5, MissWaitsKeeps, MissWaitsCarries
<1>6. CASE Resume(c)
  <2>1. PICK b \in Block, op \in Op : b = user[c].block /\ op = user[c].op
    <3>1. user[c].pc = "wait"
      BY <1>6 DEF Resume
    <3>2. QED
      BY <1>0, <3>1, RequestTypes
  <2>2. PICK M \in L1Type, LLC \in LlcType :
          M = L1AfterRequest(c, op, b, l1) /\ LLC = LlcAfterRequest(c, op, b, l1)
    BY <1>0, L1AfterRequestFacts, LlcAfterRequestFacts DEF CacheType
  <2>3. FillAndComplete(c, op, b, M, LLC, dram, RequestChecks(c)) /\ dram \in [Block -> BOOLEAN]
    BY <1>0, <1>6, <2>1, <2>2 DEF Resume, CacheType
  <2>4. QED
    BY <1>6, <2>3, FillCarries, ResumeKeeps
<1>7. CASE Unlock(c)
  <2>1. PICK b \in Block : b = user[c].block
    BY <1>7 DEF Unlock, HandoverInv, UserInv
  <2>2. PICK op \in Op : op = "WRITE"
    BY DEF Op
  <2>3. Accessed(c, op, b, l1, llc, dram)
    BY <1>0, <1>7, <2>1, <2>2, AccessFacts DEF Unlock, Complete, CacheType
  <2>4. QED
    BY <1>7, <2>3, AccessedCarries, UnlockKeeps
<1>8. QED
  BY <1>1, <1>2, <1>3, <1>4, <1>5, <1>6, <1>7 DEF UserStep

LEMMA NetStepKeeps ==
    ASSUME TypeOK, HandoverInv, ChannelInv, NEW g \in Llc, NetStep(g)
    PROVE  TypeOK' /\ HandoverInv' /\ ChannelInv'
<1>1. CASE NetResumes(g)
  BY <1>1, NetResumesKeeps, NetResumesCarries
<1>2. ASSUME NEW b \in Block, NEW type \in {"EX_REP", "SH_REP"}, HandleDataRep(g, b, type)
      PROVE  TypeOK' /\ HandoverInv' /\ ChannelInv'
  BY <1>2, HandleDataRepKeeps, HandleDataRepCarries
<1>3. ASSUME NEW b \in Block, HandleUpgradeRep(g, b)
      PROVE  TypeOK' /\ HandoverInv' /\ ChannelInv'
  BY <1>3, HandleUpgradeRepKeeps, HandleUpgradeRepCarries
<1>4. ASSUME NEW b \in Block, HandleInvReq(g, b) \/ HandleFlushReq(g, b) \/ HandleWbReq(g, b)
      PROVE  TypeOK' /\ HandoverInv' /\ ChannelInv'
  BY <1>4, DirRequestsKeep, DirRequestsCarry
<1>5. QED
  BY <1>1, <1>2, <1>3, <1>4 DEF NetStep, HandleMsgFromDramDirectory

LEMMA DirStepKeeps ==
    ASSUME TypeOK, HandoverInv, ChannelInv, NEW b \in Block, DirStep(b)
    PROVE  TypeOK' /\ HandoverInv' /\ ChannelInv'
  BY DirForwardKeeps, DirReplyKeeps, DirReceiveKeeps DEF DirStep

(* Every action is one of a program that has not stopped.                  *)
LEMMA OnlyRunning ==
    /\ \A c \in Core : UserStep(c) => Running
    /\ \A g \in Llc : NetStep(g) => Running
    /\ \A b \in Block : DirStep(b) => Running
<1>1. ASSUME NEW c \in Core, UserStep(c)
      PROVE  Running
  BY <1>1 DEF UserStep, Hit, Miss, MissHitsLlc, MissGoesToDram, MissWaits, HasStackLock, Resume, Unlock
<1>2. ASSUME NEW g \in Llc, NetStep(g)
      PROVE  Running
  <2>1. ASSUME NEW b \in Block, NEW type, NEW new, NEW reply, NEW checks,
               HandleDirReq(g, b, type, new, reply, checks)
        PROVE  Running
    BY <2>1 DEF HandleDirReq, Received
  <2>2. ASSUME NEW b \in Block, HandleInvReq(g, b) \/ HandleFlushReq(g, b) \/ HandleWbReq(g, b)
        PROVE  Running
    BY <2>1, <2>2 DEF HandleInvReq, HandleFlushReq, HandleWbReq
  <2>3. ASSUME NEW b \in Block, HandleUpgradeRep(g, b) \/ \E type \in {"EX_REP", "SH_REP"} : HandleDataRep(g, b, type)
        PROVE  Running
    BY <2>3 DEF HandleUpgradeRep, HandleDataRep, Received
  <2>4. CASE NetResumes(g)
    BY <2>4 DEF NetResumes
  <2>5. QED
    BY <1>2, <2>2, <2>3, <2>4 DEF NetStep, HandleMsgFromDramDirectory
<1>3. ASSUME NEW b \in Block, DirStep(b)
      PROVE  Running
  BY <1>3 DEF DirStep, DirForward, DirReply, DirReceive
<1>4. QED
  BY <1>1, <1>2, <1>3

LEMMA HandoverStep ==
    ASSUME HandoverIInv, [Next]_vars
    PROVE  HandoverIInv'
<1>1. ASSUME NEW c \in Core, UserStep(c)
      PROVE  HandoverIInv'
  BY <1>1, OnlyRunning, UserStepKeeps DEF HandoverIInv
<1>2. ASSUME NEW g \in Llc, NetStep(g)
      PROVE  HandoverIInv'
  BY <1>2, OnlyRunning, NetStepKeeps DEF HandoverIInv
<1>3. ASSUME NEW b \in Block, DirStep(b)
      PROVE  HandoverIInv'
  BY <1>3, OnlyRunning, DirStepKeeps DEF HandoverIInv
<1>4. CASE UNCHANGED vars
  <2>1. TypeOK'
    BY <1>4 DEF HandoverIInv, vars, TypeOK
  <2>2. Running' <=> Running
    BY <1>4 DEF Running, vars
  <2>3. Running => ChannelInv'
    BY <1>4 DEF HandoverIInv, vars, ChannelInv
  <2>4. Running => HandoverInv'
    <3>1. HandoverType /\ UNCHANGED <<lock, waiters, user, net, userSem, netSem>>
      BY <1>4, TypeParts DEF HandoverIInv, vars
    <3>2. QED
      BY <3>1, HandoverSame DEF HandoverIInv
  <2>5. QED
    BY <2>1, <2>2, <2>3, <2>4 DEF HandoverIInv
<1>5. QED
  BY <1>1, <1>2, <1>3, <1>4 DEF Next, Stopped

LEMMA HandoverStart == Init => HandoverIInv
<1> SUFFICES ASSUME Init
             PROVE  HandoverIInv
  OBVIOUS
<1>0. Absent \in Line /\ <<>> \in Seq(Message) /\ <<>> \in Seq(Waiter) /\ <<>> \in Seq(Request)
      /\ \A i : i \notin DOMAIN <<>>
  BY LineFacts
<1>1. CacheType
  BY <1>0 DEF Init, CacheType, L1Type, LlcType, ChannelType
<1>2. HandoverType
  BY <1>0 DEF Init, HandoverType, LockType, Free, WaiterType, UserType, Idle, Op
<1>3. dir \in DirType
  <2>1. PICK e \in DirEntry : e = [sharers |-> {}, owned |-> FALSE, queue |-> <<>>, sent |-> FALSE]
    BY <1>0 DEF DirEntry
  <2>2. dir = [b \in Block |-> e]
    BY <2>1 DEF Init
  <2>3. QED
    BY <2>2, DirEntryFacts
<1>4. TypeOK
  BY <1>1, <1>2, <1>3, CoresAssumption, TypeParts DEF Init
<1>5. ChannelInv
  BY <1>0 DEF Init, ChannelInv
<1>6. HandoverInv
  <2>0. /\ \A d \in Core : Master(d) \in Llc
        /\ \A h \in Llc : L1sOf(h) \subseteq Core
    BY MasterFacts
  <2>1. /\ \A c \in Core : user[c] = Idle /\ Idle.pc = "idle" /\ userSem[c] = 0 /\ netSem[c] = 0
        /\ \A g \in Llc : net[g] = NoBlock /\ lock[g].excl = FALSE /\ lock[g].readers = {}
        /\ \A g \in Llc, b \in Block : waiters[g][b] = <<>>
    BY DEF Init, Free, Idle
  <2>2. LockInv
    BY <2>0, <2>1 DEF LockInv
  <2>3. SemInv
    BY <2>0, <2>1 DEF SemInv
  <2>4. WaiterInv
    BY <1>0, <2>1 DEF WaiterInv
  <2>5. UserInv
    BY <2>0, <2>1 DEF UserInv
  <2>6. QED
    BY <2>2, <2>3, <2>4, <2>5 DEF HandoverInv
<1>7. QED
  BY <1>4, <1>5, <1>6 DEF HandoverIInv

(* The set lock, the semaphores and the queues of waiters fit together at  *)
(* every step of the user threads, which queue, wait and wake up           *)
(* (processMemOpFromCore, initiateDirectoryAccess, waitForNetworkThread),  *)
(* and of the network thread, which serves them one by one.                *)
THEOREM HandoverInvariant == Spec => []HandoverIInv
<1>1. QED
  BY HandoverStart, HandoverStep, PTL DEF Spec

(* Every variable keeps its type.                                          *)
THEOREM CacheTypeCorrect == Spec => []TypeOK
<1>1. HandoverIInv => TypeOK
  BY DEF HandoverIInv
<1>2. QED
  BY <1>1, HandoverInvariant, PTL

(* The set lock has one owner through the hand-over from the network       *)
(* thread to the user thread it wakes (acquireStackLock,                   *)
(* wakeUpUserThread and waitForUserThread).                                *)
THEOREM LockHandedOver == Spec => []HandoffOwned
<1>1. ASSUME HandoverIInv
      PROVE  HandoffOwned
  <2> SUFFICES ASSUME Running
               PROVE  HandoffOwned!2
    BY DEF HandoffOwned
  <2>0. HandoverType /\ HandoverInv /\ NoBlock \notin Block
    BY <1>1, TypeParts, CoresAssumption DEF HandoverIInv
  <2>1. ASSUME NEW c \in Core, userSem[c] > 0
        PROVE  /\ user[c].pc = "wait" /\ lock[Master(c)] = Held
               /\ net[Master(c)] = user[c].block /\ Head(waiters[Master(c)][user[c].block]).core = c
    <3>1. PICK g \in Llc : g = Master(c)
      BY MasterFacts
    <3>2. userSem[c] = 1 /\ \A h \in Llc : net[h] = NoBlock \/ net[h] \in Block
      BY <2>0, <2>1, NetTypes
    <3>3. /\ user[c].pc = "wait" /\ user[c].block = net[g] /\ net[g] \in Block
          /\ 1 \in DOMAIN waiters[g][net[g]] /\ Turn(g) = c
          /\ lock[g].excl /\ lock[g].readers = {}
      BY <2>0, <3>1, <3>2, SignalledFacts
    <3>4. lock[g] = Held
      BY <2>0, <3>3 DEF HandoverType, LockType, Held
    <3>5. Head(waiters[g][net[g]]) = waiters[g][net[g]][1]
      <4>1. waiters[g][net[g]] \in Seq(Waiter)
        BY <2>0, <3>3 DEF HandoverType, WaiterType
      <4>2. waiters[g][net[g]] # <<>>
        BY <3>3, <4>1, EmptySeq
      <4>3. QED
        BY <4>1, <4>2, TailFacts
    <3>6. QED
      BY <3>1, <3>3, <3>4, <3>5 DEF Turn
  <2>2. ASSUME NEW c \in Core, user[c].pc = "wait"
        PROVE  \E i \in DOMAIN waiters[Master(c)][user[c].block] : waiters[Master(c)][user[c].block][i].core = c
    BY <2>0, <2>2 DEF HandoverInv, UserInv
  <2>3. ASSUME NEW g \in Llc, lock[g].excl
        PROVE  \E c \in L1sOf(g) : userSem[c] > 0
    <3>1. net[g] # NoBlock /\ userSem[Turn(g)] = 1
      BY <2>0, <2>3 DEF HandoverInv, LockInv
    <3>2. net[g] \in Block
      BY <2>0, <3>1, NetTypes
    <3>3. Turn(g) \in L1sOf(g)
      BY <2>0, <3>2, TurnFacts
    <3>4. QED
      BY <3>1, <3>3
  <2>4. \A g \in Llc : lock[g].readers = {c \in L1sOf(g) : user[c].pc = "locked"}
    BY <2>0 DEF HandoverInv, LockInv
  <2>5. QED
    BY <2>1, <2>2, <2>3, <2>4
<1>2. QED
  BY <1>1, HandoverInvariant, PTL

-----------------------------------------------------------------------------

(***************************************************************************)
(* The link between the LLCs and the directory.                            *)
(***************************************************************************)

(* What the predicates on message queues say of a queue with one more      *)
(* message.                                                                *)
LEMMA HasAppend ==
    ASSUME NEW s \in Seq(Message), NEW m \in Message, NEW t \in Seq(Message), t = Append(s, m)
    PROVE  /\ \A T : Has(t, T) <=> Has(s, T) \/ m.type \in T
           /\ \A T : AtMostOne(t, T) <=> AtMostOne(s, T) /\ (m.type \in T => ~Has(s, T))
<1>1. PICK n \in Nat : n = Len(s)
  BY AppendFacts
<1>2. /\ DOMAIN s = 1..n /\ DOMAIN t = 1..(n + 1)
      /\ \A i \in 1..n : t[i] = s[i]
      /\ t[n + 1] = m
  BY <1>1, AppendFacts
<1>3. ASSUME NEW T
      PROVE  Has(t, T) <=> Has(s, T) \/ m.type \in T
  BY <1>2 DEF Has
<1>4. ASSUME NEW T
      PROVE  AtMostOne(t, T) <=> AtMostOne(s, T) /\ (m.type \in T => ~Has(s, T))
  BY <1>2 DEF Has, AtMostOne
<1>5. QED
  BY <1>3, <1>4

LEMMA OrderAppend ==
    ASSUME NEW s \in Seq(Message), NEW m \in Message, NEW t \in Seq(Message), t = Append(s, m)
    PROVE  \A T1, T2 : T1 \cap T2 = {} =>
               (Before(t, T1, T2) <=> Before(s, T1, T2) /\ (m.type \in T1 => ~Has(s, T2)))
<1>1. PICK n \in Nat : n = Len(s)
  BY AppendFacts
<1>2. /\ DOMAIN s = 1..n /\ DOMAIN t = 1..(n + 1)
      /\ \A i \in 1..n : t[i] = s[i]
      /\ t[n + 1] = m
  BY <1>1, AppendFacts
<1>3. ASSUME NEW T1, NEW T2, T1 \cap T2 = {}
      PROVE  Before(t, T1, T2) <=> Before(s, T1, T2) /\ (m.type \in T1 => ~Has(s, T2))
  <2>1. m.type \in T1 => m.type \notin T2
    BY <1>3
  <2>2. QED
    BY <1>2, <2>1 DEF Has, Before
<1>4. QED
  BY <1>3

LEMMA FreshAppend ==
    ASSUME NEW s \in Seq(Message), NEW m \in Message, NEW t \in Seq(Message), t = Append(s, m)
    PROVE  /\ \A T : Fresh(t, T) <=> \/ m.type \in T /\ m.type \in FWD
                                     \/ m.type \notin REP /\ Fresh(s, T)
           /\ FreshOnce(t) <=> \/ m.type \in REP
                               \/ FreshOnce(s) /\ (m.type \in FWD => ~Fresh(s, FWD))
<1>1. PICK n \in Nat : n = Len(s)
  BY AppendFacts
<1>2. /\ DOMAIN s = 1..n /\ DOMAIN t = 1..(n + 1)
      /\ \A i \in 1..n : t[i] = s[i]
      /\ t[n + 1] = m
  BY <1>1, AppendFacts
<1>3. /\ \A i \in 1..n : Unanswered(t, i) <=> Unanswered(s, i) /\ m.type \notin REP
      /\ Unanswered(t, n + 1) <=> m.type \in FWD
  BY <1>2 DEF Unanswered
<1>4. m.type \notin REP \/ m.type \notin FWD
  BY DEF REP, FWD
<1>5. ASSUME NEW T
      PROVE  Fresh(t, T) <=> (m.type \in T /\ m.type \in FWD) \/ (m.type \notin REP /\ Fresh(s, T))
  BY <1>2, <1>3 DEF Fresh
<1>6. Fresh(s, FWD) <=> \E i \in 1..n : Unanswered(s, i)
  BY <1>2 DEF Fresh, Unanswered
<1>7. FreshOnce(t) <=> m.type \in REP \/ (FreshOnce(s) /\ (m.type \in FWD => ~Fresh(s, FWD)))
  <2>1. CASE m.type \in REP
    BY <1>2, <1>3, <1>4, <2>1 DEF FreshOnce
  <2>2. CASE m.type \in FWD
    BY <1>2, <1>3, <1>4, <1>6, <2>2 DEF FreshOnce
  <2>3. CASE m.type \notin REP /\ m.type \notin FWD
    BY <1>2, <1>3, <2>3 DEF FreshOnce
  <2>4. QED
    BY <2>1, <2>2, <2>3
<1>8. QED
  BY <1>5, <1>7

Shifted(s, t, m, n) ==
    /\ DOMAIN s = 1..(n + 1) /\ DOMAIN t = 1..n /\ s[1] = m /\ 1 \in 1..(n + 1)
    /\ \A i \in 1..n : i + 1 \in 1..(n + 1) /\ s[i + 1] = t[i]
    /\ \A i \in 1..(n + 1) : i = 1 \/ (i - 1 \in 1..n /\ i = (i - 1) + 1 /\ s[i] = t[i - 1])

(* A queue s without its first entry m.                                    *)
LEMMA ShiftFacts ==
    ASSUME NEW S, NEW s \in Seq(S), s # <<>>, NEW t \in Seq(S), t = Tail(s), NEW m \in S, m = Head(s)
    PROVE  \E n \in Nat : Shifted(s, t, m, n)
<1>1. PICK n \in Nat : n + 1 = Len(s) /\ n = Len(s) - 1
  <2>1. Len(s) \in Nat /\ Len(s) >= 1
    BY TailFacts
  <2>2. Len(s) - 1 \in Nat /\ (Len(s) - 1) + 1 = Len(s)
    BY <2>1
  <2>3. QED
    BY <2>2
<1>2. /\ DOMAIN s = 1..(n + 1) /\ DOMAIN t = 1..n /\ s[1] = m
      /\ \A i \in 1..n : s[i + 1] = t[i]
  BY <1>1, TailFacts
<1>3. \A i \in 1..n : i + 1 \in 1..(n + 1)
  OBVIOUS
<1>4. ASSUME NEW i \in 1..(n + 1), i # 1
      PROVE  i - 1 \in 1..n /\ i = (i - 1) + 1 /\ s[i] = t[i - 1]
  <2>1. i - 1 \in 1..n /\ i = (i - 1) + 1
    BY <1>4
  <2>2. s[(i - 1) + 1] = t[i - 1]
    BY <1>2, <2>1
  <2>3. QED
    BY <2>1, <2>2
<1>5. QED
  BY <1>2, <1>3, <1>4 DEF Shifted

(* What they say of a queue without its first message m.                   *)
LEMMA HasTail ==
    ASSUME NEW s \in Seq(Message), s # <<>>, NEW t \in Seq(Message), t = Tail(s),
           NEW m \in Message, m = Head(s)
    PROVE  /\ \A T : Has(s, T) <=> Has(t, T) \/ m.type \in T
           /\ \A T : AtMostOne(s, T) <=> AtMostOne(t, T) /\ (m.type \in T => ~Has(t, T))
<1>1. PICK n \in Nat : Shifted(s, t, m, n)
  BY ShiftFacts
<1>2. /\ DOMAIN s = 1..(n + 1) /\ DOMAIN t = 1..n /\ s[1] = m /\ 1 \in 1..(n + 1)
      /\ \A i \in 1..n : i + 1 \in 1..(n + 1) /\ s[i + 1] = t[i]
  BY <1>1 DEF Shifted
<1>3. \A i \in 1..(n + 1) : i = 1 \/ (i - 1 \in 1..n /\ i = (i - 1) + 1 /\ s[i] = t[i - 1])
  BY <1>1 DEF Shifted
<1>4. ASSUME NEW T
      PROVE  Has(s, T) <=> Has(t, T) \/ m.type \in T
  BY <1>2, <1>3 DEF Has
<1>5. ASSUME NEW T
      PROVE  AtMostOne(s, T) <=> AtMostOne(t, T) /\ (m.type \in T => ~Has(t, T))
  <2>1. ASSUME AtMostOne(s, T)
        PROVE  AtMostOne(t, T) /\ (m.type \in T => ~Has(t, T))
    BY <1>2, <2>1 DEF Has, AtMostOne
  <2>2. ASSUME AtMostOne(t, T), m.type \in T => ~Has(t, T)
        PROVE  AtMostOne(s, T)
    <3> SUFFICES ASSUME NEW i \in 1..(n + 1), NEW j \in 1..(n + 1), s[i].type \in T, s[j].type \in T
                 PROVE  i = j
      BY <1>2 DEF AtMostOne
    <3>1. \A k \in 1..n : t[k].type \in T => m.type \notin T
      BY <1>2, <2>2 DEF Has
    <3>2. i = 1 \/ (i - 1 \in 1..n /\ i = (i - 1) + 1 /\ t[i - 1].type \in T)
      BY <1>3
    <3>3. j = 1 \/ (j - 1 \in 1..n /\ j = (j - 1) + 1 /\ t[j - 1].type \in T)
      BY <1>3
    <3>4. \A k, l \in 1..n : t[k].type \in T /\ t[l].type \in T => k = l
      BY <1>2, <2>2 DEF AtMostOne
    <3>5. i = 1 => j = 1
      BY <1>2, <3>1, <3>3
    <3>6. j = 1 => i = 1
      BY <1>2, <3>1, <3>2
    <3>7. CASE i = 1
      BY <3>5, <3>7
    <3>8. CASE i # 1
      <4>1. i - 1 = j - 1
        BY <3>2, <3>3, <3>4, <3>6, <3>8
      <4>2. QED
        BY <3>2, <3>3, <3>6, <3>8, <4>1
    <3>9. QED
      BY <3>7, <3>8
  <2>3. QED
    BY <2>1, <2>2
<1>6. QED
  BY <1>4, <1>5

LEMMA OrderTail ==
    ASSUME NEW s \in Seq(Message), s # <<>>, NEW t \in Seq(Message), t = Tail(s),
           NEW m \in Message, m = Head(s)
    PROVE  \A T1, T2 : T1 \cap T2 = {} =>
               (Before(s, T1, T2) <=> Before(t, T1, T2) /\ (m.type \in T2 => ~Has(t, T1)))
<1>1. PICK n \in Nat : Shifted(s, t, m, n)
  BY ShiftFacts
<1>2. /\ DOMAIN s = 1..(n + 1) /\ DOMAIN t = 1..n /\ s[1] = m /\ 1 \in 1..(n + 1)
      /\ \A i \in 1..n : i + 1 \in 1..(n + 1) /\ s[i + 1] = t[i]
  BY <1>1 DEF Shifted
<1>3. \A i \in 1..(n + 1) : i = 1 \/ (i - 1 \in 1..n /\ i = (i - 1) + 1 /\ s[i] = t[i - 1])
  BY <1>1 DEF Shifted
<1>4. ASSUME NEW T1, NEW T2, T1 \cap T2 = {}
      PROVE  Before(s, T1, T2) <=> Before(t, T1, T2) /\ (m.type \in T2 => ~Has(t, T1))
  <2>0. m.type \in T1 => m.type \notin T2
    BY <1>4
  <2>1. ASSUME Before(s, T1, T2)
        PROVE  Before(t, T1, T2) /\ (m.type \in T2 => ~Has(t, T1))
    BY <1>2, <2>1 DEF Has, Before
  <2>2. ASSUME Before(t, T1, T2), m.type \in T2 => ~Has(t, T1)
        PROVE  Before(s, T1, T2)
    <3> SUFFICES ASSUME NEW i \in 1..(n + 1), NEW j \in 1..(n + 1), s[i].type \in T1, s[j].type \in T2
                 PROVE  i < j
      BY <1>2 DEF Before
    <3>1. \A k \in 1..n : t[k].type \in T1 => m.type \notin T2
      BY <1>2, <2>2 DEF Has
    <3>2. i = 1 \/ (i - 1 \in 1..n /\ i = (i - 1) + 1 /\ t[i - 1].type \in T1)
      BY <1>3
    <3>3. j = 1 \/ (j - 1 \in 1..n /\ j = (j - 1) + 1 /\ t[j - 1].type \in T2)
      BY <1>3
    <3>4. \A k, l \in 1..n : t[k].type \in T1 /\ t[l].type \in T2 => k < l
      BY <1>2, <2>2 DEF Before
    <3>5. j # 1
      BY <1>2, <2>0, <3>1, <3>2
    <3>6. CASE i = 1
      BY <3>5, <3>6
    <3>7. CASE i # 1
      <4>1. i - 1 < j - 1
        BY <3>2, <3>3, <3>4, <3>5, <3>7
      <4>2. QED
        BY <4>1
    <3>8. QED
      BY <3>6, <3>7
  <2>3. QED
    BY <2>1, <2>2
<1>5. QED
  BY <1>4

LEMMA FreshTail ==
    ASSUME NEW s \in Seq(Message), s # <<>>, NEW t \in Seq(Message), t = Tail(s),
           NEW m \in Message, m = Head(s)
    PROVE  /\ \A T : Fresh(s, T) <=> Fresh(t, T) \/ (m.type \in T /\ m.type \in FWD /\ ~Has(t, REP))
           /\ FreshOnce(s) <=> /\ FreshOnce(t)
                               /\ m.type \in FWD /\ ~Has(t, REP) => ~Fresh(t, FWD)
<1>1. PICK n \in Nat : Shifted(s, t, m, n)
  BY ShiftFacts
<1>2. /\ DOMAIN s = 1..(n + 1) /\ DOMAIN t = 1..n /\ s[1] = m /\ 1 \in 1..(n + 1)
      /\ \A i \in 1..n : i + 1 \in 1..(n + 1) /\ s[i + 1] = t[i]
  BY <1>1 DEF Shifted
<1>3. \A i \in 1..(n + 1) : i = 1 \/ (i - 1 \in 1..n /\ i = (i - 1) + 1 /\ s[i] = t[i - 1])
  BY <1>1 DEF Shifted
<1>4. \A i \in 1..n : Unanswered(s, i + 1) <=> Unanswered(t, i)
  <2> TAKE i \in 1..n
  <2>1. s[i + 1] = t[i]
    BY <1>2
  <2>2. ASSUME \A j \in 1..(n + 1) : j > i + 1 => s[j].type \notin REP
        PROVE  \A j \in 1..n : j > i => t[j].type \notin REP
    BY <1>2, <2>2
  <2>3. ASSUME \A j \in 1..n : j > i => t[j].type \notin REP
        PROVE  \A j \in 1..(n + 1) : j > i + 1 => s[j].type \notin REP
    <3> TAKE j \in 1..(n + 1)
    <3> HAVE j > i + 1
    <3>1. j # 1 /\ j - 1 > i
      OBVIOUS
    <3>2. j - 1 \in 1..n /\ s[j] = t[j - 1]
      BY <1>3, <3>1
    <3>3. QED
      BY <2>3, <3>1, <3>2
  <2>4. QED
    BY <1>2, <2>1, <2>2, <2>3 DEF Unanswered
<1>5. Unanswered(s, 1) <=> m.type \in FWD /\ ~Has(t, REP)
  <2>1. ASSUME \A j \in 1..(n + 1) : j > 1 => s[j].type \notin REP
        PROVE  \A j \in 1..n : t[j].type \notin REP
    BY <1>2, <2>1
  <2>2. ASSUME \A j \in 1..n : t[j].type \notin REP
        PROVE  \A j \in 1..(n + 1) : j > 1 => s[j].type \notin REP
    <3> TAKE j \in 1..(n + 1)
    <3> HAVE j > 1
    <3>1. j # 1
      OBVIOUS
    <3>2. j - 1 \in 1..n /\ s[j] = t[j - 1]
      BY <1>3, <3>1
    <3>3. QED
      BY <2>2, <3>2
  <2>3. QED
    BY <1>2, <2>1, <2>2 DEF Unanswered, Has
<1>6. ASSUME NEW T
      PROVE  Fresh(s, T) <=> Fresh(t, T) \/ (m.type \in T /\ m.type \in FWD /\ ~Has(t, REP))
  BY <1>2, <1>3, <1>4, <1>5 DEF Fresh
<1>7. Fresh(t, FWD) <=> \E i \in 1..n : Unanswered(t, i)
  BY <1>2 DEF Fresh, Unanswered
<1>8. FreshOnce(s) <=> FreshOnce(t) /\ (m.type \in FWD /\ ~Has(t, REP) => ~Fresh(t, FWD))
  <2>1. ASSUME FreshOnce(s)
        PROVE  FreshOnce(t) /\ (m.type \in FWD /\ ~Has(t, REP) => ~Fresh(t, FWD))
    <3>1. \A i, j \in 1..n : Unanswered(t, i) /\ Unanswered(t, j) => i = j
      <4> TAKE i, j \in 1..n
      <4> HAVE Unanswered(t, i) /\ Unanswered(t, j)
      <4>1. Unanswered(s, i + 1) /\ Unanswered(s, j + 1) /\ i + 1 \in 1..(n + 1) /\ j + 1 \in 1..(n + 1)
        BY <1>2, <1>4
      <4>2. i + 1 = j + 1
        BY <1>2, <2>1, <4>1 DEF FreshOnce
      <4>3. QED
        BY <4>2
    <3>2. ASSUME NEW i \in 1..n, Unanswered(t, i), Unanswered(s, 1)
          PROVE  FALSE
      <4>1. Unanswered(s, i + 1) /\ i + 1 \in 1..(n + 1)
        BY <1>2, <1>4, <3>2
      <4>2. i + 1 = 1
        BY <1>2, <2>1, <3>2, <4>1 DEF FreshOnce
      <4>3. QED
        BY <4>2
    <3>3. QED
      BY <1>2, <1>5, <1>7, <3>1, <3>2 DEF FreshOnce
  <2>2. ASSUME FreshOnce(t), m.type \in FWD /\ ~Has(t, REP) => ~Fresh(t, FWD)
        PROVE  FreshOnce(s)
    <3>1. \A i \in 1..(n + 1) : Unanswered(s, i) =>
            i = 1 \/ (i - 1 \in 1..n /\ i = (i - 1) + 1 /\ Unanswered(t, i - 1))
      <4> TAKE i \in 1..(n + 1)
      <4>1. i # 1 => i - 1 \in 1..n /\ i = (i - 1) + 1
        BY <1>3
      <4>2. i # 1 => (Unanswered(s, (i - 1) + 1) <=> Unanswered(t, i - 1))
        BY <1>4, <4>1
      <4>3. QED
        BY <4>1, <4>2
    <3> SUFFICES ASSUME NEW i \in 1..(n + 1), NEW j \in 1..(n + 1), Unanswered(s, i), Unanswered(s, j)
                 PROVE  i = j
      BY <1>2 DEF FreshOnce
    <3>2. Unanswered(s, 1) => \A k \in 1..n : ~Unanswered(t, k)
      BY <1>5, <1>7, <2>2
    <3>3. i = 1 <=> j = 1
      BY <3>1, <3>2
    <3>4. i # 1 => i - 1 = j - 1
      BY <1>2, <2>2, <3>1, <3>3 DEF FreshOnce
    <3>5. QED
      BY <3>3, <3>4
  <2>3. QED
    BY <2>1, <2>2
<1>9. QED
  BY <1>6, <1>8

(* The same for the queue of requests of a block.                          *)
LEMMA QueueAppend ==
    ASSUME NEW q \in Seq(Request), NEW r \in Request, NEW p \in Seq(Request), p = Append(q, r), NEW g
    PROVE  /\ \A T : Queued(p, g, T) <=> Queued(q, g, T) \/ (r.from = g /\ r.type \in T)
           /\ QueuedOnce(p, g) <=> QueuedOnce(q, g) /\ (r.from = g => ~Queued(q, g, REQ))
<1>1. PICK n \in Nat : n = Len(q)
  BY AppendFacts
<1>2. /\ DOMAIN q = 1..n /\ DOMAIN p = 1..(n + 1)
      /\ \A i \in 1..n : p[i] = q[i]
      /\ p[n + 1] = r
  BY <1>1, AppendFacts
<1>3. ASSUME NEW T
      PROVE  Queued(p, g, T) <=> Queued(q, g, T) \/ (r.from = g /\ r.type \in T)
  BY <1>2 DEF Queued
<1>4. Queued(q, g, REQ) <=> \E i \in 1..n : q[i].from = g
  <2>1. \A i \in 1..n : q[i] \in Request
    BY <1>2, ElementOfSeq
  <2>2. \A i \in 1..n : q[i].type \in REQ
    BY <2>1 DEF Request
  <2>3. QED
    BY <1>2, <2>2 DEF Queued
<1>5. QueuedOnce(p, g) <=> QueuedOnce(q, g) /\ (r.from = g => ~Queued(q, g, REQ))
  <2>1. CASE r.from = g
    BY <1>2, <1>4, <2>1 DEF QueuedOnce
  <2>2. CASE r.from # g
    BY <1>2, <2>2 DEF QueuedOnce
  <2>3. QED
    BY <2>1, <2>2
<1>6. QED
  BY <1>3, <1>5

LEMMA QueueTail ==
    ASSUME NEW q \in Seq(Request), q # <<>>, NEW p \in Seq(Request), p = Tail(q),
           NEW r \in Request, r = Head(q), NEW g
    PROVE  /\ \A T : Queued(q, g, T) <=> Queued(p, g, T) \/ (r.from = g /\ r.type \in T)
           /\ QueuedOnce(q, g) => QueuedOnce(p, g) /\ (r.from = g => ~Queued(p, g, REQ))
<1>1. PICK n \in Nat : Shifted(q, p, r, n)
  BY ShiftFacts
<1>2. /\ DOMAIN q = 1..(n + 1) /\ DOMAIN p = 1..n /\ q[1] = r /\ 1 \in 1..(n + 1)
      /\ \A i \in 1..n : i + 1 \in 1..(n + 1) /\ q[i + 1] = p[i]
  BY <1>1 DEF Shifted
<1>3. \A i \in 1..(n + 1) : i = 1 \/ (i - 1 \in 1..n /\ i = (i - 1) + 1 /\ q[i] = p[i - 1])
  BY <1>1 DEF Shifted
<1>4. ASSUME NEW T
      PROVE  Queued(q, g, T) <=> Queued(p, g, T) \/ (r.from = g /\ r.type \in T)
  <2>1. ASSUME NEW i \in 1..(n + 1), q[i].from = g, q[i].type \in T
        PROVE  Queued(p, g, T) \/ (r.from = g /\ r.type \in T)
    <3>1. CASE i = 1
      BY <1>2, <2>1, <3>1
    <3>2. CASE i # 1
      <4>1. i - 1 \in DOMAIN p /\ q[i] = p[i - 1]
        BY <1>2, <1>3, <3>2
      <4>2. QED
        BY <2>1, <4>1 DEF Queued
    <3>3. QED
      BY <3>1, <3>2
  <2>2. ASSUME Queued(p, g, T) \/ (r.from = g /\ r.type \in T)
        PROVE  \E i \in 1..(n + 1) : q[i].from = g /\ q[i].type \in T
    BY <1>2, <2>2 DEF Queued
  <2>3. QED
    BY <1>2, <2>1, <2>2 DEF Queued
<1>5. ASSUME QueuedOnce(q, g)
      PROVE  QueuedOnce(p, g) /\ (r.from = g => ~Queued(p, g, REQ))
  <2>1. \A i, j \in 1..n : p[i].from = g /\ p[j].from = g => i = j
    <3> TAKE i, j \in 1..n
    <3> HAVE p[i].from = g /\ p[j].from = g
    <3>1. i + 1 = j + 1
      BY <1>2, <1>5 DEF QueuedOnce
    <3>2. QED
      BY <3>1
  <2>2. ASSUME r.from = g, NEW i \in 1..n, p[i].from = g
        PROVE  FALSE
    <3>1. i + 1 = 1
      BY <1>2, <1>5, <2>2 DEF QueuedOnce
    <3>2. QED
      BY <3>1
  <2>3. QED
    BY <1>2, <2>1, <2>2 DEF QueuedOnce, Queued
<1>6. QED
  BY <1>4, <1>5

(* The queue p of requests is q without its first one, r.                  *)
Dequeued(q, r, p, g) ==
    /\ \A T : Queued(q, g, T) <=> Queued(p, g, T) \/ (r.from = g /\ r.type \in T)
    /\ QueuedOnce(q, g) => QueuedOnce(p, g) /\ (r.from = g => ~Queued(p, g, REQ))

LEMMA FirstDequeued ==
    \A q, p \in Seq(Request), r \in Request : \A g :
        q # <<>> /\ p = Tail(q) /\ r = Head(q) => Dequeued(q, r, p, g)
<1> TAKE q, p \in Seq(Request), r \in Request
<1> TAKE g
<1> HAVE q # <<>> /\ p = Tail(q) /\ r = Head(q)
<1> QED
  BY QueueTail DEF Dequeued

(* A queue that holds a message of one set holds one of a larger set.      *)
LEMMA HasSplit ==
    ASSUME NEW s
    PROVE  /\ Has(s, REQ) <=> Has(s, {"SH_REQ", "EX_REQ"}) \/ Has(s, {"UPGRADE_REQ"})
           /\ Has(s, GONE \cup {"WB_REP"}) <=> Has(s, GONE) \/ Has(s, {"WB_REP"})
           /\ Has(s, {"WB_REP", "FLUSH_REP"}) <=> Has(s, {"WB_REP"}) \/ Has(s, {"FLUSH_REP"})
           /\ Has(s, {"FLUSH_REP"}) => Has(s, GONE)
           /\ Has(s, {"UPGRADE_REP"}) => Has(s, {"EX_REP", "UPGRADE_REP"})
           /\ Has(s, {"EX_REP", "UPGRADE_REP"}) => Has(s, REP)
           /\ Fresh(s, FWD) => \E t \in FWD : Fresh(s, {t})
           /\ \A t \in FWD : Fresh(s, {t}) => Fresh(s, FWD)
           /\ Has(s, FWD) /\ ~Has(s, REP) => Fresh(s, FWD)
           /\ AtMostOne(s, REQ) => ~(Has(s, {"SH_REQ", "EX_REQ"}) /\ Has(s, {"UPGRADE_REQ"}))
<1>1. /\ Has(s, REQ) <=> Has(s, {"SH_REQ", "EX_REQ"}) \/ Has(s, {"UPGRADE_REQ"})
      /\ Has(s, GONE \cup {"WB_REP"}) <=> Has(s, GONE) \/ Has(s, {"WB_REP"})
      /\ Has(s, {"WB_REP", "FLUSH_REP"}) <=> Has(s, {"WB_REP"}) \/ Has(s, {"FLUSH_REP"})
      /\ Has(s, {"FLUSH_REP"}) => Has(s, GONE)
      /\ Has(s, {"UPGRADE_REP"}) => Has(s, {"EX_REP", "UPGRADE_REP"})
      /\ Has(s, {"EX_REP", "UPGRADE_REP"}) => Has(s, REP)
  BY DEF Has, REQ, GONE, REP
<1>2. /\ Fresh(s, FWD) => \E t \in FWD : Fresh(s, {t})
      /\ \A t \in FWD : Fresh(s, {t}) => Fresh(s, FWD)
      /\ Has(s, FWD) /\ ~Has(s, REP) => Fresh(s, FWD)
  BY DEF Has, Fresh, Unanswered
<1>3. AtMostOne(s, REQ) => ~(Has(s, {"SH_REQ", "EX_REQ"}) /\ Has(s, {"UPGRADE_REQ"}))
  BY DEF AtMostOne, Has, REQ
<1>4. QED
  BY <1>1, <1>2, <1>3

LEMMA QueuedSplit ==
    ASSUME NEW q, NEW g
    PROVE  /\ Queued(q, g, REQ) <=> Queued(q, g, {"SH_REQ", "EX_REQ"}) \/ Queued(q, g, {"UPGRADE_REQ"})
           /\ QueuedOnce(q, g) => ~(Queued(q, g, {"SH_REQ", "EX_REQ"}) /\ Queued(q, g, {"UPGRADE_REQ"}))
<1>1. Queued(q, g, REQ) <=> Queued(q, g, {"SH_REQ", "EX_REQ"}) \/ Queued(q, g, {"UPGRADE_REQ"})
  BY DEF Queued, REQ
<1>2. QueuedOnce(q, g) => ~(Queued(q, g, {"SH_REQ", "EX_REQ"}) /\ Queued(q, g, {"UPGRADE_REQ"}))
  BY DEF Queued, QueuedOnce
<1>3. QED
  BY <1>1, <1>2
-----------------------------------------------------------------------------
(* The link between an LLC and the directory survives every step.          *)

(* The LLC asks the directory.                                             *)
LEMMA LinkAsks ==
    ASSUME NEW g \in Llc, NEW st \in CState, NEW U \in Seq(Message), NEW D \in Seq(Message),
           NEW d \in DirEntry, LinkInv(g, st, U, D, d), ~Asked(g, U, D, d),
           NEW st2 \in CState, NEW m \in Message, NEW U2 \in Seq(Message), U2 = Append(U, m),
           \/ st = "INVALID" /\ st2 = "INVALID" /\ m.type \in {"SH_REQ", "EX_REQ"}
           \/ st = "SHARED" /\ st2 = "SHARED_UPGRADING" /\ m.type = "UPGRADE_REQ"
    PROVE  LinkInv(g, st2, U2, D, d)
<1>1. /\ \A T : Has(U2, T) <=> Has(U, T) \/ m.type \in T
      /\ \A T : AtMostOne(U2, T) <=> AtMostOne(U, T) /\ (m.type \in T => ~Has(U, T))
      /\ \A T1, T2 : T1 \cap T2 = {} =>
            (Before(U2, T1, T2) <=> Before(U, T1, T2) /\ (m.type \in T1 => ~Has(U, T2)))
  BY HasAppend, OrderAppend
<1>2. /\ m.type \in REQ /\ m.type \notin GONE /\ m.type # "WB_REP" /\ m.type # "FLUSH_REP"
      /\ {"WB_REP"} \cap GONE = {} /\ GONE \cap {"SH_REQ", "EX_REQ"} = {}
  BY DEF REQ, GONE
<1>3. /\ Has(U, REQ) <=> Has(U, {"SH_REQ", "EX_REQ"}) \/ Has(U, {"UPGRADE_REQ"})
      /\ Has(D, {"UPGRADE_REP"}) => Has(D, REP)
      /\ Has(D, {"EX_REP", "UPGRADE_REP"}) => Has(D, REP)
  BY HasSplit
<1>4. RequestOnce(g, U2, D, d)
  BY <1>1, <1>2 DEF LinkInv, RequestOnce, Asked
<1>5. RequestState(g, st2, U2, D, d)
  BY <1>1, <1>2, <1>3 DEF LinkInv, RequestState, Asked, Upgrading
<1>6. Believed(g, st2, U2, D, d)
  BY <1>1, <1>2 DEF LinkInv, Believed, OwnerState
<1>7. GoneOrder(g, st2, U2, D, d)
  BY <1>1, <1>2, <1>3 DEF LinkInv, GoneOrder, Asked, Upgrading
<1>8. WrittenBackOrder(g, st2, U2, D, d)
  BY <1>1, <1>2 DEF LinkInv, WrittenBackOrder, OwnerState
<1>9. ForwardOrder(g, st2, U2, D, d)
  BY <1>1, <1>2 DEF LinkInv, ForwardOrder
<1>10. QED
  BY <1>4, <1>5, <1>6, <1>7, <1>8, <1>9 DEF LinkInv

(* The queue s begins with m, r is the rest.                               *)
Begins(s, m, r) == s # <<>> /\ m = Head(s) /\ r = Tail(s)

(* A data reply fills the line.                                            *)
LEMMA LinkFilled ==
    ASSUME NEW g \in Llc, NEW st \in CState, NEW U \in Seq(Message), NEW D \in Seq(Message),
           NEW d \in DirEntry, LinkInv(g, st, U, D, d),
           NEW m \in Message, NEW D2 \in Seq(Message), Begins(D, m, D2),
           m.type \in {"EX_REP", "SH_REP"},
           NEW st2 \in CState, m.type = "EX_REP" => st2 = "EXCLUSIVE", m.type = "SH_REP" => st2 = "SHARED"
    PROVE  st = "INVALID" /\ ~Asked(g, U, D2, d) /\ LinkInv(g, st2, U, D2, d)
<1>h. D # <<>> /\ m = Head(D) /\ D2 = Tail(D)
  BY DEF Begins
<1> USE <1>h
<1>1. /\ \A T : Has(D, T) <=> Has(D2, T) \/ m.type \in T
      /\ \A T : AtMostOne(D, T) <=> AtMostOne(D2, T) /\ (m.type \in T => ~Has(D2, T))
      /\ \A T1, T2 : T1 \cap T2 = {} =>
            (Before(D, T1, T2) <=> Before(D2, T1, T2) /\ (m.type \in T2 => ~Has(D2, T1)))
  BY HasTail, OrderTail
<1>2. /\ \A T : Fresh(D, T) <=> Fresh(D2, T) \/ (m.type \in T /\ m.type \in FWD /\ ~Has(D2, REP))
      /\ FreshOnce(D) => FreshOnce(D2)
  BY FreshTail
<1>3. /\ m.type \in REP /\ m.type \notin FWD /\ REP \cap FWD = {}
      /\ m.type # "UPGRADE_REP"
  BY DEF REP, FWD
<1>4. /\ Has(U, REQ) <=> Has(U, {"SH_REQ", "EX_REQ"}) \/ Has(U, {"UPGRADE_REQ"})
      /\ Has(D2, {"UPGRADE_REP"}) => Has(D2, REP)
      /\ Has(D2, {"EX_REP", "UPGRADE_REP"}) => Has(D2, REP)
      /\ Queued(d.queue, g, REQ) <=> Queued(d.queue, g, {"SH_REQ", "EX_REQ"}) \/ Queued(d.queue, g, {"UPGRADE_REQ"})
  BY HasSplit, QueuedSplit
<1>5. ~Has(D2, REP) /\ ~Has(U, REQ) /\ ~Queued(d.queue, g, REQ) /\ RequestOnce(g, U, D2, d)
  BY <1>1, <1>3 DEF LinkInv, RequestOnce
<1>6. st = "INVALID"
  BY <1>1, <1>3, <1>4, <1>5 DEF LinkInv, RequestState, Asked, Upgrading
<1>7. ~Asked(g, U, D2, d)
  BY <1>5 DEF Asked
<1>8. RequestState(g, st2, U, D2, d)
  BY <1>7 DEF RequestState
<1>9. Believed(g, st2, U, D2, d)
  BY <1>1, <1>3, <1>4, <1>5, <1>6 DEF LinkInv, Believed, GoneOrder, OwnerState
<1>10. GoneOrder(g, st2, U, D2, d)
  BY <1>1, <1>3 DEF LinkInv, GoneOrder
<1>11. WrittenBackOrder(g, st2, U, D2, d)
  BY <1>1, <1>3 DEF LinkInv, WrittenBackOrder
<1>12. ForwardOrder(g, st2, U, D2, d)
  BY <1>1, <1>2, <1>3, <1>5 DEF LinkInv, ForwardOrder, Before, Has
<1>13. QED
  BY <1>5, <1>6, <1>7, <1>8, <1>9, <1>10, <1>11, <1>12 DEF LinkInv

LEMMA ForwardTypes ==
    ASSUME NEW d \in DirEntry
    PROVE  /\ ForwardType(d) \in FWD
           /\ ForwardType(d) = "INV_REQ" <=> ~d.owned
           /\ ForwardType(d) = "WB_REQ" <=> d.owned /\ Head(d.queue).type = "SH_REQ"
           /\ ForwardType(d) = "FLUSH_REQ" <=> d.owned /\ Head(d.queue).type # "SH_REQ"
<1>1. PICK P \in BOOLEAN, Q \in BOOLEAN : P = d.owned /\ Q = (Head(d.queue).type = "SH_REQ")
  BY DirEntryFacts
<1>2. ForwardType(d) = CASE ~P -> "INV_REQ" [] P /\ Q -> "WB_REQ" [] P /\ ~Q -> "FLUSH_REQ"
  BY <1>1 DEF ForwardType
<1>3. PICK t : t = ForwardType(d)
  OBVIOUS
<1>4. t = IF ~P THEN "INV_REQ" ELSE IF Q THEN "WB_REQ" ELSE "FLUSH_REQ"
  BY <1>2, <1>3
<1>5. QED
  BY <1>1, <1>3, <1>4 DEF FWD

(* An upgrade reply makes the line writable.                               *)
LEMMA LinkUpgraded ==
    ASSUME NEW g \in Llc, NEW st \in CState, NEW U \in Seq(Message), NEW D \in Seq(Message),
           NEW d \in DirEntry, LinkInv(g, st, U, D, d),
           NEW m \in Message, NEW D2 \in Seq(Message), Begins(D, m, D2),
           m.type = "UPGRADE_REP"
    PROVE  /\ st \in {"INVALID", "SHARED_UPGRADING"}
           /\ ~Asked(g, U, D2, d) /\ LinkInv(g, "MODIFIED", U, D2, d)
<1>h. D # <<>> /\ m = Head(D) /\ D2 = Tail(D)
  BY DEF Begins
<1> USE <1>h
<1>1. /\ \A T : Has(D, T) <=> Has(D2, T) \/ m.type \in T
      /\ \A T : AtMostOne(D, T) <=> AtMostOne(D2, T) /\ (m.type \in T => ~Has(D2, T))
      /\ \A T1, T2 : T1 \cap T2 = {} =>
            (Before(D, T1, T2) <=> Before(D2, T1, T2) /\ (m.type \in T2 => ~Has(D2, T1)))
  BY HasTail, OrderTail
<1>2. /\ \A T : Fresh(D, T) <=> Fresh(D2, T) \/ (m.type \in T /\ m.type \in FWD /\ ~Has(D2, REP))
      /\ FreshOnce(D) => FreshOnce(D2)
  BY FreshTail
<1>3. /\ m.type \in REP /\ m.type \notin FWD /\ REP \cap FWD = {}
  BY DEF REP, FWD
<1>4. Has(D2, {"EX_REP", "UPGRADE_REP"}) => Has(D2, REP)
  BY HasSplit
<1>5. ~Has(D2, REP) /\ ~Has(U, REQ) /\ ~Queued(d.queue, g, REQ) /\ RequestOnce(g, U, D2, d)
  BY <1>1, <1>3 DEF LinkInv, RequestOnce
<1>6. st \in {"INVALID", "SHARED_UPGRADING"} /\ ~Asked(g, U, D2, d)
  BY <1>1, <1>3, <1>5 DEF LinkInv, RequestState, Asked
<1>7. RequestState(g, "MODIFIED", U, D2, d)
  BY <1>6 DEF RequestState
<1>8. Believed(g, "MODIFIED", U, D2, d)
  BY <1>1, <1>3, <1>4, <1>5, <1>6 DEF LinkInv, Believed, GoneOrder, OwnerState
<1>9. GoneOrder(g, "MODIFIED", U, D2, d)
  BY <1>1, <1>3 DEF LinkInv, GoneOrder
<1>10. WrittenBackOrder(g, "MODIFIED", U, D2, d)
  BY <1>1, <1>3 DEF LinkInv, WrittenBackOrder
<1>11. ForwardOrder(g, "MODIFIED", U, D2, d)
  BY <1>1, <1>2, <1>3, <1>5 DEF LinkInv, ForwardOrder, Before, Has
<1>12. QED
  BY <1>5, <1>6, <1>7, <1>8, <1>9, <1>10, <1>11 DEF LinkInv

(* A line is evicted.                                                      *)
LEMMA LinkEvicted ==
    ASSUME NEW g \in Llc, NEW st \in CState, NEW U \in Seq(Message), NEW D \in Seq(Message),
           NEW d \in DirEntry, LinkInv(g, st, U, D, d), st \notin {"INVALID", "SHARED_UPGRADING"},
           NEW m \in Message, NEW U2 \in Seq(Message), U2 = Append(U, m),
           m.type = IF st = "MODIFIED" THEN "FLUSH_REP" ELSE "INV_REP"
    PROVE  ~Asked(g, U2, D, d) /\ ~Asked(g, U, D, d) /\ LinkInv(g, "INVALID", U2, D, d)
<1>1. /\ \A T : Has(U2, T) <=> Has(U, T) \/ m.type \in T
      /\ \A T : AtMostOne(U2, T) <=> AtMostOne(U, T) /\ (m.type \in T => ~Has(U, T))
      /\ \A T1, T2 : T1 \cap T2 = {} =>
            (Before(U2, T1, T2) <=> Before(U, T1, T2) /\ (m.type \in T1 => ~Has(U, T2)))
  BY HasAppend, OrderAppend
<1>2. /\ m.type \in GONE /\ m.type \notin REQ /\ m.type # "WB_REP" /\ {"WB_REP"} \cap GONE = {}
      /\ GONE \cap {"SH_REQ", "EX_REQ"} = {} /\ m.type \notin {"UPGRADE_REQ"}
      /\ m.type = "FLUSH_REP" <=> st = "MODIFIED"
  BY DEF REQ, GONE
<1>3. /\ Has(U, REQ) <=> Has(U, {"SH_REQ", "EX_REQ"}) \/ Has(U, {"UPGRADE_REQ"})
      /\ Has(D, {"UPGRADE_REP"}) => Has(D, REP)
      /\ Has(D, {"EX_REP", "UPGRADE_REP"}) => Has(D, REP)
      /\ Queued(d.queue, g, REQ) <=> Queued(d.queue, g, {"SH_REQ", "EX_REQ"}) \/ Queued(d.queue, g, {"UPGRADE_REQ"})
      /\ Has(U, {"FLUSH_REP"}) => Has(U, GONE)
  BY HasSplit, QueuedSplit
<1>4. ~Has(U, REQ) /\ ~Queued(d.queue, g, REQ) /\ ~Has(D, REP) /\ ~Asked(g, U, D, d)
  BY DEF LinkInv, RequestState, Asked
<1>5. ~Has(U2, REQ) /\ ~Asked(g, U2, D, d)
  BY <1>1, <1>2, <1>4 DEF Asked
<1>6. RequestOnce(g, U2, D, d)
  BY <1>1, <1>2, <1>4 DEF LinkInv, RequestOnce
<1>7. RequestState(g, "INVALID", U2, D, d)
  BY DEF RequestState
<1>8. Believed(g, "INVALID", U2, D, d)
  BY <1>1, <1>2, <1>3, <1>4 DEF LinkInv, Believed, OwnerState
<1>9. GoneOrder(g, "INVALID", U2, D, d)
  <2>1. ~Has(U, GONE) /\ ~Upgrading(g, U2, D, d)
    BY <1>1, <1>2, <1>3, <1>4 DEF LinkInv, GoneOrder, Upgrading
  <2>2. Has(U, {"WB_REP"}) => st # "MODIFIED"
    BY DEF LinkInv, WrittenBackOrder, OwnerState
  <2>3. QED
    BY <1>1, <1>2, <1>3, <1>4, <2>1, <2>2 DEF LinkInv, GoneOrder
<1>10. WrittenBackOrder(g, "INVALID", U2, D, d)
  BY <1>1, <1>2 DEF LinkInv, WrittenBackOrder, OwnerState
<1>11. ForwardOrder(g, "INVALID", U2, D, d)
  BY <1>1, <1>2 DEF LinkInv, ForwardOrder
<1>12. QED
  BY <1>4, <1>5, <1>6, <1>7, <1>8, <1>9, <1>10, <1>11 DEF LinkInv

(* A request of the directory finds no line.                               *)
LEMMA LinkMisses ==
    ASSUME NEW g \in Llc, NEW st \in CState, NEW U \in Seq(Message), NEW D \in Seq(Message),
           NEW d \in DirEntry, LinkInv(g, st, U, D, d), st = "INVALID",
           NEW m \in Message, NEW D2 \in Seq(Message), Begins(D, m, D2),
           m.type \in FWD
    PROVE  LinkInv(g, st, U, D2, d) /\ (Asked(g, U, D2, d) <=> Asked(g, U, D, d))
           /\ (Upgrading(g, U, D2, d) <=> Upgrading(g, U, D, d))
<1>h. D # <<>> /\ m = Head(D) /\ D2 = Tail(D)
  BY DEF Begins
<1> USE <1>h
<1>1. /\ \A T : Has(D, T) <=> Has(D2, T) \/ m.type \in T
      /\ \A T : AtMostOne(D, T) <=> AtMostOne(D2, T) /\ (m.type \in T => ~Has(D2, T))
  BY HasTail
<1>2. /\ \A T : Fresh(D, T) <=> Fresh(D2, T) \/ (m.type \in T /\ m.type \in FWD /\ ~Has(D2, REP))
      /\ FreshOnce(D) => FreshOnce(D2)
  BY FreshTail
<1>3. /\ m.type \notin REP /\ m.type \notin {"EX_REP", "UPGRADE_REP"} /\ m.type \notin {"UPGRADE_REP"}
  BY DEF REP, FWD
<1>4. /\ Asked(g, U, D2, d) <=> Asked(g, U, D, d)
      /\ Upgrading(g, U, D2, d) <=> Upgrading(g, U, D, d)
  BY <1>1, <1>3 DEF Asked, Upgrading
<1>5. RequestOnce(g, U, D2, d)
  BY <1>1, <1>3 DEF LinkInv, RequestOnce
<1>6. RequestState(g, st, U, D2, d)
  BY DEF RequestState
<1>7. Believed(g, st, U, D2, d)
  BY <1>1, <1>3 DEF LinkInv, Believed
<1>8. GoneOrder(g, st, U, D2, d)
  BY <1>1, <1>3, <1>4 DEF LinkInv, GoneOrder
<1>9. WrittenBackOrder(g, st, U, D2, d)
  BY <1>1, <1>3 DEF LinkInv, WrittenBackOrder
<1>10. ForwardOrder(g, st, U, D2, d)
  BY <1>2 DEF LinkInv, ForwardOrder
<1>11. QED
  BY <1>4, <1>5, <1>6, <1>7, <1>8, <1>9, <1>10 DEF LinkInv

(* A request of the directory that meets a line is the one that it waits   *)
(* for.                                                                    *)
LEMMA LinkMeets ==
    ASSUME NEW g \in Llc, NEW st \in CState, NEW U \in Seq(Message), NEW D \in Seq(Message),
           NEW d \in DirEntry, LinkInv(g, st, U, D, d), st # "INVALID",
           NEW m \in Message, NEW D2 \in Seq(Message), Begins(D, m, D2),
           m.type \in FWD
    PROVE  /\ Blocks(g, d) /\ m.type = ForwardType(d) /\ g \in d.sharers
           /\ ~Has(U, {"WB_REP"}) /\ ~Has(U, GONE) /\ ~Has(D2, REP) /\ ~Has(D, REP) /\ ~Fresh(D2, FWD)
           /\ m.type = "INV_REQ" => st \notin OwnerState
           /\ m.type # "INV_REQ" => st \in OwnerState
<1>h. D # <<>> /\ m = Head(D) /\ D2 = Tail(D)
  BY DEF Begins
<1> USE <1>h
<1>1. /\ \A T : Has(D, T) <=> Has(D2, T) \/ m.type \in T
      /\ \A T1, T2 : T1 \cap T2 = {} =>
            (Before(D, T1, T2) <=> Before(D2, T1, T2) /\ (m.type \in T2 => ~Has(D2, T1)))
  BY HasTail, OrderTail
<1>2. /\ \A T : Fresh(D, T) <=> Fresh(D2, T) \/ (m.type \in T /\ m.type \in FWD /\ ~Has(D2, REP))
      /\ FreshOnce(D) => (m.type \in FWD /\ ~Has(D2, REP) => ~Fresh(D2, FWD))
  BY FreshTail
<1>3. m.type \notin REP /\ REP \cap FWD = {}
  BY DEF REP, FWD
<1>4. ~Has(D2, REP) /\ ~Has(D, REP) /\ ~Fresh(D2, FWD)
  BY <1>1, <1>2, <1>3 DEF LinkInv, ForwardOrder
<1>5. g \in d.sharers /\ ~Has(U, GONE)
  BY DEF LinkInv, Believed, GoneOrder
<1>6. Fresh(D, FWD) /\ Fresh(D, {m.type})
  BY <1>2, <1>4
<1>7. Blocks(g, d) /\ ~Has(U, {"WB_REP"}) /\ m.type = ForwardType(d)
  BY <1>5, <1>6 DEF LinkInv, ForwardOrder
<1>8. m.type = "INV_REQ" => st \notin OwnerState
  BY <1>7, ForwardTypes DEF LinkInv, Believed
<1>9. m.type # "INV_REQ" => st \in OwnerState
  <2>1. m.type # "INV_REQ" => d.owned
    BY <1>7, ForwardTypes
  <2>2. /\ Has(U, GONE \cup {"WB_REP"}) <=> Has(U, GONE) \/ Has(U, {"WB_REP"})
        /\ Has(D, {"EX_REP", "UPGRADE_REP"}) => Has(D, REP)
    BY HasSplit
  <2>3. QED
    BY <1>4, <1>5, <1>7, <2>1, <2>2 DEF LinkInv, Believed
<1>10. QED
  BY <1>4, <1>5, <1>7, <1>8, <1>9

(* The line is given up for the directory.                                 *)
LEMMA LinkYields ==
    ASSUME NEW g \in Llc, NEW st \in CState, NEW U \in Seq(Message), NEW D \in Seq(Message),
           NEW d \in DirEntry, LinkInv(g, st, U, D, d), st # "INVALID",
           NEW m \in Message, NEW D2 \in Seq(Message), Begins(D, m, D2),
           m.type \in {"INV_REQ", "FLUSH_REQ"},
           NEW n \in Message, NEW U2 \in Seq(Message), U2 = Append(U, n),
           n.type = IF m.type = "INV_REQ" THEN "INV_REP" ELSE "FLUSH_REP"
    PROVE  /\ LinkInv(g, "INVALID", U2, D2, d) /\ (Asked(g, U2, D2, d) <=> Asked(g, U, D, d))
           /\ Upgrading(g, U2, D2, d) <=> Upgrading(g, U, D, d)
<1>h. D # <<>> /\ m = Head(D) /\ D2 = Tail(D)
  BY DEF Begins
<1> USE <1>h
<1>0. /\ Blocks(g, d) /\ m.type = ForwardType(d) /\ g \in d.sharers
      /\ ~Has(U, {"WB_REP"}) /\ ~Has(U, GONE) /\ ~Has(D2, REP) /\ ~Has(D, REP) /\ ~Fresh(D2, FWD)
  <2>1. m.type \in FWD
    BY DEF FWD
  <2>2. QED
    BY <2>1, LinkMeets
<1>1. /\ \A T : Has(U2, T) <=> Has(U, T) \/ n.type \in T
      /\ \A T : AtMostOne(U2, T) <=> AtMostOne(U, T) /\ (n.type \in T => ~Has(U, T))
      /\ \A T1, T2 : T1 \cap T2 = {} =>
            (Before(U2, T1, T2) <=> Before(U, T1, T2) /\ (n.type \in T1 => ~Has(U, T2)))
  BY HasAppend, OrderAppend
<1>2. /\ \A T : Has(D, T) <=> Has(D2, T) \/ m.type \in T
      /\ \A T : AtMostOne(D, T) <=> AtMostOne(D2, T) /\ (m.type \in T => ~Has(D2, T))
  BY HasTail
<1>3. FreshOnce(D) => FreshOnce(D2)
  BY FreshTail
<1>4. /\ m.type \notin REP /\ m.type \notin {"EX_REP", "UPGRADE_REP"} /\ m.type \notin {"UPGRADE_REP"}
      /\ n.type \in GONE /\ n.type \notin REQ /\ n.type # "WB_REP" /\ {"WB_REP"} \cap GONE = {}
      /\ GONE \cap {"SH_REQ", "EX_REQ"} = {} /\ n.type \notin {"UPGRADE_REQ"}
      /\ n.type = "FLUSH_REP" <=> m.type = "FLUSH_REQ"
  BY DEF REP, FWD, GONE, REQ
<1>5. /\ Has(U, REQ) <=> Has(U, {"SH_REQ", "EX_REQ"}) \/ Has(U, {"UPGRADE_REQ"})
      /\ AtMostOne(U, REQ) => ~(Has(U, {"SH_REQ", "EX_REQ"}) /\ Has(U, {"UPGRADE_REQ"}))
      /\ Has(D, {"EX_REP", "UPGRADE_REP"}) => Has(D, REP)
      /\ Has(D, {"UPGRADE_REP"}) => Has(D, {"EX_REP", "UPGRADE_REP"})
      /\ Queued(d.queue, g, REQ) <=> Queued(d.queue, g, {"SH_REQ", "EX_REQ"}) \/ Queued(d.queue, g, {"UPGRADE_REQ"})
      /\ QueuedOnce(d.queue, g) => ~(Queued(d.queue, g, {"SH_REQ", "EX_REQ"}) /\ Queued(d.queue, g, {"UPGRADE_REQ"}))
  BY HasSplit, QueuedSplit
<1>6. /\ Asked(g, U2, D2, d) <=> Asked(g, U, D, d)
      /\ Upgrading(g, U2, D2, d) <=> Upgrading(g, U, D, d)
  BY <1>1, <1>2, <1>4 DEF Asked, Upgrading
<1>7. RequestOnce(g, U2, D2, d)
  BY <1>1, <1>2, <1>4 DEF LinkInv, RequestOnce
<1>8. RequestState(g, "INVALID", U2, D2, d)
  BY DEF RequestState
<1>9. d.owned <=> m.type = "FLUSH_REQ"
  BY <1>0, ForwardTypes
<1>10. Believed(g, "INVALID", U2, D2, d)
  <2>1. ~Has(D2, {"EX_REP", "UPGRADE_REP"}) /\ ~Has(D, {"EX_REP", "UPGRADE_REP"})
    BY <1>0, <1>2, <1>5
  <2>2. Has(U2, GONE) /\ (Has(U2, {"WB_REP", "FLUSH_REP"}) => m.type = "FLUSH_REQ")
        /\ Has(U2, GONE \cup {"WB_REP"})
    <3>1. ~Has(U, {"WB_REP", "FLUSH_REP"})
      BY <1>0, HasSplit
    <3>2. QED
      BY <1>1, <1>4, <3>1
  <2>3. QED
    BY <1>0, <1>9, <2>1, <2>2 DEF Believed, OwnerState
<1>11. GoneOrder(g, "INVALID", U2, D2, d)
  <2>1. ~Has(U, {"SH_REQ", "EX_REQ"}) /\ ~Queued(d.queue, g, {"SH_REQ", "EX_REQ"})
    <3>1. Asked(g, U, D, d) => Upgrading(g, U, D, d)
      BY DEF LinkInv, RequestState
    <3>2. QED
      BY <1>0, <1>5, <3>1 DEF LinkInv, RequestOnce, Asked, Upgrading
  <2>2. QED
    BY <1>0, <1>1, <1>4, <2>1 DEF LinkInv, GoneOrder
<1>12. WrittenBackOrder(g, "INVALID", U2, D2, d)
  BY <1>0, <1>1, <1>4 DEF WrittenBackOrder
<1>13. ForwardOrder(g, "INVALID", U2, D2, d)
  BY <1>0, <1>3 DEF LinkInv, ForwardOrder
<1>14. QED
  BY <1>6, <1>7, <1>8, <1>10, <1>11, <1>12, <1>13 DEF LinkInv

(* The line is written back for the directory and kept for reading.        *)
LEMMA LinkWrites ==
    ASSUME NEW g \in Llc, NEW st \in CState, NEW U \in Seq(Message), NEW D \in Seq(Message),
           NEW d \in DirEntry, LinkInv(g, st, U, D, d), st # "INVALID",
           NEW m \in Message, NEW D2 \in Seq(Message), Begins(D, m, D2),
           m.type \in {"WB_REQ"},
           NEW n \in Message, NEW U2 \in Seq(Message), U2 = Append(U, n), n.type = "WB_REP"
    PROVE  /\ st \in OwnerState /\ ~Asked(g, U2, D2, d) /\ LinkInv(g, "SHARED", U2, D2, d)
<1>h. D # <<>> /\ m = Head(D) /\ D2 = Tail(D)
  BY DEF Begins
<1> USE <1>h
<1>0. /\ Blocks(g, d) /\ m.type = ForwardType(d) /\ g \in d.sharers /\ st \in OwnerState
      /\ ~Has(U, {"WB_REP"}) /\ ~Has(U, GONE) /\ ~Has(D2, REP) /\ ~Has(D, REP) /\ ~Fresh(D2, FWD)
  <2>1. m.type \in FWD /\ m.type # "INV_REQ"
    BY DEF FWD
  <2>2. /\ Blocks(g, d) /\ m.type = ForwardType(d) /\ g \in d.sharers
        /\ ~Has(U, {"WB_REP"}) /\ ~Has(U, GONE) /\ ~Has(D2, REP) /\ ~Has(D, REP) /\ ~Fresh(D2, FWD)
    BY <2>1, LinkMeets
  <2>3. m.type # "INV_REQ" => st \in OwnerState
    BY <2>1, LinkMeets
  <2>4. QED
    BY <2>1, <2>2, <2>3
<1>1. /\ \A T : Has(U2, T) <=> Has(U, T) \/ n.type \in T
      /\ \A T : AtMostOne(U2, T) <=> AtMostOne(U, T) /\ (n.type \in T => ~Has(U, T))
      /\ \A T1, T2 : T1 \cap T2 = {} =>
            (Before(U2, T1, T2) <=> Before(U, T1, T2) /\ (n.type \in T1 => ~Has(U, T2)))
  BY HasAppend, OrderAppend
<1>2. /\ \A T : Has(D, T) <=> Has(D2, T) \/ m.type \in T
      /\ \A T : AtMostOne(D, T) <=> AtMostOne(D2, T) /\ (m.type \in T => ~Has(D2, T))
  BY HasTail
<1>3. FreshOnce(D) => FreshOnce(D2)
  BY FreshTail
<1>4. /\ m.type \notin REP /\ n.type \notin GONE /\ n.type \notin REQ
      /\ {"WB_REP"} \cap GONE = {} /\ GONE \cap {"SH_REQ", "EX_REQ"} = {} /\ n.type # "FLUSH_REP"
  BY DEF REP, FWD, GONE, REQ
<1>5. d.owned /\ Head(d.queue).type = "SH_REQ"
  BY <1>0, ForwardTypes
<1>6. ~Has(U, REQ) /\ ~Queued(d.queue, g, REQ)
  BY <1>0 DEF LinkInv, RequestState, Asked, OwnerState
<1>7. ~Asked(g, U2, D2, d)
  BY <1>0, <1>1, <1>4, <1>6 DEF Asked
<1>8. RequestOnce(g, U2, D2, d)
  BY <1>0, <1>1, <1>2, <1>4 DEF LinkInv, RequestOnce
<1>9. RequestState(g, "SHARED", U2, D2, d)
  BY <1>7 DEF RequestState
<1>10. Believed(g, "SHARED", U2, D2, d)
  <2>1. Has(U2, GONE \cup {"WB_REP"})
    BY <1>1
  <2>2. QED
    BY <1>0, <1>5, <2>1 DEF Believed
<1>11. GoneOrder(g, "SHARED", U2, D2, d)
  <2>1. ~Has(U2, GONE) /\ ~Has(U2, {"FLUSH_REP"})
    <3>1. ~Has(U2, GONE)
      BY <1>0, <1>1, <1>4
    <3>2. QED
      BY <3>1, HasSplit
  <2>2. QED
    BY <1>0, <1>1, <1>4, <2>1 DEF LinkInv, GoneOrder
<1>12. WrittenBackOrder(g, "SHARED", U2, D2, d)
  BY <1>0, <1>5 DEF WrittenBackOrder, OwnerState
<1>13. ForwardOrder(g, "SHARED", U2, D2, d)
  <2>1. Before(D2, REP, FWD)
    BY <1>0 DEF Has, Before
  <2>2. QED
    BY <1>0, <1>3, <2>1 DEF LinkInv, ForwardOrder
<1>14. QED
  BY <1>0, <1>7, <1>8, <1>9, <1>10, <1>11, <1>12, <1>13 DEF LinkInv

(* The directory learns that g gave the line up.                           *)
LEMMA LinkGone ==
    ASSUME NEW g \in Llc, NEW st \in CState, NEW U \in Seq(Message), NEW D \in Seq(Message),
           NEW d \in DirEntry, LinkInv(g, st, U, D, d),
           NEW m \in Message, NEW U2 \in Seq(Message), Begins(U, m, U2),
           m.type \in GONE,
           NEW e \in DirEntry, e.sharers = d.sharers \ {g}, e.owned <=> d.owned /\ g \notin d.sharers,
           e.queue = d.queue
    PROVE  /\ g \in d.sharers /\ LinkInv(g, st, U2, D, e)
           /\ Asked(g, U2, D, e) <=> Asked(g, U, D, d)
           /\ Upgrading(g, U2, D, e) <=> Upgrading(g, U, D, d)
<1>h. U # <<>> /\ m = Head(U) /\ U2 = Tail(U)
  BY DEF Begins
<1> USE <1>h
<1>1. /\ \A T : Has(U, T) <=> Has(U2, T) \/ m.type \in T
      /\ \A T : AtMostOne(U, T) <=> AtMostOne(U2, T) /\ (m.type \in T => ~Has(U2, T))
      /\ \A T1, T2 : T1 \cap T2 = {} =>
            (Before(U, T1, T2) <=> Before(U2, T1, T2) /\ (m.type \in T2 => ~Has(U2, T1)))
  BY ZenonT(60), HasTail, OrderTail
<1>2. /\ m.type \notin REQ /\ m.type \notin {"WB_REP"} /\ {"WB_REP"} \cap GONE = {}
      /\ GONE \cap {"SH_REQ", "EX_REQ"} = {} /\ m.type \notin {"UPGRADE_REQ"}
  BY DEF REQ, GONE
<1>3. /\ Has(D, {"EX_REP", "UPGRADE_REP"}) => Has(D, REP)
      /\ Has(U2, {"WB_REP", "FLUSH_REP"}) => Has(U2, {"WB_REP"}) \/ Has(U2, GONE)
  BY HasSplit
<1>4. st = "INVALID" /\ ~Has(D, REP) /\ ~Has(U2, GONE) /\ ~Has(U2, {"WB_REP"}) /\ g \in d.sharers
  BY <1>1, <1>2 DEF LinkInv, GoneOrder, Believed
<1>5. /\ Asked(g, U2, D, e) <=> Asked(g, U, D, d)
      /\ Upgrading(g, U2, D, e) <=> Upgrading(g, U, D, d)
  BY <1>1, <1>2 DEF Asked, Upgrading
<1>6. RequestOnce(g, U2, D, e)
  BY <1>1, <1>2 DEF LinkInv, RequestOnce
<1>7. RequestState(g, st, U2, D, e)
  BY <1>4 DEF RequestState
<1>8. Believed(g, st, U2, D, e)
  BY <1>3, <1>4 DEF Believed, OwnerState
<1>9. GoneOrder(g, st, U2, D, e)
  BY <1>1, <1>2, <1>4 DEF LinkInv, GoneOrder
<1>10. WrittenBackOrder(g, st, U2, D, e)
  BY <1>4 DEF WrittenBackOrder
<1>11. ForwardOrder(g, st, U2, D, e)
  BY <1>4 DEF LinkInv, ForwardOrder
<1>12. QED
  BY <1>4, <1>5, <1>6, <1>7, <1>8, <1>9, <1>10, <1>11 DEF LinkInv

(* The directory learns that g wrote the line back.                        *)
LEMMA LinkWrote ==
    ASSUME NEW g \in Llc, NEW st \in CState, NEW U \in Seq(Message), NEW D \in Seq(Message),
           NEW d \in DirEntry, LinkInv(g, st, U, D, d),
           NEW m \in Message, NEW U2 \in Seq(Message), Begins(U, m, U2),
           m.type = "WB_REP",
           NEW e \in DirEntry, e.sharers = d.sharers, ~e.owned, e.queue = d.queue
    PROVE  /\ g \in d.sharers /\ d.owned /\ LinkInv(g, st, U2, D, e)
           /\ Asked(g, U2, D, e) <=> Asked(g, U, D, d)
           /\ Upgrading(g, U2, D, e) <=> Upgrading(g, U, D, d)
<1>h. U # <<>> /\ m = Head(U) /\ U2 = Tail(U)
  BY DEF Begins
<1> USE <1>h
<1>1. /\ \A T : Has(U, T) <=> Has(U2, T) \/ m.type \in T
      /\ \A T : AtMostOne(U, T) <=> AtMostOne(U2, T) /\ (m.type \in T => ~Has(U2, T))
      /\ \A T1, T2 : T1 \cap T2 = {} =>
            (Before(U, T1, T2) <=> Before(U2, T1, T2) /\ (m.type \in T2 => ~Has(U2, T1)))
  BY HasTail, OrderTail
<1>2. /\ m.type \notin REQ /\ m.type \notin GONE /\ {"WB_REP"} \cap GONE = {}
      /\ GONE \cap {"SH_REQ", "EX_REQ"} = {} /\ m.type \notin {"UPGRADE_REQ"}
  BY DEF REQ, GONE
<1>3. /\ Has(D, {"EX_REP", "UPGRADE_REP"}) => Has(D, REP)
      /\ Has(U2, {"WB_REP", "FLUSH_REP"}) <=> Has(U2, {"WB_REP"}) \/ Has(U2, {"FLUSH_REP"})
  BY HasSplit
<1>4. Has(U, {"WB_REP"}) /\ Has(U, {"WB_REP", "FLUSH_REP"})
  BY <1>1
<1>5. /\ st \notin OwnerState /\ ~Has(D, REP) /\ ~Has(U2, {"WB_REP"}) /\ ~Has(U2, {"FLUSH_REP"})
      /\ g \in d.sharers /\ d.owned
  BY <1>1, <1>4 DEF LinkInv, GoneOrder, Believed, WrittenBackOrder
<1>6. /\ Asked(g, U2, D, e) <=> Asked(g, U, D, d)
      /\ Upgrading(g, U2, D, e) <=> Upgrading(g, U, D, d)
  BY <1>1, <1>2 DEF Asked, Upgrading
<1>7. RequestOnce(g, U2, D, e)
  BY <1>1, <1>2 DEF LinkInv, RequestOnce
<1>8. RequestState(g, st, U2, D, e)
  BY <1>6 DEF LinkInv, RequestState
<1>9. Believed(g, st, U2, D, e)
  BY <1>1, <1>2, <1>3, <1>5 DEF LinkInv, Believed
<1>10. GoneOrder(g, st, U2, D, e)
  BY <1>1, <1>2, <1>4, <1>5, <1>6 DEF LinkInv, GoneOrder
<1>11. WrittenBackOrder(g, st, U2, D, e)
  BY <1>5 DEF WrittenBackOrder
<1>12. ForwardOrder(g, st, U2, D, e)
  BY <1>4 DEF LinkInv, ForwardOrder
<1>13. QED
  BY <1>5, <1>6, <1>7, <1>8, <1>9, <1>10, <1>11, <1>12 DEF LinkInv

(* A queue that grows keeps its first request.                             *)
LEMMA BlocksGrows ==
    ASSUME NEW g \in Llc, NEW d \in DirEntry, NEW e \in DirEntry, NEW r \in Request,
           e.queue = Append(d.queue, r), e.sharers = d.sharers, e.owned <=> d.owned, e.sent = d.sent
    PROVE  Blocks(g, d) => /\ Blocks(g, e) /\ Head(e.queue).type = Head(d.queue).type
                           /\ ForwardType(e) = ForwardType(d)
<1> SUFFICES ASSUME Blocks(g, d)
             PROVE  /\ Blocks(g, e) /\ Head(e.queue) = Head(d.queue)
                    /\ ForwardType(e) = ForwardType(d)
  OBVIOUS
<1>1. d.queue \in Seq(Request) /\ d.queue # <<>>
  BY DirEntryFacts DEF Blocks
<1>2. e.queue # <<>> /\ Head(e.queue) = Head(d.queue)
  BY <1>1, AppendFacts
<1>3. e.owned = d.owned
  BY DirEntryFacts
<1>4. Conflicting(e) = Conflicting(d) /\ ForwardType(e) = ForwardType(d)
  BY <1>2, <1>3 DEF Conflicting, ForwardType
<1>5. QED
  BY <1>2, <1>4 DEF Blocks

(* A request of g is queued.                                               *)
LinksQueued(g, st, U, U2, D, d, p, m) ==
    \A r \in Request, e \in DirEntry :
        r.type = m.type /\ r.from = g /\ e.sharers = d.sharers /\ (e.owned <=> d.owned)
        /\ e.sent = d.sent /\ e.queue = Append(p, r) =>
          /\ LinkInv(g, st, U2, D, e)
          /\ Asked(g, U2, D, e) <=> Asked(g, U, D, d)
          /\ Upgrading(g, U2, D, e) <=> Upgrading(g, U, D, d)

LEMMA LinkQueued ==
    ASSUME NEW g \in Llc, NEW st \in CState, NEW U \in Seq(Message), NEW D \in Seq(Message),
           NEW d \in DirEntry, LinkInv(g, st, U, D, d),
           NEW m \in Message, NEW U2 \in Seq(Message), Begins(U, m, U2),
           m.type \in REQ,
           NEW p, p = d.queue
    PROVE  LinksQueued(g, st, U, U2, D, d, p, m)
<1>s. SUFFICES
    \A r \in Request, e \in DirEntry :
        r.type = m.type /\ r.from = g /\ e.sharers = d.sharers /\ (e.owned <=> d.owned)
        /\ e.sent = d.sent /\ e.queue = Append(p, r) =>
          /\ LinkInv(g, st, U2, D, e)
          /\ Asked(g, U2, D, e) <=> Asked(g, U, D, d)
          /\ Upgrading(g, U2, D, e) <=> Upgrading(g, U, D, d)
  BY DEF LinksQueued
<1>h. U # <<>> /\ m = Head(U) /\ U2 = Tail(U)
  BY DEF Begins
<1> USE <1>h
<1>1. /\ \A T : Has(U, T) <=> Has(U2, T) \/ m.type \in T
      /\ \A T : AtMostOne(U, T) <=> AtMostOne(U2, T) /\ (m.type \in T => ~Has(U2, T))
      /\ \A T1, T2 : T1 \cap T2 = {} =>
            (Before(U, T1, T2) <=> Before(U2, T1, T2) /\ (m.type \in T2 => ~Has(U2, T1)))
  <2>1. /\ \A T : Has(U, T) <=> Has(U2, T) \/ m.type \in T
        /\ \A T : AtMostOne(U, T) <=> AtMostOne(U2, T) /\ (m.type \in T => ~Has(U2, T))
    BY <1>h, HasTail
  <2>2. \A T1, T2 : T1 \cap T2 = {} =>
            (Before(U, T1, T2) <=> Before(U2, T1, T2) /\ (m.type \in T2 => ~Has(U2, T1)))
    BY <1>h, OrderTail
  <2>3. QED
    BY <2>1, <2>2
<1>2. ASSUME NEW r \in Request, NEW q \in Seq(Request), q = Append(p, r)
      PROVE  /\ \A T : Queued(q, g, T) <=> Queued(p, g, T) \/ (r.from = g /\ r.type \in T)
             /\ QueuedOnce(q, g) <=> QueuedOnce(p, g) /\ (r.from = g => ~Queued(p, g, REQ))
  <2>1. p \in Seq(Request)
    BY DirEntryFacts
  <2>2. QED
    BY <1>2, <2>1, QueueAppend
<1>a. TAKE r \in Request, e \in DirEntry
<1>b. HAVE r.type = m.type /\ r.from = g /\ e.sharers = d.sharers /\ (e.owned <=> d.owned)
           /\ e.sent = d.sent /\ e.queue = Append(p, r)
<1>c. /\ \A T : Queued(e.queue, g, T) <=> Queued(d.queue, g, T) \/ m.type \in T
      /\ QueuedOnce(e.queue, g) <=> QueuedOnce(d.queue, g) /\ ~Queued(d.queue, g, REQ)
  <2>1. e.queue \in Seq(Request)
    BY DirEntryFacts
  <2>2. QED
    BY <1>2, <1>b, <2>1
<1>3. Blocks(g, d) => /\ Blocks(g, e) /\ Head(e.queue).type = Head(d.queue).type
                      /\ ForwardType(e) = ForwardType(d)
  BY <1>b, BlocksGrows
<1>4. /\ m.type \notin GONE /\ m.type \notin {"WB_REP"} /\ {"WB_REP"} \cap GONE = {}
      /\ GONE \cap {"SH_REQ", "EX_REQ"} = {} /\ m.type \notin {"FLUSH_REP"}
      /\ m.type \notin {"WB_REP", "FLUSH_REP"} /\ m.type \notin GONE \cup {"WB_REP"}
      /\ m.type \in {"SH_REQ", "EX_REQ"} \/ m.type \in {"UPGRADE_REQ"}
  BY DEF REQ, GONE
<1>5. /\ Asked(g, U2, D, e) <=> Asked(g, U, D, d)
      /\ Upgrading(g, U2, D, e) <=> Upgrading(g, U, D, d)
  BY <1>1, <1>b, <1>c DEF Asked, Upgrading
<1>6. RequestOnce(g, U2, D, e)
  BY <1>1, <1>b, <1>c DEF LinkInv, RequestOnce
<1>7. RequestState(g, st, U2, D, e)
  BY <1>5 DEF LinkInv, RequestState
<1>8. Believed(g, st, U2, D, e)
  BY <1>1, <1>b, <1>4 DEF LinkInv, Believed
<1>9. GoneOrder(g, st, U2, D, e)
  BY <1>1, <1>b, <1>c, <1>3, <1>4, <1>5 DEF LinkInv, GoneOrder
<1>10. WrittenBackOrder(g, st, U2, D, e)
  BY <1>1, <1>b, <1>3, <1>4 DEF LinkInv, WrittenBackOrder
<1>11. ForwardOrder(g, st, U2, D, e)
  BY <1>1, <1>b, <1>3, <1>4 DEF LinkInv, ForwardOrder
<1>12. QED
  BY <1>5, <1>6, <1>7, <1>8, <1>9, <1>10, <1>11 DEF LinkInv

(* What another LLC told the directory, or an answer to it, leaves the     *)
(* link of g as it is.                                                     *)
Alike(g, d, e) ==
    /\ g \in e.sharers <=> g \in d.sharers
    /\ \A T : Queued(e.queue, g, T) <=> Queued(d.queue, g, T)
    /\ QueuedOnce(d.queue, g) => QueuedOnce(e.queue, g)
    /\ g \in d.sharers =>
          /\ e.owned <=> d.owned
          /\ Blocks(g, d) => /\ Blocks(g, e) /\ Head(e.queue).type = Head(d.queue).type
                             /\ ForwardType(e) = ForwardType(d)

LEMMA LinkOther ==
    ASSUME NEW g \in Llc, NEW st \in CState, NEW U \in Seq(Message), NEW D \in Seq(Message),
           NEW d \in DirEntry, LinkInv(g, st, U, D, d), NEW e \in DirEntry, Alike(g, d, e)
    PROVE  /\ LinkInv(g, st, U, D, e)
           /\ Asked(g, U, D, e) <=> Asked(g, U, D, d)
           /\ Upgrading(g, U, D, e) <=> Upgrading(g, U, D, d)
<1>1. /\ Asked(g, U, D, e) <=> Asked(g, U, D, d)
      /\ Upgrading(g, U, D, e) <=> Upgrading(g, U, D, d)
  BY DEF Asked, Upgrading, Alike
<1>2. RequestOnce(g, U, D, e)
  BY DEF LinkInv, RequestOnce, Alike
<1>3. RequestState(g, st, U, D, e)
  BY <1>1 DEF LinkInv, RequestState
<1>4. Believed(g, st, U, D, e)
  BY DEF LinkInv, Believed, Alike
<1>5. GoneOrder(g, st, U, D, e)
  BY <1>1 DEF LinkInv, Believed, GoneOrder, Alike
<1>6. WrittenBackOrder(g, st, U, D, e)
  <2>1. Has(U, {"WB_REP"}) => Has(U, {"WB_REP", "FLUSH_REP"})
    BY HasSplit
  <2>2. QED
    BY <2>1 DEF LinkInv, Believed, WrittenBackOrder, Alike
<1>7. ForwardOrder(g, st, U, D, e)
  BY DEF LinkInv, ForwardOrder, Alike
<1>8. QED
  BY <1>1, <1>2, <1>3, <1>4, <1>5, <1>6, <1>7 DEF LinkInv

(* The directory tells g, or others only, of the first request.            *)
LEMMA LinkForwarded ==
    ASSUME NEW g \in Llc, NEW st \in CState, NEW U \in Seq(Message), NEW D \in Seq(Message),
           NEW d \in DirEntry, LinkInv(g, st, U, D, d), d.queue # <<>>, ~d.sent,
           NEW m \in Message, m.type = ForwardType(d),
           NEW e \in DirEntry, e.sharers = d.sharers, e.owned <=> d.owned, e.queue = d.queue, e.sent,
           NEW D2 \in Seq(Message), D2 = IF g \in Conflicting(d) THEN Append(D, m) ELSE D
    PROVE  /\ LinkInv(g, st, U, D2, e)
           /\ Asked(g, U, D2, e) <=> Asked(g, U, D, d)
           /\ Upgrading(g, U, D2, e) <=> Upgrading(g, U, D, d)
<1>1. ~Blocks(g, d)
  BY DEF Blocks
<1>2. e.owned = d.owned
  BY DirEntryFacts
<1>3. Conflicting(e) = Conflicting(d) /\ ForwardType(e) = ForwardType(d)
  BY <1>2 DEF Conflicting, ForwardType
<1>4. CASE g \notin Conflicting(d)
  <2>1. D2 = D
    BY <1>4
  <2>2. Alike(g, d, e)
    BY <1>1 DEF Alike
  <2>3. QED
    BY <2>1, <2>2, LinkOther
<1>5. CASE g \in Conflicting(d)
  <2>0. D2 = Append(D, m) /\ Blocks(g, e)
    BY <1>3, <1>5 DEF Blocks
  <2>1. /\ \A T : Has(D2, T) <=> Has(D, T) \/ m.type \in T
        /\ \A T : AtMostOne(D2, T) <=> AtMostOne(D, T) /\ (m.type \in T => ~Has(D, T))
        /\ \A T1, T2 : T1 \cap T2 = {} =>
              (Before(D2, T1, T2) <=> Before(D, T1, T2) /\ (m.type \in T1 => ~Has(D, T2)))
    BY <2>0, HasAppend, OrderAppend
  <2>2. /\ \A T : Fresh(D2, T) <=> \/ m.type \in T /\ m.type \in FWD
                                   \/ m.type \notin REP /\ Fresh(D, T)
        /\ FreshOnce(D2) <=> \/ m.type \in REP
                             \/ FreshOnce(D) /\ (m.type \in FWD => ~Fresh(D, FWD))
    BY <2>0, FreshAppend
  <2>3. /\ m.type \in FWD /\ m.type \notin REP /\ m.type \notin {"EX_REP", "UPGRADE_REP"}
        /\ m.type \notin {"UPGRADE_REP"} /\ REP \cap FWD = {}
    BY ForwardTypes DEF FWD, REP
  <2>4. g \in d.sharers
    <3>1. PICK r \in Request : r = Head(d.queue)
      BY TailFacts, DirEntryFacts
    <3>2. r.type \in REQ
      BY DEF Request
    <3>3. QED
      BY <1>5, <3>1, <3>2 DEF Conflicting, REQ
  <2>5. ~Fresh(D, FWD) /\ \A t \in FWD : ~Fresh(D, {t})
    BY <1>1, <2>4, HasSplit DEF LinkInv, ForwardOrder
  <2>6. /\ Asked(g, U, D2, e) <=> Asked(g, U, D, d)
        /\ Upgrading(g, U, D2, e) <=> Upgrading(g, U, D, d)
    BY <2>1, <2>3 DEF Asked, Upgrading
  <2>7. RequestOnce(g, U, D2, e)
    BY <2>1, <2>3 DEF LinkInv, RequestOnce
  <2>8. RequestState(g, st, U, D2, e)
    BY <2>6 DEF LinkInv, RequestState
  <2>9. Believed(g, st, U, D2, e)
    BY <2>1, <2>3 DEF LinkInv, Believed
  <2>10. GoneOrder(g, st, U, D2, e)
    BY <1>1, <2>1, <2>3, <2>6 DEF LinkInv, GoneOrder
  <2>11. WrittenBackOrder(g, st, U, D2, e)
    BY <1>1 DEF LinkInv, WrittenBackOrder
  <2>12. ForwardOrder(g, st, U, D2, e)
    <3>1. ~Has(U, {"WB_REP"})
      BY <1>1 DEF LinkInv, WrittenBackOrder
    <3>2. \A t \in FWD : Fresh(D2, {t}) => t = m.type
      BY <2>2, <2>5
    <3>3. FreshOnce(D2) /\ (st # "INVALID" => Before(D2, REP, FWD))
      BY <2>1, <2>2, <2>3, <2>5 DEF LinkInv, ForwardOrder
    <3>4. QED
      BY <1>3, <2>0, <3>1, <3>2, <3>3 DEF ForwardOrder
  <2>13. QED
    BY <2>6, <2>7, <2>8, <2>9, <2>10, <2>11, <2>12 DEF LinkInv
<1>6. QED
  BY <1>4, <1>5

(* The directory answers the request of g.                                 *)
LinksReplied(g, st, U, D, D2, d, r, p, m) ==
    \A e \in DirEntry :
        /\ r.from = g /\ e.sharers = d.sharers \cup {g} /\ e.queue = p
        /\ r.type # "SH_REQ" => e.owned
        /\ m.type = IF r.type = "UPGRADE_REQ" THEN "UPGRADE_REP"
                    ELSE IF e.owned THEN "EX_REP" ELSE "SH_REP"
        => /\ LinkInv(g, st, U, D2, e)
           /\ Asked(g, U, D, d)
           /\ Upgrading(g, U, D2, e) => Upgrading(g, U, D, d)

LEMMA LinkReplied ==
    ASSUME NEW g \in Llc, NEW st \in CState, NEW U \in Seq(Message), NEW D \in Seq(Message),
           NEW d \in DirEntry, LinkInv(g, st, U, D, d), d.queue # <<>>, Conflicting(d) = {},
           NEW m \in Message, NEW D2 \in Seq(Message), D2 = Append(D, m),
           NEW r \in Request, r = Head(d.queue), NEW p \in Seq(Request), p = Tail(d.queue)
    PROVE  LinksReplied(g, st, U, D, D2, d, r, p, m)
<1>s. SUFFICES
    \A e \in DirEntry :
        /\ r.from = g /\ e.sharers = d.sharers \cup {g} /\ e.queue = p
        /\ r.type # "SH_REQ" => e.owned
        /\ m.type = IF r.type = "UPGRADE_REQ" THEN "UPGRADE_REP"
                    ELSE IF e.owned THEN "EX_REP" ELSE "SH_REP"
        => /\ LinkInv(g, st, U, D2, e)
           /\ Asked(g, U, D, d)
           /\ Upgrading(g, U, D2, e) => Upgrading(g, U, D, d)
  BY DEF LinksReplied
<1>1. /\ \A T : Has(D2, T) <=> Has(D, T) \/ m.type \in T
      /\ \A T : AtMostOne(D2, T) <=> AtMostOne(D, T) /\ (m.type \in T => ~Has(D, T))
      /\ \A T1, T2 : T1 \cap T2 = {} =>
            (Before(D2, T1, T2) <=> Before(D, T1, T2) /\ (m.type \in T1 => ~Has(D, T2)))
  BY HasAppend, OrderAppend
<1>2. /\ \A T : Fresh(D2, T) <=> \/ m.type \in T /\ m.type \in FWD
                                 \/ m.type \notin REP /\ Fresh(D, T)
      /\ FreshOnce(D2) <=> \/ m.type \in REP
                           \/ FreshOnce(D) /\ (m.type \in FWD => ~Fresh(D, FWD))
  BY FreshAppend
<1>a. /\ \A T : Queued(d.queue, g, T) <=> Queued(p, g, T) \/ (r.from = g /\ r.type \in T)
      /\ QueuedOnce(d.queue, g) => QueuedOnce(p, g) /\ (r.from = g => ~Queued(p, g, REQ))
  <2>1. d.queue \in Seq(Request)
    BY DirEntryFacts
  <2>2. Dequeued(d.queue, r, p, g)
    BY <2>1, FirstDequeued
  <2>3. QED
    BY <2>2 DEF Dequeued
<1>b. TAKE e \in DirEntry
<1>c. HAVE /\ r.from = g /\ e.sharers = d.sharers \cup {g} /\ e.queue = p
           /\ r.type # "SH_REQ" => e.owned
           /\ m.type = IF r.type = "UPGRADE_REQ" THEN "UPGRADE_REP"
                       ELSE IF e.owned THEN "EX_REP" ELSE "SH_REP"
<1>3. /\ \A T : Queued(d.queue, g, T) <=> Queued(e.queue, g, T) \/ r.type \in T
      /\ QueuedOnce(d.queue, g) => QueuedOnce(e.queue, g) /\ ~Queued(e.queue, g, REQ)
  BY <1>a, <1>c
<1>4. /\ m.type \in REP /\ m.type \notin FWD /\ REP \cap FWD = {} /\ r.type \in REQ
      /\ m.type \in {"UPGRADE_REP"} <=> r.type = "UPGRADE_REQ"
      /\ m.type \in {"EX_REP", "UPGRADE_REP"} <=> e.owned
      /\ r.type \in {"SH_REQ", "EX_REQ"} \/ r.type \in {"UPGRADE_REQ"}
  BY <1>c DEF REP, FWD, Request, REQ
<1>5. /\ Has(U, {"UPGRADE_REQ"}) => Has(U, REQ)
      /\ Has(D, {"UPGRADE_REP"}) => Has(D, REP)
      /\ Has(D, {"EX_REP", "UPGRADE_REP"}) => Has(D, REP)
      /\ Queued(e.queue, g, {"UPGRADE_REQ"}) => Queued(e.queue, g, REQ)
      /\ Has(U, {"WB_REP", "FLUSH_REP"}) => Has(U, {"WB_REP"}) \/ Has(U, GONE)
      /\ Has(D, FWD) /\ ~Has(D, REP) => Fresh(D, FWD)
  BY HasSplit, QueuedSplit
<1>6. ~Blocks(g, d)
  BY DEF Blocks
<1>7. Queued(d.queue, g, REQ) /\ Asked(g, U, D, d)
  BY <1>3, <1>4 DEF Asked
<1>8. ~Has(U, REQ) /\ ~Has(D, REP) /\ ~Queued(e.queue, g, REQ)
  BY <1>3, <1>7 DEF LinkInv, RequestOnce
<1>9. st \in {"INVALID", "SHARED_UPGRADING"}
  BY <1>7 DEF LinkInv, RequestState
<1>10. ~Has(U, {"WB_REP"}) /\ ~Has(U, GONE)
  BY <1>3, <1>4, <1>6 DEF LinkInv, GoneOrder, WrittenBackOrder, Upgrading
<1>11. Upgrading(g, U, D2, e) <=> Upgrading(g, U, D, d)
  BY <1>1, <1>3, <1>4, <1>5, <1>8 DEF Upgrading
<1>12. RequestOnce(g, U, D2, e)
  BY <1>1, <1>3, <1>8 DEF LinkInv, RequestOnce
<1>13. RequestState(g, st, U, D2, e)
  BY <1>9, <1>11 DEF LinkInv, RequestState
<1>14. Believed(g, st, U, D2, e)
  BY <1>1, <1>c, <1>4, <1>5, <1>8, <1>9, <1>10 DEF Believed, OwnerState
<1>15. GoneOrder(g, st, U, D2, e)
  BY <1>10 DEF LinkInv, GoneOrder
<1>16. WrittenBackOrder(g, st, U, D2, e)
  BY <1>10 DEF WrittenBackOrder
<1>17. ForwardOrder(g, st, U, D2, e)
  <2>1. st # "INVALID" => ~Has(D, FWD)
    BY <1>5, <1>6, <1>8 DEF LinkInv, Believed, ForwardOrder
  <2>2. QED
    BY <1>1, <1>2, <1>4, <2>1 DEF LinkInv, ForwardOrder
<1>18. QED
  BY <1>7, <1>11, <1>12, <1>13, <1>14, <1>15, <1>16, <1>17 DEF LinkInv

LEMMA SameFacts ==
    ASSUME NEW s \in Seq(Message), NEW t \in Seq(Message), SameTypes(t, s)
    PROVE  /\ \A T : (Has(t, T) <=> Has(s, T)) /\ (AtMostOne(t, T) <=> AtMostOne(s, T))
           /\ \A T1, T2 : Before(t, T1, T2) <=> Before(s, T1, T2)
           /\ \A T : Fresh(t, T) <=> Fresh(s, T)
           /\ FreshOnce(t) <=> FreshOnce(s)
<1>1. DOMAIN t = DOMAIN s /\ \A i \in DOMAIN s : t[i].type = s[i].type
  BY DEF SameTypes
<1>2. \A i \in DOMAIN s : Unanswered(t, i) <=> Unanswered(s, i)
  BY <1>1 DEF Unanswered
<1>3. \A T : (Has(t, T) <=> Has(s, T)) /\ (AtMostOne(t, T) <=> AtMostOne(s, T))
  BY <1>1 DEF Has, AtMostOne
<1>4. \A T1, T2 : Before(t, T1, T2) <=> Before(s, T1, T2)
  BY <1>1 DEF Before
<1>5. \A T : Fresh(t, T) <=> Fresh(s, T)
  BY <1>1, <1>2 DEF Fresh
<1>6. FreshOnce(t) <=> FreshOnce(s)
  BY <1>1, <1>2 DEF FreshOnce
<1>7. QED
  BY <1>3, <1>4, <1>5, <1>6

(* Outdated messages, or a line that is written, leave the link as it is.  *)
LEMMA LinkSame ==
    ASSUME NEW g \in Llc, NEW st \in CState, NEW U \in Seq(Message), NEW D \in Seq(Message),
           NEW d \in DirEntry, LinkInv(g, st, U, D, d),
           NEW st2 \in CState, st2 = st \/ (st \in OwnerState /\ st2 \in OwnerState),
           NEW U2 \in Seq(Message), SameTypes(U2, U), NEW D2 \in Seq(Message), SameTypes(D2, D)
    PROVE  /\ LinkInv(g, st2, U2, D2, d)
           /\ Asked(g, U2, D2, d) <=> Asked(g, U, D, d)
           /\ Upgrading(g, U2, D2, d) <=> Upgrading(g, U, D, d)
<1>1. /\ \A T : (Has(U2, T) <=> Has(U, T)) /\ (AtMostOne(U2, T) <=> AtMostOne(U, T))
      /\ \A T1, T2 : Before(U2, T1, T2) <=> Before(U, T1, T2)
  BY SameFacts
<1>2. /\ \A T : (Has(D2, T) <=> Has(D, T)) /\ (AtMostOne(D2, T) <=> AtMostOne(D, T))
      /\ \A T1, T2 : Before(D2, T1, T2) <=> Before(D, T1, T2)
      /\ \A T : Fresh(D2, T) <=> Fresh(D, T)
      /\ FreshOnce(D2) <=> FreshOnce(D)
  BY SameFacts
<1>3. /\ st2 \in OwnerState <=> st \in OwnerState
      /\ st2 = "INVALID" <=> st = "INVALID"
      /\ st2 = "SHARED_UPGRADING" <=> st = "SHARED_UPGRADING"
  BY DEF OwnerState
<1>4. /\ Asked(g, U2, D2, d) <=> Asked(g, U, D, d)
      /\ Upgrading(g, U2, D2, d) <=> Upgrading(g, U, D, d)
  BY <1>1, <1>2 DEF Asked, Upgrading
<1>5. RequestOnce(g, U2, D2, d)
  BY <1>1, <1>2 DEF LinkInv, RequestOnce
<1>6. RequestState(g, st2, U2, D2, d)
  BY <1>3, <1>4 DEF LinkInv, RequestState
<1>7. Believed(g, st2, U2, D2, d)
  BY <1>1, <1>2, <1>3 DEF LinkInv, Believed
<1>8. GoneOrder(g, st2, U2, D2, d)
  BY <1>1, <1>2, <1>3, <1>4 DEF LinkInv, GoneOrder
<1>9. WrittenBackOrder(g, st2, U2, D2, d)
  BY <1>1, <1>2, <1>3 DEF LinkInv, WrittenBackOrder
<1>10. ForwardOrder(g, st2, U2, D2, d)
  BY <1>1, <1>2, <1>3 DEF LinkInv, ForwardOrder
<1>11. QED
  BY <1>4, <1>5, <1>6, <1>7, <1>8, <1>9, <1>10 DEF LinkInv
-----------------------------------------------------------------------------
(* The link of g for the block b, and who waits for it: q is the queue of  *)
(* waiters, n the block whose waiter is served.                            *)
LinkedAt(g, b, st, U, D, d, q, n) ==
    /\ LinkInv(g, st, U, D, d)
    /\ Asked(g, U, D, d) => q # <<>> /\ n # b
    /\ Upgrading(g, U, D, d) => Head(q).exclusive

LEMMA DirectoryParts ==
    DirectoryInv <=>
        \A b \in Block :
            /\ OwnerAlone(dir[b])
            /\ \A g \in Llc : LinkedAt(g, b, llc[g][b].st, up[g][b], down[g][b], dir[b], waiters[g][b], net[g])
  BY DEF DirectoryInv, LinkedAt, WaitsInv

LEMMA DirectoryPartsNext ==
    DirectoryInv' <=>
        \A b \in Block :
            /\ OwnerAlone(dir'[b])
            /\ \A g \in Llc : LinkedAt(g, b, llc'[g][b].st, up'[g][b], down'[g][b], dir'[b], waiters'[g][b], net'[g])
  BY DEF DirectoryInv, LinkedAt, WaitsInv

LEMMA UpgradingAsks ==
    ASSUME NEW g, NEW U, NEW D, NEW d, Upgrading(g, U, D, d)
    PROVE  Asked(g, U, D, d)
  BY HasSplit, QueuedSplit DEF Upgrading, Asked

(* The parts of the state that the link of g for b is about.               *)
LEMMA PartTypes ==
    ASSUME TypeOK
    PROVE  /\ \A g \in Llc, b \in Block :
                /\ llc[g][b] \in Line /\ llc[g][b].st \in CState
                /\ up[g][b] \in Seq(Message) /\ down[g][b] \in Seq(Message)
                /\ waiters[g][b] \in Seq(Waiter) /\ net[g] \in Block \cup {NoBlock}
           /\ \A b \in Block : dir[b] \in DirEntry
<1>1. CacheType /\ HandoverType /\ dir \in [Block -> DirEntry]
  BY TypeParts, DirEntryFacts
<1>2. QED
  BY <1>1, LineFacts DEF CacheType, HandoverType, LlcType, ChannelType, WaiterType

LEMMA PartTypesNext ==
    ASSUME TypeOK'
    PROVE  /\ \A g \in Llc, b \in Block :
                /\ llc'[g][b] \in Line /\ llc'[g][b].st \in CState
                /\ up'[g][b] \in Seq(Message) /\ down'[g][b] \in Seq(Message)
                /\ waiters'[g][b] \in Seq(Waiter) /\ net'[g] \in Block \cup {NoBlock}
           /\ \A b \in Block : dir'[b] \in DirEntry
<1>1. CacheType' /\ HandoverType' /\ dir' \in [Block -> DirEntry]
  BY TypePartsNext, DirEntryFacts
<1>2. QED
  BY <1>1, LineFacts DEF CacheType, HandoverType, LlcType, ChannelType, WaiterType

LEMMA LinkedSame ==
    \A g \in Llc, st, st2 \in CState, U, U2, D, D2 \in Seq(Message), d \in DirEntry : \A b, q, n :
        /\ LinkedAt(g, b, st, U, D, d, q, n)
        /\ st2 = st \/ (st \in OwnerState /\ st2 \in OwnerState)
        /\ SameTypes(U2, U) /\ SameTypes(D2, D)
        => LinkedAt(g, b, st2, U2, D2, d, q, n)
  BY LinkSame DEF LinkedAt

LEMMA SameTypesHere == \A s : SameTypes(s, s)
  BY DEF SameTypes

(* A step of a thread that asks for nothing.                               *)
LEMMA QuietKeeps ==
    ASSUME TypeOK, TypeOK', DirectoryInv, UNCHANGED <<waiters, net, dir>>,
           \A g \in Llc, b \in Block :
               /\ \/ llc'[g][b].st = llc[g][b].st
                  \/ llc[g][b].st \in OwnerState /\ llc'[g][b].st \in OwnerState
               /\ SameTypes(up'[g][b], up[g][b]) /\ SameTypes(down'[g][b], down[g][b])
    PROVE  DirectoryInv'
<1>1. ASSUME NEW g \in Llc, NEW b \in Block
      PROVE  LinkedAt(g, b, llc'[g][b].st, up'[g][b], down'[g][b], dir[b], waiters[g][b], net[g])
  <2>1. LinkedAt(g, b, llc[g][b].st, up[g][b], down[g][b], dir[b], waiters[g][b], net[g])
    BY DirectoryParts
  <2>2. /\ llc[g][b].st \in CState /\ up[g][b] \in Seq(Message) /\ down[g][b] \in Seq(Message)
        /\ llc'[g][b].st \in CState /\ up'[g][b] \in Seq(Message) /\ down'[g][b] \in Seq(Message)
        /\ dir[b] \in DirEntry
    BY PartTypes, PartTypesNext
  <2>3. PICK st, st2 \in CState, U, U2, D, D2 \in Seq(Message), d \in DirEntry :
           /\ st = llc[g][b].st /\ U = up[g][b] /\ D = down[g][b] /\ d = dir[b]
           /\ st2 = llc'[g][b].st /\ U2 = up'[g][b] /\ D2 = down'[g][b]
    BY <2>2
  <2>4. PICK q, n : q = waiters[g][b] /\ n = net[g]
    OBVIOUS
  <2>5. LinkedAt(g, b, st, U, D, d, q, n)
    BY <2>1, <2>3, <2>4
  <2>6. /\ st2 = st \/ (st \in OwnerState /\ st2 \in OwnerState)
        /\ SameTypes(U2, U) /\ SameTypes(D2, D)
    BY <2>3
  <2>7. LinkedAt(g, b, st2, U2, D2, d, q, n)
    BY <2>5, <2>6, LinkedSame
  <2>8. QED
    BY <2>3, <2>4, <2>7
<1>2. \A b \in Block : OwnerAlone(dir[b])
  BY DirectoryParts
<1>3. QED
  BY <1>1, <1>2, DirectoryPartsNext

(* A fill leaves the states of the LLC lines.                              *)
LEMMA FillStates ==
    \A c \in Core, L1 \in L1Type, LLC \in LlcType : \A v :
        v = NoBlock \/ v \in Block =>
            \A h \in Llc, x \in Block : FillLlc(c, v, L1, LLC)[h][x].st = LLC[h][x].st
<1> TAKE c \in Core, L1 \in L1Type, LLC \in LlcType
<1> TAKE v
<1> HAVE v = NoBlock \/ v \in Block
<1>1. ASSUME NEW b \in Block
      PROVE  \A h \in Llc, x \in Block : FillLlc(c, v, L1, LLC)[h][x].st = LLC[h][x].st
  <2>1. FilledLines(c, b, v, L1, LLC, FillL1(c, b, v, L1, LLC), FillLlc(c, v, L1, LLC))
    BY FillLineFacts
  <2>2. QED
    BY <2>1 DEF FilledLines
<1>2. QED
  BY <1>1

(* The LLC lines after a request of core c.                                *)
Requested(c, op, b, LLC) ==
    /\ \A h \in Llc, x \in Block : h # Master(c) \/ x # b => LLC[h][x] = llc[h][x]
    /\ LLC[Master(c)][b].st = IF op # "READ" /\ Serves(llc[Master(c)][b].st, op)
                              THEN "MODIFIED" ELSE llc[Master(c)][b].st

LEMMA LlcRequested ==
    ASSUME TypeOK, NEW c \in Core, NEW op \in Op, NEW b \in Block, NEW L1 \in L1Type
    PROVE  Requested(c, op, b, LlcAfterRequest(c, op, b, L1))
  BY LlcAfterRequestFacts DEF Requested

(* A line keeps its state, or stays with its owner.                        *)
SameOwner(st, st2) == st2 = st \/ (st \in OwnerState /\ st2 \in OwnerState)

LEMMA RequestLines ==
    ASSUME TypeOK, ~dramDirect, NEW c \in Core, NEW op \in Op, NEW b \in Block, NEW L1 \in L1Type,
           NEW LLC, LLC = LlcAfterRequest(c, op, b, L1)
    PROVE  /\ \A h \in Llc, x \in Block : SameOwner(llc[h][x].st, LLC[h][x].st)
           /\ ~Serves(llc[Master(c)][b].st, op) => \A h \in Llc, x \in Block : LLC[h][x].st = llc[h][x].st
<1>1. PICK g \in Llc : g = Master(c)
  BY MasterFacts
<1>2. PICK P \in BOOLEAN : P <=> op # "READ" /\ Serves(llc[g][b].st, op)
  OBVIOUS
<1>3. /\ \A h \in Llc, x \in Block : h # g \/ x # b => LLC[h][x] = llc[h][x]
      /\ LLC[g][b].st = IF P THEN "MODIFIED" ELSE llc[g][b].st
  BY <1>1, <1>2, LlcRequested DEF Requested
<1>4. P => llc[g][b].st \in OwnerState
  BY <1>2 DEF Serves, operationPermissibleinCache, OwnerState
<1>5. SameOwner(llc[g][b].st, LLC[g][b].st)
  BY <1>3, <1>4 DEF SameOwner, OwnerState
<1>6. \A h \in Llc, x \in Block : SameOwner(llc[h][x].st, LLC[h][x].st)
  BY <1>3, <1>5 DEF SameOwner
<1>7. ~Serves(llc[g][b].st, op) => \A h \in Llc, x \in Block : LLC[h][x].st = llc[h][x].st
  BY <1>2, <1>3
<1>8. QED
  BY <1>1, <1>6, <1>7

LEMMA FillQuiet ==
    ASSUME TypeOK, TypeOK', DirectoryInv, UNCHANGED <<waiters, net, dir>>,
           NEW c \in Core, NEW op \in Op, NEW b \in Block, NEW L1 \in L1Type,
           NEW LLC \in LlcType, NEW DRAM \in [Block -> BOOLEAN], NEW checks,
           FillAndComplete(c, op, b, L1, LLC, DRAM, checks),
           \A h \in Llc, x \in Block : SameOwner(llc[h][x].st, LLC[h][x].st)
    PROVE  DirectoryInv'
<1>1. PICK v : /\ v = NoBlock \/ v \in Block
               /\ Accessed(c, op, b, FillL1(c, b, v, L1, LLC), FillLlc(c, v, L1, LLC), DRAM)
  BY FillFacts
<1>2. \A h \in Llc, x \in Block : FillLlc(c, v, L1, LLC)[h][x].st = LLC[h][x].st
  BY <1>1, FillStates
<1>3. \A h \in Llc, x \in Block :
        /\ llc'[h][x].st = FillLlc(c, v, L1, LLC)[h][x].st
        /\ SameTypes(up'[h][x], up[h][x]) /\ SameTypes(down'[h][x], down[h][x])
  BY <1>1 DEF Accessed
<1>4. \A h \in Llc, x \in Block : SameOwner(llc[h][x].st, llc'[h][x].st)
  BY <1>2, <1>3
<1>5. QED
  BY <1>3, <1>4, QuietKeeps DEF SameOwner

(* The steps of a user thread that do not wait for the network thread.     *)
LEMMA UserQuiet ==
    ASSUME TypeOK, TypeOK', HandoverInv, DirectoryInv, ~dramDirect, NEW c \in Core,
           \/ \E op \in Op, b \in Block : Hit(c, op, b) \/ Miss(c, op, b)
           \/ MissHitsLlc(c) \/ Resume(c) \/ Unlock(c)
    PROVE  DirectoryInv'
<1>0. CacheType /\ HandoverType /\ dram \in [Block -> BOOLEAN]
  BY TypeParts DEF CacheType
<1>1. ASSUME NEW op \in Op, NEW b \in Block, Accessed(c, op, b, l1, llc, dram), UNCHANGED <<waiters, net, dir>>
      PROVE  DirectoryInv'
  <2>1. \A h \in Llc, x \in Block :
          /\ llc'[h][x].st = llc[h][x].st
          /\ SameTypes(up'[h][x], up[h][x]) /\ SameTypes(down'[h][x], down[h][x])
    BY <1>1 DEF Accessed
  <2>2. QED
    BY <1>1, <2>1, QuietKeeps
<1>2. ASSUME NEW op \in Op, NEW b \in Block, Hit(c, op, b)
      PROVE  DirectoryInv'
  <2>1. Accessed(c, op, b, l1, llc, dram) /\ UNCHANGED <<waiters, net, dir>>
    BY <1>0, <1>2, AccessFacts DEF Hit, Complete, CacheType
  <2>2. QED
    BY <1>1, <2>1
<1>3. ASSUME NEW op \in Op, NEW b \in Block, Miss(c, op, b)
      PROVE  DirectoryInv'
  <2>1. UNCHANGED <<llc, up, down, waiters, net, dir>>
    BY <1>3 DEF Miss
  <2>2. QED
    BY <2>1, QuietKeeps, SameTypesHere
<1>4. CASE MissHitsLlc(c)
  <2>1. PICK b \in Block, op \in Op : b = user[c].block /\ op = user[c].op
    <3>1. user[c].pc = "miss"
      BY <1>4 DEF MissHitsLlc, HasStackLock
    <3>2. QED
      BY <1>0, <3>1, RequestTypes
  <2>2. PICK L1 \in L1Type : L1 = OwnInvalidated(c)
    BY <1>0, <2>1, OwnInvalidatedFacts
  <2>3. PICK M \in L1Type, LLC \in LlcType :
          M = L1AfterRequest(c, op, b, L1) /\ LLC = LlcAfterRequest(c, op, b, L1)
    BY L1AfterRequestFacts, LlcAfterRequestFacts
  <2>4. FillAndComplete(c, op, b, M, LLC, dram, MissChecks(c)) /\ UNCHANGED <<waiters, net, dir>>
    BY <1>4, <2>1, <2>2, <2>3 DEF MissHitsLlc
  <2>5. \A h \in Llc, x \in Block : SameOwner(llc[h][x].st, LLC[h][x].st)
    BY <2>3, RequestLines
  <2>6. QED
    BY <1>0, <2>4, <2>5, FillQuiet
<1>5. CASE Resume(c)
  <2>1. PICK b \in Block, op \in Op : b = user[c].block /\ op = user[c].op
    <3>1. user[c].pc = "wait"
      BY <1>5 DEF Resume
    <3>2. QED
      BY <1>0, <3>1, RequestTypes
  <2>2. PICK L1 \in L1Type : L1 = l1
    BY <1>0 DEF CacheType
  <2>3. PICK M \in L1Type, LLC \in LlcType :
          M = L1AfterRequest(c, op, b, L1) /\ LLC = LlcAfterRequest(c, op, b, L1)
    BY L1AfterRequestFacts, LlcAfterRequestFacts
  <2>4. FillAndComplete(c, op, b, M, LLC, dram, RequestChecks(c)) /\ UNCHANGED <<waiters, net, dir>>
    BY <1>5, <2>1, <2>2, <2>3 DEF Resume
  <2>5. \A h \in Llc, x \in Block : SameOwner(llc[h][x].st, LLC[h][x].st)
    BY <2>3, RequestLines
  <2>6. QED
    BY <1>0, <2>4, <2>5, FillQuiet
<1>6. CASE Unlock(c)
  <2>1. PICK b \in Block : b = user[c].block
    BY <1>6 DEF Unlock, HandoverInv, UserInv
  <2>2. PICK op \in Op : op = "WRITE"
    BY DEF Op
  <2>3. Accessed(c, op, b, l1, llc, dram) /\ UNCHANGED <<waiters, net, dir>>
    BY <1>0, <1>6, <2>1, <2>2, AccessFacts DEF Unlock, Complete, CacheType
  <2>4. QED
    BY <1>1, <2>3
<1>7. QED
  BY <1>2, <1>3, <1>4, <1>5, <1>6
(* A link that asks, for a waiter that is queued and not served.           *)
LEMMA LinkedAsks ==
    ASSUME NEW g \in Llc, NEW st \in CState, NEW U \in Seq(Message), NEW D \in Seq(Message),
           NEW d \in DirEntry, LinkInv(g, st, U, D, d), ~Asked(g, U, D, d),
           NEW st2 \in CState, NEW m \in Message, NEW U2 \in Seq(Message), U2 = Append(U, m),
           \/ st = "INVALID" /\ st2 = "INVALID" /\ m.type \in {"SH_REQ", "EX_REQ"}
           \/ st = "SHARED" /\ st2 = "SHARED_UPGRADING" /\ m.type = "UPGRADE_REQ",
           NEW b, NEW q, NEW n, q # <<>>, n # b, m.type = "UPGRADE_REQ" => Head(q).exclusive
    PROVE  LinkedAt(g, b, st2, U2, D, d, q, n)
<1>1. LinkInv(g, st2, U2, D, d)
  BY LinkAsks
<1>2. Upgrading(g, U2, D, d) => m.type = "UPGRADE_REQ"
  <2>1. Has(U2, {"UPGRADE_REQ"}) <=> Has(U, {"UPGRADE_REQ"}) \/ m.type \in {"UPGRADE_REQ"}
    BY HasAppend
  <2>2. Has(U, {"UPGRADE_REQ"}) \/ Queued(d.queue, g, {"UPGRADE_REQ"}) \/ Has(D, {"UPGRADE_REP"})
        => Asked(g, U, D, d)
    BY UpgradingAsks DEF Upgrading
  <2>3. QED
    BY <2>1, <2>2 DEF Upgrading
<1>3. QED
  BY <1>1, <1>2 DEF LinkedAt

(* The link of g for b after a step, and a step that changes the links of  *)
(* g for the blocks b and v only.                                          *)
LinkedNext(g, b) == LinkedAt(g, b, llc'[g][b].st, up'[g][b], down'[g][b], dir'[b], waiters'[g][b], net'[g])

SameLink(h, x) ==
    /\ llc'[h][x].st = llc[h][x].st /\ up'[h][x] = up[h][x] /\ down'[h][x] = down[h][x]
    /\ waiters'[h][x] = waiters[h][x] /\ (net'[h] = x => net[h] = x)

LinksOf(g, b, v) == \A h \in Llc, x \in Block : h # g \/ (x # b /\ x # v) => SameLink(h, x)

LEMMA SameLinkKeeps ==
    ASSUME DirectoryInv, NEW h \in Llc, NEW x \in Block, SameLink(h, x), dir'[x] = dir[x]
    PROVE  LinkedNext(h, x)
<1>1. LinkedAt(h, x, llc[h][x].st, up[h][x], down[h][x], dir[x], waiters[h][x], net[h])
  BY DirectoryParts
<1>2. LinkedAt(h, x, llc[h][x].st, up[h][x], down[h][x], dir[x], waiters[h][x], net'[h])
  BY <1>1 DEF LinkedAt, SameLink
<1>3. QED
  BY <1>2 DEF LinkedNext, SameLink

LEMMA LinksKeep ==
    ASSUME DirectoryInv, UNCHANGED dir, NEW g \in Llc, NEW b \in Block, NEW v,
           LinksOf(g, b, v), LinkedNext(g, b), v \in Block => LinkedNext(g, v)
    PROVE  DirectoryInv'
<1>1. ASSUME NEW h \in Llc, NEW x \in Block
      PROVE  LinkedNext(h, x)
  <2>1. CASE h = g /\ (x = b \/ x = v)
    BY <2>1
  <2>2. CASE ~(h = g /\ (x = b \/ x = v))
    BY <2>2, SameLinkKeeps DEF LinksOf
  <2>3. QED
    BY <2>1, <2>2
<1>2. \A x \in Block : OwnerAlone(dir'[x])
  BY DirectoryParts
<1>3. \A h \in Llc, x \in Block :
        LinkedAt(h, x, llc'[h][x].st, up'[h][x], down'[h][x], dir'[x], waiters'[h][x], net'[h])
  BY <1>1 DEF LinkedNext
<1>4. QED
  BY <1>2, <1>3, DirectoryPartsNext

(* What a miss that has to wait does to the link of its block: P says that *)
(* it is the first, Q that it upgrades.                                    *)
Waited(c, b, op, g, P, Q, m, t) ==
    /\ waiters'[g][b] = t /\ t # <<>>
    /\ \A h \in Llc, x \in Block : h # g \/ x # b => waiters'[h][x] = waiters[h][x]
    /\ IF P THEN Head(t).exclusive <=> op # "READ" ELSE Head(t) = Head(waiters[g][b])
    /\ \A h \in Llc, x \in Block :
         llc'[h][x].st = IF Q /\ h = g /\ x = b THEN "SHARED_UPGRADING" ELSE llc[h][x].st
    /\ \A h \in Llc, x \in Block :
         up'[h][x] = IF P /\ h = g /\ x = b THEN Append(up[g][b], m) ELSE up[h][x]
    /\ m.type = IF op = "READ" THEN "SH_REQ" ELSE IF Q THEN "UPGRADE_REQ" ELSE "EX_REQ"

LEMMA WaitedFacts ==
    ASSUME TypeOK, HandoverInv, NEW c \in Core, MissWaits(c)
    PROVE  \E b \in Block, op \in Op, g \in Llc, P, Q \in BOOLEAN, m \in Message, t \in Seq(Waiter) :
             /\ P <=> waiters[g][b] = <<>>
             /\ Q <=> P /\ op # "READ" /\ llc[g][b].st = "SHARED"
             /\ ~Serves(llc[g][b].st, op)
             /\ Waited(c, b, op, g, P, Q, m, t)
             /\ UNCHANGED <<net, down, dir>>
<1>0. CacheType /\ HandoverType
  BY TypeParts
<1>1. PICK b \in Block, op \in Op : b = user[c].block /\ op = user[c].op
  <2>1. user[c].pc = "miss"
    BY DEF MissWaits, HasStackLock
  <2>2. QED
    BY <1>0, <2>1, RequestTypes
<1>2. PICK L1 \in L1Type : L1 = OwnInvalidated(c)
  BY <1>0, <1>1, OwnInvalidatedFacts
<1>3. PICK g \in Llc : g = Master(c)
  BY MasterFacts
<1>4. PICK LLC \in LlcType : LLC = LlcAfterRequest(c, op, b, L1)
  BY LlcAfterRequestFacts
<1>5. PICK P \in BOOLEAN : P <=> waiters[g][b] = <<>>
  OBVIOUS
<1>6. PICK Q \in BOOLEAN : Q <=> P /\ op # "READ" /\ llc[g][b].st = "SHARED"
  OBVIOUS
<1>7. PICK m \in Message :
        m = Msg(CASE op = "READ" -> "SH_REQ" [] Q -> "UPGRADE_REQ" [] OTHER -> "EX_REQ", FALSE)
  BY DEF Msg, Message
<1>8. m.type = IF op = "READ" THEN "SH_REQ" ELSE IF Q THEN "UPGRADE_REQ" ELSE "EX_REQ"
  BY <1>6, <1>7 DEF Msg
<1>9. PICK w \in Waiter : w = [core |-> c, exclusive |-> op # "READ"] /\ (w.exclusive <=> op # "READ")
  <2> DEFINE w == [core |-> c, exclusive |-> op # "READ"]
  <2>1. w \in Waiter /\ (w.exclusive <=> op # "READ")
    BY DEF Waiter
  <2>2. QED
    BY <2>1
<1>10. PICK s \in Seq(Waiter) : s = waiters[g][b]
  BY <1>0 DEF HandoverType, WaiterType
<1>11. PICK t \in Seq(Waiter) : t = Append(s, w)
  BY AppendFacts
<1>12. t # <<>> /\ Head(t) = (IF s = <<>> THEN w ELSE Head(s))
  BY <1>11, AppendFacts
<1>13. /\ ~Serves(llc[g][b].st, op)
       /\ llc' = IF Q THEN PutSt(LLC, g, b, "SHARED_UPGRADING") ELSE LLC
       /\ waiters' = Put(waiters, g, b, t)
       /\ up' = IF P THEN Sent(up, g, b, m) ELSE up
       /\ UNCHANGED <<net, down, dir>> /\ ~dramDirect
  BY <1>1, <1>2, <1>3, <1>4, <1>5, <1>6, <1>7, <1>9, <1>10, <1>11 DEF MissWaits, Put, PutSt
<1>14. \A h \in Llc, x \in Block : LLC[h][x].st = llc[h][x].st
  BY <1>3, <1>4, <1>13, RequestLines
<1>15. \A h \in Llc, x \in Block :
         llc'[h][x].st = IF Q /\ h = g /\ x = b THEN "SHARED_UPGRADING" ELSE llc[h][x].st
  <2>1. PICK su \in CState : su = "SHARED_UPGRADING"
    BY DEF CState
  <2>2. llc' = IF Q THEN PutSt(LLC, g, b, su) ELSE LLC
    BY <1>13, <2>1
  <2>3. QED
    BY <1>14, <2>1, <2>2, PutStFacts
<1>16. /\ waiters'[g][b] = t
       /\ \A h \in Llc, x \in Block : h # g \/ x # b => waiters'[h][x] = waiters[h][x]
  BY <1>0, <1>13, PutWaiters DEF HandoverType
<1>17. \A h \in Llc, x \in Block :
         up'[h][x] = IF P /\ h = g /\ x = b THEN Append(up[g][b], m) ELSE up[h][x]
  BY <1>0, <1>13, SentFacts DEF CacheType
<1>18. Waited(c, b, op, g, P, Q, m, t)
  BY <1>5, <1>8, <1>9, <1>10, <1>12, <1>15, <1>16, <1>17 DEF Waited
<1>19. QED
  BY <1>5, <1>6, <1>13, <1>18

LEMMA MissWaitsLinks ==
    ASSUME TypeOK, TypeOK', HandoverInv, DirectoryInv, NEW c \in Core, MissWaits(c)
    PROVE  DirectoryInv'
<1>1. PICK b \in Block, op \in Op, g \in Llc, P, Q \in BOOLEAN, m \in Message, t \in Seq(Waiter) :
        /\ P <=> waiters[g][b] = <<>>
        /\ Q <=> P /\ op # "READ" /\ llc[g][b].st = "SHARED"
        /\ ~Serves(llc[g][b].st, op)
        /\ Waited(c, b, op, g, P, Q, m, t)
        /\ UNCHANGED <<net, down, dir>>
  BY WaitedFacts
<1>2. LinkedAt(g, b, llc[g][b].st, up[g][b], down[g][b], dir[b], waiters[g][b], net[g])
  BY DirectoryParts
<1>3. /\ llc[g][b].st \in CState /\ up[g][b] \in Seq(Message) /\ down[g][b] \in Seq(Message)
      /\ llc'[g][b].st \in CState /\ up'[g][b] \in Seq(Message)
      /\ dir[b] \in DirEntry
  BY PartTypes, PartTypesNext
<1>4. LinksOf(g, b, b)
  BY <1>1 DEF Waited, LinksOf, SameLink
<1>5. CASE P
  <2>1. ~Asked(g, up[g][b], down[g][b], dir[b])
    BY <1>1, <1>2, <1>5 DEF LinkedAt
  <2>2. LinkInv(g, llc[g][b].st, up[g][b], down[g][b], dir[b])
    BY <1>2 DEF LinkedAt
  <2>3. llc[g][b].st # "SHARED_UPGRADING"
    BY <2>1, <2>2, UpgradingAsks DEF LinkInv, RequestState
  <2>4. t # <<>> /\ (m.type = "UPGRADE_REQ" => Head(t).exclusive)
    <3>1. (Head(t).exclusive <=> op # "READ") /\ t # <<>> /\ (m.type = "UPGRADE_REQ" => op # "READ")
      BY <1>1, <1>5 DEF Waited
    <3>2. QED
      BY <3>1
  <2>5. net[g] # b
    <3>1. 1 \notin DOMAIN waiters[g][b]
      BY <1>1, <1>5
    <3>2. net[g] # NoBlock => 1 \in DOMAIN waiters[g][net[g]]
      BY DEF HandoverInv, LockInv
    <3>3. QED
      BY <3>1, <3>2, CoresAssumption
  <2>6. up'[g][b] = Append(up[g][b], m)
    BY <1>1, <1>5 DEF Waited
  <2>7. \/ llc[g][b].st = "INVALID" /\ llc'[g][b].st = "INVALID" /\ m.type \in {"SH_REQ", "EX_REQ"}
        \/ llc[g][b].st = "SHARED" /\ llc'[g][b].st = "SHARED_UPGRADING" /\ m.type = "UPGRADE_REQ"
    <3>1. llc[g][b].st \in {"INVALID", "SHARED"} /\ (llc[g][b].st = "SHARED" => op # "READ")
      BY <1>1, <1>3, <2>3 DEF Serves, operationPermissibleinCache, CState, Readable
    <3>2. llc'[g][b].st = IF Q THEN "SHARED_UPGRADING" ELSE llc[g][b].st
      BY <1>1 DEF Waited
    <3>3. m.type = IF op = "READ" THEN "SH_REQ" ELSE IF Q THEN "UPGRADE_REQ" ELSE "EX_REQ"
      BY <1>1 DEF Waited
    <3>4. QED
      BY <1>1, <1>5, <3>1, <3>2, <3>3
  <2>8. LinkedAt(g, b, llc'[g][b].st, up'[g][b], down[g][b], dir[b], t, net[g])
    BY ZenonT(60), <1>3, <2>1, <2>2, <2>4, <2>5, <2>6, <2>7, LinkedAsks
  <2>9. LinkedNext(g, b)
    BY <1>1, <2>8 DEF Waited, LinkedNext
  <2>10. QED
    BY <1>1, <1>4, <2>9, LinksKeep
<1>6. CASE ~P
  <2>1. llc'[g][b].st = llc[g][b].st /\ up'[g][b] = up[g][b]
    BY <1>1, <1>6 DEF Waited
  <2>2. waiters'[g][b] = t /\ t # <<>> /\ Head(t) = Head(waiters[g][b])
    BY <1>1, <1>6 DEF Waited
  <2>3. LinkedAt(g, b, llc'[g][b].st, up'[g][b], down[g][b], dir[b], t, net[g])
    BY <1>2, <2>1, <2>2 DEF LinkedAt
  <2>4. LinkedNext(g, b)
    BY <1>1, <2>3 DEF Waited, LinkedNext
  <2>5. QED
    BY <1>1, <1>4, <2>4, LinksKeep
<1>7. QED
  BY <1>5, <1>6
-----------------------------------------------------------------------------
(* The steps of the network thread of an LLC.                              *)

(* The network thread serves the queue it has found, or what is left of it *)
(* after the waiter that has run.                                          *)
LEMMA QueueTaken ==
    ASSUME TypeOK, HandoverInv, NEW g \in Llc, NEW b \in Block, lock[g] = Free,
           NEW q \in Seq(Waiter), q = waiters[g][b],
           NEW queue \in Seq(Waiter), queue = q \/ (q # <<>> /\ queue = Tail(q)),
           NEW LLC \in LlcType, NEW UP \in ChannelType, ServeWaiters(g, b, queue, LLC, UP)
    PROVE  QueueServed(g, b, queue, LLC, UP)
<1>1. HandoverType
  BY TypeParts
<1>2. \A d \in L1sOf(g) : userSem[d] = 0
  <2>1. ~lock[g].excl
    BY DEF Free
  <2>2. \A d \in L1sOf(g) : d \in Core /\ Master(d) = g
    BY MasterFacts
  <2>3. \A d \in Core : userSem[d] \in {0, 1} /\ (userSem[d] = 1 => lock[Master(d)].excl)
    BY DEF HandoverInv, SemInv
  <2>4. QED
    BY <2>1, <2>2, <2>3
<1>3. \A i \in DOMAIN q : q[i].core \in L1sOf(g)
  BY DEF HandoverInv, WaiterInv
<1>4. queue # <<>> => queue[1].core \in L1sOf(g)
  <2>1. CASE queue = <<>>
    BY <2>1
  <2>2. CASE queue # <<>> /\ queue = q
    <3>1. 1 \in DOMAIN q
      BY <2>2, TailFacts
    <3>2. QED
      BY <1>3, <2>2, <3>1
  <2>3. CASE queue # <<>> /\ q # <<>> /\ queue = Tail(q)
    <3>1. 1 \in DOMAIN Tail(q)
      BY <2>3, TailFacts
    <3>2. Tail(q)[1] = q[2] /\ 2 \in DOMAIN q
      BY <2>3, <3>1, TailFacts
    <3>3. QED
      BY <1>3, <2>3, <3>2
  <2>4. QED
    BY <2>1, <2>2, <2>3
<1>5. QED
  BY <1>1, <1>2, <1>4, ServeFacts

(* An answered link, after its waiters have been served.                   *)
LEMMA ServedLinked ==
    ASSUME TypeOK', NEW g \in Llc, NEW b \in Block, NEW queue \in Seq(Waiter),
           NEW LLC \in LlcType, NEW UP \in ChannelType, QueueServed(g, b, queue, LLC, UP),
           LinkInv(g, LLC[g][b].st, UP[g][b], down'[g][b], dir'[b]),
           ~Asked(g, UP[g][b], down'[g][b], dir'[b])
    PROVE  LinkedNext(g, b)
<1>1. /\ LLC[g][b].st \in CState /\ UP[g][b] \in Seq(Message) /\ down'[g][b] \in Seq(Message)
      /\ llc'[g][b].st \in CState /\ up'[g][b] \in Seq(Message) /\ dir'[b] \in DirEntry
  BY PartTypesNext, LineFacts DEF LlcType, ChannelType
<1>2. b # NoBlock
  BY CoresAssumption
<1>3. CASE Upgrades(g, b, queue, LLC)
  <2>1. PICK m \in Message : m = Msg("UPGRADE_REQ", FALSE) /\ m.type = "UPGRADE_REQ"
    <3>1. "UPGRADE_REQ" \in REQ
      BY DEF REQ
    <3>2. QED
      BY <3>1, MsgFacts
  <2>2. /\ llc'[g][b].st = "SHARED_UPGRADING" /\ up'[g][b] = Append(UP[g][b], m)
        /\ net'[g] = NoBlock /\ waiters'[g][b] = queue
    BY <1>3, <2>1 DEF QueueServed, Wakes
  <2>3. queue # <<>> /\ Head(queue).exclusive /\ LLC[g][b].st = "SHARED"
    BY <1>3, TailFacts DEF Upgrades
  <2>4. LinkedAt(g, b, llc'[g][b].st, up'[g][b], down'[g][b], dir'[b], queue, net'[g])
    BY ZenonT(60), <1>1, <1>2, <2>1, <2>2, <2>3, LinkedAsks
  <2>5. QED
    BY <2>2, <2>4 DEF LinkedNext
<1>4. CASE ~Upgrades(g, b, queue, LLC)
  <2>1. llc'[g][b].st = LLC[g][b].st /\ up'[g][b] = UP[g][b]
    BY <1>4 DEF QueueServed
  <2>2. LinkedAt(g, b, LLC[g][b].st, UP[g][b], down'[g][b], dir'[b], waiters'[g][b], net'[g])
    BY UpgradingAsks DEF LinkedAt
  <2>3. QED
    BY <2>1, <2>2 DEF LinkedNext
<1>5. QED
  BY <1>3, <1>4

(* The other links while a queue is served; v is the block of an eviction. *)
LEMMA ServedOthers ==
    ASSUME NEW g \in Llc, NEW b \in Block, NEW v, NEW queue,
           NEW LLC, NEW UP, QueueServed(g, b, queue, LLC, UP),
           \A h \in Llc, x \in Block :
               h # g \/ (x # b /\ x # v) =>
                   LLC[h][x].st = llc[h][x].st /\ UP[h][x] = up[h][x] /\ down'[h][x] = down[h][x]
    PROVE  LinksOf(g, b, v)
<1>1. ASSUME NEW h \in Llc, NEW x \in Block, h # g \/ (x # b /\ x # v)
      PROVE  SameLink(h, x)
  <2>1. waiters'[h][x] = waiters[h][x] /\ llc'[h][x] = LLC[h][x] /\ up'[h][x] = UP[h][x]
    BY <1>1 DEF QueueServed
  <2>2. net'[h] = x => net[h] = x
    BY <1>1, CoresAssumption DEF QueueServed
  <2>3. QED
    BY <1>1, <2>1, <2>2 DEF SameLink
<1>2. QED
  BY <1>1 DEF LinksOf

LEMMA NetResumesLinks ==
    ASSUME TypeOK, TypeOK', HandoverInv, DirectoryInv, NEW g \in Llc, NetResumes(g)
    PROVE  DirectoryInv'
<1>0. CacheType /\ HandoverType
  BY TypeParts
<1>1. PICK b \in Block : b = net[g]
  BY <1>0, NetTypes DEF NetResumes
<1>2. PICK q \in Seq(Waiter) : q = waiters[g][b]
  BY <1>0 DEF HandoverType, WaiterType
<1>3. q # <<>>
  <2>1. 1 \in DOMAIN q
    BY <1>1, <1>2, CoresAssumption DEF HandoverInv, LockInv
  <2>2. QED
    BY <2>1, EmptySeq
<1>4. PICK queue \in Seq(Waiter) : queue = Tail(q)
  BY <1>3, TailFacts
<1>5. ServeWaiters(g, b, queue, llc, up) /\ lock[g] = Free /\ UNCHANGED <<down, dir>>
  BY <1>1, <1>2, <1>4 DEF NetResumes
<1>6. PICK LLC \in LlcType, UP \in ChannelType : LLC = llc /\ UP = up
  BY <1>0 DEF CacheType
<1>7. QueueServed(g, b, queue, LLC, UP)
  BY <1>2, <1>3, <1>4, <1>5, <1>6, QueueTaken
<1>8. /\ LinkInv(g, LLC[g][b].st, UP[g][b], down'[g][b], dir'[b])
      /\ ~Asked(g, UP[g][b], down'[g][b], dir'[b])
  <2>1. LinkedAt(g, b, llc[g][b].st, up[g][b], down[g][b], dir[b], waiters[g][b], net[g])
    BY DirectoryParts
  <2>2. QED
    BY <1>1, <1>5, <1>6, <2>1 DEF LinkedAt
<1>9. LinkedNext(g, b)
  BY <1>7, <1>8, ServedLinked
<1>10. LinksOf(g, b, b)
  BY <1>5, <1>6, <1>7, ServedOthers
<1>11. QED
  BY <1>5, <1>9, <1>10, LinksKeep
(* A message of the directory is taken.                                    *)
LEMMA DownTaken ==
    ASSUME TypeOK, NEW g \in Llc, NEW b \in Block, down[g][b] # <<>>,
           down' = [down EXCEPT ![g][b] = Tail(@)]
    PROVE  /\ Head(down[g][b]) \in Message
           /\ down'[g][b] = Tail(down[g][b])
           /\ \A h \in Llc, x \in Block : h # g \/ x # b => down'[h][x] = down[h][x]
<1>1. PICK chan \in ChannelType : chan = down
  BY TypeParts DEF CacheType
<1>2. chan[g][b] \in Seq(Message) /\ chan[g][b] # <<>>
  BY <1>1 DEF ChannelType
<1>3. PICK s \in Seq(Message), m \in Message : s = Tail(chan[g][b]) /\ m = Head(chan[g][b])
  BY <1>2, TailFacts
<1>4. down' = Put(chan, g, b, s)
  BY <1>1, <1>3 DEF Put
<1>5. /\ Put(chan, g, b, s)[g][b] = s
      /\ \A h \in Llc, x \in Block : h # g \/ x # b => Put(chan, g, b, s)[h][x] = chan[h][x]
  BY PutChannel
<1>6. PICK G : G = Put(chan, g, b, s)
  OBVIOUS
<1>7. G[g][b] = s /\ \A h \in Llc, x \in Block : h # g \/ x # b => G[h][x] = chan[h][x]
  BY <1>5, <1>6
<1>8. down' = G
  BY <1>4, <1>6
<1>9. QED
  BY ZenonT(60), <1>1, <1>3, <1>7, <1>8

LEMMA HandleUpgradeRepLinks ==
    ASSUME TypeOK, TypeOK', HandoverInv, DirectoryInv, NEW g \in Llc, NEW b \in Block, HandleUpgradeRep(g, b)
    PROVE  DirectoryInv'
<1>0. CacheType /\ HandoverType
  BY TypeParts
<1>1. lock[g] = Free /\ net[g] = NoBlock /\ down[g][b] # <<>> /\ Head(down[g][b]).type = "UPGRADE_REP"
  BY DEF HandleUpgradeRep, Received
<1>2. PICK LLC \in LlcType :
        /\ LLC[g][b].st = "MODIFIED"
        /\ \A h \in Llc, x \in Block : h # g \/ x # b => LLC[h][x] = llc[h][x]
        /\ ServeWaiters(g, b, waiters[g][b], LLC, up)
        /\ down' = [down EXCEPT ![g][b] = Tail(@)]
        /\ UNCHANGED <<dir, user, netSem>>
  BY UpgradeRepFacts
<1>3. PICK q \in Seq(Waiter), UP \in ChannelType : q = waiters[g][b] /\ UP = up
  BY <1>0 DEF HandoverType, WaiterType, CacheType
<1>4. QueueServed(g, b, q, LLC, UP)
  BY <1>1, <1>2, <1>3, QueueTaken
<1>5. /\ down'[g][b] = Tail(down[g][b]) /\ Head(down[g][b]) \in Message
      /\ \A h \in Llc, x \in Block : h # g \/ x # b => down'[h][x] = down[h][x]
  BY <1>1, <1>2, DownTaken
<1>6. LinkInv(g, "MODIFIED", up[g][b], down'[g][b], dir[b]) /\ ~Asked(g, up[g][b], down'[g][b], dir[b])
  <2>1. LinkedAt(g, b, llc[g][b].st, up[g][b], down[g][b], dir[b], waiters[g][b], net[g])
    BY DirectoryParts
  <2>2. LinkInv(g, llc[g][b].st, up[g][b], down[g][b], dir[b])
    BY <2>1 DEF LinkedAt
  <2>3. /\ llc[g][b].st \in CState /\ up[g][b] \in Seq(Message) /\ down[g][b] \in Seq(Message)
        /\ down'[g][b] \in Seq(Message) /\ dir[b] \in DirEntry
    BY PartTypes, PartTypesNext
  <2>4. PICK m \in Message : m = Head(down[g][b]) /\ m.type = "UPGRADE_REP"
    BY <1>1, <1>5
  <2>5. Begins(down[g][b], m, down'[g][b])
    BY <1>1, <1>5, <2>4 DEF Begins
  <2>6. QED
    BY <2>2, <2>3, <2>4, <2>5, LinkUpgraded
<1>7. LinkedNext(g, b)
  BY <1>2, <1>3, <1>4, <1>6, ServedLinked
<1>8. LinksOf(g, b, b)
  <2>1. \A h \in Llc, x \in Block :
          h # g \/ (x # b /\ x # b) =>
              LLC[h][x].st = llc[h][x].st /\ UP[h][x] = up[h][x] /\ down'[h][x] = down[h][x]
    BY <1>2, <1>3, <1>5
  <2>2. QED
    BY <1>4, <2>1, ServedOthers
<1>9. QED
  BY <1>2, <1>7, <1>8, LinksKeep

(* The line that makes room: the directory is told, and nothing was asked. *)
LEMMA VictimLinked ==
    ASSUME TypeOK, TypeOK', DirectoryInv, NEW g \in Llc, NEW v \in Block,
           llc[g][v].st \notin {"INVALID", "SHARED_UPGRADING"},
           NEW m \in Message, m.type = IF llc[g][v].st = "MODIFIED" THEN "FLUSH_REP" ELSE "INV_REP",
           llc'[g][v].st = "INVALID", up'[g][v] = Append(up[g][v], m), down'[g][v] = down[g][v],
           dir'[v] = dir[v]
    PROVE  LinkedNext(g, v)
<1>1. LinkInv(g, llc[g][v].st, up[g][v], down[g][v], dir[v])
  <2>1. LinkedAt(g, v, llc[g][v].st, up[g][v], down[g][v], dir[v], waiters[g][v], net[g])
    BY DirectoryParts
  <2>2. QED
    BY <2>1 DEF LinkedAt
<1>2. /\ llc[g][v].st \in CState /\ up[g][v] \in Seq(Message) /\ down[g][v] \in Seq(Message)
      /\ up'[g][v] \in Seq(Message) /\ dir[v] \in DirEntry
  BY PartTypes, PartTypesNext
<1>3. LinkInv(g, "INVALID", up'[g][v], down[g][v], dir[v]) /\ ~Asked(g, up'[g][v], down[g][v], dir[v])
  BY ZenonT(60), <1>1, <1>2, LinkEvicted
<1>4. LinkedAt(g, v, "INVALID", up'[g][v], down[g][v], dir[v], waiters'[g][v], net'[g])
  BY <1>3, UpgradingAsks DEF LinkedAt
<1>5. QED
  BY <1>4 DEF LinkedNext

LEMMA HandleDataRepLinks ==
    ASSUME TypeOK, TypeOK', HandoverInv, DirectoryInv, Running', NEW g \in Llc, NEW b \in Block,
           NEW type \in {"EX_REP", "SH_REP"}, HandleDataRep(g, b, type)
    PROVE  DirectoryInv'
<1>0. CacheType /\ HandoverType
  BY TypeParts
<1>1. lock[g] = Free /\ net[g] = NoBlock /\ down[g][b] # <<>> /\ Head(down[g][b]).type = type
  BY DEF HandleDataRep, Received
<1>2. PICK v \in LlcVictims(llc, g), line \in Line, LLC \in LlcType, UP \in ChannelType : DataTaken(g, b, type, v, line, LLC, UP)
  BY DataRepFacts
<1>3. /\ v = NoBlock \/ (v \in Block /\ Valid(llc[g][v]))
      /\ line.st = IF type = "EX_REP" THEN "EXCLUSIVE" ELSE "SHARED"
      /\ LLC = LlcAfterInsert(llc, g, b, line, v) /\ UP = UpAfterEvict(g, v)
      /\ ServeWaiters(g, b, waiters[g][b], LLC, UP)
      /\ down' = [down EXCEPT ![g][b] = Tail(@)]
      /\ UNCHANGED <<dir, user, netSem>>
  BY <1>2 DEF DataTaken
<1>4. v # NoBlock => llc[g][v].st # "SHARED_UPGRADING"
  <2>1. PICK P \in BOOLEAN : P <=> (v # NoBlock => llc[g][v].st # "SHARED_UPGRADING")
    OBVIOUS
  <2>2. PICK A : Checked(A \cup {<<"evict", P>>})
    <3>1. Checked({<<"insert", ~Valid(llc[g][b])>>,
                   <<"waiter", waiters[g][b] # <<>> >>,
                   <<"evict", v # NoBlock => llc[g][v].st # "SHARED_UPGRADING">>})
      BY <1>2 DEF DataTaken
    <3>2. {<<"insert", ~Valid(llc[g][b])>>,
           <<"waiter", waiters[g][b] # <<>> >>,
           <<"evict", v # NoBlock => llc[g][v].st # "SHARED_UPGRADING">>} =
          {<<"insert", ~Valid(llc[g][b])>>, <<"waiter", waiters[g][b] # <<>> >>} \cup {<<"evict", P>>}
      BY <2>1
    <3>3. QED
      BY <3>1, <3>2
  <2>3. P
    BY <2>2, CheckedFails DEF Running
  <2>4. QED
    BY <2>1, <2>3
<1>5. PICK q \in Seq(Waiter) : q = waiters[g][b]
  BY <1>0 DEF HandoverType, WaiterType
<1>6. QueueServed(g, b, q, LLC, UP)
  BY <1>1, <1>3, <1>5, QueueTaken
<1>7. /\ down'[g][b] = Tail(down[g][b]) /\ Head(down[g][b]) \in Message
      /\ \A h \in Llc, x \in Block : h # g \/ x # b => down'[h][x] = down[h][x]
  BY <1>1, <1>3, DownTaken
<1>8. \A h \in Llc, x \in Block :
        LLC[h][x] = IF h = g /\ x = v THEN Absent ELSE IF h = g /\ x = b THEN line ELSE llc[h][x]
  BY <1>0, <1>3, InsertFacts DEF CacheType
<1>9. v \in Block => EvictNote(g, v) \in Message /\ UP = Sent(up, g, v, EvictNote(g, v))
  BY <1>0, <1>3, EvictNoteFacts, CoresAssumption DEF UpAfterEvict
<1>10. \A h \in Llc, x \in Block :
         UP[h][x] = IF h = g /\ x = v THEN Append(up[g][v], EvictNote(g, v)) ELSE up[h][x]
  BY <1>0, <1>3, <1>9, SentFacts, CoresAssumption DEF UpAfterEvict, CacheType
<1>11. PICK st \in CState : st = IF type = "EX_REP" THEN "EXCLUSIVE" ELSE "SHARED"
  BY DEF CState
<1>12. /\ llc[g][b].st = "INVALID"
       /\ LinkInv(g, st, up[g][b], down'[g][b], dir[b]) /\ ~Asked(g, up[g][b], down'[g][b], dir[b])
  <2>1. LinkedAt(g, b, llc[g][b].st, up[g][b], down[g][b], dir[b], waiters[g][b], net[g])
    BY DirectoryParts
  <2>2. LinkInv(g, llc[g][b].st, up[g][b], down[g][b], dir[b])
    BY <2>1 DEF LinkedAt
  <2>3. /\ llc[g][b].st \in CState /\ up[g][b] \in Seq(Message) /\ down[g][b] \in Seq(Message)
        /\ down'[g][b] \in Seq(Message) /\ dir[b] \in DirEntry
    BY PartTypes, PartTypesNext
  <2>4. PICK m \in Message : m = Head(down[g][b]) /\ m.type = type
    BY <1>1, <1>7
  <2>5. Begins(down[g][b], m, down'[g][b])
    BY <1>1, <1>7, <2>4 DEF Begins
  <2>6. (m.type = "EX_REP" => st = "EXCLUSIVE") /\ (m.type = "SH_REP" => st = "SHARED")
    BY <1>11, <2>4
  <2>7. m.type \in {"EX_REP", "SH_REP"}
    BY <2>4
  <2>8. QED
    BY <2>2, <2>3, <2>5, <2>6, <2>7, LinkFilled
<1>13. v # b
  BY <1>3, <1>12, CoresAssumption DEF Valid
<1>14. LinkedNext(g, b)
  <2>1. LLC[g][b].st = st /\ UP[g][b] = up[g][b]
    BY <1>3, <1>8, <1>10, <1>11, <1>13
  <2>2. QED
    BY <1>3, <1>6, <1>12, <2>1, ServedLinked
<1>15. LinksOf(g, b, v)
  <2>1. \A h \in Llc, x \in Block :
          h # g \/ (x # b /\ x # v) =>
              LLC[h][x].st = llc[h][x].st /\ UP[h][x] = up[h][x] /\ down'[h][x] = down[h][x]
    BY <1>7, <1>8, <1>10
  <2>2. QED
    BY <1>6, <2>1, ServedOthers
<1>16. ASSUME v \in Block
       PROVE  LinkedNext(g, v)
  <2>1. /\ llc'[g][v] = LLC[g][v] /\ up'[g][v] = UP[g][v]
    BY <1>6, <1>13, <1>16 DEF QueueServed
  <2>2. /\ llc'[g][v].st = "INVALID" /\ up'[g][v] = Append(up[g][v], EvictNote(g, v))
        /\ down'[g][v] = down[g][v] /\ dir'[v] = dir[v]
    <3>1. LLC[g][v] = Absent /\ UP[g][v] = Append(up[g][v], EvictNote(g, v))
      BY <1>8, <1>10, <1>16
    <3>2. Absent.st = "INVALID"
      BY LineFacts
    <3>3. down'[g][v] = down[g][v] /\ dir'[v] = dir[v]
      BY <1>3, <1>7, <1>13, <1>16
    <3>4. QED
      BY <2>1, <3>1, <3>2, <3>3
  <2>3. llc[g][v].st \notin {"INVALID", "SHARED_UPGRADING"}
    BY <1>3, <1>4, <1>16, CoresAssumption DEF Valid
  <2>4. PICK m \in Message :
          m = EvictNote(g, v) /\ m.type = IF llc[g][v].st = "MODIFIED" THEN "FLUSH_REP" ELSE "INV_REP"
    BY <1>0, <1>16, EvictNoteFacts
  <2>5. QED
    BY <1>16, <2>2, <2>3, <2>4, VictimLinked
<1>17. QED
  BY <1>3, <1>14, <1>15, <1>16, LinksKeep
(* The LLC answers a request of the directory, or has no line to give up.  *)
DirRequest(type, new, reply) ==
    \/ type = "INV_REQ" /\ new = "INVALID" /\ reply = "INV_REP"
    \/ type = "FLUSH_REQ" /\ new = "INVALID" /\ reply = "FLUSH_REP"
    \/ type = "WB_REQ" /\ new = "SHARED" /\ reply = "WB_REP"

LEMMA DirRequestFacts ==
    \A type, new, reply :
        DirRequest(type, new, reply) =>
            /\ type \in FWD /\ new \in CState /\ reply \in GONE \cup {"WB_REP"}
            /\ new = "SHARED" => type = "WB_REQ"
  BY DEF DirRequest, FWD, CState, GONE

LEMMA DirReqLinks ==
    ASSUME TypeOK, TypeOK', DirectoryInv, NEW g \in Llc, NEW b \in Block, NEW type, NEW new, NEW reply,
           NEW checks, DirRequest(type, new, reply), HandleDirReq(g, b, type, new, reply, checks)
    PROVE  DirectoryInv' /\ ~Unset(g, b, new)
<1>1. type \in FWD /\ new \in CState /\ reply \in GONE \cup {"WB_REP"} /\ (new = "SHARED" => type = "WB_REQ")
  BY DirRequestFacts
<1>2. /\ down[g][b] # <<>> /\ Head(down[g][b]).type = type
      /\ down' = [down EXCEPT ![g][b] = Tail(@)]
      /\ UNCHANGED <<waiters, net, dir>>
      /\ \/ ~Valid(llc[g][b]) /\ UNCHANGED <<l1, llc, up, failed>>
         \/ /\ Unset(g, b, new) /\ UNCHANGED <<l1, llc, failed>>
            /\ \E m \in Message : m.type = reply /\ up' = Sent(up, g, b, m)
         \/ \E m \in Message : Yields(g, b, new, reply, checks, m)
  BY <1>1, DirReqFacts
<1>3. /\ down'[g][b] = Tail(down[g][b]) /\ Head(down[g][b]) \in Message
      /\ \A h \in Llc, x \in Block : h # g \/ x # b => down'[h][x] = down[h][x]
  BY <1>2, DownTaken
<1>7. PICK st \in CState, U, U2, D, D2 \in Seq(Message), d \in DirEntry :
        /\ st = llc[g][b].st /\ U = up[g][b] /\ D = down[g][b] /\ d = dir[b]
        /\ U2 = up'[g][b] /\ D2 = down'[g][b]
  BY PartTypes, PartTypesNext
<1>4. PICK n \in Message : Begins(D, n, D2) /\ n.type = type
  BY <1>2, <1>3, <1>7 DEF Begins
<1>5. LinkedAt(g, b, st, U, D, d, waiters[g][b], net[g])
  BY <1>7, DirectoryParts
<1>6. LinkInv(g, st, U, D, d)
  BY <1>5 DEF LinkedAt
<1>8. n.type \in FWD
  BY <1>1, <1>4
<1>9. ~Unset(g, b, new)
  <2>1. SUFFICES ASSUME Unset(g, b, new) PROVE FALSE
    OBVIOUS
  <2>2. n.type # "INV_REQ" /\ st = "SHARED_UPGRADING"
    BY <1>1, <1>4, <1>7, <2>1 DEF Unset
  <2>3. st # "INVALID"
    BY <2>2
  <2>4. n.type # "INV_REQ" => st \in OwnerState
    BY <1>4, <1>6, <1>8, <2>3, LinkMeets
  <2>5. QED
    BY <2>2, <2>4 DEF OwnerState
<1>10. CASE ~Valid(llc[g][b]) /\ UNCHANGED <<l1, llc, up, failed>>
  <2>1. st = "INVALID"
    BY <1>7, <1>10 DEF Valid
  <2>2. /\ LinkInv(g, st, U, D2, d)
        /\ Asked(g, U, D2, d) <=> Asked(g, U, D, d)
        /\ Upgrading(g, U, D2, d) <=> Upgrading(g, U, D, d)
    BY <1>4, <1>6, <1>8, <2>1, LinkMisses
  <2>3. LinkedAt(g, b, st, U, D2, d, waiters[g][b], net[g])
    BY <1>5, <2>2 DEF LinkedAt
  <2>4. LinkedNext(g, b)
    BY <1>2, <1>7, <1>10, <2>3 DEF LinkedNext
  <2>5. LinksOf(g, b, b)
    BY <1>2, <1>3, <1>10 DEF LinksOf, SameLink
  <2>6. QED
    BY <1>2, <1>9, <2>4, <2>5, LinksKeep
<1>11. ASSUME NEW m \in Message, Yields(g, b, new, reply, checks, m)
       PROVE  DirectoryInv'
  <2>1. /\ st # "INVALID" /\ m.type = reply /\ up' = Sent(up, g, b, m)
        /\ llc'[g][b] = SnoopedLine(WrittenBack(l1, llc, g, b, {}), new)
        /\ \A h \in Llc, x \in Block : h # g \/ x # b => llc'[h][x] = llc[h][x]
    BY <1>7, <1>11 DEF Yields, Valid
  <2>2. llc'[g][b].st = new
    BY <2>1, LineFacts DEF SnoopedLine
  <2>3. up \in ChannelType
    BY TypeParts DEF CacheType
  <2>4. \A h \in Llc, x \in Block : up'[h][x] = IF h = g /\ x = b THEN Append(up[g][b], m) ELSE up[h][x]
    BY <2>1, <2>3, SentFacts
  <2>5. U2 = Append(U, m)
    BY <1>7, <2>4
  <2>6. LinkedAt(g, b, new, U2, D2, d, waiters[g][b], net[g])
    <3>1. CASE type = "WB_REQ"
      <4>1. new = "SHARED" /\ m.type = "WB_REP" /\ n.type \in {"WB_REQ"}
        BY <1>4, <2>1, <3>1 DEF DirRequest
      <4>2. ~Asked(g, U2, D2, d) /\ LinkInv(g, "SHARED", U2, D2, d)
        BY <1>4, <1>6, <2>1, <2>5, <4>1, LinkWrites
      <4>3. QED
        BY <4>1, <4>2, UpgradingAsks DEF LinkedAt
    <3>2. CASE type # "WB_REQ"
      <4>1. /\ new = "INVALID" /\ n.type \in {"INV_REQ", "FLUSH_REQ"}
            /\ m.type = IF n.type = "INV_REQ" THEN "INV_REP" ELSE "FLUSH_REP"
        BY <1>4, <2>1, <3>2 DEF DirRequest
      <4>2. /\ LinkInv(g, "INVALID", U2, D2, d)
            /\ Asked(g, U2, D2, d) <=> Asked(g, U, D, d)
            /\ Upgrading(g, U2, D2, d) <=> Upgrading(g, U, D, d)
        BY <1>4, <1>6, <2>1, <2>5, <4>1, LinkYields
      <4>3. QED
        BY <1>5, <4>1, <4>2 DEF LinkedAt
    <3>3. QED
      BY <3>1, <3>2
  <2>7. LinkedNext(g, b)
    BY <1>2, <1>7, <2>2, <2>6 DEF LinkedNext
  <2>8. LinksOf(g, b, b)
    BY <1>2, <1>3, <2>1, <2>4 DEF LinksOf, SameLink
  <2>9. QED
    BY <1>2, <2>7, <2>8, LinksKeep
<1>12. QED
  BY <1>2, <1>9, <1>10, <1>11

LEMMA DirRequestsLink ==
    ASSUME TypeOK, TypeOK', DirectoryInv, NEW g \in Llc, NEW b \in Block,
           HandleInvReq(g, b) \/ HandleFlushReq(g, b) \/ HandleWbReq(g, b)
    PROVE  DirectoryInv'
<1>1. CASE HandleInvReq(g, b)
  <2>1. DirRequest("INV_REQ", "INVALID", "INV_REP")
    BY DEF DirRequest
  <2>2. QED
    BY <1>1, <2>1, DirReqLinks DEF HandleInvReq
<1>2. CASE HandleFlushReq(g, b)
  <2>1. DirRequest("FLUSH_REQ", "INVALID", "FLUSH_REP")
    BY DEF DirRequest
  <2>2. QED
    BY <1>2, <2>1, DirReqLinks DEF HandleFlushReq
<1>3. CASE HandleWbReq(g, b)
  <2>1. DirRequest("WB_REQ", "SHARED", "WB_REP")
    BY DEF DirRequest
  <2>2. QED
    BY <1>3, <2>1, DirReqLinks DEF HandleWbReq
<1>4. QED
  BY <1>1, <1>2, <1>3
-----------------------------------------------------------------------------
(* The steps of the directory.                                             *)

(* The three kinds of messages that the directory receives.                *)
LEMMA AlikeGone ==
    ASSUME NEW g \in Llc, NEW h \in Llc, h # g, NEW d \in DirEntry, NEW e \in DirEntry,
           OwnerAlone(d), g \in d.sharers, e.sharers = d.sharers \ {g}, ~e.owned,
           e.queue = d.queue, e.sent = d.sent
    PROVE  Alike(h, d, e)
<1>1. h \in e.sharers <=> h \in d.sharers
  OBVIOUS
<1>2. CASE h \in d.sharers
  <2>1. ~d.owned
    BY <1>2 DEF OwnerAlone
  <2>2. ForwardType(e) = ForwardType(d)
    BY <2>1 DEF ForwardType
  <2>3. d.queue # <<>> /\ h \in Conflicting(d) => h \in Conflicting(e)
    <3>1. SUFFICES ASSUME d.queue # <<>>, h \in Conflicting(d) PROVE h \in Conflicting(e)
      OBVIOUS
    <3>2. PICK r \in Request : r = Head(d.queue)
      BY <3>1, TailFacts, DirEntryFacts
    <3>3. r.type \in REQ /\ r = Head(e.queue)
      BY <3>2 DEF Request
    <3>4. QED
      BY <1>1, <1>2, <2>1, <3>1, <3>2, <3>3 DEF Conflicting, REQ
  <2>4. Blocks(h, d) => Blocks(h, e)
    BY <2>3 DEF Blocks
  <2>5. QED
    BY <1>1, <2>1, <2>2, <2>4 DEF Alike
<1>3. CASE h \notin d.sharers
  BY <1>1, <1>3 DEF Alike
<1>4. QED
  BY <1>2, <1>3

LEMMA AlikeWrote ==
    ASSUME NEW g \in Llc, NEW h \in Llc, h # g, NEW d \in DirEntry, NEW e \in DirEntry,
           OwnerAlone(d), g \in d.sharers, d.owned, e.sharers = d.sharers, e.queue = d.queue
    PROVE  Alike(h, d, e)
<1>1. h \notin d.sharers
  BY DEF OwnerAlone
<1>2. QED
  BY <1>1 DEF Alike

LEMMA AlikeQueued ==
    ASSUME NEW g \in Llc, NEW h \in Llc, h # g, NEW d \in DirEntry, NEW e \in DirEntry,
           NEW r \in Request, r.from = g, e.sharers = d.sharers, e.owned <=> d.owned, e.sent = d.sent,
           e.queue = Append(d.queue, r)
    PROVE  Alike(h, d, e)
<1>1. PICK q \in Seq(Request) : q = d.queue
  BY DirEntryFacts
<1>p. PICK p \in Seq(Request) : p = e.queue
  BY DirEntryFacts
<1>2. /\ \A T : Queued(p, h, T) <=> Queued(q, h, T) \/ (r.from = h /\ r.type \in T)
      /\ QueuedOnce(p, h) <=> QueuedOnce(q, h) /\ (r.from = h => ~Queued(q, h, REQ))
  BY ZenonT(60), <1>1, <1>p, QueueAppend
<1>3. Blocks(h, d) => /\ Blocks(h, e) /\ Head(e.queue).type = Head(d.queue).type
                      /\ ForwardType(e) = ForwardType(d)
  BY BlocksGrows
<1>4. /\ \A T : Queued(e.queue, h, T) <=> Queued(d.queue, h, T)
      /\ QueuedOnce(d.queue, h) => QueuedOnce(e.queue, h)
  BY <1>1, <1>p, <1>2
<1>5. QED
  BY <1>3, <1>4 DEF Alike

(* The links of all LLCs when the entry changes from d to e.               *)
Received1(g, st, U, U2, D, d, e) ==
    /\ OwnerAlone(e)
    /\ LinkInv(g, st, U2, D, e)
    /\ Asked(g, U2, D, e) <=> Asked(g, U, D, d)
    /\ Upgrading(g, U2, D, e) <=> Upgrading(g, U, D, d)
    /\ \A h \in Llc : h # g => Alike(h, d, e)

LEMMA EntryReceived ==
    ASSUME NEW g \in Llc, NEW st \in CState, NEW U \in Seq(Message), NEW D \in Seq(Message),
           NEW d \in DirEntry, LinkInv(g, st, U, D, d), OwnerAlone(d),
           NEW m \in Message, NEW U2 \in Seq(Message), Begins(U, m, U2), m.type \in UpTypes,
           NEW e, e = EntryAfter(d, g, m)
    PROVE  e \in DirEntry /\ Received1(g, st, U, U2, D, d, e)
<1>1. /\ e \in DirEntry /\ e.sent = d.sent
      /\ m.type \in GONE => /\ e.sharers = d.sharers \ {g}
                            /\ e.owned <=> d.owned /\ g \notin d.sharers
                            /\ e.queue = d.queue
      /\ m.type = "WB_REP" => e.sharers = d.sharers /\ ~e.owned /\ e.queue = d.queue
      /\ m.type \in REQ => /\ e.sharers = d.sharers /\ (e.owned <=> d.owned)
                           /\ e.queue = Append(d.queue, [type |-> m.type, from |-> g])
                           /\ [type |-> m.type, from |-> g] \in Request
  <2>1. EntryChanged(d, g, m, e)
    BY EntryFacts
  <2>2. QED
    BY <2>1 DEF EntryChanged
<1>2. CASE m.type \in GONE
  <2>1. e.sharers = d.sharers \ {g} /\ (e.owned <=> d.owned /\ g \notin d.sharers) /\ e.queue = d.queue
    BY <1>1, <1>2
  <2>2. /\ g \in d.sharers /\ LinkInv(g, st, U2, D, e)
        /\ Asked(g, U2, D, e) <=> Asked(g, U, D, d)
        /\ Upgrading(g, U2, D, e) <=> Upgrading(g, U, D, d)
    BY <1>1, <1>2, <2>1, LinkGone
  <2>3. ~e.owned
    BY <2>1, <2>2
  <2>4. \A h \in Llc : h # g => Alike(h, d, e)
    BY <1>1, <2>1, <2>2, <2>3, AlikeGone
  <2>5. QED
    BY <1>1, <2>2, <2>3, <2>4 DEF Received1, OwnerAlone
<1>3. CASE m.type = "WB_REP"
  <2>1. e.sharers = d.sharers /\ ~e.owned /\ e.queue = d.queue
    BY <1>1, <1>3
  <2>2. /\ g \in d.sharers /\ d.owned /\ LinkInv(g, st, U2, D, e)
        /\ Asked(g, U2, D, e) <=> Asked(g, U, D, d)
        /\ Upgrading(g, U2, D, e) <=> Upgrading(g, U, D, d)
    BY <1>1, <1>3, <2>1, LinkWrote
  <2>3. \A h \in Llc : h # g => Alike(h, d, e)
    BY <1>1, <2>1, <2>2, AlikeWrote
  <2>4. QED
    BY <1>1, <2>1, <2>2, <2>3 DEF Received1, OwnerAlone
<1>4. CASE m.type \in REQ
  <2>1. PICK r \in Request : r = [type |-> m.type, from |-> g]
    BY <1>1, <1>4
  <2>2. /\ r.type = m.type /\ r.from = g /\ e.sharers = d.sharers /\ (e.owned <=> d.owned)
        /\ e.queue = Append(d.queue, r)
    BY <1>1, <1>4, <2>1
  <2>3. /\ LinkInv(g, st, U2, D, e)
        /\ Asked(g, U2, D, e) <=> Asked(g, U, D, d)
        /\ Upgrading(g, U2, D, e) <=> Upgrading(g, U, D, d)
    <3>1. PICK p \in Seq(Request) : p = d.queue
      BY DirEntryFacts
    <3>2. LinksQueued(g, st, U, U2, D, d, p, m)
      BY <1>4, <3>1, LinkQueued
    <3>3. QED
      BY <1>1, <2>2, <3>1, <3>2 DEF LinksQueued
  <2>4. \A h \in Llc : h # g => Alike(h, d, e)
    BY <1>1, <2>2, AlikeQueued
  <2>5. OwnerAlone(e)
    BY <2>2 DEF OwnerAlone
  <2>6. QED
    BY <1>1, <2>3, <2>4, <2>5 DEF Received1
<1>5. QED
  BY <1>2, <1>3, <1>4 DEF UpTypes

(* A step of the directory about the block b leaves the links of the other *)
(* blocks as they are.                                                     *)
LEMMA EntryKeeps ==
    ASSUME DirectoryInv, NEW b \in Block, UNCHANGED <<llc, waiters, net>>,
           \A x \in Block : x # b => dir'[x] = dir[x],
           \A h \in Llc, x \in Block : x # b => up'[h][x] = up[h][x] /\ down'[h][x] = down[h][x],
           OwnerAlone(dir'[b]), \A h \in Llc : LinkedNext(h, b)
    PROVE  DirectoryInv'
<1>1. ASSUME NEW h \in Llc, NEW x \in Block
      PROVE  LinkedNext(h, x)
  <2>1. CASE x = b
    BY <2>1
  <2>2. CASE x # b
    <3>1. SameLink(h, x)
      BY <2>2 DEF SameLink
    <3>2. QED
      BY <2>2, <3>1, SameLinkKeeps
  <2>3. QED
    BY <2>1, <2>2
<1>2. \A x \in Block : OwnerAlone(dir'[x])
  BY DirectoryParts
<1>3. \A h \in Llc, x \in Block :
        LinkedAt(h, x, llc'[h][x].st, up'[h][x], down'[h][x], dir'[x], waiters'[h][x], net'[h])
  BY <1>1 DEF LinkedNext
<1>4. QED
  BY <1>2, <1>3, DirectoryPartsNext

LEMMA UpTaken ==
    ASSUME TypeOK, NEW g \in Llc, NEW b \in Block, up[g][b] # <<>>,
           up' = [up EXCEPT ![g][b] = Tail(@)]
    PROVE  /\ Head(up[g][b]) \in Message
           /\ up'[g][b] = Tail(up[g][b])
           /\ \A h \in Llc, x \in Block : h # g \/ x # b => up'[h][x] = up[h][x]
<1>1. PICK chan \in ChannelType : chan = up
  BY TypeParts DEF CacheType
<1>2. chan[g][b] \in Seq(Message) /\ chan[g][b] # <<>>
  BY <1>1 DEF ChannelType
<1>3. PICK s \in Seq(Message), m \in Message : s = Tail(chan[g][b]) /\ m = Head(chan[g][b])
  BY <1>2, TailFacts
<1>4. up' = Put(chan, g, b, s)
  BY <1>1, <1>3 DEF Put
<1>5. /\ Put(chan, g, b, s)[g][b] = s
      /\ \A h \in Llc, x \in Block : h # g \/ x # b => Put(chan, g, b, s)[h][x] = chan[h][x]
  BY PutChannel
<1>6. PICK G : G = Put(chan, g, b, s)
  OBVIOUS
<1>7. G[g][b] = s /\ \A h \in Llc, x \in Block : h # g \/ x # b => G[h][x] = chan[h][x]
  BY <1>5, <1>6
<1>8. up' = G
  BY <1>4, <1>6
<1>9. QED
  BY ZenonT(60), <1>1, <1>3, <1>7, <1>8

LEMMA DirReceiveLinks ==
    ASSUME TypeOK, TypeOK', ChannelInv, DirectoryInv, NEW g \in Llc, NEW b \in Block, DirReceive(g, b)
    PROVE  DirectoryInv'
<1>1. /\ up[g][b] # <<>>
      /\ up' = [up EXCEPT ![g][b] = Tail(@)]
      /\ dir' = [dir EXCEPT ![b] = EntryAfter(dir[b], g, Head(up[g][b]))]
      /\ UNCHANGED <<llc, waiters, net, down>>
  BY ReceiveFacts
<1>2. /\ Head(up[g][b]) \in Message
      /\ up'[g][b] = Tail(up[g][b])
      /\ \A h \in Llc, x \in Block : h # g \/ x # b => up'[h][x] = up[h][x]
  BY <1>1, UpTaken
<1>3. PICK st \in CState, U, U2, D \in Seq(Message), d \in DirEntry, m \in Message :
        /\ st = llc[g][b].st /\ U = up[g][b] /\ D = down[g][b] /\ d = dir[b]
        /\ U2 = up'[g][b] /\ m = Head(up[g][b])
  BY <1>2, PartTypes, PartTypesNext
<1>4. Begins(U, m, U2)
  BY <1>1, <1>2, <1>3 DEF Begins
<1>5. m.type \in UpTypes
  <2>1. up \in ChannelType /\ Carries(up, UpTypes)
    BY TypeParts, ChannelParts DEF CacheType
  <2>2. QED
    BY <1>1, <1>3, <2>1, TakenCarries
<1>6. PICK e : e = EntryAfter(d, g, m)
  OBVIOUS
<1>7. LinkedAt(g, b, st, U, D, d, waiters[g][b], net[g]) /\ OwnerAlone(d)
  BY <1>3, DirectoryParts
<1>8. LinkInv(g, st, U, D, d)
  BY <1>7 DEF LinkedAt
<1>9. e \in DirEntry /\ Received1(g, st, U, U2, D, d, e)
  BY <1>4, <1>5, <1>6, <1>7, <1>8, EntryReceived
<1>10. dir'[b] = e /\ \A x \in Block : x # b => dir'[x] = dir[x]
  <2>1. dir \in [Block -> DirEntry]
    BY TypeParts, DirEntryFacts
  <2>2. QED
    BY <1>1, <1>3, <1>6, <2>1
<1>11. ASSUME NEW h \in Llc
       PROVE  LinkedNext(h, b)
  <2>1. CASE h = g
    <3>1. LinkedAt(g, b, st, U2, D, e, waiters[g][b], net[g])
      BY <1>7, <1>9 DEF LinkedAt, Received1
    <3>2. QED
      BY <1>1, <1>3, <1>10, <2>1, <3>1 DEF LinkedNext
  <2>2. CASE h # g
    <3>1. PICK s \in CState, V, E \in Seq(Message) :
            s = llc[h][b].st /\ V = up[h][b] /\ E = down[h][b]
      BY PartTypes
    <3>2. LinkedAt(h, b, s, V, E, d, waiters[h][b], net[h])
      BY <1>3, <3>1, DirectoryParts
    <3>3. LinkInv(h, s, V, E, d) /\ Alike(h, d, e)
      BY <1>9, <2>2, <3>2 DEF LinkedAt, Received1
    <3>4. /\ LinkInv(h, s, V, E, e)
          /\ Asked(h, V, E, e) <=> Asked(h, V, E, d)
          /\ Upgrading(h, V, E, e) <=> Upgrading(h, V, E, d)
      BY <1>9, <3>3, LinkOther
    <3>5. LinkedAt(h, b, s, V, E, e, waiters[h][b], net[h])
      BY <3>2, <3>4 DEF LinkedAt
    <3>6. QED
      BY <1>1, <1>2, <1>10, <2>2, <3>1, <3>5 DEF LinkedNext
  <2>3. QED
    BY <2>1, <2>2
<1>12. OwnerAlone(dir'[b])
  BY <1>9, <1>10 DEF Received1
<1>13. QED
  BY <1>1, <1>2, <1>10, <1>11, <1>12, EntryKeeps

LEMMA DirForwardLinks ==
    ASSUME TypeOK, TypeOK', DirectoryInv, NEW b \in Block, DirForward(b)
    PROVE  DirectoryInv'
<1>1. PICK d \in DirEntry : d = dir[b]
  BY PartTypes
<1>2. PICK m \in Message : m = Msg(ForwardType(d), FALSE) /\ m.type = ForwardType(d)
  <2>1. ForwardType(d) \in FWD
    BY ForwardTypes
  <2>2. QED
    BY <2>1, MsgFacts DEF FWD
<1>3. /\ d.queue # <<>> /\ ~d.sent
      /\ dir' = [dir EXCEPT ![b].sent = TRUE]
      /\ down' = [g \in Llc |-> IF g \in Conflicting(d)
                                THEN [down[g] EXCEPT ![b] = Append(@, m)]
                                ELSE down[g]]
      /\ UNCHANGED <<llc, up, waiters, net>>
  <2>1. PICK t : t = CASE ~d.owned -> "INV_REQ"
                        [] Head(d.queue).type = "SH_REQ" -> "WB_REQ"
                        [] OTHER -> "FLUSH_REQ"
    OBVIOUS
  <2>2. t = ForwardType(d)
    <3>1. CASE ~d.owned
      <4>1. Head(d.queue).type # "SH_REQ"
        BY <1>1, <3>1 DEF DirForward, Conflicting
      <4>2. QED
        BY <2>1, <3>1, <4>1, ForwardTypes
    <3>2. CASE d.owned /\ Head(d.queue).type = "SH_REQ"
      BY <2>1, <3>2, ForwardTypes
    <3>3. CASE d.owned /\ Head(d.queue).type # "SH_REQ"
      BY <2>1, <3>3, ForwardTypes
    <3>4. QED
      BY <3>1, <3>2, <3>3
  <2>3. down' = [g \in Llc |-> IF g \in Conflicting(d)
                                THEN [down[g] EXCEPT ![b] = Append(@, Msg(t, FALSE))]
                                ELSE down[g]]
    BY <1>1, <2>1 DEF DirForward
  <2>4. m = Msg(t, FALSE)
    BY <1>2, <2>2
  <2>5. QED
    BY <1>1, <2>3, <2>4 DEF DirForward
<1>4. PICK e \in DirEntry : e = [d EXCEPT !.sent = TRUE]
  BY DirEntryFacts
<1>5. e.sharers = d.sharers /\ (e.owned <=> d.owned) /\ e.queue = d.queue /\ e.sent
  BY <1>4 DEF DirEntry
<1>6. dir'[b] = e /\ \A x \in Block : x # b => dir'[x] = dir[x]
  <2>1. dir \in [Block -> DirEntry]
    BY TypeParts, DirEntryFacts
  <2>2. QED
    BY <1>1, <1>3, <1>4, <2>1
<1>7. /\ \A h \in Llc, x \in Block : x # b => down'[h][x] = down[h][x]
      /\ \A h \in Llc : down'[h][b] = IF h \in Conflicting(d) THEN Append(down[h][b], m) ELSE down[h][b]
  <2>1. down \in [Llc -> [Block -> Seq(Message)]]
    BY TypeParts DEF CacheType, ChannelType
  <2>2. QED
    BY <1>3, <2>1
<1>8. OwnerAlone(d)
  BY <1>1, DirectoryParts
<1>9. ASSUME NEW h \in Llc
      PROVE  LinkedNext(h, b)
  <2>1. PICK s \in CState, V, E, E2 \in Seq(Message) :
          s = llc[h][b].st /\ V = up[h][b] /\ E = down[h][b] /\ E2 = down'[h][b]
    BY PartTypes, PartTypesNext
  <2>2. LinkedAt(h, b, s, V, E, d, waiters[h][b], net[h])
    BY <1>1, <2>1, DirectoryParts
  <2>3. LinkInv(h, s, V, E, d)
    BY <2>2 DEF LinkedAt
  <2>4. E2 = IF h \in Conflicting(d) THEN Append(E, m) ELSE E
    BY <1>7, <2>1
  <2>5. /\ LinkInv(h, s, V, E2, e)
        /\ Asked(h, V, E2, e) <=> Asked(h, V, E, d)
        /\ Upgrading(h, V, E2, e) <=> Upgrading(h, V, E, d)
    BY <1>2, <1>3, <1>5, <2>3, <2>4, LinkForwarded
  <2>6. LinkedAt(h, b, s, V, E2, e, waiters[h][b], net[h])
    BY <2>2, <2>5 DEF LinkedAt
  <2>7. QED
    BY <1>3, <1>6, <2>1, <2>6 DEF LinkedNext
<1>10. OwnerAlone(dir'[b])
  BY <1>5, <1>6, <1>8 DEF OwnerAlone
<1>11. QED
  BY <1>3, <1>6, <1>7, <1>9, <1>10, EntryKeeps

(* The answer to the first request makes who asked a sharer, and the owner *)
(* only if nobody else has a copy.                                         *)
LEMMA RepliedAlone ==
    ASSUME NEW d \in DirEntry, d.queue # <<>>, Conflicting(d) = {},
           NEW r \in Request, r = Head(d.queue), NEW e \in DirEntry,
           e.sharers = d.sharers \cup {r.from}, r.type # "SH_REQ" => e.owned,
           r.type = "SH_REQ" /\ e.owned => d.sharers = {}
    PROVE  /\ OwnerAlone(e)
           /\ \A h \in d.sharers : h # r.from => (e.owned <=> d.owned)
<1>1. r.type \in {"SH_REQ", "EX_REQ", "UPGRADE_REQ"}
  BY DEF Request, REQ
<1>2. CASE r.type = "SH_REQ"
  <2>1. ~d.owned \/ d.sharers = {}
    BY <1>2 DEF Conflicting
  <2>2. QED
    BY <1>2, <2>1 DEF OwnerAlone
<1>3. CASE r.type = "EX_REQ"
  <2>1. d.sharers = {}
    BY <1>3 DEF Conflicting
  <2>2. QED
    BY <1>3, <2>1 DEF OwnerAlone
<1>4. CASE r.type = "UPGRADE_REQ"
  <2>1. d.sharers \ {r.from} = {} \/ d.sharers = {}
    BY <1>4 DEF Conflicting
  <2>2. e.sharers \subseteq {r.from}
    BY <2>1
  <2>3. QED
    BY <1>4, <2>1, <2>2 DEF OwnerAlone
<1>5. QED
  BY <1>1, <1>2, <1>3, <1>4

LEMMA AlikeReplied ==
    ASSUME NEW h \in Llc, NEW d \in DirEntry, d.queue # <<>>, Conflicting(d) = {},
           NEW r \in Request, r = Head(d.queue), NEW p \in Seq(Request), p = Tail(d.queue),
           NEW e \in DirEntry, e.sharers = d.sharers \cup {r.from}, e.queue = p, h # r.from,
           h \in d.sharers => (e.owned <=> d.owned)
    PROVE  Alike(h, d, e)
<1>1. PICK q \in Seq(Request) : q = d.queue
  BY DirEntryFacts
<1>2. Dequeued(q, r, p, h)
  BY <1>1, FirstDequeued
<1>3. /\ \A T : Queued(e.queue, h, T) <=> Queued(d.queue, h, T)
      /\ QueuedOnce(d.queue, h) => QueuedOnce(e.queue, h)
  BY <1>1, <1>2 DEF Dequeued
<1>4. ~Blocks(h, d)
  BY DEF Blocks
<1>5. h \in e.sharers <=> h \in d.sharers
  OBVIOUS
<1>6. QED
  BY <1>3, <1>4, <1>5 DEF Alike

(* The parts of an answer of the directory.                                *)
Replied1(b, d, r, p, g, e, m) ==
    /\ d = dir[b] /\ d.queue # <<>> /\ Conflicting(d) = {}
    /\ r = Head(d.queue) /\ p = Tail(d.queue) /\ r.from = g
    /\ e.sharers = d.sharers \cup {g} /\ e.queue = p
    /\ r.type # "SH_REQ" => e.owned
    /\ r.type = "SH_REQ" /\ e.owned => d.sharers = {}
    /\ m.type = IF r.type = "UPGRADE_REQ" THEN "UPGRADE_REP"
                ELSE IF e.owned THEN "EX_REP" ELSE "SH_REP"

LEMMA RepliedFacts ==
    ASSUME TypeOK, NEW b \in Block, DirReply(b)
    PROVE  \E d, e \in DirEntry, r \in Request, p \in Seq(Request), g \in Llc, m \in Message :
             /\ Replied1(b, d, r, p, g, e, m)
             /\ dir'[b] = e
             /\ \A x \in Block : x # b => dir'[x] = dir[x]
             /\ \A h \in Llc, x \in Block :
                  down'[h][x] = IF h = g /\ x = b THEN Append(down[g][b], m) ELSE down[h][x]
<1>1. PICK exclusive \in BOOLEAN :
        /\ Head(dir[b].queue).type # "SH_REQ" => exclusive
        /\ Head(dir[b].queue).type = "SH_REQ" /\ exclusive => dir[b].sharers = {}
        /\ dir' = [dir EXCEPT ![b] = [sharers |-> dir[b].sharers \cup {Head(dir[b].queue).from},
                                     owned |-> exclusive, queue |-> Tail(dir[b].queue), sent |-> FALSE]]
        /\ Reply(dir[b], exclusive, dram[b]) \in Message
        /\ Reply(dir[b], exclusive, dram[b]).type \in REP
        /\ down' = Sent(down, Head(dir[b].queue).from, b, Reply(dir[b], exclusive, dram[b]))
  BY ReplyFacts
<1>2. dir[b].queue # <<>> /\ Conflicting(dir[b]) = {} /\ Head(dir[b].queue) \in Request
  BY ReplyFacts
<1>3. PICK d \in DirEntry : d = dir[b]
  BY PartTypes
<1>4. PICK r \in Request, g \in Llc : r = Head(d.queue) /\ g = r.from
  BY <1>2, <1>3 DEF Request
<1>5. PICK p \in Seq(Request) : p = Tail(d.queue)
  <2>1. d.queue \in Seq(Request) /\ d.queue # <<>>
    BY <1>2, <1>3, DirEntryFacts
  <2>2. QED
    BY <2>1, TailFacts
<1>6. PICK m \in Message : m = Reply(d, exclusive, dram[b])
  BY <1>1, <1>3
<1>7. m.type = IF r.type = "UPGRADE_REQ" THEN "UPGRADE_REP"
               ELSE IF exclusive THEN "EX_REP" ELSE "SH_REP"
  BY <1>4, <1>6 DEF Reply, Msg
<1>8. PICK S \in SUBSET Llc : S = d.sharers \cup {g}
  BY DirEntryFacts
<1>9. PICK e \in DirEntry : e = [sharers |-> S, owned |-> exclusive, queue |-> p, sent |-> FALSE]
  BY DEF DirEntry
<1>10. e.sharers = S /\ (e.owned <=> exclusive) /\ e.queue = p
  BY <1>9
<1>11. dir'[b] = e /\ \A x \in Block : x # b => dir'[x] = dir[x]
  <2>1. dir \in [Block -> DirEntry]
    BY TypeParts, DirEntryFacts
  <2>2. dir' = [dir EXCEPT ![b] = e]
    BY <1>1, <1>3, <1>4, <1>5, <1>8, <1>9
  <2>3. QED
    BY <2>1, <2>2
<1>12. \A h \in Llc, x \in Block :
         down'[h][x] = IF h = g /\ x = b THEN Append(down[g][b], m) ELSE down[h][x]
  <2>1. down \in ChannelType
    BY TypeParts DEF CacheType
  <2>2. down' = Sent(down, g, b, m)
    BY <1>1, <1>3, <1>4, <1>6
  <2>3. QED
    BY <2>1, <2>2, SentFacts
<1>13. Replied1(b, d, r, p, g, e, m)
  BY <1>1, <1>2, <1>3, <1>4, <1>5, <1>7, <1>8, <1>10 DEF Replied1
<1>14. QED
  BY <1>11, <1>12, <1>13

LEMMA DirReplyLinks ==
    ASSUME TypeOK, TypeOK', DirectoryInv, NEW b \in Block, DirReply(b)
    PROVE  DirectoryInv'
<1>1. PICK d, e \in DirEntry, r \in Request, p \in Seq(Request), g \in Llc, m \in Message :
        /\ Replied1(b, d, r, p, g, e, m)
        /\ dir'[b] = e
        /\ \A x \in Block : x # b => dir'[x] = dir[x]
        /\ \A h \in Llc, x \in Block :
             down'[h][x] = IF h = g /\ x = b THEN Append(down[g][b], m) ELSE down[h][x]
  BY RepliedFacts
<1>2. /\ d = dir[b] /\ d.queue # <<>> /\ Conflicting(d) = {}
      /\ r = Head(d.queue) /\ p = Tail(d.queue) /\ r.from = g
      /\ e.sharers = d.sharers \cup {g} /\ e.queue = p
      /\ r.type # "SH_REQ" => e.owned
      /\ r.type = "SH_REQ" /\ e.owned => d.sharers = {}
  BY <1>1 DEF Replied1
<1>3. UNCHANGED <<llc, waiters, net, up>>
  BY ReplyFacts
<1>4. OwnerAlone(e) /\ \A h \in d.sharers : h # r.from => (e.owned <=> d.owned)
  BY <1>2, RepliedAlone
<1>5. ASSUME NEW h \in Llc
      PROVE  LinkedNext(h, b)
  <2>1. PICK st \in CState, U, D, D2 \in Seq(Message) :
          st = llc[h][b].st /\ U = up[h][b] /\ D = down[h][b] /\ D2 = down'[h][b]
    BY PartTypes, PartTypesNext
  <2>2. LinkedAt(h, b, st, U, D, d, waiters[h][b], net[h])
    BY <1>2, <2>1, DirectoryParts
  <2>3. LinkInv(h, st, U, D, d)
    BY <2>2 DEF LinkedAt
  <2>4. CASE h = g
    <3>1. D2 = Append(D, m)
      BY <1>1, <2>1, <2>4
    <3>2. LinksReplied(h, st, U, D, D2, d, r, p, m)
      BY <1>2, <2>3, <3>1, LinkReplied
    <3>3. /\ LinkInv(h, st, U, D2, e)
          /\ Asked(h, U, D, d)
          /\ Upgrading(h, U, D2, e) => Upgrading(h, U, D, d)
      BY <1>1, <1>2, <2>4, <3>2 DEF LinksReplied, Replied1
    <3>4. LinkedAt(h, b, st, U, D2, e, waiters[h][b], net[h])
      BY <2>2, <3>3 DEF LinkedAt
    <3>5. QED
      BY <1>1, <1>3, <2>1, <3>4 DEF LinkedNext
  <2>5. CASE h # g
    <3>1. D2 = D
      BY <1>1, <2>1, <2>5
    <3>2. Alike(h, d, e)
      BY <1>2, <1>4, <2>5, AlikeReplied
    <3>3. /\ LinkInv(h, st, U, D, e)
          /\ Asked(h, U, D, e) <=> Asked(h, U, D, d)
          /\ Upgrading(h, U, D, e) <=> Upgrading(h, U, D, d)
      BY <2>3, <3>2, LinkOther
    <3>4. LinkedAt(h, b, st, U, D2, e, waiters[h][b], net[h])
      BY <2>2, <3>1, <3>3 DEF LinkedAt
    <3>5. QED
      BY <1>1, <1>3, <2>1, <3>4 DEF LinkedNext
  <2>6. QED
    BY <2>4, <2>5
<1>6. OwnerAlone(dir'[b])
  BY <1>1, <1>4
<1>7. QED
  BY <1>1, <1>3, <1>5, <1>6, EntryKeeps
-----------------------------------------------------------------------------
(* A program with a DRAM controller instead of a directory.                *)
DirectState == {"INVALID", "SHARED", "MODIFIED"}

LEMMA DirectKeeps ==
    ASSUME TypeOK, TypeOK', DirectInv, UNCHANGED <<waiters, net, dir>>,
           \A g \in Llc, b \in Block :
               /\ llc'[g][b].st \in DirectState
               /\ SameTypes(up'[g][b], up[g][b]) /\ SameTypes(down'[g][b], down[g][b])
    PROVE  DirectInv'
<1>1. ASSUME NEW s \in Seq(Message), SameTypes(s, <<>>)
      PROVE  s = <<>>
  <2>1. DOMAIN s = 1..Len(s) /\ Len(s) \in Nat
    OBVIOUS
  <2>2. 1 \notin DOMAIN s
    BY <1>1 DEF SameTypes
  <2>3. Len(s) = 0
    BY <2>1, <2>2
  <2>4. QED
    BY <2>3
<1>2. ASSUME NEW g \in Llc, NEW b \in Block
      PROVE  /\ up'[g][b] = <<>> /\ down'[g][b] = <<>> /\ waiters'[g][b] = <<>>
             /\ llc'[g][b].st \in {"INVALID", "SHARED", "MODIFIED"}
  <2>1. up[g][b] = <<>> /\ down[g][b] = <<>> /\ waiters[g][b] = <<>>
    BY DEF DirectInv
  <2>2. up'[g][b] \in Seq(Message) /\ down'[g][b] \in Seq(Message)
    BY PartTypesNext
  <2>3. SameTypes(up'[g][b], <<>>) /\ SameTypes(down'[g][b], <<>>)
    BY <2>1
  <2>4. QED
    BY <1>1, <2>1, <2>2, <2>3 DEF DirectState
<1>3. \A g \in Llc : net'[g] = NoBlock
  BY DEF DirectInv
<1>4. \A b \in Block : dir'[b].queue = <<>>
  BY DEF DirectInv
<1>5. QED
  BY <1>2, <1>3, <1>4 DEF DirectInv

LEMMA FillDirect ==
    ASSUME TypeOK, TypeOK', DirectInv, UNCHANGED <<waiters, net, dir>>,
           NEW c \in Core, NEW op \in Op, NEW b \in Block, NEW L1 \in L1Type,
           NEW LLC \in LlcType, NEW DRAM \in [Block -> BOOLEAN], NEW checks,
           FillAndComplete(c, op, b, L1, LLC, DRAM, checks),
           \A h \in Llc, x \in Block : LLC[h][x].st \in DirectState
    PROVE  DirectInv'
<1>1. PICK v : /\ v = NoBlock \/ v \in Block
               /\ Accessed(c, op, b, FillL1(c, b, v, L1, LLC), FillLlc(c, v, L1, LLC), DRAM)
  BY FillFacts
<1>2. \A h \in Llc, x \in Block : FillLlc(c, v, L1, LLC)[h][x].st = LLC[h][x].st
  BY <1>1, FillStates
<1>3. \A h \in Llc, x \in Block :
        /\ llc'[h][x].st = FillLlc(c, v, L1, LLC)[h][x].st
        /\ SameTypes(up'[h][x], up[h][x]) /\ SameTypes(down'[h][x], down[h][x])
  BY <1>1 DEF Accessed
<1>4. \A h \in Llc, x \in Block : llc'[h][x].st \in DirectState
  BY <1>2, <1>3
<1>5. QED
  BY <1>3, <1>4, DirectKeeps

LEMMA RequestDirect ==
    ASSUME TypeOK, DirectInv, NEW c \in Core, NEW op \in Op, NEW b \in Block, NEW L1 \in L1Type,
           NEW LLC, LLC = LlcAfterRequest(c, op, b, L1)
    PROVE  \A h \in Llc, x \in Block : LLC[h][x].st \in DirectState
<1>1. PICK g \in Llc : g = Master(c)
  BY MasterFacts
<1>2. PICK P \in BOOLEAN : P <=> op # "READ" /\ Serves(llc[g][b].st, op)
  OBVIOUS
<1>3. /\ \A h \in Llc, x \in Block : h # g \/ x # b => LLC[h][x] = llc[h][x]
      /\ LLC[g][b].st = IF P THEN "MODIFIED" ELSE llc[g][b].st
  BY <1>1, <1>2, LlcRequested DEF Requested
<1>4. \A h \in Llc, x \in Block : llc[h][x].st \in DirectState
  BY DEF DirectInv, DirectState
<1>5. QED
  BY <1>3, <1>4 DEF DirectState

LEMMA DirectUser ==
    ASSUME TypeOK, TypeOK', HandoverInv, DirectInv, dramDirect, NEW c \in Core, UserStep(c)
    PROVE  DirectInv'
<1>0. /\ CacheType /\ HandoverType /\ dram \in [Block -> BOOLEAN]
      /\ \A h \in Llc, x \in Block : llc[h][x].st \in DirectState
  BY TypeParts DEF CacheType, DirectInv, DirectState
<1>1. ASSUME NEW op \in Op, NEW b \in Block, Accessed(c, op, b, l1, llc, dram), UNCHANGED <<waiters, net, dir>>
      PROVE  DirectInv'
  <2>1. \A h \in Llc, x \in Block :
          /\ llc'[h][x].st = llc[h][x].st
          /\ SameTypes(up'[h][x], up[h][x]) /\ SameTypes(down'[h][x], down[h][x])
    BY <1>1 DEF Accessed
  <2>2. \A h \in Llc, x \in Block : llc'[h][x].st \in DirectState
    BY <1>0, <2>1
  <2>3. QED
    BY <1>1, <2>1, <2>2, DirectKeeps
<1>2. ASSUME NEW op \in Op, NEW b \in Block, Hit(c, op, b)
      PROVE  DirectInv'
  <2>1. Accessed(c, op, b, l1, llc, dram) /\ UNCHANGED <<waiters, net, dir>>
    BY <1>0, <1>2, AccessFacts DEF Hit, Complete, CacheType
  <2>2. QED
    BY <1>1, <2>1
<1>3. ASSUME NEW op \in Op, NEW b \in Block, Miss(c, op, b)
      PROVE  DirectInv'
  <2>1. UNCHANGED <<llc, up, down, waiters, net, dir>>
    BY <1>3 DEF Miss
  <2>2. QED
    BY <1>0, <2>1, DirectKeeps, SameTypesHere
<1>4. CASE MissHitsLlc(c)
  <2>1. PICK b \in Block, op \in Op : b = user[c].block /\ op = user[c].op
    <3>1. user[c].pc = "miss"
      BY <1>4 DEF MissHitsLlc, HasStackLock
    <3>2. QED
      BY <1>0, <3>1, RequestTypes
  <2>2. PICK L1 \in L1Type : L1 = OwnInvalidated(c)
    BY <1>0, <2>1, OwnInvalidatedFacts
  <2>3. PICK M \in L1Type, LLC \in LlcType :
          M = L1AfterRequest(c, op, b, L1) /\ LLC = LlcAfterRequest(c, op, b, L1)
    BY L1AfterRequestFacts, LlcAfterRequestFacts
  <2>4. FillAndComplete(c, op, b, M, LLC, dram, MissChecks(c)) /\ UNCHANGED <<waiters, net, dir>>
    BY <1>4, <2>1, <2>2, <2>3 DEF MissHitsLlc
  <2>5. \A h \in Llc, x \in Block : LLC[h][x].st \in DirectState
    BY <2>3, RequestDirect
  <2>6. QED
    BY <1>0, <2>4, <2>5, FillDirect
<1>5. CASE MissGoesToDram(c)
  <2>1. PICK b \in Block, op \in Op, g \in Llc : b = user[c].block /\ op = user[c].op /\ g = Master(c)
    <3>1. user[c].pc = "miss"
      BY <1>5 DEF MissGoesToDram, HasStackLock
    <3>2. QED
      BY <1>0, MasterFacts, <3>1, RequestTypes
  <2>2. PICK L1 \in L1Type : L1 = OwnInvalidated(c)
    BY <1>0, <2>1, OwnInvalidatedFacts
  <2>3. dram[b] \in BOOLEAN
    BY <1>0
  <2>4. PICK s \in CState, line \in Line : s = (IF op = "READ" THEN "SHARED" ELSE "MODIFIED")
                                           /\ line = [st |-> s, cur |-> dram[b]] /\ line.st = s
    BY <2>3, LineMade DEF CState
  <2>5. PICK v : /\ v \in LlcVictims(llc, g)
                 /\ FillAndComplete(c, op, b, L1AfterEvict(L1, g, v), LlcAfterInsert(llc, g, b, line, v),
                        IF v # NoBlock /\ llc[g][v].st = "MODIFIED"
                        THEN [dram EXCEPT ![v] = WrittenBack(L1, llc, g, v, {}).cur] ELSE dram,
                        MissChecks(c))
                 /\ UNCHANGED <<waiters, net, dir>>
    BY <1>5, <2>1, <2>2, <2>4 DEF MissGoesToDram
  <2>6. v = NoBlock \/ v \in Block
    BY <2>5, LlcVictimFacts
  <2>7. PICK M \in L1Type, LLC \in LlcType : M = L1AfterEvict(L1, g, v) /\ LLC = LlcAfterInsert(llc, g, b, line, v)
    BY <1>0, <2>6, EvictFacts, InsertFacts DEF CacheType
  <2>8. PICK DRAM \in [Block -> BOOLEAN] :
          DRAM = IF v # NoBlock /\ llc[g][v].st = "MODIFIED"
                 THEN [dram EXCEPT ![v] = WrittenBack(L1, llc, g, v, {}).cur] ELSE dram
    <3>1. CASE v \in Block /\ v # NoBlock
      <4>1. PICK line2 \in Line : line2 = WrittenBack(L1, llc, g, v, {})
        BY <1>0, <3>1, WrittenBackFacts DEF CacheType
      <4>2. line2.cur \in BOOLEAN
        BY LineFacts
      <4>3. QED
        BY <1>0, <4>1, <4>2
    <3>2. CASE v = NoBlock
      BY <1>0, <3>2
    <3>3. QED
      BY <2>6, <3>1, <3>2
  <2>9. \A h \in Llc, x \in Block : LLC[h][x].st \in DirectState
    <3>1. \A h \in Llc, x \in Block :
            LLC[h][x] = IF h = g /\ x = v THEN Absent ELSE IF h = g /\ x = b THEN line ELSE llc[h][x]
      BY <1>0, <2>6, <2>7, InsertFacts DEF CacheType
    <3>2. Absent.st \in DirectState /\ line.st \in DirectState
      BY <2>4, LineFacts DEF DirectState
    <3>3. QED
      BY <1>0, <3>1, <3>2
  <2>10. FillAndComplete(c, op, b, M, LLC, DRAM, MissChecks(c)) /\ UNCHANGED <<waiters, net, dir>>
    BY <2>5, <2>7, <2>8
  <2>11. QED
    BY <2>9, <2>10, FillDirect
<1>6. CASE MissWaits(c)
  BY <1>6 DEF MissWaits
<1>7. CASE Resume(c)
  <2>1. userSem[c] = 1
    BY <1>7, NetTypes, <1>0 DEF Resume
  <2>2. net[Master(c)] \in Block
    BY <1>0, <2>1, NetTypes, MasterFacts, SignalledFacts
  <2>3. QED
    BY <2>2, MasterFacts, CoresAssumption DEF DirectInv
<1>8. CASE Unlock(c)
  <2>1. PICK b \in Block : b = user[c].block
    BY <1>8 DEF Unlock, HandoverInv, UserInv
  <2>2. PICK op \in Op : op = "WRITE"
    BY DEF Op
  <2>3. Accessed(c, op, b, l1, llc, dram) /\ UNCHANGED <<waiters, net, dir>>
    BY <1>0, <1>8, <2>1, <2>2, AccessFacts DEF Unlock, Complete, CacheType
  <2>4. QED
    BY <1>1, <2>3
<1>9. QED
  BY <1>2, <1>3, <1>4, <1>5, <1>6, <1>7, <1>8 DEF UserStep

(* Nobody is woken, and no message comes.                                  *)
LEMMA DirectQuiet ==
    ASSUME TypeOK, HandoverInv, DirectInv
    PROVE  /\ \A g \in Llc : ~NetStep(g)
           /\ \A b \in Block : ~DirStep(b)
<1>1. ASSUME NEW g \in Llc, NetStep(g)
      PROVE  FALSE
  <2>1. net[g] = NoBlock /\ \A b \in Block : down[g][b] = <<>>
    BY DEF DirectInv
  <2>2. ~NetResumes(g)
    BY <2>1 DEF NetResumes
  <2>3. PICK b \in Block : HandleMsgFromDramDirectory(g, b)
    BY <1>1, <2>2 DEF NetStep
  <2>4. down[g][b] # <<>>
    BY <2>3 DEF HandleMsgFromDramDirectory, HandleDataRep, HandleUpgradeRep, HandleInvReq,
                HandleFlushReq, HandleWbReq, HandleDirReq, Received
  <2>5. QED
    BY <2>1, <2>4
<1>2. ASSUME NEW b \in Block, DirStep(b)
      PROVE  FALSE
  <2>1. dir[b].queue = <<>> /\ \A g \in Llc : up[g][b] = <<>>
    BY DEF DirectInv
  <2>2. QED
    BY <1>2, <2>1 DEF DirStep, DirForward, DirReply, DirReceive
<1>3. QED
  BY <1>1, <1>2
-----------------------------------------------------------------------------
DirectoryIInv == HandoverIInv /\ (Running => ProtocolInv)

LEMMA DirectoryUser ==
    ASSUME TypeOK, TypeOK', HandoverInv, DirectoryInv, ~dramDirect, NEW c \in Core, UserStep(c)
    PROVE  DirectoryInv'
<1>1. CASE MissWaits(c)
  BY <1>1, MissWaitsLinks
<1>2. CASE MissGoesToDram(c)
  BY <1>2 DEF MissGoesToDram
<1>3. CASE \/ \E op \in Op, b \in Block : Hit(c, op, b) \/ Miss(c, op, b)
           \/ MissHitsLlc(c) \/ Resume(c) \/ Unlock(c)
  BY <1>3, UserQuiet
<1>4. QED
  BY <1>1, <1>2, <1>3 DEF UserStep

LEMMA DirectoryNet ==
    ASSUME TypeOK, TypeOK', HandoverInv, DirectoryInv, Running', NEW g \in Llc, NetStep(g)
    PROVE  DirectoryInv'
<1>1. CASE NetResumes(g)
  BY <1>1, NetResumesLinks
<1>2. ASSUME NEW b \in Block, HandleMsgFromDramDirectory(g, b)
      PROVE  DirectoryInv'
  <2>1. ASSUME NEW type \in {"EX_REP", "SH_REP"}, HandleDataRep(g, b, type)
        PROVE  DirectoryInv'
    BY <2>1, HandleDataRepLinks
  <2>2. CASE HandleUpgradeRep(g, b)
    BY <2>2, HandleUpgradeRepLinks
  <2>3. CASE HandleInvReq(g, b) \/ HandleFlushReq(g, b) \/ HandleWbReq(g, b)
    BY <2>3, DirRequestsLink
  <2>4. QED
    BY <1>2, <2>1, <2>2, <2>3 DEF HandleMsgFromDramDirectory
<1>3. QED
  BY <1>1, <1>2 DEF NetStep

LEMMA DirectoryDir ==
    ASSUME TypeOK, TypeOK', ChannelInv, DirectoryInv, NEW b \in Block, DirStep(b)
    PROVE  DirectoryInv'
<1>1. CASE DirForward(b)
  BY <1>1, DirForwardLinks
<1>2. CASE DirReply(b)
  BY <1>2, DirReplyLinks
<1>3. ASSUME NEW g \in Llc, DirReceive(g, b)
      PROVE  DirectoryInv'
  BY <1>3, DirReceiveLinks
<1>4. QED
  BY <1>1, <1>2, <1>3 DEF DirStep

(* The program is configured once.                                         *)
LEMMA SameConfig ==
    ASSUME [Next]_vars
    PROVE  UNCHANGED dramDirect
<1>1. ASSUME NEW c \in Core, UserStep(c)
      PROVE  UNCHANGED dramDirect
  BY <1>1 DEF UserStep, Hit, Miss, MissHitsLlc, MissGoesToDram, MissWaits, Resume, Unlock
<1>2. ASSUME NEW g \in Llc, NetStep(g)
      PROVE  UNCHANGED dramDirect
  <2>1. ASSUME NEW b \in Block, NEW type, NEW new, NEW reply, NEW checks,
               HandleDirReq(g, b, type, new, reply, checks)
        PROVE  UNCHANGED dramDirect
    BY <2>1 DEF HandleDirReq
  <2>2. ASSUME NEW b \in Block, HandleInvReq(g, b) \/ HandleFlushReq(g, b) \/ HandleWbReq(g, b)
        PROVE  UNCHANGED dramDirect
    BY <2>1, <2>2 DEF HandleInvReq, HandleFlushReq, HandleWbReq
  <2>3. ASSUME NEW b \in Block, HandleUpgradeRep(g, b) \/ \E type \in {"EX_REP", "SH_REP"} : HandleDataRep(g, b, type)
        PROVE  UNCHANGED dramDirect
    BY <2>3 DEF HandleUpgradeRep, HandleDataRep
  <2>4. CASE NetResumes(g)
    BY <2>4 DEF NetResumes
  <2>5. QED
    BY <1>2, <2>2, <2>3, <2>4 DEF NetStep, HandleMsgFromDramDirectory
<1>3. ASSUME NEW b \in Block, DirStep(b)
      PROVE  UNCHANGED dramDirect
  BY <1>3 DEF DirStep, DirForward, DirReply, DirReceive
<1>4. QED
  BY <1>1, <1>2, <1>3 DEF Next, Stopped, vars

LEMMA ProtocolSame ==
    ASSUME UNCHANGED vars, ProtocolInv
    PROVE  ProtocolInv'
<1>1. UNCHANGED <<llc, up, down, dir, waiters, net, dramDirect>>
  BY DEF vars
<1>2. DirectInv => DirectInv'
  BY <1>1 DEF DirectInv
<1>3. DirectoryInv => DirectoryInv'
  BY <1>1, DirectoryParts, DirectoryPartsNext
<1>4. QED
  BY <1>1, <1>2, <1>3 DEF ProtocolInv

LEMMA DirectoryStep ==
    ASSUME DirectoryIInv, [Next]_vars
    PROVE  DirectoryIInv'
<1>1. HandoverIInv /\ HandoverIInv' /\ TypeOK /\ TypeOK'
  BY HandoverStep DEF DirectoryIInv, HandoverIInv
<1>2. SUFFICES ASSUME Running'
               PROVE  ProtocolInv'
  BY <1>1 DEF DirectoryIInv
<1>3. UNCHANGED dramDirect
  BY SameConfig
<1>4. CASE UNCHANGED vars
  <2>1. Running
    BY <1>2, <1>4 DEF vars, Running
  <2>2. QED
    BY <1>4, <2>1, ProtocolSame DEF DirectoryIInv
<1>5. ASSUME Running, HandoverInv, ChannelInv, ProtocolInv,
             \/ \E c \in Core : UserStep(c)
             \/ \E g \in Llc : NetStep(g)
             \/ \E b \in Block : DirStep(b)
      PROVE  ProtocolInv'
  <2>1. CASE dramDirect
    <3>1. DirectInv
      BY <1>5, <2>1 DEF ProtocolInv
    <3>2. PICK c \in Core : UserStep(c)
      BY <1>1, <1>5, <3>1, DirectQuiet
    <3>3. DirectInv'
      BY <1>1, <1>5, <2>1, <3>1, <3>2, DirectUser
    <3>4. QED
      BY <1>3, <2>1, <3>3 DEF ProtocolInv
  <2>2. CASE ~dramDirect
    <3>1. DirectoryInv
      BY <1>5, <2>2 DEF ProtocolInv
    <3>2. DirectoryInv'
      BY <1>1, <1>2, <1>5, <2>2, <3>1, DirectoryUser, DirectoryNet, DirectoryDir
    <3>3. QED
      BY <1>3, <2>2, <3>2 DEF ProtocolInv
  <2>3. QED
    BY <2>1, <2>2
<1>6. ASSUME \/ \E c \in Core : UserStep(c)
             \/ \E g \in Llc : NetStep(g)
             \/ \E b \in Block : DirStep(b)
      PROVE  ProtocolInv'
  <2>1. Running
    BY <1>6, OnlyRunning
  <2>2. HandoverInv /\ ChannelInv /\ ProtocolInv
    BY <2>1 DEF DirectoryIInv, HandoverIInv
  <2>3. QED
    BY <1>5, <1>6, <2>1, <2>2
<1>7. QED
  BY <1>4, <1>6 DEF Next, Stopped

LEMMA DirectoryStart == Init => DirectoryIInv
<1> SUFFICES ASSUME Init
             PROVE  DirectoryIInv
  OBVIOUS
<1>1. HandoverIInv
  BY HandoverStart
<1>2. /\ \A g \in Llc, b \in Block :
           up[g][b] = <<>> /\ down[g][b] = <<>> /\ waiters[g][b] = <<>> /\ llc[g][b] = Absent
      /\ \A g \in Llc : net[g] = NoBlock
  BY DEF Init
<1>3. PICK d : d = [sharers |-> {}, owned |-> FALSE, queue |-> <<>>, sent |-> FALSE]
  OBVIOUS
<1>4. d.sharers = {} /\ d.owned = FALSE /\ d.queue = <<>> /\ d.sent = FALSE
  BY <1>3
<1>5. \A b \in Block : dir[b] = d
  BY <1>3 DEF Init
<1>6. DirectInv
  BY <1>2, <1>4, <1>5, LineFacts DEF DirectInv
<1>7. PICK s : s = <<>> /\ \A i : i \notin DOMAIN s
  OBVIOUS
<1>8. /\ \A T : ~Has(s, T) /\ AtMostOne(s, T) /\ ~Fresh(s, T)
      /\ \A g, T : ~Queued(s, g, T)
      /\ \A g : QueuedOnce(s, g)
      /\ \A T1, T2 : Before(s, T1, T2)
      /\ FreshOnce(s)
  BY <1>7 DEF Has, AtMostOne, Fresh, Queued, QueuedOnce, Before, FreshOnce
<1>9. PICK st : st = "INVALID"
  OBVIOUS
<1>10. ASSUME NEW g \in Llc
       PROVE  ~Asked(g, s, s, d) /\ ~Upgrading(g, s, s, d) /\ LinkInv(g, st, s, s, d)
  <2>1. d.queue = s
    BY <1>4, <1>7
  <2>2. ~Asked(g, s, s, d) /\ ~Upgrading(g, s, s, d)
    BY <1>8, <2>1 DEF Asked, Upgrading
  <2>3. RequestOnce(g, s, s, d) /\ RequestState(g, st, s, s, d)
    BY <1>8, <1>9, <2>1, <2>2 DEF RequestOnce, RequestState
  <2>4. Believed(g, st, s, s, d)
    BY <1>4, <1>8, <1>9 DEF Believed, OwnerState
  <2>5. GoneOrder(g, st, s, s, d) /\ WrittenBackOrder(g, st, s, s, d) /\ ForwardOrder(g, st, s, s, d)
    BY <1>8 DEF GoneOrder, WrittenBackOrder, ForwardOrder
  <2>6. QED
    BY <2>2, <2>3, <2>4, <2>5 DEF LinkInv
<1>11. ASSUME NEW b \in Block, NEW g \in Llc
       PROVE  LinkedAt(g, b, llc[g][b].st, up[g][b], down[g][b], dir[b], waiters[g][b], net[g])
  <2>1. /\ llc[g][b].st = st /\ up[g][b] = s /\ down[g][b] = s /\ dir[b] = d
    BY <1>2, <1>5, <1>7, <1>9, LineFacts
  <2>2. LinkedAt(g, b, st, s, s, d, waiters[g][b], net[g])
    BY <1>10 DEF LinkedAt
  <2>3. QED
    BY <2>1, <2>2
<1>12. DirectoryInv
  <2>1. \A b \in Block : OwnerAlone(dir[b])
    BY <1>4, <1>5 DEF OwnerAlone
  <2>2. QED
    BY <1>11, <2>1, DirectoryParts
<1>13. QED
  BY <1>1, <1>6, <1>12 DEF DirectoryIInv, ProtocolInv

(* The lines of the LLCs, the messages on their way and what the directory *)
(* believes fit together (initiateDirectoryAccess, the handlers of         *)
(* handleMsgFromDramDirectory, insertCacheBlock and the directory): one    *)
(* request at a time, copies given up before they are asked for again, and *)
(* an owner that is the only sharer.                                       *)
THEOREM DirectoryInvariant == Spec => []DirectoryIInv
<1>1. QED
  BY DirectoryStart, DirectoryStep, PTL DEF Spec

(* Of an LLC line that is EXCLUSIVE or MODIFIED no other LLC has a copy,   *)
(* in whatever order the messages come (updateCacheBlock and               *)
(* insertCacheBlock of the LLCs).                                          *)
LlcOwnerAlone ==
    Running /\ ~dramDirect =>
    \A g, h \in Llc, b \in Block : g # h /\ llc[g][b].st \in OwnerState => ~Valid(llc[h][b])

LEMMA LlcsAlone ==
    ASSUME DirectoryIInv
    PROVE  LlcOwnerAlone
<1> SUFFICES ASSUME Running, ~dramDirect, NEW g \in Llc, NEW h \in Llc, NEW b \in Block,
                    g # h, llc[g][b].st \in OwnerState, Valid(llc[h][b])
             PROVE  FALSE
  BY DEF LlcOwnerAlone
<1>1. DirectoryInv
  BY DEF DirectoryIInv, ProtocolInv
<1>2. dir[b].owned /\ g \in dir[b].sharers
  BY <1>1 DEF DirectoryInv, LinkInv, Believed
<1>3. h \in dir[b].sharers
  BY <1>1 DEF DirectoryInv, LinkInv, Believed, Valid
<1>4. OwnerAlone(dir[b])
  BY <1>1 DEF DirectoryInv
<1>5. QED
  BY <1>2, <1>3, <1>4 DEF OwnerAlone

(* The LLCs never disagree about who may write, in whatever order the      *)
(* messages of the directory come (updateCacheBlock and insertCacheBlock). *)
THEOREM LlcsCoherent == Spec => []LlcOwnerAlone
<1>1. DirectoryIInv => LlcOwnerAlone
  BY LlcsAlone
<1>2. QED
  BY <1>1, DirectoryInvariant, PTL
=============================================================================
