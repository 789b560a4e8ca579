-------------------------- MODULE ProcessorProofs ---------------------------
(***************************************************************************)
(* Proofs about Processor for every configuration, with any number of      *)
(* objects of each class.  Made says how far the constructor is with a     *)
(* class; the invariant ties the areas and powers to it, and the chip to   *)
(* its classes object by object (Totals).                                  *)
(***************************************************************************)
EXTENDS Processor, FiniteSetTheorems, TLAPS

Count(t, B) == IF t \in DOMAIN B THEN B[t] ELSE 0

(* The union of two bags counts the copies of both.                        *)
LEMMA BagSum ==
    ASSUME NEW A, NEW B, IsABag(A), IsABag(B)
    PROVE  /\ IsABag(A (+) B)
           /\ DOMAIN (A (+) B) = DOMAIN A \cup DOMAIN B
           /\ \A t : Count(t, A (+) B) = Count(t, A) + Count(t, B)
  BY DEF IsABag, (+), Count

LEMMA BagCount ==
    ASSUME NEW A, IsABag(A), NEW t
    PROVE  /\ Count(t, A) \in Nat
           /\ Count(t, A) = 0 <=> t \notin DOMAIN A
  BY DEF IsABag, Count

LEMMA EqualBags ==
    ASSUME NEW A, NEW B, IsABag(A), IsABag(B), \A t : Count(t, A) = Count(t, B)
    PROVE  A = B
<1>1. \A t : t \in DOMAIN A <=> t \in DOMAIN B
  BY BagCount
<1>2. DOMAIN A = DOMAIN B
  BY <1>1
<1>3. \A t \in DOMAIN A : A[t] = B[t]
  BY <1>1 DEF Count
<1>4. QED
  BY <1>2, <1>3 DEF IsABag

LEMMA NoBag == IsABag(EmptyBag) /\ DOMAIN EmptyBag = {} /\ \A t : Count(t, EmptyBag) = 0
  BY DEF EmptyBag, SetToBag, IsABag, Count

-----------------------------------------------------------------------------
(* The classes and the chip. *)

Disjoint(T) == \A k, m \in Classes : k # m => T[k] \cap T[m] = {}

(* f is an area or a power, what T[k] belongs to class k; but for the      *)
(* classes X, the chip counts of a class what the class counts.            *)
Totals(f, T, X) ==
    /\ DOMAIN f = Classes \cup {"chip"}
    /\ \A k \in Classes \cup {"chip"} : IsABag(f[k])
    /\ \A k \in Classes : DOMAIN f[k] \subseteq T[k]
    /\ \A t \in DOMAIN f["chip"] : \E k \in Classes : t \in T[k]
    /\ \A k \in Classes \ X : \A t \in T[k] : Count(t, f["chip"]) = Count(t, f[k])

Added(f, c, B, D) == [f EXCEPT ![c] = @ (+) B, !["chip"] = @ (+) D]

(* B is added to class c and D, which is the same unless c is in X, to the *)
(* chip.                                                                   *)
LEMMA TotalsAdd ==
    ASSUME NEW T, Disjoint(T), NEW X, NEW f, Totals(f, T, X), NEW c \in Classes,
           NEW B, IsABag(B), DOMAIN B \subseteq T[c],
           NEW D, IsABag(D), DOMAIN D \subseteq T[c], c \notin X => D = B
    PROVE  /\ Totals(Added(f, c, B, D), T, X)
           /\ Added(f, c, B, D)[c] = f[c] (+) B
           /\ \A k \in Classes : k # c => Added(f, c, B, D)[k] = f[k]
<1> DEFINE g == Added(f, c, B, D)
<1>1. c # "chip" /\ "chip" \notin Classes
  BY DEF Classes, Arrays, Controllers
<1>0. IsABag(f[c]) /\ IsABag(f["chip"])
  BY DEF Totals
<1>2. /\ DOMAIN g = Classes \cup {"chip"}
      /\ g[c] = f[c] (+) B /\ g["chip"] = f["chip"] (+) D
      /\ \A k \in Classes : k # c => g[k] = f[k]
  BY <1>1 DEF Totals, Added
<1> HIDE DEF g
<1>3. /\ IsABag(g[c]) /\ DOMAIN g[c] = DOMAIN f[c] \cup DOMAIN B
      /\ \A t : Count(t, g[c]) = Count(t, f[c]) + Count(t, B)
  <2> DEFINE Both == f[c] (+) B
  <2>1. g[c] = Both
    BY <1>2
  <2>2. /\ IsABag(Both) /\ DOMAIN Both = DOMAIN f[c] \cup DOMAIN B
        /\ \A t : Count(t, Both) = Count(t, f[c]) + Count(t, B)
    BY <1>0, BagSum
  <2> HIDE DEF Both
  <2>3. QED
    BY <2>1, <2>2
<1>4. /\ IsABag(g["chip"]) /\ DOMAIN g["chip"] = DOMAIN f["chip"] \cup DOMAIN D
      /\ \A t : Count(t, g["chip"]) = Count(t, f["chip"]) + Count(t, D)
  <2> DEFINE Both == f["chip"] (+) D
  <2>1. g["chip"] = Both
    BY <1>2
  <2>2. /\ IsABag(Both) /\ DOMAIN Both = DOMAIN f["chip"] \cup DOMAIN D
        /\ \A t : Count(t, Both) = Count(t, f["chip"]) + Count(t, D)
    BY <1>0, BagSum
  <2> HIDE DEF Both
  <2>3. QED
    BY <2>1, <2>2
<1>5. ASSUME NEW k \in Classes \ X, NEW t \in T[k]
      PROVE  Count(t, g["chip"]) = Count(t, g[k])
  <2>1. Count(t, f["chip"]) = Count(t, f[k]) /\ Count(t, f["chip"]) \in Nat
    BY BagCount DEF Totals
  <2>2. CASE k = c
    BY <1>2, <1>3, <1>4, <2>1, <2>2
  <2>3. CASE k # c
    <3>1. t \notin DOMAIN D
      BY <2>3 DEF Disjoint
    <3>2. Count(t, D) = 0
      BY <3>1 DEF Count
    <3>3. QED
      BY <1>2, <1>4, <2>1, <2>3, <3>2
  <2>4. QED
    BY <2>2, <2>3
<1>6. \A k \in Classes \cup {"chip"} : IsABag(g[k])
  BY <1>2, <1>3, <1>4 DEF Totals
<1>7. \A k \in Classes : DOMAIN g[k] \subseteq T[k]
  BY <1>2, <1>3 DEF Totals
<1>8. \A t \in DOMAIN g["chip"] : \E k \in Classes : t \in T[k]
  BY <1>4 DEF Totals
<1>9. QED
  BY <1>2, <1>5, <1>6, <1>7, <1>8 DEF Totals, g

(* What the sum of the class totals counts of class k.                     *)
LEMMA SumCounts ==
    ASSUME NEW T, Disjoint(T), NEW X, NEW f, Totals(f, T, X)
    PROVE  /\ IsABag(Sum(f))
           /\ \A t \in DOMAIN Sum(f) : \E k \in Classes : t \in T[k]
           /\ \A k \in Classes : \A t \in T[k] : Count(t, Sum(f)) = Count(t, f[k])
<1> DEFINE S2 == f["cores"] (+) f["l2array"]
           S3 == S2 (+) f["l3array"]
           S4 == S3 (+) f["l1dirarray"]
           S5 == S4 (+) f["l2dirarray"]
           S6 == S5 (+) f["mc"]
           S7 == S6 (+) f["flashcontroller"]
           S8 == S7 (+) f["niu"]
           S9 == S8 (+) f["pcie"]
           S10 == S9 (+) f["nocs"]
<1>1. \A k \in Classes : IsABag(f[k]) /\ DOMAIN f[k] \subseteq T[k]
  BY DEF Totals
<1>2. /\ IsABag(f["cores"]) /\ IsABag(f["l2array"]) /\ IsABag(f["l3array"])
      /\ IsABag(f["l1dirarray"]) /\ IsABag(f["l2dirarray"]) /\ IsABag(f["mc"])
      /\ IsABag(f["flashcontroller"]) /\ IsABag(f["niu"]) /\ IsABag(f["pcie"])
      /\ IsABag(f["nocs"])
  BY <1>1 DEF Classes, Arrays, Controllers
<1>3. IsABag(S2) /\ \A t : Count(t, S2) = Count(t, f["cores"]) + Count(t, f["l2array"])
  BY <1>2, BagSum
<1> HIDE DEF S2
<1>4. IsABag(S3) /\ \A t : Count(t, S3) = Count(t, S2) + Count(t, f["l3array"])
  BY <1>2, <1>3, BagSum
<1> HIDE DEF S3
<1>5. IsABag(S4) /\ \A t : Count(t, S4) = Count(t, S3) + Count(t, f["l1dirarray"])
  BY <1>2, <1>4, BagSum
<1> HIDE DEF S4
<1>6. IsABag(S5) /\ \A t : Count(t, S5) = Count(t, S4) + Count(t, f["l2dirarray"])
  BY <1>2, <1>5, BagSum
<1> HIDE DEF S5
<1>7. IsABag(S6) /\ \A t : Count(t, S6) = Count(t, S5) + Count(t, f["mc"])
  BY <1>2, <1>6, BagSum
<1> HIDE DEF S6
<1>8. IsABag(S7) /\ \A t : Count(t, S7) = Count(t, S6) + Count(t, f["flashcontroller"])
  BY <1>2, <1>7, BagSum
<1> HIDE DEF S7
<1>9. IsABag(S8) /\ \A t : Count(t, S8) = Count(t, S7) + Count(t, f["niu"])
  BY <1>2, <1>8, BagSum
<1> HIDE DEF S8
<1>10. IsABag(S9) /\ \A t : Count(t, S9) = Count(t, S8) + Count(t, f["pcie"])
  BY <1>2, <1>9, BagSum
<1> HIDE DEF S9
<1>11. IsABag(S10) /\ \A t : Count(t, S10) = Count(t, S9) + Count(t, f["nocs"])
  BY <1>2, <1>10, BagSum
<1> HIDE DEF S10
<1>12. Sum(f) = S10
  BY DEF Sum, S2, S3, S4, S5, S6, S7, S8, S9, S10
<1>13. ASSUME NEW t
       PROVE  Count(t, S10) =
                Count(t, f["cores"]) + Count(t, f["l2array"]) + Count(t, f["l3array"])
                  + Count(t, f["l1dirarray"]) + Count(t, f["l2dirarray"]) + Count(t, f["mc"])
                  + Count(t, f["flashcontroller"]) + Count(t, f["niu"]) + Count(t, f["pcie"])
                  + Count(t, f["nocs"])
  BY <1>3, <1>4, <1>5, <1>6, <1>7, <1>8, <1>9, <1>10, <1>11
<1>14. ASSUME NEW t, NEW k \in Classes
       PROVE  /\ Count(t, f[k]) \in Nat
              /\ t \notin T[k] => Count(t, f[k]) = 0
  BY <1>1, BagCount
<1>15. ASSUME NEW k \in Classes, NEW t \in T[k]
       PROVE  Count(t, S10) = Count(t, f[k])
  <2>1. \A m \in Classes : m # k => Count(t, f[m]) = 0
    BY <1>14 DEF Disjoint
  <2>2. Count(t, f[k]) \in Nat
    BY <1>14
  <2>3. QED
    BY <1>13, <2>1, <2>2 DEF Classes, Arrays, Controllers
<1>16. ASSUME NEW t \in DOMAIN S10, \A k \in Classes : t \notin T[k]
       PROVE  FALSE
  <2>1. \A m \in Classes : Count(t, f[m]) = 0
    BY <1>14, <1>16
  <2>2. Count(t, S10) = 0
    BY <1>13, <2>1 DEF Classes, Arrays, Controllers
  <2>3. QED
    BY <1>11, <2>2, BagCount
<1>17. QED
  BY <1>11, <1>12, <1>15, <1>16

(* So the chip is the sum of its classes.                                  *)
LEMMA ChipIsSum ==
    ASSUME NEW T, Disjoint(T), NEW f, Totals(f, T, {})
    PROVE  f["chip"] = Sum(f)
<1>1. IsABag(f["chip"]) /\ IsABag(Sum(f))
  BY SumCounts DEF Totals
<1>2. ASSUME NEW t
      PROVE  Count(t, f["chip"]) = Count(t, Sum(f))
  <2>1. CASE \E k \in Classes : t \in T[k]
    <3>1. PICK k \in Classes : t \in T[k]
      BY <2>1
    <3>2. Count(t, f["chip"]) = Count(t, f[k])
      BY <3>1 DEF Totals
    <3>3. Count(t, Sum(f)) = Count(t, f[k])
      BY <3>1, SumCounts
    <3>4. QED
      BY <3>2, <3>3
  <2>2. CASE ~\E k \in Classes : t \in T[k]
    <3>1. t \notin DOMAIN f["chip"] /\ t \notin DOMAIN Sum(f)
      BY <2>2, SumCounts DEF Totals
    <3>2. QED
      BY <3>1 DEF Count
  <2>3. QED
    BY <2>1, <2>2
<1>3. QED
  BY <1>1, <1>2, EqualBags

-----------------------------------------------------------------------------
(* The objects of a class, links included, and the terms of its powers. *)

Objects(k) == {<<k, j>> : j \in Nat} \cup (IF k = "nocs" THEN {<<"link", j>> : j \in Nat} ELSE {})
TermsOf(O) == {<<o, what, factor>> : o \in O, what \in {"dynamic", "leakage"},
                                     factor \in {"clock", "time", "none"}}
AreaOf == [k \in Classes |-> Objects(k)]
PowerOf == [k \in Classes |-> TermsOf(Objects(k))]

LEMMA AreaDisjoint == Disjoint(AreaOf)
<1> SUFFICES ASSUME NEW k \in Classes, NEW m \in Classes, k # m,
                    NEW o \in Objects(k), o \in Objects(m)
             PROVE  FALSE
  BY DEF Disjoint, AreaOf
<1>1. k # "link" /\ m # "link"
  BY DEF Classes, Arrays, Controllers
<1>2. QED
  BY <1>1 DEF Objects

LEMMA PowerDisjoint == Disjoint(PowerOf)
<1> SUFFICES ASSUME NEW k \in Classes, NEW m \in Classes, k # m,
                    NEW t \in TermsOf(Objects(k)), t \in TermsOf(Objects(m))
             PROVE  FALSE
  BY DEF Disjoint, PowerOf
<1>1. t[1] \in Objects(k) /\ t[1] \in Objects(m)
  BY DEF TermsOf
<1>2. QED
  BY <1>1, AreaDisjoint DEF Disjoint, AreaOf

LEMMA CopiedBag ==
    ASSUME NEW o, NEW n \in Nat \ {0}
    PROVE  IsABag(Copied(o, n)) /\ DOMAIN Copied(o, n) = {o} /\ Copied(o, n)[o] = n
  BY DEF Copied, IsABag

LEMMA TimesBag ==
    ASSUME NEW k \in Classes, NEW o \in Objects(k), NEW factor \in {"clock", "time", "none"},
           NEW n \in Nat \ {0}, NEW m \in Nat \ {0}
    PROVE  /\ IsABag(Times(o, factor, n, m))
           /\ DOMAIN Times(o, factor, n, m) \subseteq PowerOf[k]
           /\ DOMAIN Times(o, factor, n, m) # {}
<1>1. DOMAIN Times(o, factor, n, m) = {<<o, "dynamic", factor>>, <<o, "leakage", "none">>}
  BY DEF Times
<1>2. IsABag(Times(o, factor, n, m))
  BY <1>1 DEF Times, IsABag
<1>3. QED
  BY <1>1, <1>2 DEF PowerOf, TermsOf

(* A heterogeneous first level directory enters the chip's powers without  *)
(* a factor: its terms are left out.                                       *)
Excepted(c) == IF c["l1dirarray"].homo \/ c["l1dirarray"].num = 0 THEN {} ELSE {"l1dirarray"}

(* The sum of the classes, as ClassesAddUp states it.                      *)
LEMMA PowersAddUp ==
    ASSUME NEW f, Totals(f, PowerOf, Excepted(xml))
    PROVE  IF xml["l1dirarray"].homo \/ xml["l1dirarray"].num = 0
           THEN f["chip"] = Sum(f)
           ELSE Without(f["chip"], "l1dirarray") = Without(Sum(f), "l1dirarray")
<1>1. CASE xml["l1dirarray"].homo \/ xml["l1dirarray"].num = 0
  BY <1>1, ChipIsSum, PowerDisjoint DEF Excepted
<1>2. CASE ~(xml["l1dirarray"].homo \/ xml["l1dirarray"].num = 0)
  <2> DEFINE S == Sum(f)
  <2>1. /\ IsABag(f["chip"]) /\ IsABag(S)
        /\ \A t \in DOMAIN f["chip"] \cup DOMAIN S : \E k \in Classes : t \in PowerOf[k]
    BY SumCounts, PowerDisjoint DEF Totals
  <2>2. ASSUME NEW k \in Classes, k # "l1dirarray", NEW t \in PowerOf[k]
        PROVE  Count(t, f["chip"]) = Count(t, S)
    <3>1. Count(t, f["chip"]) = Count(t, f[k])
      BY <1>2, <2>2 DEF Totals, Excepted
    <3>2. Count(t, S) = Count(t, f[k])
      BY SumCounts, PowerDisjoint
    <3>3. QED
      BY <3>1, <3>2
  <2> HIDE DEF S
  <2>3. ASSUME NEW t \in PowerOf["l1dirarray"]
        PROVE  t[1][1] = "l1dirarray"
    <3>1. "l1dirarray" \in Classes
      BY DEF Classes, Arrays
    <3>2. t[1] \in Objects("l1dirarray")
      BY <3>1 DEF PowerOf, TermsOf
    <3>3. QED
      BY <3>2 DEF Objects
  <2>4. ASSUME NEW t, t[1][1] # "l1dirarray"
        PROVE  /\ t \in DOMAIN f["chip"] <=> t \in DOMAIN S
               /\ t \in DOMAIN S => f["chip"][t] = S[t]
    <3>1. CASE \E k \in Classes : t \in PowerOf[k]
      <4>1. Count(t, f["chip"]) = Count(t, S)
        BY <2>2, <2>3, <2>4, <3>1
      <4>2. QED
        BY <2>1, <4>1, BagCount DEF Count
    <3>2. CASE ~\E k \in Classes : t \in PowerOf[k]
      BY <2>1, <3>2
    <3>3. QED
      BY <3>1, <3>2
  <2>5. {u \in DOMAIN f["chip"] : u[1][1] # "l1dirarray"} = {u \in DOMAIN S : u[1][1] # "l1dirarray"}
    BY <2>4
  <2>6. Without(f["chip"], "l1dirarray") = Without(S, "l1dirarray")
    BY <2>4, <2>5 DEF Without
  <2>7. QED
    BY <1>2, <2>6 DEF S
<1>3. QED
  BY <1>1, <1>2

-----------------------------------------------------------------------------
(* How far the constructor is. *)

Rank == [check |-> 0, exit |-> 0, cores |-> 1, l2array |-> 2, l3array |-> 3,
         l1dirarray |-> 4, l2dirarray |-> 5, mc |-> 6, flashcontroller |-> 7,
         niu |-> 8, pcie |-> 9, noc_area |-> 10, noc_link |-> 11, noc_energy |-> 12,
         built |-> 13, displayed |-> 14, end |-> 15]
NoCStep == {"noc_area", "noc_link", "noc_energy"}
Step == Arrays \cup Controllers \cup NoCStep
Skipped(step) == step = "l2array" /\ xml.Private_L2

(* The iterations that the loop or block of step has run.                  *)
Made(step) ==
    IF Skipped(step) \/ Rank[pc] < Rank[step] THEN 0
    ELSE IF pc = step THEN i ELSE Limit(step)

Progress ==
    /\ xml \in Configs
    /\ pc \in DOMAIN Rank /\ ~Skipped(pc)
    /\ i \in Nat
    /\ pc = "check" => i = 0
    /\ pc \in Step => i <= Limit(pc)

LEMMA StepFacts ==
    /\ \A c : DOMAIN After(c) = Step
    /\ Step \subseteq DOMAIN Rank /\ "check" \notin Step
    /\ \A s \in DOMAIN Rank : Rank[s] \in Nat
    /\ \A s, r \in Step : Rank[s] = Rank[r] => s = r
    /\ \A s \in Step : 1 <= Rank[s] /\ Rank[s] <= 12
    /\ \A s \in DOMAIN Rank \ Step : Rank[s] = 0 \/ Rank[s] >= 13
  BY DEF After, Step, NoCStep, Arrays, Controllers, Rank

(* No step is between one and what follows it, but a skipped one.          *)
LEMMA AfterFacts ==
    ASSUME NEW s \in Step
    PROVE  /\ After(xml)[s] \in DOMAIN Rank \ {"check"} /\ ~Skipped(After(xml)[s])
           /\ Rank[s] < Rank[After(xml)[s]]
           /\ \A r \in Step : Rank[r] <= Rank[s] \/ Rank[After(xml)[s]] <= Rank[r] \/ Skipped(r)
  BY DEF After, Step, NoCStep, Arrays, Controllers, Rank, Skipped

LEMMA ConfigFacts ==
    ASSUME Progress
    PROVE  /\ \A k \in Classes : /\ xml[k].homo \in BOOLEAN /\ xml[k].num \in Nat
                                 /\ Num(xml, k) \in Nat /\ Copies(xml, k) \in Nat
                                 /\ Num(xml, k) > 0 => Copies(xml, k) > 0
                                 /\ xml[k].homo => Num(xml, k) <= 1
                                 /\ Num(xml, k) = 0 <=> xml[k].num = 0
           /\ \A s \in Step : Limit(s) \in Nat
           /\ \A s \in NoCStep : Limit(s) = Num(xml, "nocs")
           /\ \A k \in Arrays : Limit(k) = Num(xml, k)
           /\ \A k \in Controllers : Limit(k) = IF xml[k].num > 0 THEN 1 ELSE 0
<1>1. xml \in Configs
  BY DEF Progress
<1>2. ASSUME NEW k \in Classes
      PROVE  xml[k].homo \in BOOLEAN /\ xml[k].num \in Nat
  BY <1>1, ConfigsShape
<1>3. ASSUME NEW k \in Classes
      PROVE  /\ Num(xml, k) \in Nat /\ Copies(xml, k) \in Nat
             /\ Num(xml, k) > 0 => Copies(xml, k) > 0
             /\ xml[k].homo => Num(xml, k) <= 1
             /\ Num(xml, k) = 0 <=> xml[k].num = 0
  BY <1>2 DEF Num, Copies
<1>4. /\ \A s \in NoCStep : Limit(s) = Num(xml, "nocs")
      /\ \A k \in Arrays : Limit(k) = Num(xml, k)
      /\ \A k \in Controllers : Limit(k) = IF xml[k].num > 0 THEN 1 ELSE 0
  BY DEF Limit, NoCStep, Arrays, Controllers, Exists
<1>5. \A s \in Step : Limit(s) \in Nat
  BY <1>3, <1>4 DEF Step, Classes
<1>6. QED
  BY <1>2, <1>3, <1>4, <1>5

LEMMA MadeFacts ==
    ASSUME Progress, NEW s \in Step
    PROVE  Made(s) \in Nat /\ Made(s) <= Limit(s)
  BY ConfigFacts DEF Made, Progress

(* One more iteration.                                                     *)
LEMMA MadeMore ==
    ASSUME Progress, pc \in Step, i < Limit(pc), i' = i + 1, UNCHANGED <<xml, pc>>
    PROVE  /\ Progress'
           /\ Made(pc) = i /\ Made(pc)' = i + 1
           /\ \A s \in Step : s # pc => Made(s)' = Made(s)
<1>1. Limit(pc) \in Nat /\ \A s : Limit(s)' = Limit(s) /\ Skipped(s)' = Skipped(s)
  BY ConfigFacts DEF Limit, Exists, Num, Skipped
<1>2. Progress'
  BY <1>1, StepFacts DEF Progress
<1>3. ~(Rank[pc] < Rank[pc]) /\ ~Skipped(pc)
  BY StepFacts DEF Progress
<1>4. QED
  BY <1>1, <1>2, <1>3 DEF Made

(* The constructor goes on to the next step: nothing is made.              *)
LEMMA MadeNext ==
    ASSUME Progress, NextStep
    PROVE  /\ Progress'
           /\ \A s \in Step : Made(s)' = Made(s)
<1>1. /\ pc \in Step /\ i >= Limit(pc) /\ pc' = After(xml)[pc] /\ i' = 0 /\ xml' = xml
  BY StepFacts DEF NextStep
<1>2. /\ \A s \in Step : Limit(s) \in Nat
      /\ \A s : Limit(s)' = Limit(s) /\ Skipped(s)' = Skipped(s)
  BY <1>1, ConfigFacts DEF Limit, Exists, Num, Skipped
<1>3. i = Limit(pc) /\ ~Skipped(pc)
  BY <1>1, <1>2 DEF Progress
<1>4. /\ pc' \in DOMAIN Rank \ {"check"} /\ ~Skipped(pc') /\ Rank[pc] < Rank[pc']
      /\ \A r \in Step : Rank[r] <= Rank[pc] \/ Rank[pc'] <= Rank[r] \/ Skipped(r)
  BY <1>1, AfterFacts
<1>5. Progress'
  BY <1>1, <1>2, <1>4 DEF Progress
<1>6. ASSUME NEW s \in Step
      PROVE  Made(s)' = Made(s)
  <2>1. Made(s)' = IF Skipped(s) \/ Rank[pc'] < Rank[s] THEN 0
                   ELSE IF pc' = s THEN 0 ELSE Limit(s)
    BY <1>1, <1>2 DEF Made
  <2>2. Rank[s] \in Nat /\ Rank[pc] \in Nat /\ Rank[pc'] \in Nat
    BY <1>1, <1>4, StepFacts
  <2>3. CASE Skipped(s)
    BY <2>1, <2>3 DEF Made
  <2>4. CASE ~Skipped(s) /\ Rank[s] <= Rank[pc]
    <3>1. Made(s)' = Limit(s)
      BY <1>4, <2>1, <2>2, <2>4
    <3>2. Made(s) = Limit(s)
      BY <1>3, <2>2, <2>4 DEF Made
    <3>3. QED
      BY <3>1, <3>2
  <2>5. CASE ~Skipped(s) /\ Rank[pc'] <= Rank[s]
    <3>1. Made(s)' = 0
      <4>1. pc' \in Step => Rank[pc'] < Rank[s] \/ pc' = s
        BY <2>2, <2>5, StepFacts
      <4>2. pc' \notin Step => FALSE
        BY <1>1, <1>4, <2>2, <2>5, StepFacts
      <4>3. QED
        BY <2>1, <4>1, <4>2
    <3>2. Made(s) = 0
      BY <1>4, <2>2, <2>5 DEF Made
    <3>3. QED
      BY <3>1, <3>2
  <2>6. QED
    BY <1>4, <2>3, <2>4, <2>5
<1>7. QED
  BY <1>5, <1>6

(* Before and after the construction nothing is made.                      *)
LEMMA MadeElse ==
    ASSUME Progress, xml' = xml, i' = i,
           \/ pc = "check" /\ i = 0 /\ pc' \in {"exit", "cores"}
           \/ pc = "built" /\ pc' = "displayed"
           \/ pc = "displayed" /\ pc' = "end"
           \/ pc' = pc
    PROVE  Progress' /\ \A s \in Step : Made(s)' = Made(s)
<1>1. /\ \A s \in Step : Limit(s) \in Nat
      /\ \A s : Limit(s)' = Limit(s) /\ Skipped(s)' = Skipped(s)
  BY ConfigFacts DEF Limit, Exists, Num, Skipped
<1>2. Progress'
  <2>1. pc' \in DOMAIN Rank /\ ~Skipped(pc') /\ (pc' \in Step => pc' = pc \/ i = 0)
    BY DEF Rank, Skipped, Progress, Step, Arrays, Controllers, NoCStep
  <2>2. QED
    BY <1>1, <2>1 DEF Progress
<1>3. ASSUME NEW s \in Step
      PROVE  Made(s)' = Made(s)
  <2>1. Made(s)' = IF Skipped(s) \/ Rank[pc'] < Rank[s] THEN 0
                   ELSE IF pc' = s THEN i ELSE Limit(s)
    BY <1>1 DEF Made
  <2>2. \/ Rank[s] \in Nat /\ 1 <= Rank[s] /\ Rank[s] <= 12
    BY StepFacts
  <2>3. Rank["check"] = 0 /\ Rank["exit"] = 0 /\ Rank["cores"] = 1 /\ Rank["built"] = 13
        /\ Rank["displayed"] = 14 /\ Rank["end"] = 15
    BY DEF Rank
  <2>4. s \notin {"check", "exit", "built", "displayed", "end"} /\ (Rank[s] = 1 => s = "cores")
    BY DEF Rank, Step, Arrays, Controllers, NoCStep
  <2>5. CASE pc' = pc
    BY <2>1, <2>5 DEF Made
  <2>6. CASE pc = "check" /\ i = 0 /\ pc' \in {"exit", "cores"}
    BY <2>1, <2>2, <2>3, <2>4, <2>6 DEF Made
  <2>7. CASE pc \in {"built", "displayed"} /\ pc' \in {"displayed", "end"}
    BY <2>1, <2>2, <2>3, <2>4, <2>7 DEF Made
  <2>8. QED
    BY <2>5, <2>6, <2>7
<1>4. QED
  BY <1>2, <1>3

-----------------------------------------------------------------------------
(* The invariant. *)

Weight(k) == IF k \in Controllers THEN xml[k].num ELSE Copies(xml, k)
Numbered(k, n) == {<<k, j>> : j \in 0 .. n - 1}
Linked == {<<"link", j>> : j \in {x \in 0 .. Made("noc_link") - 1 :
                                     xml.has_global_link /\ x \in xml.routers}}

(* The area of a class is what has been made of it.                        *)
AreaParts ==
    /\ \A k \in Classes : \A o \in DOMAIN area[k] : area[k][o] = Weight(k)
    /\ \A k \in Classes \ {"nocs"} : DOMAIN area[k] = Numbered(k, Made(k))
    /\ DOMAIN area["nocs"] = Numbered("nocs", Made("noc_area")) \cup Linked

EnergyStep(k) == IF k = "nocs" THEN "noc_energy" ELSE k
PowerParts(f) == \A k \in Classes : f[k] = EmptyBag <=> Made(EnergyStep(k)) = 0

AreaInv == Totals(area, AreaOf, {}) /\ AreaParts
PowerInv(f) == Totals(f, PowerOf, Excepted(xml)) /\ PowerParts(f)
LaidOutInv == LaidOutOverChip /\ (DOMAIN chip_at # {} => Rank[pc] >= 10)
ShownInv == pc \in {"displayed", "end"} => shown.totals = TotalLines(xml)

IInv == /\ Progress /\ AreaInv /\ PowerInv(power) /\ PowerInv(rt_power)
        /\ LaidOutInv /\ ShownInv

LEMMA EmptyPlus ==
    ASSUME NEW B, IsABag(B)
    PROVE  EmptyBag (+) B = B
<1> DEFINE C == EmptyBag (+) B
<1>1. IsABag(C) /\ \A t : Count(t, C) = Count(t, EmptyBag) + Count(t, B)
  BY BagSum, NoBag
<1> HIDE DEF C
<1>2. \A t : Count(t, C) = Count(t, B)
  BY <1>1, BagCount, NoBag
<1>3. QED
  BY <1>1, <1>2, EqualBags DEF C

LEMMA EmptyDomain ==
    ASSUME NEW B, IsABag(B)
    PROVE  B = EmptyBag <=> DOMAIN B = {}
  BY NoBag, EqualBags DEF Count

(* The loops add to a class and to the chip the same, although they do it  *)
(* in two ways.                                                            *)
LEMMA LoopTotals ==
    ASSUME NEW T, Disjoint(T), NEW X, NEW f, Totals(f, T, X), NEW c \in Classes,
           NEW B, IsABag(B), DOMAIN B \subseteq T[c],
           NEW D, IsABag(D), DOMAIN D \subseteq T[c], c \notin X => D = B,
           xml[c].homo => f[c] = EmptyBag,
           NEW g, g = AddInLoop(f, c, B, D)
    PROVE  Totals(g, T, X) /\ g[c] = f[c] (+) B /\ \A k \in Classes : k # c => g[k] = f[k]
<1> DEFINE E == IF xml[c].homo THEN f[c] (+) B ELSE D
<1>1. IsABag(E) /\ DOMAIN E \subseteq T[c] /\ (c \notin X => E = B)
  <2>1. xml[c].homo => E = B
    BY EmptyPlus
  <2>2. ~xml[c].homo => E = D
    OBVIOUS
  <2> HIDE DEF E
  <2>3. QED
    BY <2>1, <2>2
<1>2. g = Added(f, c, B, E)
  BY DEF AddInLoop, Added
<1> HIDE DEF E
<1>3. QED
  BY <1>1, <1>2, TotalsAdd

LEMMA AddTotals ==
    ASSUME NEW T, Disjoint(T), NEW X, NEW f, Totals(f, T, X), NEW c \in Classes,
           NEW B, IsABag(B), DOMAIN B \subseteq T[c], NEW g, g = Add(f, c, B)
    PROVE  Totals(g, T, X) /\ g[c] = f[c] (+) B /\ \A k \in Classes : k # c => g[k] = f[k]
<1>1. g = Added(f, c, B, B)
  BY DEF Add, Added
<1>2. QED
  BY <1>1, TotalsAdd

(* One more object of class c, numbered n.                                 *)
LEMMA NumberedMore ==
    ASSUME NEW c, NEW n \in Nat
    PROVE  Numbered(c, n + 1) = Numbered(c, n) \cup {<<c, n>>}
<1>1. 0 .. (n + 1) - 1 = (0 .. n - 1) \cup {n}
  OBVIOUS
<1>2. QED
  BY <1>1 DEF Numbered

(* The copies of a class that gets one more object o.                      *)
LEMMA OneMore ==
    ASSUME NEW A, IsABag(A), NEW o, o \notin DOMAIN A, NEW n \in Nat \ {0},
           \A x \in DOMAIN A : A[x] = n
    PROVE  /\ DOMAIN (A (+) Copied(o, n)) = DOMAIN A \cup {o}
           /\ \A x \in DOMAIN (A (+) Copied(o, n)) : (A (+) Copied(o, n))[x] = n
<1> DEFINE B == Copied(o, n)
           C == A (+) B
<1>0. IsABag(B) /\ DOMAIN B = {o} /\ B[o] = n
  BY CopiedBag
<1> HIDE DEF B
<1>1. /\ DOMAIN C = DOMAIN A \cup {o}
      /\ \A t : Count(t, C) = Count(t, A) + Count(t, B)
  BY <1>0, BagSum
<1> HIDE DEF B, C
<1>2. ASSUME NEW x \in DOMAIN C
      PROVE  C[x] = n
  <2>1. C[x] = Count(x, A) + Count(x, B)
    BY <1>1 DEF Count
  <2>2. CASE x = o
    BY <2>1, <2>2, <1>0 DEF Count
  <2>3. CASE x # o
    <3>1. Count(x, A) = n /\ Count(x, B) = 0
      BY <1>1, <2>3, <1>0 DEF Count
    <3>2. QED
      BY <2>1, <3>1
  <2>4. QED
    BY <2>2, <2>3
<1>3. QED
  BY <1>1, <1>2 DEF B, C

(* A class with terms is not empty.                                        *)
LEMMA SumNotEmpty ==
    ASSUME NEW A, IsABag(A), NEW B, IsABag(B), DOMAIN B # {}
    PROVE  A (+) B # EmptyBag
<1>1. DOMAIN (A (+) B) # {}
  BY BagSum
<1>2. QED
  BY <1>1, NoBag

-----------------------------------------------------------------------------
(* The steps that make nothing. *)

LEMMA NothingMade ==
    ASSUME IInv, Progress', \A s \in Step : Made(s)' = Made(s),
           UNCHANGED <<xml, area, power, rt_power, chip_at>>, Rank[pc] <= Rank[pc'], ShownInv'
    PROVE  IInv'
<1>1. \A k \in Classes : EnergyStep(k) \in Step /\ (k # "nocs" => k \in Step)
  BY DEF EnergyStep, Classes, Step, NoCStep
<1>2. "noc_area" \in Step /\ "noc_link" \in Step
  BY DEF Step, NoCStep
<1>3. AreaInv'
  <2>1. Linked' = Linked
    BY <1>2 DEF Linked
  <2>2. \A k : Weight(k)' = Weight(k)
    BY DEF Weight, Copies
  <2>3. AreaParts'
    BY <1>1, <1>2, <2>1, <2>2 DEF IInv, AreaInv, AreaParts
  <2>4. QED
    BY <2>3 DEF IInv, AreaInv
<1>4. PowerInv(power)' /\ PowerInv(rt_power)'
  <2>1. \A k \in Classes : Made(EnergyStep(k))' = Made(EnergyStep(k))
    BY <1>1 DEF EnergyStep
  <2>2. PowerParts(power)' /\ PowerParts(rt_power)'
    BY <2>1 DEF IInv, PowerInv, PowerParts
  <2>3. QED
    BY <2>2 DEF IInv, PowerInv
<1>5. LaidOutInv'
  <2>1. LaidOutOverChip'
    BY DEF IInv, LaidOutInv, LaidOutOverChip, Num
  <2>2. DOMAIN chip_at # {} => Rank[pc'] >= 10
    <3>1. pc \in DOMAIN Rank /\ pc' \in DOMAIN Rank
      BY DEF IInv, Progress
    <3>2. QED
      BY <3>1, StepFacts DEF IInv, LaidOutInv
  <2>3. QED
    BY <2>1, <2>2 DEF LaidOutInv
<1>6. QED
  BY <1>3, <1>4, <1>5 DEF IInv

LEMMA NextStepKeeps ==
    ASSUME IInv, NextStep PROVE IInv'
<1>1. Progress' /\ \A s \in Step : Made(s)' = Made(s)
  BY MadeNext DEF IInv
<1>2. pc \in Step /\ pc' = After(xml)[pc]
  BY StepFacts DEF NextStep
<1>3. Rank[pc] <= Rank[pc']
  <2>1. Rank[pc] < Rank[pc'] /\ Rank[pc] \in Nat /\ Rank[pc'] \in Nat
    BY <1>2, AfterFacts, StepFacts
  <2>2. QED
    BY <2>1
<1>4. ShownInv'
  <2>1. pc' \notin {"displayed", "end"}
    BY <1>2 DEF After, Step, NoCStep, Arrays, Controllers
  <2>2. QED
    BY <2>1 DEF ShownInv
<1>5. QED
  BY <1>1, <1>3, <1>4, NothingMade DEF NextStep

LEMMA OtherKeeps ==
    ASSUME IInv, \/ Check \/ Delete \/ Ended \/ \E plevel \in 1 .. 5 : displayEnergy(plevel)
    PROVE  IInv'
<1>1. UNCHANGED <<xml, i, area, power, rt_power, chip_at>>
  BY DEF Check, Delete, Ended, displayEnergy, vars
<1>2. \/ pc = "check" /\ i = 0 /\ pc' \in {"exit", "cores"}
      \/ pc = "built" /\ pc' = "displayed"
      \/ pc = "displayed" /\ pc' = "end"
      \/ pc' = pc
  BY DEF Check, Delete, Ended, displayEnergy, vars, IInv, Progress
<1>3. /\ Rank["check"] = 0 /\ Rank["exit"] = 0 /\ Rank["cores"] = 1 /\ Rank["built"] = 13
      /\ Rank["displayed"] = 14 /\ Rank["end"] = 15 /\ \A s \in DOMAIN Rank : Rank[s] \in Nat
  BY StepFacts DEF Rank
<1>4. Rank[pc] <= Rank[pc']
  BY <1>2, <1>3 DEF IInv, Progress
<1>5. Progress' /\ \A s \in Step : Made(s)' = Made(s)
  BY <1>1, <1>2, MadeElse DEF IInv
<1>6. ShownInv'
  <2>1. CASE Check
    BY <2>1 DEF Check, ShownInv
  <2>2. CASE Delete \/ Ended
    <3>1. shown' = shown /\ xml' = xml /\ (pc' \in {"displayed", "end"} => pc \in {"displayed", "end"})
      BY <2>2 DEF Delete, Ended, vars
    <3>2. TotalLines(xml)' = TotalLines(xml)
      BY <3>1
    <3>3. QED
      BY <3>1 DEF IInv, ShownInv
  <2>3. ASSUME NEW plevel \in 1 .. 5, displayEnergy(plevel)
        PROVE  ShownInv'
    BY <2>3 DEF displayEnergy, ShownInv
  <2>4. QED
    BY <2>1, <2>2, <2>3
<1>7. QED
  BY <1>1, <1>4, <1>5, <1>6, NothingMade

-----------------------------------------------------------------------------
(* The steps that make an object. *)

(* Areas and powers after an object of class c has been added.             *)
LEMMA AreaMore ==
    ASSUME NEW A, Totals(A, AreaOf, {}), \A k \in Classes : \A x \in DOMAIN A[k] : A[k][x] = Weight(k),
           NEW c \in Classes, NEW o \in Objects(c), o \notin DOMAIN A[c], Weight(c) \in Nat \ {0},
           NEW G, G[c] = A[c] (+) Copied(o, Weight(c)), \A k \in Classes : k # c => G[k] = A[k]
    PROVE  /\ DOMAIN G[c] = DOMAIN A[c] \cup {o}
           /\ \A k \in Classes : \A x \in DOMAIN G[k] : G[k][x] = Weight(k)
<1>1. IsABag(A[c])
  BY DEF Totals
<1> DEFINE B == Copied(o, Weight(c))
<1>2. /\ DOMAIN (A[c] (+) B) = DOMAIN A[c] \cup {o}
      /\ \A x \in DOMAIN (A[c] (+) B) : (A[c] (+) B)[x] = Weight(c)
  <2> DEFINE C == A[c]
             n == Weight(c)
  <2>1. IsABag(C) /\ o \notin DOMAIN C /\ n \in Nat \ {0} /\ \A x \in DOMAIN C : C[x] = n
    BY <1>1
  <2> HIDE DEF C, n
  <2>2. /\ DOMAIN (C (+) Copied(o, n)) = DOMAIN C \cup {o}
        /\ \A x \in DOMAIN (C (+) Copied(o, n)) : (C (+) Copied(o, n))[x] = n
    BY <2>1, OneMore
  <2>3. QED
    BY <2>2 DEF C, n
<1> DEFINE S == A[c] (+) B
<1>3. G[c] = S /\ DOMAIN S = DOMAIN A[c] \cup {o} /\ \A x \in DOMAIN S : S[x] = Weight(c)
  BY <1>2
<1> HIDE DEF S
<1>4. QED
  BY <1>3

LEMMA PowerMore ==
    ASSUME NEW f, PowerInv(f), NEW c \in Classes, NEW B, IsABag(B), DOMAIN B # {},
           NEW g, g[c] = f[c] (+) B, \A k \in Classes : k # c => g[k] = f[k],
           Made(EnergyStep(c))' > 0,
           \A k \in Classes : k # c => Made(EnergyStep(k))' = Made(EnergyStep(k))
    PROVE  \A k \in Classes : g[k] = EmptyBag <=> Made(EnergyStep(k))' = 0
<1>1. IsABag(f[c])
  BY DEF PowerInv, Totals
<1>2. f[c] (+) B # EmptyBag
  BY <1>1, SumNotEmpty
<1>3. \A k \in Classes : f[k] = EmptyBag <=> Made(EnergyStep(k)) = 0
  BY DEF PowerInv, PowerParts
<1>4. ASSUME NEW k \in Classes
      PROVE  g[k] = EmptyBag <=> Made(EnergyStep(k))' = 0
  BY <1>2, <1>3
<1>5. QED
  BY <1>4

(* The object that the loop of class c makes next.                         *)
LEMMA NewObject ==
    ASSUME Progress, NEW c \in Classes, i < Num(xml, c)
    PROVE  /\ <<c, i>> \in Objects(c) /\ AreaOf[c] = Objects(c)
           /\ \A n \in Nat : n <= i => <<c, i>> \notin Numbered(c, n)
           /\ Copies(xml, c) \in Nat \ {0}
           /\ xml[c].homo => i = 0
<1>1. i \in Nat /\ Num(xml, c) \in Nat
  BY ConfigFacts DEF Progress
<1>2. <<c, i>> \in Objects(c) /\ AreaOf[c] = Objects(c)
  BY <1>1 DEF Objects, AreaOf
<1>3. \A n \in Nat : n <= i => <<c, i>> \notin Numbered(c, n)
  BY <1>1 DEF Numbered
<1>4. Copies(xml, c) \in Nat \ {0}
  BY <1>1, ConfigFacts
<1>5. xml[c].homo => i = 0
  BY <1>1, ConfigFacts
<1>6. QED
  BY <1>2, <1>3, <1>4, <1>5

LEMMA ArrayKeeps ==
    ASSUME IInv, NEW class \in Arrays, MakeArrayObject(class)
    PROVE  IInv'
<1> DEFINE o == <<class, i>>
           n == Copies(xml, class)
           A == Copied(o, n)
           P == Times(o, "clock", n, n)
           R == Times(o, "time", 1, n)
<1>0. /\ pc = class /\ i < Num(xml, class) /\ i' = i + 1
      /\ UNCHANGED <<xml, pc, chip_at, shown>>
      /\ area' = AddInLoop(area, class, A, A)
      /\ power' = AddInLoop(power, class, P, Times(o, ChipFactor(class, "clock"), n, n))
      /\ rt_power' = AddInLoop(rt_power, class, R, Times(o, ChipFactor(class, "time"), 1, n))
  BY DEF MakeArrayObject
<1>1. /\ Progress /\ class \in Classes /\ class # "nocs" /\ class \in Step /\ Limit(class) = Num(xml, class)
      /\ EnergyStep(class) = class /\ Weight(class) = n
  BY ConfigFacts DEF IInv, Classes, Step, EnergyStep, Weight, Arrays, Controllers
<1>2. /\ Progress' /\ Made(class) = i /\ Made(class)' = i + 1
      /\ \A s \in Step : s # class => Made(s)' = Made(s)
  BY <1>0, <1>1, MadeMore
<1>3. /\ o \in Objects(class) /\ AreaOf[class] = Objects(class) /\ n \in Nat \ {0}
      /\ o \notin Numbered(class, i) /\ (xml[class].homo => i = 0) /\ i \in Nat
  BY <1>0, <1>1, NewObject DEF Progress
<1> HIDE DEF o, n
<1>4. /\ \A k \in Classes : EnergyStep(k) \in Step /\ (k # "nocs" => k \in Step)
      /\ \A k \in Classes : k # class => EnergyStep(k) # class
      /\ "noc_area" \in Step /\ "noc_link" \in Step /\ class \notin {"noc_area", "noc_link"}
  BY DEF EnergyStep, Classes, Step, NoCStep, Arrays, Controllers
<1>5. xml[class].homo => area[class] = EmptyBag /\ power[class] = EmptyBag /\ rt_power[class] = EmptyBag
  <2>1. ASSUME i = 0 PROVE area[class] = EmptyBag
    <3>1. DOMAIN area[class] = Numbered(class, 0) /\ IsABag(area[class])
      BY <1>1, <1>2, <2>1 DEF IInv, AreaInv, AreaParts, Totals
    <3>2. Numbered(class, 0) = {}
      BY DEF Numbered
    <3>3. QED
      BY <3>1, <3>2, EmptyDomain
  <2>2. i = 0 => power[class] = EmptyBag /\ rt_power[class] = EmptyBag
    BY <1>1, <1>2 DEF IInv, PowerInv, PowerParts
  <2>3. QED
    BY <1>3, <2>1, <2>2
<1>6. AreaInv'
  <2>1. IsABag(A) /\ DOMAIN A \subseteq AreaOf[class]
    <3>1. IsABag(A) /\ DOMAIN A = {o}
      BY <1>3, CopiedBag
    <3> HIDE DEF A
    <3>2. QED
      BY <1>3, <3>1
  <2>2. Totals(area, AreaOf, {})
    BY DEF IInv, AreaInv
  <2>3. /\ Totals(area', AreaOf, {}) /\ area'[class] = area[class] (+) A
        /\ \A k \in Classes : k # class => area'[k] = area[k]
    <3> HIDE DEF A
    <3>1. QED
      BY <1>0, <1>1, <1>5, <2>1, <2>2, AreaDisjoint, LoopTotals
  <2>4. o \notin DOMAIN area[class]
    BY <1>1, <1>2, <1>3 DEF IInv, AreaInv, AreaParts
  <2>5. \A k \in Classes : \A x \in DOMAIN area[k] : area[k][x] = Weight(k)
    BY DEF IInv, AreaInv, AreaParts
  <2>6. /\ DOMAIN area'[class] = DOMAIN area[class] \cup {o}
        /\ \A k \in Classes : \A x \in DOMAIN area'[k] : area'[k][x] = Weight(k)
    <3>1. area'[class] = area[class] (+) Copied(o, Weight(class))
      BY <1>1, <2>3
    <3>2. Weight(class) \in Nat \ {0}
      BY <1>1, <1>3
    <3>3. class \in Classes /\ o \in Objects(class) /\ \A k \in Classes : k # class => area'[k] = area[k]
      BY <1>1, <1>3, <2>3
    <3> HIDE DEF A
    <3>4. QED
      BY SMTT(30), <2>2, <2>4, <2>5, <3>1, <3>2, <3>3, AreaMore
  <2>7. DOMAIN area'[class] = Numbered(class, i + 1)
    BY <1>1, <1>2, <1>3, <2>6, NumberedMore DEF IInv, AreaInv, AreaParts, o
  <2>8. \A k : Weight(k)' = Weight(k)
    BY <1>0 DEF Weight, Copies
  <2>9. Linked' = Linked
    BY <1>0, <1>2, <1>4 DEF Linked
  <2>10. AreaParts'
    <3>1. \A k \in Classes \ {"nocs"} : DOMAIN area'[k] = Numbered(k, Made(k)')
      BY <1>1, <1>2, <1>4, <2>3, <2>7 DEF IInv, AreaInv, AreaParts
    <3>2. DOMAIN area'["nocs"] = Numbered("nocs", Made("noc_area")') \cup Linked'
      <4>1. "nocs" \in Classes
        BY DEF Classes
      <4>2. QED
        BY <1>1, <1>2, <1>4, <2>3, <2>9, <4>1 DEF IInv, AreaInv, AreaParts
    <3>3. QED
      BY <2>6, <2>8, <3>1, <3>2 DEF AreaParts
  <2>11. QED
    BY <2>3, <2>10 DEF AreaInv
<1>7. class \notin Excepted(xml) => ChipFactor(class, "clock") = "clock" /\ ChipFactor(class, "time") = "time"
  <2>1. xml[class].num # 0
    BY <1>0, <1>1, <1>3, ConfigFacts
  <2>2. class = "l1dirarray" /\ class \notin Excepted(xml) => xml[class].homo
    BY <2>1 DEF Excepted
  <2>3. QED
    BY <2>2 DEF ChipFactor
<1>8. /\ class \in Classes /\ o \in Objects(class) /\ n \in Nat \ {0} /\ 1 \in Nat \ {0}
      /\ ChipFactor(class, "clock") \in {"clock", "none"} /\ ChipFactor(class, "time") \in {"time", "none"}
  BY <1>1, <1>3 DEF ChipFactor
<1>9. Made(EnergyStep(class))' > 0 /\ \A k \in Classes : k # class => Made(EnergyStep(k))' = Made(EnergyStep(k))
  BY <1>1, <1>2, <1>3, <1>4 DEF EnergyStep
<1>10. PowerInv(power)'
  <2> DEFINE D == Times(o, ChipFactor(class, "clock"), n, n)
  <2>1. IsABag(P) /\ DOMAIN P \subseteq PowerOf[class] /\ DOMAIN P # {}
    BY SMTT(30), <1>8, TimesBag
  <2>2. IsABag(D) /\ DOMAIN D \subseteq PowerOf[class]
    BY SMTT(30), <1>8, TimesBag
  <2>3. class \notin Excepted(xml) => D = P
    BY <1>7
  <2> HIDE DEF D, P
  <2>4. PowerInv(power) /\ Totals(power, PowerOf, Excepted(xml))
    BY DEF IInv, PowerInv
  <2>5. power' = AddInLoop(power, class, P, D)
    BY <1>0 DEF D
  <2>6. /\ Totals(power', PowerOf, Excepted(xml)) /\ power'[class] = power[class] (+) P
        /\ \A k \in Classes : k # class => power'[k] = power[k]
    BY <1>1, <1>5, <2>1, <2>2, <2>3, <2>4, <2>5, PowerDisjoint, LoopTotals
  <2>7. \A k \in Classes : power'[k] = EmptyBag <=> Made(EnergyStep(k))' = 0
    BY <1>1, <1>9, <2>1, <2>4, <2>6, PowerMore
  <2>8. QED
    BY <1>0, <2>6, <2>7 DEF PowerInv, PowerParts
<1>11. PowerInv(rt_power)'
  <2> DEFINE D == Times(o, ChipFactor(class, "time"), 1, n)
  <2>1. IsABag(R) /\ DOMAIN R \subseteq PowerOf[class] /\ DOMAIN R # {}
    BY SMTT(30), <1>8, TimesBag
  <2>2. IsABag(D) /\ DOMAIN D \subseteq PowerOf[class]
    BY SMTT(30), <1>8, TimesBag
  <2>3. class \notin Excepted(xml) => D = R
    BY <1>7
  <2> HIDE DEF D, R
  <2>4. PowerInv(rt_power) /\ Totals(rt_power, PowerOf, Excepted(xml))
    BY DEF IInv, PowerInv
  <2>5. rt_power' = AddInLoop(rt_power, class, R, D)
    BY <1>0 DEF D
  <2>6. /\ Totals(rt_power', PowerOf, Excepted(xml)) /\ rt_power'[class] = rt_power[class] (+) R
        /\ \A k \in Classes : k # class => rt_power'[k] = rt_power[k]
    BY <1>1, <1>5, <2>1, <2>2, <2>3, <2>4, <2>5, PowerDisjoint, LoopTotals
  <2>7. \A k \in Classes : rt_power'[k] = EmptyBag <=> Made(EnergyStep(k))' = 0
    BY <1>1, <1>9, <2>1, <2>4, <2>6, PowerMore
  <2>8. QED
    BY <1>0, <2>6, <2>7 DEF PowerInv, PowerParts
<1>12. DOMAIN chip_at = {}
  <2>1. Rank[class] <= 5
    BY DEF Rank, Arrays
  <2>2. Rank[class] \in Nat
    BY <1>1, StepFacts
  <2>3. DOMAIN chip_at # {} => Rank[pc] >= 10
    BY DEF IInv, LaidOutInv
  <2>4. ~(Rank[class] >= 10)
    BY <2>1, <2>2
  <2>5. QED
    BY <1>0, <2>3, <2>4
<1>13. LaidOutInv' /\ ShownInv'
  BY <1>0, <1>12 DEF LaidOutInv, LaidOutOverChip, ShownInv, Arrays
<1>14. QED
  BY <1>2, <1>6, <1>10, <1>11, <1>13 DEF IInv

LEMMA ControllerKeeps ==
    ASSUME IInv, NEW class \in Controllers, MakeController(class)
    PROVE  IInv'
<1> DEFINE o == <<class, i>>
           n == xml[class].num
           peak == IF class = "flashcontroller" THEN "none" ELSE "clock"
           A == Copied(o, n)
           P == Times(o, peak, n, n)
           R == IF class = "mc" THEN Times(o, "time", 1, n) ELSE Times(o, peak, n, n)
<1>0. /\ pc = class /\ i = 0 /\ n > 0 /\ i' = i + 1
      /\ UNCHANGED <<xml, pc, chip_at, shown>>
      /\ area' = Add(area, class, A)
      /\ power' = Add(power, class, P)
      /\ rt_power' = Add(rt_power, class, R)
  BY DEF MakeController, Exists
<1>1. /\ Progress /\ class \in Classes /\ class # "nocs" /\ class \in Step
      /\ Limit(class) = IF n > 0 THEN 1 ELSE 0
      /\ EnergyStep(class) = class /\ Weight(class) = n /\ n \in Nat
  BY ConfigFacts DEF IInv, Classes, Step, EnergyStep, Weight, Arrays, Controllers
<1>2. /\ Progress' /\ Made(class) = i /\ Made(class)' = i + 1
      /\ \A s \in Step : s # class => Made(s)' = Made(s)
  BY <1>0, <1>1, MadeMore
<1>3. /\ o \in Objects(class) /\ AreaOf[class] = Objects(class) /\ n \in Nat \ {0}
      /\ o \notin Numbered(class, i) /\ i \in Nat
  BY <1>0, <1>1 DEF Objects, AreaOf, Numbered
<1>4. peak \in {"clock", "none"}
  OBVIOUS
<1> HIDE DEF o, n, peak
<1>5. /\ \A k \in Classes : EnergyStep(k) \in Step /\ (k # "nocs" => k \in Step)
      /\ \A k \in Classes : k # class => EnergyStep(k) # class
      /\ "noc_area" \in Step /\ "noc_link" \in Step /\ class \notin {"noc_area", "noc_link"}
  BY DEF EnergyStep, Classes, Step, NoCStep, Arrays, Controllers
<1>6. AreaInv'
  <2>1. IsABag(A) /\ DOMAIN A \subseteq AreaOf[class]
    <3>1. IsABag(A) /\ DOMAIN A = {o}
      BY <1>3, CopiedBag
    <3> HIDE DEF A
    <3>2. QED
      BY <1>3, <3>1
  <2>2. Totals(area, AreaOf, {})
    BY DEF IInv, AreaInv
  <2>3. /\ Totals(area', AreaOf, {}) /\ area'[class] = area[class] (+) A
        /\ \A k \in Classes : k # class => area'[k] = area[k]
    <3> HIDE DEF A
    <3>1. QED
      BY <1>0, <1>1, <2>1, <2>2, AreaDisjoint, AddTotals
  <2>4. o \notin DOMAIN area[class]
    BY <1>1, <1>2, <1>3 DEF IInv, AreaInv, AreaParts
  <2>5. \A k \in Classes : \A x \in DOMAIN area[k] : area[k][x] = Weight(k)
    BY DEF IInv, AreaInv, AreaParts
  <2>6. /\ DOMAIN area'[class] = DOMAIN area[class] \cup {o}
        /\ \A k \in Classes : \A x \in DOMAIN area'[k] : area'[k][x] = Weight(k)
    <3>1. area'[class] = area[class] (+) Copied(o, Weight(class))
      BY <1>1, <2>3
    <3>2. Weight(class) \in Nat \ {0}
      BY <1>1, <1>3
    <3>3. class \in Classes /\ o \in Objects(class) /\ \A k \in Classes : k # class => area'[k] = area[k]
      BY <1>1, <1>3, <2>3
    <3> HIDE DEF A
    <3>4. QED
      BY SMTT(30), <2>2, <2>4, <2>5, <3>1, <3>2, <3>3, AreaMore
  <2>7. DOMAIN area'[class] = Numbered(class, i + 1)
    BY <1>1, <1>2, <1>3, <2>6, NumberedMore DEF IInv, AreaInv, AreaParts, o
  <2>8. \A k : Weight(k)' = Weight(k)
    BY <1>0 DEF Weight, Copies
  <2>9. Linked' = Linked
    BY <1>0, <1>2, <1>5 DEF Linked
  <2>10. AreaParts'
    <3>1. \A k \in Classes \ {"nocs"} : DOMAIN area'[k] = Numbered(k, Made(k)')
      BY <1>1, <1>2, <1>5, <2>3, <2>7 DEF IInv, AreaInv, AreaParts
    <3>2. DOMAIN area'["nocs"] = Numbered("nocs", Made("noc_area")') \cup Linked'
      <4>1. "nocs" \in Classes
        BY DEF Classes
      <4>2. QED
        BY <1>1, <1>2, <1>5, <2>3, <2>9, <4>1 DEF IInv, AreaInv, AreaParts
    <3>3. QED
      BY <2>6, <2>8, <3>1, <3>2 DEF AreaParts
  <2>11. QED
    BY <2>3, <2>10 DEF AreaInv
<1>7. Made(EnergyStep(class))' > 0 /\ \A k \in Classes : k # class => Made(EnergyStep(k))' = Made(EnergyStep(k))
  BY <1>0, <1>1, <1>2, <1>5 DEF EnergyStep
<1>8. /\ IsABag(P) /\ DOMAIN P \subseteq PowerOf[class] /\ DOMAIN P # {}
      /\ IsABag(R) /\ DOMAIN R \subseteq PowerOf[class] /\ DOMAIN R # {}
  <2>1. IsABag(P) /\ DOMAIN P \subseteq PowerOf[class] /\ DOMAIN P # {}
    BY <1>1, <1>3, <1>4, TimesBag
  <2> DEFINE Q == Times(o, "time", 1, n)
  <2>2. IsABag(Q) /\ DOMAIN Q \subseteq PowerOf[class] /\ DOMAIN Q # {}
    BY <1>1, <1>3, TimesBag
  <2>3. R = P \/ R = Q
    OBVIOUS
  <2> HIDE DEF P, Q, R
  <2>4. QED
    BY <2>1, <2>2, <2>3
<1> HIDE DEF P, R
<1>9. PowerInv(power)'
  <2>1. PowerInv(power) /\ Totals(power, PowerOf, Excepted(xml))
    BY DEF IInv, PowerInv
  <2>2. /\ Totals(power', PowerOf, Excepted(xml)) /\ power'[class] = power[class] (+) P
        /\ \A k \in Classes : k # class => power'[k] = power[k]
    BY <1>0, <1>1, <1>8, <2>1, PowerDisjoint, AddTotals
  <2>3. \A k \in Classes : power'[k] = EmptyBag <=> Made(EnergyStep(k))' = 0
    BY <1>1, <1>7, <1>8, <2>1, <2>2, PowerMore
  <2>4. QED
    BY <1>0, <2>2, <2>3 DEF PowerInv, PowerParts
<1>10. PowerInv(rt_power)'
  <2>1. PowerInv(rt_power) /\ Totals(rt_power, PowerOf, Excepted(xml))
    BY DEF IInv, PowerInv
  <2>2. /\ Totals(rt_power', PowerOf, Excepted(xml)) /\ rt_power'[class] = rt_power[class] (+) R
        /\ \A k \in Classes : k # class => rt_power'[k] = rt_power[k]
    BY <1>0, <1>1, <1>8, <2>1, PowerDisjoint, AddTotals
  <2>3. \A k \in Classes : rt_power'[k] = EmptyBag <=> Made(EnergyStep(k))' = 0
    BY <1>1, <1>7, <1>8, <2>1, <2>2, PowerMore
  <2>4. QED
    BY <1>0, <2>2, <2>3 DEF PowerInv, PowerParts
<1>11. DOMAIN chip_at = {}
  <2>1. Rank[class] <= 9
    BY DEF Rank, Controllers
  <2>2. Rank[class] \in Nat
    BY <1>1, StepFacts
  <2>3. DOMAIN chip_at # {} => Rank[pc] >= 10
    BY DEF IInv, LaidOutInv
  <2>4. ~(Rank[class] >= 10)
    BY <2>1, <2>2
  <2>5. QED
    BY <1>0, <2>3, <2>4
<1>12. LaidOutInv' /\ ShownInv'
  BY <1>0, <1>11 DEF LaidOutInv, LaidOutOverChip, ShownInv, Controllers
<1>13. QED
  BY <1>2, <1>6, <1>9, <1>10, <1>12 DEF IInv

-----------------------------------------------------------------------------
(* The networks. *)

(* What the chip holds.                                                    *)
LEMMA ChipHolds ==
    ASSUME IInv
    PROVE  /\ \A k \in Classes : DOMAIN area[k] \subseteq DOMAIN area["chip"]
           /\ \A n \in Nat : <<"nocs", n>> \in DOMAIN area["chip"] <=> n < Made("noc_area")
<1>1. Totals(area, AreaOf, {}) /\ AreaParts
  BY DEF IInv, AreaInv
<1>2. /\ \A k \in Classes \cup {"chip"} : IsABag(area[k])
      /\ \A k \in Classes : DOMAIN area[k] \subseteq AreaOf[k]
      /\ \A t \in DOMAIN area["chip"] : \E k \in Classes : t \in AreaOf[k]
      /\ \A k \in Classes : \A t \in AreaOf[k] : Count(t, area["chip"]) = Count(t, area[k])
  BY <1>1 DEF Totals
<1>3. \A k \in Classes : \A t \in AreaOf[k] : t \in DOMAIN area["chip"] <=> t \in DOMAIN area[k]
  BY <1>2, BagCount
<1>4. ASSUME NEW n \in Nat
      PROVE  <<"nocs", n>> \in DOMAIN area["chip"] <=> n < Made("noc_area")
  <2>1. "nocs" \in Classes /\ <<"nocs", n>> \in AreaOf["nocs"] /\ "noc_area" \in Step
    BY DEF Classes, AreaOf, Objects, Step, NoCStep
  <2>2. Made("noc_area") \in Nat
    BY <2>1, MadeFacts DEF IInv
  <2>3. <<"nocs", n>> \in DOMAIN area["nocs"] <=> n < Made("noc_area")
    BY <1>1, <2>2 DEF AreaParts, Numbered, Linked
  <2>4. QED
    BY <1>3, <2>1, <2>3
<1>5. \A k \in Classes : DOMAIN area[k] \subseteq DOMAIN area["chip"]
  BY <1>2, <1>3
<1>6. QED
  BY <1>4, <1>5

(* Network i is laid out, or none; the other classes stay.                 *)
LEMMA LaidOutMore ==
    ASSUME IInv, pc \in NoCStep, UNCHANGED <<xml, pc>>, \A k \in Classes \ {"nocs"} : area'[k] = area[k],
           \/ chip_at' = chip_at
           \/ /\ chip_at' = LaidOut(<<"nocs", i>>)
              /\ \A n \in 0 .. Num(xml, "nocs") - 1 :
                    n < Made("noc_area") <=> (i \in xml.routers \/ n < i)
    PROVE  LaidOutInv'
<1>1. Rank[pc] >= 10
  BY DEF NoCStep, Rank
<1>2. LaidOutOverChip
  BY DEF IInv, LaidOutInv
<1>3. CASE chip_at' = chip_at
  BY <1>1, <1>2, <1>3 DEF LaidOutInv, LaidOutOverChip, Num
<1>4. CASE /\ chip_at' = LaidOut(<<"nocs", i>>)
           /\ \A n \in 0 .. Num(xml, "nocs") - 1 :
                 n < Made("noc_area") <=> (i \in xml.routers \/ n < i)
  <2> DEFINE new == <<"nocs", i>>
  <2>1. /\ DOMAIN chip_at' = DOMAIN chip_at \cup {new}
        /\ \A x \in DOMAIN chip_at' : chip_at'[x] = IF x = new THEN area["chip"] ELSE chip_at[x]
    BY <1>4 DEF LaidOut
  <2>2. ASSUME NEW o \in DOMAIN chip_at', NEW k \in Classes \ {"nocs"}
        PROVE  DOMAIN area'[k] \subseteq DOMAIN chip_at'[o]
    <3>1. DOMAIN area[k] \subseteq DOMAIN area["chip"]
      BY ChipHolds
    <3>2. o # new => DOMAIN area[k] \subseteq DOMAIN chip_at[o]
      BY <1>2, <2>1 DEF LaidOutOverChip
    <3>3. QED
      BY <2>1, <3>1, <3>2
  <2>3. ASSUME NEW o \in DOMAIN chip_at', NEW n \in 0 .. Num(xml, "nocs") - 1
        PROVE  <<"nocs", n>> \in DOMAIN chip_at'[o] <=> (o[2] \in xml.routers \/ n < o[2])
    <3>1. <<"nocs", n>> \in DOMAIN area["chip"] <=> n < Made("noc_area")
      BY ChipHolds
    <3>2. o # new => (<<"nocs", n>> \in DOMAIN chip_at[o] <=> (o[2] \in xml.routers \/ n < o[2]))
      BY <1>2, <2>1 DEF LaidOutOverChip
    <3>3. new[2] = i
      OBVIOUS
    <3> HIDE DEF new
    <3>4. QED
      BY <1>4, <2>1, <3>1, <3>2, <3>3
  <2>4. LaidOutOverChip'
    BY <2>2, <2>3 DEF LaidOutOverChip, Num
  <2>5. QED
    BY <1>1, <2>4 DEF LaidOutInv
<1>5. QED
  BY <1>3, <1>4

(* The steps of the networks.                                              *)
LEMMA NoCFacts ==
    ASSUME IInv, pc \in NoCStep, i < Num(xml, "nocs"), i' = i + 1, UNCHANGED <<xml, pc, shown>>
    PROVE  /\ Progress' /\ ShownInv'
           /\ Made(pc) = i /\ Made(pc)' = i + 1
           /\ \A s \in Step : s # pc => Made(s)' = Made(s)
           /\ NoCStep \subseteq Step /\ "nocs" \in Classes
           /\ \A k \in Classes \ {"nocs"} : k \in Step \ NoCStep
           /\ i \in Nat /\ Num(xml, "nocs") \in Nat
           /\ \A k : Weight(k)' = Weight(k)
           /\ Weight("nocs") = Copies(xml, "nocs")
<1>1. NoCStep \subseteq Step /\ "nocs" \in Classes /\ \A k \in Classes \ {"nocs"} : k \in Step \ NoCStep
  BY DEF Step, NoCStep, Classes, Arrays, Controllers
<1>2. Progress /\ Limit(pc) = Num(xml, "nocs") /\ Num(xml, "nocs") \in Nat
  BY <1>1, ConfigFacts DEF IInv
<1>3. /\ Progress' /\ Made(pc) = i /\ Made(pc)' = i + 1
      /\ \A s \in Step : s # pc => Made(s)' = Made(s)
  BY <1>1, <1>2, MadeMore
<1>4. ShownInv'
  BY DEF ShownInv, NoCStep
<1>5. \A k : Weight(k)' = Weight(k)
  BY DEF Weight, Copies
<1>6. Weight("nocs") = Copies(xml, "nocs")
  BY DEF Weight, Controllers
<1>7. QED
  BY <1>1, <1>2, <1>3, <1>4, <1>5, <1>6 DEF Progress

(* An area step of the networks: the powers stay.                          *)
LEMMA PowersStay ==
    ASSUME IInv, UNCHANGED <<xml, power, rt_power>>,
           \A s \in Step : s \notin {"noc_area", "noc_link"} => Made(s)' = Made(s)
    PROVE  PowerInv(power)' /\ PowerInv(rt_power)'
<1>1. \A k \in Classes : EnergyStep(k) \in Step \ {"noc_area", "noc_link"}
  BY DEF EnergyStep, Classes, Step, NoCStep, Arrays, Controllers
<1>2. \A k \in Classes : Made(EnergyStep(k))' = Made(EnergyStep(k))
  BY <1>1 DEF EnergyStep
<1>3. PowerParts(power)' /\ PowerParts(rt_power)'
  BY <1>2 DEF IInv, PowerInv, PowerParts
<1>4. QED
  BY <1>3 DEF IInv, PowerInv

LEMMA MakeNoCKeeps ==
    ASSUME IInv, MakeNoC PROVE IInv'
<1> DEFINE o == <<"nocs", i>>
           n == Copies(xml, "nocs")
           A == Copied(o, n)
<1>0. /\ pc = "noc_area" /\ i < Num(xml, "nocs") /\ i' = i + 1
      /\ UNCHANGED <<xml, pc, power, rt_power, shown>>
      /\ area' = AddInLoop(area, "nocs", A, A)
      /\ chip_at' = IF i \in xml.routers THEN chip_at ELSE LaidOut(o)
  BY DEF MakeNoC
<1>1. /\ pc \in NoCStep /\ "noc_area" \in NoCStep /\ "noc_link" \in NoCStep /\ "noc_area" # "noc_link"
      /\ Progress
  BY <1>0 DEF NoCStep, IInv
<1>2. /\ Progress' /\ ShownInv' /\ Made("noc_area") = i /\ Made("noc_area")' = i + 1
      /\ \A s \in Step : s # "noc_area" => Made(s)' = Made(s)
      /\ NoCStep \subseteq Step /\ "nocs" \in Classes
      /\ \A k \in Classes \ {"nocs"} : k \in Step \ NoCStep
      /\ i \in Nat /\ Num(xml, "nocs") \in Nat
      /\ \A k : Weight(k)' = Weight(k)
      /\ Weight("nocs") = n
  BY <1>0, <1>1, NoCFacts
<1>3. /\ o \in Objects("nocs") /\ AreaOf["nocs"] = Objects("nocs") /\ n \in Nat \ {0}
      /\ o \notin Numbered("nocs", i) /\ (xml["nocs"].homo => i = 0)
  BY <1>0, <1>1, <1>2, NewObject
<1>4. Made("noc_link") = 0
  <2>1. Rank["noc_area"] < Rank["noc_link"]
    BY DEF Rank
  <2>2. QED
    BY <1>0, <2>1 DEF Made
<1>5. Linked = {} /\ Linked' = {}
  <2>1. Made("noc_link")' = 0 /\ 0 .. 0 - 1 = {}
    BY <1>1, <1>2, <1>4
  <2>2. QED
    BY <1>4, <2>1 DEF Linked
<1>6. Totals(area, AreaOf, {}) /\ AreaParts
  BY DEF IInv, AreaInv
<1>7. DOMAIN area["nocs"] = Numbered("nocs", i)
  BY <1>2, <1>5, <1>6 DEF AreaParts
<1>8. xml["nocs"].homo => area["nocs"] = EmptyBag
  <2>1. IsABag(area["nocs"])
    BY <1>2, <1>6 DEF Totals
  <2>2. Numbered("nocs", 0) = {}
    BY DEF Numbered
  <2>3. QED
    BY <1>3, <1>7, <2>1, <2>2, EmptyDomain
<1>9. LaidOutInv'
  <2>1. \A k \in Classes \ {"nocs"} : area'[k] = area[k]
    <3>1. "chip" \notin Classes
      BY DEF Classes, Arrays, Controllers
    <3>2. QED
      BY <1>0, <1>6, <3>1 DEF AddInLoop, Totals
  <2>2. i \notin xml.routers => \A m \in 0 .. Num(xml, "nocs") - 1 :
                 m < Made("noc_area") <=> (i \in xml.routers \/ m < i)
    BY <1>2
  <2>3. QED
    BY <1>0, <1>1, <2>1, <2>2, LaidOutMore
<1> HIDE DEF o, n
<1>10. AreaInv'
  <2>1. IsABag(A) /\ DOMAIN A \subseteq AreaOf["nocs"]
    <3>1. IsABag(A) /\ DOMAIN A = {o}
      BY <1>3, CopiedBag
    <3> HIDE DEF A
    <3>2. QED
      BY <1>3, <3>1
  <2>2. /\ Totals(area', AreaOf, {}) /\ area'["nocs"] = area["nocs"] (+) A
        /\ \A k \in Classes : k # "nocs" => area'[k] = area[k]
    <3> HIDE DEF A
    <3>1. QED
      BY <1>0, <1>2, <1>6, <1>8, <2>1, AreaDisjoint, LoopTotals
  <2>3. o \notin DOMAIN area["nocs"]
    BY <1>3, <1>7
  <2>4. \A k \in Classes : \A x \in DOMAIN area[k] : area[k][x] = Weight(k)
    BY <1>6 DEF AreaParts
  <2>5. /\ DOMAIN area'["nocs"] = DOMAIN area["nocs"] \cup {o}
        /\ \A k \in Classes : \A x \in DOMAIN area'[k] : area'[k][x] = Weight(k)
    <3>1. area'["nocs"] = area["nocs"] (+) Copied(o, Weight("nocs"))
      BY <1>2, <2>2
    <3>2. Weight("nocs") \in Nat \ {0}
      BY <1>2, <1>3
    <3> DEFINE c == "nocs"
    <3>3. c \in Classes /\ o \in Objects(c) /\ o \notin DOMAIN area[c] /\ Weight(c) \in Nat \ {0}
      BY <1>2, <1>3, <2>3, <3>2
    <3>4. area'[c] = area[c] (+) Copied(o, Weight(c)) /\ \A k \in Classes : k # c => area'[k] = area[k]
      BY <2>2, <3>1
    <3> HIDE DEF A, c
    <3>5. /\ DOMAIN area'[c] = DOMAIN area[c] \cup {o}
          /\ \A k \in Classes : \A x \in DOMAIN area'[k] : area'[k][x] = Weight(k)
      BY SMTT(30), <1>6, <2>4, <3>3, <3>4, AreaMore
    <3>6. QED
      BY <3>5 DEF c
  <2>6. DOMAIN area'["nocs"] = Numbered("nocs", Made("noc_area")') \cup Linked'
    BY <1>2, <1>5, <1>7, <2>5, NumberedMore DEF o
  <2>7. \A k \in Classes \ {"nocs"} : DOMAIN area'[k] = Numbered(k, Made(k)')
    BY <1>1, <1>2, <1>6, <2>2 DEF AreaParts
  <2>8. AreaParts'
    BY <1>2, <2>5, <2>6, <2>7 DEF AreaParts
  <2>9. QED
    BY <2>2, <2>8 DEF AreaInv
<1>11. PowerInv(power)' /\ PowerInv(rt_power)'
  BY <1>0, <1>2, PowersStay
<1>12. QED
  BY <1>2, <1>9, <1>10, <1>11 DEF IInv

(* The link of network j, once laid out.                                   *)
LEMMA LinkedMore ==
    ASSUME Made("noc_link") = i, Made("noc_link")' = i + 1, i \in Nat, xml' = xml
    PROVE  Linked' = Linked \cup (IF xml.has_global_link /\ i \in xml.routers THEN {<<"link", i>>} ELSE {})
<1>1. 0 .. (i + 1) - 1 = (0 .. i - 1) \cup {i}
  OBVIOUS
<1>2. QED
  BY <1>1 DEF Linked

LEMMA MakeLinksKeeps ==
    ASSUME IInv, MakeLinks PROVE IInv'
<1> DEFINE o == <<"link", i>>
           n == Copies(xml, "nocs")
           A == Copied(o, n)
           link == xml.has_global_link /\ i \in xml.routers
<1>0. /\ pc = "noc_link" /\ i < Num(xml, "nocs") /\ i' = i + 1
      /\ UNCHANGED <<xml, pc, power, rt_power, shown>>
      /\ link => area' = Add(area, "nocs", A) /\ chip_at' = LaidOut(<<"nocs", i>>)
      /\ ~link => area' = area /\ chip_at' = chip_at
  BY DEF MakeLinks
<1>1. /\ pc \in NoCStep /\ "noc_area" \in NoCStep /\ "noc_link" \in NoCStep /\ "noc_area" # "noc_link"
      /\ Progress
  BY <1>0 DEF NoCStep, IInv
<1>2. /\ Progress' /\ ShownInv' /\ Made("noc_link") = i /\ Made("noc_link")' = i + 1
      /\ \A s \in Step : s # "noc_link" => Made(s)' = Made(s)
      /\ NoCStep \subseteq Step /\ "nocs" \in Classes
      /\ \A k \in Classes \ {"nocs"} : k \in Step \ NoCStep
      /\ i \in Nat /\ Num(xml, "nocs") \in Nat
      /\ \A k : Weight(k)' = Weight(k)
      /\ Weight("nocs") = n
  BY <1>0, <1>1, NoCFacts
<1>3. o \in Objects("nocs") /\ AreaOf["nocs"] = Objects("nocs") /\ n \in Nat \ {0}
  <2>1. n \in Nat \ {0}
    BY <1>0, <1>1, <1>2, NewObject
  <2>2. QED
    BY <1>2, <2>1 DEF Objects, AreaOf
<1>4. o \notin Numbered("nocs", Made("noc_area")) /\ o \notin Linked
  BY <1>2 DEF Numbered, Linked
<1>5. Made("noc_area") = Num(xml, "nocs")
  <2>1. Rank["noc_area"] = 10 /\ Rank["noc_link"] = 11
    BY DEF Rank
  <2>2. Made("noc_area") = Limit("noc_area")
    BY <1>0, <2>1 DEF Made, Skipped
  <2>3. QED
    BY <1>1, <2>2, ConfigFacts
<1>6. Totals(area, AreaOf, {}) /\ AreaParts
  BY DEF IInv, AreaInv
<1>7. Linked' = Linked \cup (IF link THEN {o} ELSE {})
  BY <1>0, <1>2, LinkedMore
<1>8. Made("noc_area")' = Made("noc_area") /\ \A k \in Classes \ {"nocs"} : Made(k)' = Made(k)
  BY <1>1, <1>2
<1>9. LaidOutInv'
  <2>1. \A k \in Classes \ {"nocs"} : area'[k] = area[k]
    <3>1. "chip" \notin Classes
      BY DEF Classes, Arrays, Controllers
    <3>2. QED
      BY <1>0, <1>6, <3>1 DEF Add, Totals
  <2>2. link => \A m \in 0 .. Num(xml, "nocs") - 1 :
                 m < Made("noc_area") <=> (i \in xml.routers \/ m < i)
    BY <1>2, <1>5
  <2>3. QED
    BY <1>0, <1>1, <2>1, <2>2, LaidOutMore
<1>10. AreaInv'
  <2>1. CASE ~link
    <3>1. area' = area /\ Linked' = Linked
      BY <1>0, <1>7, <2>1
    <3>2. AreaParts'
      BY <1>2, <1>6, <1>8, <3>1 DEF AreaParts
    <3>3. QED
      BY <1>6, <3>1, <3>2 DEF AreaInv
  <2>2. CASE link
    <3> HIDE DEF o, n
    <3>1. IsABag(A) /\ DOMAIN A \subseteq AreaOf["nocs"]
      <4>1. IsABag(A) /\ DOMAIN A = {o}
        BY <1>3, CopiedBag
      <4> HIDE DEF A
      <4>2. QED
        BY <1>3, <4>1
    <3>2. area' = Add(area, "nocs", A)
      BY <1>0, <2>2 DEF o, n
    <3>3. /\ Totals(area', AreaOf, {}) /\ area'["nocs"] = area["nocs"] (+) A
          /\ \A k \in Classes : k # "nocs" => area'[k] = area[k]
      <4> HIDE DEF A
      <4>1. QED
        BY <1>2, <1>6, <3>1, <3>2, AreaDisjoint, AddTotals
    <3>4. o \notin DOMAIN area["nocs"]
      BY <1>4, <1>6 DEF AreaParts
    <3>5. \A k \in Classes : \A x \in DOMAIN area[k] : area[k][x] = Weight(k)
      BY <1>6 DEF AreaParts
    <3>6. /\ DOMAIN area'["nocs"] = DOMAIN area["nocs"] \cup {o}
          /\ \A k \in Classes : \A x \in DOMAIN area'[k] : area'[k][x] = Weight(k)
      <4>1. area'["nocs"] = area["nocs"] (+) Copied(o, Weight("nocs"))
        BY <1>2, <3>3
      <4>2. Weight("nocs") \in Nat \ {0}
        BY <1>2, <1>3
      <4> DEFINE c == "nocs"
      <4>3. c \in Classes /\ o \in Objects(c) /\ o \notin DOMAIN area[c] /\ Weight(c) \in Nat \ {0}
        BY <1>2, <1>3, <3>4, <4>2
      <4>4. area'[c] = area[c] (+) Copied(o, Weight(c)) /\ \A k \in Classes : k # c => area'[k] = area[k]
        BY <3>3, <4>1
      <4> HIDE DEF A, c
      <4>5. /\ DOMAIN area'[c] = DOMAIN area[c] \cup {o}
            /\ \A k \in Classes : \A x \in DOMAIN area'[k] : area'[k][x] = Weight(k)
        BY SMTT(30), <1>6, <3>5, <4>3, <4>4, AreaMore
      <4>6. QED
        BY <4>5 DEF c
    <3>7. DOMAIN area'["nocs"] = Numbered("nocs", Made("noc_area")') \cup Linked'
      BY <1>6, <1>7, <1>8, <2>2, <3>6 DEF AreaParts
    <3>8. \A k \in Classes \ {"nocs"} : DOMAIN area'[k] = Numbered(k, Made(k)')
      BY <1>6, <1>8, <3>3 DEF AreaParts
    <3>9. AreaParts'
      BY <1>2, <3>6, <3>7, <3>8 DEF AreaParts
    <3>10. QED
      BY <3>3, <3>9 DEF AreaInv
  <2>3. QED
    BY <2>1, <2>2
<1>11. PowerInv(power)' /\ PowerInv(rt_power)'
  BY <1>0, <1>2, PowersStay
<1>12. QED
  BY <1>2, <1>9, <1>10, <1>11 DEF IInv

LEMMA NoCEnergyKeeps ==
    ASSUME IInv, NoCEnergy PROVE IInv'
<1> DEFINE o == <<"nocs", i>>
           n == Copies(xml, "nocs")
           P == Times(o, "clock", n, n)
           R == Times(o, "time", 1, n)
<1>0. /\ pc = "noc_energy" /\ i < Num(xml, "nocs") /\ i' = i + 1
      /\ UNCHANGED <<xml, pc, area, chip_at, shown>>
      /\ power' = AddInLoop(power, "nocs", P, P)
      /\ rt_power' = AddInLoop(rt_power, "nocs", R, R)
  BY DEF NoCEnergy
<1>1. /\ pc \in NoCStep /\ "noc_area" \in NoCStep \ {pc} /\ "noc_link" \in NoCStep \ {pc} /\ Progress
  BY <1>0 DEF NoCStep, IInv
<1>2. /\ Progress' /\ ShownInv' /\ Made("noc_energy") = i /\ Made("noc_energy")' = i + 1
      /\ \A s \in Step : s # "noc_energy" => Made(s)' = Made(s)
      /\ NoCStep \subseteq Step /\ "nocs" \in Classes
      /\ \A k \in Classes \ {"nocs"} : k \in Step \ NoCStep
      /\ i \in Nat /\ Num(xml, "nocs") \in Nat
      /\ \A k : Weight(k)' = Weight(k)
  BY <1>0, <1>1, NoCFacts
<1>3. /\ o \in Objects("nocs") /\ n \in Nat \ {0} /\ (xml["nocs"].homo => i = 0)
  BY <1>0, <1>1, <1>2, NewObject
<1> HIDE DEF o, n
<1>4. LaidOutInv'
  BY <1>0, <1>1, LaidOutMore
<1>5. AreaInv'
  <2>1. /\ Made("noc_area")' = Made("noc_area") /\ Made("noc_link")' = Made("noc_link")
        /\ \A k \in Classes \ {"nocs"} : Made(k)' = Made(k)
    BY <1>0, <1>1, <1>2
  <2>2. Linked' = Linked
    BY <1>0, <2>1 DEF Linked
  <2>3. AreaParts'
    BY <1>0, <1>2, <2>1, <2>2 DEF IInv, AreaInv, AreaParts
  <2>4. QED
    BY <1>0, <2>3 DEF IInv, AreaInv
<1>6. /\ IsABag(P) /\ DOMAIN P \subseteq PowerOf["nocs"] /\ DOMAIN P # {}
      /\ IsABag(R) /\ DOMAIN R \subseteq PowerOf["nocs"] /\ DOMAIN R # {}
  BY <1>2, <1>3, TimesBag
<1> HIDE DEF P, R
<1>7. Made(EnergyStep("nocs"))' > 0 /\ \A k \in Classes : k # "nocs" => Made(EnergyStep(k))' = Made(EnergyStep(k))
  <2>1. \A k \in Classes : k # "nocs" => EnergyStep(k) \in Step \ {"noc_energy"}
    BY <1>0, <1>1, <1>2 DEF EnergyStep
  <2>2. QED
    BY <1>2, <2>1 DEF EnergyStep
<1>8. xml["nocs"].homo => power["nocs"] = EmptyBag /\ rt_power["nocs"] = EmptyBag
  BY <1>2, <1>3 DEF IInv, PowerInv, PowerParts, EnergyStep
<1>9. PowerInv(power)'
  <2>1. PowerInv(power) /\ Totals(power, PowerOf, Excepted(xml))
    BY DEF IInv, PowerInv
  <2>2. /\ Totals(power', PowerOf, Excepted(xml)) /\ power'["nocs"] = power["nocs"] (+) P
        /\ \A k \in Classes : k # "nocs" => power'[k] = power[k]
    BY <1>0, <1>2, <1>6, <1>8, <2>1, PowerDisjoint, LoopTotals
  <2>3. \A k \in Classes : power'[k] = EmptyBag <=> Made(EnergyStep(k))' = 0
    BY <1>2, <1>6, <1>7, <2>1, <2>2, PowerMore
  <2>4. QED
    BY <1>0, <2>2, <2>3 DEF PowerInv, PowerParts
<1>10. PowerInv(rt_power)'
  <2>1. PowerInv(rt_power) /\ Totals(rt_power, PowerOf, Excepted(xml))
    BY DEF IInv, PowerInv
  <2>2. /\ Totals(rt_power', PowerOf, Excepted(xml)) /\ rt_power'["nocs"] = rt_power["nocs"] (+) R
        /\ \A k \in Classes : k # "nocs" => rt_power'[k] = rt_power[k]
    BY <1>0, <1>2, <1>6, <1>8, <2>1, PowerDisjoint, LoopTotals
  <2>3. \A k \in Classes : rt_power'[k] = EmptyBag <=> Made(EnergyStep(k))' = 0
    BY <1>2, <1>6, <1>7, <2>1, <2>2, PowerMore
  <2>4. QED
    BY <1>0, <2>2, <2>3 DEF PowerInv, PowerParts
<1>11. QED
  BY <1>2, <1>4, <1>5, <1>9, <1>10 DEF IInv

-----------------------------------------------------------------------------
(* The invariant of the constructor and the destructor. *)

LEMMA InitIInv == Init => IInv
<1> SUFFICES ASSUME Init PROVE IInv
  OBVIOUS
<1>1. /\ xml \in Configs /\ pc = "check" /\ i = 0 /\ DOMAIN chip_at = {}
      /\ area = [k \in Classes \cup {"chip"} |-> EmptyBag] /\ power = area /\ rt_power = area
  BY DEF Init
<1>2. Progress
  BY <1>1, StepFacts DEF Progress, Rank, Skipped
<1>3. \A s \in Step : Made(s) = 0
  <2>1. Rank["check"] = 0
    BY DEF Rank
  <2>2. QED
    BY <1>1, <2>1, StepFacts DEF Made
<1>4. \A k \in Classes : EnergyStep(k) \in Step /\ (k # "nocs" => k \in Step)
  BY DEF EnergyStep, Classes, Step, NoCStep
<1>5. "noc_area" \in Step /\ "noc_link" \in Step /\ "nocs" \in Classes
  BY DEF Step, NoCStep, Classes
<1>6. ASSUME NEW T, NEW X
      PROVE  Totals(area, T, X)
  BY <1>1, NoBag DEF Totals
<1>7. AreaParts
  <2>1. \A k : Numbered(k, 0) = {}
    BY DEF Numbered
  <2>2. Linked = {}
    BY <1>3, <1>5 DEF Linked
  <2>3. \A k \in Classes : DOMAIN area[k] = {}
    BY <1>1, NoBag
  <2>4. QED
    BY <1>3, <1>4, <1>5, <2>1, <2>2, <2>3 DEF AreaParts
<1>8. PowerInv(area)
  <2>1. PowerParts(area)
    BY <1>1, <1>3, <1>4 DEF PowerParts
  <2>2. QED
    BY <1>6, <2>1 DEF PowerInv
<1>9. AreaInv
  BY <1>6, <1>7 DEF AreaInv
<1>10. LaidOutInv /\ ShownInv
  BY <1>1 DEF LaidOutInv, LaidOutOverChip, ShownInv
<1>11. QED
  BY <1>1, <1>2, <1>8, <1>9, <1>10 DEF IInv

LEMMA NextIInv == IInv /\ [Next]_vars => IInv'
<1> SUFFICES ASSUME IInv, [Next]_vars PROVE IInv'
  OBVIOUS
<1>1. ASSUME NEW class \in Arrays, MakeArrayObject(class) PROVE IInv'
  BY <1>1, ArrayKeeps
<1>2. ASSUME NEW class \in Controllers, MakeController(class) PROVE IInv'
  BY <1>2, ControllerKeeps
<1>3. CASE MakeNoC
  BY <1>3, MakeNoCKeeps
<1>4. CASE MakeLinks
  BY <1>4, MakeLinksKeeps
<1>5. CASE NoCEnergy
  BY <1>5, NoCEnergyKeeps
<1>6. CASE NextStep
  BY <1>6, NextStepKeeps
<1>7. CASE Check \/ Delete \/ Ended \/ \E plevel \in 1 .. 5 : displayEnergy(plevel)
  BY <1>7, OtherKeeps
<1>8. CASE UNCHANGED vars
  <2>1. /\ Progress /\ xml' = xml /\ i' = i /\ pc' = pc
        /\ UNCHANGED <<area, power, rt_power, chip_at, shown>>
    BY <1>8 DEF vars, IInv
  <2>2. Progress' /\ \A s \in Step : Made(s)' = Made(s)
    BY <2>1, MadeElse
  <2>3. Rank[pc] <= Rank[pc']
    BY <2>1, StepFacts DEF Progress
  <2>4. ShownInv'
    BY <2>1 DEF IInv, ShownInv
  <2>5. QED
    BY <2>1, <2>2, <2>3, <2>4, NothingMade
<1>9. QED
  BY <1>1, <1>2, <1>3, <1>4, <1>5, <1>6, <1>7, <1>8 DEF Next

(* The inductive invariant: at every point of the constructor the areas    *)
(* and powers are what has been made until then.                           *)
THEOREM ConstructorInvariant == Spec => []IInv
  BY InitIInv, NextIInv, PTL DEF Spec

(* A global link is as long as the finished chip, a bus as the chip before *)
(* the networks that follow it, whatever the numbers of networks.          *)
THEOREM LinksSpanTheChip == Spec => []LaidOutOverChip
<1>1. IInv => LaidOutOverChip
  BY DEF IInv, LaidOutInv
<1>2. QED
  BY <1>1, ConstructorInvariant, PTL

-----------------------------------------------------------------------------
(* The finished processor. *)

(* Every loop has run to its end, and the L2s' if they are not private.    *)
LEMMA AllMade ==
    ASSUME Progress, Built, NEW s \in Step
    PROVE  Made(s) = IF Skipped(s) THEN 0 ELSE Limit(s)
<1>1. Rank[pc] >= 13 /\ pc \notin Step /\ Rank[pc] \in Nat
  BY StepFacts DEF Built, Rank, Step, NoCStep, Arrays, Controllers
<1>2. Rank[s] \in Nat /\ Rank[s] <= 12
  BY StepFacts
<1>3. QED
  BY <1>1, <1>2 DEF Made

LEMMA Shown ==
    ASSUME IInv PROVE ShownTotals
<1> SUFFICES ASSUME pc \in {"displayed", "end"}
             PROVE  shown.totals = {k \in Classes : power[k] # EmptyBag}
  BY DEF ShownTotals
<1>1. Built /\ Progress
  BY DEF Built, IInv
<1>2. ASSUME NEW k \in Classes
      PROVE  k \in TotalLines(xml) <=> power[k] # EmptyBag
  <2>1. /\ EnergyStep(k) \in Step
        /\ Skipped(EnergyStep(k)) <=> k = "l2array" /\ xml.Private_L2
    BY DEF EnergyStep, Classes, Step, NoCStep, Skipped
  <2>2. power[k] # EmptyBag <=> Made(EnergyStep(k)) # 0
    BY DEF IInv, PowerInv, PowerParts
  <2>3. Made(EnergyStep(k)) = IF k = "l2array" /\ xml.Private_L2 THEN 0 ELSE Limit(EnergyStep(k))
    BY <1>1, <2>1, AllMade
  <2>4. CASE k \in Arrays
    <3>1. /\ Limit(EnergyStep(k)) = Num(xml, k) /\ Num(xml, k) \in Nat
          /\ k \notin Controllers \cup {"nocs"}
      BY <1>1, <2>4, ConfigFacts DEF EnergyStep, Arrays, Controllers
    <3>2. QED
      BY <2>2, <2>3, <2>4, <3>1 DEF TotalLines
  <2>5. CASE k \in Controllers
    <3>1. /\ Limit(EnergyStep(k)) = IF xml[k].num > 0 THEN 1 ELSE 0
          /\ k \notin Arrays /\ k # "l2array"
      BY <1>1, <2>5, ConfigFacts DEF EnergyStep, Arrays, Controllers
    <3>2. QED
      BY <2>2, <2>3, <2>5, <3>1 DEF TotalLines
  <2>6. CASE k = "nocs"
    <3>1. /\ Limit(EnergyStep(k)) = Num(xml, k) /\ Num(xml, k) \in Nat
          /\ Num(xml, k) = 0 <=> xml[k].num = 0
          /\ xml[k].num \in Nat
          /\ k \notin Arrays /\ k # "l2array"
      BY <1>1, <2>6, ConfigFacts DEF EnergyStep, Arrays, NoCStep
    <3>2. QED
      BY <2>2, <2>3, <2>6, <3>1 DEF TotalLines
  <2>7. QED
    BY <2>4, <2>5, <2>6 DEF Classes
<1>3. TotalLines(xml) \subseteq Classes
  BY DEF TotalLines, Classes
<1>4. shown.totals = TotalLines(xml)
  BY DEF IInv, ShownInv
<1>5. QED
  BY <1>2, <1>3, <1>4

(* The totals that displayEnergy prints below the chip's area, peak and    *)
(* runtime power add up to it, and none that counts is left out.           *)
THEOREM TotalsAddUp == Spec => []ClassesAddUp
<1>1. ASSUME IInv PROVE ClassesAddUp
  <2>1. area["chip"] = Sum(area)
    BY <1>1, AreaDisjoint, ChipIsSum DEF IInv, AreaInv
  <2>2. ASSUME NEW f, PowerInv(f)
        PROVE  IF xml["l1dirarray"].homo \/ xml["l1dirarray"].num = 0
               THEN f["chip"] = Sum(f)
               ELSE Without(f["chip"], "l1dirarray") = Without(Sum(f), "l1dirarray")
    BY <2>2, PowersAddUp DEF PowerInv
  <2>3. PowerInv(power) /\ PowerInv(rt_power)
    BY <1>1 DEF IInv
  <2>4. QED
    BY <1>1, <2>1, <2>2, <2>3, Shown DEF ClassesAddUp
<1>2. QED
  BY <1>1, ConstructorInvariant, PTL

LEMMA NumberedSize ==
    ASSUME NEW k, NEW n \in Nat
    PROVE  IsFiniteSet(Numbered(k, n)) /\ Cardinality(Numbered(k, n)) = n
<1> DEFINE F == [j \in 0 .. n - 1 |-> <<k, j>>]
<1>1. IsFiniteSet(0 .. n - 1) /\ Cardinality(0 .. n - 1) = n
  BY FS_Interval
<1>2. F \in Bijection(0 .. n - 1, Numbered(k, n))
  BY DEF Bijection, Injection, Surjection, IsInjective, Numbered
<1>3. ExistsBijection(0 .. n - 1, Numbered(k, n))
  BY <1>2 DEF ExistsBijection
<1>4. QED
  BY <1>1, <1>3, FS_Bijection

(* What the chip holds of class k.                                         *)
LEMMA ChipOfClass ==
    ASSUME IInv, NEW k \in Classes
    PROVE  /\ {o \in DOMAIN area["chip"] : o[1] = k} =
                Numbered(k, Made(IF k = "nocs" THEN "noc_area" ELSE k))
           /\ \A o \in Numbered(k, Made(IF k = "nocs" THEN "noc_area" ELSE k)) :
                area["chip"][o] = Weight(k)
<1> DEFINE O == Numbered(k, Made(IF k = "nocs" THEN "noc_area" ELSE k))
<1>1. Totals(area, AreaOf, {}) /\ AreaParts
  BY DEF IInv, AreaInv
<1>2. "link" \notin Classes
  BY DEF Classes, Arrays, Controllers
<1>3. \A m \in Classes : \A o \in AreaOf[m] : o[1] = m \/ o[1] = "link"
  BY DEF AreaOf, Objects
<1>4. /\ O \subseteq DOMAIN area[k] /\ (\A o \in DOMAIN area[k] : o \in O \/ o[1] = "link")
      /\ \A o \in O : o[1] = k
  BY <1>1 DEF AreaParts, Numbered, Linked
<1> HIDE DEF O
<1>5. \A o \in AreaOf[k] : Count(o, area["chip"]) = Count(o, area[k])
  BY <1>1 DEF Totals
<1>6. IsABag(area["chip"]) /\ IsABag(area[k]) /\ DOMAIN area[k] \subseteq AreaOf[k]
  BY <1>1 DEF Totals
<1>7. \A o \in DOMAIN area[k] : o \in DOMAIN area["chip"] /\ area["chip"][o] = Weight(k)
  <2>1. \A o \in DOMAIN area[k] : o \in DOMAIN area["chip"]
    BY <1>5, <1>6, BagCount
  <2>2. \A o \in DOMAIN area[k] : area[k][o] = Weight(k)
    BY <1>1 DEF AreaParts
  <2>3. QED
    BY <1>5, <1>6, <2>1, <2>2 DEF Count
<1>8. ASSUME NEW o \in DOMAIN area["chip"], o[1] = k
      PROVE  o \in O
  <2>1. PICK m \in Classes : o \in AreaOf[m]
    BY <1>1 DEF Totals
  <2>2. m = k
    BY <1>2, <1>3, <1>8, <2>1
  <2>3. o \in DOMAIN area[k]
    BY <1>5, <1>6, <2>1, <2>2, BagCount
  <2>4. QED
    BY <1>2, <1>4, <1>8, <2>3
<1>9. QED
  BY <1>4, <1>7, <1>8 DEF O

(* The chip's area holds as many cores, caches, directories, controllers   *)
(* and networks as the configuration asks for, homogeneous or not.         *)
THEOREM AllAreRepresented == Spec => []AllRepresented
<1>1. ASSUME IInv PROVE AllRepresented
  <2> SUFFICES ASSUME Built, NEW k \in Classes
               PROVE  LET made == {o \in DOMAIN area["chip"] : o[1] = k}
                          asked == IF k = "l2array" /\ xml.Private_L2 THEN 0 ELSE xml[k].num
                      IN  \/ \E o \in made : made = {o} /\ area["chip"][o] = asked
                          \/ /\ \A o \in made : area["chip"][o] = 1
                             /\ Cardinality(made) = asked
    BY DEF AllRepresented
  <2> DEFINE made == {o \in DOMAIN area["chip"] : o[1] = k}
             asked == IF k = "l2array" /\ xml.Private_L2 THEN 0 ELSE xml[k].num
             s == IF k = "nocs" THEN "noc_area" ELSE k
             M == Made(s)
             goal == \/ \E o \in made : made = {o} /\ area["chip"][o] = asked
                     \/ /\ \A o \in made : area["chip"][o] = 1
                        /\ Cardinality(made) = asked
  <2>1. Progress
    BY <1>1 DEF IInv
  <2>2. s \in Step /\ (Skipped(s) <=> k = "l2array" /\ xml.Private_L2)
    BY DEF Classes, Step, NoCStep, Skipped
  <2>3. M = IF k = "l2array" /\ xml.Private_L2 THEN 0 ELSE Limit(s)
    BY <2>1, <2>2, AllMade
  <2>4. made = Numbered(k, M) /\ \A o \in Numbered(k, M) : area["chip"][o] = Weight(k)
    BY <1>1, ChipOfClass
  <2>5. /\ xml[k].homo \in BOOLEAN /\ xml[k].num \in Nat
        /\ IF k \in Controllers THEN Limit(s) = IF xml[k].num > 0 THEN 1 ELSE 0
           ELSE Limit(s) = Num(xml, k)
    BY <2>1, ConfigFacts DEF Classes, NoCStep, Controllers, Arrays
  <2> HIDE DEF made, s, M
  <2>6. Numbered(k, 0) = {} /\ Numbered(k, 1) = {<<k, 0>>}
    <3>1. 0 .. 0 - 1 = {} /\ 0 .. 1 - 1 = {0}
      OBVIOUS
    <3>2. QED
      BY <3>1 DEF Numbered
  <2>7. CASE asked = 0
    <3>1. M = 0
      BY <2>3, <2>5, <2>7 DEF Num
    <3>2. made = {} /\ Cardinality(made) = 0
      BY <2>4, <2>6, <3>1, FS_EmptySet
    <3>3. QED
      BY <2>7, <3>2 DEF made
  <2>8. CASE asked # 0 /\ (k \in Controllers \/ xml[k].homo)
    <3>1. asked = xml[k].num /\ M = 1 /\ Weight(k) = asked
      BY <2>3, <2>5, <2>8 DEF Num, Weight, Copies
    <3>2. made = {<<k, 0>>} /\ area["chip"][<<k, 0>>] = asked
      BY <2>4, <2>6, <3>1
    <3>3. goal
      BY <3>2
    <3>4. QED
      BY <3>3 DEF made
  <2>9. CASE asked # 0 /\ ~(k \in Controllers \/ xml[k].homo)
    <3>1. asked = xml[k].num /\ M = asked /\ Weight(k) = 1
      BY <2>3, <2>5, <2>9 DEF Num, Weight, Copies
    <3>2. Cardinality(made) = asked
      BY <2>4, <2>5, <3>1, NumberedSize
    <3>3. \A o \in made : area["chip"][o] = 1
      BY <2>4, <3>1
    <3>4. QED
      BY <3>2, <3>3 DEF made
  <2>10. QED
    BY <2>7, <2>8, <2>9 DEF made
<1>2. QED
  BY <1>1, ConstructorInvariant, PTL
=============================================================================
