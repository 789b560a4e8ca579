--------------------------- MODULE FootprintProofs --------------------------
(***************************************************************************)
(* The footprint counters for any number of cores, bytes and accesses.     *)
(* OwnWritesSaved is inductive with one fact besides the types: a byte     *)
(* that is not registered has no potential counts, so that one registered  *)
(* between a core's save and its reset has nothing to lose.                *)
(***************************************************************************)
EXTENDS Footprint, TLAPS

(* Potential and saved counts never exceed what was counted.               *)
Bounded ==
    \A b \in Byte : \A k \in Counter :
        poten[b][k] <= counted[b][k] /\ saved[b][k] <= counted[b][k]

AdditionsAll == \A b \in Byte : poten[b][Additions] = counted[b][Additions]

UnregisteredZero ==
    \A b \in Byte \ approx_vars : \A k \in Counter : poten[b][k] = 0

(* The inductive invariant of Footprint.                                   *)
IInv ==
    /\ TypeOK /\ WindowCovers /\ OwnWritesSaved
    /\ Bounded /\ AdditionsAll /\ UnregisteredZero

(* The counter for additions is no cache counter.                          *)
LEMMA CounterFacts ==
    /\ Additions \in Counter
    /\ \A c \in Cores \cap 0..3 : L1write(c) \in Counter /\ L1write(c) # Additions
    /\ \A c \in Cores, d \in Cores : L1read(c) # L1write(d) /\ L1read(c) # Additions
    /\ \A c \in Cores, d \in Cores : c # d => L1write(c) # L1write(d)
    /\ \A c \in Cores : L1write(c) # Additions
BY DEF Counter, Additions, L1write, L1read

(* The scan of an access visits registered bytes only.                     *)
LEMMA ScanRegistered ==
    ASSUME NEW address \in Byte
    PROVE  ScannedFrom(address) \subseteq approx_vars
<1>1. \A b \in BytesOf(address) : b \in address..b
  BY AddrAssumption DEF BytesOf, Byte
<1>2. QED
  BY <1>1 DEF ScannedFrom

(* Counting an access to registered bytes keeps every count typed and      *)
(* within what was counted.                                                *)
LEMMA CountsKeep ==
    ASSUME IInv, NEW B \in SUBSET approx_vars, NEW k, Counts(B, k),
           UNCHANGED <<saved, approx_vars>>
    PROVE  /\ poten' \in [Byte -> [Counter -> Nat]]
           /\ counted' \in [Byte -> [Counter -> Nat]]
           /\ accesses' \in 0..MaxAccesses
           /\ Bounded' /\ AdditionsAll' /\ UnregisteredZero'
           /\ \A b \in Byte : \A m \in Counter : m # k => poten'[b][m] = poten[b][m]
<1>1. /\ poten \in [Byte -> [Counter -> Nat]] /\ counted \in [Byte -> [Counter -> Nat]]
      /\ saved \in [Byte -> [Counter -> Nat]] /\ accesses \in 0..MaxAccesses
      /\ Bounded /\ AdditionsAll /\ UnregisteredZero
  BY DEF IInv, TypeOK
<1>2. /\ poten' = Incremented(poten, B, k) /\ counted' = Incremented(counted, B, k)
      /\ accesses < MaxAccesses /\ accesses' = accesses + 1
  BY DEF Counts
<1>3. accesses' \in 0..MaxAccesses
  BY <1>1, <1>2, CoreAssumption
<1>4. poten' \in [Byte -> [Counter -> Nat]] /\ counted' \in [Byte -> [Counter -> Nat]]
  BY <1>1, <1>2 DEF Incremented
<1>5. \A b \in Byte : \A m \in Counter :
        /\ poten'[b][m] = IF b \in B /\ m = k THEN poten[b][m] + 1 ELSE poten[b][m]
        /\ counted'[b][m] = IF b \in B /\ m = k THEN counted[b][m] + 1 ELSE counted[b][m]
  BY <1>1, <1>2 DEF Incremented
<1>6. Bounded'
  BY <1>1, <1>5 DEF Bounded
<1>7. AdditionsAll'
  BY <1>1, <1>5, CounterFacts DEF AdditionsAll
<1>8. UnregisteredZero'
  BY <1>1, <1>5 DEF UnregisteredZero
<1>9. QED
  BY <1>3, <1>4, <1>5, <1>6, <1>7, <1>8

(* Saving the counts of any bytes keeps IInv's facts about saved counts,   *)
(* and never lowers one.                                                   *)
LEMMA UpsaveKeeps ==
    ASSUME IInv, NEW B
    PROVE  /\ Upsaved(B) \in [Byte -> [Counter -> Nat]]
           /\ \A b \in Byte : \A k \in Counter :
                /\ saved[b][k] <= Upsaved(B)[b][k]
                /\ Upsaved(B)[b][k] <= counted[b][k]
                /\ b \in B \cap approx_vars => poten[b][k] <= Upsaved(B)[b][k]
<1>1. /\ poten \in [Byte -> [Counter -> Nat]] /\ counted \in [Byte -> [Counter -> Nat]]
      /\ saved \in [Byte -> [Counter -> Nat]] /\ Bounded
  BY DEF IInv, TypeOK
<1>2. \A b \in Byte : /\ MaxOf(poten[b], saved[b]) \in [Counter -> Nat]
                      /\ \A k \in Counter : MaxOf(poten[b], saved[b])[k] =
                            IF poten[b][k] < saved[b][k] THEN saved[b][k] ELSE poten[b][k]
  BY <1>1 DEF MaxOf
<1>3. Upsaved(B) \in [Byte -> [Counter -> Nat]]
  BY <1>1, <1>2 DEF Upsaved
<1>4. \A b \in Byte : Upsaved(B)[b] = IF b \in B \cap approx_vars
                                      THEN MaxOf(poten[b], saved[b]) ELSE saved[b]
  BY DEF Upsaved
<1>5. ASSUME NEW b \in Byte, NEW k \in Counter
      PROVE  /\ saved[b][k] <= Upsaved(B)[b][k]
             /\ Upsaved(B)[b][k] <= counted[b][k]
             /\ b \in B \cap approx_vars => poten[b][k] <= Upsaved(B)[b][k]
  <2>1. /\ poten[b][k] \in Nat /\ saved[b][k] \in Nat /\ counted[b][k] \in Nat
        /\ poten[b][k] <= counted[b][k] /\ saved[b][k] <= counted[b][k]
    BY <1>1 DEF Bounded
  <2>2. CASE b \in B \cap approx_vars
    BY <1>2, <1>4, <2>1, <2>2
  <2>3. CASE b \notin B \cap approx_vars
    BY <1>4, <2>1, <2>3
  <2>4. QED
    BY <2>2, <2>3
<1>6. QED
  BY <1>3, <1>5

(* Registering a byte: the window follows, and the byte has no counts.     *)
LEMMA AddKeepsIInv ==
    ASSUME IInv, NEW b \in Byte, AddApprox(b)
    PROVE  IInv'
<1>0. /\ TypeOK /\ UNCHANGED <<poten, saved, counted, logVars, user, accesses>>
      /\ approx_vars \subseteq Byte /\ start_addr \in Int /\ end_addr \in Int
      /\ poten \in [Byte -> [Counter -> Nat]] /\ saved \in [Byte -> [Counter -> Nat]]
  <2>1. TableTypeOK /\ TypeOK
    BY DEF IInv, TypeOK
  <2>2. approx_vars \subseteq Byte /\ start_addr \in Int /\ end_addr \in Int
    BY <2>1, AddrAssumption DEF TableTypeOK, Byte, Above
  <2>3. UNCHANGED <<poten, saved, counted, logVars, user, accesses>>
    BY DEF AddApprox, cntVars
  <2>4. QED
    BY <2>1, <2>2, <2>3 DEF TypeOK
<1>1. CASE b \in approx_vars
  <2>1. UNCHANGED <<approx_vars, start_addr, end_addr>>
    BY <1>1 DEF AddApprox, add_approx, tableVars
  <2>2. TypeOK' /\ WindowCovers'
    BY <1>0, <2>1 DEF IInv, logVars, TypeOK, TableTypeOK, WindowCovers
  <2>3. OwnWritesSaved'
    BY <1>0, <2>1 DEF IInv, OwnWritesSaved
  <2>4. Bounded' /\ AdditionsAll' /\ UnregisteredZero'
    BY <1>0, <2>1 DEF IInv, Bounded, AdditionsAll, UnregisteredZero
  <2>5. QED
    BY <2>2, <2>3, <2>4 DEF IInv
<1>2. CASE b \notin approx_vars
  <2>1. /\ approx_vars' = approx_vars \cup {b}
        /\ end_addr' = IF b > end_addr THEN b ELSE end_addr
        /\ start_addr' = IF b < start_addr THEN b ELSE start_addr
    BY <1>2 DEF AddApprox, add_approx
  <2>2. TableTypeOK' /\ WindowCovers'
    BY <1>0, <2>1, AddrAssumption
       DEF IInv, TypeOK, TableTypeOK, WindowCovers, Byte, Above
  <2>4. TypeOK'
    BY <1>0, <2>2 DEF TypeOK, logVars
  <2>5. \A c \in Cores \cap 0..3 : poten[b][L1write(c)] <= saved[b][L1write(c)]
    <3>1. \A k \in Counter : poten[b][k] = 0 /\ saved[b][k] \in Nat
      BY <1>0, <1>2 DEF IInv, UnregisteredZero
    <3>2. QED
      BY <3>1, CounterFacts
  <2>6. OwnWritesSaved'
    BY <1>0, <2>1, <2>5 DEF IInv, OwnWritesSaved
  <2>7. Bounded' /\ AdditionsAll' /\ UnregisteredZero'
    BY <1>0, <2>1 DEF IInv, Bounded, AdditionsAll, UnregisteredZero
  <2>8. QED
    BY <2>2, <2>4, <2>6, <2>7 DEF IInv
<1>3. QED
  BY <1>1, <1>2

(* Deleting a byte forgets its counts; s are the counts saved just before. *)
LEMMA ForgetKeepsIInv ==
    ASSUME IInv, NEW b \in Byte, NEW s \in [Byte -> [Counter -> Nat]],
           \A d \in Byte : \A k \in Counter : saved[d][k] <= s[d][k] /\ s[d][k] <= counted[d][k],
           del_approx(b),
           saved' = Forget(s, b), poten' = Forget(poten, b),
           counted' = Forget(counted, b),
           marker_logged' \in BOOLEAN, range_logged' \in BOOLEAN,
           approx_log' \in {"none", "complete", "stale"},
           UNCHANGED <<user, accesses>>
    PROVE  IInv'
<1>1. /\ poten \in [Byte -> [Counter -> Nat]] /\ counted \in [Byte -> [Counter -> Nat]]
      /\ saved \in [Byte -> [Counter -> Nat]] /\ NoCounts \in [Counter -> Nat]
      /\ approx_vars' = approx_vars \ {b} /\ UNCHANGED <<start_addr, end_addr>>
      /\ approx_vars \subseteq Byte
  BY DEF IInv, TypeOK, TableTypeOK, del_approx, NoCounts
<1>2. /\ poten' \in [Byte -> [Counter -> Nat]] /\ counted' \in [Byte -> [Counter -> Nat]]
      /\ saved' \in [Byte -> [Counter -> Nat]]
  BY <1>1 DEF IInv, TypeOK, Forget
<1>3. TypeOK' /\ WindowCovers'
  BY <1>1, <1>2 DEF IInv, TypeOK, TableTypeOK, WindowCovers
<1>4. \A d \in Byte : /\ poten'[d] = IF d = b THEN NoCounts ELSE poten[d]
                      /\ counted'[d] = IF d = b THEN NoCounts ELSE counted[d]
                      /\ saved'[d] = IF d = b THEN NoCounts ELSE s[d]
  BY <1>1 DEF Forget
<1>5. \A k \in Counter : NoCounts[k] = 0
  BY DEF NoCounts
<1>6. Bounded'
  <2> SUFFICES ASSUME NEW d \in Byte, NEW k \in Counter
               PROVE  poten'[d][k] <= counted'[d][k] /\ saved'[d][k] <= counted'[d][k]
    BY DEF Bounded
  <2>1. CASE d = b
    BY <1>4, <1>5, <2>1
  <2>2. CASE d # b
    BY <1>4, <2>2 DEF IInv, Bounded
  <2>3. QED
    BY <2>1, <2>2
<1>7. AdditionsAll'
  BY <1>4 DEF IInv, AdditionsAll
<1>8. UnregisteredZero'
  BY <1>1, <1>4, <1>5 DEF IInv, UnregisteredZero
<1>9. OwnWritesSaved'
  <2> SUFFICES ASSUME NEW c \in Cores \cap 0..3, user[c].step = "reset",
                      NEW d \in user[c].bytes \cap (approx_vars \ {b})
               PROVE  poten'[d][L1write(c)] <= saved'[d][L1write(c)]
    BY <1>1 DEF OwnWritesSaved
  <2>1. /\ d \in Byte /\ d # b /\ L1write(c) \in Counter
        /\ poten'[d] = poten[d] /\ saved'[d] = s[d]
    BY <1>1, <1>4, CounterFacts
  <2>2. poten[d][L1write(c)] <= saved[d][L1write(c)]
    BY DEF IInv, OwnWritesSaved
  <2>3. /\ poten[d][L1write(c)] \in Nat /\ saved[d][L1write(c)] \in Nat
        /\ s[d][L1write(c)] \in Nat /\ saved[d][L1write(c)] <= s[d][L1write(c)]
    BY <1>1, <2>1
  <2>4. QED
    BY <2>1, <2>2, <2>3
<1>10. QED
  BY <1>3, <1>6, <1>7, <1>8, <1>9 DEF IInv

(* Both commands that delete.                                              *)
LEMMA DelKeepsIInv ==
    ASSUME IInv, NEW b \in Byte, DelMarker(b) \/ DelRange(b)
    PROVE  IInv'
<1>1. /\ saved \in [Byte -> [Counter -> Nat]] /\ counted \in [Byte -> [Counter -> Nat]]
      /\ marker_logged \in BOOLEAN /\ range_logged \in BOOLEAN
      /\ approx_log \in {"none", "complete", "stale"}
      /\ \A d \in Byte : \A k \in Counter : saved[d][k] <= saved[d][k] /\ saved[d][k] <= counted[d][k]
  BY DEF IInv, TypeOK, Bounded
<1>0. \A t : LogOf(t) \in {"none", "complete", "stale"}
  BY DEF LogOf
<1>2. CASE DelRange(b)
  BY <1>0, <1>1, <1>2, ForgetKeepsIInv DEF DelRange
<1>3. CASE DelMarker(b)
  <2>1. CASE marker_logged
    BY <1>1, <1>3, <2>1, ForgetKeepsIInv DEF DelMarker
  <2>2. CASE ~marker_logged
    <3>1. /\ del_approx(b) /\ saved' = Forget(Upsaved(Byte), b)
          /\ poten' = Forget(poten, b) /\ counted' = Forget(counted, b)
          /\ marker_logged' \in BOOLEAN /\ range_logged' \in BOOLEAN
          /\ approx_log' \in {"none", "complete", "stale"}
          /\ UNCHANGED <<user, accesses>>
      BY <1>0, <1>1, <1>3, <2>2 DEF DelMarker
    <3>2. /\ Upsaved(Byte) \in [Byte -> [Counter -> Nat]]
          /\ \A d \in Byte : \A k \in Counter :
               saved[d][k] <= Upsaved(Byte)[d][k] /\ Upsaved(Byte)[d][k] <= counted[d][k]
      BY UpsaveKeeps
    <3>3. QED
      BY <3>1, <3>2, ForgetKeepsIInv
  <2>3. QED
    BY <2>1, <2>2
<1>4. QED
  BY <1>2, <1>3

(* The record of a core's user thread.                                     *)
UserType == [Cores -> [step : {"idle", "upsave", "reset"}, bytes : SUBSET Byte]]

(* An access by the core or by any other thread: no thread in its reset    *)
(* has its own write counter raised.                                       *)
LEMMA AccessKeepsIInv ==
    ASSUME IInv, NEW B \in SUBSET approx_vars, NEW k, Counts(B, k),
           UNCHANGED <<tableVars, saved, logVars>>,
           user' \in UserType,
           \A c \in Cores : user'[c].step = "reset" => user'[c] = user[c],
           \A c \in Cores : user[c].step = "reset" => k # L1write(c)
    PROVE  IInv'
<1>1. UNCHANGED <<approx_vars, start_addr, end_addr, saved>>
  BY DEF tableVars
<1>2. /\ poten' \in [Byte -> [Counter -> Nat]] /\ counted' \in [Byte -> [Counter -> Nat]]
      /\ accesses' \in 0..MaxAccesses
      /\ Bounded' /\ AdditionsAll' /\ UnregisteredZero'
      /\ \A b \in Byte : \A m \in Counter : m # k => poten'[b][m] = poten[b][m]
  BY <1>1, CountsKeep
<1>3. TypeOK' /\ WindowCovers'
  BY <1>1, <1>2 DEF IInv, TypeOK, TableTypeOK, WindowCovers, logVars, UserType
<1>4. OwnWritesSaved'
  <2> SUFFICES ASSUME NEW c \in Cores \cap 0..3, user'[c].step = "reset",
                      NEW b \in user'[c].bytes \cap approx_vars
               PROVE  poten'[b][L1write(c)] <= saved[b][L1write(c)]
    BY <1>1 DEF OwnWritesSaved
  <2>1. user'[c] = user[c] /\ user[c].step = "reset" /\ L1write(c) # k /\ b \in user[c].bytes
    OBVIOUS
  <2>2. L1write(c) \in Counter /\ b \in Byte
    BY CounterFacts DEF IInv, TypeOK, TableTypeOK
  <2>3. poten'[b][L1write(c)] = poten[b][L1write(c)]
    BY <1>2, <2>1, <2>2
  <2>4. poten[b][L1write(c)] <= saved[b][L1write(c)]
    BY <2>1 DEF IInv, OwnWritesSaved
  <2>5. QED
    BY <2>3, <2>4
<1>5. QED
  BY <1>2, <1>3, <1>4 DEF IInv

(* A save: the core's bytes now have their counts saved.                   *)
LEMMA UpsaveKeepsIInv ==
    ASSUME IInv, NEW c \in Cores, upsave_cnters(c)
    PROVE  IInv'
<1> DEFINE B == user[c].bytes
<1>1. /\ saved' = Upsaved(B) /\ user' = [user EXCEPT ![c].step = "reset"]
      /\ UNCHANGED <<approx_vars, start_addr, end_addr, poten, counted, logVars, accesses>>
  BY DEF upsave_cnters, tableVars
<1>2. /\ saved' \in [Byte -> [Counter -> Nat]]
      /\ \A b \in Byte : \A k \in Counter :
           /\ saved[b][k] <= saved'[b][k] /\ saved'[b][k] <= counted[b][k]
           /\ b \in B \cap approx_vars => poten[b][k] <= saved'[b][k]
  BY <1>1, UpsaveKeeps
<1>3. user \in UserType /\ user' \in UserType
  BY <1>1 DEF IInv, TypeOK, UserType
<1>4. TypeOK' /\ WindowCovers'
  BY <1>1, <1>2, <1>3 DEF IInv, TypeOK, TableTypeOK, WindowCovers, logVars, UserType
<1>5. Bounded' /\ AdditionsAll' /\ UnregisteredZero'
  BY <1>1, <1>2 DEF IInv, Bounded, AdditionsAll, UnregisteredZero
<1>6. OwnWritesSaved'
  <2> SUFFICES ASSUME NEW e \in Cores \cap 0..3, user'[e].step = "reset",
                      NEW b \in user'[e].bytes \cap approx_vars
               PROVE  poten[b][L1write(e)] <= saved'[b][L1write(e)]
    BY <1>1 DEF OwnWritesSaved
  <2>1. /\ L1write(e) \in Counter /\ b \in Byte /\ user'[e].bytes = user[e].bytes
        /\ poten[b] \in [Counter -> Nat] /\ saved[b] \in [Counter -> Nat]
        /\ saved'[b] \in [Counter -> Nat]
    BY <1>1, <1>2, <1>3, CounterFacts DEF IInv, TypeOK, TableTypeOK, UserType
  <2>2. CASE e = c
    BY <1>2, <2>1, <2>2
  <2>3. CASE e # c
    <3>1. user[e].step = "reset"
      BY <1>1, <1>3, <2>3 DEF UserType
    <3>2. poten[b][L1write(e)] <= saved[b][L1write(e)]
      BY <2>1, <3>1 DEF IInv, OwnWritesSaved
    <3>3. saved[b][L1write(e)] <= saved'[b][L1write(e)]
      BY <1>2, <2>1
    <3>4. poten[b][L1write(e)] \in Nat /\ saved[b][L1write(e)] \in Nat /\ saved'[b][L1write(e)] \in Nat
      BY <2>1
    <3>5. QED
      BY <3>2, <3>3, <3>4
  <2>4. QED
    BY <2>2, <2>3
<1>7. QED
  BY <1>4, <1>5, <1>6 DEF IInv

(* A reset only lowers potential counts, and leaves those of additions.    *)
LEMMA ResetKeepsIInv ==
    ASSUME IInv, NEW c \in Cores, reset_cnters(c)
    PROVE  IInv'
<1>0. PICK lost \in SUBSET Counter :
        poten' = [b \in Byte |-> IF b \in user[c].bytes \cap approx_vars
                                THEN ResetCounts(poten[b], lost) ELSE poten[b]]
  BY DEF reset_cnters
<1>1. /\ user' = [user EXCEPT ![c] = Idle]
      /\ UNCHANGED <<approx_vars, start_addr, end_addr, saved, counted, logVars, accesses>>
  BY DEF reset_cnters, tableVars
<1>2. /\ poten \in [Byte -> [Counter -> Nat]] /\ counted \in [Byte -> [Counter -> Nat]]
      /\ saved \in [Byte -> [Counter -> Nat]] /\ approx_vars \subseteq Byte
  BY DEF IInv, TypeOK, TableTypeOK
<1>3. \A b \in Byte : ResetCounts(poten[b], lost) \in [Counter -> Nat]
  BY <1>2 DEF ResetCounts
<1>4. poten' \in [Byte -> [Counter -> Nat]]
  BY <1>0, <1>2, <1>3
<1>5. \A b \in Byte : \A k \in Counter :
        /\ poten'[b][k] = poten[b][k] \/ poten'[b][k] = 0
        /\ k = Additions => poten'[b][k] = poten[b][k]
  BY <1>0 DEF ResetCounts
<1>6. user \in UserType /\ user' \in UserType
  BY <1>1 DEF IInv, TypeOK, UserType, Idle
<1>7. TypeOK' /\ WindowCovers'
  BY <1>1, <1>4, <1>6 DEF IInv, TypeOK, TableTypeOK, WindowCovers, logVars, UserType
<1>8. Bounded'
  <2> SUFFICES ASSUME NEW b \in Byte, NEW k \in Counter
               PROVE  poten'[b][k] <= counted[b][k] /\ saved[b][k] <= counted[b][k]
    BY <1>1 DEF Bounded
  <2>1. /\ poten[b][k] <= counted[b][k] /\ saved[b][k] <= counted[b][k] /\ counted[b][k] \in Nat
    BY <1>2 DEF IInv, Bounded
  <2>2. QED
    BY <1>5, <2>1
<1>9. AdditionsAll' /\ UnregisteredZero'
  BY <1>1, <1>5, CounterFacts DEF IInv, AdditionsAll, UnregisteredZero
<1>10. OwnWritesSaved'
  <2> SUFFICES ASSUME NEW e \in Cores \cap 0..3, user'[e].step = "reset",
                      NEW b \in user'[e].bytes \cap approx_vars
               PROVE  poten'[b][L1write(e)] <= saved[b][L1write(e)]
    BY <1>1 DEF OwnWritesSaved
  <2>1. e # c
    BY <1>1, <1>6 DEF UserType, Idle
  <2>2. user'[e] = user[e]
    BY <1>1, <1>6, <2>1 DEF UserType
  <2>3. /\ L1write(e) \in Counter /\ b \in Byte
        /\ poten[b][L1write(e)] \in Nat /\ saved[b][L1write(e)] \in Nat
    BY <1>2, CounterFacts
  <2>4. poten[b][L1write(e)] <= saved[b][L1write(e)]
    BY <2>2 DEF IInv, OwnWritesSaved
  <2>5. QED
    BY <1>5, <2>3, <2>4
<1>11. QED
  BY <1>7, <1>8, <1>9, <1>10 DEF IInv

(* No byte is registered and no thread is under way at the start.          *)
LEMMA InitIInv == Init => IInv
<1> SUFFICES ASSUME Init PROVE IInv
  OBVIOUS
<1>1. /\ Above \in 0..Above /\ 0 \in Byte /\ 0 \in 0..MaxAccesses
      /\ NoCounts \in [Counter -> Nat] /\ \A k \in Counter : NoCounts[k] = 0
  BY AddrAssumption, CoreAssumption DEF Above, Byte, NoCounts
<1>2. user \in UserType
  BY DEF Init, Idle, UserType
<1>3. TypeOK
  BY <1>1, <1>2 DEF Init, InitTable, TypeOK, TableTypeOK, UserType
<1>4. WindowCovers /\ OwnWritesSaved
  BY DEF Init, InitTable, WindowCovers, OwnWritesSaved
<1>5. Bounded /\ AdditionsAll /\ UnregisteredZero
  BY <1>1 DEF Init, Bounded, AdditionsAll, UnregisteredZero
<1>6. QED
  BY <1>3, <1>4, <1>5 DEF IInv

(* Every step keeps IInv.                                                  *)
LEMMA NextIInv == IInv /\ [Next]_vars => IInv'
<1> SUFFICES ASSUME IInv, [Next]_vars PROVE IInv'
  OBVIOUS
<1>0. user \in UserType /\ approx_vars \subseteq Byte
  BY DEF IInv, TypeOK, TableTypeOK, UserType
<1>1. ASSUME NEW b \in Byte, AddApprox(b) PROVE IInv'
  BY <1>1, AddKeepsIInv
<1>2. ASSUME NEW b \in Byte, DelMarker(b) \/ DelRange(b) PROVE IInv'
  BY <1>2, DelKeepsIInv
<1>3. ASSUME NEW b \in Byte, AddCnt(b) PROVE IInv'
  <2>1. /\ {b} \in SUBSET approx_vars /\ Counts({b}, Additions)
        /\ UNCHANGED <<tableVars, saved, logVars>> /\ user' = user
    BY <1>3 DEF AddCnt
  <2>2. \A c \in Cores : Additions # L1write(c)
    BY CounterFacts
  <2>3. QED
    BY <1>0, <2>1, <2>2, AccessKeepsIInv
<1>4. ASSUME NEW c \in Cores, NEW a \in Byte, Write(c, a) PROVE IInv'
  <2>1. /\ Counts(ScannedFrom(a), L1write(c)) /\ user' = user /\ user[c].step = "idle"
        /\ UNCHANGED <<tableVars, saved, logVars>>
    BY <1>4 DEF Write
  <2>2. \A e \in Cores : user[e].step = "reset" => L1write(c) # L1write(e)
    BY <2>1, CounterFacts
  <2>3. QED
    BY <1>0, <2>1, <2>2, ScanRegistered, AccessKeepsIInv
<1>5. ASSUME NEW c \in Cores, NEW a \in Byte, NEW n \in Nat, a..(a + n - 1) \subseteq Byte,
             Read(c, a, n)
      PROVE  IInv'
  <2>1. /\ Counts(ScannedFrom(a), L1read(c)) /\ user[c].step = "idle"
        /\ user' = [user EXCEPT ![c] = [step |-> "upsave", bytes |-> a..(a + n - 1)]]
        /\ UNCHANGED <<tableVars, saved, logVars>>
    BY <1>5 DEF Read
  <2>2. user' \in UserType
    BY <1>0, <1>5, <2>1 DEF UserType
  <2>3. \A e \in Cores : user'[e].step = "reset" => user'[e] = user[e]
    BY <1>0, <2>1 DEF UserType
  <2>4. \A e \in Cores : user[e].step = "reset" => L1read(c) # L1write(e)
    BY CounterFacts
  <2>5. QED
    BY <2>1, <2>2, <2>3, <2>4, ScanRegistered, AccessKeepsIInv
<1>6. ASSUME NEW a \in BlockAddress, NEW k \in Counter, k \notin {L1write(c) : c \in Cores},
             Traffic(k, a)
      PROVE  IInv'
  <2>1. PICK B \in {{}, ScannedFrom(a)} : Counts(B, k)
    BY <1>6 DEF Traffic
  <2>2. UNCHANGED <<tableVars, saved, logVars>> /\ user' = user
    BY <1>6 DEF Traffic
  <2>3. B \in SUBSET approx_vars
    BY <2>1, ScanRegistered DEF BlockAddress
  <2>4. \A c \in Cores : k # L1write(c)
    BY <1>6
  <2>5. QED
    BY <1>0, <2>1, <2>2, <2>3, <2>4, AccessKeepsIInv
<1>7. ASSUME NEW c \in Cores, upsave_cnters(c) PROVE IInv'
  BY <1>7, UpsaveKeepsIInv
<1>8. ASSUME NEW c \in Cores, reset_cnters(c) PROVE IInv'
  BY <1>8, ResetKeepsIInv
<1>9. CASE UNCHANGED vars
  <2>1. UNCHANGED <<approx_vars, start_addr, end_addr, poten, saved, counted,
                    marker_logged, range_logged, approx_log, user, accesses>>
    BY <1>9 DEF vars, tableVars, cntVars, logVars
  <2>2. TypeOK' /\ WindowCovers' /\ OwnWritesSaved'
    BY <2>1 DEF IInv, TypeOK, TableTypeOK, WindowCovers, OwnWritesSaved
  <2>3. QED
    BY <2>1, <2>2 DEF IInv, Bounded, AdditionsAll, UnregisteredZero
<1>10. CASE Next
  <2>1. CASE \E c \in Cores, a \in BlockAddress, off \in 0..(BlockSize - 1) :
               /\ a + off \in Byte
               /\ \/ Write(c, a + off)
                  \/ \E n \in 1..(BlockSize - off) :
                        a + off + n - 1 \in Byte /\ Read(c, a + off, n)
    <3>1. PICK c \in Cores, a \in BlockAddress, off \in 0..(BlockSize - 1) :
               /\ a + off \in Byte
               /\ \/ Write(c, a + off)
                  \/ \E n \in 1..(BlockSize - off) :
                        a + off + n - 1 \in Byte /\ Read(c, a + off, n)
      BY <2>1
    <3>2. CASE Write(c, a + off)
      BY <1>4, <3>1, <3>2
    <3>3. ASSUME NEW n \in 1..(BlockSize - off), a + off + n - 1 \in Byte, Read(c, a + off, n)
          PROVE  IInv'
      <4>1. /\ n \in Nat /\ (a + off)..(a + off + n - 1) \subseteq Byte /\ a + off \in Byte
        BY <3>1, <3>3, AddrAssumption DEF Byte, BlockAddress
      <4>2. QED
        BY <1>5, <3>3, <4>1
    <3>4. QED
      BY <3>1, <3>2, <3>3
  <2>2. QED
    BY <1>1, <1>2, <1>3, <1>6, <1>7, <1>8, <1>10, <2>1 DEF Next
<1>11. QED
  BY <1>9, <1>10

(* The types of the footprint state: no count becomes negative, and a user *)
(* thread saves and resets addresses of the program (appvar, MagicServer,  *)
(* coreInitiateMemoryAccess).                                              *)
THEOREM FootprintTypes == Spec => []TypeOK
<1>1. IInv => TypeOK
  BY DEF IInv
<1>2. QED
  BY InitIInv, NextIInv, <1>1, PTL DEF Spec

(* A core's reset never discards its own unsaved writes, with any number   *)
(* of cores and whatever the magic commands do between its save and its    *)
(* reset (coreInitiateMemoryAccess, upsave_cnters, reset_cnters).          *)
THEOREM OwnWritesAreSaved == Spec => []OwnWritesSaved
<1>1. IInv => OwnWritesSaved
  BY DEF IInv
<1>2. QED
  BY InitIInv, NextIInv, <1>1, PTL DEF Spec

(* No saved count exceeds the accesses counted (upsave), and no addition   *)
(* the application reported is lost (inc_add_cnt, reset).                  *)
THEOREM CountsAreSound == Spec => [](NeverOvercounted /\ AdditionsKept)
<1>1. IInv => NeverOvercounted /\ AdditionsKept
  BY DEF IInv, TypeOK, TableTypeOK, Bounded, AdditionsAll, NeverOvercounted, AdditionsKept
<1>2. QED
  BY InitIInv, NextIInv, <1>1, PTL DEF Spec

(* The window of add_approx and del_approx covers every registered byte.   *)
THEOREM WindowIsSound == Spec => []WindowCovers
<1>1. IInv => WindowCovers
  BY DEF IInv
<1>2. QED
  BY InitIInv, NextIInv, <1>1, PTL DEF Spec

(* No save or reset loses an addition that the application reported        *)
(* (inc_add_cnt, upsave, reset), however often and by however many cores.  *)
THEOREM AdditionsAreKept == Spec => []AdditionsKept
<1>1. QED
  BY CountsAreSound, PTL

(* Saving every byte leaves no count of the period under way above the     *)
(* saved one.                                                              *)
LEMMA UpsavedIsComplete ==
    ASSUME TypeOK
    PROVE  LogOf(Upsaved(Byte)) = "complete"
<1>1. ASSUME NEW b \in approx_vars, NEW k \in Printed
      PROVE  poten[b][k] <= Upsaved(Byte)[b][k]
  <2>1. b \in Byte /\ k \in Counter
    BY <1>1 DEF TypeOK, TableTypeOK, Printed
  <2>2. poten[b][k] \in Nat /\ saved[b][k] \in Nat
    BY <2>1 DEF TypeOK
  <2>3. Upsaved(Byte)[b][k] = IF poten[b][k] < saved[b][k] THEN saved[b][k] ELSE poten[b][k]
    BY <1>1, <2>1 DEF Upsaved, MaxOf
  <2>4. QED
    BY <2>2, <2>3
<1>2. QED
  BY <1>1 DEF LogOf

(* The log that the first marker writes (del_approx under code 6) lacks no *)
(* count of the period under way, unless a range deletion wrote it first.  *)
THEOREM MarkersLogIsComplete == Spec => []MarkerLogComplete
<1>1. Init => MarkerLogComplete
  BY DEF Init, MarkerLogComplete
<1>2. TypeOK /\ MarkerLogComplete /\ [Next]_vars => MarkerLogComplete'
  <2>1. SUFFICES ASSUME TypeOK, MarkerLogComplete, [Next]_vars
                 PROVE  MarkerLogComplete'
    OBVIOUS
  <2>2. CASE UNCHANGED logVars
    BY <2>1, <2>2 DEF MarkerLogComplete, logVars
  <2>3. ASSUME NEW b \in Byte, DelMarker(b)
        PROVE  MarkerLogComplete'
    <3>1. approx_log' = approx_log \/ approx_log' = LogOf(Upsaved(Byte))
      BY <2>3 DEF DelMarker
    <3>2. range_logged' = range_logged
      BY <2>3 DEF DelMarker
    <3>3. QED
      BY <2>1, <3>1, <3>2, UpsavedIsComplete DEF MarkerLogComplete
  <2>4. ASSUME NEW b \in Byte, DelRange(b)
        PROVE  MarkerLogComplete'
    BY <2>4 DEF DelRange, MarkerLogComplete
  <2>5. ASSUME ~(\E b \in Byte : DelMarker(b) \/ DelRange(b))
        PROVE  UNCHANGED logVars
    BY <2>1, <2>5 DEF Next, AddApprox, AddCnt, Write, Read, Traffic, upsave_cnters, reset_cnters, vars, logVars
  <2>6. QED
    BY <2>2, <2>3, <2>4, <2>5
<1>3. QED
  BY <1>1, <1>2, FootprintTypes, PTL DEF Spec
=============================================================================
