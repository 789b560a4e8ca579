------------------------------ MODULE Footprint -----------------------------
(***************************************************************************)
(* The memory footprint of the approximate bytes: MagicServer's counters,  *)
(* the magic commands that register, delete and log bytes, and the places  *)
(* in the memory system that count accesses and save and reset the counts. *)
(*                                                                         *)
(* Every byte has a potential count per counter, which grows with each     *)
(* access, and a saved one.  After a core's read the memory manager saves  *)
(* the counts of the bytes read and then resets them.  The two calls, and  *)
(* the accesses of other threads, are not ordered by any lock.             *)
(*                                                                         *)
(* The configuration is the one that measures footprints: mem_footprint is *)
(* enabled and the fault injector is "none".  Values added by ADD_CNT are  *)
(* 1; the counter for additions stands for the one for multiplications     *)
(* too, which has the same code.                                           *)
(***************************************************************************)
EXTENDS ApproxVars

CONSTANTS
    Cores,       \* core ids
    MaxAccesses  \* bound: the number of counted accesses

ASSUME CoreAssumption == Cores \subseteq Nat /\ MaxAccesses \in Nat

VARIABLES
    poten,          \* poten_*_cnt, by byte and counter
    saved,          \* *_cnt, by byte and counter
    marker_logged,  \* log_file_opened of SIM_CMD_MARKER
    range_logged,   \* log_file_opened of SIM_CMD_DEL_APPROX_ADDRS
    approx_log,     \* approx.log: "none", or whether it had all counts when written
    user,           \* user thread of a core: its step and the bytes it read
    counted,        \* history: counts since registration, by byte and counter
    accesses        \* number of accesses so far

cntVars  == <<poten, saved, counted>>
logVars  == <<marker_logged, range_logged, approx_log>>
vars == <<tableVars, cntVars, logVars, user, accesses>>

L1read(c)  == <<"L1", "read", c>>
L1write(c) == <<"L1", "write", c>>
L2read     == <<"L2", "read", 0>>
L2write    == <<"L2", "write", 0>>
Additions  == <<"add", "write", 0>>

(* There are first-level counters for cores 0 to 3; for other cores the    *)
(* code prints an error and does not count.                                *)
Counter == {L1read(c) : c \in 0..3 \cap Cores} \cup {L1write(c) : c \in 0..3 \cap Cores}
               \cup {L2read, L2write, Additions}

NoCounts == [k \in Counter |-> 0]

Idle == [step |-> "idle", bytes |-> {}]

TypeOK ==
    /\ TableTypeOK
    /\ poten \in [Byte -> [Counter -> Nat]]
    /\ saved \in [Byte -> [Counter -> Nat]]
    /\ counted \in [Byte -> [Counter -> Nat]]
    /\ marker_logged \in BOOLEAN
    /\ range_logged \in BOOLEAN
    /\ approx_log \in {"none", "complete", "stale"}
    /\ user \in [Cores -> [step : {"idle", "upsave", "reset"}, bytes : SUBSET Byte]]
    /\ accesses \in 0..MaxAccesses

Init ==
    /\ InitTable
    /\ poten = [b \in Byte |-> NoCounts]
    /\ saved = [b \in Byte |-> NoCounts]
    /\ counted = [b \in Byte |-> NoCounts]
    /\ marker_logged = FALSE
    /\ range_logged = FALSE
    /\ approx_log = "none"
    /\ user = [c \in Cores |-> Idle]
    /\ accesses = 0
-----------------------------------------------------------------------------
(* The magic commands.                                                     *)

(* Markers with code 7 and SIM_CMD_ADD_APPROX_ADDRS, byte by byte.  The    *)
(* set number of a byte is always 0 and is left out.                       *)
AddApprox(b) ==
    /\ add_approx(b)
    /\ UNCHANGED <<cntVars, logVars, user, accesses>>

(* appvar::upsave                                                          *)
MaxOf(p, s) == [k \in Counter |-> IF p[k] < s[k] THEN s[k] ELSE p[k]]

(* Mutant: saving adds up the periods instead of taking the maximum.       *)
Upsaved_Adds(B) ==
    [b \in Byte |-> IF b \in B \cap approx_vars
                    THEN [k \in Counter |-> poten[b][k] + saved[b][k]] ELSE saved[b]]

(* Mutant: the loop over the bytes stops one short.                        *)
Upsaved_Short(B) ==
    [b \in Byte |-> IF b \in B \cap approx_vars /\ b + 1 \in B
                    THEN MaxOf(poten[b], saved[b]) ELSE saved[b]]

Upsaved(B) == [b \in Byte |-> IF b \in B \cap approx_vars
                              THEN MaxOf(poten[b], saved[b]) ELSE saved[b]]

(* The record of a deleted byte is gone; the model writes zeros.           *)
Forget(f, b) == [f EXCEPT ![b] = NoCounts]

(* appvar::print of every byte with the saved counts s, of core 0 only:    *)
(* the log is stale if a count of the period under way exceeds the one     *)
(* printed.                                                                *)
Printed == {L1read(0), L1write(0), L2read, L2write, Additions} \cap Counter

LogOf(s) ==
    IF \A b \in approx_vars : \A k \in Printed : poten[b][k] <= s[b][k]
    THEN "complete" ELSE "stale"

(* Mutant: the first marker logs without saving.                           *)
DelMarker_Unsaved(b) ==
    /\ del_approx(b)
    /\ approx_log' = IF marker_logged THEN approx_log ELSE LogOf(saved)
    /\ marker_logged' = TRUE
    /\ saved' = Forget(saved, b)
    /\ poten' = Forget(poten, b)
    /\ counted' = Forget(counted, b)
    /\ UNCHANGED <<range_logged, user, accesses>>

(* Markers with code 6: the first one saves and logs every byte.           *)
DelMarker(b) ==
    LET s == IF marker_logged THEN saved ELSE Upsaved(Byte)
    IN  /\ del_approx(b)
        /\ approx_log' = IF marker_logged THEN approx_log ELSE LogOf(s)
        /\ marker_logged' = TRUE
        /\ saved' = Forget(s, b)
        /\ poten' = Forget(poten, b)
        /\ counted' = Forget(counted, b)
        /\ UNCHANGED <<range_logged, user, accesses>>

(* SIM_CMD_DEL_APPROX_ADDRS, byte by byte: the first one logs the counts   *)
(* as they were last saved.                                                *)
DelRange(b) ==
    /\ del_approx(b)
    /\ approx_log' = IF range_logged THEN approx_log ELSE LogOf(saved)
    /\ range_logged' = TRUE
    /\ saved' = Forget(saved, b)
    /\ poten' = Forget(poten, b)
    /\ counted' = Forget(counted, b)
    /\ UNCHANGED <<marker_logged, user, accesses>>

(* Counter k of the bytes in B goes up by one.                             *)
Incremented(f, B, k) ==
    [b \in Byte |-> IF b \in B /\ k \in Counter THEN [f[b] EXCEPT ![k] = @ + 1] ELSE f[b]]

Counts(B, k) ==
    /\ accesses < MaxAccesses
    /\ accesses' = accesses + 1
    /\ poten' = Incremented(poten, B, k)
    /\ counted' = Incremented(counted, B, k)

(* SIM_CMD_ADD_CNT and SIM_CMD_MUL_CNT                                     *)
AddCnt(b) ==
    /\ b \in approx_vars
    /\ Counts({b}, Additions)
    /\ UNCHANGED <<tableVars, saved, logVars, user>>
-----------------------------------------------------------------------------
(* The memory system.                                                      *)

(* add_read_acc, add_write_acc: a block's length of bytes from the address *)
(* on, up to the first that is not approximate.                            *)
ScannedFrom(address) ==
    IF OutsideWindow(address) THEN {}
    ELSE {b \in BytesOf(address) : \A x \in address..b : x \in approx_vars}

(* coreInitiateMemoryAccess for a read of n bytes: the access in the       *)
(* first-level cache counts; the save and the reset follow.                *)
Read(c, address, n) ==
    /\ user[c].step = "idle"
    /\ Counts(ScannedFrom(address), L1read(c))
    /\ user' = [user EXCEPT ![c] = [step |-> "upsave", bytes |-> address..(address + n - 1)]]
    /\ UNCHANGED <<tableVars, saved, logVars>>

Write(c, address) ==
    /\ user[c].step = "idle"
    /\ Counts(ScannedFrom(address), L1write(c))
    /\ UNCHANGED <<tableVars, saved, logVars, user>>

(* Fills, write-backs and snoops by whichever thread: reads of whole       *)
(* blocks at both levels, writes at the second.  Two threads that          *)
(* increment a counter at the same time can lose one increment.            *)
Traffic(k, address) ==
    /\ \/ Counts(ScannedFrom(address), k)
       \/ /\ ScannedFrom(address) # {}
          /\ Counts({}, k)
    /\ UNCHANGED <<tableVars, saved, logVars, user>>

upsave_cnters(c) ==
    /\ user[c].step = "upsave"
    /\ saved' = Upsaved(user[c].bytes)
    /\ user' = [user EXCEPT ![c].step = "reset"]
    /\ UNCHANGED <<tableVars, poten, counted, logVars, accesses>>

(* Mutant: additions are reset like the other counts.                      *)
ResetCounts_All(p, lost) == [k \in Counter |-> IF k \in lost THEN p[k] ELSE 0]

(* appvar::reset spares the counts of additions.  A counter that another   *)
(* thread is incrementing can keep its value.                              *)
ResetCounts(p, lost) == [k \in Counter |-> IF k \in lost \cup {Additions} THEN p[k] ELSE 0]

reset_cnters(c) ==
    /\ user[c].step = "reset"
    /\ \E k \in Counter \ {L1write(c)} : \E lost \in {{}, {k}} :
          poten' = [b \in Byte |-> IF b \in user[c].bytes \cap approx_vars
                                  THEN ResetCounts(poten[b], lost) ELSE poten[b]]
    /\ user' = [user EXCEPT ![c] = Idle]
    /\ UNCHANGED <<tableVars, saved, counted, logVars, accesses>>

Next ==
    \/ \E b \in Byte : AddApprox(b) \/ DelMarker(b) \/ DelRange(b) \/ AddCnt(b)
    \/ \E c \in Cores, a \in BlockAddress, off \in 0..(BlockSize - 1) :
          /\ a + off \in Byte
          /\ \/ Write(c, a + off)
             \/ \E n \in 1..(BlockSize - off) :
                   a + off + n - 1 \in Byte /\ Read(c, a + off, n)
    \/ \E a \in BlockAddress, k \in Counter \ {Additions} :
          /\ k \notin {L1write(c) : c \in Cores}
          /\ Traffic(k, a)
    \/ \E c \in Cores : upsave_cnters(c) \/ reset_cnters(c)

Spec == Init /\ [][Next]_vars
-----------------------------------------------------------------------------
(* When a core resets the bytes it read, its own writes to them have been  *)
(* saved: whatever other threads count, save, reset, register or delete    *)
(* between the two calls of coreInitiateMemoryAccess, only counts of other *)
(* threads can be lost there.                                              *)
OwnWritesSaved ==
    \A c \in Cores \cap 0..3 : user[c].step = "reset" =>
        \A b \in user[c].bytes \cap approx_vars :
            poten[b][L1write(c)] <= saved[b][L1write(c)]

(* No access is reported twice: a saved count is at most the number of     *)
(* accesses since the byte was registered, although several cores save the *)
(* same potential counts (appvar::upsave takes the maximum).               *)
NeverOvercounted ==
    \A b \in approx_vars : \A k \in Counter : saved[b][k] <= counted[b][k]

(* No save or reset loses an addition the application reported ("add_cnt   *)
(* is directly added by source code", magic_server.cc:273).                *)
AdditionsKept ==
    \A b \in approx_vars : poten[b][Additions] = counted[b][Additions]

(* As long as no range deletion has written approx.log, it holds at least  *)
(* the counts of the period under way when it was written ("some approx    *)
(* entries are not upsaved even till the end of execution",                *)
(* magic_server.cc:457, is why the first marker saves them).  A range      *)
(* deletion logs without saving.                                           *)
MarkerLogComplete == ~range_logged => approx_log # "stale"
=============================================================================
