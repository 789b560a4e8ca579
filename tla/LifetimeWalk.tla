---------------------------- MODULE LifetimeWalk ----------------------------
(***************************************************************************)
(* The loop with which MagicServer::update_liftime visits the approximate  *)
(* bytes of a block: an iterator into the ordered set approx_vars is       *)
(* looked up again for each offset until a byte is found, and incremented  *)
(* from there on.  One action is one pass through the loop.                *)
(*                                                                         *)
(* The loop starts from any table, and any window around it that earlier   *)
(* registrations can have left, with a block address as the DRAM           *)
(* controller passes it.                                                   *)
(***************************************************************************)
EXTENDS ApproxVars

VARIABLES
    address,   \* argument: the block that is accessed
    i,         \* the loop counter
    it,        \* the byte the iterator is at, or End
    realend,   \* a byte of the block has been visited
    settled,   \* the bytes whose life time has been updated
    pc         \* "start", "loop" or "done"

walkVars == <<tableVars, address, i, it, realend, settled, pc>>

End == Above

WalkTypeOK ==
    /\ TableTypeOK
    /\ address \in BlockAddress
    /\ i \in 0..(BlockSize + 1)
    /\ it \in 0..End
    /\ realend \in BOOLEAN
    /\ settled \subseteq Byte
    /\ pc \in {"start", "loop", "done"}

InitWalk ==
    /\ approx_vars \in SUBSET Byte
    /\ start_addr \in 0..Above
    /\ end_addr \in Byte
    /\ WindowCovers
    /\ address \in BlockAddress
    /\ i = 0
    /\ it = End
    /\ realend = FALSE
    /\ settled = {}
    /\ pc = "start"

(* approx_vars.find and the increment of an iterator.                      *)
find(b) == IF b \in approx_vars THEN b ELSE End

After(b) ==
    LET later == {v \in approx_vars : v > b}
    IN  IF later = {} THEN End
        ELSE CHOOSE v \in later : \A w \in later : v <= w

Enter ==
    /\ pc = "start"
    /\ IF OutsideWindow(address)
       THEN pc' = "done" /\ it' = it
       ELSE pc' = "loop" /\ it' = find(address)
    /\ UNCHANGED <<tableVars, address, i, realend, settled>>

LookAgain ==
    /\ pc = "loop" /\ i <= BlockSize
    /\ it = End /\ ~realend
    /\ it' = find(address + i)
    /\ i' = i + 1
    /\ UNCHANGED <<tableVars, address, realend, settled, pc>>

Visit ==
    /\ pc = "loop" /\ i <= BlockSize
    /\ it # End
    /\ IF it \in BytesOf(address)
       THEN realend' = TRUE /\ settled' = settled \cup {it}
       ELSE UNCHANGED <<realend, settled>>
    /\ it' = After(it)
    /\ i' = i + 1
    /\ UNCHANGED <<tableVars, address, pc>>

(* Mutant: the loop stops one pass early (i < block_size).                 *)
Return_ShortLoop ==
    /\ pc = "loop"
    /\ i >= BlockSize \/ (it = End /\ realend)
    /\ pc' = "done"
    /\ UNCHANGED <<tableVars, address, i, it, realend, settled>>

(* The iterator has run off the table, or the loop is through.             *)
Return ==
    /\ pc = "loop"
    /\ i > BlockSize \/ (it = End /\ realend)
    /\ pc' = "done"
    /\ UNCHANGED <<tableVars, address, i, it, realend, settled>>

NextWalk == Enter \/ LookAgain \/ Visit \/ Return

WalkSpec == InitWalk /\ [][NextWalk]_walkVars
-----------------------------------------------------------------------------
(* When update_liftime returns it has updated exactly the approximate      *)
(* bytes of the block: the window rejects no block that has one, and the   *)
(* passes left when the iterator is first found are enough for the rest.   *)
BlockSettled ==
    pc = "done" => settled = BytesOf(address) \cap approx_vars
=============================================================================
