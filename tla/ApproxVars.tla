----------------------------- MODULE ApproxVars -----------------------------
(***************************************************************************)
(* The table of approximate bytes of MagicServer and the address window    *)
(* [start_addr, end_addr] that its callers use to skip accesses far from   *)
(* every approximate byte.  Modules that keep data per approximate byte    *)
(* extend this one.                                                        *)
(*                                                                         *)
(* Addresses are user-space byte addresses, far from 2^64: the sums of the *)
(* code do not wrap.  Only the initial start_addr, -1 as a UInt64, lies    *)
(* above every address.  A command that registers or deletes a range is a  *)
(* sequence of add_approx or del_approx calls, one per byte; the memory    *)
(* threads take no lock of the magic server and can run between them.      *)
(***************************************************************************)
EXTENDS Integers

CONSTANTS
    MaxAddr,     \* the highest byte address
    BlockSize    \* bytes in a cache block

ASSUME AddrAssumption == MaxAddr \in Nat /\ BlockSize \in Nat \ {0}

VARIABLES
    approx_vars, \* the registered bytes
    start_addr,  \* lowest byte ever registered
    end_addr     \* highest byte ever registered

tableVars == <<approx_vars, start_addr, end_addr>>

Byte  == 0..MaxAddr
Above == MaxAddr + 1

BytesOf(address) == address..(address + BlockSize - 1)

BlockAddress == {a \in Byte : a % BlockSize = 0}

InitTable ==
    /\ approx_vars = {}
    /\ start_addr = Above
    /\ end_addr = 0

(* Mutant: widening only one end of the window at a time.                  *)
add_approx_OneEnd(b) ==
    /\ approx_vars' = approx_vars \cup {b}
    /\ end_addr' = IF b > end_addr THEN b ELSE end_addr
    /\ start_addr' = IF b < start_addr /\ b <= end_addr THEN b ELSE start_addr

(* The window moves only when the insertion adds a new byte.               *)
add_approx(b) ==
    IF b \in approx_vars THEN UNCHANGED tableVars
    ELSE /\ approx_vars' = approx_vars \cup {b}
         /\ end_addr' = IF b > end_addr THEN b ELSE end_addr
         /\ start_addr' = IF b < start_addr THEN b ELSE start_addr

(* The window is not narrowed.                                             *)
del_approx(b) ==
    /\ approx_vars' = approx_vars \ {b}
    /\ UNCHANGED <<start_addr, end_addr>>

is_block_approx(address) == BytesOf(address) \cap approx_vars # {}

(* The test that add_read_acc, add_write_acc and update_liftime begin with.*)
OutsideWindow(address) ==
    address + BlockSize < start_addr \/ address > end_addr

(* The window covers every registered byte, so that an access it rejects   *)
(* touches none, whatever was registered and deleted before                *)
(* (MagicServer::add_approx, del_approx).                                  *)
WindowCovers == \A b \in approx_vars : start_addr <= b /\ b <= end_addr

TableTypeOK ==
    /\ approx_vars \subseteq Byte
    /\ start_addr \in 0..Above
    /\ end_addr \in Byte
=============================================================================
