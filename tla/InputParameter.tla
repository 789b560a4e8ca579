--------------------------- MODULE InputParameter ---------------------------
(***************************************************************************)
(* The record interface_ip (class InputParameter of CACTI) through which   *)
(* McPAT asks for a memory array.  One record is copied from object to     *)
(* object and overwritten field by field before every new ArrayST, so a    *)
(* field that is not assigned keeps the value of an earlier array.         *)
(*                                                                         *)
(* Sizes are abstracted to their origin: line_sz, cache_sz and tag_w hold  *)
(* the name of the array they were last computed for.  Port counts and the *)
(* associativity stay numbers, since error_checking compares them with 0.  *)
(***************************************************************************)
EXTENDS Integers

\* The record ip after an assignment of the fields in DOMAIN set.
set ++ ip == [f \in DOMAIN set \cup DOMAIN ip |->
                IF f \in DOMAIN set THEN set[f] ELSE ip[f]]
\* The record or map with one field.
Entry(key, value) == [k \in {key} |-> value]

\* The three device types, each with a supply voltage of its own.
Devices == {"hp", "lop", "lstp"}

Cache == [is_cache |-> TRUE, pure_cam |-> FALSE, pure_ram |-> FALSE]
Ram   == [is_cache |-> FALSE, pure_cam |-> FALSE, pure_ram |-> TRUE]

Geometry(a)  == [line_sz |-> a, cache_sz |-> a]
Tag(a)       == [tag_w |-> a]
Assoc(n)     == [assoc |-> n]
Search(n)    == [num_search_ports |-> n]
Ports(rw, rd, wr) ==
    [num_rw_ports |-> rw, num_rd_ports |-> rd, num_wr_ports |-> wr]
Approx(mode) == [approx_mode |-> mode, force_cache_config |-> mode = 1]
\* Where the supply voltages come from: the ITRS tables, the vdd of the
\* core or cache itself, approxVdd.
AllVdd(src)  == [hp_Vdd |-> src, lop_Vdd |-> src, lstp_Vdd |-> src]

\* Processor::set_proc_param, the part that fills interface_ip.  It does not
\* assign approx_mode, whose value is whatever the memory held: approx0.
proc_interface_ip(approx0) ==
    Cache ++ Geometry("proc") ++ Tag("proc") ++ Assoc(1) ++ Search(1)
          ++ Ports(1, 0, 0) ++ AllVdd("itrs")
          ++ [approx_mode |-> approx0, force_cache_config |-> FALSE]

\* The voltage an array of the given device type is built for.
Supply(ip, device) ==
    [hp |-> ip.hp_Vdd, lop |-> ip.lop_Vdd, lstp |-> ip.lstp_Vdd][device]

fully_assoc(ip) == ip.is_cache /\ ip.assoc = 0

\* error_checking, the tests on ports.
PortsOk(ip) == ip.num_rw_ports + ip.num_rd_ports + ip.num_wr_ports >= 1

\* error_checking, the tests that tie the kind of array to its
\* associativity and search ports.
ShapeOk(ip) ==
    /\ ip.pure_cam => ip.assoc = 0
    /\ ip.assoc = 0 => ip.pure_cam \/ ip.is_cache
    /\ fully_assoc(ip) \/ ip.pure_cam => ip.num_search_ports >= 1

\* The other tests of error_checking compare sizes, banks and technology
\* numbers, which are left out here.
error_checking(ip) == PortsOk(ip) /\ ShapeOk(ip)

\* What error_checking leaves in the record of an accepted array: a fully
\* associative array without read ports reads through its search ports,
\* every other array loses its search ports, and approx_mode is 0 unless 1.
checked(ip) ==
    LET cam == fully_assoc(ip) \/ ip.pure_cam
    IN  [num_rd_ports |-> IF cam /\ ip.num_rw_ports = 0 /\ ip.num_rd_ports = 0
                          THEN ip.num_search_ports ELSE ip.num_rd_ports,
         num_search_ports |-> IF cam THEN ip.num_search_ports ELSE 0,
         approx_mode |-> IF ip.approx_mode = 1 THEN 1 ELSE 0] ++ ip
=============================================================================
