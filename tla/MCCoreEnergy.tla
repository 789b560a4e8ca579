---------------------------- MODULE MCCoreEnergy ----------------------------
(* Configurations for TLC: every choice a constructor of core.cc or          *)
(* sharedcache.cc branches on.  Choices that different units branch on are   *)
(* varied together, and choices a core type ignores are fixed.               *)
EXTENDS CoreEnergy

Base ==
    [root |-> "Core", dir_ty |-> "NonDir", Embedded |-> FALSE,
     int_instructions |-> 2, appadd_instructions |-> 1, OOO |-> TRUE, PRF |-> TRUE, RAM |-> TRUE,
     threads |-> 1, predictionW |-> 1, fp_issueW |-> 1,
     fpus |-> 1, muls |-> 1, ROB |-> 1, LoadQ |-> 1, write_back |-> TRUE,
     windows |-> FALSE, mem_ports |-> 1, Private_L2 |-> TRUE, vdd |-> TRUE,
     device |-> "hp", fetch_ports |-> 1, peak_issueW |-> 1, issueW |-> 1,
     decodeW |-> 1, commitW |-> 1]

OutOfOrder ==
    {[Base EXCEPT !.PRF = prf, !.RAM = ram, !.threads = 1 + t,
                  !.predictionW = 1 - r, !.fp_issueW = fw, !.fpus = f,
                  !.muls = f, !.ROB = r, !.LoadQ = t, !.Private_L2 = (t = 0),
                  !.dir_ty = IF f = 0 THEN "SBT" ELSE "NonDir",
                  !.appadd_instructions = t, !.int_instructions = t + fw,
                  !.Embedded = (r = 0)] :
       prf, ram \in BOOLEAN, t, fw, f, r \in 0 .. 1}

InOrder ==
    {[Base EXCEPT !.OOO = FALSE, !.threads = 1 + t, !.predictionW = f,
                  !.fpus = f, !.muls = t, !.windows = w, !.write_back = w,
                  !.Private_L2 = v, !.vdd = v, !.device = d] :
       w, v \in BOOLEAN, t, f \in 0 .. 1, d \in Devices}

Shared ==
    {[Base EXCEPT !.root = r, !.dir_ty = d[1], !.device = d[2], !.vdd = v] :
       r \in {"L2", "L3"}, d \in {"SBT", "NonDir"} \X Devices, v \in BOOLEAN}
      \cup
    {[Base EXCEPT !.root = r, !.dir_ty = d[1], !.device = d[2], !.vdd = v] :
       r \in {"L1Directory", "L2Directory"},
       d \in {"ST", "NonDir"} \X Devices, v \in BOOLEAN}

\* One port count or width at its boundary, for every kind of renaming and of
\* in-order core.
Narrow ==
    UNION {{[b EXCEPT !.fetch_ports = 0], [b EXCEPT !.mem_ports = 0],
            [b EXCEPT !.peak_issueW = 2], [b EXCEPT !.issueW = 0],
            [b EXCEPT !.fp_issueW = 0], [b EXCEPT !.decodeW = 0],
            [b EXCEPT !.commitW = 0], [b EXCEPT !.decodeW = 0, !.commitW = 0]} :
             b \in {[Base EXCEPT !.PRF = prf, !.RAM = ram] : prf, ram \in BOOLEAN}
                     \cup {[Base EXCEPT !.OOO = FALSE, !.threads = t] : t \in 1 .. 2}}

MCConfigs == Narrow \cup OutOfOrder \cup InOrder \cup Shared
=============================================================================
