----------------------------- MODULE CoreArrays -----------------------------
(***************************************************************************)
(* Construction of a McPAT core or shared cache: the constructors of       *)
(* core.cc and sharedcache.cc as one sequence of statements per            *)
(* configuration.  Every unit works on its own copy of its creator's       *)
(* interface_ip; a statement assigns some of its fields, then new ArrayST  *)
(* takes the record as it is.  A record that error_checking refuses ends   *)
(* the program with exit(0) in the middle of the construction.             *)
(***************************************************************************)
EXTENDS InputParameter, Sequences, Bags, FiniteSets

CONSTANTS
    Configs,   \* the XML configurations, records as in ConfigType
    ApproxInit \* what the unassigned approx_mode of the processor may hold

VARIABLES
    cfg,    \* the XML configuration
    pc,     \* next statement of Program(cfg)
    stack,  \* the running constructors: unit, its interface_ip and its area
    keep,   \* keep_hp_Vdd ... of the constructor that builds a cache
    built,  \* part |-> what it was built with
    area,   \* area of every finished unit, as a bag of the parts it counts
    state   \* "running", "done" or "exit"

vars == <<cfg, pc, stack, keep, built, area, state>>

\* The ports and widths are the XML's: number_instruction_fetch_ports,
\* memory_ports, peak_issue_width (peak_commitW too), issue_width,
\* fp_issue_width (fp_decodeW too), decode_width and commit_width, far below
\* 2^32, where the sum of an array's ports would wrap.  The sizes left out are
\* ones that error_checking accepts; a line of IB holds peak_issue_width
\* instructions, so this width is not 0.
ConfigType ==
    [root : {"Core", "L2", "L3", "L1Directory", "L2Directory"},
     dir_ty : {"ST", "SBT", "NonDir"}, Embedded : BOOLEAN,
     int_instructions : Nat, appadd_instructions : Nat,
     OOO : BOOLEAN, PRF : BOOLEAN, RAM : BOOLEAN, threads : Nat,
     predictionW : Nat, fp_issueW : Nat, fpus : Nat,
     muls : Nat, ROB : Nat, LoadQ : Nat, write_back : BOOLEAN,
     windows : BOOLEAN, mem_ports : Nat, Private_L2 : BOOLEAN,
     vdd : BOOLEAN, device : Devices,
     fetch_ports : Nat, peak_issueW : Nat \ {0}, issueW : Nat,
     decodeW : Nat, commitW : Nat]

ASSUME ConfigsAssumption == Configs \subseteq ConfigType
ASSUME ApproxInitAssumption == ApproxInit \subseteq Nat

-----------------------------------------------------------------------------
(* The kinds of statement. *)

\* interface_ip.x = ...; then part = new ArrayST(&interface_ip, ...) and, when
\* counted, area.set_area(area + part's area).
Array(part, counted, set) ==
    [op |-> "array", part |-> part, counted |-> counted, set |-> set]
\* A part whose constructor calls init_interface on a copy of interface_ip.
Logic(part, counted) == [op |-> "logic", part |-> part, counted |-> counted]
\* new interconnect(..., sum of the heights of the named parts, ...).
Wire(part, counted, heights) ==
    [op |-> "wire", part |-> part, counted |-> counted, heights |-> heights]
Assign(set) == <<[op |-> "assign", set |-> set]>>
Keep == <<[op |-> "keep"]>>
Restore == <<[op |-> "restore"]>>
\* new Unit(..., &interface_ip, ...); counted when the creator adds its area.
Unit(unit, counted, body) ==
    <<[op |-> "enter", unit |-> unit]>> \o body
      \o <<[op |-> "leave", unit |-> unit, counted |-> counted]>>
Only(cond, body) == IF cond THEN body ELSE <<>>

-----------------------------------------------------------------------------
(* InstFetchU::InstFetchU and BranchPredictor::BranchPredictor. *)

\* A fully associative buffer of a first level cache.
BufferFields(part, ports) ==
    Geometry(part) ++ Tag(part) ++ Assoc(0) ++ Ports(ports, 0, 0)
Buffer(part, ports) == Array(part, TRUE, BufferFields(part, ports))

icache(c) ==
    Array("icache.caches", TRUE,
          Geometry("icache.caches") ++ Tag("icache.caches") ++ Assoc(8)
            ++ Cache ++ Ports(c.fetch_ports, 0, 0))

icache_missb(c) ==
    Array("icache.missb", TRUE,
          BufferFields("icache.missb", c.fetch_ports) ++ Search(c.fetch_ports))

icache_ifb(c) == Buffer("icache.ifb", c.fetch_ports)

icache_prefetchb(c) == Buffer("icache.prefetchb", c.fetch_ports)

IB(c) == Array("IB", TRUE, Ram ++ Geometry("IB") ++ Assoc(1)
                             ++ Ports(c.fetch_ports, 0, 0))

BTB(c) == Array("BTB", TRUE,
                Cache ++ Geometry("BTB") ++ Tag("BTB") ++ Assoc(4)
                  ++ Ports(1, c.predictionW, c.predictionW))

\* One table of the predictor: tagged with the thread when multithreaded.
Table(part, c) ==
    Array(part, TRUE, Geometry(part) ++ Ports(0, c.predictionW, c.predictionW))

\* Mutant: the size of the return address stack is not set.
RAS_Reused(c) == Array("RAS", TRUE, Ram ++ Assoc(1)
                               ++ Ports(0, c.predictionW, c.predictionW))

RAS(c) == Array("RAS", TRUE, Ram ++ Geometry("RAS") ++ Assoc(1)
                               ++ Ports(0, c.predictionW, c.predictionW))

BranchPredictor(c) ==
    Assign(Assoc(1) ++ IF c.threads > 1 THEN Cache ++ Tag("thread") ELSE Ram)
      \o <<Table("globalBPT", c), Table("L1_localBPT", c),
           Table("L2_localBPT", c), Table("chooser", c), RAS(c)>>

InstFetchU(c) ==
    <<icache(c), icache_missb(c), icache_ifb(c), icache_prefetchb(c), IB(c)>>
      \o Only(c.predictionW > 0,
              <<BTB(c)>> \o Unit("BPT", TRUE, BranchPredictor(c)))
      \o <<Logic("ID_inst", TRUE), Logic("ID_operand", TRUE),
           Logic("ID_misc", TRUE)>>

-----------------------------------------------------------------------------
(* SchedulerU::SchedulerU. *)

Window(part, width) ==
    Array(part, TRUE, Cache ++ Geometry(part) ++ Tag(part) ++ Assoc(0)
                        ++ Ports(0, width, width) ++ Search(width))

InstFetchQueue(c) == Window("int_inst_window", c.peak_issueW)

int_inst_window(c) == Window("int_inst_window", c.peak_issueW)

fp_inst_window(c) == Window("fp_inst_window", c.fp_issueW)

ReorderBuffer(c) ==
    Array("ROB", TRUE, Ram ++ Geometry("ROB") ++ Assoc(1)
                         ++ Ports(0, c.peak_issueW, c.peak_issueW)
                         ++ Search(0))

SchedulerU(c) ==
    Only(~c.OOO /\ c.threads > 1,
         <<InstFetchQueue(c)>> \o Assign(Assoc(1))
           \o <<Logic("instruction_selection", FALSE)>>)
      \o Only(c.OOO,
              <<int_inst_window(c), fp_inst_window(c)>>
                \o Only(c.ROB > 0, <<ReorderBuffer(c)>>)
                \o <<Logic("instruction_selection", FALSE)>>)

-----------------------------------------------------------------------------
(* LoadStoreU::LoadStoreU and MemManU::MemManU. *)

\* Mutant: the approximate mode stays on after the twin.
dcache_StaysApprox(c) ==
    Assign(Search(c.mem_ports) ++ Cache) \o Keep
      \o <<Array("dcache.caches", TRUE,
                 Geometry("dcache.caches") ++ Tag("dcache.caches") ++ Assoc(8)
                   ++ Ports(c.mem_ports, 0, 0) ++ Approx(1)),
           Array("dcache.apcaches", FALSE, [hp_Vdd |-> "approx"])>>
      \o Restore

\* Mutant: the twin's area is added as well.
dcache_TwinCounted(c) ==
    Assign(Search(c.mem_ports) ++ Cache) \o Keep
      \o <<Array("dcache.caches", TRUE,
                 Geometry("dcache.caches") ++ Tag("dcache.caches") ++ Assoc(8)
                   ++ Ports(c.mem_ports, 0, 0) ++ Approx(1)),
           Array("dcache.apcaches", TRUE, [hp_Vdd |-> "approx"])>>
      \o Assign(Approx(0)) \o Restore

\* The data cache and its twin at approxVdd; only the HP voltage is lowered.
dcache(c) ==
    Assign(Search(c.mem_ports) ++ Cache) \o Keep
      \o <<Array("dcache.caches", TRUE,
                 Geometry("dcache.caches") ++ Tag("dcache.caches") ++ Assoc(8)
                   ++ Ports(c.mem_ports, 0, 0) ++ Approx(1)),
           Array("dcache.apcaches", FALSE, [hp_Vdd |-> "approx"])>>
      \o Assign(Approx(0)) \o Restore

dcache_missb(c) == Buffer("dcache.missb", c.mem_ports)

dcache_ifb(c) == Buffer("dcache.ifb", c.mem_ports)

dcache_prefetchb(c) == Buffer("dcache.prefetchb", c.mem_ports)

dcache_wbb(c) == Buffer("dcache.wbb", c.mem_ports)

\* LSQ and LoadQ: searched by every memory port.
QueueFields(part, c) ==
    Geometry(part) ++ Tag(part) ++ Assoc(0)
      ++ Ports(0, c.mem_ports, c.mem_ports) ++ Search(c.mem_ports)

LSQ(c) == Array("LSQ", TRUE, QueueFields("LSQ", c) ++ [is_cache |-> TRUE])

LoadQ(c) == Array("LoadQ", TRUE, QueueFields("LoadQ", c))

LoadStoreU(c) ==
    dcache(c)
      \o <<dcache_missb(c), dcache_ifb(c), dcache_prefetchb(c)>>
      \o Only(c.write_back, <<dcache_wbb(c)>>)
      \o <<LSQ(c)>>
      \o Only(c.OOO /\ c.LoadQ > 0, <<LoadQ(c)>>)

Tlb(part, ports) ==
    Array(part, TRUE,
          Cache ++ Geometry(part) ++ Tag(part) ++ Assoc(0) ++ Ports(0, 0, ports)
            ++ Search(ports))

MemManU(c) == <<Tlb("itlb", c.fetch_ports), Tlb("dtlb", c.mem_ports)>>

-----------------------------------------------------------------------------
(* RegFU::RegFU, EXECU::EXECU. *)

RegFile(part, width) ==
    Array(part, TRUE, Ram ++ Geometry(part) ++ Assoc(1)
                        ++ Ports(1, 2 * width, width))

RFWIN == Array("RFWIN", TRUE, Ram ++ Geometry("RFWIN") ++ Assoc(1)
                                ++ Ports(1, 0, 0))

RegFU(c) ==
    <<RegFile("IRF", c.peak_issueW), RegFile("FRF", c.issueW)>>
      \o Only(c.windows /\ ~c.OOO, <<RFWIN>>)

\* Mutant: the wires of an in-order core pass the floating point window.
InorderBypass_FpWindow(c) ==
    <<Wire("int_bypass", TRUE, {"IRF", "exeu", "LSQ"}),
      Wire("intTagBypass", TRUE, {"IRF", "exeu", "LSQ", "fp_inst_window"})>>

\* The bypass wires of an in-order core.
InorderBypass(c) ==
    <<Wire("int_bypass", TRUE, {"IRF", "exeu", "LSQ"}),
      Wire("intTagBypass", TRUE, {"IRF", "exeu", "LSQ", "int_inst_window"})>>
      \o Only(c.muls > 0,
           <<Wire("int_mul_bypass", TRUE, {"FRF", "exeu", "mul", "LSQ"}),
             Wire("intTag_mul_Bypass", TRUE,
                  {"FRF", "exeu", "mul", "LSQ", "int_inst_window"})>>)
      \o Only(c.fpus > 0,
           <<Wire("fp_bypass", TRUE, {"FRF", "fp_u"}),
             Wire("fpTagBypass", TRUE,
                  {"FRF", "fp_u", "LSQ", "int_inst_window"})>>)

\* Physical register file: data wires end at the register file, tag wires
\* also pass the windows and the ROB; intTagBypass adds no area.
PhysicalRegFileBypass(c) ==
    <<Wire("int_bypass", TRUE, {"IRF", "exeu", "LSQ"}),
      Wire("intTagBypass", FALSE,
           {"IRF", "exeu", "LSQ", "int_inst_window", "ROB"})>>
      \o Only(c.muls > 0,
           <<Wire("int_mul_bypass", TRUE, {"IRF", "exeu", "mul", "LSQ"}),
             Wire("intTag_mul_Bypass", TRUE,
                  {"IRF", "exeu", "mul", "LSQ", "int_inst_window", "ROB"})>>)
      \o Only(c.fpus > 0,
           <<Wire("fp_bypass", TRUE, {"FRF", "fp_u"}),
             Wire("fpTagBypass", TRUE,
                  {"FRF", "fp_u", "LSQ", "fp_inst_window", "ROB"})>>)

\* Reservation stations: data and tags both pass every window and the ROB.
ReservationStationBypass(c) ==
    LET int == {"IRF", "exeu", "LSQ", "int_inst_window", "ROB"}
        fp  == {"FRF", "fp_u", "LSQ", "fp_inst_window", "ROB"}
    IN  <<Wire("int_bypass", TRUE, int), Wire("intTagBypass", TRUE, int)>>
          \o Only(c.muls > 0,
               <<Wire("int_mul_bypass", TRUE, int \cup {"mul"}),
                 Wire("intTag_mul_Bypass", TRUE, int \cup {"mul"})>>)
          \o Only(c.fpus > 0,
               <<Wire("fp_bypass", TRUE, fp), Wire("fpTagBypass", TRUE, fp)>>)

EXECU(c) ==
    Unit("rfu", TRUE, RegFU(c)) \o Unit("scheu", TRUE, SchedulerU(c))
      \o <<Logic("exeu", TRUE)>>
      \o Only(c.fpus > 0, <<Logic("fp_u", TRUE)>>)
      \o Only(c.muls > 0, <<Logic("mul", TRUE)>>)
      \o IF ~c.OOO THEN InorderBypass(c)
         ELSE IF c.PRF THEN PhysicalRegFileBypass(c)
         ELSE ReservationStationBypass(c)

-----------------------------------------------------------------------------
(* RENAMINGU::RENAMINGU. *)

RamTable(part, rw, rd, wr) ==
    Array(part, TRUE, Ram ++ Geometry(part) ++ Assoc(1) ++ Ports(rw, rd, wr))

CamTable(part, rd, wr, search) ==
    Array(part, TRUE,
          Cache ++ Geometry(part) ++ Tag(part) ++ Assoc(0) ++ Ports(1, rd, wr)
            ++ Search(search))

RamFrontRAT(c) == <<RamTable("iFRAT", 1, 2 * c.decodeW, c.decodeW),
                    RamTable("fFRAT", 1, 2 * c.fp_issueW, c.fp_issueW)>>

CamFrontRAT(c) == <<CamTable("iFRAT", c.decodeW, c.decodeW, 2 * c.decodeW),
                    CamTable("fFRAT", c.fp_issueW, c.fp_issueW,
                             2 * c.fp_issueW)>>

\* Reservation stations, RAM based: the tag width of the floating point table
\* is computed but not stored, so fFRAT keeps the tag_w of iFRAT.
StationRamFrontRAT(c) ==
    <<CamTable("iFRAT", 2 * c.decodeW, c.decodeW, c.commitW),
      Array("fFRAT", TRUE,
            Cache ++ Geometry("fFRAT") ++ Assoc(0)
              ++ Ports(1, 2 * c.fp_issueW, c.fp_issueW)
              ++ Search(c.fp_issueW))>>

StationCamFrontRAT(c) ==
    <<CamTable("iFRAT", c.decodeW, c.decodeW, 2 * c.decodeW),
      CamTable("fFRAT", c.decodeW, c.fp_issueW, 2 * c.fp_issueW)>>

RetireRATs(c) == <<RamTable("iRRAT", 0, c.commitW, c.commitW),
                   RamTable("fRRAT", 0, c.fp_issueW, c.fp_issueW)>>

\* A free list filled by width - 1 renamed and all committed instructions.
FreeList(part, width, c) == RamTable(part, 1, width, width - 1 + c.commitW)

FreeLists(c) == <<FreeList("ifreeL", c.decodeW, c),
                  FreeList("ffreeL", c.fp_issueW, c)>>

UnifiedFreeList(c) == <<FreeList("ifreeL", c.decodeW, c)>>

dcls == <<Logic("idcl", FALSE), Logic("fdcl", FALSE)>>

RENAMINGU(c) ==
    IF c.PRF
    THEN (IF c.RAM THEN RamFrontRAT(c) ELSE CamFrontRAT(c))
           \o RetireRATs(c) \o FreeLists(c) \o dcls
    ELSE (IF c.RAM THEN StationRamFrontRAT(c) ELSE StationCamFrontRAT(c))
           \o UnifiedFreeList(c) \o dcls

-----------------------------------------------------------------------------
(* SharedCache::SharedCache and Core::Core. *)

\* A sharer tag directory is one fully associative array without buffers.
TagDirectory(c, level) == c.dir_ty = "ST" /\ level \in {"L1Directory", "L2Directory"}

\* Mutant: the voltages are not restored after the twin.
unicache_NotRestored(c, level) ==
    LET approx == level \in {"L2", "L3"}
        dir    == TagDirectory(c, level)
        main   == Geometry("unicache.caches") ++ Tag("unicache.caches")
                    ++ Assoc(IF dir THEN 0 ELSE 8) ++ Cache ++ Ports(1, 0, 0)
                    ++ Search(IF dir THEN 1 ELSE 0)
    IN  <<Array("unicache.caches", TRUE,
                IF approx THEN main ++ Approx(1) ELSE main),
          Array("unicache.apcaches", FALSE,
                IF approx THEN AllVdd("approx") ELSE <<>>)>>
          \o Assign(Approx(0))

\* The array of the cache and its twin: at approxVdd for L2 and L3, at the
\* same voltage as the array itself for a directory.
unicache(c, level) ==
    LET approx == level \in {"L2", "L3"}
        dir    == TagDirectory(c, level)
        main   == Geometry("unicache.caches") ++ Tag("unicache.caches")
                    ++ Assoc(IF dir THEN 0 ELSE 8) ++ Cache ++ Ports(1, 0, 0)
                    ++ Search(IF dir THEN 1 ELSE 0)
    IN  Keep
          \o <<Array("unicache.caches", TRUE,
                     IF approx THEN main ++ Approx(1) ELSE main),
               Array("unicache.apcaches", FALSE,
                     IF approx THEN AllVdd("approx") ELSE <<>>)>>
          \o Assign(Approx(0)) \o Restore

\* Mutant: the miss buffer keeps the search ports of the cache, none.
unicache_missb_NoSearch == Array("unicache.missb", TRUE,
                                 BufferFields("unicache.missb", 1) ++ Cache)

unicache_missb ==
    Array("unicache.missb", TRUE,
          BufferFields("unicache.missb", 1) ++ Cache ++ Search(1))

unicache_ifb == Buffer("unicache.ifb", 1)

unicache_prefetchb == Buffer("unicache.prefetchb", 1)

unicache_wbb == Buffer("unicache.wbb", 1)

\* set_cache_param takes over the supply voltage of the cache or, for a
\* private L2, of its core.
set_cache_param(c) == Only(c.vdd, Assign(AllVdd("own")))

SharedCache(c, level) ==
    set_cache_param(c) \o unicache(c, level)
      \o Only(~TagDirectory(c, level),
              <<unicache_missb, unicache_ifb, unicache_prefetchb,
                unicache_wbb>>)

\* The units of a core in the order in which Core::Core makes them.
CoreUnits(c) ==
    Only(c.Private_L2, Unit("l2cache", FALSE, SharedCache(c, "L2")))
      \o Unit("ifu", FALSE, InstFetchU(c))
      \o Unit("lsu", FALSE, LoadStoreU(c))
      \o Unit("mmu", FALSE, MemManU(c))
      \o Unit("exu", FALSE, EXECU(c))
      \o Unit("undiffCore", FALSE, <<Logic("undiffCore", TRUE)>>)
      \o Only(c.OOO, Unit("rnu", FALSE, RENAMINGU(c)))
      \o <<Logic("corepipe", FALSE)>>

\* set_core_param sets the three voltages when the core has a vdd.
Program(c) ==
    IF c.root = "Core"
    THEN Only(c.vdd, Assign(AllVdd("own"))) \o CoreUnits(c)
           \o <<[op |-> "core_area"]>>
    ELSE SharedCache(c, c.root)

-----------------------------------------------------------------------------
(* Execution. *)

Programs == [c \in Configs |-> Program(c)]

top == stack[Len(stack)]
stmt == Programs[cfg][pc]

Running(op) == state = "running" /\ stmt.op = op
NextStmt ==
    /\ pc' = pc + 1
    /\ state' = IF pc = Len(Programs[cfg]) THEN "done" ELSE "running"
    /\ UNCHANGED cfg
\* The running constructor goes on with this interface_ip and this area.
SetTop(ip, bag) ==
    stack' = [stack EXCEPT
                ![Len(stack)] = [unit |-> top.unit, ip |-> ip, area |-> bag]]
Counted(bag) == IF stmt.counted THEN top.area (+) bag ELSE top.area

Init ==
    /\ cfg \in Configs
    /\ pc = 1
    /\ \E a \in ApproxInit :
         stack = <<[unit |-> cfg.root, ip |-> proc_interface_ip(a),
                    area |-> EmptyBag]>>
    /\ keep = AllVdd("itrs")
    /\ built = <<>>
    /\ area = <<>>
    /\ state = "running"

\* new ArrayST with a record that error_checking accepts.
NewArray ==
    /\ Running("array")
    /\ LET ip == stmt.set ++ top.ip
       IN  /\ error_checking(ip)
           /\ built' = Entry(stmt.part, [op |-> "array", ip |-> checked(ip),
                                         unset |-> {}]) ++ built
           /\ SetTop(ip, Counted(SetToBag({stmt.part})))
    /\ NextStmt
    /\ UNCHANGED <<keep, area>>

\* new ArrayST with a record that error_checking refuses: cacti_interface
\* calls exit(0).
RefuseArray ==
    /\ Running("array")
    /\ ~error_checking(stmt.set ++ top.ip)
    /\ state' = "exit"
    /\ UNCHANGED <<cfg, pc, stack, keep, built, area>>

\* Decoders, selection logic, dependency checks, functional units, the
\* pipeline and the undifferentiated core: init_interface prints what
\* error_checking says and goes on.
NewLogic ==
    /\ Running("logic")
    /\ built' = Entry(stmt.part,
                    [op |-> "logic", ip |-> top.ip, unset |-> {}]) ++ built
    /\ SetTop(top.ip, Counted(SetToBag({stmt.part})))
    /\ NextStmt
    /\ UNCHANGED <<keep, area>>

\* new interconnect with a length made of the heights of other parts.
NewWire ==
    /\ Running("wire")
    /\ built' = Entry(stmt.part,
                    [op |-> "wire", ip |-> top.ip,
                     unset |-> stmt.heights \ DOMAIN built]) ++ built
    /\ SetTop(top.ip, Counted(SetToBag({stmt.part})))
    /\ NextStmt
    /\ UNCHANGED <<keep, area>>

AssignFields ==
    /\ Running("assign")
    /\ SetTop(stmt.set ++ top.ip, top.area)
    /\ NextStmt
    /\ UNCHANGED <<keep, built, area>>

KeepVdd ==
    /\ Running("keep")
    /\ keep' = [v \in DOMAIN keep |-> top.ip[v]]
    /\ NextStmt
    /\ UNCHANGED <<stack, built, area>>

RestoreVdd ==
    /\ Running("restore")
    /\ SetTop(keep ++ top.ip, top.area)
    /\ NextStmt
    /\ UNCHANGED <<keep, built, area>>

EnterUnit ==
    /\ Running("enter")
    /\ stack' = Append(stack, [unit |-> stmt.unit, ip |-> top.ip,
                               area |-> EmptyBag])
    /\ NextStmt
    /\ UNCHANGED <<keep, built, area>>

LeaveUnit ==
    /\ Running("leave")
    /\ area' = Entry(stmt.unit, top.area) ++ area
    /\ LET creator == stack[Len(stack) - 1]
       IN  stack' = Append(SubSeq(stack, 1, Len(stack) - 2),
                           [unit |-> creator.unit, ip |-> creator.ip,
                            area |-> IF stmt.counted
                                     THEN creator.area (+) top.area
                                     ELSE creator.area])
    /\ NextStmt
    /\ UNCHANGED <<keep, built>>

\* The units that take a share of the pipeline registers' area.
Sharing(c) == {"ifu", "lsu", "exu", "mmu"} \cup (IF c.OOO THEN {"rnu"} ELSE {})
Shares(c) == IF c.OOO THEN 5 ELSE 4

\* The end of Core::Core: each unit takes its share of the pipeline and the
\* core adds up its units.
CoreArea ==
    /\ Running("core_area")
    /\ area' = [u \in DOMAIN area |->
                  IF u \in Sharing(cfg)
                  THEN area[u] (+) SetToBag({"share of corepipe"}) ELSE area[u]]
    /\ LET unit(u, present) == IF present THEN area'[u] ELSE EmptyBag
       IN  SetTop(top.ip,
                  unit("l2cache", cfg.Private_L2)
                    (+) area'["ifu"] (+) area'["lsu"] (+) area'["mmu"]
                    (+) area'["exu"] (+) area'["undiffCore"]
                    (+) unit("rnu", cfg.OOO))
    /\ NextStmt
    /\ UNCHANGED <<keep, built>>

Next == \/ NewArray \/ RefuseArray \/ NewLogic \/ NewWire \/ AssignFields
        \/ KeepVdd \/ RestoreVdd \/ EnterUnit \/ LeaveUnit \/ CoreArea

Spec == Init /\ [][Next]_vars

-----------------------------------------------------------------------------
(* Properties. *)

Twins == {"dcache.apcaches", "unicache.apcaches"}
TwinOf(part) == [p \in Twins |-> IF p = "dcache.apcaches" THEN "dcache.caches"
                                 ELSE "unicache.caches"][part]
Sized(part) == IF part \in Twins THEN TwinOf(part) ELSE part
Tables == {"globalBPT", "L1_localBPT", "L2_localBPT", "chooser"}
Arrays == {p \in DOMAIN built : built[p].op = "array"}

\* The configurations that ask for an array without ports or, fully
\* associative, without search ports: no fetch or memory port; out of order no
\* fp issue width for the fp window, and no commit or decode width for the
\* integer tables of the kinds of renaming that search or read by it.
NoPorts(c) ==
    /\ c.root = "Core"
    /\ \/ c.fetch_ports = 0
       \/ c.mem_ports = 0
       \/ /\ c.OOO
          /\ \/ c.fp_issueW = 0
             \/ c.commitW = 0 /\ (c.PRF \/ c.RAM)
             \/ c.decodeW = 0 /\ ~c.RAM

\* The program stops inside a constructor exactly for these configurations,
\* for sizes, banks and technology numbers that error_checking accepts.  No
\* array is refused because a constructor left its kind, associativity,
\* ports or search ports at an earlier array's values, and an array without
\* ports of its own is never accepted thanks to an earlier array's.
ExitExactlyWithoutPorts ==
    /\ state = "exit" => NoPorts(cfg)
    /\ state = "done" => ~NoPorts(cfg)

\* Every array is built with the size computed for it, and with its own tag
\* width when it has tags, although all come from one reused record.  The
\* tables of a multithreaded predictor share the thread tag; the exception is
\* the floating point front RAT of RAM based reservation stations, whose tag
\* width core.cc computes at line 1675 and never stores.
OwnGeometry ==
    \A p \in Arrays :
      LET ip == built[p].ip
      IN  /\ ip.line_sz = Sized(p)
          /\ ip.cache_sz = Sized(p)
          /\ ip.is_cache =>
               \/ ip.tag_w = Sized(p)
               \/ p \in Tables /\ ip.tag_w = "thread"
               \/ /\ p = "fFRAT" /\ ip.tag_w = "iFRAT"
                  /\ cfg.OOO /\ ~cfg.PRF /\ cfg.RAM

ApproxArrays(c) ==
    {"dcache.caches", "dcache.apcaches"}
      \cup (IF c.root \in {"Core", "L2", "L3"}
            THEN {"unicache.caches", "unicache.apcaches"} ELSE {})

\* The approximate SRAM model and the forced subarray organisation apply to
\* the data caches and to nothing built before or after them.
ApproxConfined ==
    \A p \in Arrays :
      LET ip == built[p].ip
      IN  (ip.approx_mode = 1 \/ ip.force_cache_config)
             => p \in ApproxArrays(cfg)

\* Every part runs at its core's or cache's voltage (ITRS when none is given),
\* except the approximate twins: a second level twin at approxVdd whatever
\* the device type, a data cache twin at approxVdd for HP devices only.
SupplyRight ==
    \A p \in DOMAIN built :
      Supply(built[p].ip, cfg.device) =
        IF \/ p = "unicache.apcaches" /\ cfg.root \in {"Core", "L2", "L3"}
           \/ p = "dcache.apcaches" /\ cfg.device = "hp"
        THEN "approx"
        ELSE IF cfg.vdd THEN "own" ELSE "itrs"

\* Every height that enters the length of a bypass wire has been set by an
\* earlier constructor, except the instruction window of a single threaded
\* in-order core and the ROB of a core without one, which core.cc reads unset.
HeightsSet ==
    \A p \in DOMAIN built :
      built[p].unset \subseteq
        {h \in {"int_inst_window", "ROB"} :
           \/ h = "int_inst_window" /\ ~cfg.OOO /\ cfg.threads <= 1
           \/ h = "ROB" /\ cfg.OOO /\ cfg.ROB = 0}

Copies(p, bag) == IF BagIn(p, bag) THEN bag[p] ELSE 0

\* When the construction is done, the area of every array and wire is in the
\* total exactly once, that of a twin not at all, and the pipeline registers
\* are shared out completely.  (Dependency checks and selection logic have no
\* area of their own; intTagBypass is left out with physical register files.)
AreaOnce ==
    state = "done" =>
      /\ \A p \in DOMAIN built :
           LET n == Copies(p, stack[1].area)
           IN  IF p \in Twins THEN n = 0
               ELSE built[p].op = "logic" \/ n = 1
                    \/ (p = "intTagBypass" /\ cfg.OOO /\ cfg.PRF)
      /\ cfg.root = "Core" =>
           Copies("share of corepipe", stack[1].area) = Shares(cfg)
=============================================================================
