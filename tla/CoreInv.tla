------------------------------ MODULE CoreInv ------------------------------
(***************************************************************************)
(* The inductive invariants of CoreArrays and CoreEnergy, and the          *)
(* judgements about pieces of their programs that establish them.          *)
(*                                                                         *)
(* A judgement says what a sequence of statements needs, makes or leaves   *)
(* for a configuration; it is proved of each piece of a constructor and    *)
(* composed as the pieces are.  An invariant reads it off at pc (or epc).  *)
(***************************************************************************)
EXTENDS CoreEnergy

-----------------------------------------------------------------------------
(***************************************************************************)
(* Facts about the reused record interface_ip, and triples.                *)
(***************************************************************************)

\* A sequence, of whatever elements.
IsSeq(s) == \E X : s \in Seq(X)

\* The supply voltages of interface_ip.
Volts == {"hp_Vdd", "lop_Vdd", "lstp_Vdd"}

\* The fields of interface_ip.
Fields ==
    {"is_cache", "pure_cam", "pure_ram", "line_sz", "cache_sz", "tag_w",
     "assoc", "num_search_ports", "num_rw_ports", "num_rd_ports",
     "num_wr_ports", "approx_mode", "force_cache_config"} \cup Volts

\* The supply of a core or cache.
Voltage(c) == IF c.vdd THEN "own" ELSE "itrs"

\* All supply voltages of a record are v.
At(r, v) == r.hp_Vdd = v /\ r.lop_Vdd = v /\ r.lstp_Vdd = v

\* The types of the fields that error_checking reads.
Typed(ip, kept) ==
    /\ Fields \subseteq DOMAIN ip
    /\ ip.is_cache \in BOOLEAN
    /\ ip.pure_cam = FALSE
    /\ ip.num_rw_ports \in Nat
    /\ ip.num_rd_ports \in Nat
    /\ ip.num_wr_ports \in Int
    /\ ip.num_search_ports \in Nat
    /\ DOMAIN kept = Volts

\* All sizes are those computed for one part.
SizedFor(ip, part) ==
    ip.line_sz = part /\ ip.cache_sz = part /\ ip.tag_w = part

\* A set F of facts about interface_ip and the voltages kept aside.
Holds(F, c, ip, kept) ==
    /\ Typed(ip, kept)
    /\ "exact" \in F => ip.approx_mode # 1 /\ ip.force_cache_config = FALSE
    /\ "supply" \in F => At(ip, Voltage(c))
    /\ "itrs" \in F => At(ip, "itrs")
    /\ "cache" \in F => ip.is_cache = TRUE
    /\ "search" \in F => ip.num_search_ports >= 1 \/ NoPorts(c)
    /\ "ports" \in F => PortsOk(ip) \/ NoPorts(c)
    /\ "shape" \in F => ip.assoc # 0 \/ ip.num_search_ports >= 1
    /\ "kept" \in F => At(kept, Voltage(c))
    /\ "dcache" \in F => SizedFor(ip, "dcache.caches")
    /\ "unicache" \in F => SizedFor(ip, "unicache.caches")
    /\ "thread" \in F => (ip.is_cache => ip.tag_w = "thread") /\ ip.assoc # 0
    /\ "iFRAT" \in F => ip.tag_w = "iFRAT"

\* What every unit starts from and leaves behind: no approximate mode, and
\* the core's own voltage.
Plain == {"exact", "supply"}

\* interface_ip and the voltages kept aside after a statement.
IpAfter(st, ip, kept) ==
    CASE st.op \in {"array", "assign"} -> st.set ++ ip
      [] st.op = "restore" -> kept ++ ip
      [] OTHER -> ip

\* The voltages kept aside after a statement.
KeptAfter(st, ip, kept) ==
    IF st.op = "keep" THEN [v \in DOMAIN kept |-> ip[v]] ELSE kept

\* What SupplyRight asks of a part.
SupplyOf(c, part) ==
    IF \/ part = "unicache.apcaches" /\ c.root \in {"Core", "L2", "L3"}
       \/ part = "dcache.apcaches" /\ c.device = "hp"
    THEN "approx" ELSE Voltage(c)

\* What OwnGeometry and ApproxConfined ask of an array.
GoodArray(c, part, ip) ==
    /\ ip.line_sz = Sized(part)
    /\ ip.cache_sz = Sized(part)
    /\ ip.is_cache =>
         \/ ip.tag_w = Sized(part)
         \/ part \in Tables /\ ip.tag_w = "thread"
         \/ /\ part = "fFRAT" /\ ip.tag_w = "iFRAT"
            /\ c.OOO /\ ~c.PRF /\ c.RAM
    /\ (ip.approx_mode = 1 \/ ip.force_cache_config) => part \in ApproxArrays(c)

\* An array that CACTI accepts, or refuses for a reason, and that is right.
AcceptedArray(c, part, ip) ==
    (error_checking(ip) \/ NoPorts(c)) /\ GoodArray(c, part, ip)

\* The voltage a part gets is the one it should have.
Powered(c, part, ip) == Supply(ip, c.device) = SupplyOf(c, part)

\* What a statement that makes a part hands over is right.
Through(c, st, ip) ==
    /\ st.op = "array" => AcceptedArray(c, st.part, ip)
    /\ st.op \in {"array", "logic", "wire"} => Powered(c, st.part, ip)

\* The triple {F} st {G} of a single statement.
Moves(c, F, st, G) ==
    /\ st.op \notin {"enter", "leave"}
    /\ \A ip, kept :
         Holds(F, c, ip, kept) =>
           /\ Through(c, st, IpAfter(st, ip, kept))
           /\ Holds(G, c, IpAfter(st, ip, kept), KeptAfter(st, ip, kept))

\* A statement between two points of a program: the depth of the stack of
\* constructors and the facts about the topmost record.
Valid(c, a, st, b) ==
    CASE st.op = "enter" -> /\ b.depth = a.depth + 1
                            /\ Plain \subseteq a.facts
                            /\ b.facts \subseteq a.facts
      [] st.op = "leave" -> /\ b.depth = a.depth - 1
                            /\ b.facts \subseteq Plain
      [] OTHER -> b.depth = a.depth /\ Moves(c, a.facts, st, b.facts)

\* The depth and the facts before and after every statement of s, from F at
\* depth d to G at depth e.
Outlines(c, o, d, F, s, e, G) ==
    /\ DOMAIN o = 0 .. Len(s)
    /\ o[0].depth = d /\ o[0].facts \subseteq F
    /\ o[Len(s)].depth = e /\ G \subseteq o[Len(s)].facts
    /\ \A k \in 0 .. Len(s) : o[k].depth \in Nat \ {0}
    /\ \A k \in 1 .. Len(s) : Valid(c, o[k - 1], s[k], o[k])

\* The statements s lead from F at depth d to G at depth e.
Path(c, d, F, s, e, G) == \E o : Outlines(c, o, d, F, s, e, G)

\* The triple {F} s {G}: s balances the constructors it enters.
Triple(c, F, s, G) ==
    /\ IsSeq(s)
    /\ \A d \in Nat \ {0} : Path(c, d, F, s, d, G)

\* Facts at the tables of an out-of-order core.
Searched == Plain \cup {"cache", "search"}

\* Facts at the tables of the branch predictor.
Threaded == Plain \cup {"thread"}

\* The fields an ordinary array statement may assign.
Dims == Fields \ (Volts \cup {"approx_mode", "force_cache_config"})

\* The core's voltages are kept aside.
Kept == Plain \cup {"kept"}

\* After the data cache is made, until its approximate twin is finished.
DcacheFacts == {"supply", "cache", "search", "ports", "shape", "kept", "dcache"}

\* What is known of the record when the data cache is made.
DcacheBorn == {"cache", "search", "kept"}

\* A shared cache of this level is the object, or part of the core.
IsLevel(c, level) ==
    \/ c.root = "Core" /\ level = "L2"
    \/ c.root # "Core" /\ level = c.root

\* After the shared cache is made, until its twin is finished.
UnicacheFacts(approx) ==
    {"supply", "cache", "ports", "shape", "kept", "unicache"}
      \cup (IF approx THEN {} ELSE {"exact"})

\* The fields assigned for a shared cache.
UnicacheMain(c, level) ==
    Geometry("unicache.caches") ++ Tag("unicache.caches")
      ++ Assoc(IF TagDirectory(c, level) THEN 0 ELSE 8) ++ Cache
      ++ Ports(1, 0, 0) ++ Search(IF TagDirectory(c, level) THEN 1 ELSE 0)

\* The fields assigned for a shared cache or directory, by approximation.
UnicacheSet(c, level, approx) ==
    IF approx THEN UnicacheMain(c, level) ++ Approx(1)
    ELSE UnicacheMain(c, level)

\* The voltage assigned for its twin.
UnicacheTwin(approx) == IF approx THEN AllVdd("approx") ELSE <<>>

\* What is known of the record a constructor of the processor is given: it has
\* the ITRS voltages, which are right only when there is no other.
Start(c) == IF c.vdd THEN {"exact", "itrs"} ELSE Plain

-----------------------------------------------------------------------------
(***************************************************************************)
(* The parts that a piece of the program makes.                            *)
(***************************************************************************)

\* The parts that are logic blocks.
LogicParts == {"ID_inst", "ID_operand", "ID_misc", "instruction_selection",
               "exeu", "fp_u", "mul", "idcl", "fdcl", "undiffCore", "corepipe"}

\* The bypass wires.
WireParts == {"int_bypass", "intTagBypass", "int_mul_bypass",
              "intTag_mul_Bypass", "fp_bypass", "fpTagBypass"}

\* The statement that makes a part.
Kind(part) == IF part \in LogicParts THEN "logic"
              ELSE IF part \in WireParts THEN "wire" ELSE "array"

\* The statements that make a part.
Making == {"array", "logic", "wire"}

\* The parts made by the first n statements of s.
Made(s, n) == {s[k].part : k \in {j \in 1 .. n : s[j].op \in Making}}

\* The heights core.cc reads unset.
Unset(c) ==
    {h \in {"int_inst_window", "ROB"} :
       \/ h = "int_inst_window" /\ ~c.OOO /\ c.threads <= 1
       \/ h = "ROB" /\ c.OOO /\ c.ROB = 0}

\* The arrays that the ports or search ports of the XML may leave without any.
Portless(c, part) ==
    \/ part = "icache.caches" /\ c.fetch_ports = 0
    \/ part = "dcache.caches" /\ c.mem_ports = 0
    \/ part = "fp_inst_window" /\ c.fp_issueW = 0
    \/ part = "iRRAT" /\ c.commitW = 0
    \/ part = "iFRAT" /\ c.decodeW = 0 /\ ~c.RAM
    \/ part = "iFRAT" /\ c.commitW = 0 /\ c.RAM /\ ~c.PRF

\* Whatever the record holds, an array with these assignments is refused.
Refused(set) == \A ip : ~error_checking(set ++ ip)

\* A statement makes a part of the right kind, after D, or is refused for want
\* of ports; a wire that reads heights finds them, but for the two that are
\* read unset.
WellMade(c, D, st) ==
    /\ st.op = "array" /\ Portless(c, st.part) => Refused(st.set)
    /\ st.op \in Making => st.op = Kind(st.part)
    /\ st.op = "wire" => st.heights \subseteq D \cup Unset(c)

\* s makes the parts P when those of D are there.
Builds(c, D, s, P) ==
    /\ IsSeq(s)
    /\ Made(s, Len(s)) = P
    /\ \A k \in 1 .. Len(s) : WellMade(c, D \cup Made(s, k - 1), s[k])

-----------------------------------------------------------------------------
(***************************************************************************)
(* The areas that a piece of the program adds up.                          *)
(***************************************************************************)

\* The units that Core::Core adds up at its end.
CoreAreas == {"l2cache", "ifu", "lsu", "mmu", "exu", "undiffCore", "rnu"}

\* A point of the area sums: base and top are the counted parts of the waiting
\* constructors and of the running one, units those of the finished units.
Sum(base, top_, units) == [base |-> base, top |-> top_, units |-> units]

\* How a statement changes the sums.
Grows(st, a, b) ==
    CASE st.op \in Making ->
           /\ b.base = a.base /\ b.units = a.units
           /\ \/ st.counted /\ st.part \notin a.top /\ b.top = a.top \cup {st.part}
              \/ ~st.counted /\ b.top = a.top
      [] st.op = "enter" ->
           /\ b.base = Append(a.base, a.top)
           /\ b.top = {} /\ b.units = a.units
      [] st.op = "leave" ->
           /\ b.units = IF st.unit \in CoreAreas
                        THEN Entry(st.unit, a.top) ++ a.units ELSE a.units
           /\ \E X : /\ a.base = Append(b.base, X)
                     /\ \/ st.counted /\ X \cap a.top = {} /\ b.top = X \cup a.top
                        \/ ~st.counted /\ b.top = X
      [] st.op = "core_area" -> FALSE
      [] OTHER -> b = a

\* s leads from sums a to sums b.
Sums(s, a, b) ==
    \E o : /\ DOMAIN o = 0 .. Len(s)
           /\ o[0] = a /\ o[Len(s)] = b
           /\ \A k \in 0 .. Len(s) : IsSeq(o[k].base)
           /\ \A k \in 1 .. Len(s) : Grows(s[k], o[k - 1], o[k])

\* s adds the parts A to the running constructor's area.
Adds(s, A) ==
    \A base, X, units : IsSeq(base) /\ X \cap A = {} =>
      Sums(s, Sum(base, X, units), Sum(base, X \cup A, units))

\* s makes the parts P and counts A of them.
Fills(c, D, s, P, A) == Builds(c, D, s, P) /\ Adds(s, A)

\* The parts of InstFetchU.
InstFetchUParts(c) ==
    IcacheParts \cup {"IB"} \cup Decoders
      \cup (IF c.predictionW > 0 THEN Tables \cup {"RAS", "BTB"} ELSE {})

\* The parts of LoadStoreU that count for its area.
LoadStoreUCounted(c) ==
    {"dcache.caches"} \cup DcacheBuffers(c) \cup {"LSQ"}
      \cup (IF HasLoadQ(c) THEN {"LoadQ"} ELSE {})

\* The parts of LoadStoreU.
LoadStoreUParts(c) == LoadStoreUCounted(c) \cup {"dcache.apcaches"}

\* The parts of MemManU.
MemManUParts == {"itlb", "dtlb"}

\* The parts of RegFU.
RegFUParts(c) ==
    {"IRF", "FRF"} \cup (IF RegWindowing(c) THEN {"RFWIN"} ELSE {})

\* The parts of SchedulerU that count.
SchedulerUCounted(c) ==
    (IF ~c.OOO /\ c.threads > 1 THEN {"int_inst_window"} ELSE {})
      \cup (IF c.OOO THEN {"int_inst_window", "fp_inst_window"}
                            \cup (IF c.ROB > 0 THEN {"ROB"} ELSE {}) ELSE {})

\* The parts of SchedulerU.
SchedulerUParts(c) ==
    SchedulerUCounted(c)
      \cup (IF c.OOO \/ c.threads > 1 THEN {"instruction_selection"} ELSE {})

\* The functional units.
Units(c) ==
    {"exeu"} \cup (IF c.fpus > 0 THEN {"fp_u"} ELSE {})
      \cup (IF c.muls > 0 THEN {"mul"} ELSE {})

\* The wires that count: with physical register files intTagBypass does not.
CountedWires(c) ==
    IF c.OOO /\ c.PRF THEN Wires(c) \ {"intTagBypass"} ELSE Wires(c)

\* The parts of EXECU.
EXECUParts(c) ==
    RegFUParts(c) \cup SchedulerUParts(c) \cup Units(c) \cup Wires(c)

\* The parts of EXECU that count.
EXECUCounted(c) ==
    RegFUParts(c) \cup SchedulerUCounted(c) \cup Units(c) \cup CountedWires(c)

\* The parts of RENAMINGU that count.
RENAMINGUCounted(c) ==
    {"iFRAT", "fFRAT", "ifreeL"}
      \cup (IF c.PRF THEN {"iRRAT", "fRRAT", "ffreeL"} ELSE {})

\* The parts of RENAMINGU.
RENAMINGUParts(c) == RENAMINGUCounted(c) \cup {"idcl", "fdcl"}

\* The parts of a shared cache that count.
SharedCacheCounted(c, level) == {"unicache.caches"} \cup UniBuffers(c, level)

\* The parts of a shared cache.
SharedCacheParts(c, level) ==
    SharedCacheCounted(c, level) \cup {"unicache.apcaches"}

\* The wires of a bypass, by the parts whose heights they span.
Wiring(c, int, h3, h4, h5, h6) ==
    int \o Only(c.muls > 0, <<Wire("int_mul_bypass", TRUE, h3),
                              Wire("intTag_mul_Bypass", TRUE, h4)>>)
        \o Only(c.fpus > 0, <<Wire("fp_bypass", TRUE, h5),
                              Wire("fpTagBypass", TRUE, h6)>>)

\* The parts whose heights the bypass wires may pass.
Passed(c) == RegFUParts(c) \cup SchedulerUParts(c) \cup Units(c)

\* The parts of a private L2, if there is one.
PrivateParts(c) == IF c.Private_L2 THEN SharedCacheParts(c, "L2") ELSE {}

\* The parts of RENAMINGU, if there is one.
RenamingParts(c) == IF c.OOO THEN RENAMINGUParts(c) ELSE {}

\* The parts of a core.
CoreParts(c) ==
    PrivateParts(c) \cup InstFetchUParts(c) \cup LoadStoreUParts(c)
      \cup MemManUParts \cup EXECUParts(c) \cup {"undiffCore"}
      \cup RenamingParts(c) \cup {"corepipe"}

\* The parts of a configuration.
ProgramParts(c) ==
    IF c.root = "Core" THEN CoreParts(c) ELSE SharedCacheParts(c, c.root)

\* Unit u has counted the parts A.
Counts(U, u, A) == u \in DOMAIN U /\ U[u] = A

\* The counted parts of RENAMINGU, if there is one.
RenamingCounted(c) == IF c.OOO THEN RENAMINGUCounted(c) ELSE {}

\* The counted parts of a private L2, if there is one.
PrivateCounted(c) ==
    IF c.Private_L2 THEN SharedCacheCounted(c, "L2") ELSE {}

\* The units every core has.
FiveUnits == {"ifu", "lsu", "mmu", "exu", "undiffCore"}

\* The units of a core.
UnitsOf(c) == FiveUnits \cup (IF c.OOO THEN {"rnu"} ELSE {})
                        \cup (IF c.Private_L2 THEN {"l2cache"} ELSE {})

\* The finished units of a core have counted what they should.
CoreCounts(c, U) ==
    /\ DOMAIN U = UnitsOf(c)
    /\ c.Private_L2 => Counts(U, "l2cache", SharedCacheCounted(c, "L2"))
    /\ Counts(U, "ifu", InstFetchUParts(c))
    /\ Counts(U, "lsu", LoadStoreUCounted(c))
    /\ Counts(U, "mmu", MemManUParts)
    /\ Counts(U, "exu", EXECUCounted(c))
    /\ Counts(U, "undiffCore", {"undiffCore"})
    /\ c.OOO => Counts(U, "rnu", RENAMINGUCounted(c))

\* Nothing is counted.
None == Sum(<<>>, {}, <<>>)

-----------------------------------------------------------------------------
(***************************************************************************)
(* The inductive invariant of the construction.                            *)
(***************************************************************************)

\* The facts before and after every statement of a configuration's program.
Outline(c) == CHOOSE o : Outlines(c, o, 1, Start(c), Program(c), 1, Plain)

\* A record that agrees with ip in all fields but the two that an unassigned
\* approx_mode spoils; ip itself when ApproxInit does not hold 1.
Like(ip, g) ==
    /\ DOMAIN ip = DOMAIN g
    /\ \A f \in DOMAIN ip \ {"approx_mode", "force_cache_config"} : ip[f] = g[f]
    /\ 1 \notin ApproxInit => ip = g

\* The facts F hold, but for what an unassigned approx_mode spoils.
Shadowed(F, c, ip, kept) == \E g : Like(ip, g) /\ Holds(F, c, g, kept)

\* What OwnGeometry says of one array.
GeometryRight(c, p, ip) ==
    /\ ip.line_sz = Sized(p)
    /\ ip.cache_sz = Sized(p)
    /\ ip.is_cache =>
         \/ ip.tag_w = Sized(p)
         \/ p \in Tables /\ ip.tag_w = "thread"
         \/ /\ p = "fFRAT" /\ ip.tag_w = "iFRAT"
            /\ c.OOO /\ ~c.PRF /\ c.RAM

\* What ApproxConfined says of one array.
ApproxRight(c, p, ip) ==
    (ip.approx_mode = 1 \/ ip.force_cache_config) => p \in ApproxArrays(c)

\* What the properties say of one part.
PartRight(c, p, b) ==
    /\ b.op = Kind(p)
    /\ b.unset \subseteq Unset(c)
    /\ Powered(c, p, b.ip)
    /\ b.op = "array" =>
         /\ ~Portless(c, p)
         /\ GeometryRight(c, p, b.ip)
         /\ 1 \notin ApproxInit => ApproxRight(c, p, b.ip)

\* Where the construction is.
Position ==
    /\ cfg \in Configs
    /\ pc \in 1 .. Len(Program(cfg)) + 1
    /\ state \in {"running", "done", "exit"}
    /\ state \in {"running", "exit"} <=> pc <= Len(Program(cfg))
    /\ state = "exit" => NoPorts(cfg)

\* What is known of the records on the stack.
Frames ==
    /\ IsSeq(stack)
    /\ Len(stack) = Outline(cfg)[pc - 1].depth
    /\ Shadowed(Outline(cfg)[pc - 1].facts, cfg, top.ip, keep)
    /\ \A k \in 1 .. Len(stack) - 1 : Shadowed(Plain, cfg, stack[k].ip, keep)

\* The parts made so far are those the program has asked for.
Parts ==
    /\ DOMAIN built = Made(Program(cfg), pc - 1)
    /\ \A p \in DOMAIN built : PartRight(cfg, p, built[p])

\* The inductive invariant of the construction.
Construction == Position /\ Frames /\ Parts

\* What is known of the statement about to be executed.
Upon(st, a, b) ==
    /\ Valid(cfg, a, st, b)
    /\ a.depth \in Nat \ {0} /\ b.depth \in Nat \ {0}
    /\ WellMade(cfg, DOMAIN built, st)
    /\ Made(Program(cfg), pc) = DOMAIN built
         \cup (IF st.op \in Making THEN {st.part} ELSE {})

-----------------------------------------------------------------------------
(***************************************************************************)
(* The inductive invariant of the areas.                                   *)
(***************************************************************************)

\* The statements before the sum at the end of Core::Core.
Summands(c) == IF c.root = "Core" THEN Len(Program(c)) - 1 ELSE Len(Program(c))

\* What has been counted when the units are done.
Total(c, a) ==
    IF c.root = "Core" THEN \E U : CoreCounts(c, U) /\ a = Sum(<<>>, {}, U)
    ELSE a = Sum(<<>>, SharedCacheCounted(c, c.root), <<>>)

\* The sums before and after every statement of a program.
Ledger(c, o) ==
    /\ o[0] = None /\ Total(c, o[Summands(c)])
    /\ \A k \in 0 .. Summands(c) : IsSeq(o[k].base)
    /\ \A k \in 1 .. Summands(c) : Grows(Program(c)[k], o[k - 1], o[k])

\* The ledger of a configuration.
LedgerOf(c) == CHOOSE o : Ledger(c, o)

\* A bag with natural multiplicities.
Counting(B) == \A e \in DOMAIN B : B[e] \in Nat

\* The areas on the stack are those of an entry of the ledger.
Booked(a) ==
    /\ DOMAIN a.units \subseteq CoreAreas
    /\ Len(stack) = Len(a.base) + 1
    /\ top.area = SetToBag(a.top)
    /\ \A k \in 1 .. Len(a.base) : stack[k].area = SetToBag(a.base[k])
    /\ \A u \in DOMAIN a.units : u \in DOMAIN area /\ area[u] = SetToBag(a.units[u])

\* What AreaOnce asks of the area of the core or cache.
CountedOnly(c, bag) ==
    /\ \A p \in ProgramParts(c) :
         IF p \in Twins THEN Copies(p, bag) = 0
         ELSE Kind(p) = "logic" \/ Copies(p, bag) = 1
              \/ (p = "intTagBypass" /\ c.OOO /\ c.PRF)
    /\ c.root = "Core" => Copies("share of corepipe", bag) = Shares(c)

\* The inductive invariant of the areas.
Areas ==
    /\ pc <= Summands(cfg) + 1 => Booked(LedgerOf(cfg)[pc - 1])
    /\ pc = Summands(cfg) + 2 =>
         Len(stack) = 1 /\ CountedOnly(cfg, stack[1].area)

\* The parts of each unit, whatever the configuration.
L2Names == {"unicache.caches", "unicache.apcaches", "unicache.missb",
            "unicache.ifb", "unicache.prefetchb", "unicache.wbb"}

\* Instruction fetch.
IfuNames == {"icache.caches", "icache.missb", "icache.ifb", "icache.prefetchb",
             "IB", "ID_inst", "ID_operand", "ID_misc", "globalBPT",
             "L1_localBPT", "L2_localBPT", "chooser", "RAS", "BTB"}

\* Load and store.
LsuNames == {"dcache.caches", "dcache.apcaches", "dcache.missb", "dcache.ifb",
             "dcache.prefetchb", "dcache.wbb", "LSQ", "LoadQ"}

\* Memory management.
MmuNames == {"itlb", "dtlb"}

\* Execution.
ExuNames == {"IRF", "FRF", "RFWIN", "int_inst_window", "fp_inst_window", "ROB",
             "instruction_selection", "exeu", "fp_u", "mul", "int_bypass",
             "intTagBypass", "int_mul_bypass", "intTag_mul_Bypass",
             "fp_bypass", "fpTagBypass"}

\* Renaming.
RnuNames == {"iFRAT", "fFRAT", "ifreeL", "iRRAT", "fRRAT", "ffreeL", "idcl",
             "fdcl"}

\* The unit a part belongs to.
Home(p) ==
    IF p \in L2Names THEN "l2cache" ELSE IF p \in IfuNames THEN "ifu"
    ELSE IF p \in LsuNames THEN "lsu" ELSE IF p \in MmuNames THEN "mmu"
    ELSE IF p \in ExuNames THEN "exu" ELSE IF p \in RnuNames THEN "rnu" ELSE p

\* Within its unit a part is counted, unless it is a twin, logic, or the tag
\* bypass of physical register files.
Excused(c, p) ==
    p \in Twins \/ Kind(p) = "logic" \/ (p = "intTagBypass" /\ c.OOO /\ c.PRF)

\* 1 for a member, 0 for any other part.
In(p, S) == IF p \in S THEN 1 ELSE 0

\* The area of a core, from those of its units.
CoreSum(c, B) ==
    (IF c.Private_L2 THEN B["l2cache"] ELSE EmptyBag)
      (+) B["ifu"] (+) B["lsu"] (+) B["mmu"] (+) B["exu"] (+) B["undiffCore"]
      (+) (IF c.OOO THEN B["rnu"] ELSE EmptyBag)

\* The units' areas with their shares of the pipeline.
Shared(c, A) ==
    [u \in DOMAIN A |->
       IF u \in Sharing(c) THEN A[u] (+) SetToBag({"share of corepipe"}) ELSE A[u]]

-----------------------------------------------------------------------------
(***************************************************************************)
(* What a piece of an energy pass uses and counts.                         *)
(***************************************************************************)

\* The objects whose stats_t a statement assigns.
Assigns(st) == IF st.op = "stats" THEN st.parts
               ELSE IF st.op = "fu" THEN {st.name} ELSE {}

\* The objects whose stats_t the first n statements of s assign.
Assigned(s, n) == UNION {Assigns(s[k]) : k \in 1 .. n}

\* The pointers a statement follows.
Touched(st) ==
    IF st.op = "stats"
    THEN st.parts \ {"bypass", "homenode", "saved decode energy"}
    ELSE IF st.op = "part" THEN {d[1] : d \in st.dyn} \cup st.lkg
    ELSE IF st.op = "share" THEN {"corepipe"}
    ELSE IF st.op = "fu" THEN {st.name} ELSE {}

\* The root is a directory.
Directory(c) == c.root \in {"L1Directory", "L2Directory"}

\* There is a shared cache.
HasCache(c) == c.root # "Core" \/ c.Private_L2

\* What a pass never assigns.
Spared(c, pass) ==
    IF pass = "tdp" THEN Twins
    ELSE {"homenode", "saved decode energy"}
           \cup (IF Directory(c) THEN {"unicache.apcaches"} ELSE {})

\* An access count that is used without an assignment in the same pass.
Borrowed(c, pass, what) ==
    \/ pass = "tdp" /\ what \in Twins
    \/ pass = "rtp" /\ what = "saved decode energy" /\ c.root = "Core"
    \/ pass = "rtp" /\ what = "homenode" /\ c.dir_ty = "SBT" /\ HasCache(c)
    \/ pass = "rtp" /\ what = "one access"
    \/ pass = "rtp" /\ what = "unicache.apcaches" /\ Directory(c)

\* The statements of computeEnergy.
Ops == {"stats", "part", "sub", "share", "fu"}

\* A statement of a pass after an assignment of the accesses of D.
Sound(c, pass, D, st) ==
    /\ st.op \in Ops
    /\ st.pass = pass
    /\ Assigns(st) \cap Spared(c, pass) = {}
    /\ Touched(st) \subseteq ProgramParts(c)
    /\ st.op = "part" =>
         \A d \in st.dyn : \/ d[2] \in D /\ d[2] # "saved decode energy"
                           \/ Borrowed(c, pass, d[2])

\* Statements of a pass that assign the accesses of E at least.
Pass(c, pass, D, s, E) ==
    /\ IsSeq(s)
    /\ E \subseteq Assigned(s, Len(s))
    /\ \A k \in 1 .. Len(s) : Sound(c, pass, D \cup Assigned(s, k - 1), s[k])

\* What the peak pass has assigned when the runtime pass begins.
Known(c, pass) ==
    IF pass = "tdp"
    THEN (IF c.root = "Core" THEN {"saved decode energy"} ELSE {})
           \cup (IF c.dir_ty = "SBT" /\ HasCache(c) THEN {"homenode"} ELSE {})
    ELSE {}

-----------------------------------------------------------------------------
(***************************************************************************)
(* The inductive invariant of the energy passes.                           *)
(***************************************************************************)

\* The objects whose accesses the first n statements of a pass assign.
InPass(s, n, pass) == UNION {Assigns(s[k]) : k \in {j \in 1 .. n : s[j].pass = pass}}

\* What is known of a statement when T was assigned in the peak pass so far
\* and R in the runtime pass.
Ready(c, T, R, st) ==
    /\ st.pass \in {"tdp", "rtp"}
    /\ st.pass = "tdp" => R = {} /\ Sound(c, "tdp", T, st)
    /\ st.pass = "rtp" => Known(c, "tdp") \subseteq T /\ Sound(c, "rtp", R, st)
    /\ T \cap Twins = {} /\ R \cap Spared(c, "rtp") = {}

\* One term of a power as FreshStats wants it.
FreshTerm(c, pass, t) ==
    \/ t[2] = "leakage"
    \/ t[3] = pass /\ t[2] # "saved decode energy"
    \/ t[2] = "saved decode energy" /\ t[3] = "tdp" /\ pass = "rtp"
    \/ /\ t[2] \in {"dcache.apcaches", "unicache.apcaches"}
       /\ t[3] = "none"
       /\ pass = "tdp" \/ c.root \in {"L1Directory", "L2Directory"}
    \/ pass = "rtp" /\ t[2] = "homenode" /\ t[3] = "tdp"
    \/ pass = "rtp" /\ t[2] = "one access"

\* A power made of fresh terms.
FreshPower(c, pass, bag) == \A t \in DOMAIN bag : FreshTerm(c, pass, t)

\* All powers are.
FreshPowers(c, w) ==
    /\ DOMAIN w = {"tdp", "rtp"}
    /\ \A pass \in {"tdp", "rtp"} : \A n \in DOMAIN w[pass] :
         FreshPower(c, pass, w[pass][n])

\* The pass that last assigned an object's accesses, when T was assigned in
\* the peak pass and R in the runtime pass.
StatsRight(f, T, R) ==
    /\ DOMAIN f = T \cup R
    /\ \A p \in DOMAIN f : f[p] = IF p \in R THEN "rtp" ELSE "tdp"

\* No power is set.
NoPower == [pass \in {"tdp", "rtp"} |-> <<>>]

\* What happens next: construction, passes, printout, destruction.
Turn ==
    /\ phase \in {"construct", "compute", "display", "destroy", "end"}
    /\ phase = "construct" => epc = 1 /\ stats = <<>> /\ power = NoPower
    /\ phase # "construct" => state = "done"
    /\ phase = "compute" => epc \in 1 .. Len(Energy[cfg])

\* Which pass assigned the stats_t last is known at each statement.
Assignments ==
    phase = "compute" =>
      StatsRight(stats, InPass(Energy[cfg], epc - 1, "tdp"),
                 InPass(Energy[cfg], epc - 1, "rtp"))

\* What the destructors freed.
Freeing ==
    phase = "end" /\ cfg.root = "Core" =>
      freed = {p \in Core_deletes(cfg) : p \in DOMAIN built \cup BehindBPT}

\* The inductive invariant of a core's life.
Computation ==
    Construction /\ Turn /\ Assignments /\ FreshPowers(cfg, power) /\ Freeing

-----------------------------------------------------------------------------
(***************************************************************************)
(* The terms that a piece of an energy pass adds up.                       *)
(***************************************************************************)

\* The powers that are sums.
SumNames == {"BPT", "ifu", "rnu", "scheu", "lsu", "mmu", "rfu", "exu", "Core",
             "l2cache", "L2", "L3", "L1Directory", "L2Directory"}

\* Those of both passes.
Accounts == {"tdp", "rtp"} \X SumNames

\* What is in each of them: a set of keys <<part, what>>.
IsBook(m) == m = [x \in Accounts |-> m[x]]

\* Account u gets the keys K.
Paid(m, u, K) == [m EXCEPT ![u] = @ \cup K]

\* Neither is the name of an object with a stats_t.
Uncounted == {"leakage", "one access"}

\* Leakage, but for the selection logic's: both windows add it.
LeakKeys(parts) == {<<p, "leakage">> : p \in parts \ {"instruction_selection"}}

\* The keys of a part's power: accesses dyn, leakage of lkg.
AllKeys(dyn, lkg) == dyn \cup LeakKeys(lkg)

\* Those that its statement adds to a sum.
AddedKeys(dyn, lkg, adds) == CASE adds = "power"   -> AllKeys(dyn, lkg)
                               [] adds = "power_t" -> dyn
                               [] OTHER            -> {}

\* The units that may take a share of the pipeline registers.
Sharers == {"ifu", "lsu", "exu", "mmu", "rnu"}

\* The share that unit u takes.
PipeKey(u) == <<"corepipe", u>>

\* The keys of a functional unit's power.
FuKeys(c, pass, fu) ==
    (IF c.int_instructions = 0 THEN {<<fu, "NaN">>}
     ELSE {<<fu, kind>> : kind \in FunctionalUnit(c, fu) \cap Executed(c)})
      \cup (IF pass = "tdp" THEN {<<fu, "leakage">>} ELSE {})

\* A statement leads from book a to book b, adding no key that is there.
Charges(c, st, a, b) ==
    /\ st.pass \in {"tdp", "rtp"}
    /\ CASE st.op = "stats" -> st.parts \cap Uncounted = {} /\ b = a
         [] st.op = "part" ->
              LET K == AddedKeys(st.dyn, st.lkg, st.adds)
              IN  /\ st.name \notin SumNames /\ st.into \in SumNames
                  /\ \A d \in st.dyn :
                       d = <<d[1], d[2]>> /\ d[1] # "corepipe" /\ d[2] # "leakage"
                  /\ "corepipe" \notin st.lkg
                  /\ a[<<st.pass, st.into>>] \cap K = {}
                  /\ b = Paid(a, <<st.pass, st.into>>, K)
         [] st.op = "sub" ->
              /\ st.name \in SumNames /\ st.into \in SumNames
              /\ a[<<st.pass, st.into>>] \cap a[<<st.pass, st.name>>] = {}
              /\ b = Paid(a, <<st.pass, st.into>>, a[<<st.pass, st.name>>])
         [] st.op = "share" ->
              LET unit == a[<<st.pass, st.name>>] \cup {PipeKey(st.name)}
              IN  /\ st.name \in Sharers
                  /\ PipeKey(st.name) \notin a[<<st.pass, st.name>>]
                  /\ a[<<st.pass, "Core">>] \cap unit = {}
                  /\ b = Paid(Paid(a, <<st.pass, st.name>>, unit),
                              <<st.pass, "Core">>, unit)
         [] st.op = "fu" ->
              /\ st.name \notin SumNames \cup {"corepipe"} \cup Uncounted
              /\ a[<<st.pass, "exu">>] \cap FuKeys(c, st.pass, st.name) = {}
              /\ b = Paid(a, <<st.pass, "exu">>, FuKeys(c, st.pass, st.name))
         [] OTHER -> FALSE

\* The statements s lead from book a to book b.
Keeps(c, s, a, b) ==
    \E o : /\ DOMAIN o = 0 .. Len(s)
           /\ o[0] = a /\ o[Len(s)] = b
           /\ \A k \in 0 .. Len(s) : IsBook(o[k])
           /\ \A k \in 1 .. Len(s) : Charges(c, s[k], o[k - 1], o[k])

\* The statements s add the keys K to account u and nothing to the others but
\* those of V, which must be empty.
Pays(c, s, u, K, V) ==
    /\ IsSeq(s) /\ u \in Accounts
    /\ \A m : IsBook(m) /\ m[u] \cap K = {} /\ (\A v \in V : m[v] = {}) =>
         \E m2 : /\ IsBook(m2) /\ Keeps(c, s, m, m2)
                 /\ m2[u] = m[u] \cup K
                 /\ \A x \in Accounts \ (V \cup {u}) : m2[x] = m[x]

\* The statements s lead from book m to one that has X in account u and is
\* otherwise m1.
Leads(c, s, m, m1, u, X) ==
    \E m2 : /\ IsBook(m2) /\ Keeps(c, s, m, m2) /\ m2[u] = X
            /\ \A x \in Accounts : x # u => m2[x] = m1[x]

\* The keys of an array that has its own accesses.
Owned(S) == {<<p, p>> : p \in S} \cup {<<p, "leakage">> : p \in S}

\* The keys K are about the parts S.
About(K, S) == \A k \in K : k = <<k[1], k[2]>> /\ k[1] \in S

\* The statements s add the keys K, about the parts S, to account u only.
Spends(c, s, u, K, S) == Pays(c, s, u, K, {}) /\ About(K, S)

\* The keys of the branch predictor, without L2_localBPT.
BptKeys == Owned({"globalBPT", "L1_localBPT", "chooser", "RAS"})

\* Those of the decoders.
DecodeKeys(pass) ==
    IF pass = "tdp" THEN Owned(Decoders)
    ELSE {<<d, d>> : d \in Decoders}
           \cup {<<d, "saved decode energy">> : d \in Decoders}

\* Those of InstFetchU.
IfuKeys(c, pass) ==
    Owned(IcacheParts \cup {"IB"}) \cup DecodeKeys(pass)
      \cup (IF c.predictionW > 0 THEN Owned({"BTB"}) \cup BptKeys ELSE {})

\* Those of LoadStoreU.
LsuKeys(c) == Owned(LoadStoreUParts(c)) \cup {<<"dcache.caches", "dcache.apcaches">>}

\* Those of MemManU.
MmuKeys == Owned(MemManUParts)

\* Those of RENAMINGU.
RnuKeys(c) ==
    Owned(RENAMINGUCounted(c)) \cup {<<"idcl", "iFRAT">>, <<"fdcl", "fFRAT">>}

\* Those of SchedulerU.
SchedulerKeys(c) ==
    Owned(SchedulerUCounted(c))
      \cup {<<"instruction_selection", w>> : w \in SchedulerUCounted(c) \ {"ROB"}}

\* Those of RegFU.
RfuKeys(c, pass) ==
    {<<p, p>> : p \in RegFUParts(c)}
      \cup {<<p, "leakage">> :
              p \in RegFUParts(c) \ (IF pass = "tdp" THEN {} ELSE {"IRF", "FRF"})}

\* Those of the bypass wires.
BypassKeys(c) ==
    {<<w, "bypass">> : w \in Wires(c)} \cup {<<w, "leakage">> : w \in Wires(c)}

\* Those of EXECU.
ExuKeys(c, pass) ==
    RfuKeys(c, pass) \cup SchedulerKeys(c)
      \cup (UNION {FuKeys(c, pass, fu) : fu \in Units(c)}) \cup BypassKeys(c)

\* Those of a shared cache.
CacheKeys(c, level, pass) ==
    unicache_dyn(c, level) \cup unicache_unmasked(c, level, pass)
      \cup {<<p, "leakage">> : p \in {"unicache.caches", "unicache.apcaches"}
                                       \cup UniBuffers(c, level)}

\* Those of an instruction window.
WindowKeys(w) == Owned({w}) \cup {<<"instruction_selection", w>>}

\* Those of a core.
CoreKeys(c, pass) ==
    IfuKeys(c, pass) \cup LsuKeys(c) \cup MmuKeys \cup ExuKeys(c, pass)
      \cup (IF c.OOO THEN RnuKeys(c) ELSE {})
      \cup {PipeKey(u) : u \in Sharing(c)}
      \cup {<<"undiffCore", "leakage">>}
      \cup (IF c.Private_L2 THEN CacheKeys(c, "L2", pass) ELSE {})

\* The statements s lead from book m to one that has X in account u and is
\* otherwise m1, but for the accounts V.
LeadsBut(c, s, m, m1, u, X, V) ==
    \E m2 : /\ IsBook(m2) /\ Keeps(c, s, m, m2) /\ m2[u] = X
            /\ \A x \in Accounts \ V : x # u => m2[x] = m1[x]

\* They lead to one that has K in account u and also in v, otherwise m1.
Splits(c, s, m, m1, u, v, K) ==
    \E m2 : /\ IsBook(m2) /\ Keeps(c, s, m, m2)
            /\ m2[u] = K /\ m2[v] = m1[v] \cup K
            /\ \A x \in Accounts : x # u /\ x # v => m2[x] = m1[x]

\* The unit of a core that a key belongs to.
UnitOf(k) == IF k[1] = "corepipe" THEN k[2] ELSE Home(k[1])

\* From a book with nothing in the accounts of the pass, the statements s lead
\* to one with K in account name; the other pass is left alone.
Settles(c, s, pass, name, K) ==
    /\ IsSeq(s)
    /\ \A m : IsBook(m) /\ (\A n \in SumNames : m[<<pass, n>>] = {}) =>
         \E m2 : /\ IsBook(m2) /\ Keeps(c, s, m, m2)
                 /\ m2[<<pass, name>>] = K
                 /\ \A x \in Accounts : x[1] # pass => m2[x] = m[x]

-----------------------------------------------------------------------------
(***************************************************************************)
(* The sums that the journal predicts, and their inductive invariant.      *)
(***************************************************************************)

\* What the total of a configuration is made of.
RootKeys(c, pass) ==
    IF c.root = "Core" THEN CoreKeys(c, pass) ELSE CacheKeys(c, c.root, pass)

\* Nothing has been added up.
NoKeys == [x \in Accounts |-> {}]

\* The books before and after every statement of the two passes.
Journal(c, o) ==
    /\ o[0] = NoKeys
    /\ \A k \in 0 .. Len(Energy[c]) : IsBook(o[k])
    /\ \A pass \in {"tdp", "rtp"} :
         o[Len(Energy[c])][<<pass, c.root>>] = RootKeys(c, pass)
    /\ \A k \in 1 .. Len(Energy[c]) : Charges(c, Energy[c][k], o[k - 1], o[k])

\* The journal of a configuration.
JournalOf(c) == CHOOSE o : Journal(c, o)

\* The pass that counted the accesses to which a term about object what refers.
SourceOf(c, pass, what) ==
    IF what = "leakage" THEN "none"
    ELSE IF pass = "tdp" THEN IF what \in Twins THEN "none" ELSE "tdp"
    ELSE IF what \in {"saved decode energy", "homenode"} THEN "tdp"
    ELSE IF what = "one access" \/ (what = "unicache.apcaches" /\ Directory(c))
    THEN "none" ELSE "rtp"

\* The shares of the pipeline among the keys K.
SharesIn(K) ==
    In(PipeKey("ifu"), K) + In(PipeKey("lsu"), K) + In(PipeKey("exu"), K)
      + In(PipeKey("mmu"), K) + In(PipeKey("rnu"), K)

\* How often the term <<p, w, src>> is in a power with the keys K.
Times(c, pass, K, p, w, src) ==
    IF p = "corepipe" THEN IF w = "share" /\ src = pass THEN SharesIn(K) ELSE 0
    ELSE IF src = SourceOf(c, pass, w) THEN In(<<p, w>>, K) ELSE 0

\* A power with the keys K has each of their terms once, and no other but the
\* selection logic's leakage.
Once(c, pass, bag, K) ==
    /\ \A e \in DOMAIN bag : bag[e] \in Nat \ {0} /\ e = <<e[1], e[2], e[3]>>
    /\ \A p, w, src : <<p, w>> # <<"instruction_selection", "leakage">> =>
         Copies(<<p, w, src>>, bag) = Times(c, pass, K, p, w, src)

\* The power of object n in w.
PowerIn(w, pass, n) == IF n \in DOMAIN w[pass] THEN w[pass][n] ELSE EmptyBag

\* w is w0 with what f says of the pass.
IsSet(w0, pass, f, w) ==
    /\ DOMAIN w = {"tdp", "rtp"}
    /\ \A q \in {"tdp", "rtp"} : \A n :
         PowerIn(w, q, n) = IF q = pass /\ n \in DOMAIN f THEN f[n]
                            ELSE PowerIn(w0, q, n)

\* The sums in w are what book m says.
Balanced(c, w, m) ==
    /\ IsBook(m) /\ DOMAIN w = {"tdp", "rtp"}
    /\ \A pass \in {"tdp", "rtp"}, n \in SumNames :
         Once(c, pass, PowerIn(w, pass, n), m[<<pass, n>>])

\* The inductive invariant of the sums.
Accounting ==
    /\ Computation
    /\ Computed => epc = Len(Energy[cfg]) + 1
    /\ DOMAIN stats \cap Uncounted = {}
    /\ Balanced(cfg, power, JournalOf(cfg)[epc - 1])

\* None of the keys K is 0/0.
Numbers(K) == \A k \in K : k[2] # "NaN"

\* What the accesses of an array or wire are counted under.
OwnWhat(p) == IF Kind(p) = "wire" THEN "bypass" ELSE p

\* The keys K have the accesses of part p and, in the peak pass, its leakage.
HasTerms(p, pass, K) ==
    /\ <<p, OwnWhat(p)>> \in K
    /\ pass = "tdp" => <<p, "leakage">> \in K

\* The terms <<p, w, _>> of a power.
TermsOf(bag, p, w) == {t \in BagToSet(bag) : t[1] = p /\ t[2] = w}

\* How often the terms S occur in a power.
Summed(bag, S) == MapThenSumSet(LAMBDA t : bag[t], S)

-----------------------------------------------------------------------------
(***************************************************************************)
(* What each power is the sum of.                                          *)
(***************************************************************************)

\* The lines <<unit, object>>: the statement adds the dynamic power of the
\* object to that of the unit.
Lent(st) ==
    CASE st.op = "part" -> IF st.adds \in {"power", "power_t"} /\ st.dyn # {}
                           THEN {<<st.into, st.name>>} ELSE {}
      [] st.op = "sub"   -> {<<st.into, st.name>>}
      [] st.op = "share" -> {<<"Core", st.name>>}
      [] st.op = "fu"    -> {<<"exu", st.name>>}
      [] OTHER           -> {}

\* The objects whose power it assigns.
Written(st) ==
    CASE st.op = "part" -> {st.name, st.into}
      [] st.op = "sub"   -> {st.into}
      [] st.op = "share" -> {st.name, "Core"}
      [] st.op = "fu"    -> {st.name, "exu"}
      [] OTHER           -> {}

\* A sum is added to another one, but for those that have a share of the
\* pipeline.
Proper(st) ==
    st.op = "sub" => st.name \notin Sharers \cup {"Core"} /\ st.name # st.into

\* Of the statements i and j the second leaves alone what the first has added.
InOrder(s, i, j) == \A l \in Lent(s[i]) : l[2] \notin Written(s[j])

\* Statements of a pass that assign objects of W and add up the lines R, each
\* object when its power is final.
Tidy(s, pass, W, R) ==
    /\ IsSeq(s)
    /\ \A k \in 1 .. Len(s) :
         /\ s[k].pass = pass /\ Proper(s[k])
         /\ Written(s[k]) \subseteq W /\ Lent(s[k]) \subseteq R
    /\ \A l \in R : \E k \in 1 .. Len(s) : l \in Lent(s[k])
    /\ \A i, j \in 1 .. Len(s) : i < j => InOrder(s, i, j)

\* The lines of the first n statements that belong to a pass.
LinesOf(s, n, pass) == UNION {Lent(s[k]) : k \in {j \in 1 .. n : s[j].pass = pass}}


\* The lines of a core's pass, or of a shared cache's.
PassLines(c) ==
    IF c.root = "Core"
    THEN (Core_display(c, 4) \ {<<"BPT", "L2_localBPT">>})
           \cup (IF c.Private_L2 THEN {<<"l2cache", "unicache">>} ELSE {})
    ELSE {<<c.root, "unicache">>}

\* The dynamic terms of a power, but for the shares of the pipeline.
DynTerms(bag) == {t \in DOMAIN bag : t[2] # "leakage" /\ t[1] # "corepipe"}

\* A power that is no sum: none of its dynamic terms is there twice.
Unshared(bag) ==
    \A t \in DOMAIN bag : t[1] # "corepipe" /\ (t[2] # "leakage" => bag[t] = 1)

\* Among the lines R the sharers of the pipeline are those of the core, and
\* book m has their shares in their own account and in the core's.
PipeRight(m, pass, R) ==
    \A v \in Sharers : \A u \in SumNames :
      PipeKey(v) \in m[<<pass, u>>] <=> <<"Core", v>> \in R /\ (u = v \/ u = "Core")

\* The dynamic terms of each sum in w are, by the lines R, those of the objects
\* it is the sum of, no two of which have a term in common.
Itemised(w, m, pass, R) ==
    /\ \A n : n \notin SumNames => Unshared(PowerIn(w, pass, n))
    /\ \A u \in SumNames :
         DynTerms(PowerIn(w, pass, u))
           = UNION {DynTerms(PowerIn(w, pass, l[2])) : l \in {k \in R : k[1] = u}}
    /\ \A l, k \in R : l[1] = k[1] /\ l[2] # k[2] =>
         DynTerms(PowerIn(w, pass, l[2])) \cap DynTerms(PowerIn(w, pass, k[2])) = {}
    /\ PipeRight(m, pass, R)

\* The inductive invariant of the breakdown.
Billing ==
    /\ Accounting
    /\ \A pass \in {"tdp", "rtp"} :
         Itemised(power, JournalOf(cfg)[epc - 1], pass,
                  LinesOf(Energy[cfg], epc - 1, pass))
    /\ phase = "destroy" => \E plevel \in 1 .. 5 : shown = displayEnergy(cfg, plevel)

\* The lines need only parts of the core.
Reached(c, lines) == \A l \in lines : Followed(l[2]) \subseteq CoreParts(c)

\* What the objects S of a pass have of a term, in all.
LentOf(pass, t, S) == MapThenSumSet(LAMBDA ch : PowerOf(pass, ch)[t], S)

\* A unit whose lines displayEnergy prints has all those of PassLines printed,
\* and no other but that of L2_localBPT.
PrintedWhole(c, parent) ==
    /\ parent \in SumNames
    /\ \A n : <<parent, n>> \in shown /\ n # "L2_localBPT"
                <=> <<parent, n>> \in PassLines(c)

\* Of a core's lines, A are those of its own, M those of its units and H those
\* of the parts of units.
Grouped(c, A, M, H) ==
    /\ \A plevel \in 1 .. 5 :
         Core_display(c, plevel) = A \cup (IF plevel > 2 THEN M ELSE {})
                                     \cup (IF plevel > 3 THEN H ELSE {})
    /\ \A l \in A : l[1] = "Core"
    /\ \A l \in M : l[1] \in {"ifu", "lsu", "mmu", "exu", "rnu"}
    /\ \A l \in H : l[1] \in {"BPT", "rfu", "scheu"}
    /\ \A l \in A \cup M \cup H : l = <<l[1], l[2]>>
    /\ \A l \in A \cup M \cup H : l[2] = "L2_localBPT" => l[1] = "BPT"
    /\ \A l \in A \cup M \cup H : l[2] \in Sharers \cup {"Core"} => l[1] = "Core"
    /\ \A n : <<"Core", n>> \in A <=>
         n \in Sharing(c) \/ (c.Private_L2 /\ n = "l2cache")

\* The powers of a core when the passes are over: a dynamic term of a sum is
\* that of one of its lines, each object has it once, and the shares of the
\* pipeline are with its sharers and with the core.
Settled(c, pass) ==
    /\ \A u \in SumNames : \A t :
         t \in DynTerms(PowerOf(pass, u))
           <=> \E n : <<u, n>> \in PassLines(c) /\ t \in DynTerms(PowerOf(pass, n))
    /\ \A u, n, k : <<u, n>> \in PassLines(c) /\ <<u, k>> \in PassLines(c) /\ n # k =>
         DynTerms(PowerOf(pass, n)) \cap DynTerms(PowerOf(pass, k)) = {}
    /\ \A n : \A t \in DOMAIN PowerOf(pass, n) : t[2] # "leakage" =>
         \/ t[1] # "corepipe" /\ PowerOf(pass, n)[t] = 1
         \/ t = <<"corepipe", "share", pass>>
    /\ LET e == <<"corepipe", "share", pass>>
       IN  /\ \A n : e \in DOMAIN PowerOf(pass, n) <=> n \in Sharing(c) \cup {"Core"}
           /\ \A n \in Sharing(c) : PowerOf(pass, n)[e] = 1
           /\ PowerOf(pass, "Core")[e] = Shares(c)

\* Of a printed unit: its parts, the sum of what is printed for them and what
\* it has of the pipeline.
Displayed(c, pass, parent, children, sum, pipe) ==
    /\ PrintedWhole(c, parent)
    /\ \A n : n \in children <=> <<parent, n>> \in shown /\ n # "L2_localBPT"
    /\ DOMAIN sum = UNION {BagToSet(PowerOf(pass, ch)) : ch \in children}
    /\ \A t \in DOMAIN sum :
         sum[t] = LentOf(pass, t, {ch \in children : BagIn(t, PowerOf(pass, ch))})
    /\ pipe = IF parent \in Sharing(c)
              THEN SetToBag({<<"corepipe", "share", pass>>}) ELSE EmptyBag

\* The unit's dynamic power is that sum with the pipeline on top.
AddsUp(pass, parent, sum, pipe) ==
    Dynamic(PowerOf(pass, parent)) = Dynamic(sum (+) pipe)

=============================================================================
