----------------------------- MODULE CoreEnergy -----------------------------
(***************************************************************************)
(* The life of a McPAT core or shared cache after its construction: the    *)
(* processor calls computeEnergy(true) for the peak (TDP) power, then      *)
(* computeEnergy(false) for the runtime power, later displayEnergy and the *)
(* destructor.                                                             *)
(*                                                                         *)
(* A power is a bag of terms <<part, what, pass>>: the dynamic energy of   *)
(* part for the accesses in the stats_t of object what, which were last    *)
(* assigned in the given pass, or what = "leakage".  Numbers (energies,    *)
(* duty cycles, access counts) are left out; which terms a total is made   *)
(* of, and how fresh their access counts are, is what the code can get     *)
(* wrong.                                                                  *)
(***************************************************************************)
EXTENDS CoreArrays, FiniteSetsExt

VARIABLES
    epc,    \* next statement of Energy(cfg)
    stats,  \* object |-> the pass that last assigned its stats_t
    power,  \* pass |-> object |-> power (pass "tdp") or rt_power ("rtp")
    shown,  \* pairs <<parent, child>> of lines displayEnergy printed
    freed,  \* the objects the destructors deleted
    phase   \* "construct", "compute", "display", "destroy" or "end"

evars == <<epc, stats, power, shown, freed, phase>>
allvars == <<vars, evars>>

Passes == <<"tdp", "rtp">>

-----------------------------------------------------------------------------
(* The kinds of statement of a computeEnergy. *)

\* p->stats_t... = ... for every p in parts.
Stats(pass, parts) == <<[op |-> "stats", pass |-> pass, parts |-> parts]>>
\* name.power = power_t + leakage; then into.power = into.power + what the
\* given kind says: name.power ("power"), only power_t ("power_t") or nothing.
\* dyn holds pairs <<part, object whose stats_t are used>>.
Part(pass, name, into, dyn, lkg, adds) ==
    <<[op |-> "part", pass |-> pass, name |-> name, into |-> into,
       dyn |-> dyn, lkg |-> lkg, adds |-> adds]>>
\* An array of its own: its own statistics and leakage.
Own(pass, p, into) == Part(pass, p, into, {<<p, p>>}, {p}, "power")
\* into.power = into.power + name.power.
Sub(pass, name, into) ==
    <<[op |-> "sub", pass |-> pass, name |-> name, into |-> into]>>
\* The unit takes its share of corepipe->power, the core adds the unit.
Share(pass, unit) == <<[op |-> "share", pass |-> pass, name |-> unit]>>
\* FunctionalUnit::computeEnergy, then the sum into exu.
Functional(pass, fu) == <<[op |-> "fu", pass |-> pass, name |-> fu]>>

-----------------------------------------------------------------------------
(* BranchPredictor::computeEnergy, InstFetchU::computeEnergy. *)

\* The second level local table is computed but not added to the predictor.
BranchPredictor_energy(pass) ==
    Stats(pass, Tables \cup {"RAS"})
      \o Own(pass, "globalBPT", "BPT") \o Own(pass, "L1_localBPT", "BPT")
      \o Part(pass, "L2_localBPT", "BPT", {<<"L2_localBPT", "L2_localBPT">>},
              {"L2_localBPT"}, "nothing")
      \o Own(pass, "chooser", "BPT") \o Own(pass, "RAS", "BPT")

Decoders == {"ID_inst", "ID_operand", "ID_misc"}
IcacheParts == {"icache.caches", "icache.missb", "icache.ifb",
                "icache.prefetchb"}

InstFetchU_stats(c, pass) ==
    Stats(pass, IcacheParts \cup {"IB"} \cup Decoders
                  \cup (IF c.predictionW > 0 THEN {"BTB"} ELSE {}))

\* The energy of one decode is the decoder's power as constructed; the peak
\* pass saves it in power_t and multiplies power in place, the runtime pass
\* multiplies what the peak pass saved.
decoders_energy(pass) ==
    IF pass = "tdp"
    THEN Stats(pass, {"saved decode energy"})
           \o Part(pass, "ID", "ifu", {<<d, d>> : d \in Decoders}, Decoders,
                   "power")
    ELSE Part(pass, "ID", "ifu",
              {<<d, d>> : d \in Decoders}
                \cup {<<d, "saved decode energy">> : d \in Decoders},
              {}, "power")

InstFetchU_energy(c, pass) ==
    InstFetchU_stats(c, pass)
      \o Only(c.predictionW > 0, BranchPredictor_energy(pass))
      \o Part(pass, "icache", "ifu", {<<p, p>> : p \in IcacheParts},
              IcacheParts, "power")
      \o Own(pass, "IB", "ifu")
      \o Only(c.predictionW > 0,
              Own(pass, "BTB", "ifu") \o Sub(pass, "BPT", "ifu"))
      \o decoders_energy(pass)

-----------------------------------------------------------------------------
(* RENAMINGU::computeEnergy. *)

\* The tables that have accesses of their own; the dependency checks too.
RENAMINGU_stats(c, pass) ==
    Stats(pass, {"iFRAT", "fFRAT", "ifreeL", "idcl", "fdcl"}
                  \cup (IF c.PRF THEN {"iRRAT", "fRRAT", "ffreeL"} ELSE {}))

\* Each read of a front RAT goes with a dependency check.  The leakage of the
\* check is not in the sum: idcl->power_t, which is, stays zero.
FrontRAT_energy(pass, rat, dcl) ==
    Part(pass, rat, "rnu", {<<rat, rat>>, <<dcl, rat>>}, {rat}, "power")

RENAMINGU_energy(c, pass) ==
    RENAMINGU_stats(c, pass)
      \o FrontRAT_energy(pass, "iFRAT", "idcl")
      \o FrontRAT_energy(pass, "fFRAT", "fdcl")
      \o Only(c.PRF, Own(pass, "iRRAT", "rnu") \o Own(pass, "fRRAT", "rnu"))
      \o Own(pass, "ifreeL", "rnu")
      \o Only(c.PRF, Own(pass, "ffreeL", "rnu"))

-----------------------------------------------------------------------------
(* SchedulerU::computeEnergy, LoadStoreU::computeEnergy,                   *)
(* MemManU::computeEnergy.                                                 *)

SchedulerU_stats(c, pass) ==
    Stats(pass,
          (IF c.OOO THEN {"int_inst_window", "fp_inst_window"}
             \cup (IF c.ROB > 0 THEN {"ROB"} ELSE {}) ELSE {})
          \cup (IF ~c.OOO /\ c.threads > 1 THEN {"int_inst_window"} ELSE {}))

\* An instruction window, with the selection logic for each access.
Window_energy(pass, window) ==
    Part(pass, window, "scheu",
         {<<window, window>>, <<"instruction_selection", window>>},
         {window, "instruction_selection"}, "power")

SchedulerU_energy(c, pass) ==
    SchedulerU_stats(c, pass)
      \o Only(c.OOO \/ c.threads > 1, Window_energy(pass, "int_inst_window"))
      \o Only(c.OOO, Window_energy(pass, "fp_inst_window"))
      \o Only(c.OOO /\ c.ROB > 0, Own(pass, "ROB", "scheu"))

DcacheBuffers(c) == {"dcache.missb", "dcache.ifb", "dcache.prefetchb"}
                      \cup (IF c.write_back THEN {"dcache.wbb"} ELSE {})
\* Mutant: every out-of-order core has a load queue.
HasLoadQ_OOO(c) == c.OOO

HasLoadQ(c) == c.OOO /\ c.LoadQ > 0

\* The approximate twin gets access counts in the runtime pass only.
LoadStoreU_stats(c, pass) ==
    Stats(pass, {"dcache.caches", "LSQ"} \cup DcacheBuffers(c)
                  \cup (IF HasLoadQ(c) THEN {"LoadQ"} ELSE {})
                  \cup (IF pass = "rtp" THEN {"dcache.apcaches"} ELSE {}))

\* Exact accesses (all less the approximate ones) at the array's energy,
\* approximate ones at the twin's; leakage shared by approx_ratio.
dcache_energy(c, pass) ==
    LET parts == {"dcache.caches", "dcache.apcaches"} \cup DcacheBuffers(c)
    IN  Part(pass, "dcache", "lsu",
             {<<p, p>> : p \in parts}
               \cup {<<"dcache.caches", "dcache.apcaches">>},
             parts, "power")

LoadStoreU_energy(c, pass) ==
    LoadStoreU_stats(c, pass) \o dcache_energy(c, pass)
      \o Own(pass, "LSQ", "lsu")
      \o Only(HasLoadQ(c), Own(pass, "LoadQ", "lsu"))

\* Mutant: the accesses of the TLBs are set in the peak pass only.
MemManU_energy_StatsOnce(pass) ==
    Only(pass = "tdp", Stats(pass, {"itlb", "dtlb"}))
      \o Own(pass, "itlb", "mmu") \o Own(pass, "dtlb", "mmu")

MemManU_energy(pass) ==
    Stats(pass, {"itlb", "dtlb"}) \o Own(pass, "itlb", "mmu")
      \o Own(pass, "dtlb", "mmu")

-----------------------------------------------------------------------------
(* RegFU::computeEnergy, EXECU::computeEnergy. *)

RegWindowing(c) == c.windows /\ ~c.OOO

\* The runtime pass adds only power_t of the two register files to rfu.
RegFU_energy(c, pass) ==
    LET adds == IF pass = "tdp" THEN "power" ELSE "power_t"
    IN  Stats(pass, {"IRF", "FRF"}
                      \cup (IF RegWindowing(c) THEN {"RFWIN"} ELSE {}))
          \o Part(pass, "IRF", "rfu", {<<"IRF", "IRF">>}, {"IRF"}, adds)
          \o Part(pass, "FRF", "rfu", {<<"FRF", "FRF">>}, {"FRF"}, adds)
          \o Only(RegWindowing(c), Own(pass, "RFWIN", "rfu"))

Wires(c) == {"int_bypass", "intTagBypass"}
              \cup (IF c.muls > 0 THEN {"int_mul_bypass", "intTag_mul_Bypass"}
                    ELSE {})
              \cup (IF c.fpus > 0 THEN {"fp_bypass", "fpTagBypass"} ELSE {})

\* The result bus: its accesses come from duty cycles or the XML file.
bypass_energy(c, pass) ==
    Stats(pass, {"bypass"})
      \o Part(pass, "bypass", "exu", {<<w, "bypass">> : w \in Wires(c)},
              Wires(c), "power")

\* Mutant: the scheduler is not added to the execution unit.
EXECU_energy_NoScheduler(c, pass) ==
    RegFU_energy(c, pass) \o SchedulerU_energy(c, pass)
      \o Functional(pass, "exeu")
      \o Only(c.fpus > 0, Functional(pass, "fp_u"))
      \o Only(c.muls > 0, Functional(pass, "mul"))
      \o bypass_energy(c, pass) \o Sub(pass, "rfu", "exu")

EXECU_energy(c, pass) ==
    RegFU_energy(c, pass) \o SchedulerU_energy(c, pass)
      \o Functional(pass, "exeu")
      \o Only(c.fpus > 0, Functional(pass, "fp_u"))
      \o Only(c.muls > 0, Functional(pass, "mul"))
      \o bypass_energy(c, pass)
      \o Sub(pass, "rfu", "exu") \o Sub(pass, "scheu", "exu")

-----------------------------------------------------------------------------
(* SharedCache::computeEnergy, Core::computeEnergy. *)

UniBuffers(c, level) ==
    IF TagDirectory(c, level) THEN {}
    ELSE {"unicache.missb", "unicache.ifb", "unicache.prefetchb",
          "unicache.wbb"}

\* A merged directory has home node accesses.  The peak pass assigns
\* homenode_stats_t; the runtime pass assigns homenode_rtp_stats instead, and
\* only for an L2 or L3, so homenode_stats_t keep their peak values.
SharedCache_stats(c, level, pass) ==
    Stats(pass, {"unicache.caches"} \cup UniBuffers(c, level)
                  \cup (IF pass = "tdp" /\ c.dir_ty = "SBT"
                        THEN {"homenode"} ELSE {})
                  \cup (IF pass = "rtp" /\ level \in {"L2", "L3"}
                        THEN {"unicache.apcaches"} ELSE {}))

\* Dynamic power: exact and approximate accesses, home node and buffers; a
\* sharer tag directory is searched and has no twin in the sum.
unicache_dyn(c, level) ==
    IF TagDirectory(c, level)
    THEN {<<"unicache.caches", "unicache.caches">>}
    ELSE {<<p, p>> : p \in {"unicache.caches", "unicache.apcaches"}
                             \cup UniBuffers(c, level)}
           \cup {<<"unicache.caches", "unicache.apcaches">>}
           \cup (IF c.dir_ty = "SBT" THEN {<<"unicache.caches", "homenode">>}
                 ELSE {})

\* The runtime pass multiplies the result of its assignment, not the sum of
\* the buffers, by the leakage mask: it adds one access to every buffer.
unicache_unmasked(c, level, pass) ==
    IF pass = "rtp" THEN {<<p, "one access">> : p \in UniBuffers(c, level)}
    ELSE {}

SharedCache_energy(c, level, unit, pass) ==
    SharedCache_stats(c, level, pass)
      \o Part(pass, "unicache", unit,
              unicache_dyn(c, level) \cup unicache_unmasked(c, level, pass),
              {"unicache.caches", "unicache.apcaches"}
                \cup UniBuffers(c, level),
              "power")

Core_energy(c, pass) ==
    InstFetchU_energy(c, pass) \o LoadStoreU_energy(c, pass)
      \o MemManU_energy(pass) \o EXECU_energy(c, pass)
      \o Only(c.OOO, RENAMINGU_energy(c, pass) \o Share(pass, "rnu"))
      \o Share(pass, "ifu") \o Share(pass, "lsu") \o Share(pass, "exu")
      \o Share(pass, "mmu")
      \o Part(pass, "undiffCore", "Core", {}, {"undiffCore"}, "power")
      \o Only(c.Private_L2,
              SharedCache_energy(c, "L2", "l2cache", pass)
                \o Sub(pass, "l2cache", "Core"))

computeEnergy(c, pass) ==
    IF c.root = "Core" THEN Core_energy(c, pass)
    ELSE SharedCache_energy(c, c.root, c.root, pass)

Energy == [c \in Configs |-> computeEnergy(c, Passes[1])
                               \o computeEnergy(c, Passes[2])]

-----------------------------------------------------------------------------
(* displayEnergy: the lines a unit prints below its own, for a print level. *)

Lines(parent, children) == {parent} \X children

BranchPredictor_display == Lines("BPT", Tables \cup {"RAS"})

\* Mutant: the instruction buffer is not printed.
InstFetchU_display_NoIB(c, plevel) ==
    Lines("ifu", {"icache", "ID"})
      \cup (IF c.predictionW > 0
            THEN Lines("ifu", {"BTB", "BPT"})
                   \cup (IF plevel > 3 THEN BranchPredictor_display ELSE {})
            ELSE {})

InstFetchU_display(c, plevel) ==
    Lines("ifu", {"icache", "IB", "ID"})
      \cup (IF c.predictionW > 0
            THEN Lines("ifu", {"BTB", "BPT"})
                   \cup (IF plevel > 3 THEN BranchPredictor_display ELSE {})
            ELSE {})

RENAMINGU_display(c) ==
    Lines("rnu", {"iFRAT", "fFRAT", "ifreeL"}
                   \cup (IF c.PRF THEN {"iRRAT", "fRRAT", "ffreeL"} ELSE {}))

SchedulerU_display(c) ==
    IF c.OOO
    THEN Lines("scheu", {"int_inst_window", "fp_inst_window"}
                          \cup (IF c.ROB > 0 THEN {"ROB"} ELSE {}))
    ELSE IF c.threads > 1 THEN Lines("scheu", {"int_inst_window"}) ELSE {}

LoadStoreU_display(c) ==
    Lines("lsu", {"dcache", "LSQ"} \cup (IF HasLoadQ(c) THEN {"LoadQ"} ELSE {}))

MemManU_display == Lines("mmu", {"itlb", "dtlb"})

RegFU_display(c) ==
    Lines("rfu", {"IRF", "FRF"}
                   \cup (IF RegWindowing(c) THEN {"RFWIN"} ELSE {}))

EXECU_display(c, plevel) ==
    Lines("exu", {"rfu", "scheu", "exeu", "bypass"}
                   \cup (IF c.fpus > 0 THEN {"fp_u"} ELSE {})
                   \cup (IF c.muls > 0 THEN {"mul"} ELSE {}))
      \cup (IF plevel > 3 THEN RegFU_display(c) \cup SchedulerU_display(c)
            ELSE {})

Core_display(c, plevel) ==
    Lines("Core", {"ifu", "lsu", "mmu", "exu"}
                    \cup (IF c.OOO THEN {"rnu"} ELSE {})
                    \cup (IF c.Private_L2 THEN {"l2cache"} ELSE {}))
      \cup (IF plevel > 2
            THEN InstFetchU_display(c, plevel) \cup LoadStoreU_display(c)
                   \cup MemManU_display \cup EXECU_display(c, plevel)
                   \cup (IF c.OOO THEN RENAMINGU_display(c) ELSE {})
            ELSE {})

\* A shared cache prints its own lines only.
displayEnergy(c, plevel) ==
    IF c.root = "Core" THEN Core_display(c, plevel) ELSE {}

-----------------------------------------------------------------------------
(* The destructors: pointers that are deleted when not null.  The arrays   *)
(* of a cache belong to the cache object, whose destructor is not here.    *)

InstFetchU_deletes(c) ==
    {"IB"} \cup Decoders
      \cup (IF c.predictionW > 0 THEN {"BTB", "RAS"} \cup Tables ELSE {})

RENAMINGU_deletes ==
    {"iFRAT", "iRRAT", "ifreeL", "idcl", "fFRAT", "fRRAT", "fdcl", "ffreeL"}

EXECU_deletes ==
    {"int_bypass", "intTagBypass", "int_mul_bypass", "intTag_mul_Bypass",
     "fp_bypass", "fpTagBypass", "fp_u", "exeu", "mul"}
      \cup {"IRF", "FRF", "RFWIN"}
      \cup {"int_inst_window", "fp_inst_window", "ROB",
            "instruction_selection"}

\* The arrays reached through BPT, the one pointer of a core that its
\* constructor does not set to null before it may make the object.
BehindBPT == Tables \cup {"RAS"}

Core_deletes(c) ==
    InstFetchU_deletes(c) \cup {"LSQ", "LoadQ"} \cup RENAMINGU_deletes
      \cup {"itlb", "dtlb"} \cup EXECU_deletes \cup {"corepipe", "undiffCore"}

-----------------------------------------------------------------------------
(* Execution. *)

estmt == Energy[cfg][epc]
EStep(op) == phase = "compute" /\ estmt.op = op
NextEnergy ==
    /\ epc' = epc + 1
    /\ phase' = IF epc = Len(Energy[cfg]) THEN "display" ELSE "compute"
    /\ UNCHANGED <<vars, shown, freed>>
PowerOf(pass, name) ==
    IF name \in DOMAIN power[pass] THEN power[pass][name] ELSE EmptyBag
\* power[pass] with new values for the objects in DOMAIN f.
SetPower(pass, f) == power' = [power EXCEPT ![pass] = f ++ @]

EInit ==
    /\ Init
    /\ epc = 1
    /\ stats = <<>>
    /\ power = [pass \in {"tdp", "rtp"} |-> <<>>]
    /\ shown = {}
    /\ freed = {}
    /\ phase = "construct"

Construct ==
    /\ phase = "construct"
    /\ Next
    /\ phase' = IF state' = "done" THEN "compute" ELSE "construct"
    /\ UNCHANGED <<epc, stats, power, shown, freed>>

InitStats ==
    /\ EStep("stats")
    /\ stats' = [p \in estmt.parts |-> estmt.pass] ++ stats
    /\ NextEnergy
    /\ UNCHANGED power

\* When the accesses of object what were counted, as far as this pass knows.
Source(what) == IF what \in DOMAIN stats THEN stats[what] ELSE "none"

PartPower ==
    /\ EStep("part")
    /\ LET power_t == SetToBag({<<d[1], d[2], Source(d[2])>> : d \in estmt.dyn})
           all == power_t (+) SetToBag({<<p, "leakage", "none">> : p \in estmt.lkg})
           adds == CASE estmt.adds = "power"   -> all
                     [] estmt.adds = "power_t" -> power_t
                     [] OTHER                  -> EmptyBag
       IN  SetPower(estmt.pass,
             Entry(estmt.name, all)
               ++ Entry(estmt.into, PowerOf(estmt.pass, estmt.into) (+) adds))
    /\ NextEnergy
    /\ UNCHANGED stats

SubTotal ==
    /\ EStep("sub")
    /\ SetPower(estmt.pass,
         Entry(estmt.into, PowerOf(estmt.pass, estmt.into)
                           (+) PowerOf(estmt.pass, estmt.name)))
    /\ NextEnergy
    /\ UNCHANGED stats

PipeShare ==
    /\ EStep("share")
    /\ LET unit == PowerOf(estmt.pass, estmt.name)
                     (+) SetToBag({<<"corepipe", "share", estmt.pass>>})
       IN  SetPower(estmt.pass,
             Entry(estmt.name, unit)
               ++ Entry("Core", PowerOf(estmt.pass, "Core") (+) unit))
    /\ NextEnergy
    /\ UNCHANGED stats

\* FunctionalUnit::FunctionalUnit: only the ALU of a core that is not embedded
\* gets energies for its approximate mode; the others keep the zeros.
FunctionalUnit(c, fu) ==
    {"exact"} \cup (IF fu = "exeu" /\ ~c.Embedded THEN {"approx"} ELSE {})

\* The kinds of integer instructions that were executed.
Executed(c) ==
    (IF c.int_instructions > c.appadd_instructions THEN {"exact"} ELSE {})
      \cup (IF c.appadd_instructions > 0 THEN {"approx"} ELSE {})

\* The average of exact and approximate energy over all integer instructions
\* is 0/0 when there are none.  The runtime pass computes no leakage.
FunctionalEnergy ==
    /\ EStep("fu")
    /\ stats' = Entry(estmt.name, estmt.pass) ++ stats
    /\ LET fu == estmt.name
           dyn == IF cfg.int_instructions = 0 THEN {<<fu, "NaN", estmt.pass>>}
                  ELSE {<<fu, kind, estmt.pass>> :
                          kind \in FunctionalUnit(cfg, fu) \cap Executed(cfg)}
           lkg == IF estmt.pass = "tdp" THEN {<<fu, "leakage", "none">>} ELSE {}
           all == SetToBag(dyn \cup lkg)
       IN  SetPower(estmt.pass,
             Entry(fu, all) ++ Entry("exu", PowerOf(estmt.pass, "exu") (+) all))
    /\ NextEnergy

Display ==
    /\ phase = "display"
    /\ \E plevel \in 1 .. 5 : shown' = displayEnergy(cfg, plevel)
    /\ phase' = "destroy"
    /\ UNCHANGED <<vars, epc, stats, power, freed>>

Destroy ==
    /\ phase = "destroy"
    /\ freed' = IF cfg.root = "Core"
                THEN {p \in Core_deletes(cfg) : p \in DOMAIN built \cup BehindBPT}
                ELSE {}
    /\ phase' = "end"
    /\ UNCHANGED <<vars, epc, stats, power, shown>>

Ended == (phase = "end" \/ state = "exit") /\ UNCHANGED allvars

ENext == \/ Construct \/ InitStats \/ PartPower \/ SubTotal \/ PipeShare
         \/ FunctionalEnergy \/ Display \/ Destroy \/ Ended

ESpec == EInit /\ [][ENext]_allvars

-----------------------------------------------------------------------------
(* Properties. *)

Computed == phase \in {"display", "destroy", "end"}
CacheArrayNames ==
    IcacheParts \cup {"dcache.wbb"} \cup DcacheBuffers(cfg)
      \cup {"dcache.caches", "unicache.caches", "unicache.missb",
            "unicache.ifb", "unicache.prefetchb", "unicache.wbb"}

\* computeEnergy follows only pointers the constructor of the same
\* configuration has set.
OnlyBuilt ==
    phase = "compute" =>
      LET s == estmt
          touched == IF s.op = "stats"
                     THEN s.parts \ {"bypass", "homenode", "saved decode energy"}
                     ELSE IF s.op = "part" THEN {d[1] : d \in s.dyn} \cup s.lkg
                     ELSE IF s.op = "share" THEN {"corepipe"}
                     ELSE IF s.op = "fu" THEN {s.name} ELSE {}
      IN  touched \subseteq DOMAIN built

\* Every term of a runtime power uses access counts of the runtime pass and
\* every term of a peak power those of the peak pass, although both passes
\* share stats_t.  The twins have no peak accesses.  Exceptions in the code:
\* the home node of a merged directory (sharedcache.cc uses homenode_stats_t
\* where only homenode_rtp_stats were assigned), the accesses the twin of a
\* directory never gets, and the unmasked access of the buffers.  The decode
\* energy is meant to come from the peak pass.
FreshStats ==
    \A pass \in {"tdp", "rtp"} : \A n \in DOMAIN power[pass] :
      \A t \in BagToSet(power[pass][n]) :
        \/ t[2] = "leakage"
        \/ t[3] = pass /\ t[2] # "saved decode energy"
        \/ t[2] = "saved decode energy" /\ t[3] = "tdp" /\ pass = "rtp"
        \/ /\ t[2] \in {"dcache.apcaches", "unicache.apcaches"}
           /\ t[3] = "none"
           /\ pass = "tdp" \/ cfg.root \in {"L1Directory", "L2Directory"}
        \/ pass = "rtp" /\ t[2] = "homenode" /\ t[3] = "tdp"
        \/ pass = "rtp" /\ t[2] = "one access"

\* In both totals the dynamic energy of every array and wire is counted for
\* its own accesses exactly once, and in the peak total its leakage exactly
\* once, whatever units it went through; the pipeline registers are shared
\* out completely, and no total is 0/0 unless the core executed no integer
\* instruction.  Exceptions in the code: L2_localBPT is in no total, the twin
\* of a sharer tag directory has no accesses.
CountedOnce ==
    Computed =>
      /\ cfg.root = "Core" =>
           \A pass \in {"tdp", "rtp"} :
             LET total == PowerOf(pass, "Core")
             IN  /\ Copies(<<"corepipe", "share", pass>>, total) = Shares(cfg)
                 /\ (\E t \in BagToSet(total) : t[2] = "NaN")
                      <=> cfg.int_instructions = 0
      /\ \A p \in DOMAIN built \ {"L2_localBPT"} : built[p].op \in {"array", "wire"} =>
         LET counted(pass, what) ==
               LET total == PowerOf(pass, cfg.root)
               IN  MapThenSumSet(LAMBDA t : total[t],
                     {t \in BagToSet(total) : t[1] = p /\ t[2] = what})
             what == IF built[p].op = "wire" THEN "bypass" ELSE p
             dyn  == IF p = "unicache.apcaches" /\ TagDirectory(cfg, cfg.root)
                     THEN 0 ELSE 1
         IN  /\ counted("tdp", "leakage") = 1
             /\ counted("tdp", what) = dyn
             /\ counted("rtp", what) = dyn

\* The dynamic part of a power.
Dynamic(bag) ==
    [t \in {u \in BagToSet(bag) : u[2] # "leakage"} |-> bag[t]]

\* Whatever the print level, the dynamic power displayEnergy prints for a
\* unit is the sum of what it prints for the unit's parts, both passes; the
\* share of the pipeline comes on top.  Exception in the code: the predictor
\* prints L2_localBPT, which is not in its total.
BreakdownAddsUp ==
    phase = "destroy" =>
      \A parent \in {l[1] : l \in shown}, pass \in {"tdp", "rtp"} :
        LET children == {l[2] : l \in {k \in shown : k[1] = parent}}
                          \ {"L2_localBPT"}
            terms == UNION {BagToSet(PowerOf(pass, ch)) : ch \in children}
            sum == [t \in terms |-> LET has == {ch \in children :
                                                  BagIn(t, PowerOf(pass, ch))}
                                    IN  MapThenSumSet(
                                          LAMBDA ch : PowerOf(pass, ch)[t], has)]
            pipe == IF parent \in Sharing(cfg)
                    THEN SetToBag({<<"corepipe", "share", pass>>}) ELSE EmptyBag
        IN  Dynamic(PowerOf(pass, parent)) = Dynamic(sum (+) pipe)

\* The parts whose pointers displayEnergy follows to print an object.  Members
\* and the units that every core has need none; for a unit that only some
\* cores have, one that its constructor always makes stands for it.
Followed(object) ==
    CASE object = "ID"      -> Decoders
      [] object = "BPT"     -> {"RAS"}
      [] object = "rnu"     -> {"iFRAT"}
      [] object = "l2cache" -> {"unicache.caches"}
      [] object \in {"icache", "dcache", "bypass", "ifu", "lsu", "mmu", "exu",
                     "rfu", "scheu"} -> {}
      [] OTHER -> {object}

\* displayEnergy follows only pointers the constructors have set, whatever the
\* print level.
PrintsBuilt ==
    phase = "destroy" => \A l \in shown : Followed(l[2]) \subseteq DOMAIN built

\* The destructors free every part the constructors made (the arrays of a
\* cache are freed by the cache object) and nothing that was not made.
AllFreed ==
    phase = "end" /\ cfg.root = "Core" =>
      /\ freed \subseteq DOMAIN built
      /\ {p \in DOMAIN built : built[p].op # "array"
                                 \/ built[p].ip.line_sz \notin CacheArrayNames}
           \subseteq freed

\* Energy passes, printout and destructors repeat the constructors' conditions
\* on the configuration without a difference: what is used or printed was
\* made, what was made is freed, and nothing else is.
PointersMatch == OnlyBuilt /\ PrintsBuilt /\ AllFreed
=============================================================================
