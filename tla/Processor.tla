------------------------------ MODULE Processor ------------------------------
(***************************************************************************)
(* Processor::Processor, Processor::displayEnergy and ~Processor of McPAT: *)
(* the objects of every class (cores, shared caches, directories,          *)
(* controllers, networks) are made one after the other, and each adds its  *)
(* area and power to the class and to the chip.  A homogeneous class makes *)
(* one object and multiplies it; a heterogeneous one makes them all.       *)
(*                                                                         *)
(* An area is a bag of objects; a power is a bag of terms <<object, what,  *)
(* factor>>: dynamic energy with the factor that turns it into power       *)
(* (clock rate, execution time or none), or leakage.                       *)
(***************************************************************************)
EXTENDS Naturals, Sequences, Bags, FiniteSets

CONSTANTS
    Configs \* records: class |-> [homo, num], Private_L2, which NoCs are
            \* routers (the others are buses), links, flash channels

VARIABLES
    xml,      \* the configuration
    pc,       \* what the constructor does next
    i,        \* loop counter
    objects,  \* class |-> the objects made
    area,     \* class or "chip" |-> area
    power,    \* class or "chip" |-> power (peak)
    rt_power, \* class or "chip" |-> runtime power
    chip_at,  \* network |-> chip area when its links or bus were laid out
    shown     \* what displayEnergy printed: totals of classes, and objects

vars == <<xml, pc, i, objects, area, power, rt_power, chip_at, shown>>

Arrays == {"cores", "l2array", "l3array", "l1dirarray", "l2dirarray"}
Controllers == {"mc", "flashcontroller", "niu", "pcie"}
Classes == Arrays \cup Controllers \cup {"nocs"}

ASSUME ConfigsShape ==
    \A c \in Configs :
      /\ \A k \in Classes : c[k].homo \in BOOLEAN /\ c[k].num \in Nat
      /\ c.Private_L2 \in BOOLEAN
      /\ c.routers \subseteq Nat /\ c.has_global_link \in BOOLEAN
      /\ c.flash_channels \in Nat

-----------------------------------------------------------------------------

\* numCore, numL2, ...: how many objects of an array class are made.
Num(c, class) ==
    IF c[class].homo THEN (IF c[class].num = 0 THEN 0 ELSE 1)
    ELSE c[class].num

\* Mutant: a homogeneous class counts its one object once.
Copies_One(c, class) == 1

\* How many objects one object stands for.
Copies(c, class) == IF c[class].homo THEN c[class].num ELSE 1

\* Mutant: the networks are laid out before the controllers are made.
After_NoCFirst(c) ==
    [cores |-> IF c.Private_L2 THEN "l3array" ELSE "l2array",
     l2array |-> "l3array", l3array |-> "l1dirarray",
     l1dirarray |-> "l2dirarray", l2dirarray |-> "noc_area",
     noc_area |-> "noc_link", noc_link |-> "noc_energy", noc_energy |-> "mc",
     mc |-> "flashcontroller", flashcontroller |-> "niu", niu |-> "pcie",
     pcie |-> "built"]

\* The order of the constructor: what follows each step.  The areas of the
\* NoC routers, then the links and energies come last.
After(c) ==
    [cores |-> IF c.Private_L2 THEN "l3array" ELSE "l2array",
     l2array |-> "l3array", l3array |-> "l1dirarray",
     l1dirarray |-> "l2dirarray", l2dirarray |-> "mc",
     mc |-> "flashcontroller", flashcontroller |-> "niu", niu |-> "pcie",
     pcie |-> "noc_area", noc_area |-> "noc_link", noc_link |-> "noc_energy",
     noc_energy |-> "built"]

\* power * pppm_t: dynamic energy times a factor, n copies of it, and m
\* copies of the leakage.
Times(object, factor, n, m) ==
    [t \in {<<object, "dynamic", factor>>, <<object, "leakage", "none">>} |->
       IF t[2] = "dynamic" THEN n ELSE m]
Copied(object, n) == [o \in {object} |-> n]

\* bag is added to the class and to the chip.
Add(f, class, bag) ==
    [f EXCEPT ![class] = @ (+) bag, !["chip"] = @ (+) bag]

\* bag is added to the class; the chip gets the new total of a homogeneous
\* class (whose loop runs once), or what the object itself adds.
AddInLoop(f, class, bag, chip) ==
    [f EXCEPT ![class] = @ (+) bag,
              !["chip"] = @ (+) IF xml[class].homo THEN f[class] (+) bag
                                ELSE chip]

Init ==
    /\ xml \in Configs
    /\ pc = "check"
    /\ i = 0
    /\ objects = [k \in Classes |-> {}]
    /\ area = [k \in Classes \cup {"chip"} |-> EmptyBag]
    /\ power = area
    /\ rt_power = area
    /\ chip_at = <<>>
    /\ shown = [totals |-> {}, objects |-> {}]

\* Private L2s are made by their cores; their number must be that of the
\* cores, after both have been reduced to 1 when homogeneous.
Check ==
    /\ pc = "check"
    /\ pc' = IF xml.Private_L2 /\ Num(xml, "cores") # Num(xml, "l2array")
             THEN "exit" ELSE "cores"
    /\ UNCHANGED <<xml, i, objects, area, power, rt_power, chip_at, shown>>

\* Mutant: a second level directory is added without a factor too.
ChipFactor_Both(class, factor) ==
    IF class \in {"l1dirarray", "l2dirarray"} /\ ~xml[class].homo THEN "none"
    ELSE factor

\* The factor of the chip's total: a heterogeneous first level directory is
\* added without one.
ChipFactor(class, factor) ==
    IF class = "l1dirarray" /\ ~xml[class].homo THEN "none" ELSE factor

\* One iteration of the loop over an array class.  The runtime statistics of
\* a homogeneous class are those of all its objects together, so its dynamic
\* energy is not multiplied.
MakeArrayObject(class) ==
    /\ pc = class /\ i < Num(xml, class)
    /\ LET o == <<class, i>>
           n == Copies(xml, class)
       IN  /\ objects' = [objects EXCEPT ![class] = @ \cup {o}]
           /\ area' = AddInLoop(area, class, Copied(o, n), Copied(o, n))
           /\ power' = AddInLoop(power, class, Times(o, "clock", n, n),
                                 Times(o, ChipFactor(class, "clock"), n, n))
           /\ rt_power' = AddInLoop(rt_power, class, Times(o, "time", 1, n),
                                    Times(o, ChipFactor(class, "time"), 1, n))
    /\ i' = i + 1
    /\ UNCHANGED <<xml, pc, chip_at, shown>>

\* The condition under which the single object of a controller class exists;
\* num is 0 when the configuration has no channels, except for flash.
Exists(c, class) == c[class].num > 0

MakeController(class) ==
    /\ pc = class /\ i = 0 /\ Exists(xml, class)
    /\ LET o == <<class, 0>>
           n == xml[class].num
           peak == IF class = "flashcontroller" THEN "none" ELSE "clock"
           rt == IF class = "mc" THEN Times(o, "time", 1, n)
                 ELSE Times(o, peak, n, n)
       IN  /\ objects' = [objects EXCEPT ![class] = {o}]
           /\ area' = Add(area, class, Copied(o, n))
           /\ power' = Add(power, class, Times(o, peak, n, n))
           /\ rt_power' = Add(rt_power, class, rt)
    /\ i' = 1
    /\ UNCHANGED <<xml, pc, chip_at, shown>>

\* Network o is laid out over the chip as it is now.
LaidOut(o) ==
    [x \in DOMAIN chip_at \cup {o} |-> IF x = o THEN area["chip"] ELSE chip_at[x]]

\* First loop over the networks: a router, or a bus that spans the chip as
\* it is now.
MakeNoC ==
    /\ pc = "noc_area" /\ i < Num(xml, "nocs")
    /\ LET o == <<"nocs", i>>
           n == Copies(xml, "nocs")
       IN  /\ objects' = [objects EXCEPT !["nocs"] = @ \cup {o}]
           /\ chip_at' = IF i \in xml.routers THEN chip_at
                         ELSE LaidOut(o)
           /\ area' = AddInLoop(area, "nocs", Copied(o, n), Copied(o, n))
    /\ i' = i + 1
    /\ UNCHANGED <<xml, pc, power, rt_power, shown>>

\* Second loop: the global links of the routers.
MakeLinks ==
    /\ pc = "noc_link" /\ i < Num(xml, "nocs")
    /\ LET o == <<"nocs", i>>
           link == Copied(<<"link", i>>, Copies(xml, "nocs"))
       IN  IF xml.has_global_link /\ i \in xml.routers
           THEN /\ chip_at' = LaidOut(o)
                /\ area' = Add(area, "nocs", link)
           ELSE UNCHANGED <<chip_at, area>>
    /\ i' = i + 1
    /\ UNCHANGED <<xml, pc, objects, power, rt_power, shown>>

\* Third loop: the energy of every network.
NoCEnergy ==
    /\ pc = "noc_energy" /\ i < Num(xml, "nocs")
    /\ LET o == <<"nocs", i>>
           n == Copies(xml, "nocs")
       IN  /\ power' = AddInLoop(power, "nocs", Times(o, "clock", n, n),
                                 Times(o, "clock", n, n))
           /\ rt_power' = AddInLoop(rt_power, "nocs", Times(o, "time", 1, n),
                                    Times(o, "time", 1, n))
    /\ i' = i + 1
    /\ UNCHANGED <<xml, pc, objects, area, chip_at, shown>>

\* The end of the loop or block for one step.
Limit(step) ==
    IF step \in Controllers THEN (IF Exists(xml, step) THEN 1 ELSE 0)
    ELSE Num(xml, IF step \in {"noc_area", "noc_link", "noc_energy"}
                  THEN "nocs" ELSE step)

NextStep ==
    /\ pc \in DOMAIN After(xml) /\ i >= Limit(pc)
    /\ pc' = After(xml)[pc]
    /\ i' = 0
    /\ UNCHANGED <<xml, objects, area, power, rt_power, chip_at, shown>>

\* The class totals that displayEnergy prints, and the objects it prints when
\* plevel > 1.
TotalLines(c) ==
    {k \in Arrays : Num(c, k) > 0 /\ ~(k = "l2array" /\ c.Private_L2)}
      \cup {k \in Controllers \cup {"nocs"} : c[k].num > 0}
ObjectLines(c, made) ==
    UNION {made[k] : k \in Classes \ {"flashcontroller"}}
      \cup (IF c.flash_channels > 0 THEN made["flashcontroller"] ELSE {})

displayEnergy(plevel) ==
    /\ pc = "built"
    /\ shown' = [totals |-> TotalLines(xml),
                 objects |-> IF plevel > 1 THEN ObjectLines(xml, objects)
                             ELSE {}]
    /\ pc' = "displayed"
    /\ UNCHANGED <<xml, i, objects, area, power, rt_power, chip_at>>

\* ~Processor deletes the objects of every class from the back.
Delete ==
    /\ pc = "displayed"
    /\ IF \A k \in Classes : objects[k] = {}
       THEN pc' = "end" /\ UNCHANGED objects
       ELSE /\ UNCHANGED pc
            /\ LET order == <<"cores", "l2array", "l3array", "nocs", "l1dirarray",
                           "l2dirarray", "mc", "niu", "pcie",
                           "flashcontroller">>
                   k == order[CHOOSE n \in 1 .. Len(order) :
                                /\ objects[order[n]] # {}
                                /\ \A m \in 1 .. n - 1 : objects[order[m]] = {}]
               IN  objects' = [objects EXCEPT ![k] =
                     @ \ {<<k, Cardinality(@) - 1>>}]
    /\ UNCHANGED <<xml, i, area, power, rt_power, chip_at, shown>>

Ended == pc \in {"exit", "end"} /\ UNCHANGED vars

Next ==
    \/ Check \/ MakeNoC \/ MakeLinks \/ NoCEnergy \/ NextStep \/ Delete \/ Ended
    \/ \E class \in Arrays : MakeArrayObject(class)
    \/ \E class \in Controllers : MakeController(class)
    \/ \E plevel \in 1 .. 5 : displayEnergy(plevel)

Spec == Init /\ [][Next]_vars

-----------------------------------------------------------------------------
(* Properties. *)

Built == pc \in {"built", "displayed", "end"}
\* The sum of the class totals.
Sum(f) ==
    f["cores"] (+) f["l2array"] (+) f["l3array"] (+) f["l1dirarray"]
      (+) f["l2dirarray"] (+) f["mc"] (+) f["flashcontroller"] (+) f["niu"]
      (+) f["pcie"] (+) f["nocs"]
Without(bag, class) == [t \in {u \in DOMAIN bag : u[1][1] # class} |-> bag[t]]

\* displayEnergy repeats the constructor's conditions on counts and options:
\* a class is printed exactly when it contributes to the chip's power.
ShownTotals ==
    pc \in {"displayed", "end"} =>
      shown.totals = {k \in Classes : power[k] # EmptyBag}

\* The chip's area, peak power and runtime power are the sums of the class
\* totals that displayEnergy prints below them.  Exception in the code: a
\* heterogeneous first level directory enters the chip's power as energy per
\* access, its class as power.
ClassesAddUp ==
    /\ ShownTotals
    /\ Built =>
      /\ area["chip"] = Sum(area)
      /\ \A f \in {power, rt_power} :
           IF xml["l1dirarray"].homo \/ xml["l1dirarray"].num = 0
           THEN f["chip"] = Sum(f)
           ELSE Without(f["chip"], "l1dirarray") = Without(Sum(f), "l1dirarray")

\* Whether a class is homogeneous or not, the chip's area holds as many
\* objects of it as the configuration asks for: one that counts for all, or
\* each one once.  Private L2s are in the cores.
AllRepresented ==
    Built =>
      \A k \in Classes :
        LET made == {o \in DOMAIN area["chip"] : o[1] = k}
            asked == IF k = "l2array" /\ xml.Private_L2 THEN 0 ELSE xml[k].num
        IN  \/ \E o \in made : made = {o} /\ area["chip"][o] = asked
            \/ /\ \A o \in made : area["chip"][o] = 1
               /\ Cardinality(made) = asked

\* A global link is routed over the whole chip: when its length is computed
\* every other object, and every router and bus, is in the area.  A bus sees
\* everything but the networks after it.
LaidOutOverChip ==
    \A o \in DOMAIN chip_at :
      LET seen == DOMAIN chip_at[o]
      IN  /\ \A k \in Classes \ {"nocs"} : DOMAIN area[k] \subseteq seen
          /\ \A n \in 0 .. Num(xml, "nocs") - 1 :
               <<"nocs", n>> \in seen
                 <=> (o[2] \in xml.routers \/ n < o[2])
=============================================================================
