----------------------------- MODULE MCProcessor -----------------------------
(* Chips for TLC: none, one or two objects of a class.  The classes that the *)
(* constructor relates (cores and private L2s, directories and controllers,  *)
(* networks with their links) are varied against each other.                 *)
EXTENDS Processor

Class == [homo : BOOLEAN, num : 0 .. 2]
Homo2 == [homo |-> TRUE, num |-> 2]

ClassesOf(core, l2, dir, ctl, noc) ==
    [k \in Classes |->
       CASE k = "cores" -> core
         [] k = "l2array" -> l2
         [] k \in {"l3array", "l1dirarray", "l2dirarray"} -> dir
         [] k = "nocs" -> noc
         [] OTHER -> [homo |-> TRUE, num |-> ctl]]

Options(private, routers, link, channels) ==
    [Private_L2 |-> private, routers |-> routers, has_global_link |-> link,
     flash_channels |-> channels]

MCConfigs ==
    {ClassesOf(core, l2, [homo |-> p, num |-> 1], 1, Homo2)
       @@ Options(p, {0}, p, 0) : core, l2 \in Class, p \in BOOLEAN}
    \cup
    {ClassesOf(Homo2, Homo2, dir, ctl, Homo2) @@ Options(FALSE, {0}, TRUE, ctl) :
       dir \in Class, ctl \in {0, 2}}
    \cup
    {ClassesOf(Homo2, Homo2, Homo2, 1, noc) @@ Options(FALSE, r, g, 1) :
       noc \in Class, r \in SUBSET {0, 1}, g \in BOOLEAN}
=============================================================================
