--------------------------- MODULE PartitionedLru ---------------------------
(***************************************************************************)
(* What a cache set with partitioned LRU replacement promises, with no age *)
(* bits: the ways of every partition are ordered by last use, a fill takes *)
(* a free way of the block's partition if there is one, and otherwise the  *)
(* least recently used way of it that is not pinned by an upgrade.         *)
(* Nothing is promised when all ways but the youngest are pinned.          *)
(***************************************************************************)

CONSTANTS Tag, NoTag,
          ExactWays, ApproxWays   \* the two partitions of the ways

VARIABLES content,   \* way -> the block it holds, or NoTag
          pinned,    \* ways whose block waits for an upgrade
          order,     \* pairs <<v, w>>: v was used after w, in their partition
          class      \* blocks that are approximate at present

vars == <<content, pinned, order, class>>

Way == ExactWays \cup ApproxWays

Together(v, w) == {v, w} \subseteq ExactWays \/ {v, w} \subseteq ApproxWays

PartitionOf(t) == IF t \in class THEN ApproxWays ELSE ExactWays

(* order is a strict total order on each partition.                        *)
OrdersPartitions ==
    /\ \A v, w \in Way : <<v, w>> \in order => Together(v, w) /\ <<w, v>> \notin order
    /\ \A v, w \in Way : Together(v, w) /\ v # w => <<v, w>> \in order \/ <<w, v>> \in order
    /\ \A u, v, w \in Way : <<u, v>> \in order /\ <<v, w>> \in order => <<u, w>> \in order

(* w becomes the youngest way of its partition.                            *)
Use(w) ==
    order' = {p \in order : p[2] # w}
             \cup {p \in {w} \X Way : Together(w, p[2]) /\ p[2] # w}

(* w may be given to a block that is filled into partition P.              *)
Replaceable(w, P) ==
    \/ content[w] = NoTag
    \/ /\ \A v \in P : content[v] # NoTag
       /\ \/ w \notin pinned /\ \A v \in P : <<w, v>> \in order => v \in pinned
          \/ \A v \in P : (\E u \in P : <<u, v>> \in order) => v \in pinned

Init ==
    /\ content = [w \in Way |-> NoTag]
    /\ pinned = {}
    /\ order \in SUBSET (Way \X Way)
    /\ OrdersPartitions
    /\ class = {}

Touch(w) ==
    /\ content[w] # NoTag
    /\ UNCHANGED <<content, pinned, class>>
    /\ Use(w)

Fill(t, w) ==
    /\ w \in PartitionOf(t)
    /\ content' = [content EXCEPT ![w] = t]
    /\ pinned' = pinned \ {w}
    /\ UNCHANGED class
    /\ \A v \in Way : content[v] # t
    /\ Replaceable(w, PartitionOf(t))
    /\ Use(w)

Drop(w) ==
    /\ content[w] # NoTag
    /\ content' = [content EXCEPT ![w] = NoTag]
    /\ pinned' = pinned \ {w}
    /\ UNCHANGED <<class, order>>

Pin(w) ==
    /\ content[w] # NoTag
    /\ pinned' \in {pinned \cup {w}, pinned \ {w}}
    /\ UNCHANGED <<content, class, order>>

Reclassify(t) ==
    /\ class' \in {class \cup {t}, class \ {t}}
    /\ UNCHANGED <<content, pinned, order>>

Next ==
    \/ \E w \in Way : Touch(w) \/ Drop(w) \/ Pin(w) \/ \E t \in Tag : Fill(t, w)
    \/ \E t \in Tag : Reclassify(t)

Spec == Init /\ [][Next]_vars
=============================================================================
