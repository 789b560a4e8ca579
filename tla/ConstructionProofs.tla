------------------------- MODULE ConstructionProofs -------------------------
(***************************************************************************)
(* Theorems about the construction of a McPAT core or shared cache         *)
(* (CoreArrays), for every configuration.                                  *)
(*                                                                         *)
(* Each constructor is a sequence of statements made of smaller ones.  The *)
(* first part of the module proves triples {facts} statements {facts} about *)
(* the reused record interface_ip, with a rule for each kind of statement and *)
(* for composition; the second, which parts a piece of the program makes and *)
(* what it adds to the area; the third, the inductive invariants, which read *)
(* the outline of the program at pc.  The judgements and the invariants are *)
(* defined in CoreInv.                                                     *)
(***************************************************************************)
EXTENDS CoreInv, SequenceTheorems, TLAPS

\* Reading a record after an assignment.
LEMMA Reading ==
    ASSUME NEW set, NEW ip
    PROVE  /\ DOMAIN (set ++ ip) = DOMAIN set \cup DOMAIN ip
           /\ \A f \in DOMAIN set \cup DOMAIN ip :
                (set ++ ip)[f] = IF f \in DOMAIN set THEN set[f] ELSE ip[f]
  BY DEF ++

\* Elements and length of a concatenation.
LEMMA SeqConcat ==
    ASSUME NEW s, NEW t, IsSeq(s), IsSeq(t)
    PROVE  /\ IsSeq(s \o t)
           /\ Len(s) \in Nat /\ Len(t) \in Nat
           /\ Len(s \o t) = Len(s) + Len(t)
           /\ \A k \in 1 .. Len(s) : (s \o t)[k] = s[k]
           /\ \A k \in 1 .. Len(t) : (s \o t)[Len(s) + k] = t[k]
<1>1. PICK X : s \in Seq(X) BY DEF IsSeq
<1>2. PICK Y : t \in Seq(Y) BY DEF IsSeq
<1>3. s \in Seq(X \cup Y) /\ t \in Seq(X \cup Y)
  BY <1>1, <1>2
<1>4. s \o t \in Seq(X \cup Y) BY <1>3
<1> QED BY <1>3, <1>4 DEF IsSeq

\* A sequence of one element.
LEMMA SeqOne ==
    ASSUME NEW e
    PROVE  IsSeq(<<e>>) /\ Len(<<e>>) = 1 /\ <<e>>[1] = e
<1>1. <<e>> \in Seq({e}) OBVIOUS
<1> QED BY <1>1 DEF IsSeq

\* The empty sequence.
LEMMA SeqNone == IsSeq(<<>>) /\ Len(<<>>) = 0
<1>1. <<>> \in Seq({}) OBVIOUS
<1> QED BY <1>1 DEF IsSeq

-----------------------------------------------------------------------------
(* Facts about the record, and composition of triples. *)

\* Fewer facts hold of the same record.
LEMMA Weaker ==
    ASSUME NEW F, NEW G, NEW c, NEW ip, NEW kept, G \subseteq F,
           Holds(F, c, ip, kept)
    PROVE  Holds(G, c, ip, kept)
  BY DEF Holds

\* The outlines of two pieces fit together.
LEMMA PathComposition ==
    ASSUME NEW c, NEW F, NEW s, NEW G, NEW t, NEW H, NEW d, NEW e, NEW h,
           IsSeq(s), IsSeq(t),
           Path(c, d, F, s, e, G), Path(c, e, G, t, h, H)
    PROVE  Path(c, d, F, s \o t, h, H)
<1>1. PICK o1 : Outlines(c, o1, d, F, s, e, G) BY DEF Path
<1>2. PICK o2 : Outlines(c, o2, e, G, t, h, H) BY DEF Path
<1> DEFINE m == Len(s)
           n == Len(t)
           o == [k \in 0 .. m + n |-> IF k < m THEN o1[k] ELSE o2[k - m]]
<1>3. m \in Nat /\ n \in Nat /\ Len(s \o t) = m + n
  BY SeqConcat
<1>4. /\ o1[0].depth = d /\ o1[0].facts \subseteq F
      /\ o1[m].depth = e /\ G \subseteq o1[m].facts
      /\ \A k \in 0 .. m : o1[k].depth \in Nat \ {0}
      /\ \A k \in 1 .. m : Valid(c, o1[k - 1], s[k], o1[k])
  BY <1>1 DEF Outlines
<1>5. /\ o2[0].depth = e /\ o2[0].facts \subseteq G
      /\ o2[n].depth = h /\ H \subseteq o2[n].facts
      /\ \A k \in 0 .. n : o2[k].depth \in Nat \ {0}
      /\ \A k \in 1 .. n : Valid(c, o2[k - 1], t[k], o2[k])
  BY <1>2 DEF Outlines
<1> HIDE DEF m, n
<1>6. /\ \A k \in 0 .. m - 1 : o[k] = o1[k]
      /\ \A k \in 0 .. n : o[m + k] = o2[k]
  <2>1. ASSUME NEW k \in 0 .. m - 1 PROVE o[k] = o1[k] BY <1>3
  <2>2. ASSUME NEW k \in 0 .. n PROVE o[m + k] = o2[k]
    <3>1. m + k \in 0 .. m + n /\ ~(m + k < m) /\ (m + k) - m = k BY <1>3
    <3> QED BY <3>1
  <2> QED BY <2>1, <2>2
<1>7. DOMAIN o = 0 .. m + n OBVIOUS
<1> HIDE DEF o
<1>8. o[0].depth = d /\ o[0].facts \subseteq F
  <2>1. CASE m = 0
    <3>1. o[0] = o2[0] BY <2>1, <1>6, <1>3
    <3> QED BY <3>1, <2>1, <1>4, <1>5
  <2>2. CASE m # 0
    <3>1. o[0] = o1[0] BY <2>2, <1>6, <1>3
    <3> QED BY <3>1, <1>4
  <2> QED BY <2>1, <2>2
<1>9. o[m + n].depth = h /\ H \subseteq o[m + n].facts
  <2>1. o[m + n] = o2[n] BY <1>6, <1>3
  <2> QED BY <2>1, <1>5
<1>10. ASSUME NEW k \in 0 .. m + n PROVE o[k].depth \in Nat \ {0}
  <2>1. CASE k < m
    <3>1. k \in 0 .. m - 1 /\ k \in 0 .. m BY <2>1, <1>3
    <3> QED BY <3>1, <1>6, <1>4
  <2>2. CASE ~(k < m)
    <3>1. k - m \in 0 .. n /\ m + (k - m) = k BY <2>2, <1>3
    <3>2. o[k] = o2[k - m] BY <3>1, <1>6
    <3> QED BY <3>1, <3>2, <1>5
  <2> QED BY <2>1, <2>2
<1>11. ASSUME NEW k \in 1 .. m + n
       PROVE  Valid(c, o[k - 1], (s \o t)[k], o[k])
  <2>1. CASE k < m
    <3>1. /\ k \in 1 .. m /\ k \in 0 .. m - 1 /\ k - 1 \in 0 .. m - 1
      BY <2>1, <1>3
    <3>2. (s \o t)[k] = s[k] BY <3>1, SeqConcat DEF m
    <3> QED BY <3>1, <3>2, <1>6, <1>4
  <2>2. CASE k = m
    <3>1. /\ k \in 1 .. m /\ k - 1 \in 0 .. m - 1 /\ m + 0 = m /\ 0 \in 0 .. n
      BY <2>2, <1>3
    <3>2. (s \o t)[k] = s[k] BY <3>1, SeqConcat DEF m
    <3>3. o[k - 1] = o1[k - 1] /\ o[k] = o2[0] BY <3>1, <2>2, <1>6
    <3>4. Valid(c, o1[k - 1], s[k], o1[k]) BY <3>1, <1>4
    <3>5. /\ o2[0].depth = o1[k].depth /\ o2[0].facts \subseteq o1[k].facts
      BY <2>2, <1>4, <1>5
    <3>6. Valid(c, o1[k - 1], s[k], o2[0])
      BY <3>4, <3>5, Weaker DEF Valid, Moves
    <3> QED BY <3>6, <3>2, <3>3
  <2>3. CASE k > m
    <3>1. /\ k - m \in 1 .. n /\ k - m \in 0 .. n /\ (k - m) - 1 \in 0 .. n
          /\ m + (k - m) = k /\ m + ((k - m) - 1) = k - 1
      BY <2>3, <1>3
    <3>2. (s \o t)[k] = t[k - m] BY <3>1, SeqConcat DEF m, n
    <3>3. o[k - 1] = o2[(k - m) - 1] /\ o[k] = o2[k - m] BY <3>1, <1>6
    <3> QED BY <3>1, <3>2, <3>3, <1>5
  <2> QED BY <2>1, <2>2, <2>3, <1>3
<1>12. Outlines(c, o, d, F, s \o t, h, H)
  BY <1>3, <1>7, <1>8, <1>9, <1>10, <1>11 DEF Outlines
<1> QED BY <1>12 DEF Path

\* The rule of composition.
LEMMA Composition ==
    ASSUME NEW c, NEW F, NEW s, NEW G, NEW t, NEW H,
           Triple(c, F, s, G), Triple(c, G, t, H)
    PROVE  Triple(c, F, s \o t, H)
  BY SeqConcat, PathComposition DEF Triple

\* The rule of the empty program.
LEMMA Empty ==
    ASSUME NEW c, NEW F, NEW G, G \subseteq F
    PROVE  Triple(c, F, <<>>, G)
<1>1. ASSUME NEW d \in Nat \ {0}
      PROVE  Path(c, d, F, <<>>, d, G)
  <2> DEFINE o == [k \in {0} |-> [depth |-> d, facts |-> F]]
  <2>1. o[0].depth = d /\ o[0].facts = F OBVIOUS
  <2>2. DOMAIN o = 0 .. 0 OBVIOUS
  <2> HIDE DEF o
  <2>3. Outlines(c, o, d, F, <<>>, d, G) BY <2>1, <2>2, SeqNone DEF Outlines
  <2> QED BY <2>3 DEF Path
<1> QED BY <1>1, SeqNone DEF Triple

\* A run of single statements with facts f[k] in between.
LEMMA Run ==
    ASSUME NEW c, NEW s, IsSeq(s), NEW f, DOMAIN f = 0 .. Len(s),
           \A k \in 1 .. Len(s) : Moves(c, f[k - 1], s[k], f[k])
    PROVE  Triple(c, f[0], s, f[Len(s)])
<1>0. Len(s) \in Nat BY SeqConcat
<1>1. ASSUME NEW d \in Nat \ {0}
      PROVE  Path(c, d, f[0], s, d, f[Len(s)])
  <2> DEFINE n == Len(s)
             o == [k \in 0 .. n |-> [depth |-> d, facts |-> f[k]]]
  <2> HIDE DEF n
  <2>1. \A k \in 0 .. n : o[k].depth = d /\ o[k].facts = f[k] OBVIOUS
  <2>2. DOMAIN o = 0 .. n OBVIOUS
  <2> HIDE DEF o
  <2>3. ASSUME NEW k \in 1 .. n PROVE Valid(c, o[k - 1], s[k], o[k])
    <3>1. k \in 0 .. n /\ k - 1 \in 0 .. n BY <1>0 DEF n
    <3>2. Moves(c, f[k - 1], s[k], f[k]) BY DEF n
    <3> QED BY <2>1, <3>1, <3>2 DEF Valid, Moves
  <2>4. 0 \in 0 .. n /\ n \in 0 .. n BY <1>0 DEF n
  <2>5. Outlines(c, o, d, f[0], s, d, f[n])
    BY <2>1, <2>2, <2>3, <2>4 DEF Outlines, n
  <2> QED BY <2>5 DEF n, Path
<1> QED BY <1>1 DEF Triple

\* A run of statements that all keep the same facts.
LEMMA Steady ==
    ASSUME NEW c, NEW F, NEW s, IsSeq(s),
           \A k \in 1 .. Len(s) : Moves(c, F, s[k], F)
    PROVE  Triple(c, F, s, F)
<1> DEFINE f == [k \in 0 .. Len(s) |-> F]
<1>0. Len(s) \in Nat BY SeqConcat
<1>1. \A k \in 0 .. Len(s) : f[k] = F OBVIOUS
<1>2. DOMAIN f = 0 .. Len(s) OBVIOUS
<1> HIDE DEF f
<1>3. ASSUME NEW k \in 1 .. Len(s) PROVE Moves(c, f[k - 1], s[k], f[k])
  <2>1. k \in 0 .. Len(s) /\ k - 1 \in 0 .. Len(s) BY <1>0
  <2> QED BY <1>1, <2>1
<1>4. Triple(c, f[0], s, f[Len(s)]) BY <1>2, <1>3, Run
<1> QED BY <1>4, <1>1, <1>0

\* A single statement.
LEMMA One ==
    ASSUME NEW c, NEW F, NEW st, NEW G, Moves(c, F, st, G)
    PROVE  Triple(c, F, <<st>>, G)
<1> DEFINE f == [k \in 0 .. 1 |-> IF k = 0 THEN F ELSE G]
<1>1. f[0] = F /\ f[1] = G /\ DOMAIN f = 0 .. 1 OBVIOUS
<1> HIDE DEF f
<1>2. \A k \in 1 .. 1 : Moves(c, f[k - 1], <<st>>[k], f[k])
  BY <1>1, SeqOne
<1>3. Triple(c, f[0], <<st>>, f[Len(<<st>>)])
  BY <1>1, <1>2, SeqOne, Run
<1> QED BY <1>3, <1>1, SeqOne

\* A single step of an outline.
LEMMA Transition ==
    ASSUME NEW c, NEW st, NEW d \in Nat \ {0}, NEW e \in Nat \ {0},
           NEW F, NEW G,
           Valid(c, [depth |-> d, facts |-> F], st, [depth |-> e, facts |-> G])
    PROVE  Path(c, d, F, <<st>>, e, G)
<1> DEFINE o == [k \in 0 .. 1 |-> IF k = 0 THEN [depth |-> d, facts |-> F]
                                  ELSE [depth |-> e, facts |-> G]]
<1>1. /\ o[0] = [depth |-> d, facts |-> F] /\ o[1] = [depth |-> e, facts |-> G]
      /\ DOMAIN o = 0 .. 1
  OBVIOUS
<1> HIDE DEF o
<1>2. \A k \in 1 .. 1 : Valid(c, o[k - 1], <<st>>[k], o[k]) BY <1>1, SeqOne
<1>3. Outlines(c, o, d, F, <<st>>, e, G) BY <1>1, <1>2, SeqOne DEF Outlines
<1> QED BY <1>3 DEF Path

\* A constructor called from another one works on a copy of its facts.
LEMMA UnitTriple ==
    ASSUME NEW c, NEW unit, NEW counted, NEW body, NEW F, NEW G,
           Plain \subseteq F, Triple(c, F, body, G)
    PROVE  Triple(c, F, Unit(unit, counted, body), Plain)
<1> DEFINE enter == [op |-> "enter", unit |-> unit]
           leave == [op |-> "leave", unit |-> unit, counted |-> counted]
<1>1. IsSeq(body) BY DEF Triple
<1>2. IsSeq(<<enter>> \o body) /\ IsSeq(<<leave>>) /\ IsSeq(<<enter>>)
      /\ IsSeq((<<enter>> \o body) \o <<leave>>)
  BY <1>1, SeqOne, SeqConcat
<1>3. ASSUME NEW d \in Nat \ {0}
      PROVE  Path(c, d, F, (<<enter>> \o body) \o <<leave>>, d, Plain)
  <2>1. Path(c, d, F, <<enter>>, d + 1, F)
    <3>1. Valid(c, [depth |-> d, facts |-> F], enter,
                [depth |-> d + 1, facts |-> F])
      BY DEF Valid
    <3> HIDE DEF enter
    <3> QED BY <3>1, Transition
  <2>2. Path(c, d + 1, F, body, d + 1, G) BY DEF Triple
  <2>3. Path(c, d + 1, G, <<leave>>, d, Plain)
    <3>1. Valid(c, [depth |-> d + 1, facts |-> G], leave,
                [depth |-> d, facts |-> Plain])
      BY DEF Valid
    <3> HIDE DEF leave
    <3> QED BY <3>1, Transition
  <2> HIDE DEF enter, leave
  <2>4. Path(c, d, F, <<enter>> \o body, d + 1, G)
    BY <1>1, <1>2, <2>1, <2>2, PathComposition
  <2> QED BY <1>2, <2>3, <2>4, PathComposition
<1>4. Unit(unit, counted, body) = (<<enter>> \o body) \o <<leave>>
  BY DEF Unit
<1> QED BY <1>2, <1>3, <1>4 DEF Triple

-----------------------------------------------------------------------------
(* The rule for each kind of array statement. *)

\* The rule of an array.
LEMMA ArrayRule ==
    ASSUME NEW c, NEW F, NEW G, NEW part, NEW counted, NEW set,
           ASSUME NEW ip, NEW kept, Holds(F, c, ip, kept)
           PROVE  /\ AcceptedArray(c, part, set ++ ip)
                  /\ Powered(c, part, set ++ ip)
                  /\ Holds(G, c, set ++ ip, kept)
    PROVE  Moves(c, F, Array(part, counted, set), G)
<1> DEFINE st == Array(part, counted, set)
<1>1. st.op = "array" /\ st.part = part /\ st.set = set BY DEF Array
<1> HIDE DEF st
<1>2. \A ip, kept : IpAfter(st, ip, kept) = set ++ ip
                    /\ KeptAfter(st, ip, kept) = kept
  BY <1>1 DEF IpAfter, KeptAfter
<1>3. Moves(c, F, st, G) BY <1>1, <1>2 DEF Moves, Through
<1> QED BY <1>3 DEF st

\* Reading the record of an array after its assignments.
LEMMA ReadingBack ==
    ASSUME NEW ip, Fields \subseteq DOMAIN ip, NEW set, DOMAIN set \subseteq Dims
    PROVE  /\ Fields \subseteq DOMAIN (set ++ ip)
           /\ \A f \in DOMAIN set : (set ++ ip)[f] = set[f]
           /\ \A f \in Fields \ DOMAIN set : (set ++ ip)[f] = ip[f]
<1>1. Dims \subseteq Fields BY DEF Dims
<1>2. /\ DOMAIN (set ++ ip) = DOMAIN set \cup DOMAIN ip
      /\ \A f \in DOMAIN set \cup DOMAIN ip :
             (set ++ ip)[f] = IF f \in DOMAIN set THEN set[f] ELSE ip[f]
  BY DEF ++
<1> QED BY <1>1, <1>2

\* An assignment of sizes and ports leaves voltages and modes alone.
LEMMA Untouched ==
    ASSUME NEW c \in ConfigType, NEW ip, NEW kept, Holds(Plain, c, ip, kept),
           NEW n, NEW part, part \notin Twins,
           \A f \in Volts \cup {"approx_mode", "force_cache_config"} :
              n[f] = ip[f]
    PROVE  /\ Powered(c, part, n)
           /\ n.approx_mode # 1 /\ n.force_cache_config = FALSE
           /\ At(n, Voltage(c))
<1>4. n.approx_mode # 1 /\ n.force_cache_config = FALSE
  BY DEF Holds, Plain
<1>5. At(n, Voltage(c)) BY DEF Holds, Plain, At, Volts
<1>6. Powered(c, part, n)
  BY <1>5 DEF Powered, Supply, SupplyOf, At, Twins, ConfigType, Devices
<1> QED BY <1>4, <1>5, <1>6

\* What the sets of facts say, field by field.
LEMMA HoldsWhat ==
    ASSUME NEW c, NEW ip, NEW kept
    PROVE  /\ Holds(Plain, c, ip, kept) <=>
                /\ Typed(ip, kept)
                /\ ip.approx_mode # 1 /\ ip.force_cache_config = FALSE
                /\ At(ip, Voltage(c))
           /\ Holds(Searched, c, ip, kept) <=>
                /\ Typed(ip, kept)
                /\ ip.approx_mode # 1 /\ ip.force_cache_config = FALSE
                /\ At(ip, Voltage(c))
                /\ ip.is_cache = TRUE
                /\ (ip.num_search_ports >= 1 \/ NoPorts(c))
           /\ Holds(Threaded, c, ip, kept) <=>
                /\ Typed(ip, kept)
                /\ ip.approx_mode # 1 /\ ip.force_cache_config = FALSE
                /\ At(ip, Voltage(c))
                /\ (ip.is_cache => ip.tag_w = "thread")
                /\ ip.assoc # 0
           /\ Holds(Plain \cup {"cache"}, c, ip, kept) <=>
                /\ Typed(ip, kept)
                /\ ip.approx_mode # 1 /\ ip.force_cache_config = FALSE
                /\ At(ip, Voltage(c))
                /\ ip.is_cache = TRUE
           /\ Holds(Plain \cup {"iFRAT"}, c, ip, kept) <=>
                /\ Typed(ip, kept)
                /\ ip.approx_mode # 1 /\ ip.force_cache_config = FALSE
                /\ At(ip, Voltage(c))
                /\ ip.tag_w = "iFRAT"
  BY DEF Holds, Plain, Searched, Threaded

\* A fully associative array that sets everything.
LEMMA CamMoves ==
    ASSUME NEW c \in ConfigType,
           NEW part,
           part \notin Twins,
           NEW rw \in Nat,
           NEW rd \in Nat,
           NEW wr \in Nat,
           NEW search \in Nat,
           NoPorts(c) \/ (rw + rd + wr >= 1 /\ search >= 1)
    PROVE  Moves(c, Plain, Array(part, TRUE, Cache ++ Geometry(part) ++ Tag(part) ++ Assoc(0)
                    ++ Ports(rw, rd, wr) ++ Search(search)), Plain)
<1> DEFINE set == Cache ++ Geometry(part) ++ Tag(part) ++ Assoc(0)
                    ++ Ports(rw, rd, wr) ++ Search(search)
<1>1. /\ DOMAIN set = {"is_cache", "pure_cam", "pure_ram", "line_sz", "cache_sz", "tag_w", "assoc", "num_rw_ports", "num_rd_ports", "num_wr_ports", "num_search_ports"}
      /\ set.is_cache = TRUE
      /\ set.pure_cam = FALSE
      /\ set.pure_ram = FALSE
      /\ set.line_sz = part
      /\ set.cache_sz = part
      /\ set.tag_w = part
      /\ set.assoc = 0
      /\ set.num_rw_ports = rw
      /\ set.num_rd_ports = rd
      /\ set.num_wr_ports = wr
      /\ set.num_search_ports = search
  BY DEF ++, Geometry, Tag, Assoc, Ports, Search, Cache, Ram
<1> HIDE DEF set
<1>2. ASSUME NEW ip, NEW kept, Holds(Plain, c, ip, kept)
      PROVE  /\ AcceptedArray(c, part, set ++ ip)
             /\ Powered(c, part, set ++ ip)
             /\ Holds(Plain, c, set ++ ip, kept)
  <2> DEFINE n == set ++ ip
  <2>0. DOMAIN set \subseteq Dims BY <1>1 DEF Dims, Fields, Volts
  <2>b. Plain \subseteq Plain BY DEF Searched, Threaded
  <2>c. Holds(Plain, c, ip, kept) BY <1>2, <2>b, Weaker
  <2>d. /\ Fields \subseteq DOMAIN n
        /\ \A f \in DOMAIN set : n[f] = set[f]
        /\ \A f \in Fields \ DOMAIN set : n[f] = ip[f]
    <3>1. Fields \subseteq DOMAIN ip BY <1>2 DEF Holds, Typed
    <3> QED BY <2>0, <3>1, ReadingBack
  <2> HIDE DEF n
  <2>e. /\ Powered(c, part, n)
        /\ n.approx_mode # 1 /\ n.force_cache_config = FALSE
        /\ At(n, Voltage(c))
    <3>1. part \notin Twins BY DEF Twins, Tables
    <3>2. \A f \in Volts \cup {"approx_mode", "force_cache_config"} :
             n[f] = ip[f]
      BY <2>0, <2>d DEF Dims, Fields
    <3> QED BY <2>c, <3>1, <3>2, Untouched
  <2>1. Fields \subseteq DOMAIN n BY <2>d
  <2>2. /\ n.is_cache = TRUE
        /\ n.pure_cam = FALSE
        /\ n.pure_ram = FALSE
        /\ n.line_sz = part
        /\ n.cache_sz = part
        /\ n.tag_w = part
        /\ n.assoc = 0
        /\ n.num_rw_ports = rw
        /\ n.num_rd_ports = rd
        /\ n.num_wr_ports = wr
        /\ n.num_search_ports = search
    BY <1>1, <2>d
  <2>3. TRUE
    OBVIOUS
  <2>a. /\ Typed(ip, kept)
        /\ ip.approx_mode # 1 /\ ip.force_cache_config = FALSE
        /\ At(ip, Voltage(c))
    BY <1>2, HoldsWhat
  <2>4. AcceptedArray(c, part, n)
    BY <2>a, <2>1, <2>2, <2>3, <2>e
    DEF AcceptedArray, error_checking, PortsOk, ShapeOk, fully_assoc,
        GoodArray, Sized, Twins, Tables, Typed, ConfigType
  <2>5. Holds(Plain, c, n, kept)
    <3>0. n.num_wr_ports \in Int BY <2>2
    <3>1. Typed(n, kept)
      BY <3>0, <2>a, <2>1, <2>2, <2>3 DEF Typed
    <3> QED BY <3>1, <2>e, HoldsWhat
  <2> QED BY <2>e, <2>4, <2>5 DEF n
<1>3. Moves(c, Plain, Array(part, TRUE, set), Plain) BY <1>2, ArrayRule
<1> QED BY <1>3 DEF set

\* A RAM.
LEMMA RamMoves ==
    ASSUME NEW c \in ConfigType,
           NEW part,
           part \notin Twins,
           NEW rw \in Nat,
           NEW rd \in Nat,
           NEW wr \in Int,
           NoPorts(c) \/ rw + rd + wr >= 1
    PROVE  Moves(c, Plain, Array(part, TRUE, Ram ++ Geometry(part) ++ Assoc(1) ++ Ports(rw, rd, wr)), Plain)
<1> DEFINE set == Ram ++ Geometry(part) ++ Assoc(1) ++ Ports(rw, rd, wr)
<1>1. /\ DOMAIN set = {"is_cache", "pure_cam", "pure_ram", "line_sz", "cache_sz", "assoc", "num_rw_ports", "num_rd_ports", "num_wr_ports"}
      /\ set.is_cache = FALSE
      /\ set.pure_cam = FALSE
      /\ set.pure_ram = TRUE
      /\ set.line_sz = part
      /\ set.cache_sz = part
      /\ set.assoc = 1
      /\ set.num_rw_ports = rw
      /\ set.num_rd_ports = rd
      /\ set.num_wr_ports = wr
  BY DEF ++, Geometry, Tag, Assoc, Ports, Search, Cache, Ram
<1> HIDE DEF set
<1>2. ASSUME NEW ip, NEW kept, Holds(Plain, c, ip, kept)
      PROVE  /\ AcceptedArray(c, part, set ++ ip)
             /\ Powered(c, part, set ++ ip)
             /\ Holds(Plain, c, set ++ ip, kept)
  <2> DEFINE n == set ++ ip
  <2>0. DOMAIN set \subseteq Dims BY <1>1 DEF Dims, Fields, Volts
  <2>b. Plain \subseteq Plain BY DEF Searched, Threaded
  <2>c. Holds(Plain, c, ip, kept) BY <1>2, <2>b, Weaker
  <2>d. /\ Fields \subseteq DOMAIN n
        /\ \A f \in DOMAIN set : n[f] = set[f]
        /\ \A f \in Fields \ DOMAIN set : n[f] = ip[f]
    <3>1. Fields \subseteq DOMAIN ip BY <1>2 DEF Holds, Typed
    <3> QED BY <2>0, <3>1, ReadingBack
  <2> HIDE DEF n
  <2>e. /\ Powered(c, part, n)
        /\ n.approx_mode # 1 /\ n.force_cache_config = FALSE
        /\ At(n, Voltage(c))
    <3>1. part \notin Twins BY DEF Twins, Tables
    <3>2. \A f \in Volts \cup {"approx_mode", "force_cache_config"} :
             n[f] = ip[f]
      BY <2>0, <2>d DEF Dims, Fields
    <3> QED BY <2>c, <3>1, <3>2, Untouched
  <2>1. Fields \subseteq DOMAIN n BY <2>d
  <2>2. /\ n.is_cache = FALSE
        /\ n.pure_cam = FALSE
        /\ n.pure_ram = TRUE
        /\ n.line_sz = part
        /\ n.cache_sz = part
        /\ n.assoc = 1
        /\ n.num_rw_ports = rw
        /\ n.num_rd_ports = rd
        /\ n.num_wr_ports = wr
    BY <1>1, <2>d
  <2>3. /\ n.num_search_ports = ip.num_search_ports
    BY <1>1, <2>d DEF Fields, Volts
  <2>a. /\ Typed(ip, kept)
        /\ ip.approx_mode # 1 /\ ip.force_cache_config = FALSE
        /\ At(ip, Voltage(c))
    BY <1>2, HoldsWhat
  <2>4. AcceptedArray(c, part, n)
    BY <2>a, <2>1, <2>2, <2>3, <2>e
    DEF AcceptedArray, error_checking, PortsOk, ShapeOk, fully_assoc,
        GoodArray, Sized, Twins, Tables, Typed, ConfigType
  <2>5. Holds(Plain, c, n, kept)
    <3>1. Typed(n, kept)
      BY <2>a, <2>1, <2>2, <2>3 DEF Typed
    <3> QED BY <3>1, <2>e, HoldsWhat
  <2> QED BY <2>e, <2>4, <2>5 DEF n
<1>3. Moves(c, Plain, Array(part, TRUE, set), Plain) BY <1>2, ArrayRule
<1> QED BY <1>3 DEF set

\* A buffer of a first or second level cache.
LEMMA BufferMoves ==
    ASSUME NEW c \in ConfigType,
           NEW part,
           part \notin Twins,
           NEW ports \in Nat,
           NoPorts(c) \/ ports >= 1
    PROVE  Moves(c, Searched, Buffer(part, ports), Searched)
<1> DEFINE set == Geometry(part) ++ Tag(part) ++ Assoc(0) ++ Ports(ports, 0, 0)
<1>1. /\ DOMAIN set = {"line_sz", "cache_sz", "tag_w", "assoc", "num_rw_ports", "num_rd_ports", "num_wr_ports"}
      /\ set.line_sz = part
      /\ set.cache_sz = part
      /\ set.tag_w = part
      /\ set.assoc = 0
      /\ set.num_rw_ports = ports
      /\ set.num_rd_ports = 0
      /\ set.num_wr_ports = 0
  BY DEF ++, Geometry, Tag, Assoc, Ports, Search, Cache, Ram
<1> HIDE DEF set
<1>2. ASSUME NEW ip, NEW kept, Holds(Searched, c, ip, kept)
      PROVE  /\ AcceptedArray(c, part, set ++ ip)
             /\ Powered(c, part, set ++ ip)
             /\ Holds(Searched, c, set ++ ip, kept)
  <2> DEFINE n == set ++ ip
  <2>0. DOMAIN set \subseteq Dims BY <1>1 DEF Dims, Fields, Volts
  <2>b. Plain \subseteq Searched BY DEF Searched, Threaded
  <2>c. Holds(Plain, c, ip, kept) BY <1>2, <2>b, Weaker
  <2>d. /\ Fields \subseteq DOMAIN n
        /\ \A f \in DOMAIN set : n[f] = set[f]
        /\ \A f \in Fields \ DOMAIN set : n[f] = ip[f]
    <3>1. Fields \subseteq DOMAIN ip BY <1>2 DEF Holds, Typed
    <3> QED BY <2>0, <3>1, ReadingBack
  <2> HIDE DEF n
  <2>e. /\ Powered(c, part, n)
        /\ n.approx_mode # 1 /\ n.force_cache_config = FALSE
        /\ At(n, Voltage(c))
    <3>1. part \notin Twins BY DEF Twins, Tables
    <3>2. \A f \in Volts \cup {"approx_mode", "force_cache_config"} :
             n[f] = ip[f]
      BY <2>0, <2>d DEF Dims, Fields
    <3> QED BY <2>c, <3>1, <3>2, Untouched
  <2>1. Fields \subseteq DOMAIN n BY <2>d
  <2>2. /\ n.line_sz = part
        /\ n.cache_sz = part
        /\ n.tag_w = part
        /\ n.assoc = 0
        /\ n.num_rw_ports = ports
        /\ n.num_rd_ports = 0
        /\ n.num_wr_ports = 0
    BY <1>1, <2>d
  <2>3. /\ n.num_search_ports = ip.num_search_ports
        /\ n.is_cache = ip.is_cache
        /\ n.pure_cam = ip.pure_cam
    BY <1>1, <2>d DEF Fields, Volts
  <2>a. /\ Typed(ip, kept)
        /\ ip.approx_mode # 1 /\ ip.force_cache_config = FALSE
        /\ At(ip, Voltage(c))
        /\ ip.is_cache = TRUE
        /\ ip.num_search_ports >= 1 \/ NoPorts(c)
    BY <1>2, HoldsWhat
  <2>4. AcceptedArray(c, part, n)
    BY <2>a, <2>1, <2>2, <2>3, <2>e
    DEF AcceptedArray, error_checking, PortsOk, ShapeOk, fully_assoc,
        GoodArray, Sized, Twins, Tables, Typed, ConfigType
  <2>5. Holds(Searched, c, n, kept)
    <3>0. /\ n.num_rd_ports \in Nat
          /\ n.num_wr_ports \in Nat
      BY <2>2 DEF ConfigType
    <3>1. Typed(n, kept)
      BY <3>0, <2>a, <2>1, <2>2, <2>3 DEF Typed
    <3>2. /\ n.is_cache = TRUE
          /\ n.num_search_ports >= 1 \/ NoPorts(c)
      BY <2>a, <2>2, <2>3
    <3> QED BY <3>1, <3>2, <2>e, HoldsWhat
  <2> QED BY <2>e, <2>4, <2>5 DEF n
<1>3. Moves(c, Searched, Array(part, TRUE, set), Searched) BY <1>2, ArrayRule
<1> QED BY <1>3 DEF set, Buffer, BufferFields

\* The load queue.
LEMMA LoadQMoves ==
    ASSUME NEW c \in ConfigType,
           NoPorts(c) \/ c.mem_ports >= 1
    PROVE  Moves(c, Searched, LoadQ(c), Searched)
<1> DEFINE set == Geometry("LoadQ") ++ Tag("LoadQ") ++ Assoc(0)
                    ++ Ports(0, c.mem_ports, c.mem_ports) ++ Search(c.mem_ports)
<1>1. /\ DOMAIN set = {"line_sz", "cache_sz", "tag_w", "assoc", "num_rw_ports", "num_rd_ports", "num_wr_ports", "num_search_ports"}
      /\ set.line_sz = "LoadQ"
      /\ set.cache_sz = "LoadQ"
      /\ set.tag_w = "LoadQ"
      /\ set.assoc = 0
      /\ set.num_rw_ports = 0
      /\ set.num_rd_ports = c.mem_ports
      /\ set.num_wr_ports = c.mem_ports
      /\ set.num_search_ports = c.mem_ports
  BY DEF ++, Geometry, Tag, Assoc, Ports, Search, Cache, Ram
<1> HIDE DEF set
<1>2. ASSUME NEW ip, NEW kept, Holds(Searched, c, ip, kept)
      PROVE  /\ AcceptedArray(c, "LoadQ", set ++ ip)
             /\ Powered(c, "LoadQ", set ++ ip)
             /\ Holds(Searched, c, set ++ ip, kept)
  <2> DEFINE n == set ++ ip
  <2>0. DOMAIN set \subseteq Dims BY <1>1 DEF Dims, Fields, Volts
  <2>b. Plain \subseteq Searched BY DEF Searched, Threaded
  <2>c. Holds(Plain, c, ip, kept) BY <1>2, <2>b, Weaker
  <2>d. /\ Fields \subseteq DOMAIN n
        /\ \A f \in DOMAIN set : n[f] = set[f]
        /\ \A f \in Fields \ DOMAIN set : n[f] = ip[f]
    <3>1. Fields \subseteq DOMAIN ip BY <1>2 DEF Holds, Typed
    <3> QED BY <2>0, <3>1, ReadingBack
  <2> HIDE DEF n
  <2>e. /\ Powered(c, "LoadQ", n)
        /\ n.approx_mode # 1 /\ n.force_cache_config = FALSE
        /\ At(n, Voltage(c))
    <3>1. "LoadQ" \notin Twins BY DEF Twins, Tables
    <3>2. \A f \in Volts \cup {"approx_mode", "force_cache_config"} :
             n[f] = ip[f]
      BY <2>0, <2>d DEF Dims, Fields
    <3> QED BY <2>c, <3>1, <3>2, Untouched
  <2>1. Fields \subseteq DOMAIN n BY <2>d
  <2>2. /\ n.line_sz = "LoadQ"
        /\ n.cache_sz = "LoadQ"
        /\ n.tag_w = "LoadQ"
        /\ n.assoc = 0
        /\ n.num_rw_ports = 0
        /\ n.num_rd_ports = c.mem_ports
        /\ n.num_wr_ports = c.mem_ports
        /\ n.num_search_ports = c.mem_ports
    BY <1>1, <2>d
  <2>3. /\ n.is_cache = ip.is_cache
        /\ n.pure_cam = ip.pure_cam
    BY <1>1, <2>d DEF Fields, Volts
  <2>a. /\ Typed(ip, kept)
        /\ ip.approx_mode # 1 /\ ip.force_cache_config = FALSE
        /\ At(ip, Voltage(c))
        /\ ip.is_cache = TRUE
        /\ ip.num_search_ports >= 1 \/ NoPorts(c)
    BY <1>2, HoldsWhat
  <2>4. AcceptedArray(c, "LoadQ", n)
    BY <2>a, <2>1, <2>2, <2>3, <2>e
    DEF AcceptedArray, error_checking, PortsOk, ShapeOk, fully_assoc,
        GoodArray, Sized, Twins, Tables, Typed, ConfigType
  <2>5. Holds(Searched, c, n, kept)
    <3>0. /\ n.num_rw_ports \in Nat
          /\ n.num_rd_ports \in Nat
          /\ n.num_wr_ports \in Nat
          /\ n.num_search_ports \in Nat
      BY <2>2 DEF ConfigType
    <3>1. Typed(n, kept)
      BY <3>0, <2>a, <2>1, <2>2, <2>3 DEF Typed
    <3>2. /\ n.is_cache = TRUE
          /\ n.num_search_ports >= 1 \/ NoPorts(c)
      BY <2>a, <2>2, <2>3
    <3> QED BY <3>1, <3>2, <2>e, HoldsWhat
  <2> QED BY <2>e, <2>4, <2>5 DEF n
<1>3. Moves(c, Searched, Array("LoadQ", TRUE, set), Searched) BY <1>2, ArrayRule
<1> QED BY <1>3 DEF set, LoadQ, QueueFields

\* The load store queue.
LEMMA LsqMoves ==
    ASSUME NEW c \in ConfigType,
           NoPorts(c) \/ c.mem_ports >= 1
    PROVE  Moves(c, Searched, LSQ(c), Searched)
<1> DEFINE set == (Geometry("LSQ") ++ Tag("LSQ") ++ Assoc(0)
                    ++ Ports(0, c.mem_ports, c.mem_ports) ++ Search(c.mem_ports))
                    ++ [is_cache |-> TRUE]
<1>1. /\ DOMAIN set = {"line_sz", "cache_sz", "tag_w", "assoc", "num_rw_ports", "num_rd_ports", "num_wr_ports", "num_search_ports", "is_cache"}
      /\ set.line_sz = "LSQ"
      /\ set.cache_sz = "LSQ"
      /\ set.tag_w = "LSQ"
      /\ set.assoc = 0
      /\ set.num_rw_ports = 0
      /\ set.num_rd_ports = c.mem_ports
      /\ set.num_wr_ports = c.mem_ports
      /\ set.num_search_ports = c.mem_ports
      /\ set.is_cache = TRUE
  BY DEF ++, Geometry, Tag, Assoc, Ports, Search, Cache, Ram
<1> HIDE DEF set
<1>2. ASSUME NEW ip, NEW kept, Holds(Searched, c, ip, kept)
      PROVE  /\ AcceptedArray(c, "LSQ", set ++ ip)
             /\ Powered(c, "LSQ", set ++ ip)
             /\ Holds(Searched, c, set ++ ip, kept)
  <2> DEFINE n == set ++ ip
  <2>0. DOMAIN set \subseteq Dims BY <1>1 DEF Dims, Fields, Volts
  <2>b. Plain \subseteq Searched BY DEF Searched, Threaded
  <2>c. Holds(Plain, c, ip, kept) BY <1>2, <2>b, Weaker
  <2>d. /\ Fields \subseteq DOMAIN n
        /\ \A f \in DOMAIN set : n[f] = set[f]
        /\ \A f \in Fields \ DOMAIN set : n[f] = ip[f]
    <3>1. Fields \subseteq DOMAIN ip BY <1>2 DEF Holds, Typed
    <3> QED BY <2>0, <3>1, ReadingBack
  <2> HIDE DEF n
  <2>e. /\ Powered(c, "LSQ", n)
        /\ n.approx_mode # 1 /\ n.force_cache_config = FALSE
        /\ At(n, Voltage(c))
    <3>1. "LSQ" \notin Twins BY DEF Twins, Tables
    <3>2. \A f \in Volts \cup {"approx_mode", "force_cache_config"} :
             n[f] = ip[f]
      BY <2>0, <2>d DEF Dims, Fields
    <3> QED BY <2>c, <3>1, <3>2, Untouched
  <2>1. Fields \subseteq DOMAIN n BY <2>d
  <2>2. /\ n.line_sz = "LSQ"
        /\ n.cache_sz = "LSQ"
        /\ n.tag_w = "LSQ"
        /\ n.assoc = 0
        /\ n.num_rw_ports = 0
        /\ n.num_rd_ports = c.mem_ports
        /\ n.num_wr_ports = c.mem_ports
        /\ n.num_search_ports = c.mem_ports
        /\ n.is_cache = TRUE
    BY <1>1, <2>d
  <2>3. /\ n.pure_cam = ip.pure_cam
    BY <1>1, <2>d DEF Fields, Volts
  <2>a. /\ Typed(ip, kept)
        /\ ip.approx_mode # 1 /\ ip.force_cache_config = FALSE
        /\ At(ip, Voltage(c))
        /\ ip.is_cache = TRUE
        /\ ip.num_search_ports >= 1 \/ NoPorts(c)
    BY <1>2, HoldsWhat
  <2>4. AcceptedArray(c, "LSQ", n)
    BY <2>a, <2>1, <2>2, <2>3, <2>e
    DEF AcceptedArray, error_checking, PortsOk, ShapeOk, fully_assoc,
        GoodArray, Sized, Twins, Tables, Typed, ConfigType
  <2>5. Holds(Searched, c, n, kept)
    <3>0. /\ n.num_rw_ports \in Nat
          /\ n.num_rd_ports \in Nat
          /\ n.num_wr_ports \in Int
          /\ n.num_search_ports \in Nat
      BY <2>2 DEF ConfigType
    <3>1. Typed(n, kept)
      BY <3>0, <2>a, <2>1, <2>2, <2>3 DEF Typed
    <3>2. /\ n.is_cache = TRUE
          /\ n.num_search_ports >= 1 \/ NoPorts(c)
      BY <2>a, <2>2, <2>3
    <3> QED BY <3>1, <3>2, <2>e, HoldsWhat
  <2> QED BY <2>e, <2>4, <2>5 DEF n
<1>3. Moves(c, Searched, Array("LSQ", TRUE, set), Searched) BY <1>2, ArrayRule
<1> QED BY <1>3 DEF set, LSQ, QueueFields

\* The instruction cache.
LEMMA IcacheMoves ==
    ASSUME NEW c \in ConfigType,
           NoPorts(c) \/ c.fetch_ports >= 1
    PROVE  Moves(c, Plain, icache(c), Plain \cup {"cache"})
<1> DEFINE set == Geometry("icache.caches") ++ Tag("icache.caches") ++ Assoc(8)
                    ++ Cache ++ Ports(c.fetch_ports, 0, 0)
<1>1. /\ DOMAIN set = {"line_sz", "cache_sz", "tag_w", "assoc", "is_cache", "pure_cam", "pure_ram", "num_rw_ports", "num_rd_ports", "num_wr_ports"}
      /\ set.line_sz = "icache.caches"
      /\ set.cache_sz = "icache.caches"
      /\ set.tag_w = "icache.caches"
      /\ set.assoc = 8
      /\ set.is_cache = TRUE
      /\ set.pure_cam = FALSE
      /\ set.pure_ram = FALSE
      /\ set.num_rw_ports = c.fetch_ports
      /\ set.num_rd_ports = 0
      /\ set.num_wr_ports = 0
  BY DEF ++, Geometry, Tag, Assoc, Ports, Search, Cache, Ram
<1> HIDE DEF set
<1>2. ASSUME NEW ip, NEW kept, Holds(Plain, c, ip, kept)
      PROVE  /\ AcceptedArray(c, "icache.caches", set ++ ip)
             /\ Powered(c, "icache.caches", set ++ ip)
             /\ Holds(Plain \cup {"cache"}, c, set ++ ip, kept)
  <2> DEFINE n == set ++ ip
  <2>0. DOMAIN set \subseteq Dims BY <1>1 DEF Dims, Fields, Volts
  <2>b. Plain \subseteq Plain BY DEF Searched, Threaded
  <2>c. Holds(Plain, c, ip, kept) BY <1>2, <2>b, Weaker
  <2>d. /\ Fields \subseteq DOMAIN n
        /\ \A f \in DOMAIN set : n[f] = set[f]
        /\ \A f \in Fields \ DOMAIN set : n[f] = ip[f]
    <3>1. Fields \subseteq DOMAIN ip BY <1>2 DEF Holds, Typed
    <3> QED BY <2>0, <3>1, ReadingBack
  <2> HIDE DEF n
  <2>e. /\ Powered(c, "icache.caches", n)
        /\ n.approx_mode # 1 /\ n.force_cache_config = FALSE
        /\ At(n, Voltage(c))
    <3>1. "icache.caches" \notin Twins BY DEF Twins, Tables
    <3>2. \A f \in Volts \cup {"approx_mode", "force_cache_config"} :
             n[f] = ip[f]
      BY <2>0, <2>d DEF Dims, Fields
    <3> QED BY <2>c, <3>1, <3>2, Untouched
  <2>1. Fields \subseteq DOMAIN n BY <2>d
  <2>2. /\ n.line_sz = "icache.caches"
        /\ n.cache_sz = "icache.caches"
        /\ n.tag_w = "icache.caches"
        /\ n.assoc = 8
        /\ n.is_cache = TRUE
        /\ n.pure_cam = FALSE
        /\ n.pure_ram = FALSE
        /\ n.num_rw_ports = c.fetch_ports
        /\ n.num_rd_ports = 0
        /\ n.num_wr_ports = 0
    BY <1>1, <2>d
  <2>3. /\ n.num_search_ports = ip.num_search_ports
    BY <1>1, <2>d DEF Fields, Volts
  <2>a. /\ Typed(ip, kept)
        /\ ip.approx_mode # 1 /\ ip.force_cache_config = FALSE
        /\ At(ip, Voltage(c))
    BY <1>2, HoldsWhat
  <2>4. AcceptedArray(c, "icache.caches", n)
    BY <2>a, <2>1, <2>2, <2>3, <2>e
    DEF AcceptedArray, error_checking, PortsOk, ShapeOk, fully_assoc,
        GoodArray, Sized, Twins, Tables, Typed, ConfigType
  <2>5. Holds(Plain \cup {"cache"}, c, n, kept)
    <3>0. /\ n.num_rw_ports \in Nat
          /\ n.num_rd_ports \in Nat
          /\ n.num_wr_ports \in Int
      BY <2>2 DEF ConfigType
    <3>1. Typed(n, kept)
      BY <3>0, <2>a, <2>1, <2>2, <2>3 DEF Typed
    <3>2. /\ n.is_cache = TRUE
      BY <2>a, <2>2, <2>3
    <3> QED BY <3>1, <3>2, <2>e, HoldsWhat
  <2> QED BY <2>e, <2>4, <2>5 DEF n
<1>3. Moves(c, Plain, Array("icache.caches", TRUE, set), Plain \cup {"cache"}) BY <1>2, ArrayRule
<1> QED BY <1>3 DEF set, icache

\* A miss buffer that sets the search ports for the buffers after it.
LEMMA IcacheMissbMoves ==
    ASSUME NEW c \in ConfigType,
           NoPorts(c) \/ c.fetch_ports >= 1
    PROVE  Moves(c, Plain \cup {"cache"}, icache_missb(c), Searched)
<1> DEFINE set == (Geometry("icache.missb") ++ Tag("icache.missb") ++ Assoc(0)
                    ++ Ports(c.fetch_ports, 0, 0)) ++ Search(c.fetch_ports)
<1>1. /\ DOMAIN set = {"line_sz", "cache_sz", "tag_w", "assoc", "num_rw_ports", "num_rd_ports", "num_wr_ports", "num_search_ports"}
      /\ set.line_sz = "icache.missb"
      /\ set.cache_sz = "icache.missb"
      /\ set.tag_w = "icache.missb"
      /\ set.assoc = 0
      /\ set.num_rw_ports = c.fetch_ports
      /\ set.num_rd_ports = 0
      /\ set.num_wr_ports = 0
      /\ set.num_search_ports = c.fetch_ports
  BY DEF ++, Geometry, Tag, Assoc, Ports, Search, Cache, Ram
<1> HIDE DEF set
<1>2. ASSUME NEW ip, NEW kept, Holds(Plain \cup {"cache"}, c, ip, kept)
      PROVE  /\ AcceptedArray(c, "icache.missb", set ++ ip)
             /\ Powered(c, "icache.missb", set ++ ip)
             /\ Holds(Searched, c, set ++ ip, kept)
  <2> DEFINE n == set ++ ip
  <2>0. DOMAIN set \subseteq Dims BY <1>1 DEF Dims, Fields, Volts
  <2>b. Plain \subseteq Plain \cup {"cache"} BY DEF Searched, Threaded
  <2>c. Holds(Plain, c, ip, kept) BY <1>2, <2>b, Weaker
  <2>d. /\ Fields \subseteq DOMAIN n
        /\ \A f \in DOMAIN set : n[f] = set[f]
        /\ \A f \in Fields \ DOMAIN set : n[f] = ip[f]
    <3>1. Fields \subseteq DOMAIN ip BY <1>2 DEF Holds, Typed
    <3> QED BY <2>0, <3>1, ReadingBack
  <2> HIDE DEF n
  <2>e. /\ Powered(c, "icache.missb", n)
        /\ n.approx_mode # 1 /\ n.force_cache_config = FALSE
        /\ At(n, Voltage(c))
    <3>1. "icache.missb" \notin Twins BY DEF Twins, Tables
    <3>2. \A f \in Volts \cup {"approx_mode", "force_cache_config"} :
             n[f] = ip[f]
      BY <2>0, <2>d DEF Dims, Fields
    <3> QED BY <2>c, <3>1, <3>2, Untouched
  <2>1. Fields \subseteq DOMAIN n BY <2>d
  <2>2. /\ n.line_sz = "icache.missb"
        /\ n.cache_sz = "icache.missb"
        /\ n.tag_w = "icache.missb"
        /\ n.assoc = 0
        /\ n.num_rw_ports = c.fetch_ports
        /\ n.num_rd_ports = 0
        /\ n.num_wr_ports = 0
        /\ n.num_search_ports = c.fetch_ports
    BY <1>1, <2>d
  <2>3. /\ n.is_cache = ip.is_cache
        /\ n.pure_cam = ip.pure_cam
    BY <1>1, <2>d DEF Fields, Volts
  <2>a. /\ Typed(ip, kept)
        /\ ip.approx_mode # 1 /\ ip.force_cache_config = FALSE
        /\ At(ip, Voltage(c))
        /\ ip.is_cache = TRUE
    BY <1>2, HoldsWhat
  <2>4. AcceptedArray(c, "icache.missb", n)
    BY <2>a, <2>1, <2>2, <2>3, <2>e
    DEF AcceptedArray, error_checking, PortsOk, ShapeOk, fully_assoc,
        GoodArray, Sized, Twins, Tables, Typed, ConfigType
  <2>5. Holds(Searched, c, n, kept)
    <3>0. /\ n.num_rw_ports \in Nat
          /\ n.num_rd_ports \in Nat
          /\ n.num_wr_ports \in Nat
          /\ n.num_search_ports \in Nat
      BY <2>2 DEF ConfigType
    <3>1. Typed(n, kept)
      BY <3>0, <2>a, <2>1, <2>2, <2>3 DEF Typed
    <3>2. /\ n.is_cache = TRUE
          /\ n.num_search_ports >= 1 \/ NoPorts(c)
      BY <2>a, <2>2, <2>3
    <3> QED BY <3>1, <3>2, <2>e, HoldsWhat
  <2> QED BY <2>e, <2>4, <2>5 DEF n
<1>3. Moves(c, Plain \cup {"cache"}, Array("icache.missb", TRUE, set), Searched) BY <1>2, ArrayRule
<1> QED BY <1>3 DEF set, icache_missb, BufferFields

\* A miss buffer that sets the search ports for the buffers after it.
LEMMA UnicacheMissbMoves ==
    ASSUME NEW c \in ConfigType
    PROVE  Moves(c, Plain, unicache_missb, Searched)
<1> DEFINE set == (Geometry("unicache.missb") ++ Tag("unicache.missb") ++ Assoc(0)
                    ++ Ports(1, 0, 0)) ++ Cache ++ Search(1)
<1>1. /\ DOMAIN set = {"line_sz", "cache_sz", "tag_w", "assoc", "num_rw_ports", "num_rd_ports", "num_wr_ports", "is_cache", "pure_cam", "pure_ram", "num_search_ports"}
      /\ set.line_sz = "unicache.missb"
      /\ set.cache_sz = "unicache.missb"
      /\ set.tag_w = "unicache.missb"
      /\ set.assoc = 0
      /\ set.num_rw_ports = 1
      /\ set.num_rd_ports = 0
      /\ set.num_wr_ports = 0
      /\ set.is_cache = TRUE
      /\ set.pure_cam = FALSE
      /\ set.pure_ram = FALSE
      /\ set.num_search_ports = 1
  BY DEF ++, Geometry, Tag, Assoc, Ports, Search, Cache, Ram
<1> HIDE DEF set
<1>2. ASSUME NEW ip, NEW kept, Holds(Plain, c, ip, kept)
      PROVE  /\ AcceptedArray(c, "unicache.missb", set ++ ip)
             /\ Powered(c, "unicache.missb", set ++ ip)
             /\ Holds(Searched, c, set ++ ip, kept)
  <2> DEFINE n == set ++ ip
  <2>0. DOMAIN set \subseteq Dims BY <1>1 DEF Dims, Fields, Volts
  <2>b. Plain \subseteq Plain BY DEF Searched, Threaded
  <2>c. Holds(Plain, c, ip, kept) BY <1>2, <2>b, Weaker
  <2>d. /\ Fields \subseteq DOMAIN n
        /\ \A f \in DOMAIN set : n[f] = set[f]
        /\ \A f \in Fields \ DOMAIN set : n[f] = ip[f]
    <3>1. Fields \subseteq DOMAIN ip BY <1>2 DEF Holds, Typed
    <3> QED BY <2>0, <3>1, ReadingBack
  <2> HIDE DEF n
  <2>e. /\ Powered(c, "unicache.missb", n)
        /\ n.approx_mode # 1 /\ n.force_cache_config = FALSE
        /\ At(n, Voltage(c))
    <3>1. "unicache.missb" \notin Twins BY DEF Twins, Tables
    <3>2. \A f \in Volts \cup {"approx_mode", "force_cache_config"} :
             n[f] = ip[f]
      BY <2>0, <2>d DEF Dims, Fields
    <3> QED BY <2>c, <3>1, <3>2, Untouched
  <2>1. Fields \subseteq DOMAIN n BY <2>d
  <2>2. /\ n.line_sz = "unicache.missb"
        /\ n.cache_sz = "unicache.missb"
        /\ n.tag_w = "unicache.missb"
        /\ n.assoc = 0
        /\ n.num_rw_ports = 1
        /\ n.num_rd_ports = 0
        /\ n.num_wr_ports = 0
        /\ n.is_cache = TRUE
        /\ n.pure_cam = FALSE
        /\ n.pure_ram = FALSE
        /\ n.num_search_ports = 1
    BY <1>1, <2>d
  <2>3. TRUE
    OBVIOUS
  <2>a. /\ Typed(ip, kept)
        /\ ip.approx_mode # 1 /\ ip.force_cache_config = FALSE
        /\ At(ip, Voltage(c))
    BY <1>2, HoldsWhat
  <2>4. AcceptedArray(c, "unicache.missb", n)
    BY <2>a, <2>1, <2>2, <2>3, <2>e
    DEF AcceptedArray, error_checking, PortsOk, ShapeOk, fully_assoc,
        GoodArray, Sized, Twins, Tables, Typed, ConfigType
  <2>5. Holds(Searched, c, n, kept)
    <3>0. /\ n.num_rw_ports \in Nat
          /\ n.num_rd_ports \in Nat
          /\ n.num_wr_ports \in Int
          /\ n.num_search_ports \in Nat
      BY <2>2 DEF ConfigType
    <3>1. Typed(n, kept)
      BY <3>0, <2>a, <2>1, <2>2, <2>3 DEF Typed
    <3>2. /\ n.is_cache = TRUE
          /\ n.num_search_ports >= 1 \/ NoPorts(c)
      BY <2>a, <2>2, <2>3
    <3> QED BY <3>1, <3>2, <2>e, HoldsWhat
  <2> QED BY <2>e, <2>4, <2>5 DEF n
<1>3. Moves(c, Plain, Array("unicache.missb", TRUE, set), Searched) BY <1>2, ArrayRule
<1> QED BY <1>3 DEF set, unicache_missb, BufferFields

\* The branch target buffer.
LEMMA BtbMoves ==
    ASSUME NEW c \in ConfigType
    PROVE  Moves(c, Plain, BTB(c), Plain)
<1> DEFINE set == Cache ++ Geometry("BTB") ++ Tag("BTB") ++ Assoc(4)
                    ++ Ports(1, c.predictionW, c.predictionW)
<1>1. /\ DOMAIN set = {"is_cache", "pure_cam", "pure_ram", "line_sz", "cache_sz", "tag_w", "assoc", "num_rw_ports", "num_rd_ports", "num_wr_ports"}
      /\ set.is_cache = TRUE
      /\ set.pure_cam = FALSE
      /\ set.pure_ram = FALSE
      /\ set.line_sz = "BTB"
      /\ set.cache_sz = "BTB"
      /\ set.tag_w = "BTB"
      /\ set.assoc = 4
      /\ set.num_rw_ports = 1
      /\ set.num_rd_ports = c.predictionW
      /\ set.num_wr_ports = c.predictionW
  BY DEF ++, Geometry, Tag, Assoc, Ports, Search, Cache, Ram
<1> HIDE DEF set
<1>2. ASSUME NEW ip, NEW kept, Holds(Plain, c, ip, kept)
      PROVE  /\ AcceptedArray(c, "BTB", set ++ ip)
             /\ Powered(c, "BTB", set ++ ip)
             /\ Holds(Plain, c, set ++ ip, kept)
  <2> DEFINE n == set ++ ip
  <2>0. DOMAIN set \subseteq Dims BY <1>1 DEF Dims, Fields, Volts
  <2>b. Plain \subseteq Plain BY DEF Searched, Threaded
  <2>c. Holds(Plain, c, ip, kept) BY <1>2, <2>b, Weaker
  <2>d. /\ Fields \subseteq DOMAIN n
        /\ \A f \in DOMAIN set : n[f] = set[f]
        /\ \A f \in Fields \ DOMAIN set : n[f] = ip[f]
    <3>1. Fields \subseteq DOMAIN ip BY <1>2 DEF Holds, Typed
    <3> QED BY <2>0, <3>1, ReadingBack
  <2> HIDE DEF n
  <2>e. /\ Powered(c, "BTB", n)
        /\ n.approx_mode # 1 /\ n.force_cache_config = FALSE
        /\ At(n, Voltage(c))
    <3>1. "BTB" \notin Twins BY DEF Twins, Tables
    <3>2. \A f \in Volts \cup {"approx_mode", "force_cache_config"} :
             n[f] = ip[f]
      BY <2>0, <2>d DEF Dims, Fields
    <3> QED BY <2>c, <3>1, <3>2, Untouched
  <2>1. Fields \subseteq DOMAIN n BY <2>d
  <2>2. /\ n.is_cache = TRUE
        /\ n.pure_cam = FALSE
        /\ n.pure_ram = FALSE
        /\ n.line_sz = "BTB"
        /\ n.cache_sz = "BTB"
        /\ n.tag_w = "BTB"
        /\ n.assoc = 4
        /\ n.num_rw_ports = 1
        /\ n.num_rd_ports = c.predictionW
        /\ n.num_wr_ports = c.predictionW
    BY <1>1, <2>d
  <2>3. /\ n.num_search_ports = ip.num_search_ports
    BY <1>1, <2>d DEF Fields, Volts
  <2>a. /\ Typed(ip, kept)
        /\ ip.approx_mode # 1 /\ ip.force_cache_config = FALSE
        /\ At(ip, Voltage(c))
    BY <1>2, HoldsWhat
  <2>4. AcceptedArray(c, "BTB", n)
    BY <2>a, <2>1, <2>2, <2>3, <2>e
    DEF AcceptedArray, error_checking, PortsOk, ShapeOk, fully_assoc,
        GoodArray, Sized, Twins, Tables, Typed, ConfigType
  <2>5. Holds(Plain, c, n, kept)
    <3>0. /\ n.num_rw_ports \in Nat
          /\ n.num_rd_ports \in Nat
          /\ n.num_wr_ports \in Int
      BY <2>2 DEF ConfigType
    <3>1. Typed(n, kept)
      BY <3>0, <2>a, <2>1, <2>2, <2>3 DEF Typed
    <3> QED BY <3>1, <2>e, HoldsWhat
  <2> QED BY <2>e, <2>4, <2>5 DEF n
<1>3. Moves(c, Plain, Array("BTB", TRUE, set), Plain) BY <1>2, ArrayRule
<1> QED BY <1>3 DEF set, BTB

\* A table of the branch predictor.
LEMMA TableMoves ==
    ASSUME NEW c \in ConfigType,
           NEW part \in Tables,
           c.predictionW > 0
    PROVE  Moves(c, Threaded, Table(part, c), Threaded)
<1> DEFINE set == Geometry(part) ++ Ports(0, c.predictionW, c.predictionW)
<1>1. /\ DOMAIN set = {"line_sz", "cache_sz", "num_rw_ports", "num_rd_ports", "num_wr_ports"}
      /\ set.line_sz = part
      /\ set.cache_sz = part
      /\ set.num_rw_ports = 0
      /\ set.num_rd_ports = c.predictionW
      /\ set.num_wr_ports = c.predictionW
  BY DEF ++, Geometry, Tag, Assoc, Ports, Search, Cache, Ram
<1> HIDE DEF set
<1>2. ASSUME NEW ip, NEW kept, Holds(Threaded, c, ip, kept)
      PROVE  /\ AcceptedArray(c, part, set ++ ip)
             /\ Powered(c, part, set ++ ip)
             /\ Holds(Threaded, c, set ++ ip, kept)
  <2> DEFINE n == set ++ ip
  <2>0. DOMAIN set \subseteq Dims BY <1>1 DEF Dims, Fields, Volts
  <2>b. Plain \subseteq Threaded BY DEF Searched, Threaded
  <2>c. Holds(Plain, c, ip, kept) BY <1>2, <2>b, Weaker
  <2>d. /\ Fields \subseteq DOMAIN n
        /\ \A f \in DOMAIN set : n[f] = set[f]
        /\ \A f \in Fields \ DOMAIN set : n[f] = ip[f]
    <3>1. Fields \subseteq DOMAIN ip BY <1>2 DEF Holds, Typed
    <3> QED BY <2>0, <3>1, ReadingBack
  <2> HIDE DEF n
  <2>e. /\ Powered(c, part, n)
        /\ n.approx_mode # 1 /\ n.force_cache_config = FALSE
        /\ At(n, Voltage(c))
    <3>1. part \notin Twins BY DEF Twins, Tables
    <3>2. \A f \in Volts \cup {"approx_mode", "force_cache_config"} :
             n[f] = ip[f]
      BY <2>0, <2>d DEF Dims, Fields
    <3> QED BY <2>c, <3>1, <3>2, Untouched
  <2>1. Fields \subseteq DOMAIN n BY <2>d
  <2>2. /\ n.line_sz = part
        /\ n.cache_sz = part
        /\ n.num_rw_ports = 0
        /\ n.num_rd_ports = c.predictionW
        /\ n.num_wr_ports = c.predictionW
    BY <1>1, <2>d
  <2>3. /\ n.num_search_ports = ip.num_search_ports
        /\ n.is_cache = ip.is_cache
        /\ n.pure_cam = ip.pure_cam
        /\ n.tag_w = ip.tag_w
        /\ n.assoc = ip.assoc
    BY <1>1, <2>d DEF Fields, Volts
  <2>a. /\ Typed(ip, kept)
        /\ ip.approx_mode # 1 /\ ip.force_cache_config = FALSE
        /\ At(ip, Voltage(c))
        /\ ip.is_cache => ip.tag_w = "thread"
        /\ ip.assoc # 0
    BY <1>2, HoldsWhat
  <2>4. AcceptedArray(c, part, n)
    BY <2>a, <2>1, <2>2, <2>3, <2>e
    DEF AcceptedArray, error_checking, PortsOk, ShapeOk, fully_assoc,
        GoodArray, Sized, Twins, Tables, Typed, ConfigType
  <2>5. Holds(Threaded, c, n, kept)
    <3>0. /\ n.num_rw_ports \in Nat
          /\ n.num_rd_ports \in Nat
          /\ n.num_wr_ports \in Nat
      BY <2>2 DEF ConfigType
    <3>1. Typed(n, kept)
      BY <3>0, <2>a, <2>1, <2>2, <2>3 DEF Typed
    <3>2. /\ n.is_cache => n.tag_w = "thread"
          /\ n.assoc # 0
      BY <2>a, <2>2, <2>3
    <3> QED BY <3>1, <3>2, <2>e, HoldsWhat
  <2> QED BY <2>e, <2>4, <2>5 DEF n
<1>3. Moves(c, Threaded, Array(part, TRUE, set), Threaded) BY <1>2, ArrayRule
<1> QED BY <1>3 DEF set, Table

\* The reorder buffer.
LEMMA RobMoves ==
    ASSUME NEW c \in ConfigType
    PROVE  Moves(c, Plain, ReorderBuffer(c), Plain)
<1> DEFINE set == Ram ++ Geometry("ROB") ++ Assoc(1) ++ Ports(0, c.peak_issueW, c.peak_issueW)
                    ++ Search(0)
<1>1. /\ DOMAIN set = {"is_cache", "pure_cam", "pure_ram", "line_sz", "cache_sz", "assoc", "num_rw_ports", "num_rd_ports", "num_wr_ports", "num_search_ports"}
      /\ set.is_cache = FALSE
      /\ set.pure_cam = FALSE
      /\ set.pure_ram = TRUE
      /\ set.line_sz = "ROB"
      /\ set.cache_sz = "ROB"
      /\ set.assoc = 1
      /\ set.num_rw_ports = 0
      /\ set.num_rd_ports = c.peak_issueW
      /\ set.num_wr_ports = c.peak_issueW
      /\ set.num_search_ports = 0
  BY DEF ++, Geometry, Tag, Assoc, Ports, Search, Cache, Ram
<1> HIDE DEF set
<1>2. ASSUME NEW ip, NEW kept, Holds(Plain, c, ip, kept)
      PROVE  /\ AcceptedArray(c, "ROB", set ++ ip)
             /\ Powered(c, "ROB", set ++ ip)
             /\ Holds(Plain, c, set ++ ip, kept)
  <2> DEFINE n == set ++ ip
  <2>0. DOMAIN set \subseteq Dims BY <1>1 DEF Dims, Fields, Volts
  <2>b. Plain \subseteq Plain BY DEF Searched, Threaded
  <2>c. Holds(Plain, c, ip, kept) BY <1>2, <2>b, Weaker
  <2>d. /\ Fields \subseteq DOMAIN n
        /\ \A f \in DOMAIN set : n[f] = set[f]
        /\ \A f \in Fields \ DOMAIN set : n[f] = ip[f]
    <3>1. Fields \subseteq DOMAIN ip BY <1>2 DEF Holds, Typed
    <3> QED BY <2>0, <3>1, ReadingBack
  <2> HIDE DEF n
  <2>e. /\ Powered(c, "ROB", n)
        /\ n.approx_mode # 1 /\ n.force_cache_config = FALSE
        /\ At(n, Voltage(c))
    <3>1. "ROB" \notin Twins BY DEF Twins, Tables
    <3>2. \A f \in Volts \cup {"approx_mode", "force_cache_config"} :
             n[f] = ip[f]
      BY <2>0, <2>d DEF Dims, Fields
    <3> QED BY <2>c, <3>1, <3>2, Untouched
  <2>1. Fields \subseteq DOMAIN n BY <2>d
  <2>2. /\ n.is_cache = FALSE
        /\ n.pure_cam = FALSE
        /\ n.pure_ram = TRUE
        /\ n.line_sz = "ROB"
        /\ n.cache_sz = "ROB"
        /\ n.assoc = 1
        /\ n.num_rw_ports = 0
        /\ n.num_rd_ports = c.peak_issueW
        /\ n.num_wr_ports = c.peak_issueW
        /\ n.num_search_ports = 0
    BY <1>1, <2>d
  <2>3. TRUE
    OBVIOUS
  <2>a. /\ Typed(ip, kept)
        /\ ip.approx_mode # 1 /\ ip.force_cache_config = FALSE
        /\ At(ip, Voltage(c))
    BY <1>2, HoldsWhat
  <2>4. AcceptedArray(c, "ROB", n)
    BY <2>a, <2>1, <2>2, <2>3, <2>e
    DEF AcceptedArray, error_checking, PortsOk, ShapeOk, fully_assoc,
        GoodArray, Sized, Twins, Tables, Typed, ConfigType
  <2>5. Holds(Plain, c, n, kept)
    <3>0. /\ n.num_rw_ports \in Nat
          /\ n.num_rd_ports \in Nat
          /\ n.num_wr_ports \in Int
          /\ n.num_search_ports \in Nat
      BY <2>2 DEF ConfigType
    <3>1. Typed(n, kept)
      BY <3>0, <2>a, <2>1, <2>2, <2>3 DEF Typed
    <3> QED BY <3>1, <2>e, HoldsWhat
  <2> QED BY <2>e, <2>4, <2>5 DEF n
<1>3. Moves(c, Plain, Array("ROB", TRUE, set), Plain) BY <1>2, ArrayRule
<1> QED BY <1>3 DEF set, ReorderBuffer

\* The integer front RAT of RAM based reservation stations.
LEMMA StationIntMoves ==
    ASSUME NEW c \in ConfigType,
           NoPorts(c) \/ c.commitW >= 1
    PROVE  Moves(c, Plain, CamTable("iFRAT", 2 * c.decodeW, c.decodeW, c.commitW), Plain \cup {"iFRAT"})
<1> DEFINE set == Cache ++ Geometry("iFRAT") ++ Tag("iFRAT") ++ Assoc(0)
                    ++ Ports(1, 2 * c.decodeW, c.decodeW) ++ Search(c.commitW)
<1>1. /\ DOMAIN set = {"is_cache", "pure_cam", "pure_ram", "line_sz", "cache_sz", "tag_w", "assoc", "num_rw_ports", "num_rd_ports", "num_wr_ports", "num_search_ports"}
      /\ set.is_cache = TRUE
      /\ set.pure_cam = FALSE
      /\ set.pure_ram = FALSE
      /\ set.line_sz = "iFRAT"
      /\ set.cache_sz = "iFRAT"
      /\ set.tag_w = "iFRAT"
      /\ set.assoc = 0
      /\ set.num_rw_ports = 1
      /\ set.num_rd_ports = 2 * c.decodeW
      /\ set.num_wr_ports = c.decodeW
      /\ set.num_search_ports = c.commitW
  BY DEF ++, Geometry, Tag, Assoc, Ports, Search, Cache, Ram
<1> HIDE DEF set
<1>2. ASSUME NEW ip, NEW kept, Holds(Plain, c, ip, kept)
      PROVE  /\ AcceptedArray(c, "iFRAT", set ++ ip)
             /\ Powered(c, "iFRAT", set ++ ip)
             /\ Holds(Plain \cup {"iFRAT"}, c, set ++ ip, kept)
  <2> DEFINE n == set ++ ip
  <2>0. DOMAIN set \subseteq Dims BY <1>1 DEF Dims, Fields, Volts
  <2>b. Plain \subseteq Plain BY DEF Searched, Threaded
  <2>c. Holds(Plain, c, ip, kept) BY <1>2, <2>b, Weaker
  <2>d. /\ Fields \subseteq DOMAIN n
        /\ \A f \in DOMAIN set : n[f] = set[f]
        /\ \A f \in Fields \ DOMAIN set : n[f] = ip[f]
    <3>1. Fields \subseteq DOMAIN ip BY <1>2 DEF Holds, Typed
    <3> QED BY <2>0, <3>1, ReadingBack
  <2> HIDE DEF n
  <2>e. /\ Powered(c, "iFRAT", n)
        /\ n.approx_mode # 1 /\ n.force_cache_config = FALSE
        /\ At(n, Voltage(c))
    <3>1. "iFRAT" \notin Twins BY DEF Twins, Tables
    <3>2. \A f \in Volts \cup {"approx_mode", "force_cache_config"} :
             n[f] = ip[f]
      BY <2>0, <2>d DEF Dims, Fields
    <3> QED BY <2>c, <3>1, <3>2, Untouched
  <2>1. Fields \subseteq DOMAIN n BY <2>d
  <2>2. /\ n.is_cache = TRUE
        /\ n.pure_cam = FALSE
        /\ n.pure_ram = FALSE
        /\ n.line_sz = "iFRAT"
        /\ n.cache_sz = "iFRAT"
        /\ n.tag_w = "iFRAT"
        /\ n.assoc = 0
        /\ n.num_rw_ports = 1
        /\ n.num_rd_ports = 2 * c.decodeW
        /\ n.num_wr_ports = c.decodeW
        /\ n.num_search_ports = c.commitW
    BY <1>1, <2>d
  <2>3. TRUE
    OBVIOUS
  <2>a. /\ Typed(ip, kept)
        /\ ip.approx_mode # 1 /\ ip.force_cache_config = FALSE
        /\ At(ip, Voltage(c))
    BY <1>2, HoldsWhat
  <2>4. AcceptedArray(c, "iFRAT", n)
    BY <2>a, <2>1, <2>2, <2>3, <2>e
    DEF AcceptedArray, error_checking, PortsOk, ShapeOk, fully_assoc,
        GoodArray, Sized, Twins, Tables, Typed, ConfigType
  <2>5. Holds(Plain \cup {"iFRAT"}, c, n, kept)
    <3>0. /\ n.num_rw_ports \in Nat
          /\ n.num_rd_ports \in Nat
          /\ n.num_wr_ports \in Int
          /\ n.num_search_ports \in Nat
      BY <2>2 DEF ConfigType
    <3>1. Typed(n, kept)
      BY <3>0, <2>a, <2>1, <2>2, <2>3 DEF Typed
    <3>2. /\ n.tag_w = "iFRAT"
      BY <2>a, <2>2, <2>3
    <3> QED BY <3>1, <3>2, <2>e, HoldsWhat
  <2> QED BY <2>e, <2>4, <2>5 DEF n
<1>3. Moves(c, Plain, Array("iFRAT", TRUE, set), Plain \cup {"iFRAT"}) BY <1>2, ArrayRule
<1> QED BY <1>3 DEF set, CamTable

\* The floating point front RAT after it, with the tags of the integer one.
LEMMA StationFpMoves ==
    ASSUME NEW c \in ConfigType,
           NoPorts(c) \/ c.fp_issueW >= 1,
           c.OOO,
           ~c.PRF,
           c.RAM
    PROVE  Moves(c, Plain \cup {"iFRAT"}, Array("fFRAT", TRUE,
                       Cache ++ Geometry("fFRAT") ++ Assoc(0)
                         ++ Ports(1, 2 * c.fp_issueW, c.fp_issueW)
                         ++ Search(c.fp_issueW)), Plain)
<1> DEFINE set == Cache ++ Geometry("fFRAT") ++ Assoc(0)
                    ++ Ports(1, 2 * c.fp_issueW, c.fp_issueW) ++ Search(c.fp_issueW)
<1>1. /\ DOMAIN set = {"is_cache", "pure_cam", "pure_ram", "line_sz", "cache_sz", "assoc", "num_rw_ports", "num_rd_ports", "num_wr_ports", "num_search_ports"}
      /\ set.is_cache = TRUE
      /\ set.pure_cam = FALSE
      /\ set.pure_ram = FALSE
      /\ set.line_sz = "fFRAT"
      /\ set.cache_sz = "fFRAT"
      /\ set.assoc = 0
      /\ set.num_rw_ports = 1
      /\ set.num_rd_ports = 2 * c.fp_issueW
      /\ set.num_wr_ports = c.fp_issueW
      /\ set.num_search_ports = c.fp_issueW
  BY DEF ++, Geometry, Tag, Assoc, Ports, Search, Cache, Ram
<1> HIDE DEF set
<1>2. ASSUME NEW ip, NEW kept, Holds(Plain \cup {"iFRAT"}, c, ip, kept)
      PROVE  /\ AcceptedArray(c, "fFRAT", set ++ ip)
             /\ Powered(c, "fFRAT", set ++ ip)
             /\ Holds(Plain, c, set ++ ip, kept)
  <2> DEFINE n == set ++ ip
  <2>0. DOMAIN set \subseteq Dims BY <1>1 DEF Dims, Fields, Volts
  <2>b. Plain \subseteq Plain \cup {"iFRAT"} BY DEF Searched, Threaded
  <2>c. Holds(Plain, c, ip, kept) BY <1>2, <2>b, Weaker
  <2>d. /\ Fields \subseteq DOMAIN n
        /\ \A f \in DOMAIN set : n[f] = set[f]
        /\ \A f \in Fields \ DOMAIN set : n[f] = ip[f]
    <3>1. Fields \subseteq DOMAIN ip BY <1>2 DEF Holds, Typed
    <3> QED BY <2>0, <3>1, ReadingBack
  <2> HIDE DEF n
  <2>e. /\ Powered(c, "fFRAT", n)
        /\ n.approx_mode # 1 /\ n.force_cache_config = FALSE
        /\ At(n, Voltage(c))
    <3>1. "fFRAT" \notin Twins BY DEF Twins, Tables
    <3>2. \A f \in Volts \cup {"approx_mode", "force_cache_config"} :
             n[f] = ip[f]
      BY <2>0, <2>d DEF Dims, Fields
    <3> QED BY <2>c, <3>1, <3>2, Untouched
  <2>1. Fields \subseteq DOMAIN n BY <2>d
  <2>2. /\ n.is_cache = TRUE
        /\ n.pure_cam = FALSE
        /\ n.pure_ram = FALSE
        /\ n.line_sz = "fFRAT"
        /\ n.cache_sz = "fFRAT"
        /\ n.assoc = 0
        /\ n.num_rw_ports = 1
        /\ n.num_rd_ports = 2 * c.fp_issueW
        /\ n.num_wr_ports = c.fp_issueW
        /\ n.num_search_ports = c.fp_issueW
    BY <1>1, <2>d
  <2>3. /\ n.tag_w = ip.tag_w
    BY <1>1, <2>d DEF Fields, Volts
  <2>a. /\ Typed(ip, kept)
        /\ ip.approx_mode # 1 /\ ip.force_cache_config = FALSE
        /\ At(ip, Voltage(c))
        /\ ip.tag_w = "iFRAT"
    BY <1>2, HoldsWhat
  <2>4. AcceptedArray(c, "fFRAT", n)
    BY <2>a, <2>1, <2>2, <2>3, <2>e
    DEF AcceptedArray, error_checking, PortsOk, ShapeOk, fully_assoc,
        GoodArray, Sized, Twins, Tables, Typed, ConfigType
  <2>5. Holds(Plain, c, n, kept)
    <3>0. /\ n.num_rw_ports \in Nat
          /\ n.num_rd_ports \in Nat
          /\ n.num_wr_ports \in Int
          /\ n.num_search_ports \in Nat
      BY <2>2 DEF ConfigType
    <3>1. Typed(n, kept)
      BY <3>0, <2>a, <2>1, <2>2, <2>3 DEF Typed
    <3> QED BY <3>1, <2>e, HoldsWhat
  <2> QED BY <2>e, <2>4, <2>5 DEF n
<1>3. Moves(c, Plain \cup {"iFRAT"}, Array("fFRAT", TRUE, set), Plain) BY <1>2, ArrayRule
<1> QED BY <1>3 DEF set

-----------------------------------------------------------------------------
(* The rules for the other kinds of statement. *)

\* The other kinds of statement.
LEMMA AssignTriple ==
    ASSUME NEW c, NEW F, NEW G, NEW set,
           ASSUME NEW ip, NEW kept, Holds(F, c, ip, kept)
           PROVE  Holds(G, c, set ++ ip, kept)
    PROVE  Triple(c, F, Assign(set), G)
<1> DEFINE st == [op |-> "assign", set |-> set]
<1>1. st.op = "assign" /\ st.set = set OBVIOUS
<1> HIDE DEF st
<1>2. \A ip, kept : IpAfter(st, ip, kept) = set ++ ip
                    /\ KeptAfter(st, ip, kept) = kept
  BY <1>1 DEF IpAfter, KeptAfter
<1>3. Moves(c, F, st, G) BY <1>1, <1>2 DEF Moves, Through
<1> QED BY <1>3, One DEF st, Assign

\* Keeping the voltages of the core aside.
LEMMA KeepTriple ==
    ASSUME NEW c, NEW F, "supply" \in F
    PROVE  Triple(c, F, Keep, F \cup {"kept"})
<1> DEFINE st == [op |-> "keep"]
<1>1. st.op = "keep" OBVIOUS
<1> HIDE DEF st
<1>2. ASSUME NEW ip, NEW kept, Holds(F, c, ip, kept)
      PROVE  Holds(F \cup {"kept"}, c, ip, [v \in DOMAIN kept |-> ip[v]])
  BY <1>2 DEF Holds, Typed, At, Volts
<1>3. Moves(c, F, st, F \cup {"kept"})
  BY <1>1, <1>2 DEF Moves, Through, IpAfter, KeptAfter
<1> QED BY <1>3, One DEF st, Keep

\* Restoring them.
LEMMA RestoreTriple ==
    ASSUME NEW c, NEW F, F \in {Plain, Searched}
    PROVE  Triple(c, (F \ {"supply"}) \cup {"kept"}, Restore, F)
<1> DEFINE st == [op |-> "restore"]
           K == (F \ {"supply"}) \cup {"kept"}
<1>1. st.op = "restore" OBVIOUS
<1> HIDE DEF st
<1>2. ASSUME NEW ip, NEW kept, Holds(K, c, ip, kept)
      PROVE  Holds(F, c, kept ++ ip, kept)
  <2> DEFINE n == kept ++ ip
  <2>1. /\ DOMAIN n = DOMAIN kept \cup DOMAIN ip
        /\ \A f \in DOMAIN kept \cup DOMAIN ip :
             n[f] = IF f \in DOMAIN kept THEN kept[f] ELSE ip[f]
    BY DEF ++
  <2> HIDE DEF n
  <2>2. DOMAIN kept = Volts /\ Fields \subseteq DOMAIN ip /\ At(kept, Voltage(c))
    BY <1>2 DEF Holds, Typed
  <2>3. At(n, Voltage(c)) /\ Fields \subseteq DOMAIN n
    BY <2>1, <2>2 DEF At, Volts
  <2>4. \A f \in Dims \cup {"approx_mode", "force_cache_config"} : n[f] = ip[f]
    BY <2>1, <2>2 DEF Dims, Fields, Volts
  <2>5. /\ n.is_cache = ip.is_cache /\ n.pure_cam = ip.pure_cam
        /\ n.num_rw_ports = ip.num_rw_ports /\ n.num_rd_ports = ip.num_rd_ports
        /\ n.num_wr_ports = ip.num_wr_ports
        /\ n.num_search_ports = ip.num_search_ports
        /\ n.approx_mode = ip.approx_mode
        /\ n.force_cache_config = ip.force_cache_config
    BY <2>4 DEF Dims, Fields, Volts
  <2>6. Holds(F, c, n, kept)
    BY <1>2, <2>2, <2>3, <2>5 DEF Holds, Typed, Plain, Searched
  <2> QED BY <2>6 DEF n
<1>3. Moves(c, K, st, F)
  BY <1>1, <1>2 DEF Moves, Through, IpAfter, KeptAfter
<1> QED BY <1>3, One DEF st, Restore

\* With plain facts every part but the twins gets the right supply.
LEMMA PlainPowered ==
    ASSUME NEW c \in ConfigType, NEW F, Plain \subseteq F, NEW ip, NEW kept,
           Holds(F, c, ip, kept), NEW part, part \notin Twins
    PROVE  Powered(c, part, ip)
<1>1. Holds(Plain, c, ip, kept) BY Weaker
<1> QED BY <1>1, Untouched

\* Logic made with the running constructor's record.
LEMMA LogicMoves ==
    ASSUME NEW c \in ConfigType, NEW F, Plain \subseteq F, NEW counted,
           NEW part, part \notin Twins
    PROVE  Moves(c, F, Logic(part, counted), F)
<1> DEFINE st == Logic(part, counted)
<1>1. st.op = "logic" /\ st.part = part BY DEF Logic
<1> HIDE DEF st
<1>2. Moves(c, F, st, F)
  BY <1>1, PlainPowered DEF Moves, Through, IpAfter, KeptAfter
<1> QED BY <1>2 DEF st

\* A wire made with the running constructor's record.
LEMMA WireMoves ==
    ASSUME NEW c \in ConfigType, NEW F, Plain \subseteq F, NEW counted,
           NEW part, part \notin Twins, NEW heights
    PROVE  Moves(c, F, Wire(part, counted, heights), F)
<1> DEFINE st == Wire(part, counted, heights)
<1>1. st.op = "wire" /\ st.part = part BY DEF Wire
<1> HIDE DEF st
<1>2. Moves(c, F, st, F)
  BY <1>1, PlainPowered DEF Moves, Through, IpAfter, KeptAfter
<1> QED BY <1>2 DEF st

\* The rule of consequence for a statement.
LEMMA MovesWeaker ==
    ASSUME NEW c, NEW F, NEW G, NEW st, NEW K, NEW H,
           Moves(c, F, st, G), F \subseteq K, H \subseteq G
    PROVE  Moves(c, K, st, H)
  BY Weaker DEF Moves

\* Two statements in a row.
LEMMA Pair ==
    ASSUME NEW c, NEW F, NEW a, NEW G, NEW b, NEW H,
           Moves(c, F, a, G), Moves(c, G, b, H)
    PROVE  Triple(c, F, <<a, b>>, H)
<1> DEFINE f == [k \in 0 .. 2 |-> IF k = 0 THEN F ELSE IF k = 1 THEN G ELSE H]
           s == <<a, b>>
<1>1. f[0] = F /\ f[1] = G /\ f[2] = H /\ DOMAIN f = 0 .. 2 OBVIOUS
<1>2. s \in Seq({a, b}) OBVIOUS
<1>3. IsSeq(s) /\ Len(s) = 2 /\ s[1] = a /\ s[2] = b BY <1>2 DEF IsSeq
<1> HIDE DEF f, s
<1>4. ASSUME NEW k \in 1 .. 2 PROVE Moves(c, f[k - 1], s[k], f[k])
  <2>1. k = 1 \/ k = 2 OBVIOUS
  <2> QED BY <1>1, <1>3, <2>1
<1>5. Triple(c, f[0], s, f[Len(s)]) BY <1>1, <1>3, <1>4, Run
<1> QED BY <1>1, <1>3, <1>5 DEF s

-----------------------------------------------------------------------------
(* The data cache and its twin. *)

\* The data cache.
LEMMA DcacheMoves ==
    ASSUME NEW c \in ConfigType, c.root = "Core"
    PROVE  Moves(c, Searched \cup {"kept"},
                 Array("dcache.caches", TRUE,
                       Geometry("dcache.caches") ++ Tag("dcache.caches")
                         ++ Assoc(8) ++ Ports(c.mem_ports, 0, 0) ++ Approx(1)),
                 DcacheFacts)
<1> DEFINE set == Geometry("dcache.caches") ++ Tag("dcache.caches")
                    ++ Assoc(8) ++ Ports(c.mem_ports, 0, 0) ++ Approx(1)
           part == "dcache.caches"
<1>1. /\ DOMAIN set = {"line_sz", "cache_sz", "tag_w", "assoc",
                       "num_rw_ports", "num_rd_ports", "num_wr_ports",
                       "approx_mode", "force_cache_config"}
      /\ SizedFor(set, part) /\ set.assoc = 8
      /\ set.num_rw_ports = c.mem_ports /\ set.num_rd_ports = 0
      /\ set.num_wr_ports = 0 /\ set.approx_mode = 1
      /\ set.force_cache_config = TRUE
  BY DEF ++, Geometry, Tag, Assoc, Ports, Approx, SizedFor
<1> HIDE DEF set
<1>2. ASSUME NEW ip, NEW kept, Holds(Searched \cup {"kept"}, c, ip, kept)
      PROVE  /\ AcceptedArray(c, part, set ++ ip)
             /\ Powered(c, part, set ++ ip)
             /\ Holds(DcacheFacts, c, set ++ ip, kept)
  <2> DEFINE n == set ++ ip
  <2>1. /\ DOMAIN n = DOMAIN set \cup DOMAIN ip
        /\ \A f \in DOMAIN set \cup DOMAIN ip :
             n[f] = IF f \in DOMAIN set THEN set[f] ELSE ip[f]
    BY DEF ++
  <2> HIDE DEF n
  <2>2. /\ Typed(ip, kept) /\ At(ip, Voltage(c)) /\ ip.is_cache = TRUE
        /\ ip.num_search_ports >= 1 \/ NoPorts(c)
        /\ At(kept, Voltage(c))
    BY <1>2 DEF Holds, Searched, Plain
  <2>3. /\ Fields \subseteq DOMAIN n
        /\ SizedFor(n, part) /\ n.assoc = 8
        /\ n.num_rw_ports = c.mem_ports /\ n.num_rd_ports = 0
        /\ n.num_wr_ports = 0 /\ n.approx_mode = 1
        /\ n.force_cache_config = TRUE
    BY <1>1, <2>1, <2>2 DEF Typed, SizedFor
  <2>4. /\ n.hp_Vdd = ip.hp_Vdd /\ n.lop_Vdd = ip.lop_Vdd
        /\ n.lstp_Vdd = ip.lstp_Vdd /\ n.is_cache = ip.is_cache
        /\ n.pure_cam = ip.pure_cam
        /\ n.num_search_ports = ip.num_search_ports
    BY <1>1, <2>1, <2>2 DEF Typed, Fields, Volts
  <2>5. At(n, Voltage(c)) BY <2>2, <2>4 DEF At
  <2>6. Powered(c, part, n)
    BY <2>5 DEF Powered, Supply, SupplyOf, At, ConfigType, Devices
  <2>7. c.mem_ports \in Nat /\ (c.mem_ports >= 1 \/ NoPorts(c))
    BY DEF ConfigType, NoPorts
  <2>a. PortsOk(n) \/ NoPorts(c) BY <2>3, <2>7 DEF PortsOk
  <2>8. AcceptedArray(c, part, n)
    <3>1. GoodArray(c, part, n)
      BY <2>3 DEF GoodArray, SizedFor, Sized, Twins, ApproxArrays
    <3>2. ShapeOk(n)
      BY <2>2, <2>3, <2>4 DEF ShapeOk, fully_assoc, Typed
    <3> QED BY <2>a, <3>1, <3>2 DEF AcceptedArray, error_checking
  <2>9. Typed(n, kept)
    <3>1. n.num_rw_ports \in Nat /\ n.num_rd_ports \in Nat
          /\ n.num_wr_ports \in Nat
      BY <2>3, <2>7
    <3> QED BY <3>1, <2>2, <2>3, <2>4 DEF Typed
  <2>10. Holds(DcacheFacts, c, n, kept)
    BY <2>2, <2>3, <2>4, <2>5, <2>9, <2>a DEF Holds, DcacheFacts
  <2> QED BY <2>6, <2>8, <2>10 DEF n
<1>3. Moves(c, Searched \cup {"kept"}, Array(part, TRUE, set), DcacheFacts)
  BY <1>2, ArrayRule
<1> QED BY <1>3 DEF set

\* Its approximate twin has its sizes and, for HP devices, approxVdd.
LEMMA DcacheTwinMoves ==
    ASSUME NEW c \in ConfigType, c.root = "Core"
    PROVE  Moves(c, DcacheFacts,
                 Array("dcache.apcaches", FALSE, [hp_Vdd |-> "approx"]),
                 DcacheBorn)
<1> DEFINE set == [hp_Vdd |-> "approx"]
           part == "dcache.apcaches"
<1>2. ASSUME NEW ip, NEW kept, Holds(DcacheFacts, c, ip, kept)
      PROVE  /\ AcceptedArray(c, part, set ++ ip)
             /\ Powered(c, part, set ++ ip)
             /\ Holds(DcacheBorn, c, set ++ ip, kept)
  <2> DEFINE n == set ++ ip
  <2>1. /\ DOMAIN n = {"hp_Vdd"} \cup DOMAIN ip
        /\ n.hp_Vdd = "approx"
        /\ \A f \in DOMAIN ip \ {"hp_Vdd"} : n[f] = ip[f]
    BY DEF ++
  <2> HIDE DEF n
  <2>2. /\ Typed(ip, kept) /\ At(ip, Voltage(c)) /\ ip.is_cache = TRUE
        /\ ip.num_search_ports >= 1 \/ NoPorts(c)
        /\ PortsOk(ip) \/ NoPorts(c)
        /\ ip.assoc # 0 \/ ip.num_search_ports >= 1
        /\ At(kept, Voltage(c)) /\ SizedFor(ip, "dcache.caches")
    BY <1>2 DEF Holds, DcacheFacts
  <2>3. /\ Fields \subseteq DOMAIN n
        /\ n.lop_Vdd = ip.lop_Vdd /\ n.lstp_Vdd = ip.lstp_Vdd
    BY <2>1, <2>2 DEF Typed, Fields, Volts
  <2>4. /\ n.is_cache = ip.is_cache /\ n.pure_cam = ip.pure_cam
        /\ n.line_sz = ip.line_sz /\ n.cache_sz = ip.cache_sz
        /\ n.tag_w = ip.tag_w /\ n.assoc = ip.assoc
        /\ n.num_search_ports = ip.num_search_ports
        /\ n.num_rw_ports = ip.num_rw_ports
        /\ n.num_rd_ports = ip.num_rd_ports
        /\ n.num_wr_ports = ip.num_wr_ports
    BY <2>1, <2>2 DEF Typed, Fields, Volts
  <2>5. Powered(c, part, n)
    BY <2>1, <2>2, <2>3
    DEF Powered, Supply, SupplyOf, At, ConfigType, Devices
  <2>6. AcceptedArray(c, part, n)
    <3>1. GoodArray(c, part, n)
      BY <2>2, <2>4 DEF GoodArray, SizedFor, Sized, Twins, TwinOf, ApproxArrays
    <3>2. PortsOk(n) \/ NoPorts(c)
      BY <2>2, <2>4 DEF PortsOk, Typed
    <3>3. ShapeOk(n)
      BY <2>2, <2>4 DEF ShapeOk, fully_assoc, Typed
    <3> QED BY <3>1, <3>2, <3>3 DEF AcceptedArray, error_checking
  <2>7. Typed(n, kept) BY <2>2, <2>3, <2>4 DEF Typed
  <2>8. Holds(DcacheBorn, c, n, kept)
    BY <2>2, <2>4, <2>7 DEF Holds, DcacheBorn
  <2> QED BY <2>5, <2>6, <2>8 DEF n
<1> HIDE DEF set
<1>3. Moves(c, DcacheFacts, Array(part, FALSE, set), DcacheBorn)
  BY <1>2, ArrayRule
<1> QED BY <1>3 DEF set

\* The approximate mode is switched off again.
LEMMA ApproxOff ==
    ASSUME NEW c, NEW F, F \in {DcacheBorn, {"kept"}}
    PROVE  Triple(c, F, Assign(Approx(0)), F \cup {"exact"})
<1>1. ASSUME NEW ip, NEW kept, Holds(F, c, ip, kept)
      PROVE  Holds(F \cup {"exact"}, c, Approx(0) ++ ip, kept)
  <2> DEFINE n == Approx(0) ++ ip
  <2>1. /\ n.approx_mode = 0 /\ n.force_cache_config = FALSE
        /\ DOMAIN n = {"approx_mode", "force_cache_config"} \cup DOMAIN ip
        /\ \A f \in DOMAIN ip \ {"approx_mode", "force_cache_config"} :
             n[f] = ip[f]
    <3>1. /\ DOMAIN Approx(0) = {"approx_mode", "force_cache_config"}
          /\ Approx(0).approx_mode = 0
          /\ Approx(0).force_cache_config = FALSE
      <4>1. (0 = 1) = FALSE OBVIOUS
      <4>2. Approx(0) = [approx_mode |-> 0, force_cache_config |-> FALSE]
        BY <4>1, Zenon DEF Approx
      <4> QED BY <4>2
    <3> QED BY <3>1 DEF ++
  <2> HIDE DEF n
  <2>2. Typed(ip, kept) BY <1>1 DEF Holds
  <2>3. /\ n.is_cache = ip.is_cache /\ n.pure_cam = ip.pure_cam
        /\ n.num_search_ports = ip.num_search_ports
        /\ n.num_rw_ports = ip.num_rw_ports
        /\ n.num_rd_ports = ip.num_rd_ports
        /\ n.num_wr_ports = ip.num_wr_ports
    BY <2>1, <2>2 DEF Typed, Fields, Volts
  <2>4. Typed(n, kept)
    <3>1. Fields \subseteq DOMAIN n BY <2>1, <2>2 DEF Typed
    <3> QED BY <3>1, <2>2, <2>3 DEF Typed
  <2>5. Holds(F \cup {"exact"}, c, n, kept)
    BY <1>1, <2>1, <2>3, <2>4 DEF Holds, DcacheBorn
  <2> QED BY <2>5 DEF n
<1> QED BY <1>1, AssignTriple

\* The data cache and its twin, from plain facts back to plain facts.
LEMMA DcacheTriple ==
    ASSUME NEW c \in ConfigType, c.root = "Core"
    PROVE  Triple(c, Plain, dcache(c), Searched)
<1> DEFINE main == Array("dcache.caches", TRUE,
                 Geometry("dcache.caches") ++ Tag("dcache.caches") ++ Assoc(8)
                   ++ Ports(c.mem_ports, 0, 0) ++ Approx(1))
           twin == Array("dcache.apcaches", FALSE, [hp_Vdd |-> "approx"])
           set == Search(c.mem_ports) ++ Cache
<1>1. Triple(c, Plain, Assign(set), Searched)
  <2>1. /\ DOMAIN set = {"num_search_ports", "is_cache", "pure_cam", "pure_ram"}
        /\ set.num_search_ports = c.mem_ports
        /\ set.is_cache = TRUE /\ set.pure_cam = FALSE
    BY DEF ++, Search, Cache
  <2> HIDE DEF set
  <2>2. ASSUME NEW ip, NEW kept, Holds(Plain, c, ip, kept)
        PROVE  Holds(Searched, c, set ++ ip, kept)
    <3> DEFINE n == set ++ ip
    <3>1. /\ DOMAIN n = DOMAIN set \cup DOMAIN ip
          /\ \A f \in DOMAIN set \cup DOMAIN ip :
               n[f] = IF f \in DOMAIN set THEN set[f] ELSE ip[f]
      BY DEF ++
    <3> HIDE DEF n
    <3>2. /\ Typed(ip, kept) /\ At(ip, Voltage(c))
          /\ ip.approx_mode # 1 /\ ip.force_cache_config = FALSE
      BY <2>2, HoldsWhat
    <3>3. /\ n.num_search_ports = c.mem_ports /\ n.is_cache = TRUE
          /\ n.pure_cam = FALSE
      BY <2>1, <3>1
    <3>4. /\ n.hp_Vdd = ip.hp_Vdd /\ n.lop_Vdd = ip.lop_Vdd
          /\ n.lstp_Vdd = ip.lstp_Vdd /\ n.approx_mode = ip.approx_mode
          /\ n.force_cache_config = ip.force_cache_config
          /\ n.num_rw_ports = ip.num_rw_ports
          /\ n.num_rd_ports = ip.num_rd_ports
          /\ n.num_wr_ports = ip.num_wr_ports
      BY <2>1, <3>1, <3>2 DEF Typed, Fields, Volts
    <3>5. c.mem_ports \in Nat /\ (c.mem_ports >= 1 \/ NoPorts(c))
      BY DEF ConfigType, NoPorts
    <3>6. Fields \subseteq DOMAIN n BY <3>1, <3>2 DEF Typed
    <3>7. Typed(n, kept) BY <3>2, <3>3, <3>4, <3>5, <3>6 DEF Typed
    <3>8. At(n, Voltage(c)) BY <3>2, <3>4 DEF At
    <3>9. n.approx_mode # 1 /\ n.force_cache_config = FALSE BY <3>2, <3>4
    <3>10. n.num_search_ports >= 1 \/ NoPorts(c) BY <3>3, <3>5
    <3>11. Holds(Searched, c, n, kept)
      BY <3>3, <3>7, <3>8, <3>9, <3>10, HoldsWhat
    <3> QED BY <3>11 DEF n
  <2> QED BY <2>2, AssignTriple
<1>2. Triple(c, Searched, Keep, Searched \cup {"kept"})
  <2>1. "supply" \in Searched BY DEF Searched, Plain
  <2> QED BY <2>1, KeepTriple
<1>3. Triple(c, Searched \cup {"kept"}, <<main, twin>>, DcacheBorn)
  <2>1. Moves(c, Searched \cup {"kept"}, main, DcacheFacts) BY DcacheMoves
  <2>2. Moves(c, DcacheFacts, twin, DcacheBorn) BY DcacheTwinMoves
  <2> HIDE DEF main, twin
  <2> QED BY <2>1, <2>2, Pair
<1>4. Triple(c, DcacheBorn, Assign(Approx(0)), DcacheBorn \cup {"exact"})
  BY ApproxOff
<1>5. Triple(c, DcacheBorn \cup {"exact"}, Restore, Searched)
  <2>1. (Searched \ {"supply"}) \cup {"kept"} = DcacheBorn \cup {"exact"}
    BY DEF Searched, Plain, DcacheBorn
  <2>2. Triple(c, (Searched \ {"supply"}) \cup {"kept"}, Restore, Searched)
    BY RestoreTriple
  <2> QED BY <2>1, <2>2
<1> HIDE DEF main, twin, set
<1>6. Triple(c, Plain, Assign(set) \o Keep, Searched \cup {"kept"})
  BY <1>1, <1>2, Composition
<1>7. Triple(c, Plain, Assign(set) \o Keep \o <<main, twin>>, DcacheBorn)
  BY <1>6, <1>3, Composition
<1>8. Triple(c, Plain, Assign(set) \o Keep \o <<main, twin>>
                         \o Assign(Approx(0)), DcacheBorn \cup {"exact"})
  BY <1>7, <1>4, Composition
<1>9. Triple(c, Plain, Assign(set) \o Keep \o <<main, twin>>
                         \o Assign(Approx(0)) \o Restore, Searched)
  BY <1>8, <1>5, Composition
<1> QED BY <1>9 DEF dcache, main, twin, set

-----------------------------------------------------------------------------
(* A shared cache and its twin. *)

\* What these assignments say, field by field.
LEMMA UnicacheFields ==
    ASSUME NEW c, NEW level, NEW approx \in BOOLEAN
    PROVE  LET set == UnicacheSet(c, level, approx) IN
           /\ DOMAIN set = Dims \cup (IF approx THEN {"approx_mode", "force_cache_config"} ELSE {})
           /\ SizedFor(set, "unicache.caches")
           /\ set.assoc = IF TagDirectory(c, level) THEN 0 ELSE 8
           /\ set.num_search_ports = IF TagDirectory(c, level) THEN 1 ELSE 0
           /\ set.is_cache = TRUE /\ set.pure_cam = FALSE
           /\ set.num_rw_ports = 1 /\ set.num_rd_ports = 0
           /\ set.num_wr_ports = 0
<1> DEFINE main == UnicacheMain(c, level)
           set == UnicacheSet(c, level, approx)
<1>1. /\ DOMAIN main = Dims
      /\ SizedFor(main, "unicache.caches")
      /\ main.assoc = IF TagDirectory(c, level) THEN 0 ELSE 8
      /\ main.num_search_ports = IF TagDirectory(c, level) THEN 1 ELSE 0
      /\ main.is_cache = TRUE /\ main.pure_cam = FALSE
      /\ main.num_rw_ports = 1 /\ main.num_rd_ports = 0
      /\ main.num_wr_ports = 0
  BY DEF UnicacheMain, ++, Geometry, Tag, Assoc, Cache, Ports, Search,
         SizedFor, Dims, Fields, Volts
<1>a. set = IF approx THEN main ++ Approx(1) ELSE main BY DEF UnicacheSet
<1> HIDE DEF main, set
<1>2. CASE ~approx BY <1>1, <1>2, <1>a DEF set
<1>3. CASE approx
  <2>1. set = main ++ Approx(1) BY <1>3, <1>a
  <2>2. /\ DOMAIN Approx(1) = {"approx_mode", "force_cache_config"}
    BY DEF Approx
  <2>3. /\ DOMAIN set = Dims \cup {"approx_mode", "force_cache_config"}
        /\ \A f \in Dims : set[f] = main[f]
    BY <2>1, <2>2, <1>1 DEF ++
  <2>4. {"line_sz", "cache_sz", "tag_w", "assoc", "num_search_ports",
         "is_cache", "pure_cam", "num_rw_ports", "num_rd_ports",
         "num_wr_ports"} \subseteq Dims
    BY DEF Dims, Fields, Volts
  <2> QED BY <1>1, <1>3, <2>3, <2>4 DEF SizedFor, set
<1> QED BY <1>2, <1>3

\* The shared cache or directory.
LEMMA UnicacheMoves ==
    ASSUME NEW c \in ConfigType, NEW level, IsLevel(c, level),
           NEW approx \in BOOLEAN, approx <=> level \in {"L2", "L3"}
    PROVE  Moves(c, Kept,
                 Array("unicache.caches", TRUE, UnicacheSet(c, level, approx)),
                 UnicacheFacts(approx))
<1> DEFINE part == "unicache.caches"
           set == UnicacheSet(c, level, approx)
<1>1. /\ DOMAIN set = Dims \cup (IF approx THEN {"approx_mode", "force_cache_config"} ELSE {})
      /\ SizedFor(set, "unicache.caches")
      /\ set.assoc = IF TagDirectory(c, level) THEN 0 ELSE 8
      /\ set.num_search_ports = IF TagDirectory(c, level) THEN 1 ELSE 0
      /\ set.is_cache = TRUE /\ set.pure_cam = FALSE
      /\ set.num_rw_ports = 1 /\ set.num_rd_ports = 0
      /\ set.num_wr_ports = 0
  BY UnicacheFields
<1> HIDE DEF set
<1>2. ASSUME NEW ip, NEW kept, Holds(Kept, c, ip, kept)
      PROVE  /\ AcceptedArray(c, part, set ++ ip)
             /\ Powered(c, part, set ++ ip)
             /\ Holds(UnicacheFacts(approx), c, set ++ ip, kept)
  <2> DEFINE n == set ++ ip
  <2>1. /\ DOMAIN n = DOMAIN set \cup DOMAIN ip
        /\ \A f \in DOMAIN set \cup DOMAIN ip :
             n[f] = IF f \in DOMAIN set THEN set[f] ELSE ip[f]
    BY DEF ++
  <2> HIDE DEF n
  <2>2. /\ Typed(ip, kept) /\ At(ip, Voltage(c)) /\ At(kept, Voltage(c))
        /\ ip.approx_mode # 1 /\ ip.force_cache_config = FALSE
    BY <1>2 DEF Holds, Kept, Plain
  <2>3. \A f \in Dims : n[f] = set[f] BY <1>1, <2>1
  <2>4. /\ SizedFor(n, part) /\ n.assoc = set.assoc
        /\ n.num_search_ports = set.num_search_ports
        /\ n.is_cache = TRUE /\ n.pure_cam = FALSE
        /\ n.num_rw_ports = 1 /\ n.num_rd_ports = 0 /\ n.num_wr_ports = 0
    <3>1. {"line_sz", "cache_sz", "tag_w", "assoc", "num_search_ports",
           "is_cache", "pure_cam", "num_rw_ports", "num_rd_ports",
           "num_wr_ports"} \subseteq Dims
      BY DEF Dims, Fields, Volts
    <3> QED BY <1>1, <2>3, <3>1 DEF SizedFor
  <2>5. \A f \in Volts : n[f] = ip[f]
    <3>1. \A f \in Volts : f \in DOMAIN ip BY <2>2 DEF Typed, Fields
    <3>2. \A f \in Volts : f \notin DOMAIN set
      BY <1>1 DEF Dims, Fields, Volts
    <3> QED BY <2>1, <3>1, <3>2
  <2>6. At(n, Voltage(c)) BY <2>2, <2>5 DEF At, Volts
  <2>7. Powered(c, part, n)
    BY <2>6 DEF Powered, Supply, SupplyOf, At, ConfigType, Devices
  <2>8. approx \/ (n.approx_mode # 1 /\ n.force_cache_config = FALSE)
    <3>1. SUFFICES ASSUME ~approx
                   PROVE  n.approx_mode # 1 /\ n.force_cache_config = FALSE
      OBVIOUS
    <3>2. "approx_mode" \notin DOMAIN set /\ "force_cache_config" \notin DOMAIN set
      BY <1>1, <3>1 DEF Dims
    <3>3. "approx_mode" \in DOMAIN ip /\ "force_cache_config" \in DOMAIN ip
      BY <2>2 DEF Typed, Fields
    <3>4. /\ n.approx_mode = ip.approx_mode
          /\ n.force_cache_config = ip.force_cache_config
      BY <2>1, <3>2, <3>3
    <3> QED BY <2>2, <3>4
  <2>9. AcceptedArray(c, part, n)
    <3>1. GoodArray(c, part, n)
      <4>1. approx => part \in ApproxArrays(c) BY DEF ApproxArrays, IsLevel
      <4>2. Sized(part) = part BY DEF Sized, Twins
      <4> QED BY <2>4, <2>8, <4>1, <4>2 DEF GoodArray, SizedFor
    <3>2. PortsOk(n) BY <2>4 DEF PortsOk
    <3>3. ShapeOk(n) BY <1>1, <2>4 DEF ShapeOk, fully_assoc
    <3> QED BY <3>1, <3>2, <3>3 DEF AcceptedArray, error_checking
  <2>10. Typed(n, kept)
    <3>1. Fields \subseteq DOMAIN n BY <2>1, <2>2 DEF Typed
    <3>2. /\ n.num_rw_ports \in Nat /\ n.num_rd_ports \in Nat
          /\ n.num_wr_ports \in Int /\ n.num_search_ports \in Nat
      BY <1>1, <2>4
    <3> QED BY <2>2, <2>4, <3>1, <3>2 DEF Typed
  <2>11. /\ n.assoc # 0 \/ n.num_search_ports >= 1
         /\ PortsOk(n)
    BY <1>1, <2>4 DEF PortsOk
  <2>12. Holds(UnicacheFacts(approx), c, n, kept)
    BY <2>2, <2>4, <2>6, <2>8, <2>10, <2>11 DEF Holds, UnicacheFacts
  <2> QED BY <2>7, <2>9, <2>12 DEF n
<1>3. Moves(c, Kept, Array(part, TRUE, set), UnicacheFacts(approx))
  BY <1>2, ArrayRule
<1> QED BY <1>3 DEF set

\* The twin.
LEMMA UnicacheTwinMoves ==
    ASSUME NEW c \in ConfigType, NEW level, IsLevel(c, level),
           NEW approx \in BOOLEAN, approx <=> level \in {"L2", "L3"}
    PROVE  Moves(c, UnicacheFacts(approx),
                 Array("unicache.apcaches", FALSE, UnicacheTwin(approx)),
                 {"kept"})
<1> DEFINE part == "unicache.apcaches"
           set == UnicacheTwin(approx)
<1>2. ASSUME NEW ip, NEW kept, Holds(UnicacheFacts(approx), c, ip, kept)
      PROVE  /\ AcceptedArray(c, part, set ++ ip)
             /\ Powered(c, part, set ++ ip)
             /\ Holds({"kept"}, c, set ++ ip, kept)
  <2> DEFINE n == set ++ ip
  <2>1. /\ DOMAIN n = DOMAIN set \cup DOMAIN ip
        /\ \A f \in DOMAIN set \cup DOMAIN ip :
             n[f] = IF f \in DOMAIN set THEN set[f] ELSE ip[f]
    BY DEF ++
  <2>2. /\ approx => DOMAIN set = Volts /\ At(set, "approx")
        /\ ~approx => DOMAIN set = {}
    BY DEF UnicacheTwin, AllVdd, Volts, At
  <2> HIDE DEF n, set
  <2>3. /\ Typed(ip, kept) /\ At(ip, Voltage(c)) /\ At(kept, Voltage(c))
        /\ ip.is_cache = TRUE /\ SizedFor(ip, "unicache.caches")
        /\ PortsOk(ip) \/ NoPorts(c)
        /\ ip.assoc # 0 \/ ip.num_search_ports >= 1
        /\ ~approx => ip.approx_mode # 1 /\ ip.force_cache_config = FALSE
    BY <1>2 DEF Holds, UnicacheFacts
  <2>4. /\ Fields \subseteq DOMAIN n
        /\ \A f \in Fields \ Volts : n[f] = ip[f]
    BY <2>1, <2>2, <2>3 DEF Typed
  <2>5. /\ n.is_cache = ip.is_cache /\ n.pure_cam = ip.pure_cam
        /\ n.line_sz = ip.line_sz /\ n.cache_sz = ip.cache_sz
        /\ n.tag_w = ip.tag_w /\ n.assoc = ip.assoc
        /\ n.num_search_ports = ip.num_search_ports
        /\ n.num_rw_ports = ip.num_rw_ports
        /\ n.num_rd_ports = ip.num_rd_ports
        /\ n.num_wr_ports = ip.num_wr_ports
        /\ n.approx_mode = ip.approx_mode
        /\ n.force_cache_config = ip.force_cache_config
    BY <2>4 DEF Fields, Volts
  <2>6. At(n, IF approx THEN "approx" ELSE Voltage(c))
    <3>1. CASE approx BY <3>1, <2>1, <2>2 DEF At, Volts
    <3>2. CASE ~approx
      <4>1. \A f \in Volts : n[f] = ip[f]
        BY <3>2, <2>1, <2>2, <2>3 DEF Typed, Fields
      <4> QED BY <4>1, <3>2, <2>3 DEF At, Volts
    <3> QED BY <3>1, <3>2
  <2>7. Powered(c, part, n)
    <3>1. SupplyOf(c, part) = IF approx THEN "approx" ELSE Voltage(c)
      BY DEF SupplyOf, IsLevel
    <3> QED BY <2>6, <3>1 DEF Powered, Supply, At, ConfigType, Devices
  <2>8. AcceptedArray(c, part, n)
    <3>1. GoodArray(c, part, n)
      <4>1. approx => part \in ApproxArrays(c) BY DEF ApproxArrays, IsLevel
      <4>2. Sized(part) = "unicache.caches" BY DEF Sized, Twins, TwinOf
      <4> QED BY <2>3, <2>5, <4>1, <4>2 DEF GoodArray, SizedFor
    <3>2. PortsOk(n) \/ NoPorts(c) BY <2>3, <2>5 DEF PortsOk, Typed
    <3>3. ShapeOk(n) BY <2>3, <2>5 DEF ShapeOk, fully_assoc, Typed
    <3> QED BY <3>1, <3>2, <3>3 DEF AcceptedArray, error_checking
  <2>9. Typed(n, kept) BY <2>3, <2>4, <2>5 DEF Typed
  <2>10. Holds({"kept"}, c, n, kept) BY <2>3, <2>9 DEF Holds
  <2> QED BY <2>7, <2>8, <2>10 DEF n
<1> HIDE DEF set
<1>3. Moves(c, UnicacheFacts(approx), Array(part, FALSE, set), {"kept"})
  BY <1>2, ArrayRule
<1> QED BY <1>3 DEF set

\* The shared cache and its twin, back to plain facts.
LEMMA UnicacheTriple ==
    ASSUME NEW c \in ConfigType, NEW level, IsLevel(c, level)
    PROVE  Triple(c, Plain, unicache(c, level), Plain)
<1> DEFINE approx == level \in {"L2", "L3"}
           set == UnicacheSet(c, level, approx)
           main == Array("unicache.caches", TRUE, set)
           twin == Array("unicache.apcaches", FALSE, UnicacheTwin(approx))
<1>1. Triple(c, Plain, Keep, Kept)
  <2>1. "supply" \in Plain BY DEF Plain
  <2> QED BY <2>1, KeepTriple DEF Kept
<1>2. Triple(c, Kept, <<main, twin>>, {"kept"})
  <2>0. approx \in BOOLEAN /\ (approx <=> level \in {"L2", "L3"}) OBVIOUS
  <2> HIDE DEF approx
  <2>1. Moves(c, Kept, main, UnicacheFacts(approx)) BY <2>0, UnicacheMoves
  <2>2. Moves(c, UnicacheFacts(approx), twin, {"kept"})
    BY <2>0, UnicacheTwinMoves
  <2> HIDE DEF main, twin
  <2> QED BY <2>1, <2>2, Pair
<1>3. Triple(c, {"kept"}, Assign(Approx(0)), {"kept"} \cup {"exact"})
  BY ApproxOff
<1>4. Triple(c, {"kept"} \cup {"exact"}, Restore, Plain)
  <2>1. (Plain \ {"supply"}) \cup {"kept"} = {"kept"} \cup {"exact"}
    BY DEF Plain
  <2>2. Triple(c, (Plain \ {"supply"}) \cup {"kept"}, Restore, Plain)
    BY RestoreTriple
  <2> QED BY <2>1, <2>2
<1>5. unicache(c, level) =
        Keep \o <<main, twin>> \o Assign(Approx(0)) \o Restore
  BY DEF unicache, UnicacheMain, UnicacheSet, UnicacheTwin
<1> HIDE DEF main, twin
<1>6. Triple(c, Plain, Keep \o <<main, twin>>, {"kept"})
  BY <1>1, <1>2, Composition
<1>7. Triple(c, Plain, Keep \o <<main, twin>> \o Assign(Approx(0)),
             {"kept"} \cup {"exact"})
  BY <1>6, <1>3, Composition
<1>8. Triple(c, Plain, Keep \o <<main, twin>> \o Assign(Approx(0)) \o Restore,
             Plain)
  BY <1>7, <1>4, Composition
<1> QED BY <1>8, <1>5

-----------------------------------------------------------------------------
(* The constructors, one lemma each. *)

\* The constructors, one lemma each.
LEMMA Grow3 ==
    ASSUME NEW c, NEW F, NEW a, NEW b, NEW x, NEW G, NEW H,
           Triple(c, F, <<a, b>>, G), Moves(c, G, x, H)
    PROVE  Triple(c, F, <<a, b, x>>, H)
<1>1. <<a, b, x>> = <<a, b>> \o <<x>> OBVIOUS
<1> QED BY <1>1, One, Composition

\* A sequence of four elements, for rules about pairs.
LEMMA Grow4 ==
    ASSUME NEW c, NEW F, NEW a, NEW b, NEW d, NEW x, NEW G, NEW H,
           Triple(c, F, <<a, b, d>>, G), Moves(c, G, x, H)
    PROVE  Triple(c, F, <<a, b, d, x>>, H)
<1>1. <<a, b, d, x>> = <<a, b, d>> \o <<x>> OBVIOUS
<1> QED BY <1>1, One, Composition

\* A sequence of five elements.
LEMMA Grow5 ==
    ASSUME NEW c, NEW F, NEW a, NEW b, NEW d, NEW e, NEW x, NEW G, NEW H,
           Triple(c, F, <<a, b, d, e>>, G), Moves(c, G, x, H)
    PROVE  Triple(c, F, <<a, b, d, e, x>>, H)
<1>1. <<a, b, d, e, x>> = <<a, b, d, e>> \o <<x>> OBVIOUS
<1> QED BY <1>1, One, Composition

\* The facts of both kinds of tables contain the plain ones.
LEMMA PlainOf == Plain \subseteq Searched /\ Plain \subseteq Threaded
                 /\ Plain \subseteq Plain
  BY DEF Searched, Threaded

\* An instruction window keeps its facts.
LEMMA WindowMoves ==
    ASSUME NEW c \in ConfigType, NEW part, part \notin Twins,
           NEW width \in Nat, NoPorts(c) \/ width >= 1
    PROVE  Moves(c, Plain, Window(part, width), Plain)
<1>1. NoPorts(c) \/ (0 + width + width >= 1 /\ width >= 1) OBVIOUS
<1>2. 0 \in Nat OBVIOUS
<1> QED BY <1>1, <1>2, CamMoves DEF Window

\* A translation look-aside buffer.
LEMMA TlbMoves ==
    ASSUME NEW c \in ConfigType, NEW part, part \notin Twins,
           NEW ports \in Nat, NoPorts(c) \/ ports >= 1
    PROVE  Moves(c, Plain, Tlb(part, ports), Plain)
<1>1. NoPorts(c) \/ (0 + 0 + ports >= 1 /\ ports >= 1) OBVIOUS
<1>2. 0 \in Nat OBVIOUS
<1> QED BY <1>1, <1>2, CamMoves DEF Tlb

\* A renaming table with content addresses.
LEMMA CamTableMoves ==
    ASSUME NEW c \in ConfigType, NEW part, part \notin Twins,
           NEW rd \in Nat, NEW wr \in Nat, NEW search \in Nat,
           NoPorts(c) \/ search >= 1
    PROVE  Moves(c, Plain, CamTable(part, rd, wr, search), Plain)
<1>1. NoPorts(c) \/ (1 + rd + wr >= 1 /\ search >= 1) OBVIOUS
<1>2. 1 \in Nat OBVIOUS
<1> QED BY <1>1, <1>2, CamMoves DEF CamTable

\* A renaming table in RAM.
LEMMA RamTableMoves ==
    ASSUME NEW c \in ConfigType, NEW part, part \notin Twins,
           NEW rw \in Nat, NEW rd \in Nat, NEW wr \in Int,
           NoPorts(c) \/ rw + rd + wr >= 1
    PROVE  Moves(c, Plain, RamTable(part, rw, rd, wr), Plain)
  BY RamMoves DEF RamTable

\* A register file.
LEMMA RegFileMoves ==
    ASSUME NEW c \in ConfigType, NEW part, part \notin Twins,
           NEW width \in Nat
    PROVE  Moves(c, Plain, RegFile(part, width), Plain)
<1>1. /\ 1 + 2 * width + width >= 1
      /\ 1 \in Nat /\ 2 * width \in Nat /\ width \in Int
  OBVIOUS
<1> QED BY <1>1, RamMoves DEF RegFile

\* The constructor of BranchPredictor: every array is right and the plain
\* facts are kept.
LEMMA BranchPredictorTriple ==
    ASSUME NEW c \in ConfigType, c.predictionW > 0
    PROVE  Triple(c, Plain, BranchPredictor(c), Plain)
<1> DEFINE set == Assoc(1) ++ IF c.threads > 1 THEN Cache ++ Tag("thread")
                              ELSE Ram
<1>1. Triple(c, Plain, Assign(set), Threaded)
  <2>1. /\ {"assoc", "is_cache", "pure_cam", "pure_ram"} \subseteq DOMAIN set
        /\ DOMAIN set \subseteq
             {"assoc", "is_cache", "pure_cam", "pure_ram", "tag_w"}
        /\ set.assoc = 1 /\ set.is_cache \in BOOLEAN /\ set.pure_cam = FALSE
        /\ set.is_cache => "tag_w" \in DOMAIN set /\ set.tag_w = "thread"
    <3>1. CASE c.threads > 1
      <4>1. set = Assoc(1) ++ (Cache ++ Tag("thread")) BY <3>1
      <4> QED BY <4>1 DEF ++, Assoc, Cache, Tag
    <3>2. CASE ~(c.threads > 1)
      <4>1. set = Assoc(1) ++ Ram BY <3>2
      <4> HIDE DEF set
      <4>2. /\ DOMAIN set = {"assoc", "is_cache", "pure_cam", "pure_ram"}
            /\ set.assoc = 1 /\ set.is_cache = FALSE /\ set.pure_cam = FALSE
        BY <4>1 DEF ++, Assoc, Ram
      <4> QED BY <4>2
    <3> QED BY <3>1, <3>2
  <2> HIDE DEF set
  <2>2. ASSUME NEW ip, NEW kept, Holds(Plain, c, ip, kept)
        PROVE  Holds(Threaded, c, set ++ ip, kept)
    <3> DEFINE n == set ++ ip
    <3>1. /\ DOMAIN n = DOMAIN set \cup DOMAIN ip
          /\ \A f \in DOMAIN set \cup DOMAIN ip :
               n[f] = IF f \in DOMAIN set THEN set[f] ELSE ip[f]
      BY DEF ++
    <3> HIDE DEF n
    <3>2. /\ Typed(ip, kept) /\ At(ip, Voltage(c))
          /\ ip.approx_mode # 1 /\ ip.force_cache_config = FALSE
      BY <2>2, HoldsWhat
    <3>3. /\ n.assoc = 1 /\ n.is_cache \in BOOLEAN /\ n.pure_cam = FALSE
          /\ n.is_cache => n.tag_w = "thread"
      BY <2>1, <3>1
    <3>4. /\ n.hp_Vdd = ip.hp_Vdd /\ n.lop_Vdd = ip.lop_Vdd
          /\ n.lstp_Vdd = ip.lstp_Vdd /\ n.approx_mode = ip.approx_mode
          /\ n.force_cache_config = ip.force_cache_config
          /\ n.num_search_ports = ip.num_search_ports
          /\ n.num_rw_ports = ip.num_rw_ports
          /\ n.num_rd_ports = ip.num_rd_ports
          /\ n.num_wr_ports = ip.num_wr_ports
      BY <2>1, <3>1, <3>2 DEF Typed, Fields, Volts
    <3>6. Fields \subseteq DOMAIN n BY <3>1, <3>2 DEF Typed
    <3>7. Typed(n, kept) BY <3>2, <3>3, <3>4, <3>6 DEF Typed
    <3>8. At(n, Voltage(c)) BY <3>2, <3>4 DEF At
    <3>9. n.approx_mode # 1 /\ n.force_cache_config = FALSE BY <3>2, <3>4
    <3>10. n.assoc # 0 BY <3>3
    <3>11. Holds(Threaded, c, n, kept)
      BY <3>3, <3>7, <3>8, <3>9, <3>10, HoldsWhat
    <3> QED BY <3>11 DEF n
  <2> QED BY <2>2, AssignTriple
<1>2. /\ Moves(c, Threaded, Table("globalBPT", c), Threaded)
      /\ Moves(c, Threaded, Table("L1_localBPT", c), Threaded)
      /\ Moves(c, Threaded, Table("L2_localBPT", c), Threaded)
      /\ Moves(c, Threaded, Table("chooser", c), Threaded)
  <2>1. \A part \in Tables : Moves(c, Threaded, Table(part, c), Threaded)
    BY TableMoves
  <2> QED BY <2>1 DEF Tables
<1>3. Moves(c, Threaded, RAS(c), Plain)
  <2> DEFINE w == c.predictionW
  <2>1. w \in Nat /\ w \in Int /\ 0 \in Nat /\ 0 + w + w >= 1 BY DEF ConfigType
  <2>2. "RAS" \notin Twins BY DEF Twins
  <2> HIDE DEF w
  <2>3. Moves(c, Plain, Array("RAS", TRUE, Ram ++ Geometry("RAS") ++ Assoc(1)
                                             ++ Ports(0, w, w)), Plain)
    BY <2>1, <2>2, RamMoves
  <2>4. Moves(c, Plain, RAS(c), Plain) BY <2>3 DEF RAS, w
  <2> QED BY <2>4, PlainOf, MovesWeaker
<1>4. Triple(c, Threaded, <<Table("globalBPT", c), Table("L1_localBPT", c)>>,
             Threaded)
  BY <1>2, Pair
<1>5. Triple(c, Threaded, <<Table("globalBPT", c), Table("L1_localBPT", c),
                            Table("L2_localBPT", c)>>, Threaded)
  BY <1>2, <1>4, Grow3
<1>6. Triple(c, Threaded, <<Table("globalBPT", c), Table("L1_localBPT", c),
                            Table("L2_localBPT", c), Table("chooser", c)>>,
             Threaded)
  BY <1>2, <1>5, Grow4
<1>7. Triple(c, Threaded, <<Table("globalBPT", c), Table("L1_localBPT", c),
                            Table("L2_localBPT", c), Table("chooser", c),
                            RAS(c)>>, Plain)
  BY <1>3, <1>6, Grow5
<1> HIDE DEF set
<1> QED BY <1>1, <1>7, Composition DEF BranchPredictor, set

\* The constructor of InstFetchU: every array is right and the plain facts
\* are kept.
LEMMA InstFetchUTriple ==
    ASSUME NEW c \in ConfigType, c.root = "Core"
    PROVE  Triple(c, Plain, InstFetchU(c), Plain)
<1> DEFINE arrays == <<icache(c), icache_missb(c), icache_ifb(c), icache_prefetchb(c),
                       IB(c)>>
           logic == <<Logic("ID_inst", TRUE), Logic("ID_operand", TRUE),
                      Logic("ID_misc", TRUE)>>
           predictor == <<BTB(c)>> \o Unit("BPT", TRUE, BranchPredictor(c))
<1>0. c.fetch_ports \in Nat /\ (NoPorts(c) \/ c.fetch_ports >= 1)
  BY DEF ConfigType, NoPorts
<1>1. Triple(c, Plain, arrays, Plain)
  <2>1. Triple(c, Plain, <<icache(c), icache_missb(c)>>, Searched)
    BY <1>0, IcacheMoves, IcacheMissbMoves, Pair
  <2>2. /\ Moves(c, Searched, icache_ifb(c), Searched)
        /\ Moves(c, Searched, icache_prefetchb(c), Searched)
    <3>2. "icache.ifb" \notin Twins /\ "icache.prefetchb" \notin Twins
      BY DEF Twins
    <3> QED BY <1>0, <3>2, BufferMoves DEF icache_ifb, icache_prefetchb
  <2>3. Moves(c, Searched, IB(c), Plain)
    <3>1. /\ NoPorts(c) \/ c.fetch_ports + 0 + 0 >= 1
          /\ 0 \in Nat /\ 0 \in Int
      BY <1>0
    <3>2. "IB" \notin Twins BY DEF Twins
    <3>3. Moves(c, Plain, IB(c), Plain) BY <1>0, <3>1, <3>2, RamMoves DEF IB
    <3> QED BY <3>3, PlainOf, MovesWeaker
  <2>4. Triple(c, Plain, <<icache(c), icache_missb(c), icache_ifb(c)>>, Searched)
    BY <2>1, <2>2, Grow3
  <2>5. Triple(c, Plain, <<icache(c), icache_missb(c), icache_ifb(c),
                           icache_prefetchb(c)>>, Searched)
    BY <2>2, <2>4, Grow4
  <2> QED BY <2>3, <2>5, Grow5
<1>2. Triple(c, Plain, logic, Plain)
  <2>1. /\ Moves(c, Plain, Logic("ID_inst", TRUE), Plain)
        /\ Moves(c, Plain, Logic("ID_operand", TRUE), Plain)
        /\ Moves(c, Plain, Logic("ID_misc", TRUE), Plain)
    <3>1. /\ "ID_inst" \notin Twins /\ "ID_operand" \notin Twins
          /\ "ID_misc" \notin Twins
      BY DEF Twins
    <3> QED BY <3>1, PlainOf, LogicMoves
  <2>2. Triple(c, Plain, <<Logic("ID_inst", TRUE), Logic("ID_operand", TRUE)>>,
               Plain)
    BY <2>1, Pair
  <2> QED BY <2>1, <2>2, Grow3
<1>3. c.predictionW > 0 => Triple(c, Plain, predictor, Plain)
  <2>1. Triple(c, Plain, <<BTB(c)>>, Plain) BY BtbMoves, One
  <2>2. SUFFICES ASSUME c.predictionW > 0
                 PROVE  Triple(c, Plain, predictor, Plain)
    OBVIOUS
  <2>3. Triple(c, Plain, Unit("BPT", TRUE, BranchPredictor(c)), Plain)
    BY <2>2, PlainOf, BranchPredictorTriple, UnitTriple
  <2> QED BY <2>1, <2>3, Composition
<1> HIDE DEF arrays, logic, predictor
<1>4. Triple(c, Plain, Only(c.predictionW > 0, predictor), Plain)
  <2>1. CASE c.predictionW > 0 BY <1>3, <2>1 DEF Only
  <2>2. CASE ~(c.predictionW > 0) BY <2>2, PlainOf, Empty DEF Only
  <2> QED BY <2>1, <2>2
<1>5. Triple(c, Plain, arrays \o Only(c.predictionW > 0, predictor), Plain)
  BY <1>1, <1>4, Composition
<1>6. Triple(c, Plain, arrays \o Only(c.predictionW > 0, predictor) \o logic,
             Plain)
  BY <1>5, <1>2, Composition
<1> QED BY <1>6 DEF InstFetchU, arrays, logic, predictor

\* The constructor of SchedulerU: every array is right and the plain facts
\* are kept.
LEMMA SchedulerUTriple ==
    ASSUME NEW c \in ConfigType, c.root = "Core"
    PROVE  Triple(c, Plain, SchedulerU(c), Plain)
<1> DEFINE select == <<Logic("instruction_selection", FALSE)>>
           queue == <<InstFetchQueue(c)>> \o Assign(Assoc(1)) \o select
           windows == <<int_inst_window(c), fp_inst_window(c)>>
           rob == Only(c.ROB > 0, <<ReorderBuffer(c)>>)
<1>1. Triple(c, Plain, select, Plain)
  <2>1. "instruction_selection" \notin Twins BY DEF Twins
  <2> QED BY <2>1, PlainOf, LogicMoves, One
<1>2. Triple(c, Plain, queue, Plain)
  <2>1. Triple(c, Plain, <<InstFetchQueue(c)>>, Plain)
    <3>1. "int_inst_window" \notin Twins BY DEF Twins
    <3>2. c.peak_issueW \in Nat /\ c.peak_issueW >= 1 BY DEF ConfigType
    <3>3. Moves(c, Plain, InstFetchQueue(c), Plain)
      BY <3>1, <3>2, WindowMoves DEF InstFetchQueue
    <3> QED BY <3>3, One
  <2>2. Triple(c, Plain, Assign(Assoc(1)), Plain)
    <3>1. ASSUME NEW ip, NEW kept, Holds(Plain, c, ip, kept)
          PROVE  Holds(Plain, c, Assoc(1) ++ ip, kept)
      <4> DEFINE n == Assoc(1) ++ ip
      <4>1. DOMAIN Assoc(1) = {"assoc"} BY DEF Assoc
      <4>2. /\ DOMAIN n = {"assoc"} \cup DOMAIN ip
            /\ \A f \in DOMAIN ip \ {"assoc"} : n[f] = ip[f]
        BY <4>1 DEF ++
      <4> HIDE DEF n
      <4>3. /\ Typed(ip, kept) /\ At(ip, Voltage(c))
            /\ ip.approx_mode # 1 /\ ip.force_cache_config = FALSE
        BY <3>1, HoldsWhat
      <4>4. /\ n.hp_Vdd = ip.hp_Vdd /\ n.lop_Vdd = ip.lop_Vdd
            /\ n.lstp_Vdd = ip.lstp_Vdd /\ n.approx_mode = ip.approx_mode
            /\ n.force_cache_config = ip.force_cache_config
            /\ n.is_cache = ip.is_cache /\ n.pure_cam = ip.pure_cam
            /\ n.num_search_ports = ip.num_search_ports
            /\ n.num_rw_ports = ip.num_rw_ports
            /\ n.num_rd_ports = ip.num_rd_ports
            /\ n.num_wr_ports = ip.num_wr_ports
        BY <4>2, <4>3 DEF Typed, Fields, Volts
      <4>5. Fields \subseteq DOMAIN n BY <4>2, <4>3 DEF Typed
      <4>6. Typed(n, kept) BY <4>3, <4>4, <4>5 DEF Typed
      <4>7. At(n, Voltage(c)) BY <4>3, <4>4 DEF At
      <4>8. n.approx_mode # 1 /\ n.force_cache_config = FALSE BY <4>3, <4>4
      <4>9. Holds(Plain, c, n, kept) BY <4>6, <4>7, <4>8, HoldsWhat
      <4> QED BY <4>9 DEF n
    <3> QED BY <3>1, AssignTriple
  <2> HIDE DEF select
  <2>3. Triple(c, Plain, <<InstFetchQueue(c)>> \o Assign(Assoc(1)), Plain)
    BY <2>1, <2>2, Composition
  <2> QED BY <2>3, <1>1, Composition
<1>3. c.OOO => Triple(c, Plain, windows, Plain)
  <2>1. SUFFICES ASSUME c.OOO PROVE Triple(c, Plain, windows, Plain) OBVIOUS
  <2>2. Moves(c, Plain, int_inst_window(c), Plain)
    <3>1. "int_inst_window" \notin Twins BY DEF Twins
    <3>2. c.peak_issueW \in Nat /\ c.peak_issueW >= 1 BY DEF ConfigType
    <3> QED BY <3>1, <3>2, WindowMoves DEF int_inst_window
  <2>3. Moves(c, Plain, fp_inst_window(c), Plain)
    <3>1. "fp_inst_window" \notin Twins BY DEF Twins
    <3>2. c.fp_issueW \in Nat /\ (NoPorts(c) \/ c.fp_issueW >= 1)
      BY <2>1 DEF ConfigType, NoPorts
    <3> QED BY <3>1, <3>2, WindowMoves DEF fp_inst_window
  <2> QED BY <2>2, <2>3, Pair
<1>4. Triple(c, Plain, rob, Plain)
  <2>1. CASE c.ROB > 0 BY <2>1, RobMoves, One DEF Only
  <2>2. CASE ~(c.ROB > 0) BY <2>2, PlainOf, Empty DEF Only
  <2> QED BY <2>1, <2>2
<1> HIDE DEF select, queue, windows, rob
<1>5. c.OOO => Triple(c, Plain, windows \o rob \o select, Plain)
  BY <1>1, <1>3, <1>4, Composition
<1>6. Triple(c, Plain, Only(~c.OOO /\ c.threads > 1, queue), Plain)
  <2>1. CASE ~c.OOO /\ c.threads > 1 BY <1>2, <2>1 DEF Only
  <2>2. CASE ~(~c.OOO /\ c.threads > 1) BY <2>2, PlainOf, Empty DEF Only
  <2> QED BY <2>1, <2>2
<1>7. Triple(c, Plain, Only(c.OOO, windows \o rob \o select), Plain)
  <2>1. CASE c.OOO BY <1>5, <2>1 DEF Only
  <2>2. CASE ~c.OOO BY <2>2, PlainOf, Empty DEF Only
  <2> QED BY <2>1, <2>2
<1>8. SchedulerU(c) = Only(~c.OOO /\ c.threads > 1, queue)
                        \o Only(c.OOO, windows \o rob \o select)
  BY DEF SchedulerU, queue, windows, rob, select
<1> QED BY <1>6, <1>7, <1>8, Composition

\* The constructor of LoadStoreU: every array is right and the plain facts
\* are kept.
LEMMA LoadStoreUTriple ==
    ASSUME NEW c \in ConfigType, c.root = "Core"
    PROVE  Triple(c, Plain, LoadStoreU(c), Plain)
<1> DEFINE buffers == <<dcache_missb(c), dcache_ifb(c), dcache_prefetchb(c)>>
           wbb == Only(c.write_back, <<dcache_wbb(c)>>)
           load == Only(c.OOO /\ c.LoadQ > 0, <<LoadQ(c)>>)
<1>1. c.mem_ports \in Nat /\ (NoPorts(c) \/ c.mem_ports >= 1)
  BY DEF ConfigType, NoPorts
<1>2. /\ Moves(c, Searched, dcache_missb(c), Searched)
      /\ Moves(c, Searched, dcache_ifb(c), Searched)
      /\ Moves(c, Searched, dcache_prefetchb(c), Searched)
      /\ Moves(c, Searched, dcache_wbb(c), Searched)
  <2>1. /\ "dcache.missb" \notin Twins /\ "dcache.ifb" \notin Twins
        /\ "dcache.prefetchb" \notin Twins /\ "dcache.wbb" \notin Twins
    BY DEF Twins
  <2> QED BY <1>1, <2>1, BufferMoves
      DEF dcache_missb, dcache_ifb, dcache_prefetchb, dcache_wbb
<1>3. Triple(c, Searched, buffers, Searched)
  <2>1. Triple(c, Searched, <<dcache_missb(c), dcache_ifb(c)>>, Searched)
    BY <1>2, Pair
  <2> QED BY <1>2, <2>1, Grow3
<1>4. Triple(c, Searched, wbb, Searched)
  <2>1. CASE c.write_back BY <1>2, <2>1, One DEF Only
  <2>2. CASE ~c.write_back BY <2>2, Empty DEF Only
  <2> QED BY <2>1, <2>2
<1>5. Triple(c, Searched, <<LSQ(c)>>, Searched) BY <1>1, LsqMoves, One
<1>6. Triple(c, Searched, load, Plain)
  <2>1. CASE c.OOO /\ c.LoadQ > 0
    <3>1. Moves(c, Searched, LoadQ(c), Plain)
      <4>1. Moves(c, Searched, LoadQ(c), Searched) BY <1>1, LoadQMoves
      <4>2. Searched \subseteq Searched OBVIOUS
      <4> QED BY <4>1, <4>2, PlainOf, MovesWeaker
    <3> QED BY <2>1, <3>1, One DEF Only
  <2>2. CASE ~(c.OOO /\ c.LoadQ > 0) BY <2>2, PlainOf, Empty DEF Only
  <2> QED BY <2>1, <2>2
<1> HIDE DEF buffers, wbb, load
<1>7. Triple(c, Plain, dcache(c) \o buffers, Searched)
  BY DcacheTriple, <1>3, Composition
<1>8. Triple(c, Plain, dcache(c) \o buffers \o wbb, Searched)
  BY <1>7, <1>4, Composition
<1>9. Triple(c, Plain, dcache(c) \o buffers \o wbb \o <<LSQ(c)>>, Searched)
  BY <1>8, <1>5, Composition
<1>10. Triple(c, Plain, dcache(c) \o buffers \o wbb \o <<LSQ(c)>> \o load,
              Plain)
  BY <1>9, <1>6, Composition
<1> QED BY <1>10 DEF LoadStoreU, buffers, wbb, load

\* The constructor of MemManU: every array is right and the plain facts are
\* kept.
LEMMA MemManUTriple ==
    ASSUME NEW c \in ConfigType, c.root = "Core"
    PROVE  Triple(c, Plain, MemManU(c), Plain)
<1>1. /\ c.mem_ports \in Nat /\ (NoPorts(c) \/ c.mem_ports >= 1)
      /\ c.fetch_ports \in Nat /\ (NoPorts(c) \/ c.fetch_ports >= 1)
  BY DEF ConfigType, NoPorts
<1>2. "itlb" \notin Twins /\ "dtlb" \notin Twins
  BY DEF Twins
<1>3. Moves(c, Plain, Tlb("itlb", c.fetch_ports), Plain)
  BY <1>1, <1>2, TlbMoves
<1>4. Moves(c, Plain, Tlb("dtlb", c.mem_ports), Plain) BY <1>1, <1>2, TlbMoves
<1> QED BY <1>3, <1>4, Pair DEF MemManU

\* The constructor of RegFU: every array is right and the plain facts are
\* kept.
LEMMA RegFUTriple ==
    ASSUME NEW c \in ConfigType
    PROVE  Triple(c, Plain, RegFU(c), Plain)
<1>1. /\ Moves(c, Plain, RegFile("IRF", c.peak_issueW), Plain)
      /\ Moves(c, Plain, RegFile("FRF", c.issueW), Plain)
  <2>1. "IRF" \notin Twins /\ "FRF" \notin Twins BY DEF Twins
  <2>2. c.peak_issueW \in Nat /\ c.issueW \in Nat BY DEF ConfigType
  <2> QED BY <2>1, <2>2, RegFileMoves
<1>2. Moves(c, Plain, RFWIN, Plain)
  <2>1. 1 + 0 + 0 >= 1 /\ 1 \in Nat /\ 0 \in Nat /\ 0 \in Int OBVIOUS
  <2>2. "RFWIN" \notin Twins BY DEF Twins
  <2> QED BY <2>1, <2>2, RamMoves DEF RFWIN
<1>3. Triple(c, Plain, <<RegFile("IRF", c.peak_issueW),
                        RegFile("FRF", c.issueW)>>, Plain)
  BY <1>1, Pair
<1>4. Triple(c, Plain, Only(c.windows /\ ~c.OOO, <<RFWIN>>), Plain)
  <2>1. CASE c.windows /\ ~c.OOO BY <1>2, <2>1, One DEF Only
  <2>2. CASE ~(c.windows /\ ~c.OOO) BY <2>2, PlainOf, Empty DEF Only
  <2> QED BY <2>1, <2>2
<1> QED BY <1>3, <1>4, Composition DEF RegFU

\* The two wires of one kind of bypass.
LEMMA WirePair ==
    ASSUME NEW c \in ConfigType, NEW p, p \notin Twins, NEW q, q \notin Twins,
           NEW n, NEW m, NEW g, NEW h
    PROVE  Triple(c, Plain, <<Wire(p, n, g), Wire(q, m, h)>>, Plain)
  BY WireMoves, PlainOf, Pair

\* The constructor of the bypass wires: every array is right and the plain
\* facts are kept.
LEMMA BypassTriple ==
    ASSUME NEW c \in ConfigType
    PROVE  /\ Triple(c, Plain, InorderBypass(c), Plain)
           /\ Triple(c, Plain, PhysicalRegFileBypass(c), Plain)
           /\ Triple(c, Plain, ReservationStationBypass(c), Plain)
<1>1. /\ "int_bypass" \notin Twins /\ "intTagBypass" \notin Twins
      /\ "int_mul_bypass" \notin Twins /\ "intTag_mul_Bypass" \notin Twins
      /\ "fp_bypass" \notin Twins /\ "fpTagBypass" \notin Twins
  BY DEF Twins
<1>2. ASSUME NEW n1, NEW n2, NEW n3, NEW n4, NEW n5, NEW n6,
             NEW h1, NEW h2, NEW h3, NEW h4, NEW h5, NEW h6
      PROVE  Triple(c, Plain,
               <<Wire("int_bypass", n1, h1), Wire("intTagBypass", n2, h2)>>
                 \o Only(c.muls > 0, <<Wire("int_mul_bypass", n3, h3),
                                       Wire("intTag_mul_Bypass", n4, h4)>>)
                 \o Only(c.fpus > 0, <<Wire("fp_bypass", n5, h5),
                                       Wire("fpTagBypass", n6, h6)>>), Plain)
  <2> DEFINE int == <<Wire("int_bypass", n1, h1), Wire("intTagBypass", n2, h2)>>
             mul == <<Wire("int_mul_bypass", n3, h3),
                      Wire("intTag_mul_Bypass", n4, h4)>>
             fp == <<Wire("fp_bypass", n5, h5), Wire("fpTagBypass", n6, h6)>>
  <2>1. Triple(c, Plain, int, Plain) BY <1>1, WirePair
  <2>2. Triple(c, Plain, mul, Plain) BY <1>1, WirePair
  <2>3. Triple(c, Plain, fp, Plain) BY <1>1, WirePair
  <2> HIDE DEF int, mul, fp
  <2>4. Triple(c, Plain, Only(c.muls > 0, mul), Plain)
    <3>1. CASE c.muls > 0 BY <2>2, <3>1 DEF Only
    <3>2. CASE ~(c.muls > 0) BY <3>2, PlainOf, Empty DEF Only
    <3> QED BY <3>1, <3>2
  <2>5. Triple(c, Plain, Only(c.fpus > 0, fp), Plain)
    <3>1. CASE c.fpus > 0 BY <2>3, <3>1 DEF Only
    <3>2. CASE ~(c.fpus > 0) BY <3>2, PlainOf, Empty DEF Only
    <3> QED BY <3>1, <3>2
  <2>6. Triple(c, Plain, int \o Only(c.muls > 0, mul), Plain)
    BY <2>1, <2>4, Composition
  <2>7. Triple(c, Plain, int \o Only(c.muls > 0, mul) \o Only(c.fpus > 0, fp),
               Plain)
    BY <2>6, <2>5, Composition
  <2> QED BY <2>7 DEF int, mul, fp
<1>3. Triple(c, Plain, InorderBypass(c), Plain) BY <1>2 DEF InorderBypass
<1>4. Triple(c, Plain, PhysicalRegFileBypass(c), Plain)
  BY <1>2 DEF PhysicalRegFileBypass
<1>5. Triple(c, Plain, ReservationStationBypass(c), Plain)
  BY <1>2 DEF ReservationStationBypass
<1> QED BY <1>3, <1>4, <1>5

\* The constructor of EXECU: every array is right and the plain facts are
\* kept.
LEMMA EXECUTriple ==
    ASSUME NEW c \in ConfigType, c.root = "Core"
    PROVE  Triple(c, Plain, EXECU(c), Plain)
<1> DEFINE units == Unit("rfu", TRUE, RegFU(c)) \o Unit("scheu", TRUE, SchedulerU(c))
           alu == <<Logic("exeu", TRUE)>>
           fpu == Only(c.fpus > 0, <<Logic("fp_u", TRUE)>>)
           mul == Only(c.muls > 0, <<Logic("mul", TRUE)>>)
           wires == IF ~c.OOO THEN InorderBypass(c)
                    ELSE IF c.PRF THEN PhysicalRegFileBypass(c)
                    ELSE ReservationStationBypass(c)
<1>1. Triple(c, Plain, units, Plain)
  <2>1. Triple(c, Plain, Unit("rfu", TRUE, RegFU(c)), Plain)
    BY PlainOf, RegFUTriple, UnitTriple
  <2>2. Triple(c, Plain, Unit("scheu", TRUE, SchedulerU(c)), Plain)
    BY PlainOf, SchedulerUTriple, UnitTriple
  <2> QED BY <2>1, <2>2, Composition
<1>2. "exeu" \notin Twins /\ "fp_u" \notin Twins /\ "mul" \notin Twins
  BY DEF Twins
<1>3. Triple(c, Plain, alu, Plain) BY <1>2, PlainOf, LogicMoves, One
<1>4. Triple(c, Plain, fpu, Plain)
  <2>1. CASE c.fpus > 0 BY <1>2, <2>1, PlainOf, LogicMoves, One DEF Only
  <2>2. CASE ~(c.fpus > 0) BY <2>2, PlainOf, Empty DEF Only
  <2> QED BY <2>1, <2>2
<1>5. Triple(c, Plain, mul, Plain)
  <2>1. CASE c.muls > 0 BY <1>2, <2>1, PlainOf, LogicMoves, One DEF Only
  <2>2. CASE ~(c.muls > 0) BY <2>2, PlainOf, Empty DEF Only
  <2> QED BY <2>1, <2>2
<1>6. Triple(c, Plain, wires, Plain) BY BypassTriple
<1> HIDE DEF units, alu, fpu, mul, wires
<1>7. Triple(c, Plain, units \o alu, Plain) BY <1>1, <1>3, Composition
<1>8. Triple(c, Plain, units \o alu \o fpu, Plain) BY <1>7, <1>4, Composition
<1>9. Triple(c, Plain, units \o alu \o fpu \o mul, Plain)
  BY <1>8, <1>5, Composition
<1>10. Triple(c, Plain, units \o alu \o fpu \o mul \o wires, Plain)
  BY <1>9, <1>6, Composition
<1>11. EXECU(c) = units \o alu \o fpu \o mul \o wires
  BY DEF EXECU, units, alu, fpu, mul, wires
<1> QED BY <1>10, <1>11

\* The constructor of RENAMINGU: every array is right and the plain facts
\* are kept.
LEMMA RENAMINGUTriple ==
    ASSUME NEW c \in ConfigType, c.root = "Core", c.OOO
    PROVE  Triple(c, Plain, RENAMINGU(c), Plain)
<1> DEFINE w == c.fp_issueW
           d == c.decodeW
           m == c.commitW
<1>1. /\ w \in Nat /\ d \in Nat /\ m \in Nat
      /\ NoPorts(c) \/ w >= 1
      /\ c.PRF \/ c.RAM => NoPorts(c) \/ m >= 1
      /\ ~c.RAM => NoPorts(c) \/ d >= 1
  BY DEF ConfigType, NoPorts
<1>2. /\ "iFRAT" \notin Twins /\ "fFRAT" \notin Twins /\ "iRRAT" \notin Twins
      /\ "fRRAT" \notin Twins /\ "ifreeL" \notin Twins
      /\ "ffreeL" \notin Twins /\ "idcl" \notin Twins /\ "fdcl" \notin Twins
  BY DEF Twins
<1> HIDE DEF w, d, m
<1>3. /\ 0 \in Nat /\ 1 \in Nat /\ 2 * w \in Nat /\ 2 * d \in Nat
      /\ w \in Int /\ d \in Int /\ m \in Int
      /\ w - 1 + m \in Int /\ d - 1 + m \in Int
  BY <1>1
<1>4. Triple(c, Plain, RamFrontRAT(c), Plain)
  <2>1. 1 + 2 * d + d >= 1 /\ 1 + 2 * w + w >= 1 BY <1>1
  <2>2. /\ Moves(c, Plain, RamTable("iFRAT", 1, 2 * d, d), Plain)
        /\ Moves(c, Plain, RamTable("fFRAT", 1, 2 * w, w), Plain)
    BY <1>1, <1>2, <1>3, <2>1, RamTableMoves
  <2> QED BY <2>2, Pair DEF RamFrontRAT, d, w
<1>5. ~c.RAM => Triple(c, Plain, CamFrontRAT(c), Plain)
                /\ Triple(c, Plain, StationCamFrontRAT(c), Plain)
  <2>1. SUFFICES ASSUME ~c.RAM
                 PROVE  /\ Triple(c, Plain, CamFrontRAT(c), Plain)
                        /\ Triple(c, Plain, StationCamFrontRAT(c), Plain)
    OBVIOUS
  <2>2. (NoPorts(c) \/ 2 * d >= 1) /\ (NoPorts(c) \/ 2 * w >= 1)
    BY <1>1, <2>1
  <2>3. /\ Moves(c, Plain, CamTable("iFRAT", d, d, 2 * d), Plain)
        /\ Moves(c, Plain, CamTable("fFRAT", w, w, 2 * w), Plain)
        /\ Moves(c, Plain, CamTable("fFRAT", d, w, 2 * w), Plain)
    BY <1>1, <1>2, <1>3, <2>2, CamTableMoves
  <2> QED BY <2>3, Pair DEF CamFrontRAT, StationCamFrontRAT, d, w
<1>6. ~c.PRF /\ c.RAM => Triple(c, Plain, StationRamFrontRAT(c), Plain)
  <2>1. SUFFICES ASSUME ~c.PRF, c.RAM
                 PROVE  Triple(c, Plain, StationRamFrontRAT(c), Plain)
    OBVIOUS
  <2>2. /\ NoPorts(c) \/ c.fp_issueW >= 1
        /\ NoPorts(c) \/ c.commitW >= 1
    BY <1>1, <2>1 DEF w, m
  <2> QED BY <2>1, <2>2, StationIntMoves, StationFpMoves, Pair
      DEF StationRamFrontRAT
<1>7. c.PRF => Triple(c, Plain, RetireRATs(c), Plain)
  <2>1. SUFFICES ASSUME c.PRF PROVE Triple(c, Plain, RetireRATs(c), Plain)
    OBVIOUS
  <2>2. (NoPorts(c) \/ 0 + m + m >= 1) /\ (NoPorts(c) \/ 0 + w + w >= 1)
    BY <1>1, <2>1
  <2>3. /\ Moves(c, Plain, RamTable("iRRAT", 0, m, m), Plain)
        /\ Moves(c, Plain, RamTable("fRRAT", 0, w, w), Plain)
    BY <1>1, <1>2, <1>3, <2>2, RamTableMoves
  <2> QED BY <2>3, Pair DEF RetireRATs, m, w
<1>8. Moves(c, Plain, FreeList("ifreeL", c.decodeW, c), Plain)
  <2>1. NoPorts(c) \/ 1 + d + (d - 1 + m) >= 1 BY <1>1
  <2>2. Moves(c, Plain, RamTable("ifreeL", 1, d, d - 1 + m), Plain)
    BY <1>1, <1>2, <1>3, <2>1, RamTableMoves
  <2> QED BY <2>2 DEF FreeList, d, m
<1>9. Triple(c, Plain, FreeLists(c), Plain)
  <2>1. NoPorts(c) \/ 1 + w + (w - 1 + m) >= 1 BY <1>1
  <2>2. Moves(c, Plain, RamTable("ffreeL", 1, w, w - 1 + m), Plain)
    BY <1>1, <1>2, <1>3, <2>1, RamTableMoves
  <2>3. Moves(c, Plain, FreeList("ffreeL", c.fp_issueW, c), Plain)
    BY <2>2 DEF FreeList, w, m
  <2> QED BY <1>8, <2>3, Pair DEF FreeLists
<1>11. Triple(c, Plain, UnifiedFreeList(c), Plain)
  BY <1>8, One DEF UnifiedFreeList
<1>12. Triple(c, Plain, dcls, Plain)
  BY <1>2, PlainOf, LogicMoves, Pair DEF dcls
<1>13. CASE c.PRF
  <2> DEFINE front == IF c.RAM THEN RamFrontRAT(c) ELSE CamFrontRAT(c)
  <2>1. Triple(c, Plain, front, Plain) BY <1>4, <1>5
  <2> HIDE DEF front
  <2>2. Triple(c, Plain, front \o RetireRATs(c), Plain)
    BY <2>1, <1>7, <1>13, Composition
  <2>3. Triple(c, Plain, front \o RetireRATs(c) \o FreeLists(c), Plain)
    BY <2>2, <1>9, Composition
  <2>4. Triple(c, Plain, front \o RetireRATs(c) \o FreeLists(c) \o dcls, Plain)
    BY <2>3, <1>12, Composition
  <2> QED BY <2>4, <1>13 DEF RENAMINGU, front
<1>14. CASE ~c.PRF
  <2> DEFINE front == IF c.RAM THEN StationRamFrontRAT(c)
                      ELSE StationCamFrontRAT(c)
  <2>1. Triple(c, Plain, front, Plain) BY <1>5, <1>6, <1>14
  <2> HIDE DEF front
  <2>2. Triple(c, Plain, front \o UnifiedFreeList(c), Plain)
    BY <2>1, <1>11, Composition
  <2>3. Triple(c, Plain, front \o UnifiedFreeList(c) \o dcls, Plain)
    BY <2>2, <1>12, Composition
  <2> QED BY <2>3, <1>14 DEF RENAMINGU, front
<1> QED BY <1>13, <1>14

\* The assignment of the voltages at the start of a core or cache.
LEMMA VddTriple ==
    ASSUME NEW c \in ConfigType, NEW F, F \in {Plain, Start(c)}
    PROVE  Triple(c, F, Only(c.vdd, Assign(AllVdd("own"))), Plain)
<1>1. CASE c.vdd
  <2>1. ASSUME NEW ip, NEW kept, Holds(F, c, ip, kept)
        PROVE  Holds(Plain, c, AllVdd("own") ++ ip, kept)
    <3> DEFINE n == AllVdd("own") ++ ip
    <3>1. /\ DOMAIN n = Volts \cup DOMAIN ip
          /\ At(n, "own")
          /\ \A f \in DOMAIN ip \ Volts : n[f] = ip[f]
      BY DEF ++, AllVdd, At, Volts
    <3> HIDE DEF n
    <3>2. /\ Typed(ip, kept)
          /\ ip.approx_mode # 1 /\ ip.force_cache_config = FALSE
      BY <2>1 DEF Holds, Plain, Start
    <3>3. /\ n.is_cache = ip.is_cache /\ n.pure_cam = ip.pure_cam
          /\ n.num_search_ports = ip.num_search_ports
          /\ n.num_rw_ports = ip.num_rw_ports
          /\ n.num_rd_ports = ip.num_rd_ports
          /\ n.num_wr_ports = ip.num_wr_ports
          /\ n.approx_mode = ip.approx_mode
          /\ n.force_cache_config = ip.force_cache_config
      BY <3>1, <3>2 DEF Typed, Fields, Volts
    <3>4. Fields \subseteq DOMAIN n BY <3>1, <3>2 DEF Typed
    <3>5. Typed(n, kept) BY <3>2, <3>3, <3>4 DEF Typed
    <3>6. At(n, Voltage(c)) BY <1>1, <3>1 DEF Voltage
    <3>7. n.approx_mode # 1 /\ n.force_cache_config = FALSE BY <3>2, <3>3
    <3>8. Holds(Plain, c, n, kept) BY <3>5, <3>6, <3>7, HoldsWhat
    <3> QED BY <3>8 DEF n
  <2>2. Triple(c, F, Assign(AllVdd("own")), Plain) BY <2>1, AssignTriple
  <2> QED BY <1>1, <2>2 DEF Only
<1>2. CASE ~c.vdd
  <2>1. F = Plain BY <1>2 DEF Start
  <2>2. Triple(c, F, <<>>, Plain) BY <2>1, PlainOf, Empty
  <2> QED BY <1>2, <2>2 DEF Only
<1> QED BY <1>1, <1>2

\* The constructor of SharedCache: every array is right and the plain facts
\* are kept.
LEMMA SharedCacheTriple ==
    ASSUME NEW c \in ConfigType, NEW level, IsLevel(c, level),
           NEW F, F \in {Plain, Start(c)}
    PROVE  Triple(c, F, SharedCache(c, level), Plain)
<1> DEFINE buffers == <<unicache_missb, unicache_ifb, unicache_prefetchb,
                        unicache_wbb>>
<1>1. Triple(c, F, set_cache_param(c), Plain)
  BY VddTriple DEF set_cache_param
<1>2. Triple(c, Plain, buffers, Plain)
  <2>1. /\ Moves(c, Searched, unicache_ifb, Searched)
        /\ Moves(c, Searched, unicache_prefetchb, Searched)
        /\ Moves(c, Searched, unicache_wbb, Searched)
    <3>1. 1 \in Nat /\ 1 >= 1 OBVIOUS
    <3>2. /\ "unicache.ifb" \notin Twins /\ "unicache.prefetchb" \notin Twins
          /\ "unicache.wbb" \notin Twins
      BY DEF Twins
    <3> QED BY <3>1, <3>2, BufferMoves
        DEF unicache_ifb, unicache_prefetchb, unicache_wbb
  <2>2. Triple(c, Plain, <<unicache_missb, unicache_ifb>>, Searched)
    BY UnicacheMissbMoves, <2>1, Pair
  <2>3. Triple(c, Plain, <<unicache_missb, unicache_ifb, unicache_prefetchb>>,
               Searched)
    BY <2>1, <2>2, Grow3
  <2>4. Moves(c, Searched, unicache_wbb, Plain)
    <3>1. Searched \subseteq Searched OBVIOUS
    <3> QED BY <2>1, <3>1, PlainOf, MovesWeaker
  <2> QED BY <2>3, <2>4, Grow4
<1> HIDE DEF buffers
<1>3. Triple(c, Plain, Only(~TagDirectory(c, level), buffers), Plain)
  <2>1. CASE ~TagDirectory(c, level) BY <1>2, <2>1 DEF Only
  <2>2. CASE TagDirectory(c, level) BY <2>2, PlainOf, Empty DEF Only
  <2> QED BY <2>1, <2>2
<1>4. Triple(c, F, set_cache_param(c) \o unicache(c, level), Plain)
  BY <1>1, UnicacheTriple, Composition
<1>5. Triple(c, F, set_cache_param(c) \o unicache(c, level)
                         \o Only(~TagDirectory(c, level), buffers), Plain)
  BY <1>4, <1>3, Composition
<1> QED BY <1>5 DEF SharedCache, buffers

\* The constructor of the units of a core: every array is right and the
\* plain facts are kept.
LEMMA CoreUnitsTriple ==
    ASSUME NEW c \in ConfigType, c.root = "Core"
    PROVE  Triple(c, Plain, CoreUnits(c), Plain)
<1> DEFINE l2 == Only(c.Private_L2, Unit("l2cache", FALSE, SharedCache(c, "L2")))
           ifu == Unit("ifu", FALSE, InstFetchU(c))
           lsu == Unit("lsu", FALSE, LoadStoreU(c))
           mmu == Unit("mmu", FALSE, MemManU(c))
           exu == Unit("exu", FALSE, EXECU(c))
           undiff == Unit("undiffCore", FALSE, <<Logic("undiffCore", TRUE)>>)
           rnu == Only(c.OOO, Unit("rnu", FALSE, RENAMINGU(c)))
           pipe == <<Logic("corepipe", FALSE)>>
<1>1. Triple(c, Plain, l2, Plain)
  <2>1. Triple(c, Plain, Unit("l2cache", FALSE, SharedCache(c, "L2")), Plain)
    <3>1. IsLevel(c, "L2") BY DEF IsLevel
    <3>2. Triple(c, Plain, SharedCache(c, "L2"), Plain)
      BY <3>1, SharedCacheTriple
    <3> QED BY <3>2, PlainOf, UnitTriple
  <2>2. CASE c.Private_L2 BY <2>1, <2>2 DEF Only
  <2>3. CASE ~c.Private_L2 BY <2>3, PlainOf, Empty DEF Only
  <2> QED BY <2>2, <2>3
<1>2. Triple(c, Plain, ifu, Plain) BY InstFetchUTriple, PlainOf, UnitTriple
<1>3. Triple(c, Plain, lsu, Plain) BY LoadStoreUTriple, PlainOf, UnitTriple
<1>4. Triple(c, Plain, mmu, Plain) BY MemManUTriple, PlainOf, UnitTriple
<1>5. Triple(c, Plain, exu, Plain) BY EXECUTriple, PlainOf, UnitTriple
<1>6. /\ Triple(c, Plain, <<Logic("undiffCore", TRUE)>>, Plain)
      /\ Triple(c, Plain, pipe, Plain)
  <2>1. "undiffCore" \notin Twins /\ "corepipe" \notin Twins BY DEF Twins
  <2> QED BY <2>1, PlainOf, LogicMoves, One
<1>7. Triple(c, Plain, undiff, Plain) BY <1>6, PlainOf, UnitTriple
<1>8. Triple(c, Plain, rnu, Plain)
  <2>1. CASE c.OOO
    <3>1. Triple(c, Plain, Unit("rnu", FALSE, RENAMINGU(c)), Plain)
      BY <2>1, RENAMINGUTriple, PlainOf, UnitTriple
    <3> QED BY <3>1, <2>1 DEF Only
  <2>2. CASE ~c.OOO BY <2>2, PlainOf, Empty DEF Only
  <2> QED BY <2>1, <2>2
<1>9. CoreUnits(c) = l2 \o ifu \o lsu \o mmu \o exu \o undiff \o rnu \o pipe
  BY DEF CoreUnits
<1> HIDE DEF l2, ifu, lsu, mmu, exu, undiff, rnu, pipe
<1>10. Triple(c, Plain, l2 \o ifu, Plain) BY <1>1, <1>2, Composition
<1>11. Triple(c, Plain, l2 \o ifu \o lsu, Plain) BY <1>10, <1>3, Composition
<1>12. Triple(c, Plain, l2 \o ifu \o lsu \o mmu, Plain)
  BY <1>11, <1>4, Composition
<1>13. Triple(c, Plain, l2 \o ifu \o lsu \o mmu \o exu, Plain)
  BY <1>12, <1>5, Composition
<1>14. Triple(c, Plain, l2 \o ifu \o lsu \o mmu \o exu \o undiff, Plain)
  BY <1>13, <1>7, Composition
<1>15. Triple(c, Plain, l2 \o ifu \o lsu \o mmu \o exu \o undiff \o rnu, Plain)
  BY <1>14, <1>8, Composition
<1>16. Triple(c, Plain, l2 \o ifu \o lsu \o mmu \o exu \o undiff \o rnu \o pipe,
              Plain)
  BY <1>15, <1>6, Composition
<1> QED BY <1>9, <1>16

\* The whole construction keeps its promises, for every configuration.
LEMMA ProgramTriple ==
    ASSUME NEW c \in ConfigType
    PROVE  Triple(c, Start(c), Program(c), Plain)
<1>1. CASE c.root = "Core"
  <2> DEFINE vdd == Only(c.vdd, Assign(AllVdd("own")))
             end == [op |-> "core_area"]
  <2>1. Triple(c, Start(c), vdd, Plain) BY VddTriple
  <2>2. Triple(c, Plain, <<end>>, Plain)
    <3>1. end.op = "core_area" OBVIOUS
    <3> HIDE DEF end
    <3>2. Moves(c, Plain, end, Plain)
      BY <3>1 DEF Moves, Through, IpAfter, KeptAfter
    <3> QED BY <3>2, One
  <2>3. Program(c) = vdd \o CoreUnits(c) \o <<end>> BY <1>1 DEF Program
  <2> HIDE DEF vdd, end
  <2>4. Triple(c, Start(c), vdd \o CoreUnits(c), Plain)
    BY <1>1, <2>1, CoreUnitsTriple, Composition
  <2>5. Triple(c, Start(c), vdd \o CoreUnits(c) \o <<end>>, Plain)
    BY <2>4, <2>2, Composition
  <2> QED BY <2>3, <2>5
<1>2. CASE c.root # "Core"
  <2>1. IsLevel(c, c.root) BY <1>2 DEF IsLevel
  <2>2. Triple(c, Start(c), SharedCache(c, c.root), Plain)
    BY <2>1, SharedCacheTriple
  <2> QED BY <1>2, <2>2 DEF Program
<1> QED BY <1>1, <1>2

-----------------------------------------------------------------------------
(* Which parts a program builds. *)

\* The parts made by a concatenation.
LEMMA MadeConcat ==
    ASSUME NEW s, NEW t, IsSeq(s), IsSeq(t)
    PROVE  /\ \A n \in 0 .. Len(s) : Made(s \o t, n) = Made(s, n)
           /\ \A n \in 0 .. Len(t) :
                Made(s \o t, Len(s) + n) = Made(s, Len(s)) \cup Made(t, n)
<1> DEFINE m == Len(s)
           u == s \o t
<1>1. /\ m \in Nat /\ Len(t) \in Nat
      /\ \A k \in 1 .. m : u[k] = s[k]
      /\ \A k \in 1 .. Len(t) : u[m + k] = t[k]
  BY SeqConcat
<1> HIDE DEF m, u
<1>2. ASSUME NEW n \in 0 .. m PROVE Made(u, n) = Made(s, n)
  <2>1. \A k \in 1 .. n : k \in 1 .. m BY <1>1
  <2> QED BY <1>1, <2>1 DEF Made
<1>3. ASSUME NEW n \in 0 .. Len(t)
      PROVE  Made(u, m + n) = Made(s, m) \cup Made(t, n)
  <2>1. ASSUME NEW p \in Made(u, m + n) PROVE p \in Made(s, m) \cup Made(t, n)
    <3>1. PICK k \in 1 .. m + n : u[k].op \in Making /\ p = u[k].part
      BY <2>1 DEF Made
    <3>2. CASE k <= m
      <4>1. k \in 1 .. m BY <3>2, <1>1
      <4> QED BY <3>1, <4>1, <1>1 DEF Made
    <3>3. CASE ~(k <= m)
      <4>1. k - m \in 1 .. n /\ k - m \in 1 .. Len(t) /\ m + (k - m) = k
        BY <3>3, <1>1
      <4>2. u[k] = t[k - m] BY <4>1, <1>1
      <4> QED BY <3>1, <4>1, <4>2 DEF Made
    <3> QED BY <3>2, <3>3
  <2>2. ASSUME NEW p \in Made(s, m) PROVE p \in Made(u, m + n)
    <3>1. PICK k \in 1 .. m : s[k].op \in Making /\ p = s[k].part
      BY <2>2 DEF Made
    <3>2. k \in 1 .. m + n /\ u[k] = s[k] BY <1>1
    <3> QED BY <3>1, <3>2 DEF Made
  <2>3. ASSUME NEW p \in Made(t, n) PROVE p \in Made(u, m + n)
    <3>1. PICK k \in 1 .. n : t[k].op \in Making /\ p = t[k].part
      BY <2>3 DEF Made
    <3>2. m + k \in 1 .. m + n /\ u[m + k] = t[k] BY <1>1
    <3> QED BY <3>1, <3>2 DEF Made
  <2> QED BY <2>1, <2>2, <2>3
<1> QED BY <1>2, <1>3 DEF m, u

\* More parts may be there before.
LEMMA BuildsMore ==
    ASSUME NEW c, NEW D, NEW E, NEW s, NEW P, Builds(c, D, s, P),
           D \subseteq E
    PROVE  Builds(c, E, s, P)
<1>1. ASSUME NEW k \in 1 .. Len(s)
      PROVE  WellMade(c, E \cup Made(s, k - 1), s[k])
  <2>1. WellMade(c, D \cup Made(s, k - 1), s[k]) BY DEF Builds
  <2>2. D \cup Made(s, k - 1) \cup Unset(c)
          \subseteq E \cup Made(s, k - 1) \cup Unset(c)
    OBVIOUS
  <2> QED BY <2>1, <2>2 DEF WellMade
<1> QED BY <1>1 DEF Builds

\* One piece after another.
LEMMA BuildsConcat ==
    ASSUME NEW c, NEW D, NEW s, NEW P, NEW t, NEW Q,
           Builds(c, D, s, P), Builds(c, D \cup P, t, Q)
    PROVE  Builds(c, D, s \o t, P \cup Q)
<1> DEFINE m == Len(s)
           u == s \o t
<1>1. IsSeq(s) /\ IsSeq(t) BY DEF Builds
<1>2. /\ IsSeq(u) /\ m \in Nat /\ Len(t) \in Nat /\ Len(u) = m + Len(t)
      /\ \A k \in 1 .. m : u[k] = s[k]
      /\ \A k \in 1 .. Len(t) : u[m + k] = t[k]
  BY <1>1, SeqConcat
<1>3. /\ \A n \in 0 .. m : Made(u, n) = Made(s, n)
      /\ \A n \in 0 .. Len(t) : Made(u, m + n) = P \cup Made(t, n)
  BY <1>1, MadeConcat DEF Builds
<1> HIDE DEF m, u
<1>4. Made(u, Len(u)) = P \cup Q
  <2>1. Len(t) \in 0 .. Len(t) BY <1>2
  <2> QED BY <1>2, <1>3, <2>1 DEF Builds
<1>5. ASSUME NEW k \in 1 .. Len(u)
      PROVE  WellMade(c, D \cup Made(u, k - 1), u[k])
  <2>1. CASE k <= m
    <3>1. k \in 1 .. m /\ k - 1 \in 0 .. m BY <2>1, <1>2
    <3>2. WellMade(c, D \cup Made(s, k - 1), s[k]) BY <3>1 DEF Builds, m
    <3> QED BY <3>1, <3>2, <1>2, <1>3
  <2>2. CASE ~(k <= m)
    <3>1. PICK j \in 1 .. Len(t) : k = m + j
      <4>1. k - m \in 1 .. Len(t) /\ k = m + (k - m) BY <2>2, <1>2
      <4> QED BY <4>1
    <3>2. j - 1 \in 0 .. Len(t) /\ k - 1 = m + (j - 1) BY <3>1, <1>2
    <3>3. u[k] = t[j] /\ Made(u, k - 1) = P \cup Made(t, j - 1)
      BY <3>1, <3>2, <1>2, <1>3
    <3>4. WellMade(c, (D \cup P) \cup Made(t, j - 1), t[j]) BY DEF Builds
    <3>5. (D \cup P) \cup Made(t, j - 1) = D \cup (P \cup Made(t, j - 1))
      OBVIOUS
    <3> QED BY <3>3, <3>4, <3>5
  <2> QED BY <2>1, <2>2
<1>6. Builds(c, D, u, P \cup Q) BY <1>2, <1>4, <1>5 DEF Builds
<1> QED BY <1>6 DEF u

\* Two pieces without heights of their own, or one after the other.
LEMMA BuildsBoth ==
    ASSUME NEW c, NEW D, NEW s, NEW P, NEW t, NEW Q,
           Builds(c, D, s, P), Builds(c, D, t, Q)
    PROVE  Builds(c, D, s \o t, P \cup Q)
<1>1. Builds(c, D \cup P, t, Q) BY BuildsMore
<1> QED BY <1>1, BuildsConcat

\* No statements.
LEMMA BuildsNone ==
    ASSUME NEW c, NEW D
    PROVE  Builds(c, D, <<>>, {})
  BY SeqNone DEF Builds, Made

\* One statement that builds a part, and one that builds none.
LEMMA BuildsOne ==
    ASSUME NEW c, NEW D, NEW st, WellMade(c, D, st)
    PROVE  /\ st.op \in Making => Builds(c, D, <<st>>, {st.part})
           /\ st.op \notin Making => Builds(c, D, <<st>>, {})
<1> DEFINE s == <<st>>
<1>1. IsSeq(s) /\ Len(s) = 1 /\ s[1] = st BY SeqOne
<1> HIDE DEF s
<1>2. ASSUME NEW k \in 1 .. 1 PROVE WellMade(c, D \cup Made(s, k - 1), s[k])
  <2>1. k = 1 OBVIOUS
  <2>2. Made(s, 0) = {} BY DEF Made
  <2> QED BY <1>1, <2>1, <2>2
<1>3. st.op \in Making => Made(s, 1) = {st.part} BY <1>1 DEF Made
<1>4. st.op \notin Making => Made(s, 1) = {} BY <1>1 DEF Made
<1> QED BY <1>1, <1>2, <1>3, <1>4 DEF Builds, s

\* An array.
LEMMA BuildsArray ==
    ASSUME NEW c, NEW D, NEW part, part \notin LogicParts \cup WireParts,
           NEW n, NEW set, Portless(c, part) => Refused(set)
    PROVE  Builds(c, D, <<Array(part, n, set)>>, {part})
<1> DEFINE st == Array(part, n, set)
<1>1. st.op = "array" /\ st.part = part /\ st.set = set BY DEF Array
<1> HIDE DEF st
<1>2. WellMade(c, D, st) /\ st.op \in Making
  BY <1>1 DEF WellMade, Kind, Making
<1> QED BY <1>1, <1>2, BuildsOne DEF st

\* Logic.
LEMMA BuildsLogic ==
    ASSUME NEW c, NEW D, NEW part \in LogicParts, NEW n
    PROVE  Builds(c, D, <<Logic(part, n)>>, {part})
<1> DEFINE st == Logic(part, n)
<1>1. st.op = "logic" /\ st.part = part BY DEF Logic
<1> HIDE DEF st
<1>2. WellMade(c, D, st) /\ st.op \in Making
  BY <1>1 DEF WellMade, Kind, Making
<1> QED BY <1>1, <1>2, BuildsOne DEF st

\* A wire.
LEMMA BuildsWire ==
    ASSUME NEW c, NEW D, NEW part \in WireParts, NEW n, NEW heights,
           heights \subseteq D \cup Unset(c)
    PROVE  Builds(c, D, <<Wire(part, n, heights)>>, {part})
<1> DEFINE st == Wire(part, n, heights)
<1>1. st.op = "wire" /\ st.part = part /\ st.heights = heights BY DEF Wire
<1> HIDE DEF st
<1>2. part \notin LogicParts BY DEF LogicParts, WireParts
<1>3. WellMade(c, D, st) /\ st.op \in Making
  BY <1>1, <1>2 DEF WellMade, Kind, Making
<1> QED BY <1>1, <1>3, BuildsOne DEF st

\* A statement that makes nothing.
LEMMA BuildsAside ==
    ASSUME NEW c, NEW D
    PROVE  /\ \A set : Builds(c, D, Assign(set), {})
           /\ Builds(c, D, Keep, {}) /\ Builds(c, D, Restore, {})
<1>1. ASSUME NEW st, st.op \in {"assign", "keep", "restore"}
      PROVE  Builds(c, D, <<st>>, {})
  <2>1. st.op \notin Making BY <1>1 DEF Making
  <2>2. WellMade(c, D, st) BY <1>1, <2>1 DEF WellMade
  <2> QED BY <2>1, <2>2, BuildsOne
<1>2. ASSUME NEW set PROVE Builds(c, D, Assign(set), {})
  <2> DEFINE st == [op |-> "assign", set |-> set]
  <2>1. st.op \in {"assign", "keep", "restore"} OBVIOUS
  <2> HIDE DEF st
  <2> QED BY <2>1, <1>1 DEF Assign, st
<1>3. Builds(c, D, Keep, {})
  <2> DEFINE st == [op |-> "keep"]
  <2>1. st.op \in {"assign", "keep", "restore"} OBVIOUS
  <2> HIDE DEF st
  <2> QED BY <2>1, <1>1 DEF Keep, st
<1>4. Builds(c, D, Restore, {})
  <2> DEFINE st == [op |-> "restore"]
  <2>1. st.op \in {"assign", "keep", "restore"} OBVIOUS
  <2> HIDE DEF st
  <2> QED BY <2>1, <1>1 DEF Restore, st
<1> QED BY <1>2, <1>3, <1>4

\* A constructor called from another one.
LEMMA BuildsUnit ==
    ASSUME NEW c, NEW D, NEW unit, NEW counted, NEW body, NEW P,
           Builds(c, D, body, P)
    PROVE  Builds(c, D, Unit(unit, counted, body), P)
<1> DEFINE enter == [op |-> "enter", unit |-> unit]
           leave == [op |-> "leave", unit |-> unit, counted |-> counted]
<1>1. enter.op = "enter" /\ leave.op = "leave" OBVIOUS
<1>2. Unit(unit, counted, body) = (<<enter>> \o body) \o <<leave>>
  BY DEF Unit
<1> HIDE DEF enter, leave
<1>3. Builds(c, D, <<enter>>, {}) /\ Builds(c, D, <<leave>>, {})
  BY <1>1, BuildsOne DEF WellMade, Making
<1>4. Builds(c, D, <<enter>> \o body, {} \cup P) BY <1>3, BuildsBoth
<1>5. Builds(c, D, (<<enter>> \o body) \o <<leave>>, ({} \cup P) \cup {})
  BY <1>3, <1>4, BuildsBoth
<1>6. ({} \cup P) \cup {} = P OBVIOUS
<1> QED BY <1>2, <1>5, <1>6

-----------------------------------------------------------------------------
(* Which areas a program sums up. *)

\* One piece after another.
LEMMA SumsConcat ==
    ASSUME NEW s, NEW t, IsSeq(s), IsSeq(t), NEW a, NEW b, NEW e,
           Sums(s, a, b), Sums(t, b, e)
    PROVE  Sums(s \o t, a, e)
<1> DEFINE m == Len(s)
           n == Len(t)
           u == s \o t
<1>1. PICK o1 : /\ DOMAIN o1 = 0 .. m /\ o1[0] = a /\ o1[m] = b
                /\ \A k \in 0 .. m : IsSeq(o1[k].base)
                /\ \A k \in 1 .. m : Grows(s[k], o1[k - 1], o1[k])
  BY DEF Sums
<1>2. PICK o2 : /\ DOMAIN o2 = 0 .. n /\ o2[0] = b /\ o2[n] = e
                /\ \A k \in 0 .. n : IsSeq(o2[k].base)
                /\ \A k \in 1 .. n : Grows(t[k], o2[k - 1], o2[k])
  BY DEF Sums
<1> DEFINE o == [k \in 0 .. m + n |-> IF k <= m THEN o1[k] ELSE o2[k - m]]
<1>3. /\ m \in Nat /\ n \in Nat /\ Len(u) = m + n
      /\ \A k \in 1 .. m : u[k] = s[k]
      /\ \A k \in 1 .. n : u[m + k] = t[k]
  BY SeqConcat
<1> HIDE DEF m, n, u
<1>4. DOMAIN o = 0 .. m + n OBVIOUS
<1>5. /\ \A k \in 0 .. m : o[k] = o1[k]
      /\ \A k \in 0 .. n : o[m + k] = o2[k]
  <2>1. ASSUME NEW k \in 0 .. m PROVE o[k] = o1[k] BY <1>3
  <2>2. ASSUME NEW k \in 0 .. n PROVE o[m + k] = o2[k]
    <3>1. m + k \in 0 .. m + n /\ (m + k) - m = k BY <1>3
    <3>2. CASE k = 0
      <4>1. o[m + k] = o1[m] BY <3>1, <3>2, <1>3
      <4> QED BY <4>1, <3>2, <1>1, <1>2
    <3>3. CASE k # 0
      <4>1. ~(m + k <= m) BY <3>3, <1>3
      <4> QED BY <3>1, <4>1
    <3> QED BY <3>2, <3>3
  <2> QED BY <2>1, <2>2
<1> HIDE DEF o
<1>6. o[0] = a /\ o[m + n] = e
  <2>1. 0 \in 0 .. m /\ n \in 0 .. n BY <1>3
  <2> QED BY <2>1, <1>5, <1>1, <1>2
<1>7. ASSUME NEW k \in 0 .. m + n PROVE IsSeq(o[k].base)
  <2>1. k \in 0 .. m \/ (k - m \in 0 .. n /\ k = m + (k - m)) BY <1>3
  <2> QED BY <2>1, <1>5, <1>1, <1>2
<1>8. ASSUME NEW k \in 1 .. m + n PROVE Grows(u[k], o[k - 1], o[k])
  <2>1. CASE k <= m
    <3>1. k \in 1 .. m /\ k \in 0 .. m /\ k - 1 \in 0 .. m BY <2>1, <1>3
    <3> QED BY <3>1, <1>1, <1>3, <1>5
  <2>2. CASE ~(k <= m)
    <3>1. PICK j \in 1 .. n : k = m + j
      <4>1. k - m \in 1 .. n /\ k = m + (k - m) BY <2>2, <1>3
      <4> QED BY <4>1
    <3>2. j \in 0 .. n /\ j - 1 \in 0 .. n /\ k - 1 = m + (j - 1)
      BY <3>1, <1>3
    <3> QED BY <3>1, <3>2, <1>2, <1>3, <1>5
  <2> QED BY <2>1, <2>2
<1>9. Sums(u, a, e) BY <1>3, <1>4, <1>6, <1>7, <1>8 DEF Sums
<1> QED BY <1>9 DEF u

\* A single statement.
LEMMA SumsOne ==
    ASSUME NEW st, NEW a, NEW b, IsSeq(a.base), IsSeq(b.base), Grows(st, a, b)
    PROVE  Sums(<<st>>, a, b)
<1> DEFINE o == [k \in 0 .. 1 |-> IF k = 0 THEN a ELSE b]
<1>1. o[0] = a /\ o[1] = b /\ DOMAIN o = 0 .. 1 OBVIOUS
<1> HIDE DEF o
<1>2. \A k \in 1 .. 1 : Grows(<<st>>[k], o[k - 1], o[k]) BY <1>1, SeqOne
<1>3. \A k \in 0 .. 1 : IsSeq(o[k].base)
  <2>1. \A k \in 0 .. 1 : k = 0 \/ k = 1 OBVIOUS
  <2> QED BY <2>1, <1>1
<1> QED BY <1>1, <1>2, <1>3, SeqOne DEF Sums

\* No statements.
LEMMA SumsNone ==
    ASSUME NEW a, IsSeq(a.base)
    PROVE  Sums(<<>>, a, a)
<1> DEFINE o == [k \in {0} |-> a]
<1>1. o[0] = a /\ DOMAIN o = 0 .. 0 OBVIOUS
<1> HIDE DEF o
<1>2. \A k \in 0 .. 0 : IsSeq(o[k].base)
  <2>1. \A k \in 0 .. 0 : k = 0 OBVIOUS
  <2> QED BY <2>1, <1>1
<1> QED BY <1>1, <1>2, SeqNone DEF Sums

\* One piece after another.
LEMMA AddsConcat ==
    ASSUME NEW s, NEW t, IsSeq(s), IsSeq(t), NEW A, NEW B,
           A \cap B = {}, Adds(s, A), Adds(t, B)
    PROVE  Adds(s \o t, A \cup B)
<1>1. ASSUME NEW base, NEW X, NEW units, IsSeq(base),
             X \cap (A \cup B) = {}
      PROVE  Sums(s \o t, Sum(base, X, units), Sum(base, X \cup (A \cup B), units))
  <2>1. Sums(s, Sum(base, X, units), Sum(base, X \cup A, units))
    <3>1. X \cap A = {} BY <1>1
    <3> QED BY <1>1, <3>1 DEF Adds
  <2>2. Sums(t, Sum(base, X \cup A, units), Sum(base, (X \cup A) \cup B, units))
    <3>1. (X \cup A) \cap B = {} BY <1>1
    <3> QED BY <1>1, <3>1 DEF Adds
  <2>3. (X \cup A) \cup B = X \cup (A \cup B) OBVIOUS
  <2> QED BY <2>1, <2>2, <2>3, SumsConcat
<1> QED BY <1>1 DEF Adds

\* The fields of a point.
LEMMA SumFields ==
    ASSUME NEW base, NEW X, NEW units
    PROVE  /\ Sum(base, X, units).base = base
           /\ Sum(base, X, units).top = X
           /\ Sum(base, X, units).units = units
  BY DEF Sum

\* A single part.
LEMMA AddsOne ==
    ASSUME NEW st
    PROVE  /\ st.op \in Making /\ st.counted => Adds(<<st>>, {st.part})
           /\ st.op \in Making /\ ~st.counted => Adds(<<st>>, {})
           /\ st.op \in {"assign", "keep", "restore"} => Adds(<<st>>, {})
<1>1. ASSUME NEW A, NEW base, NEW X, NEW units, IsSeq(base), X \cap A = {},
             \/ st.op \in Making /\ st.counted /\ A = {st.part}
             \/ st.op \in Making /\ ~st.counted /\ A = {}
             \/ st.op \in {"assign", "keep", "restore"} /\ A = {}
      PROVE  Sums(<<st>>, Sum(base, X, units), Sum(base, X \cup A, units))
  <2> DEFINE a == Sum(base, X, units)
             b == Sum(base, X \cup A, units)
  <2>1. /\ a.base = base /\ a.top = X /\ a.units = units
        /\ b.base = base /\ b.top = X \cup A /\ b.units = units
    BY SumFields
  <2>2. A = {} => X \cup A = X OBVIOUS
  <2>3. A = {} => b = a BY <2>2
  <2> HIDE DEF a, b
  <2>4. Grows(st, a, b)
    <3>1. CASE st.op \in Making /\ st.counted /\ A = {st.part}
      <4>1. st.part \notin a.top /\ b.top = a.top \cup {st.part}
        BY <3>1, <2>1, <1>1
      <4> QED BY <3>1, <4>1, <2>1 DEF Grows, Making
    <3>2. CASE st.op \in Making /\ ~st.counted /\ A = {}
      BY <3>2, <2>1, <2>2 DEF Grows, Making
    <3>3. CASE st.op \in {"assign", "keep", "restore"} /\ A = {}
      BY <3>3, <2>3 DEF Grows, Making
    <3> QED BY <1>1, <3>1, <3>2, <3>3
  <2>5. Sums(<<st>>, a, b) BY <1>1, <2>1, <2>4, SumsOne
  <2> QED BY <2>5 DEF a, b
<1> QED BY <1>1 DEF Adds

\* A unit adds its area to the caller's, or to the finished units.
LEMMA UnitSums ==
    ASSUME NEW unit, NEW counted \in BOOLEAN, NEW body, IsSeq(body), NEW A,
           Adds(body, A), NEW base, IsSeq(base), NEW X, NEW units,
           counted => X \cap A = {}
    PROVE  Sums(Unit(unit, counted, body), Sum(base, X, units),
                Sum(base, IF counted THEN X \cup A ELSE X,
                    IF unit \in CoreAreas THEN Entry(unit, A) ++ units
                    ELSE units))
<1> DEFINE enter == [op |-> "enter", unit |-> unit]
           leave == [op |-> "leave", unit |-> unit, counted |-> counted]
           deep == Append(base, X)
           last == Sum(base, IF counted THEN X \cup A ELSE X,
                       IF unit \in CoreAreas THEN Entry(unit, A) ++ units
                       ELSE units)
<1>1. /\ enter.op = "enter" /\ leave.op = "leave" /\ leave.unit = unit
      /\ leave.counted = counted
  OBVIOUS
<1>2. Unit(unit, counted, body) = (<<enter>> \o body) \o <<leave>>
  BY DEF Unit
<1>3. IsSeq(deep)
  <2>1. PICK Y : base \in Seq(Y) BY DEF IsSeq
  <2>2. deep \in Seq(Y \cup {X}) BY <2>1
  <2> QED BY <2>2 DEF IsSeq
<1> HIDE DEF enter, leave, deep, last
<1>4. Sums(<<enter>>, Sum(base, X, units), Sum(deep, {}, units))
  <2> DEFINE a == Sum(base, X, units)
             b == Sum(deep, {}, units)
  <2>1. /\ a.base = base /\ a.top = X /\ a.units = units
        /\ b.base = deep /\ b.top = {} /\ b.units = units
    BY SumFields
  <2> HIDE DEF a, b
  <2>2. b.base = Append(a.base, a.top) BY <2>1 DEF deep
  <2>3. Grows(enter, a, b) BY <1>1, <2>1, <2>2 DEF Grows, Making
  <2>4. Sums(<<enter>>, a, b) BY <2>1, <2>3, <1>3, SumsOne
  <2> QED BY <2>4 DEF a, b
<1>5. Sums(body, Sum(deep, {}, units), Sum(deep, A, units))
  <2>1. {} \cap A = {} /\ {} \cup A = A OBVIOUS
  <2> QED BY <2>1, <1>3 DEF Adds
<1>6. Sums(<<leave>>, Sum(deep, A, units), last)
  <2>1. /\ last.base = base
        /\ last.top = (IF counted THEN X \cup A ELSE X)
        /\ last.units = IF unit \in CoreAreas THEN Entry(unit, A) ++ units
                        ELSE units
    BY SumFields DEF last
  <2> DEFINE a == Sum(deep, A, units)
  <2>2. a.base = deep /\ a.top = A /\ a.units = units BY SumFields
  <2> HIDE DEF a
  <2>3. \E Y : /\ a.base = Append(last.base, Y)
               /\ \/ leave.counted /\ Y \cap a.top = {} /\ last.top = Y \cup a.top
                  \/ ~leave.counted /\ last.top = Y
    BY <1>1, <2>1, <2>2 DEF deep
  <2>4. Grows(leave, a, last)
    BY <1>1, <2>1, <2>2, <2>3 DEF Grows, Making
  <2>5. Sums(<<leave>>, a, last) BY <1>3, <2>1, <2>2, <2>4, SumsOne
  <2> QED BY <2>5 DEF a
<1>7. /\ IsSeq(<<enter>>) /\ IsSeq(<<leave>>) /\ IsSeq(<<enter>> \o body)
  BY SeqOne, SeqConcat
<1>8. Sums(<<enter>> \o body, Sum(base, X, units), Sum(deep, A, units))
  BY <1>4, <1>5, <1>7, SumsConcat
<1>9. Sums((<<enter>> \o body) \o <<leave>>, Sum(base, X, units), last)
  BY <1>6, <1>7, <1>8, SumsConcat
<1> QED BY <1>2, <1>9 DEF last

-----------------------------------------------------------------------------
(* Parts and areas together. *)

\* One piece after another.
LEMMA FillsConcat ==
    ASSUME NEW c, NEW D, NEW s, NEW P, NEW A, NEW t, NEW Q, NEW B,
           Fills(c, D, s, P, A), Fills(c, D \cup P, t, Q, B), A \cap B = {}
    PROVE  Fills(c, D, s \o t, P \cup Q, A \cup B)
<1>1. IsSeq(s) /\ IsSeq(t) BY DEF Fills, Builds
<1> QED BY <1>1, BuildsConcat, AddsConcat DEF Fills

\* Two pieces with different parts.
LEMMA FillsBoth ==
    ASSUME NEW c, NEW D, NEW s, NEW P, NEW A, NEW t, NEW Q, NEW B,
           Fills(c, D, s, P, A), Fills(c, D, t, Q, B), A \cap B = {}
    PROVE  Fills(c, D, s \o t, P \cup Q, A \cup B)
<1>1. IsSeq(s) /\ IsSeq(t) BY DEF Fills, Builds
<1> QED BY <1>1, BuildsBoth, AddsConcat DEF Fills

\* No statements.
LEMMA FillsNone ==
    ASSUME NEW c, NEW D
    PROVE  Fills(c, D, <<>>, {}, {})
<1>1. Adds(<<>>, {})
  <2>1. ASSUME NEW base, NEW X, NEW units, IsSeq(base)
        PROVE  Sums(<<>>, Sum(base, X, units), Sum(base, X \cup {}, units))
    <3>1. X \cup {} = X OBVIOUS
    <3> QED BY <2>1, <3>1, SumFields, SumsNone
  <2> QED BY <2>1 DEF Adds
<1> QED BY <1>1, BuildsNone DEF Fills

\* No record makes up for ports that a constructor sets to none.
LEMMA PortsRefused ==
    ASSUME NEW set, {"num_rw_ports", "num_rd_ports", "num_wr_ports"}
                      \subseteq DOMAIN set,
           set.num_rw_ports = 0, set.num_rd_ports = 0, set.num_wr_ports = 0
    PROVE  Refused(set)
  BY DEF Refused, error_checking, PortsOk, ++

\* Nor for search ports of a fully associative array.
LEMMA SearchRefused ==
    ASSUME NEW set, {"is_cache", "pure_cam", "assoc", "num_search_ports"}
                      \subseteq DOMAIN set,
           set.is_cache = TRUE, set.assoc = 0, set.num_search_ports = 0
    PROVE  Refused(set)
  BY DEF Refused, error_checking, ShapeOk, fully_assoc, ++

\* The assignments that leave an array without ports.
LEMMA NoPortsRefused ==
    ASSUME NEW p
    PROVE  /\ Refused(Geometry(p) ++ Tag(p) ++ Assoc(8) ++ Cache
                         ++ Ports(0, 0, 0))
           /\ Refused(Geometry(p) ++ Tag(p) ++ Assoc(8) ++ Ports(0, 0, 0)
                         ++ Approx(1))
           /\ Refused(Ram ++ Geometry(p) ++ Assoc(1) ++ Ports(0, 0, 0))
<1>1. Refused(Geometry(p) ++ Tag(p) ++ Assoc(8) ++ Cache ++ Ports(0, 0, 0))
  <2> DEFINE set == Geometry(p) ++ Tag(p) ++ Assoc(8) ++ Cache
                      ++ Ports(0, 0, 0)
  <2>1. /\ {"num_rw_ports", "num_rd_ports", "num_wr_ports"} \subseteq DOMAIN set
        /\ set.num_rw_ports = 0 /\ set.num_rd_ports = 0
        /\ set.num_wr_ports = 0
    BY DEF ++, Geometry, Tag, Assoc, Cache, Ports
  <2> HIDE DEF set
  <2>2. Refused(set) BY <2>1, PortsRefused
  <2> QED BY <2>2 DEF set
<1>2. Refused(Geometry(p) ++ Tag(p) ++ Assoc(8) ++ Ports(0, 0, 0) ++ Approx(1))
  <2> DEFINE set == Geometry(p) ++ Tag(p) ++ Assoc(8) ++ Ports(0, 0, 0)
                      ++ Approx(1)
  <2>1. /\ {"num_rw_ports", "num_rd_ports", "num_wr_ports"} \subseteq DOMAIN set
        /\ set.num_rw_ports = 0 /\ set.num_rd_ports = 0
        /\ set.num_wr_ports = 0
    BY DEF ++, Geometry, Tag, Assoc, Approx, Ports
  <2> HIDE DEF set
  <2>2. Refused(set) BY <2>1, PortsRefused
  <2> QED BY <2>2 DEF set
<1>3. Refused(Ram ++ Geometry(p) ++ Assoc(1) ++ Ports(0, 0, 0))
  <2> DEFINE set == Ram ++ Geometry(p) ++ Assoc(1) ++ Ports(0, 0, 0)
  <2>1. /\ {"num_rw_ports", "num_rd_ports", "num_wr_ports"} \subseteq DOMAIN set
        /\ set.num_rw_ports = 0 /\ set.num_rd_ports = 0
        /\ set.num_wr_ports = 0
    BY DEF ++, Geometry, Assoc, Ram, Ports
  <2> HIDE DEF set
  <2>2. Refused(set) BY <2>1, PortsRefused
  <2> QED BY <2>2 DEF set
<1> QED BY <1>1, <1>2, <1>3

\* The assignments that leave a fully associative array without search ports.
LEMMA NoSearchRefused ==
    ASSUME NEW p, NEW rw, NEW rd, NEW wr
    PROVE  Refused(Cache ++ Geometry(p) ++ Tag(p) ++ Assoc(0)
                     ++ Ports(rw, rd, wr) ++ Search(0))
<1> DEFINE set == Cache ++ Geometry(p) ++ Tag(p) ++ Assoc(0)
                    ++ Ports(rw, rd, wr) ++ Search(0)
<1>1. /\ {"is_cache", "pure_cam", "assoc", "num_search_ports"}
           \subseteq DOMAIN set
      /\ set.is_cache = TRUE /\ set.assoc = 0 /\ set.num_search_ports = 0
  BY DEF ++, Geometry, Tag, Assoc, Cache, Ports, Search
<1> HIDE DEF set
<1>2. Refused(set) BY <1>1, SearchRefused
<1> QED BY <1>2 DEF set

\* An array.
LEMMA FillsArray ==
    ASSUME NEW c, NEW D, NEW part, part \notin LogicParts \cup WireParts,
           NEW set, Portless(c, part) => Refused(set)
    PROVE  /\ Fills(c, D, <<Array(part, TRUE, set)>>, {part}, {part})
           /\ Fills(c, D, <<Array(part, FALSE, set)>>, {part}, {})
<1> DEFINE st(n) == Array(part, n, set)
<1>1. \A n : st(n).op = "array" /\ st(n).part = part /\ st(n).counted = n
  BY DEF Array
<1> HIDE DEF st
<1>2. Adds(<<st(TRUE)>>, {part}) /\ Adds(<<st(FALSE)>>, {})
  BY <1>1, AddsOne DEF Making
<1> QED BY <1>2, BuildsArray DEF Fills, st

\* Logic.
LEMMA FillsLogic ==
    ASSUME NEW c, NEW D, NEW part \in LogicParts
    PROVE  /\ Fills(c, D, <<Logic(part, TRUE)>>, {part}, {part})
           /\ Fills(c, D, <<Logic(part, FALSE)>>, {part}, {})
<1> DEFINE st(n) == Logic(part, n)
<1>1. \A n : st(n).op = "logic" /\ st(n).part = part /\ st(n).counted = n
  BY DEF Logic
<1> HIDE DEF st
<1>2. Adds(<<st(TRUE)>>, {part}) /\ Adds(<<st(FALSE)>>, {})
  BY <1>1, AddsOne DEF Making
<1> QED BY <1>2, BuildsLogic DEF Fills, st

\* A wire.
LEMMA FillsWire ==
    ASSUME NEW c, NEW D, NEW part \in WireParts, NEW heights,
           heights \subseteq D \cup Unset(c)
    PROVE  /\ Fills(c, D, <<Wire(part, TRUE, heights)>>, {part}, {part})
           /\ Fills(c, D, <<Wire(part, FALSE, heights)>>, {part}, {})
<1> DEFINE st(n) == Wire(part, n, heights)
<1>1. \A n : st(n).op = "wire" /\ st(n).part = part /\ st(n).counted = n
  BY DEF Wire
<1> HIDE DEF st
<1>2. Adds(<<st(TRUE)>>, {part}) /\ Adds(<<st(FALSE)>>, {})
  BY <1>1, AddsOne DEF Making
<1> QED BY <1>2, BuildsWire DEF Fills, st

\* A statement that makes nothing.
LEMMA FillsAside ==
    ASSUME NEW c, NEW D
    PROVE  /\ \A set : Fills(c, D, Assign(set), {}, {})
           /\ Fills(c, D, Keep, {}, {}) /\ Fills(c, D, Restore, {}, {})
<1>1. ASSUME NEW set PROVE Adds(Assign(set), {})
  <2> DEFINE st == [op |-> "assign", set |-> set]
  <2>1. st.op \in {"assign", "keep", "restore"} OBVIOUS
  <2> HIDE DEF st
  <2> QED BY <2>1, AddsOne DEF Assign, st
<1>2. Adds(Keep, {})
  <2> DEFINE st == [op |-> "keep"]
  <2>1. st.op \in {"assign", "keep", "restore"} OBVIOUS
  <2> HIDE DEF st
  <2> QED BY <2>1, AddsOne DEF Keep, st
<1>3. Adds(Restore, {})
  <2> DEFINE st == [op |-> "restore"]
  <2>1. st.op \in {"assign", "keep", "restore"} OBVIOUS
  <2> HIDE DEF st
  <2> QED BY <2>1, AddsOne DEF Restore, st
<1> QED BY <1>1, <1>2, <1>3, BuildsAside DEF Fills

\* A unit inside another one.
LEMMA FillsUnit ==
    ASSUME NEW c, NEW D, NEW unit, unit \notin CoreAreas, NEW body, NEW P,
           NEW A, Fills(c, D, body, P, A)
    PROVE  Fills(c, D, Unit(unit, TRUE, body), P, A)
<1>1. IsSeq(body) BY DEF Fills, Builds
<1>2. ASSUME NEW base, NEW X, NEW units, IsSeq(base), X \cap A = {}
      PROVE  Sums(Unit(unit, TRUE, body), Sum(base, X, units),
                  Sum(base, X \cup A, units))
  <2>1. Sums(Unit(unit, TRUE, body), Sum(base, X, units),
             Sum(base, IF TRUE THEN X \cup A ELSE X,
                 IF unit \in CoreAreas THEN Entry(unit, A) ++ units
                 ELSE units))
    BY <1>1, <1>2, UnitSums DEF Fills
  <2> QED BY <2>1
<1> QED BY <1>2, BuildsUnit DEF Fills, Adds

\* Several statements in a row.
LEMMA Fills2 ==
    ASSUME NEW c, NEW D, NEW a, NEW P, NEW A, NEW b, NEW Q, NEW B,
           Fills(c, D, <<a>>, P, A), Fills(c, D, <<b>>, Q, B), A \cap B = {}
    PROVE  Fills(c, D, <<a, b>>, P \cup Q, A \cup B)
<1> DEFINE s == <<a>>
           t == <<b>>
<1>1. <<a, b>> = s \o t OBVIOUS
<1> HIDE DEF s, t
<1>2. Fills(c, D, s \o t, P \cup Q, A \cup B) BY FillsBoth DEF s, t
<1> QED BY <1>1, <1>2

\* Three arrays in a row.
LEMMA Fills3 ==
    ASSUME NEW c, NEW D, NEW a, NEW b, NEW P, NEW A, NEW x, NEW Q, NEW B,
           Fills(c, D, <<a, b>>, P, A), Fills(c, D, <<x>>, Q, B), A \cap B = {}
    PROVE  Fills(c, D, <<a, b, x>>, P \cup Q, A \cup B)
<1> DEFINE s == <<a, b>>
           t == <<x>>
<1>1. <<a, b, x>> = s \o t OBVIOUS
<1> HIDE DEF s, t
<1>2. Fills(c, D, s \o t, P \cup Q, A \cup B) BY FillsBoth DEF s, t
<1> QED BY <1>1, <1>2

\* Four arrays in a row.
LEMMA Fills4 ==
    ASSUME NEW c, NEW D, NEW a, NEW b, NEW d, NEW P, NEW A, NEW x, NEW Q,
           NEW B, Fills(c, D, <<a, b, d>>, P, A), Fills(c, D, <<x>>, Q, B),
           A \cap B = {}
    PROVE  Fills(c, D, <<a, b, d, x>>, P \cup Q, A \cup B)
<1> DEFINE s == <<a, b, d>>
           t == <<x>>
<1>1. <<a, b, d, x>> = s \o t OBVIOUS
<1> HIDE DEF s, t
<1>2. Fills(c, D, s \o t, P \cup Q, A \cup B) BY FillsBoth DEF s, t
<1> QED BY <1>1, <1>2

\* Five arrays in a row.
LEMMA Fills5 ==
    ASSUME NEW c, NEW D, NEW a, NEW b, NEW d, NEW e, NEW P, NEW A, NEW x,
           NEW Q, NEW B, Fills(c, D, <<a, b, d, e>>, P, A),
           Fills(c, D, <<x>>, Q, B), A \cap B = {}
    PROVE  Fills(c, D, <<a, b, d, e, x>>, P \cup Q, A \cup B)
<1> DEFINE s == <<a, b, d, e>>
           t == <<x>>
<1>1. <<a, b, d, e, x>> = s \o t OBVIOUS
<1> HIDE DEF s, t
<1>2. Fills(c, D, s \o t, P \cup Q, A \cup B) BY FillsBoth DEF s, t
<1> QED BY <1>1, <1>2

-----------------------------------------------------------------------------
(* Parts and areas of each constructor. *)

\* The parts that InstFetchU makes, and those that count for its area.
LEMMA InstFetchUFills ==
    ASSUME NEW c
    PROVE  Fills(c, {}, InstFetchU(c), InstFetchUParts(c), InstFetchUParts(c))
<1> DEFINE arrays == <<icache(c), icache_missb(c), icache_ifb(c), icache_prefetchb(c),
                       IB(c)>>
           logic == <<Logic("ID_inst", TRUE), Logic("ID_operand", TRUE),
                      Logic("ID_misc", TRUE)>>
           tables == <<Table("globalBPT", c), Table("L1_localBPT", c),
                       Table("L2_localBPT", c), Table("chooser", c), RAS(c)>>
           set == Assoc(1) ++ IF c.threads > 1 THEN Cache ++ Tag("thread")
                              ELSE Ram
           predictor == <<BTB(c)>> \o Unit("BPT", TRUE, BranchPredictor(c))
           bpt == Tables \cup {"RAS"}
           ahead == IF c.predictionW > 0 THEN Tables \cup {"RAS", "BTB"} ELSE {}
<1>1. Fills(c, {}, arrays, IcacheParts \cup {"IB"}, IcacheParts \cup {"IB"})
  <2>1. \A p \in {"icache.caches", "icache.missb", "icache.ifb",
                  "icache.prefetchb", "IB"} :
           /\ p \notin LogicParts \cup WireParts
           /\ p = "icache.caches" \/ ~Portless(c, p)
    BY DEF LogicParts, WireParts, Portless
  <2>2. Fills(c, {}, <<icache(c)>>, {"icache.caches"}, {"icache.caches"})
    <3> DEFINE set_ == Geometry("icache.caches") ++ Tag("icache.caches")
                         ++ Assoc(8) ++ Cache ++ Ports(c.fetch_ports, 0, 0)
    <3>1. Portless(c, "icache.caches") => Refused(set_)
      <4>1. ASSUME Portless(c, "icache.caches")
            PROVE  set_ = Geometry("icache.caches") ++ Tag("icache.caches")
                            ++ Assoc(8) ++ Cache ++ Ports(0, 0, 0)
        BY <4>1 DEF Portless
      <4> HIDE DEF set_
      <4> QED BY <4>1, NoPortsRefused
    <3> HIDE DEF set_
    <3>2. Fills(c, {}, <<Array("icache.caches", TRUE, set_)>>,
                {"icache.caches"}, {"icache.caches"})
      BY <2>1, <3>1, FillsArray
    <3> QED BY <3>2 DEF icache, set_
  <2>3. Fills(c, {}, <<icache_missb(c)>>, {"icache.missb"}, {"icache.missb"})
    BY <2>1, FillsArray DEF icache_missb
  <2>4. Fills(c, {}, <<icache_ifb(c)>>, {"icache.ifb"}, {"icache.ifb"})
    BY <2>1, FillsArray DEF icache_ifb, Buffer
  <2>5. Fills(c, {}, <<icache_prefetchb(c)>>, {"icache.prefetchb"},
              {"icache.prefetchb"})
    BY <2>1, FillsArray DEF icache_prefetchb, Buffer
  <2>6. Fills(c, {}, <<IB(c)>>, {"IB"}, {"IB"}) BY <2>1, FillsArray DEF IB
  <2> DEFINE two == {"icache.caches"} \cup {"icache.missb"}
             three == two \cup {"icache.ifb"}
             four == three \cup {"icache.prefetchb"}
  <2>7. Fills(c, {}, <<icache(c), icache_missb(c)>>, two, two)
    <3>1. {"icache.caches"} \cap {"icache.missb"} = {} OBVIOUS
    <3> QED BY <2>2, <2>3, <3>1, Fills2
  <2>8. Fills(c, {}, <<icache(c), icache_missb(c), icache_ifb(c)>>, three, three)
    <3>1. two \cap {"icache.ifb"} = {} OBVIOUS
    <3> HIDE DEF two
    <3> QED BY <2>7, <2>4, <3>1, Fills3
  <2>9. Fills(c, {}, <<icache(c), icache_missb(c), icache_ifb(c),
                       icache_prefetchb(c)>>, four, four)
    <3>1. three \cap {"icache.prefetchb"} = {} OBVIOUS
    <3> HIDE DEF three
    <3> QED BY <2>8, <2>5, <3>1, Fills4
  <2>10. Fills(c, {}, arrays, four \cup {"IB"}, four \cup {"IB"})
    <3>1. four \cap {"IB"} = {} OBVIOUS
    <3> HIDE DEF four
    <3> QED BY <2>9, <2>6, <3>1, Fills5
  <2>11. four \cup {"IB"} = IcacheParts \cup {"IB"} BY DEF IcacheParts
  <2> QED BY <2>10, <2>11
<1>2. Fills(c, {}, logic, Decoders, Decoders)
  <2>1. \A p \in {"ID_inst", "ID_operand", "ID_misc"} : p \in LogicParts
    BY DEF LogicParts
  <2>2. /\ Fills(c, {}, <<Logic("ID_inst", TRUE)>>, {"ID_inst"}, {"ID_inst"})
        /\ Fills(c, {}, <<Logic("ID_operand", TRUE)>>, {"ID_operand"},
                 {"ID_operand"})
        /\ Fills(c, {}, <<Logic("ID_misc", TRUE)>>, {"ID_misc"}, {"ID_misc"})
    BY <2>1, FillsLogic
  <2> DEFINE two == {"ID_inst"} \cup {"ID_operand"}
  <2>3. Fills(c, {}, <<Logic("ID_inst", TRUE), Logic("ID_operand", TRUE)>>,
              two, two)
    <3>1. {"ID_inst"} \cap {"ID_operand"} = {} OBVIOUS
    <3> QED BY <2>2, <3>1, Fills2
  <2>4. Fills(c, {}, logic, two \cup {"ID_misc"}, two \cup {"ID_misc"})
    <3>1. two \cap {"ID_misc"} = {} OBVIOUS
    <3> HIDE DEF two
    <3> QED BY <2>2, <2>3, <3>1, Fills3
  <2>5. two \cup {"ID_misc"} = Decoders BY DEF Decoders
  <2> QED BY <2>4, <2>5
<1>3. Fills(c, {}, tables, bpt, bpt)
  <2>1. \A p \in {"globalBPT", "L1_localBPT", "L2_localBPT", "chooser", "RAS"} :
           p \notin LogicParts \cup WireParts /\ ~Portless(c, p)
    BY DEF LogicParts, WireParts, Portless
  <2>2. /\ Fills(c, {}, <<Table("globalBPT", c)>>, {"globalBPT"}, {"globalBPT"})
        /\ Fills(c, {}, <<Table("L1_localBPT", c)>>, {"L1_localBPT"},
                 {"L1_localBPT"})
        /\ Fills(c, {}, <<Table("L2_localBPT", c)>>, {"L2_localBPT"},
                 {"L2_localBPT"})
        /\ Fills(c, {}, <<Table("chooser", c)>>, {"chooser"}, {"chooser"})
    BY <2>1, FillsArray DEF Table
  <2>3. Fills(c, {}, <<RAS(c)>>, {"RAS"}, {"RAS"}) BY <2>1, FillsArray DEF RAS
  <2> DEFINE two == {"globalBPT"} \cup {"L1_localBPT"}
             three == two \cup {"L2_localBPT"}
             four == three \cup {"chooser"}
  <2>4. Fills(c, {}, <<Table("globalBPT", c), Table("L1_localBPT", c)>>,
              two, two)
    <3>1. {"globalBPT"} \cap {"L1_localBPT"} = {} OBVIOUS
    <3> QED BY <2>2, <3>1, Fills2
  <2>5. Fills(c, {}, <<Table("globalBPT", c), Table("L1_localBPT", c),
                       Table("L2_localBPT", c)>>, three, three)
    <3>1. two \cap {"L2_localBPT"} = {} OBVIOUS
    <3> HIDE DEF two
    <3> QED BY <2>2, <2>4, <3>1, Fills3
  <2>6. Fills(c, {}, <<Table("globalBPT", c), Table("L1_localBPT", c),
                       Table("L2_localBPT", c), Table("chooser", c)>>,
              four, four)
    <3>1. three \cap {"chooser"} = {} OBVIOUS
    <3> HIDE DEF three
    <3> QED BY <2>2, <2>5, <3>1, Fills4
  <2>7. Fills(c, {}, tables, four \cup {"RAS"}, four \cup {"RAS"})
    <3>1. four \cap {"RAS"} = {} OBVIOUS
    <3> HIDE DEF four
    <3> QED BY <2>3, <2>6, <3>1, Fills5
  <2>8. four \cup {"RAS"} = bpt BY DEF Tables
  <2> QED BY <2>7, <2>8
<1>4. BranchPredictor(c) = Assign(set) \o tables BY DEF BranchPredictor
<1>5. InstFetchU(c) = arrays \o Only(c.predictionW > 0, predictor) \o logic
  BY DEF InstFetchU
<1> HIDE DEF arrays, logic, tables, set
<1>6. Fills(c, {}, predictor, {"BTB"} \cup bpt, {"BTB"} \cup bpt)
  <2>1. Fills(c, {}, Assign(set) \o tables, {} \cup bpt, {} \cup bpt)
    <3>1. {} \cap bpt = {} OBVIOUS
    <3> HIDE DEF bpt
    <3> QED BY <1>3, <3>1, FillsAside, FillsBoth
  <2>2. {} \cup bpt = bpt OBVIOUS
  <2>3. "BPT" \notin CoreAreas BY DEF CoreAreas
  <2>4. Fills(c, {}, Unit("BPT", TRUE, BranchPredictor(c)), bpt, bpt)
    BY <1>4, <2>1, <2>2, <2>3, FillsUnit
  <2>5. Fills(c, {}, <<BTB(c)>>, {"BTB"}, {"BTB"})
    <3>1. "BTB" \notin LogicParts \cup WireParts /\ ~Portless(c, "BTB")
      BY DEF LogicParts, WireParts, Portless
    <3> QED BY <3>1, FillsArray DEF BTB
  <2>6. {"BTB"} \cap bpt = {} BY DEF Tables
  <2> HIDE DEF bpt
  <2> QED BY <2>4, <2>5, <2>6, FillsBoth
<1>7. Fills(c, {}, Only(c.predictionW > 0, predictor), ahead, ahead)
  <2>1. CASE c.predictionW > 0
    <3>1. ahead = {"BTB"} \cup bpt BY <2>1
    <3> QED BY <1>6, <2>1, <3>1 DEF Only
  <2>2. CASE ~(c.predictionW > 0)
    <3>1. ahead = {} BY <2>2
    <3> QED BY <2>2, <3>1, FillsNone DEF Only
  <2> QED BY <2>1, <2>2
<1> DEFINE first == IcacheParts \cup {"IB"}
<1>8. first \cap ahead = {} /\ (first \cup ahead) \cap Decoders = {}
  BY DEF IcacheParts, Tables, Decoders
<1>9. (first \cup ahead) \cup Decoders = InstFetchUParts(c)
  BY DEF InstFetchUParts
<1> HIDE DEF first, ahead, predictor
<1>10. Fills(c, {}, arrays \o Only(c.predictionW > 0, predictor),
             first \cup ahead, first \cup ahead)
  BY <1>1, <1>7, <1>8, FillsBoth DEF first
<1>11. Fills(c, {}, arrays \o Only(c.predictionW > 0, predictor) \o logic,
             (first \cup ahead) \cup Decoders, (first \cup ahead) \cup Decoders)
  BY <1>2, <1>8, <1>10, FillsBoth
<1> QED BY <1>5, <1>9, <1>11

\* The parts that LoadStoreU makes, and those that count for its area.
LEMMA LoadStoreUFills ==
    ASSUME NEW c
    PROVE  Fills(c, {}, LoadStoreU(c), LoadStoreUParts(c), LoadStoreUCounted(c))
<1> DEFINE main == Array("dcache.caches", TRUE,
                 Geometry("dcache.caches") ++ Tag("dcache.caches") ++ Assoc(8)
                   ++ Ports(c.mem_ports, 0, 0) ++ Approx(1))
           twin == Array("dcache.apcaches", FALSE, [hp_Vdd |-> "approx"])
           set == Search(c.mem_ports) ++ Cache
           off == Approx(0)
           cache == {"dcache.caches", "dcache.apcaches"}
           counted == {"dcache.caches"}
           buffers == <<dcache_missb(c), dcache_ifb(c), dcache_prefetchb(c)>>
           three == {"dcache.missb", "dcache.ifb", "dcache.prefetchb"}
           wbb == IF c.write_back THEN {"dcache.wbb"} ELSE {}
           load == IF HasLoadQ(c) THEN {"LoadQ"} ELSE {}
<1>1. \A p \in {"dcache.caches", "dcache.apcaches", "dcache.missb",
                "dcache.ifb", "dcache.prefetchb", "dcache.wbb", "LSQ",
                "LoadQ"} :
         /\ p \notin LogicParts \cup WireParts
         /\ p = "dcache.caches" \/ ~Portless(c, p)
  BY DEF LogicParts, WireParts, Portless
<1>2. Fills(c, {}, <<main, twin>>, cache, counted)
  <2>1. Fills(c, {}, <<main>>, {"dcache.caches"}, {"dcache.caches"})
    <3> DEFINE set_ == Geometry("dcache.caches") ++ Tag("dcache.caches")
                         ++ Assoc(8) ++ Ports(c.mem_ports, 0, 0) ++ Approx(1)
    <3>1. Portless(c, "dcache.caches") => Refused(set_)
      <4>1. ASSUME Portless(c, "dcache.caches")
            PROVE  set_ = Geometry("dcache.caches") ++ Tag("dcache.caches")
                            ++ Assoc(8) ++ Ports(0, 0, 0) ++ Approx(1)
        BY <4>1 DEF Portless
      <4> HIDE DEF set_
      <4> QED BY <4>1, NoPortsRefused
    <3>2. main = Array("dcache.caches", TRUE, set_) OBVIOUS
    <3> HIDE DEF set_, main
    <3>3. Fills(c, {}, <<Array("dcache.caches", TRUE, set_)>>,
                {"dcache.caches"}, {"dcache.caches"})
      BY <1>1, <3>1, FillsArray
    <3> QED BY <3>2, <3>3
  <2>2. Fills(c, {}, <<twin>>, {"dcache.apcaches"}, {})
    BY <1>1, FillsArray
  <2> HIDE DEF main, twin
  <2>3. {"dcache.caches"} \cap {} = {} OBVIOUS
  <2>4. Fills(c, {}, <<main, twin>>,
              {"dcache.caches"} \cup {"dcache.apcaches"},
              {"dcache.caches"} \cup {})
    BY <2>1, <2>2, <2>3, Fills2
  <2>5. /\ {"dcache.caches"} \cup {"dcache.apcaches"} = cache
        /\ {"dcache.caches"} \cup {} = counted
    OBVIOUS
  <2> QED BY <2>4, <2>5
<1>3. dcache(c) = Assign(set) \o Keep \o <<main, twin>> \o Assign(off) \o Restore
  BY DEF dcache
<1>4. Fills(c, {}, buffers, three, three)
  <2>1. /\ Fills(c, {}, <<dcache_missb(c)>>, {"dcache.missb"}, {"dcache.missb"})
        /\ Fills(c, {}, <<dcache_ifb(c)>>, {"dcache.ifb"}, {"dcache.ifb"})
        /\ Fills(c, {}, <<dcache_prefetchb(c)>>, {"dcache.prefetchb"},
                 {"dcache.prefetchb"})
    BY <1>1, FillsArray DEF dcache_missb, dcache_ifb, dcache_prefetchb, Buffer
  <2> DEFINE two == {"dcache.missb"} \cup {"dcache.ifb"}
  <2>2. Fills(c, {}, <<dcache_missb(c), dcache_ifb(c)>>, two, two)
    <3>1. {"dcache.missb"} \cap {"dcache.ifb"} = {} OBVIOUS
    <3> QED BY <2>1, <3>1, Fills2
  <2>3. Fills(c, {}, buffers, two \cup {"dcache.prefetchb"},
              two \cup {"dcache.prefetchb"})
    <3>1. two \cap {"dcache.prefetchb"} = {} OBVIOUS
    <3> HIDE DEF two
    <3> QED BY <2>1, <2>2, <3>1, Fills3
  <2>4. two \cup {"dcache.prefetchb"} = three OBVIOUS
  <2> QED BY <2>3, <2>4
<1>5. Fills(c, {}, Only(c.write_back, <<dcache_wbb(c)>>), wbb, wbb)
  <2>1. CASE c.write_back
    <3>1. Fills(c, {}, <<dcache_wbb(c)>>, {"dcache.wbb"}, {"dcache.wbb"})
      BY <1>1, FillsArray DEF dcache_wbb, Buffer
    <3>2. wbb = {"dcache.wbb"} BY <2>1
    <3> QED BY <2>1, <3>1, <3>2 DEF Only
  <2>2. CASE ~c.write_back
    <3>1. wbb = {} BY <2>2
    <3> QED BY <2>2, <3>1, FillsNone DEF Only
  <2> QED BY <2>1, <2>2
<1>6. Fills(c, {}, <<LSQ(c)>>, {"LSQ"}, {"LSQ"})
  BY <1>1, FillsArray DEF LSQ
<1>7. Fills(c, {}, Only(c.OOO /\ c.LoadQ > 0, <<LoadQ(c)>>), load, load)
  <2>1. CASE c.OOO /\ c.LoadQ > 0
    <3>1. Fills(c, {}, <<LoadQ(c)>>, {"LoadQ"}, {"LoadQ"})
      BY <1>1, FillsArray DEF LoadQ
    <3>2. load = {"LoadQ"} BY <2>1 DEF HasLoadQ
    <3> QED BY <2>1, <3>1, <3>2 DEF Only
  <2>2. CASE ~(c.OOO /\ c.LoadQ > 0)
    <3>1. load = {} BY <2>2 DEF HasLoadQ
    <3> QED BY <2>2, <3>1, FillsNone DEF Only
  <2> QED BY <2>1, <2>2
<1>8. /\ counted \cap three = {} /\ (counted \cup three) \cap wbb = {}
      /\ ((counted \cup three) \cup wbb) \cap {"LSQ"} = {}
      /\ (((counted \cup three) \cup wbb) \cup {"LSQ"}) \cap load = {}
  OBVIOUS
<1>9. /\ (((cache \cup three) \cup wbb) \cup {"LSQ"}) \cup load
           = LoadStoreUParts(c)
      /\ (((counted \cup three) \cup wbb) \cup {"LSQ"}) \cup load
           = LoadStoreUCounted(c)
  BY DEF LoadStoreUParts, LoadStoreUCounted, DcacheBuffers
<1>10. LoadStoreU(c) =
         dcache(c) \o buffers \o Only(c.write_back, <<dcache_wbb(c)>>)
           \o <<LSQ(c)>> \o Only(c.OOO /\ c.LoadQ > 0, <<LoadQ(c)>>)
  BY DEF LoadStoreU
<1> HIDE DEF main, twin, set, off, cache, counted, buffers, three, wbb, load
<1>11. Fills(c, {}, dcache(c), cache, counted)
  <2>1. Fills(c, {}, Assign(set) \o Keep, {}, {})
    <3>1. {} \cap {} = {} /\ {} \cup {} = {} OBVIOUS
    <3>2. Fills(c, {}, Assign(set) \o Keep, {} \cup {}, {} \cup {})
      BY <3>1, FillsAside, FillsBoth
    <3> QED BY <3>1, <3>2
  <2>2. Fills(c, {}, Assign(set) \o Keep \o <<main, twin>>, cache, counted)
    <3>1. {} \cap counted = {} /\ {} \cup cache = cache
          /\ {} \cup counted = counted
      OBVIOUS
    <3>2. Fills(c, {}, Assign(set) \o Keep \o <<main, twin>>, {} \cup cache,
                {} \cup counted)
      BY <2>1, <1>2, <3>1, FillsBoth
    <3> QED BY <3>1, <3>2
  <2>3. counted \cap {} = {} /\ cache \cup {} = cache
        /\ counted \cup {} = counted
    OBVIOUS
  <2>4. Fills(c, {}, Assign(set) \o Keep \o <<main, twin>> \o Assign(off),
              cache \cup {}, counted \cup {})
    BY <2>2, <2>3, FillsAside, FillsBoth
  <2>5. Fills(c, {}, Assign(set) \o Keep \o <<main, twin>> \o Assign(off)
                       \o Restore, cache \cup {}, counted \cup {})
    BY <2>3, <2>4, FillsAside, FillsBoth
  <2> QED BY <1>3, <2>3, <2>5
<1>12. Fills(c, {}, dcache(c) \o buffers, cache \cup three, counted \cup three)
  BY <1>4, <1>8, <1>11, FillsBoth
<1>13. Fills(c, {}, dcache(c) \o buffers
                      \o Only(c.write_back, <<dcache_wbb(c)>>),
             (cache \cup three) \cup wbb, (counted \cup three) \cup wbb)
  BY <1>5, <1>8, <1>12, FillsBoth
<1>14. Fills(c, {}, dcache(c) \o buffers
                      \o Only(c.write_back, <<dcache_wbb(c)>>) \o <<LSQ(c)>>,
             ((cache \cup three) \cup wbb) \cup {"LSQ"},
             ((counted \cup three) \cup wbb) \cup {"LSQ"})
  BY <1>6, <1>8, <1>13, FillsBoth
<1>15. Fills(c, {}, dcache(c) \o buffers
                      \o Only(c.write_back, <<dcache_wbb(c)>>) \o <<LSQ(c)>>
                      \o Only(c.OOO /\ c.LoadQ > 0, <<LoadQ(c)>>),
             (((cache \cup three) \cup wbb) \cup {"LSQ"}) \cup load,
             (((counted \cup three) \cup wbb) \cup {"LSQ"}) \cup load)
  BY <1>7, <1>8, <1>14, FillsBoth
<1> QED BY <1>9, <1>10, <1>15

\* The parts that MemManU makes, and those that count for its area.
LEMMA MemManUFills ==
    ASSUME NEW c
    PROVE  Fills(c, {}, MemManU(c), MemManUParts, MemManUParts)
<1>1. \A p \in {"itlb", "dtlb"} :
         p \notin LogicParts \cup WireParts /\ ~Portless(c, p)
  BY DEF LogicParts, WireParts, Portless
<1>2. /\ Fills(c, {}, <<Tlb("itlb", c.fetch_ports)>>, {"itlb"}, {"itlb"})
      /\ Fills(c, {}, <<Tlb("dtlb", c.mem_ports)>>, {"dtlb"}, {"dtlb"})
  BY <1>1, FillsArray DEF Tlb
<1>3. {"itlb"} \cap {"dtlb"} = {} OBVIOUS
<1>4. Fills(c, {}, MemManU(c), {"itlb"} \cup {"dtlb"}, {"itlb"} \cup {"dtlb"})
  BY <1>2, <1>3, Fills2 DEF MemManU
<1>5. {"itlb"} \cup {"dtlb"} = MemManUParts BY DEF MemManUParts
<1> QED BY <1>4, <1>5

\* The parts that RegFU makes, and those that count for its area.
LEMMA RegFUFills ==
    ASSUME NEW c, NEW D
    PROVE  Fills(c, D, RegFU(c), RegFUParts(c), RegFUParts(c))
<1> DEFINE two == {"IRF"} \cup {"FRF"}
           win == IF RegWindowing(c) THEN {"RFWIN"} ELSE {}
<1>1. \A p \in {"IRF", "FRF", "RFWIN"} :
         p \notin LogicParts \cup WireParts /\ ~Portless(c, p)
  BY DEF LogicParts, WireParts, Portless
<1>2. Fills(c, D, <<RegFile("IRF", c.peak_issueW), RegFile("FRF", c.issueW)>>, two, two)
  <2>1. /\ Fills(c, D, <<RegFile("IRF", c.peak_issueW)>>, {"IRF"}, {"IRF"})
        /\ Fills(c, D, <<RegFile("FRF", c.issueW)>>, {"FRF"}, {"FRF"})
    BY <1>1, FillsArray DEF RegFile
  <2>2. {"IRF"} \cap {"FRF"} = {} OBVIOUS
  <2> QED BY <2>1, <2>2, Fills2
<1>3. Fills(c, D, Only(c.windows /\ ~c.OOO, <<RFWIN>>), win, win)
  <2>1. CASE c.windows /\ ~c.OOO
    <3>1. Fills(c, D, <<RFWIN>>, {"RFWIN"}, {"RFWIN"})
      BY <1>1, FillsArray DEF RFWIN
    <3>2. win = {"RFWIN"} BY <2>1 DEF RegWindowing
    <3> QED BY <2>1, <3>1, <3>2 DEF Only
  <2>2. CASE ~(c.windows /\ ~c.OOO)
    <3>1. win = {} BY <2>2 DEF RegWindowing
    <3> QED BY <2>2, <3>1, FillsNone DEF Only
  <2> QED BY <2>1, <2>2
<1>4. two \cap win = {} /\ two \cup win = RegFUParts(c) BY DEF RegFUParts
<1> HIDE DEF two, win
<1>5. Fills(c, D, RegFU(c), two \cup win, two \cup win)
  BY <1>2, <1>3, <1>4, FillsBoth DEF RegFU
<1> QED BY <1>4, <1>5

\* The parts that SchedulerU makes, and those that count for its area.
LEMMA SchedulerUFills ==
    ASSUME NEW c, NEW D
    PROVE  Fills(c, D, SchedulerU(c), SchedulerUParts(c), SchedulerUCounted(c))
<1> DEFINE select == <<Logic("instruction_selection", FALSE)>>
           sel == {"instruction_selection"}
           one == Assoc(1)
           queue == <<InstFetchQueue(c)>> \o Assign(one) \o select
           windows == <<int_inst_window(c), fp_inst_window(c)>>
           rob == IF c.ROB > 0 THEN {"ROB"} ELSE {}
           two == {"int_inst_window"} \cup {"fp_inst_window"}
           ooo == windows \o Only(c.ROB > 0, <<ReorderBuffer(c)>>) \o select
<1>1. \A p \in {"int_inst_window", "fp_inst_window", "ROB"} :
         /\ p \notin LogicParts \cup WireParts
         /\ p = "fp_inst_window" \/ ~Portless(c, p)
  BY DEF LogicParts, WireParts, Portless
<1>2. Fills(c, D, select, sel, {})
  <2>1. "instruction_selection" \in LogicParts BY DEF LogicParts
  <2> QED BY <2>1, FillsLogic
<1>3. Fills(c, D, windows, two, two)
  <2>1. /\ Fills(c, D, <<int_inst_window(c)>>, {"int_inst_window"},
                 {"int_inst_window"})
        /\ Fills(c, D, <<fp_inst_window(c)>>, {"fp_inst_window"},
                 {"fp_inst_window"})
    <3> DEFINE set_ == Cache ++ Geometry("fp_inst_window")
                         ++ Tag("fp_inst_window") ++ Assoc(0)
                         ++ Ports(0, c.fp_issueW, c.fp_issueW)
                         ++ Search(c.fp_issueW)
    <3>1. Portless(c, "fp_inst_window") => Refused(set_)
      <4>1. ASSUME Portless(c, "fp_inst_window")
            PROVE  set_ = Cache ++ Geometry("fp_inst_window")
                            ++ Tag("fp_inst_window") ++ Assoc(0)
                            ++ Ports(0, c.fp_issueW, c.fp_issueW) ++ Search(0)
        BY <4>1 DEF Portless
      <4> HIDE DEF set_
      <4> QED BY <4>1, NoSearchRefused
    <3> HIDE DEF set_
    <3>2. Fills(c, D, <<Array("fp_inst_window", TRUE, set_)>>,
                {"fp_inst_window"}, {"fp_inst_window"})
      BY <1>1, <3>1, FillsArray
    <3>3. Fills(c, D, <<int_inst_window(c)>>, {"int_inst_window"},
                {"int_inst_window"})
      BY <1>1, FillsArray DEF int_inst_window, Window
    <3> QED BY <3>2, <3>3 DEF fp_inst_window, Window, set_
  <2>2. {"int_inst_window"} \cap {"fp_inst_window"} = {} OBVIOUS
  <2> QED BY <2>1, <2>2, Fills2
<1>4. Fills(c, D, Only(c.ROB > 0, <<ReorderBuffer(c)>>), rob, rob)
  <2>1. CASE c.ROB > 0
    <3>1. Fills(c, D, <<ReorderBuffer(c)>>, {"ROB"}, {"ROB"})
      BY <1>1, FillsArray DEF ReorderBuffer
    <3>2. rob = {"ROB"} BY <2>1
    <3> QED BY <2>1, <3>1, <3>2 DEF Only
  <2>2. CASE ~(c.ROB > 0)
    <3>1. rob = {} BY <2>2
    <3> QED BY <2>2, <3>1, FillsNone DEF Only
  <2> QED BY <2>1, <2>2
<1>5. Fills(c, D, <<InstFetchQueue(c)>>, {"int_inst_window"}, {"int_inst_window"})
  BY <1>1, FillsArray DEF InstFetchQueue, Window
<1>6. /\ two \cap rob = {} /\ (two \cup rob) \cap {} = {}
      /\ {"int_inst_window"} \cap {} = {}
      /\ ({"int_inst_window"} \cup {}) \cap {} = {}
  OBVIOUS
<1>7. SchedulerU(c) = Only(~c.OOO /\ c.threads > 1, queue) \o Only(c.OOO, ooo)
  BY DEF SchedulerU
<1> HIDE DEF select, one
<1>8. Fills(c, D, queue, ({"int_inst_window"} \cup {}) \cup sel,
            ({"int_inst_window"} \cup {}) \cup {})
  <2>1. Fills(c, D, <<InstFetchQueue(c)>> \o Assign(one),
              {"int_inst_window"} \cup {}, {"int_inst_window"} \cup {})
    BY <1>5, <1>6, FillsAside, FillsBoth
  <2> HIDE DEF sel
  <2> QED BY <1>2, <1>6, <2>1, FillsBoth
<1>9. Fills(c, D, ooo, (two \cup rob) \cup sel, (two \cup rob) \cup {})
  <2> HIDE DEF windows, two, rob, sel
  <2>1. Fills(c, D, windows \o Only(c.ROB > 0, <<ReorderBuffer(c)>>), two \cup rob,
              two \cup rob)
    BY <1>3, <1>4, <1>6, FillsBoth
  <2> QED BY <1>2, <1>6, <2>1, FillsBoth
<1>10. CASE c.OOO
  <2>1. SchedulerU(c) = <<>> \o ooo BY <1>7, <1>10 DEF Only
  <2>2. /\ {} \cup ((two \cup rob) \cup sel) = SchedulerUParts(c)
        /\ {} \cup ((two \cup rob) \cup {}) = SchedulerUCounted(c)
        /\ {} \cap ((two \cup rob) \cup {}) = {}
    BY <1>10 DEF SchedulerUParts, SchedulerUCounted
  <2> HIDE DEF ooo, two, rob, sel
  <2>3. Fills(c, D, <<>> \o ooo, {} \cup ((two \cup rob) \cup sel),
              {} \cup ((two \cup rob) \cup {}))
    BY <1>9, <2>2, FillsNone, FillsBoth
  <2> QED BY <2>1, <2>2, <2>3
<1>11. CASE ~c.OOO /\ c.threads > 1
  <2> DEFINE P == ({"int_inst_window"} \cup {}) \cup sel
             A == ({"int_inst_window"} \cup {}) \cup {}
  <2>1. SchedulerU(c) = queue \o <<>> BY <1>7, <1>11 DEF Only
  <2>2. /\ P \cup {} = SchedulerUParts(c) /\ A \cup {} = SchedulerUCounted(c)
        /\ A \cap {} = {}
    BY <1>11 DEF SchedulerUParts, SchedulerUCounted
  <2> HIDE DEF queue, P, A
  <2>3. Fills(c, D, queue \o <<>>, P \cup {}, A \cup {})
    BY <1>8, <2>2, FillsNone, FillsBoth DEF P, A
  <2> QED BY <2>1, <2>2, <2>3
<1>12. CASE ~c.OOO /\ ~(c.threads > 1)
  <2>1. SchedulerU(c) = <<>> \o <<>> BY <1>7, <1>12 DEF Only
  <2>2. /\ {} \cup {} = SchedulerUParts(c) /\ {} \cup {} = SchedulerUCounted(c)
        /\ {} \cap {} = {}
    BY <1>12 DEF SchedulerUParts, SchedulerUCounted
  <2>3. Fills(c, D, <<>> \o <<>>, {} \cup {}, {} \cup {})
    BY <2>2, FillsNone, FillsBoth
  <2> QED BY <2>1, <2>2, <2>3
<1> QED BY <1>10, <1>11, <1>12

\* The three wirings differ in the heights and in whether intTagBypass counts.
LEMMA IntWiresFill ==
    ASSUME NEW c, NEW D, NEW h1, NEW h2,
           h1 \subseteq D \cup Unset(c), h2 \subseteq D \cup Unset(c)
    PROVE  /\ Fills(c, D, <<Wire("int_bypass", TRUE, h1),
                            Wire("intTagBypass", TRUE, h2)>>,
                    {"int_bypass", "intTagBypass"},
                    {"int_bypass", "intTagBypass"})
           /\ Fills(c, D, <<Wire("int_bypass", TRUE, h1),
                            Wire("intTagBypass", FALSE, h2)>>,
                    {"int_bypass", "intTagBypass"}, {"int_bypass"})
<1>1. "int_bypass" \in WireParts /\ "intTagBypass" \in WireParts
  BY DEF WireParts
<1>2. /\ Fills(c, D, <<Wire("int_bypass", TRUE, h1)>>, {"int_bypass"},
               {"int_bypass"})
      /\ Fills(c, D, <<Wire("intTagBypass", TRUE, h2)>>, {"intTagBypass"},
               {"intTagBypass"})
      /\ Fills(c, D, <<Wire("intTagBypass", FALSE, h2)>>, {"intTagBypass"}, {})
  BY <1>1, FillsWire
<1>3. /\ {"int_bypass"} \cap {"intTagBypass"} = {}
      /\ {"int_bypass"} \cap {} = {}
      /\ {"int_bypass"} \cup {"intTagBypass"} = {"int_bypass", "intTagBypass"}
      /\ {"int_bypass"} \cup {} = {"int_bypass"}
  OBVIOUS
<1> DEFINE a == Wire("int_bypass", TRUE, h1)
           b == Wire("intTagBypass", TRUE, h2)
           d == Wire("intTagBypass", FALSE, h2)
<1> HIDE DEF a, b, d
<1>4. Fills(c, D, <<a, b>>, {"int_bypass"} \cup {"intTagBypass"},
            {"int_bypass"} \cup {"intTagBypass"})
  BY <1>2, <1>3, Fills2 DEF a, b
<1>5. Fills(c, D, <<a, d>>, {"int_bypass"} \cup {"intTagBypass"},
            {"int_bypass"} \cup {})
  BY <1>2, <1>3, Fills2 DEF a, d
<1> QED BY <1>3, <1>4, <1>5 DEF a, b, d

\* The wires of one kind of core.
LEMMA WiresFill ==
    ASSUME NEW c, NEW D, NEW int, NEW tag, tag \subseteq {"intTagBypass"},
           Fills(c, D, int, {"int_bypass", "intTagBypass"},
                 {"int_bypass"} \cup tag),
           NEW h3, NEW h4, NEW h5, NEW h6,
           c.muls > 0 => h3 \subseteq D \cup Unset(c)
                         /\ h4 \subseteq D \cup Unset(c),
           c.fpus > 0 => h5 \subseteq D \cup Unset(c)
                         /\ h6 \subseteq D \cup Unset(c)
    PROVE  Fills(c, D, Wiring(c, int, h3, h4, h5, h6),
                 Wires(c), Wires(c) \ ({"intTagBypass"} \ tag))
<1> DEFINE mul == <<Wire("int_mul_bypass", TRUE, h3),
                    Wire("intTag_mul_Bypass", TRUE, h4)>>
           fp == <<Wire("fp_bypass", TRUE, h5), Wire("fpTagBypass", TRUE, h6)>>
           ints == {"int_bypass", "intTagBypass"}
           counted == {"int_bypass"} \cup tag
           muls == IF c.muls > 0 THEN {"int_mul_bypass"} \cup {"intTag_mul_Bypass"} ELSE {}
           fps == IF c.fpus > 0 THEN {"fp_bypass"} \cup {"fpTagBypass"} ELSE {}
<1>1. \A p \in {"int_mul_bypass", "intTag_mul_Bypass", "fp_bypass",
                "fpTagBypass"} : p \in WireParts
  BY DEF WireParts
<1>2. Fills(c, D, int, ints, counted) OBVIOUS
<1>3. Fills(c, D, Only(c.muls > 0, mul), muls, muls)
  <2>1. CASE c.muls > 0
    <3>1. /\ Fills(c, D, <<Wire("int_mul_bypass", TRUE, h3)>>,
                   {"int_mul_bypass"}, {"int_mul_bypass"})
          /\ Fills(c, D, <<Wire("intTag_mul_Bypass", TRUE, h4)>>,
                   {"intTag_mul_Bypass"}, {"intTag_mul_Bypass"})
      BY <1>1, <2>1, FillsWire
    <3>2. {"int_mul_bypass"} \cap {"intTag_mul_Bypass"} = {} OBVIOUS
    <3>3. Fills(c, D, mul, {"int_mul_bypass"} \cup {"intTag_mul_Bypass"},
                {"int_mul_bypass"} \cup {"intTag_mul_Bypass"})
      BY <3>1, <3>2, Fills2
    <3> HIDE DEF mul
    <3>4. muls = {"int_mul_bypass"} \cup {"intTag_mul_Bypass"} BY <2>1
    <3> QED BY <2>1, <3>3, <3>4 DEF Only
  <2>2. CASE ~(c.muls > 0)
    <3>1. muls = {} BY <2>2
    <3> QED BY <2>2, <3>1, FillsNone DEF Only
  <2> QED BY <2>1, <2>2
<1>4. Fills(c, D, Only(c.fpus > 0, fp), fps, fps)
  <2>1. CASE c.fpus > 0
    <3>1. /\ Fills(c, D, <<Wire("fp_bypass", TRUE, h5)>>,
                   {"fp_bypass"}, {"fp_bypass"})
          /\ Fills(c, D, <<Wire("fpTagBypass", TRUE, h6)>>,
                   {"fpTagBypass"}, {"fpTagBypass"})
      BY <1>1, <2>1, FillsWire
    <3>2. {"fp_bypass"} \cap {"fpTagBypass"} = {} OBVIOUS
    <3>3. Fills(c, D, fp, {"fp_bypass"} \cup {"fpTagBypass"},
                {"fp_bypass"} \cup {"fpTagBypass"})
      BY <3>1, <3>2, Fills2
    <3> HIDE DEF fp
    <3>4. fps = {"fp_bypass"} \cup {"fpTagBypass"} BY <2>1
    <3> QED BY <2>1, <3>3, <3>4 DEF Only
  <2>2. CASE ~(c.fpus > 0)
    <3>1. fps = {} BY <2>2
    <3> QED BY <2>2, <3>1, FillsNone DEF Only
  <2> QED BY <2>1, <2>2
<1>5. /\ counted \cap muls = {} /\ (counted \cup muls) \cap fps = {}
      /\ (ints \cup muls) \cup fps = Wires(c)
      /\ (counted \cup muls) \cup fps = Wires(c) \ ({"intTagBypass"} \ tag)
  BY DEF Wires
<1> HIDE DEF mul, fp, ints, counted, muls, fps
<1>6. Fills(c, D, int \o Only(c.muls > 0, mul), ints \cup muls, counted \cup muls)
  BY <1>2, <1>3, <1>5, FillsBoth
<1>7. Fills(c, D, int \o Only(c.muls > 0, mul) \o Only(c.fpus > 0, fp),
            (ints \cup muls) \cup fps, (counted \cup muls) \cup fps)
  BY <1>4, <1>5, <1>6, FillsBoth
<1> QED BY <1>5, <1>7 DEF mul, fp, Wiring

\* The parts that the bypass wires makes, and those that count for its area.
LEMMA BypassFills ==
    ASSUME NEW c \in ConfigType
    PROVE  Fills(c, {"LSQ"} \cup Passed(c),
                 IF ~c.OOO THEN InorderBypass(c)
                 ELSE IF c.PRF THEN PhysicalRegFileBypass(c)
                 ELSE ReservationStationBypass(c),
                 Wires(c), CountedWires(c))
<1> DEFINE D == {"LSQ"} \cup Passed(c)
           K == D \cup Unset(c)
<1>1. /\ {"LSQ", "IRF", "FRF", "exeu"} \subseteq K
      /\ c.muls > 0 => "mul" \in K
      /\ c.fpus > 0 => "fp_u" \in K
      /\ "int_inst_window" \in K
      /\ c.OOO => {"fp_inst_window", "ROB"} \subseteq K
  <2>1. c.threads \in Nat /\ c.ROB \in Nat BY DEF ConfigType
  <2>2. c.threads > 1 \/ c.threads <= 1 BY <2>1
  <2>3. c.ROB > 0 \/ c.ROB = 0 BY <2>1
  <2> QED BY <2>2, <2>3
      DEF Passed, RegFUParts, SchedulerUParts, SchedulerUCounted, Units, Unset
<1> HIDE DEF D, K
<1>3. CASE ~c.OOO
  <2>1. Fills(c, D, InorderBypass(c), Wires(c), CountedWires(c))
    <3> DEFINE h1 == {"IRF", "exeu", "LSQ"}
               h2 == {"IRF", "exeu", "LSQ", "int_inst_window"}
               h3 == {"FRF", "exeu", "mul", "LSQ"}
               h4 == {"FRF", "exeu", "mul", "LSQ", "int_inst_window"}
               h5 == {"FRF", "fp_u"}
               h6 == {"FRF", "fp_u", "LSQ", "int_inst_window"}
    <3>1. /\ h1 \subseteq K /\ h2 \subseteq K
          /\ c.muls > 0 => h3 \subseteq K /\ h4 \subseteq K
          /\ c.fpus > 0 => h5 \subseteq K /\ h6 \subseteq K
      BY <1>1
    <3> DEFINE int == <<Wire("int_bypass", TRUE, h1),
                        Wire("intTagBypass", TRUE, h2)>>
    <3>2. InorderBypass(c) = Wiring(c, int, h3, h4, h5, h6)
      BY DEF InorderBypass, Wiring
    <3> HIDE DEF h1, h2, h3, h4, h5, h6
    <3>3. Fills(c, D, int, {"int_bypass", "intTagBypass"},
                {"int_bypass", "intTagBypass"})
      BY <3>1, IntWiresFill DEF K
    <3> HIDE DEF int
    <3> DEFINE tag == {"intTagBypass"}
    <3>4. tag \subseteq {"intTagBypass"} /\ {"int_bypass"} \cup tag = {"int_bypass", "intTagBypass"}
      OBVIOUS
    <3>5. Wires(c) \ ({"intTagBypass"} \ tag) = CountedWires(c)
      BY <1>3 DEF CountedWires
    <3> HIDE DEF tag
    <3>6. Fills(c, D, int, {"int_bypass", "intTagBypass"}, {"int_bypass"} \cup tag)
      BY <3>3, <3>4
    <3>7. Fills(c, D, InorderBypass(c), Wires(c), Wires(c) \ ({"intTagBypass"} \ tag))
      BY <3>1, <3>2, <3>4, <3>6, WiresFill DEF K
    <3> QED BY <3>5, <3>7
  <2> QED BY <1>3, <2>1 DEF D
<1>4. CASE c.OOO /\ c.PRF
  <2>1. Fills(c, D, PhysicalRegFileBypass(c), Wires(c), CountedWires(c))
    <3> DEFINE h1 == {"IRF", "exeu", "LSQ"}
               h2 == {"IRF", "exeu", "LSQ", "int_inst_window", "ROB"}
               h3 == {"IRF", "exeu", "mul", "LSQ"}
               h4 == {"IRF", "exeu", "mul", "LSQ", "int_inst_window", "ROB"}
               h5 == {"FRF", "fp_u"}
               h6 == {"FRF", "fp_u", "LSQ", "fp_inst_window", "ROB"}
    <3>1. /\ h1 \subseteq K /\ h2 \subseteq K
          /\ c.muls > 0 => h3 \subseteq K /\ h4 \subseteq K
          /\ c.fpus > 0 => h5 \subseteq K /\ h6 \subseteq K
      BY <1>1, <1>4
    <3> DEFINE int == <<Wire("int_bypass", TRUE, h1),
                        Wire("intTagBypass", FALSE, h2)>>
    <3>2. PhysicalRegFileBypass(c) = Wiring(c, int, h3, h4, h5, h6)
      BY DEF PhysicalRegFileBypass, Wiring
    <3> HIDE DEF h1, h2, h3, h4, h5, h6
    <3>3. Fills(c, D, int, {"int_bypass", "intTagBypass"},
                {"int_bypass"})
      BY <3>1, IntWiresFill DEF K
    <3> HIDE DEF int
    <3> DEFINE tag == {}
    <3>4. tag \subseteq {"intTagBypass"} /\ {"int_bypass"} \cup tag = {"int_bypass"}
      OBVIOUS
    <3>5. Wires(c) \ ({"intTagBypass"} \ tag) = CountedWires(c)
      BY <1>4 DEF CountedWires
    <3> HIDE DEF tag
    <3>6. Fills(c, D, int, {"int_bypass", "intTagBypass"}, {"int_bypass"} \cup tag)
      BY <3>3, <3>4
    <3>7. Fills(c, D, PhysicalRegFileBypass(c), Wires(c), Wires(c) \ ({"intTagBypass"} \ tag))
      BY <3>1, <3>2, <3>4, <3>6, WiresFill DEF K
    <3> QED BY <3>5, <3>7
  <2> QED BY <1>4, <2>1 DEF D
<1>5. CASE c.OOO /\ ~c.PRF
  <2>1. Fills(c, D, ReservationStationBypass(c), Wires(c), CountedWires(c))
    <3> DEFINE h1 == {"IRF", "exeu", "LSQ", "int_inst_window", "ROB"}
               h3 == h1 \cup {"mul"}
               h5 == {"FRF", "fp_u", "LSQ", "fp_inst_window", "ROB"}
    <3>1. /\ h1 \subseteq K
          /\ c.muls > 0 => h3 \subseteq K
          /\ c.fpus > 0 => h5 \subseteq K
      BY <1>1, <1>5
    <3> DEFINE int == <<Wire("int_bypass", TRUE, h1),
                        Wire("intTagBypass", TRUE, h1)>>
    <3>2. ReservationStationBypass(c) = Wiring(c, int, h3, h3, h5, h5)
      BY DEF ReservationStationBypass, Wiring
    <3> HIDE DEF h1, h3, h5
    <3>3. Fills(c, D, int, {"int_bypass", "intTagBypass"},
                {"int_bypass", "intTagBypass"})
      BY <3>1, IntWiresFill DEF K
    <3> HIDE DEF int
    <3> DEFINE tag == {"intTagBypass"}
    <3>4. tag \subseteq {"intTagBypass"} /\ {"int_bypass"} \cup tag = {"int_bypass", "intTagBypass"}
      OBVIOUS
    <3>5. Wires(c) \ ({"intTagBypass"} \ tag) = CountedWires(c)
      BY <1>5 DEF CountedWires
    <3> HIDE DEF tag
    <3>6. Fills(c, D, int, {"int_bypass", "intTagBypass"}, {"int_bypass"} \cup tag)
      BY <3>3, <3>4
    <3>7. Fills(c, D, ReservationStationBypass(c), Wires(c), Wires(c) \ ({"intTagBypass"} \ tag))
      BY <3>1, <3>2, <3>4, <3>6, WiresFill DEF K
    <3> QED BY <3>5, <3>7
  <2> QED BY <1>5, <2>1 DEF D
<1> QED BY <1>3, <1>4, <1>5 DEF D

\* The parts that EXECU makes, and those that count for its area.
LEMMA EXECUFills ==
    ASSUME NEW c \in ConfigType
    PROVE  Fills(c, {"LSQ"}, EXECU(c), EXECUParts(c), EXECUCounted(c))
<1> DEFINE rfu == Unit("rfu", TRUE, RegFU(c))
           scheu == Unit("scheu", TRUE, SchedulerU(c))
           alu == <<Logic("exeu", TRUE)>>
           fpu == Only(c.fpus > 0, <<Logic("fp_u", TRUE)>>)
           mul == Only(c.muls > 0, <<Logic("mul", TRUE)>>)
           wires == IF ~c.OOO THEN InorderBypass(c)
                    ELSE IF c.PRF THEN PhysicalRegFileBypass(c)
                    ELSE ReservationStationBypass(c)
           D == {"LSQ"}
           R == RegFUParts(c)
           S == SchedulerUParts(c)
           T == SchedulerUCounted(c)
           U == {"exeu"}
           V == IF c.fpus > 0 THEN {"fp_u"} ELSE {}
           W == IF c.muls > 0 THEN {"mul"} ELSE {}
           X == Wires(c)
           Y == CountedWires(c)
<1>1. /\ Fills(c, D, rfu, R, R) /\ Fills(c, D, scheu, S, T)
  <2>1. "rfu" \notin CoreAreas /\ "scheu" \notin CoreAreas BY DEF CoreAreas
  <2> QED BY <2>1, RegFUFills, SchedulerUFills, FillsUnit
<1>2. "exeu" \in LogicParts /\ "fp_u" \in LogicParts /\ "mul" \in LogicParts
  BY DEF LogicParts
<1>3. Fills(c, D, alu, U, U) BY <1>2, FillsLogic
<1>4. Fills(c, D, fpu, V, V)
  <2>1. CASE c.fpus > 0
    <3>1. V = {"fp_u"} BY <2>1
    <3> QED BY <1>2, <2>1, <3>1, FillsLogic DEF Only
  <2>2. CASE ~(c.fpus > 0)
    <3>1. V = {} BY <2>2
    <3> QED BY <2>2, <3>1, FillsNone DEF Only
  <2> QED BY <2>1, <2>2
<1>5. Fills(c, D, mul, W, W)
  <2>1. CASE c.muls > 0
    <3>1. W = {"mul"} BY <2>1
    <3> QED BY <1>2, <2>1, <3>1, FillsLogic DEF Only
  <2>2. CASE ~(c.muls > 0)
    <3>1. W = {} BY <2>2
    <3> QED BY <2>2, <3>1, FillsNone DEF Only
  <2> QED BY <2>1, <2>2
<1>6. Fills(c, {"LSQ"} \cup Passed(c), wires, X, Y) BY BypassFills
<1>7. /\ D \cup ((((R \cup S) \cup U) \cup V) \cup W) = {"LSQ"} \cup Passed(c)
      /\ ((((R \cup S) \cup U) \cup V) \cup W) \cup X = EXECUParts(c)
      /\ ((((R \cup T) \cup U) \cup V) \cup W) \cup Y = EXECUCounted(c)
  BY DEF Passed, EXECUParts, EXECUCounted, Units
<1>8. R \subseteq {"IRF", "FRF", "RFWIN"} BY DEF RegFUParts
<1>9. T \subseteq {"int_inst_window", "fp_inst_window", "ROB"}
  BY DEF SchedulerUCounted
<1>10. Y \subseteq WireParts BY DEF CountedWires, Wires, WireParts
<1>11. /\ R \cap T = {} /\ (R \cup T) \cap U = {}
       /\ ((R \cup T) \cup U) \cap V = {}
       /\ (((R \cup T) \cup U) \cup V) \cap W = {}
       /\ ((((R \cup T) \cup U) \cup V) \cup W) \cap Y = {}
  <2>1. \A p \in {"IRF", "FRF", "RFWIN", "int_inst_window", "fp_inst_window",
                  "ROB", "exeu", "fp_u", "mul"} : p \notin WireParts
    BY DEF WireParts
  <2> HIDE DEF R, T, Y
  <2>2. R \cap T = {} /\ (R \cup T) \cap U = {}
        /\ ((R \cup T) \cup U) \cap V = {}
        /\ (((R \cup T) \cup U) \cup V) \cap W = {}
    BY <1>8, <1>9
  <2>3. ((((R \cup T) \cup U) \cup V) \cup W) \cap Y = {}
    BY <1>8, <1>9, <1>10, <2>1
  <2> QED BY <2>2, <2>3
<1>12. EXECU(c) = rfu \o scheu \o alu \o fpu \o mul \o wires BY DEF EXECU
<1> HIDE DEF rfu, scheu, alu, fpu, mul, wires, D, R, S, T, U, V, W, X, Y
<1>13. Fills(c, D, rfu \o scheu, R \cup S, R \cup T)
  BY <1>1, <1>11, FillsBoth
<1>14. Fills(c, D, rfu \o scheu \o alu, (R \cup S) \cup U, (R \cup T) \cup U)
  BY <1>3, <1>11, <1>13, FillsBoth
<1>15. Fills(c, D, rfu \o scheu \o alu \o fpu, ((R \cup S) \cup U) \cup V,
             ((R \cup T) \cup U) \cup V)
  BY <1>4, <1>11, <1>14, FillsBoth
<1>16. Fills(c, D, rfu \o scheu \o alu \o fpu \o mul,
             (((R \cup S) \cup U) \cup V) \cup W,
             (((R \cup T) \cup U) \cup V) \cup W)
  BY <1>5, <1>11, <1>15, FillsBoth
<1>17. Fills(c, D \cup ((((R \cup S) \cup U) \cup V) \cup W), wires, X, Y)
  BY <1>6, <1>7
<1>18. Fills(c, D, rfu \o scheu \o alu \o fpu \o mul \o wires,
             ((((R \cup S) \cup U) \cup V) \cup W) \cup X,
             ((((R \cup T) \cup U) \cup V) \cup W) \cup Y)
  BY <1>11, <1>16, <1>17, FillsConcat
<1> QED BY <1>7, <1>12, <1>18 DEF D

\* The parts that RENAMINGU makes, and those that count for its area.
LEMMA RENAMINGUFills ==
    ASSUME NEW c, NEW D
    PROVE  Fills(c, D, RENAMINGU(c), RENAMINGUParts(c), RENAMINGUCounted(c))
<1> DEFINE fronts == {"iFRAT", "fFRAT"}
           retire == {"iRRAT", "fRRAT"}
           lists == {"ifreeL", "ffreeL"}
           dcl == {"idcl", "fdcl"}
<1>1. \A p \in {"iFRAT", "fFRAT", "iRRAT", "fRRAT", "ifreeL", "ffreeL"} :
         /\ p \notin LogicParts \cup WireParts
         /\ p \in {"iFRAT", "iRRAT"} \/ ~Portless(c, p)
  BY DEF LogicParts, WireParts, Portless
<1>2. ASSUME NEW a, NEW b, NEW p, NEW q, p # q,
             Fills(c, D, <<a>>, {p}, {p}), Fills(c, D, <<b>>, {q}, {q})
      PROVE  Fills(c, D, <<a, b>>, {p, q}, {p, q})
  <2>1. {p} \cap {q} = {} /\ {p} \cup {q} = {p, q} BY <1>2
  <2>2. Fills(c, D, <<a, b>>, {p} \cup {q}, {p} \cup {q})
    BY <1>2, <2>1, Fills2
  <2> QED BY <2>1, <2>2
<1>3. ASSUME NEW rd, NEW wr, NEW search, NEW p \in {"iFRAT", "fFRAT"},
             Portless(c, p) => search = 0
      PROVE  Fills(c, D, <<CamTable(p, rd, wr, search)>>, {p}, {p})
  <2> DEFINE set == Cache ++ Geometry(p) ++ Tag(p) ++ Assoc(0)
                      ++ Ports(1, rd, wr) ++ Search(search)
  <2>1. Portless(c, p) => Refused(set)
    <3>1. ASSUME search = 0
          PROVE  set = Cache ++ Geometry(p) ++ Tag(p) ++ Assoc(0)
                         ++ Ports(1, rd, wr) ++ Search(0)
      BY <3>1
    <3> HIDE DEF set
    <3> QED BY <1>3, <3>1, NoSearchRefused
  <2> HIDE DEF set
  <2>2. Fills(c, D, <<Array(p, TRUE, set)>>, {p}, {p})
    BY <1>1, <2>1, FillsArray
  <2> QED BY <2>2 DEF CamTable, set
<1>4. ASSUME NEW rw, NEW rd, NEW wr, NEW p, p \notin LogicParts \cup WireParts,
             Portless(c, p) => rw = 0 /\ rd = 0 /\ wr = 0
      PROVE  Fills(c, D, <<RamTable(p, rw, rd, wr)>>, {p}, {p})
  <2> DEFINE set == Ram ++ Geometry(p) ++ Assoc(1) ++ Ports(rw, rd, wr)
  <2>1. Portless(c, p) => Refused(set)
    <3>1. ASSUME rw = 0, rd = 0, wr = 0
          PROVE  set = Ram ++ Geometry(p) ++ Assoc(1) ++ Ports(0, 0, 0)
      BY <3>1
    <3> HIDE DEF set
    <3> QED BY <1>4, <3>1, NoPortsRefused
  <2> HIDE DEF set
  <2>2. Fills(c, D, <<Array(p, TRUE, set)>>, {p}, {p})
    BY <1>4, <2>1, FillsArray
  <2> QED BY <2>2 DEF RamTable, set
<1>5. "iFRAT" # "fFRAT" /\ "iRRAT" # "fRRAT" /\ "ifreeL" # "ffreeL" OBVIOUS
<1>6. ASSUME c.PRF, c.RAM PROVE Fills(c, D, RamFrontRAT(c), fronts, fronts)
  <2>1. ~Portless(c, "iFRAT") BY <1>6 DEF Portless
  <2> QED BY <2>1, <1>1, <1>2, <1>4, <1>5 DEF RamFrontRAT
<1>7. ASSUME ~c.RAM PROVE Fills(c, D, CamFrontRAT(c), fronts, fronts)
  <2>1. Portless(c, "iFRAT") => 2 * c.decodeW = 0 BY <1>7 DEF Portless
  <2> QED BY <2>1, <1>1, <1>2, <1>3, <1>5 DEF CamFrontRAT
<1>8. ASSUME ~c.RAM PROVE Fills(c, D, StationCamFrontRAT(c), fronts, fronts)
  <2>1. Portless(c, "iFRAT") => 2 * c.decodeW = 0 BY <1>8 DEF Portless
  <2> QED BY <2>1, <1>1, <1>2, <1>3, <1>5 DEF StationCamFrontRAT
<1>9. ASSUME c.RAM PROVE Fills(c, D, StationRamFrontRAT(c), fronts, fronts)
  <2> DEFINE set == Cache ++ Geometry("fFRAT") ++ Assoc(0)
                      ++ Ports(1, 2 * c.fp_issueW, c.fp_issueW)
                      ++ Search(c.fp_issueW)
  <2>1. StationRamFrontRAT(c) =
          <<CamTable("iFRAT", 2 * c.decodeW, c.decodeW, c.commitW), Array("fFRAT", TRUE, set)>>
    BY DEF StationRamFrontRAT
  <2> HIDE DEF set
  <2>2. Fills(c, D, <<Array("fFRAT", TRUE, set)>>, {"fFRAT"}, {"fFRAT"})
    BY <1>1, FillsArray
  <2> DEFINE a == CamTable("iFRAT", 2 * c.decodeW, c.decodeW, c.commitW)
             b == Array("fFRAT", TRUE, set)
  <2>3. Fills(c, D, <<a>>, {"iFRAT"}, {"iFRAT"})
    <3>1. Portless(c, "iFRAT") => c.commitW = 0 BY <1>9 DEF Portless
    <3> QED BY <3>1, <1>3
  <2> HIDE DEF a, b
  <2>4. Fills(c, D, <<a, b>>, fronts, fronts)
    BY <2>2, <2>3, <1>2, <1>5 DEF b
  <2> QED BY <2>1, <2>4 DEF a, b
<1>10. Fills(c, D, RetireRATs(c), retire, retire)
  <2>1. Portless(c, "iRRAT") => c.commitW = 0 BY DEF Portless
  <2> QED BY <2>1, <1>1, <1>2, <1>4, <1>5 DEF RetireRATs
<1>11. Fills(c, D, FreeLists(c), lists, lists)
  BY <1>1, <1>2, <1>4, <1>5 DEF FreeLists, FreeList
<1>12. Fills(c, D, UnifiedFreeList(c), {"ifreeL"}, {"ifreeL"})
  BY <1>1, <1>4 DEF UnifiedFreeList, FreeList
<1>13. Fills(c, D, dcls, dcl, {})
  <2>1. "idcl" \in LogicParts /\ "fdcl" \in LogicParts BY DEF LogicParts
  <2>2. /\ Fills(c, D, <<Logic("idcl", FALSE)>>, {"idcl"}, {})
        /\ Fills(c, D, <<Logic("fdcl", FALSE)>>, {"fdcl"}, {})
    BY <2>1, FillsLogic
  <2>3. {} \cap {} = {} /\ {} \cup {} = {} /\ {"idcl"} \cup {"fdcl"} = dcl
    OBVIOUS
  <2> DEFINE a == Logic("idcl", FALSE)
             b == Logic("fdcl", FALSE)
  <2> HIDE DEF a, b
  <2>4. Fills(c, D, <<a, b>>, {"idcl"} \cup {"fdcl"}, {} \cup {})
    BY <2>2, <2>3, Fills2 DEF a, b
  <2> QED BY <2>3, <2>4 DEF dcls, a, b
<1>14. /\ fronts \cap retire = {} /\ (fronts \cup retire) \cap lists = {}
       /\ ((fronts \cup retire) \cup lists) \cap {} = {}
       /\ fronts \cap {"ifreeL"} = {} /\ (fronts \cup {"ifreeL"}) \cap {} = {}
  OBVIOUS
<1>15. CASE c.PRF
  <2> DEFINE front == IF c.RAM THEN RamFrontRAT(c) ELSE CamFrontRAT(c)
  <2>1. Fills(c, D, front, fronts, fronts) BY <1>15, <1>6, <1>7
  <2>2. RENAMINGU(c) = front \o RetireRATs(c) \o FreeLists(c) \o dcls
    BY <1>15 DEF RENAMINGU
  <2>3. /\ ((fronts \cup retire) \cup lists) \cup dcl = RENAMINGUParts(c)
        /\ ((fronts \cup retire) \cup lists) \cup {} = RENAMINGUCounted(c)
    BY <1>15 DEF RENAMINGUParts, RENAMINGUCounted
  <2> HIDE DEF front, fronts, retire, lists, dcl
  <2>4. Fills(c, D, front \o RetireRATs(c), fronts \cup retire, fronts \cup retire)
    BY <1>10, <1>14, <2>1, FillsBoth
  <2>5. Fills(c, D, front \o RetireRATs(c) \o FreeLists(c),
              (fronts \cup retire) \cup lists, (fronts \cup retire) \cup lists)
    BY <1>11, <1>14, <2>4, FillsBoth
  <2>6. Fills(c, D, front \o RetireRATs(c) \o FreeLists(c) \o dcls,
              ((fronts \cup retire) \cup lists) \cup dcl,
              ((fronts \cup retire) \cup lists) \cup {})
    BY <1>13, <1>14, <2>5, FillsBoth
  <2> QED BY <2>2, <2>3, <2>6
<1>16. CASE ~c.PRF
  <2> DEFINE front == IF c.RAM THEN StationRamFrontRAT(c)
                      ELSE StationCamFrontRAT(c)
  <2>1. Fills(c, D, front, fronts, fronts) BY <1>8, <1>9
  <2>2. RENAMINGU(c) = front \o UnifiedFreeList(c) \o dcls
    BY <1>16 DEF RENAMINGU
  <2>3. /\ (fronts \cup {"ifreeL"}) \cup dcl = RENAMINGUParts(c)
        /\ (fronts \cup {"ifreeL"}) \cup {} = RENAMINGUCounted(c)
    BY <1>16 DEF RENAMINGUParts, RENAMINGUCounted
  <2> HIDE DEF front, fronts, retire, lists, dcl
  <2>4. Fills(c, D, front \o UnifiedFreeList(c), fronts \cup {"ifreeL"},
              fronts \cup {"ifreeL"})
    BY <1>12, <1>14, <2>1, FillsBoth
  <2>5. Fills(c, D, front \o UnifiedFreeList(c) \o dcls,
              (fronts \cup {"ifreeL"}) \cup dcl,
              (fronts \cup {"ifreeL"}) \cup {})
    BY <1>13, <1>14, <2>4, FillsBoth
  <2> QED BY <2>2, <2>3, <2>5
<1> QED BY <1>15, <1>16

\* The parts that SharedCache makes, and those that count for its area.
LEMMA SharedCacheFills ==
    ASSUME NEW c, NEW level
    PROVE  Fills(c, {}, SharedCache(c, level), SharedCacheParts(c, level),
                 SharedCacheCounted(c, level))
<1> DEFINE approx == level \in {"L2", "L3"}
           dir == TagDirectory(c, level)
           set == UnicacheSet(c, level, approx)
           main == Array("unicache.caches", TRUE, set)
           twin == Array("unicache.apcaches", FALSE, UnicacheTwin(approx))
           off == Approx(0)
           own == AllVdd("own")
           cache == {"unicache.caches", "unicache.apcaches"}
           counted == {"unicache.caches"}
           buffers == <<unicache_missb, unicache_ifb, unicache_prefetchb,
                        unicache_wbb>>
           bufs == UniBuffers(c, level)
<1>1. \A p \in {"unicache.caches", "unicache.apcaches", "unicache.missb",
                "unicache.ifb", "unicache.prefetchb", "unicache.wbb"} :
         p \notin LogicParts \cup WireParts /\ ~Portless(c, p)
  BY DEF LogicParts, WireParts, Portless
<1>2. unicache(c, level) =
        Keep \o <<main, twin>> \o Assign(off) \o Restore
  BY DEF unicache, UnicacheMain, UnicacheSet, UnicacheTwin
<1>3. Fills(c, {}, <<main, twin>>, cache, counted)
  <2> HIDE DEF set
  <2>1. Fills(c, {}, <<main>>, {"unicache.caches"}, {"unicache.caches"})
    BY <1>1, FillsArray
  <2>2. Fills(c, {}, <<twin>>, {"unicache.apcaches"}, {})
    BY <1>1, FillsArray
  <2> HIDE DEF main, twin
  <2>3. /\ {"unicache.caches"} \cap {} = {}
        /\ {"unicache.caches"} \cup {"unicache.apcaches"} = cache
        /\ {"unicache.caches"} \cup {} = counted
    OBVIOUS
  <2>4. Fills(c, {}, <<main, twin>>,
              {"unicache.caches"} \cup {"unicache.apcaches"},
              {"unicache.caches"} \cup {})
    BY <2>1, <2>2, <2>3, Fills2
  <2> QED BY <2>3, <2>4
<1>4. Fills(c, {}, Only(~TagDirectory(c, level), buffers), bufs, bufs)
  <2>1. CASE ~TagDirectory(c, level)
    <3>1. /\ Fills(c, {}, <<unicache_missb>>, {"unicache.missb"}, {"unicache.missb"})
          /\ Fills(c, {}, <<unicache_ifb>>, {"unicache.ifb"}, {"unicache.ifb"})
          /\ Fills(c, {}, <<unicache_prefetchb>>, {"unicache.prefetchb"},
                   {"unicache.prefetchb"})
          /\ Fills(c, {}, <<unicache_wbb>>, {"unicache.wbb"}, {"unicache.wbb"})
      BY <1>1, FillsArray
      DEF unicache_missb, unicache_ifb, unicache_prefetchb, unicache_wbb, Buffer
    <3> DEFINE two == {"unicache.missb"} \cup {"unicache.ifb"}
               three == two \cup {"unicache.prefetchb"}
    <3>2. Fills(c, {}, <<unicache_missb, unicache_ifb>>, two, two)
      <4>1. {"unicache.missb"} \cap {"unicache.ifb"} = {} OBVIOUS
      <4> QED BY <3>1, <4>1, Fills2
    <3>3. Fills(c, {}, <<unicache_missb, unicache_ifb, unicache_prefetchb>>,
                three, three)
      <4>1. two \cap {"unicache.prefetchb"} = {} OBVIOUS
      <4> HIDE DEF two
      <4> QED BY <3>1, <3>2, <4>1, Fills3
    <3>4. Fills(c, {}, buffers, three \cup {"unicache.wbb"},
                three \cup {"unicache.wbb"})
      <4>1. three \cap {"unicache.wbb"} = {} OBVIOUS
      <4> HIDE DEF three
      <4> QED BY <3>1, <3>3, <4>1, Fills4
    <3>5. three \cup {"unicache.wbb"} = bufs BY <2>1 DEF UniBuffers
    <3> QED BY <2>1, <3>4, <3>5 DEF Only
  <2>2. CASE TagDirectory(c, level)
    <3>1. bufs = {} BY <2>2 DEF UniBuffers
    <3> QED BY <2>2, <3>1, FillsNone DEF Only
  <2> QED BY <2>1, <2>2
<1>5. /\ {} \cap counted = {} /\ counted \cap {} = {} /\ {} \cap {} = {}
      /\ {} \cup cache = cache /\ {} \cup counted = counted
      /\ cache \cup {} = cache /\ counted \cup {} = counted
      /\ {} \cup {} = {}
  OBVIOUS
<1>6. /\ counted \cap bufs = {}
      /\ cache \cup bufs = SharedCacheParts(c, level)
      /\ counted \cup bufs = SharedCacheCounted(c, level)
  BY DEF UniBuffers, SharedCacheParts, SharedCacheCounted
<1>7. Fills(c, {}, set_cache_param(c), {}, {})
  <2> HIDE DEF own
  <2>1. set_cache_param(c) = Only(c.vdd, Assign(own))
    BY DEF set_cache_param, own
  <2>2. CASE c.vdd BY <2>1, <2>2, FillsAside DEF Only
  <2>3. CASE ~c.vdd BY <2>1, <2>3, FillsNone DEF Only
  <2> QED BY <2>2, <2>3
<1> HIDE DEF approx, dir, set, main, twin, off, own, cache, counted, buffers, bufs
<1>8. Fills(c, {}, unicache(c, level), cache, counted)
  <2>1. Fills(c, {}, Keep \o <<main, twin>>, {} \cup cache, {} \cup counted)
    BY <1>3, <1>5, FillsAside, FillsBoth
  <2>2. Fills(c, {}, Keep \o <<main, twin>>, cache, counted)
    BY <1>5, <2>1
  <2>3. Fills(c, {}, Keep \o <<main, twin>> \o Assign(off), cache \cup {},
              counted \cup {})
    BY <1>5, <2>2, FillsAside, FillsBoth
  <2>4. Fills(c, {}, Keep \o <<main, twin>> \o Assign(off), cache, counted)
    BY <1>5, <2>3
  <2>5. Fills(c, {}, Keep \o <<main, twin>> \o Assign(off) \o Restore,
              cache \cup {}, counted \cup {})
    BY <1>5, <2>4, FillsAside, FillsBoth
  <2> QED BY <1>2, <1>5, <2>5
<1>9. Fills(c, {}, set_cache_param(c) \o unicache(c, level), {} \cup cache,
            {} \cup counted)
  BY <1>5, <1>7, <1>8, FillsBoth
<1>10. Fills(c, {}, set_cache_param(c) \o unicache(c, level), cache, counted)
  BY <1>5, <1>9
<1>11. Fills(c, {}, set_cache_param(c) \o unicache(c, level)
                      \o Only(~TagDirectory(c, level), buffers),
             cache \cup bufs, counted \cup bufs)
  BY <1>4, <1>6, <1>10, FillsBoth
<1> QED BY <1>6, <1>11 DEF SharedCache, buffers

-----------------------------------------------------------------------------
(* Parts and areas of a whole program. *)

\* The units of a core make the core's parts.
LEMMA CoreUnitsBuild ==
    ASSUME NEW c \in ConfigType
    PROVE  Builds(c, {}, CoreUnits(c), CoreParts(c))
<1> DEFINE l2 == Only(c.Private_L2, Unit("l2cache", FALSE, SharedCache(c, "L2")))
           ifu == Unit("ifu", FALSE, InstFetchU(c))
           lsu == Unit("lsu", FALSE, LoadStoreU(c))
           mmu == Unit("mmu", FALSE, MemManU(c))
           exu == Unit("exu", FALSE, EXECU(c))
           undiff == Unit("undiffCore", FALSE, <<Logic("undiffCore", TRUE)>>)
           rnu == Only(c.OOO, Unit("rnu", FALSE, RENAMINGU(c)))
           pipe == <<Logic("corepipe", FALSE)>>
           P1 == PrivateParts(c)
           P2 == P1 \cup InstFetchUParts(c)
           P3 == P2 \cup LoadStoreUParts(c)
           P4 == P3 \cup MemManUParts
           P5 == P4 \cup EXECUParts(c)
           P6 == P5 \cup {"undiffCore"}
           P7 == P6 \cup RenamingParts(c)
<1>1. Builds(c, {}, l2, P1)
  <2>1. CASE c.Private_L2
    <3>1. Builds(c, {}, SharedCache(c, "L2"), SharedCacheParts(c, "L2"))
      BY SharedCacheFills DEF Fills
    <3>2. Builds(c, {}, Unit("l2cache", FALSE, SharedCache(c, "L2")),
                 SharedCacheParts(c, "L2"))
      BY <3>1, BuildsUnit
    <3> QED BY <2>1, <3>2 DEF Only, PrivateParts
  <2>2. CASE ~c.Private_L2 BY <2>2, BuildsNone DEF Only, PrivateParts
  <2> QED BY <2>1, <2>2
<1>2. Builds(c, {}, ifu, InstFetchUParts(c))
  BY InstFetchUFills, BuildsUnit DEF Fills
<1>3. Builds(c, {}, lsu, LoadStoreUParts(c))
  BY LoadStoreUFills, BuildsUnit DEF Fills
<1>4. Builds(c, {}, mmu, MemManUParts)
  BY MemManUFills, BuildsUnit DEF Fills
<1>5. Builds(c, {"LSQ"}, exu, EXECUParts(c))
  BY EXECUFills, BuildsUnit DEF Fills
<1>6. Builds(c, {}, undiff, {"undiffCore"}) /\ Builds(c, {}, pipe, {"corepipe"})
  <2>1. "undiffCore" \in LogicParts /\ "corepipe" \in LogicParts
    BY DEF LogicParts
  <2>2. /\ Builds(c, {}, <<Logic("undiffCore", TRUE)>>, {"undiffCore"})
        /\ Builds(c, {}, <<Logic("corepipe", FALSE)>>, {"corepipe"})
    BY <2>1, FillsLogic DEF Fills
  <2> QED BY <2>2, BuildsUnit
<1>7. Builds(c, {}, rnu, RenamingParts(c))
  <2>1. CASE c.OOO
    <3>1. Builds(c, {}, RENAMINGU(c), RENAMINGUParts(c))
      BY RENAMINGUFills DEF Fills
    <3>2. Builds(c, {}, Unit("rnu", FALSE, RENAMINGU(c)), RENAMINGUParts(c))
      BY <3>1, BuildsUnit
    <3> QED BY <2>1, <3>2 DEF Only, RenamingParts
  <2>2. CASE ~c.OOO BY <2>2, BuildsNone DEF Only, RenamingParts
  <2> QED BY <2>1, <2>2
<1>8. "LSQ" \in LoadStoreUParts(c) BY DEF LoadStoreUParts, LoadStoreUCounted
<1>9. CoreUnits(c) = l2 \o ifu \o lsu \o mmu \o exu \o undiff \o rnu \o pipe
  BY DEF CoreUnits
<1>10. CoreParts(c) = P7 \cup {"corepipe"} BY DEF CoreParts
<1> HIDE DEF l2, ifu, lsu, mmu, exu, undiff, rnu, pipe
<1>11. Builds(c, {}, l2 \o ifu, P2) BY <1>1, <1>2, BuildsBoth
<1> HIDE DEF P2
<1>12. Builds(c, {}, l2 \o ifu \o lsu, P3) BY <1>11, <1>3, BuildsBoth
<1>13. {"LSQ"} \subseteq {} \cup P4 BY <1>8
<1> HIDE DEF P3
<1>14. Builds(c, {}, l2 \o ifu \o lsu \o mmu, P4) BY <1>12, <1>4, BuildsBoth
<1> HIDE DEF P4
<1>15. Builds(c, {} \cup P4, exu, EXECUParts(c)) BY <1>5, <1>13, BuildsMore
<1>16. Builds(c, {}, l2 \o ifu \o lsu \o mmu \o exu, P5)
  BY <1>14, <1>15, BuildsConcat
<1> HIDE DEF P5
<1>17. Builds(c, {}, l2 \o ifu \o lsu \o mmu \o exu \o undiff, P6)
  BY <1>16, <1>6, BuildsBoth
<1> HIDE DEF P6
<1>18. Builds(c, {}, l2 \o ifu \o lsu \o mmu \o exu \o undiff \o rnu, P7)
  BY <1>17, <1>7, BuildsBoth
<1> HIDE DEF P7
<1>19. Builds(c, {}, l2 \o ifu \o lsu \o mmu \o exu \o undiff \o rnu \o pipe,
              P7 \cup {"corepipe"})
  BY <1>18, <1>6, BuildsBoth
<1> QED BY <1>9, <1>10, <1>19

\* What a configuration builds, and that every wire finds its heights.
LEMMA ProgramBuilds ==
    ASSUME NEW c \in ConfigType
    PROVE  Builds(c, {}, Program(c), ProgramParts(c))
<1>1. CASE c.root = "Core"
  <2> DEFINE vdd == Only(c.vdd, Assign(AllVdd("own")))
             end == [op |-> "core_area"]
  <2>1. Builds(c, {}, vdd, {})
    <3>1. Builds(c, {}, Assign(AllVdd("own")), {}) BY BuildsAside
    <3> QED BY <3>1, BuildsNone DEF Only
  <2>2. Builds(c, {}, <<end>>, {})
    <3>1. end.op = "core_area" OBVIOUS
    <3> HIDE DEF end
    <3>2. end.op \notin Making /\ WellMade(c, {}, end)
      BY <3>1 DEF WellMade, Making
    <3> QED BY <3>2, BuildsOne
  <2>3. Program(c) = vdd \o CoreUnits(c) \o <<end>> BY <1>1 DEF Program
  <2> HIDE DEF vdd, end
  <2>4. Builds(c, {}, vdd \o CoreUnits(c), {} \cup CoreParts(c))
    BY <2>1, CoreUnitsBuild, BuildsBoth
  <2>5. Builds(c, {}, vdd \o CoreUnits(c) \o <<end>>,
               ({} \cup CoreParts(c)) \cup {})
    BY <2>4, <2>2, BuildsBoth
  <2>6. ({} \cup CoreParts(c)) \cup {} = ProgramParts(c)
    BY <1>1 DEF ProgramParts
  <2> QED BY <2>3, <2>5, <2>6
<1>2. CASE c.root # "Core"
  <2>1. Builds(c, {}, SharedCache(c, c.root), SharedCacheParts(c, c.root))
    BY SharedCacheFills DEF Fills
  <2> QED BY <1>2, <2>1 DEF Program, ProgramParts
<1> QED BY <1>1, <1>2

-----------------------------------------------------------------------------
(* Parts and areas of the finished units. *)

\* A finished unit is entered.
LEMMA CountsEntry ==
    ASSUME NEW U, NEW u, NEW A
    PROVE  /\ Counts(Entry(u, A) ++ U, u, A)
           /\ \A v, B : v # u /\ Counts(U, v, B) => Counts(Entry(u, A) ++ U, v, B)
           /\ DOMAIN (Entry(u, A) ++ U) = {u} \cup DOMAIN U
<1>1. DOMAIN Entry(u, A) = {u} /\ Entry(u, A)[u] = A BY DEF Entry
<1> DEFINE e == Entry(u, A)
<1> HIDE DEF e
<1>2. DOMAIN (e ++ U) = {u} \cup DOMAIN U BY <1>1 DEF ++, e
<1>3. (e ++ U)[u] = A BY <1>1 DEF ++, e
<1>4. ASSUME NEW v \in DOMAIN U, v # u PROVE (e ++ U)[v] = U[v]
  BY <1>1, <1>4 DEF ++, e
<1> QED BY <1>2, <1>3, <1>4 DEF Counts, e

\* A unit whose area Core::Core adds up.
LEMMA OneUnit ==
    ASSUME NEW u \in CoreAreas, NEW c, NEW D, NEW body, NEW P, NEW A,
           Fills(c, D, body, P, A), NEW U
    PROVE  Sums(Unit(u, FALSE, body), Sum(<<>>, {}, U),
                Sum(<<>>, {}, Entry(u, A) ++ U))
<1>1. IsSeq(body) /\ Adds(body, A) BY DEF Fills, Builds
<1>2. Sums(Unit(u, FALSE, body), Sum(<<>>, {}, U),
           Sum(<<>>, IF FALSE THEN {} \cup A ELSE {},
               IF u \in CoreAreas THEN Entry(u, A) ++ U ELSE U))
  <2>1. FALSE => {} \cap A = {} OBVIOUS
  <2> DEFINE n == FALSE
  <2>2. n \in BOOLEAN OBVIOUS
  <2>3. n => {} \cap A = {} OBVIOUS
  <2> HIDE DEF n
  <2>4. Sums(Unit(u, n, body), Sum(<<>>, {}, U),
             Sum(<<>>, IF n THEN {} \cup A ELSE {},
                 IF u \in CoreAreas THEN Entry(u, A) ++ U ELSE U))
    BY <1>1, <2>2, <2>3, SeqNone, UnitSums
  <2> QED BY <2>4 DEF n
<1> QED BY <1>2

\* The units of a core, one after the other.
LEMMA CoreUnitsSum ==
    ASSUME NEW c \in ConfigType
    PROVE  \E U : /\ CoreCounts(c, U)
                  /\ Sums(CoreUnits(c), None, Sum(<<>>, {}, U))
<1> DEFINE l2 == Only(c.Private_L2, Unit("l2cache", FALSE, SharedCache(c, "L2")))
           ifu == Unit("ifu", FALSE, InstFetchU(c))
           lsu == Unit("lsu", FALSE, LoadStoreU(c))
           mmu == Unit("mmu", FALSE, MemManU(c))
           exu == Unit("exu", FALSE, EXECU(c))
           undiff == Unit("undiffCore", FALSE, <<Logic("undiffCore", TRUE)>>)
           rnu == Only(c.OOO, Unit("rnu", FALSE, RENAMINGU(c)))
           pipe == <<Logic("corepipe", FALSE)>>
           S(U) == Sum(<<>>, {}, U)
           U1 == IF c.Private_L2
                 THEN Entry("l2cache", SharedCacheCounted(c, "L2")) ++ <<>>
                 ELSE <<>>
           U2 == Entry("ifu", InstFetchUParts(c)) ++ U1
           U3 == Entry("lsu", LoadStoreUCounted(c)) ++ U2
           U4 == Entry("mmu", MemManUParts) ++ U3
           U5 == Entry("exu", EXECUCounted(c)) ++ U4
           U6 == Entry("undiffCore", {"undiffCore"}) ++ U5
           U7 == IF c.OOO THEN Entry("rnu", RENAMINGUCounted(c)) ++ U6 ELSE U6
<1>0. \A u \in {"l2cache", "ifu", "lsu", "mmu", "exu", "undiffCore", "rnu"} :
         u \in CoreAreas
  BY DEF CoreAreas
<1>1. Sums(l2, S(<<>>), S(U1))
  <2>1. CASE c.Private_L2
    <3>1. Fills(c, {}, SharedCache(c, "L2"), SharedCacheParts(c, "L2"),
                SharedCacheCounted(c, "L2"))
      BY SharedCacheFills
    <3>2. Sums(Unit("l2cache", FALSE, SharedCache(c, "L2")), S(<<>>),
               S(Entry("l2cache", SharedCacheCounted(c, "L2")) ++ <<>>))
      BY <3>1, <1>0, OneUnit
    <3> QED BY <2>1, <3>2 DEF Only
  <2>2. CASE ~c.Private_L2
    <3>1. IsSeq(S(<<>>).base) BY SumFields, SeqNone
    <3>2. Sums(<<>>, S(<<>>), S(<<>>)) BY <3>1, SumsNone
    <3> QED BY <2>2, <3>2 DEF Only
  <2> QED BY <2>1, <2>2
<1>2. \A U : Sums(ifu, S(U), S(Entry("ifu", InstFetchUParts(c)) ++ U))
  BY <1>0, InstFetchUFills, OneUnit
<1>3. \A U : Sums(lsu, S(U), S(Entry("lsu", LoadStoreUCounted(c)) ++ U))
  BY <1>0, LoadStoreUFills, OneUnit
<1>4. \A U : Sums(mmu, S(U), S(Entry("mmu", MemManUParts) ++ U))
  BY <1>0, MemManUFills, OneUnit
<1>5. \A U : Sums(exu, S(U), S(Entry("exu", EXECUCounted(c)) ++ U))
  BY <1>0, EXECUFills, OneUnit
<1>6. \A U : Sums(undiff, S(U), S(Entry("undiffCore", {"undiffCore"}) ++ U))
  <2>1. "undiffCore" \in LogicParts BY DEF LogicParts
  <2>2. Fills(c, {}, <<Logic("undiffCore", TRUE)>>, {"undiffCore"}, {"undiffCore"})
    BY <2>1, FillsLogic
  <2> QED BY <1>0, <2>2, OneUnit
<1>7. Sums(rnu, S(U6), S(U7))
  <2>1. CASE c.OOO
    <3>1. Fills(c, {}, RENAMINGU(c), RENAMINGUParts(c), RENAMINGUCounted(c))
      BY RENAMINGUFills
    <3>2. Sums(Unit("rnu", FALSE, RENAMINGU(c)), S(U6),
               S(Entry("rnu", RENAMINGUCounted(c)) ++ U6))
      BY <3>1, <1>0, OneUnit
    <3> QED BY <2>1, <3>2 DEF Only
  <2>2. CASE ~c.OOO
    <3>1. IsSeq(S(U6).base) BY SumFields, SeqNone
    <3>2. Sums(<<>>, S(U6), S(U6)) BY <3>1, SumsNone
    <3> QED BY <2>2, <3>2 DEF Only
  <2> QED BY <2>1, <2>2
<1>8. \A U : Sums(pipe, S(U), S(U))
  <2>1. "corepipe" \in LogicParts BY DEF LogicParts
  <2>2. Adds(pipe, {}) BY <2>1, FillsLogic DEF Fills
  <2>3. {} \cap {} = {} /\ {} \cup {} = {} OBVIOUS
  <2> QED BY <2>2, <2>3, SeqNone DEF Adds
<1>9. /\ IsSeq(ifu) /\ IsSeq(lsu) /\ IsSeq(mmu) /\ IsSeq(exu)
      /\ IsSeq(undiff) /\ IsSeq(pipe) /\ IsSeq(l2) /\ IsSeq(rnu)
  <2>1. \A u, n, body : IsSeq(body) => IsSeq(Unit(u, n, body))
    BY SeqOne, SeqConcat DEF Unit
  <2>2. /\ IsSeq(InstFetchU(c)) /\ IsSeq(LoadStoreU(c)) /\ IsSeq(MemManU(c))
        /\ IsSeq(EXECU(c)) /\ IsSeq(RENAMINGU(c)) /\ IsSeq(SharedCache(c, "L2"))
    <3>1. Fills(c, {}, RENAMINGU(c), RENAMINGUParts(c), RENAMINGUCounted(c))
      BY RENAMINGUFills
    <3>2. Fills(c, {}, SharedCache(c, "L2"), SharedCacheParts(c, "L2"),
                SharedCacheCounted(c, "L2"))
      BY SharedCacheFills
    <3>3. IsSeq(RENAMINGU(c)) /\ IsSeq(SharedCache(c, "L2"))
      BY <3>1, <3>2 DEF Fills, Builds
    <3>4. /\ IsSeq(InstFetchU(c)) /\ IsSeq(LoadStoreU(c)) /\ IsSeq(MemManU(c))
          /\ IsSeq(EXECU(c))
      BY InstFetchUFills, LoadStoreUFills, MemManUFills, EXECUFills
      DEF Fills, Builds
    <3> QED BY <3>3, <3>4
  <2>3. IsSeq(<<Logic("undiffCore", TRUE)>>) /\ IsSeq(pipe) BY SeqOne
  <2>4. IsSeq(l2) /\ IsSeq(rnu) BY <2>1, <2>2, SeqNone DEF Only
  <2> QED BY <2>1, <2>2, <2>3, <2>4
<1>10. CoreUnits(c) = l2 \o ifu \o lsu \o mmu \o exu \o undiff \o rnu \o pipe
  BY DEF CoreUnits
<1>11. CoreCounts(c, U7)
  <2>1. DOMAIN U1 = (IF c.Private_L2 THEN {"l2cache"} ELSE {})
        /\ (c.Private_L2 => Counts(U1, "l2cache", SharedCacheCounted(c, "L2")))
    <3> DEFINE E == Entry("l2cache", SharedCacheCounted(c, "L2")) ++ <<>>
    <3>1. DOMAIN <<>> = {} OBVIOUS
    <3>2. /\ DOMAIN E = {"l2cache"} \cup DOMAIN <<>>
          /\ Counts(E, "l2cache", SharedCacheCounted(c, "L2"))
      BY CountsEntry
    <3>3. U1 = IF c.Private_L2 THEN E ELSE <<>> OBVIOUS
    <3> HIDE DEF U1, E
    <3> QED BY <3>1, <3>2, <3>3
  <2> HIDE DEF U1
  <2>2. /\ DOMAIN U2 = {"ifu"} \cup DOMAIN U1
        /\ c.Private_L2 => Counts(U2, "l2cache", SharedCacheCounted(c, "L2"))
        /\ Counts(U2, "ifu", InstFetchUParts(c))
    BY <2>1, CountsEntry
  <2> HIDE DEF U2
  <2>3. /\ DOMAIN U3 = {"lsu"} \cup DOMAIN U2
        /\ c.Private_L2 => Counts(U3, "l2cache", SharedCacheCounted(c, "L2"))
        /\ Counts(U3, "ifu", InstFetchUParts(c))
        /\ Counts(U3, "lsu", LoadStoreUCounted(c))
    BY <2>2, CountsEntry
  <2> HIDE DEF U3
  <2>4. /\ DOMAIN U4 = {"mmu"} \cup DOMAIN U3
        /\ c.Private_L2 => Counts(U4, "l2cache", SharedCacheCounted(c, "L2"))
        /\ Counts(U4, "ifu", InstFetchUParts(c))
        /\ Counts(U4, "lsu", LoadStoreUCounted(c))
        /\ Counts(U4, "mmu", MemManUParts)
    BY <2>3, CountsEntry
  <2> HIDE DEF U4
  <2>5. /\ DOMAIN U5 = {"exu"} \cup DOMAIN U4
        /\ c.Private_L2 => Counts(U5, "l2cache", SharedCacheCounted(c, "L2"))
        /\ Counts(U5, "ifu", InstFetchUParts(c))
        /\ Counts(U5, "lsu", LoadStoreUCounted(c))
        /\ Counts(U5, "mmu", MemManUParts)
        /\ Counts(U5, "exu", EXECUCounted(c))
    BY <2>4, CountsEntry
  <2> HIDE DEF U5
  <2>6. /\ DOMAIN U6 = {"undiffCore"} \cup DOMAIN U5
        /\ c.Private_L2 => Counts(U6, "l2cache", SharedCacheCounted(c, "L2"))
        /\ Counts(U6, "ifu", InstFetchUParts(c))
        /\ Counts(U6, "lsu", LoadStoreUCounted(c))
        /\ Counts(U6, "mmu", MemManUParts)
        /\ Counts(U6, "exu", EXECUCounted(c))
        /\ Counts(U6, "undiffCore", {"undiffCore"})
    BY <2>5, CountsEntry
  <2> HIDE DEF U6
  <2>7. CASE c.OOO
    <3>1. U7 = Entry("rnu", RENAMINGUCounted(c)) ++ U6 BY <2>7
    <3> HIDE DEF U7
    <3>2. /\ DOMAIN U7 = {"rnu"} \cup DOMAIN U6
          /\ c.Private_L2 => Counts(U7, "l2cache", SharedCacheCounted(c, "L2"))
          /\ Counts(U7, "ifu", InstFetchUParts(c))
          /\ Counts(U7, "lsu", LoadStoreUCounted(c))
          /\ Counts(U7, "mmu", MemManUParts)
          /\ Counts(U7, "exu", EXECUCounted(c))
          /\ Counts(U7, "undiffCore", {"undiffCore"})
          /\ Counts(U7, "rnu", RENAMINGUCounted(c))
      BY <3>1, <2>6, CountsEntry
    <3>3. DOMAIN U7 = UnitsOf(c)
      BY <2>1, <2>2, <2>3, <2>4, <2>5, <2>6, <3>2, <2>7 DEF UnitsOf, FiveUnits
    <3> QED BY <3>2, <3>3 DEF CoreCounts
  <2>8. CASE ~c.OOO
    <3>1. U7 = U6 BY <2>8
    <3>2. DOMAIN U6 = UnitsOf(c)
      BY <2>1, <2>2, <2>3, <2>4, <2>5, <2>6, <2>8 DEF UnitsOf, FiveUnits
    <3> QED BY <3>1, <3>2, <2>6, <2>8 DEF CoreCounts
  <2> QED BY <2>7, <2>8
<1> HIDE DEF l2, ifu, lsu, mmu, exu, undiff, rnu, pipe, U7
<1>12. Sums(l2 \o ifu, S(<<>>), S(U2)) /\ IsSeq(l2 \o ifu)
  BY <1>1, <1>2, <1>9, SumsConcat, SeqConcat
<1> HIDE DEF U2
<1>13. Sums(l2 \o ifu \o lsu, S(<<>>), S(U3)) /\ IsSeq(l2 \o ifu \o lsu)
  BY <1>12, <1>3, <1>9, SumsConcat, SeqConcat
<1> HIDE DEF U3
<1>14. Sums(l2 \o ifu \o lsu \o mmu, S(<<>>), S(U4))
       /\ IsSeq(l2 \o ifu \o lsu \o mmu)
  BY <1>13, <1>4, <1>9, SumsConcat, SeqConcat
<1> HIDE DEF U4
<1>15. Sums(l2 \o ifu \o lsu \o mmu \o exu, S(<<>>), S(U5))
       /\ IsSeq(l2 \o ifu \o lsu \o mmu \o exu)
  BY <1>14, <1>5, <1>9, SumsConcat, SeqConcat
<1> HIDE DEF U5
<1>16. Sums(l2 \o ifu \o lsu \o mmu \o exu \o undiff, S(<<>>), S(U6))
       /\ IsSeq(l2 \o ifu \o lsu \o mmu \o exu \o undiff)
  BY <1>15, <1>6, <1>9, SumsConcat, SeqConcat
<1> HIDE DEF U6
<1>17. Sums(l2 \o ifu \o lsu \o mmu \o exu \o undiff \o rnu, S(<<>>), S(U7))
       /\ IsSeq(l2 \o ifu \o lsu \o mmu \o exu \o undiff \o rnu)
  BY <1>16, <1>7, <1>9, SumsConcat, SeqConcat
<1>18. Sums(l2 \o ifu \o lsu \o mmu \o exu \o undiff \o rnu \o pipe, S(<<>>), S(U7))
  BY <1>17, <1>8, <1>9, SumsConcat
<1> QED BY <1>10, <1>11, <1>18 DEF None

-----------------------------------------------------------------------------
(* The inductive invariant of the construction. *)

\* Every program has an outline.
LEMMA OutlineOf ==
    ASSUME NEW c \in ConfigType
    PROVE  /\ Outlines(c, Outline(c), 1, Start(c), Program(c), 1, Plain)
           /\ IsSeq(Program(c))
<1>1. Triple(c, Start(c), Program(c), Plain) BY ProgramTriple
<1>2. 1 \in Nat \ {0} OBVIOUS
<1>3. \E o : Outlines(c, o, 1, Start(c), Program(c), 1, Plain)
  BY <1>1, <1>2 DEF Triple, Path
<1>4. Outlines(c, Outline(c), 1, Start(c), Program(c), 1, Plain)
  BY <1>3 DEF Outline
<1> QED BY <1>1, <1>4 DEF Triple

\* No program is empty.
LEMMA ProgramNotEmpty ==
    ASSUME NEW c \in ConfigType
    PROVE  Len(Program(c)) \in Nat \ {0}
<1>1. Builds(c, {}, Program(c), ProgramParts(c)) BY ProgramBuilds
<1>2. ProgramParts(c) # {}
  <2>1. "corepipe" \in CoreParts(c) BY DEF CoreParts
  <2>2. "unicache.caches" \in SharedCacheParts(c, c.root)
    BY DEF SharedCacheParts, SharedCacheCounted
  <2> QED BY <2>1, <2>2 DEF ProgramParts
<1>3. Made(Program(c), 0) = {} BY DEF Made
<1>4. Len(Program(c)) \in Nat BY <1>1, SeqConcat DEF Builds
<1> QED BY <1>1, <1>2, <1>3, <1>4 DEF Builds

\* Records that agree do so after every statement.
LEMMA LikeAfter ==
    ASSUME NEW ip, NEW g, Like(ip, g), NEW st, NEW kept, DOMAIN kept = Volts,
           Fields \subseteq DOMAIN g
    PROVE  /\ Like(IpAfter(st, ip, kept), IpAfter(st, g, kept))
           /\ KeptAfter(st, ip, kept) = KeptAfter(st, g, kept)
<1>1. ASSUME NEW set PROVE Like(set ++ ip, set ++ g)
  BY <1>1 DEF Like, ++
<1>2. KeptAfter(st, ip, kept) = KeptAfter(st, g, kept)
  <2>1. \A v \in Volts : ip[v] = g[v] BY DEF Like, Fields, Volts
  <2> QED BY <2>1 DEF KeptAfter
<1> QED BY <1>1, <1>2 DEF IpAfter

\* Records that agree are accepted or refused alike.
LEMMA LikeReads ==
    ASSUME NEW ip, NEW g, Like(ip, g), Fields \subseteq DOMAIN g
    PROVE  /\ error_checking(ip) <=> error_checking(g)
           /\ \A c, p : /\ Powered(c, p, ip) <=> Powered(c, p, g)
                        /\ GeometryRight(c, p, ip) <=> GeometryRight(c, p, g)
<1>1. \A f \in Fields \ {"approx_mode", "force_cache_config"} : ip[f] = g[f]
  BY DEF Like
<1>2. /\ ip.is_cache = g.is_cache /\ ip.pure_cam = g.pure_cam
      /\ ip.line_sz = g.line_sz /\ ip.cache_sz = g.cache_sz
      /\ ip.tag_w = g.tag_w /\ ip.assoc = g.assoc
      /\ ip.num_search_ports = g.num_search_ports
      /\ ip.num_rw_ports = g.num_rw_ports /\ ip.num_rd_ports = g.num_rd_ports
      /\ ip.num_wr_ports = g.num_wr_ports
      /\ ip.hp_Vdd = g.hp_Vdd /\ ip.lop_Vdd = g.lop_Vdd
      /\ ip.lstp_Vdd = g.lstp_Vdd
  BY <1>1 DEF Fields, Volts
<1>3. error_checking(ip) <=> error_checking(g)
  BY <1>2 DEF error_checking, PortsOk, ShapeOk, fully_assoc
<1>4. \A c, p : Powered(c, p, ip) <=> Powered(c, p, g)
  BY <1>2 DEF Powered, Supply
<1>5. \A c, p : GeometryRight(c, p, ip) <=> GeometryRight(c, p, g)
  BY <1>2 DEF GeometryRight
<1> QED BY <1>3, <1>4, <1>5

\* checked changes nothing that the invariant reads, but approx_mode, which
\* stays 1 exactly when it was.
LEMMA CheckedReads ==
    ASSUME NEW ip, Fields \subseteq DOMAIN ip
    PROVE  \A c, p : /\ Powered(c, p, checked(ip)) <=> Powered(c, p, ip)
                     /\ GeometryRight(c, p, checked(ip)) <=> GeometryRight(c, p, ip)
                     /\ ApproxRight(c, p, checked(ip)) <=> ApproxRight(c, p, ip)
<1> DEFINE n == checked(ip)
<1>1. /\ n.is_cache = ip.is_cache
      /\ n.line_sz = ip.line_sz /\ n.cache_sz = ip.cache_sz
      /\ n.tag_w = ip.tag_w
      /\ n.hp_Vdd = ip.hp_Vdd /\ n.lop_Vdd = ip.lop_Vdd
      /\ n.lstp_Vdd = ip.lstp_Vdd
      /\ n.force_cache_config = ip.force_cache_config
  BY DEF checked, ++, Fields, Volts
<1>2. n.approx_mode = 1 <=> ip.approx_mode = 1
  BY DEF checked, ++, Fields
<1> HIDE DEF n
<1>3. \A c, p : Powered(c, p, n) <=> Powered(c, p, ip)
  BY <1>1 DEF Powered, Supply
<1>4. \A c, p : GeometryRight(c, p, n) <=> GeometryRight(c, p, ip)
  BY <1>1 DEF GeometryRight
<1>5. \A c, p : ApproxRight(c, p, n) <=> ApproxRight(c, p, ip)
  BY <1>1, <1>2 DEF ApproxRight
<1> QED BY <1>3, <1>4, <1>5 DEF n

\* A lower frame keeps its facts when keep changes.
LEMMA PlainShadow ==
    ASSUME NEW c, NEW ip, NEW kept, NEW kept2, Shadowed(Plain, c, ip, kept),
           DOMAIN kept2 = Volts
    PROVE  Shadowed(Plain, c, ip, kept2)
<1>1. "kept" \notin Plain BY DEF Plain
<1> QED BY <1>1 DEF Shadowed, Holds, Typed

\* Fewer facts hold.
LEMMA ShadowWeaker ==
    ASSUME NEW c, NEW ip, NEW kept, NEW F, NEW G, G \subseteq F,
           Shadowed(F, c, ip, kept)
    PROVE  Shadowed(G, c, ip, kept)
  BY Weaker DEF Shadowed

\* The parts made by one more statement.
LEMMA MadeNext ==
    ASSUME NEW s, NEW k \in Nat \ {0}
    PROVE  Made(s, k) = Made(s, k - 1)
                          \cup (IF s[k].op \in Making THEN {s[k].part} ELSE {})
<1>1. \A j : j \in 1 .. k <=> j \in 1 .. k - 1 \/ j = k OBVIOUS
<1> QED BY <1>1 DEF Made

\* One part is added to a map of right parts.
LEMMA AddPart ==
    ASSUME NEW c, NEW f, \A q \in DOMAIN f : PartRight(c, q, f[q]),
           NEW p, NEW b, PartRight(c, p, b)
    PROVE  /\ DOMAIN (Entry(p, b) ++ f) = DOMAIN f \cup {p}
           /\ \A q \in DOMAIN f \cup {p} : PartRight(c, q, (Entry(p, b) ++ f)[q])
<1>1. DOMAIN Entry(p, b) = {p} /\ Entry(p, b)[p] = b BY DEF Entry
<1> DEFINE e == Entry(p, b)
           h == e ++ f
<1> HIDE DEF e
<1>2. DOMAIN h = DOMAIN f \cup {p} BY <1>1 DEF ++, e
<1>3. \A q \in DOMAIN f \cup {p} : h[q] = IF q = p THEN b ELSE f[q]
  BY <1>1 DEF ++, e
<1> HIDE DEF h
<1> QED BY <1>2, <1>3 DEF h, e

\* The record of the processor: approx_mode is what it was, all else is set.
LEMMA ProcRecord ==
    \E x : /\ DOMAIN x = Fields \ {"approx_mode", "force_cache_config"}
           /\ x.is_cache = TRUE /\ x.pure_cam = FALSE
           /\ x.num_search_ports = 1 /\ x.num_rw_ports = 1
           /\ x.num_rd_ports = 0 /\ x.num_wr_ports = 0
           /\ x.hp_Vdd = "itrs" /\ x.lop_Vdd = "itrs" /\ x.lstp_Vdd = "itrs"
           /\ \A a : proc_interface_ip(a) =
                      x ++ [approx_mode |-> a, force_cache_config |-> FALSE]
<1> DEFINE x1 == Cache ++ Geometry("proc")
           x2 == x1 ++ Tag("proc")
           x3 == x2 ++ Assoc(1)
           x4 == x3 ++ Search(1)
           x5 == x4 ++ Ports(1, 0, 0)
           x6 == x5 ++ AllVdd("itrs")
<1>1. \A a : proc_interface_ip(a) =
             x6 ++ [approx_mode |-> a, force_cache_config |-> FALSE]
  BY DEF proc_interface_ip
<1>2. /\ DOMAIN x1 = {"is_cache", "pure_cam", "pure_ram", "line_sz", "cache_sz"}
      /\ x1.is_cache = TRUE /\ x1.pure_cam = FALSE
  BY DEF ++, Cache, Geometry
<1> HIDE DEF x1
<1>3. /\ DOMAIN x2 = DOMAIN x1 \cup {"tag_w"}
      /\ x2.is_cache = TRUE /\ x2.pure_cam = FALSE
  BY <1>2 DEF ++, Tag
<1> HIDE DEF x2
<1>4. /\ DOMAIN x3 = DOMAIN x2 \cup {"assoc"}
      /\ x3.is_cache = TRUE /\ x3.pure_cam = FALSE
  BY <1>2, <1>3 DEF ++, Assoc
<1> HIDE DEF x3
<1>5. /\ DOMAIN x4 = DOMAIN x3 \cup {"num_search_ports"}
      /\ x4.is_cache = TRUE /\ x4.pure_cam = FALSE
      /\ x4.num_search_ports = 1
  BY <1>2, <1>3, <1>4 DEF ++, Search
<1> HIDE DEF x4
<1>6. /\ DOMAIN x5 = DOMAIN x4
                       \cup {"num_rw_ports", "num_rd_ports", "num_wr_ports"}
      /\ x5.is_cache = TRUE /\ x5.pure_cam = FALSE
      /\ x5.num_search_ports = 1 /\ x5.num_rw_ports = 1
      /\ x5.num_rd_ports = 0 /\ x5.num_wr_ports = 0
  BY <1>2, <1>3, <1>4, <1>5 DEF ++, Ports
<1> HIDE DEF x5
<1>7. /\ DOMAIN x6 = DOMAIN x5 \cup Volts
      /\ x6.is_cache = TRUE /\ x6.pure_cam = FALSE
      /\ x6.num_search_ports = 1 /\ x6.num_rw_ports = 1
      /\ x6.num_rd_ports = 0 /\ x6.num_wr_ports = 0
      /\ x6.hp_Vdd = "itrs" /\ x6.lop_Vdd = "itrs" /\ x6.lstp_Vdd = "itrs"
  BY <1>2, <1>3, <1>4, <1>5, <1>6 DEF ++, AllVdd, Volts
<1> HIDE DEF x6
<1>8. DOMAIN x6 = Fields \ {"approx_mode", "force_cache_config"}
  BY <1>2, <1>3, <1>4, <1>5, <1>6, <1>7 DEF Fields, Volts
<1> QED BY <1>1, <1>7, <1>8

\* The invariant holds in the beginning, whatever approx_mode is.
LEMMA ConstructionInit ==
    ASSUME Init
    PROVE  Construction
<1>1. cfg \in Configs /\ cfg \in ConfigType /\ pc = 1 /\ state = "running"
  BY ConfigsAssumption DEF Init
<1>2. Position
  BY <1>1, ProgramNotEmpty DEF Position
<1>3. PICK a \in ApproxInit :
         stack = <<[unit |-> cfg.root, ip |-> proc_interface_ip(a),
                    area |-> EmptyBag]>>
  BY DEF Init
<1>4. Outlines(cfg, Outline(cfg), 1, Start(cfg), Program(cfg), 1, Plain)
  BY <1>1, OutlineOf
<1>5. /\ Outline(cfg)[0].depth = 1
      /\ Outline(cfg)[0].facts \subseteq Start(cfg)
  BY <1>4 DEF Outlines
<1>6. IsSeq(stack) /\ Len(stack) = 1 /\ top.ip = proc_interface_ip(a)
  <2> DEFINE e == [unit |-> cfg.root, ip |-> proc_interface_ip(a),
                   area |-> EmptyBag]
  <2>1. e.ip = proc_interface_ip(a) OBVIOUS
  <2> HIDE DEF e
  <2>2. stack = <<e>> BY <1>3 DEF e
  <2> QED BY <2>1, <2>2, SeqOne DEF top
<1>7. Shadowed(Start(cfg), cfg, top.ip, keep)
  <2> DEFINE b == IF a = 1 THEN 0 ELSE a
             ip == proc_interface_ip(a)
             g == proc_interface_ip(b)
  <2>1. b # 1 /\ (1 \notin ApproxInit => a = b) OBVIOUS
  <2> HIDE DEF b
  <2>0. PICK x :
           /\ DOMAIN x = Fields \ {"approx_mode", "force_cache_config"}
           /\ x.is_cache = TRUE /\ x.pure_cam = FALSE
           /\ x.num_search_ports = 1 /\ x.num_rw_ports = 1
           /\ x.num_rd_ports = 0 /\ x.num_wr_ports = 0
           /\ x.hp_Vdd = "itrs" /\ x.lop_Vdd = "itrs" /\ x.lstp_Vdd = "itrs"
           /\ \A e : proc_interface_ip(e) =
                      x ++ [approx_mode |-> e, force_cache_config |-> FALSE]
    BY ProcRecord
  <2>2. Like(ip, g)
    <3>1. /\ ip = x ++ [approx_mode |-> a, force_cache_config |-> FALSE]
          /\ g = x ++ [approx_mode |-> b, force_cache_config |-> FALSE]
      BY <2>0
    <3>2. 1 \notin ApproxInit => ip = g BY <2>1
    <3> HIDE DEF ip, g
    <3>3. /\ DOMAIN ip = DOMAIN g
          /\ \A f \in DOMAIN ip \ {"approx_mode", "force_cache_config"} :
               ip[f] = g[f]
      BY <3>1 DEF ++
    <3> QED BY <3>2, <3>3 DEF Like
  <2>3. DOMAIN keep = Volts BY DEF Init, AllVdd, Volts
  <2>4. /\ Fields \subseteq DOMAIN g /\ g.is_cache = TRUE /\ g.pure_cam = FALSE
        /\ g.num_rw_ports = 1 /\ g.num_rd_ports = 0 /\ g.num_wr_ports = 0
        /\ g.num_search_ports = 1
        /\ g.approx_mode = b /\ g.force_cache_config = FALSE
        /\ At(g, "itrs")
    <3>1. g = x ++ [approx_mode |-> b, force_cache_config |-> FALSE]
      BY <2>0
    <3> DEFINE last == [approx_mode |-> b, force_cache_config |-> FALSE]
    <3>2. /\ DOMAIN last = {"approx_mode", "force_cache_config"}
          /\ last.approx_mode = b /\ last.force_cache_config = FALSE
      OBVIOUS
    <3> HIDE DEF g, last
    <3>3. DOMAIN g = Fields /\ \A f \in DOMAIN x : g[f] = x[f]
      BY <2>0, <3>1, <3>2 DEF ++, Fields, last
    <3>4. g.approx_mode = b /\ g.force_cache_config = FALSE
      BY <2>0, <3>1, <3>2 DEF ++, last
    <3>5. {"is_cache", "pure_cam", "num_search_ports", "num_rw_ports",
           "num_rd_ports", "num_wr_ports", "hp_Vdd", "lop_Vdd", "lstp_Vdd"}
            \subseteq DOMAIN x
      BY <2>0 DEF Fields, Volts
    <3> QED BY <2>0, <3>3, <3>4, <3>5 DEF At
  <2> HIDE DEF g, ip
  <2>5. Typed(g, keep)
    <3>1. g.is_cache \in BOOLEAN BY <2>4
    <3>2. /\ g.num_rw_ports \in Nat /\ g.num_rd_ports \in Nat
          /\ g.num_wr_ports \in Nat /\ g.num_search_ports \in Nat
      BY <2>4
    <3>3. Fields \subseteq DOMAIN g /\ g.pure_cam = FALSE BY <2>4
    <3> QED BY <2>3, <3>1, <3>2, <3>3 DEF Typed
  <2>6. Start(cfg) \subseteq {"exact", "itrs", "supply"}
        /\ ("supply" \in Start(cfg) => Voltage(cfg) = "itrs")
    BY DEF Start, Plain, Voltage
  <2>7. Holds(Start(cfg), cfg, g, keep)
    BY <2>1, <2>4, <2>5, <2>6 DEF Holds
  <2> QED BY <2>2, <2>7, <1>6 DEF Shadowed, ip
<1>8. Frames
  <2>1. Shadowed(Outline(cfg)[0].facts, cfg, top.ip, keep)
    BY <1>5, <1>7, ShadowWeaker
  <2> QED BY <1>1, <1>5, <1>6, <2>1 DEF Frames
<1>9. Parts
  <2>1. DOMAIN built = {} BY DEF Init
  <2>2. Made(Program(cfg), 0) = {} BY DEF Made
  <2> QED BY <1>1, <2>1, <2>2 DEF Parts
<1> QED BY <1>2, <1>8, <1>9 DEF Construction

\* What is known of the statement to be executed.
LEMMA UponStmt ==
    ASSUME Construction, state = "running"
    PROVE  /\ cfg \in Configs /\ cfg \in ConfigType
           /\ stmt = Program(cfg)[pc] /\ Programs[cfg] = Program(cfg)
           /\ pc \in 1 .. Len(Program(cfg))
           /\ Len(Program(cfg)) \in Nat
           /\ Upon(stmt, Outline(cfg)[pc - 1], Outline(cfg)[pc])
<1>1. cfg \in Configs /\ cfg \in ConfigType
  BY ConfigsAssumption DEF Construction, Position
<1>2. Programs[cfg] = Program(cfg) /\ stmt = Program(cfg)[pc]
  BY <1>1 DEF Programs, stmt
<1>3. Len(Program(cfg)) \in Nat BY <1>1, ProgramNotEmpty
<1>4. pc \in 1 .. Len(Program(cfg)) BY <1>3 DEF Construction, Position
<1>5. Outlines(cfg, Outline(cfg), 1, Start(cfg), Program(cfg), 1, Plain)
  BY <1>1, OutlineOf
<1>6. pc - 1 \in 0 .. Len(Program(cfg)) /\ pc \in 0 .. Len(Program(cfg))
  BY <1>3, <1>4
<1>7. /\ Valid(cfg, Outline(cfg)[pc - 1], stmt, Outline(cfg)[pc])
      /\ Outline(cfg)[pc - 1].depth \in Nat \ {0}
      /\ Outline(cfg)[pc].depth \in Nat \ {0}
  BY <1>2, <1>4, <1>5, <1>6 DEF Outlines
<1>8. DOMAIN built = Made(Program(cfg), pc - 1) BY DEF Construction, Parts
<1>9. WellMade(cfg, DOMAIN built, stmt)
  <2>1. Builds(cfg, {}, Program(cfg), ProgramParts(cfg)) BY <1>1, ProgramBuilds
  <2>2. WellMade(cfg, {} \cup Made(Program(cfg), pc - 1), Program(cfg)[pc])
    BY <2>1, <1>4 DEF Builds
  <2>3. {} \cup Made(Program(cfg), pc - 1) = DOMAIN built BY <1>8
  <2> QED BY <2>2, <2>3, <1>2
<1>10. Made(Program(cfg), pc) = DOMAIN built
         \cup (IF stmt.op \in Making THEN {stmt.part} ELSE {})
  <2>1. pc \in Nat \ {0} BY <1>3, <1>4
  <2> QED BY <1>2, <1>8, <2>1, MadeNext
<1> QED BY <1>1, <1>2, <1>3, <1>4, <1>7, <1>9, <1>10 DEF Upon

\* The next statement.
LEMMA PositionNext ==
    ASSUME Construction, state = "running", NextStmt
    PROVE  /\ Position'
           /\ Outline(cfg')[pc' - 1] = Outline(cfg)[pc]
           /\ Made(Program(cfg'), pc' - 1) = Made(Program(cfg), pc)
           /\ cfg' = cfg
<1>1. /\ pc \in 1 .. Len(Program(cfg)) /\ Len(Program(cfg)) \in Nat
      /\ Programs[cfg] = Program(cfg) /\ cfg \in Configs
  BY UponStmt
<1>2. /\ pc' = pc + 1 /\ cfg' = cfg
      /\ state' = IF pc = Len(Program(cfg)) THEN "done" ELSE "running"
  BY <1>1 DEF NextStmt
<1>3. pc' - 1 = pc BY <1>1, <1>2
<1>4. Position' BY <1>1, <1>2 DEF Position
<1> QED BY <1>2, <1>3, <1>4

\* What the running constructor's record is after a statement.
LEMMA Passing ==
    ASSUME Construction, state = "running", stmt.op \notin {"enter", "leave"}
    PROVE  \E h : /\ Like(IpAfter(stmt, top.ip, keep), h)
                  /\ Through(cfg, stmt, h)
                  /\ Holds(Outline(cfg)[pc].facts, cfg, h,
                           KeptAfter(stmt, top.ip, keep))
<1> DEFINE a == Outline(cfg)[pc - 1]
           b == Outline(cfg)[pc]
<1>1. Upon(stmt, a, b) BY UponStmt
<1>2. Moves(cfg, a.facts, stmt, b.facts) BY <1>1 DEF Upon, Valid
<1>3. PICK g : Like(top.ip, g) /\ Holds(a.facts, cfg, g, keep)
  BY DEF Construction, Frames, Shadowed
<1>4. DOMAIN keep = Volts /\ Fields \subseteq DOMAIN g
  BY <1>3 DEF Holds, Typed
<1> DEFINE h == IpAfter(stmt, g, keep)
<1>5. /\ Like(IpAfter(stmt, top.ip, keep), h)
      /\ KeptAfter(stmt, top.ip, keep) = KeptAfter(stmt, g, keep)
  BY <1>3, <1>4, LikeAfter
<1>6. Through(cfg, stmt, h) /\ Holds(b.facts, cfg, h, KeptAfter(stmt, g, keep))
  BY <1>2, <1>3 DEF Moves
<1> HIDE DEF h
<1> QED BY <1>5, <1>6

\* A statement that stays in the running constructor.
LEMMA FramesStay ==
    ASSUME Construction, state = "running", NextStmt,
           stmt.op \notin {"enter", "leave"},
           NEW bag, SetTop(IpAfter(stmt, top.ip, keep), bag),
           keep' = KeptAfter(stmt, top.ip, keep)
    PROVE  Frames'
<1> DEFINE a == Outline(cfg)[pc - 1]
           b == Outline(cfg)[pc]
           n == Len(stack)
           ip == IpAfter(stmt, top.ip, keep)
<1>1. Upon(stmt, a, b) BY UponStmt
<1>2. b.depth = a.depth BY <1>1 DEF Upon, Valid
<1>5. PICK h : /\ Like(ip, h) /\ Through(cfg, stmt, h)
               /\ Holds(b.facts, cfg, h, keep')
  BY Passing
<1>7. IsSeq(stack) /\ n = a.depth /\ n \in Nat \ {0}
  BY <1>1 DEF Construction, Frames, Upon
<1>8. DOMAIN keep' = Volts BY <1>5 DEF Holds, Typed
<1> HIDE DEF a, b, ip
<1>9. /\ IsSeq(stack') /\ Len(stack') = n
      /\ top'.ip = ip
      /\ \A k \in 1 .. n - 1 : stack'[k] = stack[k]
  <2>1. PICK X : stack \in Seq(X) BY <1>7 DEF IsSeq
  <2> DEFINE e == [unit |-> top.unit, ip |-> ip, area |-> bag]
  <2>2. e.ip = ip OBVIOUS
  <2>3. stack' = [stack EXCEPT ![n] = e] BY DEF SetTop, ip
  <2> HIDE DEF e
  <2>4. /\ stack' \in Seq(X \cup {e}) /\ Len(stack') = n
        /\ stack'[n] = e
        /\ \A k \in 1 .. n - 1 : stack'[k] = stack[k]
    BY <2>1, <2>3, <1>7
  <2> QED BY <2>2, <2>4 DEF IsSeq, top
<1>10. Frames'
  <2>1. Outline(cfg')[pc' - 1] = b /\ cfg' = cfg BY PositionNext DEF b
  <2>2. Shadowed(b.facts, cfg, ip, keep') BY <1>5 DEF Shadowed
  <2>3. ASSUME NEW k \in 1 .. n - 1
        PROVE  Shadowed(Plain, cfg, stack'[k].ip, keep')
    <3>1. Shadowed(Plain, cfg, stack[k].ip, keep)
      BY DEF Construction, Frames, n
    <3> QED BY <3>1, <1>8, <1>9, PlainShadow
  <2>4. Len(stack') = b.depth BY <1>2, <1>7, <1>9
  <2> HIDE DEF n
  <2> QED BY <1>9, <2>1, <2>2, <2>3, <2>4 DEF Frames
<1> QED BY <1>10

\* A statement that makes no part.
LEMMA PartsStay ==
    ASSUME Construction, state = "running", NextStmt, stmt.op \notin Making,
           built' = built
    PROVE  Parts'
<1>1. Upon(stmt, Outline(cfg)[pc - 1], Outline(cfg)[pc]) BY UponStmt
<1>2. Made(Program(cfg), pc) = DOMAIN built BY <1>1 DEF Upon
<1> QED BY <1>2, PositionNext DEF Construction, Parts

\* A statement that makes one.
LEMMA PartsGrow ==
    ASSUME Construction, state = "running", NextStmt, stmt.op \in Making,
           NEW b, PartRight(cfg, stmt.part, b),
           built' = Entry(stmt.part, b) ++ built
    PROVE  Parts'
<1>1. Upon(stmt, Outline(cfg)[pc - 1], Outline(cfg)[pc]) BY UponStmt
<1>2. Made(Program(cfg), pc) = DOMAIN built \cup {stmt.part}
  BY <1>1 DEF Upon
<1>3. \A q \in DOMAIN built : PartRight(cfg, q, built[q])
  BY DEF Construction, Parts
<1>4. /\ DOMAIN (Entry(stmt.part, b) ++ built) = DOMAIN built \cup {stmt.part}
      /\ \A q \in DOMAIN built \cup {stmt.part} :
           PartRight(cfg, q, (Entry(stmt.part, b) ++ built)[q])
  BY <1>3, AddPart
<1> QED BY <1>2, <1>4, PositionNext DEF Parts

\* An array that CACTI accepts is right.
LEMMA ArrayPart ==
    ASSUME Construction, state = "running", stmt.op = "array",
           NEW ip, ip = IpAfter(stmt, top.ip, keep)
    PROVE  /\ error_checking(ip) \/ NoPorts(cfg)
           /\ error_checking(ip) =>
                PartRight(cfg, stmt.part,
                          [op |-> "array", ip |-> checked(ip), unset |-> {}])
<1>1. Upon(stmt, Outline(cfg)[pc - 1], Outline(cfg)[pc]) BY UponStmt
<1>2. Kind(stmt.part) = "array" BY <1>1 DEF Upon, WellMade, Making
<1>3. PICK g : /\ Like(ip, g) /\ Through(cfg, stmt, g)
               /\ Fields \subseteq DOMAIN g
  BY Passing DEF Holds, Typed
<1>4. Fields \subseteq DOMAIN ip BY <1>3 DEF Like
<1>5. AcceptedArray(cfg, stmt.part, g) /\ Powered(cfg, stmt.part, g)
  BY <1>3 DEF Through
<1>6. error_checking(ip) \/ NoPorts(cfg)
  BY <1>3, <1>5, LikeReads DEF AcceptedArray
<1>7. Powered(cfg, stmt.part, ip) BY <1>3, <1>5, LikeReads
<1>8. GeometryRight(cfg, stmt.part, ip)
  <2>1. GeometryRight(cfg, stmt.part, g)
    BY <1>5 DEF AcceptedArray, GoodArray, GeometryRight
  <2> QED BY <2>1, <1>3, LikeReads
<1>9. 1 \notin ApproxInit => ApproxRight(cfg, stmt.part, ip)
  BY <1>3, <1>5 DEF AcceptedArray, GoodArray, ApproxRight, Like
<1> DEFINE b == [op |-> "array", ip |-> checked(ip), unset |-> {}]
<1>10. b.op = "array" /\ b.ip = checked(ip) /\ b.unset = {} OBVIOUS
<1> HIDE DEF b
<1>11. ASSUME error_checking(ip) PROVE ~Portless(cfg, stmt.part)
  <2>1. Portless(cfg, stmt.part) => Refused(stmt.set)
    BY <1>1 DEF Upon, WellMade
  <2>2. ip = stmt.set ++ top.ip BY DEF IpAfter
  <2> QED BY <1>11, <2>1, <2>2 DEF Refused
<1>12. error_checking(ip) => PartRight(cfg, stmt.part, b)
  BY <1>2, <1>4, <1>7, <1>8, <1>9, <1>10, <1>11, CheckedReads DEF PartRight
<1> QED BY <1>6, <1>12 DEF b

\* NewArray keeps the invariant.
LEMMA ArrayStep ==
    ASSUME Construction, NewArray
    PROVE  Construction'
<1> DEFINE ip == stmt.set ++ top.ip
           b == [op |-> "array", ip |-> checked(ip), unset |-> {}]
<1>1. /\ state = "running" /\ stmt.op = "array" /\ NextStmt
      /\ error_checking(ip)
      /\ built' = Entry(stmt.part, b) ++ built
      /\ SetTop(ip, Counted(SetToBag({stmt.part})))
      /\ keep' = keep
  BY DEF NewArray, Running
<1>2. ip = IpAfter(stmt, top.ip, keep) /\ keep = KeptAfter(stmt, top.ip, keep)
  BY <1>1 DEF IpAfter, KeptAfter
<1> HIDE DEF ip
<1>3. PartRight(cfg, stmt.part, b) BY <1>1, <1>2, ArrayPart
<1> HIDE DEF b
<1>4. stmt.op \in Making /\ stmt.op \notin {"enter", "leave"}
  BY <1>1 DEF Making
<1>5. Parts' BY <1>1, <1>3, <1>4, PartsGrow
<1>6. Frames' BY <1>1, <1>2, <1>4, FramesStay
<1>7. Position' BY <1>1, PositionNext
<1> QED BY <1>5, <1>6, <1>7 DEF Construction

\* RefuseArray keeps the invariant: the configuration asks for it.
LEMMA RefuseStep ==
    ASSUME Construction, RefuseArray
    PROVE  Construction'
<1> DEFINE ip == stmt.set ++ top.ip
<1>1. /\ state = "running" /\ stmt.op = "array" /\ ~error_checking(ip)
      /\ state' = "exit" /\ cfg' = cfg /\ pc' = pc /\ stack' = stack
      /\ keep' = keep /\ built' = built
  BY DEF RefuseArray, Running
<1>2. ip = IpAfter(stmt, top.ip, keep) BY <1>1 DEF IpAfter
<1> HIDE DEF ip
<1>3. NoPorts(cfg) BY <1>1, <1>2, ArrayPart
<1>4. Position' BY <1>1, <1>3 DEF Construction, Position
<1>5. Frames' BY <1>1 DEF Construction, Frames, top
<1>6. Parts' BY <1>1 DEF Construction, Parts
<1> QED BY <1>4, <1>5, <1>6 DEF Construction

\* A part that is no array takes the running constructor's record.
LEMMA OtherPart ==
    ASSUME Construction, state = "running", stmt.op \in {"logic", "wire"},
           NEW unset, unset \subseteq Unset(cfg)
    PROVE  PartRight(cfg, stmt.part,
                     [op |-> stmt.op, ip |-> top.ip, unset |-> unset])
<1>1. Upon(stmt, Outline(cfg)[pc - 1], Outline(cfg)[pc]) BY UponStmt
<1>2. Kind(stmt.part) = stmt.op BY <1>1 DEF Upon, WellMade, Making
<1>3. IpAfter(stmt, top.ip, keep) = top.ip BY DEF IpAfter
<1>4. PICK g : /\ Like(top.ip, g) /\ Through(cfg, stmt, g)
               /\ Fields \subseteq DOMAIN g
  BY <1>3, Passing DEF Holds, Typed
<1>5. Powered(cfg, stmt.part, g) BY <1>4 DEF Through
<1>6. Powered(cfg, stmt.part, top.ip) BY <1>4, <1>5, LikeReads
<1> DEFINE b == [op |-> stmt.op, ip |-> top.ip, unset |-> unset]
<1>7. b.op = stmt.op /\ b.ip = top.ip /\ b.unset = unset OBVIOUS
<1> HIDE DEF b
<1>8. b.op # "array" BY <1>7
<1>9. PartRight(cfg, stmt.part, b) BY <1>2, <1>6, <1>7, <1>8 DEF PartRight
<1> QED BY <1>9 DEF b

\* NewLogic keeps the invariant.
LEMMA LogicStep ==
    ASSUME Construction, NewLogic
    PROVE  Construction'
<1> DEFINE b == [op |-> "logic", ip |-> top.ip, unset |-> {}]
<1>1. /\ state = "running" /\ stmt.op = "logic" /\ NextStmt
      /\ built' = Entry(stmt.part, b) ++ built
      /\ SetTop(top.ip, Counted(SetToBag({stmt.part})))
      /\ keep' = keep
  BY DEF NewLogic, Running
<1>2. /\ top.ip = IpAfter(stmt, top.ip, keep)
      /\ keep = KeptAfter(stmt, top.ip, keep)
  BY <1>1 DEF IpAfter, KeptAfter
<1>3. {} \subseteq Unset(cfg) OBVIOUS
<1>4. PartRight(cfg, stmt.part, b) BY <1>1, <1>3, OtherPart
<1> HIDE DEF b
<1>5. stmt.op \in Making /\ stmt.op \notin {"enter", "leave"}
  BY <1>1 DEF Making
<1>6. Parts' BY <1>1, <1>4, <1>5, PartsGrow
<1>7. Frames' BY <1>1, <1>2, <1>5, FramesStay
<1>8. Position' BY <1>1, PositionNext
<1> QED BY <1>6, <1>7, <1>8 DEF Construction

\* NewWire keeps the invariant.
LEMMA WireStep ==
    ASSUME Construction, NewWire
    PROVE  Construction'
<1> DEFINE unset == stmt.heights \ DOMAIN built
           b == [op |-> "wire", ip |-> top.ip, unset |-> unset]
<1>1. /\ state = "running" /\ stmt.op = "wire" /\ NextStmt
      /\ built' = Entry(stmt.part, b) ++ built
      /\ SetTop(top.ip, Counted(SetToBag({stmt.part})))
      /\ keep' = keep
  BY DEF NewWire, Running
<1>2. /\ top.ip = IpAfter(stmt, top.ip, keep)
      /\ keep = KeptAfter(stmt, top.ip, keep)
  BY <1>1 DEF IpAfter, KeptAfter
<1>3. unset \subseteq Unset(cfg)
  <2>1. Upon(stmt, Outline(cfg)[pc - 1], Outline(cfg)[pc]) BY <1>1, UponStmt
  <2>2. stmt.heights \subseteq DOMAIN built \cup Unset(cfg)
    BY <1>1, <2>1 DEF Upon, WellMade
  <2> QED BY <2>2
<1> HIDE DEF unset
<1>4. PartRight(cfg, stmt.part, b) BY <1>1, <1>3, OtherPart
<1> HIDE DEF b
<1>5. stmt.op \in Making /\ stmt.op \notin {"enter", "leave"}
  BY <1>1 DEF Making
<1>6. Parts' BY <1>1, <1>4, <1>5, PartsGrow
<1>7. Frames' BY <1>1, <1>2, <1>5, FramesStay
<1>8. Position' BY <1>1, PositionNext
<1> QED BY <1>6, <1>7, <1>8 DEF Construction

\* The statements that make nothing and stay in the running constructor.
LEMMA AsideStep ==
    ASSUME Construction, AssignFields \/ KeepVdd \/ RestoreVdd \/ CoreArea
    PROVE  Construction'
<1>1. CASE AssignFields
  <2>1. /\ state = "running" /\ stmt.op = "assign" /\ NextStmt
        /\ SetTop(stmt.set ++ top.ip, top.area)
        /\ keep' = keep /\ built' = built
    BY <1>1 DEF AssignFields, Running
  <2>2. /\ stmt.set ++ top.ip = IpAfter(stmt, top.ip, keep)
        /\ keep = KeptAfter(stmt, top.ip, keep)
    BY <2>1 DEF IpAfter, KeptAfter
  <2>3. stmt.op \notin Making /\ stmt.op \notin {"enter", "leave"}
    BY <2>1 DEF Making
  <2>4. Frames' BY <2>1, <2>2, <2>3, FramesStay
  <2> QED BY <2>1, <2>3, <2>4, PartsStay, PositionNext DEF Construction
<1>2. CASE KeepVdd
  <2>1. /\ state = "running" /\ stmt.op = "keep" /\ NextStmt
        /\ keep' = [v \in DOMAIN keep |-> top.ip[v]]
        /\ stack' = stack /\ built' = built
    BY <1>2 DEF KeepVdd, Running
  <2>2. /\ top.ip = IpAfter(stmt, top.ip, keep)
        /\ keep' = KeptAfter(stmt, top.ip, keep)
    BY <2>1 DEF IpAfter, KeptAfter
  <2>3. stmt.op \notin Making /\ stmt.op \notin {"enter", "leave"}
    BY <2>1 DEF Making
  <2>4. Frames'
    <3> DEFINE b == Outline(cfg)[pc]
    <3>1. Upon(stmt, Outline(cfg)[pc - 1], b) BY <2>1, UponStmt
    <3>2. b.depth = Outline(cfg)[pc - 1].depth
      BY <2>1, <3>1 DEF Upon, Valid
    <3>3. Shadowed(b.facts, cfg, top.ip, keep') /\ DOMAIN keep' = Volts
      <4>1. PICK h : Like(top.ip, h) /\ Holds(b.facts, cfg, h, keep')
        BY <2>1, <2>2, <2>3, Passing
      <4> QED BY <4>1 DEF Shadowed, Holds, Typed
    <3>4. Outline(cfg')[pc' - 1] = b /\ cfg' = cfg
      BY <2>1, PositionNext
    <3>5. ASSUME NEW k \in 1 .. Len(stack) - 1
          PROVE  Shadowed(Plain, cfg, stack[k].ip, keep')
      BY <3>3, PlainShadow DEF Construction, Frames
    <3> HIDE DEF b
    <3> QED BY <2>1, <3>2, <3>3, <3>4, <3>5 DEF Construction, Frames, top
  <2> QED BY <2>1, <2>3, <2>4, PartsStay, PositionNext DEF Construction
<1>3. CASE RestoreVdd
  <2>1. /\ state = "running" /\ stmt.op = "restore" /\ NextStmt
        /\ SetTop(keep ++ top.ip, top.area)
        /\ keep' = keep /\ built' = built
    BY <1>3 DEF RestoreVdd, Running
  <2>2. /\ keep ++ top.ip = IpAfter(stmt, top.ip, keep)
        /\ keep = KeptAfter(stmt, top.ip, keep)
    BY <2>1 DEF IpAfter, KeptAfter
  <2>3. stmt.op \notin Making /\ stmt.op \notin {"enter", "leave"}
    BY <2>1 DEF Making
  <2>4. Frames' BY <2>1, <2>2, <2>3, FramesStay
  <2> QED BY <2>1, <2>3, <2>4, PartsStay, PositionNext DEF Construction
<1>4. CASE CoreArea
  <2>1. PICK bag : SetTop(top.ip, bag) BY <1>4 DEF CoreArea
  <2>2. /\ state = "running" /\ stmt.op = "core_area" /\ NextStmt
        /\ keep' = keep /\ built' = built
    BY <1>4 DEF CoreArea, Running
  <2>3. /\ top.ip = IpAfter(stmt, top.ip, keep)
        /\ keep = KeptAfter(stmt, top.ip, keep)
    BY <2>2 DEF IpAfter, KeptAfter
  <2>4. stmt.op \notin Making /\ stmt.op \notin {"enter", "leave"}
    BY <2>2 DEF Making
  <2>5. Frames' BY <2>1, <2>2, <2>3, <2>4, FramesStay
  <2> QED BY <2>2, <2>4, <2>5, PartsStay, PositionNext DEF Construction
<1> QED BY <1>1, <1>2, <1>3, <1>4

\* EnterUnit keeps the invariant.
LEMMA EnterStep ==
    ASSUME Construction, EnterUnit
    PROVE  Construction'
<1> DEFINE a == Outline(cfg)[pc - 1]
           b == Outline(cfg)[pc]
           n == Len(stack)
           e == [unit |-> stmt.unit, ip |-> top.ip, area |-> EmptyBag]
<1>1. /\ state = "running" /\ stmt.op = "enter" /\ NextStmt
      /\ stack' = Append(stack, e) /\ keep' = keep /\ built' = built
  BY DEF EnterUnit, Running
<1>2. Upon(stmt, a, b) BY <1>1, UponStmt
<1>3. /\ b.depth = a.depth + 1
      /\ Plain \subseteq a.facts /\ b.facts \subseteq a.facts
  BY <1>1, <1>2 DEF Upon, Valid
<1>4. /\ IsSeq(stack) /\ n = a.depth /\ n \in Nat \ {0}
      /\ Shadowed(a.facts, cfg, top.ip, keep)
      /\ \A k \in 1 .. n - 1 : Shadowed(Plain, cfg, stack[k].ip, keep)
  BY <1>2 DEF Construction, Frames, Upon
<1>5. e.ip = top.ip OBVIOUS
<1> HIDE DEF e
<1>6. /\ IsSeq(stack') /\ Len(stack') = n + 1
      /\ stack'[n + 1] = e
      /\ \A k \in 1 .. n : stack'[k] = stack[k]
  <2>1. PICK X : stack \in Seq(X) BY <1>4 DEF IsSeq
  <2>2. /\ stack' \in Seq(X \cup {e}) /\ Len(stack') = n + 1
        /\ stack'[n + 1] = e
        /\ \A k \in 1 .. n : stack'[k] = stack[k]
    BY <1>1, <2>1
  <2> QED BY <2>2 DEF IsSeq
<1>7. top'.ip = top.ip BY <1>5, <1>6 DEF top
<1>8. Outline(cfg')[pc' - 1] = b /\ cfg' = cfg BY <1>1, PositionNext
<1> HIDE DEF a, b
<1>9. Shadowed(b.facts, cfg, top'.ip, keep')
  BY <1>1, <1>3, <1>4, <1>7, ShadowWeaker
<1>10. ASSUME NEW k \in 1 .. n PROVE Shadowed(Plain, cfg, stack'[k].ip, keep')
  <2>1. CASE k = n
    <3>1. stack[n] = top BY DEF top
    <3>2. Shadowed(Plain, cfg, top.ip, keep) BY <1>3, <1>4, ShadowWeaker
    <3> QED BY <1>1, <1>6, <2>1, <3>1, <3>2
  <2>2. CASE k # n
    <3>1. k \in 1 .. n - 1 BY <1>4, <2>2
    <3> QED BY <1>1, <1>4, <1>6, <3>1
  <2> QED BY <2>1, <2>2
<1>11. Frames'
  <2>1. Len(stack') = b.depth BY <1>3, <1>4, <1>6
  <2>2. 1 .. Len(stack') - 1 = 1 .. n BY <1>4, <1>6
  <2> HIDE DEF n
  <2> QED BY <1>6, <1>8, <1>9, <1>10, <2>1, <2>2 DEF Frames
<1>12. stmt.op \notin Making BY <1>1 DEF Making
<1> QED BY <1>1, <1>11, <1>12, PartsStay, PositionNext DEF Construction

\* LeaveUnit keeps the invariant.
LEMMA LeaveStep ==
    ASSUME Construction, LeaveUnit
    PROVE  Construction'
<1> DEFINE a == Outline(cfg)[pc - 1]
           b == Outline(cfg)[pc]
           n == Len(stack)
           creator == stack[n - 1]
           bag == IF stmt.counted THEN creator.area (+) top.area
                  ELSE creator.area
           e == [unit |-> creator.unit, ip |-> creator.ip, area |-> bag]
<1>1. /\ state = "running" /\ stmt.op = "leave" /\ NextStmt
      /\ stack' = Append(SubSeq(stack, 1, n - 2), e)
      /\ keep' = keep /\ built' = built
  BY DEF LeaveUnit, Running
<1>2. Upon(stmt, a, b) BY <1>1, UponStmt
<1>3. /\ b.depth = a.depth - 1 /\ b.facts \subseteq Plain
      /\ a.depth \in Nat \ {0} /\ b.depth \in Nat \ {0}
  BY <1>1, <1>2 DEF Upon, Valid
<1>4. /\ IsSeq(stack) /\ n = a.depth
      /\ \A k \in 1 .. n - 1 : Shadowed(Plain, cfg, stack[k].ip, keep)
  BY DEF Construction, Frames
<1>5. n \in Nat /\ n >= 2 BY <1>3, <1>4
<1>6. e.ip = stack[n - 1].ip OBVIOUS
<1> HIDE DEF e
<1>7. /\ IsSeq(stack') /\ Len(stack') = n - 1
      /\ stack'[n - 1] = e
      /\ \A k \in 1 .. n - 2 : stack'[k] = stack[k]
  <2>1. PICK X : stack \in Seq(X) BY <1>4 DEF IsSeq
  <2> DEFINE s == SubSeq(stack, 1, n - 2)
  <2>2. /\ s \in Seq(X) /\ Len(s) = n - 2
        /\ \A k \in 1 .. n - 2 : s[k] = stack[k]
    <3> DEFINE m == n - 2
    <3>1. m \in Nat /\ m \in 1 - 1 .. n /\ 1 \in 1 .. n + 1 BY <1>5
    <3> HIDE DEF m
    <3>2. /\ SubSeq(stack, 1, m) \in Seq(X)
          /\ Len(SubSeq(stack, 1, m)) = m
          /\ \A k \in 1 .. m : SubSeq(stack, 1, m)[k] = stack[k]
      BY <2>1, <3>1, SubSeqProperties
    <3> QED BY <3>2 DEF m
  <2>3. stack' = Append(s, e) BY <1>1
  <2> HIDE DEF s
  <2>4. /\ stack' \in Seq(X \cup {e}) /\ Len(stack') = n - 2 + 1
        /\ stack'[n - 2 + 1] = e
        /\ \A k \in 1 .. n - 2 : stack'[k] = s[k]
    BY <1>5, <2>2, <2>3
  <2>5. n - 2 + 1 = n - 1 BY <1>5
  <2> QED BY <2>2, <2>4, <2>5 DEF IsSeq
<1>8. top'.ip = stack[n - 1].ip BY <1>6, <1>7 DEF top
<1>9. Outline(cfg')[pc' - 1] = b /\ cfg' = cfg BY <1>1, PositionNext
<1> HIDE DEF a, b
<1>10. Shadowed(b.facts, cfg, top'.ip, keep')
  <2>1. n - 1 \in 1 .. n - 1 BY <1>5
  <2>2. Shadowed(Plain, cfg, stack[n - 1].ip, keep) BY <1>4, <2>1
  <2> QED BY <1>1, <1>3, <1>8, <2>2, ShadowWeaker
<1>11. ASSUME NEW k \in 1 .. n - 2
       PROVE  Shadowed(Plain, cfg, stack'[k].ip, keep')
  <2>1. k \in 1 .. n - 1 BY <1>5
  <2> QED BY <1>1, <1>4, <1>7, <2>1
<1>12. Frames'
  <2>1. Len(stack') = b.depth BY <1>3, <1>4, <1>7
  <2>2. 1 .. Len(stack') - 1 = 1 .. n - 2 BY <1>5, <1>7
  <2> HIDE DEF n
  <2> QED BY <1>7, <1>9, <1>10, <1>11, <2>1, <2>2 DEF Frames
<1>13. stmt.op \notin Making BY <1>1 DEF Making
<1> QED BY <1>1, <1>12, <1>13, PartsStay, PositionNext DEF Construction

\* Every step keeps the invariant.
LEMMA ConstructionStep ==
    ASSUME Construction, [Next]_vars
    PROVE  Construction'
<1>1. CASE NewArray BY <1>1, ArrayStep
<1>2. CASE RefuseArray BY <1>2, RefuseStep
<1>3. CASE NewLogic BY <1>3, LogicStep
<1>4. CASE NewWire BY <1>4, WireStep
<1>5. CASE AssignFields \/ KeepVdd \/ RestoreVdd \/ CoreArea
  BY <1>5, AsideStep
<1>6. CASE EnterUnit BY <1>6, EnterStep
<1>7. CASE LeaveUnit BY <1>7, LeaveStep
<1>8. CASE UNCHANGED vars
  <2>1. /\ cfg' = cfg /\ pc' = pc /\ stack' = stack /\ keep' = keep
        /\ built' = built /\ state' = state
    BY <1>8 DEF vars
  <2> QED BY <2>1 DEF Construction, Position, Frames, Parts, top
<1> QED BY <1>1, <1>2, <1>3, <1>4, <1>5, <1>6, <1>7, <1>8 DEF Next

\* The inductive invariant: at each point of every constructor the reused
\* record, the stack of constructors and the parts made so far are as the
\* outline of the program says.
THEOREM ConstructionInvariant == Spec => []Construction
<1>1. Init => Construction BY ConstructionInit
<1>2. Construction /\ [Next]_vars => Construction' BY ConstructionStep
<1> QED BY <1>1, <1>2, PTL DEF Spec

\* A finished program has made all its parts.
LEMMA DoneBuilt ==
    ASSUME Construction, state = "done"
    PROVE  DOMAIN built = ProgramParts(cfg)
<1>1. cfg \in ConfigType
  BY ConfigsAssumption DEF Construction, Position
<1>2. Len(Program(cfg)) \in Nat BY <1>1, ProgramNotEmpty
<1>3. pc = Len(Program(cfg)) + 1
  BY <1>2 DEF Construction, Position
<1>4. pc - 1 = Len(Program(cfg)) BY <1>2, <1>3
<1>5. Made(Program(cfg), Len(Program(cfg))) = ProgramParts(cfg)
  BY <1>1, ProgramBuilds DEF Builds
<1> QED BY <1>4, <1>5 DEF Construction, Parts

\* A configuration without ports asks for an array that is left without any.
LEMMA PortlessAsked ==
    ASSUME NEW c, NoPorts(c)
    PROVE  \E p \in ProgramParts(c) : Portless(c, p) /\ Kind(p) = "array"
<1>1. ProgramParts(c) = CoreParts(c) BY DEF NoPorts, ProgramParts
<1>2. \A p \in {"icache.caches", "dcache.caches", "fp_inst_window", "iRRAT",
                "iFRAT"} : Kind(p) = "array"
  BY DEF Kind, LogicParts, WireParts
<1>3. CASE c.fetch_ports = 0
  <2>1. "icache.caches" \in CoreParts(c)
    BY DEF CoreParts, InstFetchUParts, IcacheParts
  <2> QED BY <1>1, <1>2, <1>3, <2>1 DEF Portless
<1>4. CASE c.mem_ports = 0
  <2>1. "dcache.caches" \in CoreParts(c)
    BY DEF CoreParts, LoadStoreUParts, LoadStoreUCounted
  <2> QED BY <1>1, <1>2, <1>4, <2>1 DEF Portless
<1>5. CASE c.OOO /\ c.fp_issueW = 0
  <2>1. "fp_inst_window" \in CoreParts(c)
    BY <1>5 DEF CoreParts, EXECUParts, SchedulerUParts, SchedulerUCounted
  <2> QED BY <1>1, <1>2, <1>5, <2>1 DEF Portless
<1>6. CASE c.OOO /\ c.commitW = 0 /\ c.PRF
  <2>1. "iRRAT" \in CoreParts(c)
    BY <1>6 DEF CoreParts, RenamingParts, RENAMINGUParts, RENAMINGUCounted
  <2> QED BY <1>1, <1>2, <1>6, <2>1 DEF Portless
<1>7. CASE \/ c.OOO /\ c.commitW = 0 /\ ~c.PRF /\ c.RAM
           \/ c.OOO /\ c.decodeW = 0 /\ ~c.RAM
  <2>1. "iFRAT" \in CoreParts(c)
    BY <1>7 DEF CoreParts, RenamingParts, RENAMINGUParts, RENAMINGUCounted
  <2> QED BY <1>1, <1>2, <1>7, <2>1 DEF Portless
<1> QED BY <1>3, <1>4, <1>5, <1>6, <1>7 DEF NoPorts

\* The invariant implies the properties.
LEMMA WhatConstructionSays ==
    ASSUME Construction
    PROVE  /\ ExitExactlyWithoutPorts
           /\ OwnGeometry
           /\ SupplyRight
           /\ HeightsSet
           /\ 1 \notin ApproxInit => ApproxConfined
<1>1. \A p \in DOMAIN built : PartRight(cfg, p, built[p])
  BY DEF Construction, Parts
<1>2. ExitExactlyWithoutPorts
  <2>1. state = "exit" => NoPorts(cfg) BY DEF Construction, Position
  <2>2. ASSUME state = "done", NoPorts(cfg) PROVE FALSE
    <3>1. PICK p \in ProgramParts(cfg) :
             Portless(cfg, p) /\ Kind(p) = "array"
      BY <2>2, PortlessAsked
    <3>2. p \in DOMAIN built BY <2>2, <3>1, DoneBuilt
    <3>3. PartRight(cfg, p, built[p]) BY <1>1, <3>2
    <3> QED BY <3>1, <3>3 DEF PartRight
  <2> QED BY <2>1, <2>2 DEF ExitExactlyWithoutPorts
<1>3. OwnGeometry BY <1>1 DEF OwnGeometry, Arrays, PartRight, GeometryRight
<1>4. SupplyRight
  BY <1>1 DEF SupplyRight, PartRight, Powered, SupplyOf, Voltage
<1>5. HeightsSet BY <1>1 DEF HeightsSet, PartRight, Unset
<1>6. 1 \notin ApproxInit => ApproxConfined
  BY <1>1 DEF ApproxConfined, Arrays, PartRight, ApproxRight
<1> QED BY <1>2, <1>3, <1>4, <1>5, <1>6

\* Whatever the ports and widths of the XML, CACTI ends the program exactly
\* when they leave one of the core's arrays without ports or search ports.
THEOREM ExitExactlyWithoutPortsHolds == Spec => []ExitExactlyWithoutPorts
<1>1. Construction => ExitExactlyWithoutPorts BY WhatConstructionSays
<1> QED BY <1>1, ConstructionInvariant, PTL

\* Whatever the configuration, every array is built with its own sizes.
THEOREM OwnGeometryHolds == Spec => []OwnGeometry
<1>1. Construction => OwnGeometry BY WhatConstructionSays
<1> QED BY <1>1, ConstructionInvariant, PTL

\* Whatever the configuration, every part runs at the right voltage.
THEOREM SupplyRightHolds == Spec => []SupplyRight
<1>1. Construction => SupplyRight BY WhatConstructionSays
<1> QED BY <1>1, ConstructionInvariant, PTL

\* Whatever the configuration, the heights of the bypass wires are set, but
\* for the two core.cc reads unset.
THEOREM HeightsSetHolds == Spec => []HeightsSet
<1>1. Construction => HeightsSet BY WhatConstructionSays
<1> QED BY <1>1, ConstructionInvariant, PTL

\* Whatever the configuration, only data caches are approximate, provided that
\* the memory of the unassigned approx_mode did not hold 1.
THEOREM ApproxConfinedHolds ==
    ASSUME 1 \notin ApproxInit
    PROVE  Spec => []ApproxConfined
<1>1. Construction => ApproxConfined BY WhatConstructionSays
<1> QED BY <1>1, ConstructionInvariant, PTL

-----------------------------------------------------------------------------
(* The area: what every constructor and every finished unit has counted. *)

\* Every configuration has one.
LEMMA LedgerExists ==
    ASSUME NEW c \in ConfigType
    PROVE  /\ Ledger(c, LedgerOf(c))
           /\ Summands(c) \in Nat /\ Len(Program(c)) \in Nat
           /\ c.root = "Core" => /\ Len(Program(c)) = Summands(c) + 1
                                 /\ Program(c)[Summands(c) + 1].op = "core_area"
           /\ c.root # "Core" => Len(Program(c)) = Summands(c)
<1>1. Len(Program(c)) \in Nat \ {0} BY ProgramNotEmpty
<1>2. IsSeq(Program(c)) BY OutlineOf
<1>3. CASE c.root = "Core"
  <2> DEFINE vdd == Only(c.vdd, Assign(AllVdd("own")))
             end == [op |-> "core_area"]
             s == vdd \o CoreUnits(c)
             m == Summands(c)
  <2>1. PICK U : /\ CoreCounts(c, U)
                 /\ Sums(CoreUnits(c), None, Sum(<<>>, {}, U))
    BY CoreUnitsSum
  <2>2. Sums(vdd, None, None) /\ IsSeq(vdd)
    <3>1. Fills(c, {}, vdd, {}, {})
      <4>1. Fills(c, {}, Assign(AllVdd("own")), {}, {}) BY FillsAside
      <4> QED BY <4>1, FillsNone DEF Only
    <3>2. {} \cap {} = {} /\ {} \cup {} = {} OBVIOUS
    <3> QED BY <3>1, <3>2, SeqNone DEF Fills, Adds, Builds, None
  <2>3. IsSeq(CoreUnits(c)) BY CoreUnitsBuild DEF Builds
  <2>4. Program(c) = s \o <<end>> BY <1>3 DEF Program
  <2>5. end.op = "core_area" OBVIOUS
  <2> HIDE DEF vdd, end
  <2>6. Sums(s, None, Sum(<<>>, {}, U)) /\ IsSeq(s)
    BY <2>1, <2>2, <2>3, SumsConcat, SeqConcat
  <2> HIDE DEF s
  <2>7. /\ Len(Program(c)) = Len(s) + 1 /\ Len(s) \in Nat
        /\ \A k \in 1 .. Len(s) : Program(c)[k] = s[k]
        /\ Program(c)[Len(s) + 1] = end
    <3>1. IsSeq(<<end>>) /\ Len(<<end>>) = 1 /\ <<end>>[1] = end BY SeqOne
    <3> DEFINE t == <<end>>
    <3> HIDE DEF t
    <3>2. /\ Len(s \o t) = Len(s) + Len(t) /\ Len(s) \in Nat
          /\ \A k \in 1 .. Len(s) : (s \o t)[k] = s[k]
          /\ \A k \in 1 .. Len(t) : (s \o t)[Len(s) + k] = t[k]
      BY <2>6, <3>1, SeqConcat DEF t
    <3>3. 1 \in 1 .. 1 OBVIOUS
    <3> QED BY <2>4, <3>1, <3>2, <3>3 DEF t
  <2>8. m = Len(s) BY <1>3, <2>7 DEF Summands
  <2>9. PICK o : /\ o[0] = None /\ o[Len(s)] = Sum(<<>>, {}, U)
                 /\ \A k \in 0 .. Len(s) : IsSeq(o[k].base)
                 /\ \A k \in 1 .. Len(s) : Grows(s[k], o[k - 1], o[k])
    BY <2>6 DEF Sums
  <2> HIDE DEF m
  <2>10. Total(c, o[m]) BY <1>3, <2>1, <2>8, <2>9 DEF Total
  <2>11. Ledger(c, o) BY <2>7, <2>8, <2>9, <2>10 DEF Ledger, m
  <2>12. Ledger(c, LedgerOf(c)) BY <2>11 DEF LedgerOf
  <2> QED BY <1>3, <2>5, <2>7, <2>8, <2>12 DEF m
<1>4. CASE c.root # "Core"
  <2> DEFINE A == SharedCacheCounted(c, c.root)
  <2>1. Program(c) = SharedCache(c, c.root) BY <1>4 DEF Program
  <2>2. Fills(c, {}, SharedCache(c, c.root), SharedCacheParts(c, c.root), A)
    BY SharedCacheFills
  <2> HIDE DEF A
  <2>3. Sums(Program(c), None, Sum(<<>>, A, <<>>))
    <3>1. {} \cap A = {} /\ {} \cup A = A OBVIOUS
    <3> QED BY <2>1, <2>2, <3>1, SeqNone DEF Fills, Adds, None
  <2>4. Summands(c) = Len(Program(c)) BY <1>4 DEF Summands
  <2>5. \E o : Ledger(c, o)
    BY <1>4, <2>3, <2>4 DEF Sums, Ledger, Total, A
  <2>6. Ledger(c, LedgerOf(c)) BY <2>5 DEF LedgerOf
  <2> QED BY <1>1, <1>4, <2>4, <2>6
<1> QED BY <1>3, <1>4

-----------------------------------------------------------------------------
(* Bags of parts. *)

\* Copies in a bag made of a set.
LEMMA CopiesOfSet ==
    ASSUME NEW S
    PROVE  /\ Counting(SetToBag(S))
           /\ \A p : Copies(p, SetToBag(S)) = IF p \in S THEN 1 ELSE 0
<1>1. SetToBag(S) = [e \in S |-> 1] BY DEF SetToBag
<1> QED BY <1>1 DEF Counting, Copies, BagIn, BagToSet

\* Copies in the sum of two bags.
LEMMA CopiesOfSum ==
    ASSUME NEW B, NEW C, Counting(B), Counting(C)
    PROVE  /\ Counting(B (+) C)
           /\ \A p : /\ Copies(p, B (+) C) = Copies(p, B) + Copies(p, C)
                     /\ Copies(p, B (+) C) \in Nat
<1> DEFINE D == B (+) C
<1>1. D = [e \in (DOMAIN B) \cup (DOMAIN C) |->
             (IF e \in DOMAIN B THEN B[e] ELSE 0)
               + (IF e \in DOMAIN C THEN C[e] ELSE 0)]
  BY DEF (+)
<1>2. DOMAIN D = DOMAIN B \cup DOMAIN C BY <1>1
<1>3. \A e \in DOMAIN B \cup DOMAIN C :
        D[e] = (IF e \in DOMAIN B THEN B[e] ELSE 0)
               + (IF e \in DOMAIN C THEN C[e] ELSE 0)
  BY <1>1
<1> HIDE DEF D
<1>4. Counting(D) BY <1>2, <1>3 DEF Counting
<1>5. ASSUME NEW p
      PROVE  Copies(p, D) = Copies(p, B) + Copies(p, C) /\ Copies(p, D) \in Nat
  <2>1. /\ Copies(p, B) = IF p \in DOMAIN B THEN B[p] ELSE 0
        /\ Copies(p, C) = IF p \in DOMAIN C THEN C[p] ELSE 0
        /\ Copies(p, D) = IF p \in DOMAIN D THEN D[p] ELSE 0
    BY DEF Copies, BagIn, BagToSet
  <2> QED BY <1>2, <1>3, <1>4, <2>1 DEF Counting
<1> QED BY <1>4, <1>5 DEF D

\* Bags of disjoint sets add up to the bag of the union.
LEMMA BagOfUnion ==
    ASSUME NEW X, NEW Y, X \cap Y = {}
    PROVE  SetToBag(X) (+) SetToBag(Y) = SetToBag(X \cup Y)
<1>1. /\ SetToBag(X) = [e \in X |-> 1] /\ SetToBag(Y) = [e \in Y |-> 1]
      /\ SetToBag(X \cup Y) = [e \in X \cup Y |-> 1]
  BY DEF SetToBag
<1> DEFINE B == [e \in X |-> 1]
           C == [e \in Y |-> 1]
           D == [e \in X \cup Y |->
                   (IF e \in X THEN 1 ELSE 0) + (IF e \in Y THEN 1 ELSE 0)]
<1>2. B (+) C = D BY DEF (+)
<1>3. \A e \in X \cup Y :
        (IF e \in X THEN 1 ELSE 0) + (IF e \in Y THEN 1 ELSE 0) = 1
  OBVIOUS
<1>4. D = [e \in X \cup Y |-> 1] BY <1>3
<1> QED BY <1>1, <1>2, <1>4

-----------------------------------------------------------------------------
(* The areas agree with the ledger. *)

\* What the ledger says of the statement to be executed.
LEMMA UponSum ==
    ASSUME Construction, state = "running"
    PROVE  /\ Ledger(cfg, LedgerOf(cfg)) /\ Summands(cfg) \in Nat
           /\ pc \in 1 .. Summands(cfg) + 1
           /\ pc = Summands(cfg) + 1 => cfg.root = "Core" /\ stmt.op = "core_area"
           /\ pc # Summands(cfg) + 1 =>
                /\ pc \in 1 .. Summands(cfg)
                /\ Grows(stmt, LedgerOf(cfg)[pc - 1], LedgerOf(cfg)[pc])
                /\ IsSeq(LedgerOf(cfg)[pc - 1].base)
                /\ IsSeq(LedgerOf(cfg)[pc].base)
                /\ stmt.op # "core_area"
<1>1. /\ cfg \in ConfigType /\ stmt = Program(cfg)[pc]
      /\ pc \in 1 .. Len(Program(cfg))
  BY UponStmt
<1>2. /\ Ledger(cfg, LedgerOf(cfg))
      /\ Summands(cfg) \in Nat /\ Len(Program(cfg)) \in Nat
      /\ cfg.root = "Core" => /\ Len(Program(cfg)) = Summands(cfg) + 1
                              /\ Program(cfg)[Summands(cfg) + 1].op = "core_area"
      /\ cfg.root # "Core" => Len(Program(cfg)) = Summands(cfg)
  BY <1>1, LedgerExists
<1>3. pc \in 1 .. Summands(cfg) + 1 BY <1>1, <1>2
<1>4. pc = Summands(cfg) + 1 => cfg.root = "Core" /\ stmt.op = "core_area"
  BY <1>1, <1>2
<1>5. ASSUME pc # Summands(cfg) + 1
      PROVE  /\ pc \in 1 .. Summands(cfg)
             /\ Grows(stmt, LedgerOf(cfg)[pc - 1], LedgerOf(cfg)[pc])
             /\ IsSeq(LedgerOf(cfg)[pc - 1].base)
             /\ IsSeq(LedgerOf(cfg)[pc].base)
             /\ stmt.op # "core_area"
  <2>1. pc \in 1 .. Summands(cfg) BY <1>2, <1>3, <1>5
  <2>2. pc - 1 \in 0 .. Summands(cfg) /\ pc \in 0 .. Summands(cfg)
    BY <1>2, <2>1
  <2>3. Grows(stmt, LedgerOf(cfg)[pc - 1], LedgerOf(cfg)[pc])
    BY <1>1, <1>2, <2>1 DEF Ledger
  <2>4. IsSeq(LedgerOf(cfg)[pc - 1].base) /\ IsSeq(LedgerOf(cfg)[pc].base)
    BY <1>2, <2>2 DEF Ledger
  <2>5. stmt.op # "core_area" BY <2>3 DEF Grows, Making
  <2> QED BY <2>1, <2>3, <2>4, <2>5
<1> QED BY <1>2, <1>3, <1>4, <1>5

\* After a step of the program, what is left to show is the next entry.
LEMMA BookedNext ==
    ASSUME Construction, state = "running", NextStmt, stmt.op # "core_area",
           NEW b, b = LedgerOf(cfg)[pc], Booked(b)'
    PROVE  Areas'
<1>1. pc \in 1 .. Summands(cfg) /\ Summands(cfg) \in Nat
  BY UponSum
<1>2. pc' = pc + 1 /\ cfg' = cfg BY DEF NextStmt
<1>3. LedgerOf(cfg')[pc' - 1] = b /\ pc' # Summands(cfg') + 2
  BY <1>1, <1>2
<1> QED BY <1>3 DEF Areas

\* The running constructor's frame is replaced, the frames below it are not.
LEMMA BookedTop ==
    ASSUME IsSeq(stack), NEW a, IsSeq(a.base), Booked(a),
           NEW ip, NEW bag, SetTop(ip, bag), area' = area,
           NEW b, b.base = a.base, b.units = a.units, bag = SetToBag(b.top)
    PROVE  Booked(b)'
<1> DEFINE n == Len(stack)
           e == [unit |-> top.unit, ip |-> ip, area |-> bag]
<1>1. stack' = [stack EXCEPT ![n] = e] /\ e.area = bag BY DEF SetTop
<1> HIDE DEF e
<1>2. PICK X : stack \in Seq(X) BY DEF IsSeq
<1>3. Len(a.base) \in Nat /\ n = Len(a.base) + 1
  BY SeqConcat DEF Booked
<1>4. /\ Len(stack') = n /\ stack'[n] = e
      /\ \A k \in 1 .. n - 1 : stack'[k] = stack[k]
  BY <1>1, <1>2, <1>3
<1>5. top'.area = SetToBag(b.top) BY <1>1, <1>4 DEF top
<1>6. \A k \in 1 .. Len(b.base) : stack'[k].area = SetToBag(b.base[k])
  <2>1. 1 .. Len(b.base) = 1 .. n - 1 BY <1>3
  <2> QED BY <1>4, <2>1 DEF Booked
<1>7. /\ DOMAIN b.units \subseteq CoreAreas
      /\ \A u \in DOMAIN b.units :
           u \in DOMAIN area' /\ area'[u] = SetToBag(b.units[u])
  BY DEF Booked
<1> QED BY <1>3, <1>4, <1>5, <1>6, <1>7 DEF Booked

\* A part is made and counted, or not.
LEMMA MakingBooked ==
    ASSUME Construction, Areas, state = "running", NextStmt,
           stmt.op \in Making, NEW ip,
           SetTop(ip, Counted(SetToBag({stmt.part}))), area' = area
    PROVE  Areas'
<1>a. PICK a : a = LedgerOf(cfg)[pc - 1] OBVIOUS
<1>b. PICK b : b = LedgerOf(cfg)[pc] OBVIOUS
<1>c. PICK bag : bag = Counted(SetToBag({stmt.part})) OBVIOUS
<1>1. stmt.op # "core_area" BY DEF Making
<1>2. /\ pc \in 1 .. Summands(cfg) /\ Summands(cfg) \in Nat
      /\ Grows(stmt, a, b) /\ IsSeq(a.base)
  BY <1>1, <1>a, <1>b, UponSum
<1>3. Booked(a) BY <1>2, <1>a DEF Areas
<1>4. IsSeq(stack) BY DEF Construction, Frames
<1>5. /\ b.base = a.base /\ b.units = a.units
      /\ \/ stmt.counted /\ stmt.part \notin a.top
            /\ b.top = a.top \cup {stmt.part}
         \/ ~stmt.counted /\ b.top = a.top
  BY <1>2 DEF Grows, Making
<1>6. bag = SetToBag(b.top)
  <2>1. top.area = SetToBag(a.top) BY <1>3 DEF Booked
  <2>2. CASE stmt.counted
    <3>1. a.top \cap {stmt.part} = {} /\ b.top = a.top \cup {stmt.part}
      BY <1>5, <2>2
    <3>2. SetToBag(a.top) (+) SetToBag({stmt.part})
            = SetToBag(a.top \cup {stmt.part})
      BY <3>1, BagOfUnion
    <3> QED BY <1>c, <2>1, <2>2, <3>1, <3>2 DEF Counted
  <2>3. CASE ~stmt.counted BY <1>5, <1>c, <2>1, <2>3 DEF Counted
  <2> QED BY <2>2, <2>3
<1>7. SetTop(ip, bag) BY <1>c
<1>8. Booked(b)' BY <1>2, <1>3, <1>4, <1>5, <1>6, <1>7, BookedTop
<1> QED BY <1>1, <1>8, <1>b, BookedNext

\* A statement that only changes the record or the kept voltages.
LEMMA AsideBooked ==
    ASSUME Construction, Areas, state = "running", NextStmt,
           stmt.op \in {"assign", "keep", "restore"}, area' = area,
           \/ stack' = stack
           \/ \E ip : SetTop(ip, top.area)
    PROVE  Areas'
<1>a. PICK a : a = LedgerOf(cfg)[pc - 1] OBVIOUS
<1>b. PICK b : b = LedgerOf(cfg)[pc] OBVIOUS
<1>1. stmt.op # "core_area" OBVIOUS
<1>2. /\ pc \in 1 .. Summands(cfg) /\ Summands(cfg) \in Nat
      /\ Grows(stmt, a, b) /\ IsSeq(a.base)
  BY <1>1, <1>a, <1>b, UponSum
<1>3. Booked(a) BY <1>2, <1>a DEF Areas
<1>4. IsSeq(stack) BY DEF Construction, Frames
<1>5. b = a BY <1>2 DEF Grows, Making
<1>6. CASE stack' = stack
  <2>1. Booked(b)' BY <1>3, <1>5, <1>6 DEF Booked, top
  <2> QED BY <1>1, <2>1, <1>b, BookedNext
<1>7. CASE \E ip : SetTop(ip, top.area)
  <2>1. PICK ip : SetTop(ip, top.area) BY <1>7
  <2>2. top.area = SetToBag(b.top) BY <1>3, <1>5 DEF Booked
  <2>3. Booked(b)' BY <1>2, <1>3, <1>4, <1>5, <2>1, <2>2, BookedTop
  <2> QED BY <1>1, <2>3, <1>b, BookedNext
<1> QED BY <1>6, <1>7

\* EnterUnit agrees with the ledger.
LEMMA EnterBooked ==
    ASSUME Construction, Areas, EnterUnit
    PROVE  Areas'
<1>a. PICK a : a = LedgerOf(cfg)[pc - 1] OBVIOUS
<1>b. PICK b : b = LedgerOf(cfg)[pc] OBVIOUS
<1> DEFINE n == Len(stack)
           e == [unit |-> stmt.unit, ip |-> top.ip, area |-> EmptyBag]
<1>1. /\ state = "running" /\ stmt.op = "enter" /\ NextStmt
      /\ stack' = Append(stack, e) /\ area' = area /\ e.area = EmptyBag
  BY DEF EnterUnit, Running
<1>2. /\ pc \in 1 .. Summands(cfg) /\ Summands(cfg) \in Nat
      /\ Grows(stmt, a, b) /\ IsSeq(a.base)
  BY <1>1, <1>a, <1>b, UponSum
<1>3. Booked(a) BY <1>2, <1>a DEF Areas
<1>4. PICK X : stack \in Seq(X) BY DEF Construction, Frames, IsSeq
<1>5. b.base = Append(a.base, a.top) /\ b.top = {} /\ b.units = a.units
  BY <1>1, <1>2 DEF Grows, Making
<1> HIDE DEF e
<1>6. Len(a.base) \in Nat /\ n = Len(a.base) + 1
  BY <1>2, <1>3, SeqConcat DEF Booked
<1>7. /\ Len(b.base) = n /\ b.base[n] = a.top
      /\ \A k \in 1 .. n - 1 : b.base[k] = a.base[k]
  <2>1. PICK Y : a.base \in Seq(Y) BY <1>2 DEF IsSeq
  <2> QED BY <1>5, <1>6, <2>1
<1>8. /\ Len(stack') = n + 1 /\ stack'[n + 1] = e
      /\ \A k \in 1 .. n : stack'[k] = stack[k]
  BY <1>1, <1>4
<1>9. top'.area = SetToBag(b.top)
  <2>1. EmptyBag = SetToBag({}) BY DEF EmptyBag
  <2> QED BY <1>1, <1>5, <1>8, <2>1 DEF top
<1>10. ASSUME NEW k \in 1 .. n PROVE stack'[k].area = SetToBag(b.base[k])
  <2>1. CASE k = n
    <3>1. stack[n] = top BY DEF top
    <3> QED BY <1>3, <1>7, <1>8, <2>1, <3>1 DEF Booked
  <2>2. CASE k # n
    <3>1. k \in 1 .. n - 1 /\ k \in 1 .. Len(a.base) BY <1>6, <2>2
    <3> QED BY <1>3, <1>7, <1>8, <3>1 DEF Booked
  <2> QED BY <2>1, <2>2
<1>11. Booked(b)'
  <2>1. /\ DOMAIN b.units \subseteq CoreAreas
        /\ \A u \in DOMAIN b.units :
             u \in DOMAIN area' /\ area'[u] = SetToBag(b.units[u])
    BY <1>1, <1>3, <1>5 DEF Booked
  <2> HIDE DEF n
  <2> QED BY <1>7, <1>8, <1>9, <1>10, <2>1 DEF Booked
<1>12. stmt.op # "core_area" BY <1>1
<1> QED BY <1>1, <1>11, <1>12, <1>b, BookedNext

\* LeaveUnit agrees with the ledger.
LEMMA LeaveBooked ==
    ASSUME Construction, Areas, LeaveUnit
    PROVE  Areas'
<1>a. PICK a : a = LedgerOf(cfg)[pc - 1] OBVIOUS
<1>b. PICK b : b = LedgerOf(cfg)[pc] OBVIOUS
<1> DEFINE n == Len(stack)
           creator == stack[n - 1]
           bag == IF stmt.counted THEN creator.area (+) top.area
                  ELSE creator.area
           e == [unit |-> creator.unit, ip |-> creator.ip, area |-> bag]
<1>1. /\ state = "running" /\ stmt.op = "leave" /\ NextStmt
      /\ stack' = Append(SubSeq(stack, 1, n - 2), e) /\ e.area = bag
      /\ area' = Entry(stmt.unit, top.area) ++ area
  BY DEF LeaveUnit, Running
<1>2. /\ pc \in 1 .. Summands(cfg) /\ Summands(cfg) \in Nat
      /\ Grows(stmt, a, b) /\ IsSeq(a.base) /\ IsSeq(b.base)
  BY <1>1, <1>a, <1>b, UponSum
<1>3. Booked(a) BY <1>2, <1>a DEF Areas
<1>4. PICK X : stack \in Seq(X) BY DEF Construction, Frames, IsSeq
<1>5. b.units = IF stmt.unit \in CoreAreas
                THEN Entry(stmt.unit, a.top) ++ a.units ELSE a.units
  BY <1>1, <1>2 DEF Grows, Making
<1>6. PICK Y : /\ a.base = Append(b.base, Y)
               /\ \/ /\ stmt.counted /\ Y \cap a.top = {}
                     /\ b.top = Y \cup a.top
                  \/ ~stmt.counted /\ b.top = Y
  BY <1>1, <1>2 DEF Grows, Making
<1> HIDE DEF e
<1>7. /\ Len(b.base) = n - 2 /\ Len(a.base) = n - 1
      /\ n \in Nat /\ n >= 2 /\ a.base[n - 1] = Y
      /\ \A k \in 1 .. n - 2 : a.base[k] = b.base[k]
  <2>1. PICK Z : b.base \in Seq(Z) BY <1>2 DEF IsSeq
  <2> DEFINE m == Len(b.base)
  <2>2. /\ m \in Nat /\ Len(a.base) = m + 1 /\ a.base[m + 1] = Y
        /\ \A k \in 1 .. m : a.base[k] = b.base[k]
    BY <1>6, <2>1
  <2>3. n = m + 2 BY <1>3, <2>2 DEF Booked
  <2> HIDE DEF m, n
  <2>4. m = n - 2 /\ n \in Nat /\ n >= 2 /\ m + 1 = n - 1
    BY <2>2, <2>3
  <2> QED BY <2>2, <2>4 DEF m
<1>8. /\ Len(stack') = n - 1 /\ stack'[n - 1] = e
      /\ \A k \in 1 .. n - 2 : stack'[k] = stack[k]
  <2> DEFINE m == n - 2
             s == SubSeq(stack, 1, m)
  <2>1. m \in Nat /\ m \in Int /\ 1 \in Int /\ m + 1 = n - 1
    BY <1>7
  <2>2. \A i \in 1 .. m : stack[i] \in X BY <1>4, <1>7
  <2> HIDE DEF m
  <2>3. /\ s \in Seq(X) /\ Len(s) = IF 1 <= m THEN m - 1 + 1 ELSE 0
        /\ \A k \in 1 .. m - 1 + 1 : s[k] = stack[1 + k - 1]
    BY <2>1, <2>2, SubSeqProperties
  <2>4. Len(s) = m /\ \A k \in 1 .. m : s[k] = stack[k] BY <2>1, <2>3
  <2>5. stack' = Append(s, e) BY <1>1 DEF m
  <2> HIDE DEF s
  <2>6. /\ Len(stack') = m + 1 /\ stack'[m + 1] = e
        /\ \A k \in 1 .. m : stack'[k] = s[k]
    BY <2>1, <2>3, <2>4, <2>5
  <2> QED BY <2>1, <2>4, <2>6 DEF m
<1>9. top.area = SetToBag(a.top) /\ creator.area = SetToBag(Y)
  <2>1. n - 1 \in 1 .. Len(a.base) BY <1>7
  <2> QED BY <1>3, <1>7, <2>1 DEF Booked
<1>10. bag = SetToBag(b.top)
  <2>1. CASE stmt.counted
    <3>1. Y \cap a.top = {} /\ b.top = Y \cup a.top BY <1>6, <2>1
    <3>2. SetToBag(Y) (+) SetToBag(a.top) = SetToBag(Y \cup a.top)
      BY <3>1, BagOfUnion
    <3> QED BY <1>9, <2>1, <3>1, <3>2
  <2>2. CASE ~stmt.counted BY <1>6, <1>9, <2>2
  <2> QED BY <2>1, <2>2
<1> HIDE DEF bag, creator
<1>11. top'.area = SetToBag(b.top) BY <1>1, <1>8, <1>10 DEF top
<1>12. ASSUME NEW k \in 1 .. n - 2 PROVE stack'[k].area = SetToBag(b.base[k])
  <2>1. k \in 1 .. Len(a.base) BY <1>7
  <2> QED BY <1>3, <1>7, <1>8, <2>1 DEF Booked
<1>13. ASSUME NEW u \in DOMAIN b.units
       PROVE  u \in DOMAIN area' /\ area'[u] = SetToBag(b.units[u])
  <2> DEFINE E == Entry(stmt.unit, top.area)
             F == Entry(stmt.unit, a.top)
  <2>1. /\ DOMAIN E = {stmt.unit} /\ E[stmt.unit] = top.area
        /\ DOMAIN F = {stmt.unit} /\ F[stmt.unit] = a.top
    BY DEF Entry
  <2> HIDE DEF E, F
  <2>2. area' = E ++ area BY <1>1 DEF E
  <2>3. CASE stmt.unit \in CoreAreas /\ u = stmt.unit
    <3>1. b.units[u] = a.top BY <1>5, <2>1, <2>3 DEF ++, F
    <3>2. u \in DOMAIN area' /\ area'[u] = top.area
      BY <2>1, <2>2, <2>3 DEF ++
    <3> QED BY <1>9, <3>1, <3>2
  <2>4. CASE u # stmt.unit
    <3>1. u \in DOMAIN a.units /\ b.units[u] = a.units[u]
      <4>1. CASE stmt.unit \in CoreAreas
        <5>1. b.units = F ++ a.units BY <1>5, <4>1 DEF F
        <5> QED BY <1>13, <2>1, <2>4, <5>1 DEF ++
      <4>2. CASE stmt.unit \notin CoreAreas BY <1>5, <1>13, <4>2
      <4> QED BY <4>1, <4>2
    <3>2. u \in DOMAIN area /\ area[u] = SetToBag(a.units[u])
      BY <1>3, <3>1 DEF Booked
    <3>3. u \in DOMAIN area' /\ area'[u] = area[u]
      BY <2>1, <2>2, <2>4, <3>2 DEF ++
    <3> QED BY <3>1, <3>2, <3>3
  <2>5. CASE stmt.unit \notin CoreAreas /\ u = stmt.unit
    <3>1. b.units = a.units BY <1>5, <2>5
    <3> QED BY <1>3, <1>13, <2>5, <3>1 DEF Booked
  <2> QED BY <2>3, <2>4, <2>5
<1>14. Booked(b)'
  <2>1. Len(stack') = Len(b.base) + 1 BY <1>7, <1>8
  <2>2. 1 .. Len(b.base) = 1 .. n - 2 BY <1>7
  <2>3. DOMAIN b.units \subseteq CoreAreas
    <3> DEFINE F == Entry(stmt.unit, a.top)
    <3>1. DOMAIN (F ++ a.units) = DOMAIN F \cup DOMAIN a.units BY DEF ++
    <3>2. DOMAIN F = {stmt.unit} BY DEF Entry
    <3> HIDE DEF F
    <3>3. DOMAIN a.units \subseteq CoreAreas BY <1>3 DEF Booked
    <3>4. b.units = IF stmt.unit \in CoreAreas THEN F ++ a.units ELSE a.units
      BY <1>5 DEF F
    <3> QED BY <3>1, <3>2, <3>3, <3>4
  <2> HIDE DEF n
  <2> QED BY <1>11, <1>12, <1>13, <2>1, <2>2, <2>3 DEF Booked
<1>15. stmt.op # "core_area" BY <1>1
<1> QED BY <1>1, <1>14, <1>15, <1>b, BookedNext

-----------------------------------------------------------------------------
(* Every part belongs to one unit. *)

\* The parts of a configuration's units are among them.
LEMMA NamesOf ==
    ASSUME NEW c
    PROVE  /\ \A level : SharedCacheParts(c, level) \subseteq L2Names
           /\ InstFetchUParts(c) \subseteq IfuNames
           /\ LoadStoreUParts(c) \subseteq LsuNames
           /\ MemManUParts \subseteq MmuNames
           /\ EXECUParts(c) \subseteq ExuNames
           /\ RENAMINGUParts(c) \subseteq RnuNames
<1>1. ASSUME NEW level PROVE SharedCacheParts(c, level) \subseteq L2Names
  BY DEF SharedCacheParts, SharedCacheCounted, UniBuffers, L2Names
<1>2. InstFetchUParts(c) \subseteq IfuNames
  BY DEF InstFetchUParts, IcacheParts, Decoders, Tables, IfuNames
<1>3. LoadStoreUParts(c) \subseteq LsuNames
  BY DEF LoadStoreUParts, LoadStoreUCounted, DcacheBuffers, LsuNames
<1>4. MemManUParts \subseteq MmuNames BY DEF MemManUParts, MmuNames
<1>5. EXECUParts(c) \subseteq ExuNames
  <2>1. RegFUParts(c) \subseteq ExuNames BY DEF RegFUParts, ExuNames
  <2>2. SchedulerUParts(c) \subseteq ExuNames
    BY DEF SchedulerUParts, SchedulerUCounted, ExuNames
  <2>3. Units(c) \subseteq ExuNames BY DEF Units, ExuNames
  <2>4. Wires(c) \subseteq ExuNames BY DEF Wires, ExuNames
  <2> QED BY <2>1, <2>2, <2>3, <2>4 DEF EXECUParts
<1>6. RENAMINGUParts(c) \subseteq RnuNames
  BY DEF RENAMINGUParts, RENAMINGUCounted, RnuNames
<1> QED BY <1>1, <1>2, <1>3, <1>4, <1>5, <1>6

\* No part belongs to two units.
LEMMA HomeOf ==
    /\ \A p \in L2Names : Home(p) = "l2cache"
    /\ \A p \in IfuNames : Home(p) = "ifu"
    /\ \A p \in LsuNames : Home(p) = "lsu"
    /\ \A p \in MmuNames : Home(p) = "mmu"
    /\ \A p \in ExuNames : Home(p) = "exu"
    /\ \A p \in RnuNames : Home(p) = "rnu"
    /\ \A p \in {"undiffCore", "corepipe", "share of corepipe"} : Home(p) = p
<1>1. \A p \in L2Names : Home(p) = "l2cache" BY DEF Home
<1>2. \A p \in IfuNames : Home(p) = "ifu" BY DEF Home, IfuNames, L2Names
<1>3. \A p \in LsuNames : Home(p) = "lsu"
  BY DEF Home, IfuNames, L2Names, LsuNames
<1>4. \A p \in MmuNames : Home(p) = "mmu"
  BY DEF Home, IfuNames, L2Names, LsuNames, MmuNames
<1>5. \A p \in ExuNames : Home(p) = "exu"
  BY DEF Home, IfuNames, L2Names, LsuNames, MmuNames, ExuNames
<1>6. \A p \in RnuNames : Home(p) = "rnu"
  BY DEF Home, IfuNames, L2Names, LsuNames, MmuNames, ExuNames, RnuNames
<1>7. \A p \in {"undiffCore", "corepipe", "share of corepipe"} : Home(p) = p
  BY DEF Home, IfuNames, L2Names, LsuNames, MmuNames, ExuNames, RnuNames
<1> QED BY <1>1, <1>2, <1>3, <1>4, <1>5, <1>6, <1>7

\* Which parts of a unit do not count.
LEMMA CountedParts ==
    ASSUME NEW c
    PROVE  /\ \A level : /\ SharedCacheCounted(c, level)
                              \subseteq SharedCacheParts(c, level) \ Twins
                         /\ \A p \in SharedCacheParts(c, level) :
                              p \in Twins \/ p \in SharedCacheCounted(c, level)
           /\ InstFetchUParts(c) \cap Twins = {}
           /\ LoadStoreUCounted(c) \subseteq LoadStoreUParts(c) \ Twins
           /\ \A p \in LoadStoreUParts(c) :
                p \in Twins \/ p \in LoadStoreUCounted(c)
           /\ MemManUParts \cap Twins = {}
           /\ EXECUCounted(c) \subseteq EXECUParts(c) \ Twins
           /\ \A p \in EXECUParts(c) : Excused(c, p) \/ p \in EXECUCounted(c)
           /\ RENAMINGUCounted(c) \subseteq RENAMINGUParts(c) \ Twins
           /\ \A p \in RENAMINGUParts(c) :
                Kind(p) = "logic" \/ p \in RENAMINGUCounted(c)
<1>1. ASSUME NEW level
      PROVE  /\ SharedCacheCounted(c, level)
                  \subseteq SharedCacheParts(c, level) \ Twins
             /\ \A p \in SharedCacheParts(c, level) :
                  p \in Twins \/ p \in SharedCacheCounted(c, level)
  BY DEF SharedCacheParts, SharedCacheCounted, UniBuffers, Twins
<1>2. IfuNames \cap Twins = {} /\ MmuNames \cap Twins = {}
      /\ ExuNames \cap Twins = {} /\ RnuNames \cap Twins = {}
  BY DEF IfuNames, MmuNames, ExuNames, RnuNames, Twins
<1>3. /\ LoadStoreUCounted(c) \subseteq LoadStoreUParts(c) \ Twins
      /\ \A p \in LoadStoreUParts(c) : p \in Twins \/ p \in LoadStoreUCounted(c)
  BY DEF LoadStoreUParts, LoadStoreUCounted, DcacheBuffers, Twins
<1>4. EXECUCounted(c) \subseteq EXECUParts(c)
  BY DEF EXECUCounted, EXECUParts, SchedulerUParts, CountedWires
<1>5. ASSUME NEW p \in EXECUParts(c)
      PROVE  Excused(c, p) \/ p \in EXECUCounted(c)
  <2>1. CASE p \in RegFUParts(c) \cup Units(c) BY <2>1 DEF EXECUCounted
  <2>2. CASE p \in SchedulerUParts(c)
    <3>1. Kind("instruction_selection") = "logic" BY DEF Kind, LogicParts
    <3>2. p \in SchedulerUCounted(c) \/ p = "instruction_selection"
      BY <2>2 DEF SchedulerUParts
    <3> QED BY <3>1, <3>2 DEF EXECUCounted, Excused
  <2>3. CASE p \in Wires(c)
    BY <2>3 DEF EXECUCounted, CountedWires, Excused
  <2> QED BY <2>1, <2>2, <2>3 DEF EXECUParts
<1>6. /\ RENAMINGUCounted(c) \subseteq RENAMINGUParts(c)
      /\ \A p \in RENAMINGUParts(c) :
           Kind(p) = "logic" \/ p \in RENAMINGUCounted(c)
  <2>1. Kind("idcl") = "logic" /\ Kind("fdcl") = "logic"
    BY DEF Kind, LogicParts
  <2> QED BY <2>1 DEF RENAMINGUParts
<1>7. /\ InstFetchUParts(c) \cap Twins = {} /\ MemManUParts \cap Twins = {}
      /\ EXECUParts(c) \cap Twins = {} /\ RENAMINGUParts(c) \cap Twins = {}
  BY <1>2, NamesOf
<1> QED BY <1>1, <1>3, <1>4, <1>5, <1>6, <1>7

\* How often a part is in the area of a core.
LEMMA CoreCopies ==
    ASSUME NEW c \in ConfigType, NEW U, CoreCounts(c, U), NEW A,
           \A u \in DOMAIN U : u \in DOMAIN A /\ A[u] = SetToBag(U[u]),
           NEW p
    PROVE  Copies(p, CoreSum(c, Shared(c, A))) =
             In(p, PrivateCounted(c)) + In(p, InstFetchUParts(c))
               + In(p, LoadStoreUCounted(c)) + In(p, MemManUParts)
               + In(p, EXECUCounted(c)) + In(p, {"undiffCore"})
               + In(p, RenamingCounted(c))
               + Shares(c) * In(p, {"share of corepipe"})
<1> DEFINE s == SetToBag({"share of corepipe"})
           B == Shared(c, A)
           x1 == IF c.Private_L2 THEN B["l2cache"] ELSE EmptyBag
           x7 == IF c.OOO THEN B["rnu"] ELSE EmptyBag
           n(S) == In(p, S)
<1>0. DOMAIN U = UnitsOf(c) BY DEF CoreCounts
<1>1. Counting(s) /\ Copies(p, s) = n({"share of corepipe"})
  BY CopiesOfSet DEF In
<1>2. ASSUME NEW S PROVE Counting(SetToBag(S)) /\ Copies(p, SetToBag(S)) = n(S)
  BY CopiesOfSet DEF In
<1>3. \A S : n(S) \in Nat BY DEF In
<1> HIDE DEF n, s
<1>4. ASSUME NEW u \in DOMAIN U, u \in Sharing(c)
      PROVE  /\ Counting(B[u])
             /\ Copies(p, B[u]) = n(U[u]) + n({"share of corepipe"})
  <2>1. B[u] = SetToBag(U[u]) (+) s BY <1>4 DEF Shared, s
  <2>2. Counting(SetToBag(U[u])) /\ Copies(p, SetToBag(U[u])) = n(U[u])
    BY <1>2
  <2> HIDE DEF B
  <2> QED BY <1>1, <2>1, <2>2, CopiesOfSum
<1>5. ASSUME NEW u \in DOMAIN U, u \notin Sharing(c)
      PROVE  Counting(B[u]) /\ Copies(p, B[u]) = n(U[u])
  <2>1. B[u] = SetToBag(U[u]) BY <1>5 DEF Shared
  <2> HIDE DEF B
  <2> QED BY <1>2, <2>1
<1> HIDE DEF B
<1>6. Counting(EmptyBag) /\ Copies(p, EmptyBag) = 0 /\ n({}) = 0
  <2>1. EmptyBag = SetToBag({}) BY DEF EmptyBag
  <2>2. n({}) = 0 BY DEF n, In
  <2> QED BY <1>2, <2>1, <2>2
<1>7. Counting(x1) /\ Copies(p, x1) = n(PrivateCounted(c))
  <2>1. CASE c.Private_L2
    <3>1. "l2cache" \in DOMAIN U /\ U["l2cache"] = PrivateCounted(c)
      BY <2>1 DEF CoreCounts, Counts, PrivateCounted
    <3>2. "l2cache" \notin Sharing(c) BY DEF Sharing
    <3> QED BY <1>5, <2>1, <3>1, <3>2
  <2>2. CASE ~c.Private_L2 BY <1>6, <2>2 DEF PrivateCounted
  <2> QED BY <2>1, <2>2
<1>8. /\ "ifu" \in Sharing(c) /\ "lsu" \in Sharing(c) /\ "mmu" \in Sharing(c)
      /\ "exu" \in Sharing(c) /\ "undiffCore" \notin Sharing(c)
      /\ c.OOO => "rnu" \in Sharing(c)
  BY DEF Sharing
<1>9. /\ "ifu" \in DOMAIN U /\ "lsu" \in DOMAIN U /\ "mmu" \in DOMAIN U
      /\ "exu" \in DOMAIN U /\ "undiffCore" \in DOMAIN U
      /\ U["ifu"] = InstFetchUParts(c) /\ U["lsu"] = LoadStoreUCounted(c)
      /\ U["mmu"] = MemManUParts /\ U["exu"] = EXECUCounted(c)
      /\ U["undiffCore"] = {"undiffCore"}
  BY DEF CoreCounts, Counts
<1> DEFINE k == n({"share of corepipe"})
<1>10. /\ Counting(B["ifu"])
       /\ Copies(p, B["ifu"]) = n(InstFetchUParts(c)) + k
  BY <1>4, <1>8, <1>9
<1>11. /\ Counting(B["lsu"])
       /\ Copies(p, B["lsu"]) = n(LoadStoreUCounted(c)) + k
  BY <1>4, <1>8, <1>9
<1>12. Counting(B["mmu"]) /\ Copies(p, B["mmu"]) = n(MemManUParts) + k
  BY <1>4, <1>8, <1>9
<1>13. Counting(B["exu"]) /\ Copies(p, B["exu"]) = n(EXECUCounted(c)) + k
  BY <1>4, <1>8, <1>9
<1>14. /\ Counting(B["undiffCore"])
       /\ Copies(p, B["undiffCore"]) = n({"undiffCore"})
  BY <1>5, <1>8, <1>9
<1>15. /\ Counting(x7)
       /\ Copies(p, x7) = n(RenamingCounted(c)) + (Shares(c) - 4) * k
  <2>1. CASE c.OOO
    <3>1. "rnu" \in DOMAIN U /\ U["rnu"] = RenamingCounted(c)
      BY <2>1 DEF CoreCounts, Counts, RenamingCounted
    <3>2. Shares(c) = 5 BY <2>1 DEF Shares
    <3>3. Counting(B["rnu"]) /\ Copies(p, B["rnu"]) = n(U["rnu"]) + k
      BY <1>4, <1>8, <2>1, <3>1
    <3>4. x7 = B["rnu"] BY <2>1
    <3> HIDE DEF x7, k
    <3>5. k \in Nat BY <1>3 DEF k
    <3> QED BY <3>1, <3>2, <3>3, <3>4, <3>5
  <2>2. CASE ~c.OOO
    <3>1. Shares(c) = 4 /\ RenamingCounted(c) = {}
      BY <2>2 DEF Shares, RenamingCounted
    <3>2. x7 = EmptyBag BY <2>2
    <3> HIDE DEF x7, k
    <3>3. k \in Nat BY <1>3 DEF k
    <3> QED BY <1>6, <3>1, <3>2, <3>3
  <2> QED BY <2>1, <2>2
<1>16. CoreSum(c, B) = x1 (+) B["ifu"] (+) B["lsu"] (+) B["mmu"] (+) B["exu"]
                          (+) B["undiffCore"] (+) x7
  BY DEF CoreSum
<1>17. k \in Nat BY <1>3
<1> DEFINE y2 == B["ifu"]
           y3 == B["lsu"]
           y4 == B["mmu"]
           y5 == B["exu"]
           y6 == B["undiffCore"]
           z2 == x1 (+) y2
           z3 == z2 (+) y3
           z4 == z3 (+) y4
           z5 == z4 (+) y5
           z6 == z5 (+) y6
           z7 == z6 (+) x7
<1> HIDE DEF x1, x7, k, y2, y3, y4, y5, y6
<1>18. Counting(z2) /\ Copies(p, z2) = Copies(p, x1) + Copies(p, y2)
  BY <1>7, <1>10, CopiesOfSum DEF y2
<1> HIDE DEF z2
<1>19. Counting(z3) /\ Copies(p, z3) = Copies(p, z2) + Copies(p, y3)
  BY <1>18, <1>11, CopiesOfSum DEF y3
<1> HIDE DEF z3
<1>20. Counting(z4) /\ Copies(p, z4) = Copies(p, z3) + Copies(p, y4)
  BY <1>19, <1>12, CopiesOfSum DEF y4
<1> HIDE DEF z4
<1>21. Counting(z5) /\ Copies(p, z5) = Copies(p, z4) + Copies(p, y5)
  BY <1>20, <1>13, CopiesOfSum DEF y5
<1> HIDE DEF z5
<1>22. Counting(z6) /\ Copies(p, z6) = Copies(p, z5) + Copies(p, y6)
  BY <1>21, <1>14, CopiesOfSum DEF y6
<1> HIDE DEF z6
<1>23. Copies(p, z7) = Copies(p, z6) + Copies(p, x7)
  BY <1>22, <1>15, CopiesOfSum
<1>24. Copies(p, z7) =
         n(PrivateCounted(c)) + n(InstFetchUParts(c)) + n(LoadStoreUCounted(c))
           + n(MemManUParts) + n(EXECUCounted(c)) + n({"undiffCore"})
           + n(RenamingCounted(c)) + Shares(c) * k
  <2>1. Shares(c) = 4 \/ Shares(c) = 5 BY DEF Shares
  <2>2. /\ n(PrivateCounted(c)) \in Nat /\ n(InstFetchUParts(c)) \in Nat
        /\ n(LoadStoreUCounted(c)) \in Nat /\ n(MemManUParts) \in Nat
        /\ n(EXECUCounted(c)) \in Nat /\ n({"undiffCore"}) \in Nat
        /\ n(RenamingCounted(c)) \in Nat
    BY <1>3
  <2> HIDE DEF z7
  <2> QED BY <2>1, <2>2, <1>7, <1>10, <1>11, <1>12, <1>13, <1>14, <1>15, <1>17,
             <1>18, <1>19, <1>20, <1>21, <1>22, <1>23
          DEF y2, y3, y4, y5, y6
<1>25. CoreSum(c, B) = z7 BY <1>16 DEF z7, z6, z5, z4, z3, z2, y2, y3, y4, y5, y6
<1> QED BY <1>24, <1>25 DEF n, k, B

\* The area of a core counts every part as it should.
LEMMA CoreCountedOnly ==
    ASSUME NEW c \in ConfigType, c.root = "Core", NEW U, CoreCounts(c, U), NEW A,
           \A u \in DOMAIN U : u \in DOMAIN A /\ A[u] = SetToBag(U[u])
    PROVE  CountedOnly(c, CoreSum(c, Shared(c, A)))
<1> DEFINE T == CoreSum(c, Shared(c, A))
           P1 == PrivateCounted(c)
           P2 == InstFetchUParts(c)
           P3 == LoadStoreUCounted(c)
           P4 == MemManUParts
           P5 == EXECUCounted(c)
           P6 == {"undiffCore"}
           P7 == RenamingCounted(c)
           P8 == {"share of corepipe"}
<1>1. \A p : Copies(p, T) = In(p, P1) + In(p, P2) + In(p, P3) + In(p, P4)
                              + In(p, P5) + In(p, P6) + In(p, P7)
                              + Shares(c) * In(p, P8)
  BY CoreCopies
<1>2. Shares(c) \in Nat BY DEF Shares
<1>3. /\ \A p \in P1 : Home(p) = "l2cache" /\ p \notin Twins
      /\ \A p \in P2 : Home(p) = "ifu" /\ p \notin Twins
      /\ \A p \in P3 : Home(p) = "lsu" /\ p \notin Twins
      /\ \A p \in P4 : Home(p) = "mmu" /\ p \notin Twins
      /\ \A p \in P5 : Home(p) = "exu" /\ p \notin Twins
      /\ \A p \in P7 : Home(p) = "rnu" /\ p \notin Twins
  <2>1. \A p \in P1 : Home(p) = "l2cache" /\ p \notin Twins
    <3>1. SharedCacheCounted(c, "L2") \subseteq L2Names \ Twins
      BY NamesOf, CountedParts
    <3> QED BY <3>1, HomeOf DEF PrivateCounted
  <2>2. \A p \in P2 : Home(p) = "ifu" /\ p \notin Twins
    BY NamesOf, CountedParts, HomeOf
  <2>3. \A p \in P3 : Home(p) = "lsu" /\ p \notin Twins
    BY NamesOf, CountedParts, HomeOf
  <2>4. \A p \in P4 : Home(p) = "mmu" /\ p \notin Twins
    BY NamesOf, CountedParts, HomeOf
  <2>5. \A p \in P5 : Home(p) = "exu" /\ p \notin Twins
    BY NamesOf, CountedParts, HomeOf
  <2>6. \A p \in P7 : Home(p) = "rnu" /\ p \notin Twins
    <3>1. RENAMINGUCounted(c) \subseteq RnuNames \ Twins
      BY NamesOf, CountedParts
    <3> QED BY <3>1, HomeOf DEF RenamingCounted
  <2> QED BY <2>1, <2>2, <2>3, <2>4, <2>5, <2>6
<1>4. /\ \A p \in P6 : Home(p) = "undiffCore" /\ p \notin Twins
      /\ \A p \in P8 : Home(p) = "share of corepipe" /\ p \notin Twins
      /\ Home("corepipe") = "corepipe"
  BY HomeOf DEF Twins
<1> HIDE DEF T, P1, P2, P3, P4, P5, P7

\* A part of one unit is counted by no other.
<1>5. \A p : /\ Home(p) # "l2cache" => In(p, P1) = 0
             /\ Home(p) # "ifu" => In(p, P2) = 0
             /\ Home(p) # "lsu" => In(p, P3) = 0
             /\ Home(p) # "mmu" => In(p, P4) = 0
             /\ Home(p) # "exu" => In(p, P5) = 0
             /\ Home(p) # "undiffCore" => In(p, P6) = 0
             /\ Home(p) # "rnu" => In(p, P7) = 0
             /\ Home(p) # "share of corepipe" => In(p, P8) = 0
  BY <1>3, <1>4 DEF In
<1> HIDE DEF P6, P8
<1>6. ASSUME NEW p \in Twins PROVE Copies(p, T) = 0
  <2>1. /\ In(p, P1) = 0 /\ In(p, P2) = 0 /\ In(p, P3) = 0 /\ In(p, P4) = 0
        /\ In(p, P5) = 0 /\ In(p, P6) = 0 /\ In(p, P7) = 0 /\ In(p, P8) = 0
    BY <1>3, <1>4 DEF In
  <2>2. Copies(p, T) = In(p, P1) + In(p, P2) + In(p, P3) + In(p, P4)
                         + In(p, P5) + In(p, P6) + In(p, P7)
                         + Shares(c) * In(p, P8)
    BY <1>1
  <2>3. Shares(c) * In(p, P8) = 0
    <3>1. Shares(c) * 0 = 0 BY <1>2
    <3>2. In(p, P8) = 0 BY <2>1
    <3> QED BY <3>1, <3>2, Zenon
  <2> QED
    <3> DEFINE s == Shares(c) * In(p, P8)
    <3>1. s = 0 BY <2>3
    <3>2. Copies(p, T) = In(p, P1) + In(p, P2) + In(p, P3) + In(p, P4)
                           + In(p, P5) + In(p, P6) + In(p, P7) + s
      BY <2>2
    <3> HIDE DEF s
    <3> QED BY <2>1, <3>1, <3>2
<1>7. \A p, S : p \in S => In(p, S) = 1 BY DEF In
<1>8. ASSUME NEW p,
             \/ p \in P1 /\ Home(p) = "l2cache"
             \/ p \in P2 /\ Home(p) = "ifu"
             \/ p \in P3 /\ Home(p) = "lsu"
             \/ p \in P4 /\ Home(p) = "mmu"
             \/ p \in P5 /\ Home(p) = "exu"
             \/ p \in P6 /\ Home(p) = "undiffCore"
             \/ p \in P7 /\ Home(p) = "rnu"
      PROVE  Copies(p, T) = 1
  <2> DEFINE h == Home(p)
  <2> HIDE DEF h
  <2>1. /\ h # "l2cache" => In(p, P1) = 0
        /\ h # "ifu" => In(p, P2) = 0
        /\ h # "lsu" => In(p, P3) = 0
        /\ h # "mmu" => In(p, P4) = 0
        /\ h # "exu" => In(p, P5) = 0
        /\ h # "undiffCore" => In(p, P6) = 0
        /\ h # "rnu" => In(p, P7) = 0
        /\ h # "share of corepipe" => In(p, P8) = 0
    BY <1>5 DEF h
  <2>2. \/ In(p, P1) = 1 /\ h = "l2cache"
        \/ In(p, P2) = 1 /\ h = "ifu"
        \/ In(p, P3) = 1 /\ h = "lsu"
        \/ In(p, P4) = 1 /\ h = "mmu"
        \/ In(p, P5) = 1 /\ h = "exu"
        \/ In(p, P6) = 1 /\ h = "undiffCore"
        \/ In(p, P7) = 1 /\ h = "rnu"
    BY <1>7, <1>8 DEF h
  <2>3. Copies(p, T) = In(p, P1) + In(p, P2) + In(p, P3) + In(p, P4)
                         + In(p, P5) + In(p, P6) + In(p, P7)
                         + Shares(c) * In(p, P8)
    BY <1>1
  <2>4. In(p, P8) = 0 BY <2>1, <2>2
  <2>5. Shares(c) * In(p, P8) = 0
    <3>1. Shares(c) * 0 = 0 BY <1>2
    <3> QED BY <3>1, <2>4, Zenon
  <2> DEFINE s == Shares(c) * In(p, P8)
  <2>7. Copies(p, T) = In(p, P1) + In(p, P2) + In(p, P3) + In(p, P4)
                         + In(p, P5) + In(p, P6) + In(p, P7) + s
    BY <2>3
  <2>8. s = 0 BY <2>5
  <2> HIDE DEF s
  <2>9. CASE h = "l2cache"
    <3>1. In(p, P1) = 1 BY <2>2, <2>9
    <3> QED BY <2>1, <2>7, <2>8, <2>9, <3>1
  <2>10. CASE h = "ifu"
    <3>1. In(p, P2) = 1 BY <2>2, <2>10
    <3> QED BY <2>1, <2>7, <2>8, <2>10, <3>1
  <2>11. CASE h = "lsu"
    <3>1. In(p, P3) = 1 BY <2>2, <2>11
    <3> QED BY <2>1, <2>7, <2>8, <2>11, <3>1
  <2>12. CASE h = "mmu"
    <3>1. In(p, P4) = 1 BY <2>2, <2>12
    <3> QED BY <2>1, <2>7, <2>8, <2>12, <3>1
  <2>13. CASE h = "exu"
    <3>1. In(p, P5) = 1 BY <2>2, <2>13
    <3> QED BY <2>1, <2>7, <2>8, <2>13, <3>1
  <2>14. CASE h = "undiffCore"
    <3>1. In(p, P6) = 1 BY <2>2, <2>14
    <3> QED BY <2>1, <2>7, <2>8, <2>14, <3>1
  <2>15. CASE h = "rnu"
    <3>1. In(p, P7) = 1 BY <2>2, <2>15
    <3> QED BY <2>1, <2>7, <2>8, <2>15, <3>1
  <2> QED BY <2>2, <2>9, <2>10, <2>11, <2>12, <2>13, <2>14, <2>15
<1>9. ASSUME NEW p \in CoreParts(c)
      PROVE  Excused(c, p) \/ Copies(p, T) = 1
  <2>1. CASE p \in PrivateParts(c)
    <3>1. c.Private_L2 /\ p \in SharedCacheParts(c, "L2")
      BY <2>1 DEF PrivateParts
    <3>2. p \in Twins \/ p \in P1 BY <3>1, CountedParts DEF P1, PrivateCounted
    <3> QED BY <3>2, <1>3, <1>8 DEF Excused
  <2>2. CASE p \in InstFetchUParts(c) BY <2>2, <1>3, <1>8 DEF P2
  <2>3. CASE p \in LoadStoreUParts(c)
    <3>1. p \in Twins \/ p \in P3 BY <2>3, CountedParts DEF P3
    <3> QED BY <3>1, <1>3, <1>8 DEF Excused
  <2>4. CASE p \in MemManUParts BY <2>4, <1>3, <1>8 DEF P4
  <2>5. CASE p \in EXECUParts(c)
    <3>1. Excused(c, p) \/ p \in P5 BY <2>5, CountedParts DEF P5
    <3> QED BY <3>1, <1>3, <1>8
  <2>6. CASE p = "undiffCore"
    <3>1. p \in P6 BY <2>6 DEF P6
    <3> QED BY <3>1, <1>4, <1>8 DEF P6
  <2>7. CASE p \in RenamingParts(c)
    <3>1. c.OOO /\ p \in RENAMINGUParts(c) BY <2>7 DEF RenamingParts
    <3>2. Kind(p) = "logic" \/ p \in P7
      BY <3>1, CountedParts DEF P7, RenamingCounted
    <3> QED BY <3>2, <1>3, <1>8 DEF Excused
  <2>8. CASE p = "corepipe"
    <3>1. Kind(p) = "logic" BY <2>8 DEF Kind, LogicParts
    <3> QED BY <3>1 DEF Excused
  <2> QED BY <2>1, <2>2, <2>3, <2>4, <2>5, <2>6, <2>7, <2>8 DEF CoreParts
<1>10. Copies("share of corepipe", T) = Shares(c)
  <2> DEFINE p == "share of corepipe"
  <2>1. Home(p) = "share of corepipe" BY HomeOf
  <2>2. In(p, P8) = 1 BY DEF In, P8
  <2>3. /\ In(p, P1) = 0 /\ In(p, P2) = 0 /\ In(p, P3) = 0 /\ In(p, P4) = 0
        /\ In(p, P5) = 0 /\ In(p, P6) = 0 /\ In(p, P7) = 0
    BY <1>5, <2>1
  <2> HIDE DEF p
  <2>4. Copies(p, T) = Shares(c) BY <1>1, <1>2, <2>2, <2>3
  <2> QED BY <2>4 DEF p
<1>11. CountedOnly(c, T)
  BY <1>6, <1>9, <1>10 DEF CountedOnly, ProgramParts, Excused
<1> QED BY <1>11 DEF T

\* So does that of a shared cache.
LEMMA CacheCountedOnly ==
    ASSUME NEW c \in ConfigType, c.root # "Core"
    PROVE  CountedOnly(c, SetToBag(SharedCacheCounted(c, c.root)))
<1> DEFINE A == SharedCacheCounted(c, c.root)
<1>1. \A p : Copies(p, SetToBag(A)) = IF p \in A THEN 1 ELSE 0 BY CopiesOfSet
<1>2. /\ A \subseteq SharedCacheParts(c, c.root) \ Twins
      /\ \A p \in SharedCacheParts(c, c.root) : p \in Twins \/ p \in A
  BY CountedParts
<1> HIDE DEF A
<1>3. CountedOnly(c, SetToBag(A))
  BY <1>1, <1>2 DEF CountedOnly, ProgramParts
<1> QED BY <1>3 DEF A

\* The areas agree with the ledger in the beginning.
LEMMA AreasInit ==
    ASSUME Init
    PROVE  Areas
<1>1. cfg \in ConfigType /\ pc = 1 BY ConfigsAssumption DEF Init
<1>2. Summands(cfg) \in Nat /\ LedgerOf(cfg)[0] = None
  BY <1>1, LedgerExists DEF Ledger
<1>3. PICK a \in ApproxInit :
         stack = <<[unit |-> cfg.root, ip |-> proc_interface_ip(a),
                    area |-> EmptyBag]>>
  BY DEF Init
<1> DEFINE e == [unit |-> cfg.root, ip |-> proc_interface_ip(a),
                 area |-> EmptyBag]
<1>4. e.area = EmptyBag OBVIOUS
<1>5. stack = <<e>> BY <1>3
<1> HIDE DEF e
<1>6. Len(stack) = 1 /\ top.area = EmptyBag BY <1>4, <1>5, SeqOne DEF top
<1>7. None.base = <<>> /\ None.top = {} /\ None.units = <<>>
  BY SumFields DEF None
<1>8. DOMAIN <<>> = {} /\ EmptyBag = SetToBag({}) BY DEF EmptyBag
<1>9. Booked(None) BY <1>6, <1>7, <1>8, SeqNone DEF Booked
<1> QED BY <1>1, <1>2, <1>9 DEF Areas

\* CoreArea adds up the units of the ledger.
LEMMA CoreAreaBooked ==
    ASSUME Construction, Areas, CoreArea
    PROVE  Areas'
<1>1. /\ state = "running" /\ stmt.op = "core_area" /\ NextStmt
      /\ area' = Shared(cfg, area)
      /\ SetTop(top.ip, CoreSum(cfg, area'))
  BY DEF CoreArea, Running, Shared, CoreSum
<1>2. /\ pc = Summands(cfg) + 1 /\ cfg.root = "Core"
      /\ Summands(cfg) \in Nat /\ Ledger(cfg, LedgerOf(cfg))
  BY <1>1, UponSum
<1>3. cfg \in ConfigType BY <1>1, UponStmt
<1>4. Booked(LedgerOf(cfg)[Summands(cfg)]) BY <1>2 DEF Areas
<1>5. PICK U : /\ CoreCounts(cfg, U)
               /\ LedgerOf(cfg)[Summands(cfg)] = Sum(<<>>, {}, U)
  BY <1>2 DEF Ledger, Total
<1> DEFINE a == Sum(<<>>, {}, U)
<1>6. a.base = <<>> /\ a.units = U BY SumFields
<1>7. Booked(a) BY <1>4, <1>5
<1> HIDE DEF a
<1>8. /\ Len(stack) = 1
      /\ \A u \in DOMAIN U : u \in DOMAIN area /\ area[u] = SetToBag(U[u])
  BY <1>6, <1>7, SeqNone DEF Booked
<1>9. CountedOnly(cfg, CoreSum(cfg, Shared(cfg, area)))
  BY <1>2, <1>3, <1>5, <1>8, CoreCountedOnly
<1>10. Len(stack') = 1 /\ stack'[1].area = CoreSum(cfg, Shared(cfg, area))
  <2> DEFINE s == CoreSum(cfg, Shared(cfg, area))
             e == [unit |-> top.unit, ip |-> top.ip, area |-> s]
  <2>1. e.area = s OBVIOUS
  <2>2. SetTop(top.ip, s) BY <1>1
  <2> HIDE DEF s
  <2>3. stack' = [stack EXCEPT ![1] = e] BY <1>8, <2>2 DEF SetTop
  <2> HIDE DEF e
  <2>4. PICK X : stack \in Seq(X) BY DEF Construction, Frames, IsSeq
  <2>5. Len(stack') = 1 /\ stack'[1] = e BY <1>8, <2>3, <2>4
  <2> QED BY <2>1, <2>5 DEF s
<1>11. pc' = Summands(cfg) + 2 /\ cfg' = cfg BY <1>1, <1>2 DEF NextStmt
<1> QED BY <1>2, <1>9, <1>10, <1>11 DEF Areas

\* Every step keeps the areas in agreement with the ledger.
LEMMA AreasStep ==
    ASSUME Construction, Areas, [Next]_vars
    PROVE  Areas'
<1>1. CASE NewArray
  <2>1. /\ state = "running" /\ stmt.op = "array" /\ NextStmt /\ area' = area
        /\ SetTop(stmt.set ++ top.ip, Counted(SetToBag({stmt.part})))
    BY <1>1 DEF NewArray, Running
  <2>2. stmt.op \in Making BY <2>1 DEF Making
  <2> QED BY <2>1, <2>2, MakingBooked
<1>2. CASE RefuseArray
  <2>1. cfg' = cfg /\ pc' = pc /\ stack' = stack /\ area' = area
    BY <1>2 DEF RefuseArray
  <2> QED BY <2>1 DEF Areas, Booked, top
<1>3. CASE NewLogic
  <2>1. /\ state = "running" /\ stmt.op = "logic" /\ NextStmt /\ area' = area
        /\ SetTop(top.ip, Counted(SetToBag({stmt.part})))
    BY <1>3 DEF NewLogic, Running
  <2>2. stmt.op \in Making BY <2>1 DEF Making
  <2> QED BY <2>1, <2>2, MakingBooked
<1>4. CASE NewWire
  <2>1. /\ state = "running" /\ stmt.op = "wire" /\ NextStmt /\ area' = area
        /\ SetTop(top.ip, Counted(SetToBag({stmt.part})))
    BY <1>4 DEF NewWire, Running
  <2>2. stmt.op \in Making BY <2>1 DEF Making
  <2> QED BY <2>1, <2>2, MakingBooked
<1>5. CASE AssignFields
  <2>1. /\ state = "running" /\ stmt.op = "assign" /\ NextStmt /\ area' = area
        /\ SetTop(stmt.set ++ top.ip, top.area)
    BY <1>5 DEF AssignFields, Running
  <2> QED BY <2>1, AsideBooked
<1>6. CASE KeepVdd
  <2>1. /\ state = "running" /\ stmt.op = "keep" /\ NextStmt /\ area' = area
        /\ stack' = stack
    BY <1>6 DEF KeepVdd, Running
  <2> QED BY <2>1, AsideBooked
<1>7. CASE RestoreVdd
  <2>1. /\ state = "running" /\ stmt.op = "restore" /\ NextStmt /\ area' = area
        /\ SetTop(keep ++ top.ip, top.area)
    BY <1>7 DEF RestoreVdd, Running
  <2> QED BY <2>1, AsideBooked
<1>8. CASE EnterUnit BY <1>8, EnterBooked
<1>9. CASE LeaveUnit BY <1>9, LeaveBooked
<1>10. CASE CoreArea BY <1>10, CoreAreaBooked
<1>11. CASE UNCHANGED vars
  <2>1. cfg' = cfg /\ pc' = pc /\ stack' = stack /\ area' = area
    BY <1>11 DEF vars
  <2> QED BY <2>1 DEF Areas, Booked, top
<1> QED BY <1>1, <1>2, <1>3, <1>4, <1>5, <1>6, <1>7, <1>8, <1>9, <1>10, <1>11
        DEF Next

\* At the end of the ledger every area is counted once.
LEMMA WhatAreasSay ==
    ASSUME Construction, Areas
    PROVE  AreaOnce
<1> SUFFICES ASSUME state = "done" PROVE AreaOnce
  BY DEF AreaOnce
<1>1. cfg \in ConfigType BY ConfigsAssumption DEF Construction, Position
<1>2. /\ Ledger(cfg, LedgerOf(cfg))
      /\ Summands(cfg) \in Nat /\ Len(Program(cfg)) \in Nat
      /\ cfg.root = "Core" => Len(Program(cfg)) = Summands(cfg) + 1
      /\ cfg.root # "Core" => Len(Program(cfg)) = Summands(cfg)
  BY <1>1, LedgerExists
<1>3. pc = Len(Program(cfg)) + 1
  BY <1>2 DEF Construction, Position
<1>4. DOMAIN built = ProgramParts(cfg)
  <2>1. pc - 1 = Len(Program(cfg)) BY <1>2, <1>3
  <2>2. Made(Program(cfg), Len(Program(cfg))) = ProgramParts(cfg)
    BY <1>1, ProgramBuilds DEF Builds
  <2> QED BY <2>1, <2>2 DEF Construction, Parts
<1>5. \A p \in DOMAIN built : built[p].op = Kind(p)
  BY DEF Construction, Parts, PartRight
<1>6. CountedOnly(cfg, stack[1].area)
  <2>1. CASE cfg.root = "Core"
    <3>1. pc = Summands(cfg) + 2 BY <1>2, <1>3, <2>1
    <3> QED BY <3>1 DEF Areas
  <2>2. CASE cfg.root # "Core"
    <3> DEFINE A == SharedCacheCounted(cfg, cfg.root)
               a == Sum(<<>>, A, <<>>)
    <3>1. pc = Summands(cfg) + 1 /\ pc - 1 = Summands(cfg)
      BY <1>2, <1>3, <2>2
    <3>2. LedgerOf(cfg)[Summands(cfg)] = a BY <1>2, <2>2 DEF Ledger, Total
    <3>3. a.base = <<>> /\ a.top = A BY SumFields
    <3>4. Booked(a) BY <1>2, <3>1, <3>2 DEF Areas
    <3>5. CountedOnly(cfg, SetToBag(A)) BY <1>1, <2>2, CacheCountedOnly
    <3> HIDE DEF a, A
    <3>6. Len(stack) = 1 /\ top.area = SetToBag(A)
      BY <3>3, <3>4, SeqNone DEF Booked
    <3> QED BY <3>5, <3>6 DEF top
  <2> QED BY <2>1, <2>2
<1> QED BY <1>4, <1>5, <1>6 DEF AreaOnce, CountedOnly

\* Whatever the configuration, when the construction is done the area of every
\* part is in the total exactly once, and the pipeline is shared out.
THEOREM AreaOnceHolds == Spec => []AreaOnce
<1>1. Init => Areas BY AreasInit
<1>2. Construction /\ Areas /\ [Next]_vars => Areas' BY AreasStep
<1>3. Construction /\ Areas => AreaOnce BY WhatAreasSay
<1> QED BY <1>1, <1>2, <1>3, ConstructionInvariant, PTL DEF Spec

=============================================================================
