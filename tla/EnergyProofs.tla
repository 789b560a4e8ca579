---------------------------- MODULE EnergyProofs ----------------------------
(***************************************************************************)
(* Theorems about the two energy passes, the printout and the destruction  *)
(* of a McPAT core or shared cache (CoreEnergy), for every configuration.  *)
(*                                                                         *)
(* First, what each piece of an energy pass uses and which accesses it     *)
(* counts (the judgement Pass of CoreInv), and the inductive invariant     *)
(* Computation; then which terms each piece adds to which sum (Keeps,      *)
(* Pays, Settles), and the inductive invariant Accounting; last, which     *)
(* objects each sum is the sum of (Tidy), the inductive invariant Billing, *)
(* and what displayEnergy prints of it.                                    *)
(***************************************************************************)
EXTENDS ConstructionProofs, FiniteSetTheorems
-----------------------------------------------------------------------------
(* The statements of the two passes of computeEnergy: which parts they      *)
(* touch, and which accesses have been counted when they are used.          *)

\* What a concatenation assigns.
LEMMA AssignedConcat ==
    ASSUME NEW s, NEW t, IsSeq(s), IsSeq(t)
    PROVE  /\ \A n \in 0 .. Len(s) : Assigned(s \o t, n) = Assigned(s, n)
           /\ \A n \in 0 .. Len(t) :
                Assigned(s \o t, Len(s) + n) = Assigned(s, Len(s)) \cup Assigned(t, n)
<1> DEFINE m == Len(s)
           u == s \o t
<1>1. /\ m \in Nat /\ Len(t) \in Nat
      /\ \A k \in 1 .. m : u[k] = s[k]
      /\ \A k \in 1 .. Len(t) : u[m + k] = t[k]
  BY SeqConcat
<1> HIDE DEF m, u
<1>2. ASSUME NEW n \in 0 .. m PROVE Assigned(u, n) = Assigned(s, n)
  <2>1. \A k \in 1 .. n : k \in 1 .. m BY <1>1
  <2> QED BY <1>1, <2>1 DEF Assigned
<1>3. ASSUME NEW n \in 0 .. Len(t)
      PROVE  Assigned(u, m + n) = Assigned(s, m) \cup Assigned(t, n)
  <2>1. ASSUME NEW p \in Assigned(u, m + n)
        PROVE  p \in Assigned(s, m) \cup Assigned(t, n)
    <3>1. PICK k \in 1 .. m + n : p \in Assigns(u[k]) BY <2>1 DEF Assigned
    <3>2. CASE k <= m
      <4>1. k \in 1 .. m BY <3>2, <1>1
      <4> QED BY <3>1, <4>1, <1>1 DEF Assigned
    <3>3. CASE ~(k <= m)
      <4>1. k - m \in 1 .. n /\ k - m \in 1 .. Len(t) /\ m + (k - m) = k
        BY <3>3, <1>1
      <4>2. u[k] = t[k - m] BY <4>1, <1>1
      <4> QED BY <3>1, <4>1, <4>2 DEF Assigned
    <3> QED BY <3>2, <3>3
  <2>2. ASSUME NEW p \in Assigned(s, m) PROVE p \in Assigned(u, m + n)
    <3>1. PICK k \in 1 .. m : p \in Assigns(s[k]) BY <2>2 DEF Assigned
    <3>2. k \in 1 .. m + n /\ u[k] = s[k] BY <1>1
    <3> QED BY <3>1, <3>2 DEF Assigned
  <2>3. ASSUME NEW p \in Assigned(t, n) PROVE p \in Assigned(u, m + n)
    <3>1. PICK k \in 1 .. n : p \in Assigns(t[k]) BY <2>3 DEF Assigned
    <3>2. m + k \in 1 .. m + n /\ u[m + k] = t[k] BY <1>1
    <3> QED BY <3>1, <3>2 DEF Assigned
  <2> QED BY <2>1, <2>2, <2>3
<1> QED BY <1>2, <1>3 DEF m, u

\* More accesses may have been counted before.
LEMMA PassMore ==
    ASSUME NEW c, NEW pass, NEW D, NEW D2, NEW s, NEW E, NEW E2,
           Pass(c, pass, D, s, E), D \subseteq D2, E2 \subseteq E
    PROVE  Pass(c, pass, D2, s, E2)
<1>1. ASSUME NEW k \in 1 .. Len(s)
      PROVE  Sound(c, pass, D2 \cup Assigned(s, k - 1), s[k])
  <2>1. Sound(c, pass, D \cup Assigned(s, k - 1), s[k]) BY DEF Pass
  <2>2. D \cup Assigned(s, k - 1) \subseteq D2 \cup Assigned(s, k - 1) OBVIOUS
  <2> QED BY <2>1, <2>2 DEF Sound
<1> QED BY <1>1 DEF Pass

\* One piece after another.
LEMMA PassConcat ==
    ASSUME NEW c, NEW pass, NEW D, NEW s, NEW E, NEW t, NEW F,
           Pass(c, pass, D, s, E), Pass(c, pass, D \cup E, t, F)
    PROVE  Pass(c, pass, D, s \o t, E \cup F)
<1> DEFINE m == Len(s)
           u == s \o t
           A == Assigned(s, m)
<1>1. IsSeq(s) /\ IsSeq(t) BY DEF Pass
<1>2. /\ IsSeq(u) /\ m \in Nat /\ Len(t) \in Nat /\ Len(u) = m + Len(t)
      /\ \A k \in 1 .. m : u[k] = s[k]
      /\ \A k \in 1 .. Len(t) : u[m + k] = t[k]
  BY <1>1, SeqConcat
<1>3. /\ \A n \in 0 .. m : Assigned(u, n) = Assigned(s, n)
      /\ \A n \in 0 .. Len(t) : Assigned(u, m + n) = A \cup Assigned(t, n)
  BY <1>1, AssignedConcat
<1>4. E \subseteq A BY DEF Pass
<1> HIDE DEF m, u, A
<1>5. E \cup F \subseteq Assigned(u, Len(u))
  <2>1. Len(t) \in 0 .. Len(t) BY <1>2
  <2>2. F \subseteq Assigned(t, Len(t)) BY DEF Pass
  <2> QED BY <1>2, <1>3, <1>4, <2>1, <2>2
<1>6. ASSUME NEW k \in 1 .. Len(u)
      PROVE  Sound(c, pass, D \cup Assigned(u, k - 1), u[k])
  <2>1. CASE k <= m
    <3>1. k \in 1 .. m /\ k - 1 \in 0 .. m BY <2>1, <1>2
    <3>2. Sound(c, pass, D \cup Assigned(s, k - 1), s[k]) BY <3>1 DEF Pass, m
    <3> QED BY <3>1, <3>2, <1>2, <1>3
  <2>2. CASE ~(k <= m)
    <3>1. PICK j \in 1 .. Len(t) : k = m + j
      <4>1. k - m \in 1 .. Len(t) /\ k = m + (k - m) BY <2>2, <1>2
      <4> QED BY <4>1
    <3>2. j - 1 \in 0 .. Len(t) /\ k - 1 = m + (j - 1) BY <3>1, <1>2
    <3>3. u[k] = t[j] /\ Assigned(u, k - 1) = A \cup Assigned(t, j - 1)
      BY <3>1, <3>2, <1>2, <1>3
    <3>4. Pass(c, pass, D \cup A, t, F) BY <1>4, PassMore
    <3>5. Sound(c, pass, (D \cup A) \cup Assigned(t, j - 1), t[j])
      BY <3>4 DEF Pass
    <3>6. (D \cup A) \cup Assigned(t, j - 1) = D \cup (A \cup Assigned(t, j - 1))
      OBVIOUS
    <3> QED BY <3>3, <3>5, <3>6
  <2> QED BY <2>1, <2>2
<1>7. Pass(c, pass, D, u, E \cup F) BY <1>2, <1>5, <1>6 DEF Pass
<1> QED BY <1>7 DEF u

\* Two stretches, neither of which needs the other.
LEMMA PassBoth ==
    ASSUME NEW c, NEW pass, NEW D, NEW s, NEW E, NEW t, NEW F,
           Pass(c, pass, D, s, E), Pass(c, pass, D, t, F)
    PROVE  Pass(c, pass, D, s \o t, E \cup F)
<1>1. Pass(c, pass, D \cup E, t, F) BY PassMore
<1> QED BY <1>1, PassConcat

\* A stretch that assigns nothing of interest after another one.
LEMMA PassThen ==
    ASSUME NEW c, NEW pass, NEW D, NEW s, NEW t,
           Pass(c, pass, D, s, {}), Pass(c, pass, D, t, {})
    PROVE  Pass(c, pass, D, s \o t, {})
<1>1. Pass(c, pass, D, s \o t, {} \cup {}) BY PassBoth
<1>2. {} \cup {} = {} OBVIOUS
<1> QED BY <1>1, <1>2

\* The accesses that the first stretch assigns are what the second one needs.
LEMMA PassAfter ==
    ASSUME NEW c, NEW pass, NEW s, NEW E, NEW t,
           Pass(c, pass, {}, s, E), Pass(c, pass, E, t, {})
    PROVE  Pass(c, pass, {}, s \o t, {}) /\ Pass(c, pass, {}, s \o t, E)
<1>1. {} \cup E = E /\ E \cup {} = E OBVIOUS
<1>2. Pass(c, pass, {} \cup E, t, {}) BY <1>1
<1>3. Pass(c, pass, {}, s \o t, E \cup {}) BY <1>2, PassConcat
<1>4. Pass(c, pass, {}, s \o t, E) BY <1>1, <1>3
<1> QED BY <1>4, PassMore

\* No statements.
LEMMA PassNone ==
    ASSUME NEW c, NEW pass, NEW D
    PROVE  Pass(c, pass, D, <<>>, {})
  BY SeqNone DEF Pass

\* A single statement.
LEMMA PassOne ==
    ASSUME NEW c, NEW pass, NEW D, NEW st, Sound(c, pass, D, st)
    PROVE  Pass(c, pass, D, <<st>>, Assigns(st))
<1> DEFINE s == <<st>>
<1>1. IsSeq(s) /\ Len(s) = 1 /\ s[1] = st BY SeqOne
<1> HIDE DEF s
<1>2. Assigned(s, 1) = Assigns(st) BY <1>1 DEF Assigned
<1>3. Assigned(s, 0) = {} BY DEF Assigned
<1>4. ASSUME NEW k \in 1 .. 1
      PROVE  Sound(c, pass, D \cup Assigned(s, k - 1), s[k])
  <2>1. k = 1 OBVIOUS
  <2>2. D \cup {} = D OBVIOUS
  <2> QED BY <1>1, <1>3, <2>1, <2>2
<1>5. Pass(c, pass, D, s, Assigns(st)) BY <1>1, <1>2, <1>4 DEF Pass
<1> QED BY <1>5 DEF s

\* A piece under a condition.
LEMMA PassOnly ==
    ASSUME NEW c, NEW pass, NEW D, NEW cond, NEW s,
           cond => Pass(c, pass, D, s, {})
    PROVE  Pass(c, pass, D, Only(cond, s), {})
<1>1. CASE cond BY <1>1 DEF Only
<1>2. CASE ~cond BY <1>2, PassNone DEF Only
<1> QED BY <1>1, <1>2

\* The kinds of statement.
LEMMA PassStats ==
    ASSUME NEW c, NEW pass, NEW D, NEW parts,
           parts \cap Spared(c, pass) = {},
           parts \ {"bypass", "homenode", "saved decode energy"}
             \subseteq ProgramParts(c)
    PROVE  Pass(c, pass, D, Stats(pass, parts), parts)
<1> DEFINE st == [op |-> "stats", pass |-> pass, parts |-> parts]
<1>1. st.op = "stats" /\ st.pass = pass /\ st.parts = parts OBVIOUS
<1>2. Stats(pass, parts) = <<st>> BY DEF Stats
<1> HIDE DEF st
<1>3. Assigns(st) = parts BY <1>1 DEF Assigns
<1>4. Sound(c, pass, D, st) BY <1>1, <1>3 DEF Sound, Touched, Ops
<1> QED BY <1>2, <1>3, <1>4, PassOne

\* The power of a part.
LEMMA PassPart ==
    ASSUME NEW c, NEW pass, NEW D, NEW name, NEW into, NEW dyn, NEW lkg,
           NEW adds,
           {d[1] : d \in dyn} \cup lkg \subseteq ProgramParts(c),
           \A d \in dyn : \/ d[2] \in D /\ d[2] # "saved decode energy"
                          \/ Borrowed(c, pass, d[2])
    PROVE  Pass(c, pass, D, Part(pass, name, into, dyn, lkg, adds), {})
<1> DEFINE st == [op |-> "part", pass |-> pass, name |-> name, into |-> into,
                  dyn |-> dyn, lkg |-> lkg, adds |-> adds]
<1>1. st.op = "part" /\ st.pass = pass /\ st.dyn = dyn /\ st.lkg = lkg OBVIOUS
<1>2. Part(pass, name, into, dyn, lkg, adds) = <<st>> BY DEF Part
<1> HIDE DEF st
<1>3. Assigns(st) = {} BY <1>1 DEF Assigns
<1>4. Touched(st) \subseteq ProgramParts(c) BY <1>1 DEF Touched
<1>5. Sound(c, pass, D, st) BY <1>1, <1>3, <1>4 DEF Sound, Ops
<1> QED BY <1>2, <1>3, <1>5, PassOne

\* An array of its own.
LEMMA PassOwn ==
    ASSUME NEW c, NEW pass, NEW D, NEW p, NEW into,
           p \in ProgramParts(c), p \in D, p # "saved decode energy"
    PROVE  Pass(c, pass, D, Own(pass, p, into), {})
<1> DEFINE dyn == {<<p, p>>}
<1>1. ASSUME NEW d \in dyn PROVE d[1] = p /\ d[2] = p
  <2>1. d = <<p, p>> OBVIOUS
  <2> QED BY <2>1
<1> HIDE DEF dyn
<1>2. Pass(c, pass, D, Part(pass, p, into, dyn, {p}, "power"), {})
  BY <1>1, PassPart
<1> QED BY <1>2 DEF Own, dyn

\* A subtotal.
LEMMA PassSub ==
    ASSUME NEW c, NEW pass, NEW D, NEW name, NEW into
    PROVE  Pass(c, pass, D, Sub(pass, name, into), {})
<1> DEFINE st == [op |-> "sub", pass |-> pass, name |-> name, into |-> into]
<1>1. st.op = "sub" /\ st.pass = pass OBVIOUS
<1>2. Sub(pass, name, into) = <<st>> BY DEF Sub
<1> HIDE DEF st
<1>3. Assigns(st) = {} BY <1>1 DEF Assigns
<1>4. Sound(c, pass, D, st) BY <1>1, <1>3 DEF Sound, Touched, Ops
<1> QED BY <1>2, <1>3, <1>4, PassOne

\* A share of the pipeline.
LEMMA PassShare ==
    ASSUME NEW c, NEW pass, NEW D, NEW unit, "corepipe" \in ProgramParts(c)
    PROVE  Pass(c, pass, D, Share(pass, unit), {})
<1> DEFINE st == [op |-> "share", pass |-> pass, name |-> unit]
<1>1. st.op = "share" /\ st.pass = pass OBVIOUS
<1>2. Share(pass, unit) = <<st>> BY DEF Share
<1> HIDE DEF st
<1>3. Assigns(st) = {} BY <1>1 DEF Assigns
<1>4. Sound(c, pass, D, st) BY <1>1, <1>3 DEF Sound, Touched, Ops
<1> QED BY <1>2, <1>3, <1>4, PassOne

\* A functional unit.
LEMMA PassFunctional ==
    ASSUME NEW c, NEW pass, NEW D, NEW fu \in {"exeu", "fp_u", "mul"},
           fu \in ProgramParts(c)
    PROVE  Pass(c, pass, D, Functional(pass, fu), {})
<1> DEFINE st == [op |-> "fu", pass |-> pass, name |-> fu]
<1>1. st.op = "fu" /\ st.pass = pass /\ st.name = fu OBVIOUS
<1>2. Functional(pass, fu) = <<st>> BY DEF Functional
<1> HIDE DEF st
<1>3. Assigns(st) = {fu} BY <1>1 DEF Assigns
<1>4. fu \notin Spared(c, pass) BY DEF Spared, Twins
<1>5. Sound(c, pass, D, st) BY <1>1, <1>3, <1>4 DEF Sound, Touched, Ops
<1>6. Pass(c, pass, D, <<st>>, Assigns(st)) BY <1>5, PassOne
<1>7. {} \subseteq Assigns(st) OBVIOUS
<1> QED BY <1>2, <1>6, <1>7, PassMore

-----------------------------------------------------------------------------
(* The units of a core. *)

\* Under one more statement the assigned accesses stay assigned.
LEMMA PassStep ==
    ASSUME NEW c, NEW pass, NEW s, NEW E, NEW t,
           Pass(c, pass, {}, s, E), Pass(c, pass, E, t, {})
    PROVE  Pass(c, pass, {}, s \o t, E)
  BY PassAfter

\* Fewer accesses need to be known afterwards.
LEMMA PassForget ==
    ASSUME NEW c, NEW pass, NEW s, NEW E, Pass(c, pass, {}, s, E)
    PROVE  Pass(c, pass, {}, s, {})
  BY PassMore

\* The parts of the units are parts of the core.
LEMMA CorePartsOf ==
    ASSUME NEW c, c.root = "Core"
    PROVE  /\ InstFetchUParts(c) \subseteq ProgramParts(c)
           /\ LoadStoreUParts(c) \subseteq ProgramParts(c)
           /\ MemManUParts \subseteq ProgramParts(c)
           /\ EXECUParts(c) \subseteq ProgramParts(c)
           /\ {"undiffCore", "corepipe"} \subseteq ProgramParts(c)
           /\ RenamingParts(c) \subseteq ProgramParts(c)
           /\ PrivateParts(c) \subseteq ProgramParts(c)
  BY DEF ProgramParts, CoreParts

\* A unit's statistics, when it sets none that a pass spares.
LEMMA PassUnitStats ==
    ASSUME NEW c, NEW pass, NEW D, NEW parts, NEW P,
           P \subseteq ProgramParts(c), parts \subseteq P \cup {"bypass"},
           parts \cap {"dcache.apcaches", "unicache.apcaches", "homenode",
                       "saved decode energy"} = {}
    PROVE  Pass(c, pass, D, Stats(pass, parts), parts)
<1>1. parts \cap Spared(c, pass) = {} BY DEF Spared, Twins
<1>2. parts \ {"bypass", "homenode", "saved decode energy"} \subseteq ProgramParts(c)
  OBVIOUS
<1> QED BY <1>1, <1>2, PassStats

\* A pass over BranchPredictor uses parts that exist and accesses that were
\* counted.
LEMMA BranchPredictorPass ==
    ASSUME NEW c, c.root = "Core", c.predictionW > 0, NEW pass
    PROVE  Pass(c, pass, {}, BranchPredictor_energy(pass), {})
<1> DEFINE E == Tables \cup {"RAS"}
           P == InstFetchUParts(c)
           s0 == Stats(pass, E)
           s1 == Own(pass, "globalBPT", "BPT")
           s2 == Own(pass, "L1_localBPT", "BPT")
           s3 == Part(pass, "L2_localBPT", "BPT",
                      {<<"L2_localBPT", "L2_localBPT">>}, {"L2_localBPT"},
                      "nothing")
           s4 == Own(pass, "chooser", "BPT")
           s5 == Own(pass, "RAS", "BPT")
<1>1. E \subseteq P BY DEF InstFetchUParts
<1>2. P \subseteq ProgramParts(c) BY CorePartsOf
<1>3. /\ "globalBPT" \in E /\ "L1_localBPT" \in E /\ "L2_localBPT" \in E
      /\ "chooser" \in E /\ "RAS" \in E /\ "saved decode energy" \notin E
      /\ E \cap {"dcache.apcaches", "unicache.apcaches", "homenode",
                 "saved decode energy"} = {}
  BY DEF Tables
<1>4. BranchPredictor_energy(pass) = s0 \o s1 \o s2 \o s3 \o s4 \o s5
  BY DEF BranchPredictor_energy
<1> HIDE DEF E, P
<1>5. Pass(c, pass, {}, s0, E) BY <1>1, <1>2, <1>3, PassUnitStats
<1>6. /\ Pass(c, pass, E, s1, {}) /\ Pass(c, pass, E, s2, {})
      /\ Pass(c, pass, E, s4, {}) /\ Pass(c, pass, E, s5, {})
  BY <1>1, <1>2, <1>3, PassOwn
<1>7. Pass(c, pass, E, s3, {})
  <2> DEFINE dyn == {<<"L2_localBPT", "L2_localBPT">>}
  <2>1. ASSUME NEW d \in dyn PROVE d[1] = "L2_localBPT" /\ d[2] = "L2_localBPT"
    <3>1. d = <<"L2_localBPT", "L2_localBPT">> OBVIOUS
    <3> QED BY <3>1
  <2> HIDE DEF dyn
  <2>2. {d[1] : d \in dyn} \cup {"L2_localBPT"} \subseteq ProgramParts(c)
    BY <1>1, <1>2, <1>3, <2>1
  <2>3. \A d \in dyn : d[2] \in E /\ d[2] # "saved decode energy"
    BY <1>3, <2>1
  <2>4. Pass(c, pass, E, Part(pass, "L2_localBPT", "BPT", dyn, {"L2_localBPT"},
                              "nothing"), {})
    BY <2>2, <2>3, PassPart
  <2> QED BY <2>4 DEF dyn
<1> HIDE DEF s0, s1, s2, s3, s4, s5
<1>8. Pass(c, pass, {}, s0 \o s1, E) BY <1>5, <1>6, PassStep
<1>9. Pass(c, pass, {}, s0 \o s1 \o s2, E) BY <1>8, <1>6, PassStep
<1>10. Pass(c, pass, {}, s0 \o s1 \o s2 \o s3, E) BY <1>9, <1>7, PassStep
<1>11. Pass(c, pass, {}, s0 \o s1 \o s2 \o s3 \o s4, E) BY <1>10, <1>6, PassStep
<1>12. Pass(c, pass, {}, s0 \o s1 \o s2 \o s3 \o s4 \o s5, E)
  BY <1>11, <1>6, PassStep
<1> QED BY <1>4, <1>12, PassForget

\* A sum over parts each of which uses its own accesses.
LEMMA PassParts ==
    ASSUME NEW c, NEW pass, NEW D, NEW name, NEW into, NEW adds, NEW parts,
           parts \subseteq D, parts \subseteq ProgramParts(c),
           "saved decode energy" \notin parts
    PROVE  Pass(c, pass, D,
                Part(pass, name, into, {<<p, p>> : p \in parts}, parts, adds), {})
<1> DEFINE dyn == {<<p, p>> : p \in parts}
<1>1. ASSUME NEW d \in dyn PROVE d[1] \in parts /\ d[2] \in parts
  <2>1. PICK p \in parts : d = <<p, p>> OBVIOUS
  <2> QED BY <2>1
<1> HIDE DEF dyn
<1>2. Pass(c, pass, D, Part(pass, name, into, dyn, parts, adds), {})
  BY <1>1, PassPart
<1> QED BY <1>2 DEF dyn

\* A pass over the decoders uses parts that exist and accesses that were
\* counted.
LEMMA DecodersPass ==
    ASSUME NEW c, c.root = "Core", NEW pass \in {"tdp", "rtp"}, NEW D,
           Decoders \subseteq D
    PROVE  /\ Pass(c, pass, D, decoders_energy(pass), {})
           /\ pass = "tdp" =>
                Pass(c, pass, D, decoders_energy(pass), {"saved decode energy"})
<1> DEFINE saved == {"saved decode energy"}
           fresh == {<<d, d>> : d \in Decoders}
           kept == {<<d, "saved decode energy">> : d \in Decoders}
<1>1. Decoders \subseteq ProgramParts(c)
  BY CorePartsOf DEF InstFetchUParts
<1>2. "saved decode energy" \notin Decoders BY DEF Decoders
<1>3. CASE pass = "tdp"
  <2> DEFINE s == Stats(pass, saved)
             t == Part(pass, "ID", "ifu", fresh, Decoders, "power")
  <2>1. Pass(c, pass, D, s, saved)
    <3>1. saved \cap Spared(c, pass) = {} BY <1>3 DEF Spared, Twins
    <3>2. saved \ {"bypass", "homenode", "saved decode energy"}
            \subseteq ProgramParts(c)
      OBVIOUS
    <3> HIDE DEF saved
    <3> QED BY <3>1, <3>2, PassStats
  <2>2. Pass(c, pass, D \cup saved, t, {})
    <3>1. Decoders \subseteq D \cup saved OBVIOUS
    <3> QED BY <1>1, <1>2, <3>1, PassParts
  <2>3. decoders_energy(pass) = s \o t BY <1>3 DEF decoders_energy
  <2> HIDE DEF s, t, saved
  <2>4. Pass(c, pass, D, s \o t, saved \cup {}) BY <2>1, <2>2, PassConcat
  <2>5. saved \cup {} = saved OBVIOUS
  <2>6. Pass(c, pass, D, decoders_energy(pass), saved) BY <2>3, <2>4, <2>5
  <2>7. Pass(c, pass, D, decoders_energy(pass), {})
    <3>1. {} \subseteq saved /\ D \subseteq D OBVIOUS
    <3> QED BY <2>6, <3>1, PassMore
  <2> QED BY <2>6, <2>7 DEF saved
<1>4. CASE pass = "rtp"
  <2> DEFINE dyn == fresh \cup kept
             none == {}
  <2>1. ASSUME NEW d \in dyn
        PROVE  d[1] \in Decoders /\ (d[2] \in Decoders \/ d[2] = "saved decode energy")
    <3>1. PICK p \in Decoders : d = <<p, p>> \/ d = <<p, "saved decode energy">>
      OBVIOUS
    <3>2. CASE d = <<p, p>> BY <3>2
    <3>3. CASE d = <<p, "saved decode energy">>
      <4>1. d[1] = p /\ d[2] = "saved decode energy" BY <3>3
      <4> QED BY <4>1
    <3> QED BY <3>1, <3>2, <3>3
  <2>2. Borrowed(c, pass, "saved decode energy") BY <1>4 DEF Borrowed
  <2>3. decoders_energy(pass) = Part(pass, "ID", "ifu", dyn, {}, "power")
    BY <1>4 DEF decoders_energy
  <2> HIDE DEF dyn
  <2>4. {d[1] : d \in dyn} \cup {} \subseteq ProgramParts(c) BY <1>1, <2>1
  <2>5. \A d \in dyn : \/ d[2] \in D /\ d[2] # "saved decode energy"
                       \/ Borrowed(c, pass, d[2])
    BY <1>2, <2>1, <2>2
  <2>6. Pass(c, pass, D, Part(pass, "ID", "ifu", dyn, {}, "power"), {})
    BY <2>4, <2>5, PassPart
  <2> QED BY <1>4, <2>3, <2>6
<1> QED BY <1>3, <1>4

\* A pass over InstFetchU uses parts that exist and accesses that were
\* counted.
LEMMA InstFetchUPass ==
    ASSUME NEW c, c.root = "Core", NEW pass \in {"tdp", "rtp"}
    PROVE  /\ Pass(c, pass, {}, InstFetchU_energy(c, pass), {})
           /\ pass = "tdp" => Pass(c, pass, {}, InstFetchU_energy(c, pass),
                                   {"saved decode energy"})
<1> DEFINE E == IcacheParts \cup {"IB"} \cup Decoders
                  \cup (IF c.predictionW > 0 THEN {"BTB"} ELSE {})
           P == InstFetchUParts(c)
           has == c.predictionW > 0
           s0 == InstFetchU_stats(c, pass)
           s1 == Only(has, BranchPredictor_energy(pass))
           s2 == Part(pass, "icache", "ifu", {<<p, p>> : p \in IcacheParts},
                      IcacheParts, "power")
           s3 == Own(pass, "IB", "ifu")
           s4 == Only(has, Own(pass, "BTB", "ifu") \o Sub(pass, "BPT", "ifu"))
           s5 == decoders_energy(pass)
           s == s0 \o s1 \o s2 \o s3 \o s4
<1>1. P \subseteq ProgramParts(c) BY CorePartsOf
<1>2. E \subseteq P BY DEF InstFetchUParts
<1>3. /\ IcacheParts \subseteq E /\ "IB" \in E /\ Decoders \subseteq E
      /\ c.predictionW > 0 => "BTB" \in E
      /\ E \cap {"dcache.apcaches", "unicache.apcaches", "homenode",
                 "saved decode energy"} = {}
  BY DEF IcacheParts, Decoders
<1>4. InstFetchU_energy(c, pass) = s \o s5 BY DEF InstFetchU_energy
<1>5. s0 = Stats(pass, E) BY DEF InstFetchU_stats
<1> HIDE DEF E, P, s0
<1>6. Pass(c, pass, {}, s0, E) BY <1>1, <1>2, <1>3, <1>5, PassUnitStats
<1>7. Pass(c, pass, E, s1, {})
  <2>1. CASE c.predictionW > 0
    <3>1. Pass(c, pass, {}, BranchPredictor_energy(pass), {})
      BY <2>1, BranchPredictorPass
    <3>2. Pass(c, pass, E, BranchPredictor_energy(pass), {}) BY <3>1, PassMore
    <3> QED BY <2>1, <3>2 DEF Only
  <2>2. CASE ~(c.predictionW > 0) BY <2>2, PassNone DEF Only
  <2> QED BY <2>1, <2>2
<1>8. Pass(c, pass, E, s2, {})
  <2>1. IcacheParts \subseteq ProgramParts(c) BY <1>1, <1>2, <1>3
  <2>2. "saved decode energy" \notin IcacheParts BY DEF IcacheParts
  <2> QED BY <1>3, <2>1, <2>2, PassParts
<1>9. Pass(c, pass, E, s3, {})
  <2>1. "IB" \in ProgramParts(c) BY <1>1, <1>2, <1>3
  <2> QED BY <1>3, <2>1, PassOwn
<1>10. Pass(c, pass, E, s4, {})
  <2>1. CASE c.predictionW > 0
    <3>1. "BTB" \in ProgramParts(c) /\ "BTB" \in E BY <1>1, <1>2, <1>3, <2>1
    <3>2. Pass(c, pass, E, Own(pass, "BTB", "ifu"), {}) BY <3>1, PassOwn
    <3>3. Pass(c, pass, E, Sub(pass, "BPT", "ifu"), {}) BY PassSub
    <3>4. Pass(c, pass, E, Own(pass, "BTB", "ifu") \o Sub(pass, "BPT", "ifu"), {})
      BY <3>2, <3>3, PassThen
    <3> QED BY <2>1, <3>4 DEF Only
  <2>2. CASE ~(c.predictionW > 0) BY <2>2, PassNone DEF Only
  <2> QED BY <2>1, <2>2
<1>11. /\ Pass(c, pass, E, s5, {})
       /\ pass = "tdp" => Pass(c, pass, E, s5, {"saved decode energy"})
  BY <1>3, DecodersPass
<1> HIDE DEF s1, s2, s3, s4, s5
<1>12. Pass(c, pass, {}, s0 \o s1, E) BY <1>6, <1>7, PassStep
<1>13. Pass(c, pass, {}, s0 \o s1 \o s2, E) BY <1>12, <1>8, PassStep
<1>14. Pass(c, pass, {}, s0 \o s1 \o s2 \o s3, E) BY <1>13, <1>9, PassStep
<1>15. Pass(c, pass, {}, s, E) BY <1>14, <1>10, PassStep
<1> HIDE DEF s
<1>16. Pass(c, pass, {}, s \o s5, {})
  <2>1. Pass(c, pass, {}, s \o s5, E) BY <1>15, <1>11, PassStep
  <2> QED BY <2>1, PassForget
<1>17. ASSUME pass = "tdp"
       PROVE  Pass(c, pass, {}, s \o s5, {"saved decode energy"})
  <2>1. Pass(c, pass, {} \cup E, s5, {"saved decode energy"})
    <3>1. {} \cup E = E OBVIOUS
    <3> QED BY <1>11, <1>17, <3>1
  <2> DEFINE saved == {"saved decode energy"}
             none == {}
             F == E \cup saved
  <2>2. Pass(c, pass, none, s \o s5, F) BY <1>15, <2>1, PassConcat
  <2>3. saved \subseteq F /\ none \subseteq none OBVIOUS
  <2> HIDE DEF saved, F, none
  <2>4. Pass(c, pass, none, s \o s5, saved) BY <2>2, <2>3, PassMore
  <2> QED BY <2>4 DEF saved, none
<1> QED BY <1>4, <1>16, <1>17

\* A part whose accesses are those of its own and of another part.
LEMMA PassPair ==
    ASSUME NEW c, NEW pass, NEW D, NEW name, NEW into, NEW adds, NEW lkg,
           NEW p, NEW q, NEW what,
           p \in ProgramParts(c), q \in ProgramParts(c),
           lkg \subseteq ProgramParts(c),
           p \in D, p # "saved decode energy",
           (what \in D /\ what # "saved decode energy") \/ Borrowed(c, pass, what)
    PROVE  Pass(c, pass, D,
                Part(pass, name, into, {<<p, p>>, <<q, what>>}, lkg, adds), {})
<1> DEFINE dyn == {<<p, p>>, <<q, what>>}
<1>1. ASSUME NEW d \in dyn
      PROVE  (d[1] = p /\ d[2] = p) \/ (d[1] = q /\ d[2] = what)
  <2>1. d = <<p, p>> \/ d = <<q, what>> BY DEF dyn
  <2>2. CASE d = <<p, p>> BY <2>2
  <2>3. CASE d = <<q, what>> BY <2>3
  <2> QED BY <2>1, <2>2, <2>3
<1> HIDE DEF dyn
<1>2. {d[1] : d \in dyn} \cup lkg \subseteq ProgramParts(c) BY <1>1
<1>3. \A d \in dyn : \/ d[2] \in D /\ d[2] # "saved decode energy"
                     \/ Borrowed(c, pass, d[2])
  BY <1>1
<1>4. Pass(c, pass, D, Part(pass, name, into, dyn, lkg, adds), {})
  BY <1>2, <1>3, PassPart
<1> QED BY <1>4 DEF dyn

\* A pass over RENAMINGU uses parts that exist and accesses that were
\* counted.
LEMMA RENAMINGUPass ==
    ASSUME NEW c, c.root = "Core", c.OOO, NEW pass \in {"tdp", "rtp"}
    PROVE  Pass(c, pass, {}, RENAMINGU_energy(c, pass), {})
<1> DEFINE E == {"iFRAT", "fFRAT", "ifreeL", "idcl", "fdcl"}
                  \cup (IF c.PRF THEN {"iRRAT", "fRRAT", "ffreeL"} ELSE {})
           P == RENAMINGUParts(c)
           s0 == RENAMINGU_stats(c, pass)
           s1 == FrontRAT_energy(pass, "iFRAT", "idcl")
           s2 == FrontRAT_energy(pass, "fFRAT", "fdcl")
           s3 == Only(c.PRF, Own(pass, "iRRAT", "rnu") \o Own(pass, "fRRAT", "rnu"))
           s4 == Own(pass, "ifreeL", "rnu")
           s5 == Only(c.PRF, Own(pass, "ffreeL", "rnu"))
<1>1. P \subseteq ProgramParts(c) BY CorePartsOf DEF RenamingParts
<1>2. E \subseteq P BY DEF RENAMINGUParts, RENAMINGUCounted
<1>3. /\ "iFRAT" \in E /\ "fFRAT" \in E /\ "ifreeL" \in E /\ "idcl" \in E
      /\ "fdcl" \in E
      /\ c.PRF => "iRRAT" \in E /\ "fRRAT" \in E /\ "ffreeL" \in E
      /\ E \cap {"dcache.apcaches", "unicache.apcaches", "homenode",
                 "saved decode energy"} = {}
  OBVIOUS
<1>4. RENAMINGU_energy(c, pass) = s0 \o s1 \o s2 \o s3 \o s4 \o s5
  BY DEF RENAMINGU_energy
<1>5. s0 = Stats(pass, E) BY DEF RENAMINGU_stats
<1> HIDE DEF E, P, s0
<1>6. Pass(c, pass, {}, s0, E) BY <1>1, <1>2, <1>3, <1>5, PassUnitStats
<1>7. E \subseteq ProgramParts(c) BY <1>1, <1>2
<1>8. Pass(c, pass, E, s1, {})
  BY <1>3, <1>7, PassPair DEF FrontRAT_energy
<1>9. Pass(c, pass, E, s2, {})
  BY <1>3, <1>7, PassPair DEF FrontRAT_energy
<1>10. Pass(c, pass, E, s3, {})
  <2>1. CASE c.PRF
    <3>1. /\ Pass(c, pass, E, Own(pass, "iRRAT", "rnu"), {})
          /\ Pass(c, pass, E, Own(pass, "fRRAT", "rnu"), {})
      BY <1>3, <1>7, <2>1, PassOwn
    <3>2. Pass(c, pass, E, Own(pass, "iRRAT", "rnu") \o Own(pass, "fRRAT", "rnu"), {})
      BY <3>1, PassThen
    <3> QED BY <2>1, <3>2 DEF Only
  <2>2. CASE ~c.PRF BY <2>2, PassNone DEF Only
  <2> QED BY <2>1, <2>2
<1>11. Pass(c, pass, E, s4, {}) BY <1>3, <1>7, PassOwn
<1>12. Pass(c, pass, E, s5, {})
  <2>1. CASE c.PRF
    <3>1. Pass(c, pass, E, Own(pass, "ffreeL", "rnu"), {})
      BY <1>3, <1>7, <2>1, PassOwn
    <3> QED BY <2>1, <3>1 DEF Only
  <2>2. CASE ~c.PRF BY <2>2, PassNone DEF Only
  <2> QED BY <2>1, <2>2
<1> HIDE DEF s1, s2, s3, s4, s5
<1>13. Pass(c, pass, {}, s0 \o s1, E) BY <1>6, <1>8, PassStep
<1>14. Pass(c, pass, {}, s0 \o s1 \o s2, E) BY <1>13, <1>9, PassStep
<1>15. Pass(c, pass, {}, s0 \o s1 \o s2 \o s3, E) BY <1>14, <1>10, PassStep
<1>16. Pass(c, pass, {}, s0 \o s1 \o s2 \o s3 \o s4, E) BY <1>15, <1>11, PassStep
<1>17. Pass(c, pass, {}, s0 \o s1 \o s2 \o s3 \o s4 \o s5, E)
  BY <1>16, <1>12, PassStep
<1> QED BY <1>4, <1>17, PassForget

\* A pass over SchedulerU uses parts that exist and accesses that were
\* counted.
LEMMA SchedulerUPass ==
    ASSUME NEW c, c.root = "Core", NEW pass \in {"tdp", "rtp"}
    PROVE  Pass(c, pass, {}, SchedulerU_energy(c, pass), {})
<1> DEFINE E == (IF c.OOO THEN {"int_inst_window", "fp_inst_window"}
                   \cup (IF c.ROB > 0 THEN {"ROB"} ELSE {}) ELSE {})
                \cup (IF ~c.OOO /\ c.threads > 1 THEN {"int_inst_window"} ELSE {})
           P == SchedulerUParts(c)
           s0 == SchedulerU_stats(c, pass)
           s1 == Only(c.OOO \/ c.threads > 1, Window_energy(pass, "int_inst_window"))
           s2 == Only(c.OOO, Window_energy(pass, "fp_inst_window"))
           s3 == Only(c.OOO /\ c.ROB > 0, Own(pass, "ROB", "scheu"))
<1>1. P \subseteq ProgramParts(c) BY CorePartsOf DEF EXECUParts
<1>2. E \subseteq P BY DEF SchedulerUParts, SchedulerUCounted
<1>3. /\ c.OOO \/ c.threads > 1 => "int_inst_window" \in E
      /\ c.OOO => "fp_inst_window" \in E
      /\ c.OOO /\ c.ROB > 0 => "ROB" \in E
      /\ E \cap {"dcache.apcaches", "unicache.apcaches", "homenode",
                 "saved decode energy"} = {}
  OBVIOUS
<1>4. c.OOO \/ c.threads > 1 => "instruction_selection" \in P
  BY DEF SchedulerUParts
<1>5. SchedulerU_energy(c, pass) = s0 \o s1 \o s2 \o s3 BY DEF SchedulerU_energy
<1>6. s0 = Stats(pass, E) BY DEF SchedulerU_stats
<1> HIDE DEF E, P, s0
<1>7. Pass(c, pass, {}, s0, E) BY <1>1, <1>2, <1>3, <1>6, PassUnitStats
<1>8. ASSUME NEW w \in {"int_inst_window", "fp_inst_window"}, w \in E,
             "instruction_selection" \in P
      PROVE  Pass(c, pass, E, Window_energy(pass, w), {})
  <2>1. w \in ProgramParts(c) /\ "instruction_selection" \in ProgramParts(c)
    BY <1>1, <1>2, <1>8
  <2>2. {w, "instruction_selection"} \subseteq ProgramParts(c) BY <2>1
  <2>3. w # "saved decode energy" BY <1>8
  <2> QED BY <1>8, <2>1, <2>2, <2>3, PassPair DEF Window_energy
<1>9. Pass(c, pass, E, s1, {})
  <2>1. CASE c.OOO \/ c.threads > 1
    <3>1. Pass(c, pass, E, Window_energy(pass, "int_inst_window"), {})
      BY <1>3, <1>4, <1>8, <2>1
    <3> QED BY <2>1, <3>1 DEF Only
  <2>2. CASE ~(c.OOO \/ c.threads > 1) BY <2>2, PassNone DEF Only
  <2> QED BY <2>1, <2>2
<1>10. Pass(c, pass, E, s2, {})
  <2>1. CASE c.OOO
    <3>1. Pass(c, pass, E, Window_energy(pass, "fp_inst_window"), {})
      BY <1>3, <1>4, <1>8, <2>1
    <3> QED BY <2>1, <3>1 DEF Only
  <2>2. CASE ~c.OOO BY <2>2, PassNone DEF Only
  <2> QED BY <2>1, <2>2
<1>11. Pass(c, pass, E, s3, {})
  <2>1. CASE c.OOO /\ c.ROB > 0
    <3>1. "ROB" \in E /\ "ROB" \in ProgramParts(c) BY <1>1, <1>2, <1>3, <2>1
    <3>2. Pass(c, pass, E, Own(pass, "ROB", "scheu"), {}) BY <3>1, PassOwn
    <3> QED BY <2>1, <3>2 DEF Only
  <2>2. CASE ~(c.OOO /\ c.ROB > 0) BY <2>2, PassNone DEF Only
  <2> QED BY <2>1, <2>2
<1> HIDE DEF s1, s2, s3
<1>12. Pass(c, pass, {}, s0 \o s1, E) BY <1>7, <1>9, PassStep
<1>13. Pass(c, pass, {}, s0 \o s1 \o s2, E) BY <1>12, <1>10, PassStep
<1>14. Pass(c, pass, {}, s0 \o s1 \o s2 \o s3, E) BY <1>13, <1>11, PassStep
<1> QED BY <1>5, <1>14, PassForget

\* A pass over LoadStoreU uses parts that exist and accesses that were
\* counted.
LEMMA LoadStoreUPass ==
    ASSUME NEW c, c.root = "Core", NEW pass \in {"tdp", "rtp"}
    PROVE  Pass(c, pass, {}, LoadStoreU_energy(c, pass), {})
<1> DEFINE twin == "dcache.apcaches"
           main == "dcache.caches"
           B == DcacheBuffers(c)
           E == {main, "LSQ"} \cup B
                  \cup (IF HasLoadQ(c) THEN {"LoadQ"} ELSE {})
                  \cup (IF pass = "rtp" THEN {twin} ELSE {})
           P == LoadStoreUParts(c)
           s0 == LoadStoreU_stats(c, pass)
           s1 == dcache_energy(c, pass)
           s2 == Own(pass, "LSQ", "lsu")
           s3 == Only(HasLoadQ(c), Own(pass, "LoadQ", "lsu"))
<1>1. P \subseteq ProgramParts(c) BY CorePartsOf
<1>2. E \subseteq P /\ {main, twin} \cup B \subseteq P
  BY DEF LoadStoreUParts, LoadStoreUCounted
<1>3. /\ main \in E /\ "LSQ" \in E /\ B \subseteq E
      /\ HasLoadQ(c) => "LoadQ" \in E
      /\ pass = "rtp" => twin \in E
  OBVIOUS
<1>4. E \cap {"unicache.apcaches", "homenode", "saved decode energy"} = {}
      /\ (pass = "tdp" => twin \notin E)
  BY DEF DcacheBuffers
<1>5. LoadStoreU_energy(c, pass) = s0 \o s1 \o s2 \o s3
  BY DEF LoadStoreU_energy
<1>6. s0 = Stats(pass, E) BY DEF LoadStoreU_stats
<1>7. "saved decode energy" \notin {main, twin} \cup B BY DEF DcacheBuffers
<1>8. pass = "tdp" => Borrowed(c, pass, twin) BY DEF Borrowed, Twins
<1>9. s1 = Part(pass, "dcache", "lsu",
                {<<p, p>> : p \in {main, twin} \cup B} \cup {<<main, twin>>},
                {main, twin} \cup B, "power")
  BY DEF dcache_energy
<1> HIDE DEF E, P, B, s0, s1
<1>10. Pass(c, pass, {}, s0, E)
  <2>1. E \cap Spared(c, pass) = {} BY <1>4 DEF Spared, Twins
  <2>2. E \ {"bypass", "homenode", "saved decode energy"} \subseteq ProgramParts(c)
    BY <1>1, <1>2
  <2> QED BY <1>6, <2>1, <2>2, PassStats
<1>11. Pass(c, pass, E, s1, {})
  <2> DEFINE all == {main, twin} \cup B
             dyn == {<<p, p>> : p \in all} \cup {<<main, twin>>}
  <2>1. ASSUME NEW d \in dyn PROVE d[1] \in all /\ d[2] \in all
    <3>1. CASE d = <<main, twin>> BY <3>1
    <3>2. CASE d # <<main, twin>>
      <4>1. PICK p \in all : d = <<p, p>> BY <3>2
      <4>2. d[1] = p /\ d[2] = p BY <4>1
      <4> QED BY <4>2
    <3> QED BY <3>1, <3>2
  <2>2. all \subseteq E \cup {twin} BY <1>3
  <2> HIDE DEF dyn, all
  <2>3. all \subseteq ProgramParts(c) BY <1>1, <1>2 DEF all
  <2>4. {d[1] : d \in dyn} \cup all \subseteq ProgramParts(c) BY <2>1, <2>3
  <2>5. ASSUME NEW d \in dyn
        PROVE  \/ d[2] \in E /\ d[2] # "saved decode energy"
               \/ Borrowed(c, pass, d[2])
    <3>1. d[2] # "saved decode energy" BY <1>7, <2>1 DEF all
    <3>2. CASE d[2] = twin BY <1>3, <1>8, <3>1, <3>2
    <3>3. CASE d[2] # twin BY <2>1, <2>2, <3>1, <3>3
    <3> QED BY <3>2, <3>3
  <2>6. Pass(c, pass, E, Part(pass, "dcache", "lsu", dyn, all, "power"), {})
    BY <2>4, <2>5, PassPart
  <2> QED BY <1>9, <2>6 DEF dyn, all
<1>12. Pass(c, pass, E, s2, {})
  <2>1. "LSQ" \in ProgramParts(c) BY <1>1, <1>2, <1>3
  <2> QED BY <1>3, <2>1, PassOwn
<1>13. Pass(c, pass, E, s3, {})
  <2>1. CASE HasLoadQ(c)
    <3>1. "LoadQ" \in E /\ "LoadQ" \in ProgramParts(c) BY <1>1, <1>2, <1>3, <2>1
    <3>2. Pass(c, pass, E, Own(pass, "LoadQ", "lsu"), {}) BY <3>1, PassOwn
    <3> QED BY <2>1, <3>2 DEF Only
  <2>2. CASE ~HasLoadQ(c) BY <2>2, PassNone DEF Only
  <2> QED BY <2>1, <2>2
<1> HIDE DEF s2, s3
<1>14. Pass(c, pass, {}, s0 \o s1, E) BY <1>10, <1>11, PassStep
<1>15. Pass(c, pass, {}, s0 \o s1 \o s2, E) BY <1>14, <1>12, PassStep
<1>16. Pass(c, pass, {}, s0 \o s1 \o s2 \o s3, E) BY <1>15, <1>13, PassStep
<1> QED BY <1>5, <1>16, PassForget

\* A pass over MemManU uses parts that exist and accesses that were counted.
LEMMA MemManUPass ==
    ASSUME NEW c, c.root = "Core", NEW pass
    PROVE  Pass(c, pass, {}, MemManU_energy(pass), {})
<1> DEFINE E == {"itlb", "dtlb"}
           s0 == Stats(pass, E)
           s1 == Own(pass, "itlb", "mmu")
           s2 == Own(pass, "dtlb", "mmu")
<1>1. MemManU_energy(pass) = s0 \o s1 \o s2 BY DEF MemManU_energy
<1>2. E \subseteq MemManUParts /\ MemManUParts \subseteq ProgramParts(c)
  BY CorePartsOf DEF MemManUParts
<1>3. /\ "itlb" \in E /\ "dtlb" \in E
      /\ E \cap {"dcache.apcaches", "unicache.apcaches", "homenode",
                 "saved decode energy"} = {}
  OBVIOUS
<1> HIDE DEF E
<1>4. Pass(c, pass, {}, s0, E) BY <1>2, <1>3, PassUnitStats
<1>5. Pass(c, pass, E, s1, {}) /\ Pass(c, pass, E, s2, {})
  <2>1. "itlb" \in ProgramParts(c) /\ "dtlb" \in ProgramParts(c)
    BY <1>2, <1>3
  <2> QED BY <1>3, <2>1, PassOwn
<1> HIDE DEF s0, s1, s2
<1>6. Pass(c, pass, {}, s0 \o s1, E) BY <1>4, <1>5, PassStep
<1>7. Pass(c, pass, {}, s0 \o s1 \o s2, E) BY <1>6, <1>5, PassStep
<1> QED BY <1>1, <1>7, PassForget

\* A pass over RegFU uses parts that exist and accesses that were counted.
LEMMA RegFUPass ==
    ASSUME NEW c, c.root = "Core", NEW pass \in {"tdp", "rtp"}
    PROVE  Pass(c, pass, {}, RegFU_energy(c, pass), {})
<1> DEFINE adds == IF pass = "tdp" THEN "power" ELSE "power_t"
           E == {"IRF", "FRF"} \cup (IF RegWindowing(c) THEN {"RFWIN"} ELSE {})
           P == RegFUParts(c)
           file(p) == Part(pass, p, "rfu", {<<p, p>>}, {p}, adds)
           s0 == Stats(pass, E)
           s1 == file("IRF")
           s2 == file("FRF")
           s3 == Only(RegWindowing(c), Own(pass, "RFWIN", "rfu"))
<1>1. P \subseteq ProgramParts(c) BY CorePartsOf DEF EXECUParts
<1>2. E \subseteq P BY DEF RegFUParts
<1>3. /\ "IRF" \in E /\ "FRF" \in E
      /\ RegWindowing(c) => "RFWIN" \in E
      /\ E \cap {"dcache.apcaches", "unicache.apcaches", "homenode",
                 "saved decode energy"} = {}
  OBVIOUS
<1>4. RegFU_energy(c, pass) = s0 \o s1 \o s2 \o s3 BY DEF RegFU_energy
<1> HIDE DEF E, P, adds
<1>5. Pass(c, pass, {}, s0, E) BY <1>1, <1>2, <1>3, PassUnitStats
<1>6. ASSUME NEW p \in {"IRF", "FRF"} PROVE Pass(c, pass, E, file(p), {})
  <2> DEFINE dyn == {<<p, p>>}
  <2>1. ASSUME NEW d \in dyn PROVE d[1] = p /\ d[2] = p
    <3>1. d = <<p, p>> OBVIOUS
    <3> QED BY <3>1
  <2> HIDE DEF dyn
  <2>2. p \in E /\ p \in ProgramParts(c) /\ p # "saved decode energy"
    <3>1. p = "IRF" \/ p = "FRF" BY <1>6
    <3>2. p \in E BY <1>3, <3>1
    <3>3. p \in ProgramParts(c) BY <1>1, <1>2, <3>2
    <3> QED BY <3>1, <3>2, <3>3
  <2>3. {d[1] : d \in dyn} \cup {p} \subseteq ProgramParts(c) BY <2>1, <2>2
  <2>4. Pass(c, pass, E, Part(pass, p, "rfu", dyn, {p}, adds), {})
    BY <2>1, <2>2, <2>3, PassPart
  <2> QED BY <2>4 DEF dyn
<1>7. Pass(c, pass, E, s1, {}) /\ Pass(c, pass, E, s2, {}) BY <1>6
<1>8. Pass(c, pass, E, s3, {})
  <2>1. CASE RegWindowing(c)
    <3>1. "RFWIN" \in E BY <1>3, <2>1
    <3>2. "RFWIN" \in ProgramParts(c) BY <1>1, <1>2, <3>1
    <3>3. Pass(c, pass, E, Own(pass, "RFWIN", "rfu"), {}) BY <3>1, <3>2, PassOwn
    <3> QED BY <2>1, <3>3 DEF Only
  <2>2. CASE ~RegWindowing(c) BY <2>2, PassNone DEF Only
  <2> QED BY <2>1, <2>2
<1> HIDE DEF s0, s1, s2, s3
<1>9. Pass(c, pass, {}, s0 \o s1, E) BY <1>5, <1>7, PassStep
<1>10. Pass(c, pass, {}, s0 \o s1 \o s2, E) BY <1>9, <1>7, PassStep
<1>11. Pass(c, pass, {}, s0 \o s1 \o s2 \o s3, E) BY <1>10, <1>8, PassStep
<1> QED BY <1>4, <1>11, PassForget

\* A pass over the bypass wires uses parts that exist and accesses that were
\* counted.
LEMMA BypassPass ==
    ASSUME NEW c, c.root = "Core", NEW pass \in {"tdp", "rtp"}
    PROVE  Pass(c, pass, {}, bypass_energy(c, pass), {})
<1> DEFINE W == Wires(c)
           E == {"bypass"}
           dyn == {<<w, "bypass">> : w \in W}
           t == Part(pass, "bypass", "exu", dyn, W, "power")
<1>1. bypass_energy(c, pass) = Stats(pass, E) \o t BY DEF bypass_energy
<1>2. W \subseteq ProgramParts(c) BY CorePartsOf DEF EXECUParts
<1>3. ASSUME NEW d \in dyn PROVE d[1] \in W /\ d[2] = "bypass"
  <2>1. PICK w \in W : d = <<w, "bypass">> OBVIOUS
  <2> QED BY <2>1
<1>4. Pass(c, pass, {}, Stats(pass, E), E)
  <2>1. E \cap Spared(c, pass) = {} BY DEF Spared, Twins
  <2>2. E \ {"bypass", "homenode", "saved decode energy"} \subseteq ProgramParts(c)
    OBVIOUS
  <2> HIDE DEF E
  <2> QED BY <2>1, <2>2, PassStats
<1> HIDE DEF dyn, W
<1>5. Pass(c, pass, E, t, {})
  <2>1. {d[1] : d \in dyn} \cup W \subseteq ProgramParts(c) BY <1>2, <1>3
  <2>2. \A d \in dyn : d[2] \in E /\ d[2] # "saved decode energy" BY <1>3
  <2> HIDE DEF E
  <2> QED BY <2>1, <2>2, PassPart
<1> HIDE DEF E, t
<1> QED BY <1>1, <1>4, <1>5, PassAfter

\* A pass over EXECU uses parts that exist and accesses that were counted.
LEMMA EXECUPass ==
    ASSUME NEW c, c.root = "Core", NEW pass \in {"tdp", "rtp"}
    PROVE  Pass(c, pass, {}, EXECU_energy(c, pass), {})
<1> DEFINE s1 == RegFU_energy(c, pass)
           s2 == SchedulerU_energy(c, pass)
           s3 == Functional(pass, "exeu")
           s4 == Only(c.fpus > 0, Functional(pass, "fp_u"))
           s5 == Only(c.muls > 0, Functional(pass, "mul"))
           s6 == bypass_energy(c, pass)
           s7 == Sub(pass, "rfu", "exu")
           s8 == Sub(pass, "scheu", "exu")
           P(s) == Pass(c, pass, {}, s, {})
<1>1. EXECU_energy(c, pass) = s1 \o s2 \o s3 \o s4 \o s5 \o s6 \o s7 \o s8
  BY DEF EXECU_energy
<1>2. Units(c) \subseteq ProgramParts(c) BY CorePartsOf DEF EXECUParts
<1>3. P(s1) /\ P(s2) /\ P(s6) BY RegFUPass, SchedulerUPass, BypassPass
<1>4. P(s3) BY <1>2, PassFunctional DEF Units
<1>5. P(s4)
  <2>1. CASE c.fpus > 0
    <3>1. "fp_u" \in ProgramParts(c) BY <1>2, <2>1 DEF Units
    <3>2. P(Functional(pass, "fp_u")) BY <3>1, PassFunctional
    <3> QED BY <2>1, <3>2 DEF Only
  <2>2. CASE ~(c.fpus > 0) BY <2>2, PassNone DEF Only
  <2> QED BY <2>1, <2>2
<1>6. P(s5)
  <2>1. CASE c.muls > 0
    <3>1. "mul" \in ProgramParts(c) BY <1>2, <2>1 DEF Units
    <3>2. P(Functional(pass, "mul")) BY <3>1, PassFunctional
    <3> QED BY <2>1, <3>2 DEF Only
  <2>2. CASE ~(c.muls > 0) BY <2>2, PassNone DEF Only
  <2> QED BY <2>1, <2>2
<1>7. P(s7) /\ P(s8) BY PassSub
<1> HIDE DEF s1, s2, s3, s4, s5, s6, s7, s8
<1>8. P(s1 \o s2) BY <1>3, PassThen
<1>9. P(s1 \o s2 \o s3) BY <1>8, <1>4, PassThen
<1>10. P(s1 \o s2 \o s3 \o s4) BY <1>9, <1>5, PassThen
<1>11. P(s1 \o s2 \o s3 \o s4 \o s5) BY <1>10, <1>6, PassThen
<1>12. P(s1 \o s2 \o s3 \o s4 \o s5 \o s6) BY <1>11, <1>3, PassThen
<1>13. P(s1 \o s2 \o s3 \o s4 \o s5 \o s6 \o s7) BY <1>12, <1>7, PassThen
<1>14. P(s1 \o s2 \o s3 \o s4 \o s5 \o s6 \o s7 \o s8) BY <1>13, <1>7, PassThen
<1> QED BY <1>1, <1>14

\* A pass over SharedCache uses parts that exist and accesses that were
\* counted.
LEMMA SharedCachePass ==
    ASSUME NEW c \in ConfigType, NEW level, NEW unit, NEW pass \in {"tdp", "rtp"},
           \/ c.root = "Core" /\ c.Private_L2 /\ level = "L2"
           \/ c.root # "Core" /\ level = c.root
    PROVE  /\ Pass(c, pass, {}, SharedCache_energy(c, level, unit, pass), {})
           /\ pass = "tdp" /\ c.dir_ty = "SBT" =>
                Pass(c, pass, {}, SharedCache_energy(c, level, unit, pass),
                     {"homenode"})
<1> DEFINE main == "unicache.caches"
           twin == "unicache.apcaches"
           B == UniBuffers(c, level)
           all == {main, twin} \cup B
           E == {main} \cup B
                  \cup (IF pass = "tdp" /\ c.dir_ty = "SBT"
                        THEN {"homenode"} ELSE {})
                  \cup (IF pass = "rtp" /\ level \in {"L2", "L3"}
                        THEN {twin} ELSE {})
           dyn == unicache_dyn(c, level) \cup unicache_unmasked(c, level, pass)
           lkg == {main, twin} \cup B
           s0 == SharedCache_stats(c, level, pass)
           s1 == Part(pass, "unicache", unit, dyn, lkg, "power")
<1>1. SharedCache_energy(c, level, unit, pass) = s0 \o s1
  BY DEF SharedCache_energy
<1>2. s0 = Stats(pass, E) BY DEF SharedCache_stats
<1>3. all \subseteq ProgramParts(c)
  <2>1. all \subseteq SharedCacheParts(c, level)
    BY DEF SharedCacheParts, SharedCacheCounted
  <2>2. SharedCacheParts(c, level) \subseteq ProgramParts(c)
    BY CorePartsOf DEF PrivateParts, ProgramParts
  <2> QED BY <2>1, <2>2
<1>4. B \subseteq {"unicache.missb", "unicache.ifb", "unicache.prefetchb",
                   "unicache.wbb"}
  BY DEF UniBuffers
<1>5. level \in {"L2", "L3"} \/ (Directory(c) /\ level = c.root)
  BY DEF Directory, ConfigType
<1>6. Directory(c) => level \notin {"L2", "L3"} BY DEF Directory
<1>7. Pass(c, pass, {}, s0, E)
  <2>1. E \cap Spared(c, pass) = {}
    <3>1. CASE pass = "tdp" BY <1>4, <3>1 DEF Spared, Twins
    <3>2. CASE pass = "rtp"
      <4>1. E \subseteq {main, twin} \cup B /\ (Directory(c) => twin \notin E)
        BY <1>4, <1>6, <3>2
      <4> HIDE DEF E
      <4> QED BY <1>4, <3>2, <4>1 DEF Spared
    <3> QED BY <3>1, <3>2
  <2>2. E \ {"bypass", "homenode", "saved decode energy"} \subseteq all
    OBVIOUS
  <2> HIDE DEF E, all
  <2>3. E \ {"bypass", "homenode", "saved decode energy"} \subseteq ProgramParts(c)
    BY <1>3, <2>2
  <2> QED BY <1>2, <2>1, <2>3, PassStats
<1>8. \/ pass = "rtp" /\ level \in {"L2", "L3"} /\ twin \in E
      \/ Borrowed(c, pass, twin)
  BY <1>5 DEF Borrowed, Twins
<1>9. \A what \in {main} \cup B : what \in E /\ what # "saved decode energy"
  BY <1>4
<1>10. c.dir_ty = "SBT" =>
         "homenode" \in E \/ Borrowed(c, pass, "homenode")
  BY DEF Borrowed, HasCache
<1>11. ASSUME NEW d \in dyn
       PROVE  /\ d[1] \in all
              /\ \/ d[2] \in {main, twin} \cup B
                 \/ d[2] = "homenode" /\ c.dir_ty = "SBT"
                 \/ d[2] = "one access" /\ pass = "rtp"
  <2>1. CASE d \in unicache_unmasked(c, level, pass)
    <3>1. pass = "rtp" BY <2>1 DEF unicache_unmasked
    <3>2. PICK p \in B : d = <<p, "one access">>
      BY <2>1, <3>1 DEF unicache_unmasked
    <3>3. d[1] = p /\ d[2] = "one access" BY <3>2
    <3> QED BY <3>1, <3>3
  <2>2. CASE d \in unicache_dyn(c, level)
    <3>1. CASE \E p \in all : d = <<p, p>>
      <4>1. PICK p \in all : d = <<p, p>> BY <3>1
      <4>2. d[1] = p /\ d[2] = p BY <4>1
      <4> QED BY <4>2
    <3>2. CASE d = <<main, twin>>
      <4>1. d[1] = main /\ d[2] = twin BY <3>2
      <4> QED BY <4>1
    <3>3. CASE d = <<main, "homenode">> /\ c.dir_ty = "SBT"
      <4>1. d[1] = main /\ d[2] = "homenode" BY <3>3
      <4> QED BY <3>3, <4>1
    <3>4. \/ \E p \in all : d = <<p, p>>
          \/ d = <<main, twin>>
          \/ d = <<main, "homenode">> /\ c.dir_ty = "SBT"
      <4>1. CASE TagDirectory(c, level)
        <5>1. d = <<main, main>> BY <2>2, <4>1 DEF unicache_dyn
        <5> QED BY <5>1
      <4>2. CASE ~TagDirectory(c, level)
        BY <2>2, <4>2 DEF unicache_dyn
      <4> QED BY <4>1, <4>2
    <3> QED BY <3>1, <3>2, <3>3, <3>4
  <2> QED BY <2>1, <2>2
<1> HIDE DEF E, B, dyn, all, s0, s1
<1>12. Pass(c, pass, E, s1, {})
  <2>1. lkg \subseteq ProgramParts(c) BY <1>3 DEF all
  <2>2. {d[1] : d \in dyn} \cup lkg \subseteq ProgramParts(c)
    BY <1>3, <1>11, <2>1
  <2>3. Borrowed(c, "rtp", "one access") BY DEF Borrowed
  <2>4. ASSUME NEW d \in dyn
        PROVE  \/ d[2] \in E /\ d[2] # "saved decode energy"
               \/ Borrowed(c, pass, d[2])
    <3>1. CASE d[2] = twin BY <1>8, <3>1
    <3>2. CASE d[2] = "homenode" /\ c.dir_ty = "SBT" BY <1>10, <3>2
    <3>3. CASE d[2] = "one access" /\ pass = "rtp" BY <2>3, <3>3
    <3>4. CASE d[2] \in {main} \cup B BY <1>9, <3>4
    <3> QED BY <1>11, <3>1, <3>2, <3>3, <3>4
  <2> HIDE DEF lkg
  <2> QED BY <2>2, <2>4, PassPart DEF s1
<1>13. pass = "tdp" /\ c.dir_ty = "SBT" => {"homenode"} \subseteq E BY DEF E
<1>14. Pass(c, pass, {}, s0 \o s1, E) BY <1>7, <1>12, PassStep
<1>15. Pass(c, pass, {}, s0 \o s1, {}) BY <1>14, PassForget
<1>16. ASSUME pass = "tdp", c.dir_ty = "SBT"
       PROVE  Pass(c, pass, {}, s0 \o s1, {"homenode"})
  <2> DEFINE home == {"homenode"}
             none == {}
  <2>1. home \subseteq E /\ none \subseteq none BY <1>13, <1>16
  <2> HIDE DEF home
  <2>2. Pass(c, pass, none, s0 \o s1, home) BY <1>14, <2>1, PassMore
  <2> QED BY <2>2 DEF home
<1> QED BY <1>1, <1>15, <1>16

\* A piece that assigns nothing of interest.
LEMMA PassOn ==
    ASSUME NEW c, NEW pass, NEW D, NEW s, NEW E, NEW t,
           Pass(c, pass, D, s, E), Pass(c, pass, D, t, {})
    PROVE  Pass(c, pass, D, s \o t, E)
<1>1. Pass(c, pass, D, s \o t, E \cup {}) BY PassBoth
<1>2. E \cup {} = E OBVIOUS
<1> QED BY <1>1, <1>2

\* A pass over a core, unit by unit.
LEMMA CorePass ==
    ASSUME NEW c \in ConfigType, c.root = "Core", NEW pass \in {"tdp", "rtp"}
    PROVE  Pass(c, pass, {}, Core_energy(c, pass), Known(c, pass))
<1> DEFINE s1 == InstFetchU_energy(c, pass)
           s2 == LoadStoreU_energy(c, pass)
           s3 == MemManU_energy(pass)
           s4 == EXECU_energy(c, pass)
           s5 == Only(c.OOO, RENAMINGU_energy(c, pass) \o Share(pass, "rnu"))
           s6 == Share(pass, "ifu")
           s7 == Share(pass, "lsu")
           s8 == Share(pass, "exu")
           s9 == Share(pass, "mmu")
           s10 == Part(pass, "undiffCore", "Core", {}, {"undiffCore"}, "power")
           s11 == Only(c.Private_L2,
                       SharedCache_energy(c, "L2", "l2cache", pass)
                         \o Sub(pass, "l2cache", "Core"))
           E1 == IF pass = "tdp" THEN {"saved decode energy"} ELSE {}
           E2 == IF pass = "tdp" /\ c.dir_ty = "SBT" /\ c.Private_L2
                 THEN {"homenode"} ELSE {}
           P(s, E) == Pass(c, pass, {}, s, E)
<1>1. Core_energy(c, pass) = s1 \o s2 \o s3 \o s4 \o s5 \o s6 \o s7 \o s8
                               \o s9 \o s10 \o s11
  BY DEF Core_energy
<1>2. Known(c, pass) = E1 \cup E2 BY DEF Known, HasCache
<1>3. "corepipe" \in ProgramParts(c) /\ "undiffCore" \in ProgramParts(c)
  BY CorePartsOf
<1>4. P(s1, E1) BY InstFetchUPass
<1>5. P(s2, {}) /\ P(s3, {}) /\ P(s4, {})
  BY LoadStoreUPass, MemManUPass, EXECUPass
<1>6. P(s5, {})
  <2>1. CASE c.OOO
    <3>1. P(RENAMINGU_energy(c, pass), {}) BY <2>1, RENAMINGUPass
    <3>2. P(Share(pass, "rnu"), {}) BY <1>3, PassShare
    <3>3. P(RENAMINGU_energy(c, pass) \o Share(pass, "rnu"), {})
      BY <3>1, <3>2, PassThen
    <3> QED BY <2>1, <3>3 DEF Only
  <2>2. CASE ~c.OOO BY <2>2, PassNone DEF Only
  <2> QED BY <2>1, <2>2
<1>7. P(s6, {}) /\ P(s7, {}) /\ P(s8, {}) /\ P(s9, {}) BY <1>3, PassShare
<1>8. P(s10, {})
  <2> DEFINE dyn == {}
             lkg == {"undiffCore"}
  <2>1. /\ {d[1] : d \in dyn} \cup lkg \subseteq ProgramParts(c)
        /\ \A d \in dyn : \/ d[2] \in {} /\ d[2] # "saved decode energy"
                          \/ Borrowed(c, pass, d[2])
    BY <1>3
  <2> HIDE DEF lkg, dyn
  <2>2. P(Part(pass, "undiffCore", "Core", dyn, lkg, "power"), {})
    BY <2>1, PassPart
  <2> QED BY <2>2 DEF lkg, dyn
<1>9. P(s11, E2)
  <2>1. CASE c.Private_L2
    <3> DEFINE t == SharedCache_energy(c, "L2", "l2cache", pass)
    <3>1. /\ P(t, {})
          /\ pass = "tdp" /\ c.dir_ty = "SBT" => P(t, {"homenode"})
      BY <2>1, SharedCachePass
    <3>2. P(t, E2)
      <4>1. CASE pass = "tdp" /\ c.dir_ty = "SBT"
        <5>1. E2 = {"homenode"} BY <2>1, <4>1
        <5> QED BY <3>1, <4>1, <5>1
      <4>2. CASE ~(pass = "tdp" /\ c.dir_ty = "SBT")
        <5>1. E2 = {} BY <4>2
        <5> QED BY <3>1, <5>1
      <4> QED BY <4>1, <4>2
    <3> HIDE DEF t, E2
    <3>3. P(Sub(pass, "l2cache", "Core"), {}) BY PassSub
    <3>4. P(t \o Sub(pass, "l2cache", "Core"), E2) BY <3>2, <3>3, PassOn
    <3> QED BY <2>1, <3>4 DEF Only, t
  <2>2. CASE ~c.Private_L2
    <3>1. E2 = {} BY <2>2
    <3>2. P(<<>>, {}) BY PassNone
    <3> HIDE DEF E2
    <3> QED BY <2>2, <3>1, <3>2 DEF Only
  <2> QED BY <2>1, <2>2
<1> HIDE DEF s1, s2, s3, s4, s5, s6, s7, s8, s9, s10, s11, E1, E2
<1>10. P(s1 \o s2, E1) BY <1>4, <1>5, PassOn
<1>11. P(s1 \o s2 \o s3, E1) BY <1>10, <1>5, PassOn
<1>12. P(s1 \o s2 \o s3 \o s4, E1) BY <1>11, <1>5, PassOn
<1>13. P(s1 \o s2 \o s3 \o s4 \o s5, E1) BY <1>12, <1>6, PassOn
<1>14. P(s1 \o s2 \o s3 \o s4 \o s5 \o s6, E1) BY <1>13, <1>7, PassOn
<1>15. P(s1 \o s2 \o s3 \o s4 \o s5 \o s6 \o s7, E1) BY <1>14, <1>7, PassOn
<1>16. P(s1 \o s2 \o s3 \o s4 \o s5 \o s6 \o s7 \o s8, E1)
  BY <1>15, <1>7, PassOn
<1>17. P(s1 \o s2 \o s3 \o s4 \o s5 \o s6 \o s7 \o s8 \o s9, E1)
  BY <1>16, <1>7, PassOn
<1>18. P(s1 \o s2 \o s3 \o s4 \o s5 \o s6 \o s7 \o s8 \o s9 \o s10, E1)
  BY <1>17, <1>8, PassOn
<1>19. P(s1 \o s2 \o s3 \o s4 \o s5 \o s6 \o s7 \o s8 \o s9 \o s10 \o s11,
         E1 \cup E2)
  BY <1>18, <1>9, PassBoth
<1> QED BY <1>1, <1>2, <1>19

\* A pass over any configuration.
LEMMA EnergyPass ==
    ASSUME NEW c \in ConfigType, NEW pass \in {"tdp", "rtp"}
    PROVE  Pass(c, pass, {}, computeEnergy(c, pass), Known(c, pass))
<1>1. CASE c.root = "Core" BY <1>1, CorePass DEF computeEnergy
<1>2. CASE c.root # "Core"
  <2> DEFINE s == SharedCache_energy(c, c.root, c.root, pass)
  <2>1. /\ Pass(c, pass, {}, s, {})
        /\ pass = "tdp" /\ c.dir_ty = "SBT" => Pass(c, pass, {}, s, {"homenode"})
    BY <1>2, SharedCachePass
  <2>2. computeEnergy(c, pass) = s BY <1>2 DEF computeEnergy
  <2>3. CASE pass = "tdp" /\ c.dir_ty = "SBT"
    <3>1. Known(c, pass) = {"homenode"} BY <1>2, <2>3 DEF Known, HasCache
    <3> QED BY <2>1, <2>2, <2>3, <3>1
  <2>4. CASE ~(pass = "tdp" /\ c.dir_ty = "SBT")
    <3>1. Known(c, pass) = {} BY <1>2, <2>4 DEF Known
    <3> QED BY <2>1, <2>2, <3>1
  <2> QED BY <2>3, <2>4
<1> QED BY <1>1, <1>2

-----------------------------------------------------------------------------
(* Both passes, one after the other. *)

\* One more statement.
LEMMA InPassNext ==
    ASSUME NEW s, NEW k \in Nat \ {0}, NEW pass
    PROVE  InPass(s, k, pass) = InPass(s, k - 1, pass)
             \cup (IF s[k].pass = pass THEN Assigns(s[k]) ELSE {})
<1>1. \A j : j \in 1 .. k <=> j \in 1 .. k - 1 \/ j = k OBVIOUS
<1> QED BY <1>1 DEF InPass

\* In a pass every statement belongs to it.
LEMMA OnePass ==
    ASSUME NEW c, NEW pass, NEW s, NEW E, NEW n \in 0 .. Len(s),
           Pass(c, pass, {}, s, E)
    PROVE  /\ InPass(s, n, pass) = Assigned(s, n)
           /\ Assigned(s, n) \cap Spared(c, pass) = {}
<1>1. Len(s) \in Nat BY SeqConcat DEF Pass
<1>2. \A k \in 1 .. Len(s) : s[k].pass = pass
                             /\ Assigns(s[k]) \cap Spared(c, pass) = {}
  BY DEF Pass, Sound
<1>3. \A k \in 1 .. n : k \in 1 .. Len(s) BY <1>1
<1>4. InPass(s, n, pass) = Assigned(s, n) BY <1>2, <1>3 DEF InPass, Assigned
<1>5. Assigned(s, n) \cap Spared(c, pass) = {} BY <1>2, <1>3 DEF Assigned
<1> QED BY <1>4, <1>5

\* Nothing of the other pass.
LEMMA OtherPass ==
    ASSUME NEW c, NEW pass, NEW s, NEW E, NEW n \in 0 .. Len(s),
           Pass(c, pass, {}, s, E), NEW other, other # pass
    PROVE  InPass(s, n, other) = {}
<1>1. Len(s) \in Nat BY SeqConcat DEF Pass
<1>2. \A k \in 1 .. Len(s) : s[k].pass = pass BY DEF Pass, Sound
<1>3. \A k \in 1 .. n : k \in 1 .. Len(s) BY <1>1
<1> QED BY <1>2, <1>3 DEF InPass

\* The assignments of a concatenation.
LEMMA InPassConcat ==
    ASSUME NEW pass, NEW s, NEW t, IsSeq(s), IsSeq(t)
    PROVE  /\ \A n \in 0 .. Len(s) : InPass(s \o t, n, pass) = InPass(s, n, pass)
           /\ \A n \in 0 .. Len(t) :
                InPass(s \o t, Len(s) + n, pass)
                  = InPass(s, Len(s), pass) \cup InPass(t, n, pass)
<1> DEFINE m == Len(s)
           u == s \o t
<1>1. /\ m \in Nat /\ Len(t) \in Nat
      /\ \A k \in 1 .. m : u[k] = s[k]
      /\ \A k \in 1 .. Len(t) : u[m + k] = t[k]
  BY SeqConcat
<1> HIDE DEF m, u
<1>2. ASSUME NEW n \in 0 .. m PROVE InPass(u, n, pass) = InPass(s, n, pass)
  <2>1. \A k \in 1 .. n : k \in 1 .. m BY <1>1
  <2> QED BY <1>1, <2>1 DEF InPass
<1>3. ASSUME NEW n \in 0 .. Len(t)
      PROVE  InPass(u, m + n, pass) = InPass(s, m, pass) \cup InPass(t, n, pass)
  <2>1. ASSUME NEW p \in InPass(u, m + n, pass)
        PROVE  p \in InPass(s, m, pass) \cup InPass(t, n, pass)
    <3>1. PICK k \in 1 .. m + n : u[k].pass = pass /\ p \in Assigns(u[k])
      BY <2>1 DEF InPass
    <3>2. CASE k <= m
      <4>1. k \in 1 .. m BY <3>2, <1>1
      <4> QED BY <3>1, <4>1, <1>1 DEF InPass
    <3>3. CASE ~(k <= m)
      <4>1. k - m \in 1 .. n /\ k - m \in 1 .. Len(t) /\ m + (k - m) = k
        BY <3>3, <1>1
      <4>2. u[k] = t[k - m] BY <4>1, <1>1
      <4> QED BY <3>1, <4>1, <4>2 DEF InPass
    <3> QED BY <3>2, <3>3
  <2>2. ASSUME NEW p \in InPass(s, m, pass) PROVE p \in InPass(u, m + n, pass)
    <3>1. PICK k \in 1 .. m : s[k].pass = pass /\ p \in Assigns(s[k])
      BY <2>2 DEF InPass
    <3>2. k \in 1 .. m + n /\ u[k] = s[k] BY <1>1
    <3> QED BY <3>1, <3>2 DEF InPass
  <2>3. ASSUME NEW p \in InPass(t, n, pass) PROVE p \in InPass(u, m + n, pass)
    <3>1. PICK k \in 1 .. n : t[k].pass = pass /\ p \in Assigns(t[k])
      BY <2>3 DEF InPass
    <3>2. m + k \in 1 .. m + n /\ u[m + k] = t[k] BY <1>1
    <3> QED BY <3>1, <3>2 DEF InPass
  <2> QED BY <2>1, <2>2, <2>3
<1> QED BY <1>2, <1>3 DEF m, u

\* Those of its first part.
LEMMA InPassLeft ==
    ASSUME NEW s, NEW t, NEW pass, NEW n \in 0 .. Len(s), IsSeq(s), IsSeq(t)
    PROVE  InPass(s \o t, n, pass) = InPass(s, n, pass)
  BY InPassConcat

\* Those of its second part.
LEMMA InPassRight ==
    ASSUME NEW s, NEW t, NEW pass, NEW n \in 0 .. Len(t), IsSeq(s), IsSeq(t)
    PROVE  InPass(s \o t, Len(s) + n, pass)
             = InPass(s, Len(s), pass) \cup InPass(t, n, pass)
  BY InPassConcat

\* A peak pass followed by a runtime pass.
LEMMA TwoPasses ==
    ASSUME NEW c, NEW s, NEW t,
           Pass(c, "tdp", {}, s, Known(c, "tdp")),
           Pass(c, "rtp", {}, t, Known(c, "rtp"))
    PROVE  /\ IsSeq(s \o t) /\ Len(s \o t) \in Nat
           /\ \A k \in 1 .. Len(s \o t) :
                Ready(c, InPass(s \o t, k - 1, "tdp"), InPass(s \o t, k - 1, "rtp"),
                      (s \o t)[k])
<1> DEFINE E == s \o t
           m == Len(s)
<1>2. IsSeq(s) /\ IsSeq(t) BY DEF Pass
<1>3. /\ IsSeq(E) /\ m \in Nat /\ Len(t) \in Nat /\ Len(E) = m + Len(t)
      /\ \A k \in 1 .. m : E[k] = s[k]
      /\ \A k \in 1 .. Len(t) : E[m + k] = t[k]
  BY <1>2, SeqConcat
<1>4. /\ \A n \in 0 .. m : /\ InPass(E, n, "tdp") = InPass(s, n, "tdp")
                           /\ InPass(E, n, "rtp") = InPass(s, n, "rtp")
      /\ \A n \in 0 .. Len(t) :
           /\ InPass(E, m + n, "tdp") = InPass(s, m, "tdp") \cup InPass(t, n, "tdp")
           /\ InPass(E, m + n, "rtp") = InPass(s, m, "rtp") \cup InPass(t, n, "rtp")
  <2>1. ASSUME NEW n \in 0 .. m
        PROVE  /\ InPass(E, n, "tdp") = InPass(s, n, "tdp")
               /\ InPass(E, n, "rtp") = InPass(s, n, "rtp")
    BY <1>2, InPassLeft
  <2>2. ASSUME NEW n \in 0 .. Len(t)
        PROVE  /\ InPass(E, m + n, "tdp") = InPass(s, m, "tdp") \cup InPass(t, n, "tdp")
               /\ InPass(E, m + n, "rtp") = InPass(s, m, "rtp") \cup InPass(t, n, "rtp")
    BY <1>2, InPassRight
  <2> QED BY <2>1, <2>2
<1> HIDE DEF E, m
<1>5. ASSUME NEW n \in 0 .. m
      PROVE  /\ InPass(s, n, "tdp") = Assigned(s, n)
             /\ InPass(s, n, "rtp") = {}
             /\ Assigned(s, n) \cap Spared(c, "tdp") = {}
  <2>1. /\ InPass(s, n, "tdp") = Assigned(s, n)
        /\ Assigned(s, n) \cap Spared(c, "tdp") = {}
    BY OnePass DEF m
  <2>2. InPass(s, n, "rtp") = {}
    <3>1. "rtp" # "tdp" OBVIOUS
    <3> QED BY <3>1, OtherPass DEF m
  <2> QED BY <2>1, <2>2
<1>6. ASSUME NEW n \in 0 .. Len(t)
      PROVE  /\ InPass(t, n, "rtp") = Assigned(t, n)
             /\ InPass(t, n, "tdp") = {}
             /\ Assigned(t, n) \cap Spared(c, "rtp") = {}
  <2>1. /\ InPass(t, n, "rtp") = Assigned(t, n)
        /\ Assigned(t, n) \cap Spared(c, "rtp") = {}
    BY OnePass DEF m
  <2>2. InPass(t, n, "tdp") = {}
    <3>1. "tdp" # "rtp" OBVIOUS
    <3> QED BY <3>1, OtherPass DEF m
  <2> QED BY <2>1, <2>2
<1>7. Spared(c, "tdp") = Twins BY DEF Spared
<1>8. ASSUME NEW k \in 1 .. m
      PROVE  Ready(c, InPass(E, k - 1, "tdp"), InPass(E, k - 1, "rtp"), E[k])
  <2>1. k - 1 \in 0 .. m BY <1>3
  <2>2. /\ InPass(E, k - 1, "tdp") = Assigned(s, k - 1)
        /\ InPass(E, k - 1, "rtp") = {} /\ E[k] = s[k]
        /\ Assigned(s, k - 1) \cap Twins = {}
    BY <1>3, <1>4, <1>5, <1>7, <2>1
  <2>3. Sound(c, "tdp", {} \cup Assigned(s, k - 1), s[k]) BY DEF Pass, m
  <2>4. {} \cup Assigned(s, k - 1) = Assigned(s, k - 1) OBVIOUS
  <2>5. s[k].pass = "tdp" BY <2>3 DEF Sound
  <2>6. Ready(c, Assigned(s, k - 1), {}, s[k])
    BY <2>2, <2>3, <2>4, <2>5 DEF Ready
  <2> QED BY <2>2, <2>6
<1>9. ASSUME NEW k \in 1 .. Len(t)
      PROVE  Ready(c, InPass(E, m + k - 1, "tdp"), InPass(E, m + k - 1, "rtp"),
                   E[m + k])
  <2>1. k - 1 \in 0 .. Len(t) /\ m \in 0 .. m /\ m + k - 1 = m + (k - 1)
    BY <1>3
  <2>2. /\ InPass(E, m + (k - 1), "tdp") = Assigned(s, m)
        /\ InPass(E, m + (k - 1), "rtp") = Assigned(t, k - 1)
        /\ E[m + k] = t[k]
        /\ Assigned(s, m) \cap Twins = {}
        /\ Assigned(t, k - 1) \cap Spared(c, "rtp") = {}
    <3>1. /\ InPass(s, m, "tdp") = Assigned(s, m) /\ InPass(s, m, "rtp") = {}
          /\ Assigned(s, m) \cap Twins = {}
      BY <1>5, <1>7, <2>1
    <3>2. /\ InPass(t, k - 1, "rtp") = Assigned(t, k - 1)
          /\ InPass(t, k - 1, "tdp") = {}
          /\ Assigned(t, k - 1) \cap Spared(c, "rtp") = {}
      BY <1>6, <2>1
    <3>3. /\ InPass(E, m + (k - 1), "tdp")
               = InPass(s, m, "tdp") \cup InPass(t, k - 1, "tdp")
          /\ InPass(E, m + (k - 1), "rtp")
               = InPass(s, m, "rtp") \cup InPass(t, k - 1, "rtp")
      BY <1>4, <2>1
    <3>4. E[m + k] = t[k] BY <1>3
    <3> QED BY <3>1, <3>2, <3>3, <3>4
  <2>3. Sound(c, "rtp", {} \cup Assigned(t, k - 1), t[k]) BY DEF Pass
  <2>4. {} \cup Assigned(t, k - 1) = Assigned(t, k - 1) OBVIOUS
  <2>5. t[k].pass = "rtp" BY <2>3 DEF Sound
  <2>6. Known(c, "tdp") \subseteq Assigned(s, m) BY DEF Pass, m
  <2>7. Ready(c, Assigned(s, m), Assigned(t, k - 1), t[k])
    BY <2>2, <2>3, <2>4, <2>5, <2>6 DEF Ready
  <2> QED BY <2>1, <2>2, <2>7
<1>10. ASSUME NEW k \in 1 .. Len(E)
       PROVE  Ready(c, InPass(E, k - 1, "tdp"), InPass(E, k - 1, "rtp"), E[k])
  <2>1. CASE k <= m
    <3>1. k \in 1 .. m BY <1>3, <2>1
    <3> QED BY <1>8, <3>1
  <2>2. CASE ~(k <= m)
    <3>1. PICK j \in 1 .. Len(t) : k = m + j
      <4>1. k - m \in 1 .. Len(t) /\ k = m + (k - m) BY <2>2, <1>3
      <4> QED BY <4>1
    <3>2. k - 1 = m + j - 1 BY <1>3, <3>1
    <3> QED BY <1>9, <3>1, <3>2, Zenon
  <2> QED BY <2>1, <2>2
<1> QED BY <1>3, <1>10 DEF E

-----------------------------------------------------------------------------
(* The state of the energy computation. *)

\* Every statement of both passes finds its accesses counted.
LEMMA EnergyOf ==
    ASSUME NEW c \in Configs
    PROVE  /\ IsSeq(Energy[c]) /\ Len(Energy[c]) \in Nat \ {0}
           /\ \A k \in 1 .. Len(Energy[c]) :
                Ready(c, InPass(Energy[c], k - 1, "tdp"),
                      InPass(Energy[c], k - 1, "rtp"), Energy[c][k])
<1> DEFINE s == computeEnergy(c, "tdp")
           t == computeEnergy(c, "rtp")
<1>1. c \in ConfigType BY ConfigsAssumption
<1>2. Energy[c] = s \o t
  <2>1. Passes[1] = "tdp" /\ Passes[2] = "rtp" BY DEF Passes
  <2> QED BY <2>1 DEF Energy
<1>3. Pass(c, "tdp", {}, s, Known(c, "tdp")) /\ Pass(c, "rtp", {}, t, Known(c, "rtp"))
  BY <1>1, EnergyPass
<1>4. Len(s) # 0
  <2>1. CASE c.root = "Core"
    <3>1. "saved decode energy" \in Known(c, "tdp") BY <2>1 DEF Known
    <3>2. "saved decode energy" \in Assigned(s, Len(s)) BY <1>3, <3>1 DEF Pass
    <3> HIDE DEF s
    <3>3. ASSUME Len(s) = 0 PROVE FALSE
      <4>1. 1 .. Len(s) = {} BY <3>3
      <4>2. PICK k \in 1 .. Len(s) : "saved decode energy" \in Assigns(s[k])
        BY <3>2 DEF Assigned
      <4> QED BY <4>1, <4>2
    <3> QED BY <3>3
  <2>2. CASE c.root # "Core"
    <3> DEFINE a == SharedCache_stats(c, c.root, "tdp")
               b == Part("tdp", "unicache", c.root,
                         unicache_dyn(c, c.root)
                           \cup unicache_unmasked(c, c.root, "tdp"),
                         {"unicache.caches", "unicache.apcaches"}
                           \cup UniBuffers(c, c.root), "power")
    <3>1. s = a \o b BY <2>2 DEF computeEnergy, SharedCache_energy
    <3>2. IsSeq(a) /\ Len(a) = 1 BY SeqOne DEF SharedCache_stats, Stats
    <3>3. IsSeq(b) /\ Len(b) = 1 BY SeqOne DEF Part
    <3> HIDE DEF a, b, s
    <3>4. Len(a \o b) = Len(a) + Len(b) BY <3>2, <3>3, SeqConcat
    <3> QED BY <3>1, <3>2, <3>3, <3>4
  <2> QED BY <2>1, <2>2
<1> HIDE DEF s, t
<1>5. IsSeq(s) /\ IsSeq(t) BY <1>3 DEF Pass
<1>6. Len(s \o t) = Len(s) + Len(t) /\ Len(s) \in Nat /\ Len(t) \in Nat
  BY <1>5, SeqConcat
<1>7. Len(s \o t) \in Nat \ {0} BY <1>4, <1>6
<1>8. /\ IsSeq(s \o t)
      /\ \A k \in 1 .. Len(s \o t) :
           Ready(c, InPass(s \o t, k - 1, "tdp"), InPass(s \o t, k - 1, "rtp"),
                 (s \o t)[k])
  BY <1>3, TwoPasses
<1> QED BY <1>2, <1>7, <1>8

\* An assignment of stats_t.
LEMMA StatsAfter ==
    ASSUME NEW c, NEW T, NEW R, NEW st, Ready(c, T, R, st),
           NEW f, StatsRight(f, T, R)
    PROVE  StatsRight([p \in Assigns(st) |-> st.pass] ++ f,
                      T \cup (IF st.pass = "tdp" THEN Assigns(st) ELSE {}),
                      R \cup (IF st.pass = "rtp" THEN Assigns(st) ELSE {}))
<1> DEFINE A == Assigns(st)
           e == [p \in A |-> st.pass]
           g == e ++ f
<1> HIDE DEF A
<1>1. DOMAIN e = A /\ \A p \in A : e[p] = st.pass OBVIOUS
<1> HIDE DEF e
<1>2. /\ DOMAIN g = A \cup DOMAIN f
      /\ \A p \in A \cup DOMAIN f : g[p] = IF p \in A THEN st.pass ELSE f[p]
  BY <1>1 DEF ++
<1> HIDE DEF g
<1>3. CASE st.pass = "tdp"
  <2>1. R = {} BY <1>3 DEF Ready
  <2> QED BY <1>2, <1>3, <2>1 DEF StatsRight, g, e, A
<1>4. CASE st.pass = "rtp"
  BY <1>2, <1>4 DEF StatsRight, g, e, A
<1>5. st.pass \in {"tdp", "rtp"} BY DEF Ready
<1> QED BY <1>3, <1>4, <1>5

\* The term of one access count.
LEMMA TermFresh ==
    ASSUME NEW c \in ConfigType, NEW T, NEW R, NEW st, Ready(c, T, R, st),
           StatsRight(stats, T, R), st.op = "part", NEW d \in st.dyn
    PROVE  FreshTerm(c, st.pass, <<d[1], d[2], Source(d[2])>>)
<1> DEFINE w == d[2]
           t == <<d[1], w, Source(w)>>
<1>1. t[2] = w /\ t[3] = Source(w) OBVIOUS
<1> HIDE DEF t
<1>2. /\ (w \in T /\ w \notin R) => Source(w) = "tdp"
      /\ w \in R => Source(w) = "rtp"
      /\ w \notin T \cup R => Source(w) = "none"
  BY DEF StatsRight, Source
<1>3. T \cap Twins = {} /\ R \cap Spared(c, "rtp") = {} BY DEF Ready
<1> HIDE DEF w
<1>4. ASSUME st.pass = "tdp" PROVE FreshTerm(c, st.pass, t)
  <2>1. R = {} /\ Sound(c, "tdp", T, st) BY <1>4 DEF Ready
  <2>2. (w \in T /\ w # "saved decode energy") \/ Borrowed(c, "tdp", w)
    BY <2>1 DEF Sound, w
  <2>3. CASE w \in T /\ w # "saved decode energy"
    <3>1. Source(w) = "tdp" BY <1>2, <2>1, <2>3
    <3> QED BY <1>1, <1>4, <2>3, <3>1 DEF FreshTerm
  <2>4. CASE Borrowed(c, "tdp", w)
    <3>1. w \in Twins BY <2>4 DEF Borrowed
    <3>2. Source(w) = "none" BY <1>2, <1>3, <2>1, <3>1
    <3> QED BY <1>1, <1>4, <3>1, <3>2 DEF FreshTerm, Twins
  <2> QED BY <2>2, <2>3, <2>4
<1>5. ASSUME st.pass = "rtp" PROVE FreshTerm(c, st.pass, t)
  <2>1. Known(c, "tdp") \subseteq T /\ Sound(c, "rtp", R, st)
    BY <1>5 DEF Ready
  <2>2. (w \in R /\ w # "saved decode energy") \/ Borrowed(c, "rtp", w)
    BY <2>1 DEF Sound, w
  <2>3. CASE w \in R /\ w # "saved decode energy"
    <3>1. Source(w) = "rtp" BY <1>2, <2>3
    <3> QED BY <1>1, <1>5, <2>3, <3>1 DEF FreshTerm
  <2>4. CASE w = "saved decode energy" /\ c.root = "Core"
    <3>1. w \in T BY <2>1, <2>4 DEF Known
    <3>2. w \notin R BY <1>3, <2>4 DEF Spared
    <3>3. Source(w) = "tdp" BY <1>2, <3>1, <3>2
    <3> QED BY <1>1, <1>5, <2>4, <3>3 DEF FreshTerm
  <2>5. CASE w = "homenode" /\ c.dir_ty = "SBT" /\ HasCache(c)
    <3>1. w \in T BY <2>1, <2>5 DEF Known
    <3>2. w \notin R BY <1>3, <2>5 DEF Spared
    <3>3. Source(w) = "tdp" BY <1>2, <3>1, <3>2
    <3> QED BY <1>1, <1>5, <2>5, <3>3 DEF FreshTerm
  <2>6. CASE w = "one access" BY <1>1, <1>5, <2>6 DEF FreshTerm
  <2>7. CASE w = "unicache.apcaches" /\ Directory(c)
    <3>1. w \notin R BY <1>3, <2>7 DEF Spared
    <3>2. w \notin T BY <1>3, <2>7 DEF Twins
    <3>3. Source(w) = "none" BY <1>2, <3>1, <3>2
    <3> QED BY <1>1, <2>7, <3>3 DEF FreshTerm, Directory
  <2> QED BY <2>2, <2>3, <2>4, <2>5, <2>6, <2>7 DEF Borrowed
<1>6. st.pass \in {"tdp", "rtp"} BY DEF Ready
<1> QED BY <1>4, <1>5, <1>6 DEF t, w

\* Powers made of fresh terms.
LEMMA FreshBags ==
    ASSUME NEW c, NEW pass
    PROVE  /\ FreshPower(c, pass, EmptyBag)
           /\ \A S : (\A t \in S : FreshTerm(c, pass, t))
                       => FreshPower(c, pass, SetToBag(S))
           /\ \A a, b : FreshPower(c, pass, a) /\ FreshPower(c, pass, b)
                          => FreshPower(c, pass, a (+) b)
<1>1. FreshPower(c, pass, EmptyBag) BY DEF FreshPower, EmptyBag, SetToBag
<1>2. ASSUME NEW S, \A t \in S : FreshTerm(c, pass, t)
      PROVE  FreshPower(c, pass, SetToBag(S))
  BY <1>2 DEF FreshPower, SetToBag
<1>3. ASSUME NEW a, NEW b, FreshPower(c, pass, a), FreshPower(c, pass, b)
      PROVE  FreshPower(c, pass, a (+) b)
  <2>1. DOMAIN (a (+) b) = DOMAIN a \cup DOMAIN b BY DEF (+)
  <2> QED BY <1>3, <2>1 DEF FreshPower
<1> QED BY <1>1, <1>2, <1>3

\* So is the power of an object, set or not.
LEMMA PowerOfFresh ==
    ASSUME NEW c, FreshPowers(c, power), NEW pass \in {"tdp", "rtp"}, NEW n
    PROVE  FreshPower(c, pass, PowerOf(pass, n))
<1>1. FreshPower(c, pass, EmptyBag) BY FreshBags
<1> QED BY <1>1 DEF FreshPowers, PowerOf

\* Two powers are set, one of them for the sum.
LEMMA SetTwoPowers ==
    ASSUME NEW c, FreshPowers(c, power), NEW pass \in {"tdp", "rtp"},
           NEW m, NEW a, NEW n, NEW b,
           FreshPower(c, pass, a), FreshPower(c, pass, b),
           NEW f, f = Entry(m, a) ++ Entry(n, b) \/ f = Entry(n, b),
           NEW w, w = [power EXCEPT ![pass] = f ++ @]
    PROVE  FreshPowers(c, w)
<1>1. \A q \in DOMAIN f : FreshPower(c, pass, f[q])
  <2>1. /\ DOMAIN Entry(m, a) = {m} /\ Entry(m, a)[m] = a
        /\ DOMAIN Entry(n, b) = {n} /\ Entry(n, b)[n] = b
    BY DEF Entry
  <2> DEFINE e == Entry(m, a)
             g == Entry(n, b)
  <2> HIDE DEF e, g
  <2>2. ASSUME NEW q \in DOMAIN (e ++ g)
        PROVE  FreshPower(c, pass, (e ++ g)[q])
    BY <2>1, <2>2 DEF ++, e, g
  <2>3. ASSUME NEW q \in DOMAIN g PROVE FreshPower(c, pass, g[q])
    BY <2>1, <2>3 DEF g
  <2>4. f = e ++ g \/ f = g BY DEF e, g
  <2> QED BY <2>2, <2>3, <2>4
<1> DEFINE h == f ++ power[pass]
<1>2. \A q \in DOMAIN h : FreshPower(c, pass, h[q])
  BY <1>1 DEF FreshPowers, ++
<1>3. /\ DOMAIN w = DOMAIN power
      /\ \A k \in DOMAIN power : w[k] = IF k = pass THEN h ELSE power[k]
  OBVIOUS
<1> HIDE DEF h
<1> QED BY <1>2, <1>3 DEF FreshPowers

-----------------------------------------------------------------------------
(* The inductive invariant of the energy passes. *)

\* In the beginning no power is stale.
LEMMA NoPowerFresh ==
    ASSUME NEW c
    PROVE  FreshPowers(c, NoPower)
<1>1. DOMAIN NoPower = {"tdp", "rtp"} BY DEF NoPower
<1>2. \A pass \in {"tdp", "rtp"} : DOMAIN NoPower[pass] = {}
  <2>1. DOMAIN <<>> = {} OBVIOUS
  <2>2. \A pass \in {"tdp", "rtp"} : NoPower[pass] = <<>> BY DEF NoPower
  <2> QED BY <2>1, <2>2
<1> QED BY <1>1, <1>2 DEF FreshPowers

\* In the beginning nothing is counted.
LEMMA NothingCounted ==
    ASSUME NEW s
    PROVE  StatsRight(<<>>, InPass(s, 1 - 1, "tdp"), InPass(s, 1 - 1, "rtp"))
<1>1. 1 - 1 = 0 /\ 1 .. 0 = {} OBVIOUS
<1>2. InPass(s, 1 - 1, "tdp") = {} /\ InPass(s, 1 - 1, "rtp") = {}
  BY <1>1 DEF InPass
<1>3. DOMAIN <<>> = {} OBVIOUS
<1> QED BY <1>2, <1>3 DEF StatsRight

\* The invariant holds in the beginning.
LEMMA ComputationInit ==
    ASSUME EInit
    PROVE  Computation
<1>1. Construction BY ConstructionInit DEF EInit
<1>2. FreshPowers(cfg, NoPower) BY NoPowerFresh
<1>3. power = NoPower BY DEF EInit, NoPower
<1>4. Turn BY <1>3 DEF EInit, Turn
<1>5. Assignments /\ Freeing BY DEF EInit, Assignments, Freeing
<1> QED BY <1>1, <1>2, <1>3, <1>4, <1>5 DEF Computation

\* The other phases leave the construction alone.
LEMMA ConstructionLeft ==
    ASSUME Construction, UNCHANGED vars
    PROVE  Construction'
  BY ConstructionStep

\* Construct keeps the invariant.
LEMMA ConstructStep ==
    ASSUME Computation, Construct
    PROVE  Computation'
<1>1. Construction' BY ConstructionStep DEF Computation, Construct
<1>2. /\ epc' = 1 /\ stats' = <<>> /\ power' = NoPower
      /\ phase' \in {"construct", "compute"}
      /\ phase' = "compute" => state' = "done"
  BY DEF Computation, Construct, Turn
<1>3. FreshPowers(cfg', power') BY <1>2, NoPowerFresh
<1>4. cfg' \in Configs BY <1>1 DEF Construction, Position
<1>5. Len(Energy[cfg']) \in Nat \ {0} BY <1>4, EnergyOf
<1>6. Turn'
  <2>1. 1 \in 1 .. Len(Energy[cfg']) BY <1>5
  <2>2. NoPower' = NoPower BY DEF NoPower
  <2> QED BY <1>2, <2>1, <2>2 DEF Turn
<1>7. Assignments'
  <2>1. StatsRight(<<>>, InPass(Energy[cfg'], 1 - 1, "tdp"),
                   InPass(Energy[cfg'], 1 - 1, "rtp"))
    BY NothingCounted
  <2> QED BY <1>2, <2>1 DEF Assignments
<1>8. Freeing' BY <1>2 DEF Freeing
<1> QED BY <1>1, <1>3, <1>6, <1>7, <1>8 DEF Computation

\* What is known of the statement to be executed.
LEMMA UponEstmt ==
    ASSUME Computation, phase = "compute"
    PROVE  /\ cfg \in Configs /\ cfg \in ConfigType
           /\ epc \in 1 .. Len(Energy[cfg]) /\ Len(Energy[cfg]) \in Nat
           /\ Ready(cfg, InPass(Energy[cfg], epc - 1, "tdp"),
                    InPass(Energy[cfg], epc - 1, "rtp"), estmt)
           /\ StatsRight(stats, InPass(Energy[cfg], epc - 1, "tdp"),
                         InPass(Energy[cfg], epc - 1, "rtp"))
           /\ estmt.pass \in {"tdp", "rtp"}
<1>1. cfg \in Configs BY DEF Computation, Construction, Position
<1>2. cfg \in ConfigType BY <1>1, ConfigsAssumption
<1>3. epc \in 1 .. Len(Energy[cfg]) BY DEF Computation, Turn
<1>4. /\ Len(Energy[cfg]) \in Nat
      /\ Ready(cfg, InPass(Energy[cfg], epc - 1, "tdp"),
               InPass(Energy[cfg], epc - 1, "rtp"), Energy[cfg][epc])
  BY <1>1, <1>3, EnergyOf
<1>5. estmt = Energy[cfg][epc] BY DEF estmt
<1>6. StatsRight(stats, InPass(Energy[cfg], epc - 1, "tdp"),
                 InPass(Energy[cfg], epc - 1, "rtp"))
  BY DEF Computation, Assignments
<1>7. estmt.pass \in {"tdp", "rtp"} BY <1>4, <1>5 DEF Ready
<1> QED BY <1>1, <1>2, <1>3, <1>4, <1>5, <1>6, <1>7

\* A statement that counts the accesses it says and sets fresh powers.
LEMMA EnergyStep ==
    ASSUME Computation, phase = "compute", NextEnergy,
           LET T == InPass(Energy[cfg], epc - 1, "tdp")
               R == InPass(Energy[cfg], epc - 1, "rtp")
               A(pass) == IF estmt.pass = pass THEN Assigns(estmt) ELSE {}
           IN  StatsRight(stats', T \cup A("tdp"), R \cup A("rtp")),
           FreshPowers(cfg, power')
    PROVE  Computation'
<1> DEFINE E == Energy[cfg]
<1>1. /\ epc \in 1 .. Len(E) /\ Len(E) \in Nat /\ estmt = E[epc]
  BY UponEstmt DEF estmt
<1>2. /\ vars' = vars /\ epc' = epc + 1
      /\ phase' = IF epc = Len(E) THEN "display" ELSE "compute"
  BY DEF NextEnergy
<1>3. cfg' = cfg /\ state' = state BY <1>2 DEF vars
<1>4. Construction' BY <1>2, ConstructionLeft DEF Computation
<1>5. epc \in Nat \ {0} /\ epc' - 1 = epc BY <1>1, <1>2
<1>6. StatsRight(stats', InPass(E, epc, "tdp"), InPass(E, epc, "rtp"))
  <2>1. /\ InPass(E, epc, "tdp")
             = InPass(E, epc - 1, "tdp")
                 \cup (IF E[epc].pass = "tdp" THEN Assigns(E[epc]) ELSE {})
        /\ InPass(E, epc, "rtp")
             = InPass(E, epc - 1, "rtp")
                 \cup (IF E[epc].pass = "rtp" THEN Assigns(E[epc]) ELSE {})
    BY <1>5, InPassNext
  <2> QED BY <1>1, <2>1
<1> HIDE DEF E
<1>7. Turn'
  <2>1. state = "done" BY DEF Computation, Turn
  <2>2. Energy[cfg'] = E BY <1>3 DEF E
  <2>3. phase' = "compute" => epc' \in 1 .. Len(E) BY <1>1, <1>2
  <2> QED BY <1>2, <1>3, <2>1, <2>2, <2>3 DEF Turn
<1>8. Assignments' BY <1>3, <1>5, <1>6 DEF Assignments, E
<1>9. Freeing' BY <1>2 DEF Freeing
<1>10. FreshPowers(cfg', power') BY <1>3
<1> QED BY <1>4, <1>7, <1>8, <1>9, <1>10 DEF Computation

\* A statement that counts nothing.
LEMMA PowerStep ==
    ASSUME Computation, phase = "compute", NextEnergy, stats' = stats,
           estmt.op \notin {"stats", "fu"}, FreshPowers(cfg, power')
    PROVE  Computation'
<1>1. Assigns(estmt) = {} BY DEF Assigns
<1>2. StatsRight(stats, InPass(Energy[cfg], epc - 1, "tdp"),
                 InPass(Energy[cfg], epc - 1, "rtp"))
  BY UponEstmt
<1> QED BY <1>1, <1>2, EnergyStep

-----------------------------------------------------------------------------
(* Each action keeps the invariant. *)

\* InitStats keeps the invariant.
LEMMA InitStatsStep ==
    ASSUME Computation, InitStats
    PROVE  Computation'
<1>1. /\ phase = "compute" /\ estmt.op = "stats" /\ NextEnergy /\ power' = power
      /\ stats' = [p \in estmt.parts |-> estmt.pass] ++ stats
  BY DEF InitStats, EStep
<1>2. Assigns(estmt) = estmt.parts BY <1>1 DEF Assigns
<1> DEFINE T == InPass(Energy[cfg], epc - 1, "tdp")
           R == InPass(Energy[cfg], epc - 1, "rtp")
           A == Assigns(estmt)
<1>3. Ready(cfg, T, R, estmt) /\ StatsRight(stats, T, R) BY <1>1, UponEstmt
<1> HIDE DEF T, R, A
<1>4. StatsRight([p \in A |-> estmt.pass] ++ stats,
                 T \cup (IF estmt.pass = "tdp" THEN A ELSE {}),
                 R \cup (IF estmt.pass = "rtp" THEN A ELSE {}))
  BY <1>3, StatsAfter DEF A
<1>5. stats' = [p \in A |-> estmt.pass] ++ stats BY <1>1, <1>2 DEF A
<1>6. StatsRight(stats', T \cup (IF estmt.pass = "tdp" THEN A ELSE {}),
                 R \cup (IF estmt.pass = "rtp" THEN A ELSE {}))
  BY <1>4, <1>5
<1>7. FreshPowers(cfg, power') BY <1>1 DEF Computation
<1> QED BY <1>1, <1>6, <1>7, EnergyStep DEF T, R, A

\* Leakage is fresh in every pass.
LEMMA LeakageFresh ==
    ASSUME NEW c, NEW pass, NEW L
    PROVE  FreshPower(c, pass, SetToBag({<<p, "leakage", "none">> : p \in L}))
<1> DEFINE S == {<<p, "leakage", "none">> : p \in L}
<1>1. \A t \in S : FreshTerm(c, pass, t)
  <2>1. ASSUME NEW p \in L PROVE FreshTerm(c, pass, <<p, "leakage", "none">>)
    <3> DEFINE t == <<p, "leakage", "none">>
    <3>1. t[2] = "leakage" OBVIOUS
    <3> HIDE DEF t
    <3>2. FreshTerm(c, pass, t) BY <3>1 DEF FreshTerm
    <3> QED BY <3>2 DEF t
  <2> QED BY <2>1
<1> HIDE DEF S
<1>2. FreshPower(c, pass, SetToBag(S)) BY <1>1, FreshBags
<1> QED BY <1>2 DEF S

\* So is a term counted in this pass, for something else than decoding.
LEMMA OwnPassFresh ==
    ASSUME NEW c, NEW pass, NEW p, NEW what, what # "saved decode energy"
    PROVE  FreshTerm(c, pass, <<p, what, pass>>)
<1> DEFINE t == <<p, what, pass>>
<1>1. t[2] = what /\ t[3] = pass OBVIOUS
<1> HIDE DEF t
<1>2. FreshTerm(c, pass, t) BY <1>1 DEF FreshTerm
<1> QED BY <1>2 DEF t

\* PartPower keeps the invariant.
LEMMA PartPowerStep ==
    ASSUME Computation, PartPower
    PROVE  Computation'
<1> DEFINE pass == estmt.pass
           D == {<<d[1], d[2], Source(d[2])>> : d \in estmt.dyn}
           L == {<<p, "leakage", "none">> : p \in estmt.lkg}
           power_t == SetToBag(D)
           all == power_t (+) SetToBag(L)
           adds == CASE estmt.adds = "power"   -> all
                     [] estmt.adds = "power_t" -> power_t
                     [] OTHER                  -> EmptyBag
           m == estmt.name
           n == estmt.into
           b == PowerOf(pass, n) (+) adds
           f == Entry(m, all) ++ Entry(n, b)
<1>1. /\ phase = "compute" /\ estmt.op = "part" /\ NextEnergy /\ stats' = stats
      /\ power' = [power EXCEPT ![pass] = f ++ @]
  BY DEF PartPower, EStep, SetPower
<1>2. FreshPowers(cfg, power) BY DEF Computation
<1>3. pass \in {"tdp", "rtp"} BY <1>1, UponEstmt
<1>4. FreshPower(cfg, pass, power_t)
  <2>1. \A t \in D : FreshTerm(cfg, pass, t)
    <3>1. ASSUME NEW d \in estmt.dyn
          PROVE  FreshTerm(cfg, pass, <<d[1], d[2], Source(d[2])>>)
      BY <1>1, UponEstmt, TermFresh
    <3> QED BY <3>1
  <2> HIDE DEF D
  <2> QED BY <2>1, FreshBags
<1>5. FreshPower(cfg, pass, SetToBag(L)) BY LeakageFresh
<1> HIDE DEF D, L, power_t, pass
<1>6. FreshPower(cfg, pass, all) BY <1>4, <1>5, FreshBags
<1>7. FreshPower(cfg, pass, EmptyBag) BY FreshBags
<1> HIDE DEF all
<1>8. FreshPower(cfg, pass, adds)
  <2>1. adds = all \/ adds = power_t \/ adds = EmptyBag OBVIOUS
  <2> HIDE DEF adds
  <2> QED BY <1>4, <1>6, <1>7, <2>1
<1>9. FreshPower(cfg, pass, PowerOf(pass, n)) BY <1>2, <1>3, PowerOfFresh
<1> HIDE DEF adds, n, m
<1>10. FreshPower(cfg, pass, b) BY <1>8, <1>9, FreshBags
<1> HIDE DEF b
<1>11. f = Entry(m, all) ++ Entry(n, b) OBVIOUS
<1> HIDE DEF f
<1>12. FreshPowers(cfg, power')
  BY <1>1, <1>2, <1>3, <1>6, <1>10, <1>11, SetTwoPowers
<1> QED BY <1>1, <1>12, PowerStep

\* SubTotal keeps the invariant.
LEMMA SubTotalStep ==
    ASSUME Computation, SubTotal
    PROVE  Computation'
<1> DEFINE pass == estmt.pass
           n == estmt.into
           b == PowerOf(pass, n) (+) PowerOf(pass, estmt.name)
           f == Entry(n, b)
<1>1. /\ phase = "compute" /\ estmt.op = "sub" /\ NextEnergy /\ stats' = stats
      /\ power' = [power EXCEPT ![pass] = f ++ @]
  BY DEF SubTotal, EStep, SetPower
<1>2. FreshPowers(cfg, power) BY DEF Computation
<1>3. pass \in {"tdp", "rtp"} BY <1>1, UponEstmt
<1> HIDE DEF pass
<1>4. /\ FreshPower(cfg, pass, PowerOf(pass, n))
      /\ FreshPower(cfg, pass, PowerOf(pass, estmt.name))
  BY <1>2, <1>3, PowerOfFresh
<1> HIDE DEF n
<1>5. FreshPower(cfg, pass, b) BY <1>4, FreshBags
<1> HIDE DEF b
<1>6. f = Entry(n, b) OBVIOUS
<1> HIDE DEF f
<1>7. FreshPowers(cfg, power')
  BY <1>1, <1>2, <1>3, <1>5, <1>6, SetTwoPowers
<1> QED BY <1>1, <1>7, PowerStep

\* PipeShare keeps the invariant.
LEMMA PipeShareStep ==
    ASSUME Computation, PipeShare
    PROVE  Computation'
<1> DEFINE pass == estmt.pass
           m == estmt.name
           S == {<<"corepipe", "share", pass>>}
           unit == PowerOf(pass, m) (+) SetToBag(S)
           n == "Core"
           b == PowerOf(pass, n) (+) unit
           f == Entry(m, unit) ++ Entry(n, b)
<1>1. /\ phase = "compute" /\ estmt.op = "share" /\ NextEnergy /\ stats' = stats
      /\ power' = [power EXCEPT ![pass] = f ++ @]
  BY DEF PipeShare, EStep, SetPower
<1>2. FreshPowers(cfg, power) BY DEF Computation
<1>3. pass \in {"tdp", "rtp"} BY <1>1, UponEstmt
<1> HIDE DEF pass
<1>4. FreshPower(cfg, pass, SetToBag(S))
  <2>1. FreshTerm(cfg, pass, <<"corepipe", "share", pass>>) BY OwnPassFresh
  <2>2. \A t \in S : FreshTerm(cfg, pass, t) BY <2>1
  <2> HIDE DEF S
  <2> QED BY <2>2, FreshBags
<1> HIDE DEF S, n, m
<1>5. FreshPower(cfg, pass, PowerOf(pass, m)) /\ FreshPower(cfg, pass, PowerOf(pass, n))
  BY <1>2, <1>3, PowerOfFresh
<1>6. FreshPower(cfg, pass, unit) BY <1>4, <1>5, FreshBags
<1> HIDE DEF unit
<1>7. FreshPower(cfg, pass, b) BY <1>5, <1>6, FreshBags
<1> HIDE DEF b
<1>8. f = Entry(m, unit) ++ Entry(n, b) OBVIOUS
<1> HIDE DEF f
<1>9. FreshPowers(cfg, power')
  BY <1>1, <1>2, <1>3, <1>6, <1>7, <1>8, SetTwoPowers
<1> QED BY <1>1, <1>9, PowerStep

\* FunctionalEnergy keeps the invariant.
LEMMA FunctionalEnergyStep ==
    ASSUME Computation, FunctionalEnergy
    PROVE  Computation'
<1> DEFINE pass == estmt.pass
           fu == estmt.name
           D == IF cfg.int_instructions = 0 THEN {<<fu, "NaN", pass>>}
                ELSE {<<fu, kind, pass>> :
                        kind \in FunctionalUnit(cfg, fu) \cap Executed(cfg)}
           L == IF pass = "tdp" THEN {<<fu, "leakage", "none">>} ELSE {}
           all == SetToBag(D \cup L)
           n == "exu"
           b == PowerOf(pass, n) (+) all
           f == Entry(fu, all) ++ Entry(n, b)
<1>1. /\ phase = "compute" /\ estmt.op = "fu" /\ NextEnergy
      /\ stats' = Entry(fu, pass) ++ stats
      /\ power' = [power EXCEPT ![pass] = f ++ @]
  BY DEF FunctionalEnergy, EStep, SetPower
<1>2. FreshPowers(cfg, power) BY DEF Computation
<1>3. pass \in {"tdp", "rtp"} BY <1>1, UponEstmt
<1>4. LET T == InPass(Energy[cfg], epc - 1, "tdp")
          R == InPass(Energy[cfg], epc - 1, "rtp")
          A(p) == IF estmt.pass = p THEN Assigns(estmt) ELSE {}
      IN  StatsRight(stats', T \cup A("tdp"), R \cup A("rtp"))
  <2> DEFINE T == InPass(Energy[cfg], epc - 1, "tdp")
             R == InPass(Energy[cfg], epc - 1, "rtp")
             A == Assigns(estmt)
  <2>1. Ready(cfg, T, R, estmt) /\ StatsRight(stats, T, R) BY <1>1, UponEstmt
  <2>2. A = {fu} BY <1>1 DEF Assigns
  <2> HIDE DEF T, R, A
  <2>3. StatsRight([p \in A |-> estmt.pass] ++ stats,
                   T \cup (IF estmt.pass = "tdp" THEN A ELSE {}),
                   R \cup (IF estmt.pass = "rtp" THEN A ELSE {}))
    BY <2>1, StatsAfter DEF A
  <2>4. Entry(fu, pass) = [p \in A |-> estmt.pass] BY <2>2 DEF Entry
  <2>5. StatsRight(stats', T \cup (IF estmt.pass = "tdp" THEN A ELSE {}),
                   R \cup (IF estmt.pass = "rtp" THEN A ELSE {}))
    BY <1>1, <2>3, <2>4
  <2> QED BY <2>5 DEF T, R, A
<1> HIDE DEF pass, fu
<1>5. \A t \in D : FreshTerm(cfg, pass, t)
  <2>1. FreshTerm(cfg, pass, <<fu, "NaN", pass>>) BY OwnPassFresh
  <2>2. ASSUME NEW kind \in FunctionalUnit(cfg, fu) \cap Executed(cfg)
        PROVE  FreshTerm(cfg, pass, <<fu, kind, pass>>)
    <3>1. kind # "saved decode energy" BY DEF FunctionalUnit
    <3> QED BY <3>1, OwnPassFresh
  <2> QED BY <2>1, <2>2
<1>6. \A t \in L : FreshTerm(cfg, pass, t)
  <2> DEFINE u == <<fu, "leakage", "none">>
  <2>1. u[2] = "leakage" OBVIOUS
  <2>2. \A t \in L : t = u OBVIOUS
  <2> HIDE DEF L, u
  <2> QED BY <2>1, <2>2 DEF FreshTerm
<1> HIDE DEF D, L, n
<1>7. FreshPower(cfg, pass, all)
  <2> DEFINE S == D \cup L
  <2>1. \A t \in S : FreshTerm(cfg, pass, t) BY <1>5, <1>6
  <2> HIDE DEF S
  <2>2. FreshPower(cfg, pass, SetToBag(S)) BY <2>1, FreshBags
  <2> QED BY <2>2 DEF S
<1> HIDE DEF all
<1>8. FreshPower(cfg, pass, PowerOf(pass, n)) BY <1>2, <1>3, PowerOfFresh
<1>9. FreshPower(cfg, pass, b) BY <1>7, <1>8, FreshBags
<1> HIDE DEF b
<1>10. f = Entry(fu, all) ++ Entry(n, b) OBVIOUS
<1> HIDE DEF f
<1>11. FreshPowers(cfg, power')
  BY <1>1, <1>2, <1>3, <1>7, <1>9, <1>10, SetTwoPowers
<1> QED BY <1>1, <1>4, <1>11, EnergyStep

-----------------------------------------------------------------------------
(* The actions after the passes. *)

\* Display keeps the invariant.
LEMMA DisplayStep ==
    ASSUME Computation, Display
    PROVE  Computation'
<1>1. /\ phase = "display" /\ phase' = "destroy"
      /\ vars' = vars /\ epc' = epc /\ stats' = stats /\ power' = power
  BY DEF Display
<1>2. cfg' = cfg /\ state' = state BY <1>1 DEF vars
<1>3. Construction' BY <1>1, ConstructionLeft DEF Computation
<1>4. Turn' BY <1>1, <1>2 DEF Computation, Turn
<1>5. Assignments' /\ Freeing' BY <1>1 DEF Assignments, Freeing
<1>6. FreshPowers(cfg', power') BY <1>1, <1>2 DEF Computation
<1> QED BY <1>3, <1>4, <1>5, <1>6 DEF Computation

\* Destroy keeps the invariant.
LEMMA DestroyStep ==
    ASSUME Computation, Destroy
    PROVE  Computation'
<1>1. /\ phase = "destroy" /\ phase' = "end"
      /\ vars' = vars /\ epc' = epc /\ stats' = stats /\ power' = power
      /\ freed' = IF cfg.root = "Core"
                  THEN {p \in Core_deletes(cfg) :
                          p \in DOMAIN built \cup BehindBPT}
                  ELSE {}
  BY DEF Destroy
<1>2. cfg' = cfg /\ state' = state /\ built' = built BY <1>1 DEF vars
<1>3. Construction' BY <1>1, ConstructionLeft DEF Computation
<1>4. Turn' BY <1>1, <1>2 DEF Computation, Turn
<1>5. Assignments' BY <1>1 DEF Assignments
<1>6. Freeing'
  <2>1. cfg.root = "Core" =>
          freed' = {p \in Core_deletes(cfg) : p \in DOMAIN built \cup BehindBPT}
    BY <1>1
  <2> QED BY <1>2, <2>1 DEF Freeing
<1>7. FreshPowers(cfg', power') BY <1>1, <1>2 DEF Computation
<1> QED BY <1>3, <1>4, <1>5, <1>6, <1>7 DEF Computation

\* So does a step that changes nothing.
LEMMA ComputationStill ==
    ASSUME Computation, UNCHANGED allvars
    PROVE  Computation'
<1>1. /\ vars' = vars /\ phase' = phase /\ epc' = epc /\ stats' = stats
      /\ power' = power /\ freed' = freed
  BY DEF allvars, evars
<1>2. cfg' = cfg /\ state' = state /\ built' = built BY <1>1 DEF vars
<1>3. Construction' BY <1>1, ConstructionLeft DEF Computation
<1>4. Turn' BY <1>1, <1>2 DEF Computation, Turn
<1>5. Assignments' BY <1>1, <1>2 DEF Computation, Assignments
<1>6. Freeing' BY <1>1, <1>2 DEF Computation, Freeing
<1>7. FreshPowers(cfg', power') BY <1>1, <1>2 DEF Computation
<1> QED BY <1>3, <1>4, <1>5, <1>6, <1>7 DEF Computation

\* Every step keeps the invariant.
LEMMA ComputationStep ==
    ASSUME Computation, [ENext]_allvars
    PROVE  Computation'
<1>1. CASE Construct BY <1>1, ConstructStep
<1>2. CASE InitStats BY <1>2, InitStatsStep
<1>3. CASE PartPower BY <1>3, PartPowerStep
<1>4. CASE SubTotal BY <1>4, SubTotalStep
<1>5. CASE PipeShare BY <1>5, PipeShareStep
<1>6. CASE FunctionalEnergy BY <1>6, FunctionalEnergyStep
<1>7. CASE Display BY <1>7, DisplayStep
<1>8. CASE Destroy BY <1>8, DestroyStep
<1>9. CASE Ended \/ UNCHANGED allvars BY <1>9, ComputationStill DEF Ended
<1> QED BY <1>1, <1>2, <1>3, <1>4, <1>5, <1>6, <1>7, <1>8, <1>9 DEF ENext

\* The inductive invariant: at each statement of the two energy passes it is
\* known which accesses were counted in which pass, all powers are fresh, and
\* after the construction every part of the configuration exists.
THEOREM ComputationInvariant == ESpec => []Computation
<1>1. EInit => Computation BY ComputationInit
<1>2. Computation /\ [ENext]_allvars => Computation' BY ComputationStep
<1> QED BY <1>1, <1>2, PTL DEF ESpec

-----------------------------------------------------------------------------
(* What the invariant says. *)

\* After the construction every part of the configuration is there.
LEMMA AllBuilt ==
    ASSUME Computation, phase # "construct"
    PROVE  DOMAIN built = ProgramParts(cfg)
<1>1. Construction /\ state = "done" BY DEF Computation, Turn
<1> QED BY <1>1, DoneBuilt

\* Only parts that exist are used.
LEMMA OnlyBuiltHolds ==
    ASSUME Computation
    PROVE  OnlyBuilt
<1> SUFFICES ASSUME phase = "compute" PROVE OnlyBuilt
  BY DEF OnlyBuilt
<1>1. DOMAIN built = ProgramParts(cfg) BY AllBuilt
<1>2. Touched(estmt) \subseteq ProgramParts(cfg)
  BY UponEstmt DEF Ready, Sound
<1> QED BY <1>1, <1>2 DEF OnlyBuilt, Touched

\* A part of a core is deleted by a unit, or is an array of a cache.
LEMMA DeletedOrCached ==
    ASSUME NEW c, c = cfg, NEW p \in CoreParts(c)
    PROVE  \/ p \in Core_deletes(c)
           \/ Kind(p) = "array" /\ Sized(p) \in CacheArrayNames
<1> DEFINE N == {"dcache.caches", "dcache.apcaches", "unicache.caches",
                 "unicache.apcaches", "unicache.missb", "unicache.ifb",
                 "unicache.prefetchb", "unicache.wbb"}
                  \cup IcacheParts \cup DcacheBuffers(c)
<1>1. ASSUME p \in N
      PROVE  Kind(p) = "array" /\ Sized(p) \in CacheArrayNames
  <2>1. Kind(p) = "array"
    BY <1>1 DEF Kind, LogicParts, WireParts, IcacheParts, DcacheBuffers
  <2>2. CASE p \in Twins
    <3>1. p \in {"dcache.apcaches", "unicache.apcaches"} BY <2>2 DEF Twins
    <3>2. Sized(p) = TwinOf(p) BY <2>2 DEF Sized
    <3>3. TwinOf(p) \in {"dcache.caches", "unicache.caches"}
      BY <3>1 DEF TwinOf, Twins
    <3>4. {"dcache.caches", "unicache.caches"} \subseteq CacheArrayNames
      BY DEF CacheArrayNames
    <3> QED BY <2>1, <3>2, <3>3, <3>4
  <2>3. CASE p \notin Twins
    <3>1. Sized(p) = p BY <2>3 DEF Sized
    <3>2. p \in CacheArrayNames
      <4> DEFINE M == {"dcache.caches", "unicache.caches", "unicache.missb",
                       "unicache.ifb", "unicache.prefetchb", "unicache.wbb"}
      <4>1. p \in M \/ p \in IcacheParts \/ p \in DcacheBuffers(cfg)
        BY <1>1, <2>3 DEF Twins
      <4>2. M \subseteq CacheArrayNames BY DEF CacheArrayNames
      <4>3. IcacheParts \subseteq CacheArrayNames BY DEF CacheArrayNames
      <4>4. DcacheBuffers(cfg) \subseteq CacheArrayNames BY DEF CacheArrayNames
      <4> QED BY <4>1, <4>2, <4>3, <4>4
    <3> QED BY <2>1, <3>1, <3>2
  <2> QED BY <2>2, <2>3
<1>2. CASE p \in PrivateParts(c)
  <2>1. p \in N
    BY <1>2 DEF PrivateParts, SharedCacheParts, SharedCacheCounted, UniBuffers
  <2> QED BY <1>1, <2>1
<1>3. CASE p \in InstFetchUParts(c)
  <2>1. p \in N \/ p \in InstFetchU_deletes(c)
    BY <1>3 DEF InstFetchUParts, InstFetchU_deletes
  <2> QED BY <1>1, <2>1 DEF Core_deletes
<1>4. CASE p \in LoadStoreUParts(c)
  <2>1. p \in N \/ p \in {"LSQ", "LoadQ"}
    BY <1>4 DEF LoadStoreUParts, LoadStoreUCounted
  <2> QED BY <1>1, <2>1 DEF Core_deletes
<1>5. CASE p \in MemManUParts BY <1>5 DEF MemManUParts, Core_deletes
<1>6. CASE p \in EXECUParts(c)
  <2>1. p \in EXECU_deletes
    <3>1. p \in RegFUParts(c) => p \in EXECU_deletes
      BY DEF RegFUParts, EXECU_deletes
    <3>2. p \in SchedulerUParts(c) => p \in EXECU_deletes
      BY DEF SchedulerUParts, SchedulerUCounted, EXECU_deletes
    <3>3. p \in Units(c) => p \in EXECU_deletes BY DEF Units, EXECU_deletes
    <3>4. p \in Wires(c) => p \in EXECU_deletes BY DEF Wires, EXECU_deletes
    <3> QED BY <1>6, <3>1, <3>2, <3>3, <3>4 DEF EXECUParts
  <2> QED BY <2>1 DEF Core_deletes
<1>7. CASE p \in RenamingParts(c)
  <2>1. p \in RENAMINGU_deletes
    BY <1>7 DEF RenamingParts, RENAMINGUParts, RENAMINGUCounted, RENAMINGU_deletes
  <2> QED BY <2>1 DEF Core_deletes
<1>8. CASE p \in {"undiffCore", "corepipe"} BY <1>8 DEF Core_deletes
<1> QED BY <1>2, <1>3, <1>4, <1>5, <1>6, <1>7, <1>8 DEF CoreParts

\* What is reached through BPT is deleted only with a predictor.
LEMMA BehindMade ==
    ASSUME NEW c, NEW p \in Core_deletes(c), p \in BehindBPT
    PROVE  p \in CoreParts(c)
<1>1. p \in InstFetchU_deletes(c)
  BY DEF BehindBPT, Core_deletes, RENAMINGU_deletes, EXECU_deletes, Tables
<1>2. p \notin {"IB", "BTB"} \cup Decoders BY DEF BehindBPT, Tables, Decoders
<1>3. c.predictionW > 0 /\ p \in Tables \cup {"RAS"}
  BY <1>1, <1>2 DEF InstFetchU_deletes, BehindBPT
<1> QED BY <1>3 DEF CoreParts, InstFetchUParts

\* All parts but those of caches are freed, and nothing that was not made.
LEMMA AllFreedHolds ==
    ASSUME Computation
    PROVE  AllFreed
<1> SUFFICES ASSUME phase = "end", cfg.root = "Core"
             PROVE  /\ freed \subseteq DOMAIN built
                    /\ \A p \in DOMAIN built :
                         built[p].op # "array"
                           \/ built[p].ip.line_sz \notin CacheArrayNames
                         => p \in freed
  BY DEF AllFreed
<1>1. freed = {p \in Core_deletes(cfg) : p \in DOMAIN built \cup BehindBPT}
  BY DEF Computation, Freeing
<1>2. DOMAIN built = CoreParts(cfg) BY AllBuilt DEF ProgramParts
<1>3. freed \subseteq DOMAIN built BY <1>1, <1>2, BehindMade
<1>4. ASSUME NEW p \in DOMAIN built,
             built[p].op # "array"
               \/ built[p].ip.line_sz \notin CacheArrayNames
      PROVE  p \in freed
  <2>1. PartRight(cfg, p, built[p]) BY <1>4 DEF Computation, Construction, Parts
  <2>2. built[p].op = Kind(p) BY <2>1 DEF PartRight
  <2>3. Kind(p) = "array" => built[p].ip.line_sz = Sized(p)
    BY <2>1, <2>2 DEF PartRight, GeometryRight
  <2>4. p \in Core_deletes(cfg) BY <1>2, <1>4, <2>2, <2>3, DeletedOrCached
  <2> QED BY <1>1, <1>4, <2>4
<1> QED BY <1>3, <1>4

\* Fresh powers are what FreshStats asks for.
LEMMA PowersFresh ==
    ASSUME FreshPowers(cfg, power)
    PROVE  FreshStats
<1> SUFFICES ASSUME NEW pass \in {"tdp", "rtp"}, NEW n \in DOMAIN power[pass],
                    NEW t \in BagToSet(power[pass][n])
             PROVE  FreshTerm(cfg, pass, t)
  BY DEF FreshStats, FreshTerm
<1>1. t \in DOMAIN power[pass][n] BY DEF BagToSet
<1> QED BY <1>1 DEF FreshPowers, FreshPower

\* The energy passes, the printout and the destructors leave the construction
\* alone: what is proved of Spec holds of the whole life of the object.
THEOREM EnergyKeepsConstruction == ESpec => Spec
<1>1. EInit => Init BY DEF EInit
<1>2. [ENext]_allvars => [Next]_vars
  <2> SUFFICES ASSUME ENext \/ UNCHANGED allvars PROVE Next \/ UNCHANGED vars
    OBVIOUS
  <2>1. CASE Construct BY <2>1 DEF Construct
  <2>2. NextEnergy => UNCHANGED vars BY DEF NextEnergy
  <2>3. CASE InitStats BY <2>2, <2>3 DEF InitStats
  <2>4. CASE PartPower BY <2>2, <2>4 DEF PartPower
  <2>5. CASE SubTotal BY <2>2, <2>5 DEF SubTotal
  <2>6. CASE PipeShare BY <2>2, <2>6 DEF PipeShare
  <2>7. CASE FunctionalEnergy BY <2>2, <2>7 DEF FunctionalEnergy
  <2>8. CASE Display BY <2>8 DEF Display
  <2>9. CASE Destroy BY <2>9 DEF Destroy
  <2>10. CASE Ended \/ UNCHANGED allvars BY <2>10 DEF Ended, allvars
  <2> QED
    BY <2>1, <2>3, <2>4, <2>5, <2>6, <2>7, <2>8, <2>9, <2>10 DEF ENext
<1> QED BY <1>1, <1>2, PTL DEF ESpec, Spec

\* No power is computed from the other pass's accesses.
THEOREM FreshStatsHolds == ESpec => []FreshStats
<1>1. Computation => FreshStats BY PowersFresh DEF Computation
<1> QED BY <1>1, ComputationInvariant, PTL

-----------------------------------------------------------------------------
(* The terms that the pieces of an energy pass add up. *)

\* One piece after another.
LEMMA KeepsConcat ==
    ASSUME NEW c, NEW s, NEW t, IsSeq(s), IsSeq(t), NEW a, NEW b, NEW e,
           Keeps(c, s, a, b), Keeps(c, t, b, e)
    PROVE  Keeps(c, s \o t, a, e)
<1> DEFINE m == Len(s)
           n == Len(t)
           u == s \o t
<1>1. PICK o1 : /\ DOMAIN o1 = 0 .. m /\ o1[0] = a /\ o1[m] = b
                /\ \A k \in 0 .. m : IsBook(o1[k])
                /\ \A k \in 1 .. m : Charges(c, s[k], o1[k - 1], o1[k])
  BY DEF Keeps
<1>2. PICK o2 : /\ DOMAIN o2 = 0 .. n /\ o2[0] = b /\ o2[n] = e
                /\ \A k \in 0 .. n : IsBook(o2[k])
                /\ \A k \in 1 .. n : Charges(c, t[k], o2[k - 1], o2[k])
  BY DEF Keeps
<1> DEFINE o == [k \in 0 .. m + n |-> IF k <= m THEN o1[k] ELSE o2[k - m]]
<1>3. /\ m \in Nat /\ n \in Nat /\ Len(u) = m + n
      /\ \A k \in 1 .. m : u[k] = s[k]
      /\ \A k \in 1 .. n : u[m + k] = t[k]
  BY SeqConcat
<1> HIDE DEF m, n, u
<1>4. DOMAIN o = 0 .. m + n OBVIOUS
<1>5. /\ \A k \in 0 .. m : o[k] = o1[k]
      /\ \A k \in 0 .. n : o[m + k] = o2[k]
  <2>1. ASSUME NEW k \in 0 .. m PROVE o[k] = o1[k] BY <1>3
  <2>2. ASSUME NEW k \in 0 .. n PROVE o[m + k] = o2[k]
    <3>1. m + k \in 0 .. m + n /\ (m + k) - m = k BY <1>3
    <3>2. CASE k = 0
      <4>1. o[m + k] = o1[m] BY <3>1, <3>2, <1>3
      <4> QED BY <4>1, <3>2, <1>1, <1>2
    <3>3. CASE k # 0
      <4>1. ~(m + k <= m) BY <3>3, <1>3
      <4> QED BY <3>1, <4>1
    <3> QED BY <3>2, <3>3
  <2> QED BY <2>1, <2>2
<1> HIDE DEF o
<1>6. o[0] = a /\ o[m + n] = e
  <2>1. 0 \in 0 .. m /\ n \in 0 .. n BY <1>3
  <2> QED BY <2>1, <1>5, <1>1, <1>2
<1>7. ASSUME NEW k \in 0 .. m + n PROVE IsBook(o[k])
  <2>1. k \in 0 .. m \/ (k - m \in 0 .. n /\ k = m + (k - m)) BY <1>3
  <2> QED BY <2>1, <1>5, <1>1, <1>2
<1>8. ASSUME NEW k \in 1 .. m + n PROVE Charges(c, u[k], o[k - 1], o[k])
  <2>1. CASE k <= m
    <3>1. k \in 1 .. m /\ k \in 0 .. m /\ k - 1 \in 0 .. m BY <2>1, <1>3
    <3> QED BY <3>1, <1>1, <1>3, <1>5
  <2>2. CASE ~(k <= m)
    <3>1. PICK j \in 1 .. n : k = m + j
      <4>1. k - m \in 1 .. n /\ k = m + (k - m) BY <2>2, <1>3
      <4> QED BY <4>1
    <3>2. j \in 0 .. n /\ j - 1 \in 0 .. n /\ k - 1 = m + (j - 1)
      BY <3>1, <1>3
    <3> QED BY <3>1, <3>2, <1>2, <1>3, <1>5
  <2> QED BY <2>1, <2>2
<1>9. Keeps(c, u, a, e) BY <1>3, <1>4, <1>6, <1>7, <1>8 DEF Keeps
<1> QED BY <1>9 DEF u

\* A single statement.
LEMMA KeepsOne ==
    ASSUME NEW c, NEW st, NEW a, NEW b, IsBook(a), IsBook(b), Charges(c, st, a, b)
    PROVE  Keeps(c, <<st>>, a, b)
<1> DEFINE o == [k \in 0 .. 1 |-> IF k = 0 THEN a ELSE b]
<1>1. o[0] = a /\ o[1] = b /\ DOMAIN o = 0 .. 1 OBVIOUS
<1> HIDE DEF o
<1>2. \A k \in 1 .. 1 : Charges(c, <<st>>[k], o[k - 1], o[k]) BY <1>1, SeqOne
<1>3. \A k \in 0 .. 1 : IsBook(o[k])
  <2>1. \A k \in 0 .. 1 : k = 0 \/ k = 1 OBVIOUS
  <2> QED BY <2>1, <1>1
<1> QED BY <1>1, <1>2, <1>3, SeqOne DEF Keeps

\* No statements.
LEMMA KeepsNone ==
    ASSUME NEW c, NEW a, IsBook(a)
    PROVE  Keeps(c, <<>>, a, a)
<1> DEFINE o == [k \in {0} |-> a]
<1>1. o[0] = a /\ DOMAIN o = 0 .. 0 OBVIOUS
<1> HIDE DEF o
<1>2. \A k \in 0 .. 0 : IsBook(o[k])
  <2>1. \A k \in 0 .. 0 : k = 0 OBVIOUS
  <2> QED BY <2>1, <1>1
<1> QED BY <1>1, <1>2, SeqNone DEF Keeps

\* A payment changes one account.
LEMMA BookPaid ==
    ASSUME NEW m, IsBook(m), NEW u \in Accounts, NEW K
    PROVE  /\ IsBook(Paid(m, u, K))
           /\ Paid(m, u, K)[u] = m[u] \cup K
           /\ \A x \in Accounts : x # u => Paid(m, u, K)[x] = m[x]
<1>1. DOMAIN m = Accounts BY DEF IsBook
<1> QED BY <1>1 DEF IsBook, Paid

\* One piece after another, for the same account.
LEMMA PaysConcat ==
    ASSUME NEW c, NEW s, NEW t, NEW u, NEW K, NEW L, NEW V, NEW W,
           Pays(c, s, u, K, V), Pays(c, t, u, L, W),
           K \cap L = {}, V \cap W = {}, u \notin V \cup W, W \subseteq Accounts
    PROVE  Pays(c, s \o t, u, K \cup L, V \cup W)
<1>1. IsSeq(s) /\ IsSeq(t) /\ u \in Accounts BY DEF Pays
<1>2. IsSeq(s \o t) BY <1>1, SeqConcat
<1>3. ASSUME NEW m, IsBook(m), m[u] \cap (K \cup L) = {},
             \A v \in V \cup W : m[v] = {}
      PROVE  \E m2 : /\ IsBook(m2) /\ Keeps(c, s \o t, m, m2)
                     /\ m2[u] = m[u] \cup (K \cup L)
                     /\ \A x \in Accounts \ ((V \cup W) \cup {u}) : m2[x] = m[x]
  <2>1. m[u] \cap K = {} /\ \A v \in V : m[v] = {} BY <1>3
  <2>2. PICK m1 : /\ IsBook(m1) /\ Keeps(c, s, m, m1) /\ m1[u] = m[u] \cup K
                  /\ \A x \in Accounts \ (V \cup {u}) : m1[x] = m[x]
    BY <1>3, <2>1 DEF Pays
  <2>3. m1[u] \cap L = {} BY <1>3, <2>2
  <2>4. \A v \in W : m1[v] = {} BY <1>3, <2>2
  <2>5. PICK m2 : /\ IsBook(m2) /\ Keeps(c, t, m1, m2) /\ m2[u] = m1[u] \cup L
                  /\ \A x \in Accounts \ (W \cup {u}) : m2[x] = m1[x]
    BY <2>2, <2>3, <2>4 DEF Pays
  <2>6. Keeps(c, s \o t, m, m2) BY <1>1, <2>2, <2>5, KeepsConcat
  <2>7. m2[u] = m[u] \cup (K \cup L) BY <2>2, <2>5
  <2>8. \A x \in Accounts \ ((V \cup W) \cup {u}) : m2[x] = m[x]
    BY <2>2, <2>5
  <2> QED BY <2>5, <2>6, <2>7, <2>8
<1> QED BY <1>1, <1>2, <1>3 DEF Pays

\* In particular when no other account is involved.
LEMMA PaysBoth ==
    ASSUME NEW c, NEW s, NEW t, NEW u, NEW K, NEW L,
           Pays(c, s, u, K, {}), Pays(c, t, u, L, {}), K \cap L = {}
    PROVE  Pays(c, s \o t, u, K \cup L, {})
<1> DEFINE none == {}
<1>1. none \cap none = {} /\ u \notin none \cup none /\ none \subseteq Accounts
  OBVIOUS
<1>2. none \cup none = none OBVIOUS
<1> HIDE DEF none
<1>3. Pays(c, s, u, K, none) /\ Pays(c, t, u, L, none) BY DEF none
<1>4. Pays(c, s \o t, u, K \cup L, none \cup none) BY <1>1, <1>3, PaysConcat
<1> QED BY <1>2, <1>4 DEF none

\* No statements.
LEMMA PaysNone ==
    ASSUME NEW c, NEW u \in Accounts
    PROVE  Pays(c, <<>>, u, {}, {})
<1>1. ASSUME NEW m, IsBook(m)
      PROVE  Keeps(c, <<>>, m, m) /\ m[u] = m[u] \cup {}
  BY <1>1, KeepsNone
<1> QED BY <1>1, SeqNone DEF Pays

\* A piece under a condition.
LEMMA PaysOnly ==
    ASSUME NEW c, NEW u \in Accounts, NEW cond, NEW s, NEW K,
           cond => Pays(c, s, u, K, {})
    PROVE  Pays(c, Only(cond, s), u, IF cond THEN K ELSE {}, {})
<1>1. CASE cond BY <1>1 DEF Only
<1>2. CASE ~cond
  <2>1. Pays(c, <<>>, u, {}, {}) BY PaysNone
  <2> QED BY <1>2, <2>1 DEF Only
<1> QED BY <1>1, <1>2

\* A statement that pays K into account u.
LEMMA PaysOne ==
    ASSUME NEW c, NEW st, NEW u \in Accounts, NEW K,
           \A m : IsBook(m) /\ m[u] \cap K = {} => Charges(c, st, m, Paid(m, u, K))
    PROVE  Pays(c, <<st>>, u, K, {})
<1>1. ASSUME NEW m, IsBook(m), m[u] \cap K = {}
      PROVE  \E m2 : /\ IsBook(m2) /\ Keeps(c, <<st>>, m, m2)
                     /\ m2[u] = m[u] \cup K
                     /\ \A x \in Accounts \ ({} \cup {u}) : m2[x] = m[x]
  <2> DEFINE m2 == Paid(m, u, K)
  <2>1. /\ IsBook(m2) /\ m2[u] = m[u] \cup K
        /\ \A x \in Accounts : x # u => m2[x] = m[x]
    BY <1>1, BookPaid
  <2>2. Charges(c, st, m, m2) BY <1>1
  <2> HIDE DEF m2
  <2>3. Keeps(c, <<st>>, m, m2) BY <1>1, <2>1, <2>2, KeepsOne
  <2> QED BY <2>1, <2>3
<1>2. IsSeq(<<st>>) BY SeqOne
<1> QED BY <1>1, <1>2 DEF Pays

\* Assignments of access counts.
LEMMA PaysStats ==
    ASSUME NEW c, NEW pass \in {"tdp", "rtp"}, NEW u \in Accounts, NEW parts,
           parts \cap Uncounted = {}
    PROVE  Pays(c, Stats(pass, parts), u, {}, {})
<1> DEFINE st == [op |-> "stats", pass |-> pass, parts |-> parts]
           none == {}
<1>1. st.op = "stats" /\ st.pass = pass /\ st.parts = parts OBVIOUS
<1>2. Stats(pass, parts) = <<st>> BY DEF Stats
<1> HIDE DEF st
<1>3. ASSUME NEW m, IsBook(m) PROVE Charges(c, st, m, Paid(m, u, none))
  <2> DEFINE m2 == Paid(m, u, none)
  <2>1. m2 = m
    <3>1. m2 = [m EXCEPT ![u] = @ \cup {}] BY DEF Paid
    <3>2. m2 = [m EXCEPT ![u] = m[u]] BY <3>1
    <3> QED BY <1>3, <3>2 DEF IsBook
  <2> HIDE DEF m2
  <2>2. Charges(c, st, m, m2) BY <1>1, <2>1 DEF Charges
  <2> QED BY <2>2 DEF m2
<1> HIDE DEF none
<1>4. Pays(c, <<st>>, u, none, {}) BY <1>3, PaysOne
<1> QED BY <1>2, <1>4 DEF none

\* A part.
LEMMA PaysPart ==
    ASSUME NEW c, NEW pass \in {"tdp", "rtp"}, NEW name, name \notin SumNames,
           NEW into \in SumNames, NEW dyn, NEW lkg, NEW adds,
           \A d \in dyn :
             d = <<d[1], d[2]>> /\ d[1] # "corepipe" /\ d[2] # "leakage",
           "corepipe" \notin lkg
    PROVE  Pays(c, Part(pass, name, into, dyn, lkg, adds), <<pass, into>>,
                AddedKeys(dyn, lkg, adds), {})
<1> DEFINE st == [op |-> "part", pass |-> pass, name |-> name, into |-> into,
                  dyn |-> dyn, lkg |-> lkg, adds |-> adds]
           K == AddedKeys(dyn, lkg, adds)
           u == <<pass, into>>
<1>1. /\ st.op = "part" /\ st.pass = pass /\ st.name = name /\ st.into = into
      /\ st.dyn = dyn /\ st.lkg = lkg /\ st.adds = adds
  OBVIOUS
<1>2. Part(pass, name, into, dyn, lkg, adds) = <<st>> BY DEF Part
<1>3. u \in Accounts BY DEF Accounts
<1> HIDE DEF st, K
<1>4. ASSUME NEW m, IsBook(m), m[u] \cap K = {}
      PROVE  Charges(c, st, m, Paid(m, u, K))
  BY <1>1, <1>4 DEF Charges, K
<1> HIDE DEF u
<1>5. Pays(c, <<st>>, u, K, {}) BY <1>3, <1>4, PaysOne
<1> QED BY <1>2, <1>5 DEF u, K

\* Its own accesses and leakage.
LEMMA PaysOwn ==
    ASSUME NEW c, NEW pass \in {"tdp", "rtp"}, NEW p,
           p \notin SumNames \cup {"corepipe", "leakage", "instruction_selection"},
           NEW into \in SumNames
    PROVE  Pays(c, Own(pass, p, into), <<pass, into>>, Owned({p}), {})
<1> DEFINE dyn == {<<p, p>>}
           lkg == {p}
           adds == "power"
<1>1. ASSUME NEW d \in dyn
      PROVE  d = <<d[1], d[2]>> /\ d[1] # "corepipe" /\ d[2] # "leakage"
  <2>1. d = <<p, p>> OBVIOUS
  <2> QED BY <2>1
<1>2. "corepipe" \notin lkg OBVIOUS
<1>3. AddedKeys(dyn, lkg, adds) = Owned({p})
  BY DEF AddedKeys, AllKeys, LeakKeys, Owned
<1>4. Own(pass, p, into) = Part(pass, p, into, dyn, lkg, adds) BY DEF Own
<1> HIDE DEF dyn, lkg, adds
<1>5. Pays(c, Part(pass, p, into, dyn, lkg, adds), <<pass, into>>,
           AddedKeys(dyn, lkg, adds), {})
  BY <1>1, <1>2, PaysPart
<1> QED BY <1>3, <1>4, <1>5

\* A functional unit.
LEMMA PaysFunctional ==
    ASSUME NEW c, NEW pass \in {"tdp", "rtp"}, NEW fu,
           fu \notin SumNames \cup {"corepipe"} \cup Uncounted
    PROVE  Pays(c, Functional(pass, fu), <<pass, "exu">>, FuKeys(c, pass, fu), {})
<1> DEFINE st == [op |-> "fu", pass |-> pass, name |-> fu]
           K == FuKeys(c, pass, fu)
           u == <<pass, "exu">>
<1>1. st.op = "fu" /\ st.pass = pass /\ st.name = fu OBVIOUS
<1>2. Functional(pass, fu) = <<st>> BY DEF Functional
<1>3. u \in Accounts BY DEF Accounts, SumNames
<1> HIDE DEF st, K
<1>4. ASSUME NEW m, IsBook(m), m[u] \cap K = {}
      PROVE  Charges(c, st, m, Paid(m, u, K))
  BY <1>1, <1>4 DEF Charges, K
<1> HIDE DEF u
<1>5. Pays(c, <<st>>, u, K, {}) BY <1>3, <1>4, PaysOne
<1> QED BY <1>2, <1>5 DEF u, K

\* A sum that goes into another one.
LEMMA SubKeeps ==
    ASSUME NEW c, NEW pass \in {"tdp", "rtp"}, NEW name \in SumNames,
           NEW into \in SumNames, NEW m, IsBook(m),
           NEW u, u = <<pass, into>>, NEW v, v = <<pass, name>>,
           NEW t, t = Sub(pass, name, into), m[u] \cap m[v] = {}
    PROVE  Leads(c, t, m, m, u, m[u] \cup m[v])
<1> DEFINE st == [op |-> "sub", pass |-> pass, name |-> name, into |-> into]
           K == m[v]
           m2 == Paid(m, u, K)
<1>1. st.op = "sub" /\ st.pass = pass /\ st.name = name /\ st.into = into
  OBVIOUS
<1>2. t = <<st>> BY DEF Sub
<1>3. u \in Accounts BY DEF Accounts
<1> HIDE DEF st
<1>4. Charges(c, st, m, m2) BY <1>1 DEF Charges
<1> HIDE DEF K
<1>5. /\ IsBook(m2) /\ m2[u] = m[u] \cup K
      /\ \A x \in Accounts : x # u => m2[x] = m[x]
  BY <1>3, BookPaid
<1> HIDE DEF m2
<1>6. Keeps(c, <<st>>, m, m2) BY <1>4, <1>5, KeepsOne
<1> QED BY <1>2, <1>5, <1>6 DEF K, Leads

\* A unit takes its share of the pipeline, the core the unit.
LEMMA ShareKeeps ==
    ASSUME NEW c, NEW pass \in {"tdp", "rtp"}, NEW name \in Sharers,
           NEW m, IsBook(m),
           NEW u, u = <<pass, name>>, NEW v, v = <<pass, "Core">>,
           NEW t, t = Share(pass, name),
           NEW K, K = m[u] \cup {PipeKey(name)},
           PipeKey(name) \notin m[u], m[v] \cap K = {}
    PROVE  Splits(c, t, m, m, u, v, K)
<1> DEFINE st == [op |-> "share", pass |-> pass, name |-> name]
           m1 == Paid(m, u, K)
           m2 == Paid(m1, v, K)
<1>1. st.op = "share" /\ st.pass = pass /\ st.name = name
  OBVIOUS
<1>2. t = <<st>> BY DEF Share
<1>3. u \in Accounts /\ v \in Accounts /\ u # v
  BY DEF Accounts, SumNames, Sharers
<1> HIDE DEF st
<1>4. Charges(c, st, m, m2) BY <1>1 DEF Charges
<1>5. m[u] \cup K = K OBVIOUS
<1>6. /\ IsBook(m1) /\ m1[u] = K
      /\ \A x \in Accounts : x # u => m1[x] = m[x]
  BY <1>3, <1>5, BookPaid
<1> HIDE DEF m1
<1>7. /\ IsBook(m2) /\ m2[v] = m1[v] \cup K
      /\ \A x \in Accounts : x # v => m2[x] = m1[x]
  BY <1>3, <1>6, BookPaid
<1> HIDE DEF m2
<1>8. Keeps(c, <<st>>, m, m2) BY <1>4, <1>7, KeepsOne
<1> QED BY <1>2, <1>3, <1>6, <1>7, <1>8 DEF Splits

\* Keys about different parts differ.
LEMMA AboutDisjoint ==
    ASSUME NEW K, NEW S, NEW L, NEW T, About(K, S), About(L, T), S \cap T = {}
    PROVE  K \cap L = {}
  BY DEF About

\* Keys of two pieces.
LEMMA AboutBoth ==
    ASSUME NEW K, NEW S, NEW L, NEW T, About(K, S), About(L, T)
    PROVE  About(K \cup L, S \cup T)
  BY DEF About

\* Own accesses and leakage.
LEMMA AboutOwned ==
    ASSUME NEW S
    PROVE  About(Owned(S), S)
<1>1. ASSUME NEW k \in Owned(S) PROVE k = <<k[1], k[2]>> /\ k[1] \in S
  <2>1. PICK p \in S : k = <<p, p>> \/ k = <<p, "leakage">> BY DEF Owned
  <2> QED BY <2>1
<1> QED BY <1>1 DEF About

\* Those of more parts.
LEMMA OwnedUnion ==
    ASSUME NEW S, NEW T
    PROVE  Owned(S) \cup Owned(T) = Owned(S \cup T)
  BY DEF Owned

\* Of no part.
LEMMA OwnedNone == Owned({}) = {}
  BY DEF Owned

\* One piece after another, about different parts.
LEMMA SpendsConcat ==
    ASSUME NEW c, NEW s, NEW t, NEW u, NEW K, NEW L, NEW S, NEW T,
           Spends(c, s, u, K, S), Spends(c, t, u, L, T), S \cap T = {}
    PROVE  Spends(c, s \o t, u, K \cup L, S \cup T)
<1>1. K \cap L = {} BY AboutDisjoint DEF Spends
<1>2. Pays(c, s \o t, u, K \cup L, {}) BY <1>1, PaysBoth DEF Spends
<1>3. About(K \cup L, S \cup T) BY AboutBoth DEF Spends
<1> QED BY <1>2, <1>3 DEF Spends

\* Assignments of access counts, then a piece.
LEMMA SpendsFirst ==
    ASSUME NEW c, NEW pass \in {"tdp", "rtp"}, NEW u, NEW parts,
           parts \cap Uncounted = {}, NEW s, NEW K, NEW S, Spends(c, s, u, K, S)
    PROVE  Spends(c, Stats(pass, parts) \o s, u, K, S)
<1> DEFINE none == {}
           t == Stats(pass, parts)
<1>1. u \in Accounts BY DEF Spends, Pays
<1>2. Pays(c, t, u, none, {}) BY <1>1, PaysStats
<1>3. none \cap K = {} /\ none \cup K = K OBVIOUS
<1> HIDE DEF none, t
<1>4. Pays(c, t \o s, u, none \cup K, {}) BY <1>2, <1>3, PaysBoth DEF Spends
<1> QED BY <1>3, <1>4 DEF Spends, t

\* A piece under a condition.
LEMMA SpendsOnly ==
    ASSUME NEW c, NEW u \in Accounts, NEW cond, NEW s, NEW K, NEW S,
           cond => Spends(c, s, u, K, S)
    PROVE  Spends(c, Only(cond, s), u, IF cond THEN K ELSE {},
                  IF cond THEN S ELSE {})
<1>1. Pays(c, Only(cond, s), u, IF cond THEN K ELSE {}, {})
  BY PaysOnly DEF Spends
<1>2. About(IF cond THEN K ELSE {}, IF cond THEN S ELSE {}) BY DEF Spends, About
<1> QED BY <1>1, <1>2 DEF Spends

\* An array of its own.
LEMMA SpendsOwn ==
    ASSUME NEW c, NEW pass \in {"tdp", "rtp"}, NEW p,
           p \notin SumNames \cup {"corepipe", "leakage", "instruction_selection"},
           NEW into \in SumNames
    PROVE  Spends(c, Own(pass, p, into), <<pass, into>>, Owned({p}), {p})
<1> DEFINE S == {p}
<1>1. Pays(c, Own(pass, p, into), <<pass, into>>, Owned(S), {}) BY PaysOwn
<1> HIDE DEF S
<1>2. About(Owned(S), S) BY AboutOwned
<1> QED BY <1>1, <1>2 DEF Spends, S

\* Arrays of their own, after others.
LEMMA SpendsMore ==
    ASSUME NEW c, NEW pass \in {"tdp", "rtp"}, NEW into \in SumNames, NEW s,
           NEW S, NEW p,
           Spends(c, s, <<pass, into>>, Owned(S), S), p \notin S,
           p \notin SumNames \cup {"corepipe", "leakage", "instruction_selection"}
    PROVE  Spends(c, s \o Own(pass, p, into), <<pass, into>>,
                  Owned(S \cup {p}), S \cup {p})
<1> DEFINE T == {p}
           t == Own(pass, p, into)
           u == <<pass, into>>
<1>1. Spends(c, t, u, Owned(T), T) BY SpendsOwn
<1>2. S \cap T = {} OBVIOUS
<1> HIDE DEF T, t, u
<1>3. Spends(c, s, u, Owned(S), S) BY DEF u
<1>4. Spends(c, s \o t, u, Owned(S) \cup Owned(T), S \cup T)
  BY <1>1, <1>2, <1>3, SpendsConcat
<1>5. Owned(S) \cup Owned(T) = Owned(S \cup T) BY OwnedUnion
<1> QED BY <1>4, <1>5 DEF T, t, u

\* The accounts.
LEMMA AccountOf ==
    ASSUME NEW pass \in {"tdp", "rtp"}, NEW into \in SumNames
    PROVE  <<pass, into>> \in Accounts
  BY DEF Accounts

\* The branch predictor.
LEMMA BranchPredictorPays ==
    ASSUME NEW c, NEW pass \in {"tdp", "rtp"}
    PROVE  Spends(c, BranchPredictor_energy(pass), <<pass, "BPT">>, BptKeys,
                  {"globalBPT", "L1_localBPT", "chooser", "RAS"})
<1> DEFINE u == <<pass, "BPT">>
           E == Tables \cup {"RAS"}
           s0 == Stats(pass, E)
           s1 == Own(pass, "globalBPT", "BPT")
           s2 == Own(pass, "L1_localBPT", "BPT")
           dyn == {<<"L2_localBPT", "L2_localBPT">>}
           lkg == {"L2_localBPT"}
           s3 == Part(pass, "L2_localBPT", "BPT", dyn, lkg, "nothing")
           s4 == Own(pass, "chooser", "BPT")
           s5 == Own(pass, "RAS", "BPT")
           none == {}
<1>1. BranchPredictor_energy(pass) = s0 \o s1 \o s2 \o s3 \o s4 \o s5
  BY DEF BranchPredictor_energy
<1>2. E \cap Uncounted = {} BY DEF Tables, Uncounted
<1>3. "BPT" \in SumNames
      /\ {"globalBPT", "L1_localBPT", "L2_localBPT", "chooser", "RAS"}
           \cap (SumNames \cup {"corepipe", "leakage", "instruction_selection"}) = {}
  BY DEF SumNames
<1>4. u \in Accounts BY <1>3, AccountOf
<1>5. Spends(c, s1, u, Owned({"globalBPT"}), {"globalBPT"}) BY <1>3, SpendsOwn
<1>6. Spends(c, s3, u, none, none)
  <2>1. ASSUME NEW d \in dyn
        PROVE  d = <<d[1], d[2]>> /\ d[1] # "corepipe" /\ d[2] # "leakage"
    <3>1. d = <<"L2_localBPT", "L2_localBPT">> OBVIOUS
    <3> QED BY <3>1
  <2>2. "corepipe" \notin lkg OBVIOUS
  <2>3. AddedKeys(dyn, lkg, "nothing") = none BY DEF AddedKeys
  <2> HIDE DEF dyn, lkg
  <2>4. Pays(c, s3, u, AddedKeys(dyn, lkg, "nothing"), {})
    BY <1>3, <2>1, <2>2, PaysPart
  <2> QED BY <2>3, <2>4 DEF Spends, About
<1> HIDE DEF s1, s3, E, u
<1>7. Spends(c, s0 \o s1, u, Owned({"globalBPT"}), {"globalBPT"})
  BY <1>2, <1>5, SpendsFirst
<1> HIDE DEF s0
<1>8. Spends(c, s0 \o s1 \o s2, u, Owned({"globalBPT"} \cup {"L1_localBPT"}),
             {"globalBPT"} \cup {"L1_localBPT"})
  <2> DEFINE S == {"globalBPT"}
             s == s0 \o s1
  <2>1. "L1_localBPT" \notin S OBVIOUS
  <2> HIDE DEF S, s
  <2>2. Spends(c, s, <<pass, "BPT">>, Owned(S), S) BY <1>7 DEF S, s, u
  <2>3. Spends(c, s \o s2, <<pass, "BPT">>, Owned(S \cup {"L1_localBPT"}),
               S \cup {"L1_localBPT"})
    BY <1>3, <2>1, <2>2, SpendsMore
  <2> QED BY <2>3 DEF S, s, u
<1> DEFINE S2 == {"globalBPT"} \cup {"L1_localBPT"}
<1> HIDE DEF none, s2
<1>9. Spends(c, s0 \o s1 \o s2 \o s3, u, Owned(S2), S2)
  <2> HIDE DEF S2
  <2>1. none \cap S2 = {} /\ S2 \cup none = S2 /\ Owned(S2) \cup none = Owned(S2)
    BY DEF none
  <2>2. Spends(c, s0 \o s1 \o s2, u, Owned(S2), S2) BY <1>8 DEF S2
  <2>3. Spends(c, s0 \o s1 \o s2 \o s3, u, Owned(S2) \cup none, S2 \cup none)
    BY <1>6, <2>1, <2>2, SpendsConcat
  <2> QED BY <2>1, <2>3
<1> DEFINE t == s0 \o s1 \o s2 \o s3
           S4 == S2 \cup {"chooser"}
           S5 == S4 \cup {"RAS"}
<1>10. "chooser" \notin S2 /\ "RAS" \notin S4 OBVIOUS
<1>11. S5 = {"globalBPT", "L1_localBPT", "chooser", "RAS"} OBVIOUS
<1> HIDE DEF t, S2
<1>12. Spends(c, t, <<pass, "BPT">>, Owned(S2), S2) BY <1>9 DEF t, u
<1>13. Spends(c, t \o s4, <<pass, "BPT">>, Owned(S4), S4)
  BY <1>3, <1>10, <1>12, SpendsMore
<1> HIDE DEF s4, S4
<1>14. Spends(c, t \o s4 \o s5, <<pass, "BPT">>, Owned(S5), S5)
  BY <1>3, <1>10, <1>13, SpendsMore
<1> QED BY <1>1, <1>11, <1>14 DEF BptKeys, t

\* Several arrays under one name.
LEMMA SpendsParts ==
    ASSUME NEW c, NEW pass \in {"tdp", "rtp"}, NEW name, name \notin SumNames,
           NEW into \in SumNames, NEW S,
           S \cap {"corepipe", "leakage", "instruction_selection"} = {}
    PROVE  Spends(c, Part(pass, name, into, {<<p, p>> : p \in S}, S, "power"),
                  <<pass, into>>, Owned(S), S)
<1> DEFINE dyn == {<<p, p>> : p \in S}
           adds == "power"
<1>1. ASSUME NEW d \in dyn
      PROVE  d = <<d[1], d[2]>> /\ d[1] # "corepipe" /\ d[2] # "leakage"
  <2>1. PICK p \in S : d = <<p, p>> OBVIOUS
  <2> QED BY <2>1
<1>2. "corepipe" \notin S OBVIOUS
<1>3. AddedKeys(dyn, S, adds) = Owned(S)
  <2>1. S \ {"instruction_selection"} = S OBVIOUS
  <2> QED BY <2>1 DEF AddedKeys, AllKeys, LeakKeys, Owned
<1> HIDE DEF dyn
<1>4. Pays(c, Part(pass, name, into, dyn, S, adds), <<pass, into>>,
           AddedKeys(dyn, S, adds), {})
  BY <1>1, <1>2, PaysPart
<1>5. About(Owned(S), S) BY AboutOwned
<1> QED BY <1>3, <1>4, <1>5 DEF Spends, dyn

\* The decoders.
LEMMA DecodersPay ==
    ASSUME NEW c, NEW pass \in {"tdp", "rtp"}
    PROVE  Spends(c, decoders_energy(pass), <<pass, "ifu">>, DecodeKeys(pass),
                  Decoders)
<1> DEFINE D == Decoders
           u == <<pass, "ifu">>
<1>1. "ifu" \in SumNames /\ "ID" \notin SumNames BY DEF SumNames
<1>2. D \cap {"corepipe", "leakage", "instruction_selection"} = {}
  BY DEF Decoders
<1>3. CASE pass = "tdp"
  <2> DEFINE E == {"saved decode energy"}
             t == Part(pass, "ID", "ifu", {<<d, d>> : d \in D}, D, "power")
  <2>1. decoders_energy(pass) = Stats(pass, E) \o t
    BY <1>3 DEF decoders_energy
  <2>2. E \cap Uncounted = {} BY DEF Uncounted
  <2>3. Spends(c, t, u, Owned(D), D) BY <1>1, <1>2, SpendsParts
  <2> HIDE DEF E, t, D, u
  <2>4. Spends(c, Stats(pass, E) \o t, u, Owned(D), D)
    BY <2>2, <2>3, SpendsFirst
  <2>5. DecodeKeys(pass) = Owned(D) BY <1>3 DEF DecodeKeys, D
  <2> QED BY <2>1, <2>4, <2>5 DEF u, D
<1>4. CASE pass # "tdp"
  <2> DEFINE dyn == {<<d, d>> : d \in D} \cup {<<d, "saved decode energy">> : d \in D}
             adds == "power"
             none == {}
  <2>1. decoders_energy(pass) = Part(pass, "ID", "ifu", dyn, none, adds)
    BY <1>4 DEF decoders_energy
  <2>2. ASSUME NEW d \in dyn
        PROVE  /\ d = <<d[1], d[2]>> /\ d[1] # "corepipe" /\ d[2] # "leakage"
               /\ d[1] \in D
    <3>1. PICK p \in D : d = <<p, p>> \/ d = <<p, "saved decode energy">>
      OBVIOUS
    <3>2. p # "corepipe" /\ p # "leakage" BY <1>2
    <3>3. CASE d = <<p, p>>
      <4>1. d[1] = p /\ d[2] = p /\ d = <<d[1], d[2]>> BY <3>3
      <4> QED BY <3>2, <4>1
    <3>4. CASE d = <<p, "saved decode energy">>
      <4>1. d[1] = p /\ d[2] = "saved decode energy" /\ d = <<d[1], d[2]>>
        BY <3>4
      <4> QED BY <3>2, <4>1
    <3> QED BY <3>1, <3>3, <3>4
  <2>3. AddedKeys(dyn, none, adds) = dyn
    BY DEF AddedKeys, AllKeys, LeakKeys
  <2>4. "corepipe" \notin none OBVIOUS
  <2>5. DecodeKeys(pass) = dyn BY <1>4 DEF DecodeKeys
  <2> HIDE DEF dyn, none, adds, D
  <2>6. Pays(c, Part(pass, "ID", "ifu", dyn, none, adds), u,
             AddedKeys(dyn, none, adds), {})
    BY <1>1, <2>2, <2>4, PaysPart
  <2>7. About(dyn, D) BY <2>2 DEF About
  <2> QED BY <2>1, <2>3, <2>5, <2>6, <2>7 DEF Spends, D
<1> QED BY <1>3, <1>4

\* A book goes on with a piece.
LEMMA GoOn ==
    ASSUME NEW c, NEW s, IsSeq(s), NEW m, NEW m1, Keeps(c, s, m, m1), IsBook(m1),
           NEW t, NEW u, NEW K, Pays(c, t, u, K, {}), m1[u] \cap K = {}
    PROVE  Leads(c, s \o t, m, m1, u, m1[u] \cup K)
<1>1. PICK m2 : /\ IsBook(m2) /\ Keeps(c, t, m1, m2) /\ m2[u] = m1[u] \cup K
                /\ \A x \in Accounts \ ({} \cup {u}) : m2[x] = m1[x]
  BY DEF Pays
<1>2. IsSeq(t) BY DEF Pays
<1>3. Keeps(c, s \o t, m, m2) BY <1>1, <1>2, KeepsConcat
<1>4. \A x \in Accounts : x # u => m2[x] = m1[x] BY <1>1
<1> QED BY <1>1, <1>3, <1>4 DEF Leads

\* A sum of one pass goes into another one.
LEMMA GoOnSub ==
    ASSUME NEW c, NEW s, IsSeq(s), NEW m, NEW m1, Keeps(c, s, m, m1), IsBook(m1),
           NEW pass \in {"tdp", "rtp"}, NEW name \in SumNames,
           NEW into \in SumNames,
           NEW u, u = <<pass, into>>, NEW v, v = <<pass, name>>,
           NEW t, t = Sub(pass, name, into), m1[u] \cap m1[v] = {}
    PROVE  Leads(c, s \o t, m, m1, u, m1[u] \cup m1[v])
<1>1. IsSeq(t) BY SeqOne DEF Sub
<1>2. Leads(c, t, m1, m1, u, m1[u] \cup m1[v]) BY SubKeeps
<1>3. PICK m2 : /\ IsBook(m2) /\ Keeps(c, t, m1, m2)
                /\ m2[u] = m1[u] \cup m1[v]
                /\ \A x \in Accounts : x # u => m2[x] = m1[x]
  BY <1>2 DEF Leads
<1>4. Keeps(c, s \o t, m, m2) BY <1>1, <1>3, KeepsConcat
<1> QED BY <1>3, <1>4 DEF Leads

\* InstFetchU.
LEMMA InstFetchUPays ==
    ASSUME NEW c, NEW pass \in {"tdp", "rtp"}
    PROVE  Pays(c, InstFetchU_energy(c, pass), <<pass, "ifu">>, IfuKeys(c, pass),
                {<<pass, "BPT">>})
<1> DEFINE u == <<pass, "ifu">>
           v == <<pass, "BPT">>
           pred == c.predictionW > 0
           E == IcacheParts \cup {"IB"} \cup Decoders
                  \cup (IF pred THEN {"BTB"} ELSE {})
           s0 == Stats(pass, E)
           bp == BranchPredictor_energy(pass)
           s1 == Only(pred, bp)
           s2 == Part(pass, "icache", "ifu", {<<p, p>> : p \in IcacheParts},
                      IcacheParts, "power")
           s3 == Own(pass, "IB", "ifu")
           btb == Own(pass, "BTB", "ifu")
           sub == Sub(pass, "BPT", "ifu")
           s4 == Only(pred, btb \o sub)
           s5 == decoders_energy(pass)
           BP == {"globalBPT", "L1_localBPT", "chooser", "RAS"}
           K2 == Owned(IcacheParts)
           K3 == Owned({"IB"})
           K4 == Owned({"BTB"})
           K5 == DecodeKeys(pass)
           all == K2 \cup K3 \cup K5 \cup (IF pred THEN K4 \cup BptKeys ELSE {})
<1>1. InstFetchU_energy(c, pass) = s0 \o s1 \o s2 \o s3 \o s4 \o s5
  BY DEF InstFetchU_energy, InstFetchU_stats
<1>2. E \cap Uncounted = {} BY DEF Uncounted, IcacheParts, Decoders
<1>3. /\ "ifu" \in SumNames /\ "BPT" \in SumNames /\ "icache" \notin SumNames
      /\ {"IB", "BTB"} \cap (SumNames \cup {"corepipe", "leakage",
                                           "instruction_selection"}) = {}
  BY DEF SumNames
<1>4. u \in Accounts /\ v \in Accounts /\ u # v BY <1>3, AccountOf
<1>5. IfuKeys(c, pass) = all BY OwnedUnion DEF IfuKeys
<1>6. Spends(c, s2, u, K2, IcacheParts)
  <2>1. IcacheParts \cap {"corepipe", "leakage", "instruction_selection"} = {}
    BY DEF IcacheParts
  <2> QED BY <1>3, <2>1, SpendsParts
<1>7. Spends(c, s3, u, K3, {"IB"}) /\ Spends(c, btb, u, K4, {"BTB"})
  BY <1>3, SpendsOwn
<1>8. Spends(c, s5, u, K5, Decoders) BY DecodersPay
<1>9. Spends(c, bp, v, BptKeys, BP) BY BranchPredictorPays
<1>10. /\ K2 \cap K3 = {} /\ K2 \cap K4 = {} /\ K2 \cap K5 = {}
       /\ K2 \cap BptKeys = {} /\ K3 \cap K4 = {} /\ K3 \cap K5 = {}
       /\ K3 \cap BptKeys = {} /\ K4 \cap K5 = {} /\ K4 \cap BptKeys = {}
       /\ K5 \cap BptKeys = {}
  <2>1. About(K2, IcacheParts) /\ About(K3, {"IB"}) /\ About(K4, {"BTB"})
        /\ About(K5, Decoders) /\ About(BptKeys, BP)
    BY <1>6, <1>7, <1>8, <1>9 DEF Spends
  <2> DEFINE home(p) == IF p \in IcacheParts THEN 2 ELSE IF p = "IB" THEN 3
                        ELSE IF p = "BTB" THEN 4 ELSE IF p \in Decoders THEN 5
                        ELSE 6
  <2>2. /\ \A k \in K2 : home(k[1]) = 2
        /\ \A k \in K3 : home(k[1]) = 3
        /\ \A k \in K4 : home(k[1]) = 4
        /\ \A k \in K5 : home(k[1]) = 5
        /\ \A k \in BptKeys : home(k[1]) = 6
    BY <2>1 DEF About, IcacheParts, Decoders
  <2> HIDE DEF home, K2, K3, K4, K5
  <2> QED BY <2>2
<1>17. /\ Pays(c, s2, u, K2, {}) /\ Pays(c, s3, u, K3, {})
       /\ Pays(c, btb, u, K4, {}) /\ Pays(c, s5, u, K5, {})
       /\ Pays(c, bp, v, BptKeys, {})
  <2> HIDE DEF s2, s3, btb, s5, bp, u, v, K2, K3, K4, K5
  <2> QED BY <1>6, <1>7, <1>8, <1>9 DEF Spends
<1>11. IsSeq(s0) /\ IsSeq(s1) /\ IsSeq(s2) /\ IsSeq(s3) /\ IsSeq(s4)
       /\ IsSeq(s5) /\ IsSeq(btb) /\ IsSeq(sub)
  <2>1. IsSeq(s0) /\ IsSeq(sub) BY SeqOne DEF Stats, Sub
  <2>2. IsSeq(bp) /\ IsSeq(s2) /\ IsSeq(s3) /\ IsSeq(btb) /\ IsSeq(s5)
    BY <1>6, <1>7, <1>8, <1>9 DEF Spends, Pays
  <2> HIDE DEF s0, bp, s2, s3, btb, sub, s5
  <2>3. IsSeq(btb \o sub) BY <2>1, <2>2, SeqConcat
  <2>4. IsSeq(s1) /\ IsSeq(s4) BY <2>2, <2>3, SeqNone DEF Only
  <2> QED BY <2>1, <2>2, <2>4
<1>12. Pays(c, s0, v, {}, {}) BY <1>2, <1>4, PaysStats
<1> HIDE DEF s0, bp, s2, s3, btb, s5, K2, K3, K4, K5, E, u, v, BP
<1>13. IsSeq(s0 \o s1) /\ IsSeq(s0 \o s1 \o s2) /\ IsSeq(s0 \o s1 \o s2 \o s3)
       /\ IsSeq(s0 \o s1 \o s2 \o s3 \o s4)
       /\ IsSeq(s0 \o s1 \o s2 \o s3 \o s4 \o s5)
  BY <1>11, SeqConcat
<1>14. ASSUME NEW m, IsBook(m), m[u] \cap all = {}, m[v] = {}
       PROVE  \E m2 : /\ IsBook(m2)
                      /\ Keeps(c, s0 \o s1 \o s2 \o s3 \o s4 \o s5, m, m2)
                      /\ m2[u] = m[u] \cup all
                      /\ \A x \in Accounts : x # u /\ x # v => m2[x] = m[x]
  <2>1. PICK m1 : /\ IsBook(m1) /\ Keeps(c, s0 \o s1, m, m1)
                  /\ m1[v] = IF pred THEN BptKeys ELSE {}
                  /\ \A x \in Accounts : x # v => m1[x] = m[x]
    <3> DEFINE K1 == IF pred THEN BptKeys ELSE {}
    <3>1. Pays(c, s1, v, K1, {}) BY <1>4, <1>17, PaysOnly
    <3> HIDE DEF K1, s1
    <3> DEFINE none == {}
    <3>2. none \cap K1 = {} /\ none \cup K1 = K1 OBVIOUS
    <3> HIDE DEF none
    <3>3. Pays(c, s0, v, none, {}) BY <1>12 DEF none
    <3>4. Pays(c, s0 \o s1, v, none \cup K1, {}) BY <3>1, <3>2, <3>3, PaysBoth
    <3>5. Pays(c, s0 \o s1, v, K1, {}) BY <3>2, <3>4
    <3>6. m[v] \cap K1 = {} /\ m[v] \cup K1 = K1 BY <1>14
    <3>7. PICK m1 : /\ IsBook(m1) /\ Keeps(c, s0 \o s1, m, m1)
                    /\ m1[v] = m[v] \cup K1
                    /\ \A x \in Accounts \ ({} \cup {v}) : m1[x] = m[x]
      BY <1>14, <3>5, <3>6 DEF Pays
    <3> QED BY <3>6, <3>7 DEF K1
  <2>2. m1[u] = m[u] BY <1>4, <2>1
  <2>3. PICK m2 : /\ IsBook(m2) /\ Keeps(c, s0 \o s1 \o s2, m, m2)
                  /\ m2[u] = m1[u] \cup K2
                  /\ \A x \in Accounts : x # u => m2[x] = m1[x]
    <3>1. m1[u] \cap K2 = {} BY <1>14, <2>2
    <3> HIDE DEF s1
    <3>2. Leads(c, s0 \o s1 \o s2, m, m1, u, m1[u] \cup K2)
      BY <1>17, <1>13, <2>1, <3>1, GoOn
    <3> QED BY <3>2 DEF Leads
  <2>4. PICK m3 : /\ IsBook(m3) /\ Keeps(c, s0 \o s1 \o s2 \o s3, m, m3)
                  /\ m3[u] = m2[u] \cup K3
                  /\ \A x \in Accounts : x # u => m3[x] = m2[x]
    <3>1. m2[u] \cap K3 = {} BY <1>10, <1>14, <2>2, <2>3
    <3> HIDE DEF s1
    <3>2. Leads(c, s0 \o s1 \o s2 \o s3, m, m2, u, m2[u] \cup K3)
      BY <1>17, <1>13, <2>3, <3>1, GoOn
    <3> QED BY <3>2 DEF Leads
  <2> DEFINE K0 == IF pred THEN K4 \cup BptKeys ELSE {}
  <2>5. m3[u] = m[u] \cup K2 \cup K3 /\ m3[u] \cap K0 = {}
        /\ (m3[u] \cup K0) \cap K5 = {}
    BY <1>10, <1>14, <2>2, <2>3, <2>4
  <2>6. PICK m4 : /\ IsBook(m4) /\ Keeps(c, s0 \o s1 \o s2 \o s3 \o s4, m, m4)
                  /\ m4[u] = m3[u] \cup K0
                  /\ \A x \in Accounts : x # u => m4[x] = m3[x]
    <3>1. CASE ~pred
      <4>1. s4 = <<>> /\ K0 = {} BY <3>1 DEF Only
      <4>2. Pays(c, s4, u, K0, {}) BY <1>4, <4>1, PaysNone
      <4> HIDE DEF s1, s4, K0
      <4>3. Leads(c, s0 \o s1 \o s2 \o s3 \o s4, m, m3, u, m3[u] \cup K0)
        BY <1>13, <2>4, <2>5, <4>2, GoOn
      <4> QED BY <4>3 DEF Leads
    <3>2. CASE pred
      <4>1. PICK m5 : /\ IsBook(m5) /\ Keeps(c, btb, m3, m5)
                      /\ m5[u] = m3[u] \cup K4
                      /\ \A x \in Accounts \ ({} \cup {u}) : m5[x] = m3[x]
        <5>1. m3[u] \cap K4 = {} BY <2>5, <3>2
        <5> QED BY <1>17, <2>4, <5>1 DEF Pays
      <4>2. m5[v] = BptKeys BY <1>4, <2>1, <2>3, <2>4, <3>2, <4>1
      <4>3. m5[u] \cap m5[v] = {} BY <1>10, <2>5, <3>2, <4>1, <4>2
      <4>4. PICK m4 : /\ IsBook(m4) /\ Keeps(c, btb \o sub, m3, m4)
                      /\ m4[u] = m5[u] \cup m5[v]
                      /\ \A x \in Accounts : x # u => m4[x] = m5[x]
        <5>1. Leads(c, btb \o sub, m3, m5, u, m5[u] \cup m5[v])
          BY <1>3, <1>11, <4>1, <4>3, GoOnSub DEF u, v
        <5> QED BY <5>1 DEF Leads
      <4>5. s4 = btb \o sub BY <3>2 DEF Only
      <4> HIDE DEF s1, s4, sub
      <4>6. Keeps(c, s0 \o s1 \o s2 \o s3 \o s4, m, m4)
        BY <1>11, <1>13, <2>4, <4>4, <4>5, KeepsConcat
      <4>7. m4[u] = m3[u] \cup K0 BY <3>2, <4>1, <4>2, <4>4
      <4> QED BY <4>1, <4>4, <4>6, <4>7
    <3> QED BY <3>1, <3>2
  <2>7. PICK m5 : /\ IsBook(m5) /\ Keeps(c, s0 \o s1 \o s2 \o s3 \o s4 \o s5, m, m5)
                  /\ m5[u] = m4[u] \cup K5
                  /\ \A x \in Accounts : x # u => m5[x] = m4[x]
    <3>1. m4[u] \cap K5 = {} BY <2>5, <2>6
    <3> HIDE DEF s1, s4
    <3>2. Leads(c, s0 \o s1 \o s2 \o s3 \o s4 \o s5, m, m4, u, m4[u] \cup K5)
      BY <1>17, <1>13, <2>6, <3>1, GoOn
    <3> QED BY <3>2 DEF Leads
  <2>8. m5[u] = m[u] \cup all BY <2>5, <2>6, <2>7
  <2>9. \A x \in Accounts : x # u /\ x # v => m5[x] = m[x]
    BY <2>1, <2>3, <2>4, <2>6, <2>7
  <2> QED BY <2>7, <2>8, <2>9
<1> DEFINE s == s0 \o s1 \o s2 \o s3 \o s4 \o s5
<1>15. IsSeq(s) BY <1>13
<1> HIDE DEF s, all
<1>16. Pays(c, s, u, all, {v})
  <2>1. ASSUME NEW m, IsBook(m), m[u] \cap all = {}, \A x \in {v} : m[x] = {}
        PROVE  \E m2 : /\ IsBook(m2) /\ Keeps(c, s, m, m2)
                       /\ m2[u] = m[u] \cup all
                       /\ \A x \in Accounts \ ({v} \cup {u}) : m2[x] = m[x]
    <3>1. m[v] = {} BY <2>1
    <3>2. PICK m2 : /\ IsBook(m2) /\ Keeps(c, s, m, m2)
                    /\ m2[u] = m[u] \cup all
                    /\ \A x \in Accounts : x # u /\ x # v => m2[x] = m[x]
      BY <1>14, <2>1, <3>1 DEF s
    <3> QED BY <3>2
  <2> QED BY <1>4, <1>15, <2>1 DEF Pays
<1> QED BY <1>1, <1>5, <1>16 DEF s, u, v

\* The data cache, LoadStoreU.
LEMMA LoadStoreUPays ==
    ASSUME NEW c, NEW pass \in {"tdp", "rtp"}
    PROVE  Spends(c, LoadStoreU_energy(c, pass), <<pass, "lsu">>, LsuKeys(c),
                  LoadStoreUParts(c))
<1> DEFINE main == "dcache.caches"
           twin == "dcache.apcaches"
           B == DcacheBuffers(c)
           S == {main, twin} \cup B
           u == <<pass, "lsu">>
           E == {main, "LSQ"} \cup B
                  \cup (IF HasLoadQ(c) THEN {"LoadQ"} ELSE {})
                  \cup (IF pass = "rtp" THEN {twin} ELSE {})
           dyn == {<<p, p>> : p \in S} \cup {<<main, twin>>}
           adds == "power"
           s0 == Stats(pass, E)
           s1 == Part(pass, "dcache", "lsu", dyn, S, adds)
           s2 == Own(pass, "LSQ", "lsu")
           s3 == Only(HasLoadQ(c), Own(pass, "LoadQ", "lsu"))
           K1 == Owned(S) \cup {<<main, twin>>}
           K2 == Owned({"LSQ"})
           K3 == IF HasLoadQ(c) THEN Owned({"LoadQ"}) ELSE {}
           S2 == {"LSQ"}
           S3 == IF HasLoadQ(c) THEN {"LoadQ"} ELSE {}
<1>1. LoadStoreU_energy(c, pass) = s0 \o s1 \o s2 \o s3
  BY DEF LoadStoreU_energy, LoadStoreU_stats, dcache_energy
<1>2. E \cap Uncounted = {} BY DEF Uncounted, DcacheBuffers
<1>3. /\ "lsu" \in SumNames /\ "dcache" \notin SumNames
      /\ {"LSQ", "LoadQ"} \cap (SumNames \cup {"corepipe", "leakage",
                                              "instruction_selection"}) = {}
  BY DEF SumNames
<1>4. u \in Accounts BY <1>3, AccountOf
<1>5. S \cap {"corepipe", "leakage", "instruction_selection", "LSQ", "LoadQ"} = {}
  BY DEF DcacheBuffers
<1>6. Spends(c, s1, u, K1, S)
  <2> HIDE DEF B
  <2>1. ASSUME NEW d \in dyn
        PROVE  /\ d = <<d[1], d[2]>> /\ d[1] # "corepipe" /\ d[2] # "leakage"
               /\ d[1] \in S
    <3>1. CASE d = <<main, twin>>
      <4>1. d[1] = main /\ d[2] = twin BY <3>1
      <4> QED BY <3>1, <4>1
    <3>2. CASE d # <<main, twin>>
      <4>1. PICK p \in S : d = <<p, p>> BY <3>2
      <4>2. d[1] = p /\ d[2] = p /\ d = <<d[1], d[2]>> BY <4>1
      <4> QED BY <1>5, <4>2
    <3> QED BY <3>1, <3>2
  <2>2. "corepipe" \notin S BY <1>5
  <2>3. AddedKeys(dyn, S, adds) = K1
    <3>1. S \ {"instruction_selection"} = S BY <1>5
    <3> HIDE DEF S
    <3> QED BY <3>1 DEF AddedKeys, AllKeys, LeakKeys, Owned
  <2> HIDE DEF dyn, S
  <2>4. Pays(c, s1, u, AddedKeys(dyn, S, adds), {})
    BY <1>3, <2>1, <2>2, PaysPart
  <2>5. About(K1, S)
    <3>1. About(Owned(S), S) BY AboutOwned
    <3>2. <<main, twin>> \in dyn BY DEF dyn
    <3> QED BY <2>1, <3>1, <3>2 DEF About
  <2> QED BY <2>3, <2>4, <2>5 DEF Spends
<1>7. Spends(c, s2, u, K2, S2) BY <1>3, SpendsOwn
<1>8. Spends(c, s3, u, K3, S3)
  <2>1. Spends(c, Own(pass, "LoadQ", "lsu"), u, Owned({"LoadQ"}), {"LoadQ"})
    BY <1>3, SpendsOwn
  <2> HIDE DEF u
  <2> QED BY <1>4, <2>1, SpendsOnly
<1>9. S \cap S2 = {} /\ (S \cup S2) \cap S3 = {} BY <1>5
<1>10. (K1 \cup K2) \cup K3 = LsuKeys(c)
  <2>1. LoadStoreUParts(c) = (S \cup S2) \cup S3
    BY DEF LoadStoreUParts, LoadStoreUCounted
  <2>2. K3 = Owned(S3) BY OwnedNone
  <2> HIDE DEF S, S2, S3, K3
  <2>3. Owned((S \cup S2) \cup S3) = (Owned(S) \cup Owned(S2)) \cup Owned(S3)
    <3>1. Owned(S) \cup Owned(S2) = Owned(S \cup S2) BY OwnedUnion
    <3>2. Owned(S \cup S2) \cup Owned(S3) = Owned((S \cup S2) \cup S3)
      BY OwnedUnion
    <3> QED BY <3>1, <3>2
  <2> QED BY <2>1, <2>2, <2>3 DEF LsuKeys, S2
<1>11. (S \cup S2) \cup S3 = LoadStoreUParts(c)
  BY DEF LoadStoreUParts, LoadStoreUCounted
<1> HIDE DEF E, S, S2, S3, s0, s1, s2, s3, K1, K2, K3, u
<1>12. Spends(c, s0 \o s1, u, K1, S) BY <1>2, <1>6, SpendsFirst DEF s0
<1>13. Spends(c, s0 \o s1 \o s2, u, K1 \cup K2, S \cup S2)
  BY <1>7, <1>9, <1>12, SpendsConcat
<1>14. Spends(c, s0 \o s1 \o s2 \o s3, u, (K1 \cup K2) \cup K3, (S \cup S2) \cup S3)
  BY <1>8, <1>9, <1>13, SpendsConcat
<1> QED BY <1>1, <1>10, <1>11, <1>14 DEF u

\* MemManU.
LEMMA MemManUPays ==
    ASSUME NEW c, NEW pass \in {"tdp", "rtp"}
    PROVE  Spends(c, MemManU_energy(pass), <<pass, "mmu">>, MmuKeys, MemManUParts)
<1> DEFINE E == {"itlb", "dtlb"}
           u == <<pass, "mmu">>
           S == {"itlb"}
           s0 == Stats(pass, E)
           s1 == Own(pass, "itlb", "mmu")
           s2 == Own(pass, "dtlb", "mmu")
<1>1. MemManU_energy(pass) = s0 \o s1 \o s2 BY DEF MemManU_energy
<1>2. E \cap Uncounted = {} BY DEF Uncounted
<1>3. "mmu" \in SumNames
      /\ E \cap (SumNames \cup {"corepipe", "leakage", "instruction_selection"}) = {}
  BY DEF SumNames
<1>4. Spends(c, s1, u, Owned(S), S) BY <1>3, SpendsOwn
<1>5. "dtlb" \notin S /\ S \cup {"dtlb"} = MemManUParts BY DEF MemManUParts
<1> HIDE DEF s0, s1, S
<1>6. Spends(c, s0 \o s1, u, Owned(S), S)
  <2> HIDE DEF E, u
  <2> QED BY <1>2, <1>4, SpendsFirst DEF s0
<1>7. Spends(c, s0 \o s1 \o s2, u, Owned(S \cup {"dtlb"}), S \cup {"dtlb"})
  BY <1>3, <1>5, <1>6, SpendsMore
<1> QED BY <1>1, <1>5, <1>7 DEF MmuKeys

\* RegFU.
LEMMA RegFUPays ==
    ASSUME NEW c, NEW pass \in {"tdp", "rtp"}
    PROVE  Spends(c, RegFU_energy(c, pass), <<pass, "rfu">>, RfuKeys(c, pass),
                  RegFUParts(c))
<1> DEFINE adds == IF pass = "tdp" THEN "power" ELSE "power_t"
           u == <<pass, "rfu">>
           E == {"IRF", "FRF"} \cup (IF RegWindowing(c) THEN {"RFWIN"} ELSE {})
           dyn(p) == {<<p, p>>}
           lkg(p) == {p}
           file(p) == Part(pass, p, "rfu", dyn(p), lkg(p), adds)
           K(p) == AddedKeys(dyn(p), lkg(p), adds)
           S1 == {"IRF"}
           S2 == {"FRF"}
           S3 == IF RegWindowing(c) THEN {"RFWIN"} ELSE {}
           K3 == IF RegWindowing(c) THEN Owned({"RFWIN"}) ELSE {}
           s0 == Stats(pass, E)
           s1 == file("IRF")
           s2 == file("FRF")
           s3 == Only(RegWindowing(c), Own(pass, "RFWIN", "rfu"))
<1>1. RegFU_energy(c, pass) = s0 \o s1 \o s2 \o s3 BY DEF RegFU_energy
<1>2. E \cap Uncounted = {} BY DEF Uncounted
<1>3. "rfu" \in SumNames
      /\ {"IRF", "FRF", "RFWIN"}
           \cap (SumNames \cup {"corepipe", "leakage", "instruction_selection"}) = {}
  BY DEF SumNames
<1>4. u \in Accounts BY <1>3, AccountOf
<1>5. K("IRF") \cup K("FRF") \cup K3 = RfuKeys(c, pass)
  <2>1. CASE pass = "tdp"
    <3>1. \A p \in {"IRF", "FRF"} : K(p) = Owned({p})
      BY <2>1 DEF AddedKeys, AllKeys, LeakKeys, Owned
    <3>2. RfuKeys(c, pass) = Owned(RegFUParts(c)) BY <2>1 DEF RfuKeys, Owned
    <3> HIDE DEF K
    <3> QED BY <3>1, <3>2 DEF RegFUParts, Owned
  <2>2. CASE pass # "tdp"
    <3>1. \A p \in {"IRF", "FRF"} : K(p) = {<<p, p>>}
      BY <2>2 DEF AddedKeys
    <3>2. CASE RegWindowing(c)
      BY <2>2, <3>1, <3>2 DEF RegFUParts, Owned, RfuKeys
    <3>3. CASE ~RegWindowing(c)
      BY <2>2, <3>1, <3>3 DEF RegFUParts, Owned, RfuKeys
    <3> QED BY <3>2, <3>3
  <2> QED BY <2>1, <2>2
<1>6. ASSUME NEW p \in {"IRF", "FRF"} PROVE Spends(c, file(p), u, K(p), {p})
  <2>1. ASSUME NEW d \in dyn(p)
        PROVE  d = <<d[1], d[2]>> /\ d[1] # "corepipe" /\ d[2] # "leakage"
    <3>1. d = <<p, p>> OBVIOUS
    <3> QED BY <3>1
  <2>2. "corepipe" \notin lkg(p) OBVIOUS
  <2>3. K(p) \subseteq Owned({p})
    BY DEF AddedKeys, AllKeys, LeakKeys, Owned
  <2>4. p \notin SumNames BY <1>3
  <2> HIDE DEF dyn, lkg, adds
  <2>5. Pays(c, file(p), u, K(p), {}) BY <1>3, <2>1, <2>2, <2>4, PaysPart
  <2>6. About(K(p), {p})
    <3> DEFINE T == {p}
    <3> HIDE DEF T
    <3>1. About(Owned(T), T) BY AboutOwned
    <3>2. K(p) \subseteq Owned(T) BY <2>3 DEF T
    <3> HIDE DEF K
    <3>3. About(K(p), T) BY <3>1, <3>2 DEF About
    <3> QED BY <3>3 DEF T
  <2> QED BY <2>5, <2>6 DEF Spends
<1>7. Spends(c, s1, u, K("IRF"), S1) /\ Spends(c, s2, u, K("FRF"), S2) BY <1>6
<1>8. Spends(c, s3, u, K3, S3)
  <2>1. Spends(c, Own(pass, "RFWIN", "rfu"), u, Owned({"RFWIN"}), {"RFWIN"})
    BY <1>3, SpendsOwn
  <2> HIDE DEF u
  <2> QED BY <1>4, <2>1, SpendsOnly
<1>9. S1 \cap S2 = {} /\ (S1 \cup S2) \cap S3 = {}
      /\ (S1 \cup S2) \cup S3 = RegFUParts(c)
  BY DEF RegFUParts
<1> DEFINE K1 == K("IRF")
           K2 == K("FRF")
<1>10. (K1 \cup K2) \cup K3 = RfuKeys(c, pass) BY <1>5
<1>11. Spends(c, s1, u, K1, S1) /\ Spends(c, s2, u, K2, S2) BY <1>7
<1> HIDE DEF s0, s1, s2, s3, S1, S2, S3, K1, K2, K3, u, E
<1>12. Spends(c, s0 \o s1, u, K1, S1) BY <1>2, <1>11, SpendsFirst DEF s0
<1>13. Spends(c, s0 \o s1 \o s2, u, K1 \cup K2, S1 \cup S2)
  BY <1>9, <1>11, <1>12, SpendsConcat
<1>14. Spends(c, s0 \o s1 \o s2 \o s3, u, (K1 \cup K2) \cup K3,
              (S1 \cup S2) \cup S3)
  BY <1>8, <1>9, <1>13, SpendsConcat
<1> QED BY <1>1, <1>9, <1>10, <1>14 DEF u

\* An instruction window.
LEMMA WindowPays ==
    ASSUME NEW c, NEW pass \in {"tdp", "rtp"},
           NEW w \in {"int_inst_window", "fp_inst_window"}
    PROVE  Pays(c, Window_energy(pass, w), <<pass, "scheu">>, WindowKeys(w), {})
<1> DEFINE dyn == {<<w, w>>, <<"instruction_selection", w>>}
           lkg == {w, "instruction_selection"}
           adds == "power"
<1>1. "scheu" \in SumNames /\ w \notin SumNames BY DEF SumNames
<1>2. ASSUME NEW d \in dyn
      PROVE  d = <<d[1], d[2]>> /\ d[1] # "corepipe" /\ d[2] # "leakage"
  <2>1. CASE d = <<w, w>>
    <3>1. d[1] = w /\ d[2] = w BY <2>1
    <3> QED BY <2>1, <3>1
  <2>2. CASE d = <<"instruction_selection", w>>
    <3>1. d[1] = "instruction_selection" /\ d[2] = w BY <2>2
    <3> QED BY <2>2, <3>1
  <2> QED BY <2>1, <2>2
<1>3. "corepipe" \notin lkg OBVIOUS
<1>4. AddedKeys(dyn, lkg, adds) = WindowKeys(w)
  <2>1. lkg \ {"instruction_selection"} = {w} OBVIOUS
  <2> HIDE DEF lkg
  <2> QED BY <2>1 DEF AddedKeys, AllKeys, LeakKeys, WindowKeys, Owned
<1> HIDE DEF dyn, lkg, adds
<1>5. Pays(c, Part(pass, w, "scheu", dyn, lkg, adds), <<pass, "scheu">>,
           AddedKeys(dyn, lkg, adds), {})
  BY <1>1, <1>2, <1>3, PaysPart
<1> QED BY <1>4, <1>5 DEF Window_energy, dyn, lkg, adds

\* The parts of SchedulerU, whatever the configuration.
LEMMA SchedulerUPays ==
    ASSUME NEW c, NEW pass \in {"tdp", "rtp"}
    PROVE  Spends(c, SchedulerU_energy(c, pass), <<pass, "scheu">>,
                  SchedulerKeys(c), {"int_inst_window", "fp_inst_window", "ROB",
                                     "instruction_selection"})
<1> DEFINE u == <<pass, "scheu">>
           E == (IF c.OOO THEN {"int_inst_window", "fp_inst_window"}
                   \cup (IF c.ROB > 0 THEN {"ROB"} ELSE {}) ELSE {})
                \cup (IF ~c.OOO /\ c.threads > 1 THEN {"int_inst_window"} ELSE {})
           c1 == c.OOO \/ c.threads > 1
           c2 == c.OOO
           c3 == c.OOO /\ c.ROB > 0
           w1 == "int_inst_window"
           w2 == "fp_inst_window"
           s0 == Stats(pass, E)
           s1 == Only(c1, Window_energy(pass, w1))
           s2 == Only(c2, Window_energy(pass, w2))
           s3 == Only(c3, Own(pass, "ROB", "scheu"))
           K1 == IF c1 THEN WindowKeys(w1) ELSE {}
           K2 == IF c2 THEN WindowKeys(w2) ELSE {}
           K3 == IF c3 THEN Owned({"ROB"}) ELSE {}
           none == {}
<1>1. SchedulerU_energy(c, pass) = s0 \o s1 \o s2 \o s3
  BY DEF SchedulerU_energy, SchedulerU_stats
<1>2. E \cap Uncounted = {} BY DEF Uncounted
<1>3. "scheu" \in SumNames
      /\ "ROB" \notin SumNames \cup {"corepipe", "leakage", "instruction_selection"}
  BY DEF SumNames
<1>4. u \in Accounts BY <1>3, AccountOf
<1>5. Pays(c, Window_energy(pass, w1), u, WindowKeys(w1), {})
      /\ Pays(c, Window_energy(pass, w2), u, WindowKeys(w2), {})
  BY WindowPays
<1>6. Pays(c, Own(pass, "ROB", "scheu"), u, Owned({"ROB"}), {})
  BY <1>3, PaysOwn
<1>7. /\ WindowKeys(w1) = {<<w1, w1>>, <<w1, "leakage">>,
                           <<"instruction_selection", w1>>}
      /\ WindowKeys(w2) = {<<w2, w2>>, <<w2, "leakage">>,
                           <<"instruction_selection", w2>>}
      /\ Owned({"ROB"}) = {<<"ROB", "ROB">>, <<"ROB", "leakage">>}
  BY DEF WindowKeys, Owned
<1>8. K1 \cap K2 = {} /\ (K1 \cup K2) \cap K3 = {} BY <1>7
<1>9. (K1 \cup K2) \cup K3 = SchedulerKeys(c)
  <2>1. CASE c2
    BY <1>7, <2>1 DEF SchedulerKeys, SchedulerUCounted, Owned
  <2>2. CASE ~c2
    BY <1>7, <2>2 DEF SchedulerKeys, SchedulerUCounted, Owned
  <2> QED BY <2>1, <2>2
<1>10. About((K1 \cup K2) \cup K3, {w1, w2, "ROB", "instruction_selection"})
  <2>1. ASSUME NEW k \in (K1 \cup K2) \cup K3
        PROVE  k = <<k[1], k[2]>>
               /\ k[1] \in {w1, w2, "ROB", "instruction_selection"}
    <3>1. \/ k = <<w1, w1>> \/ k = <<w1, "leakage">>
          \/ k = <<"instruction_selection", w1>>
          \/ k = <<w2, w2>> \/ k = <<w2, "leakage">>
          \/ k = <<"instruction_selection", w2>>
          \/ k = <<"ROB", "ROB">> \/ k = <<"ROB", "leakage">>
      BY <1>7
    <3> QED BY <3>1
  <2> QED BY <2>1 DEF About
<1> HIDE DEF u, E, c1, c2, c3, w1, w2, s0, K1, K2, K3, none
<1>11. Pays(c, s1, u, K1, {}) /\ Pays(c, s2, u, K2, {}) /\ Pays(c, s3, u, K3, {})
  BY <1>4, <1>5, <1>6, PaysOnly DEF K1, K2, K3
<1> HIDE DEF s1, s2, s3
<1>12. Pays(c, s0, u, none, {}) BY <1>2, <1>4, PaysStats DEF s0, none
<1>13. none \cap K1 = {} /\ none \cup K1 = K1 BY DEF none
<1>14. Pays(c, s0 \o s1, u, none \cup K1, {}) BY <1>11, <1>12, <1>13, PaysBoth
<1>15. Pays(c, s0 \o s1, u, K1, {}) BY <1>13, <1>14
<1>16. Pays(c, s0 \o s1 \o s2, u, K1 \cup K2, {}) BY <1>8, <1>11, <1>15, PaysBoth
<1>17. Pays(c, s0 \o s1 \o s2 \o s3, u, (K1 \cup K2) \cup K3, {})
  BY <1>8, <1>11, <1>16, PaysBoth
<1> QED BY <1>1, <1>9, <1>10, <1>17 DEF Spends, u, w1, w2

\* The bypass wires.
LEMMA BypassPays ==
    ASSUME NEW c, NEW pass \in {"tdp", "rtp"}
    PROVE  Spends(c, bypass_energy(c, pass), <<pass, "exu">>, BypassKeys(c),
                  Wires(c))
<1> DEFINE E == {"bypass"}
           dyn == {<<w, "bypass">> : w \in Wires(c)}
           lkg == Wires(c)
           adds == "power"
           t == Part(pass, "bypass", "exu", dyn, lkg, adds)
           u == <<pass, "exu">>
<1>1. bypass_energy(c, pass) = Stats(pass, E) \o t BY DEF bypass_energy
<1>2. E \cap Uncounted = {} BY DEF Uncounted
<1>3. "exu" \in SumNames /\ "bypass" \notin SumNames BY DEF SumNames
<1>4. lkg \cap {"corepipe", "instruction_selection"} = {} BY DEF Wires
<1>5. ASSUME NEW d \in dyn
      PROVE  d = <<d[1], d[2]>> /\ d[1] # "corepipe" /\ d[2] # "leakage"
             /\ d[1] \in lkg
  <2>1. PICK w \in lkg : d = <<w, "bypass">> OBVIOUS
  <2>2. d[1] = w /\ d[2] = "bypass" BY <2>1
  <2> QED BY <1>4, <2>1, <2>2
<1>6. AddedKeys(dyn, lkg, adds) = BypassKeys(c)
  <2>1. lkg \ {"instruction_selection"} = lkg BY <1>4
  <2> QED BY <2>1 DEF AddedKeys, AllKeys, LeakKeys, BypassKeys
<1>7. About(BypassKeys(c), lkg)
  <2>1. BypassKeys(c) = dyn \cup {<<w, "leakage">> : w \in lkg} BY DEF BypassKeys
  <2> HIDE DEF dyn, lkg
  <2>2. About({<<w, "leakage">> : w \in lkg}, lkg) BY DEF About
  <2> QED BY <1>5, <2>1, <2>2 DEF About
<1>8. "corepipe" \notin lkg BY <1>4
<1> HIDE DEF dyn, lkg, adds, E, u
<1>9. Pays(c, t, u, AddedKeys(dyn, lkg, adds), {})
  BY <1>3, <1>5, <1>8, PaysPart DEF u
<1>10. Spends(c, t, u, BypassKeys(c), lkg) BY <1>6, <1>7, <1>9 DEF Spends
<1> HIDE DEF t
<1>11. Spends(c, Stats(pass, E) \o t, u, BypassKeys(c), lkg)
  BY <1>2, <1>10, SpendsFirst
<1> QED BY <1>1, <1>11 DEF u, lkg

\* A front RAT with its dependency check.
LEMMA FrontRATPays ==
    ASSUME NEW c, NEW pass \in {"tdp", "rtp"}, NEW rat, NEW dcl,
           rat \notin SumNames, "rnu" \in SumNames,
           {rat, dcl} \cap {"corepipe", "leakage", "instruction_selection"} = {}
    PROVE  Spends(c, FrontRAT_energy(pass, rat, dcl), <<pass, "rnu">>,
                  Owned({rat}) \cup {<<dcl, rat>>}, {rat, dcl})
<1> DEFINE dyn == {<<rat, rat>>, <<dcl, rat>>}
           lkg == {rat}
           adds == "power"
           K == Owned({rat}) \cup {<<dcl, rat>>}
<1>1. ASSUME NEW d \in dyn
      PROVE  d = <<d[1], d[2]>> /\ d[1] # "corepipe" /\ d[2] # "leakage"
  <2>1. CASE d = <<rat, rat>>
    <3>1. d[1] = rat /\ d[2] = rat BY <2>1
    <3> QED BY <2>1, <3>1
  <2>2. CASE d = <<dcl, rat>>
    <3>1. d[1] = dcl /\ d[2] = rat BY <2>2
    <3> QED BY <2>2, <3>1
  <2> QED BY <2>1, <2>2
<1>2. "corepipe" \notin lkg OBVIOUS
<1>3. AddedKeys(dyn, lkg, adds) = K
  <2>1. lkg \ {"instruction_selection"} = {rat} OBVIOUS
  <2> HIDE DEF lkg
  <2> QED BY <2>1 DEF AddedKeys, AllKeys, LeakKeys, Owned
<1>4. About(K, {rat, dcl})
  <2>1. K = {<<rat, rat>>, <<rat, "leakage">>, <<dcl, rat>>} BY DEF Owned
  <2>2. ASSUME NEW k \in K PROVE k = <<k[1], k[2]>> /\ k[1] \in {rat, dcl}
    <3>1. k = <<rat, rat>> \/ k = <<rat, "leakage">> \/ k = <<dcl, rat>> BY <2>1
    <3> QED BY <3>1
  <2> QED BY <2>2 DEF About
<1> HIDE DEF dyn, lkg, adds, K
<1>5. Pays(c, Part(pass, rat, "rnu", dyn, lkg, adds), <<pass, "rnu">>,
           AddedKeys(dyn, lkg, adds), {})
  BY <1>1, <1>2, PaysPart
<1> QED BY <1>3, <1>4, <1>5 DEF Spends, FrontRAT_energy, dyn, lkg, adds, K

\* RENAMINGU.
LEMMA RENAMINGUPays ==
    ASSUME NEW c, NEW pass \in {"tdp", "rtp"}
    PROVE  Spends(c, RENAMINGU_energy(c, pass), <<pass, "rnu">>, RnuKeys(c),
                  RENAMINGUParts(c))
<1> DEFINE u == <<pass, "rnu">>
           E == {"iFRAT", "fFRAT", "ifreeL", "idcl", "fdcl"}
                  \cup (IF c.PRF THEN {"iRRAT", "fRRAT", "ffreeL"} ELSE {})
           s0 == Stats(pass, E)
           s1 == FrontRAT_energy(pass, "iFRAT", "idcl")
           s2 == FrontRAT_energy(pass, "fFRAT", "fdcl")
           both == Own(pass, "iRRAT", "rnu") \o Own(pass, "fRRAT", "rnu")
           s3 == Only(c.PRF, both)
           s4 == Own(pass, "ifreeL", "rnu")
           s5 == Only(c.PRF, Own(pass, "ffreeL", "rnu"))
           K1 == Owned({"iFRAT"}) \cup {<<"idcl", "iFRAT">>}
           K2 == Owned({"fFRAT"}) \cup {<<"fdcl", "fFRAT">>}
           K3 == IF c.PRF THEN Owned({"iRRAT"} \cup {"fRRAT"}) ELSE {}
           K4 == Owned({"ifreeL"})
           K5 == IF c.PRF THEN Owned({"ffreeL"}) ELSE {}
           S1 == {"iFRAT", "idcl"}
           S2 == {"fFRAT", "fdcl"}
           S3 == IF c.PRF THEN {"iRRAT"} \cup {"fRRAT"} ELSE {}
           S4 == {"ifreeL"}
           S5 == IF c.PRF THEN {"ffreeL"} ELSE {}
<1>1. RENAMINGU_energy(c, pass) = s0 \o s1 \o s2 \o s3 \o s4 \o s5
  BY DEF RENAMINGU_energy, RENAMINGU_stats
<1>2. E \cap Uncounted = {} BY DEF Uncounted
<1>3. "rnu" \in SumNames
      /\ {"iFRAT", "fFRAT", "iRRAT", "fRRAT", "ifreeL", "ffreeL"}
           \cap (SumNames \cup {"corepipe", "leakage", "instruction_selection"}) = {}
  BY DEF SumNames
<1>4. u \in Accounts BY <1>3, AccountOf
<1>5. Spends(c, s1, u, K1, S1) /\ Spends(c, s2, u, K2, S2)
  BY <1>3, FrontRATPays
<1>6. Spends(c, s4, u, K4, S4) BY <1>3, SpendsOwn
<1>7. Spends(c, s5, u, K5, S5)
  <2>1. Spends(c, Own(pass, "ffreeL", "rnu"), u, Owned({"ffreeL"}), {"ffreeL"})
    BY <1>3, SpendsOwn
  <2> HIDE DEF u
  <2> QED BY <1>4, <2>1, SpendsOnly
<1>8. Spends(c, s3, u, K3, S3)
  <2> DEFINE S == {"iRRAT"}
             a == Own(pass, "iRRAT", "rnu")
  <2>1. Spends(c, a, u, Owned(S), S) BY <1>3, SpendsOwn
  <2>2. "fRRAT" \notin S OBVIOUS
  <2> HIDE DEF S, a
  <2>3. Spends(c, a \o Own(pass, "fRRAT", "rnu"), u, Owned(S \cup {"fRRAT"}),
               S \cup {"fRRAT"})
    BY <1>3, <2>1, <2>2, SpendsMore
  <2>4. Spends(c, both, u, Owned({"iRRAT"} \cup {"fRRAT"}), {"iRRAT"} \cup {"fRRAT"})
    BY <2>3 DEF S, a
  <2> HIDE DEF u, both
  <2> QED BY <1>4, <2>4, SpendsOnly
<1>9. /\ S1 \cap S2 = {} /\ (S1 \cup S2) \cap S3 = {}
      /\ ((S1 \cup S2) \cup S3) \cap S4 = {}
      /\ (((S1 \cup S2) \cup S3) \cup S4) \cap S5 = {}
      /\ (((S1 \cup S2) \cup S3) \cup S4) \cup S5 = RENAMINGUParts(c)
  BY DEF RENAMINGUParts, RENAMINGUCounted
<1>10. (((K1 \cup K2) \cup K3) \cup K4) \cup K5 = RnuKeys(c)
  <2>1. CASE c.PRF
    BY <2>1 DEF RnuKeys, RENAMINGUCounted, Owned
  <2>2. CASE ~c.PRF
    BY <2>2 DEF RnuKeys, RENAMINGUCounted, Owned
  <2> QED BY <2>1, <2>2
<1> HIDE DEF u, E, s0, s1, s2, s3, s4, s5, K1, K2, K3, K4, K5, S1, S2, S3, S4, S5
<1>11. Spends(c, s0 \o s1, u, K1, S1) BY <1>2, <1>5, SpendsFirst DEF s0
<1>12. Spends(c, s0 \o s1 \o s2, u, K1 \cup K2, S1 \cup S2)
  BY <1>5, <1>9, <1>11, SpendsConcat
<1>13. Spends(c, s0 \o s1 \o s2 \o s3, u, (K1 \cup K2) \cup K3,
              (S1 \cup S2) \cup S3)
  BY <1>8, <1>9, <1>12, SpendsConcat
<1>14. Spends(c, s0 \o s1 \o s2 \o s3 \o s4, u, ((K1 \cup K2) \cup K3) \cup K4,
              ((S1 \cup S2) \cup S3) \cup S4)
  BY <1>6, <1>9, <1>13, SpendsConcat
<1>15. Spends(c, s0 \o s1 \o s2 \o s3 \o s4 \o s5, u,
              (((K1 \cup K2) \cup K3) \cup K4) \cup K5,
              (((S1 \cup S2) \cup S3) \cup S4) \cup S5)
  BY <1>7, <1>9, <1>14, SpendsConcat
<1> QED BY <1>1, <1>9, <1>10, <1>15 DEF u

\* A shared cache.
LEMMA SharedCachePays ==
    ASSUME NEW c, NEW level, NEW unit \in SumNames, NEW pass \in {"tdp", "rtp"}
    PROVE  Spends(c, SharedCache_energy(c, level, unit, pass), <<pass, unit>>,
                  CacheKeys(c, level, pass), SharedCacheParts(c, level))
<1> DEFINE u == <<pass, unit>>
           E == {"unicache.caches"} \cup UniBuffers(c, level)
                  \cup (IF pass = "tdp" /\ c.dir_ty = "SBT"
                        THEN {"homenode"} ELSE {})
                  \cup (IF pass = "rtp" /\ level \in {"L2", "L3"}
                        THEN {"unicache.apcaches"} ELSE {})
           dyn == unicache_dyn(c, level) \cup unicache_unmasked(c, level, pass)
           lkg == {"unicache.caches", "unicache.apcaches"} \cup UniBuffers(c, level)
           adds == "power"
           t == Part(pass, "unicache", unit, dyn, lkg, adds)
<1>1. SharedCache_energy(c, level, unit, pass) = Stats(pass, E) \o t
  BY DEF SharedCache_energy, SharedCache_stats
<1>2. E \cap Uncounted = {} BY DEF Uncounted, UniBuffers
<1>3. "unicache" \notin SumNames BY DEF SumNames
<1>4. lkg \cap {"corepipe", "leakage", "instruction_selection"} = {}
      /\ lkg = SharedCacheParts(c, level)
      /\ UniBuffers(c, level) \subseteq lkg
      /\ {"unicache.caches", "unicache.apcaches"} \subseteq lkg
  BY DEF UniBuffers, SharedCacheParts, SharedCacheCounted
<1>5. ASSUME NEW d \in dyn
      PROVE  /\ d = <<d[1], d[2]>> /\ d[1] # "corepipe" /\ d[2] # "leakage"
             /\ d[1] \in lkg
  <2>1. (\E p \in lkg : d = <<p, p>> \/ d = <<p, "one access">>)
        \/ d = <<"unicache.caches", "unicache.apcaches">>
        \/ d = <<"unicache.caches", "homenode">>
    <3> HIDE DEF lkg
    <3>1. CASE d \in unicache_dyn(c, level) BY <1>4, <3>1 DEF unicache_dyn
    <3>2. CASE d \in unicache_unmasked(c, level, pass)
      BY <1>4, <3>2 DEF unicache_unmasked
    <3> QED BY <3>1, <3>2
  <2> HIDE DEF lkg
  <2>2. CASE d = <<"unicache.caches", "unicache.apcaches">>
    <3>1. d[1] = "unicache.caches" /\ d[2] = "unicache.apcaches" BY <2>2
    <3> QED BY <1>4, <2>2, <3>1
  <2>3. CASE d = <<"unicache.caches", "homenode">>
    <3>1. d[1] = "unicache.caches" /\ d[2] = "homenode" BY <2>3
    <3> QED BY <1>4, <2>3, <3>1
  <2>4. CASE \E p \in lkg : d = <<p, p>> \/ d = <<p, "one access">>
    <3>1. PICK p \in lkg : d = <<p, p>> \/ d = <<p, "one access">> BY <2>4
    <3>2. p # "corepipe" /\ p # "leakage" BY <1>4
    <3>3. CASE d = <<p, p>>
      <4>1. d[1] = p /\ d[2] = p /\ d = <<d[1], d[2]>> BY <3>3
      <4> QED BY <3>2, <4>1
    <3>4. CASE d = <<p, "one access">>
      <4>1. d[1] = p /\ d[2] = "one access" /\ d = <<d[1], d[2]>> BY <3>4
      <4> QED BY <3>2, <4>1
    <3> QED BY <3>1, <3>3, <3>4
  <2> QED BY <2>1, <2>2, <2>3, <2>4
<1>6. AddedKeys(dyn, lkg, adds) = CacheKeys(c, level, pass)
  <2>1. lkg \ {"instruction_selection"} = lkg BY <1>4
  <2> QED BY <2>1 DEF AddedKeys, AllKeys, LeakKeys, CacheKeys
<1>7. About(CacheKeys(c, level, pass), lkg)
  <2>1. CacheKeys(c, level, pass) = dyn \cup {<<p, "leakage">> : p \in lkg}
    BY DEF CacheKeys
  <2> HIDE DEF dyn, lkg
  <2>2. About({<<p, "leakage">> : p \in lkg}, lkg) BY DEF About
  <2> QED BY <1>5, <2>1, <2>2 DEF About
<1>8. "corepipe" \notin lkg BY <1>4
<1> HIDE DEF dyn, lkg, adds, E, u
<1>9. Pays(c, t, u, AddedKeys(dyn, lkg, adds), {})
  BY <1>3, <1>5, <1>8, PaysPart DEF u
<1>10. Spends(c, t, u, CacheKeys(c, level, pass), lkg)
  BY <1>6, <1>7, <1>9 DEF Spends
<1> HIDE DEF t
<1>11. Spends(c, Stats(pass, E) \o t, u, CacheKeys(c, level, pass), lkg)
  BY <1>2, <1>10, SpendsFirst
<1> QED BY <1>1, <1>4, <1>11 DEF u

\* A functional unit's keys are about it.
LEMMA AboutFu ==
    ASSUME NEW c, NEW pass, NEW fu
    PROVE  About(FuKeys(c, pass, fu), {fu})
<1>1. ASSUME NEW k \in FuKeys(c, pass, fu) PROVE k = <<k[1], k[2]>> /\ k[1] \in {fu}
  <2>1. \E what : k = <<fu, what>> BY DEF FuKeys
  <2>2. PICK what : k = <<fu, what>> BY <2>1
  <2>3. k[1] = fu /\ k[2] = what BY <2>2
  <2> QED BY <2>2, <2>3
<1> QED BY <1>1 DEF About

\* EXECU: register files and scheduler have sums of their own.
LEMMA EXECUPays ==
    ASSUME NEW c, NEW pass \in {"tdp", "rtp"}
    PROVE  /\ Pays(c, EXECU_energy(c, pass), <<pass, "exu">>, ExuKeys(c, pass),
                   {<<pass, "rfu">>, <<pass, "scheu">>})
           /\ About(ExuKeys(c, pass), ExuNames)
<1> DEFINE u == <<pass, "exu">>
           v == <<pass, "rfu">>
           w == <<pass, "scheu">>
           s1 == RegFU_energy(c, pass)
           s2 == SchedulerU_energy(c, pass)
           s3 == Functional(pass, "exeu")
           s4 == Only(c.fpus > 0, Functional(pass, "fp_u"))
           s5 == Only(c.muls > 0, Functional(pass, "mul"))
           s6 == bypass_energy(c, pass)
           s7 == Sub(pass, "rfu", "exu")
           s8 == Sub(pass, "scheu", "exu")
           K1 == RfuKeys(c, pass)
           K2 == SchedulerKeys(c)
           K3 == FuKeys(c, pass, "exeu")
           K4 == IF c.fpus > 0 THEN FuKeys(c, pass, "fp_u") ELSE {}
           K5 == IF c.muls > 0 THEN FuKeys(c, pass, "mul") ELSE {}
           K6 == BypassKeys(c)
           all == K1 \cup K2 \cup K3 \cup K4 \cup K5 \cup K6
           Sch == {"int_inst_window", "fp_inst_window", "ROB",
                   "instruction_selection"}
<1>1. EXECU_energy(c, pass) = s1 \o s2 \o s3 \o s4 \o s5 \o s6 \o s7 \o s8
  BY DEF EXECU_energy
<1>2. {"exu", "rfu", "scheu"} \subseteq SumNames
      /\ {"exeu", "fp_u", "mul"} \cap (SumNames \cup {"corepipe"} \cup Uncounted) = {}
  BY DEF SumNames, Uncounted
<1>3. /\ u \in Accounts /\ v \in Accounts /\ w \in Accounts
      /\ u # v /\ u # w /\ v # w
  BY <1>2, AccountOf
<1>4. Spends(c, s1, v, K1, RegFUParts(c)) /\ Spends(c, s2, w, K2, Sch)
      /\ Spends(c, s6, u, K6, Wires(c))
  BY RegFUPays, SchedulerUPays, BypassPays
<1>5. /\ Pays(c, s3, u, K3, {})
      /\ Pays(c, Functional(pass, "fp_u"), u, FuKeys(c, pass, "fp_u"), {})
      /\ Pays(c, Functional(pass, "mul"), u, FuKeys(c, pass, "mul"), {})
  BY <1>2, PaysFunctional
<1>6. Pays(c, s4, u, K4, {}) /\ Pays(c, s5, u, K5, {})
  <2> HIDE DEF u
  <2> QED BY <1>3, <1>5, PaysOnly
<1>7. About(K1, RegFUParts(c)) /\ About(K2, Sch) /\ About(K3, {"exeu"})
      /\ About(K4, {"fp_u"}) /\ About(K5, {"mul"}) /\ About(K6, Wires(c))
  <2>1. About(FuKeys(c, pass, "fp_u"), {"fp_u"})
        /\ About(FuKeys(c, pass, "mul"), {"mul"}) /\ About(K3, {"exeu"})
    BY AboutFu
  <2>2. About(K4, {"fp_u"}) /\ About(K5, {"mul"}) BY <2>1 DEF About
  <2> HIDE DEF K1, K2, K3, K4, K5, K6
  <2> QED BY <1>4, <2>1, <2>2 DEF Spends
<1>8. /\ K1 \cap K2 = {} /\ K1 \cap K3 = {} /\ K1 \cap K4 = {} /\ K1 \cap K5 = {}
      /\ K1 \cap K6 = {} /\ K2 \cap K3 = {} /\ K2 \cap K4 = {} /\ K2 \cap K5 = {}
      /\ K2 \cap K6 = {} /\ K3 \cap K4 = {} /\ K3 \cap K5 = {} /\ K3 \cap K6 = {}
      /\ K4 \cap K5 = {} /\ K4 \cap K6 = {} /\ K5 \cap K6 = {}
  <2> DEFINE home(p) == IF p \in {"IRF", "FRF", "RFWIN"} THEN 1 ELSE
                        IF p \in Sch THEN 2 ELSE IF p = "exeu" THEN 3 ELSE
                        IF p = "fp_u" THEN 4 ELSE IF p = "mul" THEN 5 ELSE 6
  <2>1. /\ \A k \in K1 : home(k[1]) = 1
        /\ \A k \in K2 : home(k[1]) = 2
        /\ \A k \in K3 : home(k[1]) = 3
        /\ \A k \in K4 : home(k[1]) = 4
        /\ \A k \in K5 : home(k[1]) = 5
        /\ \A k \in K6 : home(k[1]) = 6
    <3> HIDE DEF K1, K2, K3, K4, K5, K6
    <3> QED BY <1>7 DEF About, RegFUParts, Wires
  <2> HIDE DEF home, K1, K2, K3, K4, K5, K6
  <2> QED BY <2>1
<1>9. ExuKeys(c, pass) = all
  <2>1. (UNION {FuKeys(c, pass, fu) : fu \in Units(c)}) = K3 \cup K4 \cup K5
    <3> HIDE DEF K3
    <3>1. Units(c) = {"exeu"} \cup (IF c.fpus > 0 THEN {"fp_u"} ELSE {})
                       \cup (IF c.muls > 0 THEN {"mul"} ELSE {})
      BY DEF Units
    <3>2. ASSUME NEW k
          PROVE  k \in UNION {FuKeys(c, pass, fu) : fu \in Units(c)}
                   <=> \E fu \in Units(c) : k \in FuKeys(c, pass, fu)
      OBVIOUS
    <3>3. ASSUME NEW k
          PROVE  (\E fu \in Units(c) : k \in FuKeys(c, pass, fu))
                   <=> k \in K3 \cup K4 \cup K5
      BY <3>1 DEF K3
    <3> QED BY <3>2, <3>3
  <2> HIDE DEF K1, K2, K3, K4, K5, K6
  <2> QED BY <2>1 DEF ExuKeys, K1, K2, K6
<1>10. About(all, ExuNames)
  <2>1. /\ RegFUParts(c) \subseteq ExuNames /\ Sch \subseteq ExuNames
        /\ {"exeu", "fp_u", "mul"} \subseteq ExuNames /\ Wires(c) \subseteq ExuNames
    BY DEF RegFUParts, Wires, ExuNames
  <2> HIDE DEF K1, K2, K3, K4, K5, K6, Sch
  <2> QED BY <1>7, <2>1 DEF About
<1>11. /\ Pays(c, s1, v, K1, {}) /\ Pays(c, s2, w, K2, {}) /\ Pays(c, s6, u, K6, {})
  <2> HIDE DEF u, v, w, s1, s2, s6, K1, K2, K6
  <2> QED BY <1>4 DEF Spends
<1>12. IsSeq(s7) /\ IsSeq(s8) BY SeqOne DEF Sub
<1>13. s7 = Sub(pass, "rfu", "exu") /\ s8 = Sub(pass, "scheu", "exu")
       /\ u = <<pass, "exu">> /\ v = <<pass, "rfu">> /\ w = <<pass, "scheu">>
  OBVIOUS
<1> HIDE DEF u, v, w, s1, s2, s3, s4, s5, s6, s7, s8, K1, K2, K3, K4, K5, K6
<1>14. IsSeq(s1) /\ IsSeq(s2) /\ IsSeq(s3) /\ IsSeq(s4) /\ IsSeq(s5) /\ IsSeq(s6)
  BY <1>5, <1>6, <1>11 DEF Pays
<1> DEFINE t2 == s1 \o s2
           t3 == t2 \o s3
           t4 == t3 \o s4
           t5 == t4 \o s5
           t6 == t5 \o s6
           t7 == t6 \o s7
           t8 == t7 \o s8
<1>15. IsSeq(t2) /\ IsSeq(t3) /\ IsSeq(t4) /\ IsSeq(t5) /\ IsSeq(t6) /\ IsSeq(t7)
       /\ IsSeq(t8)
  BY <1>12, <1>14, SeqConcat
<1>16. ASSUME NEW m, IsBook(m), m[u] \cap all = {}, \A x \in {v, w} : m[x] = {}
       PROVE  \E m2 : /\ IsBook(m2) /\ Keeps(c, t8, m, m2)
                      /\ m2[u] = m[u] \cup all
                      /\ \A x \in Accounts \ ({v, w} \cup {u}) : m2[x] = m[x]
  <2>1. m[v] = {} /\ m[w] = {} BY <1>16
  <2>2. PICK m1 : /\ IsBook(m1) /\ Keeps(c, s1, m, m1) /\ m1[v] = K1
                  /\ \A x \in Accounts \ ({} \cup {v}) : m1[x] = m[x]
    <3>1. m[v] \cap K1 = {} /\ m[v] \cup K1 = K1 BY <2>1
    <3>2. \E n : /\ IsBook(n) /\ Keeps(c, s1, m, n) /\ n[v] = m[v] \cup K1
                 /\ \A x \in Accounts \ ({} \cup {v}) : n[x] = m[x]
      BY <1>11, <1>16, <3>1 DEF Pays
    <3> QED BY <3>1, <3>2
  <2>3. PICK m2 : /\ IsBook(m2) /\ Keeps(c, t2, m, m2) /\ m2[w] = m1[w] \cup K2
                  /\ \A x \in Accounts : x # w => m2[x] = m1[x]
    <3>1. m1[w] \cap K2 = {} BY <1>3, <2>1, <2>2
    <3>2. Leads(c, t2, m, m1, w, m1[w] \cup K2)
      BY <1>11, <1>14, <2>2, <3>1, GoOn
    <3> QED BY <3>2 DEF Leads
  <2>4. m2[w] = K2 /\ m2[v] = K1 /\ m2[u] = m[u]
        /\ \A x \in Accounts \ ({v, w} \cup {u}) : m2[x] = m[x]
    BY <1>3, <2>1, <2>2, <2>3
  <2> HIDE DEF t2
  <2>5. PICK m3 : /\ IsBook(m3) /\ Keeps(c, t3, m, m3) /\ m3[u] = m2[u] \cup K3
                  /\ \A x \in Accounts : x # u => m3[x] = m2[x]
    <3>1. m2[u] \cap K3 = {} BY <1>16, <2>4
    <3>2. Leads(c, t3, m, m2, u, m2[u] \cup K3) BY <1>5, <1>15, <2>3, <3>1, GoOn
    <3> QED BY <3>2 DEF Leads
  <2> HIDE DEF t3
  <2>6. PICK m4 : /\ IsBook(m4) /\ Keeps(c, t4, m, m4) /\ m4[u] = m3[u] \cup K4
                  /\ \A x \in Accounts : x # u => m4[x] = m3[x]
    <3>1. m3[u] \cap K4 = {} BY <1>8, <1>16, <2>4, <2>5
    <3>2. Leads(c, t4, m, m3, u, m3[u] \cup K4) BY <1>6, <1>15, <2>5, <3>1, GoOn
    <3> QED BY <3>2 DEF Leads
  <2> HIDE DEF t4
  <2>7. PICK m5 : /\ IsBook(m5) /\ Keeps(c, t5, m, m5) /\ m5[u] = m4[u] \cup K5
                  /\ \A x \in Accounts : x # u => m5[x] = m4[x]
    <3>1. m4[u] \cap K5 = {} BY <1>8, <1>16, <2>4, <2>5, <2>6
    <3>2. Leads(c, t5, m, m4, u, m4[u] \cup K5) BY <1>6, <1>15, <2>6, <3>1, GoOn
    <3> QED BY <3>2 DEF Leads
  <2> HIDE DEF t5
  <2>8. m5[u] = m[u] \cup K3 \cup K4 \cup K5 BY <2>4, <2>5, <2>6, <2>7
  <2>9. PICK m6 : /\ IsBook(m6) /\ Keeps(c, t6, m, m6) /\ m6[u] = m5[u] \cup K6
                  /\ \A x \in Accounts : x # u => m6[x] = m5[x]
    <3>1. m5[u] \cap K6 = {} BY <1>8, <1>16, <2>8
    <3>2. Leads(c, t6, m, m5, u, m5[u] \cup K6) BY <1>11, <1>15, <2>7, <3>1, GoOn
    <3> QED BY <3>2 DEF Leads
  <2> HIDE DEF t6
  <2>10. m6[v] = K1 /\ m6[w] = K2
    BY <1>3, <2>4, <2>5, <2>6, <2>7, <2>9
  <2>11. PICK m7 : /\ IsBook(m7) /\ Keeps(c, t7, m, m7) /\ m7[u] = m6[u] \cup m6[v]
                   /\ \A x \in Accounts : x # u => m7[x] = m6[x]
    <3>1. m6[u] \cap m6[v] = {} BY <1>8, <1>16, <2>8, <2>9, <2>10
    <3>2. Leads(c, t7, m, m6, u, m6[u] \cup m6[v])
      BY <1>2, <1>13, <1>15, <2>9, <3>1, GoOnSub
    <3> QED BY <3>2 DEF Leads
  <2> HIDE DEF t7
  <2>12. m7[u] = m[u] \cup K3 \cup K4 \cup K5 \cup K6 \cup K1 /\ m7[w] = K2
    BY <1>3, <2>8, <2>9, <2>10, <2>11
  <2>13. PICK m8 : /\ IsBook(m8) /\ Keeps(c, t8, m, m8) /\ m8[u] = m7[u] \cup m7[w]
                   /\ \A x \in Accounts : x # u => m8[x] = m7[x]
    <3>1. m7[u] \cap m7[w] = {} BY <1>8, <1>16, <2>12
    <3>2. Leads(c, t8, m, m7, u, m7[u] \cup m7[w])
      BY <1>2, <1>13, <1>15, <2>11, <3>1, GoOnSub
    <3> QED BY <3>2 DEF Leads
  <2>14. m8[u] = m[u] \cup all BY <2>12, <2>13
  <2>15. \A x \in Accounts \ ({v, w} \cup {u}) : m8[x] = m[x]
    BY <2>4, <2>5, <2>6, <2>7, <2>9, <2>11, <2>13
  <2> QED BY <2>13, <2>14, <2>15
<1>17. Pays(c, t8, u, all, {v, w})
  <2> HIDE DEF t8, all
  <2> QED BY <1>3, <1>15, <1>16 DEF Pays
<1> HIDE DEF all
<1>18. EXECU_energy(c, pass) = t8 BY <1>1
<1> HIDE DEF t8
<1> QED BY <1>9, <1>10, <1>13, <1>17, <1>18

\* A book goes on with a piece that has accounts of its own.
LEMMA GoOnWith ==
    ASSUME NEW c, NEW s, IsSeq(s), NEW m, NEW m1, Keeps(c, s, m, m1), IsBook(m1),
           NEW t, NEW u, NEW K, NEW V, Pays(c, t, u, K, V), m1[u] \cap K = {},
           \A v \in V : m1[v] = {}
    PROVE  LeadsBut(c, s \o t, m, m1, u, m1[u] \cup K, V)
<1>1. PICK m2 : /\ IsBook(m2) /\ Keeps(c, t, m1, m2) /\ m2[u] = m1[u] \cup K
                /\ \A x \in Accounts \ (V \cup {u}) : m2[x] = m1[x]
  BY DEF Pays
<1>2. IsSeq(t) BY DEF Pays
<1>3. Keeps(c, s \o t, m, m2) BY <1>1, <1>2, KeepsConcat
<1>4. \A x \in Accounts \ V : x # u => m2[x] = m1[x] BY <1>1
<1> QED BY <1>1, <1>3, <1>4 DEF LeadsBut

\* A unit takes its share of the pipeline.
LEMMA GoOnShare ==
    ASSUME NEW c, NEW s, IsSeq(s), NEW m, NEW m1, Keeps(c, s, m, m1), IsBook(m1),
           NEW pass \in {"tdp", "rtp"}, NEW name \in Sharers,
           NEW u, u = <<pass, name>>, NEW v, v = <<pass, "Core">>,
           NEW t, t = Share(pass, name), NEW K, K = m1[u] \cup {PipeKey(name)},
           PipeKey(name) \notin m1[u], m1[v] \cap K = {}
    PROVE  Splits(c, s \o t, m, m1, u, v, K)
<1>1. PICK m2 : /\ IsBook(m2) /\ Keeps(c, t, m1, m2)
                /\ m2[u] = K /\ m2[v] = m1[v] \cup K
                /\ \A x \in Accounts : x # u /\ x # v => m2[x] = m1[x]
  <2>1. Splits(c, t, m1, m1, u, v, K) BY ShareKeeps
  <2> QED BY <2>1 DEF Splits
<1>2. IsSeq(t) BY SeqOne DEF Share
<1>3. Keeps(c, s \o t, m, m2) BY <1>1, <1>2, KeepsConcat
<1> QED BY <1>1, <1>3 DEF Splits

\* The keys of InstFetchU.
LEMMA AboutIfu ==
    ASSUME NEW c, NEW pass
    PROVE  About(IfuKeys(c, pass), IfuNames)
<1> DEFINE Own1 == IcacheParts \cup {"IB"}
           Own2 == {"BTB"}
           Own3 == {"globalBPT", "L1_localBPT", "chooser", "RAS"}
<1>1. About(Owned(Own1), Own1) /\ About(Owned(Own2), Own2)
      /\ About(Owned(Own3), Own3) /\ About(Owned(Decoders), Decoders)
  BY AboutOwned
<1>2. Own1 \subseteq IfuNames /\ Own2 \subseteq IfuNames /\ Own3 \subseteq IfuNames
      /\ Decoders \subseteq IfuNames
  BY DEF IfuNames, Decoders, IcacheParts
<1>3. IfuKeys(c, pass) \subseteq Owned(Own1) \cup DecodeKeys(pass) \cup Owned(Own2)
                                   \cup Owned(Own3)
  BY DEF IfuKeys, BptKeys
<1>4. About(DecodeKeys(pass), Decoders)
  <2>1. CASE pass = "tdp" BY <1>1, <2>1 DEF DecodeKeys
  <2>2. CASE pass # "tdp"
    <3>1. ASSUME NEW k \in DecodeKeys(pass)
          PROVE  k = <<k[1], k[2]>> /\ k[1] \in Decoders
      <4>1. \E d \in Decoders : \E w : k = <<d, w>> BY <2>2 DEF DecodeKeys
      <4> QED BY <4>1
    <3> QED BY <3>1 DEF About
  <2> QED BY <2>1, <2>2
<1> HIDE DEF Own1, Own2, Own3
<1> QED BY <1>1, <1>2, <1>3, <1>4 DEF About

\* The keys of a core's units do not overlap.
LEMMA KeysOfUnits ==
    ASSUME NEW c, NEW pass \in {"tdp", "rtp"}
    PROVE  /\ \A k \in IfuKeys(c, pass) \cup {PipeKey("ifu")} : UnitOf(k) = "ifu"
           /\ \A k \in LsuKeys(c) \cup {PipeKey("lsu")} : UnitOf(k) = "lsu"
           /\ \A k \in MmuKeys \cup {PipeKey("mmu")} : UnitOf(k) = "mmu"
           /\ \A k \in ExuKeys(c, pass) \cup {PipeKey("exu")} : UnitOf(k) = "exu"
           /\ \A k \in RnuKeys(c) \cup {PipeKey("rnu")} : UnitOf(k) = "rnu"
           /\ \A k \in CacheKeys(c, "L2", pass) : UnitOf(k) = "l2cache"
           /\ UnitOf(<<"undiffCore", "leakage">>) = "undiffCore"
           /\ \A k \in IfuKeys(c, pass) \cup LsuKeys(c) \cup MmuKeys
                         \cup ExuKeys(c, pass) \cup RnuKeys(c)
                         \cup CacheKeys(c, "L2", pass)
                         \cup {<<"undiffCore", "leakage">>} :
                k = <<k[1], k[2]>> /\ k[1] # "corepipe"
<1> DEFINE level == "L2"
<1>1. About(IfuKeys(c, pass), IfuNames) BY AboutIfu
<1>2. About(LsuKeys(c), LsuNames)
  <2>1. LoadStoreUParts(c) \subseteq LsuNames
    BY DEF LoadStoreUParts, LoadStoreUCounted, DcacheBuffers, LsuNames
  <2>2. About(LsuKeys(c), LoadStoreUParts(c)) BY LoadStoreUPays DEF Spends
  <2> QED BY <2>1, <2>2 DEF About
<1>3. About(MmuKeys, MmuNames)
  <2>1. About(MmuKeys, MemManUParts) BY MemManUPays DEF Spends
  <2> QED BY <2>1 DEF MemManUParts, MmuNames
<1>4. About(ExuKeys(c, pass), ExuNames) BY EXECUPays
<1>5. About(RnuKeys(c), RnuNames)
  <2>1. RENAMINGUParts(c) \subseteq RnuNames
    BY DEF RENAMINGUParts, RENAMINGUCounted, RnuNames
  <2>2. About(RnuKeys(c), RENAMINGUParts(c)) BY RENAMINGUPays DEF Spends
  <2> QED BY <2>1, <2>2 DEF About
<1>6. About(CacheKeys(c, level, pass), L2Names)
  <2>1. SharedCacheParts(c, level) \subseteq L2Names
    BY DEF SharedCacheParts, SharedCacheCounted, UniBuffers, L2Names
  <2>2. "l2cache" \in SumNames BY DEF SumNames
  <2> HIDE DEF level
  <2>3. About(CacheKeys(c, level, pass), SharedCacheParts(c, level))
    BY <2>2, SharedCachePays DEF Spends
  <2> QED BY <2>1, <2>3 DEF About
<1> DEFINE Of(K, n) == \A k \in K : /\ UnitOf(k) = n /\ k = <<k[1], k[2]>>
                                    /\ k[1] # "corepipe"
<1>7. ASSUME NEW K, NEW N, About(K, N), NEW n, \A p \in N : Home(p) = n,
             n \in {"ifu", "lsu", "mmu", "exu", "rnu", "l2cache"}
      PROVE  Of(K, n)
  <2>1. "corepipe" \notin N BY <1>7, HomeOf
  <2> QED BY <1>7, <2>1 DEF UnitOf, About
<1>8. /\ Of(IfuKeys(c, pass), "ifu") /\ Of(LsuKeys(c), "lsu")
      /\ Of(MmuKeys, "mmu") /\ Of(ExuKeys(c, pass), "exu")
      /\ Of(RnuKeys(c), "rnu") /\ Of(CacheKeys(c, level, pass), "l2cache")
  <2> HIDE DEF Of
  <2>1. Of(IfuKeys(c, pass), "ifu") BY <1>1, <1>7, HomeOf
  <2>2. Of(LsuKeys(c), "lsu") BY <1>2, <1>7, HomeOf
  <2>3. Of(MmuKeys, "mmu") BY <1>3, <1>7, HomeOf
  <2>4. Of(ExuKeys(c, pass), "exu") BY <1>4, <1>7, HomeOf
  <2>5. Of(RnuKeys(c), "rnu") BY <1>5, <1>7, HomeOf
  <2>6. Of(CacheKeys(c, level, pass), "l2cache") BY <1>6, <1>7, HomeOf
  <2> QED BY <2>1, <2>2, <2>3, <2>4, <2>5, <2>6
<1>9. \A n : UnitOf(PipeKey(n)) = n
  <2> TAKE n
  <2>1. PipeKey(n)[1] = "corepipe" /\ PipeKey(n)[2] = n BY DEF PipeKey
  <2> QED BY <2>1 DEF UnitOf
<1> DEFINE k0 == <<"undiffCore", "leakage">>
<1>10. UnitOf(k0) = "undiffCore" /\ k0 = <<k0[1], k0[2]>> /\ k0[1] # "corepipe"
  <2>1. k0[1] = "undiffCore" /\ k0[2] = "leakage" OBVIOUS
  <2> QED BY <2>1, HomeOf DEF UnitOf
<1> HIDE DEF k0
<1>11. /\ \A k \in IfuKeys(c, pass) \cup {PipeKey("ifu")} : UnitOf(k) = "ifu"
       /\ \A k \in LsuKeys(c) \cup {PipeKey("lsu")} : UnitOf(k) = "lsu"
       /\ \A k \in MmuKeys \cup {PipeKey("mmu")} : UnitOf(k) = "mmu"
       /\ \A k \in ExuKeys(c, pass) \cup {PipeKey("exu")} : UnitOf(k) = "exu"
       /\ \A k \in RnuKeys(c) \cup {PipeKey("rnu")} : UnitOf(k) = "rnu"
       /\ \A k \in CacheKeys(c, level, pass) : UnitOf(k) = "l2cache"
  BY <1>8, <1>9
<1>12. \A k \in IfuKeys(c, pass) \cup LsuKeys(c) \cup MmuKeys
                  \cup ExuKeys(c, pass) \cup RnuKeys(c)
                  \cup CacheKeys(c, level, pass) \cup {k0} :
         k = <<k[1], k[2]>> /\ k[1] # "corepipe"
  BY <1>8, <1>10
<1> QED BY <1>10, <1>11, <1>12 DEF k0

\* A core: each unit's sum, with its share of the pipeline, goes into Core.
LEMMA CoreSettles ==
    ASSUME NEW c, NEW pass \in {"tdp", "rtp"}
    PROVE  Settles(c, Core_energy(c, pass), pass, "Core", CoreKeys(c, pass))
<1> DEFINE a(n) == <<pass, n>>
           s1 == InstFetchU_energy(c, pass)
           s2 == LoadStoreU_energy(c, pass)
           s3 == MemManU_energy(pass)
           s4 == EXECU_energy(c, pass)
           rn == RENAMINGU_energy(c, pass)
           sh == Share(pass, "rnu")
           s5 == Only(c.OOO, rn \o sh)
           s6 == Share(pass, "ifu")
           s7 == Share(pass, "lsu")
           s8 == Share(pass, "exu")
           s9 == Share(pass, "mmu")
           dyn == {}
           lkg == {"undiffCore"}
           s10 == Part(pass, "undiffCore", "Core", dyn, lkg, "power")
           ca == SharedCache_energy(c, "L2", "l2cache", pass)
           su == Sub(pass, "l2cache", "Core")
           s11 == Only(c.Private_L2, ca \o su)
           KI == IfuKeys(c, pass)
           KL == LsuKeys(c)
           KM == MmuKeys
           KX == ExuKeys(c, pass)
           KR == RnuKeys(c)
           KC == CacheKeys(c, "L2", pass)
           P(n) == PipeKey(n)
           k0 == <<"undiffCore", "leakage">>
           AI == KI \cup {P("ifu")}
           AL == KL \cup {P("lsu")}
           AM == KM \cup {P("mmu")}
           AX == KX \cup {P("exu")}
           AR == IF c.OOO THEN KR \cup {P("rnu")} ELSE {}
           AC == IF c.Private_L2 THEN KC ELSE {}
<1>1. Core_energy(c, pass) = s1 \o s2 \o s3 \o s4 \o s5 \o s6 \o s7 \o s8
                               \o s9 \o s10 \o s11
  BY DEF Core_energy
<1>2. {"ifu", "lsu", "mmu", "exu", "rnu", "Core", "l2cache", "BPT", "rfu", "scheu"}
        \subseteq SumNames
      /\ "undiffCore" \notin SumNames
      /\ {"ifu", "lsu", "mmu", "exu", "rnu"} \subseteq Sharers
  BY DEF SumNames, Sharers
<1>3. /\ \A n \in SumNames : a(n) \in Accounts /\ a(n)[1] = pass
      /\ \A n, o : a(n) = a(o) => n = o
  BY AccountOf
<1>4. /\ Pays(c, s1, a("ifu"), KI, {a("BPT")})
      /\ Pays(c, s4, a("exu"), KX, {a("rfu"), a("scheu")})
  BY InstFetchUPays, EXECUPays
<1>5. Pays(c, s2, a("lsu"), KL, {}) BY LoadStoreUPays DEF Spends
<1>6. Pays(c, s3, a("mmu"), KM, {}) BY MemManUPays DEF Spends
<1>7. Pays(c, rn, a("rnu"), KR, {}) BY RENAMINGUPays DEF Spends
<1>8. Pays(c, ca, a("l2cache"), KC, {})
  <2> DEFINE level == "L2"
  <2> HIDE DEF level
  <2>1. Spends(c, SharedCache_energy(c, level, "l2cache", pass),
               <<pass, "l2cache">>, CacheKeys(c, level, pass),
               SharedCacheParts(c, level))
    BY <1>2, SharedCachePays
  <2> QED BY <2>1 DEF Spends, level
<1>9. Pays(c, s10, a("Core"), {k0}, {})
  <2>1. AddedKeys(dyn, lkg, "power") = {k0} BY DEF AddedKeys, AllKeys, LeakKeys
  <2>2. /\ \A d \in dyn : d = <<d[1], d[2]>> /\ d[1] # "corepipe"
                          /\ d[2] # "leakage"
        /\ "corepipe" \notin lkg
    OBVIOUS
  <2> HIDE DEF dyn, lkg, k0
  <2>3. Pays(c, s10, a("Core"), AddedKeys(dyn, lkg, "power"), {})
    BY <1>2, <2>2, PaysPart
  <2> QED BY <2>1, <2>3
<1>10. /\ \A k \in AI : UnitOf(k) = "ifu"
       /\ \A k \in AL : UnitOf(k) = "lsu"
       /\ \A k \in AM : UnitOf(k) = "mmu"
       /\ \A k \in AX : UnitOf(k) = "exu"
       /\ \A k \in KR \cup {P("rnu")} : UnitOf(k) = "rnu"
       /\ \A k \in KC : UnitOf(k) = "l2cache"
       /\ UnitOf(k0) = "undiffCore"
       /\ \A k \in KI \cup KL \cup KM \cup KX \cup KR \cup KC \cup {k0} :
            k[1] # "corepipe"
       /\ \A n : P(n)[1] = "corepipe"
  <2>1. \A n : P(n)[1] = "corepipe" BY DEF PipeKey
  <2> QED BY <2>1, KeysOfUnits
<1>11. CoreKeys(c, pass) = AR \cup AI \cup AL \cup AX \cup AM \cup {k0} \cup AC
  <2>1. {PipeKey(u) : u \in Sharing(c)}
          = {P("ifu"), P("lsu"), P("exu"), P("mmu")}
              \cup (IF c.OOO THEN {P("rnu")} ELSE {})
    BY DEF Sharing
  <2> HIDE DEF KI, KL, KM, KX, KR, KC, P, k0
  <2> QED BY <2>1 DEF CoreKeys, KI, KL, KM, KX, KR, KC, k0
<1>12. AR = {} \/ AR = KR \cup {P("rnu")} OBVIOUS
<1>13. AC = {} \/ AC = KC OBVIOUS
<1>14. IsSeq(sh) /\ IsSeq(s6) /\ IsSeq(s7) /\ IsSeq(s8) /\ IsSeq(s9) /\ IsSeq(su)
  BY SeqOne DEF Share, Sub
<1>15. /\ \A n : a(n) = <<pass, n>>
       /\ sh = Share(pass, "rnu") /\ s6 = Share(pass, "ifu")
       /\ s7 = Share(pass, "lsu") /\ s8 = Share(pass, "exu")
       /\ s9 = Share(pass, "mmu") /\ su = Sub(pass, "l2cache", "Core")
       /\ \A n : P(n) = PipeKey(n)
  OBVIOUS
<1>16. /\ c.OOO => s5 = rn \o sh /\ AR = KR \cup {P("rnu")}
       /\ ~c.OOO => s5 = <<>> /\ AR = {}
       /\ c.Private_L2 => s11 = ca \o su /\ AC = KC
       /\ ~c.Private_L2 => s11 = <<>> /\ AC = {}
  BY DEF Only
<1> HIDE DEF a, s1, s2, s3, s4, rn, sh, s5, s6, s7, s8, s9, s10, ca, su, s11,
             KI, KL, KM, KX, KR, KC, P, k0, AR, AC
<1>17. IsSeq(s1) /\ IsSeq(s2) /\ IsSeq(s3) /\ IsSeq(s4) /\ IsSeq(rn)
       /\ IsSeq(ca) /\ IsSeq(s10)
  BY <1>4, <1>5, <1>6, <1>7, <1>8, <1>9 DEF Pays
<1>18. IsSeq(s5) /\ IsSeq(s11)
  <2>1. IsSeq(rn \o sh) /\ IsSeq(ca \o su) BY <1>14, <1>17, SeqConcat
  <2>2. IsSeq(s5)
    <3>1. CASE c.OOO BY <1>16, <2>1, <3>1
    <3>2. CASE ~c.OOO BY <1>16, <3>2, SeqNone
    <3> QED BY <3>1, <3>2
  <2>3. IsSeq(s11)
    <3>1. CASE c.Private_L2 BY <1>16, <2>1, <3>1
    <3>2. CASE ~c.Private_L2 BY <1>16, <3>2, SeqNone
    <3> QED BY <3>1, <3>2
  <2> QED BY <2>2, <2>3
<1> DEFINE t2 == s1 \o s2
           t3 == t2 \o s3
           t4 == t3 \o s4
           t5 == t4 \o s5
           t6 == t5 \o s6
           t7 == t6 \o s7
           t8 == t7 \o s8
           t9 == t8 \o s9
           t10 == t9 \o s10
           t11 == t10 \o s11
<1>19. IsSeq(t2) /\ IsSeq(t3) /\ IsSeq(t4) /\ IsSeq(t5) /\ IsSeq(t6) /\ IsSeq(t7)
       /\ IsSeq(t8) /\ IsSeq(t9) /\ IsSeq(t10) /\ IsSeq(t11)
  BY <1>14, <1>17, <1>18, SeqConcat
<1>20. Core_energy(c, pass) = t11 BY <1>1
<1>21. ASSUME NEW m, IsBook(m), \A n \in SumNames : m[a(n)] = {}
       PROVE  \E m2 : /\ IsBook(m2) /\ Keeps(c, t11, m, m2)
                      /\ m2[a("Core")] = CoreKeys(c, pass)
                      /\ \A x \in Accounts : x[1] # pass => m2[x] = m[x]
  <2> DEFINE Apart(n) == \A x \in Accounts : x[1] # pass => n[x] = m[x]
  <2>1. PICK m1 : /\ IsBook(m1) /\ Keeps(c, s1, m, m1)
                  /\ m1[a("ifu")] = KI /\ Apart(m1)
                  /\ \A n \in SumNames \ {"ifu", "BPT"} : m1[a(n)] = {}
    <3>1. m[a("ifu")] = {} /\ m[a("BPT")] = {} BY <1>2, <1>21
    <3>2. m[a("ifu")] \cap KI = {} /\ m[a("ifu")] \cup KI = KI BY <3>1
    <3>3. \E n : /\ IsBook(n) /\ Keeps(c, s1, m, n)
                 /\ n[a("ifu")] = m[a("ifu")] \cup KI
                 /\ \A x \in Accounts \ ({a("BPT")} \cup {a("ifu")}) : n[x] = m[x]
      BY <1>4, <1>21, <3>1, <3>2 DEF Pays
    <3>4. PICK n : /\ IsBook(n) /\ Keeps(c, s1, m, n)
                   /\ n[a("ifu")] = m[a("ifu")] \cup KI
                   /\ \A x \in Accounts \ ({a("BPT")} \cup {a("ifu")}) : n[x] = m[x]
      BY <3>3
    <3>5. Apart(n) BY <1>2, <1>3, <3>4
    <3>6. \A o \in SumNames \ {"ifu", "BPT"} : n[a(o)] = {}
      BY <1>2, <1>3, <1>21, <3>4
    <3> QED BY <3>2, <3>4, <3>5, <3>6
  <2>2. PICK m2 : /\ IsBook(m2) /\ Keeps(c, t2, m, m2)
                  /\ m2[a("lsu")] = m1[a("lsu")] \cup KL
                  /\ \A x \in Accounts : x # a("lsu") => m2[x] = m1[x]
    <3>1. m1[a("lsu")] \cap KL = {} BY <1>2, <2>1
    <3>2. Leads(c, t2, m, m1, a("lsu"), m1[a("lsu")] \cup KL)
      BY <1>5, <1>17, <2>1, <3>1, GoOn
    <3> QED BY <3>2 DEF Leads
  <2> HIDE DEF t2
  <2>3. PICK m3 : /\ IsBook(m3) /\ Keeps(c, t3, m, m3)
                  /\ m3[a("mmu")] = m2[a("mmu")] \cup KM
                  /\ \A x \in Accounts : x # a("mmu") => m3[x] = m2[x]
    <3>1. m2[a("mmu")] \cap KM = {} BY <1>2, <1>3, <2>1, <2>2
    <3>2. Leads(c, t3, m, m2, a("mmu"), m2[a("mmu")] \cup KM)
      BY <1>6, <1>19, <2>2, <3>1, GoOn
    <3> QED BY <3>2 DEF Leads
  <2> HIDE DEF t3
  <2>4. /\ m3[a("ifu")] = KI /\ m3[a("lsu")] = KL /\ m3[a("mmu")] = KM
        /\ \A n \in SumNames \ {"ifu", "BPT", "lsu", "mmu"} : m3[a(n)] = {}
        /\ Apart(m3)
    <3>1. /\ m1[a("lsu")] = {} /\ m1[a("mmu")] = {} BY <1>2, <2>1
    <3>2. /\ a("ifu") # a("lsu") /\ a("ifu") # a("mmu") /\ a("lsu") # a("mmu")
          /\ a("ifu") \in Accounts /\ a("lsu") \in Accounts
          /\ a("mmu") \in Accounts
      BY <1>2, <1>3
    <3>3. m3[a("ifu")] = KI /\ m3[a("lsu")] = KL /\ m3[a("mmu")] = KM
      BY <2>1, <2>2, <2>3, <3>1, <3>2
    <3>4. ASSUME NEW n \in SumNames \ {"ifu", "BPT", "lsu", "mmu"}
          PROVE  m3[a(n)] = {}
      <4>1. a(n) \in Accounts /\ a(n) # a("lsu") /\ a(n) # a("mmu") BY <1>3
      <4> QED BY <2>1, <2>2, <2>3, <4>1
    <3>5. Apart(m3) BY <1>2, <1>3, <2>1, <2>2, <2>3
    <3> QED BY <3>3, <3>4, <3>5
  <2>5. PICK m4 : /\ IsBook(m4) /\ Keeps(c, t4, m, m4)
                  /\ m4[a("exu")] = m3[a("exu")] \cup KX
                  /\ \A x \in Accounts \ {a("rfu"), a("scheu")} :
                       x # a("exu") => m4[x] = m3[x]
    <3>1. m3[a("exu")] \cap KX = {} /\ \A v \in {a("rfu"), a("scheu")} : m3[v] = {}
      BY <1>2, <2>4
    <3>2. LeadsBut(c, t4, m, m3, a("exu"), m3[a("exu")] \cup KX,
                   {a("rfu"), a("scheu")})
      BY <1>4, <1>19, <2>3, <3>1, GoOnWith
    <3> QED BY <3>2 DEF LeadsBut
  <2> HIDE DEF t4
  <2>6. /\ m4[a("ifu")] = KI /\ m4[a("lsu")] = KL /\ m4[a("mmu")] = KM
        /\ m4[a("exu")] = KX
        /\ m4[a("rnu")] = {} /\ m4[a("l2cache")] = {} /\ m4[a("Core")] = {}
        /\ Apart(m4)
    BY <1>2, <1>3, <2>4, <2>5
  <2>7. PICK m5 : /\ IsBook(m5) /\ Keeps(c, t5, m, m5)
                  /\ m5[a("ifu")] = KI /\ m5[a("lsu")] = KL /\ m5[a("mmu")] = KM
                  /\ m5[a("exu")] = KX /\ m5[a("l2cache")] = {}
                  /\ m5[a("Core")] = AR /\ Apart(m5)
    <3>1. CASE ~c.OOO
      <4>1. Keeps(c, s5, m4, m4) BY <1>16, <2>5, <3>1, KeepsNone
      <4>2. Keeps(c, t5, m, m4) BY <1>18, <1>19, <2>5, <4>1, KeepsConcat
      <4> QED BY <1>16, <2>5, <2>6, <3>1, <4>2
    <3>2. CASE c.OOO
      <4>1. m4[a("rnu")] \cap KR = {} /\ m4[a("rnu")] \cup KR = KR BY <2>6
      <4>2. PICK n : /\ IsBook(n) /\ Keeps(c, rn, m4, n)
                     /\ n[a("rnu")] = m4[a("rnu")] \cup KR
                     /\ \A x \in Accounts \ ({} \cup {a("rnu")}) : n[x] = m4[x]
        BY <1>7, <2>5, <4>1 DEF Pays
      <4>3. n[a("rnu")] = KR /\ n[a("Core")] = {}
        BY <1>2, <1>3, <2>6, <4>1, <4>2
      <4> DEFINE K == KR \cup {P("rnu")}
      <4>4. /\ K = n[a("rnu")] \cup {PipeKey("rnu")}
            /\ PipeKey("rnu") \notin n[a("rnu")] /\ n[a("Core")] \cap K = {}
        BY <1>10, <1>15, <4>3
      <4> HIDE DEF K
      <4>5. Splits(c, rn \o sh, m4, n, a("rnu"), a("Core"), K)
        BY <1>2, <1>15, <1>17, <4>2, <4>4, GoOnShare
      <4>6. PICK o : /\ IsBook(o) /\ Keeps(c, rn \o sh, m4, o)
                     /\ o[a("Core")] = n[a("Core")] \cup K
                     /\ \A x \in Accounts : x # a("rnu") /\ x # a("Core")
                          => o[x] = n[x]
        BY <4>5 DEF Splits
      <4>7. Keeps(c, t5, m, o)
        BY <1>16, <1>18, <1>19, <2>5, <3>2, <4>6, KeepsConcat
      <4>8. o[a("Core")] = AR BY <1>16, <3>2, <4>3, <4>6 DEF K
      <4>9. /\ o[a("ifu")] = KI /\ o[a("lsu")] = KL /\ o[a("mmu")] = KM
            /\ o[a("exu")] = KX /\ o[a("l2cache")] = {} /\ Apart(o)
        BY <1>2, <1>3, <2>6, <4>2, <4>6
      <4> QED BY <4>6, <4>7, <4>8, <4>9
    <3> QED BY <3>1, <3>2
  <2> HIDE DEF t5
  <2>8. PICK m6 : /\ IsBook(m6) /\ Keeps(c, t6, m, m6)
                  /\ m6[a("lsu")] = KL /\ m6[a("mmu")] = KM
                  /\ m6[a("exu")] = KX /\ m6[a("l2cache")] = {}
                  /\ m6[a("Core")] = AR \cup AI /\ Apart(m6)
    <3>1. /\ AI = m5[a("ifu")] \cup {PipeKey("ifu")}
          /\ PipeKey("ifu") \notin m5[a("ifu")] /\ m5[a("Core")] \cap AI = {}
      BY <1>10, <1>12, <1>15, <2>7
    <3> HIDE DEF AI
    <3>2. Splits(c, t6, m, m5, a("ifu"), a("Core"), AI)
      BY <1>2, <1>15, <1>19, <2>7, <3>1, GoOnShare
    <3>3. PICK o : /\ IsBook(o) /\ Keeps(c, t6, m, o)
                   /\ o[a("Core")] = m5[a("Core")] \cup AI
                   /\ \A x \in Accounts : x # a("ifu") /\ x # a("Core")
                        => o[x] = m5[x]
      BY <3>2 DEF Splits
    <3>4. /\ o[a("lsu")] = KL /\ o[a("mmu")] = KM
          /\ o[a("exu")] = KX /\ o[a("l2cache")] = {} /\ Apart(o)
      BY <1>2, <1>3, <2>7, <3>3
    <3> QED BY <2>7, <3>3, <3>4
  <2> HIDE DEF t6
  <2>9. PICK m7 : /\ IsBook(m7) /\ Keeps(c, t7, m, m7)
                  /\ m7[a("mmu")] = KM
                  /\ m7[a("exu")] = KX /\ m7[a("l2cache")] = {}
                  /\ m7[a("Core")] = AR \cup AI \cup AL /\ Apart(m7)
    <3>1. /\ AL = m6[a("lsu")] \cup {PipeKey("lsu")}
          /\ PipeKey("lsu") \notin m6[a("lsu")] /\ m6[a("Core")] \cap AL = {}
      BY <1>10, <1>12, <1>15, <2>8
    <3> HIDE DEF AL, AI
    <3>2. Splits(c, t7, m, m6, a("lsu"), a("Core"), AL)
      BY <1>2, <1>15, <1>19, <2>8, <3>1, GoOnShare
    <3>3. PICK o : /\ IsBook(o) /\ Keeps(c, t7, m, o)
                   /\ o[a("Core")] = m6[a("Core")] \cup AL
                   /\ \A x \in Accounts : x # a("lsu") /\ x # a("Core")
                        => o[x] = m6[x]
      BY <3>2 DEF Splits
    <3>4. /\ o[a("mmu")] = KM
          /\ o[a("exu")] = KX /\ o[a("l2cache")] = {} /\ Apart(o)
      BY <1>2, <1>3, <2>8, <3>3
    <3> QED BY <2>8, <3>3, <3>4
  <2> HIDE DEF t7
  <2>10. PICK m8 : /\ IsBook(m8) /\ Keeps(c, t8, m, m8)
                   /\ m8[a("mmu")] = KM /\ m8[a("l2cache")] = {}
                   /\ m8[a("Core")] = AR \cup AI \cup AL \cup AX /\ Apart(m8)
    <3>1. /\ AX = m7[a("exu")] \cup {PipeKey("exu")}
          /\ PipeKey("exu") \notin m7[a("exu")] /\ m7[a("Core")] \cap AX = {}
      BY <1>10, <1>12, <1>15, <2>9
    <3> HIDE DEF AX, AL, AI
    <3>2. Splits(c, t8, m, m7, a("exu"), a("Core"), AX)
      BY <1>2, <1>15, <1>19, <2>9, <3>1, GoOnShare
    <3>3. PICK o : /\ IsBook(o) /\ Keeps(c, t8, m, o)
                   /\ o[a("Core")] = m7[a("Core")] \cup AX
                   /\ \A x \in Accounts : x # a("exu") /\ x # a("Core")
                        => o[x] = m7[x]
      BY <3>2 DEF Splits
    <3>4. o[a("mmu")] = KM /\ o[a("l2cache")] = {} /\ Apart(o)
      BY <1>2, <1>3, <2>9, <3>3
    <3> QED BY <2>9, <3>3, <3>4
  <2> HIDE DEF t8
  <2>11. PICK m9 : /\ IsBook(m9) /\ Keeps(c, t9, m, m9)
                   /\ m9[a("l2cache")] = {}
                   /\ m9[a("Core")] = AR \cup AI \cup AL \cup AX \cup AM
                   /\ Apart(m9)
    <3>1. /\ AM = m8[a("mmu")] \cup {PipeKey("mmu")}
          /\ PipeKey("mmu") \notin m8[a("mmu")] /\ m8[a("Core")] \cap AM = {}
      BY <1>10, <1>12, <1>15, <2>10
    <3> HIDE DEF AX, AL, AI, AM
    <3>2. Splits(c, t9, m, m8, a("mmu"), a("Core"), AM)
      BY <1>2, <1>15, <1>19, <2>10, <3>1, GoOnShare
    <3>3. PICK o : /\ IsBook(o) /\ Keeps(c, t9, m, o)
                   /\ o[a("Core")] = m8[a("Core")] \cup AM
                   /\ \A x \in Accounts : x # a("mmu") /\ x # a("Core")
                        => o[x] = m8[x]
      BY <3>2 DEF Splits
    <3>4. o[a("l2cache")] = {} /\ Apart(o)
      BY <1>2, <1>3, <2>10, <3>3
    <3> QED BY <2>10, <3>3, <3>4
  <2> HIDE DEF t9
  <2> DEFINE A9 == AR \cup AI \cup AL \cup AX \cup AM
  <2>12. \A k \in A9 : UnitOf(k) \in {"rnu", "ifu", "lsu", "exu", "mmu"}
    BY <1>10, <1>12
  <2>13. PICK m10 : /\ IsBook(m10) /\ Keeps(c, t10, m, m10)
                    /\ m10[a("Core")] = m9[a("Core")] \cup {k0}
                    /\ \A x \in Accounts : x # a("Core") => m10[x] = m9[x]
    <3>1. m9[a("Core")] \cap {k0} = {} BY <1>10, <2>11, <2>12
    <3>2. Leads(c, t10, m, m9, a("Core"), m9[a("Core")] \cup {k0})
      BY <1>9, <1>19, <2>11, <3>1, GoOn
    <3> QED BY <3>2 DEF Leads
  <2> HIDE DEF t10
  <2>14. m10[a("l2cache")] = {} /\ m10[a("Core")] = A9 \cup {k0} /\ Apart(m10)
    BY <1>2, <1>3, <2>11, <2>13
  <2>15. PICK m11 : /\ IsBook(m11) /\ Keeps(c, t11, m, m11)
                    /\ m11[a("Core")] = (A9 \cup {k0}) \cup AC
                    /\ Apart(m11)
    <3> HIDE DEF A9
    <3>1. CASE ~c.Private_L2
      <4>1. Keeps(c, s11, m10, m10) BY <1>16, <2>13, <3>1, KeepsNone
      <4>2. Keeps(c, t11, m, m10) BY <1>18, <1>19, <2>13, <4>1, KeepsConcat
      <4>3. (A9 \cup {k0}) \cup AC = A9 \cup {k0} BY <1>16, <3>1
      <4> QED BY <2>13, <2>14, <4>2, <4>3
    <3>2. CASE c.Private_L2
      <4>1. m10[a("l2cache")] \cap KC = {} /\ m10[a("l2cache")] \cup KC = KC
        BY <2>14
      <4>2. PICK n : /\ IsBook(n) /\ Keeps(c, ca, m10, n)
                     /\ n[a("l2cache")] = m10[a("l2cache")] \cup KC
                     /\ \A x \in Accounts \ ({} \cup {a("l2cache")}) :
                          n[x] = m10[x]
        BY <1>8, <2>13, <4>1 DEF Pays
      <4>3. n[a("l2cache")] = KC /\ n[a("Core")] = A9 \cup {k0}
        BY <1>2, <1>3, <2>14, <4>1, <4>2
      <4>4. n[a("Core")] \cap n[a("l2cache")] = {} BY <1>10, <2>12, <4>3
      <4>5. Leads(c, ca \o su, m10, n, a("Core"), n[a("Core")] \cup n[a("l2cache")])
        BY <1>2, <1>15, <1>17, <4>2, <4>4, GoOnSub
      <4>6. PICK o : /\ IsBook(o) /\ Keeps(c, ca \o su, m10, o)
                     /\ o[a("Core")] = n[a("Core")] \cup n[a("l2cache")]
                     /\ \A x \in Accounts : x # a("Core") => o[x] = n[x]
        BY <4>5 DEF Leads
      <4>7. Keeps(c, t11, m, o)
        BY <1>16, <1>18, <1>19, <2>13, <3>2, <4>6, KeepsConcat
      <4>8. o[a("Core")] = (A9 \cup {k0}) \cup AC BY <1>16, <3>2, <4>3, <4>6
      <4>9. Apart(o) BY <1>2, <1>3, <2>14, <4>2, <4>6
      <4> QED BY <4>6, <4>7, <4>8, <4>9
    <3> QED BY <3>1, <3>2
  <2>16. m11[a("Core")] = CoreKeys(c, pass) BY <1>11, <2>15
  <2> QED BY <2>15, <2>16
<1> HIDE DEF t11
<1> QED BY <1>15, <1>19, <1>20, <1>21 DEF Settles

\* A pass over any configuration.
LEMMA PassSettles ==
    ASSUME NEW c \in ConfigType, NEW pass \in {"tdp", "rtp"}
    PROVE  Settles(c, computeEnergy(c, pass), pass, c.root, RootKeys(c, pass))
<1>1. CASE c.root = "Core"
  <2>1. Settles(c, Core_energy(c, pass), pass, "Core", CoreKeys(c, pass))
    BY CoreSettles
  <2> QED BY <1>1, <2>1 DEF computeEnergy, RootKeys
<1>2. CASE c.root # "Core"
  <2> DEFINE s == SharedCache_energy(c, c.root, c.root, pass)
             K == CacheKeys(c, c.root, pass)
             u == <<pass, c.root>>
  <2>1. c.root \in SumNames BY <1>2 DEF ConfigType, SumNames
  <2>2. u \in Accounts /\ u[1] = pass BY <2>1, AccountOf
  <2>3. Pays(c, s, u, K, {}) BY <2>1, SharedCachePays DEF Spends
  <2>4. computeEnergy(c, pass) = s /\ RootKeys(c, pass) = K
    BY <1>2 DEF computeEnergy, RootKeys
  <2>5. ASSUME NEW m, IsBook(m), \A n \in SumNames : m[<<pass, n>>] = {}
        PROVE  \E m2 : /\ IsBook(m2) /\ Keeps(c, s, m, m2) /\ m2[u] = K
                       /\ \A x \in Accounts : x[1] # pass => m2[x] = m[x]
    <3>1. m[u] = {} BY <2>1, <2>5
    <3> HIDE DEF s, K, u
    <3>2. m[u] \cap K = {} /\ m[u] \cup K = K BY <3>1
    <3>3. PICK m2 : /\ IsBook(m2) /\ Keeps(c, s, m, m2) /\ m2[u] = m[u] \cup K
                    /\ \A x \in Accounts \ ({} \cup {u}) : m2[x] = m[x]
      BY <2>3, <2>5, <3>2 DEF Pays
    <3> QED BY <2>2, <3>2, <3>3
  <2>6. IsSeq(s) BY <2>3 DEF Pays
  <2> HIDE DEF s, K
  <2> QED BY <2>4, <2>5, <2>6 DEF Settles
<1> QED BY <1>1, <1>2

\* Every configuration has a journal.
LEMMA HasJournal ==
    ASSUME NEW c \in Configs
    PROVE  Journal(c, JournalOf(c))
<1> DEFINE s == computeEnergy(c, "tdp")
           t == computeEnergy(c, "rtp")
           b == NoKeys
<1>1. c \in ConfigType BY ConfigsAssumption
<1>2. Energy[c] = s \o t
  <2>1. Passes[1] = "tdp" /\ Passes[2] = "rtp" BY DEF Passes
  <2> QED BY <2>1 DEF Energy
<1>3. Settles(c, s, "tdp", c.root, RootKeys(c, "tdp"))
      /\ Settles(c, t, "rtp", c.root, RootKeys(c, "rtp"))
  BY <1>1, PassSettles
<1>4. IsBook(b) /\ \A x \in Accounts : b[x] = {} BY DEF IsBook, NoKeys
<1>5. c.root \in SumNames BY <1>1 DEF ConfigType, SumNames
<1>6. \A n \in SumNames : /\ <<"tdp", n>> \in Accounts /\ <<"rtp", n>> \in Accounts
                          /\ <<"tdp", n>>[1] = "tdp" /\ <<"rtp", n>>[1] = "rtp"
  BY AccountOf
<1> HIDE DEF s, t, b
<1>7. PICK b1 : /\ IsBook(b1) /\ Keeps(c, s, b, b1)
                /\ b1[<<"tdp", c.root>>] = RootKeys(c, "tdp")
                /\ \A x \in Accounts : x[1] # "tdp" => b1[x] = b[x]
  BY <1>3, <1>4, <1>6 DEF Settles
<1>8. \A n \in SumNames : b1[<<"rtp", n>>] = {} BY <1>4, <1>6, <1>7
<1>9. PICK b2 : /\ IsBook(b2) /\ Keeps(c, t, b1, b2)
                /\ b2[<<"rtp", c.root>>] = RootKeys(c, "rtp")
                /\ \A x \in Accounts : x[1] # "rtp" => b2[x] = b1[x]
  BY <1>3, <1>7, <1>8 DEF Settles
<1>10. b2[<<"tdp", c.root>>] = RootKeys(c, "tdp") BY <1>5, <1>6, <1>7, <1>9
<1>11. Keeps(c, s \o t, b, b2)
  BY <1>3, <1>7, <1>9, KeepsConcat DEF Settles
<1>12. PICK o : /\ o[0] = b /\ o[Len(s \o t)] = b2
                /\ \A k \in 0 .. Len(s \o t) : IsBook(o[k])
                /\ \A k \in 1 .. Len(s \o t) :
                     Charges(c, (s \o t)[k], o[k - 1], o[k])
  BY <1>11 DEF Keeps
<1>13. \A pass \in {"tdp", "rtp"} : b2[<<pass, c.root>>] = RootKeys(c, pass)
  BY <1>9, <1>10
<1>14. Journal(c, o)
  <2> DEFINE E == s \o t
  <2>1. Energy[c] = E BY <1>2
  <2> HIDE DEF E
  <2> QED BY <1>12, <1>13, <2>1 DEF Journal, E, b
<1> QED BY <1>14 DEF JournalOf

-----------------------------------------------------------------------------
(* Powers that are what the books say. *)

\* Nothing.
LEMMA OnceNone ==
    ASSUME NEW c, NEW pass, NEW bag, DOMAIN bag = {}
    PROVE  Once(c, pass, bag, {})
<1>1. ASSUME NEW p, NEW w, NEW src
      PROVE  Copies(<<p, w, src>>, bag) = 0 /\ Times(c, pass, {}, p, w, src) = 0
  BY DEF Copies, BagIn, BagToSet, Times, SharesIn, In
<1> QED BY <1>1 DEF Once

\* Two powers.
LEMMA OnceSum ==
    ASSUME NEW c, NEW pass, NEW a, NEW K, NEW b, NEW L,
           Once(c, pass, a, K), Once(c, pass, b, L), K \cap L = {}
    PROVE  Once(c, pass, a (+) b, K \cup L)
<1> DEFINE d == a (+) b
<1>1. Counting(a) /\ Counting(b) BY DEF Once, Counting
<1>2. ASSUME NEW e \in DOMAIN d
      PROVE  d[e] \in Nat \ {0} /\ e = <<e[1], e[2], e[3]>>
  <2>1. /\ DOMAIN d = DOMAIN a \cup DOMAIN b
        /\ d[e] = (IF e \in DOMAIN a THEN a[e] ELSE 0)
                  + (IF e \in DOMAIN b THEN b[e] ELSE 0)
    BY <1>2 DEF (+)
  <2> HIDE DEF d
  <2>2. /\ e \in DOMAIN a => a[e] \in Nat \ {0} /\ e = <<e[1], e[2], e[3]>>
        /\ e \in DOMAIN b => b[e] \in Nat \ {0} /\ e = <<e[1], e[2], e[3]>>
    BY DEF Once
  <2>3. e \in DOMAIN a \/ e \in DOMAIN b BY <1>2, <2>1
  <2> QED BY <2>1, <2>2, <2>3
<1>3. ASSUME NEW p, NEW w, NEW src,
             <<p, w>> # <<"instruction_selection", "leakage">>
      PROVE  Copies(<<p, w, src>>, d) = Times(c, pass, K \cup L, p, w, src)
  <2> DEFINE t == <<p, w, src>>
  <2>1. Copies(t, d) = Copies(t, a) + Copies(t, b) BY <1>1, CopiesOfSum
  <2>2. /\ Copies(t, a) = Times(c, pass, K, p, w, src)
        /\ Copies(t, b) = Times(c, pass, L, p, w, src)
    BY <1>3 DEF Once
  <2> HIDE DEF t, d
  <2>3. ASSUME NEW x
        PROVE  /\ In(x, K \cup L) = In(x, K) + In(x, L)
               /\ In(x, K) \in Nat /\ In(x, L) \in Nat
    BY DEF In
  <2>4. SharesIn(K \cup L) = SharesIn(K) + SharesIn(L)
    <3> DEFINE a1 == In(PipeKey("ifu"), K)  b1 == In(PipeKey("ifu"), L)
               a2 == In(PipeKey("lsu"), K)  b2 == In(PipeKey("lsu"), L)
               a3 == In(PipeKey("exu"), K)  b3 == In(PipeKey("exu"), L)
               a4 == In(PipeKey("mmu"), K)  b4 == In(PipeKey("mmu"), L)
               a5 == In(PipeKey("rnu"), K)  b5 == In(PipeKey("rnu"), L)
    <3>1. /\ In(PipeKey("ifu"), K \cup L) = a1 + b1
          /\ In(PipeKey("lsu"), K \cup L) = a2 + b2
          /\ In(PipeKey("exu"), K \cup L) = a3 + b3
          /\ In(PipeKey("mmu"), K \cup L) = a4 + b4
          /\ In(PipeKey("rnu"), K \cup L) = a5 + b5
      BY <2>3
    <3>2. /\ a1 \in Nat /\ a2 \in Nat /\ a3 \in Nat /\ a4 \in Nat /\ a5 \in Nat
          /\ b1 \in Nat /\ b2 \in Nat /\ b3 \in Nat /\ b4 \in Nat /\ b5 \in Nat
      BY <2>3
    <3>3. /\ SharesIn(K \cup L) = (a1 + b1) + (a2 + b2) + (a3 + b3) + (a4 + b4)
                                 + (a5 + b5)
          /\ SharesIn(K) = a1 + a2 + a3 + a4 + a5
          /\ SharesIn(L) = b1 + b2 + b3 + b4 + b5
      BY <3>1 DEF SharesIn
    <3> HIDE DEF a1, a2, a3, a4, a5, b1, b2, b3, b4, b5
    <3> QED BY <3>2, <3>3
  <2>5. Times(c, pass, K \cup L, p, w, src)
          = Times(c, pass, K, p, w, src) + Times(c, pass, L, p, w, src)
    <3>1. CASE p = "corepipe" /\ w = "share" /\ src = pass
      BY <2>4, <3>1 DEF Times
    <3>2. CASE p # "corepipe" /\ src = SourceOf(c, pass, w)
      BY <2>3, <3>2 DEF Times
    <3>3. CASE /\ ~(p = "corepipe" /\ w = "share" /\ src = pass)
               /\ ~(p # "corepipe" /\ src = SourceOf(c, pass, w))
      <4>1. ASSUME NEW M PROVE Times(c, pass, M, p, w, src) = 0
        BY <3>3 DEF Times
      <4> QED BY <4>1
    <3> QED BY <3>1, <3>2, <3>3
  <2> QED BY <2>1, <2>2, <2>5 DEF t
<1> HIDE DEF d
<1>4. Once(c, pass, d, K \cup L) BY <1>2, <1>3 DEF Once
<1> QED BY <1>4 DEF d

\* A set of terms.
LEMMA OnceSet ==
    ASSUME NEW c, NEW pass, NEW S, NEW K,
           \A e \in S : e = <<e[1], e[2], e[3]>>,
           \A p, w, src : <<p, w>> # <<"instruction_selection", "leakage">> =>
             (IF <<p, w, src>> \in S THEN 1 ELSE 0)
               = Times(c, pass, K, p, w, src)
    PROVE  Once(c, pass, SetToBag(S), K)
<1> DEFINE bag == SetToBag(S)
<1>1. DOMAIN bag = S /\ \A e \in S : bag[e] = 1 BY DEF SetToBag
<1>2. \A e : Copies(e, bag) = IF e \in S THEN 1 ELSE 0 BY CopiesOfSet
<1> HIDE DEF bag
<1>3. Once(c, pass, bag, K) BY <1>1, <1>2 DEF Once
<1> QED BY <1>3 DEF bag

\* The terms of keys that are neither about the pipeline.
LEMMA OnceKeys ==
    ASSUME NEW c, NEW pass, NEW K,
           \A k \in K : k = <<k[1], k[2]>> /\ k[1] # "corepipe",
           NEW S, S = {<<k[1], k[2], SourceOf(c, pass, k[2])>> : k \in K}
    PROVE  Once(c, pass, SetToBag(S), K)
<1>1. \A e \in S : e = <<e[1], e[2], e[3]>> OBVIOUS
<1>2. ASSUME NEW n PROVE PipeKey(n) \notin K
  <2>1. PipeKey(n)[1] = "corepipe" BY DEF PipeKey
  <2> QED BY <2>1
<1>3. SharesIn(K) = 0 BY <1>2 DEF SharesIn, In
<1>4. ASSUME NEW p, NEW w, NEW src
      PROVE  (IF <<p, w, src>> \in S THEN 1 ELSE 0) = Times(c, pass, K, p, w, src)
  <2>1. <<p, w, src>> \in S <=> <<p, w>> \in K /\ src = SourceOf(c, pass, w)
    <3>1. ASSUME <<p, w, src>> \in S
          PROVE  <<p, w>> \in K /\ src = SourceOf(c, pass, w)
      <4>1. PICK k \in K : <<p, w, src>> = <<k[1], k[2], SourceOf(c, pass, k[2])>>
        BY <3>1
      <4>2. p = k[1] /\ w = k[2] /\ src = SourceOf(c, pass, k[2]) BY <4>1
      <4> QED BY <4>2
    <3>2. ASSUME <<p, w>> \in K, src = SourceOf(c, pass, w)
          PROVE  <<p, w, src>> \in S
      <4> DEFINE k == <<p, w>>
      <4>1. k[1] = p /\ k[2] = w OBVIOUS
      <4>2. k \in K BY <3>2
      <4> HIDE DEF k
      <4>3. <<k[1], k[2], SourceOf(c, pass, k[2])>> \in S BY <4>2
      <4> QED BY <3>2, <4>1, <4>3
    <3> QED BY <3>1, <3>2
  <2>2. <<p, w>> \in K => p # "corepipe"
    <3>1. <<p, w>>[1] = p OBVIOUS
    <3> QED BY <3>1
  <2> QED BY <1>3, <2>1, <2>2 DEF Times, In
<1> QED BY <1>1, <1>4, OnceSet

\* A share of the pipeline.
LEMMA OncePipe ==
    ASSUME NEW c, NEW pass, NEW u \in Sharers, NEW K, K = {PipeKey(u)},
           NEW S, S = {<<"corepipe", "share", pass>>}
    PROVE  Once(c, pass, SetToBag(S), K)
<1>1. \A e \in S : e = <<e[1], e[2], e[3]>> OBVIOUS
<1>2. ASSUME NEW n PROVE In(PipeKey(n), K) = IF n = u THEN 1 ELSE 0
  <2>1. PipeKey(n) = PipeKey(u) <=> n = u BY DEF PipeKey
  <2> QED BY <2>1 DEF In
<1>3. SharesIn(K) = 1 BY <1>2 DEF SharesIn, Sharers
<1>4. ASSUME NEW p, NEW w, NEW src
      PROVE  (IF <<p, w, src>> \in S THEN 1 ELSE 0) = Times(c, pass, K, p, w, src)
  <2>1. <<p, w, src>> \in S <=> p = "corepipe" /\ w = "share" /\ src = pass
    OBVIOUS
  <2>2. p # "corepipe" => In(<<p, w>>, K) = 0 BY DEF PipeKey, In
  <2>3. CASE p = "corepipe" BY <1>3, <2>1, <2>3 DEF Times
  <2>4. CASE p # "corepipe" BY <2>1, <2>2, <2>4 DEF Times
  <2> QED BY <2>3, <2>4
<1> QED BY <1>1, <1>4, OnceSet

\* Leakage.
LEMMA OnceLeakage ==
    ASSUME NEW c, NEW pass, NEW lkg, "corepipe" \notin lkg,
           NEW S, S = {<<p, "leakage", "none">> : p \in lkg}
    PROVE  Once(c, pass, SetToBag(S), LeakKeys(lkg))
<1>1. \A e \in S : e = <<e[1], e[2], e[3]>> OBVIOUS
<1> DEFINE K == LeakKeys(lkg)
<1>2. ASSUME NEW p, NEW w
      PROVE  <<p, w>> \in K
               <=> p \in lkg /\ p # "instruction_selection" /\ w = "leakage"
  BY DEF LeakKeys
<1>3. \A n : PipeKey(n) \notin K BY <1>2 DEF PipeKey
<1> HIDE DEF K
<1>4. SharesIn(K) = 0 BY <1>3 DEF SharesIn, In
<1>5. ASSUME NEW p, NEW w, NEW src,
             <<p, w>> # <<"instruction_selection", "leakage">>
      PROVE  (IF <<p, w, src>> \in S THEN 1 ELSE 0) = Times(c, pass, K, p, w, src)
  <2>1. <<p, w, src>> \in S <=> p \in lkg /\ w = "leakage" /\ src = "none"
    OBVIOUS
  <2>2. SourceOf(c, pass, "leakage") = "none" BY DEF SourceOf
  <2>3. p = "instruction_selection" => w # "leakage" BY <1>5
  <2> QED BY <1>2, <1>4, <2>1, <2>2, <2>3 DEF Times, In
<1>6. Once(c, pass, SetToBag(S), K) BY <1>1, <1>5, OnceSet
<1> QED BY <1>6 DEF K

-----------------------------------------------------------------------------
(* The powers at each statement are what the journal says. *)

\* The pass that counted a term's accesses is the one the books expect.
LEMMA TermSource ==
    ASSUME NEW c \in ConfigType, NEW T, NEW R, NEW st, Ready(c, T, R, st),
           StatsRight(stats, T, R), DOMAIN stats \cap Uncounted = {},
           st.op = "part", NEW d \in st.dyn, d[2] # "leakage"
    PROVE  Source(d[2]) = SourceOf(c, st.pass, d[2])
<1> DEFINE w == d[2]
<1>1. /\ (w \in T /\ w \notin R) => Source(w) = "tdp"
      /\ w \in R => Source(w) = "rtp"
      /\ w \notin T \cup R => Source(w) = "none"
  BY DEF StatsRight, Source
<1>2. T \cap Twins = {} /\ R \cap Spared(c, "rtp") = {} BY DEF Ready
<1>3. "one access" \notin T \cup R BY DEF StatsRight, Uncounted
<1>4. w # "leakage" OBVIOUS
<1> HIDE DEF w
<1>5. ASSUME st.pass = "tdp" PROVE Source(w) = SourceOf(c, "tdp", w)
  <2>1. R = {} /\ Sound(c, "tdp", T, st) BY <1>5 DEF Ready
  <2>2. (w \in T /\ w # "saved decode energy") \/ Borrowed(c, "tdp", w)
    BY <2>1 DEF Sound, w
  <2>3. w \in T \/ w \in Twins BY <2>2 DEF Borrowed
  <2>4. CASE w \in Twins BY <1>1, <1>2, <1>4, <2>1, <2>4 DEF SourceOf
  <2>5. CASE w \notin Twins BY <1>1, <1>4, <2>1, <2>3, <2>5 DEF SourceOf
  <2> QED BY <2>4, <2>5
<1>6. ASSUME st.pass = "rtp" PROVE Source(w) = SourceOf(c, "rtp", w)
  <2>1. Known(c, "tdp") \subseteq T /\ Sound(c, "rtp", R, st)
    BY <1>6 DEF Ready
  <2>2. (w \in R /\ w # "saved decode energy") \/ Borrowed(c, "rtp", w)
    BY <2>1 DEF Sound, w
  <2>3. CASE w \in R /\ w # "saved decode energy"
    <3>1. Source(w) = "rtp" BY <1>1, <2>3
    <3>2. w # "homenode" /\ w # "one access" BY <1>2, <1>3, <2>3 DEF Spared
    <3>3. ~(w = "unicache.apcaches" /\ Directory(c)) BY <1>2, <2>3 DEF Spared
    <3> QED BY <1>4, <2>3, <3>1, <3>2, <3>3 DEF SourceOf
  <2>4. CASE w = "saved decode energy" /\ c.root = "Core"
    <3>1. w \in T BY <2>1, <2>4 DEF Known
    <3>2. w \notin R BY <1>2, <2>4 DEF Spared
    <3> QED BY <1>1, <2>4, <3>1, <3>2 DEF SourceOf
  <2>5. CASE w = "homenode" /\ c.dir_ty = "SBT" /\ HasCache(c)
    <3>1. w \in T BY <2>1, <2>5 DEF Known
    <3>2. w \notin R BY <1>2, <2>5 DEF Spared
    <3> QED BY <1>1, <2>5, <3>1, <3>2 DEF SourceOf
  <2>6. CASE w = "one access"
    <3>1. Source(w) = "none" BY <1>1, <1>3, <2>6
    <3> QED BY <2>6, <3>1 DEF SourceOf
  <2>7. CASE w = "unicache.apcaches" /\ Directory(c)
    <3>1. w \notin R BY <1>2, <2>7 DEF Spared
    <3>2. w \notin T BY <1>2, <2>7 DEF Twins
    <3>3. Source(w) = "none" BY <1>1, <3>1, <3>2
    <3> QED BY <2>7, <3>3 DEF SourceOf
  <2> QED BY <2>2, <2>3, <2>4, <2>5, <2>6, <2>7 DEF Borrowed
<1>7. st.pass \in {"tdp", "rtp"} BY DEF Ready
<1> QED BY <1>5, <1>6, <1>7 DEF w

\* What is set is found again.
LEMMA PowerSet ==
    ASSUME DOMAIN power = {"tdp", "rtp"}, NEW pass \in {"tdp", "rtp"}, NEW f,
           NEW w, w = [power EXCEPT ![pass] = f ++ @]
    PROVE  IsSet(power, pass, f, w)
<1> DEFINE h == f ++ power[pass]
<1>1. /\ DOMAIN w = DOMAIN power
      /\ \A q \in DOMAIN power : w[q] = IF q = pass THEN h ELSE power[q]
  OBVIOUS
<1>2. /\ DOMAIN h = DOMAIN f \cup DOMAIN power[pass]
      /\ \A n \in DOMAIN h : h[n] = IF n \in DOMAIN f THEN f[n] ELSE power[pass][n]
  BY DEF ++
<1> HIDE DEF h
<1>3. ASSUME NEW n
      PROVE  PowerIn(w, pass, n) = IF n \in DOMAIN f THEN f[n]
                                   ELSE PowerIn(power, pass, n)
  BY <1>1, <1>2 DEF PowerIn
<1>4. ASSUME NEW q \in DOMAIN power, NEW n, q # pass
      PROVE  PowerIn(w, q, n) = PowerIn(power, q, n)
  BY <1>1, <1>4 DEF PowerIn
<1> QED BY <1>1, <1>3, <1>4 DEF IsSet

\* One entry.
LEMMA OneEntry ==
    ASSUME NEW n, NEW b, NEW f, f = Entry(n, b)
    PROVE  DOMAIN f = {n} /\ f[n] = b
  BY DEF Entry

\* An entry for a sum, and perhaps one for something that is none.
LEMMA SumEntry ==
    ASSUME NEW n \in SumNames, NEW q, q \notin SumNames, NEW a, NEW b,
           NEW f, f = Entry(q, a) ++ Entry(n, b) \/ f = Entry(n, b)
    PROVE  /\ f[n] = b /\ n \in DOMAIN f
           /\ \A x \in SumNames : x \in DOMAIN f => x = n
<1>1. q # n OBVIOUS
<1>2. CASE f = Entry(n, b)
  <2>1. DOMAIN f = {n} /\ f[n] = b BY <1>2, OneEntry
  <2> QED BY <2>1
<1>3. CASE f = Entry(q, a) ++ Entry(n, b)
  <2> DEFINE e == Entry(q, a)
             g == Entry(n, b)
  <2>1. DOMAIN e = {q} /\ DOMAIN g = {n} /\ g[n] = b BY DEF Entry
  <2>2. f = e ++ g BY <1>3
  <2> HIDE DEF e, g
  <2>3. DOMAIN f = {q, n} /\ f[n] = b BY <1>1, <2>1, <2>2 DEF ++
  <2> QED BY <2>3
<1> QED BY <1>2, <1>3

\* An account is paid.
LEMMA PaidBook ==
    ASSUME NEW m, IsBook(m), NEW u \in Accounts, NEW K, NEW m2, m2 = Paid(m, u, K)
    PROVE  /\ IsBook(m2) /\ m2[u] = m[u] \cup K
           /\ \A x \in Accounts : x # u => m2[x] = m[x]
<1>1. DOMAIN m = Accounts BY DEF IsBook
<1> QED BY <1>1 DEF Paid, IsBook

\* Powers are set for one sum and perhaps for something that is none.
LEMMA BalanceSum ==
    ASSUME NEW c, NEW m, Balanced(c, power, m), NEW pass \in {"tdp", "rtp"},
           NEW n \in SumNames, NEW q, q \notin SumNames, NEW a, NEW b, NEW K,
           NEW u, u = <<pass, n>>, Once(c, pass, b, m[u] \cup K),
           NEW f, f = Entry(q, a) ++ Entry(n, b) \/ f = Entry(n, b),
           NEW w, w = [power EXCEPT ![pass] = f ++ @],
           NEW m2, m2 = Paid(m, u, K)
    PROVE  Balanced(c, w, m2)
<1>1. IsBook(m) /\ DOMAIN power = {"tdp", "rtp"} BY DEF Balanced
<1>2. u \in Accounts BY DEF Accounts
<1>3. /\ IsBook(m2) /\ m2[u] = m[u] \cup K
      /\ \A x \in Accounts : x # u => m2[x] = m[x]
  BY <1>1, <1>2, PaidBook
<1>4. /\ f[n] = b /\ n \in DOMAIN f
      /\ \A x \in SumNames : x \in DOMAIN f => x = n
  BY SumEntry
<1>5. /\ DOMAIN w = {"tdp", "rtp"}
      /\ \A p \in {"tdp", "rtp"} : \A x :
           PowerIn(w, p, x) = IF p = pass /\ x \in DOMAIN f THEN f[x]
                              ELSE PowerIn(power, p, x)
  <2>1. IsSet(power, pass, f, w) BY <1>1, PowerSet
  <2> QED BY <2>1 DEF IsSet
<1>6. ASSUME NEW p \in {"tdp", "rtp"}, NEW x \in SumNames
      PROVE  Once(c, p, PowerIn(w, p, x), m2[<<p, x>>])
  <2> DEFINE v == <<p, x>>
  <2>1. v \in Accounts /\ (v = u <=> p = pass /\ x = n) BY DEF Accounts
  <2>2. CASE p = pass /\ x = n
    <3>1. PowerIn(w, p, x) = b BY <1>4, <1>5, <2>2
    <3>2. m2[v] = m[u] \cup K BY <1>3, <2>1, <2>2
    <3> QED BY <2>2, <3>1, <3>2
  <2>3. CASE ~(p = pass /\ x = n)
    <3>1. PowerIn(w, p, x) = PowerIn(power, p, x) BY <1>4, <1>5, <2>3
    <3>2. m2[v] = m[v] BY <1>3, <2>1, <2>3
    <3>3. Once(c, p, PowerIn(power, p, x), m[v]) BY DEF Balanced
    <3> QED BY <3>1, <3>2, <3>3
  <2> QED BY <2>2, <2>3
<1> QED BY <1>3, <1>5, <1>6 DEF Balanced

-----------------------------------------------------------------------------
(* Each statement does to the powers what the journal says. *)

\* What is known of the statement to be executed, and of the sums.
LEMMA UponEntry ==
    ASSUME Accounting, phase = "compute"
    PROVE  /\ Balanced(cfg, power, JournalOf(cfg)[epc - 1])
           /\ Charges(cfg, estmt, JournalOf(cfg)[epc - 1], JournalOf(cfg)[epc])
           /\ Computation /\ DOMAIN stats \cap Uncounted = {}
           /\ estmt.pass \in {"tdp", "rtp"}
<1>1. /\ cfg \in Configs /\ epc \in 1 .. Len(Energy[cfg])
      /\ estmt.pass \in {"tdp", "rtp"}
  BY UponEstmt DEF Accounting
<1>2. Journal(cfg, JournalOf(cfg)) BY <1>1, HasJournal
<1>3. estmt = Energy[cfg][epc] BY DEF estmt
<1> QED BY <1>1, <1>2, <1>3 DEF Journal, Accounting

\* A statement that does what the journal says.
LEMMA EntryStep ==
    ASSUME Accounting, phase = "compute", NextEnergy, Computation',
           DOMAIN stats' \cap Uncounted = {},
           Balanced(cfg, power', JournalOf(cfg)[epc])
    PROVE  Accounting'
<1> DEFINE E == Energy[cfg]
<1>1. epc \in 1 .. Len(E) /\ Len(E) \in Nat BY UponEstmt DEF Accounting
<1>2. /\ cfg' = cfg /\ epc' = epc + 1
      /\ phase' = IF epc = Len(E) THEN "display" ELSE "compute"
  BY DEF NextEnergy, vars
<1>3. epc' - 1 = epc BY <1>1, <1>2
<1>4. Energy[cfg'] = E BY <1>2
<1> HIDE DEF E
<1>5. (Computed => epc = Len(Energy[cfg]) + 1)'
  BY <1>2, <1>4 DEF Computed
<1>6. Balanced(cfg, power, JournalOf(cfg)[epc - 1])' BY <1>2, <1>3
<1> QED BY <1>5, <1>6 DEF Accounting

\* Once, for the sum a statement adds to.
LEMMA OnceIn ==
    ASSUME NEW c, NEW w, NEW m, Balanced(c, w, m), NEW pass \in {"tdp", "rtp"},
           NEW n \in SumNames
    PROVE  Once(c, pass, PowerIn(w, pass, n), m[<<pass, n>>])
  BY DEF Balanced

\* InitStats changes no power.
LEMMA InitStatsEntry ==
    ASSUME Accounting, InitStats
    PROVE  Accounting'
<1> DEFINE a == JournalOf(cfg)[epc - 1]
           b == JournalOf(cfg)[epc]
<1>1. /\ phase = "compute" /\ estmt.op = "stats" /\ NextEnergy /\ power' = power
      /\ stats' = [p \in estmt.parts |-> estmt.pass] ++ stats
  BY DEF InitStats, EStep
<1>2. Computation' BY InitStatsStep DEF Accounting
<1>3. /\ Balanced(cfg, power, a) /\ Charges(cfg, estmt, a, b)
      /\ DOMAIN stats \cap Uncounted = {}
  BY <1>1, UponEntry
<1> HIDE DEF a, b
<1>4. b = a /\ estmt.parts \cap Uncounted = {} BY <1>1, <1>3 DEF Charges
<1>5. DOMAIN stats' \cap Uncounted = {}
  <2> DEFINE g == [p \in estmt.parts |-> estmt.pass]
  <2>1. DOMAIN g = estmt.parts OBVIOUS
  <2> HIDE DEF g
  <2>2. DOMAIN (g ++ stats) = estmt.parts \cup DOMAIN stats BY <2>1 DEF ++
  <2> QED BY <1>1, <1>3, <1>4, <2>2 DEF g
<1>6. Balanced(cfg, power', b) BY <1>1, <1>3, <1>4
<1> QED BY <1>1, <1>2, <1>5, <1>6, EntryStep DEF b

\* PartPower adds the terms of the part's keys.
LEMMA PartPowerEntry ==
    ASSUME Accounting, PartPower
    PROVE  Accounting'
<1> DEFINE pass == estmt.pass
           D == {<<d[1], d[2], Source(d[2])>> : d \in estmt.dyn}
           L == {<<p, "leakage", "none">> : p \in estmt.lkg}
           power_t == SetToBag(D)
           all == power_t (+) SetToBag(L)
           adds == CASE estmt.adds = "power"   -> all
                     [] estmt.adds = "power_t" -> power_t
                     [] OTHER                  -> EmptyBag
           q == estmt.name
           n == estmt.into
           sum == PowerOf(pass, n)
           b == sum (+) adds
           f == Entry(q, all) ++ Entry(n, b)
           u == <<pass, n>>
           K == AddedKeys(estmt.dyn, estmt.lkg, estmt.adds)
           m == JournalOf(cfg)[epc - 1]
           m2 == JournalOf(cfg)[epc]
<1>1. /\ phase = "compute" /\ estmt.op = "part" /\ NextEnergy /\ stats' = stats
      /\ power' = [power EXCEPT ![pass] = f ++ @]
  BY DEF PartPower, EStep, SetPower
<1>2. Computation' BY PartPowerStep DEF Accounting
<1>3. /\ Balanced(cfg, power, m) /\ Charges(cfg, estmt, m, m2)
      /\ DOMAIN stats \cap Uncounted = {} /\ pass \in {"tdp", "rtp"}
  BY <1>1, UponEntry
<1> HIDE DEF m, m2
<1>4. /\ q \notin SumNames /\ n \in SumNames
      /\ \A d \in estmt.dyn :
           d = <<d[1], d[2]>> /\ d[1] # "corepipe" /\ d[2] # "leakage"
      /\ "corepipe" \notin estmt.lkg
      /\ m[u] \cap K = {} /\ m2 = Paid(m, u, K)
  BY <1>1, <1>3 DEF Charges
<1>5. Once(cfg, pass, power_t, estmt.dyn)
  <2>1. ASSUME NEW d \in estmt.dyn
        PROVE  Source(d[2]) = SourceOf(cfg, pass, d[2])
    BY <1>1, <1>3, <1>4, UponEstmt, TermSource DEF Accounting
  <2>2. D = {<<k[1], k[2], SourceOf(cfg, pass, k[2])>> : k \in estmt.dyn}
    BY <2>1
  <2> HIDE DEF D
  <2>3. \A k \in estmt.dyn : k = <<k[1], k[2]>> /\ k[1] # "corepipe" BY <1>4
  <2> QED BY <2>2, <2>3, OnceKeys
<1>6. Once(cfg, pass, SetToBag(L), LeakKeys(estmt.lkg)) BY <1>4, OnceLeakage
<1>7. estmt.dyn \cap LeakKeys(estmt.lkg) = {}
  <2>1. ASSUME NEW k \in LeakKeys(estmt.lkg) PROVE k[2] = "leakage"
    BY DEF LeakKeys
  <2> QED BY <1>4, <2>1
<1> HIDE DEF D, L, power_t
<1>8. Once(cfg, pass, all, AllKeys(estmt.dyn, estmt.lkg))
  BY <1>5, <1>6, <1>7, OnceSum DEF AllKeys
<1>9. Once(cfg, pass, EmptyBag, {})
  <2>1. DOMAIN EmptyBag = {} BY DEF EmptyBag, SetToBag
  <2> QED BY <2>1, OnceNone
<1> HIDE DEF all
<1>10. Once(cfg, pass, adds, K)
  <2>1. CASE estmt.adds = "power" BY <1>8, <2>1 DEF AddedKeys
  <2>2. CASE estmt.adds = "power_t" BY <1>5, <2>2 DEF AddedKeys
  <2>3. CASE estmt.adds \notin {"power", "power_t"}
    BY <1>9, <2>3 DEF AddedKeys
  <2> QED BY <2>1, <2>2, <2>3
<1> HIDE DEF adds, K, q, n, pass
<1>11. Once(cfg, pass, sum, m[u])
  <2>1. sum = PowerIn(power, pass, n) BY DEF PowerOf, PowerIn
  <2> QED BY <1>3, <1>4, <2>1, OnceIn
<1> HIDE DEF sum
<1>12. Once(cfg, pass, b, m[u] \cup K) BY <1>4, <1>10, <1>11, OnceSum
<1> HIDE DEF b
<1>13. f = Entry(q, all) ++ Entry(n, b) OBVIOUS
<1> HIDE DEF f
<1>14. Balanced(cfg, power', m2)
  BY <1>1, <1>3, <1>4, <1>12, <1>13, BalanceSum
<1> QED BY <1>1, <1>2, <1>3, <1>14, EntryStep DEF m2

\* SubTotal adds the terms of another sum.
LEMMA SubTotalEntry ==
    ASSUME Accounting, SubTotal
    PROVE  Accounting'
<1> DEFINE pass == estmt.pass
           p == estmt.name
           n == estmt.into
           b == PowerOf(pass, n) (+) PowerOf(pass, p)
           f == Entry(n, b)
           u == <<pass, n>>
           v == <<pass, p>>
           m == JournalOf(cfg)[epc - 1]
           m2 == JournalOf(cfg)[epc]
<1>1. /\ phase = "compute" /\ estmt.op = "sub" /\ NextEnergy /\ stats' = stats
      /\ power' = [power EXCEPT ![pass] = f ++ @]
  BY DEF SubTotal, EStep, SetPower
<1>2. Computation' BY SubTotalStep DEF Accounting
<1>3. /\ Balanced(cfg, power, m) /\ Charges(cfg, estmt, m, m2)
      /\ DOMAIN stats \cap Uncounted = {} /\ pass \in {"tdp", "rtp"}
  BY <1>1, UponEntry
<1> HIDE DEF m, m2
<1>4. /\ p \in SumNames /\ n \in SumNames
      /\ m[u] \cap m[v] = {} /\ m2 = Paid(m, u, m[v])
  BY <1>1, <1>3 DEF Charges
<1> HIDE DEF p, n, pass
<1>5. Once(cfg, pass, PowerOf(pass, n), m[u]) /\ Once(cfg, pass, PowerOf(pass, p), m[v])
  <2>1. /\ PowerOf(pass, n) = PowerIn(power, pass, n)
        /\ PowerOf(pass, p) = PowerIn(power, pass, p)
    BY DEF PowerOf, PowerIn
  <2> QED BY <1>3, <1>4, <2>1, OnceIn
<1>6. Once(cfg, pass, b, m[u] \cup m[v]) BY <1>4, <1>5, OnceSum
<1> HIDE DEF b
<1>7. f = Entry(n, b) OBVIOUS
<1>8. "no sum" \notin SumNames BY DEF SumNames
<1> HIDE DEF f
<1>9. Balanced(cfg, power', m2)
  BY <1>1, <1>3, <1>4, <1>6, <1>7, <1>8, BalanceSum
<1> QED BY <1>1, <1>2, <1>3, <1>9, EntryStep DEF m2

\* Two accounts are paid.
LEMMA PaidTwice ==
    ASSUME NEW m, IsBook(m), NEW u \in Accounts, NEW v \in Accounts, u # v, NEW K,
           NEW m2, m2 = Paid(Paid(m, u, K), v, K)
    PROVE  /\ IsBook(m2) /\ m2[u] = m[u] \cup K /\ m2[v] = m[v] \cup K
           /\ \A x \in Accounts : x # u /\ x # v => m2[x] = m[x]
<1> DEFINE m1 == Paid(m, u, K)
<1>1. DOMAIN m = Accounts BY DEF IsBook
<1>2. /\ m1 = [m EXCEPT ![u] = @ \cup K] /\ m2 = [m1 EXCEPT ![v] = @ \cup K]
  BY DEF Paid
<1> HIDE DEF m1
<1>3. DOMAIN m1 = Accounts BY <1>1, <1>2
<1>4. /\ m1[u] = m[u] \cup K
      /\ \A x \in Accounts : x # u => m1[x] = m[x]
  BY <1>1, <1>2
<1>5. /\ IsBook(m2) /\ m2[v] = m1[v] \cup K
      /\ \A x \in Accounts : x # v => m2[x] = m1[x]
  BY <1>2, <1>3 DEF IsBook
<1> QED BY <1>4, <1>5

\* The pipeline is shared out: a unit and the core are set.
LEMMA BalanceShare ==
    ASSUME NEW c, NEW m, Balanced(c, power, m), NEW pass \in {"tdp", "rtp"},
           NEW x \in Sharers, NEW n, n = "Core", NEW a, NEW b, NEW K,
           NEW u, u = <<pass, x>>, NEW v, v = <<pass, n>>,
           m[u] \subseteq K,
           Once(c, pass, a, K), Once(c, pass, b, m[v] \cup K),
           NEW f, f = Entry(x, a) ++ Entry(n, b),
           NEW w, w = [power EXCEPT ![pass] = f ++ @],
           NEW m2, m2 = Paid(Paid(m, u, K), v, K)
    PROVE  Balanced(c, w, m2)
<1>1. IsBook(m) /\ DOMAIN power = {"tdp", "rtp"} BY DEF Balanced
<1>2. x \in SumNames /\ n \in SumNames /\ x # n BY DEF Sharers, SumNames
<1>3. u \in Accounts /\ v \in Accounts /\ u # v BY <1>2 DEF Accounts
<1>4. m[u] \cup K = K OBVIOUS
<1>5. /\ IsBook(m2) /\ m2[u] = m[u] \cup K /\ m2[v] = m[v] \cup K
      /\ \A y \in Accounts : y # u /\ y # v => m2[y] = m[y]
  BY <1>1, <1>3, PaidTwice
<1>6. m2[u] = K /\ m2[v] = m[v] \cup K BY <1>4, <1>5
<1>7. DOMAIN f = {x, n} /\ f[x] = a /\ f[n] = b
  <2> DEFINE e == Entry(x, a)
             g == Entry(n, b)
  <2>1. DOMAIN e = {x} /\ e[x] = a /\ DOMAIN g = {n} /\ g[n] = b BY DEF Entry
  <2>2. f = e ++ g OBVIOUS
  <2> HIDE DEF e, g
  <2> QED BY <1>2, <2>1, <2>2 DEF ++
<1>8. /\ DOMAIN w = {"tdp", "rtp"}
      /\ \A p \in {"tdp", "rtp"} : \A y :
           PowerIn(w, p, y) = IF p = pass /\ y \in DOMAIN f THEN f[y]
                              ELSE PowerIn(power, p, y)
  <2>1. IsSet(power, pass, f, w) BY <1>1, PowerSet
  <2> QED BY <2>1 DEF IsSet
<1>9. ASSUME NEW p \in {"tdp", "rtp"}, NEW y \in SumNames
      PROVE  Once(c, p, PowerIn(w, p, y), m2[<<p, y>>])
  <2> DEFINE z == <<p, y>>
  <2>1. /\ z \in Accounts
        /\ z = u <=> p = pass /\ y = x
        /\ z = v <=> p = pass /\ y = n
    BY DEF Accounts
  <2> HIDE DEF z
  <2>2. CASE p = pass /\ y = x
    <3>1. PowerIn(w, p, y) = a /\ m2[z] = K BY <1>6, <1>7, <1>8, <2>1, <2>2
    <3> QED BY <2>2, <3>1 DEF z
  <2>3. CASE p = pass /\ y = n
    <3>1. PowerIn(w, p, y) = b /\ m2[z] = m[v] \cup K
      BY <1>6, <1>7, <1>8, <2>1, <2>3
    <3> QED BY <2>3, <3>1 DEF z
  <2>4. CASE ~(p = pass /\ y = x) /\ ~(p = pass /\ y = n)
    <3>1. PowerIn(w, p, y) = PowerIn(power, p, y) BY <1>7, <1>8, <2>4
    <3>2. m2[z] = m[z] BY <1>5, <2>1, <2>4
    <3>3. Once(c, p, PowerIn(power, p, y), m[z]) BY OnceIn DEF z
    <3> QED BY <3>1, <3>2, <3>3 DEF z
  <2> QED BY <2>2, <2>3, <2>4
<1> QED BY <1>5, <1>8, <1>9 DEF Balanced

\* PipeShare adds a share to the unit, and the unit to the core.
LEMMA PipeShareEntry ==
    ASSUME Accounting, PipeShare
    PROVE  Accounting'
<1> DEFINE pass == estmt.pass
           x == estmt.name
           n == "Core"
           S == {<<"corepipe", "share", pass>>}
           sum == PowerOf(pass, n)
           own == PowerOf(pass, x)
           unit == own (+) SetToBag(S)
           b == sum (+) unit
           f == Entry(x, unit) ++ Entry(n, b)
           u == <<pass, x>>
           v == <<pass, n>>
           m == JournalOf(cfg)[epc - 1]
           m2 == JournalOf(cfg)[epc]
           P == {PipeKey(x)}
           K == m[u] \cup P
<1>1. /\ phase = "compute" /\ estmt.op = "share" /\ NextEnergy /\ stats' = stats
      /\ power' = [power EXCEPT ![pass] = f ++ @]
  BY DEF PipeShare, EStep, SetPower
<1>2. Computation' BY PipeShareStep DEF Accounting
<1>3. /\ Balanced(cfg, power, m) /\ Charges(cfg, estmt, m, m2)
      /\ DOMAIN stats \cap Uncounted = {} /\ pass \in {"tdp", "rtp"}
  BY <1>1, UponEntry
<1> HIDE DEF m, m2
<1>4. /\ x \in Sharers /\ PipeKey(x) \notin m[u]
      /\ m[v] \cap K = {} /\ m2 = Paid(Paid(m, u, K), v, K)
  BY <1>1, <1>3 DEF Charges
<1>5. x \in SumNames /\ n \in SumNames BY <1>4 DEF Sharers, SumNames
<1> HIDE DEF x, pass
<1>6. n = "Core" OBVIOUS
<1> HIDE DEF n
<1>7. Once(cfg, pass, sum, m[v]) /\ Once(cfg, pass, own, m[u])
  <2>1. sum = PowerIn(power, pass, n) /\ own = PowerIn(power, pass, x)
    BY DEF PowerOf, PowerIn
  <2> QED BY <1>3, <1>5, <2>1, OnceIn
<1> HIDE DEF sum, own
<1>8. Once(cfg, pass, SetToBag(S), P) BY <1>4, OncePipe
<1>9. m[u] \cap P = {} /\ m[u] \subseteq K BY <1>4
<1> HIDE DEF S, P
<1>10. Once(cfg, pass, unit, K) BY <1>7, <1>8, <1>9, OnceSum
<1> HIDE DEF unit, K
<1>11. Once(cfg, pass, b, m[v] \cup K) BY <1>4, <1>7, <1>10, OnceSum
<1> HIDE DEF b
<1>12. f = Entry(x, unit) ++ Entry(n, b) OBVIOUS
<1> HIDE DEF f
<1>13. Balanced(cfg, power', m2)
  BY <1>1, <1>3, <1>4, <1>6, <1>9, <1>10, <1>11, <1>12, BalanceShare
<1> QED BY <1>1, <1>2, <1>3, <1>13, EntryStep DEF m2

\* The terms of a functional unit are those of its keys.
LEMMA OnceUnit ==
    ASSUME NEW c, NEW pass \in {"tdp", "rtp"}, NEW fu, fu # "corepipe",
           NEW D, D = IF c.int_instructions = 0 THEN {<<fu, "NaN", pass>>}
                      ELSE {<<fu, kind, pass>> :
                              kind \in FunctionalUnit(c, fu) \cap Executed(c)},
           NEW L, L = IF pass = "tdp" THEN {<<fu, "leakage", "none">>} ELSE {}
    PROVE  Once(c, pass, SetToBag(D \cup L), FuKeys(c, pass, fu))
<1> DEFINE W == IF c.int_instructions = 0 THEN {"NaN"}
                ELSE FunctionalUnit(c, fu) \cap Executed(c)
           K == FuKeys(c, pass, fu)
           S == D \cup L
<1>1. W \subseteq {"NaN", "exact", "approx"} BY DEF FunctionalUnit
<1>2. \A w \in W : SourceOf(c, pass, w) = pass
  BY <1>1 DEF SourceOf, Twins
<1>3. SourceOf(c, pass, "leakage") = "none" BY DEF SourceOf
<1>4. \A k \in K : k = <<k[1], k[2]>> /\ k[1] # "corepipe"
  <2>1. \A k \in K : \E w : k = <<fu, w>> BY DEF FuKeys
  <2> QED BY <2>1
<1>5. S = {<<k[1], k[2], SourceOf(c, pass, k[2])>> : k \in K}
  <2>1. K = {<<fu, w>> : w \in W}
              \cup (IF pass = "tdp" THEN {<<fu, "leakage">>} ELSE {})
    BY DEF FuKeys
  <2>2. S = {<<fu, w, pass>> : w \in W}
              \cup (IF pass = "tdp" THEN {<<fu, "leakage", "none">>} ELSE {})
    OBVIOUS
  <2> HIDE DEF W, K, S
  <2> DEFINE Z == {<<k[1], k[2], SourceOf(c, pass, k[2])>> : k \in K}
  <2>3. ASSUME NEW t \in S PROVE t \in Z
    <3>1. CASE t \in {<<fu, w, pass>> : w \in W}
      <4>1. PICK w \in W : t = <<fu, w, pass>> BY <3>1
      <4> DEFINE k == <<fu, w>>
      <4>2. k \in K /\ k[1] = fu /\ k[2] = w BY <2>1
      <4> HIDE DEF k
      <4>3. t = <<k[1], k[2], SourceOf(c, pass, k[2])>> BY <1>2, <4>1, <4>2
      <4> QED BY <4>2, <4>3
    <3>2. CASE pass = "tdp" /\ t = <<fu, "leakage", "none">>
      <4> DEFINE k == <<fu, "leakage">>
      <4>1. k \in K /\ k[1] = fu /\ k[2] = "leakage" BY <2>1, <3>2
      <4> HIDE DEF k
      <4>2. t = <<k[1], k[2], SourceOf(c, pass, k[2])>> BY <1>3, <3>2, <4>1
      <4> QED BY <4>1, <4>2
    <3> QED BY <2>2, <3>1, <3>2
  <2>4. ASSUME NEW t \in Z PROVE t \in S
    <3>1. PICK k \in K : t = <<k[1], k[2], SourceOf(c, pass, k[2])>> BY <2>4
    <3>2. CASE k \in {<<fu, w>> : w \in W}
      <4>1. PICK w \in W : k = <<fu, w>> BY <3>2
      <4>2. k[1] = fu /\ k[2] = w BY <4>1
      <4>3. t = <<fu, w, pass>> BY <1>2, <3>1, <4>2
      <4> QED BY <2>2, <4>3
    <3>3. CASE pass = "tdp" /\ k = <<fu, "leakage">>
      <4>1. k[1] = fu /\ k[2] = "leakage" BY <3>3
      <4>2. t = <<fu, "leakage", "none">> BY <1>3, <3>1, <4>1
      <4> QED BY <2>2, <3>3, <4>2
    <3> QED BY <2>1, <3>2, <3>3
  <2> HIDE DEF Z
  <2>5. S = Z BY <2>3, <2>4
  <2> QED BY <2>5 DEF Z
<1> HIDE DEF K, S
<1>6. Once(c, pass, SetToBag(S), K) BY <1>4, <1>5, OnceKeys
<1> QED BY <1>6 DEF K, S

\* FunctionalEnergy adds the terms of a functional unit.
LEMMA FunctionalEntry ==
    ASSUME Accounting, FunctionalEnergy
    PROVE  Accounting'
<1> DEFINE pass == estmt.pass
           fu == estmt.name
           D == IF cfg.int_instructions = 0 THEN {<<fu, "NaN", pass>>}
                ELSE {<<fu, kind, pass>> :
                        kind \in FunctionalUnit(cfg, fu) \cap Executed(cfg)}
           L == IF pass = "tdp" THEN {<<fu, "leakage", "none">>} ELSE {}
           all == SetToBag(D \cup L)
           n == "exu"
           sum == PowerOf(pass, n)
           b == sum (+) all
           f == Entry(fu, all) ++ Entry(n, b)
           u == <<pass, n>>
           K == FuKeys(cfg, pass, fu)
           m == JournalOf(cfg)[epc - 1]
           m2 == JournalOf(cfg)[epc]
<1>1. /\ phase = "compute" /\ estmt.op = "fu" /\ NextEnergy
      /\ stats' = Entry(fu, pass) ++ stats
      /\ power' = [power EXCEPT ![pass] = f ++ @]
  BY DEF FunctionalEnergy, EStep, SetPower
<1>2. Computation' BY FunctionalEnergyStep DEF Accounting
<1>3. /\ Balanced(cfg, power, m) /\ Charges(cfg, estmt, m, m2)
      /\ DOMAIN stats \cap Uncounted = {} /\ pass \in {"tdp", "rtp"}
  BY <1>1, UponEntry
<1> HIDE DEF m, m2
<1>4. /\ fu \notin SumNames \cup {"corepipe"} \cup Uncounted
      /\ m[u] \cap K = {} /\ m2 = Paid(m, u, K)
  BY <1>1, <1>3 DEF Charges
<1> HIDE DEF fu, pass
<1>5. DOMAIN stats' \cap Uncounted = {}
  <2> DEFINE g == Entry(fu, pass)
  <2>1. DOMAIN g = {fu} BY DEF Entry
  <2> HIDE DEF g
  <2>2. DOMAIN (g ++ stats) = {fu} \cup DOMAIN stats BY <2>1 DEF ++
  <2> QED BY <1>1, <1>3, <1>4, <2>2 DEF g
<1>6. Once(cfg, pass, all, K) BY <1>3, <1>4, OnceUnit
<1>7. n \in SumNames BY DEF SumNames
<1> HIDE DEF all, K, n
<1>8. Once(cfg, pass, sum, m[u])
  <2>1. sum = PowerIn(power, pass, n) BY DEF PowerOf, PowerIn
  <2> QED BY <1>3, <1>7, <2>1, OnceIn
<1> HIDE DEF sum
<1>9. Once(cfg, pass, b, m[u] \cup K) BY <1>4, <1>6, <1>8, OnceSum
<1> HIDE DEF b
<1>10. f = Entry(fu, all) ++ Entry(n, b) OBVIOUS
<1> HIDE DEF f
<1>11. Balanced(cfg, power', m2)
  BY <1>1, <1>3, <1>4, <1>7, <1>9, <1>10, BalanceSum
<1> QED BY <1>1, <1>2, <1>5, <1>11, EntryStep DEF m2

-----------------------------------------------------------------------------
(* The inductive invariant of the sums. *)

\* In the beginning nothing has been added up.
LEMMA NothingAdded ==
    ASSUME NEW c \in Configs
    PROVE  Balanced(c, NoPower, JournalOf(c)[1 - 1])
<1> DEFINE m == JournalOf(c)[0]
<1>1. m = NoKeys /\ 1 - 1 = 0
  <2>1. Journal(c, JournalOf(c)) BY HasJournal
  <2> QED BY <2>1 DEF Journal
<1>2. IsBook(NoKeys) /\ \A x \in Accounts : NoKeys[x] = {}
  BY DEF IsBook, NoKeys
<1>3. DOMAIN NoPower = {"tdp", "rtp"} BY DEF NoPower
<1>4. ASSUME NEW pass \in {"tdp", "rtp"}, NEW n \in SumNames
      PROVE  Once(c, pass, PowerIn(NoPower, pass, n), NoKeys[<<pass, n>>])
  <2>1. NoPower[pass] = <<>> BY DEF NoPower
  <2>2. DOMAIN NoPower[pass] = {}
    <3>1. DOMAIN <<>> = {} OBVIOUS
    <3> QED BY <2>1, <3>1
  <2>3. PowerIn(NoPower, pass, n) = EmptyBag BY <2>2 DEF PowerIn
  <2>4. DOMAIN EmptyBag = {} BY DEF EmptyBag, SetToBag
  <2>5. Once(c, pass, EmptyBag, {}) BY <2>4, OnceNone
  <2>6. <<pass, n>> \in Accounts BY DEF Accounts
  <2> QED BY <1>2, <2>3, <2>5, <2>6
<1>5. Balanced(c, NoPower, NoKeys) BY <1>2, <1>3, <1>4 DEF Balanced
<1> QED BY <1>1, <1>5

\* No accesses are counted.
LEMMA NothingUncounted ==
    DOMAIN <<>> \cap Uncounted = {}
<1>1. DOMAIN <<>> = {} OBVIOUS
<1> QED BY <1>1

\* The invariant holds in the beginning.
LEMMA AccountingInit ==
    ASSUME EInit
    PROVE  Accounting
<1>1. Computation BY ComputationInit
<1>2. cfg \in Configs BY <1>1 DEF Computation, Construction, Position
<1>3. power = NoPower /\ epc = 1 /\ stats = <<>> /\ phase = "construct"
  BY DEF EInit, NoPower
<1>4. Balanced(cfg, NoPower, JournalOf(cfg)[1 - 1]) BY <1>2, NothingAdded
<1> QED BY <1>1, <1>3, <1>4, NothingUncounted DEF Accounting, Computed

\* Construct keeps the invariant.
LEMMA ConstructEntry ==
    ASSUME Accounting, Construct
    PROVE  Accounting'
<1>1. Computation' BY ConstructStep DEF Accounting
<1>2. cfg' \in Configs BY <1>1 DEF Computation, Construction, Position
<1>3. /\ epc' = 1 /\ stats' = <<>> /\ power' = NoPower
      /\ phase' \in {"construct", "compute"}
  BY DEF Accounting, Computation, Construct, Turn
<1>4. Balanced(cfg', NoPower, JournalOf(cfg')[1 - 1]) BY <1>2, NothingAdded
<1>5. Balanced(cfg', power', JournalOf(cfg')[epc' - 1]) BY <1>3, <1>4
<1>6. (Computed => epc = Len(Energy[cfg]) + 1)' BY <1>3 DEF Computed
<1>7. DOMAIN stats' \cap Uncounted = {} BY <1>3, NothingUncounted
<1> QED BY <1>1, <1>5, <1>6, <1>7 DEF Accounting

\* A step that leaves the sums alone and does not end the passes.
LEMMA AccountingStill ==
    ASSUME Accounting, Computation', cfg' = cfg, epc' = epc, stats' = stats,
           power' = power, Computed' => Computed
    PROVE  Accounting'
  BY DEF Accounting

\* Every step keeps the invariant.
LEMMA AccountingStep ==
    ASSUME Accounting, [ENext]_allvars
    PROVE  Accounting'
<1>1. CASE Construct BY <1>1, ConstructEntry
<1>2. CASE InitStats BY <1>2, InitStatsEntry
<1>3. CASE PartPower BY <1>3, PartPowerEntry
<1>4. CASE SubTotal BY <1>4, SubTotalEntry
<1>5. CASE PipeShare BY <1>5, PipeShareEntry
<1>6. CASE FunctionalEnergy BY <1>6, FunctionalEntry
<1>7. CASE Display
  <2>1. /\ cfg' = cfg /\ epc' = epc /\ stats' = stats /\ power' = power
        /\ Computed
    BY <1>7 DEF Display, vars, Computed
  <2> QED BY <1>7, <2>1, DisplayStep, AccountingStill DEF Accounting
<1>8. CASE Destroy
  <2>1. /\ cfg' = cfg /\ epc' = epc /\ stats' = stats /\ power' = power
        /\ Computed
    BY <1>8 DEF Destroy, vars, Computed
  <2> QED BY <1>8, <2>1, DestroyStep, AccountingStill DEF Accounting
<1>9. CASE Ended \/ UNCHANGED allvars
  <2>1. UNCHANGED allvars BY <1>9 DEF Ended
  <2>2. /\ cfg' = cfg /\ epc' = epc /\ stats' = stats /\ power' = power
        /\ Computed' = Computed
    BY <2>1 DEF allvars, evars, vars, Computed
  <2> QED BY <2>1, <2>2, ComputationStill, AccountingStill DEF Accounting
<1> QED BY <1>1, <1>2, <1>3, <1>4, <1>5, <1>6, <1>7, <1>8, <1>9 DEF ENext

\* The inductive invariant: before each statement of the two energy passes the
\* powers of the units are made of the terms that the journal has for them,
\* each once.
THEOREM AccountingInvariant == ESpec => []Accounting
<1>1. EInit => Accounting BY AccountingInit
<1>2. Accounting /\ [ENext]_allvars => Accounting' BY AccountingStep
<1> QED BY <1>1, <1>2, PTL DEF ESpec

-----------------------------------------------------------------------------
(* What the totals are made of. *)

\* Keys of arrays are numbers.
LEMMA OwnedNumbers ==
    ASSUME NEW S, "NaN" \notin S
    PROVE  Numbers(Owned(S))
<1>1. ASSUME NEW k \in Owned(S) PROVE k[2] # "NaN"
  <2>1. PICK p \in S : k = <<p, p>> \/ k = <<p, "leakage">> BY DEF Owned
  <2> QED BY <2>1
<1> QED BY <1>1 DEF Numbers

\* Instruction fetch.
LEMMA IfuNumbers ==
    ASSUME NEW c, NEW pass
    PROVE  Numbers(IfuKeys(c, pass))
<1> DEFINE A == Owned(IcacheParts \cup {"IB"})
           B == Owned({"BTB"})
           C == Owned({"globalBPT", "L1_localBPT", "chooser", "RAS"})
           D == Owned(Decoders)
           E == {<<d, d>> : d \in Decoders}
           F == {<<d, "saved decode energy">> : d \in Decoders}
<1>1. Numbers(A) /\ Numbers(B) /\ Numbers(C) /\ Numbers(D)
  <2>1. "NaN" \notin IcacheParts \cup {"IB"} BY DEF IcacheParts
  <2>2. "NaN" \notin Decoders BY DEF Decoders
  <2>3. Numbers(A) BY <2>1, OwnedNumbers
  <2>4. Numbers(B) BY OwnedNumbers
  <2>5. Numbers(C) BY OwnedNumbers
  <2>6. Numbers(D) BY <2>2, OwnedNumbers
  <2> QED BY <2>3, <2>4, <2>5, <2>6
<1>2. Numbers(E) /\ Numbers(F)
  <2>1. ASSUME NEW k \in E \cup F PROVE k[2] # "NaN"
    <3> HIDE DEF A, B, C, D
    <3>1. PICK d \in Decoders : k = <<d, d>> \/ k = <<d, "saved decode energy">>
      BY <2>1
    <3>2. d # "NaN" BY DEF Decoders
    <3> HIDE DEF E, F
    <3>3. CASE k = <<d, d>> BY <3>2, <3>3
    <3>4. CASE k = <<d, "saved decode energy">> BY <3>4
    <3> QED BY <3>1, <3>3, <3>4
  <2> QED BY <2>1 DEF Numbers
<1>3. IfuKeys(c, pass) \subseteq A \cup B \cup C \cup D \cup E \cup F
  BY DEF IfuKeys, DecodeKeys, BptKeys
<1> HIDE DEF A, B, C, D, E, F
<1> QED BY <1>1, <1>2, <1>3 DEF Numbers

\* Load and store, memory management, renaming.
LEMMA UnitNumbers ==
    ASSUME NEW c
    PROVE  Numbers(LsuKeys(c)) /\ Numbers(MmuKeys) /\ Numbers(RnuKeys(c))
<1>1. Numbers(LsuKeys(c))
  <2> DEFINE A == Owned(LoadStoreUParts(c))
             B == {<<"dcache.caches", "dcache.apcaches">>}
  <2>1. "NaN" \notin LoadStoreUParts(c)
    BY DEF LoadStoreUParts, LoadStoreUCounted, DcacheBuffers
  <2>2. Numbers(A) BY <2>1, OwnedNumbers
  <2>3. Numbers(B) BY DEF Numbers
  <2>4. LsuKeys(c) = A \cup B BY DEF LsuKeys
  <2> HIDE DEF A, B
  <2> QED BY <2>2, <2>3, <2>4 DEF Numbers
<1>2. Numbers(MmuKeys)
  <2>1. "NaN" \notin MemManUParts BY DEF MemManUParts
  <2> QED BY <2>1, OwnedNumbers DEF MmuKeys
<1>3. Numbers(RnuKeys(c))
  <2> DEFINE A == Owned(RENAMINGUCounted(c))
             B == {<<"idcl", "iFRAT">>, <<"fdcl", "fFRAT">>}
  <2>1. "NaN" \notin RENAMINGUCounted(c) BY DEF RENAMINGUCounted
  <2>2. Numbers(A) BY <2>1, OwnedNumbers
  <2>3. Numbers(B) BY DEF Numbers
  <2>4. RnuKeys(c) = A \cup B BY DEF RnuKeys
  <2> HIDE DEF A, B
  <2> QED BY <2>2, <2>3, <2>4 DEF Numbers
<1> QED BY <1>1, <1>2, <1>3

\* Execution, if an integer instruction was executed.
LEMMA ExuNumbers ==
    ASSUME NEW c, NEW pass, c.int_instructions # 0
    PROVE  Numbers(ExuKeys(c, pass))
<1>1. Numbers(RfuKeys(c, pass))
  <2>1. "NaN" \notin RegFUParts(c) BY DEF RegFUParts
  <2>2. ASSUME NEW k \in RfuKeys(c, pass) PROVE k[2] # "NaN"
    <3>1. PICK p \in RegFUParts(c) : k = <<p, p>> \/ k = <<p, "leakage">>
      BY DEF RfuKeys
    <3> QED BY <2>1, <3>1
  <2> QED BY <2>2 DEF Numbers
<1>2. Numbers(SchedulerKeys(c))
  <2> DEFINE A == Owned(SchedulerUCounted(c))
             B == {<<"instruction_selection", w>> :
                     w \in SchedulerUCounted(c) \ {"ROB"}}
  <2>1. "NaN" \notin SchedulerUCounted(c) BY DEF SchedulerUCounted
  <2>2. Numbers(A) BY <2>1, OwnedNumbers
  <2>3. Numbers(B) BY <2>1 DEF Numbers
  <2>4. SchedulerKeys(c) = A \cup B BY DEF SchedulerKeys
  <2> HIDE DEF A, B
  <2> QED BY <2>2, <2>3, <2>4 DEF Numbers
<1>3. \A fu : Numbers(FuKeys(c, pass, fu))
  <2> TAKE fu
  <2>1. ASSUME NEW k \in FuKeys(c, pass, fu) PROVE k[2] # "NaN"
    <3>1. \/ \E kind \in FunctionalUnit(c, fu) : k = <<fu, kind>>
          \/ k = <<fu, "leakage">>
      BY DEF FuKeys
    <3>2. "NaN" \notin FunctionalUnit(c, fu) BY DEF FunctionalUnit
    <3> QED BY <3>1, <3>2
  <2> QED BY <2>1 DEF Numbers
<1>4. Numbers(BypassKeys(c)) BY DEF BypassKeys, Numbers
<1>5. ASSUME NEW k \in ExuKeys(c, pass)
      PROVE  \/ k \in RfuKeys(c, pass) \/ k \in SchedulerKeys(c)
             \/ k \in BypassKeys(c) \/ \E fu : k \in FuKeys(c, pass, fu)
  BY DEF ExuKeys
<1> QED BY <1>1, <1>2, <1>3, <1>4, <1>5 DEF Numbers

\* A shared cache.
LEMMA CacheNumbers ==
    ASSUME NEW c, NEW level, NEW pass
    PROVE  Numbers(CacheKeys(c, level, pass))
<1>1. ASSUME NEW k \in unicache_dyn(c, level) PROVE k[2] # "NaN"
  BY DEF unicache_dyn, UniBuffers
<1>2. ASSUME NEW k \in unicache_unmasked(c, level, pass) PROVE k[2] # "NaN"
  <2>1. PICK p \in UniBuffers(c, level) : k = <<p, "one access">>
    BY DEF unicache_unmasked
  <2> QED BY <2>1
<1>3. ASSUME NEW k \in {<<p, "leakage">> :
                          p \in {"unicache.caches", "unicache.apcaches"}
                                  \cup UniBuffers(c, level)}
      PROVE  k[2] # "NaN"
  OBVIOUS
<1> QED BY <1>1, <1>2, <1>3 DEF CacheKeys, Numbers

\* A total of a core is 0/0 when and only when no integer instruction was
\* executed.
LEMMA NaNOfCore ==
    ASSUME NEW c, NEW pass \in {"tdp", "rtp"}
    PROVE  /\ c.int_instructions # 0 => Numbers(CoreKeys(c, pass))
           /\ c.int_instructions = 0 => <<"exeu", "NaN">> \in CoreKeys(c, pass)
<1>1. ASSUME c.int_instructions # 0 PROVE Numbers(CoreKeys(c, pass))
  <2> DEFINE P == {PipeKey(u) : u \in Sharing(c)}
             Q == {<<"undiffCore", "leakage">>}
  <2>1. Numbers(P) BY DEF Numbers, PipeKey, Sharing
  <2>2. Numbers(Q) BY DEF Numbers
  <2>3. CoreKeys(c, pass)
          \subseteq IfuKeys(c, pass) \cup LsuKeys(c) \cup MmuKeys
                      \cup ExuKeys(c, pass) \cup RnuKeys(c) \cup P \cup Q
                      \cup CacheKeys(c, "L2", pass)
    BY DEF CoreKeys
  <2> HIDE DEF P, Q
  <2>4. Numbers(IfuKeys(c, pass)) BY IfuNumbers
  <2>5. Numbers(LsuKeys(c)) /\ Numbers(MmuKeys) /\ Numbers(RnuKeys(c))
    BY UnitNumbers
  <2>6. Numbers(ExuKeys(c, pass)) BY <1>1, ExuNumbers
  <2>7. Numbers(CacheKeys(c, "L2", pass)) BY CacheNumbers
  <2> QED BY <2>1, <2>2, <2>3, <2>4, <2>5, <2>6, <2>7 DEF Numbers
<1>2. ASSUME c.int_instructions = 0
      PROVE  <<"exeu", "NaN">> \in CoreKeys(c, pass)
  <2>1. <<"exeu", "NaN">> \in FuKeys(c, pass, "exeu") BY <1>2 DEF FuKeys
  <2>2. "exeu" \in Units(c) BY DEF Units
  <2>3. <<"exeu", "NaN">> \in ExuKeys(c, pass) BY <2>1, <2>2 DEF ExuKeys
  <2> QED BY <2>3 DEF CoreKeys
<1> QED BY <1>1, <1>2

\* The pipeline is shared out completely.
LEMMA PipeOfCore ==
    ASSUME NEW c \in ConfigType, NEW pass \in {"tdp", "rtp"}
    PROVE  SharesIn(CoreKeys(c, pass)) = Shares(c)
<1> DEFINE K == CoreKeys(c, pass)
<1>1. ASSUME NEW n PROVE PipeKey(n) \in K <=> n \in Sharing(c)
  <2> DEFINE k == PipeKey(n)
  <2>1. k[1] = "corepipe" BY DEF PipeKey
  <2>2. \A u : PipeKey(u) = k <=> u = n BY DEF PipeKey
  <2> HIDE DEF k
  <2>3. k \notin IfuKeys(c, pass) \cup LsuKeys(c) \cup MmuKeys
                   \cup ExuKeys(c, pass) \cup RnuKeys(c)
                   \cup CacheKeys(c, "L2", pass)
                   \cup {<<"undiffCore", "leakage">>}
    BY <2>1, KeysOfUnits
  <2>4. k \in K <=> k \in {PipeKey(u) : u \in Sharing(c)}
    BY <2>3 DEF CoreKeys
  <2>5. k \in {PipeKey(u) : u \in Sharing(c)} <=> n \in Sharing(c)
    BY <2>2
  <2> QED BY <2>4, <2>5 DEF k
<1> HIDE DEF K
<1>2. \A n : In(PipeKey(n), K) = IF n \in Sharing(c) THEN 1 ELSE 0
  BY <1>1 DEF In
<1>3. SharesIn(K) = Shares(c)
  <2>1. CASE c.OOO BY <1>2, <2>1 DEF SharesIn, Sharing, Shares
  <2>2. CASE ~c.OOO BY <1>2, <2>2 DEF SharesIn, Sharing, Shares
  <2> QED BY <2>1, <2>2
<1> QED BY <1>3 DEF K

\* The keys of an owned array.
LEMMA OwnedTerms ==
    ASSUME NEW S, NEW p \in S, NEW pass, Kind(p) = "array"
    PROVE  HasTerms(p, pass, Owned(S))
  BY DEF HasTerms, OwnWhat, Owned

\* More keys have them as well.
LEMMA MoreTerms ==
    ASSUME NEW p, NEW pass, NEW K, HasTerms(p, pass, K), NEW L, K \subseteq L
    PROVE  HasTerms(p, pass, L)
  BY DEF HasTerms

\* The parts of instruction fetch.
LEMMA IfuTerms ==
    ASSUME NEW c, NEW pass \in {"tdp", "rtp"}, NEW p \in InstFetchUParts(c),
           Kind(p) = "array", p # "L2_localBPT"
    PROVE  HasTerms(p, pass, IfuKeys(c, pass))
<1> DEFINE A == IcacheParts \cup {"IB"}
           B == {"BTB"}
           C == {"globalBPT", "L1_localBPT", "chooser", "RAS"}
           K == IfuKeys(c, pass)
<1>1. p \notin Decoders BY DEF Kind, LogicParts, Decoders
<1>2. p \in A \/ (c.predictionW > 0 /\ p \in B \cup C)
  BY <1>1 DEF InstFetchUParts, Tables
<1>3. Owned(A) \subseteq K BY DEF IfuKeys
<1>4. c.predictionW > 0 => Owned(B) \subseteq K /\ Owned(C) \subseteq K
  BY DEF IfuKeys, BptKeys
<1> HIDE DEF A, B, C, K
<1>5. CASE p \in A BY <1>3, <1>5, OwnedTerms, MoreTerms DEF K
<1>6. CASE c.predictionW > 0 /\ p \in B BY <1>4, <1>6, OwnedTerms, MoreTerms DEF K
<1>7. CASE c.predictionW > 0 /\ p \in C BY <1>4, <1>7, OwnedTerms, MoreTerms DEF K
<1> QED BY <1>2, <1>5, <1>6, <1>7

\* The parts of execution.
LEMMA ExuTerms ==
    ASSUME NEW c, NEW pass \in {"tdp", "rtp"}, NEW p \in EXECUParts(c),
           Kind(p) \in {"array", "wire"}
    PROVE  HasTerms(p, pass, ExuKeys(c, pass))
<1> DEFINE K == ExuKeys(c, pass)
<1>1. /\ RfuKeys(c, pass) \subseteq K /\ SchedulerKeys(c) \subseteq K
      /\ BypassKeys(c) \subseteq K
  BY DEF ExuKeys
<1> HIDE DEF K
<1>2. CASE p \in RegFUParts(c)
  <2>1. Kind(p) = "array" BY <1>2 DEF RegFUParts, Kind, LogicParts, WireParts
  <2>2. OwnWhat(p) = p BY <2>1 DEF OwnWhat
  <2>3. HasTerms(p, pass, RfuKeys(c, pass))
    BY <1>2, <2>2 DEF HasTerms, RfuKeys
  <2> QED BY <1>1, <2>3, MoreTerms DEF K
<1>3. CASE p \in SchedulerUParts(c)
  <2>1. p # "instruction_selection" BY DEF Kind, LogicParts
  <2>2. p \in SchedulerUCounted(c) BY <1>3, <2>1 DEF SchedulerUParts
  <2>3. Kind(p) = "array"
    BY <2>2 DEF SchedulerUCounted, Kind, LogicParts, WireParts
  <2>4. HasTerms(p, pass, Owned(SchedulerUCounted(c))) BY <2>2, <2>3, OwnedTerms
  <2>5. Owned(SchedulerUCounted(c)) \subseteq K BY <1>1 DEF SchedulerKeys
  <2> QED BY <2>4, <2>5, MoreTerms DEF K
<1>4. CASE p \in Units(c) BY <1>4 DEF Units, Kind, LogicParts
<1>5. CASE p \in Wires(c)
  <2>1. Kind(p) = "wire" BY <1>5 DEF Wires, Kind, LogicParts, WireParts
  <2>2. OwnWhat(p) = "bypass" BY <2>1 DEF OwnWhat
  <2>3. HasTerms(p, pass, BypassKeys(c))
    BY <1>5, <2>2 DEF HasTerms, BypassKeys
  <2> QED BY <1>1, <2>3, MoreTerms DEF K
<1> QED BY <1>2, <1>3, <1>4, <1>5 DEF EXECUParts

\* The parts of a shared cache, but for the twin of a tag directory.
LEMMA CacheTerms ==
    ASSUME NEW c, NEW level, NEW pass \in {"tdp", "rtp"},
           NEW p \in SharedCacheParts(c, level),
           NEW K, K = CacheKeys(c, level, pass)
    PROVE  /\ Kind(p) = "array" /\ <<p, "leakage">> \in K
           /\ <<p, p>> \in K
                <=> ~(p = "unicache.apcaches" /\ TagDirectory(c, level))
<1> DEFINE B == UniBuffers(c, level)
           T == TagDirectory(c, level)
<1>1. p \in {"unicache.caches", "unicache.apcaches"} \cup B
  BY DEF SharedCacheParts, SharedCacheCounted
<1>2. B \subseteq {"unicache.missb", "unicache.ifb", "unicache.prefetchb",
                   "unicache.wbb"}
      /\ (T => B = {})
  BY DEF UniBuffers
<1>3. Kind(p) = "array" BY <1>1, <1>2 DEF Kind, LogicParts, WireParts
<1>4. <<p, "leakage">> \in K BY <1>1 DEF CacheKeys
<1>5. \A q : q = "leakage" \/ q = "one access"
               \/ (<<p, q>> \in K <=> <<p, q>> \in unicache_dyn(c, level))
  BY DEF CacheKeys, unicache_unmasked
<1>6. p # "leakage" /\ p # "one access" BY <1>1, <1>2
<1>7. <<p, p>> \in K <=> <<p, p>> \in unicache_dyn(c, level) BY <1>5, <1>6
<1>8. CASE T
  <2>1. unicache_dyn(c, level) = {<<"unicache.caches", "unicache.caches">>}
    BY <1>8 DEF unicache_dyn
  <2> QED BY <1>1, <1>2, <1>3, <1>4, <1>7, <1>8, <2>1
<1>9. CASE ~T
  <2>1. <<p, p>> \in unicache_dyn(c, level) BY <1>1, <1>9 DEF unicache_dyn
  <2> QED BY <1>3, <1>4, <1>7, <1>9, <2>1
<1> QED BY <1>8, <1>9

\* Every array and wire has its terms in the total, but for the predictor's
\* second level table and the accesses of the twin of a tag directory.
LEMMA RootTerms ==
    ASSUME NEW c \in ConfigType, NEW pass \in {"tdp", "rtp"},
           NEW p \in ProgramParts(c), Kind(p) \in {"array", "wire"},
           p # "L2_localBPT", NEW K, K = RootKeys(c, pass)
    PROVE  /\ pass = "tdp" => <<p, "leakage">> \in K
           /\ <<p, OwnWhat(p)>> \in K
                <=> ~(p = "unicache.apcaches" /\ TagDirectory(c, c.root))
<1>1. CASE c.root # "Core"
  <2>1. p \in SharedCacheParts(c, c.root) /\ K = CacheKeys(c, c.root, pass)
    BY <1>1 DEF ProgramParts, RootKeys
  <2>2. /\ Kind(p) = "array" /\ <<p, "leakage">> \in K
        /\ <<p, p>> \in K
             <=> ~(p = "unicache.apcaches" /\ TagDirectory(c, c.root))
    BY <2>1, CacheTerms
  <2>3. OwnWhat(p) = p BY <2>2 DEF OwnWhat
  <2> QED BY <2>2, <2>3
<1>2. CASE c.root = "Core"
  <2>1. p \in CoreParts(c) /\ K = CoreKeys(c, pass) /\ ~TagDirectory(c, c.root)
    BY <1>2 DEF ProgramParts, RootKeys, TagDirectory
  <2>2. /\ IfuKeys(c, pass) \subseteq K /\ LsuKeys(c) \subseteq K
        /\ MmuKeys \subseteq K /\ ExuKeys(c, pass) \subseteq K
        /\ c.OOO => RnuKeys(c) \subseteq K
        /\ c.Private_L2 => CacheKeys(c, "L2", pass) \subseteq K
    BY <2>1 DEF CoreKeys
  <2>3. HasTerms(p, pass, K)
    <3>1. CASE p \in PrivateParts(c)
      <4>1. c.Private_L2 /\ p \in SharedCacheParts(c, "L2")
        BY <3>1 DEF PrivateParts
      <4>2. ~TagDirectory(c, "L2") BY DEF TagDirectory
      <4>3. /\ Kind(p) = "array"
            /\ <<p, "leakage">> \in CacheKeys(c, "L2", pass)
            /\ <<p, p>> \in CacheKeys(c, "L2", pass)
        BY <4>1, <4>2, CacheTerms
      <4>4. OwnWhat(p) = p BY <4>3 DEF OwnWhat
      <4> QED BY <2>2, <4>1, <4>3, <4>4 DEF HasTerms
    <3>2. CASE p \in InstFetchUParts(c)
      <4>1. Kind(p) = "array"
        BY <3>2 DEF InstFetchUParts, IcacheParts, Decoders, Tables, Kind, WireParts
      <4> QED BY <2>2, <3>2, <4>1, IfuTerms, MoreTerms
    <3>3. CASE p \in LoadStoreUParts(c)
      <4>1. Kind(p) = "array"
        BY <3>3 DEF LoadStoreUParts, LoadStoreUCounted, DcacheBuffers, Kind,
                    LogicParts, WireParts
      <4>2. HasTerms(p, pass, Owned(LoadStoreUParts(c)))
        BY <3>3, <4>1, OwnedTerms
      <4>3. Owned(LoadStoreUParts(c)) \subseteq K BY <2>2 DEF LsuKeys
      <4> QED BY <4>2, <4>3, MoreTerms
    <3>4. CASE p \in MemManUParts
      <4>1. Kind(p) = "array"
        BY <3>4 DEF MemManUParts, Kind, LogicParts, WireParts
      <4>2. HasTerms(p, pass, Owned(MemManUParts)) BY <3>4, <4>1, OwnedTerms
      <4>3. Owned(MemManUParts) \subseteq K BY <2>2 DEF MmuKeys
      <4> QED BY <4>2, <4>3, MoreTerms
    <3>5. CASE p \in EXECUParts(c) BY <2>2, <3>5, ExuTerms, MoreTerms
    <3>6. CASE p \in RenamingParts(c)
      <4>1. c.OOO /\ p \in RENAMINGUCounted(c)
        BY <3>6 DEF RenamingParts, RENAMINGUParts, Kind, LogicParts
      <4>2. Kind(p) = "array"
        BY <4>1 DEF RENAMINGUCounted, Kind, LogicParts, WireParts
      <4>3. HasTerms(p, pass, Owned(RENAMINGUCounted(c)))
        BY <4>1, <4>2, OwnedTerms
      <4>4. Owned(RENAMINGUCounted(c)) \subseteq K BY <2>2, <4>1 DEF RnuKeys
      <4> QED BY <4>3, <4>4, MoreTerms
    <3>7. CASE p \in {"undiffCore", "corepipe"}
      BY <3>7 DEF Kind, LogicParts
    <3> QED BY <2>1, <3>1, <3>2, <3>3, <3>4, <3>5, <3>6, <3>7 DEF CoreParts
  <2> QED BY <2>1, <2>3 DEF HasTerms
<1> QED BY <1>1, <1>2

-----------------------------------------------------------------------------
(* The sums that CountedOnce asks for. *)

\* The sum over no term.
LEMMA SumOfNone ==
    ASSUME NEW total, NEW S, S = {}
    PROVE  Summed(total, S) = 0
<1> DEFINE step(f) == [s \in SUBSET S |->
                 IF s = {} THEN 0
                 ELSE LET x == CHOOSE x \in s : TRUE IN total[x] + f[s \ {x}]]
           iter == CHOOSE f : f = step(f)
           g == [s \in SUBSET S |-> 0]
<1>1. g = step(g) OBVIOUS
<1>2. MapThenSumSet(LAMBDA t : total[t], S) = iter[S]
  BY DEF MapThenSumSet, MapThenFoldSet
<1> HIDE DEF g
<1>3. iter = step(iter)
  <2> HIDE DEF step
  <2> QED BY <1>1, Zenon
<1> HIDE DEF iter
<1>4. iter[S] = 0 BY <1>3
<1> QED BY <1>2, <1>4, Zenon DEF Summed

\* The sum over one term.
LEMMA SumOfOne ==
    ASSUME NEW total, NEW e, NEW S, S = {e}, total[e] \in Nat
    PROVE  Summed(total, S) = total[e]
<1> DEFINE step(f) == [s \in SUBSET S |->
                 IF s = {} THEN 0
                 ELSE LET x == CHOOSE x \in s : TRUE IN total[x] + f[s \ {x}]]
           iter == CHOOSE f : f = step(f)
           g == [s \in SUBSET S |-> IF s = {} THEN 0 ELSE total[e]]
<1>1. g = step(g)
  <2>1. ASSUME NEW s \in SUBSET S, s # {}
        PROVE  total[CHOOSE x \in s : TRUE] + g[s \ {CHOOSE x \in s : TRUE}]
                 = total[e]
    <3> DEFINE x == CHOOSE x \in s : TRUE
    <3>1. s = {e} BY <2>1
    <3>2. x = e BY <3>1
    <3>3. s \ {x} = {} /\ {} \in SUBSET S BY <3>1, <3>2
    <3> HIDE DEF x
    <3>4. g[s \ {x}] = 0 BY <3>3
    <3>5. total[x] + g[s \ {x}] = total[e] BY <3>2, <3>4
    <3> QED BY <3>5 DEF x
  <2> QED BY <2>1
<1>2. MapThenSumSet(LAMBDA t : total[t], S) = iter[S]
  BY DEF MapThenSumSet, MapThenFoldSet
<1> HIDE DEF g
<1>3. iter = step(iter)
  <2> HIDE DEF step
  <2> QED BY <1>1, Zenon
<1> HIDE DEF iter
<1>4. iter[S] = total[e]
  <2>1. iter[{}] = 0 BY <1>3
  <2> DEFINE x == CHOOSE x \in S : TRUE
  <2>2. x = e OBVIOUS
  <2>3. iter[S] = total[x] + iter[S \ {x}] BY <1>3
  <2>4. S \ {x} = {} BY <2>2
  <2> HIDE DEF x
  <2> QED BY <2>1, <2>2, <2>3, <2>4
<1> QED BY <1>2, <1>4, Zenon DEF Summed

\* A term is counted once if its key is there, else not at all.
LEMMA CountTerm ==
    ASSUME NEW c, NEW pass, NEW bag, NEW K, Once(c, pass, bag, K),
           NEW p, NEW w, p # "corepipe",
           <<p, w>> # <<"instruction_selection", "leakage">>
    PROVE  Summed(bag, TermsOf(bag, p, w)) = In(<<p, w>>, K)
<1> DEFINE e == <<p, w, SourceOf(c, pass, w)>>
           S == TermsOf(bag, p, w)
<1>1. \A t \in DOMAIN bag : bag[t] \in Nat \ {0} /\ t = <<t[1], t[2], t[3]>>
  BY DEF Once
<1>2. \A src : Copies(<<p, w, src>>, bag)
                 = IF src = SourceOf(c, pass, w) THEN In(<<p, w>>, K) ELSE 0
  BY DEF Once, Times
<1>3. \A t : Copies(t, bag) = IF t \in DOMAIN bag THEN bag[t] ELSE 0
  BY DEF Copies, BagIn, BagToSet
<1>4. S = {t \in DOMAIN bag : t[1] = p /\ t[2] = w} BY DEF TermsOf, BagToSet
<1> HIDE DEF S
<1>5. ASSUME NEW t \in S PROVE t = e
  <2>1. t \in DOMAIN bag /\ t = <<p, w, t[3]>> BY <1>1, <1>4
  <2>2. Copies(t, bag) # 0 BY <1>1, <1>3, <2>1
  <2>3. t[3] = SourceOf(c, pass, w) BY <1>2, <2>1, <2>2
  <2> QED BY <2>1, <2>3
<1>6. e[1] = p /\ e[2] = w OBVIOUS
<1>7. Copies(e, bag) = In(<<p, w>>, K) BY <1>2
<1> HIDE DEF e
<1>8. CASE <<p, w>> \in K
  <2>1. In(<<p, w>>, K) = 1 BY <1>8 DEF In
  <2>2. e \in DOMAIN bag /\ bag[e] = 1 BY <1>3, <1>7, <2>1
  <2>3. S = {e} BY <1>4, <1>5, <1>6, <2>2
  <2>4. bag[e] \in Nat BY <2>2
  <2>5. Summed(bag, S) = bag[e] BY <2>3, <2>4, SumOfOne
  <2> QED BY <2>1, <2>2, <2>5 DEF S
<1>9. CASE <<p, w>> \notin K
  <2>1. In(<<p, w>>, K) = 0 BY <1>9 DEF In
  <2>2. e \notin DOMAIN bag BY <1>1, <1>3, <1>7, <2>1
  <2>3. S = {} BY <1>4, <1>5, <2>2
  <2>4. Summed(bag, S) = 0 BY <2>3, SumOfNone
  <2> QED BY <2>1, <2>4 DEF S
<1> QED BY <1>8, <1>9

\* When the passes are over, the total is what RootKeys says.
LEMMA OnceRoot ==
    ASSUME Accounting, Computed, NEW pass \in {"tdp", "rtp"},
           NEW c, c = cfg
    PROVE  /\ c \in Configs /\ c \in ConfigType
           /\ Once(c, pass, PowerOf(pass, c.root), RootKeys(c, pass))
<1>1. c \in Configs BY DEF Accounting, Computation, Construction, Position
<1>2. c \in ConfigType BY <1>1, ConfigsAssumption
<1> DEFINE n == Len(Energy[c])
           m == JournalOf(c)[n]
           u == <<pass, c.root>>
<1>3. epc - 1 = n
  <2>1. n \in Nat \ {0} BY <1>1, EnergyOf
  <2>2. epc = n + 1 BY DEF Accounting
  <2> HIDE DEF n
  <2> QED BY <2>1, <2>2
<1>4. Balanced(c, power, m) BY <1>3 DEF Accounting
<1>5. m[u] = RootKeys(c, pass)
  <2>1. Journal(c, JournalOf(c)) BY <1>1, HasJournal
  <2> QED BY <2>1 DEF Journal
<1> HIDE DEF n, m
<1>6. c.root \in SumNames BY <1>2 DEF ConfigType, SumNames
<1>7. Once(c, pass, PowerIn(power, pass, c.root), m[u]) BY <1>4, <1>6, OnceIn
<1>8. PowerIn(power, pass, c.root) = PowerOf(pass, c.root)
  BY DEF PowerIn, PowerOf
<1> QED BY <1>1, <1>2, <1>5, <1>7, <1>8

\* The pipeline and 0/0, in the total of a core.
LEMMA CoreTotal ==
    ASSUME Accounting, Computed, NEW pass \in {"tdp", "rtp"},
           cfg.root = "Core", NEW total, total = PowerOf(pass, "Core")
    PROVE  /\ Copies(<<"corepipe", "share", pass>>, total) = Shares(cfg)
           /\ (\E t \in BagToSet(total) : t[2] = "NaN")
                <=> cfg.int_instructions = 0
<1> DEFINE c == cfg
           K == CoreKeys(c, pass)
<1>1. c \in ConfigType /\ Once(c, pass, PowerOf(pass, c.root), RootKeys(c, pass))
  BY OnceRoot
<1>2. Once(c, pass, total, K) BY <1>1 DEF RootKeys
<1>3. SharesIn(K) = Shares(c) BY <1>1, PipeOfCore
<1>4. /\ c.int_instructions # 0 => Numbers(K)
      /\ c.int_instructions = 0 => <<"exeu", "NaN">> \in K
  BY NaNOfCore
<1> HIDE DEF K, c
<1>5. /\ \A t \in DOMAIN total : total[t] \in Nat \ {0} /\ t = <<t[1], t[2], t[3]>>
      /\ \A p, w, src : <<p, w>> # <<"instruction_selection", "leakage">> =>
           Copies(<<p, w, src>>, total) = Times(c, pass, K, p, w, src)
  BY <1>2 DEF Once
<1>6. \A t : Copies(t, total) = IF t \in DOMAIN total THEN total[t] ELSE 0
  BY DEF Copies, BagIn, BagToSet
<1>7. Copies(<<"corepipe", "share", pass>>, total) = Shares(c)
  <2>1. <<"corepipe", "share">> # <<"instruction_selection", "leakage">> OBVIOUS
  <2>2. Times(c, pass, K, "corepipe", "share", pass) = Shares(c)
    BY <1>3 DEF Times
  <2> QED BY <1>5, <2>1, <2>2
<1>8. ASSUME NEW t \in DOMAIN total, t[2] = "NaN"
      PROVE  c.int_instructions = 0
  <2> DEFINE p == t[1]
             src == t[3]
             k == <<p, "NaN">>
  <2>1. t = <<p, "NaN", src>> /\ total[t] # 0 BY <1>5, <1>8
  <2>2. k # <<"instruction_selection", "leakage">> /\ k[2] = "NaN" OBVIOUS
  <2> HIDE DEF p, src
  <2>3. Copies(<<p, "NaN", src>>, total) = Times(c, pass, K, p, "NaN", src)
    BY <1>5, <2>2
  <2>4. Times(c, pass, K, p, "NaN", src) # 0 BY <1>6, <2>1, <2>3
  <2>5. k \in K BY <2>4 DEF Times, In
  <2> HIDE DEF k
  <2> QED BY <1>4, <2>2, <2>5 DEF Numbers
<1>9. ASSUME c.int_instructions = 0
      PROVE  \E t \in DOMAIN total : t[2] = "NaN"
  <2> DEFINE src == SourceOf(c, pass, "NaN")
             t == <<"exeu", "NaN", src>>
             k == <<"exeu", "NaN">>
  <2>1. k \in K BY <1>4, <1>9
  <2>2. k # <<"instruction_selection", "leakage">> /\ t[2] = "NaN" OBVIOUS
  <2>3. Times(c, pass, K, "exeu", "NaN", src) = 1 BY <2>1 DEF Times, In
  <2>4. Copies(t, total) = 1 BY <1>5, <2>2, <2>3
  <2> HIDE DEF t
  <2>5. t \in DOMAIN total BY <1>6, <2>4
  <2> QED BY <2>2, <2>5
<1> QED BY <1>7, <1>8, <1>9 DEF BagToSet, c

\* What the invariant says of one part.
LEMMA PartCounted ==
    ASSUME Accounting, Computed, NEW p \in DOMAIN built \ {"L2_localBPT"},
           built[p].op \in {"array", "wire"}
    PROVE  LET counted(pass, what) ==
                 LET total == PowerOf(pass, cfg.root)
                 IN  MapThenSumSet(LAMBDA t : total[t],
                       {t \in BagToSet(total) : t[1] = p /\ t[2] = what})
               what == IF built[p].op = "wire" THEN "bypass" ELSE p
               dyn  == IF p = "unicache.apcaches" /\ TagDirectory(cfg, cfg.root)
                       THEN 0 ELSE 1
           IN  /\ counted("tdp", "leakage") = 1
               /\ counted("tdp", what) = dyn
               /\ counted("rtp", what) = dyn
<1> DEFINE c == cfg
           peak == PowerOf("tdp", cfg.root)
           runtime == PowerOf("rtp", cfg.root)
           w == OwnWhat(p)
           dyn == IF p = "unicache.apcaches" /\ TagDirectory(c, c.root)
                  THEN 0 ELSE 1
           L == TermsOf(peak, p, "leakage")
           P == TermsOf(peak, p, w)
           R == TermsOf(runtime, p, w)
           K1 == RootKeys(c, "tdp")
           K2 == RootKeys(c, "rtp")
<1>1. /\ c \in ConfigType
      /\ Once(c, "tdp", peak, K1) /\ Once(c, "rtp", runtime, K2)
  BY OnceRoot
<1>2. phase # "construct" /\ Computation BY DEF Computed, Accounting
<1>3. p \in ProgramParts(c) BY <1>2, AllBuilt
<1>4. built[p].op = Kind(p)
  BY <1>2 DEF Computation, Construction, Parts, PartRight
<1>5. w = IF built[p].op = "wire" THEN "bypass" ELSE p BY <1>4 DEF OwnWhat
<1>6. /\ <<p, "leakage">> \in K1
      /\ <<p, w>> \in K1
           <=> ~(p = "unicache.apcaches" /\ TagDirectory(c, c.root))
      /\ <<p, w>> \in K2
           <=> ~(p = "unicache.apcaches" /\ TagDirectory(c, c.root))
  BY <1>1, <1>3, <1>4, RootTerms
<1>7. /\ p # "corepipe" /\ p # "instruction_selection"
  BY <1>4 DEF Kind, LogicParts
<1>8. /\ <<p, "leakage">> # <<"instruction_selection", "leakage">>
      /\ <<p, w>> # <<"instruction_selection", "leakage">>
  BY <1>7
<1> HIDE DEF w, K1, K2, peak, runtime, c
<1>9. /\ Summed(peak, L) = In(<<p, "leakage">>, K1)
      /\ Summed(peak, P) = In(<<p, w>>, K1)
      /\ Summed(runtime, R) = In(<<p, w>>, K2)
  <2>1. Summed(peak, L) = In(<<p, "leakage">>, K1)
    BY <1>1, <1>7, <1>8, CountTerm
  <2>2. Summed(peak, P) = In(<<p, w>>, K1)
    BY <1>1, <1>7, <1>8, CountTerm
  <2>3. Summed(runtime, R) = In(<<p, w>>, K2)
    BY <1>1, <1>7, <1>8, CountTerm
  <2> QED BY <2>1, <2>2, <2>3
<1>10. /\ In(<<p, "leakage">>, K1) = 1 /\ In(<<p, w>>, K1) = dyn
       /\ In(<<p, w>>, K2) = dyn
  BY <1>6 DEF In
<1> QED BY <1>5, <1>9, <1>10, Zenon DEF peak, runtime, c, TermsOf, Summed

\* The invariant implies the property.
LEMMA CountedOnceIn ==
    ASSUME Accounting
    PROVE  CountedOnce
<1> SUFFICES ASSUME Computed PROVE CountedOnce
  BY Zenon DEF CountedOnce
<1>1. cfg.root = "Core" =>
        \A pass \in {"tdp", "rtp"} :
          LET total == PowerOf(pass, "Core")
          IN  /\ Copies(<<"corepipe", "share", pass>>, total) = Shares(cfg)
              /\ (\E t \in BagToSet(total) : t[2] = "NaN")
                   <=> cfg.int_instructions = 0
  BY CoreTotal
<1> QED BY <1>1, PartCounted, Zenon DEF CountedOnce

\* In both totals every array and wire is counted for its own accesses once,
\* and in the peak total its leakage once; the pipeline registers are shared
\* out completely; no total is 0/0 unless no integer instruction was executed.
THEOREM CountedOnceHolds == ESpec => []CountedOnce
<1>1. Accounting => CountedOnce BY CountedOnceIn
<1> QED BY <1>1, AccountingInvariant, PTL

-----------------------------------------------------------------------------
(* Which objects the pieces of an energy pass add to which. *)

\* One piece after another.
LEMMA TidyConcat ==
    ASSUME NEW pass, NEW s, NEW W, NEW R, NEW t, NEW V, NEW Q,
           Tidy(s, pass, W, R), Tidy(t, pass, V, Q),
           \A l \in R : l[2] \notin V
    PROVE  Tidy(s \o t, pass, W \cup V, R \cup Q)
<1> DEFINE m == Len(s)
           n == Len(t)
           u == s \o t
<1>1. IsSeq(s) /\ IsSeq(t) BY DEF Tidy
<1>2. /\ IsSeq(u) /\ m \in Nat /\ n \in Nat /\ Len(u) = m + n
      /\ \A k \in 1 .. m : u[k] = s[k]
      /\ \A k \in 1 .. n : u[m + k] = t[k]
  BY <1>1, SeqConcat
<1>3. /\ \A k \in 1 .. m : /\ s[k].pass = pass /\ Proper(s[k])
                           /\ Written(s[k]) \subseteq W /\ Lent(s[k]) \subseteq R
      /\ \A l \in R : \E k \in 1 .. m : l \in Lent(s[k])
      /\ \A i, j \in 1 .. m : i < j => InOrder(s, i, j)
  BY DEF Tidy
<1>4. /\ \A k \in 1 .. n : /\ t[k].pass = pass /\ Proper(t[k])
                           /\ Written(t[k]) \subseteq V /\ Lent(t[k]) \subseteq Q
      /\ \A l \in Q : \E k \in 1 .. n : l \in Lent(t[k])
      /\ \A i, j \in 1 .. n : i < j => InOrder(t, i, j)
  BY DEF Tidy
<1> HIDE DEF m, n, u
<1>5. ASSUME NEW k \in 1 .. m + n
      PROVE  k \in 1 .. m \/ (k - m \in 1 .. n /\ k = m + (k - m))
  BY <1>2
<1>6. ASSUME NEW k \in 1 .. m + n
      PROVE  /\ u[k].pass = pass /\ Proper(u[k])
             /\ Written(u[k]) \subseteq W \cup V /\ Lent(u[k]) \subseteq R \cup Q
  <2>1. CASE k \in 1 .. m BY <1>2, <1>3, <2>1
  <2>2. CASE k - m \in 1 .. n /\ k = m + (k - m)
    <3>1. u[k] = t[k - m] BY <1>2, <2>2
    <3> QED BY <1>4, <2>2, <3>1
  <2> QED BY <1>5, <2>1, <2>2
<1>7. ASSUME NEW l \in R \cup Q
      PROVE  \E k \in 1 .. m + n : l \in Lent(u[k])
  <2>1. CASE l \in R
    <3>1. PICK k \in 1 .. m : l \in Lent(s[k]) BY <1>3, <2>1
    <3>2. k \in 1 .. m + n /\ u[k] = s[k] BY <1>2
    <3> QED BY <3>1, <3>2
  <2>2. CASE l \in Q
    <3>1. PICK k \in 1 .. n : l \in Lent(t[k]) BY <1>4, <2>2
    <3>2. m + k \in 1 .. m + n /\ u[m + k] = t[k] BY <1>2
    <3> QED BY <3>1, <3>2
  <2> QED BY <2>1, <2>2
<1>8. ASSUME NEW i \in 1 .. m + n, NEW j \in 1 .. m + n, i < j
      PROVE  InOrder(u, i, j)
  <2>1. CASE j \in 1 .. m
    <3>1. i \in 1 .. m BY <1>2, <1>8, <2>1
    <3>2. u[i] = s[i] /\ u[j] = s[j] /\ InOrder(s, i, j)
      BY <1>2, <1>3, <1>8, <2>1, <3>1
    <3> QED BY <3>2 DEF InOrder
  <2>2. CASE i \in 1 .. m /\ j - m \in 1 .. n /\ j = m + (j - m)
    <3>1. u[i] = s[i] /\ u[j] = t[j - m] BY <1>2, <2>2
    <3>2. Lent(u[i]) \subseteq R /\ Written(u[j]) \subseteq V
      BY <1>3, <1>4, <2>2, <3>1
    <3> QED BY <3>2 DEF InOrder
  <2>3. CASE /\ i - m \in 1 .. n /\ i = m + (i - m)
             /\ j - m \in 1 .. n /\ j = m + (j - m)
    <3>1. u[i] = t[i - m] /\ u[j] = t[j - m] BY <1>2, <2>3
    <3>2. i - m < j - m BY <1>2, <1>8
    <3>3. InOrder(t, i - m, j - m) BY <1>4, <2>3, <3>2
    <3> QED BY <3>1, <3>3 DEF InOrder
  <2> QED BY <1>2, <1>5, <1>8, <2>1, <2>2, <2>3
<1>9. Tidy(u, pass, W \cup V, R \cup Q) BY <1>2, <1>6, <1>7, <1>8 DEF Tidy
<1> QED BY <1>9 DEF u

\* The same with the unions spelled out.
LEMMA TidyThen ==
    ASSUME NEW pass, NEW s, NEW W, NEW R, NEW t, NEW V, NEW Q,
           Tidy(s, pass, W, R), Tidy(t, pass, V, Q),
           \A l \in R : l[2] \notin V,
           NEW X, W \cup V \subseteq X, NEW Z, Z = R \cup Q
    PROVE  Tidy(s \o t, pass, X, Z)
<1>1. Tidy(s \o t, pass, W \cup V, R \cup Q) BY TidyConcat
<1> QED BY <1>1 DEF Tidy

\* No statements.
LEMMA TidyNone ==
    ASSUME NEW pass
    PROVE  Tidy(<<>>, pass, {}, {})
  BY SeqNone DEF Tidy

\* A piece under a condition.
LEMMA TidyOnly ==
    ASSUME NEW pass, NEW cond, NEW s, NEW W, NEW R, cond => Tidy(s, pass, W, R)
    PROVE  Tidy(Only(cond, s), pass, W, IF cond THEN R ELSE {})
<1>1. CASE cond BY <1>1 DEF Only
<1>2. CASE ~cond
  <2>1. Tidy(<<>>, pass, {}, {}) BY TidyNone
  <2> QED BY <1>2, <2>1 DEF Only, Tidy
<1> QED BY <1>1, <1>2

\* One statement.
LEMMA TidyOne ==
    ASSUME NEW pass, NEW st, st.pass = pass, Proper(st)
    PROVE  Tidy(<<st>>, pass, Written(st), Lent(st))
<1>1. \A k : k \in 1 .. 1 <=> k = 1 OBVIOUS
<1>2. \A i, j \in 1 .. 1 : ~(i < j) OBVIOUS
<1> QED BY <1>1, <1>2, SeqOne DEF Tidy

\* Access counts.
LEMMA TidyStats ==
    ASSUME NEW pass, NEW parts
    PROVE  Tidy(Stats(pass, parts), pass, {}, {})
<1> DEFINE st == [op |-> "stats", pass |-> pass, parts |-> parts]
<1>1. st.op = "stats" /\ st.pass = pass OBVIOUS
<1>2. Stats(pass, parts) = <<st>> BY DEF Stats
<1> HIDE DEF st
<1>3. Written(st) = {} /\ Lent(st) = {} /\ Proper(st)
  BY <1>1 DEF Written, Lent, Proper
<1>4. Tidy(<<st>>, pass, Written(st), Lent(st)) BY <1>1, <1>3, TidyOne
<1> QED BY <1>2, <1>3, <1>4

\* The power of a part.
LEMMA TidyPart ==
    ASSUME NEW pass, NEW name, NEW into, NEW dyn, NEW lkg, NEW adds
    PROVE  Tidy(Part(pass, name, into, dyn, lkg, adds), pass, {name, into},
                IF adds \in {"power", "power_t"} /\ dyn # {}
                THEN {<<into, name>>} ELSE {})
<1> DEFINE st == [op |-> "part", pass |-> pass, name |-> name, into |-> into,
                  dyn |-> dyn, lkg |-> lkg, adds |-> adds]
<1>1. /\ st.op = "part" /\ st.pass = pass /\ st.name = name /\ st.into = into
      /\ st.dyn = dyn /\ st.adds = adds
  OBVIOUS
<1>2. Part(pass, name, into, dyn, lkg, adds) = <<st>> BY DEF Part
<1> HIDE DEF st
<1>3. /\ Written(st) = {name, into} /\ Proper(st)
      /\ Lent(st) = IF adds \in {"power", "power_t"} /\ dyn # {}
                    THEN {<<into, name>>} ELSE {}
  BY <1>1 DEF Written, Lent, Proper
<1>4. Tidy(<<st>>, pass, Written(st), Lent(st)) BY <1>1, <1>3, TidyOne
<1> QED BY <1>2, <1>3, <1>4

\* An array of its own.
LEMMA TidyOwn ==
    ASSUME NEW pass, NEW p, NEW into
    PROVE  Tidy(Own(pass, p, into), pass, {p, into}, {<<into, p>>})
<1> DEFINE dyn == {<<p, p>>}
<1>1. dyn # {} OBVIOUS
<1>2. Own(pass, p, into) = Part(pass, p, into, dyn, {p}, "power") BY DEF Own
<1> HIDE DEF dyn
<1>3. Tidy(Part(pass, p, into, dyn, {p}, "power"), pass, {p, into},
           IF "power" \in {"power", "power_t"} /\ dyn # {}
           THEN {<<into, p>>} ELSE {})
  BY TidyPart
<1> QED BY <1>1, <1>2, <1>3

\* A sum that goes into another one.
LEMMA TidySub ==
    ASSUME NEW pass, NEW name, NEW into, name # into,
           name \notin Sharers \cup {"Core"}
    PROVE  Tidy(Sub(pass, name, into), pass, {into}, {<<into, name>>})
<1> DEFINE st == [op |-> "sub", pass |-> pass, name |-> name, into |-> into]
<1>1. st.op = "sub" /\ st.pass = pass /\ st.name = name /\ st.into = into
  OBVIOUS
<1>2. Sub(pass, name, into) = <<st>> BY DEF Sub
<1> HIDE DEF st
<1>3. Written(st) = {into} /\ Lent(st) = {<<into, name>>} /\ Proper(st)
  BY <1>1 DEF Written, Lent, Proper
<1>4. Tidy(<<st>>, pass, Written(st), Lent(st)) BY <1>1, <1>3, TidyOne
<1> QED BY <1>2, <1>3, <1>4

\* A unit with its share of the pipeline.
LEMMA TidyShare ==
    ASSUME NEW pass, NEW unit
    PROVE  Tidy(Share(pass, unit), pass, {unit, "Core"}, {<<"Core", unit>>})
<1> DEFINE st == [op |-> "share", pass |-> pass, name |-> unit]
<1>1. st.op = "share" /\ st.pass = pass /\ st.name = unit OBVIOUS
<1>2. Share(pass, unit) = <<st>> BY DEF Share
<1> HIDE DEF st
<1>3. Written(st) = {unit, "Core"} /\ Lent(st) = {<<"Core", unit>>} /\ Proper(st)
  BY <1>1 DEF Written, Lent, Proper
<1>4. Tidy(<<st>>, pass, Written(st), Lent(st)) BY <1>1, <1>3, TidyOne
<1> QED BY <1>2, <1>3, <1>4

\* A functional unit.
LEMMA TidyFunctional ==
    ASSUME NEW pass, NEW fu
    PROVE  Tidy(Functional(pass, fu), pass, {fu, "exu"}, {<<"exu", fu>>})
<1> DEFINE st == [op |-> "fu", pass |-> pass, name |-> fu]
<1>1. st.op = "fu" /\ st.pass = pass /\ st.name = fu OBVIOUS
<1>2. Functional(pass, fu) = <<st>> BY DEF Functional
<1> HIDE DEF st
<1>3. Written(st) = {fu, "exu"} /\ Lent(st) = {<<"exu", fu>>} /\ Proper(st)
  BY <1>1 DEF Written, Lent, Proper
<1>4. Tidy(<<st>>, pass, Written(st), Lent(st)) BY <1>1, <1>3, TidyOne
<1> QED BY <1>2, <1>3, <1>4

\* BranchPredictor: the second level local table is not added.
LEMMA BranchPredictorTidy ==
    ASSUME NEW pass
    PROVE  Tidy(BranchPredictor_energy(pass), pass, {"BPT", "RAS"} \cup Tables,
                BranchPredictor_display \ {<<"BPT", "L2_localBPT">>})
<1> DEFINE s0 == Stats(pass, Tables \cup {"RAS"})
           s1 == Own(pass, "globalBPT", "BPT")
           s2 == Own(pass, "L1_localBPT", "BPT")
           dyn == {<<"L2_localBPT", "L2_localBPT">>}
           s3 == Part(pass, "L2_localBPT", "BPT", dyn, {"L2_localBPT"}, "nothing")
           s4 == Own(pass, "chooser", "BPT")
           s5 == Own(pass, "RAS", "BPT")
           W == {"BPT", "RAS"} \cup Tables
           b(p) == <<"BPT", p>>
<1>1. Tables = {"globalBPT", "L1_localBPT", "L2_localBPT", "chooser"}
  BY DEF Tables
<1>2. /\ Tidy(s0, pass, {}, {})
      /\ Tidy(s1, pass, {"globalBPT", "BPT"}, {b("globalBPT")})
      /\ Tidy(s2, pass, {"L1_localBPT", "BPT"}, {b("L1_localBPT")})
      /\ Tidy(s4, pass, {"chooser", "BPT"}, {b("chooser")})
      /\ Tidy(s5, pass, {"RAS", "BPT"}, {b("RAS")})
  BY TidyStats, TidyOwn
<1>3. Tidy(s3, pass, {"L2_localBPT", "BPT"}, {})
  <2>1. Tidy(s3, pass, {"L2_localBPT", "BPT"},
             IF "nothing" \in {"power", "power_t"} /\ dyn # {}
             THEN {b("L2_localBPT")} ELSE {})
    BY TidyPart
  <2> QED BY <2>1
<1>4. BranchPredictor_energy(pass) = s0 \o s1 \o s2 \o s3 \o s4 \o s5
  BY DEF BranchPredictor_energy
<1> HIDE DEF s0, s1, s2, s3, s4, s5
<1>5. Tidy(s0 \o s1, pass, W, {b("globalBPT")}) BY <1>1, <1>2, TidyThen
<1>6. Tidy(s0 \o s1 \o s2, pass, W, {b("globalBPT"), b("L1_localBPT")})
  BY <1>1, <1>2, <1>5, TidyThen
<1>7. Tidy(s0 \o s1 \o s2 \o s3, pass, W, {b("globalBPT"), b("L1_localBPT")})
  BY <1>1, <1>3, <1>6, TidyThen
<1>8. Tidy(s0 \o s1 \o s2 \o s3 \o s4, pass, W,
           {b("globalBPT"), b("L1_localBPT"), b("chooser")})
  BY <1>1, <1>2, <1>7, TidyThen
<1>9. Tidy(s0 \o s1 \o s2 \o s3 \o s4 \o s5, pass, W,
           {b("globalBPT"), b("L1_localBPT"), b("chooser"), b("RAS")})
  BY <1>1, <1>2, <1>8, TidyThen
<1>10. BranchPredictor_display \ {b("L2_localBPT")}
         = {b("globalBPT"), b("L1_localBPT"), b("chooser"), b("RAS")}
  BY <1>1 DEF BranchPredictor_display, Lines
<1> QED BY <1>4, <1>9, <1>10

\* The decoders.
LEMMA DecodersTidy ==
    ASSUME NEW pass
    PROVE  Tidy(decoders_energy(pass), pass, {"ID", "ifu"}, {<<"ifu", "ID">>})
<1> DEFINE s0 == Stats(pass, {"saved decode energy"})
           d1 == {<<d, d>> : d \in Decoders}
           d2 == d1 \cup {<<d, "saved decode energy">> : d \in Decoders}
           s1 == Part(pass, "ID", "ifu", d1, Decoders, "power")
           s2 == Part(pass, "ID", "ifu", d2, {}, "power")
<1>1. d1 # {} /\ d2 # {} BY DEF Decoders
<1>2. decoders_energy(pass) = IF pass = "tdp" THEN s0 \o s1 ELSE s2
  BY DEF decoders_energy
<1>3. /\ Tidy(s1, pass, {"ID", "ifu"},
              IF "power" \in {"power", "power_t"} /\ d1 # {}
              THEN {<<"ifu", "ID">>} ELSE {})
      /\ Tidy(s2, pass, {"ID", "ifu"},
              IF "power" \in {"power", "power_t"} /\ d2 # {}
              THEN {<<"ifu", "ID">>} ELSE {})
  BY TidyPart
<1>4. Tidy(s0, pass, {}, {}) BY TidyStats
<1> HIDE DEF s0, s1, s2, d1, d2
<1>5. /\ Tidy(s1, pass, {"ID", "ifu"}, {<<"ifu", "ID">>})
      /\ Tidy(s2, pass, {"ID", "ifu"}, {<<"ifu", "ID">>})
  BY <1>1, <1>3
<1>6. Tidy(s0 \o s1, pass, {"ID", "ifu"}, {<<"ifu", "ID">>})
  BY <1>4, <1>5, TidyThen
<1> QED BY <1>2, <1>5, <1>6

\* InstFetchU.
LEMMA InstFetchUTidy ==
    ASSUME NEW c, NEW pass
    PROVE  Tidy(InstFetchU_energy(c, pass), pass,
                {"ifu", "icache", "IB", "ID", "BTB", "BPT", "RAS"} \cup Tables,
                InstFetchU_display(c, 4) \ {<<"BPT", "L2_localBPT">>})
<1> DEFINE p == c.predictionW > 0
           s0 == InstFetchU_stats(c, pass)
           bp == BranchPredictor_energy(pass)
           s1 == Only(p, bp)
           dyn == {<<x, x>> : x \in IcacheParts}
           s2 == Part(pass, "icache", "ifu", dyn, IcacheParts, "power")
           s3 == Own(pass, "IB", "ifu")
           t1 == Own(pass, "BTB", "ifu")
           t2 == Sub(pass, "BPT", "ifu")
           t3 == t1 \o t2
           s4 == Only(p, t3)
           s5 == decoders_energy(pass)
           W == {"ifu", "icache", "IB", "ID", "BTB", "BPT", "RAS"} \cup Tables
           V == {"BPT", "RAS"} \cup Tables
           i(x) == <<"ifu", x>>
           B == BranchPredictor_display \ {<<"BPT", "L2_localBPT">>}
           B2 == IF p THEN B ELSE {}
           P == IF p THEN {i("BTB"), i("BPT")} ELSE {}
<1>1. Tables = {"globalBPT", "L1_localBPT", "L2_localBPT", "chooser"}
  BY DEF Tables
<1>2. B = {<<"BPT", "globalBPT">>, <<"BPT", "L1_localBPT">>, <<"BPT", "chooser">>,
           <<"BPT", "RAS">>}
  BY <1>1 DEF BranchPredictor_display, Lines
<1>3. Tidy(s0, pass, {}, {}) BY TidyStats DEF InstFetchU_stats
<1>4. Tidy(bp, pass, V, B) BY BranchPredictorTidy
<1>5. Tidy(s2, pass, {"icache", "ifu"}, {i("icache")})
  <2>1. dyn # {} BY DEF IcacheParts
  <2> HIDE DEF dyn
  <2>2. Tidy(s2, pass, {"icache", "ifu"},
             IF "power" \in {"power", "power_t"} /\ dyn # {}
             THEN {i("icache")} ELSE {})
    BY TidyPart
  <2> QED BY <2>1, <2>2
<1>6. Tidy(s3, pass, {"IB", "ifu"}, {i("IB")}) BY TidyOwn
<1>7. Tidy(t1, pass, {"BTB", "ifu"}, {i("BTB")}) BY TidyOwn
<1>8. Tidy(t2, pass, {"ifu"}, {i("BPT")})
  <2>1. "BPT" \notin Sharers \cup {"Core"} /\ "BPT" # "ifu" BY DEF Sharers
  <2> QED BY <2>1, TidySub
<1>9. Tidy(s5, pass, {"ID", "ifu"}, {i("ID")}) BY DecodersTidy
<1>10. InstFetchU_energy(c, pass) = s0 \o s1 \o s2 \o s3 \o s4 \o s5
  BY DEF InstFetchU_energy
<1>11. InstFetchU_display(c, 4) \ {<<"BPT", "L2_localBPT">>}
         = {i("icache"), i("IB"), i("ID")} \cup B2 \cup P
  BY <1>1, <1>2 DEF InstFetchU_display, BranchPredictor_display, Lines
<1> HIDE DEF s0, bp, s2, s3, t1, t2, s5, p, B
<1>12. Tidy(s1, pass, V, B2) BY <1>4, TidyOnly
<1>13. Tidy(t3, pass, {"BTB", "ifu"}, {i("BTB"), i("BPT")})
  BY <1>7, <1>8, TidyThen
<1> HIDE DEF t3
<1>14. Tidy(s4, pass, {"BTB", "ifu"}, P) BY <1>13, TidyOnly
<1>15. \A l \in B2 : l[2] \in {"globalBPT", "L1_localBPT", "chooser", "RAS"}
  BY <1>2
<1>16. P \subseteq {i("BTB"), i("BPT")} OBVIOUS
<1> HIDE DEF s1, s4, B2, P
<1>17. Tidy(s0 \o s1, pass, W, B2) BY <1>3, <1>12, TidyThen
<1>18. Tidy(s0 \o s1 \o s2, pass, W, {i("icache")} \cup B2)
  BY <1>5, <1>15, <1>17, TidyThen
<1>19. Tidy(s0 \o s1 \o s2 \o s3, pass, W, {i("icache"), i("IB")} \cup B2)
  BY <1>6, <1>15, <1>18, TidyThen
<1>20. Tidy(s0 \o s1 \o s2 \o s3 \o s4, pass, W,
            {i("icache"), i("IB")} \cup B2 \cup P)
  BY <1>14, <1>15, <1>16, <1>19, TidyThen
<1>21. Tidy(s0 \o s1 \o s2 \o s3 \o s4 \o s5, pass, W,
            {i("icache"), i("IB"), i("ID")} \cup B2 \cup P)
  BY <1>9, <1>15, <1>16, <1>20, TidyThen
<1> QED BY <1>10, <1>11, <1>21

\* A part that has accesses and is added.
LEMMA TidyAdded ==
    ASSUME NEW pass, NEW name, NEW into, NEW dyn, NEW lkg, NEW adds,
           adds \in {"power", "power_t"}, dyn # {}
    PROVE  Tidy(Part(pass, name, into, dyn, lkg, adds), pass, {name, into},
                {<<into, name>>})
<1>1. Tidy(Part(pass, name, into, dyn, lkg, adds), pass, {name, into},
           IF adds \in {"power", "power_t"} /\ dyn # {}
           THEN {<<into, name>>} ELSE {})
  BY TidyPart
<1> QED BY <1>1

\* LoadStoreU.
LEMMA LoadStoreUTidy ==
    ASSUME NEW c, NEW pass
    PROVE  Tidy(LoadStoreU_energy(c, pass), pass, {"lsu", "dcache", "LSQ", "LoadQ"},
                LoadStoreU_display(c))
<1> DEFINE p == HasLoadQ(c)
           s0 == LoadStoreU_stats(c, pass)
           s1 == dcache_energy(c, pass)
           s2 == Own(pass, "LSQ", "lsu")
           t == Own(pass, "LoadQ", "lsu")
           s3 == Only(p, t)
           W == {"lsu", "dcache", "LSQ", "LoadQ"}
           l(x) == <<"lsu", x>>
           Q == IF p THEN {l("LoadQ")} ELSE {}
<1>1. Tidy(s0, pass, {}, {}) BY TidyStats DEF LoadStoreU_stats
<1>2. Tidy(s1, pass, {"dcache", "lsu"}, {l("dcache")})
  <2> DEFINE parts == {"dcache.caches", "dcache.apcaches"} \cup DcacheBuffers(c)
             dyn == {<<q, q>> : q \in parts}
                      \cup {<<"dcache.caches", "dcache.apcaches">>}
  <2>1. s1 = Part(pass, "dcache", "lsu", dyn, parts, "power") BY DEF dcache_energy
  <2>2. dyn # {} OBVIOUS
  <2> HIDE DEF dyn, parts, s1
  <2>3. Tidy(Part(pass, "dcache", "lsu", dyn, parts, "power"), pass,
             {"dcache", "lsu"}, {l("dcache")})
    BY <2>2, TidyAdded
  <2> QED BY <2>1, <2>3
<1>3. /\ Tidy(s2, pass, {"LSQ", "lsu"}, {l("LSQ")})
      /\ Tidy(t, pass, {"LoadQ", "lsu"}, {l("LoadQ")})
  BY TidyOwn
<1>4. LoadStoreU_energy(c, pass) = s0 \o s1 \o s2 \o s3 BY DEF LoadStoreU_energy
<1>5. LoadStoreU_display(c) = {l("dcache"), l("LSQ")} \cup Q
  BY DEF LoadStoreU_display, Lines
<1> HIDE DEF s0, s1, s2, t, p
<1>6. Tidy(s3, pass, {"LoadQ", "lsu"}, Q) BY <1>3, TidyOnly
<1> HIDE DEF s3, Q
<1>7. Tidy(s0 \o s1, pass, W, {l("dcache")}) BY <1>1, <1>2, TidyThen
<1>8. Tidy(s0 \o s1 \o s2, pass, W, {l("dcache"), l("LSQ")})
  BY <1>3, <1>7, TidyThen
<1>9. Tidy(s0 \o s1 \o s2 \o s3, pass, W, {l("dcache"), l("LSQ")} \cup Q)
  BY <1>6, <1>8, TidyThen
<1> QED BY <1>4, <1>5, <1>9

\* MemManU.
LEMMA MemManUTidy ==
    ASSUME NEW pass
    PROVE  Tidy(MemManU_energy(pass), pass, {"mmu", "itlb", "dtlb"}, MemManU_display)
<1> DEFINE s0 == Stats(pass, {"itlb", "dtlb"})
           s1 == Own(pass, "itlb", "mmu")
           s2 == Own(pass, "dtlb", "mmu")
           W == {"mmu", "itlb", "dtlb"}
<1>1. /\ Tidy(s0, pass, {}, {})
      /\ Tidy(s1, pass, {"itlb", "mmu"}, {<<"mmu", "itlb">>})
      /\ Tidy(s2, pass, {"dtlb", "mmu"}, {<<"mmu", "dtlb">>})
  BY TidyStats, TidyOwn
<1>2. MemManU_energy(pass) = s0 \o s1 \o s2 BY DEF MemManU_energy
<1> HIDE DEF s0, s1, s2
<1>3. Tidy(s0 \o s1, pass, W, {<<"mmu", "itlb">>}) BY <1>1, TidyThen
<1>4. Tidy(s0 \o s1 \o s2, pass, W, {<<"mmu", "itlb">>, <<"mmu", "dtlb">>})
  BY <1>1, <1>3, TidyThen
<1>5. MemManU_display = {<<"mmu", "itlb">>, <<"mmu", "dtlb">>}
  BY DEF MemManU_display, Lines
<1> QED BY <1>2, <1>4, <1>5

\* RENAMINGU.
LEMMA RENAMINGUTidy ==
    ASSUME NEW c, NEW pass
    PROVE  Tidy(RENAMINGU_energy(c, pass), pass,
                {"rnu", "iFRAT", "fFRAT", "iRRAT", "fRRAT", "ifreeL", "ffreeL"},
                RENAMINGU_display(c))
<1> DEFINE p == c.PRF
           r(x) == <<"rnu", x>>
           s0 == RENAMINGU_stats(c, pass)
           s1 == FrontRAT_energy(pass, "iFRAT", "idcl")
           s2 == FrontRAT_energy(pass, "fFRAT", "fdcl")
           t1 == Own(pass, "iRRAT", "rnu")
           t2 == Own(pass, "fRRAT", "rnu")
           t3 == t1 \o t2
           s3 == Only(p, t3)
           s4 == Own(pass, "ifreeL", "rnu")
           t4 == Own(pass, "ffreeL", "rnu")
           s5 == Only(p, t4)
           W == {"rnu", "iFRAT", "fFRAT", "iRRAT", "fRRAT", "ifreeL", "ffreeL"}
           P == IF p THEN {r("iRRAT"), r("fRRAT")} ELSE {}
           Q == IF p THEN {r("ffreeL")} ELSE {}
<1>1. Tidy(s0, pass, {}, {}) BY TidyStats DEF RENAMINGU_stats
<1>2. ASSUME NEW rat, NEW dcl
      PROVE  Tidy(FrontRAT_energy(pass, rat, dcl), pass, {rat, "rnu"}, {r(rat)})
  <2> DEFINE dyn == {<<rat, rat>>, <<dcl, rat>>}
  <2>1. dyn # {} OBVIOUS
  <2>2. FrontRAT_energy(pass, rat, dcl) = Part(pass, rat, "rnu", dyn, {rat}, "power")
    BY DEF FrontRAT_energy
  <2> HIDE DEF dyn
  <2>3. Tidy(Part(pass, rat, "rnu", dyn, {rat}, "power"), pass, {rat, "rnu"},
             {r(rat)})
    BY <2>1, TidyAdded
  <2> QED BY <2>2, <2>3
<1>3. /\ Tidy(s1, pass, {"iFRAT", "rnu"}, {r("iFRAT")})
      /\ Tidy(s2, pass, {"fFRAT", "rnu"}, {r("fFRAT")})
  BY <1>2
<1>4. /\ Tidy(t1, pass, {"iRRAT", "rnu"}, {r("iRRAT")})
      /\ Tidy(t2, pass, {"fRRAT", "rnu"}, {r("fRRAT")})
      /\ Tidy(s4, pass, {"ifreeL", "rnu"}, {r("ifreeL")})
      /\ Tidy(t4, pass, {"ffreeL", "rnu"}, {r("ffreeL")})
  BY TidyOwn
<1>5. RENAMINGU_energy(c, pass) = s0 \o s1 \o s2 \o s3 \o s4 \o s5
  BY DEF RENAMINGU_energy
<1>6. RENAMINGU_display(c) = {r("iFRAT"), r("fFRAT"), r("ifreeL")} \cup P \cup Q
  BY DEF RENAMINGU_display, Lines
<1> HIDE DEF s0, s1, s2, t1, t2, s4, t4, p
<1>7. Tidy(t3, pass, {"iRRAT", "fRRAT", "rnu"}, {r("iRRAT"), r("fRRAT")})
  BY <1>4, TidyThen
<1> HIDE DEF t3
<1>8. /\ Tidy(s3, pass, {"iRRAT", "fRRAT", "rnu"}, P)
      /\ Tidy(s5, pass, {"ffreeL", "rnu"}, Q)
  BY <1>4, <1>7, TidyOnly
<1>9. P \subseteq {r("iRRAT"), r("fRRAT")} OBVIOUS
<1> HIDE DEF s3, s5, P, Q
<1>10. Tidy(s0 \o s1, pass, W, {r("iFRAT")}) BY <1>1, <1>3, TidyThen
<1>11. Tidy(s0 \o s1 \o s2, pass, W, {r("iFRAT"), r("fFRAT")})
  BY <1>3, <1>10, TidyThen
<1>12. Tidy(s0 \o s1 \o s2 \o s3, pass, W, {r("iFRAT"), r("fFRAT")} \cup P)
  BY <1>8, <1>11, TidyThen
<1>13. Tidy(s0 \o s1 \o s2 \o s3 \o s4, pass, W,
            {r("iFRAT"), r("fFRAT"), r("ifreeL")} \cup P)
  BY <1>4, <1>9, <1>12, TidyThen
<1>14. Tidy(s0 \o s1 \o s2 \o s3 \o s4 \o s5, pass, W,
            {r("iFRAT"), r("fFRAT"), r("ifreeL")} \cup P \cup Q)
  BY <1>8, <1>9, <1>13, TidyThen
<1> QED BY <1>5, <1>6, <1>14

\* SchedulerU.
LEMMA SchedulerUTidy ==
    ASSUME NEW c, c.OOO \in BOOLEAN, NEW pass
    PROVE  Tidy(SchedulerU_energy(c, pass), pass,
                {"scheu", "int_inst_window", "fp_inst_window", "ROB"},
                SchedulerU_display(c))
<1> DEFINE u(x) == <<"scheu", x>>
           p0 == c.OOO
           p1 == c.OOO \/ c.threads > 1
           p2 == c.OOO /\ c.ROB > 0
           s0 == SchedulerU_stats(c, pass)
           t1 == Window_energy(pass, "int_inst_window")
           t2 == Window_energy(pass, "fp_inst_window")
           t3 == Own(pass, "ROB", "scheu")
           s1 == Only(p1, t1)
           s2 == Only(p0, t2)
           s3 == Only(p2, t3)
           W == {"scheu", "int_inst_window", "fp_inst_window", "ROB"}
           P1 == IF p1 THEN {u("int_inst_window")} ELSE {}
           P2 == IF p0 THEN {u("fp_inst_window")} ELSE {}
           P3 == IF p2 THEN {u("ROB")} ELSE {}
<1>1. Tidy(s0, pass, {}, {}) BY TidyStats DEF SchedulerU_stats
<1>2. ASSUME NEW w
      PROVE  Tidy(Window_energy(pass, w), pass, {w, "scheu"}, {u(w)})
  <2> DEFINE dyn == {<<w, w>>, <<"instruction_selection", w>>}
             lkg == {w, "instruction_selection"}
  <2>1. dyn # {} OBVIOUS
  <2>2. Window_energy(pass, w) = Part(pass, w, "scheu", dyn, lkg, "power")
    BY DEF Window_energy
  <2> HIDE DEF dyn, lkg
  <2>3. Tidy(Part(pass, w, "scheu", dyn, lkg, "power"), pass, {w, "scheu"}, {u(w)})
    BY <2>1, TidyAdded
  <2> QED BY <2>2, <2>3
<1>3. /\ Tidy(t1, pass, {"int_inst_window", "scheu"}, {u("int_inst_window")})
      /\ Tidy(t2, pass, {"fp_inst_window", "scheu"}, {u("fp_inst_window")})
  BY <1>2
<1>4. Tidy(t3, pass, {"ROB", "scheu"}, {u("ROB")}) BY TidyOwn
<1>5. SchedulerU_energy(c, pass) = s0 \o s1 \o s2 \o s3 BY DEF SchedulerU_energy
<1>6. SchedulerU_display(c) = P1 \cup P2 \cup P3
  BY DEF SchedulerU_display, Lines
<1> HIDE DEF s0, t1, t2, t3, p0, p1, p2
<1>7. /\ Tidy(s1, pass, {"int_inst_window", "scheu"}, P1)
      /\ Tidy(s2, pass, {"fp_inst_window", "scheu"}, P2)
      /\ Tidy(s3, pass, {"ROB", "scheu"}, P3)
  BY <1>3, <1>4, TidyOnly
<1>8. P1 \subseteq {u("int_inst_window")} /\ P2 \subseteq {u("fp_inst_window")}
  OBVIOUS
<1> HIDE DEF s1, s2, s3, P1, P2, P3
<1>9. Tidy(s0 \o s1, pass, W, P1) BY <1>1, <1>7, TidyThen
<1>10. Tidy(s0 \o s1 \o s2, pass, W, P1 \cup P2) BY <1>7, <1>8, <1>9, TidyThen
<1>11. Tidy(s0 \o s1 \o s2 \o s3, pass, W, P1 \cup P2 \cup P3)
  BY <1>7, <1>8, <1>10, TidyThen
<1> QED BY <1>5, <1>6, <1>11

\* RegFU.
LEMMA RegFUTidy ==
    ASSUME NEW c, NEW pass
    PROVE  Tidy(RegFU_energy(c, pass), pass, {"rfu", "IRF", "FRF", "RFWIN"},
                RegFU_display(c))
<1> DEFINE p == RegWindowing(c)
           r(x) == <<"rfu", x>>
           adds == IF pass = "tdp" THEN "power" ELSE "power_t"
           s0 == Stats(pass, {"IRF", "FRF"} \cup (IF p THEN {"RFWIN"} ELSE {}))
           d1 == {<<"IRF", "IRF">>}
           d2 == {<<"FRF", "FRF">>}
           s1 == Part(pass, "IRF", "rfu", d1, {"IRF"}, adds)
           s2 == Part(pass, "FRF", "rfu", d2, {"FRF"}, adds)
           t == Own(pass, "RFWIN", "rfu")
           s3 == Only(p, t)
           W == {"rfu", "IRF", "FRF", "RFWIN"}
           P == IF p THEN {r("RFWIN")} ELSE {}
<1>1. Tidy(s0, pass, {}, {}) BY TidyStats
<1>2. adds \in {"power", "power_t"} /\ d1 # {} /\ d2 # {} OBVIOUS
<1>3. RegFU_energy(c, pass) = s0 \o s1 \o s2 \o s3 BY DEF RegFU_energy
<1> HIDE DEF adds, d1, d2
<1>4. /\ Tidy(s1, pass, {"IRF", "rfu"}, {r("IRF")})
      /\ Tidy(s2, pass, {"FRF", "rfu"}, {r("FRF")})
  BY <1>2, TidyAdded
<1>5. Tidy(t, pass, {"RFWIN", "rfu"}, {r("RFWIN")}) BY TidyOwn
<1>6. RegFU_display(c) = {r("IRF"), r("FRF")} \cup P BY DEF RegFU_display, Lines
<1> HIDE DEF s0, s1, s2, t, p
<1>7. Tidy(s3, pass, {"RFWIN", "rfu"}, P) BY <1>5, TidyOnly
<1> HIDE DEF s3, P
<1>8. Tidy(s0 \o s1, pass, W, {r("IRF")}) BY <1>1, <1>4, TidyThen
<1>9. Tidy(s0 \o s1 \o s2, pass, W, {r("IRF"), r("FRF")}) BY <1>4, <1>8, TidyThen
<1>10. Tidy(s0 \o s1 \o s2 \o s3, pass, W, {r("IRF"), r("FRF")} \cup P)
  BY <1>7, <1>9, TidyThen
<1> QED BY <1>3, <1>6, <1>10

\* The bypass wires.
LEMMA BypassTidy ==
    ASSUME NEW c, NEW pass
    PROVE  Tidy(bypass_energy(c, pass), pass, {"bypass", "exu"},
                {<<"exu", "bypass">>})
<1> DEFINE dyn == {<<w, "bypass">> : w \in Wires(c)}
           s0 == Stats(pass, {"bypass"})
           s1 == Part(pass, "bypass", "exu", dyn, Wires(c), "power")
<1>1. dyn # {}
  <2>1. "int_bypass" \in Wires(c) BY DEF Wires
  <2> QED BY <2>1
<1>2. bypass_energy(c, pass) = s0 \o s1 BY DEF bypass_energy
<1>3. Tidy(s0, pass, {}, {}) BY TidyStats
<1> HIDE DEF dyn
<1>4. Tidy(s1, pass, {"bypass", "exu"}, {<<"exu", "bypass">>})
  BY <1>1, TidyAdded
<1> HIDE DEF s0, s1
<1>5. Tidy(s0 \o s1, pass, {"bypass", "exu"}, {<<"exu", "bypass">>})
  BY <1>3, <1>4, TidyThen
<1> QED BY <1>2, <1>5

\* EXECU.
LEMMA EXECUTidy ==
    ASSUME NEW c, c.OOO \in BOOLEAN, NEW pass
    PROVE  Tidy(EXECU_energy(c, pass), pass,
                {"exu", "rfu", "IRF", "FRF", "RFWIN", "scheu", "int_inst_window",
                 "fp_inst_window", "ROB", "exeu", "fp_u", "mul", "bypass"},
                EXECU_display(c, 4))
<1> DEFINE e(x) == <<"exu", x>>
           p5 == c.fpus > 0
           p6 == c.muls > 0
           s1 == RegFU_energy(c, pass)
           s2 == SchedulerU_energy(c, pass)
           s3 == Functional(pass, "exeu")
           t4 == Functional(pass, "fp_u")
           s4 == Only(p5, t4)
           t5 == Functional(pass, "mul")
           s5 == Only(p6, t5)
           s6 == bypass_energy(c, pass)
           s7 == Sub(pass, "rfu", "exu")
           s8 == Sub(pass, "scheu", "exu")
           R1 == RegFU_display(c)
           R2 == SchedulerU_display(c)
           R4 == IF p5 THEN {e("fp_u")} ELSE {}
           R5 == IF p6 THEN {e("mul")} ELSE {}
           W == {"exu", "rfu", "IRF", "FRF", "RFWIN", "scheu", "int_inst_window",
                 "fp_inst_window", "ROB", "exeu", "fp_u", "mul", "bypass"}
<1>1. /\ Tidy(s1, pass, {"rfu", "IRF", "FRF", "RFWIN"}, R1)
      /\ Tidy(s2, pass, {"scheu", "int_inst_window", "fp_inst_window", "ROB"}, R2)
  BY RegFUTidy, SchedulerUTidy
<1>2. /\ Tidy(s3, pass, {"exeu", "exu"}, {e("exeu")})
      /\ Tidy(t4, pass, {"fp_u", "exu"}, {e("fp_u")})
      /\ Tidy(t5, pass, {"mul", "exu"}, {e("mul")})
      /\ Tidy(s6, pass, {"bypass", "exu"}, {e("bypass")})
  BY TidyFunctional, BypassTidy
<1>3. /\ Tidy(s7, pass, {"exu"}, {e("rfu")})
      /\ Tidy(s8, pass, {"exu"}, {e("scheu")})
  <2>1. /\ "rfu" \notin Sharers \cup {"Core"} /\ "rfu" # "exu"
        /\ "scheu" \notin Sharers \cup {"Core"} /\ "scheu" # "exu"
    BY DEF Sharers
  <2> QED BY <2>1, TidySub
<1>4. EXECU_energy(c, pass) = s1 \o s2 \o s3 \o s4 \o s5 \o s6 \o s7 \o s8
  BY DEF EXECU_energy
<1>5. /\ \A l \in R1 : l[2] \in {"IRF", "FRF", "RFWIN"}
      /\ \A l \in R2 : l[2] \in {"int_inst_window", "fp_inst_window", "ROB"}
  BY DEF RegFU_display, SchedulerU_display, Lines
<1>6. EXECU_display(c, 4)
        = {e("rfu"), e("scheu"), e("exeu"), e("bypass")} \cup R4 \cup R5
            \cup R1 \cup R2
  BY DEF EXECU_display, Lines
<1>7. R4 \subseteq {e("fp_u")} /\ R5 \subseteq {e("mul")} OBVIOUS
<1> HIDE DEF s1, s2, s3, t4, t5, s6, s7, s8, R1, R2, p5, p6
<1>8. /\ Tidy(s4, pass, {"fp_u", "exu"}, R4)
      /\ Tidy(s5, pass, {"mul", "exu"}, R5)
  BY <1>2, TidyOnly
<1> HIDE DEF s4, s5, R4, R5
<1>9. Tidy(s1 \o s2, pass, W, R1 \cup R2) BY <1>1, <1>5, TidyThen
<1>10. Tidy(s1 \o s2 \o s3, pass, W, R1 \cup R2 \cup {e("exeu")})
  BY <1>2, <1>5, <1>9, TidyThen
<1>11. Tidy(s1 \o s2 \o s3 \o s4, pass, W, R1 \cup R2 \cup {e("exeu")} \cup R4)
  BY <1>5, <1>8, <1>10, TidyThen
<1>12. Tidy(s1 \o s2 \o s3 \o s4 \o s5, pass, W,
            R1 \cup R2 \cup {e("exeu")} \cup R4 \cup R5)
  BY <1>5, <1>7, <1>8, <1>11, TidyThen
<1>13. Tidy(s1 \o s2 \o s3 \o s4 \o s5 \o s6, pass, W,
            R1 \cup R2 \cup {e("exeu"), e("bypass")} \cup R4 \cup R5)
  BY <1>2, <1>5, <1>7, <1>12, TidyThen
<1>14. Tidy(s1 \o s2 \o s3 \o s4 \o s5 \o s6 \o s7, pass, W,
            R1 \cup R2 \cup {e("exeu"), e("bypass"), e("rfu")} \cup R4 \cup R5)
  BY <1>3, <1>5, <1>7, <1>13, TidyThen
<1>15. Tidy(s1 \o s2 \o s3 \o s4 \o s5 \o s6 \o s7 \o s8, pass, W,
            R1 \cup R2 \cup {e("exeu"), e("bypass"), e("rfu"), e("scheu")}
              \cup R4 \cup R5)
  BY <1>3, <1>5, <1>7, <1>14, TidyThen
<1> QED BY <1>4, <1>6, <1>15

\* SharedCache.
LEMMA SharedCacheTidy ==
    ASSUME NEW c, NEW level, NEW unit, NEW pass
    PROVE  Tidy(SharedCache_energy(c, level, unit, pass), pass,
                {"unicache", unit}, {<<unit, "unicache">>})
<1> DEFINE dyn == unicache_dyn(c, level) \cup unicache_unmasked(c, level, pass)
           lkg == {"unicache.caches", "unicache.apcaches"} \cup UniBuffers(c, level)
           s0 == SharedCache_stats(c, level, pass)
           s1 == Part(pass, "unicache", unit, dyn, lkg, "power")
<1>1. dyn # {}
  <2>1. <<"unicache.caches", "unicache.caches">> \in unicache_dyn(c, level)
    BY DEF unicache_dyn
  <2> QED BY <2>1
<1>2. SharedCache_energy(c, level, unit, pass) = s0 \o s1 BY DEF SharedCache_energy
<1>3. Tidy(s0, pass, {}, {}) BY TidyStats DEF SharedCache_stats
<1> HIDE DEF dyn, lkg
<1>4. Tidy(s1, pass, {"unicache", unit}, {<<unit, "unicache">>})
  BY <1>1, TidyAdded
<1> HIDE DEF s0, s1
<1>5. Tidy(s0 \o s1, pass, {"unicache", unit}, {<<unit, "unicache">>})
  BY <1>3, <1>4, TidyThen
<1> QED BY <1>2, <1>5

\* What the units of a core print below their own line.
LEMMA KidsOf ==
    ASSUME NEW c, NEW l
    PROVE  /\ l \in InstFetchU_display(c, 4) =>
                l[2] \in {"icache", "IB", "ID", "BTB", "BPT", "RAS"} \cup Tables
           /\ l \in LoadStoreU_display(c) => l[2] \in {"dcache", "LSQ", "LoadQ"}
           /\ l \in MemManU_display => l[2] \in {"itlb", "dtlb"}
           /\ l \in EXECU_display(c, 4) =>
                l[2] \in {"rfu", "IRF", "FRF", "RFWIN", "scheu", "int_inst_window",
                          "fp_inst_window", "ROB", "exeu", "fp_u", "mul", "bypass"}
           /\ l \in RENAMINGU_display(c) =>
                l[2] \in {"iFRAT", "fFRAT", "iRRAT", "fRRAT", "ifreeL", "ffreeL"}
<1>1. l \in BranchPredictor_display => l[2] \in Tables \cup {"RAS"}
  BY DEF BranchPredictor_display, Lines
<1>2. l \in InstFetchU_display(c, 4) =>
        l[2] \in {"icache", "IB", "ID", "BTB", "BPT", "RAS"} \cup Tables
  BY <1>1 DEF InstFetchU_display, Lines
<1>3. /\ l \in LoadStoreU_display(c) => l[2] \in {"dcache", "LSQ", "LoadQ"}
      /\ l \in MemManU_display => l[2] \in {"itlb", "dtlb"}
  BY DEF LoadStoreU_display, MemManU_display, Lines
<1>4. /\ l \in RegFU_display(c) => l[2] \in {"IRF", "FRF", "RFWIN"}
      /\ l \in SchedulerU_display(c) =>
           l[2] \in {"int_inst_window", "fp_inst_window", "ROB"}
  BY DEF RegFU_display, SchedulerU_display, Lines
<1>5. l \in EXECU_display(c, 4) =>
        l[2] \in {"rfu", "IRF", "FRF", "RFWIN", "scheu", "int_inst_window",
                  "fp_inst_window", "ROB", "exeu", "fp_u", "mul", "bypass"}
  BY <1>4 DEF EXECU_display, Lines
<1>6. l \in RENAMINGU_display(c) =>
        l[2] \in {"iFRAT", "fFRAT", "iRRAT", "fRRAT", "ifreeL", "ffreeL"}
  BY DEF RENAMINGU_display, Lines
<1> QED BY <1>2, <1>3, <1>5, <1>6

\* A core.
LEMMA CoreTidy ==
    ASSUME NEW c, c.OOO \in BOOLEAN, c.root = "Core", NEW pass
    PROVE  \E W : Tidy(Core_energy(c, pass), pass, W, PassLines(c))
<1> DEFINE k(x) == <<"Core", x>>
           bp == {<<"BPT", "L2_localBPT">>}
           p5 == c.OOO
           p11 == c.Private_L2
           s1 == InstFetchU_energy(c, pass)
           s2 == LoadStoreU_energy(c, pass)
           s3 == MemManU_energy(pass)
           s4 == EXECU_energy(c, pass)
           t5 == RENAMINGU_energy(c, pass)
           u5 == Share(pass, "rnu")
           v5 == t5 \o u5
           s5 == Only(p5, v5)
           s6 == Share(pass, "ifu")
           s7 == Share(pass, "lsu")
           s8 == Share(pass, "exu")
           s9 == Share(pass, "mmu")
           dyn == {}
           s10 == Part(pass, "undiffCore", "Core", dyn, {"undiffCore"}, "power")
           t11 == SharedCache_energy(c, "L2", "l2cache", pass)
           u11 == Sub(pass, "l2cache", "Core")
           v11 == t11 \o u11
           s11 == Only(p11, v11)
           W1 == {"ifu", "icache", "IB", "ID", "BTB", "BPT", "RAS"} \cup Tables
           W2 == {"lsu", "dcache", "LSQ", "LoadQ"}
           W3 == {"mmu", "itlb", "dtlb"}
           W4 == {"exu", "rfu", "IRF", "FRF", "RFWIN", "scheu", "int_inst_window",
                  "fp_inst_window", "ROB", "exeu", "fp_u", "mul", "bypass"}
           T5 == {"rnu", "iFRAT", "fFRAT", "iRRAT", "fRRAT", "ifreeL", "ffreeL"}
           W5 == T5 \cup {"rnu", "Core"}
           W11 == {"unicache", "l2cache", "Core"}
           R1 == InstFetchU_display(c, 4) \ bp
           R2 == LoadStoreU_display(c)
           R3 == MemManU_display
           R4 == EXECU_display(c, 4)
           Q5 == RENAMINGU_display(c)
           R5 == IF p5 THEN Q5 \cup {k("rnu")} ELSE {}
           Q11 == {<<"l2cache", "unicache">>, k("l2cache")}
           R11 == IF p11 THEN Q11 ELSE {}
           R6 == R1 \cup R2 \cup R3 \cup R4 \cup R5
           R == R6 \cup {k("ifu"), k("lsu"), k("exu"), k("mmu")} \cup R11
<1>1. Tables = {"globalBPT", "L1_localBPT", "L2_localBPT", "chooser"}
  BY DEF Tables
<1>2. /\ Tidy(s1, pass, W1, R1) /\ Tidy(s2, pass, W2, R2) /\ Tidy(s3, pass, W3, R3)
      /\ Tidy(s4, pass, W4, R4) /\ Tidy(t5, pass, T5, Q5)
  <2>1. Tidy(s1, pass, W1, R1) BY InstFetchUTidy
  <2>2. Tidy(s2, pass, W2, R2) BY LoadStoreUTidy
  <2>3. Tidy(s3, pass, W3, R3) BY MemManUTidy
  <2>4. Tidy(s4, pass, W4, R4) BY EXECUTidy
  <2>5. Tidy(t5, pass, T5, Q5) BY RENAMINGUTidy
  <2> HIDE DEF s1, s2, s3, s4, t5, R1, R2, R3, R4, Q5
  <2> QED BY <2>1, <2>2, <2>3, <2>4, <2>5
<1>3. /\ Tidy(u5, pass, {"rnu", "Core"}, {k("rnu")})
      /\ Tidy(s6, pass, {"ifu", "Core"}, {k("ifu")})
      /\ Tidy(s7, pass, {"lsu", "Core"}, {k("lsu")})
      /\ Tidy(s8, pass, {"exu", "Core"}, {k("exu")})
      /\ Tidy(s9, pass, {"mmu", "Core"}, {k("mmu")})
  BY TidyShare
<1>4. Tidy(s10, pass, {"undiffCore", "Core"}, {})
  <2>1. Tidy(s10, pass, {"undiffCore", "Core"},
             IF "power" \in {"power", "power_t"} /\ dyn # {}
             THEN {k("undiffCore")} ELSE {})
    BY TidyPart
  <2> QED BY <2>1
<1>5. Tidy(t11, pass, {"unicache", "l2cache"}, {<<"l2cache", "unicache">>})
  BY SharedCacheTidy
<1>6. Tidy(u11, pass, {"Core"}, {k("l2cache")})
  <2>1. "l2cache" \notin Sharers \cup {"Core"} /\ "l2cache" # "Core"
    BY DEF Sharers
  <2> QED BY <2>1, TidySub
<1>7. Core_energy(c, pass) = s1 \o s2 \o s3 \o s4 \o s5 \o s6 \o s7 \o s8
                               \o s9 \o s10 \o s11
  BY DEF Core_energy
<1>8. \A l \in bp : /\ l \notin R2 \cup R3 \cup R4 \cup Q5
                    /\ \A x : l # k(x)
                    /\ l # <<"l2cache", "unicache">>
  <2>1. \A l \in bp : l[1] = "BPT" /\ l[2] = "L2_localBPT" OBVIOUS
  <2>2. \A l \in bp : l \notin R2 \cup R3 \cup R4 \cup Q5 BY <2>1, KidsOf
  <2> QED BY <2>1, <2>2
<1>9. PassLines(c) = R
  <2> DEFINE D == InstFetchU_display(c, 4)
             core == {k("ifu"), k("lsu"), k("mmu"), k("exu")}
                       \cup (IF c.OOO THEN {k("rnu")} ELSE {})
                       \cup (IF c.Private_L2 THEN {k("l2cache")} ELSE {})
  <2>1. Core_display(c, 4) = core \cup D \cup R2 \cup R3 \cup R4
                               \cup (IF c.OOO THEN Q5 ELSE {})
    BY DEF Core_display, Lines
  <2>2. \A l \in bp : l \notin core BY <1>8
  <2> HIDE DEF D, R2, R3, R4, Q5
  <2>3. PassLines(c)
          = (Core_display(c, 4) \ bp)
              \cup (IF c.Private_L2 THEN {<<"l2cache", "unicache">>} ELSE {})
    BY DEF PassLines
  <2> HIDE DEF bp
  <2>4. Core_display(c, 4) \ bp = core \cup R1 \cup R2 \cup R3 \cup R4
                                    \cup (IF c.OOO THEN Q5 ELSE {})
    BY <1>8, <2>1, <2>2 DEF D
  <2> QED BY <2>3, <2>4
<1>10. /\ \A l \in R1 : l[2] \in {"icache", "IB", "ID", "BTB", "BPT", "RAS"} \cup Tables
       /\ \A l \in R2 : l[2] \in {"dcache", "LSQ", "LoadQ"}
       /\ \A l \in R3 : l[2] \in {"itlb", "dtlb"}
       /\ \A l \in R4 : l[2] \in W4 \ {"exu"}
       /\ \A l \in Q5 : l[2] \in T5 \ {"rnu"}
  BY KidsOf
<1> HIDE DEF s1, s2, s3, s4, t5, u5, s6, s7, s8, s9, s10, t11, u11, bp,
             R1, R2, R3, R4, Q5, p5, p11, dyn
<1>11. Tidy(v5, pass, W5, Q5 \cup {k("rnu")}) BY <1>2, <1>3, <1>10, TidyThen
<1>12. Tidy(v11, pass, W11, Q11) BY <1>5, <1>6, TidyThen
<1> HIDE DEF v5, v11
<1>13. Tidy(s5, pass, W5, R5) BY <1>11, TidyOnly
<1>14. Tidy(s11, pass, W11, R11) BY <1>12, TidyOnly
<1>15. \A l \in R5 : l[2] \in T5 BY <1>10
<1>16. \A l \in R6 : l[2] \notin {"ifu", "lsu", "exu", "mmu", "Core", "undiffCore",
                                  "unicache", "l2cache"}
  BY <1>1, <1>10, <1>15
<1> HIDE DEF s5, s11, R5
<1>17. Tidy(s1 \o s2, pass, W1 \cup W2, R1 \cup R2)
  BY <1>1, <1>2, <1>10, TidyThen
<1>18. Tidy(s1 \o s2 \o s3, pass, W1 \cup W2 \cup W3, R1 \cup R2 \cup R3)
  BY <1>1, <1>2, <1>10, <1>17, TidyThen
<1>19. Tidy(s1 \o s2 \o s3 \o s4, pass, W1 \cup W2 \cup W3 \cup W4,
            R1 \cup R2 \cup R3 \cup R4)
  BY <1>1, <1>2, <1>10, <1>18, TidyThen
<1> DEFINE W == W1 \cup W2 \cup W3 \cup W4 \cup W5
           X == W \cup {"Core", "undiffCore", "ifu", "lsu", "exu", "mmu"} \cup W11
<1>20. Tidy(s1 \o s2 \o s3 \o s4 \o s5, pass, W, R6)
  BY <1>1, <1>10, <1>13, <1>19, TidyThen
<1> HIDE DEF W1, W2, W3, W4, W5, R6, R11, W
<1>21. Tidy(s1 \o s2 \o s3 \o s4 \o s5 \o s6, pass, X, R6 \cup {k("ifu")})
  BY <1>3, <1>16, <1>20, TidyThen
<1>22. Tidy(s1 \o s2 \o s3 \o s4 \o s5 \o s6 \o s7, pass, X,
            R6 \cup {k("ifu"), k("lsu")})
  BY <1>3, <1>16, <1>21, TidyThen
<1>23. Tidy(s1 \o s2 \o s3 \o s4 \o s5 \o s6 \o s7 \o s8, pass, X,
            R6 \cup {k("ifu"), k("lsu"), k("exu")})
  BY <1>3, <1>16, <1>22, TidyThen
<1>24. Tidy(s1 \o s2 \o s3 \o s4 \o s5 \o s6 \o s7 \o s8 \o s9, pass, X,
            R6 \cup {k("ifu"), k("lsu"), k("exu"), k("mmu")})
  BY <1>3, <1>16, <1>23, TidyThen
<1>25. Tidy(s1 \o s2 \o s3 \o s4 \o s5 \o s6 \o s7 \o s8 \o s9 \o s10, pass, X,
            R6 \cup {k("ifu"), k("lsu"), k("exu"), k("mmu")})
  BY <1>4, <1>16, <1>24, TidyThen
<1>26. Tidy(s1 \o s2 \o s3 \o s4 \o s5 \o s6 \o s7 \o s8 \o s9 \o s10 \o s11,
            pass, X, R)
  BY <1>14, <1>16, <1>25, TidyThen
<1> QED BY <1>7, <1>9, <1>26

\* Any configuration.
LEMMA EnergyTidy ==
    ASSUME NEW c \in ConfigType, NEW pass
    PROVE  \E W : Tidy(computeEnergy(c, pass), pass, W, PassLines(c))
<1>1. c.OOO \in BOOLEAN BY DEF ConfigType
<1>2. CASE c.root = "Core" BY <1>1, <1>2, CoreTidy DEF computeEnergy
<1>3. CASE c.root # "Core"
  <2>1. Tidy(SharedCache_energy(c, c.root, c.root, pass), pass,
             {"unicache", c.root}, {<<c.root, "unicache">>})
    BY SharedCacheTidy
  <2> QED BY <1>3, <2>1 DEF computeEnergy, PassLines
<1> QED BY <1>2, <1>3

\* One more statement.
LEMMA LinesOfNext ==
    ASSUME NEW s, NEW n \in Nat \ {0}, NEW pass
    PROVE  LinesOf(s, n, pass) = LinesOf(s, n - 1, pass)
             \cup (IF s[n].pass = pass THEN Lent(s[n]) ELSE {})
<1>1. \A j : j \in 1 .. n <=> j \in 1 .. n - 1 \/ j = n OBVIOUS
<1> QED BY <1>1 DEF LinesOf

\* Both passes: each adds up all its lines in order.
LEMMA EnergyLines ==
    ASSUME NEW c \in Configs
    PROVE  /\ \A k \in 1 .. Len(Energy[c]) : Proper(Energy[c][k])
           /\ \A i, j \in 1 .. Len(Energy[c]) :
                i < j /\ Energy[c][i].pass = Energy[c][j].pass =>
                  InOrder(Energy[c], i, j)
           /\ \A pass \in {"tdp", "rtp"} :
                LinesOf(Energy[c], Len(Energy[c]), pass) = PassLines(c)
<1> DEFINE s == computeEnergy(c, "tdp")
           t == computeEnergy(c, "rtp")
           u == s \o t
           m == Len(s)
           n == Len(t)
           R == PassLines(c)
<1>1. c \in ConfigType BY ConfigsAssumption
<1>2. Energy[c] = u
  <2>1. Passes[1] = "tdp" /\ Passes[2] = "rtp" BY DEF Passes
  <2> QED BY <2>1 DEF Energy
<1>3. PICK W : Tidy(s, "tdp", W, R) BY <1>1, EnergyTidy
<1>4. PICK V : Tidy(t, "rtp", V, R) BY <1>1, EnergyTidy
<1> HIDE DEF R
<1>5. /\ m \in Nat /\ n \in Nat /\ Len(u) = m + n
      /\ \A k \in 1 .. m : u[k] = s[k]
      /\ \A k \in 1 .. n : u[m + k] = t[k]
  <2>1. IsSeq(s) /\ IsSeq(t) BY <1>3, <1>4 DEF Tidy
  <2> HIDE DEF s, t
  <2> QED BY <2>1, SeqConcat
<1>6. /\ \A k \in 1 .. m : /\ s[k].pass = "tdp" /\ Proper(s[k])
                           /\ Lent(s[k]) \subseteq R
      /\ \A l \in R : \E k \in 1 .. m : l \in Lent(s[k])
      /\ \A i, j \in 1 .. m : i < j => InOrder(s, i, j)
  BY <1>3 DEF Tidy
<1>7. /\ \A k \in 1 .. n : /\ t[k].pass = "rtp" /\ Proper(t[k])
                           /\ Lent(t[k]) \subseteq R
      /\ \A l \in R : \E k \in 1 .. n : l \in Lent(t[k])
      /\ \A i, j \in 1 .. n : i < j => InOrder(t, i, j)
  BY <1>4 DEF Tidy
<1> HIDE DEF s, t, u, m, n
<1>8. ASSUME NEW k \in 1 .. m + n
      PROVE  \/ k \in 1 .. m /\ u[k] = s[k]
             \/ k - m \in 1 .. n /\ u[k] = t[k - m] /\ k \notin 1 .. m
  <2>1. CASE k \in 1 .. m BY <1>5, <2>1
  <2>2. CASE k \notin 1 .. m
    <3>1. k - m \in 1 .. n /\ k = m + (k - m) BY <1>5, <2>2
    <3> QED BY <1>5, <2>2, <3>1
  <2> QED BY <2>1, <2>2
<1>9. ASSUME NEW k \in 1 .. m + n PROVE Proper(u[k]) BY <1>6, <1>7, <1>8
<1>10. ASSUME NEW i \in 1 .. m + n, NEW j \in 1 .. m + n, i < j,
              u[i].pass = u[j].pass
       PROVE  InOrder(u, i, j)
  <2>1. CASE i \in 1 .. m /\ j \in 1 .. m
    <3>1. u[i] = s[i] /\ u[j] = s[j] /\ InOrder(s, i, j)
      BY <1>5, <1>6, <1>10, <2>1
    <3> QED BY <3>1 DEF InOrder
  <2>2. CASE i \notin 1 .. m /\ j \notin 1 .. m
    <3>1. /\ i - m \in 1 .. n /\ u[i] = t[i - m]
          /\ j - m \in 1 .. n /\ u[j] = t[j - m]
      BY <1>8, <2>2
    <3>2. i - m < j - m BY <1>5, <1>10
    <3>3. InOrder(t, i - m, j - m) BY <1>7, <3>1, <3>2
    <3> QED BY <3>1, <3>3 DEF InOrder
  <2>3. CASE i \in 1 .. m /\ j \notin 1 .. m
    <3>1. u[i].pass = "tdp" BY <1>5, <1>6, <2>3
    <3>2. u[j].pass = "rtp" BY <1>7, <1>8, <2>3
    <3> QED BY <1>10, <3>1, <3>2
  <2>4. CASE i \notin 1 .. m /\ j \in 1 .. m BY <1>5, <1>10, <2>4
  <2> QED BY <2>1, <2>2, <2>3, <2>4
<1>11. ASSUME NEW pass \in {"tdp", "rtp"}
       PROVE  LinesOf(u, m + n, pass) = R
  <2>1. ASSUME NEW l \in LinesOf(u, m + n, pass) PROVE l \in R
    <3>1. PICK k \in 1 .. m + n : l \in Lent(u[k]) BY <2>1 DEF LinesOf
    <3> QED BY <1>6, <1>7, <1>8, <3>1
  <2>2. ASSUME NEW l \in R PROVE l \in LinesOf(u, m + n, pass)
    <3>1. CASE pass = "tdp"
      <4>1. PICK k \in 1 .. m : l \in Lent(s[k]) BY <1>6, <2>2
      <4>2. k \in 1 .. m + n /\ u[k] = s[k] /\ u[k].pass = "tdp" BY <1>5, <1>6
      <4> QED BY <3>1, <4>1, <4>2 DEF LinesOf
    <3>2. CASE pass = "rtp"
      <4>1. PICK k \in 1 .. n : l \in Lent(t[k]) BY <1>7, <2>2
      <4> DEFINE i == m + k
      <4>2. i \in 1 .. m + n /\ u[i] = t[k] /\ u[i].pass = "rtp" BY <1>5, <1>7
      <4> HIDE DEF i
      <4> QED BY <3>2, <4>1, <4>2 DEF LinesOf
    <3> QED BY <3>1, <3>2
  <2> QED BY <2>1, <2>2
<1> QED BY <1>2, <1>5, <1>9, <1>10, <1>11 DEF R

-----------------------------------------------------------------------------
(* What a statement does to the terms of the sums. *)

\* A dynamic term of a sum is there once and its key is in the book; of the
\* pipeline there are as many shares as the book has.
LEMMA OnceTerms ==
    ASSUME NEW c, NEW pass, NEW bag, NEW K, Once(c, pass, bag, K),
           NEW t \in DOMAIN bag, t[2] # "leakage"
    PROVE  /\ t[1] # "corepipe" => bag[t] = 1 /\ <<t[1], t[2]>> \in K
           /\ t[1] = "corepipe" => /\ t = <<"corepipe", "share", pass>>
                                   /\ bag[t] = SharesIn(K)
<1> DEFINE p == t[1]
           w == t[2]
           src == t[3]
<1>1. bag[t] \in Nat \ {0} /\ t = <<p, w, src>> BY DEF Once
<1> HIDE DEF p, w, src
<1>2. <<p, w>> # <<"instruction_selection", "leakage">> BY DEF w
<1>3. Copies(<<p, w, src>>, bag) = Times(c, pass, K, p, w, src)
  BY <1>2 DEF Once
<1>4. Copies(t, bag) = bag[t] BY DEF Copies, BagIn, BagToSet
<1>5. bag[t] = Times(c, pass, K, p, w, src) /\ bag[t] # 0 BY <1>1, <1>3, <1>4
<1>6. CASE p = "corepipe"
  <2>1. w = "share" /\ src = pass /\ bag[t] = SharesIn(K)
    BY <1>5, <1>6 DEF Times
  <2> QED BY <1>1, <1>6, <2>1 DEF p
<1>7. CASE p # "corepipe"
  <2>1. bag[t] = In(<<p, w>>, K) BY <1>5, <1>7 DEF Times
  <2>2. bag[t] = 1 /\ <<p, w>> \in K BY <1>5, <2>1 DEF In
  <2> QED BY <1>7, <2>2 DEF p, w
<1> QED BY <1>6, <1>7

\* The dynamic terms of two powers.
LEMMA DynOfSum ==
    ASSUME NEW a, NEW b
    PROVE  DynTerms(a (+) b) = DynTerms(a) \cup DynTerms(b)
<1> DEFINE d == a (+) b
<1>1. DOMAIN d = DOMAIN a \cup DOMAIN b BY DEF (+)
<1> HIDE DEF d
<1>2. DynTerms(d) = DynTerms(a) \cup DynTerms(b) BY <1>1 DEF DynTerms
<1> QED BY <1>2 DEF d

\* Of powers whose keys differ.
LEMMA DynApart ==
    ASSUME NEW c, NEW pass, NEW a, NEW K, Once(c, pass, a, K),
           NEW b, NEW L, Once(c, pass, b, L), K \cap L = {}
    PROVE  DynTerms(a) \cap DynTerms(b) = {}
<1>1. ASSUME NEW t \in DynTerms(a), t \in DynTerms(b) PROVE FALSE
  <2>1. t \in DOMAIN a /\ t \in DOMAIN b /\ t[2] # "leakage" /\ t[1] # "corepipe"
    BY <1>1 DEF DynTerms
  <2>2. <<t[1], t[2]>> \in K BY <2>1, OnceTerms
  <2>3. <<t[1], t[2]>> \in L BY <2>1, OnceTerms
  <2> QED BY <2>2, <2>3
<1> QED BY <1>1

\* Power n and its sum u are set: the terms A are added to the sum, by the
\* lines L.
LEMMA ItemisedAdd ==
    ASSUME NEW w, NEW m, NEW pass, NEW R, Itemised(w, m, pass, R),
           NEW w2, NEW m2, NEW u \in SumNames, NEW n, NEW L, NEW A, n # u,
           \A x : x # n /\ x # u => PowerIn(w2, pass, x) = PowerIn(w, pass, x),
           n \notin SumNames => Unshared(PowerIn(w2, pass, n)),
           \A l \in R : l[2] # u,
           \/ \A l \in R : l[2] # n
           \/ DynTerms(PowerIn(w2, pass, n)) = DynTerms(PowerIn(w, pass, n)),
           n \in SumNames =>
             DynTerms(PowerIn(w2, pass, n)) = DynTerms(PowerIn(w, pass, n)),
           DynTerms(PowerIn(w2, pass, u)) = DynTerms(PowerIn(w, pass, u)) \cup A,
           DynTerms(PowerIn(w, pass, u)) \cap A = {},
           \/ L = {} /\ A = {}
           \/ L = {<<u, n>>} /\ A = DynTerms(PowerIn(w2, pass, n)),
           PipeRight(m2, pass, R \cup L)
    PROVE  Itemised(w2, m2, pass, R \cup L)
<1> DEFINE D(x) == DynTerms(PowerIn(w, pass, x))
           E(x) == DynTerms(PowerIn(w2, pass, x))
           kids(x) == {k \in R : k[1] = x}
           kids2(x) == {k \in R \cup L : k[1] = x}
<1>1. \A x : x # n /\ x # u => E(x) = D(x) OBVIOUS
<1>2. \A l \in R : E(l[2]) = D(l[2]) BY <1>1
<1>3. /\ \A x \in SumNames : D(x) = UNION {D(l[2]) : l \in kids(x)}
      /\ \A l, k \in R : l[1] = k[1] /\ l[2] # k[2] => D(l[2]) \cap D(k[2]) = {}
      /\ \A x : x \notin SumNames => Unshared(PowerIn(w, pass, x))
  BY DEF Itemised
<1>4. \A l \in L : l[1] = u /\ l[2] = n /\ A = E(n) OBVIOUS
<1>5. L = {} => A = {} OBVIOUS
<1>6. L # {} => \E l \in L : l[1] = u /\ l[2] = n OBVIOUS
<1>7. E(u) = D(u) \cup A /\ D(u) \cap A = {} OBVIOUS
<1>8. \A x \in SumNames : x # u => E(x) = D(x) BY <1>1
<1> HIDE DEF D, E
<1>9. ASSUME NEW x \in SumNames
      PROVE  E(x) = UNION {E(l[2]) : l \in kids2(x)}
  <2>1. UNION {E(l[2]) : l \in kids(x)} = D(x)
    BY <1>2, <1>3
  <2>2. CASE x # u
    <3>1. kids2(x) = kids(x) BY <1>4, <2>2
    <3> QED BY <1>8, <2>1, <2>2, <3>1
  <2>3. CASE x = u
    <3>1. ASSUME NEW t
          PROVE  t \in UNION {E(l[2]) : l \in kids2(x)} <=> t \in D(x) \cup A
      <4>1. kids2(x) = kids(x) \cup L BY <1>4, <2>3
      <4>2. (\E l \in L : t \in E(l[2])) <=> t \in A BY <1>4, <1>5, <1>6
      <4>3. (\E l \in kids(x) : t \in E(l[2])) <=> t \in D(x) BY <2>1
      <4> HIDE DEF kids, kids2
      <4>4. (\E l \in kids2(x) : t \in E(l[2]))
              <=> (\E l \in kids(x) : t \in E(l[2])) \/ (\E l \in L : t \in E(l[2]))
        BY <4>1
      <4> QED BY <4>2, <4>3, <4>4
    <3> QED BY <1>7, <2>3, <3>1
  <2> QED BY <2>2, <2>3
<1>10. ASSUME NEW l \in R \cup L, NEW k \in R \cup L, l[1] = k[1], l[2] # k[2]
       PROVE  E(l[2]) \cap E(k[2]) = {}
  <2>1. ASSUME NEW x \in R, NEW y \in L, x[1] = y[1]
        PROVE  E(x[2]) \cap E(y[2]) = {}
    <3>1. y[1] = u /\ E(y[2]) = A BY <1>4
    <3>2. D(x[2]) \subseteq D(u) BY <1>3, <2>1, <3>1
    <3> QED BY <1>2, <1>7, <3>1, <3>2
  <2>2. CASE l \in R /\ k \in R BY <1>2, <1>3, <1>10, <2>2
  <2>3. CASE l \in R /\ k \in L BY <1>10, <2>1, <2>3
  <2>4. CASE l \in L /\ k \in R BY <1>10, <2>1, <2>4
  <2>5. CASE l \in L /\ k \in L BY <1>4, <1>10, <2>5
  <2> QED BY <2>2, <2>3, <2>4, <2>5
<1>11. ASSUME NEW x, x \notin SumNames PROVE Unshared(PowerIn(w2, pass, x))
  BY <1>3, <1>11
<1>12. /\ \A x \in SumNames :
            DynTerms(PowerIn(w2, pass, x))
              = UNION {DynTerms(PowerIn(w2, pass, l[2])) :
                         l \in {k \in R \cup L : k[1] = x}}
       /\ \A l, k \in R \cup L : l[1] = k[1] /\ l[2] # k[2] =>
            DynTerms(PowerIn(w2, pass, l[2]))
              \cap DynTerms(PowerIn(w2, pass, k[2])) = {}
  BY <1>9, <1>10 DEF E
<1> QED BY <1>11, <1>12 DEF Itemised

\* The shares of the pipeline after a statement.
LEMMA PipeStep ==
    ASSUME NEW c, NEW st, NEW a, NEW b, IsBook(a), Charges(c, st, a, b),
           Proper(st), NEW pass, pass = st.pass, NEW R, PipeRight(a, pass, R),
           NEW Q, Q = R \cup Lent(st)
    PROVE  PipeRight(b, pass, Q)
<1>0. ASSUME NEW l PROVE l \in Q <=> l \in R \/ l \in Lent(st) OBVIOUS
<1>1. \A u : u \in SumNames => <<pass, u>> \in Accounts
  BY DEF Charges, Accounts
<1>2. Sharers \subseteq SumNames /\ "Core" \in SumNames /\ "exu" \in SumNames
      /\ "Core" \notin Sharers
  BY DEF Sharers, SumNames
<1>3. \A v : PipeKey(v)[1] = "corepipe" /\ PipeKey(v)[2] = v BY DEF PipeKey
<1>4. ASSUME NEW n \in SumNames, NEW K, b = Paid(a, <<pass, n>>, K),
             \A v : PipeKey(v) \notin K,
             \A v \in Sharers : <<"Core", v>> \notin Lent(st)
      PROVE  PipeRight(b, pass, Q)
  <2> DEFINE x == <<pass, n>>
  <2>1. x \in Accounts BY <1>1
  <2>2. b[x] = a[x] \cup K /\ \A y \in Accounts : y # x => b[y] = a[y]
    BY <1>4, <2>1, PaidBook
  <2> HIDE DEF x
  <2>3. ASSUME NEW v \in Sharers, NEW u \in SumNames
        PROVE  PipeKey(v) \in b[<<pass, u>>] <=> PipeKey(v) \in a[<<pass, u>>]
    BY <1>1, <1>4, <2>2
  <2> QED BY <1>0, <1>4, <2>3, Zenon DEF PipeRight
<1>5. CASE st.op = "stats"
  <2>1. b = a /\ Lent(st) = {} BY <1>5 DEF Charges, Lent
  <2>2. Q = R BY <2>1
  <2> QED BY <2>1, <2>2
<1>6. CASE st.op = "part"
  <2> DEFINE K == AddedKeys(st.dyn, st.lkg, st.adds)
  <2>1. /\ st.name \notin SumNames /\ st.into \in SumNames
        /\ \A d \in st.dyn : d[1] # "corepipe"
        /\ "corepipe" \notin st.lkg
        /\ b = Paid(a, <<pass, st.into>>, K)
    BY <1>6 DEF Charges
  <2>2. ASSUME NEW v PROVE PipeKey(v) \notin K
    <3>1. K \subseteq st.dyn \cup LeakKeys(st.lkg) BY DEF AddedKeys, AllKeys
    <3>2. ASSUME NEW k \in LeakKeys(st.lkg) PROVE k[1] \in st.lkg
      BY DEF LeakKeys
    <3> QED BY <1>3, <2>1, <3>1, <3>2
  <2>3. ASSUME NEW v \in Sharers PROVE <<"Core", v>> \notin Lent(st)
    BY <1>2, <1>6, <2>1 DEF Lent
  <2> HIDE DEF K
  <2> QED BY <1>4, <2>1, <2>2, <2>3
<1>7. CASE st.op = "sub"
  <2> DEFINE K == a[<<pass, st.name>>]
  <2>1. /\ st.name \in SumNames /\ st.into \in SumNames
        /\ b = Paid(a, <<pass, st.into>>, K)
    BY <1>7 DEF Charges
  <2>2. st.name \notin Sharers \cup {"Core"} BY <1>7 DEF Proper
  <2>3. ASSUME NEW v \in Sharers PROVE <<"Core", v>> \notin Lent(st)
    BY <1>7, <2>2 DEF Lent
  <2>4. ASSUME NEW v \in Sharers, NEW u \in SumNames
        PROVE  PipeKey(v) \in b[<<pass, u>>] <=> PipeKey(v) \in a[<<pass, u>>]
    <3> DEFINE x == <<pass, st.into>>
    <3>1. x \in Accounts BY <1>1, <2>1
    <3>2. b[x] = a[x] \cup K /\ \A y \in Accounts : y # x => b[y] = a[y]
      BY <2>1, <3>1, PaidBook
    <3>3. st.name # v /\ st.name # "Core" BY <2>2
    <3>4. PipeKey(v) \notin K BY <2>1, <3>3 DEF PipeRight
    <3> HIDE DEF x, K
    <3> QED BY <1>1, <3>2, <3>4
  <2> QED BY <1>0, <2>3, <2>4, Zenon DEF PipeRight
<1>8. CASE st.op = "share"
  <2> DEFINE n == st.name
             x == <<pass, n>>
             y == <<pass, "Core">>
             K == a[x] \cup {PipeKey(n)}
  <2>1. /\ n \in Sharers /\ PipeKey(n) \notin a[x]
        /\ b = Paid(Paid(a, x, K), y, K)
    BY <1>8 DEF Charges
  <2>2. x \in Accounts /\ y \in Accounts /\ x # y BY <1>1, <1>2, <2>1
  <2>3. /\ b[x] = a[x] \cup K /\ b[y] = a[y] \cup K
        /\ \A z \in Accounts : z # x /\ z # y => b[z] = a[z]
    <3> HIDE DEF x, y, K
    <3> QED BY <2>1, <2>2, PaidTwice
  <2>4. Lent(st) = {<<"Core", n>>} BY <1>8 DEF Lent
  <2>5. <<"Core", n>> \notin R BY <1>2, <2>1 DEF PipeRight
  <2>6. ASSUME NEW v \in Sharers
        PROVE  PipeKey(v) \in K <=> v = n
    <3>1. PipeKey(v) = PipeKey(n) <=> v = n BY <1>3
    <3>2. PipeKey(v) \notin a[x]
      <4>1. PipeKey(v) \in a[x] => <<"Core", v>> \in R /\ (n = v \/ n = "Core")
        BY <1>2, <2>1 DEF PipeRight
      <4> QED BY <1>2, <2>1, <2>5, <4>1
    <3> QED BY <3>1, <3>2
  <2> HIDE DEF K
  <2>7. ASSUME NEW v \in Sharers, NEW u \in SumNames
        PROVE  PipeKey(v) \in b[<<pass, u>>]
                 <=> <<"Core", v>> \in Q /\ (u = v \/ u = "Core")
    <3> DEFINE z == <<pass, u>>
    <3>1. /\ z \in Accounts
          /\ z = x <=> u = n
          /\ z = y <=> u = "Core"
      BY <1>1
    <3>2. PipeKey(v) \in a[z] <=> <<"Core", v>> \in R /\ (u = v \/ u = "Core")
      BY DEF PipeRight
    <3>3. <<"Core", v>> \in Lent(st) <=> v = n BY <2>4
    <3>4. PipeKey(v) \in b[z] <=> PipeKey(v) \in a[z] \/ (v = n /\ (u = n \/ u = "Core"))
      <4> HIDE DEF x, y, z
      <4>1. CASE z = x BY <2>3, <2>6, <3>1, <4>1
      <4>2. CASE z = y BY <2>3, <2>6, <3>1, <4>2
      <4>3. CASE z # x /\ z # y BY <2>3, <3>1, <4>3
      <4> QED BY <4>1, <4>2, <4>3
    <3> QED BY <1>0, <3>2, <3>3, <3>4
  <2> QED BY <2>7, Zenon DEF PipeRight
<1>9. CASE st.op = "fu"
  <2> DEFINE K == FuKeys(c, pass, st.name)
  <2>1. /\ st.name \notin SumNames \cup {"corepipe"}
        /\ b = Paid(a, <<pass, "exu">>, K)
    BY <1>9 DEF Charges
  <2>2. ASSUME NEW v PROVE PipeKey(v) \notin K
    <3>1. ASSUME NEW k \in K PROVE k[1] = st.name
      <4>1. PICK x : k = <<st.name, x>> BY <3>1 DEF FuKeys
      <4> QED BY <4>1
    <3> QED BY <1>3, <2>1, <3>1
  <2>3. ASSUME NEW v \in Sharers PROVE <<"Core", v>> \notin Lent(st)
    BY <1>9 DEF Lent
  <2> HIDE DEF K
  <2> QED BY <1>2, <1>4, <2>1, <2>2, <2>3
<1>10. st.op \in Ops
  BY DEF Charges, Ops
<1> QED BY <1>5, <1>6, <1>7, <1>8, <1>9, <1>10 DEF Ops

-----------------------------------------------------------------------------
(* Each statement keeps the breakdown. *)

\* A statement leaves the accounts of the other pass alone.
LEMMA ChargesElsewhere ==
    ASSUME NEW c, NEW st, NEW a, NEW b, IsBook(a), Charges(c, st, a, b),
           NEW x \in Accounts, x[1] # st.pass
    PROVE  b[x] = a[x]
<1> DEFINE pass == st.pass
<1>1. ASSUME NEW n PROVE <<pass, n>> # x OBVIOUS
<1>2. \A n : n \in SumNames => <<pass, n>> \in Accounts BY DEF Charges, Accounts
<1>3. Sharers \subseteq SumNames /\ "Core" \in SumNames /\ "exu" \in SumNames
      /\ "Core" \notin Sharers
  BY DEF Sharers, SumNames
<1>4. ASSUME NEW n \in SumNames, NEW K, b = Paid(a, <<pass, n>>, K)
      PROVE  b[x] = a[x]
  <2> DEFINE y == <<pass, n>>
  <2>1. y \in Accounts /\ y # x BY <1>1, <1>2
  <2> HIDE DEF y
  <2> QED BY <1>4, <2>1, PaidBook DEF y
<1>5. CASE st.op = "stats" BY <1>5 DEF Charges
<1>6. CASE st.op = "part"
  <2>1. /\ st.into \in SumNames
        /\ b = Paid(a, <<pass, st.into>>, AddedKeys(st.dyn, st.lkg, st.adds))
    BY <1>6 DEF Charges
  <2> QED BY <1>4, <2>1
<1>7. CASE st.op = "sub"
  <2>1. /\ st.into \in SumNames
        /\ b = Paid(a, <<pass, st.into>>, a[<<pass, st.name>>])
    BY <1>7 DEF Charges
  <2> QED BY <1>4, <2>1
<1>8. CASE st.op = "share"
  <2> DEFINE n == st.name
             u == <<pass, n>>
             v == <<pass, "Core">>
             K == a[u] \cup {PipeKey(n)}
  <2>1. n \in Sharers /\ b = Paid(Paid(a, u, K), v, K) BY <1>8 DEF Charges
  <2>2. u \in Accounts /\ v \in Accounts /\ u # v BY <1>2, <1>3, <2>1
  <2>3. x # u /\ x # v BY <1>1
  <2> HIDE DEF u, v, K
  <2> QED BY <2>1, <2>2, <2>3, PaidTwice
<1>9. CASE st.op = "fu"
  <2>1. b = Paid(a, <<pass, "exu">>, FuKeys(c, pass, st.name))
    BY <1>9 DEF Charges
  <2> QED BY <1>3, <1>4, <2>1
<1>10. st.op \in Ops BY DEF Charges, Ops
<1> QED BY <1>5, <1>6, <1>7, <1>8, <1>9, <1>10 DEF Ops

\* What is known of the statement to be executed.
LEMMA UponBill ==
    ASSUME Billing, phase = "compute"
    PROVE  LET R == LinesOf(Energy[cfg], epc - 1, estmt.pass)
               a == JournalOf(cfg)[epc - 1]
               b == JournalOf(cfg)[epc]
           IN  /\ estmt.pass \in {"tdp", "rtp"} /\ Proper(estmt)
               /\ \A l \in R : l[2] \notin Written(estmt)
               /\ IsBook(a) /\ Balanced(cfg, power, a)
               /\ Charges(cfg, estmt, a, b)
               /\ Itemised(power, a, estmt.pass, R)
               /\ PipeRight(b, estmt.pass, R \cup Lent(estmt))
<1> DEFINE E == Energy[cfg]
           R == LinesOf(E, epc - 1, estmt.pass)
           a == JournalOf(cfg)[epc - 1]
           b == JournalOf(cfg)[epc]
<1>1. Accounting BY DEF Billing
<1>2. /\ cfg \in Configs /\ epc \in 1 .. Len(E) /\ Len(E) \in Nat
      /\ estmt.pass \in {"tdp", "rtp"} /\ estmt = E[epc]
  BY <1>1, UponEstmt DEF Accounting, estmt
<1>3. Balanced(cfg, power, a) /\ Charges(cfg, estmt, a, b) BY <1>1, UponEntry
<1>4. IsBook(a) BY <1>3 DEF Balanced
<1>5. Itemised(power, a, estmt.pass, R) BY <1>2 DEF Billing
<1> HIDE DEF a, b
<1>6. /\ Proper(E[epc])
      /\ \A i, j \in 1 .. Len(E) : i < j /\ E[i].pass = E[j].pass => InOrder(E, i, j)
  BY <1>2, EnergyLines
<1> HIDE DEF E
<1>7. ASSUME NEW l \in R PROVE l[2] \notin Written(estmt)
  <2>1. PICK k \in 1 .. epc - 1 : E[k].pass = estmt.pass /\ l \in Lent(E[k])
    BY DEF LinesOf
  <2>2. k \in 1 .. Len(E) /\ k < epc BY <1>2
  <2>3. InOrder(E, k, epc) BY <1>2, <1>6, <2>1, <2>2
  <2> QED BY <1>2, <2>1, <2>3 DEF InOrder
<1> HIDE DEF R
<1>8. PipeRight(a, estmt.pass, R) BY <1>5 DEF Itemised
<1>9. PipeRight(b, estmt.pass, R \cup Lent(estmt))
  BY <1>2, <1>3, <1>4, <1>6, <1>8, PipeStep
<1> QED BY <1>2, <1>3, <1>4, <1>5, <1>6, <1>7, <1>9 DEF a, b, R, E

\* Powers and book of a pass are left alone.
LEMMA ItemisedSame ==
    ASSUME NEW w, NEW m, NEW pass, NEW R, Itemised(w, m, pass, R), NEW w2, NEW m2,
           \A n : PowerIn(w2, pass, n) = PowerIn(w, pass, n),
           \A u \in SumNames : m2[<<pass, u>>] = m[<<pass, u>>]
    PROVE  Itemised(w2, m2, pass, R)
<1>1. PipeRight(m2, pass, R) BY Zenon DEF Itemised, PipeRight
<1> QED BY <1>1 DEF Itemised

\* A statement that keeps the breakdown of its pass.
LEMMA BillStep ==
    ASSUME Billing, Accounting', phase = "compute", NextEnergy,
           \A q \in {"tdp", "rtp"} : q # estmt.pass =>
             \A n : PowerIn(power', q, n) = PowerIn(power, q, n),
           Itemised(power', JournalOf(cfg)[epc], estmt.pass,
                    LinesOf(Energy[cfg], epc - 1, estmt.pass) \cup Lent(estmt))
    PROVE  Billing'
<1> DEFINE E == Energy[cfg]
           J == JournalOf(cfg)
<1>1. /\ epc \in 1 .. Len(E) /\ Len(E) \in Nat /\ estmt = E[epc]
  BY UponEstmt DEF Billing, Accounting, estmt
<1>2. /\ cfg' = cfg /\ epc' = epc + 1
      /\ phase' = IF epc = Len(E) THEN "display" ELSE "compute"
  BY DEF NextEnergy, vars
<1>3. epc' - 1 = epc /\ epc \in Nat \ {0} BY <1>1, <1>2
<1>4. Energy[cfg'] = E /\ JournalOf(cfg') = J BY <1>2
<1>5. IsBook(J[epc - 1]) /\ Charges(cfg, estmt, J[epc - 1], J[epc])
  BY UponBill
<1>6. \A pass \in {"tdp", "rtp"} :
        Itemised(power, J[epc - 1], pass, LinesOf(E, epc - 1, pass))
  BY DEF Billing
<1>7. Itemised(power', J[epc], estmt.pass,
               LinesOf(E, epc - 1, estmt.pass) \cup Lent(estmt))
  OBVIOUS
<1> HIDE DEF E, J
<1>8. ASSUME NEW pass \in {"tdp", "rtp"}
      PROVE  Itemised(power', J[epc], pass, LinesOf(E, epc, pass))
  <2>1. LinesOf(E, epc, pass)
          = LinesOf(E, epc - 1, pass)
              \cup (IF estmt.pass = pass THEN Lent(estmt) ELSE {})
    BY <1>1, <1>3, LinesOfNext
  <2>2. CASE estmt.pass = pass BY <1>7, <2>1, <2>2
  <2>3. CASE estmt.pass # pass
    <3>1. LinesOf(E, epc, pass) = LinesOf(E, epc - 1, pass) BY <2>1, <2>3
    <3>2. \A u \in SumNames : J[epc][<<pass, u>>] = J[epc - 1][<<pass, u>>]
      <4>1. ASSUME NEW u \in SumNames
            PROVE  J[epc][<<pass, u>>] = J[epc - 1][<<pass, u>>]
        <5> DEFINE x == <<pass, u>>
        <5>1. x \in Accounts /\ x[1] # estmt.pass BY <2>3 DEF Accounts
        <5> HIDE DEF x
        <5>2. J[epc][x] = J[epc - 1][x] BY <1>5, <5>1, ChargesElsewhere
        <5> QED BY <5>2 DEF x
      <4> QED BY <4>1
    <3>3. Itemised(power', J[epc], pass, LinesOf(E, epc - 1, pass))
      BY <1>6, <2>3, <3>2, ItemisedSame
    <3> QED BY <3>1, <3>3
  <2> QED BY <2>2, <2>3
<1>9. \A pass \in {"tdp", "rtp"} :
        Itemised(power', JournalOf(cfg')[epc' - 1], pass,
                 LinesOf(Energy[cfg'], epc' - 1, pass))
  BY <1>3, <1>4, <1>8
<1>10. phase' # "destroy" BY <1>2
<1> QED BY <1>9, <1>10 DEF Billing

\* InitStats.
LEMMA InitStatsBill ==
    ASSUME Billing, InitStats
    PROVE  Billing'
<1> DEFINE R == LinesOf(Energy[cfg], epc - 1, estmt.pass)
           a == JournalOf(cfg)[epc - 1]
           b == JournalOf(cfg)[epc]
<1>1. phase = "compute" /\ estmt.op = "stats" /\ NextEnergy /\ power' = power
  BY DEF InitStats, EStep
<1>2. Accounting' BY InitStatsEntry DEF Billing
<1>3. Charges(cfg, estmt, a, b) /\ Itemised(power, a, estmt.pass, R)
  BY <1>1, UponBill
<1> HIDE DEF R, a, b
<1>4. b = a /\ Lent(estmt) = {} BY <1>1, <1>3 DEF Charges, Lent
<1>5. R \cup Lent(estmt) = R BY <1>4
<1>6. Itemised(power', b, estmt.pass, R \cup Lent(estmt)) BY <1>1, <1>3, <1>4, <1>5
<1> QED BY <1>1, <1>2, <1>6, BillStep DEF R, b

\* PartPower.
LEMMA PartPowerBill ==
    ASSUME Billing, PartPower
    PROVE  Billing'
<1> DEFINE pass == estmt.pass
           D == {<<d[1], d[2], Source(d[2])>> : d \in estmt.dyn}
           L == {<<p, "leakage", "none">> : p \in estmt.lkg}
           power_t == SetToBag(D)
           all == power_t (+) SetToBag(L)
           adds == CASE estmt.adds = "power"   -> all
                     [] estmt.adds = "power_t" -> power_t
                     [] OTHER                  -> EmptyBag
           q == estmt.name
           n == estmt.into
           old == PowerOf(pass, n)
           sum == old (+) adds
           K == AddedKeys(estmt.dyn, estmt.lkg, estmt.adds)
           R == LinesOf(Energy[cfg], epc - 1, pass)
           a == JournalOf(cfg)[epc - 1]
           b == JournalOf(cfg)[epc]
           A == DynTerms(adds)
           f == Entry(q, all) ++ Entry(n, sum)
<1>1. /\ phase = "compute" /\ estmt.op = "part" /\ NextEnergy
      /\ power' = [power EXCEPT ![pass] = f ++ @]
  BY DEF PartPower, EStep, SetPower
<1>2. Accounting' BY PartPowerEntry DEF Billing
<1>3. /\ pass \in {"tdp", "rtp"}
      /\ \A l \in R : l[2] \notin Written(estmt)
      /\ IsBook(a) /\ Balanced(cfg, power, a) /\ Charges(cfg, estmt, a, b)
      /\ Itemised(power, a, pass, R)
      /\ PipeRight(b, pass, R \cup Lent(estmt))
  BY <1>1, UponBill
<1> HIDE DEF R, a, b
<1>4. /\ q \notin SumNames /\ n \in SumNames
      /\ \A d \in estmt.dyn :
           d = <<d[1], d[2]>> /\ d[1] # "corepipe" /\ d[2] # "leakage"
      /\ "corepipe" \notin estmt.lkg
      /\ a[<<pass, n>>] \cap K = {}
  BY <1>1, <1>3 DEF Charges
<1>5. \A l \in R : l[2] # q /\ l[2] # n BY <1>1, <1>3 DEF Written
<1>6. Lent(estmt) = IF estmt.adds \in {"power", "power_t"} /\ estmt.dyn # {}
                    THEN {<<n, q>>} ELSE {}
  BY <1>1 DEF Lent
<1>7. /\ \A t \in D : t[2] # "leakage" /\ t[1] # "corepipe"
                      /\ <<t[1], t[2]>> \in estmt.dyn
      /\ \A t \in L : t[2] = "leakage" /\ t[1] # "corepipe"
      /\ estmt.dyn = {} => D = {}
  BY <1>4
<1>8. Once(cfg, pass, old, a[<<pass, n>>])
  <2>1. old = PowerIn(power, pass, n) BY DEF PowerOf, PowerIn
  <2> QED BY <1>3, <1>4, <2>1, OnceIn
<1>9. DOMAIN power = {"tdp", "rtp"} BY <1>3 DEF Balanced
<1>10. PowerIn(power, pass, n) = old BY DEF PowerOf, PowerIn
<1> HIDE DEF D, L, q, n, old, K, pass
<1>11. /\ DOMAIN power_t = D /\ \A t \in D : power_t[t] = 1
       /\ DOMAIN SetToBag(L) = L
  BY DEF SetToBag
<1>12. DOMAIN all = D \cup L /\ \A t \in D : all[t] = 1
  <2> DEFINE lkg == SetToBag(L)
  <2>1. D \cap L = {} BY <1>7
  <2>2. DOMAIN lkg = L BY <1>11
  <2> HIDE DEF lkg, power_t
  <2>3. \A t \in D : t \notin L BY <2>1
  <2> QED BY <1>11, <2>2, <2>3 DEF (+)
<1> HIDE DEF power_t, all
<1>13. DynTerms(power_t) = D /\ DynTerms(all) = D
  BY <1>7, <1>11, <1>12 DEF DynTerms
<1>14. Unshared(all) BY <1>7, <1>12 DEF Unshared
<1>15. DOMAIN EmptyBag = {} BY DEF EmptyBag, SetToBag
<1>16. /\ \/ Lent(estmt) = {} /\ A = {}
          \/ Lent(estmt) = {<<n, q>>} /\ A = D
       /\ \A t \in A : <<t[1], t[2]>> \in K
  <2>1. CASE estmt.adds \in {"power", "power_t"}
    <3>1. A = D BY <1>13, <2>1
    <3>2. estmt.dyn \subseteq K BY <2>1 DEF K, AddedKeys, AllKeys
    <3> QED BY <1>6, <1>7, <2>1, <3>1, <3>2
  <2>2. CASE estmt.adds \notin {"power", "power_t"}
    <3>1. adds = EmptyBag BY <2>2
    <3>2. A = {} BY <1>15, <3>1 DEF DynTerms
    <3> QED BY <1>6, <2>2, <3>2
  <2> QED BY <2>1, <2>2
<1> HIDE DEF adds
<1>17. DynTerms(sum) = DynTerms(old) \cup A BY DynOfSum
<1>18. DynTerms(old) \cap A = {}
  <2>1. ASSUME NEW t \in DynTerms(old), t \in A PROVE FALSE
    <3>1. <<t[1], t[2]>> \in K BY <1>16, <2>1
    <3>2. t \in DOMAIN old /\ t[2] # "leakage" /\ t[1] # "corepipe"
      BY DEF DynTerms
    <3>3. <<t[1], t[2]>> \in a[<<pass, n>>] BY <1>8, <3>2, OnceTerms
    <3> QED BY <1>4, <3>1, <3>3
  <2> QED BY <2>1
<1> HIDE DEF sum, A
<1>19. q # n BY <1>4
<1>20. /\ PowerIn(power', pass, q) = all /\ PowerIn(power', pass, n) = sum
       /\ \A x : x # q /\ x # n => PowerIn(power', pass, x) = PowerIn(power, pass, x)
       /\ \A p \in {"tdp", "rtp"} : p # pass =>
            \A x : PowerIn(power', p, x) = PowerIn(power, p, x)
  <2>1. f = Entry(q, all) ++ Entry(n, sum) OBVIOUS
  <2>2. power' = [power EXCEPT ![pass] = f ++ @] /\ pass \in {"tdp", "rtp"}
    BY <1>1, <1>3
  <2> HIDE DEF f
  <2>3. IsSet(power, pass, f, power') BY <1>9, <2>2, PowerSet
  <2>4. DOMAIN f = {q, n} /\ f[q] = all /\ f[n] = sum
    <3> DEFINE e == Entry(q, all)
               g == Entry(n, sum)
    <3>1. DOMAIN e = {q} /\ e[q] = all /\ DOMAIN g = {n} /\ g[n] = sum BY DEF Entry
    <3>2. f = e ++ g BY <2>1
    <3> HIDE DEF e, g
    <3> QED BY <1>19, <3>1, <3>2 DEF ++
  <2> QED BY <2>2, <2>3, <2>4 DEF IsSet
<1>21. Itemised(power', b, pass, R \cup Lent(estmt))
  <2> DEFINE T == Lent(estmt)
  <2>1. Unshared(PowerIn(power', pass, q)) BY <1>14, <1>20
  <2>2. DynTerms(PowerIn(power', pass, n)) = DynTerms(PowerIn(power, pass, n)) \cup A
    BY <1>10, <1>17, <1>20
  <2>3. DynTerms(PowerIn(power, pass, n)) \cap A = {} BY <1>10, <1>18
  <2>4. \/ T = {} /\ A = {}
        \/ T = {<<n, q>>} /\ A = DynTerms(PowerIn(power', pass, q))
    BY <1>13, <1>16, <1>20
  <2>5. PipeRight(b, pass, R \cup T) /\ Itemised(power, a, pass, R) BY <1>3
  <2>6. \A x : x # q /\ x # n => PowerIn(power', pass, x) = PowerIn(power, pass, x)
    BY <1>20
  <2> HIDE DEF T
  <2>7. q # n /\ q \notin SumNames /\ n \in SumNames /\ (\A l \in R : l[2] # q)
        /\ (\A l \in R : l[2] # n)
    BY <1>4, <1>5
  <2>8. Itemised(power', b, pass, R \cup T)
    BY <2>1, <2>2, <2>3, <2>4, <2>5, <2>6, <2>7, ItemisedAdd
  <2> QED BY <2>8 DEF T
<1> QED BY <1>1, <1>2, <1>20, <1>21, BillStep DEF pass, R, b

\* SubTotal.
LEMMA SubTotalBill ==
    ASSUME Billing, SubTotal
    PROVE  Billing'
<1> DEFINE pass == estmt.pass
           q == estmt.name
           n == estmt.into
           old == PowerOf(pass, n)
           own == PowerOf(pass, q)
           sum == old (+) own
           f == Entry(n, sum)
           R == LinesOf(Energy[cfg], epc - 1, pass)
           a == JournalOf(cfg)[epc - 1]
           b == JournalOf(cfg)[epc]
           A == DynTerms(own)
<1>1. /\ phase = "compute" /\ estmt.op = "sub" /\ NextEnergy
      /\ power' = [power EXCEPT ![pass] = f ++ @]
  BY DEF SubTotal, EStep, SetPower
<1>2. Accounting' BY SubTotalEntry DEF Billing
<1>3. /\ pass \in {"tdp", "rtp"} /\ Proper(estmt)
      /\ \A l \in R : l[2] \notin Written(estmt)
      /\ IsBook(a) /\ Balanced(cfg, power, a) /\ Charges(cfg, estmt, a, b)
      /\ Itemised(power, a, pass, R)
      /\ PipeRight(b, pass, R \cup Lent(estmt))
  BY <1>1, UponBill
<1> HIDE DEF R, a, b
<1>4. /\ q \in SumNames /\ n \in SumNames
      /\ a[<<pass, n>>] \cap a[<<pass, q>>] = {}
  BY <1>1, <1>3 DEF Charges
<1>5. q # n BY <1>1, <1>3 DEF Proper
<1>6. \A l \in R : l[2] # n BY <1>1, <1>3 DEF Written
<1>7. Lent(estmt) = {<<n, q>>} BY <1>1 DEF Lent
<1>8. PowerIn(power, pass, n) = old /\ PowerIn(power, pass, q) = own
  BY DEF PowerOf, PowerIn
<1> HIDE DEF q, n, old, own, pass
<1>9. Once(cfg, pass, old, a[<<pass, n>>]) /\ Once(cfg, pass, own, a[<<pass, q>>])
  BY <1>3, <1>4, <1>8, OnceIn
<1>10. DOMAIN power = {"tdp", "rtp"} BY <1>3 DEF Balanced
<1>11. DynTerms(sum) = DynTerms(old) \cup A BY DynOfSum
<1>12. DynTerms(old) \cap A = {} BY <1>4, <1>9, DynApart
<1> HIDE DEF sum, A
<1>13. /\ PowerIn(power', pass, n) = sum
       /\ \A x : x # n => PowerIn(power', pass, x) = PowerIn(power, pass, x)
       /\ \A p \in {"tdp", "rtp"} : p # pass =>
            \A x : PowerIn(power', p, x) = PowerIn(power, p, x)
  <2>1. power' = [power EXCEPT ![pass] = f ++ @] /\ pass \in {"tdp", "rtp"}
    BY <1>1, <1>3
  <2>2. DOMAIN f = {n} /\ f[n] = sum BY DEF Entry
  <2> HIDE DEF f
  <2>3. IsSet(power, pass, f, power') BY <1>10, <2>1, PowerSet
  <2> QED BY <2>1, <2>2, <2>3 DEF IsSet
<1>14. PowerIn(power', pass, q) = own BY <1>5, <1>8, <1>13
<1>15. Itemised(power', b, pass, R \cup Lent(estmt))
  <2> DEFINE T == Lent(estmt)
  <2>1. DynTerms(PowerIn(power', pass, q)) = DynTerms(PowerIn(power, pass, q))
    BY <1>8, <1>14
  <2>2. DynTerms(PowerIn(power', pass, n)) = DynTerms(PowerIn(power, pass, n)) \cup A
    BY <1>8, <1>11, <1>13
  <2>3. DynTerms(PowerIn(power, pass, n)) \cap A = {} BY <1>8, <1>12
  <2>4. T = {<<n, q>>} /\ A = DynTerms(PowerIn(power', pass, q))
    BY <1>7, <1>14 DEF A
  <2>5. PipeRight(b, pass, R \cup T) /\ Itemised(power, a, pass, R) BY <1>3
  <2>6. \A x : x # q /\ x # n => PowerIn(power', pass, x) = PowerIn(power, pass, x)
    BY <1>13
  <2>7. q # n /\ q \in SumNames /\ n \in SumNames /\ (\A l \in R : l[2] # n)
    BY <1>4, <1>5, <1>6
  <2> HIDE DEF T
  <2>8. Itemised(power', b, pass, R \cup T)
    BY <2>1, <2>2, <2>3, <2>4, <2>5, <2>6, <2>7, ItemisedAdd
  <2> QED BY <2>8 DEF T
<1> QED BY <1>1, <1>2, <1>13, <1>15, BillStep DEF pass, R, b

\* PipeShare.
LEMMA PipeShareBill ==
    ASSUME Billing, PipeShare
    PROVE  Billing'
<1> DEFINE pass == estmt.pass
           q == estmt.name
           n == "Core"
           S == {<<"corepipe", "share", pass>>}
           pipe == SetToBag(S)
           old == PowerOf(pass, n)
           own == PowerOf(pass, q)
           unit == own (+) pipe
           sum == old (+) unit
           f == Entry(q, unit) ++ Entry(n, sum)
           R == LinesOf(Energy[cfg], epc - 1, pass)
           a == JournalOf(cfg)[epc - 1]
           b == JournalOf(cfg)[epc]
           A == DynTerms(own)
<1>1. /\ phase = "compute" /\ estmt.op = "share" /\ NextEnergy
      /\ power' = [power EXCEPT ![pass] = f ++ @]
  BY DEF PipeShare, EStep, SetPower
<1>2. Accounting' BY PipeShareEntry DEF Billing
<1>3. /\ pass \in {"tdp", "rtp"}
      /\ \A l \in R : l[2] \notin Written(estmt)
      /\ IsBook(a) /\ Balanced(cfg, power, a) /\ Charges(cfg, estmt, a, b)
      /\ Itemised(power, a, pass, R)
      /\ PipeRight(b, pass, R \cup Lent(estmt))
  BY <1>1, UponBill
<1> HIDE DEF R, a, b
<1>4. /\ q \in Sharers
      /\ a[<<pass, n>>] \cap a[<<pass, q>>] = {}
  BY <1>1, <1>3 DEF Charges
<1>5. q # n /\ q \in SumNames /\ n \in SumNames BY <1>4 DEF Sharers, SumNames
<1>6. \A l \in R : l[2] # q /\ l[2] # n BY <1>1, <1>3 DEF Written
<1>7. Lent(estmt) = {<<n, q>>} BY <1>1 DEF Lent
<1>8. PowerIn(power, pass, n) = old /\ PowerIn(power, pass, q) = own
  BY DEF PowerOf, PowerIn
<1> HIDE DEF q, n, old, own, pass
<1>9. Once(cfg, pass, old, a[<<pass, n>>]) /\ Once(cfg, pass, own, a[<<pass, q>>])
  BY <1>3, <1>5, <1>8, OnceIn
<1>10. DOMAIN power = {"tdp", "rtp"} BY <1>3 DEF Balanced
<1>11. DynTerms(pipe) = {}
  <2>1. DOMAIN pipe = S BY DEF SetToBag
  <2>2. \A t \in S : t[1] = "corepipe" OBVIOUS
  <2> HIDE DEF pipe, S
  <2> QED BY <2>1, <2>2 DEF DynTerms
<1> HIDE DEF pipe
<1>12. DynTerms(unit) = A
  <2>1. DynTerms(unit) = DynTerms(own) \cup DynTerms(pipe) BY DynOfSum
  <2> QED BY <1>11, <2>1
<1> HIDE DEF unit
<1>13. DynTerms(sum) = DynTerms(old) \cup A
  <2>1. DynTerms(sum) = DynTerms(old) \cup DynTerms(unit) BY DynOfSum
  <2> QED BY <1>12, <2>1
<1>14. DynTerms(old) \cap A = {} BY <1>4, <1>9, DynApart
<1> HIDE DEF sum, A
<1>15. /\ PowerIn(power', pass, q) = unit /\ PowerIn(power', pass, n) = sum
       /\ \A x : x # q /\ x # n => PowerIn(power', pass, x) = PowerIn(power, pass, x)
       /\ \A p \in {"tdp", "rtp"} : p # pass =>
            \A x : PowerIn(power', p, x) = PowerIn(power, p, x)
  <2>1. f = Entry(q, unit) ++ Entry(n, sum) OBVIOUS
  <2>2. power' = [power EXCEPT ![pass] = f ++ @] /\ pass \in {"tdp", "rtp"}
    BY <1>1, <1>3
  <2> HIDE DEF f
  <2>3. IsSet(power, pass, f, power') BY <1>10, <2>2, PowerSet
  <2>4. DOMAIN f = {q, n} /\ f[q] = unit /\ f[n] = sum
    <3> DEFINE e == Entry(q, unit)
               g == Entry(n, sum)
    <3>1. /\ DOMAIN e = {q} /\ e[q] = unit /\ DOMAIN g = {n} /\ g[n] = sum
          /\ f = e ++ g /\ q # n
      BY <1>5, <2>1 DEF Entry
    <3> HIDE DEF e, g
    <3> QED BY <3>1 DEF ++
  <2> QED BY <2>2, <2>3, <2>4 DEF IsSet
<1>16. Itemised(power', b, pass, R \cup Lent(estmt))
  <2> DEFINE T == Lent(estmt)
  <2>1. DynTerms(PowerIn(power', pass, q)) = DynTerms(PowerIn(power, pass, q))
    BY <1>8, <1>12, <1>15 DEF A
  <2>2. DynTerms(PowerIn(power', pass, n)) = DynTerms(PowerIn(power, pass, n)) \cup A
    BY <1>8, <1>13, <1>15
  <2>3. DynTerms(PowerIn(power, pass, n)) \cap A = {} BY <1>8, <1>14
  <2>4. T = {<<n, q>>} /\ A = DynTerms(PowerIn(power', pass, q))
    BY <1>7, <1>12, <1>15
  <2>5. PipeRight(b, pass, R \cup T) /\ Itemised(power, a, pass, R) BY <1>3
  <2>6. \A x : x # q /\ x # n => PowerIn(power', pass, x) = PowerIn(power, pass, x)
    BY <1>15
  <2>7. q # n /\ q \in SumNames /\ n \in SumNames /\ (\A l \in R : l[2] # n)
    BY <1>5, <1>6
  <2> HIDE DEF T
  <2>8. Itemised(power', b, pass, R \cup T)
    BY <2>1, <2>2, <2>3, <2>4, <2>5, <2>6, <2>7, ItemisedAdd
  <2> QED BY <2>8 DEF T
<1> QED BY <1>1, <1>2, <1>15, <1>16, BillStep DEF pass, R, b

\* FunctionalEnergy.
LEMMA FunctionalBill ==
    ASSUME Billing, FunctionalEnergy
    PROVE  Billing'
<1> DEFINE pass == estmt.pass
           q == estmt.name
           D == IF cfg.int_instructions = 0 THEN {<<q, "NaN", pass>>}
                ELSE {<<q, kind, pass>> :
                        kind \in FunctionalUnit(cfg, q) \cap Executed(cfg)}
           L == IF pass = "tdp" THEN {<<q, "leakage", "none">>} ELSE {}
           all == SetToBag(D \cup L)
           n == "exu"
           old == PowerOf(pass, n)
           sum == old (+) all
           f == Entry(q, all) ++ Entry(n, sum)
           K == FuKeys(cfg, pass, q)
           R == LinesOf(Energy[cfg], epc - 1, pass)
           a == JournalOf(cfg)[epc - 1]
           b == JournalOf(cfg)[epc]
           A == DynTerms(all)
<1>1. /\ phase = "compute" /\ estmt.op = "fu" /\ NextEnergy
      /\ power' = [power EXCEPT ![pass] = f ++ @]
  BY DEF FunctionalEnergy, EStep, SetPower
<1>2. Accounting' BY FunctionalEntry DEF Billing
<1>3. /\ pass \in {"tdp", "rtp"}
      /\ \A l \in R : l[2] \notin Written(estmt)
      /\ IsBook(a) /\ Balanced(cfg, power, a) /\ Charges(cfg, estmt, a, b)
      /\ Itemised(power, a, pass, R)
      /\ PipeRight(b, pass, R \cup Lent(estmt))
  BY <1>1, UponBill
<1> HIDE DEF R, a, b
<1>4. /\ q \notin SumNames \cup {"corepipe"} \cup Uncounted
      /\ a[<<pass, n>>] \cap K = {}
  BY <1>1, <1>3 DEF Charges
<1>5. q # n /\ n \in SumNames BY <1>4 DEF SumNames
<1>6. \A l \in R : l[2] # q /\ l[2] # n BY <1>1, <1>3 DEF Written
<1>7. Lent(estmt) = {<<n, q>>} BY <1>1 DEF Lent
<1>8. PowerIn(power, pass, n) = old BY DEF PowerOf, PowerIn
<1> HIDE DEF q, pass
<1>9. Once(cfg, pass, all, K) BY <1>3, <1>4, OnceUnit
<1>10. Unshared(all)
  <2> DEFINE S == D \cup L
  <2>1. DOMAIN all = S /\ \A t \in S : all[t] = 1 BY DEF SetToBag
  <2>2. \A t \in D : t[1] = q OBVIOUS
  <2>3. \A t \in L : t[1] = q OBVIOUS
  <2>4. \A t \in S : t[1] = q BY <2>2, <2>3
  <2> HIDE DEF S, all
  <2>5. q # "corepipe" BY <1>4
  <2> QED BY <2>1, <2>4, <2>5 DEF Unshared
<1> HIDE DEF all, n, old, K
<1>11. Once(cfg, pass, old, a[<<pass, n>>]) BY <1>3, <1>5, <1>8, OnceIn
<1>12. DOMAIN power = {"tdp", "rtp"} BY <1>3 DEF Balanced
<1>13. DynTerms(sum) = DynTerms(old) \cup A BY DynOfSum
<1>14. DynTerms(old) \cap A = {} BY <1>4, <1>9, <1>11, DynApart
<1> HIDE DEF sum, A
<1>15. /\ PowerIn(power', pass, q) = all /\ PowerIn(power', pass, n) = sum
       /\ \A x : x # q /\ x # n => PowerIn(power', pass, x) = PowerIn(power, pass, x)
       /\ \A p \in {"tdp", "rtp"} : p # pass =>
            \A x : PowerIn(power', p, x) = PowerIn(power, p, x)
  <2>1. f = Entry(q, all) ++ Entry(n, sum) OBVIOUS
  <2>2. power' = [power EXCEPT ![pass] = f ++ @] /\ pass \in {"tdp", "rtp"}
    BY <1>1, <1>3
  <2> HIDE DEF f
  <2>3. IsSet(power, pass, f, power') BY <1>12, <2>2, PowerSet
  <2>4. DOMAIN f = {q, n} /\ f[q] = all /\ f[n] = sum
    <3> DEFINE e == Entry(q, all)
               g == Entry(n, sum)
    <3>1. /\ DOMAIN e = {q} /\ e[q] = all /\ DOMAIN g = {n} /\ g[n] = sum
          /\ f = e ++ g /\ q # n
      BY <1>5, <2>1 DEF Entry
    <3> HIDE DEF e, g
    <3> QED BY <3>1 DEF ++
  <2> QED BY <2>2, <2>3, <2>4 DEF IsSet
<1>16. Itemised(power', b, pass, R \cup Lent(estmt))
  <2> DEFINE T == Lent(estmt)
  <2>1. Unshared(PowerIn(power', pass, q)) BY <1>10, <1>15
  <2>2. DynTerms(PowerIn(power', pass, n)) = DynTerms(PowerIn(power, pass, n)) \cup A
    BY <1>8, <1>13, <1>15
  <2>3. DynTerms(PowerIn(power, pass, n)) \cap A = {} BY <1>8, <1>14
  <2>4. T = {<<n, q>>} /\ A = DynTerms(PowerIn(power', pass, q))
    BY <1>7, <1>15 DEF A
  <2>5. PipeRight(b, pass, R \cup T) /\ Itemised(power, a, pass, R) BY <1>3
  <2>6. \A x : x # q /\ x # n => PowerIn(power', pass, x) = PowerIn(power, pass, x)
    BY <1>15
  <2>7. q # n /\ q \notin SumNames /\ n \in SumNames /\ (\A l \in R : l[2] # q)
        /\ (\A l \in R : l[2] # n)
    BY <1>4, <1>5, <1>6
  <2> HIDE DEF T
  <2>8. Itemised(power', b, pass, R \cup T)
    BY <2>1, <2>2, <2>3, <2>4, <2>5, <2>6, <2>7, ItemisedAdd
  <2> QED BY <2>8 DEF T
<1> QED BY <1>1, <1>2, <1>15, <1>16, BillStep DEF pass, R, b

\* Before the first statement nothing has been added up.
LEMMA NothingItemised ==
    ASSUME NEW c \in Configs, NEW pass \in {"tdp", "rtp"}
    PROVE  Itemised(NoPower, JournalOf(c)[1 - 1], pass, LinesOf(Energy[c], 1 - 1, pass))
<1> DEFINE m == JournalOf(c)[1 - 1]
           R == LinesOf(Energy[c], 1 - 1, pass)
<1>1. m = NoKeys
  <2>1. 1 - 1 = 0 OBVIOUS
  <2>2. Journal(c, JournalOf(c)) BY HasJournal
  <2> QED BY <2>1, <2>2 DEF Journal
<1>2. R = {}
  <2>1. 1 .. (1 - 1) = {} OBVIOUS
  <2> QED BY <2>1 DEF LinesOf
<1>3. ASSUME NEW n PROVE DOMAIN PowerIn(NoPower, pass, n) = {}
  <2>1. NoPower[pass] = <<>> BY DEF NoPower
  <2>2. DOMAIN NoPower[pass] = {}
    <3>1. DOMAIN <<>> = {} OBVIOUS
    <3> QED BY <2>1, <3>1
  <2>3. PowerIn(NoPower, pass, n) = EmptyBag BY <2>2 DEF PowerIn
  <2>4. DOMAIN EmptyBag = {} BY DEF EmptyBag, SetToBag
  <2> QED BY <2>3, <2>4
<1>4. \A n : /\ Unshared(PowerIn(NoPower, pass, n))
            /\ DynTerms(PowerIn(NoPower, pass, n)) = {}
  BY <1>3 DEF Unshared, DynTerms
<1>5. PipeRight(NoKeys, pass, {})
  <2>1. ASSUME NEW v \in Sharers, NEW u \in SumNames
        PROVE  PipeKey(v) \notin NoKeys[<<pass, u>>]
    <3>1. <<pass, u>> \in Accounts BY DEF Accounts
    <3> QED BY <3>1 DEF NoKeys
  <2> QED BY <2>1, Zenon DEF PipeRight
<1> HIDE DEF m, R
<1>6. Itemised(NoPower, m, pass, R) BY <1>1, <1>2, <1>4, <1>5 DEF Itemised
<1> QED BY <1>6 DEF m, R

\* In the beginning.
LEMMA BillingInit ==
    ASSUME EInit
    PROVE  Billing
<1>1. Accounting BY AccountingInit
<1>2. cfg \in Configs BY <1>1 DEF Accounting, Computation, Construction, Position
<1>3. power = NoPower /\ epc = 1 /\ phase = "construct" BY DEF EInit, NoPower
<1>4. \A pass \in {"tdp", "rtp"} :
        Itemised(NoPower, JournalOf(cfg)[1 - 1], pass, LinesOf(Energy[cfg], 1 - 1, pass))
  BY <1>2, NothingItemised
<1> QED BY <1>1, <1>3, <1>4 DEF Billing

\* Construct.
LEMMA ConstructBill ==
    ASSUME Billing, Construct
    PROVE  Billing'
<1>1. Accounting' BY ConstructEntry DEF Billing
<1>2. cfg' \in Configs BY <1>1 DEF Accounting, Computation, Construction, Position
<1>3. /\ epc' = 1 /\ power' = NoPower
      /\ phase' \in {"construct", "compute"}
  BY DEF Billing, Accounting, Computation, Construct, Turn
<1>4. \A pass \in {"tdp", "rtp"} :
        Itemised(NoPower, JournalOf(cfg')[1 - 1], pass,
                 LinesOf(Energy[cfg'], 1 - 1, pass))
  BY <1>2, NothingItemised
<1>5. \A pass \in {"tdp", "rtp"} :
        Itemised(power', JournalOf(cfg')[epc' - 1], pass,
                 LinesOf(Energy[cfg'], epc' - 1, pass))
  BY <1>3, <1>4
<1>6. phase' # "destroy" BY <1>3
<1> QED BY <1>1, <1>5, <1>6 DEF Billing

\* A step that leaves the powers alone and prints nothing.
LEMMA BillingStill ==
    ASSUME Billing, Accounting', cfg' = cfg, epc' = epc, power' = power,
           phase' = "destroy" =>
             \E plevel \in 1 .. 5 : shown' = displayEnergy(cfg, plevel)
    PROVE  Billing'
  BY DEF Billing

\* Every step keeps the invariant.
LEMMA BillingStep ==
    ASSUME Billing, [ENext]_allvars
    PROVE  Billing'
<1>1. Accounting' BY AccountingStep DEF Billing
<1>2. CASE Construct BY <1>2, ConstructBill
<1>3. CASE InitStats BY <1>3, InitStatsBill
<1>4. CASE PartPower BY <1>4, PartPowerBill
<1>5. CASE SubTotal BY <1>5, SubTotalBill
<1>6. CASE PipeShare BY <1>6, PipeShareBill
<1>7. CASE FunctionalEnergy BY <1>7, FunctionalBill
<1>8. CASE Display
  <2>1. /\ cfg' = cfg /\ epc' = epc /\ power' = power
        /\ \E plevel \in 1 .. 5 : shown' = displayEnergy(cfg, plevel)
    BY <1>8 DEF Display, vars
  <2> QED BY <1>1, <2>1, BillingStill
<1>9. CASE Destroy
  <2>1. cfg' = cfg /\ epc' = epc /\ power' = power /\ phase' # "destroy"
    BY <1>9 DEF Destroy, vars
  <2> QED BY <1>1, <2>1, BillingStill
<1>10. CASE Ended \/ UNCHANGED allvars
  <2>1. UNCHANGED allvars BY <1>10 DEF Ended
  <2>2. /\ cfg' = cfg /\ epc' = epc /\ power' = power /\ shown' = shown
        /\ phase' = phase
    BY <2>1 DEF allvars, evars, vars
  <2>3. phase' = "destroy" =>
          \E plevel \in 1 .. 5 : shown' = displayEnergy(cfg, plevel)
    BY <2>2 DEF Billing
  <2> QED BY <1>1, <2>2, <2>3, BillingStill
<1> QED BY <1>2, <1>3, <1>4, <1>5, <1>6, <1>7, <1>8, <1>9, <1>10 DEF ENext

\* The inductive invariant: before each statement the dynamic terms of the sums
\* are those of the objects that the statements so far have added to them.
THEOREM BillingInvariant == ESpec => []Billing
<1>1. EInit => Billing BY BillingInit
<1>2. Billing /\ [ENext]_allvars => Billing' BY BillingStep
<1> QED BY <1>1, <1>2, PTL DEF ESpec

-----------------------------------------------------------------------------
(* What displayEnergy prints. *)

\* The lines of a core and, from print levels 3 and 4 on, those of its units
\* and of their parts.
LEMMA DisplayGroups ==
    ASSUME NEW c
    PROVE  \E A, M, H : Grouped(c, A, M, H)
<1> DEFINE core == {"ifu", "lsu", "mmu", "exu"}
                     \cup (IF c.OOO THEN {"rnu"} ELSE {})
                     \cup (IF c.Private_L2 THEN {"l2cache"} ELSE {})
           ifu == {"icache", "IB", "ID"}
           pred == IF c.predictionW > 0 THEN {"BTB", "BPT"} ELSE {}
           bpt == IF c.predictionW > 0 THEN Tables \cup {"RAS"} ELSE {}
           lsu == {"dcache", "LSQ"} \cup (IF HasLoadQ(c) THEN {"LoadQ"} ELSE {})
           mmu == {"itlb", "dtlb"}
           exu == {"rfu", "scheu", "exeu", "bypass"}
                    \cup (IF c.fpus > 0 THEN {"fp_u"} ELSE {})
                    \cup (IF c.muls > 0 THEN {"mul"} ELSE {})
           rnu == IF c.OOO
                  THEN {"iFRAT", "fFRAT", "ifreeL"}
                         \cup (IF c.PRF THEN {"iRRAT", "fRRAT", "ffreeL"} ELSE {})
                  ELSE {}
           rfu == {"IRF", "FRF"} \cup (IF RegWindowing(c) THEN {"RFWIN"} ELSE {})
           scheu == IF c.OOO THEN {"int_inst_window", "fp_inst_window"}
                                    \cup (IF c.ROB > 0 THEN {"ROB"} ELSE {})
                    ELSE IF c.threads > 1 THEN {"int_inst_window"} ELSE {}
           A == Lines("Core", core)
           M == Lines("ifu", ifu) \cup Lines("ifu", pred) \cup Lines("lsu", lsu)
                  \cup Lines("mmu", mmu) \cup Lines("exu", exu)
                  \cup Lines("rnu", rnu)
           H == Lines("BPT", bpt) \cup Lines("rfu", rfu) \cup Lines("scheu", scheu)
<1>1. \A p : Lines(p, {}) = {} BY DEF Lines
<1>2. \A p, S : \A l \in Lines(p, S) : l[1] = p /\ l[2] \in S /\ l = <<l[1], l[2]>>
  BY DEF Lines
<1>3. \A S, n : <<"Core", n>> \in Lines("Core", S) <=> n \in S BY DEF Lines
<1>4. ASSUME NEW plevel \in 1 .. 5
      PROVE  Core_display(c, plevel)
               = A \cup (IF plevel > 2 THEN M ELSE {})
                   \cup (IF plevel > 3 THEN H ELSE {})
  <2>1. InstFetchU_display(c, plevel)
          = Lines("ifu", ifu) \cup Lines("ifu", pred)
              \cup (IF plevel > 3 THEN Lines("BPT", bpt) ELSE {})
    BY <1>1, Zenon DEF InstFetchU_display, BranchPredictor_display
  <2>2. LoadStoreU_display(c) = Lines("lsu", lsu) BY DEF LoadStoreU_display
  <2>3. MemManU_display = Lines("mmu", mmu) BY DEF MemManU_display
  <2>4. EXECU_display(c, plevel)
          = Lines("exu", exu)
              \cup (IF plevel > 3 THEN Lines("rfu", rfu) \cup Lines("scheu", scheu)
                    ELSE {})
    BY <1>1, Zenon DEF EXECU_display, RegFU_display, SchedulerU_display
  <2>5. (IF c.OOO THEN RENAMINGU_display(c) ELSE {}) = Lines("rnu", rnu)
    BY <1>1, Zenon DEF RENAMINGU_display
  <2>6. plevel > 3 => plevel > 2 OBVIOUS
  <2>7. Core_display(c, plevel)
          = A \cup (IF plevel > 2
                    THEN InstFetchU_display(c, plevel) \cup LoadStoreU_display(c)
                           \cup MemManU_display \cup EXECU_display(c, plevel)
                           \cup (IF c.OOO THEN RENAMINGU_display(c) ELSE {})
                    ELSE {})
    BY DEF Core_display
  <2> HIDE DEF core, ifu, pred, bpt, lsu, mmu, exu, rnu, rfu, scheu
  <2> QED BY <2>1, <2>2, <2>3, <2>4, <2>5, <2>6, <2>7
<1>5. \A n : n \in core <=> n \in Sharing(c) \/ (c.Private_L2 /\ n = "l2cache")
  BY DEF Sharing
<1>6. /\ "L2_localBPT" \notin core \cup ifu \cup pred \cup lsu \cup mmu \cup exu
           \cup rnu \cup rfu \cup scheu
      /\ \A n \in Sharers \cup {"Core"} :
           n \notin ifu \cup pred \cup bpt \cup lsu \cup mmu \cup exu
             \cup rnu \cup rfu \cup scheu
  BY DEF Sharers, Tables
<1> HIDE DEF core, ifu, pred, bpt, lsu, mmu, exu, rnu, rfu, scheu
<1>7. \A l \in A : l[1] = "Core" /\ l[2] \in core /\ l = <<l[1], l[2]>> BY <1>2
<1>8. \A l \in M : /\ l[1] \in {"ifu", "lsu", "mmu", "exu", "rnu"}
                   /\ l[2] \in ifu \cup pred \cup lsu \cup mmu \cup exu \cup rnu
                   /\ l = <<l[1], l[2]>>
  BY <1>2
<1>9. \A l \in H : /\ l[1] \in {"BPT", "rfu", "scheu"}
                   /\ l[2] \in bpt \cup rfu \cup scheu
                   /\ l[1] # "BPT" => l[2] \in rfu \cup scheu
                   /\ l = <<l[1], l[2]>>
  BY <1>2
<1>10. \A n : <<"Core", n>> \in A <=> n \in core BY <1>3, Zenon
<1> HIDE DEF A, M, H
<1>11. \A l \in A \cup M \cup H : l[2] = "L2_localBPT" => l[1] = "BPT"
  BY <1>6, <1>7, <1>8, <1>9
<1>12. \A l \in A \cup M \cup H : l[2] \in Sharers \cup {"Core"} => l[1] = "Core"
  BY <1>6, <1>7, <1>8, <1>9
<1>13. \A l \in A \cup M \cup H : l = <<l[1], l[2]>> BY <1>7, <1>8, <1>9
<1>14. \A n : <<"Core", n>> \in A <=>
            n \in Sharing(c) \/ (c.Private_L2 /\ n = "l2cache")
  BY <1>5, <1>10, Zenon
<1>15. /\ \A l \in A : l[1] = "Core"
       /\ \A l \in M : l[1] \in {"ifu", "lsu", "mmu", "exu", "rnu"}
       /\ \A l \in H : l[1] \in {"BPT", "rfu", "scheu"}
  BY <1>7, <1>8, <1>9
<1>16. Grouped(c, A, M, H)
  BY <1>4, <1>11, <1>12, <1>13, <1>14, <1>15 DEF Grouped
<1> QED BY <1>16

\* A unit's lines are printed together or not at all.
LEMMA ShownLines ==
    ASSUME NEW c \in ConfigType, NEW plevel \in 1 .. 5,
           shown = displayEnergy(c, plevel), NEW l \in shown
    PROVE  c.root = "Core" /\ PrintedWhole(c, l[1])
<1>1. c.root = "Core" /\ shown = Core_display(c, plevel) BY DEF displayEnergy
<1>0. PICK A, M, H : Grouped(c, A, M, H) BY DisplayGroups
<1>2. /\ \A k \in 1 .. 5 : Core_display(c, k)
           = A \cup (IF k > 2 THEN M ELSE {}) \cup (IF k > 3 THEN H ELSE {})
      /\ \A k \in A : k[1] = "Core"
      /\ \A k \in M : k[1] \in {"ifu", "lsu", "mmu", "exu", "rnu"}
      /\ \A k \in H : k[1] \in {"BPT", "rfu", "scheu"}
      /\ \A k \in A \cup M \cup H : k = <<k[1], k[2]>>
      /\ \A k \in A \cup M \cup H : k[2] = "L2_localBPT" => k[1] = "BPT"
  BY <1>0 DEF Grouped
<1>3. /\ Core_display(c, 4) = A \cup M \cup H
      /\ shown = A \cup (IF plevel > 2 THEN M ELSE {})
                   \cup (IF plevel > 3 THEN H ELSE {})
      /\ plevel > 3 => plevel > 2
  BY <1>1, <1>2
<1> DEFINE p == l[1]
           X == (A \cup M \cup H) \ {<<"BPT", "L2_localBPT">>}
           Y == IF c.Private_L2 THEN {<<"l2cache", "unicache">>} ELSE {}
<1>4. PassLines(c) = X \cup Y BY <1>1, <1>3 DEF PassLines
<1>5. p \in SumNames /\ p # "l2cache" BY <1>2, <1>3 DEF SumNames
<1>6. ASSUME NEW n
      PROVE  <<p, n>> \in shown <=> <<p, n>> \in A \cup M \cup H
  <2> DEFINE k == <<p, n>>
  <2>1. k[1] = p OBVIOUS
  <2> HIDE DEF k, p
  <2>2. /\ k \in A => p = "Core"
        /\ k \in M => p \in {"ifu", "lsu", "mmu", "exu", "rnu"}
        /\ k \in H => p \in {"BPT", "rfu", "scheu"}
    BY <1>2, <2>1
  <2>3. \/ l \in A /\ p = "Core"
        \/ l \in M /\ p \in {"ifu", "lsu", "mmu", "exu", "rnu"} /\ plevel > 2
        \/ l \in H /\ p \in {"BPT", "rfu", "scheu"} /\ plevel > 3
    BY <1>2, <1>3 DEF p
  <2>4. k \in shown <=> k \in A \cup M \cup H BY <1>3, <2>2, <2>3
  <2> QED BY <2>4 DEF k
<1>7. ASSUME NEW n
      PROVE  <<p, n>> \in shown /\ n # "L2_localBPT" <=> <<p, n>> \in PassLines(c)
  <2> DEFINE k == <<p, n>>
  <2>1. k[1] = p /\ k[2] = n OBVIOUS
  <2>2. k = <<"BPT", "L2_localBPT">> <=> p = "BPT" /\ n = "L2_localBPT" OBVIOUS
  <2>3. k \notin Y BY <1>5
  <2> HIDE DEF k
  <2>4. k \in A \cup M \cup H => (n = "L2_localBPT" => p = "BPT") BY <1>2, <2>1
  <2>5. k \in PassLines(c) <=> k \in A \cup M \cup H /\ n # "L2_localBPT"
    BY <1>4, <2>2, <2>3, <2>4
  <2> QED BY <1>6, <2>5 DEF k
<1> QED BY <1>1, <1>5, <1>7 DEF PrintedWhole

\* Of the units that have a share of the pipeline the lines of the core name
\* exactly those of the configuration, and no other line names one.
LEMMA SharersLines ==
    ASSUME NEW c \in ConfigType, c.root = "Core", NEW p, NEW n,
           n \in Sharers \cup {"Core"}
    PROVE  <<p, n>> \in PassLines(c) <=> p = "Core" /\ n \in Sharing(c)
<1>0. PICK A, M, H : Grouped(c, A, M, H) BY DisplayGroups
<1>1. /\ \A k \in 1 .. 5 : Core_display(c, k)
           = A \cup (IF k > 2 THEN M ELSE {}) \cup (IF k > 3 THEN H ELSE {})
      /\ \A k \in M : k[1] \in {"ifu", "lsu", "mmu", "exu", "rnu"}
      /\ \A k \in H : k[1] \in {"BPT", "rfu", "scheu"}
      /\ \A k \in A \cup M \cup H :
           k[2] \in Sharers \cup {"Core"} => k[1] = "Core"
      /\ \A k : <<"Core", k>> \in A <=>
           k \in Sharing(c) \/ (c.Private_L2 /\ k = "l2cache")
  BY <1>0 DEF Grouped
<1> DEFINE l == <<p, n>>
           Y == IF c.Private_L2 THEN {<<"l2cache", "unicache">>} ELSE {}
<1>2. PassLines(c) = ((A \cup M \cup H) \ {<<"BPT", "L2_localBPT">>}) \cup Y
  <2>1. Core_display(c, 4) = A \cup M \cup H BY <1>1
  <2> QED BY <2>1 DEF PassLines
<1>3. n # "L2_localBPT" /\ n # "unicache" /\ n # "l2cache" BY DEF Sharers
<1>4. l[1] = p /\ l[2] = n /\ l \notin Y /\ l # <<"BPT", "L2_localBPT">>
      /\ (p = "Core" => l = <<"Core", n>>)
  BY <1>3
<1> HIDE DEF l, Y
<1>5. l \in PassLines(c) <=> l \in A \cup M \cup H BY <1>2, <1>4
<1>6. l \in A \cup M \cup H => p = "Core" BY <1>1, <1>4
<1>7. p = "Core" => l \notin M \cup H BY <1>1, <1>4
<1>8. p = "Core" => (l \in A <=> n \in Sharing(c)) BY <1>1, <1>3, <1>4
<1> QED BY <1>5, <1>6, <1>7, <1>8 DEF l

-----------------------------------------------------------------------------
(* The powers when the passes are over. *)

\* The shares of the pipeline in a sum.
LEMMA PipeTerm ==
    ASSUME NEW c \in ConfigType, c.root = "Core", NEW pass, NEW m,
           PipeRight(m, pass, PassLines(c)), NEW u \in SumNames, NEW bag,
           Once(c, pass, bag, m[<<pass, u>>])
    PROVE  Copies(<<"corepipe", "share", pass>>, bag)
             = IF u = "Core" THEN Shares(c) ELSE IF u \in Sharing(c) THEN 1 ELSE 0
<1> DEFINE K == m[<<pass, u>>]
<1>1. ASSUME NEW v \in Sharers
      PROVE  PipeKey(v) \in K <=> v \in Sharing(c) /\ (u = v \/ u = "Core")
  <2>1. <<"Core", v>> \in PassLines(c) <=> v \in Sharing(c) BY SharersLines
  <2>2. PipeKey(v) \in K <=> <<"Core", v>> \in PassLines(c) /\ (u = v \/ u = "Core")
    BY Zenon DEF PipeRight
  <2> QED BY <2>1, <2>2
<1>2. Copies(<<"corepipe", "share", pass>>, bag) = SharesIn(K)
  <2>1. <<"corepipe", "share">> # <<"instruction_selection", "leakage">> OBVIOUS
  <2>2. Times(c, pass, K, "corepipe", "share", pass) = SharesIn(K) BY DEF Times
  <2> HIDE DEF K
  <2>3. Copies(<<"corepipe", "share", pass>>, bag)
          = Times(c, pass, K, "corepipe", "share", pass)
    BY <2>1 DEF Once, K
  <2> QED BY <2>2, <2>3
<1> HIDE DEF K
<1>3. Sharers = {"ifu", "lsu", "exu", "mmu", "rnu"} BY DEF Sharers
<1>4. /\ {"ifu", "lsu", "exu", "mmu"} \subseteq Sharing(c)
      /\ "rnu" \in Sharing(c) <=> c.OOO
      /\ Sharing(c) \subseteq Sharers
      /\ Shares(c) = IF c.OOO THEN 5 ELSE 4
  BY DEF Sharing, Shares, Sharers
<1>5. /\ In(PipeKey("ifu"), K) = IF u = "ifu" \/ u = "Core" THEN 1 ELSE 0
      /\ In(PipeKey("lsu"), K) = IF u = "lsu" \/ u = "Core" THEN 1 ELSE 0
      /\ In(PipeKey("exu"), K) = IF u = "exu" \/ u = "Core" THEN 1 ELSE 0
      /\ In(PipeKey("mmu"), K) = IF u = "mmu" \/ u = "Core" THEN 1 ELSE 0
      /\ In(PipeKey("rnu"), K) = IF c.OOO /\ (u = "rnu" \/ u = "Core") THEN 1 ELSE 0
  BY <1>1, <1>3, <1>4 DEF In
<1>6. SharesIn(K) = IF u = "Core" THEN Shares(c)
                    ELSE IF u \in Sharing(c) THEN 1 ELSE 0
  <2>1. u \in Sharing(c) => u \in {"ifu", "lsu", "exu", "mmu", "rnu"} BY <1>3, <1>4
  <2> QED BY <1>4, <1>5, <2>1 DEF SharesIn
<1> QED BY <1>2, <1>6

\* What the invariant says of the powers of a core when the passes are over.
LEMMA CoreSettled ==
    ASSUME Billing, Computed, NEW pass \in {"tdp", "rtp"},
           NEW c, c = cfg, c.root = "Core"
    PROVE  Settled(c, pass)
<1> DEFINE n0 == Len(Energy[c])
           m == JournalOf(c)[n0]
           R == PassLines(c)
           P(n) == PowerOf(pass, n)
           e == <<"corepipe", "share", pass>>
<1>1. Accounting BY DEF Billing
<1>2. c \in Configs /\ c \in ConfigType BY <1>1, OnceRoot
<1>3. epc - 1 = n0
  <2>1. n0 \in Nat \ {0} BY <1>2, EnergyOf
  <2>2. epc = n0 + 1 BY <1>1 DEF Accounting
  <2> HIDE DEF n0
  <2> QED BY <2>1, <2>2
<1>4. Balanced(c, power, m) BY <1>1, <1>3 DEF Accounting
<1>5. Itemised(power, m, pass, R)
  <2>1. Itemised(power, m, pass, LinesOf(Energy[c], n0, pass))
    BY <1>3 DEF Billing
  <2>2. LinesOf(Energy[c], n0, pass) = R BY <1>2, EnergyLines
  <2> QED BY <2>1, <2>2
<1>6. \A n : PowerIn(power, pass, n) = P(n) BY DEF PowerIn, PowerOf
<1> HIDE DEF n0, m
<1>7. \A n \in SumNames : Once(c, pass, P(n), m[<<pass, n>>])
  BY <1>4, <1>6 DEF Balanced
<1>8. PipeRight(m, pass, R) BY <1>5 DEF Itemised
<1>9. /\ \A n : n \notin SumNames => Unshared(P(n))
      /\ \A u \in SumNames :
           DynTerms(P(u)) = UNION {DynTerms(P(l[2])) : l \in {k \in R : k[1] = u}}
      /\ \A l, k \in R : l[1] = k[1] /\ l[2] # k[2] =>
           DynTerms(P(l[2])) \cap DynTerms(P(k[2])) = {}
  BY <1>5, <1>6 DEF Itemised
<1>10. \A l \in R : l = <<l[1], l[2]>>
  <2>1. PICK A, M, H : Grouped(c, A, M, H) BY DisplayGroups
  <2>2. Core_display(c, 4) = A \cup M \cup H BY <2>1 DEF Grouped
  <2>3. \A l \in A \cup M \cup H : l = <<l[1], l[2]>> BY <2>1 DEF Grouped
  <2>4. R \subseteq A \cup M \cup H \cup {<<"l2cache", "unicache">>}
    BY <2>2 DEF PassLines
  <2> QED BY <2>3, <2>4
<1> HIDE DEF R, P
<1>11. ASSUME NEW u \in SumNames, NEW t
       PROVE  t \in DynTerms(P(u)) <=> \E n : <<u, n>> \in R /\ t \in DynTerms(P(n))
  <2>1. t \in DynTerms(P(u))
          <=> \E l \in {k \in R : k[1] = u} : t \in DynTerms(P(l[2]))
    BY <1>9
  <2>2. ASSUME NEW l \in {k \in R : k[1] = u}, t \in DynTerms(P(l[2]))
        PROVE  \E n : <<u, n>> \in R /\ t \in DynTerms(P(n))
    <3>1. <<u, l[2]>> \in R BY <1>10
    <3> QED BY <2>2, <3>1
  <2>3. ASSUME NEW n, <<u, n>> \in R, t \in DynTerms(P(n))
        PROVE  \E l \in {k \in R : k[1] = u} : t \in DynTerms(P(l[2]))
    <3> DEFINE l == <<u, n>>
    <3>1. l \in R /\ l[1] = u /\ l[2] = n BY <2>3
    <3> HIDE DEF l
    <3> QED BY <2>3, <3>1
  <2> QED BY <2>1, <2>2, <2>3
<1>12. ASSUME NEW u, NEW n, NEW k, <<u, n>> \in R, <<u, k>> \in R, n # k
       PROVE  DynTerms(P(n)) \cap DynTerms(P(k)) = {}
  <2> DEFINE l == <<u, n>>
             j == <<u, k>>
  <2>1. l \in R /\ j \in R /\ l[1] = j[1] /\ l[2] = n /\ j[2] = k BY <1>12
  <2> HIDE DEF l, j
  <2> QED BY <1>9, <1>12, <2>1
<1>13. ASSUME NEW n, NEW t \in DOMAIN P(n), t[2] # "leakage"
       PROVE  \/ t[1] # "corepipe" /\ P(n)[t] = 1
              \/ t = e
  <2>1. CASE n \in SumNames
    <3> DEFINE bag == P(n)
               K == m[<<pass, n>>]
    <3>1. Once(c, pass, bag, K) /\ t \in DOMAIN bag BY <1>7, <1>13, <2>1
    <3> HIDE DEF bag, K
    <3>2. /\ t[1] # "corepipe" => bag[t] = 1 /\ <<t[1], t[2]>> \in K
          /\ t[1] = "corepipe" => /\ t = <<"corepipe", "share", pass>>
                                  /\ bag[t] = SharesIn(K)
      BY <1>13, <3>1, OnceTerms
    <3> QED BY <3>2 DEF bag
  <2>2. CASE n \notin SumNames BY <1>9, <1>13, <2>2 DEF Unshared
  <2> QED BY <2>1, <2>2
<1>14. /\ Sharing(c) \cup {"Core"} \subseteq SumNames /\ "Core" \notin Sharing(c)
       /\ Shares(c) \in {4, 5}
  BY DEF Sharing, SumNames, Shares
<1>15. ASSUME NEW n
       PROVE  /\ e \in DOMAIN P(n) <=> n \in Sharing(c) \cup {"Core"}
              /\ n \in Sharing(c) => P(n)[e] = 1
              /\ n = "Core" => P(n)[e] = Shares(c)
  <2>1. CASE n \in SumNames
    <3>1. Copies(e, P(n))
            = IF n = "Core" THEN Shares(c) ELSE IF n \in Sharing(c) THEN 1 ELSE 0
      <4> DEFINE bag == P(n)
      <4>1. Once(c, pass, bag, m[<<pass, n>>]) BY <1>7, <2>1
      <4>2. PipeRight(m, pass, PassLines(c)) BY <1>8 DEF R
      <4> HIDE DEF bag
      <4>3. Copies(<<"corepipe", "share", pass>>, bag)
              = IF n = "Core" THEN Shares(c) ELSE IF n \in Sharing(c) THEN 1 ELSE 0
        BY <1>2, <2>1, <4>1, <4>2, PipeTerm
      <4> QED BY <4>3 DEF bag
    <3>2. Copies(e, P(n)) = IF e \in DOMAIN P(n) THEN P(n)[e] ELSE 0
      BY DEF Copies, BagIn, BagToSet
    <3>3. e \in DOMAIN P(n) => P(n)[e] # 0 BY <1>7, <2>1 DEF Once
    <3> HIDE DEF e
    <3> QED BY <1>14, <3>1, <3>2, <3>3
  <2>2. CASE n \notin SumNames
    <3>1. e[1] = "corepipe" OBVIOUS
    <3> HIDE DEF e
    <3>2. e \notin DOMAIN P(n) BY <1>9, <2>2, <3>1 DEF Unshared
    <3> QED BY <1>14, <2>2, <3>2
  <2> QED BY <2>1, <2>2
<1> QED BY <1>11, <1>12, <1>13, <1>15 DEF Settled, R, P

\* The sum over at most five objects that have a term once.
LEMMA LentOnce ==
    ASSUME NEW pass, NEW t, NEW S, IsFiniteSet(S), Cardinality(S) \in 0 .. 5,
           \A ch \in S : PowerOf(pass, ch)[t] = 1
    PROVE  LentOf(pass, t, S) = Cardinality(S)
<1> DEFINE step(f) == [s \in SUBSET S |->
                 IF s = {} THEN 0
                 ELSE LET x == CHOOSE x \in s : TRUE
                      IN  PowerOf(pass, x)[t] + f[s \ {x}]]
           iter == CHOOSE f : f = step(f)
           g == [s \in SUBSET S |-> Cardinality(s)]
<1>1. ASSUME NEW s \in SUBSET S
      PROVE  /\ IsFiniteSet(s) /\ Cardinality(s) \in Nat
             /\ s = {} <=> Cardinality(s) = 0
             /\ \A x \in s : Cardinality(s \ {x}) = Cardinality(s) - 1
  <2>1. IsFiniteSet(s) BY FS_Subset
  <2> QED BY <2>1, FS_CardinalityType, FS_EmptySet, FS_RemoveElement
<1>2. g = step(g)
  <2>1. ASSUME NEW s \in SUBSET S, s # {}
        PROVE  PowerOf(pass, CHOOSE x \in s : TRUE)[t]
                 + g[s \ {CHOOSE x \in s : TRUE}] = Cardinality(s)
    <3> DEFINE x == CHOOSE x \in s : TRUE
    <3>1. x \in s BY <2>1
    <3> HIDE DEF x
    <3>2. g[s \ {x}] = Cardinality(s) - 1 BY <1>1, <3>1
    <3>3. PowerOf(pass, x)[t] = 1 BY <3>1
    <3> HIDE DEF g
    <3>4. PowerOf(pass, x)[t] + g[s \ {x}] = Cardinality(s)
      BY <1>1, <3>2, <3>3
    <3> QED BY <3>4 DEF x
  <2> QED BY <1>1, <2>1
<1>3. MapThenSumSet(LAMBDA ch : PowerOf(pass, ch)[t], S) = iter[S]
  BY DEF MapThenSumSet, MapThenFoldSet
<1> HIDE DEF g
<1>4. iter = step(iter)
  <2> HIDE DEF step
  <2> QED BY <1>2, Zenon
<1> HIDE DEF iter
<1>5. \A s \in SUBSET S : Cardinality(s) = 0 => iter[s] = 0 BY <1>1, <1>4
<1>6. ASSUME NEW k \in Nat,
             \A s \in SUBSET S : Cardinality(s) = k => iter[s] = k
      PROVE  \A s \in SUBSET S : Cardinality(s) = k + 1 => iter[s] = k + 1
  <2> SUFFICES ASSUME NEW s \in SUBSET S, Cardinality(s) = k + 1
               PROVE  iter[s] = k + 1
    OBVIOUS
  <2> DEFINE x == CHOOSE x \in s : TRUE
  <2>1. s # {} BY <1>1
  <2>2. x \in s BY <2>1
  <2>3. iter[s] = PowerOf(pass, x)[t] + iter[s \ {x}] BY <1>4, <2>1
  <2> HIDE DEF x
  <2>4. Cardinality(s \ {x}) = k BY <1>1, <2>2
  <2>5. iter[s \ {x}] = k BY <1>6, <2>4
  <2> QED BY <2>2, <2>3, <2>5
<1>7. \A s \in SUBSET S : Cardinality(s) = 1 => iter[s] = 1 BY <1>5, <1>6
<1>8. \A s \in SUBSET S : Cardinality(s) = 2 => iter[s] = 2 BY <1>6, <1>7
<1>9. \A s \in SUBSET S : Cardinality(s) = 3 => iter[s] = 3 BY <1>6, <1>8
<1>10. \A s \in SUBSET S : Cardinality(s) = 4 => iter[s] = 4 BY <1>6, <1>9
<1>11. \A s \in SUBSET S : Cardinality(s) = 5 => iter[s] = 5 BY <1>6, <1>10
<1>12. iter[S] = Cardinality(S)
  <2>1. Cardinality(S) \in {0, 1, 2, 3, 4, 5} OBVIOUS
  <2> QED BY <1>5, <1>7, <1>8, <1>9, <1>10, <1>11, <2>1
<1> QED BY <1>3, <1>12, Zenon DEF LentOf

\* As many units as Shares says take a share of the pipeline.
LEMMA SharingCount ==
    ASSUME NEW c
    PROVE  IsFiniteSet(Sharing(c)) /\ Cardinality(Sharing(c)) = Shares(c)
<1>1. IsFiniteSet({"ifu"}) /\ Cardinality({"ifu"}) = 1 BY FS_Singleton
<1>2. LET S == {"ifu"} \cup {"lsu"}
      IN  IsFiniteSet(S) /\ Cardinality(S) = 2
  BY <1>1, FS_AddElement
<1>3. LET S == {"ifu"} \cup {"lsu"} \cup {"exu"}
      IN  IsFiniteSet(S) /\ Cardinality(S) = 3
  BY <1>2, FS_AddElement
<1>4. LET S == {"ifu"} \cup {"lsu"} \cup {"exu"} \cup {"mmu"}
      IN  IsFiniteSet(S) /\ Cardinality(S) = 4
  BY <1>3, FS_AddElement
<1>5. LET S == {"ifu"} \cup {"lsu"} \cup {"exu"} \cup {"mmu"} \cup {"rnu"}
      IN  IsFiniteSet(S) /\ Cardinality(S) = 5
  BY <1>4, FS_AddElement
<1>6. CASE c.OOO
  <2>1. Sharing(c) = {"ifu"} \cup {"lsu"} \cup {"exu"} \cup {"mmu"} \cup {"rnu"}
    BY <1>6 DEF Sharing
  <2> QED BY <1>5, <1>6, <2>1 DEF Shares
<1>7. CASE ~c.OOO
  <2>1. Sharing(c) = {"ifu"} \cup {"lsu"} \cup {"exu"} \cup {"mmu"}
    BY <1>7 DEF Sharing
  <2> QED BY <1>4, <1>7, <2>1 DEF Shares
<1> QED BY <1>6, <1>7

\* Two powers with the same dynamic terms.
LEMMA SameDynamic ==
    ASSUME NEW a, NEW b,
           \A t : t[2] # "leakage" =>
             /\ t \in DOMAIN a <=> t \in DOMAIN b
             /\ t \in DOMAIN a => a[t] = b[t]
    PROVE  Dynamic(a) = Dynamic(b)
<1>1. {u \in BagToSet(a) : u[2] # "leakage"} = {u \in BagToSet(b) : u[2] # "leakage"}
  BY DEF BagToSet
<1>2. \A t \in {u \in BagToSet(a) : u[2] # "leakage"} : a[t] = b[t]
  BY DEF BagToSet
<1> QED BY <1>1, <1>2 DEF Dynamic

\* A printed unit's power is the sum of its lines'.
LEMMA UnitAddsUp ==
    ASSUME NEW c \in ConfigType, c.root = "Core",
           NEW pass, Settled(c, pass), NEW parent, NEW children, NEW sum,
           NEW pipe, Displayed(c, pass, parent, children, sum, pipe)
    PROVE  AddsUp(pass, parent, sum, pipe)
<1> DEFINE P(n) == PowerOf(pass, n)
           e == <<"corepipe", "share", pass>>
           has(t) == {ch \in children : t \in DOMAIN P(ch)}
           terms == DOMAIN sum
           total == sum (+) pipe
<1>1. parent \in SumNames /\ \A n : n \in children <=> <<parent, n>> \in PassLines(c)
  BY DEF Displayed, PrintedWhole
<1>2. \A t : t \in terms <=> \E n \in children : t \in DOMAIN P(n)
  BY DEF Displayed, BagToSet
<1>3. \A t \in terms : sum[t] = LentOf(pass, t, has(t))
  BY DEF Displayed, BagIn, BagToSet
<1>4. /\ \A t : t \in DynTerms(P(parent))
                  <=> \E n \in children : t \in DynTerms(P(n))
      /\ \A n, k \in children : n # k => DynTerms(P(n)) \cap DynTerms(P(k)) = {}
  BY <1>1 DEF Settled
<1>5. \A n : \A t \in DOMAIN P(n) : t[2] # "leakage" =>
        (t[1] # "corepipe" /\ P(n)[t] = 1) \/ t = e
  BY DEF Settled
<1>6. /\ \A n : e \in DOMAIN P(n) <=> n \in Sharing(c) \cup {"Core"}
      /\ \A n \in Sharing(c) : P(n)[e] = 1
      /\ P("Core")[e] = Shares(c)
  BY DEF Settled
<1>7. /\ DOMAIN pipe = IF parent \in Sharing(c) THEN {e} ELSE {}
      /\ parent \in Sharing(c) => pipe[e] = 1
  BY DEF Displayed, EmptyBag, SetToBag
<1>8. Sharing(c) \subseteq Sharers /\ "Core" \notin Sharing(c)
  BY DEF Sharing, Sharers
<1>9. \A n \in Sharers \cup {"Core"} :
        n \in children <=> parent = "Core" /\ n \in Sharing(c)
  BY <1>1, SharersLines
<1> HIDE DEF P, total, terms
<1>10. /\ \A t : t \in DOMAIN total <=> t \in terms \/ t \in DOMAIN pipe
       /\ \A t : t \in terms /\ t \notin DOMAIN pipe =>
            \A k \in Nat : sum[t] = k => total[t] = k
       /\ \A t : t \notin terms /\ t \in DOMAIN pipe =>
            \A k \in Nat : pipe[t] = k => total[t] = k
  <2>1. total = [t \in terms \cup DOMAIN pipe |->
                   (IF t \in terms THEN sum[t] ELSE 0)
                     + (IF t \in DOMAIN pipe THEN pipe[t] ELSE 0)]
    BY Zenon DEF (+), total, terms
  <2>2. \A k \in Nat : k + 0 = k /\ 0 + k = k OBVIOUS
  <2>3. \A t : t \in DOMAIN total <=> t \in terms \/ t \in DOMAIN pipe
    BY <2>1, Zenon
  <2>4. ASSUME NEW t, t \in terms, t \notin DOMAIN pipe,
               NEW k \in Nat, sum[t] = k
        PROVE  total[t] = k
    <3>1. total[t] = sum[t] + 0 BY <2>1, <2>4, Zenon
    <3> QED BY <2>2, <2>4, <3>1, Zenon
  <2>5. ASSUME NEW t, t \notin terms, t \in DOMAIN pipe,
               NEW k \in Nat, pipe[t] = k
        PROVE  total[t] = k
    <3>1. total[t] = 0 + pipe[t] BY <2>1, <2>5, Zenon
    <3> QED BY <2>2, <2>5, <3>1, Zenon
  <2> QED BY <2>3, <2>4, <2>5, Zenon
<1>11. e[1] = "corepipe" /\ e[2] # "leakage" OBVIOUS
<1> HIDE DEF e
<1>12. ASSUME NEW t, t[2] # "leakage", t # e
       PROVE  /\ t \in DOMAIN P(parent) <=> t \in DOMAIN total
              /\ t \in DOMAIN P(parent) => P(parent)[t] = total[t]
  <2>1. \A n : t \in DOMAIN P(n) <=> t \in DynTerms(P(n))
    BY <1>5, <1>12 DEF DynTerms
  <2>2. t \in DOMAIN P(parent) <=> t \in terms BY <1>2, <1>4, <2>1
  <2>3. t \notin DOMAIN pipe BY <1>7, <1>12
  <2>4. ASSUME t \in DOMAIN P(parent) PROVE P(parent)[t] = total[t]
    <3>1. PICK n \in children : t \in DynTerms(P(n)) BY <1>4, <2>1, <2>4
    <3>2. has(t) = {n} BY <1>4, <2>1, <3>1
    <3>3. PowerOf(pass, n)[t] = 1 BY <1>5, <1>12, <2>1, <3>1 DEF P
    <3>4. IsFiniteSet({n}) /\ Cardinality({n}) = 1 BY FS_Singleton
    <3> DEFINE S == {n}
    <3>5. \A ch \in S : PowerOf(pass, ch)[t] = 1 BY <3>3
    <3> HIDE DEF S
    <3>6. LentOf(pass, t, S) = Cardinality(S) BY <3>4, <3>5, LentOnce DEF S
    <3>7. sum[t] = 1 BY <1>3, <2>2, <2>4, <3>2, <3>4, <3>6 DEF S
    <3>8. 1 \in Nat OBVIOUS
    <3>9. total[t] = 1 BY <1>10, <2>2, <2>3, <2>4, <3>7, <3>8, Zenon
    <3> QED BY <1>5, <1>12, <2>4, <3>9
  <2> QED BY <1>10, <2>2, <2>3, <2>4
<1>13. ASSUME parent = "Core"
       PROVE  e \in DOMAIN P(parent) /\ e \in DOMAIN total /\ P(parent)[e] = total[e]
  <2>1. has(e) = Sharing(c) BY <1>6, <1>8, <1>9, <1>13
  <2>2. e \in terms /\ e \notin DOMAIN pipe
    <3>1. "ifu" \in Sharing(c) BY DEF Sharing
    <3> QED BY <1>2, <1>7, <1>8, <1>13, <2>1, <3>1
  <2> DEFINE S == Sharing(c)
  <2>3. IsFiniteSet(S) /\ Cardinality(S) = Shares(c) BY SharingCount
  <2>4. Shares(c) \in 0 .. 5 /\ Shares(c) \in Nat BY DEF Shares
  <2>5. \A ch \in S : PowerOf(pass, ch)[e] = 1 BY <1>6 DEF P
  <2> HIDE DEF S
  <2>6. LentOf(pass, e, S) = Cardinality(S) BY <2>3, <2>4, <2>5, LentOnce
  <2>7. sum[e] = Shares(c) BY <1>3, <2>1, <2>2, <2>3, <2>6 DEF S
  <2>8. total[e] = Shares(c) BY <1>10, <2>2, <2>4, <2>7, Zenon
  <2> QED BY <1>6, <1>10, <1>13, <2>2, <2>8
<1>14. ASSUME parent # "Core"
       PROVE  /\ e \in DOMAIN P(parent) <=> e \in DOMAIN total
              /\ e \in DOMAIN P(parent) => P(parent)[e] = total[e]
  <2>1. e \notin terms BY <1>2, <1>6, <1>8, <1>9, <1>14
  <2>2. CASE parent \in Sharing(c)
    <3>1. 1 \in Nat OBVIOUS
    <3>2. e \in DOMAIN pipe /\ pipe[e] = 1 BY <1>7, <2>2
    <3>3. total[e] = 1 /\ e \in DOMAIN total
      BY <1>10, <2>1, <3>1, <3>2, Zenon
    <3> QED BY <1>6, <2>2, <3>3
  <2>3. CASE parent \notin Sharing(c)
    <3>1. e \notin DOMAIN total BY <1>7, <1>10, <2>1, <2>3
    <3> QED BY <1>6, <1>14, <2>3, <3>1
  <2> QED BY <2>2, <2>3
<1>15. \A t : t[2] # "leakage" =>
         /\ t \in DOMAIN P(parent) <=> t \in DOMAIN total
         /\ t \in DOMAIN P(parent) => P(parent)[t] = total[t]
  BY <1>12, <1>13, <1>14
<1>16. Dynamic(P(parent)) = Dynamic(total) BY <1>15, SameDynamic
<1> QED BY <1>16 DEF AddsUp, P, total

\* The invariant implies the property.
LEMMA BreakdownIn ==
    ASSUME Billing
    PROVE  BreakdownAddsUp
<1> SUFFICES ASSUME phase = "destroy", NEW parent \in {l[1] : l \in shown},
                    NEW pass \in {"tdp", "rtp"}
             PROVE
        LET children == {l[2] : l \in {k \in shown : k[1] = parent}}
                          \ {"L2_localBPT"}
            terms == UNION {BagToSet(PowerOf(pass, ch)) : ch \in children}
            sum == [t \in terms |-> LET has == {ch \in children :
                                                  BagIn(t, PowerOf(pass, ch))}
                                    IN  MapThenSumSet(
                                          LAMBDA ch : PowerOf(pass, ch)[t], has)]
            pipe == IF parent \in Sharing(cfg)
                    THEN SetToBag({<<"corepipe", "share", pass>>}) ELSE EmptyBag
        IN  Dynamic(PowerOf(pass, parent)) = Dynamic(sum (+) pipe)
  BY Zenon DEF BreakdownAddsUp
<1> DEFINE children == {l[2] : l \in {k \in shown : k[1] = parent}}
                         \ {"L2_localBPT"}
           terms == UNION {BagToSet(PowerOf(pass, ch)) : ch \in children}
           sum == [t \in terms |-> LET has == {ch \in children :
                                                 BagIn(t, PowerOf(pass, ch))}
                                   IN  MapThenSumSet(
                                         LAMBDA ch : PowerOf(pass, ch)[t], has)]
           pipe == IF parent \in Sharing(cfg)
                   THEN SetToBag({<<"corepipe", "share", pass>>}) ELSE EmptyBag
           c == cfg
<1>1. Accounting /\ Computed /\ \E plevel \in 1 .. 5 : shown = displayEnergy(cfg, plevel)
  BY DEF Billing, Computed
<1>2. c \in ConfigType BY <1>1, OnceRoot
<1>3. c.root = "Core" /\ PrintedWhole(c, parent)
  <2>1. PICK l \in shown : l[1] = parent OBVIOUS
  <2> QED BY <1>1, <1>2, <2>1, ShownLines
<1>4. Settled(c, pass) BY <1>1, <1>3, CoreSettled
<1>5. \A k \in shown : k = <<k[1], k[2]>>
  <2>1. PICK plevel \in 1 .. 5 : shown = Core_display(c, plevel)
    BY <1>1, <1>3 DEF displayEnergy
  <2>2. PICK A, M, H : Grouped(c, A, M, H) BY DisplayGroups
  <2>3. shown \subseteq A \cup M \cup H BY <2>1, <2>2 DEF Grouped
  <2>4. \A k \in A \cup M \cup H : k = <<k[1], k[2]>> BY <2>2 DEF Grouped
  <2> QED BY <2>3, <2>4
<1>6. ASSUME NEW n
      PROVE  n \in children <=> <<parent, n>> \in shown /\ n # "L2_localBPT"
  <2>1. ASSUME <<parent, n>> \in shown
        PROVE  n \in {l[2] : l \in {k \in shown : k[1] = parent}}
    <3> DEFINE j == <<parent, n>>
    <3>1. j \in shown /\ j[1] = parent /\ j[2] = n BY <2>1
    <3> HIDE DEF j
    <3> QED BY <3>1
  <2> QED BY <1>5, <2>1
<1> HIDE DEF children
<1>7. DOMAIN sum = terms OBVIOUS
<1>8. \A t \in terms : sum[t] = LentOf(pass, t, {ch \in children :
                                                   BagIn(t, PowerOf(pass, ch))})
  BY Zenon DEF LentOf
<1>9. pipe = IF parent \in Sharing(c)
             THEN SetToBag({<<"corepipe", "share", pass>>}) ELSE EmptyBag
  OBVIOUS
<1>10. terms = UNION {BagToSet(PowerOf(pass, ch)) : ch \in children} OBVIOUS
<1> HIDE DEF terms, sum, pipe, c
<1>11. Displayed(c, pass, parent, children, sum, pipe)
  BY <1>3, <1>6, <1>7, <1>8, <1>9, <1>10, Zenon DEF Displayed
<1>12. AddsUp(pass, parent, sum, pipe)
  BY <1>2, <1>3, <1>4, <1>11, UnitAddsUp
<1> QED BY <1>12, Zenon DEF AddsUp, children, terms, sum, pipe, c

\* Whatever the print level, the dynamic power that displayEnergy prints for a
\* unit is the sum of what it prints for the unit's parts, in both passes, with
\* the share of the pipeline on top; L2_localBPT is in no total.
THEOREM BreakdownHolds == ESpec => []BreakdownAddsUp
<1>1. Billing => BreakdownAddsUp BY BreakdownIn
<1> QED BY <1>1, BillingInvariant, PTL

-----------------------------------------------------------------------------
(* The pointers that the printout follows. *)

\* The names of parts stand for themselves.
LEMMA FollowedParts ==
    /\ Followed("ID") = Decoders /\ Followed("BPT") = {"RAS"}
    /\ Followed("rnu") = {"iFRAT"} /\ Followed("l2cache") = {"unicache.caches"}
    /\ \A n \in {"icache", "dcache", "bypass", "ifu", "lsu", "mmu", "exu",
                 "rfu", "scheu"} : Followed(n) = {}
    /\ \A n \in {"globalBPT", "L1_localBPT", "L2_localBPT", "chooser", "RAS",
                 "IB", "BTB", "iFRAT", "fFRAT", "ifreeL", "iRRAT", "fRRAT",
                 "ffreeL", "int_inst_window", "fp_inst_window", "ROB", "LSQ",
                 "LoadQ", "itlb", "dtlb", "IRF", "FRF", "RFWIN", "exeu",
                 "fp_u", "mul"} : Followed(n) = {n}
  BY DEF Followed

\* The lines below one unit.
LEMMA LinesReached ==
    ASSUME NEW c, NEW parent, NEW S, \A n \in S : Followed(n) \subseteq CoreParts(c)
    PROVE  Reached(c, Lines(parent, S))
  BY DEF Reached, Lines

\* The lines of instruction fetch.
LEMMA InstFetchUReached ==
    ASSUME NEW c, NEW plevel
    PROVE  Reached(c, InstFetchU_display(c, plevel))
<1>1. \A n \in {"icache", "IB", "ID"} : Followed(n) \subseteq CoreParts(c)
  BY FollowedParts DEF CoreParts, InstFetchUParts
<1>2. Reached(c, Lines("ifu", {"icache", "IB", "ID"})) BY <1>1, LinesReached
<1>3. ASSUME c.predictionW > 0
      PROVE  /\ Reached(c, Lines("ifu", {"BTB", "BPT"}))
             /\ Reached(c, BranchPredictor_display)
  <2>1. Tables \cup {"RAS", "BTB"} \subseteq CoreParts(c)
    BY <1>3 DEF CoreParts, InstFetchUParts
  <2>2. \A n \in {"BTB", "BPT"} : Followed(n) \subseteq CoreParts(c)
    BY <2>1, FollowedParts
  <2>3. \A n \in Tables \cup {"RAS"} : Followed(n) \subseteq CoreParts(c)
    BY <2>1, FollowedParts DEF Tables
  <2> QED BY <2>2, <2>3, LinesReached DEF BranchPredictor_display
<1> QED BY <1>2, <1>3 DEF Reached, InstFetchU_display

\* Those of load and store, and of memory management.
LEMMA MemoryReached ==
    ASSUME NEW c
    PROVE  Reached(c, LoadStoreU_display(c)) /\ Reached(c, MemManU_display)
<1> DEFINE load == IF HasLoadQ(c) THEN {"LoadQ"} ELSE {}
<1>1. \A n \in {"dcache", "LSQ"} \cup load : Followed(n) \subseteq CoreParts(c)
  BY FollowedParts DEF CoreParts, LoadStoreUParts, LoadStoreUCounted
<1>2. \A n \in {"itlb", "dtlb"} : Followed(n) \subseteq CoreParts(c)
  BY FollowedParts DEF CoreParts, MemManUParts
<1>3. Reached(c, Lines("lsu", {"dcache", "LSQ"} \cup load))
  <2> HIDE DEF load
  <2> QED BY <1>1, LinesReached
<1>4. Reached(c, Lines("mmu", {"itlb", "dtlb"})) BY <1>2, LinesReached
<1> QED BY <1>3, <1>4 DEF LoadStoreU_display, MemManU_display

\* Those of the register files and the scheduler.
LEMMA WindowsReached ==
    ASSUME NEW c
    PROVE  Reached(c, RegFU_display(c)) /\ Reached(c, SchedulerU_display(c))
<1> DEFINE win == IF RegWindowing(c) THEN {"RFWIN"} ELSE {}
           rob == IF c.ROB > 0 THEN {"ROB"} ELSE {}
<1>1. {"IRF", "FRF"} \cup win \subseteq CoreParts(c)
  BY DEF CoreParts, EXECUParts, RegFUParts
<1>2. /\ c.OOO => {"int_inst_window", "fp_inst_window"} \cup rob
                     \subseteq CoreParts(c)
      /\ ~c.OOO /\ c.threads > 1 => "int_inst_window" \in CoreParts(c)
  BY DEF CoreParts, EXECUParts, SchedulerUParts, SchedulerUCounted
<1>3. Reached(c, Lines("rfu", {"IRF", "FRF"} \cup win))
  <2>1. \A n \in {"IRF", "FRF"} \cup win : Followed(n) \subseteq CoreParts(c)
    BY <1>1, FollowedParts
  <2> HIDE DEF win
  <2> QED BY <2>1, LinesReached
<1>4. c.OOO => Reached(c, Lines("scheu", {"int_inst_window", "fp_inst_window"}
                                             \cup rob))
  <2>1. c.OOO => \A n \in {"int_inst_window", "fp_inst_window"} \cup rob :
                   Followed(n) \subseteq CoreParts(c)
    BY <1>2, FollowedParts
  <2> HIDE DEF rob
  <2> QED BY <2>1, LinesReached
<1>5. ~c.OOO /\ c.threads > 1 =>
        Reached(c, Lines("scheu", {"int_inst_window"}))
  <2>1. ~c.OOO /\ c.threads > 1 =>
          \A n \in {"int_inst_window"} : Followed(n) \subseteq CoreParts(c)
    BY <1>2, FollowedParts
  <2> QED BY <2>1, LinesReached
<1>6. Reached(c, {}) BY DEF Reached
<1> QED
  BY <1>3, <1>4, <1>5, <1>6 DEF RegFU_display, SchedulerU_display

\* Those of execution.
LEMMA EXECUReached ==
    ASSUME NEW c, NEW plevel
    PROVE  Reached(c, EXECU_display(c, plevel))
<1> DEFINE fpu == IF c.fpus > 0 THEN {"fp_u"} ELSE {}
           mul == IF c.muls > 0 THEN {"mul"} ELSE {}
           S == {"rfu", "scheu", "exeu", "bypass"} \cup fpu \cup mul
<1>1. {"exeu"} \cup fpu \cup mul \subseteq CoreParts(c)
  BY DEF CoreParts, EXECUParts, Units
<1>2. \A n \in S : Followed(n) \subseteq CoreParts(c) BY <1>1, FollowedParts
<1>3. Reached(c, Lines("exu", S))
  <2> HIDE DEF S
  <2> QED BY <1>2, LinesReached
<1> HIDE DEF S
<1>4. EXECU_display(c, plevel) =
        Lines("exu", S) \cup (IF plevel > 3
                              THEN RegFU_display(c) \cup SchedulerU_display(c)
                              ELSE {})
  BY DEF EXECU_display, S
<1> QED BY <1>3, <1>4, WindowsReached DEF Reached

\* Those of renaming.
LEMMA RenamingReached ==
    ASSUME NEW c, c.OOO
    PROVE  Reached(c, RENAMINGU_display(c))
<1> DEFINE retire == IF c.PRF THEN {"iRRAT", "fRRAT", "ffreeL"} ELSE {}
<1>1. {"iFRAT", "fFRAT", "ifreeL"} \cup retire \subseteq CoreParts(c)
  BY DEF CoreParts, RenamingParts, RENAMINGUParts, RENAMINGUCounted
<1>2. \A n \in {"iFRAT", "fFRAT", "ifreeL"} \cup retire :
         Followed(n) \subseteq CoreParts(c)
  BY <1>1, FollowedParts
<1> HIDE DEF retire
<1>3. Reached(c, Lines("rnu", {"iFRAT", "fFRAT", "ifreeL"} \cup retire))
  BY <1>2, LinesReached
<1> QED BY <1>3 DEF RENAMINGU_display, retire

\* All lines of a core.
LEMMA CoreReached ==
    ASSUME NEW c, NEW plevel
    PROVE  Reached(c, Core_display(c, plevel))
<1> DEFINE rnu == IF c.OOO THEN {"rnu"} ELSE {}
           l2 == IF c.Private_L2 THEN {"l2cache"} ELSE {}
           S == {"ifu", "lsu", "mmu", "exu"} \cup rnu \cup l2
           R == IF c.OOO THEN RENAMINGU_display(c) ELSE {}
<1>1. c.OOO => "iFRAT" \in CoreParts(c)
  BY DEF CoreParts, RenamingParts, RENAMINGUParts, RENAMINGUCounted
<1>2. c.Private_L2 => "unicache.caches" \in CoreParts(c)
  BY DEF CoreParts, PrivateParts, SharedCacheParts, SharedCacheCounted
<1>3. \A n \in S : Followed(n) \subseteq CoreParts(c)
  BY <1>1, <1>2, FollowedParts
<1>4. Core_display(c, plevel) =
        Lines("Core", S)
          \cup (IF plevel > 2
                THEN InstFetchU_display(c, plevel) \cup LoadStoreU_display(c)
                       \cup MemManU_display \cup EXECU_display(c, plevel) \cup R
                ELSE {})
  BY DEF Core_display
<1> HIDE DEF S
<1>5. Reached(c, Lines("Core", S)) BY <1>3, LinesReached
<1>6. Reached(c, R) BY RenamingReached DEF Reached
<1> HIDE DEF R
<1> QED
  BY <1>4, <1>5, <1>6, InstFetchUReached, MemoryReached, EXECUReached
  DEF Reached

\* What is printed was made.
LEMMA PrintsBuiltHolds ==
    ASSUME Billing
    PROVE  PrintsBuilt
<1> SUFFICES ASSUME phase = "destroy", NEW l \in shown
             PROVE  Followed(l[2]) \subseteq DOMAIN built
  BY DEF PrintsBuilt
<1>1. Computation BY DEF Billing, Accounting
<1>2. PICK plevel \in 1 .. 5 : shown = displayEnergy(cfg, plevel)
  BY DEF Billing
<1>3. cfg.root = "Core" /\ l \in Core_display(cfg, plevel)
  BY <1>2 DEF displayEnergy
<1>4. DOMAIN built = CoreParts(cfg) BY <1>1, <1>3, AllBuilt DEF ProgramParts
<1> QED BY <1>3, <1>4, CoreReached DEF Reached

\* For every configuration and print level the energy passes and the printout
\* follow only pointers to parts that were made, and the destructors free
\* exactly what was made, but for the arrays of the cache objects.
THEOREM PointersMatchHolds == ESpec => []PointersMatch
<1>1. Billing => PointersMatch
  <2>1. Billing => Computation BY DEF Billing, Accounting
  <2> QED BY <2>1, OnlyBuiltHolds, PrintsBuiltHolds, AllFreedHolds
          DEF PointersMatch
<1> QED BY <1>1, BillingInvariant, PTL

=============================================================================
