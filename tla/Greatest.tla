------------------------------- MODULE Greatest -------------------------------
(***************************************************************************)
(* discoverSymlinks keeps the last of the rows with one release name: that *)
(* there is a last one.                                                    *)
(***************************************************************************)
EXTENDS Integers, TLAPS, WellFoundedInduction

\* Of some of the ids up to n one is the greatest.
LEMMA HasGreatest ==
    ASSUME NEW n \in Nat, NEW S \in SUBSET (1 .. n), S # {}
    PROVE  \E id \in S : \A other \in S : other <= id
<1> DEFINE G == {n - id : id \in S}
           Less == {km \in Nat \X Nat : km[1] < km[2]}
<1>1. \A id \in S : id \in Nat /\ n - id \in Nat
  OBVIOUS
<1>2. G \subseteq Nat /\ G # {}
  BY <1>1
<1>3. \A id \in S : n - id \in G
  OBVIOUS
<1>4. \A g \in G : \E id \in S : g = n - id
  OBVIOUS
<1>5. IsWellFoundedOn(Less, Nat)
  BY NatLessThanWellFounded DEF OpToRel
<1>6. \A k, m \in Nat : k < m => <<k, m>> \in Less
  OBVIOUS
<1> HIDE DEF Less, G
<1>7. PICK g \in G : \A h \in G : ~(<<h, g>> \in Less)
  BY <1>2, <1>5, WFMin
<1>8. ASSUME NEW h \in G PROVE g <= h
  <2>1. g \in Nat /\ h \in Nat
    BY <1>2
  <2>2. ~(h < g)
    BY <2>1, <1>6, <1>7
  <2>3. QED  BY <2>1, <2>2
<1>9. PICK id \in S : g = n - id
  BY <1>4
<1>10. \A other \in S : other <= id
  BY <1>1, <1>3, <1>8, <1>9
<1>11. QED  BY <1>10
=============================================================================
