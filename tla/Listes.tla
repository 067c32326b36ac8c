------------------------------- MODULE Listes -------------------------------
(***************************************************************************)
(* What the iterators of the standard library do to a list: filter and     *)
(* retain, sort_by_key, dedup_by_key.  Positions are counted, so that what *)
(* comes out is defined, and proved about, without recursion.              *)
(***************************************************************************)
EXTENDS Naturals, Sequences, FiniteSets

(* The elements of s at the positions of I, in their order.                 *)
Extraire(s, I) ==
  [n \in 1..Cardinality(I) |->
     s[CHOOSE i \in I : Cardinality({k \in I : k <= i}) = n]]

(* Position of entry i of j after a stable sort by entity.                  *)
Rang(j, i) ==
  Cardinality({k \in DOMAIN j :
                 \/ j[k].entite < j[i].entite
                 \/ j[k].entite = j[i].entite /\ k <= i})

TrierParEntite(j) ==
  [n \in DOMAIN j |-> j[CHOOSE i \in DOMAIN j : Rang(j, i) = n]]

(* The entries that start a run of equal entities, and those alone.         *)
Tetes(j) == {i \in DOMAIN j : i = 1 \/ j[i].entite # j[i - 1].entite}

Dedupliquer(j) == Extraire(j, Tetes(j))

StrictementTrie(j) ==
  \A i, k \in DOMAIN j : i < k => j[i].entite < j[k].entite
=============================================================================
