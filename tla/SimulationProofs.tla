-------------------------- MODULE SimulationProofs --------------------------
(***************************************************************************)
(* What the harness promises of its writes, and what its measures say of   *)
(* them, holds for any entities, cells, nodes and thresholds, and any      *)
(* horizon within the ring, under any router that leaves an entity where   *)
(* it is or moves it where it was asked; the delay of a change of cell,    *)
(* under either of its routers.                                            *)
(***************************************************************************)
EXTENDS Rapport, Integers, FiniteSetTheorems, TLAPS

Entrees == [lieu : Lieux, essais : Nat, derniere : SUBSET Nat]
Sceaux  == [lieu : Lieux, sceau : Nat]

(* All the harness asks of the Routeur trait (routage.rs:20-29).            *)
RouteurFidele ==
  \A x \in Entrees, dest \in Lieux, t \in Nat :
    Migrer(x, dest, t) \in Entrees /\ Migrer(x, dest, t).lieu \in {x.lieu, dest}

(* The tick of seal of a write to cell x at the next step.                  *)
Prochain(x) == TickDeSceau(Reevalues[x], tick)

SimType ==
  /\ tick \in Nat
  /\ suivies \subseteq Entites
  /\ annuaire \in [Entites -> SUBSET Entrees]
  /\ ecriture \in [Entites -> SUBSET Sceaux]
  /\ palier \in [Cellules -> Paliers]
  /\ ouverts \subseteq Sceaux
  /\ scelles \subseteq Sceaux
  /\ inscriptions \subseteq [entite : Entites, lieu : Lieux, sceau : Nat]

(* No write goes any more to what is sealed, nor before the last write.     *)
Clos   == \A k \in scelles : k.sceau < Prochain(k.lieu.cellule)
Avance == \A e \in Entites : \A w \in ecriture[e] : w.sceau <= Prochain(w.lieu.cellule)

(* An entity has one last write, and it was nowhere else since.             *)
Derniere ==
  /\ \A e \in Entites : \A v, w \in ecriture[e] : v = w
  /\ \A i \in inscriptions : \E w \in ecriture[i.entite] :
       i.sceau < w.sceau \/ (i.sceau = w.sceau /\ i.lieu = w.lieu)

(* What is left open is recent, and nothing is of a tick to come.           *)
Recents == \A k \in ouverts : k.sceau + HorizonNominal * Quart >= tick
Passes  == \A k \in ouverts \cup scelles : k.sceau < tick

SimInv ==
  /\ SimType /\ Clos /\ Avance /\ Derniere /\ Recents /\ Passes
  /\ SansRejet /\ SansDuplication

-----------------------------------------------------------------------------
(* The ticks of seal of a cell only go forward, and pass what is sealed.    *)

LEMMA ReevaluesType ==
  ASSUME palier \in [Cellules -> Paliers]
  PROVE  Reevalues \in [Cellules -> Paliers]
BY DEF Reevalues, Palier, Paliers, Nominal, Demi, Quart

LEMMA SceauType ==
  ASSUME NEW p \in Paliers, NEW t \in Nat
  PROVE  /\ TickDeSceau(p, t) \in Nat
         /\ TickDeSceau(p, t) <= t
         /\ t % Quart = 0 => TickDeSceau(p, t) = t
         /\ TickDeSceau(p, t) <= TickDeSceau(p, t + 1)
         /\ t < TickDeSceau(p, t) + p
<1>1. CASE p = 1
  BY <1>1 DEF TickDeSceau, Quart
<1>2. CASE p = 2
  BY <1>2 DEF TickDeSceau, Quart
<1>3. CASE p = 4
  BY <1>3 DEF TickDeSceau, Quart
<1>4. QED
  BY <1>1, <1>2, <1>3 DEF Paliers, Nominal, Demi, Quart

LEMMA HorizonPasse ==
  ASSUME NEW p \in Paliers, NEW s \in Nat, NEW t \in Nat
  PROVE  /\ s + HorizonTicks(p) <= t => s + p <= t
         /\ ~(s + HorizonTicks(p) <= t) => s + HorizonNominal * Quart >= t + 1
<1>1. HorizonNominal \in Nat \ {0}
  BY CadenceAssumption, HorizonAssumption
<1>2. CASE p = 1
  BY <1>1, <1>2 DEF HorizonTicks, Quart
<1>3. CASE p = 2
  BY <1>1, <1>3 DEF HorizonTicks, Quart
<1>4. CASE p = 4
  BY <1>1, <1>4 DEF HorizonTicks, Quart
<1>5. QED
  BY <1>2, <1>3, <1>4 DEF Paliers, Nominal, Demi, Quart

(* From one step to the next.                                               *)
LEMMA ProchainAvance ==
  ASSUME SimType, NEW x \in Cellules, tick' = tick + 1, palier' = Reevalues
  PROVE  /\ Prochain(x) \in Nat /\ Prochain(x)' \in Nat
         /\ Prochain(x) <= Prochain(x)'
         /\ \A s \in Nat : s + Reevalues[x] <= tick => s < Prochain(x)'
<1> DEFINE p == Reevalues[x]
           q == Reevalues'[x]
<1>1. p \in Paliers /\ q \in Paliers /\ tick \in Nat /\ tick' \in Nat
  <2>1. Reevalues \in [Cellules -> Paliers]
    BY ReevaluesType DEF SimType
  <2>2. Reevalues' \in [Cellules -> Paliers]
    BY <2>1 DEF Reevalues, Palier, Paliers, Nominal, Demi, Quart
  <2>3. QED
    BY <2>1, <2>2 DEF SimType
<1>2. Prochain(x) = TickDeSceau(p, tick) /\ Prochain(x)' = TickDeSceau(q, tick')
  BY DEF Prochain, TickDeSceau
<1>3. tick' % Quart # 0 => q = p
  BY DEF Reevalues
<1> HIDE DEF p, q
<1>4. p \in Nat /\ p > 0
  BY <1>1 DEF Paliers, Nominal, Demi, Quart
<1>5. CASE tick' % Quart = 0
  <2>1. TickDeSceau(q, tick') = tick'
    BY <1>1, <1>5, SceauType
  <2>2. TickDeSceau(p, tick) \in Nat /\ TickDeSceau(p, tick) <= tick
    BY <1>1, SceauType
  <2>3. QED
    BY <1>1, <1>2, <1>4, <2>1, <2>2 DEF p
<1>6. CASE tick' % Quart # 0
  <2>1. /\ TickDeSceau(p, tick) \in Nat /\ TickDeSceau(p, tick + 1) \in Nat
        /\ TickDeSceau(p, tick) <= TickDeSceau(p, tick + 1)
        /\ tick + 1 < TickDeSceau(p, tick + 1) + p
    BY <1>1, SceauType
  <2>2. q = p
    BY <1>3, <1>6
  <2>3. ASSUME NEW s \in Nat, s + p <= tick PROVE s < TickDeSceau(p, tick + 1)
    BY <1>1, <1>4, <2>1, <2>3
  <2>4. QED
    BY <1>2, <2>1, <2>2, <2>3 DEF p
<1>7. QED
  BY <1>5, <1>6

-----------------------------------------------------------------------------
(* One entity in one step.                                                  *)

CibleDe(e, x) == Cible(e, Arbitre(e, x).lieu, Reevalues)
CleDe(e, x)   == [lieu |-> CibleDe(e, x), sceau |-> Sceau(CibleDe(e, x), Reevalues)]

LEMMA LieuType ==
  /\ \A x \in Cellules : Lieu(x) \in Lieux /\ Lieu(x).cellule = x
  /\ \A l \in Lieux : l.cellule \in Cellules /\ Lieu(l.cellule) = l
BY DEF Lieux, Lieu

LEMMA ArbitreType ==
  ASSUME SimType, RouteurFidele, NEW e \in Entites, NEW x \in Cellules
  PROVE  Arbitre(e, x) \in Entrees
<1> DEFINE a == CHOOSE y \in annuaire[e] : TRUE
<1>1. Inscrite(Lieu(x)) \in Entrees
  BY LieuType DEF Inscrite, Entrees
<1>2. annuaire[e] # {} => a \in Entrees
  BY DEF SimType
<1>3. annuaire[e] # {} => Migrer(a, Lieu(x), tick) \in Entrees
  <2> HIDE DEF a
  <2> QED
    BY <1>2, LieuType DEF RouteurFidele, SimType
<1>4. QED
  BY <1>1, <1>2, <1>3 DEF Arbitre

(* The change of cell waits until the new chronotope is later than the one  *)
(* last written.                                                            *)
LEMMA CibleSuit ==
  ASSUME SimType, Avance, NEW e \in Entites, NEW autorite \in Lieux,
         \A v, w \in ecriture[e] : v = w
  PROVE  LET l == Cible(e, autorite, Reevalues)
         IN  /\ l \in Lieux
             /\ \A w \in ecriture[e] :
                  \/ w.sceau < Sceau(l, Reevalues)
                  \/ (w.sceau <= Sceau(l, Reevalues) /\ w.lieu = l)
<1> DEFINE retenue == {w \in ecriture[e] : w.lieu # autorite
                                           /\ Sceau(autorite, Reevalues) <= w.sceau}
           v == CHOOSE w \in retenue : TRUE
           l == Cible(e, autorite, Reevalues)
<1>1. \A w \in ecriture[e] : /\ w \in Sceaux
                             /\ w.sceau <= Sceau(w.lieu, Reevalues)
  BY DEF SimType, Avance, Prochain, Sceau
<1>2. Sceau(autorite, Reevalues) \in Nat
  BY ReevaluesType, SceauType, LieuType DEF Sceau, SimType
<1>3. CASE retenue = {}
  <2>1. l = autorite
    BY <1>3 DEF Cible
  <2>2. ASSUME NEW w \in ecriture[e]
        PROVE  w.lieu = autorite \/ ~(Sceau(autorite, Reevalues) <= w.sceau)
    BY <1>3
  <2>3. \A w \in ecriture[e] : w.sceau \in Nat
    BY <1>1 DEF Sceaux
  <2> HIDE DEF retenue, l
  <2>4. QED
    BY <1>1, <1>2, <2>1, <2>2, <2>3 DEF l
<1>4. CASE retenue # {}
  <2>1. l = v.lieu
    BY <1>4 DEF Cible
  <2>2. v \in ecriture[e]
    BY <1>4
  <2> HIDE DEF retenue, l, v
  <2>3. \A w \in ecriture[e] : w = v
    BY <2>2
  <2>4. QED
    BY <1>1, <2>1, <2>2, <2>3 DEF l, Sceaux
<1>5. QED
  BY <1>3, <1>4

LEMMA CleNeuve ==
  ASSUME SimInv, RouteurFidele, NEW e \in Entites, NEW x \in Cellules
  PROVE  /\ CleDe(e, x) \in Sceaux
         /\ CleDe(e, x).sceau = Prochain(CleDe(e, x).lieu.cellule)
         /\ CleDe(e, x).sceau <= tick /\ tick < CleDe(e, x).sceau + Quart
         /\ CleDe(e, x) \notin scelles
         /\ \A w \in ecriture[e] :
              \/ w.sceau < CleDe(e, x).sceau
              \/ (w.sceau <= CleDe(e, x).sceau /\ w.lieu = CleDe(e, x).lieu)
         /\ \A i \in inscriptions :
              i.entite = e /\ i.sceau = CleDe(e, x).sceau => i.lieu = CleDe(e, x).lieu
<1> DEFINE k == CleDe(e, x)
<1>1. Arbitre(e, x).lieu \in Lieux
  BY ArbitreType DEF SimInv, Entrees
<1>2. /\ k.lieu \in Lieux
      /\ \A w \in ecriture[e] :
           w.sceau < k.sceau \/ (w.sceau <= k.sceau /\ w.lieu = k.lieu)
  BY <1>1, CibleSuit DEF SimInv, Derniere, CleDe, CibleDe
<1>3. k.sceau = Prochain(k.lieu.cellule)
  BY DEF CleDe, Prochain, Sceau
<1>4. k.sceau \in Nat
  BY <1>2, <1>3, ReevaluesType, SceauType, LieuType DEF Prochain, SimInv, SimType
<1>5. k \in Sceaux
  BY <1>2, <1>4 DEF CleDe, Sceaux
<1> HIDE DEF k
<1>6. k \notin scelles
  BY <1>3, <1>4 DEF SimInv, Clos
<1>7. ASSUME NEW i \in inscriptions, i.entite = e, i.sceau = k.sceau
      PROVE  i.lieu = k.lieu
  <2>1. PICK w \in ecriture[e] : i.sceau < w.sceau \/ (i.sceau = w.sceau /\ i.lieu = w.lieu)
    BY <1>7 DEF SimInv, Derniere
  <2>2. w.sceau \in Nat
    BY DEF SimInv, SimType, Sceaux
  <2>3. w.sceau < k.sceau \/ (w.sceau <= k.sceau /\ w.lieu = k.lieu)
    BY <1>2
  <2>4. QED
    BY <1>4, <1>7, <2>1, <2>2, <2>3
<1>8. k.sceau <= tick /\ tick < k.sceau + Quart
  <2> DEFINE p == Reevalues[k.lieu.cellule]
  <2>1. p \in Paliers /\ tick \in Nat
    BY <1>2, ReevaluesType, LieuType DEF SimInv, SimType
  <2>2. k.sceau = TickDeSceau(p, tick)
    BY <1>3 DEF Prochain
  <2> HIDE DEF p
  <2>3. k.sceau <= tick /\ tick < k.sceau + p
    BY <2>1, <2>2, SceauType
  <2>4. QED
    BY <1>4, <2>1, <2>3 DEF Paliers, Nominal, Demi, Quart
<1>9. QED
  BY <1>2, <1>3, <1>5, <1>6, <1>7, <1>8 DEF k

(* Two ticks that share a slot of the ring are at least a turn of it apart. *)
LEMMA TourDAnneau ==
  ASSUME NEW a \in Nat, NEW b \in Nat, a < b, a % Anneau = b % Anneau
  PROVE  a + Anneau <= b
<1> DEFINE q == a \div Anneau
           r == b \div Anneau
<1>1. /\ q \in Nat /\ r \in Nat /\ Anneau \in Nat \ {0}
      /\ b - a = Anneau * (r - q)
  <2>1. Anneau \in Nat \ {0}
    BY SimulationAssumption
  <2>2. /\ q \in Nat /\ r \in Nat
        /\ a = Anneau * q + (a % Anneau) /\ b = Anneau * r + (b % Anneau)
    BY <2>1
  <2> HIDE DEF q, r
  <2>3. a % Anneau \in Nat /\ Anneau * q \in Nat /\ Anneau * r \in Nat
    BY <2>1, <2>2
  <2>4. b - a = Anneau * r - Anneau * q
    BY <2>2, <2>3
  <2>5. Anneau * r - Anneau * q = Anneau * (r - q)
    BY <2>1, <2>2
  <2>6. QED
    BY <2>1, <2>2, <2>4, <2>5
<1> HIDE DEF q, r
<1>2. q < r
  <2>1. SUFFICES ASSUME r <= q PROVE FALSE
    BY <1>1
  <2>2. \A n \in Nat : Anneau * n \in Nat
    BY <1>1
  <2>3. q - r \in Nat /\ Anneau * (q - r) \in Nat /\ Anneau * (r - q) = 0 - Anneau * (q - r)
    BY <1>1, <2>1, <2>2
  <2>4. QED
    BY <1>1, <2>3
<1>3. Anneau * (r - q) >= Anneau
  <2>1. r - q - 1 \in Nat
    BY <1>1, <1>2
  <2>2. \A n \in Nat : Anneau * (n + 1) >= Anneau
    BY <1>1
  <2>3. QED
    BY <1>1, <2>1, <2>2
<1>4. QED
  BY <1>1, <1>3

(* No chronotope as recent as the coarsest horizon has lost its slot.       *)
LEMMA SansDepassement ==
  ASSUME NEW t \in Nat, NEW k \in Sceaux, k.sceau + HorizonNominal * Quart >= t,
         NEW cles, \A l \in cles : l.sceau \in Nat /\ l.sceau <= t
  PROVE  ~Depassee(k, cles)
<1>1. SUFFICES ASSUME NEW l \in cles, MemeSlot(k, l), k.sceau < l.sceau PROVE FALSE
  BY DEF Depassee
<1>2. k.sceau \in Nat /\ l.sceau \in Nat /\ l.sceau <= t
  BY DEF Sceaux
<1>3. k.sceau + Anneau <= l.sceau
  BY <1>1, <1>2, TourDAnneau DEF MemeSlot
<1>4. /\ HorizonNominal * Quart \in Nat /\ Anneau \in Nat
      /\ HorizonNominal * Quart < Anneau
  BY CadenceAssumption, SimulationAssumption, HorizonAssumption DEF Quart
<1>5. QED
  BY <1>2, <1>3, <1>4

LEMMA CleAcceptee ==
  ASSUME SimInv, RouteurFidele, NEW e \in Entites, NEW x \in Cellules
  PROVE  Acceptee(CleDe(e, x)) /\ CleDe(e, x).sceau + HorizonNominal * Quart >= tick
<1> DEFINE k == CleDe(e, x)
<1>1. k \in Sceaux /\ k \notin scelles /\ tick < k.sceau + Quart
  BY CleNeuve
<1> HIDE DEF k
<1>2. k.sceau \in Nat /\ tick \in Nat
  BY <1>1 DEF Sceaux, SimInv, SimType
<1>3. HorizonNominal * Quart >= Quart /\ HorizonNominal * Quart \in Nat
  BY CadenceAssumption, HorizonAssumption DEF Quart
<1>4. k.sceau + HorizonNominal * Quart >= tick
  BY <1>1, <1>2, <1>3 DEF Quart
<1>5. \A l \in ouverts \cup scelles : l.sceau \in Nat /\ l.sceau <= tick
  BY <1>2 DEF SimInv, SimType, Sceaux, Passes
<1>6. ~Depassee(k, ouverts \cup scelles)
  BY <1>1, <1>2, <1>4, <1>5, SansDepassement
<1>7. QED
  BY <1>1, <1>4, <1>6 DEF Acceptee, k

-----------------------------------------------------------------------------
(* A step: nothing is refused, and each kind of state follows.              *)

LEMMA PasAccepte ==
  ASSUME SimInv, RouteurFidele, NEW c \in [suivies -> Cellules], Pas(c)
  PROVE  LET cles == {CleDe(e, c[e]) : e \in suivies}
         IN  /\ tick' = tick + 1 /\ suivies' = suivies /\ palier' = Reevalues
             /\ annuaire' = [e \in Entites |-> IF e \in suivies THEN {Arbitre(e, c[e])} ELSE {}]
             /\ ecriture' = [e \in Entites |-> IF e \in suivies THEN {CleDe(e, c[e])} ELSE ecriture[e]]
             /\ inscriptions' =
                  {i \in inscriptions \cup
                         {[entite |-> e, lieu |-> CleDe(e, c[e]).lieu, sceau |-> CleDe(e, c[e]).sceau]
                            : e \in suivies}
                     : Retenu(i.sceau)}
             /\ ouverts' = (ouverts \cup cles) \ Expires(ouverts \cup cles, Reevalues)
             /\ scelles' = scelles \cup Expires(ouverts \cup cles, Reevalues)
             /\ pertes' = 0 /\ duplications' = 0
<1> DEFINE entree == [e \in suivies |-> Arbitre(e, c[e])]
           cible  == [e \in suivies |-> Cible(e, entree[e].lieu, Reevalues)]
           cle    == [e \in suivies |-> [lieu |-> cible[e], sceau |-> Sceau(cible[e], Reevalues)]]
           admises == {e \in suivies : Acceptee(cle[e])}
           doubles == {e \in admises : Doublee(e, cle[e])}
<1>1. \A e \in suivies : /\ entree[e] = Arbitre(e, c[e])
                         /\ cible[e] = CleDe(e, c[e]).lieu
                         /\ cle[e] = CleDe(e, c[e])
  BY DEF CleDe, CibleDe
<1>2. \A e \in suivies : e \in Entites /\ c[e] \in Cellules
  BY DEF SimInv, SimType
<1>3. /\ tick \in Nat
      /\ \A k \in ouverts \cup scelles : k \in Sceaux /\ k.sceau \in Nat /\ k.sceau <= tick
      /\ \A e \in suivies : CleDe(e, c[e]).sceau + HorizonNominal * Quart >= tick
  BY <1>2, CleAcceptee DEF SimInv, SimType, Sceaux, Passes
<1>4. admises = suivies
  <2>1. \A e \in suivies : Acceptee(CleDe(e, c[e]))
    BY <1>2, CleAcceptee
  <2> HIDE DEF cle
  <2>2. QED
    BY <1>1, <2>1
<1>5. doubles = {}
  <2>1. ASSUME NEW e \in suivies PROVE ~Doublee(e, CleDe(e, c[e]))
    BY <1>2, CleNeuve DEF Doublee
  <2> HIDE DEF cle, admises
  <2>2. QED
    BY <1>1, <1>4, <2>1
<1>6. pertes' = pertes + Cardinality(suivies \ admises)
  BY DEF Pas
<1>7. duplications' = duplications + Cardinality(doubles)
  BY DEF Pas
<1>8. pertes' = 0 /\ duplications' = 0
  <2>1. suivies \ admises = {}
    BY <1>4
  <2>2. Cardinality({}) = 0
    BY FS_EmptySet
  <2> HIDE DEF admises, doubles
  <2>3. QED
    BY <1>5, <1>6, <1>7, <2>1, <2>2 DEF SimInv, SansRejet, SansDuplication
<1>9. {cle[e] : e \in admises} = {CleDe(e, c[e]) : e \in suivies}
  <2> HIDE DEF cle, admises
  <2>1. QED
    BY <1>1, <1>4
<1>10. /\ tick' = tick + 1 /\ suivies' = suivies /\ palier' = Reevalues
  BY DEF Pas
<1>11. annuaire' = [e \in Entites |-> IF e \in suivies THEN {Arbitre(e, c[e])} ELSE {}]
  <2>1. annuaire' = [e \in Entites |-> IF e \in suivies THEN {entree[e]} ELSE {}]
    BY DEF Pas
  <2> HIDE DEF entree
  <2>2. QED
    BY <1>1, <2>1
<1>12. ecriture' = [e \in Entites |-> IF e \in suivies THEN {CleDe(e, c[e])} ELSE ecriture[e]]
  <2>1. ecriture' = [e \in Entites |-> IF e \in admises THEN {cle[e]} ELSE ecriture[e]]
    BY DEF Pas
  <2> HIDE DEF cle, admises
  <2>2. QED
    BY <1>1, <1>4, <2>1
<1>13. inscriptions' =
         {i \in inscriptions \cup
                {[entite |-> e, lieu |-> CleDe(e, c[e]).lieu, sceau |-> CleDe(e, c[e]).sceau]
                   : e \in suivies}
            : Retenu(i.sceau)}
  <2>1. inscriptions' =
          {i \in inscriptions \cup
                 {[entite |-> e, lieu |-> cible[e], sceau |-> cle[e].sceau] : e \in admises}
             : Retenu(i.sceau)}
    BY DEF Pas
  <2> HIDE DEF cle, admises, cible
  <2>2. {[entite |-> e, lieu |-> cible[e], sceau |-> cle[e].sceau] : e \in admises}
          = {[entite |-> e, lieu |-> CleDe(e, c[e]).lieu, sceau |-> CleDe(e, c[e]).sceau]
               : e \in suivies}
    BY <1>1, <1>4
  <2>3. QED
    BY <2>1, <2>2
<1>14. LET ouv == ouverts \cup {cle[e] : e \in admises}
       IN  /\ ouverts' = ouv \ Expires(ouv, Reevalues)
           /\ scelles' = scelles \cup
                {[lieu |-> Lieu(k.lieu.cellule), sceau |-> k.sceau]
                   : k \in {l \in Expires(ouv, Reevalues) : ~Depassee(l, ouv \cup scelles)}}
  BY DEF Pas
<1> HIDE DEF cle, admises, cible, entree, doubles
<1>15. LET ouv == ouverts \cup {CleDe(e, c[e]) : e \in suivies}
       IN  {[lieu |-> Lieu(k.lieu.cellule), sceau |-> k.sceau]
              : k \in {l \in Expires(ouv, Reevalues) : ~Depassee(l, ouv \cup scelles)}}
             = Expires(ouv, Reevalues)
  <2> DEFINE ouv   == ouverts \cup {CleDe(e, c[e]) : e \in suivies}
             finis == Expires(ouv, Reevalues)
  <2>1. \A k \in ouv \cup scelles : k \in Sceaux /\ k.sceau \in Nat /\ k.sceau <= tick
    BY <1>2, <1>3, CleNeuve DEF Sceaux
  <2>2. \A k \in ouv : k.sceau + HorizonNominal * Quart >= tick
    BY <1>3 DEF SimInv, Recents
  <2>3. finis \subseteq ouv
    BY DEF Expires
  <2> HIDE DEF ouv, finis
  <2>4. \A k \in finis : ~Depassee(k, ouv \cup scelles)
    BY <1>3, <2>1, <2>2, <2>3, SansDepassement
  <2>5. \A k \in finis : [lieu |-> Lieu(k.lieu.cellule), sceau |-> k.sceau] = k
    BY <2>1, <2>3, LieuType DEF Sceaux
  <2>6. {[lieu |-> Lieu(k.lieu.cellule), sceau |-> k.sceau]
           : k \in {l \in finis : ~Depassee(l, ouv \cup scelles)}} = finis
    BY <2>4, <2>5
  <2>7. QED
    BY <2>6 DEF ouv, finis
<1>16. QED
  BY <1>8, <1>9, <1>10, <1>11, <1>12, <1>13, <1>14, <1>15

LEMMA PasInv ==
  ASSUME SimInv, RouteurFidele, NEW c \in [suivies -> Cellules], Pas(c)
  PROVE  SimInv'
<1> DEFINE K(e) == CleDe(e, c[e])
           neuves == {[entite |-> e, lieu |-> K(e).lieu, sceau |-> K(e).sceau] : e \in suivies}
           ouv    == ouverts \cup {K(e) : e \in suivies}
           finis  == Expires(ouv, Reevalues)
<1>1. ASSUME NEW e \in suivies
      PROVE  /\ e \in Entites /\ c[e] \in Cellules
             /\ K(e) \in Sceaux
             /\ K(e).sceau = Prochain(K(e).lieu.cellule)
             /\ \A w \in ecriture[e] :
                  \/ w.sceau < K(e).sceau
                  \/ (w.sceau <= K(e).sceau /\ w.lieu = K(e).lieu)
             /\ \A i \in inscriptions :
                  i.entite = e /\ i.sceau = K(e).sceau => i.lieu = K(e).lieu
  <2>1. e \in Entites /\ c[e] \in Cellules
    BY DEF SimInv, SimType
  <2>2. QED
    BY <2>1, CleNeuve
<1>2. /\ tick' = tick + 1 /\ suivies' = suivies /\ palier' = Reevalues
      /\ annuaire' = [e \in Entites |-> IF e \in suivies THEN {Arbitre(e, c[e])} ELSE {}]
      /\ ecriture' = [e \in Entites |-> IF e \in suivies THEN {K(e)} ELSE ecriture[e]]
      /\ inscriptions' = {i \in inscriptions \cup neuves : Retenu(i.sceau)}
      /\ ouverts' = ouv \ finis
      /\ scelles' = scelles \cup finis
      /\ pertes' = 0 /\ duplications' = 0
  BY PasAccepte
<1>3. /\ SimType /\ Clos /\ Avance /\ Derniere /\ SansDuplication
  BY DEF SimInv
<1>4. \A k \in ouv : k \in Sceaux
  BY <1>1, <1>3 DEF SimType
<1>5. \A e \in suivies : Arbitre(e, c[e]) \in Entrees
  BY <1>1, <1>3, ArbitreType
<1>6. \A i \in neuves : \E e \in suivies :
         i.entite = e /\ i.lieu = K(e).lieu /\ i.sceau = K(e).sceau
  OBVIOUS
<1>7. \A e \in suivies : K(e) = [lieu |-> K(e).lieu, sceau |-> K(e).sceau] /\ K(e) \in ouv
  BY <1>1 DEF Sceaux
<1>8. \A k \in finis : k \in ouv /\ k.sceau + HorizonTicks(Reevalues[k.lieu.cellule]) <= tick
  BY DEF Expires
<1>9. /\ \A e \in suivies : K(e).sceau <= tick
      /\ \A k \in ouverts \cup scelles : k.sceau < tick
  BY <1>1, CleNeuve DEF SimInv, Passes
<1>10. \A k \in ouv : k \notin finis =>
          ~(k.sceau + HorizonTicks(Reevalues[k.lieu.cellule]) <= tick)
  BY DEF Expires
<1>11. \A l \in Lieux : Reevalues[l.cellule] \in Paliers
  BY <1>3, ReevaluesType, LieuType DEF SimType
<1> HIDE DEF K, neuves, ouv, finis
<1>12. SimType'
  <2>1. tick' \in Nat /\ suivies' \subseteq Entites
    BY <1>2, <1>3 DEF SimType
  <2>2. annuaire' \in [Entites -> SUBSET Entrees]
    BY <1>2, <1>5
  <2>3. ecriture' \in [Entites -> SUBSET Sceaux]
    BY <1>1, <1>2, <1>3 DEF SimType
  <2>4. palier' \in [Cellules -> Paliers]
    BY <1>2, <1>3, ReevaluesType DEF SimType
  <2>5. ouverts' \subseteq Sceaux
    BY <1>2, <1>4
  <2>6. scelles' \subseteq Sceaux
    BY <1>2, <1>3, <1>4, <1>8 DEF SimType
  <2>7. ASSUME NEW e \in suivies
        PROVE  [entite |-> e, lieu |-> K(e).lieu, sceau |-> K(e).sceau]
                 \in [entite : Entites, lieu : Lieux, sceau : Nat]
    BY <1>1 DEF Sceaux
  <2>8. neuves \subseteq [entite : Entites, lieu : Lieux, sceau : Nat]
    BY <2>7 DEF neuves
  <2>9. inscriptions' \subseteq [entite : Entites, lieu : Lieux, sceau : Nat]
    BY <1>2, <1>3, <2>8 DEF SimType
  <2>10. QED
    BY <2>1, <2>2, <2>3, <2>4, <2>5, <2>6, <2>9 DEF SimType
<1>13. Clos'
  <2>1. ASSUME NEW k \in scelles' PROVE k.sceau < Prochain(k.lieu.cellule)'
    <3>1. k \in Sceaux
      BY <1>12 DEF SimType
    <3>2. k.lieu.cellule \in Cellules /\ k.sceau \in Nat /\ k.lieu \in Lieux
      BY <3>1, LieuType DEF Sceaux
    <3>3. /\ Prochain(k.lieu.cellule) \in Nat /\ Prochain(k.lieu.cellule)' \in Nat
          /\ Prochain(k.lieu.cellule) <= Prochain(k.lieu.cellule)'
          /\ \A s \in Nat : s + Reevalues[k.lieu.cellule] <= tick
                              => s < Prochain(k.lieu.cellule)'
      BY <1>2, <1>3, <3>2, ProchainAvance
    <3>4. CASE k \in scelles
      <4>1. k.sceau < Prochain(k.lieu.cellule)
        BY <1>3, <3>4 DEF Clos
      <4>2. QED
        BY <3>2, <3>3, <4>1
    <3>5. CASE k \in finis
      <4>1. k.sceau + HorizonTicks(Reevalues[k.lieu.cellule]) <= tick
        BY <1>8, <3>5
      <4>2. k.sceau + Reevalues[k.lieu.cellule] <= tick
        BY <1>3, <1>11, <3>2, <4>1, HorizonPasse DEF SimType
      <4>3. QED
        BY <3>2, <3>3, <4>2
    <3>6. QED
      BY <1>2, <3>4, <3>5
  <2>2. QED
    BY <2>1 DEF Clos, Prochain
<1>14. Avance'
  <2>1. ASSUME NEW e \in Entites, NEW w \in ecriture'[e]
        PROVE  w.sceau <= Prochain(w.lieu.cellule)'
    <3>1. w \in Sceaux
      BY <1>12 DEF SimType
    <3>2. w.lieu.cellule \in Cellules /\ w.sceau \in Nat
      BY <3>1, LieuType DEF Sceaux
    <3>3. /\ Prochain(w.lieu.cellule) \in Nat /\ Prochain(w.lieu.cellule)' \in Nat
          /\ Prochain(w.lieu.cellule) <= Prochain(w.lieu.cellule)'
      BY <1>2, <1>3, <3>2, ProchainAvance
    <3>4. w.sceau <= Prochain(w.lieu.cellule)
      <4>1. CASE e \in suivies
        <5>1. w = K(e)
          BY <1>2, <4>1
        <5>2. QED
          BY <1>1, <3>3, <4>1, <5>1
      <4>2. CASE e \notin suivies
        BY <1>2, <1>3, <4>2 DEF Avance
      <4>3. QED
        BY <4>1, <4>2
    <3>5. QED
      BY <3>2, <3>3, <3>4
  <2>2. QED
    BY <2>1 DEF Avance, Prochain
<1>15. Derniere'
  <2>1. \A e \in Entites : \A v, w \in ecriture'[e] : v = w
    BY <1>2, <1>3 DEF Derniere
  <2>2. ASSUME NEW i \in inscriptions'
        PROVE  \E w \in ecriture'[i.entite] :
                 i.sceau < w.sceau \/ (i.sceau = w.sceau /\ i.lieu = w.lieu)
    <3>1. CASE i \in neuves
      <4>1. PICK e \in suivies : i.entite = e /\ i.lieu = K(e).lieu /\ i.sceau = K(e).sceau
        BY <1>6, <3>1
      <4>2. K(e) \in ecriture'[e]
        BY <1>1, <1>2
      <4>3. QED
        BY <4>1, <4>2
    <3>2. CASE i \in inscriptions
      <4>1. i.entite \in Entites /\ i.sceau \in Nat
        BY <1>3, <3>2 DEF SimType
      <4>2. PICK w \in ecriture[i.entite] :
              i.sceau < w.sceau \/ (i.sceau = w.sceau /\ i.lieu = w.lieu)
        BY <1>3, <3>2 DEF Derniere
      <4>3. CASE i.entite \in suivies
        <5>1. K(i.entite) \in ecriture'[i.entite]
          BY <1>2, <4>1, <4>3
        <5>2. \/ w.sceau < K(i.entite).sceau
              \/ (w.sceau <= K(i.entite).sceau /\ w.lieu = K(i.entite).lieu)
          BY <1>1, <4>3
        <5>3. w.sceau \in Nat /\ K(i.entite).sceau \in Nat
          BY <1>1, <1>3, <4>1, <4>3 DEF SimType, Sceaux
        <5>4. \/ i.sceau < K(i.entite).sceau
              \/ (i.sceau = K(i.entite).sceau /\ i.lieu = K(i.entite).lieu)
          BY <4>1, <4>2, <5>2, <5>3
        <5>5. QED
          BY <5>1, <5>4
      <4>4. CASE i.entite \notin suivies
        BY <1>2, <4>1, <4>2, <4>4
      <4>5. QED
        BY <4>3, <4>4
    <3>3. QED
      BY <1>2, <3>1, <3>2
  <2>3. QED
    BY <2>1, <2>2 DEF Derniere
<1>16. Passes'
  <2>1. ASSUME NEW k \in ouv \cup scelles PROVE k.sceau <= tick /\ k.sceau \in Nat
    <3>1. k.sceau \in Nat /\ tick \in Nat
      BY <1>3, <1>4 DEF SimType, Sceaux
    <3>2. k \in ouverts \cup scelles \/ \E e \in suivies : k = K(e)
      BY DEF ouv
    <3>3. QED
      BY <1>9, <3>1, <3>2
  <2>2. ouverts' \cup scelles' \subseteq ouv \cup scelles
    BY <1>2, <1>8
  <2>3. QED
    BY <1>2, <1>3, <2>1, <2>2 DEF Passes, SimType
<1>17. Recents'
  <2>1. ASSUME NEW k \in ouverts' PROVE k.sceau + HorizonNominal * Quart >= tick'
    <3>1. k \in Sceaux /\ k \in ouv /\ k \notin finis
      BY <1>2, <1>4
    <3>2. k.sceau \in Nat /\ k.lieu \in Lieux
      BY <3>1 DEF Sceaux
    <3>3. ~(k.sceau + HorizonTicks(Reevalues[k.lieu.cellule]) <= tick)
      BY <1>10, <3>1
    <3>4. QED
      BY <1>2, <1>3, <1>11, <3>2, <3>3, HorizonPasse DEF SimType
  <2>2. QED
    BY <2>1 DEF Recents
<1>18. SansDuplication'
  <2>1. ASSUME NEW i \in inscriptions', NEW j \in inscriptions',
               i.entite = j.entite, i.sceau = j.sceau
        PROVE  i.lieu = j.lieu
    <3>1. CASE i \in inscriptions /\ j \in inscriptions
      BY <1>3, <2>1, <3>1 DEF SansDuplication
    <3>2. ASSUME NEW a \in neuves, NEW b \in inscriptions \cup neuves,
                 a.entite = b.entite, a.sceau = b.sceau
          PROVE  a.lieu = b.lieu
      <4>1. PICK e \in suivies : a.entite = e /\ a.lieu = K(e).lieu /\ a.sceau = K(e).sceau
        BY <1>6
      <4>2. CASE b \in inscriptions
        BY <1>1, <3>2, <4>1, <4>2
      <4>3. CASE b \in neuves
        BY <1>6, <3>2, <4>1, <4>3
      <4>4. QED
        BY <4>2, <4>3
    <3>3. CASE i \in neuves
      BY <1>2, <2>1, <3>2, <3>3
    <3>4. CASE j \in neuves
      BY <1>2, <2>1, <3>2, <3>4
    <3>5. QED
      BY <1>2, <3>1, <3>3, <3>4
  <2>2. QED
    BY <1>2, <2>1 DEF SansDuplication
<1>19. QED
  BY <1>2, <1>12, <1>13, <1>14, <1>15, <1>16, <1>17, <1>18 DEF SimInv, SansRejet

-----------------------------------------------------------------------------

LEMMA SimInit == Init => SimInv
<1> SUFFICES ASSUME Init PROVE SimInv
  OBVIOUS
<1>1. SimType
  BY DEF Init, SimType, Paliers, Nominal
<1>2. QED
  BY <1>1 DEF Init, SimInv, Clos, Avance, Derniere, Recents, Passes, SansRejet,
              SansDuplication

LEMMA SimNext == SimInv /\ RouteurFidele /\ [Next]_vars => SimInv'
<1> SUFFICES ASSUME SimInv, RouteurFidele, [Next]_vars PROVE SimInv'
  OBVIOUS
<1>1. ASSUME NEW c \in [suivies -> Cellules], Pas(c) PROVE SimInv'
  BY <1>1, PasInv
<1>2. ASSUME NEW e \in Entites, Suivre(e) PROVE SimInv'
  <2>1. SimType' /\ Reevalues' = Reevalues
    BY <1>2 DEF Suivre, SimInv, SimType, Reevalues
  <2>2. QED
    BY <1>2, <2>1 DEF Suivre, SimInv, Clos, Avance, Derniere, Recents, Passes, SansRejet,
                      SansDuplication, Prochain
<1>3. CASE UNCHANGED vars
  <2>1. SimType' /\ Reevalues' = Reevalues
    BY <1>3 DEF vars, SimInv, SimType, Reevalues
  <2>2. QED
    BY <1>3, <2>1 DEF vars, SimInv, Clos, Avance, Derniere, Recents, Passes, SansRejet,
                      SansDuplication, Prochain
<1>4. QED
  BY <1>1, <1>2, <1>3 DEF Next

LEMMA SimInvariant == RouteurFidele => (Spec => []SimInv)
<1>1. SUFFICES ASSUME RouteurFidele PROVE Spec => []SimInv
  OBVIOUS
<1>2. SimInv /\ [Next]_vars => SimInv'
  BY <1>1, SimNext
<1>3. QED
  BY <1>2, SimInit, PTL DEF Spec

(* The two routers of the harness (routage.rs:20-29, 121-201).              *)
LEMMA RouteursFideles ==
  ASSUME NEW x \in Entrees, NEW dest \in Lieux, NEW t \in Nat
  PROVE  /\ MigrerMemoire(x, dest, t) \in Entrees
         /\ MigrerMemoire(x, dest, t).lieu \in {x.lieu, dest}
         /\ MigrerDatee(x, dest, t) \in Entrees
         /\ MigrerDatee(x, dest, t).lieu \in {x.lieu, dest}
BY DEF MigrerMemoire, MigrerDatee, Inscrite, Entrees

(* No pose is ever refused (harness.rs:28-32): degrading a cell, restoring  *)
(* it and sealing its chronotopes never close one that a write may reach.   *)
THEOREM AucunRejet == RouteurFidele => (Spec => []SansRejet)
<1>1. SimInv => SansRejet
  BY DEF SimInv
<1>2. QED
  BY <1>1, SimInvariant, PTL

(* H3 (harness.rs:18-26): no entity in two chronotopes of one tick of seal. *)
THEOREM AucuneDuplication == RouteurFidele => (Spec => []SansDuplication)
<1>1. SimInv => SansDuplication
  BY DEF SimInv
<1>2. QED
  BY <1>1, SimInvariant, PTL

-----------------------------------------------------------------------------
(* The type invariant.                                                      *)

Attentes == [visee : Cellules, sortie : Nat]

(* The rest of the type: a write is older than the next tick, and a cell's  *)
(* load counts entities that are tracked.                                   *)
Anciens ==
  /\ IsFiniteSet(suivies)
  /\ tick <= DernierTick
  /\ attente \in [Entites -> SUBSET Attentes]
  /\ \A e \in Entites : \A a \in attente[e] : a.sortie < tick
  /\ charge \in [Cellules -> 0..Cardinality(suivies)]
  /\ \A e \in Entites : \A w \in ecriture[e] : w.sceau < tick
  /\ \A i \in inscriptions : i.entite \in suivies /\ i.sceau < tick

LEMMA PasAttente ==
  ASSUME NEW c \in [suivies -> Cellules], Pas(c)
  PROVE  /\ tick < DernierTick
         /\ attente' = [e \in Entites |->
              IF e \in suivies THEN EnAttente(e, CibleDe(e, c[e]).cellule, c[e]) ELSE {}]
         /\ charge' = [x \in Cellules |->
              Cardinality({e \in suivies : CibleDe(e, c[e]).cellule = x})]
<1> DEFINE entree == [e \in suivies |-> Arbitre(e, c[e])]
           cible  == [e \in suivies |-> Cible(e, entree[e].lieu, Reevalues)]
<1>1. \A e \in suivies : cible[e] = CibleDe(e, c[e])
  BY DEF CibleDe
<1>2. tick < DernierTick
  BY DEF Pas
<1>3. attente' = [e \in Entites |->
                    IF e \in suivies THEN EnAttente(e, cible[e].cellule, c[e]) ELSE {}]
  BY DEF Pas
<1>4. charge' = [x \in Cellules |-> Cardinality({e \in suivies : cible[e].cellule = x})]
  BY DEF Pas
<1> HIDE DEF cible
<1>5. attente' = [e \in Entites |->
         IF e \in suivies THEN EnAttente(e, CibleDe(e, c[e]).cellule, c[e]) ELSE {}]
  BY <1>1, <1>3
<1>6. \A x \in Cellules : {e \in suivies : cible[e].cellule = x}
                            = {e \in suivies : CibleDe(e, c[e]).cellule = x}
  BY <1>1
<1>7. QED
  BY <1>2, <1>4, <1>5, <1>6

LEMMA AnciensPas ==
  ASSUME SimInv, Anciens, RouteurFidele, NEW c \in [suivies -> Cellules], Pas(c)
  PROVE  Anciens'
<1> DEFINE K(e) == CleDe(e, c[e])
           cells(x) == {e \in suivies : CibleDe(e, c[e]).cellule = x}
<1>1. /\ tick' = tick + 1 /\ suivies' = suivies
      /\ ecriture' = [e \in Entites |-> IF e \in suivies THEN {K(e)} ELSE ecriture[e]]
      /\ inscriptions' =
           {i \in inscriptions \cup
                  {[entite |-> e, lieu |-> K(e).lieu, sceau |-> K(e).sceau] : e \in suivies}
              : Retenu(i.sceau)}
  BY PasAccepte
<1>2. /\ tick < DernierTick
      /\ attente' = [e \in Entites |->
           IF e \in suivies THEN EnAttente(e, CibleDe(e, c[e]).cellule, c[e]) ELSE {}]
      /\ charge' = [x \in Cellules |-> Cardinality(cells(x))]
  BY PasAttente
<1>3. ASSUME NEW e \in suivies
      PROVE  /\ e \in Entites /\ c[e] \in Cellules
             /\ K(e) \in Sceaux /\ K(e).sceau <= tick
  <2>1. e \in Entites /\ c[e] \in Cellules
    BY DEF SimInv, SimType
  <2>2. QED
    BY <2>1, CleNeuve
<1>4. /\ tick \in Nat /\ DernierTick \in Nat
      /\ \A e \in Entites : \A w \in ecriture[e] : w.sceau \in Nat /\ w.sceau < tick
      /\ \A i \in inscriptions : i.entite \in suivies /\ i.sceau \in Nat /\ i.sceau < tick
  BY SimulationAssumption DEF SimInv, SimType, Sceaux, Anciens
<1>5. \A e \in suivies : K(e).sceau \in Nat
  BY <1>3 DEF Sceaux
<1> HIDE DEF K
<1>8. IsFiniteSet(suivies') /\ tick' <= DernierTick
  BY <1>1, <1>2, <1>4 DEF Anciens
<1>9. attente' \in [Entites -> SUBSET Attentes]
  <2>1. ASSUME NEW e \in suivies
        PROVE  EnAttente(e, CibleDe(e, c[e]).cellule, c[e]) \in SUBSET Attentes
    <3>1. attente[e] \in SUBSET Attentes
      BY <1>3 DEF Anciens
    <3>2. [visee |-> c[e], sortie |-> tick] \in Attentes
      BY <1>3, <1>4 DEF Attentes
    <3>3. QED
      BY <3>1, <3>2 DEF EnAttente
  <2>2. QED
    BY <1>2, <2>1
<1>10. charge' \in [Cellules -> 0..Cardinality(suivies)]
  <2>1. ASSUME NEW x \in Cellules PROVE Cardinality(cells(x)) \in 0..Cardinality(suivies)
    <3>1. cells(x) \subseteq suivies /\ IsFiniteSet(suivies)
      BY DEF Anciens
    <3> HIDE DEF cells
    <3>2. /\ IsFiniteSet(cells(x)) /\ Cardinality(cells(x)) <= Cardinality(suivies)
      BY <3>1, FS_Subset
    <3>3. Cardinality(cells(x)) \in Nat /\ Cardinality(suivies) \in Nat
      BY <3>1, <3>2, FS_CardinalityType
    <3>4. QED
      BY <3>2, <3>3
  <2> HIDE DEF cells
  <2>2. QED
    BY <1>2, <2>1
<1>11. \A e \in Entites : \A w \in ecriture'[e] : w.sceau < tick'
  BY <1>1, <1>3, <1>4, <1>5
<1>13. \A i \in inscriptions' : i.entite \in suivies' /\ i.sceau < tick'
  BY <1>1, <1>3, <1>4, <1>5
<1>14. \A e \in Entites : \A a \in attente'[e] : a.sortie < tick'
  <2>1. ASSUME NEW e \in suivies, NEW a \in EnAttente(e, CibleDe(e, c[e]).cellule, c[e])
        PROVE  a.sortie < tick'
    <3>1. \A b \in attente[e] : b.sortie \in Nat /\ b.sortie < tick
      BY <1>3 DEF Anciens, Attentes
    <3>2. a \in attente[e] \/ a.sortie = tick
      BY DEF EnAttente
    <3>3. QED
      BY <1>1, <1>4, <3>1, <3>2
  <2>2. QED
    BY <1>2, <2>1
<1>15. QED
  BY <1>1, <1>8, <1>9, <1>10, <1>11, <1>13, <1>14 DEF Anciens

LEMMA AnciensInit == Init => Anciens
<1> SUFFICES ASSUME Init PROVE Anciens
  OBVIOUS
<1>1. IsFiniteSet({}) /\ Cardinality({}) = 0
  BY FS_EmptySet
<1>2. QED
  BY <1>1, SimulationAssumption DEF Init, Anciens, Attentes

LEMMA AnciensNext ==
  RouteurFidele /\ SimInv /\ Anciens /\ [Next]_vars => Anciens'
<1> SUFFICES ASSUME RouteurFidele, SimInv, Anciens, [Next]_vars PROVE Anciens'
  OBVIOUS
<1>1. ASSUME NEW c \in [suivies -> Cellules], Pas(c) PROVE Anciens'
  BY <1>1, AnciensPas
<1>2. ASSUME NEW e \in Entites, Suivre(e) PROVE Anciens'
  <2>1. /\ suivies' = suivies \cup {e}
        /\ UNCHANGED <<tick, ecriture, attente, charge, inscriptions>>
    BY <1>2 DEF Suivre
  <2>2. IsFiniteSet(suivies') /\ Cardinality(suivies) <= Cardinality(suivies')
    BY <2>1, FS_AddElement, FS_Subset DEF Anciens
  <2>3. Cardinality(suivies) \in Nat /\ Cardinality(suivies') \in Nat
    BY <2>2, FS_CardinalityType DEF Anciens
  <2>4. 0..Cardinality(suivies) \subseteq 0..Cardinality(suivies')
    BY <2>2, <2>3
  <2>5. charge' \in [Cellules -> 0..Cardinality(suivies')]
    BY <2>1, <2>4 DEF Anciens
  <2>6. QED
    BY <2>1, <2>2, <2>5 DEF Anciens
<1>3. CASE UNCHANGED vars
  BY <1>3 DEF vars, Anciens
<1>4. QED
  BY <1>1, <1>2, <1>3 DEF Next

LEMMA AnciensTenus == RouteurFidele => (Spec => [](SimInv /\ Anciens))
<1>1. SUFFICES ASSUME RouteurFidele PROVE Spec => [](SimInv /\ Anciens)
  OBVIOUS
<1>2. (SimInv /\ Anciens) /\ [Next]_vars => (SimInv /\ Anciens)'
  BY <1>1, SimNext, AnciensNext
<1>3. Init => SimInv /\ Anciens
  BY SimInit, AnciensInit
<1>4. QED
  BY <1>2, <1>3, PTL DEF Spec

(* What a simulation is made of (harness.rs:221-268): a write, a chronotope *)
(* and an inscription are of a tick of seal already gone through.           *)
THEOREM SimulationType == RouteurFidele => (Spec => []TypeOK)
<1>1. ASSUME SimInv, Anciens PROVE TypeOK
  <2>1. tick \in 0..DernierTick /\ suivies \subseteq Entites /\ palier \in [Cellules -> Paliers]
        /\ charge \in [Cellules -> 0..Cardinality(suivies)]
        /\ pertes \in Nat /\ duplications \in Nat
    BY <1>1, SimulationAssumption DEF SimInv, SimType, Anciens, SansRejet, SansDuplication
  <2>2. ASSUME NEW l \in Lieux, NEW s \in Nat, s < tick
        PROVE  [lieu |-> l, sceau |-> s] \in Cles
    BY <2>1, <2>2, SimulationAssumption DEF Cles
  <2>3. \A k \in Sceaux : k = [lieu |-> k.lieu, sceau |-> k.sceau] /\ k.lieu \in Lieux
                          /\ k.sceau \in Nat
    BY DEF Sceaux
  <2>4. ASSUME NEW e \in Entites
        PROVE  /\ \A x \in annuaire[e] : x.lieu \in Lieux
               /\ \A w \in ecriture[e] : w \in Cles
               /\ \A a \in attente[e] : a.visee \in Cellules /\ a.sortie \in Nat
    <3>1. \A x \in annuaire[e] : x.lieu \in Lieux
      BY <1>1 DEF SimInv, SimType, Entrees
    <3>2. \A w \in ecriture[e] : w \in Sceaux /\ w.sceau < tick
      BY <1>1 DEF SimInv, SimType, Anciens
    <3>3. \A a \in attente[e] : a.visee \in Cellules /\ a.sortie \in Nat
      BY <1>1 DEF Anciens, Attentes
    <3>4. QED
      BY <2>2, <2>3, <3>1, <3>2, <3>3
  <2>5. \A k \in ouverts \cup scelles : k \in Sceaux /\ k.sceau < tick
    BY <1>1 DEF SimInv, SimType, Passes
  <2>6. \A k \in ouverts \cup scelles : k \in Cles
    BY <2>2, <2>3, <2>5
  <2>7. \A i \in inscriptions : /\ i.entite \in suivies /\ i.lieu \in Lieux
                                /\ i.sceau \in Nat /\ i.sceau < tick
    BY <1>1 DEF SimInv, SimType, Anciens
  <2>8. \A i \in inscriptions :
          i.entite \in suivies /\ [lieu |-> i.lieu, sceau |-> i.sceau] \in Cles
    BY <2>2, <2>7
  <2>9. QED
    BY <2>1, <2>4, <2>6, <2>8 DEF TypeOK
<1>2. QED
  BY <1>1, AnciensTenus, PTL

-----------------------------------------------------------------------------
(* One entity between two cells.                                            *)

(* An entity that waits is registered, and not where it is last written.    *)
Situees ==
  \A e \in Entites :
    /\ \A x, y \in annuaire[e] : x = y
    /\ \A a, b \in attente[e] : a = b
    /\ annuaire[e] = {} <=> ecriture[e] = {}
    /\ annuaire[e] = {} => attente[e] = {}
    /\ \A a \in attente[e], w \in ecriture[e] : a.visee # w.lieu.cellule

(* Where the router says e is, and where it is written.                     *)
LEMMA UneEntite ==
  ASSUME SimInv, Situees, RouteurFidele, NEW e \in Entites, NEW x \in Cellules
  PROVE  LET n == Arbitre(e, x)
             l == CibleDe(e, x)
         IN  /\ n \in Entrees /\ l \in Lieux
             /\ annuaire[e] = {} => n = Inscrite(Lieu(x)) /\ l = Lieu(x)
             /\ \A y \in annuaire[e] :
                  /\ y \in Entrees
                  /\ y.lieu.cellule = x => n = y
                  /\ y.lieu.cellule # x =>
                       n = Migrer(y, Lieu(x), tick) /\ n.lieu \in {y.lieu, Lieu(x)}
             /\ l # n.lieu =>
                  \E w \in ecriture[e] : l = w.lieu /\ Sceau(n.lieu, Reevalues) <= w.sceau
<1> DEFINE n == Arbitre(e, x)
           l == CibleDe(e, x)
           retenue == {w \in ecriture[e] : w.lieu # n.lieu /\ Sceau(n.lieu, Reevalues) <= w.sceau}
<1>1. n \in Entrees
  BY ArbitreType DEF SimInv
<1>2. l \in Lieux
  BY CleNeuve DEF CleDe, Sceaux
<1>3. l = IF retenue = {} THEN n.lieu ELSE (CHOOSE w \in retenue : TRUE).lieu
  BY DEF CibleDe, Cible
<1>4. annuaire[e] = {} => n = Inscrite(Lieu(x)) /\ l = Lieu(x)
  <2>1. SUFFICES ASSUME annuaire[e] = {} PROVE n = Inscrite(Lieu(x)) /\ l = Lieu(x)
    OBVIOUS
  <2>2. n = Inscrite(Lieu(x))
    BY <2>1 DEF Arbitre
  <2>3. retenue = {}
    BY <2>1 DEF Situees
  <2> HIDE DEF retenue, n, l
  <2>4. l = n.lieu
    BY <1>3, <2>3
  <2>5. QED
    BY <2>2, <2>4 DEF Inscrite
<1>5. ASSUME NEW y \in annuaire[e]
      PROVE  /\ y \in Entrees
             /\ y.lieu.cellule = x => n = y
             /\ y.lieu.cellule # x =>
                  n = Migrer(y, Lieu(x), tick) /\ n.lieu \in {y.lieu, Lieu(x)}
  <2> DEFINE a == CHOOSE z \in annuaire[e] : TRUE
  <2>1. a = y
    BY DEF Situees
  <2>2. y \in Entrees
    BY DEF SimInv, SimType
  <2>3. n = IF y.lieu.cellule = x THEN y ELSE Migrer(y, Lieu(x), tick)
    BY <2>1 DEF Arbitre
  <2>4. Migrer(y, Lieu(x), tick).lieu \in {y.lieu, Lieu(x)}
    BY <2>2, LieuType DEF RouteurFidele, SimInv, SimType
  <2> HIDE DEF n
  <2>5. QED
    BY <2>2, <2>3, <2>4
<1>6. ASSUME l # n.lieu
      PROVE  \E w \in ecriture[e] : l = w.lieu /\ Sceau(n.lieu, Reevalues) <= w.sceau
  <2>1. retenue # {} /\ l = (CHOOSE w \in retenue : TRUE).lieu
    BY <1>3, <1>6
  <2>2. QED
    BY <2>1
<1>7. QED
  <2> HIDE DEF n, l
  <2>1. /\ n \in Entrees /\ l \in Lieux
        /\ annuaire[e] = {} => n = Inscrite(Lieu(x)) /\ l = Lieu(x)
        /\ \A y \in annuaire[e] :
             /\ y \in Entrees
             /\ y.lieu.cellule = x => n = y
             /\ y.lieu.cellule # x =>
                  n = Migrer(y, Lieu(x), tick) /\ n.lieu \in {y.lieu, Lieu(x)}
        /\ l # n.lieu =>
             \E w \in ecriture[e] : l = w.lieu /\ Sceau(n.lieu, Reevalues) <= w.sceau
    BY <1>1, <1>2, <1>4, <1>5, <1>6
  <2>2. QED
    BY <2>1 DEF n, l

(* Two places are of two cells.                                             *)
LEMMA LieuxDistincts ==
  ASSUME NEW l \in Lieux, NEW m \in Lieux, l.cellule = m.cellule
  PROVE  l = m
BY DEF Lieux, Lieu

(* The state of an entity after a step.                                     *)
LEMMA PasEntite ==
  ASSUME SimInv, RouteurFidele, NEW c \in [suivies -> Cellules], Pas(c), NEW e \in Entites
  PROVE  /\ e \in suivies =>
              /\ c[e] \in Cellules
              /\ annuaire'[e] = {Arbitre(e, c[e])}
              /\ ecriture'[e] = {CleDe(e, c[e])}
              /\ CleDe(e, c[e]).lieu = CibleDe(e, c[e])
              /\ attente'[e] = EnAttente(e, CibleDe(e, c[e]).cellule, c[e])
         /\ e \notin suivies => annuaire'[e] = {} /\ ecriture'[e] = ecriture[e] /\ attente'[e] = {}
         /\ suivies' = suivies /\ tick' = tick + 1
<1>1. CleDe(e, c[e]).lieu = CibleDe(e, c[e])
  BY DEF CleDe
<1>2. QED
  BY <1>1, PasAccepte, PasAttente

(* An entity not tracked yet has no entry anywhere.                         *)
Absentes == \A e \in Entites \ suivies :
              annuaire[e] = {} /\ ecriture[e] = {} /\ attente[e] = {}

LEMMA SitueesPas ==
  ASSUME SimInv, Situees, Absentes, RouteurFidele, NEW c \in [suivies -> Cellules], Pas(c)
  PROVE  Situees' /\ Absentes'
<1>1. ASSUME NEW e \in suivies
      PROVE  /\ \A y, z \in annuaire'[e] : y = z
             /\ \A a, b \in attente'[e] : a = b
             /\ annuaire'[e] # {} /\ ecriture'[e] # {}
             /\ \A a \in attente'[e], w \in ecriture'[e] : a.visee # w.lieu.cellule
  <2>1. e \in Entites
    BY DEF SimInv, SimType
  <2>2. /\ c[e] \in Cellules
        /\ annuaire'[e] = {Arbitre(e, c[e])}
        /\ ecriture'[e] = {CleDe(e, c[e])}
        /\ CleDe(e, c[e]).lieu = CibleDe(e, c[e])
        /\ attente'[e] = EnAttente(e, CibleDe(e, c[e]).cellule, c[e])
    BY <2>1, PasEntite
  <2>3. \A a, b \in attente[e] : a = b
    BY <2>1 DEF Situees
  <2>4. /\ \A a, b \in attente'[e] : a = b
        /\ \A a \in attente'[e] : a.visee = c[e] /\ CibleDe(e, c[e]).cellule # c[e]
    <3> DEFINE l == CibleDe(e, c[e]).cellule
               x == c[e]
    <3>1. attente'[e] = IF l = x THEN {}
                        ELSE IF \E a \in attente[e] : a.visee = x THEN attente[e]
                        ELSE {[visee |-> x, sortie |-> tick]}
      BY <2>2 DEF EnAttente
    <3> HIDE DEF l, x
    <3>2. (\A a, b \in attente'[e] : a = b) /\ (\A a \in attente'[e] : a.visee = x /\ l # x)
      BY <2>3, <3>1
    <3>3. QED
      BY <3>2 DEF l, x
  <2>5. QED
    BY <2>2, <2>4
<1>2. ASSUME NEW e \in Entites \ suivies
      PROVE  annuaire'[e] = {} /\ ecriture'[e] = {} /\ attente'[e] = {}
  BY PasEntite DEF Absentes
<1>3. suivies' = suivies
  BY PasAccepte
<1>4. Absentes'
  BY <1>2, <1>3 DEF Absentes
<1>5. Situees'
  BY <1>1, <1>2 DEF Situees
<1>6. QED
  BY <1>4, <1>5

LEMMA SitueesTenues ==
  RouteurFidele => (Spec => [](SimInv /\ Anciens /\ Situees /\ Absentes))
<1> DEFINE Inv == SimInv /\ Anciens /\ Situees /\ Absentes
<1>1. SUFFICES ASSUME RouteurFidele PROVE Spec => []Inv
  OBVIOUS
<1>2. Init => Inv
  <2>1. Init => Situees /\ Absentes
    BY DEF Init, Situees, Absentes
  <2>2. QED
    BY <2>1, SimInit, AnciensInit
<1>3. Inv /\ [Next]_vars => Inv'
  <2> SUFFICES ASSUME Inv, [Next]_vars PROVE Situees' /\ Absentes'
    BY <1>1, SimNext, AnciensNext
  <2>1. ASSUME NEW c \in [suivies -> Cellules], Pas(c) PROVE Situees' /\ Absentes'
    BY <1>1, <2>1, SitueesPas
  <2>2. ASSUME NEW e \in Entites, Suivre(e) PROVE Situees' /\ Absentes'
    BY <2>2 DEF Suivre, Situees, Absentes
  <2>3. CASE UNCHANGED vars
    BY <2>3 DEF vars, Situees, Absentes
  <2>4. QED
    BY <2>1, <2>2, <2>3 DEF Next
<1>4. QED
  BY <1>2, <1>3, PTL DEF Spec

-----------------------------------------------------------------------------
(* The changes of cell.                                                     *)

(* A change is held back only away from the boundary every tier has, and    *)
(* the next boundary comes one tick nearer.                                 *)
LEMMA HorsFrontiere ==
  ASSUME NEW t \in Nat
  PROVE  /\ (t + 1 + 3) % Quart = t % Quart
         /\ t % Quart \in 0..3
         /\ t % Quart # 0 => ((t + 3) % Quart) + 1 = t % Quart
BY DEF Quart

LEMMA RetenueHorsFrontiere ==
  ASSUME SimInv, Anciens, NEW e \in Entites, NEW l \in Lieux,
         NEW w \in ecriture[e], Sceau(l, Reevalues) <= w.sceau
  PROVE  tick % Quart # 0
<1>1. w.sceau \in Nat /\ w.sceau < tick /\ tick \in Nat
  BY DEF SimInv, SimType, Sceaux, Anciens
<1>2. Reevalues[l.cellule] \in Paliers
  BY ReevaluesType, LieuType DEF SimInv, SimType
<1>3. tick % Quart = 0 => Sceau(l, Reevalues) = tick
  BY <1>1, <1>2, SceauType DEF Sceau
<1>4. QED
  BY <1>1, <1>3

(* What a router may make an entity wait; its two implementations.          *)
Patience == IF Hysteresis = 0 THEN 1 ELSE Hysteresis

RouteurMemoire ==
  \A x \in Entrees, dest \in Lieux, t \in Nat :
    Migrer(x, dest, t) = MigrerMemoire(x, dest, t)
RouteurDate ==
  \A x \in Entrees, dest \in Lieux, t \in Nat :
    Migrer(x, dest, t) = MigrerDatee(x, dest, t)

(* An entry that has waited no longer than that, and of the past.           *)
Saine(x, t) == x.essais < Patience /\ \A d \in x.derniere : d < t

(* An entry whose router has refused to move it since tick s, until t.      *)
Refus(x, s, t) ==
  IF RouteurMemoire THEN t <= x.essais + s
  ELSE /\ \A d \in x.derniere : d < s
       /\ \E d \in x.derniere : t < Hysteresis + d + 1

(* A wait still goes on because the router refuses, or because it granted   *)
(* the change inside the current group of the coarsest tier.                *)
Attendue(x, a, t) ==
  IF x.lieu.cellule = a.visee
  THEN /\ (t + 3) % Quart # 0
       /\ t + 1 <= a.sortie + Patience + ((t + 3) % Quart)
  ELSE Refus(x, a.sortie, t)

Attendues ==
  \A e \in Entites : \A x \in annuaire[e] :
    Saine(x, tick) /\ \A a \in attente[e] : Attendue(x, a, tick)

LEMMA PatienceType == Patience \in Nat \ {0} /\ Hysteresis <= Patience
BY HysteresisAssumption DEF Patience

(* What a request made of a router brings.                                  *)
LEMMA RefusSuit ==
  ASSUME RouteurMemoire \/ RouteurDate, NEW t \in Nat,
         NEW x \in Entrees, Saine(x, t), NEW l \in Lieux, x.lieu # l
  PROVE  LET n == Migrer(x, l, t)
         IN  /\ Saine(n, t + 1)
             /\ n.lieu # l =>
                  /\ Refus(n, t, t + 1)
                  /\ \A s \in Nat : s < t /\ Refus(x, s, t) => Refus(n, s, t + 1)
<1> DEFINE n == Migrer(x, l, t)
<1>1. /\ x.lieu \in Lieux /\ x.essais \in Nat /\ x.derniere \subseteq Nat
      /\ x.essais < Patience /\ \A d \in x.derniere : d < t
  BY DEF Entrees, Saine
<1>2. CASE RouteurMemoire
  <2>1. n = IF x.essais + 1 >= Hysteresis THEN Inscrite(l) ELSE [x EXCEPT !.essais = x.essais + 1]
    BY <1>2 DEF RouteurMemoire, MigrerMemoire
  <2>2. CASE x.essais + 1 >= Hysteresis
    <3>1. n.lieu = l /\ n.essais = 0 /\ n.derniere = {}
      BY <2>1, <2>2 DEF Inscrite
    <3>2. QED
      BY <3>1, PatienceType DEF Saine
  <2>3. CASE ~(x.essais + 1 >= Hysteresis)
    <3>1. n.essais = x.essais + 1 /\ n.derniere = x.derniere
      BY <2>1, <2>3 DEF Entrees
    <3>2. x.essais + 1 < Patience
      BY <1>1, <2>3, PatienceType, HysteresisAssumption
    <3>3. \A d \in x.derniere : d < t + 1
      BY <1>1
    <3>4. ASSUME NEW s \in Nat, Refus(x, s, t) PROVE t + 1 <= n.essais + s
      BY <1>1, <1>2, <2>3, <3>1, <3>4, PatienceType, HysteresisAssumption DEF Refus
    <3>5. QED
      BY <1>1, <1>2, <3>1, <3>2, <3>3, <3>4 DEF Saine, Refus
  <2>4. QED
    BY <2>2, <2>3
<1>3. CASE ~RouteurMemoire /\ RouteurDate
  <2>1. n = IF \E d \in x.derniere : t - d < Hysteresis THEN x
            ELSE [Inscrite(l) EXCEPT !.derniere = {t}]
    BY <1>3 DEF RouteurDate, MigrerDatee
  <2>2. CASE \E d \in x.derniere : t - d < Hysteresis
    <3>1. n = x
      BY <2>1, <2>2
    <3>2. PICK d \in x.derniere : t - d < Hysteresis
      BY <2>2
    <3>3. d \in Nat /\ t + 1 < Hysteresis + d + 1
      BY <1>1, <3>2, HysteresisAssumption
    <3>4. \A b \in x.derniere : b < t + 1
      BY <1>1
    <3>5. Refus(x, t, t + 1)
      BY <1>1, <1>3, <3>3 DEF Refus
    <3>6. Saine(x, t + 1)
      BY <1>1, <3>4 DEF Saine
    <3>7. ASSUME NEW s \in Nat, s < t, Refus(x, s, t) PROVE Refus(x, s, t + 1)
      BY <1>3, <3>3, <3>7 DEF Refus
    <3>8. QED
      BY <3>1, <3>5, <3>6, <3>7
  <2>3. CASE ~(\E d \in x.derniere : t - d < Hysteresis)
    <3>1. n.lieu = l /\ n.essais = 0 /\ n.derniere = {t}
      BY <2>1, <2>3 DEF Inscrite
    <3>2. QED
      BY <3>1, PatienceType DEF Saine
  <2>4. QED
    BY <2>2, <2>3
<1>4. QED
  BY <1>2, <1>3

LEMMA RefusBorne ==
  ASSUME NEW x \in Entrees, NEW s \in Nat, NEW t \in Nat, Saine(x, t), Refus(x, s, t)
  PROVE  t + 1 <= s + Patience
<1>1. /\ x.essais \in Nat /\ x.derniere \subseteq Nat /\ x.essais < Patience
  BY DEF Entrees, Saine
<1>2. CASE RouteurMemoire
  BY <1>1, <1>2, PatienceType DEF Refus
<1>3. CASE ~RouteurMemoire
  <2>1. PICK d \in x.derniere : t < Hysteresis + d + 1
    BY <1>3 DEF Refus
  <2>2. d < s /\ d \in Nat
    BY <1>1, <1>3 DEF Refus
  <2>3. QED
    BY <2>1, <2>2, PatienceType, HysteresisAssumption
<1>4. QED
  BY <1>2, <1>3

LEMMA AttenduePas ==
  ASSUME SimInv, Anciens, Situees, Attendues, RouteurFidele, RouteurMemoire \/ RouteurDate,
         NEW e \in Entites, NEW x \in Cellules,
         NEW a \in EnAttente(e, CibleDe(e, x).cellule, x)
  PROVE  Attendue(Arbitre(e, x), a, tick + 1)
<1> DEFINE n == Arbitre(e, x)
           l == CibleDe(e, x)
<1>1. /\ n \in Entrees /\ l \in Lieux
      /\ annuaire[e] = {} => n = Inscrite(Lieu(x)) /\ l = Lieu(x)
      /\ \A y \in annuaire[e] :
           /\ y \in Entrees
           /\ y.lieu.cellule = x => n = y
           /\ y.lieu.cellule # x => n = Migrer(y, Lieu(x), tick) /\ n.lieu \in {y.lieu, Lieu(x)}
      /\ l # n.lieu => \E w \in ecriture[e] : l = w.lieu /\ Sceau(n.lieu, Reevalues) <= w.sceau
  BY UneEntite
<1>2. /\ l.cellule # x /\ a.visee = x
      /\ a \in attente[e] \/ a.sortie = tick
  <2>1. \A b \in attente[e] : b = a \/ a \notin attente[e]
    BY DEF Situees
  <2> HIDE DEF l
  <2>2. a \in IF l.cellule = x THEN {}
             ELSE IF \E b \in attente[e] : b.visee = x THEN attente[e]
             ELSE {[visee |-> x, sortie |-> tick]}
    BY DEF EnAttente, l
  <2>3. QED
    BY <2>1, <2>2
<1>3. tick \in Nat /\ attente[e] \subseteq Attentes
  BY DEF SimInv, SimType, Anciens
<1>4. a.sortie \in Nat
  BY <1>2, <1>3 DEF Attentes
<1>5. annuaire[e] # {}
  BY <1>1, <1>2, LieuType
<1>6. PICK y \in annuaire[e] : TRUE
  BY <1>5
<1>7. /\ y \in Entrees /\ Saine(y, tick)
      /\ a \in attente[e] => Attendue(y, a, tick)
  BY <1>1, <1>6 DEF Attendues, Attendue
<1>8. n.lieu \in Lieux /\ y.lieu \in Lieux /\ Lieu(x) \in Lieux /\ Lieu(x).cellule = x
  BY <1>1, <1>7, LieuType DEF Entrees
<1>9. a \in attente[e] => a.sortie < tick
  BY DEF Anciens
<1> HIDE DEF n, l
<1>10. CASE n.lieu.cellule = x
  <2>1. l # n.lieu
    BY <1>2, <1>10
  <2>2. PICK w \in ecriture[e] : Sceau(n.lieu, Reevalues) <= w.sceau
    BY <1>1, <2>1
  <2>3. tick % Quart # 0
    BY <1>8, <2>2, RetenueHorsFrontiere
  <2>4. /\ (tick + 1 + 3) % Quart = tick % Quart /\ tick % Quart \in 0..3
        /\ ((tick + 3) % Quart) + 1 = tick % Quart
    BY <1>3, <2>3, HorsFrontiere
  <2>5. tick + 1 <= a.sortie + Patience + ((tick + 3) % Quart)
    <3>1. (tick + 3) % Quart \in Nat
      BY <1>3 DEF Quart
    <3>2. CASE a.sortie = tick
      BY <1>3, <3>1, <3>2, PatienceType
    <3>3. CASE a \in attente[e] /\ y.lieu.cellule = x
      BY <1>2, <1>7, <3>3 DEF Attendue
    <3>4. CASE a \in attente[e] /\ y.lieu.cellule # x
      <4>1. Refus(y, a.sortie, tick)
        BY <1>2, <1>7, <3>4 DEF Attendue
      <4>2. tick + 1 <= a.sortie + Patience
        BY <1>3, <1>4, <1>7, <4>1, RefusBorne
      <4>3. QED
        BY <1>3, <1>4, <3>1, <4>2, PatienceType
    <3>5. QED
      BY <1>2, <3>2, <3>3, <3>4
  <2>6. tick + 1 + 1 <= a.sortie + Patience + ((tick + 1 + 3) % Quart)
    <3> DEFINE r == (tick + 3) % Quart
               q == (tick + 1 + 3) % Quart
    <3>1. q = r + 1 /\ r \in Nat /\ tick + 1 <= a.sortie + Patience + r
      BY <1>3, <2>4, <2>5 DEF Quart
    <3> HIDE DEF r, q
    <3>2. tick + 1 + 1 <= a.sortie + Patience + q
      BY <1>3, <1>4, <3>1, PatienceType
    <3>3. QED
      BY <3>2 DEF q
  <2>7. QED
    BY <1>2, <1>10, <2>3, <2>4, <2>6 DEF Attendue, n
<1>11. CASE n.lieu.cellule # x
  <2>1. y.lieu.cellule # x /\ n = Migrer(y, Lieu(x), tick)
    BY <1>1, <1>6, <1>11
  <2>2. n.lieu # Lieu(x) /\ y.lieu # Lieu(x)
    BY <1>8, <1>11, <2>1
  <2>3. /\ Refus(n, tick, tick + 1)
        /\ \A s \in Nat : s < tick /\ Refus(y, s, tick) => Refus(n, s, tick + 1)
    BY <1>3, <1>7, <1>8, <2>1, <2>2, RefusSuit
  <2>4. a \in attente[e] => Refus(y, a.sortie, tick)
    BY <1>2, <1>7, <2>1 DEF Attendue
  <2>5. Refus(n, a.sortie, tick + 1)
    BY <1>2, <1>4, <1>9, <2>3, <2>4
  <2>6. QED
    BY <1>2, <1>11, <2>5 DEF Attendue, n
<1>12. QED
  BY <1>10, <1>11

LEMMA SainePas ==
  ASSUME SimInv, Situees, Attendues, RouteurFidele, RouteurMemoire \/ RouteurDate,
         NEW e \in Entites, NEW x \in Cellules
  PROVE  Saine(Arbitre(e, x), tick + 1)
<1> DEFINE n == Arbitre(e, x)
<1>1. /\ annuaire[e] = {} => n = Inscrite(Lieu(x))
      /\ \A y \in annuaire[e] :
           /\ y \in Entrees
           /\ y.lieu.cellule = x => n = y
           /\ y.lieu.cellule # x => n = Migrer(y, Lieu(x), tick)
  BY UneEntite
<1>2. tick \in Nat /\ Lieu(x) \in Lieux /\ Lieu(x).cellule = x
  BY LieuType DEF SimInv, SimType
<1>3. CASE annuaire[e] = {}
  <2> HIDE DEF n
  <2>1. n.essais = 0 /\ n.derniere = {}
    BY <1>1, <1>3 DEF Inscrite
  <2>2. QED
    BY <2>1, PatienceType DEF Saine, n
<1>4. ASSUME NEW y \in annuaire[e] PROVE Saine(n, tick + 1)
  <2>1. y \in Entrees /\ Saine(y, tick)
    BY <1>1 DEF Attendues
  <2>2. CASE y.lieu.cellule = x
    <3>1. n = y
      BY <1>1, <2>2
    <3>2. \A d \in y.derniere : d \in Nat /\ d < tick
      BY <2>1 DEF Entrees, Saine
    <3> HIDE DEF n
    <3>3. QED
      BY <1>2, <2>1, <3>1, <3>2 DEF Saine
  <2>3. CASE y.lieu.cellule # x
    <3>1. n = Migrer(y, Lieu(x), tick) /\ y.lieu # Lieu(x)
      BY <1>1, <1>2, <2>3
    <3>2. QED
      BY <1>2, <2>1, <3>1, RefusSuit
  <2>4. QED
    BY <2>2, <2>3
<1>5. QED
  BY <1>3, <1>4

LEMMA AttenduesPas ==
  ASSUME SimInv, Anciens, Situees, Attendues, RouteurFidele, RouteurMemoire \/ RouteurDate,
         NEW c \in [suivies -> Cellules], Pas(c)
  PROVE  Attendues'
<1>1. ASSUME NEW e \in Entites, NEW x \in annuaire'[e]
      PROVE  Saine(x, tick + 1) /\ \A a \in attente'[e] : Attendue(x, a, tick + 1)
  <2>1. /\ e \in suivies /\ c[e] \in Cellules /\ x = Arbitre(e, c[e])
        /\ attente'[e] = EnAttente(e, CibleDe(e, c[e]).cellule, c[e])
    BY PasEntite
  <2>2. QED
    BY <2>1, SainePas, AttenduePas
<1>2. tick' = tick + 1
  BY PasAccepte
<1>3. Attendues' <=> \A e \in Entites : \A x \in annuaire'[e] :
                        Saine(x, tick') /\ \A a \in attente'[e] : Attendue(x, a, tick')
  BY DEF Attendues, Saine, Attendue, Refus
<1>4. QED
  BY <1>1, <1>2, <1>3

LEMMA AttenduesTenues ==
  ASSUME RouteurMemoire \/ RouteurDate
  PROVE  Spec => [](SimInv /\ Anciens /\ Situees /\ Attendues)
<1>1. RouteurFidele
  BY RouteursFideles DEF RouteurFidele, RouteurMemoire, RouteurDate
<1>2. Init => Attendues
  BY DEF Init, Attendues
<1>3. SimInv /\ Anciens /\ Situees /\ Absentes /\ Attendues /\ [Next]_vars => Attendues'
  <2> SUFFICES ASSUME SimInv, Anciens, Situees, Absentes, Attendues, [Next]_vars
               PROVE  Attendues'
    OBVIOUS
  <2>1. ASSUME NEW c \in [suivies -> Cellules], Pas(c) PROVE Attendues'
    BY <1>1, <2>1, AttenduesPas
  <2>2. ASSUME UNCHANGED <<tick, annuaire, attente>> PROVE Attendues'
    <3>1. Attendues' <=> \A e \in Entites : \A x \in annuaire'[e] :
                            Saine(x, tick') /\ \A a \in attente'[e] : Attendue(x, a, tick')
      BY DEF Attendues, Saine, Attendue, Refus
    <3>2. QED
      BY <2>2, <3>1 DEF Attendues
  <2>3. ASSUME NEW e \in Entites, Suivre(e) PROVE Attendues'
    BY <2>2, <2>3 DEF Suivre
  <2>4. CASE UNCHANGED vars
    BY <2>2, <2>4 DEF vars
  <2>5. QED
    BY <2>1, <2>3, <2>4 DEF Next
<1>4. Spec => [](SimInv /\ Anciens /\ Situees /\ Absentes)
  BY <1>1, SitueesTenues
<1>5. QED
  BY <1>2, <1>3, <1>4, PTL DEF Spec

(* "borne donc la latence de bascule" (routage.rs:71-74), for the router    *)
(* that counts attempts and for the one that dates migrations: an entity    *)
(* that stays in its new cell is refused at most the hysteresis long, and   *)
(* then waits at most for the boundary that every tier has.                 *)
THEOREM BasculeTenue == RouteurMemoire \/ RouteurDate => (Spec => []BasculeBornee)
<1>1. SUFFICES ASSUME RouteurMemoire \/ RouteurDate PROVE Spec => []BasculeBornee
  OBVIOUS
<1>2. ASSUME SimInv, Anciens, Situees, Attendues PROVE BasculeBornee
  <2>1. SUFFICES ASSUME NEW e \in suivies, NEW a \in attente[e]
                 PROVE  tick - a.sortie < Patience + Quart - 1
    BY DEF BasculeBornee, Patience
  <2>2. e \in Entites /\ tick \in Nat /\ a.sortie \in Nat
    BY <1>2 DEF SimInv, SimType, Anciens, Attentes
  <2>3. PICK x \in annuaire[e] : x \in Entrees /\ Saine(x, tick) /\ Attendue(x, a, tick)
    BY <1>2, <2>2 DEF Situees, Attendues, SimInv, SimType
  <2>4. CASE x.lieu.cellule = a.visee
    <3>1. tick + 1 <= a.sortie + Patience + ((tick + 3) % Quart)
      BY <2>3, <2>4 DEF Attendue
    <3>2. (tick + 3) % Quart \in 0..3
      BY <2>2 DEF Quart
    <3>3. QED
      BY <2>2, <3>1, <3>2, PatienceType DEF Quart
  <2>5. CASE x.lieu.cellule # a.visee
    <3>1. tick + 1 <= a.sortie + Patience
      BY <2>2, <2>3, <2>5, RefusBorne DEF Attendue
    <3>2. QED
      BY <2>2, <3>1, PatienceType DEF Quart
  <2>6. QED
    BY <2>4, <2>5
<1>3. Spec => [](SimInv /\ Anciens /\ Situees /\ Attendues)
  BY <1>1, AttenduesTenues
<1>4. QED
  BY <1>2, <1>3, PTL

-----------------------------------------------------------------------------
(* The measures of the report.                                              *)

(* The entities whose router says another place than the last written, and  *)
(* those that wait.                                                         *)
Ecart(e) == \E x \in annuaire[e], w \in ecriture[e] : x.lieu # w.lieu
Ecarts   == {e \in suivies : Ecart(e)}
EnCours  == {e \in suivies : attente[e] # {}}

(* A change measured was granted, one still to be written or awaited too.   *)
Comptes ==
  /\ latences \in Nat /\ evitees \in Nat /\ accordees \in Nat /\ tentees \in Nat
  /\ latences + Cardinality(Ecarts) <= accordees
  /\ latences + evitees + Cardinality(Ecarts \cup EnCours) <= tentees

LEMMA RapportSimule == RSpec => Spec
<1>1. RInit => Init
  BY DEF RInit
<1>2. [RNext]_rvars => [Next]_vars
  BY DEF RNext, rvars, Next, vars
<1>3. QED
  BY <1>1, <1>2, PTL DEF RSpec, Spec

(* Changes counted against credits: each change ended or still awaited has  *)
(* a credit of its own, held since before or gained in this step.           *)
LEMMA Credits ==
  ASSUME NEW S, IsFiniteSet(S),
         NEW finis, NEW avant, NEW apres, NEW gagnes,
         finis \subseteq S, avant \subseteq S, gagnes \subseteq S,
         apres \subseteq (avant \ finis) \cup gagnes,
         finis \subseteq avant \cup gagnes,
         finis \cap apres \subseteq avant \cap gagnes
  PROVE  /\ Cardinality(finis) \in Nat /\ Cardinality(avant) \in Nat
         /\ Cardinality(apres) \in Nat /\ Cardinality(gagnes) \in Nat
         /\ Cardinality(finis) + Cardinality(apres) <= Cardinality(avant) + Cardinality(gagnes)
<1>1. /\ IsFiniteSet(finis) /\ IsFiniteSet(avant) /\ IsFiniteSet(gagnes) /\ IsFiniteSet(apres)
      /\ apres \subseteq S
  <2>1. apres \subseteq S
    OBVIOUS
  <2>2. QED
    BY <2>1, FS_Subset
<1>2. /\ Cardinality(finis) \in Nat /\ Cardinality(avant) \in Nat
      /\ Cardinality(apres) \in Nat /\ Cardinality(gagnes) \in Nat
  BY <1>1, FS_CardinalityType
<1>3. /\ IsFiniteSet(finis \cap apres) /\ IsFiniteSet(finis \cup apres)
      /\ IsFiniteSet(avant \cap gagnes) /\ IsFiniteSet(avant \cup gagnes)
  BY <1>1, FS_Intersection, FS_Union
<1>4. /\ Cardinality(finis \cap apres) \in Nat /\ Cardinality(finis \cup apres) \in Nat
      /\ Cardinality(avant \cap gagnes) \in Nat /\ Cardinality(avant \cup gagnes) \in Nat
  BY <1>3, FS_CardinalityType
<1>5. /\ Cardinality(finis \cup apres)
           = Cardinality(finis) + Cardinality(apres) - Cardinality(finis \cap apres)
      /\ Cardinality(avant \cup gagnes)
           = Cardinality(avant) + Cardinality(gagnes) - Cardinality(avant \cap gagnes)
  BY <1>1, FS_Union
<1>6. Cardinality(finis \cup apres) <= Cardinality(avant \cup gagnes)
  <2>1. finis \cup apres \subseteq avant \cup gagnes
    OBVIOUS
  <2>2. QED
    BY <1>3, <2>1, FS_Subset
<1>7. Cardinality(finis \cap apres) <= Cardinality(avant \cap gagnes)
  BY <1>3, FS_Subset
<1>8. QED
  BY <1>2, <1>4, <1>5, <1>6, <1>7

(* What one entity does to the counts.                                      *)
LEMMA CompteEntite ==
  ASSUME SimInv, Situees, RouteurFidele, NEW c \in [suivies -> Cellules], Pas(c), NEW e \in suivies
  PROVE  /\ e \in Basculees(c) => ~Ecart(e)' /\ (Ecart(e) \/ e \in Accordees(c))
         /\ Ecart(e)' => Ecart(e) \/ e \in Accordees(c)
         /\ e \in Arrivees(c) => attente[e] # {} /\ attente'[e] = {}
                                 /\ (Ecart(e)' => e \in Demandeuses(c))
         /\ Ecart(e)' \/ attente'[e] # {} =>
              Ecart(e) \/ attente[e] # {} \/ e \in Demandeuses(c)
<1> DEFINE x == c[e]
           n == Arbitre(e, x)
           l == CibleDe(e, x)
<1>1. e \in Entites /\ x \in Cellules
  BY DEF SimInv, SimType
<1>2. /\ n \in Entrees /\ l \in Lieux
      /\ annuaire[e] = {} => n = Inscrite(Lieu(x)) /\ l = Lieu(x)
      /\ \A y \in annuaire[e] :
           /\ y \in Entrees
           /\ y.lieu.cellule = x => n = y
           /\ y.lieu.cellule # x => n = Migrer(y, Lieu(x), tick) /\ n.lieu \in {y.lieu, Lieu(x)}
      /\ l # n.lieu => \E w \in ecriture[e] : l = w.lieu /\ Sceau(n.lieu, Reevalues) <= w.sceau
  BY <1>1, UneEntite
<1>3. /\ annuaire'[e] = {n} /\ ecriture'[e] = {CleDe(e, x)} /\ CleDe(e, x).lieu = l
      /\ attente'[e] = EnAttente(e, l.cellule, x)
  BY <1>1, PasEntite
<1>4. /\ e \in Demandeuses(c) <=> \E y \in annuaire[e] : y.lieu.cellule # x
      /\ e \in Accordees(c) <=> e \in Demandeuses(c) /\ n.lieu = Lieu(x)
      /\ e \in Arrivees(c) <=> l.cellule = x /\ attente[e] # {}
      /\ e \in Basculees(c) <=> e \in Arrivees(c) /\ \E a \in attente[e] : a.visee = x
  BY DEF Demandeuses, Accordees, Arrivees, Basculees, Ecrite, CibleDe
<1>5. Ecart(e)' <=> n.lieu # l
  <2>1. Ecart(e)' <=> \E y \in annuaire'[e], w \in ecriture'[e] : y.lieu # w.lieu
    BY DEF Ecart
  <2> HIDE DEF n, l, x
  <2>2. QED
    BY <1>3, <2>1
<1>6. Lieu(x) \in Lieux /\ Lieu(x).cellule = x /\ n.lieu \in Lieux
  BY <1>1, <1>2, LieuType DEF Entrees
<1>7. /\ \A y, z \in annuaire[e] : y = z
      /\ \A a, b \in attente[e] : a = b
      /\ annuaire[e] = {} <=> ecriture[e] = {}
      /\ annuaire[e] = {} => attente[e] = {}
      /\ \A a \in attente[e], w \in ecriture[e] : a.visee # w.lieu.cellule
  BY <1>1 DEF Situees
<1>8. \A v, w \in ecriture[e] : v = w
  BY <1>1 DEF SimInv, Derniere
<1>9. l.cellule = x => l = Lieu(x)
  BY <1>2, <1>6, LieuxDistincts
<1>10. attente'[e] = {} <=> l.cellule = x
  <2> HIDE DEF n, l, x
  <2>1. attente'[e] = IF l.cellule = x THEN {}
                      ELSE IF \E a \in attente[e] : a.visee = x THEN attente[e]
                      ELSE {[visee |-> x, sortie |-> tick]}
    BY <1>3 DEF EnAttente
  <2>2. QED
    BY <2>1
<1>11. \A y \in annuaire[e] : y.lieu \in Lieux /\ (y.lieu = Lieu(x) <=> y.lieu.cellule = x)
  BY <1>2, <1>6, LieuxDistincts DEF Entrees
<1> HIDE DEF n, l, x
<1>12. n.lieu # l => \E w \in ecriture[e] : l = w.lieu
  BY <1>2
<1>13. Ecart(e)' => Ecart(e) \/ e \in Accordees(c)
  <2>1. SUFFICES ASSUME n.lieu # l, ~Ecart(e) PROVE e \in Accordees(c)
    BY <1>5
  <2>2. PICK w \in ecriture[e] : l = w.lieu
    BY <1>12, <2>1
  <2>3. PICK y \in annuaire[e] : TRUE
    BY <1>7, <2>2
  <2>4. y.lieu = l
    BY <2>1, <2>2 DEF Ecart
  <2>5. y.lieu.cellule # x /\ n.lieu = Lieu(x)
    BY <1>2, <2>1, <2>4
  <2>6. QED
    BY <1>4, <2>5
<1>14. e \in Basculees(c) => ~Ecart(e)' /\ (Ecart(e) \/ e \in Accordees(c))
  <2>1. SUFFICES ASSUME e \in Basculees(c) PROVE n.lieu = l /\ (Ecart(e) \/ e \in Accordees(c))
    BY <1>5
  <2>2. PICK a \in attente[e] : a.visee = x /\ l = Lieu(x) /\ l.cellule = x
    BY <1>4, <1>9, <2>1
  <2>3. \A w \in ecriture[e] : w.lieu.cellule # x
    BY <1>7, <2>2
  <2>4. n.lieu = l
    BY <1>12, <2>2, <2>3
  <2>5. PICK y \in annuaire[e] : TRUE
    BY <1>7, <2>2
  <2>6. PICK w \in ecriture[e] : TRUE
    BY <1>7, <2>5
  <2>7. CASE y.lieu = w.lieu
    <3>1. y.lieu.cellule # x
      BY <2>3, <2>7
    <3>2. QED
      BY <1>4, <2>2, <2>4, <3>1
  <2>8. CASE y.lieu # w.lieu
    BY <2>4, <2>8 DEF Ecart
  <2>9. QED
    BY <2>7, <2>8
<1>15. e \in Arrivees(c) => attente[e] # {} /\ attente'[e] = {}
                            /\ (Ecart(e)' => e \in Demandeuses(c))
  <2>1. SUFFICES ASSUME e \in Arrivees(c), n.lieu # l PROVE e \in Demandeuses(c)
    BY <1>4, <1>5, <1>10
  <2>2. l = Lieu(x) /\ attente[e] # {}
    BY <1>4, <1>9, <2>1
  <2>3. PICK y \in annuaire[e] : TRUE
    BY <1>7, <2>2
  <2>4. y.lieu.cellule = x => n.lieu = Lieu(x)
    BY <1>2, <1>11
  <2>5. QED
    BY <1>4, <2>1, <2>2, <2>4
<1>16. attente'[e] # {} => Ecart(e) \/ attente[e] # {} \/ e \in Demandeuses(c)
  <2>1. SUFFICES ASSUME l.cellule # x, e \notin Demandeuses(c) PROVE Ecart(e)
    BY <1>10
  <2>2. PICK y \in annuaire[e] : y.lieu.cellule = x
    BY <1>2, <1>4, <1>6, <2>1
  <2>3. n = y /\ y.lieu = Lieu(x) /\ n.lieu # l
    BY <1>2, <1>6, <1>11, <2>1, <2>2
  <2>4. PICK w \in ecriture[e] : l = w.lieu
    BY <1>12, <2>3
  <2>5. QED
    BY <2>3, <2>4 DEF Ecart
<1>17. e \in Accordees(c) => e \in Demandeuses(c)
  BY <1>4
<1>18. QED
  BY <1>13, <1>14, <1>15, <1>16, <1>17

LEMMA ComptesPas ==
  ASSUME SimInv, Anciens, Situees, Comptes, RouteurFidele,
         NEW c \in [suivies -> Cellules], Pas(c), Mesurer(c)
  PROVE  Comptes'
<1>1. suivies' = suivies /\ IsFiniteSet(suivies)
  BY PasAccepte DEF Anciens
<1>2. /\ Basculees(c) \subseteq Arrivees(c) /\ Arrivees(c) \subseteq suivies
      /\ Accordees(c) \subseteq suivies /\ Demandeuses(c) \subseteq suivies
      /\ Ecarts \subseteq suivies /\ EnCours \subseteq suivies
  BY DEF Basculees, Arrivees, Accordees, Demandeuses, Ecarts, EnCours
<1>3. /\ Ecarts' = {e \in suivies : Ecart(e)'}
      /\ EnCours' = {e \in suivies : attente'[e] # {}}
  BY <1>1 DEF Ecarts, Ecart, EnCours
<1>4. /\ latences'  = latences + Cardinality(Basculees(c))
      /\ evitees'   = evitees + Cardinality(Arrivees(c) \ Basculees(c))
      /\ accordees' = accordees + Cardinality(Accordees(c))
      /\ tentees'   = tentees + Cardinality(Demandeuses(c))
  BY DEF Mesurer, CompterMigrations, CompterBascules
<1>5. \A e \in suivies :
        /\ e \in Basculees(c) => ~Ecart(e)' /\ (Ecart(e) \/ e \in Accordees(c))
        /\ Ecart(e)' => Ecart(e) \/ e \in Accordees(c)
        /\ e \in Arrivees(c) => attente[e] # {} /\ attente'[e] = {}
                                /\ (Ecart(e)' => e \in Demandeuses(c))
        /\ Ecart(e)' \/ attente'[e] # {} =>
             Ecart(e) \/ attente[e] # {} \/ e \in Demandeuses(c)
  BY CompteEntite
<1>6. /\ Cardinality(Basculees(c)) \in Nat /\ Cardinality(Ecarts) \in Nat
      /\ Cardinality(Ecarts') \in Nat /\ Cardinality(Accordees(c)) \in Nat
      /\ Cardinality(Basculees(c)) + Cardinality(Ecarts')
           <= Cardinality(Ecarts) + Cardinality(Accordees(c))
  <2>1. Ecarts' \subseteq (Ecarts \ Basculees(c)) \cup Accordees(c)
    BY <1>3, <1>5 DEF Ecarts
  <2>2. Basculees(c) \subseteq Ecarts \cup Accordees(c)
    BY <1>2, <1>5 DEF Ecarts
  <2>3. Basculees(c) \cap Ecarts' \subseteq Ecarts \cap Accordees(c)
    BY <1>3, <1>5
  <2>4. Basculees(c) \subseteq suivies
    BY <1>2
  <2>5. QED
    BY <1>1, <1>2, <2>1, <2>2, <2>3, <2>4, Credits
<1>7. /\ Cardinality(Arrivees(c)) \in Nat /\ Cardinality(Ecarts \cup EnCours) \in Nat
      /\ Cardinality((Ecarts \cup EnCours)') \in Nat /\ Cardinality(Demandeuses(c)) \in Nat
      /\ Cardinality(Arrivees(c)) + Cardinality((Ecarts \cup EnCours)')
           <= Cardinality(Ecarts \cup EnCours) + Cardinality(Demandeuses(c))
  <2>1. (Ecarts \cup EnCours)' \subseteq ((Ecarts \cup EnCours) \ Arrivees(c)) \cup Demandeuses(c)
    BY <1>3, <1>5 DEF Ecarts, EnCours
  <2>2. Arrivees(c) \subseteq (Ecarts \cup EnCours) \cup Demandeuses(c)
    BY <1>2, <1>5 DEF Ecarts, EnCours
  <2>3. Arrivees(c) \cap (Ecarts \cup EnCours)' \subseteq (Ecarts \cup EnCours) \cap Demandeuses(c)
    BY <1>2, <1>3, <1>5 DEF EnCours
  <2>4. Ecarts \cup EnCours \subseteq suivies
    BY <1>2
  <2>5. QED
    BY <1>1, <1>2, <2>1, <2>2, <2>3, <2>4, Credits
<1>8. /\ Cardinality(Arrivees(c) \ Basculees(c)) \in Nat
      /\ Cardinality(Arrivees(c) \ Basculees(c)) = Cardinality(Arrivees(c)) - Cardinality(Basculees(c))
  <2>1. IsFiniteSet(Arrivees(c))
    BY <1>1, <1>2, FS_Subset
  <2>2. /\ IsFiniteSet(Arrivees(c) \ Basculees(c))
        /\ Cardinality(Arrivees(c) \ Basculees(c))
             = Cardinality(Arrivees(c)) - Cardinality(Arrivees(c) \cap Basculees(c))
    BY <2>1, FS_Difference
  <2>3. Arrivees(c) \cap Basculees(c) = Basculees(c)
    BY <1>2
  <2>4. QED
    BY <2>2, <2>3, FS_CardinalityType
<1>9. QED
  BY <1>4, <1>6, <1>7, <1>8 DEF Comptes

LEMMA ComptesTenus == RouteurFidele => (RSpec => []Comptes)
<1>1. SUFFICES ASSUME RouteurFidele PROVE RSpec => []Comptes
  OBVIOUS
<1>2. RInit => Comptes
  <2> SUFFICES ASSUME RInit PROVE Comptes
    OBVIOUS
  <2>1. Ecarts = {} /\ EnCours = {}
    BY DEF RInit, Init, Ecarts, EnCours
  <2>2. Cardinality({}) = 0 /\ Ecarts \cup EnCours = {}
    BY <2>1, FS_EmptySet
  <2>3. QED
    BY <2>1, <2>2 DEF RInit, Comptes
<1>3. SimInv /\ Anciens /\ Situees /\ Absentes /\ Comptes /\ [RNext]_rvars => Comptes'
  <2> SUFFICES ASSUME SimInv, Anciens, Situees, Absentes, Comptes, [RNext]_rvars
               PROVE  Comptes'
    OBVIOUS
  <2>1. ASSUME NEW c \in [suivies -> Cellules], Pas(c), Mesurer(c) PROVE Comptes'
    BY <1>1, <2>1, ComptesPas
  <2>2. ASSUME NEW e \in Entites, Suivre(e), UNCHANGED mesures PROVE Comptes'
    <3>1. /\ suivies' = suivies \cup {e} /\ e \notin suivies
          /\ UNCHANGED <<annuaire, ecriture, attente>>
          /\ UNCHANGED <<latences, evitees, accordees, tentees>>
      BY <2>2 DEF Suivre, mesures
    <3>2. annuaire[e] = {} /\ attente[e] = {}
      BY <3>1 DEF Absentes
    <3>3. Ecarts' = Ecarts /\ EnCours' = EnCours
      BY <3>1, <3>2 DEF Ecarts, Ecart, EnCours
    <3>4. QED
      BY <3>1, <3>3 DEF Comptes
  <2>3. CASE UNCHANGED rvars
    <3>1. Ecarts' = Ecarts /\ EnCours' = EnCours
      BY <2>3 DEF rvars, vars, Ecarts, Ecart, EnCours
    <3>2. QED
      BY <2>3, <3>1 DEF rvars, mesures, Comptes
  <2>4. QED
    BY <2>1, <2>2, <2>3 DEF RNext
<1>4. RSpec => [](SimInv /\ Anciens /\ Situees /\ Absentes)
  BY <1>1, SitueesTenues, RapportSimule
<1>5. QED
  BY <1>2, <1>3, <1>4, PTL DEF RSpec

(* The changes of cell that H3 is judged on (harness.rs:92-93, 112-117):    *)
(* no more are measured than were granted, nor started than were asked for. *)
THEOREM BasculesJustifiees == RouteurFidele => (RSpec => []BasculesMesurees)
<1>1. SUFFICES ASSUME RouteurFidele PROVE RSpec => []BasculesMesurees
  OBVIOUS
<1>2. ASSUME Anciens, Comptes PROVE BasculesMesurees
  <2>1. /\ IsFiniteSet(EnCours) /\ IsFiniteSet(Ecarts) /\ IsFiniteSet(Ecarts \cup EnCours)
    <3>1. EnCours \subseteq suivies /\ Ecarts \subseteq suivies /\ IsFiniteSet(suivies)
      BY <1>2 DEF Anciens, EnCours, Ecarts
    <3>2. QED
      BY <3>1, FS_Subset, FS_Union
  <2>2. Cardinality(EnCours) <= Cardinality(Ecarts \cup EnCours)
    BY <2>1, FS_Subset
  <2>3. /\ Cardinality(EnCours) \in Nat /\ Cardinality(Ecarts) \in Nat
        /\ Cardinality(Ecarts \cup EnCours) \in Nat
    BY <2>1, FS_CardinalityType
  <2>4. /\ latences <= accordees
        /\ latences + evitees + Cardinality(EnCours) <= tentees
    BY <1>2, <2>2, <2>3 DEF Comptes
  <2>5. QED
    BY <2>4 DEF BasculesMesurees, EnCours
<1>3. RSpec => []Anciens
  BY <1>1, AnciensTenus, RapportSimule, PTL
<1>4. QED
  BY <1>1, <1>2, <1>3, ComptesTenus, PTL

-----------------------------------------------------------------------------
(* The cadence of a cell.                                                   *)

(* The chronotope that a write to cell x goes to at the next step.          *)
Ouvre(x) == [lieu |-> Lieu(x), sceau |-> Prochain(x)]

(* n chronotopes hold the m ticks that wrote a cell, the last one not full  *)
(* yet if it is open and dated s.                                           *)
Groupe(n, m, p, ouvert, s, t) ==
  /\ n <= m
  /\ IF ouvert THEN m + s + p <= p * n + t ELSE m <= p * n

(* No open chronotope is of a tick to come, and each cell's are a group.    *)
Groupes ==
  /\ sceaux \in [Cellules -> Nat]
  /\ occupees \in [Cellules -> Nat]
  /\ palierMax \in [Cellules -> Paliers]
  /\ \A x \in Cellules : palier[x] <= palierMax[x]
  /\ \A x \in Cellules : IsFiniteSet(DeCellule(ouverts, x))
  /\ \A k \in ouverts : k.sceau <= Prochain(k.lieu.cellule)
  /\ \A x \in Cellules :
       Groupe(sceaux[x] + Cardinality(DeCellule(ouverts, x)), occupees[x], palierMax[x],
              Ouvre(x) \in ouverts, Prochain(x), tick)

(* A tick more, at tier r, for n chronotopes that m ticks wrote: in a new   *)
(* one, in the one open, dated s, or in none.                               *)
LEMMA GroupePas ==
  ASSUME NEW p \in Paliers, NEW q \in Paliers, NEW r \in Paliers, p <= q, r <= q,
         NEW n \in Nat, NEW m \in Nat, NEW s \in Nat, NEW t \in Nat, s <= t, t < s + r
  PROVE  /\ m <= p * n =>
              /\ m + 1 + s + q <= q * (n + 1) + (t + 1)
              /\ m + 1 <= q * (n + 1)
              /\ m <= q * n
         /\ n > 0 /\ m + s + p <= p * n + t =>
              /\ m + 1 + s + q <= q * n + (t + 1)
              /\ m + s + q <= q * n + (t + 1)
              /\ m + 1 <= q * n /\ m <= q * n
<1>1. p \in {1, 2, 4} /\ q \in {1, 2, 4} /\ r \in {1, 2, 4}
  BY DEF Paliers, Nominal, Demi, Quart
<1>2. p * n <= q * n /\ p * n \in Nat /\ q * n \in Nat /\ q * (n + 1) = q * n + q
  BY <1>1
<1>3. n > 0 => p * n + q <= q * n + p
  <2>1. SUFFICES ASSUME n > 0 PROVE p * n + q <= q * n + p
    OBVIOUS
  <2>2. QED
    BY <1>1, <2>1
<1> DEFINE a == p * n
           b == q * n
<1>4. /\ a <= b /\ a \in Nat /\ b \in Nat /\ q * (n + 1) = b + q
      /\ n > 0 => a + q <= b + p
      /\ p \in Nat /\ q \in Nat /\ r \in Nat /\ q >= 1
  BY <1>1, <1>2, <1>3
<1> HIDE DEF a, b
<1>5. ASSUME m <= a
      PROVE  m + 1 + s + q <= b + q + (t + 1) /\ m + 1 <= b + q /\ m <= b
  BY <1>4, <1>5
<1>6. ASSUME n > 0, m + s + p <= a + t
      PROVE  m + 1 + s + q <= b + (t + 1) /\ m + s + q <= b + (t + 1) /\ m + 1 <= b /\ m <= b
  BY <1>4, <1>6
<1>7. QED
  BY <1>4, <1>5, <1>6 DEF a, b

(* What is open, and k if it is written, parted into sealed and left open.  *)
Partage(ouv, ecrites, k, finis, reste) ==
  /\ IsFiniteSet(ouv) /\ (ecrites = {} \/ ecrites = {k})
  /\ finis \subseteq ouv \cup ecrites /\ reste = (ouv \cup ecrites) \ finis

(* What is sealed of a cell and what stays open of it are what was open and *)
(* what is written.                                                         *)
LEMMA ChronotopesComptes ==
  ASSUME NEW ouv, NEW ecrites, NEW k, NEW finis, NEW reste,
         Partage(ouv, ecrites, k, finis, reste)
  PROVE  /\ IsFiniteSet(reste) /\ Cardinality(finis) \in Nat
         /\ Cardinality(reste) \in Nat /\ Cardinality(ouv) \in Nat
         /\ k \in ouv => Cardinality(ouv) > 0
         /\ ecrites # {} /\ k \notin ouv =>
              Cardinality(finis) + Cardinality(reste) = Cardinality(ouv) + 1
         /\ ecrites = {} \/ k \in ouv =>
              Cardinality(finis) + Cardinality(reste) = Cardinality(ouv)
<1> USE DEF Partage
<1> DEFINE tout == ouv \cup ecrites
<1>1. /\ IsFiniteSet(tout)
      /\ ecrites # {} /\ k \notin ouv => Cardinality(tout) = Cardinality(ouv) + 1
      /\ ecrites = {} \/ k \in ouv => Cardinality(tout) = Cardinality(ouv)
  <2>1. CASE ecrites # {}
    <3>1. tout = ouv \cup {k}
      BY <2>1
    <3>2. QED
      BY <2>1, <3>1, FS_AddElement
  <2>2. CASE ecrites = {}
    <3>1. tout = ouv
      BY <2>2
    <3>2. QED
      BY <2>2, <3>1
  <2>3. QED
    BY <2>1, <2>2
<1>2. IsFiniteSet(finis)
  BY <1>1, FS_Subset
<1>3. /\ IsFiniteSet(reste)
      /\ Cardinality(reste) = Cardinality(tout) - Cardinality(tout \cap finis)
  BY <1>1, FS_Difference
<1>4. tout \cap finis = finis
  OBVIOUS
<1>5. Cardinality(reste) = Cardinality(tout) - Cardinality(finis)
  BY <1>3, <1>4, Zenon
<1>6. k \in ouv => Cardinality(ouv) > 0
  <2>1. SUFFICES ASSUME k \in ouv PROVE Cardinality(ouv) > 0
    OBVIOUS
  <2>2. Cardinality({k}) = 1 /\ {k} \subseteq ouv
    BY <2>1, FS_Singleton
  <2>3. Cardinality({k}) <= Cardinality(ouv)
    BY <2>2, FS_Subset
  <2>4. QED
    BY <2>2, <2>3, FS_CardinalityType
<1>7. /\ Cardinality(finis) \in Nat /\ Cardinality(reste) \in Nat
      /\ Cardinality(ouv) \in Nat /\ Cardinality(tout) \in Nat
  BY <1>1, <1>2, <1>3, FS_CardinalityType
<1> HIDE DEF tout
<1>8. QED
  BY <1>1, <1>3, <1>5, <1>6, <1>7

(* What a step writes of a cell is one chronotope.                          *)
LEMMA UnChronotope ==
  ASSUME SimInv, RouteurFidele, NEW c \in [suivies -> Cellules]
  PROVE  /\ Ecrits(c) = {CleDe(e, c[e]) : e \in suivies}
         /\ \A k \in Ecrits(c) : k \in Sceaux /\ k = Ouvre(k.lieu.cellule)
<1>1. \A e \in suivies : e \in Entites /\ c[e] \in Cellules
  BY DEF SimInv, SimType
<1>2. ASSUME NEW e \in suivies
      PROVE  /\ Acceptee(CleDe(e, c[e]))
             /\ CleDe(e, c[e]) \in Sceaux
             /\ CleDe(e, c[e]) = Ouvre(CleDe(e, c[e]).lieu.cellule)
  <2> DEFINE k == CleDe(e, c[e])
  <2>1. Acceptee(k) /\ k \in Sceaux /\ k.sceau = Prochain(k.lieu.cellule)
    BY <1>1, CleNeuve, CleAcceptee
  <2> HIDE DEF k
  <2>2. k = [lieu |-> k.lieu, sceau |-> k.sceau] /\ Lieu(k.lieu.cellule) = k.lieu
    BY <2>1, LieuType DEF Sceaux
  <2>3. k = Ouvre(k.lieu.cellule)
    BY <2>1, <2>2 DEF Ouvre
  <2>4. QED
    BY <2>1, <2>3 DEF k
<1>3. Ecrits(c) = {k \in {CleDe(e, c[e]) : e \in suivies} : Acceptee(k)}
  BY DEF Ecrits, Ecrite, CleDe, CibleDe
<1>4. QED
  BY <1>2, <1>3

LEMMA GroupesPas ==
  ASSUME SimInv, Groupes, RouteurFidele,
         NEW c \in [suivies -> Cellules], Pas(c), Mesurer(c)
  PROVE  Groupes'
<1> DEFINE ouv == ouverts \cup Ecrits(c)
           finis == Expires(ouv, Reevalues)
<1>1. /\ tick' = tick + 1 /\ palier' = Reevalues /\ ouverts' = ouv \ finis
      /\ \A k \in Ecrits(c) : k \in Sceaux /\ k = Ouvre(k.lieu.cellule)
  <2>1. Ecrits(c) = {CleDe(e, c[e]) : e \in suivies}
    BY UnChronotope
  <2>2. QED
    BY <2>1, UnChronotope, PasAccepte
<1>2. /\ sceaux' = [x \in Cellules |-> sceaux[x] + Cardinality(DeCellule(finis, x))]
      /\ palierMax' = [x \in Cellules |-> PlusGrossier(palierMax[x], Reevalues[x])]
      /\ occupees' = [x \in Cellules |->
           occupees[x] + IF DeCellule(Ecrits(c), x) = {} THEN 0 ELSE 1]
  BY DEF Mesurer, CompterSceaux, CompterPaliers, Retenir
<1>3. /\ SimType /\ Reevalues \in [Cellules -> Paliers] /\ tick \in Nat
      /\ \A x \in Cellules : /\ sceaux[x] \in Nat /\ occupees[x] \in Nat
                             /\ palierMax[x] \in Paliers /\ Reevalues[x] \in Paliers
  BY ReevaluesType DEF SimInv, SimType, Groupes
<1>4. \A k \in ouv : k \in Sceaux /\ k.sceau <= Prochain(k.lieu.cellule)
  <2>1. \A k \in ouverts : k \in Sceaux /\ k.sceau <= Prochain(k.lieu.cellule)
    BY <1>3 DEF SimType, Groupes
  <2>2. ASSUME NEW k \in Ecrits(c) PROVE k.sceau <= Prochain(k.lieu.cellule)
    <3>1. k \in Sceaux /\ k.sceau = Prochain(k.lieu.cellule)
      BY <1>1 DEF Ouvre
    <3>2. k.sceau \in Nat
      BY <3>1 DEF Sceaux
    <3>3. QED
      BY <3>1, <3>2
  <2>3. QED
    BY <1>1, <2>1, <2>2
<1>5. \A k \in finis : /\ k \in ouv
                       /\ k.sceau + HorizonTicks(Reevalues[k.lieu.cellule]) <= tick
  BY DEF Expires
<1> HIDE DEF finis
(* One cell.                                                                *)
<1>6. ASSUME NEW x \in Cellules
      PROVE  /\ Prochain(x) \in Nat /\ Prochain(x)' \in Nat
             /\ Prochain(x) <= Prochain(x)'
             /\ \A s \in Nat : s + Reevalues[x] <= tick => s < Prochain(x)'
             /\ Prochain(x) <= tick /\ tick < Prochain(x) + Reevalues[x]
  <2>1. /\ Prochain(x) \in Nat /\ Prochain(x)' \in Nat
        /\ Prochain(x) <= Prochain(x)'
        /\ \A s \in Nat : s + Reevalues[x] <= tick => s < Prochain(x)'
    BY <1>1, <1>3, ProchainAvance
  <2>2. TickDeSceau(Reevalues[x], tick) <= tick
        /\ tick < TickDeSceau(Reevalues[x], tick) + Reevalues[x]
    BY <1>3, SceauType
  <2>3. QED
    BY <2>1, <2>2 DEF Prochain
<1>7. ASSUME NEW x \in Cellules, NEW k \in ouv, k.lieu.cellule = x
      PROVE  k.sceau <= Prochain(x)'
  <2>1. k.sceau \in Nat /\ k.sceau <= Prochain(x)
    BY <1>4, <1>7 DEF Sceaux
  <2>2. QED
    BY <1>6, <2>1
<1>8. ASSUME NEW x \in Cellules
      PROVE  /\ Ouvre(x)' = [lieu |-> Lieu(x), sceau |-> Prochain(x)']
             /\ Ouvre(x) = [lieu |-> Lieu(x), sceau |-> Prochain(x)]
             /\ Ouvre(x).lieu.cellule = x
  BY LieuType DEF Ouvre, Lieu
<1>9. ASSUME NEW x \in Cellules
      PROVE  DeCellule(Ecrits(c), x) = {} \/ DeCellule(Ecrits(c), x) = {Ouvre(x)}
  BY <1>1 DEF DeCellule
<1>10. ASSUME NEW x \in Cellules
       PROVE  /\ DeCellule(ouverts', x)
                   = (DeCellule(ouverts, x) \cup DeCellule(Ecrits(c), x)) \ DeCellule(finis, x)
              /\ DeCellule(finis, x) \subseteq DeCellule(ouverts, x) \cup DeCellule(Ecrits(c), x)
              /\ Ouvre(x) \in ouverts <=> Ouvre(x) \in DeCellule(ouverts, x)
              /\ Ouvre(x) \in Ecrits(c) <=> DeCellule(Ecrits(c), x) # {}
  <2>1. DeCellule(ouverts', x)
          = (DeCellule(ouverts, x) \cup DeCellule(Ecrits(c), x)) \ DeCellule(finis, x)
    BY <1>1 DEF DeCellule
  <2>2. DeCellule(finis, x) \subseteq DeCellule(ouverts, x) \cup DeCellule(Ecrits(c), x)
    BY <1>5 DEF DeCellule
  <2>3. Ouvre(x) \in ouverts <=> Ouvre(x) \in DeCellule(ouverts, x)
    BY <1>8 DEF DeCellule
  <2>4. Ouvre(x) \in Ecrits(c) <=> DeCellule(Ecrits(c), x) # {}
    BY <1>8, <1>9 DEF DeCellule
  <2>5. QED
    BY <2>1, <2>2, <2>3, <2>4
<1>11. ASSUME NEW x \in Cellules
       PROVE  /\ Prochain(x)' = Prochain(x) =>
                   (Ouvre(x)' \in ouverts' <=> Ouvre(x) \in ouverts \/ Ouvre(x) \in Ecrits(c))
              /\ Prochain(x)' # Prochain(x) => ~(Ouvre(x)' \in ouverts')
  <2>1. Ouvre(x) \notin finis \/ Prochain(x)' # Prochain(x)
    <3>1. SUFFICES ASSUME Ouvre(x) \in finis PROVE Prochain(x) < Prochain(x)'
      BY <1>6
    <3>2. Prochain(x) + HorizonTicks(Reevalues[x]) <= tick
      BY <1>5, <1>8, <3>1
    <3>3. Prochain(x) + Reevalues[x] <= tick
      BY <1>3, <1>6, <3>2, HorizonPasse
    <3>4. QED
      BY <1>6, <3>3
  <2>2. CASE Prochain(x)' = Prochain(x)
    <3>1. Ouvre(x)' = Ouvre(x) /\ Ouvre(x) \notin finis
      BY <1>8, <2>1, <2>2
    <3>2. QED
      BY <1>1, <2>2, <3>1
  <2>3. CASE Prochain(x)' # Prochain(x)
    <3>1. \A k \in ouv : k.lieu.cellule = x => k.sceau <= Prochain(x) /\ k.sceau \in Nat
      BY <1>4 DEF Sceaux
    <3>2. Ouvre(x)'.sceau = Prochain(x)' /\ Ouvre(x)'.lieu.cellule = x
      BY <1>8
    <3>3. ~(Prochain(x)' <= Prochain(x))
      BY <1>6, <2>3
    <3>4. Ouvre(x)' \notin ouv
      BY <3>1, <3>2, <3>3
    <3>5. QED
      BY <1>1, <2>3, <3>4
  <2>4. QED
    BY <2>2, <2>3
<1>12. ASSUME NEW x \in Cellules
       PROVE  /\ IsFiniteSet(DeCellule(ouverts', x))
              /\ sceaux'[x] \in Nat /\ occupees'[x] \in Nat /\ palierMax'[x] \in Paliers
              /\ Reevalues[x] <= palierMax'[x]
              /\ Groupe(sceaux'[x] + Cardinality(DeCellule(ouverts', x)), occupees'[x],
                        palierMax'[x], Ouvre(x)' \in ouverts', Prochain(x)', tick + 1)
  <2> DEFINE O == DeCellule(ouverts, x)
             W == DeCellule(Ecrits(c), x)
             F == DeCellule(finis, x)
             R == DeCellule(ouverts', x)
             k == Ouvre(x)
             a == sceaux[x]
             n == a + Cardinality(O)
             m == occupees[x]
             p == palierMax[x]
             q == palierMax'[x]
             r == Reevalues[x]
             s == Prochain(x)
             s2 == Prochain(x)'
  <2>1. /\ sceaux'[x] = a + Cardinality(F)
        /\ q = PlusGrossier(p, r)
        /\ W # {} => occupees'[x] = m + 1
        /\ W = {} => occupees'[x] = m
    BY <1>2, <1>3
  <2>2. Partage(O, W, k, F, R)
    BY <1>9, <1>10 DEF Groupes, Partage
  <2>3. /\ n <= m
        /\ k \in O => m + s + p <= p * n + tick
        /\ k \notin O => m <= p * n
    <3>1. Groupe(n, m, p, k \in ouverts, s, tick)
      BY DEF Groupes
    <3>2. k \in ouverts <=> k \in O
      BY <1>10
    <3>3. QED
      BY <3>1, <3>2 DEF Groupe
  <2>4. q \in Paliers /\ p <= q /\ r <= q
    BY <1>3, <2>1 DEF PlusGrossier, Paliers, Nominal, Demi, Quart
  <2>5. /\ s2 = s => (Ouvre(x)' \in ouverts' <=> k \in O \/ W # {})
        /\ s2 # s => ~(Ouvre(x)' \in ouverts')
    BY <1>10, <1>11
  <2>6. /\ p \in Paliers /\ r \in Paliers /\ a \in Nat /\ m \in Nat
        /\ s \in Nat /\ s2 \in Nat /\ tick \in Nat /\ s <= tick /\ tick < s + r
    BY <1>3, <1>6
  <2> HIDE DEF O, W, F, R, k
  <2>7. /\ IsFiniteSet(R) /\ Cardinality(F) \in Nat
        /\ Cardinality(R) \in Nat /\ Cardinality(O) \in Nat
        /\ k \in O => Cardinality(O) > 0
        /\ W # {} /\ k \notin O => Cardinality(F) + Cardinality(R) = Cardinality(O) + 1
        /\ W = {} \/ k \in O => Cardinality(F) + Cardinality(R) = Cardinality(O)
    BY <2>2, ChronotopesComptes
  <2> DEFINE n2 == sceaux'[x] + Cardinality(R)
             m2 == occupees'[x]
  <2> HIDE DEF a
  <2>8. /\ n \in Nat /\ sceaux'[x] \in Nat /\ m2 \in Nat
        /\ k \in O => n > 0
        /\ W # {} /\ k \notin O => n2 = n + 1
        /\ W = {} \/ k \in O => n2 = n
        /\ W # {} => m2 = m + 1
        /\ W = {} => m2 = m
    BY <2>1, <2>6, <2>7
  <2> HIDE DEF n, m, p, q, r, s, s2, n2, m2
  <2>9. /\ m <= p * n =>
             /\ m + 1 + s + q <= q * (n + 1) + (tick + 1)
             /\ m + 1 <= q * (n + 1)
             /\ m <= q * n
        /\ n > 0 /\ m + s + p <= p * n + tick =>
             /\ m + 1 + s + q <= q * n + (tick + 1)
             /\ m + s + q <= q * n + (tick + 1)
             /\ m + 1 <= q * n /\ m <= q * n
    BY <2>4, <2>6, <2>8, GroupePas
  <2>10. /\ n2 <= m2
         /\ m2 <= q * n2
         /\ k \in O \/ W # {} => m2 + s + q <= q * n2 + (tick + 1)
    <3>1. CASE W # {} /\ k \notin O
      BY <2>3, <2>6, <2>8, <2>9, <3>1
    <3>2. CASE W # {} /\ k \in O
      BY <2>3, <2>6, <2>8, <2>9, <3>2
    <3>3. CASE W = {} /\ k \in O
      BY <2>3, <2>8, <2>9, <3>3
    <3>4. CASE W = {} /\ k \notin O
      BY <2>3, <2>8, <2>9, <3>4
    <3>5. QED
      BY <3>1, <3>2, <3>3, <3>4
  <2>11. Groupe(n2, m2, q, Ouvre(x)' \in ouverts', s2, tick + 1)
    <3>1. CASE Ouvre(x)' \in ouverts'
      <4>1. s2 = s /\ (k \in O \/ W # {})
        BY <2>5, <3>1
      <4>2. m2 + s2 + q <= q * n2 + (tick + 1)
        BY <2>10, <4>1
      <4>3. QED
        BY <2>10, <3>1, <4>2 DEF Groupe
    <3>2. CASE ~(Ouvre(x)' \in ouverts')
      BY <2>10, <3>2 DEF Groupe
    <3>3. QED
      BY <3>1, <3>2
  <2>12. QED
    BY <2>4, <2>7, <2>8, <2>11 DEF n2, m2, q, r, s2, R
<1>13. /\ sceaux' \in [Cellules -> Nat] /\ occupees' \in [Cellules -> Nat]
       /\ palierMax' \in [Cellules -> Paliers]
  <2> HIDE DEF ouv
  <2>1. /\ \A x \in Cellules : sceaux'[x] \in Nat /\ occupees'[x] \in Nat /\ palierMax'[x] \in Paliers
        /\ sceaux' = [x \in Cellules |-> sceaux'[x]]
        /\ occupees' = [x \in Cellules |-> occupees'[x]]
        /\ palierMax' = [x \in Cellules |-> palierMax'[x]]
    BY <1>2, <1>12
  <2>2. QED
    BY <2>1
<1>14. \A k \in ouverts' : k.sceau <= Prochain(k.lieu.cellule)'
  BY <1>1, <1>4, <1>7, LieuType DEF Sceaux
<1>15. Groupes' <=>
         /\ sceaux' \in [Cellules -> Nat]
         /\ occupees' \in [Cellules -> Nat]
         /\ palierMax' \in [Cellules -> Paliers]
         /\ \A x \in Cellules : palier'[x] <= palierMax'[x]
         /\ \A x \in Cellules : IsFiniteSet(DeCellule(ouverts', x))
         /\ \A k \in ouverts' : k.sceau <= Prochain(k.lieu.cellule)'
         /\ \A x \in Cellules :
              Groupe(sceaux'[x] + Cardinality(DeCellule(ouverts', x)), occupees'[x],
                     palierMax'[x], Ouvre(x)' \in ouverts', Prochain(x)', tick')
  BY DEF Groupes, DeCellule, Ouvre, Prochain, Groupe
<1>16. QED
  BY <1>1, <1>12, <1>13, <1>14, <1>15

LEMMA GroupesTenus == RouteurFidele => (RSpec => [](SimInv /\ Groupes))
<1>1. SUFFICES ASSUME RouteurFidele PROVE RSpec => [](SimInv /\ Groupes)
  OBVIOUS
<1>2. RInit => Groupes
  <2> SUFFICES ASSUME RInit PROVE Groupes
    OBVIOUS
  <2>1. \A x \in Cellules : DeCellule(ouverts, x) = {}
    BY DEF RInit, Init, DeCellule
  <2>2. Cardinality({}) = 0 /\ IsFiniteSet({})
    BY FS_EmptySet
  <2>3. \A x \in Cellules :
          Groupe(sceaux[x] + Cardinality(DeCellule(ouverts, x)), occupees[x], palierMax[x],
                 Ouvre(x) \in ouverts, Prochain(x), tick)
    BY <2>1, <2>2 DEF RInit, Init, Groupe, Nominal
  <2>4. QED
    BY <2>1, <2>2, <2>3 DEF RInit, Init, Groupes, Nominal, Paliers
<1>3. SimInv /\ Groupes /\ [RNext]_rvars => Groupes'
  <2> SUFFICES ASSUME SimInv, Groupes, [RNext]_rvars PROVE Groupes'
    OBVIOUS
  <2>1. ASSUME NEW c \in [suivies -> Cellules], Pas(c), Mesurer(c) PROVE Groupes'
    BY <1>1, <2>1, GroupesPas
  <2>2. ASSUME UNCHANGED <<tick, palier, charge, ouverts, mesures>> PROVE Groupes'
    <3>1. Reevalues' = Reevalues
      BY <2>2 DEF Reevalues
    <3>2. \A x \in Cellules : /\ Prochain(x)' = Prochain(x) /\ Ouvre(x)' = Ouvre(x)
                              /\ DeCellule(ouverts, x)' = DeCellule(ouverts, x)
      BY <2>2, <3>1 DEF Prochain, Ouvre, DeCellule
    <3>3. \A k \in ouverts : Prochain(k.lieu.cellule)' = Prochain(k.lieu.cellule)
      BY <2>2, <3>1 DEF Prochain
    <3>4. QED
      BY <2>2, <3>2, <3>3 DEF Groupes, Groupe, mesures
  <2>3. ASSUME NEW e \in Entites, Suivre(e), UNCHANGED mesures PROVE Groupes'
    BY <2>2, <2>3 DEF Suivre
  <2>4. CASE UNCHANGED rvars
    BY <2>2, <2>4 DEF rvars, vars
  <2>5. QED
    BY <2>1, <2>3, <2>4 DEF RNext
<1>4. RSpec => []SimInv
  BY <1>1, SimInvariant, RapportSimule, PTL
<1>5. QED
  BY <1>2, <1>3, <1>4, PTL DEF RSpec

(* H4 (harness.rs:90-101): the seals of a cell, with its chronotopes still  *)
(* open, are at most the ticks that wrote it and at least what its coarsest *)
(* tier makes of them.                                                      *)
THEOREM CadenceTenue == RouteurFidele => (RSpec => []CadenceMesuree)
<1>1. ASSUME SimInv, Groupes PROVE CadenceMesuree
  <2>1. SUFFICES ASSUME NEW x \in Cellules
                 PROVE  LET n == sceaux[x] + Cardinality(DeCellule(ouverts, x))
                        IN  n <= occupees[x] /\ occupees[x] <= palierMax[x] * n
    BY DEF CadenceMesuree
  <2> DEFINE n == sceaux[x] + Cardinality(DeCellule(ouverts, x))
             m == occupees[x]
             p == palierMax[x]
             s == Prochain(x)
  <2>2. /\ n \in Nat /\ m \in Nat /\ p \in Paliers /\ palier[x] <= p
        /\ Groupe(n, m, p, Ouvre(x) \in ouverts, s, tick)
    BY <1>1, FS_CardinalityType DEF Groupes
  <2>3. tick \in Nat /\ palier[x] \in Paliers /\ Reevalues[x] \in Paliers
    BY <1>1, ReevaluesType DEF SimInv, SimType
  <2>4. s \in Nat /\ tick <= s + p
    <3>1. /\ s \in Nat /\ tick < s + Reevalues[x]
          /\ tick % Quart = 0 => s = tick
      BY <2>3, SceauType DEF Prochain
    <3>2. tick % Quart # 0 => Reevalues[x] = palier[x]
      BY DEF Reevalues
    <3> HIDE DEF s, p
    <3>3. p \in Nat /\ palier[x] \in Nat
      BY <2>2, <2>3 DEF Paliers, Nominal, Demi, Quart
    <3>4. QED
      BY <2>2, <2>3, <3>1, <3>2, <3>3
  <2> HIDE DEF n, m, p, s
  <2>5. p * n \in Nat /\ p \in Nat
    BY <2>2 DEF Paliers, Nominal, Demi, Quart
  <2>6. n <= m /\ m <= p * n
    BY <2>2, <2>3, <2>4, <2>5 DEF Groupe
  <2>7. QED
    BY <2>6 DEF n, m, p
<1>2. QED
  BY <1>1, GroupesTenus, PTL

(* Everything ever written is sealed by the store that has it, at most the  *)
(* coarsest horizon after its tick (harness.rs:567-596), whatever the       *)
(* horizon within the ring, even once its cell is empty or of another tier. *)
THEOREM ToutEstScelle == RouteurFidele => (RSpec => []ScelleATemps)
<1> DEFINE Gardes == crees \subseteq ouverts \cup scelles
<1>1. SUFFICES ASSUME RouteurFidele PROVE RSpec => []ScelleATemps
  OBVIOUS
<1>2. RInit => Gardes
  BY DEF RInit
<1>3. SimInv /\ Gardes /\ [RNext]_rvars => Gardes'
  <2> SUFFICES ASSUME SimInv, Gardes, [RNext]_rvars PROVE Gardes'
    OBVIOUS
  <2>1. ASSUME NEW c \in [suivies -> Cellules], Pas(c), Mesurer(c) PROVE Gardes'
    <3> DEFINE ouv   == ouverts \cup {CleDe(e, c[e]) : e \in suivies}
               finis == Expires(ouv, Reevalues)
    <3>1. crees' = crees \cup Ecrits(c) /\ Ecrits(c) = {CleDe(e, c[e]) : e \in suivies}
      BY <1>1, <2>1, UnChronotope DEF Mesurer, Retenir
    <3>2. ouverts' = ouv \ finis /\ scelles' = scelles \cup finis
      BY <1>1, <2>1, PasAccepte
    <3> HIDE DEF finis
    <3>3. QED
      BY <3>1, <3>2
  <2>2. ASSUME NEW e \in Entites, Suivre(e), UNCHANGED mesures PROVE Gardes'
    BY <2>2 DEF Suivre, mesures
  <2>3. CASE UNCHANGED rvars
    BY <2>3 DEF rvars, vars, mesures
  <2>4. QED
    BY <2>1, <2>2, <2>3 DEF RNext
<1>4. SimInv /\ Gardes => ScelleATemps
  <2>1. ASSUME SimInv, NEW k \in ouverts PROVE tick <= k.sceau + HorizonNominal * Quart
    BY <2>1, CadenceAssumption DEF SimInv, SimType, Sceaux, Recents, Quart
  <2>2. QED
    BY <2>1 DEF ScelleATemps
<1>5. RSpec => []SimInv
  BY <1>1, SimInvariant, RapportSimule, PTL
<1>6. QED
  BY <1>2, <1>3, <1>4, <1>5, PTL DEF RSpec

-----------------------------------------------------------------------------
(* Thrashing.                                                               *)

(* What the changes granted to an entry had cost by tick t, as a set of     *)
(* numbers: the attempts it took, or the delay until the next one.          *)
Depensee(x, n, t) ==
  IF RouteurMemoire THEN n + x.essais < t + Patience
  ELSE \E d \in x.derniere : n <= d + Patience

(* Nothing of it is given back, and a change granted costs the hysteresis.  *)
LEMMA DepenseSuit ==
  ASSUME RouteurMemoire \/ RouteurDate, NEW t \in Nat,
         NEW y \in Entrees, Saine(y, t), NEW dest \in Lieux, NEW n \in Nat
  PROVE  LET z == Migrer(y, dest, t)
         IN  /\ Depensee(y, n, t) =>
                  n < t + Patience /\ Depensee(y, n, t + 1) /\ Depensee(z, n, t + 1)
             /\ z.lieu # y.lieu /\ n \in (t + 1) .. (t + Patience) =>
                  ~Depensee(y, n, t) /\ Depensee(z, n, t + 1)
<1> DEFINE z == Migrer(y, dest, t)
<1>1. /\ y.essais \in Nat /\ y.derniere \subseteq Nat
      /\ y.essais < Patience /\ \A d \in y.derniere : d < t
  BY DEF Entrees, Saine
<1>2. CASE RouteurMemoire
  <2>1. z = IF y.essais + 1 >= Hysteresis THEN Inscrite(dest)
            ELSE [y EXCEPT !.essais = @ + 1]
    BY <1>2 DEF RouteurMemoire, MigrerMemoire
  <2>2. /\ z.essais \in Nat /\ z.essais <= y.essais + 1
        /\ z.lieu # y.lieu => z.essais = 0 /\ Patience <= y.essais + 1
    BY <1>1, <2>1, HysteresisAssumption DEF Inscrite, Entrees, Patience
  <2> HIDE DEF z
  <2>3. /\ Depensee(y, n, t) <=> n + y.essais < t + Patience
        /\ Depensee(y, n, t + 1) <=> n + y.essais < t + 1 + Patience
        /\ Depensee(z, n, t + 1) <=> n + z.essais < t + 1 + Patience
    BY <1>2 DEF Depensee
  <2>4. QED
    BY <1>1, <2>2, <2>3, PatienceType DEF z
<1>3. CASE ~RouteurMemoire /\ RouteurDate
  <2>1. z = IF \E d \in y.derniere : t - d < Hysteresis THEN y
            ELSE [Inscrite(dest) EXCEPT !.derniere = {t}]
    BY <1>3 DEF RouteurDate, MigrerDatee
  <2>2. \/ z = y
        \/ z.derniere = {t} /\ \A d \in y.derniere : d + Patience <= t
    BY <1>1, <2>1, HysteresisAssumption DEF Inscrite, Patience
  <2> HIDE DEF z
  <2>3. /\ Depensee(y, n, t) <=> \E d \in y.derniere : n <= d + Patience
        /\ Depensee(y, n, t + 1) <=> \E d \in y.derniere : n <= d + Patience
        /\ Depensee(z, n, t + 1) <=> \E d \in z.derniere : n <= d + Patience
    BY <1>3 DEF Depensee
  <2>4. ASSUME Depensee(y, n, t)
        PROVE  n < t + Patience /\ Depensee(y, n, t + 1) /\ Depensee(z, n, t + 1)
    <3>1. PICK d \in y.derniere : n <= d + Patience
      BY <2>3, <2>4
    <3>2. d \in Nat /\ d < t
      BY <1>1
    <3>3. z.derniere = {t} => n <= t + Patience
      BY <3>1, <3>2, PatienceType
    <3>4. QED
      BY <2>2, <2>3, <3>1, <3>2, <3>3, PatienceType
  <2>5. ASSUME z.lieu # y.lieu, n \in (t + 1) .. (t + Patience)
        PROVE  ~Depensee(y, n, t) /\ Depensee(z, n, t + 1)
    <3>1. z.derniere = {t} /\ \A d \in y.derniere : d + Patience <= t
      BY <2>2, <2>5
    <3>2. \A d \in y.derniere : ~(n <= d + Patience)
      BY <1>1, <2>5, <3>1, PatienceType
    <3>3. QED
      BY <2>3, <2>5, <3>1, <3>2
  <2>6. QED
    BY <2>4, <2>5 DEF z
<1>4. QED
  BY <1>2, <1>3

(* The numbers of all entities are as many as the changes granted ask for.  *)
Depenses == {q \in suivies \X Nat : \E x \in annuaire[q[1]] : Depensee(x, q[2], tick)}

Amortis == accordees \in Nat /\ Patience * accordees <= Cardinality(Depenses)

LEMMA DepensesBornees ==
  ASSUME SimInv, Anciens, Attendues, RouteurMemoire \/ RouteurDate
  PROVE  /\ IsFiniteSet(Depenses) /\ Cardinality(Depenses) \in Nat
         /\ Cardinality(suivies) \in Nat
         /\ Cardinality(Depenses) <= Cardinality(suivies) * (tick + Patience)
<1> DEFINE I == 0 .. (tick + Patience - 1)
<1>1. tick \in Nat /\ suivies \subseteq Entites /\ IsFiniteSet(suivies)
  BY DEF SimInv, SimType, Anciens
<1>2. IsFiniteSet(I) /\ Cardinality(I) = tick + Patience
  BY <1>1, PatienceType, FS_Interval
<1>3. /\ IsFiniteSet(suivies \X I)
      /\ Cardinality(suivies \X I) = Cardinality(suivies) * Cardinality(I)
  BY <1>1, <1>2, FS_Product
<1>4. Depenses \subseteq suivies \X I
  <2> SUFFICES ASSUME NEW q \in Depenses PROVE q \in suivies \X I
    OBVIOUS
  <2>1. q \in suivies \X Nat /\ q[1] \in Entites /\ q[2] \in Nat
    BY <1>1 DEF Depenses
  <2>2. PICK x \in annuaire[q[1]] : Depensee(x, q[2], tick)
    BY DEF Depenses
  <2>3. x \in Entrees /\ Saine(x, tick) /\ x.lieu \in Lieux
    BY <2>1 DEF SimInv, SimType, Attendues, Entrees
  <2>4. q[2] < tick + Patience
    BY <1>1, <2>1, <2>2, <2>3, DepenseSuit
  <2>5. QED
    BY <1>1, <2>1, <2>4, PatienceType
<1>5. QED
  BY <1>1, <1>2, <1>3, <1>4, FS_Subset, FS_CardinalityType

LEMMA AmortisPas ==
  ASSUME SimInv, Anciens, Situees, Attendues, Amortis, RouteurFidele,
         RouteurMemoire \/ RouteurDate, IsFiniteSet(Depenses'),
         NEW c \in [suivies -> Cellules], Pas(c), Mesurer(c)
  PROVE  Amortis'
<1> DEFINE I == (tick + 1) .. (tick + Patience)
           N == Accordees(c) \X I
<1>1. /\ tick \in Nat /\ suivies \subseteq Entites /\ IsFiniteSet(suivies)
      /\ suivies' = suivies /\ tick' = tick + 1
      /\ annuaire \in [Entites -> SUBSET Entrees]
  BY PasAccepte DEF SimInv, SimType, Anciens
<1>2. accordees' = accordees + Cardinality(Accordees(c))
  BY DEF Mesurer, CompterMigrations
<1>3. ASSUME NEW e \in suivies, NEW y \in annuaire[e], NEW n \in Nat
      PROVE  LET z == Arbitre(e, c[e])
             IN  /\ annuaire'[e] = {z}
                 /\ Depensee(y, n, tick) => Depensee(z, n, tick + 1)
                 /\ e \in Accordees(c) /\ n \in I =>
                      ~Depensee(y, n, tick) /\ Depensee(z, n, tick + 1)
  <2> DEFINE z == Arbitre(e, c[e])
  <2>1. e \in Entites /\ c[e] \in Cellules /\ annuaire'[e] = {z}
    BY <1>1, PasEntite
  <2>2. y \in Entrees /\ Saine(y, tick) /\ Lieu(c[e]) \in Lieux
    BY <1>1, <2>1, LieuType DEF Attendues
  <2>3. /\ y.lieu.cellule = c[e] => z = y
        /\ y.lieu.cellule # c[e] => z = Migrer(y, Lieu(c[e]), tick)
    BY <2>1, UneEntite
  <2>4. e \in Accordees(c) => y.lieu.cellule # c[e] /\ z.lieu # y.lieu
    <3>1. SUFFICES ASSUME e \in Accordees(c) PROVE y.lieu.cellule # c[e] /\ z.lieu # y.lieu
      OBVIOUS
    <3>2. PICK x \in annuaire[e] : x.lieu.cellule # c[e]
      BY <3>1 DEF Accordees, Demandeuses
    <3>3. x = y /\ z.lieu = Lieu(c[e])
      BY <2>1, <3>1 DEF Accordees, Situees
    <3>4. Lieu(c[e]).cellule = c[e]
      BY DEF Lieu
    <3> HIDE DEF z
    <3>5. QED
      BY <3>2, <3>3, <3>4
  <2> HIDE DEF z
  <2>5. CASE z = y
    BY <1>1, <2>1, <2>2, <2>4, <2>5, DepenseSuit DEF z
  <2>6. CASE z = Migrer(y, Lieu(c[e]), tick)
    BY <1>1, <2>1, <2>2, <2>4, <2>6, DepenseSuit DEF z
  <2>7. QED
    BY <2>3, <2>5, <2>6
<1>4. ASSUME NEW e \in Accordees(c)
      PROVE  e \in suivies /\ annuaire[e] # {}
  BY DEF Accordees, Demandeuses
<1>5. Depenses \subseteq Depenses'
  <2> SUFFICES ASSUME NEW q \in Depenses PROVE q \in Depenses'
    OBVIOUS
  <2>1. q \in suivies \X Nat /\ q[1] \in suivies /\ q[2] \in Nat
    BY DEF Depenses
  <2>2. PICK y \in annuaire[q[1]] : Depensee(y, q[2], tick)
    BY DEF Depenses
  <2>3. \E z \in annuaire'[q[1]] : Depensee(z, q[2], tick + 1)
    BY <1>3, <2>1, <2>2
  <2>4. QED
    BY <1>1, <2>1, <2>3 DEF Depenses, Depensee
<1>6. N \subseteq Depenses' \ Depenses
  <2> SUFFICES ASSUME NEW e \in Accordees(c), NEW n \in I
               PROVE  <<e, n>> \in Depenses' /\ <<e, n>> \notin Depenses
    OBVIOUS
  <2>1. e \in suivies /\ annuaire[e] # {} /\ n \in Nat
    BY <1>1, <1>4, PatienceType
  <2>2. ASSUME NEW y \in annuaire[e] PROVE ~Depensee(y, n, tick)
    BY <1>3, <2>1
  <2>3. \E z \in annuaire'[e] : Depensee(z, n, tick + 1)
    BY <1>3, <2>1
  <2>4. <<e, n>> \in suivies \X Nat
    BY <2>1
  <2>5. QED
    BY <1>1, <2>2, <2>3, <2>4 DEF Depenses, Depensee
<1>7. /\ IsFiniteSet(N) /\ Cardinality(N) = Cardinality(Accordees(c)) * Patience
      /\ Cardinality(Accordees(c)) \in Nat
  <2>1. Accordees(c) \subseteq suivies
    BY <1>4
  <2>2. IsFiniteSet(Accordees(c)) /\ Cardinality(Accordees(c)) \in Nat
    BY <1>1, <2>1, FS_Subset, FS_CardinalityType
  <2>3. IsFiniteSet(I) /\ Cardinality(I) = Patience
    BY <1>1, PatienceType, FS_Interval
  <2>4. QED
    BY <2>2, <2>3, FS_Product
<1> HIDE DEF N
<1>8. /\ IsFiniteSet(Depenses) /\ Cardinality(Depenses) \in Nat
      /\ Cardinality(Depenses') \in Nat
      /\ Cardinality(Depenses) + Cardinality(N) <= Cardinality(Depenses')
  <2>1. IsFiniteSet(Depenses)
    BY <1>5, FS_Subset
  <2>2. /\ IsFiniteSet(Depenses \cup N)
        /\ Cardinality(Depenses \cup N)
             = Cardinality(Depenses) + Cardinality(N) - Cardinality(Depenses \cap N)
    BY <1>7, <2>1, FS_Union
  <2>3. Depenses \cap N = {} /\ Depenses \cup N \subseteq Depenses'
    BY <1>5, <1>6
  <2>4. Cardinality(Depenses \cap N) = 0
    BY <2>3, FS_EmptySet
  <2>5. Cardinality(Depenses \cup N) <= Cardinality(Depenses')
    BY <2>3, FS_Subset
  <2>6. Cardinality(Depenses) \in Nat /\ Cardinality(Depenses') \in Nat
    BY <2>1, FS_CardinalityType
  <2>7. Cardinality(N) \in Nat
    BY <1>7, FS_CardinalityType
  <2>8. QED
    BY <2>1, <2>2, <2>4, <2>5, <2>6, <2>7
<1>9. accordees' \in Nat /\ Patience * accordees' <= Cardinality(Depenses')
  <2>1. accordees \in Nat /\ Patience * accordees <= Cardinality(Depenses)
    BY DEF Amortis
  <2>2. Patience * accordees' = Patience * accordees + Cardinality(Accordees(c)) * Patience
    BY <1>2, <1>7, <2>1, PatienceType
  <2>3. QED
    BY <1>2, <1>7, <1>8, <2>1, <2>2, PatienceType
<1>10. QED
  BY <1>9 DEF Amortis, Patience

LEMMA AmortisTenus ==
  ASSUME RouteurMemoire \/ RouteurDate
  PROVE  RSpec => [](SimInv /\ Anciens /\ Attendues /\ Amortis)
<1> DEFINE Inv == SimInv /\ Anciens /\ Situees /\ Absentes /\ Attendues
<1>1. RouteurFidele
  BY RouteursFideles DEF RouteurFidele, RouteurMemoire, RouteurDate
<1>2. RInit => Amortis
  <2> SUFFICES ASSUME RInit PROVE Amortis
    OBVIOUS
  <2>1. Depenses = {} /\ accordees = 0
    BY DEF RInit, Init, Depenses
  <2>2. QED
    BY <2>1, FS_EmptySet, PatienceType DEF Amortis
<1>3. Inv /\ IsFiniteSet(Depenses)' /\ Amortis /\ [RNext]_rvars => Amortis'
  <2> SUFFICES ASSUME Inv, IsFiniteSet(Depenses'), Amortis, [RNext]_rvars PROVE Amortis'
    OBVIOUS
  <2>1. ASSUME NEW c \in [suivies -> Cellules], Pas(c), Mesurer(c) PROVE Amortis'
    BY <1>1, <2>1, AmortisPas
  <2>2. ASSUME NEW e \in Entites, Suivre(e), UNCHANGED mesures PROVE Amortis'
    <3>1. /\ suivies' = suivies \cup {e} /\ e \notin suivies
          /\ UNCHANGED <<annuaire, tick, accordees>>
      BY <2>2 DEF Suivre, mesures
    <3>2. annuaire[e] = {}
      BY <3>1 DEF Absentes
    <3>3. Depenses' = Depenses
      BY <3>1, <3>2 DEF Depenses, Depensee
    <3>4. QED
      BY <3>1, <3>3 DEF Amortis, Patience
  <2>3. CASE UNCHANGED rvars
    <3>1. UNCHANGED <<suivies, annuaire, tick, accordees>>
      BY <2>3 DEF rvars, vars, mesures
    <3>2. Depenses' = Depenses
      BY <3>1 DEF Depenses, Depensee
    <3>3. QED
      BY <3>1, <3>2 DEF Amortis, Patience
  <2>4. QED
    BY <2>1, <2>2, <2>3 DEF RNext
<1>4. RSpec => []Inv
  <2>1. Spec => []Inv
    BY <1>1, SitueesTenues, AttenduesTenues, PTL
  <2>2. QED
    BY <2>1, RapportSimule, PTL
<1>5. Inv => IsFiniteSet(Depenses)
  BY DepensesBornees
<1>6. QED
  BY <1>2, <1>3, <1>4, <1>5, PTL DEF RSpec

(* Thrashing (routage.rs:240-257, tests/annuaire_reel.rs:38-41): under      *)
(* either router, whatever cells entities cross and come back to, each is   *)
(* moved at most once, and once more per hysteresis gone by.                *)
THEOREM ThrashingTenu == RouteurMemoire \/ RouteurDate => (RSpec => []ThrashingAmorti)
<1>1. SUFFICES ASSUME RouteurMemoire \/ RouteurDate PROVE RSpec => []ThrashingAmorti
  OBVIOUS
<1>2. ASSUME SimInv, Anciens, Attendues, Amortis PROVE ThrashingAmorti
  <2>1. /\ Cardinality(Depenses) \in Nat /\ Cardinality(suivies) \in Nat
        /\ Cardinality(Depenses) <= Cardinality(suivies) * (tick + Patience)
    BY <1>1, <1>2, DepensesBornees
  <2>2. tick \in Nat /\ accordees \in Nat /\ Patience * accordees <= Cardinality(Depenses)
    BY <1>2 DEF SimInv, SimType, Amortis
  <2>3. CASE Hysteresis = 0
    <3>1. Hysteresis * accordees = 0 /\ 0 <= Cardinality(suivies) * (tick + Hysteresis)
      BY <2>1, <2>2, <2>3
    <3>2. QED
      BY <2>1, <2>2, <2>3, <3>1 DEF ThrashingAmorti
  <2>4. CASE Hysteresis # 0
    <3>1. Patience = Hysteresis
      BY <2>4 DEF Patience
    <3>2. Hysteresis * accordees \in Nat /\ Cardinality(suivies) * (tick + Hysteresis) \in Nat
      BY <2>1, <2>2, HysteresisAssumption
    <3>3. QED
      BY <2>1, <2>2, <3>1, <3>2 DEF ThrashingAmorti
  <2>5. QED
    BY <2>3, <2>4
<1>3. QED
  BY <1>1, <1>2, AmortisTenus, PTL
=============================================================================
