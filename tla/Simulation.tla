----------------------------- MODULE Simulation -----------------------------
(***************************************************************************)
(* MultiNodeSim (chronotope-sim, harness.rs): each tick every entity moves *)
(* along its trajectory, the router says which cell has authority over it, *)
(* its pose is written in that cell's open chronotope, and the chronotopes *)
(* past their cell's horizon are sealed.  A trajectory is any sequence of  *)
(* cells.  step has exclusive access to the whole simulation: one step of  *)
(* the code is one action.  Entities meet only through a cell's load, which *)
(* counts for later ticks, so that the loop over them is one function.     *)
(***************************************************************************)
EXTENDS Cadence, Routage, FiniteSets

CONSTANTS
  Entites,        \* EntityId
  Cellules,       \* CellId, naturals: placed on nodes modulo their number
  NbNoeuds,       \* nb_noeuds
  Migrer(_, _, _),    \* the Routeur: what asking for another place makes
                      \* of an entity's entry
  Anneau,         \* ANNEAU: slots of a cell's ring in the nodes' stores
  DernierTick     \* bound: the simulation is stopped after it

ASSUME SimulationAssumption ==
  /\ Cellules \subseteq Nat
  /\ NbNoeuds \in Nat \ {0}
  /\ Anneau \in Nat \ {0}
  /\ DernierTick \in Nat

VARIABLES
  tick,           \* the tick of the next step
  suivies,        \* the entities tracked
  annuaire,       \* the router's entry of each entity: {} or a singleton
  ecriture,       \* last accepted write of each: {} or its place and tick
  attente,        \* pending change of cell: {} or the cell and since when
  palier,         \* palier_effectif
  charge,         \* charge_precedente: entities written per cell last tick
  ouverts,        \* buckets_ouverts: chronotopes with a write and no seal
  scelles,        \* keys sealed in the nodes' stores
  inscriptions,   \* which entity was written at which place and tick of seal
  pertes,         \* ticks of entities whose write was refused
  duplications    \* writes found to put an entity in a second chronotope

vars == <<tick, suivies, annuaire, ecriture, attente, palier, charge, ouverts,
          scelles, inscriptions, pertes, duplications>>

(* noeud_de_cellule, and the Emplacement of a cell *)
Noeud(c) == c % NbNoeuds
Lieu(c)  == [noeud |-> Noeud(c), cellule |-> c]
Lieux    == {Lieu(c) : c \in Cellules}

Init ==
  /\ tick = 0
  /\ suivies = {}
  /\ annuaire = [e \in Entites |-> {}]
  /\ ecriture = [e \in Entites |-> {}]
  /\ attente  = [e \in Entites |-> {}]
  /\ palier   = [c \in Cellules |-> Nominal]
  /\ charge   = [c \in Cellules |-> 0]
  /\ ouverts  = {}
  /\ scelles  = {}
  /\ inscriptions = {}
  /\ pertes = 0
  /\ duplications = 0

(* track, called once per entity.  One follower per entity is what grouping *)
(* the ticks of a cell presumes (cadence.rs:86-90), and what every caller   *)
(* does; track does not check it, and two followers of one entity could be  *)
(* written in two cells of the same tick.                                   *)
Suivre(e) ==
  /\ tick < DernierTick
  /\ e \notin suivies
  /\ suivies' = suivies \cup {e}
  /\ UNCHANGED <<tick, annuaire, ecriture, attente, palier, charge, ouverts,
                 scelles, inscriptions, pertes, duplications>>

(* Mutant: tiers follow the load at every tick.                             *)
MutReevalues ==
  [c \in Cellules |-> IF charge[c] = 0 THEN Nominal ELSE Palier(charge[c])]

(* reevaluer_paliers: tiers change only where every tier starts a new       *)
(* chronotope; a cell written by nobody last tick is nominal again.         *)
Reevalues ==
  IF tick % Quart # 0 THEN palier
  ELSE [c \in Cellules |-> IF charge[c] = 0 THEN Nominal ELSE Palier(charge[c])]

(* arbitrer: the router's entry of e, which is in cell c.                   *)
Arbitre(e, c) ==
  IF annuaire[e] = {} THEN Inscrite(Lieu(c))
  ELSE LET actuelle == CHOOSE x \in annuaire[e] : TRUE
       IN  IF actuelle.lieu.cellule = c THEN actuelle
           ELSE Migrer(actuelle, Lieu(c), tick)

Sceau(lieu, p) == TickDeSceau(p[lieu.cellule], tick)

(* Mutant: the place with authority is adopted at once.                     *)
MutCible(e, autorite, p) == autorite

(* differer_jusqu_a_la_frontiere: a new place is adopted only when its tick *)
(* of seal has passed the last one written.                                 *)
Cible(e, autorite, p) ==
  LET retenue == {w \in ecriture[e] : w.lieu # autorite /\ Sceau(autorite, p) <= w.sceau}
  IN  IF retenue = {} THEN autorite ELSE (CHOOSE w \in retenue : TRUE).lieu

(* Mutant: a wait that is over is read but not taken away.                  *)
MutEnAttente(e, ecrite, c) ==
  IF ecrite = c \/ \E a \in attente[e] : a.visee = c THEN attente[e]
  ELSE {[visee |-> c, sortie |-> tick]}

(* compter_bascule: written in cell `ecrite` while in cell c.               *)
EnAttente(e, ecrite, c) ==
  IF ecrite = c THEN {}
  ELSE IF \E a \in attente[e] : a.visee = c THEN attente[e]
  ELSE {[visee |-> c, sortie |-> tick]}

(* Mutant: one tick later than the horizon.                                 *)
MutExpires(ouv, p) ==
  {k \in ouv : k.sceau + HorizonTicks(p[k.lieu.cellule]) < tick}

(* sceller_les_chronotopes_expires *)
Expires(ouv, p) ==
  {k \in ouv : k.sceau + HorizonTicks(p[k.lieu.cellule]) <= tick}

(* oublier_les_inscriptions_closes *)
Retenu(sceau) == sceau + 2 * Quart >= tick

(* Two keys of a cell share a slot of its ring when they are Anneau apart;  *)
(* a chronotope is lost once a later one has the slot.                      *)
MemeSlot(k, l) == k.lieu = l.lieu /\ k.sceau % Anneau = l.sceau % Anneau
Depassee(k, cles) == \E l \in cles : k.sceau < l.sceau /\ MemeSlot(k, l)

(* The store of the key's node takes a write until it has sealed the key or *)
(* reused its slot.                                                         *)
Acceptee(cle) == cle \notin scelles /\ ~Depassee(cle, ouverts \cup scelles)

(* enregistrer_inscription: e has been written elsewhere at the same tick.   *)
Doublee(e, cle) ==
  \E i \in inscriptions : i.entite = e /\ i.sceau = cle.sceau /\ i.lieu # cle.lieu

(* step, each entity e being in cell c[e].                                  *)
Pas(c) ==
  LET p       == Reevalues
      entree  == [e \in suivies |-> Arbitre(e, c[e])]
      cible   == [e \in suivies |-> Cible(e, entree[e].lieu, p)]
      cle     == [e \in suivies |-> [lieu |-> cible[e], sceau |-> Sceau(cible[e], p)]]
      admises == {e \in suivies : Acceptee(cle[e])}
      ouv     == ouverts \cup {cle[e] : e \in admises}
      aSceller == Expires(ouv, p)
      tenues  == {k \in aSceller : ~Depassee(k, ouv \cup scelles)}
  IN  /\ tick < DernierTick
      /\ tick' = tick + 1
      /\ palier'   = p
      /\ annuaire' = [e \in Entites |-> IF e \in suivies THEN {entree[e]} ELSE {}]
      /\ attente'  = [e \in Entites |->
                        IF e \in suivies THEN EnAttente(e, cible[e].cellule, c[e]) ELSE {}]
      /\ ecriture' = [e \in Entites |-> IF e \in admises THEN {cle[e]} ELSE ecriture[e]]
      /\ pertes'   = pertes + Cardinality(suivies \ admises)
      /\ duplications' = duplications + Cardinality({e \in admises : Doublee(e, cle[e])})
      /\ inscriptions' =
           {i \in inscriptions \cup
                  {[entite |-> e, lieu |-> cible[e], sceau |-> cle[e].sceau] : e \in admises}
              : Retenu(i.sceau)}
      /\ charge'  = [x \in Cellules |-> Cardinality({e \in suivies : cible[e].cellule = x})]
      /\ ouverts' = ouv \ aSceller
      /\ scelles' = scelles \cup
                      {[lieu |-> Lieu(k.lieu.cellule), sceau |-> k.sceau] : k \in tenues}
      /\ UNCHANGED suivies

Next ==
  \/ \E e \in Entites : Suivre(e)
  \/ \E c \in [suivies -> Cellules] : Pas(c)

Spec == Init /\ [][Next]_vars
-----------------------------------------------------------------------------

Cles == [lieu : Lieux, sceau : {s \in 0..DernierTick : s < tick}]

TypeOK ==
  /\ tick \in 0..DernierTick
  /\ suivies \subseteq Entites
  /\ \A e \in Entites : /\ \A x \in annuaire[e] : x.lieu \in Lieux
                        /\ \A w \in ecriture[e] : w \in Cles
                        /\ \A a \in attente[e] : a.visee \in Cellules /\ a.sortie \in Nat
  /\ palier \in [Cellules -> Paliers]
  /\ charge \in [Cellules -> 0..Cardinality(suivies)]
  /\ \A k \in ouverts \cup scelles : k \in Cles
  /\ \A i \in inscriptions :
       i.entite \in suivies /\ [lieu |-> i.lieu, sceau |-> i.sceau] \in Cles
  /\ pertes \in Nat /\ duplications \in Nat

(* "la degradation ne refuse JAMAIS une ecriture" (harness.rs:28-32): no    *)
(* pose is ever lost to a chronotope already sealed, whatever tiers cells   *)
(* go through while they hold open chronotopes.                             *)
SansRejet == pertes = 0

(* H3 (harness.rs:18-26): an entity is never in two chronotopes of one tick *)
(* of seal, be it by changing cells in the middle of a degraded one; and    *)
(* the harness's own count agrees.                                          *)
SansDuplication ==
  /\ \A i, j \in inscriptions :
       i.entite = j.entite /\ i.sceau = j.sceau => i.lieu = j.lieu
  /\ duplications = 0

(* "borne donc la latence de bascule" (routage.rs:71-74): an entity that    *)
(* stays in its new cell is written there after the ticks of hysteresis and *)
(* at most the wait for the next boundary of the coarsest tier, wherever it *)
(* comes from and whatever was refused before.                              *)
BasculeBornee ==
  \A e \in suivies : \A a \in attente[e] :
    tick - a.sortie < (IF Hysteresis = 0 THEN 1 ELSE Hysteresis) + Quart - 1
=============================================================================
