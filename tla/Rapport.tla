------------------------------ MODULE Rapport -------------------------------
(***************************************************************************)
(* What MultiNodeSim measures while it runs, and puts in its SimReport     *)
(* (chronotope-sim, harness.rs): the measures on which H3 and H4 are       *)
(* judged.  They restrict no step of the simulation.                       *)
(***************************************************************************)
EXTENDS Simulation

(* The configuration allows any horizon.  0 seals a chronotope while its    *)
(* ticks are still coming; one that outlasts the ring at the coarsest tier  *)
(* has the store reuse slots that are not sealed.  What follows is about    *)
(* the others; the default is 2, for a ring of 64 (engine.rs:43).           *)
ASSUME HorizonAssumption == HorizonNominal # 0 /\ HorizonNominal * Quart < Anneau

VARIABLES
  sceaux,         \* seals made, per cell
  palierMax,      \* palier_max: the coarsest tier each cell went through
  tentees,        \* migrations_tentees
  accordees,      \* migrations_accordees
  latences,       \* how many delays latences_ticks holds
  evitees,        \* bascules_evitees
  occupees,       \* history: the ticks at which each cell was written
  crees           \* history: the chronotopes which ever took a write

mesures == <<sceaux, palierMax, tentees, accordees, latences, evitees, occupees,
             crees>>
rvars == <<vars, mesures>>

RInit ==
  /\ Init
  /\ sceaux    = [x \in Cellules |-> 0]
  /\ palierMax = [x \in Cellules |-> Nominal]
  /\ tentees = 0 /\ accordees = 0 /\ latences = 0 /\ evitees = 0
  /\ occupees  = [x \in Cellules |-> 0] /\ crees = {}

MutPlusGrossier(p, q) == q     \* mutant: the last tier, not the coarsest

PlusGrossier(p, q) == IF p < q THEN q ELSE p

(* The entities of a tick whose router is asked for another place; those    *)
(* which it grants; the cell where e is written.                            *)
Demandeuses(c) == {e \in suivies : \E x \in annuaire[e] : x.lieu.cellule # c[e]}
Accordees(c)   == {e \in Demandeuses(c) : Arbitre(e, c[e]).lieu = Lieu(c[e])}
Ecrite(e, c)   == Cible(e, Arbitre(e, c[e]).lieu, Reevalues)

(* The entities whose wait for a change of cell ends at this tick, in the   *)
(* cell they waited for or in another.                                      *)
Arrivees(c) == {e \in suivies : Ecrite(e, c).cellule = c[e] /\ attente[e] # {}}
Basculees(c) == {e \in Arrivees(c) : \E a \in attente[e] : a.visee = c[e]}

(* The chronotopes written at this tick. *)
Ecrits(c) ==
  {k \in {[lieu |-> Ecrite(e, c), sceau |-> Sceau(Ecrite(e, c), Reevalues)] : e \in suivies}
     : Acceptee(k)}

DeCellule(cles, x) == {k \in cles : k.lieu.cellule = x}

(* sceller_les_chronotopes_expires counts a seal per key it takes out of    *)
(* buckets_ouverts, whatever the store answers.                             *)
CompterSceaux(c) ==
  sceaux' = [x \in Cellules |->
    sceaux[x] + Cardinality(DeCellule(Expires(ouverts \cup Ecrits(c), Reevalues), x))]

(* reevaluer_paliers *)
CompterPaliers ==
  palierMax' = [x \in Cellules |-> PlusGrossier(palierMax[x], Reevalues[x])]

(* arbitrer *)
CompterMigrations(c) ==
  /\ tentees'   = tentees + Cardinality(Demandeuses(c))
  /\ accordees' = accordees + Cardinality(Accordees(c))

(* compter_bascule *)
CompterBascules(c) ==
  /\ latences'  = latences + Cardinality(Basculees(c))
  /\ evitees'   = evitees + Cardinality(Arrivees(c) \ Basculees(c))

Retenir(c) ==
  /\ occupees'  = [x \in Cellules |->
       occupees[x] + IF DeCellule(Ecrits(c), x) = {} THEN 0 ELSE 1]
  /\ crees'   = crees \cup Ecrits(c)

(* The measures of a step.                                                  *)
Mesurer(c) ==
  /\ CompterSceaux(c)
  /\ CompterPaliers
  /\ CompterMigrations(c)
  /\ CompterBascules(c)
  /\ Retenir(c)

RNext ==
  \/ \E e \in Entites : Suivre(e) /\ UNCHANGED mesures
  \/ \E c \in [suivies -> Cellules] : Pas(c) /\ Mesurer(c)

RSpec == RInit /\ [][RNext]_rvars
-----------------------------------------------------------------------------

(* What was ever written is sealed, by the store that has it, at most the   *)
(* coarsest horizon after its tick: no change of tier, no departure of      *)
(* every entity and no turn of the store's ring leaves a chronotope open    *)
(* behind, or loses it before its seal.                                     *)
ScelleATemps ==
  /\ crees \subseteq ouverts \cup scelles
  /\ \A k \in ouverts : tick <= k.sceau + HorizonNominal * Quart

(* H4 measures a cell's cadence by its seals (harness.rs:90-101): they are  *)
(* one per tick that wrote the cell if its palier_max is nominal, and never *)
(* fewer than its coarsest tier makes of those ticks, but for the           *)
(* chronotopes still open: none is sealed twice, none is forgotten, however *)
(* tiers and entities come and go.                                          *)
CadenceMesuree ==
  \A x \in Cellules :
    LET chronotopes == sceaux[x] + Cardinality(DeCellule(ouverts, x))
    IN  /\ chronotopes <= occupees[x]
        /\ occupees[x] <= palierMax[x] * chronotopes

(* The changes of cell that H3 is judged on (harness.rs:92-93, 112-117):    *)
(* each one measured was granted by the router, and each one started,       *)
(* whether it was measured, avoided or is still awaited, was asked of it,   *)
(* though a change granted may wait for the boundary of a chronotope.       *)
BasculesMesurees ==
  /\ latences <= accordees
  /\ latences + evitees + Cardinality({e \in suivies : attente[e] # {}}) <= tentees

(* Thrashing (routage.rs:240-257, tests/annuaire_reel.rs:38-41): however    *)
(* often entities cross a border, and whatever cells they cross to, the     *)
(* router moves each at most once, and once more per hysteresis gone by.    *)
ThrashingAmorti ==
  Hysteresis * accordees <= Cardinality(suivies) * (tick + Hysteresis)
=============================================================================
