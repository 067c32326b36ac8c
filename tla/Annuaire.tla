------------------------------ MODULE Annuaire ------------------------------
(***************************************************************************)
(* Directory (chronotope-directory, directory.rs): where each entity is,   *)
(* with a minimum delay in ticks between two migrations of one entity.     *)
(* Every method runs under the table's lock, so one call is one step.      *)
(* Callers name any tick: nothing makes them monotone.                     *)
(***************************************************************************)
EXTENDS Naturals, Sequences

CONSTANTS
  Entites,   \* entities of the world
  Lieux,     \* Location: a node and a cell, opaque to the directory
  Ticks,     \* ticks that callers name
  Delai      \* Hysteresis::ticks_min_entre_migrations

ASSUME DelaiAssumption == Delai \in Nat
ASSUME TicksAssumption == Ticks \subseteq Nat

Inconnue == [lieu |-> "inconnu", derniere |-> {}]     \* not in the table

(* derniere_migration is None or the tick of the last migration.            *)
Connues == [lieu : Lieux, derniere : {{}} \cup {{t} : t \in Ticks}]

VARIABLES
  entrees,      \* the table
  migrations,   \* history: ticks of the migrations accepted since the entity
                \* was last registered
  refus         \* history: the ticks at which the callers refused since the
                \* last change were told to come back, unless their own tick
                \* was older than the previous migration

vars == <<entrees, migrations, refus>>

Connue(e) == entrees[e] # Inconnue

Init ==
  /\ entrees    = [e \in Entites |-> Inconnue]
  /\ migrations = [e \in Entites |-> <<>>]
  /\ refus      = [e \in Entites |-> {}]

(* Mutant: the clock starts at 0, not at the previous migration.            *)
MutEcoule(precedente, at) == at

(* saturating_sub: callers' ticks may go back. *)
Ecoule(precedente, at) == IF at >= precedente THEN at - precedente ELSE 0

MutRetenue(e, at) ==     \* mutant: one tick too many
  \E t \in entrees[e].derniere : Ecoule(t, at) <= Delai

Retenue(e, at) == \E t \in entrees[e].derniere : Ecoule(t, at) < Delai

(* An authoritative placement: no delay, and the previous one is forgotten. *)
Inscrire(e, dest) ==
  /\ entrees'    = [entrees EXCEPT ![e] = [lieu |-> dest, derniere |-> {}]]
  /\ migrations' = [migrations EXCEPT ![e] = <<>>]
  /\ refus'      = [refus EXCEPT ![e] = {}]

(* migrer, by its four outcomes *)
MigrerInconnue(e, dest) ==
  /\ ~Connue(e)
  /\ Inscrire(e, dest)

MigrerSurPlace(e, dest) ==
  /\ Connue(e)
  /\ entrees[e].lieu = dest
  /\ UNCHANGED vars

Refuser(e, dest, at) ==
  /\ Connue(e)
  /\ entrees[e].lieu # dest
  /\ Retenue(e, at)
  /\ refus' = [refus EXCEPT ![e] = @ \cup
                 {at + (Delai - Ecoule(t, at)) :
                    t \in {d \in entrees[e].derniere : d <= at}}]
  /\ UNCHANGED <<entrees, migrations>>

Accepter(e, dest, at) ==
  /\ Connue(e)
  /\ entrees[e].lieu # dest
  /\ ~Retenue(e, at)
  /\ entrees'    = [entrees EXCEPT ![e] = [lieu |-> dest, derniere |-> {at}]]
  /\ migrations' = [migrations EXCEPT ![e] = Append(@, at)]
  /\ refus'      = [refus EXCEPT ![e] = {}]

Migrer(e, dest, at) ==
  \/ MigrerInconnue(e, dest)
  \/ MigrerSurPlace(e, dest)
  \/ Refuser(e, dest, at)
  \/ Accepter(e, dest, at)

Next ==
  \E e \in Entites, dest \in Lieux :
    \/ Inscrire(e, dest)
    \/ \E at \in Ticks : Migrer(e, dest, at)

Spec == Init /\ [][Next]_vars
-----------------------------------------------------------------------------

TypeOK ==
  /\ entrees    \in [Entites -> Connues \cup {Inconnue}]
  /\ migrations \in [Entites -> Seq(Ticks)]
  /\ refus      \in [Entites -> SUBSET Nat]

(* Hysteresis (directory.rs:186-190, tests/h3_thrashing.rs): between any    *)
(* two migrations of an entity, however many others come between and        *)
(* whatever ticks callers name, at least Delai ticks per migration have     *)
(* gone by; so an entity migrates at most 1 + t / Delai times in t ticks.   *)
Espacement ==
  \A e \in Entites : \A i, j \in DOMAIN migrations[e] :
    Delai > 0 /\ i < j =>
      migrations[e][j] >= migrations[e][i] + Delai * (j - i)

(* "la migration passe des que ticks_restants est ecoule" (directory.rs:    *)
(* 75-78): a caller told to wait is not told to wait again once the ticks   *)
(* it was told have gone by, however many refusals and foreign calls came   *)
(* in between.                                                              *)
RefusTenu ==
  \A e \in Entites : \A promis \in refus[e], at \in Ticks :
    at >= promis => ~Retenue(e, at)
=============================================================================
