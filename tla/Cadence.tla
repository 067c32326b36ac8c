------------------------------ MODULE Cadence -------------------------------
(***************************************************************************)
(* PolitiqueCadence (chronotope-sim, cadence.rs): how a loaded cell seals  *)
(* less often.  A tier is its divisor: the number of simulation ticks that *)
(* share one chronotope.                                                   *)
(***************************************************************************)
EXTENDS Naturals

CONSTANTS
  HorizonNominal,   \* horizon_nominal_ticks
  SeuilDemi,        \* seuil_demi: entities in the cell from which it halves
  SeuilQuart        \* seuil_quart: from which it quarters

ASSUME CadenceAssumption ==
  /\ HorizonNominal \in Nat
  /\ SeuilDemi \in Nat
  /\ SeuilQuart \in Nat

Nominal == 1
Demi    == 2
Quart   == 4
Paliers == {Nominal, Demi, Quart}

(* palier: the tier of a cell, from its own load alone.                     *)
Palier(charge) ==
  IF charge < SeuilDemi THEN Nominal
  ELSE IF charge < SeuilQuart THEN Demi ELSE Quart

HorizonTicks(palier) == HorizonNominal * palier

MutTickDeSceau(palier, tick) ==     \* mutant: the end of the group
  tick - (tick % palier) + (palier - 1)

TickDeSceau(palier, tick) == tick - (tick % palier)
=============================================================================
