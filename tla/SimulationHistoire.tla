------------------------- MODULE SimulationHistoire -------------------------
(***************************************************************************)
(* The simulation, with how long each entity has been out of its cell when *)
(* it is moved to another.  The history variable restricts no step.        *)
(***************************************************************************)
EXTENDS Simulation

VARIABLE
  dehors      \* ticks in a row that each entity has spent out of the cell
              \* that has authority over it

hvars == <<vars, dehors>>

HInit == Init /\ dehors = [e \in Entites |-> 0]

(* Whether e, in cell c, is out of the cell of its entry.                   *)
Sorti(e, c) == \E x \in annuaire[e] : x.lieu.cellule # c

Migree(e) == annuaire[e] # {} /\ {x.lieu : x \in annuaire[e]} # {x.lieu : x \in annuaire'[e]}

HNext ==
  \/ \E e \in Entites : Suivre(e) /\ UNCHANGED dehors
  \/ \E c \in [suivies -> Cellules] :
       /\ Pas(c)
       /\ dehors' = [e \in Entites |->
                      IF e \in suivies /\ Sorti(e, c[e]) /\ ~Migree(e)
                      THEN dehors[e] + 1 ELSE 0]

HSpec == HInit /\ [][HNext]_hvars
-----------------------------------------------------------------------------

(* "une entite doit etre sortie de sa cellule d'autorite pendant 3 ticks     *)
(* consecutifs avant que la bascule soit accordee" (routage.rs:71-73).      *)
TicksConsecutifs ==
  [][\A e \in Entites : Migree(e) => dehors[e] + 1 >= Hysteresis]_hvars
=============================================================================
