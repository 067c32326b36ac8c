---------------------------- MODULE Compaction ------------------------------
(***************************************************************************)
(* One open slot receiving writes, beside the list of everything written   *)
(* to it: checks compacter, and the threshold compaction of ecrire, against*)
(* the definition of last-writer-wins (engine.rs:96-110, 303-308).         *)
(***************************************************************************)
EXTENDS Slot

CONSTANT MaxEcritures   \* bound on the writes of a behaviour

ASSUME MaxEcrituresAssumption == MaxEcritures \in Nat

VARIABLES
  slot,     \* the slot, compacted whenever ecrire decides to
  brut,     \* history: every entry ever written to it, in arrival order
  passes    \* history: compactions that ecrire ran

cvars == <<slot, brut, passes>>

CInit == slot = SlotVide /\ brut = <<>> /\ passes = 0

Pousser(e, p) ==
  /\ Len(brut) < MaxEcritures
  /\ slot'   = SlotEcrit(slot, 0, e, p)
  /\ brut'   = Append(brut, [entite |-> e, pose |-> p])
  /\ passes' = IF slot'.depuis > slot.depuis THEN passes ELSE passes + 1

CNext == \E e \in Entites, p \in Poses : Pousser(e, p)
CSpec == CInit /\ [][CNext]_cvars

(* Sealing yields exactly one entry per entity written, its last pose, in   *)
(* entity order (lib.rs:104-105, engine.rs:101-110).                        *)
SceauLWW ==
  LET scelle == JournalCompacte(brut)
  IN  StrictementTrie(scelle) /\ DernierePose(scelle) = DernierePose(brut)

(* Compacting on the way, however often, is invisible: the sealed journal   *)
(* is the one that a single compaction at the seal gives (engine.rs:13-18). *)
CompactionTransparente ==
  SlotScelle(slot, 0).journal = JournalCompacte(brut)

(* Writing many distinct entities stays linear (engine.rs:67-75): however   *)
(* little a compaction shortens the journal, there is at most one per Seuil *)
(* writes.                                                                  *)
CoutAmorti == passes * Seuil <= Len(brut)
=============================================================================
