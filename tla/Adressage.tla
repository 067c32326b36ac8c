----------------------------- MODULE Adressage ------------------------------
(***************************************************************************)
(* The address arithmetic of ChronotopeEngine (engine.rs:151-213): rooms,  *)
(* cells and ticks become bit fields put together with an exclusive or.    *)
(* d holds the dimensions of an engine: cells of a room, slots of a ring.  *)
(* Powers of two and the exclusive or are defined by their divisors and    *)
(* their bits, without recursion, so that they can be proved about.        *)
(***************************************************************************)
EXTENDS Naturals

(* is_power_of_two: nothing odd divides n but 1.                            *)
PuissanceDeDeux(n) == n > 0 /\ \A k \in 2..n : n % k = 0 => k % 2 = 0

(* The bit of weight p, the powers of two up to n, and `^`.                 *)
Bit(n, p) == (n \div p) % 2

Poids(n) == {p \in 1..n : PuissanceDeDeux(p)}

Xor(a, b) ==
  CHOOSE n \in 0 .. (a + b) :
    \A p \in Poids(a + b) : Bit(n, p) = (Bit(a, p) + Bit(b, p)) % 2

MutDimensionsValides(d) == d.cellules > 0 /\ d.anneau > 0   \* mutant: not asserted

(* What avec_dimensions asserts.                                            *)
DimensionsValides(d) == PuissanceDeDeux(d.cellules) /\ PuissanceDeDeux(d.anneau)

Base(d, room) == room * d.cellules * d.anneau

Adresse(d, room, cell, tick) == Xor(Base(d, room), cell * d.anneau + (tick % d.anneau))

(* The cell and the slot the engine goes to, found back from the address.   *)
Coordonnees(d, room, cell, tick) ==
  LET locale == Xor(Adresse(d, room, cell, tick), Base(d, room))
  IN  <<locale \div d.anneau, locale % d.anneau>>

(* What base and coordonnees assert before they compute.                    *)
Adressable(d, sallesMax, room, cell) == room < sallesMax /\ cell < d.cellules
=============================================================================
