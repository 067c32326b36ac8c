----------------------------- MODULE MCServeur ------------------------------
(* Two rooms of two cells, two ticks, a store that keeps one tick per cell: *)
(* what three requests can do to one another through the store,            *)
(* latest_sealed and the counters.                                         *)
EXTENDS ServeurAdresses, TLC

Demande(route, salle, cellules, tick) ==
  [route |-> route, secret |-> TRUE, salle |-> salle, cellules |-> cellules,
   tick |-> tick, entite |-> 1, pose |-> "p"]

MCDemandes ==
  {Demande(route, 0, <<1>>, {t}) : route \in {"write", "seal"}, t \in Ticks}
  \cup {Demande("read", 0, <<0, 2, 1>>, {}), Demande("read", 0, <<1>>, {0}),
        Demande("seal", 1, <<0>>, {0}), Demande("seal", 2, <<0>>, {0}),
        Demande("write", 0, <<2>>, {0}), Demande("read", 2, <<1>>, {}),
        Demande("metrics", 0, <<>>, {}), Demande("health", 0, <<>>, {}),
        [Demande("write", 0, <<1>>, {0}) EXCEPT !.secret = FALSE]}

MCDimensions == [cellules : 1..4, anneau : 1..3]

Binaire == INSTANCE Bitwise

(* The bits and the powers of two of Adressage are those of the recursive  *)
(* definitions.                                                            *)
ASSUME ReferenceBinaire ==
  /\ \A a, b \in 0..24 : Xor(a, b) = Binaire!^^(a, b)
  /\ \A n \in 0..130 : PuissanceDeDeux(n) <=> \E i \in 0..8 : n = 2 ^ i

MCSymetrie == Permutations(Requetes)
=============================================================================
