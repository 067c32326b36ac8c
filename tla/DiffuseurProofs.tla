-------------------------- MODULE DiffuseurProofs ---------------------------
(***************************************************************************)
(* Theorems about the Diffuseur for any rooms, cells, sealing threads,     *)
(* observers, demands, channel capacity and number of calls: its types;    *)
(* who keeps a subscription; who is given what, and in which order.        *)
(***************************************************************************)
EXTENDS DiffuseurHistoire, ListesProofs

(* Every subscription of the list has a receiver, and is there once.        *)
ListeOK ==
  /\ actifs = Len(abonnes)
  /\ \A i \in 1..Len(abonnes) : recepteur[abonnes[i]] # "absent"
  /\ \A i, k \in 1..Len(abonnes) : abonnes[i] = abonnes[k] => i = k

(* A thread inside diffuser holds the last chronotope it sealed.            *)
SceauOK ==
  \A f \in Fils : pc[f] # "libre" =>
    sceau[f] \in Sceaux /\ sceau[f].fil = f /\ sceau[f].numero = envois[f]

DInv == TypeOK /\ AbonneGarde /\ ListeOK /\ SceauOK

(* A purge leaves the subscriptions not marked dead, each once.             *)
LEMMA PurgeListe ==
  ASSUME TypeOK, ListeOK, abonnes' = Extraire(abonnes, Vivants)
  PROVE  /\ abonnes' \in Seq(Observateurs)
         /\ \A i \in 1..Len(abonnes') : \E k \in 1..Len(abonnes) : abonnes'[i] = abonnes[k]
         /\ \A k \in 1..Len(abonnes) : abonnes[k] \notin morts =>
              \E i \in 1..Len(abonnes') : abonnes'[i] = abonnes[k]
         /\ \A i, k \in 1..Len(abonnes') : abonnes'[i] = abonnes'[k] => i = k
<1> DEFINE N == Len(abonnes')
<1>1. abonnes \in Seq(Observateurs) /\ Vivants \in SUBSET (1..Len(abonnes))
  BY DEF TypeOK, Vivants
<1>2. abonnes' \in Seq(Observateurs)
  BY <1>1, ExtraireType
<1>3. PICK s : Extrait(abonnes, Vivants, s)
  BY <1>1, ExtraireOrdre
<1>4. /\ s \in [1..N -> Vivants]
      /\ \A n \in 1..N : abonnes'[n] = abonnes[s[n]]
      /\ \A n, m \in 1..N : n < m => s[n] < s[m]
      /\ \A i \in Vivants : \E n \in 1..N : s[n] = i
  BY <1>3 DEF Extrait
<1>5. N \in Nat
  BY <1>2
<1> HIDE DEF N
<1>10. \A n \in 1..N : s[n] \in 1..Len(abonnes)
  BY <1>1, <1>4
<1>6. \A i \in 1..N : \E k \in 1..Len(abonnes) : abonnes'[i] = abonnes[k]
  BY <1>4, <1>10
<1>7. \A k \in 1..Len(abonnes) : abonnes[k] \notin morts =>
        \E i \in 1..N : abonnes'[i] = abonnes[k]
  <2>1. \A k \in 1..Len(abonnes) : abonnes[k] \notin morts => k \in Vivants
    BY <1>1 DEF Vivants
  <2>2. QED
    BY <1>4, <2>1
<1>8. ASSUME NEW i \in 1..N, NEW k \in 1..N, abonnes'[i] = abonnes'[k]
      PROVE  i = k
  <2>1. s[i] = s[k]
    BY <1>4, <1>8, <1>10 DEF ListeOK
  <2>2. s[i] \in Nat /\ s[k] \in Nat /\ i \in Nat /\ k \in Nat
    BY <1>5, <1>10
  <2>3. ~(i < k) /\ ~(k < i)
    BY <1>4, <2>1, <2>2
  <2>4. QED
    BY <2>2, <2>3
<1>9. QED
  BY <1>2, <1>6, <1>7, <1>8 DEF N

(* A step that touches neither the list nor the receivers keeps what holds  *)
(* of them, if no channel overflows.                                        *)
LEMMA ListeInchangee ==
  ASSUME AbonneGarde, ListeOK, UNCHANGED liste, UNCHANGED recepteur,
         \A o \in Observateurs : Len(canal'[o]) <= Capacite
  PROVE  AbonneGarde' /\ ListeOK'
  BY DEF AbonneGarde, ListeOK, liste, Contains

-----------------------------------------------------------------------------

LEMMA DInvInit == Init => DInv
<1> SUFFICES ASSUME Init PROVE DInv
  OBVIOUS
<1>1. /\ abonnes = <<>> /\ actifs = 0 /\ morts = {}
      /\ demande = [o \in Observateurs |-> Aucune]
      /\ recepteur = [o \in Observateurs |-> "absent"]
      /\ canal = [o \in Observateurs |-> <<>>]
      /\ pc = [f \in Fils |-> "libre"] /\ sceau = [f \in Fils |-> Aucune]
      /\ rang = [f \in Fils |-> 0] /\ aPurger = [f \in Fils |-> FALSE]
      /\ envois = [f \in Fils |-> 0]
  BY DEF Init
<1>2. <<>> \in Seq(Observateurs) /\ <<>> \in Seq(Sceaux) /\ Len(<<>>) = 0
  OBVIOUS
<1>3. TypeOK
  BY <1>1, <1>2, MaxEnvoisAssumption DEF TypeOK, Pcs
<1>4. AbonneGarde
  BY <1>1, <1>2, CapaciteAssumption DEF AbonneGarde
<1>5. ListeOK /\ SceauOK
  BY <1>1, <1>2 DEF ListeOK, SceauOK
<1>6. QED
  BY <1>3, <1>4, <1>5 DEF DInv

LEMMA DInvAbonner ==
  ASSUME DInv, NEW o \in Observateurs, NEW d \in Demandes, Abonner(o, d)
  PROVE  DInv'
<1>1. TypeOK /\ AbonneGarde /\ ListeOK /\ SceauOK
  BY DEF DInv
<1>2. /\ recepteur[o] = "absent" /\ SansLecteur
      /\ demande' = [demande EXCEPT ![o] = d] /\ abonnes' = Append(abonnes, o)
      /\ actifs' = Len(abonnes') /\ recepteur' = [recepteur EXCEPT ![o] = "ouvert"]
      /\ canal' = canal /\ morts' = morts /\ pc' = pc /\ sceau' = sceau
      /\ rang' = rang /\ aPurger' = aPurger /\ envois' = envois
  BY DEF Abonner, locales
<1>3. /\ abonnes \in Seq(Observateurs) /\ Len(abonnes) \in Nat
      /\ abonnes' \in Seq(Observateurs) /\ Len(abonnes') = Len(abonnes) + 1
      /\ abonnes'[Len(abonnes) + 1] = o
      /\ \A i \in 1..Len(abonnes) : abonnes'[i] = abonnes[i] /\ abonnes[i] \in Observateurs
  BY <1>1, <1>2 DEF TypeOK
<1>4. TypeOK'
  <2>1. /\ actifs' \in Nat /\ demande' \in [Observateurs -> Demandes \cup {Aucune}]
        /\ recepteur' \in [Observateurs -> {"absent", "ouvert", "ferme"}]
    BY <1>1, <1>2, <1>3 DEF TypeOK
  <2>2. \A f \in Fils : pc'[f] # "parcourir"
    BY <1>2 DEF SansLecteur
  <2>3. \A x \in morts : recepteur'[x] = "ferme"
    BY <1>1, <1>2 DEF TypeOK
  <2>4. QED
    BY <1>1, <1>2, <1>3, <2>1, <2>2, <2>3 DEF TypeOK
<1>5. AbonneGarde'
  <2> SUFFICES ASSUME NEW x \in Observateurs, recepteur'[x] = "ouvert"
               PROVE  \E i \in 1..Len(abonnes') : abonnes'[i] = x
    BY <1>1, <1>2 DEF AbonneGarde, Contains
  <2>1. CASE x = o
    BY <1>3, <2>1
  <2>2. CASE x # o
    <3>1. recepteur[x] = "ouvert"
      BY <1>1, <1>2, <2>2 DEF TypeOK
    <3>2. PICK i \in 1..Len(abonnes) : abonnes[i] = x
      BY <1>1, <3>1 DEF AbonneGarde, Contains
    <3>3. i \in 1..Len(abonnes') /\ abonnes'[i] = x
      BY <1>3, <3>2
    <3>4. QED
      BY <3>3
  <2>3. QED
    BY <2>1, <2>2
<1>6. ListeOK'
  <2>1. \A i \in 1..Len(abonnes) : abonnes[i] # o /\ recepteur[abonnes[i]] # "absent"
    BY <1>1, <1>2 DEF ListeOK
  <2>2. \A i \in 1..Len(abonnes') : i \in 1..Len(abonnes) \/ i = Len(abonnes) + 1
    BY <1>3
  <2>3. \A i \in 1..Len(abonnes') : recepteur'[abonnes'[i]] # "absent"
    BY <1>1, <1>2, <1>3, <2>1, <2>2 DEF TypeOK
  <2>4. \A i, k \in 1..Len(abonnes') : abonnes'[i] = abonnes'[k] => i = k
    BY <1>1, <1>3, <2>1, <2>2 DEF ListeOK
  <2>5. QED
    BY <1>2, <2>3, <2>4 DEF ListeOK
<1>7. SceauOK'
  BY <1>1, <1>2 DEF SceauOK
<1>8. QED
  BY <1>4, <1>5, <1>6, <1>7 DEF DInv

LEMMA DInvRecevoir ==
  ASSUME DInv, NEW o \in Observateurs, Recevoir(o)
  PROVE  DInv'
<1>1. TypeOK /\ AbonneGarde /\ ListeOK /\ SceauOK
  BY DEF DInv
<1>2. /\ canal[o] # <<>> /\ canal' = [canal EXCEPT ![o] = Tail(canal[o])]
      /\ UNCHANGED liste /\ recepteur' = recepteur /\ morts' = morts
      /\ abonnes' = abonnes /\ actifs' = actifs /\ demande' = demande
      /\ pc' = pc /\ sceau' = sceau /\ rang' = rang /\ aPurger' = aPurger
      /\ envois' = envois
  BY DEF Recevoir, liste, locales
<1>3. canal[o] \in Seq(Sceaux) /\ Tail(canal[o]) \in Seq(Sceaux)
      /\ Len(Tail(canal[o])) <= Len(canal[o]) /\ Len(canal[o]) \in Nat
      /\ Len(Tail(canal[o])) \in Nat
  BY <1>1, <1>2 DEF TypeOK
<1>4. TypeOK'
  BY <1>1, <1>2, <1>3 DEF TypeOK
<1>5. \A x \in Observateurs : Len(canal'[x]) <= Capacite
  <2>1. \A x \in Observateurs : Len(canal[x]) <= Capacite
    BY <1>1 DEF AbonneGarde
  <2>2. \A x \in Observateurs : canal'[x] = IF x = o THEN Tail(canal[o]) ELSE canal[x]
    BY <1>1, <1>2 DEF TypeOK
  <2>3. Len(Tail(canal[o])) <= Capacite
    BY <1>3, <2>1, CapaciteAssumption
  <2>4. QED
    BY <2>1, <2>2, <2>3
<1>6. AbonneGarde' /\ ListeOK'
  BY <1>1, <1>2, <1>5, ListeInchangee
<1>7. SceauOK'
  BY <1>1, <1>2 DEF SceauOK
<1>8. QED
  BY <1>4, <1>6, <1>7 DEF DInv

LEMMA DInvFermer ==
  ASSUME DInv, NEW o \in Observateurs, Fermer(o)
  PROVE  DInv'
<1>1. TypeOK /\ AbonneGarde /\ ListeOK /\ SceauOK
  BY DEF DInv
<1>2. /\ recepteur[o] = "ouvert"
      /\ recepteur' = [recepteur EXCEPT ![o] = "ferme"]
      /\ canal' = [canal EXCEPT ![o] = <<>>] /\ morts' = morts
      /\ abonnes' = abonnes /\ actifs' = actifs /\ demande' = demande
      /\ pc' = pc /\ sceau' = sceau /\ rang' = rang /\ aPurger' = aPurger
      /\ envois' = envois
  BY DEF Fermer, liste, locales
<1>3. <<>> \in Seq(Sceaux) /\ Len(<<>>) = 0
  OBVIOUS
<1>4. TypeOK'
  BY <1>1, <1>2, <1>3 DEF TypeOK
<1>5. AbonneGarde'
  BY <1>1, <1>2, <1>3, CapaciteAssumption DEF AbonneGarde, TypeOK, Contains
<1>6. ListeOK'
  BY <1>1, <1>2 DEF ListeOK, TypeOK
<1>7. SceauOK'
  BY <1>1, <1>2 DEF SceauOK
<1>8. QED
  BY <1>4, <1>5, <1>6, <1>7 DEF DInv

(* The steps of a thread that push nothing and purge nothing.                *)
LEMMA DInvFil ==
  ASSUME DInv, NEW f \in Fils, UNCHANGED <<liste, canaux, morts>>,
         NEW p \in Pcs, NEW s \in Sceaux \cup {Aucune}, NEW r \in Nat,
         NEW b \in BOOLEAN, NEW n \in 0..MaxEnvois,
         pc' = [pc EXCEPT ![f] = p], sceau' = [sceau EXCEPT ![f] = s],
         rang' = [rang EXCEPT ![f] = r], aPurger' = [aPurger EXCEPT ![f] = b],
         envois' = [envois EXCEPT ![f] = n],
         p = "parcourir" => r \in 1..(Len(abonnes) + 1),
         p # "libre" => s \in Sceaux /\ s.fil = f /\ s.numero = n
  PROVE  DInv'
<1>1. TypeOK /\ AbonneGarde /\ ListeOK /\ SceauOK
  BY DEF DInv
<1>2. /\ UNCHANGED liste /\ recepteur' = recepteur /\ canal' = canal /\ morts' = morts
      /\ abonnes' = abonnes /\ actifs' = actifs /\ demande' = demande
  BY DEF liste, canaux
<1>3. TypeOK'
  <2>1. /\ pc' \in [Fils -> Pcs] /\ sceau' \in [Fils -> Sceaux \cup {Aucune}]
        /\ rang' \in [Fils -> Nat] /\ aPurger' \in [Fils -> BOOLEAN]
        /\ envois' \in [Fils -> 0..MaxEnvois]
    BY <1>1 DEF TypeOK
  <2>2. \A g \in Fils : pc'[g] = "parcourir" => rang'[g] \in 1..(Len(abonnes') + 1)
    BY <1>1, <1>2 DEF TypeOK
  <2>3. QED
    BY <1>1, <1>2, <2>1, <2>2 DEF TypeOK
<1>4. \A o \in Observateurs : Len(canal'[o]) <= Capacite
  BY <1>1, <1>2 DEF AbonneGarde
<1>5. AbonneGarde' /\ ListeOK'
  BY <1>1, <1>2, <1>4, ListeInchangee
<1>6. SceauOK'
  BY <1>1 DEF SceauOK, TypeOK
<1>7. QED
  BY <1>3, <1>5, <1>6 DEF DInv

LEMMA DInvDiffuser ==
  ASSUME DInv, NEW f \in Fils, NEW r \in Salles, NEW c \in Cellules, Diffuser(f, r, c)
  PROVE  DInv'
<1> DEFINE s == [fil |-> f, numero |-> envois[f] + 1, salle |-> r, cellule |-> c]
<1>1. TypeOK
  BY DEF DInv
<1>2. envois[f] \in 0..MaxEnvois /\ envois[f] < MaxEnvois
      /\ envois[f] + 1 \in 1..MaxEnvois /\ envois[f] + 1 \in 0..MaxEnvois
  BY <1>1, MaxEnvoisAssumption DEF Diffuser, TypeOK
<1>3. s \in Sceaux /\ s.fil = f /\ s.numero = envois[f] + 1
  BY <1>2 DEF Sceaux
<1>4. /\ envois' = [envois EXCEPT ![f] = envois[f] + 1]
      /\ sceau' = [sceau EXCEPT ![f] = s] /\ pc' = [pc EXCEPT ![f] = "charger"]
      /\ rang' = [rang EXCEPT ![f] = rang[f]]
      /\ aPurger' = [aPurger EXCEPT ![f] = aPurger[f]]
      /\ UNCHANGED <<liste, canaux, morts>>
  BY <1>1 DEF Diffuser, TypeOK
<1>5. "charger" \in Pcs /\ rang[f] \in Nat /\ aPurger[f] \in BOOLEAN
  BY <1>1 DEF TypeOK, Pcs
<1> HIDE DEF s
<1>6. QED
  BY <1>2, <1>3, <1>4, <1>5, DInvFil

LEMMA DInvRendre ==
  ASSUME DInv, NEW f \in Fils, Rendre(f), UNCHANGED <<liste, canaux, morts>>
  PROVE  DInv'
<1>1. TypeOK
  BY DEF DInv
<1>2. /\ envois' = [envois EXCEPT ![f] = envois[f]] /\ envois[f] \in 0..MaxEnvois
      /\ pc' = [pc EXCEPT ![f] = "libre"] /\ sceau' = [sceau EXCEPT ![f] = Aucune]
      /\ rang' = [rang EXCEPT ![f] = 0] /\ aPurger' = [aPurger EXCEPT ![f] = FALSE]
      /\ "libre" \in Pcs /\ 0 \in Nat
  BY <1>1 DEF Rendre, TypeOK, Pcs
<1>3. QED
  BY <1>2, DInvFil

LEMMA DInvAvance ==
  ASSUME DInv, NEW f \in Fils, pc[f] # "libre", NEW p \in Pcs, NEW r \in Nat,
         UNCHANGED <<liste, canaux, morts, sceau, aPurger, envois>>,
         pc' = [pc EXCEPT ![f] = p], rang' = [rang EXCEPT ![f] = r],
         p = "parcourir" => r \in 1..(Len(abonnes) + 1)
  PROVE  DInv'
<1> DEFINE s == sceau[f]
           b == aPurger[f]
           n == envois[f]
<1>1. TypeOK /\ SceauOK
  BY DEF DInv
<1>2. /\ envois' = [envois EXCEPT ![f] = n] /\ n \in 0..MaxEnvois
      /\ sceau' = [sceau EXCEPT ![f] = s] /\ s \in Sceaux \cup {Aucune}
      /\ aPurger' = [aPurger EXCEPT ![f] = b] /\ b \in BOOLEAN
      /\ UNCHANGED <<liste, canaux, morts>>
  BY <1>1 DEF TypeOK
<1>3. p # "libre" => s \in Sceaux /\ s.fil = f /\ s.numero = n
  BY <1>1 DEF SceauOK
<1> HIDE DEF s, b, n
<1>4. QED
  BY <1>2, <1>3, DInvFil

LEMMA DInvParcours ==
  ASSUME DInv, NEW f \in Fils, Charger(f) \/ Verrouiller(f) \/ Liberer(f)
  PROVE  DInv'
<1>1. TypeOK
  BY DEF DInv
<1>2. abonnes \in Seq(Observateurs) /\ Len(abonnes) \in Nat /\ rang[f] \in Nat
  BY <1>1 DEF TypeOK
<1>3. CASE Charger(f)
  <2>1. CASE actifs = 0
    BY <1>3, <2>1, DInvRendre DEF Charger
  <2>2. CASE actifs # 0
    <3>1. /\ pc' = [pc EXCEPT ![f] = "verrouiller"] /\ pc[f] # "libre"
          /\ rang' = [rang EXCEPT ![f] = rang[f]] /\ "verrouiller" \in Pcs
          /\ UNCHANGED <<liste, canaux, morts, sceau, aPurger, envois>>
      BY <1>1, <1>3, <2>2 DEF Charger, TypeOK, Pcs
    <3>2. QED
      BY <1>2, <3>1, DInvAvance
  <2>3. QED
    BY <2>1, <2>2
<1>4. CASE Verrouiller(f)
  <2>1. /\ pc' = [pc EXCEPT ![f] = "parcourir"] /\ pc[f] # "libre"
        /\ rang' = [rang EXCEPT ![f] = 1] /\ "parcourir" \in Pcs
        /\ UNCHANGED <<liste, canaux, morts, sceau, aPurger, envois>>
    BY <1>4 DEF Verrouiller, Pcs
  <2>2. 1 \in Nat /\ 1 \in 1..(Len(abonnes) + 1)
    BY <1>2
  <2>3. QED
    BY <2>1, <2>2, DInvAvance
<1>5. CASE Liberer(f)
  <2>1. CASE ~aPurger[f]
    BY <1>5, <2>1, DInvRendre DEF Liberer
  <2>2. CASE aPurger[f]
    <3>1. /\ pc' = [pc EXCEPT ![f] = "purger"] /\ pc[f] # "libre"
          /\ rang' = [rang EXCEPT ![f] = rang[f]] /\ "purger" \in Pcs
          /\ UNCHANGED <<liste, canaux, morts, sceau, aPurger, envois>>
      BY <1>1, <1>5, <2>2 DEF Liberer, TypeOK, Pcs
    <3>2. QED
      BY <1>2, <3>1, DInvAvance
  <2>3. QED
    BY <2>1, <2>2
<1>6. QED
  BY <1>3, <1>4, <1>5

(* What a thread does with the subscription it looks at.                     *)
LEMMA EssayerEffet ==
  ASSUME DInv, NEW f \in Fils, Essayer(f)
  PROVE  /\ rang[f] \in 1..Len(abonnes) /\ abonnes[rang[f]] \in Observateurs
         /\ pc[f] = "parcourir" /\ sceau[f] \in Sceaux
         /\ rang' = [rang EXCEPT ![f] = rang[f] + 1]
         /\ abonnes' = abonnes /\ actifs' = actifs /\ demande' = demande
         /\ recepteur' = recepteur /\ pc' = pc /\ sceau' = sceau /\ envois' = envois
         /\ \/ /\ abonnes[rang[f]] \in morts \/ ~Concerne(abonnes[rang[f]], sceau[f])
               /\ canal' = canal /\ morts' = morts /\ aPurger' = aPurger
            \/ /\ recepteur[abonnes[rang[f]]] = "ferme"
               /\ morts' = morts \cup {abonnes[rang[f]]}
               /\ aPurger' = [aPurger EXCEPT ![f] = TRUE] /\ canal' = canal
            \/ /\ Concerne(abonnes[rang[f]], sceau[f])
               /\ canal' = IF Len(canal[abonnes[rang[f]]]) < Capacite
                           THEN [canal EXCEPT ![abonnes[rang[f]]] =
                                   Append(canal[abonnes[rang[f]]], sceau[f])]
                           ELSE canal
               /\ morts' = morts /\ aPurger' = aPurger
<1>1. TypeOK /\ SceauOK
  BY DEF DInv
<1>2. pc[f] = "parcourir" /\ rang[f] <= Len(abonnes) /\ rang[f] \in Nat
      /\ rang[f] \in 1..(Len(abonnes) + 1) /\ abonnes \in Seq(Observateurs)
  BY <1>1 DEF Essayer, TypeOK
<1>3. rang[f] \in 1..Len(abonnes) /\ abonnes[rang[f]] \in Observateurs
  BY <1>2
<1>4. sceau[f] \in Sceaux
  BY <1>1, <1>2 DEF SceauOK
<1>5. QED
  BY <1>2, <1>3, <1>4 DEF Essayer, liste

LEMMA DInvEssayer ==
  ASSUME DInv, NEW f \in Fils, Essayer(f)
  PROVE  DInv'
<1> DEFINE o == abonnes[rang[f]]
<1>1. TypeOK /\ AbonneGarde /\ ListeOK /\ SceauOK
  BY DEF DInv
<1>2. /\ rang[f] \in 1..Len(abonnes) /\ o \in Observateurs
      /\ pc[f] = "parcourir" /\ sceau[f] \in Sceaux
      /\ rang' = [rang EXCEPT ![f] = rang[f] + 1]
      /\ abonnes' = abonnes /\ actifs' = actifs /\ demande' = demande
      /\ recepteur' = recepteur /\ pc' = pc /\ sceau' = sceau /\ envois' = envois
      /\ \/ canal' = canal /\ morts' = morts /\ aPurger' = aPurger
         \/ /\ recepteur[o] = "ferme" /\ morts' = morts \cup {o}
            /\ aPurger' = [aPurger EXCEPT ![f] = TRUE] /\ canal' = canal
         \/ /\ Len(canal[o]) < Capacite
            /\ canal' = [canal EXCEPT ![o] = Append(canal[o], sceau[f])]
            /\ morts' = morts /\ aPurger' = aPurger
  BY EssayerEffet
<1> HIDE DEF o
<1>3. rang' \in [Fils -> Nat]
      /\ \A g \in Fils : pc'[g] = "parcourir" => rang'[g] \in 1..(Len(abonnes') + 1)
  <2>1. Len(abonnes) \in Nat
    BY <1>1 DEF TypeOK
  <2>2. rang[f] + 1 \in Nat /\ rang[f] + 1 \in 1..(Len(abonnes) + 1)
    BY <1>2, <2>1
  <2>3. QED
    BY <1>1, <1>2, <2>2 DEF TypeOK
<1>4. /\ canal' \in [Observateurs -> Seq(Sceaux)]
      /\ \A x \in Observateurs : Len(canal'[x]) <= Capacite
  <2>1. CASE canal' = canal
    BY <1>1, <2>1 DEF TypeOK, AbonneGarde
  <2>2. CASE /\ Len(canal[o]) < Capacite
             /\ canal' = [canal EXCEPT ![o] = Append(canal[o], sceau[f])]
    <3>1. /\ canal[o] \in Seq(Sceaux) /\ Append(canal[o], sceau[f]) \in Seq(Sceaux)
          /\ Len(canal[o]) \in Nat
          /\ Len(Append(canal[o], sceau[f])) = Len(canal[o]) + 1
      BY <1>1, <1>2 DEF TypeOK
    <3>2. Len(Append(canal[o], sceau[f])) <= Capacite
      BY <2>2, <3>1, CapaciteAssumption
    <3>3. QED
      BY <1>1, <2>2, <3>1, <3>2 DEF TypeOK, AbonneGarde
  <2>3. QED
    BY <1>2, <2>1, <2>2
<1>5. /\ morts' \in SUBSET Observateurs /\ aPurger' \in [Fils -> BOOLEAN]
      /\ \A x \in morts' : recepteur'[x] = "ferme"
  BY <1>1, <1>2 DEF TypeOK
<1>6. TypeOK'
  BY <1>1, <1>2, <1>3, <1>4, <1>5 DEF TypeOK
<1>7. AbonneGarde' /\ ListeOK'
  BY <1>1, <1>2, <1>4, ListeInchangee DEF liste
<1>8. SceauOK'
  BY <1>1, <1>2 DEF SceauOK
<1>9. QED
  BY <1>6, <1>7, <1>8 DEF DInv

LEMMA DInvPurger ==
  ASSUME DInv, NEW f \in Fils, Purger(f)
  PROVE  DInv'
<1>1. TypeOK /\ AbonneGarde /\ ListeOK /\ SceauOK
  BY DEF DInv
<1>2. /\ SansLecteur /\ abonnes' = Extraire(abonnes, Vivants) /\ actifs' = Len(abonnes')
      /\ demande' = demande /\ recepteur' = recepteur /\ canal' = canal /\ morts' = morts
      /\ pc' = [pc EXCEPT ![f] = "libre"] /\ sceau' = [sceau EXCEPT ![f] = Aucune]
      /\ rang' = [rang EXCEPT ![f] = 0] /\ aPurger' = [aPurger EXCEPT ![f] = FALSE]
      /\ envois' = envois
  BY DEF Purger, Rendre, canaux
<1>3. /\ abonnes' \in Seq(Observateurs)
      /\ \A i \in 1..Len(abonnes') : \E k \in 1..Len(abonnes) : abonnes'[i] = abonnes[k]
      /\ \A k \in 1..Len(abonnes) : abonnes[k] \notin morts =>
           \E i \in 1..Len(abonnes') : abonnes'[i] = abonnes[k]
      /\ \A i, k \in 1..Len(abonnes') : abonnes'[i] = abonnes'[k] => i = k
  BY <1>1, <1>2, PurgeListe
<1>4. Len(abonnes') \in Nat
  BY <1>3
<1>5. TypeOK'
  <2>1. \A g \in Fils : pc'[g] # "parcourir"
    BY <1>1, <1>2 DEF SansLecteur, TypeOK
  <2>2. /\ pc' \in [Fils -> Pcs] /\ sceau' \in [Fils -> Sceaux \cup {Aucune}]
        /\ rang' \in [Fils -> Nat] /\ aPurger' \in [Fils -> BOOLEAN]
    BY <1>1, <1>2 DEF TypeOK, Pcs
  <2>3. QED
    BY <1>1, <1>2, <1>3, <1>4, <2>1, <2>2 DEF TypeOK
<1>6. AbonneGarde'
  <2>1. ASSUME NEW o \in Observateurs, recepteur[o] = "ouvert"
        PROVE  \E i \in 1..Len(abonnes') : abonnes'[i] = o
    <3>1. PICK k \in 1..Len(abonnes) : abonnes[k] = o
      BY <1>1, <2>1 DEF AbonneGarde, Contains
    <3>2. o \notin morts
      BY <1>1, <2>1 DEF TypeOK
    <3>3. QED
      BY <1>3, <3>1, <3>2
  <2>2. QED
    BY <1>1, <1>2, <2>1 DEF AbonneGarde, Contains
<1>7. ListeOK'
  BY <1>1, <1>2, <1>3 DEF ListeOK
<1>8. SceauOK'
  BY <1>1, <1>2 DEF SceauOK, TypeOK
<1>9. QED
  BY <1>5, <1>6, <1>7, <1>8 DEF DInv

LEMMA DInvPas == DInv /\ [Next]_vars => DInv'
<1> SUFFICES ASSUME DInv, [Next]_vars PROVE DInv'
  OBVIOUS
<1>1. ASSUME NEW o \in Observateurs,
             (\E d \in Demandes : Abonner(o, d)) \/ Recevoir(o) \/ Fermer(o)
      PROVE  DInv'
  BY <1>1, DInvAbonner, DInvRecevoir, DInvFermer
<1>2. ASSUME NEW f \in Fils, \E r \in Salles, c \in Cellules : Diffuser(f, r, c)
      PROVE  DInv'
  BY <1>2, DInvDiffuser
<1>3. ASSUME NEW f \in Fils,
             Charger(f) \/ Verrouiller(f) \/ Essayer(f) \/ Liberer(f) \/ Purger(f)
      PROVE  DInv'
  BY <1>3, DInvParcours, DInvEssayer, DInvPurger
<1>4. CASE UNCHANGED vars
  BY <1>4 DEF DInv, TypeOK, AbonneGarde, ListeOK, SceauOK, Sceaux, vars
<1>5. QED
  BY <1>1, <1>2, <1>3, <1>4 DEF Next

LEMMA DInvariant == Spec => []DInv
BY DInvInit, DInvPas, PTL DEF Spec

(* Types, and what diffuser's loop relies on: the list does not change under *)
(* the index of a thread that goes through it, and only closed receivers are *)
(* marked dead.                                                              *)
THEOREM DiffuseurType == Spec => []TypeOK
BY DInvariant, PTL DEF DInv

(* An observer keeps its subscription as long as it keeps its receiver, and  *)
(* no channel grows past its bound (diffusion.rs:15-18, 82-91).              *)
THEOREM AbonneTenu == Spec => []AbonneGarde
BY DInvariant, PTL DEF DInv

-----------------------------------------------------------------------------
(* What a step does to one thread, and to the list.                          *)

Immobile(f) ==
  /\ pc'[f] = pc[f] /\ sceau'[f] = sceau[f]
  /\ rang'[f] = rang[f] /\ envois'[f] = envois[f]

Entre(f) ==
  /\ pc[f] = "libre" /\ pc'[f] = "charger" /\ envois'[f] = envois[f] + 1
  /\ demande' = demande /\ recepteur' = recepteur

Suit(f) ==
  /\ sceau'[f] = sceau[f] /\ envois'[f] = envois[f] /\ abonnes' = abonnes
  /\ \/ pc[f] = "charger" /\ pc'[f] = "verrouiller"
     \/ pc[f] = "verrouiller" /\ pc'[f] = "parcourir" /\ rang'[f] = 1
     \/ Essayer(f)
     \/ pc[f] = "parcourir" /\ rang[f] > Len(abonnes) /\ pc'[f] = "purger"

Sort(f) ==
  /\ pc'[f] = "libre" /\ envois'[f] = envois[f]
  /\ \/ pc[f] = "charger" /\ actifs = 0
     \/ pc[f] = "parcourir" /\ rang[f] > Len(abonnes)
     \/ pc[f] = "purger"

LEMMA FilPas ==
  ASSUME TypeOK, Next, NEW f \in Fils
  PROVE  Immobile(f) \/ Entre(f) \/ Suit(f) \/ Sort(f)
<1>1. ASSUME NEW o \in Observateurs,
             (\E d \in Demandes : Abonner(o, d)) \/ Recevoir(o) \/ Fermer(o)
      PROVE  Immobile(f)
  BY <1>1 DEF Abonner, Recevoir, Fermer, locales, Immobile
<1>2. ASSUME NEW g \in Fils,
             NEW r \in Salles, NEW c \in Cellules, Diffuser(g, r, c)
      PROVE  Immobile(f) \/ Entre(f)
  <2>1. CASE g = f
    BY <1>2, <2>1 DEF Diffuser, Entre, TypeOK, liste, canaux
  <2>2. CASE g # f
    BY <1>2, <2>2 DEF Diffuser, Immobile, TypeOK
  <2>3. QED
    BY <2>1, <2>2
<1>3. ASSUME NEW g \in Fils, g # f,
             Charger(g) \/ Verrouiller(g) \/ Essayer(g) \/ Liberer(g) \/ Purger(g)
      PROVE  Immobile(f)
  BY <1>3 DEF Charger, Verrouiller, Essayer, Liberer, Purger, Rendre, Immobile, TypeOK
<1>4. ASSUME Charger(f) PROVE Suit(f) \/ Sort(f)
  BY <1>4 DEF Charger, Rendre, Suit, Sort, TypeOK, liste
<1>5. ASSUME Verrouiller(f) PROVE Suit(f)
  BY <1>5 DEF Verrouiller, Suit, TypeOK, liste
<1>6. ASSUME Essayer(f) PROVE Suit(f)
  BY <1>6 DEF Suit, Essayer, liste
<1>7. ASSUME Liberer(f) PROVE Suit(f) \/ Sort(f)
  BY <1>7 DEF Liberer, Rendre, Suit, Sort, TypeOK, liste
<1>8. ASSUME Purger(f) PROVE Sort(f)
  BY <1>8 DEF Purger, Rendre, Sort, TypeOK
<1>9. QED
  BY <1>1, <1>2, <1>3, <1>4, <1>5, <1>6, <1>7, <1>8 DEF Next

(* The list changes when nobody goes through it, and a demand only before    *)
(* its observer has a receiver.                                              *)
LEMMA ListePas ==
  ASSUME TypeOK, Next
  PROVE  /\ abonnes' = abonnes \/ SansLecteur
         /\ \A o \in Observateurs : recepteur[o] = "ouvert" => demande'[o] = demande[o]
<1>1. ASSUME NEW o \in Observateurs, NEW d \in Demandes, Abonner(o, d)
      PROVE  /\ SansLecteur
             /\ \A x \in Observateurs : recepteur[x] = "ouvert" => demande'[x] = demande[x]
  BY <1>1 DEF Abonner, TypeOK
<1>2. ASSUME NEW f \in Fils, Purger(f) PROVE SansLecteur /\ demande' = demande
  BY <1>2 DEF Purger
<1>3. ASSUME \/ \E o \in Observateurs : Recevoir(o) \/ Fermer(o)
             \/ \E f \in Fils : \/ \E r \in Salles, c \in Cellules : Diffuser(f, r, c)
                                \/ Charger(f) \/ Verrouiller(f) \/ Essayer(f) \/ Liberer(f)
      PROVE  abonnes' = abonnes /\ demande' = demande
  BY <1>3 DEF Recevoir, Fermer, Diffuser, Charger, Verrouiller, Essayer, Liberer, liste
<1>4. QED
  BY <1>1, <1>2, <1>3 DEF Next

(* A channel is given something only by the thread that looks at it.         *)
LEMMA PosesPas ==
  ASSUME DInv, Next, NEW o \in Observateurs, Poses(o) # {}
  PROVE  \E f \in Fils : /\ Essayer(f) /\ abonnes[rang[f]] = o
                         /\ Poses(o) = {sceau[f]} /\ Concerne(o, sceau[f])
<1>1. TypeOK
  BY DEF DInv
<1>2. Len(canal'[o]) > Len(canal[o]) /\ Poses(o) = {Last(canal'[o])}
  BY DEF Poses
<1>3. canal[o] \in Seq(Sceaux) /\ Len(canal[o]) \in Nat
  BY <1>1 DEF TypeOK
<1>4. canal'[o] # canal[o]
  BY <1>2, <1>3
<1>5. \A x \in Observateurs : ~Recevoir(x)
  <2> SUFFICES ASSUME NEW x \in Observateurs, Recevoir(x) PROVE FALSE
    OBVIOUS
  <2>1. x = o /\ canal[o] # <<>> /\ canal'[o] = Tail(canal[o])
    BY <1>1, <1>4 DEF Recevoir, TypeOK
  <2>2. Len(Tail(canal[o])) < Len(canal[o]) /\ Len(Tail(canal[o])) \in Nat
    BY <1>3, <2>1
  <2>3. QED
    BY <1>2, <1>3, <2>1, <2>2
<1>6. \A x \in Observateurs : ~Fermer(x)
  <2> SUFFICES ASSUME NEW x \in Observateurs, Fermer(x) PROVE FALSE
    OBVIOUS
  <2>1. canal'[o] = <<>>
    BY <1>1, <1>4 DEF Fermer, TypeOK
  <2>2. Len(<<>>) = 0
    OBVIOUS
  <2>3. QED
    BY <1>2, <1>3, <2>1, <2>2
<1>7. PICK f \in Fils : Essayer(f)
  BY <1>4, <1>5, <1>6 DEF Next, Abonner, Diffuser, Charger, Verrouiller, Liberer, Purger,
                          canaux
<1> DEFINE x == abonnes[rang[f]]
<1>8. /\ x \in Observateurs /\ Concerne(x, sceau[f]) /\ sceau[f] \in Sceaux
      /\ canal' = [canal EXCEPT ![x] = Append(canal[x], sceau[f])]
  BY <1>4, <1>7, EssayerEffet
<1> HIDE DEF x
<1>9. x = o
  BY <1>1, <1>4, <1>8 DEF TypeOK
<1>10. canal'[o] = Append(canal[o], sceau[f])
  BY <1>1, <1>8, <1>9 DEF TypeOK
<1>11. Len(Append(canal[o], sceau[f])) = Len(canal[o]) + 1
       /\ Append(canal[o], sceau[f])[Len(canal[o]) + 1] = sceau[f]
  BY <1>3, <1>8
<1>12. Poses(o) = {sceau[f]}
  BY <1>2, <1>10, <1>11 DEF Last
<1>13. QED
  BY <1>7, <1>8, <1>9, <1>12 DEF x

-----------------------------------------------------------------------------
(* The history.                                                              *)

(* The chronotope f diffuses was given to o, or o's channel was full.        *)
Recu(f, o) == sceau[f] \in livres[o] \cup pleins[o]

HistoireOK ==
  /\ livres \in [Observateurs -> SUBSET Sceaux]
  /\ pleins \in [Observateurs -> SUBSET (Sceaux \cup {Aucune})]
  /\ dus    \in [Fils -> SUBSET Observateurs]

(* Whoever is owed the chronotope of f listens, asked for it, and has got    *)
(* it once f has gone past its subscription.                                 *)
DuOK ==
  \A f \in Fils : \A o \in dus[f] :
    /\ recepteur[o] = "ouvert" /\ Concerne(o, sceau[f])
    /\ pc[f] = "parcourir" =>
         \A i \in 1..Len(abonnes) : i < rang[f] /\ abonnes[i] = o => Recu(f, o)
    /\ pc[f] = "purger" => Recu(f, o)

(* What a channel was given is older than what its sender now diffuses,      *)
(* unless the sender has gone past the subscription.                         *)
AncienOK ==
  \A o \in Observateurs : \A d \in livres[o] :
    /\ d.numero <= envois[d.fil]
    /\ d.numero = envois[d.fil] =>
         \/ pc[d.fil] \in {"libre", "purger"}
         \/ /\ pc[d.fil] = "parcourir"
            /\ \A i \in 1..Len(abonnes) : rang[d.fil] <= i => abonnes[i] # o

HInv == DInv /\ HistoireOK /\ DuOK /\ AncienOK

LEMMA HInvInit == HInit => HInv
<1> SUFFICES ASSUME HInit PROVE HInv
  OBVIOUS
<1>1. DInv
  BY DInvInit DEF HInit
<1>2. /\ livres = [o \in Observateurs |-> {}] /\ pleins = [o \in Observateurs |-> {}]
      /\ dus = [f \in Fils |-> {}]
  BY DEF HInit
<1>3. HistoireOK /\ DuOK /\ AncienOK
  BY <1>2 DEF HistoireOK, DuOK, AncienOK
<1>4. QED
  BY <1>1, <1>3 DEF HInv

LEMMA HistoirePas ==
  ASSUME HInv, HNext
  PROVE  HistoireOK'
<1>1. DInv /\ TypeOK /\ HistoireOK /\ Next
  BY DEF HInv, DInv, HNext
<1>2. \A o \in Observateurs : Poses(o) \subseteq Sceaux
  <2> SUFFICES ASSUME NEW o \in Observateurs, Poses(o) # {} PROVE Poses(o) \subseteq Sceaux
    OBVIOUS
  <2>1. PICK f \in Fils : Essayer(f) /\ Poses(o) = {sceau[f]}
    BY <1>1, PosesPas
  <2>2. sceau[f] \in Sceaux
    BY <1>1, <2>1, EssayerEffet
  <2>3. QED
    BY <2>1, <2>2
<1>3. livres' \in [Observateurs -> SUBSET Sceaux]
  BY <1>1, <1>2 DEF HNext, HistoireOK
<1>4. pleins' \in [Observateurs -> SUBSET (Sceaux \cup {Aucune})]
  <2>1. \A f \in Fils : sceau[f] \in Sceaux \cup {Aucune}
    BY <1>1 DEF TypeOK
  <2>2. QED
    BY <2>1 DEF HNext
<1>5. dus' \in [Fils -> SUBSET Observateurs]
  BY <1>1 DEF HNext, HistoireOK
<1>6. QED
  BY <1>3, <1>4, <1>5 DEF HistoireOK

(* What was given stays given, as long as the thread is in diffuser.         *)
LEMMA RecuReste ==
  ASSUME HInv, HNext, NEW f \in Fils, NEW o \in Observateurs, Recu(f, o),
         sceau'[f] = sceau[f], pc'[f] # "libre"
  PROVE  Recu(f, o)'
<1>1. livres'[o] = livres[o] \cup Poses(o)
  BY DEF HNext
<1>2. sceau[f] \in pleins[o] => sceau[f] \in pleins'[o]
  BY DEF HNext
<1>3. QED
  BY <1>1, <1>2 DEF Recu

LEMMA EssayerRecu ==
  ASSUME HInv, HNext, NEW f \in Fils, Essayer(f), NEW o \in Observateurs,
         abonnes[rang[f]] = o, recepteur[o] = "ouvert", Concerne(o, sceau[f])
  PROVE  Recu(f, o)'
<1>1. DInv /\ TypeOK /\ AbonneGarde
  BY DEF HInv, DInv
<1>2. /\ rang[f] \in Nat /\ pc[f] = "parcourir" /\ sceau[f] \in Sceaux
      /\ rang' = [rang EXCEPT ![f] = rang[f] + 1] /\ pc' = pc /\ sceau' = sceau
  BY <1>1, EssayerEffet DEF TypeOK
<1>3. o \notin morts
  BY <1>1 DEF TypeOK
<1>4. canal' = IF Len(canal[o]) < Capacite
               THEN [canal EXCEPT ![o] = Append(canal[o], sceau[f])] ELSE canal
  BY <1>1, <1>3, EssayerEffet
<1>5. canal[o] \in Seq(Sceaux) /\ Len(canal[o]) \in Nat /\ Len(canal[o]) <= Capacite
  BY <1>1 DEF TypeOK, AbonneGarde
<1>6. CASE Len(canal[o]) < Capacite
  <2>1. canal'[o] = Append(canal[o], sceau[f])
    BY <1>1, <1>4, <1>6 DEF TypeOK
  <2>2. /\ Len(Append(canal[o], sceau[f])) = Len(canal[o]) + 1
        /\ Append(canal[o], sceau[f])[Len(canal[o]) + 1] = sceau[f]
    BY <1>2, <1>5
  <2>3. Len(canal'[o]) > Len(canal[o]) /\ Last(canal'[o]) = sceau[f]
    BY <1>5, <2>1, <2>2 DEF Last
  <2>4. sceau[f] \in livres'[o]
    BY <2>3 DEF HNext, Poses
  <2>5. QED
    BY <1>2, <2>4 DEF Recu
<1>7. CASE ~(Len(canal[o]) < Capacite)
  <2>1. Len(canal[o]) = Capacite
    BY <1>5, <1>7, CapaciteAssumption
  <2>2. rang'[f] # rang[f]
    BY <1>1, <1>2 DEF TypeOK
  <2>3. Vise(f, o) /\ pc'[f] # "libre"
    BY <1>2, <2>2 DEF Vise
  <2>4. sceau[f] \in pleins'[o]
    BY <2>1, <2>3 DEF HNext
  <2>5. QED
    BY <1>2, <2>4 DEF Recu
<1>8. QED
  BY <1>6, <1>7

LEMMA DuPas ==
  ASSUME HInv, HNext
  PROVE  DuOK'
<1>1. DInv /\ TypeOK /\ AbonneGarde /\ HistoireOK /\ DuOK /\ Next
  BY DEF HInv, DInv, HNext
<1> SUFFICES ASSUME NEW f \in Fils, NEW o \in dus'[f]
             PROVE  /\ recepteur'[o] = "ouvert" /\ Concerne(o, sceau[f])'
                    /\ pc'[f] = "parcourir" =>
                         \A i \in 1..Len(abonnes') :
                           i < rang'[f] /\ abonnes'[i] = o => Recu(f, o)'
                    /\ pc'[f] = "purger" => Recu(f, o)'
  BY DEF DuOK
<1>2. CASE pc[f] = "libre" /\ pc'[f] = "charger"
  <2>1. o \in Observateurs /\ recepteur[o] = "ouvert" /\ Concerne(o, sceau'[f])
    BY <1>2 DEF HNext
  <2>2. demande' = demande /\ recepteur' = recepteur
    BY <1>1, <1>2, FilPas DEF Immobile, Entre, Suit, Sort, Essayer
  <2>3. QED
    BY <1>2, <2>1, <2>2 DEF Concerne
<1>3. CASE ~(pc[f] = "libre" /\ pc'[f] = "charger")
  <2>1. o \in dus[f] /\ pc'[f] # "libre" /\ recepteur'[o] = "ouvert"
    BY <1>3 DEF HNext
  <2>2. o \in Observateurs /\ recepteur[o] = "ouvert" /\ Concerne(o, sceau[f])
    BY <1>1, <2>1 DEF HistoireOK, DuOK
  <2>3. Immobile(f) \/ Suit(f)
    BY <1>1, <1>3, <2>1, FilPas DEF Entre, Sort
  <2>4. sceau'[f] = sceau[f]
    BY <2>3 DEF Immobile, Suit
  <2>5. demande'[o] = demande[o]
    BY <1>1, <2>2, ListePas
  <2>6. Concerne(o, sceau[f])'
    BY <2>2, <2>4, <2>5 DEF Concerne
  <2>7. Recu(f, o) => Recu(f, o)'
    BY <2>1, <2>2, <2>4, RecuReste
  <2>8. ASSUME pc'[f] = "parcourir", NEW i \in 1..Len(abonnes'), i < rang'[f],
               abonnes'[i] = o
        PROVE  Recu(f, o)'
    <3>1. CASE Immobile(f)
      <4>1. abonnes' = abonnes
        BY <1>1, <2>8, <3>1, ListePas DEF Immobile, SansLecteur
      <4>2. Recu(f, o)
        BY <1>1, <2>1, <2>8, <3>1, <4>1 DEF Immobile, DuOK
      <4>3. QED
        BY <2>7, <4>2
    <3>2. CASE Suit(f) /\ rang'[f] = 1
      BY <2>8, <3>2
    <3>3. CASE Suit(f) /\ Essayer(f)
      <4>1. /\ rang[f] \in 1..Len(abonnes) /\ rang'[f] = rang[f] + 1
            /\ abonnes' = abonnes /\ pc[f] = "parcourir"
        BY <1>1, <3>3, EssayerEffet DEF TypeOK
      <4>2. CASE i = rang[f]
        BY <2>2, <2>8, <3>3, <4>1, <4>2, EssayerRecu
      <4>3. CASE i # rang[f]
        <5>1. i < rang[f] /\ i \in 1..Len(abonnes) /\ abonnes[i] = o
          BY <2>8, <4>1, <4>3
        <5>2. QED
          BY <1>1, <2>1, <2>7, <4>1, <5>1 DEF DuOK
      <4>4. QED
        BY <4>2, <4>3
    <3>4. QED
      BY <2>3, <2>8, <3>1, <3>2, <3>3 DEF Suit
  <2>9. ASSUME pc'[f] = "purger"
        PROVE  Recu(f, o)'
    <3>1. CASE Immobile(f)
      BY <1>1, <2>1, <2>7, <2>9, <3>1 DEF Immobile, DuOK
    <3>2. CASE pc[f] = "parcourir" /\ rang[f] > Len(abonnes)
      <4>1. PICK i \in 1..Len(abonnes) : abonnes[i] = o
        BY <1>1, <2>2 DEF AbonneGarde, Contains
      <4>2. Len(abonnes) \in Nat /\ rang[f] \in Nat
        BY <1>1 DEF TypeOK
      <4>3. i < rang[f]
        BY <3>2, <4>2
      <4>4. Recu(f, o)
        BY <1>1, <2>1, <3>2, <4>1, <4>3 DEF DuOK
      <4>5. QED
        BY <2>7, <4>4
    <3>3. ~Essayer(f)
      BY <1>1, <2>9, EssayerEffet
    <3>4. QED
      BY <2>3, <2>9, <3>1, <3>2, <3>3 DEF Suit
  <2>10. QED
    BY <2>1, <2>6, <2>8, <2>9
<1>4. QED
  BY <1>2, <1>3

LEMMA AncienPas ==
  ASSUME HInv, HNext
  PROVE  AncienOK'
<1>1. DInv /\ TypeOK /\ ListeOK /\ SceauOK /\ HistoireOK /\ AncienOK /\ Next
  BY DEF HInv, DInv, HNext
<1> SUFFICES ASSUME NEW o \in Observateurs, NEW d \in livres'[o]
             PROVE  /\ d.numero <= envois'[d.fil]
                    /\ d.numero = envois'[d.fil] =>
                         \/ pc'[d.fil] \in {"libre", "purger"}
                         \/ /\ pc'[d.fil] = "parcourir"
                            /\ \A i \in 1..Len(abonnes') :
                                 rang'[d.fil] <= i => abonnes'[i] # o
  BY DEF AncienOK
<1>2. livres'[o] = livres[o] \cup Poses(o)
  BY DEF HNext
<1>3. CASE d \in livres[o]
  <2> DEFINE g == d.fil
  <2>1. d \in Sceaux /\ g \in Fils /\ d.numero \in Nat
    BY <1>1, <1>3 DEF HistoireOK, Sceaux
  <2>2. d.numero <= envois[g] /\ envois[g] \in Nat
    BY <1>1, <1>3, <2>1 DEF AncienOK, TypeOK
  <2>3. d.numero = envois[g] =>
          \/ pc[g] \in {"libre", "purger"}
          \/ /\ pc[g] = "parcourir"
             /\ \A i \in 1..Len(abonnes) : rang[g] <= i => abonnes[i] # o
    BY <1>1, <1>3 DEF AncienOK
  <2>4. Immobile(g) \/ Entre(g) \/ Suit(g) \/ Sort(g)
    BY <1>1, <2>1, FilPas
  <2> HIDE DEF g
  <2>5. CASE Entre(g)
    <3>1. d.numero < envois'[g]
      BY <2>1, <2>2, <2>5 DEF Entre
    <3>2. envois'[g] \in Nat
      BY <2>2, <2>5 DEF Entre
    <3>3. QED
      BY <2>1, <3>1, <3>2 DEF g
  <2>6. CASE Immobile(g)
    <3>1. pc[g] = "parcourir" => abonnes' = abonnes
      BY <1>1, <2>1, ListePas DEF SansLecteur
    <3>2. QED
      BY <2>2, <2>3, <2>6, <3>1 DEF Immobile, g
  <2>7. CASE Sort(g)
    BY <2>2, <2>7 DEF Sort, g
  <2>8. CASE Suit(g)
    <3>1. envois'[g] = envois[g] /\ abonnes' = abonnes
      BY <2>8 DEF Suit
    <3>2. CASE Essayer(g)
      <4>1. /\ rang'[g] = rang[g] + 1 /\ rang[g] \in Nat /\ pc' = pc
            /\ pc[g] = "parcourir" /\ Len(abonnes) \in Nat
        BY <1>1, <2>1, <3>2, EssayerEffet DEF TypeOK
      <4>2. \A i \in 1..Len(abonnes) : rang[g] + 1 <= i => rang[g] <= i
        BY <4>1
      <4>3. QED
        BY <2>2, <2>3, <3>1, <4>1, <4>2 DEF g
    <3>3. CASE pc'[g] = "purger"
      BY <2>2, <3>1, <3>3 DEF g
    <3>4. CASE pc[g] \in {"charger", "verrouiller"}
      BY <2>2, <2>3, <3>1, <3>4 DEF g
    <3>5. QED
      BY <2>8, <3>2, <3>3, <3>4 DEF Suit
  <2>9. QED
    BY <2>4, <2>5, <2>6, <2>7, <2>8
<1>4. CASE d \in Poses(o)
  <2>1. PICK f \in Fils : Essayer(f) /\ abonnes[rang[f]] = o /\ Poses(o) = {sceau[f]}
    BY <1>1, <1>4, PosesPas
  <2>2. d = sceau[f] /\ pc[f] = "parcourir" /\ pc' = pc /\ envois' = envois
        /\ rang[f] \in 1..Len(abonnes) /\ rang'[f] = rang[f] + 1 /\ abonnes' = abonnes
    BY <1>1, <1>4, <2>1, EssayerEffet DEF TypeOK
  <2>3. d.fil = f /\ d.numero = envois[f] /\ envois[f] \in Nat
    BY <1>1, <2>2 DEF SceauOK, TypeOK
  <2>4. \A i \in 1..Len(abonnes) : rang[f] + 1 <= i => i # rang[f]
    BY <2>2
  <2>5. \A i \in 1..Len(abonnes) : rang[f] + 1 <= i => abonnes[i] # o
    BY <1>1, <2>1, <2>2, <2>4 DEF ListeOK
  <2>6. QED
    BY <2>2, <2>3, <2>5
<1>5. QED
  BY <1>2, <1>3, <1>4

LEMMA HInvPas == HInv /\ [HNext]_hvars => HInv'
<1> SUFFICES ASSUME HInv, [HNext]_hvars PROVE HInv'
  OBVIOUS
<1>1. CASE HNext
  <2>1. DInv'
    BY <1>1, DInvPas DEF HInv, HNext
  <2>2. QED
    BY <1>1, <2>1, HistoirePas, DuPas, AncienPas DEF HInv
<1>2. CASE UNCHANGED hvars
  <2>1. UNCHANGED vars /\ livres' = livres /\ pleins' = pleins /\ dus' = dus
    BY <1>2 DEF hvars
  <2>2. DInv'
    BY <2>1, DInvPas DEF HInv
  <2>3. HistoireOK' /\ DuOK' /\ AncienOK'
    BY <2>1 DEF HInv, HistoireOK, DuOK, AncienOK, Recu, Concerne, Sceaux, vars
  <2>4. QED
    BY <2>2, <2>3 DEF HInv
<1>3. QED
  BY <1>1, <1>2

LEMMA HInvariant == HSpec => []HInv
BY HInvInit, HInvPas, PTL DEF HSpec

(* Whoever subscribed before a seal and still listens when diffuser returns  *)
(* got the chronotope, unless its channel was full at its turn (store.rs:48- *)
(* 54, diffusion.rs:52-93): for any number of threads, observers and purges. *)
THEOREM LivraisonTenue == HSpec => LivraisonComplete
<1> DEFINE A == \A f \in Fils : pc[f] # "libre" /\ pc'[f] = "libre" =>
                  \A o \in dus[f] : sceau[f] \in livres[o] \cup pleins[o]
<1>1. HInv /\ [HNext]_hvars => [A]_hvars
  <2> SUFFICES ASSUME HInv, HNext, NEW f \in Fils, pc[f] # "libre", pc'[f] = "libre",
                      NEW o \in dus[f]
               PROVE  Recu(f, o)
    BY DEF Recu
  <2>1. DInv /\ TypeOK /\ AbonneGarde /\ ListeOK /\ DuOK /\ HistoireOK /\ Next
    BY DEF HInv, DInv, HNext
  <2>2. o \in Observateurs /\ recepteur[o] = "ouvert"
    BY <2>1 DEF DuOK, HistoireOK
  <2>3. PICK i \in 1..Len(abonnes) : abonnes[i] = o
    BY <2>1, <2>2 DEF AbonneGarde, Contains
  <2>4. Len(abonnes) \in Nat /\ rang[f] \in Nat
    BY <2>1 DEF TypeOK
  <2>5. actifs # 0
    BY <2>1, <2>3, <2>4 DEF ListeOK
  <2>6. ~Essayer(f)
    BY <2>1, EssayerEffet
  <2>7. Sort(f)
    BY <2>1, <2>6, FilPas DEF Immobile, Entre, Suit
  <2>8. CASE pc[f] = "parcourir" /\ rang[f] > Len(abonnes)
    <3>1. i < rang[f]
      BY <2>4, <2>8
    <3>2. QED
      BY <2>1, <2>3, <2>8, <3>1 DEF DuOK
  <2>9. CASE pc[f] = "purger"
    BY <2>1, <2>9 DEF DuOK
  <2>10. QED
    BY <2>5, <2>7, <2>8, <2>9 DEF Sort
<1>2. QED
  BY <1>1, HInvariant, PTL DEF HSpec, LivraisonComplete

(* A channel gets each thread's chronotopes in the order it sealed them,     *)
(* none twice, and only those its observer asked for (diffusion.rs:52-93).   *)
THEOREM OrdreTenu == HSpec => OrdreParFil
<1> DEFINE A == \A o \in Observateurs : \A c \in Poses(o) :
                  /\ Concerne(o, c)
                  /\ \A d \in livres[o] : d.fil = c.fil => d.numero < c.numero
<1>1. HInv /\ [HNext]_hvars => [A]_hvars
  <2> SUFFICES ASSUME HInv, HNext, NEW o \in Observateurs, NEW c \in Poses(o)
               PROVE  /\ Concerne(o, c)
                      /\ \A d \in livres[o] : d.fil = c.fil => d.numero < c.numero
    OBVIOUS
  <2>1. DInv /\ TypeOK /\ SceauOK /\ HistoireOK /\ AncienOK /\ Next
    BY DEF HInv, DInv, HNext
  <2>2. PICK f \in Fils : /\ Essayer(f) /\ abonnes[rang[f]] = o
                          /\ Poses(o) = {sceau[f]} /\ Concerne(o, sceau[f])
    BY <2>1, PosesPas
  <2>3. c = sceau[f] /\ pc[f] = "parcourir" /\ rang[f] \in 1..Len(abonnes)
    BY <2>1, <2>2, EssayerEffet
  <2>4. c.fil = f /\ c.numero = envois[f] /\ envois[f] \in Nat
    BY <2>1, <2>3 DEF SceauOK, TypeOK
  <2>5. ASSUME NEW d \in livres[o], d.fil = f
        PROVE  d.numero < envois[f]
    <3>1. d.numero <= envois[f] /\ d.numero \in Nat
      BY <2>1, <2>5 DEF AncienOK, HistoireOK, Sceaux
    <3>2. d.numero # envois[f]
      BY <2>1, <2>2, <2>3, <2>5 DEF AncienOK
    <3>3. QED
      BY <2>4, <3>1, <3>2
  <2>6. QED
    BY <2>2, <2>3, <2>4, <2>5
<1>2. QED
  BY <1>1, HInvariant, PTL DEF HSpec, OrdreParFil
=============================================================================
