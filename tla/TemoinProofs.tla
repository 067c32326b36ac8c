---------------------------- MODULE TemoinProofs ----------------------------
(***************************************************************************)
(* Theorems about the row store and the test double, for any entities,     *)
(* poses, rooms, cells, ticks, threads and observers: the row store's      *)
(* index is right, it implements the contract of Contrat.tla with no       *)
(* expiry, and the two stores given the same calls are one store to their  *)
(* callers.                                                                *)
(***************************************************************************)
EXTENDS Jumeaux, ListesProofs, SequenceTheorems

Lignes == [entite : Entites, pose : Poses]

TType ==
  /\ lignes  \in [Cles -> [Entites -> Poses \cup {Sans}]]
  /\ index   \in [Cles -> Seq(Entites)]
  /\ scelles \in SUBSET Cles
  /\ pc      \in [Fils -> {"libre", "diffuser"}]
  /\ DOMAIN rendu = Fils

TInv == TType /\ IndexFidele

LEMMA LignesNaturelles == \A x \in Lignes : x.entite \in Nat
BY OrdreAssumption DEF Lignes

(* The index of a key, position by position.                                *)
LEMMA IndexDe ==
  ASSUME TInv, NEW k \in Cles
  PROVE  /\ index[k] \in Seq(Entites) /\ Len(index[k]) \in Nat
         /\ DOMAIN index[k] = 1..Len(index[k])
         /\ lignes[k] \in [Entites -> Poses \cup {Sans}]
         /\ SansDoublon(index[k])
         /\ \A i \in 1..Len(index[k]) :
              index[k][i] \in Entites /\ lignes[k][index[k][i]] \in Poses
         /\ \A e \in Entites : lignes[k][e] # Sans =>
              \E i \in 1..Len(index[k]) : index[k][i] = e
<1>1. /\ index[k] \in Seq(Entites) /\ lignes[k] \in [Entites -> Poses \cup {Sans}]
      /\ IsInjective(index[k])
      /\ Range(index[k]) = {e \in Entites : lignes[k][e] # Sans}
  BY DEF TInv, TType, IndexFidele
<1>2. DOMAIN index[k] = 1..Len(index[k]) /\ Len(index[k]) \in Nat
  BY <1>1
<1>3. SansDoublon(index[k])
  BY <1>1, <1>2 DEF IsInjective, SansDoublon
<1>4. \A i \in 1..Len(index[k]) : index[k][i] \in Range(index[k])
  BY <1>2 DEF Range
<1>5. \A e \in Range(index[k]) : \E i \in 1..Len(index[k]) : index[k][i] = e
  BY <1>2 DEF Range
<1>6. QED
  BY <1>1, <1>2, <1>3, <1>4, <1>5

-----------------------------------------------------------------------------
(* The rows of a key as a list: what assembler returns.                     *)

(* j lists the rows l, one entry per entity, in entity order.                *)
Represente(j, l) ==
  /\ j \in Seq(Lignes)
  /\ StrictementTrie(j)
  /\ \A n \in 1..Len(j) : j[n].pose = l[j[n].entite]
  /\ \A e \in Entites : l[e] # Sans => \E n \in 1..Len(j) : j[n].entite = e

LEMMA RepresenteType ==
  ASSUME NEW j \in Seq(Lignes), NEW n \in 1..Len(j)
  PROVE  /\ j[n] \in Lignes /\ j[n].entite \in Entites /\ j[n].entite \in Nat
         /\ j[n].pose \in Poses /\ j[n].pose # Sans
         /\ j[n] = [entite |-> j[n].entite, pose |-> j[n].pose]
<1>1. j[n] \in Lignes
  OBVIOUS
<1>2. QED
  BY <1>1, OrdreAssumption, PosesAssumption DEF Lignes

LEMMA RepresenteInclus ==
  ASSUME NEW a, NEW b, NEW l, Represente(a, l), Represente(b, l)
  PROVE  Inclus(a, b)
<1>1. a \in Seq(Lignes) /\ b \in Seq(Lignes)
  BY DEF Represente
<1> SUFFICES ASSUME NEW i \in 1..Len(a) PROVE \E k \in 1..Len(b) : b[k] = a[i]
  BY DEF Inclus
<1>2. a[i].pose = l[a[i].entite] /\ a[i].pose # Sans /\ a[i].entite \in Entites
      /\ a[i] = [entite |-> a[i].entite, pose |-> a[i].pose]
  BY <1>1, RepresenteType DEF Represente
<1>3. PICK k \in 1..Len(b) : b[k].entite = a[i].entite
  BY <1>2 DEF Represente
<1>4. b[k].pose = l[b[k].entite] /\ b[k] = [entite |-> b[k].entite, pose |-> b[k].pose]
  BY <1>1, RepresenteType DEF Represente
<1>5. QED
  BY <1>2, <1>3, <1>4

(* There is one such list.                                                  *)
LEMMA RepresenteUnique ==
  ASSUME NEW a, NEW b, NEW l, Represente(a, l), Represente(b, l)
  PROVE  a = b
<1>1. a \in Seq(Lignes) /\ b \in Seq(Lignes) /\ StrictementTrie(a) /\ StrictementTrie(b)
  BY DEF Represente
<1>2. Inclus(a, b) /\ Inclus(b, a)
  BY RepresenteInclus
<1>3. QED
  BY <1>1, <1>2, LignesNaturelles, TrieUnique

(* Read by entity, it gives the rows back.                                  *)
LEMMA RepresenteContenu ==
  ASSUME NEW l \in [Entites -> Poses \cup {Sans}], NEW j, Represente(j, l)
  PROVE  Contenu(j) = l
<1>1. j \in Seq(Lignes) /\ DOMAIN j = 1..Len(j)
  BY DEF Represente
<1>2. ASSUME NEW e \in Entites
      PROVE  Contenu(j)[e] = l[e]
  <2> DEFINE I == {i \in DOMAIN j : j[i].entite = e}
  <2>1. Contenu(j)[e] = IF I = {} THEN Sans ELSE j[CHOOSE i \in I : TRUE].pose
    BY DEF Contenu
  <2>2. CASE I = {}
    <3>1. l[e] = Sans
      BY <1>1, <2>2 DEF Represente
    <3>2. QED
      BY <2>1, <2>2, <3>1
  <2>3. CASE I # {}
    <3>1. (CHOOSE i \in I : TRUE) \in I
      BY <2>3
    <3>2. \A i \in I : j[i].pose = l[e]
      BY <1>1 DEF Represente
    <3> HIDE DEF I
    <3>3. QED
      BY <2>1, <2>3, <3>1, <3>2
  <2>4. QED
    BY <2>2, <2>3
<1>3. Contenu(j) = [e \in Entites |-> Contenu(j)[e]]
  BY DEF Contenu
<1>4. QED
  BY <1>2, <1>3

(* assembler lists the rows of its key.                                     *)
LEMMA AssemblerRepresente ==
  ASSUME TInv, NEW k \in Cles
  PROVE  Represente(Assembler(k), lignes[k])
<1> DEFINE x == index[k]
           l == lignes[k]
           P == {i \in DOMAIN x : l[x[i]] # Sans}
           q == Extraire(x, P)
           N == Len(q)
           r == [i \in DOMAIN q |-> [entite |-> q[i], pose |-> l[q[i]]]]
           t == TrierParEntite(r)
<1>1. /\ x \in Seq(Entites) /\ DOMAIN x = 1..Len(x) /\ SansDoublon(x)
      /\ \A i \in 1..Len(x) : x[i] \in Entites /\ l[x[i]] \in Poses
      /\ \A e \in Entites : l[e] # Sans => \E i \in 1..Len(x) : x[i] = e
  BY IndexDe
<1>2. Assembler(k) = t
  BY DEF Assembler
<1>3. P \in SUBSET (1..Len(x)) /\ \A i \in 1..Len(x) : i \in P
  BY <1>1, PosesAssumption
<1> HIDE DEF x, l, P
<1>4. q \in Seq(Entites)
  BY <1>1, <1>3, ExtraireType
<1>5. PICK s : Extrait(x, P, s)
  BY <1>1, <1>3, ExtraireOrdre
<1>6. /\ \A n \in 1..N : s[n] \in P /\ q[n] = x[s[n]]
      /\ \A n, m \in 1..N : n < m => s[n] < s[m]
      /\ \A i \in P : \E n \in 1..N : s[n] = i
  BY <1>5 DEF Extrait
<1> HIDE DEF q
<1>7. N \in Nat /\ DOMAIN q = 1..N
  BY <1>4
<1> HIDE DEF N
<1>8. ASSUME NEW n \in 1..N, NEW m \in 1..N, n # m
      PROVE  q[n] # q[m]
  <2>1. n < m \/ m < n
    BY <1>7, <1>8
  <2>2. s[n] \in Nat /\ s[m] \in Nat /\ s[n] \in 1..Len(x) /\ s[m] \in 1..Len(x)
    <3>1. \A i \in P : i \in 1..Len(x) /\ i \in Nat
      BY <1>3
    <3>2. s[n] \in P /\ s[m] \in P
      BY <1>6
    <3>3. QED
      BY <3>1, <3>2
  <2>3. s[n] # s[m]
    BY <1>6, <2>1, <2>2
  <2>4. QED
    BY <1>1, <1>6, <2>2, <2>3 DEF SansDoublon
<1>9. ASSUME NEW n \in 1..N
      PROVE  q[n] \in Entites /\ l[q[n]] \in Poses
  BY <1>1, <1>3, <1>6
<1>10. /\ r \in Seq(Lignes) /\ Len(r) = N
       /\ \A n \in 1..N : r[n].entite = q[n] /\ r[n].pose = l[q[n]]
  <2>1. \A n \in 1..N : [entite |-> q[n], pose |-> l[q[n]]] \in Lignes
    BY <1>9 DEF Lignes
  <2>2. r \in [1..N -> Lignes]
    BY <1>7, <2>1
  <2>3. QED
    BY <1>7, <2>2
<1> HIDE DEF r
<1>11. t \in Seq(Lignes) /\ Len(t) = N
  BY <1>10, LignesNaturelles, TriType
<1>12. PICK u : Permute(r, u)
  BY <1>10, LignesNaturelles, TriOrdre
<1>13. /\ \A n \in 1..N : u[n] \in 1..N /\ t[n] = r[u[n]]
       /\ \A n, m \in 1..N : n < m => Avant(r, u[n], u[m])
       /\ \A i \in 1..N : \E n \in 1..N : u[n] = i
  BY <1>10, <1>12 DEF Permute
<1> HIDE DEF t
<1>14. ASSUME NEW n \in 1..N, NEW m \in 1..N, n < m
       PROVE  t[n].entite < t[m].entite
  <2>1. Avant(r, u[n], u[m]) /\ u[n] \in 1..N /\ u[m] \in 1..N
    BY <1>13, <1>14
  <2>2. u[n] \in Nat /\ u[m] \in Nat
    BY <2>1
  <2>3. r[u[n]].entite = r[u[m]].entite => u[n] = u[m]
    BY <1>8, <1>10, <2>1
  <2>4. r[u[n]].entite < r[u[m]].entite
    BY <2>1, <2>2, <2>3 DEF Avant
  <2>5. QED
    BY <1>13, <2>4
<1>15. StrictementTrie(t)
  BY <1>11, <1>14 DEF StrictementTrie
<1>16. \A n \in 1..N : t[n].pose = l[t[n].entite]
  <2> SUFFICES ASSUME NEW n \in 1..N PROVE t[n].pose = l[t[n].entite]
    OBVIOUS
  <2>1. u[n] \in 1..N /\ t[n] = r[u[n]]
    BY <1>13
  <2>2. r[u[n]].pose = l[q[u[n]]] /\ r[u[n]].entite = q[u[n]]
    BY <1>10, <2>1
  <2>3. QED
    BY <2>1, <2>2
<1>17. ASSUME NEW e \in Entites, l[e] # Sans
       PROVE  \E n \in 1..N : t[n].entite = e
  <2>1. PICK i \in P : x[i] = e
    BY <1>1, <1>3, <1>17
  <2>2. PICK m \in 1..N : s[m] = i
    BY <1>6
  <2>3. PICK n \in 1..N : u[n] = m
    BY <1>13
  <2>4. t[n] = r[m] /\ q[m] = e
    BY <1>6, <1>13, <2>1, <2>2, <2>3
  <2>5. r[m].entite = q[m]
    BY <1>10
  <2>6. QED
    BY <2>4, <2>5
<1>18. Represente(t, l)
  BY <1>11, <1>15, <1>16, <1>17 DEF Represente
<1>19. QED
  BY <1>2, <1>18 DEF l

LEMMA AssemblerContenu ==
  ASSUME TInv, NEW k \in Cles
  PROVE  Contenu(Assembler(k)) = lignes[k]
BY AssemblerRepresente, RepresenteContenu, IndexDe

-----------------------------------------------------------------------------
(* The index follows the rows.                                              *)

LEMMA TInvInit == Init => TInv
<1> SUFFICES ASSUME Init PROVE TInv
  OBVIOUS
<1>1. /\ lignes = [k \in Cles |-> [e \in Entites |-> Sans]]
      /\ index = [k \in Cles |-> <<>>] /\ scelles = {}
      /\ pc = [f \in Fils |-> "libre"] /\ rendu = [f \in Fils |-> Aucun]
  BY DEF Init
<1>2. TType
  BY <1>1 DEF TType
<1>3. IndexFidele
  BY <1>1 DEF IndexFidele, IsInjective, Range
<1>4. QED
  BY <1>2, <1>3 DEF TInv

LEMMA TInvEcrire ==
  ASSUME TInv, NEW f \in Fils, NEW o \in Appels, Ecrire(f, o)
  PROVE  TInv'
<1> DEFINE k == o.cle
           e == o.entite
           x == index[k]
<1>1. k \in Cles /\ e \in Entites /\ o.pose \in Poses /\ o.pose # Sans
  BY PosesAssumption DEF Ecrire, Ecritures
<1>2. TType /\ IndexFidele
  BY DEF TInv
<1>3. scelles' = scelles /\ pc' = pc /\ DOMAIN rendu' = Fils
  BY <1>2 DEF Ecrire, Rendre, TType
<1>4. CASE k \in scelles
  BY <1>2, <1>3, <1>4 DEF Ecrire, TInv, TType, IndexFidele
<1>5. CASE k \notin scelles
  <2>1. /\ lignes' = [lignes EXCEPT ![k] = [lignes[k] EXCEPT ![e] = o.pose]]
        /\ index' = IF lignes[k][e] = Sans THEN [index EXCEPT ![k] = Append(x, e)] ELSE index
    BY <1>5 DEF Ecrire
  <2>2. /\ x \in Seq(Entites) /\ Len(x) \in Nat /\ DOMAIN x = 1..Len(x)
        /\ lignes[k] \in [Entites -> Poses \cup {Sans}]
        /\ IsInjective(x) /\ Range(x) = {a \in Entites : lignes[k][a] # Sans}
    BY <1>1, <1>2, IndexDe DEF TInv, IndexFidele
  <2>3. /\ lignes' \in [Cles -> [Entites -> Poses \cup {Sans}]]
        /\ \A a \in Cles : a # k => lignes'[a] = lignes[a]
        /\ lignes'[k] = [lignes[k] EXCEPT ![e] = o.pose]
    BY <1>1, <1>2, <2>1, <2>2 DEF TType
  <2>4. {a \in Entites : lignes'[k][a] # Sans} = Range(x) \cup {e}
    BY <1>1, <2>2, <2>3
  <2>5. /\ index' \in [Cles -> Seq(Entites)]
        /\ \A a \in Cles : a # k => index'[a] = index[a]
        /\ index'[k] = IF lignes[k][e] = Sans THEN Append(x, e) ELSE x
    BY <1>1, <1>2, <2>1, <2>2 DEF TType
  <2>6. IsInjective(index'[k]) /\ Range(index'[k]) = Range(x) \cup {e}
    <3>1. CASE lignes[k][e] = Sans
      <4>1. index'[k] = Append(x, e) /\ e \notin Range(x)
        BY <2>2, <2>5, <3>1
      <4>2. /\ DOMAIN Append(x, e) = 1..(Len(x) + 1) /\ Append(x, e)[Len(x) + 1] = e
            /\ \A i \in 1..Len(x) : Append(x, e)[i] = x[i]
        BY <1>1, <2>2
      <4>3. \A i \in 1..(Len(x) + 1) : i \in 1..Len(x) \/ i = Len(x) + 1
        BY <2>2
      <4>4. \A i \in 1..Len(x) : x[i] \in Range(x) /\ i \in 1..(Len(x) + 1)
        BY <2>2 DEF Range
      <4>5. Len(x) + 1 \in 1..(Len(x) + 1)
        BY <2>2
      <4> DEFINE y == Append(x, e)
                 L == Len(x)
      <4>6. /\ DOMAIN y = 1..(L + 1) /\ y[L + 1] = e /\ \A i \in 1..L : y[i] = x[i]
            /\ DOMAIN x = 1..L
        BY <2>2, <4>2
      <4> HIDE DEF x, y
      <4>7. IsInjective(y)
        <5>1. \A i, j \in 1..L : x[i] = x[j] => i = j
          BY <2>2, <4>6 DEF IsInjective
        <5>2. \A i \in 1..L : x[i] # e
          BY <4>1, <4>4
        <5> HIDE DEF L
        <5>3. \A i \in 1..(L + 1) : i \in 1..L \/ i = L + 1
          BY <4>3 DEF L
        <5>4. \A i, j \in 1..(L + 1) : y[i] = y[j] => i = j
          BY <4>6, <5>1, <5>2, <5>3
        <5>5. QED
          BY <4>6, <5>4 DEF IsInjective
      <4>8. Range(y) = Range(x) \cup {e}
        BY <4>3, <4>4, <4>5, <4>6 DEF Range
      <4>9. QED
        BY <4>1, <4>7, <4>8 DEF y
    <3>2. CASE lignes[k][e] # Sans
      BY <1>1, <2>2, <2>5, <3>2
    <3>3. QED
      BY <3>1, <3>2
  <2>7. TType'
    BY <1>2, <1>3, <2>3, <2>5 DEF TType
  <2>8. IndexFidele'
    <3> SUFFICES ASSUME NEW a \in Cles
                 PROVE  /\ IsInjective(index'[a])
                        /\ Range(index'[a]) = {b \in Entites : lignes'[a][b] # Sans}
      BY DEF IndexFidele, IsInjective, Range
    <3>1. CASE a = k
      BY <2>4, <2>6, <3>1
    <3>2. CASE a # k
      <4>1. index'[a] = index[a] /\ lignes'[a] = lignes[a]
        BY <2>3, <2>5, <3>2
      <4>2. IsInjective(index[a]) /\ Range(index[a]) = {b \in Entites : lignes[a][b] # Sans}
        BY <1>2 DEF IndexFidele
      <4>3. QED
        BY <4>1, <4>2
    <3>3. QED
      BY <3>1, <3>2
  <2>9. QED
    BY <2>7, <2>8 DEF TInv
<1>6. QED
  BY <1>4, <1>5

(* Whatever else is called leaves the rows and their index alone, or drops   *)
(* them all.                                                                *)
LEMMA TInvPas == TInv /\ [Next]_vars => TInv'
<1> SUFFICES ASSUME TInv, [Next]_vars PROVE TInv'
  OBVIOUS
<1>1. TType /\ IndexFidele
  BY DEF TInv
<1>2. ASSUME lignes' = lignes, index' = index, scelles' \in SUBSET Cles,
             pc' \in [Fils -> {"libre", "diffuser"}], DOMAIN rendu' = Fils
      PROVE  TInv'
  BY <1>1, <1>2 DEF TInv, TType, IndexFidele
<1>3. ASSUME NEW f \in Fils, NEW o \in Appels, Sceller(f, o)
      PROVE  TInv'
  BY <1>1, <1>2, <1>3 DEF Sceller, Scellements, Rendre, TType
<1>4. ASSUME NEW f \in Fils, NEW o \in Appels, Lire(f, o)
      PROVE  TInv'
  BY <1>1, <1>2, <1>4 DEF Lire, Rendre, TType
<1>5. ASSUME NEW f \in Fils, NEW o \in Appels, Vider(f, o)
      PROVE  TInv'
  <2>1. /\ lignes' = [k \in Cles |-> [e \in Entites |-> Sans]]
        /\ index' = [k \in Cles |-> <<>>] /\ scelles' = {} /\ pc' = pc /\ rendu' = rendu
    BY <1>5 DEF Vider
  <2>2. TType'
    BY <1>1, <2>1 DEF TType
  <2>3. IndexFidele'
    BY <2>1 DEF IndexFidele, IsInjective, Range
  <2>4. QED
    BY <2>2, <2>3 DEF TInv
<1>6. ASSUME NEW f \in Fils, Diffuser(f)
      PROVE  TInv'
  BY <1>1, <1>2, <1>6 DEF Diffuser, Rendre, TType
<1>7. CASE UNCHANGED vars
  BY <1>1, <1>2, <1>7 DEF vars, TType
<1>8. QED
  BY <1>3, <1>4, <1>5, <1>6, <1>7, TInvEcrire DEF Next

(* A step of both stores is one of the row store, or none.                  *)
LEMMA JumeauxTemoin == JSpec => Spec
<1>1. JInit => Init
  BY DEF JInit
<1>2. [JNext]_jvars => [Next]_vars
  BY DEF JNext, AppelerLesDeux, Next, jvars
<1>3. QED
  BY <1>1, <1>2, PTL DEF JSpec, Spec

LEMMA TInvariant == Spec => []TInv
BY TInvInit, TInvPas, PTL DEF Spec

(* The index of a key names each entity that has a row under it, once       *)
(* (naive.rs:16-20, 62-77, 102-106).                                        *)
THEOREM IndexEstFidele == Spec => []IndexFidele
BY TInvariant, PTL DEF TInv

-----------------------------------------------------------------------------
(* The contract.  An answer stands for the answer by content, a key for the *)
(* register its rows make; nothing expires.                                 *)

LEMMA ContratCles == Contrat!Cles = Cles
BY DEF Contrat!Cles, Cles

LEMMA RegistresStables ==
  ASSUME lignes' = lignes, index' = index, scelles' = scelles
  PROVE  Registres' = Registres
BY DEF Registres, Registre

LEMMA RegistreDeCle ==
  ASSUME NEW k \in Cles
  PROVE  /\ Registres[k] = Registre(k) /\ Registres[k].contenu = lignes[k]
         /\ Registres[k].etat = IF k \in scelles THEN "Scelle"
                                ELSE IF index[k] = <<>> THEN "Vierge" ELSE "Ouvert"
<1>1. Registres[k] = Registre(k)
  BY DEF Registres
<1>2. QED
  BY <1>1 DEF Registre

LEMMA RepondreFil ==
  ASSUME TInv, NEW f \in Fils, NEW r, Rendre(f, r)
  PROVE  Contrat!Repondre(f, Reponse(r))
<1>1. \A g \in Fils : rendu'[g] = IF g = f THEN r ELSE rendu[g]
  BY DEF TInv, TType, Rendre
<1>2. Reponses' = [g \in Fils |-> Reponse(rendu'[g])]
  BY DEF Reponses, Reponse, Contenu
<1>3. \A g \in Fils : Reponse(rendu'[g]) = IF g = f THEN Reponse(r) ELSE Reponse(rendu[g])
  BY <1>1
<1>4. /\ [Reponses EXCEPT ![f] = Reponse(r)]
           = [g \in Fils |-> IF g = f THEN Reponse(r) ELSE Reponses[g]]
      /\ \A g \in Fils : Reponses[g] = Reponse(rendu[g])
  BY DEF Reponses
<1>5. Reponses' = [Reponses EXCEPT ![f] = Reponse(r)]
  BY <1>2, <1>3, <1>4
<1>6. QED
  BY <1>5 DEF Contrat!Repondre

(* A register that changes alone costs no other.                            *)
LEMMA UtiliserSeul ==
  ASSUME NEW k \in Cles, NEW n,
         \A a \in Cles : Registre(a)' = IF a = k THEN n ELSE Registre(a)
  PROVE  Contrat!Utiliser(k, n)
<1>1. Registres' = [a \in Cles |-> Registre(a)']
  BY DEF Registres, Registre
<1>2. \A a \in Cles : Registres[a] = Registre(a)
  BY DEF Registres
<1>3. Registres' = [a \in Cles |-> IF a = k THEN n ELSE IF a \in {} THEN Contrat!Expiree
                                   ELSE Registres[a]]
  BY <1>1, <1>2
<1>4. {} \in SUBSET Contrat!Perimables(k)
  OBVIOUS
<1>5. QED
  BY <1>3, <1>4, ContratCles DEF Contrat!Utiliser

LEMMA EcrireContrat ==
  ASSUME TInv, TInv', NEW f \in Fils, NEW o \in Appels, Ecrire(f, o)
  PROVE  \E k \in Cles : \/ \E e \in Entites, p \in Poses : Contrat!Accepter(f, k, e, p)
                         \/ Contrat!Refuser(f, k)
<1> DEFINE k == o.cle
           e == o.entite
           r == [nature |-> "ecrire", cle |-> k, ok |-> k \notin scelles]
<1>1. k \in Cles /\ e \in Entites /\ o.pose \in Poses /\ o.pose # Sans
  BY PosesAssumption DEF Ecrire, Ecritures
<1>2. Rendre(f, r) /\ Reponse(r) = r
  BY DEF Ecrire, Reponse
<1>3. Contrat!Repondre(f, r)
  <2> HIDE DEF r
  <2>1. QED
    BY <1>2, RepondreFil
<1>4. CASE k \in scelles
  <2>1. Registres' = Registres
    BY <1>4, RegistresStables DEF Ecrire
  <2>2. Registres[k].etat = "Scelle"
    BY <1>1, <1>4, RegistreDeCle
  <2>3. Contrat!Refuser(f, k)
    BY <1>3, <1>4, <2>1, <2>2 DEF Contrat!Refuser
  <2>4. QED
    BY <1>1, <2>3
<1>5. CASE k \notin scelles
  <2> DEFINE n == [etat |-> "Ouvert", contenu |-> [Registres[k].contenu EXCEPT ![e] = o.pose]]
  <2>1. /\ lignes' = [lignes EXCEPT ![k] = [lignes[k] EXCEPT ![e] = o.pose]]
        /\ index' = IF lignes[k][e] = Sans THEN [index EXCEPT ![k] = Append(index[k], e)] ELSE index
        /\ scelles' = scelles
    BY <1>5 DEF Ecrire
  <2>2. TType /\ lignes[k] \in [Entites -> Poses \cup {Sans}] /\ index[k] \in Seq(Entites)
    BY <1>1, IndexDe DEF TInv
  <2>3. lignes'[k] = [lignes[k] EXCEPT ![e] = o.pose]
    BY <1>1, <2>1, <2>2 DEF TType
  <2>4. index'[k] # <<>>
    <3>1. lignes'[k][e] # Sans
      BY <1>1, <2>2, <2>3
    <3>2. Range(index'[k]) = {b \in Entites : lignes'[k][b] # Sans}
      BY <1>1 DEF TInv, IndexFidele
    <3>3. e \in Range(index'[k])
      BY <1>1, <3>1, <3>2
    <3>4. QED
      BY <3>3 DEF Range
  <2>5. \A a \in Cles : a # k => lignes'[a] = lignes[a] /\ index'[a] = index[a]
    BY <1>1, <2>1, <2>2 DEF TType
  <2>6. \A a \in Cles : Registre(a)' = IF a = k THEN n ELSE Registre(a)
    <3> SUFFICES ASSUME NEW a \in Cles
                 PROVE  Registre(a)' = IF a = k THEN n ELSE Registre(a)
      OBVIOUS
    <3>1. CASE a = k
      <4>1. Registre(k)' = [etat |-> "Ouvert", contenu |-> lignes'[k]]
        BY <1>5, <2>1, <2>4 DEF Registre
      <4>2. n = [etat |-> "Ouvert", contenu |-> lignes'[k]]
        BY <1>1, <2>3, RegistreDeCle
      <4>3. QED
        BY <3>1, <4>1, <4>2
    <3>2. CASE a # k
      BY <2>1, <2>5, <3>2 DEF Registre
    <3>3. QED
      BY <3>1, <3>2
  <2>7. Contrat!Utiliser(k, n)
    <3> HIDE DEF n
    <3>1. QED
      BY <1>1, <2>6, UtiliserSeul
  <2>8. Registres[k].etat \in {"Vierge", "Ouvert"}
    BY <1>1, <1>5, RegistreDeCle
  <2>9. Contrat!Accepter(f, k, e, o.pose)
    BY <1>3, <1>5, <2>7, <2>8 DEF Contrat!Accepter
  <2>10. QED
    BY <1>1, <2>9
<1>6. QED
  BY <1>4, <1>5

LEMMA ScellerContrat ==
  ASSUME TInv, NEW f \in Fils, NEW o \in Appels, Sceller(f, o)
  PROVE  \E k \in Cles : Contrat!Sceller(f, k)
<1> DEFINE k == o.cle
           r == [nature |-> "sceller", cle |-> k, contenu |-> Assembler(k)]
           n == [Registres[k] EXCEPT !.etat = "Scelle"]
<1>1. k \in Cles
  BY DEF Sceller, Scellements
<1>2. Rendre(f, r)
  BY DEF Sceller
<1>3. Reponse(r) = [nature |-> "sceller", cle |-> k, contenu |-> Registres[k].contenu]
  <2>1. Reponse(r) = [nature |-> "sceller", cle |-> k, contenu |-> Contenu(Assembler(k))]
    BY DEF Reponse
  <2>2. QED
    BY <1>1, <2>1, AssemblerContenu, RegistreDeCle
<1>4. Contrat!Repondre(f, Reponse(r))
  <2> HIDE DEF r
  <2>1. QED
    BY <1>2, RepondreFil
<1>5. Registres[k].etat # "Expire"
  BY <1>1, RegistreDeCle
<1>6. \A a \in Cles : Registre(a)' = IF a = k THEN n ELSE Registre(a)
  <2>1. lignes' = lignes /\ index' = index /\ scelles' = scelles \cup {k}
    BY DEF Sceller
  <2>2. n = [etat |-> "Scelle", contenu |-> lignes[k]]
    <3>1. Registres[k] = [etat |-> Registres[k].etat, contenu |-> lignes[k]]
      BY <1>1, RegistreDeCle DEF Registre
    <3> DEFINE x == Registres[k]
               y == lignes[k]
    <3> HIDE DEF x, y, k
    <3>2. x = [etat |-> x.etat, contenu |-> y]
      BY <3>1 DEF x, y
    <3>3. [x EXCEPT !.etat = "Scelle"] = [etat |-> "Scelle", contenu |-> y]
      BY <3>2
    <3>4. QED
      BY <3>3 DEF x, y
  <2>3. QED
    BY <2>1, <2>2 DEF Registre
<1>7. Contrat!Utiliser(k, n)
  <2> HIDE DEF n
  <2>1. QED
    BY <1>1, <1>6, UtiliserSeul
<1>8. Contrat!Sceller(f, k)
  BY <1>3, <1>4, <1>5, <1>7 DEF Contrat!Sceller
<1>9. QED
  BY <1>1, <1>8

LEMMA DiffuserContrat ==
  ASSUME TInv, NEW f \in Fils, Diffuser(f)
  PROVE  Contrat!Oublier(f)
<1>1. Reponse(Aucun) = Contrat!Aucun
  BY DEF Reponse, Aucun, Contrat!Aucun
<1>2. Rendre(f, Aucun) /\ Registres' = Registres
  BY RegistresStables DEF Diffuser
<1>3. QED
  BY <1>1, <1>2, RepondreFil DEF Contrat!Oublier

(* The elements of s that are in V.                                         *)
Trouves(s, V, q) ==
  /\ DOMAIN q = 1..Len(q)
  /\ \A n \in 1..Len(q) : q[n] \in Cellules /\ q[n] \in V /\ q[n] \in Range(s)
  /\ \A c \in Range(s) : c \in V => \E n \in 1..Len(q) : q[n] = c

LEMMA TrouvesDe ==
  ASSUME NEW s \in Seq(Cellules), NEW V
  PROVE  Trouves(s, V, Extraire(s, {i \in DOMAIN s : s[i] \in V}))
<1> DEFINE P == {i \in DOMAIN s : s[i] \in V}
           q == Extraire(s, P)
<1>1. P \in SUBSET (1..Len(s)) /\ DOMAIN s = 1..Len(s)
  OBVIOUS
<1>2. \A i \in P : s[i] \in V /\ s[i] \in Cellules /\ s[i] \in Range(s)
  BY DEF Range
<1>3. \A c \in Range(s) : c \in V => \E i \in P : s[i] = c
  BY DEF Range
<1> HIDE DEF P
<1>4. q \in Seq(Cellules)
  BY <1>1, ExtraireType
<1>5. PICK u : Extrait(s, P, u)
  BY <1>1, ExtraireOrdre
<1>6. /\ \A n \in 1..Len(q) : u[n] \in P /\ q[n] = s[u[n]]
      /\ \A i \in P : \E n \in 1..Len(q) : u[n] = i
  BY <1>5 DEF Extrait
<1> HIDE DEF q
<1>7. DOMAIN q = 1..Len(q)
  BY <1>4
<1>8. \A n \in 1..Len(q) : q[n] \in Cellules /\ q[n] \in V /\ q[n] \in Range(s)
  BY <1>2, <1>6
<1>9. \A c \in Range(s) : c \in V => \E n \in 1..Len(q) : q[n] = c
  <2> SUFFICES ASSUME NEW c \in Range(s), c \in V PROVE \E n \in 1..Len(q) : q[n] = c
    OBVIOUS
  <2>1. PICK i \in P : s[i] = c
    BY <1>3
  <2>2. PICK n \in 1..Len(q) : u[n] = i
    BY <1>6
  <2>3. QED
    BY <1>6, <2>1, <2>2
<1>10. QED
  BY <1>7, <1>8, <1>9 DEF q, P, Trouves

LEMMA LireContrat ==
  ASSUME TInv, NEW f \in Fils, NEW o \in Appels, Lire(f, o)
  PROVE  \E r \in Salles, C \in SUBSET Cellules, t \in Ticks :
           Contrat!Regarder(f, [salle : {r}, cellule : C, tick : {t}])
<1> DEFINE Lue(c) == [salle |-> o.salle, cellule |-> c, tick |-> o.tick]
           V == {c \in Cellules : Lue(c) \in scelles}
           s == o.cellules
           q == Extraire(s, {i \in DOMAIN s : s[i] \in V})
           C == Range(s)
           K == [salle : {o.salle}, cellule : C, tick : {o.tick}]
           lus == [i \in DOMAIN q |-> [cle |-> Lue(q[i]), contenu |-> Assembler(Lue(q[i]))]]
           r == [nature |-> "lire", lus |-> lus]
           vus == {[cle |-> k, contenu |-> Registres[k].contenu] :
                     k \in {c \in K : Registres[c].etat = "Scelle"}}
<1>1. o.salle \in Salles /\ s \in Seq(Cellules) /\ o.tick \in Ticks
  BY DEF Lire, Lectures
<1>2. C \in SUBSET Cellules
  BY <1>1 DEF Range
<1>3. Rendre(f, r)
  <2>1. {i \in DOMAIN s : s[i] \in V} = {i \in DOMAIN s : Lue(s[i]) \in scelles}
    BY <1>1
  <2>2. QED
    BY <2>1 DEF Lire
<1>4. \A c \in Cellules : Lue(c) \in Cles
  BY <1>1 DEF Cles
<1>5. /\ DOMAIN q = 1..Len(q)
      /\ \A n \in 1..Len(q) : q[n] \in Cellules /\ q[n] \in V /\ q[n] \in C
      /\ \A c \in C : c \in V => \E n \in 1..Len(q) : q[n] = c
  <2> HIDE DEF V, s
  <2>1. Trouves(s, V, q)
    BY <1>1, TrouvesDe
  <2> HIDE DEF q
  <2>2. QED
    BY <2>1 DEF Trouves
<1> HIDE DEF q
<1>6. \A c \in Cellules : Contenu(Assembler(Lue(c))) = Registres[Lue(c)].contenu
  BY <1>4, AssemblerContenu, RegistreDeCle
<1>7. \A c \in Cellules : c \in V <=> Registres[Lue(c)].etat = "Scelle"
  BY <1>4, RegistreDeCle
<1>8. /\ \A c \in C : Lue(c) \in K
      /\ \A k \in K : k.cellule \in C /\ k = Lue(k.cellule)
  <2> HIDE DEF C
  <2>1. QED
    OBVIOUS
<1>9. Reponse(r) = [nature |-> "lire",
                    lus |-> {[cle |-> lus[i].cle, contenu |-> Contenu(lus[i].contenu)] :
                               i \in DOMAIN lus}]
  <2> HIDE DEF lus
  <2>1. QED
    BY DEF Reponse
<1>10. {[cle |-> lus[i].cle, contenu |-> Contenu(lus[i].contenu)] : i \in DOMAIN lus}
         = {[cle |-> Lue(q[i]), contenu |-> Registres[Lue(q[i])].contenu] : i \in 1..Len(q)}
  BY <1>5, <1>6
<1>11. {[cle |-> Lue(q[i]), contenu |-> Registres[Lue(q[i])].contenu] : i \in 1..Len(q)} = vus
  <2> DEFINE A(k) == [cle |-> k, contenu |-> Registres[k].contenu]
             W == {c \in K : Registres[c].etat = "Scelle"}
  <2>1. \A i \in 1..Len(q) : Lue(q[i]) \in W
    BY <1>5, <1>7, <1>8
  <2>2. ASSUME NEW k \in W
        PROVE  \E i \in 1..Len(q) : Lue(q[i]) = k
    <3>1. k.cellule \in C /\ k = Lue(k.cellule) /\ Registres[k].etat = "Scelle"
      BY <1>8
    <3>2. k.cellule \in V
      BY <1>2, <1>7, <3>1
    <3>3. PICK i \in 1..Len(q) : q[i] = k.cellule
      BY <1>5, <3>1, <3>2
    <3>4. QED
      BY <3>1, <3>3
  <2>3. vus = {A(k) : k \in W}
    OBVIOUS
  <2>4. {A(Lue(q[i])) : i \in 1..Len(q)} = {A(k) : k \in W}
    <3> HIDE DEF A, W, Lue
    <3>1. QED
      BY <2>1, <2>2
  <2>5. QED
    BY <2>3, <2>4
<1>12. Reponse(r) = [nature |-> "lire", lus |-> {} \cup vus]
  BY <1>9, <1>10, <1>11
<1>13. Contrat!Repondre(f, Reponse(r)) /\ Registres' = Registres
  <2> HIDE DEF r
  <2>1. QED
    BY <1>3, RepondreFil, RegistresStables DEF Lire
<1>14. Contrat!Regarder(f, K)
  <2> HIDE DEF K, r
  <2>1. QED
    BY <1>12, <1>13 DEF Contrat!Regarder
<1>15. QED
  BY <1>1, <1>2, <1>14

LEMMA ViderContrat ==
  ASSUME TInv, NEW f \in Fils, NEW o \in Appels, Vider(f, o)
  PROVE  Contrat!Vider(Salles \X Cellules)
<1>1. /\ lignes' = [k \in Cles |-> [e \in Entites |-> Sans]]
      /\ index' = [k \in Cles |-> <<>>] /\ scelles' = {} /\ rendu' = rendu
  BY DEF Vider
<1>2. ASSUME NEW k \in Cles
      PROVE  Registre(k)' = Contrat!Vierge /\ <<k.salle, k.cellule>> \in Salles \X Cellules
  BY <1>1 DEF Registre, Contrat!Vierge, Contrat!Rien, Cles
<1>3. Registres' = [k \in Cles |-> Registre(k)']
  BY DEF Registres, Registre
<1>4. Reponses' = Reponses
  BY <1>1 DEF Reponses, Reponse, Contenu
<1>5. QED
  BY <1>2, <1>3, <1>4, ContratCles DEF Contrat!Vider

LEMMA ContratInit == Init => Contrat!Init
<1> SUFFICES ASSUME Init PROVE Contrat!Init
  OBVIOUS
<1>1. \A k \in Cles : Registre(k) = Contrat!Vierge
  BY DEF Init, Registre, Contrat!Vierge, Contrat!Rien
<1>2. \A f \in Fils : Reponse(rendu[f]) = Contrat!Aucun
  BY DEF Init, Reponse, Aucun, Contrat!Aucun
<1>3. QED
  BY <1>1, <1>2, ContratCles DEF Contrat!Init, Registres, Reponses

LEMMA ContratPas == TInv /\ TInv' /\ [Next]_vars => [Contrat!Next]_(Contrat!vars)
<1> SUFFICES ASSUME TInv, TInv', [Next]_vars
             PROVE  Contrat!Next \/ UNCHANGED Contrat!vars
  OBVIOUS
<1>1. ASSUME NEW f \in Fils, NEW o \in Appels, Ecrire(f, o)
      PROVE  Contrat!Next
  BY <1>1, EcrireContrat, ContratCles DEF Contrat!Next
<1>2. ASSUME NEW f \in Fils, NEW o \in Appels, Sceller(f, o)
      PROVE  Contrat!Next
  BY <1>2, ScellerContrat, ContratCles DEF Contrat!Next
<1>3. ASSUME NEW f \in Fils, NEW o \in Appels, Lire(f, o)
      PROVE  Contrat!Next
  BY <1>3, LireContrat DEF Contrat!Next
<1>4. ASSUME NEW f \in Fils, NEW o \in Appels, Vider(f, o)
      PROVE  Contrat!Next
  BY <1>4, ViderContrat DEF Contrat!Next
<1>5. ASSUME NEW f \in Fils, Diffuser(f)
      PROVE  Contrat!Next
  BY <1>5, DiffuserContrat DEF Contrat!Next
<1>6. CASE UNCHANGED vars
  BY <1>6 DEF vars, Contrat!vars, Registres, Registre, Reponses, Reponse, Contenu
<1>7. QED
  BY <1>1, <1>2, <1>3, <1>4, <1>5, <1>6 DEF Next

(* The row store keeps the contract the engine keeps, and forgets nothing    *)
(* (store.rs:19-46, naive.rs:9-13): each step is one of the abstract store,  *)
(* or none.                                                                 *)
THEOREM TemoinRespecteContrat == Spec => RespecteContrat
BY TInvariant, ContratInit, ContratPas, PTL DEF Spec, RespecteContrat, Contrat!Spec

-----------------------------------------------------------------------------
(* The test double.  Its modules are instances of their own: their          *)
(* operators are those of this module.                                      *)

LEMMA CardinalityDouble ==
  ASSUME NEW A
  PROVE  S!Cardinality(A) = Cardinality(A)
BY DEF S!Cardinality, Cardinality

LEMMA ExtraireDouble ==
  ASSUME NEW s, NEW I
  PROVE  S!Extraire(s, I) = Extraire(s, I)
BY DEF S!Extraire, Extraire, S!Cardinality, Cardinality

LEMMA InsererDouble ==
  ASSUME NEW j, NEW e, NEW p
  PROVE  LET c == Cardinality({i \in DOMAIN j : j[i].entite < e})
             x == [entite |-> e, pose |-> p]
         IN  S!Inserer(j, e, p) = IF \E i \in DOMAIN j : j[i].entite = e
                                  THEN [j EXCEPT ![c + 1] = x] ELSE InsertAt(j, c + 1, x)
<1>1. \A i, x : S!InsertAt(j, i, x) = InsertAt(j, i, x)
  BY DEF S!InsertAt, InsertAt
<1>2. QED
  BY <1>1, CardinalityDouble DEF S!Inserer

(* A list in entity order is searched by how many of its entities come      *)
(* before.                                                                  *)

LEMMA AvantPrefixe ==
  ASSUME NEW j \in Seq(Lignes), StrictementTrie(j), NEW e \in Entites
  PROVE  LET c == Cardinality({i \in DOMAIN j : j[i].entite < e})
         IN  /\ c \in 0..Len(j)
             /\ \A i \in 1..Len(j) : j[i].entite < e <=> i <= c
<1> DEFINE A == {i \in DOMAIN j : j[i].entite < e}
           n == Len(j)
<1>1. /\ DOMAIN j = 1..n /\ n \in Nat /\ e \in Nat
      /\ \A i \in 1..n : j[i].entite \in Nat
      /\ \A i, k \in 1..n : i < k => j[i].entite < j[k].entite
  <2>1. \A i \in 1..n : j[i].entite \in Nat
    BY RepresenteType
  <2>2. DOMAIN j = 1..n /\ n \in Nat /\ e \in Nat
    BY OrdreAssumption
  <2>3. QED
    BY <2>1, <2>2 DEF StrictementTrie
<1>2. A \in SUBSET (1..n) /\ \A i \in 1..n : i \in A <=> j[i].entite < e
  BY <1>1
<1> HIDE DEF A, n
<1>3. ASSUME NEW d \in 0..n, A = 1..d
      PROVE  /\ Cardinality(A) \in 0..n
             /\ \A i \in 1..n : j[i].entite < e <=> i <= Cardinality(A)
  <2>1. Cardinality(1..d) = d
    BY <1>1, FS_Interval
  <2>2. \A i \in 1..n : i \in 1..d <=> i <= d
    BY <1>1
  <2>3. QED
    BY <1>2, <1>3, <2>1, <2>2
<1>4. CASE A = {}
  <2>1. A = 1..0 /\ 0 \in 0..n
    BY <1>1, <1>4
  <2>2. QED
    BY <1>3, <2>1 DEF A, n
<1>5. CASE A # {}
  <2>1. PICK d \in A : \A b \in A : b <= d
    BY <1>1, <1>2, <1>5, Dernier
  <2>2. d \in 1..n /\ j[d].entite < e
    BY <1>2
  <2>3. ASSUME NEW i \in 1..n
        PROVE  i \in A <=> i <= d
    <3>1. ASSUME i < d PROVE j[i].entite < e
      BY <1>1, <2>2, <3>1
    <3>2. QED
      BY <1>1, <1>2, <2>1, <2>2, <3>1
  <2>4. A = 1..d /\ d \in 0..n
    <3>1. d \in Nat /\ d <= n /\ \A i \in 1..d : i \in 1..n /\ i <= d
      BY <1>1, <2>2
    <3>2. \A i \in A : i \in 1..n /\ i <= d
      BY <1>2, <2>3
    <3>3. 1..d \subseteq A
      BY <2>3, <3>1
    <3>4. A \subseteq 1..d
      BY <3>1, <3>2
    <3>5. A = 1..d
      BY <3>3, <3>4
    <3>6. QED
      BY <1>1, <3>1, <3>5
  <2>5. QED
    BY <1>3, <2>4 DEF A, n
<1>6. QED
  BY <1>4, <1>5

(* r is j with x after its first c entries: what InsertAt returns.          *)
Insere(j, c, x, r) ==
  /\ Len(r) = Len(j) + 1 /\ r[c + 1] = x
  /\ \A i \in 1..c : r[i] = j[i]
  /\ \A i \in (c + 1)..Len(j) : r[i + 1] = j[i]

LEMMA InsertAtEffet ==
  ASSUME NEW X, NEW j \in Seq(X), NEW c \in 0..Len(j), NEW x \in X
  PROVE  /\ InsertAt(j, c + 1, x) \in Seq(X)
         /\ Insere(j, c, x, InsertAt(j, c + 1, x))
<1> DEFINE n == Len(j)
           a == SubSeq(j, 1, c)
           b == SubSeq(j, c + 1, n)
           m == a \o <<x>>
           r == m \o b
<1>1. n \in Nat /\ c \in Nat /\ c <= n /\ \A i \in 1..n : j[i] \in X
  OBVIOUS
<1>2. InsertAt(j, c + 1, x) = r
  <2> DEFINE i == c + 1
  <2>1. i - 1 = c
    BY <1>1
  <2> HIDE DEF i
  <2>2. InsertAt(j, i, x) = SubSeq(j, 1, i - 1) \o <<x>> \o SubSeq(j, i, Len(j))
    BY DEF InsertAt
  <2>3. InsertAt(j, i, x) = SubSeq(j, 1, c) \o <<x>> \o SubSeq(j, i, Len(j))
    BY <2>1, <2>2
  <2>4. QED
    BY <2>3 DEF i
<1> HIDE DEF n
<1>3. a \in Seq(X) /\ Len(a) = c /\ \A i \in 1..c : a[i] = j[i]
  <2>1. /\ a \in Seq(X) /\ Len(a) = IF 1 <= c THEN c - 1 + 1 ELSE 0
        /\ \A i \in 1..(c - 1 + 1) : a[i] = j[1 + i - 1]
    BY <1>1, SubSeqProperties
  <2>2. QED
    BY <1>1, <2>1
<1>4. b \in Seq(X) /\ Len(b) = n - c /\ \A i \in 1..(n - c) : b[i] = j[c + i]
  <2>1. /\ b \in Seq(X) /\ Len(b) = IF c + 1 <= n THEN n - (c + 1) + 1 ELSE 0
        /\ \A i \in 1..(n - (c + 1) + 1) : b[i] = j[c + 1 + i - 1]
    BY <1>1, SubSeqProperties
  <2>2. QED
    BY <1>1, <2>1
<1> HIDE DEF a, b
<1>5. <<x>> \in Seq(X) /\ Len(<<x>>) = 1 /\ <<x>>[1] = x
  OBVIOUS
<1>6. /\ m \in Seq(X) /\ Len(m) = c + 1
      /\ \A i \in 1..(c + 1) : m[i] = IF i <= c THEN a[i] ELSE <<x>>[i - c]
  BY <1>1, <1>3, <1>5, ConcatProperties
<1> HIDE DEF m
<1>7. /\ r \in Seq(X) /\ Len(r) = Len(m) + Len(b)
      /\ \A i \in 1..(Len(m) + Len(b)) : r[i] = IF i <= Len(m) THEN m[i] ELSE b[i - Len(m)]
  BY <1>4, <1>6, ConcatProperties
<1> HIDE DEF r
<1>8. Len(r) = n + 1 /\ \A i \in 1..(n + 1) : r[i] = IF i <= c + 1 THEN m[i] ELSE b[i - (c + 1)]
  <2>1. Len(m) + Len(b) = n + 1 /\ Len(m) = c + 1
    BY <1>1, <1>4, <1>6
  <2>2. QED
    BY <1>7, <2>1
<1>9. r[c + 1] = x
  <2>1. r[c + 1] = m[c + 1] /\ m[c + 1] = <<x>>[1]
    BY <1>1, <1>6, <1>8
  <2>2. QED
    BY <1>5, <2>1
<1>10. ASSUME NEW i \in 1..c PROVE r[i] = j[i]
  BY <1>1, <1>3, <1>6, <1>8
<1>11. ASSUME NEW i \in (c + 1)..n PROVE r[i + 1] = j[i]
  <2>1. i + 1 \in 1..(n + 1) /\ ~(i + 1 <= c + 1) /\ i + 1 - (c + 1) = i - c
        /\ i - c \in 1..(n - c) /\ c + (i - c) = i
    BY <1>1
  <2>2. r[i + 1] = b[i - c]
    BY <1>8, <2>1
  <2>3. QED
    BY <1>4, <2>1, <2>2
<1>12. QED
  <2>1. Insere(j, c, x, r)
    BY <1>8, <1>9, <1>10, <1>11 DEF n, Insere
  <2>2. QED
    BY <1>2, <1>7, <2>1

(* Writing in the list writes in the rows it lists.                         *)
LEMMA InsererRepresente ==
  ASSUME NEW l \in [Entites -> Poses \cup {Sans}], NEW j, Represente(j, l),
         NEW e \in Entites, NEW p \in Poses
  PROVE  Represente(S!Inserer(j, e, p), [l EXCEPT ![e] = p])
<1> DEFINE n == Len(j)
           c == Cardinality({i \in DOMAIN j : j[i].entite < e})
           x == [entite |-> e, pose |-> p]
           r == S!Inserer(j, e, p)
           h == [l EXCEPT ![e] = p]
<1>1. /\ j \in Seq(Lignes) /\ StrictementTrie(j)
      /\ \A i \in 1..n : j[i].pose = l[j[i].entite]
      /\ \A a \in Entites : l[a] # Sans => \E i \in 1..n : j[i].entite = a
  BY DEF Represente
<1>2. /\ DOMAIN j = 1..n /\ n \in Nat /\ e \in Nat
      /\ \A i \in 1..n : j[i].entite \in Nat /\ j[i].entite \in Entites
      /\ \A i, k \in 1..n : i < k => j[i].entite < j[k].entite
  <2>1. \A i \in 1..n : j[i].entite \in Nat /\ j[i].entite \in Entites
    BY <1>1, RepresenteType
  <2>2. DOMAIN j = 1..n /\ n \in Nat /\ e \in Nat
    BY <1>1, OrdreAssumption
  <2>3. QED
    BY <1>1, <2>1, <2>2 DEF StrictementTrie
<1>3. c \in 0..n /\ \A i \in 1..n : j[i].entite < e <=> i <= c
  BY <1>1, AvantPrefixe
<1>4. x \in Lignes /\ x.entite = e /\ x.pose = p /\ e \in Entites
  BY DEF Lignes
<1>5. h[e] = p /\ p # Sans /\ \A a \in Entites : a # e => h[a] = l[a]
  BY PosesAssumption
<1>6. r = IF \E i \in DOMAIN j : j[i].entite = e
          THEN [j EXCEPT ![c + 1] = x] ELSE InsertAt(j, c + 1, x)
  BY InsererDouble
<1> HIDE DEF n, c, x, r, h
<1>7. CASE \E i \in 1..n : j[i].entite = e
  <2>1. PICK i \in 1..n : j[i].entite = e
    BY <1>7
  <2>2. i = c + 1
    <3>1. ~(i <= c)
      BY <1>2, <1>3, <2>1
    <3>2. ~(c + 1 < i)
      <4> SUFFICES ASSUME c + 1 < i PROVE FALSE
        OBVIOUS
      <4>1. c \in Nat /\ c + 1 \in 1..n /\ ~(c + 1 <= c)
        BY <1>2, <1>3
      <4>2. j[c + 1].entite < j[i].entite /\ ~(j[c + 1].entite < e)
        BY <1>2, <1>3, <4>1
      <4>3. QED
        BY <2>1, <4>2
    <3>3. QED
      BY <1>2, <1>3, <3>1, <3>2
  <2>3. r = [j EXCEPT ![i] = x]
    BY <1>2, <1>6, <1>7, <2>2
  <2>4. /\ r \in Seq(Lignes) /\ Len(r) = n
        /\ \A k \in 1..n : r[k] = IF k = i THEN x ELSE j[k]
    BY <1>1, <1>4, <2>3, ExceptSeq DEF n
  <2>5. \A k \in 1..n : r[k].entite = j[k].entite
    BY <1>4, <2>1, <2>4
  <2>6. StrictementTrie(r)
    BY <1>2, <2>4, <2>5 DEF StrictementTrie
  <2>7. ASSUME NEW k \in 1..n
        PROVE  r[k].pose = h[r[k].entite]
    <3>1. CASE k = i
      BY <1>4, <1>5, <2>4, <3>1
    <3>2. CASE k # i
      <4>1. j[k].entite # e
        <5>1. k < i \/ i < k
          BY <3>2
        <5>2. j[k].entite < j[i].entite \/ j[i].entite < j[k].entite
          BY <1>2, <5>1
        <5>3. QED
          BY <1>2, <2>1, <5>2
      <4>2. h[j[k].entite] = l[j[k].entite]
        BY <1>2, <1>5, <4>1
      <4>3. QED
        BY <1>1, <2>4, <3>2, <4>2 DEF n
    <3>3. QED
      BY <3>1, <3>2
  <2>8. ASSUME NEW a \in Entites, h[a] # Sans
        PROVE  \E k \in 1..n : r[k].entite = a
    <3>1. CASE a = e
      BY <2>1, <2>5, <3>1
    <3>2. CASE a # e
      BY <1>1, <1>5, <2>5, <2>8, <3>2 DEF n
    <3>3. QED
      BY <3>1, <3>2
  <2>9. QED
    BY <2>4, <2>6, <2>7, <2>8 DEF Represente, r, h
<1>8. CASE ~ \E i \in 1..n : j[i].entite = e
  <2>1. r = InsertAt(j, c + 1, x)
    BY <1>2, <1>6, <1>8
  <2>2. /\ r \in Seq(Lignes) /\ Len(r) = n + 1 /\ r[c + 1] = x
        /\ \A i \in 1..c : r[i] = j[i]
        /\ \A i \in (c + 1)..n : r[i + 1] = j[i]
    <3>1. c \in 0..Len(j)
      BY <1>3 DEF n
    <3>2. r \in Seq(Lignes) /\ Insere(j, c, x, r)
      BY <1>1, <1>4, <2>1, <3>1, InsertAtEffet
    <3>3. QED
      BY <3>2 DEF n, Insere
  <2>3. /\ \A i \in 1..c : i \in 1..n /\ j[i].entite < e
        /\ \A i \in (c + 1)..n : i \in 1..n /\ e < j[i].entite
    BY <1>2, <1>3, <1>8
  (* Where an entry of r comes from.                                        *)
  <2>4. ASSUME NEW k \in 1..(n + 1)
        PROVE  \/ k = c + 1
               \/ k \in 1..c /\ r[k] = j[k]
               \/ k - 1 \in (c + 1)..n /\ r[k] = j[k - 1]
    <3>1. k = c + 1 \/ k \in 1..c \/ (k - 1 \in (c + 1)..n /\ (k - 1) + 1 = k)
      BY <1>2, <1>3
    <3>2. QED
      BY <2>2, <3>1
  <2>5. ASSUME NEW i \in 1..(n + 1), NEW k \in 1..(n + 1), i < k
        PROVE  r[i].entite < r[k].entite
    <3> DEFINE ei == r[i].entite
               ek == r[k].entite
    <3>1. CASE i = c + 1
      <4>1. k - 1 \in (c + 1)..n /\ r[k] = j[k - 1]
        BY <1>2, <1>3, <2>4, <2>5, <3>1
      <4>2. QED
        BY <1>4, <2>2, <2>3, <3>1, <4>1
    <3>2. CASE i \in 1..c /\ r[i] = j[i]
      <4>1. CASE k = c + 1
        BY <1>4, <2>2, <2>3, <3>2, <4>1
      <4>2. CASE k \in 1..c /\ r[k] = j[k]
        BY <1>2, <2>3, <2>5, <3>2, <4>2
      <4>3. CASE k - 1 \in (c + 1)..n /\ r[k] = j[k - 1]
        <5>1. i < k - 1 /\ i \in 1..n /\ k - 1 \in 1..n
          BY <1>2, <1>3, <2>3, <3>2, <4>3
        <5>2. QED
          BY <1>2, <3>2, <4>3, <5>1
      <4>4. QED
        BY <2>4, <4>1, <4>2, <4>3
    <3>3. CASE i - 1 \in (c + 1)..n /\ r[i] = j[i - 1]
      <4>1. k - 1 \in (c + 1)..n /\ r[k] = j[k - 1]
        <5>1. k # c + 1 /\ k \notin 1..c
          BY <1>2, <1>3, <2>5, <3>3
        <5>2. QED
          BY <2>4, <5>1
      <4>2. i - 1 < k - 1 /\ i - 1 \in 1..n /\ k - 1 \in 1..n
        BY <2>3, <2>5, <3>3, <4>1
      <4>3. QED
        BY <1>2, <3>3, <4>1, <4>2
    <3>4. QED
      BY <2>4, <3>1, <3>2, <3>3
  <2>6. StrictementTrie(r)
    BY <2>2, <2>5 DEF StrictementTrie
  <2>7. ASSUME NEW i \in 1..n
        PROVE  j[i].pose = h[j[i].entite]
    <3>1. j[i].entite # e
      BY <1>8
    <3>2. QED
      BY <1>1, <1>2, <1>5, <3>1 DEF n
  <2>8. ASSUME NEW k \in 1..(n + 1)
        PROVE  r[k].pose = h[r[k].entite]
    <3>1. CASE k = c + 1
      BY <1>4, <1>5, <2>2, <3>1
    <3>2. CASE k \in 1..c /\ r[k] = j[k]
      BY <2>3, <2>7, <3>2
    <3>3. CASE k - 1 \in (c + 1)..n /\ r[k] = j[k - 1]
      BY <2>3, <2>7, <3>3
    <3>4. QED
      BY <2>4, <3>1, <3>2, <3>3
  <2>9. ASSUME NEW a \in Entites, h[a] # Sans
        PROVE  \E k \in 1..(n + 1) : r[k].entite = a
    <3>1. CASE a = e
      <4>1. c + 1 \in 1..(n + 1)
        BY <1>2, <1>3
      <4>2. QED
        BY <1>4, <2>2, <3>1, <4>1
    <3>2. CASE a # e
      <4>1. PICK i \in 1..n : j[i].entite = a
        BY <1>1, <1>5, <2>9, <3>2 DEF n
      <4>2. CASE i <= c
        <5>1. i \in 1..c /\ i \in 1..(n + 1)
          BY <1>2, <1>3, <4>2
        <5>2. QED
          BY <2>2, <4>1, <5>1
      <4>3. CASE ~(i <= c)
        <5>1. i \in (c + 1)..n /\ i + 1 \in 1..(n + 1)
          BY <1>2, <1>3, <4>3
        <5>2. QED
          BY <2>2, <4>1, <5>1
      <4>4. QED
        BY <4>2, <4>3
    <3>3. QED
      BY <3>1, <3>2
  <2>10. QED
    BY <2>2, <2>6, <2>8, <2>9 DEF Represente, r, h
<1>9. QED
  BY <1>7, <1>8

-----------------------------------------------------------------------------
(* The two stores given the same calls.                                     *)

(* They hold the same keys sealed, with the same content, the same rows     *)
(* open, and gave the same answers.                                         *)
Accord ==
  /\ DOMAIN ouverts = Cles /\ DOMAIN clos = Cles /\ DOMAIN renduDouble = Fils
  /\ \A k \in scelles : clos[k] = {Assembler(k)}
  /\ \A k \in Cles : k \notin scelles => clos[k] = {} /\ Represente(ouverts[k], lignes[k])
  /\ \A f \in Fils : rendu[f] # Aucun => renduDouble[f] = rendu[f]

Chronos == [cle : Cles, contenu : Seq(Lignes)]

(* What the observers were given.                                           *)
Suivi ==
  /\ canal  \in [Observateurs -> Seq(Chronos)]
  /\ livres \in [Observateurs -> Seq(Chronos)]
  /\ \A o \in Observateurs :
       /\ \A i \in 1..Len(livres[o]) : livres[o][i] \in S!ToutScelle
       /\ SansDoublon(livres[o])
  /\ \A o, a \in Observateurs : OrdreSuivi(livres[o], livres[a])

JInv == TInv /\ Accord /\ Suivi

(* What assembler returns depends on the rows and the index of its key.     *)
LEMMA AssemblerStable ==
  ASSUME NEW k, lignes'[k] = lignes[k], index'[k] = index[k]
  PROVE  Assembler(k)' = Assembler(k)
<1> DEFINE De(x, l) ==
             LET presents == Extraire(x, {i \in DOMAIN x : l[x[i]] # Sans})
             IN  TrierParEntite([i \in DOMAIN presents |->
                                   [entite |-> presents[i], pose |-> l[presents[i]]]])
<1>1. Assembler(k) = De(index[k], lignes[k]) /\ Assembler(k)' = De(index'[k], lignes'[k])
  BY DEF Assembler
<1> HIDE DEF De
<1>2. QED
  BY <1>1

LEMMA DoubleCles == S!Cles = Cles
BY DEF S!Cles, Cles

LEMMA Scelle ==
  ASSUME NEW c
  PROVE  c \in S!ToutScelle <=>
           \E k \in Cles : \E j \in clos[k] : c = [cle |-> k, contenu |-> j]
BY DoubleCles DEF S!ToutScelle

(* An open key has no sealed content, a sealed one has one.                 *)
LEMMA ScelleOuVide ==
  ASSUME Accord, NEW k \in Cles
  PROVE  clos[k] = {} <=> k \notin scelles
BY DEF Accord

LEMMA MemeReponse ==
  ASSUME Accord, TType, NEW f \in Fils, NEW r, Rendre(f, r), S!Rendre(f, r)
  PROVE  /\ DOMAIN renduDouble' = Fils
         /\ \A g \in Fils : rendu'[g] # Aucun => renduDouble'[g] = rendu'[g]
BY DEF Accord, TType, Rendre, S!Rendre

LEMMA AccordEcrire ==
  ASSUME TInv, Accord, NEW f \in Fils, NEW o \in Appels,
         Ecrire(f, o), S!Ecrire(f, o.cle, o.entite, o.pose)
  PROVE  Accord'
<1> DEFINE k == o.cle
<1>1. k \in Cles /\ o.entite \in Entites /\ o.pose \in Poses
  BY DEF Ecrire, Ecritures
<1>2. TType /\ lignes[k] \in [Entites -> Poses \cup {Sans}]
  BY <1>1, IndexDe DEF TInv
<1>3. scelles' = scelles /\ clos' = clos /\ (clos[k] = {} <=> k \notin scelles)
  BY <1>1, ScelleOuVide DEF Ecrire, S!Ecrire
<1>4. /\ DOMAIN renduDouble' = Fils
      /\ \A g \in Fils : rendu'[g] # Aucun => renduDouble'[g] = rendu'[g]
  <2> DEFINE r == [nature |-> "ecrire", cle |-> k, ok |-> k \notin scelles]
  <2>1. Rendre(f, r)
    BY DEF Ecrire
  <2>2. S!Rendre(f, [nature |-> "ecrire", cle |-> k, ok |-> clos[k] = {}])
    BY DEF S!Ecrire
  <2>3. (clos[k] = {}) = (k \notin scelles)
    BY <1>3
  <2>4. S!Rendre(f, r)
    BY <2>2, <2>3
  <2> HIDE DEF r
  <2>5. QED
    BY <1>2, <2>1, <2>4, MemeReponse
<1>5. CASE k \in scelles
  <2>1. lignes' = lignes /\ index' = index /\ ouverts' = ouverts
    BY <1>3, <1>5 DEF Ecrire, S!Ecrire
  <2>2. \A a \in Cles : Assembler(a)' = Assembler(a)
    BY <2>1, AssemblerStable
  <2>3. Accord' <=>
          /\ DOMAIN ouverts = Cles /\ DOMAIN clos = Cles /\ DOMAIN renduDouble' = Fils
          /\ \A a \in scelles : clos[a] = {Assembler(a)'}
          /\ \A a \in Cles : a \notin scelles => clos[a] = {} /\ Represente(ouverts[a], lignes[a])
          /\ \A g \in Fils : rendu'[g] # Aucun => renduDouble'[g] = rendu'[g]
    BY <1>3, <2>1 DEF Accord, Represente
  <2>4. scelles \subseteq Cles
    BY <1>2 DEF TType
  <2>5. QED
    BY <1>4, <2>2, <2>3, <2>4 DEF Accord
<1>6. CASE k \notin scelles
  <2> DEFINE j == S!Inserer(ouverts[k], o.entite, o.pose)
  <2>1. /\ lignes' = [lignes EXCEPT ![k] = [lignes[k] EXCEPT ![o.entite] = o.pose]]
        /\ index' = IF lignes[k][o.entite] = Sans
                    THEN [index EXCEPT ![k] = Append(index[k], o.entite)] ELSE index
        /\ ouverts' = [ouverts EXCEPT ![k] = j]
    BY <1>3, <1>6 DEF Ecrire, S!Ecrire
  <2>2. /\ \A a \in Cles : a # k => lignes'[a] = lignes[a] /\ index'[a] = index[a]
        /\ lignes'[k] = [lignes[k] EXCEPT ![o.entite] = o.pose]
    BY <1>1, <1>2, <2>1 DEF TType
  <2>3. /\ DOMAIN ouverts' = Cles /\ ouverts'[k] = j
        /\ \A a \in Cles : a # k => ouverts'[a] = ouverts[a]
    <3> HIDE DEF j
    <3>1. QED
      BY <1>1, <2>1 DEF Accord
  <2>4. Represente(ouverts'[k], lignes'[k])
    <3>1. Represente(ouverts[k], lignes[k])
      BY <1>1, <1>6 DEF Accord
    <3>2. QED
      BY <1>1, <1>2, <2>2, <2>3, <3>1, InsererRepresente
  <2>5. \A a \in Cles : a \notin scelles => clos[a] = {} /\ Represente(ouverts'[a], lignes'[a])
    <3> SUFFICES ASSUME NEW a \in Cles, a \notin scelles
                 PROVE  clos[a] = {} /\ Represente(ouverts'[a], lignes'[a])
      OBVIOUS
    <3>1. clos[a] = {} /\ Represente(ouverts[a], lignes[a])
      BY DEF Accord
    <3>2. CASE a = k
      BY <2>4, <3>1, <3>2
    <3>3. CASE a # k
      BY <2>2, <2>3, <3>1, <3>3
    <3>4. QED
      BY <3>2, <3>3
  <2>6. \A a \in scelles : clos[a] = {Assembler(a)'}
    <3> SUFFICES ASSUME NEW a \in scelles PROVE clos[a] = {Assembler(a)'}
      OBVIOUS
    <3>1. a \in Cles /\ a # k
      BY <1>2, <1>6 DEF TType
    <3>2. Assembler(a)' = Assembler(a)
      BY <2>2, <3>1, AssemblerStable
    <3>3. QED
      BY <3>2 DEF Accord
  <2>7. DOMAIN clos' = Cles
    BY <1>3 DEF Accord
  <2>8. Accord' <=>
          /\ DOMAIN ouverts' = Cles /\ DOMAIN clos' = Cles /\ DOMAIN renduDouble' = Fils
          /\ \A a \in scelles : clos[a] = {Assembler(a)'}
          /\ \A a \in Cles : a \notin scelles => clos[a] = {} /\ Represente(ouverts'[a], lignes'[a])
          /\ \A g \in Fils : rendu'[g] # Aucun => renduDouble'[g] = rendu'[g]
    BY <1>3 DEF Accord, Represente
  <2>9. QED
    BY <1>4, <2>3, <2>5, <2>6, <2>7, <2>8
<1>7. QED
  BY <1>5, <1>6

(* A step that touches no row and no open chronotope.                       *)
LEMMA AccordStable ==
  ASSUME TInv, Accord, lignes' = lignes, index' = index, scelles' = scelles,
         ouverts' = ouverts, clos' = clos, DOMAIN renduDouble' = Fils,
         \A f \in Fils : rendu'[f] # Aucun => renduDouble'[f] = rendu'[f]
  PROVE  Accord'
<1>1. \A k \in Cles : Assembler(k)' = Assembler(k)
  BY AssemblerStable
<1>2. scelles \subseteq Cles
  BY DEF TInv, TType
<1>3. Accord' <=>
        /\ DOMAIN ouverts = Cles /\ DOMAIN clos = Cles /\ DOMAIN renduDouble' = Fils
        /\ \A a \in scelles : clos[a] = {Assembler(a)'}
        /\ \A a \in Cles : a \notin scelles => clos[a] = {} /\ Represente(ouverts[a], lignes[a])
        /\ \A g \in Fils : rendu'[g] # Aucun => renduDouble'[g] = rendu'[g]
  BY DEF Accord, Represente
<1>4. QED
  BY <1>1, <1>2, <1>3 DEF Accord

LEMMA AccordSceller ==
  ASSUME TInv, Accord, NEW f \in Fils, NEW o \in Appels,
         Sceller(f, o), S!Sceller(f, o.cle)
  PROVE  Accord'
<1> DEFINE k == o.cle
           r == [nature |-> "sceller", cle |-> k, contenu |-> Assembler(k)]
<1>1. k \in Cles
  BY DEF Sceller, Scellements
<1>2. lignes' = lignes /\ index' = index /\ scelles' = scelles \cup {k} /\ Rendre(f, r)
  BY DEF Sceller
<1>3. TType /\ scelles \subseteq Cles
  BY DEF TInv, TType
<1>4. \A a \in Cles : Assembler(a)' = Assembler(a)
  BY <1>2, AssemblerStable
<1>5. ASSUME S!Rendre(f, r)
      PROVE  /\ DOMAIN renduDouble' = Fils
             /\ \A g \in Fils : rendu'[g] # Aucun => renduDouble'[g] = rendu'[g]
  <2> HIDE DEF r
  <2>1. QED
    BY <1>2, <1>3, <1>5, MemeReponse
<1>6. CASE clos[k] = {}
  <2>1. k \notin scelles
    BY <1>1, <1>6, ScelleOuVide
  <2>2. ouverts[k] = Assembler(k)
    <3>1. Represente(ouverts[k], lignes[k]) /\ Represente(Assembler(k), lignes[k])
      BY <1>1, <2>1, AssemblerRepresente DEF Accord
    <3>2. QED
      BY <3>1, RepresenteUnique
  <2>3. /\ ouverts' = [ouverts EXCEPT ![k] = <<>>] /\ clos' = [clos EXCEPT ![k] = {ouverts[k]}]
        /\ S!Rendre(f, [nature |-> "sceller", cle |-> k, contenu |-> ouverts[k]])
    BY <1>6 DEF S!Sceller
  <2>4. S!Rendre(f, r)
    BY <2>2, <2>3
  <2>5. /\ DOMAIN ouverts' = Cles /\ DOMAIN clos' = Cles /\ clos'[k] = {Assembler(k)}
        /\ \A a \in Cles : a # k => ouverts'[a] = ouverts[a] /\ clos'[a] = clos[a]
    BY <1>1, <2>2, <2>3 DEF Accord
  <2>6. \A a \in scelles' : clos'[a] = {Assembler(a)'}
    <3> SUFFICES ASSUME NEW a \in scelles' PROVE clos'[a] = {Assembler(a)'}
      OBVIOUS
    <3>1. a \in Cles /\ (a = k \/ (a # k /\ a \in scelles))
      BY <1>1, <1>2, <1>3, <2>1
    <3>2. Assembler(a)' = Assembler(a)
      BY <1>4, <3>1
    <3>3. CASE a = k
      BY <2>5, <3>2, <3>3
    <3>4. CASE a # k /\ a \in scelles
      BY <2>5, <3>1, <3>2, <3>4 DEF Accord
    <3>5. QED
      BY <3>1, <3>3, <3>4
  <2>7. \A a \in Cles : a \notin scelles' => clos'[a] = {} /\ Represente(ouverts'[a], lignes'[a])
    <3> SUFFICES ASSUME NEW a \in Cles, a \notin scelles'
                 PROVE  clos'[a] = {} /\ Represente(ouverts'[a], lignes'[a])
      OBVIOUS
    <3>1. a # k /\ a \notin scelles
      BY <1>2
    <3>2. clos[a] = {} /\ Represente(ouverts[a], lignes[a])
      BY <3>1 DEF Accord
    <3>3. clos'[a] = clos[a] /\ ouverts'[a] = ouverts[a] /\ lignes'[a] = lignes[a]
      BY <1>2, <2>5, <3>1
    <3>4. QED
      BY <3>2, <3>3
  <2>8. Accord' <=>
          /\ DOMAIN ouverts' = Cles /\ DOMAIN clos' = Cles /\ DOMAIN renduDouble' = Fils
          /\ \A a \in scelles' : clos'[a] = {Assembler(a)'}
          /\ \A a \in Cles : a \notin scelles' => clos'[a] = {} /\ Represente(ouverts'[a], lignes'[a])
          /\ \A g \in Fils : rendu'[g] # Aucun => renduDouble'[g] = rendu'[g]
    BY DEF Accord, Represente
  <2>9. QED
    BY <1>5, <2>4, <2>5, <2>6, <2>7, <2>8
<1>7. CASE clos[k] # {}
  <2>1. k \in scelles /\ clos[k] = {Assembler(k)}
    BY <1>1, <1>7, ScelleOuVide DEF Accord
  <2>2. /\ \E j \in clos[k] : S!Rendre(f, [nature |-> "sceller", cle |-> k, contenu |-> j])
        /\ ouverts' = ouverts /\ clos' = clos
    BY <1>7 DEF S!Sceller
  <2>3. S!Rendre(f, r)
    BY <2>1, <2>2
  <2>4. scelles' = scelles
    BY <1>2, <2>1
  <2> HIDE DEF k, r
  <2>5. QED
    BY <1>2, <1>5, <2>2, <2>3, <2>4, AccordStable
<1>8. QED
  BY <1>6, <1>7

LEMMA AccordLire ==
  ASSUME TInv, Accord, NEW f \in Fils, NEW o \in Appels,
         Lire(f, o), S!Lire(f, o.salle, o.cellules, o.tick)
  PROVE  Accord'
<1> DEFINE Lue(c) == [salle |-> o.salle, cellule |-> c, tick |-> o.tick]
           s == o.cellules
           P == {i \in DOMAIN s : Lue(s[i]) \in scelles}
           q == Extraire(s, P)
           r == [nature |-> "lire",
                 lus |-> [i \in DOMAIN q |-> [cle |-> Lue(q[i]), contenu |-> Assembler(Lue(q[i]))]]]
<1>1. o.salle \in Salles /\ s \in Seq(Cellules) /\ o.tick \in Ticks
  BY DEF Lire, Lectures
<1>2. \A c \in Cellules : Lue(c) \in Cles /\ (Lue(c) \in scelles <=> clos[Lue(c)] # {})
  <2>1. \A c \in Cellules : Lue(c) \in Cles
    BY <1>1 DEF Cles
  <2> HIDE DEF Lue
  <2>2. QED
    BY <2>1, ScelleOuVide
<1>3. P = {i \in DOMAIN s : clos[Lue(s[i])] # {}} /\ P \in SUBSET (1..Len(s))
  <2>1. \A i \in DOMAIN s : s[i] \in Cellules /\ i \in 1..Len(s)
    BY <1>1
  <2> HIDE DEF s, Lue
  <2>2. QED
    BY <1>2, <2>1
<1>4. Rendre(f, r)
  BY DEF Lire
<1>5. S!Rendre(f, [nature |-> "lire",
                   lus |-> [i \in DOMAIN q |->
                              [cle |-> Lue(q[i]), contenu |-> CHOOSE j \in clos[Lue(q[i])] : TRUE]]])
  BY <1>3, ExtraireDouble DEF S!Lire
<1>6. ASSUME NEW i \in DOMAIN q
      PROVE  (CHOOSE j \in clos[Lue(q[i])] : TRUE) = Assembler(Lue(q[i]))
  <2>1. Lue(q[i]) \in scelles
    <3>1. PICK u : Extrait(s, P, u)
      BY <1>1, <1>3, ExtraireOrdre
    <3>2. q \in Seq(Cellules)
      BY <1>1, <1>3, ExtraireType
    <3> HIDE DEF P
    <3>3. \A n \in 1..Len(q) : u[n] \in P /\ q[n] = s[u[n]]
      BY <3>1 DEF Extrait
    <3> HIDE DEF q
    <3>4. u[i] \in P /\ q[i] = s[u[i]]
      BY <1>6, <3>2, <3>3
    <3>5. QED
      BY <3>4 DEF P
  <2>2. clos[Lue(q[i])] = {Assembler(Lue(q[i]))}
    BY <2>1 DEF Accord
  <2>3. QED
    BY <2>2
<1>7. S!Rendre(f, r)
  <2> HIDE DEF q, Lue
  <2>1. [i \in DOMAIN q |-> [cle |-> Lue(q[i]), contenu |-> CHOOSE j \in clos[Lue(q[i])] : TRUE]]
          = [i \in DOMAIN q |-> [cle |-> Lue(q[i]), contenu |-> Assembler(Lue(q[i]))]]
    BY <1>6
  <2>2. QED
    BY <1>5, <2>1
<1>8. /\ lignes' = lignes /\ index' = index /\ scelles' = scelles
      /\ ouverts' = ouverts /\ clos' = clos
  BY DEF Lire, S!Lire
<1> HIDE DEF r
<1>9. TType
  BY DEF TInv
<1>10. QED
  BY <1>4, <1>7, <1>8, <1>9, MemeReponse, AccordStable

LEMMA AccordVider ==
  ASSUME TInv, Accord, NEW f \in Fils, NEW o \in Appels, Vider(f, o), S!Neuf
  PROVE  Accord'
<1>1. /\ lignes' = [k \in Cles |-> [e \in Entites |-> Sans]] /\ scelles' = {}
      /\ rendu' = rendu
  BY DEF Vider
<1>2. /\ ouverts' = [k \in Cles |-> <<>>] /\ clos' = [k \in Cles |-> {}]
      /\ renduDouble' = renduDouble
  BY DoubleCles DEF S!Neuf
<1>3. Represente(<<>>, [e \in Entites |-> Sans])
  BY DEF Represente, StrictementTrie
<1>4. \A k \in Cles : clos'[k] = {} /\ Represente(ouverts'[k], lignes'[k])
  BY <1>1, <1>2, <1>3
<1>5. Accord' <=>
        /\ DOMAIN ouverts' = Cles /\ DOMAIN clos' = Cles /\ DOMAIN renduDouble' = Fils
        /\ \A a \in scelles' : clos'[a] = {Assembler(a)'}
        /\ \A a \in Cles : a \notin scelles' => clos'[a] = {} /\ Represente(ouverts'[a], lignes'[a])
        /\ \A g \in Fils : rendu'[g] # Aucun => renduDouble'[g] = rendu'[g]
  BY DEF Accord, Represente
<1>6. QED
  BY <1>1, <1>2, <1>4, <1>5 DEF Accord

LEMMA AccordInit == JInit => Accord
<1> SUFFICES ASSUME JInit PROVE Accord
  OBVIOUS
<1>1. /\ lignes = [k \in Cles |-> [e \in Entites |-> Sans]] /\ scelles = {}
      /\ rendu = [f \in Fils |-> Aucun]
  BY DEF JInit, Init
<1>2. /\ ouverts = [k \in Cles |-> <<>>] /\ clos = [k \in Cles |-> {}]
      /\ DOMAIN renduDouble = Fils
  BY DoubleCles DEF JInit, S!Init
<1>3. Represente(<<>>, [e \in Entites |-> Sans])
  BY DEF Represente, StrictementTrie
<1>4. QED
  BY <1>1, <1>2, <1>3 DEF Accord

-----------------------------------------------------------------------------
(* What the observers are given.                                            *)

(* A list that grows by at most c.                                          *)
Prolonge(s, t, c) == t = s \/ t = Append(s, c)

LEMMA ProlongeCas ==
  ASSUME NEW s \in Seq(Chronos), NEW c \in Chronos, NEW t, Prolonge(s, t, c)
  PROVE  /\ t \in Seq(Chronos) /\ Len(s) \in Nat
         /\ \A i \in 1..Len(t) : \/ i \in 1..Len(s) /\ t[i] = s[i]
                                 \/ i = Len(s) + 1 /\ t[i] = c
<1>1. Len(s) \in Nat
  OBVIOUS
<1>2. CASE t = s
  BY <1>1, <1>2
<1>3. CASE t = Append(s, c)
  BY <1>1, <1>3
<1>4. QED
  BY <1>2, <1>3 DEF Prolonge

(* A chronotope that no observer was given, given to some of them at once.  *)
LEMMA SuiviPousser ==
  ASSUME Suivi, NEW c \in Chronos, c \notin S!ToutScelle, c \in S!ToutScelle',
         S!ToutScelle \subseteq S!ToutScelle',
         canal' \in [Observateurs -> Seq(Chronos)], DOMAIN livres' = Observateurs,
         livres' = [o \in Observateurs |-> livres'[o]],
         \A o \in Observateurs : Prolonge(livres[o], livres'[o], c)
  PROVE  Suivi'
<1>1. ASSUME NEW o \in Observateurs
      PROVE  /\ livres[o] \in Seq(Chronos) /\ livres'[o] \in Seq(Chronos)
             /\ Len(livres[o]) \in Nat
             /\ \A i \in 1..Len(livres'[o]) :
                  \/ i \in 1..Len(livres[o]) /\ livres'[o][i] = livres[o][i]
                  \/ i = Len(livres[o]) + 1 /\ livres'[o][i] = c
             /\ \A i \in 1..Len(livres[o]) : livres[o][i] \in S!ToutScelle /\ livres[o][i] # c
             /\ SansDoublon(livres[o])
  <2>1. livres[o] \in Seq(Chronos) /\ Prolonge(livres[o], livres'[o], c)
    BY DEF Suivi
  <2>2. /\ \A i \in 1..Len(livres[o]) : livres[o][i] \in S!ToutScelle /\ livres[o][i] # c
        /\ SansDoublon(livres[o])
    BY DEF Suivi
  <2>3. QED
    BY <2>1, <2>2, ProlongeCas
<1>2. livres' \in [Observateurs -> Seq(Chronos)]
  BY <1>1
<1>3. ASSUME NEW o \in Observateurs, NEW i \in 1..Len(livres'[o])
      PROVE  livres'[o][i] \in S!ToutScelle'
  BY <1>1
<1>4. ASSUME NEW o \in Observateurs
      PROVE  SansDoublon(livres'[o])
  <2> DEFINE s == livres[o]
             t == livres'[o]
             n == Len(s)
  <2> HIDE DEF s, t, n
  <2>1. /\ \A i \in 1..Len(t) : \/ i \in 1..n /\ t[i] = s[i]
                                \/ i = n + 1 /\ t[i] = c
        /\ \A i \in 1..n : s[i] # c
        /\ \A i, k \in 1..n : s[i] = s[k] => i = k
    BY <1>1 DEF s, t, n, SansDoublon
  <2>2. QED
    BY <2>1 DEF SansDoublon, t
<1>5. ASSUME NEW o \in Observateurs, NEW a \in Observateurs
      PROVE  OrdreSuivi(livres'[o], livres'[a])
  <2> DEFINE s == livres[o]
             t == livres'[o]
             m == Len(s)
             u == livres[a]
             v == livres'[a]
             p == Len(u)
  <2> HIDE DEF s, t, m, u, v, p
  <2>1. /\ m \in Nat /\ p \in Nat /\ Len(t) \in Nat /\ Len(v) \in Nat
        /\ \A i \in 1..Len(t) : \/ i \in 1..m /\ t[i] = s[i]
                                \/ i = m + 1 /\ t[i] = c
        /\ \A i \in 1..m : s[i] # c
        /\ \A i \in 1..Len(v) : \/ i \in 1..p /\ v[i] = u[i]
                                \/ i = p + 1 /\ v[i] = c
        /\ \A i \in 1..p : u[i] # c
    BY <1>1 DEF s, t, m, u, v, p
  <2>2. \A i, k \in 1..m : \A l, n \in 1..p :
          i < k /\ u[l] = s[i] /\ u[n] = s[k] => l < n
    BY DEF Suivi, OrdreSuivi, s, u, m, p
  <2>3. ASSUME NEW i \in 1..Len(t), NEW k \in 1..Len(t), NEW l \in 1..Len(v), NEW n \in 1..Len(v),
               i < k, v[l] = t[i], v[n] = t[k]
        PROVE  l < n
    <3>1. i \in 1..m /\ t[i] = s[i]
      <4>1. ~(i = m + 1)
        BY <2>1, <2>3
      <4>2. QED
        BY <2>1, <4>1
    <3>2. l \in 1..p /\ v[l] = u[l]
      BY <2>1, <2>3, <3>1
    <3>3. CASE k = m + 1 /\ t[k] = c
      <4>1. n = p + 1
        BY <2>1, <2>3, <3>3
      <4>2. QED
        BY <2>1, <3>2, <4>1
    <3>4. CASE k \in 1..m /\ t[k] = s[k]
      <4>1. n \in 1..p /\ v[n] = u[n]
        BY <2>1, <2>3, <3>4
      <4>2. u[l] = s[i] /\ u[n] = s[k]
        BY <2>3, <3>1, <3>2, <3>4, <4>1
      <4>3. QED
        BY <2>2, <2>3, <3>1, <3>2, <3>4, <4>1, <4>2
    <3>5. QED
      BY <2>1, <3>3, <3>4
  <2>4. QED
    BY <2>3 DEF OrdreSuivi, t, v
<1>6. Suivi' <=> /\ canal'  \in [Observateurs -> Seq(Chronos)]
                 /\ livres' \in [Observateurs -> Seq(Chronos)]
                 /\ \A o \in Observateurs :
                      /\ \A i \in 1..Len(livres'[o]) : livres'[o][i] \in S!ToutScelle'
                      /\ SansDoublon(livres'[o])
                 /\ \A o, a \in Observateurs : OrdreSuivi(livres'[o], livres'[a])
  BY DEF Suivi, SansDoublon, OrdreSuivi
<1>7. QED
  BY <1>2, <1>3, <1>4, <1>5, <1>6

(* No observer is given anything.                                           *)
LEMMA SuiviRien ==
  ASSUME Suivi, S!ToutScelle \subseteq S!ToutScelle',
         canal' \in [Observateurs -> Seq(Chronos)],
         livres' = livres \/ livres' = [o \in Observateurs |-> <<>>]
  PROVE  Suivi'
<1>1. Suivi' <=> /\ canal'  \in [Observateurs -> Seq(Chronos)]
                 /\ livres' \in [Observateurs -> Seq(Chronos)]
                 /\ \A o \in Observateurs :
                      /\ \A i \in 1..Len(livres'[o]) : livres'[o][i] \in S!ToutScelle'
                      /\ SansDoublon(livres'[o])
                 /\ \A o, a \in Observateurs : OrdreSuivi(livres'[o], livres'[a])
  BY DEF Suivi, SansDoublon, OrdreSuivi
<1>2. CASE livres' = livres
  BY <1>1, <1>2 DEF Suivi
<1>3. CASE livres' = [o \in Observateurs |-> <<>>]
  <2>1. <<>> \in Seq(Chronos) /\ SansDoublon(<<>>) /\ OrdreSuivi(<<>>, <<>>)
    BY DEF SansDoublon, OrdreSuivi
  <2>2. /\ livres' \in [Observateurs -> Seq(Chronos)]
        /\ \A o \in Observateurs : livres'[o] = <<>>
    BY <1>3, <2>1
  <2>3. \A o \in Observateurs : \A i \in 1..Len(livres'[o]) : livres'[o][i] \in S!ToutScelle'
    BY <2>2
  <2>4. QED
    BY <1>1, <2>1, <2>2, <2>3
<1>4. QED
  BY <1>2, <1>3

LEMMA SuiviVider ==
  ASSUME canal' = [o \in Observateurs |-> <<>>], livres' = [o \in Observateurs |-> <<>>]
  PROVE  Suivi'
<1>1. Suivi' <=> /\ canal'  \in [Observateurs -> Seq(Chronos)]
                 /\ livres' \in [Observateurs -> Seq(Chronos)]
                 /\ \A o \in Observateurs :
                      /\ \A i \in 1..Len(livres'[o]) : livres'[o][i] \in S!ToutScelle'
                      /\ SansDoublon(livres'[o])
                 /\ \A o, a \in Observateurs : OrdreSuivi(livres'[o], livres'[a])
  BY DEF Suivi, SansDoublon, OrdreSuivi
<1>2. <<>> \in Seq(Chronos) /\ SansDoublon(<<>>) /\ OrdreSuivi(<<>>, <<>>)
  BY DEF SansDoublon, OrdreSuivi
<1>3. /\ livres' \in [Observateurs -> Seq(Chronos)] /\ canal' \in [Observateurs -> Seq(Chronos)]
      /\ \A o \in Observateurs : livres'[o] = <<>>
  BY <1>2
<1>4. \A o \in Observateurs : \A i \in 1..Len(livres'[o]) : livres'[o][i] \in S!ToutScelle'
  BY <1>3
<1>5. QED
  BY <1>1, <1>2, <1>3, <1>4

(* When no channel grows, nothing is delivered.                             *)
LEMMA LivrerRien ==
  ASSUME Suivi, Livrer, \A o \in Observateurs : ~(Len(canal'[o]) > Len(canal[o]))
  PROVE  livres' = livres \/ livres' = [o \in Observateurs |-> <<>>]
<1>1. livres' = [o \in Observateurs |-> IF abonnes' = <<>> THEN <<>> ELSE livres[o]]
  BY DEF Livrer
<1>2. livres = [o \in Observateurs |-> livres[o]]
  BY DEF Suivi
<1>3. QED
  BY <1>1, <1>2

LEMMA SuiviStable ==
  ASSUME Suivi, Livrer, canal' = canal, clos' = clos
  PROVE  Suivi'
<1>1. S!ToutScelle' = S!ToutScelle
  BY DEF S!ToutScelle, S!Cles
<1>2. \A o \in Observateurs : ~(Len(canal'[o]) > Len(canal[o]))
  <2>1. \A o \in Observateurs : Len(canal[o]) \in Nat
    BY DEF Suivi
  <2>2. QED
    BY <2>1
<1>3. canal' \in [Observateurs -> Seq(Chronos)]
  BY DEF Suivi
<1>4. QED
  BY <1>1, <1>2, <1>3, LivrerRien, SuiviRien

LEMMA SuiviRecevoir ==
  ASSUME Suivi, Livrer, NEW r \in Observateurs, S!Recevoir(r)
  PROVE  Suivi'
<1>1. canal' = [canal EXCEPT ![r] = Tail(canal[r])] /\ clos' = clos /\ canal[r] # <<>>
  BY DEF S!Recevoir
<1>2. S!ToutScelle' = S!ToutScelle
  BY <1>1 DEF S!ToutScelle, S!Cles
<1>3. \A o \in Observateurs : canal[o] \in Seq(Chronos) /\ Len(canal[o]) \in Nat
  BY DEF Suivi
<1>4. Tail(canal[r]) \in Seq(Chronos) /\ Len(Tail(canal[r])) = Len(canal[r]) - 1
  BY <1>1, <1>3, HeadTailProperties
<1>5. canal' \in [Observateurs -> Seq(Chronos)]
  BY <1>1, <1>4 DEF Suivi
<1>6. ASSUME NEW o \in Observateurs
      PROVE  ~(Len(canal'[o]) > Len(canal[o]))
  <2>1. canal'[o] = IF o = r THEN Tail(canal[r]) ELSE canal[o]
    BY <1>1 DEF Suivi
  <2>2. QED
    BY <1>3, <1>4, <2>1
<1>7. QED
  BY <1>2, <1>5, <1>6, LivrerRien, SuiviRien

LEMMA SuiviSceller ==
  ASSUME TInv, Accord, Suivi, Livrer, NEW f \in Fils, NEW o \in Appels,
         Sceller(f, o), S!Sceller(f, o.cle)
  PROVE  Suivi'
<1> DEFINE k == o.cle
           j == ouverts[k]
           c == [cle |-> k, contenu |-> j]
<1>1. k \in Cles
  BY DEF Sceller, Scellements
<1>2. CASE clos[k] # {}
  BY <1>2, SuiviStable DEF S!Sceller
<1>3. CASE clos[k] = {}
  <2>1. j \in Seq(Lignes) /\ c \in Chronos
    <3>1. Represente(j, lignes[k])
      BY <1>1, <1>3, ScelleOuVide DEF Accord
    <3>2. QED
      BY <1>1, <3>1 DEF Represente, Chronos
  <2>2. /\ clos' = [clos EXCEPT ![k] = {j}] /\ S!Pousser(c)
    BY <1>3 DEF S!Sceller
  <2>3. clos'[k] = {j} /\ \A a \in Cles : a # k => clos'[a] = clos[a]
    BY <1>1, <2>2 DEF Accord
  <2>4. /\ c \notin S!ToutScelle
        /\ \A x : x \in S!ToutScelle' <=> \E a \in Cles : \E b \in clos'[a] : x = [cle |-> a, contenu |-> b]
    <3>1. ASSUME NEW a \in Cles, NEW b \in clos[a], c = [cle |-> a, contenu |-> b]
          PROVE  FALSE
      BY <1>3, <3>1
    <3>2. ASSUME NEW x
          PROVE  x \in S!ToutScelle' <=> \E a \in Cles : \E b \in clos'[a] : x = [cle |-> a, contenu |-> b]
      <4>1. x \in S!ToutScelle' <=> \E a \in S!Cles : \E b \in clos'[a] : x = [cle |-> a, contenu |-> b]
        BY DEF S!ToutScelle, S!Cles
      <4>2. QED
        BY <4>1, DoubleCles
    <3>3. QED
      BY <3>1, <3>2, Scelle
  <2>5. c \in S!ToutScelle'
    BY <1>1, <2>3, <2>4
  <2>6. S!ToutScelle \subseteq S!ToutScelle'
    <3> SUFFICES ASSUME NEW x \in S!ToutScelle PROVE x \in S!ToutScelle'
      OBVIOUS
    <3>1. PICK a \in Cles : \E b \in clos[a] : x = [cle |-> a, contenu |-> b]
      BY Scelle
    <3>2. clos'[a] = clos[a]
      BY <1>3, <2>3, <3>1
    <3>3. QED
      BY <2>4, <3>1, <3>2
  <2> HIDE DEF c
  <2>7. ASSUME NEW a \in Observateurs
        PROVE  \/ canal'[a] = canal[a]
               \/ canal'[a] = Append(canal[a], c)
    BY <2>2 DEF S!Pousser
  <2>8. \A a \in Observateurs : canal[a] \in Seq(Chronos) /\ Len(canal[a]) \in Nat
    BY DEF Suivi
  <2>9. canal' \in [Observateurs -> Seq(Chronos)]
    <3>1. canal' = [a \in Observateurs |-> canal'[a]]
      BY <2>2 DEF S!Pousser
    <3>2. \A a \in Observateurs : canal'[a] \in Seq(Chronos)
      <4> SUFFICES ASSUME NEW a \in Observateurs PROVE canal'[a] \in Seq(Chronos)
        OBVIOUS
      <4>1. canal[a] \in Seq(Chronos) /\ Append(canal[a], c) \in Seq(Chronos)
        BY <2>1, <2>8, AppendProperties
      <4>2. QED
        BY <2>7, <4>1
    <3>3. QED
      BY <3>1, <3>2
  <2>10. CASE abonnes' = <<>>
    <3>1. livres' = [a \in Observateurs |-> <<>>]
      BY <2>10 DEF Livrer
    <3>2. QED
      BY <2>6, <2>9, <3>1, SuiviRien
  <2>11. CASE abonnes' # <<>>
    <3>1. livres' = [a \in Observateurs |-> IF Len(canal'[a]) > Len(canal[a])
                                            THEN Append(livres[a], Last(canal'[a])) ELSE livres[a]]
      BY <2>11 DEF Livrer
    <3>2. ASSUME NEW a \in Observateurs
          PROVE  Prolonge(livres[a], livres'[a], c)
      <4>1. CASE canal'[a] = canal[a]
        BY <2>8, <3>1, <4>1 DEF Prolonge
      <4>2. CASE canal'[a] = Append(canal[a], c)
        <5>1. Last(canal'[a]) = c
          BY <2>1, <2>8, <4>2 DEF Last
        <5>2. QED
          BY <3>1, <5>1 DEF Prolonge
      <4>3. QED
        BY <2>7, <4>1, <4>2
    <3>3. DOMAIN livres' = Observateurs /\ livres' = [a \in Observateurs |-> livres'[a]]
      BY <3>1
    <3>4. QED
      BY <2>1, <2>4, <2>5, <2>6, <2>9, <3>2, <3>3, SuiviPousser
  <2>12. QED
    BY <2>10, <2>11
<1>4. QED
  BY <1>2, <1>3

LEMMA SuiviInit == JInit => Suivi
<1> SUFFICES ASSUME JInit PROVE Suivi
  OBVIOUS
<1>1. canal = [o \in Observateurs |-> <<>>] /\ livres = [o \in Observateurs |-> <<>>]
  BY DEF JInit, S!Init
<1>2. <<>> \in Seq(Chronos) /\ SansDoublon(<<>>) /\ OrdreSuivi(<<>>, <<>>)
  BY DEF SansDoublon, OrdreSuivi
<1>3. /\ livres \in [Observateurs -> Seq(Chronos)] /\ canal \in [Observateurs -> Seq(Chronos)]
      /\ \A o \in Observateurs : livres[o] = <<>>
  BY <1>1, <1>2
<1>4. \A o \in Observateurs : \A i \in 1..Len(livres[o]) : livres[o][i] \in S!ToutScelle
  BY <1>3
<1>5. QED
  BY <1>2, <1>3, <1>4 DEF Suivi

-----------------------------------------------------------------------------
LEMMA JInvInit == JInit => JInv
BY TInvInit, AccordInit, SuiviInit DEF JInit, JInv

LEMMA JInvPas == JInv /\ [JNext]_jvars => JInv'
<1> SUFFICES ASSUME JInv, [JNext]_jvars PROVE JInv'
  OBVIOUS
<1>1. TInv /\ Accord /\ Suivi
  BY DEF JInv
<1>2. TInv'
  <2>1. [Next]_vars
    BY DEF JNext, AppelerLesDeux, Next, jvars
  <2>2. QED
    BY <1>1, <2>1, TInvPas
<1>3. ASSUME NEW f \in Fils, NEW o \in Appels, Livrer,
             Ecrire(f, o), S!Ecrire(f, o.cle, o.entite, o.pose)
      PROVE  JInv'
  <2>1. canal' = canal /\ clos' = clos
    BY <1>3 DEF S!Ecrire
  <2>2. QED
    BY <1>1, <1>2, <1>3, <2>1, AccordEcrire, SuiviStable DEF JInv
<1>4. ASSUME NEW f \in Fils, NEW o \in Appels, Livrer, Sceller(f, o), S!Sceller(f, o.cle)
      PROVE  JInv'
  BY <1>1, <1>2, <1>4, AccordSceller, SuiviSceller DEF JInv
<1>5. ASSUME NEW f \in Fils, NEW o \in Appels, Livrer,
             Lire(f, o), S!Lire(f, o.salle, o.cellules, o.tick)
      PROVE  JInv'
  <2>1. canal' = canal /\ clos' = clos
    BY <1>5 DEF S!Lire
  <2>2. QED
    BY <1>1, <1>2, <1>5, <2>1, AccordLire, SuiviStable DEF JInv
<1>6. ASSUME NEW f \in Fils, NEW o \in Appels, Livrer, Vider(f, o), S!Neuf
      PROVE  JInv'
  <2>1. canal' = [a \in Observateurs |-> <<>>] /\ livres' = [a \in Observateurs |-> <<>>]
    BY <1>6 DEF S!Neuf, Livrer
  <2>2. QED
    BY <1>1, <1>2, <1>6, <2>1, AccordVider, SuiviVider DEF JInv
<1>7. ASSUME NEW f \in Fils, Livrer, Diffuser(f), UNCHANGED svars
      PROVE  JInv'
  <2>1. /\ lignes' = lignes /\ index' = index /\ scelles' = scelles
        /\ rendu' = [rendu EXCEPT ![f] = Aucun]
    BY <1>7 DEF Diffuser, Rendre
  <2>2. ouverts' = ouverts /\ clos' = clos /\ canal' = canal /\ renduDouble' = renduDouble
    BY <1>7 DEF svars
  <2>3. \A g \in Fils : rendu'[g] # Aucun => renduDouble'[g] = rendu'[g]
    BY <1>1, <2>1, <2>2 DEF Accord, TInv, TType
  <2>4. DOMAIN renduDouble' = Fils
    BY <1>1, <2>2 DEF Accord
  <2>5. QED
    BY <1>1, <1>2, <1>7, <2>1, <2>2, <2>3, <2>4, AccordStable, SuiviStable DEF JInv
<1>8. ASSUME NEW o \in Observateurs, Livrer, UNCHANGED vars,
             S!Recevoir(o) \/ \E d \in Souscriptions : S!Observer(o, d.salle, d.cellules)
      PROVE  JInv'
  <2>1. lignes' = lignes /\ index' = index /\ scelles' = scelles /\ rendu' = rendu
    BY <1>8 DEF vars
  <2>2. ouverts' = ouverts /\ clos' = clos /\ renduDouble' = renduDouble
    BY <1>8 DEF S!Recevoir, S!Observer
  <2>3. Accord'
    <3>1. /\ DOMAIN renduDouble' = Fils
          /\ \A g \in Fils : rendu'[g] # Aucun => renduDouble'[g] = rendu'[g]
      BY <1>1, <2>1, <2>2 DEF Accord
    <3>2. QED
      BY <1>1, <2>1, <2>2, <3>1, AccordStable
  <2>4. Suivi'
    <3>1. CASE S!Recevoir(o)
      BY <1>1, <1>8, <3>1, SuiviRecevoir
    <3>2. ASSUME NEW d \in Souscriptions, S!Observer(o, d.salle, d.cellules)
          PROVE  Suivi'
      <4>1. canal' = canal
        BY <3>2 DEF S!Observer
      <4>2. QED
        BY <1>1, <1>8, <2>2, <4>1, SuiviStable
    <3>3. QED
      BY <1>8, <3>1, <3>2
  <2>5. QED
    BY <1>2, <2>3, <2>4 DEF JInv
<1>9. CASE UNCHANGED jvars
  <2>1. /\ lignes' = lignes /\ index' = index /\ scelles' = scelles /\ rendu' = rendu
        /\ ouverts' = ouverts /\ clos' = clos /\ canal' = canal
        /\ renduDouble' = renduDouble /\ livres' = livres
    BY <1>9 DEF jvars, vars, svars
  <2>2. Accord'
    <3>1. /\ DOMAIN renduDouble' = Fils
          /\ \A g \in Fils : rendu'[g] # Aucun => renduDouble'[g] = rendu'[g]
      BY <1>1, <2>1 DEF Accord
    <3>2. QED
      BY <1>1, <2>1, <3>1, AccordStable
  <2>3. Suivi'
    <3>1. S!ToutScelle' = S!ToutScelle /\ canal' \in [Observateurs -> Seq(Chronos)]
      BY <1>1, <2>1 DEF S!ToutScelle, S!Cles, Suivi
    <3>2. QED
      BY <1>1, <2>1, <3>1, SuiviRien
  <2>4. QED
    BY <1>2, <2>2, <2>3 DEF JInv
<1>10. QED
  BY <1>3, <1>4, <1>5, <1>6, <1>7, <1>8, <1>9 DEF JNext, AppelerLesDeux

LEMMA JInvariant == JSpec => []JInv
BY JInvInit, JInvPas, PTL DEF JSpec

LEMMA AccordReponses == JInv => MemesReponses
<1> SUFFICES ASSUME JInv PROVE MemesReponses
  OBVIOUS
<1>1. Accord /\ scelles \subseteq Cles
  BY DEF JInv, TInv, TType
<1>2. \A x : x \in S!ToutScelle <=> \E k \in scelles : x = [cle |-> k, contenu |-> Assembler(k)]
  BY <1>1, Scelle DEF Accord
<1>3. S!ToutScelle = {[cle |-> k, contenu |-> Assembler(k)] : k \in scelles}
  BY <1>2
<1>4. QED
  BY <1>1, <1>3 DEF Accord, MemesReponses

(* What two observers share comes to both in the same order.                *)
LEMMA SuiviOrdre == JInv => OrdreCommun
<1> SUFFICES ASSUME JInv PROVE OrdreCommun
  OBVIOUS
<1>1. Suivi
  BY DEF JInv
<1>2. ASSUME NEW o \in Observateurs
      PROVE  /\ livres[o] \in Seq(Chronos) /\ DOMAIN livres[o] = 1..Len(livres[o])
             /\ SansDoublon(livres[o])
             /\ Range(livres[o]) \subseteq S!ToutScelle /\ IsInjective(livres[o])
  <2>1. livres[o] \in Seq(Chronos) /\ DOMAIN livres[o] = 1..Len(livres[o])
    BY <1>1 DEF Suivi
  <2>2. SansDoublon(livres[o]) /\ \A i \in 1..Len(livres[o]) : livres[o][i] \in S!ToutScelle
    BY <1>1 DEF Suivi
  <2>3. QED
    BY <2>1, <2>2 DEF SansDoublon, Range, IsInjective
<1> DEFINE P(x, y) == {i \in DOMAIN livres[x] : livres[x][i] \in Range(livres[y])}
           Recus(x, y) == Extraire(livres[x], P(x, y))
<1>3. ASSUME NEW o \in Observateurs, NEW a \in Observateurs
      PROVE  P(o, a) \in SUBSET (1..Len(livres[o]))
  BY <1>2
<1> HIDE DEF P
(* What is received of both: a part of the list of the first, in its order, *)
(* and all of the list of the second that the first has.                    *)
<1>4. ASSUME NEW o \in Observateurs, NEW a \in Observateurs
      PROVE  /\ Recus(o, a) \in Seq(Chronos)
             /\ \E s \in [1..Len(Recus(o, a)) -> 1..Len(livres[o])] :
                  /\ \A n \in 1..Len(Recus(o, a)) :
                       /\ Recus(o, a)[n] = livres[o][s[n]]
                       /\ Recus(o, a)[n] \in Range(livres[a])
                  /\ \A n, m \in 1..Len(Recus(o, a)) : n < m => s[n] < s[m]
             /\ \A x \in Range(livres[o]) : x \in Range(livres[a]) =>
                  \E n \in 1..Len(Recus(o, a)) : Recus(o, a)[n] = x
  <2> DEFINE r == Recus(o, a)
             Q == P(o, a)
             l == livres[o]
  <2>1. l \in Seq(Chronos) /\ Q \in SUBSET (1..Len(l))
    BY <1>2, <1>3
  <2>2. /\ \A i \in Q : l[i] \in Range(livres[a])
        /\ \A x \in Range(l) : x \in Range(livres[a]) => \E i \in Q : l[i] = x
    BY DEF P, Range
  <2> HIDE DEF Q, l
  <2>3. Extraire(l, Q) \in Seq(Chronos)
    BY <2>1, ExtraireType
  <2>4. PICK s : Extrait(l, Q, s)
    BY <2>1, ExtraireOrdre
  <2>5. r = Extraire(l, Q)
    BY DEF l, Q
  <2> HIDE DEF r
  <2>6. /\ s \in [1..Len(r) -> Q]
        /\ \A n \in 1..Len(r) : r[n] = l[s[n]]
        /\ \A n, m \in 1..Len(r) : n < m => s[n] < s[m]
        /\ \A i \in Q : \E n \in 1..Len(r) : s[n] = i
    BY <2>4, <2>5 DEF Extrait
  <2>7. s \in [1..Len(r) -> 1..Len(l)]
    BY <2>1, <2>6
  <2>8. \A n \in 1..Len(r) : r[n] \in Range(livres[a])
    BY <2>2, <2>6
  <2>9. ASSUME NEW x \in Range(l), x \in Range(livres[a])
        PROVE  \E n \in 1..Len(r) : r[n] = x
    <3>1. PICK i \in Q : l[i] = x
      BY <2>2, <2>9
    <3>2. PICK n \in 1..Len(r) : s[n] = i
      BY <2>6
    <3>3. QED
      BY <2>6, <3>1, <3>2
  <2>10. QED
    BY <2>3, <2>5, <2>6, <2>7, <2>8, <2>9 DEF r, l
<1> HIDE DEF Recus
<1>5. ASSUME NEW o \in Observateurs, NEW a \in Observateurs
      PROVE  /\ SansDoublon(Recus(o, a)) /\ Inclus(Recus(o, a), Recus(a, o))
             /\ OrdreSuivi(Recus(o, a), Recus(a, o))
  <2> DEFINE r == Recus(o, a)
             q == Recus(a, o)
  <2>1. PICK s \in [1..Len(r) -> 1..Len(livres[o])] :
          /\ \A n \in 1..Len(r) : r[n] = livres[o][s[n]] /\ r[n] \in Range(livres[a])
          /\ \A n, m \in 1..Len(r) : n < m => s[n] < s[m]
    BY <1>4
  <2>2. PICK u \in [1..Len(q) -> 1..Len(livres[a])] :
          /\ \A n \in 1..Len(q) : q[n] = livres[a][u[n]] /\ q[n] \in Range(livres[o])
          /\ \A n, m \in 1..Len(q) : n < m => u[n] < u[m]
    BY <1>4
  <2>3. r \in Seq(Chronos) /\ q \in Seq(Chronos) /\ Len(r) \in Nat /\ Len(q) \in Nat
    BY <1>4
  <2>4. \A x \in Range(livres[a]) : x \in Range(livres[o]) => \E n \in 1..Len(q) : q[n] = x
    BY <1>4
  <2> HIDE DEF r, q
  <2>5. SansDoublon(r)
    <3> SUFFICES ASSUME NEW i \in 1..Len(r), NEW k \in 1..Len(r), r[i] = r[k], i < k
                 PROVE  FALSE
      BY <2>3 DEF SansDoublon
    <3>1. s[i] \in 1..Len(livres[o]) /\ s[k] \in 1..Len(livres[o]) /\ s[i] < s[k]
      BY <2>1
    <3>2. livres[o][s[i]] = livres[o][s[k]]
      BY <2>1
    <3>3. s[i] = s[k]
      BY <1>2, <3>1, <3>2 DEF SansDoublon
    <3>4. s[i] \in Nat
      BY <3>1
    <3>5. QED
      BY <3>1, <3>3, <3>4
  <2>6. Inclus(r, q)
    <3> SUFFICES ASSUME NEW i \in 1..Len(r) PROVE \E k \in 1..Len(q) : q[k] = r[i]
      BY DEF Inclus
    <3>1. r[i] = livres[o][s[i]] /\ s[i] \in 1..Len(livres[o]) /\ r[i] \in Range(livres[a])
      BY <2>1
    <3>2. r[i] \in Range(livres[o])
      BY <1>2, <3>1 DEF Range
    <3>3. QED
      BY <2>4, <3>1, <3>2
  <2>7. OrdreSuivi(r, q)
    <3> SUFFICES ASSUME NEW i \in 1..Len(r), NEW k \in 1..Len(r),
                        NEW l \in 1..Len(q), NEW n \in 1..Len(q),
                        i < k, q[l] = r[i], q[n] = r[k]
                 PROVE  l < n
      BY DEF OrdreSuivi
    <3>1. /\ s[i] \in 1..Len(livres[o]) /\ s[k] \in 1..Len(livres[o]) /\ s[i] < s[k]
          /\ u[l] \in 1..Len(livres[a]) /\ u[n] \in 1..Len(livres[a])
      BY <2>1, <2>2
    <3>2. livres[a][u[l]] = livres[o][s[i]] /\ livres[a][u[n]] = livres[o][s[k]]
      BY <2>1, <2>2
    <3>3. u[l] < u[n]
      BY <1>1, <3>1, <3>2 DEF Suivi, OrdreSuivi
    <3>4. u[l] \in Nat /\ u[n] \in Nat /\ l \in Nat /\ n \in Nat
      BY <3>1
    <3>5. ~(l = n) /\ ~(n < l)
      <4>1. n < l => u[n] < u[l]
        BY <2>2
      <4>2. QED
        BY <3>3, <3>4, <4>1
    <3>6. QED
      BY <3>4, <3>5
  <2>8. QED
    BY <2>5, <2>6, <2>7 DEF r, q
<1>6. ASSUME NEW o \in Observateurs, NEW a \in Observateurs
      PROVE  Recus(o, a) = Recus(a, o)
  <2>1. Recus(o, a) \in Seq(Chronos) /\ Recus(a, o) \in Seq(Chronos)
    BY <1>4
  <2>2. /\ SansDoublon(Recus(o, a)) /\ Inclus(Recus(o, a), Recus(a, o))
        /\ OrdreSuivi(Recus(o, a), Recus(a, o))
        /\ SansDoublon(Recus(a, o)) /\ Inclus(Recus(a, o), Recus(o, a))
    BY <1>5
  <2>3. QED
    BY <2>1, <2>2, MemeOrdre
<1>7. OrdreCommun <=>
        /\ \A o \in Observateurs : Range(livres[o]) \subseteq S!ToutScelle /\ IsInjective(livres[o])
        /\ \A o, a \in Observateurs : Recus(o, a) = Recus(a, o)
  BY DEF OrdreCommun, Recus, P
<1>8. QED
  BY <1>2, <1>6, <1>7

(* The row store and the test double answer alike and hold the same sealed  *)
(* chronotopes, whatever the calls and however they interleave              *)
(* (naive.rs:87-146, double.rs:61-106).                                     *)
THEOREM JumeauxRepondent == JSpec => []MemesReponses
BY JInvariant, AccordReponses, PTL

(* The double gives its observers sealed chronotopes, each key once, and to *)
(* any two of them those they share in the same order (double.rs:82-103).   *)
THEOREM DoubleOrdonne == JSpec => []OrdreCommun
BY JInvariant, SuiviOrdre, PTL
=============================================================================
