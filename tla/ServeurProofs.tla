--------------------------- MODULE ServeurProofs ----------------------------
(***************************************************************************)
(* What the server's concurrent requests promise one another holds for any *)
(* rooms, cells, ticks, requests and limit: a read without a tick is up to *)
(* date, a read misses nothing sealed before it came, the counters are the *)
(* answers given, a scrape is consistent, and places are never exceeded.   *)
(***************************************************************************)
EXTENDS ServeurAdresses, ListesProofs, FiniteSetTheorems, SequenceTheorems, TLAPS

(* The room s was sealed at tick t or later, as far as latest_sealed knows. *)
Connu(s, t) == \E u \in dernier[s] : t <= u

Types ==
  /\ demande \in [Requetes -> Demandes]
  /\ pc      \in [Requetes -> Etapes]
  /\ dernier \in [Salles -> SUBSET Ticks]
  /\ resolu  \in [Requetes -> SUBSET Ticks]
  /\ avant   \in [Requetes -> SUBSET Requetes]

(* What a request's step says of the request: which route takes it there.   *)
Admise(r, etape) ==
  /\ etape \in {"valider", "ok", "err"} => demande[r].route \in Routes
  /\ etape \in {"maj", "lire", "ok"} => ~HorsDomaine(demande[r])
  /\ etape = "err" => demande[r].route = "write" \/ HorsDomaine(demande[r])
  /\ etape = "maj" => demande[r].route = "seal"
  /\ etape = "lire" => demande[r].route = "read"
  /\ etape = "relever" => demande[r].route = "metrics"
  /\ etape \in {"a_venir", "valider"} => resolu[r] = {}

Chemins == \A r \in Requetes : Admise(r, pc[r]) /\ \A q \in avant[r] : pc[q] = "repondue"

UnSeul == \A s \in Salles : \A t, u \in dernier[s] : t = u

(* A seal on its way out has been recorded.                                 *)
Enregistre(r, etape) ==
  demande[r].route = "seal" /\ ~HorsDomaine(demande[r])
    /\ etape \in {"ok", "err", "compte", "repondue"}
  => Connu(demande[r].salle, Cle(demande[r]).tick)

SceauxConnus == \A r \in Requetes : Enregistre(r, pc[r])

(* The tick a read went by is known to later ones.                          *)
LecturesConnues ==
  \A r \in Requetes : demande[r].tick = {} =>
    \A u \in resolu[r] : demande[r].salle \in Salles /\ Connu(demande[r].salle, u)

(* A read that has its tick is not behind those answered before it came;    *)
(* and it has one if one of them had.                                       *)
PasEnArriere ==
  \A r \in Requetes : \A t \in resolu[r] : demande[r].tick = {} =>
    \A q \in avant[r] : demande[q].salle = demande[r].salle =>
      /\ demande[q].route = "seal" /\ ~HorsDomaine(demande[q]) => Cle(demande[q]).tick <= t
      /\ demande[q].route = "read" /\ demande[q].tick = {} => \A u \in resolu[q] : u <= t

Resolues ==
  \A r \in Requetes : Resolue(r) /\ demande[r].tick = {} =>
    \A q \in avant[r] : demande[q].salle = demande[r].salle =>
      /\ demande[q].route = "seal" /\ ~HorsDomaine(demande[q]) => resolu[r] # {}
      /\ demande[q].route = "read" /\ demande[q].tick = {} /\ resolu[q] # {} => resolu[r] # {}

AJourInv ==
  Types /\ Chemins /\ UnSeul /\ SceauxConnus /\ LecturesConnues /\ PasEnArriere /\ Resolues

(* A request of the domain names a room that exists.                        *)
LEMMA DansLeDomaine ==
  ASSUME NEW d \in Demandes, ~HorsDomaine(d)
  PROVE  d.salle \in Salles
  BY ServeurAssumption, DemandesAssumption DEF HorsDomaine, Salles, Formes

LEMMA TickDeSceauNomme ==
  ASSUME NEW d \in Demandes, d.route = "seal"
  PROVE  Cle(d).tick \in Ticks /\ Cle(d).salle = d.salle
<1>1. PICK t \in Ticks : d.tick = {t}
  BY DemandesAssumption DEF Formes
<1>2. QED
  BY <1>1 DEF Cle

LEMMA AJourInit == Init => AJourInv
<1> SUFFICES ASSUME Init PROVE AJourInv
  OBVIOUS
<1>1. Types /\ UnSeul
  BY DEF Init, Types, UnSeul, Etapes
<1>2. Chemins
  BY DEF Init, Chemins, Admise
<1>3. SceauxConnus /\ LecturesConnues /\ PasEnArriere /\ Resolues
  BY DEF Init, SceauxConnus, Enregistre, LecturesConnues, PasEnArriere, Resolues, Resolue
<1>4. QED
  BY <1>1, <1>2, <1>3 DEF AJourInv

(* A step that takes one request on and resolves or records nothing.        *)
LEMMA Avancer ==
  ASSUME AJourInv, NEW r \in Requetes, NEW y \in Etapes, Passer(r, y),
         UNCHANGED <<dernier, demande, resolu, avant>>,
         pc[r] # "repondue", Admise(r, y), Enregistre(r, y), Resolue(r)' => Resolue(r)
  PROVE  AJourInv'
<1>1. \A q \in Requetes : pc'[q] = IF q = r THEN y ELSE pc[q]
  BY DEF AJourInv, Types, Passer
<1>2. Types'
  BY DEF AJourInv, Types, Passer
<1>3. Chemins'
  BY <1>1 DEF AJourInv, Types, Chemins, Admise
<1>4. SceauxConnus'
  BY <1>1 DEF AJourInv, SceauxConnus, Enregistre, Connu
<1>5. UnSeul' /\ LecturesConnues' /\ PasEnArriere'
  BY DEF AJourInv, UnSeul, LecturesConnues, PasEnArriere, Connu
<1>6. Resolues'
  <2>1. \A q \in Requetes : Resolue(q)' => Resolue(q)
    BY <1>1 DEF Resolue
  <2>2. QED
    BY <2>1 DEF AJourInv, Resolues
<1>7. QED
  BY <1>2, <1>3, <1>4, <1>5, <1>6 DEF AJourInv

LEMMA AdmettreAJour ==
  ASSUME AJourInv, NEW r \in Requetes, Admettre(r)
  PROVE  AJourInv'
<1> DEFINE y == IF demande[r].route = "metrics" THEN "relever" ELSE "valider"
<1>1. /\ pc[r] = "a_venir" /\ demande[r].route # "health" /\ resolu[r] = {}
      /\ UNCHANGED <<demande, dernier, resolu>>
      /\ y \in {"relever", "valider"} /\ Passer(r, y)
  BY DEF AJourInv, Chemins, Admise, Admettre, Arrive
<1>2. Admise(r, y)
  BY <1>1, DemandesAssumption DEF AJourInv, Types, Admise, Formes
<1> HIDE DEF y
<1>3. \A q \in Requetes :
        /\ pc'[q] = IF q = r THEN y ELSE pc[q]
        /\ avant'[q] = IF q = r THEN {x \in Requetes : pc[x] = "repondue"} ELSE avant[q]
  BY <1>1 DEF AJourInv, Types, Passer, Admettre
<1>4. Types'
  BY <1>1 DEF AJourInv, Types, Passer, Admettre, Etapes
<1>5. Chemins'
  <2> SUFFICES ASSUME NEW q \in Requetes
               PROVE  Admise(q, pc[q])' /\ (\A x \in avant[q] : pc[x] = "repondue")'
    BY DEF Chemins
  <2>1. Admise(q, pc[q])'
    BY <1>1, <1>2, <1>3 DEF AJourInv, Chemins, Admise
  <2>2. \A x \in avant'[q] : x \in Requetes /\ pc[x] = "repondue"
    BY <1>3 DEF AJourInv, Chemins, Types
  <2>3. QED
    BY <1>1, <1>3, <2>1, <2>2
<1>6. SceauxConnus' /\ LecturesConnues' /\ UnSeul'
  BY <1>1, <1>3 DEF AJourInv, SceauxConnus, Enregistre, LecturesConnues, UnSeul, Connu
<1>7. PasEnArriere'
  BY <1>1, <1>3 DEF AJourInv, PasEnArriere
<1>8. Resolues'
  <2>1. \A q \in Requetes : Resolue(q)' => q # r /\ Resolue(q)
    BY <1>1, <1>3 DEF Resolue
  <2>2. QED
    BY <1>1, <1>3, <2>1 DEF AJourInv, Resolues
<1>9. QED
  BY <1>4, <1>5, <1>6, <1>7, <1>8 DEF AJourInv

(* The latest tick only grows: what was known stays known.                  *)
LEMMA ActualiserConnu ==
  ASSUME AJourInv, NEW r \in Requetes, Actualiser(r)
  PROVE  /\ dernier' \in [Salles -> SUBSET Ticks]
         /\ UnSeul'
         /\ Connu(demande[r].salle, Cle(demande[r]).tick)'
         /\ \A s \in Salles, t \in Ticks : Connu(s, t) => Connu(s, t)'
<1> DEFINE s == demande[r].salle
           t == Cle(demande[r]).tick
<1>1. demande[r] \in Demandes /\ demande[r].route = "seal" /\ ~HorsDomaine(demande[r])
  BY DEF AJourInv, Types, Chemins, Admise, Actualiser
<1>2. s \in Salles /\ t \in Ticks /\ Cle(demande[r]).salle = s
  BY <1>1, DansLeDomaine, TickDeSceauNomme
<1>3. demande' = demande
  BY DEF Actualiser
<1>4. dernier' = [dernier EXCEPT ![s] = IF \E u \in @ : u > t THEN @ ELSE {t}]
  BY <1>2 DEF Actualiser
<1> HIDE DEF s, t
<1>5. /\ dernier' \in [Salles -> SUBSET Ticks]
      /\ \A x \in Salles : x # s => dernier'[x] = dernier[x]
      /\ dernier'[s] = IF \E u \in dernier[s] : u > t THEN dernier[s] ELSE {t}
  BY <1>2, <1>4 DEF AJourInv, Types
<1>6. UnSeul'
  BY <1>2, <1>5 DEF AJourInv, UnSeul
<1>7. \E u \in dernier'[s] : t <= u
  BY <1>2, <1>5, ServeurAssumption DEF AJourInv, Types
<1>8. ASSUME NEW x \in Salles, NEW v \in Ticks, NEW u \in dernier[x], v <= u
      PROVE  \E w \in dernier'[x] : v <= w
  <2>1. CASE x # s \/ \E w \in dernier[s] : w > t
    BY <1>5, <1>8, <2>1
  <2>2. CASE x = s /\ ~\E w \in dernier[s] : w > t
    <3>1. u \in Nat /\ v \in Nat /\ t \in Nat
      BY <1>2, ServeurAssumption DEF AJourInv, Types
    <3>2. ~(u > t) /\ dernier'[x] = {t}
      BY <1>5, <2>2
    <3>3. v <= t
      BY <1>8, <3>1, <3>2
    <3>4. QED
      BY <3>2, <3>3
  <2>3. QED
    BY <2>1, <2>2
<1>9. QED
  BY <1>3, <1>5, <1>6, <1>7, <1>8 DEF Connu, s, t

LEMMA ActualiserAJour ==
  ASSUME AJourInv, NEW r \in Requetes, Actualiser(r)
  PROVE  AJourInv'
<1>1. /\ pc[r] = "maj" /\ Passer(r, "ok")
      /\ UNCHANGED <<demande, resolu, avant>>
      /\ demande[r].route = "seal" /\ ~HorsDomaine(demande[r])
  BY DEF AJourInv, Chemins, Admise, Actualiser, historique
<1>2. \A q \in Requetes : pc'[q] = IF q = r THEN "ok" ELSE pc[q]
  BY <1>1 DEF AJourInv, Types, Passer
<1>3. Types'
  BY <1>1, ActualiserConnu DEF AJourInv, Types, Passer, Etapes
<1>4. Chemins'
  BY <1>1, <1>2 DEF AJourInv, Types, Chemins, Admise, Routes
<1>5. SceauxConnus'
  <2> SUFFICES ASSUME NEW q \in Requetes, Enregistre(q, pc[q])
               PROVE  Enregistre(q, pc[q])'
    BY DEF AJourInv, SceauxConnus
  <2>1. CASE q = r
    BY <1>1, <2>1, ActualiserConnu DEF Enregistre
  <2>2. CASE q # r
    <3> SUFFICES ASSUME demande[q].route = "seal", ~HorsDomaine(demande[q]),
                        pc[q] \in {"ok", "err", "compte", "repondue"}
                 PROVE  Connu(demande[q].salle, Cle(demande[q]).tick)'
      BY <1>1, <1>2, <2>2 DEF Enregistre
    <3>1. demande[q] \in Demandes /\ Connu(demande[q].salle, Cle(demande[q]).tick)
      BY DEF Enregistre, AJourInv, Types
    <3>2. demande[q].salle \in Salles /\ Cle(demande[q]).tick \in Ticks
      BY <3>1, DansLeDomaine, TickDeSceauNomme
    <3>3. QED
      BY <1>1, <3>1, <3>2, ActualiserConnu DEF Connu
  <2>3. QED
    BY <2>1, <2>2
<1>6. LecturesConnues'
  BY <1>1, ActualiserConnu DEF AJourInv, Types, LecturesConnues, Connu
<1>7. PasEnArriere' /\ Resolues'
  <2>1. \A q \in Requetes : Resolue(q)' => Resolue(q)
    BY <1>1, <1>2 DEF Resolue
  <2>2. QED
    BY <1>1, <2>1 DEF AJourInv, PasEnArriere, Resolues
<1>8. QED
  BY <1>3, <1>4, <1>5, <1>6, <1>7, ActualiserConnu DEF AJourInv

LEMMA ResoudreAJour ==
  ASSUME AJourInv, NEW r \in Requetes, Resoudre(r)
  PROVE  AJourInv'
<1> DEFINE s == demande[r].salle
           t == IF demande[r].tick = {} THEN dernier[s] ELSE demande[r].tick
<1>1. /\ pc[r] = "valider" /\ Passer(r, "lire") /\ resolu' = [resolu EXCEPT ![r] = t]
      /\ UNCHANGED <<demande, dernier, avant>>
      /\ demande[r].route = "read" /\ ~HorsDomaine(demande[r]) /\ demande[r] \in Demandes
  BY DEF AJourInv, Types, Resoudre, Traite
<1>2. s \in Salles /\ t \subseteq Ticks
  BY <1>1, DansLeDomaine, DemandesAssumption DEF AJourInv, Types, Formes
<1> HIDE DEF t
<1>3. \A q \in Requetes : /\ pc'[q] = IF q = r THEN "lire" ELSE pc[q]
                          /\ resolu'[q] = IF q = r THEN t ELSE resolu[q]
  BY <1>1 DEF AJourInv, Types, Passer
<1>4. Types'
  BY <1>1, <1>2 DEF AJourInv, Types, Passer, Etapes
<1>5. Chemins'
  BY <1>1, <1>3 DEF AJourInv, Types, Chemins, Admise
<1>6. UnSeul' /\ SceauxConnus'
  BY <1>1, <1>3 DEF AJourInv, UnSeul, SceauxConnus, Enregistre, Connu
<1>7. LecturesConnues'
  <2>0. \A u \in t : u \in Nat
    BY <1>2, ServeurAssumption
  <2>1. demande[r].tick = {} => \A u \in t : u <= u /\ u \in dernier[s]
    BY <2>0 DEF t
  <2>2. QED
    BY <1>1, <1>2, <1>3, <2>1 DEF AJourInv, LecturesConnues, Connu
<1>8. PasEnArriere'
  <2> SUFFICES ASSUME NEW q \in Requetes, NEW u \in resolu'[q], demande[q].tick = {},
                      NEW x \in avant[q], demande[x].salle = demande[q].salle
               PROVE  /\ demande[x].route = "seal" /\ ~HorsDomaine(demande[x])
                            => Cle(demande[x]).tick <= u
                      /\ demande[x].route = "read" /\ demande[x].tick = {}
                            => \A v \in resolu'[x] : v <= u
    BY <1>1 DEF PasEnArriere
  <2>1. x \in Requetes /\ pc[x] = "repondue" /\ resolu'[x] = resolu[x]
    BY <1>1, <1>3 DEF AJourInv, Types, Chemins
  <2>2. CASE q # r
    BY <1>3, <2>1, <2>2 DEF AJourInv, PasEnArriere
  <2>3. CASE q = r
    <3>1. u \in dernier[s] /\ \A v \in dernier[s] : v = u
      BY <1>2, <1>3, <2>3 DEF t, AJourInv, UnSeul
    <3>2. demande[x].route = "seal" /\ ~HorsDomaine(demande[x])
            => Connu(s, Cle(demande[x]).tick)
      BY <2>1, <2>3 DEF AJourInv, SceauxConnus, Enregistre
    <3>3. demande[x].tick = {} => \A v \in resolu[x] : Connu(s, v)
      BY <2>1, <2>3 DEF AJourInv, LecturesConnues
    <3>4. QED
      BY <2>1, <3>1, <3>2, <3>3 DEF Connu
  <2>4. QED
    BY <2>2, <2>3
<1>9. Resolues'
  <2> SUFFICES ASSUME NEW q \in Requetes, Resolue(q)', demande[q].tick = {},
                      NEW x \in avant[q], demande[x].salle = demande[q].salle
               PROVE  /\ demande[x].route = "seal" /\ ~HorsDomaine(demande[x])
                            => resolu'[q] # {}
                      /\ demande[x].route = "read" /\ demande[x].tick = {} /\ resolu'[x] # {}
                            => resolu'[q] # {}
    BY <1>1 DEF Resolues
  <2>1. x \in Requetes /\ pc[x] = "repondue" /\ resolu'[x] = resolu[x]
    BY <1>1, <1>3 DEF AJourInv, Types, Chemins
  <2>2. CASE q # r
    <3>1. Resolue(q)
      BY <1>1, <1>3, <2>2 DEF Resolue
    <3>2. QED
      BY <1>3, <2>1, <2>2, <3>1 DEF AJourInv, Resolues
  <2>3. CASE q = r
    <3>1. resolu'[q] = dernier[s]
      BY <1>3, <2>3 DEF t
    <3>2. demande[x].route = "seal" /\ ~HorsDomaine(demande[x])
            => Connu(s, Cle(demande[x]).tick)
      BY <2>1, <2>3 DEF AJourInv, SceauxConnus, Enregistre
    <3>3. demande[x].tick = {} => \A v \in resolu[x] : Connu(s, v)
      BY <2>1, <2>3 DEF AJourInv, LecturesConnues
    <3>4. QED
      BY <2>1, <3>1, <3>2, <3>3 DEF Connu
  <2>4. QED
    BY <2>2, <2>3
<1>10. QED
  BY <1>4, <1>5, <1>6, <1>7, <1>8, <1>9 DEF AJourInv

LEMMA AJourNext == AJourInv /\ [Next]_vars => AJourInv'
<1> SUFFICES ASSUME AJourInv, [Next]_vars PROVE AJourInv'
  OBVIOUS
<1> USE DEF historique, metriques, magasin
<1>0. ASSUME UNCHANGED <<dernier, pc, demande, resolu, avant>> PROVE AJourInv'
  BY <1>0 DEF AJourInv, Types, Chemins, Admise, UnSeul, SceauxConnus, Enregistre,
              LecturesConnues, PasEnArriere, Resolues, Resolue, Connu
<1>1. CASE UNCHANGED vars
  BY <1>0, <1>1 DEF vars
<1>2. ASSUME NEW r \in Requetes,
             NEW y \in {"ok", "err", "maj", "compte", "repondue", "rejetee"},
             Passer(r, y), UNCHANGED <<dernier, demande, resolu, avant>>,
             pc[r] # "repondue",
             y \in {"ok", "err"} => demande[r].route \in Routes,
             y \in {"maj", "ok"} => ~HorsDomaine(demande[r]),
             y = "err" => demande[r].route = "write" \/ HorsDomaine(demande[r]),
             y = "maj" => demande[r].route = "seal",
             Enregistre(r, y), Resolue(r) \/ y \in {"err", "maj", "rejetee"}
                                 \/ demande[r].route # "read" \/ HorsDomaine(demande[r])
      PROVE  AJourInv'
  <2>1. pc'[r] = y /\ demande' = demande
    BY <1>2 DEF AJourInv, Types, Passer
  <2>2. Resolue(r)' => Resolue(r)
    BY <1>2, <2>1 DEF Resolue
  <2>3. Admise(r, y) /\ y \in Etapes
    BY <1>2 DEF Admise, Etapes
  <2>4. QED
    BY <1>2, <2>2, <2>3, Avancer
<1>3. ASSUME NEW r \in Requetes, Sante(r) \/ Authentifier(r) \/ Delester(r)
      PROVE  AJourInv'
  BY <1>2, <1>3 DEF Sante, Authentifier, Delester, Arrive, Enregistre
<1>4. ASSUME NEW r \in Requetes, Refuser(r) \/ Ecrire(r) \/ Sceller(r) PROVE AJourInv'
  <2>1. pc[r] = "valider" /\ demande[r].route \in Routes
    BY <1>4 DEF Refuser, Ecrire, Sceller, Traite, AJourInv, Chemins, Admise
  <2>2. CASE Refuser(r)
    BY <1>2, <2>1, <2>2 DEF Refuser, Enregistre
  <2>3. CASE Ecrire(r)
    BY <1>2, <2>1, <2>3 DEF Ecrire, Traite, Enregistre
  <2>4. CASE Sceller(r)
    BY <1>2, <2>1, <2>4 DEF Sceller, Traite, Enregistre
  <2>5. QED
    BY <1>4, <2>2, <2>3, <2>4
<1>5. ASSUME NEW r \in Requetes, FinirLire(r) \/ FinirRelever(r) PROVE AJourInv'
  <2>1. CASE FinirLire(r)
    <3>1. demande[r].route = "read" /\ ~HorsDomaine(demande[r]) /\ Resolue(r)
      BY <2>1 DEF FinirLire, AJourInv, Chemins, Admise, Resolue
    <3>2. QED
      BY <1>2, <2>1, <3>1 DEF FinirLire, Enregistre, Routes
  <2>2. CASE FinirRelever(r)
    <3>1. demande[r].route = "metrics"
      BY <2>2 DEF FinirRelever, AJourInv, Chemins, Admise
    <3>2. QED
      BY <1>2, <2>2, <3>1 DEF FinirRelever, Enregistre
  <2>3. QED
    BY <1>5, <2>1, <2>2
<1>6. ASSUME NEW r \in Requetes, Compter(r) \/ Repondre(r) PROVE AJourInv'
  <2>1. demande[r].route = "read" => Resolue(r) \/ HorsDomaine(demande[r])
    BY <1>6 DEF Compter, Repondre, Resolue, AJourInv, Chemins, Admise
  <2>2. QED
    BY <1>2, <1>6, <2>1 DEF Compter, Repondre, Enregistre, AJourInv, SceauxConnus
<1>7. ASSUME NEW r \in Requetes, Lire(r) \/ Relever(r) PROVE AJourInv'
  BY <1>0, <1>7 DEF Lire, Relever
<1>8. QED
  BY <1>1, <1>3, <1>4, <1>5, <1>6, <1>7, AdmettreAJour, ActualiserAJour, ResoudreAJour
  DEF Next

(* A read that leaves its tick out goes by the latest tick sealed: at least *)
(* that of every seal answered before it came, and no earlier than such a   *)
(* read answered before it (main.rs:402-412, 465-467), for any number of    *)
(* requests under way.                                                      *)
THEOREM LecturesAJour == Spec => []LectureAJour
<1>1. ASSUME AJourInv PROVE LectureAJour
  <2> SUFFICES ASSUME NEW r \in Requetes, Resolue(r), demande[r].tick = {},
                      NEW q \in avant[r], demande[q].salle = demande[r].salle
               PROVE  /\ demande[q].route = "seal" /\ ~HorsDomaine(demande[q]) =>
                           \E t \in resolu[r] : Cle(demande[q]).tick <= t
                      /\ demande[q].route = "read" /\ demande[q].tick = {} =>
                           \A u \in resolu[q] : \E t \in resolu[r] : u <= t
    BY DEF LectureAJour
  <2>1. \A t \in resolu[r] :
          /\ demande[q].route = "seal" /\ ~HorsDomaine(demande[q]) => Cle(demande[q]).tick <= t
          /\ demande[q].route = "read" /\ demande[q].tick = {} => \A u \in resolu[q] : u <= t
    BY <1>1 DEF AJourInv, PasEnArriere
  <2>2. /\ demande[q].route = "seal" /\ ~HorsDomaine(demande[q]) => resolu[r] # {}
        /\ demande[q].route = "read" /\ demande[q].tick = {} /\ resolu[q] # {} => resolu[r] # {}
    BY <1>1 DEF AJourInv, Resolues
  <2>3. QED
    BY <2>1, <2>2
<1>2. QED
  BY AJourInit, AJourNext, <1>1, PTL DEF Spec
-----------------------------------------------------------------------------
(* The counters *)

Reussies(route) == {r \in Comptees(route) : Reussie(r)}

(* How a write on its way out will be counted.                              *)
Issues ==
  \A r \in Requetes : demande[r].route = "write" =>
    /\ pc[r] = "ok"  => Reussie(r)
    /\ pc[r] = "err" => ~Reussie(r)

ComptesInv ==
  /\ Types /\ Chemins
  /\ compteurs \in [Routes -> [ok : Nat, err : Nat]]
  /\ DOMAIN reponse = Requetes
  /\ Issues
  /\ ReponsesComptees

LEMMA ComptesInit == Init => ComptesInv
<1> SUFFICES ASSUME Init PROVE ComptesInv
  OBVIOUS
<1>1. Types /\ Chemins
  BY AJourInit DEF AJourInv
<1>2. compteurs \in [Routes -> [ok : Nat, err : Nat]] /\ DOMAIN reponse = Requetes /\ Issues
  BY DEF Init, Magasin!Init, Issues
<1>3. \A route : Comptees(route) = {}
  BY DEF Init, Comptees
<1>4. \A route \in Routes : compteurs[route].ok = 0 /\ compteurs[route].err = 0
  BY DEF Init
<1>5. ReponsesComptees
  <2>1. Cardinality({}) = 0
    BY FS_EmptySet
  <2>2. \A route \in Routes :
          compteurs[route].ok + compteurs[route].err = Cardinality(Comptees(route))
    BY <1>3, <1>4, <2>1
  <2>3. \A route : Reussies(route) = {}
    BY <1>3 DEF Reussies
  <2>4. \A route \in Routes : compteurs[route].ok = Cardinality(Reussies(route))
    BY <1>4, <2>1, <2>3
  <2>5. QED
    BY <2>2, <2>4 DEF ReponsesComptees, Reussies
<1>6. QED
  BY <1>1, <1>2, <1>5 DEF ComptesInv

(* A step that counts nothing leaves the counters true to the answers.      *)
LEMMA SansCompter ==
  ASSUME ComptesInv, UNCHANGED <<compteurs, demande>>,
         \A r \in Requetes : demande[r].route \in Routes =>
           (pc'[r] \in {"compte", "repondue"} <=> pc[r] \in {"compte", "repondue"}),
         \A r \in Requetes : demande[r].route = "write" /\ pc[r] \in {"compte", "repondue"} =>
           reponse'[r] = reponse[r]
  PROVE  ReponsesComptees'
<1>1. \A route \in Routes : Comptees(route)' = Comptees(route)
  BY DEF Comptees
<1>2. \A route \in Routes : Reussies(route)' = Reussies(route)
  BY <1>1 DEF Reussies, Reussie, Comptees
<1>3. QED
  BY <1>1, <1>2 DEF ComptesInv, ReponsesComptees, Reussies

LEMMA CompterComptes ==
  ASSUME ComptesInv, NEW r \in Requetes, Compter(r)
  PROVE  /\ compteurs' \in [Routes -> [ok : Nat, err : Nat]]
         /\ ReponsesComptees'
<1> DEFINE route == demande[r].route
<1>1. /\ pc[r] \in {"ok", "err"} /\ route \in Routes
      /\ UNCHANGED <<demande, reponse>>
  BY DEF ComptesInv, Chemins, Admise, Compter, magasin
<1>2. \A q \in Requetes : pc'[q] = IF q = r THEN "compte" ELSE pc[q]
  BY DEF ComptesInv, Types, Compter, Passer
<1> HIDE DEF route
<1>3. /\ compteurs' \in [Routes -> [ok : Nat, err : Nat]]
      /\ \A x \in Routes : x # route => compteurs'[x] = compteurs[x]
      /\ compteurs'[route].ok  = compteurs[route].ok + IF pc[r] = "ok" THEN 1 ELSE 0
      /\ compteurs'[route].err = compteurs[route].err + IF pc[r] = "err" THEN 1 ELSE 0
  <2>1. CASE pc[r] = "ok"
    <3>1. compteurs' = [compteurs EXCEPT ![route].ok = @ + 1]
      BY <2>1 DEF Compter, route
    <3>2. QED
      BY <1>1, <2>1, <3>1 DEF ComptesInv
  <2>2. CASE pc[r] = "err"
    <3>1. compteurs' = [compteurs EXCEPT ![route].err = @ + 1]
      BY <2>2 DEF Compter, route
    <3>2. QED
      BY <1>1, <2>2, <3>1 DEF ComptesInv
  <2>3. QED
    BY <1>1, <2>1, <2>2
<1>4. \A x : Comptees(x)' = IF x = route THEN Comptees(x) \cup {r} ELSE Comptees(x)
  BY <1>1, <1>2 DEF Comptees, route
<1>5. /\ \A x : IsFiniteSet(Comptees(x)) /\ r \notin Comptees(x)
      /\ \A x : IsFiniteSet(Reussies(x)) /\ r \notin Reussies(x)
  <2>1. \A x : Comptees(x) \subseteq Requetes /\ r \notin Comptees(x)
    BY <1>1 DEF Comptees
  <2>2. QED
    BY <2>1, FS_Subset, ServeurAssumption DEF Reussies
<1>6. \A x \in Routes :
        compteurs'[x].ok + compteurs'[x].err = Cardinality(Comptees(x)')
  <2> SUFFICES ASSUME NEW x \in Routes
               PROVE  compteurs'[x].ok + compteurs'[x].err = Cardinality(Comptees(x)')
    OBVIOUS
  <2>1. /\ compteurs[x].ok \in Nat /\ compteurs[x].err \in Nat
        /\ compteurs[x].ok + compteurs[x].err = Cardinality(Comptees(x))
    BY DEF ComptesInv, ReponsesComptees
  <2>2. CASE x = route
    <3>1. Cardinality(Comptees(x)') = Cardinality(Comptees(x)) + 1
      BY <1>4, <1>5, <2>2, FS_AddElement
    <3>2. QED
      BY <1>1, <1>3, <2>1, <2>2, <3>1
  <2>3. CASE x # route
    BY <1>3, <1>4, <2>1, <2>3
  <2>4. QED
    BY <2>2, <2>3
<1>7. \A x \in Routes : compteurs'[x].ok = Cardinality(Reussies(x)')
  <2> SUFFICES ASSUME NEW x \in Routes PROVE compteurs'[x].ok = Cardinality(Reussies(x)')
    OBVIOUS
  <2>1. compteurs[x].ok \in Nat /\ compteurs[x].ok = Cardinality(Reussies(x))
    BY DEF ComptesInv, ReponsesComptees, Reussies
  <2>2. \A q \in Requetes : Reussie(q)' <=> Reussie(q)
    BY <1>1 DEF Reussie
  <2>3. pc[r] = "ok" <=> Reussie(r)
    BY <1>1 DEF ComptesInv, Issues, Chemins, Admise, Reussie
  <2>4. CASE x = route /\ pc[r] = "ok"
    <3>1. Reussies(x)' = Reussies(x) \cup {r}
      BY <1>4, <2>2, <2>3, <2>4 DEF Reussies, Comptees
    <3>2. Cardinality(Reussies(x)') = Cardinality(Reussies(x)) + 1
      BY <1>5, <3>1, FS_AddElement
    <3>3. QED
      BY <1>3, <2>1, <2>4, <3>2
  <2>5. CASE ~(x = route /\ pc[r] = "ok")
    <3>1. Reussies(x)' = Reussies(x)
      BY <1>4, <2>2, <2>3, <2>5 DEF Reussies, Comptees
    <3>2. compteurs'[x].ok = compteurs[x].ok
      BY <1>3, <2>1, <2>5
    <3>3. QED
      BY <2>1, <3>1, <3>2
  <2>6. QED
    BY <2>4, <2>5
<1>8. QED
  BY <1>3, <1>6, <1>7 DEF ReponsesComptees, Reussies

LEMMA ReponseDonnee ==
  ASSUME ComptesInv, NEW r \in Requetes, NEW v, Magasin!Repondre(r, v)
  PROVE  /\ DOMAIN reponse' = Requetes /\ reponse'[r] = v
         /\ \A q \in Requetes \ {r} : reponse'[q] = reponse[q]
  BY DEF ComptesInv, Magasin!Repondre

(* A step of one request that counts nothing.                               *)
LEMMA AvancerComptes ==
  ASSUME ComptesInv, (Types /\ Chemins)', NEW r \in Requetes,
         UNCHANGED <<demande, compteurs>>, DOMAIN reponse' = Requetes,
         \A q \in Requetes \ {r} : pc'[q] = pc[q] /\ reponse'[q] = reponse[q],
         demande[r].route \in Routes =>
           (pc'[r] \in {"compte", "repondue"} <=> pc[r] \in {"compte", "repondue"}),
         demande[r].route = "write" =>
           /\ pc[r] \in {"compte", "repondue"} => reponse'[r] = reponse[r]
           /\ pc'[r] = "ok" => Reussie(r)'
           /\ pc'[r] = "err" => ~Reussie(r)'
  PROVE  ComptesInv'
<1>1. ReponsesComptees'
  BY SansCompter
<1>2. Issues'
  BY DEF ComptesInv, Issues, Reussie
<1>3. QED
  BY <1>1, <1>2 DEF ComptesInv

LEMMA ComptesNext ==
  ASSUME AJourInv, ComptesInv, [Next]_vars
  PROVE  ComptesInv'
<1> USE DEF historique, metriques, magasin
<1>1. (Types /\ Chemins)'
  BY AJourNext DEF AJourInv
<1>2. ASSUME NEW r \in Requetes, NEW y, Passer(r, y)
      PROVE  pc'[r] = y /\ \A q \in Requetes \ {r} : pc'[q] = pc[q]
  BY <1>2 DEF ComptesInv, Types, Passer
<1>3. CASE UNCHANGED vars
  <2>1. ReponsesComptees'
    BY <1>3, SansCompter DEF vars
  <2>2. Issues'
    BY <1>3 DEF vars, ComptesInv, Issues, Reussie
  <2>3. QED
    BY <1>1, <1>3, <2>1, <2>2 DEF vars, ComptesInv
<1>4. ASSUME NEW r \in Requetes, Sante(r) \/ Authentifier(r) \/ Delester(r) \/ Admettre(r)
      PROVE  ComptesInv'
  <2>1. /\ pc[r] = "a_venir" /\ UNCHANGED <<demande, compteurs, reponse>>
        /\ demande[r].route \in Routes =>
             Passer(r, "rejetee") \/ Passer(r, "valider") \/ Passer(r, "relever")
        /\ \E y : Passer(r, y)
    BY <1>4 DEF Sante, Authentifier, Delester, Admettre, Arrive, Routes
  <2>2. demande[r].route \in Routes => pc'[r] \in {"rejetee", "valider", "relever"}
    BY <1>2, <2>1
  <2>3. \A q \in Requetes \ {r} : pc'[q] = pc[q]
    BY <1>2, <2>1
  <2>4. "write" \in Routes /\ DOMAIN reponse' = Requetes
    BY <2>1 DEF Routes, ComptesInv
  <2>5. QED
    BY <1>1, <2>1, <2>2, <2>3, <2>4, AvancerComptes
<1>5. ASSUME NEW r \in Requetes, Refuser(r) PROVE ComptesInv'
  <2>1. /\ pc[r] = "valider" /\ HorsDomaine(demande[r]) /\ Passer(r, "err")
        /\ UNCHANGED <<demande, compteurs, reponse>>
    BY <1>5 DEF Refuser
  <2>2. ~Reussie(r)'
    BY <2>1 DEF Reussie
  <2>3. DOMAIN reponse' = Requetes
    BY <2>1 DEF ComptesInv
  <2>4. QED
    BY <1>1, <1>2, <2>1, <2>2, <2>3, AvancerComptes
<1>6. ASSUME NEW r \in Requetes, Ecrire(r) PROVE ComptesInv'
  <2>1. /\ pc[r] = "valider" /\ ~HorsDomaine(demande[r]) /\ UNCHANGED <<demande, compteurs>>
        /\ demande[r].route = "write"
    BY <1>6 DEF Ecrire, Traite
  <2>2. CASE /\ Magasin!Accepter(r, Cle(demande[r]), demande[r].entite, demande[r].pose)
             /\ Passer(r, "ok")
    <3>1. Magasin!Repondre(r, [nature |-> "ecrire", cle |-> Cle(demande[r]), ok |-> TRUE])
      BY <2>2 DEF Magasin!Accepter
    <3>2. /\ DOMAIN reponse' = Requetes
          /\ reponse'[r] = [nature |-> "ecrire", cle |-> Cle(demande[r]), ok |-> TRUE]
          /\ \A q \in Requetes \ {r} : reponse'[q] = reponse[q]
      BY <3>1, ReponseDonnee
    <3>3. reponse'[r].ok
      BY <3>2
    <3>4. Reussie(r)'
      BY <2>1, <3>3 DEF Reussie
    <3>5. QED
      BY <1>1, <1>2, <2>1, <2>2, <3>2, <3>4, AvancerComptes
  <2>3. CASE Magasin!Refuser(r, Cle(demande[r])) /\ Passer(r, "err")
    <3>1. Magasin!Repondre(r, [nature |-> "ecrire", cle |-> Cle(demande[r]), ok |-> FALSE])
      BY <2>3 DEF Magasin!Refuser
    <3>2. /\ DOMAIN reponse' = Requetes
          /\ reponse'[r] = [nature |-> "ecrire", cle |-> Cle(demande[r]), ok |-> FALSE]
          /\ \A q \in Requetes \ {r} : reponse'[q] = reponse[q]
      BY <3>1, ReponseDonnee
    <3>3. ~reponse'[r].ok
      BY <3>2
    <3>4. ~Reussie(r)'
      BY <2>1, <3>3 DEF Reussie
    <3>5. QED
      BY <1>1, <1>2, <2>1, <2>3, <3>2, <3>4, AvancerComptes
  <2>4. QED
    BY <1>6, <2>2, <2>3 DEF Ecrire
<1>7. ASSUME NEW r \in Requetes, Sceller(r) PROVE ComptesInv'
  <2>1. /\ pc[r] = "valider" /\ Passer(r, "maj")
        /\ UNCHANGED <<demande, compteurs>>
        /\ \E v : Magasin!Repondre(r, v)
    BY <1>7 DEF Sceller, Traite, Magasin!Sceller
  <2>2. DOMAIN reponse' = Requetes /\ \A q \in Requetes \ {r} : reponse'[q] = reponse[q]
    BY <2>1, ReponseDonnee
  <2>3. QED
    BY <1>1, <1>2, <2>1, <2>2, AvancerComptes
<1>8. ASSUME NEW r \in Requetes, Lire(r) PROVE ComptesInv'
  <2>1. /\ pc[r] = "lire" /\ demande[r].route = "read"
        /\ UNCHANGED <<pc, demande, compteurs>>
    BY <1>8 DEF Lire, ComptesInv, Chemins, Admise
  <2>2. \E v : Magasin!Repondre(r, v)
    BY <1>8 DEF Lire, Magasin!Regarder
  <2>3. DOMAIN reponse' = Requetes /\ \A q \in Requetes \ {r} : reponse'[q] = reponse[q]
    BY <2>2, ReponseDonnee
  <2>4. QED
    BY <1>1, <2>1, <2>3, AvancerComptes
<1>9. ASSUME NEW r \in Requetes,
             Actualiser(r) \/ Resoudre(r) \/ FinirLire(r) \/ Relever(r)
               \/ FinirRelever(r) \/ Repondre(r)
      PROVE  ComptesInv'
  <2>1. /\ UNCHANGED <<demande, compteurs, reponse>>
        /\ \/ UNCHANGED pc
           \/ pc[r] = "maj" /\ demande[r].route = "seal" /\ Passer(r, "ok")
           \/ pc[r] = "valider" /\ Passer(r, "lire")
           \/ pc[r] = "lire" /\ demande[r].route = "read" /\ Passer(r, "ok")
           \/ pc[r] = "relever" /\ demande[r].route \notin Routes /\ Passer(r, "compte")
           \/ pc[r] = "compte" /\ Passer(r, "repondue")
    BY <1>9 DEF Actualiser, Resoudre, Traite, FinirLire, Relever, FinirRelever, Repondre,
                ComptesInv, Chemins, Admise, Routes
  <2>2. DOMAIN reponse' = Requetes
    BY <2>1 DEF ComptesInv
  <2>3. \A q \in Requetes \ {r} : pc'[q] = pc[q]
    BY <1>2, <2>1
  <2>4. /\ demande[r].route \in Routes =>
             (pc'[r] \in {"compte", "repondue"} <=> pc[r] \in {"compte", "repondue"})
        /\ demande[r].route = "write" => pc'[r] = pc[r] \/ pc'[r] \notin {"ok", "err"}
    BY <1>2, <2>1
  <2>5. demande[r].route = "write" =>
          /\ pc'[r] = "ok" => Reussie(r)'
          /\ pc'[r] = "err" => ~Reussie(r)'
    BY <2>1, <2>4 DEF ComptesInv, Issues, Reussie
  <2>6. QED
    BY <1>1, <2>1, <2>2, <2>3, <2>4, <2>5, AvancerComptes
<1>10. ASSUME NEW r \in Requetes, Compter(r) PROVE ComptesInv'
  <2>1. /\ pc[r] \in {"ok", "err"} /\ Passer(r, "compte")
        /\ UNCHANGED <<demande, reponse>>
    BY <1>10 DEF Compter
  <2>2. Issues'
    BY <1>2, <2>1 DEF ComptesInv, Issues, Reussie
  <2>3. QED
    BY <1>1, <1>10, <2>1, <2>2, CompterComptes DEF ComptesInv
<1>11. QED
  BY <1>3, <1>4, <1>5, <1>6, <1>7, <1>8, <1>9, <1>10 DEF Next

(* The counters a scrape reads are the requests done so far, each counted   *)
(* once on its route and by what its answer means: a seal and a read        *)
(* succeed when they are of the domain, a write when the store took it too  *)
(* (metrics.rs:25-28, main.rs:330-531), for any number of requests at once. *)
THEOREM ComptesFideles == Spec => []ReponsesComptees
<1> DEFINE Inv == AJourInv /\ ComptesInv
<1>1. Init => Inv
  BY AJourInit, ComptesInit
<1>2. Inv /\ [Next]_vars => Inv'
  BY AJourNext, ComptesNext
<1>3. Inv => ReponsesComptees
  BY DEF ComptesInv
<1>4. QED
  BY <1>1, <1>2, <1>3, PTL DEF Spec

-----------------------------------------------------------------------------
(* What a read answers *)

ClesMagasin == Magasin!Cles

Ferme(k) == registre[k].etat \in {"Scelle", "Expire"}

Registres ==
  /\ registre = [k \in ClesMagasin |-> registre[k]]
  /\ \A k \in ClesMagasin :
       registre[k] = [etat |-> registre[k].etat, contenu |-> registre[k].contenu]

(* The keys sealed at some time are those which are, or have expired since. *)
ClesScellees ==
  /\ aScelle \subseteq ClesMagasin
  /\ \A k \in aScelle : Ferme(k)
  /\ \A k \in ClesMagasin : registre[k].etat = "Scelle" => k \in aScelle

(* Request q seals the key k. *)
Scelleur(q, k) ==
  demande[q].route = "seal" /\ ~HorsDomaine(demande[q]) /\ Cle(demande[q]) = k

SceauxPoses ==
  \A q \in Requetes : \A k \in ClesMagasin :
    Scelleur(q, k) /\ pc[q] \in {"maj", "ok", "err", "compte", "repondue"} => Ferme(k)

Lus(r) == IF reponse[r].nature = "lire" THEN reponse[r].lus ELSE {}

LusScelles ==
  \A r \in Requetes : \A lu \in Lus(r) :
    /\ lu.cle \in aScelle
    /\ registre[lu.cle].etat = "Scelle" => registre[lu.cle].contenu = lu.contenu

ALire(r, c)    == \E i \in DOMAIN aLire[r] : aLire[r][i] = c
Demandee(r, c) == \E i \in DOMAIN demande[r].cellules : demande[r].cellules[i] = c

(* What a read has not found yet of what was sealed before it came is still *)
(* to be looked at, or has expired.                                         *)
Trouvee(r, c, k) ==
  ALire(r, c) \/ registre[k].etat = "Expire" \/ \E lu \in Lus(r) : lu.cle = k

Lecture(r) ==
  /\ \A t, u \in resolu[r] : t = u
  /\ aLire[r] \in Seq(Cellules)
  /\ pc[r] # "lire" => aLire[r] = <<>>
  /\ pc[r] = "lire" => demande[r].salle \in Salles
  /\ \A q \in avant[r], c \in Cellules, t \in resolu[r] :
       LET k == CleDe(demande[r], c, t)
       IN  Demandee(r, c) /\ Scelleur(q, k) => Trouvee(r, c, k)

LectureInv ==
  /\ DOMAIN reponse = Requetes
  /\ aLire = [r \in Requetes |-> aLire[r]]
  /\ Registres /\ ClesScellees /\ SceauxPoses /\ LusScelles
  /\ \A r \in Requetes : Lecture(r)

LEMMA LectureInit == Init => LectureInv
<1> SUFFICES ASSUME Init PROVE LectureInv
  OBVIOUS
<1>1. /\ registre = [k \in ClesMagasin |-> Magasin!Vierge]
      /\ reponse = [r \in Requetes |-> Magasin!Aucun]
  BY DEF Init, Magasin!Init, ClesMagasin
<1>2. \A k \in ClesMagasin : registre[k] = [etat |-> "Vierge", contenu |-> Magasin!Rien]
  BY <1>1 DEF Magasin!Vierge
<1>3. Registres
  BY <1>1, <1>2 DEF Registres
<1>4. ClesScellees
  BY <1>2 DEF Init, ClesScellees
<1>5. SceauxPoses
  BY DEF Init, SceauxPoses
<1>6. \A r \in Requetes : Lus(r) = {}
  BY <1>1 DEF Lus, Magasin!Aucun
<1>7. LusScelles
  BY <1>6 DEF LusScelles
<1>8. \A r \in Requetes : Lecture(r)
  <2>1. \A r \in Requetes : resolu[r] = {} /\ aLire[r] = <<>> /\ pc[r] # "lire"
    BY DEF Init
  <2>2. <<>> \in Seq(Cellules)
    OBVIOUS
  <2>3. QED
    BY <2>1, <2>2 DEF Lecture
<1>9. DOMAIN reponse = Requetes /\ aLire = [r \in Requetes |-> aLire[r]]
  BY <1>1 DEF Init
<1>10. QED
  BY <1>3, <1>4, <1>5, <1>7, <1>8, <1>9 DEF LectureInv

-----------------------------------------------------------------------------

(* A seal or a write names a key of the store.                              *)
LEMMA CleDuMagasin ==
  ASSUME NEW d \in Demandes, d.route \in {"write", "seal"}, ~HorsDomaine(d)
  PROVE  Cle(d) \in ClesMagasin
<1>1. PICK t \in Ticks : d.tick = {t}
  BY DemandesAssumption DEF Formes
<1>2. d.salle \in Salles
  BY DansLeDomaine
<1>3. Head(d.cellules) \in Cellules
  <2>1. d.cellules \in Seq(Nat) /\ Len(d.cellules) = 1
    BY DemandesAssumption DEF Formes
  <2>2. Head(d.cellules) \in Nat
    BY <2>1
  <2>3. ~(Head(d.cellules) >= CellulesParSalle)
    BY DEF HorsDomaine
  <2>4. QED
    BY <2>2, <2>3, ServeurAssumption DEF Cellules
<1>4. Cle(d) = [salle |-> d.salle, cellule |-> Head(d.cellules), tick |-> t]
  BY <1>1 DEF Cle
<1>5. QED
  BY <1>2, <1>3, <1>4 DEF ClesMagasin, Magasin!Cles

(* What a step does to a register that is closed, and what closes one.      *)
Tenue(k) ==
  /\ registre[k].etat = "Expire" => registre'[k].etat = "Expire"
  /\ registre[k].etat = "Scelle" =>
       \/ registre'[k].etat = "Expire"
       \/ registre'[k].etat = "Scelle" /\ registre'[k].contenu = registre[k].contenu
  /\ registre'[k].etat = "Scelle" => registre[k].etat = "Scelle" \/ k \in aScelle'

RegistreTenu ==
  /\ Registres' /\ aScelle \subseteq aScelle'
  /\ \A k \in ClesMagasin : Tenue(k)

LEMMA UtiliserEffet ==
  ASSUME Registres, NEW k \in ClesMagasin, NEW c, NEW etat,
         NEW n, n = [etat |-> etat, contenu |-> c], Magasin!Utiliser(k, n)
  PROVE  /\ Registres' /\ registre'[k] = n
         /\ \A a \in ClesMagasin \ {k} :
              registre'[a] = registre[a] \/ registre'[a].etat = "Expire"
<1>1. PICK perdus : registre' = [a \in ClesMagasin |->
                                   IF a = k THEN n
                                   ELSE IF a \in perdus THEN Magasin!Expiree
                                   ELSE registre[a]]
  BY DEF Magasin!Utiliser, ClesMagasin
<1>2. Magasin!Expiree = [etat |-> "Expire", contenu |-> Magasin!Rien]
  BY DEF Magasin!Expiree
<1>3. registre'[k] = n
  BY <1>1
<1>4. \A a \in ClesMagasin \ {k} :
        registre'[a] = registre[a] \/ registre'[a] = Magasin!Expiree
  BY <1>1
<1>5. registre' = [a \in ClesMagasin |-> registre'[a]]
  BY <1>1
<1>6. ASSUME NEW a \in ClesMagasin
      PROVE  registre'[a] = [etat |-> registre'[a].etat, contenu |-> registre'[a].contenu]
  <2>1. CASE a = k
    BY <1>3, <2>1
  <2>2. CASE a # k /\ registre'[a] = registre[a]
    BY <2>2 DEF Registres
  <2>3. CASE registre'[a] = Magasin!Expiree
    BY <1>2, <2>3
  <2>4. QED
    BY <1>4, <2>1, <2>2, <2>3
<1>7. Registres'
  BY <1>5, <1>6 DEF Registres, ClesMagasin, Magasin!Cles
<1>8. QED
  BY <1>2, <1>3, <1>4, <1>7

LEMMA EcrireTenu ==
  ASSUME AJourInv, LectureInv, NEW r \in Requetes, Ecrire(r)
  PROVE  RegistreTenu
<1> DEFINE k == Cle(demande[r])
           n == [etat |-> "Ouvert",
                 contenu |-> [registre[k].contenu EXCEPT ![demande[r].entite] = demande[r].pose]]
<1>1. k \in ClesMagasin /\ aScelle' = aScelle /\ Registres
  BY CleDuMagasin DEF Ecrire, Traite, AJourInv, Types, LectureInv
<1>2. CASE Magasin!Accepter(r, k, demande[r].entite, demande[r].pose)
  <2>1. registre[k].etat \in {"Vierge", "Ouvert"} /\ Magasin!Utiliser(k, n)
    BY <1>2 DEF Magasin!Accepter
  <2> DEFINE c == n.contenu
  <2>2. n = [etat |-> "Ouvert", contenu |-> c]
    OBVIOUS
  <2> HIDE DEF n, k, c
  <2>3. /\ Registres' /\ registre'[k] = n
        /\ \A a \in ClesMagasin \ {k} :
             registre'[a] = registre[a] \/ registre'[a].etat = "Expire"
    BY <1>1, <2>1, <2>2, UtiliserEffet
  <2>4. registre'[k].etat = "Ouvert"
    BY <2>2, <2>3
  <2>5. \A a \in ClesMagasin : Tenue(a)
    BY <2>1, <2>3, <2>4 DEF Tenue
  <2>6. QED
    BY <1>1, <2>3, <2>5 DEF RegistreTenu
<1>3. CASE Magasin!Refuser(r, k)
  BY <1>1, <1>3 DEF Magasin!Refuser, RegistreTenu, Registres, Tenue, ClesMagasin, Magasin!Cles
<1>4. QED
  BY <1>2, <1>3 DEF Ecrire

LEMMA ScellerTenu ==
  ASSUME AJourInv, LectureInv, NEW r \in Requetes, Sceller(r)
  PROVE  /\ RegistreTenu
         /\ Cle(demande[r]) \in ClesMagasin
         /\ registre'[Cle(demande[r])].etat \in {"Scelle", "Expire"}
         /\ aScelle' = aScelle \cup
              {k \in {Cle(demande[r])} : registre'[k].etat = "Scelle"}
<1> DEFINE k == Cle(demande[r])
           n == [registre[k] EXCEPT !.etat = "Scelle"]
           c == registre[k].contenu
<1>1. k \in ClesMagasin /\ Registres
  BY CleDuMagasin DEF Sceller, Traite, AJourInv, Types, LectureInv
<1>2. aScelle' = aScelle \cup {a \in {k} : registre'[a].etat = "Scelle"}
  BY DEF Sceller
<1>3. CASE registre[k].etat = "Expire"
  <2>1. registre' = registre
    BY <1>3 DEF Sceller, Magasin!Sceller
  <2>2. QED
    BY <1>1, <1>2, <1>3, <2>1 DEF RegistreTenu, Registres, Tenue, ClesMagasin, Magasin!Cles
<1>4. CASE registre[k].etat # "Expire"
  <2>1. Magasin!Utiliser(k, n)
    BY <1>4 DEF Sceller, Magasin!Sceller
  <2>2. registre[k] = [etat |-> registre[k].etat, contenu |-> c]
    BY <1>1 DEF Registres
  <2>3. n = [etat |-> "Scelle", contenu |-> c]
    BY <2>2
  <2> HIDE DEF n, k, c
  <2>4. /\ Registres' /\ registre'[k] = n
        /\ \A a \in ClesMagasin \ {k} :
             registre'[a] = registre[a] \/ registre'[a].etat = "Expire"
    BY <1>1, <2>1, <2>3, UtiliserEffet
  <2>5. registre'[k].etat = "Scelle" /\ registre'[k].contenu = registre[k].contenu
    BY <2>3, <2>4 DEF c
  <2>6. k \in aScelle'
    BY <1>2, <2>5
  <2>7. \A a \in ClesMagasin : Tenue(a)
    BY <1>4, <2>4, <2>5, <2>6 DEF Tenue
  <2>8. QED
    BY <1>1, <1>2, <2>4, <2>5, <2>7 DEF RegistreTenu, k
<1>5. QED
  BY <1>3, <1>4

LEMMA RegistreInchange ==
  ASSUME LectureInv, UNCHANGED <<registre, aScelle>>
  PROVE  RegistreTenu
  BY DEF LectureInv, RegistreTenu, Registres, Tenue, ClesMagasin, Magasin!Cles

LEMMA FermeTient ==
  ASSUME RegistreTenu, NEW k \in ClesMagasin, Ferme(k)
  PROVE  Ferme(k)'
  BY DEF RegistreTenu, Tenue, Ferme

LEMMA ClesScelleesTient ==
  ASSUME LectureInv, RegistreTenu,
         \A k \in aScelle' : \/ k \in aScelle
                             \/ k \in ClesMagasin /\ registre'[k].etat = "Scelle"
  PROVE  ClesScellees'
<1>1. aScelle' \subseteq ClesMagasin
  BY DEF LectureInv, ClesScellees
<1>2. \A k \in aScelle' : Ferme(k)'
  BY FermeTient DEF LectureInv, ClesScellees, Ferme
<1>3. \A k \in ClesMagasin : registre'[k].etat = "Scelle" => k \in aScelle'
  BY DEF LectureInv, ClesScellees, RegistreTenu, Tenue
<1>4. QED
  BY <1>1, <1>2, <1>3 DEF ClesScellees, ClesMagasin, Magasin!Cles

(* What an answer holds of a key stays true of it.                          *)
LEMMA LuTient ==
  ASSUME LectureInv, RegistreTenu, NEW lu, lu.cle \in aScelle,
         registre[lu.cle].etat = "Scelle" => registre[lu.cle].contenu = lu.contenu
  PROVE  /\ lu.cle \in aScelle'
         /\ registre'[lu.cle].etat = "Scelle" => registre'[lu.cle].contenu = lu.contenu
<1>1. lu.cle \in ClesMagasin /\ Ferme(lu.cle) /\ Tenue(lu.cle)
  BY DEF LectureInv, ClesScellees, RegistreTenu
<1>2. QED
  BY <1>1 DEF RegistreTenu, Tenue, Ferme

(* A read that neither looks nor loses anything.                            *)
LEMMA LectureTient ==
  ASSUME AJourInv, LectureInv, RegistreTenu, NEW r \in Requetes,
         demande' = demande, resolu'[r] = resolu[r], aLire'[r] = aLire[r],
         avant'[r] = avant[r], Lus(r)' = Lus(r), pc'[r] # "lire" => aLire[r] = <<>>,
         pc'[r] = "lire" => pc[r] = "lire"
  PROVE  Lecture(r)'
<1>1. Lecture(r)
  BY DEF LectureInv
<1>2. ASSUME NEW q \in avant[r], NEW c \in Cellules, NEW t \in resolu[r], NEW k,
             k = CleDe(demande[r], c, t), Demandee(r, c), Scelleur(q, k)
      PROVE  Trouvee(r, c, k)'
  <2>1. Trouvee(r, c, k)
    BY <1>1, <1>2 DEF Lecture
  <2>2. k \in ClesMagasin
    BY <1>2, CleDuMagasin DEF Scelleur, AJourInv, Types
  <2>3. registre[k].etat = "Expire" => registre'[k].etat = "Expire"
    BY <2>2 DEF RegistreTenu, Tenue
  <2>4. ALire(r, c)' <=> ALire(r, c)
    BY DEF ALire
  <2>5. QED
    BY <2>1, <2>3, <2>4 DEF Trouvee
<1>3. \A c : Demandee(r, c)' <=> Demandee(r, c)
  BY DEF Demandee
<1>4. \A q, k : Scelleur(q, k)' <=> Scelleur(q, k)
  BY DEF Scelleur
<1>5. \A c, t : CleDe(demande[r], c, t)' = CleDe(demande[r], c, t)
  BY DEF CleDe
<1>6. QED
  BY <1>1, <1>2, <1>3, <1>4, <1>5 DEF Lecture

(* A step of request r leaves the others as they are.                       *)
Seule(r) ==
  /\ demande' = demande /\ DOMAIN reponse' = Requetes
  /\ aLire' = [q \in Requetes |-> aLire'[q]]
  /\ \A q \in Requetes \ {r} :
       /\ pc'[q] = pc[q] /\ resolu'[q] = resolu[q] /\ aLire'[q] = aLire[q]
       /\ avant'[q] = avant[q] /\ reponse'[q] = reponse[q]

LEMMA LecturePas ==
  ASSUME AJourInv, LectureInv, RegistreTenu, NEW r \in Requetes, Seule(r),
         \A k \in aScelle' : \/ k \in aScelle
                             \/ k \in ClesMagasin /\ registre'[k].etat = "Scelle",
         Lecture(r)',
         \A lu \in Lus(r)' :
           /\ lu.cle \in aScelle'
           /\ registre'[lu.cle].etat = "Scelle" => registre'[lu.cle].contenu = lu.contenu,
         \A k \in ClesMagasin :
           Scelleur(r, k) /\ pc'[r] \in {"maj", "ok", "err", "compte", "repondue"}
             => Ferme(k)'
  PROVE  LectureInv'
<1>1. ClesScellees'
  BY ClesScelleesTient
<1>2. \A q \in Requetes \ {r} : Lus(q)' = Lus(q)
  BY DEF Lus, Seule
<1>3. LusScelles'
  <2> SUFFICES ASSUME NEW q \in Requetes, NEW lu \in Lus(q)'
               PROVE  /\ lu.cle \in aScelle'
                      /\ registre'[lu.cle].etat = "Scelle"
                           => registre'[lu.cle].contenu = lu.contenu
    BY DEF LusScelles
  <2>1. CASE q = r
    BY <2>1
  <2>2. CASE q # r
    BY <1>2, <2>2, LuTient DEF LectureInv, LusScelles
  <2>3. QED
    BY <2>1, <2>2
<1>4. SceauxPoses'
  <2> SUFFICES ASSUME NEW q \in Requetes, NEW k \in ClesMagasin, Scelleur(q, k)',
                      pc'[q] \in {"maj", "ok", "err", "compte", "repondue"}
               PROVE  Ferme(k)'
    BY DEF SceauxPoses, ClesMagasin, Magasin!Cles
  <2>1. Scelleur(q, k)
    BY DEF Scelleur, Seule
  <2>2. CASE q = r
    BY <2>1, <2>2
  <2>3. CASE q # r
    BY <2>1, <2>3, FermeTient DEF LectureInv, SceauxPoses, Seule
  <2>4. QED
    BY <2>2, <2>3
<1>5. ASSUME NEW q \in Requetes, q # r PROVE Lecture(q)'
  <2>1. pc'[q] # "lire" => aLire[q] = <<>>
    BY <1>5 DEF LectureInv, Lecture, Seule
  <2>2. QED
    BY <1>2, <1>5, <2>1, LectureTient DEF Seule
<1>6. QED
  BY <1>1, <1>3, <1>4, <1>5 DEF LectureInv, RegistreTenu, Seule

LEMMA LusDonnes ==
  ASSUME LectureInv, NEW r \in Requetes, NEW v, Magasin!Repondre(r, v)
  PROVE  /\ DOMAIN reponse' = Requetes /\ reponse'[r] = v
         /\ \A q \in Requetes \ {r} : reponse'[q] = reponse[q]
  BY DEF LectureInv, Magasin!Repondre

(* A step of one request that only moves it on.                             *)
LEMMA PasserLecture ==
  ASSUME AJourInv, LectureInv, NEW r \in Requetes, NEW y, Passer(r, y),
         UNCHANGED <<registre, reponse, aScelle, demande, resolu, aLire>>,
         y # "lire", pc[r] = "lire" => aLire[r] = <<>>,
         \/ UNCHANGED avant
         \/ /\ resolu[r] = {}
            /\ \A q \in Requetes \ {r} : avant'[q] = avant[q],
         \A k \in ClesMagasin :
           Scelleur(r, k) /\ y \in {"maj", "ok", "err", "compte", "repondue"} => Ferme(k)
  PROVE  LectureInv'
<1>1. RegistreTenu
  BY RegistreInchange
<1>2. \A q \in Requetes : pc'[q] = IF q = r THEN y ELSE pc[q]
  BY DEF AJourInv, Types, Passer
<1>3. Seule(r)
  BY <1>2 DEF Seule, LectureInv
<1>4. aLire[r] = <<>>
  BY DEF LectureInv, Lecture
<1>5. Lus(r)' = Lus(r)
  BY DEF Lus
<1>6. Lecture(r)'
  <2>1. CASE avant' = avant
    BY <1>1, <1>2, <1>4, <1>5, <2>1, LectureTient
  <2>2. CASE resolu[r] = {}
    <3>1. /\ resolu'[r] = {} /\ aLire'[r] = <<>> /\ pc'[r] # "lire"
          /\ <<>> \in Seq(Cellules)
      BY <1>2, <1>4, <2>2
    <3>2. QED
      BY <3>1 DEF Lecture
  <2>3. QED
    BY <2>1, <2>2
<1>7. ASSUME NEW lu \in Lus(r)'
      PROVE  /\ lu.cle \in aScelle'
             /\ registre'[lu.cle].etat = "Scelle" => registre'[lu.cle].contenu = lu.contenu
  BY <1>1, <1>5, <1>7, LuTient DEF LectureInv, LusScelles
<1>8. ASSUME NEW k \in ClesMagasin, Scelleur(r, k),
             pc'[r] \in {"maj", "ok", "err", "compte", "repondue"}
      PROVE  Ferme(k)'
  BY <1>2, <1>8 DEF Ferme
<1>9. QED
  BY <1>1, <1>3, <1>6, <1>7, <1>8, LecturePas

LEMMA EcrireLecture ==
  ASSUME AJourInv, LectureInv, NEW r \in Requetes, Ecrire(r)
  PROVE  LectureInv'
<1>1. /\ RegistreTenu /\ demande[r].route = "write" /\ pc[r] = "valider"
      /\ UNCHANGED <<demande, resolu, aLire, avant, aScelle>>
      /\ \E y \in {"ok", "err"} : Passer(r, y)
  BY EcrireTenu DEF Ecrire, Traite
<1>2. \E ok : Magasin!Repondre(r, [nature |-> "ecrire", cle |-> Cle(demande[r]), ok |-> ok])
  BY DEF Ecrire, Magasin!Accepter, Magasin!Refuser
<1>3. /\ DOMAIN reponse' = Requetes /\ reponse'[r].nature = "ecrire"
      /\ \A q \in Requetes \ {r} : reponse'[q] = reponse[q]
  <2>1. PICK v : v.nature = "ecrire" /\ Magasin!Repondre(r, v)
    BY <1>2
  <2>2. QED
    BY <2>1, LusDonnes
<1>4. /\ pc'[r] \in {"ok", "err"}
      /\ \A q \in Requetes \ {r} : pc'[q] = pc[q]
  BY <1>1 DEF AJourInv, Types, Passer
<1>5. Seule(r)
  BY <1>1, <1>3, <1>4 DEF Seule, LectureInv
<1>6. Lus(r)' = {}
  BY <1>3 DEF Lus
<1>7. Lecture(r)'
  <2>1. /\ resolu'[r] = {} /\ aLire'[r] = <<>> /\ pc'[r] # "lire"
        /\ <<>> \in Seq(Cellules)
    BY <1>1, <1>4 DEF AJourInv, Chemins, Admise, LectureInv, Lecture
  <2>2. QED
    BY <2>1 DEF Lecture
<1>8. QED
  BY <1>1, <1>5, <1>6, <1>7, LecturePas DEF Scelleur

LEMMA ScellerLecture ==
  ASSUME AJourInv, LectureInv, NEW r \in Requetes, Sceller(r)
  PROVE  LectureInv'
<1> DEFINE k == Cle(demande[r])
<1>1. /\ RegistreTenu /\ demande[r].route = "seal" /\ pc[r] = "valider"
      /\ UNCHANGED <<demande, resolu, aLire, avant>> /\ Passer(r, "maj")
      /\ k \in ClesMagasin /\ registre'[k].etat \in {"Scelle", "Expire"}
      /\ aScelle' = aScelle \cup {a \in {k} : registre'[a].etat = "Scelle"}
  BY ScellerTenu DEF Sceller, Traite
<1>2. Magasin!Repondre(r, [nature |-> "sceller", cle |-> k, contenu |-> registre[k].contenu])
  BY DEF Sceller, Magasin!Sceller
<1>3. /\ DOMAIN reponse' = Requetes /\ reponse'[r].nature = "sceller"
      /\ \A q \in Requetes \ {r} : reponse'[q] = reponse[q]
  <2>1. PICK v : v.nature = "sceller" /\ Magasin!Repondre(r, v)
    BY <1>2
  <2>2. QED
    BY <2>1, LusDonnes
<1>4. pc'[r] = "maj" /\ \A q \in Requetes \ {r} : pc'[q] = pc[q]
  BY <1>1 DEF AJourInv, Types, Passer
<1>5. Seule(r)
  BY <1>1, <1>3, <1>4 DEF Seule, LectureInv
<1>6. Lus(r)' = {}
  BY <1>3 DEF Lus
<1>7. Lecture(r)'
  <2>1. /\ resolu'[r] = {} /\ aLire'[r] = <<>> /\ pc'[r] # "lire"
        /\ <<>> \in Seq(Cellules)
    BY <1>1, <1>4 DEF AJourInv, Chemins, Admise, LectureInv, Lecture
  <2>2. QED
    BY <2>1 DEF Lecture
<1>8. \A a \in aScelle' : a \in aScelle \/ (a \in ClesMagasin /\ registre'[a].etat = "Scelle")
  BY <1>1
<1>9. \A a \in ClesMagasin : Scelleur(r, a) => Ferme(a)'
  BY <1>1 DEF Scelleur, Ferme
<1>10. QED
  BY <1>1, <1>5, <1>6, <1>7, <1>8, <1>9, LecturePas

(* The cells that a read keeps are those asked for that exist.              *)
LEMMA FiltreesType ==
  ASSUME NEW d \in Demandes
  PROVE  /\ Filtrees(d) \in Seq(Cellules)
         /\ \A c \in Cellules : (\E i \in DOMAIN d.cellules : d.cellules[i] = c)
              => \E i \in DOMAIN Filtrees(d) : Filtrees(d)[i] = c
<1> DEFINE j == d.cellules
           S == {i \in DOMAIN j : j[i] < CellulesParSalle}
<1>1. j \in Seq(Nat)
  BY DemandesAssumption DEF Formes
<1>2. DOMAIN j = 1..Len(j) /\ Len(j) \in Nat /\ \A i \in DOMAIN j : j[i] \in Nat
  BY <1>1
<1>3. S \in SUBSET (1..Len(j)) /\ Filtrees(d) = Extraire(j, S)
  BY <1>2 DEF Filtrees
<1>4. \A i \in DOMAIN j : i \in S <=> j[i] \in Cellules
  BY <1>2, ServeurAssumption DEF Cellules
<1> HIDE DEF S, j
<1>5. Extraire(j, S) \in Seq(Nat)
  BY <1>1, <1>3, ExtraireType
<1>6. PICK s : Extrait(j, S, s)
  BY <1>1, <1>3, ExtraireOrdre
<1> DEFINE L == Extraire(j, S)
<1>7. /\ s \in [1..Len(L) -> S] /\ \A n \in 1..Len(L) : L[n] = j[s[n]]
      /\ \A i \in S : \E n \in 1..Len(L) : s[n] = i
  BY <1>6 DEF Extrait
<1>8. L \in Seq(Nat) /\ Filtrees(d) = L
  BY <1>3, <1>5
<1> HIDE DEF L
<1>9. DOMAIN L = 1..Len(L) /\ Len(L) \in Nat /\ L \in [1..Len(L) -> Nat]
  BY <1>8
<1>10. \A n \in 1..Len(L) : L[n] \in Cellules
  BY <1>2, <1>3, <1>4, <1>7
<1>11. L \in Seq(Cellules)
  <2>1. L \in [1..Len(L) -> Cellules]
    BY <1>9, <1>10
  <2>2. QED
    BY <1>9, <2>1
<1>12. ASSUME NEW c \in Cellules, NEW i \in DOMAIN j, j[i] = c
       PROVE  \E n \in DOMAIN L : L[n] = c
  BY <1>4, <1>7, <1>9, <1>12
<1>13. QED
  BY <1>8, <1>11, <1>12 DEF j

LEMMA ResoudreLecture ==
  ASSUME AJourInv, LectureInv, NEW r \in Requetes, Resoudre(r)
  PROVE  LectureInv'
<1> DEFINE d == demande[r]
           t == IF d.tick = {} THEN dernier[d.salle] ELSE d.tick
           L == IF t = {} THEN <<>> ELSE Filtrees(d)
<1>1. /\ d \in Demandes /\ d.route = "read" /\ ~HorsDomaine(d) /\ pc[r] = "valider"
      /\ UNCHANGED <<registre, reponse, aScelle, demande, avant>>
      /\ resolu' = [resolu EXCEPT ![r] = t] /\ aLire' = [aLire EXCEPT ![r] = L]
      /\ Passer(r, "lire")
  BY DEF Resoudre, Traite, magasin, AJourInv, Types
<1>2. \A x, u \in t : x = u
  <2>1. d.salle \in Salles
    BY <1>1, DansLeDomaine
  <2>2. QED
    BY <1>1, <2>1, DemandesAssumption DEF AJourInv, UnSeul
<1>3. L \in Seq(Cellules)
  <2>1. <<>> \in Seq(Cellules)
    OBVIOUS
  <2>2. QED
    BY <1>1, <2>1, FiltreesType
<1>4. RegistreTenu
  BY <1>1, RegistreInchange
<1>5. \A c \in Cellules : t # {} /\ Demandee(r, c) => \E i \in DOMAIN L : L[i] = c
  BY <1>1, FiltreesType DEF Demandee
<1> HIDE DEF t, L
<1>6. /\ resolu'[r] = t /\ aLire'[r] = L /\ pc'[r] = "lire"
      /\ \A q \in Requetes \ {r} : /\ resolu'[q] = resolu[q] /\ aLire'[q] = aLire[q]
                                   /\ pc'[q] = pc[q]
      /\ aLire' = [q \in Requetes |-> aLire'[q]]
  BY <1>1 DEF AJourInv, Types, LectureInv, Passer
<1>7. Seule(r)
  BY <1>1, <1>6 DEF Seule, LectureInv
<1>8. \A c \in Cellules : t # {} /\ Demandee(r, c)' => ALire(r, c)'
  BY <1>1, <1>5, <1>6 DEF ALire, Demandee
<1>9. Lecture(r)'
  <2>1. \A x \in t : t # {}
    OBVIOUS
  <2>2. demande'[r].salle \in Salles
    BY <1>1, DansLeDomaine
  <2>3. QED
    BY <1>2, <1>3, <1>6, <1>8, <2>1, <2>2 DEF Lecture, Trouvee
<1>10. Lus(r)' = Lus(r)
  BY <1>1 DEF Lus
<1>11. ASSUME NEW lu \in Lus(r)'
       PROVE  /\ lu.cle \in aScelle'
              /\ registre'[lu.cle].etat = "Scelle" => registre'[lu.cle].contenu = lu.contenu
  BY <1>4, <1>10, <1>11, LuTient DEF LectureInv, LusScelles
<1>12. QED
  BY <1>1, <1>4, <1>6, <1>7, <1>9, <1>11, LecturePas

LEMMA LireLecture ==
  ASSUME AJourInv, LectureInv, NEW r \in Requetes, Lire(r)
  PROVE  LectureInv'
<1> DEFINE d == demande[r]
           L == aLire[r]
<1>1. /\ pc[r] = "lire" /\ L # <<>> /\ L \in Seq(Cellules) /\ d.route = "read"
      /\ UNCHANGED <<registre, aScelle, demande, resolu, pc, avant>>
      /\ aLire' = [aLire EXCEPT ![r] = Tail(@)]
      /\ reponse[r].nature = "lire" => reponse[r].lus \subseteq reponse'[r].lus
  BY DEF Lire, historique, Magasin!Regarder, LectureInv, Lecture, AJourInv, Chemins, Admise
<1>2. PICK t \in resolu[r] : Magasin!Regarder(r, {CleDe(d, Head(L), t)})
  BY DEF Lire
<1> DEFINE k == CleDe(d, Head(L), t)
           vu == {[cle |-> a, contenu |-> registre[a].contenu] :
                    a \in {b \in {k} : registre[b].etat = "Scelle"}}
<1>3. PICK debut : /\ debut = {} \/ (reponse[r].nature = "lire" /\ debut = reponse[r].lus)
                   /\ Magasin!Repondre(r, [nature |-> "lire", lus |-> debut \cup vu])
  BY <1>2 DEF Magasin!Regarder
<1> DEFINE v == [nature |-> "lire", lus |-> debut \cup vu]
<1>4. v.nature = "lire" /\ v.lus = debut \cup vu /\ Magasin!Repondre(r, v)
  BY <1>3
<1> HIDE DEF v, vu, k
<1>5. /\ DOMAIN reponse' = Requetes /\ reponse'[r] = v
      /\ \A q \in Requetes \ {r} : reponse'[q] = reponse[q]
  BY <1>4, LusDonnes
<1>6. Lus(r)' = debut \cup vu /\ debut \subseteq Lus(r) /\ Lus(r) \subseteq Lus(r)'
  BY <1>1, <1>3, <1>4, <1>5 DEF Lus
<1>7. RegistreTenu
  BY <1>1, RegistreInchange
<1>8. aLire'[r] = Tail(L) /\ \A q \in Requetes \ {r} : aLire'[q] = aLire[q]
  BY <1>1 DEF LectureInv
<1>9. Seule(r)
  <2>1. aLire' = [q \in Requetes |-> aLire'[q]]
    BY <1>1 DEF LectureInv
  <2>2. QED
    BY <1>1, <1>5, <1>8, <2>1 DEF Seule
<1>10. ASSUME registre[k].etat = "Scelle"
       PROVE  \E lu \in Lus(r)' : lu.cle = k
  <2>1. [cle |-> k, contenu |-> registre[k].contenu] \in vu
    BY <1>10 DEF vu
  <2>2. QED
    BY <1>6, <2>1
<1>11. k \in ClesMagasin /\ registre[k].etat = "Scelle" => k \in aScelle
  BY DEF LectureInv, ClesScellees
<1>12. ASSUME NEW c \in Cellules, ALire(r, c)
       PROVE  c = Head(L) \/ ALire(r, c)'
  <2>1. PICK i \in 1..Len(L) : L[i] = c
    BY <1>1, <1>12 DEF ALire
  <2>2. Len(Tail(L)) = Len(L) - 1 /\ \A n \in 1..Len(L) - 1 : Tail(L)[n] = L[n + 1]
    BY <1>1
  <2>3. CASE i = 1
    BY <1>1, <2>1, <2>3
  <2>4. CASE i # 1
    <3>1. i - 1 \in 1..Len(Tail(L)) /\ Tail(L)[i - 1] = c
      BY <1>1, <2>1, <2>2, <2>4
    <3>2. DOMAIN Tail(L) = 1..Len(Tail(L))
      BY <1>1
    <3>3. QED
      BY <1>8, <3>1, <3>2 DEF ALire
  <2>5. QED
    BY <2>3, <2>4
<1>13. Lecture(r)'
  <2>1. ASSUME NEW q \in avant[r], NEW c \in Cellules, NEW u \in resolu[r], NEW a,
               a = CleDe(d, c, u), Demandee(r, c), Scelleur(q, a)
        PROVE  Trouvee(r, c, a)'
    <3>1. Trouvee(r, c, a) /\ u = t
      BY <2>1 DEF LectureInv, Lecture
    <3>2. a \in ClesMagasin /\ q \in Requetes /\ pc[q] = "repondue"
      BY <2>1, CleDuMagasin DEF Scelleur, AJourInv, Types, Chemins
    <3>3. Ferme(a)
      BY <2>1, <3>2 DEF LectureInv, SceauxPoses
    <3>4. CASE ALire(r, c) /\ c = Head(L)
      <4>1. a = k
        BY <2>1, <3>1, <3>4 DEF k
      <4>2. QED
        BY <1>1, <1>10, <3>3, <4>1 DEF Trouvee, Ferme
    <3>5. CASE ~ALire(r, c) \/ c # Head(L)
      BY <1>1, <1>6, <1>12, <3>1, <3>5 DEF Trouvee
    <3>6. QED
      BY <3>4, <3>5
  <2>2. Tail(L) \in Seq(Cellules)
    BY <1>1
  <2>3. \A u, x \in resolu[r] : u = x
    BY DEF LectureInv, Lecture
  <2>4. \A c : Demandee(r, c)' <=> Demandee(r, c)
    BY <1>1 DEF Demandee
  <2>5. \A q, a : Scelleur(q, a)' <=> Scelleur(q, a)
    BY <1>1 DEF Scelleur
  <2>6. \A c, u : CleDe(demande[r], c, u)' = CleDe(d, c, u)
    BY <1>1 DEF CleDe
  <2>7. demande'[r].salle \in Salles
    BY <1>1 DEF LectureInv, Lecture
  <2>8. QED
    BY <1>1, <1>8, <2>1, <2>2, <2>3, <2>4, <2>5, <2>6, <2>7 DEF Lecture
<1>14. ASSUME NEW lu \in Lus(r)'
       PROVE  /\ lu.cle \in aScelle'
              /\ registre'[lu.cle].etat = "Scelle" => registre'[lu.cle].contenu = lu.contenu
  <2>1. CASE lu \in debut
    BY <1>6, <1>7, <2>1, LuTient DEF LectureInv, LusScelles
  <2>2. CASE lu \in vu
    <3>1. lu = [cle |-> k, contenu |-> registre[k].contenu] /\ registre[k].etat = "Scelle"
      BY <2>2 DEF vu
    <3>2. lu.cle = k /\ lu.contenu = registre[k].contenu
      BY <3>1
    <3>3. k \in aScelle
      <4>1. Head(L) \in Cellules
        BY <1>1
      <4>2. d.salle \in Salles /\ t \in Ticks
        BY <1>1 DEF AJourInv, Types, LectureInv, Lecture
      <4>3. k \in ClesMagasin
        BY <4>1, <4>2 DEF k, CleDe, ClesMagasin, Magasin!Cles
      <4>4. QED
        BY <1>11, <3>1, <4>3
    <3>4. QED
      BY <1>1, <3>2, <3>3
  <2>3. QED
    BY <1>6, <2>1, <2>2
<1>15. QED
  BY <1>1, <1>7, <1>9, <1>13, <1>14, LecturePas DEF Scelleur

LEMMA LectureNext ==
  ASSUME AJourInv, LectureInv, [Next]_vars
  PROVE  LectureInv'
<1> USE DEF historique, metriques, magasin
<1>1. ASSUME UNCHANGED <<registre, reponse, aScelle, demande, resolu, aLire, avant, pc>>
      PROVE  LectureInv'
  <2>1. RegistreTenu
    BY <1>1, RegistreInchange
  <2>2. Registres' /\ ClesScellees' /\ SceauxPoses'
    BY <1>1, <2>1 DEF LectureInv, RegistreTenu, ClesScellees, SceauxPoses, Scelleur, Ferme,
                      ClesMagasin, Magasin!Cles
  <2>3. LusScelles'
    BY <1>1 DEF LectureInv, LusScelles, Lus
  <2>4. \A r \in Requetes : Lecture(r)'
    BY <1>1, <2>1, LectureTient DEF LectureInv, Lecture, Lus
  <2>5. QED
    BY <1>1, <2>2, <2>3, <2>4 DEF LectureInv
<1>2. CASE UNCHANGED vars
  BY <1>1, <1>2 DEF vars
<1>3. ASSUME NEW r \in Requetes, Sante(r) \/ Authentifier(r) \/ Delester(r) \/ Admettre(r)
      PROVE  LectureInv'
  <2>1. /\ pc[r] = "a_venir" /\ resolu[r] = {}
        /\ UNCHANGED <<registre, reponse, aScelle, demande, resolu, aLire>>
        /\ \A q \in Requetes \ {r} : avant'[q] = avant[q]
        /\ \E y \in {"repondue", "rejetee", "valider", "relever"} :
             Passer(r, y) /\ (y = "repondue" => demande[r].route = "health")
    BY <1>3 DEF Sante, Authentifier, Delester, Admettre, Arrive, AJourInv, Types, Chemins, Admise
  <2>2. QED
    BY <2>1, PasserLecture DEF Scelleur
<1>4. ASSUME NEW r \in Requetes, Refuser(r) \/ Actualiser(r) \/ FinirLire(r) \/ Compter(r)
                                   \/ FinirRelever(r) \/ Repondre(r)
      PROVE  LectureInv'
  <2>1. /\ UNCHANGED <<registre, reponse, aScelle, demande, resolu, aLire, avant>>
        /\ \E y \in {"ok", "err", "compte", "repondue"} : Passer(r, y)
        /\ pc[r] = "lire" => aLire[r] = <<>>
        /\ \/ HorsDomaine(demande[r])
           \/ demande[r].route # "seal"
           \/ pc[r] \in {"maj", "ok", "err", "compte", "repondue"}
    BY <1>4 DEF Refuser, Actualiser, FinirLire, Compter, FinirRelever, Repondre,
                AJourInv, Chemins, Admise
  <2>2. \A k \in ClesMagasin : Scelleur(r, k) => Ferme(k)
    BY <2>1 DEF LectureInv, SceauxPoses, Scelleur
  <2>3. QED
    BY <2>1, <2>2, PasserLecture
<1>5. ASSUME NEW r \in Requetes, Relever(r) PROVE LectureInv'
  BY <1>1, <1>5 DEF Relever
<1>6. QED
  BY <1>2, <1>3, <1>4, <1>5, EcrireLecture, ScellerLecture, ResoudreLecture, LireLecture
  DEF Next

LEMMA LectureInvariant == Spec => [](AJourInv /\ LectureInv)
<1>1. Init => AJourInv /\ LectureInv
  BY AJourInit, LectureInit
<1>2. AJourInv /\ LectureInv /\ [Next]_vars => (AJourInv /\ LectureInv)'
  BY AJourNext, LectureNext
<1>3. QED
  BY <1>1, <1>2, PTL DEF Spec

(* A read's answer holds every cell it was asked for that was sealed before *)
(* it came and has not expired, and nothing that was not sealed, whole      *)
(* (main.rs:465-497): for any number of requests, cells and ticks, and a    *)
(* store of any retention.                                                  *)
THEOREM LecturesCompletes == Spec => []LectureComplete
<1>1. ASSUME AJourInv, LectureInv
      PROVE  LectureComplete
  <2>1. ASSUME NEW r \in Requetes, demande[r].route = "read",
               pc[r] \in {"ok", "compte", "repondue"},
               NEW q \in avant[r], NEW c \in Cellules, NEW t \in resolu[r], NEW k,
               k = CleDe(demande[r], c, t), Demandee(r, c), Scelleur(q, k)
        PROVE  registre[k].etat = "Expire" \/ \E lu \in Lus(r) : lu.cle = k
    <3>1. aLire[r] = <<>> /\ Trouvee(r, c, k)
      BY <1>1, <2>1 DEF LectureInv, Lecture
    <3>2. QED
      BY <3>1 DEF Trouvee, ALire
  <2>2. \A r \in Requetes : \A lu \in Lus(r) :
          /\ lu.cle \in aScelle
          /\ registre[lu.cle].etat = "Scelle" => registre[lu.cle].contenu = lu.contenu
    BY <1>1 DEF LectureInv, LusScelles
  <2>3. QED
    BY <2>1, <2>2 DEF LectureComplete, Lus, Demandee, Scelleur
<1>2. QED
  BY <1>1, LectureInvariant, PTL

-----------------------------------------------------------------------------
(* What a scrape shows *)

RouteDe(n) == IF n \in {1, 2} THEN "write" ELSE IF n \in {3, 4} THEN "seal" ELSE "read"
ChampDe(n) == IF n \in {1, 3, 5} THEN "ok" ELSE "err"

(* c is the list of the n elements of a and of the m elements of b.         *)
Accole(c, a, b, n, m) ==
  /\ Len(c) = n + m /\ DOMAIN c = 1..(n + m)
  /\ \A i \in 1..n : c[i] = a[i]
  /\ \A i \in 1..m : c[i + n] = b[i]

LEMMA Bout ==
  ASSUME NEW S, NEW a \in Seq(S), NEW b \in Seq(S), NEW n \in Nat, Len(a) = n,
         NEW m \in Nat, Len(b) = m
  PROVE  a \o b \in Seq(S) /\ Accole(a \o b, a, b, n, m)
<1>1. /\ a \o b \in Seq(S) /\ Len(a \o b) = n + m
      /\ \A i \in 1..n + m : (a \o b)[i] = IF i <= n THEN a[i] ELSE b[i - n]
  BY ConcatProperties
<1>2. \A i \in 1..n : i \in 1..n + m /\ i <= n
  OBVIOUS
<1>3. \A i \in 1..m : i + n \in 1..n + m /\ ~(i + n <= n) /\ (i + n) - n = i
  OBVIOUS
<1>4. DOMAIN (a \o b) = 1..Len(a \o b)
  OBVIOUS
<1>5. QED
  BY <1>1, <1>2, <1>3, <1>4 DEF Accole

(* The loads of a scrape, in their order.                                   *)
LEMMA Table ==
  /\ Len(Chargements) = 13 /\ DOMAIN Chargements = 1..13
  /\ \A n \in 1..6 :
       /\ Chargements[n] =
            [ligne |-> "requests_total", route |-> RouteDe(n), champ |-> ChampDe(n)]
       /\ Chargements[n + 6] =
            [ligne |-> "count", route |-> RouteDe(n), champ |-> ChampDe(n)]
  /\ Chargements[13] = RefusAuth
<1> DEFINE A == ParRoute("requests_total")
           B == ParRoute("count")
<1>1. ASSUME NEW ligne, NEW n \in 1..6
      PROVE  ParRoute(ligne)[n] = [ligne |-> ligne, route |-> RouteDe(n), champ |-> ChampDe(n)]
  <2>1. ParRoute(ligne)[n] = [ligne |-> ligne,
                              route |-> <<"write", "seal", "read">>[(n + 1) \div 2],
                              champ |-> IF n % 2 = 1 THEN "ok" ELSE "err"]
    BY DEF ParRoute
  <2>2. n \in {1, 2, 3, 4, 5, 6}
    OBVIOUS
  <2>3. (n + 1) \div 2 = IF n \in {1, 2} THEN 1 ELSE IF n \in {3, 4} THEN 2 ELSE 3
    BY <2>2
  <2>4. <<"write", "seal", "read">>[(n + 1) \div 2] = RouteDe(n)
    BY <2>2, <2>3 DEF RouteDe
  <2>5. (n % 2 = 1) <=> n \in {1, 3, 5}
    BY <2>2
  <2>6. QED
    BY <2>1, <2>4, <2>5 DEF ChampDe
<1>2. \A ligne : ParRoute(ligne) = [i \in 1..6 |-> ParRoute(ligne)[i]]
  BY DEF ParRoute
<1>3. ASSUME NEW S, NEW n \in Nat, NEW f \in [1..n -> S]
      PROVE  f \in Seq(S) /\ Len(f) = n
  OBVIOUS
<1> DEFINE C == <<RefusAuth>>
<1>4. C \in Seq({RefusAuth}) /\ Len(C) = 1 /\ C[1] = RefusAuth
  OBVIOUS
<1>5. Chargements = (A \o B) \o C
  BY DEF Chargements
<1> DEFINE X == {A[i] : i \in 1..6} \cup {B[i] : i \in 1..6} \cup {RefusAuth}
<1>6. /\ A \in Seq(X) /\ Len(A) = 6 /\ B \in Seq(X) /\ Len(B) = 6 /\ C \in Seq(X)
  <2>1. A \in [1..6 -> X] /\ B \in [1..6 -> X]
    BY <1>2
  <2>2. 6 \in Nat
    OBVIOUS
  <2> HIDE DEF A, B, X
  <2>3. A \in Seq(X) /\ Len(A) = 6 /\ B \in Seq(X) /\ Len(B) = 6
    BY <1>3, <2>1, <2>2
  <2>4. RefusAuth \in X
    BY DEF X
  <2>5. QED
    BY <2>3, <2>4
<1> HIDE DEF A, B, C, X
<1> DEFINE D == A \o B
           E == D \o C
<1>7. D \in Seq(X) /\ Accole(D, A, B, 6, 6)
  <2>1. 6 \in Nat
    OBVIOUS
  <2>2. QED
    BY <1>6, <2>1, Bout
<1> HIDE DEF D
<1>8. Len(D) = 12 /\ \A n \in 1..6 : D[n] = A[n] /\ D[n + 6] = B[n]
  BY <1>7 DEF Accole
<1>9. Accole(E, D, C, 12, 1)
  <2>1. 12 \in Nat /\ 1 \in Nat
    OBVIOUS
  <2>2. QED
    BY <1>4, <1>6, <1>7, <1>8, <2>1, Bout
<1>10. Chargements = E
  BY <1>5 DEF D
<1> HIDE DEF E
<1>11. /\ Len(E) = 13 /\ DOMAIN E = 1..13 /\ E[13] = RefusAuth
       /\ \A n \in 1..12 : E[n] = D[n]
  <2>1. 1 \in 1..1 /\ 1 + 12 = 13 /\ 12 + 1 = 13
    OBVIOUS
  <2>2. QED
    BY <1>4, <1>9, <2>1 DEF Accole
<1>12. \A n \in 1..6 : E[n] = A[n] /\ E[n + 6] = B[n]
  <2>1. \A n \in 1..6 : n \in 1..12 /\ n + 6 \in 1..12
    OBVIOUS
  <2>2. QED
    BY <1>8, <1>11, <2>1
<1>13. QED
  BY <1>1, <1>10, <1>11, <1>12 DEF A, B

LEMMA Ligne ==
  /\ \A n \in 1..6 : \A i \in {n, n + 6} :
       /\ Chargements[i] # RefusAuth
       /\ Chargements[i].route = RouteDe(n) /\ Chargements[i].champ = ChampDe(n)
  /\ Chargements[13] = RefusAuth
<1>1. ASSUME NEW n \in 1..6, NEW c,
             \/ c = [ligne |-> "requests_total", route |-> RouteDe(n), champ |-> ChampDe(n)]
             \/ c = [ligne |-> "count", route |-> RouteDe(n), champ |-> ChampDe(n)]
      PROVE  c # RefusAuth /\ c.route = RouteDe(n) /\ c.champ = ChampDe(n)
  <2>1. c.ligne # RefusAuth.ligne
    BY <1>1 DEF RefusAuth
  <2>2. QED
    BY <1>1, <2>1
<1>2. QED
  BY <1>1, Table

(* The line on which a scrape shows a value.                                *)
LEMMA VuEn ==
  ASSUME NEW r, NEW n \in 1..6
  PROVE  /\ Vu(r, [ligne |-> "requests_total", route |-> RouteDe(n), champ |-> ChampDe(n)])
              = releve[r][n]
         /\ Vu(r, [ligne |-> "count", route |-> RouteDe(n), champ |-> ChampDe(n)])
              = releve[r][n + 6]
<1> DEFINE P(x) == [ligne |-> "requests_total", route |-> RouteDe(x), champ |-> ChampDe(x)]
           Q(x) == [ligne |-> "count", route |-> RouteDe(x), champ |-> ChampDe(x)]
<1>1. ASSUME NEW x \in 1..6
      PROVE  /\ P(x) = P(n) \/ Q(x) = Q(n) => x = n
             /\ P(x) # Q(n) /\ Q(x) # P(n)
  <2>1. /\ P(x) = P(n) \/ Q(x) = Q(n) => RouteDe(x) = RouteDe(n) /\ ChampDe(x) = ChampDe(n)
        /\ P(x).ligne # Q(n).ligne /\ Q(x).ligne # P(n).ligne
    OBVIOUS
  <2>2. RouteDe(x) = RouteDe(n) /\ ChampDe(x) = ChampDe(n) => x = n
    BY DEF RouteDe, ChampDe
  <2>3. QED
    BY <2>1, <2>2
<1>2. P(n) # RefusAuth /\ Q(n) # RefusAuth
  <2>1. P(n).ligne # RefusAuth.ligne /\ Q(n).ligne # RefusAuth.ligne
    BY DEF RefusAuth
  <2>2. QED
    BY <2>1
<1> HIDE DEF P, Q
<1>3. /\ \A x \in 1..6 : Chargements[x] = P(x) /\ Chargements[x + 6] = Q(x)
      /\ Chargements[13] = RefusAuth /\ DOMAIN Chargements = 1..13
  BY Table DEF P, Q
<1>4. \A i \in 1..13 : \/ i \in 1..6
                       \/ i = 13
                       \/ i - 6 \in 1..6 /\ i = (i - 6) + 6
  OBVIOUS
<1>5. \A i \in 1..13 : Chargements[i] = P(n) <=> i = n
  BY <1>1, <1>2, <1>3, <1>4
<1>6. \A i \in 1..13 : Chargements[i] = Q(n) <=> i = n + 6
  BY <1>1, <1>2, <1>3, <1>4
<1>7. n \in 1..13 /\ n + 6 \in 1..13
  OBVIOUS
<1>8. /\ (CHOOSE i \in DOMAIN Chargements : Chargements[i] = P(n)) = n
      /\ (CHOOSE i \in DOMAIN Chargements : Chargements[i] = Q(n)) = n + 6
  BY <1>3, <1>5, <1>6, <1>7
<1>9. QED
  BY <1>8 DEF Vu, P, Q

Servies(r, route) == {q \in avant[r] : demande[q].route = route}

Compte(n) == compteurs[RouteDe(n)][ChampDe(n)]

Val(i) == Valeur(Chargements[i])

(* b stands for the results when r came: they were at least the requests    *)
(* answered by then, and what r shows is no less.                           *)
Socle(r, b) ==
  /\ \A n \in 1..6 : /\ b[n] <= Compte(n)
                     /\ n \in DOMAIN releve[r] => b[n] <= releve[r][n]
  /\ \A n \in {1, 3, 5} : Cardinality(Servies(r, RouteDe(n))) <= b[n] + b[n + 1]

Releve(r) ==
  /\ releve[r] \in Seq(Nat) /\ Len(releve[r]) <= 13
  /\ pc[r] = "a_venir" => releve[r] = <<>>
  /\ pc[r] # "relever" => releve[r] = <<>> \/ Len(releve[r]) = 13
  /\ \A i \in DOMAIN releve[r] : releve[r][i] <= Val(i)
  /\ \A n \in 1..6 : n + 6 \in DOMAIN releve[r] => releve[r][n] <= releve[r][n + 6]
  /\ \A q \in avant[r] : \A i \in DOMAIN releve[q] :
       i \in DOMAIN releve[r] => releve[q][i] <= releve[r][i]
  /\ \E b \in [1..6 -> Nat] : Socle(r, b)

ReleveInv ==
  /\ releve = [r \in Requetes |-> releve[r]] /\ refusAuth \in Nat
  /\ \A r \in Requetes : Releve(r)

LEMMA Longueur ==
  ASSUME NEW s \in Seq(Nat), Len(s) <= 13
  PROVE  /\ DOMAIN s = 1..Len(s) /\ Len(s) \in Nat
         /\ \A i \in DOMAIN s : s[i] \in Nat /\ i \in 1..13
         /\ Len(s) < 13 => Len(s) + 1 \in 1..13
         /\ Len(s) = 13 => DOMAIN s = 1..13
<1>1. DOMAIN s = 1..Len(s) /\ Len(s) \in Nat /\ \A i \in DOMAIN s : s[i] \in Nat
  OBVIOUS
<1>2. \A i \in 1..Len(s) : i \in 1..13
  BY <1>1
<1>3. Len(s) < 13 => Len(s) + 1 \in 1..13
  <2>1. \A n \in Nat : n < 13 => n + 1 \in 1..13
    OBVIOUS
  <2>2. QED
    BY <1>1, <2>1
<1>4. Len(s) = 13 => DOMAIN s = 1..13
  BY <1>1
<1>5. QED
  BY <1>1, <1>2, <1>3, <1>4

LEMMA CompteType ==
  ASSUME compteurs \in [Routes -> [ok : Nat, err : Nat]]
  PROVE  \A n \in 1..6 : Compte(n) \in Nat
<1> SUFFICES ASSUME NEW n \in 1..6 PROVE Compte(n) \in Nat
  OBVIOUS
<1>1. RouteDe(n) \in Routes /\ (ChampDe(n) = "ok" \/ ChampDe(n) = "err")
  BY DEF RouteDe, ChampDe, Routes
<1>2. compteurs[RouteDe(n)].ok \in Nat /\ compteurs[RouteDe(n)].err \in Nat
  BY <1>1
<1>3. QED
  BY <1>1, <1>2 DEF Compte

LEMMA ValeurDe ==
  /\ \A n \in 1..6 : Val(n) = Compte(n) /\ Val(n + 6) = Compte(n)
  /\ Val(13) = refusAuth
  BY Ligne DEF Val, Valeur, Compte

LEMMA ValeurDeApres ==
  /\ \A n \in 1..6 : Val(n)' = Compte(n)' /\ Val(n + 6)' = Compte(n)'
  /\ Val(13)' = refusAuth'
  BY Ligne DEF Val, Valeur, Compte

LEMMA ValType ==
  ASSUME compteurs \in [Routes -> [ok : Nat, err : Nat]], refusAuth \in Nat
  PROVE  \A i \in 1..13 : Val(i) \in Nat
<1>1. \A i \in 1..13 : i \in 1..6 \/ i = 13 \/ (i - 6 \in 1..6 /\ i = (i - 6) + 6)
  OBVIOUS
<1>2. QED
  BY <1>1, ValeurDe, CompteType

LEMMA ReleveInit == Init => ReleveInv
<1> SUFFICES ASSUME Init PROVE ReleveInv
  OBVIOUS
<1>1. releve = [r \in Requetes |-> <<>>] /\ refusAuth \in Nat
  BY DEF Init
<1>2. <<>> \in Seq(Nat) /\ Len(<<>>) = 0 /\ DOMAIN <<>> = {}
  OBVIOUS
<1>3. \A n \in 1..6 : Compte(n) \in Nat
  <2>1. compteurs \in [Routes -> [ok : Nat, err : Nat]]
    BY DEF Init
  <2>2. QED
    BY <2>1, CompteType
<1>4. ASSUME NEW r \in Requetes PROVE Socle(r, [n \in 1..6 |-> 0])
  <2>1. \A route : Servies(r, route) = {}
    BY DEF Init, Servies
  <2>2. Cardinality({}) = 0
    BY FS_EmptySet
  <2> DEFINE b == [n \in 1..6 |-> 0]
  <2>3. \A n \in 1..6 : b[n] = 0
    OBVIOUS
  <2>4. \A n \in {1, 3, 5} : b[n] + b[n + 1] = 0
    BY <2>3
  <2> HIDE DEF b
  <2>5. \A n \in 1..6 : n \notin DOMAIN releve[r]
    BY <1>1, <1>2
  <2>6. \A n \in 1..6 : b[n] <= Compte(n)
    BY <1>3, <2>3
  <2>7. \A n \in {1, 3, 5} : Cardinality(Servies(r, RouteDe(n))) <= b[n] + b[n + 1]
    BY <2>1, <2>2, <2>4
  <2>8. Socle(r, b)
    BY <2>5, <2>6, <2>7 DEF Socle
  <2>9. QED
    BY <2>8 DEF b
<1>5. ASSUME NEW r \in Requetes PROVE Releve(r)
  <2>1. \E b \in [1..6 -> Nat] : Socle(r, b)
    BY <1>4
  <2>2. releve[r] = <<>> /\ pc[r] = "a_venir" /\ avant[r] = {}
    BY DEF Init
  <2>3. QED
    BY <1>2, <2>1, <2>2 DEF Releve
<1>6. QED
  BY <1>1, <1>5 DEF ReleveInv

(* The counters only grow.                                                  *)
LEMMA ValCroit ==
  ASSUME ComptesInv, ComptesInv', ReleveInv, [Next]_vars
  PROVE  /\ refusAuth' \in Nat
         /\ \A n \in 1..6 : Compte(n) <= Compte(n)'
         /\ \A i \in 1..13 : Val(i) <= Val(i)'
<1> USE DEF metriques
<1>1. /\ compteurs \in [Routes -> [ok : Nat, err : Nat]]
      /\ compteurs' \in [Routes -> [ok : Nat, err : Nat]] /\ refusAuth \in Nat
  BY DEF ComptesInv, ReleveInv
<1>2. refusAuth' = refusAuth \/ refusAuth' = refusAuth + 1
  BY DEF Next, vars, Sante, Authentifier, Delester, Admettre, Arrive, Refuser, Ecrire,
         Sceller, Traite, Actualiser, Resoudre, Lire, FinirLire, Compter, Relever,
         FinirRelever, Repondre
<1>3. compteurs' = compteurs \/ \E r \in Requetes : Compter(r)
  BY DEF Next, vars, Sante, Authentifier, Delester, Admettre, Arrive, Refuser, Ecrire,
         Sceller, Traite, Actualiser, Resoudre, Lire, FinirLire, Relever,
         FinirRelever, Repondre
<1>4. \A x \in Routes : /\ compteurs[x].ok <= compteurs'[x].ok
                        /\ compteurs[x].err <= compteurs'[x].err
  <2>1. CASE compteurs' = compteurs
    BY <1>1, <2>1
  <2>2. ASSUME NEW r \in Requetes, Compter(r)
        PROVE  \A x \in Routes : /\ compteurs[x].ok <= compteurs'[x].ok
                                 /\ compteurs[x].err <= compteurs'[x].err
    <3> DEFINE route == demande[r].route
    <3>1. route \in Routes
      BY <2>2 DEF ComptesInv, Chemins, Admise, Compter
    <3>2. compteurs' = [compteurs EXCEPT ![route].ok = @ + 1]
            \/ compteurs' = [compteurs EXCEPT ![route].err = @ + 1]
      BY <2>2 DEF Compter
    <3> HIDE DEF route
    <3>3. CASE compteurs' = [compteurs EXCEPT ![route].ok = @ + 1]
      BY <1>1, <3>1, <3>3
    <3>4. CASE compteurs' = [compteurs EXCEPT ![route].err = @ + 1]
      BY <1>1, <3>1, <3>4
    <3>5. QED
      BY <3>2, <3>3, <3>4
  <2>3. QED
    BY <1>3, <2>1, <2>2
<1>5. ASSUME NEW n \in 1..6 PROVE Compte(n) <= Compte(n)'
  <2>1. RouteDe(n) \in Routes /\ (ChampDe(n) = "ok" \/ ChampDe(n) = "err")
    BY DEF RouteDe, ChampDe, Routes
  <2>2. QED
    BY <1>4, <2>1 DEF Compte
<1>6. \A i \in 1..13 : i \in 1..6 \/ i = 13 \/ (i - 6 \in 1..6 /\ i = (i - 6) + 6)
  OBVIOUS
<1>7. \A i \in 1..13 : \/ Val(i) = refusAuth /\ Val(i)' = refusAuth'
                       \/ \E n \in 1..6 : Val(i) = Compte(n) /\ Val(i)' = Compte(n)'
  BY <1>6, ValeurDe, ValeurDeApres
<1>8. refusAuth <= refusAuth' /\ refusAuth' \in Nat
  BY <1>1, <1>2
<1>9. QED
  BY <1>5, <1>7, <1>8

(* What a request has shown stays true while others move on.                *)
LEMMA ReleveTient ==
  ASSUME ComptesInv, ComptesInv', ReleveInv, [Next]_vars, NEW r \in Requetes,
         releve'[r] = releve[r], avant'[r] = avant[r], demande' = demande,
         \A q \in avant[r] : releve'[q] = releve[q],
         pc'[r] = "a_venir" => pc[r] = "a_venir",
         pc'[r] # "relever" => releve[r] = <<>> \/ Len(releve[r]) = 13
  PROVE  Releve(r)'
<1>1. /\ \A n \in 1..6 : Compte(n) \in Nat /\ Compte(n)' \in Nat /\ Compte(n) <= Compte(n)'
      /\ \A i \in 1..13 : Val(i) \in Nat /\ Val(i)' \in Nat /\ Val(i) <= Val(i)'
  <2>1. refusAuth \in Nat /\ refusAuth' \in Nat
    BY ValCroit DEF ReleveInv
  <2>2. compteurs \in [Routes -> [ok : Nat, err : Nat]]
        /\ compteurs' \in [Routes -> [ok : Nat, err : Nat]]
    BY DEF ComptesInv
  <2>3. /\ \A n \in 1..6 : Compte(n) \in Nat
        /\ \A i \in 1..13 : Val(i) \in Nat
    BY <2>1, <2>2, CompteType, ValType
  <2>4. \A n \in 1..6 : Compte(n)' \in Nat
    <3>1. \A n \in 1..6 : \E m \in 1..6 : Compte(n)' = Compte(m)'
      OBVIOUS
    <3> SUFFICES ASSUME NEW n \in 1..6 PROVE Compte(n)' \in Nat
      OBVIOUS
    <3>2. RouteDe(n) \in Routes /\ (ChampDe(n) = "ok" \/ ChampDe(n) = "err")
      BY DEF RouteDe, ChampDe, Routes
    <3>3. compteurs'[RouteDe(n)].ok \in Nat /\ compteurs'[RouteDe(n)].err \in Nat
      BY <2>2, <3>2
    <3>4. QED
      BY <3>2, <3>3 DEF Compte
  <2>5. \A i \in 1..13 : Val(i)' \in Nat
    <3>1. \A i \in 1..13 : i \in 1..6 \/ i = 13 \/ (i - 6 \in 1..6 /\ i = (i - 6) + 6)
      OBVIOUS
    <3>2. QED
      BY <2>1, <2>4, <3>1, ValeurDeApres
  <2>6. QED
    BY <2>3, <2>4, <2>5, ValCroit
<1>2. /\ Releve(r) /\ DOMAIN releve[r] = 1..Len(releve[r]) /\ Len(releve[r]) \in Nat
      /\ \A i \in DOMAIN releve[r] : releve[r][i] \in Nat /\ i \in 1..13
  <2>1. Releve(r) /\ releve[r] \in Seq(Nat) /\ Len(releve[r]) <= 13
    BY DEF ReleveInv, Releve
  <2>2. QED
    BY <2>1, Longueur
<1>3. ASSUME NEW i \in DOMAIN releve[r] PROVE releve[r][i] <= Val(i)'
  <2>1. releve[r][i] <= Val(i) /\ releve[r][i] \in Nat
    BY <1>2 DEF Releve
  <2>2. Val(i) \in Nat /\ Val(i)' \in Nat /\ Val(i) <= Val(i)'
    BY <1>1, <1>2
  <2>3. QED
    BY <2>1, <2>2
<1>4. PICK b \in [1..6 -> Nat] : Socle(r, b)
  BY <1>2 DEF Releve
<1>5. Socle(r, b)'
  <2>1. \A route : Servies(r, route)' = Servies(r, route)
    BY DEF Servies
  <2>2. ASSUME NEW n \in 1..6 PROVE b[n] <= Compte(n)'
    <3>1. b[n] \in Nat /\ b[n] <= Compte(n)
      BY <1>4 DEF Socle
    <3>2. Compte(n) \in Nat /\ Compte(n)' \in Nat /\ Compte(n) <= Compte(n)'
      BY <1>1
    <3>3. QED
      BY <3>1, <3>2
  <2>3. QED
    BY <1>4, <2>1, <2>2 DEF Socle
<1>6. QED
  BY <1>2, <1>3, <1>4, <1>5 DEF Releve

(* A scrape loads its next value.                                           *)
LEMMA ReleverPas ==
  ASSUME AJourInv, ComptesInv, ReleveInv, NEW r \in Requetes, Relever(r)
  PROVE  Releve(r)'
<1> DEFINE L == releve[r]
           m == Len(L) + 1
<1>1. /\ pc[r] = "relever" /\ Len(L) < 13 /\ Releve(r)
      /\ releve' = [releve EXCEPT ![r] = Append(@, Val(Len(@) + 1))]
      /\ UNCHANGED <<demande, avant, compteurs, refusAuth, pc>>
  BY Table DEF Relever, Val, ReleveInv, historique
<1>2. L \in Seq(Nat) /\ Len(L) \in Nat /\ DOMAIN L = 1..Len(L) /\ m \in 1..13
  <2>1. L \in Seq(Nat)
    BY <1>1 DEF Releve
  <2>2. QED
    BY <1>1, <2>1, Longueur
<1>3. releve'[r] = Append(L, Val(m)) /\ \A q \in Requetes \ {r} : releve'[q] = releve[q]
  BY <1>1 DEF ReleveInv
<1>4. /\ \A i \in 1..13 : Val(i)' = Val(i) /\ Val(i) \in Nat
      /\ \A n \in 1..6 : Compte(n)' = Compte(n) /\ Compte(n) \in Nat
  <2>1. compteurs \in [Routes -> [ok : Nat, err : Nat]] /\ refusAuth \in Nat
    BY DEF ComptesInv, ReleveInv
  <2>2. QED
    BY <1>1, <2>1, ValType, CompteType DEF Val, Valeur, Compte
<1> DEFINE M == releve'[r]
<1>5. /\ M \in Seq(Nat) /\ Len(M) = m /\ DOMAIN M = 1..m /\ M[m] = Val(m)
      /\ \A i \in DOMAIN L : M[i] = L[i]
      /\ DOMAIN M = DOMAIN L \cup {m} /\ m \notin DOMAIN L
  <2>1. Val(m) \in Nat
    BY <1>2, <1>4
  <2>2. QED
    BY <1>2, <1>3, <2>1
<1> HIDE DEF L, m, M
<1>6. \A i \in DOMAIN M : M[i] <= Val(i)'
  <2>1. \A i \in DOMAIN L : L[i] <= Val(i) /\ i \in 1..13
    <3>1. \A i \in DOMAIN L : i \in 1..13
      <4>1. L \in Seq(Nat) /\ Len(L) <= 13
        BY <1>1 DEF Releve, L
      <4>2. QED
        BY <4>1, Longueur
    <3>2. QED
      BY <1>1, <3>1 DEF Releve, L
  <2>2. Val(m) <= Val(m)
    <3>1. Val(m) \in Nat
      BY <1>2, <1>4
    <3>2. QED
      BY <3>1
  <2>3. QED
    BY <1>2, <1>4, <1>5, <2>1, <2>2
<1>7. ASSUME NEW n \in 1..6, n + 6 \in DOMAIN M PROVE M[n] <= M[n + 6]
  <2>1. n \in DOMAIN L /\ L[n] <= Val(n) /\ M[n] = L[n]
    <3>1. n \in 1..m /\ n # m /\ n \in DOMAIN M
      BY <1>2, <1>5, <1>7
    <3>2. n \in DOMAIN L
      BY <1>5, <3>1
    <3>3. QED
      BY <1>1, <1>5, <3>2 DEF Releve, L
  <2>2. CASE n + 6 = m
    <3>1. Val(n + 6) = Val(n)
      BY ValeurDe
    <3>2. QED
      BY <1>5, <2>1, <2>2, <3>1
  <2>3. CASE n + 6 # m
    <3>1. n + 6 \in DOMAIN L
      BY <1>5, <1>7, <2>3
    <3>2. QED
      BY <1>1, <1>5, <2>1, <3>1 DEF Releve, L
  <2>4. QED
    BY <2>2, <2>3
<1>8. ASSUME NEW q \in avant[r], NEW i \in DOMAIN releve'[q], i \in DOMAIN M
      PROVE  releve'[q][i] <= M[i]
  <2>1. q \in Requetes /\ q # r /\ Releve(q)
    BY <1>1 DEF AJourInv, Types, Chemins, ReleveInv
  <2>2. releve'[q] = releve[q] /\ i \in DOMAIN releve[q]
    BY <1>3, <1>8, <2>1
  <2>3. CASE i = m
    BY <1>5, <2>1, <2>2, <2>3 DEF Releve
  <2>4. CASE i # m
    BY <1>1, <1>5, <1>8, <2>2, <2>4 DEF Releve, L
  <2>5. QED
    BY <2>3, <2>4
<1>9. PICK b \in [1..6 -> Nat] : Socle(r, b)
  BY <1>1 DEF Releve
<1>10. Socle(r, b)'
  <2>1. \A route : Servies(r, route)' = Servies(r, route)
    BY <1>1 DEF Servies
  <2>2. \A n \in 1..6 : b[n] <= Compte(n) /\ (n \in DOMAIN L => b[n] <= L[n])
    BY <1>9 DEF Socle, L
  <2>3. \A n \in 1..6 : n \in DOMAIN M => b[n] <= M[n]
    BY <1>5, <2>2, ValeurDe
  <2>4. \A n \in 1..6 : b[n] <= Compte(n)'
    BY <1>4, <2>2
  <2>5. \A n \in {1, 3, 5} : Cardinality(Servies(r, RouteDe(n))) <= b[n] + b[n + 1]
    BY <1>9 DEF Socle
  <2>6. QED
    BY <2>1, <2>3, <2>4, <2>5 DEF Socle, M
<1>11. Len(M) <= 13 /\ pc'[r] = "relever"
  <2>1. Len(M) = m
    BY <1>5
  <2>2. m \in 1..13
    BY <1>2
  <2>3. Len(M) <= 13
    BY <2>1, <2>2
  <2>4. pc'[r] = "relever"
    BY <1>1
  <2>5. QED
    BY <2>3, <2>4
<1>12. QED
  BY <1>1, <1>5, <1>6, <1>7, <1>8, <1>9, <1>10, <1>11 DEF Releve, M

(* A request that comes finds the counters at least at what was answered.   *)
LEMMA AdmettrePas ==
  ASSUME AJourInv, ComptesInv, ReleveInv, NEW r \in Requetes, Admettre(r)
  PROVE  Releve(r)'
<1>1. /\ pc[r] = "a_venir" /\ releve' = releve /\ releve[r] = <<>>
      /\ UNCHANGED <<demande, compteurs, refusAuth>>
      /\ avant' = [avant EXCEPT ![r] = {q \in Requetes : pc[q] = "repondue"}]
      /\ Releve(r)
  BY DEF Admettre, Arrive, ReleveInv, Releve
<1>2. avant'[r] = {q \in Requetes : pc[q] = "repondue"} /\ DOMAIN releve'[r] = {}
  BY <1>1 DEF AJourInv, Types
<1>3. /\ compteurs \in [Routes -> [ok : Nat, err : Nat]]
      /\ \A n \in 1..6 : Compte(n)' = Compte(n) /\ Compte(n) \in Nat
  BY <1>1, CompteType DEF ComptesInv, Compte
<1>4. PICK b \in [1..6 -> Nat] : \A n \in 1..6 : b[n] = Compte(n)
  <2>1. [n \in 1..6 |-> Compte(n)] \in [1..6 -> Nat]
    BY <1>3
  <2>2. QED
    BY <2>1
<1>5. \A n \in 1..6 : b[n] <= Compte(n)'
  BY <1>3, <1>4
<1>6. ASSUME NEW n \in {1, 3, 5}
      PROVE  Cardinality(Servies(r, RouteDe(n))') <= b[n] + b[n + 1]
  <2> DEFINE route == RouteDe(n)
  <2>1. route \in Routes /\ Compte(n) = compteurs[route].ok
        /\ Compte(n + 1) = compteurs[route].err /\ n \in 1..6 /\ n + 1 \in 1..6
    BY DEF Compte, RouteDe, ChampDe, Routes
  <2> HIDE DEF route
  <2>2. b[n] + b[n + 1] = Cardinality(Comptees(route))
    BY <1>4, <2>1 DEF ComptesInv, ReponsesComptees
  <2>3. Servies(r, route)' \subseteq Comptees(route)
    BY <1>1, <1>2 DEF Servies, Comptees
  <2>4. IsFiniteSet(Comptees(route))
    <3>1. Comptees(route) \subseteq Requetes
      BY DEF Comptees
    <3>2. QED
      BY <3>1, FS_Subset, ServeurAssumption
  <2>5. Cardinality(Servies(r, route)') <= Cardinality(Comptees(route))
    BY <2>3, <2>4, FS_Subset
  <2>6. QED
    BY <2>2, <2>5 DEF route
<1>7. Socle(r, b)'
  <2>1. \A n \in 1..6 : n \notin DOMAIN releve'[r]
    BY <1>2
  <2>2. QED
    BY <1>5, <1>6, <2>1 DEF Socle
<1>8. pc'[r] # "a_venir"
  BY <1>1 DEF Admettre, Passer, AJourInv, Types
<1>9. /\ releve'[r] = <<>> /\ releve'[r] \in Seq(Nat) /\ Len(releve'[r]) <= 13
      /\ \A i : i \notin DOMAIN releve'[r]
  <2>1. <<>> \in Seq(Nat) /\ Len(<<>>) <= 13
    OBVIOUS
  <2>2. QED
    BY <1>1, <1>2, <2>1
<1>10. QED
  BY <1>4, <1>7, <1>8, <1>9 DEF Releve

LEMMA ReleveNext ==
  ASSUME AJourInv, ComptesInv, ComptesInv', ReleveInv, [Next]_vars
  PROVE  ReleveInv'
<1> USE DEF historique, metriques, magasin
<1>1. refusAuth' \in Nat
  BY ValCroit
<1>2. CASE UNCHANGED vars
  <2>1. \A r \in Requetes : Releve(r)'
    BY <1>2, ReleveTient DEF vars, ReleveInv, Releve
  <2>2. QED
    BY <1>1, <1>2, <2>1 DEF vars, ReleveInv
<1>3. ASSUME NEW r \in Requetes, NEW y, Passer(r, y)
      PROVE  pc'[r] = y /\ \A q \in Requetes \ {r} : pc'[q] = pc[q]
  BY <1>3 DEF AJourInv, Types, Passer
<1>4. ASSUME NEW r \in Requetes, releve' = releve, demande' = demande,
             \A q \in Requetes \ {r} : avant'[q] = avant[q] /\ pc'[q] = pc[q],
             Releve(r)'
      PROVE  ReleveInv'
  <2>1. ASSUME NEW q \in Requetes, q # r PROVE Releve(q)'
    <3>1. Releve(q) /\ avant'[q] = avant[q] /\ pc'[q] = pc[q]
      BY <1>4, <2>1 DEF ReleveInv
    <3>2. pc'[q] # "relever" => releve[q] = <<>> \/ Len(releve[q]) = 13
      BY <3>1 DEF Releve
    <3>3. QED
      BY <1>4, <3>1, <3>2, ReleveTient
  <2>2. QED
    BY <1>1, <1>4, <2>1 DEF ReleveInv
<1>5. ASSUME NEW r \in Requetes,
             \/ Sante(r) \/ Authentifier(r) \/ Delester(r) \/ Refuser(r) \/ Ecrire(r)
             \/ Sceller(r) \/ Actualiser(r) \/ Resoudre(r) \/ Lire(r) \/ FinirLire(r)
             \/ Compter(r) \/ FinirRelever(r) \/ Repondre(r)
      PROVE  ReleveInv'
  <2>1. /\ UNCHANGED <<releve, demande, avant>>
        /\ \/ UNCHANGED pc
           \/ \E y \in Etapes \ {"a_venir"} : Passer(r, y)
        /\ pc[r] = "relever" => Len(releve[r]) = 13
    BY <1>5, Table DEF Sante, Authentifier, Delester, Refuser, Ecrire, Sceller, Actualiser,
       Resoudre, Lire, FinirLire, Compter, FinirRelever, Repondre, Arrive, Traite, Etapes
  <2>2. \A q \in Requetes \ {r} : pc'[q] = pc[q]
    BY <1>3, <2>1
  <2>3. pc'[r] = "a_venir" => pc[r] = "a_venir"
    BY <1>3, <2>1
  <2>4. releve[r] = <<>> \/ Len(releve[r]) = 13
    BY <2>1 DEF ReleveInv, Releve
  <2>5. Releve(r)'
    BY <2>1, <2>3, <2>4, ReleveTient
  <2>6. QED
    BY <1>4, <2>1, <2>2, <2>5
<1>6. ASSUME NEW r \in Requetes, Admettre(r) PROVE ReleveInv'
  <2>1. /\ UNCHANGED <<releve, demande>>
        /\ \A q \in Requetes \ {r} : avant'[q] = avant[q] /\ pc'[q] = pc[q]
    BY <1>6 DEF Admettre, Arrive, Passer, AJourInv, Types
  <2>2. QED
    BY <1>4, <1>6, <2>1, AdmettrePas
<1>7. ASSUME NEW r \in Requetes, Relever(r) PROVE ReleveInv'
  <2>1. /\ pc[r] = "relever" /\ UNCHANGED <<demande, avant, pc>>
        /\ releve' = [q \in Requetes |-> releve'[q]]
        /\ \A q \in Requetes \ {r} : releve'[q] = releve[q]
    BY <1>7 DEF Relever, ReleveInv
  <2>2. ASSUME NEW q \in Requetes, q # r PROVE Releve(q)'
    <3>1. Releve(q) /\ releve'[q] = releve[q]
      BY <2>1, <2>2 DEF ReleveInv
    <3>2. \A x \in avant[q] : releve'[x] = releve[x]
      BY <2>1 DEF AJourInv, Types, Chemins
    <3>3. pc'[q] # "relever" => releve[q] = <<>> \/ Len(releve[q]) = 13
      BY <2>1, <3>1 DEF Releve
    <3>4. QED
      BY <2>1, <3>1, <3>2, <3>3, ReleveTient
  <2>3. QED
    BY <1>1, <1>7, <2>1, <2>2, ReleverPas DEF ReleveInv
<1>8. QED
  BY <1>2, <1>5, <1>6, <1>7 DEF Next

LEMMA ReleveInvariant == Spec => [](AJourInv /\ ComptesInv /\ ReleveInv)
<1>1. Init => AJourInv /\ ComptesInv /\ ReleveInv
  BY AJourInit, ComptesInit, ReleveInit
<1>2. AJourInv /\ ComptesInv /\ ReleveInv /\ [Next]_vars
        => (AJourInv /\ ComptesInv /\ ReleveInv)'
  BY AJourNext, ComptesNext, ReleveNext
<1>3. QED
  BY <1>1, <1>2, PTL DEF Spec

(* A scrape counts every request answered before it came, shows at least as *)
(* many observations as results, and nothing below what a scrape answered   *)
(* before it came showed, though its loads come one by one (metrics.rs:     *)
(* 59-136): for any number of requests and scrapes under way.               *)
THEOREM RelevesFideles == Spec => []ReleveFidele
<1>1. ASSUME AJourInv, ComptesInv, ReleveInv
      PROVE  ReleveFidele
  <2> SUFFICES ASSUME NEW r \in Requetes, pc[r] = "repondue", releve[r] # <<>>
               PROVE
       /\ \A route \in Routes :
            LET Resultat(champ) == Vu(r, [ligne |-> "requests_total", route |-> route,
                                          champ |-> champ])
                Nombre(champ)   == Vu(r, [ligne |-> "count", route |-> route,
                                          champ |-> champ])
            IN  /\ Cardinality({q \in avant[r] : demande[q].route = route})
                      <= Resultat("ok") + Resultat("err")
                /\ Resultat("ok") + Resultat("err") <= Nombre("ok") + Nombre("err")
       /\ \A q \in avant[r] : \A i \in DOMAIN releve[q] : releve[q][i] <= releve[r][i]
    BY DEF ReleveFidele
  <2> DEFINE L == releve[r]
  <2>1. Releve(r) /\ L \in Seq(Nat) /\ Len(L) = 13
    BY <1>1 DEF ReleveInv, Releve
  <2>2. DOMAIN L = 1..13 /\ \A i \in 1..13 : L[i] \in Nat
    <3>1. Len(L) <= 13
      BY <2>1
    <3> HIDE DEF L
    <3>2. QED
      BY <2>1, <3>1, Longueur
  <2>3. \A n \in 1..6 : L[n] <= L[n + 6]
    <3>1. \A n \in 1..6 : n + 6 \in DOMAIN L
      BY <2>2
    <3>2. QED
      BY <2>1, <3>1 DEF Releve
  <2>4. PICK b \in [1..6 -> Nat] : Socle(r, b)
    BY <2>1 DEF Releve
  <2>5. ASSUME NEW n \in {1, 3, 5}
        PROVE  /\ Cardinality(Servies(r, RouteDe(n))) <= L[n] + L[n + 1]
               /\ L[n] + L[n + 1] <= L[n + 6] + L[n + 7]
    <3>1. n \in 1..6 /\ n + 1 \in 1..6 /\ (n + 1) + 6 = n + 7 /\ n \in 1..13 /\ n + 1 \in 1..13
          /\ n + 6 \in 1..13 /\ n + 7 \in 1..13
      OBVIOUS
    <3>2. b[n] \in Nat /\ b[n + 1] \in Nat /\ b[n] <= L[n] /\ b[n + 1] <= L[n + 1]
          /\ Cardinality(Servies(r, RouteDe(n))) <= b[n] + b[n + 1]
      BY <2>2, <2>4, <3>1 DEF Socle
    <3>3. IsFiniteSet(Servies(r, RouteDe(n)))
      <4>1. Servies(r, RouteDe(n)) \subseteq Requetes
        BY <1>1 DEF Servies, AJourInv, Types
      <4>2. QED
        BY <4>1, FS_Subset, ServeurAssumption
    <3>4. Cardinality(Servies(r, RouteDe(n))) \in Nat
      BY <3>3, FS_CardinalityType
    <3>5. L[n] \in Nat /\ L[n + 1] \in Nat /\ L[n + 6] \in Nat /\ L[n + 7] \in Nat
      BY <2>2, <3>1
    <3>6. L[n] <= L[n + 6] /\ L[n + 1] <= L[n + 7]
      BY <2>3, <3>1
    <3> DEFINE x0 == Cardinality(Servies(r, RouteDe(n)))
               x1 == L[n]
               x2 == L[n + 1]
               x3 == L[n + 6]
               x4 == L[n + 7]
               y1 == b[n]
               y2 == b[n + 1]
    <3>7. /\ x0 \in Nat /\ x1 \in Nat /\ x2 \in Nat /\ x3 \in Nat /\ x4 \in Nat
          /\ y1 \in Nat /\ y2 \in Nat
          /\ y1 <= x1 /\ y2 <= x2 /\ x0 <= y1 + y2 /\ x1 <= x3 /\ x2 <= x4
      BY <3>2, <3>4, <3>5, <3>6
    <3> HIDE DEF x0, x1, x2, x3, x4, y1, y2
    <3>8. x0 <= x1 + x2 /\ x1 + x2 <= x3 + x4
      BY <3>7
    <3>9. QED
      BY <3>8 DEF x0, x1, x2, x3, x4
  <2>6. ASSUME NEW route \in Routes
        PROVE  /\ Cardinality({q \in avant[r] : demande[q].route = route})
                    <= Vu(r, [ligne |-> "requests_total", route |-> route, champ |-> "ok"])
                       + Vu(r, [ligne |-> "requests_total", route |-> route, champ |-> "err"])
               /\ Vu(r, [ligne |-> "requests_total", route |-> route, champ |-> "ok"])
                  + Vu(r, [ligne |-> "requests_total", route |-> route, champ |-> "err"])
                    <= Vu(r, [ligne |-> "count", route |-> route, champ |-> "ok"])
                       + Vu(r, [ligne |-> "count", route |-> route, champ |-> "err"])
    <3>1. PICK n \in {1, 3, 5} : route = RouteDe(n)
      BY DEF Routes, RouteDe
    <3>2. /\ ChampDe(n) = "ok" /\ ChampDe(n + 1) = "err" /\ RouteDe(n + 1) = RouteDe(n)
          /\ n \in 1..6 /\ n + 1 \in 1..6 /\ (n + 1) + 6 = n + 7
      BY DEF RouteDe, ChampDe
    <3>3. /\ Vu(r, [ligne |-> "requests_total", route |-> route, champ |-> "ok"]) = L[n]
          /\ Vu(r, [ligne |-> "requests_total", route |-> route, champ |-> "err"]) = L[n + 1]
          /\ Vu(r, [ligne |-> "count", route |-> route, champ |-> "ok"]) = L[n + 6]
          /\ Vu(r, [ligne |-> "count", route |-> route, champ |-> "err"]) = L[n + 7]
      BY <3>1, <3>2, VuEn
    <3>4. QED
      BY <2>5, <3>1, <3>3 DEF Servies
  <2>7. ASSUME NEW q \in avant[r], NEW i \in DOMAIN releve[q]
        PROVE  releve[q][i] <= releve[r][i]
    <3>1. q \in Requetes
      BY <1>1 DEF AJourInv, Types
    <3>2. releve[q] \in Seq(Nat) /\ Len(releve[q]) <= 13
      BY <1>1, <3>1 DEF ReleveInv, Releve
    <3>3. i \in DOMAIN L
      BY <2>2, <3>2, Longueur
    <3>4. QED
      BY <2>1, <3>3 DEF Releve
  <2>8. QED
    BY <2>6, <2>7
<1>2. QED
  BY <1>1, ReleveInvariant, PTL

-----------------------------------------------------------------------------
(* The layers *)

Refusees == {r \in Requetes : pc[r] = "rejetee" /\ ~demande[r].secret}

PlacesInv ==
  /\ Cardinality(EnService) <= Limite
  /\ refusAuth = Cardinality(Refusees)

LEMMA PlacesInit == Init => PlacesInv
<1> SUFFICES ASSUME Init PROVE PlacesInv
  OBVIOUS
<1>1. EnService = {} /\ Refusees = {} /\ refusAuth = 0
  BY DEF Init, EnService, Refusees
<1>2. Cardinality({}) = 0 /\ 0 <= Limite
  BY FS_EmptySet, ServeurAssumption
<1>3. QED
  BY <1>1, <1>2 DEF PlacesInv

LEMMA PlacesNext ==
  ASSUME AJourInv, PlacesInv, [Next]_vars
  PROVE  PlacesInv'
<1> USE DEF historique, metriques, magasin
<1>1. ASSUME NEW r \in Requetes, NEW y, Passer(r, y)
      PROVE  pc'[r] = y /\ \A q \in Requetes \ {r} : pc'[q] = pc[q]
  BY <1>1 DEF AJourInv, Types, Passer
<1>2. \A S : S \subseteq Requetes => IsFiniteSet(S)
  BY FS_Subset, ServeurAssumption
<1>3. EnService \subseteq Requetes /\ Refusees \subseteq Requetes
  BY DEF EnService, Refusees
<1>4. /\ Cardinality(EnService) \in Nat /\ Limite \in Nat
      /\ Cardinality(EnService) <= Limite
  BY <1>2, <1>3, FS_CardinalityType, ServeurAssumption DEF PlacesInv
<1>5. ASSUME EnService' \subseteq EnService, Refusees' = Refusees, refusAuth' = refusAuth
      PROVE  PlacesInv'
  <2>1. Cardinality(EnService') <= Cardinality(EnService) /\ Cardinality(EnService') \in Nat
    BY <1>2, <1>3, <1>5, FS_Subset, FS_CardinalityType
  <2>2. Cardinality(EnService') <= Limite
    BY <1>4, <2>1
  <2>3. QED
    BY <1>5, <2>2 DEF PlacesInv
<1>6. CASE UNCHANGED vars
  BY <1>5, <1>6 DEF vars, EnService, Refusees
<1>7. ASSUME NEW r \in Requetes, Authentifier(r) PROVE PlacesInv'
  <2>1. /\ pc[r] = "a_venir" /\ ~demande[r].secret /\ pc'[r] = "rejetee"
        /\ \A q \in Requetes \ {r} : pc'[q] = pc[q]
        /\ demande' = demande /\ refusAuth' = refusAuth + 1
    BY <1>1, <1>7 DEF Authentifier, Arrive
  <2>2. Refusees' = Refusees \cup {r} /\ r \notin Refusees
    BY <2>1 DEF Refusees
  <2>3. Cardinality(Refusees') = Cardinality(Refusees) + 1
    BY <1>2, <1>3, <2>2, FS_AddElement
  <2>4. EnService' = EnService
    BY <2>1 DEF EnService
  <2>5. QED
    BY <2>1, <2>3, <2>4 DEF PlacesInv
<1>8. ASSUME NEW r \in Requetes, Admettre(r) PROVE PlacesInv'
  <2>1. /\ pc[r] = "a_venir" /\ pc'[r] \in {"relever", "valider"}
        /\ \A q \in Requetes \ {r} : pc'[q] = pc[q]
        /\ demande' = demande /\ refusAuth' = refusAuth
        /\ Cardinality(EnService) < Limite
    BY <1>1, <1>8 DEF Admettre, Arrive
  <2>2. EnService' = EnService \cup {r} /\ r \notin EnService
    BY <2>1 DEF EnService
  <2>3. Cardinality(EnService') = Cardinality(EnService) + 1
    BY <1>2, <1>3, <2>2, FS_AddElement
  <2>4. Refusees' = Refusees
    BY <2>1 DEF Refusees
  <2>5. Cardinality(EnService') <= Limite
    BY <1>4, <2>1, <2>3
  <2>6. QED
    BY <2>1, <2>4, <2>5 DEF PlacesInv
<1>9. ASSUME NEW r \in Requetes,
             \/ Sante(r) \/ Delester(r) \/ Refuser(r) \/ Ecrire(r) \/ Sceller(r)
             \/ Actualiser(r) \/ Resoudre(r) \/ Lire(r) \/ FinirLire(r) \/ Compter(r)
             \/ Relever(r) \/ FinirRelever(r) \/ Repondre(r)
      PROVE  PlacesInv'
  <2>1. /\ UNCHANGED <<refusAuth, demande>>
        /\ \/ UNCHANGED pc
           \/ Passer(r, "repondue") /\ pc[r] # "rejetee"
           \/ Passer(r, "rejetee") /\ pc[r] # "rejetee" /\ demande[r].secret
           \/ /\ r \in EnService
              /\ \E y : Passer(r, y) /\ y # "rejetee"
    BY <1>9 DEF Sante, Delester, Refuser, Ecrire, Sceller, Actualiser, Resoudre, Lire,
       FinirLire, Compter, Relever, FinirRelever, Repondre, Arrive, Traite, EnService
  <2>2. EnService' \subseteq EnService
    BY <1>1, <2>1 DEF EnService
  <2>3. Refusees' = Refusees
    BY <1>1, <2>1 DEF Refusees, EnService
  <2>4. QED
    BY <1>5, <2>1, <2>2, <2>3
<1>10. QED
  BY <1>6, <1>7, <1>8, <1>9 DEF Next

LEMMA PlacesInvariant == Spec => [](AJourInv /\ PlacesInv)
<1>1. Init => AJourInv /\ PlacesInv
  BY AJourInit, PlacesInit
<1>2. AJourInv /\ PlacesInv /\ [Next]_vars => (AJourInv /\ PlacesInv)'
  BY AJourNext, PlacesNext
<1>3. QED
  BY <1>1, <1>2, PTL DEF Spec

(* Places are never exceeded, only requests of the domain get past their    *)
(* validation, and every value a request or the server keeps is of its kind *)
(* (main.rs:162-252, 265-268, 309-532), for any limit and any number of     *)
(* requests.                                                               *)
THEOREM ServeurType == Spec => []TypeOK
<1>1. ASSUME AJourInv, LectureInv, ReleveInv, PlacesInv
      PROVE  TypeOK
  <2>1. ASSUME NEW s \in Salles
        PROVE  dernier[s] \subseteq Ticks /\ Cardinality(dernier[s]) <= 1
    <3>1. dernier[s] \subseteq Ticks /\ \A t, u \in dernier[s] : t = u
      BY <1>1 DEF AJourInv, Types, UnSeul
    <3>2. dernier[s] = {} \/ \E t : dernier[s] = {t}
      BY <3>1
    <3>3. Cardinality({}) = 0 /\ \A t : Cardinality({t}) = 1
      BY FS_EmptySet, FS_Singleton
    <3>4. QED
      BY <3>1, <3>2, <3>3
  <2>2. ASSUME NEW r \in Requetes
        PROVE  /\ resolu[r] \subseteq Ticks /\ avant[r] \subseteq Requetes
               /\ aLire[r] \in Seq(Cellules)
               /\ Len(releve[r]) <= Len(Chargements)
               /\ pc[r] \in {"maj", "lire"} => demande[r].salle \in Salles
    <3>1. pc[r] = "maj" => demande[r].salle \in Salles
      BY <1>1, DansLeDomaine DEF AJourInv, Types, Chemins, Admise
    <3>2. QED
      BY <1>1, <3>1, Table DEF AJourInv, Types, LectureInv, Lecture, ReleveInv, Releve
  <2>3. refusAuth \in 0..Cardinality(Requetes)
    <3>1. Refusees \subseteq Requetes
      BY DEF Refusees
    <3>2. IsFiniteSet(Refusees) /\ Cardinality(Refusees) <= Cardinality(Requetes)
      BY <3>1, FS_Subset, ServeurAssumption
    <3>3. Cardinality(Refusees) \in Nat /\ Cardinality(Requetes) \in Nat
      BY <3>2, FS_CardinalityType, ServeurAssumption
    <3>4. QED
      BY <1>1, <3>2, <3>3 DEF PlacesInv
  <2>4. QED
    BY <1>1, <2>1, <2>2, <2>3 DEF TypeOK, AJourInv, Types, PlacesInv
<1>2. QED
  BY <1>1, LectureInvariant, ReleveInvariant, PlacesInvariant, PTL
-----------------------------------------------------------------------------
(* The addresses *)

(* The quotient and the remainder are what the division says they are.      *)
LEMMA Division ==
  ASSUME NEW a \in Nat, NEW b \in Nat, b > 0
  PROVE  /\ a \div b \in Nat /\ a % b \in 0 .. (b - 1)
         /\ a = b * (a \div b) + (a % b)
OBVIOUS

LEMMA QuotientUnique ==
  ASSUME NEW b \in Nat, NEW q \in Nat, NEW r \in 0 .. (b - 1),
         NEW u \in Nat, NEW s \in 0 .. (b - 1), b * q + r = b * u + s
  PROVE  q = u /\ r = s
<1>0. b \in Nat /\ b > 0
  OBVIOUS
<1>1. \A x, y \in Nat : x < y => b * x + b <= b * y
  BY <1>0
<1>2. b * q \in Nat /\ b * u \in Nat
  OBVIOUS
<1>3. ~(q < u) /\ ~(u < q)
  BY <1>0, <1>1, <1>2
<1>4. QED
  BY <1>2, <1>3

LEMMA DivisionUnique ==
  ASSUME NEW b \in Nat, NEW q \in Nat, NEW r \in 0 .. (b - 1)
  PROVE  (b * q + r) \div b = q /\ (b * q + r) % b = r
<1> DEFINE a == b * q + r
<1>1. b > 0 /\ a \in Nat
  OBVIOUS
<1>2. /\ a \div b \in Nat /\ a % b \in 0 .. (b - 1)
      /\ a = b * (a \div b) + (a % b)
  BY <1>1, Division
<1>3. \A u \in Nat, s \in 0 .. (b - 1) : b * q + r = b * u + s => q = u /\ r = s
  BY QuotientUnique
<1>4. QED
  BY <1>2, <1>3

(* A power of two above one is twice another.                               *)
LEMMA PuissanceMoitie ==
  ASSUME NEW n \in Nat, PuissanceDeDeux(n), n > 1
  PROVE  \E m \in Nat : n = 2 * m /\ m > 0 /\ PuissanceDeDeux(m)
<1>1. n % n = 0
  <2>1. (n * 1 + 0) % n = 0
    BY DivisionUnique
  <2>2. QED
    BY <2>1
<1>2. n % 2 = 0
  BY <1>1 DEF PuissanceDeDeux
<1>3. PICK m \in Nat : n = 2 * m /\ m > 0
  BY <1>2, Division
<1>4. ASSUME NEW k \in 2..m, m % k = 0
      PROVE  k % 2 = 0
  <2>1. PICK j \in Nat : m = k * j
    BY <1>4, Division
  <2>2. (k * (2 * j) + 0) % k = 0
    BY DivisionUnique
  <2>3. n % k = 0 /\ k \in 2..n
    BY <1>3, <2>1, <2>2
  <2>4. QED
    BY <2>3 DEF PuissanceDeDeux
<1>5. PuissanceDeDeux(m)
  BY <1>3, <1>4 DEF PuissanceDeDeux
<1>6. QED
  BY <1>3, <1>5

(* And twice a power of two is another: an odd divisor of the double is one *)
(* of the power itself.                                                     *)
LEMMA PuissanceDouble ==
  ASSUME NEW m \in Nat, PuissanceDeDeux(m)
  PROVE  PuissanceDeDeux(2 * m)
<1>1. m > 0
  BY DEF PuissanceDeDeux
<1>2. ASSUME NEW k \in 2 .. (2 * m), (2 * m) % k = 0, k % 2 # 0
      PROVE  FALSE
  <2>1. PICK e \in Nat : 2 * m = k * e
    BY <1>2, Division
  <2>2. PICK h \in Nat : k = 2 * h + 1
    BY <1>2, Division
  <2>3. k * e = 2 * (h * e) + e /\ h * e \in Nat
    BY <2>2
  <2>4. e = 2 * (m - h * e) /\ m - h * e \in Nat
    BY <2>1, <2>3
  <2>5. PICK f \in Nat : e = 2 * f
    BY <2>4
  <2>6. m = k * f
    <3>1. k * e = 2 * (k * f) /\ k * f \in Nat
      BY <2>5
    <3>2. QED
      BY <2>1, <3>1
  <2>7. f > 0
    BY <1>1, <2>6
  <2>8. k \in 2..m
    <3>1. k * f >= k
      BY <2>7
    <3>2. QED
      BY <2>6, <3>1
  <2>9. m % k = 0
    <3>1. (k * f + 0) % k = 0
      BY DivisionUnique
    <3>2. QED
      BY <2>6, <3>1
  <2>10. QED
    BY <1>2, <2>8, <2>9 DEF PuissanceDeDeux
<1>3. QED
  BY <1>1, <1>2 DEF PuissanceDeDeux

LEMMA PuissanceUn == PuissanceDeDeux(1)
BY DEF PuissanceDeDeux

(* Of two powers of two the smaller divides the larger, and the quotient is *)
(* one as well: a first pair that did not could be halved.                  *)
LEMMA PuissancesDivisent ==
  ASSUME NEW p \in Nat, PuissanceDeDeux(p), NEW q \in Nat, PuissanceDeDeux(q), p <= q
  PROVE  \E r \in Nat : q = p * r /\ PuissanceDeDeux(r)
<1> DEFINE Divise(x) ==
      \A y \in Nat : PuissanceDeDeux(x) /\ PuissanceDeDeux(y) /\ y <= x
        => \E r \in Nat : x = y * r /\ PuissanceDeDeux(r)
           S == {x \in 1..q : ~Divise(x)}
<1>1. q > 0
  BY DEF PuissanceDeDeux
<1>2. SUFFICES S = {}
  BY <1>1
<1>3. SUFFICES ASSUME S # {}
               PROVE  FALSE
  OBVIOUS
<1>4. PICK x \in S : \A b \in S : x <= b
  BY <1>3, Premier
<1>5. PICK y \in Nat : /\ PuissanceDeDeux(x) /\ PuissanceDeDeux(y) /\ y <= x
                       /\ ~ \E r \in Nat : x = y * r /\ PuissanceDeDeux(r)
  OBVIOUS
<1>6. x \in Nat /\ x > 0 /\ y > 0
  BY <1>5 DEF PuissanceDeDeux
<1>7. y > 1
  BY <1>5, <1>6
<1>8. PICK u \in Nat : x = 2 * u /\ u > 0 /\ PuissanceDeDeux(u)
  BY <1>5, <1>6, <1>7, PuissanceMoitie
<1>9. PICK v \in Nat : y = 2 * v /\ v > 0 /\ PuissanceDeDeux(v)
  BY <1>5, <1>7, PuissanceMoitie
<1>10. u \in 1..q /\ u < x /\ v <= u
  BY <1>4, <1>5, <1>6, <1>8, <1>9
<1>11. Divise(u)
  <2>1. u \notin S
    BY <1>4, <1>6, <1>10
  <2>2. QED
    BY <1>10, <2>1
<1>12. PICK r \in Nat : u = v * r /\ PuissanceDeDeux(r)
  BY <1>8, <1>9, <1>10, <1>11
<1>13. x = y * r
  BY <1>8, <1>9, <1>12
<1>14. QED
  BY <1>5, <1>12, <1>13

(* A product of powers of two is one.                                       *)
LEMMA PuissanceProduit ==
  ASSUME NEW p \in Nat, PuissanceDeDeux(p), NEW q \in Nat, PuissanceDeDeux(q)
  PROVE  p * q \in Nat /\ PuissanceDeDeux(p * q)
<1> DEFINE S == {x \in 1..p : PuissanceDeDeux(x) /\ ~PuissanceDeDeux(x * q)}
<1>1. p > 0
  BY DEF PuissanceDeDeux
<1>2. SUFFICES ASSUME S # {}
               PROVE  FALSE
  BY <1>1
<1>3. PICK x \in S : \A b \in S : x <= b
  BY <1>2, Premier
<1>4. x \in Nat /\ x > 1
  <2>1. 1 * q = q
    OBVIOUS
  <2>2. QED
    BY <2>1
<1>5. PICK u \in Nat : x = 2 * u /\ u > 0 /\ PuissanceDeDeux(u)
  BY <1>4, PuissanceMoitie
<1>6. u \in 1..p /\ u < x
  BY <1>3, <1>4, <1>5
<1>7. PuissanceDeDeux(u * q)
  BY <1>3, <1>4, <1>5, <1>6
<1>8. x * q = 2 * (u * q) /\ u * q \in Nat
  BY <1>5
<1>9. QED
  BY <1>7, <1>8, PuissanceDouble

LEMMA MoitieDuQuotient ==
  ASSUME NEW a \in Nat, NEW p \in Nat, p > 0
  PROVE  a \div (2 * p) = (a \div 2) \div p
<1> DEFINE u == a \div 2   i == a % 2   q == u \div p   r == u % p
<1>1. u \in Nat /\ i \in 0..1 /\ a = 2 * u + i
  BY Division
<1> HIDE DEF u, i
<1>2. q \in Nat /\ r \in 0 .. (p - 1) /\ u = p * q + r
  BY <1>1, Division
<1> HIDE DEF q, r
<1>3. 2 * p \in Nat /\ 2 * r + i \in 0 .. (2 * p - 1)
  BY <1>1, <1>2
<1>4. a = (2 * p) * q + (2 * r + i)
  BY <1>1, <1>2
<1>5. ((2 * p) * q + (2 * r + i)) \div (2 * p) = q
  BY <1>2, <1>3, DivisionUnique
<1>6. QED
  BY <1>4, <1>5 DEF u, q

(* The bits of weight up to n determine a number up to n: at the first n    *)
(* where two numbers had the same, their halves would already.              *)
LEMMA BitsUniques ==
  ASSUME NEW n \in Nat, NEW a \in 0..n, NEW b \in 0..n,
         \A p \in Poids(n) : Bit(a, p) = Bit(b, p)
  PROVE  a = b
<1> DEFINE Unique(m) == \A x, y \in 0..m :
                          (\A p \in Poids(m) : Bit(x, p) = Bit(y, p)) => x = y
           S == {m \in 1..n : ~Unique(m)}
<1>1. Unique(0)
  OBVIOUS
<1>2. SUFFICES ASSUME S # {}
               PROVE  FALSE
  BY <1>1
<1>3. PICK m \in S : \A k \in S : m <= k
  BY <1>2, Premier
<1>4. PICK x \in 0..m, y \in 0..m :
        (\A p \in Poids(m) : Bit(x, p) = Bit(y, p)) /\ x # y
  OBVIOUS
<1> DEFINE h == m \div 2   u == x \div 2   v == y \div 2
<1>5. m \in Nat /\ m > 0 /\ x \in Nat /\ y \in Nat
  OBVIOUS
<1>6. h \in Nat /\ 2 * h <= m /\ h < m /\ u \in 0..h /\ v \in 0..h
  BY <1>4, <1>5, Division
<1>7. x % 2 = y % 2
  <2>1. 1 \in Poids(m)
    BY <1>5, PuissanceUn DEF Poids
  <2>2. x \div 1 = x /\ y \div 1 = y
    BY <1>5
  <2>3. QED
    BY <1>4, <2>1, <2>2 DEF Bit
<1>8. ASSUME NEW p \in Poids(h)
      PROVE  Bit(u, p) = Bit(v, p)
  <2>1. p \in Nat /\ p > 0 /\ PuissanceDeDeux(p) /\ p <= h
    BY <1>6 DEF Poids
  <2>2. 2 * p \in Poids(m)
    BY <1>6, <2>1, PuissanceDouble DEF Poids
  <2>3. Bit(x, 2 * p) = Bit(u, p) /\ Bit(y, 2 * p) = Bit(v, p)
    BY <1>5, <2>1, MoitieDuQuotient DEF Bit
  <2>4. QED
    BY <1>4, <2>2, <2>3
<1>9. u = v
  <2>1. m <= n
    OBVIOUS
  <2>2. h \notin S
    BY <1>3, <1>5, <1>6
  <2>3. h = 0 \/ h \in 1..n
    BY <1>5, <1>6, <2>1
  <2> HIDE DEF h, u, v
  <2>4. CASE h = 0
    BY <1>6, <2>4
  <2>5. CASE h \in 1..n
    <3>1. Unique(h)
      BY <2>2, <2>5
    <3>2. QED
      BY <1>6, <1>8, <3>1
  <2>6. QED
    BY <2>3, <2>4, <2>5
<1>10. QED
  BY <1>4, <1>5, <1>7, <1>9, Division

(* A multiple of a power of two shares no bit with what is below that       *)
(* power: their sum has the bits of the two.                                *)
LEMMA BitsDisjoints ==
  ASSUME NEW m \in Nat, PuissanceDeDeux(m), 
         NEW a \in Nat, a % m = 0, NEW b \in 0 .. (m - 1),
         NEW p \in Nat, PuissanceDeDeux(p)
  PROVE  /\ Bit(a, p) \in 0..1 /\ Bit(b, p) \in 0..1
         /\ Bit(a, p) = 0 \/ Bit(b, p) = 0
         /\ Bit(a + b, p) = Bit(a, p) + Bit(b, p)
<1>1. m > 0 /\ p > 0 /\ b \in Nat
  BY DEF PuissanceDeDeux
<1>0. PICK k \in Nat : a = m * k
  BY <1>1, Division
<1>2. Bit(a, p) \in 0..1 /\ Bit(b, p) \in 0..1
  BY <1>1, Division DEF Bit
<1>3. CASE p < m
  <2>1. PICK q \in Nat : m = p * q /\ PuissanceDeDeux(q)
    BY <1>1, <1>3, PuissancesDivisent
  <2>2. q > 1
    BY <1>1, <1>3, <2>1 DEF PuissanceDeDeux
  <2>3. PICK h \in Nat : q = 2 * h
    BY <2>1, <2>2, PuissanceMoitie
  <2> DEFINE u == b \div p   r == b % p
  <2>4. u \in Nat /\ r \in 0 .. (p - 1) /\ b = p * u + r
    BY <1>1, Division
  <2> HIDE DEF u, r
  <2>5. a = p * (2 * (h * k)) /\ h * k \in Nat
    BY <1>0, <2>1, <2>3
  <2>6. (p * (2 * (h * k)) + 0) \div p = 2 * (h * k)
    BY <1>1, <2>5, DivisionUnique
  <2>7. (p * (2 * (h * k) + u) + r) \div p = 2 * (h * k) + u
    BY <1>1, <2>4, <2>5, DivisionUnique
  <2>8. a + b = p * (2 * (h * k) + u) + r
    BY <2>4, <2>5
  <2>9. a \div p = 2 * (h * k) /\ (a + b) \div p = 2 * (h * k) + u
    BY <2>5, <2>6, <2>7, <2>8
  <2>10. (2 * (h * k)) % 2 = 0 /\ (2 * (h * k) + u) % 2 = u % 2
    BY <2>4, <2>5
  <2>11. Bit(a, p) = 0 /\ Bit(a + b, p) = Bit(b, p)
    BY <2>9, <2>10 DEF Bit, u
  <2>12. QED
    BY <1>2, <2>11
<1>4. CASE m <= p
  <2>1. PICK q \in Nat : p = m * q /\ PuissanceDeDeux(q)
    BY <1>1, <1>4, PuissancesDivisent
  <2>2. q > 0
    BY <2>1 DEF PuissanceDeDeux
  <2> DEFINE u == k \div q   r == k % q
  <2>3. u \in Nat /\ r \in 0 .. (q - 1) /\ k = q * u + r
    BY <2>2, Division
  <2> HIDE DEF u, r
  <2>4. m * r \in Nat /\ m * r + m <= p
    <3>1. r + 1 <= q
      BY <2>3
    <3>2. m * (r + 1) <= m * q /\ m * (r + 1) = m * r + m
      BY <2>3, <3>1
    <3>3. QED
      BY <2>1, <2>3, <3>2
  <2>5. a = p * u + m * r
    BY <1>0, <2>1, <2>3
  <2>6. m * r \in 0 .. (p - 1) /\ m * r + b \in 0 .. (p - 1)
    BY <1>1, <2>4
  <2>7. (p * u + m * r) \div p = u /\ (p * u + (m * r + b)) \div p = u
    BY <2>3, <2>6, DivisionUnique
  <2>8. a + b = p * u + (m * r + b)
    BY <1>1, <2>3, <2>4, <2>5
  <2>9. Bit(a + b, p) = Bit(a, p)
    BY <2>5, <2>7, <2>8 DEF Bit
  <2>10. Bit(b, p) = 0
    <3>1. (p * 0 + b) \div p = 0
      <4>1. b \in 0 .. (p - 1)
        BY <1>1, <1>4
      <4>2. QED
        BY <4>1, DivisionUnique
    <3>2. QED
      BY <1>1, <3>1 DEF Bit
  <2>11. QED
    BY <1>2, <2>9, <2>10
<1>5. QED
  BY <1>1, <1>3, <1>4

(* What has the bits of the exclusive or is the exclusive or.               *)
LEMMA XorUnique ==
  ASSUME NEW a \in Nat, NEW b \in Nat, NEW n \in 0 .. (a + b),
         \A p \in Poids(a + b) : Bit(n, p) = (Bit(a, p) + Bit(b, p)) % 2
  PROVE  Xor(a, b) = n
<1> DEFINE Somme(x) == \A p \in Poids(a + b) : Bit(x, p) = (Bit(a, p) + Bit(b, p)) % 2
<1>1. Xor(a, b) \in 0 .. (a + b) /\ Somme(Xor(a, b))
  BY DEF Xor
<1>2. QED
  BY <1>1, BitsUniques

(* On bit fields `^` is the concatenation the comment of adresse says it is *)
(* (engine.rs:164-168), and a second `^` takes the fields apart again.      *)
LEMMA Concatenation ==
  ASSUME NEW m \in Nat, PuissanceDeDeux(m), 
         NEW a \in Nat, a % m = 0, NEW b \in 0 .. (m - 1)
  PROVE  /\ Xor(a, b) = a + b
         /\ Xor(a + b, a) = b
<1>1. b \in Nat
  OBVIOUS
<1>2. ASSUME NEW n \in Nat, NEW p \in Poids(n)
      PROVE  /\ Bit(a + b, p) = (Bit(a, p) + Bit(b, p)) % 2
             /\ Bit(b, p) = (Bit(a + b, p) + Bit(a, p)) % 2
  <2>1. p \in Nat /\ PuissanceDeDeux(p)
    BY DEF Poids
  <2>2. /\ Bit(a, p) \in 0..1 /\ Bit(b, p) \in 0..1
        /\ Bit(a, p) = 0 \/ Bit(b, p) = 0
        /\ Bit(a + b, p) = Bit(a, p) + Bit(b, p)
    BY <2>1, BitsDisjoints
  <2>3. QED
    BY <2>2
<1>3. Xor(a, b) = a + b
  <2>1. a + b \in 0 .. (a + b) /\ a + b \in Nat
    BY <1>1
  <2>2. \A p \in Poids(a + b) : Bit(a + b, p) = (Bit(a, p) + Bit(b, p)) % 2
    BY <1>2, <2>1
  <2>3. QED
    BY <1>1, <2>1, <2>2, XorUnique
<1>4. Xor(a + b, a) = b
  <2> DEFINE c == a + b
  <2>1. b \in 0 .. (c + a) /\ c \in Nat /\ c + a \in Nat
    BY <1>1
  <2>2. \A p \in Poids(c + a) : Bit(b, p) = (Bit(c, p) + Bit(a, p)) % 2
    BY <1>2, <2>1
  <2> HIDE DEF c
  <2>3. Xor(c, a) = b
    BY <1>1, <2>1, <2>2, XorUnique
  <2>4. QED
    BY <2>3 DEF c
<1>5. QED
  BY <1>3, <1>4

(* Dimensions avec_dimensions accepts, and what adresse may be asked there. *)
Place(d, room, cell, tick) ==
  /\ d \in [cellules : Nat, anneau : Nat] /\ DimensionsValides(d)
  /\ room \in Nat /\ cell \in 0 .. (d.cellules - 1) /\ tick \in Nat

(* The local part of an address stays under what one room takes.            *)
LEMMA AdresseDe ==
  ASSUME NEW d, NEW room, NEW cell, NEW tick, Place(d, room, cell, tick)
  PROVE  LET m == d.cellules * d.anneau
             l == d.anneau * cell + (tick % d.anneau)
         IN  /\ m \in Nat /\ l \in 0 .. (m - 1) /\ tick % d.anneau \in 0 .. (d.anneau - 1)
             /\ Adresse(d, room, cell, tick) = m * room + l
             /\ Coordonnees(d, room, cell, tick) = <<cell, tick % d.anneau>>
<1> DEFINE c == d.cellules   n == d.anneau   s == tick % n
           m == c * n   l == n * cell + s   a == Base(d, room)
<1>1. /\ c \in Nat /\ n \in Nat /\ PuissanceDeDeux(c) /\ PuissanceDeDeux(n)
      /\ room \in Nat /\ cell \in Nat /\ cell < c /\ tick \in Nat
  BY DEF Place, DimensionsValides
<1>2. m \in Nat /\ PuissanceDeDeux(m) /\ m > 0 /\ n > 0
  BY <1>1, PuissanceProduit DEF PuissanceDeDeux
<1>3. s \in 0 .. (n - 1)
  BY <1>1, <1>2, Division
<1>4. a = m * room /\ a \in Nat /\ a = room * c * n
  BY <1>1 DEF Base
<1>5. a % m = 0
  <2> HIDE DEF m, a
  <2>1. (m * room + 0) % m = 0
    BY <1>1, <1>2, DivisionUnique
  <2>2. QED
    BY <1>1, <1>2, <1>4, <2>1
<1>6. l \in 0 .. (m - 1)
  <2>1. n * (cell + 1) <= n * c
    BY <1>1
  <2>2. n * (cell + 1) = n * cell + n /\ n * c = m /\ n * cell \in Nat
    BY <1>1
  <2> HIDE DEF s, m
  <2>3. QED
    BY <1>1, <1>2, <1>3, <2>1, <2>2
<1>7. Xor(a, l) = a + l /\ Xor(a + l, a) = l
  <2> HIDE DEF a, l, m
  <2>1. QED
    BY <1>2, <1>4, <1>5, <1>6, Concatenation
<1>8. Adresse(d, room, cell, tick) = Xor(a, l)
  <2>1. cell * n = n * cell
    BY <1>1
  <2>2. QED
    BY <2>1 DEF Adresse
<1>9. l \div n = cell /\ l % n = s
  <2> HIDE DEF s
  <2>1. QED
    BY <1>1, <1>3, DivisionUnique
<1>10. Coordonnees(d, room, cell, tick) = <<cell, s>>
  BY <1>7, <1>8, <1>9 DEF Coordonnees
<1> HIDE DEF a, l, m, s
<1>11. Adresse(d, room, cell, tick) = m * room + l
  BY <1>4, <1>7, <1>8
<1>12. QED
  BY <1>2, <1>3, <1>6, <1>10, <1>11 DEF l, m, s

(* coordonnees gives back the cell and the place of the tick in its ring    *)
(* (engine.rs:201-213): its two array accesses stay in bounds, and the slot *)
(* of a tick is the one Moteur names by the tick modulo the ring.           *)
THEOREM CoordonneesExactes ==
  ASSUME NEW d, NEW room, NEW cell, NEW tick, Place(d, room, cell, tick)
  PROVE  /\ Coordonnees(d, room, cell, tick) = <<cell, tick % d.anneau>>
         /\ cell < d.cellules /\ tick % d.anneau \in 0 .. (d.anneau - 1)
<1>1. cell < d.cellules
  BY DEF Place
<1>2. QED
  BY <1>1, AdresseDe

(* Every address is under the number of slots of the engine (engine.rs:     *)
(* 40-50): 2^34 with the real constants, so that u64 does not overflow.     *)
THEOREM AdresseBornee ==
  ASSUME NEW d, NEW room, NEW cell, NEW tick, Place(d, room, cell, tick),
         NEW salles \in Nat, room < salles
  PROVE  Adresse(d, room, cell, tick) \in 0 .. (d.cellules * d.anneau * salles - 1)
<1> DEFINE m == d.cellules * d.anneau
           l == d.anneau * cell + (tick % d.anneau)
<1>1. m \in Nat /\ l \in 0 .. (m - 1) /\ Adresse(d, room, cell, tick) = m * room + l
  BY AdresseDe
<1>2. room \in Nat
  BY DEF Place
<1> HIDE DEF m, l
<1>3. m * (room + 1) <= m * salles
  BY <1>1, <1>2
<1>4. m * (room + 1) = m * room + m /\ m * room \in Nat /\ m * salles \in Nat
  BY <1>1, <1>2
<1>5. m * room + l \in 0 .. (m * salles - 1)
  BY <1>1, <1>3, <1>4
<1>6. QED
  BY <1>1, <1>5 DEF m

(* Two places that share an address share room, cell and slot.              *)
LEMMA AdresseUnique ==
  ASSUME NEW d, NEW room, NEW cell, NEW tick, Place(d, room, cell, tick),
         NEW salle, NEW cellule, NEW t, Place(d, salle, cellule, t),
         Adresse(d, room, cell, tick) = Adresse(d, salle, cellule, t)
  PROVE  room = salle /\ cell = cellule /\ tick % d.anneau = t % d.anneau
<1> DEFINE n == d.anneau   m == d.cellules * n   s == tick % n   u == t % n
           l == n * cell + s   k == n * cellule + u
<1>1. /\ m \in Nat /\ l \in 0 .. (m - 1) /\ s \in 0 .. (n - 1)
      /\ Adresse(d, room, cell, tick) = m * room + l
  BY AdresseDe
<1>2. /\ k \in 0 .. (m - 1) /\ u \in 0 .. (n - 1)
      /\ Adresse(d, salle, cellule, t) = m * salle + k
  BY AdresseDe
<1>3. n \in Nat /\ room \in Nat /\ salle \in Nat /\ cell \in Nat /\ cellule \in Nat
  BY DEF Place
<1>4. room = salle /\ l = k
  <2> HIDE DEF m, l, k
  <2>1. (m * room + l) \div m = room /\ (m * room + l) % m = l
    BY <1>1, <1>3, DivisionUnique
  <2>2. (m * salle + k) \div m = salle /\ (m * salle + k) % m = k
    BY <1>1, <1>2, <1>3, DivisionUnique
  <2>3. QED
    BY <1>1, <1>2, <2>1, <2>2
<1>5. cell = cellule /\ s = u
  <2> HIDE DEF s, u, n
  <2>1. (n * cell + s) \div n = cell /\ (n * cell + s) % n = s
    BY <1>1, <1>3, DivisionUnique
  <2>2. (n * cellule + u) \div n = cellule /\ (n * cellule + u) % n = u
    BY <1>2, <1>3, DivisionUnique
  <2>3. QED
    BY <1>4, <2>1, <2>2 DEF l, k
<1>6. QED
  BY <1>4, <1>5

LEMMA PlaceDeLAppel ==
  ASSUME AJourInv, TypeOK, NEW r \in Requetes, NEW k \in Appelees(r)
  PROVE  k.salle \in Salles /\ k.cellule \in Cellules /\ k.tick \in Nat
<1> DEFINE d == demande[r]
<1>1. d \in Demandes /\ d.salle \in Nat /\ d.cellules \in Seq(Nat)
  BY DemandesAssumption DEF AJourInv, Types, Formes
<1>2. CASE pc[r] = "valider" /\ d.route # "read" /\ ~HorsDomaine(d)
  <2>1. k = Cle(d)
    BY <1>2 DEF Appelees
  <2>2. d.route \in {"write", "seal"}
    BY <1>2 DEF AJourInv, Chemins, Admise, Routes
  <2>3. Len(d.cellules) = 1 /\ d.tick # {} /\ d.tick \subseteq Ticks
    BY <1>1, <2>2, DemandesAssumption DEF Formes
  <2>4. (CHOOSE t \in d.tick : TRUE) \in Ticks
    BY <2>3
  <2>5. Head(d.cellules) \in Nat /\ Head(d.cellules) < CellulesParSalle
    BY <1>1, <1>2, <2>3, ServeurAssumption DEF HorsDomaine
  <2>6. d.salle \in Salles
    BY <1>1, <1>2, DansLeDomaine
  <2>7. Head(d.cellules) \in Cellules
    BY <2>5, ServeurAssumption DEF Cellules
  <2> HIDE DEF d
  <2>8. QED
    BY <2>1, <2>4, <2>6, <2>7, ServeurAssumption DEF Cle
<1>3. CASE pc[r] = "lire"
  <2>1. PICK i \in DOMAIN aLire[r], t \in resolu[r] : k = CleDe(d, aLire[r][i], t)
    BY <1>3 DEF Appelees
  <2>2. aLire[r] \in Seq(Cellules) /\ resolu[r] \subseteq Ticks /\ d.salle \in Salles
    BY <1>3 DEF TypeOK
  <2> HIDE DEF d
  <2>3. k.salle = d.salle /\ k.cellule = aLire[r][i] /\ k.tick = t
    BY <2>1 DEF CleDe
  <2>4. \A j \in DOMAIN aLire[r] : aLire[r][j] \in Cellules
    BY <2>2
  <2>5. t \in Nat
    BY <2>2, ServeurAssumption
  <2>6. QED
    BY <2>2, <2>3, <2>4, <2>5
<1>4. QED
  BY <1>2, <1>3 DEF Appelees

LEMMA TypesTenus == Spec => [](AJourInv /\ TypeOK)
<1>1. Spec => []AJourInv
  BY AJourInit, AJourNext, PTL DEF Spec
<1>2. QED
  BY <1>1, ServeurType, PTL

(* Whatever rooms and cells its clients name, the server never makes the    *)
(* engine panic, and its calls share an address only where they share a     *)
(* slot (main.rs:259-267, engine.rs:192-208), for rooms and rings of any    *)
(* size that avec_dimensions accepts.                                       *)
THEOREM AppelsTenus == Spec => []AppelsAdressables
<1>1. ASSUME AJourInv, TypeOK
      PROVE  AppelsAdressables
  <2> DEFINE D == DuServeur
  <2>1. D.cellules = CellulesParSalle /\ D.anneau = Retention
    BY DEF DuServeur
  <2>2. D \in [cellules : Nat, anneau : Nat] /\ DimensionsValides(D)
    BY DimensionsAssumption, ServeurAssumption DEF DuServeur
  <2> HIDE DEF D
  <2>3. ASSUME NEW r \in Requetes, NEW k \in Appelees(r)
        PROVE  /\ Adressable(D, SallesMax, k.salle, k.cellule)
               /\ Place(D, k.salle, k.cellule, k.tick)
    <3>1. k.salle \in Salles /\ k.cellule \in Cellules /\ k.tick \in Nat
      BY <1>1, <2>3, PlaceDeLAppel
    <3>2. QED
      BY <2>1, <2>2, <3>1, ServeurAssumption DEF Salles, Cellules, Adressable, Place
  <2>4. ASSUME NEW r \in Requetes, NEW k \in Appelees(r)
        PROVE  Coordonnees(D, k.salle, k.cellule, k.tick) = <<k.cellule, k.tick % Retention>>
    BY <2>1, <2>3, AdresseDe
  <2>5. ASSUME NEW r \in Requetes, NEW k \in Appelees(r),
               NEW q \in Requetes, NEW l \in Appelees(q),
               Adresse(D, k.salle, k.cellule, k.tick) = Adresse(D, l.salle, l.cellule, l.tick)
        PROVE  /\ k.salle = l.salle /\ k.cellule = l.cellule
               /\ k.tick % Retention = l.tick % Retention
    <3>1. Place(D, k.salle, k.cellule, k.tick) /\ Place(D, l.salle, l.cellule, l.tick)
      BY <2>3
    <3>2. QED
      BY <2>1, <2>5, <3>1, AdresseUnique
  <2>6. QED
    BY <2>3, <2>4, <2>5 DEF AppelsAdressables, D
<1>2. QED
  BY <1>1, TypesTenus, PTL

(* The address is injective on (room, cell, tick mod anneau), as adresse    *)
(* says of itself (engine.rs:164-168), for all the dimensions avec_dimensions *)
(* lets through and for every call the server makes.                       *)
THEOREM AdressesUniques == Spec => []AdresseInjective
<1>1. ASSUME AJourInv, TypeOK
      PROVE  AdresseInjective
  <2> SUFFICES ASSUME NEW r \in Requetes, NEW k \in Appelees(r), NEW d \in DOMAIN Adresses,
                      k.salle \in Salles, k.cellule < d.cellules,
                      NEW lieu \in DOMAIN Adresses[d],
                      Adresses[d][lieu] = Adresse(d, k.salle, k.cellule, k.tick)
               PROVE  lieu = <<k.salle, k.cellule, k.tick % d.anneau>>
    BY DEF AdresseInjective
  <2>1. d \in Dimensions /\ DimensionsValides(d) /\ d \in [cellules : Nat, anneau : Nat]
    BY DimensionsAssumption DEF Adresses
  <2>2. lieu \in Salles \X (0 .. d.cellules - 1) \X (0 .. d.anneau - 1)
        /\ Adresses[d][lieu] = Adresse(d, lieu[1], lieu[2], lieu[3])
    BY <2>1 DEF Adresses
  <2>3. k.cellule \in Nat /\ k.tick \in Nat
    BY <1>1, PlaceDeLAppel DEF Cellules
  <2>4. Place(d, k.salle, k.cellule, k.tick)
    BY <2>1, <2>3 DEF Place, Salles
  <2>5. Place(d, lieu[1], lieu[2], lieu[3])
    BY <2>1, <2>2 DEF Place, Salles
  <2>6. /\ k.salle = lieu[1] /\ k.cellule = lieu[2]
        /\ k.tick % d.anneau = lieu[3] % d.anneau
    <3>1. Adresse(d, k.salle, k.cellule, k.tick) = Adresse(d, lieu[1], lieu[2], lieu[3])
      BY <2>2
    <3>2. QED
      BY <2>4, <2>5, <3>1, AdresseUnique
  <2>7. lieu[3] % d.anneau = lieu[3]
    <3>1. (d.anneau * 0 + lieu[3]) % d.anneau = lieu[3]
      BY <2>1, <2>2, DivisionUnique
    <3>2. QED
      BY <2>1, <2>2, <3>1
  <2>8. QED
    BY <2>2, <2>6, <2>7
<1>2. QED
  BY <1>1, TypesTenus, PTL
=============================================================================
