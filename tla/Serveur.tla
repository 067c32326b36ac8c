------------------------------- MODULE Serveur -------------------------------
(***************************************************************************)
(* chronotope-server (main.rs, metrics.rs): /write, /seal, /read and       *)
(* /metrics behind authentication and load shedding, over a store that     *)
(* keeps the contract, and /health outside of both.                        *)
(*                                                                         *)
(* A handler never awaits, so a request admitted runs to its end; but many *)
(* run at once on the runtime's threads.  seal records the tick of a       *)
(* chronotope in latest_sealed after the store has released it; read looks *)
(* at one cell after the other; the counters are separate atomics, bumped  *)
(* and loaded one by one.                                                  *)
(***************************************************************************)
EXTENDS Listes

CONSTANTS
  SallesMax, CellulesParSalle,     \* SALLES_MAX, CELLULES_PAR_SALLE
  Ticks, Entites, Poses,
  Requetes,    \* the requests of the run: each is sent at most once
  Demandes,    \* what a request may ask
  Limite,      \* concurrency_limit
  Retention,   \* of the store
  Sans         \* no pose for an entity

ASSUME ServeurAssumption ==
  /\ Limite \in Nat /\ SallesMax \in Nat /\ CellulesParSalle \in Nat
  /\ Ticks \subseteq Nat /\ IsFiniteSet(Requetes)

Salles   == 0 .. SallesMax - 1
Cellules == 0 .. CellulesParSalle - 1

Routes == {"write", "seal", "read"}

(* A request, with a valid secret or not.  Rooms and cells are whatever the *)
(* client sent; write and seal name one cell, and a read may leave its tick *)
(* out.                                                                     *)
Formes == [route : Routes \cup {"metrics", "health"}, secret : BOOLEAN,
           salle : Nat, cellules : Seq(Nat), tick : SUBSET Ticks,
           entite : Entites, pose : Poses]

ASSUME DemandesAssumption ==
  /\ Demandes \subseteq Formes
  /\ \A d \in Demandes :
       /\ \A t, u \in d.tick : t = u
       /\ d.route \in {"write", "seal"} => Len(d.cellules) = 1 /\ d.tick # {}

VARIABLES
  registre,    \* the store: its registers,
  reponse,     \* and what it answered each request
  dernier,     \* latest_sealed: for each room {} or {tick}
  pc,          \* where each request is
  demande,     \* what it asks
  resolu,      \* the tick it reads: {} or {tick}
  aLire,       \* the cells its read has still to look at
  compteurs,   \* RouteCounters of each route
  refusAuth,   \* auth_rejected
  releve,      \* the values its scrape has loaded
  avant,       \* history: requests answered when each arrived
  aScelle      \* history: keys sealed at some time

magasin    == <<registre, reponse>>
metriques  == <<compteurs, refusAuth, releve>>
historique == <<avant, aScelle>>
vars == <<registre, reponse, dernier, pc, demande, resolu, aLire, compteurs,
          refusAuth, releve, avant, aScelle>>

Magasin == INSTANCE Contrat WITH Fils <- Requetes

EnService == {r \in Requetes :
                pc[r] \in {"valider", "maj", "lire", "relever", "ok", "err", "compte"}}

Etapes == {"a_venir", "valider", "maj", "lire", "relever", "ok", "err", "compte",
           "repondue", "rejetee"}

(* The key a write or a seal names, and those a read at tick t looks at.    *)
Cle(d)       == [salle |-> d.salle, cellule |-> Head(d.cellules),
                 tick |-> CHOOSE t \in d.tick : TRUE]
CleDe(d, c, t) == [salle |-> d.salle, cellule |-> c, tick |-> t]

Init ==
  /\ Magasin!Init
  /\ dernier   = [s \in Salles |-> {}]
  /\ pc        = [r \in Requetes |-> "a_venir"]
  /\ demande   \in [Requetes -> Demandes]
  /\ resolu    = [r \in Requetes |-> {}]
  /\ aLire     = [r \in Requetes |-> <<>>]
  /\ compteurs = [t \in Routes |-> [ok |-> 0, err |-> 0]]
  /\ refusAuth = 0
  /\ releve    = [r \in Requetes |-> <<>>]
  /\ avant     = [r \in Requetes |-> {}]
  /\ aScelle   = {}

Passer(r, etape) == pc' = [pc EXCEPT ![r] = etape]

-----------------------------------------------------------------------------
(* Arrival *)

(* /health stands before every layer: it answers whatever the load.         *)
Sante(r) ==
  /\ pc[r] = "a_venir"
  /\ demande[r].route = "health"
  /\ Passer(r, "repondue")
  /\ UNCHANGED <<magasin, dernier, demande, resolu, aLire, metriques, historique>>

Arrive(r) ==
  /\ pc[r] = "a_venir"
  /\ demande[r].route # "health"
  /\ UNCHANGED <<magasin, dernier, demande, resolu, aLire, compteurs, releve, aScelle>>

(* authentifier, then load_shed over concurrency_limit.                     *)
Authentifier(r) ==
  /\ Arrive(r)
  /\ ~demande[r].secret
  /\ Passer(r, "rejetee")
  /\ refusAuth' = refusAuth + 1
  /\ UNCHANGED avant

Delester(r) ==
  /\ Arrive(r)
  /\ demande[r].secret
  /\ Cardinality(EnService) >= Limite
  /\ Passer(r, "rejetee")
  /\ UNCHANGED <<refusAuth, avant>>

MutAdmettre(r) ==     \* mutant: one place too many
  /\ Arrive(r)
  /\ demande[r].secret
  /\ Cardinality(EnService) <= Limite
  /\ Passer(r, IF demande[r].route = "metrics" THEN "relever" ELSE "valider")
  /\ avant' = [avant EXCEPT ![r] = {q \in Requetes : pc[q] = "repondue"}]
  /\ UNCHANGED refusAuth

Admettre(r) ==
  /\ Arrive(r)
  /\ demande[r].secret
  /\ Cardinality(EnService) < Limite
  /\ Passer(r, IF demande[r].route = "metrics" THEN "relever" ELSE "valider")
  /\ avant' = [avant EXCEPT ![r] = {q \in Requetes : pc[q] = "repondue"}]
  /\ UNCHANGED refusAuth

-----------------------------------------------------------------------------
(* The handlers *)

(* Mutant: the bound itself passes.                                         *)
MutHorsDomaine(d) ==
  \/ d.salle > SallesMax
  \/ d.route # "read" /\ Head(d.cellules) > CellulesParSalle

(* room_ou_cell_hors_domaine; a read only looks at the room.                *)
HorsDomaine(d) ==
  \/ d.salle >= SallesMax
  \/ d.route # "read" /\ Head(d.cellules) >= CellulesParSalle

MutFiltrees(d) ==     \* mutant: the last cell of the domain is dropped
  Extraire(d.cellules, {i \in DOMAIN d.cellules : d.cellules[i] + 1 < CellulesParSalle})

(* A read drops the cells that are out of the domain, or do not parse.      *)
Filtrees(d) ==
  Extraire(d.cellules, {i \in DOMAIN d.cellules : d.cellules[i] < CellulesParSalle})

MutRefuser(r) ==     \* mutant: a refused read is counted as if it were empty
  /\ pc[r] = "valider"
  /\ HorsDomaine(demande[r])
  /\ Passer(r, IF demande[r].route = "read" THEN "ok" ELSE "err")
  /\ UNCHANGED <<magasin, dernier, demande, resolu, aLire, metriques, historique>>

(* The store is not called.                                                 *)
Refuser(r) ==
  /\ pc[r] = "valider"
  /\ HorsDomaine(demande[r])
  /\ Passer(r, "err")
  /\ UNCHANGED <<magasin, dernier, demande, resolu, aLire, metriques, historique>>

Traite(r, route) ==
  /\ pc[r] = "valider"
  /\ ~HorsDomaine(demande[r])
  /\ demande[r].route = route
  /\ UNCHANGED <<dernier, demande, metriques, avant>>

MutEcrire(r) ==     \* mutant: the HTTP status stands for the result
  /\ Traite(r, "write")
  /\ \/ Magasin!Accepter(r, Cle(demande[r]), demande[r].entite, demande[r].pose)
     \/ Magasin!Refuser(r, Cle(demande[r]))
  /\ Passer(r, "ok")
  /\ UNCHANGED <<resolu, aLire, aScelle>>

Ecrire(r) ==
  /\ Traite(r, "write")
  /\ \/ /\ Magasin!Accepter(r, Cle(demande[r]), demande[r].entite, demande[r].pose)
        /\ Passer(r, "ok")
     \/ /\ Magasin!Refuser(r, Cle(demande[r]))
        /\ Passer(r, "err")
  /\ UNCHANGED <<resolu, aLire, aScelle>>

Sceller(r) ==
  /\ Traite(r, "seal")
  /\ Magasin!Sceller(r, Cle(demande[r]))
  /\ aScelle' = aScelle \cup {k \in {Cle(demande[r])} : registre'[k].etat = "Scelle"}
  /\ Passer(r, "maj")
  /\ UNCHANGED <<resolu, aLire>>

(* Mutant: and_modify without or_insert, a room's first seal is not kept.    *)
MutSansPremier(r) ==
  LET k == Cle(demande[r])
  IN  /\ pc[r] = "maj"
      /\ dernier' = [dernier EXCEPT ![k.salle] =
                       IF \A t \in @ : t > k.tick THEN @ ELSE {k.tick}]
      /\ Passer(r, "ok")
      /\ UNCHANGED <<magasin, demande, resolu, aLire, metriques, historique>>

MutActualiser(r) ==     \* mutant: the last seal to come, not the latest tick
  LET k == Cle(demande[r])
  IN  /\ pc[r] = "maj"
      /\ dernier' = [dernier EXCEPT ![k.salle] = {k.tick}]
      /\ Passer(r, "ok")
      /\ UNCHANGED <<magasin, demande, resolu, aLire, metriques, historique>>

(* The second half of `seal`: the room's latest tick, under its own lock.   *)
Actualiser(r) ==
  LET k == Cle(demande[r])
  IN  /\ pc[r] = "maj"
      /\ dernier' = [dernier EXCEPT ![k.salle] =
                       IF \E t \in @ : t > k.tick THEN @ ELSE {k.tick}]
      /\ Passer(r, "ok")
      /\ UNCHANGED <<magasin, demande, resolu, aLire, metriques, historique>>

(* `read`: a tick left out is looked up first; a room never sealed has none *)
(* and reads as empty.                                                      *)
Resoudre(r) ==
  LET d == demande[r]
      t == IF d.tick = {} THEN dernier[d.salle] ELSE d.tick
  IN  /\ Traite(r, "read")
      /\ resolu' = [resolu EXCEPT ![r] = t]
      /\ aLire'  = [aLire EXCEPT ![r] = IF t = {} THEN <<>> ELSE Filtrees(d)]
      /\ Passer(r, "lire")
      /\ UNCHANGED <<magasin, aScelle>>

(* lire's look at the next cell, added to what it found so far.             *)
Lire(r) ==
  /\ pc[r] = "lire"
  /\ aLire[r] # <<>>
  /\ \E t \in resolu[r] : Magasin!Regarder(r, {CleDe(demande[r], Head(aLire[r]), t)})
  /\ reponse[r].nature = "lire" => reponse[r].lus \subseteq reponse'[r].lus
  /\ aLire' = [aLire EXCEPT ![r] = Tail(@)]
  /\ UNCHANGED <<dernier, pc, demande, resolu, metriques, historique>>

FinirLire(r) ==
  /\ pc[r] = "lire"
  /\ aLire[r] = <<>>
  /\ Passer(r, "ok")
  /\ UNCHANGED <<magasin, dernier, demande, resolu, aLire, metriques, historique>>

-----------------------------------------------------------------------------
(* The counters *)

(* RouteCounters::observer, before the answer leaves.                       *)
Compter(r) ==
  /\ pc[r] \in {"ok", "err"}
  /\ compteurs' = [compteurs EXCEPT ![demande[r].route][pc[r]] = @ + 1]
  /\ Passer(r, "compte")
  /\ UNCHANGED <<magasin, dernier, demande, resolu, aLire, refusAuth, releve, historique>>

(* The loads of render_prometheus, in order: the results of each route,     *)
(* what total() adds up for each route, then the refused authentications.   *)
ParRoute(ligne) ==
  [i \in 1..6 |-> [ligne  |-> ligne,
                   route  |-> <<"write", "seal", "read">>[(i + 1) \div 2],
                   champ  |-> IF i % 2 = 1 THEN "ok" ELSE "err"]]
RefusAuth == [ligne |-> "auth_rejected_total"]

(* Mutant: the numbers of observations come before the results.             *)
MutChargements == ParRoute("count") \o ParRoute("requests_total") \o <<RefusAuth>>

Chargements == ParRoute("requests_total") \o ParRoute("count") \o <<RefusAuth>>

Valeur(c) == IF c = RefusAuth THEN refusAuth ELSE compteurs[c.route][c.champ]

Relever(r) ==
  /\ pc[r] = "relever"
  /\ Len(releve[r]) < Len(Chargements)
  /\ releve' = [releve EXCEPT ![r] = Append(@, Valeur(Chargements[Len(@) + 1]))]
  /\ UNCHANGED <<magasin, dernier, pc, demande, resolu, aLire, compteurs, refusAuth, historique>>

FinirRelever(r) ==
  /\ pc[r] = "relever"
  /\ Len(releve[r]) = Len(Chargements)
  /\ Passer(r, "compte")
  /\ UNCHANGED <<magasin, dernier, demande, resolu, aLire, metriques, historique>>

(* The answer leaves, and the request its place under the limit.            *)
Repondre(r) ==
  /\ pc[r] = "compte"
  /\ Passer(r, "repondue")
  /\ UNCHANGED <<magasin, dernier, demande, resolu, aLire, metriques, historique>>

Next ==
  \E r \in Requetes :
    \/ Sante(r) \/ Authentifier(r) \/ Delester(r) \/ Admettre(r)
    \/ Refuser(r) \/ Ecrire(r) \/ Sceller(r) \/ Actualiser(r)
    \/ Resoudre(r) \/ Lire(r) \/ FinirLire(r)
    \/ Compter(r) \/ Relever(r) \/ FinirRelever(r) \/ Repondre(r)

Spec == Init /\ [][Next]_vars
-----------------------------------------------------------------------------

(* Type invariant.  Its last part is what the layers and handlers assume of *)
(* one another: places are never exceeded, and only requests within the     *)
(* domain get past their validation.                                        *)
TypeOK ==
  /\ \A s \in Salles : dernier[s] \subseteq Ticks /\ Cardinality(dernier[s]) <= 1
  /\ pc \in [Requetes -> Etapes]
  /\ demande \in [Requetes -> Demandes]
  /\ \A r \in Requetes :
       /\ resolu[r] \subseteq Ticks /\ avant[r] \subseteq Requetes
       /\ aLire[r] \in Seq(Cellules)
       /\ Len(releve[r]) <= Len(Chargements)
       /\ pc[r] \in {"maj", "lire"} => demande[r].salle \in Salles
  /\ Cardinality(EnService) <= Limite
  /\ refusAuth \in 0..Cardinality(Requetes)

(* A read of the domain whose tick has been looked up.                      *)
Resolue(r) ==
  /\ demande[r].route = "read" /\ ~HorsDomaine(demande[r])
  /\ pc[r] \in {"lire", "ok", "compte", "repondue"}

(* A read that leaves its tick out (main.rs:465-467) has one, as soon as a   *)
(* seal of its room was answered before it came: the tick of that seal or a  *)
(* later one; nor is it before that of an earlier such read.  No seal is     *)
(* lost to latest_sealed, and seals that finish out of order undo nothing.   *)
LectureAJour ==
  \A r \in Requetes : Resolue(r) /\ demande[r].tick = {} =>
    \A q \in avant[r] :
      LET d == demande[q]
      IN  d.salle = demande[r].salle =>
            /\ d.route = "seal" /\ ~HorsDomaine(d) =>
                 \E t \in resolu[r] : Cle(d).tick <= t
            /\ d.route = "read" /\ d.tick = {} =>
                 \A u \in resolu[q] : \E t \in resolu[r] : u <= t

(* What the ring may recycle between the look-up of the tick and the looks  *)
(* at the cells (main.rs:465-497): a cell asked for and sealed before the   *)
(* read came is missing from its answer only if its chronotope expired; and *)
(* each chronotope of the answer was sealed, whole.                         *)
LectureComplete ==
  \A r \in Requetes :
    LET lus == IF reponse[r].nature = "lire" THEN reponse[r].lus ELSE {}
    IN  /\ demande[r].route = "read" /\ pc[r] \in {"ok", "compte", "repondue"} =>
             \A q \in avant[r] : \A c \in Cellules : \A t \in resolu[r] :
               LET k == CleDe(demande[r], c, t)
               IN  /\ \E i \in DOMAIN demande[r].cellules : demande[r].cellules[i] = c
                   /\ demande[q].route = "seal" /\ ~HorsDomaine(demande[q])
                   /\ Cle(demande[q]) = k /\ k \in aScelle
                   => registre[k].etat = "Expire" \/ \E lu \in lus : lu.cle = k
        /\ \A lu \in lus :
             /\ lu.cle \in aScelle
             /\ registre[lu.cle].etat = "Scelle" => registre[lu.cle].contenu = lu.contenu

(* The requests a handler has counted, on a route.                          *)
Comptees(route) ==
  {r \in Requetes : pc[r] \in {"compte", "repondue"} /\ demande[r].route = route}

(* What an answer means: a seal and a read of the domain succeed, a write   *)
(* does when the store takes it as well.                                    *)
Reussie(r) ==
  ~HorsDomaine(demande[r]) /\ (demande[r].route = "write" => reponse[r].ok)

(* metrics.rs:25-28: the counters are the requests done so far, by what     *)
(* they mean: a write refused by the store is a failure though it is a 200, *)
(* and so is what is out of the domain on any route; requests shed,         *)
(* unauthenticated or to /health are in none.                               *)
ReponsesComptees ==
  \A route \in Routes :
    /\ compteurs[route].ok + compteurs[route].err = Cardinality(Comptees(route))
    /\ compteurs[route].ok = Cardinality({r \in Comptees(route) : Reussie(r)})

(* The value a scrape shows on a line, once it is done.                     *)
Vu(r, c) == releve[r][CHOOSE i \in DOMAIN Chargements : Chargements[i] = c]

(* A scrape loads its counters one by one while they move (metrics.rs:      *)
(* 59-136), and yet: it counts every request answered before it came, its   *)
(* number of observations is never below the results it shows, and no value *)
(* is below what a scrape answered before it came has shown.                *)
ReleveFidele ==
  \A r \in Requetes : pc[r] = "repondue" /\ releve[r] # <<>> =>
    /\ \A route \in Routes :
         LET Resultat(champ) == Vu(r, [ligne |-> "requests_total", route |-> route, champ |-> champ])
             Nombre(champ)   == Vu(r, [ligne |-> "count", route |-> route, champ |-> champ])
         IN  /\ Cardinality({q \in avant[r] : demande[q].route = route})
                   <= Resultat("ok") + Resultat("err")
             /\ Resultat("ok") + Resultat("err") <= Nombre("ok") + Nombre("err")
    /\ \A q \in avant[r] : \A i \in DOMAIN releve[q] : releve[q][i] <= releve[r][i]

(* "Dernier tick scelle connu, par salle" (main.rs:50): a cell of the room  *)
(* was sealed at that tick.                                                 *)
DernierScelle ==
  \A s \in Salles : \A t \in dernier[s] :
    \E c \in Cellules : [salle |-> s, cellule |-> c, tick |-> t] \in aScelle
=============================================================================
