# Verification of chronotopedb

TLA+ models of chronotopedb (the Rust workspace under `src/crates`), the TLC
runs that check them on small instances, and TLAPS proofs of what matters most
for every instance. Names of state and operations are those of the code, in
French; comments are in English. Paths below are relative to
`src/crates/`.

## 1. The system

A *chronotope* is the state of the entities of one cell at one tick. A store
accepts writes to it until it is *sealed*; from then on it is immutable and
readers and observers may see it.

| part | where | state it keeps | operations |
|---|---|---|---|
| Slot | `chronotope-core/src/engine.rs` 54-111 | tick, state (Vide, Ouvert, Scelle), append-only journal, entries since the last compaction | `recycler`, `inscrire`, `compacter` |
| ChronotopeEngine | `engine.rs` 113-368 | a table of rooms (RwLock), per cell a ring of slots (Mutex) allocated at the first use | `ecrire`, `sceller`, `lire`, `observer`, `vider` |
| ChronotopeStore | `store.rs`, `lib.rs` | none: the contract both stores follow | the same, documented |
| Diffuseur | `diffusion.rs` | list of subscriptions (RwLock), atomic count, one bounded channel each, a `mort` mark each | `abonner`, `diffuser` |
| NaiveRowStore | `naive.rs` | rows, index of a key's entities, sealed keys (one Mutex) | as the engine's |
| Directory | `chronotope-directory/src/directory.rs` | entity -> (location, last migration tick) (RwLock) | `inscrire`, `locate`, `migrer`, `instantane` |
| Simulation | `chronotope-sim/src` (harness, routage, cadence, topologie) | entities followed and their last write, tier and load of each cell, opened chronotopes, pending changes of cell, counters | `track`, `step` and its phases |
| HTTP server | `chronotope-server/src/main.rs`, `metrics.rs` | latest sealed tick per room, counters, concurrency limit | `write`, `seal`, `read`, `/metrics`, `/health` |
| StoreMemoire | `chronotope-sim/src/double.rs` | open and sealed chronotopes, subscriptions (one Mutex) | as the engine's |
| Banner, benches | `banner.rs`, `benches/` | none | |

How they interact: the server and the simulation call a store through the
`ChronotopeStore` trait; a store hands each sealed chronotope to its Diffuseur
*after* releasing the slot (or the table); the Diffuseur pushes it to the
receivers of the matching subscriptions without ever waiting; the simulation
asks the Directory where an entity is and to migrate it, and retries what the
hysteresis refuses. The engine turns room, cell and tick into one address. The
simulation's own tests run on StoreMemoire, the engine's against the row store.

### What is hard, and what makes each part correct

* **Slot.** Last-writer-wins is obtained by reversing, stable-sorting and
  deduplicating, at the seal and also in passing when `depuis_compaction`
  reaches a threshold. Compacting on the way must be invisible, must bound the
  journal and must not degenerate into one pass per write.
* **Engine.** Every lock section is short and a call is several of them: find
  no room, create it, retry; seal, then diffuse; one cell after the other in
  `lire` and `vider`. The ring forgets a tick when a later one lands on its
  slot. A seal must be final, a read must never show anything unsealed, an
  acknowledged write may disappear only with its slot, every call must return.
* **Addressing.** Fields are joined with an exclusive or, which keeps them
  apart only if the dimensions are powers of two; what is out of the domain
  panics. No two places may share an address, no request may cause a panic.
* **Diffuseur.** A counter is read without the lock to skip it, several
  threads go through the list at once, one purges it. The engine enters it
  after the slot's mutex: other threads may seal again, recycle or empty the
  slot before observers are served. No observer may miss a
  seal (but through its own full channel), get one twice, or be dropped while
  it listens; nobody may wait for an observer.
* **Row store and StoreMemoire.** Same contract, by other data structures: an
  index that must stay exact, a list kept sorted. Tests compare stores, which
  means something only if these answer alike.
* **Directory.** Ticks come from callers and may go back; migrations of an
  entity must stay spaced and refusals must end when they said.
* **Simulation.** A loaded cell groups 2 or 4 ticks in one chronotope. Its tier
  may change while chronotopes of the old tier are open; an entity may change
  cell in the middle of a group; the router refuses and is asked again. No
  write may reach a sealed chronotope, no entity may be in two chronotopes of
  one tick, none may stay open, no change of cell may be put off for ever. The
  report's measures decide the project's hypotheses: a cadence or a change of
  cell counted twice, or forgotten, would decide them wrongly.
* **Server.** The latest sealed tick is recorded after the seal, under another
  lock, and read before the store is, cell after cell; requests are refused,
  shed and counted in several places, and a scrape loads the counters one by
  one while they move. A read must be up to date with every seal answered
  before and miss only what expired; a scrape must count what was answered.

`PROJECT.json` lists the hazards line by line with the properties that cover
them.

## 2. Modules

An arrow goes from a module to one it extends, or (`=>`) instantiates.

    Slot, Temoin, Double,
    Diffuseur, Serveur              -> Listes
    Compaction, Moteur              -> Slot
    MoteurHistoire, MoteurContrat   -> Moteur
    MoteurContrat, Temoin, Serveur  => Contrat
    DiffuseurHistoire               -> Diffuseur
    Observation                     -> MoteurHistoire   => Diffuseur
    Jumeaux                         -> Temoin           => Double
    Simulation                      -> Cadence, Routage
    SimulationHistoire, Rapport     -> Simulation
    ServeurAdresses                 -> Serveur, Adressage

    ListesProofs                    -> Listes
    SlotProofs                      -> Compaction, ListesProofs
    MoteurProofs                    -> Observation, MoteurContrat, SlotProofs
    DiffuseurProofs                 -> DiffuseurHistoire, ListesProofs
    TemoinProofs                    -> Jumeaux, ListesProofs
    AnnuaireProofs                  -> Annuaire
    SimulationProofs                -> Rapport
    ServeurProofs                   -> ServeurAdresses, ListesProofs

* **Listes** is what the iterators of the standard library do to a list.
  `Extraire` (filter, retain) keeps the elements at given positions, `Rang` is
  how many entries precede one in the sorted order, `Dedupliquer` extracts the
  first of each run. Positions are counted: nothing there is recursive, so that
  everything can be proved about.
* **Slot** holds what the closures of `ecrire`, `sceller`, `lire` and `vider`
  do to one slot, as pure operators. A pose is an opaque value; an entity is a
  natural, since the code sorts by it. `vider` leaves `depuis_compaction` alone, and so does `SlotVidange`.
* **Compaction** drives one open slot with every sequence of writes, beside
  the raw list of what was written.
* **Moteur** is `ChronotopeEngine`. `salles` is the room table, `anneaux` the
  cells whose ring is allocated, `slots` the rings; `pc`, `appel`, `aLire`,
  `aVider`, `rendu` are each thread's locals. One action is one lock section:

  | action | code |
  |---|---|
  | `SalleAbsente`, `CreerSalle` | the two halves of `avec_slot`'s loop; `creer_salle` under the write lock, so not while a `vider` holds the read lock |
  | `Ecrire`, `Sceller` | `avec_slot` with the closure of each, under the cell's mutex |
  | `Diffuser` | the end of `sceller`, without the slot: the chronotope goes out |
  | `CommencerLire`, `LireCellule`, `FinirLire` | `lire`, one `avec_slot_existant` per cell |
  | `CommencerVider`, `ViderCellule`, `FinirVider` | `vider`, cell by cell in table order |

  Which room a call names, with which tick and pose, is in `Appels`. Ticks are
  any: nothing in the engine makes callers monotone. Calls out of the cell or
  room domain panic in the code and are not made.
* **MoteurHistoire** adds `sceaux`, the content that the first seal of each
  key produced since its cell was last emptied. It observes steps and
  restricts none.
* **Contrat** is the store contract: a register per key (Vierge, Ouvert,
  Scelle, Expire), written last-writer-wins until sealed, that a store may drop
  only when the same cell is used at a tick at least `Retention` later.
  **MoteurContrat** maps the engine on it with `Retention <- Anneau`: the
  register of a key is read off the one slot it is addressed to (`RegistreDe`),
  a journal standing for the last pose of each entity. **Temoin** (the row
  store) implements it with a retention beyond every tick.
* **Double** is StoreMemoire, each call one step under its mutex. **Jumeaux**
  gives the row store and the double the same calls, whatever they are, to
  compare what they answer and hold; the observers are the double's.
* **Diffuseur** splits `diffuser` where other threads can run: counter read,
  read lock, one subscription at a time, unlock, purge. `abonner` and the purge
  are single steps that exclude readers; receivers act without a lock.
  **DiffuseurHistoire** records what each channel took or refused, and who was
  subscribed before each call.
* **Observation** composes the engine with the Diffuseur: `Sceller` releases
  the slot and enters `diffuser` in one step, whose later steps interleave with
  every action of the engine. `Moteur`'s `Diffuser` becomes the return from
  it. The Diffuseur's `sceau` stands for the copy of the chronotope; `emis`, a
  history, says what it holds.
* **Adressage** is the bit arithmetic: `avec_dimensions`' assertion, `base`,
  `adresse`, `coordonnees`. The exclusive or is defined by the bits of its
  result and a power of two by its divisors, without recursion; an assumption of
  `MCServeur` compares both with the community modules' on small numbers.
  **ServeurAdresses** follows the calls the server makes to their addresses.
* **Annuaire** is the Directory, one step per call. `migrations` and `refus`
  are histories used by the properties only.
* **Cadence** is `PolitiqueCadence`; a tier is its divisor (1, 2, 4).
  **Routage** is what each `Routeur` does with one entity's entry:
  `MigrerMemoire` counts attempts, `MigrerDatee` dates migrations.
* **Simulation** is `MultiNodeSim`, with the router as a constant operator.
  `step` has exclusive access to everything, so it is one action, `Pas(c)`, for
  any cell `c[e]` of each entity (the trajectory); its phases are operators:

  | operator | phase of `step` |
  |---|---|
  | `Reevalues` | `reevaluer_paliers`, on ticks where every tier starts a group |
  | `Arbitre` | `arbitrer` |
  | `Cible` | `differer_jusqu_a_la_frontiere` |
  | `Acceptee`, `Depassee` | the store's refusal of a key it has sealed, or whose slot of the ring it has given to a later tick |
  | `EnAttente`, `Doublee` | `compter_bascule`, `enregistrer_inscription` |
  | `Expires`, `Retenu` | `sceller_les_chronotopes_expires`, `oublier_les_inscriptions_closes` |

  The code handles entities one after the other. Within a tick they share only
  the stores, which do not seal then, and the load, which is read at the next
  tick: the loop is one function over entities. The nodes' stores are what a
`Contrat` store with a ring of `Anneau` slots per cell does to the
keys written and sealed here (StoreMemoire is one that never reuses a slot).
`Suivre` takes an entity once: `track` would take it again, but its callers do
not, and one writer per entity is what cadence tiers presume
(`cadence.rs:88-89`). **SimulationHistoire** counts
  the ticks in a row an entity was out of its cell. **Rapport** adds the
  measures of `SimReport` (seals and coarsest tier per cell, migrations asked
  and granted, changes of cell measured or avoided) to each step, one `Compter...`
operator per function of the harness that increments them; `occupees` and
`crees` are histories.
* **Serveur** takes the store as an instance of `Contrat`, hence as either
  store of the repository. A request goes through the layers (`Authentifier`,
  `Delester`, `Admettre`; `/health` stands before them), then its handler, which
  does not await between its first and last line; but the runtime runs several
  at once:

  | route | steps |
  |---|---|
  | `write` | `Refuser` (out of the domain) or `Ecrire`, `Compter`, `Repondre` |
  | `seal` | `Refuser` or `Sceller`, `Actualiser` (the latest tick, another lock), `Compter`, `Repondre` |
  | `read` | `Refuser` or `Resoudre` (the latest tick; cells out of the domain dropped), `Lire` once per cell, `FinirLire`, `Compter`, `Repondre` |
  | `/metrics` | `Relever` once per atomic load, in the order of the code, `FinirRelever`, `Repondre` |

  A request is sent once. `avant` (who was answered when each arrived) and
  `aScelle` are histories.

## 3. Runs

| run | what it asks | instance |
|---|---|---|
| `compaction` | `SceauLWW`, `CompactionTransparente`, `CoutAmorti` | 3 entities, 2 poses, threshold 2, 5 writes: two compactions and duplicates of each kind in between |
| `observation` | `TypeOK`, `SceauDefinitif`, `RecuScelle`, `RefusApresSceau`, `LectureFidele`, `SceauRendu`: the engine with its observers | 2 threads, 1 cell, ring of 1, 2 ticks (each recycles the other), all calls, a read that looks twice at the cell; 1 observer, channel of 2, 2 seals per thread |
| `moteur_contrat` | the engine implements `Contrat` (`RespecteContrat`), `JournalBorne` | 1 thread, 2 entities x 2 poses, threshold 1, ring of 2, 3 ticks (one wraps), `vider` included |
| `moteur_contrat_fils` | `RespecteContrat`, `AppelTermine` | 2 threads, 2 cells, ring of 1, 2 ticks: room creation races, reads of both cells while they change, `vider` repeated for ever |
| `diffuseur` | `TypeOK`, `AbonneGarde`, `OrdreParFil`, `LivraisonComplete`, `MortPurge`, `DiffusionTermine` | 2 threads x 2 seals, 2 observers that ask for the sealed cell or for none, capacity 1 |
| `jumeaux` | `IndexFidele`, `RespecteContrat` (the row store implements `Contrat`); `MemesReponses` and `OrdreCommun` (the double is the same store) | 2 cells at 1 tick, 2 entities, 2 poses, all calls, 2 observers of different cells, channels of 1 |
| `annuaire` | `Espacement`, `RefusTenu` | 2 entities, 2 places, ticks 0..5 in any order, delay 2 |
| `simulation` | `TypeOK`, `SansRejet`, `SansDuplication`, `ScelleATemps`, `BasculeBornee`; of the report, `CadenceMesuree`, `BasculesMesurees`, `ThrashingAmorti` | 2 entities, 2 cells on 2 nodes, 9 ticks, in-memory router with hysteresis 2, a cell degraded as soon as an entity is in it, horizon 1 and stores whose ring has 5 slots |
| `serveur` | `TypeOK`, `LectureAJour`, `LectureComplete`, `ReponsesComptees`, `ReleveFidele`; `AppelsAdressables`, `AdresseInjective` | 3 requests among 13 (each route, in and out of the domain, one unauthenticated), 2 rooms x 2 cells, ticks 0 and 2, 2 requests at a time, a store that keeps one of the two ticks; rings and rooms of any size the assertion lets through, up to 4 cells and 3 slots |
| `sceller_idempotent`, `ticks_consecutifs`, `dernier_scelle` | three sentences of the documentation that the code does not meet | the engine with one thread and two cells; `simulation` with one entity and two thresholds; `serveur` with two requests |

Bounds. The engine compares ticks only within one slot, so two ticks per slot
show older, equal and newer; a third on a ring of two shows that a tick that
does not share the slot is left alone. Two threads are enough for each race of
the code: every critical section involves the slot, the room or the list, and
one other party. A channel of one is full after one seal. Named bounds that
the code does not have: `MaxEcritures` (Compaction), `MaxEnvois` (Diffuseur
and Observation, seals of a thread), `DernierTick` (Simulation) and the set of
requests (Serveur); runs that stop at them, or where every receiver
may be gone, do not check deadlock. Symmetry is used only without liveness.
Nine ticks see two full groups of the coarsest tier and the return to nominal;
both thresholds are 1 there, so that a cell goes from 1 to 4 and back with its
chronotopes open, and the tier of 2 is left to the proofs. `Anneau` is there
the smallest ring that `HorizonAssumption` allows with a horizon of 1; with
that assumption lifted and one slot less, TLC finds a chronotope lost before its
seal. Nothing the stores hold is forgotten, and registrations are cut where the
code cuts them. Of the server, `Limite` 2 with 3 requests sheds one; two reads or seals
around a third request give every order of recording and resolving, and two
writes around a scrape every order of counting and loading. In `jumeaux` calls
are single steps under one mutex, so one thread gives every sequence of calls.

Each property has a mutant in `PROJECT.json`: an operator beside the original
that makes one plausible mistake, under which the property fails.

Fairness. `Moteur`: a thread inside a call keeps running (weak fairness), and
`creer_salle` obtains the write lock if it is free again and again (strong
fairness): parking_lot makes later readers queue behind a waiting writer, so
that repeated `vider` calls cannot starve it. `Diffuseur`: the same for a
sealing thread and for the purge; `AppelTermine` takes the diffusion as one
step, and `DiffusionTermine` says that it ends. The other modules state no
fairness: what must happen there is stated as a bound or about answers. Nothing
is assumed of callers that are idle nor of receivers.

### Findings

* `sceller` is documented as idempotent "le premier ou le centieme"
  (`store.rs:34-35`). Once a later tick has recycled the slot, sealing the key
  again returns, and broadcasts, an empty chronotope (`engine.rs:315`).
  `SceauRendu` says what does hold, and is proved.
* `AnnuaireMemoire` is documented to move an entity that was out of its cell
  "pendant 3 ticks consecutifs" (`routage.rs:71-73`). It counts attempts and
  never forgets them when the entity is back (`routage.rs:156`): one that goes
  out, back and out again is moved at once.
* The server's `latest_sealed` is documented as "Dernier tick scelle connu"
  (`main.rs:50`). It is set to the tick asked for even when the engine had gone
  past it and sealed nothing (`main.rs:407`): in the run, a write at tick 2 takes
  the slot of tick 0, and a seal at tick 0 becomes the room's latest.

Also, the engine refuses with `AlreadySealed` a tick that was never sealed once
its slot holds a newer one (`engine.rs:299`). Its header says so
(`engine.rs:28-30`), the variant's own comment does not (`lib.rs:124-125`);
`RespecteContrat` allows the refusal only then.

## 4. Proofs

Everything is proved from the assumptions declared with the constants: entity
identifiers and ticks are naturals, the ring, the threshold and a channel's
capacity are not zero, calls and requests are well formed, no pose is the mark of
a missing row, entities and requests are finitely many where something counts
them, the nominal horizon is not zero and its coarsest multiple is less than the ring
(`HorizonAssumption`, see section 6), the
dimensions looked at are natural numbers and the server's own are ones that
`avec_dimensions` lets through (`DimensionsAssumption`). Two hypotheses stand in
the statements of `SimulationProofs`: which router the harness was given. Of the
properties of the passing runs, all are theorems but those of liveness.

* `ListesProofs`. That the sort and `Extraire` always find the element their
  `CHOOSE` looks for rests on `RangAtteint`: in a finite chain, counting
  predecessors reaches every number (an injection between finite sets of the same
  size is onto). `ExtraireOrdre` and `TriOrdre` then give the positions that the
  elements of the result had; `MemeOrdre` says that two lists of the same
  elements in the same order are one list, without an induction.
* `SlotProofs`. Each slot transformation keeps slots well typed; `EcrireSlot` and
  `ScellerSlot` say what the engine needs of `ecrire` and `sceller`. Then what a
  compaction computes for journals of any length: `CompactionLWW` (the last entry
  of each entity, no other, in entity order) and `CompactionUnique` (two journals
  with the same last entries compact to the same journal). For one slot receiving
  writes, the invariant `CInv` says that the slot and the raw list of writes have
  the same last entry for each entity, which appending and compacting keep, and
  that `Seuil` writes were spent for each compaction. `SceauLWW`,
  `CompactionTransparente` and `CoutAmorti` follow.
* `MoteurProofs`, in five parts.
  - `MoteurType`: `TypeOK` is inductive. Its last conjunct, which ties a
    thread's call to its program counter, is needed for `CreerSalle` and
    `LireCellule`. `AvecSlotEffet` is the frame condition used throughout: a step
    under the cell's mutex changes the slot of the keys addressed there, no other.
  - Seals. `SceauDefinitif` alone is not inductive: sealing a key that is
    already sealed in the slot but unknown to the history would record any
    journal. The invariant adds the converse, `ScelleConnu`: what is sealed in a
    slot is what the history says. An accepted write outdates every seal of its
    slot or finds it open; a seal leaves alone a slot that is past it or already
    sealed; a new room has no ring; emptying forgets the cell's keys with their
    history. `RefusApresSceau`, `LectureFidele` and `SceauRendu` follow.
  - The contract. A step under a cell's mutex touches the registers of the keys
    that share its slot, and two such ticks are at least `Anneau` apart
    (`MemeIndice`): this is where the retention of the contract comes from.
    `UtiliserSlot` deduces that using a slot at a tick expires older registers of
    it as `Contrat!Utiliser` does. Then one lemma per action maps it to a step of
    the contract or to a stutter.
  - `JournalBorne` follows from `SlotsBornes`: a journal is one compacted (at
    most one entry per entity) and what was pushed since.
  - The observers. `ObserveSansGener`: each step of the composition is a step of
    the engine or a stutter, so that what is proved of the engine holds with
    observers. `EmisScelle` says of every chronotope a `diffuser` holds or has
    pushed that it is the first sealed journal of its key, or empty with the slot
    past the key, and that both are stable; `RecuScelle` follows.
* `DiffuseurProofs`. A subscription is in the list once and has a receiver
  (`ListeOK`), a thread in `diffuser` holds its last chronotope (`SceauOK`), and
  the list does not move while someone goes through it: with `AbonneGarde` and
  `TypeOK` this is inductive, since a purge waits for readers and keeps exactly
  the unmarked ones (`PurgeListe`). `LivraisonComplete` needs `DuOK`: past the index
  of a subscription that is owed the chronotope, it was given or its channel was
  full; and the counter, which is the length of the list, is not 0 when somebody is
  owed one. `OrdreParFil` needs `AncienOK`: what a channel holds of a thread is
  older than what that thread diffuses, unless the thread is past the
  subscription.
* `TemoinProofs`. `IndexFidele` is inductive with the types: the index grows only
  with a row that was not there. `AssemblerRepresente` shows that the list built
  from it is the only one, in entity order, of the rows of its key, from which
  `RespecteContrat` is one lemma per call. For the double, `Inserer` is the same
  write on a list kept sorted (`InsererRepresente`); by `Accord` both stores hold
  the same rows under each open key, and by uniqueness they seal the same list, so
  that `MemesReponses` holds. `OrdreCommun` comes from `OrdreSuivi`: of two lists
  of deliveries, what they share is in one order, because a key is pushed once, to
  all its observers in one step.
* `ServeurProofs`. `LectureAJour` says that a read past `Resoudre` has a tick
  when it should, and which. It needs to know of the requests that have not
  read yet: a room has a latest tick, at least that of every seal past
  `Actualiser` and of every tick resolved (`SceauxConnus`, `LecturesConnues`),
  which is never lost and only grows; a read that resolved holds what the room
  had then (`Resolues`). Whether a read resolves is its matter; `LectureComplete` is about
  what reads that did return. `LectureComplete` follows from `Lecture`: of each cell asked
  for whose seal was answered before, the chronotope is in the answer, or expired,
  or the cell is still among those to look at; and from what the store does to a
  register once closed (`Tenue`). `ReponsesComptees` counts sets of requests: one
  more request in one of them is one more in one counter, and `Issues` ties the
  counter of each route to what the request asked for and, for a write, to its
  answer. `ReleveFidele` keeps for each scrape a value of the
  counters (`Base`) that the requests answered before it came do not exceed and
  that its own loads are not below. `TypeOK` adds that refusals for
  authentication are the requests refused so, and that a place is taken only below
  the limit. Its last section is about addresses. `DivisionUnique` is the only
  fact about `\div` and `%` that the rest cites. From the definition of a power of two
  by its divisors, every other one is twice a power (`PuissanceMoitie`), powers
  divide each other (`PuissancesDivisent`) and their products are powers; so two
  numbers of the same bits are equal (`BitsUniques`, by the lowest bit where they
  differ and the quotients above it) and the exclusive or exists and is unique
  where the operands have no common bit (`BitsDisjoints`, `XorUnique`).
  `Concatenation` is then the code's own remark that the two operators coincide on disjoint
  fields (`engine.rs:40-42`), with powers of two as its hypothesis.
  `CoordonneesExactes`, `AdresseBornee` and `AdressesUniques` follow, for any
  dimensions; `AppelsTenus` adds that a handler past its check only names rooms
  and cells of the domain.
* `AnnuaireProofs`. `Espacement` with `Horloge` (the entry's clock is its last
  migration); `Prolonger` is the arithmetic of appending one more migration.
  `RefusTenu` needs `Promesse`: every refusal since the last change announced
  the same tick, the previous migration's plus `Delai`.
* `SimulationProofs`. Under `RouteurFidele` (a router leaves an entity where it
  is or moves it where asked: a hypothesis of the theorems, which
  `RouteursFideles` proves of both routers), everything holds for any thresholds,
  horizon within the ring, cells and entities.
  - The writes (`SansRejet`, `SansDuplication`, `ScelleATemps`). The invariant is
    about `Prochain(x)`, the tick of seal of the next write to cell `x`: what is
    sealed is before it (`Clos`), the last write of an entity is not after it
    (`Avance`). `Prochain` never goes back because tiers change only where all of
    them start a group (`ProchainAvance`), and a horizon is at least one group
    (`HorizonPasse`). `Derniere` gives one last write per entity, later than its
    others. `ScelleATemps` is about every key ever written (`crees`): it is open
    or sealed, and what is open is no older than the coarsest horizon. So an
    open key and the next write of its cell are less than a ring apart, which
    is `TourDAnneau`; by `Passes` no sealed key is ahead of time; hence no slot is
    taken from an open chronotope (`SansDepassement`), and a write to a key not
    yet sealed finds its slot (`CleAcceptee`).
  - `TypeOK`, with `Anciens`: nothing written, open or awaited is of a tick to
    come; a cell's load counts entities tracked.
  - `BasculeBornee` holds under either router, not under any faithful one, which
    might refuse for ever. `Attendue` says why an entity still waits: its router
    refuses it and has not yet for the whole hysteresis (`Refus`, of a number of
    attempts or of a date), or has granted the change within the current group of
    the coarsest tier. The bound is the sum of the two.
  - `BasculesMesurees` is an account of credits: the changes measured, with the
    entities whose router says another place than their last write, are at most the
    changes granted; those started likewise at most the changes asked for
    (`Comptes`). `Credits` is the step: each change ended or still awaited has a
    credit of its own, held before or gained in this step.
  - `CadenceMesuree` needs the chronotope that is still open: if `n` chronotopes
    hold the `m` ticks that wrote a cell of coarsest tier `p`, and the last one, of
    tick of seal `s`, is open, then `m + s + p <= p * n + tick` (`Groupe`): what is
    missing to fill it is the ticks until its end.
  - `ThrashingAmorti`, under either router, is an account too. `Depensee` says
    what the changes granted to one entry had cost by a tick, as a set of
    numbers: for the router that counts, the ticks but for the attempts under
    way; for the one that dates, the ticks up to the next change it would grant.
    `DepenseSuit` shows that nothing of it is given back and that a change granted
    adds a whole hysteresis to it, so that the pairs of an entity and a number
    are at least as many as the changes granted ask for (`Amortis`).

Only model-checked: `AppelTermine`, `MortPurge` and `DiffusionTermine`, which are
liveness under fairness.

## 5. Plan

Done: the core (Slot, Moteur, Contrat, Diffuseur, Annuaire, Simulation, Temoin,
Serveur), then the engine with its observers, the addressing, the double and
its comparison with the row store, the report, the server's layers and scrapes;
the proofs of section 4. What would come next: the server over the engine itself
rather than its contract, by composing `MoteurRespecteContrat` with the server's
theorems.

## 6. Not modelled

* The start-up banner, the benchmarks, and text: parsing of requests,
  rendering of answers and of metrics, error messages.
* Durations: latencies and their sums, and what `report` makes of its counters:
  the cells of all of them put together and deduplicated, floating rates, the
  lengths of the delays it lists (their number is modelled), and its count of
  accepted writes, which is that of every entity and tick while `SansRejet` holds.
* Of the simulation, positions (an entity is in any cell at any tick) and the
  counter of duplications between nodes (`SansDuplication` says it has nothing to
  count); and an entity tracked twice, which `track` does not refuse: its two
  followers could be in two cells of one tick.
* A nominal horizon of 0, which the type of `horizon_nominal_ticks` allows. The
  horizon of every tier is then 0 (`cadence.rs:82`): a degraded chronotope is
  sealed at the end of its first tick and the next write of its group is refused,
  where the harness says that degrading never refuses one (`harness.rs:31-32`).
  `Cadence` and `Simulation` allow it, and TLC finds that write with one entity;
  `HorizonAssumption` excludes it from the runs and the theorems. So it does
  nominal horizons of a quarter of the ring and more (16 with the engine's 64
  slots; the default is 2): there the store may give the slot of a chronotope that
  is still open to a later tick.
* Refusals of the Directory at a tick before that of the entity's last
  migration. `RefusTenu` does not speak of them: a caller whose ticks go back for
  ever may be refused for ever, and only `Espacement` is about such ticks.
* Memory ordering below the locks. The counter of the Diffuseur is written
  under the write lock and its reads are treated as sequentially consistent;
  those of the server are relaxed, and `ReleveFidele` compares a load only with
  loads and increments that happen before it, or with the next loads of the same
  atomic.
* The order in which observers see the seals of one cell made by different
  threads, and that two threads' seals of one key are delivered once: the code
  releases the slot before it diffuses, and promises neither (`OrdreParFil` and
  `RecuScelle` are what holds).
* Panics of the engine on cells and rooms out of the domain, which are the
  caller's mistake by the code's own account; `AppelsAdressables` says that the
  server makes no such call.
