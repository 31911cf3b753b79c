------------------------ MODULE LivePublicationProofs ------------------------
(***************************************************************************)
(* Proofs about LiveWorker, for any number of games, any sequence of       *)
(* bundles and provider answers, any gate and any interval; and about the  *)
(* deployed system around it, where the worker, the API and the job die    *)
(* and start in any order.                                                 *)
(***************************************************************************)
EXTENDS LivePublication, TLAPS

-----------------------------------------------------------------------------
(***************************************************************************)
(* The worker.                                                             *)
(***************************************************************************)

LEMMA Aging ==
    ASSUME NEW age \in 0 .. Horizon
    PROVE  Older(age) \in 0 .. Horizon /\ (age > MaxStateAge => Older(age) > MaxStateAge)
BY AgesComparable DEF Older

LEMMA FreshTypes ==
    ASSUME Fresh
    PROVE  /\ todo' \subseteq Game
           /\ live' \subseteq Game
           /\ flaw' \in Flaws
           /\ listed' \subseteq Game
           /\ gathered' \subseteq live'
           /\ odds' \subseteq listed'
           /\ health' \in Health
           /\ model' \in Model \cup {None}
           /\ current' = None
           /\ evaluated' \subseteq gathered'
           /\ recs' \subseteq Rec
           /\ captured' \in 0 .. Horizon
           /\ fetched' \in 0 .. Horizon
           /\ waited' \in 0 .. Horizon
BY AgesComparable DEF Fresh, Health, Flaws

(***************************************************************************)
(* The steps that drop the locals of a cycle, and the others.              *)
(***************************************************************************)
Resets == \/ StartCycle \/ Restart \/ Outage
          \/ \E loaded \in Bundle : TornBundle(loaded)
          \/ \E g \in Game : MalformedGame(g)

LEMMA ResetFacts ==
    ASSUME Resets
    PROVE  /\ Fresh
           /\ phase' \in {"games", "down"}
           /\ UNCHANGED disk
<1>1. CASE StartCycle
  BY <1>1 DEF StartCycle
<1>2. CASE Restart
  BY <1>2 DEF Restart
<1>3. CASE Outage
  BY <1>3 DEF Outage, ArchiveFails, Kill
<1>4. ASSUME NEW loaded \in Bundle, TornBundle(loaded)
      PROVE  Fresh /\ phase' \in {"games", "down"} /\ UNCHANGED disk
  BY <1>4 DEF TornBundle
<1>5. ASSUME NEW g \in Game, MalformedGame(g)
      PROVE  Fresh /\ phase' \in {"games", "down"} /\ UNCHANGED disk
  BY <1>5 DEF MalformedGame
<1>6. QED
  BY <1>1, <1>2, <1>3, <1>4, <1>5 DEF Resets

\* Every step is a reset, a publication, a tick, or a step within a cycle.
CycleStep(malformed, loaded) ==
    \/ GamesArrive(malformed) \/ GamesFail \/ Events
    \/ \E g \in Game : CollectGame(g, malformed) \/ EventOdds(g, malformed)
    \/ FeaturedOdds
    \/ LoadBundle(loaded) \/ BundleNotReady(loaded)
    \/ \E g \in Game : SkipUnmatched(g) \/ OpenCrosswalk(g)
    \/ SaveCrosswalk \/ SkipGame \/ PriceGame \/ Priced \/ WriteTemporary

LEMMA Steps ==
    ASSUME Next
    PROVE  \/ Resets
           \/ Replace
           \/ Tick
           \/ \E malformed \in Flaws, loaded \in Bundle : CycleStep(malformed, loaded)
<1>1. ASSUME NEW malformed \in Flaws, Collect(malformed)
      PROVE  CycleStep(malformed, "torn") /\ "torn" \in Bundle
  BY <1>1 DEF Collect, CycleStep, Bundle
<1>2. ASSUME NEW loaded \in Bundle, Process(loaded)
      PROVE  \/ TornBundle(loaded)
             \/ /\ CycleStep([g \in Game |-> "none"], loaded)
                /\ [g \in Game |-> "none"] \in Flaws
  BY <1>2 DEF Process, CycleStep, Flaws
<1>3. CASE Alone
  <2>1. CASE WriteTemporary
    <3>1. /\ CycleStep([g \in Game |-> "none"], "torn")
          /\ [g \in Game |-> "none"] \in Flaws /\ "torn" \in Bundle
      BY <2>1 DEF CycleStep, Flaws, Bundle
    <3> QED  BY <3>1
  <2>2. CASE ~ WriteTemporary
    BY <1>3, <2>2 DEF Alone, Publish, Resets
  <2> QED  BY <2>1, <2>2
<1> QED
  BY <1>1, <1>2, <1>3 DEF Next, Resets

(***************************************************************************)
(* The inductive invariant.  The state of a cycle is built up phase by     *)
(* phase: what a phase has not reached is still empty, what it has left to *)
(* visit was gathered before, and as long as no error was recorded every   *)
(* game in progress is either dealt with or still to be visited.           *)
(***************************************************************************)
Unreached ==
    /\ phase \in {"down", "games", "waiting", "events"} =>
          listed = {} /\ gathered = {} /\ odds = {}
    /\ phase \in {"down", "games", "waiting", "events", "live", "odds"} =>
          evaluated = {} /\ recs = {}
    /\ phase = "live" => odds = {} /\ todo \subseteq live
    /\ phase = "odds" => todo \subseteq listed
    /\ phase \in Pricing => todo \subseteq gathered /\ model \in Model
    /\ phase \in {"saving", "evaluating"} => current \in todo

Accounted ==
    health = "HEALTHY" =>
        /\ phase = "live" => live = gathered \cup todo
        /\ phase = "odds" => live = gathered
        /\ phase \in Pricing => live = evaluated \cup todo
        /\ phase \in {"writing", "replacing"} => live = evaluated

\* captured_at is read before the oldest payload arrives.
StampedFirst == fetched <= captured

RecsOfCycle ==
    \A r \in recs :
        /\ r.game \in evaluated
        /\ r.model = model
        /\ r.status = "PUBLISHED" => r.priced <= MaxStateAge

FileInv == CurrentCycleOnly /\ FreshWhenPublished /\ HealthyMeansAllPriced

CycleInv ==
    /\ TypeOK /\ Unreached /\ Accounted /\ StampedFirst /\ RecsOfCycle
    /\ FileInv

LEMMA CycleInit == Init => CycleInv
<1> SUFFICES ASSUME Init PROVE CycleInv
  OBVIOUS
<1>1. TypeOK
  BY AgesComparable DEF Init, TypeOK, Phases, Health, Flaws
<1>2. Unreached /\ Accounted /\ StampedFirst /\ RecsOfCycle
  BY DEF Init, Unreached, Accounted, StampedFirst, RecsOfCycle, Pricing
<1>3. FileInv
  BY DEF Init, FileInv, CurrentCycleOnly, FreshWhenPublished,
     HealthyMeansAllPriced
<1>4. QED
  BY <1>1, <1>2, <1>3 DEF CycleInv

LEMMA ResetStep ==
    ASSUME CycleInv, Resets
    PROVE  CycleInv'
<1>1. Fresh /\ phase' \in {"games", "down"} /\ file' = file /\ crosswalk' = crosswalk
  BY ResetFacts DEF disk
<1>2. TypeOK'
  BY <1>1, FreshTypes DEF CycleInv, TypeOK, Phases
<1>3. Unreached' /\ Accounted' /\ StampedFirst' /\ RecsOfCycle'
  BY <1>1 DEF Fresh, Unreached, Accounted, StampedFirst, RecsOfCycle, Pricing
<1>4. FileInv'
  BY <1>1 DEF CycleInv, FileInv, CurrentCycleOnly, FreshWhenPublished,
     HealthyMeansAllPriced
<1>5. QED
  BY <1>2, <1>3, <1>4 DEF CycleInv

LEMMA ReplaceStep ==
    ASSUME CycleInv, Replace
    PROVE  CycleInv'
<1>1. /\ Fresh /\ phase = "replacing" /\ phase' = "waiting"
      /\ file' = Snapshot /\ crosswalk' = crosswalk
  BY DEF Replace
<1>2. Snapshot \in LiveSnapshot
  BY DEF CycleInv, TypeOK, Snapshot, LiveSnapshot
<1>3. TypeOK'
  BY <1>1, <1>2, FreshTypes DEF CycleInv, TypeOK, Phases
<1>4. Unreached' /\ Accounted' /\ StampedFirst' /\ RecsOfCycle'
  BY <1>1 DEF Fresh, Unreached, Accounted, StampedFirst, RecsOfCycle, Pricing
<1>5. /\ file'.recs = recs /\ file'.model = model /\ file'.status = health
      /\ file'.live = live /\ file'.evaluated = evaluated
  BY <1>1 DEF Snapshot
<1>6. FileInv'
  BY <1>1, <1>5 DEF CycleInv, RecsOfCycle, Accounted, FileInv,
     CurrentCycleOnly, FreshWhenPublished, HealthyMeansAllPriced
<1>7. QED
  BY <1>3, <1>4, <1>6 DEF CycleInv

LEMMA TickStep ==
    ASSUME CycleInv, Tick
    PROVE  CycleInv'
<1>1. /\ UNCHANGED <<phase, todo, cycle, disk>>
      /\ captured' = Older(captured) /\ fetched' = Older(fetched)
      /\ waited' = Older(waited)
  BY DEF Tick
<1>2. /\ captured \in 0 .. Horizon /\ fetched \in 0 .. Horizon
      /\ waited \in 0 .. Horizon /\ fetched <= captured
  BY DEF CycleInv, TypeOK, StampedFirst
<1>3. StampedFirst'
  BY <1>1, <1>2, AgesComparable DEF Older, StampedFirst
<1>4. TypeOK'
  BY <1>1, <1>2, Aging DEF CycleInv, TypeOK, cycle, collected, rows, priced, disk
<1>5. Unreached' /\ Accounted' /\ RecsOfCycle'
  BY <1>1 DEF CycleInv, cycle, collected, rows, priced, Unreached, Accounted, RecsOfCycle
<1>6. FileInv'
  BY <1>1 DEF disk, CycleInv, FileInv, CurrentCycleOnly, FreshWhenPublished,
     HealthyMeansAllPriced
<1>7. QED
  BY <1>3, <1>4, <1>5, <1>6 DEF CycleInv

\* The steps within a cycle leave the file alone; what they do to the rest.
LEMMA WithinCycle ==
    ASSUME CycleInv, NEW malformed \in Flaws, NEW loaded \in Bundle,
           CycleStep(malformed, loaded)
    PROVE  /\ TypeOK' /\ Unreached' /\ Accounted' /\ StampedFirst'
           /\ RecsOfCycle' /\ file' = file
<1> USE DEF CycleInv, TypeOK, Unreached, Accounted, StampedFirst, RecsOfCycle,
        Phases, Pricing, Health, MayFail, collected, rows, priced, ages, disk
<1>1. CASE GamesArrive(malformed)
  <2>1. flaw' \in Flaws
    BY <1>1 DEF GamesArrive, Flaws
  <2> QED  BY <1>1, <2>1, AgesComparable DEF GamesArrive
<1>2. CASE GamesFail
  BY <1>2 DEF GamesFail
<1>3. CASE Events
  BY <1>3 DEF Events
<1>4. ASSUME NEW g \in Game, NEW what \in {"stats", "offers"}, Takes(g, malformed, what)
      PROVE  flaw' \in Flaws
  BY <1>4 DEF Takes, Flaws
<1>5. ASSUME NEW g \in Game, CollectGame(g, malformed)
      PROVE  /\ TypeOK' /\ Unreached' /\ Accounted' /\ StampedFirst'
             /\ RecsOfCycle' /\ file' = file
  <2>1. flaw' \in Flaws
    BY <1>4, <1>5 DEF CollectGame
  <2> QED  BY <1>5, <2>1 DEF CollectGame
<1>6. ASSUME NEW g \in Game, EventOdds(g, malformed)
      PROVE  /\ TypeOK' /\ Unreached' /\ Accounted' /\ StampedFirst'
             /\ RecsOfCycle' /\ file' = file
  <2>1. flaw' \in Flaws
    BY <1>4, <1>6 DEF EventOdds
  <2> QED  BY <1>6, <2>1 DEF EventOdds
<1>7. CASE FeaturedOdds
  BY <1>7 DEF FeaturedOdds
<1>8. CASE LoadBundle(loaded)
  BY <1>8 DEF LoadBundle, Summarized, Collected
<1>9. CASE BundleNotReady(loaded)
  BY <1>9 DEF BundleNotReady, Collected
<1>10. ASSUME NEW g \in Game, SkipUnmatched(g)
      PROVE  /\ TypeOK' /\ Unreached' /\ Accounted' /\ StampedFirst'
             /\ RecsOfCycle' /\ file' = file
  BY <1>10 DEF SkipUnmatched
<1>11. ASSUME NEW g \in Game, OpenCrosswalk(g)
      PROVE  /\ TypeOK' /\ Unreached' /\ Accounted' /\ StampedFirst'
             /\ RecsOfCycle' /\ file' = file
  BY <1>11 DEF OpenCrosswalk
<1>12. CASE SaveCrosswalk
  BY <1>12 DEF SaveCrosswalk, cycle
<1>13. CASE SkipGame
  BY <1>13 DEF SkipGame
<1>14. CASE PriceGame
  <2> DEFINE rec(status) == [game |-> current, status |-> status,
                             priced |-> fetched, model |-> model]
  <2>1. PICK status \in {"PUBLISHED", "HELD"} :
           /\ recs' \in {recs, recs \cup {rec(status)}}
           /\ status = "PUBLISHED" => captured <= MaxStateAge
    BY <1>14, AgesComparable DEF PriceGame, Verdicts
  <2>2. /\ UNCHANGED <<collected, health, model, ages, disk>>
        /\ evaluated' = evaluated \cup {current} /\ todo' = todo \ {current}
        /\ phase = "evaluating" /\ phase' = "pricing" /\ current \in todo /\ current' = None
    BY <1>14 DEF PriceGame
  <2>3. rec(status) \in Rec
    BY <2>2 DEF Rec
  <2>4. fetched \in Nat /\ captured \in Nat /\ fetched <= captured
    OBVIOUS
  <2>5. RecsOfCycle'
    BY <2>1, <2>2, <2>4, AgesComparable
  <2> HIDE DEF rec
  <2>6. TypeOK' /\ Unreached' /\ Accounted' /\ StampedFirst' /\ file' = file
    BY <2>1, <2>2, <2>3
  <2> QED  BY <2>5, <2>6
<1>15. CASE Priced
  BY <1>15 DEF Priced, cycle
<1>16. CASE WriteTemporary
  BY <1>16 DEF WriteTemporary, cycle
<1> QED
  BY <1>1, <1>2, <1>3, <1>5, <1>6, <1>7, <1>8, <1>9, <1>10, <1>11, <1>12, <1>13,
     <1>14, <1>15, <1>16 DEF CycleStep

LEMMA CycleInvStep == CycleInv /\ [Next]_vars => CycleInv'
<1> SUFFICES ASSUME CycleInv, [Next]_vars PROVE CycleInv'
  OBVIOUS
<1>1. ASSUME NEW malformed \in Flaws, NEW loaded \in Bundle,
             CycleStep(malformed, loaded)
      PROVE  CycleInv'
  <2>1. FileInv'
    BY <1>1, WithinCycle DEF CycleInv, FileInv, CurrentCycleOnly,
       FreshWhenPublished, HealthyMeansAllPriced
  <2>2. QED
    BY <1>1, <2>1, WithinCycle DEF CycleInv
<1>2. CASE UNCHANGED vars
  BY <1>2 DEF vars, cycle, collected, rows, priced, ages, disk, CycleInv, TypeOK, Unreached, Accounted,
     StampedFirst, RecsOfCycle, FileInv, CurrentCycleOnly, FreshWhenPublished,
     HealthyMeansAllPriced
<1>3. QED
  BY <1>1, <1>2, Steps, ResetStep, ReplaceStep, TickStep

LEMMA CycleInvariant == Spec => []CycleInv
BY CycleInit, CycleInvStep, PTL DEF Spec

\* The worker's state keeps its shape, whatever the providers and the disk do.
THEOREM WorkerTypes == Spec => []TypeOK
<1>1. CycleInv => TypeOK
  BY DEF CycleInv
<1>2. QED
  BY <1>1, CycleInvariant, PTL

\* A snapshot holds recommendations of its own cycle and of one model only.
THEOREM CurrentCycle == Spec => []CurrentCycleOnly
<1>1. CycleInv => CurrentCycleOnly
  BY DEF CycleInv, FileInv
<1>2. QED
  BY <1>1, CycleInvariant, PTL

\* No recommendation is PUBLISHED on data older than the gate.
THEOREM FreshData == Spec => []FreshWhenPublished
<1>1. CycleInv => FreshWhenPublished
  BY DEF CycleInv, FileInv
<1>2. QED
  BY <1>1, CycleInvariant, PTL

\* A HEALTHY snapshot has priced every game in progress.
THEOREM HealthyIsComplete == Spec => []HealthyMeansAllPriced
<1>1. CycleInv => HealthyMeansAllPriced
  BY DEF CycleInv, FileInv
<1>2. QED
  BY <1>1, CycleInvariant, PTL

-----------------------------------------------------------------------------
(***************************************************************************)
(* The deployed system.                                                    *)
(***************************************************************************)

\* Of the variables of the worker only the API touches one.
LEMMA SystemSteps ==
    ASSUME bad \in Flaws, bundle \in Bundle, SystemNext
    PROVE  [Next]_vars \/ ApiSeeds
<1>1. CASE WorkerStep
  BY <1>1 DEF WorkerStep, Work, Next
<1>2. CASE WorkerDies
  BY <1>2 DEF WorkerDies, Next
<1>3. CASE TimePasses
  BY <1>3 DEF TimePasses, Next
<1>4. QED
  BY <1>1, <1>2, <1>3 DEF SystemNext, CreateWorker, ApiStarts, ApiStops,
     JobWrites, JobEnds, FeedChanges

\* The worker keeps its invariant also when the API seeds the demo: the demo
\* claims nothing.
LEMMA SeedStep ==
    ASSUME CycleInv, ApiSeeds
    PROVE  CycleInv'
<1>1. /\ UNCHANGED <<phase, todo, cycle, ages, crosswalk>>
      /\ file' = Demo
  BY DEF ApiSeeds
<1>2. TypeOK' /\ Unreached' /\ Accounted' /\ StampedFirst' /\ RecsOfCycle'
  BY <1>1 DEF CycleInv, cycle, collected, rows, priced, ages, TypeOK, Unreached, Accounted,
     StampedFirst, RecsOfCycle
<1>3. FileInv'
  BY <1>1 DEF FileInv, CurrentCycleOnly, FreshWhenPublished,
     HealthyMeansAllPriced, Demo
<1>4. QED
  BY <1>2, <1>3 DEF CycleInv

(***************************************************************************)
(* Who may write current.json when.  The API seeds only a volume that has  *)
(* no snapshot yet, and then there is no worker yet: compose creates it    *)
(* after the API was healthy once, and a healthy API has a snapshot.       *)
(***************************************************************************)
SeedsFirst ==
    /\ created \/ api = "up" => file # None
    /\ api = "seeding" => file = None /\ ~ created

Surroundings ==
    /\ bundle \in Bundle
    /\ job \in Model \cup {None}
    /\ bad \in Flaws
    /\ api \in {"down", "seeding", "up"}
    /\ created \in BOOLEAN
    /\ shown \in 0 .. Horizon
    /\ outages \in 0 .. MaxOutages

SystemInv == CycleInv /\ Surroundings /\ SeedsFirst

LEMMA SystemBegins == SystemInit => SystemInv
<1> SUFFICES ASSUME SystemInit PROVE SystemInv
  OBVIOUS
<1>1. CycleInv
  BY CycleInit DEF SystemInit
<1>2. Surroundings
  <2>1. shown \in 0 .. Horizon /\ outages \in 0 .. MaxOutages
    BY AgesComparable, SomeOutages DEF SystemInit
  <2>2. created \in BOOLEAN
    BY DEF SystemInit
  <2>3. bundle \in Bundle /\ job = None /\ bad \in Flaws /\ api = "down"
    BY DEF SystemInit, Bundle, Flaws
  <2>4. QED
    BY <2>1, <2>2, <2>3 DEF Surroundings
<1>3. SeedsFirst
  BY DEF SystemInit, Init, SeedsFirst
<1>4. QED
  BY <1>1, <1>2, <1>3 DEF SystemInv

\* A step of the worker leaves the file alone or replaces it by its snapshot.
LEMMA WorkerWrites ==
    ASSUME CycleInv, [Next]_vars
    PROVE  file' = file \/ (file' = Snapshot /\ Snapshot \in LiveSnapshot)
<1>1. ASSUME NEW anyBad \in Flaws, NEW anyBundle \in Bundle,
             CycleStep(anyBad, anyBundle)
      PROVE  file' = file
  BY <1>1, WithinCycle
<1>2. CASE Replace
  BY <1>2 DEF Replace, CycleInv, TypeOK, Snapshot, LiveSnapshot
<1>3. CASE Resets
  BY <1>3, ResetFacts DEF disk
<1>4. QED
  BY <1>1, <1>2, <1>3, Steps DEF Tick, vars, disk

LEMMA SurroundingsStep ==
    ASSUME Surroundings, SystemNext
    PROVE  Surroundings'
<1> USE SomeOutages DEF Surroundings
<1>1. CASE WorkerStep
  BY <1>1, AgesComparable DEF WorkerStep, around
<1>2. CASE WorkerDies
  BY <1>2 DEF WorkerDies
<1>3. CASE CreateWorker \/ ApiStarts
  BY <1>3 DEF CreateWorker, ApiStarts
<1>4. CASE ApiSeeds
  BY <1>4, AgesComparable DEF ApiSeeds
<1>5. CASE ApiStops
  BY <1>5 DEF ApiStops
<1>6. CASE JobWrites \/ JobEnds \/ FeedChanges
  BY <1>6 DEF JobWrites, JobEnds, FeedChanges, Bundle
<1>7. CASE TimePasses
  BY <1>7, Aging DEF TimePasses, around
<1>8. QED
  BY <1>1, <1>2, <1>3, <1>4, <1>5, <1>6, <1>7 DEF SystemNext

LEMMA SeedsFirstStep ==
    ASSUME SystemInv, SystemNext
    PROVE  SeedsFirst'
<1> USE DEF SeedsFirst
<1>1. None \notin LiveSnapshot \cup {Demo}
  BY NoneIsNoSnapshot
<1>2. SeedsFirst /\ CycleInv
  BY DEF SystemInv
<1>3. CASE WorkerStep \/ WorkerDies
  <2>1. created /\ UNCHANGED <<created, api>>
    BY <1>3, <1>2 DEF WorkerStep, WorkerDies, around, ApiSeeds
  <2>2. [Next]_vars
    BY <1>3 DEF WorkerStep, WorkerDies, Work, Next, SystemInv, Surroundings
  <2>3. file' # None
    BY <2>1, <2>2, <1>1, <1>2, WorkerWrites
  <2>4. QED
    BY <2>1, <2>3, <1>2
<1>4. CASE TimePasses
  BY <1>4, <1>2 DEF TimePasses, Tick, around, disk
<1>5. CASE ApiSeeds
  BY <1>5, <1>1 DEF ApiSeeds
<1>6. CASE ApiStarts
  BY <1>6, <1>2 DEF ApiStarts, vars, disk
<1>7. CASE CreateWorker
  BY <1>7, <1>2 DEF CreateWorker, vars, disk
<1>8. CASE ApiStops
  BY <1>8, <1>2 DEF ApiStops, vars, disk
<1>9. CASE JobWrites \/ JobEnds \/ FeedChanges
  BY <1>9, <1>2 DEF JobWrites, JobEnds, FeedChanges, vars, disk
<1>10. QED
  BY <1>3, <1>4, <1>5, <1>6, <1>7, <1>8, <1>9 DEF SystemNext

LEMMA SystemInvStep == SystemInv /\ [SystemNext]_all => SystemInv'
<1> SUFFICES ASSUME SystemInv, [SystemNext]_all PROVE SystemInv'
  OBVIOUS
<1>1. CASE SystemNext
  <2>1. CycleInv'
    BY <1>1, SystemSteps, SeedStep, CycleInvStep DEF SystemInv, Surroundings
  <2>2. QED
    BY <1>1, <2>1, SurroundingsStep, SeedsFirstStep DEF SystemInv
<1>2. CASE UNCHANGED all
  <2>1. CycleInv'
    BY <1>2, CycleInvStep DEF all, SystemInv
  <2>2. Surroundings' /\ SeedsFirst'
    BY <1>2 DEF all, vars, disk, around, SystemInv, Surroundings, SeedsFirst
  <2>3. QED
    BY <2>1, <2>2 DEF SystemInv
<1>3. QED
  BY <1>1, <1>2

LEMMA SystemInvariant == SystemSpec => []SystemInv
BY SystemBegins, SystemInvStep, PTL DEF SystemSpec

\* The files of the data volume and the state of every process keep their
\* shape in the deployed system, also when a model is being written, the
\* provider sends malformed rows or a container dies (docker-compose.yml:1-34).
THEOREM SystemTypes == SystemSpec => []SystemTypeOK
<1>1. SystemInv => SystemTypeOK
  BY DEF SystemInv, CycleInv, Surroundings, SystemTypeOK
<1>2. QED
  BY <1>1, SystemInvariant, PTL

\* In the deployed system, too, the snapshot is of one cycle and one model, is
\* fresh when published, and is complete when it calls itself HEALTHY: what the
\* API and the job write into the volume cannot break it (worker.py:77,
\* api.py:63).
THEOREM SystemPublishesWell ==
    SystemSpec => [](CurrentCycleOnly /\ FreshWhenPublished /\ HealthyMeansAllPriced)
<1>1. SystemInv => CurrentCycleOnly /\ FreshWhenPublished /\ HealthyMeansAllPriced
  BY DEF SystemInv, CycleInv, FileInv
<1>2. QED
  BY <1>1, SystemInvariant, PTL

\* Once a live snapshot was published the demo never replaces it, in whatever
\* order the containers die and restart (api.py:63).
THEOREM DemoStaysAway == SystemSpec => DemoNeverReturns
<1>1. SystemInv /\ [SystemNext]_all
        => [file \notin {None, Demo} => file' \notin {None, Demo}]_all
  <2> SUFFICES ASSUME SystemInv, SystemNext, file \notin {None, Demo}
               PROVE  file' \notin {None, Demo}
    OBVIOUS
  <2>1. ~ ApiSeeds
    BY DEF ApiSeeds, SystemInv, SeedsFirst
  <2>2. file' = file \/ (file' = Snapshot /\ Snapshot \in LiveSnapshot)
    BY <2>1, SystemSteps, WorkerWrites DEF SystemInv, Surroundings
  <2>3. Snapshot # Demo
    BY DEF Snapshot, Demo
  <2>4. QED
    BY <2>2, <2>3, NoneIsNoSnapshot
<1>2. QED
  BY <1>1, SystemInvariant, PTL DEF SystemSpec, DemoNeverReturns
=============================================================================
