-------------------------- MODULE LivePublication --------------------------
(***************************************************************************)
(* The deployed system around the live worker: the API container that      *)
(* seeds an empty volume and serves the snapshot (api.py), the containers' *)
(* start order and restart policy (docker-compose.yml), the provider, and  *)
(* the walk-forward job that installs a model bundle while the worker runs *)
(* (historical_walkforward.py).  They meet in two files of the data volume:*)
(* recommendations/current.json, replaced atomically, and                  *)
(* models/production.json, which is truncated and then written.            *)
(***************************************************************************)
EXTENDS LiveWorker

CONSTANTS
    TTL,          \* settings.publication_ttl_seconds
    MaxOutages    \* BOUND: how often a container dies from outside its own code

ASSUME TTLWithinHorizon == TTL \in Nat /\ TTL < Horizon
ASSUME SomeOutages == MaxOutages \in Nat

VARIABLES
    bundle,     \* models/production.json
    job,        \* the walk-forward job: idle, or the model it is writing
    bad,        \* what the providers currently send malformed, of each game
    api,        \* the API process
    created,    \* whether compose has created the worker container
    shown,      \* time since current.json last changed
    outages     \* how many are left

around == <<bundle, job, bad, api, created, outages>>
all == <<vars, around, shown>>

SystemTypeOK ==
    /\ TypeOK
    /\ bundle \in Bundle
    /\ job \in Model \cup {None}
    /\ bad \in Flaws
    /\ api \in {"down", "seeding", "up"}
    /\ created \in BOOLEAN
    /\ shown \in 0 .. Horizon
    /\ outages \in 0 .. MaxOutages

-----------------------------------------------------------------------------
(***************************************************************************)
(* The worker container.                                                   *)
(***************************************************************************)
WorkerStep ==
    /\ created
    /\ Work(bad, bundle)
    /\ shown' = IF phase = "replacing" THEN 0 ELSE shown
    /\ UNCHANGED around

WorkerDies ==
    /\ created
    /\ outages > 0
    /\ Outage
    /\ outages' = outages - 1
    /\ UNCHANGED <<bundle, job, bad, api, created, shown>>

\* MUTANT of CreateWorker: the worker does not wait for a healthy API.
CreateWorkerAnytime ==
    /\ ~ created
    /\ created' = TRUE
    /\ UNCHANGED <<vars, bundle, job, bad, api, shown, outages>>

\* depends_on holds only when the container is first created.
CreateWorker ==
    /\ ~ created
    /\ api = "up"
    /\ created' = TRUE
    /\ UNCHANGED <<vars, bundle, job, bad, api, shown, outages>>

(***************************************************************************)
(* The API: lifespan looks for a snapshot, and writes the demo if there is *)
(* none, before the process answers a health check.                        *)
(***************************************************************************)
ApiStarts ==
    /\ api = "down"
    /\ api' = IF file = None THEN "seeding" ELSE "up"
    /\ UNCHANGED <<vars, bundle, job, bad, created, shown, outages>>

ApiSeeds ==
    /\ api = "seeding"
    /\ file' = Demo
    /\ shown' = 0
    /\ api' = "up"
    /\ UNCHANGED <<phase, todo, cycle, ages, crosswalk, bundle, job, bad, created, outages>>

ApiStops ==
    /\ api # "down"
    /\ outages > 0
    /\ api' = "down"
    /\ outages' = outages - 1
    /\ UNCHANGED <<vars, bundle, job, bad, created, shown>>

(***************************************************************************)
(* The walk-forward job.  A passed gate rewrites production.json in place; *)
(* a failed one leaves it alone.  The job may die while it writes.         *)
(***************************************************************************)
JobWrites ==
    /\ job = None
    /\ job' \in Model
    /\ bundle' = "torn"
    /\ UNCHANGED <<vars, bad, api, created, shown, outages>>

JobEnds ==
    /\ job # None
    /\ job' = None
    /\ bundle' \in {job, "torn"}
    /\ UNCHANGED <<vars, bad, api, created, shown, outages>>

\* The providers start or stop sending malformed payloads.
FeedChanges ==
    /\ bad' \in Flaws
    /\ UNCHANGED <<vars, bundle, job, api, created, shown, outages>>

TimePasses ==
    /\ Tick
    /\ shown' = Older(shown)
    /\ UNCHANGED around

SystemInit ==
    /\ Init
    /\ bundle = "absent" /\ job = None /\ bad = [g \in Game |-> "none"]
    /\ api = "down" /\ created = FALSE /\ shown = 0 /\ outages = MaxOutages

SystemNext ==
    \/ WorkerStep \/ WorkerDies \/ CreateWorker
    \/ ApiStarts \/ ApiSeeds \/ ApiStops
    \/ JobWrites \/ JobEnds \/ FeedChanges \/ TimePasses

\* The worker's steps are those of one sequential program whose requests all
\* time out; docker restarts what died; a job that writes ends; time passes.
Fairness ==
    /\ WF_all(WorkerStep)
    /\ WF_all(TimePasses)
    /\ WF_all(JobEnds)
    /\ WF_all(ApiStarts) /\ WF_all(ApiSeeds) /\ WF_all(CreateWorker)

SystemSpec == SystemInit /\ [][SystemNext]_all /\ Fairness
-----------------------------------------------------------------------------
(***************************************************************************)
(* Properties.                                                             *)
(***************************************************************************)

\* Once a live snapshot was published the made-up recommendations of the demo
\* never replace it, although the API looks for the file in one step and seeds
\* it in another, and both containers restart in any order (api.py:63,
\* docker-compose.yml).
DemoNeverReturns ==
    [][file \notin {None, Demo} => file' \notin {None, Demo}]_all

WellFormed == \A g \in Game : bad[g] = "none"

\* The crosswalk can be read: it is only torn while it is being rewritten.
Loadable == crosswalk = "torn" => phase = "saving"

\* The worker goes round forever once the providers send well-formed payloads,
\* no promotion was left half-written, and no crash has hit the rewriting of the
\* crosswalk: neither failing requests, a missing bundle nor any other crash
\* wedges it (worker.py:70-77, collector.py:112, identity.py:42-48).
CyclesForever ==
    <>[](WellFormed /\ bundle # "torn" /\ Loadable) => []<>(phase = "waiting")

\* A promoted model is in use without restarting anything: when production.json
\* stays at a model, so does the snapshot from some cycle on, if the worker can
\* start at all (live_engine.py:131, worker.py:70).
PromotionTakesEffect ==
    \A m \in Model :
        <>[](WellFormed /\ bundle = m /\ Loadable)
            => <>[](file # None /\ file.model = m)

\* What the dashboard has to show as recommendations.
Displayed == IF file = None THEN {} ELSE file.recs

\* docs/ARCHITECTURE.md, "Anti-stale design": when cycles can no longer be
\* priced, the recommendations of an earlier one go away.
UnpricedCycleWithdraws ==
    Displayed # {} /\ shown > TTL ~> Displayed = {} \/ shown <= TTL

\* docs/USER_EXPERIENCE.md: a recommendation shown as current is not expired.
ShownIsUnexpired ==
    shown > TTL => \A r \in Displayed : r.status # "PUBLISHED"
=============================================================================
