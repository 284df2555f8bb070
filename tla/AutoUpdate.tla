----------------------------- MODULE AutoUpdate -----------------------------
(***************************************************************************)
(* The auto-update of one app (docker/auto_updater.go), the image monitor  *)
(* that calls for it (docker/image_updater.go), the compose deploy it runs *)
(* (docker/compose.go), the health probe (docker/health_probe.go) and the  *)
(* records of the attempts (db/app_updates.go).                            *)
(*                                                                         *)
(* The services run one image, named by a tag; the image is the number of  *)
(* its release.  An attempt is one call of TriggerApp: "auto" from a cycle *)
(* of the monitor, "manual" from a request that skips cooldown and window. *)
(* A "toggle" is the request that sets the dockpal.auto-update label: it   *)
(* runs the same deploy, without pulling and without the app's mutex.      *)
(***************************************************************************)
EXTENDS Naturals, FiniteSets

CONSTANTS
    Autos,         \* triggers of the monitor's cycles
    Requests,      \* manual triggers and toggles
    Services,      \* the services of the app's compose file
    MaxRelease,    \* bound: the registry's newest release
    Concurrency,   \* DOCKPAL_AUTO_UPDATE_CONCURRENCY, the capacity of sem
    MaxFaults,     \* bound: what goes wrong around the worker, in one behaviour
    None           \* not an attempt: the mutex is free, nobody's container

ASSUME AutoUpdateAssumption ==
    /\ MaxRelease \in Nat /\ MaxFaults \in Nat /\ Concurrency \in Nat \ {0}
    /\ Autos \cap Requests = {} /\ None \notin Autos \union Requests
    /\ Services # {}

Attempts == Autos \union Requests

VARIABLES
    remote,    \* the release the registry serves
    tag,       \* the release the host's tag points to
    ctr,       \* each service's container, named <project>_<service>
    cache,     \* ImageUpdateMonitor.cache: HasUpdate of the image
    cancelled, \* w.ctx is cancelled: the panel is shutting down
    kind,      \* what each attempt is
    pc,        \* where it is
    sem,       \* the attempts that hold a place in w.sem
    mutex,     \* perAppMu of the app
    run,       \* its local variables: the services its loop has yet to visit,
               \* the one it is at, the containers it inspected or listed,
               \* whether its deploy is the roll-back, and previousDigests
    store,     \* the stage of its record in the database
    recent,    \* the attempts that began less than a cooldown ago
    blind,     \* the attempts that could not list the records
    lost,      \* the attempts one of whose saves failed
    faults     \* how much went wrong so far

hostVars == <<remote, tag, ctr, cache>>
recVars == <<store, lost>>
coolVars == <<recent, blind>>
vars == <<hostVars, cancelled, kind, pc, sem, mutex, run, recVars, coolVars, faults>>

Kinds == {"auto", "manual", "toggle"}

Terminal == {"completed", "rolled_back", "failed"}

\* "open" stands for pulling, recreating and verifying.
Stages == {"none", "open"} \union Terminal

Places == {"idle", "queued", "try", "check", "plan", "pull", "fetch", "create",
           "replace", "again", "start", "list", "probe", "over", "killed"}

\* One container is known by the attempt that made it.
Ids == Attempts \union {None}

Releases == 0..MaxRelease

NoDigest == MaxRelease + 1

\* A container shows the tag or, if it was made from a pinned file, the digest.
Container == [st : {"none", "created", "running", "dead"}, img : Releases, pinned : BOOLEAN, id : Ids]

Run == [todo : SUBSET Services, cur : Services, seen : [Services -> Ids], back : BOOLEAN,
        prev : [Services -> Releases \union {NoDigest}]]

Fresh == [todo |-> {}, cur |-> CHOOSE s \in Services : TRUE,
          seen |-> [s \in Services |-> None], back |-> FALSE,
          prev |-> [s \in Services |-> NoDigest]]

Absent == [st |-> "none", img |-> 0, pinned |-> FALSE, id |-> None]

TypeOK ==
    /\ remote \in Releases
    /\ tag \in Releases
    /\ ctr \in [Services -> Container]
    /\ cache \in BOOLEAN
    /\ cancelled \in BOOLEAN
    /\ kind \in [Attempts -> Kinds]
    /\ pc \in [Attempts -> Places]
    /\ sem \subseteq Attempts /\ Cardinality(sem) <= Concurrency
    /\ mutex \in Attempts \union {None}
    /\ run \in [Attempts -> Run]
    /\ store \in [Attempts -> Stages]
    /\ faults \in 0..MaxFaults
    /\ recent \subseteq Attempts /\ blind \subseteq Attempts /\ lost \subseteq Attempts

\* The app was deployed from release 0; its containers run, or were stopped.
Init ==
    /\ remote = 0
    /\ tag = 0
    /\ \E st \in {"running", "dead"} : ctr = [s \in Services |-> [Absent EXCEPT !.st = st]]
    /\ cache = FALSE
    /\ cancelled = FALSE
    /\ kind \in {k \in [Attempts -> Kinds] : \A x \in Attempts : k[x] = "auto" <=> x \in Autos}
    /\ pc = [x \in Attempts |-> "idle"]
    /\ sem = {} /\ mutex = None
    /\ run = [x \in Attempts |-> Fresh]
    /\ store = [x \in Attempts |-> "none"]
    /\ faults = 0
    /\ recent = {} /\ blind = {} /\ lost = {}

todo(x) == run[x].todo
cur(x) == run[x].cur
seen(x) == run[x].seen
back(x) == run[x].back
prev(x) == run[x].prev

MoreFaults == faults + Cardinality(lost) < MaxFaults

Fault == MoreFaults /\ faults' = faults + 1

\* Something fails for this reason, or because something goes wrong around it.
MayFail(reason) == (reason /\ UNCHANGED faults) \/ Fault

Goto(x, place) == pc' = [pc EXCEPT ![x] = place]

\* The context of a manual trigger and of a toggle outlives the worker's.
Cancelled(x) == cancelled /\ kind[x] = "auto"

\* The services are visited in an order that respects depends_on: here, in any.
Loop(x, ss) == run' = [run EXCEPT ![x].todo = ss]

(***************************************************************************)
(* The monitor: checkAll and its listener onCycle                          *)
(***************************************************************************)

Publish ==
    /\ remote < MaxRelease
    /\ remote' = remote + 1
    /\ UNCHANGED <<tag, ctr, cache, cancelled, kind, faults, pc, sem, mutex, run, recVars, coolVars>>

\* An opt-in container is due when the image it shows has an update, or another
\* of its repository, as one that is pinned by digest shows.  One whose tag has
\* moved on shows an image id, which matches no image of the cache.
Due(known) == known /\ \E s \in Services : ctr[s].st # "none" /\ (ctr[s].pinned \/ ctr[s].img = tag)

\* The listener of the monitor starts a goroutine for an app that is due.
OnCycle(known) ==
    IF Due(known) /\ ~cancelled /\ \E x \in Autos : pc[x] = "idle"
      THEN \E x \in Autos : pc[x] = "idle" /\ Goto(x, "queued")
      ELSE UNCHANGED pc

\* A registry that does not answer counts as "no update"; nobody is due if the
\* containers cannot be listed.
CheckAll ==
    /\ \/ cache' = (tag # remote) /\ UNCHANGED faults /\ OnCycle(cache')
       \/ cache' \in {FALSE, tag # remote} /\ Fault /\ UNCHANGED pc
    /\ UNCHANGED <<remote, tag, ctr, cancelled, kind, sem, mutex, run, recVars, coolVars>>

\* scheduleAutoUpdate.
AcquireSem(x) ==
    /\ pc[x] = "queued"
    /\ \/ Cardinality(sem) < Concurrency /\ sem' = sem \union {x} /\ Goto(x, "try")
       \/ cancelled /\ Goto(x, "over") /\ UNCHANGED sem
    /\ UNCHANGED <<hostVars, cancelled, kind, faults, mutex, run, recVars, coolVars>>

\* The manual trigger starts a goroutine that outlives the request.
Trigger(x) ==
    /\ pc[x] = "idle" /\ kind[x] = "manual"
    /\ Goto(x, "try")
    /\ UNCHANGED <<hostVars, cancelled, kind, faults, sem, mutex, run, recVars, coolVars>>

\* The toggle rewrites the label and goes straight to its deploy.
SetAppAutoUpdate(x) ==
    /\ pc[x] = "idle" /\ kind[x] = "toggle"
    /\ Goto(x, "fetch") /\ Loop(x, Services)
    /\ UNCHANGED <<hostVars, cancelled, kind, faults, sem, mutex, recVars, coolVars>>

(***************************************************************************)
(* TriggerApp, up to the record of the attempt                             *)
(***************************************************************************)

\* TriggerApp returns: its mutex and its place in sem are given back, and what
\* it had in its variables is gone.
Leave(x) ==
    /\ Goto(x, "over")
    /\ mutex' = IF mutex = x THEN None ELSE mutex
    /\ sem' = sem \ {x}
    /\ run' = [run EXCEPT ![x] = Fresh]

\* Mutant: every trigger gets a mutex of its own.
TryLockAlways(x) ==
    /\ pc[x] = "try"
    /\ mutex' = x /\ Goto(x, "check")
    /\ UNCHANGED <<hostVars, cancelled, kind, faults, sem, run, recVars, coolVars>>

TryLock(x) ==
    /\ pc[x] = "try"
    /\ IF mutex = None
         THEN mutex' = x /\ Goto(x, "check") /\ UNCHANGED <<sem, run>>
         ELSE Leave(x)
    /\ UNCHANGED <<hostVars, cancelled, kind, faults, recVars, coolVars>>

\* The newest record in the database began less than a cooldown ago.
Cooling == \E y \in recent : store[y] # "none"

\* Records that cannot be listed do not hold an automatic attempt up.
Cooldown(x) ==
    /\ pc[x] = "check"
    /\ \/ kind[x] = "manual" /\ Goto(x, "plan") /\ UNCHANGED <<sem, mutex, run, blind, faults>>
       \/ kind[x] = "auto" /\ Cooling /\ Leave(x) /\ UNCHANGED <<blind, faults>>
       \/ kind[x] = "auto" /\ ~Cooling /\ Goto(x, "plan") /\ UNCHANGED <<sem, mutex, run, blind, faults>>
       \/ /\ kind[x] = "auto" /\ Fault
          /\ blind' = blind \union {x} /\ Goto(x, "plan") /\ UNCHANGED <<sem, mutex, run>>
    /\ UNCHANGED <<hostVars, cancelled, kind, recVars, recent>>

\* The label of the window may name any span of the day, and manual triggers
\* do not look at it.
MayBeClosed(x) == kind[x] = "auto"

\* The window is closed, or the compose file or the containers cannot be had.
Skip(x) ==
    /\ pc[x] = "plan"
    /\ MayFail(MayBeClosed(x) \/ \A s \in Services : ctr[s].st = "none")
    /\ Leave(x)
    /\ UNCHANGED <<hostVars, cancelled, kind, recVars, coolVars>>

SaveAppUpdate(x, st) == store' = [store EXCEPT ![x] = st]

\* appendEvent: a save that fails is logged and the attempt goes on.
AppendEvent(x, st) ==
    \/ SaveAppUpdate(x, st) /\ UNCHANGED lost
    \/ MoreFaults /\ lost' = lost \union {x} /\ UNCHANGED store

\* The digest of each service's container, as InspectRepoDigest has it; the
\* containers of `missing` cannot be inspected.
Digests(missing) ==
    [s \in Services |-> IF ctr[s].st = "none" \/ s \in missing THEN NoDigest ELSE ctr[s].img]

\* The digests the containers run are captured and the record is made.
Begin(x) ==
    /\ pc[x] = "plan" /\ ~Cancelled(x)
    /\ \E s \in Services : ctr[s].st # "none"
    /\ \E missing \in SUBSET Services :
         /\ run' = [run EXCEPT ![x].prev = Digests(missing)]
         /\ IF missing = {} THEN UNCHANGED faults ELSE Fault
    /\ AppendEvent(x, "open")
    /\ recent' = recent \union {x}
    /\ blind' = blind \ {x}
    /\ Goto(x, "pull")
    /\ UNCHANGED <<hostVars, cancelled, kind, sem, mutex>>

\* Time.  It is only read under the mutex, so it may pass while that is free.
CooldownPasses ==
    /\ mutex = None
    /\ \E x \in recent : recent' = recent \ {x}
    /\ UNCHANGED <<hostVars, cancelled, kind, faults, pc, sem, mutex, run, recVars, blind>>

(***************************************************************************)
(* Stage 1: pull the image if the monitor says it has an update             *)
(***************************************************************************)

\* ImagePull's progress is thrown away, and with it the error of a pull that
\* breaks off: the host's tag stays, and nobody is told.
PullImage == \/ tag' = remote /\ UNCHANGED faults
             \/ tag # remote /\ UNCHANGED tag /\ Fault

Pull(x) ==
    /\ pc[x] = "pull"
    /\ IF cache THEN ~Cancelled(x) /\ PullImage ELSE UNCHANGED <<tag, faults>>
    /\ AppendEvent(x, "open")
    /\ Goto(x, "fetch") /\ Loop(x, Services)
    /\ UNCHANGED <<remote, ctr, cache, cancelled, kind, sem, mutex, coolVars>>

\* Mutant: the failure is returned and not recorded.
PullFailsUnrecorded(x) ==
    /\ pc[x] = "pull" /\ cache
    /\ MayFail(Cancelled(x))
    /\ Leave(x)
    /\ UNCHANGED <<hostVars, cancelled, kind, recVars, coolVars>>

PullFails(x) ==
    /\ pc[x] = "pull" /\ cache
    /\ MayFail(Cancelled(x))
    /\ AppendEvent(x, "failed")
    /\ Leave(x)
    /\ UNCHANGED <<hostVars, cancelled, kind, coolVars>>

(***************************************************************************)
(* Stage 2: DeployCompose, service after service                           *)
(***************************************************************************)

ForcePull(x) == kind[x] # "toggle" /\ ~back(x)

\* pullImageIfNeeded: the update always pulls; an image that is here will do
\* for the others.
Fetch(x, s) ==
    /\ pc[x] = "fetch" /\ s \in todo(x) /\ ~Cancelled(x)
    /\ IF ForcePull(x) THEN PullImage ELSE UNCHANGED <<tag, faults>>
    /\ run' = [run EXCEPT ![x].cur = s]
    /\ Goto(x, "create")
    /\ UNCHANGED <<remote, ctr, cache, cancelled, kind, sem, mutex, recVars, coolVars>>

\* Mutant: the roll-back deploys the compose file as it is.
PinnedNever(x, s) == FALSE

\* RewriteImageDigest pins a service in the roll-back only if it has a digest.
Pinned(x, s) == back(x) /\ prev(x)[s] # NoDigest

ImageOf(x, s) == IF Pinned(x, s) THEN prev(x)[s] ELSE tag

CreateContainer(x) ==
    ctr' = [ctr EXCEPT ![cur(x)] = [st |-> "created", img |-> ImageOf(x, cur(x)),
                                    pinned |-> Pinned(x, cur(x)), id |-> x]]

\* The name is free, or a container that does not run holds it and is to go.
Create(x) ==
    /\ pc[x] = "create" /\ ~Cancelled(x)
    /\ \/ /\ ctr[cur(x)].st = "none"
          /\ CreateContainer(x) /\ Goto(x, "start") /\ UNCHANGED run
       \/ /\ ctr[cur(x)].st \in {"created", "dead"}
          /\ run' = [run EXCEPT ![x].seen[cur(x)] = ctr[cur(x)].id]
          /\ Goto(x, "replace") /\ UNCHANGED ctr
    /\ UNCHANGED <<remote, tag, cache, cancelled, kind, faults, sem, mutex, recVars, coolVars>>

\* removeContainerByID is forced: it does not look again whether it runs.
Replace(x) ==
    /\ pc[x] = "replace" /\ ~Cancelled(x)
    /\ ctr[cur(x)].st # "none" /\ ctr[cur(x)].id = seen(x)[cur(x)]
    /\ ctr' = [ctr EXCEPT ![cur(x)] = Absent]
    /\ Goto(x, "again")
    /\ UNCHANGED <<remote, tag, cache, cancelled, kind, faults, sem, mutex, run, recVars, coolVars>>

CreateAgain(x) ==
    /\ pc[x] = "again" /\ ~Cancelled(x)
    /\ ctr[cur(x)].st = "none"
    /\ CreateContainer(x) /\ Goto(x, "start")
    /\ UNCHANGED <<remote, tag, cache, cancelled, kind, faults, sem, mutex, run, recVars, coolVars>>

Mine(x) == ctr[cur(x)].st # "none" /\ ctr[cur(x)].id = x

\* The loop is through.
DeployEnds(x) ==
    \/ kind[x] = "toggle" /\ Leave(x) /\ UNCHANGED recVars
    \/ kind[x] # "toggle" /\ back(x) /\ AppendEvent(x, "rolled_back") /\ Leave(x)
    \/ /\ kind[x] # "toggle" /\ ~back(x)
       /\ AppendEvent(x, "open") /\ Goto(x, "list") /\ Loop(x, {}) /\ UNCHANGED <<sem, mutex>>

Start(x) ==
    /\ pc[x] = "start" /\ Mine(x) /\ ~Cancelled(x)
    /\ ctr' = [ctr EXCEPT ![cur(x)].st = "running"]
    /\ IF todo(x) = {cur(x)}
         THEN DeployEnds(x)
         ELSE /\ Goto(x, "fetch")
              /\ run' = [run EXCEPT ![x].todo = @ \ {cur(x)}, ![x].seen = Fresh.seen]
              /\ UNCHANGED <<sem, mutex, recVars>>
    /\ UNCHANGED <<remote, tag, cache, cancelled, kind, faults, coolVars>>

(***************************************************************************)
(* The roll-back                                                           *)
(***************************************************************************)

\* The same deploy with the captured digests; without any digest it fails.
Rollback(x) ==
    IF \A s \in Services : prev(x)[s] = NoDigest
      THEN AppendEvent(x, "failed") /\ Leave(x)
      ELSE /\ run' = [run EXCEPT ![x] = [Fresh EXCEPT !.back = TRUE, !.todo = Services, !.prev = prev(x)]]
           /\ Goto(x, "fetch")
           /\ UNCHANGED <<sem, mutex, recVars>>

AfterFailure(x) ==
    \/ kind[x] = "toggle" /\ Leave(x) /\ UNCHANGED recVars
    \/ kind[x] # "toggle" /\ back(x) /\ AppendEvent(x, "failed") /\ Leave(x)
    \/ kind[x] # "toggle" /\ ~back(x) /\ Rollback(x)

\* A container that runs, or a new one, has the name; or the context is done.
Refused(x) ==
    \/ Cancelled(x)
    \/ pc[x] = "create" /\ ctr[cur(x)].st = "running"
    \/ pc[x] = "replace" /\ (ctr[cur(x)].st = "none" \/ ctr[cur(x)].id # seen(x)[cur(x)])
    \/ pc[x] = "again" /\ ctr[cur(x)].st # "none"

\* Services that came before stay as the deploy left them.
DeployFails(x) ==
    /\ pc[x] \in {"fetch", "create", "replace", "again"}
    /\ MayFail(Refused(x))
    /\ AfterFailure(x)
    /\ UNCHANGED <<hostVars, cancelled, kind, coolVars>>

\* A container that does not start is removed, unless the daemon, or the
\* context, refuses that too.
StartFails(x) ==
    /\ pc[x] = "start"
    /\ MayFail(~Mine(x) \/ Cancelled(x))
    /\ IF Mine(x) /\ ~Cancelled(x)
         THEN ctr' \in {ctr, [ctr EXCEPT ![cur(x)] = Absent]}
         ELSE UNCHANGED ctr
    /\ AfterFailure(x)
    /\ UNCHANGED <<remote, tag, cache, cancelled, kind, coolVars>>

(***************************************************************************)
(* Stage 3: HealthProbe                                                    *)
(***************************************************************************)

ProbeLists(x) ==
    /\ pc[x] = "list" /\ ~Cancelled(x)
    /\ \E s \in Services : ctr[s].st # "none"
    /\ run' = [run EXCEPT ![x] = [@ EXCEPT !.todo = {s \in Services : ctr[s].st # "none"},
                                         !.seen = [s \in Services |-> ctr[s].id]]]
    /\ Goto(x, "probe")
    /\ UNCHANGED <<hostVars, cancelled, kind, faults, sem, mutex, recVars, coolVars>>

\* One container is healthy and is not looked at again; after the last the
\* attempt is complete.
Healthy(x, s) ==
    /\ pc[x] = "probe" /\ s \in todo(x) /\ ~Cancelled(x)
    /\ ctr[s].st = "running" /\ ctr[s].id = seen(x)[s]
    /\ IF todo(x) = {s}
         THEN AppendEvent(x, "completed") /\ Leave(x)
         ELSE Loop(x, todo(x) \ {s}) /\ UNCHANGED <<pc, sem, mutex, recVars>>
    /\ UNCHANGED <<hostVars, cancelled, kind, faults, coolVars>>

\* Mutant: no deadline, a container that does not run is looked at for ever.
NeverHealthyNoDeadline(x) ==
    \/ Cancelled(x)
    \/ pc[x] = "list" /\ \A s \in Services : ctr[s].st = "none"
    \/ pc[x] = "probe" /\ \E s \in todo(x) : ctr[s].st = "none" \/ ctr[s].id # seen(x)[s]

\* There is nothing to probe, or a container is gone, or has exited and is still
\* not running when the grace period, or the context, ends.
NeverHealthy(x) ==
    \/ Cancelled(x)
    \/ pc[x] = "list" /\ \A s \in Services : ctr[s].st = "none"
    \/ pc[x] = "probe" /\ \E s \in todo(x) : ctr[s].st # "running" \/ ctr[s].id # seen(x)[s]

\* Or a call fails, or a healthcheck says so.
Unhealthy(x) ==
    /\ pc[x] \in {"list", "probe"}
    /\ MayFail(NeverHealthy(x))
    /\ Rollback(x)
    /\ UNCHANGED <<hostVars, cancelled, kind, coolVars>>

(***************************************************************************)
(* What happens around the worker                                          *)
(***************************************************************************)

\* A container exits, or is stopped; its restart policy, or a user, starts it.
ContainerTurns(s) ==
    /\ Fault
    /\ ctr[s].st \in {"running", "dead"}
    /\ ctr' = [ctr EXCEPT ![s].st = IF @ = "running" THEN "dead" ELSE "running"]
    /\ UNCHANGED <<remote, tag, cache, cancelled, kind, pc, sem, mutex, run, recVars, coolVars>>

\* cancelApp at SIGTERM.
Shutdown ==
    /\ Fault /\ ~cancelled
    /\ cancelled' = TRUE
    /\ UNCHANGED <<hostVars, kind, pc, sem, mutex, run, recVars, coolVars>>

\* The process ends, with or without the signal, and starts anew.
Restart ==
    /\ Fault
    /\ \E x \in Attempts : pc[x] \notin {"idle", "over", "killed"}
    /\ pc' = [x \in Attempts |-> IF pc[x] \in {"idle", "over"} THEN pc[x] ELSE "killed"]
    /\ run' = [x \in Attempts |-> Fresh]
    /\ blind' = {}
    /\ sem' = {} /\ mutex' = None
    /\ cancelled' = FALSE
    /\ cache' = FALSE
    /\ UNCHANGED <<remote, tag, ctr, kind, recVars, recent>>

Step(x) ==
    \/ AcquireSem(x) \/ TryLock(x) \/ Cooldown(x) \/ Skip(x) \/ Begin(x)
    \/ Pull(x) \/ PullFails(x)
    \/ Create(x) \/ Replace(x) \/ CreateAgain(x) \/ Start(x) \/ StartFails(x) \/ DeployFails(x)
    \/ ProbeLists(x) \/ Unhealthy(x)
    \/ \E s \in Services : Fetch(x, s) \/ Healthy(x, s)

Next ==
    \/ Publish \/ CheckAll \/ CooldownPasses \/ Shutdown \/ Restart
    \/ \E s \in Services : ContainerTurns(s)
    \/ \E x \in Attempts : Trigger(x) \/ SetAppAutoUpdate(x) \/ Step(x)

Spec == Init /\ [][Next]_vars

\* The daemon answers every call, and a goroutine that can go on does.
FairSpec == Spec /\ \A x \in Attempts : WF_vars(Step(x))

(***************************************************************************)
(* Properties                                                              *)
(***************************************************************************)

Toggled == \E y \in Attempts : kind[y] = "toggle" /\ pc[y] # "idle"

\* At the moment an attempt's record says completed, every service has a
\* container of the attempt itself, of no older image than before; when it says
\* rolled_back, every service whose digest was captured has that digest again.
\* (A toggle's deploy does not take the app's mutex, and may meddle.  Two
\* services may complete on different releases: each is pulled on its own.)
VerdictIsTrue ==
    [][\A x \in Attempts : ~Toggled =>
        /\ store'[x] = "completed" /\ store[x] # "completed" =>
             \A s \in Services :
                ctr'[s].id = x /\ (prev(x)[s] # NoDigest => ctr'[s].img >= prev(x)[s])
        /\ store'[x] = "rolled_back" /\ store[x] # "rolled_back" =>
             \A s \in Services :
                ctr'[s].id = x /\ (prev(x)[s] # NoDigest => ctr'[s].img = prev(x)[s])]_vars

\* An automatic attempt never begins while a record of another attempt that
\* began less than a cooldown ago is in the database, however the triggers
\* interleave; unless the records could not be listed.
CooldownHolds ==
    [][\A x \in Attempts :
        kind[x] = "auto" /\ pc[x] = "plan" /\ pc'[x] = "pull" /\ x \notin blind =>
            \A y \in recent : store[y] = "none"]_vars

\* A record of an attempt that is over stays in a stage that is not terminal
\* only after a restart in its middle or a save that failed.
UnfinishedHasCause ==
    \A x \in Attempts :
        pc[x] = "over" /\ store[x] \notin Terminal \union {"none"} => x \in lost

\* Whatever fails on the way, every path through the pipeline gives the app's
\* mutex and the place in sem back: no attempt blocks the next one for ever.
NeverBlocked == []<>(mutex = None /\ sem = {})

\* An attempt, when nothing fails around it, does not end in failure: the
\* header of auto_updater.go describes the pipeline as pull, recreate, verify,
\* and roll-back on failure.
UpdateNeedsAFault == \A x \in Attempts : store[x] = "failed" => faults > 0 \/ Toggled
=============================================================================
