# A TLA+ model of Dockpal

Dockpal is a single-binary web panel for Docker hosts: a Go server (`src/main.go`,
`src/internal`) with an embedded Svelte client. It manages its own host through the Docker
socket and other hosts through agents, which it reaches over HTTPS ("direct" instances) or
which dial in over a WebSocket ("edge" instances). This directory holds TLA+ models of its
logic, TLC configurations that check them on small instances, and TLAPS proofs.

    tlc -workers 2 -config EdgeManager.cfg EdgeManager.tla     # check a run
    tlapm AgentConnectProofs.tla                               # check a proof module

`PROJECT.json` lists the runs, the source lines each definition models, the hazards of the
code and the properties that cover them, and what the models found.

## Inventory

| Part | State | Operations and what is hard about them | Module |
|---|---|---|---|
| agent manager (`agent/manager.go`) | live connection per instance, pending calls per connection | register, unregister, read loop, multiplexed calls with timeouts; reconnects race with the cleanup of what they replace | `EdgeManager` |
| agent handler (`server/agent_ws.go`), instance requests (`server/instance_routes.go`) | instance records in bbolt | authenticate, register, update the record, wait for the end; every update is a read and a save in two transactions, beside deletes, edits and teardowns | `AgentConnect`, `Servers` |
| stack lock (`composecli/`) | a map of lock objects with eviction | TryLock, Unlock around each `docker compose` run | `StackLock` |
| compose stacks (`docker/stack_store.go`, `server/routes_stacks.go`) | files of a stack, its containers, a 2-second cache of `compose ls` | save, up, stop, update, delete; saves are outside the lock, cache fills race with invalidations | `Stacks` |
| deploy sessions (`docker/deploy_stream.go`, `server/routes_helpers.go`) | history, subscribers, drop counter, table of sessions | emit, subscribe, unsubscribe, close; slow and late readers, producers that fail, panic or wait for an agent | `DeployStream` |
| auto-update (`docker/auto_updater.go`, `image_updater.go`, `health_probe.go`, `compose.go`, `db/app_updates.go`) | attempt records, per-app mutexes, semaphore, update cache | trigger, pull, recreate, verify, roll back; crash and stop in the middle | `AutoUpdate` |
| self-update (`update/`, `update.sh`, `scripts/dockpal-update-helper.sh`) | state in the database, trigger and result files, the binary | request, take the trigger as root, restart, reconcile; two processes and a restart | `SystemUpdate` |
| users, secrets, backups, registry credentials (`auth/`, `backup/`, `registry/`, `main.go`) | users with token versions, the secret file, encrypted rows, backups | login, logout, role and password changes, secret rotation, backup and restore, credential updates | `Credentials` |
| containers and recovery (`docker/container.go`, `recovery.go`, the clients in `agent/`) | Docker's containers, failure counters | remove, rename, recreate with a failure or cancellation at every Docker call; the restart loop | `Containers` |
| apps, domains, git deploys (`server/routes.go`, `instance_scoped_routes.go`, `git_deploy.go`, `traefik/`, `git/`) | service records, containers, compose files, clone directories, Traefik's file | deploy, toggle, delete, on the panel's host or on another; shared files without locks, records without a unique name | `Services` |
| remote servers (`ssh/`, `server/security_routes.go`, `instance_routes.go`) | the record's token and credentials, authorized keys, sshd | provision, rotate, install the agent, harden, delete; whole records written back, roll-backs over SSH | `Servers` |
| metrics, health, logs, audit, rate limits, tickets, tunnel, UI | see `PROJECT.json` | mostly pass-through or behind one mutex | |

The parts meet in few places: request handlers call the manager for a client of an
instance; a deploy handler creates a session and a goroutine whose producer takes the stack
lock; the teardown of a connection writes the database while it holds the manager's mutex;
the auto-update worker uses the same deploy path as the handlers.

## How the modules are built

`AgentConnect` extends `EdgeManager` with the database and the handlers, and `Stacks` extends
`StackLock` with the requests that run under it; `AgentLink` is the abstract link that
`EdgeManager` implements. The other modules stand alone: what they would share with one another
is a Docker call or a database transaction, which each has as one action.

Every critical section, transaction, Docker call or file operation is one action: what it
touches is touched by nobody else in between. Everything between two of them is a place (`pc`,
`hpc`, `apc`, `ppc`, `rpc`, `stage`) at which others may run. A definition called a mutant in its
comment is not part of any specification: it is a plausible bug of the definition that follows
it, used to see that a property notices it.

Much of this code does lose an update or leave something behind in some interleaving. The
properties named `...HasCause` say that it happens for no other reason than the ones listed:
variables such as `mishaps`, `past` or `broken` note when one of the known gaps was met, are read
by no action except to bound the faults, and the property holds only because every other path
is sound. Each cause is needed: without it TLC finds a behaviour in the same run, and the section
"What the models found" tells it. One takes a larger instance than the run's: that requests which
overlapped bring an old compose file back (`"at once"` in `VersionHasCause`) takes four requests.

**EdgeManager.** `edge` is `Manager.edge`; `owner`, `pending` and `done` are the fields of the
`EdgeConnection` objects, named by a model value each; `closed` and `broken` say what the next
read or write of a socket does; `loop` and `pc` are the read-loop and call goroutines. A
request id is the call itself (the code draws a UUID). A response channel of capacity 1 is a
set of at most one element. The network and the agents are two actions: a socket may break
at any time, and an agent may answer any request it received on any connection of its
instance, at any time, more than once. A write to a broken socket may succeed.

**AgentConnect.** A record is reduced to its status or `"absent"`. `mu` holds `Manager.mu` across
the one database write that is made under it. A handler goes through four updates of two
transactions each; the host-info call is a stage it leaves at any time, because
`SendEdgeRequest` touches neither connections nor records (that is `EdgeManager`'s subject, and
`ImplementsManager` checks that the connections behave as they do there).

**StackLock.** One stack, since entries of different names do not interact. A lock object is
named by the operation that allocated it. `heldC` keeps the state of the channel, because
closing a nil or closed channel ends the process.

**Stacks.** A file is the save that wrote it, the containers are absent, stopped or running. A
compose run takes effect at once, and one that fails may have done its work. `cache` and `lsOut`
are `composeLsCache` and the output a caller has before it fills the cache.

**DeployStream.** An event is its position in the history and one of three kinds. The producer
has a kind (stack or app, on the panel's host or relayed from an agent) and a few places; the
legacy `Events` channel, which nobody reads, is left out. A relay's events are the agent's.

**AutoUpdate.** One app; an image is the number of its release, a container is known by the
attempt that made it. An attempt goes through `TriggerApp` place by place: semaphore, per-app
mutex, cooldown and window, inspection of the running digests, pulls, the deploy with its name
conflicts, the probe, and the roll-back through the same deploy. Toggles deploy beside it without
the mutex. The panel may stop at any place, and any save of a record may fail. So may a pull without
anybody being told: `ForcePullImage` throws the daemon's progress away, and the error in it
(`PullImage`; the tag stays). A container made by a roll-back is pinned by its digest, which the
monitor matches by the repository.

**SystemUpdate.** The panel's process with `Manager.mu`, the two files, systemd's path unit, the
helper and `update.sh`, each with crashes and with every step that may fail. `update.sh` and the
helper run under `set -e`, so what follows a failure is a path of its own: a step before the stop
ends the script and the panel runs on (`DownloadFails`, `StopFails`); `cp`, `mv`, the templates,
`daemon-reload` or the start (lines 373-378, 474-478) end it with the panel stopped and nothing
rolled back (`Aborts`); `rollback` (402-425) returns without a start when there is no backup or the
start fails, and goes on after a failed `cp`, because inside `if rollback` `set -e` is off
(`RestoreFails`); `write_result` of `update.sh` fails silently (`WriteOutcome`); that of the helper
(48-67) ends the helper without any result (`ReportFails`), and its exit for a missing `update.sh`
(88-92) writes one over whatever is there (`NoScript`). Requests have numbers in the model only; that
the code has none is what the causes are about. `Tagged` says whether tags begin with "v".

**Credentials.** The database as its process sees it and as the file holds it (restore renames
over it), the secret file, a user, one registry credential, an instance's two encrypted fields.
Logins and credential updates are split where the code reads, does something slow, and writes.

**Containers.** One host with a service's container and the agent's. Requests go through the
handler's check and one Docker call a step; each may fail, and the context may be cancelled
before each. `Transport` is the client in use, which decides what counts as a success. The edge client
hands no context on: with it `Cancelled` is the end of the agent's process, and a request the panel
no longer waits for goes on like the others.

**Services.** Apps by instance and name; a compose file is the request that brought it. A deploy
clones or receives its file, creates the containers, saves a record with a fresh id and rewrites
the routes; a delete goes the other way, and may fail at each of its three steps: `RemoveCompose`
goes on when it could not remove a container or the directory, and the deletion of the record
(`DeleteFails`) fails after the rest is gone. Traefik's file is read, truncated and written;
`GenerateConfig` ignores an error of reading or parsing and goes on with what it has got
(`RoutesUnread`), and a write may fail after the truncation (`RoutesWriteFails`).

**Servers.** The records of one server, its authorized keys, and sshd's files and running
configuration apart. Installation and hardening are the outcomes of their remote commands, in the
code's order, with the write to the record that follows each. A record has a name and an address
(host and port, none for an edge instance), and a new one is looked for by both; the check is
skipped when the list cannot be read (`ListInstancesFails`). sshd's files may be left half-written,
with the job ending or, at its second attempt, going on with them (`WriteFails`).

## Runs

| Run | Bounds | Shows |
|---|---|---|
| `edge_manager` | 1 instance, 3 connections, 1 call | who is live, whose answer a call gets, that stranded calls return, refinement of `AgentLink` |
| `agent_connect` | 1 instance, 2 connections, 1 administrator request | record and connection of an instance through a reconnect, delete, edit or test; refinement of `EdgeManager` |
| `stack_lock` | 4 operations | no panic, no stack that stays locked, no entry left over |
| `stacks` (`MCStacks`) | 3 requests in seven mixes of kinds, 1 reader | when files, containers and the cached list can disagree, and that a reader is shown the truth again and again |
| `deploy_stream` | 4 kinds of producer, 2 readers, 2 progress lines, 1 place beyond the replay | order and accounting of events, end of streams, removal of sessions |
| `auto_update` | 1 automatic attempt, 1 request, 2 services, 2 releases, 2 faults | what a record says is so, the cooldown, and that the worker stays available |
| `update_of_running_app` | 1 request, no fault | found: the update of an app that runs fails |
| `system_update` | 3 versions, 3 requests, 2 overlapping checks, 2 faults | no false "done" and no lock-out but for the known causes; the panel comes back |
| `credentials` | 1 login, 1 call, 2 secrets, 2 credential tokens | no stale privilege, nothing unreadable, no lost update but for the known causes |
| `containers` | 2 requests, 3 containers, 1 fault of the monitor | removals stay removed, recreations lose nothing, dead containers come back |
| `services` | 3 requests, 2 at once, 2 apps here and 1 elsewhere, 1 fault | records, containers, versions, routes and clones agree but for the known gaps |
| `servers` | 3 requests, 2 at once, 2 names, 1 address or none, passwords off or on, 1 fault | names, tokens, logins and the "hardened" flag agree with the server but for the known gaps |

Why these bounds. Three connections give a superseded connection, its successor and the
successor's successor; instances share nothing but the mutex and the panel's `Close`, and the
proofs cover any number of them. Two connections and one request are enough for every pair of
writers of a record, and a third (the handler of the other connection). Four operations give
a holder of the lock, one that acquires its object again, one with a fresh object and a late
unlock. `Slack` is 64 in the code; 1 makes the overflow happen. Three requests on a stack
are what two need to run at once; `MCStacks` names the mixes of kinds it takes, all kinds among
them. Two requests on a container give every pair of handlers. Two faults let a
roll-back or a reconciliation fail after the step it repairs. Three requests to the updater
give an old result file, the request that mistakes it, and one after. In `services` and
`servers` three requests run two at a time: the race of two, before or after a completed third.
In `services` templates have no domain (`TemplateDomains`), compose deploys do: the steps are the
same. In `servers` nobody wants root logins off, after which the panel cannot log in at all and
`LoginHasCause` excuses it; its theorem covers root logins, and any number of addresses.
The containers run has a local client; with `Transport = "edge"` `RemovedIsGone` fails (below).
`Limit` is 3 in the code and 1 here, so that the limit is reached within one fault.

Deadlock checking is on for `containers` (its monitor never stops) and `credentials` (a process can
always start, stop or rotate), and off in the others, whose
goroutines and requests may all have ended.

**Fairness.** Goroutines that can run do run: the error exit and the cleanup of a read loop and
the steps of a call (`EdgeManager`); the database write under `mu` ends, and a waiting handler
gets `mu` in the end, because Go's mutex hands over to a waiter after a millisecond
(`AgentConnect`, hence strong fairness); a cached list expires after two seconds and a client that
shows stacks asks again (`Stacks`; strong fairness of asking, since the cache is fresh in
between); a deploy on the panel's host ends (a stack deploy has a 15-minute context, Docker's
calls return), and a reader's goroutine runs and its socket accepts or fails (`DeployStream`); an
attempt's goroutine goes on, since its Docker calls have a context and the probe a deadline
(`AutoUpdate`); systemd starts the helper and the service and every command of the scripts has a
time-out (`SystemUpdate`); the monitor's ticker fires (`Containers`). Nothing is assumed of the
network, of agents or of an agent's stream, nor that anybody makes a request.

## Proofs

Every safety property and every action property of a passing run is a theorem, for all values of
the constants that the modules' assumptions admit. The assumptions only say that the constants have
the sorts they are used with (a bound is a natural number, a place-holder such as `None` is none of the values it stands beside: the
`NoneAssumption`s) and, in `AutoUpdate`, that an app has a service (`compose.go:60` refuses a file
without). The bounds on faults and on requests at work are constants too, so that a theorem covers
every number of them. `RemovalsHold` has a hypothesis more: `Transport # "edge"`. The edge client
takes a failed removal for a done one (`edge.go:130-141`), and with it the property is false, as
TLC shows at once.

The proofs of a module have one pattern. Each action is first summed up by a lemma that says what it
does to the parts an invariant looks at (`...Effect`, `...Step`, `...Frame`), the cases of `Next` are
then few, and each conjunct of the inductive invariant is carried over those cases by a lemma of its
own. TLC has checked each inductive invariant on the run of its module first.

`AgentConnectProofs`, for any sets of instances, connections, calls and administrator requests. First
`EdgeManager` by itself, with its calls (`Spec`):

- `Typing`: the type invariant is inductive by itself.
- `EveryConnLiveOrRetired`: needs `ConnInv`, which adds to `LiveOrRetired` that a connection
  without an owner was never used and that an entry of `edge` belongs to its instance.
- `AnswersAreOwn`: needs `RpcInv`, which relates the place of a call to the connection it
  looked up, the pending tables and what was written; ids in a table belong to calls in flight
  on that very connection, so `RouteResponse` cannot hand over a foreign answer.
- `SuccessorsSurvive`: by cases on the step, from the invariants.
- `Refinement`: initial states and steps map to those of `AgentLink` or stutter.

Then the handlers. They close sockets too, so a step of `AgentConnect` is a step of the manager only
because a handler closes nothing but a retired connection: `IInv` carries `ConnInv` along,
`StepIsManagerStep` shows the step, and `TypingStep` and `RetirementStep` give the manager's
invariants back. Its other parts are `HandlerInv` (the place of a handler tells what its connection
is), `AdminInv`, `MuInv` (who holds `mu` has just removed a connection, and stays where it is) and
`OnlineInv` (also the copies that will be saved are online only with an agent). They give
`ConnectTyping`, `SuccessorsWait`, `HandlersOutlive`, `OnlineIsEarned` and `ManagerRefinement`, which
carries every theorem about `EdgeManager` over. The handlers make no calls: in `ConnectSpec` calls take
no step, and what the theorems say of them is said of `EdgeManager`'s `Spec`, under no assumption on
`Requests`. (The run `agent_connect` gives it the empty set, to keep its state space small.)

`StacksProofs`, for any sets of operations, requests and readers. The lock: `NeverPanics`,
`NeverLockedOut` and `NeverLeaks` from `LockInv`: the channel of an object is open exactly while the
object is held, an object that is not in the map any more and has no user is not held, and a held
entry has an operation that will unlock it. It holds although mutual exclusion does not: the unlock
of one operation may release what another has acquired. `LockRefinement`: a step of `Stacks` is a step
of the lock or does not touch it, hence `StacksKeepLockSafe`. `OrphansExplained` needs `OrphanInv`:
as long as no `down` failed and no two operations overlapped, a deletion that is about to remove the
files has removed the containers, and it is the only one that runs. `FilesExplained` needs `FilesInv`:
a save between its two writes has written the compose file that is there.

`DeployProofs` extends `Services` and `DeployStream`: the apps, and the sessions that report their
deploys.

The sessions, for any readers, number of events and room in the channels. `StreamNeverPanics`
needs `ReaderInv` (the subscribers are exactly the readers with an open channel) and `ProducerInv`
(nothing is emitted after the close). `LossesCounted` says that the pairs of a reader and an event it
was owed and never gets are at most as many as the drop counter says: `OrderInv` (what a reader was
sent is increasing) lets a replay and the live events be counted as one sequence, and each emission
adds one pair and one drop at the same time (`CountInv`, about cardinalities). `FailuresShown` needs
`ShownInv`: the error of a failed run is among what was sent to everyone who reads, if nothing was
dropped.

The apps, for any requests, hosts and names. The four invariants of `Services` speak of names at rest
and none is inductive; `IInv` says of every moment which difference a request may hold open, and where
it then is. `AppsExplained` needs `LeftInv` and `GoneInv`: containers without a record belong to a
deploy about to save, and a record without containers to a deletion past them. `VersionsExplained`
needs `FileInv`: containers, file and record have the newest compose file, and so has a toggle that is
under way. `RoutesExplained` needs `RouteInv` (a deploy changes the route after the record, a deletion
before) and `SeenInv` (a single writer of Traefik's file has read what it holds). `SourcesExplained`
needs `SourceInv`, about who is cloning. Under these lie facts about records: what a request holds is
still there (`HeldInv`), an id is one request's (`IdInv`), and two records of a name or two requests at
work on one have been noticed (`TwinInv`, `OverlapInv`). The proof of `VersionsExplained` failed at
first, and for a reason: a toggle that overlaps a deletion and a new deploy of its app writes the file
it took before, and the version stays old after all three are done. TLC finds it with four requests;
`VersionHasCause` names it now.

`ContainersProofs`, for any requests and containers. `RemovalsHold` needs `GoneInv`: identifiers are
given out in order, and a new container takes the place only of one that was not reported removed, also
while the recreation has yet to create it. `LossesExplained` needs `NameInv` (two recreations never
hold one name, and a name that was freed stays free until it is taken again) as long as nobody
renames, and `AgentInv` (no request for the agent's container gets beyond the check) as long as
nobody renames that one.

`CredentialsProofs`, for any logins, calls, versions and secrets. `TokensAreCurrent` needs `TokenInv`:
tokens, and the copies that logins hold across the slow comparison of passwords, have a version no newer
than the user's, and with the same version the same role and password; that is inductive because every
change of role or password takes a version that nobody has read (`UserMoves`). `SecretsReadable` needs
`KeyInv`, which says for each place of a rotation which tables are readable with which secret.
`UpdatesKept` needs `AckInv`: a call that only writes back has read what the last caller was told.

`AutoUpdateProofs`, for any attempts, services and releases. The argument is the app's mutex: between
its TryLock and its return an attempt is the only one that makes records, moves the tag or replaces
containers, toggles apart (`StepFrame`, `MutexInv`). `UnfinishedExplained` needs `PlaceInv` (where an
attempt is tells the stage its record is in), `CooldownIsKept`, an action property, `CoolInv` (who is
about to make a record has looked, and nobody has made one since). `VerdictsAreTrue`, the other, needs
`NewestInv`, `PulledInv` (the pulled image is no older than what ran) and `DoneInv` (which services the
deploy has already replaced, from place to place).

`SystemUpdateProofs`, for any versions, requests and overlapping checks. The files carry no request, so
the model numbers the requests and the invariant is about the numbers (`RequestInv`): only the last
request is in flight, on the disk as a trigger or at the helper before its result; an older one's
result may mislead the manager, which is the named cause. `TargetInv` and `DiskInv` follow the version
through `update.sh`, `VerdictInv` keeps a verdict true until it is rolled back, and `LiveInv` says who
will answer. They give `DoneIsTrue` and `NobodyLockedOut`.

`ServersProofs`, for any requests, names and sets of logins to turn off. The argument is about copies
(`HolderInv`): while no other write has fallen between a request's read and its save, what it will save
differs from the record only in what the request is about. From it `TokensExplained`;
`TwinsExplained`, where also a record about to be created has no unexplained twin (`TwinInv`, with
`UnmadeInv`: nobody works on a record that is not made); `HardenedExplained`, since whoever says or is
about to say "hardened" has the password off in sshd's files and in the running daemon
(`HardenedInv`, with `ConfInv`: the two agree but for a failed reload or a roll-back); and
`LoginsExplained` (`LoginInv`): a credential that once worked works with the running sshd and with its
files, except while a job is between turning the password off and saving that; then the key it is about
to keep is on the server (`KeyInv`), and no second job is at the same record (`RunnerInv`).

Model-checked only: liveness (`StrandedCallReturns`, `ReconnectGetsThrough`, `ListSettles`, `LocalDeployEnds`, `NeverBlocked`,
`PanelComesBack`, `DeadComesBack`), since fairness and `ENABLED` are out of the prover's reach.
`UpdateNeedsAFault` is what a run refutes.

## What the models found

One run shows a disagreement: `update_of_running_app`. DeployCompose names each container
`<project>_<service>` and does not remove a running one of that name
(`removeStaleContainerByName`: "A running container is never touched"), so the recreation fails
with a name conflict as long as the app runs, and so does the roll-back, which takes the same
path. The update ends as failed although nothing went wrong around it. It succeeds for services
that are stopped or dead.

The others are what the models showed while their properties were being written, and what the causes
name; nothing in the runs depends on them being repaired.

*Agents.* `HandleAgentConnect` writes "online" after it has registered the connection
(`agent_ws.go:119-122`), so the teardown's "offline" may come first and the instance stays online
without a connection. A reconnect between the disconnection and the deletion of an instance
(`instance_routes.go:478-482`) stays registered. Stale copies of whole records undo a token
rotation or bring a deleted record back. Two creations at once may both pass the check for
name and address, and one passes it alone when the list cannot be read (`instance_routes.go:185`).

*Stacks and deploys.* Unlock evicts the lock's entry after it released the mutex
(`composecli.go:105-110`): one that acquired the object in between loses its entry, a third
operation gets a fresh object, and two compose commands run at once. StackDelete ignores a
failed `down`, so containers stay without files. Saves are not under the lock. The streamed app
deploys of the agent clients never close their session (`direct.go:421`, `edge.go:256`), the
relay of a stack deploy reads without a deadline (`direct_stacks.go:162`), and the handler of a
refused stack deploy emits its error after the session was closed (`routes_stacks.go:288`).

*Auto-update.* A release published during an attempt leaves services on different releases. A
failed attempt whose pull succeeded moves the tag, and the monitor sees no update any more. A
roll-back that could not capture every digest is called `rolled_back` all the same. A stop of the
panel leaves a record in a stage that is not terminal. A toggle deploys without the app's mutex.

*Self-update.* The result file does not say whose result it is: an old one is taken for the
outcome of a new request. A helper that is killed after it took the trigger leaves the state
"requested" for ever, although a comment (`manager.go`, near line 234) leaves it to a time-out:
`reconcileLocked` has none. A boot of the new version reports "done" before the health check,
which may still roll back. `update.sh` runs under `set -e`: a full disk at `cp` or `mv`, or a
`daemon-reload` or start that fails (373-378, 474-478), ends it after the stop of the panel and before
its start, and the roll-back at line 480 is not reached; the roll-back itself returns without a start
when it has no backup (412). The panel then stays stopped until somebody starts it or the host
restarts. A helper whose `write_result` fails leaves no result, and the state "requested" for ever.
With tags that begin with "v", as this repository's do
(`Tagged = TRUE`), `update.sh` finds no release for the bare version the panel asks for
(`manager.go:186`, `update.sh:203-207`), and every update from the panel fails; the run has
`Tagged = FALSE`, so that the rest of the protocol is reached.

*Credentials.* A rotation replaces the secret file before it re-encrypts the rows one by one, so an
interrupted one leaves rows under a key that is on no disk; the comment at `main.go:511` says
"the DB is still encrypted with a key that exists on disk". It never re-encrypts the SSH password
and key of an instance. A restored backup brings old token versions back. A test of a
registry credential writes back the record it read before the call.

*Containers.* The edge client does not look at the status of the answer to a start, stop or
removal (`edge.go:130-141`), so a failed removal counts as done and is written to the audit log.
A recreation that is cut short between removal and creation loses the container, also when
the browser goes away. The monitor's limit of three attempts is reset in every cycle and never
reached across cycles. It undoes a user's stop of a container it recovers. Renaming the agent's
container lifts its protection.

*Apps.* Every deploy saves a record with a fresh id, so an app has several, and a toggle may bring
back the file of an older one. `DELETE /services/:id` ignores a failed removal, acts on the
panel's own host even for another instance's app, and removes only compose apps; the instance's
route removes no containers at all. Traefik's file is read, changed and rewritten without a lock
and keyed by the app's name alone; `GenerateConfig` takes a file it cannot read or parse for an
empty one (`config.go:57-61`) and so drops every other route. A record whose deletion fails outlives
its containers and its route (`routes.go:1234`). Clones of repositories whose URLs end alike share a
directory. The toggle saves the record before it deploys "so a failure cannot desync DB and
containers", which is when they differ. One that overlaps a deletion and a new deploy of its app
puts the file it has read before both back.

*Servers.* Root login can be taken while the panel logs in as root, which shuts it out; the
"hardened" flag is never taken back; fail2ban or ufw failing after sshd was changed leaves the
record with a password that is off; a reload that failed is taken for the desired state by
the next request, since `sshd -T` reads the files; the roll-back removes the whole drop-in file,
with what earlier requests had put there, and is not followed by a reload. A drop-in that was written half-way is good enough for
the second attempt of the job, unless it has the password to try. Installing with a
given key or password overwrites a working credential before trying the new one. `HardenSSH`
(`harden.go:65`) has no caller.

## Plan

Every safety property that a run checks has its theorem; what the provers cannot reach is named above.
What is left is to say more: that the streamed deploys of `Services` behave as the producers of
`DeployStream` is so far a matter of two models of the same handlers, each with the part it is about,
and no refinement; and the parts below are not modelled.

## Not modelled

In modelled parts: the blanks around an instance's name, which the check trims from the new name
only; a roll-back of sshd's files whose removal fails.

The contents of files, messages and records beyond what the properties tell apart; the Docker
API and the remote shells, except as outcomes; the in-memory tables that one mutex guards
(tickets, rate limits, install logs); the backup scheduler's start and stop; metrics and their
retention; health probes, log rotation and audit files; the Cloudflare child process; the
validation of strings; the client in the browser. `PROJECT.json` has each part with the reason.
