------------------------------- MODULE Stacks -------------------------------
(***************************************************************************)
(* One compose stack of a host: its files, its containers and the cache of *)
(* `docker compose ls` (docker/stack_store.go, composecli/bridge.go), and  *)
(* the requests that work on it (server/routes_stacks.go).  The compose    *)
(* runs are taken under the lock of module StackLock; saving the files is  *)
(* not.  On a remote host the agent runs the same code.                    *)
(*                                                                         *)
(* A file is the save that wrote it.  The containers are absent, stopped   *)
(* or running.  A compose run takes effect at once; one that fails may     *)
(* have done its work all the same.                                        *)
(***************************************************************************)
EXTENDS StackLock

CONSTANTS
    Readers,     \* goroutines that list the stacks, again and again
    Old          \* the save whose files are there at first

ASSUME StacksAssumption ==
    /\ Readers \cap Ops = {}
    /\ Old \notin Ops
    /\ NoLock # Old

VARIABLES
    dir,         \* the stack's directory exists
    compose,     \* who wrote compose.yaml, or NoLock
    env,         \* who wrote .env, or NoLock
    ctr,         \* the stack's containers
    cache,       \* composeLsCache: what it holds, or "expired"
    kind,        \* what each operation is
    stage,       \* where an operation is, besides its place in the lock
    rpc,         \* where each reader is
    lsOut,       \* the output of `compose ls` a caller of ListComposeProjects has
    mishaps      \* what went wrong so far, for the properties only

fileVars == <<dir, compose, env>>
readVars == <<rpc, cache>>
stackVars == <<fileVars, ctr, kind, stage, readVars, lsOut, mishaps>>
allVars == <<lockVars, stackVars>>

\* Those of stackRun, then StackUpdate, StackDelete, the saves and the deploy.
RunKinds == {"up", "restart", "stop", "down"}
SaveKinds == {"create", "edit"}
DeployKinds == {"deploy", "add"}
Kinds == RunKinds \union SaveKinds \union DeployKinds \union {"update", "delete"}

\* The requests with is_add, which make the directory.
IsAdd(k) == k \in {"create", "add"}

Stages == {"check", "write", "env", "lock", "run", "drop", "list", "fill", "remove", "over"}

Containers == {"none", "stopped", "running"}

Mishaps == {"down failed", "two at once", "half saved", "saves at once"}

Files == Ops \union {Old, NoLock}

TypeInv ==
    /\ TypeOK
    /\ dir \in BOOLEAN /\ compose \in Files /\ env \in Files
    /\ ~dir => compose = NoLock /\ env = NoLock
    /\ ctr \in Containers
    /\ cache \in Containers \union {"expired"}
    /\ kind \in [Ops -> Kinds]
    /\ stage \in [Ops -> Stages]
    /\ rpc \in [Readers -> {"idle", "fill"}]
    /\ lsOut \in [Ops \union Readers -> Containers]
    /\ mishaps \subseteq Mishaps
    /\ \A p \in Ops : pc[p] = "running" => stage[p] \in {"run", "drop", "list", "fill", "remove"}

\* Where the handler of a request of kind k begins.
FirstStage(k) == IF k \in SaveKinds \union DeployKinds THEN "check" ELSE "lock"

StacksInit ==
    /\ Init
    /\ dir \in BOOLEAN
    /\ compose = IF dir THEN Old ELSE NoLock
    /\ env = compose
    /\ ctr \in IF dir THEN Containers ELSE {"none"}
    /\ cache = "expired"
    /\ kind \in [Ops -> Kinds]
    /\ stage = [p \in Ops |-> FirstStage(kind[p])]
    /\ rpc = [r \in Readers |-> "idle"]
    /\ lsOut = [x \in Ops \union Readers |-> "none"]
    /\ mishaps = {}

Move(p, place) == stage' = [stage EXCEPT ![p] = place]

Note(what, happened) == mishaps' = IF happened THEN mishaps \union {what} ELSE mishaps

(***************************************************************************)
(* SaveStack, not under the lock                                           *)
(***************************************************************************)

\* Another save is between its check and its end.
SavesAtOnce(p) == \E q \in Ops \ {p} : stage[q] \in {"write", "env"}

\* The name, the YAML and the variables are validated, then os.Stat: a creation
\* wants no directory, an edit wants one.  A deploy that carries files saves
\* them first, in the one way or the other; one that does not goes on to run
\* compose on what is there (the panel asks for a directory, an agent does not).
SaveCheck(p) ==
    /\ stage[p] = "check"
    /\ \/ dir = ~IsAdd(kind[p]) /\ Move(p, "write")
       \/ kind[p] = "deploy" /\ Move(p, "lock")
       \/ Move(p, "over")
    /\ UNCHANGED <<lockVars, fileVars, ctr, kind, readVars, lsOut, mishaps>>

\* compose.yaml is written by a rename, so it is never half a file; only a
\* request with is_add makes the directory.
SaveCompose(p) ==
    /\ stage[p] = "write"
    /\ dir \/ IsAdd(kind[p])
    /\ dir' = TRUE
    /\ compose' = p
    /\ Move(p, "env")
    /\ Note("saves at once", SavesAtOnce(p))
    /\ UNCHANGED <<lockVars, env, ctr, kind, readVars, lsOut>>

\* Mutant: a save without variables leaves the .env of an earlier one.
SaveEnvUnlessEmpty(p) ==
    /\ stage[p] = "env"
    /\ dir
    /\ env' \in {p, env}
    /\ Move(p, IF kind[p] \in DeployKinds THEN "lock" ELSE "over")
    /\ Note("saves at once", SavesAtOnce(p))
    /\ UNCHANGED <<lockVars, dir, compose, ctr, kind, readVars, lsOut>>

\* .env is written after it; a deploy goes on to run compose.
SaveEnv(p) ==
    /\ stage[p] = "env"
    /\ dir
    /\ env' = p
    /\ Move(p, IF kind[p] \in DeployKinds THEN "lock" ELSE "over")
    /\ Note("saves at once", SavesAtOnce(p))
    /\ UNCHANGED <<lockVars, dir, compose, ctr, kind, readVars, lsOut>>

\* A write fails, for one because the directory is gone; what a creation has
\* made stays.
SaveFails(p) ==
    /\ stage[p] \in {"write", "env"}
    /\ dir' = (dir \/ (stage[p] = "write" /\ IsAdd(kind[p])))
    /\ Move(p, "over")
    /\ mishaps' = mishaps \union {"half saved"}
    /\ UNCHANGED <<lockVars, compose, env, ctr, kind, readVars, lsOut>>

(***************************************************************************)
(* The lock                                                                *)
(***************************************************************************)

\* Where an operation begins that has acquired the lock.
LockTaken(p) ==
    /\ stage[p] = "lock"
    /\ \/ LoadOrStore(p) /\ Move(p, "lock") /\ UNCHANGED mishaps
       \/ Acquire(p) /\ Move(p, "run") /\ Note("two at once", \E q \in Ops : pc[q] = "running")
       \/ Refuse(p) /\ Move(p, "over") /\ UNCHANGED mishaps
    /\ UNCHANGED <<fileVars, ctr, kind, readVars, lsOut>>

LockReleased(p) ==
    /\ LoadEntry(p) \/ Release(p) \/ Evict(p)
    /\ UNCHANGED stackVars

\* The operation returns, and its deferred Unlock is next.
Finish(p) == Return(p) /\ Move(p, "over")

(***************************************************************************)
(* The operations under the lock                                           *)
(***************************************************************************)

\* What the containers are after a compose command of kind k.
After(k) ==
    IF k \in {"down", "delete"} \/ (k \in {"restart", "stop"} /\ ctr = "none") THEN "none"
    ELSE IF k = "stop" THEN "stopped"
    ELSE "running"

\* A compose command runs in the stack's directory, with its compose file.
CanRun == dir /\ compose # NoLock

ComposeRun(k, ok) ==
    /\ ok => CanRun
    /\ ctr' \in IF ok THEN {After(k)} ELSE IF CanRun THEN {ctr, After(k)} ELSE {ctr}

\* stackRun and StackUpStreamed: an error returns at once; stackRun drops the
\* cached list after a run that succeeded, StackUpStreamed does not.
RunStack(p) ==
    /\ stage[p] = "run"
    /\ kind[p] \in RunKinds \union DeployKinds
    /\ \E ok \in BOOLEAN :
          /\ ComposeRun(kind[p], ok)
          /\ IF ok /\ kind[p] \in RunKinds
             THEN Move(p, "drop") /\ UNCHANGED lockVars
             ELSE Finish(p)
    /\ UNCHANGED <<fileVars, kind, readVars, lsOut, mishaps>>

\* InvalidateComposeLsCache at the end of stackRun.
InvalidateComposeLsCache(p) ==
    /\ stage[p] = "drop"
    /\ cache' = "expired"
    /\ Finish(p)
    /\ UNCHANGED <<fileVars, ctr, kind, rpc, lsOut, mishaps>>

\* StackUpdate: `compose pull`.
UpdatePulls(p) ==
    /\ stage[p] = "run" /\ kind[p] = "update"
    /\ \/ CanRun /\ Move(p, "list") /\ UNCHANGED lockVars
       \/ Finish(p)
    /\ UNCHANGED <<fileVars, ctr, kind, readVars, lsOut, mishaps>>

\* StackUpdate: `up` when the stack runs according to the list seen.
UpIfRunning(p, seen) ==
    IF seen = "running"
    THEN \E ok \in BOOLEAN : ComposeRun("update", ok)
    ELSE UNCHANGED ctr

\* StackUpdate: the list comes from the cache, from `compose ls`, or not at
\* all, and then the stack counts as not running.
UpdateLists(p) ==
    /\ stage[p] = "list"
    /\ \/ /\ cache # "expired"
          /\ UpIfRunning(p, cache)
          /\ Finish(p)
          /\ UNCHANGED lsOut
       \/ /\ cache = "expired"
          /\ lsOut' = [lsOut EXCEPT ![p] = ctr]
          /\ Move(p, "fill")
          /\ UNCHANGED <<lockVars, ctr>>
       \/ /\ cache = "expired"
          /\ Finish(p)
          /\ UNCHANGED <<ctr, lsOut>>
    /\ UNCHANGED <<fileVars, kind, readVars, mishaps>>

UpdateFills(p) ==
    /\ stage[p] = "fill"
    /\ cache' = lsOut[p]
    /\ UpIfRunning(p, lsOut[p])
    /\ Finish(p)
    /\ UNCHANGED <<fileVars, kind, rpc, lsOut, mishaps>>

\* Mutant: StackDelete only removes the files.
DeleteSkipsDown(p) ==
    /\ stage[p] = "run" /\ kind[p] = "delete"
    /\ Move(p, "remove")
    /\ UNCHANGED <<lockVars, fileVars, ctr, kind, readVars, lsOut, mishaps>>

\* StackDelete: `down`, if there is a directory, whose failure is ignored.
DeleteDowns(p) ==
    /\ stage[p] = "run" /\ kind[p] = "delete"
    /\ \E ok \in BOOLEAN :
          IF dir
          THEN ComposeRun("delete", ok) /\ Note("down failed", ~ok)
          ELSE UNCHANGED <<ctr, mishaps>>
    /\ Move(p, "remove")
    /\ UNCHANGED <<lockVars, fileVars, kind, readVars, lsOut>>

\* StackDelete: RemoveAll, which may fail with some of the files gone.  The
\* cached list is dropped either way.
DeleteRemoves(p) ==
    /\ stage[p] = "remove"
    /\ \/ dir' = FALSE /\ compose' = NoLock /\ env' = NoLock /\ UNCHANGED mishaps
       \/ /\ compose' \in {compose, NoLock} /\ env' \in {env, NoLock}
          /\ mishaps' = mishaps \union {"half saved"}
          /\ UNCHANGED dir
    /\ cache' = "expired"
    /\ Finish(p)
    /\ UNCHANGED <<ctr, kind, rpc, lsOut>>

(***************************************************************************)
(* ListComposeProjects, for the handlers that show stacks                  *)
(***************************************************************************)

\* The answer comes from the cache.
ReadCached(r) ==
    /\ rpc[r] = "idle"
    /\ cache # "expired"
    /\ lsOut' = [lsOut EXCEPT ![r] = cache]
    /\ UNCHANGED <<lockVars, fileVars, ctr, kind, stage, readVars, mishaps>>

\* The entry is out of date: `compose ls` runs, outside the cache's mutex.
ReadAsks(r) ==
    /\ rpc[r] = "idle"
    /\ cache = "expired"
    /\ lsOut' = [lsOut EXCEPT ![r] = ctr]
    /\ rpc' = [rpc EXCEPT ![r] = "fill"]
    /\ UNCHANGED <<lockVars, fileVars, ctr, kind, stage, cache, mishaps>>

\* Its output goes into the cache, whatever happened meanwhile.
ReadFills(r) ==
    /\ rpc[r] = "fill"
    /\ cache' = lsOut[r]
    /\ rpc' = [rpc EXCEPT ![r] = "idle"]
    /\ UNCHANGED <<lockVars, fileVars, ctr, kind, stage, lsOut, mishaps>>

\* Mutant: an entry that is in the cache stays.
CacheNeverExpires == FALSE /\ UNCHANGED allVars

\* Two seconds have passed.
CacheExpires ==
    /\ cache # "expired"
    /\ cache' = "expired"
    /\ UNCHANGED <<lockVars, fileVars, ctr, kind, stage, rpc, lsOut, mishaps>>

-----------------------------------------------------------------------------

Save(p) == SaveCheck(p) \/ SaveCompose(p) \/ SaveEnv(p) \/ SaveFails(p)

Operate(p) ==
    \/ RunStack(p)
    \/ InvalidateComposeLsCache(p)
    \/ UpdatePulls(p)
    \/ UpdateLists(p)
    \/ UpdateFills(p)
    \/ DeleteDowns(p)
    \/ DeleteRemoves(p)

Read(r) == ReadCached(r) \/ ReadAsks(r) \/ ReadFills(r)

StacksNext ==
    \/ \E p \in Ops : Save(p) \/ LockTaken(p) \/ LockReleased(p) \/ Operate(p)
    \/ \E r \in Readers : Read(r)
    \/ CacheExpires

StacksSpec == StacksInit /\ [][StacksNext]_allVars

\* Time passes for the cache, and a client that shows the stacks asks again.
StacksFairness ==
    /\ WF_allVars(CacheExpires)
    /\ \A r \in Readers : SF_allVars(ReadAsks(r)) /\ WF_allVars(ReadFills(r))

(***************************************************************************)
(* Properties                                                              *)
(***************************************************************************)

\* The operations take and release the lock as module StackLock has it, in
\* whatever way their compose runs end.
ImplementsLock == Spec

\* Containers without a directory, which the panel can no longer manage, are
\* left behind only by a `down` that failed during a deletion or by two
\* operations that ran at once.
OrphanHasCause ==
    ~dir /\ ctr # "none" => mishaps \cap {"down failed", "two at once"} # {}

\* compose.yaml and .env come from the same save, unless one is being written,
\* a write or a removal failed half-way, or two saves overlapped.
FilesMatch ==
    dir /\ compose # env =>
        \/ \E p \in Ops : stage[p] = "env"
        \/ mishaps \cap {"half saved", "saves at once"} # {}

\* Whatever races filled the cache with an outdated list, a client that keeps
\* asking is shown the true state again and again.
ListSettles == \A r \in Readers : []<>(lsOut[r] = ctr)
=============================================================================
