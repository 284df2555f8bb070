----------------------------- MODULE Containers -----------------------------
(***************************************************************************)
(* The containers of one host and who changes them: the requests of the    *)
(* panel (server/instance_scoped_routes.go, server/routes.go) carried by a *)
(* client (agent/local.go, agent/direct.go, agent/edge.go) to the Docker   *)
(* calls of docker/container.go, one Docker call a step, and the recovery  *)
(* monitor (docker/recovery.go).  The agent process at the other end of a  *)
(* remote client is another program; it makes the same Docker calls.       *)
(*                                                                         *)
(* A container is what its name, its state and its origin tell: the rest   *)
(* of its configuration is copied by a recreation and is not modelled.     *)
(***************************************************************************)
EXTENDS Naturals, FiniteSets

CONSTANTS
    Reqs,       \* the requests that may be under way at once
    Transport,  \* "local", "direct" or "edge": the client of this instance
    MaxIds,     \* bound: the containers ever made
    MaxFaults,  \* bound: the containers that Docker does not start for the monitor
    Limit,      \* the failures after which the monitor leaves a container alone: 3
    None        \* no container, no request

ASSUME ContainersAssumption ==
    /\ Transport \in {"local", "direct", "edge"}
    /\ MaxIds \in Nat /\ MaxIds >= 2 /\ MaxFaults \in Nat /\ Limit \in Nat \ {0}
    /\ None \notin Nat

VARIABLES
    ctr,      \* the containers of the host, by identifier
    made,     \* the containers made so far
    req,      \* the requests under way
    mon,      \* the monitor's cycle: the containers it has still to handle, its failures
    removed,  \* the containers whose removal was done or was reported as done
    faults,   \* the monitor's calls that failed
    past      \* whether a recreation was cut short, a container was renamed,
              \* the agent's container was renamed; the containers that have been
              \* replaced

vars == <<ctr, made, req, mon, removed, faults, past>>

Ids == 1..MaxIds

\* The first two containers are of a service and of the agent.
Web == 1
Agent == 2

\* The names containers are given, and the agent's.
NewNames == {"web", "other"}
Names == NewNames \union {"dockpal-agent"}

\* A container of the agent is one by its image or environment; from is the
\* container it was recreated from.
Container == [name : Names, state : {"created", "running", "exited"}, agent : BOOLEAN,
              auto : BOOLEAN, from : Ids \union {None}]

\* start stands for a restart too, and force for a forced removal.
Kinds == {"start", "stop", "remove", "force", "edit", "update"}

\* An edit renames the container, or recreates it, or both; old is the container
\* as a recreation has read it.
Request == [kind : Kinds, id : Ids, name : Names \union {None}, recreate : BOOLEAN,
            pc : {"check", "do", "pull", "inspect", "stop", "remove", "create", "start"},
            old : Container \union {None}]

ASSUME NoneAssumption == None \notin Container /\ None \notin Request

Init ==
    /\ ctr = [i \in Ids |->
                IF i = Web THEN [name |-> "web", state |-> "running", agent |-> FALSE,
                               auto |-> TRUE, from |-> None]
                ELSE IF i = Agent THEN [name |-> "dockpal-agent", state |-> "running", agent |-> TRUE,
                                    auto |-> FALSE, from |-> None]
                ELSE None]
    /\ made = 2
    /\ req = [r \in Reqs |-> None]
    /\ mon = [left |-> {}, fails |-> [i \in Ids |-> 0]]
    /\ removed = {}
    /\ faults = 0
    /\ past = [cut |-> FALSE, renamed |-> FALSE, agentRenamed |-> FALSE, replaced |-> {}]

Exists(i) == ctr[i] # None

Running(i) == Exists(i) /\ ctr[i].state = "running"

Taken(n) == \E i \in Ids : Exists(i) /\ ctr[i].name = n

At(r, pc) == req[r] # None /\ req[r].pc = pc

-----------------------------------------------------------------------------
(* How a request goes on *)

Goto(r, pc) == req' = [req EXCEPT ![r].pc = pc] /\ UNCHANGED removed

\* What the edge client takes for a success: it looks at the status of an
\* inspection's answer, and not for these requests.
Unchecked == {"start", "stop", "remove", "force"}

Succeeds(q, ok) == ok \/ (Transport = "edge" /\ q.kind \in Unchecked /\ q.pc # "check")

\* The call that decides has returned, and the handler reports the outcome; a
\* success is written to the audit log.  (An edit or an update then inspects the
\* container of that name for its answer.)
Answered(r, ok) ==
    /\ req' = [req EXCEPT ![r] = None]
    /\ removed' = IF req[r].kind \in {"remove", "force"} /\ Succeeds(req[r], ok)
                  THEN removed \union {req[r].id} ELSE removed

Recreates(q) == q.kind = "update" \/ (q.kind = "edit" /\ q.recreate)

\* isProtectedDockpalAgentContainer: by its name, and its image or environment.
Protected(i) == ctr[i].agent /\ ctr[i].name = "dockpal-agent"

\* What may destroy the container inspects it first.
Asked(k, i, n, x) ==
    [kind |-> k, id |-> i, name |-> n, recreate |-> x, old |-> None,
     pc |-> IF k \in {"remove", "force", "update"} \/ x THEN "check" ELSE "do"]

\* A handler starts.  The bounds:
\* no rename is asked for once there was one, only containers that are to be
\* recovered are started and stopped, and an edit that recreates also renames (one
\* that does not is an update without its pull).
Begin(r) ==
    /\ req[r] = None
    /\ \E k \in Kinds, i \in 1..made, n \in NewNames \union {None}, x \in BOOLEAN :
        /\ k = "edit" <=> n # None
        /\ x => n # None
        /\ n # None => ~past.renamed
        /\ k \in {"start", "stop"} => Exists(i) /\ ctr[i].auto
        /\ Recreates(Asked(k, i, n, x)) => made < MaxIds
        /\ req' = [req EXCEPT ![r] = Asked(k, i, n, x)]
    /\ UNCHANGED <<ctr, made, mon, removed, faults, past>>

\* ensureContainerRemovable, or the inspection of an update.
Check(r) ==
    /\ At(r, "check")
    /\ LET i == req[r].id
       IN IF Exists(i) /\ ~Protected(i)
          THEN \/ req[r].kind = "force"  /\ Goto(r, "remove")
               \/ req[r].kind = "remove" /\ Goto(r, "stop")
               \/ req[r].kind = "update" /\ Goto(r, "pull")
               \/ req[r].kind = "edit"   /\ Goto(r, "do")
          ELSE Answered(r, FALSE)
    /\ UNCHANGED <<ctr, made, mon, faults, past>>

\* StartContainer, StopContainer, RestartContainer.
Switch(r) ==
    /\ At(r, "do") /\ req[r].kind \in {"start", "stop"}
    /\ LET i == req[r].id IN
       IF Exists(i)
       THEN /\ ctr' = [ctr EXCEPT ![i].state =
                          IF req[r].kind = "start" THEN "running"
                          ELSE IF @ = "running" THEN "exited" ELSE @]
            /\ Answered(r, TRUE)
       ELSE Answered(r, FALSE) /\ UNCHANGED ctr
    /\ UNCHANGED <<made, mon, faults, past>>

\* EditContainer: the container is renamed first.  Docker keeps names unique.
Rename(r) ==
    /\ At(r, "do") /\ req[r].kind = "edit"
    /\ LET i == req[r].id
           n == req[r].name
       IN IF Exists(i) /\ (n # None => ~Taken(n))
          THEN /\ ctr' = IF n = None THEN ctr ELSE [ctr EXCEPT ![i].name = n]
               /\ past' = [past EXCEPT !.renamed = @ \/ n # None,
                                       !.agentRenamed = @ \/ (n # None /\ ctr[i].agent)]
               /\ IF req[r].recreate
                  THEN req' = [req EXCEPT ![r].pc = "inspect", ![r].name = None] /\ UNCHANGED removed
                  ELSE Answered(r, TRUE)
          ELSE Answered(r, FALSE) /\ UNCHANGED <<ctr, past>>
    /\ UNCHANGED <<made, mon, faults>>

-----------------------------------------------------------------------------
(* UpdateContainerImage and recreateContainer *)

\* Mutant: the old container is removed before its image is pulled.
PullLate(r) ==
    /\ At(r, "pull")
    /\ \/ Exists(req[r].id) /\ Goto(r, "inspect") /\ UNCHANGED <<ctr, past>>
       \/ /\ Exists(req[r].id)
          /\ ctr' = [ctr EXCEPT ![req[r].id] = None]
          /\ Answered(r, FALSE) /\ UNCHANGED past
    /\ UNCHANGED <<made, mon, faults>>

\* UpdateContainerImage inspects the container and pulls: a pull that fails ends it.
Pull(r) ==
    /\ At(r, "pull")
    /\ LET i == req[r].id IN
       \/ Exists(i) /\ Goto(r, "inspect")
       \/ Answered(r, FALSE)
    /\ UNCHANGED <<ctr, made, mon, faults, past>>

\* recreateContainer reads the container again: its configuration, its name, and
\* whether it runs.
Inspect(r) ==
    /\ At(r, "inspect")
    /\ LET i == req[r].id
       IN IF Exists(i)
          THEN /\ req' = [req EXCEPT ![r].old = ctr[i],
                                     ![r].pc = IF Running(i) THEN "stop" ELSE "remove"]
               /\ UNCHANGED removed
          ELSE Answered(r, FALSE)
    /\ UNCHANGED <<ctr, made, mon, faults, past>>

\* Before a removal the container is stopped; a stop that fails does not end the
\* request.
Stop(r) ==
    /\ At(r, "stop")
    /\ \/ ctr' = IF Running(req[r].id) THEN [ctr EXCEPT ![req[r].id].state = "exited"] ELSE ctr
       \/ UNCHANGED ctr
    /\ Goto(r, "remove")
    /\ UNCHANGED <<made, mon, faults, past>>

\* Mutant: a recreation goes on when there is nothing left to remove.
RemoveLenient(r) ==
    /\ At(r, "remove")
    /\ LET i == req[r].id IN
       /\ ctr' = [ctr EXCEPT ![i] = None]
       /\ IF Recreates(req[r])
          THEN Goto(r, "create")
          ELSE Answered(r, Exists(i))
    /\ UNCHANGED <<made, mon, faults, past>>

\* ContainerRemove: not forced, it fails for a container that runs again; without
\* a container it fails in any case, and a recreation goes no further.
Remove(r) ==
    /\ At(r, "remove")
    /\ LET i == req[r].id IN
       IF Exists(i) /\ (req[r].kind = "remove" => ~Running(i))
       THEN /\ ctr' = [ctr EXCEPT ![i] = None]
            /\ IF Recreates(req[r])
               THEN Goto(r, "create")
               ELSE Answered(r, TRUE)
       ELSE Answered(r, FALSE) /\ UNCHANGED ctr
    /\ UNCHANGED <<made, mon, faults, past>>

\* ContainerCreate under the old name, which another container may have by now.
Create(r) ==
    /\ At(r, "create") /\ made < MaxIds
    /\ LET old == req[r].old IN
       IF Taken(old.name)
       THEN Answered(r, FALSE) /\ UNCHANGED <<ctr, made, past>>
       ELSE /\ made' = made + 1
            /\ ctr' = [ctr EXCEPT ![made'] =
                         [old EXCEPT !.state = "created", !.from = req[r].id]]
            /\ past' = [past EXCEPT !.replaced = @ \union {req[r].id}]
            /\ IF old.state = "running"
               THEN req' = [req EXCEPT ![r].pc = "start", ![r].old = None] /\ UNCHANGED removed
               ELSE Answered(r, TRUE)
    /\ UNCHANGED <<mon, faults>>

\* The new container, which is the last with this origin, is started.
Start(r) ==
    /\ At(r, "start")
    /\ LET new == {i \in Ids : Exists(i) /\ ctr[i].from = req[r].id}
       IN ctr' = [i \in Ids |-> IF i \in new THEN [ctr[i] EXCEPT !.state = "running"] ELSE ctr[i]]
    /\ Answered(r, TRUE)
    /\ UNCHANGED <<made, mon, faults, past>>

\* A Docker call fails.
Fails(r) ==
    /\ req[r] # None /\ req[r].pc \notin {"stop", "pull"}
    /\ Answered(r, FALSE)
    /\ past' = [past EXCEPT !.cut = @ \/ req[r].pc = "create"]
    /\ UNCHANGED <<ctr, made, mon, faults>>

\* The browser goes away, a client's timeout passes or the process dies: the
\* context of the calls is cancelled, and the next one is not made.  The edge
\* client does not carry its context to the agent (SendEdgeRequest): there only
\* the end of the agent's process does this, and a request that nobody waits for
\* any more goes on, removals and all, like one that is waited for.
Cancelled(r) ==
    /\ req[r] # None
    /\ req' = [req EXCEPT ![r] = None]
    /\ past' = [past EXCEPT !.cut = @ \/ req[r].pc = "create"]
    /\ UNCHANGED <<ctr, made, mon, removed, faults>>

-----------------------------------------------------------------------------
(* The containers themselves, and the recovery monitor *)

\* A container that is to be recovered exits.
Exits(i) ==
    /\ Running(i) /\ ctr[i].auto
    /\ ctr' = [ctr EXCEPT ![i].state = "exited"]
    /\ UNCHANGED <<made, req, mon, removed, faults, past>>

Listed == {i \in Ids : Exists(i) /\ ctr[i].auto /\ ctr[i].state = "exited"}

\* Mutant: the failures are kept from one cycle to the next.
TickKeepsFailures ==
    /\ mon.left = {}
    /\ mon' = [mon EXCEPT !.left = Listed]
    /\ UNCHANGED <<ctr, made, req, removed, faults, past>>

\* check: a cycle begins with the list of containers, and no failures.
Tick ==
    /\ mon.left = {}
    /\ mon' = [left |-> Listed, fails |-> [i \in Ids |-> 0]]
    /\ UNCHANGED <<ctr, made, req, removed, faults, past>>

Handled(i) == mon.left \ {i}

\* StartContainer of what was listed, whatever has become of it (the failure for a
\* container that is gone is not counted here: its identifier never comes back).  A
\* container that failed three times in this cycle is left alone until the next.
Recovers(i) ==
    /\ i \in mon.left
    /\ IF mon.fails[i] < Limit /\ Exists(i)
       THEN ctr' = [ctr EXCEPT ![i].state = "running"]
       ELSE UNCHANGED ctr
    /\ mon' = [mon EXCEPT !.left = Handled(i)]
    /\ UNCHANGED <<made, req, removed, faults, past>>

RecoveryFails(i) ==
    /\ i \in mon.left /\ mon.fails[i] < Limit
    /\ faults < MaxFaults /\ faults' = faults + 1
    /\ mon' = [mon EXCEPT !.left = Handled(i), !.fails[i] = @ + 1]
    /\ UNCHANGED <<ctr, made, req, removed, past>>

-----------------------------------------------------------------------------
Monitor == Tick \/ \E i \in Ids : Recovers(i)

Next ==
    \/ \E r \in Reqs :
        \/ Begin(r) \/ Check(r) \/ Switch(r) \/ Rename(r) \/ Pull(r) \/ Inspect(r)
        \/ Stop(r) \/ Remove(r) \/ Create(r) \/ Start(r)
        \/ Fails(r) \/ Cancelled(r)
    \/ \E i \in Ids : Exits(i) \/ RecoveryFails(i)
    \/ Monitor

Spec == Init /\ [][Next]_vars

\* The ticker fires every minute, and every cycle comes to its end.
FairSpec == Spec /\ WF_vars(Monitor)

-----------------------------------------------------------------------------
(* Properties *)

\* The variables have their types.
TypeOK ==
    /\ ctr \in [Ids -> Container \union {None}]
    /\ made \in 2..MaxIds
    /\ req \in [Reqs -> Request \union {None}]
    /\ mon \in [left : SUBSET Ids, fails : [Ids -> 0..Limit]]
    /\ removed \in SUBSET Ids
    /\ faults \in 0..MaxFaults
    /\ past \in [cut : BOOLEAN, renamed : BOOLEAN, agentRenamed : BOOLEAN,
                 replaced : SUBSET Ids]

\* A container whose removal was reported as done is gone and stays away: no
\* request that was under way brings it back under a new identifier.
RemovedIsGone ==
    \A i \in removed : ~Exists(i) /\ \A j \in Ids : Exists(j) => ctr[j].from # i

\* container.go:459, "recreates the container with its existing configuration":
\* a container disappears for a recreation only while that is creating the new
\* one, unless it was cut short there or a rename took the name meanwhile; a pull
\* that fails costs nothing.
\* container_protection.go:12, the container of the agent is not removed or
\* recreated at all, unless it was renamed, since its name protects it.
LossHasCause ==
    /\ \A i \in 1..made :
        \/ Exists(i) \/ i \in removed \/ i \in past.replaced
        \/ \E r \in Reqs : At(r, "create") /\ req[r].id = i
        \/ past.cut \/ past.renamed
    /\ Exists(Agent) \/ past.agentRenamed

\* recovery.go:12, a container to be recovered does not stay exited, however many
\* attempts have failed before.
DeadComesBack ==
    \A i \in Ids \ {Agent} : (i \in Listed) ~> (i \notin Listed)
=============================================================================
