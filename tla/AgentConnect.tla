--------------------------- MODULE AgentConnect ----------------------------
(***************************************************************************)
(* The life of an edge agent's connection in the panel:                    *)
(*   - server/agent_ws.go, HandleAgentConnect: one handler goroutine per   *)
(*     WebSocket, which authenticates, registers the connection, writes    *)
(*     the instance record, asks for host info and waits for the end;      *)
(*   - agent/manager.go (module EdgeManager), here with its database: a    *)
(*     teardown writes the status "offline" while it holds Manager.mu;     *)
(*   - server/instance_routes.go: the administrator's requests that delete,*)
(*     edit, re-key or test an instance meanwhile;                         *)
(*   - db/db.go: an instance record is read in one transaction and the     *)
(*     whole record is saved in another, by every one of them.             *)
(*                                                                         *)
(* Of a record only its existence and its status are kept: LastSeen, host  *)
(* info, name and token are fields that a save writes back together with   *)
(* the status that was read before it.  SendEdgeRequest touches neither    *)
(* connections nor records, so the handler's host-info call is a stage it  *)
(* stays in until the call ends one way or another, and the calls of       *)
(* EdgeManager take no step here: they stay where Init has put them.       *)
(***************************************************************************)
EXTENDS EdgeManager

CONSTANTS
    Admins,      \* administrator requests, each made at most once
    Direct       \* the instances of mode "direct"; the others have mode "edge"

ASSUME ConnectAssumption ==
    /\ Direct \subseteq Instances
    /\ Admins \cap Conns = {}
    /\ NoConn \notin Admins

VARIABLES
    db,          \* the status in each instance record, or "absent"
    mu,          \* who holds Manager.mu across a database write, or NoConn
    muSnap,      \* the record that holder has read
    hpc,         \* where the handler of each connection is
    hinst,       \* the instance whose token the agent presented
    hwait,       \* the connection WaitForDisconnect waits for
    apc,         \* where each administrator request is
    ainst,       \* the instance of the request
    held         \* the record a handler or a request has read and will save

handlerVars == <<hpc, hinst, hwait>>
adminVars == <<apc, ainst>>
managerVars == <<mu, muSnap>>
allVars == <<vars, db, managerVars, handlerVars, adminVars, held>>

Statuses == {"enrolling", "offline", "online"}

\* The stages of HandleAgentConnect that update the record, in order, among
\* the other places a handler can be.
DbStages == {"status", "seen", "info", "version"}

HandlerPCs == DbStages \union
    {"idle", "verified", "call", "calling", "wait", "waiting", "return", "returned"}

AdminDbStages == {"offline", "edit", "test", "testseen"}

AdminPCs == AdminDbStages \union {"idle", "unregister", "tearing", "erase", "over"}

Procs == Conns \union Admins

TypeInv ==
    /\ TypeOK
    /\ db \in [Instances -> Statuses \union {"absent"}]
    /\ mu \in Procs \union {NoConn}
    /\ muSnap \in Statuses \union {"absent"}
    /\ hpc \in [Conns -> HandlerPCs]
    /\ hinst \in [Conns -> Instances \union {NoConn}]
    /\ hwait \in [Conns -> Conns \union {NoConn}]
    /\ apc \in [Admins -> AdminPCs]
    /\ ainst \in [Admins -> Instances \union {NoConn}]
    /\ held \in [Procs -> Statuses \union {"none"}]

\* Instances that were provisioned and whose agents have not connected yet.
ConnectInit ==
    /\ Init
    /\ db = [i \in Instances |-> "enrolling"]
    /\ mu = NoConn
    /\ muSnap = "absent"
    /\ hpc = [c \in Conns |-> "idle"]
    /\ hinst = [c \in Conns |-> NoConn]
    /\ hwait = [c \in Conns |-> NoConn]
    /\ apc = [a \in Admins |-> "idle"]
    /\ ainst = [a \in Admins |-> NoConn]
    /\ held = [p \in Procs |-> "none"]

MuFree == mu = NoConn

(***************************************************************************)
(* Manager.mu and the database                                             *)
(***************************************************************************)

\* A teardown by p of connection c under Manager.mu: when c is the registered
\* connection, UpdateInstanceStatus reads the record and mu stays locked.
LockedTeardown(p, c) ==
    /\ MuFree
    /\ IF edge[owner[c]] = c
       THEN mu' = p /\ muSnap' = db[owner[c]]
       ELSE UNCHANGED managerVars

\* Mutant: the write is skipped for a missing record, and so is the unlock.
TeardownSaveForgetsUnlock ==
    /\ mu # NoConn
    /\ muSnap # "absent"
    /\ LET i == IF mu \in Admins THEN ainst[mu] ELSE owner[mu]
       IN  db' = [db EXCEPT ![i] = "offline"]
    /\ mu' = NoConn
    /\ muSnap' = "absent"
    /\ apc' = IF mu \in Admins THEN [apc EXCEPT ![mu] = "erase"] ELSE apc
    /\ UNCHANGED <<vars, handlerVars, ainst, held>>

\* The teardown saves the record with status "offline", if it read one, and
\* unlocks mu.
TeardownSave ==
    /\ mu # NoConn
    /\ LET i == IF mu \in Admins THEN ainst[mu] ELSE owner[mu]
       IN  db' = IF muSnap = "absent" THEN db ELSE [db EXCEPT ![i] = "offline"]
    /\ mu' = NoConn
    /\ muSnap' = "absent"
    /\ apc' = IF mu \in Admins THEN [apc EXCEPT ![mu] = "erase"] ELSE apc
    /\ UNCHANGED <<vars, handlerVars, ainst, held>>

\* The read loop's deferred unregisterEdgeConnection, with the database.
ReadLoopCleanup(c) ==
    /\ UnregisterOwnConnection(c)
    /\ LockedTeardown(c, c)
    /\ UNCHANGED <<db, handlerVars, adminVars, held>>

(***************************************************************************)
(* HandleAgentConnect                                                      *)
(***************************************************************************)

GoTo(c, place) == hpc' = [hpc EXCEPT ![c] = place]

\* Mutant: the handler sets the status first and registers afterwards.
VerifyThenStatus(c) ==
    /\ hpc[c] = "idle"
    /\ \E i \in Instances :
          /\ db[i] # "absent"
          /\ hinst' = [hinst EXCEPT ![c] = i]
          /\ db' = [db EXCEPT ![i] = "online"]
    /\ GoTo(c, "verified")
    /\ UNCHANGED <<vars, managerVars, hwait, adminVars, held>>

\* verifyAgentToken: the token is that of an existing record; every status a
\* record can have is accepted.  The socket's deadlines are cleared; a handler
\* that fails before this has touched nothing.
VerifyAgentToken(c) ==
    /\ hpc[c] = "idle"
    /\ \E i \in Instances :
          /\ db[i] # "absent"
          /\ hinst' = [hinst EXCEPT ![c] = i]
    /\ GoTo(c, "verified")
    /\ UNCHANGED <<vars, db, managerVars, hwait, adminVars, held>>

\* Mutant: the connection is stored without locking mu.
RegisterUnlocked(c) ==
    /\ hpc[c] = "verified"
    /\ RegisterEdgeConnection(hinst[c], c)
    /\ GoTo(c, "status")
    /\ UNCHANGED <<db, managerVars, hinst, hwait, adminVars, held>>

\* RegisterEdgeConnection under Manager.mu.
ConnectRegister(c) ==
    /\ hpc[c] = "verified"
    /\ MuFree
    /\ RegisterEdgeConnection(hinst[c], c)
    /\ GoTo(c, "status")
    /\ UNCHANGED <<db, managerVars, hinst, hwait, adminVars, held>>

\* The stage that follows a finished or failed update; a host-info answer may
\* carry no agent version, and then the record is not saved a fourth time.
AfterStage(stage) ==
    CASE stage = "status" -> {"seen"}
      [] stage = "seen" -> {"call"}
      [] stage = "info" -> {"version", "wait"}
      [] stage = "version" -> {"wait"}

\* GetInstance of an update: without a record the update fails, and the
\* handler ignores that.
HandlerGet(c) ==
    /\ hpc[c] \in DbStages
    /\ held[c] = "none"
    /\ IF db[hinst[c]] = "absent"
       THEN /\ \E next \in AfterStage(hpc[c]) : GoTo(c, next)
            /\ UNCHANGED held
       ELSE /\ held' = [held EXCEPT ![c] = db[hinst[c]]]
            /\ UNCHANGED hpc
    /\ UNCHANGED <<vars, db, managerVars, hinst, hwait, adminVars>>

\* SaveInstance of the record that was read: UpdateInstanceStatus changes its
\* status, the other updates put back the status they have read.
HandlerSave(c) ==
    /\ hpc[c] \in DbStages
    /\ held[c] # "none"
    /\ db' = [db EXCEPT ![hinst[c]] = IF hpc[c] = "status" THEN "online" ELSE held[c]]
    /\ held' = [held EXCEPT ![c] = "none"]
    /\ \E next \in AfterStage(hpc[c]) : GoTo(c, next)
    /\ UNCHANGED <<vars, managerVars, hinst, hwait, adminVars>>

\* SendEdgeRequest looks up whatever connection the instance has now.
HostInfoLookup(c) ==
    /\ hpc[c] = "call"
    /\ MuFree
    /\ GoTo(c, IF edge[hinst[c]] = NoConn THEN "wait" ELSE "calling")
    /\ UNCHANGED <<vars, db, managerVars, hinst, hwait, adminVars, held>>

\* The call ends: a well-formed answer updates the record, anything else does not.
HostInfoDone(c) ==
    /\ hpc[c] = "calling"
    /\ \E next \in {"info", "wait"} : GoTo(c, next)
    /\ UNCHANGED <<vars, db, managerVars, hinst, hwait, adminVars, held>>

\* WaitForDisconnect looks its connection up by instance id.
WaitForDisconnect(c) ==
    /\ hpc[c] = "wait"
    /\ MuFree
    /\ IF edge[hinst[c]] = NoConn
       THEN GoTo(c, "return") /\ UNCHANGED hwait
       ELSE GoTo(c, "waiting") /\ hwait' = [hwait EXCEPT ![c] = edge[hinst[c]]]
    /\ UNCHANGED <<vars, db, managerVars, hinst, adminVars, held>>

HandlerWakes(c) ==
    /\ hpc[c] = "waiting"
    /\ hwait[c] \in done
    /\ hwait' = [hwait EXCEPT ![c] = NoConn]
    /\ GoTo(c, "return")
    /\ UNCHANGED <<vars, db, managerVars, hinst, adminVars, held>>

\* Mutant: the handler drops its instance's connection on the way out.
HandlerReturnsUnregisters(c) ==
    /\ hpc[c] = "return"
    /\ closed' = closed \union {c}
    /\ edge' = [edge EXCEPT ![hinst[c]] = NoConn]
    /\ GoTo(c, "returned")
    /\ UNCHANGED <<owner, done, broken, loop, callVars, chanVars, wireVars,
                   db, managerVars, hinst, hwait, adminVars, held>>

\* The deferred conn.Close().
HandlerReturns(c) ==
    /\ hpc[c] = "return"
    /\ closed' = closed \union {c}
    /\ GoTo(c, "returned")
    /\ UNCHANGED <<edge, owner, done, broken, loop, callVars, chanVars, wireVars,
                   db, managerVars, hinst, hwait, adminVars, held>>

(***************************************************************************)
(* The administrator's requests                                            *)
(***************************************************************************)

\* A request that is over forgets its instance.
AdminGoTo(a, place) ==
    /\ apc' = [apc EXCEPT ![a] = place]
    /\ ainst' = IF place = "over" THEN [ainst EXCEPT ![a] = NoConn] ELSE ainst

AdminStart(a, i, place) ==
    /\ apc[a] = "idle"
    /\ apc' = [apc EXCEPT ![a] = place]
    /\ ainst' = [ainst EXCEPT ![a] = i]

\* handleDeleteInstance: the record must exist; an edge instance is
\* disconnected before the record is deleted.
DeleteRequest(a, i) ==
    /\ db[i] # "absent"
    /\ AdminStart(a, i, IF i \in Direct THEN "erase" ELSE "unregister")
    /\ UNCHANGED <<vars, db, managerVars, handlerVars, held>>

\* UnregisterEdgeConnection of a connected instance: teardown under mu.
DeleteDisconnects(a) ==
    /\ apc[a] = "unregister"
    /\ UnregisterEdgeConnection(ainst[a])
    /\ LockedTeardown(a, edge[ainst[a]])
    /\ AdminGoTo(a, "tearing")
    /\ UNCHANGED <<db, handlerVars, held>>

\* UnregisterEdgeConnection without a connection: mu is unlocked, and the
\* status is updated after that.
DeleteFindsNoConn(a) ==
    /\ apc[a] = "unregister"
    /\ MuFree
    /\ edge[ainst[a]] = NoConn
    /\ AdminGoTo(a, "offline")
    /\ UNCHANGED <<vars, db, managerVars, handlerVars, held>>

\* DeleteInstance; a record that is already gone answers 404.
DeleteErases(a) ==
    /\ apc[a] = "erase"
    /\ db' = [db EXCEPT ![ainst[a]] = "absent"]
    /\ AdminGoTo(a, "over")
    /\ UNCHANGED <<vars, managerVars, handlerVars, held>>

\* handleUpdateInstance: the record is read (as it is by handleRotateToken).
EditRequest(a, i) ==
    /\ db[i] # "absent"
    /\ AdminStart(a, i, "edit")
    /\ held' = [held EXCEPT ![a] = db[i]]
    /\ UNCHANGED <<vars, db, managerVars, handlerVars>>

\* GetClient: the record exists, and an edge instance is connected.
HasClient(i) ==
    /\ db[i] # "absent"
    /\ i \notin Direct => MuFree /\ edge[i] # NoConn

\* handleTestInstance: the instance has a client, and its ping is answered.
TestRequest(a, i) ==
    /\ HasClient(i)
    /\ AdminStart(a, i, "test")
    /\ UNCHANGED <<vars, db, managerVars, handlerVars, held>>

AfterAdminStage(stage) ==
    CASE stage = "offline" -> "erase"
      [] stage = "test" -> "testseen"
      [] OTHER -> "over"

AdminGet(a) ==
    /\ apc[a] \in AdminDbStages
    /\ held[a] = "none"
    /\ IF db[ainst[a]] = "absent"
       THEN AdminGoTo(a, AfterAdminStage(apc[a])) /\ UNCHANGED held
       ELSE held' = [held EXCEPT ![a] = db[ainst[a]]] /\ UNCHANGED adminVars
    /\ UNCHANGED <<vars, db, managerVars, handlerVars>>

AdminSave(a) ==
    /\ apc[a] \in AdminDbStages
    /\ held[a] # "none"
    /\ db' = [db EXCEPT ![ainst[a]] = CASE apc[a] = "offline" -> "offline"
                                        [] apc[a] = "test" -> "online"
                                        [] OTHER -> held[a]]
    /\ held' = [held EXCEPT ![a] = "none"]
    /\ AdminGoTo(a, AfterAdminStage(apc[a]))
    /\ UNCHANGED <<vars, managerVars, handlerVars>>

-----------------------------------------------------------------------------

\* Steps of EdgeManager that touch neither the database nor Manager.mu.
ManagerStep ==
    /\ \E c \in Conns : ReadFails(c) \/ (c \notin closed /\ ConnBreaks(c))
    /\ UNCHANGED <<db, managerVars, handlerVars, adminVars, held>>

Handler(c) ==
    \/ VerifyAgentToken(c)
    \/ ConnectRegister(c)
    \/ HandlerGet(c)
    \/ HandlerSave(c)
    \/ HostInfoLookup(c)
    \/ HostInfoDone(c)
    \/ WaitForDisconnect(c)
    \/ HandlerWakes(c)
    \/ HandlerReturns(c)

AdminStep(a) ==
    \/ \E i \in Instances : DeleteRequest(a, i) \/ EditRequest(a, i) \/ TestRequest(a, i)
    \/ DeleteDisconnects(a)
    \/ DeleteFindsNoConn(a)
    \/ DeleteErases(a)
    \/ AdminGet(a)
    \/ AdminSave(a)

ConnectNext ==
    \/ ManagerStep
    \/ TeardownSave
    \/ \E c \in Conns : ReadLoopCleanup(c) \/ Handler(c)
    \/ \E a \in Admins : AdminStep(a)

ConnectSpec == ConnectInit /\ [][ConnectNext]_allVars

\* A database write under mu ends, and a goroutine that asks for mu gets it
\* although others ask again and again (Go's mutex has a starvation mode).
ConnectFairness ==
    /\ WF_allVars(TeardownSave)
    /\ \A c \in Conns : SF_allVars(ConnectRegister(c))

FairConnectSpec == ConnectSpec /\ ConnectFairness

(***************************************************************************)
(* Properties                                                              *)
(***************************************************************************)

\* While a teardown has yet to write "offline", its instance has no
\* connection: mu is held across the write so that the cleanup of the old
\* connection cannot mark a reconnected instance offline.
NoSuccessorBeforeOffline ==
    mu # NoConn =>
        edge[IF mu \in Admins THEN ainst[mu] ELSE owner[mu]] = NoConn

\* A handler returns, and so closes its socket, only after its connection was
\* retired, whichever connection of the instance it ended up waiting for.
HandlerOutlivesConn ==
    \A c \in Conns :
        hpc[c] \in {"return", "returned"} => c \in done /\ \A i \in Instances : edge[i] # c

\* An edge instance is shown online only after one of its agents was registered.
OnlineNeedsAgent ==
    \A i \in Instances \ Direct :
        db[i] = "online" => \E c \in Conns : owner[c] = i

\* An authenticated agent gets its connection registered: no teardown keeps
\* Manager.mu for ever, whatever happens to the record it writes.
ReconnectGetsThrough ==
    \A c \in Conns : (hpc[c] = "verified") ~> (owner[c] = hinst[c])

\* The manager with its database is still the manager of module EdgeManager.
ImplementsManager == Spec
=============================================================================
