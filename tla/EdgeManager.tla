---------------------------- MODULE EdgeManager ----------------------------
(***************************************************************************)
(* internal/agent/manager.go: the panel's table of edge-agent WebSocket    *)
(* connections and the requests multiplexed over them.                     *)
(*                                                                         *)
(* Processes: one read-loop goroutine per connection, one goroutine per    *)
(* SendEdgeRequest call, the callers of RegisterEdgeConnection,            *)
(* UnregisterEdgeConnection and Close, and, outside the panel, the agents  *)
(* and the network.  Every critical section of Manager.mu and of           *)
(* EdgeConnection.mu is one action: what such a section touches is touched *)
(* by nobody else without the mutex.                                       *)
(*                                                                         *)
(* This module is the Manager with a nil db (the code tests m.db != nil);  *)
(* module AgentConnect adds the database write that a teardown makes while *)
(* it holds Manager.mu.                                                    *)
(***************************************************************************)
CONSTANTS
    Instances,   \* ids of edge-mode instances
    Conns,       \* EdgeConnection objects (one WebSocket each), used once
    Requests,    \* SendEdgeRequest calls; a call is named by its request id
    NoConn       \* nil *EdgeConnection, and the zero value of other fields

ASSUME ConstAssumption == NoConn \notin Conns /\ NoConn \notin Instances

VARIABLES
    edge,        \* Manager.edge: the live connection of each instance
    owner,       \* EdgeConnection.instanceID; NoConn before registration
    done,        \* connections whose done channel is closed
    closed,      \* connections whose socket the panel has closed
    broken,      \* connections whose socket fails on the next read
    loop,        \* where the read-loop goroutine of each connection is
    pending,     \* EdgeConnection.pending: request ids awaiting a response
    pc,          \* where each SendEdgeRequest call is
    target,      \* the connection a call looked up
    respCh,      \* a call's response channel (capacity 1), as a set
    outcome,     \* what the call returns
    sent,        \* request ids written to each socket
    inbound      \* response ids the panel has yet to read from each socket

connVars == <<edge, owner, done, closed, broken, loop>>
callVars == <<pc, target, outcome>>
chanVars == <<pending, respCh>>
wireVars == <<sent, inbound>>
vars == <<connVars, callVars, chanVars, wireVars>>

Responses == [conn : Conns, req : Requests]

PCs == {"idle", "found", "registered", "waiting", "cleanup", "done"}

Outcomes == {"none", "answer", "no_conn", "send_error", "timeout", "conn_closed"}

LoopStates == {"none", "reading", "cleanup", "ended"}

TypeOK ==
    /\ edge \in [Instances -> Conns \union {NoConn}]
    /\ owner \in [Conns -> Instances \union {NoConn}]
    /\ done \in SUBSET Conns
    /\ closed \in SUBSET Conns
    /\ broken \in SUBSET Conns
    /\ loop \in [Conns -> LoopStates]
    /\ pending \in [Conns -> SUBSET Requests]
    /\ pc \in [Requests -> PCs]
    /\ target \in [Requests -> Conns \union {NoConn}]
    /\ respCh \in [Requests -> SUBSET Responses]
    /\ outcome \in [Requests -> Outcomes]
    /\ sent \in [Conns -> SUBSET Requests]
    /\ inbound \in [Conns -> SUBSET Requests]

Init ==
    /\ edge = [i \in Instances |-> NoConn]
    /\ owner = [c \in Conns |-> NoConn]
    /\ done = {}
    /\ closed = {}
    /\ broken = {}
    /\ loop = [c \in Conns |-> "none"]
    /\ pending = [c \in Conns |-> {}]
    /\ pc = [r \in Requests |-> "idle"]
    /\ target = [r \in Requests |-> NoConn]
    /\ respCh = [r \in Requests |-> {}]
    /\ outcome = [r \in Requests |-> "none"]
    /\ sent = [c \in Conns |-> {}]
    /\ inbound = [c \in Conns |-> {}]

(***************************************************************************)
(* Registration and teardown, under Manager.mu                             *)
(***************************************************************************)

\* The done channels and the sockets of the connections in C are closed.
CloseConns(C) ==
    /\ done' = done \union C
    /\ closed' = closed \union C

LiveConns == {edge[i] : i \in Instances} \ {NoConn}

\* Mutants of RegisterEdgeConnection: the existing connection is left open, or
\* its socket is closed and its done channel is not.
RegisterMutant(i, c, nowDone, nowClosed) ==
    /\ loop[c] = "none"
    /\ done' = done \union nowDone
    /\ closed' = closed \union nowClosed
    /\ edge' = [edge EXCEPT ![i] = c]
    /\ owner' = [owner EXCEPT ![c] = i]
    /\ loop' = [loop EXCEPT ![c] = "reading"]
    /\ UNCHANGED <<broken, callVars, chanVars, wireVars>>

RegisterLeavingExisting(i, c) == RegisterMutant(i, c, {}, {})

RegisterKeepingDoneOpen(i, c) == RegisterMutant(i, c, {}, {edge[i]} \ {NoConn})

\* RegisterEdgeConnection: a connection already registered for the instance
\* is closed, the new one takes its place and its read loop starts.
RegisterEdgeConnection(i, c) ==
    /\ loop[c] = "none"
    /\ CloseConns({edge[i]} \ {NoConn})
    /\ edge' = [edge EXCEPT ![i] = c]
    /\ owner' = [owner EXCEPT ![c] = i]
    /\ loop' = [loop EXCEPT ![c] = "reading"]
    /\ UNCHANGED <<broken, callVars, chanVars, wireVars>>

\* Mutant: teardown by instance id, whoever is registered.
TeardownByInstance(c) ==
    /\ CloseConns({edge[owner[c]]} \ {NoConn})
    /\ edge' = [edge EXCEPT ![owner[c]] = NoConn]

\* teardownEdgeConnectionLocked: only the registered connection is torn down;
\* a superseded one leaves its successor alone.
TeardownEdgeConnectionLocked(c) ==
    IF edge[owner[c]] = c
    THEN /\ CloseConns({c})
         /\ edge' = [edge EXCEPT ![owner[c]] = NoConn]
    ELSE UNCHANGED <<done, closed, edge>>

\* UnregisterEdgeConnection: lookup and teardown under one hold of Manager.mu.
UnregisterEdgeConnection(i) ==
    /\ edge[i] # NoConn
    /\ TeardownEdgeConnectionLocked(edge[i])
    /\ UNCHANGED <<owner, broken, loop, callVars, chanVars, wireVars>>

\* Manager.Close: every live connection is closed and forgotten.
Close ==
    /\ LiveConns # {}
    /\ CloseConns(LiveConns)
    /\ edge' = [i \in Instances |-> NoConn]
    /\ UNCHANGED <<owner, broken, loop, callVars, chanVars, wireVars>>

(***************************************************************************)
(* edgeReadLoop                                                            *)
(***************************************************************************)

\* Mutant: one pending table per instance instead of one per connection.
RouteByInstance(c) ==
    /\ loop[c] = "reading"
    /\ c \notin closed
    /\ \E r \in inbound[c] :
          /\ inbound' = [inbound EXCEPT ![c] = @ \ {r}]
          /\ respCh' = IF /\ \E d \in Conns : owner[d] = owner[c] /\ r \in pending[d]
                          /\ respCh[r] = {}
                       THEN [respCh EXCEPT ![r] = {[conn |-> c, req |-> r]}]
                       ELSE respCh
    /\ UNCHANGED <<connVars, callVars, pending, sent>>

\* ReadJSON returns a response, which goes to the channel of the pending call
\* with its request id; it is dropped when there is none or the channel is full.
RouteResponse(c) ==
    /\ loop[c] = "reading"
    /\ c \notin closed
    /\ \E r \in inbound[c] :
          /\ inbound' = [inbound EXCEPT ![c] = @ \ {r}]
          /\ respCh' = IF r \in pending[c] /\ respCh[r] = {}
                       THEN [respCh EXCEPT ![r] = {[conn |-> c, req |-> r]}]
                       ELSE respCh
    /\ UNCHANGED <<connVars, callVars, pending, sent>>

\* ReadJSON fails: the loop returns and its deferred cleanup is next.
ReadFails(c) ==
    /\ loop[c] = "reading"
    /\ c \in closed \union broken
    /\ loop' = [loop EXCEPT ![c] = "cleanup"]
    /\ UNCHANGED <<edge, owner, done, closed, broken, callVars, chanVars, wireVars>>

\* unregisterEdgeConnection(ec), deferred by the read loop.
UnregisterOwnConnection(c) ==
    /\ loop[c] = "cleanup"
    /\ TeardownEdgeConnectionLocked(c)
    /\ loop' = [loop EXCEPT ![c] = "ended"]
    /\ UNCHANGED <<owner, broken, callVars, chanVars, wireVars>>

(***************************************************************************)
(* SendEdgeRequest                                                         *)
(***************************************************************************)

\* Lookup under the read lock; without a connection the call fails at once.
LookupConn(r, i) ==
    /\ pc[r] = "idle"
    /\ IF edge[i] = NoConn
       THEN /\ pc' = [pc EXCEPT ![r] = "done"]
            /\ outcome' = [outcome EXCEPT ![r] = "no_conn"]
            /\ UNCHANGED target
       ELSE /\ pc' = [pc EXCEPT ![r] = "found"]
            /\ target' = [target EXCEPT ![r] = edge[i]]
            /\ UNCHANGED outcome
    /\ UNCHANGED <<connVars, chanVars, wireVars>>

\* ec.pending[req.RequestID] = respCh, on the connection that was looked up.
AddPending(r) ==
    /\ pc[r] = "found"
    /\ pending' = [pending EXCEPT ![target[r]] = @ \union {r}]
    /\ pc' = [pc EXCEPT ![r] = "registered"]
    /\ UNCHANGED <<connVars, target, outcome, respCh, wireVars>>

\* The call goes to its deferred cleanup with the given outcome.
Return(r, how) ==
    /\ pc' = [pc EXCEPT ![r] = "cleanup"]
    /\ outcome' = [outcome EXCEPT ![r] = how]

\* WriteJSON succeeds: also on a socket whose failure is not noticed yet.
WriteRequest(r) ==
    /\ pc[r] = "registered"
    /\ target[r] \notin closed
    /\ sent' = [sent EXCEPT ![target[r]] = @ \union {r}]
    /\ pc' = [pc EXCEPT ![r] = "waiting"]
    /\ UNCHANGED <<connVars, target, outcome, chanVars, inbound>>

\* WriteJSON fails: the socket was closed by the panel or is broken.
WriteFails(r) ==
    /\ pc[r] = "registered"
    /\ target[r] \in closed \union broken
    /\ Return(r, "send_error")
    /\ UNCHANGED <<connVars, target, chanVars, wireVars>>

\* select: the response arrived.
ReceiveResponse(r) ==
    /\ pc[r] = "waiting"
    /\ respCh[r] # {}
    /\ respCh' = [respCh EXCEPT ![r] = {}]
    /\ Return(r, "answer")
    /\ UNCHANGED <<connVars, target, pending, wireVars>>

\* Mutant: the timeout is reported and the call goes on waiting.
TimeoutKeepsWaiting(r) ==
    /\ pc[r] = "waiting"
    /\ outcome' = [outcome EXCEPT ![r] = "timeout"]
    /\ UNCHANGED <<connVars, pc, target, chanVars, wireVars>>

\* select: 60 seconds passed.
RequestTimeout(r) ==
    /\ pc[r] = "waiting"
    /\ Return(r, "timeout")
    /\ UNCHANGED <<connVars, target, chanVars, wireVars>>

\* select: the connection's done channel is closed.
ConnDone(r) ==
    /\ pc[r] = "waiting"
    /\ target[r] \in done
    /\ Return(r, "conn_closed")
    /\ UNCHANGED <<connVars, target, chanVars, wireVars>>

\* The deferred delete(ec.pending, req.RequestID).
RemovePending(r) ==
    /\ pc[r] = "cleanup"
    /\ pending' = [pending EXCEPT ![target[r]] = @ \ {r}]
    /\ pc' = [pc EXCEPT ![r] = "done"]
    /\ UNCHANGED <<connVars, target, outcome, respCh, wireVars>>

(***************************************************************************)
(* The agents and the network (external)                                   *)
(***************************************************************************)

\* The socket dies, the agent hangs up, or what it sends is not JSON.
ConnBreaks(c) ==
    /\ loop[c] = "reading"
    /\ broken' = broken \union {c}
    /\ UNCHANGED <<edge, owner, done, closed, loop, callVars, chanVars, wireVars>>

\* An agent answers a request it received, at any time, possibly twice, and
\* possibly on a newer connection of its instance than the one that carried it.
AgentReplies(c, r) ==
    /\ loop[c] = "reading"
    /\ c \notin broken
    /\ \E d \in Conns : owner[d] = owner[c] /\ r \in sent[d]
    /\ inbound' = [inbound EXCEPT ![c] = @ \union {r}]
    /\ UNCHANGED <<connVars, callVars, chanVars, sent>>

-----------------------------------------------------------------------------

Admin ==
    \/ Close
    \/ \E i \in Instances : UnregisterEdgeConnection(i)

ReadLoop(c) == RouteResponse(c) \/ ReadFails(c) \/ UnregisterOwnConnection(c)

\* The steps of a call that need neither an answer nor the passage of time.
CallSteps(r) ==
    \/ AddPending(r)
    \/ WriteRequest(r)
    \/ WriteFails(r)
    \/ ReceiveResponse(r)
    \/ ConnDone(r)
    \/ RemovePending(r)

Next ==
    \/ \E i \in Instances, c \in Conns : RegisterEdgeConnection(i, c)
    \/ Admin
    \/ \E c \in Conns : ReadLoop(c)
    \/ \E r \in Requests, i \in Instances : LookupConn(r, i)
    \/ \E r \in Requests : CallSteps(r) \/ RequestTimeout(r)
    \/ \E c \in Conns : ConnBreaks(c)
    \/ \E c \in Conns, r \in Requests : AgentReplies(c, r)

Spec == Init /\ [][Next]_vars

\* A goroutine that can take a step is scheduled: the read loop's error exit
\* and cleanup, and the steps of a call.  Nothing is assumed of timers, of the
\* network or of the agents.
Fairness ==
    /\ \A c \in Conns : WF_vars(ReadFails(c)) /\ WF_vars(UnregisterOwnConnection(c))
    /\ \A r \in Requests : WF_vars(CallSteps(r))

FairSpec == Spec /\ Fairness

(***************************************************************************)
(* Properties                                                              *)
(***************************************************************************)

\* Every connection that was ever registered is either the live one of its
\* instance, open on both sides and read by a running loop, or it is retired:
\* its done channel and its socket are closed, so no goroutine waits on it.
LiveOrRetired ==
    \A c \in Conns : owner[c] # NoConn =>
        IF edge[owner[c]] = c
        THEN c \notin done /\ c \notin closed /\ loop[c] \in {"reading", "cleanup"}
        ELSE c \in done /\ c \in closed

\* A request id is in a pending table only while its call is between the
\* insertion and the deferred delete, and only in the table of the connection
\* the call looked up: no table grows with requests that are over.
PendingIsInFlight ==
    \A c \in Conns : \A r \in pending[c] :
        target[r] = c /\ pc[r] \in {"registered", "waiting", "cleanup"}

\* The response a call can receive answers this very request and came over the
\* very connection that carried it, although ids of other connections of the
\* same instance arrive on every socket.
AnswerIsOwn ==
    \A r \in Requests : \A m \in respCh[r] :
        m.req = r /\ m.conn = target[r] /\ r \in sent[m.conn]

\* An instance loses its connection to nobody only through the read loop of
\* that connection or an explicit unregistration: the cleanup of a superseded
\* connection never disconnects its successor (the comment of edgeReadLoop).
SuccessorSurvives ==
    [][\A i \in Instances :
          edge[i] # NoConn /\ edge'[i] = NoConn =>
             Admin \/ (loop[edge[i]] = "cleanup" /\ loop'[edge[i]] = "ended")]_vars

\* A call on a connection that is retired or broken returns, without the help
\* of its 60-second timer.
StrandedCallReturns ==
    \A r \in Requests :
        (pc[r] = "waiting" /\ target[r] \in done \union broken) ~> (pc[r] = "done")

\* The abstract link of module AgentLink: a call is bound when it looks up its
\* connection and ends when its outcome is fixed.
EndOf(how) ==
    CASE how = "none" -> "none"
      [] how = "answer" -> "answered"
      [] OTHER -> "failed"

Link == INSTANCE AgentLink WITH
            link <- edge,
            over <- done,
            bound <- target,
            end <- [r \in Requests |-> EndOf(outcome[r])]

\* The manager implements AgentLink: a retired connection never serves again,
\* and a call ends once, with an answer only of the link it was made on.
ImplementsLink == Link!Spec
=============================================================================
