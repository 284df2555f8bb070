------------------------- MODULE AgentConnectProofs -------------------------
(***************************************************************************)
(* Proofs about EdgeManager, for any sets of instances, connections and    *)
(* calls, and about AgentConnect, for any of these and of administrator    *)
(* requests.  The theorems about Spec are those of EdgeManager alone, all  *)
(* its calls included; in ConnectSpec no call takes a step.                *)
(*                                                                         *)
(* First EdgeManager by itself: type correctness, the invariants that      *)
(* EdgeManager.cfg checks, the action property, and the refinement of      *)
(* AgentLink.  LiveOrRetired and AnswerIsOwn are not inductive.  ConnInv   *)
(* adds where owner, edge and loop agree, CallInv what the position of a   *)
(* call says about its fields, WireInv where request ids on the wire come  *)
(* from.                                                                   *)
(*                                                                         *)
(* Then AgentConnect.  The handlers close sockets too, so that the         *)
(* connections behave as in EdgeManager is itself a matter of invariants:  *)
(* IInv carries those of EdgeManager along, a step of AgentConnect is      *)
(* shown to be one of EdgeManager, and the manager's step lemmas give the  *)
(* rest.                                                                   *)
(***************************************************************************)
EXTENDS AgentConnect, TLAPS

\* owner, edge, loop, done and closed agree about every connection.
ConnInv ==
    /\ LiveOrRetired
    /\ \A i \in Instances : edge[i] # NoConn => owner[edge[i]] = i
    /\ \A c \in Conns : owner[c] = NoConn <=> loop[c] = "none"
    /\ \A c \in Conns : owner[c] = NoConn => c \notin done /\ c \notin closed

\* The position of a call fixes whether it has a connection and an outcome.
CallInv ==
    \A r \in Requests :
        /\ pc[r] = "idle" => target[r] = NoConn
        /\ pc[r] \in {"found", "registered", "waiting", "cleanup"} => target[r] \in Conns
        /\ pc[r] \in {"idle", "found", "registered", "waiting"} => outcome[r] = "none"

\* A request id is written by its call only, on the connection of the call;
\* an id read from a socket was written to one.
WireInv ==
    /\ \A c \in Conns : \A r \in sent[c] :
          target[r] = c /\ pc[r] \in {"waiting", "cleanup", "done"}
    /\ \A c \in Conns : \A r \in inbound[c] :
          target[r] \in Conns /\ r \in sent[target[r]]

-----------------------------------------------------------------------------

\* The invariants of this module start with Init.
LEMMA TypingInit == Init => TypeOK
BY ConstAssumption DEF Init, TypeOK, LoopStates, PCs, Outcomes, Responses

\* Every step of the manager keeps the types.
LEMMA TypingStep == TypeOK /\ [Next]_vars => TypeOK'
<1> SUFFICES ASSUME TypeOK, [Next]_vars PROVE TypeOK'
  OBVIOUS
<1> USE DEF TypeOK, LoopStates, PCs, Outcomes, Responses, connVars, callVars,
            chanVars, wireVars, CloseConns, Return
<1>1. ASSUME NEW i \in Instances, NEW c \in Conns, RegisterEdgeConnection(i, c)
      PROVE TypeOK'
  BY <1>1 DEF RegisterEdgeConnection
<1>2. ASSUME Close PROVE TypeOK'
  BY <1>2 DEF Close, LiveConns
<1>3. ASSUME NEW i \in Instances, UnregisterEdgeConnection(i) PROVE TypeOK'
  BY <1>3 DEF UnregisterEdgeConnection, TeardownEdgeConnectionLocked
<1>4. ASSUME NEW c \in Conns, RouteResponse(c) PROVE TypeOK'
  BY <1>4 DEF RouteResponse
<1>5. ASSUME NEW c \in Conns, ReadFails(c) PROVE TypeOK'
  BY <1>5 DEF ReadFails
<1>6. ASSUME NEW c \in Conns, UnregisterOwnConnection(c) PROVE TypeOK'
  BY <1>6 DEF UnregisterOwnConnection, TeardownEdgeConnectionLocked
<1>7. ASSUME NEW r \in Requests, NEW i \in Instances, LookupConn(r, i)
      PROVE TypeOK'
  BY <1>7 DEF LookupConn
<1>8. ASSUME NEW r \in Requests, AddPending(r) PROVE TypeOK'
  BY ZenonT(30), <1>8 DEF AddPending
<1>9. ASSUME NEW r \in Requests, WriteRequest(r) PROVE TypeOK'
  BY <1>9 DEF WriteRequest
<1>10. ASSUME NEW r \in Requests, WriteFails(r) PROVE TypeOK'
  BY <1>10 DEF WriteFails
<1>11. ASSUME NEW r \in Requests, ReceiveResponse(r) PROVE TypeOK'
  BY <1>11 DEF ReceiveResponse
<1>12. ASSUME NEW r \in Requests, RequestTimeout(r) \/ ConnDone(r) PROVE TypeOK'
  BY <1>12 DEF RequestTimeout, ConnDone
<1>13. ASSUME NEW r \in Requests, RemovePending(r) PROVE TypeOK'
  BY <1>13 DEF RemovePending
<1>14. ASSUME NEW c \in Conns, ConnBreaks(c) PROVE TypeOK'
  BY <1>14 DEF ConnBreaks
<1>15. ASSUME NEW c \in Conns, NEW r \in Requests, AgentReplies(c, r)
       PROVE TypeOK'
  BY <1>15 DEF AgentReplies
<1>16. CASE UNCHANGED vars
  BY <1>16 DEF vars
<1> QED
  BY <1>1, <1>2, <1>3, <1>4, <1>5, <1>6, <1>7, <1>8, <1>9, <1>10, <1>11,
     <1>12, <1>13, <1>14, <1>15, <1>16 DEF Next, Admin, ReadLoop, CallSteps

\* Type correctness: every variable keeps the shape of the Go field it models.
THEOREM Typing == Spec => []TypeOK
BY TypingInit, TypingStep, PTL DEF Spec

-----------------------------------------------------------------------------

\* A step of a call, of the network or of an agent leaves the table alone.
LEMMA ConnFrame ==
    ASSUME ConnInv, UNCHANGED <<edge, owner, done, closed, loop>>
    PROVE  ConnInv'
BY DEF ConnInv, LiveOrRetired

\* Tearing down c retires it if it is registered, and changes nothing if not.
LEMMA TeardownRetires ==
    ASSUME TypeOK, ConnInv, NEW c \in Conns, owner[c] # NoConn,
           TeardownEdgeConnectionLocked(c), UNCHANGED owner,
           \/ UNCHANGED loop
           \/ /\ loop[c] # "none"
              /\ loop' = [loop EXCEPT ![c] = "ended"]
    PROVE  ConnInv'
<1> USE ConstAssumption DEF ConnInv, LiveOrRetired, TypeOK, CloseConns,
        TeardownEdgeConnectionLocked, LoopStates
<1>1. CASE edge[owner[c]] = c
  BY <1>1
<1>2. CASE edge[owner[c]] # c
  BY <1>2
<1> QED
  BY <1>1, <1>2

\* Before anything is registered, every connection is unused.
LEMMA RetirementInit == Init => ConnInv
BY ConstAssumption DEF Init, ConnInv, LiveOrRetired

\* Every step of the manager keeps every registered connection live or retired.
LEMMA RetirementStep == TypeOK /\ ConnInv /\ [Next]_vars => ConnInv'
<1> SUFFICES ASSUME TypeOK, ConnInv, [Next]_vars PROVE ConnInv'
  OBVIOUS
<1>1. ASSUME NEW i \in Instances, NEW c \in Conns, RegisterEdgeConnection(i, c)
      PROVE ConnInv'
  <2> USE <1>1, ConstAssumption DEF RegisterEdgeConnection, CloseConns, TypeOK,
          LoopStates
  <2>1. owner[c] = NoConn /\ c \notin done /\ c \notin closed /\ edge[i] # c
    BY DEF ConnInv
  <2>2. (\A j \in Instances : edge[j] # NoConn => owner[edge[j]] = j)'
    BY <2>1 DEF ConnInv
  <2>3. (\A d \in Conns : owner[d] = NoConn <=> loop[d] = "none")'
    BY <2>1 DEF ConnInv
  <2>4. (\A d \in Conns : owner[d] = NoConn => d \notin done /\ d \notin closed)'
    BY <2>1 DEF ConnInv
  <2>5. LiveOrRetired'
    BY <2>1 DEF ConnInv, LiveOrRetired
  <2> QED
    BY <2>2, <2>3, <2>4, <2>5 DEF ConnInv
<1>2. ASSUME Close PROVE ConnInv'
  BY <1>2, ConstAssumption
     DEF Close, LiveConns, CloseConns, ConnInv, LiveOrRetired, TypeOK
<1>3. ASSUME NEW i \in Instances, UnregisterEdgeConnection(i) PROVE ConnInv'
  <2>1. edge[i] \in Conns /\ owner[edge[i]] # NoConn
    BY <1>3, ConstAssumption DEF UnregisterEdgeConnection, ConnInv, TypeOK
  <2> QED
    BY <1>3, <2>1, TeardownRetires DEF UnregisterEdgeConnection
<1>4. ASSUME NEW c \in Conns, UnregisterOwnConnection(c) PROVE ConnInv'
  <2>1. owner[c] # NoConn /\ loop[c] # "none"
    BY <1>4 DEF UnregisterOwnConnection, ConnInv
  <2> QED
    BY <1>4, <2>1, TeardownRetires DEF UnregisterOwnConnection
<1>5. ASSUME NEW c \in Conns, ReadFails(c) PROVE ConnInv'
  BY <1>5 DEF ReadFails, ConnInv, LiveOrRetired, TypeOK
<1>6. ASSUME NEW c \in Conns,
             \/ RouteResponse(c)
             \/ ConnBreaks(c)
             \/ \E r \in Requests : AgentReplies(c, r)
      PROVE ConnInv'
  BY <1>6, ConnFrame DEF RouteResponse, ConnBreaks, AgentReplies, connVars
<1>7. ASSUME NEW r \in Requests,
             \/ \E i \in Instances : LookupConn(r, i)
             \/ CallSteps(r)
             \/ RequestTimeout(r)
      PROVE ConnInv'
  BY <1>7, ConnFrame DEF LookupConn, CallSteps, AddPending, WriteRequest,
     WriteFails, ReceiveResponse, ConnDone, RemovePending, RequestTimeout, connVars
<1>8. CASE UNCHANGED vars
  BY <1>8, ConnFrame DEF vars, connVars
<1> QED
  BY <1>1, <1>2, <1>3, <1>4, <1>5, <1>6, <1>7, <1>8 DEF Next, Admin, ReadLoop

\* Every connection that was ever registered is live or retired.
THEOREM Retirement == Spec => []ConnInv
BY RetirementInit, RetirementStep, Typing, PTL DEF Spec

\* The invariant that the runs check, from the inductive one.
THEOREM EveryConnLiveOrRetired == Spec => []LiveOrRetired
<1>1. ConnInv => LiveOrRetired
  BY DEF ConnInv
<1> QED
  BY <1>1, Retirement, PTL

-----------------------------------------------------------------------------

\* What the calls, the pending tables and the wire say about one another.
RpcInv ==
    /\ CallInv
    /\ WireInv
    /\ PendingIsInFlight
    /\ AnswerIsOwn

\* A step that leaves the calls, the tables and the wire alone preserves RpcInv.
LEMMA RpcFrame ==
    ASSUME RpcInv, UNCHANGED <<pc, target, outcome, pending, respCh, sent, inbound>>
    PROVE  RpcInv'
BY DEF RpcInv, CallInv, WireInv, PendingIsInFlight, AnswerIsOwn

\* A call that only moves on from "waiting" or "registered" to its cleanup,
\* and may take its response, preserves RpcInv.
LEMMA ReturnFrame ==
    ASSUME TypeOK, RpcInv, NEW r \in Requests, NEW how \in Outcomes,
           pc[r] \in {"registered", "waiting"},
           Return(r, how),
           respCh' \in {respCh, [respCh EXCEPT ![r] = {}]},
           UNCHANGED <<target, pending, sent, inbound>>
    PROVE  RpcInv'
<1> USE DEF TypeOK, PCs, Outcomes, Return, Responses
<1>1. CallInv'
  BY DEF RpcInv, CallInv
<1>2. WireInv'
  BY DEF RpcInv, WireInv
<1>3. PendingIsInFlight'
  BY DEF RpcInv, PendingIsInFlight
<1>4. AnswerIsOwn'
  BY DEF RpcInv, AnswerIsOwn
<1> QED
  BY <1>1, <1>2, <1>3, <1>4 DEF RpcInv

\* A response reaches only the call that sent the request, over the connection
\* that carried it, and no pending table outlives its calls.
THEOREM Routing == Spec => []RpcInv
<1>1. Init => RpcInv
  BY DEF Init, RpcInv, CallInv, WireInv, PendingIsInFlight, AnswerIsOwn
<1>2. TypeOK /\ RpcInv /\ [Next]_vars => RpcInv'
  <2> SUFFICES ASSUME TypeOK, RpcInv, [Next]_vars PROVE RpcInv'
    OBVIOUS
  <2> USE DEF TypeOK, PCs, LoopStates, Outcomes, Responses
  <2>1. ASSUME \/ \E i \in Instances, c \in Conns : RegisterEdgeConnection(i, c)
               \/ Admin
               \/ \E c \in Conns : \/ ReadFails(c)
                                   \/ UnregisterOwnConnection(c)
                                   \/ ConnBreaks(c)
               \/ UNCHANGED vars
        PROVE RpcInv'
    BY <2>1, RpcFrame
       DEF RegisterEdgeConnection, Admin, Close, UnregisterEdgeConnection, ReadFails,
           UnregisterOwnConnection, ConnBreaks, vars, callVars, chanVars, wireVars
  <2>2. ASSUME NEW c \in Conns, RouteResponse(c) PROVE RpcInv'
    <3> USE <2>2 DEF RouteResponse, callVars
    <3>1. CallInv'
      BY DEF RpcInv, CallInv
    <3>2. WireInv'
      BY DEF RpcInv, WireInv
    <3>3. PendingIsInFlight'
      BY DEF RpcInv, PendingIsInFlight
    <3>4. AnswerIsOwn'
      <4>1. PICK r \in inbound[c] :
               respCh' = IF r \in pending[c] /\ respCh[r] = {}
                         THEN [respCh EXCEPT ![r] = {[conn |-> c, req |-> r]}]
                         ELSE respCh
        OBVIOUS
      <4>2. r \in Requests /\ (r \in pending[c] => target[r] = c /\ r \in sent[c])
        BY DEF RpcInv, WireInv, PendingIsInFlight
      <4> QED
        BY <4>1, <4>2 DEF RpcInv, AnswerIsOwn
    <3> QED
      BY <3>1, <3>2, <3>3, <3>4 DEF RpcInv
  <2>3. ASSUME NEW r \in Requests, NEW i \in Instances, LookupConn(r, i)
        PROVE RpcInv'
    <3> USE <2>3, ConstAssumption DEF LookupConn, chanVars, wireVars
    <3>1. \A c \in Conns : r \notin sent[c] /\ r \notin pending[c] /\ r \notin inbound[c]
      BY DEF RpcInv, WireInv, PendingIsInFlight, CallInv
    <3>2. respCh[r] = {}
      BY <3>1 DEF RpcInv, AnswerIsOwn
    <3>3. CallInv'
      BY DEF RpcInv, CallInv
    <3>4. WireInv'
      BY <3>1 DEF RpcInv, WireInv
    <3>5. PendingIsInFlight'
      BY <3>1 DEF RpcInv, PendingIsInFlight
    <3>6. AnswerIsOwn'
      BY <3>2 DEF RpcInv, AnswerIsOwn
    <3> QED
      BY <3>3, <3>4, <3>5, <3>6 DEF RpcInv
  <2>4. ASSUME NEW r \in Requests, AddPending(r) PROVE RpcInv'
    <3> USE <2>4 DEF AddPending, wireVars
    <3>1. CallInv'
      BY DEF RpcInv, CallInv
    <3>2. WireInv'
      BY DEF RpcInv, WireInv
    <3>3. PendingIsInFlight'
      BY DEF RpcInv, PendingIsInFlight, CallInv
    <3>4. AnswerIsOwn'
      BY DEF RpcInv, AnswerIsOwn
    <3> QED
      BY <3>1, <3>2, <3>3, <3>4 DEF RpcInv
  <2>5. ASSUME NEW r \in Requests, WriteRequest(r) PROVE RpcInv'
    <3> USE <2>5 DEF WriteRequest, chanVars
    <3>0. target[r] \in Conns
      BY DEF RpcInv, CallInv
    <3>1. CallInv'
      BY DEF RpcInv, CallInv
    <3>2. WireInv'
      BY <3>0 DEF RpcInv, WireInv
    <3>3. PendingIsInFlight'
      BY DEF RpcInv, PendingIsInFlight
    <3>4. AnswerIsOwn'
      BY <3>0 DEF RpcInv, AnswerIsOwn
    <3> QED
      BY <3>1, <3>2, <3>3, <3>4 DEF RpcInv
  <2>6. ASSUME NEW r \in Requests, RemovePending(r) PROVE RpcInv'
    <3> USE <2>6 DEF RemovePending, wireVars
    <3>1. CallInv'
      BY DEF RpcInv, CallInv
    <3>2. WireInv'
      BY DEF RpcInv, WireInv
    <3>3. PendingIsInFlight'
      BY DEF RpcInv, PendingIsInFlight, CallInv
    <3>4. AnswerIsOwn'
      BY DEF RpcInv, AnswerIsOwn
    <3> QED
      BY <3>1, <3>2, <3>3, <3>4 DEF RpcInv
  <2>7. ASSUME NEW r \in Requests,
               WriteFails(r) \/ ReceiveResponse(r) \/ RequestTimeout(r) \/ ConnDone(r)
        PROVE RpcInv'
    BY <2>7, ReturnFrame
       DEF WriteFails, ReceiveResponse, RequestTimeout, ConnDone, chanVars, wireVars
  <2>8. ASSUME NEW c \in Conns, NEW r \in Requests, AgentReplies(c, r) PROVE RpcInv'
    <3> USE <2>8 DEF AgentReplies, callVars, chanVars
    <3>1. target[r] \in Conns /\ r \in sent[target[r]]
      BY DEF RpcInv, WireInv
    <3>2. CallInv'
      BY DEF RpcInv, CallInv
    <3>3. WireInv'
      BY <3>1 DEF RpcInv, WireInv
    <3>4. PendingIsInFlight' /\ AnswerIsOwn'
      BY DEF RpcInv, PendingIsInFlight, AnswerIsOwn
    <3> QED
      BY <3>2, <3>3, <3>4 DEF RpcInv
  <2> QED
    BY <2>1, <2>2, <2>3, <2>4, <2>5, <2>6, <2>7, <2>8
    DEF Next, ReadLoop, CallSteps
<1>3. QED
  BY <1>1, <1>2, Typing, PTL DEF Spec

\* The two invariants that the runs check, from the inductive one.
THEOREM AnswersAreOwn == Spec => [](PendingIsInFlight /\ AnswerIsOwn)
<1>1. RpcInv => PendingIsInFlight /\ AnswerIsOwn
  BY DEF RpcInv
<1> QED
  BY <1>1, Routing, PTL

-----------------------------------------------------------------------------

\* The cleanup of a superseded connection never disconnects its successor.
THEOREM SuccessorsSurvive == Spec => SuccessorSurvives
<1> DEFINE Kept == \A i \in Instances :
              edge[i] # NoConn /\ edge'[i] = NoConn =>
                 Admin \/ (loop[edge[i]] = "cleanup" /\ loop'[edge[i]] = "ended")
<1>1. TypeOK /\ ConnInv /\ [Next]_vars => [Kept]_vars
  <2> SUFFICES ASSUME TypeOK, ConnInv, Next, ~Admin, NEW i \in Instances,
                      edge[i] # NoConn, edge'[i] = NoConn
               PROVE  loop[edge[i]] = "cleanup" /\ loop'[edge[i]] = "ended"
    OBVIOUS
  <2>1. ASSUME NEW j \in Instances, NEW c \in Conns, RegisterEdgeConnection(j, c)
        PROVE FALSE
    BY <2>1, ConstAssumption DEF RegisterEdgeConnection, TypeOK
  <2>2. ASSUME NEW c \in Conns, UnregisterOwnConnection(c)
        PROVE loop[edge[i]] = "cleanup" /\ loop'[edge[i]] = "ended"
    <3>1. edge[owner[c]] = c /\ owner[c] = i
      BY <2>2 DEF UnregisterOwnConnection, TeardownEdgeConnectionLocked, ConnInv, TypeOK
    <3> QED
      BY <2>2, <3>1 DEF UnregisterOwnConnection, TypeOK
  <2>3. CASE UNCHANGED edge
    BY <2>3
  <2> QED
    BY <2>1, <2>2, <2>3
       DEF Next, ReadLoop, RouteResponse, ReadFails, LookupConn, CallSteps, AddPending,
           WriteRequest, WriteFails, ReceiveResponse, ConnDone, RemovePending,
           RequestTimeout, ConnBreaks, AgentReplies, connVars
<1> QED
  BY <1>1, Typing, Retirement, PTL DEF Spec, SuccessorSurvives

-----------------------------------------------------------------------------

\* A teardown ends at most the link of one instance.
LEMMA TeardownIsDetach ==
    ASSUME TypeOK, ConnInv, NEW c \in Conns, owner[c] # NoConn,
           TeardownEdgeConnectionLocked(c), UNCHANGED <<target, outcome>>
    PROVE  Link!Detach({owner[c]}) \/ UNCHANGED Link!linkVars
BY ConstAssumption DEF TeardownEdgeConnectionLocked, CloseConns, Link!Detach, TypeOK,
   Link!linkVars

\* A step that changes neither the table nor a call's connection or outcome is
\* no step of the link.
LEMMA LinkStutter ==
    ASSUME UNCHANGED <<edge, done, target, outcome>>
    PROVE  UNCHANGED Link!linkVars
BY DEF Link!linkVars

\* A call that returns after its lookup finishes once.
LEMMA ReturnIsFinish ==
    ASSUME TypeOK, CallInv, NEW r \in Requests,
           NEW how \in {"answer", "send_error", "timeout", "conn_closed"},
           pc[r] \in {"registered", "waiting"},
           Return(r, how), UNCHANGED <<edge, done, target>>
    PROVE  Link!Finish(r, EndOf(how))
<1>1. outcome[r] = "none" /\ target[r] # NoConn
  BY ConstAssumption DEF CallInv
<1>2. outcome' = [outcome EXCEPT ![r] = how]
  BY DEF Return
<1>3. EndOf("none") = "none"
  BY DEF EndOf
<1>4. [q \in Requests |-> EndOf(outcome[q])]'
        = [[q \in Requests |-> EndOf(outcome[q])] EXCEPT ![r] = EndOf(how)]
  BY <1>2 DEF TypeOK
<1> QED
  BY <1>1, <1>3, <1>4 DEF Link!Finish

\* EdgeManager implements AgentLink: a retired connection never serves again,
\* a call stays with the connection it was made on, and ends once.
THEOREM Refinement == Spec => ImplementsLink
<1>1. Init => Link!Init
  BY DEF Init, Link!Init, EndOf
<1>2. TypeOK /\ ConnInv /\ RpcInv /\ [Next]_vars => [Link!Next]_(Link!linkVars)
  <2> SUFFICES ASSUME TypeOK, ConnInv, RpcInv, [Next]_vars
               PROVE  Link!Next \/ UNCHANGED Link!linkVars
    OBVIOUS
  <2>0. CallInv
    BY DEF RpcInv
  <2>1. ASSUME NEW i \in Instances, NEW c \in Conns, RegisterEdgeConnection(i, c)
        PROVE Link!Next
    <3>1. c \notin done /\ \A j \in Instances : edge[j] # c
      BY <2>1, ConstAssumption DEF RegisterEdgeConnection, ConnInv
    <3>2. Link!Attach(i, c)
      BY <2>1, <3>1 DEF RegisterEdgeConnection, CloseConns, Link!Attach, callVars
    <3> QED
      BY <3>2 DEF Link!Next
  <2>2. ASSUME Close PROVE Link!Next
    <3>1. Link!Detach(Instances)
      BY <2>2 DEF Close, LiveConns, CloseConns, Link!Detach, callVars
    <3> QED
      BY <3>1 DEF Link!Next
  <2>3. ASSUME NEW c \in Conns, owner[c] # NoConn, TeardownEdgeConnectionLocked(c),
               UNCHANGED <<target, outcome>>
        PROVE Link!Next \/ UNCHANGED Link!linkVars
    <3>1. {owner[c]} \in SUBSET Instances
      BY <2>3 DEF TypeOK
    <3> QED
      BY <2>3, <3>1, TeardownIsDetach DEF Link!Next
  <2>4. ASSUME NEW i \in Instances, UnregisterEdgeConnection(i)
        PROVE Link!Next \/ UNCHANGED Link!linkVars
    <3>1. edge[i] \in Conns /\ owner[edge[i]] # NoConn
      BY <2>4, ConstAssumption DEF UnregisterEdgeConnection, ConnInv, TypeOK
    <3> QED
      BY <2>3, <2>4, <3>1 DEF UnregisterEdgeConnection, callVars
  <2>5. ASSUME NEW c \in Conns, UnregisterOwnConnection(c)
        PROVE Link!Next \/ UNCHANGED Link!linkVars
    <3>1. owner[c] # NoConn
      BY <2>5 DEF UnregisterOwnConnection, ConnInv
    <3> QED
      BY <2>3, <2>5, <3>1 DEF UnregisterOwnConnection, callVars
  <2>6. ASSUME NEW r \in Requests, NEW i \in Instances, LookupConn(r, i)
        PROVE Link!Next
    <3> USE <2>6 DEF LookupConn, connVars
    <3>1. outcome[r] = "none" /\ target[r] = NoConn
      BY <2>0 DEF CallInv
    <3>2. CASE edge[i] = NoConn
      <4>1. outcome' = [outcome EXCEPT ![r] = "no_conn"]
        BY <3>2
      <4>2. [q \in Requests |-> EndOf(outcome[q])]'
              = [[q \in Requests |-> EndOf(outcome[q])] EXCEPT ![r] = "failed"]
        BY <4>1 DEF TypeOK, EndOf
      <4>3. EndOf(outcome[r]) = "none"
        BY <3>1 DEF EndOf
      <4>4. Link!Finish(r, "failed")
        BY <3>2, <4>2, <4>3 DEF Link!Finish
      <4> QED
        BY <4>4 DEF Link!Next
    <3>3. CASE edge[i] # NoConn
      <4>1. Link!Call(r, i)
        BY <3>1, <3>3 DEF Link!Call, EndOf
      <4> QED
        BY <4>1 DEF Link!Next
    <3> QED
      BY <3>2, <3>3
  <2>7. ASSUME NEW r \in Requests,
               WriteFails(r) \/ ReceiveResponse(r) \/ RequestTimeout(r) \/ ConnDone(r)
        PROVE Link!Next
    <3>1. PICK how \in {"answer", "send_error", "timeout", "conn_closed"} :
             /\ pc[r] \in {"registered", "waiting"}
             /\ Return(r, how)
             /\ UNCHANGED <<edge, done, target>>
      BY <2>7 DEF WriteFails, ReceiveResponse, RequestTimeout, ConnDone, connVars
    <3>2. EndOf(how) \in {"answered", "failed"}
      BY DEF EndOf
    <3> QED
      BY <2>0, <3>1, <3>2, ReturnIsFinish DEF Link!Next
  <2>8. ASSUME \/ \E c \in Conns : RouteResponse(c) \/ ReadFails(c) \/ ConnBreaks(c)
               \/ \E r \in Requests : AddPending(r) \/ WriteRequest(r) \/ RemovePending(r)
               \/ \E c \in Conns, r \in Requests : AgentReplies(c, r)
               \/ UNCHANGED vars
        PROVE UNCHANGED Link!linkVars
    BY <2>8, LinkStutter
       DEF RouteResponse, ReadFails, ConnBreaks, AddPending, WriteRequest,
           RemovePending, AgentReplies, vars, connVars, callVars
  <2> QED
    BY <2>1, <2>2, <2>4, <2>5, <2>6, <2>7, <2>8 DEF Next, Admin, ReadLoop, CallSteps
<1>3. QED
  BY <1>1, <1>2, Typing, Retirement, Routing, PTL DEF Spec, ImplementsLink, Link!Spec

-----------------------------------------------------------------------------
(* The handlers of agent_ws.go and the requests of administrators *)

\* Where a handler is tells which instance its connection belongs to, and a
\* handler stops waiting only when its own connection is retired.
HandlerInv ==
    \A c \in Conns :
        /\ hpc[c] # "idle" => hinst[c] \in Instances
        /\ owner[c] = IF hpc[c] \in {"idle", "verified"} THEN NoConn ELSE hinst[c]
        /\ hpc[c] = "waiting" => hwait[c] \in Conns /\ (hwait[c] = c \/ c \in done)
        /\ hpc[c] \in {"return", "returned"} => c \in done
        /\ held[c] # "none" => hpc[c] \in DbStages

\* A request that is under way has an instance, and a record only where it
\* will save it.
AdminInv ==
    \A a \in Admins :
        /\ apc[a] \notin {"idle", "over"} => ainst[a] \in Instances
        /\ held[a] # "none" => apc[a] \in AdminDbStages

\* Whoever holds Manager.mu is a teardown that has removed its connection.
MuInv ==
    /\ NoSuccessorBeforeOffline
    /\ mu \in Admins => apc[mu] = "tearing"
    /\ mu \in Conns => owner[mu] \in Instances

\* The instances of which an agent was registered.
Served == {owner[c] : c \in Conns} \ {NoConn}

\* A record, or a copy of it that will be saved, is online only with an agent.
OnlineInv ==
    /\ \A i \in Instances \ Direct : db[i] = "online" => i \in Served
    /\ \A a \in Admins :
          /\ ainst[a] \in Instances \ Direct
          /\ held[a] = "online" \/ apc[a] \in {"test", "testseen"}
          => ainst[a] \in Served

\* The inductive invariant.
IInv == TypeInv /\ ConnInv /\ HandlerInv /\ AdminInv /\ MuInv /\ OnlineInv

-----------------------------------------------------------------------------

\* A connection that is done is closed and is nobody's live connection.
LEMMA DoneIsClosed ==
    ASSUME TypeOK, ConnInv, NEW c \in Conns, c \in done
    PROVE  c \in closed /\ \A i \in Instances : edge[i] # c
<1>1. owner[c] # NoConn
  BY DEF ConnInv
<1>2. edge[owner[c]] # c
  BY <1>1 DEF ConnInv, LiveOrRetired
<1> QED
  BY <1>1, <1>2, ConstAssumption DEF ConnInv, LiveOrRetired, TypeOK

\* A step of AgentConnect is a step of EdgeManager or leaves it alone.
LEMMA StepIsManagerStep == IInv /\ [ConnectNext]_allVars => [Next]_vars
<1> SUFFICES ASSUME IInv, [ConnectNext]_allVars PROVE Next \/ UNCHANGED vars
  OBVIOUS
<1> USE DEF IInv
<1>1. ASSUME ManagerStep PROVE Next
  BY <1>1 DEF ManagerStep, Next, ReadLoop
<1>2. ASSUME NEW c \in Conns, ReadLoopCleanup(c) PROVE Next
  BY <1>2 DEF ReadLoopCleanup, Next, ReadLoop
<1>3. ASSUME NEW c \in Conns, ConnectRegister(c) PROVE Next
  <2>1. hinst[c] \in Instances
    BY <1>3 DEF ConnectRegister, HandlerInv
  <2> QED
    BY <1>3, <2>1 DEF ConnectRegister, Next
<1>4. ASSUME NEW a \in Admins, DeleteDisconnects(a) PROVE Next
  <2>1. ainst[a] \in Instances
    BY <1>4 DEF DeleteDisconnects, AdminInv
  <2> QED
    BY <1>4, <2>1 DEF DeleteDisconnects, Next, Admin
<1>5. ASSUME NEW c \in Conns, HandlerReturns(c) PROVE UNCHANGED vars
  <2>1. c \in closed
    BY <1>5, DoneIsClosed DEF HandlerReturns, HandlerInv, TypeInv
  <2> QED
    BY <1>5, <2>1 DEF HandlerReturns, vars, connVars
<1>6. ASSUME \/ TeardownSave
             \/ \E c \in Conns :
                   \/ VerifyAgentToken(c) \/ HandlerGet(c) \/ HandlerSave(c)
                   \/ HostInfoLookup(c) \/ HostInfoDone(c)
                   \/ WaitForDisconnect(c) \/ HandlerWakes(c)
             \/ \E a \in Admins :
                   \/ \E i \in Instances :
                         DeleteRequest(a, i) \/ EditRequest(a, i) \/ TestRequest(a, i)
                   \/ DeleteFindsNoConn(a) \/ DeleteErases(a)
                   \/ AdminGet(a) \/ AdminSave(a)
             \/ UNCHANGED allVars
      PROVE UNCHANGED vars
  BY <1>6 DEF TeardownSave, VerifyAgentToken, HandlerGet, HandlerSave, HostInfoLookup,
     HostInfoDone, WaitForDisconnect, HandlerWakes, DeleteRequest, EditRequest,
     TestRequest, DeleteFindsNoConn, DeleteErases, AdminGet, AdminSave, allVars
<1> QED
  BY <1>1, <1>2, <1>3, <1>4, <1>5, <1>6 DEF ConnectNext, Handler, AdminStep

-----------------------------------------------------------------------------

\* The steps of a handler keep the types of AgentConnect's own variables.
LEMMA HandlerTypes ==
    ASSUME IInv, TypeOK', NEW c \in Conns, Handler(c)
    PROVE  TypeInv'
<1> USE DEF IInv, TypeInv, HandlerInv, Statuses, DbStages, HandlerPCs, Procs,
            AfterStage, GoTo, managerVars, adminVars, handlerVars
<1>1. CASE VerifyAgentToken(c)
  BY <1>1 DEF VerifyAgentToken
<1>2. CASE ConnectRegister(c)
  BY <1>2 DEF ConnectRegister
<1>3. CASE HandlerGet(c)
  BY <1>3 DEF HandlerGet
<1>4. CASE HandlerSave(c)
  BY <1>4 DEF HandlerSave
<1>5. CASE HostInfoLookup(c) \/ HostInfoDone(c)
  BY <1>5 DEF HostInfoLookup, HostInfoDone
<1>6. CASE WaitForDisconnect(c)
  <2>1. c \in Conns /\ hinst[c] \in Instances
    BY <1>6 DEF WaitForDisconnect
  <2>2. edge[hinst[c]] \in Conns \union {NoConn}
    BY <2>1 DEF TypeOK
  <2>3. hwait' \in [Conns -> Conns \union {NoConn}]
    BY <1>6, <2>2 DEF WaitForDisconnect
  <2>4. hpc' \in [Conns -> HandlerPCs]
    BY <1>6 DEF WaitForDisconnect
  <2> QED
    BY <1>6, <2>3, <2>4 DEF WaitForDisconnect
<1>7. CASE HandlerWakes(c) \/ HandlerReturns(c)
  BY <1>7 DEF HandlerWakes, HandlerReturns
<1> QED
  BY <1>1, <1>2, <1>3, <1>4, <1>5, <1>6, <1>7 DEF Handler

\* So do the steps of a request.
LEMMA AdminTypes ==
    ASSUME IInv, TypeOK', NEW a \in Admins, AdminStep(a)
    PROVE  TypeInv'
<1> USE DEF IInv, TypeInv, AdminInv, Statuses, AdminPCs, AdminDbStages, Procs,
            AfterAdminStage, AdminGoTo, AdminStart, managerVars, adminVars, handlerVars
<1>1. ASSUME NEW i \in Instances, DeleteRequest(a, i) PROVE TypeInv'
  BY <1>1 DEF DeleteRequest
<1>2. ASSUME NEW i \in Instances, EditRequest(a, i) PROVE TypeInv'
  BY <1>2 DEF EditRequest
<1>3. ASSUME NEW i \in Instances, TestRequest(a, i) PROVE TypeInv'
  BY <1>3 DEF TestRequest
<1>4. CASE DeleteDisconnects(a)
  <2>1. mu' \in Procs \union {NoConn} /\ muSnap' \in Statuses \union {"absent"}
    <3>1. owner[edge[ainst[a]]] \in Instances
      BY <1>4, ConstAssumption
         DEF DeleteDisconnects, UnregisterEdgeConnection, ConnInv, TypeOK
    <3> QED
      BY <1>4, <3>1 DEF DeleteDisconnects, LockedTeardown
  <2> QED
    BY <1>4, <2>1 DEF DeleteDisconnects
<1>5. CASE DeleteFindsNoConn(a) \/ DeleteErases(a)
  BY <1>5 DEF DeleteFindsNoConn, DeleteErases
<1>6. CASE AdminGet(a)
  BY <1>6 DEF AdminGet
<1>7. CASE AdminSave(a)
  BY <1>7 DEF AdminSave
<1> QED
  BY <1>1, <1>2, <1>3, <1>4, <1>5, <1>6, <1>7 DEF AdminStep

\* And so does every step.
LEMMA TypesStep == IInv /\ [ConnectNext]_allVars => TypeInv'
<1> SUFFICES ASSUME IInv, [ConnectNext]_allVars PROVE TypeInv'
  OBVIOUS
<1>1. TypeOK'
  BY StepIsManagerStep, TypingStep DEF IInv, TypeInv
<1> USE <1>1 DEF IInv, TypeInv, managerVars, handlerVars, adminVars, Statuses, Procs
<1>2. CASE ManagerStep
  BY <1>2 DEF ManagerStep
<1>3. CASE TeardownSave
  BY <1>3 DEF TeardownSave, AdminPCs
<1>4. ASSUME NEW c \in Conns, ReadLoopCleanup(c) PROVE TypeInv'
  <2>1. owner[c] \in Instances
    BY <1>4 DEF ReadLoopCleanup, UnregisterOwnConnection, ConnInv, TypeOK
  <2>2. mu' \in Procs \union {NoConn} /\ muSnap' \in Statuses \union {"absent"}
    BY <1>4, <2>1 DEF ReadLoopCleanup, LockedTeardown
  <2> QED
    BY <1>4, <2>2 DEF ReadLoopCleanup
<1>5. CASE UNCHANGED allVars
  BY <1>5 DEF allVars
<1> QED
  BY <1>2, <1>3, <1>4, <1>5, HandlerTypes, AdminTypes DEF ConnectNext

-----------------------------------------------------------------------------

\* A connection keeps the instance it was registered for, and stays done.
LEMMA OwnerAndDoneStay ==
    ASSUME TypeOK, ConnInv, [Next]_vars
    PROVE  /\ done \subseteq done'
           /\ \A c \in Conns : owner[c] # NoConn => owner'[c] = owner[c]
<1>1. ASSUME NEW i \in Instances, NEW c \in Conns, RegisterEdgeConnection(i, c)
      PROVE  /\ done \subseteq done'
             /\ \A d \in Conns : owner[d] # NoConn => owner'[d] = owner[d]
  <2>1. owner[c] = NoConn
    BY <1>1 DEF RegisterEdgeConnection, ConnInv
  <2> QED
    BY <1>1, <2>1 DEF RegisterEdgeConnection, CloseConns, TypeOK
<1>2. ASSUME \/ Close
             \/ \E i \in Instances : UnregisterEdgeConnection(i)
             \/ \E c \in Conns : UnregisterOwnConnection(c)
      PROVE  done \subseteq done' /\ owner' = owner
  BY <1>2 DEF Close, UnregisterEdgeConnection, UnregisterOwnConnection,
     TeardownEdgeConnectionLocked, CloseConns
<1>3. ASSUME \/ \E c \in Conns : RouteResponse(c) \/ ReadFails(c) \/ ConnBreaks(c)
             \/ \E r \in Requests, i \in Instances : LookupConn(r, i)
             \/ \E r \in Requests : CallSteps(r) \/ RequestTimeout(r)
             \/ \E c \in Conns, r \in Requests : AgentReplies(c, r)
             \/ UNCHANGED vars
      PROVE  done' = done /\ owner' = owner
  BY <1>3 DEF RouteResponse, ReadFails, ConnBreaks, LookupConn, CallSteps, AddPending,
     WriteRequest, WriteFails, ReceiveResponse, ConnDone, RemovePending,
     RequestTimeout, AgentReplies, vars, connVars
<1> QED
  BY <1>1, <1>2, <1>3 DEF Next, Admin, ReadLoop

\* Steps that leave the handlers alone preserve HandlerInv.
LEMMA HandlerFrame ==
    ASSUME HandlerInv, done \subseteq done',
           UNCHANGED <<owner, hpc, hinst, hwait>>,
           \A c \in Conns : held'[c] = held[c]
    PROVE  HandlerInv'
BY DEF HandlerInv

\* What HandlerInv says of one connection.
HandlerInvOf(c) ==
    /\ hpc[c] # "idle" => hinst[c] \in Instances
    /\ owner[c] = IF hpc[c] \in {"idle", "verified"} THEN NoConn ELSE hinst[c]
    /\ hpc[c] = "waiting" => hwait[c] \in Conns /\ (hwait[c] = c \/ c \in done)
    /\ hpc[c] \in {"return", "returned"} => c \in done
    /\ held[c] # "none" => hpc[c] \in DbStages

\* A step of one handler preserves the invariant of the others.
LEMMA OtherHandlers ==
    ASSUME IInv, done \subseteq done', NEW c \in Conns, NEW d \in Conns, c # d,
           Handler(c)
    PROVE  HandlerInvOf(d)'
<1> USE DEF IInv, TypeInv, TypeOK, HandlerInv, HandlerInvOf, GoTo, handlerVars, Procs
<1>1. CASE ConnectRegister(c)
  BY <1>1 DEF ConnectRegister, RegisterEdgeConnection
<1>2. CASE VerifyAgentToken(c) \/ HostInfoLookup(c) \/ HostInfoDone(c)
           \/ WaitForDisconnect(c) \/ HandlerWakes(c)
  BY <1>2 DEF VerifyAgentToken, HostInfoLookup, HostInfoDone, WaitForDisconnect,
     HandlerWakes, vars, connVars
<1>3. CASE HandlerGet(c) \/ HandlerSave(c)
  BY <1>3 DEF HandlerGet, HandlerSave, vars, connVars
<1>4. CASE HandlerReturns(c)
  BY <1>4 DEF HandlerReturns
<1> QED
  BY <1>1, <1>2, <1>3, <1>4 DEF Handler

\* And its own.
LEMMA OwnHandler ==
    ASSUME IInv, done \subseteq done', NEW c \in Conns, Handler(c)
    PROVE  HandlerInvOf(c)'
<1> USE DEF IInv, TypeInv, HandlerInv, HandlerInvOf, GoTo, handlerVars, Procs, DbStages
<1>1. CASE VerifyAgentToken(c)
  BY <1>1 DEF VerifyAgentToken, vars, connVars
<1>2. CASE ConnectRegister(c)
  BY <1>2 DEF ConnectRegister, RegisterEdgeConnection, TypeOK
<1>3. CASE HandlerGet(c)
  BY <1>3 DEF HandlerGet, AfterStage, vars, connVars
<1>4. CASE HandlerSave(c)
  BY <1>4 DEF HandlerSave, AfterStage, vars, connVars
<1>5. CASE HostInfoLookup(c) \/ HostInfoDone(c)
  BY <1>5 DEF HostInfoLookup, HostInfoDone, vars, connVars
<1>6. CASE WaitForDisconnect(c)
  <2>1. owner[c] = hinst[c] /\ hinst[c] \in Instances /\ hinst[c] # NoConn
    BY <1>6, ConstAssumption DEF WaitForDisconnect
  <2>2. edge[hinst[c]] \in Conns \union {NoConn}
    BY <2>1 DEF TypeOK
  <2>3. edge[hinst[c]] # c => c \in done
    BY <2>1 DEF ConnInv, LiveOrRetired
  <2> QED
    BY <1>6, <2>1, <2>2, <2>3, ConstAssumption DEF WaitForDisconnect, vars, connVars
<1>7. CASE HandlerWakes(c) \/ HandlerReturns(c)
  BY <1>7 DEF HandlerWakes, HandlerReturns, vars, connVars
<1> QED
  BY <1>1, <1>2, <1>3, <1>4, <1>5, <1>6, <1>7 DEF Handler

\* Where a handler is goes on telling what its connection is.
LEMMA HandlersStep == IInv /\ [ConnectNext]_allVars => HandlerInv'
<1> SUFFICES ASSUME IInv, [ConnectNext]_allVars PROVE HandlerInv'
  OBVIOUS
<1>1. done \subseteq done'
  BY StepIsManagerStep, OwnerAndDoneStay DEF IInv, TypeInv
<1>2. ASSUME NEW c \in Conns, Handler(c) PROVE HandlerInv'
  <2>1. \A d \in Conns : HandlerInvOf(d)'
    BY <1>1, <1>2, OtherHandlers, OwnHandler
  <2> QED
    BY <2>1 DEF HandlerInv, HandlerInvOf
<1>3. ASSUME NEW a \in Admins, AdminStep(a) PROVE HandlerInv'
  <2>1. UNCHANGED <<owner, hpc, hinst, hwait>>
    BY <1>3 DEF AdminStep, DeleteRequest, EditRequest, TestRequest, DeleteDisconnects,
       UnregisterEdgeConnection, DeleteFindsNoConn, DeleteErases, AdminGet, AdminSave,
       handlerVars, vars, connVars
  <2>2. \A c \in Conns : held'[c] = held[c]
    BY <1>3, ConnectAssumption DEF AdminStep, DeleteRequest, EditRequest, TestRequest,
       DeleteDisconnects, DeleteFindsNoConn, DeleteErases, AdminGet, AdminSave,
       IInv, TypeInv, Procs
  <2> QED
    BY <1>1, <2>1, <2>2, HandlerFrame DEF IInv
<1>4. ASSUME \/ ManagerStep
             \/ TeardownSave
             \/ \E c \in Conns : ReadLoopCleanup(c)
             \/ UNCHANGED allVars
      PROVE HandlerInv'
  <2>1. UNCHANGED <<owner, hpc, hinst, hwait, held>>
    BY <1>4 DEF ManagerStep, ReadFails, ConnBreaks, TeardownSave, ReadLoopCleanup,
       UnregisterOwnConnection, handlerVars, allVars, vars, connVars
  <2> QED
    BY <1>1, <2>1, HandlerFrame DEF IInv
<1> QED
  BY <1>2, <1>3, <1>4 DEF ConnectNext

-----------------------------------------------------------------------------

\* A request that is under way keeps its instance, and a record only where it
\* will save it.
LEMMA AdminsStep == IInv /\ [ConnectNext]_allVars => AdminInv'
<1> SUFFICES ASSUME IInv, [ConnectNext]_allVars PROVE AdminInv'
  OBVIOUS
<1> USE DEF IInv, TypeInv, AdminInv, Procs, AdminDbStages, managerVars, adminVars
<1>1. ASSUME NEW a \in Admins, AdminStep(a) PROVE AdminInv'
  <2> USE DEF AdminGoTo, AdminStart, AfterAdminStage
  <2>1. ASSUME NEW i \in Instances,
               DeleteRequest(a, i) \/ EditRequest(a, i) \/ TestRequest(a, i)
        PROVE AdminInv'
    BY <2>1 DEF DeleteRequest, EditRequest, TestRequest
  <2>2. CASE DeleteDisconnects(a) \/ DeleteFindsNoConn(a) \/ DeleteErases(a)
    BY <2>2 DEF DeleteDisconnects, DeleteFindsNoConn, DeleteErases
  <2>3. CASE AdminGet(a)
    BY <2>3 DEF AdminGet
  <2>4. CASE AdminSave(a)
    BY <2>4 DEF AdminSave
  <2> QED
    BY <1>1, <2>1, <2>2, <2>3, <2>4 DEF AdminStep
<1>2. ASSUME NEW c \in Conns, Handler(c) PROVE AdminInv'
  <2>1. UNCHANGED adminVars /\ \A a \in Admins : held'[a] = held[a]
    BY <1>2, ConnectAssumption
       DEF Handler, VerifyAgentToken, ConnectRegister, HandlerGet, HandlerSave,
           HostInfoLookup, HostInfoDone, WaitForDisconnect, HandlerWakes, HandlerReturns
  <2> QED
    BY <2>1
<1>3. CASE TeardownSave
  BY <1>3 DEF TeardownSave, MuInv
<1>4. ASSUME \/ ManagerStep
             \/ \E c \in Conns : ReadLoopCleanup(c)
             \/ UNCHANGED allVars
      PROVE AdminInv'
  BY <1>4 DEF ManagerStep, ReadLoopCleanup, allVars
<1> QED
  BY <1>1, <1>2, <1>3, <1>4 DEF ConnectNext

\* While mu is held nobody registers or tears down a connection, and the
\* request that holds it stays where it is.
LEMMA MuStep == IInv /\ [ConnectNext]_allVars => MuInv'
<1> SUFFICES ASSUME IInv, [ConnectNext]_allVars PROVE MuInv'
  OBVIOUS
<1> USE DEF IInv, TypeInv, MuInv, NoSuccessorBeforeOffline, MuFree, managerVars
<1>1. CASE TeardownSave
  BY <1>1, ConnectAssumption, ConstAssumption DEF TeardownSave
<1>2. ASSUME NEW c \in Conns, ReadLoopCleanup(c) PROVE MuInv'
  <2>1. owner[c] \in Instances /\ owner' = owner /\ c \notin Admins
    BY <1>2, ConnectAssumption
       DEF ReadLoopCleanup, UnregisterOwnConnection, ConnInv, TypeOK
  <2>2. CASE edge[owner[c]] = c
    BY <1>2, <2>1, <2>2
       DEF ReadLoopCleanup, UnregisterOwnConnection, LockedTeardown,
           TeardownEdgeConnectionLocked, TypeOK
  <2>3. CASE edge[owner[c]] # c
    BY <1>2, <2>1, <2>3, ConnectAssumption, ConstAssumption
       DEF ReadLoopCleanup, LockedTeardown
  <2> QED
    BY <2>2, <2>3
<1>3. ASSUME NEW c \in Conns, Handler(c) PROVE MuInv'
  <2>1. CASE ConnectRegister(c)
    BY <2>1, ConnectAssumption, ConstAssumption DEF ConnectRegister
  <2>2. CASE ~ConnectRegister(c)
    <3>1. UNCHANGED <<edge, owner, mu, apc, ainst>>
      BY <1>3, <2>2
         DEF Handler, VerifyAgentToken, HandlerGet, HandlerSave, HostInfoLookup,
             HostInfoDone, WaitForDisconnect, HandlerWakes, HandlerReturns, adminVars,
             vars, connVars
    <3> QED
      BY <3>1
  <2> QED
    BY <2>1, <2>2
<1>4. ASSUME NEW a \in Admins, AdminStep(a) PROVE MuInv'
  <2> USE DEF AdminGoTo, AdminStart
  <2>1. CASE DeleteDisconnects(a)
    <3>1. ainst[a] \in Instances
      BY <2>1 DEF DeleteDisconnects, AdminInv
    <3>2. edge[ainst[a]] # NoConn /\ owner[edge[ainst[a]]] = ainst[a]
      BY <2>1, <3>1 DEF DeleteDisconnects, UnregisterEdgeConnection, ConnInv
    <3>3. /\ mu' = a /\ ainst' = ainst /\ apc' = [apc EXCEPT ![a] = "tearing"]
          /\ edge' = [edge EXCEPT ![ainst[a]] = NoConn]
      BY <2>1, <3>2
         DEF DeleteDisconnects, UnregisterEdgeConnection, LockedTeardown,
             TeardownEdgeConnectionLocked
    <3> QED
      BY <3>1, <3>3, ConnectAssumption DEF TypeOK
  <2>2. CASE ~DeleteDisconnects(a)
    <3>1. UNCHANGED <<edge, owner, mu>>
      BY <1>4, <2>2
         DEF AdminStep, DeleteRequest, EditRequest, TestRequest, DeleteFindsNoConn,
             DeleteErases, AdminGet, AdminSave, vars, connVars
    <3>2. apc[a] # "tearing"
      BY <1>4, <2>2
         DEF AdminStep, DeleteRequest, EditRequest, TestRequest, DeleteFindsNoConn,
             DeleteErases, AdminGet, AdminSave, AdminDbStages
    <3>3. \A b \in Admins : b # a => apc'[b] = apc[b] /\ ainst'[b] = ainst[b]
      BY <1>4, <2>2
         DEF AdminStep, DeleteRequest, EditRequest, TestRequest, DeleteFindsNoConn,
             DeleteErases, AdminGet, AdminSave, adminVars
    <3> QED
      BY <3>1, <3>2, <3>3
  <2> QED
    BY <2>1, <2>2
<1>5. CASE ManagerStep
  BY <1>5 DEF ManagerStep, ReadFails, ConnBreaks, adminVars
<1>6. CASE UNCHANGED allVars
  BY <1>6 DEF allVars, vars, connVars, adminVars
<1> QED
  BY <1>1, <1>2, <1>3, <1>4, <1>5, <1>6 DEF ConnectNext

\* A step that saves no "online" and starts no test keeps the records honest.
LEMMA OnlineFrame ==
    ASSUME OnlineInv,
           Served \subseteq Served',
           \A i \in Instances : db'[i] = "online" => db[i] = "online" \/ i \in Served,
           UNCHANGED <<apc, ainst>>,
           \A a \in Admins : held'[a] = held[a]
    PROVE  OnlineInv'
BY DEF OnlineInv

\* What is online, or will be saved as online, has had an agent.
LEMMA OnlineStep == IInv /\ [ConnectNext]_allVars => OnlineInv'
<1> SUFFICES ASSUME IInv, [ConnectNext]_allVars PROVE OnlineInv'
  OBVIOUS
<1>0. Served \subseteq Served'
  <2>1. \A c \in Conns : owner[c] # NoConn => owner'[c] = owner[c]
    BY StepIsManagerStep, OwnerAndDoneStay DEF IInv, TypeInv
  <2> QED
    BY <2>1, ConstAssumption DEF Served
<1> USE ConstAssumption DEF IInv, TypeInv, Procs
<1>1. ASSUME NEW c \in Conns, Handler(c) PROVE OnlineInv'
  <2>1. \A i \in Instances : db'[i] = "online" => db[i] = "online" \/ i \in Served
    <3>1. CASE HandlerSave(c)
      <4>1. hinst[c] \in Instances /\ owner[c] = hinst[c]
        BY <3>1 DEF HandlerSave, HandlerInv, DbStages
      <4> QED
        BY <3>1, <4>1 DEF HandlerSave, Served
    <3>2. CASE ~HandlerSave(c)
      BY <1>1, <3>2
         DEF Handler, VerifyAgentToken, ConnectRegister, HandlerGet, HostInfoLookup,
             HostInfoDone, WaitForDisconnect, HandlerWakes, HandlerReturns
    <3> QED
      BY <3>1, <3>2
  <2>2. UNCHANGED <<apc, ainst>> /\ \A a \in Admins : held'[a] = held[a]
    BY <1>1, ConnectAssumption
       DEF Handler, VerifyAgentToken, ConnectRegister, HandlerGet, HandlerSave,
           HostInfoLookup, HostInfoDone, WaitForDisconnect, HandlerWakes,
           HandlerReturns, adminVars
  <2> QED
    BY <1>0, <2>1, <2>2, OnlineFrame
<1>2. ASSUME NEW a \in Admins, AdminStep(a) PROVE OnlineInv'
  <2> USE DEF OnlineInv, AdminInv, AdminGoTo, AdminStart,
              AfterAdminStage, AdminDbStages, adminVars
  <2>1. ASSUME NEW i \in Instances, DeleteRequest(a, i) \/ EditRequest(a, i)
        PROVE OnlineInv'
    BY <1>0, <2>1 DEF DeleteRequest, EditRequest
  <2>2. ASSUME NEW i \in Instances, TestRequest(a, i) PROVE OnlineInv'
    <3>1. ASSUME i \notin Direct PROVE i \in Served
      <4>1. edge[i] \in Conns /\ owner[edge[i]] = i
        BY <2>2, <3>1 DEF TestRequest, HasClient, ConnInv, TypeOK
      <4> QED
        BY <4>1 DEF Served
    <3> QED
      BY <1>0, <2>2, <3>1 DEF TestRequest
  <2>3. CASE DeleteDisconnects(a) \/ DeleteFindsNoConn(a) \/ DeleteErases(a)
    BY <1>0, <2>3 DEF DeleteDisconnects, DeleteFindsNoConn, DeleteErases
  <2>4. CASE AdminGet(a)
    BY <1>0, <2>4 DEF AdminGet
  <2>5. CASE AdminSave(a)
    BY <1>0, <2>5 DEF AdminSave
  <2> QED
    BY <1>2, <2>1, <2>2, <2>3, <2>4, <2>5 DEF AdminStep
<1>3. CASE TeardownSave
  BY <1>0, <1>3 DEF TeardownSave, OnlineInv
<1>4. ASSUME \/ ManagerStep
             \/ \E c \in Conns : ReadLoopCleanup(c)
             \/ UNCHANGED allVars
      PROVE OnlineInv'
  <2>1. UNCHANGED <<db, apc, ainst, held>>
    BY <1>4 DEF ManagerStep, ReadLoopCleanup, allVars, adminVars
  <2> QED
    BY <1>0, <2>1, OnlineFrame
<1> QED
  BY <1>1, <1>2, <1>3, <1>4 DEF ConnectNext

-----------------------------------------------------------------------------

\* Before any agent or administrator asks, all of it holds.
LEMMA ConnectStarts == ConnectInit => IInv
<1> SUFFICES ASSUME ConnectInit PROVE IInv
  OBVIOUS
<1>1. TypeOK /\ ConnInv
  BY TypingInit, RetirementInit DEF ConnectInit
<1>2. TypeInv
  BY <1>1 DEF ConnectInit, TypeInv, Statuses, HandlerPCs, AdminPCs, Procs
<1>3. HandlerInv /\ AdminInv /\ MuInv /\ OnlineInv
  BY <1>2, ConnectAssumption, ConstAssumption
     DEF ConnectInit, Init, HandlerInv, AdminInv, MuInv, OnlineInv,
         NoSuccessorBeforeOffline, Procs
<1> QED
  BY <1>1, <1>2, <1>3 DEF IInv

\* The invariants of this module, together with those of EdgeManager, are
\* inductive.
THEOREM ConnectInvariant == ConnectSpec => []IInv
<1>1. IInv /\ [ConnectNext]_allVars => IInv'
  <2> SUFFICES ASSUME IInv, [ConnectNext]_allVars PROVE IInv'
    OBVIOUS
  <2>1. ConnInv'
    BY StepIsManagerStep, RetirementStep DEF IInv, TypeInv
  <2> QED
    BY <2>1, TypesStep, HandlersStep, AdminsStep, MuStep, OnlineStep DEF IInv
<1> QED
  BY <1>1, ConnectStarts, PTL DEF ConnectSpec

\* Type correctness of the connection's life.
THEOREM ConnectTyping == ConnectSpec => []TypeInv
<1>1. IInv => TypeInv
  BY DEF IInv
<1> QED
  BY <1>1, ConnectInvariant, PTL

\* No teardown marks an instance offline that has been reconnected meanwhile:
\* nobody can register while the write that teardown began is under way.
THEOREM SuccessorsWait == ConnectSpec => []NoSuccessorBeforeOffline
<1>1. IInv => NoSuccessorBeforeOffline
  BY DEF IInv, MuInv
<1> QED
  BY <1>1, ConnectInvariant, PTL

\* No handler returns, and so closes its socket, while its connection serves.
THEOREM HandlersOutlive == ConnectSpec => []HandlerOutlivesConn
<1>1. IInv => HandlerOutlivesConn
  BY DoneIsClosed DEF IInv, TypeInv, HandlerInv, HandlerOutlivesConn
<1> QED
  BY <1>1, ConnectInvariant, PTL

\* No edge instance is shown online before one of its agents was registered,
\* whatever stale record the handlers and the administrator write back.
THEOREM OnlineIsEarned == ConnectSpec => []OnlineNeedsAgent
<1>1. IInv => OnlineNeedsAgent
  BY ConstAssumption DEF IInv, OnlineInv, OnlineNeedsAgent, Served
<1> QED
  BY <1>1, ConnectInvariant, PTL

\* The manager with its database, its handlers and the administrator is still
\* the manager of module EdgeManager, so that whatever is proved of its Spec
\* holds here as well.
THEOREM ManagerRefinement == ConnectSpec => ImplementsManager
<1>1. ConnectInit => Init
  BY DEF ConnectInit
<1> QED
  BY <1>1, StepIsManagerStep, ConnectInvariant, PTL
     DEF ConnectSpec, ImplementsManager, Spec

=============================================================================
