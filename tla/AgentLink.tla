----------------------------- MODULE AgentLink -----------------------------
(***************************************************************************)
(* What the edge side of internal/agent promises its callers, without      *)
(* sockets, channels, goroutines or locks.                                 *)
(*                                                                         *)
(* Every instance has at most one link.  A link that is over never comes   *)
(* back.  A call is bound to the link that is current when the call is     *)
(* made, stays bound to it, and ends exactly once: with an answer that     *)
(* came over that very link, or with a failure.                            *)
(***************************************************************************)
CONSTANTS
    Instances,   \* edge-mode instances
    Conns,       \* WebSocket connections, each used once
    Requests,    \* SendEdgeRequest calls, each with a fresh request id
    NoConn       \* no link

VARIABLES
    link,        \* link[i]: the current link of instance i
    over,        \* links that are over
    bound,       \* bound[r]: the link call r was made on
    end          \* end[r]: how call r ended

linkVars == <<link, over, bound, end>>

Ends == {"none", "answered", "failed"}

Init ==
    /\ link = [i \in Instances |-> NoConn]
    /\ over = {}
    /\ bound = [r \in Requests |-> NoConn]
    /\ end = [r \in Requests |-> "none"]

\* A connection that was never used becomes the link; a link it replaces is over.
Attach(i, c) ==
    /\ c \notin over
    /\ \A j \in Instances : link[j] # c
    /\ link' = [link EXCEPT ![i] = c]
    /\ over' = over \union ({link[i]} \ {NoConn})
    /\ UNCHANGED <<bound, end>>

\* The links of a set of instances end.
Detach(I) ==
    /\ link' = [i \in Instances |-> IF i \in I THEN NoConn ELSE link[i]]
    /\ over' = over \union ({link[i] : i \in I} \ {NoConn})
    /\ UNCHANGED <<bound, end>>

\* A call is made over the current link of i.
Call(r, i) ==
    /\ end[r] = "none"
    /\ bound[r] = NoConn
    /\ link[i] # NoConn
    /\ bound' = [bound EXCEPT ![r] = link[i]]
    /\ UNCHANGED <<link, over, end>>

\* An answer needs a link the call was made on, a failure does not.
Finish(r, how) ==
    /\ end[r] = "none"
    /\ how = "answered" => bound[r] # NoConn
    /\ end' = [end EXCEPT ![r] = how]
    /\ UNCHANGED <<link, over, bound>>

Next ==
    \/ \E i \in Instances, c \in Conns : Attach(i, c)
    \/ \E I \in SUBSET Instances : Detach(I)
    \/ \E r \in Requests, i \in Instances : Call(r, i)
    \/ \E r \in Requests, how \in {"answered", "failed"} : Finish(r, how)

Spec == Init /\ [][Next]_linkVars
=============================================================================
