--------------------------- MODULE DeployStream ----------------------------
(***************************************************************************)
(* One deploy session (docker/deploy_stream.go), from its creation to its  *)
(* removal from DeployManager: the goroutine that runs the deploy and      *)
(* emits events, and the WebSocket readers of handleDeployStreamWS         *)
(* (server/routes_helpers.go), each with a subscription of its own.        *)
(*                                                                         *)
(* There are four kinds of producer, two per handler:                      *)
(*   "stack"       handleDeployStack, or handleInstanceDeployStack on the  *)
(*                 panel's own host, around StackUpStreamed;               *)
(*   "agentstack"  handleInstanceDeployStack on a direct or edge instance, *)
(*                 whose DeployStackStreamed relays the agent's events;    *)
(*   "app"         POST /deploy/stream on the panel's own host, around     *)
(*                 docker.Client.DeployComposeStreamed;                    *)
(*   "agentapp"    the same on a direct or edge instance, whose            *)
(*                 DeployComposeStreamed relays the agent's events.        *)
(*                                                                         *)
(* An event is its position in the session's history; of its text only     *)
(* what kind of event it is matters.  Every critical section of subsMu is  *)
(* one action.  Names that module Services has too carry "Stream", so that *)
(* a module can extend both.                                               *)
(***************************************************************************)
EXTENDS Naturals, Sequences, FiniteSets, Functions

CONSTANTS
    Readers,     \* WebSocket readers, each of which connects once
    Producers,   \* the kinds of producer considered
    MaxLines,    \* bound: progress lines that one run may emit
    Slack        \* room in a subscription beyond the replay; 64 in the code

ASSUME StreamAssumption ==
    /\ Producers \subseteq {"stack", "agentstack", "app", "agentapp"}
    /\ MaxLines \in Nat
    /\ Slack \in Nat \ {0}

VARIABLES
    producer,    \* the kind of producer
    ppc,         \* where the producer is
    result,      \* how the deploy went
    listed,      \* the session is in DeployManager.sessions
    history,     \* DeploySession.history
    closed,      \* DeploySession.closed
    subs,        \* DeploySession.subs
    dropped,     \* DeploySession.dropped
    rpc,         \* where each reader is
    buf,         \* what is in each subscription channel
    room,        \* the capacity of each channel
    chan,        \* "none", "open", "closed", or "panic"
    got          \* what was written to each reader's WebSocket

producerVars == <<producer, ppc, result, listed>>
sessionVars == <<history, closed, subs, dropped>>
channelVars == <<buf, room, chan>>
readerVars == <<rpc, got>>
streamVars == <<producerVars, sessionVars, channelVars, readerVars>>

EventKinds == {"line", "error", "done"}

\* Everything that was sent to reader r's channel.
Seen(r) == got[r] \o buf[r]

\* A channel holds no more than its capacity: a replay that did not fit would
\* block Subscribe while it holds subsMu.
StreamTypeOK ==
    /\ producer \in Producers
    /\ ppc \in {"start", "run", "close", "final", "timer", "removed"}
    /\ result \in {"none", "refused", "failed", "ok", "panicked"}
    /\ listed \in BOOLEAN
    /\ history \in Seq(EventKinds)
    /\ closed \in BOOLEAN
    /\ subs \in SUBSET Readers
    /\ dropped \in Nat
    /\ rpc \in [Readers -> {"idle", "found", "reading", "ending", "losing",
                            "ended", "lost", "refused"}]
    /\ buf \in [Readers -> Seq(DOMAIN history)]
    /\ got \in [Readers -> Seq(DOMAIN history)]
    /\ room \in [Readers -> Nat]
    /\ \A r \in Readers : Len(buf[r]) <= room[r]
    /\ chan \in [Readers -> {"none", "open", "closed", "panic"}]

StreamInit ==
    /\ producer \in Producers
    /\ ppc = "start"
    /\ result = "none"
    /\ listed = TRUE
    /\ history = <<>>
    /\ closed = FALSE
    /\ subs = {}
    /\ dropped = 0
    /\ rpc = [r \in Readers |-> "idle"]
    /\ buf = [r \in Readers |-> <<>>]
    /\ got = [r \in Readers |-> <<>>]
    /\ room = [r \in Readers |-> 0]
    /\ chan = [r \in Readers |-> "none"]

(***************************************************************************)
(* DeploySession                                                           *)
(***************************************************************************)

\* Closing a closed channel panics.
CloseChannels(R) ==
    chan' = [r \in Readers |->
        IF r \notin R THEN chan[r] ELSE IF chan[r] = "open" THEN "closed" ELSE "panic"]

Full == {r \in subs : Len(buf[r]) = room[r]}

\* Mutant: events that do not fit are dropped without being counted.
EmitUncounted(event) ==
    /\ history' = Append(history, event)
    /\ buf' = [r \in Readers |->
          IF r \in subs \ Full THEN Append(buf[r], Len(history) + 1) ELSE buf[r]]
    /\ UNCHANGED <<closed, subs, dropped, room, chan, readerVars>>

\* EmitEvent: the event goes to the history and to every subscriber that has
\* room for it, also after Close.
Emit(event) ==
    /\ history' = Append(history, event)
    /\ buf' = [r \in Readers |->
          IF r \in subs \ Full THEN Append(buf[r], Len(history) + 1) ELSE buf[r]]
    /\ dropped' = dropped + Cardinality(Full)
    /\ UNCHANGED <<closed, subs, room, chan, readerVars>>

\* Close; a second call does nothing.
CloseSession ==
    /\ closed' = TRUE
    /\ IF closed
       THEN UNCHANGED <<subs, chan>>
       ELSE subs' = {} /\ CloseChannels(subs)
    /\ UNCHANGED <<history, dropped, buf, room, readerVars>>

NoEvent == UNCHANGED <<sessionVars, channelVars, readerVars>>

(***************************************************************************)
(* The producer                                                            *)
(***************************************************************************)

\* The producer goes on at a place, and its deploy has gone as told.
Produce(place, how) ==
    /\ ppc' = place
    /\ result' = how
    /\ UNCHANGED <<producer, listed>>

\* The handler of a stack deploy emits an event of its own and recovers a panic.
OfStack == producer \in {"stack", "agentstack"}

\* The deploy runs on an agent, and all events are the agent's.
Relay == producer \in {"agentstack", "agentapp"}

\* The place after the deploy call has returned: a client that does not close
\* the session leaves only its removal to do.
AfterRun == IF producer = "agentapp" THEN "timer" ELSE "close"

\* The deploy ends before its first event: the stack is busy, or the agent
\* cannot be reached or refuses.
Refuse ==
    /\ ppc = "start"
    /\ producer # "app"
    /\ Produce(AfterRun, "refused")
    /\ NoEvent

\* The first event, or the agent's answer to the request.
Start ==
    /\ ppc = "start"
    /\ Produce("run", "none")
    /\ IF Relay THEN NoEvent ELSE Emit("line")

\* A line of compose's output, a step of the deploy, or a relayed event.
Progress ==
    /\ ppc = "run"
    /\ Len(history) < MaxLines
    /\ Produce("run", "none")
    /\ \E event \in IF Relay THEN EventKinds ELSE {"line"} : Emit(event)

\* Mutant: the error is returned without being emitted.
RunFailsQuietly ==
    /\ ppc = "run"
    /\ producer # "agentstack"
    /\ Produce(AfterRun, "failed")
    /\ NoEvent

\* A run fails and says so (its hint is another event of the same kind); a relay
\* ends without an event of its own, that of a stack deploy always with success.
RunFails ==
    /\ ppc = "run"
    /\ producer # "agentstack"
    /\ Produce(AfterRun, "failed")
    /\ IF Relay THEN NoEvent ELSE Emit("error")

RunSucceeds ==
    /\ ppc = "run"
    /\ Produce(AfterRun, "ok")
    /\ IF Relay THEN NoEvent ELSE Emit("done")

\* Mutant: a panic ends the goroutine.
PanicUnrecovered ==
    /\ ppc = "run"
    /\ OfStack
    /\ CloseSession
    /\ Produce("removed", "panicked")

\* A panic of a stack deploy: the deferred Close, then the handler's recover.
Panic ==
    /\ ppc = "run"
    /\ OfStack
    /\ CloseSession
    /\ Produce("timer", "panicked")

\* The deferred Close of the deploy call; only stack handlers emit after it.
Finish ==
    /\ ppc = "close"
    /\ CloseSession
    /\ Produce(IF OfStack THEN "final" ELSE "timer", result)

\* The stack handler's last event.
FinalEvent ==
    /\ ppc = "final"
    /\ Emit(IF result = "ok" THEN "done" ELSE "error")
    /\ Produce("timer", result)

\* RemoveSession, 30 seconds later.
RemoveSession ==
    /\ ppc = "timer"
    /\ ppc' = "removed"
    /\ listed' = FALSE
    /\ UNCHANGED <<producer, result>>
    /\ NoEvent

(***************************************************************************)
(* A reader                                                                *)
(***************************************************************************)

GoTo(r, place) == rpc' = [rpc EXCEPT ![r] = place]

\* GetSession, before the upgrade to a WebSocket.
FindSession(r) ==
    /\ rpc[r] = "idle"
    /\ GoTo(r, IF listed THEN "found" ELSE "refused")
    /\ UNCHANGED <<producerVars, sessionVars, channelVars, got>>

\* The upgrade or the authentication fails.
RejectReader(r) ==
    /\ rpc[r] = "found"
    /\ GoTo(r, "refused")
    /\ UNCHANGED <<producerVars, sessionVars, channelVars, got>>

SubscribeWith(r, capacity) ==
    /\ rpc[r] = "found"
    /\ GoTo(r, "reading")
    /\ room' = [room EXCEPT ![r] = capacity]
    /\ buf' = [buf EXCEPT ![r] = [n \in 1..Len(history) |-> n]]
    /\ chan' = [chan EXCEPT ![r] = IF closed THEN "closed" ELSE "open"]
    /\ subs' = IF closed THEN subs ELSE subs \union {r}
    /\ UNCHANGED <<producerVars, history, closed, dropped, got>>

\* Subscribe: the history is replayed into a channel with room for more.
Subscribe(r) == SubscribeWith(r, Len(history) + Slack)

\* An event is taken from the channel and written to the WebSocket.
Deliver(r) ==
    /\ rpc[r] = "reading"
    /\ buf[r] # <<>>
    /\ buf' = [buf EXCEPT ![r] = Tail(buf[r])]
    /\ got' = [got EXCEPT ![r] = Append(got[r], Head(buf[r]))]
    /\ UNCHANGED <<producerVars, sessionVars, rpc, room, chan>>

\* The write fails and the reader gives up; what it has not written is lost.
WriteFails(r) ==
    /\ rpc[r] = "reading"
    /\ buf[r] # <<>>
    /\ GoTo(r, "losing")
    /\ buf' = [buf EXCEPT ![r] = Tail(buf[r])]
    /\ UNCHANGED <<producerVars, sessionVars, room, chan, got>>

\* The loop over the channel ends once it is closed and empty.
EndOfStream(r) ==
    /\ rpc[r] = "reading"
    /\ buf[r] = <<>>
    /\ chan[r] = "closed"
    /\ GoTo(r, "ending")
    /\ UNCHANGED <<producerVars, sessionVars, channelVars, got>>

Leave(r) ==
    /\ rpc[r] \in {"ending", "losing"}
    /\ GoTo(r, IF rpc[r] = "ending" THEN "ended" ELSE "lost")
    /\ subs' = subs \ {r}
    /\ UNCHANGED <<producerVars, history, closed, dropped, buf, room, got>>

\* Mutant: the channel is closed whether the session has closed it or not.
UnsubscribeUnchecked(r) == Leave(r) /\ CloseChannels({r})

\* The deferred Unsubscribe closes the channel of a reader that is still in subs.
Unsubscribe(r) == Leave(r) /\ CloseChannels(subs \intersect {r})

-----------------------------------------------------------------------------

Producer ==
    \/ Refuse
    \/ Start
    \/ Progress
    \/ RunFails
    \/ RunSucceeds
    \/ Panic
    \/ Finish
    \/ FinalEvent
    \/ RemoveSession

Reader(r) ==
    \/ FindSession(r)
    \/ RejectReader(r)
    \/ Subscribe(r)
    \/ Deliver(r)
    \/ WriteFails(r)
    \/ EndOfStream(r)
    \/ Unsubscribe(r)

StreamNext == Producer \/ \E r \in Readers : Reader(r)

StreamSpec == StreamInit /\ [][StreamNext]_streamVars

\* A producer that waits for the next event of an agent.
AwaitsAgent == Relay /\ ppc = "run"

\* A deploy on the panel's host ends: that of a stack has a deadline of 15
\* minutes, and the Docker calls of the others return.  A request to an agent
\* is answered or fails, but the events that follow may cease: nothing bounds
\* the read of a relay.  A reader's goroutine runs, and a write to its socket
\* succeeds or fails.
StreamFairness ==
    /\ WF_streamVars(~AwaitsAgent /\ Producer)
    /\ \A r \in Readers : WF_streamVars(Reader(r))

FairStreamSpec == StreamSpec /\ StreamFairness

(***************************************************************************)
(* Properties                                                              *)
(***************************************************************************)

\* Emit never sends on a closed channel, and neither Close nor Unsubscribe
\* closes a channel the other has closed: all three would panic.
NoPanic == \A r \in Readers : chan[r] # "panic" /\ (r \in subs => chan[r] = "open")

\* The events that a subscriber who reads was not sent.
Missed ==
    {x \in subs \X DOMAIN history : rpc[x[1]] = "reading" /\ x[2] \notin Range(Seen(x[1]))}

\* A reader gets the events in order and none twice, replay and live events
\* together; the replay, which is sent under subsMu, never waits for room; and the
\* events that subscribers miss are counted ("drops are no longer silent", audit M2).
LossIsCounted ==
    /\ \A r \in Readers : Len(buf[r]) <= room[r]
    /\ \A r \in Readers : \A m, n \in DOMAIN Seen(r) : m < n => Seen(r)[m] < Seen(r)[n]
    /\ Cardinality(Missed) <= dropped

\* A reader that followed the stream to its end knows of a run that failed.
FailedRunIsShown ==
    \A r \in Readers :
        rpc[r] = "ended" /\ result = "failed" /\ ~Relay /\ dropped = 0 =>
            \E n \in DOMAIN got[r] : history[got[r][n]] = "error"

\* The session of a deploy on the panel's host does not stay in DeployManager
\* ("never leaks the session", audit M4), not even after a panic, and its stream
\* ends for each of its readers.
LocalDeployEnds ==
    ~Relay => /\ <>(~listed)
              /\ \A r \in Readers : rpc[r] = "reading" ~> rpc[r] \in {"ended", "lost"}
=============================================================================
