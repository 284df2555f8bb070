----------------------------- MODULE StackLock -----------------------------
(***************************************************************************)
(* internal/composecli/composecli.go, TryLock and Unlock: the lock under   *)
(* which every `docker compose` operation on a stack runs (stackRun,       *)
(* StackUpdate and StackDelete of docker/stack_store.go, StackUpStreamed   *)
(* of composecli/bridge.go).  All of them have the same shape: TryLock,    *)
(* return an error when it fails, else defer Unlock, run compose, return.  *)
(*                                                                         *)
(* The model is one stack: stackLocks is a sync.Map and entries of other   *)
(* stack names do not interact.  Each call on the map and each critical    *)
(* section of stackLock.mu is one action.  TryLock allocates a stackLock   *)
(* on every call, so an object is named by the operation that allocated it.*)
(***************************************************************************)
CONSTANTS
    Ops,         \* operations on the stack, each called once
    NoLock       \* no entry in stackLocks

ASSUME LockAssumption == NoLock \notin Ops

VARIABLES
    entry,       \* stackLocks[stack]
    held,        \* the objects whose held field is true
    heldC,       \* the heldC channel of each object
    pc,          \* where each operation is
    lk           \* the object an operation has loaded

lockVars == <<entry, held, heldC, pc, lk>>

PCs == {"idle", "loaded", "running", "ending", "unlocking", "evicting", "over"}

\* Closing a nil or a closed channel panics.
ChannelStates == {"nil", "open", "closed", "panic"}

\* An operation that works on an object has one: the others would dereference nil.
TypeOK ==
    /\ entry \in Ops \union {NoLock}
    /\ held \in SUBSET Ops
    /\ heldC \in [Ops -> ChannelStates]
    /\ pc \in [Ops -> PCs]
    /\ lk \in [Ops -> Ops \union {NoLock}]
    /\ \A p \in Ops : pc[p] \in {"loaded", "running", "unlocking", "evicting"} => lk[p] # NoLock

Init ==
    /\ entry = NoLock
    /\ held = {}
    /\ heldC = [l \in Ops |-> "nil"]
    /\ pc = [p \in Ops |-> "idle"]
    /\ lk = [p \in Ops |-> NoLock]

GoTo(p, place) == pc' = [pc EXCEPT ![p] = place]

(***************************************************************************)
(* TryLock                                                                 *)
(***************************************************************************)

\* LoadOrStore: the entry there is, or else a new one.
LoadOrStore(p) ==
    /\ pc[p] = "idle"
    /\ entry' = IF entry = NoLock THEN p ELSE entry
    /\ lk' = [lk EXCEPT ![p] = entry']
    /\ GoTo(p, "loaded")
    /\ UNCHANGED <<held, heldC>>

\* Under l.mu: the object is free, and now held.
Acquire(p) ==
    /\ pc[p] = "loaded"
    /\ lk[p] \notin held
    /\ held' = held \union {lk[p]}
    /\ heldC' = [heldC EXCEPT ![lk[p]] = "open"]
    /\ GoTo(p, "running")
    /\ UNCHANGED <<entry, lk>>

\* Under l.mu: the object is held; the operation answers "another operation
\* is already running" without calling Unlock.
Refuse(p) ==
    /\ pc[p] = "loaded"
    /\ lk[p] \in held
    /\ GoTo(p, "over")
    /\ UNCHANGED <<entry, held, heldC, lk>>

(***************************************************************************)
(* The operation itself                                                    *)
(***************************************************************************)

\* Mutant: an operation that fails returns before Unlock is deferred.
ReturnWithoutUnlock(p) ==
    /\ pc[p] = "running"
    /\ \E place \in {"ending", "over"} : GoTo(p, place)
    /\ UNCHANGED <<entry, held, heldC, lk>>

\* Compose has run or has failed: the deferred Unlock is next.
Return(p) ==
    /\ pc[p] = "running"
    /\ GoTo(p, "ending")
    /\ UNCHANGED <<entry, held, heldC, lk>>

(***************************************************************************)
(* Unlock                                                                  *)
(***************************************************************************)

\* Load: the entry there is now, or nothing to do.
LoadEntry(p) ==
    /\ pc[p] = "ending"
    /\ IF entry = NoLock
       THEN GoTo(p, "over") /\ UNCHANGED lk
       ELSE GoTo(p, "unlocking") /\ lk' = [lk EXCEPT ![p] = entry]
    /\ UNCHANGED <<entry, held, heldC>>

CloseChannel(l) ==
    heldC' = [heldC EXCEPT ![l] = IF heldC[l] = "open" THEN "closed" ELSE "panic"]

\* Mutant: the channel is closed whether the object is held or not.
ReleaseUnguarded(p) ==
    /\ pc[p] = "unlocking"
    /\ held' = held \ {lk[p]}
    /\ CloseChannel(lk[p])
    /\ GoTo(p, "evicting")
    /\ UNCHANGED <<entry, lk>>

\* Under l.mu: an object that is not held is left alone.
Release(p) ==
    /\ pc[p] = "unlocking"
    /\ IF lk[p] \notin held
       THEN GoTo(p, "over") /\ UNCHANGED <<held, heldC>>
       ELSE /\ held' = held \ {lk[p]}
            /\ CloseChannel(lk[p])
            /\ GoTo(p, "evicting")
    /\ UNCHANGED <<entry, lk>>

\* Mutant: the entry stays in the map.
KeepEntry(p) ==
    /\ pc[p] = "evicting"
    /\ GoTo(p, "over")
    /\ UNCHANGED <<entry, held, heldC, lk>>

\* CompareAndDelete: the entry goes if it is still the object released.
Evict(p) ==
    /\ pc[p] = "evicting"
    /\ entry' = IF entry = lk[p] THEN NoLock ELSE entry
    /\ GoTo(p, "over")
    /\ UNCHANGED <<held, heldC, lk>>

-----------------------------------------------------------------------------

Step(p) ==
    \/ LoadOrStore(p)
    \/ Acquire(p)
    \/ Refuse(p)
    \/ Return(p)
    \/ LoadEntry(p)
    \/ Release(p)
    \/ Evict(p)

Next == \E p \in Ops : Step(p)

Spec == Init /\ [][Next]_lockVars

(***************************************************************************)
(* Properties                                                              *)
(***************************************************************************)

\* Operation p has acquired the object and not yet given it back.
Holds(p, l) ==
    /\ lk[p] = l
    /\ pc[p] \in {"running", "ending", "unlocking"}

\* No Unlock closes a channel that is nil or already closed, although an
\* Unlock may find the object of another operation in the map.
NoPanic == \A l \in Ops : heldC[l] # "panic"

\* A stack whose lock is held is held on behalf of an operation that will
\* still unlock it: no sequence of races leaves the stack locked for ever.
NoLockout ==
    entry # NoLock /\ entry \in held => \E p \in Ops : Holds(p, entry)

\* Unlock "evicts the entry so long-running servers don't accumulate one map
\* entry per stack": no entry outlives the operations that use it.
NoLeak ==
    entry # NoLock => \E p \in Ops : pc[p] \notin {"idle", "over"} /\ lk[p] = entry
=============================================================================
