---------------------------- MODULE StacksProofs ----------------------------
(***************************************************************************)
(* The lock of a stack, for any number of operations and in any            *)
(* interleaving: no panic, no stack that stays locked, no entry left over. *)
(* Mutual exclusion is not among it: three operations break it, as the     *)
(* README tells.                                                           *)
(*                                                                         *)
(* Then the requests on a stack, for any number of requests and readers:   *)
(* they use the lock as module StackLock has it, so that all of that holds *)
(* of them too; and files and containers differ only for the reasons that  *)
(* the model names.                                                        *)
(***************************************************************************)
EXTENDS Stacks, TLAPS

-----------------------------------------------------------------------------
(* The lock *)

\* An object is held exactly while its channel is open.
ChannelInv == \A l \in Ops : heldC[l] # "panic" /\ (l \in held <=> heldC[l] = "open")

\* The object of an operation that has not called TryLock does not exist yet.
Fresh ==
    \A p \in Ops : pc[p] = "idle" =>
        p # entry /\ p \notin held /\ \A q \in Ops : lk[q] # p

\* An entry is about to be acquired, held, or about to be evicted.
Accounted ==
    entry # NoLock =>
        \/ \E p \in Ops : pc[p] = "loaded" /\ lk[p] = entry
        \/ entry \in held
        \/ \E p \in Ops : pc[p] = "evicting" /\ lk[p] = entry

LockInv == TypeOK /\ ChannelInv /\ Fresh /\ NoLockout /\ Accounted

\* Every variable keeps its type, and no operation works on a nil object
\* (TryLock and Unlock of composecli.go never dereference nil).
THEOREM Typing == Spec => []TypeOK
<1>1. Init => TypeOK
  BY LockAssumption DEF Init, TypeOK, PCs, ChannelStates
<1>2. TypeOK /\ [Next]_lockVars => TypeOK'
  <2> SUFFICES ASSUME TypeOK, [Next]_lockVars PROVE TypeOK'
    OBVIOUS
  <2> USE LockAssumption DEF TypeOK, PCs, ChannelStates, GoTo
  <2>1. CASE UNCHANGED lockVars
    BY <2>1 DEF lockVars
  <2>2. ASSUME NEW p \in Ops, Step(p) PROVE TypeOK'
    <3>1. CASE LoadOrStore(p)
      BY <3>1 DEF LoadOrStore
    <3>2. CASE Acquire(p)
      BY <3>2 DEF Acquire
    <3>3. CASE Refuse(p)
      BY <3>3 DEF Refuse
    <3>4. CASE Return(p)
      BY <3>4 DEF Return
    <3>5. CASE LoadEntry(p)
      BY <3>5 DEF LoadEntry
    <3>6. CASE Release(p)
      BY <3>6 DEF Release, CloseChannel
    <3>7. CASE Evict(p)
      BY <3>7 DEF Evict
    <3> QED
      BY <2>2, <3>1, <3>2, <3>3, <3>4, <3>5, <3>6, <3>7 DEF Step
  <2> QED
    BY <2>1, <2>2 DEF Next
<1> QED
  BY <1>1, <1>2, PTL DEF Spec

\* An Unlock closes only a channel that is open.
LEMMA ChannelStep ==
    ASSUME TypeOK, ChannelInv, NEW p \in Ops, Step(p)
    PROVE  ChannelInv'
<1> USE DEF TypeOK, ChannelInv, ChannelStates
<1>1. CASE Acquire(p)
  BY <1>1 DEF Acquire
<1>2. CASE Release(p)
  BY <1>2 DEF Release, CloseChannel
<1>3. CASE ~Acquire(p) /\ ~Release(p)
  BY <1>3 DEF Step, LoadOrStore, Refuse, Return, LoadEntry, Evict
<1> QED
  BY <1>1, <1>2, <1>3

\* The object of an idle operation is not stored, held or loaded by another.
LEMMA FreshStep ==
    ASSUME TypeOK, Fresh, NEW p \in Ops, Step(p)
    PROVE  Fresh'
<1> USE LockAssumption DEF TypeOK, Fresh, GoTo
<1>1. CASE LoadOrStore(p)
  BY <1>1 DEF LoadOrStore
<1>2. CASE Acquire(p)
  BY <1>2 DEF Acquire
<1>3. CASE Refuse(p) \/ Return(p)
  BY <1>3 DEF Refuse, Return
<1>4. CASE LoadEntry(p)
  BY <1>4 DEF LoadEntry
<1>5. CASE Release(p)
  BY <1>5 DEF Release
<1>6. CASE Evict(p)
  BY <1>6 DEF Evict
<1> QED
  BY <1>1, <1>2, <1>3, <1>4, <1>5, <1>6 DEF Step

\* A held entry keeps an operation that will unlock it: an operation whose
\* Unlock loads the entry takes that duty over, whoever acquired it.
LEMMA LockoutStep ==
    ASSUME TypeOK, Fresh, NoLockout, NEW p \in Ops, Step(p)
    PROVE  NoLockout'
<1> USE LockAssumption DEF TypeOK, NoLockout, Holds, GoTo
<1>1. CASE LoadOrStore(p)
  BY <1>1 DEF LoadOrStore, Fresh
<1>2. CASE Acquire(p)
  BY <1>2 DEF Acquire
<1>3. CASE Refuse(p)
  BY <1>3 DEF Refuse
<1>4. CASE Return(p)
  BY <1>4 DEF Return
<1>5. CASE LoadEntry(p)
  BY <1>5 DEF LoadEntry
<1>6. CASE Release(p)
  BY <1>6 DEF Release
<1>7. CASE Evict(p)
  BY <1>7 DEF Evict
<1> QED
  BY <1>1, <1>2, <1>3, <1>4, <1>5, <1>6, <1>7 DEF Step

\* An entry stays accounted for.
LEMMA AccountedStep ==
    ASSUME TypeOK, Accounted, NEW p \in Ops, Step(p)
    PROVE  Accounted'
<1> USE LockAssumption DEF TypeOK, Accounted, GoTo
<1>1. CASE LoadOrStore(p)
  BY <1>1 DEF LoadOrStore
<1>2. CASE Acquire(p)
  BY <1>2 DEF Acquire
<1>3. CASE Refuse(p)
  BY <1>3 DEF Refuse
<1>4. CASE Return(p)
  BY <1>4 DEF Return
<1>5. CASE LoadEntry(p)
  BY <1>5 DEF LoadEntry
<1>6. CASE Release(p)
  BY <1>6 DEF Release
<1>7. CASE Evict(p)
  BY <1>7 DEF Evict
<1> QED
  BY <1>1, <1>2, <1>3, <1>4, <1>5, <1>6, <1>7 DEF Step

\* The inductive invariant of the lock.
LEMMA LockInvariant == Spec => []LockInv
<1>1. Init => LockInv
  BY LockAssumption DEF Init, LockInv, TypeOK, PCs, ChannelStates, ChannelInv, Fresh,
                        NoLockout, Accounted
<1>2. LockInv /\ TypeOK' /\ [Next]_lockVars => LockInv'
  <2> SUFFICES ASSUME LockInv, TypeOK', [Next]_lockVars PROVE LockInv'
    OBVIOUS
  <2>1. CASE UNCHANGED lockVars
    BY <2>1 DEF lockVars, LockInv, TypeOK, ChannelInv, Fresh, NoLockout, Holds, Accounted
  <2>2. ASSUME NEW p \in Ops, Step(p) PROVE LockInv'
    BY <2>2, ChannelStep, FreshStep, LockoutStep, AccountedStep DEF LockInv
  <2> QED
    BY <2>1, <2>2 DEF Next
<1> QED
  BY <1>1, <1>2, Typing, PTL DEF Spec

\* The guard in Unlock ("close() panics in both cases") is enough: no
\* interleaving of TryLock and Unlock closes a channel twice or closes nil.
THEOREM NeverPanics == Spec => []NoPanic
<1>1. LockInv => NoPanic
  BY DEF LockInv, ChannelInv, NoPanic
<1> QED
  BY <1>1, LockInvariant, PTL

\* Whatever races Unlock loses, a stack whose lock is held has an operation
\* that will still unlock it, so no stack stays locked for ever.
THEOREM NeverLockedOut == Spec => []NoLockout
<1>1. LockInv => NoLockout
  BY DEF LockInv
<1> QED
  BY <1>1, LockInvariant, PTL

\* The map holds no entry of a stack nobody operates on (audit M3: "evicts the
\* entry so long-running servers don't accumulate one map entry per stack").
THEOREM NeverLeaks == Spec => []NoLeak
<1>1. LockInv => NoLeak
  BY DEF LockInv, NoLeak, NoLockout, Accounted, Holds
<1> QED
  BY <1>1, LockInvariant, PTL

-----------------------------------------------------------------------------
(* The requests on a stack *)

LEMMA FinishReturns ==
    ASSUME NEW p \in Ops, Finish(p) PROVE Step(p)
BY DEF Finish, Step

\* The compose runs: each keeps the lock or returns from the operation.
LEMMA OperateStep ==
    ASSUME NEW p \in Ops, Operate(p) PROVE Step(p) \/ UNCHANGED lockVars
<1>1. CASE RunStack(p)
  BY <1>1, FinishReturns DEF RunStack
<1>2. CASE InvalidateComposeLsCache(p)
  BY <1>2, FinishReturns DEF InvalidateComposeLsCache
<1>3. CASE UpdatePulls(p)
  BY <1>3, FinishReturns DEF UpdatePulls
<1>4. CASE UpdateLists(p)
  BY <1>4, FinishReturns DEF UpdateLists
<1>5. CASE UpdateFills(p)
  BY <1>5, FinishReturns DEF UpdateFills
<1>6. CASE DeleteDowns(p)
  BY <1>6 DEF DeleteDowns
<1>7. CASE DeleteRemoves(p)
  BY <1>7, FinishReturns DEF DeleteRemoves
<1> QED
  BY <1>1, <1>2, <1>3, <1>4, <1>5, <1>6, <1>7 DEF Operate

\* A step of an operation, a reader or the clock is a step of the lock, or does
\* not touch it.
LEMMA StackStepIsLockStep ==
    [StacksNext]_allVars => [Next]_lockVars
<1> SUFFICES ASSUME [StacksNext]_allVars PROVE [Next]_lockVars
  OBVIOUS
<1>1. CASE UNCHANGED allVars
  BY <1>1 DEF allVars
<1>2. ASSUME NEW p \in Ops, Save(p) PROVE UNCHANGED lockVars
  BY <1>2 DEF Save, SaveCheck, SaveCompose, SaveEnv, SaveFails
<1>3. ASSUME NEW p \in Ops, LockTaken(p) PROVE Step(p)
  BY <1>3 DEF LockTaken, Step
<1>4. ASSUME NEW p \in Ops, LockReleased(p) PROVE Step(p)
  BY <1>4 DEF LockReleased, Step
<1>5. ASSUME NEW r \in Readers, Read(r) PROVE UNCHANGED lockVars
  BY <1>5 DEF Read, ReadCached, ReadAsks, ReadFills
<1>6. CASE CacheExpires
  BY <1>6 DEF CacheExpires
<1> QED
  BY <1>1, <1>2, <1>3, <1>4, <1>5, <1>6, OperateStep DEF StacksNext, Next

\* The operations of docker/stack_store.go take and release the lock as
\* composecli.go has it, in whatever way their compose runs end.
THEOREM LockRefinement == StacksSpec => ImplementsLock
<1>1. StacksInit => Init
  BY DEF StacksInit
<1> QED
  BY <1>1, StackStepIsLockStep, PTL DEF StacksSpec, ImplementsLock, Spec

\* No request on a stack panics in Unlock, none leaves the stack locked for
\* ever, and no lock outlives the requests.
THEOREM StacksKeepLockSafe == StacksSpec => [](NoPanic /\ NoLockout /\ NoLeak)
BY LockRefinement, NeverPanics, NeverLockedOut, NeverLeaks, PTL DEF ImplementsLock
-----------------------------------------------------------------------------

\* Where an operation is while it holds the lock.
UnderLock == {"run", "drop", "list", "fill", "remove"}

\* The place of an operation in its work and in the lock agree.
StageInv == \A p \in Ops : stage[p] \in UnderLock => pc[p] = "running"

\* As long as no save failed or overlapped another, a save between its two
\* writes has written the compose file that is there.
FilesInv ==
    mishaps \cap {"half saved", "saves at once"} = {} =>
        /\ \A p \in Ops : stage[p] = "env" /\ dir => compose = p
        /\ dir /\ compose # env => \E p \in Ops : stage[p] = "env"

\* As long as no `down` failed and no two operations ran at once, a deletion
\* that is about to remove the files has removed the containers, and nobody
\* can start them again before it does.
OrphanInv ==
    mishaps \cap {"down failed", "two at once"} = {} =>
        /\ ~dir => ctr = "none"
        /\ \A p, q \in Ops : pc[p] = "running" /\ pc[q] = "running" => p = q
        /\ \A p \in Ops : stage[p] = "remove" => ctr = "none"

StacksInv == TypeInv /\ StageInv /\ FilesInv /\ OrphanInv

LEMMA StacksStart == StacksInit => StacksInv
BY StacksAssumption, LockAssumption
DEF StacksInit, StacksInv, TypeInv, StageInv, FilesInv, OrphanInv, UnderLock, Init, TypeOK,
    PCs, ChannelStates, Files, Containers, Kinds, RunKinds, SaveKinds, DeployKinds, Stages,
    FirstStage, Mishaps

\* A save does not touch the lock or the containers.
LEMMA SaveStep ==
    ASSUME StacksInv, NEW p \in Ops, Save(p)
    PROVE  StacksInv'
<1> USE StacksAssumption, LockAssumption
<1> USE DEF StacksInv, Move, Note, Stages
<1>1. TypeOK'
  BY DEF TypeInv, TypeOK, lockVars, Save, SaveCheck, SaveCompose, SaveEnv, SaveFails
<1>2. CASE SaveCheck(p)
  <2>1. TypeInv'
    BY <1>1, <1>2 DEF SaveCheck, TypeInv, fileVars, readVars, lockVars
  <2>2. StageInv' /\ FilesInv' /\ OrphanInv'
    BY ZenonT(30), <1>2 DEF SaveCheck, TypeInv, StageInv, FilesInv, OrphanInv, UnderLock, fileVars,
                readVars, lockVars
  <2> QED
    BY <2>1, <2>2
<1>3. CASE SaveCompose(p)
  <2>1. TypeInv'
    BY <1>1, <1>3 DEF SaveCompose, TypeInv, readVars, lockVars, Files, Mishaps
  <2>2. StageInv' /\ OrphanInv'
    BY <1>3 DEF SaveCompose, TypeInv, StageInv, OrphanInv, UnderLock, readVars, lockVars
  <2>3. FilesInv'
    BY <1>3 DEF SaveCompose, SavesAtOnce, TypeInv, FilesInv, Mishaps
  <2> QED
    BY <2>1, <2>2, <2>3
<1>4. CASE SaveEnv(p)
  <2>1. TypeInv'
    BY <1>1, <1>4 DEF SaveEnv, TypeInv, readVars, lockVars, Files, Mishaps
  <2>2. StageInv' /\ OrphanInv'
    BY <1>4 DEF SaveEnv, TypeInv, StageInv, OrphanInv, UnderLock, readVars, lockVars
  <2>3. FilesInv'
    BY <1>4 DEF SaveEnv, SavesAtOnce, TypeInv, FilesInv, Mishaps
  <2> QED
    BY <2>1, <2>2, <2>3
<1>5. CASE SaveFails(p)
  <2>1. TypeInv'
    BY <1>1, <1>5 DEF SaveFails, TypeInv, readVars, lockVars, Mishaps
  <2>2. StageInv' /\ FilesInv' /\ OrphanInv'
    BY <1>5 DEF SaveFails, TypeInv, StageInv, FilesInv, OrphanInv, UnderLock, readVars, lockVars
  <2> QED
    BY <2>1, <2>2
<1> QED
  BY <1>2, <1>3, <1>4, <1>5 DEF Save

\* Taking and releasing the lock touches neither files nor containers.
LEMMA LockStep ==
    ASSUME StacksInv, TypeOK', NEW p \in Ops, LockTaken(p) \/ LockReleased(p)
    PROVE  StacksInv'
<1> USE StacksAssumption, LockAssumption
<1> USE DEF StacksInv, Move, Note, Stages, GoTo
<1>1. CASE LockTaken(p)
  <2>1. /\ LoadOrStore(p) => pc' = [pc EXCEPT ![p] = "loaded"]
        /\ Refuse(p) => pc' = [pc EXCEPT ![p] = "over"]
    BY DEF LoadOrStore, Refuse
  <2>2. stage[p] = "lock" /\ \A q \in Ops : pc[q] = "running" <=> stage[q] \in UnderLock
    BY <1>1 DEF LockTaken, TypeInv, StageInv, UnderLock
  <2>3. \A q \in Ops : pc'[q] = "running" <=> stage'[q] \in UnderLock
    <3> USE DEF LockTaken, TypeInv, TypeOK, UnderLock
    <3>1. CASE LoadOrStore(p) /\ Move(p, "lock")
      BY ZenonT(30), <2>1, <2>2, <3>1
    <3>2. CASE Acquire(p) /\ Move(p, "run")
      BY <2>2, <3>2 DEF Acquire
    <3>3. CASE Refuse(p) /\ Move(p, "over")
      BY ZenonT(30), <2>1, <2>2, <3>3
    <3> QED
      BY <1>1, <3>1, <3>2, <3>3
  <2>4. stage' \in [Ops -> Stages] /\ mishaps' \subseteq Mishaps
    BY <1>1 DEF LockTaken, TypeInv, Mishaps
  <2>5. TypeInv' /\ StageInv'
    BY <1>1, <2>3, <2>4 DEF LockTaken, TypeInv, StageInv, UnderLock, fileVars, readVars
  <2>6. FilesInv'
    BY <1>1 DEF LockTaken, TypeInv, FilesInv, fileVars
  <2>7. ASSUME mishaps' \cap {"down failed", "two at once"} = {} PROVE OrphanInv'
    <3>1. \A q, r \in Ops : pc'[q] = "running" /\ pc'[r] = "running" => q = r
      <4> USE DEF TypeInv, TypeOK, OrphanInv
      <4>1. CASE Acquire(p) /\ Note("two at once", \E q \in Ops : pc[q] = "running")
        BY <2>7, <4>1 DEF Acquire
      <4>2. CASE (LoadOrStore(p) \/ Refuse(p)) /\ UNCHANGED mishaps
        BY <2>1, <2>7, <4>2
      <4> QED
        BY <1>1, <4>1, <4>2 DEF LockTaken
    <3>2. UNCHANGED <<dir, ctr>> /\ \A q \in Ops : stage'[q] = "remove" => stage[q] = "remove"
      BY <1>1 DEF LockTaken, TypeInv, fileVars
    <3>3. mishaps \cap {"down failed", "two at once"} = {}
      BY <1>1, <2>7 DEF LockTaken
    <3> QED
      BY <3>1, <3>2, <3>3 DEF OrphanInv
  <2> QED
    BY <2>5, <2>6, <2>7 DEF OrphanInv
<1>2. CASE LockReleased(p)
  <2>1. /\ pc[p] \in {"ending", "unlocking", "evicting"}
        /\ \E place \in {"over", "unlocking", "evicting"} : pc' = [pc EXCEPT ![p] = place]
    BY <1>2 DEF LockReleased, LoadEntry, Release, Evict
  <2>2. \A q \in Ops : pc'[q] = "running" <=> pc[q] = "running"
    BY <2>1 DEF TypeInv, TypeOK
  <2> QED
    BY <1>2, <2>2 DEF LockReleased, stackVars, fileVars, readVars, TypeInv, StageInv, FilesInv,
                      OrphanInv
<1> QED
  BY <1>1, <1>2

\* A compose run leaves known containers, none after a `down` that succeeded,
\* and needs a directory to leave others than there were.
LEMMA ComposeRunResult ==
    ASSUME TypeInv, NEW k \in Kinds, NEW ok \in BOOLEAN, ComposeRun(k, ok)
    PROVE  /\ ctr' \in Containers
           /\ ~dir => ctr' = ctr
           /\ k = "delete" /\ ok => ctr' = "none"
BY DEF ComposeRun, CanRun, After, TypeInv, Containers, Kinds, RunKinds, SaveKinds, DeployKinds

\* What the steps of an operation on compose do to the rest.
LEMMA OperateEffect ==
    ASSUME StacksInv, NEW p \in Ops, Operate(p)
    PROVE  /\ stage[p] \in UnderLock /\ UNCHANGED kind
           /\ \/ \E place \in UnderLock : Move(p, place) /\ UNCHANGED pc
              \/ Move(p, "over") /\ pc' = [pc EXCEPT ![p] = "ending"]
           /\ ctr' \in Containers /\ (~dir => ctr' = ctr)
           /\ cache' \in Containers \union {"expired"}
           /\ lsOut' \in [Ops \union Readers -> Containers] /\ UNCHANGED rpc
<1> USE DEF StacksInv, TypeInv, Finish, Return, GoTo, UnderLock, lockVars, readVars
<1>1. CASE RunStack(p)
  BY <1>1, ComposeRunResult DEF RunStack
<1>2. CASE InvalidateComposeLsCache(p)
  BY <1>2 DEF InvalidateComposeLsCache
<1>3. CASE UpdatePulls(p)
  BY <1>3 DEF UpdatePulls
<1>4. CASE UpdateLists(p) \/ UpdateFills(p)
  <2>1. \A seen : UpIfRunning(p, seen) => ctr' \in Containers /\ (~dir => ctr' = ctr)
    BY ComposeRunResult DEF UpIfRunning, Kinds
  <2>2. CASE UpdateLists(p)
    BY <2>1, <2>2 DEF UpdateLists
  <2>3. CASE UpdateFills(p)
    BY <2>1, <2>3 DEF UpdateFills
  <2> QED
    BY <1>4, <2>2, <2>3
<1>5. CASE DeleteDowns(p)
  BY <1>5, ComposeRunResult DEF DeleteDowns
<1>6. CASE DeleteRemoves(p)
  BY <1>6 DEF DeleteRemoves
<1> QED
  BY <1>1, <1>2, <1>3, <1>4, <1>5, <1>6 DEF Operate

\* What they do to the files: only RemoveAll touches them.
LEMMA OperateFiles ==
    ASSUME StacksInv, NEW p \in Ops, Operate(p)
    PROVE  \/ UNCHANGED fileVars /\ mishaps' \in {mishaps, mishaps \union {"down failed"}}
           \/ /\ stage[p] = "remove" /\ UNCHANGED ctr
              /\ \/ dir' = FALSE /\ compose' = NoLock /\ env' = NoLock /\ UNCHANGED mishaps
                 \/ /\ compose' \in {compose, NoLock} /\ env' \in {env, NoLock} /\ UNCHANGED dir
                    /\ mishaps' = mishaps \union {"half saved"}
BY DEF Operate, RunStack, InvalidateComposeLsCache, UpdatePulls, UpdateLists, UpdateFills,
       DeleteDowns, DeleteRemoves, Note

\* A deletion that goes on to remove the files has removed the containers, if
\* its `down` did not fail.
LEMMA OperateDowns ==
    ASSUME StacksInv, NEW p \in Ops, Operate(p), stage'[p] = "remove"
    PROVE  "down failed" \in mishaps' \/ ctr' = "none" \/ (~dir /\ UNCHANGED ctr)
<1>1. DeleteDowns(p)
  BY DEF Operate, RunStack, InvalidateComposeLsCache, UpdatePulls, UpdateLists, UpdateFills,
         DeleteRemoves, Finish, Move, StacksInv, TypeInv
<1> QED
  BY <1>1, ComposeRunResult DEF DeleteDowns, Note, StacksInv, TypeInv

LEMMA OperateKeeps ==
    ASSUME StacksInv, TypeOK', NEW p \in Ops, Operate(p)
    PROVE  StacksInv'
<1> USE StacksAssumption, LockAssumption DEF StacksInv
<1>1. PICK place \in UnderLock \union {"over"} :
         /\ stage' = [stage EXCEPT ![p] = place]
         /\ \/ place # "over" /\ UNCHANGED pc
            \/ place = "over" /\ pc' = [pc EXCEPT ![p] = "ending"]
  BY OperateEffect DEF Move, UnderLock
<1>2. stage[p] \in UnderLock /\ pc[p] = "running"
  BY OperateEffect DEF StageInv
<1>3. TypeInv'
  <2>1. ~dir' => compose' = NoLock /\ env' = NoLock
    BY OperateFiles DEF fileVars, TypeInv
  <2>2. dir' \in BOOLEAN /\ compose' \in Files /\ env' \in Files /\ mishaps' \subseteq Mishaps
    BY OperateFiles DEF fileVars, TypeInv, Files, Mishaps
  <2>3. stage' \in [Ops -> Stages]
    BY <1>1 DEF TypeInv, UnderLock, Stages
  <2>4. \A q \in Ops : pc'[q] = "running" => stage'[q] \in UnderLock
    BY <1>1 DEF TypeInv, TypeOK, UnderLock
  <2> QED
    BY <2>1, <2>2, <2>3, <2>4, OperateEffect DEF TypeInv, UnderLock
<1>4. StageInv'
  BY <1>1, <1>2 DEF StageInv, TypeInv, TypeOK, UnderLock
<1>5. FilesInv'
  <2>1. \A q \in Ops : stage'[q] = "env" <=> stage[q] = "env"
    BY <1>1, <1>2 DEF TypeInv, UnderLock
  <2>2. CASE UNCHANGED fileVars /\ mishaps' \in {mishaps, mishaps \union {"down failed"}}
    BY <2>1, <2>2 DEF FilesInv, fileVars
  <2>3. CASE dir' = FALSE
    BY <2>3 DEF FilesInv
  <2>4. CASE "half saved" \in mishaps'
    BY <2>4 DEF FilesInv
  <2> QED
    BY <2>2, <2>3, <2>4, OperateFiles
<1>6. OrphanInv'
  <2> SUFFICES ASSUME mishaps' \cap {"down failed", "two at once"} = {} PROVE OrphanInv'
    BY DEF OrphanInv
  <2>1. mishaps \cap {"down failed", "two at once"} = {}
    BY OperateFiles
  <2>2. \A q, r \in Ops : pc'[q] = "running" /\ pc'[r] = "running" => q = r
    BY <1>1, <2>1 DEF OrphanInv, TypeInv, TypeOK
  <2>3. ~dir' => ctr' = "none"
    BY <2>1, OperateFiles, OperateEffect DEF OrphanInv, fileVars
  <2>4. ASSUME NEW q \in Ops, stage'[q] = "remove" PROVE ctr' = "none"
    <3>1. pc[q] = "running"
      BY <1>1, <1>2, <2>4 DEF StageInv, TypeInv, UnderLock
    <3>2. q = p
      BY <1>2, <2>1, <3>1 DEF OrphanInv
    <3> QED
      BY <2>1, <2>4, <3>2, OperateDowns DEF OrphanInv
  <2> QED
    BY <2>2, <2>3, <2>4 DEF OrphanInv
<1> QED
  BY <1>3, <1>4, <1>5, <1>6

\* A client that lists the stacks touches only the cache and its own answer.
LEMMA ReadStep ==
    ASSUME StacksInv, (\E r \in Readers : Read(r)) \/ CacheExpires
    PROVE  StacksInv'
<1>1. /\ UNCHANGED <<lockVars, fileVars, ctr, kind, stage, mishaps>>
      /\ cache' \in Containers \union {"expired"}
      /\ rpc' \in [Readers -> {"idle", "fill"}]
      /\ lsOut' \in [Ops \union Readers -> Containers]
  BY DEF StacksInv, TypeInv, Read, ReadCached, ReadAsks, ReadFills, CacheExpires, readVars
<1> QED
  BY <1>1 DEF StacksInv, TypeInv, TypeOK, StageInv, FilesInv, OrphanInv, lockVars, fileVars

\* The inductive invariant of the stacks.
LEMMA StacksInvariant == StacksSpec => []StacksInv
<1>1. StacksInv /\ TypeOK' /\ [StacksNext]_allVars => StacksInv'
  <2> SUFFICES ASSUME StacksInv, TypeOK', [StacksNext]_allVars PROVE StacksInv'
    OBVIOUS
  <2>1. CASE UNCHANGED allVars
    BY <2>1 DEF allVars, stackVars, lockVars, fileVars, readVars, StacksInv, TypeInv, TypeOK,
                StageInv, FilesInv, OrphanInv
  <2> QED
    BY <2>1, SaveStep, LockStep, OperateKeeps, ReadStep DEF StacksNext
<1> QED
  BY <1>1, StacksStart, LockRefinement, Typing, PTL DEF StacksSpec, ImplementsLock

\* Every variable keeps its type, a stack without a directory has no files,
\* and an operation that holds the lock is in its compose part.
THEOREM StacksTyping == StacksSpec => []TypeInv
<1>1. StacksInv => TypeInv
  BY DEF StacksInv
<1> QED
  BY <1>1, StacksInvariant, PTL

\* StackDelete (stack_store.go) leaves containers without files behind only if
\* its `down` failed, which it ignores, or the lock let two operations in.
THEOREM OrphansExplained == StacksSpec => []OrphanHasCause
<1>1. StacksInv => OrphanHasCause
  BY DEF StacksInv, OrphanInv, OrphanHasCause
<1> QED
  BY <1>1, StacksInvariant, PTL

\* SaveStack (stack_store.go) leaves a compose.yaml and a .env of different
\* saves behind only if a save or a removal failed half-way or two overlapped.
THEOREM FilesExplained == StacksSpec => []FilesMatch
<1>1. StacksInv => FilesMatch
  BY DEF StacksInv, FilesInv, FilesMatch
<1> QED
  BY <1>1, StacksInvariant, PTL

=============================================================================
