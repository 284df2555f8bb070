-------------------------- MODULE AutoUpdateProofs --------------------------
(***************************************************************************)
(* For any number of attempts, services and releases: what the record of   *)
(* an attempt says is so, the cooldown holds however the triggers          *)
(* interleave, and no record of an attempt that is over stays unfinished   *)
(* without a reason.                                                       *)
(*                                                                         *)
(* The argument is the mutex of the app: between its TryLock and its       *)
(* return an attempt is the only one that makes records, moves the tag or  *)
(* replaces containers, toggles apart (StepFrame), so what it has reached  *)
(* so far stays.                                                           *)
(***************************************************************************)
EXTENDS AutoUpdate, FiniteSetTheorems, TLAPS

\* Before an attempt has a record, and where it holds the mutex.
Before == {"idle", "queued", "try", "check", "plan"}
Held == {"check", "plan", "pull", "fetch", "create", "replace", "again", "start", "list", "probe"}
Deploying == {"fetch", "create", "replace", "again", "start"}
Creating == {"create", "replace", "again", "start"}

Worker(x) == kind[x] # "toggle"

\* An attempt with a record that is over has finished it, or failed to save it.
PlaceAt(x) ==
    /\ x \in Autos => kind[x] = "auto"
    /\ ~Worker(x) => pc[x] \in Deploying \union {"idle", "over", "killed"} /\ store[x] = "none"
    /\ pc[x] \in Before => store[x] = "none"
    /\ pc[x] \in Creating => cur(x) \in todo(x)
    /\ pc[x] \in {"list", "probe"} => ~back(x)
    /\ pc[x] = "over" => store[x] \in Terminal \union {"none"} \/ x \in lost

MutexAt(x) == Worker(x) /\ pc[x] \in Held => mutex = x

\* An automatic attempt that has passed the cooldown's check would pass it again.
CoolAt(x) == kind[x] = "auto" /\ pc[x] = "plan" /\ x \notin blind => ~Cooling

\* The host has nothing newer than its tag, nor the tag than the registry has.
NewestInv ==
    /\ tag <= remote
    /\ \A s \in Services : ctr[s].img <= tag
    /\ \A x \in Attempts, s \in Services : prev(x)[s] # NoDigest => prev(x)[s] <= tag

\* The image that an update has pulled is no older than what ran before.
PulledAt(x) ==
    Worker(x) /\ ~back(x) /\ pc[x] \in {"create", "replace", "again"} =>
        \A s \in Services : prev(x)[s] # NoDigest => prev(x)[s] <= tag

\* Service s is as attempt x should leave it.
Good(x, s) ==
    /\ ctr[s].id = x
    /\ prev(x)[s] # NoDigest => IF back(x) THEN ctr[s].img = prev(x)[s] ELSE prev(x)[s] <= ctr[s].img

\* What the loop of a deploy is through with is as it should be.
DoneAt(x) ==
    ~Toggled /\ Worker(x) =>
        /\ pc[x] \in Deploying => \A s \in Services \ todo(x) : Good(x, s)
        /\ pc[x] = "start" => Good(x, cur(x))
        /\ pc[x] \in {"list", "probe"} => \A s \in Services : Good(x, s)

PlaceInv == \A x \in Attempts : PlaceAt(x)
MutexInv == \A x \in Attempts : MutexAt(x)
CoolInv == \A x \in Attempts : CoolAt(x)
PulledInv == \A x \in Attempts : PulledAt(x)
DoneInv == \A x \in Attempts : DoneAt(x)

FiniteInv == IsFiniteSet(sem) /\ IsFiniteSet(lost)

-----------------------------------------------------------------------------
(* What a step of an attempt touches *)

\* What attempt x does.
AttemptStep(x) == Trigger(x) \/ SetAppAutoUpdate(x) \/ Step(x)

\* Nothing of the other attempts but the mutex that was free or its own.
Frame(x) ==
    /\ kind' = kind /\ remote' = remote
    /\ \A y \in Attempts \ {x} :
          /\ pc'[y] = pc[y] /\ run'[y] = run[y] /\ store'[y] = store[y]
          /\ y \in lost <=> y \in lost'
          /\ y \in blind <=> y \in blind'
    /\ mutex' \in {mutex, None, x}
    /\ mutex \in {mutex', None, x}

LEMMA StepFrame ==
    ASSUME TypeOK, NEW x \in Attempts, AttemptStep(x) PROVE Frame(x)
<1> USE DEF TypeOK
<1>1. CASE Trigger(x)
  BY <1>1 DEF Trigger, Goto, Frame, hostVars, recVars, coolVars
<1>2. CASE SetAppAutoUpdate(x)
  BY <1>2 DEF SetAppAutoUpdate, Goto, Loop, Frame, hostVars, recVars, coolVars
<1>3. CASE AcquireSem(x)
  BY <1>3 DEF AcquireSem, Goto, Frame, hostVars, recVars, coolVars
<1>4. CASE TryLock(x)
  BY <1>4 DEF TryLock, Goto, Leave, Frame, hostVars, recVars, coolVars
<1>5. CASE Cooldown(x)
  BY <1>5 DEF Cooldown, Goto, Leave, Fault, Frame, hostVars, recVars, coolVars
<1>6. CASE Skip(x)
  BY <1>6 DEF Skip, Leave, Goto, MayFail, Fault, Frame, hostVars, recVars, coolVars
<1>7. CASE Begin(x)
  BY <1>7 DEF Begin, Goto, AppendEvent, SaveAppUpdate, Fault, Frame, hostVars, recVars, coolVars
<1>8. CASE Pull(x)
  BY <1>8 DEF Pull, Goto, Loop, AppendEvent, SaveAppUpdate, Frame, hostVars, recVars, coolVars
<1>9. CASE PullFails(x)
  BY <1>9 DEF PullFails, Leave, Goto, AppendEvent, SaveAppUpdate, MayFail, Fault, Frame, hostVars,
     recVars, coolVars
<1>10. CASE Create(x)
  BY <1>10 DEF Create, Goto, CreateContainer, Frame, hostVars, recVars, coolVars
<1>11. CASE Replace(x)
  BY <1>11 DEF Replace, Goto, Frame, hostVars, recVars, coolVars
<1>12. CASE CreateAgain(x)
  BY <1>12 DEF CreateAgain, Goto, CreateContainer, Frame, hostVars, recVars, coolVars
<1>13. CASE Start(x)
  BY <1>13 DEF Start, Goto, DeployEnds, Leave, Loop, AppendEvent, SaveAppUpdate, Frame, hostVars,
     recVars, coolVars
<1>14. CASE StartFails(x)
  BY <1>14 DEF StartFails, Goto, AfterFailure, Rollback, Leave, AppendEvent, SaveAppUpdate,
     MayFail, Fault, Frame, hostVars, recVars, coolVars
<1>15. CASE DeployFails(x)
  BY <1>15 DEF DeployFails, Goto, AfterFailure, Rollback, Leave, AppendEvent, SaveAppUpdate,
     MayFail, Fault, Frame, hostVars, recVars, coolVars
<1>16. CASE ProbeLists(x)
  BY <1>16 DEF ProbeLists, Goto, Frame, hostVars, recVars, coolVars
<1>17. CASE Unhealthy(x)
  BY <1>17 DEF Unhealthy, Goto, Rollback, Leave, AppendEvent, SaveAppUpdate, MayFail, Fault, Frame,
     hostVars, recVars, coolVars
<1>18. ASSUME NEW s \in Services, Fetch(x, s) PROVE Frame(x)
  BY <1>18 DEF Fetch, Goto, Frame, hostVars, recVars, coolVars
<1>19. ASSUME NEW s \in Services, Healthy(x, s) PROVE Frame(x)
  BY <1>19 DEF Healthy, Goto, Loop, Leave, AppendEvent, SaveAppUpdate, Frame, hostVars, recVars,
     coolVars
<1> QED
  BY <1>1, <1>2, <1>3, <1>4, <1>5, <1>6, <1>7, <1>8, <1>9, <1>10, <1>11, <1>12, <1>13, <1>14,
     <1>15, <1>16, <1>17, <1>18, <1>19 DEF AttemptStep, Step

\* The tag and the records change, and containers are replaced, under the
\* mutex; a toggle's deploy replaces containers too.
Quiet == tag' = tag /\ store' = store /\ recent' = recent

Alone(x) ==
    \/ Worker(x) /\ pc[x] \in Held
    \/ Quiet /\ ctr' = ctr
    \/ Quiet /\ ~Worker(x) /\ pc[x] # "idle"

LEMMA StepAlone ==
    ASSUME TypeOK, PlaceInv, NEW x \in Attempts, AttemptStep(x) PROVE Alone(x)
<1> pc[x] \in Places /\ kind[x] \in Kinds
  BY DEF TypeOK
<1> Worker(x) <=> kind[x] # "toggle"
  BY DEF Worker
<1> ~Worker(x) => pc[x] \in Deploying \union {"idle", "over", "killed"}
  BY DEF PlaceInv, PlaceAt
<1>1. CASE Trigger(x)
  BY <1>1 DEF Trigger, Alone, Quiet, hostVars, recVars, coolVars
<1>2. CASE SetAppAutoUpdate(x)
  BY <1>2 DEF SetAppAutoUpdate, Alone, Quiet, hostVars, recVars, coolVars
<1>3. CASE AcquireSem(x)
  BY <1>3 DEF AcquireSem, Alone, Quiet, hostVars, recVars, coolVars
<1>4. CASE TryLock(x)
  BY <1>4 DEF TryLock, Alone, Quiet, hostVars, recVars, coolVars
<1>5. CASE Cooldown(x)
  BY <1>5 DEF Cooldown, Places, Held, Deploying, Alone, Quiet, hostVars, recVars, coolVars
<1>6. CASE Skip(x)
  BY <1>6 DEF Skip, Places, Held, Deploying, Alone, Quiet, hostVars, recVars, coolVars
<1>7. CASE Begin(x)
  BY <1>7 DEF Begin, Places, Held, Deploying, Alone, Quiet, hostVars, recVars, coolVars
<1>8. CASE Pull(x)
  BY <1>8 DEF Pull, Places, Held, Deploying, Alone, Quiet, hostVars, recVars, coolVars
<1>9. CASE PullFails(x)
  BY <1>9 DEF PullFails, Places, Held, Deploying, Alone, Quiet, hostVars, recVars, coolVars
<1>10. CASE Create(x)
  BY <1>10 DEF Create, Places, Held, Deploying, Alone, Quiet, hostVars, recVars, coolVars
<1>11. CASE Replace(x)
  BY <1>11 DEF Replace, Places, Held, Deploying, Alone, Quiet, hostVars, recVars, coolVars
<1>12. CASE CreateAgain(x)
  BY <1>12 DEF CreateAgain, Places, Held, Deploying, Alone, Quiet, hostVars, recVars, coolVars
<1>13. CASE Start(x)
  BY <1>13 DEF Start, Held, Alone, Quiet, hostVars, recVars, coolVars, Leave, DeployEnds,
     AfterFailure, Rollback
<1>14. CASE StartFails(x)
  BY <1>14 DEF StartFails, Held, Alone, Quiet, hostVars, recVars, coolVars, Leave, DeployEnds,
     AfterFailure, Rollback
<1>15. CASE DeployFails(x)
  BY <1>15 DEF DeployFails, Held, Alone, Quiet, hostVars, recVars, coolVars, Leave, DeployEnds,
     AfterFailure, Rollback
<1>16. CASE ProbeLists(x)
  BY <1>16 DEF ProbeLists, Places, Held, Deploying, Alone, Quiet, hostVars, recVars, coolVars
<1>17. CASE Unhealthy(x)
  BY <1>17 DEF Unhealthy, Places, Held, Deploying, Alone, Quiet, hostVars, recVars, coolVars
<1>18. ASSUME NEW s \in Services, Fetch(x, s) PROVE Alone(x)
  BY <1>18 DEF Fetch, Places, Held, Deploying, Alone, Quiet, hostVars, recVars, coolVars, ForcePull
<1>19. ASSUME NEW s \in Services, Healthy(x, s) PROVE Alone(x)
  BY <1>19 DEF Healthy, Places, Held, Deploying, Alone, Quiet, hostVars, recVars, coolVars
<1> QED
  BY <1>1, <1>2, <1>3, <1>4, <1>5, <1>6, <1>7, <1>8, <1>9, <1>10, <1>11, <1>12, <1>13, <1>14,
     <1>15, <1>16, <1>17, <1>18, <1>19 DEF AttemptStep, Step
-----------------------------------------------------------------------------
(* Types *)

HostType ==
    /\ remote \in Releases /\ tag \in Releases
    /\ ctr \in [Services -> Container]
    /\ cache \in BOOLEAN /\ cancelled \in BOOLEAN
PlaceType ==
    /\ kind \in [Attempts -> Kinds] /\ pc \in [Attempts -> Places]
    /\ mutex \in Attempts \union {None}
RunType == run \in [Attempts -> Run]
RecordType ==
    /\ store \in [Attempts -> Stages]
    /\ recent \subseteq Attempts /\ blind \subseteq Attempts /\ lost \subseteq Attempts
    /\ IsFiniteSet(lost) /\ faults \in 0..MaxFaults
SemType == sem \subseteq Attempts /\ IsFiniteSet(sem) /\ Cardinality(sem) <= Concurrency

Typed == HostType /\ PlaceType /\ RunType /\ RecordType /\ SemType

LEMMA TypesTogether == Typed <=> TypeOK /\ FiniteInv
BY DEF Typed, TypeOK, FiniteInv, HostType, PlaceType, RunType, RecordType, SemType

LEMMA FreshTyped == Fresh \in Run /\ Fresh.cur \in Services
BY AutoUpdateAssumption DEF Fresh, Run, Ids, NoDigest, Releases

LEMMA AbsentTyped == Absent \in Container
BY AutoUpdateAssumption DEF Absent, Container, Releases, Ids

LEMMA CreatedTyped ==
    ASSUME Typed, NEW x \in Attempts, CreateContainer(x) PROVE ctr' \in [Services -> Container]
<1> DEFINE c == [st |-> "created", img |-> ImageOf(x, cur(x)), pinned |-> Pinned(x, cur(x)), id |-> x]
<1>1. cur(x) \in Services /\ back(x) \in BOOLEAN /\ prev(x)[cur(x)] \in Releases \union {NoDigest}
  BY DEF Typed, RunType, Run, cur, back, prev
<1>2. Pinned(x, cur(x)) \in BOOLEAN
  BY DEF Pinned
<1>3. ImageOf(x, cur(x)) \in Releases
  BY <1>1 DEF ImageOf, Pinned, Typed, HostType
<1>4. c \in Container
  BY <1>2, <1>3 DEF Container, Ids
<1>5. ctr' = [ctr EXCEPT ![cur(x)] = c]
  BY DEF CreateContainer
<1> HIDE DEF c
<1> QED
  BY <1>1, <1>4, <1>5 DEF Typed, HostType

LEMMA HostTypes ==
    ASSUME Typed, NEW x \in Attempts, AttemptStep(x) PROVE HostType'
<1> USE DEF Typed, HostType
<1>a. \A i \in Services : cur(x) \in Services /\ prev(x)[i] \in Releases \union {NoDigest}
  BY DEF RunType, Run, cur, prev
<1>1. CASE Trigger(x)
  BY <1>1 DEF Trigger, hostVars, Releases, Container, Absent, Ids, hostVars
<1>2. CASE SetAppAutoUpdate(x)
  BY <1>2 DEF SetAppAutoUpdate, hostVars, Releases, Container, Absent, Ids, hostVars
<1>3. CASE AcquireSem(x)
  BY <1>3 DEF AcquireSem, hostVars, Releases, Container, Absent, Ids, hostVars
<1>4. CASE TryLock(x)
  BY <1>4 DEF TryLock, hostVars, Releases, Container, Absent, Ids, hostVars
<1>5. CASE Cooldown(x)
  BY <1>5 DEF Cooldown, hostVars, Releases, Container, Absent, Ids, hostVars
<1>6. CASE Skip(x)
  BY <1>6 DEF Skip, hostVars, Releases, Container, Absent, Ids, hostVars
<1>7. CASE Begin(x)
  BY <1>7 DEF Begin, hostVars, Releases, Container, Absent, Ids, hostVars
<1>8. CASE Pull(x)
  BY <1>8 DEF Pull, PullImage, hostVars, Releases, Container, Absent, Ids, hostVars
<1>9. CASE PullFails(x)
  BY <1>9 DEF PullFails, hostVars, Releases, Container, Absent, Ids, hostVars
<1>10. CASE Create(x)
  <2>1. UNCHANGED <<remote, tag, cache, cancelled>> /\ (CreateContainer(x) \/ UNCHANGED ctr)
    BY <1>10 DEF Create
  <2> QED
    BY <2>1, CreatedTyped
<1>11. CASE Replace(x)
  BY <1>a, AbsentTyped, <1>11 DEF Replace
<1>12. CASE CreateAgain(x)
  BY <1>12, CreatedTyped DEF CreateAgain
<1>13. CASE Start(x)
  BY <1>a, AutoUpdateAssumption, <1>13 DEF Start, hostVars, Releases, Container, Absent, Ids,
     hostVars
<1>14. CASE StartFails(x)
  <2>1. UNCHANGED <<remote, tag, cache, cancelled>>
    BY <1>14 DEF StartFails
  <2>2. ctr' \in {ctr, [ctr EXCEPT ![cur(x)] = Absent]}
    BY <1>14 DEF StartFails
  <2> QED
    BY <1>a, <2>1, <2>2, AbsentTyped
<1>15. CASE DeployFails(x)
  BY <1>15 DEF DeployFails, hostVars, Releases, Container, Absent, Ids, hostVars
<1>16. CASE ProbeLists(x)
  BY <1>16 DEF ProbeLists, hostVars, Releases, Container, Absent, Ids, hostVars
<1>17. CASE Unhealthy(x)
  BY <1>17 DEF Unhealthy, hostVars, Releases, Container, Absent, Ids, hostVars
<1>18. ASSUME NEW s \in Services, Fetch(x, s) PROVE HostType'
  BY <1>18 DEF Fetch, PullImage, hostVars, Releases, Container, Absent, Ids, hostVars
<1>19. ASSUME NEW s \in Services, Healthy(x, s) PROVE HostType'
  BY <1>19 DEF Healthy, hostVars, Releases, Container, Absent, Ids, hostVars
<1> QED
  BY <1>1, <1>2, <1>3, <1>4, <1>5, <1>6, <1>7, <1>8, <1>9, <1>10, <1>11, <1>12, <1>13, <1>14,
     <1>15, <1>16, <1>17, <1>18, <1>19 DEF AttemptStep, Step

LEMMA PlaceTypes ==
    ASSUME Typed, NEW x \in Attempts, AttemptStep(x) PROVE PlaceType'
<1> USE DEF Typed, PlaceType
<1>1. CASE Trigger(x)
  BY <1>1 DEF Trigger, Goto, Places
<1>2. CASE SetAppAutoUpdate(x)
  BY <1>2 DEF SetAppAutoUpdate, Goto, Loop, Places
<1>3. CASE AcquireSem(x)
  BY <1>3 DEF AcquireSem, Goto, Places
<1>4. CASE TryLock(x)
  BY <1>4 DEF TryLock, Goto, Leave, Places
<1>5. CASE Cooldown(x)
  BY <1>5 DEF Cooldown, Goto, Leave, Fault, Places
<1>6. CASE Skip(x)
  BY <1>6 DEF Skip, Leave, Goto, MayFail, Fault, Places
<1>7. CASE Begin(x)
  BY <1>7 DEF Begin, Goto, AppendEvent, SaveAppUpdate, Fault, Places
<1>8. CASE Pull(x)
  BY <1>8 DEF Pull, Goto, Loop, AppendEvent, SaveAppUpdate, Places
<1>9. CASE PullFails(x)
  BY <1>9 DEF PullFails, Leave, Goto, AppendEvent, SaveAppUpdate, MayFail, Fault, Places
<1>10. CASE Create(x)
  BY <1>10 DEF Create, Goto, CreateContainer, Places
<1>11. CASE Replace(x)
  BY <1>11 DEF Replace, Goto, Places
<1>12. CASE CreateAgain(x)
  BY <1>12 DEF CreateAgain, Goto, CreateContainer, Places
<1>13. CASE Start(x)
  BY <1>13 DEF Start, Goto, DeployEnds, Leave, Loop, AppendEvent, SaveAppUpdate, Places
<1>14. CASE StartFails(x)
  BY <1>14 DEF StartFails, Goto, AfterFailure, Rollback, Leave, AppendEvent, SaveAppUpdate,
     MayFail, Fault, Places
<1>15. CASE DeployFails(x)
  BY <1>15 DEF DeployFails, Goto, AfterFailure, Rollback, Leave, AppendEvent, SaveAppUpdate,
     MayFail, Fault, Places
<1>16. CASE ProbeLists(x)
  BY <1>16 DEF ProbeLists, Goto, Places
<1>17. CASE Unhealthy(x)
  BY <1>17 DEF Unhealthy, Goto, Rollback, Leave, AppendEvent, SaveAppUpdate, MayFail, Fault, Places
<1>18. ASSUME NEW s \in Services, Fetch(x, s) PROVE PlaceType'
  BY <1>18 DEF Fetch, Goto, Places
<1>19. ASSUME NEW s \in Services, Healthy(x, s) PROVE PlaceType'
  BY <1>19 DEF Healthy, Goto, Loop, Leave, AppendEvent, SaveAppUpdate, Places
<1> QED
  BY <1>1, <1>2, <1>3, <1>4, <1>5, <1>6, <1>7, <1>8, <1>9, <1>10, <1>11, <1>12, <1>13, <1>14,
     <1>15, <1>16, <1>17, <1>18, <1>19 DEF AttemptStep, Step

\* An attempt's variables after the updates that the actions make.
LEMMA RunParts ==
    ASSUME NEW q \in Run
    PROVE  /\ q.todo \in SUBSET Services /\ q.cur \in Services /\ q.seen \in [Services -> Ids]
           /\ q.prev \in [Services -> Releases \union {NoDigest}]
           /\ \A ss \in SUBSET Services, f \in [Services -> Ids] :
                 /\ [q EXCEPT !.todo = ss] \in Run
                 /\ [q EXCEPT !.todo = ss, !.seen = f] \in Run
           /\ \A s \in Services : [q EXCEPT !.cur = s] \in Run
           /\ \A s \in Services, i \in Ids : [q EXCEPT !.seen[s] = i] \in Run
           /\ \A p \in [Services -> Releases \union {NoDigest}] :
                 /\ [q EXCEPT !.prev = p] \in Run
                 /\ [Fresh EXCEPT !.back = TRUE, !.todo = Services, !.prev = p] \in Run
<1> USE DEF Run
<1>1. /\ q.todo \in SUBSET Services /\ q.cur \in Services /\ q.seen \in [Services -> Ids]
      /\ q.prev \in [Services -> Releases \union {NoDigest}]
  OBVIOUS
<1>2. ASSUME NEW ss \in SUBSET Services, NEW f \in [Services -> Ids]
      PROVE  [q EXCEPT !.todo = ss] \in Run /\ [q EXCEPT !.todo = ss, !.seen = f] \in Run
  OBVIOUS
<1>3. ASSUME NEW s \in Services PROVE [q EXCEPT !.cur = s] \in Run
  OBVIOUS
<1>4. ASSUME NEW s \in Services, NEW i \in Ids PROVE [q EXCEPT !.seen[s] = i] \in Run
  <2>1. [q.seen EXCEPT ![s] = i] \in [Services -> Ids]
    OBVIOUS
  <2>2. [q EXCEPT !.seen[s] = i] = [q EXCEPT !.seen = [q.seen EXCEPT ![s] = i]]
    OBVIOUS
  <2> QED
    BY <2>1, <2>2
<1>5. ASSUME NEW p \in [Services -> Releases \union {NoDigest}]
      PROVE  /\ [q EXCEPT !.prev = p] \in Run
             /\ [Fresh EXCEPT !.back = TRUE, !.todo = Services, !.prev = p] \in Run
  BY FreshTyped
<1> HIDE DEF Run
<1> QED
  BY <1>1, <1>2, <1>3, <1>4, <1>5

\* Either nothing changes, or the variables of x become some of its type.
Assigns(x) == run' = run \/ \E q \in Run : run' = [run EXCEPT ![x] = q]

LEMMA RunTypes ==
    ASSUME Typed, NEW x \in Attempts, AttemptStep(x) PROVE RunType'
<1> SUFFICES Assigns(x)
  BY DEF Assigns, Typed, RunType
<1>0. run[x] \in Run
  BY DEF Typed, RunType
<1>a. /\ todo(x) \subseteq Services /\ cur(x) \in Services /\ todo(x) \ {cur(x)} \subseteq Services
      /\ prev(x) \in [Services -> Releases \union {NoDigest}]
  BY <1>0, RunParts DEF todo, cur, prev
<1>b. Leave(x) => Assigns(x)
  BY FreshTyped DEF Leave, Assigns
<1>c. ASSUME NEW ss \in SUBSET Services PROVE Loop(x, ss) => Assigns(x)
  BY <1>0, RunParts DEF Loop, Assigns
<1>d. Rollback(x) => Assigns(x)
  BY <1>a, <1>b, RunParts, <1>0 DEF Rollback, Assigns
<1>e. UNCHANGED run => Assigns(x)
  BY DEF Assigns
<1>f. AfterFailure(x) => Assigns(x)
  BY <1>b, <1>d DEF AfterFailure
<1>g. \A s \in Services : ctr[s].id \in Ids /\ (ctr[s].img \in Releases)
  BY DEF Typed, HostType, Container
<1>1. CASE Trigger(x)
  BY <1>e, <1>1 DEF Trigger
<1>2. CASE SetAppAutoUpdate(x)
  BY <1>c, <1>2 DEF SetAppAutoUpdate
<1>3. CASE AcquireSem(x)
  BY <1>e, <1>3 DEF AcquireSem
<1>4. CASE TryLock(x)
  BY <1>b, <1>e, <1>4 DEF TryLock
<1>5. CASE Cooldown(x)
  BY <1>b, <1>e, <1>5 DEF Cooldown
<1>6. CASE Skip(x)
  BY <1>b, <1>6 DEF Skip
<1>7. CASE Begin(x)
  <2>1. PICK missing \in SUBSET Services : run' = [run EXCEPT ![x].prev = Digests(missing)]
    BY <1>7 DEF Begin
  <2>2. Digests(missing) \in [Services -> Releases \union {NoDigest}]
    BY <1>g DEF Digests
  <2>3. [run[x] EXCEPT !.prev = Digests(missing)] \in Run
    BY <1>0, <2>2, RunParts
  <2> QED
    BY <2>1, <2>3 DEF Assigns
<1>8. CASE Pull(x)
  BY <1>c, <1>8 DEF Pull
<1>9. CASE PullFails(x)
  BY <1>b, <1>9 DEF PullFails
<1>10. CASE Create(x)
  <2>1. [run[x] EXCEPT !.seen[cur(x)] = ctr[cur(x)].id] \in Run
    BY <1>0, <1>a, <1>g, RunParts
  <2> QED
    BY <1>10, <2>1 DEF Create, Assigns
<1>11. CASE Replace(x)
  BY <1>e, <1>11 DEF Replace
<1>12. CASE CreateAgain(x)
  BY <1>e, <1>12 DEF CreateAgain
<1>13. CASE Start(x)
  <2>1. Fresh.seen \in [Services -> Ids]
    BY FreshTyped, RunParts
  <2>2. [run[x] EXCEPT !.todo = run[x].todo \ {cur(x)}, !.seen = Fresh.seen] \in Run
    BY <1>0, <1>a, <2>1, RunParts DEF todo
  <2>3. DeployEnds(x) => Assigns(x)
    BY <1>b, <1>c DEF DeployEnds
  <2>4. CASE todo(x) = {cur(x)}
    BY <1>13, <2>3, <2>4 DEF Start
  <2>5. CASE todo(x) # {cur(x)}
    <3>1. run' = [run EXCEPT ![x] = [run[x] EXCEPT !.todo = run[x].todo \ {cur(x)}, !.seen = Fresh.seen]]
      BY <1>13, <2>5 DEF Start
    <3> QED
      BY <2>2, <3>1 DEF Assigns
  <2> QED
    BY <2>4, <2>5
<1>14. CASE StartFails(x)
  BY <1>f, <1>14 DEF StartFails
<1>15. CASE DeployFails(x)
  BY <1>f, <1>15 DEF DeployFails
<1>16. CASE ProbeLists(x)
  <2>1. [run[x] EXCEPT !.todo = {s \in Services : ctr[s].st # "none"},
                       !.seen = [s \in Services |-> ctr[s].id]] \in Run
    BY <1>0, <1>g, RunParts
  <2> QED
    BY <1>16, <2>1 DEF ProbeLists, Assigns
<1>17. CASE Unhealthy(x)
  BY <1>d, <1>17 DEF Unhealthy
<1>18. ASSUME NEW s \in Services, Fetch(x, s) PROVE Assigns(x)
  <2>1. [run[x] EXCEPT !.cur = s] \in Run
    BY <1>0, RunParts
  <2> QED
    BY <1>18, <2>1 DEF Fetch, Assigns
<1>19. ASSUME NEW s \in Services, Healthy(x, s) PROVE Assigns(x)
  BY <1>a, <1>b, <1>c, <1>e, <1>19 DEF Healthy
<1> QED
  BY <1>1, <1>2, <1>3, <1>4, <1>5, <1>6, <1>7, <1>8, <1>9, <1>10, <1>11, <1>12, <1>13, <1>14,
     <1>15, <1>16, <1>17, <1>18, <1>19 DEF AttemptStep, Step

LEMMA FaultsCounted == ASSUME RecordType, Fault PROVE faults' \in 0..MaxFaults
<1>1. Cardinality(lost) \in Nat
  BY FS_CardinalityType DEF RecordType
<1> QED
  BY <1>1, AutoUpdateAssumption DEF RecordType, Fault, MoreFaults

LEMMA SavesTyped ==
    ASSUME RecordType, NEW x \in Attempts, NEW st \in Stages, AppendEvent(x, st)
    PROVE  /\ store' \in [Attempts -> Stages]
           /\ lost' \subseteq Attempts /\ IsFiniteSet(lost')
BY FS_AddElement DEF RecordType, AppendEvent, SaveAppUpdate

LEMMA RecordTypes ==
    ASSUME Typed, NEW x \in Attempts, AttemptStep(x) PROVE RecordType'
<1> USE FaultsCounted, SavesTyped DEF Typed, RecordType
<1>0. {"open", "failed", "completed", "rolled_back"} \subseteq Stages
  BY DEF Stages, Terminal
<1>1. CASE Trigger(x)
  BY <1>0, <1>1 DEF Trigger, recVars, coolVars
<1>2. CASE SetAppAutoUpdate(x)
  BY <1>0, <1>2 DEF SetAppAutoUpdate, recVars, coolVars
<1>3. CASE AcquireSem(x)
  BY <1>0, <1>3 DEF AcquireSem, recVars, coolVars
<1>4. CASE TryLock(x)
  BY <1>0, <1>4 DEF TryLock, recVars, coolVars
<1>5. CASE Cooldown(x)
  BY <1>0, <1>5 DEF Cooldown, recVars, coolVars
<1>6. CASE Skip(x)
  BY <1>0, <1>6 DEF Skip, MayFail, recVars, coolVars
<1>7. CASE Begin(x)
  BY <1>0, <1>7 DEF Begin, recVars, coolVars
<1>8. CASE Pull(x)
  BY <1>0, <1>8 DEF Pull, PullImage, Fault, MoreFaults, recVars, coolVars
<1>9. CASE PullFails(x)
  BY <1>0, <1>9 DEF PullFails, MayFail, recVars, coolVars
<1>10. CASE Create(x)
  BY <1>0, <1>10 DEF Create, recVars, coolVars
<1>11. CASE Replace(x)
  BY <1>0, <1>11 DEF Replace, recVars, coolVars
<1>12. CASE CreateAgain(x)
  BY <1>0, <1>12 DEF CreateAgain, recVars, coolVars
<1>13. CASE Start(x)
  BY <1>0, <1>13 DEF Start, DeployEnds, recVars, coolVars
<1>14. CASE StartFails(x)
  BY <1>0, <1>14 DEF StartFails, AfterFailure, Rollback, MayFail, recVars, coolVars
<1>15. CASE DeployFails(x)
  BY <1>0, <1>15 DEF DeployFails, AfterFailure, Rollback, MayFail, recVars, coolVars
<1>16. CASE ProbeLists(x)
  BY <1>0, <1>16 DEF ProbeLists, recVars, coolVars
<1>17. CASE Unhealthy(x)
  BY <1>0, <1>17 DEF Unhealthy, Rollback, MayFail, recVars, coolVars
<1>18. ASSUME NEW s \in Services, Fetch(x, s) PROVE RecordType'
  BY <1>0, <1>18 DEF Fetch, PullImage, Fault, MoreFaults, recVars, coolVars
<1>19. ASSUME NEW s \in Services, Healthy(x, s) PROVE RecordType'
  BY <1>0, <1>19 DEF Healthy, recVars, coolVars
<1> QED
  BY <1>1, <1>2, <1>3, <1>4, <1>5, <1>6, <1>7, <1>8, <1>9, <1>10, <1>11, <1>12, <1>13, <1>14,
     <1>15, <1>16, <1>17, <1>18, <1>19 DEF AttemptStep, Step

LEMMA SemTypes ==
    ASSUME Typed, NEW x \in Attempts, AttemptStep(x) PROVE SemType'
<1>0. sem' = sem \/ sem' = sem \ {x} \/ (Cardinality(sem) < Concurrency /\ sem' = sem \union {x})
  <2>1. CASE Trigger(x)
    BY <2>1 DEF Trigger
  <2>2. CASE SetAppAutoUpdate(x)
    BY <2>2 DEF SetAppAutoUpdate
  <2>3. CASE AcquireSem(x)
    BY <2>3 DEF AcquireSem
  <2>4. CASE TryLock(x)
    BY <2>4 DEF TryLock, Leave
  <2>5. CASE Cooldown(x)
    BY <2>5 DEF Cooldown, Leave
  <2>6. CASE Skip(x)
    BY <2>6 DEF Skip, Leave
  <2>7. CASE Begin(x)
    BY <2>7 DEF Begin
  <2>8. CASE Pull(x)
    BY <2>8 DEF Pull
  <2>9. CASE PullFails(x)
    BY <2>9 DEF PullFails, Leave
  <2>10. CASE Create(x)
    BY <2>10 DEF Create
  <2>11. CASE Replace(x)
    BY <2>11 DEF Replace
  <2>12. CASE CreateAgain(x)
    BY <2>12 DEF CreateAgain
  <2>13. CASE Start(x)
    BY <2>13 DEF Start, DeployEnds, Leave
  <2>14. CASE StartFails(x)
    BY <2>14 DEF StartFails, AfterFailure, Rollback, Leave
  <2>15. CASE DeployFails(x)
    BY <2>15 DEF DeployFails, AfterFailure, Rollback, Leave
  <2>16. CASE ProbeLists(x)
    BY <2>16 DEF ProbeLists
  <2>17. CASE Unhealthy(x)
    BY <2>17 DEF Unhealthy, Rollback, Leave
  <2>18. ASSUME NEW s \in Services, Fetch(x, s) PROVE sem' = sem \/ sem' = sem \ {x}
    BY <2>18 DEF Fetch
  <2>19. ASSUME NEW s \in Services, Healthy(x, s) PROVE sem' = sem \/ sem' = sem \ {x}
    BY <2>19 DEF Healthy, Leave
  <2> QED
    BY <2>1, <2>2, <2>3, <2>4, <2>5, <2>6, <2>7, <2>8, <2>9, <2>10, <2>11, <2>12, <2>13, <2>14,
       <2>15, <2>16, <2>17, <2>18, <2>19 DEF AttemptStep, Step
<1> SemType /\ Concurrency \in Nat /\ Cardinality(sem) \in Nat
  BY FS_CardinalityType, AutoUpdateAssumption DEF Typed, SemType
<1>1. CASE sem' = sem
  BY <1>1 DEF SemType
<1>2. CASE sem' = sem \ {x}
  <2>1. IsFiniteSet(sem \ {x}) /\ Cardinality(sem \ {x}) <= Cardinality(sem)
    <3>1. IsFiniteSet(sem \ {x}) /\ Cardinality(sem \ {x}) =
            IF x \in sem THEN Cardinality(sem) - 1 ELSE Cardinality(sem)
      BY FS_RemoveElement DEF SemType
    <3> QED
      BY <3>1
  <2>2. Cardinality(sem \ {x}) \in Nat
    BY <2>1, FS_CardinalityType
  <2> QED
    BY <1>2, <2>1, <2>2 DEF SemType
<1>3. CASE Cardinality(sem) < Concurrency /\ sem' = sem \union {x}
  <2>1. IsFiniteSet(sem \union {x}) /\ Cardinality(sem \union {x}) <= Cardinality(sem) + 1
    <3>1. IsFiniteSet(sem \union {x}) /\ Cardinality(sem \union {x}) =
            IF x \in sem THEN Cardinality(sem) ELSE Cardinality(sem) + 1
      BY FS_AddElement DEF SemType
    <3> QED
      BY <3>1
  <2>2. Cardinality(sem \union {x}) \in Nat
    BY <2>1, FS_CardinalityType
  <2> QED
    BY <1>3, <2>1, <2>2 DEF SemType
<1> QED
  BY <1>0, <1>1, <1>2, <1>3

\* What goes on around the attempts.
Around ==
    \/ Publish \/ CheckAll \/ CooldownPasses \/ Shutdown \/ Restart
    \/ \E s \in Services : ContainerTurns(s)

\* A restart apart, it moves nobody on but attempts of the monitor.
LEMMA AroundFrame ==
    ASSUME Typed, PlaceInv, Around, ~Restart
    PROVE  /\ UNCHANGED <<kind, run, store, lost, mutex, blind, tag>>
           /\ recent' \subseteq recent /\ remote <= remote'
           /\ \A s \in Services : ctr'[s].id = ctr[s].id /\ ctr'[s].img = ctr[s].img
           /\ \A x \in Attempts : pc'[x] = pc[x] \/ (pc[x] = "idle" /\ pc'[x] = "queued" /\ Worker(x))
<1> USE AutoUpdateAssumption DEF Typed, HostType, PlaceType, RecordType, Releases, hostVars, recVars, coolVars
<1>1. CASE Publish
  BY <1>1 DEF Publish
<1>2. CASE CheckAll
  <2>1. \A x \in Autos : x \in Attempts /\ Worker(x)
    BY DEF PlaceInv, PlaceAt, Attempts, Worker
  <2>2. UNCHANGED <<kind, run, store, lost, mutex, blind, tag, ctr, recent, remote>>
    BY <1>2 DEF CheckAll
  <2>3. \A x \in Attempts : pc'[x] = pc[x] \/ (pc[x] = "idle" /\ pc'[x] = "queued" /\ Worker(x))
    <3>1. UNCHANGED pc \/ \E x \in Autos : pc[x] = "idle" /\ pc' = [pc EXCEPT ![x] = "queued"]
      BY <1>2 DEF CheckAll, OnCycle, Goto
    <3> QED
      BY <2>1, <3>1
  <2> QED
    BY <2>2, <2>3
<1>3. CASE CooldownPasses
  BY <1>3 DEF CooldownPasses
<1>4. CASE Shutdown
  BY <1>4 DEF Shutdown
<1>5. ASSUME NEW s \in Services, ContainerTurns(s)
      PROVE  /\ UNCHANGED <<kind, run, store, lost, mutex, blind, tag, recent, remote, pc>>
             /\ \A i \in Services : ctr'[i].id = ctr[i].id /\ ctr'[i].img = ctr[i].img
  <2>1. /\ UNCHANGED <<kind, run, store, lost, mutex, blind, tag, recent, remote, pc>>
        /\ ctr' = [ctr EXCEPT ![s] = [@ EXCEPT !.st = IF ctr[s].st = "running" THEN "dead" ELSE "running"]]
    BY <1>5 DEF ContainerTurns
  <2> QED
    BY <2>1 DEF Container
<1> QED
  BY <1>1, <1>2, <1>3, <1>4, <1>5 DEF Around

LEMMA AroundTypes == ASSUME Typed, PlaceInv, Around PROVE Typed'
<1>1. CASE Restart
  <2>1. HostType' /\ PlaceType'
    BY <1>1 DEF Restart, Typed, HostType, PlaceType, Places
  <2>2. RunType'
    BY <1>1, FreshTyped DEF Restart, RunType
  <2>3. RecordType'
    BY <1>1, FaultsCounted DEF Restart, Typed, RecordType, recVars
  <2>4. SemType'
    BY <1>1, FS_EmptySet, AutoUpdateAssumption DEF Restart, SemType
  <2> QED
    BY <2>1, <2>2, <2>3, <2>4 DEF Typed
<1>2. CASE ~Restart
  <2>1. UNCHANGED <<kind, run, store, lost, mutex, blind, tag>> /\ recent' \subseteq recent
    BY <1>2, AroundFrame
  <2>2. PlaceType' /\ RunType'
    <3>1. pc' \in [Attempts -> Places]
      BY <1>2 DEF Around, Typed, PlaceType, Places, Publish, CheckAll, OnCycle, Goto,
         CooldownPasses,
                  Shutdown, ContainerTurns
    <3> QED
      BY <2>1, <3>1 DEF Typed, PlaceType, RunType
  <2>3. UNCHANGED sem /\ SemType'
    BY <1>2 DEF Around, Typed, SemType, Publish, CheckAll, CooldownPasses, Shutdown, ContainerTurns
  <2>4. RecordType'
    <3>1. faults' \in 0..MaxFaults
      BY <1>2, FaultsCounted DEF Around, Typed, RecordType, Publish, CheckAll, CooldownPasses,
         Shutdown,
                                 ContainerTurns
    <3> QED
      BY <2>1, <3>1 DEF Typed, RecordType
  <2>5. HostType'
    <3>1. remote' \in Releases
      <4>1. remote' = remote \/ Publish
        BY <1>2 DEF Around, CheckAll, CooldownPasses, Shutdown, ContainerTurns, hostVars
      <4> QED
        BY <4>1, AutoUpdateAssumption DEF Typed, HostType, Releases, Publish
    <3>2. ctr' \in [Services -> Container]
      <4>1. ASSUME NEW s \in Services, ContainerTurns(s) PROVE ctr' \in [Services -> Container]
        BY <4>1 DEF ContainerTurns, Typed, HostType, Container
      <4> QED
        BY <1>2, <4>1 DEF Around, Typed, HostType, Publish, CheckAll, CooldownPasses, Shutdown,
           hostVars
    <3>3. cache' \in BOOLEAN /\ cancelled' \in BOOLEAN
      BY <1>2 DEF Around, Typed, HostType, Publish, CheckAll, CooldownPasses, Shutdown,
         ContainerTurns,
                  hostVars
    <3> QED
      BY <2>1, <3>1, <3>2, <3>3 DEF Typed, HostType
  <2> QED
    BY <2>2, <2>3, <2>4, <2>5 DEF Typed
<1> QED
  BY <1>1, <1>2
-----------------------------------------------------------------------------
(* Places and the mutex *)

\* The step of x itself.
LEMMA OwnPlace ==
    ASSUME Typed, NEW x \in Attempts, PlaceAt(x), AttemptStep(x)
    PROVE  PlaceAt(x)'
<1> kind' = kind /\ x \in Attempts /\ kind[x] \in Kinds /\ pc[x] \in Places /\ store[x] \in Stages
  BY TypesTogether, StepFrame DEF Frame, Typed, PlaceType, RecordType
<1> run[x] \in Run
  BY DEF Typed, RunType
<1> USE DEF Typed, PlaceType, RunType, RecordType, PlaceAt, Worker, Before, Deploying, Creating, Terminal, todo, cur, back, Run
<1>1. CASE Trigger(x)
  BY <1>1 DEF Trigger, Goto, hostVars, recVars, coolVars
<1>2. CASE SetAppAutoUpdate(x)
  BY <1>2 DEF SetAppAutoUpdate, Goto, hostVars, recVars, coolVars, Loop
<1>3. CASE AcquireSem(x)
  BY <1>3 DEF AcquireSem, Goto, hostVars, recVars, coolVars
<1>4. CASE TryLock(x)
  BY <1>4 DEF TryLock, Goto, hostVars, recVars, coolVars, Leave
<1>5. CASE Cooldown(x)
  BY <1>5 DEF Cooldown, Goto, hostVars, recVars, coolVars, Leave, Fault
<1>6. CASE Skip(x)
  BY <1>6 DEF Skip, Leave, Goto, hostVars, recVars, coolVars, MayFail, Fault
<1>7. CASE Begin(x)
  BY <1>7 DEF Begin, Goto, hostVars, recVars, coolVars, AppendEvent, SaveAppUpdate, Fault
<1>8. CASE Pull(x)
  BY <1>8 DEF Pull, Goto, hostVars, recVars, coolVars, Loop, AppendEvent, SaveAppUpdate
<1>9. CASE PullFails(x)
  BY <1>9 DEF PullFails, Leave, Goto, hostVars, recVars, coolVars, AppendEvent, SaveAppUpdate,
     MayFail, Fault
<1>10. CASE Create(x)
  <2>1. /\ pc[x] = "create" /\ pc'[x] \in {"start", "replace"} /\ UNCHANGED <<store, lost>>
        /\ run' = run \/ run' = [run EXCEPT ![x].seen[cur(x)] = ctr[cur(x)].id]
    BY <1>10 DEF Create, Goto, recVars
  <2>2. run'[x].todo = run[x].todo /\ run'[x].cur = run[x].cur
    BY <2>1
  <2> QED
    BY <2>1, <2>2
<1>11. CASE Replace(x)
  BY <1>11 DEF Replace, Goto, hostVars, recVars, coolVars
<1>12. CASE CreateAgain(x)
  BY <1>12 DEF CreateAgain, Goto, hostVars, recVars, coolVars, CreateContainer
<1>13. CASE Start(x)
  <2>1. pc[x] = "start"
    BY <1>13 DEF Start
  <2>2. CASE todo(x) # {cur(x)}
    BY <1>13, <2>1, <2>2 DEF Start, Goto, recVars
  <2>3. CASE kind[x] = "toggle" /\ Leave(x) /\ UNCHANGED recVars
    BY <2>1, <2>3 DEF Leave, Goto, recVars
  <2>4. CASE kind[x] # "toggle" /\ AppendEvent(x, "rolled_back") /\ Leave(x)
    BY <2>1, <2>4 DEF Leave, Goto, AppendEvent, SaveAppUpdate
  <2>5. CASE kind[x] # "toggle" /\ ~back(x) /\ AppendEvent(x, "open") /\ Goto(x, "list") /\ Loop(x, {})
    BY <2>1, <2>5 DEF Goto, Loop, AppendEvent, SaveAppUpdate
  <2> QED
    BY <1>13, <2>2, <2>3, <2>4, <2>5 DEF Start, DeployEnds
<1>14. CASE StartFails(x)
  BY <1>14 DEF StartFails, Goto, hostVars, recVars, coolVars, AfterFailure, Rollback, Leave,
     AppendEvent, SaveAppUpdate, MayFail, Fault
<1>15. CASE DeployFails(x)
  BY <1>15 DEF DeployFails, Goto, hostVars, recVars, coolVars, AfterFailure, Rollback, Leave,
     AppendEvent, SaveAppUpdate, MayFail, Fault
<1>16. CASE ProbeLists(x)
  BY <1>16 DEF ProbeLists, Goto, hostVars, recVars, coolVars
<1>17. CASE Unhealthy(x)
  BY <1>17 DEF Unhealthy, Goto, hostVars, recVars, coolVars, Rollback, Leave, AppendEvent,
     SaveAppUpdate, MayFail, Fault
<1>18. ASSUME NEW s \in Services, Fetch(x, s) PROVE PlaceAt(x)'
  BY <1>18 DEF Fetch, Goto, hostVars, recVars, coolVars
<1>19. ASSUME NEW s \in Services, Healthy(x, s) PROVE PlaceAt(x)'
  <2>1. pc[x] = "probe" /\ kind[x] # "toggle"
    BY <1>19 DEF Healthy
  <2>2. CASE AppendEvent(x, "completed") /\ Leave(x)
    BY <2>1, <2>2 DEF Leave, Goto, AppendEvent, SaveAppUpdate
  <2>3. CASE Loop(x, todo(x) \ {s}) /\ UNCHANGED <<pc, sem, mutex, recVars>>
    BY <2>1, <2>3 DEF Loop, recVars
  <2> QED
    BY <1>19, <2>2, <2>3 DEF Healthy
<1> QED
  BY <1>1, <1>2, <1>3, <1>4, <1>5, <1>6, <1>7, <1>8, <1>9, <1>10, <1>11, <1>12, <1>13, <1>14,
     <1>15, <1>16, <1>17, <1>18, <1>19 DEF AttemptStep, Step

LEMMA PlaceStep ==
    ASSUME Typed, PlaceInv, (\E x \in Attempts : AttemptStep(x)) \/ Around PROVE PlaceInv'
<1>1. ASSUME NEW x \in Attempts, AttemptStep(x), NEW y \in Attempts PROVE PlaceAt(y)'
  <2>1. CASE y = x
    BY <1>1, <2>1, OwnPlace DEF PlaceInv
  <2>2. CASE y # x
    BY <1>1, <2>2, StepFrame, TypesTogether
    DEF Frame, PlaceInv, PlaceAt, Worker, cur, todo, back
  <2> QED
    BY <2>1, <2>2
<1>2. ASSUME Around, ~Restart, NEW y \in Attempts PROVE PlaceAt(y)'
  <2>1. UNCHANGED <<kind, run, store, lost>> /\ (pc'[y] = pc[y] \/ (pc[y] = "idle" /\ pc'[y] = "queued" /\ Worker(y)))
    BY <1>2, AroundFrame
  <2> QED
    BY <2>1 DEF PlaceInv, PlaceAt, Worker, cur, todo, back, Before, Creating
<1>3. ASSUME Restart, NEW y \in Attempts PROVE PlaceAt(y)'
  <2>1. /\ UNCHANGED <<kind, store, lost>>
        /\ pc'[y] = IF pc[y] \in {"idle", "over"} THEN pc[y] ELSE "killed"
    BY <1>3 DEF Restart, recVars
  <2> QED
    BY <2>1 DEF PlaceInv, PlaceAt, Worker, Before, Creating
<1> QED
  BY <1>1, <1>2, <1>3 DEF PlaceInv

LEMMA MutexStep ==
    ASSUME Typed, PlaceInv, MutexInv, (\E x \in Attempts : AttemptStep(x)) \/ Around PROVE MutexInv'
<1> None \notin Attempts
  BY AutoUpdateAssumption DEF Attempts
<1>1. ASSUME NEW x \in Attempts, AttemptStep(x) PROVE MutexAt(x)'
  <2> kind' = kind /\ MutexAt(x) /\ PlaceAt(x)
    BY <1>1, TypesTogether, StepFrame DEF Frame, MutexInv, PlaceInv
  <2> USE DEF Typed, PlaceType, MutexAt, Worker, Held
  <2>1. CASE Trigger(x)
    BY <2>1 DEF Trigger, Goto
  <2>2. CASE SetAppAutoUpdate(x)
    BY <2>2 DEF SetAppAutoUpdate
  <2>3. CASE AcquireSem(x)
    BY <2>3 DEF AcquireSem, Goto
  <2>4. CASE TryLock(x)
    BY <2>4 DEF TryLock, Goto, Leave
  <2>5. CASE Cooldown(x)
    BY <2>5 DEF Cooldown, Goto, Leave
  <2>6. CASE Skip(x)
    BY <2>6 DEF Skip, Goto, Leave
  <2>7. CASE Begin(x)
    BY <2>7 DEF Begin, Goto
  <2>8. CASE Pull(x)
    BY <2>8 DEF Pull, Goto
  <2>9. CASE PullFails(x)
    BY <2>9 DEF PullFails, Goto, Leave
  <2>10. CASE Create(x)
    BY <2>10 DEF Create, Goto
  <2>11. CASE Replace(x)
    BY <2>11 DEF Replace, Goto
  <2>12. CASE CreateAgain(x)
    BY <2>12 DEF CreateAgain, Goto
  <2>13. CASE Start(x)
    BY <2>13 DEF Start, Goto, Leave, DeployEnds
  <2>14. CASE StartFails(x)
    BY <2>14 DEF StartFails, Goto, Leave, AfterFailure, Rollback
  <2>15. CASE DeployFails(x)
    BY <2>15 DEF DeployFails, Goto, Leave, AfterFailure, Rollback
  <2>16. CASE ProbeLists(x)
    BY <2>16 DEF ProbeLists, Goto
  <2>17. CASE Unhealthy(x)
    BY <2>17 DEF Unhealthy, Goto, Leave, Rollback
  <2>18. ASSUME NEW s \in Services, Fetch(x, s) PROVE MutexAt(x)'
    BY <2>18 DEF Fetch, Goto
  <2>19. ASSUME NEW s \in Services, Healthy(x, s) PROVE MutexAt(x)'
    BY <2>19 DEF Healthy, Goto, Leave
  <2> QED
    BY <1>1, <2>1, <2>2, <2>3, <2>4, <2>5, <2>6, <2>7, <2>8, <2>9, <2>10, <2>11, <2>12, <2>13,
       <2>14, <2>15, <2>16, <2>17, <2>18, <2>19 DEF AttemptStep, Step
<1>2. ASSUME NEW x \in Attempts, AttemptStep(x), NEW y \in Attempts, y # x PROVE MutexAt(y)'
  BY <1>2, StepFrame, TypesTogether DEF Frame, MutexInv, MutexAt, Worker
<1>3. ASSUME Around, ~Restart, NEW y \in Attempts PROVE MutexAt(y)'
  <2>1. UNCHANGED <<kind, mutex>> /\ (pc'[y] = pc[y] \/ pc'[y] = "queued")
    BY <1>3, AroundFrame
  <2> QED
    BY <2>1 DEF MutexInv, MutexAt, Worker, Held
<1>4. ASSUME Restart, NEW y \in Attempts PROVE MutexAt(y)'
  <2>1. pc'[y] \in {"idle", "over", "killed"}
    BY <1>4 DEF Restart
  <2> QED
    BY <2>1 DEF MutexAt, Held
<1> QED
  BY <1>1, <1>2, <1>3, <1>4 DEF MutexInv

-----------------------------------------------------------------------------
(* The cooldown *)

LEMMA CoolStep ==
    ASSUME Typed, PlaceInv, MutexInv, CoolInv, (\E x \in Attempts : AttemptStep(x)) \/ Around
    PROVE  CoolInv'
<1>1. ASSUME NEW x \in Attempts, AttemptStep(x), NEW y \in Attempts, y # x PROVE CoolAt(y)'
  <2>1. Frame(x) /\ Alone(x)
    BY <1>1, StepFrame, StepAlone, TypesTogether
  <2>2. SUFFICES ASSUME kind[y] = "auto", pc[y] = "plan", y \notin blind PROVE ~Cooling'
    BY <1>1, <2>1 DEF CoolAt, Frame
  <2>3. mutex = y
    BY <2>2 DEF MutexInv, MutexAt, Worker, Held
  <2>4. Quiet
    BY <1>1, <2>1, <2>3 DEF Alone, MutexInv, MutexAt
  <2> QED
    BY <2>2, <2>4 DEF Quiet, CoolInv, CoolAt, Cooling
<1>2. ASSUME NEW x \in Attempts, AttemptStep(x), kind'[x] = "auto", pc'[x] = "plan", x \notin blind'
      PROVE  ~Cooling'
  <2>1. pc[x] \in Places /\ kind[x] = "auto"
    BY <1>2, StepFrame, TypesTogether DEF Typed, PlaceType, Frame
  <2>2. Cooldown(x)
    <3>1. CASE Trigger(x)
      BY <1>2, <2>1, <3>1 DEF Trigger, Goto, Typed, PlaceType
    <3>2. CASE SetAppAutoUpdate(x)
      BY <1>2, <2>1, <3>2 DEF SetAppAutoUpdate, Typed, PlaceType
    <3>3. CASE AcquireSem(x)
      BY <1>2, <2>1, <3>3 DEF AcquireSem, Goto, Typed, PlaceType
    <3>4. CASE TryLock(x)
      BY <1>2, <2>1, <3>4 DEF TryLock, Goto, Leave, Typed, PlaceType
    <3>5. CASE Skip(x)
      BY <1>2, <2>1, <3>5 DEF Skip, Goto, Leave, Typed, PlaceType
    <3>6. CASE Begin(x)
      BY <1>2, <2>1, <3>6 DEF Begin, Goto, Typed, PlaceType
    <3>7. CASE Pull(x)
      BY <1>2, <2>1, <3>7 DEF Pull, Goto, Typed, PlaceType
    <3>8. CASE PullFails(x)
      BY <1>2, <2>1, <3>8 DEF PullFails, Goto, Leave, Typed, PlaceType
    <3>9. CASE Create(x)
      BY <1>2, <2>1, <3>9 DEF Create, Goto, Typed, PlaceType
    <3>10. CASE Replace(x)
      BY <1>2, <2>1, <3>10 DEF Replace, Goto, Typed, PlaceType
    <3>11. CASE CreateAgain(x)
      BY <1>2, <2>1, <3>11 DEF CreateAgain, Goto, Typed, PlaceType
    <3>12. CASE Start(x)
      BY <1>2, <2>1, <3>12 DEF Start, Goto, Leave, DeployEnds, Typed, PlaceType
    <3>13. CASE StartFails(x)
      BY <1>2, <2>1, <3>13 DEF StartFails, Goto, Leave, AfterFailure, Rollback, Typed, PlaceType
    <3>14. CASE DeployFails(x)
      BY <1>2, <2>1, <3>14 DEF DeployFails, Goto, Leave, AfterFailure, Rollback, Typed, PlaceType
    <3>15. CASE ProbeLists(x)
      BY <1>2, <2>1, <3>15 DEF ProbeLists, Goto, Typed, PlaceType
    <3>16. CASE Unhealthy(x)
      BY <1>2, <2>1, <3>16 DEF Unhealthy, Goto, Leave, Rollback, Typed, PlaceType
    <3>17. ASSUME NEW s \in Services, Fetch(x, s) PROVE FALSE
      BY <1>2, <2>1, <3>17 DEF Fetch, Goto, Typed, PlaceType
    <3>18. ASSUME NEW s \in Services, Healthy(x, s) PROVE FALSE
      BY <1>2, <2>1, <3>18 DEF Healthy, Goto, Leave, Typed, PlaceType, hostVars, recVars, coolVars
    <3> QED
      BY <1>2, <3>1, <3>2, <3>3, <3>4, <3>5, <3>6, <3>7, <3>8, <3>9, <3>10, <3>11, <3>12, <3>13,
         <3>14, <3>15, <3>16, <3>17, <3>18 DEF AttemptStep, Step
  <2>3. ~Cooling /\ UNCHANGED <<store, recent>>
    BY <1>2, <2>1, <2>2 DEF Cooldown, Leave, Goto, Typed, PlaceType, RecordType, recVars
  <2> QED
    BY <2>3 DEF Cooling
<1>3. ASSUME Around, ~Restart PROVE CoolInv'
  <2>1. /\ UNCHANGED <<kind, store, blind>> /\ recent' \subseteq recent
        /\ \A y \in Attempts : pc'[y] = "plan" => pc[y] = "plan"
    BY <1>3, AroundFrame
  <2> QED
    BY <2>1 DEF CoolInv, CoolAt, Cooling
<1>4. ASSUME Restart, NEW y \in Attempts PROVE CoolAt(y)'
  <2>1. pc'[y] \in {"idle", "over", "killed"}
    BY <1>4 DEF Restart
  <2> QED
    BY <2>1 DEF CoolAt
<1>5. ASSUME NEW x \in Attempts, AttemptStep(x) PROVE CoolAt(x)'
  BY <1>2, <1>5 DEF CoolAt
<1> QED
  BY <1>1, <1>3, <1>4, <1>5 DEF CoolInv

-----------------------------------------------------------------------------
(* Images *)

\* What a deploy makes.
LEMMA CreateImage ==
    ASSUME Typed, NEW x \in Attempts, CreateContainer(x)
    PROVE  /\ cur(x) \in Services
           /\ ctr'[cur(x)].id = x /\ ctr'[cur(x)].img = ImageOf(x, cur(x))
           /\ \A s \in Services : s # cur(x) => ctr'[s] = ctr[s]
<1>1. cur(x) \in Services
  BY RunParts DEF Typed, RunType, cur
<1> QED
  BY <1>1 DEF CreateContainer, Typed, HostType

\* A container is as it was, or is gone, or is one that x has made.
LEMMA StepContainers ==
    ASSUME Typed, NEW x \in Attempts, AttemptStep(x), NEW s \in Services
    PROVE  \/ ctr'[s].id = ctr[s].id /\ ctr'[s].img = ctr[s].img
           \/ ctr'[s] = Absent /\ pc[x] \in Creating /\ s = cur(x)
           \/ /\ CreateContainer(x) /\ pc[x] \in {"create", "again"} /\ s = cur(x)
              /\ ctr'[s].id = x /\ ctr'[s].img = ImageOf(x, s)
<1> DEFINE Same == ctr'[s].id = ctr[s].id /\ ctr'[s].img = ctr[s].img
           Gone == ctr'[s] = Absent /\ pc[x] \in Creating /\ s = cur(x)
           Made == /\ CreateContainer(x) /\ pc[x] \in {"create", "again"} /\ s = cur(x)
                   /\ ctr'[s].id = x /\ ctr'[s].img = ImageOf(x, s)
<1>0. cur(x) \in Services
  BY RunParts DEF Typed, RunType, cur
<1>a. UNCHANGED ctr => Same
  OBVIOUS
<1>b. CreateContainer(x) /\ pc[x] \in {"create", "again"} => Same \/ Made
  BY CreateImage
<1>c. ctr' = [ctr EXCEPT ![cur(x)] = Absent] /\ pc[x] \in Creating => Same \/ Gone
  BY <1>0 DEF Typed, HostType
<1>d. ctr' = [ctr EXCEPT ![cur(x)].st = "running"] => Same
  BY <1>0 DEF Typed, HostType, Container
<1> HIDE DEF Same, Gone, Made
<1> SUFFICES Same \/ Gone \/ Made
  BY DEF Same, Gone, Made
<1>1. CASE Trigger(x)
  BY <1>a, <1>1 DEF Trigger, hostVars
<1>2. CASE SetAppAutoUpdate(x)
  BY <1>a, <1>2 DEF SetAppAutoUpdate, hostVars
<1>3. CASE AcquireSem(x)
  BY <1>a, <1>3 DEF AcquireSem, hostVars
<1>4. CASE TryLock(x)
  BY <1>a, <1>4 DEF TryLock, hostVars
<1>5. CASE Cooldown(x)
  BY <1>a, <1>5 DEF Cooldown, hostVars
<1>6. CASE Skip(x)
  BY <1>a, <1>6 DEF Skip, hostVars
<1>7. CASE Begin(x)
  BY <1>a, <1>7 DEF Begin, hostVars
<1>8. CASE Pull(x)
  BY <1>a, <1>8 DEF Pull, hostVars
<1>9. CASE PullFails(x)
  BY <1>a, <1>9 DEF PullFails, hostVars
<1>10. CASE Create(x)
  BY <1>a, <1>b, <1>10 DEF Create
<1>11. CASE Replace(x)
  BY <1>c, <1>11 DEF Replace, Creating
<1>12. CASE CreateAgain(x)
  BY <1>b, <1>12 DEF CreateAgain
<1>13. CASE Start(x)
  BY <1>d, <1>13 DEF Start
<1>14. CASE StartFails(x)
  BY <1>a, <1>c, <1>14 DEF StartFails, Creating
<1>15. CASE DeployFails(x)
  BY <1>a, <1>15 DEF DeployFails, hostVars
<1>16. CASE ProbeLists(x)
  BY <1>a, <1>16 DEF ProbeLists, hostVars
<1>17. CASE Unhealthy(x)
  BY <1>a, <1>17 DEF Unhealthy, hostVars
<1>18. ASSUME NEW i \in Services, Fetch(x, i) PROVE Same \/ Gone \/ Made
  BY <1>a, <1>18 DEF Fetch, hostVars
<1>19. ASSUME NEW i \in Services, Healthy(x, i) PROVE Same \/ Gone \/ Made
  BY <1>a, <1>19 DEF Healthy, hostVars
<1> QED
  BY <1>1, <1>2, <1>3, <1>4, <1>5, <1>6, <1>7, <1>8, <1>9, <1>10, <1>11, <1>12, <1>13, <1>14,
     <1>15, <1>16, <1>17, <1>18, <1>19 DEF AttemptStep, Step

\* What was captured stays captured; Begin captures what runs.
LEMMA StepDigests ==
    ASSUME Typed, NEW x \in Attempts, AttemptStep(x), NEW s \in Services
    PROVE  prev(x)'[s] \in {prev(x)[s], NoDigest} \/ (Begin(x) /\ prev(x)'[s] = ctr[s].img)
<1> run[x] \in Run /\ run \in [Attempts -> Run]
  BY DEF Typed, RunType
<1> DEFINE Kept == run'[x].prev = run[x].prev \/ run'[x].prev[s] = NoDigest
<1> SUFFICES ASSUME ~Begin(x) PROVE Kept
  <2>1. ASSUME Begin(x) PROVE run'[x].prev[s] \in {ctr[s].img, NoDigest}
    <3>1. PICK missing \in SUBSET Services : run' = [run EXCEPT ![x].prev = Digests(missing)]
      BY <2>1 DEF Begin
    <3>2. run'[x].prev = Digests(missing)
      BY <3>1 DEF Run
    <3> QED
      BY <3>2 DEF Digests
  <2> QED
    BY <2>1 DEF prev
<1>a. Leave(x) => Kept
  BY DEF Leave, Fresh
<1>b. ASSUME NEW ss PROVE Loop(x, ss) => Kept
  BY DEF Loop, Run
<1>c. Rollback(x) => Kept
  BY <1>a DEF Rollback, prev, Fresh
<1>d. UNCHANGED run => Kept
  OBVIOUS
<1>e. AfterFailure(x) => Kept
  BY <1>a, <1>c DEF AfterFailure
<1> HIDE DEF Kept
<1>1. CASE Trigger(x)
  BY <1>d, <1>1 DEF Trigger
<1>2. CASE SetAppAutoUpdate(x)
  BY <1>b, <1>2 DEF SetAppAutoUpdate
<1>3. CASE AcquireSem(x)
  BY <1>d, <1>3 DEF AcquireSem
<1>4. CASE TryLock(x)
  BY <1>a, <1>d, <1>4 DEF TryLock
<1>5. CASE Cooldown(x)
  BY <1>a, <1>d, <1>5 DEF Cooldown
<1>6. CASE Skip(x)
  BY <1>a, <1>6 DEF Skip
<1>7. CASE Begin(x)
  BY <1>7
<1>8. CASE Pull(x)
  BY <1>b, <1>8 DEF Pull
<1>9. CASE PullFails(x)
  BY <1>a, <1>9 DEF PullFails
<1>10. CASE Create(x)
  <2>1. UNCHANGED run \/ run' = [run EXCEPT ![x].seen[cur(x)] = ctr[cur(x)].id]
    BY <1>10 DEF Create
  <2> QED
    BY <2>1 DEF Kept, Run
<1>11. CASE Replace(x)
  BY <1>d, <1>11 DEF Replace
<1>12. CASE CreateAgain(x)
  BY <1>d, <1>12 DEF CreateAgain
<1>13. CASE Start(x)
  <2>1. DeployEnds(x) => Kept
    BY <1>a, <1>b DEF DeployEnds
  <2> QED
    BY <1>13, <2>1 DEF Start, Kept, Run
<1>14. CASE StartFails(x)
  BY <1>e, <1>14 DEF StartFails
<1>15. CASE DeployFails(x)
  BY <1>e, <1>15 DEF DeployFails
<1>16. CASE ProbeLists(x)
  BY <1>16 DEF ProbeLists, Kept, Run
<1>17. CASE Unhealthy(x)
  BY <1>c, <1>17 DEF Unhealthy
<1>18. ASSUME NEW i \in Services, Fetch(x, i) PROVE Kept
  BY <1>18 DEF Fetch, Kept, Run
<1>19. ASSUME NEW i \in Services, Healthy(x, i) PROVE Kept
  BY <1>a, <1>b, <1>d, <1>19 DEF Healthy
<1> QED
  BY <1>1, <1>2, <1>3, <1>4, <1>5, <1>6, <1>7, <1>8, <1>9, <1>10, <1>11, <1>12, <1>13, <1>14,
     <1>15, <1>16, <1>17, <1>18, <1>19 DEF AttemptStep, Step

\* The tag follows the registry.
LEMMA StepTag ==
    ASSUME NEW x \in Attempts, AttemptStep(x)
    PROVE  tag' = tag \/ tag' = remote
<1>1. CASE Trigger(x)
  BY <1>1 DEF Trigger, hostVars
<1>2. CASE SetAppAutoUpdate(x)
  BY <1>2 DEF SetAppAutoUpdate, hostVars
<1>3. CASE AcquireSem(x)
  BY <1>3 DEF AcquireSem, hostVars
<1>4. CASE TryLock(x)
  BY <1>4 DEF TryLock, hostVars
<1>5. CASE Cooldown(x)
  BY <1>5 DEF Cooldown, hostVars
<1>6. CASE Skip(x)
  BY <1>6 DEF Skip, hostVars
<1>7. CASE Begin(x)
  BY <1>7 DEF Begin, hostVars
<1>8. CASE Pull(x)
  BY <1>8 DEF Pull, PullImage, hostVars
<1>9. CASE PullFails(x)
  BY <1>9 DEF PullFails, hostVars
<1>10. CASE Create(x)
  BY <1>10 DEF Create, hostVars
<1>11. CASE Replace(x)
  BY <1>11 DEF Replace, hostVars
<1>12. CASE CreateAgain(x)
  BY <1>12 DEF CreateAgain, hostVars
<1>13. CASE Start(x)
  BY <1>13 DEF Start, hostVars
<1>14. CASE StartFails(x)
  BY <1>14 DEF StartFails, hostVars
<1>15. CASE DeployFails(x)
  BY <1>15 DEF DeployFails, hostVars
<1>16. CASE ProbeLists(x)
  BY <1>16 DEF ProbeLists, hostVars
<1>17. CASE Unhealthy(x)
  BY <1>17 DEF Unhealthy, hostVars
<1>18. ASSUME NEW s \in Services, Fetch(x, s) PROVE tag' = tag \/ tag' = remote
  BY <1>18 DEF Fetch, PullImage, hostVars
<1>19. ASSUME NEW s \in Services, Healthy(x, s) PROVE tag' = tag \/ tag' = remote
  BY <1>19 DEF Healthy, hostVars
<1> QED
  BY <1>1, <1>2, <1>3, <1>4, <1>5, <1>6, <1>7, <1>8, <1>9, <1>10, <1>11, <1>12, <1>13, <1>14,
     <1>15, <1>16, <1>17, <1>18, <1>19 DEF AttemptStep, Step

LEMMA NewestStep ==
    ASSUME Typed, PlaceInv, NewestInv, (\E x \in Attempts : AttemptStep(x)) \/ Around
    PROVE  NewestInv'
<1>a. remote \in Nat /\ tag \in Nat /\ MaxRelease \in Nat /\ \A s \in Services : ctr[s].img \in Nat
  BY AutoUpdateAssumption DEF Typed, HostType, Container, Releases
<1>b. ASSUME NEW x \in Attempts, NEW s \in Services PROVE prev(x)[s] \in Nat
  <2>1. prev(x) \in [Services -> Releases \union {NoDigest}]
    BY RunParts DEF Typed, RunType, prev
  <2> QED
    BY <2>1, <1>a DEF Releases, NoDigest
<1> USE <1>a, <1>b
<1>1. ASSUME NEW x \in Attempts, AttemptStep(x) PROVE NewestInv'
  <2>1. Frame(x)
    BY <1>1, StepFrame, TypesTogether
  <2>2. tag' <= remote' /\ tag <= tag' /\ tag' \in Nat
    BY <1>1, <2>1, StepTag DEF Frame, NewestInv
  <2>3. \A s \in Services : ImageOf(x, s) <= tag /\ ImageOf(x, s) \in Nat
    BY DEF ImageOf, Pinned, NewestInv
  <2>4. \A s \in Services : ctr'[s].img <= tag'
    BY <1>1, <2>2, <2>3, StepContainers DEF NewestInv, Absent
  <2>5. ASSUME NEW y \in Attempts, NEW s \in Services, prev(y)'[s] # NoDigest
        PROVE  prev(y)'[s] <= tag'
    <3>1. CASE y = x
      BY <1>1, <2>2, <2>5, <3>1, StepDigests DEF NewestInv
    <3>2. CASE y # x
      BY <2>1, <2>2, <2>5, <3>2 DEF Frame, NewestInv, prev
    <3> QED
      BY <3>1, <3>2
  <2> QED
    BY <2>2, <2>4, <2>5 DEF NewestInv
<1>2. ASSUME Around, ~Restart PROVE NewestInv'
  <2>1. /\ UNCHANGED <<run, tag>> /\ remote <= remote' /\ remote' \in Nat
        /\ \A s \in Services : ctr'[s].img = ctr[s].img
    BY <1>2, AroundFrame, AroundTypes DEF Typed, HostType, Releases
  <2>2. tag \in Nat
    BY DEF Typed, HostType, Releases
  <2> QED
    BY <2>1, <2>2 DEF NewestInv, prev
<1>3. ASSUME Restart PROVE NewestInv'
  BY <1>3 DEF Restart, NewestInv, prev, Fresh
<1> QED
  BY <1>1, <1>2, <1>3

LEMMA PulledStep ==
    ASSUME Typed, PlaceInv, MutexInv, NewestInv, PulledInv, (\E x \in Attempts : AttemptStep(x)) \/ Around
    PROVE  PulledInv'
<1>1. ASSUME NEW x \in Attempts, AttemptStep(x), NEW y \in Attempts, y # x PROVE PulledAt(y)'
  <2>1. Frame(x) /\ Alone(x)
    BY <1>1, StepFrame, StepAlone, TypesTogether
  <2>2. SUFFICES ASSUME Worker(y), pc[y] \in {"create", "replace", "again"} PROVE tag' = tag
    BY <1>1, <2>1 DEF PulledInv, PulledAt, Frame, Worker, prev, back
  <2>3. mutex = y
    BY <2>2 DEF MutexInv, MutexAt, Held
  <2> QED
    BY <1>1, <2>1, <2>3 DEF Alone, Quiet, MutexInv, MutexAt
<1>2. ASSUME NEW x \in Attempts, AttemptStep(x) PROVE PulledAt(x)'
  <2>1. Frame(x)
    BY <1>2, StepFrame, TypesTogether
  <2>2. SUFFICES ASSUME Worker(x), ~back(x)', pc'[x] \in {"create", "replace", "again"},
                        NEW i \in Services, prev(x)'[i] # NoDigest
                 PROVE  prev(x)'[i] <= tag'
    BY <2>1 DEF PulledAt, Frame, Worker
  <2>3. run[x] \in Run /\ pc[x] \in Places /\ x \in Attempts /\ run \in [Attempts -> Run] /\ pc \in [Attempts -> Places]
    BY DEF Typed, RunType, PlaceType
  <2>4. PulledAt(x) /\ (prev(x)[i] # NoDigest => prev(x)[i] <= tag)
    BY DEF PulledInv, NewestInv
  <2>5. ASSUME NEW s \in Services, Fetch(x, s) PROVE prev(x)'[i] <= tag'
    <3>1. run' = [run EXCEPT ![x].cur = s] /\ tag <= tag'
      <4>1. /\ run' = [run EXCEPT ![x].cur = s] /\ (tag' = tag \/ tag' = remote)
        BY <2>5 DEF Fetch, PullImage
      <4>2. tag <= remote /\ tag \in Nat
        BY DEF NewestInv, Typed, HostType, Releases
      <4> QED
        BY <4>1, <4>2
    <3>2. prev(x)' = prev(x) /\ back(x)' = back(x)
      BY <2>3, <3>1 DEF prev, back, Run
    <3> QED
      <4>1. tag \in Nat /\ tag' \in Nat /\ prev(x)[i] \in Nat
        <5>1. tag \in Nat /\ tag' \in {tag, remote} /\ remote \in Nat
          BY <1>2, StepTag DEF Typed, HostType, Releases
        <5>2. prev(x) \in [Services -> Releases \union {NoDigest}] /\ MaxRelease \in Nat
          BY AutoUpdateAssumption, RunParts DEF Typed, RunType, prev
        <5> QED
          BY <5>1, <5>2 DEF Releases, NoDigest
      <4> QED
        BY <2>2, <2>4, <3>1, <3>2, <4>1
  <2>6. CASE Create(x) \/ Replace(x)
    <3>1. /\ tag' = tag /\ pc[x] \in {"create", "replace", "again"}
          /\ run' = run \/ run' = [run EXCEPT ![x].seen[cur(x)] = ctr[cur(x)].id]
      BY <2>6 DEF Create, Replace
    <3>2. prev(x)' = prev(x) /\ back(x)' = back(x)
      BY <2>3, <3>1 DEF prev, back, Run
    <3> QED
      BY <2>2, <2>4, <3>1, <3>2 DEF PulledAt
  <2>7. CASE Trigger(x)
    BY <2>2, <2>3, <2>7 DEF Trigger, Goto
  <2>8. CASE SetAppAutoUpdate(x)
    BY <2>2, <2>3, <2>8 DEF SetAppAutoUpdate, Goto
  <2>9. CASE AcquireSem(x)
    BY <2>2, <2>3, <2>9 DEF AcquireSem, Goto
  <2>10. CASE TryLock(x)
    BY <2>2, <2>3, <2>10 DEF TryLock, Goto, Leave
  <2>11. CASE Cooldown(x)
    BY <2>2, <2>3, <2>11 DEF Cooldown, Goto, Leave
  <2>12. CASE Skip(x)
    BY <2>2, <2>3, <2>12 DEF Skip, Goto, Leave
  <2>13. CASE Begin(x)
    BY <2>2, <2>3, <2>13 DEF Begin, Goto
  <2>14. CASE Pull(x)
    BY <2>2, <2>3, <2>14 DEF Pull, Goto
  <2>15. CASE PullFails(x)
    BY <2>2, <2>3, <2>15 DEF PullFails, Goto, Leave
  <2>16. CASE CreateAgain(x)
    BY <2>2, <2>3, <2>16 DEF CreateAgain, Goto
  <2>17. CASE Start(x)
    BY <2>2, <2>3, <2>17 DEF Start, Goto, Leave, DeployEnds
  <2>18. CASE StartFails(x)
    BY <2>2, <2>3, <2>18 DEF StartFails, Goto, Leave, AfterFailure, Rollback
  <2>19. CASE DeployFails(x)
    BY <2>2, <2>3, <2>19 DEF DeployFails, Goto, Leave, AfterFailure, Rollback
  <2>20. CASE ProbeLists(x)
    BY <2>2, <2>3, <2>20 DEF ProbeLists, Goto
  <2>21. CASE Unhealthy(x)
    BY <2>2, <2>3, <2>21 DEF Unhealthy, Goto, Leave, Rollback
  <2>22. ASSUME NEW s \in Services, Healthy(x, s) PROVE FALSE
    BY <2>2, <2>3, <2>22 DEF Healthy, Goto, Leave
  <2> QED
    BY <1>2, <2>5, <2>6, <2>7, <2>8, <2>9, <2>10, <2>11, <2>12, <2>13, <2>14, <2>15, <2>16, <2>17,
       <2>18, <2>19, <2>20, <2>21, <2>22 DEF AttemptStep, Step
<1>3. ASSUME Around, ~Restart PROVE PulledInv'
  <2>1. UNCHANGED <<kind, run, tag>> /\ \A y \in Attempts : pc'[y] = pc[y] \/ pc'[y] = "queued"
    BY <1>3, AroundFrame
  <2> QED
    BY <2>1 DEF PulledInv, PulledAt, Worker, prev, back
<1>4. ASSUME Restart PROVE PulledInv'
  <2>1. \A y \in Attempts : pc'[y] \in {"idle", "over", "killed"}
    BY <1>4 DEF Restart
  <2> QED
    BY <2>1 DEF PulledInv, PulledAt
<1> QED
  BY <1>1, <1>2, <1>3, <1>4 DEF PulledInv

\* A toggle that has begun has begun for good.
LEMMA ToggledStays ==
    ASSUME Typed, PlaceInv, (\E x \in Attempts : AttemptStep(x)) \/ Around, Toggled PROVE Toggled'
<1>0. PICK y \in Attempts : ~Worker(y) /\ pc[y] # "idle"
  BY DEF Toggled, Worker
<1>1. ASSUME NEW x \in Attempts, AttemptStep(x) PROVE kind' = kind /\ pc'[y] # "idle"
  <2>1. Frame(x)
    BY <1>1, StepFrame, TypesTogether
  <2>2. pc'[x] # "idle" \/ pc'[x] = pc[x]
    <3> pc \in [Attempts -> Places]
      BY DEF Typed, PlaceType
    <3>1. CASE Trigger(x)
      BY <3>1 DEF Trigger, Goto
    <3>2. CASE SetAppAutoUpdate(x)
      BY <3>2 DEF SetAppAutoUpdate, Goto
    <3>3. CASE AcquireSem(x)
      BY <3>3 DEF AcquireSem, Goto
    <3>4. CASE TryLock(x)
      BY <3>4 DEF TryLock, Goto, Leave
    <3>5. CASE Cooldown(x)
      BY <3>5 DEF Cooldown, Goto, Leave
    <3>6. CASE Skip(x)
      BY <3>6 DEF Skip, Goto, Leave
    <3>7. CASE Begin(x)
      BY <3>7 DEF Begin, Goto
    <3>8. CASE Pull(x)
      BY <3>8 DEF Pull, Goto
    <3>9. CASE PullFails(x)
      BY <3>9 DEF PullFails, Goto, Leave
    <3>10. CASE Create(x)
      BY <3>10 DEF Create, Goto
    <3>11. CASE Replace(x)
      BY <3>11 DEF Replace, Goto
    <3>12. CASE CreateAgain(x)
      BY <3>12 DEF CreateAgain, Goto
    <3>13. CASE Start(x)
      BY <3>13 DEF Start, Goto, Leave, DeployEnds
    <3>14. CASE StartFails(x)
      BY <3>14 DEF StartFails, Goto, Leave, AfterFailure, Rollback
    <3>15. CASE DeployFails(x)
      BY <3>15 DEF DeployFails, Goto, Leave, AfterFailure, Rollback
    <3>16. CASE ProbeLists(x)
      BY <3>16 DEF ProbeLists, Goto
    <3>17. CASE Unhealthy(x)
      BY <3>17 DEF Unhealthy, Goto, Leave, Rollback
    <3>18. ASSUME NEW s \in Services, Fetch(x, s) PROVE pc'[x] # "idle" \/ pc'[x] = pc[x]
      BY <3>18 DEF Fetch, Goto
    <3>19. ASSUME NEW s \in Services, Healthy(x, s) PROVE pc'[x] # "idle" \/ pc'[x] = pc[x]
      BY <3>19 DEF Healthy, Goto, Leave
    <3> QED
      BY <1>1, <3>1, <3>2, <3>3, <3>4, <3>5, <3>6, <3>7, <3>8, <3>9, <3>10, <3>11, <3>12, <3>13,
         <3>14, <3>15, <3>16, <3>17, <3>18, <3>19 DEF AttemptStep, Step
  <2> QED
    BY <1>0, <2>1, <2>2 DEF Frame
<1>2. ASSUME Around, ~Restart PROVE kind' = kind /\ pc'[y] # "idle"
  BY <1>0, <1>2, AroundFrame
<1>3. ASSUME Restart PROVE kind' = kind /\ pc'[y] # "idle"
  BY <1>0, <1>3 DEF Restart
<1>4. kind' = kind /\ pc'[y] # "idle"
  BY <1>1, <1>2, <1>3
<1> QED
  BY <1>0, <1>4 DEF Toggled, Worker

-----------------------------------------------------------------------------
(* What a deploy has done *)

\* The image that a deploy of x creates is the one it should have.
LEMMA ImageIsGood ==
    ASSUME PulledInv, NEW x \in Attempts, Worker(x), pc[x] \in {"create", "again"},
           NEW s \in Services, prev(x)[s] # NoDigest
    PROVE  IF back(x) THEN ImageOf(x, s) = prev(x)[s] ELSE prev(x)[s] <= ImageOf(x, s)
BY DEF PulledInv, PulledAt, ImageOf, Pinned

\* Where x goes when it is not in the middle of a deploy or of a probe.
Outside(x) ==
    \/ pc'[x] \notin Deploying \union {"list", "probe"}
    \/ pc'[x] = "fetch" /\ todo(x)' = Services

\* A step that leaves what x had captured, and its containers.
LEMMA StaysGood ==
    ASSUME NEW x \in Attempts, prev(x)' = prev(x), back(x)' = back(x), NEW s \in Services,
           ctr'[s].id = ctr[s].id, ctr'[s].img = ctr[s].img, Good(x, s)
    PROVE  Good(x, s)'
BY DEF Good

LEMMA OwnDone ==
    ASSUME Typed, NEW x \in Attempts, PlaceAt(x), PulledInv, DoneAt(x), ~Toggled, Worker(x), AttemptStep(x)
    PROVE  /\ pc'[x] \in Deploying => \A s \in Services \ todo(x)' : Good(x, s)'
           /\ pc'[x] = "start" => \A s \in Services : s = cur(x)' => Good(x, s)'
           /\ pc'[x] \in {"list", "probe"} => \A s \in Services : Good(x, s)'
<1> DEFINE Goal ==
        /\ pc'[x] \in Deploying => \A s \in Services \ todo(x)' : Good(x, s)'
        /\ pc'[x] = "start" => \A s \in Services : s = cur(x)' => Good(x, s)'
        /\ pc'[x] \in {"list", "probe"} => \A s \in Services : Good(x, s)'
<1> SUFFICES Goal
  OBVIOUS
<1>a. /\ run[x] \in Run /\ pc[x] \in Places
      /\ run \in [Attempts -> Run] /\ pc \in [Attempts -> Places]
      /\ cur(x) \in Services /\ todo(x) \subseteq Services
  BY RunParts DEF Typed, RunType, PlaceType, cur, todo
<1>b. Outside(x) => Goal
  BY DEF Outside, Deploying
<1>c. Leave(x) => Outside(x)
  BY <1>a DEF Leave, Goto, Outside, Deploying
<1>d. Rollback(x) => Outside(x)
  <2>1. ASSUME run' = [run EXCEPT ![x] = [Fresh EXCEPT !.back = TRUE, !.todo = Services, !.prev = prev(x)]]
        PROVE  todo(x)' = Services
    BY <1>a, <2>1 DEF todo, Fresh
  <2>2. CASE Goto(x, "fetch") /\ todo(x)' = Services
    BY <1>a, <2>2 DEF Goto, Outside
  <2> QED
    BY <1>c, <2>1, <2>2 DEF Rollback
<1>e. AfterFailure(x) => Outside(x)
  BY <1>c, <1>d DEF AfterFailure
<1>f. /\ pc[x] \in Deploying => \A s \in Services \ todo(x) : Good(x, s)
      /\ pc[x] = "start" => Good(x, cur(x))
      /\ pc[x] \in {"list", "probe"} => \A s \in Services : Good(x, s)
      /\ pc[x] \in Creating => cur(x) \in todo(x)
  BY DEF DoneAt, PlaceAt
<1> HIDE DEF Goal
<1>1. CASE Trigger(x)
  BY <1>a, <1>b, <1>1 DEF Trigger, Goto, Outside, Deploying
<1>2. CASE SetAppAutoUpdate(x)
  BY <1>2 DEF SetAppAutoUpdate, Worker
<1>3. CASE AcquireSem(x)
  BY <1>a, <1>b, <1>3 DEF AcquireSem, Goto, Outside, Deploying
<1>4. CASE TryLock(x)
  BY <1>a, <1>b, <1>c, <1>4 DEF TryLock, Goto, Outside, Deploying
<1>5. CASE Cooldown(x)
  BY <1>a, <1>b, <1>c, <1>5 DEF Cooldown, Goto, Outside, Deploying
<1>6. CASE Skip(x)
  BY <1>a, <1>b, <1>c, <1>6 DEF Skip, Goto, Outside, Deploying
<1>7. CASE Begin(x)
  BY <1>a, <1>b, <1>7 DEF Begin, Goto, Outside, Deploying
<1>8. CASE Pull(x)
  <2>1. pc'[x] = "fetch" /\ run' = [run EXCEPT ![x].todo = Services]
    BY <1>a, <1>8 DEF Pull, Goto, Loop
  <2> QED
    BY <1>a, <1>b, <2>1 DEF Outside, todo, Run
<1>9. CASE PullFails(x)
  BY <1>a, <1>b, <1>c, <1>9 DEF PullFails, Goto, Outside, Deploying
<1>10. CASE Create(x)
  <2>1. /\ pc[x] \in {"create", "again"}
        /\ \/ pc'[x] = "start" /\ CreateContainer(x) /\ UNCHANGED run
           \/ /\ pc'[x] = "replace" /\ ctr' = ctr
              /\ run' = [run EXCEPT ![x].seen[cur(x)] = ctr[cur(x)].id]
    BY <1>a, <1>10 DEF Create, Goto
  <2>2. todo(x)' = todo(x) /\ prev(x)' = prev(x) /\ back(x)' = back(x) /\ cur(x)' = cur(x)
    BY <1>a, <2>1 DEF todo, prev, back, cur, Run
  <2>3. CASE pc'[x] = "replace" /\ ctr' = ctr
    BY <1>f, <2>1, <2>2, <2>3, StaysGood DEF Goal, Deploying
  <2>4. CASE pc'[x] = "start" /\ CreateContainer(x)
    <3>1. /\ ctr'[cur(x)].id = x /\ ctr'[cur(x)].img = ImageOf(x, cur(x))
          /\ \A s \in Services : s # cur(x) => ctr'[s] = ctr[s]
      BY <2>4, CreateImage
    <3>2. ASSUME NEW s \in Services, s = cur(x) PROVE Good(x, s)'
      BY <2>1, <2>2, <3>1, <3>2, ImageIsGood DEF Good
    <3>3. ASSUME NEW s \in Services \ todo(x) PROVE Good(x, s)'
      BY <1>f, <2>1, <2>2, <3>1, <3>3, StaysGood DEF Creating, Deploying
    <3> QED
      BY <2>2, <2>4, <3>2, <3>3 DEF Goal, Deploying
  <2> QED
    BY <2>1, <2>3, <2>4
<1>11. CASE Replace(x)
  <2>1. /\ pc[x] = "replace" /\ pc'[x] = "again" /\ UNCHANGED run
        /\ ctr' = [ctr EXCEPT ![cur(x)] = Absent]
    BY <1>a, <1>11 DEF Replace, Goto
  <2>2. todo(x)' = todo(x) /\ prev(x)' = prev(x) /\ back(x)' = back(x)
    BY <2>1 DEF todo, prev, back
  <2>3. ASSUME NEW s \in Services \ todo(x) PROVE Good(x, s)'
    <3>1. ctr'[s] = ctr[s]
      BY <1>f, <2>1, <2>3 DEF Creating, Typed, HostType
    <3> QED
      BY <1>f, <2>1, <2>2, <2>3, <3>1, StaysGood DEF Deploying
  <2> QED
    BY <2>1, <2>2, <2>3 DEF Goal, Deploying
<1>12. CASE CreateAgain(x)
  <2>1. /\ pc[x] \in {"create", "again"}
        /\ \/ pc'[x] = "start" /\ CreateContainer(x) /\ UNCHANGED run
           \/ /\ pc'[x] = "replace" /\ ctr' = ctr
              /\ run' = [run EXCEPT ![x].seen[cur(x)] = ctr[cur(x)].id]
    BY <1>a, <1>12 DEF CreateAgain, Goto
  <2>2. todo(x)' = todo(x) /\ prev(x)' = prev(x) /\ back(x)' = back(x) /\ cur(x)' = cur(x)
    BY <1>a, <2>1 DEF todo, prev, back, cur, Run
  <2>3. CASE pc'[x] = "replace" /\ ctr' = ctr
    BY <1>f, <2>1, <2>2, <2>3, StaysGood DEF Goal, Deploying
  <2>4. CASE pc'[x] = "start" /\ CreateContainer(x)
    <3>1. /\ ctr'[cur(x)].id = x /\ ctr'[cur(x)].img = ImageOf(x, cur(x))
          /\ \A s \in Services : s # cur(x) => ctr'[s] = ctr[s]
      BY <2>4, CreateImage
    <3>2. ASSUME NEW s \in Services, s = cur(x) PROVE Good(x, s)'
      BY <2>1, <2>2, <3>1, <3>2, ImageIsGood DEF Good
    <3>3. ASSUME NEW s \in Services \ todo(x) PROVE Good(x, s)'
      BY <1>f, <2>1, <2>2, <3>1, <3>3, StaysGood DEF Creating, Deploying
    <3> QED
      BY <2>2, <2>4, <3>2, <3>3 DEF Goal, Deploying
  <2> QED
    BY <2>1, <2>3, <2>4
<1>13. CASE Start(x)
  <2>1. pc[x] = "start" /\ ctr' = [ctr EXCEPT ![cur(x)].st = "running"]
    BY <1>13 DEF Start
  <2>2. \A s \in Services : ctr'[s].id = ctr[s].id /\ ctr'[s].img = ctr[s].img
    BY <1>a, <2>1 DEF Typed, HostType, Container
  <2>3. \A s \in Services \ (todo(x) \ {cur(x)}) : Good(x, s)
    BY <1>f, <2>1 DEF Deploying
  <2>4. CASE todo(x) # {cur(x)}
    <3>1. pc'[x] = "fetch" /\ run' = [run EXCEPT ![x].todo = @ \ {cur(x)}, ![x].seen = Fresh.seen]
      BY <1>a, <1>13, <2>4 DEF Start, Goto
    <3>2. todo(x)' = todo(x) \ {cur(x)} /\ prev(x)' = prev(x) /\ back(x)' = back(x)
      BY <1>a, <3>1 DEF todo, prev, back, Run
    <3> QED
      BY <2>2, <2>3, <3>1, <3>2, StaysGood DEF Goal
  <2>5. CASE Leave(x)
    BY <1>b, <1>c, <2>5
  <2>6. CASE todo(x) = {cur(x)} /\ Goto(x, "list") /\ Loop(x, {})
    <3>1. prev(x)' = prev(x) /\ back(x)' = back(x)
      BY <1>a, <2>6 DEF Loop, prev, back, Run
    <3>2. pc'[x] = "list"
      BY <1>a, <2>6 DEF Goto
    <3> QED
      BY <2>2, <2>3, <2>6, <3>1, <3>2, StaysGood DEF Goal, Deploying
  <2> QED
    BY <1>13, <2>4, <2>5, <2>6 DEF Start, DeployEnds
<1>14. CASE StartFails(x)
  BY <1>b, <1>e, <1>14 DEF StartFails
<1>15. CASE DeployFails(x)
  BY <1>b, <1>e, <1>15 DEF DeployFails
<1>16. CASE ProbeLists(x)
  <2>1. /\ pc[x] = "list" /\ pc'[x] = "probe" /\ UNCHANGED ctr
        /\ run' = [run EXCEPT ![x] = [@ EXCEPT !.todo = {s \in Services : ctr[s].st # "none"},
                                              !.seen = [s \in Services |-> ctr[s].id]]]
    BY <1>a, <1>16 DEF ProbeLists, Goto, hostVars
  <2>2. prev(x)' = prev(x) /\ back(x)' = back(x)
    BY <1>a, <2>1 DEF prev, back, Run
  <2> QED
    BY <1>f, <2>1, <2>2, StaysGood DEF Goal, Deploying
<1>17. CASE Unhealthy(x)
  BY <1>b, <1>d, <1>17 DEF Unhealthy
<1>18. ASSUME NEW i \in Services, Fetch(x, i) PROVE Goal
  <2>1. /\ pc[x] = "fetch" /\ pc'[x] = "create" /\ run' = [run EXCEPT ![x].cur = i] /\ ctr' = ctr
    BY <1>a, <1>18 DEF Fetch, Goto
  <2>2. todo(x)' = todo(x) /\ prev(x)' = prev(x) /\ back(x)' = back(x)
    BY <1>a, <2>1 DEF todo, prev, back, Run
  <2> QED
    BY <1>f, <2>1, <2>2, StaysGood DEF Goal, Deploying
<1>19. ASSUME NEW i \in Services, Healthy(x, i) PROVE Goal
  <2>1. CASE Leave(x)
    BY <1>b, <1>c, <2>1
  <2>2. CASE Loop(x, todo(x) \ {i}) /\ UNCHANGED pc
    <3>1. prev(x)' = prev(x) /\ back(x)' = back(x)
      BY <1>a, <2>2 DEF Loop, prev, back, Run
    <3>2. pc'[x] = "probe" /\ pc[x] = "probe" /\ UNCHANGED ctr
      BY <1>19, <2>2 DEF Healthy, hostVars
    <3> QED
      BY <1>f, <3>1, <3>2, StaysGood DEF Goal, Deploying
  <2> QED
    BY <1>19, <2>1, <2>2 DEF Healthy
<1> QED
  BY <1>1, <1>2, <1>3, <1>4, <1>5, <1>6, <1>7, <1>8, <1>9, <1>10, <1>11, <1>12, <1>13, <1>14,
     <1>15, <1>16, <1>17, <1>18, <1>19 DEF AttemptStep, Step

LEMMA DoneStep ==
    ASSUME Typed, PlaceInv, MutexInv, PulledInv, DoneInv, (\E x \in Attempts : AttemptStep(x)) \/ Around
    PROVE  DoneInv'
<1> SUFFICES ASSUME ~Toggled', NEW y \in Attempts, Worker(y)' PROVE DoneAt(y)'
  BY DEF DoneInv, DoneAt
<1>0. ~Toggled /\ DoneAt(y)
  BY ToggledStays DEF DoneInv
<1>1. ASSUME NEW x \in Attempts, AttemptStep(x), y # x PROVE DoneAt(y)'
  <2>1. Frame(x) /\ Alone(x)
    BY <1>1, StepFrame, StepAlone, TypesTogether
  <2>2. Worker(y) /\ pc'[y] = pc[y] /\ run'[y] = run[y]
    BY <1>1, <2>1 DEF Frame, Worker
  <2>3. SUFFICES ASSUME pc[y] \in Deploying \union {"list", "probe"} PROVE ctr' = ctr
    BY <1>0, <2>2 DEF DoneAt, Good, prev, back, cur, todo, Deploying
  <2>4. mutex = y
    BY <2>2, <2>3 DEF MutexInv, MutexAt, Held, Deploying
  <2> QED
    BY <1>0, <1>1, <2>1, <2>4 DEF Alone, MutexInv, MutexAt, Toggled, Worker
<1>2. ASSUME AttemptStep(y) PROVE DoneAt(y)'
  <2>1. Worker(y)
    BY <1>2, StepFrame, TypesTogether DEF Frame, Worker
  <2>2. cur(y)' \in Services
    BY <1>2, RunTypes, RunParts DEF RunType, cur
  <2> QED
    BY <1>0, <1>2, <2>1, <2>2, OwnDone DEF PlaceInv, DoneAt
<1>3. ASSUME Around, ~Restart PROVE DoneAt(y)'
  <2>1. /\ UNCHANGED <<kind, run>> /\ (pc'[y] = pc[y] \/ pc'[y] = "queued")
        /\ \A s \in Services : ctr'[s].id = ctr[s].id /\ ctr'[s].img = ctr[s].img
    BY <1>3, AroundFrame
  <2>2. cur(y) \in Services
    BY RunParts DEF Typed, RunType, cur
  <2> QED
    BY <1>0, <2>1, <2>2 DEF DoneAt, Good, Worker, prev, back, cur, todo, Deploying
<1>4. ASSUME Restart PROVE DoneAt(y)'
  <2>1. pc'[y] \in {"idle", "over", "killed"}
    BY <1>4 DEF Restart
  <2> QED
    BY <2>1 DEF DoneAt, Deploying
<1> QED
  BY <1>1, <1>2, <1>3, <1>4

-----------------------------------------------------------------------------
(* The theorems *)

IInv == Typed /\ PlaceInv /\ MutexInv /\ CoolInv /\ NewestInv /\ PulledInv /\ DoneInv

LEMMA Starts == Init => IInv
<1> SUFFICES ASSUME Init PROVE IInv
  OBVIOUS
<1> USE AutoUpdateAssumption
<1>1. Typed
  <2>1. HostType
    <3>1. ASSUME NEW st \in {"running", "dead"} PROVE [Absent EXCEPT !.st = st] \in Container
      <4>1. \A c \in Container : [c EXCEPT !.st = st] \in Container
        BY <3>1 DEF Container
      <4> QED
        BY <4>1, AbsentTyped
    <3>2. ctr \in [Services -> Container]
      BY <3>1 DEF Init
    <3>3. remote \in Releases /\ tag \in Releases
      BY DEF Init, Releases
    <3>4. cache \in BOOLEAN /\ cancelled \in BOOLEAN
      BY DEF Init
    <3> QED
      BY <3>2, <3>3, <3>4 DEF HostType
  <2>2. PlaceType
    BY DEF Init, PlaceType, Places
  <2>3. RunType
    BY FreshTyped DEF Init, RunType
  <2>4. RecordType /\ SemType
    BY FS_EmptySet DEF Init, RecordType, SemType, Stages
  <2> QED
    BY <2>1, <2>2, <2>3, <2>4 DEF Typed
<1>2. PlaceInv /\ MutexInv /\ CoolInv /\ PulledInv /\ DoneInv
  BY DEF Init, PlaceInv, PlaceAt, MutexInv, MutexAt, CoolInv, CoolAt, PulledInv, PulledAt, DoneInv,
     DoneAt,
         Worker, Before, Held, Deploying, Creating
<1>3. NewestInv
  BY DEF Init, NewestInv, Absent, prev, Fresh
<1> QED
  BY <1>1, <1>2, <1>3 DEF IInv

LEMMA Steps == Next => (\E x \in Attempts : AttemptStep(x)) \/ Around
BY DEF Next, AttemptStep, Around

LEMMA Stutters == IInv /\ UNCHANGED vars => IInv'
<1> SUFFICES ASSUME IInv, UNCHANGED vars PROVE IInv'
  OBVIOUS
<1> USE DEF IInv, vars, hostVars, recVars, coolVars
<1>1. Typed'
  BY DEF Typed, HostType, PlaceType, RunType, RecordType, SemType
<1>2. PlaceInv' /\ MutexInv' /\ CoolInv'
  BY DEF PlaceInv, PlaceAt, MutexInv, MutexAt, CoolInv, CoolAt, Cooling, Worker, cur, todo, back
<1>3. NewestInv' /\ PulledInv' /\ DoneInv'
  BY DEF NewestInv, PulledInv, PulledAt, DoneInv, DoneAt, Toggled, Good, Worker, prev, back, cur,
     todo
<1> QED
  BY <1>1, <1>2, <1>3

LEMMA StepTypes == ASSUME Typed, NEW x \in Attempts, AttemptStep(x) PROVE Typed'
BY HostTypes, PlaceTypes, RunTypes, RecordTypes, SemTypes DEF Typed

LEMMA Inductive == IInv /\ [Next]_vars => IInv'
<1> SUFFICES ASSUME IInv, Next PROVE IInv'
  BY Stutters
<1>1. (\E x \in Attempts : AttemptStep(x)) \/ Around
  BY Steps
<1>2. Typed'
  BY <1>1, StepTypes, AroundTypes DEF IInv
<1> QED
  BY <1>1, <1>2, PlaceStep, MutexStep, CoolStep, NewestStep, PulledStep, DoneStep DEF IInv

LEMMA Invariance == Spec => []IInv
BY Starts, Inductive, PTL DEF Spec

\* The variables have their types; no more attempts than the capacity of w.sem
\* are between acquisition and release.
THEOREM UpdateTyping == Spec => []TypeOK
<1>1. IInv => TypeOK
  BY TypesTogether DEF IInv
<1> QED
  BY <1>1, Invariance, PTL

\* The record of an attempt that is over is in a terminal stage, unless a save
\* of it failed.
THEOREM UnfinishedExplained == Spec => []UnfinishedHasCause
<1>1. IInv => UnfinishedHasCause
  BY DEF IInv, PlaceInv, PlaceAt, UnfinishedHasCause
<1> QED
  BY <1>1, Invariance, PTL

\* No automatic attempt begins within the cooldown of another one's record.
THEOREM CooldownIsKept == Spec => CooldownHolds
<1>1. IInv => (\A x \in Attempts :
          kind[x] = "auto" /\ pc[x] = "plan" /\ pc'[x] = "pull" /\ x \notin blind =>
              \A y \in recent : store[y] = "none")
  BY DEF IInv, CoolInv, CoolAt, Cooling
<1> QED
  BY <1>1, Invariance, PTL DEF CooldownHolds

\* The record of x changes in a step of x only.
LEMMA VerdictIsOwn ==
    ASSUME Typed, PlaceInv, NEW x \in Attempts, Next, store'[x] # store[x] PROVE AttemptStep(x)
<1>1. ASSUME NEW y \in Attempts, AttemptStep(y) PROVE y = x
  BY <1>1, StepFrame, TypesTogether DEF Frame
<1>2. CASE Around
  <2>1. UNCHANGED store
    BY <1>2, AroundFrame DEF Restart, recVars
  <2> QED
    BY <2>1
<1> QED
  BY <1>1, <1>2, Steps

\* An attempt that completes leaves a probe whose containers are its own.
LEMMA CompletedIsTrue ==
    ASSUME IInv, NEW x \in Attempts, ~Toggled, AttemptStep(x),
           store'[x] = "completed", store[x] # "completed", NEW s \in Services
    PROVE  ctr'[s].id = x /\ (prev(x)[s] # NoDigest => ctr'[s].img >= prev(x)[s])
<1> store \in [Attempts -> Stages] /\ kind[x] \in Kinds
  BY DEF IInv, Typed, RecordType, PlaceType
<1>0. \A st \in Stages \ {"completed"} : AppendEvent(x, st) => store'[x] # "completed"
  BY DEF AppendEvent, SaveAppUpdate
<1>a. {"open", "failed", "rolled_back"} \subseteq Stages \ {"completed"}
  BY DEF Stages, Terminal
<1>b. ~UNCHANGED store
  OBVIOUS
<1>c. ~Rollback(x) /\ ~AfterFailure(x) /\ ~DeployEnds(x)
  BY <1>0, <1>a, <1>b DEF Rollback, AfterFailure, DeployEnds, recVars
<1>1. ASSUME Trigger(x) PROVE FALSE
  BY <1>0, <1>a, <1>b, <1>c, <1>1 DEF Trigger, recVars
<1>2. ASSUME SetAppAutoUpdate(x) PROVE FALSE
  BY <1>0, <1>a, <1>b, <1>c, <1>2 DEF SetAppAutoUpdate, recVars
<1>3. ASSUME AcquireSem(x) PROVE FALSE
  BY <1>0, <1>a, <1>b, <1>c, <1>3 DEF AcquireSem, recVars
<1>4. ASSUME TryLock(x) PROVE FALSE
  BY <1>0, <1>a, <1>b, <1>c, <1>4 DEF TryLock, recVars
<1>5. ASSUME Cooldown(x) PROVE FALSE
  BY <1>0, <1>a, <1>b, <1>c, <1>5 DEF Cooldown, recVars
<1>6. ASSUME Skip(x) PROVE FALSE
  BY <1>0, <1>a, <1>b, <1>c, <1>6 DEF Skip, recVars
<1>7. ASSUME Begin(x) PROVE FALSE
  BY <1>0, <1>a, <1>b, <1>c, <1>7 DEF Begin, recVars
<1>8. ASSUME Pull(x) PROVE FALSE
  BY <1>0, <1>a, <1>b, <1>c, <1>8 DEF Pull, recVars
<1>9. ASSUME PullFails(x) PROVE FALSE
  BY <1>0, <1>a, <1>b, <1>c, <1>9 DEF PullFails, recVars
<1>10. ASSUME Create(x) PROVE FALSE
  BY <1>0, <1>a, <1>b, <1>c, <1>10 DEF Create, recVars
<1>11. ASSUME Replace(x) PROVE FALSE
  BY <1>0, <1>a, <1>b, <1>c, <1>11 DEF Replace, recVars
<1>12. ASSUME CreateAgain(x) PROVE FALSE
  BY <1>0, <1>a, <1>b, <1>c, <1>12 DEF CreateAgain, recVars
<1>13. ASSUME Start(x) PROVE FALSE
  BY <1>0, <1>a, <1>b, <1>c, <1>13 DEF Start, recVars
<1>14. ASSUME StartFails(x) PROVE FALSE
  BY <1>0, <1>a, <1>b, <1>c, <1>14 DEF StartFails, recVars
<1>15. ASSUME DeployFails(x) PROVE FALSE
  BY <1>0, <1>a, <1>b, <1>c, <1>15 DEF DeployFails, recVars
<1>16. ASSUME ProbeLists(x) PROVE FALSE
  BY <1>0, <1>a, <1>b, <1>c, <1>16 DEF ProbeLists, recVars
<1>17. ASSUME Unhealthy(x) PROVE FALSE
  BY <1>0, <1>a, <1>b, <1>c, <1>17 DEF Unhealthy, recVars
<1>18. ASSUME NEW i \in Services, Fetch(x, i) PROVE FALSE
  BY <1>0, <1>a, <1>b, <1>c, <1>18 DEF Fetch, recVars
<1>19. ASSUME NEW i \in Services, Healthy(x, i) PROVE pc[x] = "probe" /\ UNCHANGED ctr
  BY <1>19 DEF Healthy, hostVars
<1>20. \E i \in Services : Healthy(x, i)
  BY <1>1, <1>2, <1>3, <1>4, <1>5, <1>6, <1>7, <1>8, <1>9, <1>10, <1>11, <1>12, <1>13, <1>14,
     <1>15, <1>16, <1>17, <1>18 DEF AttemptStep, Step
<1>21. /\ pc[x] = "probe" /\ UNCHANGED ctr /\ DoneAt(x) /\ PlaceAt(x)
  BY <1>19, <1>20 DEF IInv, DoneInv, PlaceInv
<1>22. Worker(x) /\ ~back(x)
  BY <1>21 DEF PlaceAt, Deploying
<1> QED
  BY <1>21, <1>22 DEF DoneAt, Good

\* A roll-back ends in the start of its last service.
LEMMA RolledBackIsTrue ==
    ASSUME IInv, NEW x \in Attempts, ~Toggled, AttemptStep(x),
           store'[x] = "rolled_back", store[x] # "rolled_back", NEW s \in Services
    PROVE  ctr'[s].id = x /\ (prev(x)[s] # NoDigest => ctr'[s].img = prev(x)[s])
<1> store \in [Attempts -> Stages] /\ kind[x] \in Kinds
  BY DEF IInv, Typed, RecordType, PlaceType
<1>0. \A st \in Stages \ {"rolled_back"} : AppendEvent(x, st) => store'[x] # "rolled_back"
  BY DEF AppendEvent, SaveAppUpdate
<1>a. {"open", "failed", "completed"} \subseteq Stages \ {"rolled_back"}
  BY DEF Stages, Terminal
<1>b. ~UNCHANGED store
  OBVIOUS
<1>c. ~Rollback(x) /\ ~AfterFailure(x)
  BY <1>0, <1>a, <1>b DEF Rollback, AfterFailure, recVars
<1>1. ASSUME Trigger(x) PROVE FALSE
  BY <1>0, <1>a, <1>b, <1>c, <1>1 DEF Trigger, recVars
<1>2. ASSUME SetAppAutoUpdate(x) PROVE FALSE
  BY <1>0, <1>a, <1>b, <1>c, <1>2 DEF SetAppAutoUpdate, recVars
<1>3. ASSUME AcquireSem(x) PROVE FALSE
  BY <1>0, <1>a, <1>b, <1>c, <1>3 DEF AcquireSem, recVars
<1>4. ASSUME TryLock(x) PROVE FALSE
  BY <1>0, <1>a, <1>b, <1>c, <1>4 DEF TryLock, recVars
<1>5. ASSUME Cooldown(x) PROVE FALSE
  BY <1>0, <1>a, <1>b, <1>c, <1>5 DEF Cooldown, recVars
<1>6. ASSUME Skip(x) PROVE FALSE
  BY <1>0, <1>a, <1>b, <1>c, <1>6 DEF Skip, recVars
<1>7. ASSUME Begin(x) PROVE FALSE
  BY <1>0, <1>a, <1>b, <1>c, <1>7 DEF Begin, recVars
<1>8. ASSUME Pull(x) PROVE FALSE
  BY <1>0, <1>a, <1>b, <1>c, <1>8 DEF Pull, recVars
<1>9. ASSUME PullFails(x) PROVE FALSE
  BY <1>0, <1>a, <1>b, <1>c, <1>9 DEF PullFails, recVars
<1>10. ASSUME Create(x) PROVE FALSE
  BY <1>0, <1>a, <1>b, <1>c, <1>10 DEF Create, recVars
<1>11. ASSUME Replace(x) PROVE FALSE
  BY <1>0, <1>a, <1>b, <1>c, <1>11 DEF Replace, recVars
<1>12. ASSUME CreateAgain(x) PROVE FALSE
  BY <1>0, <1>a, <1>b, <1>c, <1>12 DEF CreateAgain, recVars
<1>13. ASSUME Start(x)
      PROVE  /\ pc[x] = "start" /\ ctr' = [ctr EXCEPT ![cur(x)].st = "running"]
             /\ todo(x) = {cur(x)} /\ Worker(x) /\ back(x)
  BY <1>0, <1>a, <1>b, <1>13 DEF Start, DeployEnds, recVars, Worker
<1>14. ASSUME StartFails(x) PROVE FALSE
  BY <1>0, <1>a, <1>b, <1>c, <1>14 DEF StartFails, recVars
<1>15. ASSUME DeployFails(x) PROVE FALSE
  BY <1>0, <1>a, <1>b, <1>c, <1>15 DEF DeployFails, recVars
<1>16. ASSUME ProbeLists(x) PROVE FALSE
  BY <1>0, <1>a, <1>b, <1>c, <1>16 DEF ProbeLists, recVars
<1>17. ASSUME Unhealthy(x) PROVE FALSE
  BY <1>0, <1>a, <1>b, <1>c, <1>17 DEF Unhealthy, recVars
<1>18. ASSUME NEW i \in Services, Fetch(x, i) PROVE FALSE
  BY <1>0, <1>a, <1>b, <1>c, <1>18 DEF Fetch, recVars
<1>19. ASSUME NEW i \in Services, Healthy(x, i) PROVE FALSE
  BY <1>0, <1>a, <1>b, <1>c, <1>19 DEF Healthy, recVars
<1>20. Start(x)
  BY <1>1, <1>2, <1>3, <1>4, <1>5, <1>6, <1>7, <1>8, <1>9, <1>10, <1>11, <1>12, <1>14, <1>15,
     <1>16, <1>17, <1>18, <1>19 DEF AttemptStep, Step
<1>21. cur(x) \in Services /\ ctr \in [Services -> Container]
  BY RunParts DEF IInv, Typed, RunType, HostType, cur
<1>22. ctr'[s].id = ctr[s].id /\ ctr'[s].img = ctr[s].img
  BY <1>13, <1>20, <1>21 DEF Container
<1>23. Good(x, s)
  BY <1>13, <1>20, <1>21 DEF IInv, DoneInv, DoneAt, Deploying
<1> QED
  BY <1>13, <1>20, <1>22, <1>23 DEF Good

\* When the record says completed, every service has a container of the attempt,
\* of no older image; when it says rolled back, one of the image captured before.
THEOREM VerdictsAreTrue == Spec => VerdictIsTrue
<1> DEFINE True ==
      \A x \in Attempts : ~Toggled =>
        /\ store'[x] = "completed" /\ store[x] # "completed" =>
             \A s \in Services :
                ctr'[s].id = x /\ (prev(x)[s] # NoDigest => ctr'[s].img >= prev(x)[s])
        /\ store'[x] = "rolled_back" /\ store[x] # "rolled_back" =>
             \A s \in Services :
                ctr'[s].id = x /\ (prev(x)[s] # NoDigest => ctr'[s].img = prev(x)[s])
<1>1. IInv /\ [Next]_vars => [True]_vars
  <2> SUFFICES ASSUME IInv, Next PROVE True
    OBVIOUS
  <2> HIDE DEF True
  <2>1. ASSUME NEW x \in Attempts, store'[x] # store[x] PROVE AttemptStep(x)
    BY <2>1, VerdictIsOwn DEF IInv
  <2> USE DEF True
  <2> QED
    BY <2>1, CompletedIsTrue, RolledBackIsTrue
<1>2. VerdictIsTrue <=> [][True]_vars
  BY DEF VerdictIsTrue
<1> HIDE DEF True
<1> QED
  BY <1>1, <1>2, Invariance, PTL DEF Spec
=============================================================================
