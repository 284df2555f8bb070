-------------------------- MODULE ContainersProofs --------------------------
(***************************************************************************)
(* For any number of requests and containers: a container whose removal    *)
(* was reported is gone, and one that is gone has a reason the model names.*)
(*                                                                         *)
(* What a step does to the containers is one of a few things, whatever     *)
(* action it is (RequestEffect); each invariant is then kept by each.      *)
(***************************************************************************)
EXTENDS Containers, TLAPS

\* A step of request r.
RequestStep(r) ==
    \/ Begin(r) \/ Check(r) \/ Switch(r) \/ Rename(r) \/ Pull(r) \/ Inspect(r)
    \/ Stop(r) \/ Remove(r) \/ Create(r) \/ Start(r)
    \/ Fails(r) \/ Cancelled(r)

Places == {"check", "do", "pull", "inspect", "stop", "remove", "create", "start"}

States == {"created", "running", "exited"}

CtrType == ctr \in [Ids -> Container \union {None}]

ReqType == req \in [Reqs -> Request \union {None}]

\* Where a request is tells what it is doing.
PlaceInv ==
    \A r \in Reqs : req[r] # None =>
        /\ req[r].id <= made
        /\ req[r].pc = "pull" => req[r].kind = "update"
        /\ req[r].pc \in {"stop", "remove"} => Recreates(req[r]) \/ req[r].kind \in {"remove", "force"}
        /\ req[r].pc \in {"inspect", "create", "start"} => Recreates(req[r])
        /\ req[r].pc \in {"stop", "remove", "create"} /\ Recreates(req[r]) => req[r].old # None

-----------------------------------------------------------------------------
(* What a step may do to the containers, and to its request *)

\* The containers are the same ones, whatever their states.
SameContainers ==
    \A i \in Ids :
        /\ ctr'[i] # None <=> ctr[i] # None
        /\ ctr[i] # None => /\ ctr'[i].name = ctr[i].name
                            /\ ctr'[i].agent = ctr[i].agent
                            /\ ctr'[i].from = ctr[i].from

\* The request goes on, for the same container.
GoesOn(r) ==
    /\ req[r] # None /\ req'[r] # None
    /\ req'[r].id = req[r].id /\ req'[r].kind = req[r].kind
    /\ req'[r].recreate = req[r].recreate

Opens(r) ==
    /\ req[r] = None /\ req'[r] # None
    /\ req'[r].id <= made /\ req'[r].pc \in {"check", "do"}
    /\ req'[r].pc = "do" => req'[r].recreate = FALSE
    /\ req'[r].pc = "do" => req'[r].kind \in {"start", "stop", "edit"}
    /\ SameContainers /\ UNCHANGED <<made, removed, past>>

Moves(r) ==
    /\ GoesOn(r)
    /\ \/ /\ req[r].pc = "check" /\ ctr[req[r].id] # None /\ ~Protected(req[r].id)
          /\ \/ req[r].kind \in {"force", "remove"} /\ req'[r].pc \in {"remove", "stop"}
             \/ req[r].kind = "update" /\ req'[r].pc = "pull"
             \/ req[r].kind = "edit" /\ req'[r].pc = "do"
       \/ req[r].pc = "do" /\ req[r].recreate /\ Recreates(req[r]) /\ req'[r].pc = "inspect"
       \/ req[r].pc = "pull" /\ req'[r].pc = "inspect"
       \/ /\ req[r].pc = "inspect" /\ req'[r].pc \in {"stop", "remove"}
          /\ ctr[req[r].id] # None /\ req'[r].old = ctr[req[r].id]
       \/ req[r].pc = "stop" /\ req'[r].pc = "remove" /\ req'[r].old = req[r].old
    /\ SameContainers /\ UNCHANGED <<made, removed, past>>

\* A request that was about to create a container ends for one of two reasons.
Ends(r) ==
    /\ req[r] # None /\ req'[r] = None
    /\ req[r].pc = "create" => past'.cut = TRUE \/ Taken(req[r].old.name)
    /\ past.cut = TRUE => past'.cut = TRUE
    /\ past'.renamed = past.renamed /\ past'.agentRenamed = past.agentRenamed
    /\ past'.replaced = past.replaced
    /\ removed \subseteq removed' /\ (Transport # "edge" => removed' = removed)
    /\ SameContainers /\ UNCHANGED made

Renames(r) ==
    /\ req[r] # None /\ req[r].pc = "do" /\ ctr[req[r].id] # None
    /\ req'[r] = None \/ (GoesOn(r) /\ req[r].recreate = TRUE /\ Recreates(req[r])
                                    /\ req'[r].pc = "inspect")
    /\ \A i \in Ids :
        /\ ctr'[i] # None <=> ctr[i] # None
        /\ ctr[i] # None => ctr'[i].agent = ctr[i].agent /\ ctr'[i].from = ctr[i].from
        /\ ctr[i] # None /\ i # req[r].id => ctr'[i].name = ctr[i].name
    /\ past'.renamed = TRUE
    /\ past.agentRenamed = TRUE \/ ctr[req[r].id].agent = TRUE => past'.agentRenamed = TRUE
    /\ past'.cut = past.cut /\ past'.replaced = past.replaced
    /\ UNCHANGED <<made, removed>>

Removes(r) ==
    /\ req[r] # None /\ req[r].pc = "remove" /\ ctr[req[r].id] # None
    /\ ctr' = [ctr EXCEPT ![req[r].id] = None]
    /\ \/ /\ GoesOn(r) /\ Recreates(req[r])
          /\ req'[r].pc = "create" /\ req'[r].old = req[r].old
          /\ UNCHANGED removed
       \/ req'[r] = None /\ removed' = removed \union {req[r].id}
    /\ UNCHANGED <<made, past>>

Creates(r) ==
    /\ req[r] # None /\ req[r].pc = "create" /\ ~Taken(req[r].old.name)
    /\ made < MaxIds /\ made' = made + 1
    /\ ctr' = [ctr EXCEPT ![made + 1] =
                 [req[r].old EXCEPT !.state = "created", !.from = req[r].id]]
    /\ req'[r] = None \/ (GoesOn(r) /\ req'[r].pc = "start")
    /\ past'.renamed = past.renamed /\ past'.agentRenamed = past.agentRenamed
    /\ past'.cut = past.cut /\ past'.replaced = past.replaced \union {req[r].id}
    /\ UNCHANGED removed

\* What any step of a request does.
Effect(r) ==
    /\ \A s \in Reqs : s # r => req'[s] = req[s]
    /\ Opens(r) \/ Moves(r) \/ Ends(r) \/ Renames(r) \/ Removes(r) \/ Creates(r)

-----------------------------------------------------------------------------
(* Types *)

LEMMA Ranges == made \in 2..MaxIds => made \in Nat /\ 1..made \subseteq Ids /\ Web \in Ids /\ Agent \in Ids
BY ContainersAssumption DEF Ids, Web, Agent

LEMMA SetState ==
    ASSUME CtrType, NEW i \in Ids, ctr[i] # None, NEW s \in States,
           ctr' = [ctr EXCEPT ![i].state = s]
    PROVE  CtrType' /\ SameContainers
<1>1. /\ ctr[i] \in Container
      /\ [ctr[i] EXCEPT !.state = s] \in Container
  BY DEF CtrType, Container, States
<1>2. /\ ctr'[i] = [ctr[i] EXCEPT !.state = s]
      /\ \A j \in Ids : j # i => ctr'[j] = ctr[j]
  BY DEF CtrType
<1>3. CtrType'
  BY <1>1 DEF CtrType
<1>4. ctr'[i] # None
  BY <1>1, <1>2, NoneAssumption
<1>5. /\ ctr'[i].name = ctr[i].name /\ ctr'[i].agent = ctr[i].agent
      /\ ctr'[i].from = ctr[i].from
  BY <1>1, <1>2 DEF Container
<1> QED
  BY <1>2, <1>3, <1>4, <1>5 DEF SameContainers

LEMMA SameUnchanged == ASSUME CtrType, UNCHANGED ctr PROVE CtrType' /\ SameContainers
BY DEF CtrType, SameContainers

LEMMA GotoEffect ==
    ASSUME ReqType, NEW r \in Reqs, req[r] # None, NEW pc \in Places, Goto(r, pc)
    PROVE  /\ ReqType' /\ removed' = removed
           /\ \A s \in Reqs : s # r => req'[s] = req[s]
           /\ GoesOn(r) /\ req'[r].pc = pc /\ req'[r].old = req[r].old
<1>1. req[r] \in Request /\ [req[r] EXCEPT !.pc = pc] \in Request
  BY DEF ReqType, Request, Places
<1>2. /\ req'[r] = [req[r] EXCEPT !.pc = pc]
      /\ \A s \in Reqs : s # r => req'[s] = req[s]
  BY DEF Goto, ReqType
<1>3. ReqType' /\ removed' = removed
  BY <1>1 DEF Goto, ReqType
<1>4. req'[r] # None
  BY <1>1, <1>2, NoneAssumption
<1>5. /\ req'[r].id = req[r].id /\ req'[r].kind = req[r].kind
      /\ req'[r].recreate = req[r].recreate
      /\ req'[r].pc = pc /\ req'[r].old = req[r].old
  BY <1>1, <1>2 DEF Request
<1> QED
  BY <1>2, <1>3, <1>4, <1>5 DEF GoesOn

LEMMA AnsweredEffect ==
    ASSUME TypeOK, NEW r \in Reqs, req[r] # None, NEW ok \in BOOLEAN, Answered(r, ok)
    PROVE  /\ ReqType' /\ removed' \in SUBSET Ids
           /\ \A s \in Reqs : s # r => req'[s] = req[s]
           /\ req'[r] = None
           /\ removed \subseteq removed'
           /\ (Transport # "edge" /\ ok = FALSE) \/ req[r].kind \notin {"remove", "force"}
                => removed' = removed
           /\ ok = TRUE /\ req[r].kind \in {"remove", "force"}
                => removed' = removed \union {req[r].id}
<1>1. req[r] \in Request
  BY DEF TypeOK
<1>2. ReqType' /\ req'[r] = None /\ \A s \in Reqs : s # r => req'[s] = req[s]
  BY DEF TypeOK, ReqType, Answered
<1>3. req[r].id \in Ids /\ removed \subseteq Ids
  BY <1>1 DEF TypeOK, Request
<1> QED
  BY <1>2, <1>3 DEF Answered, Succeeds

-----------------------------------------------------------------------------
(* Each action of a request has one of these effects *)

PastType == past \in [cut : BOOLEAN, renamed : BOOLEAN, agentRenamed : BOOLEAN,
                      replaced : SUBSET Ids]

LEMMA TypeParts ==
    ASSUME TypeOK, CtrType', ReqType', PastType', made' \in 2..MaxIds, removed' \in SUBSET Ids,
           UNCHANGED <<mon, faults>>
    PROVE  TypeOK'
BY DEF TypeOK, CtrType, ReqType, PastType

LEMMA BeginEffect ==
    ASSUME TypeOK, NEW r \in Reqs, Begin(r)
    PROVE  TypeOK' /\ Effect(r)
<1>1. PICK k \in Kinds, i \in 1..made, n \in NewNames \union {None}, x \in BOOLEAN :
        /\ k = "edit" <=> n # None
        /\ x => n # None
        /\ n # None => ~past.renamed
        /\ k \in {"start", "stop"} => Exists(i) /\ ctr[i].auto
        /\ Recreates(Asked(k, i, n, x)) => made < MaxIds
        /\ req' = [req EXCEPT ![r] = Asked(k, i, n, x)]
  BY Zenon DEF Begin
<1>2. i \in Ids /\ i <= made
  BY ContainersAssumption DEF TypeOK, Ids
<1>3. Asked(k, i, n, x) \in Request
  BY <1>2 DEF Request, Names, Asked
<1>4. Asked(k, i, n, x) # None
  BY <1>3, NoneAssumption
<1>5. /\ ReqType' /\ req'[r] = Asked(k, i, n, x)
      /\ \A s \in Reqs : s # r => req'[s] = req[s]
  BY <1>1, <1>3 DEF TypeOK, ReqType
<1>6. /\ req[r] = None /\ UNCHANGED <<ctr, made, mon, removed, faults, past>>
  BY DEF Begin
<1>7. TypeOK'
  BY <1>5, <1>6 DEF TypeOK, ReqType
<1>8. /\ Asked(k, i, n, x).id = i
      /\ Asked(k, i, n, x).pc = "do" => x = FALSE /\ k \in {"start", "stop", "edit"}
      /\ Asked(k, i, n, x).pc \in {"check", "do"}
      /\ Asked(k, i, n, x).recreate = x /\ Asked(k, i, n, x).kind = k
  BY DEF Kinds, Asked
<1>9. SameContainers
  BY <1>6 DEF SameContainers
<1>10. Opens(r)
  BY <1>2, <1>4, <1>5, <1>6, <1>8, <1>9 DEF Opens
<1> QED
  BY <1>5, <1>7, <1>10 DEF Effect

\* A request that ends without having touched past.
LEMMA EndsEffect ==
    ASSUME TypeOK, NEW r \in Reqs, req[r] # None, req[r].pc # "create",
           CtrType', SameContainers, UNCHANGED <<made, mon, faults, past>>,
           Answered(r, FALSE) \/ (Answered(r, TRUE) /\ req[r].kind \notin {"remove", "force"})
    PROVE  TypeOK' /\ Effect(r)
<1>1. /\ ReqType' /\ removed' \in SUBSET Ids
      /\ \A s \in Reqs : s # r => req'[s] = req[s]
      /\ req'[r] = None /\ removed \subseteq removed'
      /\ Transport # "edge" => removed' = removed
  BY AnsweredEffect
<1>2. TypeOK'
  BY <1>1 DEF TypeOK, CtrType, ReqType
<1>3. Ends(r)
  BY <1>1 DEF Ends
<1> QED
  BY <1>1, <1>2, <1>3 DEF Effect

LEMMA CheckEffect ==
    ASSUME TypeOK, NEW r \in Reqs, Check(r)
    PROVE  TypeOK' /\ Effect(r)
<1>1. req[r] # None /\ req[r].pc = "check" /\ UNCHANGED <<ctr, made, mon, faults, past>>
  BY DEF Check, At
<1>2. CtrType' /\ SameContainers
  BY <1>1, SameUnchanged DEF TypeOK, CtrType
<1>3. CASE Answered(r, FALSE)
  BY <1>1, <1>2, <1>3, EndsEffect
<1>4. CASE ~Answered(r, FALSE)
  <2>1. ctr[req[r].id] # None /\ ~Protected(req[r].id)
    BY <1>4 DEF Check, Exists
  <2>2. PICK pc \in Places :
            /\ Goto(r, pc)
            /\ \/ req[r].kind \in {"force", "remove"} /\ pc \in {"remove", "stop"}
               \/ req[r].kind = "update" /\ pc = "pull"
               \/ req[r].kind = "edit" /\ pc = "do"
    <3>1. \/ req[r].kind = "force"  /\ Goto(r, "remove")
          \/ req[r].kind = "remove" /\ Goto(r, "stop")
          \/ req[r].kind = "update" /\ Goto(r, "pull")
          \/ req[r].kind = "edit"   /\ Goto(r, "do")
      BY <1>4 DEF Check
    <3> QED
      BY <3>1 DEF Places
  <2>3. /\ ReqType' /\ removed' = removed
        /\ \A s \in Reqs : s # r => req'[s] = req[s]
        /\ GoesOn(r) /\ req'[r].pc = pc
    BY <1>1, <2>2, GotoEffect DEF TypeOK, ReqType
  <2>4. TypeOK'
    BY <1>1, <1>2, <2>3 DEF TypeOK, CtrType, ReqType
  <2>5. Moves(r)
    BY <1>1, <1>2, <2>1, <2>2, <2>3 DEF Moves
  <2> QED
    BY <2>3, <2>4, <2>5 DEF Effect
<1> QED
  BY <1>3, <1>4

LEMMA SwitchEffect ==
    ASSUME TypeOK, NEW r \in Reqs, Switch(r)
    PROVE  TypeOK' /\ Effect(r)
<1>1. /\ req[r] # None /\ req[r].pc = "do" /\ req[r].kind \in {"start", "stop"}
      /\ UNCHANGED <<made, mon, faults, past>>
  BY DEF Switch, At
<1>2. req[r].id \in Ids
  BY <1>1 DEF TypeOK, Request
<1>3. Answered(r, TRUE) \/ Answered(r, FALSE)
  BY DEF Switch
<1>4. CtrType' /\ SameContainers
  <2>1. CASE ctr[req[r].id] # None
    <3>1. ctr[req[r].id] \in Container
      BY <1>2, <2>1 DEF TypeOK
    <3>2. PICK s \in States : ctr' = [ctr EXCEPT ![req[r].id].state = s]
      BY <1>1, <1>2, <2>1, <3>1 DEF Switch, Exists, States, Container
    <3> QED
      BY <1>2, <2>1, <3>2, SetState DEF TypeOK, CtrType
  <2>2. CASE ctr[req[r].id] = None
    BY <2>2, SameUnchanged DEF Switch, Exists, TypeOK, CtrType
  <2> QED
    BY <2>1, <2>2
<1> QED
  BY <1>1, <1>3, <1>4, EndsEffect

\* A request that goes on, without having touched past.
LEMMA MovesEffect ==
    ASSUME TypeOK, NEW r \in Reqs, CtrType', SameContainers, ReqType',
           \A s \in Reqs : s # r => req'[s] = req[s],
           UNCHANGED <<made, mon, faults, past, removed>>, Moves(r)
    PROVE  TypeOK' /\ Effect(r)
<1>1. TypeOK'
  BY DEF TypeOK, CtrType, ReqType
<1> QED
  BY <1>1 DEF Effect

LEMMA SetName ==
    ASSUME CtrType, NEW i \in Ids, ctr[i] # None, NEW n \in Names,
           ctr' = [ctr EXCEPT ![i].name = n]
    PROVE  /\ CtrType'
           /\ \A j \in Ids :
                /\ ctr'[j] # None <=> ctr[j] # None
                /\ ctr[j] # None => ctr'[j].agent = ctr[j].agent /\ ctr'[j].from = ctr[j].from
                /\ ctr[j] # None /\ j # i => ctr'[j].name = ctr[j].name
<1>1. /\ ctr[i] \in Container
      /\ [ctr[i] EXCEPT !.name = n] \in Container
  BY DEF CtrType, Container, Names
<1>2. /\ ctr'[i] = [ctr[i] EXCEPT !.name = n]
      /\ \A j \in Ids : j # i => ctr'[j] = ctr[j]
  BY DEF CtrType
<1>3. CtrType'
  BY <1>1 DEF CtrType
<1>4. ctr'[i] # None
  BY <1>1, <1>2, NoneAssumption
<1>5. ctr'[i].agent = ctr[i].agent /\ ctr'[i].from = ctr[i].from
  BY <1>1, <1>2 DEF Container
<1> QED
  BY <1>2, <1>3, <1>4, <1>5

\* A request at its next place is still a request, and the same one.
LEMMA Advanced ==
    ASSUME NEW q \in Request, NEW u,
           \/ u = [q EXCEPT !.pc = "inspect", !.name = None]
           \/ u = [q EXCEPT !.pc = "start", !.old = None]
    PROVE  u \in Request /\ u.id = q.id /\ u.kind = q.kind /\ u.recreate = q.recreate
<1>1. CASE u = [q EXCEPT !.pc = "inspect", !.name = None]
  <2>1. u \in Request
    BY <1>1 DEF Request
  <2>2. u.id = q.id /\ u.kind = q.kind
    BY <1>1 DEF Request
  <2>3. u.recreate = q.recreate
    BY <1>1 DEF Request
  <2> QED
    BY <2>1, <2>2, <2>3
<1>2. CASE u = [q EXCEPT !.pc = "start", !.old = None]
  <2>1. u \in Request
    BY <1>2 DEF Request
  <2>2. u.id = q.id /\ u.kind = q.kind
    BY <1>2 DEF Request
  <2>3. u.recreate = q.recreate
    BY <1>2 DEF Request
  <2> QED
    BY <2>1, <2>2, <2>3
<1> QED
  BY <1>1, <1>2

\* An edit that recreates goes on to the inspection, and has forgotten its name.
LEMMA RenamedGoesOn ==
    ASSUME ReqType, NEW r \in Reqs, req[r] # None,
           req' = [req EXCEPT ![r].pc = "inspect", ![r].name = None]
    PROVE  /\ ReqType' /\ GoesOn(r) /\ req'[r].pc = "inspect"
           /\ \A s \in Reqs : s # r => req'[s] = req[s]
<1>1. req[r] \in Request
  BY DEF ReqType
<1>2. /\ req'[r] = [req[r] EXCEPT !.pc = "inspect", !.name = None]
      /\ \A s \in Reqs : s # r => req'[s] = req[s]
  BY DEF ReqType
<1>3. /\ req'[r] \in Request /\ req'[r].id = req[r].id /\ req'[r].kind = req[r].kind
      /\ req'[r].recreate = req[r].recreate
  BY <1>1, <1>2, Advanced
<1>4. req'[r] # None
  BY <1>3, NoneAssumption
<1>5. req'[r].pc = "inspect"
  BY <1>1, <1>2 DEF Request
<1>6. ReqType'
  BY <1>2, <1>3 DEF ReqType
<1> QED
  BY <1>2, <1>3, <1>4, <1>5, <1>6 DEF GoesOn

LEMMA RenameEffect ==
    ASSUME TypeOK, NEW r \in Reqs, Rename(r)
    PROVE  TypeOK' /\ Effect(r)
<1> DEFINE i == req[r].id
           n == req[r].name
<1>1. /\ req[r] # None /\ req[r].pc = "do" /\ req[r].kind = "edit"
      /\ UNCHANGED <<made, mon, faults>>
  BY DEF Rename, At
<1>2. i \in Ids /\ n \in Names \union {None} /\ req[r].recreate \in BOOLEAN
  BY <1>1 DEF TypeOK, Request
<1>3. CtrType /\ ReqType
  BY DEF TypeOK, CtrType, ReqType
<1>4. CASE ~(Exists(i) /\ (n # None => ~Taken(n)))
  <2>1. Answered(r, FALSE) /\ UNCHANGED <<ctr, past>>
    BY <1>4 DEF Rename
  <2> QED
    BY <1>1, <1>3, <2>1, SameUnchanged, EndsEffect
<1>5. CASE Exists(i) /\ (n # None => ~Taken(n))
  <2>1. /\ ctr' = IF n = None THEN ctr ELSE [ctr EXCEPT ![i].name = n]
        /\ past' = [past EXCEPT !.renamed = @ \/ n # None,
                                !.agentRenamed = @ \/ (n # None /\ ctr[i].agent)]
        /\ IF req[r].recreate
           THEN req' = [req EXCEPT ![r].pc = "inspect", ![r].name = None] /\ UNCHANGED removed
           ELSE Answered(r, TRUE)
    BY <1>5 DEF Rename
  <2>2. CASE n = None
    <3>1. UNCHANGED ctr
      BY <2>1, <2>2
    <3>2. CtrType' /\ SameContainers
      BY <1>3, <3>1, SameUnchanged
    <3>3. past' = past
      BY <2>1, <2>2 DEF TypeOK
    <3>4. CASE req[r].recreate
      <4>1. /\ ReqType' /\ GoesOn(r) /\ req'[r].pc = "inspect" /\ UNCHANGED removed
            /\ \A s \in Reqs : s # r => req'[s] = req[s]
        BY <1>1, <1>3, <2>1, <3>4, RenamedGoesOn
      <4>2. Moves(r)
        BY <1>1, <3>2, <3>3, <3>4, <4>1 DEF Moves, Recreates
      <4> QED
        BY <1>1, <3>2, <3>3, <4>1, <4>2, MovesEffect
    <3>5. CASE ~req[r].recreate
      BY <1>1, <2>1, <3>2, <3>3, <3>5, EndsEffect
    <3> QED
      BY <3>4, <3>5
  <2>3. CASE n # None
    <3>1. ctr' = [ctr EXCEPT ![i].name = n] /\ ctr[i] # None
      BY <1>5, <2>1, <2>3 DEF Exists
    <3>2. n \in Names
      BY <1>2, <2>3
    <3>3. /\ CtrType'
          /\ \A j \in Ids :
                /\ ctr'[j] # None <=> ctr[j] # None
                /\ ctr[j] # None => ctr'[j].agent = ctr[j].agent /\ ctr'[j].from = ctr[j].from
                /\ ctr[j] # None /\ j # i => ctr'[j].name = ctr[j].name
      BY <1>2, <1>3, <3>1, <3>2, SetName
    <3>4. ctr[i].agent \in BOOLEAN
      BY <1>2, <1>3, <3>1 DEF CtrType, Container
    <3>5. /\ PastType'
          /\ past'.renamed = TRUE
          /\ past.agentRenamed = TRUE \/ ctr[i].agent = TRUE => past'.agentRenamed = TRUE
          /\ past'.cut = past.cut /\ past'.replaced = past.replaced
      <4>1. past \in [cut : BOOLEAN, renamed : BOOLEAN, agentRenamed : BOOLEAN, replaced : SUBSET Ids]
        BY DEF TypeOK
      <4>2. past' = [past EXCEPT !.renamed = TRUE, !.agentRenamed = @ \/ ctr[i].agent]
        BY <2>1, <2>3, <4>1
      <4> HIDE DEF i
      <4> QED
        BY <3>4, <4>1, <4>2 DEF PastType
    <3>6. CASE req[r].recreate
      <4>1. /\ ReqType' /\ GoesOn(r) /\ req'[r].pc = "inspect" /\ UNCHANGED removed
            /\ \A s \in Reqs : s # r => req'[s] = req[s]
        BY <1>1, <1>3, <2>1, <3>6, RenamedGoesOn
      <4>2. TypeOK'
        BY <1>1, <3>3, <3>5, <4>1, TypeParts DEF TypeOK
      <4>3. Renames(r)
        BY <1>1, <1>5, <3>1, <3>3, <3>5, <3>6, <4>1 DEF Renames, Recreates
      <4> QED
        BY <4>1, <4>2, <4>3 DEF Effect
    <3>7. CASE ~req[r].recreate
      <4>1. /\ ReqType' /\ req'[r] = None /\ removed' = removed
            /\ \A s \in Reqs : s # r => req'[s] = req[s]
        BY <1>1, <2>1, <3>7, AnsweredEffect
      <4>2. TypeOK'
        BY <1>1, <3>3, <3>5, <4>1, TypeParts DEF TypeOK
      <4>3. Renames(r)
        BY <1>1, <1>5, <3>1, <3>3, <3>5, <4>1 DEF Renames
      <4> QED
        BY <4>1, <4>2, <4>3 DEF Effect
    <3> QED
      BY <3>6, <3>7
  <2> QED
    BY <2>2, <2>3
<1> QED
  BY <1>4, <1>5

LEMMA PullEffect ==
    ASSUME TypeOK, NEW r \in Reqs, Pull(r)
    PROVE  TypeOK' /\ Effect(r)
<1>1. req[r] # None /\ req[r].pc = "pull" /\ UNCHANGED <<ctr, made, mon, faults, past>>
  BY DEF Pull, At
<1>2. CtrType' /\ SameContainers
  BY <1>1, SameUnchanged DEF TypeOK, CtrType
<1>3. CASE Answered(r, FALSE)
  BY <1>1, <1>2, <1>3, EndsEffect
<1>4. CASE Goto(r, "inspect")
  <2>1. /\ ReqType' /\ removed' = removed /\ GoesOn(r) /\ req'[r].pc = "inspect"
        /\ \A s \in Reqs : s # r => req'[s] = req[s]
    BY <1>1, <1>4, GotoEffect DEF TypeOK, ReqType, Places
  <2>2. Moves(r)
    BY <1>1, <1>2, <2>1 DEF Moves
  <2> QED
    BY <1>1, <1>2, <2>1, <2>2, MovesEffect
<1> QED
  BY <1>3, <1>4 DEF Pull

LEMMA InspectEffect ==
    ASSUME TypeOK, NEW r \in Reqs, Inspect(r)
    PROVE  TypeOK' /\ Effect(r)
<1>1. req[r] # None /\ req[r].pc = "inspect" /\ UNCHANGED <<ctr, made, mon, faults, past>>
  BY DEF Inspect, At
<1>2. CtrType' /\ SameContainers
  BY <1>1, SameUnchanged DEF TypeOK, CtrType
<1>3. CASE ctr[req[r].id] = None
  BY <1>1, <1>2, <1>3, EndsEffect DEF Inspect, Exists
<1>4. CASE ctr[req[r].id] # None
  <2>1. PICK pc \in {"stop", "remove"} :
            req' = [req EXCEPT ![r].old = ctr[req[r].id], ![r].pc = pc]
    BY <1>4 DEF Inspect, Exists
  <2>2. req[r] \in Request /\ ctr[req[r].id] \in Container
    BY <1>1, <1>4 DEF TypeOK, Request
  <2>3. /\ req'[r] = [req[r] EXCEPT !.old = ctr[req[r].id], !.pc = pc]
        /\ \A s \in Reqs : s # r => req'[s] = req[s]
    BY <2>1 DEF TypeOK
  <2>4. [req[r] EXCEPT !.old = ctr[req[r].id], !.pc = pc] \in Request
    BY <2>2 DEF Request
  <2>5. ReqType'
    BY <2>1, <2>3, <2>4 DEF ReqType, TypeOK
  <2>6. req'[r] # None
    BY <2>3, <2>4, NoneAssumption
  <2>7. /\ req'[r].id = req[r].id /\ req'[r].kind = req[r].kind
        /\ req'[r].recreate = req[r].recreate
        /\ req'[r].pc = pc /\ req'[r].old = ctr[req[r].id]
    BY <2>2, <2>3 DEF Request
  <2>8. removed' = removed
    BY <1>4 DEF Inspect, Exists
  <2>9. Moves(r)
    BY <1>1, <1>2, <1>4, <2>6, <2>7, <2>8 DEF Moves, GoesOn
  <2> QED
    BY <1>1, <1>2, <2>3, <2>5, <2>8, <2>9, MovesEffect
<1> QED
  BY <1>3, <1>4

LEMMA StopEffect ==
    ASSUME TypeOK, NEW r \in Reqs, Stop(r)
    PROVE  TypeOK' /\ Effect(r)
<1>1. req[r] # None /\ req[r].pc = "stop" /\ UNCHANGED <<made, mon, faults, past>>
  BY DEF Stop, At
<1>2. req[r].id \in Ids
  BY <1>1 DEF TypeOK, Request
<1>3. CtrType' /\ SameContainers
  <2>1. CASE UNCHANGED ctr
    BY <2>1, SameUnchanged DEF TypeOK, CtrType
  <2>2. CASE ~UNCHANGED ctr
    <3>1. ctr[req[r].id] # None /\ ctr' = [ctr EXCEPT ![req[r].id].state = "exited"]
      BY <2>2 DEF Stop, Running, Exists
    <3> QED
      BY <1>2, <3>1, SetState DEF TypeOK, CtrType, States
  <2> QED
    BY <2>1, <2>2
<1>4. /\ ReqType' /\ removed' = removed /\ GoesOn(r)
      /\ req'[r].pc = "remove" /\ req'[r].old = req[r].old
      /\ \A s \in Reqs : s # r => req'[s] = req[s]
  BY <1>1, GotoEffect DEF Stop, TypeOK, ReqType, Places
<1>5. Moves(r)
  BY <1>1, <1>3, <1>4 DEF Moves
<1> QED
  BY <1>1, <1>3, <1>4, <1>5, MovesEffect

LEMMA RemoveEffect ==
    ASSUME TypeOK, PlaceInv, NEW r \in Reqs, Remove(r)
    PROVE  TypeOK' /\ Effect(r)
<1>1. req[r] # None /\ req[r].pc = "remove" /\ UNCHANGED <<made, mon, faults, past>>
  BY DEF Remove, At
<1>2. CASE Answered(r, FALSE) /\ UNCHANGED ctr
  BY <1>1, <1>2, SameUnchanged, EndsEffect DEF TypeOK, CtrType
<1>3. CASE ~(Answered(r, FALSE) /\ UNCHANGED ctr)
  <2>1. /\ ctr[req[r].id] # None /\ ctr' = [ctr EXCEPT ![req[r].id] = None]
        /\ IF Recreates(req[r]) THEN Goto(r, "create") ELSE Answered(r, TRUE)
    BY <1>3 DEF Remove, Exists
  <2>2. CtrType'
    BY <2>1 DEF TypeOK, CtrType
  <2>3. CASE Recreates(req[r])
    <3>1. /\ ReqType' /\ removed' = removed /\ GoesOn(r)
          /\ req'[r].pc = "create" /\ req'[r].old = req[r].old
          /\ \A s \in Reqs : s # r => req'[s] = req[s]
      BY <1>1, <2>1, <2>3, GotoEffect DEF TypeOK, ReqType, Places
    <3>2. Removes(r)
      BY <1>1, <2>1, <2>3, <3>1 DEF Removes
    <3>3. TypeOK'
      BY <1>1, <2>2, <3>1 DEF TypeOK, CtrType, ReqType
    <3> QED
      BY <3>1, <3>2, <3>3 DEF Effect
  <2>4. CASE ~Recreates(req[r])
    <3>1. req[r].kind \in {"remove", "force"}
      BY <1>1, <2>4 DEF PlaceInv
    <3>2. /\ ReqType' /\ removed' \in SUBSET Ids /\ req'[r] = None
          /\ removed' = removed \union {req[r].id}
          /\ \A s \in Reqs : s # r => req'[s] = req[s]
      BY <1>1, <2>1, <2>4, <3>1, AnsweredEffect
    <3>3. Removes(r)
      BY <1>1, <2>1, <3>2 DEF Removes
    <3>4. TypeOK'
      BY <1>1, <2>2, <3>2 DEF TypeOK, CtrType, ReqType
    <3> QED
      BY <3>2, <3>3, <3>4 DEF Effect
  <2> QED
    BY <2>3, <2>4
<1> QED
  BY <1>2, <1>3

LEMMA StartEffect ==
    ASSUME TypeOK, PlaceInv, NEW r \in Reqs, Start(r)
    PROVE  TypeOK' /\ Effect(r)
<1>1. /\ req[r] # None /\ req[r].pc = "start" /\ UNCHANGED <<made, mon, faults, past>>
      /\ Answered(r, TRUE)
  BY DEF Start, At
<1>2. PICK new \in SUBSET Ids :
        /\ \A i \in new : ctr[i] # None
        /\ ctr' = [i \in Ids |-> IF i \in new THEN [ctr[i] EXCEPT !.state = "running"] ELSE ctr[i]]
  BY DEF Start, Exists
<1>3. ASSUME NEW i \in Ids
      PROVE  /\ ctr'[i] \in Container \union {None}
             /\ ctr'[i] # None <=> ctr[i] # None
             /\ ctr[i] # None => /\ ctr'[i].name = ctr[i].name
                                 /\ ctr'[i].agent = ctr[i].agent
                                 /\ ctr'[i].from = ctr[i].from
  <2>1. CASE i \in new
    <3>1. ctr[i] \in Container /\ [ctr[i] EXCEPT !.state = "running"] \in Container
      BY <1>2, <2>1 DEF TypeOK, Container
    <3>2. ctr'[i] = [ctr[i] EXCEPT !.state = "running"]
      BY <1>2, <2>1
    <3>3. ctr'[i] # None /\ ctr[i] # None
      BY <3>1, <3>2, NoneAssumption
    <3> QED
      BY <3>1, <3>2, <3>3 DEF Container
  <2>2. CASE i \notin new
    BY <1>2, <2>2 DEF TypeOK
  <2> QED
    BY <2>1, <2>2
<1>4. CtrType' /\ SameContainers
  <2>1. DOMAIN ctr' = Ids /\ ctr' = [i \in Ids |-> ctr'[i]]
    BY <1>2
  <2> QED
    BY <1>3, <2>1 DEF CtrType, SameContainers
<1>5. req[r].kind \notin {"remove", "force"}
  BY <1>1 DEF PlaceInv, Recreates
<1> QED
  BY <1>1, <1>4, <1>5, EndsEffect

LEMMA CreateEffect ==
    ASSUME TypeOK, PlaceInv, NEW r \in Reqs, Create(r)
    PROVE  TypeOK' /\ Effect(r)
<1> DEFINE old == req[r].old
           new == [old EXCEPT !.state = "created", !.from = req[r].id]
<1>1. /\ req[r] # None /\ req[r].pc = "create" /\ made < MaxIds /\ UNCHANGED <<mon, faults>>
  BY DEF Create, At
<1>2. /\ req[r].id \in Ids /\ old \in Container
      /\ Recreates(req[r]) /\ req[r].kind \notin {"remove", "force"}
  BY <1>1 DEF PlaceInv, TypeOK, Request, Recreates
<1>3. CASE Taken(old.name)
  <2>1. Answered(r, FALSE) /\ UNCHANGED <<ctr, made, past>>
    BY <1>3 DEF Create
  <2>2. /\ ReqType' /\ removed' \in SUBSET Ids
        /\ \A s \in Reqs : s # r => req'[s] = req[s]
        /\ req'[r] = None /\ removed' = removed
    BY <1>1, <1>2, <2>1, AnsweredEffect
  <2>3. CtrType' /\ SameContainers
    BY <2>1, SameUnchanged DEF TypeOK, CtrType
  <2>4. Ends(r)
    BY <1>1, <1>3, <2>1, <2>2, <2>3 DEF Ends
  <2>5. TypeOK'
    BY <1>1, <2>1, <2>2, <2>3 DEF TypeOK, CtrType, ReqType
  <2> QED
    BY <2>2, <2>4, <2>5 DEF Effect
<1>4. CASE ~Taken(old.name)
  <2>1. /\ made' = made + 1
        /\ ctr' = [ctr EXCEPT ![made'] = new]
        /\ past' = [past EXCEPT !.replaced = @ \union {req[r].id}]
        /\ IF old.state = "running"
           THEN req' = [req EXCEPT ![r].pc = "start", ![r].old = None] /\ UNCHANGED removed
           ELSE Answered(r, TRUE)
    BY <1>4 DEF Create
  <2>2. made' \in 2..MaxIds /\ made + 1 \in Ids
    BY <1>1, <2>1, ContainersAssumption DEF TypeOK, Ids
  <2>3. CtrType'
    <3>1. new \in Container
      BY <1>2 DEF Container
    <3> HIDE DEF new
    <3> QED
      BY <2>1, <2>2, <3>1 DEF TypeOK, CtrType
  <2>4. /\ PastType'
        /\ past'.renamed = past.renamed /\ past'.agentRenamed = past.agentRenamed
        /\ past'.cut = past.cut /\ past'.replaced = past.replaced \union {req[r].id}
    BY <1>2, <2>1 DEF TypeOK, PastType
  <2>5. /\ ReqType' /\ removed' = removed
        /\ \A s \in Reqs : s # r => req'[s] = req[s]
        /\ req'[r] = None \/ (GoesOn(r) /\ req'[r].pc = "start")
    <3>1. CASE Answered(r, TRUE)
      BY <1>1, <1>2, <3>1, AnsweredEffect
    <3>2. CASE req' = [req EXCEPT ![r].pc = "start", ![r].old = None] /\ UNCHANGED removed
      <4>1. req[r] \in Request
        BY <1>1 DEF TypeOK
      <4>2. /\ req'[r] = [req[r] EXCEPT !.pc = "start", !.old = None]
            /\ \A s \in Reqs : s # r => req'[s] = req[s]
        BY <3>2 DEF TypeOK
      <4>3. /\ req'[r] \in Request /\ req'[r].id = req[r].id /\ req'[r].kind = req[r].kind
            /\ req'[r].recreate = req[r].recreate
        BY <4>1, <4>2, Advanced
      <4>4. req'[r] # None
        BY <4>3, NoneAssumption
      <4>5. req'[r].pc = "start"
        BY <4>1, <4>2 DEF Request
      <4>6. ReqType'
        BY <3>2, <4>2, <4>3 DEF TypeOK, ReqType
      <4> QED
        BY <1>1, <3>2, <4>2, <4>3, <4>4, <4>5, <4>6 DEF GoesOn
    <3> QED
      BY <2>1, <3>1, <3>2
  <2>6. Creates(r)
    BY <1>1, <1>4, <2>1, <2>4, <2>5 DEF Creates
  <2>7. TypeOK'
    BY <1>1, <2>2, <2>3, <2>4, <2>5, TypeParts DEF TypeOK
  <2> QED
    BY <2>5, <2>6, <2>7 DEF Effect
<1> QED
  BY <1>3, <1>4

\* A failed call, or one that is not made any more.
LEMMA FailsEffect ==
    ASSUME TypeOK, NEW r \in Reqs, Fails(r) \/ Cancelled(r)
    PROVE  TypeOK' /\ Effect(r)
<1>1. req[r] # None /\ UNCHANGED <<ctr, made, mon, faults>>
  BY DEF Fails, Cancelled
<1>2. CtrType' /\ SameContainers
  BY <1>1, SameUnchanged DEF TypeOK, CtrType
<1>3. past' = [past EXCEPT !.cut = @ \/ req[r].pc = "create"]
  BY DEF Fails, Cancelled
<1>4. /\ PastType'
      /\ past.cut = TRUE \/ req[r].pc = "create" => past'.cut = TRUE
      /\ past'.renamed = past.renamed /\ past'.agentRenamed = past.agentRenamed
      /\ past'.replaced = past.replaced
  BY <1>3 DEF TypeOK, PastType
<1>5. /\ ReqType' /\ removed' \in SUBSET Ids
      /\ \A s \in Reqs : s # r => req'[s] = req[s]
      /\ req'[r] = None /\ removed \subseteq removed'
      /\ Transport # "edge" => removed' = removed
  <2>1. CASE Fails(r)
    BY <1>1, <2>1, AnsweredEffect DEF Fails
  <2>2. CASE Cancelled(r)
    BY <1>1, <2>2 DEF Cancelled, TypeOK, ReqType
  <2> QED
    BY <2>1, <2>2
<1>6. Ends(r)
  BY <1>1, <1>2, <1>4, <1>5 DEF Ends
<1>7. TypeOK'
  BY <1>1, <1>2, <1>4, <1>5, TypeParts DEF TypeOK
<1> QED
  BY <1>5, <1>6, <1>7 DEF Effect

LEMMA RequestEffect ==
    ASSUME TypeOK, PlaceInv, NEW r \in Reqs, RequestStep(r)
    PROVE  TypeOK' /\ Effect(r)
BY BeginEffect, CheckEffect, SwitchEffect, RenameEffect, PullEffect, InspectEffect,
   StopEffect, RemoveEffect, CreateEffect, StartEffect, FailsEffect DEF RequestStep

-----------------------------------------------------------------------------
(* The monitor, and the containers by themselves, only change states *)

HostStep == Monitor \/ \E i \in Ids : Exits(i) \/ RecoveryFails(i)

LEMMA HostEffect ==
    ASSUME TypeOK, HostStep
    PROVE  TypeOK' /\ SameContainers /\ UNCHANGED <<made, req, removed, past>>
<1> DEFINE MonType == mon \in [left : SUBSET Ids, fails : [Ids -> 0..Limit]]
<1>1. UNCHANGED <<made, req, removed, past>>
  BY DEF HostStep, Monitor, Tick, Recovers, Exits, RecoveryFails
<1>2. CtrType' /\ SameContainers
  <2>1. CASE UNCHANGED ctr
    BY <2>1, SameUnchanged DEF TypeOK, CtrType
  <2>2. CASE ~UNCHANGED ctr
    <3>1. PICK i \in Ids, s \in States : ctr[i] # None /\ ctr' = [ctr EXCEPT ![i].state = s]
      BY <2>2 DEF HostStep, Monitor, Tick, Recovers, Exits, RecoveryFails, Exists, Running, States
    <3> QED
      BY <3>1, SetState DEF TypeOK, CtrType
  <2> QED
    BY <2>1, <2>2
<1>3. (mon \in [left : SUBSET Ids, fails : [Ids -> 0..Limit]])' /\ faults' \in 0..MaxFaults
  <2>1. CASE Tick
    BY <2>1, ContainersAssumption DEF Tick, Listed, TypeOK
  <2>2. ASSUME NEW i \in Ids, Recovers(i)
        PROVE  MonType' /\ faults' \in 0..MaxFaults
    BY <2>2 DEF Recovers, Handled, TypeOK
  <2>3. ASSUME NEW i \in Ids, RecoveryFails(i)
        PROVE  MonType' /\ faults' \in 0..MaxFaults
    <3>1. mon.fails[i] \in 0..Limit /\ mon.fails[i] + 1 \in 0..Limit
      BY <2>3, ContainersAssumption DEF RecoveryFails, TypeOK
    <3>2. [mon.fails EXCEPT ![i] = @ + 1] \in [Ids -> 0..Limit]
      BY <3>1 DEF TypeOK
    <3>3. mon' = [left |-> Handled(i), fails |-> [mon.fails EXCEPT ![i] = @ + 1]]
      BY <2>3 DEF RecoveryFails, TypeOK
    <3>4. Handled(i) \in SUBSET Ids
      BY DEF Handled, TypeOK
    <3>5. faults' \in 0..MaxFaults
      BY <2>3, ContainersAssumption DEF RecoveryFails, TypeOK
    <3> QED
      BY <3>2, <3>3, <3>4, <3>5
  <2>4. ASSUME NEW i \in Ids, Exits(i)
        PROVE  MonType' /\ faults' \in 0..MaxFaults
    BY <2>4 DEF Exits, TypeOK
  <2> QED
    BY <2>1, <2>2, <2>3, <2>4 DEF HostStep, Monitor
<1> QED
  BY <1>1, <1>2, <1>3 DEF TypeOK, CtrType

-----------------------------------------------------------------------------
(* Types, and where the requests are *)

LEMMA ContainersStart == Init => TypeOK /\ PlaceInv
<1> SUFFICES ASSUME Init PROVE TypeOK /\ PlaceInv
  OBVIOUS
<1>1. CtrType
  <2>1. /\ [name |-> "web", state |-> "running", agent |-> FALSE,
            auto |-> TRUE, from |-> None] \in Container
        /\ [name |-> "dockpal-agent", state |-> "running", agent |-> TRUE,
            auto |-> FALSE, from |-> None] \in Container
    BY DEF Container, Names, NewNames
  <2> QED
    BY <2>1 DEF Init, CtrType
<1>2. ReqType /\ made \in 2..MaxIds /\ removed \in SUBSET Ids /\ faults \in 0..MaxFaults /\ PastType
  BY ContainersAssumption DEF Init, ReqType, PastType
<1>3. mon \in [left : SUBSET Ids, fails : [Ids -> 0..Limit]]
  BY ContainersAssumption DEF Init
<1>4. PlaceInv
  BY DEF Init, PlaceInv
<1> QED
  BY <1>1, <1>2, <1>3, <1>4 DEF TypeOK, CtrType, ReqType, PastType

LEMMA PlaceStep ==
    ASSUME TypeOK, PlaceInv, NEW r \in Reqs, Effect(r)
    PROVE  PlaceInv'
<1> SUFFICES ASSUME NEW s \in Reqs, req'[s] # None
             PROVE  /\ req'[s].id <= made'
                    /\ req'[s].pc = "pull" => req'[s].kind = "update"
                    /\ req'[s].pc \in {"stop", "remove"} =>
                         Recreates(req'[s]) \/ req'[s].kind \in {"remove", "force"}
                    /\ req'[s].pc \in {"inspect", "create", "start"} => Recreates(req'[s])
                    /\ req'[s].pc \in {"stop", "remove", "create"} /\ Recreates(req'[s]) =>
                         req'[s].old # None
  BY DEF PlaceInv
<1>1. made' = made \/ made' = made + 1
  BY DEF Effect, Opens, Moves, Ends, Renames, Removes, Creates
<1>2. made \in Nat /\ made' \in Nat /\ made <= made'
  BY <1>1, Ranges DEF TypeOK
<1>3. CASE s # r
  <2>1. req'[s] = req[s] /\ req[s].id \in Nat
    BY <1>3, Ranges DEF Effect, TypeOK, Request, Ids
  <2> QED
    BY <1>2, <2>1 DEF PlaceInv
<1>4. CASE s = r /\ Opens(r)
  BY <1>4, <1>2 DEF Opens
<1>5. CASE s = r /\ ~Opens(r)
  <2>1. GoesOn(r) /\ (Moves(r) \/ Renames(r) \/ Removes(r) \/ Creates(r))
    BY <1>5 DEF Effect, Ends, Renames, Removes, Creates, Moves
  <2>2. req'[r].id \in Nat /\ req'[r].id <= made'
    BY <1>2, <2>1 DEF GoesOn, PlaceInv, TypeOK, Request, Ids
  <2>3. Recreates(req'[r]) <=> Recreates(req[r])
    BY <2>1 DEF GoesOn, Recreates
  <2>4. CASE Moves(r)
    <3>0. /\ req[r].pc = "pull" => Recreates(req[r])
          /\ req[r].pc = "stop" => Recreates(req[r]) \/ req[r].kind \in {"remove", "force"}
          /\ req[r].pc = "inspect" => Recreates(req[r])
          /\ req[r].pc = "stop" /\ Recreates(req[r]) => req[r].old # None
          /\ req[r].kind \in {"remove", "force"} => ~Recreates(req[r])
      BY <2>1 DEF PlaceInv, GoesOn, Recreates
    <3>1. req'[r].pc = "inspect" => Recreates(req[r])
      BY <2>4, <3>0 DEF Moves
    <3>2. req'[r].pc \in {"stop", "remove"} =>
            (Recreates(req[r]) /\ req'[r].old # None) \/ req[r].kind \in {"remove", "force"}
      BY <2>4, <3>0 DEF Moves
    <3>3. req[r].kind \in {"remove", "force"} => ~Recreates(req[r])
      BY <3>0
    <3>4. req'[r].pc \notin {"create", "start"} /\ (req'[r].pc = "pull" => req[r].kind = "update")
      BY <2>4 DEF Moves
    <3> QED
      BY <1>5, <2>1, <2>2, <2>3, <3>1, <3>2, <3>3, <3>4 DEF GoesOn
  <2>5. CASE Renames(r)
    BY <1>5, <2>1, <2>2, <2>3, <2>5 DEF Renames, GoesOn
  <2>6. CASE Removes(r)
    BY <1>5, <2>1, <2>2, <2>3, <2>6 DEF Removes, GoesOn, PlaceInv
  <2>7. CASE Creates(r)
    BY <1>5, <2>1, <2>2, <2>3, <2>7 DEF Creates, GoesOn, PlaceInv
  <2> QED
    BY <2>1, <2>4, <2>5, <2>6, <2>7
<1> QED
  BY <1>3, <1>4, <1>5

\* A step of the system is one of a request, or leaves the containers the same.
LEMMA StepCases ==
    ASSUME TypeOK, PlaceInv, [Next]_vars
    PROVE  /\ TypeOK' /\ PlaceInv'
           /\ \/ \E r \in Reqs : Effect(r)
              \/ SameContainers /\ UNCHANGED <<made, req, removed, past>>
<1>1. CASE \E r \in Reqs : RequestStep(r)
  BY <1>1, RequestEffect, PlaceStep
<1>2. CASE HostStep
  BY <1>2, HostEffect DEF PlaceInv
<1>3. CASE UNCHANGED vars
  BY <1>3 DEF vars, TypeOK, PlaceInv, SameContainers
<1> QED
  BY <1>1, <1>2, <1>3 DEF Next, RequestStep, HostStep

LEMMA ContainersBase == Spec => [](TypeOK /\ PlaceInv)
<1>1. TypeOK /\ PlaceInv /\ [Next]_vars => (TypeOK /\ PlaceInv)'
  BY StepCases
<1> QED
  BY <1>1, ContainersStart, PTL DEF Spec

\* The variables have their types, and no counter passes its bound.
THEOREM ContainersTyping == Spec => []TypeOK
BY ContainersBase, PTL

-----------------------------------------------------------------------------
(* What was removed stays away *)

\* The identifiers are given out in order, and a container only has the place of
\* one that is gone for good: of none whose removal was reported.
GoneInv ==
    /\ \A i \in Ids : ctr[i] # None => i <= made
    /\ \A i \in Ids : ctr[i] # None /\ ctr[i].from # None =>
         ctr[i].from <= made /\ ctr[ctr[i].from] = None /\ ctr[i].from \notin removed
    /\ \A r \in Reqs : At(r, "create") =>
         ctr[req[r].id] = None /\ req[r].id \notin removed
    /\ \A i \in removed : ctr[i] = None /\ i <= made

\* The places of the containers are the same.
SamePlaces ==
    \A i \in Ids : /\ ctr'[i] # None <=> ctr[i] # None
                   /\ ctr[i] # None => ctr'[i].from = ctr[i].from

LEMMA GoneSame ==
    ASSUME TypeOK, GoneInv, SamePlaces, UNCHANGED <<made, removed>>,
           \A s \in Reqs : At(s, "create")' => At(s, "create") /\ req'[s].id = req[s].id
    PROVE  GoneInv'
<1>1. \A i \in Ids : ctr'[i] # None <=> ctr[i] # None
  BY DEF SamePlaces
<1>2. \A i \in Ids : ctr[i] # None => ctr'[i].from = ctr[i].from
  BY DEF SamePlaces
<1>3. \A i \in Ids : ctr[i] # None => ctr[i].from \in Ids \union {None}
  BY DEF TypeOK, Container
<1>4. \A s \in Reqs : At(s, "create") => req[s].id \in Ids
  BY DEF TypeOK, Request, At
<1>5. removed \subseteq Ids
  BY DEF TypeOK
<1> QED
  BY <1>1, <1>2, <1>3, <1>4, <1>5 DEF GoneInv

LEMMA GoneStep ==
    ASSUME TypeOK, PlaceInv, GoneInv, Transport # "edge", NEW r \in Reqs, Effect(r)
    PROVE  GoneInv'
<1> DEFINE i == req[r].id
<1>1. \A s \in Reqs : s # r => (At(s, "create")' <=> At(s, "create")) /\ req'[s] = req[s]
  BY DEF Effect, At
<1>2. CASE Opens(r) \/ Moves(r) \/ Ends(r) \/ Renames(r)
  <2>1. SamePlaces /\ UNCHANGED <<made, removed>>
    BY <1>2 DEF Opens, Moves, Ends, Renames, SameContainers, SamePlaces
  <2>2. ~At(r, "create")'
    BY <1>2 DEF Opens, Moves, Ends, Renames, At
  <2> QED
    BY <1>1, <2>1, <2>2, GoneSame
<1>3. ASSUME req[r] # None
      PROVE  i \in Ids /\ i \in Nat /\ i <= made /\ made \in Nat
  BY <1>3, Ranges DEF TypeOK, Request, Ids, PlaceInv
<1>4. CASE Removes(r)
  <2>1. /\ req[r] # None /\ ctr[i] # None /\ ctr' = [ctr EXCEPT ![i] = None] /\ made' = made
    BY <1>4 DEF Removes
  <2>2. \A j \in Ids : ctr'[j] = IF j = i THEN None ELSE ctr[j]
    BY <1>3, <2>1 DEF TypeOK
  <2>3. i \notin removed /\ \A s \in Reqs : At(s, "create") => req[s].id # i
    BY <2>1 DEF GoneInv
  <2>4. \A j \in Ids : ctr[j] # None => ctr[j].from # i
    BY <1>3, <2>1, ContainersAssumption DEF GoneInv
  <2>5. \/ removed' = removed
        \/ removed' = removed \union {i} /\ ~At(r, "create")'
    BY <1>4 DEF Removes, At
  <2>6. At(r, "create")' => removed' = removed /\ req'[r].id = i
    BY <1>4, <2>5 DEF Removes, GoesOn, At
  <2>7. \A j \in Ids : ctr[j] # None => ctr[j].from \in Ids \union {None}
    BY DEF TypeOK, Container
  <2>8. removed' \subseteq removed \union {i} /\ removed \subseteq Ids
    BY <2>5 DEF TypeOK
  <2> HIDE DEF i
  <2>9. \A j \in Ids : ctr'[j] # None => j <= made'
    BY <2>1, <2>2 DEF GoneInv
  <2>10. ASSUME NEW j \in Ids, ctr'[j] # None, ctr'[j].from # None
         PROVE  /\ ctr'[j].from <= made' /\ ctr'[ctr'[j].from] = None
                /\ ctr'[j].from \notin removed'
    <3>1. ctr'[j] = ctr[j] /\ ctr[j] # None /\ ctr[j].from \in Ids /\ ctr[j].from # i
      BY <2>2, <2>4, <2>7, <2>10
    <3>2. ctr[j].from <= made /\ ctr[ctr[j].from] = None /\ ctr[j].from \notin removed
      BY <2>10, <3>1 DEF GoneInv
    <3> QED
      BY <2>1, <2>2, <2>8, <3>1, <3>2
  <2>11. ASSUME NEW s \in Reqs, At(s, "create")'
         PROVE  ctr'[req'[s].id] = None /\ req'[s].id \notin removed'
    <3>1. CASE s = r
      BY <1>3, <2>1, <2>2, <2>3, <2>6, <2>11, <3>1 DEF i
    <3>2. CASE s # r
      <4>1. At(s, "create") /\ req'[s] = req[s]
        BY <1>1, <2>11, <3>2
      <4>2. req[s].id \in Ids /\ req[s].id # i /\ ctr[req[s].id] = None /\ req[s].id \notin removed
        BY <2>3, <4>1 DEF GoneInv, At, TypeOK, Request
      <4> QED
        BY <2>2, <2>8, <4>1, <4>2
    <3> QED
      BY <3>1, <3>2
  <2>12. \A j \in removed' : ctr'[j] = None /\ j <= made'
    BY <1>3, <2>1, <2>2, <2>8 DEF GoneInv, i
  <2> QED
    BY <2>9, <2>10, <2>11, <2>12 DEF GoneInv
<1>5. CASE Creates(r)
  <2> DEFINE new == [req[r].old EXCEPT !.state = "created", !.from = req[r].id]
  <2>1. /\ req[r] # None /\ At(r, "create") /\ made' = made + 1 /\ removed' = removed
        /\ ctr' = [ctr EXCEPT ![made + 1] = new]
        /\ ~At(r, "create")'
    BY <1>5 DEF Creates, At
  <2>2. made + 1 \in Ids
    BY <1>5, ContainersAssumption DEF Creates, TypeOK, Ids
  <2>3. new.from = i
    BY <1>5, <2>1 DEF PlaceInv, TypeOK, Request, Container, Creates
  <2>4. \A j \in Ids : ctr'[j] = IF j = made + 1 THEN new ELSE ctr[j]
    BY <2>1, <2>2 DEF TypeOK
  <2>5. ctr[i] = None /\ i \notin removed
    BY <2>1 DEF GoneInv
  <2>6. i \in Ids /\ i \in Nat /\ i <= made /\ made \in Nat
    BY <1>3, <2>1
  <2>7. \A j \in Ids : ctr[j] # None => ctr[j].from \in Ids \union {None}
    BY DEF TypeOK, Container
  <2> HIDE DEF i, new
  <2>8. ASSUME NEW j \in Ids, ctr'[j] # None
        PROVE  /\ j <= made'
               /\ ctr'[j].from # None =>
                    ctr'[j].from <= made' /\ ctr'[ctr'[j].from] = None /\ ctr'[j].from \notin removed'
    <3>1. CASE j = made + 1
      <4>1. ctr'[j].from = i /\ i # made + 1
        BY <2>3, <2>4, <2>6, <3>1
      <4>2. ctr'[i] = None
        BY <2>4, <2>5, <2>6, <4>1
      <4> QED
        BY <2>1, <2>5, <2>6, <3>1, <4>1, <4>2
    <3>2. CASE j # made + 1
      <4>1. ctr'[j] = ctr[j] /\ ctr[j] # None
        BY <2>4, <2>8, <3>2
      <4>2. j <= made /\ j \in Nat
        BY <4>1 DEF GoneInv, Ids
      <4>3. CASE ctr[j].from # None
        <5>1. ctr[j].from \in Ids /\ ctr[j].from \in Nat
          BY <2>7, <4>1, <4>3 DEF Ids
        <5>2. ctr[j].from <= made /\ ctr[ctr[j].from] = None /\ ctr[j].from \notin removed
          BY <4>1, <4>3 DEF GoneInv
        <5>3. ctr'[ctr[j].from] = None
          BY <2>4, <2>6, <5>1, <5>2
        <5> QED
          BY <2>1, <2>6, <4>1, <4>2, <5>1, <5>2, <5>3
      <4> QED
        BY <2>1, <2>6, <4>1, <4>2, <4>3
    <3> QED
      BY <3>1, <3>2
  <2>9. ASSUME NEW s \in Reqs, At(s, "create")'
        PROVE  ctr'[req'[s].id] = None /\ req'[s].id \notin removed'
    <3>1. s # r /\ At(s, "create") /\ req'[s] = req[s]
      BY <1>1, <2>1, <2>9
    <3>2. req[s].id \in Ids /\ req[s].id <= made /\ req[s].id \in Nat
      BY <3>1 DEF PlaceInv, At, TypeOK, Request, Ids
    <3> QED
      BY <2>1, <2>4, <2>6, <3>1, <3>2 DEF GoneInv
  <2>10. ASSUME NEW j \in removed'
         PROVE  ctr'[j] = None /\ j <= made'
    <3>1. j \in Ids /\ j \in Nat /\ ctr[j] = None /\ j <= made
      BY <2>1 DEF GoneInv, TypeOK, Ids
    <3> QED
      BY <2>1, <2>4, <2>6, <3>1
  <2> QED
    BY <2>8, <2>9, <2>10 DEF GoneInv
<1> QED
  BY <1>2, <1>4, <1>5 DEF Effect

\* Over the local and the direct transport, a container whose removal was reported
\* is gone and stays away.  (The edge client takes any answer for a success.)
THEOREM RemovalsHold ==
    ASSUME Transport # "edge"
    PROVE  Spec => []RemovedIsGone
<1>1. Init => GoneInv
  BY DEF Init, GoneInv, At, Ids, Web, Agent
<1>2. TypeOK /\ PlaceInv /\ GoneInv /\ [Next]_vars => GoneInv'
  <2> SUFFICES ASSUME TypeOK, PlaceInv, GoneInv, [Next]_vars PROVE GoneInv'
    OBVIOUS
  <2>1. CASE \E r \in Reqs : Effect(r)
    BY <2>1, GoneStep
  <2>2. CASE SameContainers /\ UNCHANGED <<made, req, removed, past>>
    BY <2>2, GoneSame DEF SameContainers, SamePlaces, At
  <2> QED
    BY <2>1, <2>2, StepCases
<1>3. TypeOK /\ GoneInv => RemovedIsGone
  <2>1. TypeOK => \A i \in removed : i # None
    BY ContainersAssumption DEF TypeOK, Ids
  <2> QED
    BY <2>1 DEF GoneInv, RemovedIsGone, Exists
<1> QED
  BY <1>1, <1>2, <1>3, ContainersBase, PTL DEF Spec

-----------------------------------------------------------------------------
(* What is gone has a reason *)

\* The containers that are there have different names.
NamesDiffer ==
    \A i, j \in Ids : ctr[i] # None /\ ctr[j] # None /\ i # j => ctr[i].name # ctr[j].name

\* A name is used in a set of containers; a request is about to create one; a
\* request is to remove one to recreate it.
Used(c, n) == \E i \in Ids : c[i] # None /\ c[i].name = n
Creating(q) == q # None /\ q.pc = "create"
Replacing(q) == q # None /\ q.pc \in {"stop", "remove"} /\ Recreates(q)

\* As long as no container was renamed, a recreation holds the name of the
\* container it is about to remove; once it has removed it, the name is its own.
NameInv ==
    /\ NamesDiffer
    /\ \A r \in Reqs : Creating(req[r]) => ~Used(ctr, req[r].old.name)
    /\ \A r, s \in Reqs : Creating(req[r]) /\ Creating(req[s]) /\ r # s =>
         req[r].old.name # req[s].old.name
    /\ \A r \in Reqs : Replacing(req[r]) /\ ctr[req[r].id] # None =>
         req[r].old.name = ctr[req[r].id].name

Lost(i) ==
    /\ ctr[i] = None /\ i \notin removed /\ i \notin past.replaced
    /\ \A r \in Reqs : Creating(req[r]) => req[r].id # i

MadeInv == \A i \in Ids : ctr[i] # None => i <= made

CauseInv ==
    \/ past.renamed = TRUE
    \/ NameInv /\ (past.cut = TRUE \/ \A i \in 1..made : ~Lost(i))

\* The agent's container keeps its name, and with it its protection: no request
\* for it gets beyond the check but those that cannot remove it.
AgentSafe ==
    /\ ctr[Agent] # None /\ ctr[Agent].agent = TRUE /\ ctr[Agent].name = "dockpal-agent"
    /\ \A r \in Reqs : req[r] # None /\ req[r].id = Agent =>
         req[r].pc = "check" \/ (req[r].pc = "do" /\ req[r].recreate = FALSE)

AgentInv == past.agentRenamed = TRUE \/ AgentSafe

LEMMA AgentStep ==
    ASSUME TypeOK, PlaceInv, AgentInv, NEW r \in Reqs, Effect(r)
    PROVE  AgentInv'
<1> DEFINE i == req[r].id
<1>1. CASE past.agentRenamed = TRUE
  BY <1>1 DEF Effect, Opens, Moves, Ends, Renames, Removes, Creates, AgentInv
<1>2. CASE past.agentRenamed = FALSE
  <2>0. Agent \in Ids /\ AgentSafe /\ made \in Nat /\ made >= 2
    BY <1>2, Ranges DEF AgentInv, TypeOK
  <2>1. \A s \in Reqs : s # r => req'[s] = req[s]
    BY DEF Effect
  <2>2. CASE Opens(r)
    <3>1. ctr'[Agent] # None /\ ctr'[Agent].agent = TRUE /\ ctr'[Agent].name = "dockpal-agent"
      BY <2>0, <2>2 DEF Opens, SameContainers, AgentSafe
    <3>2. req'[r].pc = "check" \/ (req'[r].pc = "do" /\ req'[r].recreate = FALSE)
      BY <2>2 DEF Opens
    <3> QED
      BY <2>0, <2>1, <3>1, <3>2 DEF AgentInv, AgentSafe
  <2>3. CASE Moves(r)
    <3>1. ctr'[Agent] # None /\ ctr'[Agent].agent = TRUE /\ ctr'[Agent].name = "dockpal-agent"
      BY <2>0, <2>3 DEF Moves, SameContainers, AgentSafe
    <3>2. req'[r].id # Agent
      <4>1. SUFFICES ASSUME i = Agent PROVE FALSE
        BY <2>3 DEF Moves, GoesOn
      <4>2. req[r] # None /\ (req[r].pc = "check" \/ (req[r].pc = "do" /\ req[r].recreate = FALSE))
        BY <2>0, <2>3, <4>1 DEF Moves, GoesOn, AgentSafe
      <4>3. Protected(i)
        BY <2>0, <4>1 DEF Protected, AgentSafe
      <4> QED
        BY <2>3, <4>2, <4>3 DEF Moves
    <3> QED
      BY <2>0, <2>1, <3>1, <3>2 DEF AgentInv, AgentSafe
  <2>4. CASE Ends(r)
    <3>1. ctr'[Agent] # None /\ ctr'[Agent].agent = TRUE /\ ctr'[Agent].name = "dockpal-agent"
      BY <2>0, <2>4 DEF Ends, SameContainers, AgentSafe
    <3> QED
      BY <2>0, <2>1, <2>4, <3>1 DEF Ends, AgentInv, AgentSafe
  <2>5. CASE Renames(r)
    <3>1. CASE i = Agent
      BY <2>0, <2>5, <3>1 DEF Renames, AgentInv, AgentSafe
    <3>2. CASE i # Agent
      <4>1. ctr'[Agent] # None /\ ctr'[Agent].agent = TRUE /\ ctr'[Agent].name = "dockpal-agent"
        BY <2>0, <2>5, <3>2 DEF Renames, AgentSafe
      <4>2. req'[r] # None => req'[r].id # Agent
        BY <2>5, <3>2 DEF Renames, GoesOn
      <4> QED
        BY <2>0, <2>1, <4>1, <4>2 DEF AgentInv, AgentSafe
    <3> QED
      BY <3>1, <3>2
  <2>6. CASE Removes(r)
    <3>1. req[r] # None /\ req[r].pc = "remove" /\ ctr' = [ctr EXCEPT ![i] = None]
      BY <2>6 DEF Removes
    <3>2. i # Agent
      BY <2>0, <3>1 DEF AgentSafe
    <3>3. ctr'[Agent] = ctr[Agent]
      BY <2>0, <3>1, <3>2 DEF TypeOK
    <3>4. req'[r] # None => req'[r].id # Agent
      BY <2>6, <3>2 DEF Removes, GoesOn
    <3> QED
      BY <2>0, <2>1, <3>3, <3>4 DEF AgentInv, AgentSafe
  <2>7. CASE Creates(r)
    <3>1. req[r] # None /\ req[r].pc = "create" /\ made + 1 # Agent
      BY <2>0, <2>7 DEF Creates, Agent
    <3>2. i # Agent
      BY <2>0, <3>1 DEF AgentSafe
    <3>3. ctr'[Agent] = ctr[Agent]
      BY <2>0, <2>7, <3>1 DEF TypeOK, Creates
    <3>4. req'[r] # None => req'[r].id # Agent
      BY <2>7, <3>2 DEF Creates, GoesOn
    <3> QED
      BY <2>0, <2>1, <3>3, <3>4 DEF AgentInv, AgentSafe
  <2> QED
    BY <2>2, <2>3, <2>4, <2>5, <2>6, <2>7 DEF Effect
<1> QED
  BY <1>1, <1>2 DEF TypeOK

\* Names are told apart the same way when the containers are the same, and no
\* request has come to a removal or a creation with a name it had not before.
LEMMA NameSame ==
    ASSUME TypeOK, TypeOK', NameInv, SameContainers,
           \A s \in Reqs : Creating(req'[s]) => Creating(req[s]) /\ req'[s].old = req[s].old,
           \A s \in Reqs : Replacing(req'[s]) /\ ctr[req'[s].id] # None =>
             req'[s].old.name = ctr[req'[s].id].name
    PROVE  NameInv'
<1>1. \A n : Used(ctr', n) <=> Used(ctr, n)
  BY DEF Used, SameContainers
<1>2. NamesDiffer'
  BY DEF NameInv, NamesDiffer, SameContainers
<1>3. \A s \in Reqs : Creating(req'[s]) => ~Used(ctr', req'[s].old.name)
  BY <1>1 DEF NameInv
<1>4. \A s, t \in Reqs : Creating(req'[s]) /\ Creating(req'[t]) /\ s # t =>
         req'[s].old.name # req'[t].old.name
  BY DEF NameInv
<1>5. ASSUME NEW s \in Reqs, Replacing(req'[s]), ctr'[req'[s].id] # None
      PROVE  req'[s].old.name = ctr'[req'[s].id].name
  <2>1. req'[s].id \in Ids
    BY <1>5 DEF Replacing, TypeOK, Request
  <2> QED
    BY <1>5, <2>1 DEF SameContainers
<1> QED
  BY <1>2, <1>3, <1>4, <1>5 DEF NameInv

LEMMA NameStep ==
    ASSUME TypeOK, TypeOK', PlaceInv, NameInv, \A i \in Ids : ctr[i] # None => i <= made,
           NEW r \in Reqs, Effect(r)
    PROVE  past'.renamed = TRUE \/ NameInv'
<1> DEFINE i == req[r].id
<1>1. \A s \in Reqs : s # r => req'[s] = req[s]
  BY DEF Effect
<1>2. CASE Opens(r) \/ Ends(r)
  <2>1. SameContainers /\ ~Creating(req'[r]) /\ ~Replacing(req'[r])
    BY <1>2 DEF Opens, Ends, Creating, Replacing
  <2> QED
    BY <1>1, <2>1, NameSame DEF NameInv
<1>3. CASE Moves(r)
  <2>1. SameContainers /\ ~Creating(req'[r])
    BY <1>3 DEF Moves, Creating, Replacing
  <2>2. Replacing(req'[r]) /\ ctr[req'[r].id] # None =>
          req'[r].old.name = ctr[req'[r].id].name
    <3>1. SUFFICES ASSUME req'[r].pc \in {"stop", "remove"}, Recreates(req[r]), ctr[i] # None
                   PROVE  req'[r].old.name = ctr[i].name
      BY <1>3 DEF Moves, GoesOn, Replacing, Recreates
    <3>2. req[r].kind \notin {"force", "remove"}
      BY <3>1 DEF Recreates
    <3>3. \/ req'[r].old = ctr[i]
          \/ req[r].pc = "stop" /\ req'[r].old = req[r].old
      BY <1>3, <3>1, <3>2 DEF Moves
    <3>4. req[r].pc = "stop" => req[r].old.name = ctr[i].name
      BY <1>3, <3>1 DEF NameInv, Replacing, Moves, GoesOn
    <3> QED
      BY <3>3, <3>4
  <2> QED
    BY <1>1, <2>1, <2>2, NameSame DEF NameInv
<1>4. CASE Renames(r)
  BY <1>4 DEF Renames
<1>5. CASE Removes(r)
  <2>1. /\ Replacing(req[r]) \/ ~Recreates(req[r])
        /\ req[r] # None /\ ctr[i] # None /\ i \in Ids
        /\ ctr' = [ctr EXCEPT ![i] = None]
    BY <1>5 DEF Removes, Creating, Replacing, TypeOK, Request
  <2>2. \A j \in Ids : ctr'[j] = IF j = i THEN None ELSE ctr[j]
    BY <2>1 DEF TypeOK
  <2>3. NamesDiffer'
    BY <2>2 DEF NameInv, NamesDiffer
  <2>4. ASSUME Creating(req'[r])
        PROVE  Recreates(req[r]) /\ req'[r].old = req[r].old /\ req[r].old.name = ctr[i].name
    <3>1. Recreates(req[r]) /\ req'[r].old = req[r].old
      BY <1>5, <2>4 DEF Removes, Creating, Replacing
    <3> QED
      BY <2>1, <3>1 DEF NameInv
  <2>5. ~Replacing(req'[r])
    BY <1>5 DEF Removes, Creating, Replacing
  <2> HIDE DEF i
  <2>6. \A n : Used(ctr', n) => Used(ctr, n) /\ n # ctr[i].name
    BY <2>1, <2>2 DEF Used, NameInv, NamesDiffer
  <2>7. Used(ctr, ctr[i].name)
    BY <2>1 DEF Used
  <2>8. \A s \in Reqs : Creating(req'[s]) => ~Used(ctr', req'[s].old.name)
    <3> SUFFICES ASSUME NEW s \in Reqs, Creating(req'[s]) PROVE ~Used(ctr', req'[s].old.name)
      OBVIOUS
    <3>1. CASE s = r
      BY <2>4, <2>6, <3>1
    <3>2. CASE s # r
      <4>1. Creating(req[s]) /\ req'[s] = req[s] /\ ~Used(ctr, req[s].old.name)
        BY <1>1, <3>2 DEF NameInv
      <4> QED
        BY <2>6, <4>1
    <3> QED
      BY <3>1, <3>2
  <2>9. ASSUME NEW s \in Reqs, NEW t \in Reqs, Creating(req'[s]), Creating(req'[t]), s # t
        PROVE  req'[s].old.name # req'[t].old.name
    <3>1. \A u \in Reqs : u # r /\ Creating(req'[u]) =>
            Creating(req[u]) /\ req'[u] = req[u] /\ req[u].old.name # ctr[i].name
      BY <1>1, <2>7 DEF NameInv
    <3>2. CASE s = r
      <4>1. req'[s].old.name = ctr[i].name
        BY <2>4, <2>9, <3>2
      <4>2. req'[t].old.name # ctr[i].name
        BY <2>9, <3>1, <3>2
      <4> QED
        BY <4>1, <4>2
    <3>3. CASE t = r
      <4>1. req'[t].old.name = ctr[i].name
        BY <2>4, <2>9, <3>3
      <4>2. req'[s].old.name # ctr[i].name
        BY <2>9, <3>1, <3>3
      <4> QED
        BY <4>1, <4>2
    <3>4. CASE s # r /\ t # r
      BY <2>9, <3>1, <3>4 DEF NameInv
    <3> QED
      BY <3>2, <3>3, <3>4
  <2>10. ASSUME NEW s \in Reqs, Replacing(req'[s]), ctr'[req'[s].id] # None
         PROVE  req'[s].old.name = ctr'[req'[s].id].name
    <3>1. s # r /\ req'[s] = req[s] /\ Replacing(req[s])
      BY <1>1, <2>5, <2>10
    <3>2. req[s].id \in Ids
      BY <3>1 DEF Creating, Replacing, TypeOK, Request
    <3>3. ctr'[req[s].id] = ctr[req[s].id]
      BY <2>2, <2>10, <3>1, <3>2
    <3> QED
      BY <2>10, <3>1, <3>3 DEF NameInv
  <2> QED
    BY <2>3, <2>8, <2>9, <2>10 DEF NameInv
<1>6. CASE Creates(r)
  <2> DEFINE new == [req[r].old EXCEPT !.state = "created", !.from = req[r].id]
  <2>1. /\ req[r] # None /\ Creating(req[r]) /\ ~Used(ctr, req[r].old.name)
        /\ ctr' = [ctr EXCEPT ![made + 1] = new]
        /\ ~Creating(req'[r]) /\ ~Replacing(req'[r])
    BY <1>6 DEF Creates, Creating, Replacing, Taken, Exists, Used
  <2>2. made + 1 \in Ids /\ made \in Nat
    BY <1>6, ContainersAssumption DEF Creates, TypeOK, Ids
  <2>3. new.name = req[r].old.name
    BY <1>6, <2>1 DEF PlaceInv, TypeOK, Request, Container, Creates
  <2> HIDE DEF new
  <2>4. \A j \in Ids : ctr'[j] = IF j = made + 1 THEN new ELSE ctr[j]
    BY <2>1, <2>2 DEF TypeOK
  <2>5. \A j \in Ids : ctr[j] # None => ctr[j].name # new.name
    BY <2>1, <2>3 DEF Used
  <2>6. NamesDiffer'
    BY <2>4, <2>5 DEF NameInv, NamesDiffer
  <2>7. \A n : Used(ctr', n) => Used(ctr, n) \/ n = new.name
    BY <2>4 DEF Used
  <2>8. ASSUME NEW s \in Reqs, Creating(req'[s])
        PROVE  ~Used(ctr', req'[s].old.name)
    <3>1. s # r /\ Creating(req[s]) /\ req'[s] = req[s]
      BY <1>1, <2>1, <2>8
    <3>2. ~Used(ctr, req[s].old.name) /\ req[s].old.name # new.name
      BY <2>1, <2>3, <3>1 DEF NameInv
    <3> QED
      BY <2>7, <3>1, <3>2
  <2>9. \A s, t \in Reqs : Creating(req'[s]) /\ Creating(req'[t]) /\ s # t =>
           req'[s].old.name # req'[t].old.name
    BY <1>1, <2>1 DEF NameInv
  <2>10. ASSUME NEW s \in Reqs, Replacing(req'[s]), ctr'[req'[s].id] # None
         PROVE  req'[s].old.name = ctr'[req'[s].id].name
    <3>1. s # r /\ req'[s] = req[s] /\ Replacing(req[s])
      BY <1>1, <2>1, <2>10
    <3>2. req[s].id \in Ids /\ req[s].id <= made
      BY <3>1 DEF Creating, Replacing, TypeOK, Request, PlaceInv
    <3>3. req[s].id # made + 1
      BY <2>2, <3>2 DEF Ids
    <3>4. ctr'[req[s].id] = ctr[req[s].id]
      BY <2>4, <3>2, <3>3
    <3> QED
      BY <2>10, <3>1, <3>4 DEF NameInv
  <2> QED
    BY <2>6, <2>8, <2>9, <2>10 DEF NameInv
<1> QED
  BY <1>2, <1>3, <1>4, <1>5, <1>6 DEF Effect

LEMMA MadeStep ==
    ASSUME TypeOK, MadeInv, NEW r \in Reqs, Effect(r)
    PROVE  MadeInv'
<1>1. made \in Nat
  BY Ranges DEF TypeOK
<1>2. CASE made' = made /\ \A i \in Ids : ctr'[i] # None => ctr[i] # None
  BY <1>2 DEF MadeInv
<1>3. CASE Removes(r)
  BY <1>3 DEF Removes, MadeInv, TypeOK
<1>4. CASE Creates(r)
  <2>1. \A i \in Ids : i # made + 1 => ctr'[i] = ctr[i]
    BY <1>4 DEF Creates, TypeOK
  <2>2. made' = made + 1
    BY <1>4 DEF Creates
  <2>3. \A i \in Ids : i \in Nat
    BY DEF Ids
  <2> QED
    BY <1>1, <2>1, <2>2, <2>3 DEF MadeInv
<1> QED
  BY <1>2, <1>3, <1>4 DEF Effect, Opens, Moves, Ends, Renames, SameContainers

\* Without a rename and a creation cut short, nothing is lost.
LEMMA LossStep ==
    ASSUME TypeOK, PlaceInv, MadeInv, NameInv, \A i \in 1..made : ~Lost(i),
           NEW r \in Reqs, Effect(r)
    PROVE  past'.renamed = TRUE \/ past'.cut = TRUE \/ \A i \in 1..made' : ~Lost(i)'
<1>1. SUFFICES ASSUME past'.renamed # TRUE, past'.cut # TRUE, NEW j \in 1..made',
                      ctr'[j] = None, j \notin removed', j \notin past'.replaced
               PROVE  \E s \in Reqs : Creating(req'[s]) /\ req'[s].id = j
  BY DEF Lost
<1>2. made \in Nat /\ 1..made \subseteq Ids /\ ~Renames(r)
  BY <1>1, Ranges DEF TypeOK, Renames
<1>3. \A s \in Reqs : s # r => req'[s] = req[s]
  BY DEF Effect
<1>4. \A k \in 1..made : ctr[k] = None /\ k \notin removed /\ k \notin past.replaced =>
        \E s \in Reqs : Creating(req[s]) /\ req[s].id = k
  BY DEF Lost
<1>5. CASE Opens(r) \/ Moves(r) \/ Ends(r)
  <2>1. /\ made' = made /\ SameContainers /\ past'.replaced = past.replaced
        /\ removed \subseteq removed'
    BY <1>5 DEF Opens, Moves, Ends
  <2>2. ~Creating(req[r])
    <3>1. SUFFICES ASSUME Creating(req[r]) PROVE FALSE
      OBVIOUS
    <3>2. Ends(r) /\ Taken(req[r].old.name)
      BY <1>1, <1>5, <3>1 DEF Opens, Moves, Ends, Creating
    <3> QED
      BY <3>1, <3>2 DEF NameInv, Used, Taken, Exists
  <2>3. j \in 1..made /\ j \in Ids /\ ctr[j] = None /\ j \notin removed /\ j \notin past.replaced
    BY <1>1, <1>2, <2>1 DEF SameContainers
  <2>4. PICK s \in Reqs : Creating(req[s]) /\ req[s].id = j
    BY <1>4, <2>3
  <2> QED
    BY <1>3, <2>2, <2>4
<1>6. CASE Removes(r)
  <2>1. made' = made /\ past' = past /\ removed \subseteq removed'
    BY <1>6 DEF Removes
  <2>2. CASE j = req[r].id
    <3>1. removed' # removed \union {j}
      BY <1>1
    <3>2. GoesOn(r) /\ req'[r].pc = "create"
      BY <1>6, <2>2, <3>1 DEF Removes
    <3> QED
      BY <2>2, <3>2 DEF GoesOn, Creating
  <2>3. CASE j # req[r].id
    <3>1. j \in Ids /\ ctr'[j] = ctr[j]
      BY <1>2, <1>6, <2>1, <2>3 DEF Removes, TypeOK
    <3>2. PICK s \in Reqs : Creating(req[s]) /\ req[s].id = j
      BY <1>1, <1>4, <2>1, <3>1
    <3>3. s # r
      BY <1>6, <3>2 DEF Removes, Creating
    <3> QED
      BY <1>3, <3>2, <3>3
  <2> QED
    BY <2>2, <2>3
<1>7. CASE Creates(r)
  <2> DEFINE new == [req[r].old EXCEPT !.state = "created", !.from = req[r].id]
  <2>1. /\ made' = made + 1 /\ removed' = removed
        /\ past'.replaced = past.replaced \union {req[r].id}
        /\ ctr' = [ctr EXCEPT ![made + 1] = new]
        /\ made + 1 \in Ids
    BY <1>2, <1>7, ContainersAssumption DEF Creates, TypeOK, Ids
  <2>2. ctr'[made + 1] # None
    <3>1. new \in Container
      <4>1. req[r].id \in Ids /\ req[r].old \in Container
        BY <1>7 DEF Creates, PlaceInv, TypeOK, Request, Recreates
      <4> QED
        BY <4>1 DEF Container
    <3> HIDE DEF new
    <3> QED
      BY <2>1, <3>1, NoneAssumption DEF TypeOK
  <2>3. j \in 1..made /\ j \in Ids /\ j # made + 1
    BY <1>1, <1>2, <2>1, <2>2
  <2> HIDE DEF new
  <2>4. ctr[j] = None
    BY <1>1, <2>1, <2>3 DEF TypeOK
  <2>5. PICK s \in Reqs : Creating(req[s]) /\ req[s].id = j
    BY <1>1, <1>4, <2>1, <2>3, <2>4
  <2>6. s # r
    BY <1>1, <2>1, <2>5
  <2> QED
    BY <1>3, <2>5, <2>6
<1> QED
  BY <1>2, <1>5, <1>6, <1>7 DEF Effect

\* A container that is gone was removed, was replaced, or is being created again,
\* unless a creation was cut short or a container renamed; and the agent's is there
\* unless it was renamed.
THEOREM LossesExplained == Spec => []LossHasCause
<1> DEFINE IInv == MadeInv /\ CauseInv /\ AgentInv
<1>1. Init => IInv
  <2> SUFFICES ASSUME Init PROVE IInv
    OBVIOUS
  <2>1. MadeInv
    BY DEF Init, MadeInv, Web, Agent
  <2>2. ctr[1] # None /\ ctr[2] # None /\ 1 \in Ids /\ 2 \in Ids
    <3>1. /\ ctr[1].name = "web" /\ ctr[1] \in Container
          /\ ctr[2].name = "dockpal-agent" /\ ctr[2] \in Container
      BY ContainersAssumption DEF Init, Web, Agent, Ids, Container, Names, NewNames
    <3> QED
      BY <3>1, NoneAssumption, ContainersAssumption DEF Ids
  <2>3. NamesDiffer
    BY DEF Init, NamesDiffer, Web, Agent
  <2>4. NameInv
    BY <2>3 DEF NameInv, Init, Creating, Replacing
  <2>5. \A i \in 1..made : ~Lost(i)
    BY <2>2 DEF Init, Lost
  <2>6. AgentInv
    BY <2>2, ContainersAssumption DEF Init, AgentInv, AgentSafe, Agent, Web, Ids
  <2> QED
    BY <2>1, <2>4, <2>5, <2>6 DEF CauseInv
<1>2. TypeOK /\ PlaceInv /\ IInv /\ [Next]_vars => IInv'
  <2> SUFFICES ASSUME TypeOK, PlaceInv, IInv, [Next]_vars PROVE IInv'
    OBVIOUS
  <2>1. TypeOK' /\ PlaceInv'
    BY StepCases
  <2>2. ASSUME NEW r \in Reqs, Effect(r) PROVE IInv'
    <3>1. MadeInv' /\ AgentInv'
      BY <2>2, MadeStep, AgentStep
    <3>2. /\ past.renamed = TRUE => past'.renamed = TRUE
          /\ past.cut = TRUE => past'.cut = TRUE
      BY <2>2 DEF Effect, Opens, Moves, Ends, Renames, Removes, Creates
    <3>3. past.renamed = TRUE \/ past'.renamed = TRUE \/ NameInv'
      BY <2>1, <2>2, NameStep DEF CauseInv, MadeInv
    <3>4. past.renamed = TRUE \/ past.cut = TRUE \/ past'.renamed = TRUE \/ past'.cut = TRUE
            \/ \A i \in 1..made' : ~Lost(i)'
      BY <2>2, LossStep DEF CauseInv
    <3> QED
      BY <3>1, <3>2, <3>3, <3>4 DEF CauseInv
  <2>3. CASE SameContainers /\ UNCHANGED <<made, req, removed, past>>
    <3>1. MadeInv'
      BY <2>3 DEF MadeInv, SameContainers
    <3>2. NameInv => NameInv'
      <4>1. \A s \in Reqs : Replacing(req[s]) => req[s].id \in Ids
        BY DEF Replacing, TypeOK, Request
      <4> QED
        BY <2>1, <2>3, <4>1, NameSame DEF NameInv
    <3>3. \A i \in 1..made' : Lost(i)' => Lost(i)
      BY <2>3, Ranges DEF Lost, SameContainers, TypeOK
    <3>4. AgentInv'
      BY <2>3, Ranges DEF AgentInv, AgentSafe, SameContainers, TypeOK
    <3> QED
      BY <2>3, <3>1, <3>2, <3>3, <3>4 DEF CauseInv
  <2> QED
    BY <2>2, <2>3, StepCases
<1>3. TypeOK /\ IInv => LossHasCause
  <2> SUFFICES ASSUME TypeOK, IInv PROVE LossHasCause
    OBVIOUS
  <2>1. past.renamed \in BOOLEAN /\ past.cut \in BOOLEAN /\ past.agentRenamed \in BOOLEAN
    BY DEF TypeOK
  <2>2. Exists(Agent) \/ past.agentRenamed
    BY <2>1 DEF AgentInv, AgentSafe, Exists
  <2>3. ASSUME NEW i \in 1..made
        PROVE  \/ Exists(i) \/ i \in removed \/ i \in past.replaced
               \/ \E r \in Reqs : At(r, "create") /\ req[r].id = i
               \/ past.cut \/ past.renamed
    BY <2>1, <2>3 DEF CauseInv, Lost, Exists, At, Creating
  <2> QED
    BY <2>2, <2>3 DEF LossHasCause
<1> QED
  BY <1>1, <1>2, <1>3, ContainersBase, PTL DEF Spec

=============================================================================
