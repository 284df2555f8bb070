--------------------------- MODULE ServersProofs ---------------------------
(***************************************************************************)
(* For any number of requests, names, addresses and kinds of hardening:    *)
(* what the records say of a server (its name and address, its token, its  *)
(* credential and that it is hardened) disagrees with the server only for  *)
(* the reasons that the model names.                                       *)
(*                                                                         *)
(* The argument is about the copies: while no other write has fallen       *)
(* between a request's read of a record and its save, the copy it will     *)
(* save differs from the record only in what the request is about.         *)
(***************************************************************************)
EXTENDS Servers, TLAPS

Kind(r) == job[r].kind
Copy(r) == job[r].copy
AtOnce(id) == Happened("at once", id)

ApplyPlaces == {"slot", "connect", "sshd", "extras", "persist", "recheck"}

\* Where a request is tells what it is about.
JobAt(r) ==
    /\ IF AtWork(r) THEN job[r] \in Job ELSE job[r] = None
    /\ pc[r] = "save" =>
          /\ Copy(r) \in Instance
          /\ job[r].then \in {"over", "install", "recheck"}
          /\ job[r].then = "install" => Kind(r) = "install"
          /\ job[r].then = "recheck" => Kind(r) = "apply"
          /\ Kind(r) = "create" => Id(r) = r
    /\ AtWork(r) /\ Kind(r) = "create" => pc[r] = "save"
    /\ pc[r] = "install" => Kind(r) = "install" /\ Copy(r) \in Instance
    /\ pc[r] = "offline" => Kind(r) = "install"
    /\ pc[r] \in {"probe", "report"} => Kind(r) = "detect"
    /\ pc[r] \in ApplyPlaces => Kind(r) = "apply"
    /\ AtWork(r) /\ Kind(r) = "apply" => job[r].key \in Pairs /\ job[r].pub \in Pairs

JobInv == \A r \in Reqs : JobAt(r)

Typed == TypeOK /\ JobInv

Addrs == Addresses \union {None}

\* An edit gives a record another name or address.
Edited(inst, new) == \E n \in Names, a \in Addrs : new = [inst EXCEPT !.name = n, !.addr = a]

\* What a request that holds a copy of record inst will save.
Derived(r, inst) ==
    /\ Kind(r) = "edit" => Edited(inst, Copy(r))
    /\ Kind(r) = "rotate" => Copy(r) = [inst EXCEPT !.token = r]
    /\ Kind(r) = "install" /\ job[r].then = "install" => Copy(r) \in InstallDetails(inst)
    /\ Kind(r) = "apply" /\ job[r].then = "recheck" => Copy(r) = Converged(r, inst)
    /\ Kind(r) \in {"hello", "detect", "install", "apply"} /\ job[r].then = "over" => Copy(r) = inst

HolderAt(r) ==
    Holding(r) =>
        IF Kind(r) = "create" THEN Copy(r) \in Provisioned(r)
        ELSE ~AtOnce(Id(r)) => rec[Id(r)] # None /\ Derived(r, rec[Id(r)])

HolderInv == \A r \in Reqs : HolderAt(r)

\* A record that is not made yet.
Unmade(r) == pc[r] = "idle" \/ (Holding(r) /\ Kind(r) = "create")

UnmadeInv ==
    \A r \in Reqs : Unmade(r) =>
        rec[r] = None /\ r \notin proven /\ \A q \in Reqs \ {r} : AtWork(q) => Id(q) # r

Token(id) == IF rec[id] = None THEN None ELSE rec[id].token

TokenInv == \A id \in Ids : ~AtOnce(id) => Token(id) = expected[id]

TwinCause(id) == Caused({"created at once", "unlisted", "edited", "at once"}, id)

\* Also a record that is about to be made has no twin that is not explained.
TwinInv ==
    /\ TwinsHaveCause
    /\ \A r \in Reqs : Holding(r) /\ Kind(r) = "create" =>
          \A i \in Ids : rec[i] # None /\ Twins(rec[i], Copy(r)) => TwinCause(i) \/ TwinCause(r)

\* sshd runs with its files but for what a fault has left.
ConfInv ==
    \/ conf = live
    \/ conf = {} /\ \A id \in Ids : Happened("rolled back", id)
    \/ \A id \in Ids : Happened("not reloaded", id)
    \/ \A id \in Ids : Happened("half written", id)

HardenedCause(id) == Caused({"half written", "not reloaded", "rolled back", "elsewhere", "enabled again"}, id)

\* Who says, or is about to say, that record id is hardened.
SaysHardened(id) ==
    \/ rec[id] # None /\ rec[id].hardened
    \/ \E r \in Reqs : Holding(r) /\ Id(r) = id /\ Copy(r).hardened
    \/ \E r \in Reqs : pc[r] \in {"extras", "persist"} /\ Id(r) = id /\ "password" \in job[r].want

HardenedInv ==
    \A id \in Ids : SaysHardened(id) /\ ~HardenedCause(id) => "password" \in conf \intersect live

\* One job at a time applies security to an instance.
RunnerInv == \A r, q \in Reqs : Running(r) /\ Running(q) /\ Id(r) = Id(q) => r = q

\* The key that a job will keep is on the server.
KeyInv ==
    \A r \in Reqs : Running(r) /\ pc[r] # "connect" => job[r].key \in keys

LoginCause(id) ==
    Caused({"at once", "untested", "cut short", "half applied", "unsaved", "half written",
            "not reloaded", "elsewhere"}, id)

\* What sshd makes of a credential with these logins turned off and these keys,
\* root's logins aside.
Works(cred, off, known) ==
    IF cred \in {"right", "wrong"} THEN cred = "right" /\ "password" \notin off ELSE cred \in known

\* The job has turned off the password, and the panel still has it.
ConvergingAt(r) ==
    /\ AtWork(r) /\ Kind(r) = "apply" /\ "password" \in job[r].want
    /\ pc[r] \in {"extras", "persist"} \/ (pc[r] = "save" /\ job[r].then = "recheck")

Converging(id) == \E r \in Reqs : ConvergingAt(r) /\ Id(r) = id

LoginInv ==
    \A id \in proven :
        rec[id] # None /\ ~LoginCause(id) /\ ~Converging(id) =>
            LET cred == ResolveCreds(rec[id]) IN Works(cred, live, keys) /\ Works(cred, conf, keys)

IInv ==
    /\ Typed /\ HolderInv /\ UnmadeInv /\ TokenInv /\ TwinInv /\ ConfInv /\ HardenedInv
    /\ RunnerInv /\ KeyInv /\ LoginInv

-----------------------------------------------------------------------------
(* What the operators do *)

\* Only request r moves.
Only(r) == \A q \in Reqs \ {r} : pc'[q] = pc[q] /\ job'[q] = job[q]

\* What has happened stays so.
Grows == \A what \in What, id \in Ids : Happened(what, id) => Happened(what, id)'

\* Marks and Note add what they say.
LEMMA Marked ==
    ASSUME NEW what, NEW w, NEW ids, NEW id, NEW b \in BOOLEAN
    PROVE  <<what, id>> \in Marks(w, ids, b) <=> b /\ what = w /\ id \in ids
BY DEF Marks

LEMMA GotoEffect ==
    ASSUME Typed, NEW r \in Reqs, NEW place \in Places, Goto(r, place)
    PROVE  /\ Only(r) /\ pc'[r] = place
           /\ job'[r] = IF place = "over" THEN None ELSE job[r]
           /\ pc' \in [Reqs -> Places] /\ job' \in [Reqs -> Job \union {None}]
BY DEF Typed, TypeOK, Goto, Only

LEMMA GotoWithEffect ==
    ASSUME Typed, NEW r \in Reqs, NEW place \in Places, NEW j \in Job, GotoWith(r, place, j)
    PROVE  /\ Only(r) /\ pc'[r] = place /\ job'[r] = j
           /\ pc' \in [Reqs -> Places] /\ job' \in [Reqs -> Job \union {None}]
BY DEF Typed, TypeOK, GotoWith, Only

\* The requests that stay where they are.
LEMMA OthersKeepJob ==
    ASSUME JobInv, NEW r \in Reqs, Only(r), JobAt(r)' PROVE JobInv'
<1> SUFFICES ASSUME NEW q \in Reqs PROVE JobAt(q)'
  BY DEF JobInv
<1>1. CASE q = r
  BY <1>1
<1>2. CASE q # r
  <2>1. pc'[q] = pc[q] /\ job'[q] = job[q] /\ JobAt(q)
    BY <1>2 DEF Only, JobInv
  <2> QED
    BY <2>1 DEF JobAt, AtWork, Kind, Copy, Id
<1> QED
  BY <1>1, <1>2

\* An instance with some of its fields changed.
LEMMA InstanceTyped ==
    ASSUME NEW inst \in Instance
    PROVE  /\ \A new : Edited(inst, new) =>
                 /\ new \in Instance /\ new.token = inst.token /\ new.hardened = inst.hardened
                 /\ ResolveCreds(new) = ResolveCreds(inst)
           /\ \A t \in Ids : [inst EXCEPT !.token = t] \in Instance
           /\ inst # None
<1>1. inst # None
  BY NoneAssumption
<1>2. ASSUME NEW new, Edited(inst, new)
      PROVE  /\ new \in Instance /\ new.token = inst.token /\ new.hardened = inst.hardened
             /\ ResolveCreds(new) = ResolveCreds(inst)
  BY <1>2 DEF Edited, Instance, Addrs, ResolveCreds
<1>3. \A t \in Ids : [inst EXCEPT !.token = t] \in Instance
  BY DEF Instance
<1> QED
  BY <1>1, <1>2, <1>3

\* Twins have a name or an address in common, whatever else differs.
LEMMA TwinsSame ==
    ASSUME NEW x, NEW y, x.name = y.name, x.addr = y.addr, NEW z
    PROVE  Twins(x, z) <=> Twins(y, z)
BY DEF Twins

LEMMA TwinsMutual == ASSUME NEW x, NEW y PROVE Twins(x, y) <=> Twins(y, x)
BY DEF Twins

LEMMA DetailsTyped ==
    ASSUME NEW inst \in Instance, NEW x \in InstallDetails(inst)
    PROVE  /\ x \in Instance /\ x.name = inst.name /\ x.addr = inst.addr /\ x.token = inst.token
           /\ x.hardened = inst.hardened
           /\ ResolveCreds(x) \in {"right", "wrong"} \union Pairs
<1> DEFINE Goal ==
           /\ x \in Instance /\ x.name = inst.name /\ x.addr = inst.addr /\ x.token = inst.token
           /\ x.hardened = inst.hardened
           /\ ResolveCreds(x) \in {"right", "wrong"} \union Pairs
<1> USE ServersAssumption, NoneAssumption DEF Instance, ResolveCreds, Pairs, Ids
<1>1. ASSUME x = [inst EXCEPT !.pw = None], inst.key # None PROVE Goal
  BY <1>1
<1>2. ASSUME NEW p \in Passwords, x = [inst EXCEPT !.pw = p] PROVE Goal
  BY <1>2
<1>3. ASSUME NEW k \in OperatorKeys, x = [inst EXCEPT !.key = k, !.pw = None] PROVE Goal
  BY <1>3 DEF OperatorKeys
<1> HIDE DEF Goal
<1>4. \/ x = [inst EXCEPT !.pw = None] /\ inst.key # None
      \/ \E p \in Passwords : x = [inst EXCEPT !.pw = p]
      \/ \E k \in OperatorKeys : x = [inst EXCEPT !.key = k, !.pw = None]
  BY DEF InstallDetails
<1>5. Goal
  BY <1>1, <1>2, <1>3, <1>4
<1> QED
  BY <1>5 DEF Goal

-----------------------------------------------------------------------------
(* How a request begins *)

\* A request begins with a copy of the record there is, or one of its own.
Begun(r) ==
    /\ pc[r] = "idle" /\ Only(r)
    /\ pc'[r] \in {"save", "probe", "slot"}
    /\ pc' \in [Reqs -> Places] /\ job' \in [Reqs -> Job \union {None}]
    /\ Grows /\ mishaps' \subseteq What \X Ids
    /\ UNCHANGED <<recordVars, keys, sshdVars, agent, proven>>
    /\ JobAt(r)' /\ HolderAt(r)'
    /\ Kind(r)' # "create" => rec[Id(r)'] # None
    /\ Kind(r)' = "create" => \A i \in Ids : rec[i] # None /\ Twins(rec[i], Copy(r)') => TwinCause(r)'
    /\ pc'[r] = "save" =>
          /\ job'[r].then # "recheck" /\ Kind(r)' # "apply"
          /\ Copy(r)'.hardened = TRUE => rec[Id(r)'] # None /\ rec[Id(r)'].hardened = TRUE

\* The mishaps only grow.
LEMMA Growth == ASSUME mishaps \subseteq mishaps' PROVE Grows
BY DEF Grows, Happened

LEMMA BeginsEffect ==
    ASSUME Typed, NEW r \in Reqs, NEW j \in Job, NEW place \in {"save", "probe", "slot"},
           Begins(r, j, place)
    PROVE  /\ pc[r] = "idle" /\ Only(r) /\ pc'[r] = place /\ job'[r] = j
           /\ pc' \in [Reqs -> Places] /\ job' \in [Reqs -> Job \union {None}]
           /\ UNCHANGED <<recordVars, keys, sshdVars, agent, proven>>
BY GotoWithEffect DEF Begins, Places

LEMMA StartsEffect ==
    ASSUME Typed, NEW r \in Reqs, NEW j \in Job, NEW place \in {"save", "probe", "slot"},
           Starts(r, j, place)
    PROVE  /\ pc[r] = "idle" /\ Only(r) /\ pc'[r] = place /\ job'[r] = j
           /\ pc' \in [Reqs -> Places] /\ job' \in [Reqs -> Job \union {None}]
           /\ Grows /\ mishaps' \subseteq What \X Ids
           /\ UNCHANGED <<recordVars, keys, sshdVars, agent, proven>>
<1>1. Begins(r, j, place) /\ mishaps' = mishaps
  BY DEF Starts
<1> QED
  BY <1>1, BeginsEffect, Growth DEF Typed, TypeOK

LEMMA EmptyTyped ==
    ASSUME NEW kind \in Kinds, NEW id \in Ids, NEW inst \in Instance
    PROVE  /\ Empty(kind, id) \in Job
           /\ [Empty(kind, id) EXCEPT !.copy = inst] \in Job
           /\ [Empty(kind, id) EXCEPT !.copy = inst] =
                 [kind |-> kind, id |-> id, copy |-> inst, cred |-> None, key |-> None, pub |-> None,
                  want |-> {}, then |-> "over"]
BY DEF Empty, Job, Places, Kinds

\* A request that will make a record, whether or not it has seen the list.
LEMMA CreateEffect ==
    ASSUME Typed, NEW r \in Reqs, NEW inst \in Provisioned(r),
           Begins(r, [Empty("create", r) EXCEPT !.copy = inst], "save"),
           Grows, mishaps' \subseteq What \X Ids,
           \A i \in Ids : rec[i] # None /\ Twins(rec[i], inst) => TwinCause(r)'
    PROVE  Begun(r)
<1>1. inst \in Instance /\ inst.hardened = FALSE
  <2>1. PICK n \in Names, a \in Addrs : inst = Fresh(r, n, a)
    BY DEF Provisioned, Addrs
  <2> QED
    BY <2>1 DEF Fresh, Instance, Ids, Pairs, Addrs
<1> DEFINE j == [kind |-> "create", id |-> r, copy |-> inst, cred |-> None, key |-> None,
                 pub |-> None, want |-> {}, then |-> "over"]
<1>2. j \in Job /\ Begins(r, j, "save")
  BY <1>1, EmptyTyped DEF Kinds, Ids
<1>3. /\ pc[r] = "idle" /\ Only(r) /\ pc'[r] = "save" /\ job'[r] = j
      /\ pc' \in [Reqs -> Places] /\ job' \in [Reqs -> Job \union {None}]
      /\ UNCHANGED <<recordVars, keys, sshdVars, agent, proven>>
  BY <1>2, BeginsEffect
<1>4. JobAt(r)'
  BY <1>1, <1>2, <1>3 DEF JobAt, AtWork, Kind, Copy, Id, ApplyPlaces
<1>5. HolderAt(r)'
  BY <1>3 DEF HolderAt, Kind, Copy, Holding
<1> QED
  BY <1>1, <1>3, <1>4, <1>5 DEF Begun, Kind, Copy, Id

LEMMA ListEffect ==
    ASSUME Typed, NEW r \in Reqs, ListInstances(r) PROVE Begun(r)
<1>1. PICK inst \in Provisioned(r) :
        ~Taken(inst) /\ Starts(r, [Empty("create", r) EXCEPT !.copy = inst], "save")
  BY DEF ListInstances
<1>2. /\ Begins(r, [Empty("create", r) EXCEPT !.copy = inst], "save") /\ mishaps' = mishaps
      /\ \A i \in Ids : ~(rec[i] # None /\ Twins(rec[i], inst))
  BY <1>1 DEF Starts, Taken
<1>3. Grows /\ mishaps' \subseteq What \X Ids
  BY <1>2, Growth DEF Typed, TypeOK
<1> QED
  BY <1>2, <1>3, CreateEffect

\* Without the list there may be twins, and that is noted.
LEMMA UnlistedEffect ==
    ASSUME Typed, NEW r \in Reqs, ListInstancesFails(r) PROVE Begun(r)
<1>1. PICK inst \in Provisioned(r) :
        /\ Begins(r, [Empty("create", r) EXCEPT !.copy = inst], "save")
        /\ Note("unlisted", {r}, TRUE)
  BY DEF ListInstancesFails
<1>2. "unlisted" \in What /\ {r} \in SUBSET Ids
  BY DEF What, Faults, Ids
<1>3. Grows /\ mishaps' \subseteq What \X Ids /\ TwinCause(r)'
  <2>1. mishaps' = mishaps \union Marks("unlisted", {r}, TRUE)
    BY <1>1 DEF Note
  <2>2. <<"unlisted", r>> \in Marks("unlisted", {r}, TRUE)
    BY Marked
  <2>3. Marks("unlisted", {r}, TRUE) \subseteq What \X Ids
    BY <1>2 DEF Marks
  <2> QED
    BY <2>1, <2>2, <2>3, Growth DEF Typed, TypeOK, TwinCause, Caused, Happened
<1> QED
  BY <1>1, <1>3, CreateEffect

\* The requests that change a field of the record, or none.
LEMMA GetEffect ==
    ASSUME Typed, NEW r \in Reqs, NEW id \in Ids, NEW kind \in {"edit", "rotate", "hello"},
           NEW inst \in Instance, GetInstance(r, kind, id, inst),
           kind = "edit" => Edited(rec[id], inst),
           kind = "rotate" => inst = [rec[id] EXCEPT !.token = r],
           kind = "hello" => inst = rec[id]
    PROVE  Begun(r)
<1> DEFINE j == [kind |-> kind, id |-> id, copy |-> inst, cred |-> None, key |-> None, pub |-> None,
                 want |-> {}, then |-> "over"]
<1>1. rec[id] # None /\ j \in Job /\ Starts(r, j, "save")
  BY EmptyTyped DEF GetInstance, Kinds
<1>2. /\ pc[r] = "idle" /\ Only(r) /\ pc'[r] = "save" /\ job'[r] = j
      /\ pc' \in [Reqs -> Places] /\ job' \in [Reqs -> Job \union {None}]
      /\ Grows /\ mishaps' \subseteq What \X Ids
      /\ UNCHANGED <<recordVars, keys, sshdVars, agent, proven>>
  BY <1>1, StartsEffect
<1>3. JobAt(r)'
  BY <1>1, <1>2 DEF JobAt, AtWork, Kind, Copy, Id, ApplyPlaces
<1>4. HolderAt(r)'
  BY <1>1, <1>2 DEF HolderAt, Derived, Kind, Copy, Id, Holding, recordVars
<1>5. rec[id] \in Instance /\ inst.hardened = rec[id].hardened
  <2>1. rec[id] \in Instance
    BY <1>1 DEF Typed, TypeOK
  <2> QED
    BY <2>1, InstanceTyped DEF Instance
<1> QED
  BY <1>1, <1>2, <1>3, <1>4, <1>5 DEF Begun, Kind, Copy, Id

LEMMA InstallEffect ==
    ASSUME Typed, NEW r \in Reqs, NEW id \in Ids, InstallRequested(r, id) PROVE Begun(r)
<1>1. rec[id] \in Instance /\ rec[id] # None
  BY DEF InstallRequested, Typed, TypeOK
<1>2. PICK inst \in InstallDetails(rec[id]) :
        Starts(r, [Empty("install", id) EXCEPT !.copy = inst, !.cred = ResolveCreds(inst),
                                               !.then = "install"], "save")
  BY DEF InstallRequested
<1>3. /\ inst \in Instance /\ inst.hardened = rec[id].hardened
      /\ ResolveCreds(inst) \in {"right", "wrong"} \union Pairs
  BY <1>1, DetailsTyped
<1> DEFINE j == [Empty("install", id) EXCEPT !.copy = inst, !.cred = ResolveCreds(inst),
                                             !.then = "install"]
<1>4. /\ j \in Job /\ j.kind = "install" /\ j.id = id /\ j.copy = inst /\ j.then = "install"
  <2>1. Empty("install", id) \in Job /\ Empty("install", id).kind = "install" /\ Empty("install", id).id = id
    BY EmptyTyped, <1>3 DEF Kinds, Empty
  <2> HIDE DEF j
  <2>2. j = [Empty("install", id) EXCEPT !.copy = inst, !.cred = ResolveCreds(inst),
                                         !.then = "install"]
    BY DEF j
  <2> QED
    BY <1>3, <2>1, <2>2 DEF Job, Places
<1> HIDE DEF j
<1>5. Starts(r, j, "save")
  BY <1>2 DEF j
<1>6. /\ pc[r] = "idle" /\ Only(r) /\ pc'[r] = "save" /\ job'[r] = j
      /\ pc' \in [Reqs -> Places] /\ job' \in [Reqs -> Job \union {None}]
      /\ Grows /\ mishaps' \subseteq What \X Ids
      /\ UNCHANGED <<recordVars, keys, sshdVars, agent, proven>>
  BY <1>4, <1>5, StartsEffect
<1>7. JobAt(r)'
  BY <1>3, <1>4, <1>6 DEF JobAt, AtWork, Kind, Copy, Id, ApplyPlaces
<1>8. HolderAt(r)'
  BY <1>1, <1>2, <1>4, <1>6 DEF HolderAt, Derived, Kind, Copy, Id, Holding, recordVars
<1> QED
  BY <1>1, <1>3, <1>4, <1>6, <1>7, <1>8 DEF Begun, Kind, Copy, Id

LEMMA DetectEffect ==
    ASSUME Typed, NEW r \in Reqs, NEW id \in Ids, DetectRequested(r, id) PROVE Begun(r)
<1>1. rec[id] \in Instance /\ rec[id] # None
  BY DEF DetectRequested, HasCreds, Typed, TypeOK
<1>2. ResolveCreds(rec[id]) \in {"right", "wrong"} \union Pairs \union {None}
  BY <1>1 DEF ResolveCreds, Instance
<1> DEFINE j == [kind |-> "detect", id |-> id, copy |-> None, cred |-> ResolveCreds(rec[id]),
                 key |-> None, pub |-> None, want |-> {}, then |-> "over"]
<1>3. j \in Job
  BY <1>2 DEF Job, Kinds, Places
<1>4. Starts(r, j, "probe")
  BY DEF DetectRequested, Empty
<1>5. /\ pc[r] = "idle" /\ Only(r) /\ pc'[r] = "probe" /\ job'[r] = j
      /\ pc' \in [Reqs -> Places] /\ job' \in [Reqs -> Job \union {None}]
      /\ Grows /\ mishaps' \subseteq What \X Ids
      /\ UNCHANGED <<recordVars, keys, sshdVars, agent, proven>>
  BY <1>3, <1>4, StartsEffect
<1>6. JobAt(r)' /\ HolderAt(r)'
  BY <1>3, <1>5 DEF JobAt, HolderAt, Holding, AtWork, Kind, Copy, Id, ApplyPlaces
<1> QED
  BY <1>1, <1>5, <1>6 DEF Begun, Kind, Copy, Id

LEMMA ApplyEffect ==
    ASSUME Typed, NEW r \in Reqs, NEW id \in Ids, ApplyRequested(r, id) PROVE Begun(r)
<1>1. rec[id] \in Instance /\ rec[id] # None
  BY DEF ApplyRequested, HasCreds, Typed, TypeOK
<1>2. /\ ResolveCreds(rec[id]) \in {"right", "wrong"} \union Pairs \union {None}
      /\ PanelKey(r, rec[id]) \in Pairs /\ PanelPub(r, rec[id]) \in Pairs
  BY <1>1 DEF ResolveCreds, PanelKey, PanelPub, Instance, Pairs, Ids
<1>3. PICK want \in Wanted :
        Starts(r, [Empty("apply", id) EXCEPT !.cred = ResolveCreds(rec[id]),
                      !.key = PanelKey(r, rec[id]), !.pub = PanelPub(r, rec[id]), !.want = want], "slot")
  BY DEF ApplyRequested
<1> DEFINE j == [Empty("apply", id) EXCEPT !.cred = ResolveCreds(rec[id]),
                    !.key = PanelKey(r, rec[id]), !.pub = PanelPub(r, rec[id]), !.want = want]
<1>4. j \in Job /\ j.kind = "apply" /\ j.id = id /\ j.key \in Pairs /\ j.pub \in Pairs
  <2>1. /\ Empty("apply", id) \in Job
        /\ Empty("apply", id).kind = "apply" /\ Empty("apply", id).id = id
    BY <1>1, EmptyTyped DEF Kinds, Empty
  <2>2. want \subseteq Controls
    BY ServersAssumption DEF Controls
  <2> QED
    BY <1>2, <2>1, <2>2 DEF Job
<1> HIDE DEF j
<1>5. Starts(r, j, "slot")
  BY <1>3 DEF j
<1>6. /\ pc[r] = "idle" /\ Only(r) /\ pc'[r] = "slot" /\ job'[r] = j
      /\ pc' \in [Reqs -> Places] /\ job' \in [Reqs -> Job \union {None}]
      /\ Grows /\ mishaps' \subseteq What \X Ids
      /\ UNCHANGED <<recordVars, keys, sshdVars, agent, proven>>
  BY <1>4, <1>5, StartsEffect
<1>7. JobAt(r)' /\ HolderAt(r)'
  BY <1>4, <1>6 DEF JobAt, HolderAt, Holding, AtWork, Kind, Copy, Id, ApplyPlaces
<1> QED
  BY <1>1, <1>4, <1>6, <1>7 DEF Begun, Kind, Copy, Id

LEMMA ArriveEffect ==
    ASSUME Typed, NEW r \in Reqs, Arrives(r)
    PROVE  Begun(r) \/ \E id \in Ids : DeleteInstance(r, id)
<1>1. CASE ListInstances(r) \/ ListInstancesFails(r)
  BY <1>1, ListEffect, UnlistedEffect
<1>2. ASSUME NEW id \in Ids, UpdateInstance(r, id) PROVE Begun(r)
  <2>1. rec[id] \in Instance
    BY <1>2 DEF UpdateInstance, Typed, TypeOK
  <2>2. PICK new : Edited(rec[id], new) /\ GetInstance(r, "edit", id, new)
    BY <1>2 DEF UpdateInstance, Addrs, Edited
  <2> QED
    BY <2>1, <2>2, GetEffect, InstanceTyped
<1>3. ASSUME NEW id \in Ids, RotateToken(r, id) PROVE Begun(r)
  <2>1. rec[id] \in Instance /\ r \in Ids
    BY <1>3 DEF RotateToken, GetInstance, Typed, TypeOK, Ids
  <2> QED
    BY <1>3, <2>1, GetEffect, InstanceTyped DEF RotateToken
<1>4. ASSUME NEW id \in Ids, AgentConnects(r, id) \/ TestInstance(r, id) PROVE Begun(r)
  <2>1. rec[id] \in Instance /\ GetInstance(r, "hello", id, rec[id])
    BY <1>4 DEF AgentConnects, TestInstance, Typed, TypeOK
  <2> QED
    BY <2>1, GetEffect
<1> QED
  BY <1>1, <1>2, <1>3, <1>4, InstallEffect, DetectEffect, ApplyEffect DEF Arrives

-----------------------------------------------------------------------------
(* How a request goes on *)

Loose == UNCHANGED <<keys, sshdVars, agent, proven>>

\* The types of what the steps change.
Types ==
    /\ pc' \in [Reqs -> Places] /\ job' \in [Reqs -> Job \union {None}]
    /\ keys' \subseteq Pairs /\ mishaps' \subseteq What \X Ids /\ proven' \subseteq Ids
    /\ conf' \subseteq Controls /\ live' \subseteq Controls /\ agent' \in Ids \union {None}

\* The server has taken the credential of record id from request r.
Tried(r, id) == id = Id(r) /\ rec[id] # None /\ Accepts(ResolveCreds(rec[id]))

\* The places of a security job come in this order.
Follows(old, new) ==
    /\ new = "connect" => old = "slot"
    /\ new = "sshd" => old = "connect"
    /\ new = "extras" => old = "sshd"
    /\ new = "persist" => old = "extras"
    /\ new \in {"save", "recheck"} => old \in {"persist", "save", "recheck"}

\* A step of a request that has begun and does not write a record: it stays
\* about the same instance, and what it will save it has just read.
Moved(r) ==
    /\ AtWork(r) /\ Only(r) /\ Types /\ Grows /\ UNCHANGED recordVars
    /\ keys \subseteq keys'
    /\ proven \subseteq proven'
    /\ \A id \in proven' : id \in proven \/ Tried(r, id)
    /\ Kind(r) # "create"
    /\ JobAt(r)' /\ HolderAt(r)'
    /\ AtWork(r)' =>
          /\ Id(r)' = Id(r) /\ Kind(r)' = Kind(r)
          /\ job'[r].want = job[r].want /\ job'[r].key = job[r].key
    /\ pc'[r] # "idle"
    /\ Kind(r) = "apply" => Follows(pc[r], pc'[r])
    /\ ConvergingAt(r) /\ rec[Id(r)] # None => ConvergingAt(r)' \/ \A id \in {Id(r)} : LoginCause(id)'
    /\ pc'[r] = "save" =>
          /\ rec[Id(r)] # None
          /\ Copy(r)'.hardened = TRUE =>
                rec[Id(r)].hardened = TRUE \/ (pc[r] = "persist" /\ "password" \in job[r].want)
          /\ job'[r].then = "recheck" => pc[r] = "persist"

Fits(r, place) ==
    \/ place = "over"
    \/ place = "offline" /\ Kind(r) = "install"
    \/ place = "report" /\ Kind(r) = "detect"
    \/ place \in ApplyPlaces /\ Kind(r) = "apply" /\ Follows(pc[r], place)

\* No step but the one to "persist" may leave the password behind unexplained.
Keeps(r, place) ==
    \/ place = "persist" \/ pc[r] \notin {"extras", "persist", "save"}
    \/ rec[Id(r)] = None \/ \A id \in {Id(r)} : LoginCause(id)'

LEMMA AtWorkTyped ==
    ASSUME Typed, NEW r \in Reqs, AtWork(r) PROVE job[r] \in Job /\ job[r] # None /\ Id(r) \in Ids
BY NoneAssumption DEF Typed, JobInv, JobAt, Job, Id

\* A request goes to its next place, without a copy.
LEMMA MoveGoto ==
    ASSUME Typed, NEW r \in Reqs, AtWork(r), pc[r] = "save" => Kind(r) # "create",
           NEW place \in Places, Fits(r, place),
           Goto(r, place), Types, UNCHANGED recordVars,
           mishaps \subseteq mishaps', keys \subseteq keys', proven \subseteq proven',
           \A id \in proven' : id \in proven \/ Tried(r, id),
           Keeps(r, place)
    PROVE  Moved(r)
<1>1. /\ Only(r) /\ pc'[r] = place /\ job'[r] = IF place = "over" THEN None ELSE job[r]
  BY GotoEffect
<1>2. job[r] \in Job /\ JobAt(r) /\ place \notin {"idle", "save", "install"}
  BY DEF Typed, JobInv, JobAt, Fits, ApplyPlaces
<1>3. JobAt(r)'
  BY <1>1, <1>2 DEF Fits, JobAt, AtWork, Kind, Copy, Id, ApplyPlaces
<1>4. HolderAt(r)' /\ Kind(r) # "create"
  BY <1>1, <1>2 DEF HolderAt, Holding, JobAt
<1>5. Kind(r) = "apply" => Follows(pc[r], pc'[r])
  BY <1>1, <1>2 DEF Fits, Follows
<1>6. ConvergingAt(r) /\ rec[Id(r)] # None => ConvergingAt(r)' \/ \A id \in {Id(r)} : LoginCause(id)'
  BY <1>1, <1>2 DEF Fits, Follows, Keeps, ConvergingAt, AtWork, Kind
<1> QED
  BY <1>1, <1>2, <1>3, <1>4, <1>5, <1>6, Growth DEF Moved, AtWork, Kind, Id

\* A request reads the record again.
LEMMA MoveRead ==
    ASSUME Typed, NEW r \in Reqs, AtWork(r), Kind(r) # "create",
           NEW changed, NEW then \in {"over", "recheck"}, ReadAgain(r, changed, then),
           Fits(r, then), then = "recheck" => Kind(r) = "apply" /\ pc[r] = "persist",
           then = "over" => changed = rec[Id(r)] /\ Kind(r) \in {"install", "detect", "apply"},
           then = "over" => pc[r] \in {"offline", "report", "recheck"},
           then = "recheck" => changed = Converged(r, rec[Id(r)]),
           rec[Id(r)] # None => changed \in Instance,
           rec[Id(r)] # None =>
             (changed.hardened = TRUE =>
                rec[Id(r)].hardened = TRUE \/ (pc[r] = "persist" /\ "password" \in job[r].want))
    PROVE  Moved(r) /\ Loose /\ UNCHANGED mishaps
<1>1. /\ job[r] \in Job /\ job[r] # None /\ Id(r) \in Ids /\ JobAt(r)
  BY AtWorkTyped DEF Typed, JobInv
<1>2. Loose /\ UNCHANGED mishaps /\ UNCHANGED recordVars
  BY DEF ReadAgain, Loose
<1>3. CASE rec[Id(r)] = None
  <2>1. Goto(r, then) /\ then \in Places
    BY <1>3 DEF ReadAgain, Places
  <2>2. Types
    BY <2>1, <1>2, GotoEffect DEF Types, Typed, TypeOK, Loose, sshdVars
  <2> QED
    BY <1>2, <1>3, <2>1, <2>2, MoveGoto DEF Loose, Keeps
<1>4. CASE rec[Id(r)] # None
  <2> DEFINE j == [job[r] EXCEPT !.copy = changed, !.then = then]
  <2>1. j \in Job /\ j.kind = Kind(r) /\ j.id = Id(r) /\ j.want = job[r].want /\ j.key = job[r].key
        /\ j.pub = job[r].pub /\ j.copy = changed /\ j.then = then
    BY <1>1, <1>4 DEF Job, Places, Kind, Id
  <2> HIDE DEF j
  <2>2. GotoWith(r, "save", j)
    BY <1>4 DEF ReadAgain, j
  <2>3. Only(r) /\ pc'[r] = "save" /\ job'[r] = j
        /\ pc' \in [Reqs -> Places] /\ job' \in [Reqs -> Job \union {None}]
    BY <2>1, <2>2, GotoWithEffect DEF Places
  <2>4. Types
    BY <2>3, <1>2 DEF Types, Typed, TypeOK, Loose, sshdVars
  <2>5. JobAt(r)'
    BY <1>1, <1>4, <2>1, <2>3 DEF JobAt, AtWork, Kind, Copy, Id, ApplyPlaces
  <2>6. HolderAt(r)'
    <3>1. Kind(r)' = Kind(r) /\ Id(r)' = Id(r) /\ Copy(r)' = changed /\ rec' = rec
          /\ job'[r].then = then /\ job'[r].want = job[r].want /\ job'[r].key = job[r].key
      BY <1>2, <2>1, <2>3 DEF Kind, Id, Copy, recordVars
    <3>2. job'[r].pub = job[r].pub
      BY <2>1, <2>3
    <3>3. then = "recheck" => Converged(r, rec[Id(r)])' = Converged(r, rec[Id(r)])
      BY <3>1, <3>2 DEF Converged
    <3>4. Derived(r, rec[Id(r)])'
      BY <3>1, <3>3 DEF Derived
    <3> QED
      BY <1>4, <3>1, <3>4 DEF HolderAt
  <2>7. Kind(r) = "apply" => Follows(pc[r], pc'[r])
    BY <1>1, <2>3 DEF Follows, JobAt
  <2>8. ConvergingAt(r) => ConvergingAt(r)'
    BY <1>1, <2>1, <2>3 DEF ConvergingAt, AtWork, Kind
  <2> QED
    BY <1>1, <1>2, <1>4, <2>1, <2>3, <2>4, <2>5, <2>6, <2>7, <2>8, Growth DEF Moved, AtWork, Kind,
       Id, Copy, Loose
<1> QED
  BY <1>3, <1>4

LEMMA ConvergedTyped ==
    ASSUME Typed, NEW r \in Reqs, job[r] \in Job, NEW inst \in Instance
    PROVE  /\ Converged(r, inst) \in Instance
           /\ Converged(r, inst).name = inst.name /\ Converged(r, inst).addr = inst.addr
           /\ Converged(r, inst).token = inst.token
           /\ Converged(r, inst).key = job[r].key
           /\ Converged(r, inst).pw = IF "password" \in job[r].want THEN None ELSE inst.pw
           /\ Converged(r, inst).hardened = TRUE =>
                 inst.hardened = TRUE \/ "password" \in job[r].want
           /\ inst.hardened = TRUE \/ "password" \in job[r].want => Converged(r, inst).hardened = TRUE
<1> DEFINE kept == [inst EXCEPT !.key = job[r].key, !.pub = job[r].pub]
<1>1. /\ kept \in Instance /\ kept.name = inst.name /\ kept.addr = inst.addr /\ kept.token = inst.token
      /\ kept.key = job[r].key /\ kept.pw = inst.pw /\ kept.hardened = inst.hardened
  BY DEF Instance, Job
<1> HIDE DEF kept
<1>2. Converged(r, inst) = IF "password" \in job[r].want
                           THEN [kept EXCEPT !.pw = None, !.hardened = TRUE] ELSE kept
  BY DEF Converged, kept
<1>3. CASE "password" \in job[r].want
  BY <1>1, <1>2, <1>3 DEF Instance
<1>4. CASE "password" \notin job[r].want
  BY <1>1, <1>2, <1>4
<1> QED
  BY <1>3, <1>4

LEMMA MishapsTyped ==
    ASSUME Typed, NEW what \in What, NEW ids \in SUBSET Ids, NEW b \in BOOLEAN
    PROVE  Marks(what, ids, b) \subseteq What \X Ids
BY DEF Marks

LEMMA NoteEffect ==
    ASSUME Typed, NEW what \in What, NEW ids \in SUBSET Ids, Note(what, ids, TRUE)
    PROVE  /\ mishaps \subseteq mishaps' /\ mishaps' \subseteq What \X Ids
           /\ \A id \in ids : Happened(what, id)'
<1>1. mishaps' = mishaps \union Marks(what, ids, TRUE)
  BY DEF Note
<1> QED
  BY <1>1, MishapsTyped, Marked DEF Happened, Typed, TypeOK

\* proven grows by the instance of the request that has logged in.
LEMMA DialEffect ==
    ASSUME Typed, NEW r \in Reqs, AtWork(r), Dialled(r)
    PROVE  /\ proven \subseteq proven' /\ proven' \subseteq Ids
           /\ \A id \in proven' : id \in proven \/ Tried(r, id)
BY AtWorkTyped DEF Dialled, Typed, TypeOK, Tried

\* The steps that touch nothing but the place, and what went wrong.
Still(r) == Moved(r) /\ Loose

LEMMA StillGoto ==
    ASSUME Typed, NEW r \in Reqs, AtWork(r), pc[r] = "save" => Kind(r) # "create",
           NEW place \in Places, Fits(r, place), Goto(r, place), Loose, UNCHANGED recordVars,
           mishaps \subseteq mishaps', mishaps' \subseteq What \X Ids, Keeps(r, place)
    PROVE  Still(r)
<1>1. Types
  BY GotoEffect DEF Types, Typed, TypeOK, Loose, sshdVars
<1> QED
  BY <1>1, MoveGoto DEF Still, Loose

LEMMA KindAt ==
    ASSUME Typed, NEW r \in Reqs
    PROVE  /\ pc[r] \notin {"idle", "over"} => AtWork(r) /\ job[r] \in Job /\ Id(r) \in Ids
           /\ pc[r] = "install" => Kind(r) = "install" /\ Copy(r) \in Instance
           /\ pc[r] = "offline" => Kind(r) = "install"
           /\ pc[r] \in {"probe", "report"} => Kind(r) = "detect"
           /\ pc[r] \in ApplyPlaces => Kind(r) = "apply" /\ job[r].key \in Pairs
           /\ pc[r] = "save" /\ job[r].then = "recheck" => Kind(r) = "apply" /\ job[r].key \in Pairs
           /\ AtWork(r) => job[r].cred \in {"right", "wrong"} \union Pairs \union {None}
BY AtWorkTyped DEF Typed, JobInv, JobAt, AtWork, Job, ApplyPlaces

LEMMA OfflineStep ==
    ASSUME Typed, NEW r \in Reqs, MarkOffline(r) PROVE Still(r)
<1>1. AtWork(r) /\ Kind(r) = "install" /\ Id(r) \in Ids
  BY KindAt DEF MarkOffline
<1>2. rec[Id(r)] # None => rec[Id(r)] \in Instance
  BY <1>1 DEF Typed, TypeOK
<1> QED
  BY <1>1, <1>2, MoveRead DEF Follows, MarkOffline, Still, Fits

LEMMA ReportStep ==
    ASSUME Typed, NEW r \in Reqs, PersistSecurityState(r) PROVE Still(r)
<1>1. AtWork(r) /\ Kind(r) = "detect" /\ Id(r) \in Ids
  BY KindAt DEF PersistSecurityState
<1>2. rec[Id(r)] # None => rec[Id(r)] \in Instance
  BY <1>1 DEF Typed, TypeOK
<1> QED
  BY <1>1, <1>2, MoveRead DEF Follows, PersistSecurityState, Still, Fits

LEMMA PersistStep ==
    ASSUME Typed, NEW r \in Reqs, Persist(r) PROVE Still(r)
<1>1. AtWork(r) /\ Kind(r) = "apply" /\ Id(r) \in Ids /\ job[r] \in Job /\ pc[r] = "persist"
  BY KindAt DEF Persist, ApplyPlaces
<1>2. rec[Id(r)] # None => rec[Id(r)] \in Instance
  BY <1>1 DEF Typed, TypeOK
<1>3. rec[Id(r)] # None =>
        /\ Converged(r, rec[Id(r)]) \in Instance
        /\ Converged(r, rec[Id(r)]).hardened = TRUE =>
              rec[Id(r)].hardened = TRUE \/ "password" \in job[r].want
  BY <1>1, <1>2, ConvergedTyped
<1>4. ReadAgain(r, Converged(r, rec[Id(r)]), "recheck") /\ Fits(r, "recheck")
  BY <1>1 DEF Persist, Fits, Follows, ApplyPlaces
<1> QED
  BY <1>1, <1>2, <1>3, <1>4, MoveRead DEF Follows, Still

LEMMA RecheckStep ==
    ASSUME Typed, NEW r \in Reqs, Recheck(r) PROVE Still(r)
<1>1. AtWork(r) /\ Kind(r) = "apply" /\ Id(r) \in Ids /\ pc[r] = "recheck"
  BY KindAt DEF Recheck, ApplyPlaces
<1>2. rec[Id(r)] # None => rec[Id(r)] \in Instance
  BY <1>1 DEF Typed, TypeOK
<1>3. CASE ReadAgain(r, rec[Id(r)], "over")
  BY <1>1, <1>2, <1>3, MoveRead DEF Follows, Still, Fits
<1>4. CASE Goto(r, "over") /\ Loose /\ UNCHANGED <<recordVars, mishaps>>
  BY <1>1, <1>4, StillGoto DEF Follows, Keeps, Fits, Places, Typed, TypeOK
<1> QED
  BY <1>3, <1>4 DEF Recheck, Loose

LEMMA SlotStep ==
    ASSUME Typed, NEW r \in Reqs, TakeSlot(r)
    PROVE  /\ Still(r)
           /\ pc'[r] = "connect" => \A q \in Reqs : Running(q) => Id(q) # Id(r)
           /\ pc'[r] \in {"over", "connect"}
<1>1. AtWork(r) /\ Kind(r) = "apply" /\ pc[r] = "slot"
  BY KindAt DEF TakeSlot, ApplyPlaces
<1>2. PICK place \in {"over", "connect"} :
        Goto(r, place) /\ (place = "connect" => \A q \in Reqs : Running(q) => Id(q) # Id(r))
  BY DEF TakeSlot
<1>3. Still(r)
  BY <1>1, <1>2, StillGoto DEF Follows, Keeps, TakeSlot, Loose, Fits, ApplyPlaces, Places, Typed,
     TypeOK
<1>4. pc'[r] = place
  BY <1>2, GotoEffect DEF Places
<1> QED
  BY <1>2, <1>3, <1>4

LEMMA WantedStep ==
    ASSUME Typed, NEW r \in Reqs, SshdAsWanted(r)
    PROVE  Still(r) /\ conf = job[r].want /\ pc[r] = "sshd"
<1>1. AtWork(r) /\ Kind(r) = "apply" /\ pc[r] = "sshd"
  BY KindAt DEF SshdAsWanted, ApplyPlaces
<1> QED
  BY <1>1, StillGoto DEF Follows, Keeps, SshdAsWanted, Loose, Fits, ApplyPlaces, Places, Typed,
     TypeOK

LEMMA ExtrasStep ==
    ASSUME Typed, NEW r \in Reqs, Extras(r) PROVE Still(r)
<1>1. AtWork(r) /\ Kind(r) = "apply" /\ pc[r] = "extras"
  BY KindAt DEF Extras, ApplyPlaces
<1> QED
  BY <1>1, StillGoto DEF Follows, Keeps, Extras, Loose, Fits, ApplyPlaces, Places, Typed, TypeOK

LEMMA ExtrasFailStep ==
    ASSUME Typed, NEW r \in Reqs, ExtrasFail(r)
    PROVE  Still(r) /\ \A id \in {Id(r)} : Happened("half applied", id)'
<1>1. AtWork(r) /\ Kind(r) = "apply" /\ pc[r] = "extras" /\ Id(r) \in Ids
  BY KindAt DEF ExtrasFail, ApplyPlaces
<1>2. /\ mishaps \subseteq mishaps' /\ mishaps' \subseteq What \X Ids
      /\ \A id \in {Id(r)} : Happened("half applied", id)'
  <2>1. "half applied" \in What /\ {Id(r)} \in SUBSET Ids /\ Note("half applied", {Id(r)}, TRUE)
    BY <1>1 DEF ExtrasFail, What, Faults
  <2> QED
    BY <2>1, NoteEffect
<1>3. Keeps(r, "over") /\ \A id \in {Id(r)} : LoginCause(id)'
  BY <1>2 DEF Keeps, LoginCause, Caused
<1> QED
  BY <1>1, <1>2, <1>3, StillGoto DEF Follows, ExtrasFail, Loose, Fits, Places

LEMMA UnsavedStep ==
    ASSUME Typed, NEW r \in Reqs, PersistFails(r)
    PROVE  Still(r) /\ \A id \in {Id(r)} : Happened("unsaved", id)'
<1>1. AtWork(r) /\ Kind(r) = "apply" /\ pc[r] = "save" /\ Id(r) \in Ids
  BY KindAt DEF PersistFails
<1>2. /\ mishaps \subseteq mishaps' /\ mishaps' \subseteq What \X Ids
      /\ \A id \in {Id(r)} : Happened("unsaved", id)'
  <2>1. "unsaved" \in What /\ {Id(r)} \in SUBSET Ids /\ Note("unsaved", {Id(r)}, TRUE)
    BY <1>1 DEF PersistFails, What, Faults
  <2> QED
    BY <2>1, NoteEffect
<1>3. Keeps(r, "recheck") /\ \A id \in {Id(r)} : LoginCause(id)'
  BY <1>2 DEF Keeps, LoginCause, Caused
<1> QED
  BY <1>1, <1>2, <1>3, StillGoto DEF Follows, PersistFails, Loose, Fits, ApplyPlaces, Places

\* Logins: the credential is tried, and the request goes on.
LEMMA InstallEndsStep ==
    ASSUME Typed, NEW r \in Reqs, Installing(r), NEW place \in {"over", "offline"},
           InstallEnds(r, place), agent' \in Ids \union {None}
    PROVE  Moved(r) /\ UNCHANGED <<keys, sshdVars, mishaps>>
<1>1. AtWork(r) /\ Kind(r) = "install" /\ pc[r] = "install"
  BY KindAt DEF Installing
<1>2. /\ proven \subseteq proven' /\ proven' \subseteq Ids
      /\ \A id \in proven' : id \in proven \/ Tried(r, id)
  BY <1>1, DialEffect DEF InstallEnds
<1>3. /\ Goto(r, place) /\ place \in Places /\ Fits(r, place)
      /\ UNCHANGED <<recordVars, keys, sshdVars, mishaps>>
  BY <1>1 DEF InstallEnds, Places, Fits
<1>4. Types
  BY <1>2, <1>3, GotoEffect DEF Types, Typed, TypeOK, sshdVars
<1> QED
  BY <1>1, <1>2, <1>3, <1>4, MoveGoto DEF Keeps, Follows

LEMMA AgentStep ==
    ASSUME Typed, NEW r \in Reqs, InstallAgent(r) \/ InstallRefused(r) \/ InstallFails(r)
    PROVE  Moved(r) /\ UNCHANGED <<keys, sshdVars, mishaps>> /\ Dialled(r)
<1>1. Copy(r) \in Instance /\ Copy(r).token \in Ids
  BY KindAt DEF InstallAgent, InstallRefused, InstallFails, Installing, Instance
<1>2. agent' \in Ids \union {None}
  BY <1>1 DEF InstallAgent, InstallRefused, InstallFails, Typed, TypeOK, Copy
<1> QED
  BY <1>2, InstallEndsStep DEF InstallAgent, InstallRefused, InstallFails, InstallEnds

LEMMA DetectStep ==
    ASSUME Typed, NEW r \in Reqs, DetectSecurity(r)
    PROVE  Moved(r) /\ UNCHANGED <<keys, sshdVars, mishaps>> /\ Dialled(r)
<1>1. AtWork(r) /\ Kind(r) = "detect" /\ pc[r] = "probe"
  BY KindAt DEF DetectSecurity
<1>2. /\ proven \subseteq proven' /\ proven' \subseteq Ids
      /\ \A id \in proven' : id \in proven \/ Tried(r, id)
  BY <1>1, DialEffect DEF DetectSecurity
<1>3. /\ Goto(r, "report") /\ "report" \in Places /\ Fits(r, "report")
      /\ UNCHANGED <<recordVars, keys, sshdVars, mishaps, agent>>
  BY <1>1 DEF DetectSecurity, Places, Fits
<1>4. Types
  BY <1>2, <1>3, GotoEffect DEF Types, Typed, TypeOK, sshdVars
<1> QED
  BY <1>1, <1>2, <1>3, <1>4, MoveGoto DEF Keeps, Follows, DetectSecurity

\* InstallKeys leaves the key on the server that the job will keep.
LEMMA KeysStep ==
    ASSUME Typed, NEW r \in Reqs, InstallKeys(r)
    PROVE  /\ Moved(r) /\ UNCHANGED <<sshdVars, mishaps>> /\ Dialled(r)
           /\ pc[r] = "connect" /\ pc'[r] \in {"sshd", "over"}
           /\ pc'[r] = "sshd" => job[r].key \in keys'
<1>1. AtWork(r) /\ Kind(r) = "apply" /\ pc[r] = "connect" /\ job[r] \in Job
  BY KindAt DEF InstallKeys, ApplyPlaces
<1>2. /\ proven \subseteq proven' /\ proven' \subseteq Ids
      /\ \A id \in proven' : id \in proven \/ Tried(r, id)
  BY <1>1, DialEffect DEF InstallKeys
<1>3. keys \subseteq keys' /\ keys' \subseteq Pairs
  <2>1. CASE Accepts(job[r].cred)
    <3>1. job[r].pub \in Pairs
      BY <1>1 DEF Typed, JobInv, JobAt
    <3> QED
      BY <2>1, <3>1 DEF InstallKeys, Typed, TypeOK
  <2>2. CASE ~Accepts(job[r].cred)
    BY <2>2 DEF InstallKeys, Typed, TypeOK
  <2> QED
    BY <2>1, <2>2
<1>4. PICK place \in {"sshd", "over"} : Goto(r, place) /\ (place = "sshd" => job[r].key \in keys')
  BY DEF InstallKeys
<1>5. UNCHANGED <<recordVars, sshdVars, mishaps, agent>>
  BY DEF InstallKeys
<1>6. place \in Places /\ Fits(r, place)
  BY <1>1 DEF Places, Fits, Follows, ApplyPlaces
<1>7. Types /\ pc'[r] = place
  BY <1>3, <1>2, <1>4, <1>5, <1>6, GotoEffect DEF Types, Typed, TypeOK, sshdVars
<1>8. Moved(r)
  BY <1>1, <1>2, <1>3, <1>4, <1>5, <1>6, <1>7, MoveGoto DEF Keeps, Follows
<1> QED
  BY <1>1, <1>4, <1>5, <1>7, <1>8 DEF InstallKeys

\* The steps that rewrite sshd's files, and what each leaves.
LEMMA SshdStep ==
    ASSUME Typed, NEW r \in Reqs, Rewrites(r), NEW place \in {"extras", "over"}, Goto(r, place),
           conf' \subseteq Controls, live' \subseteq Controls,
           UNCHANGED <<recordVars, keys, agent, proven>>,
           mishaps \subseteq mishaps', mishaps' \subseteq What \X Ids
    PROVE  Moved(r) /\ pc'[r] = place
<1>1. AtWork(r) /\ Kind(r) = "apply" /\ pc[r] = "sshd"
  BY KindAt DEF Rewrites, ApplyPlaces
<1>2. place \in Places /\ Fits(r, place)
  BY <1>1 DEF Places, Fits, Follows, ApplyPlaces
<1>3. Types /\ pc'[r] = place
  BY <1>2, GotoEffect DEF Types, Typed, TypeOK
<1> QED
  BY <1>1, <1>2, <1>3, MoveGoto DEF Keeps, Follows

LEMMA ReloadStep ==
    ASSUME Typed, NEW r \in Reqs, ReloadSSHD(r)
    PROVE  /\ Moved(r) /\ UNCHANGED <<keys, proven>> /\ pc'[r] = "extras"
           /\ conf' = job[r].want /\ live' = job[r].want
           /\ \A id \in Ids \ {Id(r)} : Happened("elsewhere", id)'
           /\ "password" \in conf /\ "password" \notin job[r].want
                => \A id \in {Id(r)} : Happened("enabled again", id)'
<1>1. job[r] \in Job /\ Id(r) \in Ids
  BY KindAt DEF ReloadSSHD, Rewrites
<1>2. job[r].want \subseteq Controls
  BY <1>1 DEF Job
<1> DEFINE a == Marks("elsewhere", Ids \ {Id(r)}, TRUE)
           b == Marks("enabled again", {Id(r)}, "password" \in conf \ job[r].want)
<1>3. a \subseteq What \X Ids /\ b \subseteq What \X Ids
  <2>1. /\ "elsewhere" \in What /\ "enabled again" \in What
        /\ Ids \ {Id(r)} \in SUBSET Ids /\ {Id(r)} \in SUBSET Ids
    BY <1>1 DEF What
  <2> QED
    BY <2>1 DEF Marks
<1>4. /\ \A id \in Ids \ {Id(r)} : <<"elsewhere", id>> \in a
      /\ "password" \in conf /\ "password" \notin job[r].want 
            => <<"enabled again", Id(r)>> \in b
  BY Marked
<1>5. mishaps' = (mishaps \union a) \union b
  BY DEF ReloadSSHD
<1> HIDE DEF a, b
<1>6. mishaps \subseteq mishaps' /\ mishaps' \subseteq What \X Ids
  BY <1>3, <1>5 DEF Typed, TypeOK
<1>7. Moved(r) /\ pc'[r] = "extras"
  BY <1>2, <1>6, SshdStep DEF ReloadSSHD
<1>8. UNCHANGED <<keys, proven>> /\ conf' = job[r].want /\ live' = job[r].want
  BY DEF ReloadSSHD
<1>9. \A m \in a \union b : m \in mishaps'
  BY <1>5
<1> QED
  BY <1>4, <1>7, <1>8, <1>9 DEF Happened

LEMMA RollbackStep ==
    ASSUME Typed, NEW r \in Reqs, RollbackConfig(r)
    PROVE  /\ Moved(r) /\ UNCHANGED <<keys, proven, live>> /\ pc'[r] = "over" /\ conf' = {}
           /\ \A id \in Ids : Happened("rolled back", id)'
<1>1. /\ mishaps \subseteq mishaps' /\ mishaps' \subseteq What \X Ids
      /\ \A id \in Ids : Happened("rolled back", id)'
  <2>1. "rolled back" \in What /\ Ids \in SUBSET Ids /\ Note("rolled back", Ids, TRUE)
    BY DEF RollbackConfig, What, Faults
  <2> QED
    BY <2>1, NoteEffect
<1>2. /\ Rewrites(r) /\ Goto(r, "over") /\ conf' \subseteq Controls /\ live' \subseteq Controls
      /\ conf' = {} /\ UNCHANGED <<recordVars, keys, live, agent, proven>>
  BY DEF RollbackConfig, Typed, TypeOK
<1> QED
  BY <1>1, <1>2, SshdStep

LEMMA ReloadFailsStep ==
    ASSUME Typed, NEW r \in Reqs, ReloadFails(r)
    PROVE  /\ Moved(r) /\ UNCHANGED <<keys, proven, live>> /\ pc'[r] \in {"extras", "over"}
           /\ \A id \in Ids : Happened("not reloaded", id)'
<1>1. /\ mishaps \subseteq mishaps' /\ mishaps' \subseteq What \X Ids
      /\ \A id \in Ids : Happened("not reloaded", id)'
  <2>1. "not reloaded" \in What /\ Ids \in SUBSET Ids /\ Note("not reloaded", Ids, TRUE)
    BY DEF ReloadFails, What, Faults
  <2> QED
    BY <2>1, NoteEffect
<1>2. job[r] \in Job
  BY KindAt DEF ReloadFails, Rewrites
<1>3. /\ Rewrites(r) /\ conf' \subseteq Controls /\ live' \subseteq Controls
      /\ UNCHANGED <<recordVars, keys, live, agent, proven>>
  BY <1>2 DEF ReloadFails, Typed, TypeOK, Job
<1>4. PICK place \in {"extras", "over"} : Goto(r, place)
  BY DEF ReloadFails
<1> QED
  BY <1>1, <1>3, <1>4, SshdStep

LEMMA WriteFailsStep ==
    ASSUME Typed, NEW r \in Reqs, WriteFails(r)
    PROVE  /\ Moved(r) /\ UNCHANGED <<keys, proven>> /\ pc'[r] \in {"extras", "over"}
           /\ \A id \in Ids : Happened("half written", id)'
<1>1. /\ mishaps \subseteq mishaps' /\ mishaps' \subseteq What \X Ids
      /\ \A id \in Ids : Happened("half written", id)'
  <2>1. "half written" \in What /\ Ids \in SUBSET Ids /\ Note("half written", Ids, TRUE)
    BY DEF WriteFails, What, Faults
  <2> QED
    BY <2>1, NoteEffect
<1>2. job[r].want \subseteq Controls
  BY KindAt DEF WriteFails, Rewrites, Job
<1>3. /\ Rewrites(r) /\ conf' \subseteq Controls /\ live' \subseteq Controls
      /\ UNCHANGED <<recordVars, keys, agent, proven>>
  BY <1>2 DEF WriteFails, Typed, TypeOK
<1>4. PICK place \in {"extras", "over"} : Goto(r, place)
  BY DEF WriteFails
<1> QED
  BY <1>1, <1>3, <1>4, SshdStep

-----------------------------------------------------------------------------
(* Every step, by what it does *)

\* A step of a request that leaves sshd alone.
Went(r) ==
    /\ Moved(r) /\ UNCHANGED sshdVars
    /\ pc'[r] = "connect" => \A q \in Reqs : Running(q) => Id(q) # Id(r)
    /\ pc'[r] = "sshd" => job[r].key \in keys'
    /\ pc'[r] = "extras" => conf = job[r].want

\* A step that rewrites sshd's files.
Rewrote(r) ==
    /\ Moved(r) /\ UNCHANGED <<keys, proven>>
    /\ pc[r] = "sshd" /\ pc'[r] \in {"extras", "over"}
    /\ \/ /\ pc'[r] = "extras" /\ conf' = job[r].want /\ live' = job[r].want
          /\ \A id \in Ids \ {Id(r)} : Happened("elsewhere", id)'
          /\ "password" \in conf /\ "password" \notin job[r].want
                => \A id \in {Id(r)} : Happened("enabled again", id)'
       \/ /\ pc'[r] = "over" /\ conf' = {} /\ live' = live
          /\ \A id \in Ids : Happened("rolled back", id)'
       \/ live' = live /\ \A id \in Ids : Happened("not reloaded", id)'
       \/ \A id \in Ids : Happened("half written", id)'

\* A request writes the copy it holds.
Saved(r) ==
    /\ pc[r] = "save" /\ JobAt(r) /\ Only(r) /\ Types /\ Grows
    /\ rec' = [rec EXCEPT ![Id(r)] = Copy(r)]
    /\ expected' = IF Kind(r) \in {"create", "rotate"} THEN [expected EXCEPT ![Id(r)] = r] ELSE expected
    /\ pc'[r] = job[r].then /\ JobAt(r)'
    /\ AtWork(r)' => job'[r] = job[r]
    /\ UNCHANGED <<keys, sshdVars, agent, proven>>
    /\ \A id \in {Id(r)} :
          /\ \A q \in Reqs \ {r} :
                Copy(r) # rec[id] /\ Holding(q) /\ Id(q) = id => AtOnce(id)'
          /\ \A q \in Reqs \ {r} :
                Kind(r) = "create" /\ Holding(q) /\ Kind(q) = "create" /\ Twins(Copy(q), Copy(r))
                    => TwinCause(id)'
          /\ \A i \in Ids \ {id} :
                Kind(r) = "edit" /\ rec[i] # None /\ Twins(rec[i], Copy(r)) => TwinCause(id)'
          /\ \A q \in Reqs \ {r} :
                Kind(r) = "edit" /\ Holding(q) /\ Kind(q) = "create" /\ Twins(Copy(q), Copy(r))
                    => TwinCause(id)'
          /\ job[r].then = "install" /\ id \in proven /\ ~Accepts(ResolveCreds(Copy(r)))
                => LoginCause(id)'

\* A record is deleted.
Deleted(r, id) ==
    /\ pc[r] = "idle" /\ Only(r) /\ Types /\ Grows
    /\ rec' = [rec EXCEPT ![id] = None] /\ expected' = [expected EXCEPT ![id] = None]
    /\ pc'[r] = "over" /\ JobAt(r)'
    /\ \A q \in Reqs : Holding(q) /\ Id(q) = id => AtOnce(id)'
    /\ UNCHANGED <<keys, sshdVars, agent, proven>>

\* The world takes a key, or restarts sshd.
Turned ==
    /\ Types /\ UNCHANGED <<recordVars, job, pc, conf, agent, proven, mishaps>>
    /\ keys \subseteq keys' /\ (live' = live \/ live' = conf)

\* The panel stops.
Stopped ==
    /\ Types /\ Grows /\ UNCHANGED <<recordVars, keys, sshdVars, agent, proven>>
    /\ \A r \in Reqs :
          /\ pc'[r] \in {"idle", "over"} /\ (pc'[r] = "idle" => pc[r] = "idle") /\ job'[r] = None
          /\ AtWork(r) => \A id \in {Id(r)} : LoginCause(id)'

\* Most steps do not lead towards sshd.
LEMMA WentElse ==
    ASSUME NEW r \in Reqs, Moved(r), UNCHANGED sshdVars,
           Kind(r) # "apply" \/ pc[r] \notin {"slot", "connect", "sshd"}
    PROVE  Went(r)
<1>1. pc'[r] \notin {"connect", "sshd", "extras"}
  BY DEF Moved, JobAt, AtWork, Kind, Follows, ApplyPlaces
<1> QED
  BY <1>1 DEF Went

LEMMA GoEffect ==
    ASSUME Typed, NEW r \in Reqs,
           \/ InstallAgent(r) \/ InstallRefused(r) \/ InstallFails(r) \/ MarkOffline(r)
           \/ DetectSecurity(r) \/ PersistSecurityState(r)
           \/ TakeSlot(r) \/ InstallKeys(r) \/ SshdAsWanted(r)
           \/ Extras(r) \/ ExtrasFail(r) \/ Persist(r) \/ PersistFails(r) \/ Recheck(r)
    PROVE  Went(r)
<1>1. CASE InstallAgent(r) \/ InstallRefused(r) \/ InstallFails(r)
  BY <1>1, AgentStep, WentElse, KindAt DEF InstallAgent, InstallRefused, InstallFails, Installing
<1>2. CASE DetectSecurity(r)
  BY <1>2, DetectStep, WentElse, KindAt DEF DetectSecurity
<1>3. CASE MarkOffline(r)
  BY <1>3, OfflineStep, WentElse, KindAt DEF MarkOffline, Still, Loose
<1>4. CASE PersistSecurityState(r)
  BY <1>4, ReportStep, WentElse, KindAt DEF PersistSecurityState, Still, Loose
<1>5. CASE TakeSlot(r)
  BY <1>5, SlotStep DEF Went, Still, Loose
<1>6. CASE InstallKeys(r)
  BY <1>6, KeysStep DEF Went
<1>7. CASE SshdAsWanted(r)
  <2>1. pc'[r] \notin {"connect", "sshd"}
    BY <1>7, WantedStep, KindAt DEF Still, Moved, Follows, ApplyPlaces
  <2> QED
    BY <1>7, <2>1, WantedStep DEF Went, Still, Loose
<1>8. CASE Extras(r)
  BY <1>8, ExtrasStep, WentElse DEF Extras, Still, Loose
<1>9. CASE ExtrasFail(r)
  BY <1>9, ExtrasFailStep, WentElse DEF ExtrasFail, Still, Loose
<1>10. CASE Persist(r)
  BY <1>10, PersistStep, WentElse DEF Persist, Still, Loose
<1>11. CASE PersistFails(r)
  BY <1>11, UnsavedStep, WentElse DEF PersistFails, Still, Loose
<1>12. CASE Recheck(r)
  BY <1>12, RecheckStep, WentElse DEF Recheck, Still, Loose
<1> QED
  BY <1>1, <1>2, <1>3, <1>4, <1>5, <1>6, <1>7, <1>8, <1>9, <1>10, <1>11, <1>12

LEMMA RewriteEffect ==
    ASSUME Typed, NEW r \in Reqs, ReloadSSHD(r) \/ WriteFails(r) \/ RollbackConfig(r) \/ ReloadFails(r)
    PROVE  Rewrote(r)
<1>1. pc[r] = "sshd"
  BY DEF ReloadSSHD, WriteFails, RollbackConfig, ReloadFails, Rewrites
<1>2. CASE ReloadSSHD(r)
  BY <1>1, <1>2, ReloadStep DEF Rewrote
<1>3. CASE RollbackConfig(r)
  BY <1>1, <1>3, RollbackStep DEF Rewrote
<1>4. CASE ReloadFails(r)
  BY <1>1, <1>4, ReloadFailsStep DEF Rewrote
<1>5. CASE WriteFails(r)
  BY <1>1, <1>5, WriteFailsStep DEF Rewrote
<1> QED
  BY <1>2, <1>3, <1>4, <1>5

LEMMA SaveEffect ==
    ASSUME Typed, NEW r \in Reqs, SaveInstance(r) PROVE Saved(r)
<1>1. /\ pc[r] = "save" /\ AtWork(r) /\ JobAt(r) /\ job[r] \in Job /\ Id(r) \in Ids
      /\ Copy(r) \in Instance /\ job[r].then \in {"over", "install", "recheck"}
  BY KindAt DEF SaveInstance, Typed, JobInv, JobAt
<1>2. Goto(r, job[r].then) /\ job[r].then \in Places /\ UNCHANGED <<keys, sshdVars, agent, proven>>
  BY <1>1 DEF SaveInstance, Places
<1>3. /\ Only(r) /\ pc'[r] = job[r].then
      /\ job'[r] = IF job[r].then = "over" THEN None ELSE job[r]
      /\ pc' \in [Reqs -> Places] /\ job' \in [Reqs -> Job \union {None}]
  BY <1>2, GotoEffect
<1>4. JobAt(r)' /\ (AtWork(r)' => job'[r] = job[r])
  BY <1>1, <1>3 DEF JobAt, AtWork, Kind, Copy, Id, ApplyPlaces
<1>5. /\ rec' = [rec EXCEPT ![Id(r)] = Copy(r)]
      /\ expected' = IF Kind(r) \in {"create", "rotate"} THEN [expected EXCEPT ![Id(r)] = r] ELSE expected
  BY DEF SaveInstance, Id, Copy, Kind
<1> DEFINE others == {q \in Reqs \ {r} : Holding(q)}
           a == Marks("at once", {Id(r)}, Copy(r) # rec[Id(r)] /\ \E q \in others : Id(q) = Id(r))
           b == Marks("created at once", {Id(r)},
                      Kind(r) = "create" /\ \E q \in others : Takes(q, "create", Copy(r)))
           c == Marks("edited", {Id(r)},
                      /\ Kind(r) = "edit"
                      /\ \/ \E i \in Ids \ {Id(r)} : rec[i] # None /\ Twins(rec[i], Copy(r))
                         \/ \E q \in others : \E k \in {"create", "edit"} : Takes(q, k, Copy(r)))
           d == Marks("untested", {Id(r)},
                      job[r].then = "install" /\ Id(r) \in proven /\ ~Accepts(ResolveCreds(Copy(r))))
<1>6. mishaps' = mishaps \union a \union b \union c \union d
  BY DEF SaveInstance, Id, Copy, Kind
<1>7. a \subseteq What \X Ids /\ b \subseteq What \X Ids /\ c \subseteq What \X Ids /\ d \subseteq What \X Ids
  <2>1. /\ "at once" \in What /\ "created at once" \in What /\ "edited" \in What /\ "untested" \in What
        /\ {Id(r)} \in SUBSET Ids
    BY <1>1 DEF What
  <2> QED
    BY <2>1 DEF Marks
<1>8. \A q \in Reqs \ {r} : Copy(r) # rec[Id(r)] /\ Holding(q) /\ Id(q) = Id(r) => <<"at once", Id(r)>> \in a
  BY DEF Marks
<1>9. \A q \in Reqs \ {r} :
        Kind(r) = "create" /\ Holding(q) /\ Kind(q) = "create" /\ Twins(Copy(q), Copy(r))
            => <<"created at once", Id(r)>> \in b
  BY DEF Marks, Takes, Kind, Copy
<1>10. \A i \in Ids \ {Id(r)} :
        Kind(r) = "edit" /\ rec[i] # None /\ Twins(rec[i], Copy(r)) => <<"edited", Id(r)>> \in c
  BY DEF Marks
<1>11. \A q \in Reqs \ {r} :
        Kind(r) = "edit" /\ Holding(q) /\ Kind(q) = "create" /\ Twins(Copy(q), Copy(r))
            => <<"edited", Id(r)>> \in c
  BY DEF Marks, Takes, Kind, Copy
<1>12. job[r].then = "install" /\ Id(r) \in proven /\ ~Accepts(ResolveCreds(Copy(r)))
          => <<"untested", Id(r)>> \in d
  BY DEF Marks
<1> HIDE DEF a, b, c, d
<1>13. Types /\ mishaps \subseteq mishaps'
  BY <1>2, <1>3, <1>6, <1>7 DEF Types, Typed, TypeOK, sshdVars
<1>14. \A id \in {Id(r)} :
          /\ \A q \in Reqs \ {r} :
                Copy(r) # rec[id] /\ Holding(q) /\ Id(q) = id => AtOnce(id)'
          /\ \A q \in Reqs \ {r} :
                Kind(r) = "create" /\ Holding(q) /\ Kind(q) = "create" /\ Twins(Copy(q), Copy(r))
                    => TwinCause(id)'
          /\ \A i \in Ids \ {id} :
                Kind(r) = "edit" /\ rec[i] # None /\ Twins(rec[i], Copy(r)) => TwinCause(id)'
          /\ \A q \in Reqs \ {r} :
                Kind(r) = "edit" /\ Holding(q) /\ Kind(q) = "create" /\ Twins(Copy(q), Copy(r))
                    => TwinCause(id)'
          /\ job[r].then = "install" /\ id \in proven /\ ~Accepts(ResolveCreds(Copy(r)))
                => LoginCause(id)'
  <2> SUFFICES ASSUME NEW id, id = Id(r)
      PROVE  /\ <<"at once", id>> \in a => AtOnce(id)'
             /\ <<"created at once", id>> \in b => TwinCause(id)'
             /\ <<"edited", id>> \in c => TwinCause(id)'
             /\ <<"untested", id>> \in d => LoginCause(id)'
    BY <1>8, <1>9, <1>10, <1>11, <1>12
  <2> QED
    BY <1>6 DEF AtOnce, TwinCause, LoginCause, Caused, Happened
<1> QED
  BY <1>1, <1>2, <1>3, <1>4, <1>5, <1>13, <1>14, Growth DEF Saved

LEMMA DeleteEffect ==
    ASSUME Typed, NEW r \in Reqs, NEW id \in Ids, DeleteInstance(r, id) PROVE Deleted(r, id)
<1>1. /\ Only(r) /\ pc'[r] = "over" /\ job'[r] = None
      /\ pc' \in [Reqs -> Places] /\ job' \in [Reqs -> Job \union {None}]
  BY GotoEffect DEF DeleteInstance, Places
<1>2. \A q \in Reqs : Holding(q) /\ Id(q) = id => AtOnce(id)'
  BY DEF DeleteInstance, Note, Marks, AtOnce, Happened
<1>3. Types /\ mishaps \subseteq mishaps'
  <2>1. "at once" \in What
    BY DEF What
  <2>2. mishaps \subseteq mishaps' /\ mishaps' \subseteq What \X Ids
    BY <2>1 DEF DeleteInstance, Note, Marks, Typed, TypeOK
  <2> QED
    BY <1>1, <2>2 DEF DeleteInstance, Types, Typed, TypeOK, sshdVars
<1>4. JobAt(r)'
  BY <1>1 DEF JobAt, AtWork, ApplyPlaces
<1> QED
  BY <1>1, <1>2, <1>3, <1>4, Growth DEF Deleted, DeleteInstance

LEMMA TurnEffect ==
    ASSUME Typed, (\E id \in Ids : Authorize(id)) \/ SshdRestarts PROVE Turned
<1>1. ASSUME NEW id \in Ids, Authorize(id) PROVE Turned
  <2>1. rec[id] \in Instance /\ rec[id].pub \in Pairs
    BY <1>1 DEF Authorize, Typed, TypeOK, Instance
  <2> QED
    BY <1>1, <2>1 DEF Authorize, Turned, Types, Typed, TypeOK, sshdVars
<1>2. CASE SshdRestarts
  BY <1>2 DEF SshdRestarts, Turned, Types, Typed, TypeOK
<1> QED
  BY <1>1, <1>2

LEMMA StopEffect ==
    ASSUME Typed, PanelStops PROVE Stopped
<1> DEFINE ids == {Id(r) : r \in {q \in Reqs : AtWork(q)}}
<1>1. ids \in SUBSET Ids
  BY AtWorkTyped
<1>2. /\ mishaps \subseteq mishaps' /\ mishaps' \subseteq What \X Ids
      /\ \A id \in ids : Happened("cut short", id)'
  <2>1. "cut short" \in What /\ Note("cut short", ids, TRUE)
    BY DEF PanelStops, What, Faults
  <2> HIDE DEF ids
  <2> QED
    BY <1>1, <2>1, NoteEffect
<1>3. \A id \in ids : LoginCause(id)'
  BY <1>2 DEF LoginCause, Caused
<1>4. /\ pc' = [r \in Reqs |-> IF AtWork(r) THEN "over" ELSE pc[r]]
      /\ job' = [r \in Reqs |-> None]
      /\ UNCHANGED <<recordVars, keys, sshdVars, agent, proven>>
  BY DEF PanelStops
<1>5. Types
  BY <1>2, <1>4 DEF Types, Typed, TypeOK, sshdVars, Places
<1>6. \A r \in Reqs : AtWork(r) => \A id \in {Id(r)} : LoginCause(id)'
  BY <1>3
<1>7. \A r \in Reqs : /\ pc'[r] \in {"idle", "over"} /\ (pc'[r] = "idle" => pc[r] = "idle")
                      /\ job'[r] = None
  BY <1>4 DEF AtWork
<1> QED
  BY <1>2, <1>4, <1>5, <1>6, <1>7, Growth DEF Stopped

\* Every step is one of these.
LEMMA StepCases ==
    ASSUME Typed, [Next]_vars
    PROVE  \/ \E r \in Reqs : Begun(r) \/ Went(r) \/ Rewrote(r) \/ Saved(r)
           \/ \E r \in Reqs, id \in Ids : Deleted(r, id)
           \/ Turned \/ Stopped \/ UNCHANGED vars
<1>1. ASSUME NEW r \in Reqs, Arrives(r)
      PROVE  Begun(r) \/ \E id \in Ids : Deleted(r, id)
  BY <1>1, ArriveEffect, DeleteEffect
<1>2. ASSUME NEW r \in Reqs, Install(r) \/ DetectSecurity(r) \/ PersistSecurityState(r) PROVE Went(r)
  BY <1>2, GoEffect DEF Install
<1>3. ASSUME NEW r \in Reqs, Apply(r) PROVE Went(r) \/ Rewrote(r)
  BY <1>3, GoEffect, RewriteEffect DEF Apply
<1> QED
  BY <1>1, <1>2, <1>3, SaveEffect, TurnEffect, StopEffect DEF Next

-----------------------------------------------------------------------------
(* The types *)

LEMMA RecordsTyped ==
    ASSUME Typed, NEW r \in Reqs, Saved(r)
    PROVE  rec' \in [Ids -> Instance \union {None}] /\ expected' \in [Ids -> Ids \union {None}]
<1>1. Id(r) \in Ids /\ Copy(r) \in Instance /\ r \in Ids
  BY KindAt DEF Saved, JobAt, Ids
<1> QED
  BY <1>1 DEF Saved, Typed, TypeOK

LEMMA TypedStep ==
    ASSUME Typed, [Next]_vars PROVE Typed'
<1>1. TypeOK'
  <2>1. ASSUME NEW r \in Reqs, Begun(r) PROVE TypeOK'
    BY <2>1 DEF Begun, Typed, TypeOK, recordVars, sshdVars
  <2>2. ASSUME NEW r \in Reqs, Moved(r) PROVE TypeOK'
    BY <2>2 DEF Moved, Types, Typed, TypeOK, recordVars
  <2>3. ASSUME NEW r \in Reqs, Saved(r) PROVE TypeOK'
    BY <2>3, RecordsTyped DEF Saved, Types, TypeOK
  <2>4. ASSUME NEW r \in Reqs, NEW id \in Ids, Deleted(r, id) PROVE TypeOK'
    BY <2>4 DEF Deleted, Types, Typed, TypeOK
  <2>5. CASE Turned \/ Stopped
    BY <2>5 DEF Turned, Stopped, Types, Typed, TypeOK, recordVars
  <2>6. CASE UNCHANGED vars
    BY <2>6 DEF vars, recordVars, sshdVars, Typed, TypeOK
  <2> QED
    BY <2>1, <2>2, <2>3, <2>4, <2>5, <2>6, StepCases DEF Went, Rewrote
<1>2. JobInv'
  <2>1. ASSUME NEW r \in Reqs, Only(r), JobAt(r)' PROVE JobInv'
    BY <2>1, OthersKeepJob DEF Typed
  <2>2. CASE Stopped
    BY <2>2 DEF Stopped, JobInv, JobAt, AtWork, ApplyPlaces
  <2>3. CASE UNCHANGED <<job, pc>>
    BY <2>3 DEF Typed, JobInv, JobAt, AtWork, Kind, Copy, Id
  <2> QED
    BY <2>1, <2>2, <2>3, StepCases DEF Begun, Went, Rewrote, Moved, Saved, Deleted, Turned, vars
<1> QED
  BY <1>1, <1>2 DEF Typed

-----------------------------------------------------------------------------
(* The copies *)

\* A request that stays where it is holds a copy of the same record, or another
\* write has fallen between its read and its save.
LEMMA HolderKept ==
    ASSUME NEW q \in Reqs, HolderAt(q), pc'[q] = pc[q], job'[q] = job[q], Typed, Grows,
           Holding(q) => rec'[Id(q)] = rec[Id(q)] \/ \A id \in {Id(q)} : AtOnce(id)'
    PROVE  HolderAt(q)'
<1> SUFFICES ASSUME Holding(q) PROVE HolderAt(q)'
  BY DEF HolderAt, Holding
<1>1. Kind(q)' = Kind(q) /\ Copy(q)' = Copy(q) /\ Id(q)' = Id(q) /\ Id(q) \in Ids
  BY KindAt DEF Kind, Copy, Id, Holding
<1>2. AtOnce(Id(q)) => AtOnce(Id(q))'
  BY <1>1 DEF Grows, AtOnce, What
<1>3. CASE Kind(q) = "create"
  BY <1>1, <1>3 DEF HolderAt
<1>4. CASE Kind(q) # "create" /\ ~AtOnce(Id(q))'
  <2>1. rec'[Id(q)] = rec[Id(q)]
    BY <1>1, <1>4
  <2>2. Derived(q, rec[Id(q)]) => Derived(q, rec[Id(q)])'
    BY <1>1, <2>1 DEF Derived, Converged
  <2> QED
    BY <1>1, <1>2, <1>4, <2>1, <2>2 DEF HolderAt
<1> QED
  BY <1>1, <1>3, <1>4 DEF HolderAt

LEMMA HolderStep ==
    ASSUME Typed, HolderInv, [Next]_vars PROVE HolderInv'
<1> SUFFICES ASSUME NEW q \in Reqs PROVE HolderAt(q)'
  BY DEF HolderInv
<1>1. HolderAt(q)
  BY DEF HolderInv
<1>2. ASSUME NEW r \in Reqs, Begun(r) PROVE HolderAt(q)'
  <2>1. CASE q = r
    BY <1>2, <2>1 DEF Begun
  <2>2. CASE q # r
    BY <1>1, <1>2, <2>2, HolderKept, Growth DEF Begun, Only, recordVars
  <2> QED
    BY <2>1, <2>2
<1>3. ASSUME NEW r \in Reqs, Moved(r) PROVE HolderAt(q)'
  <2>1. CASE q = r
    BY <1>3, <2>1 DEF Moved
  <2>2. CASE q # r
    BY <1>1, <1>3, <2>2, HolderKept DEF Moved, Only, recordVars
  <2> QED
    BY <2>1, <2>2
<1>4. ASSUME NEW r \in Reqs, Saved(r) PROVE HolderAt(q)'
  <2>1. CASE q = r
    BY <1>4, <2>1 DEF Saved, JobAt, HolderAt, Holding
  <2>2. CASE q # r
    <3>1. Id(r) \in Ids /\ (Holding(q) => Id(q) \in Ids)
      BY <1>4, KindAt DEF Saved, Holding
    <3>2. Holding(q) => rec'[Id(q)] = rec[Id(q)] \/ \A id \in {Id(q)} : AtOnce(id)'
      BY <1>4, <2>2, <3>1 DEF Saved, Typed, TypeOK
    <3> QED
      BY <1>1, <1>4, <2>2, <3>2, HolderKept DEF Saved, Only
  <2> QED
    BY <2>1, <2>2
<1>5. ASSUME NEW r \in Reqs, NEW id \in Ids, Deleted(r, id) PROVE HolderAt(q)'
  <2>1. CASE q = r
    BY <1>5, <2>1 DEF Deleted, HolderAt, Holding
  <2>2. CASE q # r
    <3>1. Holding(q) => Id(q) \in Ids
      BY KindAt DEF Holding
    <3>2. Holding(q) => rec'[Id(q)] = rec[Id(q)] \/ \A i \in {Id(q)} : AtOnce(i)'
      BY <1>5, <3>1 DEF Deleted, Typed, TypeOK
    <3> QED
      BY <1>1, <1>5, <2>2, <3>2, HolderKept DEF Deleted, Only
  <2> QED
    BY <2>1, <2>2
<1>6. CASE Turned \/ UNCHANGED vars
  BY <1>1, <1>6, HolderKept, Growth DEF Turned, vars, recordVars
<1>7. CASE Stopped
  BY <1>7 DEF Stopped, HolderAt, Holding
<1> QED
  BY <1>2, <1>3, <1>4, <1>5, <1>6, <1>7, StepCases DEF Went, Rewrote

\* What a copy of record inst has in common with it.
LEMMA CopyOf ==
    ASSUME Typed, NEW r \in Reqs, pc[r] = "save", Kind(r) # "create",
           NEW inst \in Instance, Derived(r, inst)
    PROVE  /\ Copy(r).token = IF Kind(r) = "rotate" THEN r ELSE inst.token
           /\ Kind(r) # "edit" => Copy(r).name = inst.name /\ Copy(r).addr = inst.addr
           /\ \/ ResolveCreds(Copy(r)) = ResolveCreds(inst)
              \/ job[r].then = "install"
              \/ job[r].then = "recheck" /\ Copy(r) = Converged(r, inst)
<1> DEFINE Goal ==
           /\ Copy(r).token = IF Kind(r) = "rotate" THEN r ELSE inst.token
           /\ Kind(r) # "edit" => Copy(r).name = inst.name /\ Copy(r).addr = inst.addr
           /\ \/ ResolveCreds(Copy(r)) = ResolveCreds(inst)
              \/ job[r].then = "install"
              \/ job[r].then = "recheck" /\ Copy(r) = Converged(r, inst)
<1>1. job[r] \in Job /\ JobAt(r) /\ Kind(r) \in Kinds
  BY KindAt DEF Typed, JobInv, Job, Kind
<1>2. ASSUME Kind(r) = "edit" PROVE Goal
  BY <1>2, InstanceTyped DEF Derived
<1>3. ASSUME Kind(r) = "rotate" PROVE Goal
  <2>1. Copy(r) = [inst EXCEPT !.token = r]
    BY <1>3 DEF Derived
  <2>2. /\ Copy(r).token = r /\ Copy(r).name = inst.name /\ Copy(r).addr = inst.addr
        /\ Copy(r).pw = inst.pw /\ Copy(r).key = inst.key
    BY <2>1 DEF Instance
  <2> QED
    BY <1>3, <2>2 DEF ResolveCreds
<1>4. ASSUME Kind(r) = "install", job[r].then = "install" PROVE Goal
  BY <1>4, DetailsTyped DEF Derived
<1>5. ASSUME Kind(r) = "apply", job[r].then = "recheck" PROVE Goal
  <2>1. Copy(r) = Converged(r, inst)
    BY <1>5 DEF Derived
  <2>2. Copy(r).token = inst.token /\ Copy(r).name = inst.name /\ Copy(r).addr = inst.addr
    <3>1. /\ Converged(r, inst).token = inst.token /\ Converged(r, inst).name = inst.name
          /\ Converged(r, inst).addr = inst.addr
      BY <1>1, ConvergedTyped
    <3> QED
      BY <2>1, <3>1
  <2> QED
    BY <1>5, <2>1, <2>2
<1>6. ASSUME Kind(r) \in {"hello", "detect", "install", "apply"}, job[r].then = "over" PROVE Goal
  BY <1>6 DEF Derived
<1>7. job[r].then = "over" \/ (Kind(r) = "install" /\ job[r].then = "install")
        \/ (Kind(r) = "apply" /\ job[r].then = "recheck")
  BY <1>1 DEF JobAt
<1>8. Kind(r) \in {"edit", "rotate", "hello", "detect", "install", "apply"}
  BY <1>1 DEF Kinds
<1> HIDE DEF Goal
<1>9. Goal
  BY <1>2, <1>3, <1>4, <1>5, <1>6, <1>7, <1>8
<1> QED
  BY <1>9 DEF Goal

\* What a request writes, when no other write has fallen in between.
LEMMA CopyIs ==
    ASSUME Typed, HolderInv, NEW r \in Reqs, Holding(r), Kind(r) # "create", ~AtOnce(Id(r))
    PROVE  /\ rec[Id(r)] # None /\ rec[Id(r)] \in Instance
           /\ Copy(r).token = IF Kind(r) = "rotate" THEN r ELSE rec[Id(r)].token
           /\ Kind(r) # "edit" => Copy(r).name = rec[Id(r)].name /\ Copy(r).addr = rec[Id(r)].addr
           /\ \/ ResolveCreds(Copy(r)) = ResolveCreds(rec[Id(r)])
              \/ job[r].then = "install"
              \/ job[r].then = "recheck" /\ Copy(r) = Converged(r, rec[Id(r)])
<1>1. Id(r) \in Ids /\ pc[r] = "save"
  BY KindAt DEF Holding
<1>2. rec[Id(r)] # None /\ Derived(r, rec[Id(r)])
  BY DEF HolderInv, HolderAt
<1>3. rec[Id(r)] \in Instance
  BY <1>1, <1>2 DEF Typed, TypeOK
<1> QED
  BY <1>1, <1>2, <1>3, CopyOf

LEMMA CreateIs ==
    ASSUME Typed, HolderInv, NEW r \in Reqs, Holding(r), Kind(r) = "create"
    PROVE  Id(r) = r /\ Copy(r).token = r /\ Copy(r).hardened = FALSE
<1>1. Id(r) = r
  BY DEF Typed, JobInv, JobAt, Holding
<1>2. PICK n \in Names, a \in Addrs : Copy(r) = Fresh(r, n, a)
  BY DEF HolderInv, HolderAt, Provisioned, Addrs
<1> QED
  BY <1>1, <1>2 DEF Fresh

-----------------------------------------------------------------------------
(* Records that are not made yet *)

LEMMA UnmadeStep ==
    ASSUME Typed, UnmadeInv, [Next]_vars PROVE UnmadeInv'
<1> DEFINE Lone(p) == rec[p] = None /\ p \notin proven /\ \A q \in Reqs \ {p} : AtWork(q) => Id(q) # p
<1> SUFFICES ASSUME NEW p \in Reqs, Unmade(p)' PROVE Lone(p)'
  BY DEF UnmadeInv
<1>1. Unmade(p) => Lone(p)
  BY DEF UnmadeInv
<1>2. ASSUME NEW r \in Reqs, Begun(r) PROVE Lone(p)'
  <2>1. Unmade(p)
    BY <1>2 DEF Begun, Only, Unmade, Holding, Kind
  <2>2. rec' = rec /\ proven' = proven
    BY <1>2 DEF Begun, recordVars
  <2>3. ASSUME NEW q \in Reqs \ {p}, AtWork(q)' PROVE Id(q)' # p
    <3>1. CASE q = r
      BY <1>1, <1>2, <2>1, <2>3, <3>1 DEF Begun, JobAt, AtWork
    <3>2. CASE q # r
      BY <1>1, <1>2, <2>1, <2>3, <3>2 DEF Begun, Only, AtWork, Id
    <3> QED
      BY <3>1, <3>2
  <2> QED
    BY <1>1, <2>1, <2>2, <2>3
<1>3. ASSUME NEW r \in Reqs, Moved(r) PROVE Lone(p)'
  <2>1. p # r /\ Unmade(p)
    BY <1>3 DEF Moved, Only, Unmade, Holding, Kind, AtWork
  <2>2. rec' = rec /\ p \notin proven'
    BY <1>1, <1>3, <2>1 DEF Moved, recordVars, Tried
  <2>3. ASSUME NEW q \in Reqs \ {p}, AtWork(q)' PROVE Id(q)' # p
    BY <1>1, <1>3, <2>1, <2>3 DEF Moved, Only, AtWork, Id
  <2> QED
    BY <1>1, <2>1, <2>2, <2>3
<1>4. ASSUME NEW r \in Reqs, Saved(r) PROVE Lone(p)'
  <2>1. p # r /\ Unmade(p) /\ AtWork(r)
    BY <1>4 DEF Saved, Only, Unmade, Holding, Kind, AtWork, JobAt
  <2>2. rec'[p] = rec[p] /\ proven' = proven
    BY <1>1, <1>4, <2>1 DEF Saved, Typed, TypeOK, Ids
  <2>3. ASSUME NEW q \in Reqs \ {p}, AtWork(q)' PROVE Id(q)' # p
    BY <1>1, <1>4, <2>1, <2>3 DEF Saved, Only, AtWork, Id
  <2> QED
    BY <1>1, <2>1, <2>2, <2>3
<1>5. ASSUME NEW r \in Reqs, NEW id \in Ids, Deleted(r, id) PROVE Lone(p)'
  <2>1. p # r /\ Unmade(p)
    BY <1>5 DEF Deleted, Only, Unmade, Holding, Kind
  <2>2. rec'[p] = None /\ proven' = proven
    BY <1>1, <1>5, <2>1 DEF Deleted, Typed, TypeOK, Ids
  <2>3. ASSUME NEW q \in Reqs \ {p}, AtWork(q)' PROVE Id(q)' # p
    BY <1>1, <1>5, <2>1, <2>3 DEF Deleted, Only, AtWork, Id
  <2> QED
    BY <1>1, <2>1, <2>2, <2>3
<1>6. CASE Turned \/ UNCHANGED vars
  BY <1>1, <1>6 DEF Turned, vars, recordVars, Unmade, Holding, Kind, AtWork, Id
<1>7. CASE Stopped
  BY <1>1, <1>7 DEF Stopped, recordVars, Unmade, Holding, AtWork
<1> QED
  BY <1>2, <1>3, <1>4, <1>5, <1>6, <1>7, StepCases DEF Went, Rewrote

-----------------------------------------------------------------------------
(* Tokens and names *)

LEMMA GrowsAll ==
    ASSUME Grows, NEW id \in Ids
    PROVE  /\ AtOnce(id) => AtOnce(id)'
           /\ TwinCause(id) => TwinCause(id)'
           /\ HardenedCause(id) => HardenedCause(id)'
           /\ LoginCause(id) => LoginCause(id)'
BY DEF Grows, AtOnce, TwinCause, HardenedCause, LoginCause, Caused, What, Faults

LEMMA TokenStep ==
    ASSUME Typed, HolderInv, TokenInv, [Next]_vars PROVE TokenInv'
<1> SUFFICES ASSUME NEW id \in Ids, ~AtOnce(id)' PROVE (Token(id) = expected[id])'
  BY DEF TokenInv
<1>1. ~AtOnce(id) => Token(id) = expected[id]
  BY DEF TokenInv
<1>2. ASSUME UNCHANGED recordVars, mishaps \subseteq mishaps' \/ Grows PROVE (Token(id) = expected[id])'
  BY <1>1, <1>2, GrowsAll, Growth DEF recordVars, Token
<1>3. ASSUME NEW r \in Reqs, Saved(r) PROVE (Token(id) = expected[id])'
  <2>1. ~AtOnce(id) /\ Token(id) = expected[id]
    BY <1>1, <1>3, GrowsAll DEF Saved
  <2>2. Holding(r) /\ Id(r) \in Ids
    BY <1>3, KindAt DEF Saved, Holding
  <2>3. CASE id # Id(r)
    BY <1>3, <2>1, <2>3 DEF Saved, Token, Typed, TypeOK
  <2>4. CASE id = Id(r)
    <3>1. Copy(r) \in Instance /\ Copy(r) # None
      BY <1>3, InstanceTyped DEF Saved, JobAt
    <3>2. rec'[id] = Copy(r)
      BY <1>3, <2>4 DEF Saved, Typed, TypeOK
    <3>3. expected'[id] = IF Kind(r) \in {"create", "rotate"} THEN r ELSE expected[id]
      BY <1>3, <2>4 DEF Saved, Typed, TypeOK
    <3>4. CASE Kind(r) = "create"
      BY <2>2, <3>1, <3>2, <3>3, <3>4, CreateIs DEF Token
    <3>5. CASE Kind(r) # "create"
      BY <2>1, <2>2, <2>4, <3>1, <3>2, <3>3, <3>5, CopyIs DEF Token
    <3> QED
      BY <3>4, <3>5
  <2> QED
    BY <2>3, <2>4
<1>4. ASSUME NEW r \in Reqs, NEW i \in Ids, Deleted(r, i) PROVE (Token(id) = expected[id])'
  <2>1. Token(id) = expected[id]
    BY <1>1, <1>4, GrowsAll DEF Deleted
  <2> QED
    BY <1>4, <2>1 DEF Deleted, Token, Typed, TypeOK
<1>5. CASE UNCHANGED vars
  BY <1>2, <1>5 DEF vars, recordVars
<1> QED
  BY <1>2, <1>3, <1>4, <1>5, StepCases
  DEF Begun, Went, Rewrote, Moved, Turned, Stopped

\* Records that are twins, and a record about to be made that has one.
Paired(i, k) == i # k /\ rec[i] # None /\ rec[k] # None /\ Twins(rec[i], rec[k])
Expected(r, i) == Holding(r) /\ Kind(r) = "create" /\ rec[i] # None /\ Twins(rec[i], Copy(r))

LEMMA TwinForms ==
    /\ TwinsHaveCause <=> \A i, k \in Ids : Paired(i, k) => TwinCause(i) \/ TwinCause(k)
    /\ TwinInv <=> TwinsHaveCause /\ \A r \in Reqs, i \in Ids : Expected(r, i) => TwinCause(i) \/ TwinCause(r)
BY DEF TwinsHaveCause, TwinInv, Paired, Expected, TwinCause

\* A save makes no twin without a cause.
LEMMA TwinSaved ==
    ASSUME Typed, HolderInv, TwinInv, NEW r \in Reqs, Saved(r),
           NEW i \in Ids, i = Id(r), NEW k \in Ids, Paired(i, k)'
    PROVE  TwinCause(i)' \/ TwinCause(k)'
<1>1. Holding(r) /\ Copy(r) \in Instance /\ Grows
  BY DEF Saved, Holding, JobAt
<1>2. rec'[i] = Copy(r) /\ rec'[k] = rec[k] /\ i # k /\ rec[k] # None /\ Twins(rec[k], Copy(r))
  BY TwinsMutual DEF Saved, Typed, TypeOK, Paired
<1>3. CASE Kind(r) = "create"
  <2>1. TwinCause(k) \/ TwinCause(r)
    BY <1>1, <1>2, <1>3 DEF TwinInv
  <2>2. i = r
    BY <1>1, <1>3, CreateIs
  <2> QED
    BY <1>1, <2>1, <2>2, GrowsAll
<1>4. CASE AtOnce(i)
  BY <1>1, <1>4, GrowsAll DEF TwinCause, Caused, AtOnce
<1>5. CASE Kind(r) = "edit"
  BY <1>2, <1>5 DEF Saved
<1>6. CASE Kind(r) \notin {"create", "edit"} /\ ~AtOnce(i)
  <2>1. rec[i] # None /\ Twins(rec[i], rec[k])
    BY <1>1, <1>2, <1>6, CopyIs, TwinsSame, TwinsMutual
  <2>2. TwinCause(i) \/ TwinCause(k)
    BY <1>2, <2>1, TwinForms DEF TwinInv, Paired
  <2> QED
    BY <1>1, <2>2, GrowsAll
<1> QED
  BY <1>3, <1>4, <1>5, <1>6

LEMMA TwinStep ==
    ASSUME Typed, HolderInv, TwinInv, [Next]_vars PROVE TwinInv'
<1> DEFINE Explained == \A i, k \in Ids : Paired(i, k) => TwinCause(i) \/ TwinCause(k)
           Foreseen == \A q \in Reqs, i \in Ids : Expected(q, i) => TwinCause(i) \/ TwinCause(q)
<1>1. Explained /\ Foreseen
  BY TwinForms DEF TwinInv
<1>2. Grows \/ UNCHANGED mishaps
  BY StepCases DEF Begun, Went, Rewrote, Moved, Saved, Deleted, Turned, Stopped, vars
<1>3. /\ \A id \in Ids : TwinCause(id) => TwinCause(id)'
      /\ Reqs \subseteq Ids
  BY <1>2, Growth, GrowsAll DEF Ids
<1>4. ASSUME \A i \in Ids : rec'[i] = rec[i] \/ rec'[i] = None PROVE Explained'
  BY <1>1, <1>3, <1>4 DEF Paired
<1>5. ASSUME \A i \in Ids : rec'[i] = rec[i] \/ rec'[i] = None,
             \A q \in Reqs : (Holding(q) /\ Kind(q) = "create")'
                               => Holding(q) /\ Kind(q) = "create" /\ Copy(q)' = Copy(q)
      PROVE  Foreseen'
  BY <1>1, <1>3, <1>5 DEF Expected
<1>6. ASSUME NEW r \in Reqs, Begun(r) PROVE Explained' /\ Foreseen'
  <2>1. rec' = rec
    BY <1>6 DEF Begun, recordVars
  <2>2. ASSUME NEW q \in Reqs, NEW i \in Ids, Expected(q, i)' PROVE TwinCause(i)' \/ TwinCause(q)'
    <3>1. CASE q = r
      BY <1>6, <2>1, <2>2, <3>1 DEF Begun, Expected
    <3>2. CASE q # r
      BY <1>1, <1>3, <1>6, <2>1, <2>2, <3>2 DEF Begun, Only, Expected, Holding, Kind, Copy
    <3> QED
      BY <3>1, <3>2
  <2> QED
    BY <1>4, <2>1, <2>2
<1>7. ASSUME NEW r \in Reqs, Moved(r) PROVE Explained' /\ Foreseen'
  <2>1. rec' = rec
    BY <1>7 DEF Moved, recordVars
  <2>2. \A q \in Reqs : (Holding(q) /\ Kind(q) = "create")'
                           => Holding(q) /\ Kind(q) = "create" /\ Copy(q)' = Copy(q)
    BY <1>7 DEF Moved, Only, Holding, Kind, Copy, AtWork
  <2> QED
    BY <1>4, <1>5, <2>1, <2>2
<1>8. ASSUME NEW r \in Reqs, Saved(r) PROVE Explained' /\ Foreseen'
  <2>1. Id(r) \in Ids /\ pc[r] = "save" /\ Holding(r) /\ Copy(r) \in Instance
    BY <1>8, KindAt DEF Saved, Holding, JobAt
  <2>2. \A i \in Ids : rec'[i] = IF i = Id(r) THEN Copy(r) ELSE rec[i]
    BY <1>8, <2>1 DEF Saved, Typed, TypeOK
  <2>3. ASSUME NEW i \in Ids, NEW k \in Ids, Paired(i, k)' PROVE TwinCause(i)' \/ TwinCause(k)'
    <3>1. CASE i = Id(r)
      BY <1>8, <2>3, <3>1, TwinSaved
    <3>2. CASE k = Id(r)
      <4>1. Paired(k, i)'
        BY <2>3, TwinsMutual DEF Paired
      <4> QED
        BY <1>8, <4>1, <3>2, TwinSaved
    <3>3. CASE i # Id(r) /\ k # Id(r)
      <4>1. Paired(i, k)
        BY <2>2, <2>3, <3>3 DEF Paired
      <4> QED
        BY <1>1, <1>3, <4>1
    <3> QED
      BY <3>1, <3>2, <3>3
  <2>4. ASSUME NEW q \in Reqs, NEW i \in Ids, Expected(q, i)' PROVE TwinCause(i)' \/ TwinCause(q)'
    <3>1. q # r /\ Holding(q) /\ Kind(q) = "create" /\ Copy(q)' = Copy(q)
      BY <1>8, <2>1, <2>4 DEF Saved, Only, Expected, Holding, Kind, Copy, JobAt
    <3>2. CASE i # Id(r)
      BY <1>1, <1>3, <2>2, <2>4, <3>1, <3>2 DEF Expected
    <3>3. CASE i = Id(r)
      <4>1. Twins(Copy(r), Copy(q)) /\ Twins(Copy(q), Copy(r))
        BY <2>2, <2>4, <3>1, <3>3, TwinsMutual DEF Expected
      <4>2. CASE Kind(r) \in {"create", "edit"}
        BY <1>8, <3>1, <3>3, <4>1, <4>2 DEF Saved
      <4>3. CASE AtOnce(i)
        BY <1>3, <4>3 DEF TwinCause, Caused, AtOnce
      <4>4. CASE Kind(r) \notin {"create", "edit"} /\ ~AtOnce(i)
        <5>1. rec[i] # None /\ Twins(rec[i], Copy(q))
          BY <2>1, <3>3, <4>1, <4>4, CopyIs, TwinsSame
        <5> QED
          BY <1>1, <1>3, <3>1, <5>1 DEF Expected
      <4> QED
        BY <4>2, <4>3, <4>4
    <3> QED
      BY <3>2, <3>3
  <2> QED
    BY <2>3, <2>4
<1>9. ASSUME NEW r \in Reqs, NEW id \in Ids, Deleted(r, id) PROVE Explained' /\ Foreseen'
  <2>1. \A i \in Ids : rec'[i] = rec[i] \/ rec'[i] = None
    BY <1>9 DEF Deleted, Typed, TypeOK
  <2>2. \A q \in Reqs : (Holding(q) /\ Kind(q) = "create")'
                           => Holding(q) /\ Kind(q) = "create" /\ Copy(q)' = Copy(q)
    BY <1>9 DEF Deleted, Only, Holding, Kind, Copy
  <2> QED
    BY <1>4, <1>5, <2>1, <2>2
<1>10. ASSUME Turned \/ Stopped \/ UNCHANGED vars PROVE Explained' /\ Foreseen'
  <2>1. rec' = rec
    BY <1>10 DEF Turned, Stopped, vars, recordVars
  <2>2. \A q \in Reqs : (Holding(q) /\ Kind(q) = "create")'
                           => Holding(q) /\ Kind(q) = "create" /\ Copy(q)' = Copy(q)
    BY <1>10 DEF Turned, Stopped, vars, Holding, Kind, Copy
  <2> QED
    BY <1>4, <1>5, <2>1, <2>2
<1>11. Explained' /\ Foreseen'
  BY <1>6, <1>7, <1>8, <1>9, <1>10, StepCases DEF Went, Rewrote
<1> QED
  BY <1>11 DEF TwinInv, TwinsHaveCause, Paired, Expected, TwinCause

-----------------------------------------------------------------------------
(* sshd, and the jobs that change it *)

LEMMA GrowsAlways ==
    ASSUME Typed, [Next]_vars
    PROVE  Grows
<1>1. Grows \/ UNCHANGED mishaps
  BY StepCases DEF Begun, Went, Rewrote, Moved, Saved, Deleted, Turned, Stopped, vars
<1> QED
  BY <1>1, Growth

LEMMA ConfStep ==
    ASSUME Typed, ConfInv, [Next]_vars PROVE ConfInv'
<1>1. \A what \in {"half written", "rolled back", "not reloaded"}, id \in Ids : Happened(what, id) => Happened(what, id)'
  BY GrowsAlways DEF Grows, What, Faults
<1>2. CASE UNCHANGED sshdVars
  BY <1>1, <1>2 DEF ConfInv, sshdVars
<1>3. ASSUME NEW r \in Reqs, Rewrote(r) PROVE ConfInv'
  BY <1>3 DEF Rewrote, ConfInv
<1>4. CASE Turned
  BY <1>1, <1>4 DEF Turned, ConfInv
<1> QED
  BY <1>2, <1>3, <1>4, StepCases
  DEF Begun, Went, Saved, Deleted, Stopped, vars, sshdVars

\* Only a job that takes the slot starts running.
LEMMA RunsOn ==
    ASSUME Typed, [Next]_vars, NEW q \in Reqs, Running(q)'
    PROVE  /\ Running(q) => Id(q)' = Id(q)
           /\ ~Running(q) =>
                 /\ pc'[q] = "connect" /\ Only(q)
                 /\ \A p \in Reqs : Running(p) => Id(p) # Id(q)'
           /\ Running(q) /\ pc[q] # "connect" => pc'[q] # "connect" /\ job'[q].key = job[q].key
           /\ Running(q) /\ pc[q] = "connect" /\ pc'[q] # "connect" => job'[q].key \in keys'
<1>1. ASSUME pc'[q] = pc[q], job'[q] = job[q]
      PROVE  Running(q) /\ Id(q)' = Id(q) /\ job'[q].key = job[q].key
  BY <1>1 DEF Running, AtWork, Id
<1>2. ASSUME NEW r \in Reqs, Begun(r) PROVE q # r /\ pc'[q] = pc[q] /\ job'[q] = job[q]
  BY <1>2 DEF Begun, Running, Only, JobAt, AtWork, Kind, ApplyPlaces
<1>3. ASSUME NEW r \in Reqs, NEW id \in Ids, Deleted(r, id)
      PROVE  q # r /\ pc'[q] = pc[q] /\ job'[q] = job[q]
  BY <1>3 DEF Deleted, Running, Only, AtWork
<1>4. ASSUME NEW r \in Reqs, Saved(r), q = r
      PROVE  /\ Running(q) /\ Id(q)' = Id(q) /\ pc[q] # "connect" /\ pc'[q] # "connect"
             /\ job'[q].key = job[q].key
  BY <1>4 DEF Saved, Running, AtWork, Id, JobAt
<1>5. ASSUME NEW r \in Reqs, Moved(r), q = r
      PROVE  /\ AtWork(q) /\ Kind(q) = "apply" /\ Follows(pc[q], pc'[q])
             /\ Id(q)' = Id(q) /\ job'[q].key = job[q].key
             /\ pc'[q] \in {"connect", "sshd", "extras", "persist", "recheck", "save"}
             /\ Running(q) <=> pc[q] # "slot"
  BY <1>5 DEF Moved, Types, Places, Running, Kind, JobAt, AtWork, ApplyPlaces
<1>6. ASSUME NEW r \in Reqs, Went(r), q = r
      PROVE  /\ ~Running(q) => /\ pc'[q] = "connect" /\ Only(q)
                               /\ \A p \in Reqs : Running(p) => Id(p) # Id(q)'
             /\ Running(q) /\ pc[q] # "connect" => pc'[q] # "connect"
             /\ Running(q) /\ pc[q] = "connect" /\ pc'[q] # "connect" => job'[q].key \in keys'
  BY <1>5, <1>6 DEF Went, Follows, Moved
<1>7. ASSUME NEW r \in Reqs, Rewrote(r), q = r
      PROVE  Running(q) /\ pc[q] # "connect" /\ pc'[q] # "connect"
  BY <1>5, <1>7 DEF Rewrote
<1>8. ~Stopped
  BY DEF Stopped, Running, AtWork
<1>9. CASE pc'[q] = pc[q] /\ job'[q] = job[q]
  BY <1>1, <1>9
<1>10. ASSUME NEW r \in Reqs, q # r, Only(r) PROVE pc'[q] = pc[q] /\ job'[q] = job[q]
  BY <1>10 DEF Only
<1>11. CASE \E r \in Reqs : Saved(r) /\ q = r
  BY <1>4, <1>11
<1>12. CASE \E r \in Reqs : Went(r) /\ q = r
  BY <1>5, <1>6, <1>12 DEF Went
<1>13. CASE \E r \in Reqs : Rewrote(r) /\ q = r
  BY <1>5, <1>7, <1>13 DEF Rewrote
<1>14. ASSUME Turned \/ UNCHANGED vars PROVE pc'[q] = pc[q] /\ job'[q] = job[q]
  BY <1>14 DEF Turned, vars
<1>15. \A r \in Reqs : Saved(r) \/ Went(r) \/ Rewrote(r) => Only(r)
  BY DEF Saved, Went, Rewrote, Moved
<1> QED
  BY <1>2, <1>3, <1>8, <1>9, <1>10, <1>11, <1>12, <1>13, <1>14, <1>15, StepCases

LEMMA RunnerStep ==
    ASSUME Typed, RunnerInv, [Next]_vars PROVE RunnerInv'
<1> SUFFICES ASSUME NEW r \in Reqs, NEW q \in Reqs, Running(r)', Running(q)', Id(r)' = Id(q)', r # q
    PROVE FALSE
  BY DEF RunnerInv
<1>1. CASE Running(r) /\ Running(q)
  BY <1>1, RunsOn DEF RunnerInv
<1>2. ASSUME NEW p \in Reqs, NEW o \in Reqs, Running(p)', Running(o)', Id(p)' = Id(o)', p # o, ~Running(p)
      PROVE  FALSE
  <2>1. Only(p) /\ \A i \in Reqs : Running(i) => Id(i) # Id(p)'
    BY <1>2, RunsOn
  <2>2. Running(o) /\ Id(o)' = Id(o)
    BY <1>2, <2>1 DEF Only, Running, AtWork, Id
  <2> QED
    BY <1>2, <2>1, <2>2
<1> QED
  BY <1>1, <1>2

LEMMA KeyStep ==
    ASSUME Typed, KeyInv, [Next]_vars PROVE KeyInv'
<1> SUFFICES ASSUME NEW r \in Reqs, Running(r)', pc'[r] # "connect" PROVE job'[r].key \in keys'
  BY DEF KeyInv
<1>1. keys \subseteq keys'
  BY StepCases DEF Begun, Went, Rewrote, Moved, Saved, Deleted, Turned, Stopped, vars
<1> QED
  BY <1>1, RunsOn DEF KeyInv

-----------------------------------------------------------------------------
(* What the records say of hardening *)

LEMMA SaysSaved ==
    ASSUME Typed, NEW r \in Reqs, Saved(r), NEW id \in Ids, SaysHardened(id)' PROVE SaysHardened(id)
<1>1. Id(r) \in Ids /\ Holding(r) /\ pc'[r] \notin {"save", "extras", "persist"}
  BY KindAt DEF Saved, Holding, JobAt
<1>2. CASE (rec[id] # None /\ rec[id].hardened)'
  BY <1>1, <1>2 DEF Saved, Typed, TypeOK, SaysHardened
<1>3. CASE ~(rec[id] # None /\ rec[id].hardened)'
  BY <1>1, <1>3 DEF Saved, Only, SaysHardened, Holding, Id, Copy
<1> QED
  BY <1>2, <1>3

LEMMA SaysMoved ==
    ASSUME Typed, NEW r \in Reqs, Moved(r), NEW id \in Ids, SaysHardened(id)'
    PROVE  SaysHardened(id) \/ (id = Id(r) /\ pc'[r] = "extras" /\ "password" \in job[r].want)
<1>1. CASE (rec[id] # None /\ rec[id].hardened)'
  BY <1>1 DEF Moved, recordVars, SaysHardened
<1>2. ASSUME NEW q \in Reqs, q # r, (Holding(q) /\ Id(q) = id /\ Copy(q).hardened)' PROVE SaysHardened(id)
  BY <1>2 DEF Moved, Only, SaysHardened, Holding, Id, Copy
<1>3. ASSUME NEW q \in Reqs, q # r, (pc[q] \in {"extras", "persist"} /\ Id(q) = id /\ "password" \in job[q].want)'
      PROVE SaysHardened(id)
  BY <1>3 DEF Moved, Only, SaysHardened, Id
<1>4. CASE (Holding(r) /\ Id(r) = id /\ Copy(r).hardened)'
  BY <1>4 DEF Moved, SaysHardened, Holding, AtWork
<1>5. ASSUME (pc[r] = "persist" /\ Id(r) = id /\ "password" \in job[r].want)' PROVE SaysHardened(id)
  <2>1. Kind(r) = "apply" /\ pc[r] = "extras" /\ Id(r) = id /\ job'[r].want = job[r].want
    BY <1>5 DEF Moved, Follows, JobAt, AtWork, ApplyPlaces
  <2> QED
    BY <1>5, <2>1 DEF SaysHardened
<1>6. CASE (pc[r] = "extras" /\ Id(r) = id /\ "password" \in job[r].want)'
  BY <1>6 DEF Moved, AtWork
<1> QED
  BY <1>1, <1>2, <1>3, <1>4, <1>5, <1>6 DEF SaysHardened

LEMMA HardenedStep ==
    ASSUME Typed, HardenedInv, ConfInv, [Next]_vars PROVE HardenedInv'
<1> SUFFICES ASSUME NEW id \in Ids, SaysHardened(id)', ~HardenedCause(id)'
    PROVE  "password" \in conf' /\ "password" \in live'
  BY DEF HardenedInv
<1>1. ~HardenedCause(id)
  BY GrowsAlways, GrowsAll
<1>2. SaysHardened(id) => "password" \in conf /\ "password" \in live
  BY <1>1 DEF HardenedInv
<1>3. ASSUME NEW r \in Reqs, Begun(r) PROVE SaysHardened(id)
  <2>1. CASE (rec[id] # None /\ rec[id].hardened)'
    BY <1>3, <2>1 DEF Begun, recordVars, SaysHardened
  <2>2. ASSUME NEW q \in Reqs, (Holding(q) /\ Id(q) = id /\ Copy(q).hardened)' PROVE SaysHardened(id)
    <3>1. CASE q = r
      BY <1>3, <2>2, <3>1 DEF Begun, Holding, SaysHardened
    <3>2. CASE q # r
      BY <1>3, <2>2, <3>2 DEF Begun, Only, Holding, Id, Copy, SaysHardened
    <3> QED
      BY <3>1, <3>2
  <2>3. ASSUME NEW q \in Reqs, (pc[q] \in {"extras", "persist"} /\ Id(q) = id /\ "password" \in job[q].want)'
        PROVE SaysHardened(id)
    BY <1>3, <2>3 DEF Begun, Only, Id, SaysHardened
  <2> QED
    BY <2>1, <2>2, <2>3 DEF SaysHardened
<1>4. ASSUME NEW r \in Reqs, Went(r) PROVE "password" \in conf' /\ "password" \in live'
  <2>1. UNCHANGED <<conf, live>>
    BY <1>4 DEF Went, sshdVars
  <2>2. CASE SaysHardened(id)
    BY <1>2, <2>1, <2>2
  <2>3. CASE id = Id(r) /\ pc'[r] = "extras" /\ "password" \in job[r].want
    BY <1>1, <1>4, <2>1, <2>3 DEF Went, ConfInv, HardenedCause, Caused
  <2> QED
    BY <1>4, <2>2, <2>3, SaysMoved DEF Went
<1>5. ASSUME NEW r \in Reqs, Rewrote(r) PROVE "password" \in conf' /\ "password" \in live'
  <2>1. /\ ~Happened("elsewhere", id)' /\ ~Happened("rolled back", id)'
        /\ ~Happened("not reloaded", id)' /\ ~Happened("enabled again", id)'
        /\ ~Happened("half written", id)'
    BY DEF HardenedCause, Caused
  <2>2. /\ id = Id(r) /\ conf' = job[r].want /\ live' = job[r].want
        /\ "password" \in job[r].want \/ "password" \notin conf
    BY <1>5, <2>1 DEF Rewrote
  <2>3. SaysHardened(id) \/ "password" \in job[r].want
    BY <1>5, SaysMoved DEF Rewrote
  <2> QED
    BY <1>2, <2>2, <2>3
<1>6. ASSUME NEW r \in Reqs, Saved(r) PROVE "password" \in conf' /\ "password" \in live'
  BY <1>2, <1>6, SaysSaved DEF Saved, sshdVars
<1>7. ASSUME NEW r \in Reqs, NEW i \in Ids, Deleted(r, i) PROVE SaysHardened(id) /\ UNCHANGED <<conf, live>>
  <2>1. UNCHANGED <<conf, live>> /\ (rec'[id] = rec[id] \/ rec'[id] = None)
    BY <1>7 DEF Deleted, sshdVars, Typed, TypeOK
  <2> QED
    BY <1>7, <2>1 DEF Deleted, Only, SaysHardened, Holding, Id, Copy
<1>8. CASE Turned
  <2>1. SaysHardened(id)
    BY <1>8 DEF Turned, recordVars, SaysHardened, Holding, Id, Copy
  <2> QED
    BY <1>2, <1>8, <2>1 DEF Turned
<1>9. CASE Stopped
  <2>1. SaysHardened(id)
    BY <1>9 DEF Stopped, recordVars, SaysHardened, Holding
  <2> QED
    BY <1>2, <1>9, <2>1 DEF Stopped, sshdVars
<1>10. CASE UNCHANGED vars
  BY <1>2, <1>10 DEF vars, recordVars, sshdVars, SaysHardened, Holding, Id, Copy
<1> QED
  BY <1>2, <1>3, <1>4, <1>5, <1>6, <1>7, <1>8, <1>9, <1>10, StepCases DEF Begun, sshdVars

-----------------------------------------------------------------------------
(* The credentials *)

\* A key that sshd takes is taken whatever logins it turns off.
LEMMA WorksKey ==
    ASSUME NEW known \in SUBSET Pairs, NEW k \in known, NEW off PROVE Works(k, off, known)
BY NoneAssumption DEF Works

\* More keys never hurt.
LEMMA WorksOn ==
    ASSUME NEW cred, NEW off, NEW old, NEW new, old \subseteq new, Works(cred, off, old)
    PROVE  Works(cred, off, new)
BY DEF Works

\* What the running sshd takes, its files allow too, but for a fault.
LEMMA AcceptedWorks ==
    ASSUME ConfInv, NEW id \in Ids, ~LoginCause(id), NEW cred, Accepts(cred)
    PROVE  Works(cred, live, keys) /\ Works(cred, conf, keys)
<1>1. Works(cred, live, keys) /\ Works(cred, {}, keys)
  BY DEF Accepts, Works
<1>2. conf = live \/ conf = {} \/ Happened("not reloaded", id) \/ Happened("half written", id)
  BY DEF ConfInv
<1>3. ~Happened("not reloaded", id) /\ ~Happened("half written", id)
  BY DEF LoginCause, Caused
<1> QED
  BY <1>1, <1>2, <1>3

Good(cred) == Works(cred, live, keys) /\ Works(cred, conf, keys)
Safe(id) == rec[id] # None /\ ~LoginCause(id) /\ ~Converging(id) => Good(ResolveCreds(rec[id]))

\* Where a job stays, so does the password that it turned off.
LEMMA ConvergingKept ==
    ASSUME NEW q \in Reqs, pc'[q] = pc[q], job'[q] = job[q], ConvergingAt(q)
    PROVE  ConvergingAt(q)' /\ Id(q)' = Id(q)
BY DEF ConvergingAt, AtWork, Kind, Id

\* A request that begins, or ends without a save, leaves nothing unexplained.
LEMMA LoginMoved ==
    ASSUME Typed, ConfInv, NEW r \in Reqs, Moved(r), NEW id \in Ids, id \in proven => Safe(id),
           id \in proven', rec'[id] # None, ~LoginCause(id)', ~Converging(id)'
    PROVE  Good(ResolveCreds(rec[id])) /\ (id \in proven => ~Converging(id))
<1>1. rec' = rec /\ ~LoginCause(id)
  BY GrowsAll DEF Moved, recordVars
<1>2. CASE id \in proven
  <2>1. ASSUME NEW q \in Reqs, ConvergingAt(q), Id(q) = id PROVE FALSE
    <3>1. CASE q = r
      <4>1. ConvergingAt(r)' /\ AtWork(r)'
        BY <1>1, <2>1, <3>1 DEF Moved, ConvergingAt
      <4>2. Id(r)' = id
        BY <2>1, <3>1, <4>1 DEF Moved
      <4> QED
        BY <4>1, <4>2 DEF Converging
    <3>2. CASE q # r
      <4>1. ConvergingAt(q)' /\ Id(q)' = id
        BY <2>1, <3>2, ConvergingKept DEF Moved, Only
      <4> QED
        BY <4>1 DEF Converging
    <3> QED
      BY <3>1, <3>2
  <2>2. ~Converging(id)
    BY <2>1 DEF Converging
  <2> QED
    BY <1>1, <1>2, <2>2 DEF Safe
<1>3. CASE id \notin proven
  <2>1. Accepts(ResolveCreds(rec[id]))
    BY <1>3 DEF Moved, Tried
  <2> QED
    BY <1>1, <1>3, <2>1, AcceptedWorks DEF Good
<1> QED
  BY <1>2, <1>3

\* A job that forgets the password has its key on the server.
LEMMA LoginSaved ==
    ASSUME IInv, NEW r \in Reqs, Saved(r), NEW id \in proven, id = Id(r),
           ~LoginCause(id)', ~Converging(id)'
    PROVE  Good(ResolveCreds(Copy(r)))
<1> USE DEF IInv
<1>1. Holding(r) /\ AtWork(r) /\ id \in Ids /\ job[r] \in Job /\ JobAt(r) /\ r \in Ids
  BY KindAt DEF Saved, Holding, Ids
<1>2. ~LoginCause(id) /\ ~AtOnce(id)
  <2>1. ~LoginCause(id)
    BY <1>1, GrowsAll DEF Saved
  <2> QED
    BY <2>1 DEF LoginCause, Caused, AtOnce
<1>3. Kind(r) # "create"
  BY <1>1, CreateIs DEF UnmadeInv, Unmade
<1>4. /\ rec[id] # None /\ rec[id] \in Instance
      /\ \/ ResolveCreds(Copy(r)) = ResolveCreds(rec[id])
         \/ job[r].then = "install"
         \/ job[r].then = "recheck" /\ Copy(r) = Converged(r, rec[id])
  BY <1>1, <1>2, <1>3, CopyIs
<1>5. ASSUME NEW q \in Reqs, q # r, ConvergingAt(q), Id(q) = id PROVE FALSE
  BY <1>5, ConvergingKept DEF Saved, Only, Converging
<1>6. ASSUME ~ConvergingAt(r) PROVE Good(ResolveCreds(rec[id]))
  <2>1. ~Converging(id)
    BY <1>5, <1>6 DEF Converging
  <2> QED
    BY <1>2, <1>4, <2>1 DEF LoginInv, Good
<1>7. CASE job[r].then = "install"
  <2>1. Accepts(ResolveCreds(Copy(r)))
    BY <1>7 DEF Saved
  <2> QED
    BY <1>1, <1>2, <2>1, AcceptedWorks DEF Good
<1>8. CASE job[r].then = "recheck" /\ Copy(r) = Converged(r, rec[id])
  <2>1. /\ Copy(r).key = job[r].key
        /\ Copy(r).pw = IF "password" \in job[r].want THEN None ELSE rec[id].pw
    <3>1. /\ Converged(r, rec[id]).key = job[r].key
          /\ Converged(r, rec[id]).pw = IF "password" \in job[r].want THEN None ELSE rec[id].pw
      BY <1>1, <1>4, ConvergedTyped
    <3> QED
      BY <1>8, <3>1
  <2>2. job[r].key \in keys /\ keys \in SUBSET Pairs
    <3>1. Running(r) /\ pc[r] # "connect"
      BY <1>1, <1>8 DEF Running, JobAt, Holding, Kind
    <3> QED
      BY <3>1 DEF KeyInv, Typed, TypeOK
  <2>3. CASE Copy(r).pw = None
    <3>1. ResolveCreds(Copy(r)) = job[r].key
      BY <2>1, <2>3 DEF ResolveCreds
    <3> QED
      BY <2>2, <3>1, WorksKey DEF Good
  <2>4. CASE Copy(r).pw # None
    <3>1. ResolveCreds(Copy(r)) = ResolveCreds(rec[id]) /\ "password" \notin job[r].want
      BY <2>1, <2>4 DEF ResolveCreds
    <3> QED
      BY <1>6, <3>1 DEF ConvergingAt
  <2> QED
    BY <2>3, <2>4
<1>9. CASE job[r].then = "over" /\ ResolveCreds(Copy(r)) = ResolveCreds(rec[id])
  <2>1. ~ConvergingAt(r)
    BY <1>1, <1>9 DEF ConvergingAt, Holding
  <2> QED
    BY <1>6, <1>9, <2>1
<1>10. CASE job[r].then = "recheck" /\ Copy(r) # Converged(r, rec[id])
  BY <1>1, <1>2, <1>3, <1>10 DEF HolderInv, HolderAt, Derived, JobAt, Holding
<1> QED
  BY <1>1, <1>4, <1>7, <1>8, <1>9, <1>10 DEF JobAt, Holding

LEMMA LoginStep ==
    ASSUME IInv, [Next]_vars PROVE LoginInv'
<1> USE DEF IInv
<1> SUFFICES ASSUME NEW id \in Ids, id \in proven', rec'[id] # None, ~LoginCause(id)', ~Converging(id)'
    PROVE  /\ Works(ResolveCreds(rec'[id]), live', keys')
           /\ Works(ResolveCreds(rec'[id]), conf', keys')
  <2>1. proven' \subseteq Ids
    BY TypedStep DEF Typed, TypeOK
  <2> QED
    BY <2>1 DEF LoginInv
<1>1. ~LoginCause(id)
  BY GrowsAlways, GrowsAll
<1>2. id \in proven => Safe(id)
  BY DEF LoginInv, Safe, Good
<1> DEFINE Goal == /\ Works(ResolveCreds(rec'[id]), live', keys')
                   /\ Works(ResolveCreds(rec'[id]), conf', keys')
<1>3. ASSUME UNCHANGED <<conf, live>>, keys \subseteq keys', Good(ResolveCreds(rec'[id])) PROVE Goal
  BY <1>3, WorksOn DEF Good
<1>4. ASSUME \A q \in Reqs : ConvergingAt(q) /\ Id(q) = id => pc'[q] = pc[q] /\ job'[q] = job[q]
      PROVE  ~Converging(id)
  BY <1>4, ConvergingKept DEF Converging
<1>5. ASSUME NEW r \in Reqs, Begun(r) PROVE Goal
  <2>1. rec' = rec /\ keys' = keys /\ conf' = conf /\ live' = live /\ proven' = proven
    BY <1>5 DEF Begun, recordVars, sshdVars
  <2>2. ~Converging(id)
    BY <1>4, <1>5 DEF Begun, Only, ConvergingAt, AtWork
  <2> QED
    BY <1>1, <1>2, <1>3, <2>1, <2>2 DEF Safe
<1>6. ASSUME NEW r \in Reqs, Went(r) PROVE Goal
  <2>1. /\ rec' = rec /\ keys \subseteq keys' /\ UNCHANGED <<conf, live>>
    BY <1>6 DEF Went, Moved, recordVars, sshdVars
  <2>2. Good(ResolveCreds(rec[id]))
    BY <1>2, <1>6, LoginMoved DEF Went
  <2> QED
    BY <1>3, <2>1, <2>2
<1>7. ASSUME NEW r \in Reqs, Rewrote(r) PROVE Goal
  <2>1. /\ rec' = rec /\ keys' = keys /\ id \in proven /\ pc[r] = "sshd" /\ AtWork(r) /\ job[r] \in Job
        /\ Kind(r) = "apply"
    BY <1>7, KindAt DEF Rewrote, Moved, recordVars, ApplyPlaces
  <2>2. Good(ResolveCreds(rec[id])) /\ ~Converging(id)
    BY <1>2, <1>7, <2>1, LoginMoved DEF Rewrote
  <2>3. /\ ~Happened("elsewhere", id)' /\ ~Happened("not reloaded", id)'
        /\ ~Happened("half written", id)'
    BY DEF LoginCause, Caused
  <2>4. CASE conf' = {} /\ live' = live
    BY <2>1, <2>2, <2>4 DEF Good, Works
  <2>5. CASE pc'[r] = "extras" /\ conf' = job[r].want /\ live' = job[r].want /\ id = Id(r)
    <3>1. "password" \notin job[r].want
      <4>1. pc'[r] = "extras" => AtWork(r)'
        BY DEF AtWork
      <4>2. ASSUME "password" \in job[r].want PROVE ConvergingAt(r)' /\ Id(r)' = id
        BY <1>7, <2>1, <2>5, <4>1, <4>2 DEF Rewrote, Moved, ConvergingAt
      <4> QED
        BY <4>2 DEF Converging
    <3> QED
      BY <2>1, <2>2, <2>5, <3>1 DEF Good, Works
  <2> QED
    BY <1>7, <2>3, <2>4, <2>5 DEF Rewrote
<1>8. ASSUME NEW r \in Reqs, Saved(r) PROVE Goal
  <2>1. /\ keys' = keys /\ UNCHANGED <<conf, live>> /\ proven' = proven
        /\ rec'[id] = IF id = Id(r) THEN Copy(r) ELSE rec[id]
    BY <1>8 DEF Saved, sshdVars, Typed, TypeOK
  <2>2. CASE id = Id(r)
    BY <1>3, <1>8, <2>1, <2>2, LoginSaved
  <2>3. CASE id # Id(r)
    <3>1. ~Converging(id)
      BY <1>4, <1>8, <2>3 DEF Saved, Only
    <3> QED
      BY <1>1, <1>2, <1>3, <2>1, <2>3, <3>1 DEF Safe
  <2> QED
    BY <2>2, <2>3
<1>9. ASSUME NEW r \in Reqs, NEW i \in Ids, Deleted(r, i) PROVE Goal
  <2>1. /\ keys' = keys /\ UNCHANGED <<conf, live>> /\ proven' = proven /\ rec'[id] = rec[id]
    BY <1>9 DEF Deleted, sshdVars, Typed, TypeOK
  <2>2. ~Converging(id)
    BY <1>4, <1>9 DEF Deleted, Only, ConvergingAt, AtWork
  <2> QED
    BY <1>1, <1>2, <1>3, <2>1, <2>2 DEF Safe
<1>10. CASE Turned \/ UNCHANGED vars
  <2>1. /\ rec' = rec /\ keys \subseteq keys' /\ conf' = conf /\ (live' = live \/ live' = conf)
        /\ proven' = proven /\ pc' = pc /\ job' = job
    BY <1>10 DEF Turned, vars, recordVars
  <2>2. ~Converging(id)
    BY <1>4, <2>1
  <2>3. Good(ResolveCreds(rec[id]))
    BY <1>1, <1>2, <2>1, <2>2 DEF Safe
  <2> QED
    BY <2>1, <2>3, WorksOn DEF Good
<1>11. CASE Stopped
  <2>1. /\ rec' = rec /\ keys' = keys /\ UNCHANGED <<conf, live>> /\ proven' = proven
    BY <1>11 DEF Stopped, recordVars, sshdVars
  <2>2. ~Converging(id)
    BY <1>11 DEF Stopped, Converging, ConvergingAt
  <2> QED
    BY <1>1, <1>2, <1>3, <2>1, <2>2 DEF Safe
<1> QED
  BY <1>5, <1>6, <1>7, <1>8, <1>9, <1>10, <1>11, StepCases

-----------------------------------------------------------------------------
(* The theorems *)

LEMMA InitIInv ==
    ASSUME Init PROVE IInv
<1>1. First \in Ids /\ First \in Pairs /\ Own \in Pairs
  BY DEF Ids, Pairs
<1>2. PICK n \in Names, a \in Addrs : \E first \in {None, Fresh(First, n, a), Legacy(First, n, a)} :
        /\ rec = [i \in Ids |-> IF i = First THEN first ELSE None]
        /\ expected = [i \in Ids |-> IF i = First /\ first # None THEN First ELSE None]
  BY DEF Init, Addrs
<1>3. PICK first \in {None, Fresh(First, n, a), Legacy(First, n, a)} :
        /\ rec = [i \in Ids |-> IF i = First THEN first ELSE None]
        /\ expected = [i \in Ids |-> IF i = First /\ first # None THEN First ELSE None]
  BY <1>2
<1>4. first # None => first \in Instance /\ first.token = First /\ first.hardened = FALSE
  <2> DEFINE f == Fresh(First, n, a)
  <2>1. f \in Instance /\ f.token = First /\ f.hardened = FALSE
    BY <1>1 DEF Fresh, Instance, Addrs
  <2>2. Legacy(First, n, a) = [f EXCEPT !.key = None, !.pub = None, !.pw = "right"]
    BY DEF Legacy
  <2> HIDE DEF f
  <2>3. /\ Legacy(First, n, a) \in Instance /\ Legacy(First, n, a).token = First
        /\ Legacy(First, n, a).hardened = FALSE
    BY <2>1, <2>2 DEF Instance
  <2> QED
    BY <2>1, <2>3 DEF f
<1>5. /\ job = [r \in Reqs |-> None] /\ pc = [r \in Reqs |-> "idle"]
      /\ keys = {Own} /\ conf = {} /\ live = {} /\ agent = None /\ proven = {} /\ mishaps = {}
  BY DEF Init
<1>6. TypeOK
  BY <1>1, <1>3, <1>4, <1>5 DEF TypeOK, Places
<1>7. JobInv /\ HolderInv
  BY <1>5 DEF JobInv, JobAt, AtWork, ApplyPlaces, HolderInv, HolderAt, Holding
<1>8. UnmadeInv
  BY <1>3, <1>5, ServersAssumption DEF UnmadeInv, AtWork, Ids
<1>9. TokenInv
  BY <1>3, <1>4 DEF TokenInv, Token
<1>10. TwinInv
  BY <1>3, <1>5 DEF TwinInv, TwinsHaveCause, Holding
<1>11. ConfInv
  BY <1>5 DEF ConfInv
<1>12. HardenedInv
  BY <1>3, <1>4, <1>5 DEF HardenedInv, SaysHardened, Holding
<1>13. RunnerInv /\ KeyInv
  BY <1>5 DEF RunnerInv, KeyInv, Running, AtWork
<1>14. LoginInv
  BY <1>5 DEF LoginInv
<1> QED
  BY <1>6, <1>7, <1>8, <1>9, <1>10, <1>11, <1>12, <1>13, <1>14 DEF IInv, Typed

LEMMA IInvStep ==
    ASSUME IInv, [Next]_vars PROVE IInv'
<1>1. Typed'
  BY TypedStep DEF IInv
<1>2. HolderInv' /\ UnmadeInv'
  BY HolderStep, UnmadeStep DEF IInv
<1>3. TokenInv' /\ TwinInv'
  BY TokenStep, TwinStep DEF IInv
<1>4. ConfInv' /\ HardenedInv'
  BY ConfStep, HardenedStep DEF IInv
<1>5. RunnerInv' /\ KeyInv'
  BY RunnerStep, KeyStep DEF IInv
<1>6. LoginInv'
  BY LoginStep
<1> QED
  BY <1>1, <1>2, <1>3, <1>4, <1>5, <1>6 DEF IInv

LEMMA Inductive == Spec => []IInv
BY InitIInv, IInvStep, PTL DEF Spec

\* Every variable keeps its type.
THEOREM ServersTyping == Spec => []TypeOK
<1>1. IInv => TypeOK
  BY DEF IInv, Typed
<1> QED
  BY <1>1, Inductive, PTL

\* Of two records that share a name or an address one was created at the same
\* time or without the list, was edited, or was written back after its deletion
\* (provisionInstance's check of names and addresses).
THEOREM TwinsExplained == Spec => []TwinsHaveCause
<1>1. IInv => TwinsHaveCause
  BY DEF IInv, TwinInv
<1> QED
  BY <1>1, Inductive, PTL

\* A rotated token stays rotated and a deleted record deleted, but for a write
\* between a read and a save (GetInstance and SaveInstance).
THEOREM TokensExplained == Spec => []TokenHasCause
<1>1. IInv => TokenHasCause
  BY DEF IInv, TokenInv, TokenHasCause, Token, AtOnce
<1> QED
  BY <1>1, Inductive, PTL

\* A record whose credential once worked keeps one that the server takes, or one
\* of the known gaps has struck it (the security job and the installer).
THEOREM LoginsExplained == Spec => []LoginHasCause
<1>1. ASSUME IInv PROVE LoginHasCause
  <2> SUFFICES ASSUME NEW id \in proven, rec[id] # None, "root" \notin live,
                      ~Accepts(ResolveCreds(rec[id])), ~(\E r \in Reqs : Running(r) /\ Id(r) = id),
                      ~LoginCause(id)
      PROVE  FALSE
    BY DEF LoginHasCause, LoginCause
  <2>1. ~Converging(id)
    BY DEF Converging, ConvergingAt, Running, Kind
  <2>2. Works(ResolveCreds(rec[id]), live, keys)
    BY <1>1, <2>1 DEF IInv, LoginInv
  <2> QED
    BY <2>2 DEF Works, Accepts
<1> QED
  BY <1>1, Inductive, PTL

\* The server of a record that says "hardened" refuses passwords, but for the
\* named reasons (what applyOnce records, and what sshd does).
THEOREM HardenedExplained == Spec => []HardenedHasCause
<1>1. ASSUME IInv PROVE HardenedHasCause
  <2> SUFFICES ASSUME NEW id \in Ids, rec[id] # None, rec[id].hardened, "password" \notin live
      PROVE  HardenedCause(id)
    BY DEF HardenedHasCause, HardenedCause
  <2>1. SaysHardened(id)
    BY DEF SaysHardened
  <2> QED
    BY <1>1, <2>1 DEF IInv, HardenedInv
<1> QED
  BY <1>1, Inductive, PTL

=============================================================================
