------------------------------ MODULE Servers ------------------------------
(***************************************************************************)
(* The instances bucket and one remote server: records are created,        *)
(* edited, given a new token and deleted; the agent is installed over SSH; *)
(* the security job takes password and root logins from the server         *)
(* (server/instance_routes.go, security_routes.go, agent_ws.go,            *)
(* ssh/installer.go, ssh/security.go, ssh/harden.go).                      *)
(*                                                                         *)
(* Every record is about the same machine, to which the panel logs in as   *)
(* root.  An instance's ID, its token and the key pair generated for it    *)
(* are named after the request that made them.                             *)
(***************************************************************************)
EXTENDS FiniteSets, Naturals, TLC

CONSTANTS
    Reqs,        \* requests, and agents that connect
    First,       \* a record made before
    Own,         \* the operator's key pair, authorized on the server
    Bad,         \* a private key the server does not know
    None,
    Names,       \* names for instances, written as the comparison folds them
    Addresses,   \* hosts and ports of agents that listen
    Passwords,   \* passwords that operators type: "right", "wrong"
    Wanted,      \* the sets of logins that an administrator wants off
    MaxAtOnce    \* bound: requests at work at one time

ASSUME ServersAssumption ==
    /\ MaxAtOnce \in Nat
    /\ Passwords \subseteq {"right", "wrong"}
    /\ Wanted \subseteq SUBSET {"password", "root"}
    /\ First # Own /\ First # Bad /\ Own # Bad
    /\ None \notin {First, Own, Bad} \union Addresses /\ {First, Own, Bad, None} \intersect Reqs = {}

VARIABLES
    rec,         \* the instances bucket
    job,         \* what each request is about, once it has begun
    pc,          \* where it is
    keys,        \* authorized_keys on the server, by owner of the pair
    conf,        \* the logins that sshd's configuration files turn off
    live,        \* those that the running sshd refuses
    agent,       \* the token that the agent container was started with
    expected,    \* the token each record should have, for the properties only
    proven,      \* the records whose credential the server has taken, likewise
    mishaps      \* what went wrong for which record, likewise

recordVars == <<rec, expected>>
sshdVars == <<conf, live>>
vars == <<rec, job, pc, keys, conf, live, agent, expected, proven, mishaps>>

Ids == Reqs \union {First}
Pairs == Ids \union {Own, Bad}
Controls == {"password", "root"}

\* db.Instance.  An instance of mode "edge" has no address to be reached at.  The
\* private key and the public key beside it are stored apart.
Instance == [name : Names, addr : Addresses \union {None}, token : Ids, key : Pairs \union {None}, pub : Pairs \union {None},
             pw : {"right", "wrong", None}, hardened : BOOLEAN]

Kinds == {"create", "edit", "rotate", "hello", "detect", "install", "apply"}
Places == {"idle", "save", "install", "offline", "probe", "report", "slot", "connect", "sshd", "extras",
           "persist", "recheck", "over"}

Job == [kind : Kinds, id : Ids, copy : Instance \union {None}, cred : {"right", "wrong"} \union Pairs \union {None},
        key : Pairs \union {None}, pub : Pairs \union {None}, want : SUBSET Controls, then : Places]

ASSUME NoneAssumption ==
    /\ None \notin Instance \union Job \union {"right", "wrong"}
    /\ Pairs \intersect {"right", "wrong"} = {}

Faults == {"cut short", "unlisted", "half written", "rolled back", "not reloaded", "half applied", "unsaved"}
What == Faults \union {"at once", "created at once", "edited", "untested", "elsewhere",
                       "enabled again"}

TypeOK ==
    /\ rec \in [Ids -> Instance \union {None}]
    /\ job \in [Reqs -> Job \union {None}]
    /\ pc \in [Reqs -> Places]
    /\ keys \subseteq Pairs
    /\ conf \subseteq Controls /\ live \subseteq Controls
    /\ agent \in Ids \union {None}
    /\ expected \in [Ids -> Ids \union {None}]
    /\ proven \subseteq Ids
    /\ mishaps \subseteq What \X Ids

Fresh(id, n, a) == [name |-> n, addr |-> a, token |-> id, key |-> id, pub |-> id, pw |-> None, hardened |-> FALSE]
Legacy(id, n, a) == [Fresh(id, n, a) EXCEPT !.key = None, !.pub = None, !.pw = "right"]

\* No record, or one as the panel makes them now or made them before it had
\* keys of its own.  The server's own configuration allows both logins.
Init ==
    /\ \E n \in Names, a \in Addresses \union {None} :
       \E first \in {None, Fresh(First, n, a), Legacy(First, n, a)} :
          /\ rec = [i \in Ids |-> IF i = First THEN first ELSE None]
          /\ expected = [i \in Ids |-> IF i = First /\ first # None THEN First ELSE None]
    /\ job = [r \in Reqs |-> None]
    /\ pc = [r \in Reqs |-> "idle"]
    /\ keys = {Own}
    /\ conf = {} /\ live = {}
    /\ agent = None
    /\ proven = {}
    /\ mishaps = {}

AtWork(r) == pc[r] \notin {"idle", "over"}
Id(r) == job[r].id

\* A request between its read of a record and its write of the whole record.
Holding(r) == pc[r] = "save"

Goto(r, place) ==
    /\ pc' = [pc EXCEPT ![r] = place]
    /\ job' = IF place = "over" THEN [job EXCEPT ![r] = None] ELSE job

GotoWith(r, place, j) ==
    /\ pc' = [pc EXCEPT ![r] = place]
    /\ job' = [job EXCEPT ![r] = j]

Marks(what, ids, happened) == IF happened THEN {what} \X ids ELSE {}
Note(what, ids, happened) == mishaps' = mishaps \union Marks(what, ids, happened)

Happened(what, id) == <<what, id>> \in mishaps

\* Bound: something breaks once.
MayFail == \A m \in mishaps : m[1] \notin Faults

(***************************************************************************)
(* The server                                                              *)
(***************************************************************************)

\* sshd takes a password if it is right and passwords are on, a key if it is
\* authorized; and root by neither when root is shut out.
Accepts(cred) ==
    /\ "root" \notin live
    /\ IF cred \in {"right", "wrong"} THEN cred = "right" /\ "password" \notin live ELSE cred \in keys

\* A stored password comes before the key.
ResolveCreds(inst) == IF inst.pw # None THEN inst.pw ELSE inst.key

Dialled(r) ==
    proven' = IF /\ Accepts(job[r].cred)
                 /\ rec[Id(r)] # None /\ ResolveCreds(rec[Id(r)]) = job[r].cred
              THEN proven \union {Id(r)} ELSE proven

(***************************************************************************)
(* Reading a record, and writing all of it back                            *)
(***************************************************************************)

Empty(kind, id) == [kind |-> kind, id |-> id, copy |-> None, cred |-> None, key |-> None, pub |-> None,
                    want |-> {}, then |-> "over"]

Begins(r, j, place) ==
    /\ pc[r] = "idle"
    /\ Cardinality({q \in Reqs : AtWork(q)}) < MaxAtOnce
    /\ GotoWith(r, place, j)
    /\ UNCHANGED <<recordVars, keys, sshdVars, agent, proven>>

Starts(r, j, place) == Begins(r, j, place) /\ UNCHANGED mishaps

\* GetInstance, and the record with its changes.
GetInstance(r, kind, id, changed) ==
    /\ rec[id] # None
    /\ Starts(r, [Empty(kind, id) EXCEPT !.copy = changed], "save")

\* Two records of a name, or of an agent that both reach at its address.
Twins(x, y) == x.name = y.name \/ (x.addr # None /\ x.addr = y.addr)

Taken(inst) == \E i \in Ids : rec[i] # None /\ Twins(rec[i], inst)

Provisioned(r) == {Fresh(r, n, a) : n \in Names, a \in Addresses \union {None}}

\* Mutant: only the name is looked for, not the address.
ListInstancesByName(r) ==
    \E inst \in Provisioned(r) :
        /\ \A i \in Ids : rec[i] # None => rec[i].name # inst.name
        /\ Starts(r, [Empty("create", r) EXCEPT !.copy = inst], "save")

\* A new instance: neither name nor address must be taken, at this moment.
ListInstances(r) ==
    \E inst \in Provisioned(r) :
        /\ ~Taken(inst)
        /\ Starts(r, [Empty("create", r) EXCEPT !.copy = inst], "save")

\* The list cannot be read: the instance is made without the check.
ListInstancesFails(r) ==
    \E inst \in Provisioned(r) :
        /\ MayFail /\ Taken(inst)
        /\ Begins(r, [Empty("create", r) EXCEPT !.copy = inst], "save")
        /\ Note("unlisted", {r}, TRUE)

\* PATCH gives the instance another name or address, without such a check.
UpdateInstance(r, id) ==
    /\ rec[id] # None
    /\ \E n \in Names, a \in IF rec[id].addr = None THEN {None} ELSE Addresses :
          /\ n # rec[id].name \/ a # rec[id].addr
          /\ GetInstance(r, "edit", id, [rec[id] EXCEPT !.name = n, !.addr = a])

RotateToken(r, id) == GetInstance(r, "rotate", id, [rec[id] EXCEPT !.token = r])

\* The agent connects with a token of the record, which gets its status, when
\* it was seen, and the host information.
AgentConnects(r, id) == rec[id] # None /\ rec[id].token = agent /\ GetInstance(r, "hello", id, rec[id])

\* An administrator tests the connection to the agent, however old its token.
TestInstance(r, id) == rec[id] # None /\ agent # None /\ GetInstance(r, "hello", id, rec[id])

\* Another request is about to save a twin.
Takes(q, kind, inst) == job[q].kind = kind /\ Twins(job[q].copy, inst)

SaveInstance(r) ==
    /\ pc[r] = "save"
    /\ LET j == job[r]
           others == {q \in Reqs \ {r} : Holding(q)}
       IN /\ rec' = [rec EXCEPT ![j.id] = j.copy]
          /\ expected' = IF j.kind \in {"create", "rotate"} THEN [expected EXCEPT ![j.id] = r] ELSE expected
          /\ mishaps' = mishaps
                \union Marks("at once", {j.id}, j.copy # rec[j.id] /\ \E q \in others : Id(q) = j.id)
                \union Marks("created at once", {j.id},
                             j.kind = "create" /\ \E q \in others : Takes(q, "create", j.copy))
                \union Marks("edited", {j.id},
                             /\ j.kind = "edit"
                             /\ \/ \E i \in Ids \ {j.id} : rec[i] # None /\ Twins(rec[i], j.copy)
                                \/ \E q \in others : \E k \in {"create", "edit"} : Takes(q, k, j.copy))
                \union Marks("untested", {j.id}, j.then = "install" /\ j.id \in proven /\ ~Accepts(ResolveCreds(j.copy)))
          /\ Goto(r, j.then)
    /\ UNCHANGED <<keys, sshdVars, agent, proven>>

DeleteInstance(r, id) ==
    /\ pc[r] = "idle"
    /\ rec[id] # None
    /\ rec' = [rec EXCEPT ![id] = None]
    /\ expected' = [expected EXCEPT ![id] = None]
    /\ Goto(r, "over")
    /\ Note("at once", {id}, \E q \in Reqs : Holding(q) /\ Id(q) = id)
    /\ UNCHANGED <<keys, sshdVars, agent, proven>>

(***************************************************************************)
(* Installing the agent                                                    *)
(***************************************************************************)

\* A private key that is pasted or saved.
OperatorKeys == {Own, Bad}

\* What the request stores before it is tried: nothing but the key it has, a
\* password, or a private key in place of the panel's own.
InstallDetails(inst) ==
    (IF inst.key # None THEN {[inst EXCEPT !.pw = None]} ELSE {})
        \union {[inst EXCEPT !.pw = p] : p \in Passwords}
        \union {[inst EXCEPT !.key = k, !.pw = None] : k \in OperatorKeys}

InstallRequested(r, id) ==
    /\ rec[id] # None
    /\ \E inst \in InstallDetails(rec[id]) :
          Starts(r, [Empty("install", id) EXCEPT !.copy = inst, !.cred = ResolveCreds(inst), !.then = "install"],
                 "save")

Installing(r) == pc[r] = "install"

InstallEnds(r, place) ==
    /\ Dialled(r)
    /\ Goto(r, place)
    /\ UNCHANGED <<recordVars, keys, sshdVars, mishaps>>

\* The server takes the credential, and the old agent container is replaced.
InstallAgent(r) ==
    Installing(r) /\ Accepts(job[r].cred) /\ agent' = job[r].copy.token /\ InstallEnds(r, "over")

InstallRefused(r) ==
    Installing(r) /\ ~Accepts(job[r].cred) /\ agent' = agent /\ InstallEnds(r, "offline")

\* A step fails before the old container is removed, or after.
InstallFails(r) ==
    Installing(r) /\ Accepts(job[r].cred) /\ agent' \in {agent, None} /\ InstallEnds(r, "offline")

\* A job reads the record again for its next write, or goes on without one.
ReadAgain(r, changed, then) ==
    /\ IF rec[Id(r)] = None
          THEN Goto(r, then)
          ELSE GotoWith(r, "save", [job[r] EXCEPT !.copy = changed, !.then = then])
    /\ UNCHANGED <<recordVars, keys, sshdVars, agent, proven, mishaps>>

\* Mutant: the record of the request is written, not the one there is now.
MarkOfflineOldCopy(r) == pc[r] = "offline" /\ ReadAgain(r, job[r].copy, "over")

\* The status goes to offline.
MarkOffline(r) == pc[r] = "offline" /\ ReadAgain(r, rec[Id(r)], "over")

(***************************************************************************)
(* Detecting and applying security                                         *)
(***************************************************************************)

HasCreds(id) == rec[id] # None /\ ResolveCreds(rec[id]) # None

DetectRequested(r, id) ==
    HasCreds(id) /\ Starts(r, [Empty("detect", id) EXCEPT !.cred = ResolveCreds(rec[id])], "probe")

DetectSecurity(r) ==
    /\ pc[r] = "probe"
    /\ Dialled(r)
    /\ Goto(r, "report")
    /\ UNCHANGED <<recordVars, keys, sshdVars, agent, mishaps>>

\* The result is saved, an unreachable server's as unknown.
PersistSecurityState(r) == pc[r] = "report" /\ ReadAgain(r, rec[Id(r)], "over")

\* The pair that stays on the server: the stored one, or one made for the job.
\* The public half comes from the record, even if the key was replaced since.
PanelKey(r, inst) == IF inst.key # None THEN inst.key ELSE r
PanelPub(r, inst) == IF inst.key # None /\ inst.pub # None THEN inst.pub ELSE PanelKey(r, inst)

ApplyRequested(r, id) ==
    /\ HasCreds(id)
    /\ \E want \in Wanted :
          Starts(r, [Empty("apply", id) EXCEPT !.cred = ResolveCreds(rec[id]), !.key = PanelKey(r, rec[id]),
                                               !.pub = PanelPub(r, rec[id]), !.want = want], "slot")

Running(r) == AtWork(r) /\ job[r].kind = "apply" /\ pc[r] # "slot"

TakeSlot(r) ==
    /\ pc[r] = "slot"
    /\ Goto(r, IF \E q \in Reqs : Running(q) /\ Id(q) = Id(r) THEN "over" ELSE "connect")
    /\ UNCHANGED <<recordVars, keys, sshdVars, agent, proven, mishaps>>

\* The key is installed and must log in before anything else is touched.
InstallKeys(r) ==
    /\ pc[r] = "connect"
    /\ Dialled(r)
    /\ keys' = IF Accepts(job[r].cred) THEN keys \union {job[r].pub} ELSE keys
    /\ Goto(r, IF Accepts(job[r].cred) /\ job[r].key \in keys' THEN "sshd" ELSE "over")
    /\ UNCHANGED <<recordVars, sshdVars, agent, mishaps>>

\* sshd -T speaks of the files: nothing to do if they are as wanted.
SshdAsWanted(r) ==
    /\ pc[r] = "sshd"
    /\ conf = job[r].want
    /\ Goto(r, "extras")
    /\ UNCHANGED <<recordVars, keys, sshdVars, agent, proven, mishaps>>

Rewrites(r) == pc[r] = "sshd" /\ conf # job[r].want

ReloadSSHD(r) ==
    /\ Rewrites(r)
    /\ conf' = job[r].want
    /\ live' = conf'
    /\ Goto(r, "extras")
    /\ mishaps' = mishaps
          \union Marks("elsewhere", Ids \ {Id(r)}, TRUE)
          \union Marks("enabled again", {Id(r)}, "password" \in conf \ job[r].want)
    /\ UNCHANGED <<recordVars, keys, agent, proven>>

\* The job finds that sshd, with these logins off, still takes the password.
Noticed(r, off) == "password" \in job[r].want /\ job[r].cred = "right" /\ off = {}

\* The write of sshd's files stops half-way, or before it has begun.  The job is
\* over; but not at a second attempt, for which what is there is good enough.
WriteFails(r) ==
    /\ Rewrites(r) /\ MayFail
    /\ \/ /\ conf' \in {conf} \union SUBSET job[r].want
          /\ live' = live
          /\ Goto(r, "over")
       \/ /\ conf' \in SUBSET job[r].want
          /\ live' = conf'
          /\ Goto(r, IF Noticed(r, live') THEN "over" ELSE "extras")
    /\ Note("half written", Ids, TRUE)
    /\ UNCHANGED <<recordVars, keys, agent, proven>>

\* sshd -t refuses the files: all that the panel has written is removed, and
\* sshd is not told.
RollbackConfig(r) ==
    /\ Rewrites(r) /\ MayFail
    /\ conf' = {}
    /\ Goto(r, "over")
    /\ Note("rolled back", Ids, TRUE)
    /\ UNCHANGED <<recordVars, keys, live, agent, proven>>

\* The reload fails, or has no effect: the latter is seen if the job has the
\* password to try.
ReloadFails(r) ==
    /\ Rewrites(r) /\ MayFail
    /\ conf' = job[r].want
    /\ \/ Goto(r, "over")
       \/ ~Noticed(r, live) /\ Goto(r, "extras")
    /\ Note("not reloaded", Ids, TRUE)
    /\ UNCHANGED <<recordVars, keys, live, agent, proven>>

\* fail2ban and the firewall follow.
Extras(r) ==
    /\ pc[r] = "extras"
    /\ Goto(r, "persist")
    /\ UNCHANGED <<recordVars, keys, sshdVars, agent, proven, mishaps>>

\* If one fails the job is over, and nothing of the change to sshd is recorded.
ExtrasFail(r) ==
    /\ pc[r] = "extras" /\ MayFail
    /\ Goto(r, "over")
    /\ Note("half applied", {Id(r)}, TRUE)
    /\ UNCHANGED <<recordVars, keys, sshdVars, agent, proven>>

\* Mutant: the password is forgotten, but the key not kept.
ConvergedWithoutKey(r, inst) ==
    IF "password" \in job[r].want THEN [inst EXCEPT !.pw = None, !.hardened = TRUE] ELSE inst

\* Mutant: every success is a hardening.
ConvergedHardened(r, inst) ==
    LET kept == [inst EXCEPT !.key = job[r].key, !.pub = job[r].pub, !.hardened = TRUE]
    IN IF "password" \in job[r].want THEN [kept EXCEPT !.pw = None] ELSE kept

\* The key is kept; with passwords off, so is the password forgotten.
Converged(r, inst) ==
    LET kept == [inst EXCEPT !.key = job[r].key, !.pub = job[r].pub]
    IN IF "password" \in job[r].want THEN [kept EXCEPT !.pw = None, !.hardened = TRUE] ELSE kept

Persist(r) == pc[r] = "persist" /\ ReadAgain(r, Converged(r, rec[Id(r)]), "recheck")

\* The failure is logged, and the job ends as a success.
PersistFails(r) ==
    /\ pc[r] = "save" /\ job[r].then = "recheck" /\ MayFail
    /\ Goto(r, "recheck")
    /\ Note("unsaved", {Id(r)}, TRUE)
    /\ UNCHANGED <<recordVars, keys, sshdVars, agent, proven>>

\* Looking again, with the credential the job began with.
Recheck(r) ==
    /\ pc[r] = "recheck"
    /\ IF Accepts(job[r].cred)
          THEN ReadAgain(r, rec[Id(r)], "over")
          ELSE Goto(r, "over") /\ UNCHANGED <<recordVars, keys, sshdVars, agent, proven, mishaps>>

(***************************************************************************)
(* The rest of the world                                                   *)
(***************************************************************************)

\* The operator runs the command that authorizes the panel's key.
Authorize(id) ==
    /\ rec[id] # None /\ rec[id].pub \notin keys \union {None}
    /\ keys' = keys \union {rec[id].pub}
    /\ UNCHANGED <<recordVars, job, pc, sshdVars, agent, proven, mishaps>>

SshdRestarts ==
    /\ live # conf
    /\ live' = conf
    /\ UNCHANGED <<recordVars, job, pc, keys, conf, agent, proven, mishaps>>

\* The panel dies, and every job with it.
PanelStops ==
    /\ MayFail
    /\ \E r \in Reqs : AtWork(r)
    /\ Note("cut short", {Id(r) : r \in {q \in Reqs : AtWork(q)}}, TRUE)
    /\ pc' = [r \in Reqs |-> IF AtWork(r) THEN "over" ELSE pc[r]]
    /\ job' = [r \in Reqs |-> None]
    /\ UNCHANGED <<recordVars, keys, sshdVars, agent, proven>>

-----------------------------------------------------------------------------

Arrives(r) ==
    \/ ListInstances(r) \/ ListInstancesFails(r)
    \/ \E id \in Ids :
          \/ UpdateInstance(r, id) \/ RotateToken(r, id) \/ AgentConnects(r, id) \/ TestInstance(r, id) \/ DeleteInstance(r, id)
          \/ InstallRequested(r, id) \/ DetectRequested(r, id) \/ ApplyRequested(r, id)

Install(r) == InstallAgent(r) \/ InstallRefused(r) \/ InstallFails(r) \/ MarkOffline(r)

Apply(r) ==
    \/ TakeSlot(r) \/ InstallKeys(r)
    \/ SshdAsWanted(r) \/ ReloadSSHD(r) \/ WriteFails(r) \/ RollbackConfig(r) \/ ReloadFails(r)
    \/ Extras(r) \/ ExtrasFail(r) \/ Persist(r) \/ PersistFails(r) \/ Recheck(r)

Next ==
    \/ \E r \in Reqs : Arrives(r) \/ SaveInstance(r) \/ Install(r) \/ Apply(r)
                          \/ DetectSecurity(r) \/ PersistSecurityState(r)
    \/ \E id \in Ids : Authorize(id)
    \/ SshdRestarts
    \/ PanelStops

Symmetry == Permutations(Reqs) \union Permutations(Names) \union Permutations(Addresses)

Spec == Init /\ [][Next]_vars

(***************************************************************************)
(* Properties                                                              *)
(***************************************************************************)

Caused(causes, id) == \E c \in causes : Happened(c, id)

\* Two records share a name or an address only if they were created at the same
\* time or while the list could not be read, one was edited, or one came back
\* after its deletion: registering the same host and port twice "creates two
\* records fighting over a single agent container".
TwinsHaveCause ==
    \A i, k \in Ids :
        i # k /\ rec[i] # None /\ rec[k] # None /\ Twins(rec[i], rec[k])
            => \E twin \in {i, k} : Caused({"created at once", "unlisted", "edited", "at once"}, twin)

\* A rotated token stays rotated and a deleted record deleted, whatever is
\* written back later, unless another write fell between a read and a save.
TokenHasCause ==
    \A id \in Ids :
        (IF rec[id] = None THEN None ELSE rec[id].token) # expected[id] => Happened("at once", id)

\* The panel keeps a credential that the server takes, once it had one, unless
\* root was shut out on request, or through one of the known gaps.
LoginHasCause ==
    \A id \in proven :
        rec[id] # None /\ "root" \notin live /\ ~Accepts(ResolveCreds(rec[id])) /\ ~(\E r \in Reqs : Running(r) /\ Id(r) = id)
            => Caused({"at once", "untested", "cut short", "half applied", "unsaved", "half written",
                       "not reloaded", "elsewhere"}, id)

\* The server of a record that says "hardened" refuses passwords.
HardenedHasCause ==
    \A id \in Ids :
        rec[id] # None /\ rec[id].hardened /\ "password" \notin live
            => Caused({"half written", "not reloaded", "rolled back", "elsewhere", "enabled again"}, id)
=============================================================================
