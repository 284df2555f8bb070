---------------------------- MODULE Credentials ----------------------------
(***************************************************************************)
(* What the panel knows its users by and what it keeps encrypted: tokens   *)
(* (auth/jwt.go, auth/handler.go, server/middleware.go), the secret file   *)
(* (auth/secret.go), registry credentials (registry/registry.go), the      *)
(* agent tokens and SSH keys of the instances, the command that rotates    *)
(* the secret, backups and their restoration (main.go, db/backup.go).      *)
(*                                                                         *)
(* The database is locked by the process that has it open: rotate-secrets, *)
(* reset-password and backup only run while the server is stopped.  restore*)
(* renames a file over it and runs at any time.  A secret is its number,   *)
(* and so is the key derived from it.                                      *)
(***************************************************************************)
EXTENDS Naturals, FiniteSets

CONSTANTS
    Logins,      \* logins that may be under way at once
    Calls,       \* updates and tests of the registry credential, likewise
    MaxVersion,  \* bound: the changes of the user's password, role or session
    MaxIssued,   \* bound: the login tokens ever issued
    MaxTokens,   \* bound: the tokens ever given to the registry credential
    MaxSecret,   \* bound: the secrets ever written
    None         \* no credential, no backup, no call

ASSUME CredentialsAssumption ==
    /\ MaxVersion \in Nat /\ MaxTokens \in Nat /\ MaxIssued \in Nat /\ MaxSecret \in Nat \ {0}
    /\ None \notin Nat

VARIABLES
    proc,    \* the process that has the database open: none, the server, a server
             \* whose file another one was renamed over, or rotate-secrets
    secret,  \* the secret file: what a process loads at its start, and only
             \* rotate-secrets changes
    live,    \* the database as that process sees it
    disk,    \* the database file
    backup,  \* the last backup
    login,   \* the user as each login has read it
    tokens,  \* the tokens issued
    call,    \* what each update or test has read, and is about to write
    rot,     \* rotate-secrets: the key it decrypts with, and its place
    acked,   \* the token of the last change of the credential answered with success
    last,    \* counters: tokens given to the credential
    past     \* whether a rotation was interrupted, a rotation has completed, a
             \* backup was restored, two changes of the credential overlapped

vars == <<proc, secret, live, disk, backup, login, tokens, call, rot, acked, last, past>>

Roles == {"admin", "viewer"}

Secrets == 1..MaxSecret

User == [ver : 0..MaxVersion, role : Roles, pw : 0..MaxVersion]

\* A registry credential; what an instance keeps encrypted is its key only.
Credential == [tok : 0..MaxTokens, key : Secrets]

Database == [user : User, reg : Credential \union {None}, agent : Secrets, ssh : Secrets]

\* What a call holds: a credential it has created, or the record it is to write.
Call == [kind : {"created", "claim", "update", "test"}, reg : Credential]

ASSUME NoneAssumption == None \notin User \union Database \union Credential \union Call

Init ==
    /\ proc = "off" /\ secret = 1
    /\ live = [user |-> [ver |-> 0, role |-> "admin", pw |-> 0], reg |-> None,
               agent |-> 1, ssh |-> 1]
    /\ disk = live
    /\ backup = None
    /\ login = [l \in Logins |-> None]
    /\ tokens = {}
    /\ call = [c \in Calls |-> None]
    /\ rot = [pc |-> "idle", old |-> 1]
    /\ acked = None
    /\ last = 0
    /\ past = [cut |-> FALSE, rotated |-> FALSE, restored |-> FALSE, overlapped |-> FALSE]

Serving == proc \in {"server", "detached"}

\* A transaction of the process that has the database open.  A file renamed over
\* the database since then is not the one it writes.
Commit(d) ==
    /\ live' = d
    /\ disk' = IF proc = "detached" THEN disk ELSE d

-----------------------------------------------------------------------------
(* The server's process *)

\* runServer: it loads the secret and opens the database.
StartServer ==
    /\ proc = "off"
    /\ proc' = "server" /\ live' = disk
    /\ UNCHANGED <<secret, disk, backup, login, tokens, call, rot, acked, last, past>>

\* It stops or dies: logins and calls end unanswered, the next process reads
\* the file as it is.
StopServer ==
    /\ Serving
    /\ proc' = "off" /\ live' = disk
    /\ login' = [l \in Logins |-> None]
    /\ call' = [c \in Calls |-> None]
    /\ UNCHANGED <<secret, disk, backup, tokens, rot, acked, last, past>>

-----------------------------------------------------------------------------
(* Users and tokens *)

\* HandleLogin reads the user before bcrypt compares the password, which takes
\* long; only a login with the right password goes on.
LoginReads(l) ==
    /\ Serving /\ login[l] = None
    /\ login' = [login EXCEPT ![l] = live.user]
    /\ UNCHANGED <<proc, secret, live, disk, backup, tokens, call, rot, acked, last, past>>

\* GenerateJWT: the token carries the role and the version that were read.
LoginMints(l) ==
    /\ Serving /\ login[l] # None
    /\ Cardinality(tokens) < MaxIssued
    /\ tokens' = tokens \union {[user |-> login[l], key |-> secret]}
    /\ login' = [login EXCEPT ![l] = None]
    /\ UNCHANGED <<proc, secret, live, disk, backup, call, rot, acked, last, past>>

\* ValidateJWTWithVersionCheck: signed with the process's secret, and of the
\* user's version.
Accepted(t) == t.key = secret /\ t.user.ver = live.user.ver

Bumped(u) == [u EXCEPT !.ver = @ + 1]

SetUser(u) == Commit([live EXCEPT !.user = u])

UserUnchanged == UNCHANGED <<proc, secret, backup, login, tokens, call, rot, acked, last, past>>

\* A request of the user: its token was accepted when it came in, and may have
\* been revoked by the time its transaction runs.
Requested == Serving /\ tokens # {} /\ live.user.ver < MaxVersion

\* The user logs out, sets or changes a password, or the command resets it, or
\* an administrator changes the role: each bumps the version in its transaction.
Logout ==
    /\ Requested
    /\ SetUser(Bumped(live.user))
    /\ UserUnchanged

UpdatePasswordWithVersion == SetUser([Bumped(live.user) EXCEPT !.pw = live.user.ver + 1])

\* With the current password, compared before.
ChangePassword == Requested /\ UpdatePasswordWithVersion /\ UserUnchanged

\* Without it.
ResetPassword == Requested /\ UpdatePasswordWithVersion /\ UserUnchanged

ResetPasswordCommand ==
    /\ proc = "off" /\ live.user.ver < MaxVersion
    /\ UpdatePasswordWithVersion
    /\ UserUnchanged

\* Mutant: the role is changed without the version.
UpdateRoleOnly ==
    /\ Serving /\ live.user.ver < MaxVersion
    /\ \E r \in Roles : SetUser([live.user EXCEPT !.role = r])
    /\ UserUnchanged

UpdateUserRole ==
    /\ Serving /\ live.user.ver < MaxVersion
    /\ \E r \in Roles \ {live.user.role} : SetUser([Bumped(live.user) EXCEPT !.role = r])
    /\ UserUnchanged

-----------------------------------------------------------------------------
(* The registry credential *)

\* What a later call has done meanwhile is overwritten.
Overlaps(c) == \E d \in Calls \ {c} : call[d] # None

Busy == \E c \in Calls : call[c] # None

\* With the key of the process.
Encrypt(tok) == [tok |-> tok, key |-> secret]

Decrypts(key, cred) == cred.key = key

\* Create: the token is encrypted and stored, in the record of the same domain
\* if there is one.
Create ==
    /\ Serving /\ last < MaxTokens
    /\ last' = last + 1 /\ acked' = last'
    /\ Commit([live EXCEPT !.reg = Encrypt(last')])

CreateCredential ==
    /\ Create
    /\ past' = [past EXCEPT !.overlapped = @ \/ Busy]
    /\ UNCHANGED <<proc, secret, backup, login, tokens, call, rot>>

\* The same for one instance: what was created is then read and written back
\* with the instance's id.
InstanceCreate(c) ==
    /\ call[c] = None
    /\ Create
    /\ call' = [call EXCEPT ![c] = [kind |-> "created", reg |-> Encrypt(last')]]
    /\ past' = [past EXCEPT !.overlapped = @ \/ Overlaps(c)]
    /\ UNCHANGED <<proc, secret, backup, login, tokens, rot>>

\* It is gone if another call has deleted it.
ClaimReads(c) ==
    /\ Serving /\ call[c] # None /\ call[c].kind = "created"
    /\ call' = [call EXCEPT ![c] = IF live.reg = None THEN None
                                   ELSE [kind |-> "claim", reg |-> live.reg]]
    /\ UNCHANGED <<proc, secret, live, disk, backup, login, tokens, rot, acked, last, past>>

\* Update reads the record and writes it back whole with a new token.
UpdateReads(c) ==
    /\ Serving /\ call[c] = None /\ last < MaxTokens
    /\ live.reg # None
    /\ last' = last + 1
    /\ call' = [call EXCEPT ![c] = [kind |-> "update", reg |-> Encrypt(last')]]
    /\ past' = [past EXCEPT !.overlapped = @ \/ Overlaps(c)]
    /\ UNCHANGED <<proc, secret, live, disk, backup, login, tokens, rot, acked>>

\* TestConnection reads the record, asks the registry for up to 30 seconds, and
\* writes the record back whole if it was accepted.
TestReads(c) ==
    /\ Serving /\ call[c] = None
    /\ live.reg # None /\ Decrypts(secret, live.reg)
    /\ call' = [call EXCEPT ![c] = [kind |-> "test", reg |-> live.reg]]
    /\ past' = [past EXCEPT !.overlapped = @ \/ Overlaps(c)]
    /\ UNCHANGED <<proc, secret, live, disk, backup, login, tokens, rot, acked, last>>

\* Mutant: a test stores its record without the token it was read with.
CallWritesBlank(c) ==
    /\ Serving /\ call[c] # None /\ call[c].kind # "created"
    /\ Commit([live EXCEPT !.reg = IF call[c].kind = "test" THEN [call[c].reg EXCEPT !.tok = 0]
                                   ELSE call[c].reg])
    /\ acked' = IF call[c].kind = "update" THEN call[c].reg.tok ELSE acked
    /\ call' = [call EXCEPT ![c] = None]
    /\ UNCHANGED <<proc, secret, backup, login, tokens, rot, last, past>>

CallWrites(c) ==
    /\ Serving /\ call[c] # None /\ call[c].kind # "created"
    /\ Commit([live EXCEPT !.reg = call[c].reg])
    /\ acked' = IF call[c].kind = "update" THEN call[c].reg.tok ELSE acked
    /\ call' = [call EXCEPT ![c] = None]
    /\ UNCHANGED <<proc, secret, backup, login, tokens, rot, last, past>>

\* The registry rejected the credential, or did not answer.
TestFails(c) ==
    /\ Serving /\ call[c] # None /\ call[c].kind = "test"
    /\ call' = [call EXCEPT ![c] = None]
    /\ UNCHANGED <<proc, secret, live, disk, backup, login, tokens, rot, acked, last, past>>

DeleteCredential ==
    /\ Serving /\ live.reg # None
    /\ Commit([live EXCEPT !.reg = None])
    /\ acked' = None
    /\ past' = [past EXCEPT !.overlapped = @ \/ Busy]
    /\ UNCHANGED <<proc, secret, backup, login, tokens, call, rot, last>>

SecretsUnchanged == UNCHANGED <<proc, secret, backup, login, tokens, call, rot, acked, last, past>>

\* An instance is provisioned, with an agent token and a key of the panel's; its
\* token is rotated; its SSH secret is stored by an installation or a hardening:
\* all encrypted with the process's key.
ProvisionInstance ==
    /\ Serving
    /\ Commit([live EXCEPT !.agent = secret, !.ssh = secret])
    /\ SecretsUnchanged

RotateToken ==
    /\ Serving
    /\ Commit([live EXCEPT !.agent = secret])
    /\ SecretsUnchanged

SaveSSHSecret ==
    /\ Serving
    /\ Commit([live EXCEPT !.ssh = secret])
    /\ SecretsUnchanged

-----------------------------------------------------------------------------
(* Backups *)

\* A snapshot of the database the process has open.
BackupTo == backup' = live

BackupUnchanged == UNCHANGED <<proc, secret, live, disk, login, tokens, call, rot, acked, last, past>>

\* By a request, by the scheduler, by the command.
TriggerBackup == Serving /\ BackupTo /\ BackupUnchanged

PerformBackup == Serving /\ BackupTo /\ BackupUnchanged

BackupCommand == proc = "off" /\ BackupTo /\ BackupUnchanged

\* The scheduler removes a backup that is too old.
CleanupOldBackups ==
    /\ Serving /\ backup # None
    /\ backup' = None
    /\ BackupUnchanged

\* restore renames a copy over the file.  A server that runs keeps the old one.
\* The bound: it happens once.
Restore ==
    /\ proc # "rotate" /\ backup # None /\ ~past.restored
    /\ disk' = backup
    /\ IF Serving THEN proc' = "detached" /\ UNCHANGED live
                  ELSE live' = backup /\ UNCHANGED proc
    /\ acked' = IF backup.reg = None THEN None ELSE backup.reg.tok
    /\ past' = [past EXCEPT !.restored = TRUE]
    /\ UNCHANGED <<secret, backup, login, tokens, call, rot, last>>

-----------------------------------------------------------------------------
(* rotate-secrets *)

RotUnchanged == UNCHANGED <<login, tokens, call, acked, last>>

\* It opens the database and takes a backup.
RotateBegins ==
    /\ proc = "off" /\ secret < MaxSecret
    /\ proc' = "rotate"
    /\ BackupTo
    /\ rot' = [pc |-> "secret", old |-> secret]
    /\ UNCHANGED <<secret, live, disk, past>> /\ RotUnchanged

\* The new secret replaces the file before anything is encrypted with it.
RotateWritesSecret ==
    /\ rot.pc = "secret"
    /\ secret' = secret + 1
    /\ rot' = [rot EXCEPT !.pc = "registries"]
    /\ UNCHANGED <<proc, live, disk, backup, past>> /\ RotUnchanged

\* Decrypting with another key fails, which ends the command.
RotateRegistries ==
    /\ rot.pc = "registries"
    /\ live.reg # None => Decrypts(rot.old, live.reg)
    /\ Commit(IF live.reg = None THEN live ELSE [live EXCEPT !.reg.key = secret])
    /\ rot' = [rot EXCEPT !.pc = "instances"]
    /\ UNCHANGED <<proc, secret, backup, past>> /\ RotUnchanged

\* Mutant: the instances' tokens are forgotten.
RotateInstancesSkips ==
    /\ rot.pc = "instances"
    /\ rot' = [rot EXCEPT !.pc = "versions"]
    /\ UNCHANGED <<proc, secret, live, disk, backup, past>> /\ RotUnchanged

\* The agent tokens: what else an instance keeps encrypted, its SSH password and
\* key, is not touched.
RotateInstances ==
    /\ rot.pc = "instances"
    /\ live.agent = rot.old
    /\ Commit([live EXCEPT !.agent = secret])
    /\ rot' = [rot EXCEPT !.pc = "versions"]
    /\ UNCHANGED <<proc, secret, backup, past>> /\ RotUnchanged

\* IncrementAllTokenVersions, and the command is done.
RotateVersions ==
    /\ rot.pc = "versions"
    /\ live.user.ver < MaxVersion
    /\ SetUser(Bumped(live.user))
    /\ proc' = "off"
    /\ rot' = [pc |-> "idle", old |-> 1]
    /\ past' = [past EXCEPT !.rotated = TRUE]
    /\ UNCHANGED <<secret, backup>> /\ RotUnchanged

\* log.Fatal at any of its steps, or a crash.
RotateDies ==
    /\ proc = "rotate"
    /\ proc' = "off"
    /\ rot' = [pc |-> "idle", old |-> 1]
    /\ past' = [past EXCEPT !.cut = @ \/ secret # rot.old]
    /\ UNCHANGED <<secret, live, disk, backup>> /\ RotUnchanged

-----------------------------------------------------------------------------
Next ==
    \/ StartServer \/ StopServer
    \/ \E l \in Logins : LoginReads(l) \/ LoginMints(l)
    \/ Logout \/ ChangePassword \/ ResetPassword \/ ResetPasswordCommand \/ UpdateUserRole
    \/ CreateCredential \/ DeleteCredential
    \/ ProvisionInstance \/ RotateToken \/ SaveSSHSecret
    \/ \E c \in Calls : InstanceCreate(c) \/ ClaimReads(c) \/ UpdateReads(c) \/ TestReads(c)
                        \/ CallWrites(c) \/ TestFails(c)
    \/ TriggerBackup \/ PerformBackup \/ BackupCommand \/ CleanupOldBackups \/ Restore
    \/ RotateBegins \/ RotateWritesSecret \/ RotateRegistries \/ RotateInstances
    \/ RotateVersions \/ RotateDies

Spec == Init /\ [][Next]_vars

-----------------------------------------------------------------------------
(* Properties *)

\* The variables have their types.
TypeOK ==
    /\ proc \in {"off", "server", "detached", "rotate"}
    /\ secret \in Secrets
    /\ live \in Database /\ disk \in Database
    /\ backup \in Database \union {None}
    /\ login \in [Logins -> User \union {None}]
    /\ tokens \subseteq [user : User, key : Secrets]
    /\ call \in [Calls -> Call \union {None}]
    /\ rot \in [pc : {"idle", "secret", "registries", "instances", "versions"}, old : Secrets]
    /\ acked \in 0..MaxTokens \union {None}
    /\ last \in 0..MaxTokens
    /\ past \in [cut : BOOLEAN, rotated : BOOLEAN, restored : BOOLEAN, overlapped : BOOLEAN]

\* auth/jwt.go:56, the privilege invariant: a token that is accepted carries the
\* role its user has now and was obtained with the password the user has now,
\* however long the login took, as long as no backup was restored (the versions
\* would start again from the backup's).
AcceptedIsCurrent ==
    (Serving /\ ~past.restored) =>
        \A t \in tokens : Accepted(t) => t.user.role = live.user.role /\ t.user.pw = live.user.pw

\* Outside a rotation, what the database holds encrypted can be decrypted with
\* the secret on disk, unless a rotation was interrupted after it wrote its
\* secret, or a backup was restored and secrets were rotated; the SSH secrets
\* are also unreadable after a rotation.
UnreadableHasCause ==
    (proc # "rotate" /\ ~past.cut /\ ~(past.restored /\ past.rotated)) =>
        /\ live.reg # None => Decrypts(secret, live.reg)
        /\ live.agent = secret
        /\ past.rotated \/ live.ssh = secret

\* While no call is under way, the stored credential is the last one a caller
\* was told of, unless two calls have overlapped or a backup was restored.
LostUpdateHasCause ==
    (Serving /\ ~Busy /\ ~past.overlapped /\ ~past.restored) =>
        IF acked = None THEN live.reg = None ELSE live.reg # None /\ live.reg.tok = acked
=============================================================================
