------------------------- MODULE CredentialsProofs -------------------------
(***************************************************************************)
(* For any number of logins, calls, versions and secrets: a token that is  *)
(* accepted carries the privileges its user has, what the database holds   *)
(* encrypted is readable, and no update of the credential is lost, but for *)
(* the reasons the model names.                                            *)
(***************************************************************************)
EXTENDS Credentials, TLAPS

\* The database while it is not detached is the file, and there are logins and
\* calls under a server only; a rotation that has written its secret has another
\* than the one it decrypts with.
ProcInv ==
    /\ proc # "detached" => disk = live
    /\ proc = "detached" => past.restored = TRUE
    /\ proc = "rotate" <=> rot.pc # "idle"
    /\ rot.pc = "secret" => rot.old = secret /\ secret < MaxSecret
    /\ rot.pc \in {"registries", "instances", "versions"} => rot.old # secret
    /\ ~Serving => /\ \A l \in Logins : login[l] = None
                   /\ \A c \in Calls : call[c] = None

PastType == past \in [cut : BOOLEAN, rotated : BOOLEAN, restored : BOOLEAN, overlapped : BOOLEAN]

\* One reason less to explain a state.
PastGrows ==
    /\ past.cut = TRUE => past'.cut = TRUE
    /\ past.rotated = TRUE => past'.rotated = TRUE
    /\ past.restored = TRUE => past'.restored = TRUE
    /\ past.overlapped = TRUE => past'.overlapped = TRUE

-----------------------------------------------------------------------------
(* Types *)

LEMMA CommitEffect ==
    ASSUME TypeOK, ProcInv, NEW d \in Database, Commit(d)
    PROVE  live' = d /\ disk' \in Database /\ disk' \in {disk, d} /\ (proc # "detached" => disk' = d)
BY DEF Commit, TypeOK

LEMMA SetUserEffect ==
    ASSUME TypeOK, ProcInv, NEW u \in User, SetUser(u)
    PROVE  /\ live' \in Database /\ disk' \in Database /\ disk' \in {disk, live'} /\ (proc # "detached" => disk' = live')
           /\ live'.user = u /\ live'.reg = live.reg
           /\ live'.agent = live.agent /\ live'.ssh = live.ssh
<1>1. [live EXCEPT !.user = u] \in Database /\ live \in Database
  BY DEF TypeOK, Database
<1>2. live' = [live EXCEPT !.user = u] /\ disk' \in Database /\ disk' \in {disk, live'} /\ (proc # "detached" => disk' = live')
  BY <1>1, CommitEffect DEF SetUser
<1> QED
  BY <1>1, <1>2 DEF Database

LEMMA SetRegEffect ==
    ASSUME TypeOK, ProcInv, NEW x \in Credential \union {None}, Commit([live EXCEPT !.reg = x])
    PROVE  /\ live' \in Database /\ disk' \in Database /\ disk' \in {disk, live'} /\ (proc # "detached" => disk' = live')
           /\ live'.reg = x /\ live'.user = live.user
           /\ live'.agent = live.agent /\ live'.ssh = live.ssh
<1>1. [live EXCEPT !.reg = x] \in Database /\ live \in Database
  BY DEF TypeOK, Database
<1>2. live' = [live EXCEPT !.reg = x] /\ disk' \in Database /\ disk' \in {disk, live'} /\ (proc # "detached" => disk' = live')
  BY <1>1, CommitEffect
<1> QED
  BY <1>1, <1>2 DEF Database

\* A change of the user is one of its version.
UserStep ==
    \/ Logout \/ ChangePassword \/ ResetPassword \/ ResetPasswordCommand \/ UpdateUserRole

LEMMA UserEffect ==
    ASSUME TypeOK, ProcInv, UserStep
    PROVE  /\ live' \in Database /\ disk' \in Database /\ disk' \in {disk, live'} /\ (proc # "detached" => disk' = live')
           /\ live'.user.ver = live.user.ver + 1
           /\ live'.reg = live.reg /\ live'.agent = live.agent /\ live'.ssh = live.ssh
           /\ UserUnchanged
<1>1. live.user \in User /\ live.user.ver < MaxVersion /\ UserUnchanged
  BY DEF UserStep, Logout, ChangePassword, ResetPassword, ResetPasswordCommand, UpdateUserRole,
         Requested, TypeOK, Database
<1>2. PICK u \in User : SetUser(u) /\ u.ver = live.user.ver + 1
  <2>1. /\ Bumped(live.user) \in User
        /\ [Bumped(live.user) EXCEPT !.pw = live.user.ver + 1] \in User
        /\ \A r \in Roles : [Bumped(live.user) EXCEPT !.role = r] \in User
    <3>1. live.user.ver + 1 \in 0..MaxVersion
      BY <1>1, CredentialsAssumption DEF User
    <3>2. Bumped(live.user) \in User
      BY <1>1, <3>1 DEF Bumped, User
    <3> QED
      BY <3>1, <3>2 DEF User
  <2>2. /\ Bumped(live.user).ver = live.user.ver + 1
        /\ [Bumped(live.user) EXCEPT !.pw = live.user.ver + 1].ver = live.user.ver + 1
        /\ \A r \in Roles : [Bumped(live.user) EXCEPT !.role = r].ver = live.user.ver + 1
    BY <1>1 DEF Bumped, User
  <2> QED
    BY <2>1, <2>2 DEF UserStep, Logout, ChangePassword, ResetPassword, ResetPasswordCommand,
                      UpdateUserRole, UpdatePasswordWithVersion
<1> QED
  BY <1>1, <1>2, SetUserEffect

\* A step that leaves the counters of a call alone.
RestUnchanged == UNCHANGED <<proc, secret, backup, login, tokens, rot>>

\* The steps of the calls on the registry credential.
CallStep(c) ==
    InstanceCreate(c) \/ ClaimReads(c) \/ UpdateReads(c) \/ TestReads(c) \/ CallWrites(c) \/ TestFails(c)

SecretStep == ProvisionInstance \/ RotateToken \/ SaveSSHSecret

BackupStep == TriggerBackup \/ PerformBackup \/ BackupCommand \/ CleanupOldBackups

RotateStep ==
    \/ RotateBegins \/ RotateWritesSecret \/ RotateRegistries \/ RotateInstances
    \/ RotateVersions \/ RotateDies

LEMMA EncryptType ==
    ASSUME TypeOK, last < MaxTokens
    PROVE  Encrypt(last + 1) \in Credential /\ last + 1 \in 0..MaxTokens
BY CredentialsAssumption DEF TypeOK, Encrypt, Credential

\* A credential is created: it is the one the caller is told of.
LEMMA CreateEffect ==
    ASSUME TypeOK, ProcInv, Create
    PROVE  /\ live' \in Database /\ disk' \in Database /\ disk' \in {disk, live'} /\ (proc # "detached" => disk' = live')
           /\ live'.reg = Encrypt(last + 1) /\ Encrypt(last + 1) \in Credential
           /\ live'.user = live.user /\ live'.agent = live.agent /\ live'.ssh = live.ssh
           /\ acked' = last + 1 /\ last' = last + 1 /\ last' \in 0..MaxTokens /\ Serving
BY SetRegEffect, EncryptType DEF Create

LEMMA SecretEffect ==
    ASSUME TypeOK, ProcInv, SecretStep
    PROVE  /\ live' \in Database /\ disk' \in Database /\ disk' \in {disk, live'} /\ (proc # "detached" => disk' = live')
           /\ live'.reg = live.reg /\ live'.user = live.user
           /\ live'.agent \in {live.agent, secret} /\ live'.ssh \in {live.ssh, secret}
           /\ SecretsUnchanged
<1>1. live \in Database /\ secret \in Secrets /\ SecretsUnchanged
  BY DEF TypeOK, SecretStep, ProvisionInstance, RotateToken, SaveSSHSecret
<1>2. PICK a \in {live.agent, secret}, b \in {live.ssh, secret} :
        Commit([live EXCEPT !.agent = a, !.ssh = b])
  <2>1. /\ [live EXCEPT !.agent = secret] = [live EXCEPT !.agent = secret, !.ssh = live.ssh]
        /\ [live EXCEPT !.ssh = secret] = [live EXCEPT !.agent = live.agent, !.ssh = secret]
    BY <1>1 DEF Database
  <2> QED
    BY <2>1 DEF SecretStep, ProvisionInstance, RotateToken, SaveSSHSecret
<1>3. [live EXCEPT !.agent = a, !.ssh = b] \in Database
  BY <1>1 DEF Database
<1>4. /\ live' = [live EXCEPT !.agent = a, !.ssh = b]
      /\ disk' \in Database /\ disk' \in {disk, live'} /\ (proc # "detached" => disk' = live')
  BY <1>2, <1>3, CommitEffect
<1> QED
  BY <1>1, <1>3, <1>4 DEF Database

\* Where the server runs before and after, nothing else matters to ProcInv.
LEMMA ServingKept ==
    ASSUME ProcInv, Serving, UNCHANGED <<proc, rot, secret>>, PastGrows,
           proc # "detached" => disk' = live'
    PROVE  ProcInv'
BY DEF ProcInv, PastGrows, Serving

LEMMA Overlapping ==
    ASSUME TypeOK, NEW x \in BOOLEAN, past' = [past EXCEPT !.overlapped = @ \/ x]
    PROVE  /\ PastType' /\ PastGrows
           /\ past'.overlapped = TRUE <=> past.overlapped = TRUE \/ x
           /\ past'.cut = past.cut /\ past'.rotated = past.rotated
           /\ past'.restored = past.restored
BY DEF TypeOK, PastType, PastGrows

LEMMA SamePast == ASSUME TypeOK, UNCHANGED past PROVE PastType' /\ PastGrows
BY DEF TypeOK, PastType, PastGrows

LEMMA CallTypes ==
    ASSUME TypeOK, ProcInv, NEW c \in Calls, CallStep(c)
    PROVE  TypeOK' /\ ProcInv'
<1>1. /\ RestUnchanged /\ Serving
      /\ PastType' /\ PastGrows
  <2>1. RestUnchanged /\ Serving
    BY DEF CallStep, InstanceCreate, Create, ClaimReads, UpdateReads, TestReads, CallWrites,
           TestFails, RestUnchanged
  <2>2. UNCHANGED past \/ past' = [past EXCEPT !.overlapped = @ \/ Overlaps(c)]
    BY DEF CallStep, InstanceCreate, ClaimReads, UpdateReads, TestReads, CallWrites, TestFails
  <2>3. Overlaps(c) \in BOOLEAN
    BY DEF Overlaps
  <2> QED
    BY <2>1, <2>2, <2>3, Overlapping, SamePast
<1>2. live.reg \in Credential \union {None}
  BY DEF TypeOK, Database
<1>3. \A x \in Credential : \A k \in {"created", "claim", "update", "test"} :
        [kind |-> k, reg |-> x] \in Call
  BY DEF Call
<1>4. ASSUME call[c] # None PROVE call[c].reg \in Credential /\ call[c].reg.tok \in 0..MaxTokens
  BY <1>4 DEF TypeOK, Call, Credential
<1>5. CASE InstanceCreate(c)
  <2>1. Create /\ call' = [call EXCEPT ![c] = [kind |-> "created", reg |-> Encrypt(last')]]
    BY <1>5 DEF InstanceCreate
  <2>2. /\ live' \in Database /\ disk' \in Database /\ disk' \in {disk, live'} /\ (proc # "detached" => disk' = live')
        /\ acked' \in 0..MaxTokens /\ last' \in 0..MaxTokens /\ Encrypt(last') \in Credential
    BY <2>1, CreateEffect
  <2>3. call' \in [Calls -> Call \union {None}]
    BY <1>3, <2>1, <2>2 DEF TypeOK
  <2> QED
    BY <1>1, <2>2, <2>3, ServingKept DEF TypeOK, PastType, RestUnchanged
<1>6. CASE ClaimReads(c)
  <2>1. call' \in [Calls -> Call \union {None}]
    BY <1>2, <1>3, <1>6 DEF ClaimReads, TypeOK
  <2>2. UNCHANGED <<live, disk, acked, last>>
    BY <1>6 DEF ClaimReads
  <2>3. proc # "detached" => disk' = live'
    BY <2>2 DEF ProcInv
  <2> QED
    BY <1>1, <2>1, <2>2, <2>3, ServingKept DEF TypeOK, PastType, RestUnchanged
<1>7. CASE UpdateReads(c)
  <2>1. /\ UNCHANGED <<live, disk, acked>> /\ last' = last + 1 /\ last < MaxTokens
        /\ call' = [call EXCEPT ![c] = [kind |-> "update", reg |-> Encrypt(last')]]
    BY <1>7 DEF UpdateReads
  <2>2. Encrypt(last') \in Credential /\ last' \in 0..MaxTokens
    BY <2>1, EncryptType
  <2>3. call' \in [Calls -> Call \union {None}]
    BY <1>3, <2>1, <2>2 DEF TypeOK
  <2>4. proc # "detached" => disk' = live'
    BY <2>1 DEF ProcInv
  <2> QED
    BY <1>1, <2>1, <2>2, <2>3, <2>4, ServingKept DEF TypeOK, PastType, RestUnchanged
<1>8. CASE TestReads(c)
  <2>1. call' \in [Calls -> Call \union {None}]
    BY <1>2, <1>3, <1>8 DEF TestReads, TypeOK
  <2>2. UNCHANGED <<live, disk, acked, last>>
    BY <1>8 DEF TestReads
  <2>3. proc # "detached" => disk' = live'
    BY <2>2 DEF ProcInv
  <2> QED
    BY <1>1, <2>1, <2>2, <2>3, ServingKept DEF TypeOK, PastType, RestUnchanged
<1>9. CASE CallWrites(c)
  <2>1. /\ call[c] # None /\ Commit([live EXCEPT !.reg = call[c].reg]) /\ last' = last
        /\ acked' \in {call[c].reg.tok, acked}
        /\ call' = [call EXCEPT ![c] = None]
    BY <1>9 DEF CallWrites
  <2>2. live' \in Database /\ disk' \in Database /\ disk' \in {disk, live'} /\ (proc # "detached" => disk' = live')
    BY <1>4, <2>1, SetRegEffect
  <2>3. call' \in [Calls -> Call \union {None}]
    BY <2>1 DEF TypeOK
  <2>4. acked' \in 0..MaxTokens \union {None}
    BY <1>4, <2>1 DEF TypeOK
  <2> QED
    BY <1>1, <2>1, <2>2, <2>3, <2>4, ServingKept DEF TypeOK, PastType, RestUnchanged
<1>10. CASE TestFails(c)
  <2>1. call' \in [Calls -> Call \union {None}] /\ UNCHANGED <<live, disk, acked, last>>
    BY <1>10 DEF TestFails, TypeOK
  <2>2. proc # "detached" => disk' = live'
    BY <2>1 DEF ProcInv
  <2> QED
    BY <1>1, <2>1, <2>2, ServingKept DEF TypeOK, PastType, RestUnchanged
<1> QED
  BY <1>5, <1>6, <1>7, <1>8, <1>9, <1>10 DEF CallStep

LEMMA UserTypes ==
    ASSUME TypeOK, ProcInv, UserStep
    PROVE  TypeOK' /\ ProcInv'
<1>1. /\ live' \in Database /\ disk' \in Database /\ disk' \in {disk, live'} /\ (proc # "detached" => disk' = live')
      /\ UserUnchanged
  BY UserEffect
<1>2. TypeOK'
  BY <1>1 DEF TypeOK, UserUnchanged
<1>3. ProcInv'
  BY <1>1 DEF ProcInv, Serving, UserUnchanged
<1> QED
  BY <1>2, <1>3

LEMMA SecretTypes ==
    ASSUME TypeOK, ProcInv, SecretStep
    PROVE  TypeOK' /\ ProcInv'
<1>1. /\ live' \in Database /\ disk' \in Database /\ disk' \in {disk, live'} /\ (proc # "detached" => disk' = live')
      /\ SecretsUnchanged
  BY SecretEffect
<1>2. TypeOK'
  BY <1>1 DEF TypeOK, SecretsUnchanged
<1>3. ProcInv'
  BY <1>1 DEF ProcInv, Serving, SecretsUnchanged
<1> QED
  BY <1>2, <1>3

LEMMA CredentialTypes ==
    ASSUME TypeOK, ProcInv, CreateCredential \/ DeleteCredential
    PROVE  TypeOK' /\ ProcInv'
<1>1. /\ RestUnchanged /\ UNCHANGED call /\ Serving
      /\ past' = [past EXCEPT !.overlapped = @ \/ Busy]
  BY DEF CreateCredential, Create, DeleteCredential, RestUnchanged
<1>2. PastType' /\ PastGrows
  BY <1>1, Overlapping DEF Busy
<1>3. /\ live' \in Database /\ disk' \in Database /\ disk' \in {disk, live'} /\ (proc # "detached" => disk' = live')
      /\ acked' \in 0..MaxTokens \union {None} /\ last' \in 0..MaxTokens
  <2>1. CASE CreateCredential
    BY <2>1, CreateEffect DEF CreateCredential
  <2>2. CASE DeleteCredential
    <3>1. Commit([live EXCEPT !.reg = None]) /\ acked' = None /\ last' = last
      BY <2>2 DEF DeleteCredential
    <3> QED
      BY <3>1, SetRegEffect DEF TypeOK
  <2> QED
    BY <2>1, <2>2
<1> QED
  BY <1>1, <1>2, <1>3, ServingKept DEF TypeOK, PastType, RestUnchanged

LEMMA BackupTypes ==
    ASSUME TypeOK, ProcInv, BackupStep
    PROVE  TypeOK' /\ ProcInv'
<1>1. BackupUnchanged /\ backup' \in Database \union {None}
  BY DEF BackupStep, TriggerBackup, PerformBackup, BackupCommand, CleanupOldBackups, BackupTo, TypeOK
<1>2. TypeOK'
  BY <1>1 DEF TypeOK, BackupUnchanged
<1>3. ProcInv'
  BY <1>1 DEF ProcInv, Serving, BackupUnchanged
<1> QED
  BY <1>2, <1>3

\* A login, the start and the end of the server.
ServerStep ==
    \/ StartServer \/ StopServer \/ \E l \in Logins : LoginReads(l) \/ LoginMints(l)

LEMMA ServerTypes ==
    ASSUME TypeOK, ProcInv, ServerStep
    PROVE  TypeOK' /\ ProcInv'
<1>1. CASE StartServer
  BY <1>1 DEF StartServer, TypeOK, ProcInv, Serving
<1>2. CASE StopServer
  BY <1>2 DEF StopServer, TypeOK, ProcInv, Serving
<1>3. ASSUME NEW l \in Logins, LoginReads(l)
      PROVE  TypeOK' /\ ProcInv'
  <2>1. live.user \in User
    BY DEF TypeOK, Database
  <2>2. TypeOK'
    BY <1>3, <2>1 DEF LoginReads, TypeOK
  <2> QED
    BY <1>3, <2>2 DEF LoginReads, ProcInv, Serving
<1>4. ASSUME NEW l \in Logins, LoginMints(l)
      PROVE  TypeOK' /\ ProcInv'
  <2>1. [user |-> login[l], key |-> secret] \in [user : User, key : Secrets]
    BY <1>4 DEF LoginMints, TypeOK
  <2>2. TypeOK'
    BY <1>4, <2>1 DEF LoginMints, TypeOK
  <2> QED
    BY <1>4, <2>2 DEF LoginMints, ProcInv, Serving
<1> QED
  BY <1>1, <1>2, <1>3, <1>4 DEF ServerStep

LEMMA RestoreTypes ==
    ASSUME TypeOK, ProcInv, Restore
    PROVE  TypeOK' /\ ProcInv' /\ past'.restored = TRUE
<1>1. /\ backup \in Database /\ disk' = backup /\ live' \in {live, backup}
      /\ proc' \in {proc, "detached"}
      /\ UNCHANGED <<secret, backup, login, tokens, call, rot, last>>
  BY DEF Restore, TypeOK
<1>2. backup.reg # None => backup.reg.tok \in 0..MaxTokens
  BY <1>1 DEF Database, Credential
<1>3. acked' \in 0..MaxTokens \union {None}
  BY <1>2 DEF Restore
<1>4. PastType' /\ past'.restored = TRUE
  BY DEF Restore, TypeOK, PastType
<1>5. TypeOK'
  BY <1>1, <1>3, <1>4 DEF TypeOK, PastType
<1>6. ProcInv'
  BY <1>1, <1>4 DEF Restore, ProcInv, Serving
<1> QED
  BY <1>4, <1>5, <1>6

\* The registry credential under its new key.
Recrypted == IF live.reg = None THEN live ELSE [live EXCEPT !.reg.key = secret]

LEMMA RecryptedEffect ==
    ASSUME TypeOK
    PROVE  /\ Recrypted \in Database /\ Recrypted.user = live.user
           /\ Recrypted.agent = live.agent /\ Recrypted.ssh = live.ssh
           /\ live.reg = None => Recrypted.reg = None
           /\ live.reg # None => /\ Recrypted.reg # None /\ Recrypted.reg.tok = live.reg.tok
                                 /\ Recrypted.reg.key = secret
<1>1. live \in Database /\ secret \in Secrets
  BY DEF TypeOK
<1>2. CASE live.reg = None
  BY <1>1, <1>2 DEF Recrypted
<1>3. CASE live.reg # None
  <2> DEFINE new == [live.reg EXCEPT !.key = secret]
  <2>1. live.reg \in Credential /\ new \in Credential
    BY <1>1, <1>3 DEF Database, Credential
  <2>2. new # None /\ new.tok = live.reg.tok /\ new.key = secret
    BY <2>1, NoneAssumption DEF Credential
  <2>3. Recrypted = [live EXCEPT !.reg = new]
    BY <1>1, <1>3 DEF Recrypted, Database
  <2> HIDE DEF new
  <2>4. [live EXCEPT !.reg = new] \in Database
    BY <1>1, <2>1 DEF Database
  <2> QED
    BY <1>1, <1>3, <2>2, <2>3, <2>4 DEF Database
<1> QED
  BY <1>2, <1>3

LEMMA RotateTypes ==
    ASSUME TypeOK, ProcInv, RotateStep
    PROVE  TypeOK' /\ ProcInv' /\ PastGrows
<1>1. ~Serving /\ UNCHANGED <<login, tokens, call, acked, last>>
  BY DEF RotateStep, RotateBegins, RotateWritesSecret, RotateRegistries, RotateInstances,
         RotateVersions, RotateDies, RotUnchanged, ProcInv, Serving
<1>2. PastType' /\ PastGrows
  <2>1. \/ UNCHANGED past
        \/ past' = [past EXCEPT !.rotated = TRUE]
        \/ past' = [past EXCEPT !.cut = @ \/ secret # rot.old]
    BY DEF RotateStep, RotateBegins, RotateWritesSecret, RotateRegistries, RotateInstances,
           RotateVersions, RotateDies
  <2> QED
    BY <2>1 DEF TypeOK, PastType, PastGrows
<1>3. disk = live
  BY <1>1 DEF ProcInv, Serving
<1>4. CASE RotateBegins
  BY <1>1, <1>2, <1>3, <1>4 DEF RotateBegins, BackupTo, TypeOK, PastType, ProcInv, Serving
<1>5. CASE RotateWritesSecret
  <2>1. /\ secret' = secret + 1 /\ secret < MaxSecret /\ rot.old = secret
        /\ proc = "rotate" /\ UNCHANGED <<proc, live, disk, backup, past>>
        /\ rot' = [rot EXCEPT !.pc = "registries"]
    BY <1>5 DEF RotateWritesSecret, ProcInv
  <2>2. secret' \in Secrets /\ rot.old # secret'
    BY <2>1, CredentialsAssumption DEF TypeOK, Secrets
  <2>3. rot'.pc = "registries" /\ rot'.old = rot.old
    BY <2>1 DEF TypeOK
  <2>4. TypeOK'
    BY <1>1, <1>2, <2>1, <2>2 DEF TypeOK, PastType
  <2> QED
    BY <1>1, <1>2, <1>3, <2>1, <2>2, <2>3, <2>4 DEF ProcInv, Serving
<1>6. CASE RotateRegistries
  <2>1. Commit(Recrypted) /\ rot.pc = "registries" /\ UNCHANGED <<proc, secret, backup, past>>
        /\ rot' = [rot EXCEPT !.pc = "instances"]
    BY <1>6 DEF RotateRegistries, Recrypted
  <2>2. live' = Recrypted /\ disk' = Recrypted /\ Recrypted \in Database
    BY <1>1, <2>1, CommitEffect, RecryptedEffect DEF Serving
  <2> QED
    BY <1>1, <1>2, <2>1, <2>2 DEF TypeOK, PastType, ProcInv, Serving
<1>7. CASE RotateInstances
  <2>1. Commit([live EXCEPT !.agent = secret]) /\ UNCHANGED <<proc, secret, backup, past>>
        /\ rot.pc = "instances" /\ rot' = [rot EXCEPT !.pc = "versions"]
    BY <1>7 DEF RotateInstances
  <2>2. [live EXCEPT !.agent = secret] \in Database
    BY DEF TypeOK, Database
  <2>3. live' \in Database /\ disk' = live'
    BY <1>1, <2>1, <2>2, CommitEffect DEF Serving
  <2> QED
    BY <1>1, <1>2, <2>1, <2>3 DEF TypeOK, PastType, ProcInv, Serving
<1>8. CASE RotateVersions
  <2>1. /\ SetUser(Bumped(live.user)) /\ live.user.ver < MaxVersion /\ UNCHANGED <<secret, backup>>
        /\ proc' = "off" /\ rot' = [pc |-> "idle", old |-> 1]
    BY <1>8 DEF RotateVersions
  <2>2. Bumped(live.user) \in User
    <3>1. live.user \in User /\ live.user.ver + 1 \in 0..MaxVersion
      BY <2>1, CredentialsAssumption DEF TypeOK, Database, User
    <3> QED
      BY <3>1 DEF Bumped, User
  <2>3. live' \in Database /\ disk' = live'
    BY <1>1, <2>1, <2>2, SetUserEffect DEF Serving
  <2>4. 1 \in Secrets
    BY CredentialsAssumption DEF Secrets
  <2> QED
    BY <1>1, <1>2, <2>1, <2>3, <2>4 DEF TypeOK, PastType, ProcInv, Serving
<1>9. CASE RotateDies
  <2>1. 1 \in Secrets
    BY CredentialsAssumption DEF Secrets
  <2> QED
    BY <1>1, <1>2, <1>3, <1>9, <2>1 DEF RotateDies, TypeOK, PastType, ProcInv, Serving
<1> QED
  BY <1>4, <1>5, <1>6, <1>7, <1>8, <1>9, <1>2 DEF RotateStep

-----------------------------------------------------------------------------
(* The steps together *)

LEMMA StepCases ==
    ASSUME [Next]_vars
    PROVE  \/ ServerStep \/ UserStep \/ CreateCredential \/ DeleteCredential \/ SecretStep
           \/ \E c \in Calls : CallStep(c)
           \/ BackupStep \/ Restore \/ RotateStep
           \/ UNCHANGED vars
BY DEF Next, ServerStep, UserStep, SecretStep, CallStep, BackupStep, RotateStep

LEMMA CredentialsStart == Init => TypeOK /\ ProcInv
<1> SUFFICES ASSUME Init PROVE TypeOK /\ ProcInv
  OBVIOUS
<1>1. 1 \in Secrets /\ 0 \in 0..MaxVersion /\ 0 \in 0..MaxTokens
  BY CredentialsAssumption DEF Secrets
<1>2. [ver |-> 0, role |-> "admin", pw |-> 0] \in User
  BY <1>1 DEF User, Roles
<1>3. live \in Database /\ disk \in Database
  BY <1>1, <1>2 DEF Init, Database
<1> QED
  BY <1>1, <1>3 DEF Init, TypeOK, ProcInv, Serving

LEMMA TypesStep == TypeOK /\ ProcInv /\ [Next]_vars => (TypeOK /\ ProcInv)'
<1> SUFFICES ASSUME TypeOK, ProcInv, [Next]_vars PROVE (TypeOK /\ ProcInv)'
  OBVIOUS
<1>1. CASE UNCHANGED vars
  BY <1>1 DEF vars, TypeOK, ProcInv, Serving
<1> QED
  BY <1>1, StepCases, ServerTypes, UserTypes, CredentialTypes, SecretTypes, CallTypes,
     BackupTypes, RestoreTypes, RotateTypes

LEMMA CredentialsBase == Spec => [](TypeOK /\ ProcInv)
BY CredentialsStart, TypesStep, PTL DEF Spec

\* The variables have their types, and no counter passes its bound.
THEOREM CredentialsTyping == Spec => []TypeOK
BY CredentialsBase, PTL

\* What a step of a call does to the database, and to what the calls hold.
LEMMA CallEffect ==
    ASSUME TypeOK, ProcInv, NEW c \in Calls, CallStep(c)
    PROVE  /\ RestUnchanged /\ Serving /\ disk' \in {disk, live'} /\ (proc # "detached" => disk' = live')
           /\ live'.user = live.user /\ live'.agent = live.agent /\ live'.ssh = live.ssh
           /\ past'.cut = past.cut /\ past'.rotated = past.rotated /\ past'.restored = past.restored
           /\ \/ live'.reg = live.reg \/ live'.reg = Encrypt(last + 1)
              \/ call[c] # None /\ live'.reg = call[c].reg
           /\ \A d \in Calls : d # c => call'[d] = call[d]
           /\ call'[c] # None => call'[c].reg \in {live.reg, Encrypt(last + 1)}
<1>1. /\ RestUnchanged /\ Serving
  BY DEF CallStep, InstanceCreate, Create, ClaimReads, UpdateReads, TestReads, CallWrites,
         TestFails, RestUnchanged
<1>2. past'.cut = past.cut /\ past'.rotated = past.rotated /\ past'.restored = past.restored
  BY DEF CallStep, InstanceCreate, ClaimReads, UpdateReads, TestReads, CallWrites, TestFails, TypeOK
<1>3. /\ live'.user = live.user /\ live'.agent = live.agent /\ live'.ssh = live.ssh
      /\ disk' \in {disk, live'} /\ (proc # "detached" => disk' = live')
      /\ \/ live'.reg = live.reg \/ live'.reg = Encrypt(last + 1)
         \/ call[c] # None /\ live'.reg = call[c].reg
  <2>1. CASE InstanceCreate(c)
    BY <2>1, CreateEffect DEF InstanceCreate
  <2>2. CASE CallWrites(c)
    <3>1. call[c] # None /\ Commit([live EXCEPT !.reg = call[c].reg])
      BY <2>2 DEF CallWrites
    <3>2. call[c].reg \in Credential
      BY <3>1 DEF TypeOK, Call
    <3> QED
      BY <3>1, <3>2, SetRegEffect
  <2>3. CASE UNCHANGED <<live, disk>>
    BY <2>3 DEF ProcInv
  <2> QED
    BY <2>1, <2>2, <2>3 DEF CallStep, ClaimReads, UpdateReads, TestReads, TestFails
<1>4. /\ \A d \in Calls : d # c => call'[d] = call[d]
      /\ call'[c] # None => call'[c].reg \in {live.reg, Encrypt(last + 1)}
  <2>1. CASE InstanceCreate(c)
    BY <2>1 DEF InstanceCreate, Create, TypeOK
  <2>2. CASE ClaimReads(c)
    BY <2>2 DEF ClaimReads, TypeOK
  <2>3. CASE UpdateReads(c)
    BY <2>3 DEF UpdateReads, TypeOK
  <2>4. CASE TestReads(c)
    BY <2>4 DEF TestReads, TypeOK
  <2>5. CASE CallWrites(c) \/ TestFails(c)
    BY <2>5 DEF CallWrites, TestFails, TypeOK
  <2> QED
    BY <2>1, <2>2, <2>3, <2>4, <2>5 DEF CallStep
<1> QED
  BY <1>1, <1>2, <1>3, <1>4

LEMMA PastStep ==
    ASSUME TypeOK, ProcInv, [Next]_vars
    PROVE  PastGrows
<1>1. ASSUME NEW c \in Calls, CallStep(c) PROVE PastGrows
  <2>1. UNCHANGED past \/ past' = [past EXCEPT !.overlapped = @ \/ Overlaps(c)]
    BY <1>1 DEF CallStep, InstanceCreate, ClaimReads, UpdateReads, TestReads, CallWrites, TestFails
  <2>2. Overlaps(c) \in BOOLEAN
    BY DEF Overlaps
  <2> QED
    BY <2>1, <2>2, Overlapping, SamePast
<1>2. CreateCredential \/ DeleteCredential => PastGrows
  BY Overlapping DEF CreateCredential, DeleteCredential, Busy
<1>3. Restore => PastGrows
  BY DEF Restore, TypeOK, PastGrows
<1>4. RotateStep => PastGrows
  BY RotateTypes
<1>5. UserStep \/ SecretStep \/ BackupStep \/ ServerStep \/ UNCHANGED vars => UNCHANGED past
  BY UserEffect, SecretEffect
     DEF ServerStep, StartServer, StopServer, LoginReads, LoginMints, UserUnchanged,
         SecretsUnchanged, BackupStep, TriggerBackup, PerformBackup, BackupCommand,
         CleanupOldBackups, BackupUnchanged, vars
<1> QED
  BY <1>1, <1>2, <1>3, <1>4, <1>5, SamePast, StepCases

-----------------------------------------------------------------------------
(* Tokens *)

\* What was read of the user is what the user is now, or carries a version that
\* never comes back.
Current(u, now) ==
    /\ u.ver <= now.ver
    /\ u.ver = now.ver => u.role = now.role /\ u.pw = now.pw

TokenInv ==
    \/ past.restored = TRUE
    \/ /\ \A t \in tokens : Current(t.user, live.user)
       /\ \A l \in Logins : login[l] # None => Current(login[l], live.user)

\* The user is the same, or has a version that nobody has read yet.
LEMMA UserMoves ==
    ASSUME TypeOK, ProcInv, past.restored # TRUE, [Next]_vars
    PROVE  \/ past'.restored = TRUE
           \/ live'.user = live.user
           \/ live'.user.ver = live.user.ver + 1 /\ UNCHANGED <<tokens, login>>
<1>1. CASE ServerStep
  BY <1>1 DEF ServerStep, StartServer, StopServer, LoginReads, LoginMints, ProcInv
<1>2. CASE UserStep
  BY <1>2, UserEffect DEF UserUnchanged
<1>3. CASE CreateCredential
  BY <1>3, CreateEffect DEF CreateCredential
<1>4. CASE DeleteCredential
  BY <1>4, SetRegEffect DEF DeleteCredential
<1>5. CASE SecretStep
  BY <1>5, SecretEffect
<1>6. ASSUME NEW c \in Calls, CallStep(c) PROVE live'.user = live.user
  BY <1>6, CallEffect
<1>7. CASE BackupStep
  BY <1>7 DEF BackupStep, TriggerBackup, PerformBackup, BackupCommand, CleanupOldBackups,
              BackupUnchanged
<1>8. CASE Restore
  BY <1>8, RestoreTypes
<1>9. CASE RotateBegins \/ RotateWritesSecret \/ RotateDies
  BY <1>9 DEF RotateBegins, RotateWritesSecret, RotateDies
<1>10. CASE RotateRegistries
  BY <1>10, RecryptedEffect, CommitEffect DEF RotateRegistries, Recrypted
<1>11. CASE RotateInstances
  BY <1>11, CommitEffect DEF RotateInstances, TypeOK, Database
<1>12. CASE RotateVersions
  <2>1. live.user \in User /\ live.user.ver + 1 \in 0..MaxVersion
    BY <1>12, CredentialsAssumption DEF RotateVersions, TypeOK, Database, User
  <2>2. Bumped(live.user) \in User /\ Bumped(live.user).ver = live.user.ver + 1
    BY <2>1 DEF Bumped, User
  <2> QED
    BY <1>12, <2>2, SetUserEffect DEF RotateVersions, RotUnchanged
<1>13. CASE UNCHANGED vars
  BY <1>13 DEF vars
<1> QED
  BY <1>1, <1>2, <1>3, <1>4, <1>5, <1>6, <1>7, <1>8, <1>9, <1>10, <1>11, <1>12, <1>13,
     StepCases DEF RotateStep

\* What is read and issued is read of the user, and issued from what was read.
LEMMA TokensGrow ==
    ASSUME TypeOK, ProcInv, [Next]_vars
    PROVE  /\ \A t \in tokens' : t \in tokens \/ \E l \in Logins : login[l] # None /\ t.user = login[l]
           /\ \A l \in Logins : login'[l] # None => login'[l] \in {login[l], live.user}
<1>1. CASE StartServer \/ StopServer
  BY <1>1 DEF StartServer, StopServer
<1>2. ASSUME NEW l \in Logins, LoginReads(l)
      PROVE  /\ tokens' = tokens
             /\ \A k \in Logins : login'[k] # None => login'[k] \in {login[k], live.user}
  BY <1>2 DEF LoginReads, TypeOK
<1>3. ASSUME NEW l \in Logins, LoginMints(l)
      PROVE  /\ \A t \in tokens' : t \in tokens \/ (login[l] # None /\ t.user = login[l])
             /\ \A k \in Logins : login'[k] # None => login'[k] = login[k]
  BY <1>3 DEF LoginMints, TypeOK
<1>4. CASE UNCHANGED <<tokens, login>>
  BY <1>4
<1>5. ASSUME NEW c \in Calls, CallStep(c) PROVE UNCHANGED <<tokens, login>>
  BY <1>5, CallEffect DEF RestUnchanged
<1>6. RotateStep \/ Restore => UNCHANGED <<tokens, login>>
  BY DEF RotateStep, RotateBegins, RotateWritesSecret, RotateRegistries, RotateInstances,
         RotateVersions, RotateDies, RotUnchanged, Restore
<1>7. BackupStep \/ CreateCredential \/ DeleteCredential => UNCHANGED <<tokens, login>>
  BY DEF BackupStep, TriggerBackup, PerformBackup, BackupCommand, CleanupOldBackups,
         BackupUnchanged, CreateCredential, DeleteCredential
<1>8. UserStep \/ SecretStep \/ UNCHANGED vars => UNCHANGED <<tokens, login>>
  BY UserEffect, SecretEffect DEF UserUnchanged, SecretsUnchanged, vars
<1>9. CASE ServerStep
  BY <1>1, <1>2, <1>3, <1>9 DEF ServerStep
<1> QED
  BY <1>4, <1>5, <1>6, <1>7, <1>8, <1>9, StepCases

LEMMA TokenStep == TypeOK /\ ProcInv /\ TokenInv /\ [Next]_vars => TokenInv'
<1> SUFFICES ASSUME TypeOK, ProcInv, TokenInv, [Next]_vars, past'.restored # TRUE PROVE TokenInv'
  BY DEF TokenInv
<1>1. past.restored # TRUE
  BY PastStep DEF PastGrows
<1>2. /\ \A t \in tokens : Current(t.user, live.user)
      /\ \A l \in Logins : login[l] # None => Current(login[l], live.user)
  BY <1>1 DEF TokenInv
<1>3. CASE live'.user.ver = live.user.ver + 1 /\ UNCHANGED <<tokens, login>>
  <2>1. live.user.ver \in Nat
    BY DEF TypeOK, Database, User
  <2>2. \A t \in tokens : t.user.ver \in Nat
    BY DEF TypeOK, User
  <2>3. \A l \in Logins : login[l] # None => login[l].ver \in Nat
    BY DEF TypeOK, User
  <2> QED
    BY <1>2, <1>3, <2>1, <2>2, <2>3 DEF TokenInv, Current
<1>4. CASE live'.user = live.user
  <2>1. \A t \in tokens' : t \in tokens \/ \E l \in Logins : login[l] # None /\ t.user = login[l]
    BY TokensGrow
  <2>2. \A l \in Logins : login'[l] # None => login'[l] \in {login[l], live.user}
    BY TokensGrow
  <2>3. Current(live.user, live.user)
    BY DEF Current, TypeOK, Database, User
  <2>4. \A t \in tokens' : Current(t.user, live.user)
    BY <1>2, <2>1
  <2>5. \A l \in Logins : login'[l] # None => Current(login'[l], live.user)
    <3> SUFFICES ASSUME NEW l \in Logins, login'[l] # None PROVE Current(login'[l], live.user)
      OBVIOUS
    <3>1. login'[l] = login[l] \/ login'[l] = live.user
      BY <2>2
    <3> QED
      BY <1>2, <2>3, <3>1
  <2> QED
    BY <1>4, <2>4, <2>5 DEF TokenInv
<1> QED
  BY <1>1, <1>3, <1>4, UserMoves

\* However long a login took, and whatever was changed meanwhile: a token that is
\* accepted carries the role its user has now and was obtained with the password
\* the user has now, as long as no backup was restored.
THEOREM TokensAreCurrent == Spec => []AcceptedIsCurrent
<1>1. Init => TokenInv
  BY DEF Init, TokenInv
<1>2. TypeOK /\ TokenInv => AcceptedIsCurrent
  BY DEF TypeOK, TokenInv, AcceptedIsCurrent, Accepted, Current
<1> QED
  BY <1>1, <1>2, TokenStep, CredentialsBase, PTL DEF Spec

-----------------------------------------------------------------------------
(* Secrets *)

\* With the secret k: the credential, and the agent token.
Readable(d, k) == (d.reg # None => d.reg.key = k) /\ d.agent = k

\* Nothing was rotated: all there is, wherever it is, was encrypted with the same
\* secret.
Untouched ==
    /\ live.ssh = secret /\ disk.ssh = secret
    /\ Readable(disk, secret)
    /\ backup # None => backup.ssh = secret /\ Readable(backup, secret)

\* Outside a rotation; in it, the tables that were rewritten are readable with the
\* new secret, the others with the old one.
KeyInv ==
    \/ past.cut = TRUE
    \/ past.restored = TRUE /\ past.rotated = TRUE
    \/ /\ rot.pc \in {"idle", "secret"}
       /\ Readable(live, secret)
       /\ \A c \in Calls : call[c] # None => call[c].reg.key = secret
       /\ past.rotated = TRUE \/ Untouched
    \/ rot.pc = "registries" /\ Readable(live, rot.old)
    \/ /\ rot.pc = "instances" /\ live.agent = rot.old
       /\ live.reg # None => live.reg.key = secret
    \/ rot.pc = "versions" /\ Readable(live, secret)

LEMMA KeyStep == TypeOK /\ ProcInv /\ KeyInv /\ [Next]_vars => KeyInv'
<1> SUFFICES ASSUME TypeOK, ProcInv, KeyInv, [Next]_vars,
                    past'.cut # TRUE, ~(past'.restored = TRUE /\ past'.rotated = TRUE)
             PROVE  KeyInv'
  BY DEF KeyInv
<1>1. past.cut # TRUE /\ ~(past.restored = TRUE /\ past.rotated = TRUE)
  BY PastStep DEF PastGrows
<1>2. ASSUME rot.pc \in {"idle", "secret"}
      PROVE  /\ Readable(live, secret)
             /\ \A c \in Calls : call[c] # None => call[c].reg.key = secret
             /\ past.rotated = TRUE \/ Untouched
  BY <1>1, <1>2 DEF KeyInv
<1>3. ASSUME Serving \/ proc = "off" PROVE rot.pc = "idle"
  BY <1>3 DEF ProcInv, Serving, TypeOK
<1>4. CASE ServerStep
  <2>1. /\ rot.pc = "idle" /\ UNCHANGED <<rot, secret, disk, backup, past>>
        /\ live' \in {live, disk} /\ (live' # live => proc = "detached" \/ disk = live)
        /\ \A c \in Calls : call'[c] # None => call'[c] = call[c]
    BY <1>3, <1>4 DEF ServerStep, StartServer, StopServer, LoginReads, LoginMints, ProcInv, Serving
  <2>2. proc = "detached" => past.rotated # TRUE
    BY <1>1 DEF ProcInv
  <2> QED
    BY <1>2, <2>1, <2>2 DEF KeyInv, Untouched
<1>5. CASE UserStep
  <2>1. /\ rot.pc = "idle" /\ UNCHANGED <<rot, secret, backup, past, call>>
        /\ live'.reg = live.reg /\ live'.agent = live.agent /\ live'.ssh = live.ssh
        /\ disk' \in {disk, live'}
    BY <1>3, <1>5, UserEffect
       DEF UserStep, Logout, ChangePassword, ResetPassword, ResetPasswordCommand,
           UpdateUserRole, Requested, UserUnchanged
  <2> QED
    BY <1>2, <2>1 DEF KeyInv, Untouched, Readable
<1>6. CASE CreateCredential
  <2>1. /\ rot.pc = "idle" /\ UNCHANGED <<rot, secret, backup, call>>
        /\ live'.reg = Encrypt(last + 1) /\ live'.agent = live.agent /\ live'.ssh = live.ssh
        /\ disk' \in {disk, live'} /\ past'.rotated = past.rotated
    BY <1>3, <1>6, CreateEffect DEF CreateCredential, TypeOK
  <2>2. Encrypt(last + 1).key = secret
    BY DEF Encrypt
  <2> QED
    BY <1>2, <2>1, <2>2 DEF KeyInv, Untouched, Readable
<1>7. CASE DeleteCredential
  <2>1. Commit([live EXCEPT !.reg = None]) /\ Serving
    BY <1>7 DEF DeleteCredential
  <2>2. /\ rot.pc = "idle" /\ UNCHANGED <<rot, secret, backup, call>>
        /\ live'.reg = None /\ live'.agent = live.agent /\ live'.ssh = live.ssh
        /\ disk' \in {disk, live'} /\ past'.rotated = past.rotated
    BY <1>3, <1>7, <2>1, SetRegEffect DEF DeleteCredential, TypeOK
  <2> QED
    BY <1>2, <2>2 DEF KeyInv, Untouched, Readable
<1>8. CASE SecretStep
  <2>1. Serving
    BY <1>8 DEF SecretStep, ProvisionInstance, RotateToken, SaveSSHSecret
  <2>2. /\ rot.pc = "idle" /\ UNCHANGED <<rot, secret, backup, call, past>>
        /\ live'.reg = live.reg /\ live'.agent \in {live.agent, secret}
        /\ live'.ssh \in {live.ssh, secret} /\ disk' \in {disk, live'}
    BY <1>3, <1>8, <2>1, SecretEffect DEF SecretsUnchanged
  <2> QED
    BY <1>2, <2>2 DEF KeyInv, Untouched, Readable
<1>9. ASSUME NEW c \in Calls, CallStep(c) PROVE KeyInv'
  <2>1. /\ Serving /\ UNCHANGED <<rot, secret, backup>> /\ past'.rotated = past.rotated
        /\ \/ live'.reg = live.reg \/ live'.reg = Encrypt(last + 1)
           \/ call[c] # None /\ live'.reg = call[c].reg
        /\ live'.agent = live.agent /\ live'.ssh = live.ssh /\ disk' \in {disk, live'}
        /\ \A d \in Calls : d # c => call'[d] = call[d]
        /\ call'[c] # None => call'[c].reg \in {live.reg, Encrypt(last + 1)}
    BY <1>9, CallEffect DEF RestUnchanged
  <2>2. rot.pc = "idle" /\ Encrypt(last + 1).key = secret
    BY <1>3, <2>1 DEF Encrypt
  <2>3. live'.reg # None => live'.reg.key = secret
    BY <1>2, <2>1, <2>2 DEF Readable
  <2>4. call'[c] # None => call'[c].reg # None
    <3>1. TypeOK'
      BY <1>9, CallTypes
    <3> QED
      BY <3>1, NoneAssumption DEF TypeOK, Call
  <2>5. \A d \in Calls : call'[d] # None => call'[d].reg.key = secret
    BY <1>2, <2>1, <2>2, <2>4 DEF Readable
  <2> QED
    BY <1>2, <2>1, <2>2, <2>3, <2>5 DEF KeyInv, Untouched, Readable
<1>10. CASE BackupStep
  <2>1. /\ rot.pc = "idle" /\ UNCHANGED <<rot, secret, live, disk, past, call>>
        /\ backup' \in {live, None}
    BY <1>3, <1>10 DEF BackupStep, TriggerBackup, PerformBackup, BackupCommand, CleanupOldBackups,
                       BackupTo, BackupUnchanged
  <2> QED
    BY <1>2, <2>1 DEF KeyInv, Untouched
<1>11. CASE Restore
  <2>1. /\ rot.pc = "idle" /\ UNCHANGED <<rot, secret, backup, call>>
        /\ disk' = backup /\ live' \in {live, backup} /\ backup # None
        /\ past'.rotated = past.rotated /\ past'.restored = TRUE
    BY <1>3, <1>11 DEF Restore, ProcInv, Serving, TypeOK
  <2> QED
    BY <1>2, <2>1 DEF KeyInv, Untouched
<1>12. CASE RotateBegins
  <2>1. /\ rot.pc = "idle" /\ rot'.pc = "secret" /\ UNCHANGED <<secret, live, disk, past, call>>
        /\ backup' = live
    BY <1>3, <1>12 DEF RotateBegins, BackupTo, RotUnchanged
  <2> QED
    BY <1>2, <2>1 DEF KeyInv, Untouched
<1>13. CASE RotateWritesSecret
  <2>1. /\ rot.pc = "secret" /\ rot.old = secret /\ live' = live
        /\ rot' = [rot EXCEPT !.pc = "registries"]
    BY <1>13 DEF RotateWritesSecret, ProcInv
  <2>2. rot'.pc = "registries" /\ rot'.old = rot.old
    BY <2>1 DEF TypeOK
  <2> QED
    BY <1>2, <2>1, <2>2 DEF KeyInv
<1>14. CASE RotateRegistries
  <2>1. /\ rot.pc = "registries" /\ secret' = secret /\ Commit(Recrypted)
        /\ rot' = [rot EXCEPT !.pc = "instances"]
    BY <1>14 DEF RotateRegistries, Recrypted
  <2>2. rot'.pc = "instances" /\ rot'.old = rot.old
    BY <2>1 DEF TypeOK
  <2>3. live' = Recrypted /\ live.agent = rot.old
    BY <1>1, <2>1, CommitEffect, RecryptedEffect DEF KeyInv, Readable
  <2> QED
    BY <2>1, <2>2, <2>3, RecryptedEffect DEF KeyInv
<1>15. CASE RotateInstances
  <2>1. /\ rot.pc = "instances" /\ secret' = secret /\ Commit([live EXCEPT !.agent = secret])
        /\ rot' = [rot EXCEPT !.pc = "versions"]
    BY <1>15 DEF RotateInstances
  <2>2. /\ rot'.pc = "versions"
        /\ live.reg # None => live.reg.key = secret
    BY <1>1, <2>1 DEF TypeOK, KeyInv
  <2>3. live \in Database /\ [live EXCEPT !.agent = secret] \in Database
    BY DEF TypeOK, Database
  <2>4. live' = [live EXCEPT !.agent = secret]
    BY <2>1, <2>3, CommitEffect
  <2>5. live'.agent = secret /\ live'.reg = live.reg
    BY <2>3, <2>4 DEF Database
  <2> QED
    BY <2>1, <2>2, <2>5 DEF KeyInv, Readable
<1>16. CASE RotateVersions
  <2>1. /\ rot.pc = "versions" /\ secret' = secret /\ rot'.pc = "idle"
        /\ past' = [past EXCEPT !.rotated = TRUE]
        /\ live.user.ver < MaxVersion /\ SetUser(Bumped(live.user)) /\ call' = call
    BY <1>16 DEF RotateVersions, RotUnchanged
  <2>2. Readable(live, secret)
    BY <1>1, <2>1 DEF KeyInv
  <2>3. Bumped(live.user) \in User
    <3>1. live.user \in User /\ live.user.ver + 1 \in 0..MaxVersion
      BY <2>1, CredentialsAssumption DEF TypeOK, Database, User
    <3> QED
      BY <3>1 DEF Bumped, User
  <2>4. live'.reg = live.reg /\ live'.agent = live.agent
    BY <2>1, <2>3, SetUserEffect
  <2>5. \A c \in Calls : call[c] = None
    BY <2>1 DEF ProcInv, Serving
  <2>6. past'.rotated = TRUE
    BY <2>1 DEF TypeOK
  <2> QED
    BY <2>1, <2>2, <2>4, <2>5, <2>6 DEF KeyInv, Readable
<1>17. CASE RotateDies
  <2>1. /\ past' = [past EXCEPT !.cut = @ \/ secret # rot.old] /\ rot'.pc = "idle"
        /\ UNCHANGED <<secret, live, disk, backup, call>>
    BY <1>17 DEF RotateDies, RotUnchanged
  <2>2. secret = rot.old /\ past'.rotated = past.rotated
    BY <2>1 DEF TypeOK
  <2>3. rot.pc = "secret"
    BY <1>17, <2>2 DEF RotateDies, ProcInv, TypeOK
  <2> QED
    BY <1>2, <2>1, <2>2, <2>3 DEF KeyInv, Untouched
<1>18. CASE UNCHANGED vars
  BY <1>18 DEF vars, KeyInv, Untouched
<1> QED
  BY <1>4, <1>5, <1>6, <1>7, <1>8, <1>9, <1>10, <1>11, <1>12, <1>13, <1>14, <1>15, <1>16,
     <1>17, <1>18, StepCases DEF RotateStep

\* What the database holds encrypted can be read outside a rotation, but for an
\* interrupted one, a restored backup that is older than one, and the SSH secrets.
THEOREM SecretsReadable == Spec => []UnreadableHasCause
<1>1. Init => KeyInv
  BY CredentialsAssumption DEF Init, KeyInv, Readable, Untouched
<1>2. TypeOK /\ ProcInv /\ KeyInv => UnreadableHasCause
  <2> SUFFICES ASSUME TypeOK, ProcInv, KeyInv, proc # "rotate", ~past.cut,
                      ~(past.restored /\ past.rotated)
               PROVE  /\ live.reg # None => Decrypts(secret, live.reg)
                      /\ live.agent = secret
                      /\ past.rotated \/ live.ssh = secret
    BY DEF UnreadableHasCause
  <2>1. rot.pc = "idle"
    BY DEF ProcInv
  <2>2. Readable(live, secret) /\ (past.rotated = TRUE \/ Untouched)
    BY <2>1 DEF KeyInv, TypeOK
  <2> QED
    BY <2>2 DEF Readable, Untouched, Decrypts
<1> QED
  BY <1>1, <1>2, KeyStep, CredentialsBase, PTL DEF Spec

-----------------------------------------------------------------------------
(* Lost updates *)

\* As long as no two calls have overlapped, the credential is the one the last
\* caller was told of, and a call that only writes back has read that one.
AckInv ==
    \/ past.overlapped = TRUE
    \/ past.restored = TRUE
    \/ /\ live.reg = None => acked = None
       /\ live.reg # None => live.reg.tok = acked
       /\ \A c \in Calls : call[c] # None /\ call[c].kind \in {"claim", "test"} =>
            live.reg # None /\ call[c].reg.tok = live.reg.tok
       /\ \A c, d \in Calls : c # d => call[c] = None \/ call[d] = None

LEMMA AckStep == TypeOK /\ ProcInv /\ AckInv /\ [Next]_vars => AckInv'
<1> SUFFICES ASSUME TypeOK, ProcInv, AckInv, [Next]_vars,
                    past'.overlapped # TRUE, past'.restored # TRUE
             PROVE  AckInv'
  BY DEF AckInv
<1>1. past.overlapped # TRUE /\ past.restored # TRUE
  BY PastStep DEF PastGrows
<1>2. /\ live.reg = None => acked = None
      /\ live.reg # None => live.reg.tok = acked
      /\ \A c \in Calls : call[c] # None /\ call[c].kind \in {"claim", "test"} =>
           live.reg # None /\ call[c].reg.tok = live.reg.tok
      /\ \A c, d \in Calls : c # d => call[c] = None \/ call[d] = None
  BY <1>1 DEF AckInv
<1>3. disk = live
  BY <1>1 DEF ProcInv
\* The credential is the same but for its key, and no call has moved.
<1>4. ASSUME acked' = acked,
             live'.reg = None <=> live.reg = None,
             live.reg # None => live'.reg.tok = live.reg.tok,
             \A c \in Calls : call'[c] = None \/ call'[c] = call[c]
      PROVE  AckInv'
  BY <1>2, <1>4 DEF AckInv
<1>5. CASE ServerStep
  BY <1>3, <1>4, <1>5 DEF ServerStep, StartServer, StopServer, LoginReads, LoginMints
<1>6. CASE UserStep
  BY <1>4, <1>6, UserEffect DEF UserUnchanged
<1>7. CASE SecretStep
  BY <1>4, <1>7, SecretEffect DEF SecretsUnchanged
<1>8. CASE BackupStep
  BY <1>4, <1>8 DEF BackupStep, TriggerBackup, PerformBackup, BackupCommand, CleanupOldBackups,
                    BackupUnchanged
<1>9. CASE Restore
  BY <1>9, RestoreTypes
<1>10. CASE RotateStep
  <2>1. UNCHANGED <<acked, call>>
    BY <1>10 DEF RotateStep, RotateBegins, RotateWritesSecret, RotateRegistries, RotateInstances,
                 RotateVersions, RotateDies, RotUnchanged
  <2>2. CASE UNCHANGED live
    BY <1>4, <2>1, <2>2
  <2>3. CASE RotateRegistries
    <3>1. live' = Recrypted
      BY <2>3, CommitEffect, RecryptedEffect DEF RotateRegistries, Recrypted
    <3> QED
      BY <1>4, <2>1, <3>1, RecryptedEffect
  <2>4. CASE RotateInstances
    <3>1. [live EXCEPT !.agent = secret] \in Database /\ live \in Database
      BY DEF TypeOK, Database
    <3>2. live' = [live EXCEPT !.agent = secret]
      BY <2>4, <3>1, CommitEffect DEF RotateInstances
    <3>3. live'.reg = live.reg
      BY <3>1, <3>2 DEF Database
    <3> QED
      BY <1>4, <2>1, <3>3
  <2>5. CASE RotateVersions
    <3>1. live.user \in User /\ live.user.ver + 1 \in 0..MaxVersion
      BY <2>5, CredentialsAssumption DEF RotateVersions, TypeOK, Database, User
    <3>2. Bumped(live.user) \in User
      BY <3>1 DEF Bumped, User
    <3>3. live'.reg = live.reg
      BY <2>5, <3>2, SetUserEffect DEF RotateVersions
    <3> QED
      BY <1>4, <2>1, <3>3
  <2> QED
    BY <1>10, <2>2, <2>3, <2>4, <2>5 DEF RotateStep, RotateBegins, RotateWritesSecret, RotateDies
<1>11. CASE CreateCredential \/ DeleteCredential
  <2>1. call' = call /\ past' = [past EXCEPT !.overlapped = @ \/ Busy]
    BY <1>11 DEF CreateCredential, DeleteCredential
  <2>2. \A c \in Calls : call[c] = None
    BY <2>1, Overlapping DEF Busy
  <2>3. CASE CreateCredential
    <3>1. live'.reg = Encrypt(last + 1) /\ Encrypt(last + 1) \in Credential /\ acked' = last + 1
      BY <2>3, CreateEffect DEF CreateCredential
    <3>2. live'.reg # None /\ live'.reg.tok = acked'
      BY <3>1, NoneAssumption DEF Encrypt
    <3> QED
      BY <2>1, <2>2, <3>2 DEF AckInv
  <2>4. CASE DeleteCredential
    <3>1. Commit([live EXCEPT !.reg = None]) /\ acked' = None
      BY <2>4 DEF DeleteCredential
    <3>2. live'.reg = None
      BY <3>1, SetRegEffect
    <3> QED
      BY <2>1, <2>2, <3>1, <3>2 DEF AckInv
  <2> QED
    BY <1>11, <2>3, <2>4
<1>12. ASSUME NEW c \in Calls, CallStep(c) PROVE AckInv'
  <2>1. \A d \in Calls : d # c => call'[d] = call[d]
    BY <1>12, CallEffect
  <2>2. call[c] # None => \A d \in Calls : d # c => call'[d] = None
    BY <1>2, <2>1
  <2>3. ASSUME Overlaps(c) = FALSE PROVE \A d \in Calls : d # c => call'[d] = None
    BY <2>1, <2>3 DEF Overlaps
  <2>4. ASSUME past' = [past EXCEPT !.overlapped = @ \/ Overlaps(c)] PROVE Overlaps(c) = FALSE
    <3>1. Overlaps(c) \in BOOLEAN
      BY DEF Overlaps
    <3> QED
      BY <2>4, <3>1, Overlapping
  <2>5. ASSUME \A d \in Calls : d # c => call'[d] = None
        PROVE  \A d, e \in Calls : d # e => call'[d] = None \/ call'[e] = None
    BY <2>5
  <2>6. CASE InstanceCreate(c)
    <3>1. \A d \in Calls : d # c => call'[d] = None
      BY <2>3, <2>4, <2>6 DEF InstanceCreate
    <3>2. /\ live'.reg = Encrypt(last + 1) /\ Encrypt(last + 1) \in Credential
          /\ acked' = last + 1
      BY <2>6, CreateEffect DEF InstanceCreate
    <3>3. live'.reg # None /\ live'.reg.tok = acked'
      BY <3>2, NoneAssumption DEF Encrypt
    <3>4. call'[c].kind = "created"
      BY <2>6 DEF InstanceCreate, TypeOK
    <3> QED
      BY <2>5, <3>1, <3>3, <3>4 DEF AckInv
  <2>7. CASE ClaimReads(c)
    <3>1. /\ call[c] # None /\ UNCHANGED <<live, acked>>
          /\ call'[c] = IF live.reg = None THEN None ELSE [kind |-> "claim", reg |-> live.reg]
      BY <2>7 DEF ClaimReads, TypeOK
    <3> QED
      BY <1>2, <2>2, <2>5, <3>1 DEF AckInv
  <2>8. CASE UpdateReads(c)
    <3>1. /\ UNCHANGED <<live, acked>> /\ call'[c].kind = "update"
          /\ past' = [past EXCEPT !.overlapped = @ \/ Overlaps(c)]
      BY <2>8 DEF UpdateReads, TypeOK
    <3> QED
      BY <1>2, <2>3, <2>4, <2>5, <3>1 DEF AckInv
  <2>9. CASE TestReads(c)
    <3>1. /\ UNCHANGED <<live, acked>> /\ call'[c] = [kind |-> "test", reg |-> live.reg]
          /\ past' = [past EXCEPT !.overlapped = @ \/ Overlaps(c)] /\ live.reg # None
      BY <2>9 DEF TestReads, TypeOK
    <3> QED
      BY <1>2, <2>3, <2>4, <2>5, <3>1 DEF AckInv
  <2>10. CASE CallWrites(c)
    <3>1. /\ call[c] # None /\ call[c].kind # "created" /\ call'[c] = None
          /\ Commit([live EXCEPT !.reg = call[c].reg])
          /\ acked' = IF call[c].kind = "update" THEN call[c].reg.tok ELSE acked
      BY <2>10 DEF CallWrites, TypeOK
    <3>2. call[c] \in Call /\ call[c].reg \in Credential
      BY <3>1 DEF TypeOK, Call
    <3>3. live'.reg = call[c].reg /\ live'.reg # None
      BY <3>1, <3>2, SetRegEffect, NoneAssumption
    <3>4. live'.reg.tok = acked'
      BY <1>2, <3>1, <3>2, <3>3 DEF Call
    <3> QED
      BY <2>2, <2>5, <3>1, <3>3, <3>4 DEF AckInv
  <2>11. CASE TestFails(c)
    <3>1. UNCHANGED <<live, acked>> /\ call'[c] = None
      BY <2>11 DEF TestFails, TypeOK
    <3> QED
      BY <1>4, <2>1, <3>1
  <2> QED
    BY <1>12, <2>6, <2>7, <2>8, <2>9, <2>10, <2>11 DEF CallStep
<1>13. CASE UNCHANGED vars
  BY <1>4, <1>13 DEF vars
<1> QED
  BY <1>5, <1>6, <1>7, <1>8, <1>9, <1>10, <1>11, <1>12, <1>13, StepCases

\* While no call is under way, the stored credential is the last one a caller was
\* told of, unless two calls have overlapped or a backup was restored.
THEOREM UpdatesKept == Spec => []LostUpdateHasCause
<1>1. Init => AckInv
  BY DEF Init, AckInv
<1>2. TypeOK /\ AckInv => LostUpdateHasCause
  <2> SUFFICES ASSUME TypeOK, AckInv, ~past.overlapped, ~past.restored
               PROVE  IF acked = None THEN live.reg = None
                      ELSE live.reg # None /\ live.reg.tok = acked
    BY DEF LostUpdateHasCause
  <2>1. /\ live.reg = None => acked = None
        /\ live.reg # None => live.reg.tok = acked
    BY DEF AckInv, TypeOK
  <2>2. live.reg # None => live.reg.tok # None
    BY CredentialsAssumption DEF TypeOK, Database, Credential
  <2> QED
    BY <2>1, <2>2
<1> QED
  BY <1>1, <1>2, AckStep, CredentialsBase, PTL DEF Spec

=============================================================================
