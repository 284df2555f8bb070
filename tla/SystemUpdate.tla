---------------------------- MODULE SystemUpdate ----------------------------
(***************************************************************************)
(* The update of the panel itself: the release checker                     *)
(* (update/checker.go), the manager that turns a request into a trigger    *)
(* file and reads the outcome back (update/manager.go), the path unit and  *)
(* the helper that consume the trigger (packaging,                         *)
(* scripts/dockpal-update-helper.sh) and update.sh, which replaces the     *)
(* binary, restarts the panel and rolls back.                              *)
(*                                                                         *)
(* A version is a number, 0 none; a request, and what is done for it, is   *)
(* known by its number, which the code does not have: neither the state    *)
(* nor the result file says which request it belongs to.                   *)
(***************************************************************************)
EXTENDS Naturals, FiniteSets

CONSTANTS
    Checks,       \* calls of CheckNow that may be under way at once
    Tagged,       \* the releases' tags are "v" and the version, not the version
    MaxVersion,   \* bound: the newest release
    MaxRequests,  \* bound: the requests that reach the trigger file
    MaxFaults,    \* bound: what goes wrong in one behaviour
    None          \* no file, no fetched release

ASSUME SystemUpdateAssumption ==
    /\ MaxVersion \in Nat \ {0} /\ MaxRequests \in Nat /\ MaxFaults \in Nat
    /\ Tagged \in BOOLEAN

VARIABLES
    published, \* the newest release
    panel,     \* the process: up, its version, Checker.latest, and the request
               \* that holds Manager.mu between its trigger and its state
    enabled,   \* systemd keeps the service running: nobody has stopped it
    fetched,   \* what each CheckNow has fetched and not stored, or stored
    db,        \* system_update_state: status, target; the request, and the
               \* request whose outcome gave the verdict
    saved,     \* system_update_latest_release
    trigger,   \* update-request.json
    result,    \* update-result.json
    installed, \* the version of the binary on disk, 0 when it does not run
    helper,    \* the helper and update.sh: place, target, request, the version
               \* it backed up, the outcome it will report
    count,     \* requests that reached the trigger file
    broken,    \* the requests whose helper was killed, whose update was rolled
               \* back, one of whose states could not be saved, whose update
               \* ended with the panel stopped, whose result was not written
    faults     \* how much went wrong so far

vars == <<published, panel, enabled, fetched, db, saved, trigger, result,
          installed, helper, count, broken, faults>>

Versions == 1..MaxVersion
Numbers == 0..MaxRequests

Verdicts == {"done", "failed"}

Release == [v : Versions, kept : BOOLEAN]
Trigger == [v : Versions, n : Numbers]
Outcome == [st : Verdicts, n : Numbers]

\* The process of the panel, the stored state of the last request, and the
\* helper's run.
Process == [up : BOOLEAN, ver : 0..MaxVersion, latest : 0..MaxVersion, asking : Numbers,
            target : 0..MaxVersion]
State == [st : {"none", "requested"} \union Verdicts, target : 0..MaxVersion, n : Numbers,
          by : Numbers]
Run == [pc : {"idle", "resolve", "stop", "replace", "start", "verify", "restore", "reverify",
              "exit", "report", "refuse"},
        target : 0..MaxVersion, n : Numbers, old : 0..MaxVersion, rc : Verdicts]

ASSUME NoneAssumption == None \notin Release \union Trigger \union Outcome

Idle == [pc |-> "idle", target |-> 0, n |-> 0, old |-> 0, rc |-> "done"]

Down == [up |-> FALSE, ver |-> 0, latest |-> 0, asking |-> 0, target |-> 0]

NoState == [st |-> "none", target |-> 0, n |-> 0, by |-> 0]

Init ==
    /\ published = 1
    /\ panel = [Down EXCEPT !.up = TRUE, !.ver = 1]
    /\ enabled = TRUE
    /\ fetched = [k \in Checks |-> None]
    /\ db = NoState
    /\ saved = 0
    /\ trigger = None /\ result = None
    /\ installed = 1
    /\ helper = Idle
    /\ count = 0
    /\ broken = [killed |-> {}, restored |-> {}, lost |-> {}, stranded |-> {},
                 unreported |-> {}]
    /\ faults = 0

Fault == faults < MaxFaults /\ faults' = faults + 1

\* m.mu is free.
Unlocked == panel.up /\ panel.asking = 0

InFlight == db.st = "requested"

-----------------------------------------------------------------------------
(* The release checker *)

\* Upstream publishes a release.
Publish ==
    /\ published < MaxVersion
    /\ published' = published + 1
    /\ UNCHANGED <<panel, enabled, fetched, db, saved, trigger, result, installed, helper,
                   count, broken, faults>>

\* A tick of the checker, its first check, or "Check now": they may overlap.
\* A fetch that fails changes nothing.
FetchLatest(k) ==
    /\ panel.up /\ fetched[k] = None
    /\ fetched' = [fetched EXCEPT ![k] = [v |-> published, kept |-> FALSE]]
    /\ UNCHANGED <<published, panel, enabled, db, saved, trigger, result, installed, helper,
                   count, broken, faults>>

StoreLatest(k) ==
    /\ panel.up /\ fetched[k] # None /\ ~fetched[k].kept
    /\ panel' = [panel EXCEPT !.latest = fetched[k].v]
    /\ fetched' = [fetched EXCEPT ![k].kept = TRUE]
    /\ UNCHANGED <<published, enabled, db, saved, trigger, result, installed, helper,
                   count, broken, faults>>

PersistLatest(k) ==
    /\ panel.up /\ fetched[k] # None /\ fetched[k].kept
    /\ saved' = fetched[k].v
    /\ fetched' = [fetched EXCEPT ![k] = None]
    /\ UNCHANGED <<published, panel, enabled, db, trigger, result, installed, helper,
                   count, broken, faults>>

-----------------------------------------------------------------------------
(* The manager *)

\* reconcileLocked by a process of version v: the state it leaves in the
\* database, and whether it removes the result file.  A result is taken as it
\* is: its target is not compared.
Judged(v) ==
    IF v = db.target
    THEN [db EXCEPT !.st = "done", !.by = IF helper.pc = "idle" THEN db.n ELSE helper.n]
    ELSE IF result = None THEN db
    ELSE [db EXCEPT !.st = result.st, !.by = result.n]

Consumes(v) == InFlight /\ (v = db.target \/ result # None)

SaveState(s) == db' = s

Reconcile(v) ==
    /\ SaveState(IF InFlight THEN Judged(v) ELSE db)
    /\ result' = IF Consumes(v) THEN None ELSE result

\* The state could not be saved: the error is dropped and the result with it.
ReconcileLost(v) ==
    /\ Consumes(v)
    /\ Fault
    /\ result' = None
    /\ broken' = [broken EXCEPT !.lost = @ \union {db.n}]
    /\ UNCHANGED db

Status ==
    /\ Unlocked
    /\ \/ Consumes(panel.ver) /\ Reconcile(panel.ver) /\ UNCHANGED <<broken, faults>>
       \/ ReconcileLost(panel.ver)
    /\ UNCHANGED <<published, panel, enabled, fetched, saved, trigger, installed, helper, count>>

\* The cached release is newer than the running binary.
UpdateAvailable == panel.latest > panel.ver

WriteTrigger(v, n) == trigger' = [v |-> v, n |-> n]

\* RequestUpdate up to its trigger file: the target is the cached release and
\* newer than the running binary, and no update is in flight.
RequestUpdate ==
    /\ Unlocked /\ count < MaxRequests
    /\ ~InFlight
    /\ UpdateAvailable
    /\ count' = count + 1
    /\ WriteTrigger(panel.latest, count')
    /\ panel' = [panel EXCEPT !.asking = count', !.target = panel.latest]
    /\ UNCHANGED <<published, enabled, fetched, db, saved, result, installed, helper,
                   broken, faults>>

Answered == panel' = [panel EXCEPT !.asking = 0, !.target = 0]

\* ... and from there: it persists the state.
PersistState ==
    /\ panel.up /\ panel.asking # 0
    /\ SaveState([st |-> "requested", target |-> panel.target, n |-> panel.asking, by |-> 0])
    /\ Answered
    /\ UNCHANGED <<published, enabled, fetched, saved, trigger, result, installed, helper,
                   count, broken, faults>>

\* ... or fails to, and takes the trigger back if it is still there.
PersistFails ==
    /\ panel.up /\ panel.asking # 0
    /\ Fault
    /\ trigger' = None
    /\ Answered
    /\ UNCHANGED <<published, enabled, fetched, db, saved, result, installed, helper,
                   count, broken>>

-----------------------------------------------------------------------------
(* The process *)

\* loadPersisted, by a process of version v.
Loaded(v) == [Down EXCEPT !.up = TRUE, !.ver = v, !.latest = saved]

\* systemd keeps the service running, and has a binary to run.
Bootable == enabled /\ installed # 0

\* systemd starts the service: loadPersisted, then FinalizeOnBoot, before the
\* server listens.
Boot ==
    /\ ~panel.up /\ Bootable
    /\ panel' = Loaded(installed)
    /\ \/ Reconcile(installed) /\ UNCHANGED <<broken, faults>>
       \/ InFlight /\ ReconcileLost(installed)
    /\ UNCHANGED <<published, enabled, fetched, saved, trigger, installed, helper, count>>

\* What is in memory is gone: the calls under way end with the process.
Dies == panel' = Down /\ fetched' = [k \in Checks |-> None]

PanelCrash ==
    /\ panel.up
    /\ Fault
    /\ Dies
    /\ UNCHANGED <<published, enabled, db, saved, trigger, result, installed, helper,
                   count, broken>>

-----------------------------------------------------------------------------
(* The helper and update.sh *)

At(place) == helper.pc = place

Goes(place) == helper' = [helper EXCEPT !.pc = place]

\* PathExists: the unit starts the helper as long as the file exists.  It reads
\* the version and removes the file first.
TakeTrigger ==
    /\ At("idle") /\ trigger # None
    /\ helper' = [Idle EXCEPT !.pc = "resolve", !.target = trigger.v, !.n = trigger.n]
    /\ trigger' = None
    /\ UNCHANGED <<published, panel, enabled, fetched, db, saved, result, installed,
                   count, broken, faults>>

\* The helper cannot run update.sh.
NoScript ==
    /\ At("resolve")
    /\ Fault
    /\ helper' = [helper EXCEPT !.pc = "refuse", !.rc = "failed"]
    /\ UNCHANGED <<published, panel, enabled, fetched, db, saved, trigger, result, installed,
                   count, broken>>

\* Exit 8: already on the target.
UpToDate ==
    /\ At("resolve") /\ installed = helper.target
    /\ helper' = [helper EXCEPT !.pc = "report", !.rc = "done"]
    /\ UNCHANGED <<published, panel, enabled, fetched, db, saved, trigger, result, installed,
                   count, broken, faults>>

\* resolve_explicit_release names the download by the trigger's version, which
\* normalizeVersion has stripped of its "v": such a release is not found.
Found == ~Tagged

Download ==
    /\ At("resolve") /\ installed # helper.target
    /\ Found
    /\ helper' = [helper EXCEPT !.pc = "stop", !.old = installed]
    /\ UNCHANGED <<published, panel, enabled, fetched, db, saved, trigger, result, installed,
                   count, broken, faults>>

\* update.sh ends with an error and without a result file.
Fails == helper' = [helper EXCEPT !.pc = "report", !.rc = "failed"]

\* Exit 5; so does every other step before the stop that fails.
DownloadFails ==
    /\ At("resolve") /\ installed # helper.target
    /\ IF Found THEN Fault ELSE UNCHANGED faults
    /\ Fails
    /\ UNCHANGED <<published, panel, enabled, fetched, db, saved, trigger, result, installed,
                   count, broken>>

StopService ==
    /\ At("stop")
    /\ Dies /\ enabled' = FALSE
    /\ Goes("replace")
    /\ UNCHANGED <<published, db, saved, trigger, result, installed, count, broken, faults>>

\* systemctl stop fails, and the panel goes on; set -e ends the script.
StopFails ==
    /\ At("stop")
    /\ Fault
    /\ Fails
    /\ UNCHANGED <<published, panel, enabled, fetched, db, saved, trigger, result, installed,
                   count, broken>>

ReplaceBinary ==
    /\ At("replace")
    /\ installed' = helper.target
    /\ Goes("start")
    /\ UNCHANGED <<published, panel, enabled, fetched, db, saved, trigger, result,
                   count, broken, faults>>

StartService ==
    /\ At("start")
    /\ enabled' = TRUE
    /\ Goes("verify")
    /\ UNCHANGED <<published, panel, fetched, db, saved, trigger, result, installed,
                   count, broken, faults>>

Strands == broken' = [broken EXCEPT !.stranded = @ \union {helper.n}]

\* The binary, the templates, daemon-reload or the start fails: set -e ends the
\* script between the stop and the start, and nothing is rolled back.
Aborts ==
    /\ At("replace") \/ At("start")
    /\ Fault
    /\ Strands
    /\ Fails
    /\ UNCHANGED <<published, panel, enabled, fetched, db, saved, trigger, result, installed,
                   count>>

\* update.sh knows its outcome, which its write_result is to record.
Exits(verdict) == helper' = [helper EXCEPT !.pc = "exit", !.rc = verdict]

\* verify_service sees the panel answer.
Verified ==
    /\ At("verify") /\ panel.up
    /\ Exits("done")
    /\ UNCHANGED <<published, panel, enabled, fetched, db, saved, trigger, result, installed,
                   count, broken, faults>>

\* The panel does not answer within the wait, whether or not its process has
\* started: rollback stops it.
NotVerified ==
    /\ At("verify")
    /\ Fault
    /\ Dies /\ enabled' = FALSE
    /\ Goes("restore")
    /\ UNCHANGED <<published, db, saved, trigger, result, installed, count, broken>>

Restored == broken' = [broken EXCEPT !.restored = @ \union {helper.n}]

\* Mutant: rollback puts the binary back and does not start the service.
RestoreNoStart ==
    /\ At("restore")
    /\ installed' = helper.old
    /\ Restored
    /\ Goes("reverify")
    /\ UNCHANGED <<published, panel, enabled, fetched, db, saved, trigger, result, count, faults>>

\* rollback puts the old binary back and starts it.
RestoreBinary ==
    /\ At("restore")
    /\ installed' = helper.old
    /\ enabled' = TRUE
    /\ Restored
    /\ Goes("reverify")
    /\ UNCHANGED <<published, panel, fetched, db, saved, trigger, result, count, faults>>

\* rollback goes wrong: there is no backup, or the start fails, and it returns
\* at once; or cp fails, half-way or at its start, and since "if rollback" has
\* turned set -e off the service is started all the same.
RestoreFails ==
    /\ At("restore")
    /\ Fault
    /\ \/ installed' \in {installed, helper.old} /\ enabled' = FALSE
       \/ installed' \in {installed, 0} /\ enabled' = TRUE
    /\ broken' = [broken EXCEPT !.restored = @ \union {helper.n},
                                !.stranded = @ \union {helper.n}]
    /\ Goes("reverify")
    /\ UNCHANGED <<published, panel, fetched, db, saved, trigger, result, count>>

\* Exit 6, the panel answers, or 7, it does not or was not started.
RolledBack ==
    /\ At("reverify")
    /\ IF Bootable /\ ~panel.up THEN Fault ELSE UNCHANGED faults
    /\ Exits("failed")
    /\ UNCHANGED <<published, panel, enabled, fetched, db, saved, trigger, result, installed,
                   count, broken>>

WriteResult(verdict) == result' = [st |-> verdict, n |-> helper.n]

\* write_result of update.sh, which goes on when it fails.
WriteOutcome ==
    /\ At("exit")
    /\ \/ WriteResult(helper.rc) /\ UNCHANGED faults
       \/ Fault /\ UNCHANGED result
    /\ Goes("report")
    /\ UNCHANGED <<published, panel, enabled, fetched, db, saved, trigger, installed,
                   count, broken>>

\* Mutant: the helper reports success whatever update.sh returned.
ReportAlwaysDone ==
    /\ At("report")
    /\ IF result = None THEN WriteResult("done") ELSE UNCHANGED result
    /\ helper' = Idle
    /\ UNCHANGED <<published, panel, enabled, fetched, db, saved, trigger, installed,
                   count, broken, faults>>

\* Mutant: the helper only reports a success.
ReportNoFailure ==
    /\ At("report")
    /\ IF result = None /\ helper.rc = "done" THEN WriteResult("done") ELSE UNCHANGED result
    /\ helper' = Idle
    /\ UNCHANGED <<published, panel, enabled, fetched, db, saved, trigger, installed,
                   count, broken, faults>>

\* The helper writes the result if there is no file: not if one of an earlier
\* update is there, and again if the panel has already taken update.sh's.
\* Without update.sh it writes it whatever is there.
Writes == At("refuse") \/ (At("report") /\ result = None)

Report ==
    /\ At("report") \/ At("refuse")
    /\ IF Writes THEN WriteResult(helper.rc) ELSE UNCHANGED result
    /\ helper' = Idle
    /\ UNCHANGED <<published, panel, enabled, fetched, db, saved, trigger, installed,
                   count, broken, faults>>

\* jq, the write or mv fails in the helper's write_result: set -e ends it.
ReportFails ==
    /\ Writes
    /\ Fault
    /\ broken' = [broken EXCEPT !.unreported = @ \union {helper.n}]
    /\ helper' = Idle
    /\ UNCHANGED <<published, panel, enabled, fetched, db, saved, trigger, result, installed,
                   count>>

Killed == broken' = [broken EXCEPT !.killed = @ \union {helper.n}]

\* TimeoutStartSec: systemd kills the helper and update.sh, wherever they are.
HelperTimeout ==
    /\ ~At("idle")
    /\ Fault
    /\ Killed
    /\ helper' = Idle
    /\ UNCHANGED <<published, panel, enabled, fetched, db, saved, trigger, result, installed, count>>

\* The host restarts: the service is enabled, whoever had stopped it.
Reboot ==
    /\ Fault
    /\ Dies /\ enabled' = TRUE
    /\ IF At("idle") THEN UNCHANGED broken ELSE Killed
    /\ helper' = Idle
    /\ UNCHANGED <<published, db, saved, trigger, result, installed, count>>

-----------------------------------------------------------------------------
Helper ==
    \/ TakeTrigger \/ NoScript \/ UpToDate \/ Download \/ DownloadFails
    \/ StopService \/ StopFails \/ ReplaceBinary \/ StartService \/ Aborts
    \/ Verified \/ NotVerified \/ RestoreBinary \/ RestoreFails \/ RolledBack
    \/ WriteOutcome \/ Report \/ ReportFails

Next ==
    \/ Publish
    \/ \E k \in Checks : FetchLatest(k) \/ StoreLatest(k) \/ PersistLatest(k)
    \/ Status \/ RequestUpdate \/ PersistState \/ PersistFails
    \/ Boot \/ PanelCrash
    \/ Helper \/ HelperTimeout \/ Reboot

Spec == Init /\ [][Next]_vars

\* systemd starts the helper and the service, the scripts' commands all have
\* timeouts, and a handler that has begun ends.  Nobody has to ask for the
\* status, to check or to update.
FairSpec == Spec /\ WF_vars(Helper) /\ WF_vars(Boot) /\ WF_vars(PersistState \/ PersistFails)
-----------------------------------------------------------------------------
(* Properties *)

\* The variables have their types.
TypeOK ==
    /\ published \in Versions /\ installed \in 0..MaxVersion
    /\ panel \in Process
    /\ enabled \in BOOLEAN
    /\ fetched \in [Checks -> Release \union {None}]
    /\ db \in State
    /\ saved \in 0..MaxVersion
    /\ trigger \in Trigger \union {None}
    /\ result \in Outcome \union {None}
    /\ helper \in Run
    /\ count \in Numbers /\ faults \in 0..MaxFaults
    /\ broken \in [killed : SUBSET Numbers, restored : SUBSET Numbers, lost : SUBSET Numbers,
                   stranded : SUBSET Numbers, unreported : SUBSET Numbers]

\* When the latest update is over and reported as done, its target or a newer
\* version is on the disk, unless the verdict was taken from the result file of
\* another request (the state and the file do not say which request they are
\* about), or from a boot of a new version that failed its health check
\* afterwards.
WrongDoneHasCause ==
    (db.st = "done" /\ db.n = count /\ helper.pc = "idle" /\ installed < db.target)
        => db.by # db.n \/ db.n \in broken.restored

\* No update stays in flight for ever (every later request would be refused)
\* unless its helper was killed or could not write the result, or the panel took
\* the result and could not save what it says: reconcileLocked has no time-out.
LockoutHasCause ==
    (InFlight /\ panel.up /\ ~Consumes(panel.ver) /\ trigger = None /\ helper.pc = "idle")
        => db.n \in broken.killed \union broken.unreported \union broken.lost

\* An update that stops the panel starts it again, with the new binary or with
\* the old one, unless it is killed in between, or one of the steps between the
\* stop and the start fails (set -e then ends the script without a roll-back), or
\* the roll-back itself does.
PanelComesBack ==
    ~panel.up ~> (panel.up \/ broken.killed # {} \/ broken.stranded # {})
=============================================================================
