------------------------- MODULE SystemUpdateProofs -------------------------
(***************************************************************************)
(* For any number of versions, requests and overlapping checks: a verdict  *)
(* "done" of the last request is true, and no request stays in flight      *)
(* without somebody who will answer it, but for the reasons the model      *)
(* names.                                                                  *)
(*                                                                         *)
(* The numbers of the requests carry the argument.  Only the last request  *)
(* can be in flight, have its trigger on the disk or be at the helper;     *)
(* what an older one left can mislead the manager (that is the cause) but  *)
(* cannot touch the binary once the last one has its verdict.              *)
(***************************************************************************)
EXTENDS SystemUpdate, TLAPS

Asking == panel.asking # 0
Busy == helper.pc # "idle"

\* What RequestUpdate has written, and what the helper has read, is a release.
VersionInv ==
    /\ Asking => panel.target \in Versions
    /\ Busy => helper.target \in Versions

\* The process runs the binary on the disk, which is replaced while it is down.
PanelInv ==
    /\ panel.up = TRUE => panel.ver = installed
    /\ panel.up = FALSE => ~Asking
    /\ helper.pc \in {"replace", "start", "restore"} => panel.up = FALSE /\ enabled = FALSE

\* Whose request, trigger, run and result there may be, with one in flight.
RequestInv ==
    /\ db.n <= count /\ db.by <= count
    /\ InFlight => db.n = count /\ ~Asking
    /\ Asking => panel.asking = count /\ db.n < count
    /\ trigger # None => trigger.n = count
    /\ Busy => helper.n <= count
    /\ trigger # None /\ Busy => helper.n < count
    /\ result # None => result.n <= count
    /\ result # None /\ result.n = count =>
          /\ trigger = None
          /\ Busy => helper.n = count /\ helper.pc = "report"

\* The last request's target, as long as its state is, or may still be, saved.
Current == Asking \/ db.n = count
Target == IF Asking THEN panel.target ELSE db.target

TargetInv ==
    Current =>
        /\ trigger # None => trigger.v = Target
        /\ Busy /\ helper.n = count => helper.target = Target

\* The binary on the disk, by the place of update.sh; and that a success which
\* is reported, or about to be, is one.
DiskInv ==
    /\ helper.pc \in {"stop", "replace"} => installed # helper.target
    /\ helper.pc \in {"start", "verify"} => installed = helper.target
    /\ helper.pc = "refuse" => helper.rc = "failed"
    /\ Current =>
          /\ helper.pc \in {"exit", "report"} /\ helper.rc = "done" /\ helper.n = count
                => installed = Target
          /\ result # None /\ result.n = count /\ result.st = "done" => installed = Target

\* A verdict of the last request about itself is true until it is rolled back.
VerdictInv ==
    /\ Busy /\ db.by = count => helper.n = count
    /\ db.st = "done" /\ db.n = count /\ db.by = count /\ db.n \notin broken.restored
          => installed = db.target

\* Somebody will answer request n.
Answerable(n) ==
    \/ trigger # None
    \/ Busy /\ helper.n = n
    \/ result # None
    \/ n \in broken.killed \union broken.unreported \union broken.lost

LiveInv == (InFlight => Answerable(db.n)) /\ (Asking => Answerable(panel.asking))

Typed == TypeOK /\ VersionInv

IInv == Typed /\ PanelInv /\ RequestInv /\ TargetInv /\ DiskInv /\ VerdictInv /\ LiveInv

-----------------------------------------------------------------------------
(* The verdict of the manager *)

\* The requests for which something went wrong, by what did.
Causes == [killed : SUBSET Numbers, restored : SUBSET Numbers, lost : SUBSET Numbers,
           stranded : SUBSET Numbers, unreported : SUBSET Numbers]

\* What reconcileLocked in a process of version v may come to: nothing, a result
\* that is lost, the target that runs, or the result there is.
Judges(v) ==
    /\ db' \in State /\ db'.n = db.n /\ db'.target = db.target
    /\ faults' \in 0..MaxFaults
    /\ broken' \in Causes
    /\ \A cause \in {"killed", "restored", "stranded", "unreported"} :
          broken'[cause] = broken[cause]
    /\ \/ db' = db /\ result' = result /\ broken' = broken
       \/ /\ InFlight /\ result' = None /\ db' = db
          /\ broken'.lost = broken.lost \union {db.n}
       \/ /\ InFlight /\ result' = None /\ broken' = broken
          /\ v = db.target /\ db'.st = "done"
          /\ db'.by = IF helper.pc = "idle" THEN db.n ELSE helper.n
       \/ /\ InFlight /\ result # None /\ result' = None /\ broken' = broken
          /\ db'.st = result.st /\ db'.by = result.n

\* Status and FinalizeOnBoot come to a verdict in no other way.
LEMMA Judgement ==
    ASSUME Typed, NEW v \in 0..MaxVersion,
           \/ Reconcile(v) /\ UNCHANGED <<broken, faults>>
           \/ ReconcileLost(v)
    PROVE  Judges(v)
<1> USE SystemUpdateAssumption DEF Typed, TypeOK, State, Causes
<1>1. CASE ReconcileLost(v)
  BY <1>1 DEF ReconcileLost, Consumes, Fault, InFlight, Judges, Numbers
<1>2. CASE Reconcile(v) /\ UNCHANGED <<broken, faults>>
  <2>1. CASE ~Consumes(v)
    <3>1. ~InFlight \/ (v # db.target /\ result = None)
      BY <2>1 DEF Consumes
    <3>2. db' = db /\ result' = result
      BY <1>2, <2>1, <3>1 DEF Reconcile, SaveState, Judged
    <3> QED
      BY <1>2, <3>2 DEF Judges
  <2>2. CASE InFlight /\ v = db.target
    <3>1. /\ db' = [db EXCEPT !.st = "done", !.by = IF helper.pc = "idle" THEN db.n ELSE helper.n]
          /\ result' = None
      BY <1>2, <2>2 DEF Reconcile, SaveState, Judged, Consumes
    <3> QED
      BY <1>2, <2>2, <3>1 DEF Judges, Verdicts, Run
  <2>3. CASE InFlight /\ v # db.target /\ result # None
    <3>1. db' = [db EXCEPT !.st = result.st, !.by = result.n] /\ result' = None
      BY <1>2, <2>3 DEF Reconcile, SaveState, Judged, Consumes
    <3> QED
      BY <1>2, <2>3, <3>1 DEF Judges, Outcome
  <2> QED
    BY <2>1, <2>2, <2>3 DEF Consumes
<1> QED
  BY <1>1, <1>2

-----------------------------------------------------------------------------
(* The parts of the invariant, step by step *)

\* The bounds are numbers.
LEMMA Zero == 0 \in Numbers /\ 0 \in 0..MaxVersion
BY SystemUpdateAssumption DEF Numbers

\* The process and the helper's run keep their types in each of their changes.
LEMMA ProcessTyped ==
    ASSUME panel \in Process, saved \in 0..MaxVersion
    PROVE  /\ Down \in Process
           /\ \A v \in 0..MaxVersion :
                 Loaded(v) \in Process /\ [panel EXCEPT !.latest = v] \in Process
           /\ \A n \in Numbers, v \in 0..MaxVersion :
                 [panel EXCEPT !.asking = n, !.target = v] \in Process
           /\ Answered => panel' \in Process
BY Zero DEF Process, Down, Loaded, Answered

LEMMA RunTyped ==
    ASSUME helper \in Run
    PROVE  /\ Idle \in Run
           /\ \A n \in Numbers, v \in 0..MaxVersion :
                 [Idle EXCEPT !.pc = "resolve", !.target = v, !.n = n] \in Run
           /\ \A v \in 0..MaxVersion : [helper EXCEPT !.pc = "stop", !.old = v] \in Run
           /\ \A p \in {"exit", "report", "refuse"}, c \in Verdicts :
                 [helper EXCEPT !.pc = p, !.rc = c] \in Run
           /\ \A p \in {"replace", "start", "verify", "restore", "reverify", "report"} :
                 Goes(p) => helper' \in Run
<1>1. Idle \in Run
  BY Zero DEF Run, Idle, Verdicts
<1>2. /\ \A v \in 0..MaxVersion : [helper EXCEPT !.pc = "stop", !.old = v] \in Run
      /\ \A p \in {"exit", "report", "refuse"}, c \in Verdicts :
            [helper EXCEPT !.pc = p, !.rc = c] \in Run
      /\ \A p \in {"replace", "start", "verify", "restore", "reverify", "report"} :
            Goes(p) => helper' \in Run
  BY DEF Run, Goes
<1>3. ASSUME NEW n \in Numbers, NEW v \in 0..MaxVersion
      PROVE  [Idle EXCEPT !.pc = "resolve", !.target = v, !.n = n] \in Run
  BY <1>1 DEF Run
<1> QED
  BY <1>1, <1>2, <1>3

\* A roll-back that fails is noted twice.
LEMMA RestoredStranded ==
    ASSUME NEW b \in Causes, NEW n \in Numbers
    PROVE  [b EXCEPT !.restored = @ \union {n}, !.stranded = @ \union {n}] \in Causes
BY DEF Causes

\* The types, by the change each action makes.
LEMMA TypeStep ==
    ASSUME Typed, PanelInv, RequestInv, [Next]_vars PROVE TypeOK'
<1> USE SystemUpdateAssumption DEF Typed, TypeOK, Causes
<1>1. CASE UNCHANGED vars
  BY <1>1 DEF vars
<1>2. ASSUME NEW k \in Checks, FetchLatest(k) PROVE TypeOK'
  BY <1>2 DEF FetchLatest, Release
<1>3. ASSUME NEW k \in Checks, StoreLatest(k) PROVE TypeOK'
  <2>1. fetched[k] \in Release
    BY <1>3 DEF StoreLatest
  <2>2. [fetched[k] EXCEPT !.kept = TRUE] \in Release
    BY <1>3, <2>1 DEF StoreLatest, Release
  <2>3. fetched[k].v \in 0..MaxVersion
    BY <1>3, <2>1 DEF StoreLatest, Release, Versions
  <2>4. panel' \in Process
    BY <1>3, <2>3, ProcessTyped DEF StoreLatest
  <2> QED
    BY <1>3, <2>1, <2>2, <2>3, <2>4 DEF StoreLatest
<1>4. ASSUME NEW k \in Checks, PersistLatest(k) PROVE TypeOK'
  <2>1. fetched[k].v \in 0..MaxVersion
    BY <1>4 DEF PersistLatest, Release, Versions
  <2> QED
    BY <1>4, <2>1 DEF PersistLatest
<1>5. CASE Publish
  BY <1>5 DEF Publish, Versions
<1>6. CASE Status
  <2>1. Judges(panel.ver)
    BY <1>6, Judgement DEF Status, Process
  <2>2. result' \in Outcome \union {None}
    BY <1>6, <2>1 DEF Status, Judges
  <2> QED
    BY <1>6, <2>1, <2>2 DEF Status, Judges
<1>7. CASE RequestUpdate
  <2>1. panel.latest \in Versions /\ panel.latest \in 0..MaxVersion
    BY <1>7 DEF RequestUpdate, UpdateAvailable, Process, Versions
  <2>2. count' \in Numbers
    BY <1>7 DEF RequestUpdate, Numbers
  <2>3. trigger' \in Trigger
    BY <1>7, <2>1, <2>2 DEF RequestUpdate, WriteTrigger, Trigger
  <2>4. panel' \in Process
    BY <1>7, <2>1, <2>2, ProcessTyped DEF RequestUpdate
  <2> QED
    BY <1>7, <2>1, <2>2, <2>3, <2>4 DEF RequestUpdate
<1>8. CASE PersistState
  <2>1. db' \in State
    BY <1>8, Zero DEF PersistState, SaveState, State, Process
  <2>2. panel' \in Process
    BY <1>8, ProcessTyped DEF PersistState
  <2> QED
    BY <1>8, <2>1, <2>2 DEF PersistState
<1>9. CASE PersistFails
  <2>1. faults' \in 0..MaxFaults
    BY <1>9 DEF PersistFails, Fault
  <2>2. panel' \in Process
    BY <1>9, ProcessTyped DEF PersistFails
  <2> QED
    BY <1>9, <2>1, <2>2 DEF PersistFails
<1>10. CASE Boot
  <2>1. installed \in 0..MaxVersion
    BY <1>10 DEF Boot, Versions
  <2>2. Judges(installed)
    BY <1>10, <2>1, Judgement DEF Boot
  <2>3. result' \in Outcome \union {None}
    BY <1>10, <2>2 DEF Boot, Judges
  <2>4. panel' \in Process
    BY <1>10, <2>1, ProcessTyped DEF Boot
  <2> QED
    BY <1>10, <2>1, <2>2, <2>3, <2>4 DEF Boot, Judges
<1>11. CASE PanelCrash
  <2>1. faults' \in 0..MaxFaults
    BY <1>11 DEF PanelCrash, Fault
  <2>2. panel' \in Process /\ fetched' \in [Checks -> Release \union {None}]
    BY <1>11, ProcessTyped DEF PanelCrash, Dies
  <2> QED
    BY <1>11, <2>1, <2>2 DEF PanelCrash
<1>12. CASE TakeTrigger
  <2>1. trigger.v \in 0..MaxVersion /\ trigger.n \in Numbers
    BY <1>12 DEF TakeTrigger, Trigger, Versions
  <2>2. helper' \in Run
    BY <1>12, <2>1, RunTyped DEF TakeTrigger
  <2> QED
    BY <1>12, <2>1, <2>2 DEF TakeTrigger
<1>13. CASE UpToDate
  <2>1. helper' \in Run
    BY <1>13, RunTyped DEF UpToDate, Verdicts
  <2> QED
    BY <1>13, <2>1 DEF UpToDate
<1>14. CASE Download
  <2>1. installed \in 0..MaxVersion
    BY <1>14 DEF Download, Versions
  <2>2. helper' \in Run
    BY <1>14, <2>1, RunTyped DEF Download
  <2> QED
    BY <1>14, <2>1, <2>2 DEF Download
<1>15. CASE DownloadFails
  <2>1. helper' \in Run
    BY <1>15, RunTyped DEF DownloadFails, Fails, Verdicts
  <2>2. faults' \in 0..MaxFaults
    BY <1>15 DEF DownloadFails, Fault
  <2> QED
    BY <1>15, <2>1, <2>2 DEF DownloadFails
<1>16. CASE StopService
  <2>1. helper' \in Run
    BY <1>16, RunTyped DEF StopService
  <2>2. panel' \in Process /\ fetched' \in [Checks -> Release \union {None}]
    BY <1>16, ProcessTyped DEF StopService, Dies
  <2> QED
    BY <1>16, <2>1, <2>2 DEF StopService
<1>17. CASE ReplaceBinary
  <2>1. helper.target \in Versions
    BY <1>17 DEF ReplaceBinary, VersionInv, Busy, At
  <2>2. helper' \in Run
    BY <1>17, RunTyped DEF ReplaceBinary
  <2> QED
    BY <1>17, <2>1, <2>2 DEF ReplaceBinary, Versions
<1>18. CASE StartService
  <2>1. helper' \in Run
    BY <1>18, RunTyped DEF StartService
  <2> QED
    BY <1>18, <2>1 DEF StartService
<1>19. CASE Verified
  <2>1. helper' \in Run
    BY <1>19, RunTyped DEF Verified, Exits, Verdicts
  <2> QED
    BY <1>19, <2>1 DEF Verified
<1>20. CASE NotVerified
  <2>1. helper' \in Run
    BY <1>20, RunTyped DEF NotVerified
  <2>2. faults' \in 0..MaxFaults
    BY <1>20 DEF NotVerified, Fault
  <2>3. panel' \in Process /\ fetched' \in [Checks -> Release \union {None}]
    BY <1>20, ProcessTyped DEF NotVerified, Dies
  <2> QED
    BY <1>20, <2>1, <2>2, <2>3 DEF NotVerified
<1>21. CASE RestoreBinary
  <2>1. helper.old \in 0..MaxVersion
    BY <1>21 DEF Run
  <2>2. broken' \in Causes
    BY <1>21 DEF RestoreBinary, Restored, Run
  <2>3. helper' \in Run
    BY <1>21, RunTyped DEF RestoreBinary
  <2> QED
    BY <1>21, <2>1, <2>2, <2>3 DEF RestoreBinary
<1>22. CASE RolledBack
  <2>1. helper' \in Run
    BY <1>22, RunTyped DEF RolledBack, Exits, Verdicts
  <2>2. faults' \in 0..MaxFaults
    BY <1>22 DEF RolledBack, Fault
  <2> QED
    BY <1>22, <2>1, <2>2 DEF RolledBack
<1>23. CASE Report
  <2>1. result' \in Outcome \union {None}
    BY <1>23 DEF Report, WriteResult, Outcome, Run
  <2>2. helper' \in Run
    BY <1>23, RunTyped DEF Report
  <2> QED
    BY <1>23, <2>1, <2>2 DEF Report
<1>24. CASE HelperTimeout
  <2>1. broken' \in Causes
    BY <1>24 DEF HelperTimeout, Killed, Run
  <2>2. helper' \in Run
    BY <1>24, RunTyped DEF HelperTimeout
  <2>3. faults' \in 0..MaxFaults
    BY <1>24 DEF HelperTimeout, Fault
  <2> QED
    BY <1>24, <2>1, <2>2, <2>3 DEF HelperTimeout
<1>25. CASE Reboot
  <2>1. broken' \in Causes
    BY <1>25 DEF Reboot, Killed, Run
  <2>2. helper' \in Run
    BY <1>25, RunTyped DEF Reboot
  <2>3. faults' \in 0..MaxFaults
    BY <1>25 DEF Reboot, Fault
  <2>4. panel' \in Process /\ fetched' \in [Checks -> Release \union {None}]
    BY <1>25, ProcessTyped DEF Reboot, Dies
  <2> QED
    BY <1>25, <2>1, <2>2, <2>3, <2>4 DEF Reboot
<1>26. CASE NoScript
  <2>1. helper' \in Run
    BY <1>26, RunTyped DEF NoScript, Verdicts
  <2>2. faults' \in 0..MaxFaults
    BY <1>26 DEF NoScript, Fault
  <2> QED
    BY <1>26, <2>1, <2>2 DEF NoScript
<1>27. CASE StopFails
  <2>1. helper' \in Run
    BY <1>27, RunTyped DEF StopFails, Fails, Verdicts
  <2>2. faults' \in 0..MaxFaults
    BY <1>27 DEF StopFails, Fault
  <2> QED
    BY <1>27, <2>1, <2>2 DEF StopFails
<1>28. CASE Aborts
  <2>1. helper' \in Run
    BY <1>28, RunTyped DEF Aborts, Fails, Verdicts
  <2>2. faults' \in 0..MaxFaults
    BY <1>28 DEF Aborts, Fault
  <2>3. broken' \in Causes
    BY <1>28 DEF Aborts, Strands, Run
  <2> QED
    BY <1>28, <2>1, <2>2, <2>3 DEF Aborts
<1>29. CASE RestoreFails
  <2>1. helper' \in Run
    BY <1>29, RunTyped DEF RestoreFails
  <2>2. faults' \in 0..MaxFaults
    BY <1>29 DEF RestoreFails, Fault
  <2>3. helper.n \in Numbers /\ helper.old \in 0..MaxVersion
    BY DEF Run
  <2>4. broken' \in Causes
    BY <1>29, <2>3, RestoredStranded DEF RestoreFails
  <2>5. installed' \in 0..MaxVersion /\ enabled' \in BOOLEAN
    BY <1>29, <2>3, Zero DEF RestoreFails
  <2> QED
    BY <1>29, <2>1, <2>2, <2>4, <2>5 DEF RestoreFails
<1>30. CASE WriteOutcome
  <2>1. helper' \in Run
    BY <1>30, RunTyped DEF WriteOutcome
  <2>2. faults' \in 0..MaxFaults
    BY <1>30 DEF WriteOutcome, Fault
  <2>3. result' \in Outcome \union {None}
    BY <1>30 DEF WriteOutcome, WriteResult, Outcome, Run
  <2> QED
    BY <1>30, <2>1, <2>2, <2>3 DEF WriteOutcome
<1>31. CASE ReportFails
  <2>1. helper' \in Run
    BY <1>31, RunTyped DEF ReportFails
  <2>2. faults' \in 0..MaxFaults
    BY <1>31 DEF ReportFails, Fault
  <2>3. broken' \in Causes
    BY <1>31 DEF ReportFails, Run
  <2> QED
    BY <1>31, <2>1, <2>2, <2>3 DEF ReportFails
<1> QED
  BY <1>1, <1>2, <1>3, <1>4, <1>5, <1>6, <1>7, <1>8, <1>9, <1>10, <1>11, <1>12, <1>13, <1>14,
     <1>15, <1>16, <1>17, <1>18, <1>19, <1>20, <1>21, <1>22, <1>23, <1>24, <1>25, <1>26, <1>27,
     <1>28, <1>29, <1>30, <1>31 DEF Next, Helper

\* Only versions are asked for, taken and backed up.
LEMMA VersionStep ==
    ASSUME Typed, PanelInv, RequestInv, [Next]_vars PROVE VersionInv'
<1> USE SystemUpdateAssumption, NoneAssumption DEF Typed, TypeOK, VersionInv, Process, State, Run,
   Trigger, Versions, Numbers, Asking, Busy
<1>1. CASE UNCHANGED vars
  BY <1>1 DEF vars
<1>2. ASSUME NEW k \in Checks, FetchLatest(k) PROVE VersionInv'
  BY <1>2 DEF FetchLatest, Release
<1>3. ASSUME NEW k \in Checks, StoreLatest(k) PROVE VersionInv'
  BY <1>3 DEF StoreLatest, Release
<1>4. ASSUME NEW k \in Checks, PersistLatest(k) PROVE VersionInv'
  BY <1>4 DEF PersistLatest
<1>5. CASE Publish
  BY <1>5 DEF Publish
<1>6. CASE Status
  <2>1. Judges(panel.ver)
    BY <1>6, Judgement DEF Status, Unlocked, Typed, TypeOK, Process, Versions
  <2> QED
    BY <1>6, <2>1 DEF Status, Unlocked, Judges
<1>7. CASE RequestUpdate
  BY <1>7 DEF RequestUpdate, Unlocked, InFlight, UpdateAvailable, WriteTrigger, Trigger
<1>8. CASE PersistState
  BY <1>8 DEF PersistState, SaveState, Answered
<1>9. CASE PersistFails
  BY <1>9 DEF PersistFails, Fault, Answered
<1>10. CASE Boot
  <2>1. Judges(installed)
    BY <1>10, Judgement DEF Boot, Typed, TypeOK, Process, Versions
  <2> QED
    BY <1>10, <2>1 DEF Boot, Bootable, Loaded, Down, Judges
<1>11. CASE PanelCrash
  BY <1>11 DEF PanelCrash, Fault, Dies, Down
<1>12. CASE TakeTrigger
  BY <1>12 DEF TakeTrigger, At, Idle, Trigger
<1>13. CASE UpToDate
  BY <1>13 DEF UpToDate, At
<1>14. CASE Download
  BY <1>14 DEF Download, At
<1>15. CASE DownloadFails
  BY <1>15 DEF DownloadFails, Fails, At, Fault, Found
<1>16. CASE StopService
  BY <1>16 DEF StopService, At, Dies, Down, Goes
<1>17. CASE ReplaceBinary
  BY <1>17 DEF ReplaceBinary, At, Goes
<1>18. CASE StartService
  BY <1>18 DEF StartService, At, Goes
<1>19. CASE Verified
  BY <1>19 DEF Verified, At, Exits
<1>20. CASE NotVerified
  BY <1>20 DEF NotVerified, At, Fault, Dies, Down, Goes
<1>21. CASE RestoreBinary
  BY <1>21 DEF RestoreBinary, Restored, At, Goes
<1>22. CASE RolledBack
  BY <1>22 DEF RolledBack, At, Fault, Exits
<1>23. CASE Report
  BY <1>23 DEF Report, Writes, At, Idle, WriteResult, Outcome
<1>24. CASE HelperTimeout
  BY <1>24 DEF HelperTimeout, At, Fault, Killed, Idle
<1>25. CASE Reboot
  BY <1>25 DEF Reboot, At, Fault, Dies, Down, Killed, Idle
<1>26. CASE NoScript
  BY <1>26 DEF NoScript, At, Fault
<1>27. CASE StopFails
  BY <1>27 DEF StopFails, Fails, At, Fault
<1>28. CASE Aborts
  BY <1>28 DEF Aborts, Fails, Strands, At, Fault
<1>29. CASE RestoreFails
  BY <1>29 DEF RestoreFails, At, Fault, Goes
<1>30. CASE WriteOutcome
  BY <1>30 DEF WriteOutcome, At, Fault, Goes, WriteResult, Outcome
<1>31. CASE ReportFails
  BY <1>31 DEF ReportFails, Writes, At, Fault, Idle
<1> QED
  BY <1>1, <1>2, <1>3, <1>4, <1>5, <1>6, <1>7, <1>8, <1>9, <1>10, <1>11, <1>12, <1>13, <1>14,
     <1>15, <1>16, <1>17, <1>18, <1>19, <1>20, <1>21, <1>22, <1>23, <1>24, <1>25, <1>26, <1>27,
     <1>28, <1>29, <1>30, <1>31 DEF Next, Helper

\* The binary changes only while the panel is stopped.
LEMMA PanelStep ==
    ASSUME Typed, PanelInv, RequestInv, [Next]_vars PROVE PanelInv'
<1> USE SystemUpdateAssumption, NoneAssumption DEF Typed, PanelInv, TypeOK, Process, State, Run,
   Trigger, Outcome, Versions, Numbers, Verdicts, Asking, Busy, InFlight
<1>1. CASE UNCHANGED vars
  BY <1>1 DEF vars
<1>2. ASSUME NEW k \in Checks, FetchLatest(k) PROVE PanelInv'
  BY <1>2 DEF FetchLatest, Release
<1>3. ASSUME NEW k \in Checks, StoreLatest(k) PROVE PanelInv'
  BY <1>3 DEF StoreLatest, Release
<1>4. ASSUME NEW k \in Checks, PersistLatest(k) PROVE PanelInv'
  BY <1>4 DEF PersistLatest
<1>5. CASE Publish
  BY <1>5 DEF Publish
<1>6. CASE Status
  <2>1. Judges(panel.ver)
    BY <1>6, Judgement DEF Status, Unlocked, Typed, TypeOK, Process, Versions
  <2> QED
    BY <1>6, <2>1 DEF Status, Unlocked, Judges
<1>7. CASE RequestUpdate
  BY <1>7 DEF RequestUpdate, Unlocked, InFlight, UpdateAvailable, WriteTrigger, Trigger
<1>8. CASE PersistState
  BY <1>8 DEF PersistState, SaveState, Answered
<1>9. CASE PersistFails
  BY <1>9 DEF PersistFails, Fault, Answered
<1>10. CASE Boot
  <2>1. Judges(installed)
    BY <1>10, Judgement DEF Boot, Typed, TypeOK, Process, Versions
  <2> QED
    BY <1>10, <2>1 DEF Boot, Bootable, Loaded, Down, Judges
<1>11. CASE PanelCrash
  BY <1>11 DEF PanelCrash, Fault, Dies, Down
<1>12. CASE TakeTrigger
  BY <1>12 DEF TakeTrigger, At, Idle, Trigger
<1>13. CASE UpToDate
  BY <1>13 DEF UpToDate, At
<1>14. CASE Download
  BY <1>14 DEF Download, At
<1>15. CASE DownloadFails
  BY <1>15 DEF DownloadFails, Fails, At, Fault, Found
<1>16. CASE StopService
  BY <1>16 DEF StopService, At, Dies, Down, Goes
<1>17. CASE ReplaceBinary
  BY <1>17 DEF ReplaceBinary, At, Goes
<1>18. CASE StartService
  BY <1>18 DEF StartService, At, Goes
<1>19. CASE Verified
  BY <1>19 DEF Verified, At, Exits
<1>20. CASE NotVerified
  BY <1>20 DEF NotVerified, At, Fault, Dies, Down, Goes
<1>21. CASE RestoreBinary
  BY <1>21 DEF RestoreBinary, Restored, At, Goes
<1>22. CASE RolledBack
  BY <1>22 DEF RolledBack, At, Fault, Exits
<1>23. CASE Report
  BY <1>23 DEF Report, Writes, At, Idle, WriteResult, Outcome
<1>24. CASE HelperTimeout
  BY <1>24 DEF HelperTimeout, At, Fault, Killed, Idle
<1>25. CASE Reboot
  BY <1>25 DEF Reboot, At, Fault, Dies, Down, Killed, Idle
<1>26. CASE NoScript
  BY <1>26 DEF NoScript, At, Fault
<1>27. CASE StopFails
  BY <1>27 DEF StopFails, Fails, At, Fault
<1>28. CASE Aborts
  BY <1>28 DEF Aborts, Fails, Strands, At, Fault
<1>29. CASE RestoreFails
  BY <1>29 DEF RestoreFails, At, Fault, Goes
<1>30. CASE WriteOutcome
  BY <1>30 DEF WriteOutcome, At, Fault, Goes, WriteResult, Outcome
<1>31. CASE ReportFails
  BY <1>31 DEF ReportFails, Writes, At, Fault, Idle
<1> QED
  BY <1>1, <1>2, <1>3, <1>4, <1>5, <1>6, <1>7, <1>8, <1>9, <1>10, <1>11, <1>12, <1>13, <1>14,
     <1>15, <1>16, <1>17, <1>18, <1>19, <1>20, <1>21, <1>22, <1>23, <1>24, <1>25, <1>26, <1>27,
     <1>28, <1>29, <1>30, <1>31 DEF Next, Helper

\* An older request has no trigger any more, and a newer one no result yet.
LEMMA RequestStep ==
    ASSUME Typed, PanelInv, RequestInv, [Next]_vars PROVE RequestInv'
<1> USE SystemUpdateAssumption, NoneAssumption DEF Typed, PanelInv, RequestInv, TypeOK, Process,
   State, Run, Trigger, Outcome, Versions, Numbers, Verdicts, Asking, Busy, InFlight
<1>1. CASE UNCHANGED vars
  BY <1>1 DEF vars
<1>2. ASSUME NEW k \in Checks, FetchLatest(k) PROVE RequestInv'
  BY <1>2 DEF FetchLatest, Release
<1>3. ASSUME NEW k \in Checks, StoreLatest(k) PROVE RequestInv'
  BY <1>3 DEF StoreLatest, Release
<1>4. ASSUME NEW k \in Checks, PersistLatest(k) PROVE RequestInv'
  BY <1>4 DEF PersistLatest
<1>5. CASE Publish
  BY <1>5 DEF Publish
<1>6. CASE Status
  <2>1. Judges(panel.ver)
    BY <1>6, Judgement DEF Status, Unlocked, Typed, TypeOK, Process, Versions
  <2> QED
    BY <1>6, <2>1 DEF Status, Unlocked, Judges
<1>7. CASE RequestUpdate
  BY <1>7 DEF RequestUpdate, Unlocked, InFlight, UpdateAvailable, WriteTrigger, Trigger
<1>8. CASE PersistState
  BY <1>8 DEF PersistState, SaveState, Answered
<1>9. CASE PersistFails
  BY <1>9 DEF PersistFails, Fault, Answered
<1>10. CASE Boot
  <2>1. Judges(installed)
    BY <1>10, Judgement DEF Boot, Typed, TypeOK, Process, Versions
  <2> QED
    BY <1>10, <2>1 DEF Boot, Bootable, Loaded, Down, Judges
<1>11. CASE PanelCrash
  BY <1>11 DEF PanelCrash, Fault, Dies, Down
<1>12. CASE TakeTrigger
  BY <1>12 DEF TakeTrigger, At, Idle, Trigger
<1>13. CASE UpToDate
  BY <1>13 DEF UpToDate, At
<1>14. CASE Download
  BY <1>14 DEF Download, At
<1>15. CASE DownloadFails
  BY <1>15 DEF DownloadFails, Fails, At, Fault, Found
<1>16. CASE StopService
  BY <1>16 DEF StopService, At, Dies, Down, Goes
<1>17. CASE ReplaceBinary
  BY <1>17 DEF ReplaceBinary, At, Goes
<1>18. CASE StartService
  BY <1>18 DEF StartService, At, Goes
<1>19. CASE Verified
  BY <1>19 DEF Verified, At, Exits
<1>20. CASE NotVerified
  BY <1>20 DEF NotVerified, At, Fault, Dies, Down, Goes
<1>21. CASE RestoreBinary
  BY <1>21 DEF RestoreBinary, Restored, At, Goes
<1>22. CASE RolledBack
  BY <1>22 DEF RolledBack, At, Fault, Exits
<1>23. CASE Report
  BY <1>23 DEF Report, Writes, At, Idle, WriteResult, Outcome
<1>24. CASE HelperTimeout
  BY <1>24 DEF HelperTimeout, At, Fault, Killed, Idle
<1>25. CASE Reboot
  BY <1>25 DEF Reboot, At, Fault, Dies, Down, Killed, Idle
<1>26. CASE NoScript
  BY <1>26 DEF NoScript, At, Fault
<1>27. CASE StopFails
  BY <1>27 DEF StopFails, Fails, At, Fault
<1>28. CASE Aborts
  BY <1>28 DEF Aborts, Fails, Strands, At, Fault
<1>29. CASE RestoreFails
  BY <1>29 DEF RestoreFails, At, Fault, Goes
<1>30. CASE WriteOutcome
  BY <1>30 DEF WriteOutcome, At, Fault, Goes, WriteResult, Outcome
<1>31. CASE ReportFails
  BY <1>31 DEF ReportFails, Writes, At, Fault, Idle
<1> QED
  BY <1>1, <1>2, <1>3, <1>4, <1>5, <1>6, <1>7, <1>8, <1>9, <1>10, <1>11, <1>12, <1>13, <1>14,
     <1>15, <1>16, <1>17, <1>18, <1>19, <1>20, <1>21, <1>22, <1>23, <1>24, <1>25, <1>26, <1>27,
     <1>28, <1>29, <1>30, <1>31 DEF Next, Helper

\* The target goes unchanged from the request to its trigger and its run.
LEMMA TargetStep ==
    ASSUME Typed, PanelInv, RequestInv, TargetInv, [Next]_vars PROVE TargetInv'
<1> USE SystemUpdateAssumption, NoneAssumption DEF Typed, PanelInv, RequestInv, TargetInv,
   Current, Target, TypeOK, Process, State, Run, Trigger, Outcome, Versions, Numbers, Verdicts,
   Asking, Busy, InFlight
<1>1. CASE UNCHANGED vars
  BY <1>1 DEF vars
<1>2. ASSUME NEW k \in Checks, FetchLatest(k) PROVE TargetInv'
  BY <1>2 DEF FetchLatest, Release
<1>3. ASSUME NEW k \in Checks, StoreLatest(k) PROVE TargetInv'
  BY <1>3 DEF StoreLatest, Release
<1>4. ASSUME NEW k \in Checks, PersistLatest(k) PROVE TargetInv'
  BY <1>4 DEF PersistLatest
<1>5. CASE Publish
  BY <1>5 DEF Publish
<1>6. CASE Status
  <2>1. Judges(panel.ver)
    BY <1>6, Judgement DEF Status, Unlocked, Typed, TypeOK, Process, Versions
  <2> QED
    BY <1>6, <2>1 DEF Status, Unlocked, Judges
<1>7. CASE RequestUpdate
  BY <1>7 DEF RequestUpdate, Unlocked, InFlight, UpdateAvailable, WriteTrigger, Trigger
<1>8. CASE PersistState
  BY <1>8 DEF PersistState, SaveState, Answered
<1>9. CASE PersistFails
  BY <1>9 DEF PersistFails, Fault, Answered
<1>10. CASE Boot
  <2>1. Judges(installed)
    BY <1>10, Judgement DEF Boot, Typed, TypeOK, Process, Versions
  <2> QED
    BY <1>10, <2>1 DEF Boot, Bootable, Loaded, Down, Judges
<1>11. CASE PanelCrash
  BY <1>11 DEF PanelCrash, Fault, Dies, Down
<1>12. CASE TakeTrigger
  BY <1>12 DEF TakeTrigger, At, Idle, Trigger
<1>13. CASE UpToDate
  BY <1>13 DEF UpToDate, At
<1>14. CASE Download
  BY <1>14 DEF Download, At
<1>15. CASE DownloadFails
  BY <1>15 DEF DownloadFails, Fails, At, Fault, Found
<1>16. CASE StopService
  BY <1>16 DEF StopService, At, Dies, Down, Goes
<1>17. CASE ReplaceBinary
  BY <1>17 DEF ReplaceBinary, At, Goes
<1>18. CASE StartService
  BY <1>18 DEF StartService, At, Goes
<1>19. CASE Verified
  BY <1>19 DEF Verified, At, Exits
<1>20. CASE NotVerified
  BY <1>20 DEF NotVerified, At, Fault, Dies, Down, Goes
<1>21. CASE RestoreBinary
  BY <1>21 DEF RestoreBinary, Restored, At, Goes
<1>22. CASE RolledBack
  BY <1>22 DEF RolledBack, At, Fault, Exits
<1>23. CASE Report
  BY <1>23 DEF Report, Writes, At, Idle, WriteResult, Outcome
<1>24. CASE HelperTimeout
  BY <1>24 DEF HelperTimeout, At, Fault, Killed, Idle
<1>25. CASE Reboot
  BY <1>25 DEF Reboot, At, Fault, Dies, Down, Killed, Idle
<1>26. CASE NoScript
  BY <1>26 DEF NoScript, At, Fault
<1>27. CASE StopFails
  BY <1>27 DEF StopFails, Fails, At, Fault
<1>28. CASE Aborts
  BY <1>28 DEF Aborts, Fails, Strands, At, Fault
<1>29. CASE RestoreFails
  BY <1>29 DEF RestoreFails, At, Fault, Goes
<1>30. CASE WriteOutcome
  BY <1>30 DEF WriteOutcome, At, Fault, Goes, WriteResult, Outcome
<1>31. CASE ReportFails
  BY <1>31 DEF ReportFails, Writes, At, Fault, Idle
<1> QED
  BY <1>1, <1>2, <1>3, <1>4, <1>5, <1>6, <1>7, <1>8, <1>9, <1>10, <1>11, <1>12, <1>13, <1>14,
     <1>15, <1>16, <1>17, <1>18, <1>19, <1>20, <1>21, <1>22, <1>23, <1>24, <1>25, <1>26, <1>27,
     <1>28, <1>29, <1>30, <1>31 DEF Next, Helper

\* Nobody touches the binary between update.sh's success and the next request's
\* run.
LEMMA DiskStep ==
    ASSUME Typed, PanelInv, RequestInv, TargetInv, DiskInv, [Next]_vars PROVE DiskInv'
<1> USE SystemUpdateAssumption, NoneAssumption DEF Typed, PanelInv, RequestInv, TargetInv,
   DiskInv, Current, Target, TypeOK, Process, State, Run, Trigger, Outcome, Versions, Numbers,
   Verdicts, Asking, Busy, InFlight
<1>1. CASE UNCHANGED vars
  BY <1>1 DEF vars
<1>2. ASSUME NEW k \in Checks, FetchLatest(k) PROVE DiskInv'
  BY <1>2 DEF FetchLatest, Release
<1>3. ASSUME NEW k \in Checks, StoreLatest(k) PROVE DiskInv'
  BY <1>3 DEF StoreLatest, Release
<1>4. ASSUME NEW k \in Checks, PersistLatest(k) PROVE DiskInv'
  BY <1>4 DEF PersistLatest
<1>5. CASE Publish
  BY <1>5 DEF Publish
<1>6. CASE Status
  <2>1. Judges(panel.ver)
    BY <1>6, Judgement DEF Status, Unlocked, Typed, TypeOK, Process, Versions
  <2> QED
    BY <1>6, <2>1 DEF Status, Unlocked, Judges
<1>7. CASE RequestUpdate
  BY <1>7 DEF RequestUpdate, Unlocked, InFlight, UpdateAvailable, WriteTrigger, Trigger
<1>8. CASE PersistState
  BY <1>8 DEF PersistState, SaveState, Answered
<1>9. CASE PersistFails
  BY <1>9 DEF PersistFails, Fault, Answered
<1>10. CASE Boot
  <2>1. Judges(installed)
    BY <1>10, Judgement DEF Boot, Typed, TypeOK, Process, Versions
  <2> QED
    BY <1>10, <2>1 DEF Boot, Bootable, Loaded, Down, Judges
<1>11. CASE PanelCrash
  BY <1>11 DEF PanelCrash, Fault, Dies, Down
<1>12. CASE TakeTrigger
  BY <1>12 DEF TakeTrigger, At, Idle, Trigger
<1>13. CASE UpToDate
  BY <1>13 DEF UpToDate, At
<1>14. CASE Download
  BY <1>14 DEF Download, At
<1>15. CASE DownloadFails
  BY <1>15 DEF DownloadFails, Fails, At, Fault, Found
<1>16. CASE StopService
  BY <1>16 DEF StopService, At, Dies, Down, Goes
<1>17. CASE ReplaceBinary
  BY <1>17 DEF ReplaceBinary, At, Goes
<1>18. CASE StartService
  BY <1>18 DEF StartService, At, Goes
<1>19. CASE Verified
  BY <1>19 DEF Verified, At, Exits
<1>20. CASE NotVerified
  BY <1>20 DEF NotVerified, At, Fault, Dies, Down, Goes
<1>21. CASE RestoreBinary
  BY <1>21 DEF RestoreBinary, Restored, At, Goes
<1>22. CASE RolledBack
  BY <1>22 DEF RolledBack, At, Fault, Exits
<1>23. CASE Report
  BY <1>23 DEF Report, Writes, At, Idle, WriteResult, Outcome
<1>24. CASE HelperTimeout
  BY <1>24 DEF HelperTimeout, At, Fault, Killed, Idle
<1>25. CASE Reboot
  BY <1>25 DEF Reboot, At, Fault, Dies, Down, Killed, Idle
<1>26. CASE NoScript
  BY <1>26 DEF NoScript, At, Fault
<1>27. CASE StopFails
  BY <1>27 DEF StopFails, Fails, At, Fault
<1>28. CASE Aborts
  BY <1>28 DEF Aborts, Fails, Strands, At, Fault
<1>29. CASE RestoreFails
  BY <1>29 DEF RestoreFails, At, Fault, Goes
<1>30. CASE WriteOutcome
  BY <1>30 DEF WriteOutcome, At, Fault, Goes, WriteResult, Outcome
<1>31. CASE ReportFails
  BY <1>31 DEF ReportFails, Writes, At, Fault, Idle
<1> QED
  BY <1>1, <1>2, <1>3, <1>4, <1>5, <1>6, <1>7, <1>8, <1>9, <1>10, <1>11, <1>12, <1>13, <1>14,
     <1>15, <1>16, <1>17, <1>18, <1>19, <1>20, <1>21, <1>22, <1>23, <1>24, <1>25, <1>26, <1>27,
     <1>28, <1>29, <1>30, <1>31 DEF Next, Helper

\* A verdict "done" comes from the running version or a true result, and is only
\* belied by the roll-back of that very request.
LEMMA VerdictStep ==
    ASSUME Typed, PanelInv, RequestInv, TargetInv, DiskInv, VerdictInv, [Next]_vars
    PROVE  VerdictInv'
<1> USE SystemUpdateAssumption, NoneAssumption DEF Typed, PanelInv, RequestInv, TargetInv,
   DiskInv, VerdictInv, Current, Target, TypeOK, Process, State, Run, Trigger, Outcome, Versions,
   Numbers, Verdicts, Asking, Busy, InFlight
<1>1. CASE UNCHANGED vars
  BY <1>1 DEF vars
<1>2. ASSUME NEW k \in Checks, FetchLatest(k) PROVE VerdictInv'
  BY <1>2 DEF FetchLatest, Release
<1>3. ASSUME NEW k \in Checks, StoreLatest(k) PROVE VerdictInv'
  BY <1>3 DEF StoreLatest, Release
<1>4. ASSUME NEW k \in Checks, PersistLatest(k) PROVE VerdictInv'
  BY <1>4 DEF PersistLatest
<1>5. CASE Publish
  BY <1>5 DEF Publish
<1>6. CASE Status
  <2>1. Judges(panel.ver)
    BY <1>6, Judgement DEF Status, Unlocked, Typed, TypeOK, Process, Versions
  <2> QED
    BY <1>6, <2>1 DEF Status, Unlocked, Judges
<1>7. CASE RequestUpdate
  BY <1>7 DEF RequestUpdate, Unlocked, InFlight, UpdateAvailable, WriteTrigger, Trigger
<1>8. CASE PersistState
  BY <1>8 DEF PersistState, SaveState, Answered
<1>9. CASE PersistFails
  BY <1>9 DEF PersistFails, Fault, Answered
<1>10. CASE Boot
  <2>1. Judges(installed)
    BY <1>10, Judgement DEF Boot, Typed, TypeOK, Process, Versions
  <2> QED
    BY <1>10, <2>1 DEF Boot, Bootable, Loaded, Down, Judges
<1>11. CASE PanelCrash
  BY <1>11 DEF PanelCrash, Fault, Dies, Down
<1>12. CASE TakeTrigger
  BY <1>12 DEF TakeTrigger, At, Idle, Trigger
<1>13. CASE UpToDate
  BY <1>13 DEF UpToDate, At
<1>14. CASE Download
  BY <1>14 DEF Download, At
<1>15. CASE DownloadFails
  BY <1>15 DEF DownloadFails, Fails, At, Fault, Found
<1>16. CASE StopService
  BY <1>16 DEF StopService, At, Dies, Down, Goes
<1>17. CASE ReplaceBinary
  BY <1>17 DEF ReplaceBinary, At, Goes
<1>18. CASE StartService
  BY <1>18 DEF StartService, At, Goes
<1>19. CASE Verified
  BY <1>19 DEF Verified, At, Exits
<1>20. CASE NotVerified
  BY <1>20 DEF NotVerified, At, Fault, Dies, Down, Goes
<1>21. CASE RestoreBinary
  BY <1>21 DEF RestoreBinary, Restored, At, Goes
<1>22. CASE RolledBack
  BY <1>22 DEF RolledBack, At, Fault, Exits
<1>23. CASE Report
  BY <1>23 DEF Report, Writes, At, Idle, WriteResult, Outcome
<1>24. CASE HelperTimeout
  BY <1>24 DEF HelperTimeout, At, Fault, Killed, Idle
<1>25. CASE Reboot
  BY <1>25 DEF Reboot, At, Fault, Dies, Down, Killed, Idle
<1>26. CASE NoScript
  BY <1>26 DEF NoScript, At, Fault
<1>27. CASE StopFails
  BY <1>27 DEF StopFails, Fails, At, Fault
<1>28. CASE Aborts
  BY <1>28 DEF Aborts, Fails, Strands, At, Fault
<1>29. CASE RestoreFails
  BY <1>29 DEF RestoreFails, At, Fault, Goes
<1>30. CASE WriteOutcome
  BY <1>30 DEF WriteOutcome, At, Fault, Goes, WriteResult, Outcome
<1>31. CASE ReportFails
  BY <1>31 DEF ReportFails, Writes, At, Fault, Idle
<1> QED
  BY <1>1, <1>2, <1>3, <1>4, <1>5, <1>6, <1>7, <1>8, <1>9, <1>10, <1>11, <1>12, <1>13, <1>14,
     <1>15, <1>16, <1>17, <1>18, <1>19, <1>20, <1>21, <1>22, <1>23, <1>24, <1>25, <1>26, <1>27,
     <1>28, <1>29, <1>30, <1>31 DEF Next, Helper

\* The duty to answer goes from the trigger to the helper and to the result.
LEMMA LiveStep ==
    ASSUME Typed, PanelInv, RequestInv, LiveInv, [Next]_vars PROVE LiveInv'
<1> USE SystemUpdateAssumption, NoneAssumption DEF Typed, PanelInv, RequestInv, LiveInv,
   Answerable, TypeOK, Process, State, Run, Trigger, Outcome, Versions, Numbers, Verdicts, Asking,
   Busy, InFlight
<1>1. CASE UNCHANGED vars
  BY <1>1 DEF vars
<1>2. ASSUME NEW k \in Checks, FetchLatest(k) PROVE LiveInv'
  BY <1>2 DEF FetchLatest, Release
<1>3. ASSUME NEW k \in Checks, StoreLatest(k) PROVE LiveInv'
  BY <1>3 DEF StoreLatest, Release
<1>4. ASSUME NEW k \in Checks, PersistLatest(k) PROVE LiveInv'
  BY <1>4 DEF PersistLatest
<1>5. CASE Publish
  BY <1>5 DEF Publish
<1>6. CASE Status
  <2>1. Judges(panel.ver)
    BY <1>6, Judgement DEF Status, Unlocked, Typed, TypeOK, Process, Versions
  <2> QED
    BY <1>6, <2>1 DEF Status, Unlocked, Judges
<1>7. CASE RequestUpdate
  BY <1>7 DEF RequestUpdate, Unlocked, InFlight, UpdateAvailable, WriteTrigger, Trigger
<1>8. CASE PersistState
  BY <1>8 DEF PersistState, SaveState, Answered
<1>9. CASE PersistFails
  BY <1>9 DEF PersistFails, Fault, Answered
<1>10. CASE Boot
  <2>1. Judges(installed)
    BY <1>10, Judgement DEF Boot, Typed, TypeOK, Process, Versions
  <2> QED
    BY <1>10, <2>1 DEF Boot, Bootable, Loaded, Down, Judges
<1>11. CASE PanelCrash
  BY <1>11 DEF PanelCrash, Fault, Dies, Down
<1>12. CASE TakeTrigger
  BY <1>12 DEF TakeTrigger, At, Idle, Trigger
<1>13. CASE UpToDate
  BY <1>13 DEF UpToDate, At
<1>14. CASE Download
  BY <1>14 DEF Download, At
<1>15. CASE DownloadFails
  BY <1>15 DEF DownloadFails, Fails, At, Fault, Found
<1>16. CASE StopService
  BY <1>16 DEF StopService, At, Dies, Down, Goes
<1>17. CASE ReplaceBinary
  BY <1>17 DEF ReplaceBinary, At, Goes
<1>18. CASE StartService
  BY <1>18 DEF StartService, At, Goes
<1>19. CASE Verified
  BY <1>19 DEF Verified, At, Exits
<1>20. CASE NotVerified
  BY <1>20 DEF NotVerified, At, Fault, Dies, Down, Goes
<1>21. CASE RestoreBinary
  BY <1>21 DEF RestoreBinary, Restored, At, Goes
<1>22. CASE RolledBack
  BY <1>22 DEF RolledBack, At, Fault, Exits
<1>23. CASE Report
  BY <1>23 DEF Report, Writes, At, Idle, WriteResult, Outcome
<1>24. CASE HelperTimeout
  BY <1>24 DEF HelperTimeout, At, Fault, Killed, Idle
<1>25. CASE Reboot
  BY <1>25 DEF Reboot, At, Fault, Dies, Down, Killed, Idle
<1>26. CASE NoScript
  BY <1>26 DEF NoScript, At, Fault
<1>27. CASE StopFails
  BY <1>27 DEF StopFails, Fails, At, Fault
<1>28. CASE Aborts
  BY <1>28 DEF Aborts, Fails, Strands, At, Fault
<1>29. CASE RestoreFails
  BY <1>29 DEF RestoreFails, At, Fault, Goes
<1>30. CASE WriteOutcome
  BY <1>30 DEF WriteOutcome, At, Fault, Goes, WriteResult, Outcome
<1>31. CASE ReportFails
  BY <1>31 DEF ReportFails, Writes, At, Fault, Idle
<1> QED
  BY <1>1, <1>2, <1>3, <1>4, <1>5, <1>6, <1>7, <1>8, <1>9, <1>10, <1>11, <1>12, <1>13, <1>14,
     <1>15, <1>16, <1>17, <1>18, <1>19, <1>20, <1>21, <1>22, <1>23, <1>24, <1>25, <1>26, <1>27,
     <1>28, <1>29, <1>30, <1>31 DEF Next, Helper

-----------------------------------------------------------------------------
(* Theorems *)

\* All of it together is inductive, and true at the start.
LEMMA Inductive ==
    ASSUME IInv, [Next]_vars PROVE IInv'
BY TypeStep, VersionStep, PanelStep, RequestStep, TargetStep, DiskStep, VerdictStep, LiveStep
   DEF IInv, Typed

\* The panel starts idle, with its first version on the disk.
LEMMA Start ==
    ASSUME Init PROVE IInv
<1> USE SystemUpdateAssumption, Zero DEF Init
<1>1. /\ panel \in Process /\ panel.up = TRUE /\ panel.ver = 1 /\ panel.asking = 0
  <2>1. 1 \in 0..MaxVersion
    OBVIOUS
  <2> QED
    BY <2>1 DEF Process, Down
<1>2. db \in State /\ db.st = "none" /\ db.n = 0 /\ db.by = 0
  BY DEF NoState, State
<1>3. helper \in Run /\ helper.pc = "idle"
  BY DEF Idle, Run, Verdicts
<1>4. TypeOK
  BY <1>1, <1>2, <1>3 DEF TypeOK, Versions, Numbers
<1>5. VersionInv /\ PanelInv /\ RequestInv /\ TargetInv /\ DiskInv /\ VerdictInv /\ LiveInv
  BY <1>1, <1>2, <1>3 DEF VersionInv, PanelInv, RequestInv, TargetInv, DiskInv, VerdictInv, LiveInv,
     Asking, Busy, InFlight, Current, Target
<1> QED
  BY <1>4, <1>5 DEF IInv, Typed

\* The inductive invariant: types, who holds which request's trigger, run and
\* result (manager.go, dockpal-update-helper.sh), and what is on the disk then.
THEOREM Invariance == Spec => []IInv
<1>1. Init => IInv
  BY Start
<1>2. IInv /\ [Next]_vars => IInv'
  BY Inductive
<1> QED
  BY <1>1, <1>2, PTL DEF Spec

\* Every variable of the update keeps its type: a trigger and a backup are
\* versions, and there are no more requests and faults than the bounds allow.
THEOREM SystemTyping == Spec => []TypeOK
<1>1. IInv => TypeOK
  BY DEF IInv, Typed
<1> QED
  BY <1>1, Invariance, PTL

\* When the last request is over and reported as done, its target is on the
\* disk (reconcileLocked's two sources, the running version and update.sh's
\* result), unless the verdict is that of another request or was rolled back.
THEOREM DoneIsTrue == Spec => []WrongDoneHasCause
<1>1. IInv => WrongDoneHasCause
  BY DEF IInv, Typed, TypeOK, VerdictInv, WrongDoneHasCause, Versions, State
<1> QED
  BY <1>1, Invariance, PTL

\* A request in flight has its trigger, its helper, or a result to be taken: it
\* is not refused and waited for in vain by every later RequestUpdate, unless
\* the helper was killed or could not write its result (write_result under
\* set -e), or the state could not be saved.
THEOREM NobodyLockedOut == Spec => []LockoutHasCause
<1>1. IInv => LockoutHasCause
  BY DEF IInv, LiveInv, Answerable, LockoutHasCause, Consumes, Busy
<1> QED
  BY <1>1, Invariance, PTL
=============================================================================
