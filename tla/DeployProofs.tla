---------------------------- MODULE DeployProofs ----------------------------
(***************************************************************************)
(* Proofs about the apps that the panel has deployed (module Services) and *)
(* about the sessions that report a deploy (module DeployStream).          *)
(*                                                                         *)
(* The four invariants of Services compare two of: containers, records,    *)
(* compose files, routes; and say so only of a name nobody works on.  None *)
(* is inductive.  IInv, at the end of that part, says of every moment what *)
(* they say of quiet ones: which difference a request may hold open, by    *)
(* where it is (LeftInv, GoneInv, FileInv, RouteInv, each with the causes  *)
(* that its property admits).  For that a request must know its record     *)
(* (HeldInv: the record it holds is there), a record must name its request *)
(* (IdInv), two records of an app must have been noticed (TwinInv), and so *)
(* must two requests at work on a name or on Traefik's file (OverlapInv).  *)
(*                                                                         *)
(* The second part proves of a session, for any readers, any number of     *)
(* events and any room in the channels: no panic, order without            *)
(* repetition, counted losses, and that the error of a failed run reaches  *)
(* whoever follows the stream to its end.                                  *)
(***************************************************************************)
EXTENDS Services, DeployStream, SequenceTheorems, FiniteSetTheorems, TLAPS

-----------------------------------------------------------------------------
(* The invariants of Services *)

\* A deploy that has made no record yet.
Unrecorded(r) == pc[r] \in {"clear", "clone", "read", "create", "save"} /\ Deploys(r)

\* A deletion that is past its containers.
Leaving(r) == pc[r] \in {"routes", "truncate", "write", "drop"} /\ ~Deploys(r)

\* An app whose containers are started and whose record is still to come.
Saving(app) == \E r \in Reqs : pc[r] = "save" /\ App(r) = app

\* Where a request is says what it is, and what it holds.
JobAt(r) ==
    AtWork(r) =>
        /\ job[r] \in Job
        /\ pc[r] \in {"clear", "clone", "read"} => job[r].kind = "git"
        /\ pc[r] = "pick" => job[r].kind = "toggle"
        /\ pc[r] = "create" => job[r].kind \notin DeleteKinds
        /\ pc[r] = "save" => Deploys(r)
        /\ pc[r] \in {"remove", "drop"} => job[r].kind \in DeleteKinds
        /\ pc[r] \in {"routes", "truncate", "write"} => job[r].kind # "toggle" /\ job[r].domain
        /\ pc[r] \in {"pick", "create", "save"} => took[r] \in Reqs
        /\ ~Deploys(r) =>
              /\ job[r].record \in Record
              /\ job[r].record.app = App(r) /\ job[r].record.domain = job[r].domain
        /\ job[r].kind = "toggle" => took[r] = job[r].record.compose

\* Every request is where its job may be.
JobInv == \A r \in Reqs : JobAt(r)

Typed == TypeOK /\ JobInv

\* The records there are, and those that requests hold.
Known == records \union {job[r].record : r \in {q \in Reqs : AtWork(q) /\ ~Deploys(q)}}

\* An ID names one record, made by the request it is.
IdInv ==
    /\ \A x, y \in Known : x.id = y.id => x = y
    /\ \A x \in Known : pc[x.id] # "idle" /\ ~Unrecorded(x.id)

\* Two requests at work on a name are noticed, and so are two on Traefik's file.
OverlapInv ==
    /\ \A q, r \in Reqs : q # r /\ AtWork(q) /\ AtWork(r) /\ Name(q) = Name(r) => Happened("at once", Name(r))
    /\ \A q, r \in Reqs : q # r /\ Routing(q) /\ Routing(r) => \A n \in Names : Happened("routes at once", n)

\* The record that a request holds is there, unless a toggle is yet to make it.
HeldAt(r) ==
    AtWork(r) /\ ~Deploys(r) /\ ~Happened("at once", Name(r)) =>
        \/ job[r].record \in records
        \/ /\ pc[r] = "pick" /\ ~job[r].domain
           /\ \A rec \in records : rec.app # App(r)

\* So it is for every request.
HeldInv == \A r \in Reqs : HeldAt(r)

\* Two records of an app, or two with a domain and one name, were noticed when
\* the second was saved.
TwinInv ==
    \A x, y \in records :
        /\ x # y /\ x.app = y.app => Caused({"at once", "duplicate"}, x.app[2])
        /\ x # y /\ x.app[2] = y.app[2] /\ x.domain /\ y.domain
              => Caused({"at once", "duplicate", "namesake"}, x.app[2])

\* What leaves containers without a record.
LeftCauses == {"at once", "cut short", "partial", "unsaved", "kept", "not removed", "other host"}

\* Containers have a record or are about to get one, and a deletion past its
\* containers has left none.
LeftInv ==
    /\ \A app \in Apps : ctr[app] # Nobody /\ ~Caused(LeftCauses, app[2]) => Recorded(app) \/ Saving(app)
    /\ \A r \in Reqs : Leaving(r) /\ ~Caused(LeftCauses, Name(r)) => ctr[App(r)] = Nobody

\* What leaves a record without containers.
GoneCauses == {"at once", "cut short", "partial", "duplicate", "other host", "not deleted"}

\* A record without containers is being deleted, and a toggle or a deploy that
\* is about to save has them.
GoneInv ==
    /\ \A app \in Apps : ctr[app] = Nobody /\ Recorded(app) /\ ~Caused(GoneCauses, app[2])
          => \E r \in Reqs : Leaving(r) /\ App(r) = app
    /\ \A r \in Reqs : pc[r] \in {"pick", "save"} /\ ~Caused(GoneCauses, Name(r)) => ctr[App(r)] # Nobody

\* What brings an old compose file back.
OldCauses == {"at once", "cut short", "unsaved", "duplicate", "failed file"}

\* Containers, file and record have the newest compose file, except that the
\* record of a deploy comes last; and a toggle has taken the newest.
FileInv ==
    /\ \A app \in Apps : ~Caused(OldCauses, app[2]) =>
          /\ ctr[app] \in {Nobody, newest[app]} /\ file[app] \in {Nobody, newest[app]}
          /\ \A rec \in records : rec.app = app /\ rec.compose \notin {Nobody, newest[app]} => Saving(app)
    /\ \A r \in Reqs :
          /\ pc[r] \in {"pick", "save"} \/ (pc[r] = "create" /\ ~Deploys(r))
          /\ ~Caused(OldCauses, Name(r))
          => took[r] = newest[App(r)]

\* Traefik's file has the name, or the one who has truncated it will write it.
Routed(n) == n \in routes \/ \E r \in Reqs : pc[r] = "write" /\ n \in seen[r]

HasDomain(n) == \E rec \in records : rec.app[2] = n /\ rec.domain

\* What parts the routes from the records.
RouteCauses ==
    {"at once", "cut short", "unsaved", "duplicate", "namesake", "not deleted", "route failed", "routes lost",
     "routes at once"}

\* What parts what a writer of Traefik's file has read from what it holds.
SeenCauses == {"routes lost", "routes at once"}

\* A single writer of Traefik's file has read what it holds, and writes into an
\* empty one.
SeenInv ==
    \A r \in Reqs, n \in Names : ~Caused(SeenCauses, n) =>
        /\ pc[r] = "truncate" => seen[r] = routes
        /\ pc[r] = "write" => routes = {}

\* Routes and domains differ only for a name whose route is being changed; a
\* deploy changes it after the record, a deletion before.
RouteInv ==
    /\ \A n \in Names : ~Caused(RouteCauses, n) /\ ~(Routed(n) <=> HasDomain(n)) =>
          \E r \in Reqs : pc[r] \in {"routes", "truncate", "write", "drop"} /\ Name(r) = n
    /\ \A r \in Reqs : AtWork(r) /\ ~Caused(RouteCauses, Name(r)) =>
          /\ Deploys(r) /\ pc[r] \in {"routes", "truncate", "write"} => HasDomain(Name(r))
          /\ pc[r] = "drop" => (Routed(Name(r)) <=> HasDomain(Name(r)) /\ ~job[r].domain)

\* The clone that is read is the request's own, unless another was cloning.
SourceInv ==
    /\ SourceIsOwn
    /\ \A r \in Reqs : pc[r] = "read" /\ repo \notin {Nobody, r} => Happened("clones at once", Name(r))
    /\ \A q, r \in Reqs : q # r /\ pc[q] = "clone" /\ pc[r] \in {"clone", "read"} =>
          Happened("clones at once", Name(q)) /\ Happened("clones at once", Name(r))

-----------------------------------------------------------------------------
(* What the operators do *)

\* Only request r moves.
Only(r) == \A q \in Reqs \ {r} : pc'[q] = pc[q] /\ job'[q] = job[q] /\ took'[q] = took[q]

\* What has happened stays so.
Grows == mishaps \subseteq mishaps'

\* An app is a host and a name.
LEMMA AppParts ==
    ASSUME NEW app \in Apps
    PROVE  app = <<app[1], app[2]>> /\ app[1] \in {Panel, Edge} /\ app[2] \in Names
BY DEF Apps, Names

\* The panel's own host has every local name.
LEMMA AppHere ==
    ASSUME NEW name \in LocalNames
    PROVE  <<Panel, name>> \in Apps /\ name \in Names /\ <<Panel, name>>[2] = name
BY DEF Apps, Names

\* Moving a request changes nothing else of the requests.
LEMMA GotoEffect ==
    ASSUME TypeOK, NEW r \in Reqs, NEW place \in Places, NEW source \in Reqs \union {Nobody},
           GotoWith(r, place, source)
    PROVE  /\ Only(r) /\ pc'[r] = place
           /\ place # "over" => job'[r] = job[r] /\ took'[r] = source
           /\ pc' \in [Reqs -> Places] /\ job' \in [Reqs -> Job \union {Nobody}]
           /\ took' \in [Reqs -> Reqs \union {Nobody}]
BY DEF TypeOK, GotoWith, Only

\* A request begins with what it was given, or with a record that is there; or
\* it is a toggle of an app that has none.
Begun(r, j, source, place) ==
    /\ pc[r] = "idle" /\ Starts(r, j, source, place)
    /\ \/ place = "create" /\ j.kind \in DeployKinds /\ source = r
       \/ place = "clear" /\ j.kind = "git" /\ source = Nobody
       \/ /\ place = "remove" /\ j.kind \in DeleteKinds
          /\ j.record \in records /\ j.app = j.record.app /\ j.domain = j.record.domain
       \/ /\ place = "pick" /\ j.kind = "toggle" /\ source = j.record.compose /\ source \in Reqs
          /\ j.record \in Record /\ j.app = j.record.app /\ j.domain = j.record.domain
          /\ \/ j.record \in records
             \/ /\ j.record.id = r /\ ~j.domain /\ source = file[j.app] /\ ctr[j.app] # Nobody
                /\ \A rec \in records : rec.app # j.app

\* Every way to begin is one of the four in Begun.
LEMMA BeginEffect ==
    ASSUME TypeOK, NEW r \in Reqs, Begins(r)
    PROVE  \E j \in Job, source \in Reqs \union {Nobody}, place \in Places : Begun(r, j, source, place)
<1> DEFINE Goal == \E j \in Job, source \in Reqs \union {Nobody}, place \in Places : Begun(r, j,
source, place)
<1> USE DEF Places, Job, Kinds, DeployKinds, DeleteKinds, MayStart
<1>1. ASSUME NEW kind \in DeployKinds, NEW app \in Apps, NEW domain \in BOOLEAN, DeployBegins(r, kind, app, domain)
      PROVE Goal
  <2> DEFINE j == [kind |-> kind, app |-> app, domain |-> domain, record |-> Nobody]
  <2>1. j \in Job /\ j.kind \in DeployKinds
    OBVIOUS
  <2>2. Begun(r, j, r, "create")
    BY <1>1, <2>1 DEF DeployBegins, Begun
  <2> QED
    BY <2>1, <2>2
<1>2. ASSUME NEW app \in Apps, GitBegins(r, app) PROVE Goal
  <2> DEFINE j == [kind |-> "git", app |-> app, domain |-> FALSE, record |-> Nobody]
  <2>1. j \in Job /\ j.kind = "git"
    OBVIOUS
  <2>2. Begun(r, j, Nobody, "clear")
    BY <1>2, <2>1 DEF GitBegins, Begun
  <2> QED
    BY <2>1, <2>2
<1>3. ASSUME NEW kind \in DeleteKinds, NEW rec \in records, WithRecord(r, kind, rec.app, rec, "remove") PROVE Goal
  <2> DEFINE j == [kind |-> kind, app |-> rec.app, domain |-> rec.domain, record |-> rec]
  <2>1. j \in Job /\ rec.compose \in Reqs \union {Nobody}
    BY DEF TypeOK, Record
  <2>2. /\ j.kind \in DeleteKinds /\ j.record \in records
        /\ j.app = j.record.app /\ j.domain = j.record.domain
    OBVIOUS
  <2>3. Begun(r, j, rec.compose, "remove")
    BY <1>3, <2>1, <2>2 DEF WithRecord, Begun
  <2> QED
    BY <2>1, <2>3
<1>4. ASSUME ToggleRequested(r) PROVE Goal
  <2>1. PICK rec \in records : rec.compose # Nobody /\ WithRecord(r, "toggle", rec.app, rec, "pick")
    BY <1>4 DEF ToggleRequested
  <2> DEFINE j == [kind |-> "toggle", app |-> rec.app, domain |-> rec.domain, record |-> rec]
  <2>2. j \in Job /\ rec.compose \in Reqs /\ rec \in Record
    BY <2>1 DEF TypeOK, Record
  <2>3. /\ j.kind = "toggle" /\ j.record = rec
        /\ j.app = j.record.app /\ j.domain = j.record.domain
    OBVIOUS
  <2>4. Begun(r, j, rec.compose, "pick")
    BY <2>1, <2>2, <2>3 DEF WithRecord, Begun
  <2> QED
    BY <2>2, <2>4
<1>5. ASSUME NEW app \in Apps, FallbackBegins(r, app) PROVE Goal
  <2> DEFINE rec == [id |-> r, app |-> app, type |-> "compose", domain |-> FALSE, compose |-> file[app]]
             j == [kind |-> "toggle", app |-> app, domain |-> FALSE, record |-> rec]
  <2>1. file[app] \in Reqs /\ ctr[app] # Nobody /\ \A x \in records : x.app # app
    BY <1>5 DEF FallbackBegins, TypeOK
  <2>2. rec \in Record
    BY <2>1 DEF Record
  <2>3. j \in Job
    BY <2>2
  <2>4. /\ j.kind = "toggle" /\ j.record = rec /\ j.app = app /\ j.domain = FALSE
        /\ rec.id = r /\ rec.app = app /\ rec.compose = file[app] /\ rec.domain = FALSE
    OBVIOUS
  <2>5. pc[r] = "idle" /\ Starts(r, j, file[app], "pick")
    BY <1>5 DEF FallbackBegins
  <2> HIDE DEF j, rec
  <2>6. Begun(r, j, file[app], "pick")
    BY <2>1, <2>2, <2>4, <2>5 DEF Begun
  <2> QED
    BY <2>1, <2>3, <2>6
<1> HIDE DEF Goal
<1>6. \/ \E kind \in DeployKinds, app \in Apps, domain \in BOOLEAN : DeployBegins(r, kind, app, domain)
      \/ \E app \in Apps : GitBegins(r, app)
      \/ \E kind \in DeleteKinds, rec \in records : WithRecord(r, kind, rec.app, rec, "remove")
      \/ ToggleRequested(r)
      \/ \E app \in Apps : FallbackBegins(r, app)
  <2>1. TemplateDomains \subseteq BOOLEAN /\ \A name \in LocalNames : <<Panel, name>> \in Apps
    BY ServicesAssumption, AppHere
  <2> HIDE DEF Places, Job, Kinds, MayStart
  <2> QED
    BY <2>1 DEF Begins, InstanceDeployStream, InstanceDeploy, InstanceTemplate, InstanceGit,
       PanelDeployStream,
       PanelDeploy, PanelTemplateStream, PanelTemplate, PanelGit, WebhookDeploy, DeleteRequested,
       ForgetRequested
<1>7. Goal
  BY <1>1, <1>2, <1>3, <1>4, <1>5, <1>6
<1> QED
  BY <1>7 DEF Goal

\* The actions, one by one.
LEMMA StepCases ==
    ASSUME TypeOK, [Next]_vars
    PROVE  \/ \E r \in Reqs, j \in Job, source \in Reqs \union {Nobody}, place \in Places : Begun(r, j, source, place)
           \/ \E r \in Reqs : Deploy(r) \/ Delete(r) \/ Route(r)
           \/ \E app \in Apps : Stop(app)
           \/ PanelStops
           \/ UNCHANGED vars
BY BeginEffect DEF Next

\* What a step of a request does to the requests.
Moved(r) ==
    /\ AtWork(r) /\ Only(r) /\ Grows
    /\ pc'[r] \in Places \ {"idle"}
    /\ pc'[r] # "over" => job'[r] = job[r]

RequestTyped ==
    /\ pc' \in [Reqs -> Places] /\ job' \in [Reqs -> Job \union {Nobody}]
    /\ took' \in [Reqs -> Reqs \union {Nobody}]

\* A beginning starts one request and notes the others on that name.
LEMMA BegunEffect ==
    ASSUME TypeOK, NEW r \in Reqs, NEW j \in Job, NEW source \in Reqs \union {Nobody}, NEW place \in Places,
           Begun(r, j, source, place)
    PROVE  /\ RequestTyped /\ Only(r) /\ Grows
           /\ pc'[r] = place /\ job'[r] = j /\ took'[r] = source
           /\ UNCHANGED <<seen, records, appVars, repo, routes>>
           /\ mishaps' \subseteq mishaps \union {<<"at once", j.app[2]>>}
           /\ AtWorkOn(j.app[2]) => <<"at once", j.app[2]>> \in mishaps'
<1> j.app[2] \in Names
  BY AppParts DEF Job
<1> QED
  BY DEF Begun, Starts, TypeOK, RequestTyped, Only, Grows, Note

\* A request at work has an app.
LEMMA Nowhere ==
    ASSUME TypeOK, NEW r \in Reqs, JobAt(r), AtWork(r)
    PROVE  App(r) \in Apps /\ Name(r) \in Names /\ App(r)[2] = Name(r)
BY AppParts DEF JobAt, Job, App, Name

\* What a deploy saves is a record.
LEMMA RecordTyped ==
    ASSUME TypeOK, NEW r \in Reqs, JobAt(r), pc[r] = "save"
    PROVE  RecordOf(r) \in Record
BY DEF TypeOK, JobAt, AtWork, Deploys, RecordOf, Record, Job, App

\* Where a request goes, unless it is over.
Paths(r) ==
    \/ pc[r] = "read" /\ pc'[r] = "create" /\ took'[r] \in Reqs
    \/ /\ took'[r] = took[r]
       /\ \/ pc[r] = "clear" /\ pc'[r] = "clone"
          \/ pc[r] = "clone" /\ pc'[r] = "read"
          \/ pc[r] = "pick" /\ pc'[r] = "create"
          \/ pc[r] = "create" /\ pc'[r] = "save" /\ Deploys(r)
          \/ pc[r] \in {"save", "remove"} /\ pc'[r] = RouteNext(r)
          \/ pc[r] = "routes" /\ pc'[r] = "truncate"
          \/ pc[r] = "truncate" /\ pc'[r] = "write"
          \/ pc[r] \in {"routes", "truncate", "write"} /\ pc'[r] = AfterRoutes(r)

\* A step of a request moves it along its path, or ends it.
LEMMA MoveEffect ==
    ASSUME Typed, NEW r \in Reqs, Deploy(r) \/ Delete(r) \/ Route(r)
    PROVE  Moved(r) /\ RequestTyped /\ (pc'[r] # "over" => Paths(r))
<1> DEFINE Goal == Moved(r) /\ RequestTyped /\ (pc'[r] # "over" => Paths(r))
<1>0. TypeOK /\ JobAt(r)
  BY DEF Typed, JobInv
<1>1. ASSUME NEW place \in Places \ {"idle"}, NEW source \in Reqs \union {Nobody}, GotoWith(r, place, source),
             AtWork(r), Grows,
             place # "over" /\ pc'[r] = place /\ took'[r] = source => Paths(r)
      PROVE  Goal
  BY <1>0, <1>1, GotoEffect DEF Moved, RequestTyped
<1>2. /\ took[r] \in Reqs \union {Nobody} /\ repo \in Reqs \union {Nobody} /\ pc[r] \in Places
      /\ \A place \in {"clone", "read", "create", "save", "truncate", "write", "routes", "drop", "over"} :
            place \in Places \ {"idle"}
  BY <1>0 DEF TypeOK, Places
<1> HIDE DEF Goal
<1>3. /\ RouteNext(r) \in {"routes", "over", "drop"} /\ AfterRoutes(r) \in {"over", "drop"}
      /\ RouteNext(r) \in Places \ {"idle"} /\ AfterRoutes(r) \in Places \ {"idle"}
  BY <1>2 DEF RouteNext, AfterRoutes
<1> USE DEF Goto, AtWork, Paths, Grows
<1>4. ASSUME CloneClears(r) PROVE Goal
  BY <1>1, <1>2, <1>4 DEF CloneClears
<1>5. ASSUME Clone(r) PROVE Goal
  BY <1>1, <1>2, <1>5 DEF Clone
<1>6. ASSUME ReadCompose(r) PROVE Goal
  BY <1>1, <1>2, <1>6 DEF ReadCompose
<1>7. ASSUME ToggleSaves(r) PROVE Goal
  BY <1>1, <1>2, <1>7 DEF ToggleSaves
<1>8. ASSUME DeployCompose(r) PROVE Goal
  BY <1>1, <1>2, <1>8 DEF DeployCompose, CreateAndStart, CreateFails
<1>9. ASSUME SaveService(r) PROVE Goal
  BY <1>1, <1>2, <1>3, <1>9 DEF SaveService, NoteTwins
<1>10. ASSUME SaveFails(r) PROVE Goal
  BY <1>1, <1>2, <1>3, <1>10 DEF SaveFails, Note
<1>11. ASSUME RemoveCompose(r) PROVE Goal
  BY <1>1, <1>2, <1>3, <1>11 DEF RemoveCompose
<1>12. ASSUME KeepContainers(r) PROVE Goal
  BY <1>1, <1>2, <1>3, <1>12 DEF KeepContainers, Note
<1>13. ASSUME DeleteService(r) PROVE Goal
  BY <1>1, <1>2, <1>13 DEF DeleteService
<1>14. ASSUME RoutesRead(r) PROVE Goal
  BY <1>1, <1>2, <1>14 DEF RoutesRead
<1>15. ASSUME RoutesFail(r) PROVE Goal
  BY <1>1, <1>2, <1>3, <1>15 DEF RoutesFail, Note
<1>16. ASSUME RoutesTruncate(r) PROVE Goal
  BY <1>1, <1>2, <1>16 DEF RoutesTruncate
<1>17. ASSUME RoutesWrite(r) PROVE Goal
  BY <1>1, <1>2, <1>3, <1>17 DEF RoutesWrite
<1>18. ASSUME DeleteFails(r) PROVE Goal
  BY <1>1, <1>2, <1>18 DEF DeleteFails, Note
<1>19. ASSUME RoutesUnread(r) PROVE Goal
  BY <1>1, <1>2, <1>19 DEF RoutesUnread, LosesRoutes
<1>20. ASSUME RoutesWriteFails(r) PROVE Goal
  BY <1>1, <1>2, <1>3, <1>20 DEF RoutesWriteFails, LosesRoutes
<1>21. Goal
  BY <1>4, <1>5, <1>6, <1>7, <1>8, <1>9, <1>10, <1>11, <1>12, <1>13, <1>14, <1>15, <1>16, <1>17, <1>18,
     <1>19, <1>20 DEF Deploy, Delete, Route
<1> QED
  BY <1>21 DEF Goal

\* Stop and PanelStops, to the requests.
LEMMA EndEffect ==
    ASSUME Typed, PanelStops
    PROVE  /\ RequestTyped /\ Grows
           /\ \A r \in Reqs : ~AtWork(r)' /\ (pc[r] # "idle" => pc'[r] # "idle")
           /\ \A r \in Reqs : AtWork(r) => <<"cut short", Name(r)>> \in mishaps'
           /\ \A r \in Reqs, n \in Names : pc[r] = "write" => <<"cut short", n>> \in mishaps'
           /\ UNCHANGED <<records, appVars, repo, routes>>
<1>0. TypeOK
  BY DEF Typed
<1>1. /\ pc' = [r \in Reqs |-> IF AtWork(r) THEN "over" ELSE pc[r]]
      /\ job' = [r \in Reqs |-> Nobody] /\ took' = [r \in Reqs |-> Nobody]
      /\ UNCHANGED <<records, appVars, repo, routes>>
  BY DEF PanelStops
<1>2. RequestTyped
  BY <1>0, <1>1 DEF RequestTyped, TypeOK, Places
<1>3. \A r \in Reqs : ~AtWork(r)' /\ (pc[r] # "idle" => pc'[r] # "idle")
  BY <1>1 DEF AtWork
<1>4. /\ Grows
      /\ \A r \in Reqs : AtWork(r) => <<"cut short", Name(r)>> \in mishaps'
      /\ \A r \in Reqs, n \in Names : pc[r] = "write" => <<"cut short", n>> \in mishaps'
  <2> DEFINE cut == {r \in Reqs : AtWork(r)}
             hit == IF \E r \in cut : pc[r] = "write" THEN Names ELSE {Name(r) : r \in cut}
  <2>1. mishaps' = mishaps \union {<<"cut short", n>> : n \in hit}
    BY DEF PanelStops
  <2>2. \A r \in Reqs : AtWork(r) => Name(r) \in hit
    BY <1>0, Nowhere DEF Typed, JobInv
  <2>3. \A r \in Reqs, n \in Names : pc[r] = "write" => n \in hit
    BY DEF AtWork
  <2> HIDE DEF hit
  <2> QED
    BY <2>1, <2>2, <2>3 DEF Grows
<1> QED
  BY <1>1, <1>2, <1>3, <1>4

-----------------------------------------------------------------------------
(* Types, and what requests are about *)

\* Requests keep their types, and what has happened stays so.
LEMMA JobStep ==
    ASSUME Typed, [Next]_vars
    PROVE  RequestTyped /\ JobInv' /\ Grows
<1>0. TypeOK /\ JobInv
  BY DEF Typed
<1>1. ASSUME NEW r \in Reqs, NEW j \in Job, NEW source \in Reqs \union {Nobody}, NEW place \in Places,
             Begun(r, j, source, place)
      PROVE  RequestTyped /\ JobInv' /\ Grows
  <2>1. /\ RequestTyped /\ Only(r) /\ Grows
        /\ pc'[r] = place /\ job'[r] = j /\ took'[r] = source
    BY <1>0, <1>1, BegunEffect
  <2>2. JobAt(r)'
    BY <1>1, <2>1, <1>0 DEF Begun, JobAt, Deploys, AtWork, App, DeployKinds, DeleteKinds, TypeOK
  <2>3. ASSUME NEW q \in Reqs \ {r} PROVE JobAt(q)'
    BY <1>0, <2>1 DEF Only, JobInv, JobAt, AtWork, Deploys, App
  <2> QED
    BY <2>1, <2>2, <2>3 DEF JobInv
<1>2. ASSUME NEW r \in Reqs, Deploy(r) \/ Delete(r) \/ Route(r)
      PROVE  RequestTyped /\ JobInv' /\ Grows
  <2>1. Moved(r) /\ RequestTyped /\ (pc'[r] # "over" => Paths(r))
    BY <1>2, MoveEffect
  <2>2. JobAt(r)'
    <3> SUFFICES ASSUME pc'[r] # "over" PROVE JobAt(r)'
      BY DEF JobAt, AtWork
    <3>1. JobAt(r) /\ AtWork(r) /\ job'[r] = job[r] /\ Paths(r)
      BY <1>0, <2>1 DEF JobInv, Moved
    <3> QED
      BY <3>1 DEF JobAt, AtWork, Deploys, App, Paths, RouteNext, AfterRoutes, DeployKinds, DeleteKinds,
         Job, Kinds
  <2>3. ASSUME NEW q \in Reqs \ {r} PROVE JobAt(q)'
    BY <1>0, <2>1 DEF Moved, Only, JobInv, JobAt, AtWork, Deploys, App
  <2> QED
    BY <2>1, <2>2, <2>3 DEF JobInv, Moved
<1>3. ASSUME NEW app \in Apps, Stop(app) PROVE RequestTyped /\ JobInv' /\ Grows
  BY <1>0, <1>3 DEF Stop, TypeOK, RequestTyped, JobInv, JobAt, AtWork, Deploys, App, Grows
<1>4. ASSUME PanelStops PROVE RequestTyped /\ JobInv' /\ Grows
  BY <1>0, <1>4, EndEffect DEF JobInv, JobAt
<1>5. ASSUME UNCHANGED vars PROVE RequestTyped /\ JobInv' /\ Grows
  BY <1>0, <1>5 DEF vars, TypeOK, RequestTyped, JobInv, JobAt, AtWork, Deploys, App, Grows
<1> QED
  BY <1>0, <1>1, <1>2, <1>3, <1>4, <1>5, StepCases

\* Whatever is noted is of the type of mishaps.
LEMMA NoteTyped ==
    ASSUME NEW n \in Names
    PROVE  \A w \in {"at once", "cut short", "clones at once", "failed file", "partial", "unsaved", "duplicate",
                     "namesake", "kept", "not removed", "other host", "not deleted", "route failed", "routes lost",
                     "routes at once"} :
              <<w, n>> \in What \X Names
BY DEF What

\* Two writers of Traefik's file are noted for every name.
LEMMA RoutesNoted ==
    ASSUME NEW r \in Reqs
    PROVE  /\ \A m \in RoutesAtOnce(r) : \E n \in Names : m = <<"routes at once", n>>
           /\ \A q \in Reqs \ {r} : Routing(q) => \A n \in Names : <<"routes at once", n>> \in RoutesAtOnce(r)
BY DEF RoutesAtOnce

\* A failed read or write of the file is noted for every name, too.
LEMMA LossNoted ==
    ASSUME NEW r \in Reqs, LosesRoutes(r)
    PROVE  /\ \A n \in Names : <<"routes lost", n>> \in mishaps'
           /\ \A m \in mishaps' : \/ m \in mishaps \union RoutesAtOnce(r)
                                 \/ \E n \in Names : m = <<"routes lost", n>>
           /\ RoutesAtOnce(r) \subseteq mishaps'
<1>1. mishaps' = mishaps \union {<<"routes lost", n>> : n \in Names} \union RoutesAtOnce(r)
  BY DEF LosesRoutes
<1> QED
  BY <1>1

\* A clone that begins beside others is noted for all of them.
LEMMA CloneNoted ==
    ASSUME NEW r \in Reqs, CloneClears(r)
    PROVE  /\ Grows
           /\ \A m \in mishaps' : m \in mishaps \/ \E q \in Reqs : (Cloning(q) /\ m = <<"clones at once", Name(q)>>)
           /\ \A q \in Reqs \ {r} : Cloning(q) =>
                 <<"clones at once", Name(q)>> \in mishaps' /\ <<"clones at once", Name(r)>> \in mishaps'
<1> DEFINE at == IF OthersCloning(r) = {} THEN {} ELSE OthersCloning(r) \union {r}
<1>1. mishaps' = mishaps \union {<<"clones at once", Name(q)>> : q \in at}
  BY DEF CloneClears
<1>2. \A q \in at : q \in Reqs /\ Cloning(q)
  BY DEF OthersCloning, CloneClears, Cloning
<1>3. \A q \in Reqs \ {r} : Cloning(q) => q \in at /\ r \in at
  BY DEF OthersCloning
<1> HIDE DEF at
<1> QED
  BY <1>1, <1>2, <1>3 DEF Grows

\* What a failed creation leaves.
FailNotes(r) ==
    /\ Grows
    /\ mishaps' \subseteq mishaps \union {<<"failed file", Name(r)>>, <<"partial", Name(r)>>}
    /\ took[r] # ctr[App(r)] => <<"failed file", Name(r)>> \in mishaps'

\* A failed creation is noted with what it left.
LEMMA FailNoted ==
    ASSUME NEW r \in Reqs, CreateFails(r)
    PROVE  \E left \in {ctr[App(r)], took[r], Nobody} :
              /\ ctr' = [ctr EXCEPT ![App(r)] = left]
              /\ FailNotes(r)
              /\ left # ctr[App(r)] => <<"partial", Name(r)>> \in mishaps'
<1>1. PICK left \in IF up[App(r)] \/ ~MayFail THEN {ctr[App(r)]} ELSE {ctr[App(r)], took[r], Nobody} :
          /\ ctr' = [ctr EXCEPT ![App(r)] = left]
          /\ mishaps' = mishaps
                \union (IF took[r] # ctr[App(r)] THEN {<<"failed file", Name(r)>>} ELSE {})
                \union IF left # ctr[App(r)] THEN {<<"partial", Name(r)>>} ELSE {}
  BY DEF CreateFails
<1> QED
  BY <1>1 DEF FailNotes, Grows

\* A removal keeps the types.
LEMMA RemoveTyped ==
    ASSUME TypeOK, NEW r \in Reqs, RemoveCompose(r)
    PROVE  /\ UNCHANGED <<records, newest, repo, seen, routes>>
           /\ ctr' \in [Apps -> Reqs \union {Nobody}] /\ file' \in [Apps -> Reqs \union {Nobody}]
           /\ up' \in [Apps -> BOOLEAN]
<1>1. UNCHANGED <<records, newest, repo, seen, routes>>
  BY DEF RemoveCompose, routeVars
<1>2. ctr' \in [Apps -> Reqs \union {Nobody}]
  <2>1. ctr' = ctr \/ ctr' = Without(ctr, <<Panel, Name(r)>>, Nobody)
    BY Zenon DEF RemoveCompose
  <2>2. ctr \in [Apps -> Reqs \union {Nobody}]
    BY DEF TypeOK
  <2> QED
    BY <2>1, <2>2 DEF Without
<1>3. file' \in [Apps -> Reqs \union {Nobody}]
  <2>1. file' = file \/ file' = Without(file, <<Panel, Name(r)>>, Nobody)
    BY Zenon DEF RemoveCompose
  <2>2. file \in [Apps -> Reqs \union {Nobody}]
    BY DEF TypeOK
  <2> QED
    BY <2>1, <2>2 DEF Without
<1>4. up' \in [Apps -> BOOLEAN]
  <2>1. up' = up \/ up' = Without(up, <<Panel, Name(r)>>, FALSE)
    BY Zenon DEF RemoveCompose
  <2>2. up \in [Apps -> BOOLEAN]
    BY DEF TypeOK
  <2> QED
    BY <2>1, <2>2 DEF Without
<1> QED
  BY <1>1, <1>2, <1>3, <1>4

\* Every step keeps the types.
LEMMA TypeStep ==
    ASSUME Typed, [Next]_vars
    PROVE  TypeOK'
<1>0. TypeOK /\ JobInv /\ RequestTyped
  BY JobStep DEF Typed
<1> DEFINE Rest ==
       /\ seen' \in [Reqs -> SUBSET Names] /\ records' \subseteq Record
       /\ ctr' \in [Apps -> Reqs \union {Nobody}] /\ up' \in [Apps -> BOOLEAN]
       /\ file' \in [Apps -> Reqs \union {Nobody}]
       /\ repo' \in Reqs \union {Nobody} /\ routes' \subseteq Names
       /\ newest' \in [Apps -> Reqs \union {Nobody}]
       /\ mishaps' \subseteq What \X Names
<1>1. ASSUME NEW r \in Reqs, NEW j \in Job, NEW source \in Reqs \union {Nobody}, NEW place \in Places,
             Begun(r, j, source, place)
      PROVE  Rest
  <2>1. /\ UNCHANGED <<seen, records, appVars, repo, routes>>
        /\ mishaps' \subseteq mishaps \union {<<"at once", j.app[2]>>}
    BY <1>0, <1>1, BegunEffect
  <2>2. <<"at once", j.app[2]>> \in What \X Names
    BY AppParts DEF Job, What
  <2> QED
    BY <1>0, <2>1, <2>2 DEF TypeOK, appVars
<1>2. ASSUME NEW r \in Reqs, Deploy(r) \/ Delete(r) \/ Route(r) PROVE Rest
  <2>1. JobAt(r) /\ AtWork(r)
    BY <1>0, <1>2, MoveEffect DEF Moved, JobInv, Typed
  <2>2. App(r) \in Apps /\ Name(r) \in Names
    BY <1>0, <2>1, Nowhere
  <2>3. \A q \in Reqs : Cloning(q) => Name(q) \in Names
    BY <1>0, Nowhere DEF JobInv, Cloning, AtWork
  <2>4. took[r] \in Reqs \union {Nobody} /\ repo \in Reqs \union {Nobody}
    BY <1>0 DEF TypeOK
  <2>0. /\ mishaps \subseteq What \X Names
        /\ \A n \in Names :
              /\ <<"clones at once", n>> \in What \X Names /\ <<"failed file", n>> \in What \X Names
              /\ <<"partial", n>> \in What \X Names /\ <<"unsaved", n>> \in What \X Names
              /\ <<"duplicate", n>> \in What \X Names /\ <<"namesake", n>> \in What \X Names
              /\ <<"kept", n>> \in What \X Names /\ <<"not removed", n>> \in What \X Names
              /\ <<"other host", n>> \in What \X Names /\ <<"route failed", n>> \in What \X Names
              /\ <<"not deleted", n>> \in What \X Names /\ <<"routes lost", n>> \in What \X Names
              /\ <<"routes at once", n>> \in What \X Names
    BY <1>0, NoteTyped DEF TypeOK
  <2>19. RoutesAtOnce(r) \subseteq What \X Names
    <3> SUFFICES ASSUME NEW m \in RoutesAtOnce(r) PROVE m \in What \X Names
      OBVIOUS
    <3>1. \E n \in Names : m = <<"routes at once", n>>
      BY RoutesNoted
    <3> QED
      BY <2>0, <3>1
  <2> USE <1>0, <2>1, <2>2 DEF TypeOK, appVars, routeVars, Note
  <2>5. ASSUME CloneClears(r) PROVE Rest
    <3>1. mishaps' \subseteq What \X Names
      <4>1. ASSUME NEW m \in mishaps' PROVE m \in What \X Names
        <5>1. m \in mishaps \/ \E q \in Reqs : (Cloning(q) /\ m = <<"clones at once", Name(q)>>)
          BY <2>5, CloneNoted
        <5> HIDE DEF TypeOK
        <5> QED
          BY <2>0, <2>3, <5>1
      <4> QED
        BY <4>1
    <3> QED
      BY <2>5, <3>1 DEF CloneClears
  <2>6. ASSUME Clone(r) PROVE Rest
    BY <2>6 DEF Clone
  <2>7. ASSUME ReadCompose(r) PROVE Rest
    BY <2>7 DEF ReadCompose
  <2>8. ASSUME ToggleSaves(r) PROVE Rest
    <3>1. job[r].record \in Record
      BY <2>8 DEF ToggleSaves, JobAt, Deploys, DeployKinds
    <3> QED
      BY <2>8, <3>1 DEF ToggleSaves
  <2>9. ASSUME DeployCompose(r) PROVE Rest
    <3>1. CASE CreateAndStart(r)
      BY <2>4, <2>9, <3>1 DEF DeployCompose, CreateAndStart, WriteComposeFile
    <3>2. CASE CreateFails(r)
      <4>1. mishaps' \subseteq What \X Names
        BY <2>0, <3>2, FailNoted DEF FailNotes
      <4> QED
        BY <2>4, <2>9, <3>2, <4>1 DEF DeployCompose, CreateFails, WriteComposeFile
    <3> QED
      BY <2>9, <3>1, <3>2 DEF DeployCompose
  <2>10. ASSUME SaveService(r) PROVE Rest
    <3>1. mishaps' \subseteq What \X Names
      <4>1. NoteTwins(r)
        BY <2>10 DEF SaveService
      <4> SUFFICES ASSUME NEW m \in mishaps' PROVE m \in What \X Names
        OBVIOUS
      <4>2. m \in mishaps \/ m = <<"duplicate", Name(r)>> \/ m = <<"namesake", Name(r)>>
        BY <4>1 DEF NoteTwins
      <4> QED
        BY <2>0, <4>2
    <3> QED
      BY <2>10, <3>1, RecordTyped DEF SaveService
  <2>11. ASSUME SaveFails(r) PROVE Rest
    <3>1. mishaps' \subseteq What \X Names
      BY <2>0, <2>11 DEF SaveFails
    <3> QED
      BY <2>11, <3>1 DEF SaveFails
  <2>12. ASSUME RemoveCompose(r) PROVE Rest
    <3>1. mishaps' \subseteq What \X Names
      BY <2>0, <2>12 DEF RemoveCompose
    <3> QED
      BY <3>1, <2>12, RemoveTyped
  <2>13. ASSUME KeepContainers(r) PROVE Rest
    <3>1. mishaps' \subseteq What \X Names
      BY <2>0, <2>13 DEF KeepContainers
    <3> QED
      BY <2>13, <3>1 DEF KeepContainers
  <2>14. ASSUME DeleteService(r) PROVE Rest
    BY <2>14 DEF DeleteService
  <2>15. ASSUME RoutesRead(r) PROVE Rest
    <3>1. mishaps' \subseteq What \X Names
      BY <2>0, <2>15, <2>19 DEF RoutesRead
    <3> QED
      BY <2>15, <3>1 DEF RoutesRead
  <2>16. ASSUME RoutesFail(r) PROVE Rest
    <3>1. mishaps' \subseteq What \X Names
      BY <2>0, <2>16 DEF RoutesFail
    <3> QED
      BY <2>16, <3>1 DEF RoutesFail
  <2>17. ASSUME RoutesTruncate(r) PROVE Rest
    <3>1. mishaps' \subseteq What \X Names
      BY <2>0, <2>17, <2>19 DEF RoutesTruncate
    <3> QED
      BY <2>17, <3>1 DEF RoutesTruncate
  <2>18. ASSUME RoutesWrite(r) PROVE Rest
    <3>1. mishaps' \subseteq What \X Names
      BY <2>0, <2>18, <2>19 DEF RoutesWrite
    <3> QED
      BY <2>18, <3>1 DEF RoutesWrite, RoutesWritten
  <2>20. ASSUME DeleteFails(r) PROVE Rest
    <3>1. mishaps' \subseteq What \X Names
      BY <2>0, <2>20 DEF DeleteFails
    <3> QED
      BY <2>20, <3>1 DEF DeleteFails
  <2>21. ASSUME LosesRoutes(r) PROVE mishaps' \subseteq What \X Names
    <3> HIDE DEF TypeOK, appVars, routeVars
    <3>1. SUFFICES ASSUME NEW m \in mishaps' PROVE m \in What \X Names
      OBVIOUS
    <3>2. CASE m \in mishaps \union RoutesAtOnce(r)
      BY <2>0, <2>19, <3>2
    <3>3. ASSUME NEW n \in Names, m = <<"routes lost", n>> PROVE m \in What \X Names
      BY <2>0, <3>3
    <3> QED
      BY <2>21, <3>2, <3>3, LossNoted
  <2>22. ASSUME RoutesUnread(r) PROVE Rest
    <3>1. mishaps' \subseteq What \X Names
      BY <2>21, <2>22 DEF RoutesUnread
    <3> QED
      BY <2>22, <3>1 DEF RoutesUnread
  <2>23. ASSUME RoutesWriteFails(r) PROVE Rest
    <3>1. mishaps' \subseteq What \X Names
      BY <2>21, <2>23 DEF RoutesWriteFails
    <3> QED
      BY <2>23, <3>1 DEF RoutesWriteFails, RoutesWritten
  <2> HIDE DEF Rest
  <2> QED
    BY <1>2, <2>5, <2>6, <2>7, <2>8, <2>9, <2>10, <2>11, <2>12, <2>13, <2>14, <2>15, <2>16, <2>17, <2>18,
       <2>20, <2>22, <2>23 DEF Deploy, Delete, Route
<1>3. ASSUME NEW app \in Apps, Stop(app) PROVE Rest
  BY <1>0, <1>3 DEF Stop, TypeOK
<1>4. ASSUME PanelStops PROVE Rest
  <2>1. UNCHANGED <<records, appVars, repo, routes>> /\ seen' = [r \in Reqs |-> {}]
    BY <1>4 DEF PanelStops
  <2>2. mishaps' \subseteq What \X Names
    <3>1. \A r \in Reqs : AtWork(r) => Name(r) \in Names
      BY <1>0, Nowhere DEF JobInv
    <3> DEFINE cut == {r \in Reqs : AtWork(r)}
               hit == IF \E r \in cut : pc[r] = "write" THEN Names ELSE {Name(r) : r \in cut}
    <3>2. hit \subseteq Names
      BY <3>1
    <3>3. mishaps' = mishaps \union {<<"cut short", n>> : n \in hit}
      BY <1>4 DEF PanelStops
    <3>4. \A n \in Names : <<"cut short", n>> \in What \X Names
      BY NoteTyped
    <3>5. mishaps \subseteq What \X Names
      BY <1>0 DEF TypeOK
    <3> HIDE DEF hit
    <3> QED
      BY <3>2, <3>3, <3>4, <3>5
  <2> QED
    BY <1>0, <2>1, <2>2 DEF TypeOK, appVars
<1>5. ASSUME UNCHANGED vars PROVE Rest
  BY <1>0, <1>5 DEF vars, appVars, TypeOK
<1> HIDE DEF Rest
<1>6. Rest
  BY <1>0, <1>1, <1>2, <1>3, <1>4, <1>5, StepCases
<1> QED
  BY <1>0, <1>6 DEF TypeOK, RequestTyped, Rest

-----------------------------------------------------------------------------
(* The records *)

\* The steps that change the records.
LEMMA RecordCases ==
    ASSUME NEW r \in Reqs, Deploy(r) \/ Delete(r) \/ Route(r)
    PROVE  records' = records \/ SaveService(r) \/ ToggleSaves(r) \/ DeleteService(r)
BY DEF Deploy, Delete, Route, CloneClears, Clone, ReadCompose, DeployCompose, SaveFails, RemoveCompose,
       KeepContainers, DeleteFails, RoutesRead, RoutesUnread, RoutesFail, RoutesTruncate, RoutesWrite, RoutesWriteFails

LEMMA IdStep ==
    ASSUME Typed, IdInv, [Next]_vars
    PROVE  IdInv'
<1>0. TypeOK /\ JobInv
  BY DEF Typed
<1>1. ASSUME NEW r \in Reqs, NEW j \in Job, NEW source \in Reqs \union {Nobody}, NEW place \in Places,
             Begun(r, j, source, place)
      PROVE  IdInv'
  <2>1. /\ Only(r) /\ records' = records
        /\ pc'[r] = place /\ job'[r] = j /\ pc[r] = "idle"
    BY <1>0, <1>1, BegunEffect DEF Begun
  <2>2. /\ place # "idle"
        /\ j.kind \notin DeployKinds => j.record \in records \/ (j.record.id = r /\ place = "pick")
    BY <1>1 DEF Begun, DeployKinds
  <2>3. \A x \in Known' : x \in Known \/ (x = j.record /\ x.id = r /\ place = "pick" /\ j.kind \notin DeployKinds)
    BY <2>1, <2>2 DEF Known, Only, AtWork, Deploys
  <2>4. \A x \in Known : x.id # r /\ pc'[x.id] # "idle" /\ ~Unrecorded(x.id)'
    <3> SUFFICES ASSUME NEW x \in Known PROVE x.id # r /\ pc'[x.id] # "idle" /\ ~Unrecorded(x.id)'
      OBVIOUS
    <3>1. x.id \in Reqs
      BY <1>0 DEF Known, TypeOK, JobInv, JobAt, Record
    <3>2. x.id # r /\ pc[x.id] # "idle" /\ ~Unrecorded(x.id)
      BY <2>1 DEF IdInv
    <3>3. pc'[x.id] = pc[x.id] /\ job'[x.id] = job[x.id]
      BY <2>1, <3>1, <3>2 DEF Only
    <3> QED
      BY <3>2, <3>3 DEF Unrecorded, Deploys
  <2>5. place = "pick" => pc'[r] # "idle" /\ ~Unrecorded(r)'
    BY <2>1 DEF Unrecorded
  <2> QED
    BY <2>3, <2>4, <2>5 DEF IdInv
<1>2. ASSUME NEW r \in Reqs, Deploy(r) \/ Delete(r) \/ Route(r) PROVE IdInv'
  <2>1. Moved(r) /\ (pc'[r] # "over" => Paths(r)) /\ JobAt(r)
    BY <1>0, <1>2, MoveEffect DEF JobInv
  <2>2. \A x \in Known : x.id \in Reqs
    BY <1>0 DEF Known, TypeOK, JobInv, JobAt, Record
  <2>3. Unrecorded(r)' => Unrecorded(r)
    BY <2>1 DEF Unrecorded, Moved, JobAt, AtWork, Paths, Deploys, RouteNext, AfterRoutes, DeployKinds
  <2>4. \A x \in Known : pc'[x.id] # "idle" /\ ~Unrecorded(x.id)'
    <3> SUFFICES ASSUME NEW x \in Known PROVE pc'[x.id] # "idle" /\ ~Unrecorded(x.id)'
      OBVIOUS
    <3>1. x.id \in Reqs /\ pc[x.id] # "idle" /\ ~Unrecorded(x.id)
      BY <2>2 DEF IdInv
    <3>2. CASE x.id = r
      BY <2>1, <2>3, <3>1, <3>2 DEF Moved
    <3>3. CASE x.id # r
      BY <2>1, <3>1, <3>3 DEF Moved, Only, Unrecorded, Deploys
    <3> QED
      BY <3>2, <3>3
  <2>5. \A q \in Reqs : AtWork(q)' => AtWork(q) /\ job'[q] = job[q]
    BY <2>1 DEF Moved, Only, AtWork
  <2>6. CASE SaveService(r)
    <3>1. records' = records \union {RecordOf(r)} /\ RecordOf(r).id = r /\ Unrecorded(r) /\ pc'[r] # "create"
      BY <1>0, <2>1, <2>6, RecordTyped, GotoEffect
         DEF SaveService, RecordOf, Unrecorded, JobAt, AtWork, Paths, Moved, RouteNext
    <3>2. ~Unrecorded(r)' /\ pc'[r] # "idle"
      BY <2>1, <2>6, <3>1 DEF Unrecorded, Paths, SaveService, RouteNext, Moved
    <3>3. \A x \in Known' : x \in Known \/ x = RecordOf(r)
      BY <2>5, <3>1 DEF Known, Deploys
    <3>4. \A x \in Known : x.id # r
      BY <3>1 DEF IdInv
    <3> HIDE DEF RecordOf
    <3> QED
      BY <2>4, <3>1, <3>2, <3>3, <3>4 DEF IdInv
  <2>7. ASSUME records' = records \/ ToggleSaves(r) \/ DeleteService(r) PROVE IdInv'
    <3>1. ToggleSaves(r) => job[r].record \in Known
      BY <2>1 DEF ToggleSaves, Known, JobAt, Moved, Deploys, DeployKinds
    <3>2. \A x \in records' : x \in Known
      BY <2>7, <3>1 DEF ToggleSaves, DeleteService, Known
    <3>3. \A x \in Known' : x \in Known
      BY <2>5, <3>2 DEF Known, Deploys
    <3> QED
      BY <2>4, <3>3 DEF IdInv
  <2> QED
    BY <1>2, <2>6, <2>7, RecordCases
<1>3. ASSUME NEW app \in Apps, Stop(app) PROVE IdInv'
  BY <1>3 DEF Stop, IdInv, Known, AtWork, Deploys, Unrecorded
<1>4. ASSUME PanelStops PROVE IdInv'
  <2>1. records' = records /\ \A r \in Reqs : ~AtWork(r)' /\ (pc[r] # "idle" => pc'[r] # "idle")
    BY <1>4, EndEffect
  <2>2. \A x \in Known' : x \in Known /\ x.id \in Reqs
    BY <1>0, <2>1 DEF Known, TypeOK, Record
  <2> QED
    BY <2>1, <2>2 DEF IdInv, Unrecorded, AtWork
<1>5. ASSUME UNCHANGED vars PROVE IdInv'
  BY <1>5 DEF vars, IdInv, Known, AtWork, Deploys, Unrecorded
<1> QED
  BY <1>0, <1>1, <1>2, <1>3, <1>4, <1>5, StepCases

-----------------------------------------------------------------------------
(* Overlaps, and what requests hold *)

\* The requests that are at work, and what they are about, after a step of one.
LEMMA MovedOthers ==
    ASSUME NEW r \in Reqs, Moved(r)
    PROVE  \A q \in Reqs : AtWork(q)' =>
              /\ AtWork(q) /\ job'[q] = job[q]
              /\ Name(q)' = Name(q) /\ App(q)' = App(q) /\ Deploys(q)' = Deploys(q)
BY DEF Moved, Only, AtWork, Name, App, Deploys

\* Two writers come about by a read of the file.
LEMMA RoutingStarts ==
    ASSUME Typed, NEW r \in Reqs, Deploy(r) \/ Delete(r) \/ Route(r), Routing(r)', ~Routing(r)
    PROVE  RoutesRead(r) \/ RoutesUnread(r)
<1>1. Moved(r) /\ (pc'[r] # "over" => Paths(r)) /\ TypeOK /\ JobAt(r)
  BY MoveEffect DEF Typed, JobInv
<1>2. pc[r] = "routes"
  BY <1>1 DEF Routing, Paths, AfterRoutes, RouteNext
<1>3. ~RoutesFail(r)
  BY <1>1, GotoEffect DEF RoutesFail, AfterRoutes, Goto, Routing, TypeOK, Places
<1> QED
  BY <1>2, <1>3 DEF Deploy, Delete, Route, CloneClears, Clone, ReadCompose, ToggleSaves, DeployCompose,
     SaveService,
     SaveFails, RemoveCompose, KeepContainers, DeleteService, DeleteFails, RoutesTruncate, RoutesWrite,
     RoutesWriteFails

LEMMA OverlapStep ==
    ASSUME Typed, OverlapInv, [Next]_vars
    PROVE  OverlapInv'
<1>0. TypeOK /\ JobInv /\ Grows
  BY JobStep DEF Typed
<1>1. ASSUME NEW r \in Reqs, NEW j \in Job, NEW source \in Reqs \union {Nobody}, NEW place \in Places,
             Begun(r, j, source, place)
      PROVE  OverlapInv'
  <2>1. /\ Only(r) /\ pc'[r] = place /\ job'[r] = j
        /\ AtWorkOn(j.app[2]) => <<"at once", j.app[2]>> \in mishaps'
    BY <1>0, <1>1, BegunEffect
  <2>2. place \in {"create", "clear", "remove", "pick"} /\ pc[r] = "idle"
    BY <1>1 DEF Begun
  <2>3. \A q \in Reqs \ {r} : /\ AtWork(q)' = AtWork(q) /\ Name(q)' = Name(q)
                              /\ Routing(q)' = Routing(q)
    BY <2>1 DEF Only, AtWork, Name, App, Routing
  <2>4. ~Routing(r)' /\ Name(r)' = j.app[2]
    BY <2>1, <2>2 DEF Routing, Name, App
  <2>5. ASSUME NEW q \in Reqs \ {r}, AtWork(q), Name(q) = j.app[2] PROVE <<"at once", j.app[2]>> \in mishaps'
    BY <2>1, <2>5 DEF AtWorkOn
  <2> QED
    BY <1>0, <2>3, <2>4, <2>5 DEF OverlapInv, Happened, Grows
<1>2. ASSUME NEW r \in Reqs, Deploy(r) \/ Delete(r) \/ Route(r) PROVE OverlapInv'
  <2>1. Moved(r)
    BY <1>2, MoveEffect
  <2>2. ASSUME NEW q \in Reqs, NEW p \in Reqs, q # p, AtWork(q)', AtWork(p)', Name(q)' = Name(p)'
        PROVE  Happened("at once", Name(p))'
    <3>1. AtWork(q) /\ AtWork(p) /\ Name(q) = Name(p) /\ Name(p)' = Name(p)
      BY <2>1, <2>2, MovedOthers
    <3> QED
      BY <1>0, <2>2, <3>1 DEF OverlapInv, Happened, Grows
  <2>3. ASSUME NEW q \in Reqs, NEW p \in Reqs, q # p, Routing(q)', Routing(p)', NEW n \in Names
        PROVE  Happened("routes at once", n)'
    <3>1. \A x \in Reqs \ {r} : Routing(x)' = Routing(x)
      BY <2>1 DEF Moved, Only, Routing
    <3>2. CASE Routing(q) /\ Routing(p)
      BY <1>0, <2>3, <3>2 DEF OverlapInv, Happened, Grows
    <3>3. CASE ~(Routing(q) /\ Routing(p))
      <4>1. (RoutesRead(r) \/ RoutesUnread(r)) /\ \E x \in Reqs \ {r} : Routing(x)
        BY <1>2, <2>3, <3>1, <3>3, RoutingStarts
      <4>2. RoutesAtOnce(r) \subseteq mishaps'
        BY <4>1, LossNoted DEF RoutesRead, RoutesUnread
      <4> QED
        BY <4>1, <4>2, RoutesNoted DEF Happened
    <3> QED
      BY <3>2, <3>3
  <2> QED
    BY <2>2, <2>3 DEF OverlapInv
<1>3. ASSUME NEW app \in Apps, Stop(app) PROVE OverlapInv'
  BY <1>3 DEF Stop, OverlapInv, AtWork, Name, App, Routing, Happened
<1>4. ASSUME PanelStops PROVE OverlapInv'
  BY <1>4, EndEffect DEF OverlapInv, AtWork, Routing
<1>5. ASSUME UNCHANGED vars PROVE OverlapInv'
  BY <1>5 DEF vars, OverlapInv, AtWork, Name, App, Routing, Happened
<1> QED
  BY <1>0, <1>1, <1>2, <1>3, <1>4, <1>5, StepCases

\* Requests at work on different names hold different records.
LEMMA Apart ==
    ASSUME Typed, IdInv, OverlapInv, NEW q \in Reqs, NEW r \in Reqs, q # r, AtWork(q), AtWork(r),
           ~Happened("at once", Name(q))
    PROVE  /\ Name(q) # Name(r) /\ App(q) # App(r)
           /\ ~Deploys(q) /\ ~Deploys(r) => job[q].record.id # job[r].record.id
<1>1. Name(q) # Name(r)
  BY DEF OverlapInv
<1>2. App(q) # App(r)
  BY <1>1 DEF Name
<1>3. ASSUME ~Deploys(q), ~Deploys(r) PROVE job[q].record.id # job[r].record.id
  <2>1. job[q].record \in Known /\ job[r].record \in Known
    BY <1>3 DEF Known
  <2>2. job[q].record.app = App(q) /\ job[r].record.app = App(r)
    BY <1>3 DEF Typed, JobInv, JobAt
  <2> QED
    BY <1>2, <2>1, <2>2 DEF IdInv
<1> QED
  BY <1>1, <1>2, <1>3

LEMMA HeldStep ==
    ASSUME Typed, IdInv, OverlapInv, HeldInv, [Next]_vars
    PROVE  HeldInv'
<1>0. TypeOK /\ JobInv /\ Grows
  BY JobStep DEF Typed
<1>1. ASSUME NEW r \in Reqs, NEW j \in Job, NEW source \in Reqs \union {Nobody}, NEW place \in Places,
             Begun(r, j, source, place)
      PROVE  HeldInv'
  <2>1. /\ Only(r) /\ pc'[r] = place /\ job'[r] = j /\ records' = records
    BY <1>0, <1>1, BegunEffect
  <2>2. HeldAt(r)'
    BY <1>1, <2>1 DEF Begun, HeldAt, Deploys, DeployKinds, App
  <2>3. ASSUME NEW q \in Reqs \ {r} PROVE HeldAt(q)'
    BY <1>0, <2>1 DEF Only, HeldInv, HeldAt, AtWork, Deploys, App, Name, Happened, Grows
  <2> QED
    BY <2>2, <2>3 DEF HeldInv
<1>2. ASSUME NEW r \in Reqs, Deploy(r) \/ Delete(r) \/ Route(r) PROVE HeldInv'
  <2>1. Moved(r)
    BY <1>2, MoveEffect
  <2>2. AtWork(r) /\ \A q \in Reqs \ {r} : pc'[q] = pc[q]
    BY <2>1 DEF Moved, Only
  <2> SUFFICES ASSUME NEW q \in Reqs, AtWork(q)', ~Deploys(q)', ~Happened("at once", Name(q))'
               PROVE  \/ job'[q].record \in records'
                      \/ /\ pc'[q] = "pick" /\ ~job'[q].domain
                         /\ \A rec \in records' : rec.app # App(q)'
    BY DEF HeldInv, HeldAt
  <2>3. AtWork(q) /\ job'[q] = job[q] /\ App(q)' = App(q) /\ ~Deploys(q) /\ ~Happened("at once", Name(q))
    BY <1>0, <2>1, MovedOthers DEF Happened, Grows
  <2>4. \/ job[q].record \in records
        \/ pc[q] = "pick" /\ ~job[q].domain /\ \A rec \in records : rec.app # App(q)
    BY <2>3 DEF HeldInv, HeldAt
  <2>5. q # r => App(q) # App(r) /\ (~Deploys(r) => job[q].record.id # job[r].record.id)
    BY <2>2, <2>3, Apart
  <2>6. CASE ToggleSaves(r)
    <3>1. /\ records' = {rec \in records : rec.id # job[r].record.id} \union {job[r].record}
          /\ ~Deploys(r) /\ job[r].record.app = App(r)
      BY <1>0, <2>2, <2>6 DEF ToggleSaves, JobInv, JobAt, Deploys, DeployKinds
    <3> QED
      BY <2>2, <2>3, <2>4, <2>5, <3>1
  <2>7. CASE SaveService(r)
    <3>1. records' = records \union {RecordOf(r)} /\ Deploys(r) /\ RecordOf(r).app = App(r)
      BY <1>0, <2>2, <2>7 DEF SaveService, JobInv, JobAt, RecordOf
    <3> QED
      BY <2>2, <2>3, <2>4, <2>5, <3>1
  <2>8. CASE DeleteService(r)
    <3>1. records' = {rec \in records : rec.id # job[r].record.id} /\ ~Deploys(r)
      BY <1>0, <2>2, <2>8 DEF DeleteService, JobInv, JobAt, Deploys, DeployKinds, DeleteKinds
    <3>2. q # r
      BY <1>0, <2>8 DEF DeleteService, Goto, GotoWith, TypeOK, AtWork
    <3> QED
      BY <2>2, <2>3, <2>4, <2>5, <3>1, <3>2
  <2>9. CASE records' = records /\ ~ToggleSaves(r)
    <3>1. q = r => pc[q] # "pick"
      BY <1>2, <2>9 DEF Deploy, Delete, Route, CloneClears, Clone, ReadCompose, DeployCompose,
         SaveService, SaveFails,
         RemoveCompose, KeepContainers, DeleteService, DeleteFails, RoutesRead, RoutesUnread, RoutesFail,
         RoutesTruncate,
         RoutesWrite, RoutesWriteFails
    <3> QED
      BY <2>2, <2>3, <2>4, <2>9, <3>1
  <2> QED
    BY <1>2, <2>6, <2>7, <2>8, <2>9, RecordCases
<1>3. ASSUME NEW app \in Apps, Stop(app) PROVE HeldInv'
  BY <1>3 DEF Stop, HeldInv, HeldAt, AtWork, Deploys, Name, App, Happened
<1>4. ASSUME PanelStops PROVE HeldInv'
  BY <1>0, <1>4, EndEffect DEF HeldInv, HeldAt, Typed
<1>5. ASSUME UNCHANGED vars PROVE HeldInv'
  BY <1>5 DEF vars, HeldInv, HeldAt, AtWork, Deploys, Name, App, Happened
<1> QED
  BY <1>0, <1>1, <1>2, <1>3, <1>4, <1>5, StepCases

\* A cause stays one.
LEMMA CausedGrows ==
    ASSUME Grows, NEW causes, NEW n, Caused(causes, n) PROVE Caused(causes, n)'
BY DEF Grows, Caused, Happened

\* A record that comes beside others of its name is noted.
LEMMA TwinsNoted ==
    ASSUME NEW r \in Reqs, SaveService(r), NEW rec \in records, rec.app[2] = Name(r)
    PROVE  <<IF rec.app = App(r) THEN "duplicate" ELSE "namesake", Name(r)>> \in mishaps'
BY DEF SaveService, NoteTwins

LEMMA TwinStep ==
    ASSUME Typed, IdInv, OverlapInv, HeldInv, TwinInv, [Next]_vars
    PROVE  TwinInv'
<1>0. TypeOK /\ JobInv /\ Grows
  BY JobStep DEF Typed
<1> DEFINE Pair(x, y) ==
        /\ x # y /\ x.app = y.app => Caused({"at once", "duplicate"}, x.app[2])
        /\ x # y /\ x.app[2] = y.app[2] /\ x.domain /\ y.domain
              => Caused({"at once", "duplicate", "namesake"}, x.app[2])
<1>1. ASSUME NEW x \in records, NEW y \in records PROVE Pair(x, y)'
  BY <1>0, CausedGrows DEF TwinInv
<1>2. CASE records' \subseteq records
  BY <1>1, <1>2 DEF TwinInv
<1>3. ASSUME NEW r \in Reqs, SaveService(r) PROVE TwinInv'
  <2>1. /\ records' = records \union {RecordOf(r)} /\ RecordOf(r).app = App(r)
    BY <1>3 DEF SaveService, RecordOf
  <2>2. ASSUME NEW x \in records PROVE \A y \in {RecordOf(r)} : Pair(x, y)' /\ Pair(y, x)'
    <3>1. x.app[2] = Name(r) =>
             <<IF x.app = App(r) THEN "duplicate" ELSE "namesake", Name(r)>> \in mishaps'
      BY <1>3, TwinsNoted
    <3> QED
      BY <2>1, <3>1 DEF Caused, Happened, Name
  <2> HIDE DEF Pair
  <2>3. ASSUME NEW x \in records', NEW y \in records', x # y PROVE Pair(x, y)'
    BY <1>1, <2>1, <2>2, <2>3
  <2> QED
    BY <2>3 DEF TwinInv, Pair
<1>4. ASSUME NEW r \in Reqs, ToggleSaves(r) PROVE TwinInv'
  <2>1. /\ \A x \in records' : x \in records \/ x = job[r].record
        /\ job[r].record.app = App(r) /\ job[r].record.domain = job[r].domain
        /\ AtWork(r) /\ ~Deploys(r)
    BY <1>0, <1>4 DEF ToggleSaves, JobInv, JobAt, AtWork, Deploys, DeployKinds
  <2>2. ASSUME NEW x \in records, job[r].record \notin records
        PROVE  \A y \in {job[r].record} : Pair(x, y)' /\ Pair(y, x)'
    <3>1. CASE Happened("at once", Name(r))
      BY <1>0, <2>1, <3>1 DEF Caused, Happened, Grows, Name
    <3>2. CASE ~Happened("at once", Name(r))
      <4>1. ~job[r].domain /\ x.app # App(r)
        BY <2>1, <2>2, <3>2 DEF HeldInv, HeldAt
      <4> QED
        BY <2>1, <4>1
    <3> QED
      BY <3>1, <3>2
  <2> HIDE DEF Pair
  <2>3. ASSUME NEW x \in records', NEW y \in records', x # y PROVE Pair(x, y)'
    BY <1>1, <2>1, <2>2, <2>3
  <2> QED
    BY <2>3 DEF TwinInv, Pair
<1>5. records' \subseteq records \/ \E r \in Reqs : SaveService(r) \/ ToggleSaves(r)
  <2>1. ASSUME NEW r \in Reqs, Deploy(r) \/ Delete(r) \/ Route(r)
        PROVE  records' \subseteq records \/ SaveService(r) \/ ToggleSaves(r)
    BY <2>1, RecordCases DEF DeleteService
  <2>2. ASSUME NEW r \in Reqs, NEW j \in Job, NEW source \in Reqs \union {Nobody}, NEW place \in Places,
               Begun(r, j, source, place)
        PROVE  records' \subseteq records
    BY <1>0, <2>2, BegunEffect
  <2> QED
    BY <1>0, <2>1, <2>2, StepCases DEF Stop, PanelStops, vars
<1> QED
  BY <1>2, <1>3, <1>4, <1>5

-----------------------------------------------------------------------------
(* The containers and the files *)

\* The steps that change containers and files.
LEMMA AppCases ==
    ASSUME NEW r \in Reqs, Deploy(r) \/ Delete(r) \/ Route(r)
    PROVE  UNCHANGED appVars \/ DeployCompose(r) \/ RemoveCompose(r)
BY DEF Deploy, Delete, Route, CloneClears, Clone, ReadCompose, ToggleSaves, SaveService, SaveFails,
   DeleteService, DeleteFails,
       KeepContainers, RoutesRead, RoutesUnread, RoutesFail, RoutesTruncate, RoutesWrite, RoutesWriteFails

\* Two at work on an app have been noticed.
LEMMA SameApp ==
    ASSUME OverlapInv, NEW q \in Reqs, NEW r \in Reqs, q # r, AtWork(q), AtWork(r), App(q) = App(r)
    PROVE  Name(q) = Name(r) /\ Happened("at once", Name(r))
BY DEF OverlapInv, Name

\* Who was about to save an app's record still is, or has tried.
LEMMA SavingStays ==
    ASSUME NEW r \in Reqs, Deploy(r) \/ Delete(r) \/ Route(r), Moved(r), NEW app, Saving(app)
    PROVE  Saving(app)' \/ (pc[r] = "save" /\ App(r) = app /\ (SaveService(r) \/ SaveFails(r)))
<1>1. PICK q \in Reqs : pc[q] = "save" /\ App(q) = app
  BY DEF Saving
<1>2. CASE q = r
  BY <1>1, <1>2 DEF Deploy, Delete, Route, CloneClears, Clone, ReadCompose, ToggleSaves, DeployCompose,
     RemoveCompose, KeepContainers, DeleteService, DeleteFails, RoutesRead, RoutesUnread, RoutesFail,
     RoutesTruncate, RoutesWrite, RoutesWriteFails
<1>3. CASE q # r
  BY <1>1, <1>3 DEF Moved, Only, Saving, App
<1> QED
  BY <1>2, <1>3

\* A request that is not about to save, before or after, is of no account here.
LEMMA SavingWaits ==
    ASSUME NEW r \in Reqs, Only(r), pc[r] # "save", pc'[r] # "save", NEW app
    PROVE  Saving(app)' <=> Saving(app)
BY DEF Only, Saving, App

\* A deletion goes on until it drops the record, or fails to.
LEMMA LeavingStays ==
    ASSUME Typed, NEW r \in Reqs, Deploy(r) \/ Delete(r) \/ Route(r), NEW q \in Reqs, Leaving(q)
    PROVE  (Leaving(q)' /\ App(q)' = App(q)) \/ (q = r /\ pc[r] = "drop" /\ (DeleteService(r) \/ DeleteFails(r)))
<1>1. Moved(r) /\ (pc'[r] # "over" => Paths(r)) /\ TypeOK
  BY MoveEffect DEF Typed
<1>2. CASE q # r
  BY <1>1, <1>2 DEF Moved, Only, Leaving, Deploys, App
<1>3. CASE q = r
  <2>1. \/ DeleteService(r) \/ DeleteFails(r) \/ RoutesRead(r) \/ RoutesUnread(r) \/ RoutesFail(r)
        \/ RoutesTruncate(r) \/ RoutesWrite(r) \/ RoutesWriteFails(r)
    BY <1>3 DEF Leaving, Deploy, Delete, Route, CloneClears, Clone, ReadCompose, ToggleSaves,
       DeployCompose,
       SaveService, SaveFails, RemoveCompose, KeepContainers
  <2>2. CASE DeleteService(r) \/ DeleteFails(r)
    BY <1>3, <2>2 DEF DeleteService, DeleteFails
  <2>3. CASE ~DeleteService(r) /\ ~DeleteFails(r)
    <3>1. pc'[r] \in {"truncate", "write", "drop"}
      BY <1>1, <1>3, <2>1, <2>3 DEF RoutesRead, RoutesUnread, RoutesFail, RoutesTruncate, RoutesWrite,
         RoutesWriteFails, Goto,
         GotoWith, AfterRoutes,
         Leaving, TypeOK
    <3> QED
      BY <1>1, <1>3, <3>1 DEF Leaving, Moved, Deploys, App
  <2> QED
    BY <2>2, <2>3
<1> QED
  BY <1>2, <1>3

\* A deletion comes past its containers from "remove".
LEMMA LeavingStarts ==
    ASSUME Typed, NEW r \in Reqs, Deploy(r) \/ Delete(r) \/ Route(r), NEW q \in Reqs, Leaving(q)'
    PROVE  /\ AtWork(q) /\ App(q)' = App(q) /\ Name(q)' = Name(q)
           /\ Leaving(q) \/ (q = r /\ pc[r] = "remove" /\ (RemoveCompose(r) \/ KeepContainers(r)))
<1>1. Moved(r) /\ (pc'[r] # "over" => Paths(r)) /\ TypeOK /\ JobAt(r)
  BY MoveEffect DEF Typed, JobInv
<1>2. AtWork(q) /\ App(q)' = App(q) /\ Name(q)' = Name(q) /\ Deploys(q)' = Deploys(q)
  BY <1>1, MovedOthers DEF Leaving, AtWork
<1>3. CASE q # r
  BY <1>1, <1>2, <1>3 DEF Moved, Only, Leaving, Deploys, App
<1>4. CASE q = r /\ ~Leaving(r)
  <2>1. pc[r] = "remove"
    BY <1>1, <1>2, <1>4 DEF Leaving, Paths, RouteNext, AfterRoutes, JobAt
  <2> QED
    BY <1>2, <1>4, <2>1 DEF Deploy, Delete, Route, CloneClears, Clone, ReadCompose, ToggleSaves,
       DeployCompose,
       SaveService, SaveFails, DeleteService, DeleteFails, RoutesRead, RoutesUnread, RoutesFail,
       RoutesTruncate, RoutesWrite, RoutesWriteFails
<1> QED
  BY <1>2, <1>3, <1>4

\* An app stays recorded, but for a deletion of its own.
LEMMA RecordedStays ==
    ASSUME Typed, IdInv, NEW r \in Reqs, Deploy(r) \/ Delete(r) \/ Route(r), NEW app, Recorded(app)
    PROVE  Recorded(app)' \/ (DeleteService(r) /\ pc[r] = "drop" /\ Leaving(r) /\ App(r) = app)
<1>1. Moved(r) /\ JobAt(r)
  BY MoveEffect DEF Typed, JobInv
<1>2. PICK rec \in records : rec.app = app
  BY DEF Recorded
<1>3. ASSUME ~Deploys(r), rec.id = job[r].record.id PROVE rec = job[r].record /\ App(r) = app
  BY <1>1, <1>2, <1>3 DEF IdInv, Known, Moved, JobAt
<1>4. CASE ToggleSaves(r)
  BY <1>1, <1>2, <1>3, <1>4 DEF ToggleSaves, Recorded, JobAt, Moved, Deploys, DeployKinds
<1>5. CASE DeleteService(r)
  BY <1>1, <1>2, <1>3, <1>5 DEF DeleteService, Recorded, JobAt, Moved, Deploys, DeployKinds,
     DeleteKinds, Leaving
<1>6. CASE records' = records \/ SaveService(r)
  BY <1>2, <1>6 DEF SaveService, Recorded
<1> QED
  BY <1>4, <1>5, <1>6, RecordCases

\* What DeployCompose does to the app.
LEMMA CreateEffect ==
    ASSUME Typed, NEW r \in Reqs, DeployCompose(r)
    PROVE  /\ AtWork(r) /\ pc[r] = "create" /\ took[r] \in Reqs /\ App(r) \in Apps
           /\ records' = records /\ pc'[r] \in {"save", "over"}
           /\ \A app \in Apps : app # App(r) =>
                 ctr'[app] = ctr[app] /\ file'[app] = file[app] /\ newest'[app] = newest[app]
           /\ file'[App(r)] = took[r]
           /\ \/ /\ ctr'[App(r)] = took[r]
                 /\ IF Deploys(r) THEN pc'[r] = "save" /\ newest'[App(r)] = took[r]
                                  ELSE pc'[r] = "over" /\ newest'[App(r)] = newest[App(r)]
              \/ /\ ctr'[App(r)] \in {ctr[App(r)], took[r], Nobody}
                 /\ pc'[r] = "over" /\ newest'[App(r)] = newest[App(r)] /\ FailNotes(r)
                 /\ ctr'[App(r)] # ctr[App(r)] => <<"partial", Name(r)>> \in mishaps'
<1>1. TypeOK /\ JobAt(r) /\ pc[r] = "create" /\ AtWork(r)
  BY DEF Typed, JobInv, DeployCompose, AtWork
<1>2. App(r) \in Apps /\ took[r] \in Reqs /\ records' = records
  BY <1>1, Nowhere DEF JobAt, DeployCompose
<1>3. ctr \in [Apps -> Reqs \union {Nobody}] /\ file \in [Apps -> Reqs \union {Nobody}]
      /\ newest \in [Apps -> Reqs \union {Nobody}] /\ pc \in [Reqs -> Places]
  BY <1>1 DEF TypeOK
<1>4. CASE CreateAndStart(r)
  BY <1>1, <1>2, <1>3, <1>4 DEF CreateAndStart, DeployCompose, WriteComposeFile, Goto, GotoWith
<1>5. CASE CreateFails(r)
  <2>1. newest' = newest /\ pc'[r] = "over" /\ file' = [file EXCEPT ![App(r)] = took[r]]
    BY <1>3, <1>5 DEF CreateFails, DeployCompose, WriteComposeFile, Goto, GotoWith
  <2> QED
    BY <1>1, <1>2, <1>3, <1>5, <2>1, FailNoted
<1> QED
  BY <1>4, <1>5 DEF DeployCompose

\* And RemoveCompose, to those of the name.
LEMMA RemoveEffect ==
    ASSUME Typed, NEW r \in Reqs, RemoveCompose(r)
    PROVE  /\ AtWork(r) /\ pc[r] = "remove" /\ Leaving(r)' /\ records' = records /\ newest' = newest
           /\ App(r) \in Apps /\ App(r)' = App(r)
           /\ \A app \in Apps :
                 /\ ctr'[app] = ctr[app] \/ (app = <<Panel, Name(r)>> /\ ctr'[app] = Nobody)
                 /\ file'[app] = file[app] \/ (app = <<Panel, Name(r)>> /\ file'[app] = Nobody)
           /\ \/ ctr' = ctr /\ <<"not removed", Name(r)>> \in mishaps'
              \/ /\ \A app \in Apps : app = <<Panel, Name(r)>> => ctr'[app] = Nobody
                 /\ <<Panel, Name(r)>> # App(r) /\ {ctr[<<Panel, Name(r)>>], ctr[App(r)]} # {Nobody} =>
                       <<"other host", Name(r)>> \in mishaps'
<1>1. TypeOK /\ JobAt(r) /\ pc[r] = "remove" /\ AtWork(r)
  BY DEF Typed, JobInv, RemoveCompose, AtWork
<1>2. App(r) \in Apps /\ records' = records /\ newest' = newest /\ ~Deploys(r)
  BY <1>1, Nowhere DEF JobAt, RemoveCompose, Deploys, DeployKinds, DeleteKinds
<1>3. pc'[r] \in {"routes", "drop"} /\ job'[r] = job[r]
  BY <1>1, <1>2 DEF RemoveCompose, RouteNext, Goto, GotoWith, TypeOK
<1>4. Leaving(r)' /\ App(r)' = App(r)
  BY <1>2, <1>3 DEF Leaving, Deploys, App
<1>5. /\ ctr' = ctr \/ ctr' = Without(ctr, <<Panel, Name(r)>>, Nobody)
      /\ file' = file \/ file' = Without(file, <<Panel, Name(r)>>, Nobody)
  BY Zenon DEF RemoveCompose
<1>6. \/ ctr' = ctr /\ <<"not removed", Name(r)>> \in mishaps'
      \/ /\ ctr' = Without(ctr, <<Panel, Name(r)>>, Nobody)
         /\ <<Panel, Name(r)>> # App(r) /\ {ctr[<<Panel, Name(r)>>], ctr[App(r)]} # {Nobody} =>
               <<"other host", Name(r)>> \in mishaps'
  BY DEF RemoveCompose
<1> QED
  BY <1>1, <1>2, <1>4, <1>5, <1>6 DEF Without

\* A container that is still there after it was removed is accounted for.
LEMMA RemoveLeft ==
    ASSUME Typed, NEW r \in Reqs, RemoveCompose(r), ctr'[App(r)] # Nobody
    PROVE  <<"other host", Name(r)>> \in mishaps' \/ <<"not removed", Name(r)>> \in mishaps'
<1> DEFINE here == <<Panel, Name(r)>>
<1>1. App(r) \in Apps /\ (ctr'[App(r)] = ctr[App(r)] \/ ctr'[App(r)] = Nobody)
  BY RemoveEffect
<1>2. ctr[App(r)] # Nobody
  BY <1>1
<1>3. \/ <<"not removed", Name(r)>> \in mishaps'
      \/ /\ here = App(r) => ctr'[App(r)] = Nobody
         /\ here # App(r) /\ {ctr[here], ctr[App(r)]} # {Nobody} => <<"other host", Name(r)>> \in mishaps'
  BY <1>1, RemoveEffect
<1> QED
  BY <1>2, <1>3

\* Stop and stuttering leave alone what the invariants are about.
LEMMA RestCases ==
    ASSUME (\E app \in Apps : Stop(app)) \/ UNCHANGED vars
    PROVE  UNCHANGED <<job, pc, took, seen, records, ctr, file, newest, repo, routes, mishaps>>
BY DEF Stop, vars, appVars

LEMMA LeftStep ==
    ASSUME Typed, IdInv, OverlapInv, HeldInv, LeftInv, [Next]_vars
    PROVE  LeftInv'
<1>0. TypeOK /\ JobInv /\ Grows
  BY JobStep DEF Typed
<1> DEFINE C(n) == Caused(LeftCauses, n)
<1>n. \A n : (\E w \in LeftCauses : <<w, n>> \in mishaps') => C(n)'
  BY DEF Caused, Happened
<1>m. \A n : C(n) => C(n)'
  BY <1>0, CausedGrows
<1>o. \A n : Happened("at once", n) => C(n)
  BY DEF Caused, LeftCauses
<1> HIDE DEF C
<1> SUFFICES /\ \A app \in Apps : ctr'[app] # Nobody /\ ~C(app[2])' => Recorded(app)' \/ Saving(app)'
             /\ \A r \in Reqs : Leaving(r)' /\ ~C(Name(r))' => ctr'[App(r)'] = Nobody
  BY DEF LeftInv, C
<1>i. /\ \A app \in Apps : ctr[app] # Nobody /\ ~C(app[2]) => Recorded(app) \/ Saving(app)
      /\ \A r \in Reqs : Leaving(r) /\ ~C(Name(r)) => ctr[App(r)] = Nobody
  BY DEF LeftInv, C
<1> DEFINE Goal ==
        /\ \A app \in Apps : ctr'[app] # Nobody /\ ~C(app[2])' => Recorded(app)' \/ Saving(app)'
        /\ \A r \in Reqs : Leaving(r)' /\ ~C(Name(r))' => ctr'[App(r)'] = Nobody
<1>1. ASSUME NEW r \in Reqs, NEW j \in Job, NEW source \in Reqs \union {Nobody}, NEW place \in Places,
             Begun(r, j, source, place)
      PROVE  Goal
  <2>1. /\ Only(r) /\ pc'[r] = place /\ job'[r] = j /\ records' = records /\ ctr' = ctr
        /\ place \in {"create", "clear", "remove", "pick"} /\ pc[r] = "idle"
    BY <1>0, <1>1, BegunEffect DEF appVars, Begun
  <2>2. \A app : Saving(app)' = Saving(app) /\ Recorded(app)' = Recorded(app)
    BY <2>1, SavingWaits DEF Recorded, Saving
  <2>3. ASSUME NEW q \in Reqs, Leaving(q)' PROVE Leaving(q) /\ App(q)' = App(q) /\ Name(q)' = Name(q)
    BY <2>1, <2>3 DEF Leaving, Only, Deploys, App, Name
  <2> QED
    BY <1>i, <1>m, <2>1, <2>2, <2>3
<1>2. ASSUME NEW r \in Reqs, Deploy(r) \/ Delete(r) \/ Route(r) PROVE Goal
  <2>1. Moved(r) /\ AtWork(r)
    BY <1>2, MoveEffect DEF Moved
  <2>2. CASE DeployCompose(r)
    <3>1. ASSUME NEW app \in Apps, ctr'[app] # Nobody, ~C(app[2])' PROVE Recorded(app)' \/ Saving(app)'
      <4>1. CASE ctr'[app] = ctr[app]
        BY <1>i, <1>m, <1>2, <2>1, <2>2, <3>1, <4>1, SavingStays, CreateEffect DEF Recorded
      <4>2. CASE ctr'[app] # ctr[app]
        <5>1. App(r) = app /\ Name(r) = app[2] /\ ~C(app[2])
          BY <1>m, <2>2, <3>1, <4>2, CreateEffect DEF Name
        <5>2. "partial" \in LeftCauses
          BY DEF LeftCauses
        <5>3. CASE Deploys(r)
          <6>1. pc'[r] = "save"
            BY <1>n, <2>2, <3>1, <4>2, <5>1, <5>2, <5>3, CreateEffect
          <6> QED
            BY <2>1, <5>1, <6>1 DEF Saving, Moved, App
        <5>4. CASE ~Deploys(r)
          <6>1. job[r].record \in records /\ job[r].record.app = App(r)
            <7>1. ~Happened("at once", Name(r)) /\ pc[r] = "create"
              BY <1>o, <2>2, <5>1, CreateEffect
            <7> QED
              BY <1>0, <2>1, <5>4, <7>1 DEF HeldInv, HeldAt, JobInv, JobAt
          <6> QED
            BY <2>2, <5>1, <6>1, CreateEffect DEF Recorded
        <5> QED
          BY <5>3, <5>4
      <4> QED
        BY <4>1, <4>2
    <3>2. ASSUME NEW q \in Reqs, Leaving(q)', ~C(Name(q))' PROVE ctr'[App(q)'] = Nobody
      <4>1. q # r /\ Leaving(q) /\ AtWork(q) /\ App(q)' = App(q) /\ Name(q)' = Name(q)
        BY <1>2, <2>2, <3>2, LeavingStarts, CreateEffect DEF Leaving
      <4>2. App(q) # App(r) /\ App(q) \in Apps
        BY <1>0, <1>m, <1>o, <2>1, <3>2, <4>1, SameApp, Nowhere DEF JobInv
      <4>3. ctr'[App(q)] = ctr[App(q)]
        BY <2>2, <4>2, CreateEffect
      <4> QED
        BY <1>i, <1>m, <3>2, <4>1, <4>3
    <3> QED
      BY <3>1, <3>2
  <2>3. CASE RemoveCompose(r)
    <3>0. "other host" \in LeftCauses /\ "not removed" \in LeftCauses
      BY DEF LeftCauses
    <3>1. ASSUME NEW app \in Apps, ctr'[app] # Nobody, ~C(app[2])' PROVE Recorded(app)' \/ Saving(app)'
      <4>1. ctr'[app] = ctr[app]
        BY <2>3, <3>1, RemoveEffect
      <4> QED
        BY <1>i, <1>m, <1>2, <2>1, <2>3, <3>1, <4>1, SavingStays, RemoveEffect DEF Recorded
    <3>2. ASSUME NEW q \in Reqs, Leaving(q)', ~C(Name(q))' PROVE ctr'[App(q)'] = Nobody
      <4>1. AtWork(q) /\ App(q)' = App(q) /\ Name(q)' = Name(q) /\ App(q) \in Apps
        BY <1>0, <1>2, <3>2, LeavingStarts, Nowhere DEF JobInv
      <4>2. CASE Leaving(q)
        BY <1>i, <1>m, <2>3, <3>2, <4>1, <4>2, RemoveEffect
      <4>3. CASE ~Leaving(q)
        <5>1. q = r
          BY <1>2, <3>2, <4>3, LeavingStarts
        <5> QED
          <6>1. ctr'[App(r)] # Nobody => \/ <<"other host", Name(r)>> \in mishaps'
                                         \/ <<"not removed", Name(r)>> \in mishaps'
            BY <2>3, RemoveLeft
          <6> QED
            BY <1>n, <3>0, <3>2, <4>1, <5>1, <6>1
      <4> QED
        BY <4>2, <4>3
    <3> QED
      BY <3>1, <3>2
  <2>4. CASE ~DeployCompose(r) /\ ~RemoveCompose(r)
    <3>0. ctr' = ctr
      BY <1>2, <2>4, AppCases DEF appVars
    <3>1. ASSUME NEW app \in Apps, ctr'[app] # Nobody, ~C(app[2])' PROVE Recorded(app)' \/ Saving(app)'
      <4>1. Recorded(app) \/ Saving(app)
        BY <1>i, <1>m, <3>0, <3>1
      <4>2. CASE Recorded(app)
        <5>1. ~(Leaving(r) /\ App(r) = app)
          BY <1>i, <1>m, <3>0, <3>1 DEF Name
        <5> QED
          BY <1>2, <4>2, <5>1, RecordedStays
      <4>3. CASE Saving(app) /\ ~Saving(app)'
        <5>1. App(r) = app /\ (SaveService(r) \/ SaveFails(r))
          BY <1>2, <2>1, <4>3, SavingStays
        <5>2. SaveService(r) => Recorded(app)'
          <6>1. SaveService(r) => RecordOf(r) \in records'
            BY DEF SaveService
          <6>2. RecordOf(r).app = app
            BY <5>1 DEF RecordOf
          <6> QED
            BY <6>1, <6>2 DEF Recorded
        <5>3. SaveFails(r) => <<"unsaved", app[2]>> \in mishaps'
          BY <5>1 DEF SaveFails, Note, Name
        <5>4. "unsaved" \in LeftCauses
          BY DEF LeftCauses
        <5> QED
          BY <1>n, <3>1, <5>1, <5>2, <5>3, <5>4
      <4> QED
        BY <4>1, <4>2, <4>3
    <3>2. ASSUME NEW q \in Reqs, Leaving(q)', ~C(Name(q))' PROVE ctr'[App(q)'] = Nobody
      <4>1. AtWork(q) /\ App(q)' = App(q) /\ Name(q)' = Name(q)
        BY <1>2, <3>2, LeavingStarts
      <4>2. CASE Leaving(q)
        BY <1>i, <1>m, <3>0, <3>2, <4>1, <4>2
      <4>3. CASE ~Leaving(q)
        <5>1. q = r /\ KeepContainers(r)
          BY <1>2, <2>4, <3>2, <4>3, LeavingStarts
        <5>2. ctr[App(r)] # Nobody => <<"kept", Name(r)>> \in mishaps'
          BY <5>1 DEF KeepContainers, Note
        <5>3. "kept" \in LeftCauses
          BY DEF LeftCauses
        <5> QED
          BY <1>n, <3>0, <3>2, <4>1, <5>1, <5>2, <5>3
      <4> QED
        BY <4>2, <4>3
    <3> QED
      BY <3>1, <3>2
  <2> QED
    BY <2>2, <2>3, <2>4
<1>3. ASSUME (\E app \in Apps : Stop(app)) \/ UNCHANGED vars PROVE Goal
  BY <1>0, <1>3, <1>i, <1>m, RestCases DEF Recorded, Saving, Leaving, Deploys, App, Name
<1>4. ASSUME PanelStops PROVE Goal
  <2>1. /\ records' = records /\ ctr' = ctr
        /\ \A r \in Reqs : ~AtWork(r)'
        /\ \A r \in Reqs : AtWork(r) => <<"cut short", Name(r)>> \in mishaps'
    BY <1>4, EndEffect DEF appVars
  <2>2. "cut short" \in LeftCauses
    BY DEF LeftCauses
  <2>3. \A app \in Apps : Saving(app) => C(app[2])'
    BY <1>n, <2>1, <2>2 DEF Saving, AtWork, Name
  <2>4. \A app \in Apps : Recorded(app)' = Recorded(app)
    BY <2>1 DEF Recorded
  <2>5. \A r \in Reqs : ~Leaving(r)'
    BY <2>1 DEF Leaving, AtWork
  <2> QED
    BY <1>i, <1>m, <2>1, <2>3, <2>4, <2>5
<1> HIDE DEF Goal
<1>5. Goal
  BY <1>0, <1>1, <1>2, <1>3, <1>4, StepCases
<1> QED
  BY <1>5 DEF Goal

LEMMA GoneStep ==
    ASSUME Typed, IdInv, OverlapInv, HeldInv, TwinInv, GoneInv, [Next]_vars
    PROVE  GoneInv'
<1>0. TypeOK /\ JobInv /\ Grows
  BY JobStep DEF Typed
<1> DEFINE C(n) == Caused(GoneCauses, n)
<1>n. \A n : (\E w \in GoneCauses : <<w, n>> \in mishaps') => C(n)'
  BY DEF Caused, Happened
<1>m. \A n : C(n) => C(n)'
  BY <1>0, CausedGrows
<1>o. \A n : Happened("at once", n) => C(n)
  BY DEF Caused, GoneCauses
<1>t. \A x, y \in records : x # y /\ x.app = y.app => C(x.app[2])
  BY DEF TwinInv, Caused, GoneCauses
<1> DEFINE Leaves(app) == \E r \in Reqs : Leaving(r) /\ App(r) = app
           Lives(r) == pc[r] \in {"pick", "save"}
           Goal ==
              /\ \A app \in Apps : ctr'[app] = Nobody /\ Recorded(app)' /\ ~C(app[2])' => Leaves(app)'
              /\ \A r \in Reqs : Lives(r)' /\ ~C(Name(r))' => ctr'[App(r)'] # Nobody
<1>g. Goal => GoneInv'
  BY DEF GoneInv
<1>i. /\ \A app \in Apps : ctr[app] = Nobody /\ Recorded(app) /\ ~C(app[2]) => Leaves(app)
      /\ \A r \in Reqs : Lives(r) /\ ~C(Name(r)) => ctr[App(r)] # Nobody
  BY DEF GoneInv
<1> HIDE DEF C
<1>1. ASSUME NEW r \in Reqs, NEW j \in Job, NEW source \in Reqs \union {Nobody}, NEW place \in Places,
             Begun(r, j, source, place)
      PROVE  Goal
  <2>1. /\ Only(r) /\ pc'[r] = place /\ job'[r] = j /\ records' = records /\ ctr' = ctr
        /\ place \in {"create", "clear", "remove", "pick"} /\ pc[r] = "idle"
        /\ AtWorkOn(j.app[2]) => <<"at once", j.app[2]>> \in mishaps'
    BY <1>0, <1>1, BegunEffect DEF appVars, Begun
  <2>2. \A app : Recorded(app)' = Recorded(app)
    BY <2>1 DEF Recorded
  <2>3. \A app : Leaves(app) => Leaves(app)'
    BY <2>1 DEF Leaving, Only, Deploys, App
  <2>4. ASSUME NEW q \in Reqs \ {r}, Lives(q)' PROVE Lives(q) /\ App(q)' = App(q) /\ Name(q)' = Name(q)
    BY <2>1, <2>4 DEF Only, App, Name
  <2>5. ASSUME place = "pick", ~C(j.app[2])' PROVE ctr[j.app] # Nobody
    <3>1. CASE j.record \in records
      <4>1. Recorded(j.app)
        BY <1>1, <2>5, <3>1 DEF Begun, Recorded
      <4>2. ASSUME Leaves(j.app) PROVE FALSE
        <5>1. AtWorkOn(j.app[2])
          BY <4>2 DEF Leaving, AtWorkOn, AtWork, Name
        <5> QED
          BY <1>n, <2>1, <2>5, <5>1 DEF GoneCauses
      <4> QED
        BY <1>i, <1>m, <2>5, <4>1, <4>2 DEF Job
    <3>2. CASE j.record \notin records
      BY <1>1, <2>5, <3>2 DEF Begun
    <3> QED
      BY <3>1, <3>2
  <2>6. App(r)' = j.app /\ Name(r)' = j.app[2]
    BY <2>1 DEF App, Name
  <2> QED
    BY <1>i, <1>m, <2>1, <2>2, <2>3, <2>4, <2>5, <2>6
<1>2. ASSUME NEW r \in Reqs, Deploy(r) \/ Delete(r) \/ Route(r) PROVE Goal
  <2>1. Moved(r) /\ AtWork(r) /\ (pc'[r] # "over" => Paths(r)) /\ JobAt(r)
    BY <1>0, <1>2, MoveEffect DEF Moved, JobInv
  <2>2. ASSUME NEW q \in Reqs, Lives(q)'
        PROVE  /\ AtWork(q) /\ App(q)' = App(q) /\ Name(q)' = Name(q)
               /\ Lives(q) \/ (q = r /\ DeployCompose(r))
    <3>1. AtWork(q) /\ App(q)' = App(q) /\ Name(q)' = Name(q)
      BY <2>1, <2>2, MovedOthers DEF AtWork
    <3>2. q = r => pc[r] = "create"
      BY <2>1, <2>2 DEF Paths, RouteNext, AfterRoutes
    <3>3. pc[r] = "create" => DeployCompose(r)
      BY <1>2 DEF Deploy, Delete, Route, CloneClears, Clone, ReadCompose, ToggleSaves,
         SaveService, SaveFails, RemoveCompose, KeepContainers, DeleteService, DeleteFails, RoutesRead,
         RoutesUnread, RoutesFail,
         RoutesTruncate,
         RoutesWrite, RoutesWriteFails
    <3> QED
      BY <2>1, <2>2, <3>1, <3>2, <3>3 DEF Moved, Only
  <2>3. ASSUME NEW q \in Reqs, q # r, AtWork(q), App(q) = App(r) PROVE C(Name(q)) /\ Name(q) = Name(r)
    BY <1>o, <2>1, <2>3, SameApp
  <2>4. ASSUME NEW app, Leaves(app), ~DeleteService(r), ~DeleteFails(r) PROVE Leaves(app)'
    BY <1>2, <2>4, LeavingStays
  <2>5. CASE DeployCompose(r)
    <3>1. ASSUME NEW app \in Apps, ctr'[app] = Nobody, Recorded(app)', ~C(app[2])' PROVE Leaves(app)'
      <4>1. Recorded(app) /\ ~DeleteService(r) /\ ~DeleteFails(r)
        BY <2>5, <3>1, CreateEffect DEF Recorded, DeleteService, DeleteFails
      <4>2. ctr[app] = Nobody
        <5>1. CASE app # App(r)
          BY <2>5, <3>1, <5>1, CreateEffect
        <5>2. CASE app = App(r)
          <6>1. Name(r) = app[2] /\ "partial" \in GoneCauses
            BY <5>2 DEF Name, GoneCauses
          <6>2. ctr'[app] # ctr[app] => <<"partial", Name(r)>> \in mishaps'
            BY <2>5, <3>1, <5>2, CreateEffect, ServicesAssumption
          <6> QED
            BY <1>n, <3>1, <6>1, <6>2
        <5> QED
          BY <5>1, <5>2
      <4> QED
        BY <1>i, <1>m, <2>4, <3>1, <4>1, <4>2
    <3>2. ASSUME NEW q \in Reqs, Lives(q)', ~C(Name(q))' PROVE ctr'[App(q)'] # Nobody
      <4>1. AtWork(q) /\ App(q)' = App(q) /\ ~C(Name(q)) /\ (Lives(q) \/ q = r) /\ App(q) \in Apps
        BY <1>0, <1>m, <2>2, <3>2, Nowhere DEF JobInv
      <4>2. CASE q = r
        <5>1. pc'[r] # "over"
          BY <3>2, <4>2
        <5> QED
          <6>1. ctr'[App(r)] = took[r] /\ took[r] \in Reqs
            BY <2>5, <5>1, CreateEffect
          <6> QED
            BY <4>1, <4>2, <6>1, ServicesAssumption
      <4>3. CASE q # r
        <5>1. ctr[App(q)] # Nobody /\ App(q) # App(r)
          BY <1>i, <2>3, <4>1, <4>3
        <5> QED
          <6>1. ctr'[App(q)] = ctr[App(q)]
            BY <2>5, <4>1, <5>1, CreateEffect
          <6> QED
            BY <4>1, <5>1, <6>1
      <4> QED
        BY <4>2, <4>3
    <3> QED
      BY <3>1, <3>2
  <2>6. CASE RemoveCompose(r)
    <3>1. ASSUME NEW app \in Apps, ctr'[app] = Nobody, Recorded(app)', ~C(app[2])' PROVE Leaves(app)'
      <4>1. Recorded(app) /\ ~DeleteService(r) /\ ~DeleteFails(r)
        BY <2>6, <3>1, RemoveEffect DEF Recorded, DeleteService, DeleteFails
      <4>2. CASE ctr[app] = Nobody
        BY <1>i, <1>m, <2>4, <3>1, <4>1, <4>2
      <4>3. CASE ctr[app] # Nobody
        <5>1. app = <<Panel, Name(r)>> /\ (app # App(r) => <<"other host", Name(r)>> \in mishaps')
          BY <2>6, <3>1, <4>3, RemoveEffect
        <5>2. app[2] = Name(r) /\ "other host" \in GoneCauses
          BY <5>1 DEF GoneCauses
        <5>3. app = App(r)
          BY <1>n, <3>1, <5>1, <5>2
        <5>4. Leaving(r)' /\ App(r)' = app
          BY <2>6, <5>3, RemoveEffect
        <5> QED
          BY <5>4
      <4> QED
        BY <4>2, <4>3
    <3>2. ASSUME NEW q \in Reqs, Lives(q)', ~C(Name(q))' PROVE ctr'[App(q)'] # Nobody
      <4>1. ~DeployCompose(r)
        BY <2>6 DEF RemoveCompose, DeployCompose
      <4>2. AtWork(q) /\ App(q)' = App(q) /\ ~C(Name(q)) /\ Lives(q) /\ App(q) \in Apps
        BY <1>0, <1>m, <2>2, <3>2, <4>1, Nowhere DEF JobInv
      <4>3. q # r
        BY <2>6, <4>2 DEF RemoveCompose
      <4>4. Name(q) # Name(r)
        BY <1>o, <2>1, <4>2, <4>3 DEF OverlapInv
      <4>5. ctr[App(q)] # Nobody /\ App(q) # <<Panel, Name(r)>>
        BY <1>i, <4>2, <4>4 DEF Name
      <4>6. ctr'[App(q)] = ctr[App(q)]
        BY <2>6, <4>2, <4>5, RemoveEffect
      <4> QED
        BY <4>2, <4>5, <4>6
    <3> QED
      BY <3>1, <3>2
  <2>7. CASE ~DeployCompose(r) /\ ~RemoveCompose(r)
    <3>0. ctr' = ctr
      BY <1>2, <2>7, AppCases DEF appVars
    <3>1. ASSUME NEW app \in Apps, ctr'[app] = Nobody, Recorded(app)', ~C(app[2])' PROVE Leaves(app)'
      <4>1. Recorded(app)
        <5>1. CASE SaveService(r) \/ ToggleSaves(r)
          <6>1. /\ Lives(r)
                /\ \A rec \in records' : rec \in records \/ rec.app = App(r)
            BY <2>1, <5>1 DEF SaveService, ToggleSaves, RecordOf, JobAt, Deploys, DeployKinds
          <6>2. app # App(r)
            BY <1>i, <1>m, <3>0, <3>1, <6>1 DEF Name
          <6> QED
            BY <3>1, <6>1, <6>2 DEF Recorded
        <5>2. CASE ~SaveService(r) /\ ~ToggleSaves(r)
          BY <1>2, <3>1, <5>2, RecordCases DEF Recorded, DeleteService
        <5> QED
          BY <5>1, <5>2
      <4>2. Leaves(app)
        BY <1>i, <1>m, <3>0, <3>1, <4>1
      <4>3. PICK q \in Reqs : Leaving(q) /\ App(q) = app
        BY <4>2
      <4>4. CASE Leaving(q)' /\ App(q)' = App(q)
        BY <4>3, <4>4
      <4>5. CASE q = r /\ DeleteService(r)
        <5>1. ~C(app[2]) /\ Name(r) = app[2] /\ ~Deploys(r)
          BY <1>m, <3>1, <4>3, <4>5 DEF Name, Leaving
        <5>2. job[r].record \in records /\ job[r].record.app = app
          BY <1>o, <2>1, <4>3, <4>5, <5>1 DEF HeldInv, HeldAt, JobAt, DeleteService
        <5>3. PICK rec \in records : rec.app = app /\ rec.id # job[r].record.id
          BY <3>1, <4>5 DEF Recorded, DeleteService
        <5> QED
          BY <1>t, <5>1, <5>2, <5>3
      <4>6. CASE q = r /\ DeleteFails(r)
        <5>1. Name(r) = app[2] /\ <<"not deleted", Name(r)>> \in mishaps'
          BY <4>3, <4>6 DEF Name, DeleteFails, Note
        <5> QED
          BY <1>n, <3>1, <5>1 DEF GoneCauses
      <4> QED
        BY <1>2, <4>3, <4>4, <4>5, <4>6, LeavingStays
    <3>2. ASSUME NEW q \in Reqs, Lives(q)', ~C(Name(q))' PROVE ctr'[App(q)'] # Nobody
      BY <1>i, <1>m, <2>2, <2>7, <3>0, <3>2
    <3> QED
      BY <3>1, <3>2
  <2> QED
    BY <2>5, <2>6, <2>7
<1>3. ASSUME (\E app \in Apps : Stop(app)) \/ UNCHANGED vars PROVE Goal
  BY <1>0, <1>3, <1>i, <1>m, RestCases DEF Recorded, Leaving, Deploys, App, Name
<1>4. ASSUME PanelStops PROVE Goal
  <2>1. /\ records' = records /\ ctr' = ctr
        /\ \A r \in Reqs : ~AtWork(r)'
        /\ \A r \in Reqs : AtWork(r) => <<"cut short", Name(r)>> \in mishaps'
    BY <1>4, EndEffect DEF appVars
  <2>2. "cut short" \in GoneCauses
    BY DEF GoneCauses
  <2>3. \A app \in Apps : Leaves(app) => C(app[2])'
    BY <1>n, <2>1, <2>2 DEF Leaving, AtWork, Name
  <2>4. \A app \in Apps : Recorded(app)' = Recorded(app)
    BY <2>1 DEF Recorded
  <2>5. \A r \in Reqs : ~Lives(r)'
    BY <2>1 DEF AtWork
  <2> QED
    BY <1>i, <1>m, <2>1, <2>3, <2>4, <2>5
<1> HIDE DEF Goal
<1>5. Goal
  BY <1>0, <1>1, <1>2, <1>3, <1>4, StepCases
<1> QED
  BY <1>5, <1>g

LEMMA FileStep ==
    ASSUME Typed, IdInv, OverlapInv, FileInv, [Next]_vars
    PROVE  FileInv'
<1>0. TypeOK /\ JobInv /\ Grows
  BY JobStep DEF Typed
<1> DEFINE C(n) == Caused(OldCauses, n)
<1>n. \A n : (\E w \in OldCauses : <<w, n>> \in mishaps') => C(n)'
  BY DEF Caused, Happened
<1>m. \A n : C(n) => C(n)'
  BY <1>0, CausedGrows
<1>o. \A n : Happened("at once", n) => C(n)
  BY DEF Caused, OldCauses
<1> DEFINE Restores(r) == pc[r] \in {"pick", "save"} \/ (pc[r] = "create" /\ ~Deploys(r))
           Current(app) == ctr[app] \in {Nobody, newest[app]} /\ file[app] \in {Nobody, newest[app]}
           Stale(app) == \E rec \in records : rec.app = app /\ rec.compose \notin {Nobody, newest[app]}
           Goal ==
              /\ \A app \in Apps : ~C(app[2])' => Current(app)' /\ (Stale(app)' => Saving(app)')
              /\ \A r \in Reqs : Restores(r)' /\ ~C(Name(r))' => took'[r] = newest'[App(r)']
<1>g. Goal => FileInv'
  BY DEF FileInv
<1>i. /\ \A app \in Apps : ~C(app[2]) => Current(app) /\ (Stale(app) => Saving(app))
      /\ \A r \in Reqs : Restores(r) /\ ~C(Name(r)) => took[r] = newest[App(r)]
  BY DEF FileInv
<1>w. \A w \in {"at once", "cut short", "unsaved", "duplicate", "failed file"} : w \in OldCauses
  BY DEF OldCauses
<1> HIDE DEF C
<1>1. ASSUME NEW r \in Reqs, NEW j \in Job, NEW source \in Reqs \union {Nobody}, NEW place \in Places,
             Begun(r, j, source, place)
      PROVE  Goal
  <2>0. /\ Only(r) /\ pc'[r] = place /\ job'[r] = j /\ took'[r] = source
        /\ UNCHANGED <<records, appVars>>
        /\ AtWorkOn(j.app[2]) => <<"at once", j.app[2]>> \in mishaps'
    BY <1>0, <1>1, BegunEffect
  <2>1. /\ records' = records /\ ctr' = ctr /\ file' = file /\ newest' = newest
        /\ place \in {"create", "clear", "remove", "pick"} /\ pc[r] = "idle"
    BY <1>1, <2>0 DEF appVars, Begun
  <2>2. \A app : Stale(app)' = Stale(app) /\ Saving(app)' = Saving(app) /\ Current(app)' = Current(app)
    BY <2>0, <2>1, SavingWaits DEF Saving
  <2>3. ASSUME NEW q \in Reqs \ {r}, Restores(q)'
        PROVE  Restores(q) /\ App(q)' = App(q) /\ Name(q)' = Name(q) /\ took'[q] = took[q]
    BY <2>0, <2>1, <2>3 DEF Only, App, Name, Deploys
  <2>4. ASSUME Restores(r)', ~C(j.app[2])' PROVE source = newest[j.app]
    <3>1. place = "pick"
      BY <1>1, <2>0, <2>1, <2>4 DEF Begun, Deploys
    <3>2. source = j.record.compose /\ source \in Reqs /\ j.app = j.record.app /\ j.app \in Apps
      BY <1>1, <3>1 DEF Begun, Job
    <3>3. source # Nobody
      BY <3>2, ServicesAssumption
    <3>4. CASE j.record \in records
      <4>1. ~Saving(j.app)
        <5>1. Saving(j.app) => AtWorkOn(j.app[2])
          BY DEF Saving, AtWorkOn, AtWork, Name
        <5> QED
          BY <1>n, <1>w, <2>0, <2>1, <2>4, <5>1
      <4> QED
        BY <1>i, <1>m, <2>4, <3>2, <3>3, <3>4, <4>1
    <3>5. CASE j.record \notin records
      <4>1. source = file[j.app]
        BY <1>1, <3>1, <3>5 DEF Begun
      <4> QED
        BY <1>i, <1>m, <2>4, <3>2, <3>3, <4>1
    <3> QED
      BY <3>4, <3>5
  <2>5. App(r)' = j.app /\ Name(r)' = j.app[2]
    BY <2>0, <2>1 DEF App, Name
  <2> HIDE DEF Restores, Stale, Current
  <2> QED
    BY <1>i, <1>m, <2>0, <2>1, <2>2, <2>3, <2>4, <2>5
<1>2. ASSUME NEW r \in Reqs, Deploy(r) \/ Delete(r) \/ Route(r) PROVE Goal
  <2>1. Moved(r) /\ AtWork(r) /\ (pc'[r] # "over" => Paths(r)) /\ JobAt(r)
    BY <1>0, <1>2, MoveEffect DEF Moved, JobInv
  <2>2. ASSUME NEW q \in Reqs, Restores(q)'
        PROVE  /\ AtWork(q) /\ App(q)' = App(q) /\ Name(q)' = Name(q) /\ took'[q] = took[q]
               /\ Restores(q) \/ (q = r /\ DeployCompose(r) /\ Deploys(r) /\ pc'[r] = "save")
    <3>1. AtWork(q) /\ App(q)' = App(q) /\ Name(q)' = Name(q) /\ Deploys(q)' = Deploys(q)
      BY <2>1, <2>2, MovedOthers DEF AtWork
    <3>2. CASE q # r
      BY <2>1, <2>2, <3>1, <3>2 DEF Moved, Only
    <3>3. CASE q = r
      <4>1. \/ pc[r] = "pick" /\ took'[r] = took[r]
            \/ pc[r] = "create" /\ pc'[r] = "save" /\ took'[r] = took[r] /\ Deploys(r)
        BY <2>1, <2>2, <3>1, <3>3 DEF Paths, RouteNext, AfterRoutes, JobAt, Deploys, DeployKinds
      <4>2. pc[r] = "create" => DeployCompose(r)
        BY <1>2 DEF Deploy, Delete, Route, CloneClears, Clone, ReadCompose, ToggleSaves,
           SaveService, SaveFails, RemoveCompose, KeepContainers, DeleteService, DeleteFails, RoutesRead,
           RoutesUnread, RoutesFail,
           RoutesTruncate, RoutesWrite, RoutesWriteFails
      <4> QED
        BY <3>1, <3>3, <4>1, <4>2
    <3> QED
      BY <3>2, <3>3
  <2>3. ASSUME NEW q \in Reqs, q # r, AtWork(q), App(q) = App(r) PROVE C(Name(q)) /\ Name(q) = Name(r)
    BY <1>o, <2>1, <2>3, SameApp
  <2>4. CASE DeployCompose(r)
    <3>0. records' = records /\ App(r)[2] = Name(r) /\ App(r) \in Apps /\ took[r] \in Reqs /\ pc[r] = "create"
      BY <2>4, CreateEffect DEF Name
    <3>1. ASSUME NEW app \in Apps, app # App(r), ~C(app[2])' PROVE Current(app)' /\ (Stale(app)' => Saving(app)')
      <4>1. ctr'[app] = ctr[app] /\ file'[app] = file[app] /\ newest'[app] = newest[app]
        BY <2>4, <3>1, CreateEffect
      <4>2. Saving(app) => Saving(app)'
        BY <1>2, <2>1, <3>0, SavingStays
      <4> QED
        BY <1>i, <1>m, <3>0, <3>1, <4>1, <4>2
    <3>2. ASSUME NEW q \in Reqs, q # r, Restores(q)', ~C(Name(q))' PROVE took'[q] = newest'[App(q)']
      <4>1. AtWork(q) /\ App(q)' = App(q) /\ took'[q] = took[q] /\ Restores(q) /\ ~C(Name(q))
        BY <1>m, <2>2, <3>2
      <4>2. App(q) # App(r) /\ App(q) \in Apps
        BY <1>0, <2>3, <3>2, <4>1, Nowhere DEF JobInv
      <4>3. newest'[App(q)] = newest[App(q)]
        BY <2>4, <4>2, CreateEffect
      <4> QED
        BY <1>i, <4>1, <4>3
    <3> DEFINE Mine ==
          /\ \A app \in {App(r)} : ~C(app[2])' => Current(app)' /\ (Stale(app)' => Saving(app)')
          /\ Restores(r)' /\ ~C(Name(r))' => took'[r] = newest'[App(r)']
    <3>3. ASSUME pc'[r] = "save" PROVE Mine
      <4>1. ctr'[App(r)] = took[r] /\ newest'[App(r)] = took[r] /\ file'[App(r)] = took[r]
        BY <2>4, <3>3, CreateEffect
      <4>2. job'[r] = job[r] /\ took'[r] = took[r]
        BY <2>1, <3>0, <3>3 DEF Moved, Paths, RouteNext, AfterRoutes
      <4>3. App(r)' = App(r)
        BY <4>2 DEF App
      <4>4. \A app \in {App(r)} : Saving(app)' /\ Current(app)'
        BY <3>3, <4>1, <4>3 DEF Saving
      <4> QED
        BY <4>1, <4>2, <4>3, <4>4
    <3>4. ASSUME pc'[r] # "save" PROVE Mine
      <4>1. newest'[App(r)] = newest[App(r)] /\ file'[App(r)] = took[r] /\ pc'[r] = "over"
        BY <2>4, <3>4, CreateEffect
      <4>2. ctr'[App(r)] \in {ctr[App(r)], took[r], Nobody}
        BY <2>4, CreateEffect
      <4>3. ~Restores(r)'
        BY <4>1
      <4>4. ASSUME NEW app \in {App(r)}, ~C(app[2])' PROVE Current(app)' /\ (Stale(app)' => Saving(app)')
        <5>1. ~C(app[2]) /\ app[2] = Name(r) /\ app = App(r) /\ app \in Apps
          BY <1>m, <3>0, <4>4
        <5>2. Saving(app) => Saving(app)'
          BY <1>2, <2>1, <3>0, SavingStays
        <5>3. Current(app) /\ (Stale(app) => Saving(app))
          BY <1>i, <5>1
        <5>4. took[r] = newest[app]
          <6>1. CASE Deploys(r)
            <7>1. FailNotes(r)
              BY <2>4, <4>1, <6>1, CreateEffect
            <7>2. took[r] = ctr[app]
              BY <1>n, <1>w, <4>4, <5>1, <7>1 DEF FailNotes
            <7> QED
              BY <3>0, <5>3, <7>2, ServicesAssumption
          <6>2. CASE ~Deploys(r)
            BY <1>i, <3>0, <5>1, <6>2
          <6> QED
            BY <6>1, <6>2
        <5> QED
          BY <3>0, <4>1, <4>2, <5>1, <5>2, <5>3, <5>4
      <4> HIDE DEF Restores, Stale, Current
      <4> QED
        BY <4>3, <4>4
    <3>5. Mine
      BY <3>3, <3>4
    <3> HIDE DEF Restores, Stale, Current
    <3> QED
      BY <3>1, <3>2, <3>5
  <2>5. CASE RemoveCompose(r)
    <3>0. records' = records /\ newest' = newest /\ pc[r] = "remove"
      BY <2>5, RemoveEffect
    <3>1. ASSUME NEW app \in Apps, ~C(app[2])' PROVE Current(app)' /\ (Stale(app)' => Saving(app)')
      <4>1. ctr'[app] \in {ctr[app], Nobody} /\ file'[app] \in {file[app], Nobody}
        BY <2>5, <3>1, RemoveEffect
      <4>2. Saving(app) => Saving(app)'
        BY <1>2, <2>1, <3>0, SavingStays
      <4> QED
        BY <1>i, <1>m, <3>0, <3>1, <4>1, <4>2
    <3>2. ASSUME NEW q \in Reqs, Restores(q)', ~C(Name(q))' PROVE took'[q] = newest'[App(q)']
      <4>1. ~DeployCompose(r)
        BY <3>0 DEF DeployCompose
      <4> QED
        BY <1>i, <1>m, <2>2, <3>0, <3>2, <4>1
    <3> HIDE DEF Restores, Stale, Current
    <3> QED
      BY <3>1, <3>2
  <2>6. CASE ~DeployCompose(r) /\ ~RemoveCompose(r)
    <3>0. ctr' = ctr /\ file' = file /\ newest' = newest
      BY <1>2, <2>6, AppCases DEF appVars
    <3>1. ASSUME NEW app \in Apps, ~C(app[2])' PROVE Current(app)' /\ (Stale(app)' => Saving(app)')
      <4>1. ~C(app[2]) /\ Current(app)' /\ (Stale(app) => Saving(app))
        BY <1>i, <1>m, <3>0, <3>1
      <4>2. Stale(app)' => Stale(app)
        <5>1. CASE SaveService(r) \/ ToggleSaves(r)
          <6>1. /\ Restores(r)
                /\ \A rec \in records' : rec \in records \/ (rec.app = App(r) /\ rec.compose \in {Nobody, took[r]})
            BY <2>1, <5>1 DEF SaveService, ToggleSaves, RecordOf, JobAt, Deploys, DeployKinds
          <6>2. app = App(r) => took[r] = newest[app]
            BY <1>i, <4>1, <6>1 DEF Name
          <6> QED
            BY <3>0, <6>1, <6>2
        <5>2. CASE ~SaveService(r) /\ ~ToggleSaves(r)
          BY <1>2, <3>0, <5>2, RecordCases DEF DeleteService
        <5> QED
          BY <5>1, <5>2
      <4>3. ASSUME Stale(app), Saving(app), ~Saving(app)' PROVE FALSE
        <5>1. App(r) = app /\ Name(r) = app[2] /\ (SaveService(r) \/ SaveFails(r))
          BY <1>2, <2>1, <4>3, SavingStays DEF Name
        <5>2. SaveFails(r) => <<"unsaved", app[2]>> \in mishaps'
          BY <5>1 DEF SaveFails, Note
        <5>3. SaveService(r) => <<"duplicate", app[2]>> \in mishaps'
          BY <4>3, <5>1, TwinsNoted
        <5> QED
          BY <1>n, <1>w, <3>1, <5>1, <5>2, <5>3
      <4> QED
        BY <4>1, <4>2, <4>3
    <3>2. ASSUME NEW q \in Reqs, Restores(q)', ~C(Name(q))' PROVE took'[q] = newest'[App(q)']
      BY <1>i, <1>m, <2>2, <2>6, <3>0, <3>2
    <3> HIDE DEF Restores, Stale, Current
    <3> QED
      BY <3>1, <3>2
  <2> QED
    BY <2>4, <2>5, <2>6
<1>3. ASSUME (\E app \in Apps : Stop(app)) \/ UNCHANGED vars PROVE Goal
  BY <1>0, <1>3, <1>i, <1>m, RestCases DEF Saving, Deploys, App, Name
<1>4. ASSUME PanelStops PROVE Goal
  <2>1. /\ UNCHANGED <<records, ctr, file, newest>>
        /\ \A r \in Reqs : ~AtWork(r)'
        /\ \A r \in Reqs : AtWork(r) => <<"cut short", Name(r)>> \in mishaps'
    BY <1>4, EndEffect DEF appVars
  <2>2. \A app \in Apps : Saving(app) => C(app[2])'
    BY <1>n, <1>w, <2>1 DEF Saving, AtWork, Name
  <2>3. \A app \in Apps : Stale(app)' = Stale(app) /\ Current(app)' = Current(app)
    BY <2>1
  <2>4. \A r \in Reqs : ~Restores(r)'
    BY <2>1 DEF AtWork
  <2> HIDE DEF Restores, Stale, Current
  <2> QED
    BY <1>i, <1>m, <2>2, <2>3, <2>4
<1> HIDE DEF Goal
<1>5. Goal
  BY <1>0, <1>1, <1>2, <1>3, <1>4, StepCases
<1> QED
  BY <1>5, <1>g

-----------------------------------------------------------------------------
(* Traefik's file *)

\* Only Route touches the file, or is between reading and writing it.
LEMMA RouteQuiet ==
    ASSUME Typed, NEW r \in Reqs, Deploy(r) \/ Delete(r)
    PROVE  routes' = routes /\ seen' = seen /\ ~Routing(r) /\ ~Routing(r)'
<1>1. routes' = routes /\ seen' = seen /\ pc[r] \notin {"routes", "truncate", "write"}
  BY DEF Deploy, Delete, routeVars, CloneClears, Clone, ReadCompose, ToggleSaves, DeployCompose,
     SaveService, SaveFails,
     RemoveCompose, KeepContainers, DeleteService, DeleteFails
<1>2. ~Routing(r)'
  BY <1>1, RoutingStarts DEF Routing, RoutesRead, RoutesUnread
<1> QED
  BY <1>1, <1>2 DEF Routing

\* What the steps of a writer do to the routes, unless they lose them.
LEMMA RouteEffect ==
    ASSUME Typed, NEW r \in Reqs, Route(r)
    PROVE  /\ Moved(r) /\ records' = records
           /\ \A q \in Reqs \ {r} : seen'[q] = seen[q]
           /\ \/ RoutesUnread(r) \/ RoutesWriteFails(r)
              \/ /\ RoutesRead(r) /\ pc[r] = "routes" /\ pc'[r] = "truncate"
                 /\ routes' = routes /\ seen'[r] = routes
              \/ /\ RoutesFail(r) /\ pc[r] \in {"routes", "truncate"} /\ pc'[r] = AfterRoutes(r)
                 /\ routes' = routes /\ <<"route failed", Name(r)>> \in mishaps'
              \/ /\ RoutesTruncate(r) /\ pc[r] = "truncate" /\ pc'[r] = "write"
                 /\ routes' = {} /\ seen' = seen
              \/ /\ RoutesWrite(r) /\ pc[r] = "write" /\ pc'[r] = AfterRoutes(r)
                 /\ routes' = RoutesWritten(r)
           /\ RoutesFail(r) => pc'[r] = AfterRoutes(r)
           /\ ~RoutesFail(r) => \A q \in Reqs \ {r} : Routing(q) =>
                 \A n \in Names : <<"routes at once", n>> \in mishaps'
           /\ RoutesUnread(r) \/ RoutesWriteFails(r) => \A n \in Names : <<"routes lost", n>> \in mishaps'
<1>1. Moved(r) /\ TypeOK
  BY MoveEffect DEF Typed
<1>2. \A place : Goto(r, place) => pc'[r] = place
  BY <1>1 DEF Goto, GotoWith, TypeOK
<1>3. records' = records /\ \A q \in Reqs \ {r} : seen'[q] = seen[q]
  BY <1>1 DEF Route, RoutesRead, RoutesUnread, RoutesFail, RoutesTruncate, RoutesWrite, RoutesWriteFails,
     TypeOK
<1>4. RoutesFail(r) => pc'[r] = AfterRoutes(r)
  BY <1>2 DEF RoutesFail
<1>10. RoutesUnread(r) \/ RoutesWriteFails(r) => LosesRoutes(r)
  BY DEF RoutesUnread, RoutesWriteFails
<1>11. RoutesUnread(r) \/ RoutesWriteFails(r) => \A n \in Names : <<"routes lost", n>> \in mishaps'
  BY <1>10, LossNoted
<1>5. CASE RoutesRead(r)
  BY <1>1, <1>2, <1>3, <1>4, <1>5, <1>11, RoutesNoted DEF RoutesRead, TypeOK
<1>6. CASE RoutesFail(r)
  BY <1>1, <1>2, <1>3, <1>4, <1>6, <1>11 DEF RoutesFail, Note
<1>7. CASE RoutesTruncate(r)
  BY <1>1, <1>2, <1>3, <1>4, <1>7, <1>11, RoutesNoted DEF RoutesTruncate
<1>8. CASE RoutesWrite(r)
  BY <1>1, <1>2, <1>3, <1>4, <1>8, <1>11, RoutesNoted DEF RoutesWrite
<1>9. CASE RoutesUnread(r) \/ RoutesWriteFails(r)
  BY <1>1, <1>3, <1>4, <1>9, <1>10, <1>11, RoutesNoted, LossNoted
<1> QED
  BY <1>5, <1>6, <1>7, <1>8, <1>9 DEF Route

LEMMA SeenStep ==
    ASSUME Typed, SeenInv, [Next]_vars
    PROVE  SeenInv'
<1>0. TypeOK /\ JobInv /\ Grows
  BY JobStep DEF Typed
<1>m. \A n : Caused(SeenCauses, n) => Caused(SeenCauses, n)'
  BY <1>0, CausedGrows
<1> DEFINE Read(r) == (pc[r] = "truncate" => seen[r] = routes) /\ (pc[r] = "write" => routes = {})
<1>i. ASSUME NEW r \in Reqs, NEW n \in Names, ~Caused(SeenCauses, n)' PROVE Read(r)
  BY <1>m, <1>i DEF SeenInv
<1> SUFFICES ASSUME NEW q \in Reqs, NEW n \in Names, ~Caused(SeenCauses, n)' PROVE Read(q)'
  BY DEF SeenInv
<1>1. ASSUME NEW r \in Reqs, NEW j \in Job, NEW source \in Reqs \union {Nobody}, NEW place \in Places,
             Begun(r, j, source, place)
      PROVE  Read(q)'
  <2>1. /\ Only(r) /\ pc'[r] = place /\ routes' = routes /\ seen' = seen
        /\ place \notin {"truncate", "write"}
    <3>1. Only(r) /\ pc'[r] = place /\ UNCHANGED <<seen, records, appVars, repo, routes>>
      BY <1>0, <1>1, BegunEffect
    <3>2. place \notin {"truncate", "write"}
      BY <1>1 DEF Begun
    <3> QED
      BY <3>1, <3>2
  <2> QED
    BY <1>i, <2>1 DEF Only
<1>2. ASSUME NEW r \in Reqs, Deploy(r) \/ Delete(r) PROVE Read(q)'
  <2>1. Moved(r)
    BY <1>2, MoveEffect
  <2> QED
    BY <1>i, <1>2, <2>1, RouteQuiet DEF Moved, Only, Routing
<1>3. ASSUME NEW r \in Reqs, Route(r) PROVE Read(q)'
  <2>0. ~RoutesUnread(r) /\ ~RoutesWriteFails(r) /\ <<"routes at once", n>> \notin mishaps'
    BY <1>3, RouteEffect DEF Caused, Happened, SeenCauses
  <2>1. CASE q = r
    BY <1>i, <1>3, <2>0, <2>1, RouteEffect DEF AfterRoutes
  <2>2. CASE q # r
    <3>1. pc'[q] = pc[q] /\ seen'[q] = seen[q] /\ (Routing(q) => RoutesFail(r))
      BY <1>3, <2>0, <2>2, RouteEffect DEF Moved, Only
    <3>2. RoutesFail(r) => routes' = routes
      BY DEF RoutesFail
    <3> QED
      BY <1>i, <3>1, <3>2 DEF Routing
  <2> QED
    BY <2>1, <2>2
<1>4. ASSUME (\E app \in Apps : Stop(app)) \/ UNCHANGED vars PROVE Read(q)'
  BY <1>0, <1>i, <1>4, RestCases
<1>5. ASSUME PanelStops PROVE Read(q)'
  BY <1>5, EndEffect DEF AtWork
<1> HIDE DEF Read
<1> QED
  BY <1>0, <1>1, <1>2, <1>3, <1>4, <1>5, StepCases

\* What a name's routers are, whoever is writing the file.
LEMMA RoutedMoves ==
    ASSUME Typed, OverlapInv, SeenInv, NEW r \in Reqs, Deploy(r) \/ Delete(r) \/ Route(r),
           NEW n \in Names, ~Caused(SeenCauses, n)'
    PROVE  Routed(n)' <=> IF RoutesWrite(r) /\ n = Name(r) THEN Deploys(r) ELSE Routed(n)
<1>1. Moved(r) /\ Grows
  BY MoveEffect DEF Moved
<1>2. ~Caused(SeenCauses, n) /\ <<"routes at once", n>> \notin mishaps' /\ <<"routes lost", n>> \notin mishaps'
  BY <1>1, CausedGrows DEF Caused, Happened, SeenCauses
<1>3. CASE Deploy(r) \/ Delete(r)
  <2>1. routes' = routes /\ seen' = seen /\ pc[r] # "write" /\ pc'[r] # "write" /\ ~RoutesWrite(r)
    BY <1>3, RouteQuiet DEF Routing, RoutesWrite
  <2> QED
    BY <1>1, <2>1 DEF Moved, Only, Routed
<1>4. CASE Route(r)
  <2>0. ~RoutesUnread(r) /\ ~RoutesWriteFails(r)
    BY <1>2, <1>4, RouteEffect
  <2>1. ~RoutesFail(r) => \A q \in Reqs \ {r} : pc[q] # "write" /\ pc'[q] # "write"
    BY <1>1, <1>2, <1>4, RouteEffect DEF Routing, Moved, Only
  <2>2. \A q \in Reqs \ {r} : pc'[q] = pc[q] /\ seen'[q] = seen[q]
    BY <1>1, <1>4, RouteEffect DEF Moved, Only
  <2>3. CASE RoutesRead(r) \/ RoutesFail(r)
    <3>1. pc[r] # "write" /\ pc'[r] # "write" /\ routes' = routes /\ ~RoutesWrite(r)
      BY <1>4, <2>0, <2>3, RouteEffect DEF RoutesRead, RoutesUnread, RoutesFail, RoutesTruncate, RoutesWrite,
         RoutesWriteFails, AfterRoutes
    <3> QED
      BY <2>2, <3>1 DEF Routed
  <2>4. CASE ~(RoutesRead(r) \/ RoutesFail(r))
    <3>1. \A q \in Reqs : (q # r => pc[q] # "write" /\ pc'[q] # "write")
      BY <2>1, <2>4
    <3>2. /\ pc[r] = "truncate" => seen[r] = routes
          /\ pc[r] = "write" => routes = {}
      BY <1>2 DEF SeenInv
    <3>3. CASE RoutesTruncate(r)
      <4>1. pc[r] = "truncate" /\ pc'[r] = "write" /\ routes' = {} /\ seen' = seen /\ ~RoutesWrite(r)
        BY <1>4, <2>0, <2>4, <3>3, RouteEffect DEF RoutesTruncate, RoutesWrite, RoutesWriteFails
      <4> QED
        BY <3>1, <3>2, <4>1 DEF Routed
    <3>4. CASE RoutesWrite(r)
      <4>1. pc[r] = "write" /\ pc'[r] # "write" /\ routes' = RoutesWritten(r)
        BY <1>4, <2>0, <2>4, <3>4, RouteEffect DEF RoutesTruncate, RoutesWrite, RoutesWriteFails, AfterRoutes
      <4>2. /\ Routed(n) <=> n \in seen[r]
            /\ Routed(n)' <=> n \in RoutesWritten(r)
        BY <3>1, <3>2, <4>1 DEF Routed
      <4> QED
        BY <3>4, <4>2 DEF RoutesWritten
    <3> QED
      BY <1>4, <2>0, <2>4, <3>3, <3>4 DEF Route
  <2> QED
    BY <2>3, <2>4
<1> QED
  BY <1>3, <1>4

\* Whether one of its records has a domain.
LEMMA DomainMoves ==
    ASSUME Typed, IdInv, HeldInv, TwinInv, NEW r \in Reqs, Deploy(r) \/ Delete(r) \/ Route(r),
           NEW n \in Names, ~Caused(RouteCauses, n)'
    PROVE  HasDomain(n)' <=>
              IF n # Name(r) THEN HasDomain(n)
              ELSE IF SaveService(r) THEN HasDomain(n) \/ job[r].domain
              ELSE IF DeleteService(r) THEN HasDomain(n) /\ ~job[r].domain
              ELSE HasDomain(n)
<1>1. Moved(r) /\ JobAt(r) /\ AtWork(r)
  BY MoveEffect DEF Typed, JobInv, Moved
<1>2. ~Caused(RouteCauses, n)
  BY <1>1, CausedGrows DEF Moved
<1>3. ~Happened("at once", n) /\ ~Caused({"at once", "duplicate", "namesake"}, n)
  BY <1>2 DEF Caused, RouteCauses
<1>4. job[r].domain \in BOOLEAN /\ \A rec \in records : rec.domain \in BOOLEAN
  BY <1>1 DEF JobAt, Job, Typed, TypeOK, Record
<1>5. CASE SaveService(r)
  <2>1. /\ records' = records \union {RecordOf(r)}
        /\ RecordOf(r).app = App(r) /\ RecordOf(r).domain = job[r].domain
    BY <1>5 DEF SaveService, RecordOf
  <2> HIDE DEF RecordOf
  <2> QED
    BY <1>4, <1>5, <2>1 DEF HasDomain, Name
<1>6. ASSUME ~Deploys(r)
      PROVE  /\ job[r].record.app = App(r) /\ job[r].record.domain = job[r].domain
             /\ \A rec \in records : rec.id = job[r].record.id => rec = job[r].record
  BY <1>1, <1>6 DEF JobAt, IdInv, Known
<1>7. CASE ToggleSaves(r)
  <2>1. /\ records' = {rec \in records : rec.id # job[r].record.id} \union {job[r].record}
        /\ ~Deploys(r) /\ ~SaveService(r) /\ ~DeleteService(r)
    BY <1>1, <1>7 DEF ToggleSaves, JobAt, Deploys, DeployKinds, SaveService, DeleteService
  <2>2. n = Name(r) => job[r].record \in records \/ ~job[r].domain
    BY <1>1, <1>3, <2>1 DEF HeldInv, HeldAt
  <2> QED
    BY <1>6, <2>1, <2>2 DEF HasDomain, Name
<1>8. CASE DeleteService(r)
  <2>1. /\ records' = {rec \in records : rec.id # job[r].record.id}
        /\ ~Deploys(r) /\ ~SaveService(r) /\ pc[r] = "drop"
    BY <1>1, <1>8 DEF DeleteService, JobAt, Deploys, DeployKinds, DeleteKinds, SaveService
  <2>2. n = Name(r) => job[r].record \in records
    BY <1>1, <1>3, <2>1 DEF HeldInv, HeldAt
  <2>3. ASSUME n = Name(r), job[r].domain PROVE ~HasDomain(n)'
    <3>1. ASSUME NEW rec \in records', rec.app[2] = n, rec.domain PROVE FALSE
      <4>1. rec \in records /\ rec # job[r].record
        BY <2>1, <3>1
      <4>2. job[r].record.app[2] = n
        BY <1>6, <2>1, <2>3 DEF Name
      <4> QED
        BY <1>3, <1>6, <2>1, <2>2, <2>3, <3>1, <4>1, <4>2 DEF TwinInv
    <3> QED
      BY <3>1 DEF HasDomain
  <2>4. ASSUME n # Name(r) \/ ~job[r].domain PROVE HasDomain(n)' <=> HasDomain(n)
    BY <1>6, <2>1, <2>4 DEF HasDomain, Name
  <2> QED
    BY <1>8, <2>1, <2>3, <2>4
<1>9. CASE records' = records /\ ~SaveService(r) /\ ~DeleteService(r)
  BY <1>9 DEF HasDomain
<1> QED
  BY <1>5, <1>7, <1>8, <1>9, RecordCases

LEMMA RouteStep ==
    ASSUME Typed, IdInv, OverlapInv, HeldInv, TwinInv, SeenInv, RouteInv, [Next]_vars
    PROVE  RouteInv'
<1>0. TypeOK /\ JobInv /\ Grows
  BY JobStep DEF Typed
<1> DEFINE C(n) == Caused(RouteCauses, n)
           AtRoutes(n) == \E r \in Reqs : pc[r] \in {"routes", "truncate", "write", "drop"} /\ Name(r) = n
           Agreed(r) ==
              /\ Deploys(r) /\ pc[r] \in {"routes", "truncate", "write"} => HasDomain(Name(r))
              /\ pc[r] = "drop" => (Routed(Name(r)) <=> HasDomain(Name(r)) /\ ~job[r].domain)
           Goal ==
              /\ \A n \in Names : ~C(n)' /\ ~(Routed(n)' <=> HasDomain(n)') => AtRoutes(n)'
              /\ \A r \in Reqs : AtWork(r)' /\ ~C(Name(r))' => Agreed(r)'
<1>g. Goal => RouteInv'
  BY DEF RouteInv
<1>i. /\ \A n \in Names : ~C(n) /\ ~(Routed(n) <=> HasDomain(n)) => AtRoutes(n)
      /\ \A r \in Reqs : AtWork(r) /\ ~C(Name(r)) => Agreed(r)
  BY DEF RouteInv
<1>n. \A n : (\E w \in RouteCauses : <<w, n>> \in mishaps') => C(n)'
  BY DEF Caused, Happened
<1>m. \A n : C(n) => C(n)'
  BY <1>0, CausedGrows
<1>o. \A n : Happened("at once", n) => C(n)
  BY DEF Caused, RouteCauses
<1>w. \A w \in {"at once", "cut short", "unsaved", "not deleted", "route failed", "routes lost",
                "routes at once"} : w \in RouteCauses
  BY DEF RouteCauses
<1>1. ASSUME NEW r \in Reqs, NEW j \in Job, NEW source \in Reqs \union {Nobody}, NEW place \in Places,
             Begun(r, j, source, place)
      PROVE  Goal
  <2>1. /\ Only(r) /\ pc'[r] = place /\ job'[r] = j
        /\ records' = records /\ routes' = routes /\ seen' = seen
        /\ place \in {"create", "clear", "remove", "pick"} /\ pc[r] = "idle"
    BY <1>0, <1>1, BegunEffect DEF Begun
  <2>2. \A n : (Routed(n)' <=> Routed(n)) /\ (HasDomain(n)' <=> HasDomain(n)) /\ (AtRoutes(n) => AtRoutes(n)')
    BY <2>1 DEF Routed, HasDomain, Only, Name, App
  <2>3. ASSUME NEW q \in Reqs \ {r}
        PROVE  /\ AtWork(q)' = AtWork(q) /\ Name(q)' = Name(q) /\ Deploys(q)' = Deploys(q)
               /\ pc'[q] = pc[q] /\ job'[q] = job[q]
    BY <2>1 DEF Only, AtWork, Name, App, Deploys
  <2> HIDE DEF C, AtRoutes
  <2>4. ASSUME NEW q \in Reqs, AtWork(q)', ~C(Name(q))' PROVE Agreed(q)'
    <3>1. CASE q = r
      BY <2>1, <3>1
    <3>2. CASE q # r
      BY <1>i, <1>m, <2>2, <2>3, <2>4, <3>2
    <3> QED
      BY <3>1, <3>2
  <2>5. \A n \in Names : ~C(n)' /\ ~(Routed(n)' <=> HasDomain(n)') => AtRoutes(n)'
    BY <1>i, <1>m, <2>2
  <2> QED
    BY <2>4, <2>5
<1>2. ASSUME NEW r \in Reqs, Deploy(r) \/ Delete(r) \/ Route(r) PROVE Goal
  <2>1. Moved(r) /\ AtWork(r) /\ (pc'[r] # "over" => Paths(r)) /\ JobAt(r) /\ Name(r) \in Names
    BY <1>0, <1>2, MoveEffect, Nowhere DEF Moved, JobInv
  <2>2. \A q \in Reqs \ {r} : pc'[q] = pc[q] /\ job'[q] = job[q] /\ Name(q)' = Name(q)
    BY <2>1 DEF Moved, Only, Name, App
  <2>3. \A q \in Reqs \ {r} : AtWork(q) /\ ~C(Name(q)) => Name(q) # Name(r)
    BY <1>o, <2>1 DEF OverlapInv
  <2>4. ASSUME NEW n \in Names, ~C(n)'
        PROVE  /\ Routed(n)' <=> IF RoutesWrite(r) /\ n = Name(r) THEN Deploys(r) ELSE Routed(n)
               /\ HasDomain(n)' <=>
                    IF n # Name(r) THEN HasDomain(n)
                    ELSE IF SaveService(r) THEN HasDomain(n) \/ job[r].domain
                    ELSE IF DeleteService(r) THEN HasDomain(n) /\ ~job[r].domain
                    ELSE HasDomain(n)
    <3>1. ~Caused(SeenCauses, n)'
      BY <1>n, <1>w, <2>4 DEF Caused, Happened, SeenCauses
    <3>2. ~Caused(RouteCauses, n)'
      BY <2>4
    <3> HIDE DEF C
    <3> QED
      BY <1>2, <3>1, <3>2, RoutedMoves, DomainMoves
  <2> HIDE DEF C
  \* The other names.
  <2>5. ASSUME NEW n \in Names, n # Name(r), ~C(n)', ~(Routed(n)' <=> HasDomain(n)') PROVE AtRoutes(n)'
    <3>1. AtRoutes(n)
      BY <1>i, <1>m, <2>4, <2>5
    <3> QED
      BY <2>2, <2>5, <3>1
  <2>6. ASSUME NEW q \in Reqs, q # r, AtWork(q)', ~C(Name(q))' PROVE Agreed(q)'
    <3>1. AtWork(q) /\ Name(q)' = Name(q) /\ Deploys(q)' = Deploys(q)
      BY <2>1, <2>6, MovedOthers
    <3>2. ~C(Name(q)) /\ Name(q) # Name(r) /\ Name(q) \in Names
      BY <1>0, <1>m, <2>3, <2>6, <3>1, Nowhere DEF JobInv
    <3> QED
      BY <1>i, <2>2, <2>4, <2>6, <3>1, <3>2
  \* The name of the request.
  <2>7. ASSUME NEW n \in Names, n = Name(r), ~C(n)'
        PROVE  (~(Routed(n)' <=> HasDomain(n)') => AtRoutes(n)') /\ (AtWork(r)' => Agreed(r)')
    <3>1. ~C(n) /\ Agreed(r)
      BY <1>i, <1>m, <2>1, <2>7
    <3>2. /\ ~RoutesFail(r) /\ ~SaveFails(r) /\ ~DeleteFails(r)
          /\ ~RoutesUnread(r) /\ ~RoutesWriteFails(r)
      <4>1. ~RoutesFail(r) /\ ~SaveFails(r) /\ ~DeleteFails(r)
        BY <1>n, <1>w, <2>7 DEF RoutesFail, SaveFails, DeleteFails, Note
      <4>2. LosesRoutes(r) => <<"routes lost", n>> \in mishaps'
        BY LossNoted
      <4> QED
        BY <1>n, <1>w, <2>7, <4>1, <4>2 DEF RoutesUnread, RoutesWriteFails
    <3>3. pc[r] \notin {"routes", "truncate", "write", "drop"} => (Routed(n) <=> HasDomain(n))
      BY <1>i, <2>3, <2>7, <3>1 DEF AtWork
    <3>4. AtWork(r)' => Name(r)' = n /\ Deploys(r)' = Deploys(r) /\ job'[r] = job[r]
      BY <2>1, <2>7, MovedOthers
    <3>5. AtWork(r)' /\ pc'[r] \in {"routes", "truncate", "write", "drop"} => AtRoutes(n)'
      BY <3>4
    <3>6. CASE pc[r] \in {"clear", "clone", "read", "pick", "create"}
      <4>1. pc'[r] \notin {"routes", "truncate", "write", "drop"}
        BY <2>1, <3>6 DEF Paths
      <4>2. ~RoutesWrite(r) /\ ~SaveService(r) /\ ~DeleteService(r)
        BY <3>6 DEF RoutesWrite, SaveService, DeleteService, DeleteFails
      <4> QED
        BY <2>4, <2>7, <3>3, <3>6, <4>1, <4>2
    <3>7. CASE pc[r] = "save"
      <4>1. SaveService(r) /\ ~RoutesWrite(r) /\ Deploys(r)
        BY <1>2, <2>1, <3>2, <3>7 DEF Deploy, Delete, Route, CloneClears, Clone, ReadCompose,
           ToggleSaves, DeployCompose,
           RemoveCompose, KeepContainers, DeleteService, DeleteFails, RoutesRead, RoutesUnread,
           RoutesTruncate, RoutesWrite, RoutesWriteFails, JobAt
      <4>2. pc'[r] = IF job[r].domain THEN "routes" ELSE "over"
        BY <1>0, <4>1 DEF SaveService, RouteNext, Goto, GotoWith, TypeOK
      <4>3. (Routed(n)' <=> Routed(n)) /\ (HasDomain(n)' <=> HasDomain(n) \/ job[r].domain)
        BY <2>4, <2>7, <4>1
      <4>4. CASE job[r].domain
        BY <3>4, <3>5, <4>2, <4>3, <4>4 DEF AtWork
      <4>5. CASE ~job[r].domain
        BY <3>3, <3>7, <4>2, <4>3, <4>5 DEF AtWork
      <4> QED
        BY <4>4, <4>5
    <3>8. CASE pc[r] = "remove"
      <4>1. ~SaveService(r) /\ ~RoutesWrite(r) /\ ~DeleteService(r) /\ ~Deploys(r)
        BY <2>1, <3>8 DEF SaveService, RoutesWrite, DeleteService, DeleteFails, JobAt, Deploys, DeployKinds,
           DeleteKinds
      <4>2. RemoveCompose(r) \/ KeepContainers(r)
        BY <1>2, <3>8 DEF Deploy, Delete, Route, CloneClears, Clone, ReadCompose, ToggleSaves,
           DeployCompose,
           SaveService, SaveFails, DeleteService, DeleteFails, RoutesRead, RoutesUnread, RoutesFail,
           RoutesTruncate, RoutesWrite, RoutesWriteFails
      <4>3. pc'[r] = IF job[r].domain THEN "routes" ELSE "drop"
        BY <1>0, <4>1, <4>2 DEF RemoveCompose, KeepContainers, RouteNext, Goto, GotoWith, TypeOK
      <4>4. (Routed(n)' <=> Routed(n)) /\ (HasDomain(n)' <=> HasDomain(n))
        BY <2>4, <2>7, <4>1
      <4> QED
        BY <3>3, <3>4, <3>5, <3>8, <4>1, <4>3, <4>4 DEF AtWork
    <3>9. CASE pc[r] \in {"routes", "truncate"}
      <4>1. Route(r) /\ ~SaveService(r) /\ ~RoutesWrite(r) /\ ~DeleteService(r)
        BY <1>2, <3>9 DEF Deploy, Delete, CloneClears, Clone, ReadCompose, ToggleSaves, DeployCompose,
           SaveService, SaveFails, RemoveCompose, KeepContainers, DeleteService, DeleteFails,
           RoutesWrite, RoutesWriteFails
      <4>2. pc'[r] \in {"truncate", "write"}
        BY <3>2, <4>1, RouteEffect
      <4>3. (Routed(n)' <=> Routed(n)) /\ (HasDomain(n)' <=> HasDomain(n))
        BY <2>4, <2>7, <4>1
      <4> QED
        BY <2>7, <3>1, <3>4, <3>5, <3>9, <4>2, <4>3 DEF AtWork
    <3>10. CASE pc[r] = "write"
      <4>1. Route(r) /\ ~SaveService(r) /\ ~DeleteService(r)
        BY <1>2, <3>10 DEF Deploy, Delete, CloneClears, Clone, ReadCompose, ToggleSaves, DeployCompose,
           SaveService, SaveFails, RemoveCompose, KeepContainers, DeleteService, DeleteFails
      <4>2. RoutesWrite(r) /\ pc'[r] = AfterRoutes(r)
        BY <3>2, <3>10, <4>1, RouteEffect
      <4>3. (Routed(n)' <=> Deploys(r)) /\ (HasDomain(n)' <=> HasDomain(n)) /\ job[r].domain
        BY <2>1, <2>4, <2>7, <3>10, <4>1, <4>2 DEF JobAt
      <4> QED
        BY <2>7, <3>1, <3>4, <3>5, <3>10, <4>2, <4>3 DEF AtWork, AfterRoutes
    <3>11. CASE pc[r] = "drop"
      <4>1. DeleteService(r) /\ ~SaveService(r) /\ ~RoutesWrite(r)
        BY <1>2, <3>2, <3>11 DEF Deploy, Delete, Route, CloneClears, Clone, ReadCompose, ToggleSaves,
           DeployCompose,
           SaveService, SaveFails, RemoveCompose, KeepContainers, RoutesRead, RoutesUnread, RoutesFail,
           RoutesTruncate, RoutesWrite, RoutesWriteFails
      <4>2. pc'[r] = "over"
        BY <1>0, <4>1 DEF DeleteService, Goto, GotoWith, TypeOK
      <4> QED
        BY <2>4, <2>7, <3>1, <3>11, <4>1, <4>2 DEF AtWork
    <3> QED
      BY <1>0, <2>1, <3>6, <3>7, <3>8, <3>9, <3>10, <3>11 DEF TypeOK, Places, AtWork
  <2>8. ASSUME AtWork(r)', ~C(Name(r))' PROVE Agreed(r)'
    <3>1. Name(r)' = Name(r)
      BY <2>1, <2>8, MovedOthers
    <3> HIDE DEF Agreed, AtRoutes
    <3> QED
      BY <2>1, <2>7, <2>8, <3>1
  <2> HIDE DEF Agreed, AtRoutes
  <2> QED
    BY <2>5, <2>6, <2>7, <2>8
<1>3. ASSUME (\E app \in Apps : Stop(app)) \/ UNCHANGED vars PROVE Goal
  <2>1. UNCHANGED <<job, pc, seen, records, routes>>
    BY <1>3, RestCases
  <2>2. \A n : (Routed(n)' <=> Routed(n)) /\ (HasDomain(n)' <=> HasDomain(n)) /\ (AtRoutes(n)' <=> AtRoutes(n))
    BY <2>1 DEF Routed, HasDomain, Name, App
  <2>3. \A q \in Reqs : AtWork(q)' = AtWork(q) /\ Name(q)' = Name(q) /\ Deploys(q)' = Deploys(q)
    BY <2>1 DEF AtWork, Name, App, Deploys
  <2> HIDE DEF C, AtRoutes
  <2> QED
    BY <1>i, <1>m, <2>1, <2>2, <2>3
<1>4. ASSUME PanelStops PROVE Goal
  <2>1. /\ records' = records /\ routes' = routes
        /\ \A r \in Reqs : ~AtWork(r)'
        /\ \A r \in Reqs : AtWork(r) => <<"cut short", Name(r)>> \in mishaps'
        /\ \A r \in Reqs, n \in Names : pc[r] = "write" => <<"cut short", n>> \in mishaps'
    BY <1>4, EndEffect
  <2>2. \A n \in Names : AtRoutes(n) => C(n)'
    BY <1>n, <1>w, <2>1 DEF AtWork
  <2>3. \A n \in Names : ~C(n)' => \A r \in Reqs : pc[r] # "write"
    BY <1>n, <1>w, <2>1
  <2>4. \A r \in Reqs : pc'[r] # "write"
    BY <2>1 DEF AtWork
  <2>5. \A n \in Names : ~C(n)' => (Routed(n)' <=> Routed(n)) /\ (HasDomain(n)' <=> HasDomain(n))
    BY <2>1, <2>3, <2>4 DEF Routed, HasDomain
  <2> HIDE DEF C, AtRoutes, Agreed
  <2> QED
    BY <1>i, <1>m, <2>1, <2>2, <2>5
<1> HIDE DEF Goal
<1>5. Goal
  BY <1>0, <1>1, <1>2, <1>3, <1>4, StepCases
<1> QED
  BY <1>5, <1>g

-----------------------------------------------------------------------------
(* The clones *)

LEMMA SourceStep ==
    ASSUME Typed, SourceInv, [Next]_vars
    PROVE  SourceInv'
<1>0. TypeOK /\ JobInv /\ Grows
  BY JobStep DEF Typed
<1> DEFINE C(n) == Happened("clones at once", n)
           Own(r) == AtWork(r) /\ job[r].kind = "git" /\ took[r] \notin {Nobody, r} => C(Name(r))
           Reads(r) == pc[r] = "read" /\ repo \notin {Nobody, r} => C(Name(r))
           Both(q, r) == q # r /\ pc[q] = "clone" /\ pc[r] \in {"clone", "read"} => C(Name(q)) /\ C(Name(r))
           Goal == (\A r \in Reqs : Own(r)' /\ Reads(r)') /\ \A q, r \in Reqs : Both(q, r)'
<1>g. Goal => SourceInv'
  BY DEF SourceInv, SourceIsOwn
<1>i. (\A r \in Reqs : Own(r) /\ Reads(r)) /\ \A q, r \in Reqs : Both(q, r)
  BY DEF SourceInv, SourceIsOwn
<1>m. \A n : C(n) => C(n)'
  BY <1>0 DEF Grows, Happened
<1> HIDE DEF C
\* A request that is not cloning, and does not touch the clones.
<1>1. ASSUME NEW r \in Reqs, Only(r), repo' = repo, Own(r)', pc'[r] \notin {"clone", "read"} PROVE Goal
  <2>1. \A q \in Reqs \ {r} : /\ pc'[q] = pc[q] /\ job'[q] = job[q] /\ took'[q] = took[q]
                              /\ Name(q)' = Name(q) /\ AtWork(q)' = AtWork(q)
    BY <1>1 DEF Only, Name, App, AtWork
  <2>2. ASSUME NEW q \in Reqs \ {r} PROVE Own(q)' /\ Reads(q)'
    BY <1>1, <1>i, <1>m, <2>1
  <2>3. ASSUME NEW p \in Reqs, NEW q \in Reqs PROVE Both(p, q)'
    BY <1>1, <1>i, <1>m, <2>1
  <2> QED
    BY <1>1, <2>2, <2>3
<1>2. ASSUME NEW r \in Reqs, NEW j \in Job, NEW source \in Reqs \union {Nobody}, NEW place \in Places,
             Begun(r, j, source, place)
      PROVE  Goal
  <2>1. Only(r) /\ pc'[r] = place /\ job'[r] = j /\ took'[r] = source /\ repo' = repo
    BY <1>0, <1>2, BegunEffect
  <2>2. place \notin {"clone", "read"} /\ (j.kind = "git" => source \in {Nobody, r})
    BY <1>2 DEF Begun, DeleteKinds
  <2> QED
    BY <1>1, <2>1, <2>2
<1>3. ASSUME NEW r \in Reqs, Deploy(r) \/ Delete(r) \/ Route(r) PROVE Goal
  <2>1. Moved(r) /\ Only(r) /\ AtWork(r) /\ (pc'[r] # "over" => Paths(r))
    BY <1>3, MoveEffect DEF Moved
  <2>2. AtWork(r)' => Name(r)' = Name(r) /\ job'[r] = job[r]
    BY <2>1, MovedOthers
  <2>3. \A q \in Reqs \ {r} : /\ pc'[q] = pc[q] /\ job'[q] = job[q] /\ took'[q] = took[q]
                              /\ Name(q)' = Name(q) /\ AtWork(q)' = AtWork(q)
    BY <2>1 DEF Only, Name, App, AtWork
  <2>4. CASE CloneClears(r)
    <3>1. repo' = Nobody /\ pc[r] = "clear" /\ pc'[r] = "clone" /\ took'[r] = took[r]
      BY <1>0, <2>4 DEF CloneClears, Goto, GotoWith, TypeOK
    <3>2. \A q \in Reqs \ {r} : pc[q] \in {"clone", "read"} => C(Name(q))' /\ C(Name(r))'
      <4>1. ASSUME NEW q \in Reqs \ {r}, pc[q] \in {"clone", "read"}
            PROVE  <<"clones at once", Name(q)>> \in mishaps' /\ <<"clones at once", Name(r)>> \in mishaps'
        BY <2>4, <4>1, CloneNoted DEF Cloning
      <4>2. Name(r)' = Name(r)
        BY <2>2, <3>1 DEF AtWork
      <4> QED
        BY <2>3, <4>1, <4>2 DEF C, Happened
    <3>3. AtWork(r)' /\ Name(r)' = Name(r) /\ job'[r] = job[r]
      BY <2>2, <3>1 DEF AtWork
    <3>4. ASSUME NEW q \in Reqs PROVE Own(q)' /\ Reads(q)'
      BY <1>i, <1>m, <2>1, <2>3, <3>1, <3>3
    <3>5. ASSUME NEW p \in Reqs, NEW q \in Reqs PROVE Both(p, q)'
      BY <1>i, <1>m, <2>3, <3>1, <3>2, <3>3
    <3> QED
      BY <3>4, <3>5
  <2>5. CASE Clone(r) /\ pc'[r] = "read"
    <3>1. repo' = r /\ pc[r] = "clone" /\ took'[r] = took[r]
      BY <1>0, <2>5 DEF Clone, Goto, GotoWith, TypeOK
    <3>2. AtWork(r)' /\ Name(r)' = Name(r) /\ job'[r] = job[r]
      BY <2>2, <2>5 DEF AtWork
    <3>3. ASSUME NEW q \in Reqs PROVE Own(q)' /\ Reads(q)'
      BY <1>i, <1>m, <2>1, <2>3, <2>5, <3>1, <3>2
    <3>4. ASSUME NEW p \in Reqs, NEW q \in Reqs PROVE Both(p, q)'
      BY <1>i, <1>m, <2>3, <2>5, <3>1, <3>2
    <3> QED
      BY <3>3, <3>4
  <2>6. CASE ~CloneClears(r) /\ ~(Clone(r) /\ pc'[r] = "read")
    <3>1. repo' = repo
      BY <1>3, <1>0, <2>6 DEF Deploy, Delete, Route, CloneClears, Clone, ReadCompose, ToggleSaves,
         DeployCompose,
         SaveService, SaveFails, RemoveCompose, KeepContainers, DeleteService, DeleteFails, RoutesRead,
         RoutesUnread, RoutesFail,
         RoutesTruncate, RoutesWrite, RoutesWriteFails, Goto, GotoWith, TypeOK
    <3>2. pc[r] \notin {"clear", "clone"} \/ pc'[r] = "over"
      BY <1>3, <1>0, <2>6 DEF Deploy, Delete, Route, CloneClears, Clone, ReadCompose, ToggleSaves,
         DeployCompose,
         SaveService, SaveFails, RemoveCompose, KeepContainers, DeleteService, DeleteFails, RoutesRead,
         RoutesUnread, RoutesFail,
         RoutesTruncate, RoutesWrite, RoutesWriteFails, Goto, GotoWith, TypeOK
    <3>3. pc'[r] \notin {"clone", "read"}
      BY <2>1, <3>2 DEF Paths, RouteNext, AfterRoutes
    <3>4. Own(r)'
      <4>1. CASE pc'[r] = "over"
        BY <4>1 DEF AtWork
      <4>2. CASE pc'[r] # "over" /\ pc[r] = "read"
        <5>1. ReadCompose(r)
          BY <1>3, <4>2 DEF Deploy, Delete, Route, CloneClears, Clone, ToggleSaves, DeployCompose,
             SaveService, SaveFails, RemoveCompose, KeepContainers, DeleteService, DeleteFails, RoutesRead,
             RoutesUnread, RoutesFail,
             RoutesTruncate, RoutesWrite, RoutesWriteFails
        <5>2. took'[r] = repo /\ repo # Nobody
          BY <1>0, <4>2, <5>1 DEF ReadCompose, Goto, GotoWith, TypeOK
        <5> QED
          BY <1>i, <1>m, <2>2, <4>2, <5>2
      <4>3. CASE pc'[r] # "over" /\ pc[r] # "read"
        BY <1>i, <1>m, <2>1, <2>2, <4>3 DEF Paths
      <4> QED
        BY <4>1, <4>2, <4>3
    <3> QED
      BY <1>1, <2>1, <3>1, <3>3, <3>4
  <2> QED
    BY <2>4, <2>5, <2>6
<1>4. ASSUME (\E app \in Apps : Stop(app)) \/ UNCHANGED vars PROVE Goal
  <2>1. UNCHANGED <<job, pc, took, repo>>
    BY <1>4, RestCases
  <2>2. \A q \in Reqs : AtWork(q)' = AtWork(q) /\ Name(q)' = Name(q)
    BY <2>1 DEF AtWork, Name, App
  <2> QED
    BY <1>i, <1>m, <2>1, <2>2
<1>5. ASSUME PanelStops PROVE Goal
  BY <1>5, EndEffect DEF AtWork
<1> HIDE DEF Goal
<1>6. Goal
  BY <1>0, <1>2, <1>3, <1>4, <1>5, StepCases
<1> QED
  BY <1>6, <1>g

-----------------------------------------------------------------------------
(* The theorems *)

\* The inductive invariant of Services.
IInv ==
    /\ Typed /\ IdInv /\ OverlapInv /\ HeldInv /\ TwinInv
    /\ LeftInv /\ GoneInv /\ FileInv /\ SeenInv /\ RouteInv /\ SourceInv

\* Nothing is there at first.
LEMMA ServicesStart == Init => IInv
<1> SUFFICES ASSUME Init PROVE IInv
  OBVIOUS
<1>1. TypeOK
  BY DEF Init, TypeOK, Places
<1>2. \A r \in Reqs : pc[r] = "idle" /\ ~AtWork(r)
  BY DEF Init, AtWork
<1>3. JobInv
  BY <1>2 DEF JobInv, JobAt
<1>4. Known = {}
  BY <1>2 DEF Known, Init
<1>5. IdInv /\ OverlapInv /\ HeldInv /\ TwinInv
  BY <1>2, <1>4 DEF Init, IdInv, OverlapInv, HeldInv, HeldAt, TwinInv, Routing
<1>6. \A app \in Apps : ctr[app] = Nobody /\ file[app] = Nobody /\ ~Recorded(app)
  BY DEF Init, Recorded
<1>7. LeftInv /\ GoneInv
  BY <1>2, <1>6 DEF LeftInv, GoneInv, Leaving
<1>8. FileInv
  BY <1>2, <1>6 DEF Init, FileInv
<1>9. \A n : ~Routed(n) /\ ~HasDomain(n)
  BY <1>2 DEF Init, Routed, HasDomain
<1>10. SeenInv /\ RouteInv
  BY <1>2, <1>9 DEF SeenInv, RouteInv
<1>11. SourceInv
  BY <1>2 DEF SourceInv, SourceIsOwn, AtWork
<1> QED
  BY <1>1, <1>3, <1>5, <1>7, <1>8, <1>10, <1>11 DEF IInv, Typed

\* Every step keeps the inductive invariant.
LEMMA ServicesStep == IInv /\ [Next]_vars => IInv'
BY JobStep, TypeStep, IdStep, OverlapStep, HeldStep, TwinStep, LeftStep, GoneStep, FileStep, SeenStep,
   RouteStep,
   SourceStep DEF IInv, Typed

LEMMA ServicesInvariance == Spec => []IInv
BY ServicesStart, ServicesStep, PTL DEF Spec

\* Every variable keeps its type: a request is at a place of its handler, and
\* records, files and containers name the requests that made them.
THEOREM ServicesTyping == Spec => []TypeOK
<1>1. IInv => TypeOK
  BY DEF IInv, Typed
<1> QED
  BY <1>1, ServicesInvariance, PTL

\* A request that would exempt an app or a name is at work on it.
LEMMA NobodyAtWork ==
    ASSUME NEW n, ~AtWorkOn(n), NEW r \in Reqs, Name(r) = n
    PROVE  pc[r] \notin {"save", "routes", "truncate", "write", "drop"}
BY DEF AtWorkOn, AtWork

\* A deploy starts the containers before it saves the record and a deletion
\* removes them before it deletes it (routes.go, instance_scoped_routes.go).
\* In whatever order requests do so, fail or are cut short, an app at rest has
\* containers without a record, or a record without containers, only after one
\* of the mishaps that the model names.
THEOREM AppsExplained == Spec => []AppsMatchRecords
<1>1. ASSUME IInv PROVE AppsMatchRecords
  <2> SUFFICES ASSUME NEW app \in Apps, ~AtWorkOn(app[2])
               PROVE  /\ ctr[app] # Nobody /\ ~Recorded(app) => Caused(LeftCauses, app[2])
                      /\ ctr[app] = Nobody /\ Recorded(app) => Caused(GoneCauses, app[2])
    BY DEF AppsMatchRecords, LeftCauses, GoneCauses
  <2>1. ~Saving(app) /\ \A r \in Reqs : ~(Leaving(r) /\ App(r) = app)
    BY NobodyAtWork DEF Saving, Leaving, Name
  <2> QED
    BY <1>1, <2>1 DEF IInv, LeftInv, GoneInv
<1> QED
  BY <1>1, ServicesInvariance, PTL

\* GenerateConfig and RemoveDomain rewrite Traefik's file outside any lock
\* (traefik/config.go): a name at rest is routed exactly if a record has its
\* domain, unless two were at it, a write failed, or two records share it.
THEOREM RoutesExplained == Spec => []RoutesMatchRecords
<1>1. ASSUME IInv PROVE RoutesMatchRecords
  <2> SUFFICES ASSUME NEW n \in Names, ~(n \in routes <=> HasDomain(n)), ~AtWorkOn(n),
                      \A r \in Reqs : ~Routing(r)
               PROVE  Caused(RouteCauses, n)
    BY DEF RoutesMatchRecords, HasDomain, RouteCauses
  <2>1. Routed(n) <=> n \in routes
    BY DEF Routed, Routing
  <2>2. \A r \in Reqs : ~(pc[r] \in {"routes", "truncate", "write", "drop"} /\ Name(r) = n)
    BY NobodyAtWork
  <2> QED
    BY <1>1, <2>1, <2>2 DEF IInv, RouteInv
<1> QED
  BY <1>1, ServicesInvariance, PTL

\* An app runs the compose file of its last deploy.  A toggle runs the one in
\* the record or on disk (routes.go): it brings an old one back only after a
\* mishap that left one there, or when it was at work beside others.
THEOREM VersionsExplained == Spec => []VersionHasCause
<1>1. ASSUME IInv PROVE VersionHasCause
  BY <1>1 DEF IInv, FileInv, VersionHasCause, OldCauses
<1> QED
  BY <1>1, ServicesInvariance, PTL

\* Repositories whose URLs end alike share a directory (git/deploy.go): a
\* deploy takes another's compose file only if both were cloning at once.
THEOREM SourcesExplained == Spec => []SourceIsOwn
<1>1. IInv => SourceIsOwn
  BY DEF IInv, SourceInv
<1> QED
  BY <1>1, ServicesInvariance, PTL
-----------------------------------------------------------------------------
(* The sessions that report a deploy *)

\* The session and a reader's subscription agree: a subscriber's channel is
\* open, and a reader of an open session is a subscriber.
ReaderInv ==
    \A r \in Readers :
        /\ chan[r] # "panic"
        /\ r \in subs => chan[r] = "open" /\ rpc[r] \in {"reading", "losing"} /\ ~closed
        /\ rpc[r] = "reading" /\ ~closed => r \in subs
        /\ rpc[r] \in {"idle", "found"} => got[r] = <<>>
        /\ rpc[r] \in {"ending", "ended"} => closed /\ buf[r] = <<>>

\* The session stays open until the deploy has its result, and a run that
\* failed on the panel's own host has said so.
ProducerInv ==
    /\ ppc \in {"start", "run", "close"} => ~closed
    /\ ppc \in {"start", "run"} => result = "none"
    /\ result = "failed" /\ ~Relay => \E n \in DOMAIN history : history[n] = "error"

\* What was sent to a reader is in order.
Increasing(s) == \A m, n \in DOMAIN s : m < n => s[m] < s[n]

OrderInv == \A r \in Readers : Increasing(Seen(r))

\* The drops are counted; there are finitely many subscribers at any time.
CountInv == IsFiniteSet(subs) /\ Cardinality(Missed) <= dropped

\* The error of a failed run was sent to everyone who still reads or has read
\* to the end, if nothing was dropped.
ShownInv ==
    result = "failed" /\ ~Relay /\ dropped = 0 =>
        \A r \in Readers : rpc[r] \in {"reading", "ending", "ended"} =>
            \E n \in Range(Seen(r)) : history[n] = "error"

-----------------------------------------------------------------------------

\* What an action of the producer does to the session.
LEMMA ProducerEffect ==
    ASSUME Producer
    PROVE  (\E event \in EventKinds : Emit(event)) \/ CloseSession \/ NoEvent
BY DEF Producer, Refuse, Start, Progress, RunFails,
   RunSucceeds, Panic, Finish, FinalEvent,
       RemoveSession, EventKinds

\* The producer keeps its types.
LEMMA ProducerType ==
    ASSUME StreamTypeOK, Producer
    PROVE  /\ UNCHANGED producer
           /\ ppc' \in {"start", "run", "close", "final", "timer", "removed"}
           /\ result' \in {"none", "refused", "failed", "ok", "panicked"}
           /\ listed' \in BOOLEAN
BY DEF StreamTypeOK, Producer, Refuse, Start, Progress, RunFails,
   RunSucceeds, Panic, Finish, FinalEvent,
       RemoveSession, Produce, AfterRun

\* A history that grows keeps its events, and what was sent stays in it.
LEMMA HistoryGrows ==
    ASSUME StreamTypeOK, NEW event \in EventKinds, history' = Append(history, event)
    PROVE  /\ history' \in Seq(EventKinds)
           /\ Len(history) \in Nat /\ DOMAIN history = 1..Len(history)
           /\ DOMAIN history' = 1..(Len(history) + 1)
           /\ \A n \in DOMAIN history : history'[n] = history[n]
           /\ history'[Len(history) + 1] = event
           /\ \A s \in Seq(DOMAIN history) : s \in Seq(DOMAIN history')
<1>1. history \in Seq(EventKinds)
  BY DEF StreamTypeOK
<1>2. /\ history' \in Seq(EventKinds)
      /\ Len(history) \in Nat /\ DOMAIN history = 1..Len(history)
      /\ DOMAIN history' = 1..(Len(history) + 1)
      /\ \A n \in DOMAIN history : history'[n] = history[n]
      /\ history'[Len(history) + 1] = event
  BY <1>1, AppendProperties, LenProperties
<1>3. \A s \in Seq(DOMAIN history) : s \in Seq(DOMAIN history')
  BY <1>2, SeqMonotonic
<1> QED
  BY <1>2, <1>3

\* An event goes to the history and to every channel that has room.
LEMMA EmitType ==
    ASSUME StreamTypeOK, NEW event \in EventKinds, Emit(event), IsFiniteSet(subs)
    PROVE  /\ history' \in Seq(EventKinds) /\ dropped' \in Nat
           /\ buf' \in [Readers -> Seq(DOMAIN history')]
           /\ got' \in [Readers -> Seq(DOMAIN history')]
           /\ \A r \in Readers : Len(buf'[r]) <= room'[r]
<1>1. history' = Append(history, event)
  BY DEF Emit
<1>2. IsFiniteSet(Full) /\ Cardinality(Full) \in Nat
  <2>1. Full \in SUBSET subs
    BY DEF Full
  <2> QED
    BY <2>1, FS_Subset, FS_CardinalityType
<1>3. ASSUME NEW r \in Readers
      PROVE  buf'[r] \in Seq(DOMAIN history') /\ Len(buf'[r]) <= room[r]
  <2>1. buf[r] \in Seq(DOMAIN history') /\ Len(buf[r]) <= room[r] /\ room[r] \in Nat
    BY <1>1, HistoryGrows DEF StreamTypeOK
  <2>2. CASE r \in subs \ Full
    <3>1. buf'[r] = Append(buf[r], Len(history) + 1) /\ Len(buf[r]) # room[r]
      BY <2>2 DEF Emit, Full
    <3>2. Len(history) + 1 \in DOMAIN history'
      BY <1>1, HistoryGrows
    <3> QED
      BY <2>1, <3>1, <3>2, AppendProperties, LenProperties
  <2>3. CASE r \notin subs \ Full
    BY <2>1, <2>3 DEF Emit
  <2> QED
    BY <2>2, <2>3
<1> QED
  BY <1>1, <1>2, <1>3, HistoryGrows DEF Emit, StreamTypeOK, readerVars

\* The replay is the history.
LEMMA ReplayType ==
    ASSUME StreamTypeOK, NEW replay, replay = [n \in 1..Len(history) |-> n]
    PROVE  /\ replay \in Seq(DOMAIN history) /\ Len(replay) = Len(history)
           /\ Len(history) \in Nat /\ DOMAIN history = 1..Len(history)
<1>1. history \in Seq(EventKinds)
  BY DEF StreamTypeOK
<1>2. Len(history) \in Nat /\ DOMAIN history = 1..Len(history)
  BY <1>1, LenProperties
<1> QED
  BY <1>2, SeqDef

\* A reader keeps the types; its channel takes the whole replay.
LEMMA ReaderType ==
    ASSUME StreamTypeOK, NEW q \in Readers, Reader(q)
    PROVE  StreamTypeOK'
<1> USE DEF StreamTypeOK, GoTo, producerVars, sessionVars, channelVars
<1>1. CASE FindSession(q)
  BY <1>1 DEF FindSession
<1>2. CASE RejectReader(q)
  BY <1>2 DEF RejectReader
<1>3. CASE Subscribe(q)
  <2> DEFINE replay == [n \in 1..Len(history) |-> n]
  <2>1. replay \in Seq(DOMAIN history) /\ Len(replay) = Len(history) /\ Len(history) \in Nat
    BY ReplayType
  <2>2. buf' = [buf EXCEPT ![q] = replay] /\ room' = [room EXCEPT ![q] = Len(history) + Slack]
    BY <1>3 DEF Subscribe, SubscribeWith
  <2> HIDE DEF replay
  <2> QED
    BY <1>3, <2>1, <2>2, StreamAssumption DEF Subscribe, SubscribeWith
<1>4. CASE Deliver(q) \/ WriteFails(q)
  <2>1. buf[q] \in Seq(DOMAIN history) /\ buf[q] # <<>> /\ got[q] \in Seq(DOMAIN history)
    BY <1>4 DEF Deliver, WriteFails
  <2>2. /\ Tail(buf[q]) \in Seq(DOMAIN history) /\ Len(Tail(buf[q])) = Len(buf[q]) - 1
        /\ Append(got[q], Head(buf[q])) \in Seq(DOMAIN history) /\ Len(buf[q]) \in Nat
    BY <2>1, HeadTailProperties, AppendProperties, LenProperties
  <2>3. /\ buf' = [buf EXCEPT ![q] = Tail(buf[q])]
        /\ got' \in {got, [got EXCEPT ![q] = Append(got[q], Head(buf[q]))]}
        /\ rpc' \in {rpc, [rpc EXCEPT ![q] = "losing"]}
        /\ UNCHANGED <<producerVars, sessionVars, room, chan>>
    BY <1>4 DEF Deliver, WriteFails
  <2>4. ASSUME NEW r \in Readers
        PROVE  /\ buf'[r] \in Seq(DOMAIN history) /\ got'[r] \in Seq(DOMAIN history)
               /\ Len(buf'[r]) <= room[r]
    <3>1. CASE r = q
      <4>1. buf'[q] = Tail(buf[q]) /\ got'[q] \in {got[q], Append(got[q], Head(buf[q]))}
        BY <2>3
      <4>2. Len(buf[q]) <= room[q] /\ room[q] \in Nat
        OBVIOUS
      <4>3. Len(Tail(buf[q])) <= room[q]
        BY <2>2, <4>2
      <4> QED
        BY <2>1, <2>2, <3>1, <4>1, <4>3
    <3>2. CASE r # q
      BY <2>3, <3>2
    <3> QED
      BY <3>1, <3>2
  <2>5. buf' \in [Readers -> Seq(DOMAIN history)] /\ got' \in [Readers -> Seq(DOMAIN history)]
    BY <2>3, <2>4
  <2> QED
    BY <2>3, <2>4, <2>5
<1>5. CASE EndOfStream(q)
  BY <1>5 DEF EndOfStream
<1>6. CASE Unsubscribe(q)
  BY <1>6 DEF Unsubscribe, Leave, CloseChannels
<1> QED
  BY <1>1, <1>2, <1>3, <1>4, <1>5, <1>6 DEF Reader

\* Subscribers come one at a time.
LEMMA SubscribersFinite ==
    ASSUME IsFiniteSet(subs), [StreamNext]_streamVars
    PROVE  IsFiniteSet(subs')
<1>1. ASSUME NEW q \in Readers, Reader(q)
      PROVE  subs' \in {subs, subs \union {q}, subs \ {q}}
  BY <1>1 DEF Reader, FindSession, RejectReader, Subscribe,
     SubscribeWith, Deliver, WriteFails,
              EndOfStream, Unsubscribe, Leave, sessionVars
<1>2. CASE Producer
  BY <1>2, ProducerEffect, FS_EmptySet DEF Emit, CloseSession, NoEvent,
     sessionVars
<1>3. CASE UNCHANGED streamVars
  BY <1>3 DEF streamVars, sessionVars
<1> QED
  BY <1>1, <1>2, <1>3, FS_AddElement, FS_RemoveElement DEF StreamNext

\* Every variable keeps its type, and no channel of a deploy session is
\* overfilled: the replay in Subscribe fits.
THEOREM StreamTyping == StreamSpec => [](StreamTypeOK /\ IsFiniteSet(subs))
<1>1. StreamInit => StreamTypeOK /\ IsFiniteSet(subs)
  <2> SUFFICES ASSUME StreamInit PROVE StreamTypeOK /\ IsFiniteSet(subs)
    OBVIOUS
  <2>1. \A S : <<>> \in Seq(S) /\ Len(<<>>) = 0
    BY EmptySeq
  <2>2. \A r \in Readers : Len(buf[r]) <= room[r]
    BY <2>1 DEF StreamInit
  <2>3. history \in Seq(EventKinds)
    BY <2>1 DEF StreamInit
  <2>4. buf \in [Readers -> Seq(DOMAIN history)] /\ got \in [Readers -> Seq(DOMAIN history)]
    BY <2>1 DEF StreamInit
  <2> QED
    <3>1. /\ producer \in Producers /\ ppc = "start" /\ result = "none" /\ listed = TRUE
          /\ closed = FALSE /\ subs = {} /\ dropped = 0
          /\ rpc = [r \in Readers |-> "idle"] /\ chan = [r \in Readers |-> "none"]
          /\ room = [r \in Readers |-> 0]
      BY DEF StreamInit
    <3> QED
      BY <2>2, <2>3, <2>4, <3>1, FS_EmptySet DEF StreamTypeOK
<1>2. StreamTypeOK /\ IsFiniteSet(subs) /\ [StreamNext]_streamVars => (StreamTypeOK /\ IsFiniteSet(subs))'
  <2> SUFFICES ASSUME StreamTypeOK, IsFiniteSet(subs), [StreamNext]_streamVars PROVE StreamTypeOK'
    BY SubscribersFinite
  <2>1. CASE Producer
    <3>1. ASSUME NEW event \in EventKinds, Emit(event) PROVE StreamTypeOK'
      BY <2>1, <3>1, ProducerType, EmitType DEF Emit, readerVars, StreamTypeOK
    <3>2. CASE CloseSession
      BY <2>1, <3>2, ProducerType DEF CloseSession, CloseChannels, readerVars,
         StreamTypeOK
    <3>3. CASE NoEvent
      BY <2>1, <3>3, ProducerType DEF NoEvent, sessionVars, channelVars,
         readerVars, StreamTypeOK
    <3> QED
      BY <2>1, <3>1, <3>2, <3>3, ProducerEffect
  <2>2. ASSUME NEW q \in Readers, Reader(q) PROVE StreamTypeOK'
    BY <2>2, ReaderType
  <2>3. CASE UNCHANGED streamVars
    BY <2>3 DEF streamVars, producerVars, sessionVars, channelVars,
       readerVars, StreamTypeOK
  <2> QED
    BY <2>1, <2>2, <2>3 DEF StreamNext
<1> QED
  BY <1>1, <1>2, PTL DEF StreamSpec

-----------------------------------------------------------------------------

LEMMA ReaderInvStep ==
    ASSUME StreamTypeOK, ReaderInv, StreamNext
    PROVE  ReaderInv'
<1> USE DEF StreamTypeOK, ReaderInv
<1>1. ASSUME NEW event \in EventKinds, Emit(event)
      PROVE  ReaderInv'
  BY <1>1 DEF Emit, readerVars
<1>2. CASE CloseSession
  BY <1>2 DEF CloseSession, CloseChannels, readerVars
<1>3. CASE NoEvent
  BY <1>3 DEF NoEvent, sessionVars, channelVars, readerVars
<1>4. ASSUME NEW q \in Readers, Reader(q)
      PROVE  ReaderInv'
  <2> USE DEF GoTo, producerVars, sessionVars, channelVars
  <2>1. CASE FindSession(q)
    BY <2>1 DEF FindSession
  <2>2. CASE RejectReader(q)
    BY <2>2 DEF RejectReader
  <2>3. CASE Subscribe(q)
    BY <2>3 DEF Subscribe, SubscribeWith
  <2>4. CASE Deliver(q)
    BY <2>4 DEF Deliver
  <2>5. CASE WriteFails(q)
    BY <2>5 DEF WriteFails
  <2>6. CASE EndOfStream(q)
    BY <2>6 DEF EndOfStream
  <2>7. CASE Unsubscribe(q)
    BY <2>7 DEF Unsubscribe, Leave, CloseChannels
  <2> QED
    BY <1>4, <2>1, <2>2, <2>3, <2>4, <2>5, <2>6, <2>7 DEF Reader
<1> QED
  BY <1>1, <1>2, <1>3, <1>4, ProducerEffect DEF StreamNext

\* The producer closes the session only when it has a result, and a run that
\* fails emits an error first.
LEMMA ProducerInvStep ==
    ASSUME StreamTypeOK, ProducerInv, StreamNext
    PROVE  ProducerInv'
<1>1. CASE Producer
  <2>1. /\ ppc' \in {"start", "run", "close"} => ~closed'
        /\ ppc' \in {"start", "run"} => result' = "none"
    BY <1>1 DEF ProducerInv, StreamTypeOK, Producer, Refuse, Start,
       Progress, RunFails, RunSucceeds, Panic, Finish,
       FinalEvent, RemoveSession, Produce, AfterRun, Emit,
       CloseSession, NoEvent, sessionVars
  <2>2. ASSUME result' = "failed", ~Relay'
        PROVE  \E n \in DOMAIN history' : history'[n] = "error"
    <3>1. ~Relay
      BY <1>1, <2>2, ProducerType DEF Relay
    <3>2. CASE RunFails
      <4>1. history' = Append(history, "error") /\ "error" \in EventKinds
        BY <3>1, <3>2 DEF RunFails, Emit, EventKinds
      <4>2. Len(history) + 1 \in DOMAIN history' /\ history'[Len(history) + 1] = "error"
        BY <4>1, HistoryGrows
      <4> QED
        BY <4>2
    <3>3. CASE ~RunFails
      <4>1. result = "failed"
        BY <1>1, <2>2, <3>3 DEF Producer, Refuse, Start, Progress,
           RunSucceeds, Panic, Finish,
                                FinalEvent, RemoveSession, Produce
      <4>2. PICK n \in DOMAIN history : history[n] = "error"
        BY <3>1, <4>1 DEF ProducerInv
      <4>3. n \in DOMAIN history' /\ history'[n] = "error"
        <5>1. ASSUME NEW event \in EventKinds, Emit(event)
              PROVE  n \in DOMAIN history' /\ history'[n] = history[n]
          <6>1. history' = Append(history, event)
            BY <5>1 DEF Emit
          <6> QED
            BY <6>1, HistoryGrows
        <5>2. CASE CloseSession \/ NoEvent
          BY <4>2, <5>2 DEF CloseSession, NoEvent, sessionVars
        <5> QED
          BY <1>1, <4>2, <5>1, <5>2, ProducerEffect
      <4> QED
        BY <4>3
    <3> QED
      BY <3>2, <3>3
  <2> QED
    BY <2>1, <2>2 DEF ProducerInv
<1>2. ASSUME NEW q \in Readers, Reader(q)
      PROVE  ProducerInv'
  <2>1. UNCHANGED <<ppc, result, producer, closed, history>>
    BY <1>2 DEF Reader, FindSession, RejectReader, Subscribe,
       SubscribeWith, Deliver, WriteFails,
                EndOfStream, Unsubscribe, Leave, producerVars,
                sessionVars
  <2> QED
    BY <2>1 DEF ProducerInv, Relay
<1> QED
  BY <1>1, <1>2 DEF StreamNext

-----------------------------------------------------------------------------

\* What was sent to a reader are events of the history.
LEMMA SeenEvents ==
    ASSUME StreamTypeOK, NEW r \in Readers
    PROVE  /\ Seen(r) \in Seq(DOMAIN history)
           /\ Len(Seen(r)) \in Nat /\ DOMAIN Seen(r) = 1..Len(Seen(r))
           /\ DOMAIN history = 1..Len(history) /\ Len(history) \in Nat
           /\ \A n \in DOMAIN Seen(r) : Seen(r)[n] \in 1..Len(history)
<1>1. got[r] \in Seq(DOMAIN history) /\ buf[r] \in Seq(DOMAIN history) /\ history \in Seq(EventKinds)
  BY DEF StreamTypeOK
<1>2. Seen(r) \in Seq(DOMAIN history)
  BY <1>1, ConcatProperties DEF Seen
<1> QED
  BY <1>1, <1>2, LenProperties, ElementOfSeq

\* Positions of a concatenation.
LEMMA ConcatDomain ==
    ASSUME NEW D, NEW g \in Seq(D), NEW b \in Seq(D)
    PROVE  /\ DOMAIN (g \o b) = 1..(Len(g) + Len(b))
           /\ \A i \in 1..(Len(g) + Len(b)) :
                 (g \o b)[i] = IF i <= Len(g) THEN g[i] ELSE b[i - Len(g)]
<1>1. g \o b \in Seq(D) /\ Len(g \o b) = Len(g) + Len(b)
  BY ConcatProperties
<1> QED
  BY <1>1, ConcatProperties, LenProperties

\* Sequences: what is appended to a part is appended to the whole, and an
\* element that moves from one part to the other leaves the whole as it was.
LEMMA ConcatAppend ==
    ASSUME NEW D, NEW g \in Seq(D), NEW b \in Seq(D), NEW e \in D
    PROVE  g \o Append(b, e) = Append(g \o b, e)
<1>1. <<e>> \in Seq(D) /\ g \o b \in Seq(D)
  BY ConcatProperties
<1>2. Append(b, e) = b \o <<e>> /\ Append(g \o b, e) = (g \o b) \o <<e>>
  BY <1>1, AppendIsConcat
<1>3. \A t \in Seq(D) : (g \o b) \o t = g \o (b \o t)
  BY ConcatAssociative
<1> QED
  BY <1>1, <1>2, <1>3

\* What was read moves from the channel to what the reader got.
LEMMA ConcatMove ==
    ASSUME NEW D, NEW g \in Seq(D), NEW b \in Seq(D), b # <<>>
    PROVE  Append(g, Head(b)) \o Tail(b) = g \o b
<1>1. /\ Head(b) \in D /\ Tail(b) \in Seq(D) /\ Len(b) \in Nat /\ Len(Tail(b)) = Len(b) - 1
      /\ \A i \in 1..Len(Tail(b)) : Tail(b)[i] = b[i + 1]
      /\ Head(b) = b[1]
  BY HeadTailProperties, LenProperties
<1>2. SUFFICES ASSUME NEW h \in D, NEW t \in Seq(D), h = Head(b), t = Tail(b)
               PROVE  Append(g, h) \o t = g \o b
  BY <1>1
<1>3. <<h>> \in Seq(D) /\ <<h>> \o t = b
  <2>1. /\ <<h>> \in Seq(D) /\ <<h>> \o t \in Seq(D) /\ Len(<<h>> \o t) = 1 + Len(t)
        /\ \A i \in 1..(1 + Len(t)) : (<<h>> \o t)[i] = IF i <= 1 THEN h ELSE t[i - 1]
    BY ConcatProperties
  <2>2. \A i \in 1..Len(b) : (<<h>> \o t)[i] = b[i]
    BY <1>1, <1>2, <2>1
  <2> QED
    BY <1>1, <1>2, <2>1, <2>2, SeqEqual
<1>4. Append(g, h) = g \o <<h>>
  BY AppendIsConcat
<1>5. \A u \in Seq(D) : (g \o u) \o t = g \o (u \o t)
  BY ConcatAssociative
<1> QED
  BY <1>3, <1>4, <1>5

\* An event goes to the end of what was sent to those who have room for it.
LEMMA EmitSeen ==
    ASSUME StreamTypeOK, NEW event \in EventKinds, Emit(event), NEW r \in Readers
    PROVE  Seen(r)' = IF r \in subs \ Full THEN Append(Seen(r), Len(history) + 1) ELSE Seen(r)
<1>1. /\ got'[r] = got[r]
      /\ buf'[r] = IF r \in subs \ Full THEN Append(buf[r], Len(history) + 1) ELSE buf[r]
  BY DEF Emit, readerVars
<1>2. got[r] \in Seq(Nat) /\ buf[r] \in Seq(Nat) /\ Len(history) + 1 \in Nat
  <2>1. got[r] \in Seq(DOMAIN history) /\ buf[r] \in Seq(DOMAIN history)
    BY DEF StreamTypeOK
  <2>2. DOMAIN history \subseteq Nat /\ Len(history) + 1 \in Nat
    BY SeenEvents
  <2> QED
    BY <2>1, <2>2, SeqMonotonic
<1>3. got[r] \o Append(buf[r], Len(history) + 1) = Append(got[r] \o buf[r], Len(history) + 1)
  <2>1. \A g, b \in Seq(Nat) : \A e \in Nat : g \o Append(b, e) = Append(g \o b, e)
    BY ConcatAppend
  <2> QED
    BY <1>2, <2>1, Zenon
<1> QED
  BY <1>1, <1>3 DEF Seen

\* Taking an event from the channel and writing it changes nothing in it.
LEMMA DeliverSeen ==
    ASSUME StreamTypeOK, NEW q \in Readers, Deliver(q)
    PROVE  Seen(q)' = Seen(q)
<1>1. got[q] \in Seq(DOMAIN history) /\ buf[q] \in Seq(DOMAIN history) /\ buf[q] # <<>>
  BY DEF Deliver, StreamTypeOK
<1>2. got'[q] = Append(got[q], Head(buf[q])) /\ buf'[q] = Tail(buf[q])
  BY DEF Deliver, StreamTypeOK
<1>3. Append(got[q], Head(buf[q])) \o Tail(buf[q]) = got[q] \o buf[q]
  BY <1>1, ConcatMove
<1> QED
  BY <1>2, <1>3 DEF Seen

\* The replay is the first that is sent to a reader.
LEMMA SubscribeSeen ==
    ASSUME StreamTypeOK, ReaderInv, NEW q \in Readers, Subscribe(q)
    PROVE  Seen(q)' = [n \in 1..Len(history) |-> n]
<1>1. got'[q] = <<>> /\ buf'[q] = [n \in 1..Len(history) |-> n]
  BY DEF Subscribe, SubscribeWith, StreamTypeOK, ReaderInv
<1>2. buf'[q] \in Seq(DOMAIN history)
  BY <1>1, ReplayType
<1> QED
  BY <1>1, <1>2, ConcatEmptySeq DEF Seen

\* Steps of a reader do not touch what was sent to the others, nor, but for the
\* two that are left, what was sent to itself.
LEMMA ReaderSeen ==
    ASSUME StreamTypeOK, NEW q \in Readers, Reader(q), NEW r \in Readers,
           r # q \/ ~(Subscribe(q) \/ WriteFails(q))
    PROVE  Seen(r)' = Seen(r)
<1>1. CASE Deliver(q) /\ r = q
  BY <1>1, DeliverSeen
<1>2. CASE ~(Deliver(q) /\ r = q)
  <2>1. got'[r] = got[r] /\ buf'[r] = buf[r]
    BY <1>2 DEF Reader, FindSession, RejectReader, Subscribe,
       SubscribeWith, Deliver, WriteFails,
                EndOfStream, Unsubscribe, Leave, channelVars, StreamTypeOK
  <2> QED
    BY <2>1 DEF Seen
<1> QED
  BY <1>1, <1>2

-----------------------------------------------------------------------------

\* A sequence that only grows still does when an element is left out.
LEMMA DropOne ==
    ASSUME NEW k \in Nat, NEW l \in Nat, NEW x, NEW y,
           DOMAIN x = 1..(k + l), DOMAIN y = 1..(k + l - 1),
           \A i \in DOMAIN y : y[i] = IF i <= k THEN x[i] ELSE x[i + 1],
           Increasing(x)
    PROVE  Increasing(y)
<1> SUFFICES ASSUME NEW m \in DOMAIN y, NEW n \in DOMAIN y, m < n
             PROVE  y[m] < y[n]
  BY DEF Increasing
<1>1. \A i, j \in DOMAIN x : i < j => x[i] < x[j]
  BY DEF Increasing
<1>2. CASE n <= k
  BY <1>1, <1>2
<1>3. CASE m <= k /\ n > k
  BY <1>1, <1>3
<1>4. CASE m > k
  BY <1>1, <1>4
<1> QED
  BY <1>2, <1>3, <1>4

\* An event read and lost leaves the others in order.
LEMMA ConcatDrop ==
    ASSUME NEW g \in Seq(Nat), NEW b \in Seq(Nat), b # <<>>, Increasing(g \o b)
    PROVE  Increasing(g \o Tail(b))
<1>1. /\ Tail(b) \in Seq(Nat) /\ Len(Tail(b)) = Len(b) - 1
      /\ Len(g) \in Nat /\ Len(b) \in Nat
      /\ \A i \in 1..Len(Tail(b)) : Tail(b)[i] = b[i + 1]
  BY HeadTailProperties, LenProperties
<1>2. /\ DOMAIN (g \o b) = 1..(Len(g) + Len(b))
      /\ \A i \in 1..(Len(g) + Len(b)) :
            (g \o b)[i] = IF i <= Len(g) THEN g[i] ELSE b[i - Len(g)]
  BY ConcatDomain
<1> SUFFICES ASSUME NEW t \in Seq(Nat), t = Tail(b)
             PROVE  Increasing(g \o t)
  BY <1>1
<1>3. /\ DOMAIN (g \o t) = 1..(Len(g) + Len(t))
      /\ \A i \in 1..(Len(g) + Len(t)) :
            (g \o t)[i] = IF i <= Len(g) THEN g[i] ELSE t[i - Len(g)]
  BY ConcatDomain
<1> DEFINE x == g \o b
           y == g \o t
<1>4. ASSUME NEW i \in DOMAIN y
      PROVE  y[i] = IF i <= Len(g) THEN x[i] ELSE x[i + 1]
  <2>0. i \in 1..(Len(g) + Len(b) - 1)
    BY <1>1, <1>3, <1>4
  <2>1. CASE i <= Len(g)
    BY <1>1, <1>2, <1>3, <2>0, <2>1
  <2>2. CASE i > Len(g)
    <3>1. i - Len(g) \in 1..Len(t) /\ i + 1 \in 1..(Len(g) + Len(b))
      BY <1>1, <2>0, <2>2
    <3>2. t[i - Len(g)] = b[i + 1 - Len(g)]
      <4>1. t[i - Len(g)] = b[(i - Len(g)) + 1]
        BY <1>1, <3>1
      <4>2. (i - Len(g)) + 1 = i + 1 - Len(g)
        BY <1>1, <2>0
      <4> QED
        BY <4>1, <4>2
    <3>3. y[i] = t[i - Len(g)]
      BY <1>1, <1>3, <2>0, <2>2
    <3>4. x[i + 1] = b[i + 1 - Len(g)]
      BY SMTT(20), <1>1, <1>2, <2>2, <3>1
    <3> QED
      BY SMTT(20), <1>1, <2>2, <3>2, <3>3, <3>4
  <2> QED
    BY SMTT(20), <1>1, <2>0, <2>1, <2>2
<1>5. DOMAIN x = 1..(Len(g) + Len(b)) /\ DOMAIN y = 1..(Len(g) + Len(b) - 1)
  BY <1>1, <1>2, <1>3
<1>6. Increasing(x)
  OBVIOUS
<1> HIDE DEF x, y
<1>7. Increasing(y)
  BY <1>1, <1>4, <1>5, <1>6, DropOne
<1> QED
  BY <1>7 DEF y

\* What a reader was sent, when it gives up after a write that failed.
LEMMA WriteFailsOrdered ==
    ASSUME StreamTypeOK, NEW q \in Readers, WriteFails(q), Increasing(Seen(q))
    PROVE  Increasing(Seen(q))'
<1>1. got[q] \in Seq(Nat) /\ buf[q] \in Seq(Nat) /\ buf[q] # <<>>
  <2>1. /\ got[q] \in Seq(DOMAIN history) /\ buf[q] \in Seq(DOMAIN history) /\ buf[q] # <<>>
        /\ DOMAIN history \subseteq Nat
    BY SeenEvents DEF WriteFails, StreamTypeOK
  <2> QED
    BY <2>1, SeqMonotonic
<1>2. got'[q] = got[q] /\ buf'[q] = Tail(buf[q])
  BY DEF WriteFails, StreamTypeOK
<1>3. Increasing(got[q] \o Tail(buf[q]))
  BY <1>1, ConcatDrop DEF Seen
<1> QED
  BY <1>2, <1>3 DEF Seen

\* A new event is later than all that were sent.
LEMMA EmitOrdered ==
    ASSUME StreamTypeOK, NEW event \in EventKinds, Emit(event), NEW r \in Readers, Increasing(Seen(r))
    PROVE  Increasing(Seen(r))'
<1>1. CASE r \in subs \ Full
  <2>1. Seen(r)' = Append(Seen(r), Len(history) + 1)
    BY <1>1, EmitSeen
  <2>2. /\ Seen(r) \in Seq(Nat) /\ Len(history) + 1 \in Nat /\ Len(Seen(r)) \in Nat
        /\ DOMAIN Seen(r) = 1..Len(Seen(r))
        /\ \A n \in DOMAIN Seen(r) : Seen(r)[n] \in Nat /\ Seen(r)[n] < Len(history) + 1
    BY SeenEvents, SeqMonotonic
  <2>3. /\ DOMAIN Seen(r)' = 1..(Len(Seen(r)) + 1)
        /\ \A i \in 1..Len(Seen(r)) : Seen(r)'[i] = Seen(r)[i]
        /\ Seen(r)'[Len(Seen(r)) + 1] = Len(history) + 1
    BY <2>1, <2>2, AppendProperties, LenProperties
  <2>4. \A m, n \in DOMAIN Seen(r)' : m < n => Seen(r)'[m] < Seen(r)'[n]
    BY <2>2, <2>3 DEF Increasing
  <2> QED
    BY <2>4 DEF Increasing
<1>2. CASE r \notin subs \ Full
  <2>1. Seen(r)' = Seen(r)
    BY <1>2, EmitSeen
  <2> QED
    BY <2>1 DEF Increasing
<1> QED
  BY <1>1, <1>2

LEMMA OrderStep ==
    ASSUME StreamTypeOK, ReaderInv, OrderInv, StreamNext
    PROVE  OrderInv'
<1> SUFFICES ASSUME NEW r \in Readers PROVE Increasing(Seen(r))'
  BY DEF OrderInv
<1>1. Increasing(Seen(r))
  BY DEF OrderInv
<1>2. CASE Seen(r)' = Seen(r)
  BY <1>1, <1>2 DEF Increasing
<1>3. ASSUME NEW event \in EventKinds, Emit(event) PROVE Increasing(Seen(r))'
  BY <1>1, <1>3, EmitOrdered
<1>4. CASE CloseSession \/ NoEvent
  <2>1. Seen(r)' = Seen(r)
    BY <1>4 DEF CloseSession, NoEvent, channelVars, readerVars, Seen
  <2> QED
    BY <1>2, <2>1
<1>5. CASE Subscribe(r)
  <2>1. Seen(r)' = [n \in 1..Len(history) |-> n] /\ Len(history) \in Nat
    BY <1>5, SubscribeSeen, ReplayType
  <2>2. \A m, n \in DOMAIN Seen(r)' : m < n => Seen(r)'[m] < Seen(r)'[n]
    BY <2>1
  <2> QED
    BY <2>2 DEF Increasing
<1>6. CASE WriteFails(r)
  BY <1>1, <1>6, WriteFailsOrdered
<1>7. ASSUME NEW q \in Readers, Reader(q) PROVE Increasing(Seen(r))'
  BY <1>2, <1>5, <1>6, <1>7, ReaderSeen
<1> QED
  BY <1>3, <1>4, <1>7, ProducerEffect DEF StreamNext

\* What an appended sequence holds.
LEMMA AppendRange ==
    ASSUME NEW D, NEW s \in Seq(D), NEW e \in D
    PROVE  Range(Append(s, e)) = Range(s) \union {e}
<1>1. /\ DOMAIN s = 1..Len(s) /\ Len(s) \in Nat
      /\ DOMAIN Append(s, e) = 1..(Len(s) + 1)
      /\ \A i \in 1..Len(s) : Append(s, e)[i] = s[i]
      /\ Append(s, e)[Len(s) + 1] = e
  <2>1. Append(s, e) \in Seq(D) /\ Len(Append(s, e)) = Len(s) + 1
    BY AppendProperties
  <2> QED
    BY <2>1, AppendProperties, LenProperties
<1> QED
  BY <1>1 DEF Range

-----------------------------------------------------------------------------

\* The misses are among finitely many subscribers and events.
LEMMA MissedFinite ==
    ASSUME StreamTypeOK, IsFiniteSet(subs)
    PROVE  IsFiniteSet(Missed) /\ Cardinality(Missed) \in Nat
<1>1. IsFiniteSet(DOMAIN history)
  <2>1. history \in Seq(EventKinds)
    BY DEF StreamTypeOK
  <2>2. DOMAIN history = 1..Len(history) /\ Len(history) \in Nat
    BY <2>1, LenProperties
  <2> QED
    BY <2>2, FS_Interval
<1>2. IsFiniteSet(subs \X DOMAIN history)
  BY <1>1, FS_Product
<1>3. Missed \in SUBSET (subs \X DOMAIN history)
  BY DEF Missed
<1> QED
  BY <1>2, <1>3, FS_Subset, FS_CardinalityType

\* An event is missed by those whose channel is full, and is counted for each.
LEMMA EmitCounts ==
    ASSUME StreamTypeOK, CountInv, NEW event \in EventKinds, Emit(event)
    PROVE  Cardinality(Missed') <= dropped'
<1> DEFINE new == Len(history) + 1
<1>1. /\ Full \in SUBSET subs /\ IsFiniteSet(Full) /\ Cardinality(Full) \in Nat
      /\ subs \subseteq Readers
  <2>1. Full \in SUBSET subs
    BY DEF Full
  <2> QED
    BY <2>1, FS_Subset, FS_CardinalityType DEF CountInv, StreamTypeOK
<1>2. IsFiniteSet(Full \X {new}) /\ Cardinality(Full \X {new}) = Cardinality(Full)
  <2>1. IsFiniteSet({new}) /\ Cardinality({new}) = 1
    BY FS_Singleton
  <2>2. /\ IsFiniteSet(Full \X {new})
        /\ Cardinality(Full \X {new}) = Cardinality(Full) * Cardinality({new})
    BY <1>1, <2>1, FS_Product
  <2> QED
    BY <1>1, <2>1, <2>2
<1>3. Missed' \subseteq Missed \union (Full \X {new})
  <2> SUFFICES ASSUME NEW x \in Missed' PROVE x \in Missed \/ x \in Full \X {new}
    OBVIOUS
  <2>1. PICK r \in subs, n \in DOMAIN history' : x = <<r, n>>
    BY DEF Missed, Emit
  <2>2. rpc[r] = "reading" /\ n \notin Range(Seen(r)')
    BY <2>1 DEF Missed, Emit, readerVars
  <2>3. DOMAIN history' = 1..new /\ DOMAIN history = 1..Len(history) /\ Len(history) \in Nat
    BY HistoryGrows DEF Emit
  <2>4. CASE r \in Full
    <3>1. Seen(r)' = Seen(r)
      BY <1>1, <2>4, EmitSeen
    <3>2. n \in DOMAIN history => <<r, n>> \in Missed
      BY <2>2, <3>1 DEF Missed
    <3> QED
      BY <2>1, <2>3, <2>4, <3>2
  <2>5. CASE r \notin Full
    <3>1. Seen(r)' = Append(Seen(r), new)
      BY <1>1, <2>5, EmitSeen
    <3>2. Seen(r) \in Seq(Nat) /\ new \in Nat
      BY <1>1, <2>3, SeenEvents, SeqMonotonic
    <3>3. Range(Seen(r)') = Range(Seen(r)) \union {new}
      <4>1. \A s \in Seq(Nat) : \A e \in Nat : Range(Append(s, e)) = Range(s) \union {e}
        BY AppendRange
      <4> QED
        BY <3>1, <3>2, <4>1
    <3> QED
      BY <2>1, <2>2, <2>3, <3>3 DEF Missed
  <2> QED
    BY <2>4, <2>5
<1>4. Cardinality(Missed') <= Cardinality(Missed) + Cardinality(Full)
  <2>1. IsFiniteSet(Missed) /\ Cardinality(Missed) \in Nat
    BY MissedFinite DEF CountInv
  <2> DEFINE both == Missed \union (Full \X {new})
  <2>2. /\ IsFiniteSet(both)
        /\ Cardinality(both) = Cardinality(Missed) + Cardinality(Full)
                                   - Cardinality(Missed \cap (Full \X {new}))
    BY <1>2, <2>1, FS_Union
  <2>3. Cardinality(Missed \cap (Full \X {new})) \in Nat
    BY <2>1, FS_Intersection, FS_CardinalityType
  <2>4. Cardinality(both) \in Nat
    BY <2>2, FS_CardinalityType
  <2>5. Cardinality(Missed') \in Nat /\ Cardinality(Missed') <= Cardinality(both)
    BY <1>3, <2>2, FS_Subset, FS_CardinalityType
  <2> QED
    BY <1>1, <2>1, <2>2, <2>3, <2>4, <2>5
<1>5. dropped' = dropped + Cardinality(Full) /\ dropped \in Nat
  BY DEF Emit, StreamTypeOK
<1>6. Cardinality(Missed') \in Nat /\ Cardinality(Missed) \in Nat
  BY <1>2, <1>3, MissedFinite, FS_Union, FS_Subset, FS_CardinalityType DEF CountInv
<1> QED
  BY <1>1, <1>4, <1>5, <1>6 DEF CountInv

\* Nothing else is missed by a subscriber who goes on reading.
LEMMA QuietCounts ==
    ASSUME StreamTypeOK, ReaderInv, CloseSession \/ NoEvent \/ \E q \in Readers : Reader(q)
    PROVE  Missed' \subseteq Missed /\ UNCHANGED dropped
<1>1. CASE CloseSession \/ NoEvent
  <2>1. UNCHANGED <<history, rpc, got, buf, dropped>> /\ subs' \subseteq subs
    BY <1>1 DEF CloseSession, NoEvent, sessionVars, channelVars,
       readerVars
  <2> QED
    BY <2>1 DEF Missed, Seen
<1>2. ASSUME NEW q \in Readers, Reader(q)
      PROVE  Missed' \subseteq Missed /\ UNCHANGED dropped
  <2>1. /\ UNCHANGED <<history, dropped>> /\ subs' \subseteq subs \union {q}
        /\ \A r \in Readers : r # q => rpc'[r] = rpc[r]
        /\ rpc'[q] = "reading" => Subscribe(q) \/ Deliver(q)
        /\ ~Subscribe(q) => subs' \subseteq subs
    BY <1>2 DEF Reader, FindSession, RejectReader, Subscribe,
       SubscribeWith, Deliver, WriteFails,
                EndOfStream, Unsubscribe, Leave, GoTo, sessionVars,
                StreamTypeOK
  <2>2. ASSUME NEW x \in Missed' PROVE x \in Missed
    <3>1. PICK r \in subs', n \in DOMAIN history : x = <<r, n>>
      BY <2>1 DEF Missed
    <3>2. rpc'[r] = "reading" /\ n \notin Range(Seen(r)')
      BY <2>2, <3>1 DEF Missed
    <3>3. CASE r # q
      <4>1. r \in subs /\ r \in Readers /\ rpc[r] = "reading"
        BY <2>1, <3>2, <3>3 DEF StreamTypeOK
      <4>2. Seen(r)' = Seen(r)
        BY <1>2, <3>3, <4>1, ReaderSeen
      <4> QED
        BY <3>1, <3>2, <4>1, <4>2 DEF Missed
    <3>4. CASE r = q /\ Subscribe(q)
      <4>1. Seen(r)' = [m \in 1..Len(history) |-> m] /\ DOMAIN history = 1..Len(history)
        BY <3>4, SubscribeSeen, ReplayType
      <4>2. Range(Seen(r)') = DOMAIN history
        BY <4>1 DEF Range
      <4> QED
        BY <3>2, <4>2
    <3>5. CASE r = q /\ Deliver(q)
      <4>1. Seen(r)' = Seen(r) /\ r \in subs /\ rpc[r] = "reading"
        BY <3>5, DeliverSeen DEF Deliver, sessionVars
      <4> QED
        BY <3>1, <3>2, <4>1 DEF Missed
    <3> QED
      BY <2>1, <3>2, <3>3, <3>4, <3>5
  <2> QED
    BY <2>1, <2>2
<1> QED
  BY <1>1, <1>2

LEMMA CountStep ==
    ASSUME StreamTypeOK, StreamTypeOK', ReaderInv, CountInv, StreamNext
    PROVE  CountInv'
<1>1. IsFiniteSet(subs')
  BY SubscribersFinite DEF CountInv
<1>2. ASSUME NEW event \in EventKinds, Emit(event) PROVE CountInv'
  BY <1>1, <1>2, EmitCounts DEF CountInv
<1>3. CASE CloseSession \/ NoEvent \/ \E q \in Readers : Reader(q)
  <2>1. Missed' \subseteq Missed /\ UNCHANGED dropped
    BY <1>3, QuietCounts
  <2>2. IsFiniteSet(Missed) /\ Cardinality(Missed) \in Nat /\ dropped \in Nat
    BY MissedFinite DEF CountInv, StreamTypeOK
  <2>3. Cardinality(Missed') <= Cardinality(Missed) /\ Cardinality(Missed') \in Nat
    BY <2>1, <2>2, FS_Subset, FS_CardinalityType
  <2> QED
    BY <1>1, <2>1, <2>2, <2>3 DEF CountInv
<1> QED
  BY <1>2, <1>3, ProducerEffect DEF StreamNext

-----------------------------------------------------------------------------

\* The error that a failing run emits reaches everyone who reads; whoever
\* subscribes later gets it with the replay.
LEMMA ShownStep ==
    ASSUME StreamTypeOK, StreamTypeOK', ReaderInv, ProducerInv, CountInv, ShownInv, StreamNext
    PROVE  ShownInv'
<1> SUFFICES ASSUME result' = "failed", ~Relay', dropped' = 0, NEW r \in Readers,
                    rpc'[r] \in {"reading", "ending", "ended"}
             PROVE  \E n \in Range(Seen(r)') : history'[n] = "error"
  BY DEF ShownInv
<1>1. CASE Producer
  <2>1. ~Relay
    BY <1>1, ProducerType DEF Relay
  <2>2. rpc' = rpc
    BY <1>1, ProducerEffect DEF Emit, CloseSession, NoEvent, readerVars
  <2>3. CASE RunFails
    <3>1. Emit("error") /\ "error" \in EventKinds /\ ppc = "run"
      BY <2>1, <2>3 DEF RunFails, EventKinds
    <3>2. Full = {}
      <4>1. Full \in SUBSET subs
        BY DEF Full
      <4>2. IsFiniteSet(Full) /\ Cardinality(Full) \in Nat
        BY <4>1, FS_Subset, FS_CardinalityType DEF CountInv
      <4>3. Cardinality(Full) = 0
        BY <3>1, <4>2 DEF Emit, StreamTypeOK
      <4> QED
        BY <4>2, <4>3, FS_EmptySet
    <3>3. r \in subs \ Full
      BY <2>2, <3>1, <3>2 DEF ProducerInv, ReaderInv
    <3>4. Seen(r)' = Append(Seen(r), Len(history) + 1)
      BY <3>1, <3>3, EmitSeen
    <3>5. Seen(r) \in Seq(Nat) /\ Len(history) + 1 \in Nat
      BY SeenEvents, SeqMonotonic
    <3>6. Range(Seen(r)') = Range(Seen(r)) \union {Len(history) + 1}
      <4>1. \A s \in Seq(Nat) : \A e \in Nat : Range(Append(s, e)) = Range(s) \union {e}
        BY AppendRange
      <4> QED
        BY <3>4, <3>5, <4>1
    <3>7. history'[Len(history) + 1] = "error"
      BY <3>1, HistoryGrows DEF Emit
    <3> QED
      BY <3>6, <3>7
  <2>4. CASE ~RunFails
    <3>1. result = "failed"
      BY <1>1, <2>4 DEF Producer, Refuse, Start, Progress,
         RunSucceeds, Panic, Finish, FinalEvent,
                        RemoveSession, Produce
    <3>2. ASSUME NEW event \in EventKinds, Emit(event)
          PROVE  \E n \in Range(Seen(r)') : history'[n] = "error"
      <4>1. dropped = 0
        <5>1. Full \in SUBSET subs
          BY DEF Full
        <5>2. Cardinality(Full) \in Nat
          BY <5>1, FS_Subset, FS_CardinalityType DEF CountInv
        <5> QED
          BY <3>2, <5>2 DEF Emit, StreamTypeOK
      <4>2. PICK n \in Range(Seen(r)) : history[n] = "error"
        BY <2>1, <2>2, <3>1, <4>1 DEF ShownInv
      <4>3. n \in DOMAIN history
        BY SeenEvents DEF Range
      <4>4. history'[n] = "error"
        BY <3>2, <4>2, <4>3, HistoryGrows DEF Emit
      <4>5. n \in Range(Seen(r)')
        <5>1. CASE r \in subs \ Full
          <6>1. Seen(r)' = Append(Seen(r), Len(history) + 1)
            BY <3>2, <5>1, EmitSeen
          <6>2. Seen(r) \in Seq(Nat) /\ Len(history) + 1 \in Nat
            BY SeenEvents, SeqMonotonic
          <6>3. \A s \in Seq(Nat) : \A e \in Nat : Range(Append(s, e)) = Range(s) \union {e}
            BY AppendRange
          <6> QED
            BY <6>1, <6>2, <6>3
        <5>2. CASE r \notin subs \ Full
          BY <3>2, <5>2, EmitSeen
        <5> QED
          BY <5>1, <5>2
      <4> QED
        BY <4>4, <4>5
    <3>3. CASE CloseSession \/ NoEvent
      <4>1. Seen(r)' = Seen(r) /\ UNCHANGED <<history, dropped>>
        BY <3>3 DEF CloseSession, NoEvent, sessionVars, channelVars,
           readerVars, Seen
      <4> QED
        BY <2>1, <2>2, <3>1, <4>1 DEF ShownInv
    <3> QED
      BY <1>1, <3>2, <3>3, ProducerEffect
  <2> QED
    BY <2>3, <2>4
<1>2. ASSUME NEW q \in Readers, Reader(q)
      PROVE  \E n \in Range(Seen(r)') : history'[n] = "error"
  <2>1. UNCHANGED <<producer, result, history, dropped>>
    BY <1>2 DEF Reader, FindSession, RejectReader, Subscribe,
       SubscribeWith, Deliver, WriteFails,
                EndOfStream, Unsubscribe, Leave, producerVars,
                sessionVars
  <2>2. ~Relay
    BY <2>1 DEF Relay
  <2>3. CASE r = q /\ Subscribe(q)
    <3>1. Seen(r)' = [m \in 1..Len(history) |-> m] /\ DOMAIN history = 1..Len(history)
      BY <2>3, SubscribeSeen, ReplayType
    <3>2. Range(Seen(r)') = DOMAIN history
      BY <3>1 DEF Range
    <3> QED
      BY <2>1, <2>2, <3>2 DEF ProducerInv
  <2>4. CASE ~(r = q /\ Subscribe(q))
    <3>1. ~(r = q /\ WriteFails(q)) /\ rpc[r] \in {"reading", "ending", "ended"}
      BY <1>2, <2>4 DEF Reader, FindSession, RejectReader, Subscribe,
         SubscribeWith, Deliver,
                        WriteFails, EndOfStream, Unsubscribe, Leave,
                        GoTo, StreamTypeOK
    <3>2. Seen(r)' = Seen(r)
      BY <1>2, <2>4, <3>1, ReaderSeen
    <3> QED
      BY <2>1, <2>2, <3>1, <3>2 DEF ShownInv
  <2> QED
    BY <2>3, <2>4
<1> QED
  BY <1>1, <1>2 DEF StreamNext

\* The inductive invariant of a session.
StreamInv == ReaderInv /\ ProducerInv /\ OrderInv /\ CountInv /\ ShownInv

LEMMA StreamInvariant == StreamSpec => []StreamInv
<1>1. StreamInit => StreamInv
  <2> SUFFICES ASSUME StreamInit PROVE StreamInv
    OBVIOUS
  <2>1. ReaderInv /\ ProducerInv
    BY DEF StreamInit, ReaderInv, ProducerInv
  <2>2. OrderInv
    <3>1. ASSUME NEW r \in Readers PROVE Increasing(Seen(r))
      <4>1. <<>> \o <<>> = <<>> /\ DOMAIN <<>> = {}
        OBVIOUS
      <4>2. Seen(r) = <<>>
        BY <4>1 DEF StreamInit, Seen
      <4> QED
        BY <4>1, <4>2 DEF Increasing
    <3> QED
      BY <3>1 DEF OrderInv
  <2>3. CountInv
    <3>1. Missed = {}
      BY DEF StreamInit, Missed
    <3> QED
      BY <3>1, FS_EmptySet DEF StreamInit, CountInv
  <2>4. ShownInv
    BY DEF StreamInit, ShownInv
  <2> QED
    BY <2>1, <2>2, <2>3, <2>4 DEF StreamInv
<1>2. StreamTypeOK /\ StreamTypeOK' /\ StreamInv /\ [StreamNext]_streamVars => StreamInv'
  <2> SUFFICES ASSUME StreamTypeOK, StreamTypeOK', StreamInv, [StreamNext]_streamVars PROVE StreamInv'
    OBVIOUS
  <2>1. CASE StreamNext
    BY <2>1, ReaderInvStep, ProducerInvStep, OrderStep, CountStep, ShownStep DEF StreamInv
  <2>2. CASE UNCHANGED streamVars
    <3>1. /\ UNCHANGED <<producer, ppc, result, listed, history, closed, subs, dropped>>
          /\ UNCHANGED <<buf, room, chan, rpc, got>>
      BY <2>2 DEF streamVars, producerVars, sessionVars, channelVars,
         readerVars
    <3>2. \A r \in Readers : Seen(r)' = Seen(r)
      BY <3>1 DEF Seen
    <3>3. ReaderInv' /\ ProducerInv'
      BY <3>1 DEF StreamInv, ReaderInv, ProducerInv, Relay
    <3>4. OrderInv' /\ ShownInv'
      BY <3>1, <3>2 DEF StreamInv, OrderInv, ShownInv, Increasing, Relay
    <3>5. CountInv'
      <4>1. Missed' = Missed
        BY <3>1 DEF Missed, Seen
      <4> QED
        BY <3>1, <4>1 DEF StreamInv, CountInv
    <3> QED
      BY <3>3, <3>4, <3>5 DEF StreamInv
  <2> QED
    BY <2>1, <2>2
<1> QED
  BY <1>1, <1>2, StreamTyping, PTL DEF StreamSpec

\* EmitEvent never sends on a closed channel, and Close and Unsubscribe never
\* close one twice (deploy_stream.go), in whatever order readers come and go.
THEOREM StreamNeverPanics == StreamSpec => []NoPanic
<1>1. StreamInv => NoPanic
  BY DEF StreamInv, ReaderInv, NoPanic
<1> QED
  BY <1>1, StreamInvariant, PTL

\* Subscribe replays in a channel that has the room, the events reach a reader
\* in order and none twice, and EmitEvent counts every one it drops.
THEOREM LossesCounted == StreamSpec => []LossIsCounted
<1>1. StreamTypeOK /\ StreamInv => LossIsCounted
  BY DEF StreamInv, OrderInv, Increasing, CountInv, StreamTypeOK, LossIsCounted
<1> QED
  BY <1>1, StreamInvariant, StreamTyping, PTL

\* Whoever follows the stream of a failed run on the panel's own host to its
\* end has read its error, unless drops were counted: no reader who comes late,
\* or while the session closes, misses it.
THEOREM FailuresShown == StreamSpec => []FailedRunIsShown
<1>1. StreamTypeOK /\ StreamInv => FailedRunIsShown
  <2> SUFFICES ASSUME StreamTypeOK, StreamInv, NEW r \in Readers, rpc[r] = "ended",
                      result = "failed", ~Relay, dropped = 0
               PROVE  \E n \in DOMAIN got[r] : history[got[r][n]] = "error"
    BY DEF FailedRunIsShown
  <2>1. PICK n \in Range(Seen(r)) : history[n] = "error"
    BY DEF StreamInv, ShownInv
  <2>2. Seen(r) = got[r]
    <3>1. buf[r] = <<>> /\ got[r] \in Seq(DOMAIN history)
      BY DEF StreamInv, ReaderInv, StreamTypeOK
    <3> QED
      BY <3>1, ConcatEmptySeq DEF Seen
  <2> QED
    BY <2>1, <2>2 DEF Range
<1> QED
  BY <1>1, StreamInvariant, StreamTyping, PTL
=============================================================================
