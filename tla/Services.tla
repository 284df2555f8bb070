----------------------------- MODULE Services -----------------------------
(***************************************************************************)
(* The apps the panel has deployed: their records in the services bucket,  *)
(* their containers, their compose files and their routes in Traefik's     *)
(* dynamic configuration (server/routes.go, instance_scoped_routes.go,     *)
(* webhook_handlers.go, git_deploy.go, docker/compose.go,                  *)
(* traefik/config.go, git/deploy.go).                                      *)
(*                                                                         *)
(* An app is a host and a name.  A compose file is the request that        *)
(* brought it; the services of an app, and so the names of its containers, *)
(* are the same in all of them.  All repositories are cloned into one      *)
(* directory, as those are whose URLs end alike.                           *)
(***************************************************************************)
EXTENDS FiniteSets, Naturals, TLC

CONSTANTS
    Reqs,            \* requests that deploy, toggle or delete
    Panel,           \* the instance the panel runs on, "local"
    Edge,            \* another one
    LocalNames,      \* names of apps of the one
    EdgeNames,       \* and of the other
    TemplateDomains, \* bound: whether templates are deployed with a domain
    Nobody,          \* no request: no containers, no file
    MaxAtOnce        \* bound: requests at work at one time

ASSUME ServicesAssumption ==
    /\ MaxAtOnce \in Nat
    /\ Panel # Edge
    /\ TemplateDomains \subseteq BOOLEAN
    /\ Nobody \notin Reqs

VARIABLES
    job,         \* what each request is about, once it has begun
    pc,          \* where it is
    took,        \* the compose file it works with
    seen,        \* the routes it has read
    records,     \* the services bucket
    ctr,         \* whose compose file an app's containers come from
    up,          \* they are running
    file,        \* compose.yaml in the app's directory
    repo,        \* whose clone is in the directory of the repository
    routes,      \* the names that Traefik routes
    newest,      \* the compose file of an app's last deploy that succeeded
    mishaps      \* what went wrong for which name, for the properties only

Names == LocalNames \union EdgeNames

Apps == ({Panel} \X LocalNames) \union ({Edge} \X EdgeNames)

appVars == <<ctr, up, file, newest>>
routeVars == <<routes, seen>>
vars == <<job, pc, took, seen, records, ctr, up, file, repo, routes, newest, mishaps>>

\* The deploys; DELETE /services/:id and DELETE /instances/:id/services/:id;
\* the auto-update toggle.
DeployKinds == {"compose", "template", "git"}
DeleteKinds == {"delete", "forget"}
Kinds == DeployKinds \union DeleteKinds \union {"toggle"}

Places == {"idle", "clear", "clone", "read", "pick", "create", "save",
           "remove", "routes", "truncate", "write", "drop", "over"}

\* db.Service.  Its ID is the request that made it; the record of a git deploy
\* has no compose file, and only a compose or template one has a domain.
Record == [id : Reqs, app : Apps, type : DeployKinds, domain : BOOLEAN, compose : Reqs \union {Nobody}]

Job == [kind : Kinds, app : Apps, domain : BOOLEAN, record : Record \union {Nobody}]

What == {"at once", "cut short", "clones at once", "failed file", "partial", "unsaved",
         "duplicate", "namesake", "kept", "not removed", "other host", "not deleted",
         "route failed", "routes lost", "routes at once"}

TypeOK ==
    /\ job \in [Reqs -> Job \union {Nobody}]
    /\ pc \in [Reqs -> Places]
    /\ took \in [Reqs -> Reqs \union {Nobody}]
    /\ seen \in [Reqs -> SUBSET Names]
    /\ records \subseteq Record
    /\ ctr \in [Apps -> Reqs \union {Nobody}]
    /\ up \in [Apps -> BOOLEAN]
    /\ file \in [Apps -> Reqs \union {Nobody}]
    /\ repo \in Reqs \union {Nobody}
    /\ routes \subseteq Names
    /\ newest \in [Apps -> Reqs \union {Nobody}]
    /\ mishaps \subseteq What \X Names

Init ==
    /\ job = [r \in Reqs |-> Nobody]
    /\ pc = [r \in Reqs |-> "idle"]
    /\ took = [r \in Reqs |-> Nobody]
    /\ seen = [r \in Reqs |-> {}]
    /\ records = {}
    /\ ctr = [a \in Apps |-> Nobody]
    /\ up = [a \in Apps |-> FALSE]
    /\ file = [a \in Apps |-> Nobody]
    /\ repo = Nobody
    /\ routes = {}
    /\ newest = [a \in Apps |-> Nobody]
    /\ mishaps = {}

App(r) == job[r].app
Name(r) == App(r)[2]
Deploys(r) == job[r].kind \in DeployKinds

AtWork(r) == pc[r] \notin {"idle", "over"}
AtWorkOn(n) == \E r \in Reqs : AtWork(r) /\ Name(r) = n

\* The request goes on; nothing is left of one that is over.
GotoWith(r, place, source) ==
    /\ pc' = [pc EXCEPT ![r] = place]
    /\ job' = IF place = "over" THEN [job EXCEPT ![r] = Nobody] ELSE job
    /\ took' = [took EXCEPT ![r] = IF place = "over" THEN Nobody ELSE source]

Goto(r, place) == GotoWith(r, place, took[r])

Note(what, n, happened) ==
    mishaps' = IF happened THEN mishaps \union {<<what, n>>} ELSE mishaps

\* Bound: something breaks once.
Faults == {"cut short", "partial", "unsaved", "not removed", "not deleted", "route failed", "routes lost"}
MayFail == \A m \in mishaps : m[1] \notin Faults

Happened(what, n) == <<what, n>> \in mishaps

(***************************************************************************)
(* A request arrives                                                       *)
(***************************************************************************)

MayStart(r) == pc[r] = "idle" /\ Cardinality({q \in Reqs : AtWork(q)}) < MaxAtOnce

Starts(r, j, source, place) ==
    /\ job' = [job EXCEPT ![r] = j]
    /\ took' = [took EXCEPT ![r] = source]
    /\ pc' = [pc EXCEPT ![r] = place]
    /\ Note("at once", j.app[2], AtWorkOn(j.app[2]))
    /\ UNCHANGED <<seen, records, appVars, repo, routes>>

DeployBegins(r, kind, app, domain) ==
    /\ MayStart(r)
    /\ Starts(r, [kind |-> kind, app |-> app, domain |-> domain, record |-> Nobody], r, "create")

GitBegins(r, app) ==
    /\ MayStart(r)
    /\ Starts(r, [kind |-> "git", app |-> app, domain |-> FALSE, record |-> Nobody], Nobody, "clear")

\* POST /instances/:id/deploy/stream, and /deploy/compose without a session.
InstanceDeployStream(r) == \E app \in Apps, domain \in BOOLEAN : DeployBegins(r, "compose", app, domain)

InstanceDeploy(r) == \E app \in Apps, domain \in BOOLEAN : DeployBegins(r, "compose", app, domain)

\* POST /instances/:id/templates/:id/deploy/stream: a template with its
\* variables, ports and network filled in.
InstanceTemplate(r) == \E app \in Apps, domain \in TemplateDomains : DeployBegins(r, "template", app, domain)

\* POST /instances/:id/deploy/git.
InstanceGit(r) == \E app \in Apps : GitBegins(r, app)

\* The older routes of the same, for the panel's own host.
PanelDeployStream(r) ==
    \E name \in LocalNames, domain \in BOOLEAN : DeployBegins(r, "compose", <<Panel, name>>, domain)

PanelDeploy(r) ==
    \E name \in LocalNames, domain \in BOOLEAN : DeployBegins(r, "compose", <<Panel, name>>, domain)

PanelTemplateStream(r) ==
    \E name \in LocalNames, domain \in TemplateDomains : DeployBegins(r, "template", <<Panel, name>>, domain)

\* POST /templates/:id/deploy names the app after the template and the second,
\* and gives it no domain.
PanelTemplate(r) == \E name \in LocalNames : DeployBegins(r, "template", <<Panel, name>>, FALSE)

PanelGit(r) == \E name \in LocalNames : GitBegins(r, <<Panel, name>>)

\* A push triggers a webhook, which names the instance, the app and the repository.
WebhookDeploy(r) == \E app \in Apps : GitBegins(r, app)

WithRecord(r, kind, app, rec, place) ==
    /\ MayStart(r)
    /\ Starts(r, [kind |-> kind, app |-> app, domain |-> rec.domain, record |-> rec], rec.compose, place)

\* DELETE /services/:id, for any record.
DeleteRequested(r) == \E rec \in records : WithRecord(r, "delete", rec.app, rec, "remove")

\* DELETE /instances/:id/services/:id, for those of the instance.
ForgetRequested(r) == \E rec \in records : WithRecord(r, "forget", rec.app, rec, "remove")

\* Mutant: the toggle takes the first record of the host.
ToggleRequestedAnyName(r) ==
    \E rec \in records, name \in LocalNames :
        /\ rec.app[1] = Panel /\ rec.compose # Nobody
        /\ WithRecord(r, "toggle", <<Panel, name>>, rec, "pick")

\* PATCH /apps/:name/auto-update takes the first record of the name on this
\* host, in the order of random IDs; without a compose file it gives up.
ToggleRequested(r) ==
    \E rec \in records :
        /\ rec.app[1] = Panel /\ rec.compose # Nobody
        /\ WithRecord(r, "toggle", rec.app, rec, "pick")

\* The toggle of an app without a record reads the file that the label of a
\* container names, and makes a record.
FallbackBegins(r, app) ==
    /\ MayStart(r)
    /\ app[1] = Panel
    /\ \A rec \in records : rec.app # app
    /\ ctr[app] # Nobody /\ file[app] # Nobody
    /\ Starts(r, [kind |-> "toggle", app |-> app, domain |-> FALSE,
                  record |-> [id |-> r, app |-> app, type |-> "compose", domain |-> FALSE, compose |-> file[app]]],
              file[app], "pick")

(***************************************************************************)
(* git.Clone and prepareGitDeploy                                          *)
(***************************************************************************)

Cloning(r) == pc[r] \in {"clear", "clone", "read"}

OthersCloning(r) == {q \in Reqs \ {r} : Cloning(q)}

\* Mutant: the directory of an earlier clone is kept.
CloneKeeps(r) ==
    /\ pc[r] = "clear"
    /\ Goto(r, IF repo = Nobody THEN "clone" ELSE "read")
    /\ UNCHANGED <<records, appVars, routeVars, repo, mishaps>>

\* The directory is removed, whoever works in it.
CloneClears(r) ==
    /\ pc[r] = "clear"
    /\ repo' = Nobody
    /\ Goto(r, "clone")
    /\ mishaps' = mishaps \union
          {<<"clones at once", Name(q)>> : q \in IF OthersCloning(r) = {} THEN {} ELSE OthersCloning(r) \union {r}}
    /\ UNCHANGED <<records, appVars, routeVars>>

\* PlainClone fails when a clone is there, or the repository cannot be reached.
Clone(r) ==
    /\ pc[r] = "clone"
    /\ \/ repo = Nobody /\ repo' = r /\ Goto(r, "read")
       \/ Goto(r, "over") /\ UNCHANGED repo
    /\ UNCHANGED <<records, appVars, routeVars, mishaps>>

\* The compose file is read, whosever clone is there by now.
ReadCompose(r) ==
    /\ pc[r] = "read"
    /\ (repo # Nobody /\ GotoWith(r, "create", repo)) \/ Goto(r, "over")
    /\ UNCHANGED <<records, appVars, repo, routeVars, mishaps>>

(***************************************************************************)
(* DeployCompose, for the deploys and the toggle                           *)
(***************************************************************************)

\* The toggle saves the record with the label set, before it deploys.
ToggleSaves(r) ==
    /\ pc[r] = "pick"
    /\ records' = {rec \in records : rec.id # job[r].record.id} \union {job[r].record}
    /\ Goto(r, "create")
    /\ UNCHANGED <<appVars, repo, routeVars, mishaps>>

\* writeComposeFile comes first, and nothing takes it back.
WriteComposeFile(r) == file' = [file EXCEPT ![App(r)] = took[r]]

\* createAndStartService replaces containers that do not run, and none that do.
CreateAndStart(r) ==
    /\ ~up[App(r)]
    /\ ctr' = [ctr EXCEPT ![App(r)] = took[r]]
    /\ up' = [up EXCEPT ![App(r)] = TRUE]
    /\ newest' = [newest EXCEPT ![App(r)] = IF Deploys(r) THEN took[r] ELSE @]
    /\ Goto(r, IF Deploys(r) THEN "save" ELSE "over")
    /\ UNCHANGED mishaps

\* It fails on a running container of that name, or anywhere else.  What it has
\* created so far stays, or is cleaned up by a streamed deploy.
CreateFails(r) ==
    /\ \E left \in IF up[App(r)] \/ ~MayFail THEN {ctr[App(r)]} ELSE {ctr[App(r)], took[r], Nobody} :
          /\ ctr' = [ctr EXCEPT ![App(r)] = left]
          /\ mishaps' = mishaps
                \union (IF took[r] # ctr[App(r)] THEN {<<"failed file", Name(r)>>} ELSE {})
                \union IF left # ctr[App(r)] THEN {<<"partial", Name(r)>>} ELSE {}
    /\ Goto(r, "over")
    /\ UNCHANGED <<up, newest>>

DeployCompose(r) ==
    /\ pc[r] = "create"
    /\ WriteComposeFile(r)
    /\ CreateAndStart(r) \/ CreateFails(r)
    /\ UNCHANGED <<records, repo, routeVars>>

RecordOf(r) ==
    [id |-> r, app |-> App(r), type |-> job[r].kind, domain |-> job[r].domain,
     compose |-> IF job[r].kind = "git" THEN Nobody ELSE took[r]]

RouteNext(r) == IF job[r].domain THEN "routes" ELSE IF Deploys(r) THEN "over" ELSE "drop"

\* The app has a record already, or one of that name on another host has.
NoteTwins(r) ==
    mishaps' = mishaps \union
        {<<IF rec.app = App(r) THEN "duplicate" ELSE "namesake", Name(r)>> :
            rec \in {x \in records : x.app[2] = Name(r)}}

\* Mutant: the app is recorded under the panel's own host.
SaveServiceOfPanel(r) ==
    /\ pc[r] = "save"
    /\ records' = records \union {[RecordOf(r) EXCEPT !.app = <<Panel, Name(r)>>]}
    /\ NoteTwins(r)
    /\ Goto(r, RouteNext(r))
    /\ UNCHANGED <<appVars, repo, routeVars>>

\* SaveService under a fresh ID, whatever records the app has already.
SaveService(r) ==
    /\ pc[r] = "save"
    /\ records' = records \union {RecordOf(r)}
    /\ NoteTwins(r)
    /\ Goto(r, RouteNext(r))
    /\ UNCHANGED <<appVars, repo, routeVars>>

\* Its error is not looked at.
SaveFails(r) ==
    /\ pc[r] = "save" /\ MayFail
    /\ Note("unsaved", Name(r), TRUE)
    /\ Goto(r, RouteNext(r))
    /\ UNCHANGED <<records, appVars, repo, routeVars>>

(***************************************************************************)
(* Deletion                                                                *)
(***************************************************************************)

\* Only DELETE /services/:id of a "compose" service removes containers: those
\* of that name on the panel's own host, wherever the service is.
Removes(r) == job[r].kind = "delete" /\ job[r].record.type = "compose"

Without(f, app, empty) == [a \in Apps |-> IF a = app THEN empty ELSE f[a]]

\* RemoveCompose, whose error is ignored.  It goes on to the directory when a
\* container cannot be removed, but does nothing when it cannot list them.
RemoveCompose(r) ==
    LET here == <<Panel, Name(r)>>
        foreign == here # App(r) /\ {ctr[here], ctr[App(r)]} # {Nobody}
        other == IF foreign THEN {<<"other host", Name(r)>>} ELSE {}
        failed == {<<"not removed", Name(r)>>}
    IN  /\ pc[r] = "remove" /\ Removes(r)
        /\ \/ /\ ctr' = Without(ctr, here, Nobody) /\ up' = Without(up, here, FALSE)
              /\ \/ file' = Without(file, here, Nobody) /\ mishaps' = mishaps \union other
                 \/ MayFail /\ UNCHANGED file /\ mishaps' = mishaps \union other \union failed
           \/ /\ MayFail
              /\ file' \in {file, Without(file, here, Nobody)}
              /\ mishaps' = mishaps \union failed
              /\ UNCHANGED <<ctr, up>>
        /\ Goto(r, RouteNext(r))
        /\ UNCHANGED <<records, newest, repo, routeVars>>

\* Otherwise the containers are left alone.
KeepContainers(r) ==
    /\ pc[r] = "remove" /\ ~Removes(r)
    /\ Note("kept", Name(r), ctr[App(r)] # Nobody)
    /\ Goto(r, RouteNext(r))
    /\ UNCHANGED <<records, appVars, repo, routeVars>>

DeleteService(r) ==
    /\ pc[r] = "drop"
    /\ records' = {rec \in records : rec.id # job[r].record.id}
    /\ Goto(r, "over")
    /\ UNCHANGED <<appVars, repo, routeVars, mishaps>>

\* The one handler ignores its error and the other answers 500: what belonged to
\* the record is gone by then.
DeleteFails(r) ==
    /\ pc[r] = "drop" /\ MayFail
    /\ Note("not deleted", Name(r), TRUE)
    /\ Goto(r, "over")
    /\ UNCHANGED <<records, appVars, repo, routeVars>>

(***************************************************************************)
(* GenerateConfig and RemoveDomain: the file is read, truncated and written *)
(***************************************************************************)

AfterRoutes(r) == IF Deploys(r) THEN "over" ELSE "drop"

Routing(r) == pc[r] \in {"truncate", "write"}

\* Whoever works on the file at the same time may lose what it did.
RoutesAtOnce(r) ==
    IF \E q \in Reqs \ {r} : Routing(q) THEN {<<"routes at once", n>> : n \in Names} ELSE {}

RoutesRead(r) ==
    /\ pc[r] = "routes"
    /\ seen' = [seen EXCEPT ![r] = routes]
    /\ Goto(r, "truncate")
    /\ mishaps' = mishaps \union RoutesAtOnce(r)
    /\ UNCHANGED <<records, appVars, repo, routes>>

\* Whoever had a route may have lost it.
LosesRoutes(r) == mishaps' = mishaps \union {<<"routes lost", n>> : n \in Names} \union RoutesAtOnce(r)

\* GenerateConfig does not look at the errors of reading and parsing the file,
\* and goes on with what it has got.
RoutesUnread(r) ==
    /\ pc[r] = "routes" /\ Deploys(r) /\ MayFail
    /\ \E part \in SUBSET routes : seen' = [seen EXCEPT ![r] = part]
    /\ Goto(r, "truncate")
    /\ LosesRoutes(r)
    /\ UNCHANGED <<records, appVars, repo, routes>>

\* The file is missing, RemoveDomain cannot read or parse it, or it cannot be
\* opened for writing.  The error is logged, at most.
RoutesFail(r) ==
    /\ pc[r] \in {"routes", "truncate"} /\ MayFail
    /\ Note("route failed", Name(r), TRUE)
    /\ seen' = [seen EXCEPT ![r] = {}]
    /\ Goto(r, AfterRoutes(r))
    /\ UNCHANGED <<records, appVars, repo, routes>>

\* os.WriteFile truncates the file first.
RoutesTruncate(r) ==
    /\ pc[r] = "truncate"
    /\ routes' = {}
    /\ Goto(r, "write")
    /\ mishaps' = mishaps \union RoutesAtOnce(r)
    /\ UNCHANGED <<seen, records, appVars, repo>>

\* Mutant: the configuration starts afresh.
RoutesWrittenAlone(r) == IF Deploys(r) THEN {Name(r)} ELSE {}

\* The router is named after the app, without its host.
RoutesWritten(r) == IF Deploys(r) THEN seen[r] \union {Name(r)} ELSE seen[r] \ {Name(r)}

RoutesWrite(r) ==
    /\ pc[r] = "write"
    /\ routes' = RoutesWritten(r)
    /\ seen' = [seen EXCEPT ![r] = {}]
    /\ Goto(r, AfterRoutes(r))
    /\ mishaps' = mishaps \union RoutesAtOnce(r)
    /\ UNCHANGED <<records, appVars, repo>>

\* The write fails half-way, after the truncation.
RoutesWriteFails(r) ==
    /\ pc[r] = "write" /\ MayFail
    /\ routes' \in SUBSET RoutesWritten(r)
    /\ seen' = [seen EXCEPT ![r] = {}]
    /\ Goto(r, AfterRoutes(r))
    /\ LosesRoutes(r)
    /\ UNCHANGED <<records, appVars, repo>>

\* Somebody stops an app's containers, in the panel or not.
Stop(app) ==
    /\ up[app]
    /\ up' = [up EXCEPT ![app] = FALSE]
    /\ UNCHANGED <<job, pc, took, seen, records, ctr, file, newest, repo, routes, mishaps>>

\* The panel stops in the middle of its requests.
PanelStops ==
    LET cut == {r \in Reqs : AtWork(r)}
        hit == IF \E r \in cut : pc[r] = "write" THEN Names ELSE {Name(r) : r \in cut}
    IN  /\ cut # {}
        /\ MayFail
        /\ pc' = [r \in Reqs |-> IF r \in cut THEN "over" ELSE pc[r]]
        /\ job' = [r \in Reqs |-> Nobody]
        /\ took' = [r \in Reqs |-> Nobody]
        /\ seen' = [r \in Reqs |-> {}]
        /\ mishaps' = mishaps \union {<<"cut short", n>> : n \in hit}
        /\ UNCHANGED <<records, appVars, repo, routes>>

-----------------------------------------------------------------------------

Begins(r) ==
    \/ InstanceDeployStream(r) \/ InstanceDeploy(r) \/ InstanceTemplate(r) \/ InstanceGit(r)
    \/ PanelDeployStream(r) \/ PanelDeploy(r) \/ PanelTemplateStream(r) \/ PanelTemplate(r) \/ PanelGit(r)
    \/ WebhookDeploy(r)
    \/ DeleteRequested(r) \/ ForgetRequested(r) \/ ToggleRequested(r)
    \/ \E app \in Apps : FallbackBegins(r, app)

Deploy(r) ==
    \/ CloneClears(r) \/ Clone(r) \/ ReadCompose(r)
    \/ ToggleSaves(r)
    \/ DeployCompose(r)
    \/ SaveService(r) \/ SaveFails(r)

Delete(r) == RemoveCompose(r) \/ KeepContainers(r) \/ DeleteService(r) \/ DeleteFails(r)

Route(r) ==
    \/ RoutesRead(r) \/ RoutesUnread(r) \/ RoutesFail(r)
    \/ RoutesTruncate(r) \/ RoutesWrite(r) \/ RoutesWriteFails(r)

Next ==
    \/ \E r \in Reqs : Begins(r) \/ Deploy(r) \/ Delete(r) \/ Route(r)
    \/ \E app \in Apps : Stop(app)
    \/ PanelStops

Symmetry == Permutations(Reqs)

Spec == Init /\ [][Next]_vars

(***************************************************************************)
(* Properties                                                              *)
(***************************************************************************)

Recorded(app) == \E rec \in records : rec.app = app

Caused(causes, n) == \E c \in causes : Happened(c, n)

\* Once nobody works on an app, containers without a record of the panel come
\* from one of the known gaps, and so does a record without containers.
AppsMatchRecords ==
    \A app \in Apps : ~AtWorkOn(app[2]) =>
        /\ ctr[app] # Nobody /\ ~Recorded(app)
              => Caused({"at once", "cut short", "partial", "unsaved", "kept", "not removed", "other host"}, app[2])
        /\ ctr[app] = Nobody /\ Recorded(app)
              => Caused({"at once", "cut short", "partial", "duplicate", "other host", "not deleted"}, app[2])

\* A name is routed exactly if one of its records has a domain, except after a
\* failure of its own request, two writers of Traefik's file, two records of
\* that name, or a failed read or write of the file, which takes the routes of
\* the other apps along.
RoutesMatchRecords ==
    \A n \in Names :
        (/\ ~(n \in routes <=> \E rec \in records : rec.app[2] = n /\ rec.domain)
         /\ ~AtWorkOn(n)
         /\ \A r \in Reqs : ~Routing(r))
            => Caused({"at once", "cut short", "unsaved", "duplicate", "namesake", "not deleted",
                       "route failed", "routes lost", "routes at once"}, n)

\* An app runs the compose file it was last deployed with; a toggle that brings
\* an older one back found it in a second record, or in a file that a failed
\* deploy has left, or was at work while the app was deleted and deployed anew.
VersionHasCause ==
    \A app \in Apps :
        ctr[app] \notin {Nobody, newest[app]} /\ ~AtWorkOn(app[2])
            => Caused({"at once", "cut short", "unsaved", "duplicate", "failed file"}, app[2])

\* A git deploy takes the compose file of another request's repository only if
\* both were cloning at the same time.
SourceIsOwn ==
    \A r \in Reqs :
        AtWork(r) /\ job[r].kind = "git" /\ took[r] \notin {Nobody, r} => Happened("clones at once", Name(r))
=============================================================================
