---------------------------- MODULE AppRequests -----------------------------
(***************************************************************************)
(* The requests that change apps and services by running commands one      *)
(* after the other: an app is created over a WebSocket, deleted, or has a  *)
(* setting changed; a service is created, linked, unlinked, configured or  *)
(* deleted.                                                                *)
(*                                                                         *)
(* A request is the list of the commands that its handler has still to     *)
(* run.  Every command can fail.  What the handler makes of a failure is   *)
(* part of the list: it stops and answers with an error, it tells the      *)
(* browser and goes on, it only logs it, or it passes over it; and it      *)
(* leaves out the commands that depend on the one that failed.             *)
(*                                                                         *)
(* dokku is external: of each command the model has what the handlers rely *)
(* on.                                                                     *)
(***************************************************************************)
EXTENDS Naturals, FiniteSets, Sequences, SequencesExt

CONSTANTS
    Apps,
    DefaultName,  \* [Apps -> names of services], <app>-db
    Options,      \* docker options
    Forms,        \* what may be asked for
    Linked,       \* services that are there and linked at first
    Requests,     \* the requests that come, each once
    MaxFailures   \* commands that fail in one request without need

(***************************************************************************)
(* A service is a type and a name.  The deletion of an app knows four      *)
(* types, in this order.                                                   *)
(***************************************************************************)
DatabaseTypes == <<"postgres", "mariadb", "mongo", "redis">>

NoService == <<"", "">>

URLs == {"DATABASE_URL", "REDIS_URL", "MONGO_URL", "OTHER_URL"}

URLOf(service) ==
    CASE service[1] \in {"postgres", "mariadb"} -> "DATABASE_URL"
      [] service[1] = "redis" -> "REDIS_URL"
      [] service[1] = "mongo" -> "MONGO_URL"
      [] OTHER -> "OTHER_URL"

Nothing == "nothing"

NoForm == [kind |-> "none", app |-> Nothing]

VARIABLES
    dokku,      \* what dokku and the disk hold
    asked,      \* [Requests -> Forms or NoForm]
    plan,       \* [Requests -> Seq(Command)], what is still to be run
    told,       \* [Requests -> BOOLEAN], the browser was told of a failure
    logged,     \* [Requests -> sets of commands], failures only the log has
    answer,     \* [Requests -> {"none", "ok", "error"}]
    failures,   \* [Requests -> 0 .. MaxFailures], commands that failed and
                \* need not have
    alone,      \* [Requests -> BOOLEAN], no other request since it came
    had         \* [Requests -> sets of services], those linked to the
                \* app of the request, and to no other, when it came

vars == <<dokku, asked, plan, told, logged, answer, failures, alone, had>>

(***************************************************************************)
(* Commands.                                                               *)
(***************************************************************************)
Command(do, app, item, otherwise, skip) ==
    [do |-> do, app |-> app, item |-> item, otherwise |-> otherwise, skip |-> skip]

Stop(do, app, item) == Command(do, app, item, "stop", 0)

Tell(do, app, item, skip) == Command(do, app, item, "tell", skip)

Log(do, app, item, skip) == Command(do, app, item, "log", skip)

Pass(do, app, item, skip) == Command(do, app, item, "pass", skip)

If(condition, commands) == IF condition THEN commands ELSE <<>>

-----------------------------------------------------------------------------
(***************************************************************************)
(* handleAppCreate.  The form has a list of services, one of which may be  *)
(* without type or name, and what else the app is to have.                 *)
(***************************************************************************)
Mutant_LinkFailureLogged(app, service) ==
    IF service = NoService
    THEN <<Tell("unnamed", app, service, 0)>>
    ELSE <<Tell("create", app, service, 1), Log("link", app, service, 0)>>

ServiceCommands(app, service) ==
    IF service = NoService
    THEN <<Tell("unnamed", app, service, 0)>>
    ELSE <<Tell("create", app, service, 1), Tell("link", app, service, 0)>>

EnvCommands(app) == <<Tell("set", app, "env", 0)>>

DomainCommands(app) ==
    <<Log("read-vhost", app, Nothing, 1),
      Log("unset", app, "default-domain", 0),
      Tell("set", app, "domain", 0)>>

PortCommands(app) == <<Tell("set", app, "port", 0)>>

SSLCommands(app) == <<Tell("set", app, "ssl", 0)>>

MountCommands(app) ==
    <<Tell("mkdir", app, Nothing, 4), Log("chown", app, Nothing, 0),
      Log("mkdir", app, "source", 2), Log("chown", app, "source", 0),
      Tell("set", app, "mount", 0)>>

ImageCommands(app) == <<Tell("deploy", app, Nothing, 0)>>

CreateApp(f) ==
    <<Stop("apps:create", f.app, Nothing)>>
    \o FlattenSeq([i \in DOMAIN f.services |-> ServiceCommands(f.app, f.services[i])])
    \o If("env" \in f.wants, EnvCommands(f.app))
    \o If("domain" \in f.wants, DomainCommands(f.app))
    \o If("port" \in f.wants, PortCommands(f.app))
    \o If({"domain", "ssl"} \subseteq f.wants, SSLCommands(f.app))
    \o If("mount" \in f.wants, MountCommands(f.app))
    \o If("image" \in f.wants, ImageCommands(f.app))

(***************************************************************************)
(* handleAppDelete.  The services the app's configuration names come first *)
(* (see RestAfter), then those with the app's default name.                *)
(***************************************************************************)
RemoveService(app, service) ==
    <<Pass("unlink", app, service, 0), Pass("destroy", app, service, 0)>>

Mutant_MissingServiceStops(app) ==
    FlattenSeq([i \in DOMAIN DatabaseTypes |->
                   LET service == <<DatabaseTypes[i], DefaultName[app]>> IN
                   <<Stop("info", app, service)>> \o RemoveService(app, service)])

RemoveDefaultServices(app) ==
    FlattenSeq([i \in DOMAIN DatabaseTypes |->
                   LET service == <<DatabaseTypes[i], DefaultName[app]>> IN
                   <<Pass("info", app, service, 2)>> \o RemoveService(app, service)])

Mutant_DataFirst(f) ==
    If(f.deleteDb, <<Stop("config", f.app, Nothing)>> \o RemoveDefaultServices(f.app))
    \o If(f.deleteData, <<Stop("rm", f.app, Nothing)>>)
    \o <<Stop("apps:destroy", f.app, Nothing)>>

DeleteApp(f) ==
    If(f.deleteDb, <<Stop("config", f.app, Nothing)>> \o RemoveDefaultServices(f.app))
    \o <<Stop("apps:destroy", f.app, Nothing)>>
    \o If(f.deleteData, <<Stop("rm", f.app, Nothing)>>)

-----------------------------------------------------------------------------
(***************************************************************************)
(* The settings of an app.  Most handlers run one command.                 *)
(***************************************************************************)
SetConfig(f) == <<Stop(f.do, f.app, "env")>>

SetPort(f) == <<Stop(f.do, f.app, "port")>>

SetRedirect(f) == <<Stop(f.do, f.app, "redirect")>>

ScaleApp(f) == <<Stop(f.do, f.app, "scale")>>

\* The path of the Procfile; that of app.json is set in the same way.
SetProcfilePath(f) == <<Stop(f.do, f.app, "procfile")>>

SetRestartPolicy(f) == <<Stop(f.do, f.app, "restart-policy")>>

RemoveDomain(f) == <<Stop("unset", f.app, "domain")>>

(***************************************************************************)
(* EnableSSL: when it fails after a domain was added, that is part of the  *)
(* answer; otherwise it is the answer.                                     *)
(***************************************************************************)
EnableSSL(f, otherwise) ==
    <<Command("list-plugins", f.app, Nothing, otherwise, 2),
      Command("domains", f.app, Nothing, otherwise, 1),
      Command("set", f.app, "ssl", otherwise, 0)>>

AddDomain(f) ==
    <<Stop("set", f.app, "domain")>> \o If(f.ssl, EnableSSL(f, "tell"))

SSLEnable(f) == EnableSSL(f, "stop")

SetNginx(f) == <<Stop(f.do, f.app, "nginx"), Stop("apply", f.app, Nothing)>>

MountStorage(f) ==
    <<Stop("mkdir", f.app, Nothing), Stop("mkdir", f.app, "source"),
      Stop("chown", f.app, "source"), Stop("chmod", f.app, "source"),
      Stop("set", f.app, "mount")>>

UnmountStorage(f) == <<Stop("unset", f.app, "mount")>>

AddOption(f) == <<Stop("set", f.app, f.option)>>

(***************************************************************************)
(* The option to be replaced or removed is looked up in a report first     *)
(* (see RestAfter).                                                        *)
(***************************************************************************)
UpdateOption(f) == <<Stop("options", f.app, Nothing), Stop("set", f.app, f.option)>>

DeleteOption(f) == <<Stop("options", f.app, Nothing)>>

SetLimits(f) ==
    <<Stop("containers", f.app, Nothing), Stop("docker-update", f.app, Nothing),
      Stop("set", f.app, "limit")>>

(***************************************************************************)
(* Services.  All but the creation list the services first, to see whether *)
(* the user may have this one; here the user may.                          *)
(***************************************************************************)
CreateService(f) == <<Stop("create", f.app, f.service)>>

LinkService(f) ==
    <<Stop("list-services", f.app, f.service), Stop("list-apps", f.app, f.service),
      Stop("link", f.app, f.service)>>

UnlinkService(f) ==
    <<Stop("list-services", f.app, f.service), Stop("list-apps", f.app, f.service),
      Stop("unlink", f.app, f.service)>>

DeleteService(f) ==
    <<Stop("list-services", f.app, f.service), Stop("unlinked", f.app, f.service),
      Stop("destroy", f.app, f.service)>>

(***************************************************************************)
(* postgres has a file of its own, and is restarted; the other services    *)
(* have keys, and are not.                                                 *)
(***************************************************************************)
SaveServiceConfig(f) ==
    IF f.service[1] = "postgres"
    THEN <<Stop("write-conf", f.app, f.service), Stop("restart", f.app, f.service)>>
    ELSE <<Stop("set-conf", f.app, f.service)>>

LimitService(f) ==
    <<Stop("list-services", f.app, f.service), Stop("info", f.app, f.service),
      Stop("docker-update", f.app, f.service)>>

Plan(f) ==
    CASE f.kind = "create-app"     -> CreateApp(f)
      [] f.kind = "delete-app"     -> DeleteApp(f)
      [] f.kind = "config"         -> SetConfig(f)
      [] f.kind = "port"           -> SetPort(f)
      [] f.kind = "redirect"       -> SetRedirect(f)
      [] f.kind = "scale"          -> ScaleApp(f)
      [] f.kind = "procfile"       -> SetProcfilePath(f)
      [] f.kind = "restart-policy" -> SetRestartPolicy(f)
      [] f.kind = "add-domain"     -> AddDomain(f)
      [] f.kind = "remove-domain"  -> RemoveDomain(f)
      [] f.kind = "ssl"            -> SSLEnable(f)
      [] f.kind = "nginx"          -> SetNginx(f)
      [] f.kind = "mount"          -> MountStorage(f)
      [] f.kind = "unmount"        -> UnmountStorage(f)
      [] f.kind = "add-option"     -> AddOption(f)
      [] f.kind = "update-option"  -> UpdateOption(f)
      [] f.kind = "delete-option"  -> DeleteOption(f)
      [] f.kind = "limits"         -> SetLimits(f)
      [] f.kind = "create-service" -> CreateService(f)
      [] f.kind = "link"           -> LinkService(f)
      [] f.kind = "unlink"         -> UnlinkService(f)
      [] f.kind = "delete-service" -> DeleteService(f)
      [] f.kind = "service-config" -> SaveServiceConfig(f)
      [] f.kind = "service-limits" -> LimitService(f)

-----------------------------------------------------------------------------
(***************************************************************************)
(* dokku: which commands it accepts when nothing goes wrong, and what they *)
(* do.                                                                     *)
(***************************************************************************)
LinkedTo(w, service) == {app \in Apps : <<service, app>> \in w.links}

Accepts(w, c) ==
    CASE c.do = "apps:create" -> c.app \notin w.apps
      [] c.do = "create"      -> c.item \notin w.services
      [] c.do \in {"info", "list-services", "write-conf", "set-conf", "restart"} ->
             c.item \in w.services
      [] c.do \in {"destroy", "unlinked"} ->
             c.item \in w.services /\ LinkedTo(w, c.item) = {}
      [] c.do = "link"        -> /\ c.item \in w.services
                                 /\ c.app \in w.apps \ LinkedTo(w, c.item)
      [] c.do = "unlink"      -> c.app \in LinkedTo(w, c.item)
      [] c.do = "unnamed"     -> FALSE
      [] c.do = "domains"     -> {"domain", "default-domain"} \cap w.settings[c.app] # {}
      [] c.do = "options"     -> Options \cap w.settings[c.app] # {}
      [] c.do = "containers"  -> c.app \in w.deployed
      [] c.do = "set" /\ c.item = "ssl" -> c.app \in w.deployed
      [] c.do \in {"mkdir", "chown", "chmod", "rm", "read-vhost", "list-plugins",
                   "docker-update"} -> TRUE
      [] OTHER                -> c.app \in w.apps

(***************************************************************************)
(* The first service of a kind an app is linked to gets the variable of    *)
(* that kind.                                                              *)
(***************************************************************************)
Link(w, service, app) ==
    [w EXCEPT !.links = @ \cup {<<service, app>>},
              !.url[app][URLOf(service)] = IF @ = NoService THEN service ELSE @]

Unlink(w, service, app) ==
    [w EXCEPT !.links = @ \ {<<service, app>>},
              !.url[app][URLOf(service)] = IF @ = service THEN NoService ELSE @]

DestroyApp(w, app) ==
    [w EXCEPT !.apps = @ \ {app}, !.deployed = @ \ {app},
              !.settings[app] = {}, !.inForce[app] = {},
              !.links = {l \in @ : l[2] # app},
              !.url[app] = [u \in URLs |-> NoService]]

After(w, c) ==
    CASE c.do = "apps:create"  -> [w EXCEPT !.apps = @ \cup {c.app},
                                            !.settings[c.app] = {"default-domain"}]
      [] c.do = "apps:destroy" -> DestroyApp(w, c.app)
      [] c.do = "create"       -> [w EXCEPT !.services = @ \cup {c.item}]
      [] c.do = "destroy"      -> [w EXCEPT !.services = @ \ {c.item}]
      [] c.do = "link"         -> Link(w, c.item, c.app)
      [] c.do = "unlink"       -> Unlink(w, c.item, c.app)
      [] c.do = "set"          -> [w EXCEPT !.settings[c.app] = @ \cup {c.item}]
      [] c.do = "unset"        -> [w EXCEPT !.settings[c.app] = @ \ {c.item}]
      [] c.do \in {"deploy", "apply"} ->
             [w EXCEPT !.deployed = IF c.do = "deploy" THEN @ \cup {c.app} ELSE @,
                       !.inForce[c.app] = w.settings[c.app]]
      [] c.do = "mkdir"        -> [w EXCEPT !.storage = @ \cup {c.app}]
      [] c.do = "rm"           -> [w EXCEPT !.storage = @ \ {c.app}]
      [] c.do \in {"write-conf", "restart"} ->
             [w EXCEPT !.restarted = IF c.do = "restart" THEN @ \cup {c.item}
                                                         ELSE @ \ {c.item}]
      [] OTHER                 -> w

-----------------------------------------------------------------------------
(***************************************************************************)
(* The requests.                                                           *)
(***************************************************************************)
Active(r) == asked[r] # NoForm /\ answer[r] = "none"

Current(r) == Head(plan[r])

HasCommand(r) == Active(r) /\ plan[r] # <<>>

ExclusiveTo(w, app) == {s \in w.services : LinkedTo(w, s) = {app}}

Start(r, f) ==
    /\ asked[r] = NoForm
    /\ asked' = [asked EXCEPT ![r] = f]
    /\ plan' = [plan EXCEPT ![r] = Plan(f)]
    /\ alone' = [q \in Requests |-> IF q = r THEN \A p \in Requests : ~Active(p)
                                             ELSE alone[q] /\ asked[q] = NoForm]
    /\ had' = [had EXCEPT ![r] = ExclusiveTo(dokku, f.app)]
    /\ UNCHANGED <<dokku, told, logged, answer, failures>>

(***************************************************************************)
(* The services the configuration names, by the host in DATABASE_URL and   *)
(* REDIS_URL, are put before the rest of the deletion.                     *)
(***************************************************************************)
RemoveConfigured(w, app) ==
    LET Named(u) == If(w.url[app][u] # NoService, RemoveService(app, w.url[app][u]))
    IN  Named("DATABASE_URL") \o Named("REDIS_URL")

ReadConfig(r) ==
    /\ HasCommand(r)
    /\ Current(r).do = "config"
    /\ Accepts(dokku, Current(r))
    /\ plan' = [plan EXCEPT ![r] = RemoveConfigured(dokku, Current(r).app) \o Tail(@)]
    /\ UNCHANGED <<dokku, asked, told, logged, answer, failures, alone, had>>

(***************************************************************************)
(* The option is chosen by its place in the report of now.                 *)
(***************************************************************************)
SelectOption(r) ==
    /\ HasCommand(r)
    /\ Current(r).do = "options"
    /\ \E option \in Options \cap dokku.settings[Current(r).app] :
          plan' = [plan EXCEPT ![r] = <<Stop("unset", Current(r).app, option)>> \o Tail(@)]
    /\ UNCHANGED <<dokku, asked, told, logged, answer, failures, alone, had>>

Succeeds(r) ==
    /\ HasCommand(r)
    /\ Current(r).do \notin {"config", "options"}
    /\ Accepts(dokku, Current(r))
    /\ dokku' = After(dokku, Current(r))
    /\ plan' = [plan EXCEPT ![r] = Tail(@)]
    /\ UNCHANGED <<asked, told, logged, answer, failures, alone, had>>

(***************************************************************************)
(* A command fails that dokku does not accept, or for a reason of its own; *)
(* it may have done its work before it fails.  For many commands the       *)
(* handler also takes the word error in the output for a failure, which it *)
(* need not be: the name of an app may contain it.                         *)
(***************************************************************************)
Trouble(r) ==
    IF Accepts(dokku, Current(r))
    THEN /\ failures[r] < MaxFailures
         /\ failures' = [failures EXCEPT ![r] = @ + 1]
         /\ dokku' \in {dokku, After(dokku, Current(r))}
    ELSE UNCHANGED <<dokku, failures>>

AnswerError(r) ==
    /\ answer' = [answer EXCEPT ![r] = "error"]
    /\ plan' = [plan EXCEPT ![r] = <<>>]

Stops(r) ==
    /\ HasCommand(r)
    /\ Current(r).otherwise = "stop"
    /\ Trouble(r)
    /\ AnswerError(r)
    /\ UNCHANGED <<asked, told, logged, alone, had>>

GoesOn(r) ==
    LET c == Current(r) IN
    /\ HasCommand(r)
    /\ c.otherwise # "stop"
    /\ Trouble(r)
    /\ plan' = [plan EXCEPT ![r] = SubSeq(@, 2 + c.skip, Len(@))]
    /\ told' = [told EXCEPT ![r] = @ \/ c.otherwise = "tell"]
    /\ logged' = [logged EXCEPT ![r] = @ \cup IF c.otherwise = "log" THEN {c.do} ELSE {}]
    /\ UNCHANGED <<asked, answer, alone, had>>

Finish(r) ==
    /\ Active(r)
    /\ plan[r] = <<>>
    /\ answer' = [answer EXCEPT ![r] = "ok"]
    /\ UNCHANGED <<dokku, asked, plan, told, logged, failures, alone, had>>

-----------------------------------------------------------------------------
(***************************************************************************)
(* At first the app of the linked services is deployed, and the others are *)
(* not there.                                                              *)
(***************************************************************************)
Init ==
    /\ dokku = [apps |-> {l[2] : l \in Linked},
                services |-> {l[1] : l \in Linked},
                links |-> Linked,
                url |-> [a \in Apps |-> [u \in URLs |->
                            IF \E l \in Linked : l[2] = a /\ URLOf(l[1]) = u
                            THEN (CHOOSE l \in Linked : l[2] = a /\ URLOf(l[1]) = u)[1]
                            ELSE NoService]],
                settings |-> [a \in Apps |-> IF \E l \in Linked : l[2] = a
                                             THEN {"default-domain"} ELSE {}],
                inForce |-> [a \in Apps |-> {}],
                storage |-> {l[2] : l \in Linked},
                deployed |-> {l[2] : l \in Linked},
                restarted |-> {l[1] : l \in Linked}]
    /\ asked = [r \in Requests |-> NoForm]
    /\ plan = [r \in Requests |-> <<>>]
    /\ told = [r \in Requests |-> FALSE]
    /\ logged = [r \in Requests |-> {}]
    /\ answer = [r \in Requests |-> "none"]
    /\ failures = [r \in Requests |-> 0]
    /\ alone = [r \in Requests |-> TRUE]
    /\ had = [r \in Requests |-> {}]

Next ==
    \E r \in Requests :
        \/ \E f \in Forms : Start(r, f)
        \/ ReadConfig(r)
        \/ SelectOption(r)
        \/ Succeeds(r)
        \/ Stops(r)
        \/ GoesOn(r)
        \/ Finish(r)

Spec == Init /\ [][Next]_vars

-----------------------------------------------------------------------------
(***************************************************************************)
(* The services the page of an app lists: for every type of service, those *)
(* linked to the app, as long as they have a URL the code knows.           *)
(***************************************************************************)
isValidDatabaseURL(service) ==
    service[1] \in {"postgres", "mariadb", "mongo", "redis"}

getAppLinkedServices(w, app) == {l[1] : l \in {k \in w.links : k[2] = app}}

GetAppServices(w, app) == {s \in getAppLinkedServices(w, app) : isValidDatabaseURL(s)}

-----------------------------------------------------------------------------
(***************************************************************************)
(* What a request asked for.  A source directory that could not be made is *)
(* only logged when an app is created; and the page shows the certificate  *)
(* of an app that is to have no domain as a step that is left out.         *)
(***************************************************************************)
Has(app, item) == item \in dokku.settings[app]

Created(f, excused) ==
    LET Wanted == IF "domain" \in f.wants THEN f.wants \ excused
                                          ELSE f.wants \ (excused \cup {"ssl"})
    IN
    /\ f.app \in dokku.apps
    /\ Wanted \ {"image"} \subseteq dokku.settings[f.app]
    /\ "image" \in f.wants => /\ f.app \in dokku.deployed
                              /\ Wanted \ {"image"} \subseteq dokku.inForce[f.app]
    /\ \A i \in DOMAIN f.services : <<f.services[i], f.app>> \in dokku.links

Deleted(f) ==
    /\ f.app \notin dokku.apps
    /\ \A link \in dokku.links : link[2] # f.app
    /\ f.deleteData => f.app \notin dokku.storage

SettingOf(kind) ==
    CASE kind = "config"        -> "env"
      [] kind = "limits"        -> "limit"
      [] kind = "unmount"       -> "mount"
      [] kind = "remove-domain" -> "domain"
      [] OTHER                  -> kind

Fulfilled(f, excused) ==
    CASE f.kind = "create-app" -> Created(f, excused)
      [] f.kind = "delete-app" -> Deleted(f)
      [] f.kind \in {"config", "port", "redirect", "scale", "procfile",
                     "restart-policy"} ->
             Has(f.app, SettingOf(f.kind)) <=> f.do = "set"
      [] f.kind = "nginx" ->
             /\ Has(f.app, "nginx") <=> f.do = "set"
             /\ "nginx" \in dokku.inForce[f.app] <=> f.do = "set"
      [] f.kind = "add-domain" ->
             Has(f.app, "domain") /\ (f.ssl => Has(f.app, "ssl"))
      [] f.kind \in {"ssl", "mount", "limits"} -> Has(f.app, SettingOf(f.kind))
      [] f.kind \in {"remove-domain", "unmount"} -> ~Has(f.app, SettingOf(f.kind))
      [] f.kind \in {"add-option", "update-option"} -> Has(f.app, f.option)
      [] f.kind = "create-service" -> f.service \in dokku.services
      [] f.kind = "link" -> <<f.service, f.app>> \in dokku.links
      [] f.kind = "unlink" -> <<f.service, f.app>> \notin dokku.links
      [] f.kind = "delete-service" -> f.service \notin dokku.services
      [] f.kind = "service-config" ->
             f.service[1] = "postgres" => f.service \in dokku.restarted
      [] OTHER -> TRUE

(***************************************************************************)
(* Success is complete: a request that was alone, and was answered with    *)
(* success without a word of a failure, has done all it was asked to do.   *)
(* This is about the ten or more places where a handler goes on after a    *)
(* failure.                                                                *)
(***************************************************************************)
SuccessIsComplete ==
    \A r \in Requests :
        alone[r] /\ answer[r] = "ok" /\ ~told[r]
            => Fulfilled(asked[r], IF "mkdir" \in logged[r] THEN {"mount"} ELSE {})

(***************************************************************************)
(* The data of an app outlives the app: as long as an app is there, a      *)
(* deletion leaves its storage, unless another request is creating the app *)
(* again.                                                                  *)
(***************************************************************************)
IsCreated(app) == \E r \in Requests : asked[r].kind = "create-app" /\ asked[r].app = app

DataOutlivesApp ==
    [][\A app \in dokku.storage \ dokku'.storage : app \notin dokku.apps \/ IsCreated(app)]_vars

(***************************************************************************)
(* A deletion can be repeated: whatever an earlier one has left, a         *)
(* deletion in which no command fails without need succeeds as long as the *)
(* app is there.  So the failures of the commands for the services must    *)
(* not stop it.                                                            *)
(***************************************************************************)
DeletionCanBeRepeated ==
    [][\A r \in Requests :
          /\ asked[r].kind = "delete-app"
          /\ alone[r] /\ failures'[r] = 0
          /\ answer[r] = "none" /\ answer'[r] = "error"
          => asked[r].app \notin dokku.apps]_vars

(***************************************************************************)
(* The box "Delete linked databases" of the page says that all linked      *)
(* databases are removed: a deletion that was asked for it and answered    *)
(* with success leaves no service that only this app was linked to.        *)
(***************************************************************************)
LinkedDatabasesGo ==
    \A r \in Requests :
        /\ asked[r].kind = "delete-app"
        /\ alone[r] /\ answer[r] = "ok"
        => (asked[r].deleteDb => had[r] \cap dokku.services = {})

(***************************************************************************)
(* The comment on GetAppServices says that it returns the services linked  *)
(* to an application: none is missing.                                     *)
(***************************************************************************)
LinkedAreListed ==
    \A app \in Apps : getAppLinkedServices(dokku, app) \subseteq GetAppServices(dokku, app)
=============================================================================
