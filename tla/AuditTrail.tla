----------------------------- MODULE AuditTrail -----------------------------
(***************************************************************************)
(* What pruvon shows of the audit plugin's log: to an administrator, to a  *)
(* user with a few apps, on the page of an app and on that of a service    *)
(* (handleAudit..., handleAppAudit..., handleServiceAudit... in            *)
(* internal/handlers/api, internal/dokku/audit.go).                        *)
(*                                                                         *)
(* A handler asks dokku for lists of events, puts them together, drops     *)
(* what the user may not see, and fills in what an event leaves open from  *)
(* the events that belong to the same deployment.  Nothing is kept, so     *)
(* the log, the user, the links of the service and what goes wrong are the *)
(* whole state, and the answers are operators.                             *)
(***************************************************************************)
EXTENDS Naturals, FiniteSets, Sequences, SequencesExt

CONSTANTS
    Apps,
    Shapes,     \* what an event may be, apart from its number and its time
    MaxEvents,  \* bound: events in the log
    Readers,    \* those who ask: [admin : BOOLEAN, apps : apps they may see]
    Links,      \* the sets of apps the service may be linked to
    PerApp,     \* 24 and 10: events that an overview asks for of each app,
    Shown,      \* 12 and 6: and those it shows
    Newest,     \* 10: events that an administrator's overview shows
    Context,    \* 48: events of an app from which an overview is filled in
    Page        \* 250 and 12: events of the other pages

VARIABLES
    log,        \* the events, oldest first
    reader,
    linked,     \* GetLinkedApps of the service
    trouble     \* the call to dokku that fails, if any

vars == <<log, reader, linked, trouble>>

None == ""       \* what an event leaves open
Host == None     \* the app of an event that is not about an app

Troubles == {"none", "plugin-status", "apps", "links", "health", "timeline", "recent",
             "deploys", "show", "export", "not-installed"}

(***************************************************************************)
(* The label of an actor is nothing, dokku itself, or a person, for whom   *)
(* the number of the event stands.  A detail (source, image, revision, an  *)
(* entry of the metadata) is left out or is that of the event.             *)
(***************************************************************************)
Nobody      == [type |-> None, label |-> 0]
DokkuSystem == MaxEvents + 1

Event(shape, id, time) ==
    [id |-> id, time |-> time, app |-> shape.app, correlation |-> shape.correlation,
     status |-> shape.status, mentions |-> shape.mentions, deploy |-> shape.deploy,
     detail |-> IF shape.detailed THEN id ELSE 0,
     actor |-> CASE shape.actor = "nobody" -> Nobody
                 [] shape.actor = "system" -> [type |-> "system", label |-> DokkuSystem]
                 [] shape.actor = "person" -> [type |-> "user", label |-> id]
                 [] shape.actor = "untyped" -> [type |-> None, label |-> id]]

-----------------------------------------------------------------------------
(***************************************************************************)
(* Lists of events, the newest first.                                      *)
(***************************************************************************)
Events == ToSet(log)

Newer(x, y) == \/ x.time > y.time
               \/ x.time = y.time /\ x.id > y.id

Lists(events) == [1 .. Cardinality(events) -> events]

NewestFirst(events) ==
    CHOOSE list \in Lists(events) :
        \A i, j \in DOMAIN list : i < j => Newer(list[i], list[j])

FirstOf(events, limit) == SubSeq(events, 1, IF Len(events) < limit THEN Len(events) ELSE limit)

Ids(events) == [i \in DOMAIN events |-> events[i].id]

\* dokku audit:timeline, audit:recent, audit:last-deploys
GetAuditTimeline(app, limit) == FirstOf(NewestFirst({e \in Events : e.app = app}), limit)

GetAuditRecent(limit) == FirstOf(NewestFirst(Events), limit)

GetAuditLastDeploys(limit) == FirstOf(NewestFirst({e \in Events : e.deploy}), limit)

AppDeploys(app, limit) ==
    FirstOf(NewestFirst({e \in Events : e.deploy /\ e.app = app}), limit)

\* The lists of several apps, each event once, and not more than the limit.
collectAuditEventsForApps(fetched, limit) ==
    FirstOf(NewestFirst(UNION {ToSet(fetched[app]) : app \in DOMAIN fetched}), limit)

getAuditTimelineForApps(apps, perAppLimit, limit) ==
    collectAuditEventsForApps([app \in apps |-> GetAuditTimeline(app, perAppLimit)], limit)

getAuditDeploysForApps(apps, perAppLimit, limit) ==
    collectAuditEventsForApps([app \in apps |-> AppDeploys(app, perAppLimit)], limit)

NoLimit == MaxEvents

\* What is left of a list that has the newest first.
Related(events) == NewestFirst({e \in ToSet(events) : e.mentions})

-----------------------------------------------------------------------------
(***************************************************************************)
(* Filling in: what an event leaves open is taken from the oldest event of *)
(* the same correlation that says it.                                      *)
(***************************************************************************)
Older(x, y) == \/ x.time < y.time
               \/ x.time = y.time /\ x.id > y.id

OldestFirst(events) ==
    CHOOSE list \in Lists(events) :
        \A i, j \in DOMAIN list : i < j => Older(list[i], list[j])

collectRelatedAuditEvents(event, timeline) ==
    OldestFirst({c \in ToSet(timeline) :
                    \/ c.id = event.id
                    \/ event.correlation # None /\ c.correlation = event.correlation})

IsSystem(actor) == actor.type = "system" \/ actor.label = DokkuSystem

Mutant_LastActorWins(base, candidate) == candidate.actor.label # 0

shouldReplaceAuditActor(base, candidate) ==
    /\ candidate.actor.label # 0
    /\ \/ base.actor.label = 0
       \/ IsSystem(base.actor) /\ ~IsSystem(candidate.actor)

mergeAuditEvent(base, candidate) ==
    [base EXCEPT
        !.actor = IF ~shouldReplaceAuditActor(base, candidate) THEN @ ELSE
                  [type |-> IF candidate.actor.type # None THEN candidate.actor.type ELSE @.type,
                   label |-> candidate.actor.label],
        !.detail = IF @ = 0 THEN candidate.detail ELSE @]

enrichAuditEventWithTimeline(event, timeline) ==
    LET related == collectRelatedAuditEvents(event, timeline)
        enriched[n \in 0 .. Len(related)] ==
            IF n = 0 THEN event ELSE mergeAuditEvent(enriched[n - 1], related[n])
    IN  enriched[Len(related)]

enrichAuditEventsWithTimeline(events, timeline) ==
    [i \in DOMAIN events |-> enrichAuditEventWithTimeline(events[i], timeline)]

\* The app's timeline is not read for an event of the host, and passed over if it fails.
enrichAuditEventWithAppTimeline(event) ==
    IF event.app = Host \/ trouble = "timeline" THEN event
    ELSE enrichAuditEventWithTimeline(event, GetAuditTimeline(event.app, Page))

(***************************************************************************)
(* The flows of the deployments, from a list that has the newest first:    *)
(* one for each correlation, with what its newest event says.              *)
(***************************************************************************)
Extended(flow, event) ==
    [correlation |-> event.correlation,
     events      |-> Append(flow.events, event),
     status      |-> IF event.status # None THEN event.status ELSE flow.status,
     startedAt   |-> IF flow.events = <<>> \/ event.time < flow.startedAt
                       THEN event.time ELSE flow.startedAt,
     finishedAt  |-> IF flow.events = <<>> \/ event.time > flow.finishedAt
                       THEN event.time ELSE flow.finishedAt]

NewFlow == [events |-> <<>>, status |-> None, startedAt |-> 0, finishedAt |-> 0]

AddToFlows(flows, event) ==
    IF \E i \in DOMAIN flows : flows[i].correlation = event.correlation
      THEN [i \in DOMAIN flows |->
               IF flows[i].correlation = event.correlation THEN Extended(flows[i], event)
                                                           ELSE flows[i]]
      ELSE Append(flows, Extended(NewFlow, event))

filterAuditEventsWithCorrelation(events) ==
    LET filtered[n \in 0 .. Len(events)] ==
            IF n = 0 THEN <<>>
            ELSE IF events[n].correlation = None THEN filtered[n - 1]
            ELSE Append(filtered[n - 1], events[n])
    IN  filtered[Len(events)]

GroupAuditEventsByCorrelation(events) ==
    LET groups[n \in 0 .. Len(events)] ==
            IF n = 0 THEN <<>> ELSE AddToFlows(groups[n - 1], Reverse(events)[n])
    IN  Reverse(groups[Len(events)])

-----------------------------------------------------------------------------
(***************************************************************************)
(* The answers: a list of events and one of deployments.                   *)
(***************************************************************************)
Answer(events, deploys) == [status |-> "ok", events |-> events, deploys |-> deploys]

Empty        == Answer(<<>>, <<>>)
Failed       == [Empty EXCEPT !.status = "error"]
AccessDenied == [Empty EXCEPT !.status = "forbidden"]
NotFound     == [Empty EXCEPT !.status = "not-found"]

MayBeShown(app) == reader.admin \/ app \in reader.apps

\* Asked only for those who are not administrators.
AllowedAppsFail == ~reader.admin /\ trouble = "apps"

\* What every handler begins with.
WithPlugin(uninstalled, answer) ==
    CASE trouble = "plugin-status" -> Failed
      [] trouble = "not-installed" -> uninstalled
      [] OTHER -> answer

OverviewOfApps ==
    LET recent   == getAuditTimelineForApps(reader.apps, PerApp, Shown)
        deploys  == getAuditDeploysForApps(reader.apps, PerApp, Shown)
        timeline == getAuditTimelineForApps(reader.apps, Context, NoLimit)
    IN  IF reader.apps # {} /\ trouble \in {"timeline", "deploys"} THEN Failed
        ELSE Answer(enrichAuditEventsWithTimeline(recent, timeline),
                    enrichAuditEventsWithTimeline(deploys, timeline))

OverviewOfHost ==
    LET recent   == GetAuditRecent(Newest)
        deploys  == GetAuditLastDeploys(Newest)
        apps     == {e.app : e \in ToSet(recent) \cup ToSet(deploys)} \ {Host}
        timeline == IF trouble = "timeline" THEN <<>>
                    ELSE getAuditTimelineForApps(apps, Context, NoLimit)
    IN  IF trouble \in {"health", "recent", "deploys"} THEN Failed
        ELSE Answer(enrichAuditEventsWithTimeline(recent, timeline),
                    enrichAuditEventsWithTimeline(deploys, timeline))

handleAuditOverview ==
    WithPlugin(Empty, IF AllowedAppsFail THEN Failed
                      ELSE IF reader.admin THEN OverviewOfHost
                      ELSE OverviewOfApps)

\* When the apps cannot be listed the answer becomes an error, and the handler goes on.
requireAuditAppAccess(app, answer) ==
    IF AllowedAppsFail THEN [answer EXCEPT !.status = "error"]
    ELSE IF ~MayBeShown(app) THEN AccessDenied
    ELSE answer

handleAppAudit(app) ==
    LET timeline == GetAuditTimeline(app, Page)
        enriched == enrichAuditEventsWithTimeline(timeline, timeline)
    IN  requireAuditAppAccess(app, WithPlugin(Empty,
            IF trouble \in {"timeline", "deploys"} THEN Failed
            ELSE Answer(enriched,
                        enrichAuditEventsWithTimeline(AppDeploys(app, Page), enriched))))

ShowEvent(event) == Answer(<<enrichAuditEventWithAppTimeline(event)>>, <<>>)

\* Whether the reader may ask for the app is decided by the middleware.
handleAppAuditEvent(app, event) ==
    WithPlugin(NotFound, IF trouble = "show" THEN Failed
                         ELSE IF event.app # app THEN NotFound
                         ELSE ShowEvent(event))

handleAuditEvent(event) ==
    WithPlugin(NotFound,
        IF trouble = "show" THEN Failed
        ELSE IF ~reader.admin /\ event.app = Host THEN AccessDenied
        ELSE IF AllowedAppsFail THEN Failed
        ELSE IF ~MayBeShown(event.app) THEN AccessDenied
        ELSE ShowEvent(event))

(***************************************************************************)
(* The page of the service: the apps it is linked to, as far as the user   *)
(* may see them, and the events that mention it.                           *)
(***************************************************************************)
LinkedApps == {app \in linked : MayBeShown(app)}

Mutant_AllThatMention(events) == {e \in ToSet(events) : e.mentions}

HostEvents(events) ==
    {e \in ToSet(events) : e.mentions /\ (e.app = Host \/ MayBeShown(e.app))}

ServiceTimeline ==
    NewestFirst(
        ToSet(getAuditTimelineForApps(LinkedApps, Page, NoLimit))
        \cup IF trouble = "recent" THEN {} ELSE HostEvents(GetAuditRecent(Page)))

ServiceDeploys ==
    IF trouble = "deploys" THEN <<>>
    ELSE Related(getAuditDeploysForApps(LinkedApps, Page, NoLimit))

handleServiceAudit ==
    LET timeline == enrichAuditEventsWithTimeline(ServiceTimeline, ServiceTimeline)
    IN  WithPlugin(Empty,
            IF \/ trouble = "links" \/ AllowedAppsFail
               \/ LinkedApps # {} /\ trouble = "timeline" THEN Failed
            ELSE Answer(timeline, enrichAuditEventsWithTimeline(ServiceDeploys, timeline)))

handleServiceAuditEvent(event) ==
    WithPlugin(NotFound,
        IF trouble \in {"links", "show"} \/ AllowedAppsFail THEN Failed
        ELSE IF \/ event.app = Host /\ ~event.mentions
                \/ event.app # Host /\ event.app \notin LinkedApps THEN NotFound
        ELSE ShowEvent(event))

\* dokku audit:export, of one app or of all
ExportAuditEvents(app) == IF app = Host THEN Events ELSE {e \in Events : e.app = app}

\* An export that fails is passed over, unless nothing else is there to be sent.
handleServiceAuditExport ==
    LET ofApps == UNION {ExportAuditEvents(app) : app \in LinkedApps}
        sent   == IF trouble = "export" THEN {}
                  ELSE {e \in ofApps : e.mentions}
                       \cup HostEvents(NewestFirst(ExportAuditEvents(Host)))
    IN  IF \/ trouble \in {"plugin-status", "not-installed", "links"}
           \/ AllowedAppsFail
           \/ sent = {} /\ LinkedApps # {} /\ trouble = "export"
        THEN Failed ELSE Answer(NewestFirst(sent), <<>>)

\* handleAppAuditExport, and handleAuditExport for administrators
handleAppAuditExport(app) ==
    requireAuditAppAccess(app,
        IF trouble \in {"plugin-status", "not-installed", "export"} THEN Failed
        ELSE Answer(NewestFirst(ExportAuditEvents(app)), <<>>))

-----------------------------------------------------------------------------
Init == /\ log = <<>>
        /\ reader \in Readers
        /\ linked \in Links
        /\ trouble \in Troubles

(***************************************************************************)
(* The plugin writes an event down, now or within the same instant as the  *)
(* one before.                                                             *)
(***************************************************************************)
Log(shape) ==
    /\ Len(log) < MaxEvents
    /\ \E time \in IF log = <<>> THEN {1} ELSE {Last(log).time, Last(log).time + 1} :
          log' = Append(log, Event(shape, Len(log) + 1, time))
    /\ UNCHANGED <<reader, linked, trouble>>

Next == \E shape \in Shapes : Log(shape)

Spec == Init /\ [][Next]_vars

-----------------------------------------------------------------------------
(***************************************************************************)
(* A user is shown nothing but events of the own apps and, on the page of  *)
(* a service, events of the host that mention it.  That holds for whatever *)
(* has been filled into them as well: the person and the details of a      *)
(* shown event come from events the user may see.                          *)
(***************************************************************************)
SourcesIn(answer) ==
    UNION {{e.id, e.detail, e.actor.label} \ {0, DokkuSystem} :
              e \in ToSet(answer.events) \cup ToSet(answer.deploys)}

OfOwnApps(answer) == \A id \in SourcesIn(answer) : log[id].app \in reader.apps

OfOwnAppsOrService(answer) ==
    \A id \in SourcesIn(answer) : \/ log[id].app \in reader.apps
                                  \/ log[id].app = Host /\ log[id].mentions

\* The middleware lets the requests about an app pass to those it is granted to.
AuditIsScoped ==
    ~reader.admin =>
        /\ OfOwnApps(handleAuditOverview)
        /\ \A e \in Events : OfOwnApps(handleAuditEvent(e))
        /\ \A app \in reader.apps, e \in Events : OfOwnApps(handleAppAuditEvent(app, e))
        /\ \A app \in IF trouble = "apps" THEN reader.apps ELSE Apps :
               OfOwnApps(handleAppAudit(app)) /\ OfOwnApps(handleAppAuditExport(app))
        /\ OfOwnAppsOrService(handleServiceAudit)
        /\ OfOwnAppsOrService(handleServiceAuditExport)
        /\ \A e \in Events : OfOwnAppsOrService(handleServiceAuditEvent(e))

(***************************************************************************)
(* What is shown is true to the log, although it is put together from      *)
(* several lists that are each cut off:                                    *)
(*    - an overview has the newest of all events its reader may see;       *)
(*    - the page of a service has all events of its apps and all about it, *)
(*      and its export those of them that mention it;                      *)
(*    - a deployment is one flow, from its first event to its last, with   *)
(*      the status that was reported last;                                 *)
(*    - an event is put down to a person whenever one took part in the     *)
(*      deployment, and never to another one than it was logged for; and   *)
(*      it reads the same in the list and on its own page.                 *)
(***************************************************************************)
IsShown(answer) == answer.status = "ok" /\ trouble # "not-installed"

OverviewIsNewest ==
    LET visible == {e \in Events : MayBeShown(e.app)}
        limit   == IF reader.admin THEN Newest ELSE Shown
    IN  IsShown(handleAuditOverview) =>
            /\ Ids(handleAuditOverview.events) = Ids(FirstOf(NewestFirst(visible), limit))
            /\ Ids(handleAuditOverview.deploys)
                 = Ids(FirstOf(NewestFirst({e \in visible : e.deploy}), limit))

ServicePageIsWhole ==
    LET visible == {e \in Events : \/ e.app \in LinkedApps
                                   \/ e.mentions /\ (e.app = Host \/ MayBeShown(e.app))}
    IN  /\ IsShown(handleServiceAudit) /\ trouble # "recent"
              => Ids(handleServiceAudit.events) = Ids(NewestFirst(visible))
        /\ IsShown(handleServiceAuditExport) /\ trouble # "export"
              => handleServiceAuditExport.events = Related(NewestFirst(visible))

IsFlowOf(flow, events) ==
    LET told   == {e \in events : e.status # None}
        newest == NewestFirst(events)
    IN  /\ flow.events = Reverse(newest)
        /\ flow.startedAt = Last(newest).time /\ flow.finishedAt = newest[1].time
        /\ flow.status = IF told = {} THEN None ELSE NewestFirst(told)[1].status

FlowsAreDeployments(app) ==
    LET timeline == handleAppAudit(app).events
        flows    == GroupAuditEventsByCorrelation(filterAuditEventsWithCorrelation(timeline))
    IN  /\ {f.correlation : f \in ToSet(flows)}
             = {e.correlation : e \in ToSet(timeline)} \ {None}
        /\ \A f \in ToSet(flows) :
               IsFlowOf(f, {e \in ToSet(timeline) : e.correlation = f.correlation})
        /\ \A i, j \in DOMAIN flows :
               i < j => Newer(flows[i].events[1], flows[j].events[1])

IsPerson(actor) == actor.label \notin {0, DokkuSystem}

ActorsAreRight(app) ==
    \A e \in ToSet(handleAppAudit(app).events) :
        LET logged  == log[e.id]
            persons == {c \in Events : /\ IsPerson(c.actor) /\ c.app = app
                                       /\ c.correlation = e.correlation /\ e.correlation # None}
        IN  /\ IsPerson(logged.actor) => e.actor = logged.actor
            /\ persons # {} => e.actor.label \in {c.actor.label : c \in persons}
            /\ logged.detail # 0 => e.detail = logged.detail
            /\ IsShown(handleAppAuditEvent(app, logged))
                 => handleAppAuditEvent(app, logged).events = <<e>>

AuditIsFaithful ==
    /\ OverviewIsNewest
    /\ ServicePageIsWhole
    /\ \A app \in Apps : FlowsAreDeployments(app) /\ ActorsAreRight(app)
=============================================================================
