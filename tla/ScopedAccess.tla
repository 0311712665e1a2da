---------------------------- MODULE ScopedAccess ----------------------------
(***************************************************************************)
(* What a user who is not an administrator may do: the middleware decides  *)
(* about the path of a request, the pages decide which links and which     *)
(* apps to show.  Both go by the grants of the user: routes, apps,         *)
(* services and two flags.  The two are written twice in the code, in      *)
(* middleware/authz and in templates, and have to agree.                   *)
(*                                                                         *)
(* A path is a sequence of tokens: a slash, a star, or a piece of a name.  *)
(* A prefix of a path is then a prefix of the sequence, also one that ends *)
(* within a name.                                                          *)
(***************************************************************************)
EXTENDS Naturals, Sequences, FiniteSets, SequencesExt

CONSTANTS
    Users,          \* the grants of users that are looked at
    AppNames,       \* the names of the apps there are
    ServiceTypes,
    ServiceNames,   \* those of a type
    Pages           \* further paths the menu links to

VARIABLE user

(***************************************************************************)
(* Strings.                                                                *)
(***************************************************************************)
Slash == "/"
Star  == <<"*">>

HasPrefix(path, prefix) == IsPrefix(prefix, path)

HasSuffix(path, suffix) == IsSuffix(suffix, path)

TrimPrefix(path, prefix) == SubSeq(path, Len(prefix) + 1, Len(path))

TrimSuffix(path, suffix) == SubSeq(path, 1, Len(path) - Len(suffix))

HasSlash(path) == Slash \in ToSet(path)

FirstSegment(path) ==
    IF HasSlash(path) THEN SubSeq(path, 1, SelectInSeq(path, LAMBDA t : t = Slash) - 1)
                      ELSE path

Under(path) == path \o <<Slash>>

Within(path) == Under(path) \o Star

AppsPath     == <<Slash, "apps">>
ServicesPath == <<Slash, "services">>
Create       == <<"create">>

Api(path) == <<Slash, "api">> \o path
Ws(path)  == <<Slash, "ws">> \o path

AppPath(app) == Under(AppsPath) \o app

-----------------------------------------------------------------------------
(***************************************************************************)
(* authz: what a route of a user says about apps.                          *)
(***************************************************************************)
IsEverything(route) == route \in {Star, Within(<<>>)}

IsReserved(segment) == segment \in {<<>>, Create}

AppPattern(route) == TrimPrefix(route, Under(AppsPath))

RouteGrantsAnyApp(route) ==
    LET pattern == AppPattern(route) IN
    \/ route = Within(AppsPath)
    \/ /\ HasPrefix(route, Under(AppsPath)) /\ pattern # <<>>
       /\ IF HasSuffix(pattern, Within(<<>>))
          THEN LET app == TrimSuffix(pattern, Within(<<>>)) IN
               ~HasSlash(app) /\ ~IsReserved(app)
          ELSE IF HasSuffix(pattern, Star)
          THEN LET prefix == TrimSuffix(pattern, Star) IN
               prefix # <<>> /\ ~HasSlash(prefix)
          ELSE ~HasSlash(pattern) /\ ~IsReserved(pattern)

RouteGrantsApp(route, app) ==
    LET pattern == AppPattern(route) IN
    \/ route = Within(AppsPath)
    \/ /\ HasPrefix(route, Under(AppsPath)) /\ pattern # <<>>
       /\ IF HasSuffix(pattern, Within(<<>>))
          THEN /\ TrimSuffix(pattern, Within(<<>>)) = app
               /\ ~HasSlash(app) /\ ~IsReserved(app)
          ELSE IF HasSuffix(pattern, Star)
          THEN LET prefix == TrimSuffix(pattern, Star) IN
               prefix # <<>> /\ ~HasSlash(prefix) /\ HasPrefix(app, prefix)
          ELSE pattern = app /\ ~HasSlash(app) /\ ~IsReserved(app)

userHasExplicitAppAccess(u, app) == u.apps \cap {app, Star} # {}

userHasAnyAppAccess(u) ==
    u.apps # {} \/ \E route \in u.routes : RouteGrantsAnyApp(route)

userHasRouteDerivedAppAccess(u, app) ==
    \E route \in u.routes : RouteGrantsApp(route, app)

-----------------------------------------------------------------------------
(***************************************************************************)
(* ScopedUserAuthChecker: the access of u to a path, one operator per way  *)
(* to be granted it.                                                       *)
(***************************************************************************)
hasWildcardAccess(u) == \E route \in u.routes : IsEverything(route)

CoversPath(route, path) ==
    IF HasSuffix(route, Star)
    THEN \/ /\ HasPrefix(path, TrimSuffix(route, Star))
            /\ HasPrefix(path, Under(AppsPath)) => HasPrefix(route, Under(AppsPath))
         \/ route = Within(AppsPath) /\ HasPrefix(path, Api(Under(AppsPath)))
    ELSE route = path

CoversApi(u, path) ==
    /\ HasPrefix(path, Api(Under(AppsPath)))
    /\ LET app == FirstSegment(TrimPrefix(path, Api(Under(AppsPath)))) IN
       /\ u.routes \cap {AppPath(app), Within(AppPath(app))} # {}
       /\ userHasExplicitAppAccess(u, app)

hasRouteAccess(u, path) ==
    (\E route \in u.routes : CoversPath(route, path)) \/ CoversApi(u, path)

CreatesApp(path) ==
    path = AppPath(Create) \/ HasPrefix(path, Ws(AppPath(Create)))

CreatesService(path) ==
    \/ path = Under(ServicesPath) \o Create
    \/ HasPrefix(path, Api(Under(ServicesPath) \o Create))
    \/ HasPrefix(path, Ws(Under(ServicesPath) \o Create))

hasCreateAccess(u, path) ==
    \/ CreatesApp(path)
       /\ (u.canCreateApps \/ u.routes \cap {AppPath(Create), Within(AppsPath)} # {})
    \/ CreatesService(path)
       /\ \/ u.canCreateServices
          \/ u.routes \cap {Under(ServicesPath) \o Create, Within(ServicesPath)} # {}
    \/ hasWildcardAccess(u)

(***************************************************************************)
(* The app or the service a path is about: what follows /apps/, /api/apps/ *)
(* or /ws/apps/, and the same for services.                                *)
(***************************************************************************)
Tails(path, area) ==
    {TrimPrefix(path, root) : root \in {r \in {Under(area), Api(Under(area)), Ws(Under(area))} :
                                           HasPrefix(path, r)}}

pathMatchesAppAccess(path, app) ==
    \/ path = AppPath(app)
    \/ \E root \in {AppPath(app), Api(AppPath(app)), Ws(AppPath(app))} :
          HasPrefix(path, Under(root))

Mutant_AnyPrefix(u, path) ==
    \/ path = AppsPath /\ userHasAnyAppAccess(u)
    \/ \E tail \in Tails(path, AppsPath) : \E app \in u.apps : HasPrefix(tail, app)

hasAppAccess(u, path) ==
    \/ path = AppsPath /\ userHasAnyAppAccess(u)
    \/ \E tail \in Tails(path, AppsPath) :
          LET app == FirstSegment(tail) IN
          /\ app # <<>>
          /\ userHasExplicitAppAccess(u, app) \/ userHasRouteDerivedAppAccess(u, app)
          /\ pathMatchesAppAccess(path, app)

HasAnyService(u) == \E type \in DOMAIN u.services : u.services[type] # {}

hasServiceAccess(u, path) ==
    \/ /\ path \in {ServicesPath, Api(Under(ServicesPath) \o <<"installed">>),
                    Api(Under(ServicesPath) \o <<"available">>)}
       /\ HasAnyService(u)
    \/ \E tail \in Tails(path, ServicesPath) :
          LET type == FirstSegment(tail)
              name == IF HasSlash(tail)
                      THEN FirstSegment(TrimPrefix(tail, Under(type)))
                      ELSE <<>> IN
          /\ type \in DOMAIN u.services
          /\ \/ Star \in u.services[type]
             \/ name # <<>> /\ name \in u.services[type]
             \/ name = <<>> /\ path = Api(Under(ServicesPath) \o type)

CheckAccess(u, path) ==
    \/ path = <<Slash>>
    \/ hasWildcardAccess(u)
    \/ hasRouteAccess(u, path)
    \/ hasCreateAccess(u, path)
    \/ hasAppAccess(u, path)
    \/ hasServiceAccess(u, path)

-----------------------------------------------------------------------------
(***************************************************************************)
(* templates: the links a page shows to u and the apps it lists.           *)
(***************************************************************************)
SeesEverything(u) == hasWildcardAccess(u) \/ Within(AppsPath) \in u.routes

ShowsLink(u, path) ==
    \/ path = AppsPath /\ userHasAnyAppAccess(u)
    \/ \E route \in u.routes :
          \/ IsEverything(route) \/ route = path
          \/ HasSuffix(route, Within(<<>>)) /\ HasPrefix(path, TrimSuffix(route, Star))
    \/ /\ HasPrefix(path, Under(AppsPath))
       /\ LET app == FirstSegment(AppPattern(path)) IN
          userHasExplicitAppAccess(u, app) \/ userHasRouteDerivedAppAccess(u, app)

ShowsApps(u) == SeesEverything(u) \/ userHasAnyAppAccess(u)

ShowsServices(u) ==
    hasWildcardAccess(u) \/ Within(ServicesPath) \in u.routes \/ HasAnyService(u)

canCreateApps(u) ==
    u.canCreateApps \/ SeesEverything(u) \/ AppPath(Create) \in u.routes

canCreateServices(u) ==
    \/ u.canCreateServices \/ hasWildcardAccess(u)
    \/ u.routes \cap {Under(ServicesPath) \o Create, Within(ServicesPath)} # {}

(***************************************************************************)
(* getUserAllowedApps: all apps, or those granted one by one and those a   *)
(* route gives; only a route that ends within a name looks at all apps.    *)
(***************************************************************************)
Mutant_ListsExplicit(u, all) ==
    IF SeesEverything(u) \/ Star \in u.apps THEN all ELSE u.apps

getUserAllowedApps(u, all) ==
    IF SeesEverything(u) \/ Star \in u.apps
    THEN all
    ELSE (u.apps \ {<<>>}) \cup
         UNION {LET pattern == AppPattern(route) IN
                IF HasSuffix(pattern, Within(<<>>))
                THEN {app \in {TrimSuffix(pattern, Within(<<>>))} : RouteGrantsApp(route, app)}
                ELSE {app \in (IF HasSuffix(pattern, Star) THEN all ELSE {pattern}) :
                         app # <<>> /\ RouteGrantsApp(route, app)}
                : route \in {r \in u.routes : HasPrefix(r, Under(AppsPath))}}

(***************************************************************************)
(* The services of a type a page lists, and whether it shows one of them.  *)
(***************************************************************************)
getUserAllowedServices(u, type, all) ==
    IF hasWildcardAccess(u) \/ Within(ServicesPath) \in u.routes
    THEN all
    ELSE IF type \notin DOMAIN u.services THEN {}
         ELSE IF Star \in u.services[type] THEN all ELSE u.services[type]

ShowsService(u, type, name) ==
    \/ hasWildcardAccess(u) \/ Within(ServicesPath) \in u.routes
    \/ type \in DOMAIN u.services /\ u.services[type] \cap {Star, name} # {}

-----------------------------------------------------------------------------
Init == user \in Users

Next == UNCHANGED user

-----------------------------------------------------------------------------
(***************************************************************************)
(* "RouteGrantsAnyApp reports whether a configured route implies access to *)
(* at least one real app detail area": it says so exactly when there can   *)
(* be an app RouteGrantsApp is true of.                                    *)
(***************************************************************************)
AnyAppIsSomeApp ==
    \A route \in user.routes :
       LET last == FirstSegment(AppPattern(route))
           candidates == {last, last \o <<"x">>, TrimSuffix(last, Star) \o <<"x">>, <<"x">>} IN
       RouteGrantsAnyApp(route)
          <=> \E app \in candidates : ~IsReserved(app) /\ RouteGrantsApp(route, app)

(***************************************************************************)
(* "Legacy route-based permissions (kept in sync with template helpers)":  *)
(* the button that creates an app or a service is shown exactly when its   *)
(* path is granted.                                                        *)
(***************************************************************************)
CreateIsInSync ==
    /\ canCreateApps(user) <=> hasCreateAccess(user, AppPath(Create))
    /\ canCreateServices(user) <=> hasCreateAccess(user, Under(ServicesPath) \o Create)

(***************************************************************************)
(* The list of apps and the access to their pages agree: an app is listed  *)
(* exactly when the request for its page is let through.  The link to the  *)
(* list of apps, one of the menu that goes by a route, and the page of a   *)
(* service that is listed are let through.  So is the link to the list of  *)
(* services but for one kind of user: to whom only a route /services/*     *)
(* shows it, the middleware refuses /services.                             *)
(***************************************************************************)
OnlyBelowServices(u) == Within(ServicesPath) \in u.routes /\ ~HasAnyService(u)

ListedIsServed ==
    /\ \A app \in AppNames :
          app \in getUserAllowedApps(user, AppNames) <=> CheckAccess(user, AppPath(app))
    /\ ShowsApps(user) => CheckAccess(user, AppsPath)
    /\ \A path \in Pages : ShowsLink(user, path) => CheckAccess(user, path)
    /\ ShowsServices(user) => CheckAccess(user, ServicesPath) \/ OnlyBelowServices(user)
    /\ \A type \in ServiceTypes : \A name \in ServiceNames :
          /\ name \in getUserAllowedServices(user, type, ServiceNames)
                <=> ShowsService(user, type, name)
          /\ ShowsService(user, type, name)
                => CheckAccess(user, Under(Under(ServicesPath) \o type) \o name)

(***************************************************************************)
(* A user who has been granted apps and nothing else gets at the pages,    *)
(* the API and the sockets of these apps, and of no other one, whatever    *)
(* their names have in common.                                             *)
(***************************************************************************)
GrantedAppsOnly ==
    user.routes = {} /\ ~user.canCreateApps =>
       \A app \in AppNames :
          \A path \in {AppPath(app), Under(AppPath(app)) \o <<"logs">>,
                       Api(Under(AppPath(app))) \o <<"env">>, Ws(Under(AppPath(app))) \o <<"logs">>} :
             CheckAccess(user, path) <=> user.apps \cap {app, Star} # {}

(***************************************************************************)
(* What the pages show and what the middleware grants agree, in the three  *)
(* respects above and with the exception named there.                      *)
(***************************************************************************)
PagesMatchAccess == AnyAppIsSomeApp /\ CreateIsInSync /\ ListedIsServed
=============================================================================
