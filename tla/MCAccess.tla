------------------------------ MODULE MCAccess ------------------------------
(***************************************************************************)
(* Access and ScopedAccess in one specification.  A behaviour is one of    *)
(* Access, with grantee = Nobody, or looks at one user's grants and stops. *)
(***************************************************************************)
EXTENDS Access, TLC

CONSTANTS Tokens, Grantees, AppNames, Pages, ServiceTypes, ServiceNames

VARIABLE grantee    \* the user whose grants are looked at

Nobody == [routes |-> {}, apps |-> {}, services |-> <<>>,
           canCreateApps |-> FALSE, canCreateServices |-> FALSE]

Scoped == INSTANCE ScopedAccess WITH Users <- Grantees, user <- grantee

(***************************************************************************)
(* Paths, routes and names are sequences of tokens.  The name of an app or *)
(* a service has no slash.  No app is called create: the routes reserve    *)
(* that segment for the form (IsReservedAppPathSegment).  A link below the *)
(* list of apps names an app; the menu of the code has none.               *)
(***************************************************************************)
Paths == Seq(Tokens)

IsName(name) == /\ name \in Paths /\ name # <<>>
                /\ \A i \in DOMAIN name : name[i] # Scoped!Slash

GrantsTypeOK ==
    /\ {"/", "*", "apps", "services", "api", "ws", "create", "installed", "available",
        "logs", "env", "x"} \subseteq Tokens
    /\ \A u \in Grantees : u.routes \subseteq Paths /\ u.apps \subseteq Paths
    /\ \A name \in AppNames \cup ServiceTypes \cup ServiceNames : IsName(name)
    /\ Scoped!Create \notin AppNames
    /\ \A path \in Pages :
          /\ path \in Paths
          /\ Scoped!HasPrefix(path, Scoped!Under(Scoped!AppsPath))
                => Scoped!FirstSegment(Scoped!AppPattern(path)) # <<>>

ASSUME GrantsAssumption == GrantsTypeOK

-----------------------------------------------------------------------------
MCInit == AccessInit /\ (grantee = Nobody \/ Scoped!Init)

MCNext ==
    /\ IF grantee = Nobody THEN AccessNext ELSE UNCHANGED accessVars
    /\ UNCHANGED grantee

MCSpec == MCInit /\ [][MCNext]_<<accessVars, grantee>>

-----------------------------------------------------------------------------
(***************************************************************************)
(* The invariants of ScopedAccess, stated and explained there.             *)
(***************************************************************************)
PagesMatchAccess == Scoped!PagesMatchAccess
GrantedAppsOnly == Scoped!GrantedAppsOnly

-----------------------------------------------------------------------------
(***************************************************************************)
(* For TLC: routes of every form the code tells apart, about the app a and *)
(* others, and users with up to two of them.                               *)
(***************************************************************************)
MCTokens == {"/", "*", "apps", "services", "api", "ws", "create", "installed", "available",
             "logs", "env", "a", "b", "x", "pg", "redis", "db", "docker"}
MCAppNames == {<<"a">>, <<"a", "b">>, <<"b">>}
MCServiceTypes == {<<"pg">>, <<"redis">>}
MCServiceNames == {<<"db">>, <<"x">>}
MCPages == {<<"/", "docker">>, <<"/", "apps">>}

Routes ==
    LET apps == <<"/", "apps">>
        docker == <<"/", "docker">>
        services == <<"/", "services">>
        Slashed(path) == path \o <<"/">>
        Starred(path) == path \o <<"*">> IN
    {<<"*">>, <<"/", "*">>, apps, Slashed(apps), Starred(Slashed(apps)), Starred(apps),
     <<"/", "api">> \o Starred(Slashed(apps)),
     services, Starred(Slashed(services)), Slashed(services) \o <<"create">>,
     docker, Starred(Slashed(docker))}
    \cup
    UNION {{page, Starred(Slashed(page)), Starred(page)} :
              page \in {Slashed(apps) \o app : app \in {<<"a">>, <<"create">>}}}
    \cup
    {Slashed(apps) \o <<"a", "/", "logs">>, Slashed(apps) \o <<"a", "/", "logs", "/", "*">>}

MCGrantees == [routes : {{}} \cup {{r, q} : r, q \in Routes},
               apps : SUBSET {<<"a">>, <<"a", "b">>, <<"*">>},
               services : {<<>>} \cup [{<<"pg">>} -> {{}, {<<"db">>}, {<<"*">>}}],
               canCreateApps : BOOLEAN, canCreateServices : BOOLEAN]

Symmetry == Permutations(Names) \cup Permutations(Passwords)
                \cup Permutations(Browsers)
=============================================================================
