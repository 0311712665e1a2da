------------------------------ MODULE AppForms ------------------------------
(***************************************************************************)
(* What is asked of AppRequests in the runs: app a is there, with a        *)
(* database; app b is not.                                                 *)
(***************************************************************************)
MCApps == {"a", "b"}

MCDefaultName == [app \in MCApps |-> IF app = "a" THEN "a-db" ELSE "b-db"]

Database == <<"postgres", "x">>

Second == <<"postgres", "a-db">>

Cache == <<"redis", "x">>

Queue == <<"rabbitmq", "x">>

MCLinked == {<<Database, "a">>}

MCLinkedTwice == MCLinked \cup {<<<<"postgres", "y">>, "a">>}

\* A line of the form that was left empty.
Unnamed == <<"", "">>

MCOptions == {"o1", "o2"}

AppForms ==
    {[kind |-> "create-app", app |-> "b", services |-> s, wants |-> w] :
        s \in {<<Cache>>, <<Unnamed, Cache>>},
        w \in {{"env", "domain", "ssl", "port"}, {"domain", "mount", "image"}}}
    \cup {[kind |-> "delete-app", app |-> a, deleteDb |-> db, deleteData |-> data] :
              a \in MCApps, db \in BOOLEAN, data \in BOOLEAN}

SettingForms ==
    {[kind |-> k, app |-> "a", do |-> do] :
        k \in {"config", "port", "nginx", "redirect", "scale", "procfile", "restart-policy"},
        do \in {"set", "unset"}}
    \cup {[kind |-> k, app |-> "a"] :
              k \in {"remove-domain", "ssl", "mount", "unmount", "limits", "delete-option"}}
    \cup {[kind |-> "add-domain", app |-> "a", ssl |-> ssl] : ssl \in BOOLEAN}
    \cup {[kind |-> k, app |-> "a", option |-> o] :
              k \in {"add-option", "update-option"}, o \in MCOptions}

ServiceForms ==
    {[kind |-> k, app |-> a, service |-> s] :
        k \in {"link", "unlink"}, a \in MCApps, s \in {Database, Second}}
    \cup {[kind |-> k, app |-> "nothing", service |-> s] :
              k \in {"create-service", "delete-service", "service-config", "service-limits"},
              s \in {Database, Second}}

\* Forms about a service of a type whose URL the code does not know.
QueueForms ==
    {[kind |-> "create-service", app |-> "nothing", service |-> Queue],
     [kind |-> "link", app |-> "a", service |-> Queue]}

MCForms == AppForms \cup SettingForms \cup ServiceForms
=============================================================================
