--------------------------- MODULE MCServicePages ---------------------------
(***************************************************************************)
(* What pages do beside running a command, for TLC: files are uploaded to  *)
(* be imported (ImportTasks), or exported to be downloaded                 *)
(* (ServiceExports), the log is shown (AuditTrail), of up to three events, *)
(* or of two when a call to dokku fails, and goroutines work beside the    *)
(* requests (MCStreams).  A behaviour is that of one part, and the others  *)
(* stand still.                                                            *)
(***************************************************************************)
EXTENDS ImportTasks, MCStreams

CONSTANTS Exports, Names,
          Apps, Shapes, MaxEvents, Readers, Links, PerApp, Shown, Newest, Context, Page

VARIABLES xFile, xStep, xName, xWrites, xSole, xLeft,
          log, reader, linked, trouble,
          part    \* "import", "export", "audit" or "goroutines"

exportVars == <<xFile, xStep, xName, xWrites, xSole, xLeft>>
auditVars == <<log, reader, linked, trouble>>
goroutineVars == <<updateVars, streamVars, streams>>
pageVars == <<vars, exportVars, auditVars>>

S == INSTANCE ServiceExports WITH
    file <- xFile, step <- xStep, name <- xName, writes <- xWrites,
    sole <- xSole, left <- xLeft

AName == CHOOSE n \in Names : TRUE

Shape(app, correlation, actor, detailed, status, deploy, mentions) ==
    [app |-> app, correlation |-> correlation, actor |-> actor, detailed |-> detailed,
     status |-> status, deploy |-> deploy, mentions |-> mentions]

\* Events of the apps a and b and of the host, those of c and d within a deployment.
MCShapes ==
    {Shape("a", "c", "system", FALSE, "", FALSE, FALSE),
     Shape("a", "c", "person", TRUE, "pending", TRUE, FALSE),
     Shape("a", "c", "untyped", TRUE, "success", TRUE, TRUE),
     Shape("a", "d", "nobody", FALSE, "success", TRUE, FALSE),
     Shape("b", "c", "person", TRUE, "success", TRUE, TRUE),
     Shape("b", "", "system", FALSE, "success", FALSE, TRUE),
     Shape("", "c", "person", TRUE, "success", FALSE, TRUE),
     Shape("", "c", "system", FALSE, "", FALSE, TRUE),
     Shape("", "", "person", TRUE, "success", FALSE, FALSE)}

MCReaders == {[admin |-> TRUE, apps |-> {}]}
                 \cup [admin : {FALSE}, apps : {{}, {"a"}, {"a", "b"}}]

MCLinks == {{}, {"a"}, {"a", "b"}}

Trail == INSTANCE AuditTrail

ASSUME AuditAssumption ==
    /\ {MaxEvents, PerApp, Shown, Newest, Context, Page} \subseteq Nat
    /\ \A shape \in Shapes : shape.actor \in {"nobody", "system", "person", "untyped"}
    /\ Trail!Host \notin Apps
    /\ \A r \in Readers : r.apps \subseteq Apps
    /\ Links \subseteq SUBSET Apps

LogIsFull == Len(log) = IF trouble = "none" THEN MaxEvents ELSE MaxEvents - 1

\* Of a part that stands still one initial state is enough.
MCInit ==
    /\ Init /\ S!Init /\ Trail!Init /\ GoroutinesInit
    /\ part \in {"import", "export", "audit", "goroutines"}
    /\ part # "export" => xName = [e \in Exports |-> AName]
    /\ part # "audit" => reader.admin /\ linked = {} /\ trouble = "none"
    /\ part # "goroutines" => ~streams

\* Imports, exports and the log may come to an end; goroutines may not but where
\* Streams says so.
MCNext ==
    /\ \/ part = "import" /\ Next /\ UNCHANGED <<exportVars, auditVars, goroutineVars>>
       \/ part = "export" /\ S!Next /\ UNCHANGED <<vars, auditVars, goroutineVars>>
       \/ /\ part = "audit" /\ ~LogIsFull /\ Trail!Next
          /\ UNCHANGED <<vars, exportVars, goroutineVars>>
       \/ part = "goroutines" /\ GoroutinesNext /\ UNCHANGED pageVars
       \/ part # "goroutines" /\ UNCHANGED <<pageVars, goroutineVars>>
    /\ UNCHANGED part

\* Nothing of a part's fairness is enabled while the part stands still.
MCSpec ==
    /\ MCInit /\ [][MCNext]_<<pageVars, goroutineVars, part>>
    /\ Fairness /\ UpdateFairness /\ Socket!Fairness

AnnouncedIsWhole == S!AnnouncedIsWhole
DumpsAreRemoved == S!DumpsAreRemoved
AuditIsScoped == Trail!AuditIsScoped
AuditIsFaithful == Trail!AuditIsFaithful
=============================================================================
