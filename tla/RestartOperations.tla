-------------------------- MODULE RestartOperations --------------------------
(***************************************************************************)
(* The store of tracked app actions (restart, stop, rebuild): a table of   *)
(* operations and a pointer to the latest one of each app, both under one  *)
(* mutex; a goroutine per operation that runs the dokku command, then      *)
(* polls ps:report until the app is in the state the action wanted or a    *)
(* deadline passes; and the HTTP handlers that start an operation or look  *)
(* one up.  Every section of the code under the mutex is one step here,    *)
(* every call to dokku is a step of its own.                               *)
(*                                                                         *)
(* Only differences of times are read by the code, so the clock is kept as *)
(* the age of each instant the code remembers, counted in ticks and held   *)
(* at one more than the limit the code compares it with: the model has no  *)
(* clock to bound.  An identifier is taken again once nothing refers to    *)
(* it, which a uuid never is; so OpIds bounds how many operations are kept *)
(* at the same time and not how many are ever started.                     *)
(***************************************************************************)
EXTENDS Integers

CONSTANTS
    Apps,            \* application names
    OpIds,           \* identifiers of operations
    Actions,         \* the tracked actions that are requested
    ProcessTypes,    \* process types of the apps (web, worker, ...)
    AllProcesses,    \* the empty process_type: the whole app
    NoOperation,     \* the table has no operation under an identifier
    NoId,            \* latestByApp has no entry for an app
    TTL,             \* restartOperationTTL, in ticks
    VerifyTimeout    \* verificationTimeout, in ticks

Targets == ProcessTypes \cup {AllProcesses}

TrackedActions == {"restart", "stop", "rebuild"}

actionRunningState(action) == CASE action = "stop"    -> "stopping"
                                [] action = "rebuild" -> "rebuilding"
                                [] OTHER              -> "restarting"

TerminalStates == {"succeeded", "failed"}

OperationStates == {"pending", "restarting", "stopping", "rebuilding",
                    "verifying"} \cup TerminalStates

NotFinished == -1    \* FinishedAt is nil

Ages(limit) == 0 .. limit + 1

Operation == [app : Apps, action : Actions, process : Targets,
              state : OperationStates,
              finishedAge : Ages(TTL) \cup {NotFinished}]

(***************************************************************************)
(* Where the goroutine of an operation is.                                 *)
(***************************************************************************)
RunnerPCs == {"none", "update_running", "load", "command", "update_verifying",
              "deadline", "status", "exists", "check_deadline", "sleep",
              "finish", "update_finished"}

Runner == [pc : RunnerPCs, outcome : TerminalStates,
           waited : Ages(VerifyTimeout), finishedAge : Ages(TTL)]

NoRunner == [pc |-> "none", outcome |-> "failed",
             waited |-> 0, finishedAge |-> 0]

(***************************************************************************)
(* What dokku knows of an app: whether it exists, whether it is deployed,  *)
(* and the process types that have a running container.                    *)
(***************************************************************************)
AppState == [exists : BOOLEAN, deployed : BOOLEAN, up : SUBSET ProcessTypes]

NoApp == [exists |-> FALSE, deployed |-> FALSE, up |-> {}]
NewApp == [exists |-> TRUE, deployed |-> FALSE, up |-> {}]
DeployedApp(up) == [exists |-> TRUE, deployed |-> TRUE, up |-> up]

ASSUME StoreAssumption ==
    /\ Actions \subseteq TrackedActions
    /\ AllProcesses \notin ProcessTypes
    /\ NoId \notin OpIds
    /\ NoOperation \notin Operation
    /\ NoOperation \notin [action : Actions, process : Targets,
                           state : OperationStates]
    /\ TTL \in Nat
    /\ VerifyTimeout \in Nat

VARIABLES
    operations,     \* [OpIds -> Operation or NoOperation]
    latestByApp,    \* [Apps -> OpIds or NoId]
    runner,         \* [OpIds -> Runner], the goroutines of run
    appState        \* [Apps -> AppState], dokku's side

vars == <<operations, latestByApp, runner, appState>>
store == <<operations, latestByApp>>

-----------------------------------------------------------------------------
(***************************************************************************)
(* Reading the table.                                                      *)
(***************************************************************************)
isRestartTerminalState(state) == state \in TerminalStates

Present(id) == operations[id] # NoOperation

Active(id) == Present(id) /\ ~isRestartTerminalState(operations[id].state)

Expired(id) ==
    /\ Present(id)
    /\ isRestartTerminalState(operations[id].state)
    /\ operations[id].finishedAge # NotFinished
    /\ operations[id].finishedAge > TTL

(***************************************************************************)
(* cleanupExpiredLocked: the table and the pointers it leaves.             *)
(***************************************************************************)
CleanOperations ==
    [id \in OpIds |-> IF Expired(id) THEN NoOperation ELSE operations[id]]

Mutant_DropPointerOfApp ==
    [a \in Apps |->
        IF \E id \in OpIds : Expired(id) /\ operations[id].app = a
        THEN NoId ELSE latestByApp[a]]

CleanLatest ==
    [a \in Apps |->
        IF \E id \in OpIds : Expired(id) /\ latestByApp[a] = id
                                         /\ operations[id].app = a
        THEN NoId ELSE latestByApp[a]]

(***************************************************************************)
(* latest and activeForAppLocked drop a pointer to an operation that is    *)
(* not in the table.                                                       *)
(***************************************************************************)
Dangling(a) == CleanLatest[a] # NoId /\ CleanOperations[CleanLatest[a]] = NoOperation

ResolvedLatest(a) == IF Dangling(a) THEN NoId ELSE CleanLatest[a]

Mutant_PendingIsInactive(a) ==
    /\ ResolvedLatest(a) # NoId
    /\ CleanOperations[ResolvedLatest(a)].state \notin TerminalStates \cup {"pending"}

ActiveForApp(a) ==
    /\ ResolvedLatest(a) # NoId
    /\ ~isRestartTerminalState(CleanOperations[ResolvedLatest(a)].state)

(***************************************************************************)
(* update: nothing when the operation is gone, else the changed operation  *)
(* goes back to the table and becomes the latest of its app.               *)
(***************************************************************************)
Update(id, operation) ==
    IF Present(id)
    THEN /\ operations' = [operations EXCEPT ![id] = operation]
         /\ latestByApp' = [latestByApp EXCEPT ![operation.app] = id]
    ELSE UNCHANGED store

-----------------------------------------------------------------------------
(***************************************************************************)
(* The handlers.                                                           *)
(***************************************************************************)
Fresh(id) == ~Present(id) /\ runner[id].pc = "none"
             /\ \A a \in Apps : latestByApp[a] # id

PendingOperation(a, action, target) ==
    [app |-> a, action |-> action, process |-> target, state |-> "pending",
     finishedAge |-> NotFinished]

(***************************************************************************)
(* start with no active operation: a new one, and its goroutine.           *)
(***************************************************************************)
StartNew(a, action, target) ==
    /\ ~ActiveForApp(a)
    /\ \E id \in OpIds :
         /\ Fresh(id)
         /\ operations' = [CleanOperations EXCEPT
                              ![id] = PendingOperation(a, action, target)]
         /\ latestByApp' = [CleanLatest EXCEPT ![a] = id]
         /\ runner' = [runner EXCEPT ![id].pc = "update_running"]
    /\ UNCHANGED appState

(***************************************************************************)
(* start with an active operation: that one is returned, whatever it does; *)
(* the request leaves only what the cleanup removed.                       *)
(***************************************************************************)
StartReused(a) ==
    /\ ActiveForApp(a)
    /\ operations' = CleanOperations
    /\ latestByApp' = CleanLatest
    /\ UNCHANGED <<runner, appState>>

(***************************************************************************)
(* The status handler without a task_id (latest) and with one (get).       *)
(***************************************************************************)
GetLatest(a) ==
    /\ operations' = CleanOperations
    /\ latestByApp' = [CleanLatest EXCEPT ![a] = ResolvedLatest(a)]
    /\ UNCHANGED <<runner, appState>>

GetById ==
    /\ operations' = CleanOperations
    /\ latestByApp' = CleanLatest
    /\ UNCHANGED <<runner, appState>>


-----------------------------------------------------------------------------
(***************************************************************************)
(* Dokku.                                                                  *)
(***************************************************************************)
Processes(target) == IF target = AllProcesses THEN ProcessTypes ELSE {target}

(***************************************************************************)
(* What a ps:stop, ps:restart or ps:rebuild that succeeds does to an app.  *)
(***************************************************************************)
AfterCommand(app, action, target) ==
    IF ~app.deployed THEN app
    ELSE IF action = "stop" THEN [app EXCEPT !.up = @ \ Processes(target)]
    ELSE [app EXCEPT !.up = @ \cup Processes(target)]

(***************************************************************************)
(* GetStatus reads ps:report: the Deployed and Running lines and the       *)
(* number of running containers of a process type.                         *)
(***************************************************************************)
Running(app) == IF app.up = {} THEN "false"
                ELSE IF app.up = ProcessTypes THEN "true" ELSE "mixed"

isRestartVerified(app, target) ==
    /\ app.deployed
    /\ IF target # AllProcesses THEN target \in app.up
                                ELSE Running(app) \in {"true", "mixed"}

isStopVerified(app, target) ==
    IF target # AllProcesses THEN target \notin app.up
                             ELSE Running(app) = "false"

isActionVerified(action, app, target) ==
    IF action = "stop" THEN isStopVerified(app, target)
                       ELSE isRestartVerified(app, target)

-----------------------------------------------------------------------------
(***************************************************************************)
(* run, one step per section under the mutex and per call to dokku.  Only  *)
(* the goroutine of id moves, from the pc it is at.                        *)
(***************************************************************************)
GoTo(id, from, to) ==
    /\ runner[id].pc = from
    /\ runner' = [runner EXCEPT ![id].pc = to]

SettleAs(id, outcome) ==
    runner' = [runner EXCEPT ![id] = [@ EXCEPT !.pc = "finish",
                                               !.outcome = outcome,
                                               !.waited = 0]]

Mutant_AlwaysRestarting(id) ==
    /\ GoTo(id, "update_running", "load")
    /\ Update(id, [operations[id] EXCEPT !.state = "restarting"])
    /\ UNCHANGED appState

UpdateRunning(id) ==
    /\ GoTo(id, "update_running", "load")
    /\ Update(id, [operations[id] EXCEPT
                      !.state = actionRunningState(operations[id].action)])
    /\ UNCHANGED appState

(***************************************************************************)
(* get: the cleanup, then the operation; the goroutine ends without it.    *)
(***************************************************************************)
Load(id) ==
    /\ operations' = CleanOperations
    /\ latestByApp' = CleanLatest
    /\ IF CleanOperations[id] = NoOperation
       THEN /\ runner[id].pc = "load"
            /\ runner' = [runner EXCEPT ![id] = NoRunner]
       ELSE GoTo(id, "load", "command")
    /\ UNCHANGED appState

(***************************************************************************)
(* runAppAction returns.  A command on an app that is gone fails.          *)
(***************************************************************************)
CommandSucceeds(id) ==
    LET op == operations[id] IN
    /\ GoTo(id, "command", "update_verifying")
    /\ appState[op.app].exists
    /\ appState' = [appState EXCEPT ![op.app] =
                                AfterCommand(@, op.action, op.process)]
    /\ UNCHANGED store

CommandFails(id) ==
    /\ runner[id].pc = "command"
    /\ SettleAs(id, "failed")
    /\ UNCHANGED <<store, appState>>

UpdateVerifying(id) ==
    /\ GoTo(id, "update_verifying", "deadline")
    /\ Update(id, [operations[id] EXCEPT !.state = "verifying"])
    /\ UNCHANGED appState

(***************************************************************************)
(* waitForActionVerification: the deadline counts from here.               *)
(***************************************************************************)
SetDeadline(id) ==
    /\ GoTo(id, "deadline", "status")
    /\ UNCHANGED <<store, appState>>

StatusVerified(id) ==
    LET op == operations[id] IN
    /\ runner[id].pc = "status"
    /\ appState[op.app].exists
    /\ isActionVerified(op.action, appState[op.app], op.process)
    /\ SettleAs(id, "succeeded")
    /\ UNCHANGED <<store, appState>>

StatusNotVerified(id) ==
    LET op == operations[id] IN
    /\ GoTo(id, "status", "check_deadline")
    /\ appState[op.app].exists
    /\ ~isActionVerified(op.action, appState[op.app], op.process)
    /\ UNCHANGED <<store, appState>>

(***************************************************************************)
(* ps:report can fail although the app exists.                             *)
(***************************************************************************)
StatusFails(id) ==
    /\ GoTo(id, "status", "exists")
    /\ UNCHANGED <<store, appState>>

AppGone(id) ==
    /\ runner[id].pc = "exists"
    /\ ~appState[operations[id].app].exists
    /\ SettleAs(id, "failed")
    /\ UNCHANGED <<store, appState>>

(***************************************************************************)
(* The app is listed, or apps:list failed as well.                         *)
(***************************************************************************)
AppNotKnownGone(id) ==
    /\ GoTo(id, "exists", "check_deadline")
    /\ UNCHANGED <<store, appState>>

DeadlinePassed(id) ==
    /\ runner[id].pc = "check_deadline"
    /\ runner[id].waited > VerifyTimeout
    /\ SettleAs(id, "failed")
    /\ UNCHANGED <<store, appState>>

BeforeDeadline(id) ==
    /\ runner[id].waited <= VerifyTimeout
    /\ GoTo(id, "check_deadline", "sleep")
    /\ UNCHANGED <<store, appState>>

Mutant_DeadlinePerAttempt(id) ==
    /\ runner[id].pc = "sleep"
    /\ runner' = [runner EXCEPT ![id].pc = "status", ![id].waited = 0]
    /\ UNCHANGED <<store, appState>>

WakeUp(id) ==
    /\ GoTo(id, "sleep", "status")
    /\ UNCHANGED <<store, appState>>

(***************************************************************************)
(* finish reads the clock before it takes the mutex.                       *)
(***************************************************************************)
SampleFinishedAt(id) ==
    /\ GoTo(id, "finish", "update_finished")
    /\ UNCHANGED <<store, appState>>

Mutant_NoReturnAfterFailure(id) ==
    /\ runner[id].pc = "update_finished"
    /\ Update(id, [operations[id] EXCEPT
                      !.state = runner[id].outcome,
                      !.finishedAge = runner[id].finishedAge])
    /\ runner' = [runner EXCEPT ![id] =
          IF runner[id].outcome = "failed"
          THEN [NoRunner EXCEPT !.pc = "update_verifying"] ELSE NoRunner]
    /\ UNCHANGED appState

UpdateFinished(id) ==
    /\ runner[id].pc = "update_finished"
    /\ Update(id, [operations[id] EXCEPT
                      !.state = runner[id].outcome,
                      !.finishedAge = runner[id].finishedAge])
    /\ runner' = [runner EXCEPT ![id] = NoRunner]
    /\ UNCHANGED appState

RunnerStep(id) ==
    \/ UpdateRunning(id) \/ Load(id)
    \/ CommandSucceeds(id) \/ CommandFails(id)
    \/ UpdateVerifying(id) \/ SetDeadline(id)
    \/ StatusVerified(id) \/ StatusNotVerified(id) \/ StatusFails(id)
    \/ AppGone(id) \/ AppNotKnownGone(id)
    \/ DeadlinePassed(id) \/ BeforeDeadline(id) \/ WakeUp(id)
    \/ SampleFinishedAt(id) \/ UpdateFinished(id)

-----------------------------------------------------------------------------
(***************************************************************************)
(* The handlers that run a dokku command and track nothing, which can      *)
(* interleave with an operation on the same app.                           *)
(***************************************************************************)
UntrackedCommand(a, action, target) ==
    /\ appState[a].exists
    /\ appState' = [appState EXCEPT ![a] = AfterCommand(@, action, target)]
    /\ UNCHANGED <<store, runner>>

(***************************************************************************)
(* Everything else that changes an app: a deploy, a crash of a container,  *)
(* apps:create and apps:destroy.                                           *)
(***************************************************************************)
AppChanges(a) ==
    /\ \E app \in {NoApp, NewApp} \cup {DeployedApp(up) : up \in SUBSET ProcessTypes} :
          appState' = [appState EXCEPT ![a] = app]
    /\ UNCHANGED <<store, runner>>

(***************************************************************************)
(* One tick of the clock.                                                  *)
(***************************************************************************)
Older(age, limit) == IF age > limit THEN age ELSE age + 1

Waiting == {"status", "exists", "check_deadline", "sleep"}

Tick ==
    /\ operations' = [id \in OpIds |->
          IF Present(id) /\ operations[id].finishedAge # NotFinished
          THEN [operations[id] EXCEPT !.finishedAge = Older(@, TTL)]
          ELSE operations[id]]
    /\ runner' = [id \in OpIds |->
          CASE runner[id].pc \in Waiting ->
                  [runner[id] EXCEPT !.waited = Older(@, VerifyTimeout)]
            [] runner[id].pc = "update_finished" ->
                  [runner[id] EXCEPT !.finishedAge = Older(@, TTL)]
            [] OTHER -> runner[id]]
    /\ UNCHANGED <<latestByApp, appState>>

(***************************************************************************)
(* The server stops and starts again: the store is empty and the           *)
(* goroutines are gone.  What their commands still do is AppChanges.       *)
(***************************************************************************)
ServerRestart ==
    /\ operations' = [id \in OpIds |-> NoOperation]
    /\ latestByApp' = [a \in Apps |-> NoId]
    /\ runner' = [id \in OpIds |-> NoRunner]
    /\ UNCHANGED appState

Init ==
    /\ operations = [id \in OpIds |-> NoOperation]
    /\ latestByApp = [a \in Apps |-> NoId]
    /\ runner = [id \in OpIds |-> NoRunner]
    /\ appState \in [Apps -> {DeployedApp(ProcessTypes)}]

Handler(a) ==
    \/ \E action \in Actions, target \in Targets : StartNew(a, action, target)
    \/ StartReused(a)
    \/ GetLatest(a)
    \/ \E action \in Actions, target \in Targets : UntrackedCommand(a, action, target)

Next ==
    \/ \E a \in Apps : Handler(a) \/ AppChanges(a)
    \/ GetById
    \/ \E id \in OpIds : RunnerStep(id)
    \/ Tick
    \/ ServerRestart

(***************************************************************************)
(* A goroutine that can run does, a dokku command returns in the end, and  *)
(* time goes on.  Requests, changes of the apps and restarts of the server *)
(* need not happen.                                                        *)
(***************************************************************************)
Fairness ==
    /\ \A id \in OpIds : WF_vars(RunnerStep(id))
    /\ WF_vars(Tick)

Spec == Init /\ [][Next]_vars

FairSpec == Spec /\ Fairness

-----------------------------------------------------------------------------
TypeOK ==
    /\ operations \in [OpIds -> Operation \cup {NoOperation}]
    /\ latestByApp \in [Apps -> OpIds \cup {NoId}]
    /\ runner \in [OpIds -> Runner]
    /\ appState \in [Apps -> AppState]

(***************************************************************************)
(* At most one action of an app is under way, whatever the interleaving of *)
(* requests, goroutines and cleanups: start decides from latestByApp alone *)
(* and every update writes that pointer.                                   *)
(***************************************************************************)
OneActivePerApp ==
    \A i, j \in OpIds :
        Active(i) /\ Active(j) /\ operations[i].app = operations[j].app => i = j

(***************************************************************************)
(* An operation is active exactly as long as its goroutine runs: no        *)
(* goroutine finds its operation removed under it, and none ends and       *)
(* leaves an operation that would refuse every later action on the app.    *)
(***************************************************************************)
ActiveHasRunner == \A id \in OpIds : Active(id) <=> runner[id].pc # "none"

(***************************************************************************)
(* The inductive invariant.  An active operation is the latest of its app, *)
(* a pointer leads to an operation of its own app, and what the table says *)
(* of an operation agrees with where its goroutine is.                     *)
(***************************************************************************)
ActiveIsLatest ==
    \A id \in OpIds : Active(id) => latestByApp[operations[id].app] = id

LatestIsOwn ==
    \A a \in Apps :
        latestByApp[a] # NoId /\ Present(latestByApp[a])
            => operations[latestByApp[a]].app = a

Commanding == {"load", "command", "update_verifying"}

Settling == {"finish", "update_finished"}

PcMatches(id) ==
    /\ runner[id].pc = "update_running" => operations[id].state = "pending"
    /\ runner[id].pc \in Commanding =>
          operations[id].state = actionRunningState(operations[id].action)
    /\ runner[id].pc \in Waiting \cup {"deadline"} =>
          operations[id].state = "verifying"
    /\ runner[id].pc \in Settling =>
          \/ operations[id].state = "verifying"
          \/ /\ operations[id].state = actionRunningState(operations[id].action)
             /\ runner[id].outcome = "failed"

PcMatchesState == \A id \in OpIds : PcMatches(id)

IInv == /\ TypeOK
        /\ ActiveHasRunner
        /\ ActiveIsLatest
        /\ LatestIsOwn
        /\ PcMatchesState

(***************************************************************************)
(* While any operation of an app is kept, the status request without a     *)
(* task_id finds one: the cleanup never drops the pointer of an app and    *)
(* keeps an older operation of it that nothing points to.                  *)
(***************************************************************************)
NoHiddenOperation ==
    \A id \in OpIds : Present(id) =>
        /\ latestByApp[operations[id].app] # NoId
        /\ Present(latestByApp[operations[id].app])
        /\ operations[latestByApp[operations[id].app]].app = operations[id].app

(***************************************************************************)
(* What makes NoHiddenOperation inductive: the latest operation of an app  *)
(* is the last one to finish, so that it is never the first to expire.     *)
(***************************************************************************)
ResultAge(id) == IF Active(id) THEN runner[id].finishedAge
                               ELSE operations[id].finishedAge

AgeRecorded ==
    \A id \in OpIds :
        /\ Present(id) => (operations[id].finishedAge = NotFinished <=> Active(id))
        /\ runner[id].pc # "update_finished" => runner[id].finishedAge = 0

LatestFinishesLast ==
    \A id \in OpIds :
        Present(id) => ResultAge(latestByApp[operations[id].app]) <= ResultAge(id)

AgeInv == AgeRecorded /\ NoHiddenOperation /\ LatestFinishesLast

(***************************************************************************)
(* The result a client has read under a task_id stays the result as long   *)
(* as the operation is kept, also after later actions on the app.          *)
(***************************************************************************)
OutcomeIsFinal ==
    [][\A id \in OpIds :
          Present(id) /\ isRestartTerminalState(operations[id].state)
             => operations'[id] = NoOperation
                \/ operations'[id].state = operations[id].state]_vars

(***************************************************************************)
(* Every action that is started settles, also when the app never reaches   *)
(* the wanted state and ps:report keeps failing; so an app is never        *)
(* refused a new action for good.                                          *)
(***************************************************************************)
ActionsSettle == \A id \in OpIds : Active(id) ~> ~Active(id)

(***************************************************************************)
(* The store implements AppActionLifecycle: the slot of an app is the      *)
(* operation latestByApp leads to.                                         *)
(***************************************************************************)
Slot(a) ==
    IF latestByApp[a] = NoId \/ ~Present(latestByApp[a])
    THEN NoOperation
    ELSE [action  |-> operations[latestByApp[a]].action,
          process |-> operations[latestByApp[a]].process,
          state   |-> operations[latestByApp[a]].state]

Lifecycle == INSTANCE AppActionLifecycle
                 WITH slot <- [a \in Apps |-> Slot(a)], FreeSlot <- NoOperation

ImplementsLifecycle == Lifecycle!Spec
=============================================================================
