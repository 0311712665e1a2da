----------------------- MODULE RestartOperationsProofs -----------------------
(***************************************************************************)
(* Proofs about RestartOperations, for any apps, identifiers, process      *)
(* types and limits.                                                       *)
(***************************************************************************)
EXTENDS RestartOperations, TLAPS

(***************************************************************************)
(* Every variable stays within its type.                                   *)
(***************************************************************************)
LEMMA CleanTyped ==
    ASSUME TypeOK
    PROVE  /\ CleanOperations \in [OpIds -> Operation \cup {NoOperation}]
           /\ CleanLatest \in [Apps -> OpIds \cup {NoId}]
    BY DEF TypeOK, CleanOperations, CleanLatest

LEMMA UpdateTyped ==
    ASSUME TypeOK, NEW id \in OpIds, NEW op \in Operation, Update(id, op)
    PROVE  /\ operations' \in [OpIds -> Operation \cup {NoOperation}]
           /\ latestByApp' \in [Apps -> OpIds \cup {NoId}]
    BY DEF TypeOK, Update, store, Operation

LEMMA GoToTyped ==
    ASSUME TypeOK, NEW id \in OpIds, NEW from, NEW to \in RunnerPCs,
           GoTo(id, from, to)
    PROVE  runner' \in [OpIds -> Runner]
    BY DEF TypeOK, GoTo, Runner

LEMMA SettleTyped ==
    ASSUME TypeOK, NEW id \in OpIds, NEW outcome \in TerminalStates,
           SettleAs(id, outcome)
    PROVE  runner' \in [OpIds -> Runner]
<1>. DEFINE settled == [runner[id] EXCEPT !.pc = "finish",
                                          !.outcome = outcome, !.waited = 0]
<1>1. runner[id] \in Runner
  BY DEF TypeOK
<1>2. 0 \in Ages(VerifyTimeout)
  BY StoreAssumption DEF Ages
<1>3. settled \in Runner
  BY <1>1, <1>2 DEF Runner, RunnerPCs
<1>4. runner' = [runner EXCEPT ![id] = settled]
  BY DEF SettleAs
<1>. QED
  BY <1>3, <1>4 DEF TypeOK

LEMMA AfterCommandTyped ==
    ASSUME NEW app \in AppState, NEW action, NEW target \in Targets
    PROVE  AfterCommand(app, action, target) \in AppState
    BY DEF AppState, AfterCommand, Processes, Targets

-----------------------------------------------------------------------------
(***************************************************************************)
(* Steps that leave the table alone and move one goroutine.                *)
(***************************************************************************)
LEMMA QuietStep ==
    ASSUME IInv, NEW id \in OpIds, runner[id].pc # "none",
           UNCHANGED store, runner' \in [OpIds -> Runner],
           \A j \in OpIds \ {id} : runner'[j] = runner[j],
           runner'[id].pc # "none", PcMatches(id)',
           appState' \in [Apps -> AppState]
    PROVE  IInv'
<1>1. TypeOK'
  BY DEF IInv, TypeOK, store
<1>2. ActiveHasRunner'
  BY DEF IInv, ActiveHasRunner, Active, Present, store
<1>3. ActiveIsLatest' /\ LatestIsOwn'
  BY DEF IInv, ActiveIsLatest, LatestIsOwn, Active, Present, store
<1>4. PcMatchesState'
  BY DEF IInv, PcMatchesState, PcMatches, store
<1>. QED
  BY <1>1, <1>2, <1>3, <1>4 DEF IInv

(***************************************************************************)
(* The cleanup removes only operations that have no goroutine.             *)
(***************************************************************************)
LEMMA CleanKeepsActive ==
    ASSUME IInv, NEW id \in OpIds, Active(id)
    PROVE  /\ CleanOperations[id] = operations[id]
           /\ operations[id] \in Operation
           /\ CleanLatest[operations[id].app] = id
<1>1. ~Expired(id)
  BY DEF Expired, Active
<1>2. CleanOperations[id] = operations[id]
  BY <1>1 DEF CleanOperations
<1>3. operations[id] \in Operation
  BY DEF Active, Present, IInv, TypeOK
<1>4. latestByApp[operations[id].app] = id /\ operations[id].app \in Apps
  BY <1>3 DEF IInv, ActiveIsLatest, Operation
<1>. QED
  BY <1>1, <1>2, <1>3, <1>4 DEF CleanLatest

LEMMA CleanKeepsLatestOwn ==
    ASSUME IInv, NEW a \in Apps, CleanLatest[a] # NoId,
           CleanOperations[CleanLatest[a]] # NoOperation
    PROVE  /\ CleanLatest[a] = latestByApp[a]
           /\ CleanLatest[a] \in OpIds
           /\ CleanOperations[CleanLatest[a]].app = a
<1>1. CleanLatest[a] = latestByApp[a] /\ CleanLatest[a] \in OpIds
  BY CleanTyped DEF IInv, CleanLatest
<1>2. CleanOperations[CleanLatest[a]] = operations[CleanLatest[a]]
  BY <1>1 DEF CleanOperations
<1>. QED
  BY <1>1, <1>2 DEF IInv, LatestIsOwn, Present

(***************************************************************************)
(* A handler or a goroutine that only cleans up.                           *)
(***************************************************************************)
LEMMA CleanStep ==
    ASSUME IInv, operations' = CleanOperations,
           latestByApp' \in [Apps -> OpIds \cup {NoId}],
           \A a \in Apps : \/ latestByApp'[a] = CleanLatest[a]
                           \/ Dangling(a) /\ latestByApp'[a] = NoId,
           UNCHANGED <<runner, appState>>
    PROVE  IInv'
<1>1. TypeOK'
  BY CleanTyped DEF IInv, TypeOK
<1>2. ASSUME NEW id \in OpIds
      PROVE  Active(id)' <=> Active(id)
  BY CleanKeepsActive DEF Active, Present, CleanOperations
<1>3. ActiveHasRunner'
  BY <1>2 DEF IInv, ActiveHasRunner
<1>4. ActiveIsLatest'
  <2>. SUFFICES ASSUME NEW id \in OpIds, Active(id)'
                PROVE  latestByApp'[operations'[id].app] = id
    BY DEF ActiveIsLatest
  <2>1. /\ CleanOperations[id] = operations[id] /\ operations[id] \in Operation
        /\ CleanLatest[operations[id].app] = id
    BY <1>2, CleanKeepsActive
  <2>2. operations[id].app \in Apps /\ ~Dangling(operations[id].app)
    BY <1>2, <2>1 DEF Dangling, Operation, Active, Present
  <2>. QED
    BY <2>1, <2>2
<1>5. LatestIsOwn'
  BY CleanKeepsLatestOwn DEF LatestIsOwn, Present
<1>6. PcMatchesState'
  <2>. SUFFICES ASSUME NEW id \in OpIds
                PROVE  PcMatches(id)'
    BY DEF PcMatchesState
  <2>1. CASE runner[id].pc = "none"
    BY <2>1 DEF PcMatches, Commanding, Waiting, Settling
  <2>2. CASE runner[id].pc # "none"
    <3>1. operations'[id] = operations[id]
      BY <2>2, CleanKeepsActive DEF IInv, ActiveHasRunner
    <3>2. PcMatches(id)
      BY DEF IInv, PcMatchesState
    <3>. QED
      BY <3>1, <3>2 DEF PcMatches
  <2>. QED
    BY <2>1, <2>2
<1>. QED
  BY <1>1, <1>3, <1>4, <1>5, <1>6 DEF IInv

(***************************************************************************)
(* A goroutine that updates its operation, which stays one of its app.     *)
(***************************************************************************)
LEMMA UpdateStep ==
    ASSUME IInv, NEW id \in OpIds, runner[id].pc # "none",
           NEW op \in Operation, op.app = operations[id].app, Update(id, op),
           runner' \in [OpIds -> Runner],
           \A j \in OpIds \ {id} : runner'[j] = runner[j],
           runner'[id].pc = "none" <=> op.state \in TerminalStates,
           PcMatches(id)', UNCHANGED appState
    PROVE  IInv'
<1>1. Active(id)
  BY DEF IInv, ActiveHasRunner
<1>2. latestByApp[op.app] = id
  BY <1>1 DEF IInv, ActiveIsLatest
<1>3. /\ operations' = [operations EXCEPT ![id] = op]
      /\ latestByApp' = latestByApp
  <2>1. /\ operations' = [operations EXCEPT ![id] = op]
        /\ latestByApp' = [latestByApp EXCEPT ![op.app] = id]
    BY <1>1 DEF Update, Active
  <2>. QED
    BY <1>2, <2>1 DEF IInv, TypeOK
<1>4. operations'[id] = op /\ \A j \in OpIds \ {id} : operations'[j] = operations[j]
  BY <1>3 DEF IInv, TypeOK
<1>5. TypeOK'
  BY <1>3 DEF IInv, TypeOK
<1>6. op # NoOperation /\ Present(id) /\ Present(id)'
  BY <1>1, <1>4, StoreAssumption DEF Active, Present
<1>7. ActiveHasRunner'
  BY <1>4, <1>6 DEF IInv, ActiveHasRunner, Active, Present, isRestartTerminalState
<1>8. ActiveIsLatest'
  BY <1>2, <1>3, <1>4 DEF IInv, ActiveIsLatest, Active, Present
<1>9. LatestIsOwn'
  <2>. SUFFICES ASSUME NEW a \in Apps, latestByApp[a] # NoId,
                       Present(latestByApp[a])'
                PROVE  operations'[latestByApp[a]].app = a
    BY <1>3 DEF LatestIsOwn
  <2>1. latestByApp[a] \in OpIds
    BY DEF IInv, TypeOK
  <2>. QED
    BY <1>3, <1>4, <1>6, <2>1 DEF IInv, LatestIsOwn, Present
<1>10. PcMatchesState'
  <2>1. ASSUME NEW j \in OpIds \ {id}
        PROVE  PcMatches(j)'
    <3>1. operations'[j] = operations[j] /\ runner'[j] = runner[j] /\ PcMatches(j)
      BY <1>4 DEF IInv, PcMatchesState
    <3>. QED
      BY <3>1 DEF PcMatches
  <2>. QED
    BY <2>1 DEF PcMatchesState
<1>. QED
  BY <1>5, <1>7, <1>8, <1>9, <1>10 DEF IInv

-----------------------------------------------------------------------------
(***************************************************************************)
(* IInv holds at the start and every step keeps it.                        *)
(***************************************************************************)
LEMMA TypeInit == Init => TypeOK
<1>1. NoRunner \in Runner
  BY StoreAssumption DEF NoRunner, Runner, RunnerPCs, TerminalStates, Ages
<1>2. DeployedApp(ProcessTypes) \in AppState
  BY DEF DeployedApp, AppState
<1>. QED
  BY <1>1, <1>2 DEF Init, TypeOK

LEMMA InitIInv == Init => IInv
<1>. SUFFICES ASSUME Init PROVE IInv
  OBVIOUS
<1>2. ActiveHasRunner /\ ActiveIsLatest /\ LatestIsOwn
  BY DEF Init, ActiveHasRunner, ActiveIsLatest, LatestIsOwn, Active, Present, NoRunner
<1>3. \A id \in OpIds : runner[id].pc = "none"
  BY DEF Init, NoRunner
<1>4. PcMatchesState
  BY <1>3 DEF PcMatchesState, PcMatches, Commanding, Waiting, Settling
<1>. QED
  BY <1>2, <1>4, TypeInit DEF IInv

LEMMA StartNewIInv ==
    ASSUME IInv, NEW a \in Apps, NEW action \in Actions, NEW target \in Targets,
           StartNew(a, action, target)
    PROVE  IInv'
<1>. DEFINE op == PendingOperation(a, action, target)
<1>1. PICK id \in OpIds :
        /\ Fresh(id)
        /\ operations' = [CleanOperations EXCEPT ![id] = op]
        /\ latestByApp' = [CleanLatest EXCEPT ![a] = id]
        /\ runner' = [runner EXCEPT ![id].pc = "update_running"]
  BY DEF StartNew
<1>2. op \in Operation /\ op # NoOperation
  BY StoreAssumption DEF PendingOperation, Operation, OperationStates
<1>3. /\ operations'[id] = op
      /\ \A j \in OpIds \ {id} : operations'[j] = CleanOperations[j]
      /\ latestByApp'[a] = id
      /\ \A b \in Apps \ {a} : latestByApp'[b] = CleanLatest[b]
  BY <1>1, CleanTyped DEF IInv
<1>4. TypeOK'
  <2>1. runner' \in [OpIds -> Runner]
    BY <1>1 DEF IInv, TypeOK, Runner, RunnerPCs
  <2>2. operations' \in [OpIds -> Operation \cup {NoOperation}]
    BY <1>1, <1>2, CleanTyped DEF IInv
  <2>3. latestByApp' \in [Apps -> OpIds \cup {NoId}]
    BY <1>1, CleanTyped DEF IInv
  <2>. QED
    BY <2>1, <2>2, <2>3 DEF IInv, TypeOK, StartNew
<1>5. /\ runner'[id].pc = "update_running"
      /\ \A j \in OpIds \ {id} : runner'[j] = runner[j]
  BY <1>1 DEF IInv, TypeOK, Runner
<1>6. Active(id)'
  BY <1>2, <1>3 DEF Active, Present, PendingOperation, isRestartTerminalState,
     TerminalStates
<1>7. ASSUME NEW j \in OpIds \ {id}
      PROVE  Active(j)' <=> Active(j)
  BY <1>3, <1>7, CleanKeepsActive DEF Active, Present, CleanOperations
<1>8. ActiveHasRunner'
  BY <1>5, <1>6, <1>7 DEF IInv, ActiveHasRunner
<1>9. ASSUME NEW j \in OpIds \ {id}, Active(j)
      PROVE  operations[j].app \in Apps \ {a}
  <2>1. /\ CleanOperations[j] = operations[j] /\ operations[j] \in Operation
        /\ CleanLatest[operations[j].app] = j
    BY <1>9, CleanKeepsActive
  <2>2. operations[j].app \in Apps
    BY <2>1 DEF Operation
  <2>3. CASE operations[j].app = a
    <3>1. ResolvedLatest(a) = j
      BY <1>9, <2>1, <2>3 DEF ResolvedLatest, Dangling, Active, Present
    <3>2. ActiveForApp(a)
      BY <1>9, <2>1, <3>1, StoreAssumption DEF ActiveForApp, Active
    <3>. QED
      BY <3>2 DEF StartNew
  <2>. QED
    BY <2>2, <2>3
<1>10. ActiveIsLatest'
  <2>. SUFFICES ASSUME NEW j \in OpIds, Active(j)'
                PROVE  latestByApp'[operations'[j].app] = j
    BY DEF ActiveIsLatest
  <2>1. CASE j = id
    BY <2>1, <1>3 DEF PendingOperation
  <2>2. CASE j # id
    BY <2>2, <1>3, <1>7, <1>9, CleanKeepsActive
  <2>. QED
    BY <2>1, <2>2
<1>11. LatestIsOwn'
  <2>. SUFFICES ASSUME NEW b \in Apps, latestByApp'[b] # NoId,
                       Present(latestByApp[b])'
                PROVE  operations'[latestByApp'[b]].app = b
    BY DEF LatestIsOwn
  <2>1. CASE b = a
    BY <2>1, <1>3 DEF PendingOperation
  <2>2. CASE b # a
    <3>1. latestByApp'[b] = CleanLatest[b] /\ CleanLatest[b] \in OpIds
      BY <2>2, <1>3, CleanTyped DEF IInv
    <3>2. CleanLatest[b] = latestByApp[b]
      BY <3>1, StoreAssumption DEF CleanLatest
    <3>3. CleanLatest[b] # id
      BY <3>2, <1>1 DEF Fresh
    <3>. QED
      BY <3>1, <3>3, <1>3, CleanKeepsLatestOwn DEF Present
  <2>. QED
    BY <2>1, <2>2
<1>12. PcMatchesState'
  <2>. SUFFICES ASSUME NEW j \in OpIds PROVE PcMatches(j)'
    BY DEF PcMatchesState
  <2>1. CASE j = id
    BY <2>1, <1>3, <1>5 DEF PcMatches, PendingOperation, Commanding, Waiting, Settling
  <2>2. CASE j # id /\ runner[j].pc = "none"
    BY <2>2, <1>5 DEF PcMatches, Commanding, Waiting, Settling
  <2>3. CASE j # id /\ runner[j].pc # "none"
    <3>1. operations'[j] = operations[j] /\ runner'[j] = runner[j]
      BY <2>3, <1>3, <1>5, CleanKeepsActive DEF IInv, ActiveHasRunner
    <3>. QED
      BY <3>1 DEF IInv, PcMatchesState, PcMatches
  <2>. QED
    BY <2>1, <2>2, <2>3
<1>. QED
  BY <1>4, <1>8, <1>10, <1>11, <1>12 DEF IInv

LEMMA CleanActionsIInv ==
    ASSUME IInv, NEW a \in Apps, StartReused(a) \/ GetLatest(a) \/ GetById
    PROVE  IInv'
<1>1. /\ operations' = CleanOperations
      /\ UNCHANGED <<runner, appState>>
      /\ latestByApp' \in [Apps -> OpIds \cup {NoId}]
  BY CleanTyped DEF StartReused, GetLatest, GetById, ResolvedLatest, IInv
<1>2. \A b \in Apps : \/ latestByApp'[b] = CleanLatest[b]
                      \/ Dangling(b) /\ latestByApp'[b] = NoId
  BY CleanTyped DEF StartReused, GetLatest, GetById, ResolvedLatest, IInv
<1>. QED
  BY <1>1, <1>2, CleanStep

(***************************************************************************)
(* Steps of a goroutine between its updates.                               *)
(***************************************************************************)
LEMMA GoToIInv ==
    ASSUME IInv, NEW id \in OpIds, NEW from \in RunnerPCs \ {"none"},
           NEW to \in RunnerPCs \ {"none"}, GoTo(id, from, to),
           UNCHANGED store, appState' \in [Apps -> AppState],
           \/ from \in Commanding /\ to \in Commanding
           \/ from \in Waiting \cup {"deadline"} /\ to \in Waiting \cup {"deadline"}
           \/ from \in Settling /\ to \in Settling
    PROVE  IInv'
<1>1. runner' \in [OpIds -> Runner]
  BY GoToTyped DEF IInv
<1>2. /\ runner[id].pc = from /\ runner'[id].pc = to
      /\ runner'[id].outcome = runner[id].outcome
      /\ \A j \in OpIds \ {id} : runner'[j] = runner[j]
  BY DEF GoTo, IInv, TypeOK, Runner
<1>3. PcMatches(id)'
  BY <1>2 DEF IInv, PcMatchesState, PcMatches, Commanding, Waiting, Settling, store
<1>. QED
  BY <1>1, <1>2, <1>3, QuietStep

LEMMA SettleIInv ==
    ASSUME IInv, NEW id \in OpIds, NEW outcome \in TerminalStates,
           SettleAs(id, outcome), UNCHANGED <<store, appState>>,
           \/ runner[id].pc \in Waiting
           \/ runner[id].pc \in Commanding /\ outcome = "failed"
    PROVE  IInv'
<1>1. runner' \in [OpIds -> Runner]
  BY SettleTyped DEF IInv
<1>2. /\ runner[id].pc # "none" /\ runner'[id].pc = "finish"
      /\ runner'[id].outcome = outcome
      /\ \A j \in OpIds \ {id} : runner'[j] = runner[j]
  BY DEF SettleAs, IInv, TypeOK, Runner, Waiting, Commanding
<1>3. PcMatches(id)'
  BY <1>2 DEF IInv, PcMatchesState, PcMatches, Commanding, Waiting, Settling, store
<1>. QED
  BY <1>1, <1>2, <1>3, QuietStep DEF IInv, TypeOK

LEMMA UpdateActionsIInv ==
    ASSUME IInv, NEW id \in OpIds,
           UpdateRunning(id) \/ UpdateVerifying(id) \/ UpdateFinished(id)
    PROVE  IInv'
<1>1. runner[id].pc # "none"
  BY DEF UpdateRunning, UpdateVerifying, UpdateFinished, GoTo
<1>2. operations[id] \in Operation /\ runner[id] \in Runner
  BY <1>1 DEF IInv, TypeOK, ActiveHasRunner, Active, Present
<1>3. CASE UpdateRunning(id)
  <2>. DEFINE op == [operations[id] EXCEPT
                       !.state = actionRunningState(operations[id].action)]
  <2>1. op \in Operation /\ op.app = operations[id].app
        /\ op.state = actionRunningState(op.action) /\ op.state \notin TerminalStates
    BY <1>2 DEF Operation, OperationStates, actionRunningState, TerminalStates
  <2>2. /\ runner' \in [OpIds -> Runner] /\ runner'[id].pc = "load"
        /\ \A j \in OpIds \ {id} : runner'[j] = runner[j]
    BY <1>3 DEF UpdateRunning, GoTo, IInv, TypeOK, Runner, RunnerPCs
  <2>3. Update(id, op) /\ operations'[id] = op
    BY <1>1, <1>3 DEF UpdateRunning, Update, IInv, TypeOK, ActiveHasRunner, Active
  <2>4. PcMatches(id)'
    BY <2>1, <2>2, <2>3 DEF PcMatches, Commanding, Waiting, Settling
  <2>5. UNCHANGED appState
    BY <1>3 DEF UpdateRunning
  <2>. HIDE DEF op
  <2>. QED
    BY <1>1, <2>1, <2>2, <2>3, <2>4, <2>5, UpdateStep
<1>4. CASE UpdateVerifying(id)
  <2>. DEFINE op == [operations[id] EXCEPT !.state = "verifying"]
  <2>1. op \in Operation /\ op.app = operations[id].app
        /\ op.state = "verifying" /\ op.state \notin TerminalStates
    BY <1>2 DEF Operation, OperationStates, TerminalStates
  <2>2. /\ runner' \in [OpIds -> Runner] /\ runner'[id].pc = "deadline"
        /\ \A j \in OpIds \ {id} : runner'[j] = runner[j]
    BY <1>4 DEF UpdateVerifying, GoTo, IInv, TypeOK, Runner, RunnerPCs
  <2>3. Update(id, op) /\ operations'[id] = op
    BY <1>1, <1>4 DEF UpdateVerifying, Update, IInv, TypeOK, ActiveHasRunner, Active
  <2>4. PcMatches(id)'
    BY <2>1, <2>2, <2>3 DEF PcMatches, Commanding, Waiting, Settling
  <2>5. UNCHANGED appState
    BY <1>4 DEF UpdateVerifying
  <2>. HIDE DEF op
  <2>. QED
    BY <1>1, <2>1, <2>2, <2>3, <2>4, <2>5, UpdateStep
<1>5. CASE UpdateFinished(id)
  <2>. DEFINE op == [operations[id] EXCEPT !.state = runner[id].outcome,
                                           !.finishedAge = runner[id].finishedAge]
  <2>1. op \in Operation /\ op.app = operations[id].app
        /\ op.state \in TerminalStates
    BY <1>2 DEF Operation, OperationStates, TerminalStates, Runner
  <2>2. NoRunner \in Runner /\ NoRunner.pc = "none"
    BY StoreAssumption DEF NoRunner, Runner, RunnerPCs, TerminalStates, Ages
  <2>3. /\ runner' \in [OpIds -> Runner] /\ runner'[id].pc = "none"
        /\ \A j \in OpIds \ {id} : runner'[j] = runner[j]
    BY <1>5, <2>2 DEF UpdateFinished, IInv, TypeOK
  <2>4. Update(id, op) /\ UNCHANGED appState
    BY <1>5 DEF UpdateFinished
  <2>5. PcMatches(id)'
    BY <2>3 DEF PcMatches, Commanding, Waiting, Settling
  <2>. HIDE DEF op
  <2>. QED
    BY <1>1, <2>1, <2>3, <2>4, <2>5, UpdateStep
<1>. QED
  BY <1>3, <1>4, <1>5

LEMMA LoadIInv ==
    ASSUME IInv, NEW id \in OpIds, Load(id)
    PROVE  IInv'
<1>1. Active(id) /\ CleanOperations[id] # NoOperation
  <2>1. runner[id].pc = "load"
    BY DEF Load, GoTo
  <2>2. Active(id)
    BY <2>1 DEF IInv, ActiveHasRunner
  <2>. QED
    BY <2>2, CleanKeepsActive DEF Active, Present
<1>2. GoTo(id, "load", "command") /\ UNCHANGED appState
  BY <1>1 DEF Load
<1>3. operations' = CleanOperations /\ latestByApp' = CleanLatest
  BY DEF Load
<1>4. TypeOK'
  BY <1>2, <1>3, CleanTyped, GoToTyped DEF IInv, TypeOK, RunnerPCs
<1>5. /\ runner[id].pc = "load" /\ runner'[id].pc = "command"
      /\ \A j \in OpIds \ {id} : runner'[j] = runner[j]
  BY <1>2 DEF GoTo, IInv, TypeOK, Runner
<1>6. ASSUME NEW j \in OpIds
      PROVE  Active(j)' <=> Active(j)
  BY <1>3, CleanKeepsActive DEF Active, Present, CleanOperations
<1>7. ActiveHasRunner'
  BY <1>1, <1>5, <1>6 DEF IInv, ActiveHasRunner
<1>8. ActiveIsLatest'
  BY <1>3, <1>6, CleanKeepsActive DEF ActiveIsLatest
<1>9. LatestIsOwn'
  BY <1>3, CleanKeepsLatestOwn DEF LatestIsOwn, Present
<1>10. PcMatchesState'
  <2>. SUFFICES ASSUME NEW j \in OpIds PROVE PcMatches(j)'
    BY DEF PcMatchesState
  <2>1. CASE runner[j].pc = "none"
    BY <2>1, <1>5 DEF PcMatches, Commanding, Waiting, Settling
  <2>2. CASE runner[j].pc # "none"
    <3>1. operations'[j] = operations[j] /\ PcMatches(j)
      BY <2>2, <1>3, CleanKeepsActive DEF IInv, ActiveHasRunner, PcMatchesState
    <3>. QED
      BY <3>1, <1>5 DEF PcMatches, Commanding, Waiting, Settling
  <2>. QED
    BY <2>1, <2>2
<1>. QED
  BY <1>4, <1>7, <1>8, <1>9, <1>10 DEF IInv

LEMMA RunnerStepIInv ==
    ASSUME IInv, NEW id \in OpIds, RunnerStep(id)
    PROVE  IInv'
<1>. appState \in [Apps -> AppState]
  BY DEF IInv, TypeOK
<1>1. CASE UpdateRunning(id) \/ UpdateVerifying(id) \/ UpdateFinished(id)
  BY <1>1, UpdateActionsIInv
<1>2. CASE Load(id)
  BY <1>2, LoadIInv
<1>3. CASE CommandSucceeds(id)
  <2>1. operations[id] \in Operation
    BY <1>3 DEF CommandSucceeds, GoTo, IInv, TypeOK, ActiveHasRunner, Active, Present
  <2>2. appState' \in [Apps -> AppState]
    BY <1>3, <2>1, AfterCommandTyped DEF CommandSucceeds, Operation
  <2>. QED
    BY <1>3, <2>2, GoToIInv DEF CommandSucceeds, RunnerPCs, Commanding
<1>4. CASE CommandFails(id)
  BY <1>4, SettleIInv DEF CommandFails, Commanding, TerminalStates
<1>5. CASE StatusVerified(id)
  BY <1>5, SettleIInv DEF StatusVerified, Waiting, TerminalStates
<1>6. CASE AppGone(id) \/ DeadlinePassed(id)
  BY <1>6, SettleIInv DEF AppGone, DeadlinePassed, Waiting, TerminalStates
<1>7. CASE SetDeadline(id) \/ StatusNotVerified(id) \/ StatusFails(id)
  BY <1>7, GoToIInv DEF SetDeadline, StatusNotVerified, StatusFails,
     RunnerPCs, Waiting
<1>8. CASE AppNotKnownGone(id) \/ BeforeDeadline(id) \/ WakeUp(id)
  BY <1>8, GoToIInv DEF AppNotKnownGone, BeforeDeadline, WakeUp, RunnerPCs, Waiting
<1>9. CASE SampleFinishedAt(id)
  BY <1>9, GoToIInv DEF SampleFinishedAt, RunnerPCs, Settling
<1>. QED
  BY <1>1, <1>2, <1>3, <1>4, <1>5, <1>6, <1>7, <1>8, <1>9 DEF RunnerStep

-----------------------------------------------------------------------------
(***************************************************************************)
(* The surroundings: dokku, the clock and a restart of the server.         *)
(***************************************************************************)
LEMMA OlderTyped ==
    ASSUME NEW limit \in Nat, NEW age \in Ages(limit)
    PROVE  Older(age, limit) \in Ages(limit) /\ Older(age, limit) # NotFinished
    BY DEF Ages, Older, NotFinished

LEMMA DokkuIInv ==
    ASSUME IInv, NEW a \in Apps,
           \/ AppChanges(a)
           \/ \E action \in Actions, target \in Targets :
                 UntrackedCommand(a, action, target)
    PROVE  IInv'
<1>1. UNCHANGED <<store, runner>>
  BY DEF AppChanges, UntrackedCommand
<1>2. appState' \in [Apps -> AppState]
  <2>1. CASE AppChanges(a)
    <3>1. PICK app \in {NoApp, NewApp} \cup
                         {DeployedApp(up) : up \in SUBSET ProcessTypes} :
             appState' = [appState EXCEPT ![a] = app]
      BY <2>1 DEF AppChanges
    <3>2. app \in AppState
      <4>. {} \in SUBSET ProcessTypes
        OBVIOUS
      <4>1. CASE app = NoApp
        BY <4>1 DEF AppState, NoApp
      <4>2. CASE app = NewApp
        BY <4>2 DEF AppState, NewApp
      <4>3. CASE \E up \in SUBSET ProcessTypes : app = DeployedApp(up)
        BY <4>3 DEF AppState, DeployedApp
      <4>. QED
        BY <3>1, <4>1, <4>2, <4>3
    <3>. QED
      BY <3>1, <3>2 DEF IInv, TypeOK
  <2>2. CASE \E action \in Actions, target \in Targets :
                UntrackedCommand(a, action, target)
    BY <2>2, AfterCommandTyped DEF UntrackedCommand, IInv, TypeOK
  <2>. QED
    BY <2>1, <2>2
<1>3. TypeOK'
  BY <1>1, <1>2 DEF store, IInv, TypeOK
<1>4. ActiveHasRunner' /\ ActiveIsLatest' /\ LatestIsOwn'
  BY <1>1 DEF store, IInv, ActiveHasRunner, ActiveIsLatest, LatestIsOwn,
     Active, Present
<1>5. PcMatchesState'
  BY <1>1 DEF store, IInv, PcMatchesState, PcMatches
<1>. QED
  BY <1>3, <1>4, <1>5 DEF IInv

(***************************************************************************)
(* The clock changes ages only.                                            *)
(***************************************************************************)
LEMMA TickKeeps ==
    ASSUME TypeOK, Tick, NEW id \in OpIds
    PROVE  /\ Present(id)' <=> Present(id)
           /\ Present(id) =>
                 /\ operations'[id] \in Operation
                 /\ operations'[id].app = operations[id].app
                 /\ operations'[id].action = operations[id].action
                 /\ operations'[id].process = operations[id].process
                 /\ operations'[id].state = operations[id].state
           /\ runner'[id] \in Runner
           /\ runner'[id].pc = runner[id].pc
           /\ runner'[id].outcome = runner[id].outcome
<1>1. TTL \in Nat /\ VerifyTimeout \in Nat
  BY StoreAssumption
<1>2. runner[id] \in Runner /\ operations[id] \in Operation \cup {NoOperation}
  BY DEF TypeOK
<1>3. Older(runner[id].waited, VerifyTimeout) \in Ages(VerifyTimeout)
  BY <1>1, <1>2, OlderTyped DEF Runner
<1>4. Older(runner[id].finishedAge, TTL) \in Ages(TTL)
  BY <1>1, <1>2, OlderTyped DEF Runner
<1>5. /\ runner'[id] \in Runner /\ runner'[id].pc = runner[id].pc
      /\ runner'[id].outcome = runner[id].outcome
  BY <1>2, <1>3, <1>4 DEF Tick, Runner
<1>6. CASE ~Present(id)
  BY <1>5, <1>6 DEF Present, Tick
<1>7. CASE Present(id) /\ operations[id].finishedAge = NotFinished
  BY <1>2, <1>5, <1>7 DEF Present, Tick
<1>8. CASE Present(id) /\ operations[id].finishedAge # NotFinished
  <2>1. operations[id] \in Operation /\ operations[id].finishedAge \in Ages(TTL)
    BY <1>2, <1>8 DEF Present, Operation
  <2>2. Older(operations[id].finishedAge, TTL) \in Ages(TTL)
    BY <1>1, <2>1, OlderTyped
  <2>3. operations'[id] = [operations[id] EXCEPT
                             !.finishedAge = Older(operations[id].finishedAge, TTL)]
    BY <1>8 DEF Tick
  <2>4. operations'[id] \in Operation
    BY <2>1, <2>2, <2>3 DEF Operation
  <2>. QED
    BY <1>5, <1>8, <2>1, <2>3, <2>4, StoreAssumption DEF Present, Operation
<1>. QED
  BY <1>6, <1>7, <1>8

LEMMA TickIInv == ASSUME IInv, Tick PROVE IInv'
<1>1. TypeOK
  BY DEF IInv
<1>2. TypeOK'
  <2>1. operations' \in [OpIds -> Operation \cup {NoOperation}]
    <3>1. \A id \in OpIds : operations'[id] \in Operation \cup {NoOperation}
      BY <1>1, TickKeeps DEF Present
    <3>. QED
      BY <3>1 DEF Tick
  <2>2. runner' \in [OpIds -> Runner]
    <3>1. \A id \in OpIds : runner'[id] \in Runner
      BY <1>1, TickKeeps
    <3>. QED
      BY <3>1 DEF Tick
  <2>. QED
    BY <1>1, <2>1, <2>2 DEF Tick, TypeOK
<1>3. \A id \in OpIds : Active(id)' <=> Active(id)
  BY <1>1, TickKeeps DEF Active
<1>4. ActiveHasRunner'
  BY <1>1, <1>3, TickKeeps DEF IInv, ActiveHasRunner
<1>5. ActiveIsLatest'
  BY <1>1, <1>3, TickKeeps DEF IInv, ActiveIsLatest, Active, Tick
<1>6. LatestIsOwn'
  <2>. SUFFICES ASSUME NEW a \in Apps, latestByApp[a] # NoId,
                       Present(latestByApp[a])'
                PROVE  operations'[latestByApp[a]].app = a
    BY DEF LatestIsOwn, Tick
  <2>1. latestByApp[a] \in OpIds /\ latestByApp'[a] = latestByApp[a]
    BY <1>1 DEF TypeOK, Tick
  <2>2. Present(latestByApp[a])
    BY <1>1, <2>1, TickKeeps DEF Present
  <2>. QED
    BY <1>1, <2>1, <2>2, TickKeeps DEF IInv, LatestIsOwn
<1>7. PcMatchesState'
  <2>. SUFFICES ASSUME NEW id \in OpIds PROVE PcMatches(id)'
    BY DEF PcMatchesState
  <2>1. CASE runner[id].pc = "none"
    BY <1>1, <2>1, TickKeeps DEF PcMatches, Commanding, Waiting, Settling
  <2>2. CASE runner[id].pc # "none"
    <3>1. Present(id) /\ PcMatches(id)
      BY <2>2 DEF IInv, ActiveHasRunner, Active, PcMatchesState
    <3>. QED
      BY <1>1, <3>1, TickKeeps DEF PcMatches
  <2>. QED
    BY <2>1, <2>2
<1>. QED
  BY <1>2, <1>4, <1>5, <1>6, <1>7 DEF IInv

LEMMA ServerRestartIInv == ASSUME IInv, ServerRestart PROVE IInv'
<1>1. NoRunner \in Runner /\ NoRunner.pc = "none"
  BY StoreAssumption DEF NoRunner, Runner, RunnerPCs, TerminalStates, Ages
<1>2. TypeOK'
  BY <1>1 DEF ServerRestart, IInv, TypeOK
<1>3. (ActiveHasRunner /\ ActiveIsLatest /\ LatestIsOwn)'
  BY <1>1 DEF ServerRestart, ActiveHasRunner, ActiveIsLatest, LatestIsOwn, Active, Present
<1>4. \A id \in OpIds : runner'[id].pc = "none"
  BY <1>1 DEF ServerRestart
<1>5. PcMatchesState'
  BY <1>4 DEF PcMatchesState, PcMatches, Commanding, Waiting, Settling
<1>. QED
  BY <1>2, <1>3, <1>5 DEF IInv

LEMMA NextIInv == IInv /\ [Next]_vars => IInv'
<1>. SUFFICES ASSUME IInv, [Next]_vars PROVE IInv'
  OBVIOUS
<1>1. ASSUME NEW a \in Apps, Handler(a) \/ AppChanges(a)
      PROVE  IInv'
  BY <1>1, StartNewIInv, CleanActionsIInv, DokkuIInv DEF Handler
<1>2. CASE GetById
  BY <1>2, CleanTyped, CleanStep DEF GetById, IInv
<1>3. ASSUME NEW id \in OpIds, RunnerStep(id)
      PROVE  IInv'
  BY <1>3, RunnerStepIInv
<1>4. CASE Tick
  BY <1>4, TickIInv
<1>5. CASE ServerRestart
  BY <1>5, ServerRestartIInv
<1>6. CASE UNCHANGED vars
  BY <1>6 DEF vars, IInv, TypeOK, ActiveHasRunner, ActiveIsLatest,
     LatestIsOwn, PcMatchesState, PcMatches, Active, Present
<1>. QED
  BY <1>1, <1>2, <1>3, <1>4, <1>5, <1>6 DEF Next

(***************************************************************************)
(* IInv is an invariant, and with it the type of every variable.           *)
(***************************************************************************)
THEOREM Invariance == Spec => []IInv
BY InitIInv, NextIInv, PTL DEF Spec

THEOREM TypeCorrect == Spec => []TypeOK
<1>1. IInv => TypeOK
  BY DEF IInv
<1>. QED
  BY <1>1, Invariance, PTL

(***************************************************************************)
(* At most one action of an app is under way: two active operations of an  *)
(* app would both be its latest.                                           *)
(***************************************************************************)
THEOREM SingleAction == Spec => []OneActivePerApp
<1>1. IInv => OneActivePerApp
  BY DEF IInv, ActiveIsLatest, OneActivePerApp
<1>. QED
  BY <1>1, Invariance, PTL

(***************************************************************************)
(* No active operation without its goroutine and no goroutine without its  *)
(* operation.                                                              *)
(***************************************************************************)
THEOREM RunnersOwnActions == Spec => []ActiveHasRunner
<1>1. IInv => ActiveHasRunner
  BY DEF IInv
<1>. QED
  BY <1>1, Invariance, PTL

-----------------------------------------------------------------------------
(***************************************************************************)
(* What a step does to an operation that is kept.  One that has settled    *)
(* has no goroutine any more: it is removed or stays what it is.           *)
(***************************************************************************)
LEMMA UpdateKeepsOthers ==
    ASSUME IInv, NEW id \in OpIds,
           UpdateRunning(id) \/ UpdateVerifying(id) \/ UpdateFinished(id)
    PROVE  /\ Active(id) /\ operations[id] \in Operation
           /\ latestByApp' = latestByApp
           /\ operations' \in [OpIds -> Operation \cup {NoOperation}]
           /\ \A j \in OpIds \ {id} : operations'[j] = operations[j]
<1>1. Active(id) /\ operations[id] \in Operation
  BY DEF UpdateRunning, UpdateVerifying, UpdateFinished, GoTo, IInv, TypeOK,
     ActiveHasRunner, Active, Present
<1>2. latestByApp[operations[id].app] = id
  BY <1>1 DEF IInv, ActiveIsLatest
<1>3. PICK op :
        /\ op.app = operations[id].app
        /\ operations' = [operations EXCEPT ![id] = op]
        /\ latestByApp' = [latestByApp EXCEPT ![op.app] = id]
  BY <1>1 DEF UpdateRunning, UpdateVerifying, UpdateFinished, Update, Active,
     Operation
<1>4. latestByApp' = latestByApp
  BY <1>2, <1>3 DEF IInv, TypeOK
<1>5. operations' \in [OpIds -> Operation \cup {NoOperation}]
  BY UpdateActionsIInv DEF IInv, TypeOK
<1>6. \A j \in OpIds \ {id} : operations'[j] = operations[j]
  BY <1>3 DEF IInv, TypeOK
<1>. QED
  BY <1>1, <1>4, <1>5, <1>6

LEMMA OutcomeStays ==
    ASSUME IInv, [Next]_vars, NEW id \in OpIds, Present(id),
           isRestartTerminalState(operations[id].state)
    PROVE  operations'[id] = NoOperation \/ operations'[id].state = operations[id].state
<1>1. ~Active(id)
  BY DEF Active
<1>2. CASE operations' = CleanOperations
  BY <1>2 DEF CleanOperations
<1>3. ASSUME NEW a \in Apps, NEW action \in Actions, NEW target \in Targets,
             StartNew(a, action, target)
      PROVE  operations'[id] = CleanOperations[id]
  BY <1>3, CleanTyped DEF StartNew, Fresh, IInv
<1>4. ASSUME NEW j \in OpIds,
             UpdateRunning(j) \/ UpdateVerifying(j) \/ UpdateFinished(j)
      PROVE  operations'[id] = operations[id]
  BY <1>1, <1>4, UpdateKeepsOthers
<1>5. CASE UNCHANGED operations
  BY <1>5
<1>6. CASE Tick
  BY <1>6, TickKeeps DEF IInv
<1>7. CASE ServerRestart
  BY <1>7 DEF ServerRestart
<1>8. ASSUME NEW a \in Apps, Handler(a) \/ AppChanges(a)
      PROVE  \/ operations' = CleanOperations
             \/ UNCHANGED operations
             \/ \E action \in Actions, target \in Targets : StartNew(a, action, target)
  BY <1>8 DEF Handler, AppChanges, StartReused, GetLatest, UntrackedCommand, store
<1>9. ASSUME NEW j \in OpIds, RunnerStep(j)
      PROVE  \/ operations' = CleanOperations
             \/ UNCHANGED operations
             \/ UpdateRunning(j) \/ UpdateVerifying(j) \/ UpdateFinished(j)
  BY <1>9 DEF RunnerStep, Load, CommandSucceeds, CommandFails, SetDeadline,
     StatusVerified, StatusNotVerified, StatusFails, AppGone, AppNotKnownGone,
     DeadlinePassed, BeforeDeadline, WakeUp, SampleFinishedAt, store
<1>10. \/ operations' = CleanOperations \/ UNCHANGED operations
       \/ Tick \/ ServerRestart
       \/ \E a \in Apps, action \in Actions, target \in Targets :
              StartNew(a, action, target)
       \/ \E j \in OpIds : UpdateRunning(j) \/ UpdateVerifying(j) \/ UpdateFinished(j)
  BY <1>8, <1>9 DEF Next, GetById, vars
<1>. QED
  BY <1>2, <1>3, <1>4, <1>5, <1>6, <1>7, <1>10 DEF CleanOperations

(***************************************************************************)
(* The result a client has read under a task_id stays the result as long   *)
(* as the operation is kept, whatever is requested later.                  *)
(***************************************************************************)
THEOREM OutcomesStay == Spec => OutcomeIsFinal
<1>1. IInv /\ [Next]_vars =>
        [\A id \in OpIds :
            Present(id) /\ isRestartTerminalState(operations[id].state)
               => operations'[id] = NoOperation
                  \/ operations'[id].state = operations[id].state]_vars
  BY OutcomeStays
<1>. QED
  BY <1>1, Invariance, PTL DEF Spec, OutcomeIsFinal

-----------------------------------------------------------------------------
(***************************************************************************)
(* The slot of an app, before and after a step.                            *)
(***************************************************************************)
SlotMoves(a) ==
    \/ Lifecycle!Begin(Slot(a), Slot(a)')
    \/ Lifecycle!Advance(Slot(a), Slot(a)')
    \/ Lifecycle!Forget(Slot(a), Slot(a)')
    \/ Lifecycle!Stay(Slot(a), Slot(a)')

Record(op) == [action |-> op.action, process |-> op.process, state |-> op.state]

LEMMA SlotOfLatest ==
    ASSUME TypeOK, NEW a \in Apps
    PROVE  \/ Slot(a) = NoOperation
           \/ /\ latestByApp[a] \in OpIds /\ Present(latestByApp[a])
              /\ operations[latestByApp[a]] \in Operation
              /\ Slot(a) = Record(operations[latestByApp[a]])
              /\ Slot(a) # NoOperation
<1>. SUFFICES ASSUME Slot(a) # NoOperation
              PROVE  /\ latestByApp[a] \in OpIds /\ Present(latestByApp[a])
                     /\ operations[latestByApp[a]] \in Operation
                     /\ Slot(a) = Record(operations[latestByApp[a]])
  OBVIOUS
<1>1. latestByApp[a] # NoId /\ Present(latestByApp[a])
  BY DEF Slot
<1>. QED
  BY <1>1 DEF Slot, TypeOK, Present, Record

LEMMA RecordIsContent ==
    ASSUME NEW op \in Operation
    PROVE  /\ Record(op) \in [action : Actions, process : Targets, state : OperationStates]
           /\ Record(op) # NoOperation
  BY StoreAssumption DEF Record, Operation

LEMMA SlotTyped == TypeOK => \A a \in Apps : Slot(a) \in Lifecycle!Content
<1>. SUFFICES ASSUME TypeOK, NEW a \in Apps
              PROVE  Slot(a) \in Lifecycle!Content
  OBVIOUS
<1>1. Lifecycle!States = OperationStates
  BY DEF Lifecycle!States, Lifecycle!Terminal, OperationStates, TerminalStates
<1>. QED
  BY <1>1, SlotOfLatest, RecordIsContent DEF Lifecycle!Content

(***************************************************************************)
(* A pointer and its operation that stay keep the slot as it is.           *)
(***************************************************************************)
LEMMA SlotStays ==
    ASSUME NEW a \in Apps, latestByApp'[a] = latestByApp[a],
           operations'[latestByApp[a]] = operations[latestByApp[a]]
    PROVE  SlotMoves(a)
  BY DEF Slot, Present, SlotMoves, Lifecycle!Stay

(***************************************************************************)
(* The cleanup forgets what a slot holds only when that has settled; so    *)
(* does the repair of a pointer to nothing.                                *)
(***************************************************************************)
LEMMA CleanForgets ==
    ASSUME IInv, NEW a \in Apps,
           \/ latestByApp'[a] = CleanLatest[a]
           \/ Dangling(a) /\ latestByApp'[a] = NoId,
           latestByApp[a] \in OpIds =>
               operations'[latestByApp[a]] = CleanOperations[latestByApp[a]]
    PROVE  SlotMoves(a)
<1>1. CleanLatest[a] \in {latestByApp[a], NoId}
  BY DEF CleanLatest
<1>2. latestByApp'[a] \in {latestByApp[a], NoId}
  BY <1>1
<1>3. latestByApp[a] \in OpIds \cup {NoId}
  BY DEF IInv, TypeOK
<1>4. CASE Slot(a) = NoOperation
  <2>1. latestByApp[a] = NoId \/ operations[latestByApp[a]] = NoOperation
    <3>. SUFFICES ASSUME latestByApp[a] # NoId, Present(latestByApp[a]) PROVE FALSE
      BY DEF Present
    <3>1. latestByApp[a] \in OpIds /\ operations[latestByApp[a]] \in Operation
      BY <1>3 DEF Present, IInv, TypeOK
    <3>2. Slot(a) = Record(operations[latestByApp[a]])
      BY DEF Slot, Record
    <3>. QED
      BY <1>4, <3>1, <3>2, RecordIsContent
  <2>2. Slot(a)' = NoOperation
    BY <1>2, <1>3, <2>1 DEF Slot, Present, CleanOperations
  <2>. QED
    BY <1>4, <2>2 DEF SlotMoves, Lifecycle!Stay
<1>5. CASE Slot(a) # NoOperation
  <2>1. /\ latestByApp[a] \in OpIds /\ Present(latestByApp[a])
        /\ operations[latestByApp[a]] \in Operation
        /\ Slot(a) = Record(operations[latestByApp[a]])
    BY <1>5, SlotOfLatest DEF IInv
  <2>2. CASE Expired(latestByApp[a])
    <3>1. Slot(a)' = NoOperation
      BY <1>2, <2>1, <2>2 DEF Slot, Present, CleanOperations
    <3>2. Slot(a).state \in TerminalStates
      BY <2>1, <2>2 DEF Expired, isRestartTerminalState, Record
    <3>. QED
      BY <1>5, <3>1, <3>2 DEF SlotMoves, Lifecycle!Forget, Lifecycle!Settled,
         Lifecycle!Free, Lifecycle!Terminal, TerminalStates
  <2>3. CASE ~Expired(latestByApp[a])
    <3>1. CleanLatest[a] = latestByApp[a]
      BY <2>3 DEF CleanLatest
    <3>2. CleanOperations[latestByApp[a]] = operations[latestByApp[a]]
      BY <2>1, <2>3 DEF CleanOperations
    <3>3. ~Dangling(a)
      BY <2>1, <3>1, <3>2 DEF Dangling, Present
    <3>. QED
      BY <2>1, <3>1, <3>2, <3>3, SlotStays
  <2>. QED
    BY <2>2, <2>3
<1>. QED
  BY <1>4, <1>5

(***************************************************************************)
(* A new action takes a slot that is free or holds a settled one.          *)
(***************************************************************************)
LEMMA StartNewMoves ==
    ASSUME IInv, NEW a \in Apps, NEW action \in Actions, NEW target \in Targets,
           StartNew(a, action, target), NEW b \in Apps
    PROVE  SlotMoves(b)
<1>. DEFINE op == PendingOperation(a, action, target)
<1>1. PICK id \in OpIds :
        /\ Fresh(id)
        /\ operations' = [CleanOperations EXCEPT ![id] = op]
        /\ latestByApp' = [CleanLatest EXCEPT ![a] = id]
  BY DEF StartNew
<1>2. op \in Operation /\ op # NoOperation
  BY StoreAssumption DEF PendingOperation, Operation, OperationStates
<1>3. /\ operations'[id] = op
      /\ \A j \in OpIds \ {id} : operations'[j] = CleanOperations[j]
      /\ latestByApp'[a] = id
      /\ \A c \in Apps \ {a} : latestByApp'[c] = CleanLatest[c]
  BY <1>1, CleanTyped DEF IInv
<1>4. CASE b = a
  <2>1. Slot(a)' = [action |-> action, process |-> target, state |-> "pending"]
    BY <1>2, <1>3, StoreAssumption DEF Slot, Present, PendingOperation
  <2>2. CASE Slot(a) = NoOperation
    BY <1>4, <2>1, <2>2 DEF SlotMoves, Lifecycle!Begin, Lifecycle!Free
  <2>3. CASE Slot(a) # NoOperation
    <3>1. /\ latestByApp[a] \in OpIds /\ Present(latestByApp[a])
          /\ operations[latestByApp[a]] \in Operation
          /\ Slot(a) = Record(operations[latestByApp[a]])
      BY <2>3, SlotOfLatest DEF IInv
    <3>2. operations[latestByApp[a]].app = a
      BY <3>1, StoreAssumption DEF IInv, LatestIsOwn
    <3>3. CASE Active(latestByApp[a])
      <4>1. /\ CleanOperations[latestByApp[a]] = operations[latestByApp[a]]
            /\ CleanLatest[a] = latestByApp[a]
        BY <3>1, <3>2, <3>3, CleanKeepsActive
      <4>2. ResolvedLatest(a) = latestByApp[a]
        BY <3>1, <4>1 DEF ResolvedLatest, Dangling, Present
      <4>3. ActiveForApp(a)
        BY <3>1, <3>3, <4>1, <4>2, StoreAssumption DEF ActiveForApp, Active
      <4>. QED
        BY <4>3 DEF StartNew
    <3>4. CASE ~Active(latestByApp[a])
      <4>1. Slot(a).state \in TerminalStates
        BY <3>1, <3>4 DEF Active, isRestartTerminalState, Record
      <4>. QED
        BY <1>4, <2>1, <2>3, <4>1 DEF SlotMoves, Lifecycle!Begin, Lifecycle!Settled,
           Lifecycle!Free, Lifecycle!Terminal, TerminalStates
    <3>. QED
      BY <3>3, <3>4
  <2>. QED
    BY <2>2, <2>3
<1>5. CASE b # a
  BY <1>1, <1>3, <1>5, CleanForgets DEF Fresh
<1>. QED
  BY <1>4, <1>5

(***************************************************************************)
(* An update advances the slot of its app and leaves the others alone.     *)
(***************************************************************************)
LEMMA UpdateMoves ==
    ASSUME IInv, NEW id \in OpIds,
           UpdateRunning(id) \/ UpdateVerifying(id) \/ UpdateFinished(id),
           NEW a \in Apps
    PROVE  SlotMoves(a)
<1>1. /\ Active(id) /\ operations[id] \in Operation
      /\ latestByApp' = latestByApp
      /\ operations' \in [OpIds -> Operation \cup {NoOperation}]
      /\ \A j \in OpIds \ {id} : operations'[j] = operations[j]
  BY UpdateKeepsOthers
<1>2. CASE latestByApp[a] \notin OpIds
  <2>1. latestByApp[a] = NoId
    BY <1>2 DEF IInv, TypeOK
  <2>. QED
    BY <1>1, <2>1 DEF Slot, SlotMoves, Lifecycle!Stay
<1>3. CASE latestByApp[a] \in OpIds \ {id}
  BY <1>1, <1>3, SlotStays
<1>4. CASE latestByApp[a] = id
  <2>1. PICK state :
          /\ operations'[id].action = operations[id].action
          /\ operations'[id].process = operations[id].process
          /\ operations'[id].state = state
          /\ operations'[id] # NoOperation
          /\ state \in Lifecycle!Successors(operations[id].action, operations[id].state)
    <3>1. operations[id].action \in TrackedActions
      BY <1>1, StoreAssumption DEF Operation
    <3>2. PcMatches(id) /\ runner[id] \in Runner /\ Present(id)
      BY <1>1 DEF IInv, PcMatchesState, TypeOK, Active
    <3>3. CASE UpdateRunning(id)
      <4>1. operations[id].state = "pending"
        BY <3>2, <3>3 DEF PcMatches, UpdateRunning, GoTo
      <4>2. operations'[id] = [operations[id] EXCEPT
                                 !.state = actionRunningState(operations[id].action)]
        BY <3>2, <3>3 DEF UpdateRunning, Update, IInv, TypeOK
      <4>3. operations'[id] \in Operation
        BY <1>1, <4>2 DEF Operation, OperationStates, actionRunningState
      <4>. QED
        BY <1>1, <4>1, <4>2, <4>3, StoreAssumption DEF Operation, actionRunningState,
           Lifecycle!Successors, Lifecycle!RunningState
    <3>4. CASE UpdateVerifying(id)
      <4>1. operations[id].state = actionRunningState(operations[id].action)
        BY <3>2, <3>4 DEF PcMatches, UpdateVerifying, GoTo, Commanding
      <4>2. operations'[id] = [operations[id] EXCEPT !.state = "verifying"]
        BY <3>2, <3>4 DEF UpdateVerifying, Update, IInv, TypeOK
      <4>3. operations'[id] \in Operation
        BY <1>1, <4>2 DEF Operation, OperationStates
      <4>. QED
        BY <1>1, <4>1, <4>2, <4>3, StoreAssumption DEF Operation, actionRunningState,
           Lifecycle!Successors, Lifecycle!RunningState
    <3>5. CASE UpdateFinished(id)
      <4>1. /\ runner[id].outcome \in TerminalStates
            /\ \/ operations[id].state = "verifying"
               \/ /\ operations[id].state = actionRunningState(operations[id].action)
                  /\ runner[id].outcome = "failed"
        BY <3>2, <3>5 DEF PcMatches, UpdateFinished, Settling, Runner
      <4>2. operations'[id] = [operations[id] EXCEPT
                                 !.state = runner[id].outcome,
                                 !.finishedAge = runner[id].finishedAge]
        BY <3>2, <3>5 DEF UpdateFinished, Update, IInv, TypeOK
      <4>3. operations'[id] \in Operation
        BY <1>1, <3>2, <4>1, <4>2 DEF Operation, OperationStates, Runner
      <4>4. /\ operations'[id].action = operations[id].action
            /\ operations'[id].process = operations[id].process
            /\ operations'[id].state = runner[id].outcome
        BY <1>1, <4>2 DEF Operation
      <4>5. runner[id].outcome \in
               Lifecycle!Successors(operations[id].action, operations[id].state)
        BY <4>1 DEF actionRunningState, TerminalStates,
           Lifecycle!Successors, Lifecycle!RunningState
      <4>. QED
        BY <4>3, <4>4, <4>5, StoreAssumption
    <3>. QED
      BY <3>3, <3>4, <3>5
  <2>2. Slot(a) = Record(operations[id]) /\ Slot(a) # NoOperation
    BY <1>1, <1>4, RecordIsContent, StoreAssumption DEF Slot, Active, Record
  <2>3. Slot(a)' = [Slot(a) EXCEPT !.state = operations'[id].state]
    BY <1>1, <1>4, <2>1, <2>2, StoreAssumption DEF Slot, Present, Record
  <2>. QED
    BY <2>1, <2>2, <2>3 DEF SlotMoves, Lifecycle!Advance, Lifecycle!Free, Record
<1>. QED
  BY <1>2, <1>3, <1>4

LEMMA TickMoves ==
    ASSUME IInv, Tick, NEW a \in Apps
    PROVE  SlotMoves(a)
<1>1. latestByApp'[a] = latestByApp[a] /\ latestByApp[a] \in OpIds \cup {NoId}
  BY DEF Tick, IInv, TypeOK
<1>2. CASE latestByApp[a] = NoId
  BY <1>1, <1>2 DEF Slot, SlotMoves, Lifecycle!Stay
<1>3. CASE latestByApp[a] # NoId
  <2>1. TypeOK /\ latestByApp[a] \in OpIds
    BY <1>1, <1>3 DEF IInv
  <2>2. Slot(a)' = Slot(a)
    BY <1>1, <2>1, TickKeeps DEF Slot
  <2>. QED
    BY <2>2 DEF SlotMoves, Lifecycle!Stay
<1>. QED
  BY <1>2, <1>3

(***************************************************************************)
(* Every step of the store moves every slot as AppActionLifecycle allows,  *)
(* or is a restart of the server.                                          *)
(***************************************************************************)
LEMMA StepMoves ==
    ASSUME IInv, [Next]_vars, NEW a \in Apps
    PROVE  SlotMoves(a) \/ ServerRestart
<1>1. ASSUME operations' = operations, latestByApp' = latestByApp
      PROVE  SlotMoves(a)
  BY <1>1, SlotStays
<1>2. ASSUME NEW b \in Apps, StartReused(b) \/ GetLatest(b)
      PROVE  SlotMoves(a)
  <2>1. /\ operations' = CleanOperations
        /\ \/ latestByApp'[a] = CleanLatest[a]
           \/ Dangling(a) /\ latestByApp'[a] = NoId
    BY <1>2, CleanTyped DEF StartReused, GetLatest, ResolvedLatest, IInv
  <2>. QED
    BY <2>1, CleanForgets
<1>3. ASSUME NEW b \in Apps, Handler(b) \/ AppChanges(b)
      PROVE  SlotMoves(a)
  <2>1. CASE \E action \in Actions, target \in Targets : StartNew(b, action, target)
    BY <2>1, StartNewMoves
  <2>2. CASE \/ AppChanges(b)
             \/ \E action \in Actions, target \in Targets :
                   UntrackedCommand(b, action, target)
    <3>1. operations' = operations /\ latestByApp' = latestByApp
      BY <2>2 DEF AppChanges, UntrackedCommand, store
    <3>. QED
      BY <1>1, <3>1
  <2>. QED
    BY <1>2, <1>3, <2>1, <2>2 DEF Handler
<1>4. CASE GetById
  BY <1>4, CleanForgets DEF GetById
<1>5. ASSUME NEW id \in OpIds, RunnerStep(id)
      PROVE  SlotMoves(a)
  <2>1. CASE UpdateRunning(id) \/ UpdateVerifying(id) \/ UpdateFinished(id)
    BY <2>1, UpdateMoves
  <2>2. CASE Load(id)
    BY <2>2, CleanForgets DEF Load
  <2>3. \/ UpdateRunning(id) \/ UpdateVerifying(id) \/ UpdateFinished(id)
        \/ Load(id)
        \/ operations' = operations /\ latestByApp' = latestByApp
    BY <1>5 DEF RunnerStep, CommandSucceeds, CommandFails, SetDeadline,
       StatusVerified, StatusNotVerified, StatusFails, AppGone, AppNotKnownGone,
       DeadlinePassed, BeforeDeadline, WakeUp, SampleFinishedAt, store
  <2>. QED
    BY <1>1, <2>1, <2>2, <2>3
<1>6. CASE Tick
  BY <1>6, TickMoves
<1>7. CASE UNCHANGED vars
  BY <1>1, <1>7 DEF vars, store
<1>. QED
  BY <1>3, <1>4, <1>5, <1>6, <1>7 DEF Next

LEMMA SlotTypedNext ==
    TypeOK' => (\A a \in Apps : Slot(a) \in Lifecycle!Content)'
  BY SlotTyped, PTL

LEMMA StepImplements ==
    IInv /\ IInv' /\ [Next]_vars => [Lifecycle!Next]_([a \in Apps |-> Slot(a)])
<1>. SUFFICES ASSUME IInv, IInv', [Next]_vars
              PROVE  Lifecycle!Next
  OBVIOUS
<1>1. CASE ServerRestart
  <2>1. \A a \in Apps : Slot(a)' = NoOperation
    BY <1>1 DEF ServerRestart, Slot
  <2>. QED
    BY <2>1 DEF Lifecycle!Next, Lifecycle!Restart
<1>2. CASE ~ServerRestart
  <2>1. \A a \in Apps : SlotMoves(a)
    BY <1>2, StepMoves
  <2>2. \A a \in Apps : Slot(a)' \in Lifecycle!Content
    BY SlotTypedNext DEF IInv
  <2>. QED
    BY <2>1, <2>2 DEF SlotMoves, Lifecycle!Next, Lifecycle!Move
<1>. QED
  BY <1>1, <1>2

(***************************************************************************)
(* The store implements AppActionLifecycle, for any apps, identifiers and  *)
(* limits: whoever asks about an app sees one action at a time, which goes *)
(* through its states in order and is forgotten only when it has settled.  *)
(***************************************************************************)
THEOREM FollowsLifecycle == Spec => ImplementsLifecycle
<1>1. Init => Lifecycle!Init
  BY DEF Init, Lifecycle!Init, Slot
<1>. QED
  BY <1>1, Invariance, StepImplements, PTL
     DEF Spec, ImplementsLifecycle, Lifecycle!Spec

-----------------------------------------------------------------------------
(***************************************************************************)
(* The order in which operations of an app finish.  While an operation is  *)
(* kept, the latest one of its app is kept as well.                        *)
(***************************************************************************)
LEMMA LatestIsKept ==
    ASSUME IInv, AgeInv, NEW id \in OpIds, Present(id)
    PROVE  /\ operations[id] \in Operation /\ operations[id].app \in Apps
           /\ latestByApp[operations[id].app] \in OpIds
           /\ Present(latestByApp[operations[id].app])
           /\ operations[latestByApp[operations[id].app]] \in Operation
           /\ operations[latestByApp[operations[id].app]].app = operations[id].app
           /\ ResultAge(latestByApp[operations[id].app]) <= ResultAge(id)
<1>1. operations[id] \in Operation /\ operations[id].app \in Apps
  BY DEF Present, IInv, TypeOK, Operation
<1>2. /\ latestByApp[operations[id].app] \in OpIds
      /\ Present(latestByApp[operations[id].app])
      /\ operations[latestByApp[operations[id].app]].app = operations[id].app
  BY <1>1 DEF AgeInv, NoHiddenOperation, IInv, TypeOK
<1>. QED
  BY <1>1, <1>2 DEF AgeInv, LatestFinishesLast, IInv, TypeOK, Present

LEMMA ResultAges ==
    ASSUME IInv, AgeInv, NEW id \in OpIds, Present(id)
    PROVE  /\ ResultAge(id) \in Ages(TTL)
           /\ ~Active(id) => ResultAge(id) = operations[id].finishedAge
           /\ Active(id) => ResultAge(id) = runner[id].finishedAge
           /\ Expired(id) <=> ~Active(id) /\ ResultAge(id) > TTL
<1>1. operations[id] \in Operation /\ runner[id] \in Runner
  BY DEF Present, IInv, TypeOK
<1>2. operations[id].finishedAge = NotFinished <=> Active(id)
  BY DEF AgeInv, AgeRecorded
<1>. QED
  BY <1>1, <1>2 DEF ResultAge, Expired, Active, Operation, Runner

LEMMA LatestIsClean ==
    ASSUME IInv, AgeInv, NEW id \in OpIds, Present(id), ~Expired(id)
    PROVE  /\ ~Expired(latestByApp[operations[id].app])
           /\ CleanLatest[operations[id].app] = latestByApp[operations[id].app]
           /\ ~Dangling(operations[id].app)
<1>. DEFINE L == latestByApp[operations[id].app]
<1>1. /\ operations[id].app \in Apps /\ L \in OpIds /\ Present(L)
      /\ ResultAge(L) <= ResultAge(id)
  BY LatestIsKept
<1>2. ~Expired(L)
  <2>1. CASE Active(id)
    <3>1. L = id
      BY <2>1 DEF IInv, ActiveIsLatest
    <3>. QED
      BY <3>1
  <2>2. CASE ~Active(id)
    BY <1>1, <2>2, ResultAges, StoreAssumption DEF Ages
  <2>. QED
    BY <2>1, <2>2
<1>3. CleanLatest[operations[id].app] = L
  BY <1>1, <1>2 DEF CleanLatest
<1>4. CleanOperations[L] = operations[L]
  BY <1>1, <1>2 DEF CleanOperations
<1>5. ~Dangling(operations[id].app)
  BY <1>1, <1>3, <1>4 DEF Dangling, Present
<1>. QED
  BY <1>2, <1>3, <1>5

(***************************************************************************)
(* A step that reads no clock and only cleans up, or not even that.        *)
(***************************************************************************)
QuietAges ==
    \A j \in OpIds :
        /\ runner'[j].finishedAge = runner[j].finishedAge
        /\ runner'[j].pc # "update_finished" => runner[j].finishedAge = 0

LEMMA AgesOfStore ==
    ASSUME IInv, AgeInv, QuietAges,
           operations' = operations, latestByApp' = latestByApp
    PROVE  AgeInv'
<1>1. \A id \in OpIds : /\ Present(id)' <=> Present(id)
                        /\ Active(id)' <=> Active(id)
                        /\ ResultAge(id)' = ResultAge(id)
  BY DEF Present, Active, ResultAge, QuietAges
<1>2. AgeRecorded'
  BY <1>1 DEF AgeInv, AgeRecorded, QuietAges
<1>3. NoHiddenOperation'
  BY DEF AgeInv, NoHiddenOperation, Present
<1>4. LatestFinishesLast'
  <2>. SUFFICES ASSUME NEW id \in OpIds, Present(id)'
                PROVE  (ResultAge(latestByApp[operations[id].app]) <= ResultAge(id))'
    BY DEF LatestFinishesLast
  <2>1. Present(id)
    BY <1>1
  <2>. QED
    BY <1>1, <2>1, LatestIsKept
<1>. QED
  BY <1>2, <1>3, <1>4 DEF AgeInv

LEMMA AgesOfClean ==
    ASSUME IInv, AgeInv, QuietAges, operations' = CleanOperations,
           \A a \in Apps : \/ latestByApp'[a] = CleanLatest[a]
                           \/ Dangling(a) /\ latestByApp'[a] = NoId
    PROVE  AgeInv'
<1>1. ASSUME NEW id \in OpIds, ~Expired(id)
      PROVE  /\ operations'[id] = operations[id]
             /\ Present(id)' <=> Present(id)
             /\ Active(id)' <=> Active(id)
             /\ ResultAge(id)' = ResultAge(id)
  BY <1>1 DEF CleanOperations, Present, Active, ResultAge, QuietAges
<1>2. ASSUME NEW id \in OpIds, Present(id)'
      PROVE  ~Expired(id) /\ Present(id)
  BY <1>2 DEF Present, CleanOperations
<1>3. ASSUME NEW id \in OpIds, Present(id)'
      PROVE  /\ operations'[id] = operations[id]
             /\ operations[id].app \in Apps
             /\ latestByApp[operations[id].app] \in OpIds
             /\ ~Expired(latestByApp[operations[id].app])
             /\ latestByApp'[operations[id].app] = latestByApp[operations[id].app]
  BY <1>1, <1>2, <1>3, LatestIsKept, LatestIsClean
<1>4. AgeRecorded'
  BY <1>1, <1>2 DEF AgeInv, AgeRecorded, QuietAges
<1>5. NoHiddenOperation'
  <2>. SUFFICES ASSUME NEW id \in OpIds, Present(id)'
                PROVE  /\ latestByApp'[operations'[id].app] # NoId
                       /\ Present(latestByApp[operations[id].app])'
                       /\ (operations[latestByApp[operations[id].app]].app
                              = operations[id].app)'
    BY DEF NoHiddenOperation
  <2>1. Present(id)
    BY <1>2
  <2>2. /\ latestByApp[operations[id].app] \in OpIds
        /\ Present(latestByApp[operations[id].app])
        /\ operations[latestByApp[operations[id].app]].app = operations[id].app
    BY <2>1, LatestIsKept
  <2>3. operations'[latestByApp[operations[id].app]]
           = operations[latestByApp[operations[id].app]]
    BY <1>1, <1>3, <2>2
  <2>. QED
    BY <1>3, <2>2, <2>3, StoreAssumption DEF Present
<1>6. LatestFinishesLast'
  <2>. SUFFICES ASSUME NEW id \in OpIds, Present(id)'
                PROVE  (ResultAge(latestByApp[operations[id].app]) <= ResultAge(id))'
    BY DEF LatestFinishesLast
  <2>1. /\ Present(id) /\ ~Expired(id)
        /\ ResultAge(latestByApp[operations[id].app]) <= ResultAge(id)
    BY <1>2, LatestIsKept
  <2>. QED
    BY <1>1, <1>3, <2>1
<1>. QED
  BY <1>4, <1>5, <1>6 DEF AgeInv

(***************************************************************************)
(* A new operation is younger than every result of its app.                *)
(***************************************************************************)
LEMMA AgesOfStart ==
    ASSUME IInv, AgeInv, NEW a \in Apps, NEW action \in Actions,
           NEW target \in Targets, StartNew(a, action, target)
    PROVE  AgeInv'
<1>. DEFINE op == PendingOperation(a, action, target)
<1>1. PICK id \in OpIds :
        /\ Fresh(id)
        /\ operations' = [CleanOperations EXCEPT ![id] = op]
        /\ latestByApp' = [CleanLatest EXCEPT ![a] = id]
        /\ runner' = [runner EXCEPT ![id].pc = "update_running"]
  BY DEF StartNew
<1>2. op # NoOperation /\ op.finishedAge = NotFinished /\ op.app = a
      /\ op.state = "pending"
  BY StoreAssumption DEF PendingOperation, Operation, OperationStates
<1>3. /\ operations'[id] = op
      /\ \A j \in OpIds \ {id} : operations'[j] = CleanOperations[j]
      /\ latestByApp'[a] = id
      /\ \A c \in Apps \ {a} : latestByApp'[c] = CleanLatest[c]
  BY <1>1, CleanTyped DEF IInv
<1>4. /\ runner'[id].finishedAge = 0
      /\ \A j \in OpIds \ {id} : runner'[j] = runner[j]
  BY <1>1 DEF Fresh, AgeInv, AgeRecorded, IInv, TypeOK, Runner
<1>5. Present(id)' /\ Active(id)' /\ ResultAge(id)' = 0
  BY <1>2, <1>3, <1>4 DEF Present, Active, ResultAge, isRestartTerminalState, TerminalStates
<1>6. ASSUME NEW j \in OpIds \ {id}, Present(j)'
      PROVE  /\ Present(j) /\ ~Expired(j)
             /\ operations'[j] = operations[j]
             /\ Active(j)' <=> Active(j)
             /\ ResultAge(j)' = ResultAge(j)
             /\ ResultAge(j) \in Ages(TTL)
  <2>1. Present(j) /\ ~Expired(j) /\ operations'[j] = operations[j]
    BY <1>3, <1>6 DEF Present, CleanOperations
  <2>2. Active(j)' <=> Active(j)
    BY <2>1 DEF Active, Present
  <2>3. ResultAge(j)' = ResultAge(j)
    BY <1>4, <2>1, <2>2 DEF ResultAge
  <2>. QED
    BY <2>1, <2>2, <2>3, ResultAges
<1>7. AgeRecorded'
  <2>. SUFFICES ASSUME NEW j \in OpIds
                PROVE  /\ Present(j)' => (operations'[j].finishedAge = NotFinished <=> Active(j)')
                       /\ runner'[j].pc # "update_finished" => runner'[j].finishedAge = 0
    BY DEF AgeRecorded
  <2>1. CASE j = id
    BY <2>1, <1>2, <1>3, <1>4, <1>5
  <2>2. CASE j # id
    BY <2>2, <1>4, <1>6 DEF AgeInv, AgeRecorded
  <2>. QED
    BY <2>1, <2>2
<1>8. ASSUME NEW j \in OpIds, Present(j)'
      PROVE  /\ latestByApp'[operations'[j].app] \in OpIds
             /\ Present(latestByApp[operations[j].app])'
             /\ (operations[latestByApp[operations[j].app]].app = operations[j].app)'
             /\ (ResultAge(latestByApp[operations[j].app]) <= ResultAge(j))'
  <2>1. CASE j = id
    BY <2>1, <1>2, <1>3, <1>5
  <2>2. CASE j # id /\ operations[j].app = a
    BY <2>2, <1>2, <1>3, <1>5, <1>6, <1>8 DEF Ages
  <2>3. CASE j # id /\ operations[j].app # a
    <3>1. Present(j) /\ ~Expired(j) /\ operations'[j] = operations[j]
          /\ ResultAge(j)' = ResultAge(j)
      BY <1>6, <1>8, <2>3
    <3>. PICK L \in OpIds : L = latestByApp[operations[j].app]
      BY <3>1, LatestIsKept
    <3>2. /\ operations[j].app \in Apps /\ Present(L)
          /\ operations[L].app = operations[j].app
          /\ ResultAge(L) <= ResultAge(j)
      BY <3>1, LatestIsKept
    <3>3. ~Expired(L) /\ CleanLatest[operations[j].app] = L
      BY <3>1, LatestIsClean
    <3>4. L # id
      BY <1>1, <3>2 DEF Fresh
    <3>5. latestByApp'[operations'[j].app] = L
      BY <1>3, <2>3, <3>1, <3>2, <3>3
    <3>6. operations'[L] = operations[L] /\ Present(L)'
      BY <1>3, <3>2, <3>3, <3>4 DEF CleanOperations, Present
    <3>7. ResultAge(L)' = ResultAge(L)
      BY <1>6, <3>2, <3>4, <3>6
    <3>. QED
      BY <3>1, <3>2, <3>5, <3>6, <3>7
  <2>. QED
    BY <2>1, <2>2, <2>3
<1>. QED
  BY <1>7, <1>8, StoreAssumption DEF AgeInv, NoHiddenOperation, LatestFinishesLast

(***************************************************************************)
(* An update keeps the age of what it updates: finish stores the age that  *)
(* the goroutine had read.                                                 *)
(***************************************************************************)
LEMMA AgesOfUpdate ==
    ASSUME IInv, AgeInv, NEW id \in OpIds,
           UpdateRunning(id) \/ UpdateVerifying(id) \/ UpdateFinished(id)
    PROVE  AgeInv'
<1>1. /\ Active(id) /\ operations[id] \in Operation /\ runner[id] \in Runner
      /\ latestByApp' = latestByApp
      /\ operations' \in [OpIds -> Operation \cup {NoOperation}]
      /\ \A j \in OpIds \ {id} : operations'[j] = operations[j]
  BY UpdateKeepsOthers DEF IInv, TypeOK
<1>2. /\ Present(id) /\ operations[id].finishedAge = NotFinished
      /\ ResultAge(id) = runner[id].finishedAge
  BY <1>1 DEF Active, AgeInv, AgeRecorded, ResultAge
<1>3. /\ \A j \in OpIds \ {id} : runner'[j] = runner[j]
      /\ runner'[id].pc # "update_finished" /\ runner'[id].finishedAge = 0
      /\ operations'[id] # NoOperation
      /\ operations'[id].app = operations[id].app
      /\ operations'[id].finishedAge = NotFinished <=> Active(id)'
      /\ ResultAge(id)' = ResultAge(id)
  <2>1. CASE UpdateRunning(id) \/ UpdateVerifying(id)
    <3>1. PICK state \in OperationStates \ TerminalStates :
            operations'[id] = [operations[id] EXCEPT !.state = state]
      <4>1. /\ actionRunningState(operations[id].action)
                  \in OperationStates \ TerminalStates
            /\ "verifying" \in OperationStates \ TerminalStates
        BY DEF actionRunningState, OperationStates, TerminalStates
      <4>. QED
        BY <1>2, <2>1, <4>1 DEF UpdateRunning, UpdateVerifying, Update, IInv, TypeOK
    <3>2. operations'[id] \in Operation
      BY <1>1, <3>1 DEF Operation
    <3>3. Active(id)'
      BY <1>1, <3>1, <3>2, StoreAssumption DEF Active, Present, isRestartTerminalState,
         Operation
    <3>4. /\ \A j \in OpIds \ {id} : runner'[j] = runner[j]
          /\ runner'[id].pc \in {"load", "deadline"}
          /\ runner'[id].finishedAge = runner[id].finishedAge
          /\ runner[id].pc # "update_finished"
      BY <2>1 DEF UpdateRunning, UpdateVerifying, GoTo, IInv, TypeOK, Runner
    <3>5. runner[id].finishedAge = 0
      BY <3>4 DEF AgeInv, AgeRecorded
    <3>. QED
      BY <1>1, <1>2, <3>1, <3>2, <3>3, <3>4, <3>5, StoreAssumption
         DEF ResultAge, Operation
  <2>2. CASE UpdateFinished(id)
    <3>1. operations'[id] = [operations[id] EXCEPT !.state = runner[id].outcome,
                                !.finishedAge = runner[id].finishedAge]
      BY <1>2, <2>2 DEF UpdateFinished, Update, IInv, TypeOK
    <3>2. /\ operations'[id] \in Operation
          /\ operations'[id].finishedAge = runner[id].finishedAge
          /\ operations'[id].finishedAge # NotFinished
          /\ operations'[id].state \in TerminalStates
          /\ operations'[id].app = operations[id].app
      <4>1. /\ runner[id].outcome \in OperationStates
            /\ runner[id].outcome \in TerminalStates
            /\ runner[id].finishedAge \in Ages(TTL)
        BY <1>1 DEF Runner, OperationStates
      <4>2. runner[id].finishedAge # NotFinished
        BY <4>1 DEF Ages, NotFinished
      <4>. QED
        BY <1>1, <3>1, <4>1, <4>2 DEF Operation
    <3>3. ~Active(id)'
      BY <3>2 DEF Active, isRestartTerminalState
    <3>4. /\ \A j \in OpIds \ {id} : runner'[j] = runner[j]
          /\ runner'[id].pc = "none" /\ runner'[id].finishedAge = 0
      BY <2>2 DEF UpdateFinished, NoRunner, IInv, TypeOK
    <3>. QED
      BY <1>2, <3>2, <3>3, <3>4, StoreAssumption DEF ResultAge
  <2>. QED
    BY <2>1, <2>2
<1>4. ASSUME NEW j \in OpIds
      PROVE  /\ Present(j)' <=> Present(j)
             /\ Present(j) => operations'[j].app = operations[j].app
             /\ ResultAge(j)' = ResultAge(j)
  <2>1. CASE j = id
    BY <1>2, <1>3, <2>1 DEF Present
  <2>2. CASE j # id
    BY <1>1, <1>3, <2>2 DEF Present, ResultAge, Active
  <2>. QED
    BY <2>1, <2>2
<1>5. AgeRecorded'
  <2>. SUFFICES ASSUME NEW j \in OpIds
                PROVE  /\ Present(j)' => (operations'[j].finishedAge = NotFinished <=> Active(j)')
                       /\ runner'[j].pc # "update_finished" => runner'[j].finishedAge = 0
    BY DEF AgeRecorded
  <2>1. CASE j = id
    BY <1>3, <2>1
  <2>2. CASE j # id
    BY <1>1, <1>3, <2>2 DEF AgeInv, AgeRecorded, Active, Present
  <2>. QED
    BY <2>1, <2>2
<1>6. NoHiddenOperation' /\ LatestFinishesLast'
  BY <1>1, <1>4, LatestIsKept, StoreAssumption DEF NoHiddenOperation, LatestFinishesLast
<1>. QED
  BY <1>5, <1>6 DEF AgeInv

(***************************************************************************)
(* Time makes all results older alike, up to the limit.                    *)
(***************************************************************************)
LEMMA OlderIsMonotonic ==
    ASSUME NEW x \in Ages(TTL), NEW y \in Ages(TTL), x <= y
    PROVE  Older(x, TTL) <= Older(y, TTL)
  BY StoreAssumption DEF Ages, Older

LEMMA TickAges ==
    ASSUME IInv, AgeInv, Tick, NEW id \in OpIds, Present(id)
    PROVE  \/ ResultAge(id)' = Older(ResultAge(id), TTL)
           \/ Active(id) /\ ResultAge(id)' = ResultAge(id)
<1>1. /\ operations[id] \in Operation /\ runner[id] \in Runner
      /\ Active(id)' <=> Active(id)
  BY TickKeeps DEF IInv, TypeOK, Present, Active
<1>2. CASE Active(id)
  <2>1. /\ ResultAge(id) = runner[id].finishedAge
        /\ ResultAge(id)' = runner'[id].finishedAge
    BY <1>1, <1>2 DEF ResultAge
  <2>2. CASE runner[id].pc = "update_finished"
    <3>1. runner'[id] = [runner[id] EXCEPT
                           !.finishedAge = Older(runner[id].finishedAge, TTL)]
      BY <2>2 DEF Tick, Waiting
    <3>. QED
      BY <1>1, <2>1, <3>1 DEF Runner
  <2>3. ASSUME runner[id].pc # "update_finished"
        PROVE  runner'[id].finishedAge = runner[id].finishedAge
    <3>1. CASE runner[id].pc \in Waiting
      <4>1. runner'[id] = [runner[id] EXCEPT
                             !.waited = Older(runner[id].waited, VerifyTimeout)]
        BY <3>1 DEF Tick, Waiting
      <4>. QED
        BY <1>1, <4>1 DEF Runner
    <3>2. CASE runner[id].pc \notin Waiting
      BY <2>3, <3>2 DEF Tick
    <3>. QED
      BY <3>1, <3>2
  <2>. QED
    BY <1>2, <2>1, <2>2, <2>3
<1>3. CASE ~Active(id)
  <2>1. operations[id].finishedAge # NotFinished
    BY <1>3 DEF AgeInv, AgeRecorded
  <2>2. operations'[id] = [operations[id] EXCEPT
                             !.finishedAge = Older(operations[id].finishedAge, TTL)]
    BY <2>1 DEF Tick
  <2>3. operations'[id].finishedAge = Older(operations[id].finishedAge, TTL)
    BY <1>1, <2>2 DEF Operation
  <2>4. /\ ResultAge(id) = operations[id].finishedAge
        /\ ResultAge(id)' = operations'[id].finishedAge
    BY <1>1, <1>3 DEF ResultAge
  <2>. QED
    BY <2>3, <2>4
<1>. QED
  BY <1>2, <1>3

LEMMA AgesOfTick == ASSUME IInv, AgeInv, Tick PROVE AgeInv'
<1>1. ASSUME NEW id \in OpIds
      PROVE  /\ Present(id)' <=> Present(id)
             /\ Active(id)' <=> Active(id)
             /\ Present(id) => operations'[id].app = operations[id].app
             /\ runner'[id].pc = runner[id].pc
  BY TickKeeps DEF IInv, Active
<1>2. latestByApp' = latestByApp
  BY DEF Tick
<1>3. AgeRecorded'
  <2>. SUFFICES ASSUME NEW id \in OpIds
                PROVE  /\ Present(id)' => (operations'[id].finishedAge = NotFinished <=> Active(id)')
                       /\ runner'[id].pc # "update_finished" => runner'[id].finishedAge = 0
    BY DEF AgeRecorded
  <2>1. Present(id) => (operations'[id].finishedAge = NotFinished <=> Active(id))
    <3>. SUFFICES ASSUME Present(id)
                  PROVE  operations'[id].finishedAge = NotFinished <=> Active(id)
      OBVIOUS
    <3>1. operations[id].finishedAge = NotFinished <=> Active(id)
      BY DEF AgeInv, AgeRecorded
    <3>2. operations[id] \in Operation
      BY DEF IInv, TypeOK, Present
    <3>3. CASE Active(id)
      BY <3>1, <3>3 DEF Tick
    <3>4. CASE ~Active(id)
      <4>1. operations[id].finishedAge \in Ages(TTL)
        BY <3>1, <3>2, <3>4 DEF Operation
      <4>2. Older(operations[id].finishedAge, TTL) # NotFinished
        BY <4>1, OlderTyped, StoreAssumption
      <4>3. operations'[id] = [operations[id] EXCEPT
                                 !.finishedAge = Older(operations[id].finishedAge, TTL)]
        BY <3>1, <3>4 DEF Tick
      <4>4. operations'[id].finishedAge = Older(operations[id].finishedAge, TTL)
        BY <3>2, <4>3 DEF Operation
      <4>. QED
        BY <3>4, <4>2, <4>4
    <3>. QED
      BY <3>3, <3>4
  <2>2. runner[id].pc # "update_finished" => runner'[id].finishedAge = 0
    BY DEF Tick, IInv, TypeOK, Runner, AgeInv, AgeRecorded
  <2>. QED
    BY <1>1, <2>1, <2>2
<1>4. NoHiddenOperation'
  BY <1>1, <1>2, LatestIsKept, StoreAssumption DEF NoHiddenOperation
<1>5. LatestFinishesLast'
  <2>. SUFFICES ASSUME NEW id \in OpIds, Present(id)'
                PROVE  (ResultAge(latestByApp[operations[id].app]) <= ResultAge(id))'
    BY DEF LatestFinishesLast
  <2>1. Present(id)
    BY <1>1
  <2>2. PICK L \in OpIds : L = latestByApp[operations[id].app]
    BY <2>1, LatestIsKept
  <2>3. /\ Present(L) /\ ResultAge(L) <= ResultAge(id)
        /\ latestByApp'[operations'[id].app] = L
    BY <1>1, <1>2, <2>1, <2>2, LatestIsKept
  <2>4. ResultAge(L) \in Ages(TTL) /\ ResultAge(id) \in Ages(TTL)
    BY <2>1, <2>3, ResultAges
  <2>5. CASE L = id
    <3>1. ResultAge(id)' \in Ages(TTL)
      BY <2>1, <2>4, TickAges, OlderTyped, StoreAssumption
    <3>. QED
      BY <2>3, <2>5, <3>1, StoreAssumption DEF Ages
  <2>6. CASE L # id
    <3>1. ~Active(id)
      BY <2>2, <2>6 DEF IInv, ActiveIsLatest
    <3>2. ResultAge(id)' = Older(ResultAge(id), TTL)
      BY <2>1, <3>1, TickAges
    <3>3. ResultAge(L)' \in {ResultAge(L), Older(ResultAge(L), TTL)}
      BY <2>3, TickAges
    <3>4. ResultAge(L) <= Older(ResultAge(L), TTL)
      BY <2>4, StoreAssumption DEF Ages, Older
    <3>5. Older(ResultAge(L), TTL) <= Older(ResultAge(id), TTL)
      BY <2>3, <2>4, OlderIsMonotonic
    <3>6. /\ Older(ResultAge(L), TTL) \in Ages(TTL)
          /\ Older(ResultAge(id), TTL) \in Ages(TTL)
      BY <2>4, OlderTyped, StoreAssumption
    <3>7. ResultAge(L)' <= ResultAge(id)'
      BY <2>4, <3>2, <3>3, <3>4, <3>5, <3>6, StoreAssumption DEF Ages
    <3>. QED
      BY <2>3, <3>7
  <2>. QED
    BY <2>5, <2>6
<1>. QED
  BY <1>3, <1>4, <1>5 DEF AgeInv

LEMMA AgesOfRunner ==
    ASSUME IInv, AgeInv, NEW id \in OpIds, RunnerStep(id)
    PROVE  AgeInv'
<1>1. CASE UpdateRunning(id) \/ UpdateVerifying(id) \/ UpdateFinished(id)
  BY <1>1, AgesOfUpdate
<1>2. CASE Load(id)
  <2>1. /\ operations' = CleanOperations /\ latestByApp' = CleanLatest
        /\ runner[id].pc = "load"
    BY <1>2 DEF Load, GoTo
  <2>2. Active(id)
    BY <2>1 DEF IInv, ActiveHasRunner
  <2>3. CleanOperations[id] # NoOperation
    BY <2>2, CleanKeepsActive DEF Active, Present
  <2>4. GoTo(id, "load", "command")
    BY <1>2, <2>3 DEF Load
  <2>5. QuietAges
    BY <2>4 DEF GoTo, QuietAges, AgeInv, AgeRecorded, IInv, TypeOK, Runner
  <2>. QED
    BY <2>1, <2>5, AgesOfClean
<1>3. CASE \/ CommandFails(id) \/ StatusVerified(id) \/ AppGone(id)
           \/ DeadlinePassed(id)
  <2>1. /\ operations' = operations /\ latestByApp' = latestByApp
        /\ runner[id].pc # "update_finished"
        /\ \E outcome : SettleAs(id, outcome)
    BY <1>3 DEF CommandFails, StatusVerified, AppGone, DeadlinePassed, store
  <2>2. QuietAges
    BY <2>1 DEF SettleAs, QuietAges, AgeInv, AgeRecorded, IInv, TypeOK, Runner
  <2>. QED
    BY <2>1, <2>2, AgesOfStore
<1>4. CASE \/ CommandSucceeds(id) \/ SetDeadline(id) \/ StatusNotVerified(id)
           \/ StatusFails(id) \/ AppNotKnownGone(id) \/ BeforeDeadline(id)
           \/ WakeUp(id) \/ SampleFinishedAt(id)
  <2>1. /\ operations' = operations /\ latestByApp' = latestByApp
        /\ runner[id].pc # "update_finished"
        /\ \E to : runner' = [runner EXCEPT ![id].pc = to]
    BY <1>4 DEF CommandSucceeds, SetDeadline, StatusNotVerified, StatusFails,
       AppNotKnownGone, BeforeDeadline, WakeUp, SampleFinishedAt, GoTo, store
  <2>2. QuietAges
    BY <2>1 DEF QuietAges, AgeInv, AgeRecorded, IInv, TypeOK, Runner
  <2>. QED
    BY <2>1, <2>2, AgesOfStore
<1>. QED
  BY <1>1, <1>2, <1>3, <1>4 DEF RunnerStep

LEMMA StepAges == IInv /\ AgeInv /\ [Next]_vars => AgeInv'
<1>. SUFFICES ASSUME IInv, AgeInv, [Next]_vars PROVE AgeInv'
  OBVIOUS
<1>1. ASSUME UNCHANGED runner PROVE QuietAges
  BY <1>1 DEF QuietAges, AgeInv, AgeRecorded
<1>2. ASSUME NEW a \in Apps, Handler(a) \/ AppChanges(a)
      PROVE  AgeInv'
  <2>1. CASE \E action \in Actions, target \in Targets : StartNew(a, action, target)
    BY <2>1, AgesOfStart
  <2>2. CASE StartReused(a) \/ GetLatest(a)
    <3>1. operations' = CleanOperations /\ UNCHANGED runner
      BY <2>2 DEF StartReused, GetLatest
    <3>2. \A b \in Apps : \/ latestByApp'[b] = CleanLatest[b]
                          \/ Dangling(b) /\ latestByApp'[b] = NoId
      BY <2>2, CleanTyped DEF StartReused, GetLatest, ResolvedLatest, IInv
    <3>. QED
      BY <1>1, <3>1, <3>2, AgesOfClean
  <2>3. CASE \/ AppChanges(a)
             \/ \E action \in Actions, target \in Targets :
                   UntrackedCommand(a, action, target)
    <3>1. operations' = operations /\ latestByApp' = latestByApp /\ UNCHANGED runner
      BY <2>3 DEF AppChanges, UntrackedCommand, store
    <3>. QED
      BY <1>1, <3>1, AgesOfStore
  <2>. QED
    BY <1>2, <2>1, <2>2, <2>3 DEF Handler
<1>3. CASE GetById
  BY <1>1, <1>3, AgesOfClean DEF GetById
<1>4. ASSUME NEW id \in OpIds, RunnerStep(id)
      PROVE  AgeInv'
  BY <1>4, AgesOfRunner
<1>5. CASE Tick
  BY <1>5, AgesOfTick
<1>6. CASE ServerRestart
  BY <1>6 DEF ServerRestart, AgeInv, AgeRecorded, NoHiddenOperation,
     LatestFinishesLast, Present, NoRunner
<1>7. CASE UNCHANGED vars
  BY <1>1, <1>7, AgesOfStore DEF vars
<1>. QED
  BY <1>2, <1>3, <1>4, <1>5, <1>6, <1>7 DEF Next

(***************************************************************************)
(* While an operation of an app is kept, the status request without a      *)
(* task_id finds one, for any number of operations and any TTL: the latest *)
(* operation of an app is the last one to finish and the last to expire.   *)
(***************************************************************************)
THEOREM NothingIsHidden == Spec => [](AgeInv /\ NoHiddenOperation)
<1>1. Init => AgeInv
  BY DEF Init, AgeInv, AgeRecorded, NoHiddenOperation, LatestFinishesLast,
     Present, NoRunner
<1>2. AgeInv => NoHiddenOperation
  BY DEF AgeInv
<1>. QED
  BY <1>1, <1>2, Invariance, StepAges, PTL DEF Spec
=============================================================================
