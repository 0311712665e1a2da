SPECIFICATION MCSpec
CONSTANTS
  Apps = {a1, a2}
  OpIds = {o1, o2}
  Actions = {"restart", "stop"}
  ProcessTypes = {web, worker}
  AllProcesses = all
  NoOperation = NoOperation
  NoId = NoId
  TTL = 1
  VerifyTimeout = 1
  MainApp = a1
INVARIANTS OneActivePerApp NoHiddenOperation
PROPERTIES OutcomeIsFinal ImplementsLifecycle ActionsSettle
