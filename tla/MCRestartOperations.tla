------------------------ MODULE MCRestartOperations ------------------------
(***************************************************************************)
(* RestartOperations for TLC.  A behaviour is one of a server that has one *)
(* app that is used in every way, or one of a server that has two, whose   *)
(* actions stop all processes.  The limits restrict the requests that come *)
(* in and how an app changes by itself, never a step of a goroutine or of  *)
(* the clock, so what is fair in RestartOperations is fair here.           *)
(***************************************************************************)
EXTENDS RestartOperations

CONSTANTS MainApp

VARIABLE pair    \* both apps are used

OneApp ==
    /\ \A id \in OpIds : Present(id) => operations[id].app = MainApp
    /\ \A a \in Apps \ {MainApp} : appState[a] = DeployedApp(ProcessTypes)

StopsOnly ==
    /\ \A id \in OpIds : Present(id) => operations[id].action = "stop"
                                        /\ operations[id].process = AllProcesses
    /\ \A a \in Apps : appState[a].up \in {{}, ProcessTypes}

MCInit == Init /\ pair \in BOOLEAN

MCNext ==
    /\ Next
    /\ IF pair THEN StopsOnly' ELSE OneApp'
    /\ UNCHANGED pair

MCSpec == MCInit /\ [][MCNext]_<<vars, pair>> /\ Fairness
=============================================================================
