------------------------------ MODULE Streams ------------------------------
(***************************************************************************)
(* One WebSocket of pruvon that shows a command at work: an application's  *)
(* terminal or logs, nginx's logs, a container's terminal or logs, or a    *)
(* service's console (internal/handlers/ws, internal/stream).              *)
(*                                                                         *)
(* A handler starts a command, on a pseudo terminal except for nginx's     *)
(* tail, and copies between it and the browser.  Two loops do the copying: *)
(* the handler itself and, where both directions are needed, a goroutine   *)
(* it starts.  Nothing but the end of the handler ends the other loop, and *)
(* each loop notices only what its own reads and writes tell it.           *)
(*                                                                         *)
(* Handlers of different sockets share nothing this module speaks of, so   *)
(* one socket is the whole system.                                         *)
(***************************************************************************)
EXTENDS Naturals, Sequences, SequencesExt

CONSTANTS Messages,     \* what a browser may send: sequences of keys
          MaxTyped      \* bound: messages one browser sends

VARIABLES handler,      \* the route that was asked for
          main,         \* the handler: "connecting", "starting", "running", "ended"
          helper,       \* its goroutine: "none", "running", "ended"
          process,      \* the command: "none", "running", "exited"
          output,       \* whether the command has printed what is not read yet
          browser,      \* "there"; "left", which no write has noticed yet; "gone"
          told,         \* whether the browser was sent a last message
          inbox,        \* messages sent and not read yet
          typed,        \* how many were sent
          held,         \* what the reading loop has logged and not written yet
          buffer,       \* commandBuffer: the line typed so far
          handed,       \* the commands LogActivity was called with, in their order
          unlogged,     \* the places of those the activity log does not hold as typed
          logFailed,    \* whether the log's file could not be opened or written once
          received      \* what the command has been given to read

ends == <<main, helper, process>>
talk == <<inbox, typed>>
line == <<held, buffer, handed, unlogged, logFailed, received>>
vars == <<handler, ends, output, browser, told, talk, line>>

(***************************************************************************)
(* The handlers.  output: the loop that copies to the browser; input: the  *)
(* loop that reads from it, and whether what it reads is typed into the    *)
(* command; erases: whether a backspace takes a character off the line     *)
(* that will be logged; escapes: whether the line's quotes get a backslash *)
(* for the JSON of the log; controls: whether control messages are known;  *)
(* pty: whether the command hangs up when the handler closes its end;      *)
(* farewell: whether the browser is told that the command has ended.       *)
(***************************************************************************)
AppTerminal ==
    [output |-> "main", input |-> "helper", types |-> TRUE, controls |-> TRUE,
     erases |-> TRUE, escapes |-> TRUE, pty |-> TRUE, farewell |-> FALSE]
ContainerTerminal == [AppTerminal EXCEPT !.farewell = TRUE]
ServiceConsole == [AppTerminal EXCEPT !.controls = FALSE, !.erases = FALSE, !.escapes = FALSE]
ContainerLogs ==
    [output |-> "helper", input |-> "main", types |-> FALSE, controls |-> FALSE,
     erases |-> FALSE, escapes |-> FALSE, pty |-> TRUE, farewell |-> TRUE]
AppLogs ==
    [output |-> "main", input |-> "nobody", types |-> FALSE, controls |-> FALSE,
     erases |-> FALSE, escapes |-> FALSE, pty |-> TRUE, farewell |-> FALSE]
NginxLogs == [AppLogs EXCEPT !.pty = FALSE]

Handlers == {AppTerminal, ContainerTerminal, ServiceConsole,
             ContainerLogs, AppLogs, NginxLogs}

Init == /\ handler \in Handlers
        /\ main = "connecting" /\ helper = "none" /\ process = "none"
        /\ output = FALSE /\ browser = "there" /\ told = FALSE
        /\ inbox = <<>> /\ typed = 0
        /\ held = <<>> /\ buffer = <<>> /\ handed = <<>> /\ received = <<>>
        /\ unlogged = {} /\ logFailed = FALSE
-----------------------------------------------------------------------------
(***************************************************************************)
(* The edit of a line.  A line that ends is taken if it is not empty, and  *)
(* only then is the buffer reset.                                          *)
(***************************************************************************)
Edit(state, key, erases) ==
    IF key = "enter"
    THEN [line |-> <<>>,
          lines |-> IF state.line = <<>> THEN state.lines
                                         ELSE Append(state.lines, state.line)]
    ELSE IF key = "erase" /\ erases
    THEN [state EXCEPT !.line = IF @ = <<>> THEN @ ELSE Front(@)]
    ELSE [state EXCEPT !.line = Append(@, key)]

\* A buffer of each message's own.
Mutant_BufferPerMessage(state, keys, erases) ==
    LET edited[n \in 0 .. Len(keys)] ==
            IF n = 0 THEN [state EXCEPT !.line = <<>>]
                     ELSE Edit(edited[n - 1], keys[n], erases)
    IN  edited[Len(keys)]

EditAll(state, keys, erases) ==
    LET edited[n \in 0 .. Len(keys)] ==
            IF n = 0 THEN state ELSE Edit(edited[n - 1], keys[n], erases)
    IN  edited[Len(keys)]

(***************************************************************************)
(* The socket is opened by handleWsAuth if the session is a user's, and    *)
(* then its handler starts the command.                                    *)
(***************************************************************************)
handleWsAuth ==
    /\ main = "connecting"
    /\ main' \in {"starting", "ended"}
    /\ UNCHANGED <<handler, helper, process, output, browser, told, talk, line>>

StartPTY ==
    /\ main = "starting"
    /\ main' = "running"
    /\ helper' = IF "helper" \in {handler.output, handler.input} THEN "running" ELSE "none"
    /\ process' = "running"
    /\ UNCHANGED <<handler, output, browser, told, talk, line>>

\* The command cannot be started, or the route names a service or a log there is
\* none of (a log: without a word).
StartFails ==
    /\ main = "starting"
    /\ main' = "ended"
    /\ told' \in (IF handler.pty THEN {TRUE} ELSE BOOLEAN)
    /\ UNCHANGED <<handler, helper, process, output, browser, talk, line>>

\* tail is neither killed nor waited for.
Mutant_NginxIsLeft == main' = "ended" /\ UNCHANGED <<helper, process>>

\* What a handler does when its loop is over: a pseudo terminal is closed, tail is
\* killed and waited for.
EndHandler ==
    /\ main' = "ended"
    /\ process' = IF handler.pty THEN process ELSE "exited"
    /\ UNCHANGED helper

End(loop) == IF loop = "main" THEN EndHandler
             ELSE helper' = "ended" /\ UNCHANGED <<main, process>>

Runs(loop) == \/ loop = "main" /\ main = "running"
              \/ loop = "helper" /\ helper = "running"
-----------------------------------------------------------------------------
(***************************************************************************)
(* From the command to the browser.                                        *)
(***************************************************************************)
\* A chunk that the socket takes; the first one sent to a browser that has left
\* is taken as well.
CopyOutput ==
    /\ Runs(handler.output) /\ main = "running"
    /\ output
    /\ browser # "gone"
    /\ output' = FALSE
    /\ browser' = IF browser = "left" THEN "gone" ELSE browser
    /\ UNCHANGED <<handler, ends, told, talk, line>>

WriteFails ==
    /\ Runs(handler.output) /\ main = "running"
    /\ output
    /\ browser = "gone"
    /\ output' = FALSE
    /\ End(handler.output)
    /\ UNCHANGED <<handler, browser, told, talk, line>>

\* The read fails and nobody says so.
Mutant_SilentEnd ==
    /\ Runs(handler.output)
    /\ \/ ~output /\ process = "exited"
       \/ main = "ended"
    /\ End(handler.output)
    /\ UNCHANGED <<handler, output, browser, told, talk, line>>

\* The read fails: the command has exited and all it printed is read, or the
\* handler has closed the terminal.
OutputEnds ==
    /\ Runs(handler.output)
    /\ \/ ~output /\ process = "exited"
       \/ main = "ended"
    /\ told' = (told \/ (handler.farewell /\ browser = "there" /\ main = "running"))
    /\ End(handler.output)
    /\ UNCHANGED <<handler, output, browser, talk, line>>
-----------------------------------------------------------------------------
(***************************************************************************)
(* From the browser to the command.                                        *)
(***************************************************************************)
\* A control message is one key; the console takes it for typed text.
IsTyped(msg) == handler.types /\ ~(handler.controls /\ msg = <<"control">>)

\* LogActivity writes a line of JSON, whose parameters the handler has put together
\* by hand.  A quote that has no backslash before it, and a "raw" character (a
\* control byte, or a backslash before one that JSON gives no meaning to) make it
\* JSON no longer, or JSON that says something else.
IsRecordable(command) ==
    /\ "raw" \notin Range(command)
    /\ handler.escapes \/ "quote" \notin Range(command)

\* The calls of LogActivity for the commands at some places of lines.  The file may
\* fail any of them; the handler passes over every error.
LogActivity(lines, places) ==
    /\ \E failed \in SUBSET places:
          /\ unlogged' = unlogged \cup failed \cup {i \in places: ~IsRecordable(lines[i])}
          /\ logFailed' = (logFailed \/ failed # {})
    /\ handed' = lines

\* Each character is looked at, and each line that it ends is logged, before the
\* message goes to the command.
ReadMessage ==
    /\ Runs(handler.input)
    /\ held = <<>>
    /\ inbox # <<>>
    /\ inbox' = Tail(inbox)
    /\ IF IsTyped(Head(inbox))
       THEN LET keys == Head(inbox)
                edit == EditAll([line |-> buffer, lines |-> handed], keys, handler.erases)
            IN /\ held' = keys
               /\ buffer' = edit.line
               /\ LogActivity(edit.lines, Len(handed) + 1 .. Len(edit.lines))
       ELSE UNCHANGED <<held, buffer, handed, unlogged, logFailed>>
    /\ UNCHANGED <<handler, ends, output, browser, told, typed, received>>

\* A write to a terminal that is closed, or whose command has exited, is lost;
\* its error is ignored.
WriteInput ==
    /\ Runs(handler.input)
    /\ held # <<>>
    /\ held' = <<>>
    /\ received' = IF main = "running" /\ process = "running"
                   THEN received \o held ELSE received
    /\ UNCHANGED <<handler, ends, output, browser, told, talk, buffer, handed, unlogged, logFailed>>

\* The socket is closed, by the browser or at the end of the handler.
ReadFails ==
    /\ Runs(handler.input)
    /\ held = <<>>
    /\ \/ browser # "there" /\ inbox = <<>>
       \/ main = "ended"
    /\ End(handler.input)
    /\ UNCHANGED <<handler, output, browser, told, talk, line>>
-----------------------------------------------------------------------------
(***************************************************************************)
(* The browser and the command, which do what they like.                   *)
(***************************************************************************)
Send(msg) ==
    /\ browser = "there"
    /\ main \in {"starting", "running"}
    /\ typed < MaxTyped
    /\ typed' = typed + 1
    /\ inbox' = Append(inbox, msg)
    /\ UNCHANGED <<handler, ends, output, browser, told, line>>

Leave == /\ browser = "there"
         /\ browser' = "left"
         /\ UNCHANGED <<handler, ends, output, told, talk, line>>

PrintOutput ==
    /\ process = "running" /\ ~output
    /\ output' = TRUE
    /\ UNCHANGED <<handler, ends, browser, told, talk, line>>

Exit == /\ process = "running"
        /\ process' = "exited"
        /\ UNCHANGED <<handler, main, helper, output, browser, told, talk, line>>

\* A command whose terminal was closed is hung up.
HangUp == /\ process = "running" /\ main = "ended" /\ handler.pty
          /\ process' = "exited"
          /\ UNCHANGED <<handler, main, helper, output, browser, told, talk, line>>

Loops == \/ handleWsAuth \/ StartPTY \/ StartFails
         \/ CopyOutput \/ WriteFails \/ OutputEnds
         \/ ReadMessage \/ WriteInput \/ ReadFails

\* The end: the handler and its goroutine are over, and so is the command.
Done == /\ main = "ended" /\ helper # "running" /\ process # "running"
        /\ UNCHANGED vars

Next == \/ Loops
        \/ \E msg \in Messages: Send(msg)
        \/ Leave \/ PrintOutput \/ Exit \/ HangUp
        \/ Done

Spec == Init /\ [][Next]_vars

(***************************************************************************)
(* The loops are scheduled and a closed terminal hangs its command up.     *)
(* Nothing is asked of the browser or of a command at work.                *)
(***************************************************************************)
Fairness ==
    /\ WF_vars(handleWsAuth) /\ WF_vars(StartPTY \/ StartFails)
    /\ WF_vars(CopyOutput \/ WriteFails \/ OutputEnds)
    /\ WF_vars(ReadMessage \/ WriteInput \/ ReadFails)
    /\ WF_vars(HangUp)

FairSpec == Spec /\ Fairness
-----------------------------------------------------------------------------
(***************************************************************************)
(* Properties                                                              *)
(***************************************************************************)
\* What a terminal makes of a key, and of keys: lines that are not empty, and one
\* that is still open.
NoLines == << <<>> >>

TerminalKey(lines, key) ==
    IF key = "enter"
    THEN IF Last(lines) = <<>> THEN lines ELSE Append(lines, <<>>)
    ELSE Append(Front(lines),
                IF key = "erase" THEN SubSeq(Last(lines), 1, Len(Last(lines)) - 1)
                                 ELSE Append(Last(lines), key))

Terminal(lines, keys) ==
    LET after[n \in 0 .. Len(keys)] ==
            IF n = 0 THEN lines ELSE TerminalKey(after[n - 1], keys[n])
    IN  after[Len(keys)]

\* What it makes of the commands handed to the log, in which the console leaves the
\* backspaces, when they are typed again.
Retyped(commands) ==
    LET after[n \in 0 .. Len(commands)] ==
            IF n = 0 THEN NoLines
                     ELSE TerminalKey(Terminal(after[n - 1], commands[n]), "enter")
    IN  after[Len(commands)]

\* The commands a process was given, and those that were handed to the log.
CommandsRun == Front(Terminal(NoLines, received))
CommandsHanded == Front(Retyped(handed))

\* No command runs that was not handed to the activity log before: what was typed
\* and run is there, in its order, however it was cut into messages, corrected with
\* backspaces or mixed with control messages (commandBuffer in handleAppTerminal,
\* handleContainerTerminal and handleServiceConsole).  The log itself may miss a
\* command, which runs all the same: one that makes no JSON or, if its file has
\* failed, any one.
CommandsAreHandedOn ==
    /\ IsPrefix(CommandsRun, CommandsHanded)
    /\ \A i \in unlogged: i \in DOMAIN handed /\ (logFailed \/ ~IsRecordable(handed[i]))

Over == main = "ended" /\ process # "running"

\* When its browser has left, a handler ends, and its command with it, if it
\* reads from the browser itself (handleContainerLogs) or the command keeps
\* printing or exits.  (An idle terminal whose browser has left stays: its
\* handler waits for output and its goroutine, which sees the browser leave,
\* just returns.)
LeftStreamsEnd ==
    /\ []<>(browser # "there" /\ main = "running" /\ (output \/ handler.input = "main"))
           => <>Over
    /\ [](browser # "there" /\ process = "exited" => <>Over)
    /\ [](main = "ended" => <>(Over /\ helper # "running"))

\* A browser does not sit before a command that has exited: the socket is closed,
\* or it has been told (the last message of handleContainerLogs, which goes on
\* reading).
DeadStreamsAreTold ==
    [](main = "running" /\ process = "exited"
         => <>(main = "ended" \/ told \/ browser # "there"))
=============================================================================
