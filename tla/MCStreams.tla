----------------------------- MODULE MCStreams -----------------------------
(***************************************************************************)
(* The goroutines that work beside a request: the check for a newer        *)
(* release (UpdateCheck) and the loops of a stream (Streams).  A behaviour *)
(* is that of one of the two, the other stands still.  MCServicePages runs *)
(* it.                                                                     *)
(***************************************************************************)
EXTENDS UpdateCheck, Sequences

CONSTANTS Messages, MaxTyped

Keys == UNION {{message[i] : i \in DOMAIN message} : message \in Messages}

ASSUME MessagesAssumption == Messages \subseteq Seq(Keys)

VARIABLES handler, main, helper, process, output, browser, told,
          inbox, typed, held, buffer, handed, unlogged, logFailed, received,
          streams    \* this is a behaviour of a stream

Socket == INSTANCE Streams

streamVars == <<handler, main, helper, process, output, browser, told,
                inbox, typed, held, buffer, handed, unlogged, logFailed, received>>

\* The stream that stands still is one that has ended.
GoroutinesInit ==
    /\ UpdateInit
    /\ streams \in BOOLEAN
    /\ IF streams THEN Socket!Init
       ELSE /\ handler = Socket!AppLogs
            /\ main = "ended" /\ helper = "none" /\ process = "none"
            /\ output = FALSE /\ browser = "there" /\ told = FALSE
            /\ inbox = <<>> /\ typed = 0
            /\ held = <<>> /\ buffer = <<>> /\ handed = <<>> /\ received = <<>>
            /\ unlogged = {} /\ logFailed = FALSE

GoroutinesNext ==
    \/ ~streams /\ UpdateNext /\ UNCHANGED <<streamVars, streams>>
    \/ streams /\ Socket!Next /\ UNCHANGED <<updateVars, streams>>

\* Nothing of the other part's fairness is enabled while it stands still.
GoroutinesSpec ==
    /\ GoroutinesInit /\ [][GoroutinesNext]_<<updateVars, streamVars, streams>>
    /\ UpdateFairness /\ Socket!Fairness

MCMessages == {<<"quote", "enter">>, <<"erase">>, <<"enter", "raw">>, <<"control">>}

CommandsAreHandedOn == Socket!CommandsAreHandedOn
LeftStreamsEnd == Socket!LeftStreamsEnd
DeadStreamsAreTold == Socket!DeadStreamsAreTold
=============================================================================
