------------------------- MODULE AppActionLifecycle -------------------------
(***************************************************************************)
(* What the tracked-action store promises to whoever asks it about an app. *)
(* An app has one slot.  The slot is free, or it holds the one action that *)
(* was started last, which lives through                                   *)
(*                                                                         *)
(*   pending -> restarting/stopping/rebuilding -> verifying -> succeeded   *)
(*                                 \-> failed         \-> failed           *)
(*                                                                         *)
(* A new action takes the slot only when the one before it has settled,    *)
(* nothing changes what an action is while it is in the slot, and only a   *)
(* settled action is forgotten.  There are no identifiers, no pointers, no *)
(* clock and no goroutines here: RestartOperations has those and is shown  *)
(* to implement this module.                                               *)
(***************************************************************************)
CONSTANTS
    Apps,        \* application names
    Actions,     \* the tracked actions, among restart, stop and rebuild
    Targets,     \* process types an action can be limited to, and "all"
    FreeSlot     \* the content of a slot that holds no action

RunningState(action) == CASE action = "stop"    -> "stopping"
                          [] action = "rebuild" -> "rebuilding"
                          [] OTHER              -> "restarting"

Terminal == {"succeeded", "failed"}

States == {"pending", "restarting", "stopping", "rebuilding", "verifying"}
             \cup Terminal

Content == {FreeSlot} \cup
    [action : Actions, process : Targets, state : States]

(***************************************************************************)
(* The states an action may move to from the state it is in.               *)
(***************************************************************************)
Successors(action, state) ==
    CASE state = "pending"            -> {RunningState(action)}
      [] state = RunningState(action) -> {"verifying", "failed"}
      [] state = "verifying"          -> {"succeeded", "failed"}
      [] OTHER                        -> {}

VARIABLE slot    \* what each app's slot holds

Free(s) == s = FreeSlot

Settled(s) == ~Free(s) /\ s.state \in Terminal

(***************************************************************************)
(* What one step may do to one slot, given its content before and after.   *)
(***************************************************************************)
Begin(before, after) ==
    /\ Free(before) \/ Settled(before)
    /\ \E action \in Actions, target \in Targets :
          after = [action |-> action, process |-> target, state |-> "pending"]

Advance(before, after) ==
    /\ ~Free(before)
    /\ \E state \in Successors(before.action, before.state) :
          after = [before EXCEPT !.state = state]

Forget(before, after) == Settled(before) /\ Free(after)

Stay(before, after) == after = before

(***************************************************************************)
(* One step of the store forgets the expired actions of every app at once  *)
(* and may move one more app, so a step is a move or no move of each slot. *)
(***************************************************************************)
Move ==
    /\ slot' \in [Apps -> Content]
    /\ \A a \in Apps :
          \/ Begin(slot[a], slot'[a])
          \/ Advance(slot[a], slot'[a])
          \/ Forget(slot[a], slot'[a])
          \/ Stay(slot[a], slot'[a])

(***************************************************************************)
(* The store is in memory: a restart of the server empties every slot.     *)
(***************************************************************************)
Restart == slot' = [a \in Apps |-> FreeSlot]

Init == slot = [a \in Apps |-> FreeSlot]

Next == Move \/ Restart

Spec == Init /\ [][Next]_slot
=============================================================================
