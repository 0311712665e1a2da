---------------------------- MODULE UpdateCheck -----------------------------
(***************************************************************************)
(* The cached answer to "is there a newer release".  A page request shows  *)
(* what is cached and, when that is older than updateCheckTTL, starts a    *)
(* goroutine that asks GitHub and stores the answer.  The clock is read    *)
(* outside the mutex, both by the request and by the goroutine, so either  *)
(* may act on an instant that has passed.                                  *)
(***************************************************************************)
EXTENDS Naturals

CONSTANTS
    Pages,      \* page requests at the same time
    TTL,        \* updateCheckTTL, in ticks
    MaxTime     \* the bound of the clock

ASSUME ClockAssumption == TTL \in Nat /\ MaxTime \in Nat

(***************************************************************************)
(* What a check answers: a newer release, none, or an error.               *)
(***************************************************************************)
Answers == {"newer", "current", "error"}

CheckPCs == {"none", "check", "sample", "store"}

VARIABLES
    answer,        \* info and err of updateState, "none" before the first check
    checkedAt,     \* the time stored with it
    refreshing,    \* is a check under way, as the mutex tells
    clock,         \* the time
    page,          \* [Pages -> "idle" or the instant refreshUpdateInfoAsync read]
    check,         \* [Pages -> CheckPCs], the goroutine a request started
    result,        \* [Pages -> Answers], what it was answered
    doneAt         \* [Pages -> the instant it read after that]

cache == <<answer, checkedAt, refreshing>>
updateVars == <<answer, checkedAt, refreshing, clock, page, check, result, doneAt>>

Idle == MaxTime + 1    \* a page that has not read the clock

UpdateInit ==
    /\ answer = "none"
    /\ checkedAt = 0
    /\ refreshing = FALSE
    /\ clock = 0
    /\ page = [p \in Pages |-> Idle]
    /\ check = [p \in Pages |-> "none"]
    /\ result = [p \in Pages |-> "error"]
    /\ doneAt = [p \in Pages |-> 0]

-----------------------------------------------------------------------------
(***************************************************************************)
(* A request for a page; other requests do not get here.                   *)
(***************************************************************************)
ReadClock(p) ==
    /\ page[p] = Idle
    /\ check[p] = "none"
    /\ page' = [page EXCEPT ![p] = clock]
    /\ UNCHANGED <<cache, clock, check, result, doneAt>>

Mutant_ErrorsNotCached(at) ==
    ~refreshing /\ (answer \in {"none", "error"} \/ at >= checkedAt + TTL)

Mutant_NoSingleFlight(at) == answer = "none" \/ at >= checkedAt + TTL

(***************************************************************************)
(* at - checkedAt < TTL, where at may be the earlier one of the two.       *)
(***************************************************************************)
Due(at) == ~refreshing /\ (answer = "none" \/ at >= checkedAt + TTL)

StartCheck(p) ==
    /\ page[p] # Idle
    /\ Due(page[p])
    /\ refreshing' = TRUE
    /\ page' = [page EXCEPT ![p] = Idle]
    /\ check' = [check EXCEPT ![p] = "check"]
    /\ UNCHANGED <<answer, checkedAt, clock, result, doneAt>>

NotDue(p) ==
    /\ page[p] # Idle
    /\ ~Due(page[p])
    /\ page' = [page EXCEPT ![p] = Idle]
    /\ UNCHANGED <<cache, clock, check, result, doneAt>>

-----------------------------------------------------------------------------
(***************************************************************************)
(* The goroutine: updateCheckFunc returns, the clock is read, the answer   *)
(* is stored, an error like any other answer.                              *)
(***************************************************************************)
Mutant_ErrorReturnsEarly(p) ==
    /\ check[p] = "check"
    /\ \E a \in Answers :
          /\ result' = [result EXCEPT ![p] = IF a = "error" THEN @ ELSE a]
          /\ check' = [check EXCEPT ![p] = IF a = "error" THEN "none" ELSE "sample"]
    /\ UNCHANGED <<cache, clock, page, doneAt>>

CheckReturns(p) ==
    /\ check[p] = "check"
    /\ check' = [check EXCEPT ![p] = "sample"]
    /\ \E a \in Answers : result' = [result EXCEPT ![p] = a]
    /\ UNCHANGED <<cache, clock, page, doneAt>>

SampleCheckedAt(p) ==
    /\ check[p] = "sample"
    /\ check' = [check EXCEPT ![p] = "store"]
    /\ doneAt' = [doneAt EXCEPT ![p] = clock]
    /\ UNCHANGED <<cache, clock, page, result>>

Store(p) ==
    /\ check[p] = "store"
    /\ check' = [check EXCEPT ![p] = "none"]
    /\ answer' = result[p]
    /\ checkedAt' = doneAt[p]
    /\ refreshing' = FALSE
    /\ result' = [result EXCEPT ![p] = "error"]
    /\ doneAt' = [doneAt EXCEPT ![p] = 0]
    /\ UNCHANGED <<clock, page>>

CheckStep(p) == CheckReturns(p) \/ SampleCheckedAt(p) \/ Store(p)

Tick ==
    /\ clock < MaxTime
    /\ clock' = clock + 1
    /\ UNCHANGED <<cache, page, check, result, doneAt>>

UpdateNext ==
    \/ \E p \in Pages : ReadClock(p) \/ StartCheck(p) \/ NotDue(p) \/ CheckStep(p)
    \/ Tick

(***************************************************************************)
(* A check returns: its HTTP client has a timeout.                         *)
(***************************************************************************)
UpdateFairness == \A p \in Pages : WF_updateVars(CheckStep(p))

UpdateSpec == UpdateInit /\ [][UpdateNext]_updateVars

UpdateFairSpec == UpdateSpec /\ UpdateFairness

-----------------------------------------------------------------------------
Times == 0 .. MaxTime

UpdateTypeOK ==
    /\ answer \in Answers \cup {"none"}
    /\ checkedAt \in Times
    /\ refreshing \in BOOLEAN
    /\ clock \in Times
    /\ page \in [Pages -> Times \cup {Idle}]
    /\ check \in [Pages -> CheckPCs]
    /\ result \in [Pages -> Answers]
    /\ doneAt \in [Pages -> Times]

(***************************************************************************)
(* GitHub is asked by one goroutine at a time, and refreshing is set       *)
(* exactly as long as there is one.                                        *)
(***************************************************************************)
OneCheck ==
    /\ \A p, q \in Pages : check[p] # "none" /\ check[q] # "none" => p = q
    /\ refreshing <=> \E p \in Pages : check[p] # "none"

UpdateInv == UpdateTypeOK /\ OneCheck

(***************************************************************************)
(* After a check, GitHub is left alone for the whole TTL, also by requests *)
(* that read the clock before that check and reached the mutex after it.   *)
(***************************************************************************)
ChecksAreSpaced ==
    [][\A p \in Pages :
          check[p] = "none" /\ check'[p] # "none" /\ answer # "none"
             => clock >= checkedAt + TTL]_updateVars

(***************************************************************************)
(* The cached answer is never replaced by an older one: a goroutine reads  *)
(* the clock before it takes the mutex, and no other one overtakes it.     *)
(***************************************************************************)
CacheIsMonotonic == [][checkedAt' >= checkedAt]_updateVars

(***************************************************************************)
(* A check that is under way ends, with an answer or an error, so that     *)
(* later pages can ask again.                                              *)
(***************************************************************************)
RefreshEnds == refreshing ~> ~refreshing
=============================================================================
