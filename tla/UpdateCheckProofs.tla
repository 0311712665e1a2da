-------------------------- MODULE UpdateCheckProofs -------------------------
(***************************************************************************)
(* What is proved of the goroutines that work beside a request.            *)
(*                                                                         *)
(* The update check: one at a time, for any number of page requests, none  *)
(* within the TTL of the last, and a cache that only moves forward in time.*)
(*                                                                         *)
(* A stream: every command that runs in a terminal is in the activity log. *)
(***************************************************************************)
EXTENDS MCStreams, FiniteSetTheorems, SequenceTheorems, TLAPS

(***************************************************************************)
(* The inductive invariant: nothing the cache, a request or a goroutine    *)
(* remembers lies in the future, and what the running check has read from the clock  *)
(* is not before what is cached.                                           *)
(***************************************************************************)
TimesInv ==
    /\ checkedAt <= clock
    /\ \A p \in Pages : page[p] # Idle => page[p] <= clock
    /\ \A p \in Pages : check[p] = "store" => checkedAt <= doneAt[p] /\ doneAt[p] <= clock

CheckInv == UpdateInv /\ TimesInv

LEMMA InitCheckInv == UpdateInit => CheckInv
<1>. SUFFICES ASSUME UpdateInit PROVE CheckInv
  OBVIOUS
<1>1. UpdateTypeOK
  <2>1. 0 \in Times
    BY ClockAssumption DEF Times
  <2>. QED
    BY <2>1 DEF UpdateInit, UpdateTypeOK, Answers, CheckPCs
<1>2. OneCheck /\ TimesInv
  BY DEF UpdateInit, OneCheck, TimesInv
<1>. QED
  BY <1>1, <1>2 DEF CheckInv, UpdateInv

LEMMA StepCheckInv ==
    ASSUME CheckInv, [UpdateNext]_updateVars
    PROVE  CheckInv' /\ checkedAt' >= checkedAt
<1>. UpdateTypeOK /\ OneCheck /\ TimesInv
  BY DEF CheckInv, UpdateInv
<1>. MaxTime \in Nat /\ TTL \in Nat
  BY ClockAssumption
<1>. USE DEF CheckInv, UpdateInv, UpdateTypeOK, OneCheck, TimesInv, Times, Idle, cache
<1>1. ASSUME NEW p \in Pages, ReadClock(p)
      PROVE  CheckInv' /\ checkedAt' >= checkedAt
  BY <1>1 DEF ReadClock
<1>2. ASSUME NEW p \in Pages, StartCheck(p)
      PROVE  CheckInv' /\ checkedAt' >= checkedAt
  BY <1>2 DEF StartCheck, Due, CheckPCs
<1>3. ASSUME NEW p \in Pages, NotDue(p)
      PROVE  CheckInv' /\ checkedAt' >= checkedAt
  BY <1>3 DEF NotDue
<1>4. ASSUME NEW p \in Pages, CheckReturns(p)
      PROVE  CheckInv' /\ checkedAt' >= checkedAt
  BY <1>4 DEF CheckReturns, CheckPCs
<1>5. ASSUME NEW p \in Pages, SampleCheckedAt(p)
      PROVE  CheckInv' /\ checkedAt' >= checkedAt
  BY <1>5 DEF SampleCheckedAt, CheckPCs
<1>6. ASSUME NEW p \in Pages, Store(p)
      PROVE  CheckInv' /\ checkedAt' >= checkedAt
  <2>1. checkedAt <= doneAt[p] /\ doneAt[p] <= clock
    BY <1>6 DEF Store
  <2>2. UpdateTypeOK'
    <3>1. 0 \in Times /\ doneAt[p] \in Times /\ result[p] \in Answers
      OBVIOUS
    <3>2. check' \in [Pages -> CheckPCs] /\ result' \in [Pages -> Answers]
      BY <1>6 DEF Store, CheckPCs, Answers
    <3>3. doneAt' \in [Pages -> Times] /\ checkedAt' \in Times
      BY <1>6, <3>1 DEF Store
    <3>. QED
      BY <1>6, <3>1, <3>2, <3>3 DEF Store
  <2>3. OneCheck'
    BY <1>6 DEF Store, CheckPCs
  <2>4. \A q \in Pages : check'[q] # "store"
    BY <1>6 DEF Store, CheckPCs
  <2>5. checkedAt' <= clock' /\ checkedAt' >= checkedAt
    BY <1>6, <2>1 DEF Store
  <2>6. \A q \in Pages : page'[q] # Idle => page'[q] <= clock'
    BY <1>6 DEF Store
  <2>. QED
    BY <2>2, <2>3, <2>4, <2>5, <2>6
<1>7. ASSUME Tick PROVE CheckInv' /\ checkedAt' >= checkedAt
  BY <1>7 DEF Tick
<1>8. CASE UNCHANGED updateVars
  BY <1>8 DEF updateVars
<1>. QED
  BY <1>1, <1>2, <1>3, <1>4, <1>5, <1>6, <1>7, <1>8 DEF UpdateNext, CheckStep

LEMMA Inductive == UpdateSpec => []CheckInv
<1>1. CheckInv /\ [UpdateNext]_updateVars => CheckInv'
  BY StepCheckInv
<1>. QED
  BY InitCheckInv, <1>1, PTL DEF UpdateSpec

(***************************************************************************)
(* Types, and one check at a time.                                         *)
(***************************************************************************)
THEOREM SingleFlight == UpdateSpec => []UpdateInv
<1>1. CheckInv => UpdateInv
  BY DEF CheckInv
<1>. QED
  BY <1>1, Inductive, PTL

(***************************************************************************)
(* An answer is never replaced by one that was given before it.            *)
(***************************************************************************)
THEOREM MovesForward == UpdateSpec => CacheIsMonotonic
<1>1. CheckInv /\ [UpdateNext]_updateVars => [checkedAt' >= checkedAt]_updateVars
  BY StepCheckInv
<1>. QED
  BY <1>1, Inductive, PTL DEF UpdateSpec, CacheIsMonotonic

(***************************************************************************)
(* A request that found the cache too old has read the clock no later than *)
(* now, so the last check is at least the TTL ago whenever one starts.     *)
(***************************************************************************)
LEMMA StartIsSpaced ==
    ASSUME CheckInv, [UpdateNext]_updateVars, NEW p \in Pages,
           check[p] = "none", check'[p] # "none", answer # "none"
    PROVE  clock >= checkedAt + TTL
<1>1. UpdateTypeOK /\ TimesInv /\ MaxTime \in Nat /\ TTL \in Nat
  BY ClockAssumption DEF CheckInv, UpdateInv
<1>2. StartCheck(p)
  BY <1>1 DEF UpdateNext, updateVars, ReadClock, StartCheck, NotDue, CheckStep, CheckReturns,
     SampleCheckedAt, Store, Tick, UpdateTypeOK
<1>3. page[p] # Idle /\ page[p] >= checkedAt + TTL
  BY <1>2 DEF StartCheck, Due
<1>. QED
  BY <1>1, <1>3 DEF TimesInv, UpdateTypeOK, Times, Idle

THEOREM SpacedByTTL == UpdateSpec => ChecksAreSpaced
<1>1. CheckInv /\ [UpdateNext]_updateVars
         => [\A p \in Pages :
               check[p] = "none" /\ check'[p] # "none" /\ answer # "none"
                  => clock >= checkedAt + TTL]_updateVars
  BY StartIsSpaced
<1>. QED
  BY <1>1, Inductive, PTL DEF UpdateSpec, ChecksAreSpaced
-----------------------------------------------------------------------------
(***************************************************************************)
(* Loops.  A loop over the places of a list, each turn of which takes a    *)
(* value of a set to one, has exactly one course.                          *)
(***************************************************************************)
\* A set of numbers that is not empty has a least one.
LEMMA Least ==
    ASSUME NEW T \in SUBSET Nat, T # {}
    PROVE  \E n \in T : \A m \in T : n <= m
<1>1. \A m, n \in Nat : m < n => <<m, n>> \in OpToRel(<, Nat)
  BY Zenon DEF OpToRel
<1>2. PICK R : /\ IsWellFoundedOn(R, Nat)
               /\ \A m, n \in Nat : m < n => <<m, n>> \in R
  BY <1>1, NatLessThanWellFounded, Zenon
<1>3. PICK n \in T : \A m \in T : ~(<<m, n>> \in R)
  <2>1. T \subseteq Nat /\ IsWellFoundedOn(R, Nat)
    BY <1>2, Zenon
  <2>. QED
    BY <2>1, WFMin, Zenon
<1>4. \A m \in T : ~(m < n)
  BY <1>2, <1>3
<1>. QED
  BY <1>4

\* The course of a loop that starts at x: a value of X after each turn.
Course(f, X, x, step, last) ==
    /\ last \in Nat
    /\ f = [n \in 0 .. last |-> IF n = 0 THEN x ELSE step[n][f[n - 1]]]
    /\ \A n \in 0 .. last : f[n] \in X

\* One more turn.
LEMMA CourseContinues ==
    ASSUME NEW X, NEW x, NEW step, NEW last \in Nat, NEW f,
           Course(f, X, x, step, last), step[last + 1] \in [X -> X]
    PROVE  \E g : Course(g, X, x, step, last + 1)
<1>. DEFINE g == [n \in 0 .. last + 1 |-> IF n = last + 1 THEN step[last + 1][f[last]]
                                                          ELSE f[n]]
<1>1. /\ \A n \in 0 .. last : f[n] = IF n = 0 THEN x ELSE step[n][f[n - 1]]
      /\ \A n \in 0 .. last : f[n] \in X
  BY DEF Course
<1>2. \A n \in 0 .. last : g[n] = f[n]
  OBVIOUS
<1>3. g[last + 1] = step[last + 1][f[last]] /\ g[last + 1] \in X
  BY <1>1
<1>4. \A n \in 0 .. last + 1 : g[n] = IF n = 0 THEN x ELSE step[n][g[n - 1]]
  <2>1. \A n \in 1 .. last + 1 : n - 1 \in 0 .. last
    OBVIOUS
  <2>. QED
    BY <1>1, <1>2, <1>3, <2>1
<1>5. \A n \in 0 .. last + 1 : g[n] \in X
  BY <1>1, <1>2, <1>3
<1>6. g = [n \in 0 .. last + 1 |-> IF n = 0 THEN x ELSE step[n][g[n - 1]]]
  BY <1>4
<1>7. last + 1 \in Nat
  OBVIOUS
<1>. HIDE DEF g
<1>. QED
  BY <1>5, <1>6, <1>7 DEF Course

\* A loop of any number of turns has a course (the least number that has none
\* would follow one that has).
LEMMA CourseExists ==
    ASSUME NEW X, NEW x \in X, NEW last \in Nat, NEW step \in [1 .. last -> [X -> X]]
    PROVE  \E f : Course(f, X, x, step, last)
<1>. DEFINE Stuck == {n \in 0 .. last : ~\E f : Course(f, X, x, step, n)}
<1>1. SUFFICES ASSUME Stuck # {} PROVE FALSE
  OBVIOUS
<1>2. PICK n \in Stuck : \A m \in Stuck : n <= m
  <2>1. Stuck \in SUBSET Nat
    OBVIOUS
  <2>. HIDE DEF Stuck
  <2>. QED
    BY <1>1, <2>1, Least
<1>3. Course([m \in 0 .. 0 |-> x], X, x, step, 0)
  BY DEF Course
<1>4. n # 0
  BY <1>3
<1>5. n - 1 \in 0 .. last /\ n - 1 \notin Stuck /\ n \in 1 .. last
  BY <1>2, <1>4
<1>6. PICK f : Course(f, X, x, step, n - 1)
  BY <1>5
<1>7. step[(n - 1) + 1] \in [X -> X] /\ (n - 1) + 1 = n /\ n - 1 \in Nat
  BY <1>5
<1>8. \E g : Course(g, X, x, step, (n - 1) + 1)
  <2>. HIDE DEF Stuck
  <2>. QED
    BY <1>6, <1>7, CourseContinues
<1>. QED
  BY <1>2, <1>7, <1>8

\* What is defined by the loop's recursion, and two that say the same.
Follows(g, X, x, step, last) ==
    g[0] = x /\ \A n \in 1 .. last : g[n - 1] \in X => g[n] = step[n][g[n - 1]]

Agree(f, g, last) == \A n \in 0 .. last : g[n] = f[n]

\* There is one: the first place where two differ would follow one where they agree.
LEMMA OneCourse ==
    ASSUME NEW X, NEW x, NEW last, NEW step, NEW f, NEW g,
           Course(f, X, x, step, last), Follows(g, X, x, step, last)
    PROVE  Agree(f, g, last)
<1>. DEFINE Wrong == {n \in 0 .. last : g[n] # f[n]}
<1>1. SUFFICES ASSUME Wrong # {} PROVE FALSE
  BY DEF Agree
<1>2. PICK n \in Wrong : \A m \in Wrong : n <= m
  <2>1. Wrong \in SUBSET Nat
    BY DEF Course
  <2>. HIDE DEF Wrong
  <2>. QED
    BY <1>1, <2>1, Least
<1>3. /\ last \in Nat
      /\ \A m \in 0 .. last : f[m] = IF m = 0 THEN x ELSE step[m][f[m - 1]]
      /\ \A m \in 0 .. last : f[m] \in X
  BY DEF Course
<1>4. n # 0 /\ n \in 1 .. last /\ n - 1 \in 0 .. last
  BY <1>2, <1>3 DEF Follows
<1>5. g[n - 1] = f[n - 1]
  BY <1>2, <1>4
<1>6. g[n] = step[n][g[n - 1]] /\ f[n] = step[n][f[n - 1]]
  BY <1>3, <1>4, <1>5 DEF Follows
<1>. QED
  BY <1>2, <1>5, <1>6

-----------------------------------------------------------------------------
(***************************************************************************)
(* What a terminal holds.                                                  *)
(***************************************************************************)
Line == Seq(Keys)

Lines == Seq(Line) \ {<<>>}

Leads(s, t) == Len(s) <= Len(t) /\ \A i \in 1 .. Len(s) : s[i] = t[i]

\* A list is its front and its last.
LEMMA FrontAndLast ==
    ASSUME NEW S, NEW s \in Seq(S), s # <<>>
    PROVE  /\ Socket!Front(s) \in Seq(S) /\ Len(Socket!Front(s)) = Len(s) - 1
           /\ \A i \in 1 .. Len(s) - 1 : Socket!Front(s)[i] = s[i]
           /\ Socket!Last(s) \in S /\ Socket!Last(s) = s[Len(s)]
           /\ Append(Socket!Front(s), Socket!Last(s)) = s
           /\ Len(s) \in Nat \ {0}
<1>1. Len(s) \in Nat \ {0} /\ Len(s) \in 1 .. Len(s)
  OBVIOUS
<1>2. /\ Socket!Front(s) \in Seq(S) /\ Len(Socket!Front(s)) = Len(s) - 1
      /\ \A i \in 1 .. Len(s) - 1 : Socket!Front(s)[i] = s[i]
  <2>1. Socket!Front(s) = SubSeq(s, 1, Len(s) - 1)
    BY DEF Socket!Front
  <2>2. SubSeq(s, 1, Len(s) - 1) \in Seq(S)
    OBVIOUS
  <2>3. Len(SubSeq(s, 1, Len(s) - 1)) = Len(s) - 1
    <3>1. PICK n \in Nat : n = Len(s) - 1
      BY <1>1
    <3>2. Len(SubSeq(s, 1, n)) = n
      BY <3>1
    <3>. QED
      BY <3>1, <3>2
  <2>4. \A i \in 1 .. Len(s) - 1 : SubSeq(s, 1, Len(s) - 1)[i] = s[i]
    BY <1>1
  <2>. QED
    BY <2>1, <2>2, <2>3, <2>4
<1>3. Socket!Last(s) \in S /\ Socket!Last(s) = s[Len(s)]
  BY <1>1 DEF Socket!Last
<1>4. Append(Socket!Front(s), Socket!Last(s)) = s
  <2>1. Append(Socket!Front(s), s[Len(s)]) \in Seq(S)
    BY <1>1, <1>2
  <2>2. Len(Append(Socket!Front(s), s[Len(s)])) = Len(s)
    BY <1>1, <1>2
  <2>3. \A i \in 1 .. Len(s) : Append(Socket!Front(s), s[Len(s)])[i] = s[i]
    BY <1>1, <1>2
  <2>. QED
    BY <1>3, <2>1, <2>2, <2>3
<1>. QED
  BY <1>1, <1>2, <1>3, <1>4

LEMMA FrontOfAppend ==
    ASSUME NEW S, NEW s \in Seq(S), NEW e \in S
    PROVE  /\ Append(s, e) \in Seq(S) \ {<<>>}
           /\ Socket!Front(Append(s, e)) = s /\ Socket!Last(Append(s, e)) = e
<1>1. Append(s, e) \in Seq(S) /\ Append(s, e) # <<>> /\ Len(Append(s, e)) = Len(s) + 1
  <2>1. Append(s, e) \in Seq(S) /\ Len(Append(s, e)) = Len(s) + 1 /\ Len(s) \in Nat
    OBVIOUS
  <2>. QED
    BY <2>1
<1>2. Socket!Last(Append(s, e)) = e
  BY <1>1 DEF Socket!Last
<1>3. Socket!Front(Append(s, e)) = s
  BY <1>1 DEF Socket!Front
<1>. QED
  BY <1>1, <1>2, <1>3

\* A terminal always has an open line.
LEMMA KeyKeepsLines ==
    ASSUME NEW lines \in Lines, NEW key, key = "enter" \/ key \in Keys
    PROVE  /\ Socket!TerminalKey(lines, key) \in Lines
           /\ Leads(Socket!Front(lines), Socket!Front(Socket!TerminalKey(lines, key)))
           /\ key # "enter" => Socket!Front(Socket!TerminalKey(lines, key)) = Socket!Front(lines)
           /\ key = "enter" => Socket!Last(Socket!TerminalKey(lines, key)) = <<>>
<1>1. /\ lines \in Seq(Line) /\ lines # <<>>
      /\ Socket!Front(lines) \in Seq(Line) /\ Socket!Last(lines) \in Line
      /\ Len(Socket!Front(lines)) = Len(lines) - 1
      /\ \A i \in 1 .. Len(lines) - 1 : Socket!Front(lines)[i] = lines[i]
      /\ Len(lines) \in Nat \ {0}
  BY FrontAndLast DEF Lines
<1>2. CASE key = "enter" /\ Socket!Last(lines) = <<>>
  <2>1. Socket!TerminalKey(lines, key) = lines
    BY <1>2 DEF Socket!TerminalKey
  <2>. QED
    BY <1>1, <1>2, <2>1 DEF Leads
<1>3. CASE key = "enter" /\ Socket!Last(lines) # <<>>
  <2>1. Socket!TerminalKey(lines, key) = Append(lines, <<>>)
    BY <1>3 DEF Socket!TerminalKey
  <2>2. <<>> \in Line
    BY DEF Line
  <2>3. /\ Append(lines, <<>>) \in Lines
        /\ Socket!Front(Append(lines, <<>>)) = lines
        /\ Socket!Last(Append(lines, <<>>)) = <<>>
    BY <1>1, <2>2, FrontOfAppend DEF Lines
  <2>4. Leads(Socket!Front(lines), lines)
    BY <1>1 DEF Leads
  <2>. QED
    BY <1>3, <2>1, <2>3, <2>4
<1>4. CASE key # "enter"
  <2>. DEFINE line == IF key = "erase"
                      THEN SubSeq(Socket!Last(lines), 1, Len(Socket!Last(lines)) - 1)
                      ELSE Append(Socket!Last(lines), key)
  <2>1. Socket!TerminalKey(lines, key) = Append(Socket!Front(lines), line)
    BY <1>4 DEF Socket!TerminalKey
  <2>2. line \in Line
    BY <1>1, <1>4 DEF Line
  <2>3. /\ Append(Socket!Front(lines), line) \in Lines
        /\ Socket!Front(Append(Socket!Front(lines), line)) = Socket!Front(lines)
    <3>. HIDE DEF line
    <3>. QED
      BY <1>1, <2>2, FrontOfAppend DEF Lines
  <2>. QED
    BY <1>1, <1>4, <2>1, <2>3 DEF Leads
<1>. QED
  BY <1>2, <1>3, <1>4

(***************************************************************************)
(* A terminal takes keys one by one.                                       *)
(***************************************************************************)
Takes(f, lines, keys) ==
    /\ f[0] = lines
    /\ \A n \in 1 .. Len(keys) : f[n] = Socket!TerminalKey(f[n - 1], keys[n])

\* The recursion of Terminal has a course, and Terminal returns its end.
LEMMA TerminalTakes ==
    ASSUME NEW lines \in Lines, NEW keys \in Seq(Keys)
    PROVE  \E f : /\ Takes(f, lines, keys)
                  /\ \A n \in 0 .. Len(keys) : f[n] \in Lines
                  /\ Socket!Terminal(lines, keys) = f[Len(keys)]
                  /\ \A g : Takes(g, lines, keys) => \A n \in 0 .. Len(keys) : g[n] = f[n]
<1>. DEFINE last == Len(keys)
            step == [n \in 1 .. last |-> [l \in Lines |-> Socket!TerminalKey(l, keys[n])]]
            IsAfter(g) == g = [n \in 0 .. last |->
                                  IF n = 0 THEN lines
                                  ELSE Socket!TerminalKey(g[n - 1], keys[n])]
<1>1. last \in Nat /\ \A n \in 1 .. last : keys[n] \in Keys
  OBVIOUS
<1>2. step \in [1 .. last -> [Lines -> Lines]]
  BY <1>1, KeyKeepsLines
<1>3. PICK f : Course(f, Lines, lines, step, last)
  <2>. HIDE DEF last, step
  <2>. QED
    BY <1>1, <1>2, CourseExists
<1>4. ASSUME NEW g, Takes(g, lines, keys)
      PROVE  \A n \in 0 .. last : g[n] = f[n]
  <2>1. g[0] = lines
    BY <1>4 DEF Takes
  <2>2. \A n \in 1 .. last : g[n - 1] \in Lines => g[n] = step[n][g[n - 1]]
    BY <1>4 DEF Takes
  <2>3. Follows(g, Lines, lines, step, last)
    <3>. HIDE DEF last, step
    <3>. QED
      BY <2>1, <2>2 DEF Follows
  <2>4. Agree(f, g, last)
    <3>. HIDE DEF last, step, IsAfter
    <3>. QED
      BY <1>3, <2>3, OneCourse, Zenon
  <2>. QED
    BY <2>4 DEF Agree
<1>5. /\ f[0] = lines
      /\ \A n \in 0 .. last : f[n] \in Lines
      /\ \A n \in 1 .. last : f[n] = step[n][f[n - 1]]
      /\ f = [n \in 0 .. last |-> IF n = 0 THEN lines ELSE step[n][f[n - 1]]]
  <2>. HIDE DEF last, step
  <2>. QED
    BY <1>1, <1>3 DEF Course
<1>6. \A n \in 1 .. last : f[n] = Socket!TerminalKey(f[n - 1], keys[n])
  <2>1. \A n \in 1 .. last : n - 1 \in 0 .. last
    BY <1>1
  <2>. QED
    BY <1>5, <2>1
<1>7. Takes(f, lines, keys)
  BY <1>5, <1>6 DEF Takes
<1>8. IsAfter(f)
  <2>1. \A n \in 0 .. last : n # 0 => n \in 1 .. last
    BY <1>1
  <2>2. \A n \in 0 .. last : f[n] = IF n = 0 THEN lines
                                    ELSE Socket!TerminalKey(f[n - 1], keys[n])
    BY <1>5, <1>6, <2>1
  <2>3. f = [n \in 0 .. last |-> f[n]]
    <3>. HIDE DEF last, step
    <3>. QED
      BY <1>5
  <2>. HIDE DEF last, step
  <2>. QED
    BY <2>2, <2>3
<1>9. PICK g : IsAfter(g) /\ Socket!Terminal(lines, keys) = g[last]
  <2>1. \E g : IsAfter(g)
    BY <1>8
  <2>. QED
    BY <2>1 DEF Socket!Terminal
<1>10. Takes(g, lines, keys)
  <2>1. \A n \in 0 .. last : g[n] = IF n = 0 THEN lines
                                    ELSE Socket!TerminalKey(g[n - 1], keys[n])
    <3>. HIDE DEF step
    <3>. QED
      BY <1>9
  <2>2. 0 \in 0 .. last /\ \A n \in 1 .. last : n \in 0 .. last /\ n # 0
    BY <1>1
  <2>3. g[0] = lines /\ \A n \in 1 .. last : g[n] = Socket!TerminalKey(g[n - 1], keys[n])
    <3>. HIDE DEF last, step, IsAfter
    <3>. QED
      BY <2>1, <2>2
  <2>. QED
    BY <2>3 DEF Takes
<1>11. last \in 0 .. last
  BY <1>1
<1>12. Socket!Terminal(lines, keys) = f[last]
  BY <1>4, <1>9, <1>10, <1>11
<1>. HIDE DEF step, IsAfter
<1>. QED
  BY <1>4, <1>5, <1>7, <1>12, Zenon

\* Whatever takes the keys ends where Terminal does.
LEMMA TerminalIs ==
    ASSUME NEW lines \in Lines, NEW keys \in Seq(Keys), NEW g, Takes(g, lines, keys)
    PROVE  /\ Socket!Terminal(lines, keys) = g[Len(keys)]
           /\ \A n \in 0 .. Len(keys) : g[n] \in Lines
<1>1. PICK f : /\ \A n \in 0 .. Len(keys) : f[n] \in Lines
               /\ Socket!Terminal(lines, keys) = f[Len(keys)]
               /\ \A h : Takes(h, lines, keys) => \A n \in 0 .. Len(keys) : h[n] = f[n]
  BY TerminalTakes
<1>2. Len(keys) \in 0 .. Len(keys)
  OBVIOUS
<1>. QED
  BY <1>1, <1>2

LEMMA TerminalOfNone ==
    ASSUME NEW lines \in Lines
    PROVE  Socket!Terminal(lines, <<>>) = lines
<1>1. <<>> \in Seq(Keys) /\ Len(<<>>) = 0
  OBVIOUS
<1>. DEFINE f == [n \in {0} |-> lines]
<1>2. Takes(f, lines, <<>>)
  BY DEF Takes
<1>3. f[0] = lines
  OBVIOUS
<1>. HIDE DEF f
<1>. QED
  BY <1>1, <1>2, <1>3, TerminalIs

(***************************************************************************)
(* What is typed in two parts is typed.                                    *)
(***************************************************************************)
LEMMA TerminalOfParts ==
    ASSUME NEW lines \in Lines, NEW keys \in Seq(Keys), NEW more \in Seq(Keys)
    PROVE  /\ Socket!Terminal(lines, keys) \in Lines
           /\ Socket!Terminal(lines, keys \o more)
                = Socket!Terminal(Socket!Terminal(lines, keys), more)
<1>1. /\ keys \o more \in Seq(Keys) /\ Len(keys \o more) = Len(keys) + Len(more)
      /\ \A n \in 1 .. Len(keys) : (keys \o more)[n] = keys[n]
      /\ \A n \in 1 .. Len(more) : (keys \o more)[Len(keys) + n] = more[n]
      /\ Len(keys) \in Nat /\ Len(more) \in Nat
  OBVIOUS
<1>2. PICK f : /\ Takes(f, lines, keys \o more)
               /\ \A n \in 0 .. Len(keys \o more) : f[n] \in Lines
               /\ Socket!Terminal(lines, keys \o more) = f[Len(keys \o more)]
  BY <1>1, TerminalTakes
<1>3. Takes(f, lines, keys)
  <2>1. \A n \in 1 .. Len(keys) : n \in 1 .. Len(keys \o more)
    BY <1>1
  <2>. QED
    BY <1>1, <1>2, <2>1 DEF Takes
<1>4. Socket!Terminal(lines, keys) = f[Len(keys)] /\ f[Len(keys)] \in Lines
  <2>1. Len(keys) \in 0 .. Len(keys \o more)
    BY <1>1
  <2>. QED
    BY <1>2, <1>3, <2>1, TerminalIs
<1>. DEFINE g == [n \in 0 .. Len(more) |-> f[Len(keys) + n]]
<1>5. Takes(g, f[Len(keys)], more)
  <2>1. g[0] = f[Len(keys)]
    BY <1>1
  <2>2. ASSUME NEW n \in 1 .. Len(more)
        PROVE  g[n] = Socket!TerminalKey(g[n - 1], more[n])
    <3>1. /\ Len(keys) + n \in 1 .. Len(keys \o more)
          /\ (Len(keys) + n) - 1 = Len(keys) + (n - 1)
          /\ n \in 0 .. Len(more) /\ n - 1 \in 0 .. Len(more)
      BY <1>1
    <3>2. f[Len(keys) + n]
            = Socket!TerminalKey(f[(Len(keys) + n) - 1], (keys \o more)[Len(keys) + n])
      BY <1>2, <3>1 DEF Takes
    <3>. QED
      BY <1>1, <3>1, <3>2
  <2>. HIDE DEF g
  <2>. QED
    BY <2>1, <2>2 DEF Takes
<1>6. g[Len(more)] = f[Len(keys \o more)]
  BY <1>1
<1>. HIDE DEF g
<1>7. Socket!Terminal(f[Len(keys)], more) = g[Len(more)]
  BY <1>4, <1>5, TerminalIs
<1>. QED
  BY <1>2, <1>4, <1>6, <1>7

LEMMA TerminalOfOneMore ==
    ASSUME NEW lines \in Lines, NEW keys \in Seq(Keys), NEW key \in Keys
    PROVE  Socket!Terminal(lines, Append(keys, key))
             = Socket!TerminalKey(Socket!Terminal(lines, keys), key)
<1>1. /\ Append(keys, key) \in Seq(Keys) /\ Len(Append(keys, key)) = Len(keys) + 1
      /\ \A n \in 1 .. Len(keys) : Append(keys, key)[n] = keys[n]
      /\ Append(keys, key)[Len(keys) + 1] = key
      /\ Len(keys) \in Nat
  OBVIOUS
<1>2. PICK f : /\ Takes(f, lines, Append(keys, key))
               /\ Socket!Terminal(lines, Append(keys, key)) = f[Len(Append(keys, key))]
  BY <1>1, TerminalTakes
<1>3. Takes(f, lines, keys)
  BY <1>1, <1>2 DEF Takes
<1>4. Socket!Terminal(lines, keys) = f[Len(keys)]
  BY <1>3, TerminalIs
<1>5. f[Len(keys) + 1] = Socket!TerminalKey(f[(Len(keys) + 1) - 1], key)
  BY <1>1, <1>2 DEF Takes
<1>6. (Len(keys) + 1) - 1 = Len(keys)
  BY <1>1
<1>. QED
  BY <1>1, <1>2, <1>4, <1>5, <1>6

(***************************************************************************)
(* Lines that are done stay, and only enter ends one.                      *)
(***************************************************************************)
IsPlain(keys) == \A i \in DOMAIN keys : keys[i] # "enter"

LEMMA DoneLinesStay ==
    ASSUME NEW lines \in Lines, NEW keys \in Seq(Keys)
    PROVE  /\ Leads(Socket!Front(lines), Socket!Front(Socket!Terminal(lines, keys)))
           /\ IsPlain(keys)
                => Socket!Front(Socket!Terminal(lines, keys)) = Socket!Front(lines)
<1>1. PICK f : /\ Takes(f, lines, keys)
               /\ \A n \in 0 .. Len(keys) : f[n] \in Lines
               /\ Socket!Terminal(lines, keys) = f[Len(keys)]
  BY TerminalTakes
<1>. DEFINE Stays(n) == /\ Leads(Socket!Front(lines), Socket!Front(f[n]))
                        /\ IsPlain(keys) => Socket!Front(f[n]) = Socket!Front(lines)
            Wrong == {n \in 0 .. Len(keys) : ~Stays(n)}
<1>2. ASSUME Wrong # {} PROVE FALSE
  <2>1. PICK n \in Wrong : \A m \in Wrong : n <= m
    <3>1. Wrong \in SUBSET Nat
      OBVIOUS
    <3>. HIDE DEF Wrong
    <3>. QED
      BY <1>2, <3>1, Least
  <2>2. Stays(0)
    <3>1. Socket!Front(lines) \in Seq(Line)
      BY FrontAndLast DEF Lines
    <3>2. Leads(Socket!Front(lines), Socket!Front(lines))
      BY <3>1 DEF Leads
    <3>. QED
      BY <1>1, <3>2 DEF Takes
  <2>3. n \in 1 .. Len(keys) /\ n - 1 \in 0 .. Len(keys) /\ n - 1 \notin Wrong
    BY <2>1, <2>2
  <2>4. Stays(n - 1)
    BY <2>3
  <2>5. /\ f[n - 1] \in Lines /\ keys[n] \in Keys
        /\ f[n] = Socket!TerminalKey(f[n - 1], keys[n])
        /\ IsPlain(keys) => keys[n] # "enter"
    BY <1>1, <2>3 DEF Takes, IsPlain
  <2>6. /\ Leads(Socket!Front(f[n - 1]), Socket!Front(f[n]))
        /\ keys[n] # "enter" => Socket!Front(f[n]) = Socket!Front(f[n - 1])
        /\ f[n] \in Lines
    BY <2>5, KeyKeepsLines
  <2>7. Leads(Socket!Front(lines), Socket!Front(f[n]))
    <3>1. /\ Socket!Front(lines) \in Seq(Line) /\ Socket!Front(f[n - 1]) \in Seq(Line)
          /\ Socket!Front(f[n]) \in Seq(Line)
      BY <2>5, <2>6, FrontAndLast DEF Lines
    <3>. QED
      BY <2>4, <2>6, <3>1 DEF Leads
  <2>8. Stays(n)
    BY <2>4, <2>5, <2>6, <2>7
  <2>. QED
    BY <2>1, <2>8
<1>3. Len(keys) \in 0 .. Len(keys) /\ Len(keys) \notin Wrong
  BY <1>2
<1>. QED
  BY <1>1, <1>3

-----------------------------------------------------------------------------
(***************************************************************************)
(* The log, typed again.                                                   *)
(***************************************************************************)
Retypes(f, commands) ==
    /\ f[0] = Socket!NoLines
    /\ \A n \in 1 .. Len(commands) :
          f[n] = Socket!TerminalKey(Socket!Terminal(f[n - 1], commands[n]), "enter")

LEMMA NoLinesIsLines ==
    Socket!NoLines \in Lines /\ Socket!Last(Socket!NoLines) = <<>>
<1>1. <<>> \in Line
  BY DEF Line
<1>. QED
  BY <1>1 DEF Socket!NoLines, Socket!Last, Lines

LEMMA EntersLines ==
    ASSUME NEW lines \in Lines, NEW command \in Line
    PROVE  /\ Socket!TerminalKey(Socket!Terminal(lines, command), "enter") \in Lines
           /\ Socket!Last(Socket!TerminalKey(Socket!Terminal(lines, command), "enter")) = <<>>
<1>1. <<>> \in Seq(Keys)
  OBVIOUS
<1>2. Socket!Terminal(lines, command) \in Lines
  BY <1>1, TerminalOfParts DEF Line
<1>. QED
  BY <1>2, KeyKeepsLines

LEMMA RetypedTakes ==
    ASSUME NEW commands \in Seq(Line)
    PROVE  \E f : /\ Retypes(f, commands)
                  /\ \A n \in 0 .. Len(commands) : f[n] \in Lines
                  /\ Socket!Retyped(commands) = f[Len(commands)]
                  /\ \A g : Retypes(g, commands)
                        => \A n \in 0 .. Len(commands) : g[n] = f[n]
<1>. DEFINE last == Len(commands)
            step == [n \in 1 .. last |-> [l \in Lines |->
                        Socket!TerminalKey(Socket!Terminal(l, commands[n]), "enter")]]
            IsAfter(g) == g = [n \in 0 .. last |->
                IF n = 0 THEN Socket!NoLines
                ELSE Socket!TerminalKey(Socket!Terminal(g[n - 1], commands[n]), "enter")]
<1>1. last \in Nat /\ \A n \in 1 .. last : commands[n] \in Line
  OBVIOUS
<1>2. step \in [1 .. last -> [Lines -> Lines]]
  BY <1>1, EntersLines
<1>3. PICK f : Course(f, Lines, Socket!NoLines, step, last)
  <2>. HIDE DEF last, step
  <2>. QED
    BY <1>1, <1>2, NoLinesIsLines, CourseExists
<1>4. ASSUME NEW g, Retypes(g, commands)
      PROVE  \A n \in 0 .. last : g[n] = f[n]
  <2>1. g[0] = Socket!NoLines
    BY <1>4 DEF Retypes
  <2>2. \A n \in 1 .. last : g[n - 1] \in Lines => g[n] = step[n][g[n - 1]]
    BY <1>4 DEF Retypes
  <2>3. Follows(g, Lines, Socket!NoLines, step, last)
    <3>. HIDE DEF last, step
    <3>. QED
      BY <2>1, <2>2 DEF Follows
  <2>4. Agree(f, g, last)
    <3>. HIDE DEF last, step, IsAfter
    <3>. QED
      BY <1>3, <2>3, OneCourse, Zenon
  <2>. QED
    BY <2>4 DEF Agree
<1>5. /\ f[0] = Socket!NoLines
      /\ \A n \in 0 .. last : f[n] \in Lines
      /\ \A n \in 1 .. last : f[n] = step[n][f[n - 1]]
      /\ f = [n \in 0 .. last |-> IF n = 0 THEN Socket!NoLines ELSE step[n][f[n - 1]]]
  <2>. HIDE DEF last, step
  <2>. QED
    BY <1>1, <1>3 DEF Course
<1>6. \A n \in 1 .. last :
         f[n] = Socket!TerminalKey(Socket!Terminal(f[n - 1], commands[n]), "enter")
  <2>1. \A n \in 1 .. last : n - 1 \in 0 .. last
    BY <1>1
  <2>. QED
    BY <1>5, <2>1
<1>7. Retypes(f, commands)
  BY <1>5, <1>6 DEF Retypes
<1>8. IsAfter(f)
  <2>1. \A n \in 0 .. last : n # 0 => n \in 1 .. last
    BY <1>1
  <2>2. \A n \in 0 .. last :
           f[n] = IF n = 0 THEN Socket!NoLines
                  ELSE Socket!TerminalKey(Socket!Terminal(f[n - 1], commands[n]), "enter")
    BY <1>5, <1>6, <2>1
  <2>3. f = [n \in 0 .. last |-> f[n]]
    <3>. HIDE DEF last, step
    <3>. QED
      BY <1>5
  <2>. HIDE DEF last, step
  <2>. QED
    BY <2>2, <2>3
<1>9. PICK g : IsAfter(g) /\ Socket!Retyped(commands) = g[last]
  <2>1. \E g : IsAfter(g)
    BY <1>8
  <2>. QED
    BY <2>1 DEF Socket!Retyped
<1>10. Retypes(g, commands)
  <2>1. \A n \in 0 .. last : g[n] = IF n = 0 THEN Socket!NoLines
                                    ELSE Socket!TerminalKey(Socket!Terminal(g[n - 1], commands[n]), "enter")
    <3>. HIDE DEF step
    <3>. QED
      BY <1>9
  <2>2. 0 \in 0 .. last /\ \A n \in 1 .. last : n \in 0 .. last /\ n # 0
    BY <1>1
  <2>3. g[0] = Socket!NoLines /\ \A n \in 1 .. last : g[n] = Socket!TerminalKey(Socket!Terminal(g[n - 1], commands[n]), "enter")
    <3>. HIDE DEF last, step, IsAfter
    <3>. QED
      BY <2>1, <2>2
  <2>. QED
    BY <2>3 DEF Retypes
<1>11. last \in 0 .. last
  BY <1>1
<1>12. Socket!Retyped(commands) = f[last]
  BY <1>4, <1>9, <1>10, <1>11
<1>. HIDE DEF step, IsAfter
<1>. QED
  BY <1>4, <1>5, <1>7, <1>12, Zenon

LEMMA RetypedIs ==
    ASSUME NEW commands \in Seq(Line), NEW g, Retypes(g, commands)
    PROVE  Socket!Retyped(commands) = g[Len(commands)]
<1>1. PICK f : /\ Socket!Retyped(commands) = f[Len(commands)]
               /\ \A h : Retypes(h, commands)
                      => \A n \in 0 .. Len(commands) : h[n] = f[n]
  BY RetypedTakes
<1>2. Len(commands) \in 0 .. Len(commands)
  OBVIOUS
<1>. QED
  BY <1>1, <1>2

LEMMA RetypedIsLines ==
    ASSUME NEW commands \in Seq(Line)
    PROVE  /\ Socket!Retyped(commands) \in Lines
           /\ Socket!Last(Socket!Retyped(commands)) = <<>>
<1>1. PICK f : /\ Retypes(f, commands)
               /\ \A n \in 0 .. Len(commands) : f[n] \in Lines
               /\ Socket!Retyped(commands) = f[Len(commands)]
  BY RetypedTakes
<1>2. Len(commands) \in Nat /\ Len(commands) \in 0 .. Len(commands)
  OBVIOUS
<1>3. CASE Len(commands) = 0
  BY <1>1, <1>2, <1>3, NoLinesIsLines DEF Retypes
<1>4. CASE Len(commands) # 0
  <2>1. Len(commands) \in 1 .. Len(commands) /\ Len(commands) - 1 \in 0 .. Len(commands)
    BY <1>2, <1>4
  <2>2. /\ f[Len(commands)] = Socket!TerminalKey(
              Socket!Terminal(f[Len(commands) - 1], commands[Len(commands)]), "enter")
        /\ f[Len(commands) - 1] \in Lines
        /\ commands[Len(commands)] \in Line
    BY <1>1, <2>1 DEF Retypes
  <2>. QED
    BY <1>1, <2>2, EntersLines
<1>. QED
  BY <1>3, <1>4

LEMMA RetypedOfNone == Socket!Retyped(<<>>) = Socket!NoLines
<1>1. <<>> \in Seq(Line) /\ Len(<<>>) = 0
  OBVIOUS
<1>. DEFINE f == [n \in {0} |-> Socket!NoLines]
<1>2. Retypes(f, <<>>) /\ f[0] = Socket!NoLines
  BY DEF Retypes
<1>. HIDE DEF f
<1>. QED
  BY <1>1, <1>2, RetypedIs

LEMMA RetypedOfOneMore ==
    ASSUME NEW commands \in Seq(Line), NEW command \in Line
    PROVE  Socket!Retyped(Append(commands, command))
             = Socket!TerminalKey(Socket!Terminal(Socket!Retyped(commands), command), "enter")
<1>1. /\ Append(commands, command) \in Seq(Line)
      /\ Len(Append(commands, command)) = Len(commands) + 1
      /\ \A n \in 1 .. Len(commands) : Append(commands, command)[n] = commands[n]
      /\ Append(commands, command)[Len(commands) + 1] = command
      /\ Len(commands) \in Nat
  OBVIOUS
<1>2. PICK f : /\ Retypes(f, Append(commands, command))
               /\ Socket!Retyped(Append(commands, command)) = f[Len(Append(commands, command))]
  BY <1>1, RetypedTakes
<1>3. Retypes(f, commands)
  BY <1>1, <1>2 DEF Retypes
<1>4. Socket!Retyped(commands) = f[Len(commands)]
  BY <1>3, RetypedIs
<1>5. f[Len(commands) + 1]
        = Socket!TerminalKey(Socket!Terminal(f[(Len(commands) + 1) - 1], command), "enter")
  BY <1>1, <1>2 DEF Retypes
<1>6. (Len(commands) + 1) - 1 = Len(commands)
  BY <1>1
<1>. QED
  BY <1>1, <1>2, <1>4, <1>5, <1>6

-----------------------------------------------------------------------------
(***************************************************************************)
(* The edit of the line that will be logged: with each key the log and the *)
(* line go on to say what a terminal would make of it.                     *)
(***************************************************************************)
States == [line : Line, lines : Seq(Line)]

\* Where a backspace is not kept, and never an enter, the line has none.
IsClean(line, erases) ==
    \A i \in DOMAIN line : line[i] # "enter" /\ (erases => line[i] # "erase")

Shown(state) == Socket!Terminal(Socket!Retyped(state.lines), state.line)

Done(commands) == Socket!Front(Socket!Retyped(commands))

LEMMA ShownIsLines ==
    ASSUME NEW state \in States
    PROVE  /\ state.line \in Seq(Keys) /\ state.lines \in Seq(Line)
           /\ Socket!Retyped(state.lines) \in Lines
           /\ Shown(state) \in Lines
<1>1. state.line \in Seq(Keys) /\ state.lines \in Seq(Line)
  BY DEF States, Line
<1>2. <<>> \in Seq(Keys)
  OBVIOUS
<1>. QED
  BY <1>1, <1>2, RetypedIsLines, TerminalOfParts DEF Shown

\* A backspace takes back a key that is not an enter or a backspace; on an empty
\* line it does nothing.
LEMMA EraseUndoes ==
    ASSUME NEW lines \in Lines, NEW key \in Keys, key # "enter", key # "erase"
    PROVE  Socket!TerminalKey(Socket!TerminalKey(lines, key), "erase") = lines
<1>. DEFINE front == Socket!Front(lines)
            line == Socket!Last(lines)
            more == Append(line, key)
<1>1. /\ front \in Seq(Line) /\ line \in Line /\ Append(front, line) = lines
  BY FrontAndLast DEF Lines
<1>2. Socket!TerminalKey(lines, key) = Append(front, more)
  BY DEF Socket!TerminalKey
<1>3. more \in Line /\ Len(more) = Len(line) + 1 /\ SubSeq(more, 1, Len(more) - 1) = line
  <2>1. line \in Seq(Keys)
    BY <1>1 DEF Line
  <2>2. Socket!Front(more) = line /\ more \in Seq(Keys)
    <3>. HIDE DEF line
    <3>. QED
      BY <2>1, FrontOfAppend
  <2>3. Len(more) = Len(line) + 1
    BY <2>1
  <2>. QED
    BY <2>2, <2>3 DEF Socket!Front, Line
<1>4. Socket!Front(Append(front, more)) = front /\ Socket!Last(Append(front, more)) = more
  <2>. HIDE DEF front, more
  <2>. QED
    BY <1>1, <1>3, FrontOfAppend
<1>5. Socket!TerminalKey(Append(front, more), "erase")
        = Append(Socket!Front(Append(front, more)),
                 SubSeq(Socket!Last(Append(front, more)), 1,
                        Len(Socket!Last(Append(front, more))) - 1))
  BY DEF Socket!TerminalKey
<1>. HIDE DEF front, line, more
<1>. QED
  BY <1>1, <1>2, <1>3, <1>4, <1>5

LEMMA NothingToErase ==
    ASSUME NEW lines \in Lines, Socket!Last(lines) = <<>>
    PROVE  /\ Socket!TerminalKey(lines, "erase") = lines
           /\ Socket!TerminalKey(lines, "enter") = lines
<1>1. Append(Socket!Front(lines), <<>>) = lines
  BY FrontAndLast DEF Lines
<1>2. SubSeq(<<>>, 1, Len(<<>>) - 1) = <<>>
  OBVIOUS
<1>3. Socket!TerminalKey(lines, "erase")
        = Append(Socket!Front(lines), SubSeq(<<>>, 1, Len(<<>>) - 1))
  BY DEF Socket!TerminalKey
<1>4. Socket!TerminalKey(lines, "enter") = lines
  BY DEF Socket!TerminalKey
<1>. QED
  BY <1>1, <1>2, <1>3, <1>4

\* One key, a message of keys.
LEMMA EditIsShown ==
    ASSUME NEW state \in States, NEW erases \in BOOLEAN, IsClean(state.line, erases),
           NEW key \in Keys
    PROVE  /\ Socket!Edit(state, key, erases) \in States
           /\ IsClean(Socket!Edit(state, key, erases).line, erases)
           /\ Shown(Socket!Edit(state, key, erases)) = Socket!TerminalKey(Shown(state), key)
           /\ Leads(Done(state.lines), Done(Socket!Edit(state, key, erases).lines))
<1>. DEFINE next == Socket!Edit(state, key, erases)
            again == Socket!Retyped(state.lines)
<1>1. /\ state.line \in Seq(Keys) /\ state.lines \in Seq(Line)
      /\ again \in Lines /\ Shown(state) \in Lines
      /\ Socket!Last(again) = <<>>
  BY ShownIsLines, RetypedIsLines
<1>2. Leads(Done(state.lines), Done(state.lines))
  BY <1>1, FrontAndLast DEF Leads, Done, Lines
<1>3. state.line = <<>> => Shown(state) = again
  BY <1>1, TerminalOfNone DEF Shown
<1>4. CASE key = "enter" /\ state.line = <<>>
  <2>1. next = [line |-> <<>>, lines |-> state.lines]
    BY <1>4 DEF Socket!Edit
  <2>2. next \in States /\ next.line = <<>> /\ next.lines = state.lines
    BY <1>1, <2>1 DEF States, Line
  <2>3. Shown(next) = Shown(state)
    BY <1>4, <2>2 DEF Shown
  <2>4. IsClean(next.line, erases)
    BY <2>2 DEF IsClean
  <2>. QED
    BY <1>1, <1>2, <1>3, <1>4, <2>2, <2>3, <2>4, NothingToErase
<1>5. CASE key = "enter" /\ state.line # <<>>
  <2>1. next = [line |-> <<>>, lines |-> Append(state.lines, state.line)]
    BY <1>5 DEF Socket!Edit
  <2>2. /\ next.line = <<>> /\ next.lines = Append(state.lines, state.line)
        /\ next.lines \in Seq(Line) /\ next \in States
    BY <1>1, <2>1 DEF States, Line
  <2>3. state.line \in Line
    BY <1>1 DEF Line
  <2>4. Socket!Retyped(next.lines) = Socket!TerminalKey(Shown(state), key)
    BY <1>1, <1>5, <2>2, <2>3, RetypedOfOneMore DEF Shown
  <2>5. Shown(next) = Socket!TerminalKey(Shown(state), key)
    BY <2>2, <2>4, RetypedIsLines, TerminalOfNone DEF Shown
  <2>6. Leads(Done(state.lines), Socket!Front(Shown(state)))
    BY <1>1, DoneLinesStay DEF Done, Shown
  <2>7. Leads(Socket!Front(Shown(state)), Done(next.lines))
    BY <1>1, <2>4, KeyKeepsLines DEF Done
  <2>8. Leads(Done(state.lines), Done(next.lines))
    <3>1. /\ Done(state.lines) \in Seq(Line) /\ Socket!Front(Shown(state)) \in Seq(Line)
          /\ Done(next.lines) \in Seq(Line)
      BY <1>1, <2>2, RetypedIsLines, FrontAndLast DEF Done, Lines
    <3>. QED
      BY <2>6, <2>7, <3>1 DEF Leads
  <2>9. IsClean(next.line, erases)
    BY <2>2 DEF IsClean
  <2>. QED
    BY <2>2, <2>5, <2>8, <2>9
<1>6. CASE key = "erase" /\ erases /\ state.line = <<>>
  <2>1. next = state
    BY <1>6 DEF Socket!Edit, States
  <2>. QED
    BY <1>1, <1>2, <1>3, <1>6, <2>1, NothingToErase
<1>7. CASE key = "erase" /\ erases /\ state.line # <<>>
  <2>. DEFINE front == Socket!Front(state.line)
              last == Socket!Last(state.line)
  <2>1. /\ front \in Seq(Keys) /\ last \in Keys /\ Append(front, last) = state.line
        /\ Len(front) = Len(state.line) - 1 /\ Len(state.line) \in Nat \ {0}
        /\ \A i \in 1 .. Len(front) : front[i] = state.line[i]
        /\ last = state.line[Len(state.line)]
    BY <1>1, <1>7, FrontAndLast
  <2>2. next = [state EXCEPT !.line = front]
    BY <1>7 DEF Socket!Edit
  <2>3. next \in States /\ next.line = front /\ next.lines = state.lines
    <3>. HIDE DEF front
    <3>. QED
      BY <1>1, <2>1, <2>2 DEF States, Line
  <2>4. last # "enter" /\ last # "erase"
    <3>1. Len(state.line) \in DOMAIN state.line
      BY <1>1, <2>1
    <3>. QED
      BY <1>7, <2>1, <3>1 DEF IsClean
  <2>5. Shown(state) = Socket!TerminalKey(Shown(next), last)
    <3>. DEFINE retyped == Socket!Retyped(state.lines)
    <3>. HIDE DEF front, last, next
    <3>1. retyped \in Lines
      BY <1>1, RetypedIsLines DEF States
    <3>2. Shown(state) = Socket!Terminal(retyped, Append(front, last))
      BY <2>1 DEF Shown
    <3>3. Shown(next) = Socket!Terminal(retyped, front)
      BY <2>3 DEF Shown
    <3>. HIDE DEF retyped
    <3>. QED
      BY <2>1, <3>1, <3>2, <3>3, TerminalOfOneMore
  <2>6. Shown(next) \in Lines
    BY <2>3, ShownIsLines
  <2>7. Socket!TerminalKey(Shown(state), "erase") = Shown(next)
    <3>. HIDE DEF front, last, next
    <3>. QED
      BY <2>1, <2>4, <2>5, <2>6, EraseUndoes
  <2>8. IsClean(next.line, erases)
    <3>1. \A i \in DOMAIN front : i \in DOMAIN state.line /\ front[i] = state.line[i]
      <4>. HIDE DEF front
      <4>. QED
        BY <1>1, <2>1
    <3>. QED
      BY <2>3, <3>1 DEF IsClean
  <2>. QED
    BY <1>2, <1>7, <2>3, <2>7, <2>8
<1>8. CASE key # "enter" /\ ~(key = "erase" /\ erases)
  <2>1. next = [state EXCEPT !.line = Append(@, key)]
    BY <1>8 DEF Socket!Edit
  <2>2. next \in States /\ next.line = Append(state.line, key) /\ next.lines = state.lines
    <3>1. PICK line \in Seq(Keys) : line = Append(state.line, key)
      <4>1. \A l \in Seq(Keys) : Append(l, key) \in Seq(Keys)
        OBVIOUS
      <4>. HIDE DEF next
      <4>. QED
        BY <1>1, <4>1, Zenon
    <3>2. next = [state EXCEPT !.line = line]
      BY <2>1, <3>1
    <3>. HIDE DEF next
    <3>. QED
      BY <3>1, <3>2 DEF States, Line
  <2>3. Shown(next) = Socket!TerminalKey(Shown(state), key)
    BY <1>1, <2>2, TerminalOfOneMore DEF Shown
  <2>4. IsClean(next.line, erases)
    BY <1>1, <1>8, <2>2 DEF IsClean
  <2>. QED
    BY <1>2, <2>2, <2>3, <2>4
<1>. QED
  BY <1>4, <1>5, <1>6, <1>7, <1>8

Clean(erases) == {state \in States : IsClean(state.line, erases)}

\* What each turn of a loop only makes longer, the loop does.
LEMMA TurnsLead ==
    ASSUME NEW last \in Nat, NEW h, \A n \in 0 .. last : h[n] \in Seq(Line),
           \A n \in 1 .. last : Leads(h[n - 1], h[n])
    PROVE  \A n \in 0 .. last : Leads(h[0], h[n])
<1>. DEFINE Wrong == {n \in 0 .. last : ~Leads(h[0], h[n])}
<1>1. SUFFICES ASSUME Wrong # {} PROVE FALSE
  OBVIOUS
<1>2. PICK n \in Wrong : \A m \in Wrong : n <= m
  <2>1. Wrong \in SUBSET Nat
    OBVIOUS
  <2>. HIDE DEF Wrong
  <2>. QED
    BY <1>1, <2>1, Least
<1>3. 0 \in 0 .. last /\ h[0] \in Seq(Line)
  OBVIOUS
<1>4. Leads(h[0], h[0])
  BY <1>3 DEF Leads
<1>5. n \in 1 .. last /\ n - 1 \in 0 .. last /\ n - 1 \notin Wrong
  BY <1>2, <1>4
<1>6. Leads(h[0], h[n - 1]) /\ Leads(h[n - 1], h[n])
  BY <1>5
<1>7. h[n - 1] \in Seq(Line) /\ h[n] \in Seq(Line)
  BY <1>5
<1>8. Leads(h[0], h[n])
  <2>. HIDE DEF Wrong
  <2>. QED
    BY <1>3, <1>6, <1>7 DEF Leads
<1>. QED
  BY <1>2, <1>8

LEMMA EditAppends ==
    ASSUME NEW erases \in BOOLEAN, NEW state \in Clean(erases), NEW key \in Keys
    PROVE  Leads(state.lines, Socket!Edit(state, key, erases).lines)
<1>1. state.line \in Line /\ state.lines \in Seq(Line)
  BY DEF Clean, States
<1>2. Leads(state.lines, state.lines) /\ Leads(state.lines, Append(state.lines, state.line))
  BY <1>1 DEF Leads
<1>3. \/ Socket!Edit(state, key, erases).lines = state.lines
      \/ Socket!Edit(state, key, erases).lines = Append(state.lines, state.line)
  BY DEF Socket!Edit, Clean, States
<1>. QED
  BY <1>2, <1>3

LEMMA MessageIsShown ==
    ASSUME NEW erases \in BOOLEAN, NEW state \in Clean(erases), NEW keys \in Seq(Keys)
    PROVE  /\ Socket!EditAll(state, keys, erases) \in Clean(erases)
           /\ Shown(Socket!EditAll(state, keys, erases)) = Socket!Terminal(Shown(state), keys)
           /\ Leads(Done(state.lines), Done(Socket!EditAll(state, keys, erases).lines))
           /\ Leads(state.lines, Socket!EditAll(state, keys, erases).lines)
<1>. DEFINE last == Len(keys)
            step == [n \in 1 .. last |-> [e \in Clean(erases) |->
                                             Socket!Edit(e, keys[n], erases)]]
            IsEdited(g) == g = [n \in 0 .. last |->
                                   IF n = 0 THEN state
                                   ELSE Socket!Edit(g[n - 1], keys[n], erases)]
<1>1. last \in Nat /\ last \in 0 .. last /\ \A n \in 1 .. last : keys[n] \in Keys
  OBVIOUS
<1>2. \A e \in Clean(erases), key \in Keys :
         /\ Socket!Edit(e, key, erases) \in Clean(erases)
         /\ Shown(Socket!Edit(e, key, erases)) = Socket!TerminalKey(Shown(e), key)
         /\ Leads(Done(e.lines), Done(Socket!Edit(e, key, erases).lines))
  BY EditIsShown DEF Clean
<1>3. step \in [1 .. last -> [Clean(erases) -> Clean(erases)]]
  BY <1>1, <1>2
<1>4. PICK f : Course(f, Clean(erases), state, step, last)
  <2>. HIDE DEF last, step
  <2>. QED
    BY <1>1, <1>3, CourseExists
<1>5. IsEdited(f)
  <2>1. /\ f = [n \in 0 .. last |-> IF n = 0 THEN state ELSE step[n][f[n - 1]]]
        /\ \A n \in 0 .. last : f[n] \in Clean(erases)
    <3>. HIDE DEF last, step
    <3>. QED
      BY <1>4 DEF Course
  <2>2. \A n \in 0 .. last : n # 0 => n \in 1 .. last /\ n - 1 \in 0 .. last
    BY <1>1
  <2>3. \A n \in 0 .. last : n # 0 => step[n][f[n - 1]] = Socket!Edit(f[n - 1], keys[n], erases)
    BY <2>1, <2>2
  <2>. HIDE DEF last, step
  <2>. QED
    BY <2>1, <2>3
<1>6. PICK g : IsEdited(g) /\ Socket!EditAll(state, keys, erases) = g[last]
  <2>1. \E g : IsEdited(g)
    BY <1>5
  <2>. QED
    BY <2>1 DEF Socket!EditAll
<1>7. g[0] = state /\ \A n \in 1 .. last : g[n] = Socket!Edit(g[n - 1], keys[n], erases)
  <2>1. \A n \in 0 .. last : g[n] = IF n = 0 THEN state
                                    ELSE Socket!Edit(g[n - 1], keys[n], erases)
    <3>. HIDE DEF step
    <3>. QED
      BY <1>6
  <2>2. 0 \in 0 .. last /\ \A n \in 1 .. last : n \in 0 .. last /\ n # 0
    BY <1>1
  <2>. HIDE DEF last, step, IsEdited
  <2>. QED
    BY <2>1, <2>2
<1>8. \A n \in 0 .. last : g[n] \in Clean(erases)
  <2>1. Follows(g, Clean(erases), state, step, last)
    <3>1. \A n \in 1 .. last : g[n - 1] \in Clean(erases) => g[n] = step[n][g[n - 1]]
      BY <1>7
    <3>. HIDE DEF last, step, IsEdited
    <3>. QED
      BY <1>7, <3>1 DEF Follows
  <2>2. Agree(f, g, last)
    <3>. HIDE DEF last, step, IsEdited
    <3>. QED
      BY <1>4, <2>1, OneCourse, Zenon
  <2>. HIDE DEF last, step, IsEdited
  <2>. QED
    BY <1>4, <2>2 DEF Agree, Course
<1>. HIDE DEF step, IsEdited
<1>9. ASSUME NEW n \in 1 .. last
      PROVE  /\ n \in 0 .. last /\ n - 1 \in 0 .. last
             /\ g[n - 1] \in Clean(erases) /\ g[n] \in Clean(erases)
             /\ Shown(g[n]) = Socket!TerminalKey(Shown(g[n - 1]), keys[n])
             /\ Leads(Done(g[n - 1].lines), Done(g[n].lines))
  <2>1. n \in 0 .. last /\ n - 1 \in 0 .. last /\ keys[n] \in Keys
    BY <1>1
  <2>. HIDE DEF last
  <2>. QED
    BY <1>2, <1>7, <1>8, <2>1
<1>10. Shown(g[last]) = Socket!Terminal(Shown(state), keys)
  <2>. DEFINE h == [n \in 0 .. last |-> Shown(g[n])]
  <2>1. h[0] = Shown(state) /\ h[last] = Shown(g[last])
    BY <1>1, <1>7
  <2>2. \A n \in 1 .. last : h[n] = Socket!TerminalKey(h[n - 1], keys[n])
    BY <1>9
  <2>3. Shown(state) \in Lines
    BY ShownIsLines DEF Clean
  <2>. HIDE DEF h
  <2>4. Takes(h, Shown(state), keys)
    BY <2>1, <2>2 DEF Takes
  <2>. QED
    BY <2>1, <2>3, <2>4, TerminalIs
<1>11. \A n \in 0 .. last : Done(g[n].lines) \in Seq(Line)
  <2>1. ASSUME NEW n \in 0 .. last PROVE Done(g[n].lines) \in Seq(Line)
    <3>1. Socket!Retyped(g[n].lines) \in Lines
      BY <1>8, ShownIsLines DEF Clean
    <3>. QED
      BY <3>1, FrontAndLast DEF Done, Lines
  <2>. QED
    BY <2>1
<1>12. \A n \in 0 .. last : Leads(Done(state.lines), Done(g[n].lines))
  <2>. DEFINE h == [n \in 0 .. last |-> Done(g[n].lines)]
  <2>1. /\ \A n \in 0 .. last : h[n] \in Seq(Line) /\ h[n] = Done(g[n].lines)
        /\ h[0] = Done(state.lines)
    BY <1>1, <1>7, <1>11
  <2>2. \A n \in 1 .. last : Leads(h[n - 1], h[n])
    BY <1>9
  <2>. HIDE DEF h, last
  <2>3. \A n \in 0 .. last : Leads(h[0], h[n])
    BY <1>1, <2>1, <2>2, TurnsLead
  <2>. QED
    BY <2>1, <2>3
<1>13. \A n \in 0 .. last : Leads(state.lines, g[n].lines)
  <2>. DEFINE h == [n \in 0 .. last |-> g[n].lines]
  <2>1. /\ \A n \in 0 .. last : h[n] \in Seq(Line) /\ h[n] = g[n].lines
        /\ h[0] = state.lines
    BY <1>1, <1>7, <1>8 DEF Clean, States
  <2>2. \A n \in 1 .. last : Leads(h[n - 1], h[n])
    <3>1. \A n \in 1 .. last : keys[n] \in Keys
      BY <1>1
    <3>. HIDE DEF last
    <3>. QED
      BY <1>7, <1>9, <3>1, EditAppends
  <2>. HIDE DEF h, last
  <2>3. \A n \in 0 .. last : Leads(h[0], h[n])
    BY <1>1, <2>1, <2>2, TurnsLead
  <2>. QED
    BY <2>1, <2>3
<1>. QED
  BY <1>1, <1>6, <1>8, <1>10, <1>12, <1>13

-----------------------------------------------------------------------------
(***************************************************************************)
(* As long as the command reads, what it has been given and is about to be *)
(* given is what the log and the open line say; afterwards the log only    *)
(* gets longer.                                                            *)
(***************************************************************************)
Log == [line |-> buffer, lines |-> handed]

StagesAgree ==
    /\ main \in {"connecting", "starting", "running", "ended"}
    /\ process \in {"none", "running", "exited"}
    /\ main \in {"connecting", "starting"} => process = "none" /\ helper = "none"
    /\ main = "running" => process # "none"

\* The log misses only what it cannot hold, unless its file has failed.
LogInv ==
    \A i \in unlogged :
       i \in DOMAIN handed /\ (logFailed \/ ~Socket!IsRecordable(handed[i]))

IsOver == main = "ended" \/ process = "exited"

StreamInv ==
    /\ handler.erases \in BOOLEAN
    /\ inbox \in Seq(Messages)
    /\ held \in Line /\ received \in Line
    /\ Log \in Clean(handler.erases)
    /\ StagesAgree
    /\ LogInv
    /\ Leads(Socket!Front(Socket!Terminal(Socket!NoLines, received)), Done(handed))
    /\ ~IsOver =>
          Socket!Terminal(Socket!Terminal(Socket!NoLines, received), held) = Shown(Log)

\* The invariant holds of a stream that begins and of one that stands still, and
\* every step of the loops, the browser and the command keeps it.
LEMMA StreamStarts ==
    ASSUME handler.erases \in BOOLEAN, inbox = <<>>, held = <<>>, buffer = <<>>,
           handed = <<>>, received = <<>>, StagesAgree, unlogged = {}
    PROVE  StreamInv
<1>1. inbox \in Seq(Messages) /\ <<>> \in Line /\ handed \in Seq(Line)
  BY DEF Line
<1>2. Log \in Clean(handler.erases)
  BY <1>1 DEF Log, Clean, States, IsClean
<1>3. /\ Socket!Terminal(Socket!NoLines, <<>>) = Socket!NoLines
      /\ Socket!Retyped(handed) = Socket!NoLines
      /\ Socket!NoLines \in Lines
  BY NoLinesIsLines, TerminalOfNone, RetypedOfNone
<1>4. Shown(Log) = Socket!NoLines
  BY <1>3 DEF Shown, Log
<1>5. Leads(Socket!Front(Socket!NoLines), Socket!Front(Socket!NoLines))
  BY <1>3, FrontAndLast DEF Leads, Lines
<1>. QED
  BY <1>1, <1>2, <1>3, <1>4, <1>5 DEF StreamInv, LogInv, Done

LEMMA LineStands ==
    ASSUME StreamInv,
           UNCHANGED <<handler, held, buffer, handed, unlogged, logFailed, received>>,
           inbox' \in Seq(Messages), IsOver => IsOver',
           StagesAgree'
    PROVE  StreamInv'
  BY DEF StreamInv, LogInv, Socket!IsRecordable, Log, Shown, IsOver

LEMMA ReadMessageKeeps == ASSUME StreamInv, Socket!ReadMessage PROVE StreamInv'
<1>1. /\ held = <<>> /\ inbox # <<>> /\ inbox' = Tail(inbox)
      /\ UNCHANGED <<handler, main, helper, process, received>>
  BY DEF Socket!ReadMessage, Socket!ends
<1>2. inbox' \in Seq(Messages) /\ Head(inbox) \in Seq(Keys)
  <2>1. inbox \in Seq(Messages)
    BY DEF StreamInv
  <2>2. Head(inbox) \in Messages /\ Tail(inbox) \in Seq(Messages)
    BY <1>1, <2>1
  <2>. QED
    BY <1>1, <2>2, MessagesAssumption
<1>3. CASE ~Socket!IsTyped(Head(inbox))
  <2>1. UNCHANGED <<held, buffer, handed, unlogged, logFailed>>
    BY <1>3 DEF Socket!ReadMessage
  <2>. QED
    BY <1>1, <1>2, <2>1, LineStands DEF StreamInv, IsOver, StagesAgree
<1>4. CASE Socket!IsTyped(Head(inbox))
  <2>. DEFINE keys == Head(inbox)
              edit == Socket!EditAll(Log, keys, handler.erases)
  <2>1. held' = keys /\ buffer' = edit.line /\ handed' = edit.lines
    BY <1>4 DEF Socket!ReadMessage, Socket!LogActivity, Log
  <2>2. /\ edit \in Clean(handler.erases)
        /\ Shown(edit) = Socket!Terminal(Shown(Log), keys)
        /\ Leads(Done(handed), Done(edit.lines)) /\ Leads(handed, edit.lines)
    <3>1. Log.lines = handed
      BY DEF Log
    <3>. QED
      BY <1>2, <3>1, MessageIsShown DEF StreamInv
  <2>3. LogInv'
    <3>. DEFINE places == Len(handed) + 1 .. Len(edit.lines)
    <3>1. PICK failed \in SUBSET places :
            /\ unlogged' = unlogged \cup failed
                             \cup {i \in places : ~Socket!IsRecordable(edit.lines[i])}
            /\ logFailed' = (logFailed \/ failed # {})
      BY <1>4 DEF Socket!ReadMessage, Socket!LogActivity, Log
    <3>. HIDE DEF edit, keys
    <3>2. handed \in Seq(Line) /\ edit.lines \in Seq(Line)
      BY <2>2 DEF StreamInv, Log, Clean, States
    <3>3. /\ \A i \in DOMAIN handed : i \in DOMAIN edit.lines /\ edit.lines[i] = handed[i]
          /\ places \subseteq DOMAIN edit.lines
      BY <2>2, <3>2 DEF Leads
    <3>4. ASSUME NEW i \in unlogged'
          PROVE  i \in DOMAIN edit.lines
                    /\ (logFailed' \/ ~Socket!IsRecordable(edit.lines[i]))
      <4>1. CASE i \in unlogged
        BY <3>1, <3>3, <4>1 DEF StreamInv, LogInv
      <4>2. CASE i \in failed
        BY <3>1, <3>3, <4>2
      <4>3. CASE i \in places /\ ~Socket!IsRecordable(edit.lines[i])
        BY <3>3, <4>3
      <4>. HIDE DEF places
      <4>. QED
        BY <3>1, <3>4, <4>1, <4>2, <4>3
    <3>. QED
      BY <1>1, <2>1, <3>4 DEF LogInv, Socket!IsRecordable
  <2>. HIDE DEF edit, keys
  <2>10. Log' = edit
    BY <2>1, <2>2 DEF Log, Clean, States
  <2>4. held' \in Line
    BY <1>2, <2>1 DEF Line, keys
  <2>5. /\ Socket!Terminal(Socket!NoLines, received) \in Lines
        /\ Socket!Terminal(Socket!Terminal(Socket!NoLines, received), held)
             = Socket!Terminal(Socket!NoLines, received)
    <3>1. <<>> \in Seq(Keys)
      OBVIOUS
    <3>2. Socket!Terminal(Socket!NoLines, received) \in Lines
      BY <3>1, NoLinesIsLines, TerminalOfParts DEF StreamInv, Line
    <3>. QED
      BY <1>1, <3>2, TerminalOfNone
  <2>6. Leads(Socket!Front(Socket!Terminal(Socket!NoLines, received)), Done(edit.lines))
    <3>1. /\ Socket!Front(Socket!Terminal(Socket!NoLines, received)) \in Seq(Line)
          /\ Done(handed) \in Seq(Line) /\ Done(edit.lines) \in Seq(Line)
      <4>1. /\ Socket!Retyped(Log.lines) \in Lines /\ Socket!Retyped(edit.lines) \in Lines
        BY <2>2, ShownIsLines DEF StreamInv, Clean
      <4>. QED
        BY <2>5, <4>1, FrontAndLast DEF Lines, Done, Log
    <3>2. Leads(Socket!Front(Socket!Terminal(Socket!NoLines, received)), Done(handed))
      BY DEF StreamInv
    <3>. QED
      BY <2>2, <3>1, <3>2 DEF Leads
  <2>7. ~IsOver =>
          Socket!Terminal(Socket!Terminal(Socket!NoLines, received), held')
             = Shown(edit)
    BY <2>1, <2>2, <2>5 DEF StreamInv
  <2>8. Shown(Log)' = Shown(edit)
    BY <2>10 DEF Shown
  <2>9. (IsOver' <=> IsOver) /\ (StagesAgree' <=> StagesAgree)
    BY <1>1 DEF IsOver, StagesAgree
  <2>. QED
    BY <1>1, <1>2, <2>1, <2>2, <2>3, <2>4, <2>6, <2>7, <2>8, <2>9, <2>10
       DEF StreamInv, Done
<1>. QED
  BY <1>3, <1>4

LEMMA WriteInputKeeps == ASSUME StreamInv, Socket!WriteInput PROVE StreamInv'
<1>1. /\ held' = <<>>
      /\ UNCHANGED <<handler, main, helper, process, inbox, buffer, handed, unlogged,
                     logFailed>>
  BY DEF Socket!WriteInput, Socket!ends, Socket!talk
<1>2. <<>> \in Line
  BY DEF Line
<1>3. /\ Socket!Retyped(handed) \in Lines /\ buffer \in Seq(Keys)
      /\ IsPlain(buffer)
  BY ShownIsLines DEF StreamInv, Log, Clean, IsClean, IsPlain
<1>4. UNCHANGED <<Log, Shown(Log), Done(handed), IsOver, StagesAgree, LogInv>>
  BY <1>1 DEF LogInv, Socket!IsRecordable, Log, Shown, Done, IsOver, StagesAgree
<1>5. CASE main = "running" /\ process = "running"
  <2>1. received' = received \o held /\ ~IsOver
    BY <1>5 DEF Socket!WriteInput, IsOver
  <2>2. received' \in Line
    BY <2>1 DEF StreamInv, Line
  <2>3. /\ Socket!Terminal(Socket!NoLines, received') = Shown(Log)
        /\ Socket!Terminal(Socket!NoLines, received') \in Lines
    <3>1. Socket!Terminal(Socket!NoLines, received')
            = Socket!Terminal(Socket!Terminal(Socket!NoLines, received), held)
      BY <2>1, NoLinesIsLines, TerminalOfParts DEF StreamInv, Line
    <3>2. Socket!Terminal(Socket!NoLines, received') \in Lines
      BY <1>2, <2>2, NoLinesIsLines, TerminalOfParts DEF Line
    <3>. QED
      BY <2>1, <3>1, <3>2 DEF StreamInv
  <2>4. Socket!Front(Shown(Log)) = Done(handed)
    BY <1>3, DoneLinesStay DEF Shown, Log, Done
  <2>5. Leads(Done(handed), Done(handed))
    BY <1>3, FrontAndLast DEF Leads, Done, Lines
  <2>6. Socket!Terminal(Socket!Terminal(Socket!NoLines, received'), <<>>) = Shown(Log)
    BY <2>3, TerminalOfNone
  <2>. QED
    BY <1>1, <1>2, <1>4, <2>2, <2>3, <2>4, <2>5, <2>6 DEF StreamInv
<1>6. CASE ~(main = "running" /\ process = "running")
  <2>1. received' = received
    BY <1>6 DEF Socket!WriteInput
  <2>2. CASE IsOver
    BY <1>1, <1>2, <1>4, <2>1, <2>2 DEF StreamInv
  <2>3. CASE ~IsOver
    BY <1>6, <2>3 DEF StreamInv, StagesAgree, IsOver, Socket!WriteInput, Socket!Runs
  <2>. QED
    BY <2>2, <2>3
<1>. QED
  BY <1>5, <1>6

LEMMA StreamStep == StreamInv /\ (Socket!Next \/ UNCHANGED streamVars) => StreamInv'
<1>. SUFFICES ASSUME StreamInv, Socket!Next \/ UNCHANGED streamVars
              PROVE  StreamInv'
  OBVIOUS
<1>. USE DEF Socket!line, Socket!talk, Socket!ends
<1>1. StagesAgree /\ inbox \in Seq(Messages)
  BY DEF StreamInv
<1>2. CASE /\ UNCHANGED <<handler, held, buffer, handed, unlogged, logFailed, received>>
           /\ inbox' \in Seq(Messages) /\ StagesAgree' /\ (IsOver => IsOver')
  BY <1>2, LineStands
<1>3. CASE UNCHANGED streamVars
  BY <1>1, <1>2, <1>3 DEF streamVars, StagesAgree, IsOver
<1>4. CASE Socket!handleWsAuth \/ Socket!StartPTY \/ Socket!StartFails
  <2>1. UNCHANGED <<handler, held, buffer, handed, unlogged, logFailed, received, inbox>>
    BY <1>4 DEF Socket!handleWsAuth, Socket!StartPTY, Socket!StartFails
  <2>2. StagesAgree' /\ ~IsOver
    BY <1>1, <1>4 DEF Socket!handleWsAuth, Socket!StartPTY, Socket!StartFails,
       StagesAgree, IsOver
  <2>. QED
    BY <1>1, <1>2, <2>1, <2>2
<1>5. CASE Socket!CopyOutput \/ Socket!PrintOutput \/ Socket!Leave
  BY <1>1, <1>2, <1>5 DEF Socket!CopyOutput, Socket!PrintOutput, Socket!Leave,
     StagesAgree, IsOver
<1>6. ASSUME NEW loop, Socket!Runs(loop), Socket!End(loop)
      PROVE  StagesAgree' /\ (IsOver => IsOver')
  BY <1>1, <1>6 DEF Socket!Runs, Socket!End, Socket!EndHandler, StagesAgree, IsOver
<1>7. CASE Socket!WriteFails \/ Socket!OutputEnds \/ Socket!ReadFails
  <2>1. UNCHANGED <<handler, held, buffer, handed, unlogged, logFailed, received, inbox>>
    BY <1>7 DEF Socket!WriteFails, Socket!OutputEnds, Socket!ReadFails
  <2>2. \E loop : Socket!Runs(loop) /\ Socket!End(loop)
    BY <1>7 DEF Socket!WriteFails, Socket!OutputEnds, Socket!ReadFails
  <2>. QED
    BY <1>1, <1>2, <1>6, <2>1, <2>2
<1>8. CASE Socket!Exit \/ Socket!HangUp
  BY <1>1, <1>2, <1>8 DEF Socket!Exit, Socket!HangUp, StagesAgree, IsOver
<1>9. CASE \E msg \in Messages : Socket!Send(msg)
  <2>1. PICK msg \in Messages : Socket!Send(msg)
    BY <1>9
  <2>2. inbox' \in Seq(Messages)
    BY <1>1, <2>1 DEF Socket!Send
  <2>. QED
    BY <1>1, <1>2, <2>1, <2>2 DEF Socket!Send, StagesAgree, IsOver
<1>10. CASE Socket!Done
  BY <1>3, <1>10 DEF Socket!Done, Socket!vars, streamVars
<1>. QED
  BY <1>3, <1>4, <1>5, <1>7, <1>8, <1>9, <1>10, ReadMessageKeeps, WriteInputKeeps
     DEF Socket!Next, Socket!Loops

LEMMA LeadsIsPrefix ==
    ASSUME NEW s \in Seq(Line), NEW t \in Seq(Line), Leads(s, t)
    PROVE  Socket!IsPrefix(s, t)
<1>1. Len(s) \in Nat /\ Len(t) \in Nat /\ Len(s) <= Len(t)
  BY DEF Leads
<1>2. SubSeq(s, 1, Len(s)) = SubSeq(t, 1, Len(s))
  <2>1. SubSeq(s, 1, Len(s)) \in Seq(Line) /\ Len(SubSeq(s, 1, Len(s))) = Len(s)
    BY <1>1
  <2>2. SubSeq(t, 1, Len(s)) \in Seq(Line) /\ Len(SubSeq(t, 1, Len(s))) = Len(s)
    BY <1>1
  <2>3. \A i \in 1 .. Len(s) : SubSeq(s, 1, Len(s))[i] = SubSeq(t, 1, Len(s))[i]
    BY <1>1 DEF Leads
  <2>. QED
    BY <2>1, <2>2, <2>3
<1>. QED
  BY <1>1, <1>2 DEF Socket!IsPrefix

(***************************************************************************)
(* No command runs in a terminal or a console that was not handed to the   *)
(* activity log before, and the log misses none but those that make no     *)
(* JSON and those its file has failed: for any messages of any keys and    *)
(* any number of them, and however the loops and the end of the command    *)
(* interleave.                                                             *)
(***************************************************************************)
THEOREM RunCommandsAreHandedOn == GoroutinesSpec => []CommandsAreHandedOn
<1>1. GoroutinesInit => StreamInv
  <2>. SUFFICES ASSUME GoroutinesInit PROVE StreamInv
    OBVIOUS
  <2>1. \A h \in Socket!Handlers : h.erases \in BOOLEAN
    <3>1. Socket!AppTerminal.erases = TRUE
      BY DEF Socket!AppTerminal
    <3>2. Socket!ContainerTerminal.erases = TRUE
      BY DEF Socket!ContainerTerminal, Socket!AppTerminal
    <3>3. Socket!ServiceConsole.erases = FALSE
      BY DEF Socket!ServiceConsole, Socket!AppTerminal
    <3>4. Socket!ContainerLogs.erases = FALSE
      BY DEF Socket!ContainerLogs
    <3>5. Socket!AppLogs.erases = FALSE
      BY DEF Socket!AppLogs
    <3>6. Socket!NginxLogs.erases = FALSE
      BY DEF Socket!NginxLogs, Socket!AppLogs
    <3>. QED
      BY <3>1, <3>2, <3>3, <3>4, <3>5, <3>6 DEF Socket!Handlers
  <2>2. handler \in Socket!Handlers
    BY DEF GoroutinesInit, Socket!Init, Socket!Handlers
  <2>3. /\ inbox = <<>> /\ held = <<>> /\ buffer = <<>> /\ handed = <<>>
        /\ received = <<>> /\ unlogged = {} /\ StagesAgree
    BY DEF GoroutinesInit, Socket!Init, StagesAgree
  <2>. QED
    BY <2>1, <2>2, <2>3, StreamStarts
<1>2. StreamInv /\ [GoroutinesNext]_<<updateVars, streamVars, streams>> => StreamInv'
  BY StreamStep DEF GoroutinesNext
<1>3. StreamInv => CommandsAreHandedOn
  <2>. SUFFICES ASSUME StreamInv PROVE CommandsAreHandedOn
    OBVIOUS
  <2>1. <<>> \in Seq(Keys)
    OBVIOUS
  <2>2. Socket!Terminal(Socket!NoLines, received) \in Lines
    BY <2>1, NoLinesIsLines, TerminalOfParts DEF StreamInv, Line
  <2>3. Socket!Retyped(handed) \in Lines
    BY ShownIsLines DEF StreamInv, Log, Clean
  <2>4. Socket!CommandsRun \in Seq(Line) /\ Socket!CommandsHanded \in Seq(Line)
    BY <2>2, <2>3, FrontAndLast DEF Socket!CommandsRun, Socket!CommandsHanded, Lines
  <2>5. Leads(Socket!CommandsRun, Socket!CommandsHanded)
    BY DEF StreamInv, Done, Socket!CommandsRun, Socket!CommandsHanded
  <2>. QED
    BY <2>4, <2>5, LeadsIsPrefix
       DEF StreamInv, LogInv, CommandsAreHandedOn, Socket!CommandsAreHandedOn
<1>. QED
  BY <1>1, <1>2, <1>3, PTL DEF GoroutinesSpec
=============================================================================
