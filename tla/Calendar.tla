------------------------------ MODULE Calendar ------------------------------
(***************************************************************************)
(* The part of Go's package time that the backups use: the date, the day   *)
(* of the week and the ISO week of a day, the day after it, and            *)
(* Time.AddDate of months, which lets a day that a month does not have run *)
(* over into the next month.  Months are counted from January of year 0.   *)
(***************************************************************************)
EXTENDS Integers

IsLeap(year) == year % 4 = 0 /\ (year % 100 # 0 \/ year % 400 = 0)

DaysIn(month) ==
    CASE month % 12 = 1              -> IF IsLeap(month \div 12) THEN 29 ELSE 28
      [] month % 12 \in {3, 5, 8, 10} -> 30
      [] OTHER                        -> 31

IsJanuary(month) == month % 12 = 0

(***************************************************************************)
(* A day: its number, its date, its weekday (1 is Monday, 7 is Sunday) and *)
(* its ISO week.                                                           *)
(***************************************************************************)
Day == [day : Nat, month : Nat, dom : 1 .. 31, weekday : 1 .. 7, week : 1 .. 53]

(***************************************************************************)
(* A date that may lie behind the end of its month.                        *)
(***************************************************************************)
Normalized(month, dom) ==
    IF dom > DaysIn(month)
    THEN [month |-> month + 1, dom |-> dom - DaysIn(month)]
    ELSE [month |-> month, dom |-> dom]

AddMonths(d, n) == Normalized(d.month + n, d.dom)

IsAfter(d, e) == d.month > e.month \/ (d.month = e.month /\ d.dom > e.dom)

(***************************************************************************)
(* A week belongs to the year of its Thursday: the Monday after d starts   *)
(* week 1 when the Thursday that follows it is among the first seven days  *)
(* of January.                                                             *)
(***************************************************************************)
StartsYear(d) ==
    LET thursday == Normalized(d.month, d.dom + 4) IN
    IsJanuary(thursday.month) /\ thursday.dom <= 7

NextDay(d) ==
    LET date == Normalized(d.month, d.dom + 1) IN
    [day     |-> d.day + 1,
     month   |-> date.month,
     dom     |-> date.dom,
     weekday |-> (d.weekday % 7) + 1,
     week    |-> IF d.weekday # 7 THEN d.week
                 ELSE IF StartsYear(d) THEN 1 ELSE d.week + 1]
=============================================================================
