----------------------------- MODULE MCBackups ------------------------------
(***************************************************************************)
(* Instances of Backups: the databases, and the dates the runs start at.   *)
(***************************************************************************)
EXTENDS Backups

CONSTANTS postgres, redis, blog, shop

OneType == <<postgres>>
OneDatabase == [t \in TypeNames |-> <<blog>>]

TwoTypes == <<postgres, redis>>
TwoDatabases == [t \in TypeNames |-> IF t = postgres THEN <<blog, shop>> ELSE <<blog>>]

Date(year, month, dom, weekday, week) ==
    [day |-> 0, month |-> 12 * year + month - 1, dom |-> dom,
     weekday |-> weekday, week |-> week]

November2024 == Date(2024, 11, 1, 5, 44)
February2025 == Date(2025, 2, 26, 3, 9)
=============================================================================
