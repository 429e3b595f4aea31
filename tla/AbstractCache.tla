---------------------------- MODULE AbstractCache ----------------------------
(***************************************************************************)
(* What a plugin's memory cache promises, whatever its data structures: it *)
(* is a table of counters, one for each key and time-bin.  A record adds   *)
(* to one counter; a purge takes every time-bin up to some last one, whole *)
(* and all keys alike, and hands it to one writer, or drops it when there  *)
(* is none.  Nothing else changes a counter or what was handed over.       *)
(***************************************************************************)
EXTENDS Integers

CONSTANTS
    Keys,      \* the values a set of aggregation primitives can have
    LastSlot,  \* time-bins are 1 .. LastSlot
    Amounts    \* what a record can add

Bins == Keys \X (1 .. LastSlot)

VARIABLES
    held,     \* counted and not handed over yet
    written,  \* handed to a writer
    lost      \* dropped for want of a writer

vars == <<held, written, lost>>

Init ==
    /\ held = [b \in Bins |-> 0]
    /\ written = [b \in Bins |-> 0]
    /\ lost = [b \in Bins |-> 0]

Add(b, n) ==
    /\ UNCHANGED <<written, lost>>
    /\ held' = [held EXCEPT ![b] = @ + n]

(* The counters that a purge up to time-bin t adds to an account, and what *)
(* it leaves in the cache.                                                 *)
Credited(acct, t) ==
    [b \in Bins |-> IF b[2] <= t THEN acct[b] + held[b] ELSE acct[b]]
Left(t) == [b \in Bins |-> IF b[2] <= t THEN 0 ELSE held[b]]

Purge(t) ==
    /\ held' = Left(t)
    /\ \/ written' = Credited(written, t) /\ UNCHANGED lost
       \/ lost' = Credited(lost, t) /\ UNCHANGED written

Next ==
    \/ \E b \in Bins, n \in Amounts : Add(b, n)
    \/ \E t \in 1 .. LastSlot : Purge(t)

Spec == Init /\ [][Next]_vars
=============================================================================
