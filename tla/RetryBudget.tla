---------------------------- MODULE RetryBudget ----------------------------
(***************************************************************************)
(* What the background jobs promise of their retries: one book is worked   *)
(* on at a time, it is taken up only while it has retries left, an attempt *)
(* uses up one of them at most, and only a success or a user gives them    *)
(* back.                                                                   *)
(***************************************************************************)
EXTENDS Integers

CONSTANTS
    Books,   \* the books to work on
    Limit,   \* the failures a book is allowed
    None     \* no book

VARIABLES
    holder,    \* the book that is being worked on
    failures,  \* the failures of a book since they were last forgiven
    counted    \* the attempt under way has failed, and that is recorded

vars == <<holder, failures, counted>>

Init ==
    /\ holder = None
    /\ failures = [b \in Books |-> 0]
    /\ counted = FALSE

Take(b) ==
    /\ holder = None
    /\ failures[b] < Limit
    /\ holder' = b
    /\ UNCHANGED <<failures, counted>>

\* The failure counts.
Fail ==
    /\ holder # None /\ ~counted
    /\ failures' = [failures EXCEPT ![holder] = @ + 1]
    /\ counted' = TRUE
    /\ UNCHANGED holder

\* The failure does not count.
Excuse ==
    /\ holder # None /\ ~counted
    /\ counted' = TRUE
    /\ UNCHANGED <<holder, failures>>

Succeed ==
    /\ holder # None /\ ~counted
    /\ failures' = [failures EXCEPT ![holder] = 0]
    /\ holder' = None
    /\ UNCHANGED counted

\* The attempt is over, or the process.
Release ==
    /\ holder # None
    /\ holder' = None /\ counted' = FALSE
    /\ UNCHANGED failures

\* A user wants it tried again.
Renew(b) ==
    /\ failures' = [failures EXCEPT ![b] = 0]
    /\ UNCHANGED <<holder, counted>>

Next ==
    \/ \E b \in Books : Take(b) \/ Renew(b)
    \/ Fail \/ Excuse \/ Succeed \/ Release

Spec == Init /\ [][Next]_vars
=============================================================================
