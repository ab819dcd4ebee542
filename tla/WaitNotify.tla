----------------------------- MODULE WaitNotify -----------------------------
(***************************************************************************)
(* What a condition variable and the mutex of its guard promise the        *)
(* threads of a program, as the comment of src/translator/sync/condvar.rs  *)
(* tells it: a thread that waits gives the mutex up and is marked as       *)
(* waiting in one step; a notification wakes the thread if one waits and   *)
(* is lost if none does; a woken thread goes on once it has the mutex      *)
(* again.  The condition variable has room for one waiting thread.         *)
(***************************************************************************)
EXTENDS Naturals

VARIABLES
    locked,     \* BOOLEAN: a thread holds the mutex
    waiting,    \* BOOLEAN: a thread waits on the condition variable
    notified,   \* notifications sent and neither delivered nor lost
    woken       \* threads woken that have not gone on yet

vars == <<locked, waiting, notified, woken>>

TypeOK ==
    /\ locked \in BOOLEAN /\ waiting \in BOOLEAN
    /\ notified \in Nat /\ woken \in Nat

Init == ~locked /\ ~waiting /\ notified = 0 /\ woken = 0

Lock   == ~locked /\ locked' /\ UNCHANGED <<waiting, notified, woken>>
Unlock == locked /\ ~locked' /\ UNCHANGED <<waiting, notified, woken>>

\* The mutex is released and the thread waits, atomically.
Wait ==
    /\ locked /\ ~waiting
    /\ ~locked' /\ waiting'
    /\ UNCHANGED <<notified, woken>>

Notify == notified' = notified + 1 /\ UNCHANGED <<locked, waiting, woken>>

\* A notification is delivered to the thread that waits.
Wake ==
    /\ waiting /\ notified > 0
    /\ ~waiting' /\ notified' = notified - 1 /\ woken' = woken + 1
    /\ UNCHANGED locked

\* A notification is lost: no thread waits.
Lose ==
    /\ ~waiting /\ notified > 0
    /\ notified' = notified - 1
    /\ UNCHANGED <<locked, waiting, woken>>

\* A woken thread takes the mutex again and returns from its wait.
Resume ==
    /\ woken > 0 /\ ~locked
    /\ woken' = woken - 1 /\ locked'
    /\ UNCHANGED <<waiting, notified>>

Next == Lock \/ Unlock \/ Wait \/ Notify \/ Wake \/ Lose \/ Resume

Spec == Init /\ [][Next]_vars

=============================================================================
