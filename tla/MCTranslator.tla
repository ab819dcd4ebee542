---------------------------- MODULE MCTranslator ----------------------------
(***************************************************************************)
(* The values of the constants of Translator for the runs of TLC.          *)
(***************************************************************************)
EXTENDS Translator

\* Translation only: every call has a cleanup block and every slot may be
\* dropped; main can create, spawn, lock and wait, the closure lock and wait.
StructureTerminators == [main |-> 5, closure |-> 2]

\* The token game: main creates the mutex and the condition variable,
\* spawns, locks, waits and drops; the closure locks, notifies and drops.
BehaviourTerminators == [main |-> 5, closure |-> 3]

\* Two calls of wait need the closure to lock and wait as well.
TwoWaitsTerminators == [main |-> 5, closure |-> 3]

\* Two threads spawned and joined, with a step of their own each.
JoinTerminators == [main |-> 5, closure |-> 2]

NoCleanup   == {FALSE}
WithCleanup == {TRUE}

\* A program of every supported function and every kind of terminator.
EveryFunction == Sy!SupportedFunctions
EveryKind     == AllKinds

\* A program of mutexes, condition variables and threads that run to
\* their end.
CondvarProgram == {CM!CondvarNew, CM!CondvarNotifyOne, CM!CondvarWait,
                   MM!MutexNew, MM!MutexLock, TM!ThreadSpawn}
StraightLine   == {"Call", "Drop", "Return"}

\* A program of threads that take a step of their own, whose handles are
\* moved from one local to another, and that are joined.
JoinProgram == {TM!ThreadSpawn, TM!ThreadJoin}
WithGotoAndAssign == {"Assign", "Call", "Goto", "Return"}

\* A program of one function with every kind of terminator.
ControlFlowTerminators == [main |-> 4, closure |-> 0]
LockProgram == {MM!MutexNew, MM!MutexLock}
AnyCleanup  == BOOLEAN

\* The program clones its mutexes: `mr = clone(mx)`, or a clone of plain data.
CloneProgram == {Clone}

=============================================================================
