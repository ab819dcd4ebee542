# granite2: a model-checking project

granite2 translates the MIR of a Rust program into a Petri net. The net is
handed to a model checker that looks for deadlocks, so what matters about the
translator is the net it builds: which places and transitions it makes, how
it connects them, and what the token game of the result allows the threads of
the program to do.

This directory holds TLA+ models of the translator and of the nets it
produces, the TLC configurations that check them, and `PROJECT.json`, which
records components, runs, the source lines every definition stands for, the
findings and the hazards.

## 1. The system

| Part | Source | State | Operations |
|---|---|---|---|
| Petri net interface | `src/petri_net_interface.rs` (wrapping the `netcrab` library) | the net: places, transitions, arcs, initial tokens | `add_arc_place_transition`, `add_arc_transition_place` (panic on a refused arc); library: add place, transition, token |
| Labels | `src/naming/thread.rs`, `src/naming/function.rs` | none | one pure function per kind of label |
| Condition variable | `src/translator/sync/condvar.rs` | four place references | `Condvar::new`, `link_to_wait_call`, `link_to_notify_one_call` |
| Condition variable manager | `src/translator/sync/condvar_manager.rs` | `condvars`, `wait_counter`, `notify_one_counter` | `translate_call_{new,wait,notify_one}`, `translate_side_effects_{new,wait,notify_one}` and five private methods |
| Dispatcher | `src/translator/sync.rs` | none | `is_supported_function`, `call_function` |
| Aliasing | `src/translator/sync.rs` | none of its own; it writes the memory of the function | `check_if_sync_variable`, `handle_aggregate_assignment`, `link_if_sync_variable`, `link_return_value_if_sync_variable` |
| Walker | `src/translator/mir_visitor.rs` | the call stack and the function on top of it | `visit_basic_block_data`, `visit_assign`, `visit_statement`, `visit_terminator` (one arm per kind of terminator) |
| Type queries | `src/utils.rs` | none | `is_place_ty_with_concrete_type` and three queries on compiler data |
| Mutex, mutex manager | not in the sources (specification 4.3) | an unlocked/locked pair of places per mutex | `new`, `lock`, unlock on the drop of a guard |
| Thread manager | not in the sources (specification 4.5) | a start and an end place per thread | `spawn`, `join` |
| Memory | not in the sources (specification 4.2) | local variable -> synchronization variable, or aggregate of such | link, link a field, create an aggregate, lookup (panics) |
| Serializers, command line, compiler front end | not in the sources | | |

How they interact. The walker visits the basic blocks of a function. For a
call terminator it makes the places of the call and hands the call to the
dispatcher, which picks a manager by the name of the called function. A
manager translates a call with two methods, called one after the other:
`translate_call_*` adds the transitions of the call to the net and returns
them, and `translate_side_effects_*` looks the synchronization variable up
in the memory of the calling function and connects the transitions to its
places. A drop terminator asks the mutex manager to unlock the mutex if the
dropped variable is a lock guard. `spawn` creates the places of a thread,
whose closure the walker translates like another function. All of them write
into one net through the net interface. For the statements of a block the
aliasing functions of `sync.rs` keep the memory of the function up to date:
an assignment links its destination to what its right-hand side denotes, an
aggregate collects the variables among its operands, and the value a call
returns is linked to the first argument of the call.

The translator itself is sequential and runs once; no state survives it. Its
hard behaviours are of two kinds:

* in the translation: the two-method protocol leaves transitions half
  connected between the methods; labels are numbered by counters and by the
  length of a vector read at two different times; lookups panic and leave the
  net as it was at that line; references are indices into a vector; a
  variable is put into an aggregate by one statement and read from it by its
  field number by another;
* in the result: the net is a concurrent program. Its transitions fire in
  any order, and the gadgets of the mutex and the condition variable must
  make exactly the interleavings of the threads possible that the program
  has.

## 2. The modules

| Module | Models | Correspondence |
|---|---|---|
| `PetriNet` | the net and its token game | A net is a record of two sets and three bags; a place or transition reference is its label. The two wrappers refuse an arc between nodes the net does not have and set `aborted` (the panic). `IsEnabled` and `Fire` are the token game. |
| `Naming` | the label functions | A label is the tuple of its fixed text and what the code formats into it: equal tuples exactly when the code formats equal strings. The labels of `unwrap`, `Arc::new`, `clone` and `deref` calls take the number of the call. |
| `FunctionCall` | `FunctionPlaces`, the call in progress, `call_foreign_function` | `pending` is the call the translator is in the middle of: its function, arguments, destination and places, and the transitions the first method returned. |
| `Condvar` | `condvar.rs` | `new` lists the seven arcs in the order of the code; the two link methods likewise. |
| `CondvarManager` | `condvar_manager.rs` | Variables `condvars`, `wait_counter`, `notify_one_counter`; one action per public method, the private methods as operators. A panic of a lookup is a disjunct that sets `phase` to `"panicked"`, with the net as the code leaves it at that line. |
| `Mutex`, `MutexManager` | the mutex (from the specification) | `call_new`, `call_lock`, `handle_lock_guard_drop`, and `add_lock_guard`, `add_unlock_guard` as the condition variable manager calls them. |
| `ThreadManager` | `spawn` and `join` (from the specification) | Variables `threads`, `join_counter`. `call_spawn` makes the two places of the thread and binds the destination of the call to it; `call_join` looks the handle up (a panic where the memory does not know it) and makes the end place of the thread an input of the call. The closure starts with the mutexes and condition variables its creator knows. |
| `Sync` | `is_supported_function`, `call_function` of `sync.rs` | The set of the eight names, and what `call_function` does with a name: the handler it picks and whether it returns a postprocessing task (`Some(task)` for `wait`, `wait_while` and `Mutex::new`). `wait_while` is handled as `wait`, and a name without an arm (`spawn`) is the panic `Bug`. |
| `Memory` | the memory of a function (from the specification) | A function from slots to a kind and a reference. |
| `Aliasing` | the aliasing functions of `sync.rs` | Variables `memory` (the translator) and `value`, `refs` (the program). One action per kind of statement: `bind_new_handle`, `handle_aggregate_assignment`, `assign` (which is `link_if_sync_variable`), `call` (which is `link_return_value_if_sync_variable`). The two panics of `link_if_sync_variable` are disjuncts that set `phase`. The type of a place is the shape of its value: its text mentions a synchronization type exactly when the value holds a variable of that type. |
| `TypeQuery` | `is_place_ty_with_concrete_type` of `utils.rs` | A type is a tree of names; `to_string` renders it as a sequence of tokens, `split` cuts a text at `<` and `>` as `str::split` does (an empty part after a closing bracket included), and the function compares the parts. `Concrete` is what its documentation asks of a type. |
| `WaitNotify` | the abstract condition variable | What the comment of `condvar.rs` says a condition variable does for the threads: wait (release the mutex and wait, atomically), notify, wake, lose, resume. |
| `Translator` | the walker, the token game | One action per arm of `visit_terminator`, `visit_assign` (one disjunct per form of assignment), `call_returning_argument` (a call of `unwrap`, `Arc::new`, `clone` or `deref`: the transitions of a call without a body, and `link_return_value_if_sync_variable` of `Aliasing` on the memory of the walker), and `call_unresolved` for a callee that `extract_def_id_of_called_function_from_operand` does not resolve; `Manager` is the second half of a call, taken by the manager `Handler` named. Composes the managers over the shared variables `net`, `memory`, `pending`, `phase`. |
| `MCTranslator`, `MCAliasing`, `MCTypeQuery` | values of the constants | |

### The input

The program is the input of the translator. The model chooses it one
terminator at a time: `main` first, then the closure of every thread that
was spawned. A function is a chain of blocks: a terminator that continues
(a call of a supported function, a drop, a goto, a switch, an assertion)
leads to the next block, a switch by one transition for each of its targets,
and the function ends with the first terminator that leaves it (return,
resume or abort, unreachable). A terminator of a kind the translator does
not implement aborts the translation. The arguments and destinations are
slots: local variables of the types `Condvar`, `Mutex`, `MutexGuard` and
`JoinHandle`. The constants `ProgramFunctions`, `Kinds` and `Cleanups` say
which functions the programs of a run call, which kinds of terminator and
statement they have and whether their calls have cleanup blocks.

Between two terminators a function may assign one local to another, up to
`MaxAssignments` times: a mutex local from a mutex local (`lhs = &rhs`, a
copy of a reference, a reference to an `Arc`) and a join handle from a join
handle (`lhs = move rhs`). These are the four forms of assignment
`visit_assign` recognises, each with an `if` of its own
(`MutexForms`, `HandleForm`); a statement has one form. The three forms of a
mutex call `link_local_to_same_mutex`, that of a join handle
`link_local_to_same_join_handle`: the left-hand side is linked to what the
memory has for the right-hand side, and the lookup panics when the memory
has no variable of that kind there. A call whose callee
is not a function definition or a closure (a function pointer, any other
type) aborts the translation, as
`extract_def_id_of_called_function_from_operand` does.

A function may also call the functions that return their first argument,
those of `PassThrough`, up to `MaxPassThrough` times: `clone` and `deref` of
a mutex or a condition variable and `Arc::new`, with a destination of the
same type, `unwrap` of the result that holds a guard, and each of them on
plain data (a call without a slot). The call gets the two transitions of a
call without a body, labelled with the number of calls of that function
translated so far (`function_counter`), and
`link_return_value_if_sync_variable` links the destination to what the
memory has for the argument; it is the operator of module `Aliasing`,
instantiated on the memory of the walker with the types of the slots. The
programs of `control_flow` call `clone`; the other runs have no such call.

The programs are those the Rust compiler accepts: a guard is moved into
`wait` or dropped only while it is live, a mutex, a condition variable or
a thread is created in a slot once, a handle is joined once. A slot may also hold a value the memory does not
know; a call on it is where the lookups of the managers panic. The guard
that `wait` returns is kept in the slot of the guard that was passed in.

### The token game

When the last function has returned the net is finished
(`phase = "running"`), `marking` is set to its initial marking and
`fire(t)` plays the token game, so that one behaviour of the model is a
translation followed by a run of the translated net. TLC explores every
translation within the bounds and every run of every net.

Five history variables serve the properties only: `denotes` (what every
slot of every function holds by the semantics of the program: the variable
a call returned into it or an assignment copied into it, until a drop, a
`join` or a move takes it out; it is computed from the program alone and
never from the memory of the translator, and it also says which guards are
live and which handles can be joined), `holding` (the mutexes
whose guard the function holds at this point of the translation), `heldAt`
(the same, recorded for every block place), `joinTarget` (for every call of
`join`, the closure that the program spawned into the joined handle, read
from the program and not from the memory of the translator) and `unheard` (the condition
variables that were notified while no thread was waiting and whose
notification has not been consumed).

### The statements of a function (module `Aliasing`)

The input of `Aliasing` is a function given statement by statement, each
assigning the next local: a new synchronization variable, an aggregate of
up to `MaxOperands` operands (locals or constants), the copy, move or
reference of a place, and a call of `clone`, `deref`, `unwrap` or `Arc::new`,
which returns what its first argument holds. A place is a local with a
projection: an optional `Deref` (only of a local that holds a reference) and
up to `MaxFields` field numbers that the value of the local really has. The
model keeps the program's own values in `value`; the translator never reads
them, only their types. For a field the code passes the base place to
`link_field_in_aggregate` when there is a `Deref` in the projection
(`has_deref`, `base_place`) and the projected place when there is none, and
so does the model. The memory is that of the specification (4.2), which
keeps one entry per slot: it knows a place by its local. `DirectFields`
says whether the function has fields of a local without a `Deref`
(`_3.1`); the documentation of `link_if_sync_variable` lists only the forms
behind a reference (`(*_4).1`), and the violation runs take their fields
through one.

`link_place_to_same_value` copies whatever the memory has for the
right-hand side, an unlinked local included, where
`link_local_to_same_mutex` of the walker panics: the first links "whatever
the source denotes", the second looks up a variable of a given kind, and the
specification lets only such lookups fail.

## 3. The runs

| Run | Checks | Result |
|---|---|---|
| `structure` | `TypeOK`, `WellFormedBetweenCalls`, `NoMergedCallSites`, `MemoryFollowsProgram`, translation only | pass |
| `control_flow` | `ControlIsConserved`, `MemoryFollowsProgram`, `MutexFollowsGuard`, one function of every kind of terminator with an assignment between two mutex locals or a call of `clone`, translation and token game | pass |
| `thread_join` | `JoinWaitsForThread`, `JoinedProgramEnds` (liveness), up to two threads spawned and joined, a handle moved to another local, translation and token game | pass |
| `condvar_behaviour` | `MutexProtects`, `FlagAbsentWhileWaiting`, `OneControlTokenPerFunction`, `WakeupNeedsWaiter`, `ImplementsWaitNotify` (refinement), translation and token game | pass |
| `aliasing` | `TypeOK`, `LinkedThroughAggregatesOfVariables`, `OnlySyncIsLinked` of module `Aliasing` | pass |
| `two_wait_sites` | `OneControlTokenPerFunction` with two calls of `wait` | violation |
| `stale_notify` | `UnheardSignalIsLost` | violation |
| `every_wait_can_start` | `EveryWaitCanStart` | violation |
| `skipped_operand` | `LinkedToDenoted` with aggregates of three operands, constants and plain data among them, fields read through a reference | violation |
| `nested_field` | `LinkedToDenoted` with places of two fields, read through a reference | violation |
| `reborrow` | `HandlesEveryAssignment` with places `*_n` | violation |
| `type_query` | `AcceptsConcreteInstances` of module `TypeQuery` | violation |

### What passes

* `TypeOK`: beside the shapes of the variables, every reference a memory
  holds (of the function being translated and of every closure waiting to
  be translated) is one its manager has issued, and `condvars[i]` is the
  gadget numbered `i`.
* `WellFormedBetweenCalls`: the structural well-formedness the specification
  asks for (section 8), at every point where the translator is between two
  terminators, also for the unwind transitions.
* `NoMergedCallSites`: a transition takes the control token from at most one
  place and gives a function at most one, that is, no two call sites were
  given the same label.
* `MemoryFollowsProgram`: between two steps of the translation every slot
  that holds a variable is linked to that variable, in the memory of the
  function being translated and in the memory every closure will start
  with. In `structure` it is about the index each manager binds the
  destination of `new`, `lock` and `spawn` to, and about what `spawn` hands
  the closure; in `control_flow` about `visit_assign` and
  `link_return_value_if_sync_variable`: with two mutex locals, `mr = &mx`
  or `mr = clone(mx)` followed by a `lock` through `mr` must lock the mutex
  of `mx`.
* `MutexFollowsGuard`: in the net of a program of one function, the
  `locked` place of a mutex has its token exactly while a guard of the mutex
  is live where the control token is. `MutexProtects` allows a mutex that
  stays locked after its guard was dropped; this property does not, and it
  follows the guard from the `lock` (through either local of the mutex)
  over branches and assertions to the drop.
* `MutexProtects`: in every reachable marking of every net the two places
  of a mutex hold one token between them, and the control tokens in places
  where the program holds a guard of the mutex are covered by the token of
  `locked`. This is where the wait is interesting: it gives the mutex up at
  its start and must have it back when control arrives behind it.
* `FlagAbsentWhileWaiting`: `lost_signal_possible` and `wait_input` hold one
  token between them.
* `WakeupNeedsWaiter`: a step that adds a token to `signal_output` found a
  token in `wait_input` and one in `signal_input` (the conflict property of
  the specification, section 8).
* `OneControlTokenPerFunction`: with one call of `wait` in the program, no
  function ever holds two control tokens.
* `ControlIsConserved`: a program of one function is at exactly one place
  (a block, `PROGRAM_END` or `PROGRAM_PANIC`) in every marking, whichever
  arm of `visit_terminator` made the transition that moved it.
* `JoinWaitsForThread`: the join property of the specification (section 8).
  A step that fires the transition of a join finds no control token left in
  the blocks of the thread the program joins there. Two threads and two
  handles, joined in either order, tell a join of the right thread from a
  join of the other.

* `JoinedProgramEnds`: under weak fairness of the token game, every program
  of spawns and joins reaches `PROGRAM_END` with no thread left in a block.
  It finds the join that can never fire, which `JoinWaitsForThread` accepts.
* `ImplementsWaitNotify`: the token game of the net, seen through the places
  of a condition variable and of the mutex its waits release, takes only
  steps of the abstract condition variable `WaitNotify` (section 5).
* `LinkedThroughAggregatesOfVariables`: in a function whose aggregates hold
  synchronization variables only, every local that holds a variable (or a
  reference to one) is linked to it by the memory, through copies,
  references, aggregates, fields, reborrowed fields and returned values.
* `OnlySyncIsLinked`: a local whose type mentions no synchronization
  variable is never linked, also when it is read from a field of an
  aggregate that holds variables.
* `TypeOK` of `Aliasing`: the memory links assigned locals only, to handles
  and to non-empty aggregates of handles and aggregates.

### What does not hold (the findings)

1. **The wake-up is not addressed to the waiter** (`two_wait_sites`). The end
   of a wait has `signal_output` and the `unlocked` place of the mutex as its
   only inputs; nothing says that its own thread is waiting. With two calls
   of `wait` on one condition variable, the token produced for the thread
   that waits is taken by the end of the other call. In the counterexample
   `main` waits, the closure notifies, and the closure's own later `wait`
   ends before it started: the closure has a control token in front of its
   `lock` and one behind its `wait`, and `main` is never resumed.
2. **A notification is not lost at once** (`stale_notify`). The
   specification says a notification that finds no waiter is lost. In the
   net it stays in `signal_input`, and a wait that starts before
   `lost_signal_transition` fires is woken by it. The net still has the run
   in which the notification is lost, so a deadlock of the program remains
   reachable; the net has more runs than the program.
3. **A second waiter cannot start to wait** (`every_wait_can_start`). The
   start of every wait takes the single token of `lost_signal_possible`,
   which returns only with `signal_transition`. A second thread that has
   locked the mutex and calls `wait` stays in front of it with the mutex
   locked, where the program lets both threads wait.

4. **The rank of a variable is not its field number** (`skipped_operand`).
   `handle_aggregate_assignment` passes only the operands that hold a
   synchronization variable to `create_aggregate`, and
   `link_if_sync_variable` reads a field by the number the program gives it.
   For `_3 = (const, move _1, move _2); _4 = &_3; _5 = (*_4).1` the local
   `_5` holds the variable of `_1` and is linked to that of `_2`. With two operands the
   same shift is a panic (the field is not there) or nothing at all.
5. **Only the last field of a projection is used** (`nested_field`). The
   loop over the projection overwrites `field_number`, and the lookup is in
   the aggregate of the base place: for `_4 = &_3; _5 = ((*_4).0).0` the
   destination is linked to the inner aggregate `_3.0` instead of the
   variable in it.
6. **A reborrow panics** (`reborrow`). `_3 = &(*_2)` with `_2` a reference
   to a synchronization variable has a projection (`Deref`) and no field,
   and reaches the `expect` on the field number. The specification (4.2)
   counts the dereference assignments among those a link handles.
7. **A concrete type with arguments is not accepted** (`type_query`). The
   documentation of `is_place_ty_with_concrete_type` says it checks that the
   `T` of the pattern is a concrete type and not a type parameter. The code
   compares the texts between the brackets, and first their number: a
   concrete `Mutex<Mutex<i32>>` (or `Mutex<Vec<i32>>`) has more parts than
   `Mutex<T>` and is rejected. What the function accepts is the instances of
   the pattern whose argument has no argument of its own.

## 4. Bounds

| Constant | `structure` | `control_flow` | `thread_join` | condition variable runs | Why it is enough |
|---|---|---|---|---|---|
| slots | one of each type | two mutex locals, a guard | two handles | a condition variable, a mutex, a guard | one variable of a type shows every arc of its gadget; two handles tell the threads apart, two mutex locals the two sides of an assignment |
| `ProgramFunctions` | all eight | `Mutex::new`, `lock` | `spawn`, `join` | all but `wait_while` and `join` | `wait_while` is translated as `wait`; the token game of `join` has its own run |
| `Kinds` | Call, Drop, Return | every kind | Call, Goto, Assign, Return | Call, Drop, Return | the branches and exits are independent of the gadgets |
| `MaxThreads` | 1 | 0 | 2 | 1 | `main` and one closure; two closures where the question is which thread a join waits for |
| `MaxTerminators` | main 5, closure 2 | main 4 | main 5, closure 2 | main 5, closure 3 | `main` can create both variables, spawn, lock and wait (or spawn twice and join twice); the closure can lock, notify or wait, and drop |
| `MaxWaitCalls` | 2 | 0 | 0 | 1 (2 in `two_wait_sites`, `every_wait_can_start`) | caps `wait_counter` |
| `MaxAssignments` | 0 | 1 | 1 | 0 | one assignment per function links one local to another; a second one repeats the step. The managers do not depend on how a local came to be linked |
| `PassThrough`, `MaxPassThrough` | none | `clone`, 1 | none | none | one call links one local to another, on the four functions by the same code; the number in the labels matters from the second call on, which the state space of `control_flow` has no room for |
| `MaxTargets` | 1 | 2 | 1 | 1 | a switch with two targets has two transitions |
| `Cleanups` | every call has a cleanup block | both | none | none | the unwind transitions matter to the structure and to the conservation of control; in the other token games they only add runs that end in `PROGRAM_PANIC` |
| `DropSlots` | the guard, the handle | the guard, the mutex | none | the guard | a drop of a variable that is not a guard adds a plain transition |
| `PlayTokenGame` | FALSE | TRUE | TRUE | TRUE | |

The counters `notify_one_counter`, `lock_counter`, `join_counter`,
`mutexes` and the length of `condvars` are bounded by `MaxTerminators`.

`aliasing`: five locals, aggregates of up to two operands of every kind, one
field per place, reborrows. Five statements are a variable, a reference to
it, an aggregate, a field of the aggregate and a call on the field.
`skipped_operand` has three operands per aggregate (a shift by one that
stays inside the aggregate needs a skipped operand and two variables) and
`nested_field` two fields per place; with `DirectFields` off both need
their five locals: the variables, the aggregate, a reference to it and the
field read through the reference. All four
synchronization types are created; `MaxLocals`, `MaxOperands`, `MaxFields`
are the named bounds.

`type_query`: every type of depth two with up to two arguments over two
generic names (`Mutex`, `Vec`), two plain names and the parameter `T`
(6060 pairs of a type and a pattern, each an initial state). Depth two is
where an argument has arguments of its own.

Deadlock checking is off in the runs of `Translator` and `Aliasing`: a
translation ends (with the finished net or with a panic), and a net that
stops is what the translator is for.

## 5. Fairness, liveness and refinement

`thread_join` checks `FairSpec`, which is `Spec` with `WF_vars(Game)`:
the finished net does not stop while one of its transitions is enabled. The
net stands for a program whose threads the operating system runs until none
of them can take a step; nothing is assumed of a single transition or
thread, and nothing of the translation (a translation that is never
finished satisfies the property vacuously). Under this assumption
`JoinedProgramEnds` holds: the nets of these programs have no cycle, so
they reach a marking in which nothing is enabled, and the property says that
this marking is the end of the program and not a caller stuck at its join.

`ImplementsWaitNotify` is a refinement. `WaitNotify` has four variables:
`locked`, `waiting`, `notified`, `woken`, and seven actions. `Translator`
instantiates it twice, for the first and the second condition variable of
the program, with the substitution

| `WaitNotify` | `Translator` |
|---|---|
| `locked` | a token in the `locked` place of the mutex the waits on the condition variable release |
| `waiting` | a token in `wait_input` |
| `notified` | the tokens of `signal_input` |
| `woken` | the tokens of `signal_output` |

and all of them at their initial value while the net is being built. The
abstract module is the gadget's own reading of a condition variable: it has
room for one waiting thread, and a notification that is not delivered stays
until it is lost. Findings 2 and 3 are what this reading differs in from the
condition variable of Rust; the refinement shows that the calls are
connected to the gadget so that nothing else happens, for example that no
notification is lost while a thread waits.

## 6. Not modelled

* The sources of the mutex, the thread manager, the memory, the function
  (its blocks and its call stack) and `call_foreign_function` are not in the
  repository. What the modelled code calls of them is modelled from the
  specification and marked `spec_modelled` in `PROJECT.json`.
* The conversion of labels to strings (`sanitize`, `format!`): only the
  equality of labels matters to the net.
* The serializers, the command line, and everything the Rust compiler does
  before the translator sees the MIR.
* `extract_first_argument_for_function_call` and `get_place_type` of
  `utils.rs` return compiler data unchanged and have no caller in the
  sources.
* `visit_statement` of `mir_visitor.rs` only calls
  `MirFunction::add_statement`, which is in no source file and which the
  specification does not describe.
* `visit_assign` in the sources links mutexes and join handles only, through
  functions (`identify_assign_*`, `link_local_to_same_mutex`,
  `link_local_to_same_join_handle`) that are in no source file; what they
  recognise and the panic of the lookup are taken from their names and from
  the specification (4.2, 7). Assignments of guards and of condition variables
  are therefore not inputs of the walker: this `visit_assign` would leave
  them unlinked. The aliasing functions of `sync.rs` handle them; `Aliasing`
  models those on their own input, and the walker uses one of them,
  `link_return_value_if_sync_variable`, for its calls of `clone`.
* The caller that numbers the calls of `unwrap`, `Arc::new`, `clone` and
  `deref` is not in the sources: the walker counts the calls of the
  function in the program so far, as the naming contract of the
  specification (section 6) says. Only `clone` is called in a run; with two
  guard slots or a second call the state space of `control_flow` exceeds
  what TLC explores in the time of a run (10.9 million states with two guard
  slots, against 3.6 million now).
* `translate_side_effects_wait` is not given the destination of the call, and
  the code that links the guard `wait` returns is not in the sources: the
  walker keeps the returned guard in the slot of the guard passed in.
* Moves: a local that was moved out of is not used again by a
  program the compiler accepts, while the model may read it; the properties
  that pass hold of this larger set of programs, and the counterexamples of
  the findings use every local as Rust allows.
* Blocks with arbitrary targets and calls of functions with a body: see the
  plan.
* The caller of `sync.rs` is not in the sources. `call_function` has no arm
  for `std::thread::spawn`, which `is_supported_function` accepts: a caller
  that hands every supported function to `call_function` panics on every
  spawn. The walker of the model (`Handler`) hands `spawn` to the thread
  manager itself, as the specification (4.5) describes, and every other
  supported function to the handler `call_function` names; the disagreement
  of the two functions is listed among the hazards and no run decides it.
  The handlers `call_function` calls (`condvar::call_new`, ...) and the
  postprocessing tasks it returns are those of a version of the managers
  that is not in the sources either: the model calls the two methods of the
  manager the sources have, `translate_call_*` and
  `translate_side_effects_*`, for every call.

## 7. Plan

1. **Done**: the net, the condition variable and its manager from the
   sources; the dispatcher (`is_supported_function`, `call_function`); every
   arm of `visit_terminator` over chains of blocks; mutex, spawn, join and
   memory from the specification; the token game; the runs above.
2. **Done**: the aliasing functions of `sync.rs` (`Aliasing`), the type
   query of `utils.rs` (`TypeQuery`), the abstract condition variable and
   its refinement, liveness of the join; `visit_assign`, the resolution of
   the callee, and the program's own values (`denotes`) as the reference
   the memory of the walker is compared with.
3. **The walker over a control-flow graph**: blocks with arbitrary targets
   (loops, joins of branches), calls of functions with a body and the call
   stack, foreign calls and the labels of `naming/function.rs` they use.
   Properties: no two translations of a function and no two calls of one
   foreign function share a label.
4. **Liveness of the condition variable**: under weak fairness of the
   transitions of the gadget, a thread that waits and is notified is
   resumed once the mutex is free. The state space of `condvar_behaviour`
   needs a smaller instance of its own for the check.
5. **Composition of `Aliasing` with the walker**. Done for calls that
   return their first argument (`clone` in `control_flow`). Open: the guard
   that `wait` returns and the handles a closure captures in an aggregate,
   followed from the statement that links them to the drop that unlocks the
   mutex; two calls of one function, for the numbers in their labels.
