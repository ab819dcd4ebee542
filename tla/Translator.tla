----------------------------- MODULE Translator -----------------------------
(***************************************************************************)
(* The translator: the walker that visits the terminators of the program   *)
(* (src/translator/mir_visitor.rs), the dispatcher of the calls of         *)
(* synchronization primitives (src/translator/sync.rs), the three managers *)
(* it dispatches to, and the token game of the net they produce.           *)
(*                                                                         *)
(* The input is the program being translated.  It is chosen one terminator *)
(* at a time: `main` first, then the closure of every thread spawned.  A   *)
(* function is a chain of basic blocks: every terminator that continues    *)
(* leads to the next block, and the function ends with the first           *)
(* terminator that leaves it.  When the last function has been left the    *)
(* net is finished and the model plays its token game, which is what the   *)
(* net is handed to a model checker for.                                   *)
(*                                                                         *)
(* Function 0 is `main`; function j + 1 is the closure of thread j.        *)
(***************************************************************************)
EXTENDS Naturals, Sequences, FiniteSets, FiniteSetsExt, TLC

CONSTANTS
    CondvarSlots,       \* local variables of type Condvar
    MutexSlots,         \* local variables of type Mutex
    GuardSlots,         \* local variables of type MutexGuard
    HandleSlots,        \* local variables of type JoinHandle
    DropSlots,          \* the local variables the program drops
    ProgramFunctions,   \* the supported functions the program calls
    PassThrough,        \* the functions returning their argument it calls
    MaxPassThrough,     \* bound on the calls of those functions
    Kinds,              \* the kinds of terminator and statement the program has
    Cleanups,           \* subset of BOOLEAN: may a call have a cleanup block
    MaxThreads,         \* bound: threads spawned by the program
    MaxTerminators,     \* bound: terminators of `main`, and of a closure
    MaxWaitCalls,       \* bound: calls of Condvar::wait in the program
    MaxAssignments,     \* bound: assignments visited in a function
    MaxTargets,         \* bound: targets of a SwitchInt
    PlayTokenGame       \* BOOLEAN: play the token game of the finished net

Slots == CondvarSlots \cup MutexSlots \cup GuardSlots \cup HandleSlots

DeclaredKind(slot) ==
    CASE slot \in CondvarSlots -> "condvar"
      [] slot \in MutexSlots   -> "mutex"
      [] slot \in GuardSlots   -> "guard"
      [] slot \in HandleSlots  -> "thread"

VARIABLES
    net, memory, pending, phase,                    \* shared with the managers
    condvars, wait_counter, notify_one_counter,     \* CondvarManager
    mutexes, lock_counter,                          \* MutexManager
    threads, join_counter,                          \* ThreadManager
    cur,            \* the function being translated
    program,        \* the terminators translated so far, for every function
    assigned,       \* the assignments visited so far in the function
    marking,        \* the marking of the finished net
    denotes,        \* history: what the slots of every function hold
    holding,        \* history: the mutexes whose guard the function holds here
    heldAt,         \* history: for a place, the mutexes held when control is there
    joinTarget,     \* history: for every join, the closures its handle denotes
    unheard         \* history: the condition variables notified with no waiter

cvVars == <<condvars, wait_counter, notify_one_counter>>
mxVars == <<mutexes, lock_counter>>
thVars == <<threads, join_counter>>
managerVars == <<cvVars, mxVars, thVars>>
walkerVars  == <<cur, program, assigned, denotes, holding, heldAt, joinTarget>>
gameVars    == <<marking, unheard>>
vars == <<net, memory, pending, phase, managerVars, walkerVars, gameVars>>

INSTANCE PetriNet
INSTANCE Naming
INSTANCE FunctionCall
Sy  == INSTANCE Sync
Mem == INSTANCE Memory
Mx  == INSTANCE Mutex
Cv  == INSTANCE Condvar
CM  == INSTANCE CondvarManager
MM  == INSTANCE MutexManager
TM  == INSTANCE ThreadManager
Al  == INSTANCE Aliasing WITH MaxLocals <- 0, MaxOperands <- 0, MaxFields <- 0,
                              OperandKinds <- {}, Reborrows <- FALSE, DirectFields <- FALSE,
                              value <- <<>>, refs <- {}

CondvarWaitWhile == "std::sync::Condvar::wait_while"

\* The functions whose return value is linked to their first argument.
Unwrap == "std::result::Result::<T, E>::unwrap"
ArcNew == "std::sync::Arc::<T>::new"
Clone  == "std::clone::Clone::clone"
Deref  == "std::ops::Deref::deref"

AllKinds == {"Assign", "Call", "Drop", "Return", "Goto", "SwitchInt", "Assert",
             "Resume", "Unreachable", "Unsupported"}

ASSUME /\ MaxThreads \in Nat /\ MaxWaitCalls \in Nat /\ MaxTargets \in Nat
       /\ MaxAssignments \in Nat
       /\ MaxTerminators \in [{"main", "closure"} -> Nat]
       /\ DropSlots \subseteq Slots
       /\ ProgramFunctions \subseteq Sy!SupportedFunctions
       /\ PassThrough \subseteq {Unwrap, ArcNew, Clone, Deref}
       /\ MaxPassThrough \in Nat
       /\ Kinds \subseteq AllKinds /\ "Return" \in Kinds
       /\ Cleanups \subseteq BOOLEAN /\ PlayTokenGame \in BOOLEAN

Functions == 0 .. MaxThreads

-----------------------------------------------------------------------------
(***************************************************************************)
(* The places of a function.  Block 0 starts at the start place of the     *)
(* function; `visit_basic_block_data` makes the block it enters the active *)
(* one, and the terminator of the active block leads to the next.          *)
(***************************************************************************)
StartPlace(f) == IF f = 0 THEN PROGRAM_START ELSE start_place_label(f - 1)
EndPlace(f)   == IF f = 0 THEN PROGRAM_END ELSE end_place_label(f - 1)
BlockPlace(f, block) == IF block = 0 THEN StartPlace(f) ELSE block_place_label(f, block)

Block       == Len(program[cur])
ActivePlace == BlockPlace(cur, Block)
TargetPlace == BlockPlace(cur, Block + 1)

CallPlaces(cleanup) ==
    FunctionPlaces(ActivePlace, TargetPlace, IF cleanup THEN Some(PROGRAM_PANIC) ELSE None)

Idle == phase = "translating" /\ pending = NoCall /\ ~net.aborted

(***************************************************************************)
(* The input.  A call names its function, its arguments and its            *)
(* destination by slots of the declared type.  What the program does with  *)
(* a value is what Rust allows: a guard is moved into `wait` or dropped    *)
(* only while it is live, and its slot is assigned again only after that;  *)
(* a join handle is joined once; a mutex, a condition variable or a thread *)
(* is created in a slot once.  The guard `wait` returns is kept in the     *)
(* slot of the guard it was given.  A slot may hold a value the memory     *)
(* does not know (it reached the function by a path the memory does not    *)
(* follow).  The argument of `spawn` is the closure.                       *)
(*                                                                         *)
(* `denotes` is what the slots hold by the semantics of the program,       *)
(* whatever the translator has recorded: the variable a call returned into *)
(* the slot or an assignment copied into it, until the value is moved out  *)
(* (a guard by its drop, a join handle by `join` or by an assignment).     *)
(***************************************************************************)
Holds(slot) == denotes[cur][slot]

LiveGuard(g) == Holds(g).kind = "guard"

Unknown(slot) == Mem!is_linked(memory, slot, "none")

Usable(g) == LiveGuard(g) \/ Unknown(g)

Terminator(fn, args, destination, cleanup) ==
    [fn |-> fn, args |-> args, destination |-> destination, cleanup |-> cleanup]

\* The closures a join handle denotes: function j + 1 for thread j.
Joinable(h) == IF Holds(h).kind = "thread" THEN {Holds(h).ref + 1} ELSE {}

Fresh(slots) == {Some(s) : s \in {x \in slots : Unknown(x)}}

Calls ==
    LET waits  == {<<c, g>> : c \in CondvarSlots, g \in {s \in GuardSlots : Usable(s)}}
        locked == {Some(g) : g \in {s \in GuardSlots : ~LiveGuard(s)}}
        called ==
            [fn : {CM!CondvarNew}, args : {<<>>}, destination : Fresh(CondvarSlots)]
            \cup [fn : {CM!CondvarNotifyOne}, args : {<<c>> : c \in CondvarSlots}, destination : {None}]
            \cup {[fn |-> f, args |-> w, destination |-> Some(w[2])] :
                     f \in {CM!CondvarWait, CondvarWaitWhile}, w \in waits}
            \cup [fn : {MM!MutexNew}, args : {<<>>}, destination : Fresh(MutexSlots)]
            \cup [fn : {MM!MutexLock}, args : {<<m>> : m \in MutexSlots}, destination : locked]
            \cup [fn : {TM!ThreadSpawn}, args : {<<Len(threads) + 1>>},
                  destination : Fresh(HandleSlots) \cup {None}]
            \cup [fn : {TM!ThreadJoin}, destination : {None},
                  args : {<<h>> : h \in {s \in HandleSlots : Joinable(s) # {} \/ Unknown(s)}}]
    IN  {Terminator(c.fn, c.args, c.destination, u) :
            c \in {d \in called : d.fn \in ProgramFunctions}, u \in Cleanups}

MoreTerminators == Block < MaxTerminators[IF cur = 0 THEN "main" ELSE "closure"]

WithinBounds(call) ==
    /\ Sy!call_function(call.fn).handler = CM!CondvarWait => wait_counter < MaxWaitCalls
    /\ call.fn = TM!ThreadSpawn => Len(threads) < MaxThreads

\* The mutexes held after the terminator, by the program's own semantics.
HoldingAfterLock(call) ==
    IF call.fn = MM!MutexLock /\ Holds(call.args[1]).kind = "mutex"
    THEN holding \cup {Holds(call.args[1]).ref}
    ELSE holding

\* The value a call returns: the variable it creates, the guard of the
\* mutex it locks, the guard `wait` was given.
ReturnedBy(call) ==
    CASE call.fn = CM!CondvarNew  -> Mem!Value("condvar", Len(condvars))
      [] call.fn = MM!MutexNew    -> Mem!Value("mutex", mutexes)
      [] call.fn = TM!ThreadSpawn -> Mem!Value("thread", Len(threads))
      [] call.fn = MM!MutexLock /\ Holds(call.args[1]).kind = "mutex"
            -> Mem!Value("guard", Holds(call.args[1]).ref)
      [] Len(call.args) = 2       -> Holds(call.args[2])
      [] OTHER                    -> Mem!Unlinked

\* A closure is given the mutexes and the condition variables of its creator.
Shared(values) ==
    [slot \in Slots |->
        IF values[slot].kind \in {"mutex", "condvar"} THEN values[slot] ELSE Mem!Unlinked]

\* What the slots hold after the call: `join` takes its handle, the closure
\* of `spawn` starts with what it shares, the destination holds the result.
DenotesAfter(call) ==
    LET bound == [slot \in Slots |->
                    CASE call.destination = Some(slot)                  -> ReturnedBy(call)
                      [] call.fn = TM!ThreadJoin /\ call.args = <<slot>> -> Mem!Unlinked
                      [] OTHER                                          -> Holds(slot)]
    IN  IF call.fn = TM!ThreadSpawn
        THEN [denotes EXCEPT ![cur] = bound, ![call.args[1]] = Shared(denotes[cur])]
        ELSE [denotes EXCEPT ![cur] = bound]

\* The terminator of the active block is translated: the next block starts.
Enter(terminator, held, values) ==
    /\ program' = [program EXCEPT ![cur] = Append(@, terminator)]
    /\ denotes' = values
    /\ holding' = held
    /\ heldAt' = (TargetPlace :> held) @@ heldAt
    /\ joinTarget' = IF terminator.fn = TM!ThreadJoin
                     THEN Append(joinTarget, Joinable(terminator.args[1]))
                     ELSE joinTarget
    /\ UNCHANGED <<cur, assigned>>

-----------------------------------------------------------------------------
(***************************************************************************)
(* TerminatorKind::Call: the walker makes the places of the call and       *)
(* hands it to the thread manager when the function is `spawn`, and to the *)
(* handler the dispatcher names when it is another supported function.     *)
(* The caller of the dispatcher is not in the sources: `call_function` of  *)
(* sync.rs has no arm for `spawn`, which `is_supported_function` lists,    *)
(* and the specification (4.5) gives `spawn` to the thread manager.        *)
(***************************************************************************)
Handler(function_name) ==
    IF function_name = TM!ThreadSpawn THEN function_name
    ELSE Sy!call_function(function_name).handler

(***************************************************************************)
(* `extract_def_id_of_called_function_from_operand`: what is called is     *)
(* known from the type of the operand, of the place it copies or moves or  *)
(* of its constant.  A function definition and a closure name the callee;  *)
(* a function pointer is not implemented and any other type is a panic.    *)
(***************************************************************************)
FunctionTypes == {"FnDef", "Closure", "FnPtr", "Adt"}

extract_def_id_of_called_function_from_operand(function_type) ==
    CASE function_type = "FnPtr"                -> "unimplemented"
      [] function_type \in {"FnDef", "Closure"} -> "def_id"
      [] OTHER                                  -> "panic"

call_unresolved(function_type) ==
    /\ Idle /\ {"Call", "Unsupported"} \subseteq Kinds
    /\ MoreTerminators
    /\ extract_def_id_of_called_function_from_operand(function_type) # "def_id"
    /\ phase' = "panicked"
    /\ UNCHANGED <<net, memory, pending, managerVars, walkerVars, gameVars>>

call_function(call) ==
    LET handler == Handler(call.fn)
    IN  /\ Idle /\ "Call" \in Kinds
        /\ MoreTerminators
        /\ WithinBounds(call)
        /\ Sy!is_supported_function(call.fn)
        /\ net' = add_place(net, TargetPlace)
        /\ pending' = [fn |-> handler, args |-> call.args, destination |-> call.destination,
                       places |-> CallPlaces(call.cleanup), transitions |-> <<>>]
        /\ phase' = IF handler = Sy!Bug THEN "panicked" ELSE phase
        /\ Enter(call, HoldingAfterLock(call), DenotesAfter(call))
        /\ UNCHANGED <<memory, managerVars, gameVars>>

(***************************************************************************)
(* A call of `unwrap`, `Arc::new`, `clone` or `deref`: the transitions of  *)
(* a call to a function without a body, numbered by the calls of the       *)
(* function so far, and `link_return_value_if_sync_variable`, which links  *)
(* the destination to what the first argument is linked to.  `unwrap` is   *)
(* called on the result that holds a guard, the others on a mutex or a     *)
(* condition variable; `unwrap` and `Arc::new` move their argument.  A     *)
(* call without an argument stands for one on a constant.                  *)
(***************************************************************************)
function_counter(function_name) ==
    MapThenSumSet(LAMBDA f : Len(SelectSeq(program[f], LAMBDA t : t.fn = function_name)),
                  Functions)

call_transition_labels(function_name) ==
    CASE function_name = Unwrap -> unwrap_transition_labels(function_counter(Unwrap))
      [] function_name = ArcNew -> arc_new_transition_labels(function_counter(ArcNew))
      [] function_name = Clone  -> clone_transition_labels(function_counter(Clone))
      [] function_name = Deref  -> deref_transition_labels(function_counter(Deref))

\* The type of a local, as the text `check_if_sync_variable` searches.
LocalTypes ==
    [slot \in Slots |->
        Al!Handle(Al!SyncTypes[CASE slot \in GuardSlots   -> 1
                                 [] slot \in MutexSlots   -> 2
                                 [] slot \in HandleSlots  -> 3
                                 [] slot \in CondvarSlots -> 4], slot)]

Receivers(function_name) ==
    IF function_name = Unwrap
    THEN {g \in GuardSlots : Usable(g)}
    ELSE {s \in MutexSlots \cup CondvarSlots : Holds(s).kind = DeclaredKind(s) \/ Unknown(s)}

Results(receiver) ==
    {s \in Slots \ {receiver} : DeclaredKind(s) = DeclaredKind(receiver) /\ ~LiveGuard(s)}

\* The calls of `function_name` the program may make here.
CallsReturning(function_name) ==
    {Terminator(function_name, <<>>, None, u) : u \in Cleanups}
        \cup UNION {{Terminator(function_name, <<s>>, Some(d), u) :
                        d \in Results(s), u \in Cleanups} : s \in Receivers(function_name)}

PassThroughCalls == UNION {CallsReturning(fn) : fn \in PassThrough}

\* What the slots hold after the call.
DenotesAfterReturn(call) ==
    IF call.args = <<>> THEN denotes
    ELSE [denotes EXCEPT ![cur][call.destination[1]] = Holds(call.args[1]),
                         ![cur][call.args[1]] =
                             IF call.fn \in {Unwrap, ArcNew} THEN Mem!Unlinked ELSE @]

call_returning_argument(call) ==
    LET args == IF call.args = <<>> THEN <<Al!Constant>>
                ELSE <<Al!Place(call.args[1], <<>>)>>
        return_value == IF call.destination = None THEN None ELSE call.destination[1]
    IN  /\ Idle /\ "Call" \in Kinds
        /\ MoreTerminators
        /\ MapThenSumSet(function_counter, PassThrough) < MaxPassThrough
        /\ net' = call_foreign_function(CallPlaces(call.cleanup),
                                        call_transition_labels(call.fn),
                                        add_place(net, TargetPlace))
        /\ Al!link_return_value_if_sync_variable(args, return_value, LocalTypes)
        /\ Enter(call, holding, DenotesAfterReturn(call))
        /\ UNCHANGED <<pending, managerVars, gameVars>>

\* A terminator that neither calls nor leaves: its net, and the next block.
Continue(kind, cleanup, continued) ==
    /\ Idle /\ kind \in Kinds
    /\ MoreTerminators
    /\ net' = continued
    /\ Enter(Terminator(kind, <<>>, None, cleanup), holding, denotes)
    /\ UNCHANGED <<memory, pending, phase, managerVars, gameVars>>

(***************************************************************************)
(* TerminatorKind::Goto: one transition to the target.                     *)
(* TerminatorKind::SwitchInt: one transition for every target.             *)
(* TerminatorKind::Assert: one transition to the target and, with a        *)
(* cleanup block, one to the cleanup place.                                *)
(***************************************************************************)
Branch(n, t) == Wire(add_transition(n, t), << PT(ActivePlace, t), TP(t, TargetPlace) >>)

visit_terminator_goto_nowhere ==
    Continue("Goto", FALSE,
             Wire(add_transition(add_place(net, TargetPlace), goto_transition_label(cur, Block)),
                  << PT(ActivePlace, goto_transition_label(cur, Block)) >>))

visit_terminator_goto ==
    Continue("Goto", FALSE, Branch(add_place(net, TargetPlace), goto_transition_label(cur, Block)))

visit_terminator_switch_int(targets) ==
    Continue("SwitchInt", FALSE,
             FoldSet(LAMBDA i, n : Branch(n, switch_int_transition_label(cur, Block, i)),
                     add_place(net, TargetPlace), 1 .. targets))

visit_terminator_assert(cleanup) ==
    Continue("Assert", cleanup,
             call_foreign_function(CallPlaces(cleanup), assert_transition_labels(cur, Block),
                                   add_place(net, TargetPlace)))

(***************************************************************************)
(* TerminatorKind::Drop: a drop transition to the target (and one to the   *)
(* cleanup block), which unlocks the mutex when the place is a lock guard. *)
(***************************************************************************)
drop(unwind) ==
    call_foreign_function(CallPlaces(unwind), drop_transition_labels(cur, Block),
                          add_place(net, TargetPlace))

Dropping(place, unwind, dropped) ==
    /\ Idle /\ "Drop" \in Kinds
    /\ MoreTerminators
    /\ place \in GuardSlots => Usable(place)
    /\ net' = dropped
    /\ Enter(Terminator("Drop", <<place>>, None, unwind),
             IF LiveGuard(place) THEN holding \ {Holds(place).ref} ELSE holding,
             IF LiveGuard(place) THEN [denotes EXCEPT ![cur][place] = Mem!Unlinked]
                                 ELSE denotes)
    /\ UNCHANGED <<memory, pending, phase, managerVars, gameVars>>

\* The mutant: the mutex manager is not told of the drop.
visit_terminator_drop_only(place, unwind) == Dropping(place, unwind, drop(unwind))

visit_terminator_drop(place, unwind) ==
    Dropping(place, unwind,
             MM!handle_lock_guard_drop(place, drop_transition_labels(cur, Block)[1],
                                       memory, drop(unwind)))

(***************************************************************************)
(* `visit_assign`: an assignment of a mutex (`lhs = &rhs`, of a mutex, of  *)
(* a reference to one or of an `Arc` of one) links the left-hand side to   *)
(* the mutex of the right-hand side, an assignment `lhs = move rhs` of a   *)
(* join handle to its thread.  A right-hand side the memory does not know  *)
(* is a panic.  The program assigns a slot that holds a value, or one the  *)
(* memory does not know.  The form of an assignment is the `identify_*`    *)
(* function that recognises it; a statement has one form.                  *)
(***************************************************************************)
MutexForms == {"reference_of_local_with_mutex", "copy_of_reference_of_local_with_mutex",
               "reference_of_arc_with_mutex"}
HandleForm == "local_with_join_handle"

Assignments ==
    {a \in (MutexForms \X MutexSlots \X MutexSlots)
                \cup ({HandleForm} \X HandleSlots \X HandleSlots) :
        a[2] # a[3] /\ (Holds(a[3]).kind = DeclaredKind(a[3]) \/ Unknown(a[3]))}

\* What the slots hold after `lhs = rhs`: a join handle is moved.
DenotesAfterAssign(lhs, rhs) ==
    [denotes EXCEPT ![cur][lhs] = Holds(rhs),
                    ![cur][rhs] = IF rhs \in HandleSlots THEN Mem!Unlinked ELSE @]

\* The assignment as the program sees it, `assigned` counting the visits.
Assigning(lhs, rhs) ==
    /\ Idle /\ "Assign" \in Kinds
    /\ assigned < MaxAssignments
    /\ assigned' = assigned + 1
    /\ denotes' = DenotesAfterAssign(lhs, rhs)
    /\ UNCHANGED <<net, pending, managerVars, gameVars,
                   cur, program, holding, heldAt, joinTarget>>

\* The left-hand side denotes what the right-hand side does, which the
\* memory looks up as a variable of the kind: the lookup of another is a panic.
link_local_to_same(kind, lhs, rhs) ==
    \/ /\ Mem!is_linked(memory, rhs, kind)
       /\ memory' = Mem!link(memory, lhs, kind, Mem!get_linked(memory, rhs))
       /\ UNCHANGED phase
    \/ /\ ~Mem!is_linked(memory, rhs, kind)
       /\ phase' = "panicked"
       /\ UNCHANGED memory

link_local_to_same_mutex(lhs, rhs)       == link_local_to_same("mutex", lhs, rhs)
link_local_to_same_join_handle(lhs, rhs) == link_local_to_same("thread", lhs, rhs)

\* The mutant: the two locals change places in the calls of the memory.
visit_assign_reversed(form, lhs, rhs) ==
    /\ Assigning(lhs, rhs)
    /\ IF form \in MutexForms THEN link_local_to_same_mutex(rhs, lhs)
       ELSE link_local_to_same_join_handle(rhs, lhs)

visit_assign(form, lhs, rhs) ==
    /\ Assigning(lhs, rhs)
    /\ \/ form = "reference_of_local_with_mutex" /\ link_local_to_same_mutex(lhs, rhs)
       \/ form = "copy_of_reference_of_local_with_mutex" /\ link_local_to_same_mutex(lhs, rhs)
       \/ form = "reference_of_arc_with_mutex" /\ link_local_to_same_mutex(lhs, rhs)
       \/ form = HandleForm /\ link_local_to_same_join_handle(lhs, rhs)

(***************************************************************************)
(* The terminators that leave the function: one transition from the active *)
(* block to the place where the function ends.  The walker goes on with    *)
(* the closure of the next thread; after the last one the net is finished. *)
(***************************************************************************)
Leave(kind, t, place) ==
    /\ Idle /\ kind \in Kinds
    /\ net' = Wire(add_transition(net, t), << PT(ActivePlace, t), TP(t, place) >>)
    /\ heldAt' = IF kind = "Return" THEN (place :> holding) @@ heldAt ELSE heldAt
    /\ holding' = {}
    /\ assigned' = 0
    /\ IF cur < Len(threads)
       THEN /\ cur' = cur + 1
            /\ memory' = threads[cur + 1].memory
            /\ UNCHANGED <<phase, marking>>
       ELSE /\ phase' = "running"
            /\ marking' = InitialMarking(net')
            /\ UNCHANGED <<cur, memory>>
    /\ UNCHANGED <<pending, program, denotes, joinTarget, managerVars, unheard>>

\* The mutant: every function returns to PROGRAM_END.
visit_terminator_return_to_program_end ==
    Leave("Return", return_transition_label(cur), PROGRAM_END)

\* TerminatorKind::Return: to the end place of the function.
visit_terminator_return == Leave("Return", return_transition_label(cur), EndPlace(cur))

\* TerminatorKind::Resume, TerminatorKind::Abort: to PROGRAM_PANIC.
visit_terminator_unwind ==
    Leave("Resume", unwind_transition_label(cur, Block), PROGRAM_PANIC)

\* TerminatorKind::Unreachable: to PROGRAM_END.
visit_terminator_unreachable ==
    Leave("Unreachable", unreachable_transition_label(cur, Block), PROGRAM_END)

(***************************************************************************)
(* DropAndReplace, Yield, GeneratorDrop, FalseEdge, FalseUnwind and        *)
(* InlineAsm are not implemented: the translation is aborted.              *)
(***************************************************************************)
visit_terminator_unimplemented ==
    /\ Idle /\ "Unsupported" \in Kinds
    /\ phase' = "panicked"
    /\ UNCHANGED <<net, memory, pending, managerVars, walkerVars, gameVars>>

(***************************************************************************)
(* The token game of the finished net.  `unheard` remembers the condition  *)
(* variables that were notified while no thread was waiting, until the     *)
(* notification is consumed.                                               *)
(***************************************************************************)
CondvarRefs == 0 .. (Len(condvars) - 1)

Notifies(t, c) == Cv!Condvar(c).signal_input \in Postset(net, t)

Unheard(t) ==
    LET arrived == {c \in CondvarRefs : Notifies(t, c) /\ marking[Cv!Condvar(c).wait_input] = 0}
    IN  {c \in unheard \cup arrived : marking'[Cv!Condvar(c).signal_input] > 0}

fire(t) ==
    /\ PlayTokenGame
    /\ phase = "running"
    /\ IsEnabled(net, marking, t)
    /\ marking' = Fire(net, marking, t)
    /\ unheard' = Unheard(t)
    /\ UNCHANGED <<net, memory, pending, phase, managerVars, walkerVars>>

-----------------------------------------------------------------------------
(***************************************************************************)
(* `Translator::new`: the three places of the program, a token in          *)
(* PROGRAM_START, empty managers, and `main` as the function to translate. *)
(***************************************************************************)
Init ==
    /\ net = add_token(add_place(add_place(add_place(EmptyNet,
                 PROGRAM_START), PROGRAM_END), PROGRAM_PANIC), PROGRAM_START, 1)
    /\ memory = Mem!EmptyMemory
    /\ pending = NoCall
    /\ phase = "translating"
    /\ CM!Init /\ MM!Init /\ TM!Init
    /\ cur = 0
    /\ program = [f \in Functions |-> <<>>]
    /\ assigned = 0
    /\ denotes = [f \in Functions |-> Mem!EmptyMemory]
    /\ marking = <<>>
    /\ holding = {}
    /\ heldAt = (PROGRAM_START :> {})
    /\ joinTarget = <<>>
    /\ unheard = {}

\* The second half of a call: the methods of the manager that was handed it.
Manager ==
    /\ ~net.aborted
    /\ \/ CM!Next /\ UNCHANGED <<mxVars, thVars>>
       \/ (MM!call_new \/ MM!call_lock) /\ UNCHANGED <<cvVars, thVars>>
       \/ (TM!call_spawn \/ TM!call_join) /\ UNCHANGED <<cvVars, mxVars>>
    /\ UNCHANGED <<walkerVars, gameVars>>

visit_terminator ==
    \/ \E call \in Calls : call_function(call)
    \/ \E call \in PassThroughCalls : call_returning_argument(call)
    \/ \E function_type \in FunctionTypes : call_unresolved(function_type)
    \/ visit_terminator_goto
    \/ \E targets \in 1 .. MaxTargets : visit_terminator_switch_int(targets)
    \/ \E cleanup \in Cleanups : visit_terminator_assert(cleanup)
    \/ \E place \in DropSlots, unwind \in Cleanups : visit_terminator_drop(place, unwind)
    \/ visit_terminator_return
    \/ visit_terminator_unwind
    \/ visit_terminator_unreachable
    \/ visit_terminator_unimplemented

Next ==
    \/ \E a \in Assignments : visit_assign(a[1], a[2], a[3])
    \/ visit_terminator
    \/ Manager
    \/ \E t \in net.transitions : fire(t)

Spec == Init /\ [][Next]_vars

(***************************************************************************)
(* The finished net does not stop while one of its transitions is enabled: *)
(* it stands for a program whose threads are scheduled until none of them  *)
(* can take a step.  Nothing is assumed of a single transition, and        *)
(* nothing of the translation.                                             *)
(***************************************************************************)
Game == \E t \in net.transitions : fire(t)

FairSpec == Spec /\ WF_vars(Game)

-----------------------------------------------------------------------------
(***************************************************************************)
(* What the properties speak about.                                        *)
(***************************************************************************)
Running  == phase = "running"
Complete == pending = NoCall /\ phase # "panicked" /\ ~net.aborted

Translated    == 0 .. Len(threads)
MutexRefs     == 0 .. (mutexes - 1)
WaitCalls     == 0 .. (wait_counter - 1)

\* The places control passes through in function f.  PROGRAM_END is left
\* out: it is the place of every function that ends in Unreachable.
BlockPlaces(f)   == {BlockPlace(f, block) : block \in 0 .. Len(program[f])}
ControlPlaces(f) == BlockPlaces(f) \cup (IF f = 0 THEN {} ELSE {EndPlace(f)})
AllControlPlaces == UNION {ControlPlaces(f) : f \in Translated}

Tokens(places) == MapThenSumSet(LAMBDA p : marking[p], places \cap net.places)

Held(place) == IF place \in DOMAIN heldAt THEN heldAt[place] ELSE {}

Issued(kind) ==
    CASE kind = "condvar" -> CondvarRefs
      [] kind = "thread"  -> 0 .. (Len(threads) - 1)
      [] OTHER            -> MutexRefs

\* A memory binds a slot to nothing or to a variable of its declared type
\* that its manager has registered.
MemoryOK(mem) ==
    \A slot \in Slots :
        \/ mem[slot] = Mem!Unlinked
        \/ /\ mem[slot].kind = DeclaredKind(slot)
           /\ mem[slot].ref \in Issued(mem[slot].kind)

(***************************************************************************)
(* The type invariant: every variable has a value of its shape, every      *)
(* reference the memory of a function holds is one its manager has issued  *)
(* (`CondvarRef` is an index into `condvars`), the arcs of the net join    *)
(* nodes of the net, and no place of the finished net holds a negative     *)
(* number of tokens.                                                       *)
(***************************************************************************)
TypeOK ==
    /\ phase \in {"translating", "panicked", "running"}
    /\ cur \in Translated /\ Len(threads) <= MaxThreads
    /\ assigned \in 0 .. MaxAssignments
    /\ \A f \in Functions, slot \in Slots :
           denotes[f][slot].kind \in {"none", DeclaredKind(slot)}
    /\ wait_counter \in 0 .. MaxWaitCalls
    /\ notify_one_counter \in Nat /\ lock_counter \in Nat /\ mutexes \in Nat
    /\ join_counter \in Nat /\ joinTarget \in Seq(SUBSET Functions)
    /\ condvars = [i \in 1 .. Len(condvars) |-> Cv!Condvar(i - 1)]
    /\ MemoryOK(memory)
    /\ \A j \in 1 .. Len(threads) : MemoryOK(threads[j].memory)
    /\ DOMAIN net.pre \subseteq net.places \X net.transitions
    /\ DOMAIN net.post \subseteq net.transitions \X net.places
    /\ DOMAIN net.tokens \subseteq net.places
    /\ holding \subseteq MutexRefs /\ unheard \subseteq CondvarRefs
    /\ Running => marking \in [net.places -> Nat]

(***************************************************************************)
(* Well-formedness of the output (the first testable property of the       *)
(* specification): whenever the translator is between two terminators,     *)
(* and in the finished net, every transition has an input place and an     *)
(* output place.  It is about the two-step translation of a call: the      *)
(* transitions `translate_call_*` makes get their remaining arcs from      *)
(* `translate_side_effects_*`, and the unwind transition its arcs from     *)
(* the cleanup place of the call.                                          *)
(***************************************************************************)
WellFormedBetweenCalls ==
    Complete => \A t \in net.transitions : Preset(net, t) # {} /\ Postset(net, t) # {}

(***************************************************************************)
(* The memory follows the program: between two steps of the translation,   *)
(* a slot that holds a variable by the semantics of the program is linked  *)
(* to that variable in the memory of its function, in the one being        *)
(* translated and in the one every closure still to be translated starts   *)
(* with.  It is about the index each manager binds the destination of      *)
(* `new`, `lock` and `spawn` to, about the memory `spawn` hands the        *)
(* closure, and about `visit_assign`, which links the left-hand side of an *)
(* assignment to what the right-hand side denotes: a slot linked to        *)
(* another variable makes a later `lock`, `notify_one` or `join` act on    *)
(* the wrong mutex, condition variable or thread.                          *)
(***************************************************************************)
Follows(mem, values) == \A slot \in Slots : values[slot] \in {Mem!Unlinked, mem[slot]}

MemoryFollowsProgram ==
    Complete /\ phase = "translating" =>
        /\ Follows(memory, denotes[cur])
        /\ \A j \in (cur + 1) .. Len(threads) : Follows(threads[j].memory, denotes[j])

(***************************************************************************)
(* A transition belongs to one call site: it takes the control token from  *)
(* at most one block and gives a function at most one (a join takes the    *)
(* token of the end place of its thread as well).  It is about the         *)
(* labels: a transition is identified by its label, which                  *)
(* `translate_call_new` numbers by the length of `condvars` and            *)
(* `translate_call_wait`, `translate_call_notify_one` by counters they     *)
(* increment, so that two calls never share their transitions.             *)
(***************************************************************************)
NoMergedCallSites ==
    \A t \in net.transitions :
        /\ Cardinality(Preset(net, t) \cap UNION {BlockPlaces(f) : f \in Translated}) <= 1
        /\ \A f \in Translated : Cardinality(Postset(net, t) \cap ControlPlaces(f)) <= 1

(***************************************************************************)
(* Mutual exclusion in the finished net.  The two places of a mutex hold   *)
(* one token between them, and the control tokens in places where the      *)
(* program holds a guard of the mutex are no more than the tokens of its   *)
(* `locked` place.  It is about `translate_side_effects_wait`, which       *)
(* unlocks the mutex at the start of the wait and locks it again at its    *)
(* end, together with `lock` and the drop of the guard.                    *)
(***************************************************************************)
MutexProtects ==
    Running =>
        \A m \in MutexRefs :
            /\ marking[Mx!Mutex(m).locked] + marking[Mx!Mutex(m).unlocked] = 1
            /\ Tokens({p \in AllControlPlaces : m \in Held(p)}) <= marking[Mx!Mutex(m).locked]

(***************************************************************************)
(* In the net of a program of one function a mutex is locked exactly       *)
(* while the program holds a guard of it: wherever the control token is    *)
(* in the blocks of `main`, the `locked` place of a mutex has its token    *)
(* if and only if a guard of the mutex is live there.  It is about the     *)
(* Drop arm of `visit_terminator`, which asks the mutex manager to unlock  *)
(* the mutex when the dropped place is a guard, whichever slot the mutex   *)
(* was locked through: a drop that does not unlock leaves the next `lock`  *)
(* of the mutex blocked in the net and not in the program.                 *)
(***************************************************************************)
MutexFollowsGuard ==
    Running /\ threads = <<>> =>
        \A m \in MutexRefs, p \in BlockPlaces(0) :
            marking[p] = 1 => (marking[Mx!Mutex(m).locked] = 1 <=> m \in Held(p))

(***************************************************************************)
(* The token of `lost_signal_possible` is absent exactly while a thread    *)
(* waits: the place and `wait_input` hold one token between them.  It is   *)
(* what the comment of `Condvar` promises of the conflict of its two       *)
(* transitions (a `wait` removes the token and so prevents the loss of     *)
(* the signal), for every call `link_to_wait_call` connects.               *)
(***************************************************************************)
FlagAbsentWhileWaiting ==
    Running =>
        \A c \in CondvarRefs :
            marking[Cv!Condvar(c).lost_signal_possible] + marking[Cv!Condvar(c).wait_input] = 1

(***************************************************************************)
(* No token reaches `signal_output` without a waiter and a notification    *)
(* (the condition variable conflict property of the specification): a      *)
(* step that adds a token to `signal_output` finds tokens in `wait_input`  *)
(* and in `signal_input`.  It is about `Condvar::new`,                     *)
(* `link_to_notify_one_call` and `link_to_wait_call`: no call is           *)
(* connected to `signal_output` as a producer.                             *)
(***************************************************************************)
WakeupNeedsWaiter ==
    [][Running =>
        \A c \in CondvarRefs :
            marking'[Cv!Condvar(c).signal_output] > marking[Cv!Condvar(c).signal_output]
                => /\ marking[Cv!Condvar(c).wait_input] > 0
                   /\ marking[Cv!Condvar(c).signal_input] > 0]_vars

(***************************************************************************)
(* Every function of the program has at most one control token.  The       *)
(* comment of `Condvar` says that the token in `signal_output` allows      *)
(* "the waiting thread" to continue: the end of a `wait` resumes the       *)
(* thread that waits, where it waits.  `create_wait_function_call` makes   *)
(* no place between the two transitions of a call, so the only input       *)
(* `link_to_wait_call` gives the end of a wait is `signal_output`.         *)
(***************************************************************************)
OneControlTokenPerFunction ==
    Running => \A f \in Translated : Tokens(ControlPlaces(f)) <= 1

(***************************************************************************)
(* A program of one function is at one place: in every marking of the      *)
(* finished net there is one token in the blocks of `main`, PROGRAM_END    *)
(* and PROGRAM_PANIC together.  It is about the arms of                    *)
(* `visit_terminator`: each one moves the token of the active block to     *)
(* one of the places the terminator leads to, the cleanup block of a       *)
(* call, a drop or an assertion included.                                  *)
(***************************************************************************)
ControlIsConserved ==
    Running /\ threads = <<>> =>
        Tokens(BlockPlaces(0) \cup {PROGRAM_END, PROGRAM_PANIC}) = 1

(***************************************************************************)
(* The join property of the specification: the transition of a `join` is   *)
(* never enabled before the thread has ended.  A step of the finished net  *)
(* that fires the transition of a join finds no control token left in the  *)
(* blocks of the closure that was spawned into the joined handle.  It is   *)
(* about `spawn` binding the handle it returns, `call_join` looking it up, *)
(* and the labels `start_place_label` and `end_place_label` give the two   *)
(* places of a thread.                                                     *)
(***************************************************************************)
Fires(t) == IsEnabled(net, marking, t) /\ marking' = Fire(net, marking, t)

JoinWaitsForThread ==
    [][Running =>
        \A j \in 1 .. Len(joinTarget) :
            Fires(join_transition_labels(j - 1)[1])
                => \A f \in joinTarget[j] : Tokens(BlockPlaces(f)) = 0]_vars

(***************************************************************************)
(* A notification that arrives while no thread is waiting is lost: the     *)
(* specification says that then only `lost_signal_transition` is enabled   *)
(* and the signal is dropped.  While such a notification is unconsumed,    *)
(* no step adds a token to `signal_output`.                                *)
(***************************************************************************)
UnheardSignalIsLost ==
    [][Running =>
        \A c \in unheard :
            marking'[Cv!Condvar(c).signal_output] <= marking[Cv!Condvar(c).signal_output]]_vars

(***************************************************************************)
(* The net models every interleaving of the program (the purpose the       *)
(* specification states): a thread that stands at a call of `wait` with    *)
(* the guard of the mutex can start to wait, whatever the other threads    *)
(* do.  `link_to_wait_call` makes `lost_signal_possible` an input of the   *)
(* start of every wait.                                                    *)
(***************************************************************************)
EveryWaitCanStart ==
    Running =>
        \A k \in WaitCalls :
            LET wait_start == wait_transition_labels(k)[1]
                flags == {Cv!Condvar(c).lost_signal_possible : c \in CondvarRefs}
            IN  (\A p \in Preset(net, wait_start) \ flags : marking[p] >= 1)
                    => IsEnabled(net, marking, wait_start)

(***************************************************************************)
(* Condition variable c and the mutex of the guards it is waited on with,  *)
(* as the threads see them: the tokens of the places of the two gadgets in *)
(* the marking of the finished net.                                        *)
(***************************************************************************)
Marked(place) == IF Running /\ place \in DOMAIN marking THEN marking[place] ELSE 0

WaitsOn(c) ==
    {k \in WaitCalls : Cv!Condvar(c).wait_input \in Postset(net, wait_transition_labels(k)[1])}

GuardedBy(c) ==
    {m \in MutexRefs : \E k \in WaitsOn(c) :
        Mx!Mutex(m).locked \in Preset(net, wait_transition_labels(k)[1])}

Locked(c)   == \E m \in GuardedBy(c) : Marked(Mx!Mutex(m).locked) = 1
Waiting(c)  == Marked(Cv!Condvar(c).wait_input) = 1
Notified(c) == Marked(Cv!Condvar(c).signal_input)
Woken(c)    == Marked(Cv!Condvar(c).signal_output)

FirstCondvar ==
    INSTANCE WaitNotify WITH locked <- Locked(0), waiting <- Waiting(0),
                             notified <- Notified(0), woken <- Woken(0)

SecondCondvar ==
    INSTANCE WaitNotify WITH locked <- Locked(1), waiting <- Waiting(1),
                             notified <- Notified(1), woken <- Woken(1)

(***************************************************************************)
(* The net of a program implements the condition variable of module        *)
(* WaitNotify, for its first two condition variables (a function makes at  *)
(* most one): every transition of the finished net is a step of a thread  *)
(* that the condition variable and the mutex allow, or none of their       *)
(* concern.  It is about the arcs `Condvar::new` gives the two transitions *)
(* of the gadget and those `translate_side_effects_wait`,                  *)
(* `link_to_wait_call` and `link_to_notify_one_call` give the transitions  *)
(* of a call: the start of a wait releases the mutex and takes the token   *)
(* of `lost_signal_possible` in one step, and a notification is lost only  *)
(* while no thread waits.                                                  *)
(***************************************************************************)
ImplementsWaitNotify == FirstCondvar!Spec /\ SecondCondvar!Spec

(***************************************************************************)
(* A program that spawns threads and joins them ends: once the net is      *)
(* finished its token game reaches PROGRAM_END and leaves no thread in     *)
(* one of its blocks.  It is about the token `spawn` gives the start place *)
(* of a thread, the end place the Return arm of `visit_terminator` leads   *)
(* the closure to and the token `join` takes from it: a join whose thread  *)
(* cannot reach its end place blocks its caller for ever.                  *)
(***************************************************************************)
JoinedProgramEnds ==
    Running ~> /\ Running
               /\ marking[PROGRAM_END] = 1
               /\ Tokens(UNION {BlockPlaces(f) : f \in Translated}) = 0

=============================================================================
