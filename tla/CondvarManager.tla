--------------------------- MODULE CondvarManager ---------------------------
(***************************************************************************)
(* The registry of the condition variables found in the program and the    *)
(* translation of the three functions of `std::sync::Condvar`              *)
(* (src/translator/sync/condvar_manager.rs).                               *)
(*                                                                         *)
(* Every call is translated by two methods that the translator calls one   *)
(* after the other: `translate_call_*` adds the transitions of the call to *)
(* the net and returns them, `translate_side_effects_*` connects them to   *)
(* the condition variable found through the memory of the caller.  Each    *)
(* method is an action.  `pending` is the call the translator is in the    *)
(* middle of: it carries the arguments of the call to the first method and *)
(* the transitions the first method returned to the second.                *)
(***************************************************************************)
EXTENDS Naturals, Sequences

CONSTANT Slots

VARIABLES
    condvars,               \* Vec<Condvar>
    wait_counter,           \* the number of `wait` calls translated
    notify_one_counter,     \* the number of `notify_one` calls translated
    net,                    \* the net under construction
    memory,                 \* the memory of the function being translated
    pending,                \* the call being translated
    phase                   \* "translating", "panicked" or "running"

LOCAL INSTANCE PetriNet
LOCAL INSTANCE Naming
LOCAL INSTANCE FunctionCall
Cv  == INSTANCE Condvar
Mx  == INSTANCE Mutex
Mem == INSTANCE Memory

CondvarNew       == "std::sync::Condvar::new"
CondvarWait      == "std::sync::Condvar::wait"
CondvarNotifyOne == "std::sync::Condvar::notify_one"

Dispatched(fn) == phase = "translating" /\ IsDispatched(pending, fn)

Returned(fn) == phase = "translating" /\ HasReturned(pending, fn)

extract_nth_argument(args, n) == args[n + 1]

(***************************************************************************)
(* `CondvarManager::new`: no condition variable, both counters zero.       *)
(***************************************************************************)
Init ==
    /\ condvars = <<>>
    /\ wait_counter = 0
    /\ notify_one_counter = 0

-----------------------------------------------------------------------------
(***************************************************************************)
(* Private methods.                                                        *)
(***************************************************************************)

\* A CondvarRef is an index into `condvars`, counted from zero.
IsCondvarRef(condvar_ref) == condvar_ref < Len(condvars)

get_condvar_from_ref(condvar_ref) == condvars[condvar_ref + 1]

add_condvar ==
    /\ condvars' = Append(condvars, Cv!Condvar(Len(condvars)))
    /\ net' = Cv!new(Len(condvars), net)

create_wait_function_call(function_call_places, labels, n) ==
    LET wait_start_transition == labels[1]
        wait_end_transition   == labels[2]
        started == Wire(add_transition(n, wait_start_transition),
                        << PT(function_call_places.start_place, wait_start_transition) >>)
        ended   == Wire(add_transition(started, wait_end_transition),
                        << TP(wait_end_transition, function_call_places.end_place) >>)
    IN  WithUnwind(function_call_places, labels[3], ended)

link_to_wait_call(condvar_ref, wait_transitions, n) ==
    Cv!link_to_wait_call(get_condvar_from_ref(condvar_ref),
                         wait_transitions[1], wait_transitions[2], n)

link_to_notify_one_call(condvar_ref, signal_transition, n) ==
    Cv!link_to_notify_one_call(get_condvar_from_ref(condvar_ref), signal_transition, n)

\* `memory.get_linked_condvar` gives a reference, or panics.
HasCondvar(place) ==
    /\ Mem!is_linked(memory, place, "condvar")
    /\ IsCondvarRef(Mem!get_linked(memory, place))

-----------------------------------------------------------------------------
(***************************************************************************)
(* std::sync::Condvar::new                                                 *)
(***************************************************************************)
translate_call_new ==
    LET labels == new_transition_labels(Len(condvars)) IN
    /\ Dispatched(CondvarNew)
    /\ net' = call_foreign_function(pending.places, labels, net)
    /\ pending' = [pending EXCEPT !.transitions = <<labels[1]>>]
    /\ UNCHANGED <<condvars, wait_counter, notify_one_counter, memory, phase>>

\* The side effects of `new` as they would be if the reference were taken
\* from the length of `condvars` after the push.
translate_side_effects_new_length_after_push ==
    /\ Returned(CondvarNew)
    /\ add_condvar
    /\ memory' = Mem!link(memory, pending.destination[1], "condvar", Len(condvars'))
    /\ pending' = NoCall
    /\ UNCHANGED <<wait_counter, notify_one_counter, phase>>

\* The side effects of `new` as they would be if every destination were
\* bound to the first condition variable.
translate_side_effects_new_first_condvar ==
    /\ Returned(CondvarNew)
    /\ add_condvar
    /\ memory' = Mem!link(memory, pending.destination[1], "condvar", 0)
    /\ pending' = NoCall
    /\ UNCHANGED <<wait_counter, notify_one_counter, phase>>

translate_side_effects_new ==
    /\ Returned(CondvarNew)
    /\ add_condvar
    /\ memory' = Mem!link(memory, pending.destination[1], "condvar", Len(condvars))
    /\ pending' = NoCall
    /\ UNCHANGED <<wait_counter, notify_one_counter, phase>>

(***************************************************************************)
(* std::sync::Condvar::wait                                                *)
(***************************************************************************)
translate_call_wait ==
    LET labels == wait_transition_labels(wait_counter) IN
    /\ Dispatched(CondvarWait)
    /\ wait_counter' = wait_counter + 1
    /\ net' = create_wait_function_call(pending.places, labels, net)
    /\ pending' = [pending EXCEPT !.transitions = <<labels[1], labels[2]>>]
    /\ UNCHANGED <<condvars, notify_one_counter, memory, phase>>

\* The wait as it would be if the mutex were not locked again at its end.
ReleaseOnly(lock_guard, wait_transitions, n) ==
    Mx!add_unlock_guard(Mx!Mutex(Mem!get_linked(memory, lock_guard)), wait_transitions[1], n)

\* The mutex of the guard is unlocked by the start of the wait and locked
\* again by its end.
ReleaseAndReacquire(lock_guard, wait_transitions, n) ==
    LET mutex == Mx!Mutex(Mem!get_linked(memory, lock_guard))
    IN  Mx!add_lock_guard(mutex, wait_transitions[2],
                          Mx!add_unlock_guard(mutex, wait_transitions[1], n))

\* The lock guard is looked up first, and its mutex is wired to the call
\* before the condition variable is looked up: a panic of the second lookup
\* leaves the arcs of the mutex in the net.
translate_side_effects_wait ==
    LET lock_guard == extract_nth_argument(pending.args, 1)
        self_ref   == extract_nth_argument(pending.args, 0)
        relocked   == ReleaseAndReacquire(lock_guard, pending.transitions, net)
    IN  /\ Returned(CondvarWait)
        /\ \/ /\ Mem!is_linked(memory, lock_guard, "guard")
              /\ HasCondvar(self_ref)
              /\ net' = link_to_wait_call(Mem!get_linked(memory, self_ref),
                                          pending.transitions, relocked)
              /\ pending' = NoCall
              /\ UNCHANGED phase
           \/ /\ Mem!is_linked(memory, lock_guard, "guard")
              /\ ~HasCondvar(self_ref)
              /\ net' = relocked
              /\ phase' = "panicked"
              /\ UNCHANGED pending
           \/ /\ ~Mem!is_linked(memory, lock_guard, "guard")
              /\ phase' = "panicked"
              /\ UNCHANGED <<net, pending>>
        /\ UNCHANGED <<condvars, wait_counter, notify_one_counter, memory>>

(***************************************************************************)
(* std::sync::Condvar::notify_one                                          *)
(***************************************************************************)
\* `translate_call_notify_one` as it would be if the counter of the labels
\* were not incremented.
translate_call_notify_one_same_labels ==
    LET labels == notify_one_transition_labels(notify_one_counter) IN
    /\ Dispatched(CondvarNotifyOne)
    /\ net' = call_foreign_function(pending.places, labels, net)
    /\ pending' = [pending EXCEPT !.transitions = <<labels[1]>>]
    /\ UNCHANGED <<condvars, wait_counter, notify_one_counter, memory, phase>>

translate_call_notify_one ==
    LET labels == notify_one_transition_labels(notify_one_counter) IN
    /\ Dispatched(CondvarNotifyOne)
    /\ notify_one_counter' = notify_one_counter + 1
    /\ net' = call_foreign_function(pending.places, labels, net)
    /\ pending' = [pending EXCEPT !.transitions = <<labels[1]>>]
    /\ UNCHANGED <<condvars, wait_counter, memory, phase>>

translate_side_effects_notify_one ==
    LET self_ref == extract_nth_argument(pending.args, 0)
    IN  /\ Returned(CondvarNotifyOne)
        /\ \/ /\ HasCondvar(self_ref)
              /\ net' = link_to_notify_one_call(Mem!get_linked(memory, self_ref),
                                                pending.transitions[1], net)
              /\ pending' = NoCall
              /\ UNCHANGED phase
           \/ /\ ~HasCondvar(self_ref)
              /\ phase' = "panicked"
              /\ UNCHANGED <<net, pending>>
        /\ UNCHANGED <<condvars, wait_counter, notify_one_counter, memory>>

Next ==
    \/ translate_call_new
    \/ translate_side_effects_new
    \/ translate_call_wait
    \/ translate_side_effects_wait
    \/ translate_call_notify_one
    \/ translate_side_effects_notify_one

=============================================================================
