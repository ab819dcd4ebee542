---------------------------- MODULE MutexManager ----------------------------
(***************************************************************************)
(* The registry of the mutexes and the translation of                      *)
(* `std::sync::Mutex::<T>::new`, `std::sync::Mutex::<T>::lock` and of the  *)
(* drop of a lock guard.  The mutex sources are not in the repository:     *)
(* the operations are the ones the walker (src/translator/mir_visitor.rs), *)
(* the dispatcher (src/translator/sync.rs) and the condition variable      *)
(* manager call, with the behaviour the specification describes.           *)
(***************************************************************************)
EXTENDS Naturals, Sequences

CONSTANT Slots

VARIABLES
    mutexes,        \* the number of mutexes created
    lock_counter,   \* the number of `lock` calls translated
    net, memory, pending, phase

LOCAL INSTANCE PetriNet
LOCAL INSTANCE Naming
LOCAL INSTANCE FunctionCall
Mx  == INSTANCE Mutex
Mem == INSTANCE Memory

MutexNew  == "std::sync::Mutex::<T>::new"
MutexLock == "std::sync::Mutex::<T>::lock"

Dispatched(fn) == phase = "translating" /\ IsDispatched(pending, fn)

Init ==
    /\ mutexes = 0
    /\ lock_counter = 0

(***************************************************************************)
(* `new`: the call, the net of a new mutex, and the destination of the     *)
(* call bound to it.                                                       *)
(***************************************************************************)
call_new ==
    /\ Dispatched(MutexNew)
    /\ net' = Mx!new(mutexes, call_foreign_function(pending.places,
                                  mutex_new_transition_labels(mutexes), net))
    /\ memory' = Mem!link(memory, pending.destination[1], "mutex", mutexes)
    /\ mutexes' = mutexes + 1
    /\ pending' = NoCall
    /\ UNCHANGED <<lock_counter, phase>>

(***************************************************************************)
(* `lock`: the transition of the call takes the token of the mutex; the    *)
(* destination of the call is the guard of that mutex.  A receiver that    *)
(* the memory does not know as a mutex is a panic.                         *)
(***************************************************************************)
call_lock ==
    LET self_ref == pending.args[1]
        labels   == lock_transition_labels(lock_counter)
        mutex    == Mx!Mutex(Mem!get_linked(memory, self_ref))
    IN  /\ Dispatched(MutexLock)
        /\ \/ /\ Mem!is_linked(memory, self_ref, "mutex")
              /\ net' = Mx!add_lock_guard(mutex, labels[1],
                            call_foreign_function(pending.places, labels, net))
              /\ memory' = Mem!link(memory, pending.destination[1], "guard",
                                    Mem!get_linked(memory, self_ref))
              /\ lock_counter' = lock_counter + 1
              /\ pending' = NoCall
              /\ UNCHANGED phase
           \/ /\ ~Mem!is_linked(memory, self_ref, "mutex")
              /\ phase' = "panicked"
              /\ UNCHANGED <<net, memory, lock_counter, pending>>
        /\ UNCHANGED mutexes

(***************************************************************************)
(* `handle_lock_guard_drop`: when the dropped place is a lock guard, the   *)
(* drop transition unlocks its mutex.                                      *)
(***************************************************************************)
handle_lock_guard_drop(place, transition_drop, mem, n) ==
    IF Mem!is_linked(mem, place, "guard")
    THEN Mx!add_unlock_guard(Mx!Mutex(Mem!get_linked(mem, place)), transition_drop, n)
    ELSE n

=============================================================================
