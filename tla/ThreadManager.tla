--------------------------- MODULE ThreadManager ----------------------------
(***************************************************************************)
(* The registry of the threads the program spawns and the translation of   *)
(* `std::thread::spawn` and `std::thread::JoinHandle::<T>::join`.  The     *)
(* labels are those of src/naming/thread.rs; the thread sources are not in *)
(* the repository and the operations follow the specification: a start     *)
(* place that the spawn transition marks, an end place that the join       *)
(* consumes from, and the memory the closure starts with.                  *)
(***************************************************************************)
EXTENDS Naturals, Sequences

CONSTANT Slots

VARIABLES
    threads,        \* one record for every thread spawned so far
    join_counter,   \* the number of `join` calls translated
    net, memory, pending, phase

LOCAL INSTANCE PetriNet
LOCAL INSTANCE Naming
LOCAL INSTANCE FunctionCall
Mem == INSTANCE Memory

ThreadSpawn == "std::thread::spawn"
ThreadJoin  == "std::thread::JoinHandle::<T>::join"

Dispatched(fn) == phase = "translating" /\ IsDispatched(pending, fn)

Init ==
    /\ threads = <<>>
    /\ join_counter = 0

(***************************************************************************)
(* The closure of a thread is given the mutexes and condition variables    *)
(* its creator knows.  A lock guard cannot be sent to another thread, and  *)
(* the join handles stay with the creator.                                 *)
(***************************************************************************)
Captured(mem) ==
    [place \in Slots |->
        IF mem[place].kind \in {"mutex", "condvar"} THEN mem[place] ELSE Mem!Unlinked]

(***************************************************************************)
(* `spawn`: the call, the two places of the new thread, the spawn          *)
(* transition marking its start place, and the destination of the call     *)
(* (the join handle) bound to the thread.                                  *)
(***************************************************************************)
call_spawn ==
    LET index  == Len(threads)
        labels == spawn_transition_labels(index)
        called == call_foreign_function(pending.places, labels, net)
        places == add_place(add_place(called, start_place_label(index)),
                            end_place_label(index))
    IN  /\ Dispatched(ThreadSpawn)
        /\ net' = Wire(places, << TP(labels[1], start_place_label(index)) >>)
        /\ threads' = Append(threads, [memory |-> Captured(memory)])
        /\ memory' = IF pending.destination = None THEN memory
                     ELSE Mem!link(memory, pending.destination[1], "thread", index)
        /\ pending' = NoCall
        /\ UNCHANGED <<join_counter, phase>>

(***************************************************************************)
(* `join`: the transition of the call waits for the end of the thread the  *)
(* join handle denotes.  A receiver that the memory does not know as a     *)
(* join handle is a panic.                                                 *)
(***************************************************************************)
call_join ==
    LET self_ref == pending.args[1]
        labels   == join_transition_labels(join_counter)
        thread   == Mem!get_linked(memory, self_ref)
    IN  /\ Dispatched(ThreadJoin)
        /\ \/ /\ Mem!is_linked(memory, self_ref, "thread")
              /\ net' = Wire(call_foreign_function(pending.places, labels, net),
                             << PT(end_place_label(thread), labels[1]) >>)
              /\ join_counter' = join_counter + 1
              /\ pending' = NoCall
              /\ UNCHANGED phase
           \/ /\ ~Mem!is_linked(memory, self_ref, "thread")
              /\ phase' = "panicked"
              /\ UNCHANGED <<net, join_counter, pending>>
        /\ UNCHANGED <<threads, memory>>

=============================================================================
