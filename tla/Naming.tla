------------------------------- MODULE Naming -------------------------------
(***************************************************************************)
(* Labels of the places and transitions of the net.                        *)
(*                                                                         *)
(* The code formats a fixed text and a number (or a function name) into a  *)
(* string.  What the rest of the translator relies on is which calls give  *)
(* the same string, so a label is modelled as the tuple of the fixed text  *)
(* and what is formatted into it: two labels are equal exactly when the    *)
(* text and the number agree.  A function is named by a number (0 is       *)
(* `main`, j + 1 the closure of thread j).                                 *)
(***************************************************************************)

(***************************************************************************)
(* src/naming/thread.rs                                                    *)
(***************************************************************************)
spawn_transition_labels(index) ==
    << <<"std_thread_spawn", index>>, <<"std_thread_spawn_UNWIND", index>> >>

join_transition_labels(index) ==
    << <<"std_thread_JoinHandle_T_join", index>>,
       <<"std_thread_JoinHandle_T_join_UNWIND", index>> >>

start_place_label(index) == <<"THREAD_START", index>>

\* The label of the end place as it would be if it were formatted with the
\* text of the start place.
end_place_label_of_start(index) == <<"THREAD_START", index>>

end_place_label(index) == <<"THREAD_END", index>>

(***************************************************************************)
(* src/naming/function.rs                                                  *)
(***************************************************************************)
return_transition_label(function_name) == <<"RETURN", function_name>>

foreign_call_transition_labels(function_name) ==
    << <<"CALL", function_name>>, <<"CALL_UNWIND", function_name>> >>

diverging_call_transition_label(function_name) == <<"DIVERGING_CALL", function_name>>

panic_transition_label(function_name) == <<"PANIC", function_name>>

unwrap_transition_labels(index) ==
    << <<"std_result_Result_unwrap", index>>, <<"std_result_Result_unwrap_UNWIND", index>> >>

arc_new_transition_labels(index) ==
    << <<"std_sync_Arc_T_new", index>>, <<"std_sync_Arc_T_new_UNWIND", index>> >>

clone_transition_labels(index) ==
    << <<"std_clone_Clone_clone", index>>, <<"std_clone_Clone_clone_UNWIND", index>> >>

deref_transition_labels(index) ==
    << <<"std_ops_Deref_deref", index>>, <<"std_ops_Deref_deref_UNWIND", index>> >>

(***************************************************************************)
(* The labels of the condition variable, of the mutex and of the           *)
(* transitions of a basic block are formatted by modules that are not in   *)
(* the repository's sources; they follow the same scheme, one text per     *)
(* kind and a counter (for a basic block: the function and the block).     *)
(***************************************************************************)
place_labels(index) ==
    << <<"CONDVAR_LOST_SIGNAL_POSSIBLE", index>>, <<"CONDVAR_SIGNAL_INPUT", index>>,
       <<"CONDVAR_WAIT_INPUT", index>>, <<"CONDVAR_SIGNAL_OUTPUT", index>> >>

transition_labels(index) ==
    << <<"CONDVAR_LOST_SIGNAL", index>>, <<"CONDVAR_SIGNAL", index>> >>

new_transition_labels(index) ==
    << <<"std_sync_Condvar_new", index>>, <<"std_sync_Condvar_new_UNWIND", index>> >>

wait_transition_labels(index) ==
    << <<"std_sync_Condvar_wait_START", index>>, <<"std_sync_Condvar_wait_END", index>>,
       <<"std_sync_Condvar_wait_UNWIND", index>> >>

notify_one_transition_labels(index) ==
    << <<"std_sync_Condvar_notify_one", index>>,
       <<"std_sync_Condvar_notify_one_UNWIND", index>> >>

mutex_place_labels(index) == << <<"MUTEX_UNLOCKED", index>>, <<"MUTEX_LOCKED", index>> >>

lock_transition_labels(index) ==
    << <<"std_sync_Mutex_lock", index>>, <<"std_sync_Mutex_lock_UNWIND", index>> >>

mutex_new_transition_labels(index) ==
    << <<"std_sync_Mutex_new", index>>, <<"std_sync_Mutex_new_UNWIND", index>> >>

drop_transition_labels(function_name, block) ==
    << <<"DROP", function_name, block>>, <<"DROP_UNWIND", function_name, block>> >>

assert_transition_labels(function_name, block) ==
    << <<"ASSERT", function_name, block>>, <<"ASSERT_CLEANUP", function_name, block>> >>

goto_transition_label(function_name, block) == <<"GOTO", function_name, block>>

switch_int_transition_label(function_name, block, index) ==
    <<"SWITCH_INT", function_name, block, index>>

unwind_transition_label(function_name, block) == <<"UNWIND", function_name, block>>

unreachable_transition_label(function_name, block) == <<"UNREACHABLE", function_name, block>>

(***************************************************************************)
(* The three places of the whole program, and the place of a basic block.  *)
(***************************************************************************)
PROGRAM_START == <<"PROGRAM_START">>
PROGRAM_END   == <<"PROGRAM_END">>
PROGRAM_PANIC == <<"PROGRAM_PANIC">>

block_place_label(function_name, block) == <<"BB", function_name, block>>

=============================================================================
