-------------------------------- MODULE Sync --------------------------------
(***************************************************************************)
(* The dispatcher of the calls of synchronization and thread functions     *)
(* (src/translator/sync.rs): which functions are supported, and which      *)
(* handler a supported function is translated by.                          *)
(***************************************************************************)

SupportedFunctions ==
    { "std::sync::Condvar::new", "std::sync::Condvar::notify_one",
      "std::sync::Condvar::wait", "std::sync::Condvar::wait_while",
      "std::sync::Mutex::<T>::lock", "std::sync::Mutex::<T>::new",
      "std::thread::spawn", "std::thread::JoinHandle::<T>::join" }

is_supported_function(function_name) == function_name \in SupportedFunctions

(***************************************************************************)
(* `call_function`: the handler that translates the call, named by the     *)
(* function it was written for, and whether it returns a postprocessing    *)
(* task (`Some(task)`) or none.  `wait_while` is translated by the handler *)
(* of `wait`.  There is no arm for `std::thread::spawn`, and no arm is a   *)
(* panic.  The index, the arguments, the destination and the places are    *)
(* handed on unchanged: they are the call in progress of the translator.   *)
(***************************************************************************)
Bug == "BUG: Call handler is not defined"

Handled(handler, task) == [handler |-> handler, task |-> task]

call_function(function_name) ==
    CASE function_name \in {"std::sync::Condvar::new", "std::sync::Condvar::notify_one",
                            "std::sync::Mutex::<T>::lock",
                            "std::thread::JoinHandle::<T>::join"}
            -> Handled(function_name, FALSE)
      [] function_name \in {"std::sync::Condvar::wait", "std::sync::Condvar::wait_while"}
            -> Handled("std::sync::Condvar::wait", TRUE)
      [] function_name = "std::sync::Mutex::<T>::new"
            -> Handled(function_name, TRUE)
      [] OTHER -> Handled(Bug, FALSE)

=============================================================================
