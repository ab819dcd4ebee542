------------------------------- MODULE Memory -------------------------------
(***************************************************************************)
(* The memory of one function being translated: which synchronization      *)
(* variable each local variable (slot) of the function denotes.  The       *)
(* sources of `Memory` are not in the repository; the operations are the   *)
(* ones the managers call, with the meaning the specification gives them:  *)
(* binding a slot overwrites what it denoted, and a lookup of a slot that  *)
(* does not denote a variable of the expected kind is a panic.             *)
(***************************************************************************)
CONSTANT Slots          \* the local variables of a function

Unlinked == [kind |-> "none", ref |-> 0]

Value(kind, ref) == [kind |-> kind, ref |-> ref]

EmptyMemory == [place \in Slots |-> Unlinked]

link(memory, place, kind, ref) == [memory EXCEPT ![place] = Value(kind, ref)]

is_linked(memory, place, kind) == memory[place].kind = kind

get_linked(memory, place) == memory[place].ref

=============================================================================
