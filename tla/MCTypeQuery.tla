---------------------------- MODULE MCTypeQuery -----------------------------
(***************************************************************************)
(* The values of the constants of TypeQuery for the runs of TLC: two       *)
(* generic types and two types without arguments, nested twice.            *)
(***************************************************************************)
EXTENDS TypeQuery

GenericTypes == {"std::sync::Mutex", "std::vec::Vec"}
PlainTypes   == {"i32", "std::sync::Condvar"}

=============================================================================
