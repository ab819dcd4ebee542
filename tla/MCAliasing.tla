----------------------------- MODULE MCAliasing -----------------------------
(***************************************************************************)
(* The values of the constants of Aliasing for the runs of TLC.            *)
(***************************************************************************)
EXTENDS Aliasing

\* Aggregates of synchronization variables only.
OnlySync == {"sync"}

\* Aggregates that also hold plain data and constants.
AnyOperand == {"sync", "plain", "constant"}

=============================================================================
