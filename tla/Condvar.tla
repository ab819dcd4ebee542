------------------------------ MODULE Condvar -------------------------------
(***************************************************************************)
(* The net of one condition variable (src/translator/sync/condvar.rs):     *)
(* four places and two transitions.                                        *)
(*                                                                         *)
(*   lost_signal_possible (one token)   signal_input   wait_input          *)
(*   signal_output                                                         *)
(*   lost_signal_transition : lost_signal_possible, signal_input           *)
(*                              -> lost_signal_possible                    *)
(*   signal_transition      : wait_input, signal_input                     *)
(*                              -> lost_signal_possible, signal_output     *)
(*                                                                         *)
(* A `wait` call takes the token of lost_signal_possible and puts one in   *)
(* wait_input; a `notify_one` call puts one in signal_input.  The two      *)
(* transitions are in conflict over signal_input.                          *)
(***************************************************************************)
LOCAL INSTANCE Naturals
LOCAL INSTANCE Sequences
LOCAL INSTANCE PetriNet
LOCAL INSTANCE Naming

(***************************************************************************)
(* `struct Condvar`: the references to its four places.                    *)
(***************************************************************************)
Condvar(index) ==
    [lost_signal_possible |-> place_labels(index)[1],
     signal_input         |-> place_labels(index)[2],
     wait_input           |-> place_labels(index)[3],
     signal_output        |-> place_labels(index)[4]]

lost_signal_transition(index) == transition_labels(index)[1]
signal_transition(index)      == transition_labels(index)[2]

\* The places and transitions of `Condvar::new`, and the token.
Nodes(index, net) ==
    LET self   == Condvar(index)
        places == add_place(add_place(add_place(add_place(net,
                      self.lost_signal_possible), self.signal_input),
                      self.wait_input), self.signal_output)
        marked == add_token(places, self.lost_signal_possible, 1)
    IN  add_transition(add_transition(marked, lost_signal_transition(index)),
                       signal_transition(index))

\* The arcs of `Condvar::new`, in the order the code adds them.
Arcs(index) ==
    LET self   == Condvar(index)
        lost   == lost_signal_transition(index)
        signal == signal_transition(index)
    IN  << PT(self.lost_signal_possible, lost),
           PT(self.signal_input, lost),
           PT(self.wait_input, signal),
           PT(self.signal_input, signal),
           TP(lost, self.lost_signal_possible),
           TP(signal, self.lost_signal_possible),
           TP(signal, self.signal_output) >>

Without(index, arcs) == SelectSeq(Arcs(index), LAMBDA arc : arc \notin arcs)

\* `Condvar::new` as it would be if `signal_transition` did not give the token
\* of `lost_signal_possible` back.
new_without_flag_restored(index, net) ==
    Wire(Nodes(index, net),
         Without(index, {TP(signal_transition(index), Condvar(index).lost_signal_possible)}))

\* `Condvar::new` as it would be if `lost_signal_transition` were not
\* connected to `lost_signal_possible`.
new_with_loss_unguarded(index, net) ==
    LET flag == Condvar(index).lost_signal_possible
        lost == lost_signal_transition(index)
    IN  Wire(Nodes(index, net), Without(index, {PT(flag, lost), TP(lost, flag)}))

(***************************************************************************)
(* `Condvar::new`: the net with the gadget of condition variable `index`   *)
(* added to it.                                                            *)
(***************************************************************************)
new(index, net) == Wire(Nodes(index, net), Arcs(index))

\* `link_to_wait_call` as it would be if the end of the wait were not
\* connected to `signal_output`.
link_to_wait_call_without_wakeup(self, wait_start_transition, wait_end_transition, net) ==
    Wire(net, << PT(self.lost_signal_possible, wait_start_transition),
                 TP(wait_start_transition, self.wait_input) >>)

(***************************************************************************)
(* `Condvar::link_to_wait_call`.                                           *)
(***************************************************************************)
link_to_wait_call(self, wait_start_transition, wait_end_transition, net) ==
    Wire(net, << PT(self.lost_signal_possible, wait_start_transition),
                 TP(wait_start_transition, self.wait_input),
                 PT(self.signal_output, wait_end_transition) >>)

\* `link_to_notify_one_call` as it would be if the call were connected to
\* the output place of the signal instead of its input place.
link_to_notify_one_call_at_output(self, signal_call_transition, net) ==
    Wire(net, << TP(signal_call_transition, self.signal_output) >>)

(***************************************************************************)
(* `Condvar::link_to_notify_one_call`.                                     *)
(***************************************************************************)
link_to_notify_one_call(self, signal_call_transition, net) ==
    Wire(net, << TP(signal_call_transition, self.signal_input) >>)

=============================================================================
