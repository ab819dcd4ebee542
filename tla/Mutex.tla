------------------------------- MODULE Mutex --------------------------------
(***************************************************************************)
(* The net of one mutex, as the specification describes it (the mutex      *)
(* sources are not in the repository): an `unlocked` place that holds one  *)
(* token initially and a `locked` place.  A transition that locks the      *)
(* mutex moves the token from unlocked to locked, one that unlocks it      *)
(* moves it back.                                                          *)
(***************************************************************************)
LOCAL INSTANCE Naturals
LOCAL INSTANCE PetriNet
LOCAL INSTANCE Naming

Mutex(index) ==
    [unlocked |-> mutex_place_labels(index)[1],
     locked   |-> mutex_place_labels(index)[2]]

new(index, net) ==
    LET self == Mutex(index)
    IN  add_token(add_place(add_place(net, self.unlocked), self.locked),
                  self.unlocked, 1)

add_lock_guard(self, transition_ref, net) ==
    Wire(net, << PT(self.unlocked, transition_ref), TP(transition_ref, self.locked) >>)

add_unlock_guard(self, transition_ref, net) ==
    Wire(net, << PT(self.locked, transition_ref), TP(transition_ref, self.unlocked) >>)

=============================================================================
