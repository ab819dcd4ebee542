---------------------------- MODULE FunctionCall ----------------------------
(***************************************************************************)
(* What the walker hands to a manager for one call, and the net of a call  *)
(* to a function whose body is not translated.                             *)
(*                                                                         *)
(* `FunctionPlaces` is the triple (start_place, end_place, cleanup_place)  *)
(* that the managers destructure; the cleanup place is optional.  The      *)
(* function `call_foreign_function` is called by the condition variable    *)
(* manager but defined outside the repository's sources: it is modelled    *)
(* from the specification (one transition from the start place to the end  *)
(* place, and one more to the cleanup place when the call can unwind).     *)
(***************************************************************************)
LOCAL INSTANCE PetriNet

None == <<>>

Some(x) == <<x>>

FunctionPlaces(start_place, end_place, cleanup_place) ==
    [start_place |-> start_place, end_place |-> end_place,
     cleanup_place |-> cleanup_place]

(***************************************************************************)
(* The call the translator is in the middle of.  A call is dispatched to   *)
(* its manager with its arguments, its destination and its places; the     *)
(* first method of a manager returns the transitions of the call, which    *)
(* the translator passes to the second.                                    *)
(***************************************************************************)
NoCall == [fn |-> "none", args |-> <<>>, destination |-> None,
           places |-> None, transitions |-> <<>>]

IsDispatched(call, fn) == call.fn = fn /\ call.transitions = <<>>

HasReturned(call, fn) == call.fn = fn /\ call.transitions # <<>>

\* The unwind branch as it would be if the arc to the cleanup place were
\* forgotten.
WithUnwindToNowhere(function_call_places, unwind_label, net) ==
    IF function_call_places.cleanup_place = None
    THEN net
    ELSE Wire(add_transition(net, unwind_label),
              << PT(function_call_places.start_place, unwind_label) >>)

(***************************************************************************)
(* The unwind branch shared by every kind of call: only when the call has  *)
(* a cleanup place.                                                        *)
(***************************************************************************)
WithUnwind(function_call_places, unwind_label, net) ==
    IF function_call_places.cleanup_place = None
    THEN net
    ELSE Wire(add_transition(net, unwind_label),
              << PT(function_call_places.start_place, unwind_label),
                 TP(unwind_label, function_call_places.cleanup_place[1]) >>)

call_foreign_function(function_call_places, labels, net) ==
    LET call == labels[1]
        wired == Wire(add_transition(net, call),
                      << PT(function_call_places.start_place, call),
                         TP(call, function_call_places.end_place) >>)
    IN  WithUnwind(function_call_places, labels[2], wired)

=============================================================================
