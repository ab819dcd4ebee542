------------------------------ MODULE PetriNet ------------------------------
(***************************************************************************)
(* The net under construction and its token game.                          *)
(*                                                                         *)
(* The translator builds one place/transition net through the append-only  *)
(* interface of the `netcrab` library: add a place, add a transition, add  *)
(* an arc, add initial tokens.  src/petri_net_interface.rs wraps the two   *)
(* arc operations so that a refused arc aborts the translation.  The       *)
(* library itself is not part of the repository; its operations are        *)
(* modelled here from the specification's description of the boundary.     *)
(*                                                                         *)
(* A place or transition reference is its label: adding a label twice      *)
(* denotes the same node.  Arcs carry a multiplicity, so the two arc       *)
(* relations and the initial marking are bags.                             *)
(***************************************************************************)
LOCAL INSTANCE Naturals
LOCAL INSTANCE FiniteSets
LOCAL INSTANCE Bags
LOCAL INSTANCE SequencesExt

(***************************************************************************)
(* `PetriNet::new`: no places, no transitions.  `aborted` records that an  *)
(* operation on the net panicked; nothing is added to an aborted net.      *)
(***************************************************************************)
EmptyNet ==
    [places      |-> {},
     transitions |-> {},
     pre         |-> EmptyBag,      \* arcs <<place, transition>>
     post        |-> EmptyBag,      \* arcs <<transition, place>>
     tokens      |-> EmptyBag,      \* the initial marking
     aborted     |-> FALSE]

Abort(net) == [net EXCEPT !.aborted = TRUE]

add_place(net, label) ==
    IF net.aborted THEN net ELSE [net EXCEPT !.places = @ \cup {label}]

add_transition(net, label) ==
    IF net.aborted THEN net ELSE [net EXCEPT !.transitions = @ \cup {label}]

(***************************************************************************)
(* `PetriNet::add_token`: an error for a place the net does not have.      *)
(* The callers `expect` the result, so the error is a panic.               *)
(***************************************************************************)
add_token(net, place_ref, n) ==
    CASE net.aborted                -> net
      [] place_ref \notin net.places -> Abort(net)
      [] OTHER -> [net EXCEPT !.tokens = @ (+) [p \in {place_ref} |-> n]]

(***************************************************************************)
(* The library refuses an arc whose place or transition it does not have.  *)
(***************************************************************************)
ArcAccepted(net, place_ref, transition_ref) ==
    /\ place_ref \in net.places
    /\ transition_ref \in net.transitions

(***************************************************************************)
(* The wrappers of src/petri_net_interface.rs: an arc of multiplicity one, *)
(* and a panic when the library refuses it.                                *)
(***************************************************************************)
add_arc_place_transition(net, place_ref, transition_ref) ==
    CASE net.aborted -> net
      [] ~ArcAccepted(net, place_ref, transition_ref) -> Abort(net)
      [] OTHER -> [net EXCEPT !.pre = @ (+) SetToBag({<<place_ref, transition_ref>>})]

add_arc_transition_place(net, transition_ref, place_ref) ==
    CASE net.aborted -> net
      [] ~ArcAccepted(net, place_ref, transition_ref) -> Abort(net)
      [] OTHER -> [net EXCEPT !.post = @ (+) SetToBag({<<transition_ref, place_ref>>})]

(***************************************************************************)
(* A gadget is wired by a fixed list of arcs.  PT(p, t) and TP(t, p) name  *)
(* the two kinds; Wire adds them in the order of the list.                 *)
(***************************************************************************)
PT(place_ref, transition_ref) == <<"PT", place_ref, transition_ref>>
TP(transition_ref, place_ref) == <<"TP", transition_ref, place_ref>>

Wire(net, arcs) ==
    LET add(n, a) == IF a[1] = "PT" THEN add_arc_place_transition(n, a[2], a[3])
                                    ELSE add_arc_transition_place(n, a[2], a[3])
    IN  FoldLeft(add, net, arcs)

-----------------------------------------------------------------------------
(***************************************************************************)
(* Structure.                                                              *)
(***************************************************************************)
Preset(net, t)  == {a[1] : a \in {b \in BagToSet(net.pre)  : b[2] = t}}
Postset(net, t) == {a[2] : a \in {b \in BagToSet(net.post) : b[1] = t}}

(***************************************************************************)
(* The token game the finished net is handed over for: a marking gives     *)
(* every place a number of tokens; a transition is enabled when every      *)
(* input place holds the arc's multiplicity, and firing it moves tokens.   *)
(***************************************************************************)
InitialMarking(net) == [p \in net.places |-> CopiesIn(p, net.tokens)]

IsEnabled(net, marking, t) ==
    \A p \in Preset(net, t) : marking[p] >= CopiesIn(<<p, t>>, net.pre)

Fire(net, marking, t) ==
    [p \in net.places |->
        (marking[p] - CopiesIn(<<p, t>>, net.pre)) + CopiesIn(<<t, p>>, net.post)]

=============================================================================
