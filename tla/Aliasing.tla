------------------------------ MODULE Aliasing ------------------------------
(***************************************************************************)
(* How the translator follows a synchronization variable through the       *)
(* assignments of a function (src/translator/sync.rs): the construction of *)
(* an aggregate, the assignment of a place or of a field of a place, and   *)
(* the value a call returns for its first argument.                        *)
(*                                                                         *)
(* The input is the function: one statement at a time, each assigning the  *)
(* next local variable.  `value` is what the program has in its locals, a  *)
(* tree of tuples with handles and plain data at its leaves; `memory` is   *)
(* what the translator has linked them to.  The type of a place is the     *)
(* shape of its value: the text of the type of a tuple contains the texts  *)
(* of the types of its fields, which is all the code asks of a type.       *)
(* The memory is not among the sources; its three operations are those of  *)
(* the specification, and it knows a place by its local.                   *)
(***************************************************************************)
EXTENDS Naturals, Sequences, FiniteSets, SequencesExt

CONSTANTS
    MaxLocals,      \* bound: local variables of the function
    MaxOperands,    \* bound: operands of an aggregate
    MaxFields,      \* bound: fields in the projection of a place
    OperandKinds,   \* the operands aggregates have: "sync", "plain", "constant"
    Reborrows,      \* BOOLEAN: the function has places `*_1` with no field
    DirectFields    \* BOOLEAN: the function has places `_1.0` with no `*`

VARIABLES
    value,      \* the program: local -> what it holds
    refs,       \* the program: the locals that hold a reference
    memory,     \* the translator: local -> what it is linked to
    phase       \* "translating" or "panicked"

vars == <<value, refs, memory, phase>>

Locals == 1 .. MaxLocals

\* The texts `check_if_sync_variable` looks for in a type.
SyncTypes == <<"std::sync::MutexGuard<", "std::sync::Mutex<",
               "std::thread::JoinHandle<", "std::sync::Condvar">>

Undefined    == <<"undefined">>
Plain        == <<"plain">>
Handle(k, l) == <<"handle", k, l>>      \* the variable of type k made in local l
Tuple(fs)    == <<"tuple", fs>>

Unlinked      == <<"none">>
Aggregate(vs) == <<"aggregate", vs>>

Deref    == <<"deref">>                 \* the elements of a projection
Field(n) == <<"field", n>>
Place(local, projection) == [local |-> local, projection |-> projection]
Constant == Place(0, <<>>)              \* the operand that is no place

\* The value of a place: the fields of its projection, one after the other.
RECURSIVE At(_, _)
At(v, fields) ==
    IF fields = <<>> THEN v ELSE At(v[2][Head(fields) + 1], Tail(fields))

\* The field numbers of the projection of a place, in their order.
Fields(place) ==
    LET fields == SelectSeq(place.projection, LAMBDA elem : elem # Deref)
    IN  [i \in DOMAIN fields |-> fields[i][2]]

ValueOf(place) == At(value[place.local], Fields(place))

\* The field paths of at most n fields that a value has.
RECURSIVE FieldPaths(_, _)
FieldPaths(v, n) ==
    IF n = 0 \/ v[1] # "tuple" THEN {<<>>}
    ELSE {<<>>} \cup UNION {{<<i - 1>> \o path : path \in FieldPaths(v[2][i], n - 1)} :
                               i \in DOMAIN v[2]}

RECURSIVE TypeText(_)
TypeText(v) ==
    CASE v[1] = "handle" -> {v[2]}
      [] v[1] = "tuple"  -> UNION {TypeText(v[2][i]) : i \in DOMAIN v[2]}
      [] OTHER           -> {}

check_substring_in_place_type(ty, text) == text \in TypeText(ty)

check_if_sync_variable(ty) ==
    \E i \in DOMAIN SyncTypes : check_substring_in_place_type(ty, SyncTypes[i])

-----------------------------------------------------------------------------
(***************************************************************************)
(* The memory (specification, 4.2).                                        *)
(***************************************************************************)
link_place_to_same_value(mem, place_to_link, place_linked) ==
    [mem EXCEPT ![place_to_link] = mem[place_linked.local]]

create_aggregate(mem, place, places) ==
    [mem EXCEPT ![place] = Aggregate([i \in DOMAIN places |-> mem[places[i].local]])]

has_field(mem, place, field_number) ==
    /\ mem[place.local][1] = "aggregate"
    /\ field_number < Len(mem[place.local][2])

link_field_in_aggregate(mem, place_to_link, place_linked, field_number) ==
    [mem EXCEPT ![place_to_link] = mem[place_linked.local][2][field_number + 1]]

-----------------------------------------------------------------------------
Translating == phase = "translating"

\* The statement assigns the next local of the function.
next_local == Cardinality({l \in Locals : value[l] # Undefined}) + 1

Assigns(place, v, reference) ==
    /\ Translating
    /\ place = next_local /\ place \in Locals
    /\ value' = [value EXCEPT ![place] = v]
    /\ refs' = IF reference THEN refs \cup {place} ELSE refs

Defined == {l \in Locals : value[l] # Undefined}

\* `_1 = Mutex::new(..)`: the destination is bound to a new variable.
bind_new_handle(place, kind) ==
    /\ Assigns(place, Handle(kind, place), FALSE)
    /\ memory' = [memory EXCEPT ![place] = Handle(kind, place)]
    /\ UNCHANGED phase

(***************************************************************************)
(* `_X = (op, op, ..)`: the operands that are places of a synchronization  *)
(* variable are collected, and if there is one the destination becomes an  *)
(* aggregate of them.                                                      *)
(***************************************************************************)
\* The mutant: every operand that is a place is collected.
every_place(operands) == SelectSeq(operands, LAMBDA rhs : rhs # Constant)

places_with_sync_variables(operands) ==
    SelectSeq(operands, LAMBDA rhs : /\ rhs # Constant
                                     /\ check_if_sync_variable(value[rhs.local]))

handle_aggregate_assignment(place, operands) ==
    LET sync_places == places_with_sync_variables(operands)
        built == Tuple([i \in DOMAIN operands |->
                          IF operands[i] = Constant THEN Plain
                          ELSE value[operands[i].local]])
    IN  /\ Assigns(place, built, FALSE)
        /\ memory' = IF sync_places = <<>> THEN memory
                     ELSE create_aggregate(memory, place, sync_places)
        /\ UNCHANGED phase

\* The mutant: the two places of the link are swapped.
generalized_link_swapped(mem, place_to_link, place_linked, ty) ==
    FoldLeft(LAMBDA m, text : IF check_substring_in_place_type(ty, text)
                              THEN link_place_to_same_value(m, place_linked.local,
                                                            Place(place_to_link, <<>>))
                              ELSE m,
             mem, SyncTypes)

\* One link for each of the four texts the type of the place contains.
generalized_link_place_if_sync_variable(mem, place_to_link, place_linked, ty) ==
    FoldLeft(LAMBDA m, text : IF check_substring_in_place_type(ty, text)
                              THEN link_place_to_same_value(m, place_to_link, place_linked)
                              ELSE m,
             mem, SyncTypes)

(***************************************************************************)
(* `link_if_sync_variable`.  A place without projection is linked as it    *)
(* is.  Of a place with a projection, the last field number is looked up   *)
(* in an aggregate: that of the place without its projection if there is   *)
(* a `*` in it, that of the place as it is if not.  A projection without a *)
(* field, and a field the aggregate does not have, are panics.  `tcx`      *)
(* gives the type of a place.                                              *)
(***************************************************************************)
has_deref(place) == Deref \in ToSet(place.projection)

base_place(place) == Place(place.local, <<>>)

\* The mutant: a field is read whatever the type of the destination is.
never_returns_early(place_to_link, tcx) == FALSE

\* Nothing is linked to a destination whose type mentions no variable.
returns_early(place_to_link, tcx) == ~check_if_sync_variable(tcx[place_to_link])

link_if_sync_variable(place_to_link, place_linked, tcx) ==
    LET fields       == Fields(place_linked)
        field_number == Last(fields)
        aggregate    == IF has_deref(place_linked) THEN base_place(place_linked)
                        ELSE place_linked
    IN  \/ /\ place_linked.projection = <<>>
           /\ memory' = generalized_link_place_if_sync_variable(
                            memory, place_to_link, place_linked, tcx[place_linked.local])
           /\ UNCHANGED phase
        \/ /\ place_linked.projection # <<>>
           /\ returns_early(place_to_link, tcx)
           /\ UNCHANGED <<memory, phase>>
        \/ /\ place_linked.projection # <<>>
           /\ ~returns_early(place_to_link, tcx)
           /\ \/ /\ fields = <<>>
                 /\ phase' = "panicked"
                 /\ UNCHANGED memory
              \/ /\ fields # <<>>
                 /\ has_field(memory, aggregate, field_number)
                 /\ memory' = link_field_in_aggregate(memory, place_to_link,
                                                      aggregate, field_number)
                 /\ UNCHANGED phase
              \/ /\ fields # <<>>
                 /\ ~has_field(memory, aggregate, field_number)
                 /\ phase' = "panicked"
                 /\ UNCHANGED memory

\* The places a statement can name: a local, a local behind a reference,
\* and their fields.
Derefs(l) == {<<>>} \cup (IF l \in refs THEN {<<Deref>>} ELSE {})

PlacesOf(l) ==
    {Place(l, deref \o [i \in DOMAIN path |-> Field(path[i])]) :
        deref \in Derefs(l), path \in FieldPaths(value[l], MaxFields)}

Places ==
    {place \in UNION {PlacesOf(l) : l \in Defined} :
        /\ Reborrows \/ place.projection # <<Deref>>
        /\ DirectFields \/ place.projection = <<>> \/ has_deref(place)}

\* `_X = _Y`, `_X = &_Y`, `_X = move _Y` and the same of `(*_Y).Z`.
assign(place, rvalue, reference) ==
    /\ Assigns(place, ValueOf(rvalue), reference)
    /\ link_if_sync_variable(place, rvalue, value')

(***************************************************************************)
(* `link_return_value_if_sync_variable`: the value a call of `clone`,      *)
(* `deref`, `unwrap` or `Arc::new` returns is linked to its first          *)
(* argument, if there is one and it is a place.                            *)
(***************************************************************************)
extract_nth_argument_as_place(args, n) ==
    IF n < Len(args) /\ args[n + 1] # Constant THEN <<args[n + 1]>> ELSE <<>>

link_return_value_if_sync_variable(args, return_value, tcx) ==
    LET first_argument == extract_nth_argument_as_place(args, 0)
    IN  \/ /\ first_argument = <<>>
           /\ UNCHANGED <<memory, phase>>
        \/ /\ first_argument # <<>>
           /\ link_if_sync_variable(return_value, first_argument[1], tcx)

\* What such a call returns: what its first argument holds.
Returned(args) == IF args \in {<<>>, <<Constant>>} THEN Plain ELSE ValueOf(args[1])

\* `_X = f(args)` for one of these functions.
call(place, args) ==
    /\ Assigns(place, Returned(args), FALSE)
    /\ link_return_value_if_sync_variable(args, place, value')

-----------------------------------------------------------------------------
Init ==
    /\ value = [l \in Locals |-> Undefined]
    /\ refs = {}
    /\ memory = [l \in Locals |-> Unlinked]
    /\ phase = "translating"

OperandKind(l) == IF check_if_sync_variable(value[l]) THEN "sync" ELSE "plain"

Operands ==
    {Place(l, <<>>) : l \in {d \in Defined : OperandKind(d) \in OperandKinds}}
        \cup (IF "constant" \in OperandKinds THEN {Constant} ELSE {})

Arguments == {<<>>, <<Constant>>} \cup {<<p>> : p \in Places}

Next ==
    \E place \in Locals \cap {next_local} :
        \/ \E i \in DOMAIN SyncTypes : bind_new_handle(place, SyncTypes[i])
        \/ \E operands \in BoundedSeq(Operands, MaxOperands) \ {<<>>} :
               handle_aggregate_assignment(place, operands)
        \/ \E rvalue \in Places, reference \in BOOLEAN : assign(place, rvalue, reference)
        \/ \E args \in Arguments : call(place, args)

Spec == Init /\ [][Next]_vars

-----------------------------------------------------------------------------
\* What the memory may link a local to: a handle, or an aggregate of such.
RECURSIVE Denotation(_)
Denotation(m) ==
    \/ m[1] = "handle" /\ \E i \in DOMAIN SyncTypes : m[2] = SyncTypes[i]
    \/ m[1] = "aggregate" /\ m[2] # <<>> /\ \A i \in DOMAIN m[2] : Denotation(m[2][i])

(***************************************************************************)
(* The type invariant.  The program is a function of at most MaxLocals     *)
(* locals assigned in their order; the memory links a local only once the  *)
(* program has assigned it, and to handles and aggregates of handles only: *)
(* `handle_aggregate_assignment` puts no place in an aggregate that the    *)
(* memory has nothing for.                                                 *)
(***************************************************************************)
TypeOK ==
    /\ phase \in {"translating", "panicked"}
    /\ refs \subseteq Defined
    /\ Defined = 1 .. Cardinality(Defined)
    /\ \A l \in Locals \ Defined : memory[l] = Unlinked
    /\ \A l \in Defined : memory[l] = Unlinked \/ Denotation(memory[l])

(***************************************************************************)
(* The memory answers which synchronization variable a local denotes       *)
(* (specification, 4.2): every local that holds a handle in the program,   *)
(* or a reference to one, is linked to that handle.  It is about the       *)
(* position `handle_aggregate_assignment` gives a variable in an           *)
(* aggregate and the field number `link_if_sync_variable` reads it by,     *)
(* several statements later.                                               *)
(***************************************************************************)
LinkedToDenoted ==
    Translating => \A l \in Defined : value[l][1] = "handle" => memory[l] = value[l]

\* A value with no plain data in it.
RECURSIVE OfVariablesOnly(_)
OfVariablesOnly(v) ==
    \/ v[1] = "handle"
    \/ v[1] = "tuple" /\ \A i \in DOMAIN v[2] : OfVariablesOnly(v[2][i])

(***************************************************************************)
(* The same of the functions whose aggregates hold synchronization         *)
(* variables and nothing else: there the rank of an operand among those    *)
(* `handle_aggregate_assignment` keeps is its field number, and the links  *)
(* `link_if_sync_variable` and `link_return_value_if_sync_variable` make   *)
(* through copies, references, fields and calls follow the program.        *)
(***************************************************************************)
LinkedThroughAggregatesOfVariables ==
    (\A l \in Defined : value[l][1] = "tuple" => OfVariablesOnly(value[l]))
        => LinkedToDenoted

(***************************************************************************)
(* Only what the program made of synchronization variables is linked: a    *)
(* local whose type mentions none of them stays unlinked, whatever its     *)
(* right-hand side is a field of.  It is about the type the code checks    *)
(* before it reads a field of an aggregate: that of the destination in     *)
(* `link_if_sync_variable`, not that of the aggregate, which may hold      *)
(* plain data beside its variables.                                        *)
(***************************************************************************)
OnlySyncIsLinked ==
    \A l \in Defined : ~check_if_sync_variable(value[l]) => memory[l] = Unlinked

(***************************************************************************)
(* The translation of the assignments of a function does not panic: the    *)
(* forms `link_if_sync_variable` is documented to handle are those the     *)
(* program is made of.                                                     *)
(***************************************************************************)
HandlesEveryAssignment == phase # "panicked"

=============================================================================
