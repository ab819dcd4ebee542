----------------------------- MODULE TypeQuery ------------------------------
(***************************************************************************)
(* `is_place_ty_with_concrete_type` of src/utils.rs: the test whether the  *)
(* type of a place is an instance `type<i32>` of an expected generic type  *)
(* `type<T>`.  The code works on the text of the type, which it splits at  *)
(* the angle brackets.                                                     *)
(*                                                                         *)
(* A type is a tree: a name applied to a sequence of types.  Its text is   *)
(* the sequence of its tokens (names, "<", ">" and ","), so that splitting *)
(* the text is modelled by what it does to nested and to several           *)
(* arguments.  The input of every state is a type and an expected text.    *)
(***************************************************************************)
EXTENDS Naturals, Sequences, SequencesExt

CONSTANTS
    Constructors,   \* names of generic types, as strings
    Atoms,          \* names of types without arguments, as strings
    MaxDepth,       \* bound: nesting of type arguments
    MaxArgs         \* bound: arguments of a generic type

VARIABLES
    place_ty,           \* the type of the place
    expected_ty_str     \* the expected text, `type<T>` or `type`

vars == <<place_ty, expected_ty_str>>

Parameter  == "T"
Separators == {"<", ">"}

Type(name, args) == [name |-> name, args |-> args]

RECURSIVE Types(_)
Types(depth) ==
    LET leaves == {Type(n, <<>>) : n \in Atoms \cup {Parameter}}
    IN  IF depth = 0 THEN leaves
        ELSE leaves \cup {Type(c, args) : c \in Constructors,
                            args \in BoundedSeq(Types(depth - 1), MaxArgs) \ {<<>>}}

\* `ty.to_string()`: the name, and the arguments between angle brackets.
RECURSIVE to_string(_)
to_string(ty) ==
    LET listed == FoldLeft(LAMBDA text, arg : IF text = <<>> THEN to_string(arg)
                                              ELSE text \o <<",">> \o to_string(arg),
                           <<>>, ty.args)
    IN  IF ty.args = <<>> THEN <<ty.name>> ELSE <<ty.name, "<">> \o listed \o <<">">>

\* The texts the function is asked for: "module::type<T>" or "module::type".
ExpectedTexts ==
    {to_string(Type(c, <<Type(Parameter, <<>>)>>)) : c \in Constructors}
        \cup {to_string(Type(a, <<>>)) : a \in Atoms}

\* `str::split(&['<', '>'])`: the parts between the separators, the empty
\* ones included.
split(text) ==
    FoldLeft(LAMBDA parts, token : IF token \in Separators THEN Append(parts, <<>>)
                                   ELSE [parts EXCEPT ![Len(parts)] = Append(@, token)],
             << <<>> >>, text)

MatchesPart(part, expected_part) ==
    IF expected_part = <<Parameter>> THEN part # expected_part ELSE part = expected_part

is_place_ty_with_concrete_type(ty, expected) ==
    LET expected_parts == split(expected)
        parts          == split(to_string(ty))
    IN  /\ Len(parts) = Len(expected_parts)
        /\ \A i \in DOMAIN parts : MatchesPart(parts[i], expected_parts[i])

-----------------------------------------------------------------------------
Init ==
    /\ place_ty \in Types(MaxDepth)
    /\ expected_ty_str \in ExpectedTexts

\* The function keeps no state: a step is another question about the type.
Next ==
    /\ expected_ty_str' \in ExpectedTexts
    /\ UNCHANGED place_ty

Spec == Init /\ [][Next]_vars

-----------------------------------------------------------------------------
Generic == Head(expected_ty_str)

\* A concrete type: the parameter `T` is nowhere in it.
RECURSIVE Concrete(_)
Concrete(ty) == ty.name # Parameter /\ \A i \in DOMAIN ty.args : Concrete(ty.args[i])

(***************************************************************************)
(* What the documentation of `is_place_ty_with_concrete_type` says: the    *)
(* type of the place matches the expected text `type<T>` and `T` is a      *)
(* concrete type, not a type parameter.  The type is accepted exactly when *)
(* it has the expected name, arguments where the text has `<T>`, and all   *)
(* of them concrete.  It is about the length check and the loop over the   *)
(* zipped parts, which see the text of the type and not its arguments: a   *)
(* concrete argument with arguments of its own, `Mutex<Vec<i32>>`, splits  *)
(* into more parts than `Mutex<T>`.                                        *)
(***************************************************************************)
AcceptsConcreteInstances ==
    is_place_ty_with_concrete_type(place_ty, expected_ty_str)
        <=> /\ place_ty.name = Generic
            /\ (place_ty.args = <<>>) <=> (Len(expected_ty_str) = 1)
            /\ Concrete(place_ty)

=============================================================================
