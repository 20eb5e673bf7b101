---------------------------- MODULE Descriptors -----------------------------
(***************************************************************************)
(* crates/pytecode-engine/src/descriptors.rs and signatures.rs: which texts  *)
(* are types.  A text is a sequence of character codes.  What begins at a    *)
(* place is parsed by saying where it ends, the place behind its last        *)
(* character; it is refused by ending at 0.                                  *)
(***************************************************************************)
EXTENDS Integers, Sequences, FiniteSetsExt

LOCAL INSTANCE SequencesExt

BaseTypes == {66, 67, 68, 70, 73, 74, 83, 90}   \* B C D F I J S Z
Open == 40          \* (
Close == 41         \* )
Star == 42          \* *
Plus == 43          \* +
Minus == 45         \* -
Dot == 46           \* .
Slash == 47         \* /
Colon == 58         \* :
Semicolon == 59     \* ;
Less == 60          \* <
Greater == 62       \* >
ClassMark == 76     \* L
VariableMark == 84  \* T
VoidMark == 86      \* V
Bracket == 91       \* [
Caret == 94         \* ^

Has(text, i, char) == i \in DOMAIN text /\ text[i] = char

\* The first place from i on with one of these characters, or the end of the text.
NextOf(text, i, chars) == Min({j \in i..Len(text) : text[j] \in chars} \cup {Len(text) + 1})

-----------------------------------------------------------------------------
(* Descriptors. *)

validate_internal_name(name) ==
    /\ \A i \in DOMAIN name : name[i] # Dot
    /\ \A i \in DOMAIN name : name[i] = Slash => 1 < i /\ i < Len(name) /\ name[i + 1] # Slash

parse_object_type(text, i) ==
    LET stop == NextOf(text, i, {Semicolon})
    IN  IF i < stop /\ stop <= Len(text) /\ validate_internal_name(SubSeq(text, i, stop - 1))
        THEN stop + 1 ELSE 0

\* A wrong end: what follows the mark of an array is not looked at.
ArrayOfAnything(text) ==
    [i \in 0..(Len(text) + 1) |->
        CASE i \notin DOMAIN text -> 0
          [] text[i] \in BaseTypes -> i + 1
          [] text[i] = ClassMark -> parse_object_type(text, i + 1)
          [] text[i] = Bracket -> i + 1
          [] OTHER -> 0]

parse_field_descriptor_at(text) ==
    LET end[i \in 0..(Len(text) + 1)] ==
            CASE i \notin DOMAIN text -> 0
              [] text[i] \in BaseTypes -> i + 1
              [] text[i] = ClassMark -> parse_object_type(text, i + 1)
              [] text[i] = Bracket -> end[i + 1]
              [] OTHER -> 0
    IN  end

is_valid_field_descriptor(text) == parse_field_descriptor_at(text)[1] = Len(text) + 1

\* Parameters up to the parenthesis, each of a kind that ends where end says.
Parameters(text, end) ==
    LET from[i \in 0..(Len(text) + 1)] ==
            CASE Has(text, i, Close) -> i + 1
              [] end[i] = 0 -> 0
              [] OTHER -> from[end[i]]
    IN  IF Has(text, 1, Open) THEN from[2] ELSE 0

Result(text, end, i) == IF Has(text, i, VoidMark) THEN i + 1 ELSE end[i]

is_valid_method_descriptor(text) ==
    LET end == parse_field_descriptor_at(text)
    IN  Result(text, end, Parameters(text, end)) = Len(text) + 1

-----------------------------------------------------------------------------
(* Signatures. *)

IdentifierMarks == {Dot, Semicolon, Bracket, Slash, Less, Greater, Colon}

\* An identifier ends at one of its terminators; no other mark may be in it.
parse_identifier_at(text, i, terminators) ==
    LET stop == NextOf(text, i, terminators)
    IN  IF stop = i \/ NextOf(text, i, IdentifierMarks) < stop THEN 0 ELSE stop

\* Where a [kind, place] ends: "type", "reference" and "class" are types; "names" goes on
\* in the packages of a class, "arguments" behind its name, "more" in its type arguments,
\* "suffix" behind them.
Signatures(text) ==
    LET At(i, char) == Has(text, i, char)
        end[kind \in {"type", "reference", "class", "names", "arguments", "more", "suffix"},
            i \in 0..(Len(text) + 1)] ==
            CASE i = 0 -> 0
              [] kind = "type" ->
                    IF i \in DOMAIN text /\ text[i] \in BaseTypes THEN i + 1 ELSE end["reference", i]
              [] kind = "reference" ->
                    CASE At(i, ClassMark) -> end["class", i]
                      [] At(i, VariableMark) ->
                            LET stop == parse_identifier_at(text, i + 1, {Semicolon})
                            IN  IF At(stop, Semicolon) THEN stop + 1 ELSE 0
                      [] At(i, Bracket) -> end["type", i + 1]
                      [] OTHER -> 0
              [] kind = "class" -> IF At(i, ClassMark) THEN end["names", i + 1] ELSE 0
              [] kind = "names" ->
                    LET stop == parse_identifier_at(text, i, {Slash, Semicolon, Less, Dot})
                    IN  IF At(stop, Slash) THEN end["names", stop + 1] ELSE end["arguments", stop]
              [] kind = "arguments" ->
                    CASE ~At(i, Less) -> end["suffix", i]
                      [] At(i + 1, Greater) -> 0
                      [] OTHER -> end["suffix", end["more", i + 1]]
              [] kind = "more" ->
                    CASE At(i, Greater) -> i + 1
                      [] At(i, Star) -> end["more", i + 1]
                      [] At(i, Plus) \/ At(i, Minus) -> end["more", end["reference", i + 1]]
                      [] OTHER -> end["more", end["reference", i]]
              [] kind = "suffix" ->
                    CASE At(i, Dot) ->
                            end["arguments", parse_identifier_at(text, i + 1, {Semicolon, Less, Dot})]
                      [] At(i, Semicolon) -> i + 1
                      [] OTHER -> 0
    IN  end

parse_field_signature(text) == Signatures(text)["reference", 1] = Len(text) + 1

\* Bounds of a type parameter, the first of them optional.
Bounds(text, end, i) ==
    LET from[j \in 0..(Len(text) + 1)] ==
            CASE j = 0 -> 0
              [] Has(text, j, Colon) -> from[end["reference", j + 1]]
              [] OTHER -> j
    IN  IF i \in DOMAIN text /\ text[i] \in {ClassMark, VariableMark, Bracket}
        THEN from[end["reference", i]] ELSE from[i]

parse_optional_type_parameters_at(text, end) ==
    LET from[i \in 0..(Len(text) + 1)] ==
            LET stop == parse_identifier_at(text, i, {Colon})
            IN  CASE i = 0 -> 0
                  [] Has(text, i, Greater) -> i + 1
                  [] Has(text, stop, Colon) -> from[Bounds(text, end, stop + 1)]
                  [] OTHER -> 0
    IN  CASE ~Has(text, 1, Less) -> 1
          [] Has(text, 2, Greater) -> 0
          [] OTHER -> from[2]

parse_class_signature(text) ==
    LET end == Signatures(text)
        all[i \in 0..(Len(text) + 1)] == i # 0 /\ (i > Len(text) \/ all[end["class", i]])
    IN  all[end["class", parse_optional_type_parameters_at(text, end)]]

parse_method_signature(text) ==
    LET end == Signatures(text)
        types == [i \in 0..(Len(text) + 1) |-> end["type", i]]
        start == parse_optional_type_parameters_at(text, end)
        parameters[i \in 0..(Len(text) + 1)] ==
            CASE i = 0 -> 0
              [] Has(text, i, Close) -> i + 1
              [] OTHER -> parameters[types[i]]
        throws[i \in 0..(Len(text) + 1)] ==
            CASE i = 0 -> FALSE
              [] Has(text, i, Caret) ->
                    throws[IF Has(text, i + 1, Bracket) THEN 0 ELSE end["reference", i + 1]]
              [] OTHER -> i > Len(text)
    IN  Has(text, start, Open) /\ throws[Result(text, types, parameters[start + 1])]
=============================================================================
