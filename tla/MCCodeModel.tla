---------------------------- MODULE MCCodeModel ----------------------------
(* Four Code attributes of three to five instructions.                       *)
EXTENDS CodeModel

\* An operation "far" loads a constant whose index takes two bytes.
Sizes == [nop |-> 1, load |-> 2, far |-> 3, if |-> 3, goto |-> 3, ret |-> 1]

Insn(id, op, targets) == [op |-> op, id |-> id, size |-> Sizes[op], targets |-> targets]

Wide(insn, size) == [insn EXCEPT !.size = size]

Attr(kind, at) == [kind |-> kind, at |-> at]

Handler(start, end, handler) == [id |-> 1, start |-> start, end |-> end, handler |-> handler]

\* A loop with a way out, all kinds of tables and two other attributes among them.
Loop ==
    [insns |-> <<Insn(1, "load", <<>>), Insn(2, "if", <<9>>), Insn(3, "nop", <<>>),
                 Insn(4, "goto", <<0>>), Insn(5, "ret", <<>>)>>,
     handlers |-> <<Handler(0, 5, 9)>>,
     attrs |-> <<Attr("lines", <<0, 5, 9>>), Attr("hints", <<>>), Attr("frames", <<9>>),
                 Attr("locals", <<0, 10>>), Attr("notes", <<>>), Attr("types", <<5, 10>>)>>]

\* Three loads in a row, lines in two tables, an empty table, a handler to the end.
Row ==
    [insns |-> <<Insn(1, "load", <<>>), Insn(2, "load", <<>>), Insn(3, "load", <<>>), Insn(4, "ret", <<>>)>>,
     handlers |-> <<Handler(2, 7, 6)>>,
     attrs |-> <<Attr("lines", <<0>>), Attr("notes", <<>>), Attr("types", <<>>), Attr("lines", <<4>>)>>]

\* Instructions in longer forms than they need, with a frame behind them.
Fat ==
    [insns |-> <<Wide(Insn(1, "load", <<>>), 3), Wide(Insn(2, "goto", <<9>>), 5), Insn(3, "nop", <<>>),
                 Insn(4, "ret", <<>>)>>,
     handlers |-> <<>>,
     attrs |-> <<Attr("frames", <<9>>), Attr("lines", <<0, 9>>)>>]

\* A table that ends between two instructions.
Torn ==
    [insns |-> <<Insn(1, "load", <<>>), Insn(2, "if", <<0>>), Insn(3, "ret", <<>>)>>,
     handlers |-> <<>>,
     attrs |-> <<Attr("locals", <<0, 4>>), Attr("frames", <<5>>)>>]

CodesRead == {Loop, Row, Fat, Torn}

MatchersUsed == {{"load"}, {"label"}, {"load", "goto"}}

PatternsUsed == {<<{"load"}, {"load"}>>, <<{"nop", "label"}, {"load", "label"}>>}

SnippetsUsed == {<<"far", "load">>}

StringsReplaced == [load |-> "far"]
=============================================================================
