----------------------------- MODULE MCFrameSim -----------------------------
(* Methods of four shapes, filled with short pieces of code: two branches    *)
(* that meet, a loop, a try with its handler, and a subroutine called twice. *)
(* Classes A and B extend C, T (the class of the method) extends S, X is     *)
(* unknown, and in another hierarchy A and B extend each other.              *)
EXTENDS FrameSim

CONSTANTS A, B, C, S, T, X

Tree == (A :> C) @@ (B :> C) @@ (C :> Object) @@ (T :> S) @@ (S :> Object)
Cycle == (A :> B) @@ (B :> A) @@ (C :> NoClass)

AllResolvers == {{}, {Tree}, {Cycle}}

Num(k) == <<Plain(<<>>, <<Integer>>), Store(k, Integer)>>
Wide(k) == <<Plain(<<>>, <<Long>>), Store(k, Long)>>
Ref(k, c) == <<Plain(<<>>, <<ObjectOf(c)>>), StoreTop(k)>>
Nil(k) == <<Plain(<<>>, <<Null>>), StoreTop(k)>>
Fresh(k, c) == <<New(c), Shuffle(1, <<1, 1>>), Construct(c), StoreTop(k)>>
Bare(k, c) == <<New(c), StoreTop(k)>>
Use(k) == <<Load(k), Plain(<<ObjectOf(Object)>>, <<>>)>>
Count(k) == <<IInc(k)>>
Swap == <<Plain(<<>>, <<Integer>>), Plain(<<>>, <<Null>>), Shuffle(2, <<2, 1>>),
          Plain(<<Integer>>, <<>>), Plain(<<ObjectOf(A)>>, <<>>)>>
Deep == <<Plain(<<>>, <<Integer>>)>>

Pieces ==
    {<<>>, Num(0), Num(1), Wide(0), Wide(1), Ref(0, A), Ref(0, B), Ref(0, C), Ref(0, X), Ref(0, "[I"),
     Nil(0), Fresh(0, A), Bare(0, A), Swap, Deep}
Uses == {<<>>, Use(0), Count(1)}

If(target) == <<Plain(<<>>, <<Integer>>), Jump(<<Integer>>, <<target>>, TRUE)>>
Goto(target) == <<Jump(<<>>, <<target>>, FALSE)>>
Return == <<End(<<>>)>>

Method(this, params, items, handlers) ==
    [this |-> this, params |-> params, items |-> items, handlers |-> handlers]

Diamond(x, y, z) ==
    LET else == Len(x) + 4
        meet == else + Len(y)
    IN  If(else) \o x \o Goto(meet) \o y \o z \o Return

Loop(x, y) == x \o y \o If(Len(x) + 1) \o Return

Try(x, y) == x \o Return \o <<StoreTop(2)>> \o y \o Return
Handlers(x) == <<[start |-> 1, end |-> Len(x) + 1, handler |-> Len(x) + 2, catch |-> Throwable]>>

Subroutine(x, y) ==
    LET sub == Len(x) + 4
    IN  <<Jsr(sub)>> \o x \o <<Jsr(sub)>> \o Return \o <<StoreTop(2)>> \o y \o <<Ret(2)>>

Self == <<ObjectOf(T)>>

Plains ==
    {Method(<<>>, <<Integer>>, Diamond(x, y, z), <<>>) : x \in Pieces, y \in Pieces, z \in Uses}
    \cup {Method(Self, <<Long>>, Loop(x, y), <<>>) : x \in Pieces, y \in Pieces}
    \cup {Method(<<>>, <<Integer>>, Try(x \o y, z), Handlers(x \o y)) : x \in Pieces, y \in Pieces, z \in {Use(0), Count(0)}}
    \cup {Method(<<>>, <<ObjectOf(A)>>, Subroutine(x, y), <<>>) : x \in Pieces, y \in Pieces}

Constructors ==
    {Method(<<UninitializedThis>>, <<>>, Diamond(<<Load(0), Construct(c)>> \o x, <<Load(0), Construct(c)>> \o y, Use(0)), <<>>) :
        c \in {S, T}, x \in Pieces, y \in Pieces}

Bad == {Method(<<>>, <<>>, <<>>, <<>>), Method(<<>>, <<>>, Goto(2), <<>>)}

AllCodes == Plains \cup Constructors \cup Bad

Longs == {Method(<<>>, <<Long, Integer>>, Diamond(x, y, <<>>), <<>>) :
            x \in {<<>>, Count(2)}, y \in {<<>>, Num(2)}}
=============================================================================
