-------------------------- MODULE MCFormulaPipeline --------------------------
(* Small operations for FormulaPipeline.  Programs: every one of up to three *)
(* instructions before the end, and longer ones with one instruction        *)
(* replaced, dropped or doubled.                                            *)
EXTENDS FormulaPipeline, FiniteSets

I(op, operand) == [op |-> op, operand |-> operand]
End == I("end", 0)

(* One instruction of each kind, and operands no program may have.          *)
Good == {I("argument", 0), I("constant", 0), I("result", 0), I("div", 0),
         I("lt", 0), I("and", 0), I("not", 0), I("select", 0),
         I("sqrt", 0), I("round", 257), I("neg", 0)}
Bad  == {I("argument", 1), I("result", 1), I("constant", -1), I("powi", 33),
         I("round", 1299), I("sqrt", 1), I("unknown", 0), End}
Some == Good \cup Bad

Replace(s, n, i) == [s EXCEPT ![n] = i]
Drop(s, n)   == SubSeq(s, 1, n - 1) \o SubSeq(s, n + 1, Len(s))
Double(s, n) == SubSeq(s, 1, n) \o SubSeq(s, n, Len(s))
Variants(s) ==
  {s} \cup {Replace(s, n, i) : n \in 1..Len(s), i \in Some}
      \cup {Drop(s, n) : n \in 1..Len(s)} \cup {Double(s, n) : n \in 1..Len(s)}

Short == {<<>>, <<End>>} \cup {<<a, End>> : a \in Some}
         \cup {<<a, b, End>> : a \in Good, b \in Some}
         \cup {<<a, b, c, End>> : a \in Good, b \in Good, c \in Some}

Arg   == I("argument", 0)
Const == I("constant", 0)
Res   == I("result", 0)

(* sqrt(a) < c ? a / c : round(a); and as deep as the stack goes.           *)
Choice == <<Arg, I("sqrt", 0), Const, I("lt", 0), Arg, Const, I("select", 0), End>>
Deep   == <<Arg, Const, Arg, I("div", 0), I("div", 0), I("powi", -32), End>>
Exact  == <<Arg, Const, I("div", 0), End>>
Rooted == <<Arg, I("sqrt", 0), End>>
Below  == <<Res, Const, I("lt", 0), End>>
Inside == <<Res, Const, I("lt", 0), Const, Res, I("lt", 0), I("and", 0), End>>

Class(i, p, s) == [id |-> i, priority |-> p, program |-> s]
Op(s, depth, req, cs) ==
  [program |-> s, inputs |-> 1, constants |-> 1, maxStack |-> depth,
   required |-> req, classes |-> cs]

SmallOperations ==
  {Op(s, 3, "optional", <<>>) : s \in Short}
  \cup {Op(s, d, "optional", <<>>) : s \in Variants(Choice) \cup Variants(Deep), d \in {2, 3}}
  \cup {Op(Exact, d, r, <<>>) : d \in {0, 1, 2, 4}, r \in {"required", "optional"}}
  \cup {Op(Exact, 2, "required", <<Class(1, 0, s)>>) : s \in Short \cup Variants(Inside)}
  \cup {Op(f, 2, r, <<Class(1, 0, Below), Class(i, p, Inside)>>) :
          f \in {Exact, Rooted, <<Arg, I("round", 257), End>>},
          r \in {"required", "optional"}, i \in {0, 1, 2}, p \in {0, 1}}
  \cup {Op(Exact, 2, "required", <<Class(1, 1, Below), Class(2, 0, Below)>>),
        Op(Exact, 2, "required", <<Class(1, 0, Below), Class(2, 0, Below), Class(3, 0, Below)>>)}

=============================================================================
