------------------------------- MODULE MCLint -------------------------------
(***************************************************************************)
(* Families of small files for the lint plugin's rules.                    *)
(***************************************************************************)
EXTENDS LintProperties

Str == Keyword("string")
Unknown == Keyword("unknown")
Null == Keyword("null")
Name(n) == Ref(n, <<>>)
Record(v) == Ref("Record", <<Str, v>>)
Dict(v) == Literal(<<Index(Str, v)>>)

-----------------------------------------------------------------------------
(* Statements.                                                             *)

NoVars == [v \in {} |-> {}]

Param(name) == [name |-> name, default |-> <<>>, constraint |-> <<>>]
Defaulted(name, t) == [name |-> name, default |-> <<t>>, constraint |-> <<>>]
Constrained(name, t) == [name |-> name, default |-> <<>>, constraint |-> <<t>>]

AliasIn(up, name, params, body) ==
  LET binds == {params[i].name : i \in DOMAIN params}
      inside == <<Ancestor("TSTypeAliasDeclaration", name, binds, "body")>> \o up
      place(ts) == [i \in DOMAIN ts |-> Locate(ts[i], inside)]
  IN [stmt |-> "alias", name |-> name, up |-> up,
      params |-> [i \in DOMAIN params |-> [params[i] EXCEPT !.default = place(@), !.constraint = place(@)]],
      body |-> Locate(body, inside)]

Alias(name, params, body) == AliasIn(<<Program>>, name, params, body)

Interface(name, extends, members) ==
  [stmt |-> "interface", name |-> name, up |-> <<Program>>, extends |-> extends,
   members |-> [i \in DOMAIN members |-> [members[i] EXCEPT !.of = Locate(@, <<Program>>)]]]

Class(up, name) == [stmt |-> "class", name |-> name, up |-> up]

(* A class field of this type with no initializer: a place for a type.     *)
Field(up, t) ==
  [stmt |-> "property", annotation |-> <<Locate(t, up)>>, value |-> <<>>, boundary |-> ""]

TypeFile(statements) == [statements |-> statements, vars |-> NoVars, functions |-> NoVars]

-----------------------------------------------------------------------------
(* Files about types: two generic aliases, the second built on the first,  *)
(* and one use of them.                                                    *)

FirstBodies(T) ==
  {T, Record(T), Dict(T), Union(<<T, Null>>), Ref("Readonly", <<T>>),
   Mapped("K", Str, <<T>>), Intersection(<<T, Keyword("any")>>), Paren(T)}

SecondBodies(A(_), U) ==
  {A(U), Record(A(U)), A(Union(<<U, Null>>)), Union(<<A(Str), U>>),
   Ref("Partial", <<A(U)>>), Ref("Promise", <<A(U)>>), Dict(Paren(U)), Mapped("K", U, <<A(Name("K"))>>)}

Uses(A(_), B(_)) ==
  {B(Unknown), B(Str), Record(A(Unknown)), Ref("Pick", <<B(Keyword("object")), Str>>),
   A(Record(Keyword("any"))), Dict(B(Literal(<<>>))), Record(Union(<<Null, B(Unknown)>>)),
   A(Literal(<<Property(TRUE, Keyword("never"))>>)), Record(Name("E")),
   A(B(Unknown)), Record(B(B(Unknown)))}

(* The first alias has one parameter, or a second that defaults to the     *)
(* first and takes its place in the body.                                  *)
GenericFiles(params, u) ==
  LET A(x) == Ref("A", <<x>>)
      B(x) == Ref("B", <<x>>)
  IN {TypeFile(<<Alias("A", params, a), Alias("B", <<Param(u)>>, b),
                 Interface("E", FALSE, <<>>), Field(<<Program>>, c)>>) :
        a \in FirstBodies(Name(Last(params).name)), b \in SecondBodies(A, Name(u)), c \in Uses(A, B)}

(* The arguments of every reference share no alias with what it names, so  *)
(* no alias is entered again while it is being resolved.                   *)
ArgumentsApart(f) ==
  LET env == Environment(f)
      behind(ts) == UNION {AliasesBehind(env, t) : t \in ts}
      apart(t) == t.type = "ref" =>
        behind({[t EXCEPT !.args = <<>>]}) \cap behind(ToSet(t.args)) = {}
  IN \A v \in VisitsOn(f, "type") : apart(v.node)

(* The dictionary rule resolves to the end: no substitution is cyclic.     *)
LintsToTheEnd(f) == Handled(f) = DOMAIN Visits(f)

-----------------------------------------------------------------------------
(* Files about parameter names: the second alias names its parameters like *)
(* the first and passes them on, swapped, wrapped or in part; a default    *)
(* refers to an earlier parameter.  No dictionaries occur: their flat map  *)
(* would take one parameter for another.                                   *)

PromiseOf(t) == Ref("Promise", <<t>>)

SharedNameFiles ==
  LET S == Name("S")
      T == Name("T")
      A(ts) == Ref("A", ts)
      B(ts) == Ref("B", ts)
  IN {TypeFile(<<Alias("A", params, a), Alias("B", <<Param("T"), Param("S")>>, b), Field(<<Program>>, u)>>) :
        params \in {<<Param("S"), Param("T")>>, <<Param("S"), Defaulted("T", S)>>,
                    <<Defaulted("S", Unknown), Defaulted("T", Union(<<PromiseOf(S), Null>>))>>},
        a \in {T, Union(<<T, Null>>), PromiseOf(Paren(T)), Union(<<PromiseOf(T), S>>)},
        b \in {A(<<S, T>>), A(<<T, S>>), A(<<Union(<<T, Null>>), S>>), A(<<S>>), PromiseOf(A(<<PromiseOf(T)>>))},
        u \in {B(<<Unknown, Str>>), B(<<Str, Unknown>>), B(<<Keyword("object"), Str>>), A(<<Unknown>>),
               A(<<Unknown, Str>>), Name("A"), PromiseOf(B(<<Str, Unknown>>))}}

-----------------------------------------------------------------------------
(* Files about scopes: a name declared twice, and uses on both sides.      *)

Inner == <<Block("inner"), Program>>

ShadowFiles ==
  {TypeFile(<<Alias("A", <<Defaulted("T", d)>>, Record(Name("T"))), other,
              Field(up, u), Alias("C", <<Constrained("V", Record(Unknown))>>, Ref("A", <<Name("V")>>))>>) :
     d \in {Str, Unknown},
     other \in {AliasIn(Inner, "A", <<>>, Record(Unknown)), AliasIn(Inner, "A", <<Param("S")>>, Name("S")),
                Alias("A", <<>>, Unknown), Class(Inner, "A"), Class(<<Program>>, "A"),
                AliasIn(Inner, "Record", <<Param("P"), Param("Q")>>, Name("P")),
                Interface("A", FALSE, <<Index(Str, Union(<<Unknown, Str>>))>>),
                Interface("E", FALSE, <<Index(Str, Name("E"))>>), Interface("B", TRUE, <<>>)},
     up \in {<<Program>>, Inner, <<Block("other"), Program>>},
     u \in {Name("A"), Ref("A", <<Unknown>>), Ref("Record", <<Unknown, Str>>), Record(Name("A")),
            Ref("Readonly", <<Name("A")>>), Record(Name("B"))}}

(* An alias that names itself, with and without a parameter.               *)
RecursiveFiles ==
  {TypeFile(<<Alias("A", <<>>, a), Alias("B", <<Param("T")>>, b), Field(<<Program>>, u)>>) :
     a \in {Record(Name("A")), Union(<<Name("A"), Unknown>>), Union(<<Str, Name("A")>>)},
     b \in {Union(<<Name("T"), Ref("B", <<Name("T")>>)>>), Dict(Ref("B", <<Name("T")>>))},
     u \in {Record(Name("A")), Ref("B", <<Unknown>>), Record(Ref("B", <<Unknown>>)), Record(Ref("B", <<Str>>))}}

(* Bare uses of an alias, whose reports are left to the declaration: in a  *)
(* field, in a second alias, and where only a default is unsafe.  No       *)
(* parentheses stand around a dictionary: they are taken for one around it *)
(* although no handler sees them, and the report is lost.                  *)
BareFiles ==
  {TypeFile(<<Alias("A", params, a), Alias("B", <<>>, b), Field(<<Program>>, u)>>) :
     params \in {<<>>, <<Defaulted("T", Unknown)>>},
     a \in {Record(Unknown), Record(Name("T")), Ref("Pick", <<Dict(Keyword("object")), Str>>)},
     b \in {Name("A"), Ref("Readonly", <<Name("A")>>), Record(Name("A"))},
     u \in {Name("A"), Name("B"), Union(<<Name("B"), Null>>), Ref("Partial", <<Name("B")>>)}}

-----------------------------------------------------------------------------
(* Files about values: `a' and `b' are declared, `b' is asserted.          *)

Variable(kind, annotation, init, written, boundary, at) ==
  [definition |-> "Variable", kind |-> kind, annotation |-> annotation, init |-> init,
   written |-> written, boundary |-> boundary, declaredAt |-> at, fn |-> ""]

Parameter(fn, annotation) ==
  [definition |-> "Parameter", kind |-> "let", annotation |-> annotation, init |-> <<>>,
   written |-> FALSE, boundary |-> fn, declaredAt |-> 0, fn |-> fn]

FunctionName(fn) == [Parameter(fn, <<>>) EXCEPT !.definition = "FunctionName", !.boundary = ""]

Declare(v, boundary) == [stmt |-> "variable", var |-> v, boundary |-> boundary]
Statement(kind, e, boundary) == [stmt |-> kind, value |-> <<e>>, boundary |-> boundary]

Here(t) == Locate(t, <<Program>>)
Named == Here(Name("Owner"))
Broad == Here(Record(Unknown))
Shape == Literal(<<Property(FALSE, Str)>>)

FirstVariables(boundary) ==
  {Variable("const", <<>>, <<e>>, FALSE, boundary, 1) :
     e \in {Expr("literal"), Expr("empty object"), Expr("unary"), Expr("other"), Ident("b")}}
  \cup {Variable("const", <<Named>>, <<Expr("other")>>, FALSE, boundary, 1),
        Variable("const", <<>>, <<Expr("literal")>>, TRUE, boundary, 1),
        Variable("let", <<>>, <<Expr("literal")>>, FALSE, boundary, 1)}

SecondVariables(boundary) ==
  {Variable("const", t, <<e>>, FALSE, boundary, 2) :
     t \in {<<>>, <<Unknown>>, <<Keyword("any")>>, <<Keyword("object")>>, <<Broad>>, <<Named>>},
     e \in {Ident("a"), Wrapped("paren", Expr("literal")), As(Expr("empty object"), Broad),
            As(Ident("a"), Unknown), Wrapped("paren", As(As(Expr("literal"), Unknown), Named)),
            Wrapped("satisfies", Ident("a"))}}
  \cup {Variable("let", <<Unknown>>, <<Expr("literal")>>, FALSE, boundary, 2)}

Assertions ==
  {As(Ident("b"), Named), As(Wrapped("paren", Ident("b")), Here(Record(Str))),
   As(As(Ident("b"), Unknown), Shape), As(Wrapped("nonnull", Ident("b")), Here(Name("const")))}

(* Where `a' and `b' are declared and where the assertion stands: in the   *)
(* program or in the function `f'.                                         *)
Boundaries == {<<"", "", "">>, <<"", "", "f">>, <<"", "f", "f">>, <<"f", "f", "f">>}

PlainFunction == [params |-> <<>>, returnType |-> <<Unknown>>, body |-> <<>>]

ValueFilesIn(where) ==
  {[statements |-> <<Declare("a", where[1]), Declare("b", where[2]), Statement("expression", e, where[3]),
                     [stmt |-> "function", fn |-> "f", boundary |-> ""]>>,
    vars |-> [a |-> a, b |-> b],
    functions |-> [f |-> PlainFunction]] :
     a \in {v \in FirstVariables(where[1]) : where[1] # where[2] => v.init # <<Ident("b")>>},
     b \in SecondVariables(where[2]), e \in Assertions}

ValueFiles == UNION {ValueFilesIn(where) : where \in Boundaries}

-----------------------------------------------------------------------------
(* Files about functions: a predicate `p', a function `g', a call of `p'.  *)

Formal(name, annotation) == [name |-> name, annotation |-> annotation, wraps |-> <<>>]
Wrapping(annotation, p) == [name |-> "", annotation |-> annotation, wraps |-> <<p>>]
Predicate(x) == [type |-> "predicate", subject |-> x]

Subjects ==
  {Formal("x", <<Unknown>>), Formal("cause", <<Unknown>>), Formal("y", <<Here(Name("N"))>>),
   Wrapping(<<>>, Formal("x", <<Union(<<Str, Unknown>>)>>)), Formal("x", <<Keyword("object")>>),
   Wrapping(<<Here(Name("M"))>>, Formal("x", <<>>))}

Arguments(s) ==
  {Expr("literal"), Wrapped("spread", Ident("a")), Ident("a"), Ident("nowhere"),
   Ident(functionParameterBindingName(s)), As(Ident("a"), Here(Name("N"))), As(Expr("other"), Named),
   Wrapped("paren", Wrapped("satisfies", Ident("a"))), Call(Ident("g"), <<>>)}

(* The annotation on the parameter's own identifier.                       *)
OwnAnnotation(s) == IF s.wraps = <<>> THEN s.annotation ELSE s.wraps[1].annotation

FunctionFilesWith(hidden, s) ==
  {[statements |-> <<Alias("N", <<>>, hidden), Alias("M", <<>>, Name("N")),
                     [stmt |-> "function", fn |-> "p", boundary |-> ""],
                     Declare("g", ""), Declare("a", ""), Declare("l", ""),
                     Statement("expression", Call(Ident("p"), <<e>>), "p"),
                     Statement("return", Expr("literal"), "p"),
                     [stmt |-> "assign", var |-> "l", value |-> <<Ident("a")>>, boundary |-> ""]>>,
    vars |-> [a |-> Variable("const", t, <<Expr("literal")>>, FALSE, "", 5),
              g |-> Variable("const", <<>>, <<Function("g")>>, FALSE, "", 4),
              l |-> Variable("let", t, <<>>, TRUE, "", 6),
              p |-> FunctionName("p")]
             @@ (functionParameterBindingName(s) :> Parameter("p", OwnAnnotation(s))),
    functions |-> [p |-> [params |-> <<s>>, returnType |-> <<r>>, body |-> <<>>],
                   g |-> [params |-> <<Formal("z", <<Keyword("object")>>)>>,
                          returnType |-> <<Here(Name("M"))>>, body |-> <<Expr("literal")>>]]] :
     e \in Arguments(s), r \in {Predicate("x"), Unknown},
     t \in {<<>>, <<Unknown>>, <<Named>>, <<Here(Name("M"))>>}}

(* Files about parameters: `p' takes one, annotated through two generic    *)
(* aliases and one that may hide an unknown.                               *)
ParameterFiles ==
  LET T == Name("T")
      G(ts) == Ref("G", ts)
      H(t) == Ref("H", <<t>>)
  IN {[statements |-> <<Alias("N", <<>>, hidden), Alias("G", <<Param("T"), Defaulted("S", default)>>, g),
                        Alias("H", <<Param("T")>>, h), [stmt |-> "function", fn |-> "p", boundary |-> ""]>>,
       vars |-> [p |-> FunctionName("p"), x |-> Parameter("p", <<Here(t)>>)],
       functions |-> [p |-> [params |-> <<Formal("x", <<Here(t)>>)>>, returnType |-> <<Str>>, body |-> <<>>]]] :
        hidden \in {Unknown, Str}, default \in {Str, Unknown, Union(<<T, Null>>)},
        g \in {T, Union(<<Name("S"), Null>>), Union(<<T, Name("N")>>), PromiseOf(T)},
        h \in {G(<<T>>), G(<<Union(<<T, Null>>)>>), Union(<<Str, G(<<Str>>)>>), G(<<T, Unknown>>)},
        t \in {G(<<Unknown>>), G(<<Str>>), G(<<Name("N")>>), H(Unknown), H(Str), H(Name("N")),
               Union(<<Null, Paren(H(Str))>>), Union(<<H(Str), Unknown>>)}}

FunctionFiles ==
  UNION {FunctionFilesWith(hidden, s) : hidden \in {Unknown, Union(<<Str, Unknown>>), Str}, s \in Subjects}

-----------------------------------------------------------------------------
(* A generic alias that passes its own parameter on inside a union: the    *)
(* flat substitution becomes cyclic and the handler overflows.             *)
CyclicFile(statement) ==
  TypeFile(<<Alias("A", <<Param("T")>>, Record(Name("T"))),
             Alias("B", <<Param("T")>>, Ref("A", <<Union(<<Name("T"), Null>>)>>)), statement>>)

SomeFiles ==
  {CyclicFile(Class(<<Program>>, "X")),
   TypeFile(<<Alias("A", <<>>, Record(Unknown)), Field(<<Program>>, Record(Name("A")))>>),
   TypeFile(<<Alias("A", <<>>, Str), Field(<<Program>>, Record(Name("A")))>>),
   TypeFile(<<Field(<<Program>>, Record(Name("A")))>>),
   [statements |-> <<Declare("b", ""), Statement("expression", As(Ident("b"), Named), "")>>,
    vars |-> [b |-> Variable("const", <<Unknown>>, <<Expr("literal")>>, FALSE, "", 1)],
    functions |-> NoVars]}

-----------------------------------------------------------------------------
(* Runs.                                                                   *)

(* The dictionary rules overflow on some files that use one parameter name *)
(* twice; SharedNameBatches is one of them.                                *)
TypeFiles ==
  LET defaulted == <<Param("T"), Defaulted("D", Name("T"))>>
  IN {f \in GenericFiles(defaulted, "U") \cup ShadowFiles \cup RecursiveFiles \cup BareFiles
             \cup SharedNameFiles : ArgumentsApart(f)}
     \cup {f \in GenericFiles(<<Param("T")>>, "T") : ArgumentsApart(f) /\ LintsToTheEnd(f)}

SingleFiles == TypeFiles \cup ValueFiles \cup FunctionFiles \cup {f \in ParameterFiles : ArgumentsApart(f)}

LintBatches == {<<f>> : f \in SingleFiles} \cup {<<f, g>> : f \in SomeFiles, g \in SomeFiles}

(* The second alias declares its parameter under the first one's name.     *)
SharedNameBatches == {<<CyclicFile(Field(<<Program>>, Ref("B", <<Unknown>>)))>>}
=============================================================================
