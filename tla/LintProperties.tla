--------------------------- MODULE LintProperties ---------------------------
(***************************************************************************)
(* What the lint plugin is to report, stated without its algorithms: the   *)
(* meaning of a type is its expansion, every alias replaced by its body    *)
(* and every parameter by its argument; what is known of a value is what   *)
(* can be reached through constants that never change.                     *)
(***************************************************************************)
EXTENDS Lint

CONSTANT MaxExpansions   \* more nested expansions than the files of a run need

-----------------------------------------------------------------------------
(* Expansion: arguments first, each in the scope it is written in.         *)

(* The name is the key of a mapped type around the use.                    *)
BoundByKey(name, up) ==
  \E i \in DOMAIN up : /\ up[i].node = "TSMappedType"
                       /\ up[i].via = "typeAnnotation"
                       /\ name \in up[i].binds

RECURSIVE Expand(_, _, _, _)
Expand(env, t, arguments, fuel) ==
  LET each(ts) == [i \in DOMAIN ts |-> Expand(env, ts[i], arguments, fuel)]
      alias == visibleTypeAlias(t.name, t.up, env)
      bind(bound, i) ==
        LET p == alias[1].params[i]
        IN IF bound = <<>> THEN <<>>
           ELSE IF i <= Len(t.args)
                THEN <<(p.name :> Expand(env, t.args[i], arguments, fuel)) @@ bound[1]>>
           ELSE IF p.default = <<>> THEN <<>>
           ELSE <<(p.name :> Expand(env, p.default[1], bound[1], fuel)) @@ bound[1]>>
      bound == FoldLeft(bind, <<NoSubstitutions>>, [i \in 1..Len(alias[1].params) |-> i])
      opaque == [t EXCEPT !.args = each(@)]
      reference ==
        IF t.name \in lexicalTypeParameterNames(t.up)
        THEN IF t.name \in DOMAIN arguments /\ ~BoundByKey(t.name, t.up) THEN arguments[t.name] ELSE t
        ELSE IF alias = <<>> \/ fuel = 0 THEN opaque
        ELSE IF bound = <<>> THEN opaque
        ELSE Expand(env, alias[1].body, bound[1], fuel - 1)
  IN CASE t.type = "ref" -> reference
       [] t.type \in {"union", "intersection"} -> [t EXCEPT !.types = each(@)]
       [] t.type \in {"paren", "readonly", "array"} -> [t EXCEPT !.of = Expand(env, @, arguments, fuel)]
       [] t.type = "literal" ->
            [t EXCEPT !.members = [i \in DOMAIN @ |->
                                     [@[i] EXCEPT !.of = Expand(env, @, arguments, fuel)]]]
       [] t.type = "mapped" ->
            [t EXCEPT !.constraint = Expand(env, @, arguments, fuel), !.value = each(@)]
       [] OTHER -> t

Meaning(env, t) == Expand(env.typeAliases, t, NoSubstitutions, MaxExpansions)

(* The references to aliases an expansion goes through, in the type        *)
(* itself, its arguments, and the defaults and bodies of those aliases.    *)
AliasOf(env, t) ==
  IF t.type = "ref" THEN ToSet(visibleTypeAlias(t.name, t.up, env.typeAliases)) ELSE {}

RECURSIVE Applications(_, _, _)
Applications(env, t, fuel) ==
  LET inside(alias) == {alias.body} \cup UNION {ToSet(p.default) : p \in ToSet(alias.params)}
      entered == IF fuel = 0 THEN {} ELSE UNION {inside(alias) : alias \in AliasOf(env, t)}
  IN {[alias |-> alias, reference |-> t] : alias \in AliasOf(env, t)}
     \cup UNION {Applications(env, x, fuel) : x \in ToSet(children(t))}
     \cup UNION {Applications(env, x, fuel - 1) : x \in entered}

AliasesBehind(env, t) == {a.alias : a \in Applications(env, t, MaxExpansions)}

(* An unknown is written as an argument, or is the default used for one.   *)
UnknownIsPassedIn(env, t) ==
  \E a \in Applications(env, t, MaxExpansions) : \E n \in DOMAIN a.alias.params :
    LET argument == IF n <= Len(a.reference.args) THEN <<a.reference.args[n]>>
                    ELSE a.alias.params[n].default
    IN \E x \in ToSet(argument) : containsUnknownType(x)

-----------------------------------------------------------------------------
(* Escape hatches and dictionaries among expanded types.                   *)

RECURSIVE IsAny(_, _)
IsAny(env, type) ==
  LET t == unwrapTransparentType(type)
  IN \/ t.type = "any"
     \/ t.type = "intersection" /\ \E i \in DOMAIN t.types : IsAny(env, t.types[i])
     \/ t.type = "ref" /\ isWrapper(t, env) /\ t.args # <<>> /\ IsAny(env, t.args[1])

RECURSIVE IsEscapeHatch(_, _)
IsEscapeHatch(env, type) ==
  LET t == unwrapTransparentType(type)
  IN \/ IsAny(env, t)
     \/ t.type \in {"unknown", "object"}
     \/ t.type = "literal" /\ isEffectivelyEmptyMembers(t.members)
     \/ t.type = "union" /\ \E i \in DOMAIN t.types : IsEscapeHatch(env, t.types[i])
     \/ t.type = "intersection" /\ \A i \in DOMAIN t.types : IsEscapeHatch(env, t.types[i])
     \/ t.type = "ref" /\ isWrapper(t, env) /\ t.args # <<>> /\ IsEscapeHatch(env, t.args[1])
     \/ /\ t.type = "ref" /\ ~isWrapper(t, env)
        /\ t.name \in DOMAIN env.interfaces
        /\ isEffectivelyEmptyInterface(env.interfaces[t.name])

RECURSIVE ValueTypes(_, _)
ValueTypes(env, type) ==
  LET t == unwrapTransparentType(type)
  IN CASE t.type = "literal" ->
            {t.members[i].of : i \in {j \in DOMAIN t.members : t.members[j].sig = "index"}}
       [] t.type = "mapped" -> ToSet(t.value)
       [] t.type = "ref" ->
            IF ~isBuiltIn(t.name, t.up, env) \/ t.args = <<>> THEN {}
            ELSE IF t.name = "Record" THEN ToSet(Tail(t.args)) ELSE ValueTypes(env, t.args[1])
       [] OTHER -> {}

IsUnsafeDictionary(env, t) == \E v \in ValueTypes(env, Meaning(env, t)) : IsEscapeHatch(env, v)

-----------------------------------------------------------------------------
(* What the file says of a value.                                          *)

(* What the types say of an expression: its assertion, the return type of  *)
(* the function it calls, its own syntax, or a variable of K.              *)
RECURSIVE Informative(_, _, _, _)
Informative(f, env, e, K) ==
  LET says(t) == ~IsEscapeHatch(env, Meaning(env, t))
      owner == localFunctionForCall(f, e.callee)
  IN CASE e.expr \in {"paren", "nonnull", "satisfies"} -> Informative(f, env, e.of, K)
       [] e.expr = "as" -> says(e.to)
       [] e.expr = "call" -> \E o \in ToSet(owner) : \E t \in ToSet(o.returnType) : says(t)
       [] e.expr = "identifier" -> e.var \in K
       [] OTHER -> e.expr \in EvidenceKinds

(* The variables whose annotation or initializer says something: the least *)
(* fixpoint above K.                                                       *)
RECURSIVE InformativeAbove(_, _, _)
InformativeAbove(f, env, K) ==
  LET annotated(n) == variableTypeAnnotation(f, n, f.vars[n])
      more == {n \in DOMAIN f.vars :
                 IF annotated(n) # <<>> THEN ~IsEscapeHatch(env, Meaning(env, annotated(n)[1]))
                 ELSE \E e \in ToSet(stableInit(f.vars[n])) : Informative(f, env, e, K)}
  IN IF more \subseteq K THEN K ELSE InformativeAbove(f, env, K \cup more)

-----------------------------------------------------------------------------
(* Properties.                                                             *)

Env(i) == Environment(batch[i])
VisitsOn(f, on) == {v \in ToSet(Visits(f)) : v.on = on}
ReportedAt(i, rule, at) == [file |-> i, rule |-> rule, at |-> at] \in reports

(* Where the body of an alias stands in its file.                          *)
BodyOf(f, alias) == <<CHOOSE n \in DOMAIN f.statements : f.statements[n] = alias, 2>>

(* Resolving through closures answers what matching the expanded type      *)
(* answers, for every type written in the file and every matcher.          *)
AliasesAreTransparent ==
  \A i \in Linted : \A v \in VisitsOn(batch[i], "type") :
    \A matcher \in {"unknown", "object", "unknown-return"} :
      resolvedTypeMatches(Env(i).typeAliases, v.node, matcher) =
        resolvedTypeMatches(Env(i).typeAliases, Meaning(Env(i), v.node), matcher)

(* "Disallow object-dictionary contracts whose direct value type is        *)
(* unknown, any, object, {}, or a union/alias containing one of those      *)
(* escape hatches" (no-unsafe-dictionary-type.ts:109), once each.  Every   *)
(* dictionary that is unsafe once expanded is reported, itself or at a     *)
(* dictionary around it; a bare use of an alias may instead be reported in *)
(* the alias's declaration, where the value type is in its body.           *)
(* Constraints are exempt.  What is reported is unsafe once expanded, and  *)
(* nothing inside it is reported again.                                    *)
UnsafeDictionariesAreReported ==
  \A i \in Linted :
    LET isReported(at) == ReportedAt(i, "no-unsafe-dictionary-type", at)
        types == VisitsOn(batch[i], "type")
        leftToDeclaration(v, alias) ==
          /\ isPlainAliasConsumerUse(v, Env(i))
          /\ IsUnsafeDictionary(Env(i), alias.body) =>
               \E w \in types : IsPrefix(BodyOf(batch[i], alias), w.at) /\ isReported(w.at)
    IN /\ \A v \in types :
            IsUnsafeDictionary(Env(i), v.node) /\ "constraint" \notin v.within =>
              \/ \E n \in DOMAIN v.at : isReported(SubSeq(v.at, 1, n))
              \/ \E alias \in AliasOf(Env(i), v.node) : leftToDeclaration(v, alias)
       /\ \A v \in types : isReported(v.at) =>
            /\ IsUnsafeDictionary(Env(i), v.node)
            /\ \A w \in types : IsStrictPrefix(v.at, w.at) => ~isReported(w.at)
       /\ \A v \in VisitsOn(batch[i], "index") :
            isReported(v.at) <=> IsEscapeHatch(Env(i), Meaning(Env(i), v.node))

(* An unknown input is reported: at the parameter where it is written      *)
(* there, and otherwise at the alias that hides it, which                  *)
(* no-unknown-parameters leaves to no-unknown-type-aliases.  Every alias   *)
(* behind an annotation whose own body comes to unknown is reported at its *)
(* declaration, and a parameter that is unknown once expanded is reported, *)
(* has such an alias, or is handed the unknown as a type argument, which   *)
(* neither rule looks at.                                                  *)
UnknownInputsAreReported ==
  \A i \in Linted : \A v \in VisitsOn(batch[i], "parameter") :
    \A annotation \in ToSet(functionParameterTypeAnnotation(v.node)) :
      LET name == functionParameterBindingName(v.node)
          hiding == {alias \in AliasesBehind(Env(i), annotation) :
                       containsUnknownType(Meaning(Env(i), alias.body))}
      IN /\ \A alias \in hiding :
              \E n \in DOMAIN batch[i].statements :
                batch[i].statements[n] = alias /\ ReportedAt(i, "no-unknown-type-aliases", <<n>>)
         /\ (/\ containsUnknownType(Meaning(Env(i), annotation))
             /\ name # "cause"
             /\ ~isTypePredicateSubject(v.owner, name))
            => \/ ReportedAt(i, "no-unknown-parameters", v.at)
               \/ hiding # {}
               \/ UnknownIsPassedIn(Env(i), annotation)

(* A call of a type predicate with an unknown subject is reported exactly  *)
(* when the types in the file already tell what the argument is.           *)
KnownSubjectsAreReported ==
  \A i \in Linted \ crashed : \A v \in VisitsOn(batch[i], "call") :
    LET owner == localFunctionForCall(batch[i], v.node.callee)
        subject(o) == {n \in DOMAIN o.params :
                         /\ isTypePredicateSubject(o, functionParameterBindingName(o.params[n]))
                         /\ \E t \in ToSet(functionParameterTypeAnnotation(o.params[n])) :
                              containsUnknownType(t)}
        known(e) == e.expr # "spread"
                    /\ Informative(batch[i], Env(i), e, InformativeAbove(batch[i], Env(i), {}))
    IN ReportedAt(i, "no-known-value-widening", v.at) <=>
         \E o \in ToSet(owner) : \E n \in subject(o) \cap DOMAIN v.node.args : known(v.node.args[n])

(* A binding that no-widen-then-assert says lost literal evidence was      *)
(* reported by no-known-value-widening where it lost it, at the            *)
(* declaration or at the broad assertion in its initializer.  `any' is no  *)
(* widening target, and an empty object may start a dictionary.            *)
RecreatedWasReportedLost ==
  \A i \in Linted : \A v \in VisitsOn(batch[i], "assertion") :
    LET name == unwrapExpressionParentheses(v.node.of).var
        x == batch[i].vars[name]
        init == unwrapExpressionParentheses(x.init[1])
        broad == (IF x.annotation = <<>> THEN {} ELSE {x.annotation[1]})
                 \cup (IF init.expr = "as" THEN {init.to} ELSE {})
        erasing == {t \in broad : broadTypeKind(t) # "null"}
    IN ReportedAt(i, "no-widen-then-assert", v.at) =>
         \/ widenedBinding(batch[i].vars, name)[1].evidence.type # <<>>
         \/ \E t \in erasing : isUnknownOrAnyType(t) /\ unwrapTypeParentheses(t).type = "any"
         \/ /\ \A t \in erasing : broadTypeKind(t) = "record"
            /\ isEmptyObjectExpression(x.init[1])
         \/ \E r \in reports : /\ r.file = i
                               /\ r.rule = "no-known-value-widening"
                               /\ r.at[1] = x.declaredAt

(* No assertion that widens a known value slips between the rules: it is   *)
(* reported itself, or it is part of a chain that is.                      *)
NoGapBetweenAssertionRules ==
  \A i \in Linted \ crashed : \A v \in VisitsOn(batch[i], "assertion") :
    reportFlow(batch[i], v.node.of, classifyWideningTarget(v.node.to, Env(i))) = "report" =>
      \/ ReportedAt(i, "no-known-value-widening", v.at)
      \/ \E n \in 1..(Len(v.at) - 1) :
           ReportedAt(i, "no-chained-type-assertions", SubSeq(v.at, 1, n))

=============================================================================
