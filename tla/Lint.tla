-------------------------------- MODULE Lint --------------------------------
(***************************************************************************)
(* The rules of the lint plugin: the nodes of a file that have a handler,  *)
(* and what every rule makes of one.  LintRun calls them on a batch.       *)
(***************************************************************************)
EXTENDS ValueEvidence, LintRun

-----------------------------------------------------------------------------
(* The nodes of a file with a handler, in source order.  A node is known   *)
(* by its path; `ancestors' are the type nodes around it, `parents' the    *)
(* expressions, innermost first.                                           *)

children(t) ==
  CASE t.type = "ref" -> t.args
    [] t.type \in {"union", "intersection"} -> t.types
    [] t.type \in {"paren", "readonly", "array"} -> <<t.of>>
    [] t.type = "literal" -> [i \in DOMAIN t.members |-> t.members[i].of]
    [] t.type = "mapped" -> <<t.constraint>> \o t.value
    [] OTHER -> <<>>

RECURSIVE typeVisits(_, _, _, _)
typeVisits(t, path, ancestors, within) ==
  LET below == children(t)
      own == [on |-> "type", node |-> t, at |-> path, ancestors |-> ancestors, within |-> within]
  IN (IF t.type \in {"ref", "literal", "mapped"} THEN <<own>> ELSE <<>>)
     \o FlattenSeq([i \in DOMAIN below |->
                      typeVisits(below[i], Append(path, i), <<t>> \o ancestors, within)])

optionalTypeVisits(t, path, within) ==
  IF t = <<>> THEN <<>> ELSE typeVisits(t[1], path, <<>>, within)

(* The type parameters of an alias: constraints are a context of their own.*)
parameterVisits(params, path) ==
  FlattenSeq([i \in DOMAIN params |->
    optionalTypeVisits(params[i].constraint, path \o <<i, 1>>, {"alias", "constraint"})
    \o optionalTypeVisits(params[i].default, path \o <<i, 2>>, {"alias"})])

(* An index signature in an interface; one in a type literal belongs to    *)
(* the literal.                                                            *)
memberVisits(members, path) ==
  FlattenSeq([i \in DOMAIN members |->
    (IF members[i].sig # "index" THEN <<>>
     ELSE <<[on |-> "index", node |-> members[i].of, at |-> Append(path, i)]>>)
    \o typeVisits(members[i].of, path \o <<i, 1>>, <<>>, {})])

RECURSIVE exprVisits(_, _, _, _, _)
exprVisits(f, e, path, parents, boundary) ==
  LET sub(x, i) == exprVisits(f, x, Append(path, i), <<e>> \o parents, boundary)
      own(on) == <<[on |-> on, node |-> e, at |-> path, parents |-> parents, boundary |-> boundary]>>
      fn == f.functions[e.fn]
  IN CASE e.expr = "as" -> own("assertion") \o sub(e.of, 1) \o typeVisits(e.to, Append(path, 2), <<>>, {})
       [] e.expr = "call" ->
            own("call") \o sub(e.callee, 1)
            \o FlattenSeq([i \in DOMAIN e.args |-> sub(e.args[i], i + 1)])
       [] e.expr \in {"paren", "satisfies", "nonnull", "spread"} -> sub(e.of, 1)
       [] e.expr = "function" ->
            <<[on |-> "function", node |-> fn, at |-> path]>>
            \o FlattenSeq([i \in DOMAIN fn.params |->
                 <<[on |-> "parameter", node |-> fn.params[i], owner |-> fn, at |-> path \o <<1, i>>]>>
                 \o optionalTypeVisits(functionParameterTypeAnnotation(fn.params[i]), path \o <<1, i, 1>>, {})])
            \o optionalTypeVisits(fn.returnType, path \o <<2>>, {})
            \o (IF fn.body = <<>> THEN <<>>
                ELSE exprVisits(f, fn.body[1], path \o <<3>>, <<e>> \o parents, e.fn))
       [] OTHER -> <<>>

optionalExprVisits(f, e, path, boundary) ==
  IF e = <<>> THEN <<>> ELSE exprVisits(f, e[1], path, <<>>, boundary)

statementVisits(f, n) ==
  LET s == f.statements[n]
      v == f.vars[s.var]
      own == <<[on |-> s.stmt, node |-> s, at |-> <<n>>]>>
  IN CASE s.stmt = "alias" ->
            own \o parameterVisits(s.params, <<n, 1>>) \o typeVisits(s.body, <<n, 2>>, <<>>, {"alias"})
       [] s.stmt = "interface" -> memberVisits(s.members, <<n>>)
       [] s.stmt = "variable" ->
            own \o optionalTypeVisits(v.annotation, <<n, 1>>, {})
            \o optionalExprVisits(f, v.init, <<n, 2>>, s.boundary)
       [] s.stmt = "property" ->
            own \o optionalTypeVisits(s.annotation, <<n, 1>>, {})
            \o optionalExprVisits(f, s.value, <<n, 2>>, s.boundary)
       [] s.stmt \in {"assign", "return"} -> own \o optionalExprVisits(f, s.value, <<n, 2>>, s.boundary)
       [] s.stmt = "expression" -> optionalExprVisits(f, s.value, <<n, 2>>, s.boundary)
       [] s.stmt = "function" -> exprVisits(f, Function(s.fn), <<n, 2>>, <<>>, s.boundary)
       [] OTHER -> <<>>

FileVisits(f) == FlattenSeq([n \in DOMAIN f.statements |-> statementVisits(f, n)])

-----------------------------------------------------------------------------
(* no-unsafe-dictionary-type.                                              *)

(* A bare use of an alias outside alias declarations is left to the        *)
(* declaration.                                                            *)
isPlainAliasConsumerUse(v, env) ==
  /\ v.node.type = "ref"
  /\ v.node.args = <<>>
  /\ visibleTypeAlias(v.node.name, v.node.up, env.typeAliases) # <<>>
  /\ "alias" \notin v.within

(* Reported once, at the outermost unsafe dictionary of a path.            *)
reportIfUnsafe(v, env) ==
  LET path == <<v.node>> \o v.ancestors
      outcome(unsafe) ==      \* of the node, then of its ancestors up to the first that is unsafe
        CASE unsafe[1] = "null" -> "none"
          [] unsafe[1] = "overflow" -> "overflow"
          [] OTHER -> CASE First(Tail(unsafe)) = "null" -> "report"
                        [] First(Tail(unsafe)) = "overflow" -> "overflow"
                        [] OTHER -> "none"
  IN IF "constraint" \in v.within \/ isPlainAliasConsumerUse(v, env) THEN "none"
     ELSE outcome([i \in DOMAIN path |-> classifyUnsafeDictionary(path[i], env)])

reportIndexSignature(v, env) ==
  LET outcome(unsafe) ==
        CASE unsafe = "null" -> "none" [] unsafe = "overflow" -> "overflow" [] OTHER -> "report"
  IN outcome(classifyUnsafeDictionaryValue(v.node, env))

-----------------------------------------------------------------------------
(* The rules that resolve aliases.                                         *)

ReportIf(condition) == IF condition THEN "report" ELSE "none"

(* Mutant: only the bare keyword counts.                                   *)
checkTypeAlias_KeywordOnly(s, env) == ReportIf(s.body.type = "unknown")

checkTypeAlias(s, env) == ReportIf(resolvedTypeMatches(env.typeAliases, s.body, "unknown"))

checkReturnType(fn, env) ==
  ReportIf(fn.returnType # <<>> /\ resolvedTypeMatches(env.typeAliases, fn.returnType[1], "unknown-return"))

checkObjectParameter(p, env) ==
  LET annotation == functionParameterTypeAnnotation(p)
  IN ReportIf(annotation # <<>> /\ resolvedTypeMatches(env.typeAliases, annotation[1], "object"))

isTypePredicateSubject(owner, name) ==
  /\ owner.returnType # <<>>
  /\ owner.returnType[1].type = "predicate"
  /\ owner.returnType[1].subject = name

checkUnknownParameter(p, owner) ==
  LET annotation == functionParameterTypeAnnotation(p)
      name == functionParameterBindingName(p)
  IN ReportIf(/\ annotation # <<>>
              /\ containsUnknownType(annotation[1])
              /\ name # "cause"
              /\ ~isTypePredicateSubject(owner, name))

-----------------------------------------------------------------------------
(* What the Program handlers keep of a file: its type declarations and,    *)
(* for no-widen-then-assert, its scopes.                                   *)
FileEnvironment(f) == createTypeEnvironment(f.statements) @@ [scopes |-> f.vars]

(* What every rule makes of one node: rule and outcome.                    *)
RuleOutcomes(f, env, v) ==
  LET widening(o) == <<"no-known-value-widening", o>>
  IN CASE v.on = "type" -> {<<"no-unsafe-dictionary-type", reportIfUnsafe(v, env)>>}
       [] v.on = "index" -> {<<"no-unsafe-dictionary-type", reportIndexSignature(v, env)>>}
       [] v.on = "alias" -> {<<"no-unknown-type-aliases", checkTypeAlias(v.node, env)>>}
       [] v.on = "function" ->
            {<<"no-unknown-returns", checkReturnType(v.node, env)>>,
             widening(flowInto(f, env, v.node.body, v.node.returnType))}
       [] v.on = "parameter" ->
            {<<"no-object-parameters", checkObjectParameter(v.node, env)>>,
             <<"no-unknown-parameters", checkUnknownParameter(v.node, v.owner)>>}
       [] v.on = "variable" ->
            {widening(flowInto(f, env, f.vars[v.node.var].init, f.vars[v.node.var].annotation))}
       [] v.on = "property" -> {widening(flowInto(f, env, v.node.value, v.node.annotation))}
       [] v.on = "assign" -> {widening(checkAssignment(f, env, v.node))}
       [] v.on = "return" ->
            {widening(flowInto(f, env, v.node.value,
                               IF v.node.boundary = "" THEN <<>>
                               ELSE f.functions[v.node.boundary].returnType))}
       [] v.on = "call" -> {widening(checkCall(f, env, v.node))}
       [] v.on = "assertion" ->
            {widening(checkWideningAssertion(f, env, v.node, v.parents)),
             <<"no-widen-then-assert", checkAssertion(env.scopes, v.node, v.at[1], v.boundary)>>,
             <<"no-chained-type-assertions", checkTypeAssertion(v.node, v.parents)>>}
=============================================================================
