--------------------------- MODULE ValueEvidence ---------------------------
(***************************************************************************)
(* What the lint plugin knows of a value, and the three rules built on it: *)
(* rules/no-known-value-widening.ts, rules/no-widen-then-assert.ts and     *)
(* rules/no-chained-type-assertions.ts.                                    *)
(*                                                                         *)
(* A file is [statements, vars, functions].  An expression is a record     *)
(* whose field "expr" is its syntax kind; an identifier names the variable *)
(* it resolves to ("" for none), which is what the scope analysis of the   *)
(* host answers.  A variable keeps its one definition, the annotation on   *)
(* its own identifier, whether it is ever written again, the function it   *)
(* is declared in (its boundary, "" for the program) and the number of the *)
(* statement that declares it.                                             *)
(***************************************************************************)
EXTENDS DictionaryTypes

Expr(kind) == [expr |-> kind]
Ident(v) == [expr |-> "identifier", var |-> v]
As(e, t) == [expr |-> "as", of |-> e, to |-> t]
Wrapped(kind, e) == [expr |-> kind, of |-> e]
Function(fn) == [expr |-> "function", fn |-> fn]
Call(callee, args) == [expr |-> "call", callee |-> callee, args |-> args]

-----------------------------------------------------------------------------
(* Evidence as no-known-value-widening sees it.                            *)

RECURSIVE unwrapExpression(_)
unwrapExpression(e) ==
  IF e.expr \in {"paren", "as", "satisfies", "nonnull"} THEN unwrapExpression(e.of) ELSE e

EvidenceKinds == {"object", "empty object", "array", "function", "class", "new",
                  "literal", "template", "unary"}

isKnownEvidenceExpression(e) == unwrapExpression(e).expr \in EvidenceKinds

resolveVariable(file, e) == IF e.var \in DOMAIN file.vars THEN <<file.vars[e.var]>> ELSE <<>>

variableDeclarator(v) == IF v.definition = "Variable" THEN <<v>> ELSE <<>>

isStableConstVariable(v) == v.kind = "const" /\ ~v.written

(* The initializer a variable's value is known to come from.               *)
stableInit(v) ==
  IF variableDeclarator(v) # <<>> /\ isStableConstVariable(v) THEN v.init ELSE <<>>

RECURSIVE hasKnownEvidence(_, _, _)
hasKnownEvidence(file, expression, visited) ==
  LET e == unwrapExpression(expression)
      variable == resolveVariable(file, e)
      init == stableInit(variable[1])
  IN \/ isKnownEvidenceExpression(expression)
     \/ /\ e.expr = "identifier"
        /\ variable # <<>>
        /\ e.var \notin visited
        /\ init # <<>>
        /\ hasKnownEvidence(file, init[1], visited \cup {e.var})

(* The function a call reaches when its callee is written in this file.    *)
localFunctionForCall(file, callee) ==
  LET c == unwrapExpression(callee)
      variable == resolveVariable(file, c)
      init == unwrapExpression(variable[1].init[1])
      fn == CASE c.expr = "function" -> c.fn
              [] c.expr = "identifier" /\ variable # <<>> ->
                   CASE variable[1].definition = "FunctionName" -> variable[1].fn
                     [] variable[1].definition = "Variable" /\ variable[1].init # <<>> ->
                          IF init.expr = "function" THEN init.fn ELSE ""
                     [] OTHER -> ""
              [] OTHER -> ""
  IN IF fn \in DOMAIN file.functions THEN <<file.functions[fn]>> ELSE <<>>

(* A parameter may wrap another one (a default, a rest element, a          *)
(* constructor property); its own annotation comes before the wrapped one. *)
RECURSIVE functionParameterTypeAnnotation(_)
functionParameterTypeAnnotation(p) ==
  IF p.annotation # <<>> \/ p.wraps = <<>> THEN p.annotation
  ELSE functionParameterTypeAnnotation(p.wraps[1])

RECURSIVE functionParameterBindingName(_)
functionParameterBindingName(p) ==
  IF p.wraps = <<>> THEN p.name ELSE functionParameterBindingName(p.wraps[1])

RECURSIVE containsUnknownType(_)
containsUnknownType(t) ==
  \/ t.type = "unknown"
  \/ t.type = "paren" /\ containsUnknownType(t.of)
  \/ t.type = "union" /\ \E i \in DOMAIN t.types : containsUnknownType(t.types[i])

variableTypeAnnotation(file, name, v) ==
  LET params == file.functions[v.fn].params
      named == SelectSeq(params, LAMBDA p : functionParameterBindingName(p) = name)
  IN CASE v.definition = "Variable" -> v.annotation
       [] v.definition = "Parameter" ->
            IF named = <<>> THEN <<>> ELSE functionParameterTypeAnnotation(named[1])
       [] OTHER -> <<>>

(* Mutant: an alias in the annotation is not looked through.               *)
hasInformativeType_Syntactic(t, env) ==
  IF unwrapTransparentType(t).type \in {"unknown", "any", "object"} THEN "false" ELSE "true"

(* "true", "false", or "overflow" when the classification never returns.   *)
hasInformativeType(t, env) ==
  LET informative(unsafe) ==
        CASE unsafe = "null" -> "true" [] unsafe = "overflow" -> "overflow" [] OTHER -> "false"
  IN informative(classifyUnsafeDictionaryValue(t, env))

RECURSIVE hasKnownCallArgumentEvidence(_, _, _, _)
hasKnownCallArgumentEvidence(file, e, env, visited) ==
  LET variable == resolveVariable(file, e)
      annotation == variableTypeAnnotation(file, e.var, variable[1])
      init == stableInit(variable[1])
      owner == localFunctionForCall(file, e.callee)
      identifier ==
        IF variable = <<>> \/ e.var \in visited THEN "false"
        ELSE IF annotation # <<>> THEN hasInformativeType(annotation[1], env)
        ELSE IF init = <<>> THEN "false"
        ELSE hasKnownCallArgumentEvidence(file, init[1], env, visited \cup {e.var})
  IN CASE e.expr \in {"paren", "nonnull", "satisfies"} ->
            hasKnownCallArgumentEvidence(file, e.of, env, visited)
       [] e.expr = "as" -> hasInformativeType(e.to, env)
       [] e.expr = "call" ->
            IF owner = <<>> THEN "false"
            ELSE IF owner[1].returnType = <<>> THEN "false"
            ELSE hasInformativeType(owner[1].returnType[1], env)
       [] e.expr = "identifier" -> identifier
       [] OTHER -> IF isKnownEvidenceExpression(e) THEN "true" ELSE "false"

-----------------------------------------------------------------------------
(* no-known-value-widening: the outcome of a handler is "none", "report"   *)
(* or "overflow".                                                          *)

typePredicateSubjectIndex(owner) ==
  LET subject == owner.returnType[1].subject
      named == {i \in DOMAIN owner.params : functionParameterBindingName(owner.params[i]) = subject}
  IN IF owner.returnType = <<>> THEN <<>>
     ELSE IF owner.returnType[1].type # "predicate" \/ named = {} THEN <<>>
     ELSE <<CHOOSE i \in named : \A j \in named : i <= j>>

isEmptyObjectExpression(e) == unwrapExpression(e).expr = "empty object"

(* Mutant: an empty object is exempt whatever it flows into.               *)
reportFlow_EmptyAnywhere(file, e, destination) ==
  CASE destination = "overflow" -> "overflow"
    [] destination = "null" -> "none"
    [] OTHER -> IF isEmptyObjectExpression(e) \/ ~hasKnownEvidence(file, e, {})
                THEN "none" ELSE "report"

reportFlow(file, e, destination) ==
  CASE destination = "overflow" -> "overflow"
    [] destination = "null" -> "none"
    [] OTHER ->
         IF \/ destination \in {"open dictionary", "generic container"} /\ isEmptyObjectExpression(e)
            \/ ~hasKnownEvidence(file, e, {})
         THEN "none" ELSE "report"

annotationTarget(annotation, env) ==
  IF annotation = <<>> THEN "null" ELSE classifyWideningTarget(annotation[1], env)

(* VariableDeclarator, PropertyDefinition, ReturnStatement: a value flows  *)
(* into an annotated place.                                                *)
flowInto(file, env, value, annotation) ==
  IF value = <<>> THEN "none" ELSE reportFlow(file, value[1], annotationTarget(annotation, env))

checkAssignment(file, env, s) ==
  IF s.var \notin DOMAIN file.vars THEN "none"
  ELSE IF variableDeclarator(file.vars[s.var]) = <<>> THEN "none"
  ELSE flowInto(file, env, s.value, file.vars[s.var].annotation)

checkCall(file, env, call) ==
  LET owner == localFunctionForCall(file, call.callee)
      index == typePredicateSubjectIndex(owner[1])
      annotation == functionParameterTypeAnnotation(owner[1].params[index[1]])
      outcome(evidence) ==
        CASE evidence = "true" -> "report" [] evidence = "false" -> "none" [] OTHER -> "overflow"
  IN IF owner = <<>> THEN "none"
     ELSE IF index = <<>> THEN "none"
     ELSE IF index[1] > Len(call.args) \/ annotation = <<>> THEN "none"
     ELSE IF call.args[index[1]].expr = "spread" THEN "none"
     ELSE IF ~containsUnknownType(annotation[1]) THEN "none"
     ELSE outcome(hasKnownCallArgumentEvidence(file, call.args[index[1]], env, {}))

(* An assertion directly inside another one is left to the outer one.      *)
hasParentAssertion(parents) == parents # <<>> /\ Head(parents).expr = "as"

checkWideningAssertion(file, env, e, parents) ==
  IF hasParentAssertion(parents) THEN "none"
  ELSE reportFlow(file, e.of, classifyWideningTarget(e.to, env))

-----------------------------------------------------------------------------
(* no-widen-then-assert: purely syntactic, no aliases are resolved.  Its   *)
(* closure keeps the scopes of the file: the variables an identifier of    *)
(* this file can be found in.                                              *)

resolvedVariableForIdentifier(scopes, e) ==
  IF e.var \in DOMAIN scopes THEN <<scopes[e.var]>> ELSE <<>>

RECURSIVE unwrapExpressionParentheses(_)
unwrapExpressionParentheses(e) ==
  IF e.expr = "paren" THEN unwrapExpressionParentheses(e.of) ELSE e

RECURSIVE unwrapTypeParentheses(_)
unwrapTypeParentheses(t) == IF t.type = "paren" THEN unwrapTypeParentheses(t.of) ELSE t

isUnknownOrAnyType(t) == unwrapTypeParentheses(t).type \in {"unknown", "any"}

RECURSIVE isBroadRecordKeyType(_)
isBroadRecordKeyType(type) ==
  LET t == unwrapTypeParentheses(type)
  IN \/ t.type \in {"string", "number", "symbol"}
     \/ t.type = "union" /\ \A i \in DOMAIN t.types : isBroadRecordKeyType(t.types[i])
     \/ t.type = "ref" /\ t.name = "PropertyKey"

RECURSIVE isBroadRecordType(_)
isBroadRecordType(type) ==
  LET t == unwrapTypeParentheses(type)
  IN \/ /\ t.type = "ref" /\ t.name = "Readonly" /\ t.args # <<>>
        /\ isBroadRecordType(t.args[1])
     \/ /\ t.type = "ref" /\ t.name = "Record" /\ Len(t.args) = 2
        /\ isBroadRecordKeyType(t.args[1])
        /\ isUnknownOrAnyType(t.args[2])
     \/ /\ t.type = "literal" /\ Len(t.members) = 1
        /\ t.members[1].sig = "index"
        /\ isBroadRecordKeyType(t.members[1].key)
        /\ isUnknownOrAnyType(t.members[1].of)

broadTypeKind(type) ==
  LET t == unwrapTypeParentheses(type)
  IN CASE t.type \in {"unknown", "any"} -> "top"
       [] t.type = "object" -> "object"
       [] OTHER -> IF isBroadRecordType(t) THEN "record" ELSE "null"

(* Equal source text up to white space: equal syntax, wherever it stands.  *)
typesHaveSameSyntax(left, right) ==
  /\ left # <<>>
  /\ Locate(unwrapTypeParentheses(left[1]), <<>>) = Locate(unwrapTypeParentheses(right), <<>>)

RECURSIVE isDefinitelyObjectType(_)
isDefinitelyObjectType(type) ==
  LET t == unwrapTypeParentheses(type)
  IN \/ t.type \in {"array", "mapped", "object"}
     \/ t.type = "literal" /\ t.members # <<>>
     \/ t.type = "intersection" /\ \A i \in DOMAIN t.types : isDefinitelyObjectType(t.types[i])
     \/ t.type = "readonly" /\ isDefinitelyObjectType(t.of)

RECURSIVE isDefinitelyNarrowerRecordType(_)
isDefinitelyNarrowerRecordType(type) ==
  LET t == unwrapTypeParentheses(type)
  IN \/ t.type = "literal" /\ \E i \in DOMAIN t.members : t.members[i].sig # "index"
     \/ /\ t.type = "ref" /\ t.name = "Readonly" /\ t.args # <<>>
        /\ isDefinitelyNarrowerRecordType(t.args[1])
     \/ /\ t.type = "ref" /\ t.name = "Record" /\ Len(t.args) = 2
        /\ ~isUnknownOrAnyType(t.args[2])

(* The evidence for a value inside one function: none, or the type it is   *)
(* known by, which is absent for a literal.                                *)
RECURSIVE knownValueEvidence(_, _, _, _)
knownValueEvidence(scopes, expression, boundary, visited) ==
  LET e == unwrapExpressionParentheses(expression)
      v == resolvedVariableForIdentifier(scopes, e)
      init == stableInit(v[1])
      typed(t) == IF broadTypeKind(t) # "null" THEN <<>> ELSE <<[type |-> <<t>>]>>
      identifier ==
        IF v = <<>> \/ e.var \in visited THEN <<>>
        ELSE IF v[1].boundary # boundary THEN <<>>
        ELSE IF v[1].annotation # <<>> THEN typed(v[1].annotation[1])
        ELSE IF init = <<>> THEN <<>>
        ELSE knownValueEvidence(scopes, init[1], boundary, visited \cup {e.var})
  IN CASE e.expr = "as" -> typed(e.to)
       [] e.expr \in EvidenceKinds \ {"unary"} -> <<[type |-> <<>>]>>
       [] e.expr = "identifier" -> identifier
       [] OTHER -> <<>>

(* A const that erases known evidence, by its annotation or by a broad     *)
(* assertion in its initializer.                                           *)
widenedBinding(scopes, name) ==
  LET v == scopes[name]
      init == unwrapExpressionParentheses(v.init[1])
      asserted == IF init.expr = "as" THEN broadTypeKind(init.to) ELSE "null"
      declared == IF v.annotation = <<>> THEN "null" ELSE broadTypeKind(v.annotation[1])
      broadKind == IF declared # "null" THEN declared ELSE asserted
      original == IF asserted # "null" THEN unwrapExpressionParentheses(init.of) ELSE v.init[1]
      evidence == knownValueEvidence(scopes, original, v.boundary, {name})
  IN IF stableInit(v) = <<>> THEN <<>>
     ELSE IF broadKind = "null" \/ evidence = <<>> THEN <<>>
     ELSE <<[broadKind |-> broadKind, evidence |-> evidence[1]]>>

assertionIsNarrower(widened, assertedType) ==
  /\ broadTypeKind(assertedType) = "null"
  /\ \/ widened.broadKind = "top"
     \/ typesHaveSameSyntax(widened.evidence.type, assertedType)
     \/ widened.broadKind = "object" /\ isDefinitelyObjectType(assertedType)
     \/ widened.broadKind = "record" /\ isDefinitelyNarrowerRecordType(assertedType)

(* An assertion in statement `at' of the function `boundary'.              *)
checkAssertion(scopes, e, at, boundary) ==
  LET subject == unwrapExpressionParentheses(e.of)
      narrowed(widened) == widened # <<>> /\ assertionIsNarrower(widened[1], e.to)
      v == scopes[subject.var]
  IN IF subject.expr # "identifier" THEN "none"
     ELSE IF resolvedVariableForIdentifier(scopes, subject) = <<>> THEN "none"
     ELSE IF \/ v.definition # "Variable" \/ at <= v.declaredAt \/ boundary # v.boundary
          THEN "none"
     ELSE IF narrowed(widenedBinding(scopes, subject.var)) THEN "report" ELSE "none"

-----------------------------------------------------------------------------
(* no-chained-type-assertions.                                             *)

isConstAssertion(e) == e.to.type = "ref" /\ e.to.name = "const"

isOutermostAssertionInChain(parents) ==
  LET outer == SelectSeq(parents, LAMBDA p : p.expr # "paren")
  IN outer = <<>> \/ outer[1].expr # "as"

RECURSIVE assertionChain(_)
assertionChain(e) ==
  IF e.expr # "as" THEN <<>>
  ELSE <<e>> \o assertionChain(unwrapExpressionParentheses(e.of))

(* Mutant: a chain of two passes.                                          *)
isForbiddenAssertionChain_OffByOne(e) ==
  LET chain == assertionChain(e)
  IN Len(chain) > 2 /\ \E i \in DOMAIN chain : ~isConstAssertion(chain[i])

isForbiddenAssertionChain(e) ==
  LET chain == assertionChain(e)
  IN Len(chain) > 1 /\ \E i \in DOMAIN chain : ~isConstAssertion(chain[i])

checkTypeAssertion(e, parents) ==
  IF isOutermostAssertionInChain(parents) /\ isForbiddenAssertionChain(e) THEN "report" ELSE "none"

=============================================================================
