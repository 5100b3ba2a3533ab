---------------------------- MODULE TypeAliases ----------------------------
(***************************************************************************)
(* How the lint plugin looks through type aliases: the lexical environment *)
(* of a file and the evaluation of a type under it                         *)
(* (shared/type-alias-resolution.ts, shared/lexical-type-parameters.ts).   *)
(*                                                                         *)
(* A type is a record whose field "type" is its syntax kind; wording,      *)
(* spans and literals are left out.  A reference carries its ancestors,    *)
(* `up', innermost first: for the plugin a node's place is exactly what    *)
(* node.parent gives.  An ancestor is [node, id, binds, via]: its syntax   *)
(* kind, its identity, the type parameters it declares, and the field the  *)
(* path enters it by.  Optional things are sequences of length 0 or 1.     *)
(***************************************************************************)
EXTENDS Naturals, Sequences, FiniteSets, SequencesExt

Keyword(k) == [type |-> k]
Ref(name, args) == [type |-> "ref", name |-> name, args |-> args, up |-> <<>>]
Union(types) == [type |-> "union", types |-> types]
Intersection(types) == [type |-> "intersection", types |-> types]
Paren(t) == [type |-> "paren", of |-> t]
Literal(members) == [type |-> "literal", members |-> members]
Mapped(key, constraint, value) ==
  [type |-> "mapped", key |-> key, constraint |-> constraint, value |-> value]

Index(key, t) == [sig |-> "index", optional |-> FALSE, key |-> key, of |-> t]
Property(optional, t) ==
  [sig |-> "property", optional |-> optional, key |-> Keyword("string"), of |-> t]

Ancestor(node, id, binds, via) == [node |-> node, id |-> id, binds |-> binds, via |-> via]
Program == Ancestor("Program", "program", {}, "body")
Block(id) == Ancestor("BlockStatement", id, {}, "body")

(* The parser's parent links: every reference inside t learns its          *)
(* ancestors, `up' being those of t itself.                                *)
RECURSIVE Locate(_, _)
Locate(t, up) ==
  LET all(ts) == [i \in DOMAIN ts |-> Locate(ts[i], up)]
      inMapped(via) == <<Ancestor("TSMappedType", t.key, {t.key}, via)>> \o up
      members == [i \in DOMAIN t.members |->
                    [t.members[i] EXCEPT !.of = Locate(@, up), !.key = Locate(@, up)]]
  IN CASE t.type = "ref" -> [t EXCEPT !.args = all(@), !.up = up]
       [] t.type \in {"union", "intersection"} -> [t EXCEPT !.types = all(@)]
       [] t.type \in {"paren", "readonly", "array"} -> [t EXCEPT !.of = Locate(@, up)]
       [] t.type = "literal" -> [t EXCEPT !.members = members]
       [] t.type = "mapped" ->
            [t EXCEPT !.constraint = Locate(@, inMapped("constraint")),
                      !.value = [i \in DOMAIN @ |-> Locate(@[i], inMapped("typeAnnotation"))]]
       [] OTHER -> t

-----------------------------------------------------------------------------
(* The environment.                                                        *)

ScopeKinds == {"Program", "BlockStatement", "TSModuleBlock", "StaticBlock", "SwitchStatement"}

(* The nearest ancestor that holds type declarations.                      *)
enclosingTypeScope(up) == SelectSeq(up, LAMBDA a : a.node \in ScopeKinds)[1]

(* A declaration that binds a type name; only an alias can be looked       *)
(* through, every other one just occupies the name.                        *)
Declares(s) == s.stmt \in {"alias", "interface", "class", "enum", "import"}
declaredTypeBinding(s) ==
  [name |-> s.name, alias |-> IF s.stmt = "alias" THEN <<s>> ELSE <<>>]

createTypeAliasEnvironment(statements) ==
  LET declarations == SelectSeq(statements, Declares)
      binding(s) == [scope |-> enclosingTypeScope(s.up)] @@ declaredTypeBinding(s)
  IN [n \in {declarations[i].name : i \in DOMAIN declarations} |->
        LET named == SelectSeq(declarations, LAMBDA s : s.name = n)
        IN [i \in DOMAIN named |-> binding(named[i])]]

-----------------------------------------------------------------------------
(* Lookup.                                                                 *)

(* Every type parameter in scope: a mapped type's key only inside its name *)
(* and value types, never in its own constraint.                           *)
lexicalTypeParameterNames(up) ==
  UNION {up[i].binds : i \in {j \in DOMAIN up :
                                \/ up[j].node # "TSMappedType"
                                \/ up[j].via \in {"nameType", "typeAnnotation"}}}

(* How many ancestors up the scope is, 0 when it does not enclose the use. *)
ancestorDistance(scope, up) ==
  IF scope \in ToSet(up) THEN CHOOSE i \in DOMAIN up : up[i] = scope ELSE 0

nearestTypeBindings(name, up, env) ==
  LET candidates == IF name \in DOMAIN env THEN env[name] ELSE <<>>
      distance(b) == ancestorDistance(b.scope, up)
      visible == SelectSeq(candidates, LAMBDA b : distance(b) > 0)
      nearest(b) == \A i \in DOMAIN visible : distance(b) <= distance(visible[i])
  IN SelectSeq(visible, nearest)

visibleTypeAlias(name, up, env) ==
  LET bindings == nearestTypeBindings(name, up, env)
  IN IF name \in lexicalTypeParameterNames(up) \/ Len(bindings) # 1
     THEN <<>> ELSE bindings[1].alias

hasVisibleTypeBinding(name, up, env) ==
  \/ name \in lexicalTypeParameterNames(up)
  \/ nearestTypeBindings(name, up, env) # <<>>

-----------------------------------------------------------------------------
(* Evaluation.  A substitution maps a parameter to a type and the          *)
(* substitutions that type is to be read under.                            *)

NoSubstitutions == [n \in {} |-> <<>>]

(* Mutant: the arguments are read without the substitutions of their reference. *)
aliasSubstitutions_Bare(alias, reference, base) ==
  LET bind(next, i) ==
        LET argument == IF i <= Len(reference.args) THEN <<reference.args[i]>>
                        ELSE alias.params[i].default
        IN IF next = <<>> \/ argument = <<>> THEN <<>>
           ELSE <<(alias.params[i].name :>
                     [type |-> argument[1], substitutions |-> NoSubstitutions]) @@ next[1]>>
  IN FoldLeft(bind, <<base>>, [i \in 1..Len(alias.params) |-> i])

(* The bindings of an alias's parameters for one reference: the explicit   *)
(* argument is read under the reference's own substitutions, a default     *)
(* under the ones built so far; none when a parameter has neither.         *)
aliasSubstitutions(alias, reference, base) ==
  LET bind(next, i) ==
        LET explicit == i <= Len(reference.args)
            argument == IF explicit THEN <<reference.args[i]>> ELSE alias.params[i].default
        IN IF next = <<>> \/ argument = <<>> THEN <<>>
           ELSE <<(alias.params[i].name :>
                     [type |-> argument[1],
                      substitutions |-> IF explicit THEN base ELSE next[1]]) @@ next[1]>>
  IN FoldLeft(bind, <<base>>, [i \in 1..Len(alias.params) |-> i])

(* What a rule asks of a resolved type: "unknown" and "object" look for    *)
(* the keyword through parentheses and unions, "unknown-return" through    *)
(* promises too.                                                           *)
Sought(matcher) == IF matcher = "object" THEN "object" ELSE "unknown"

RECURSIVE evaluate(_, _, _, _, _)
evaluate(env, current, substitutions, resolving, matcher) ==
  LET isRef == current.type = "ref"
      bound == isRef /\ current.args = <<>> /\ current.name \in DOMAIN substitutions
      alias == IF isRef /\ ~bound THEN visibleTypeAlias(current.name, current.up, env) ELSE <<>>
      next == IF alias = <<>> \/ ToSet(alias) \subseteq resolving THEN <<>>
              ELSE aliasSubstitutions(alias[1], current, substitutions)
      matches(child) == evaluate(env, child, substitutions, resolving, matcher)
  IN CASE bound ->
            LET s == substitutions[current.name]
            IN evaluate(env, s.type, s.substitutions, resolving, matcher)
       [] next # <<>> ->
            evaluate(env, alias[1].body, next[1], resolving \cup ToSet(alias), matcher)
       [] OTHER ->
            \/ current.type = Sought(matcher)
            \/ current.type = "paren" /\ matches(current.of)
            \/ current.type = "union" /\ \E i \in DOMAIN current.types : matches(current.types[i])
            \/ /\ matcher = "unknown-return"
               /\ isRef
               /\ current.name \in {"Promise", "PromiseLike"}
               /\ current.args # <<>>
               /\ matches(current.args[1])

resolvedTypeMatches(env, type, matcher) == evaluate(env, type, NoSubstitutions, {}, matcher)

=============================================================================
