-------------------------- MODULE DictionaryTypes --------------------------
(***************************************************************************)
(* The classification of dictionary types (shared/dictionary-types.ts):    *)
(* which value types of a dictionary are escape hatches, and which types   *)
(* are so broad that a known value assigned to them loses its evidence.    *)
(*                                                                         *)
(* Unlike the evaluator of TypeAliases, these functions keep one flat map  *)
(* of substitutions for a whole resolution and remember the aliases they   *)
(* are resolving by name.  Such a map can be cyclic, and the code then     *)
(* recurses until the stack overflows.  `pending' holds the parameters     *)
(* replaced since the last alias was entered: until then neither the map   *)
(* nor the resolving set changes, so replacing one of them again is the    *)
(* same call as before and never returns.  That outcome is "overflow".     *)
(***************************************************************************)
EXTENDS TypeAliases

TRANSPARENT_WRAPPERS == {"Readonly", "Partial", "Required", "NonNullable"}
BUILT_INS == TRANSPARENT_WRAPPERS \cup {"Record", "Pick", "Omit", "PropertyKey"}

(* A type that stands for a call that does not return.                     *)
Overflow == Keyword("overflow")

(* Interfaces are collected from the program's own statements only, the    *)
(* type bindings from everywhere in the file.                              *)
createTypeEnvironment(statements) ==
  LET interfaces == SelectSeq(statements, LAMBDA s : s.stmt = "interface" /\ s.up = <<Program>>)
  IN [interfaces |-> [n \in {interfaces[i].name : i \in DOMAIN interfaces} |->
                        SelectSeq(interfaces, LAMBDA s : s.name = n)],
      typeAliases |-> createTypeAliasEnvironment(statements)]

isBuiltIn(name, up, env) ==
  name \in BUILT_INS /\ ~hasVisibleTypeBinding(name, up, env.typeAliases)

isWrapper(t, env) == t.name \in TRANSPARENT_WRAPPERS /\ isBuiltIn(t.name, t.up, env)

RECURSIVE unwrapTransparentType(_)
unwrapTransparentType(t) ==
  IF t.type \in {"paren", "readonly"} THEN unwrapTransparentType(t.of) ELSE t

isUnappliedReferenceTo(t, name) ==
  LET u == unwrapTransparentType(t)
  IN u.type = "ref" /\ u.name = name /\ u.args = <<>>

isEffectivelyEmptyMember(m) ==
  m.sig = "property" /\ m.optional /\ unwrapTransparentType(m.of).type = "never"
isEffectivelyEmptyMembers(ms) == \A i \in DOMAIN ms : isEffectivelyEmptyMember(ms[i])

(* Two declarations of one interface merge: neither is empty by itself.    *)
isEffectivelyEmptyInterface(declarations) ==
  /\ Len(declarations) = 1
  /\ ~declarations[1].extends
  /\ isEffectivelyEmptyMembers(declarations[1].members)

(* A chain of parameters is followed to its end when it is stored.         *)
RECURSIVE resolvedSubstitutionArgument(_, _, _)
resolvedSubstitutionArgument(t, base, resolving) ==
  LET u == unwrapTransparentType(t)
  IN IF u.type = "ref" /\ u.name \in DOMAIN base \ resolving
     THEN resolvedSubstitutionArgument(base[u.name], base, resolving \cup {u.name})
     ELSE t

(* Mutant: the parameters of the enclosing alias are forgotten.            *)
aliasSubstitution_NoBase(alias, reference, base) ==
  LET bind(next, i) ==
        LET argument == IF i <= Len(reference.args) THEN <<reference.args[i]>>
                        ELSE alias.params[i].default
        IN IF next = <<>> \/ argument = <<>> THEN <<>>
           ELSE <<(alias.params[i].name :>
                     resolvedSubstitutionArgument(argument[1], next[1], {})) @@ next[1]>>
  IN FoldLeft(bind, <<NoSubstitutions>>, [i \in 1..Len(alias.params) |-> i])

(* Each argument is resolved in the map that already holds the parameters  *)
(* before it, the defaults and the explicit arguments alike.               *)
aliasSubstitution(alias, reference, base) ==
  LET bind(next, i) ==
        LET argument == IF i <= Len(reference.args) THEN <<reference.args[i]>>
                        ELSE alias.params[i].default
        IN IF next = <<>> \/ argument = <<>> THEN <<>>
           ELSE <<(alias.params[i].name :>
                     resolvedSubstitutionArgument(argument[1], next[1], {})) @@ next[1]>>
  IN FoldLeft(bind, <<base>>, [i \in 1..Len(alias.params) |-> i])

(* The alias a reference stands for with its substitution, none when it    *)
(* cannot be entered.                                                      *)
Entered(t, env, subs, resolving) ==
  LET under(alias, next) == [i \in DOMAIN next |-> [body |-> alias.body, subs |-> next[i]]]
      enter(alias) ==
        IF alias = <<>> \/ t.name \in resolving THEN <<>>
        ELSE under(alias[1], aliasSubstitution(alias[1], t, subs))
  IN enter(visibleTypeAlias(t.name, t.up, env.typeAliases))

First(results) ==
  LET some == SelectSeq(results, LAMBDA r : r # "null")
  IN IF some = <<>> THEN "null" ELSE some[1]

-----------------------------------------------------------------------------
(* The escape hatch a value type is, "null" when it is none.               *)
RECURSIVE unsafeDirectValue(_, _, _, _, _)
unsafeDirectValue(type, env, subs, resolving, pending) ==
  LET t == unwrapTransparentType(type)
      value(m) == unsafeDirectValue(m, env, subs, resolving, pending)
      values == [i \in DOMAIN t.types |-> value(t.types[i])]
      union(first) == IF first \in {"null", "overflow"} THEN first ELSE "union"
      through(alias) ==
        IF alias = <<>> THEN "null"
        ELSE unsafeDirectValue(alias[1].body, env, alias[1].subs, resolving \cup {t.name}, {})
      named ==
        CASE t.name \in DOMAIN subs ->
               IF isUnappliedReferenceTo(subs[t.name], t.name) THEN "null"
               ELSE IF t.name \in pending THEN "overflow"
               ELSE unsafeDirectValue(subs[t.name], env, subs, resolving, pending \cup {t.name})
          [] t.name \in DOMAIN env.interfaces \ DOMAIN subs ->
               IF isEffectivelyEmptyInterface(env.interfaces[t.name]) THEN "empty-object" ELSE "null"
          [] OTHER -> through(Entered(t, env, subs, resolving))
      reference ==
        IF ~isWrapper(t, env) THEN named
        ELSE IF t.args = <<>> THEN "null" ELSE value(t.args[1])
  IN CASE t.type \in {"unknown", "any", "object", "overflow"} -> t.type
       [] t.type = "literal" ->
            IF isEffectivelyEmptyMembers(t.members) THEN "empty-object" ELSE "null"
       [] t.type = "union" ->       \* some() stops at the first unsafe member
            union(First(values))
       [] t.type = "intersection" ->  \* map() evaluates every member
            IF "overflow" \in ToSet(values) THEN "overflow"
            ELSE IF "any" \in ToSet(values) THEN "any"
            ELSE IF values # <<>> /\ "null" \notin ToSet(values) THEN values[1] ELSE "null"
       [] t.type = "ref" -> reference
       [] OTHER -> "null"

(* The value types of a dictionary, each with the substitutions it is to   *)
(* be read under; empty when the type is not a dictionary.                 *)
RECURSIVE dictionaryValueTypes(_, _, _, _, _)
dictionaryValueTypes(type, env, subs, resolving, pending) ==
  LET t == unwrapTransparentType(type)
      here(v) == <<[type |-> v, subs |-> subs]>>
      values(m) == dictionaryValueTypes(m, env, subs, resolving, pending)
      through(alias) ==
        IF alias = <<>> THEN <<>>
        ELSE dictionaryValueTypes(alias[1].body, env, alias[1].subs, resolving \cup {t.name}, {})
      reference ==
        IF t.name \in DOMAIN subs
        THEN IF isUnappliedReferenceTo(subs[t.name], t.name) THEN <<>>
             ELSE IF t.name \in pending THEN here(Overflow)
             ELSE dictionaryValueTypes(subs[t.name], env, subs, resolving, pending \cup {t.name})
        ELSE CASE isBuiltIn(t.name, t.up, env) /\ t.name = "Record" ->
                    IF Len(t.args) < 2 THEN <<>> ELSE here(t.args[2])
               [] isBuiltIn(t.name, t.up, env) /\ t.name \in TRANSPARENT_WRAPPERS \cup {"Pick", "Omit"} ->
                    IF t.args = <<>> THEN <<>> ELSE values(t.args[1])
               [] OTHER -> through(Entered(t, env, subs, resolving))
  IN CASE t.type = "literal" ->
            FlattenSeq([i \in DOMAIN t.members |->
                          IF t.members[i].sig = "index" THEN here(t.members[i].of) ELSE <<>>])
       [] t.type = "mapped" -> IF t.value = <<>> THEN <<>> ELSE here(t.value[1])
       [] t.type = "ref" -> reference
       [] OTHER -> <<>>

classifyUnsafeDictionaryValue(t, env) == unsafeDirectValue(t, env, NoSubstitutions, {}, {})

classifyUnsafeDictionary(t, env) ==
  LET unsafe(values) ==
        First([i \in DOMAIN values |->
                 unsafeDirectValue(values[i].type, env, values[i].subs, {}, {})])
  IN unsafe(dictionaryValueTypes(t, env, NoSubstitutions, {}, {}))

-----------------------------------------------------------------------------
(* Widening targets.                                                       *)

(* Whether a key type admits arbitrary keys: "true", "false" or "overflow".*)
RECURSIVE isBroadMappedKey(_, _, _, _, _)
isBroadMappedKey(type, env, subs, visited, pending) ==
  LET t == unwrapTransparentType(type)
      keys == [i \in DOMAIN t.types |-> isBroadMappedKey(t.types[i], env, subs, visited, pending)]
      some(broad) == IF broad = <<>> THEN "false" ELSE broad[1]
      through(alias) ==
        IF alias = <<>> \/ t.name \in visited THEN "false"
        ELSE IF alias[1].params # <<>> THEN "false"
        ELSE isBroadMappedKey(alias[1].body, env, subs, visited \cup {t.name}, {})
      replaced == t.name \in DOMAIN subs /\ ~isUnappliedReferenceTo(subs[t.name], t.name)
      reference ==
        CASE replaced ->
               IF t.name \in pending THEN "overflow"
               ELSE isBroadMappedKey(subs[t.name], env, subs, visited, pending \cup {t.name})
          [] ~replaced /\ t.name = "PropertyKey" /\ isBuiltIn(t.name, t.up, env) -> "true"
          [] OTHER -> through(visibleTypeAlias(t.name, t.up, env.typeAliases))
  IN CASE t.type \in {"string", "number", "symbol"} -> "true"
       [] t.type = "union" -> some(SelectSeq(keys, LAMBDA k : k # "false"))
       [] t.type = "ref" -> reference
       [] OTHER -> "false"

OpenDictionaryIf(broad) ==
  CASE broad = "true" -> "open dictionary" [] broad = "false" -> "null" [] OTHER -> "overflow"

hasBroadRecordKey(t, env, subs) ==
  IF t.args = <<>> THEN "true" ELSE isBroadMappedKey(t.args[1], env, subs, {}, {})

hasIndexSignature(t) == \E i \in DOMAIN t.members : t.members[i].sig = "index"

(* What an alias body widens to.                                           *)
RECURSIVE classifyAliasBroadTarget(_, _, _, _, _)
classifyAliasBroadTarget(type, env, subs, resolving, pending) ==
  LET t == unwrapTransparentType(type)
      through(alias) ==
        IF alias = <<>> THEN "null"
        ELSE classifyAliasBroadTarget(alias[1].body, env, alias[1].subs, resolving \cup {t.name}, {})
      reference ==
        IF t.name \in DOMAIN subs
        THEN IF isUnappliedReferenceTo(subs[t.name], t.name) THEN "null"
             ELSE IF t.name \in pending THEN "overflow"
             ELSE classifyAliasBroadTarget(subs[t.name], env, subs, resolving, pending \cup {t.name})
        ELSE CASE isWrapper(t, env) ->
                    IF t.args = <<>> THEN "null"
                    ELSE classifyAliasBroadTarget(t.args[1], env, subs, resolving, pending)
               [] t.name = "Record" /\ isBuiltIn(t.name, t.up, env) ->
                    OpenDictionaryIf(hasBroadRecordKey(t, env, subs))
               [] OTHER -> through(Entered(t, env, subs, resolving))
  IN CASE t.type \in {"unknown", "object"} -> t.type
       [] t.type = "literal" -> IF hasIndexSignature(t) THEN "open dictionary" ELSE "null"
       [] t.type = "mapped" -> OpenDictionaryIf(isBroadMappedKey(t.constraint, env, subs, {}, {}))
       [] t.type = "ref" -> reference
       [] OTHER -> "null"

(* What a written type widens a known value to, "null" when it does not.   *)
(* A generic alias is only ever a container.                               *)
RECURSIVE classifyWideningTarget(_, _)
classifyWideningTarget(type, env) ==
  LET t == unwrapTransparentType(type)
      container(alias, resolved) ==
        IF alias.params = <<>> \/ resolved = "overflow" THEN resolved
        ELSE IF resolved = "open dictionary" THEN "generic container" ELSE "null"
      through(alias, subs) ==
        IF subs = <<>> THEN "null"
        ELSE container(alias, classifyAliasBroadTarget(alias.body, env, subs[1], {t.name}, {}))
      named(alias) ==
        IF alias = <<>> THEN "null"
        ELSE through(alias[1], aliasSubstitution(alias[1], t, NoSubstitutions))
      reference ==
        CASE isWrapper(t, env) ->
               IF t.args = <<>> THEN "null" ELSE classifyWideningTarget(t.args[1], env)
          [] t.name = "Record" /\ isBuiltIn(t.name, t.up, env) ->
               OpenDictionaryIf(hasBroadRecordKey(t, env, NoSubstitutions))
          [] OTHER -> named(visibleTypeAlias(t.name, t.up, env.typeAliases))
  IN CASE t.type \in {"unknown", "object"} -> t.type
       [] t.type = "literal" ->
            IF hasIndexSignature(t) THEN "open dictionary"
            ELSE IF t.members # <<>> THEN "anonymous object" ELSE "null"
       [] t.type = "mapped" -> "open dictionary"
       [] t.type = "ref" -> reference
       [] OTHER -> "null"

=============================================================================
