----------------------------- MODULE Interface -----------------------------
(***************************************************************************)
(* The code generator's reading of a class description                     *)
(* (src/sdk/gentool/util.js): what each option may be, and what it is      *)
(* taken to be where the description leaves it out.                        *)
(*                                                                         *)
(* A description is a function from the options that were given to their   *)
(* values, and `given ?? defaults' is the description with the missing     *)
(* options filled in.  A type is its kind: "primitive" stands for the      *)
(* integers, float, double and boolean, and the class that a class type    *)
(* names is the property's `of'.  Of a line of C++ only its being there    *)
(* matters, and of an expression what it does with the member variable:    *)
(* "member" names it, "moved" moves it, "pointee" copies what it points    *)
(* to, "" is no expression at all, and any other string is another one.    *)
(***************************************************************************)
EXTENDS Naturals, Sequences, SequencesExt

CONSTANT Wrong    \* a value of a JSON type that the option does not have

given ?? defaults ==
    [k \in DOMAIN given \cup DOMAIN defaults |-> IF k \in DOMAIN given THEN given[k] ELSE defaults[k]]

ValueTypes == {"CLASS", "CLASS_REF", "CLASS_MIX"}
PtrTypes == {"CLASS_PTR", "CLASS_PTR_REF", "CLASS_PTR_MIX"}
ClassTypes == ValueTypes \cup PtrTypes
StringTypes == {"string", "string_ref", "string_mix"}
IsPrimitiveType(type) == type = "primitive"
KnownTypes == {"primitive"} \cup StringTypes \cup ClassTypes

MethodMode == {"regular", "virtual", "pureVirtual", "override"}
Visibility == {"public", "protected", "private"}
ConstructorDefinition == {"defined", "default", "deleted", "omitted"}
DestructorDefinition == {"defined", "default", "omitted"}

(***************************************************************************)
(* What the types mean in C++                                              *)
(***************************************************************************)
TypeImplicitDefaultValue(type) == IF IsPrimitiveType(type) THEN "zero" ELSE ""

TypeMembVarCopyOp(type) == IF type \in PtrTypes THEN "pointee" ELSE "member"

TypeMembVarMoveOp(type) == IF IsPrimitiveType(type) THEN "member" ELSE "moved"

\* Mutant: pointers are compared, not what they point to.
TypePropEqOpPointer(type) == "member"

TypePropEqOp(type) == IF type \in PtrTypes THEN "pointee" ELSE "member"

TypePropHasher(type) == IF type \in PtrTypes THEN "pointee" ELSE "member"

\* Mutant: a mix is got by value.
GetterByReferenceOnly(type) == type \in {"string_ref", "CLASS_REF", "CLASS_PTR_REF"}

GetterByReference(type) ==
    type \in {"string_ref", "string_mix", "CLASS_REF", "CLASS_MIX", "CLASS_PTR_REF", "CLASS_PTR_MIX"}

SetterByReference(type) == type \in {"string_ref", "CLASS_REF", "CLASS_PTR_REF"}

(***************************************************************************)
(* Properties                                                              *)
(***************************************************************************)
BooleanIn(json, keys) == \A k \in keys \cap DOMAIN json : json[k] \in BOOLEAN

OneOf(json, key, values) == key \in DOMAIN json => json[key] \in values

PropertyAccepted(p) ==
    /\ {"name", "type"} \subseteq DOMAIN p
    /\ p.name # Wrong /\ p.type # Wrong
    /\ BooleanIn(p, {"static", "hasGetter", "getterConst", "getterNoexcept", "getterCustom", "hasSetter",
                     "setterConst", "setterNoexcept", "setterCustom", "hasMemberVar", "partOfIdentity"})
    /\ OneOf(p, "getterMode", MethodMode) /\ OneOf(p, "setterMode", MethodMode)
    /\ OneOf(p, "getterVisibility", Visibility) /\ OneOf(p, "setterVisibility", Visibility)
    /\ "defaultValue" \in DOMAIN p => p.defaultValue # Wrong

GetterNoexcept(type) ==
    \/ type \in {"string_ref", "string_mix", "CLASS_REF", "CLASS_MIX", "CLASS_PTR_REF", "CLASS_PTR_MIX"}
    \/ IsPrimitiveType(type)

\* Mutant: the setter's table is the getter's.
SetterNoexceptAsGetter(type) == GetterNoexcept(type)

SetterNoexcept(type) ==
    \/ type \in {"string", "string_mix", "CLASS", "CLASS_MIX", "CLASS_PTR", "CLASS_PTR_MIX"}
    \/ IsPrimitiveType(type)

FillProperty(class, given) ==
    LET p == given ?? [static |-> class.static, hasGetter |-> TRUE, hasSetter |-> TRUE,
                       getterMode |-> "regular", setterMode |-> "regular",
                       getterVisibility |-> "public", setterVisibility |-> "public",
                       getterNoexcept |-> GetterNoexcept(given.type),
                       setterNoexcept |-> SetterNoexcept(given.type),
                       setterConst |-> FALSE, defaultValue |-> ""]
        q == p ?? [getterConst |-> ~p.static, partOfIdentity |-> ~p.static,
                   getterCustom |-> p.getterMode = "pureVirtual",
                   setterCustom |-> p.setterMode = "pureVirtual"]
    IN  q ?? [hasMemberVar |-> ~q.getterCustom \/ ~q.setterCustom]

\* The places of a name in a list.  Find-by-name loops find the first.
Places(list, name) == {k \in DOMAIN list : list[k].name = name}

FirstPlace(list, name) == CHOOSE k \in Places(list, name) : \A j \in Places(list, name) : k <= j

Named(class, name) == class.properties[FirstPlace(class.properties, name)]

HasProperty(class, e) == "name" \in DOMAIN e /\ Places(class.properties, e.name) # {}

(***************************************************************************)
(* Constructors                                                            *)
(***************************************************************************)
InferredValue(kind, p) ==
    CASE kind = "parameterless" -> IF p.defaultValue # "" THEN p.defaultValue
                                   ELSE TypeImplicitDefaultValue(p.type)
      [] kind = "copy" -> TypeMembVarCopyOp(p.type)
      [] kind = "move" -> TypeMembVarMoveOp(p.type)

InitializedAccepted(class, ctor) ==
    "initializedProperties" \in DOMAIN ctor =>
        \A k \in DOMAIN ctor.initializedProperties :
            LET e == ctor.initializedProperties[k]
            IN  /\ HasProperty(class, e)
                /\ ~Named(class, e.name).static
                /\ Named(class, e.name).hasMemberVar
                /\ BooleanIn(e, {"initializeInBody"})
                /\ "value" \in DOMAIN e => e.value # Wrong

\* The properties at the places that are listed, where a list is inferred.
Stored(class) == {k \in DOMAIN class.properties : ~class.properties[k].static /\ class.properties[k].hasMemberVar}

FillInitialized(class, ctor, kind) ==
    LET listed == IF "initializedProperties" \in DOMAIN ctor THEN ctor.initializedProperties
                  ELSE [k \in Stored(class) |-> [name |-> class.properties[k].name]]
    IN  [k \in DOMAIN listed |->
            listed[k] ?? [value |-> InferredValue(kind, Named(class, listed[k].name)), initializeInBody |-> FALSE]]

\* Mutant: the test for pointers is missing.
InitializedCanBeDefaultAny(class, initialized, kind) ==
    \A k \in DOMAIN initialized :
        LET e == initialized[k]
            p == Named(class, e.name)
        IN  CASE kind = "parameterless" -> e.value = ""
              [] kind = "copy" -> e.value \in {"", TypeMembVarCopyOp(p.type)}
              [] kind = "move" -> e.value \in {"", TypeMembVarMoveOp(p.type)}

InitializedCanBeDefault(class, initialized, kind) ==
    \A k \in DOMAIN initialized :
        LET e == initialized[k]
            p == Named(class, e.name)
        IN  CASE kind = "parameterless" -> e.value = ""
              [] kind = "copy" -> /\ e.value \in {"", TypeMembVarCopyOp(p.type)}
                                  /\ p.type \notin PtrTypes
              [] kind = "move" -> e.value \in {"", TypeMembVarMoveOp(p.type)}

InitializedCanBeNoexcept(class, initialized) ==
    \A k \in DOMAIN initialized : IsPrimitiveType(Named(class, initialized[k].name).type)

CodeKeys == {"codeFront", "codeBack", "operatorCodeFront", "operatorCodeBack"}

CodeCanBeDefault(ctor) == \A k \in CodeKeys \cap DOMAIN ctor : ctor[k] = <<>>

FillCode(ctor) ==
    LET c == ctor ?? [codeFront |-> <<>>, codeBack |-> <<>>]
    IN  c ?? [operatorCodeFront |-> c.codeFront, operatorCodeBack |-> c.codeBack]

ConstructorAccepted(class, ctor) ==
    /\ ctor # Wrong
    /\ InitializedAccepted(class, ctor)
    /\ \A k \in CodeKeys \cap DOMAIN ctor : ctor[k] # Wrong
    /\ OneOf(ctor, "definition", ConstructorDefinition)
    /\ OneOf(ctor, "visibility", Visibility)
    /\ BooleanIn(ctor, {"noexcept", "custom", "customOperator"})

DefinitionIfNotSet(class, kind, canBeDefault) ==
    LET written == IF canBeDefault THEN "default" ELSE "defined"
        forbidden == IF class.static THEN "omitted" ELSE "deleted"
    IN  CASE kind = "parameterless" -> IF class.static THEN "deleted" ELSE written
          [] kind = "copy" -> IF class.copyable THEN written ELSE forbidden
          [] kind = "move" -> IF class.movable THEN written ELSE forbidden

FillConstructor(class, ctor, kind) ==
    LET initialized == FillInitialized(class, ctor, kind)
        canBeDefault == InitializedCanBeDefault(class, initialized, kind) /\ CodeCanBeDefault(ctor)
        c == [initializedProperties |-> initialized] ?? FillCode(ctor) ??
             [definition |-> DefinitionIfNotSet(class, kind, canBeDefault),
              visibility |-> IF kind = "parameterless" /\ class.static THEN "private" ELSE "public",
              custom |-> FALSE]
    IN  c ?? [noexcept |-> InitializedCanBeNoexcept(class, initialized) /\ c.definition # "deleted",
              customOperator |-> c.custom]

DestructorAccepted(dtor) ==
    /\ dtor # Wrong
    /\ BooleanIn(dtor, {"virtual", "custom"})
    /\ "code" \in DOMAIN dtor => dtor.code # Wrong
    /\ OneOf(dtor, "definition", DestructorDefinition)
    /\ OneOf(dtor, "visibility", Visibility)

FillDestructor(dtor) ==
    LET d == dtor ?? [virtual |-> FALSE, code |-> <<>>, visibility |-> "public", custom |-> FALSE]
    IN  d ?? [definition |-> IF d.code # <<>> THEN "defined" ELSE "default"]

(***************************************************************************)
(* Equality, hash and string operators                                     *)
(***************************************************************************)
\* A property can be looked at through its member variable or its getter.
Readable(p) == p.hasMemberVar \/ p.hasGetter

EqualityOperatorComparedProperties(class) ==
    LET Compared(p) == ~p.static /\ p.partOfIdentity /\ Readable(p)
    IN  [k \in {j \in DOMAIN class.properties : Compared(class.properties[j])} |->
            LET p == class.properties[k]
            IN  [name |-> p.name, useGetter |-> ~p.hasMemberVar, comparator |-> TypePropEqOp(p.type)]]

ListedAccepted(class, json, key, text) ==
    key \in DOMAIN json =>
        \A k \in DOMAIN json[key] :
            LET e == json[key][k]
            IN  /\ HasProperty(class, e)
                /\ ~Named(class, e.name).static
                /\ "useGetter" \in DOMAIN e \/ Readable(Named(class, e.name))
                /\ BooleanIn(e, {"useGetter"})
                /\ text \in DOMAIN e => e[text] # Wrong

EqualityOperatorAccepted(class, op) ==
    /\ op # Wrong
    /\ BooleanIn(op, {"defined", "comparePointers", "custom", "customInequality"})
    /\ ListedAccepted(class, op, "comparedProperties", "comparator")

FillEqualityOperator(class, op) ==
    LET listed == op.comparedProperties
        compared == IF "comparedProperties" \in DOMAIN op
                    THEN [k \in DOMAIN listed |->
                            listed[k] ?? [useGetter |-> ~Named(class, listed[k].name).hasMemberVar,
                                          comparator |-> TypePropEqOp(Named(class, listed[k].name).type)]]
                    ELSE EqualityOperatorComparedProperties(class)
    IN  [comparedProperties |-> compared] ?? op ??
        [defined |-> ~class.static, comparePointers |-> ~class.copyable, custom |-> FALSE, customInequality |-> FALSE]

HashOperatorHashedProperties(class, equality) ==
    [k \in DOMAIN equality.comparedProperties |->
        LET e == equality.comparedProperties[k]
        IN  [name |-> e.name, useGetter |-> e.useGetter, hasher |-> TypePropHasher(Named(class, e.name).type)]]

HashOperatorAccepted(class, equality, op) ==
    /\ op # Wrong
    /\ BooleanIn(op, {"defined", "usePointerAsHash", "custom"})
    /\ "hashedProperties" \in DOMAIN op =>
        \A k \in DOMAIN op.hashedProperties :
            LET e == op.hashedProperties[k]
            IN  /\ HasProperty(class, e)
                /\ ~Named(class, e.name).static
                /\ \/ "useGetter" \in DOMAIN e
                   \/ Places(equality.comparedProperties, e.name) # {}
                   \/ Readable(Named(class, e.name))
                /\ BooleanIn(e, {"useGetter"})
                /\ "hasher" \in DOMAIN e => e.hasher # Wrong

FillHashedProperty(class, equality, e) ==
    LET compared == equality.comparedProperties
    IN  e ?? [useGetter |-> IF Places(compared, e.name) # {} THEN compared[FirstPlace(compared, e.name)].useGetter
                            ELSE ~Named(class, e.name).hasMemberVar,
              hasher |-> TypePropHasher(Named(class, e.name).type)]

\* `given' says whether there is a hashOperator at all: without one, custom is false.
FillHashOperator(class, equality, given, op) ==
    LET hashed == IF "hashedProperties" \in DOMAIN op
                  THEN [k \in DOMAIN op.hashedProperties |-> FillHashedProperty(class, equality, op.hashedProperties[k])]
                  ELSE HashOperatorHashedProperties(class, equality)
    IN  [hashedProperties |-> hashed] ?? op ??
        [defined |-> equality.defined, usePointerAsHash |-> equality.comparePointers,
         custom |-> given /\ equality.custom]

ToStringOperatorAccepted(op) == op # Wrong /\ BooleanIn(op, {"defined", "custom"})

FillToStringOperator(class, op) == op ?? [defined |-> ~class.static, custom |-> FALSE]

(***************************************************************************)
(* The whole description, in the order of generate(): every operator is    *)
(* given the class with the options before it filled in.                   *)
(***************************************************************************)
Empty == [k \in {} |-> {}]

Given(json, key) == IF key \in DOMAIN json THEN json[key] ELSE Empty

FillClass(json) ==
    LET c == json ?? [static |-> FALSE, properties |-> <<>>, aliases |-> <<>>]
    IN  c ?? [final |-> c.static, copyable |-> ~c.static, movable |-> ~c.static]

FillProperties(class) ==
    [class EXCEPT !.properties = [k \in DOMAIN class.properties |-> FillProperty(class, class.properties[k])]]

ClassAccepted(json) ==
    /\ "name" \in DOMAIN json /\ json.name # Wrong
    /\ BooleanIn(json, {"static", "final", "copyable", "movable", "c.generateFuncAliasDefines"})
    /\ "aliases" \in DOMAIN json => json.aliases # Wrong
    /\ "headerGuardName" \in DOMAIN json => json.headerGuardName # Wrong
    /\ "properties" \in DOMAIN json => /\ json.properties # Wrong
                                       /\ \A k \in DOMAIN json.properties : PropertyAccepted(json.properties[k])

FillConstructors(class) ==
    [parameterlessConstructor |-> FillConstructor(class, Given(class, "parameterlessConstructor"), "parameterless"),
     copyConstructor |-> FillConstructor(class, Given(class, "copyConstructor"), "copy"),
     moveConstructor |-> FillConstructor(class, Given(class, "moveConstructor"), "move"),
     destructor |-> FillDestructor(Given(class, "destructor"))] ?? class

ConstructorsAccepted(class) ==
    /\ \A key \in {"parameterlessConstructor", "copyConstructor", "moveConstructor"} :
            ConstructorAccepted(class, Given(class, key))
    /\ DestructorAccepted(Given(class, "destructor"))

FillOperators(class) ==
    LET equality == FillEqualityOperator(class, Given(class, "equalityOperator"))
    IN  [equalityOperator |-> equality,
         hashOperator |-> FillHashOperator(class, equality, "hashOperator" \in DOMAIN class, Given(class, "hashOperator")),
         toStringOperator |-> FillToStringOperator(class, Given(class, "toStringOperator"))] ?? class

OperatorsAccepted(class) ==
    /\ EqualityOperatorAccepted(class, Given(class, "equalityOperator"))
    /\ HashOperatorAccepted(class, FillEqualityOperator(class, Given(class, "equalityOperator")),
                            Given(class, "hashOperator"))
    /\ ToStringOperatorAccepted(Given(class, "toStringOperator"))

\* Filling throws at the first option it does not accept.
Accepted(json) ==
    /\ json # Wrong
    /\ ClassAccepted(json)
    /\ LET class == FillProperties(FillClass(json))
       IN  ConstructorsAccepted(class) /\ OperatorsAccepted(class)

Filled(json) == FillOperators(FillConstructors(FillProperties(FillClass(json))))
============================================================================
