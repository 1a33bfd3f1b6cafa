------------------------------ MODULE Bindings ------------------------------
(***************************************************************************)
(* What the generated files of a class declare, define and use of each     *)
(* other (src/sdk/gentool/generator-*.js).  A symbol is a pair of what it  *)
(* is and of which property (NoName if of none); what a file declares,     *)
(* defines or uses is a set of symbols.  The class of a property whose     *)
(* type is a class is p.of.                                                *)
(***************************************************************************)
EXTENDS Interface, FiniteSets

NoName == ""
Sole(what) == {<<what, NoName>>}
ForEach(class, what, Test(_)) ==
    {<<what, class.properties[k].name>> : k \in {j \in DOMAIN class.properties : Test(class.properties[j])}}

When(condition, symbols) == IF condition THEN symbols ELSE {}

HasPublicGetter(p) == p.hasGetter /\ p.getterVisibility = "public"
HasPublicSetter(p) == p.hasSetter /\ p.setterVisibility = "public"
PassedByValue(type) == type \in {"CLASS", "CLASS_PTR"}
Freed(type) == type = "string" \/ PassedByValue(type)

(***************************************************************************)
(* C                                                                       *)
(***************************************************************************)
CCreate(class) == ~class.static /\ class.parameterlessConstructor.definition # "deleted"
CDuplicate(class) == ~class.static /\ class.copyable /\ class.copyConstructor.definition # "deleted"

COperators(class) ==
    When(class.equalityOperator.defined, Sole("equals")) \cup
    When(class.hashOperator.defined, Sole("hash")) \cup
    When(class.toStringOperator.defined, Sole("to_string") \cup Sole("to_string_free"))

CRef(class) ==
    When(~class.static, Sole("ref_make") \cup Sole("ref_clone") \cup Sole("ref_get") \cup Sole("ref_delete"))

CHeaderConstructors(class) ==
    When(CCreate(class) /\ class.parameterlessConstructor.visibility = "public", Sole("create")) \cup
    When(CDuplicate(class) /\ class.copyConstructor.visibility = "public", Sole("duplicate")) \cup
    When(~class.static, Sole("destroy"))

CHeaderProperties(class) ==
    ForEach(class, "get", HasPublicGetter) \cup
    ForEach(class, "get_free", LAMBDA p : HasPublicGetter(p) /\ Freed(p.type)) \cup
    ForEach(class, "set", HasPublicSetter)

CHeader(class) ==
    CHeaderConstructors(class) \cup COperators(class) \cup CHeaderProperties(class) \cup CRef(class)

\* Mutant: what is declared for a getter and what is defined differ for pointers.
CSourceGettersNoPointer(class) ==
    ForEach(class, "get", HasPublicGetter) \cup
    ForEach(class, "get_free", LAMBDA p : HasPublicGetter(p) /\ p.type \in {"string", "CLASS"})

CSourceGetters(class) ==
    ForEach(class, "get", HasPublicGetter) \cup
    ForEach(class, "get_free", LAMBDA p : HasPublicGetter(p) /\ Freed(p.type))

CSource(class) ==
    When(CCreate(class), Sole("create")) \cup When(CDuplicate(class), Sole("duplicate")) \cup
    When(~class.static, Sole("destroy")) \cup
    COperators(class) \cup CSourceGetters(class) \cup ForEach(class, "set", HasPublicSetter) \cup CRef(class)

\* Of the C++ class that it wraps.
CSourceUses(class) ==
    When(CCreate(class), Sole("constructor")) \cup When(CDuplicate(class), Sole("copy constructor")) \cup
    When(~class.static, Sole("destructor")) \cup
    When(class.equalityOperator.defined, Sole("operator==")) \cup
    When(class.hashOperator.defined, Sole("std::hash")) \cup
    When(class.toStringOperator.defined, Sole("operator std::string")) \cup
    ForEach(class, "getter", HasPublicGetter) \cup ForEach(class, "setter", HasPublicSetter)

\* Of the C header of the class of a property.
CSourceUsesOf(p) ==
    When(HasPublicGetter(p) /\ p.type = "CLASS", Sole("duplicate") \cup Sole("destroy")) \cup
    When(HasPublicGetter(p) /\ p.type = "CLASS_PTR", Sole("ref_clone") \cup Sole("ref_delete")) \cup
    When(HasPublicSetter(p) /\ p.type \in {"CLASS", "CLASS_MIX"}, Sole("destroy")) \cup
    When(HasPublicSetter(p) /\ p.type \in {"CLASS_PTR", "CLASS_PTR_MIX"}, Sole("ref_delete"))

(***************************************************************************)
(* C++                                                                     *)
(***************************************************************************)
\* Declared, and not deleted.
Written(ctor) == ctor.definition \in {"defined", "default"}

CXXHeaderConstructors(class) ==
    When(Written(class.parameterlessConstructor), Sole("constructor")) \cup
    When(Written(class.copyConstructor), Sole("copy constructor") \cup Sole("copy assignment")) \cup
    When(Written(class.moveConstructor), Sole("move constructor") \cup Sole("move assignment")) \cup
    When(class.destructor.definition # "omitted", Sole("destructor"))

CXXHeaderOperators(class) ==
    When(class.equalityOperator.defined, Sole("operator==") \cup Sole("operator!=")) \cup
    When(class.hashOperator.defined, Sole("std::hash")) \cup
    When(class.toStringOperator.defined, Sole("operator std::string") \cup Sole("operator<<"))

CXXHeaderProperties(class) ==
    ForEach(class, "static member", LAMBDA p : p.static /\ p.hasMemberVar) \cup
    ForEach(class, "getter", LAMBDA p : p.hasGetter) \cup
    ForEach(class, "setter", LAMBDA p : p.hasSetter)

\* What the header declares that a source file has to define.
CXXHeader(class) == CXXHeaderConstructors(class) \cup CXXHeaderOperators(class) \cup CXXHeaderProperties(class)

CXXSourceConstructors(class) ==
    LET copy == class.copyConstructor
        move == class.moveConstructor
    IN  When(~class.parameterlessConstructor.custom /\ Written(class.parameterlessConstructor), Sole("constructor")) \cup
        When(~copy.custom /\ Written(copy), Sole("copy constructor")) \cup
        When(~copy.customOperator /\ Written(copy), Sole("copy assignment")) \cup
        When(~move.custom /\ Written(move), Sole("move constructor")) \cup
        When(~move.customOperator /\ Written(move), Sole("move assignment")) \cup
        When(~class.destructor.custom /\ class.destructor.definition # "omitted", Sole("destructor"))

CXXSourceOperators(class) ==
    LET equality == class.equalityOperator
        text == class.toStringOperator
    IN  When(equality.defined /\ ~equality.custom, Sole("operator==")) \cup
        When(equality.defined /\ ~equality.customInequality, Sole("operator!=")) \cup
        When(text.defined, Sole("operator std::string")) \cup
        When(text.defined /\ ~text.custom, Sole("operator<<")) \cup
        When(class.hashOperator.defined /\ ~class.hashOperator.custom, Sole("std::hash"))

CXXSourceProperties(class) ==
    ForEach(class, "static member", LAMBDA p : p.static) \cup
    ForEach(class, "getter", LAMBDA p : p.hasGetter /\ ~p.getterCustom) \cup
    ForEach(class, "setter", LAMBDA p : p.hasSetter /\ ~p.setterCustom)

CXXSource(class) == CXXSourceConstructors(class) \cup CXXSourceOperators(class) \cup CXXSourceProperties(class)

\* The entries of the lists that the definitions take their member variables from.
InitializedEntries(class) ==
    UNION {When(ctor.definition = "defined" /\ ~ctor.custom, ToSet(ctor.initializedProperties)) :
           ctor \in {class.parameterlessConstructor, class.copyConstructor, class.moveConstructor}}

ComparedEntries(class) ==
    LET equality == class.equalityOperator
    IN  When(equality.defined /\ ~equality.custom /\ ~equality.comparePointers,
             {e \in ToSet(equality.comparedProperties) : ~e.useGetter})

HashedEntries(class) ==
    LET hash == class.hashOperator
    IN  When(hash.defined /\ ~hash.custom /\ ~hash.usePointerAsHash,
             {e \in ToSet(hash.hashedProperties) : ~e.useGetter})

\* The member variables that the definitions name.
CXXSourceMembers(class) ==
    ForEach(class, "member", LAMBDA p : p.hasGetter /\ ~p.getterCustom) \cup
    ForEach(class, "member", LAMBDA p : p.hasSetter /\ ~p.setterCustom) \cup
    {<<"member", e.name>> : e \in InitializedEntries(class) \cup ComparedEntries(class) \cup HashedEntries(class)}

\* Getting a copy, or setting from a reference, may throw.
CXXThrowing(class) ==
    ForEach(class, "getter", LAMBDA p : p.hasGetter /\ ~p.getterCustom /\ p.getterNoexcept
                                        /\ ~IsPrimitiveType(p.type) /\ ~GetterByReference(p.type)) \cup
    ForEach(class, "setter", LAMBDA p : p.hasSetter /\ ~p.setterCustom /\ p.setterNoexcept
                                        /\ ~IsPrimitiveType(p.type) /\ SetterByReference(p.type))

(***************************************************************************)
(* Web                                                                     *)
(***************************************************************************)
\* What embind is told of the class.  It can hand out the class's objects
\* only if it was told of their smart pointer.
WebCXX(class) ==
    When(CCreate(class) \/ CDuplicate(class), Sole("smart_ptr")) \cup
    When(CCreate(class) /\ class.parameterlessConstructor.visibility = "public", Sole("constructor")) \cup
    When(CDuplicate(class) /\ class.copyConstructor.visibility = "public",
         Sole("copy constructor") \cup Sole("duplicate")) \cup
    When(class.equalityOperator.defined, Sole("equals")) \cup
    When(class.hashOperator.defined, Sole("hash")) \cup
    When(class.toStringOperator.defined, Sole("toString")) \cup
    ForEach(class, "getter", HasPublicGetter) \cup ForEach(class, "setter", HasPublicSetter)

WebCXXUses(class) ==
    (WebCXX(class) \cap (Sole("constructor") \cup Sole("copy constructor"))) \cup
    When(class.equalityOperator.defined, Sole("operator==")) \cup
    When(class.hashOperator.defined, Sole("std::hash")) \cup
    When(class.toStringOperator.defined, Sole("operator std::string")) \cup
    ForEach(class, "getter", HasPublicGetter) \cup ForEach(class, "setter", HasPublicSetter)

\* What the builder function of the class makes properties of.
WebJSUses(class) == ForEach(class, "getter", HasPublicGetter) \cup ForEach(class, "setter", HasPublicSetter)

(***************************************************************************)
(* Apple                                                                   *)
(***************************************************************************)
ObjCMade(class) == CCreate(class) /\ class.parameterlessConstructor.visibility = "public"
ObjCCopied(class) == CDuplicate(class) /\ class.copyConstructor.visibility = "public"

ObjCOperators(class) ==
    When(class.equalityOperator.defined, Sole("isEqual")) \cup
    When(class.hashOperator.defined, Sole("hash")) \cup
    When(class.toStringOperator.defined, Sole("description"))

ObjCHeader(class) ==
    When(ObjCMade(class), Sole("init")) \cup
    When(ObjCCopied(class), Sole("initWith") \cup Sole("copyWithZone")) \cup
    When(~class.static, Sole("dealloc") \cup Sole("initWithManaged") \cup Sole("initWithNative") \cup
                        Sole("managed") \cup Sole("native")) \cup
    ObjCOperators(class) \cup
    ForEach(class, "getter", HasPublicGetter) \cup ForEach(class, "setter", HasPublicSetter)

ObjCSource(class) ==
    When(CCreate(class), Sole("init")) \cup
    When(CDuplicate(class), Sole("initWith") \cup Sole("copyWithZone")) \cup
    When(~class.static, Sole("dealloc") \cup Sole("initWithManaged") \cup Sole("initWithNative") \cup
                        Sole("managed") \cup Sole("native")) \cup
    ObjCOperators(class) \cup
    ForEach(class, "getter", HasPublicGetter) \cup ForEach(class, "setter", HasPublicSetter)

\* The Objective-C class wraps the same C++ members as the C functions.
ObjCSourceUses(class) == CSourceUses(class)

\* Of the Objective-C header of the class of a property.
ObjCSourceUsesOf(p) ==
    When(HasPublicGetter(p) /\ p.type \in ValueTypes, Sole("initWithNative")) \cup
    When(HasPublicGetter(p) /\ p.type \in PtrTypes, Sole("initWithManaged")) \cup
    When(HasPublicSetter(p) /\ p.type \in ValueTypes, Sole("native")) \cup
    When(HasPublicSetter(p) /\ p.type \in PtrTypes, Sole("managed"))

SwiftUses(class) == ForEach(class, "getter", HasPublicGetter) \cup ForEach(class, "setter", HasPublicSetter)
=============================================================================
