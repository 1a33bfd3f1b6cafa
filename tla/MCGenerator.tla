---------------------------- MODULE MCGenerator ----------------------------
(***************************************************************************)
(* Two interfaces, Leaf and Tree, of which Tree refers to Leaf, with the   *)
(* shapes of description that the generator tells apart.                   *)
(***************************************************************************)
EXTENDS Generator

MCDirectory == <<"Leaf", "Tree">>

Value(name) == [name |-> name, type |-> "primitive"]

\* interface/Vector2.json: Length is computed by hand.
Vector == [name |-> "Leaf",
           toStringOperator |-> [custom |-> TRUE],
           properties |-> <<Value("X"),
                            [name |-> "Length", type |-> "primitive", getterCustom |-> TRUE, hasSetter |-> FALSE,
                             hasMemberVar |-> FALSE, partOfIdentity |-> FALSE]>>]

\* An object that only its copies are made from.
Prototype == [name |-> "Leaf", properties |-> <<Value("X")>>,
              parameterlessConstructor |-> [visibility |-> "private"]]

Unique == [name |-> "Leaf", copyable |-> FALSE, properties |-> <<[name |-> "S", type |-> "string_ref"]>>]

Malformed == [name |-> "Leaf", static |-> Wrong]

\* interface/Tester.json, some of it.
Tester == [name |-> "Tree",
           properties |-> <<[name |-> "S", type |-> "string_ref", setterCustom |-> TRUE],
                            [name |-> "M", type |-> "string_mix", static |-> TRUE],
                            [name |-> "V", type |-> "CLASS", of |-> "Leaf"],
                            [name |-> "P", type |-> "CLASS_PTR", of |-> "Leaf"]>>]

\* The accessors are left to derived classes.
Abstract == [name |-> "Tree", copyConstructor |-> [customOperator |-> TRUE],
             properties |-> <<[name |-> "S", type |-> "string", getterMode |-> "pureVirtual",
                               setterMode |-> "pureVirtual"], Value("X")>>]

\* A member without accessors.
Hidden == [name |-> "Tree",
           properties |-> <<[name |-> "P", type |-> "CLASS_PTR_MIX", of |-> "Leaf",
                             hasGetter |-> FALSE, hasSetter |-> FALSE]>>]

\* A copy does not take the name over.
Blank == [name |-> "Tree", properties |-> <<[name |-> "S", type |-> "string"]>>,
          copyConstructor |-> [definition |-> "defined",
                               initializedProperties |-> <<[name |-> "S", value |-> ""]>>]]

Globals == [name |-> "Tree", static |-> TRUE, properties |-> <<[name |-> "S", type |-> "string"]>>]

MCDescriptions == [i \in {"Leaf", "Tree"} |->
    IF i = "Leaf" THEN {Vector, Prototype, Unique, Malformed} ELSE {Tester, Abstract, Hidden, Blank, Globals}]
=============================================================================
