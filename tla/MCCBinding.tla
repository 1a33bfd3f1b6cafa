------------------------------ MODULE MCCBinding ------------------------------
EXTENDS CBinding, TLC

Holder(type, options) ==
    options @@ [name |-> "Holder", properties |-> <<[name |-> "p", type |-> type, of |-> "Item"]>>]

MCOptions ==
    { Empty,
      [copyable |-> FALSE],
      [copyConstructor |-> [initializedProperties |-> <<>>]],
      [copyConstructor |-> [codeBack |-> <<"line">>]],
      [equalityOperator |-> [comparePointers |-> TRUE]],
      [parameterlessConstructor |-> [visibility |-> "somewhere"]] }

MCTypes == KnownTypes \ {"primitive"}

MCDescriptions == {Holder(type, options) : type \in MCTypes, options \in MCOptions}

MCSymmetry == Permutations(Holders) \cup Permutations(Items) \cup Permutations(Refs)
=============================================================================
