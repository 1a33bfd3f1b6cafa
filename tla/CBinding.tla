----------------------------- MODULE CBinding -----------------------------
(***************************************************************************)
(* A C program that uses a generated class (src/sdk/gentool/generator-c.js *)
(* and the class it wraps, generator-cxx.js).  The class has one property, *)
(* p, and is called the holder; if the property is of a class type, items  *)
(* are the objects of that class, else they are strings on the heap.       *)
(*                                                                         *)
(* C has no destructors: who has to dispose of what is only said by names. *)
(* A getter's result is the caller's if there is a `_free' for it, and an  *)
(* argument that ends in `_consumed' is not the caller's any more.  The    *)
(* program below keeps to the names; the model tells whether the code of   *)
(* the functions does.                                                     *)
(***************************************************************************)
EXTENDS Interface, FiniteSets

CONSTANTS Descriptions,        \* descriptions of the holder's class
          Holders, Items, Refs,    \* addresses; a Ref is a std::shared_ptr on the heap
          Values, Initial,     \* what an item may hold, and holds when it is created
          Null

ASSUME InitialAssumption == Initial \in Values
ASSUME AddressAssumption == /\ Holders \cap Items = {} /\ Holders \cap Refs = {} /\ Items \cap Refs = {}
                            /\ Null \notin Holders \cup Items \cup Refs
                            /\ Null \notin Values /\ Values \cap Items = {}

\* What the copy constructor does with the member variable of the first property:
\* "= default" copies it, one with a body only does what its list says.
HowCopied(holder) ==
    LET c == holder.copyConstructor
        name == holder.properties[1].name
    IN  IF c.definition = "default" THEN "member"
        ELSE IF Places(c.initializedProperties, name) = {} THEN ""
        ELSE c.initializedProperties[FirstPlace(c.initializedProperties, name)].value

\* Only pointers have a pointee, and an object has its property in a member variable.
ASSUME DescriptionsAssumption ==
    \A d \in Descriptions : Accepted(d) =>
        LET holder == Filled(d)
            p == holder.properties[1]
        IN  /\ DOMAIN holder.properties = {1}
            /\ p.type \in KnownTypes \ {"primitive"}
            /\ holder.static \/ (~p.static /\ p.hasMemberVar)
            /\ HowCopied(holder) = "pointee" => p.type \in PtrTypes

VARIABLES description,    \* of the holder's class
          class,      \* the same, filled in
          alive,      \* allocated and not deleted
          gone,       \* deleted
          slot,       \* member variable of a holder: a value, or the item it points to
          value,      \* of an item
          to,         \* what a Ref points to
          owned,      \* what the program has to dispose of, by the names
          borrowed,   \* holders into which the program keeps a pointer from a getter without `_free'
          lost,       \* arguments of a setter that was called without a holder
          twins,      \* <<g, h>>: h is a duplicate of g, and neither was changed since
          crashed     \* a null pointer was dereferenced

vars == <<description, class, alive, gone, slot, value, to, owned, borrowed, lost, twins, crashed>>

Property == class.properties[1]
Type == Property.type

CTypeOK ==
    /\ description \in Descriptions /\ Type \in KnownTypes \ {"primitive"}
    /\ alive \subseteq Holders \cup Items \cup Refs
    /\ gone \subseteq Holders \cup Items \cup Refs /\ gone \cap alive = {}
    /\ slot \in [Holders -> Values \cup Items \cup {Null}]
    /\ value \in [Items -> Values]
    /\ to \in [Refs -> Items \cup {Null}]
    /\ owned \subseteq Holders \cup Items \cup Refs
    /\ borrowed \subseteq Holders \cup {Null}
    /\ lost \subseteq Items \cup Refs
    /\ twins \subseteq Holders \X Holders
    /\ crashed \in BOOLEAN

(***************************************************************************)
(* The generated class                                                     *)
(***************************************************************************)
DefaultSlot == IF Type \in PtrTypes THEN Null ELSE Initial

CopiedHow == HowCopied(class)

Pointee(s) == IF s \in Items THEN value[s] ELSE s

\* operator== of two holders, and the hash of one.
Equal(g, h) ==
    IF class.equalityOperator.comparePointers THEN g = h
    ELSE \A k \in DOMAIN class.equalityOperator.comparedProperties :
            IF class.equalityOperator.comparedProperties[k].comparator = "pointee"
            THEN Pointee(slot[g]) = Pointee(slot[h]) ELSE slot[g] = slot[h]

Hash(h) ==
    IF class.hashOperator.usePointerAsHash THEN <<h>>
    ELSE [k \in DOMAIN class.hashOperator.hashedProperties |->
            IF class.hashOperator.hashedProperties[k].hasher = "pointee" THEN Pointee(slot[h]) ELSE slot[h]]

(***************************************************************************)
(* Memory                                                                  *)
(***************************************************************************)
Fresh(S) == S \ (alive \cup gone)

Live(S) == S \cap alive

\* The std::shared_ptr's to an item.
Pointers(i) == {h \in Live(Holders) : slot[h] = i} \cup {r \in Live(Refs) : to[r] = i}

\* Items to which the last pointer goes when the memory becomes alive2, slot2, to2.
Orphans(alive2, slot2, to2) ==
    {i \in Live(Items) : /\ Pointers(i) # {}
                         /\ \A h \in Holders \cap alive2 : slot2[h] # i
                         /\ \A r \in Refs \cap alive2 : to2[r] # i}

\* The functions change holders and Refs, delete what is in `deleted', allocate
\* what is in `new', and with a last pointer its item is deleted.
Memory(new, deleted, slot2, to2) ==
    LET kept == (alive \cup new) \ deleted
        orphans == Orphans(kept, slot2, to2)
    IN  /\ alive' = kept \ orphans
        /\ gone' = gone \cup deleted \cup orphans
        /\ slot' = slot2
        /\ to' = to2

Forget(h) == twins' = {t \in twins : h \notin {t[1], t[2]}}

(***************************************************************************)
(* Functions of the item's class                                           *)
(***************************************************************************)
ItemCreate ==
    /\ ~crashed
    /\ \E i \in Fresh(Items) :
        /\ Memory({i}, {}, slot, to)
        /\ value' = [value EXCEPT ![i] = Initial]
        /\ owned' = owned \cup {i}
        /\ UNCHANGED <<description, class, borrowed, lost, twins, crashed>>

ItemDestroy ==
    \E i \in owned \cap Items :
        /\ Memory({}, {i}, slot, to)
        /\ owned' = owned \ {i}
        /\ UNCHANGED <<description, class, value, borrowed, lost, twins, crashed>>

\* A setter of the item, through the program's pointer or one that _ref_get gave it.
ItemSet ==
    \E i \in Live(Items), v \in Values :
        /\ \/ i \in owned
           \/ \E r \in owned \cap Refs : to[r] = i
           \/ Type \in PtrTypes /\ \E h \in borrowed \ {Null} : slot[h] = i
        /\ value[i] # v
        /\ value' = [value EXCEPT ![i] = v]
        /\ twins' = {t \in twins : i \notin {slot[t[1]], slot[t[2]]}}
        /\ UNCHANGED <<description, class, alive, gone, slot, to, owned, borrowed, lost, crashed>>

\* _ref_make takes the item over: from now on the last pointer deletes it.
RefMake ==
    /\ Type \in PtrTypes
    /\ \E i \in owned \cap Items, r \in Fresh(Refs) :
        /\ Memory({r}, {}, slot, [to EXCEPT ![r] = i])
        /\ owned' = (owned \ {i}) \cup {r}
        /\ UNCHANGED <<description, class, value, borrowed, lost, twins, crashed>>

RefClone ==
    \E r \in owned \cap Refs, s \in Fresh(Refs) :
        /\ Memory({s}, {}, slot, [to EXCEPT ![s] = to[r]])
        /\ owned' = owned \cup {s}
        /\ UNCHANGED <<description, class, value, borrowed, lost, twins, crashed>>

RefDelete ==
    \E r \in owned \cap Refs :
        /\ Memory({}, {r}, slot, to)
        /\ owned' = owned \ {r}
        /\ UNCHANGED <<description, class, value, borrowed, lost, twins, crashed>>

(***************************************************************************)
(* Functions of the holder's class                                         *)
(***************************************************************************)
Constructible(ctor) == ~class.static /\ ctor.definition # "deleted" /\ ctor.visibility = "public"

HolderCreate ==
    /\ ~crashed /\ Constructible(class.parameterlessConstructor)
    /\ \E h \in Fresh(Holders) :
        /\ Memory({h}, {}, [slot EXCEPT ![h] = DefaultSlot], to)
        /\ owned' = owned \cup {h}
        /\ UNCHANGED <<description, class, value, borrowed, lost, twins, crashed>>

\* To copy a pointee is to dereference the pointer.
HolderDuplicate ==
    /\ Constructible(class.copyConstructor) /\ class.copyable
    /\ \E g \in owned \cap Holders, h \in Fresh(Holders) :
        /\ IF CopiedHow = "pointee"
           THEN \E i \in Fresh(Items) :
                    /\ slot[g] # Null
                    /\ Memory({h, i}, {}, [slot EXCEPT ![h] = i], to)
                    /\ value' = [value EXCEPT ![i] = value[slot[g]]]
           ELSE /\ Memory({h}, {}, [slot EXCEPT ![h] = IF CopiedHow = "member" THEN slot[g] ELSE DefaultSlot], to)
                /\ UNCHANGED value
        /\ owned' = owned \cup {h}
        /\ twins' = twins \cup {<<g, h>>}
        /\ UNCHANGED <<description, class, borrowed, lost, crashed>>

\* The program dies.
DuplicateNull ==
    /\ Constructible(class.copyConstructor) /\ class.copyable
    /\ CopiedHow = "pointee"
    /\ \E g \in owned \cap Holders : slot[g] = Null
    /\ crashed' = TRUE
    /\ alive' = {} /\ owned' = {} /\ borrowed' = {} /\ lost' = {} /\ twins' = {}
    /\ UNCHANGED <<description, class, gone, slot, value, to>>

HolderDestroy ==
    /\ ~class.static
    /\ \E h \in owned \cap Holders :
        /\ Memory({}, {h}, slot, to)
        /\ owned' = owned \ {h}
        /\ borrowed' = borrowed \ {h}
        /\ Forget(h)
        /\ UNCHANGED <<description, class, value, lost, crashed>>

HasPublicGetter == Property.hasGetter /\ Property.getterVisibility = "public" /\ ~Property.static
HasPublicSetter == Property.hasSetter /\ Property.setterVisibility = "public" /\ ~Property.static

\* The names: a getter with a `_free' of its own, an argument that is `_consumed'.
GetterFree(type) == type \in {"string", "CLASS", "CLASS_PTR"}
\* Mutant: only what is passed by value has the suffix.
SetterConsumedByValue(type) == type \in {"CLASS", "CLASS_PTR"}

SetterConsumed(type) == type \in {"CLASS", "CLASS_MIX", "CLASS_PTR", "CLASS_PTR_MIX"}

\* Mutant: a mix is moved from and left to nobody.
SetterDeletesByValue(type) == type \in {"CLASS", "CLASS_PTR"}

\* The code: what is wrapped in a std::unique_ptr, which deletes it at the end.
SetterDeletes(type) == type \in {"CLASS", "CLASS_MIX", "CLASS_PTR", "CLASS_PTR_MIX"}

\* A getter that allocates: a copy of the string or the item, or of the pointer.
GetterAllocates ==
    /\ HasPublicGetter /\ Type \in {"string", "CLASS", "CLASS_PTR"}
    /\ \E h \in owned \cap Holders, n \in Fresh(IF Type = "CLASS_PTR" THEN Refs ELSE Items) :
        /\ IF Type = "CLASS_PTR"
           THEN Memory({n}, {}, slot, [to EXCEPT ![n] = slot[h]]) /\ UNCHANGED value
           ELSE Memory({n}, {}, slot, to) /\ value' = [value EXCEPT ![n] = slot[h]]
        /\ owned' = IF GetterFree(Type) THEN owned \cup {n} ELSE owned
        /\ UNCHANGED <<description, class, borrowed, lost, twins, crashed>>

\* Mutant: the address of what the member variable points to.
GetterBorrowsPointee ==
    /\ HasPublicGetter /\ Type \notin {"string", "CLASS", "CLASS_PTR"}
    /\ \E h \in owned \cap Holders :
        /\ borrowed' = borrowed \cup {slot[h]}
        /\ UNCHANGED <<description, class, alive, gone, slot, value, to, owned, lost, twins, crashed>>

\* A getter that returns the address of what the C++ getter returns: of the
\* member variable, if that returns a reference, else of a temporary.
GetterBorrows ==
    /\ HasPublicGetter /\ Type \notin {"string", "CLASS", "CLASS_PTR"}
    /\ \E h \in owned \cap Holders :
        /\ borrowed' = borrowed \cup {IF GetterByReference(Type) THEN h ELSE Null}
        /\ UNCHANGED <<description, class, alive, gone, slot, value, to, owned, lost, twins, crashed>>

\* c_str() of a string is good until the string changes; the program knows.
StillBorrowed(h) == IF Type \in StringTypes THEN borrowed \ {h} ELSE borrowed

Setter ==
    /\ HasPublicSetter
    /\ \E h \in owned \cap Holders, x \in owned \cap (IF Type \in PtrTypes THEN Refs ELSE Items) :
        /\ Memory({}, IF SetterDeletes(Type) THEN {x} ELSE {},
                  [slot EXCEPT ![h] = IF Type \in PtrTypes THEN to[x] ELSE value[x]], to)
        /\ owned' = IF SetterConsumed(Type) THEN owned \ {x} ELSE owned
        /\ borrowed' = StillBorrowed(h)
        /\ Forget(h)
        /\ UNCHANGED <<description, class, value, lost, crashed>>

\* Without an argument a string becomes empty, and nothing else changes.
SetterNoArgument ==
    /\ HasPublicSetter /\ Type \in StringTypes
    /\ \E h \in owned \cap Holders :
        /\ slot' = [slot EXCEPT ![h] = Initial]
        /\ borrowed' = StillBorrowed(h)
        /\ Forget(h)
        /\ UNCHANGED <<description, class, alive, gone, value, to, owned, lost, crashed>>

\* Without a holder the setter returns before it wraps its argument.
SetterNoHolder ==
    /\ HasPublicSetter /\ SetterConsumed(Type)
    /\ \E x \in owned \cap (IF Type \in PtrTypes THEN Refs ELSE Items) :
        /\ owned' = owned \ {x}
        /\ lost' = lost \cup {x}
        /\ UNCHANGED <<description, class, alive, gone, slot, value, to, borrowed, twins, crashed>>

CInit ==
    /\ description \in {d \in Descriptions : Accepted(d)}
    /\ class = Filled(description)
    /\ alive = {} /\ gone = {}
    /\ slot = [h \in Holders |-> Null]
    /\ value = [i \in Items |-> Initial]
    /\ to = [r \in Refs |-> Null]
    /\ owned = {} /\ borrowed = {} /\ lost = {}
    /\ twins = {}
    /\ crashed = FALSE

CNext ==
    \/ ItemCreate \/ ItemDestroy \/ ItemSet \/ RefMake \/ RefClone \/ RefDelete
    \/ HolderCreate \/ HolderDuplicate \/ DuplicateNull \/ HolderDestroy
    \/ GetterAllocates \/ GetterBorrows \/ Setter \/ SetterNoArgument \/ SetterNoHolder

CSpec == CInit /\ [][CNext]_vars

(***************************************************************************)
(* Properties                                                              *)
(***************************************************************************)
\* What the program has to dispose of is still there: no function deletes what
\* its name leaves to the program.
OwnedIsAlive == owned \subseteq alive

\* What is there is disposed of by somebody: by the program, or by the last
\* pointer.  Only what is passed to a setter without a holder is lost.
NothingLeaks ==
    \A x \in alive \ lost : (x \in owned) # (x \in Items /\ Pointers(x) # {})

\* A pointer of a getter without `_free' points into a holder that is there.
BorrowedIsAlive == borrowed \subseteq alive

\* What is copied, and how, is left to be inferred.  (A list that leaves a pointer
\* out lets the constructor be "= default", which copies the pointer.)
CopyInferred ==
    "copyConstructor" \in DOMAIN description =>
        {"initializedProperties", "definition"} \cap DOMAIN description.copyConstructor = {}

\* What is compared and hashed, and how, is left to be inferred too.
EqualityInferred ==
    "equalityOperator" \in DOMAIN description => "comparedProperties" \notin DOMAIN description.equalityOperator

HashInferred ==
    "hashOperator" \in DOMAIN description =>
        {"hashedProperties", "usePointerAsHash"} \cap DOMAIN description.hashOperator = {}

\* A duplicate equals what it was copied from until one of them is changed, and
\* holders that are equal have equal hashes, however they are compared: they may
\* go into one hash table.
EqualityIsSound ==
    /\ CopyInferred /\ EqualityInferred /\ ~class.equalityOperator.comparePointers =>
        \A t \in twins : Equal(t[1], t[2])
    /\ HashInferred => \A g, h \in Live(Holders) : Equal(g, h) => Hash(g) = Hash(h)

\* A duplicate has nothing in common with what it was copied from: changing the
\* one never changes the other.
TwinsAreApart ==
    CopyInferred => \A t \in twins : slot[t[1]] = slot[t[2]] => slot[t[1]] \notin Items

============================================================================
