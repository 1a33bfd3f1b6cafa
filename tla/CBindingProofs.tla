--------------------------- MODULE CBindingProofs ---------------------------
(***************************************************************************)
(* For any holders, items, Refs and descriptions of the holder's class: a  *)
(* C program that keeps to the names neither loses memory nor is left with *)
(* a pointer to what was deleted; and copies are equal to their originals, *)
(* have their hash, and share nothing with them.                           *)
(***************************************************************************)
EXTENDS CBinding, TLAPS

(* The class is what the generator made of a description it accepted. *)
ClassIsFilled == description \in Descriptions /\ Accepted(description) /\ class = Filled(description)

(* A member variable holds what its type says, from its holder's creation on. *)
SlotsFit ==
    \A h \in Holders :
        IF Type \in PtrTypes THEN slot[h] \in Items \cup {Null}
        ELSE slot[h] \in Values \cup {Null} /\ (h \in alive => slot[h] \in Values)

(* What has a pointer is there. *)
PointedIsAlive == \A i \in Items : Pointers(i) # {} => i \in alive

(* What was lost is there, and is nobody's. *)
LostIsLost == lost \subseteq alive \ owned /\ \A i \in lost \cap Items : Pointers(i) = {}

(* A getter's pointer is into a holder the program has. *)
BorrowedIsOwned == borrowed \subseteq owned \cap Holders

CInv ==
    /\ CTypeOK /\ ClassIsFilled /\ SlotsFit
    /\ OwnedIsAlive /\ NothingLeaks /\ PointedIsAlive /\ LostIsLost /\ BorrowedIsOwned

-----------------------------------------------------------------------------
(* What the assumption on descriptions says of the class at hand. *)
LEMMA ClassFacts ==
    ASSUME ClassIsFilled
    PROVE  Type \in KnownTypes \ {"primitive"} /\ (CopiedHow = "pointee" => Type \in PtrTypes)
  BY DescriptionsAssumption DEF ClassIsFilled, Type, Property, CopiedHow

(* The suffix of a setter's argument says whether the setter deletes it. *)
LEMMA ConsumedIsDeleted ==
    ASSUME NEW type
    PROVE  SetterConsumed(type) = SetterDeletes(type)
  BY DEF SetterConsumed, SetterDeletes

(* Every result that is allocated has a `_free', and a getter without one      *)
(* returns the address of a member variable.                                   *)
LEMMA GetterFacts ==
    ASSUME NEW type \in KnownTypes \ {"primitive"}
    PROVE  IF type \in {"string", "CLASS", "CLASS_PTR"} THEN GetterFree(type) ELSE GetterByReference(type)
  BY DEF KnownTypes, StringTypes, ClassTypes, ValueTypes, PtrTypes, GetterFree, GetterByReference

(* After a step, what had a pointer has one or is gone; nothing else goes but what *)
(* is deleted.                                                                    *)
LEMMA MemoryFacts ==
    ASSUME NEW new, NEW deleted, NEW slot2, NEW to2, Memory(new, deleted, slot2, to2)
    PROVE  /\ slot' = slot2 /\ to' = to2
           /\ \A h \in Holders \cup Refs : h \in alive' <=> h \in (alive \cup new) \ deleted
           /\ \A i \in Items : Pointers(i)' = {} <=>
                    /\ \A h \in Holders \cap alive' : slot2[h] # i
                    /\ \A r \in Refs \cap alive' : to2[r] # i
           /\ \A x : x \in alive' <=> /\ x \in (alive \cup new) \ deleted
                                      /\ ~(x \in Items \cap alive /\ Pointers(x) # {} /\ Pointers(x)' = {})
           /\ gone' = gone \cup ((alive \cup new) \ alive') \cup deleted
<1> DEFINE kept == (alive \cup new) \ deleted
           orphans == Orphans(kept, slot2, to2)
<1>1. /\ alive' = kept \ orphans /\ gone' = gone \cup deleted \cup orphans
      /\ slot' = slot2 /\ to' = to2
  BY DEF Memory
<1>2. orphans \subseteq Items
  BY DEF Orphans, Live
<1>3. \A h \in Holders \cup Refs : h \in alive' <=> h \in kept
  BY <1>1, <1>2, AddressAssumption
<1>4. \A i \in Items : Pointers(i)' = {} <=>
            /\ \A h \in Holders \cap alive' : slot2[h] # i
            /\ \A r \in Refs \cap alive' : to2[r] # i
  BY <1>1 DEF Pointers, Live
<1>5. \A i \in Items : i \in orphans <=> i \in alive /\ Pointers(i) # {} /\ Pointers(i)' = {}
  BY <1>3, <1>4 DEF Orphans, Live
<1>6. QED
  BY <1>1, <1>2, <1>3, <1>4, <1>5

LEMMA PointersBefore ==
    \A i \in Items : Pointers(i) = {} <=>
        /\ \A h \in Holders \cap alive : slot[h] # i
        /\ \A r \in Refs \cap alive : to[r] # i
  BY DEF Pointers, Live

(* What the steps that use memory have in common. *)
LEMMA MemoryTypes ==
    ASSUME CTypeOK, NEW new, NEW deleted, NEW slot2, NEW to2, Memory(new, deleted, slot2, to2),
           new \subseteq Holders \cup Items \cup Refs, new \cap gone = {},
           deleted \subseteq alive,
           slot2 \in [Holders -> Values \cup Items \cup {Null}], to2 \in [Refs -> Items \cup {Null}]
    PROVE  /\ alive' \subseteq Holders \cup Items \cup Refs
           /\ gone' \subseteq Holders \cup Items \cup Refs /\ gone' \cap alive' = {}
           /\ slot' \in [Holders -> Values \cup Items \cup {Null}] /\ to' \in [Refs -> Items \cup {Null}]
  BY MemoryFacts DEF CTypeOK

LEMMA ClassStays ==
    ASSUME UNCHANGED <<description, class>>
    PROVE  /\ Type' = Type /\ ClassIsFilled' = ClassIsFilled
           /\ \A s, i : DefaultSlot' = DefaultSlot
  BY DEF Type, Property, ClassIsFilled, DefaultSlot

(* A new item that is the program's, with a value. *)
LEMMA NewItemInv ==
    ASSUME CInv, NEW i \in Fresh(Items), NEW v \in Values,
           Memory({i}, {}, slot, to), value' = [value EXCEPT ![i] = v], owned' = owned \cup {i},
           UNCHANGED <<description, class, borrowed, lost, twins, crashed>>
    PROVE  CInv'
<1>1. i \in Items /\ i \notin alive /\ i \notin gone
  BY DEF Fresh
<1>2. /\ \A j \in Items : Pointers(j)' = {} <=> Pointers(j) = {}
      /\ alive' = alive \cup {i} /\ slot' = slot
  BY <1>1, MemoryFacts, PointersBefore, AddressAssumption
<1>3. Pointers(i) = {}
  BY <1>1 DEF CInv, PointedIsAlive
<1>4. CTypeOK' /\ ClassIsFilled'
  BY <1>1, MemoryTypes, ClassStays DEF CInv, CTypeOK
<1>5. SlotsFit'
  BY <1>1, <1>2, ClassStays, AddressAssumption DEF CInv, SlotsFit
<1>6. OwnedIsAlive' /\ LostIsLost' /\ BorrowedIsOwned' /\ PointedIsAlive'
  BY <1>1, <1>2 DEF CInv, OwnedIsAlive, LostIsLost, BorrowedIsOwned, PointedIsAlive
<1>7. NothingLeaks'
  BY <1>1, <1>2, <1>3 DEF CInv, NothingLeaks
<1>8. QED
  BY <1>4, <1>5, <1>6, <1>7 DEF CInv

LEMMA ItemCreateInv ==
    ASSUME CInv, ItemCreate
    PROVE  CInv'
  BY NewItemInv, InitialAssumption DEF ItemCreate

LEMMA OwnedItemsHaveNoPointers ==
    ASSUME CInv, NEW i \in owned \cap Items
    PROVE  i \in alive /\ i \notin lost /\ Pointers(i) = {}
  BY DEF CInv, OwnedIsAlive, NothingLeaks, LostIsLost

LEMMA ItemDestroyInv ==
    ASSUME CInv, ItemDestroy
    PROVE  CInv'
<1>1. PICK i \in owned \cap Items :
          /\ Memory({}, {i}, slot, to)
          /\ owned' = owned \ {i}
          /\ UNCHANGED <<description, class, value, borrowed, lost, twins, crashed>>
  BY DEF ItemDestroy
<1>2. i \in alive /\ i \notin lost /\ Pointers(i) = {}
  BY OwnedItemsHaveNoPointers
<1>3. /\ \A j \in Items : Pointers(j)' = {} <=> Pointers(j) = {}
      /\ alive' = alive \ {i}
  BY <1>1, <1>2, MemoryFacts, PointersBefore, AddressAssumption
<1>4. CTypeOK' /\ ClassIsFilled'
  BY <1>1, <1>2, MemoryTypes, ClassStays DEF CInv, CTypeOK
<1>5. SlotsFit'
  BY <1>1, <1>3, MemoryFacts, ClassStays DEF CInv, SlotsFit
<1>6. OwnedIsAlive' /\ LostIsLost' /\ PointedIsAlive'
  BY <1>1, <1>2, <1>3 DEF CInv, OwnedIsAlive, LostIsLost, PointedIsAlive
<1>7. BorrowedIsOwned' /\ NothingLeaks'
  BY <1>1, <1>2, <1>3, AddressAssumption DEF CInv, BorrowedIsOwned, NothingLeaks
<1>8. QED
  BY <1>4, <1>5, <1>6, <1>7 DEF CInv

(* Steps that neither create nor delete anything, nor change a pointer. *)
LEMMA QuietInv ==
    ASSUME CInv, UNCHANGED <<description, class, alive, gone, slot, to, owned, lost>>,
           value' \in [Items -> Values], borrowed' \subseteq owned \cap Holders,
           twins' \subseteq twins, crashed' \in BOOLEAN
    PROVE  CInv'
<1>1. \A i : Pointers(i)' = Pointers(i)
  BY DEF Pointers, Live
<1>2. CTypeOK' /\ ClassIsFilled' /\ SlotsFit'
  BY ClassStays DEF CInv, CTypeOK, SlotsFit
<1>3. OwnedIsAlive' /\ NothingLeaks' /\ PointedIsAlive' /\ LostIsLost' /\ BorrowedIsOwned'
  BY <1>1 DEF CInv, OwnedIsAlive, NothingLeaks, PointedIsAlive, LostIsLost, BorrowedIsOwned
<1>4. QED
  BY <1>2, <1>3 DEF CInv

LEMMA ItemSetInv ==
    ASSUME CInv, ItemSet
    PROVE  CInv'
<1>1. PICK i \in Items, v \in Values : value' = [value EXCEPT ![i] = v]
  BY DEF ItemSet, Live
<1>2. /\ UNCHANGED <<description, class, alive, gone, slot, to, owned, lost, borrowed, crashed>>
      /\ twins' \subseteq twins
  BY DEF ItemSet
<1>3. QED
  BY <1>1, <1>2, QuietInv DEF CInv, CTypeOK, BorrowedIsOwned

LEMMA GetterBorrowsInv ==
    ASSUME CInv, GetterBorrows
    PROVE  CInv'
<1>1. PICK h \in owned \cap Holders :
          /\ borrowed' = borrowed \cup {IF GetterByReference(Type) THEN h ELSE Null}
          /\ UNCHANGED <<description, class, alive, gone, slot, value, to, owned, lost, twins, crashed>>
  BY DEF GetterBorrows
<1>2. GetterByReference(Type)
  BY ClassFacts, GetterFacts DEF GetterBorrows, CInv
<1>3. QED
  BY <1>1, <1>2, QuietInv DEF CInv, CTypeOK, BorrowedIsOwned

(* _ref_make gives an item its first pointer. *)
LEMMA RefMakeInv ==
    ASSUME CInv, RefMake
    PROVE  CInv'
<1>1. PICK i \in owned \cap Items, r \in Fresh(Refs) :
          /\ Memory({r}, {}, slot, [to EXCEPT ![r] = i])
          /\ owned' = (owned \ {i}) \cup {r}
          /\ UNCHANGED <<description, class, value, borrowed, lost, twins, crashed>>
  BY DEF RefMake
<1>2. /\ i \in alive /\ i \notin lost /\ Pointers(i) = {}
      /\ r \in Refs /\ r \notin alive /\ r \notin gone
  BY <1>1, OwnedItemsHaveNoPointers DEF Fresh
<1> DEFINE to2 == [to EXCEPT ![r] = i]
<1>a. /\ to2 \in [Refs -> Items \cup {Null}]
      /\ \A q \in Refs : to2[q] = IF q = r THEN i ELSE to[q]
  BY <1>2 DEF CInv, CTypeOK
<1>b. Memory({r}, {}, slot, to2)
  BY <1>1
<1> HIDE DEF to2
<1>3. /\ \A j \in Items : Pointers(j)' = {} <=> j # i /\ Pointers(j) = {}
      /\ alive' = alive \cup {r} /\ slot' = slot
  BY <1>a, <1>b, <1>2, MemoryFacts, PointersBefore, AddressAssumption
<1>5. CTypeOK' /\ ClassIsFilled'
  BY <1>a, <1>b, <1>1, <1>2, MemoryTypes, ClassStays DEF CInv, CTypeOK
<1>6. SlotsFit'
  BY <1>1, <1>2, <1>3, ClassStays, AddressAssumption DEF CInv, SlotsFit
<1>7. OwnedIsAlive' /\ LostIsLost' /\ BorrowedIsOwned' /\ PointedIsAlive'
  BY <1>1, <1>2, <1>3, AddressAssumption
     DEF CInv, OwnedIsAlive, LostIsLost, BorrowedIsOwned, PointedIsAlive
<1>8. NothingLeaks'
  <2> SUFFICES ASSUME NEW x \in alive' \ lost'
               PROVE  (x \in owned') # (x \in Items /\ Pointers(x)' # {})
    BY DEF NothingLeaks
  <2>1. CASE x \in alive
    BY <1>1, <1>2, <1>3, <2>1, AddressAssumption DEF CInv, NothingLeaks
  <2>2. CASE x \notin alive
    BY <1>1, <1>2, <1>3, <2>2, AddressAssumption
  <2>3. QED
    BY <2>1, <2>2
<1>9. QED
  BY <1>5, <1>6, <1>7, <1>8 DEF CInv

(* A new Ref that is the program's, to an item that has a pointer already. *)
LEMMA NewRefInv ==
    ASSUME CInv, NEW n \in Fresh(Refs), NEW t \in Items \cup {Null}, t \in Items => Pointers(t) # {},
           Memory({n}, {}, slot, [to EXCEPT ![n] = t]), owned' = owned \cup {n},
           UNCHANGED <<description, class, value, borrowed, lost, twins, crashed>>
    PROVE  CInv'
<1> DEFINE to2 == [to EXCEPT ![n] = t]
<1>1. n \in Refs /\ n \notin alive /\ n \notin gone /\ n \notin Items /\ n \notin Holders
  BY AddressAssumption DEF Fresh
<1>2. /\ to2 \in [Refs -> Items \cup {Null}]
      /\ \A r \in Refs : to2[r] = IF r = n THEN t ELSE to[r]
  BY <1>1 DEF CInv, CTypeOK
<1>3. Memory({n}, {}, slot, to2)
  OBVIOUS
<1> HIDE DEF to2
<1>4. /\ \A j \in Items : Pointers(j)' = {} <=> Pointers(j) = {}
      /\ alive' = alive \cup {n} /\ slot' = slot
  BY <1>1, <1>2, <1>3, MemoryFacts, PointersBefore, AddressAssumption
<1>5. CTypeOK' /\ ClassIsFilled'
  BY <1>1, <1>2, <1>3, MemoryTypes, ClassStays DEF CInv, CTypeOK
<1>6. SlotsFit'
  BY <1>1, <1>4, ClassStays DEF CInv, SlotsFit
<1>7. OwnedIsAlive' /\ LostIsLost' /\ BorrowedIsOwned' /\ PointedIsAlive'
  BY <1>1, <1>4 DEF CInv, OwnedIsAlive, LostIsLost, BorrowedIsOwned, PointedIsAlive
<1>8. NothingLeaks'
  <2> SUFFICES ASSUME NEW x \in alive' \ lost'
               PROVE  (x \in owned') # (x \in Items /\ Pointers(x)' # {})
    BY DEF NothingLeaks
  <2>1. CASE x \in alive
    BY <1>1, <1>4, <2>1 DEF CInv, NothingLeaks
  <2>2. CASE x \notin alive
    BY <1>1, <1>4, <2>2
  <2>3. QED
    BY <2>1, <2>2
<1>9. QED
  BY <1>5, <1>6, <1>7, <1>8 DEF CInv

LEMMA RefCloneInv ==
    ASSUME CInv, RefClone
    PROVE  CInv'
<1>1. PICK r \in owned \cap Refs, s \in Fresh(Refs) :
          /\ Memory({s}, {}, slot, [to EXCEPT ![s] = to[r]])
          /\ owned' = owned \cup {s}
          /\ UNCHANGED <<description, class, value, borrowed, lost, twins, crashed>>
  BY DEF RefClone
<1>2. to[r] \in Items \cup {Null} /\ (to[r] \in Items => Pointers(to[r]) # {})
  BY DEF CInv, CTypeOK, OwnedIsAlive, Pointers, Live
<1>3. QED
  BY <1>1, <1>2, NewRefInv

(* _ref_delete and _destroy take a pointer away, and with the last its item. *)
LEMMA RefDeleteInv ==
    ASSUME CInv, RefDelete
    PROVE  CInv'
<1>1. PICK r \in owned \cap Refs :
          /\ Memory({}, {r}, slot, to)
          /\ owned' = owned \ {r}
          /\ UNCHANGED <<description, class, value, borrowed, lost, twins, crashed>>
  BY DEF RefDelete
<1>2. r \in alive /\ r \notin Items /\ r \notin Holders
  BY <1>1, AddressAssumption DEF CInv, OwnedIsAlive
<1>3. /\ \A j \in Items : Pointers(j) = {} => Pointers(j)' = {}
      /\ \A x : x \in alive' <=> /\ x \in alive \ {r}
                                 /\ ~(x \in Items /\ Pointers(x) # {} /\ Pointers(x)' = {})
      /\ slot' = slot
  BY <1>1, <1>2, MemoryFacts, PointersBefore, AddressAssumption
<1>4. CTypeOK' /\ ClassIsFilled'
  BY <1>1, <1>2, MemoryTypes, ClassStays DEF CInv, CTypeOK
<1>5. SlotsFit'
  BY <1>1, <1>3, ClassStays DEF CInv, SlotsFit
<1>6. OwnedIsAlive' /\ LostIsLost' /\ PointedIsAlive' /\ BorrowedIsOwned'
  BY <1>1, <1>2, <1>3, OwnedItemsHaveNoPointers
     DEF CInv, OwnedIsAlive, LostIsLost, PointedIsAlive, BorrowedIsOwned
<1>7. NothingLeaks'
  <2> SUFFICES ASSUME NEW x \in alive' \ lost'
               PROVE  (x \in owned') # (x \in Items /\ Pointers(x)' # {})
    BY DEF NothingLeaks
  <2>1. QED
    BY <1>1, <1>2, <1>3 DEF CInv, NothingLeaks
<1>8. QED
  BY <1>4, <1>5, <1>6, <1>7 DEF CInv

LEMMA HolderDestroyInv ==
    ASSUME CInv, HolderDestroy
    PROVE  CInv'
<1>1. PICK h \in owned \cap Holders :
          /\ Memory({}, {h}, slot, to)
          /\ owned' = owned \ {h}
          /\ borrowed' = borrowed \ {h}
          /\ Forget(h)
          /\ UNCHANGED <<description, class, value, lost, crashed>>
  BY DEF HolderDestroy
<1>2. h \in alive /\ h \notin Items /\ h \notin Refs
  BY <1>1, AddressAssumption DEF CInv, OwnedIsAlive
<1>3. /\ \A j \in Items : Pointers(j) = {} => Pointers(j)' = {}
      /\ \A x : x \in alive' <=> /\ x \in alive \ {h}
                                 /\ ~(x \in Items /\ Pointers(x) # {} /\ Pointers(x)' = {})
      /\ slot' = slot
  BY <1>1, <1>2, MemoryFacts, PointersBefore, AddressAssumption
<1>4. CTypeOK' /\ ClassIsFilled'
  BY <1>1, <1>2, MemoryTypes, ClassStays DEF CInv, CTypeOK, Forget
<1>5. SlotsFit'
  BY <1>1, <1>3, ClassStays DEF CInv, SlotsFit
<1>6. OwnedIsAlive' /\ LostIsLost' /\ PointedIsAlive' /\ BorrowedIsOwned'
  BY <1>1, <1>2, <1>3, OwnedItemsHaveNoPointers
     DEF CInv, CTypeOK, OwnedIsAlive, LostIsLost, PointedIsAlive, BorrowedIsOwned
<1>7. NothingLeaks'
  <2> SUFFICES ASSUME NEW x \in alive' \ lost'
               PROVE  (x \in owned') # (x \in Items /\ Pointers(x)' # {})
    BY DEF NothingLeaks
  <2>1. QED
    BY <1>1, <1>2, <1>3 DEF CInv, NothingLeaks
<1>8. QED
  BY <1>4, <1>5, <1>6, <1>7 DEF CInv

(* A new holder: with what its member variable is initialized to, or copied to. *)
LEMMA NewHolderInv ==
    ASSUME CInv, NEW h \in Fresh(Holders), NEW s,
           s \in IF Type \in PtrTypes THEN {Null} \cup {slot[g] : g \in owned \cap Holders} ELSE Values,
           Memory({h}, {}, [slot EXCEPT ![h] = s], to), owned' = owned \cup {h},
           UNCHANGED <<description, class, value, borrowed, lost, crashed>>,
           twins' \subseteq Holders \X Holders
    PROVE  CInv'
<1> DEFINE slot2 == [slot EXCEPT ![h] = s]
<1>1. h \in Holders /\ h \notin alive /\ h \notin gone /\ h \notin Items /\ h \notin Refs
  BY AddressAssumption DEF Fresh
<1>2. /\ s \in Values \cup Items \cup {Null}
      /\ Type \in PtrTypes => s \in Items \cup {Null}
      /\ Type \notin PtrTypes => s \in Values
      /\ s \in Items => Pointers(s) # {}
  <2>1. CASE Type \notin PtrTypes
    BY <2>1, AddressAssumption
  <2>2. CASE s = Null
    BY <2>2, AddressAssumption
  <2>3. ASSUME Type \in PtrTypes, NEW g \in owned \cap Holders, s = slot[g]
        PROVE  s \in Items \cup {Null} /\ (s \in Items => Pointers(s) # {})
    BY <2>3 DEF CInv, SlotsFit, OwnedIsAlive, Pointers, Live
  <2>4. QED
    BY <2>1, <2>2, <2>3
<1>3. /\ slot2 \in [Holders -> Values \cup Items \cup {Null}]
      /\ \A g \in Holders : slot2[g] = IF g = h THEN s ELSE slot[g]
  BY <1>1, <1>2 DEF CInv, CTypeOK
<1>4. Memory({h}, {}, slot2, to)
  OBVIOUS
<1> HIDE DEF slot2
<1>5. /\ \A j \in Items : Pointers(j)' = {} <=> Pointers(j) = {}
      /\ alive' = alive \cup {h} /\ slot' = slot2
  BY <1>1, <1>2, <1>3, <1>4, MemoryFacts, PointersBefore, AddressAssumption
<1>6. CTypeOK' /\ ClassIsFilled'
  BY <1>1, <1>3, <1>4, MemoryTypes, ClassStays DEF CInv, CTypeOK
<1>7. SlotsFit'
  BY <1>1, <1>2, <1>3, <1>5, ClassStays DEF CInv, SlotsFit
<1>8. OwnedIsAlive' /\ LostIsLost' /\ BorrowedIsOwned' /\ PointedIsAlive'
  BY <1>1, <1>5 DEF CInv, OwnedIsAlive, LostIsLost, BorrowedIsOwned, PointedIsAlive
<1>9. NothingLeaks'
  <2> SUFFICES ASSUME NEW x \in alive' \ lost'
               PROVE  (x \in owned') # (x \in Items /\ Pointers(x)' # {})
    BY DEF NothingLeaks
  <2>1. CASE x \in alive
    BY <1>1, <1>5, <2>1 DEF CInv, NothingLeaks
  <2>2. CASE x \notin alive
    BY <1>1, <1>5, <2>2
  <2>3. QED
    BY <2>1, <2>2
<1>10. QED
  BY <1>6, <1>7, <1>8, <1>9 DEF CInv

LEMMA HolderCreateInv ==
    ASSUME CInv, HolderCreate
    PROVE  CInv'
<1>1. PICK h \in Fresh(Holders) :
          /\ Memory({h}, {}, [slot EXCEPT ![h] = DefaultSlot], to)
          /\ owned' = owned \cup {h}
          /\ UNCHANGED <<description, class, value, borrowed, lost, twins, crashed>>
  BY DEF HolderCreate
<1>2. DefaultSlot \in IF Type \in PtrTypes THEN {Null} \cup {slot[g] : g \in owned \cap Holders} ELSE Values
  BY InitialAssumption DEF DefaultSlot
<1>3. QED
  BY <1>1, <1>2, NewHolderInv DEF CInv, CTypeOK

LEMMA HolderDuplicateInv ==
    ASSUME CInv, HolderDuplicate
    PROVE  CInv'
<1>1. PICK g \in owned \cap Holders, h \in Fresh(Holders) :
          /\ IF CopiedHow = "pointee"
             THEN \E i \in Fresh(Items) :
                      /\ slot[g] # Null
                      /\ Memory({h, i}, {}, [slot EXCEPT ![h] = i], to)
                      /\ value' = [value EXCEPT ![i] = value[slot[g]]]
             ELSE /\ Memory({h}, {}, [slot EXCEPT ![h] = IF CopiedHow = "member" THEN slot[g] ELSE DefaultSlot], to)
                  /\ UNCHANGED value
          /\ owned' = owned \cup {h}
          /\ twins' = twins \cup {<<g, h>>}
          /\ UNCHANGED <<description, class, borrowed, lost, crashed>>
  BY DEF HolderDuplicate
<1>2. g \in alive /\ twins' \subseteq Holders \X Holders
  BY <1>1 DEF CInv, CTypeOK, OwnedIsAlive, Fresh
<1>3. h \in Holders /\ h \notin alive /\ h \notin gone /\ h \notin Items /\ h \notin Refs
  BY AddressAssumption DEF Fresh
<1>4. CASE CopiedHow # "pointee"
  <2> DEFINE s == IF CopiedHow = "member" THEN slot[g] ELSE DefaultSlot
  <2>1. s \in IF Type \in PtrTypes THEN {Null} \cup {slot[f] : f \in owned \cap Holders} ELSE Values
    BY <1>2, InitialAssumption DEF CInv, SlotsFit, DefaultSlot
  <2>2. QED
    BY <1>1, <1>2, <1>4, <2>1, NewHolderInv
<1>5. CASE CopiedHow = "pointee"
  <2>1. PICK i \in Fresh(Items) :
            /\ slot[g] # Null
            /\ Memory({h, i}, {}, [slot EXCEPT ![h] = i], to)
            /\ value' = [value EXCEPT ![i] = value[slot[g]]]
    BY <1>1, <1>5
  <2> DEFINE slot2 == [slot EXCEPT ![h] = i]
  <2>2. i \in Items /\ i \notin alive /\ i \notin gone /\ Pointers(i) = {}
    BY DEF Fresh, CInv, PointedIsAlive
  <2>3. Type \in PtrTypes /\ slot[g] \in Items
    BY <1>5, <2>1, ClassFacts DEF CInv, SlotsFit
  <2>4. /\ slot2 \in [Holders -> Values \cup Items \cup {Null}]
        /\ \A f \in Holders : slot2[f] = IF f = h THEN i ELSE slot[f]
    BY <1>3, <2>2 DEF CInv, CTypeOK
  <2>5. Memory({h, i}, {}, slot2, to)
    BY <2>1
  <2>6. value' \in [Items -> Values]
    BY <2>1, <2>3 DEF CInv, CTypeOK
  <2> HIDE DEF slot2
  <2>7. /\ \A j \in Items : Pointers(j)' = {} <=> j # i /\ Pointers(j) = {}
        /\ alive' = alive \cup {h, i} /\ slot' = slot2
    BY <1>3, <2>2, <2>4, <2>5, MemoryFacts, PointersBefore, AddressAssumption
  <2>8. CTypeOK' /\ ClassIsFilled'
    BY <1>1, <1>2, <1>3, <2>2, <2>4, <2>5, <2>6, MemoryTypes, ClassStays DEF CInv, CTypeOK
  <2>9. SlotsFit'
    BY <1>1, <2>2, <2>3, <2>4, <2>7, ClassStays DEF CInv, SlotsFit
  <2>10. OwnedIsAlive' /\ LostIsLost' /\ BorrowedIsOwned' /\ PointedIsAlive'
    BY <1>1, <1>3, <2>2, <2>7 DEF CInv, OwnedIsAlive, LostIsLost, BorrowedIsOwned, PointedIsAlive
  <2>11. NothingLeaks'
    <3> SUFFICES ASSUME NEW x \in alive' \ lost'
                 PROVE  (x \in owned') # (x \in Items /\ Pointers(x)' # {})
      BY DEF NothingLeaks
    <3>1. CASE x \in alive
      BY <1>1, <1>3, <2>2, <2>7, <3>1 DEF CInv, NothingLeaks
    <3>2. CASE x \notin alive
      BY <1>1, <1>3, <2>2, <2>7, <3>2 DEF CInv, OwnedIsAlive
    <3>3. QED
      BY <3>1, <3>2
  <2>12. QED
    BY <2>8, <2>9, <2>10, <2>11 DEF CInv
<1>6. QED
  BY <1>4, <1>5

LEMMA DuplicateNullInv ==
    ASSUME CInv, DuplicateNull
    PROVE  CInv'
<1>1. /\ crashed' = TRUE /\ alive' = {} /\ owned' = {} /\ borrowed' = {} /\ lost' = {} /\ twins' = {}
      /\ UNCHANGED <<description, class, gone, slot, value, to>>
  BY DEF DuplicateNull
<1>2. \A i : Pointers(i)' = {}
  BY <1>1 DEF Pointers, Live
<1>3. CTypeOK' /\ ClassIsFilled' /\ SlotsFit'
  BY <1>1, ClassStays DEF CInv, CTypeOK, SlotsFit
<1>4. QED
  BY <1>1, <1>2, <1>3 DEF CInv, OwnedIsAlive, NothingLeaks, PointedIsAlive, LostIsLost, BorrowedIsOwned

(* A getter that allocates leaves what it allocated to the program. *)
LEMMA GetterAllocatesInv ==
    ASSUME CInv, GetterAllocates
    PROVE  CInv'
<1>1. PICK h \in owned \cap Holders, n \in Fresh(IF Type = "CLASS_PTR" THEN Refs ELSE Items) :
          /\ IF Type = "CLASS_PTR"
             THEN Memory({n}, {}, slot, [to EXCEPT ![n] = slot[h]]) /\ UNCHANGED value
             ELSE Memory({n}, {}, slot, to) /\ value' = [value EXCEPT ![n] = slot[h]]
          /\ owned' = IF GetterFree(Type) THEN owned \cup {n} ELSE owned
          /\ UNCHANGED <<description, class, borrowed, lost, twins, crashed>>
  BY DEF GetterAllocates
<1>2. Type \in {"string", "CLASS", "CLASS_PTR"} /\ owned' = owned \cup {n}
  BY <1>1, GetterFacts, ClassFacts DEF GetterAllocates, CInv
<1>3. h \in alive
  BY DEF CInv, OwnedIsAlive
<1>4. CASE Type = "CLASS_PTR"
  <2>1. slot[h] \in Items \cup {Null} /\ (slot[h] \in Items => Pointers(slot[h]) # {})
    BY <1>3, <1>4 DEF CInv, SlotsFit, PtrTypes, Pointers, Live
  <2>2. QED
    BY <1>1, <1>2, <1>4, <2>1, NewRefInv
<1>5. CASE Type # "CLASS_PTR"
  <2>1. slot[h] \in Values
    BY <1>2, <1>3, <1>5 DEF CInv, SlotsFit, PtrTypes
  <2>2. QED
    BY <1>1, <1>2, <1>5, <2>1, NewItemInv
<1>6. QED
  BY <1>4, <1>5

(* A setter deletes exactly the arguments that its name says it consumes; what *)
(* the argument points to has the holder's pointer then.                       *)
LEMMA SetterInv ==
    ASSUME CInv, Setter
    PROVE  CInv'
<1>1. PICK h \in owned \cap Holders, x \in owned \cap (IF Type \in PtrTypes THEN Refs ELSE Items) :
          /\ Memory({}, IF SetterDeletes(Type) THEN {x} ELSE {},
                    [slot EXCEPT ![h] = IF Type \in PtrTypes THEN to[x] ELSE value[x]], to)
          /\ owned' = IF SetterConsumed(Type) THEN owned \ {x} ELSE owned
          /\ borrowed' = StillBorrowed(h)
          /\ Forget(h)
          /\ UNCHANGED <<description, class, value, lost, crashed>>
  BY DEF Setter
<1> DEFINE D == IF SetterDeletes(Type) THEN {x} ELSE {}
           s == IF Type \in PtrTypes THEN to[x] ELSE value[x]
           slot2 == [slot EXCEPT ![h] = s]
<1>2. D \subseteq {x} /\ owned' = owned \ D
  BY <1>1, ConsumedIsDeleted
<1>3. h \in alive /\ x \in alive /\ x # h
  BY AddressAssumption DEF CInv, OwnedIsAlive
<1>4. IF Type \in PtrTypes THEN x \in Refs /\ s \in Items \cup {Null} /\ s = to[x]
      ELSE x \in Items /\ s \in Values /\ Pointers(x) = {} /\ x \notin lost
  BY OwnedItemsHaveNoPointers DEF CInv, CTypeOK
<1>5. /\ slot2 \in [Holders -> Values \cup Items \cup {Null}]
      /\ \A g \in Holders : slot2[g] = IF g = h THEN s ELSE slot[g]
  BY <1>4 DEF CInv, CTypeOK
<1>6. Memory({}, D, slot2, to)
  BY <1>1
<1>7. borrowed' \subseteq borrowed /\ twins' \subseteq twins
  BY <1>1 DEF StillBorrowed, Forget
<1> HIDE DEF D, s, slot2
<1>8. \A j \in Items : Pointers(j) = {} => Pointers(j)' = {}
  BY <1>2, <1>3, <1>4, <1>5, <1>6, MemoryFacts, PointersBefore, AddressAssumption
<1>9. \A j \in Items : j \in D => Pointers(j) = {}
  BY <1>2, <1>4, AddressAssumption
<1>10. /\ \A y : y \in alive' <=> /\ y \in alive \ D
                                  /\ ~(y \in Items /\ Pointers(y) # {} /\ Pointers(y)' = {})
       /\ slot' = slot2
  BY <1>6, MemoryFacts
<1>11. CTypeOK' /\ ClassIsFilled'
  BY <1>1, <1>2, <1>3, <1>5, <1>6, <1>7, MemoryTypes, ClassStays DEF CInv, CTypeOK
<1>12. SlotsFit'
  BY <1>1, <1>4, <1>5, <1>10, ClassStays DEF CInv, SlotsFit
<1>13. OwnedIsAlive'
  BY <1>2, <1>10, OwnedItemsHaveNoPointers DEF CInv, OwnedIsAlive
<1>14. PointedIsAlive'
  BY <1>8, <1>9, <1>10 DEF CInv, PointedIsAlive
<1>15. LostIsLost'
  BY <1>1, <1>2, <1>8, <1>10 DEF CInv, LostIsLost
<1>16. BorrowedIsOwned'
  BY <1>2, <1>4, <1>7, AddressAssumption DEF CInv, BorrowedIsOwned
<1>17. NothingLeaks'
  <2> SUFFICES ASSUME NEW y \in alive' \ lost'
               PROVE  (y \in owned') # (y \in Items /\ Pointers(y)' # {})
    BY DEF NothingLeaks
  <2>1. y \in alive \ lost /\ y \notin D
    BY <1>1, <1>10
  <2>2. y \in owned' <=> y \in owned
    BY <1>2, <2>1
  <2>3. y \in Items => (Pointers(y)' = {} <=> Pointers(y) = {})
    BY <1>8, <1>10
  <2>4. QED
    BY <2>1, <2>2, <2>3 DEF CInv, NothingLeaks
<1>18. QED
  BY <1>11, <1>12, <1>13, <1>14, <1>15, <1>16, <1>17 DEF CInv

LEMMA SetterNoArgumentInv ==
    ASSUME CInv, SetterNoArgument
    PROVE  CInv'
<1>1. PICK h \in owned \cap Holders :
          /\ slot' = [slot EXCEPT ![h] = Initial]
          /\ borrowed' = StillBorrowed(h)
          /\ Forget(h)
          /\ UNCHANGED <<description, class, alive, gone, value, to, owned, lost, crashed>>
  BY DEF SetterNoArgument
<1>2. Type \notin PtrTypes
  BY DEF SetterNoArgument, StringTypes, PtrTypes
<1>3. \A g \in Holders : slot'[g] = IF g = h THEN Initial ELSE slot[g]
  BY <1>1 DEF CInv, CTypeOK
<1>4. \A i \in Items : Pointers(i)' = Pointers(i)
  BY <1>1, <1>2, <1>3, InitialAssumption, AddressAssumption DEF CInv, SlotsFit, Pointers, Live
<1>5. CTypeOK' /\ ClassIsFilled'
  BY <1>1, ClassStays, InitialAssumption DEF CInv, CTypeOK, StillBorrowed, Forget
<1>6. SlotsFit'
  BY <1>1, <1>2, <1>3, ClassStays, InitialAssumption DEF CInv, SlotsFit
<1>7. OwnedIsAlive' /\ NothingLeaks' /\ PointedIsAlive' /\ LostIsLost' /\ BorrowedIsOwned'
  BY <1>1, <1>4
     DEF CInv, OwnedIsAlive, NothingLeaks, PointedIsAlive, LostIsLost, BorrowedIsOwned, StillBorrowed
<1>8. QED
  BY <1>5, <1>6, <1>7 DEF CInv

(* What a setter without a holder is given is nobody's from then on.  A Ref still *)
(* keeps its item.                                                                *)
LEMMA SetterNoHolderInv ==
    ASSUME CInv, SetterNoHolder
    PROVE  CInv'
<1>1. PICK x \in owned \cap (IF Type \in PtrTypes THEN Refs ELSE Items) :
          /\ owned' = owned \ {x}
          /\ lost' = lost \cup {x}
          /\ UNCHANGED <<description, class, alive, gone, slot, value, to, borrowed, twins, crashed>>
  BY DEF SetterNoHolder
<1>2. \A i : Pointers(i)' = Pointers(i)
  BY <1>1 DEF Pointers, Live
<1>3. x \in alive /\ x \notin Holders /\ (x \in Items => Pointers(x) = {})
  BY AddressAssumption, OwnedItemsHaveNoPointers DEF CInv, OwnedIsAlive
<1>4. CTypeOK' /\ ClassIsFilled' /\ SlotsFit'
  BY <1>1, ClassStays DEF CInv, CTypeOK, SlotsFit
<1>5. OwnedIsAlive' /\ NothingLeaks' /\ PointedIsAlive' /\ LostIsLost' /\ BorrowedIsOwned'
  BY <1>1, <1>2, <1>3 DEF CInv, OwnedIsAlive, NothingLeaks, PointedIsAlive, LostIsLost, BorrowedIsOwned
<1>6. QED
  BY <1>4, <1>5 DEF CInv

LEMMA CInitInv ==
    ASSUME CInit
    PROVE  CInv
<1>1. \A i : Pointers(i) = {}
  BY DEF CInit, Pointers, Live
<1>2. ClassIsFilled
  BY DEF CInit, ClassIsFilled
<1>3. CTypeOK
  BY <1>2, ClassFacts, InitialAssumption DEF CInit, CTypeOK
<1>4. SlotsFit
  BY DEF CInit, SlotsFit
<1>5. QED
  BY <1>1, <1>2, <1>3, <1>4
     DEF CInit, CInv, OwnedIsAlive, NothingLeaks, PointedIsAlive, LostIsLost, BorrowedIsOwned

LEMMA CNextInv ==
    ASSUME CInv, [CNext]_vars
    PROVE  CInv'
<1>1. CASE UNCHANGED vars
  BY <1>1, QuietInv DEF vars, CInv, CTypeOK, BorrowedIsOwned
<1>2. CASE CNext
  BY <1>2, ItemCreateInv, ItemDestroyInv, ItemSetInv, RefMakeInv, RefCloneInv, RefDeleteInv,
     HolderCreateInv, HolderDuplicateInv, DuplicateNullInv, HolderDestroyInv, GetterAllocatesInv,
     GetterBorrowsInv, SetterInv, SetterNoArgumentInv, SetterNoHolderInv DEF CNext
<1>3. QED
  BY <1>1, <1>2

(* Every reachable state of holders, items and Refs satisfies the inductive   *)
(* invariant.                                                                 *)
THEOREM CInvariant == CSpec => []CInv
<1>1. CInit => CInv
  BY CInitInv
<1>2. CInv /\ [CNext]_vars => CInv'
  BY CNextInv
<1>3. QED
  BY <1>1, <1>2, PTL DEF CSpec

(* The variables of the C program keep their types. *)
THEOREM CTypeCorrect == CSpec => []CTypeOK
  BY CInvariant, PTL DEF CInv

(* No generated function deletes what its name leaves to the program: a       *)
(* pointer that the program has to dispose of can be used until it does.      *)
THEOREM OwnedStaysAlive == CSpec => []OwnedIsAlive
  BY CInvariant, PTL DEF CInv

(* Whatever the generated functions allocate is either the program's to       *)
(* dispose of or is kept by a shared pointer, never both; the only exception  *)
(* is an argument of a setter that was called without a holder.               *)
THEOREM NoLeaks == CSpec => []NothingLeaks
  BY CInvariant, PTL DEF CInv

(* A pointer that a getter without a `_free' returned points into a holder    *)
(* that was not destroyed.                                                    *)
THEOREM BorrowedStaysAlive == CSpec => []BorrowedIsAlive
<1>1. CInv => BorrowedIsAlive
  BY DEF CInv, BorrowedIsOwned, OwnedIsAlive, BorrowedIsAlive
<1>2. QED
  BY <1>1, CInvariant, PTL

-----------------------------------------------------------------------------
(* How the holder's class is copied, compared and hashed where its          *)
(* description leaves that to be inferred.                                  *)

(* The class as the constructors, and then the operators, are given it. *)
Opened(json) == FillProperties(FillClass(json))
Built(json) == FillConstructors(Opened(json))

(* Filling what comes later changes neither the properties nor what was given. *)
LEMMA OpenedKeeps ==
    ASSUME NEW json
    PROVE  /\ \A key : key \in DOMAIN Opened(json) <=>
                key \in DOMAIN json \cup {"static", "properties", "aliases", "final", "copyable", "movable"}
           /\ \A key \in DOMAIN json \ {"properties"} : Opened(json)[key] = json[key]
  BY DEF Opened, FillProperties, FillClass, ??

LEMMA BuiltKeeps ==
    ASSUME NEW json, NEW key,
           key \notin {"parameterlessConstructor", "copyConstructor", "moveConstructor", "destructor"}
    PROVE  /\ key \in DOMAIN Built(json) <=> key \in DOMAIN Opened(json)
           /\ key \in DOMAIN Opened(json) => Built(json)[key] = Opened(json)[key]
  BY DEF Built, FillConstructors, ??

LEMMA FilledKeeps ==
    ASSUME NEW json, NEW key, key \notin {"equalityOperator", "hashOperator", "toStringOperator"}
    PROVE  /\ key \in DOMAIN Filled(json) <=> key \in DOMAIN Built(json)
           /\ key \in DOMAIN Built(json) => Filled(json)[key] = Built(json)[key]
  BY DEF Filled, Built, Opened, FillOperators, ??

LEMMA FilledParts ==
    ASSUME NEW json
    PROVE  /\ Filled(json).properties = Opened(json).properties
           /\ Built(json).properties = Opened(json).properties
           /\ Filled(json).static = Opened(json).static
           /\ Filled(json).copyConstructor =
                FillConstructor(Opened(json), Given(json, "copyConstructor"), "copy")
           /\ Filled(json).equalityOperator =
                FillEqualityOperator(Built(json), Given(json, "equalityOperator"))
           /\ Filled(json).hashOperator =
                FillHashOperator(Built(json), Filled(json).equalityOperator, "hashOperator" \in DOMAIN json,
                                 Given(json, "hashOperator"))
<1>1. /\ \A key \in {"properties", "static"} : key \in DOMAIN Opened(json)
      /\ \A key \in {"copyConstructor", "equalityOperator", "hashOperator"} :
            Given(Opened(json), key) = Given(json, key)
      /\ "hashOperator" \in DOMAIN Opened(json) <=> "hashOperator" \in DOMAIN json
  BY OpenedKeeps DEF Given
<1>2. /\ \A key \in {"properties", "static"} : key \in DOMAIN Built(json) /\ Built(json)[key] = Opened(json)[key]
      /\ \A key \in {"equalityOperator", "hashOperator"} : Given(Built(json), key) = Given(json, key)
      /\ "hashOperator" \in DOMAIN Built(json) <=> "hashOperator" \in DOMAIN json
  BY <1>1, BuiltKeeps DEF Given
<1>3. Filled(json).properties = Opened(json).properties /\ Filled(json).static = Opened(json).static
  BY <1>2, FilledKeeps
<1>4. /\ "copyConstructor" \in DOMAIN Built(json)
      /\ Built(json).copyConstructor = FillConstructor(Opened(json), Given(json, "copyConstructor"), "copy")
  BY <1>1 DEF Built, FillConstructors, ??
<1>5. Filled(json).copyConstructor = FillConstructor(Opened(json), Given(json, "copyConstructor"), "copy")
  BY <1>4, FilledKeeps
<1>6. Filled(json) = FillOperators(Built(json))
  BY DEF Filled, Built, Opened
<1>7. /\ FillOperators(Built(json)).equalityOperator =
            FillEqualityOperator(Built(json), Given(Built(json), "equalityOperator"))
      /\ FillOperators(Built(json)).hashOperator =
            FillHashOperator(Built(json), FillEqualityOperator(Built(json), Given(Built(json), "equalityOperator")),
                             "hashOperator" \in DOMAIN Built(json), Given(Built(json), "hashOperator"))
  BY DEF FillOperators, ??
<1>8. QED
  BY <1>2, <1>3, <1>5, <1>6, <1>7

(* The holder's property is the only one, and its member variable is one of an *)
(* object's.                                                                  *)
LEMMA PropertyFacts ==
    ASSUME ClassIsFilled
    PROVE  /\ DOMAIN Opened(description).properties = {1} /\ Opened(description).properties[1] = Property
           /\ ~class.static => ~Property.static /\ Property.hasMemberVar
  BY DescriptionsAssumption, FilledParts DEF ClassIsFilled, Property

(* The name loops find it, under its name. *)
LEMMA NamedFacts ==
    ASSUME NEW list, NEW name, DOMAIN list = {1}
    PROVE  /\ Places(list, name) # {} <=> list[1].name = name
           /\ Places(list, name) # {} => FirstPlace(list, name) = 1
  BY DEF Places, FirstPlace

(* A pointer is copied by copying what it points to, anything else as it is. *)
LEMMA CopyIsInferred ==
    ASSUME ClassIsFilled, CopyInferred, ~class.static
    PROVE  CopiedHow = IF Type \in PtrTypes THEN "pointee" ELSE "member"
<1> DEFINE o == Opened(description)
           ctor == Given(description, "copyConstructor")
           listed == [k \in Stored(o) |-> [name |-> o.properties[k].name]]
           c == class.copyConstructor
<1>1. DOMAIN o.properties = {1} /\ o.properties[1] = Property /\ class.properties = o.properties
  BY PropertyFacts, FilledParts DEF ClassIsFilled
<1>2. Stored(o) = {1}
  BY <1>1, PropertyFacts DEF Stored
<1>3. "initializedProperties" \notin DOMAIN ctor /\ "definition" \notin DOMAIN ctor
  BY DEF CopyInferred, Given, Empty
<1>4. Named(o, Property.name) = Property
  BY <1>1, NamedFacts DEF Named
<1> DEFINE initialized == FillInitialized(o, ctor, "copy")
           canBeDefault == InitializedCanBeDefault(o, initialized, "copy") /\ CodeCanBeDefault(ctor)
<1>5. /\ DOMAIN initialized = {1} /\ initialized[1].name = Property.name
      /\ initialized[1].value = TypeMembVarCopyOp(Type)
  BY <1>1, <1>2, <1>3, <1>4 DEF FillInitialized, InferredValue, Type, ??
<1>6. c = FillConstructor(o, ctor, "copy")
  BY FilledParts DEF ClassIsFilled
<1>7. "definition" \notin DOMAIN FillCode(ctor)
  BY <1>3 DEF FillCode, ??
<1>8. c.initializedProperties = initialized /\ c.definition = DefinitionIfNotSet(o, "copy", canBeDefault)
  BY <1>6, <1>7 DEF FillConstructor, ??
<1>9. canBeDefault => Type \notin PtrTypes
  BY <1>4, <1>5 DEF InitializedCanBeDefault, Type
<1> HIDE DEF initialized, canBeDefault, c
<1>10. c.definition = "default" => Type \notin PtrTypes
  BY <1>8, <1>9 DEF DefinitionIfNotSet
<1>11. /\ Places(c.initializedProperties, Property.name) # {}
       /\ FirstPlace(c.initializedProperties, Property.name) = 1
  BY <1>5, <1>8, NamedFacts
<1>12. CopiedHow = IF c.definition = "default" THEN "member" ELSE TypeMembVarCopyOp(Type)
  BY <1>5, <1>8, <1>11 DEF CopiedHow, HowCopied, Property, c
<1>13. QED
  BY <1>10, <1>12 DEF TypeMembVarCopyOp

(* A pointer is compared by comparing what it points to, anything else as it is. *)
LEMMA EqualityIsInferred ==
    ASSUME ClassIsFilled, EqualityInferred
    PROVE  \A k \in DOMAIN class.equalityOperator.comparedProperties :
                class.equalityOperator.comparedProperties[k].comparator =
                    IF Type \in PtrTypes THEN "pointee" ELSE "member"
<1> DEFINE b == Built(description)
           op == Given(description, "equalityOperator")
<1>1. DOMAIN b.properties = {1} /\ b.properties[1] = Property
  BY PropertyFacts, FilledParts
<1>2. "comparedProperties" \notin DOMAIN op
  BY DEF EqualityInferred, Given, Empty
<1>3. class.equalityOperator = FillEqualityOperator(b, op)
  BY FilledParts DEF ClassIsFilled
<1>4. class.equalityOperator.comparedProperties = EqualityOperatorComparedProperties(b)
  BY <1>2, <1>3 DEF FillEqualityOperator, ??
<1>5. QED
  BY <1>1, <1>4 DEF EqualityOperatorComparedProperties, TypePropEqOp, Type

(* What is compared is hashed, a pointer by what it points to. *)
LEMMA HashIsInferred ==
    ASSUME ClassIsFilled, HashInferred
    PROVE  /\ class.hashOperator.usePointerAsHash = class.equalityOperator.comparePointers
           /\ DOMAIN class.hashOperator.hashedProperties = DOMAIN class.equalityOperator.comparedProperties
           /\ \A k \in DOMAIN class.hashOperator.hashedProperties :
                class.hashOperator.hashedProperties[k].hasher = IF Type \in PtrTypes THEN "pointee" ELSE "member"
<1> DEFINE o == Opened(description)
           b == Built(description)
           op == Given(description, "equalityOperator")
           equality == class.equalityOperator
           hash == Given(description, "hashOperator")
<1>1. DOMAIN b.properties = {1} /\ b.properties[1] = Property /\ b.properties = o.properties
  BY PropertyFacts, FilledParts
<1>2. "hashedProperties" \notin DOMAIN hash /\ "usePointerAsHash" \notin DOMAIN hash
  BY DEF HashInferred, Given, Empty
<1>3. class.hashOperator = FillHashOperator(b, equality, "hashOperator" \in DOMAIN description, hash)
  BY FilledParts DEF ClassIsFilled
<1>4. /\ class.hashOperator.hashedProperties = HashOperatorHashedProperties(b, equality)
      /\ class.hashOperator.usePointerAsHash = equality.comparePointers
  BY <1>2, <1>3 DEF FillHashOperator, ??
<1>5. ASSUME NEW k \in DOMAIN equality.comparedProperties
      PROVE  equality.comparedProperties[k].name = Property.name
  <2>1. equality = FillEqualityOperator(b, op)
    BY FilledParts DEF ClassIsFilled
  <2>2. CASE "comparedProperties" \in DOMAIN op
    <3>1. EqualityOperatorAccepted(o, Given(o, "equalityOperator"))
      BY DEF ClassIsFilled, Accepted, OperatorsAccepted, Opened
    <3>2. Given(o, "equalityOperator") = op
      BY OpenedKeeps DEF Given
    <3> DEFINE e == op.comparedProperties[k]
    <3>3. equality.comparedProperties =
            [j \in DOMAIN op.comparedProperties |->
                op.comparedProperties[j] ??
                    [useGetter |-> ~Named(b, op.comparedProperties[j].name).hasMemberVar,
                     comparator |-> TypePropEqOp(Named(b, op.comparedProperties[j].name).type)]]
      BY <2>1, <2>2 DEF FillEqualityOperator, ??
    <3>4. k \in DOMAIN op.comparedProperties /\ HasProperty(o, e)
      BY <2>2, <3>1, <3>2, <3>3 DEF EqualityOperatorAccepted, ListedAccepted
    <3>5. "name" \in DOMAIN e /\ e.name = Property.name
      BY <1>1, <3>4, NamedFacts DEF HasProperty
    <3>6. QED
      BY <3>3, <3>4, <3>5 DEF ??
  <2>3. CASE "comparedProperties" \notin DOMAIN op
    <3>1. equality.comparedProperties = EqualityOperatorComparedProperties(b)
      BY <2>1, <2>3 DEF FillEqualityOperator, ??
    <3>2. QED
      BY <1>1, <3>1 DEF EqualityOperatorComparedProperties
  <2>4. QED
    BY <2>2, <2>3
<1>6. ASSUME NEW k \in DOMAIN equality.comparedProperties
      PROVE  Named(b, equality.comparedProperties[k].name) = Property
  BY <1>1, <1>5, NamedFacts DEF Named
<1>7. QED
  BY <1>4, <1>6 DEF HashOperatorHashedProperties, TypePropHasher, Type


-----------------------------------------------------------------------------
(* There are objects only of a class that is not static, and what a holder was *)
(* copied to agrees with it: without a pointer in common.                     *)
Agree(g, h) ==
    IF Type \in PtrTypes
    THEN /\ slot[g] \in Items /\ slot[h] \in Items /\ slot[g] # slot[h]
         /\ value[slot[g]] = value[slot[h]]
    ELSE slot[g] = slot[h]

TwinsInv ==
    /\ class.static => alive \cap Holders = {}
    /\ \A g, h : <<g, h>> \in twins => g \in alive \cap Holders /\ h \in alive \cap Holders
    /\ CopyInferred => \A g, h : <<g, h>> \in twins => Agree(g, h)

(* Twins agree as long as neither them nor what they point to is changed. *)
LEMMA TwinsKeep ==
    ASSUME TwinsInv, UNCHANGED <<description, class>>,
           alive' \cap Holders \subseteq alive,
           twins' \subseteq twins,
           \A g, h : <<g, h>> \in twins' =>
                /\ g \in alive' /\ h \in alive'
                /\ slot'[g] = slot[g] /\ slot'[h] = slot[h]
                /\ slot[g] \in Items => value'[slot[g]] = value[slot[g]]
                /\ slot[h] \in Items => value'[slot[h]] = value[slot[h]]
    PROVE  TwinsInv'
<1>1. Type' = Type /\ CopyInferred' = CopyInferred
  BY ClassStays DEF CopyInferred
<1>2. \A g, h : <<g, h>> \in twins' => <<g, h>> \in twins
  OBVIOUS
<1>3. /\ class'.static => alive' \cap Holders = {}
      /\ \A g, h : <<g, h>> \in twins' => g \in alive' \cap Holders /\ h \in alive' \cap Holders
  BY <1>2 DEF TwinsInv
<1>4. ASSUME CopyInferred, NEW g, NEW h, <<g, h>> \in twins'
      PROVE  Agree(g, h)'
  BY <1>1, <1>2, <1>4 DEF TwinsInv, Agree
<1>5. QED
  BY <1>1, <1>3, <1>4 DEF TwinsInv

(* Steps that change neither holders nor items that are there. *)
LEMMA TwinsAside ==
    ASSUME TwinsInv, CInv, UNCHANGED <<description, class, slot, twins>>,
           \A h \in Holders : h \in alive' <=> h \in alive,
           \A i \in Items \cap alive : value'[i] = value[i]
    PROVE  TwinsInv'
<1>1. ASSUME NEW g, NEW h, <<g, h>> \in twins
      PROVE  /\ g \in alive' /\ h \in alive'
             /\ slot[g] \in Items => value'[slot[g]] = value[slot[g]]
             /\ slot[h] \in Items => value'[slot[h]] = value[slot[h]]
  <2>1. g \in alive \cap Holders /\ h \in alive \cap Holders
    BY <1>1 DEF TwinsInv
  <2>2. \A i \in Items : slot[g] = i \/ slot[h] = i => i \in alive
    BY <2>1, PointersBefore DEF CInv, PointedIsAlive
  <2>3. QED
    BY <2>1, <2>2
<1>2. QED
  BY <1>1, TwinsKeep

LEMMA TwinsNext ==
    ASSUME TwinsInv, CInv, [CNext]_vars
    PROVE  TwinsInv'
<1> USE AddressAssumption
<1>1. CASE UNCHANGED vars
  BY <1>1, TwinsAside DEF vars
<1>2. CASE ItemCreate
  <2>1. PICK i \in Fresh(Items) : Memory({i}, {}, slot, to) /\ value' = [value EXCEPT ![i] = Initial]
    BY <1>2 DEF ItemCreate
  <2>2. UNCHANGED <<description, class, twins>>
    BY <1>2 DEF ItemCreate
  <2>3. slot' = slot /\ \A h \in Holders : h \in alive' <=> h \in alive
    BY <2>1, MemoryFacts DEF Fresh
  <2>4. \A j \in Items \cap alive : value'[j] = value[j]
    BY <2>1 DEF CInv, CTypeOK, Fresh
  <2>5. QED
    BY <2>2, <2>3, <2>4, TwinsAside
<1>3. CASE ItemDestroy
  <2>1. PICK i \in Items : Memory({}, {i}, slot, to)
    BY <1>3 DEF ItemDestroy
  <2>2. UNCHANGED <<description, class, twins, value>>
    BY <1>3 DEF ItemDestroy
  <2>3. slot' = slot /\ \A h \in Holders : h \in alive' <=> h \in alive
    BY <2>1, MemoryFacts
  <2>4. QED
    BY <2>2, <2>3, TwinsAside
<1>4. CASE ItemSet
  <2>1. PICK i \in Items : /\ \E v : value' = [value EXCEPT ![i] = v]
                          /\ twins' = {t \in twins : i \notin {slot[t[1]], slot[t[2]]}}
    BY <1>4 DEF ItemSet, Live
  <2>2. UNCHANGED <<description, class, alive, slot>>
    BY <1>4 DEF ItemSet
  <2>3. ASSUME NEW g, NEW h, <<g, h>> \in twins'
        PROVE  /\ <<g, h>> \in twins /\ slot[g] # i /\ slot[h] # i
    BY <2>1, <2>3
  <2>4. \A j \in Items : j # i => value'[j] = value[j]
    BY <2>1 DEF CInv, CTypeOK
  <2>5. ASSUME NEW g, NEW h, <<g, h>> \in twins'
        PROVE  g \in alive /\ h \in alive
    BY <2>3, <2>5 DEF TwinsInv
  <2>6. twins' \subseteq twins
    BY <2>1
  <2>7. QED
    BY <2>2, <2>3, <2>4, <2>5, <2>6, TwinsKeep
<1>5. CASE RefMake
  <2>1. PICK r \in Fresh(Refs) : \E to2 : Memory({r}, {}, slot, to2)
    BY <1>5 DEF RefMake
  <2>2. UNCHANGED <<description, class, twins, value>>
    BY <1>5 DEF RefMake
  <2>3. slot' = slot /\ \A h \in Holders : h \in alive' <=> h \in alive
    BY <2>1, MemoryFacts DEF Fresh
  <2>4. QED
    BY <2>2, <2>3, TwinsAside
<1>6. CASE RefClone
  <2>1. PICK r \in Fresh(Refs) : \E to2 : Memory({r}, {}, slot, to2)
    BY <1>6 DEF RefClone
  <2>2. UNCHANGED <<description, class, twins, value>>
    BY <1>6 DEF RefClone
  <2>3. slot' = slot /\ \A h \in Holders : h \in alive' <=> h \in alive
    BY <2>1, MemoryFacts DEF Fresh
  <2>4. QED
    BY <2>2, <2>3, TwinsAside
<1>7. CASE RefDelete
  <2>1. PICK r \in Refs : Memory({}, {r}, slot, to)
    BY <1>7 DEF RefDelete
  <2>2. UNCHANGED <<description, class, twins, value>>
    BY <1>7 DEF RefDelete
  <2>3. slot' = slot /\ \A h \in Holders : h \in alive' <=> h \in alive
    BY <2>1, MemoryFacts
  <2>4. QED
    BY <2>2, <2>3, TwinsAside
<1>8. CASE GetterAllocates
  <2>1. PICK h \in Holders, n \in Fresh(IF Type = "CLASS_PTR" THEN Refs ELSE Items) :
            IF Type = "CLASS_PTR"
            THEN Memory({n}, {}, slot, [to EXCEPT ![n] = slot[h]]) /\ UNCHANGED value
            ELSE Memory({n}, {}, slot, to) /\ value' = [value EXCEPT ![n] = slot[h]]
    BY <1>8 DEF GetterAllocates
  <2>2. UNCHANGED <<description, class, twins>>
    BY <1>8 DEF GetterAllocates
  <2>3. PICK to2 : Memory({n}, {}, slot, to2)
    BY <2>1
  <2>4. n \notin alive /\ n \notin Holders
    BY DEF Fresh
  <2>5. slot' = slot /\ \A g \in Holders : g \in alive' <=> g \in alive
    BY <2>3, <2>4, MemoryFacts
  <2>6. \A j \in Items \cap alive : value'[j] = value[j]
    BY <2>1, <2>4 DEF CInv, CTypeOK
  <2>7. QED
    BY <2>2, <2>5, <2>6, TwinsAside
<1>9. CASE GetterBorrows
  BY <1>9, TwinsAside DEF GetterBorrows
<1>10. CASE SetterNoHolder
  BY <1>10, TwinsAside DEF SetterNoHolder
<1>11. CASE DuplicateNull
  BY <1>11, TwinsKeep DEF DuplicateNull
<1>12. CASE HolderCreate
  <2>1. PICK f \in Fresh(Holders) : Memory({f}, {}, [slot EXCEPT ![f] = DefaultSlot], to)
    BY <1>12 DEF HolderCreate
  <2>2. UNCHANGED <<description, class, twins, value>> /\ ~class.static
    BY <1>12 DEF HolderCreate, Constructible
  <2>3. \A h \in Holders : h \in alive' <=> h \in alive \/ h = f
    BY <2>1, MemoryFacts
  <2>4. f \notin alive /\ slot' = [slot EXCEPT ![f] = DefaultSlot]
    BY <2>1, MemoryFacts DEF Fresh
  <2>5. \A h \in Holders : h # f => slot'[h] = slot[h]
    BY <2>4 DEF CInv, CTypeOK
  <2>6. ASSUME NEW g, NEW h, <<g, h>> \in twins
        PROVE  /\ g \in Holders \cap alive /\ h \in Holders \cap alive
               /\ slot'[g] = slot[g] /\ slot'[h] = slot[h]
    BY <2>4, <2>5, <2>6 DEF TwinsInv
  <2>7. ASSUME CopyInferred, NEW g, NEW h, <<g, h>> \in twins
        PROVE  Agree(g, h)'
    BY <2>2, <2>6, <2>7, ClassStays DEF TwinsInv, Agree
  <2>8. CopyInferred' = CopyInferred
    BY <2>2 DEF CopyInferred
  <2>9. QED
    BY <2>2, <2>3, <2>6, <2>7, <2>8 DEF TwinsInv
<1>13. CASE HolderDestroy
  <2>1. PICK f \in owned \cap Holders : Memory({}, {f}, slot, to) /\ Forget(f)
    BY <1>13 DEF HolderDestroy
  <2>2. UNCHANGED <<description, class, value>>
    BY <1>13 DEF HolderDestroy
  <2>3. slot' = slot /\ \A h \in Holders : h \in alive' <=> h \in alive /\ h # f
    BY <2>1, MemoryFacts
  <2>4. ASSUME NEW g, NEW h, <<g, h>> \in twins'
        PROVE  <<g, h>> \in twins /\ g # f /\ h # f
    BY <2>1, <2>4 DEF Forget
  <2>5. ASSUME NEW g, NEW h, <<g, h>> \in twins'
        PROVE  g \in alive' /\ h \in alive'
    BY <2>3, <2>4, <2>5 DEF TwinsInv
  <2>6. twins' \subseteq twins
    BY <2>1 DEF Forget
  <2>7. QED
    BY <2>2, <2>3, <2>5, <2>6, TwinsKeep
<1>14. CASE Setter
  <2>1. PICK f \in owned \cap Holders, x \in owned \cap (IF Type \in PtrTypes THEN Refs ELSE Items) :
            /\ Memory({}, IF SetterDeletes(Type) THEN {x} ELSE {},
                      [slot EXCEPT ![f] = IF Type \in PtrTypes THEN to[x] ELSE value[x]], to)
            /\ Forget(f)
    BY <1>14 DEF Setter
  <2>2. UNCHANGED <<description, class, value>>
    BY <1>14 DEF Setter
  <2>3. x \notin Holders
    OBVIOUS
  <2> DEFINE D == IF SetterDeletes(Type) THEN {x} ELSE {}
             slot2 == [slot EXCEPT ![f] = IF Type \in PtrTypes THEN to[x] ELSE value[x]]
  <2>4. D \subseteq {x} /\ Memory({}, D, slot2, to) /\ \A h \in Holders : h # f => slot2[h] = slot[h]
    BY <2>1 DEF CInv, CTypeOK
  <2> HIDE DEF D, slot2
  <2>5. slot' = slot2 /\ \A h \in Holders : h \in alive' <=> h \in alive
    BY <2>3, <2>4, MemoryFacts
  <2>6. ASSUME NEW g, NEW h, <<g, h>> \in twins'
        PROVE  <<g, h>> \in twins /\ g # f /\ h # f
    BY <2>1, <2>6 DEF Forget
  <2>7. ASSUME NEW g, NEW h, <<g, h>> \in twins'
        PROVE  g \in alive' /\ h \in alive' /\ slot'[g] = slot[g] /\ slot'[h] = slot[h]
    BY <2>4, <2>5, <2>6, <2>7 DEF TwinsInv
  <2>8. twins' \subseteq twins
    BY <2>1 DEF Forget
  <2>9. QED
    BY <2>2, <2>5, <2>7, <2>8, TwinsKeep
<1>15. CASE SetterNoArgument
  <2>1. PICK f \in Holders : slot' = [slot EXCEPT ![f] = Initial] /\ Forget(f)
    BY <1>15 DEF SetterNoArgument
  <2>2. UNCHANGED <<description, class, alive, value>>
    BY <1>15 DEF SetterNoArgument
  <2>3. ASSUME NEW g, NEW h, <<g, h>> \in twins'
        PROVE  <<g, h>> \in twins /\ g # f /\ h # f
    BY <2>1, <2>3 DEF Forget
  <2>4. \A h \in Holders : h # f => slot'[h] = slot[h]
    BY <2>1 DEF CInv, CTypeOK
  <2>5. ASSUME NEW g, NEW h, <<g, h>> \in twins'
        PROVE  g \in alive' /\ h \in alive' /\ slot'[g] = slot[g] /\ slot'[h] = slot[h]
    BY <2>2, <2>3, <2>4, <2>5 DEF TwinsInv
  <2>6. twins' \subseteq twins
    BY <2>1 DEF Forget
  <2>7. QED
    BY <2>2, <2>5, <2>6, TwinsKeep
<1>16. CASE HolderDuplicate
  <2>1. PICK g \in owned \cap Holders, h \in Fresh(Holders) :
            /\ IF CopiedHow = "pointee"
               THEN \E i \in Fresh(Items) :
                        /\ slot[g] # Null
                        /\ Memory({h, i}, {}, [slot EXCEPT ![h] = i], to)
                        /\ value' = [value EXCEPT ![i] = value[slot[g]]]
               ELSE /\ Memory({h}, {}, [slot EXCEPT ![h] = IF CopiedHow = "member" THEN slot[g] ELSE DefaultSlot], to)
                    /\ UNCHANGED value
            /\ twins' = twins \cup {<<g, h>>}
            /\ UNCHANGED <<description, class>>
    BY <1>16 DEF HolderDuplicate
  <2>2. ~class.static /\ g \in alive /\ g \in Holders /\ h \in Holders /\ h \notin alive
    BY <1>16 DEF HolderDuplicate, Constructible, CInv, OwnedIsAlive, Fresh
  <2>3. PICK new, s : /\ Memory(new, {}, [slot EXCEPT ![h] = s], to)
                      /\ new \cap Holders = {h}
                      /\ IF CopiedHow = "pointee"
                         THEN /\ s \in Items /\ s \notin alive /\ slot[g] # Null
                              /\ value' = [value EXCEPT ![s] = value[slot[g]]]
                         ELSE value' = value /\ (CopiedHow = "member" => s = slot[g])
    <3>1. CASE CopiedHow = "pointee"
      <4>1. PICK i \in Fresh(Items) :
                /\ slot[g] # Null
                /\ Memory({h, i}, {}, [slot EXCEPT ![h] = i], to)
                /\ value' = [value EXCEPT ![i] = value[slot[g]]]
        BY <2>1, <3>1
      <4>2. i \in Items /\ i \notin alive /\ {h, i} \cap Holders = {h}
        BY <2>2 DEF Fresh
      <4>3. QED
        BY <3>1, <4>1, <4>2
    <3>2. CASE CopiedHow # "pointee"
      <4> DEFINE s1 == IF CopiedHow = "member" THEN slot[g] ELSE DefaultSlot
      <4>1. Memory({h}, {}, [slot EXCEPT ![h] = s1], to) /\ value' = value /\ {h} \cap Holders = {h}
        BY <2>1, <2>2, <3>2
      <4>2. CopiedHow = "member" => s1 = slot[g]
        OBVIOUS
      <4> HIDE DEF s1
      <4>3. QED
        BY <3>2, <4>1, <4>2
    <3>3. QED
      BY <3>1, <3>2
  <2> DEFINE slot2 == [slot EXCEPT ![h] = s]
  <2>4. \A f \in Holders : slot2[f] = IF f = h THEN s ELSE slot[f]
    BY <2>2 DEF CInv, CTypeOK
  <2>5. Memory(new, {}, slot2, to)
    BY <2>3
  <2> HIDE DEF slot2
  <2>6. slot' = slot2 /\ \A f \in Holders : f \in alive' <=> f \in alive \/ f = h
    BY <2>2, <2>3, <2>5, MemoryFacts
  <2>7. ASSUME NEW f \in Holders \cap alive
        PROVE  slot'[f] = slot[f] /\ (slot[f] \in Items => slot[f] \in alive /\ value'[slot[f]] = value[slot[f]])
    <3>1. slot'[f] = slot[f]
      BY <2>2, <2>4, <2>6
    <3>2. slot[f] \in Items => slot[f] \in alive
      BY PointersBefore DEF CInv, PointedIsAlive
    <3>3. \A j \in Items \cap alive : value'[j] = value[j]
      BY <2>3 DEF CInv, CTypeOK
    <3>4. QED
      BY <3>1, <3>2, <3>3
  <2>8. Type' = Type /\ CopyInferred' = CopyInferred
    BY <2>1, ClassStays DEF CopyInferred
  <2>9. ASSUME NEW e, NEW f, <<e, f>> \in twins
        PROVE  e \in Holders \cap alive /\ f \in Holders \cap alive
    BY <2>9 DEF TwinsInv
  <2>10. ASSUME CopyInferred, NEW e, NEW f, <<e, f>> \in twins
         PROVE  Agree(e, f)'
    <3>1. Agree(e, f)
      BY <2>10 DEF TwinsInv
    <3>2. e \in Holders \cap alive /\ f \in Holders \cap alive
      BY <2>9, <2>10
    <3>3. QED
      BY <2>7, <2>8, <3>1, <3>2 DEF Agree
  <2>11. ASSUME CopyInferred
         PROVE  Agree(g, h)'
    <3>1. CopiedHow = IF Type \in PtrTypes THEN "pointee" ELSE "member"
      BY <2>2, <2>11, CopyIsInferred DEF CInv
    <3>2. slot'[h] = s
      BY <2>2, <2>4, <2>6
    <3>3. CASE Type \in PtrTypes
      <4>1. slot[g] \in Items /\ s \in Items /\ s \notin alive /\ value' = [value EXCEPT ![s] = value[slot[g]]]
        BY <2>2, <2>3, <3>1, <3>3 DEF CInv, SlotsFit
      <4>2. value'[s] = value[slot[g]]
        BY <4>1 DEF CInv, CTypeOK
      <4>3. QED
        BY <2>2, <2>7, <2>8, <3>2, <3>3, <4>1, <4>2 DEF Agree
    <3>4. CASE Type \notin PtrTypes
      BY <2>2, <2>3, <2>7, <2>8, <3>1, <3>2, <3>4 DEF Agree
    <3>5. QED
      BY <3>3, <3>4
  <2>12. \A e, f : <<e, f>> \in twins' => <<e, f>> \in twins \/ (e = g /\ f = h)
    BY <2>1
  <2>13. \A e, f : <<e, f>> \in twins' => e \in alive' \cap Holders /\ f \in alive' \cap Holders
    BY <2>2, <2>6, <2>9, <2>12
  <2>14. CopyInferred' => \A e, f : <<e, f>> \in twins' => Agree(e, f)'
    BY <2>8, <2>10, <2>11, <2>12
  <2>15. QED
    BY <2>1, <2>2, <2>13, <2>14 DEF TwinsInv
<1>17. QED
  BY <1>1, <1>2, <1>3, <1>4, <1>5, <1>6, <1>7, <1>8, <1>9, <1>10, <1>11, <1>12, <1>13, <1>14, <1>15, <1>16 DEF CNext

(* A duplicate that the generated copy constructor made shares nothing with   *)
(* what it was copied from: TypeMembVarCopyOp copies what a pointer points to. *)
THEOREM TwinsAreInvariant == CSpec => []TwinsInv
<1>1. CInit => TwinsInv
  BY DEF CInit, TwinsInv
<1>2. TwinsInv /\ CInv /\ [CNext]_vars => TwinsInv'
  BY TwinsNext
<1>3. QED
  BY <1>1, <1>2, CInvariant, PTL DEF CSpec

(* Changing a duplicate never changes what it was copied from, where the copy *)
(* constructor's list and definition are left to fillCopyConstructor.         *)
THEOREM TwinsStayApart == CSpec => []TwinsAreApart
<1>1. ASSUME CInv, TwinsInv, CopyInferred, NEW t \in twins, slot[t[1]] = slot[t[2]]
      PROVE  slot[t[1]] \notin Items
  <2>1. t = <<t[1], t[2]>>
    BY <1>1 DEF CInv, CTypeOK
  <2>2. t[1] \in Holders \cap alive /\ Agree(t[1], t[2])
    BY <1>1, <2>1 DEF TwinsInv
  <2>3. QED
    BY <1>1, <2>2, AddressAssumption DEF Agree, CInv, SlotsFit
<1>2. CInv /\ TwinsInv => TwinsAreApart
  BY <1>1 DEF TwinsAreApart
<1>3. QED
  BY <1>2, CInvariant, TwinsAreInvariant, PTL

(* The operator== and the hash that the generator infers agree with the copy  *)
(* constructor and with each other: a duplicate is equal until it is changed, *)
(* and equal holders have equal hashes.                                       *)
THEOREM EqualityStaysSound == CSpec => []EqualityIsSound
<1>1. ASSUME CInv, TwinsInv, CopyInferred, EqualityInferred, ~class.equalityOperator.comparePointers,
             NEW t \in twins
      PROVE  Equal(t[1], t[2])
  <2>1. t = <<t[1], t[2]>>
    BY <1>1 DEF CInv, CTypeOK
  <2>2. Agree(t[1], t[2])
    BY <1>1, <2>1 DEF TwinsInv
  <2>3. Pointee(slot[t[1]]) = Pointee(slot[t[2]]) /\ (Type \notin PtrTypes => slot[t[1]] = slot[t[2]])
    BY <2>2 DEF Agree, Pointee
  <2>4. QED
    BY <1>1, <2>3, EqualityIsInferred DEF Equal, CInv
<1>2. ASSUME CInv, HashInferred, NEW g \in Live(Holders), NEW h \in Live(Holders), Equal(g, h)
      PROVE  Hash(g) = Hash(h)
  <2> DEFINE compared == class.equalityOperator.comparedProperties
             hashed == class.hashOperator.hashedProperties
  <2>1. /\ class.hashOperator.usePointerAsHash = class.equalityOperator.comparePointers
        /\ DOMAIN hashed = DOMAIN compared
        /\ \A k \in DOMAIN hashed : hashed[k].hasher = IF Type \in PtrTypes THEN "pointee" ELSE "member"
    BY <1>2, HashIsInferred DEF CInv
  <2>2. CASE class.equalityOperator.comparePointers
    BY <1>2, <2>2 DEF Equal
  <2>3. CASE ~class.equalityOperator.comparePointers
    <3>1. \A f \in Live(Holders) : Type \notin PtrTypes => slot[f] \notin Items
      BY <1>2, AddressAssumption DEF CInv, SlotsFit, Live
    <3>2. ASSUME NEW k \in DOMAIN compared
          PROVE  /\ Pointee(slot[g]) = Pointee(slot[h])
                 /\ Type \notin PtrTypes => slot[g] = slot[h]
      BY <1>2, <2>3, <3>1 DEF Equal, Pointee
    <3>3. QED
      BY <2>1, <2>3, <3>2 DEF Hash
  <2>4. QED
    BY <2>2, <2>3
<1>3. CInv /\ TwinsInv => EqualityIsSound
  BY <1>1, <1>2 DEF EqualityIsSound
<1>4. QED
  BY <1>3, CInvariant, TwinsAreInvariant, PTL
=============================================================================
