----------------------------- MODULE Generator -----------------------------
(***************************************************************************)
(* A developer's interface descriptions and the code generator that is run *)
(* on them (src/sdk/gentool/generator.js): a run reads every description,  *)
(* then generates the ten files of each interface language by language,    *)
(* then the files that list the interfaces.  Descriptions are edited at    *)
(* any time, and a run may be killed at any time.                          *)
(*                                                                         *)
(* The text of a file stands for everything it is made from: the filled    *)
(* class (of which it keeps a description that is filled like this), and   *)
(* the names of the classes it refers to.                                  *)
(***************************************************************************)
EXTENDS Bindings

CONSTANTS
    Directory,      \* the names of the interfaces, in the order readdirSync lists them
    Descriptions,   \* interface name -> the descriptions its author may write
    Absent,         \* there is no such description
    NoFile, Torn,   \* there is no such file; the run was killed while it wrote the file
    Nothing,        \* no run has completed since files were last left half generated
    MaxEdits, MaxKills    \* bounds

ASSUME GeneratorAssumption ==
    /\ Directory \in Seq(ToSet(Directory)) /\ IsInjective(Directory)
    /\ DOMAIN Descriptions = ToSet(Directory)
    /\ {MaxEdits, MaxKills} \subseteq Nat

\* A list in a description is a JSON array.
IsArray(list) == DOMAIN list = 1..Len(list)

ASSUME DescriptionsAssumption ==
    \A i \in DOMAIN Descriptions : \A d \in Descriptions[i] : Accepted(d) =>
        IsArray(Given(d, "properties")) /\ IsArray(Given(Given(d, "equalityOperator"), "comparedProperties"))

VARIABLES
    described,      \* the directory of descriptions
    files,     \* the generated files of each interface
    shared,    \* the generated files that list the interfaces
    phase,     \* what the run is doing
    todo, at,  \* positions in Directory it has still to come to; place in Writers or Lists
    seen,      \* the descriptions the run has read
    failed,    \* the interfaces the run has reported an error for
    wrote,   \* the files the run has written
    last,      \* what the last run that completed saw and reported
    edits, kills

run == <<phase, todo, at, seen, failed, wrote>>
vars == <<described, files, shared, run, last, edits, kills>>

Interfaces == ToSet(Directory)
AllDescriptions == UNION {Descriptions[i] : i \in Interfaces}

Writers == <<"C header", "C source", "C++ header", "C++ source", "Web C++", "JS", "JS transform",
             "ObjC header", "ObjC source", "Swift">>
\* The texts of a language are all made before the first is written.
LanguageStarts == {1, 3, 5, 8, 10}

Lists == <<".gitignore", "CMake", "Umbrella", "Bridging", "API2 C++", "API2 JS">>

\* What filling makes of the descriptions.
FilledOf == [d \in {e \in AllDescriptions : Accepted(e)} |-> Filled(d)]

\* `interfaces' of generate(): those that were filled without an error.
Registered(read) == [i \in {j \in DOMAIN read : read[j] \in DOMAIN FilledOf} |-> FilledOf[read[i]]]

\* The classes that a class description refers to.
Refers(d) == {p.of : p \in {q \in ToSet(FilledOf[d].properties) : q.type \in ClassTypes}}

\* Of the descriptions that are filled alike, one.
Meaning == [d \in DOMAIN FilledOf |-> CHOOSE e \in DOMAIN FilledOf : FilledOf[e] = FilledOf[d]]

Text(read, i) ==
    LET interfaces == Registered(read)
    IN  [class |-> Meaning[read[i]],
         names |-> [j \in Refers(read[i]) \cap DOMAIN interfaces |-> interfaces[j].name]]

\* API2 is made for these classes (shared.js), whether they are described or not.
requiredVectorsOfClasses == {"Vector2", "Vector3"}

ListText(read, list) ==
    IF list \in {"API2 C++", "API2 JS"} THEN requiredVectorsOfClasses ELSE DOMAIN Registered(read)

(***************************************************************************)
(* What makes generating an interface throw                                *)
(***************************************************************************)
Unknown(read, p) == p.type \in ClassTypes /\ p.of \notin DOMAIN Registered(read)

\* The copy constructor's and move constructor's lines of a property without
\* a value use a variable that is out of scope.
BlankValue(class) ==
    \E ctor \in {class.copyConstructor, class.moveConstructor} :
        /\ ctor.definition = "defined" /\ ~(ctor.custom /\ ctor.customOperator)
        /\ \E k \in DOMAIN ctor.initializedProperties : ctor.initializedProperties[k].value = ""

\* The C files name the types of accessors, the C++ files those of all properties.
Throws(read, i, start) ==
    LET class == Registered(read)[i]
    IN  \/ start = 1 /\ \E p \in ToSet(class.properties) : (p.hasGetter \/ p.hasSetter) /\ Unknown(read, p)
        \/ start = 3 /\ \E p \in ToSet(class.properties) : Unknown(read, p)
        \/ start = 3 /\ BlankValue(class)

(***************************************************************************)
(* Actions                                                                 *)
(***************************************************************************)
Init ==
    /\ described \in [Interfaces -> {Absent} \cup AllDescriptions]
    /\ \A i \in Interfaces : described[i] \in Descriptions[i] \cup {Absent}
    /\ files = [i \in Interfaces |-> [w \in ToSet(Writers) |-> NoFile]]
    /\ shared = [list \in ToSet(Lists) |-> NoFile]
    /\ phase = "idle" /\ todo = {} /\ at = 1 /\ seen = Empty /\ failed = {} /\ wrote = {}
    /\ last = Nothing
    /\ edits = 0 /\ kills = 0

Edit(i) ==
    /\ edits < MaxEdits
    /\ \E d \in (Descriptions[i] \cup {Absent}) \ {described[i]} : described' = [described EXCEPT ![i] = d]
    /\ edits' = edits + 1
    /\ UNCHANGED <<files, shared, run, last, kills>>

StartRun ==
    /\ phase = "idle"
    /\ phase' = "reading"
    /\ todo' = {k \in DOMAIN Directory : described[Directory[k]] # Absent}
    /\ at' = 1 /\ seen' = Empty /\ failed' = {} /\ wrote' = {}
    /\ UNCHANGED <<described, files, shared, last, edits, kills>>

\* The loops take the interfaces in the order of Directory.
IsNext(k) == k \in todo /\ \A j \in todo : k <= j

ReadInterface ==
    /\ phase = "reading"
    /\ \E k \in DOMAIN Directory :
        LET i == Directory[k]
        IN  /\ IsNext(k) /\ described[i] # Absent
            /\ seen' = [j \in DOMAIN seen \cup {i} |-> IF j = i THEN described[i] ELSE seen[j]]
            /\ failed' = IF described[i] \in DOMAIN FilledOf THEN failed ELSE failed \cup {i}
            /\ todo' = todo \ {k}
    /\ UNCHANGED <<described, files, shared, phase, at, wrote, last, edits, kills>>

\* The file was deleted after it was listed: nothing catches the error.
ReadFails ==
    /\ phase = "reading"
    /\ \E k \in DOMAIN Directory : IsNext(k) /\ described[Directory[k]] = Absent
    /\ phase' = "idle" /\ todo' = {}
    /\ UNCHANGED <<described, files, shared, at, seen, failed, wrote, last, edits, kills>>

StartGenerating ==
    /\ phase = "reading" /\ todo = {}
    /\ phase' = "generating"
    /\ todo' = {k \in DOMAIN Directory : Directory[k] \in DOMAIN Registered(seen)}
    /\ UNCHANGED <<described, files, shared, at, seen, failed, wrote, last, edits, kills>>

\* Mutant: the next interface starts where this one stopped.
NextInterfaceKeepsPlace(k) == todo' = todo \ {k} /\ at' = at + 1

NextInterface(k) == todo' = todo \ {k} /\ at' = 1

\* Mutant: the error is swallowed.
GenerateFailsSilently ==
    /\ phase = "generating" /\ at \in LanguageStarts
    /\ \E k \in DOMAIN Directory : IsNext(k) /\ Throws(seen, Directory[k], at) /\ NextInterface(k)
    /\ UNCHANGED <<described, files, shared, phase, seen, failed, wrote, last, edits, kills>>

\* The error is logged, and the next interface is generated.
GenerateFails ==
    /\ phase = "generating" /\ at \in LanguageStarts
    /\ \E k \in DOMAIN Directory :
        /\ IsNext(k) /\ Throws(seen, Directory[k], at)
        /\ failed' = failed \cup {Directory[k]}
        /\ NextInterface(k)
    /\ UNCHANGED <<described, files, shared, phase, seen, wrote, last, edits, kills>>

\* Mutant: the file is written whatever it holds.
MustWriteAlways(content, text) == TRUE

\* Mutant: a file that is there is taken to be the right one.
MustWriteMissing(content, text) == content = NoFile

MustWrite(content, text) == content # text

WriteFile ==
    /\ phase = "generating"
    /\ \E k \in DOMAIN Directory :
        LET i == Directory[k]
            w == Writers[at]
            text == Text(seen, i)
        IN  /\ IsNext(k)
            /\ at \in LanguageStarts => ~Throws(seen, i, at)
            /\ IF MustWrite(files[i][w], text)
               THEN files' = [files EXCEPT ![i][w] = text] /\ wrote' = wrote \cup {<<i, w>>}
               ELSE UNCHANGED <<files, wrote>>
            /\ IF at < Len(Writers) THEN at' = at + 1 /\ UNCHANGED todo ELSE NextInterface(k)
    /\ UNCHANGED <<described, shared, phase, seen, failed, last, edits, kills>>

StartSharing ==
    /\ phase = "generating" /\ todo = {}
    /\ phase' = "sharing"
    /\ UNCHANGED <<described, files, shared, todo, at, seen, failed, wrote, last, edits, kills>>

\* Of these files only .gitignore is written whatever it holds.
WriteList ==
    /\ phase = "sharing"
    /\ LET list == Lists[at]
           text == ListText(seen, list)
       IN  IF list = ".gitignore" \/ MustWrite(shared[list], text)
           THEN shared' = [shared EXCEPT ![list] = text] /\ wrote' = wrote \cup {<<"Lists", list>>}
           ELSE UNCHANGED <<shared, wrote>>
    /\ IF at < Len(Lists)
       THEN at' = at + 1 /\ UNCHANGED <<phase, last>>
       ELSE at' = 1 /\ phase' = "idle" /\ last' = [seen |-> seen, failed |-> failed]
    /\ UNCHANGED <<described, files, todo, seen, failed, edits, kills>>

\* A run that is killed while it reads has touched nothing.  Later it may be
\* in the middle of a file.
Kill ==
    /\ phase # "idle" /\ kills < MaxKills
    /\ phase' = "idle" /\ todo' = {} /\ at' = 1
    /\ kills' = kills + 1
    /\ last' = IF phase = "reading" THEN last ELSE Nothing
    /\ \/ UNCHANGED <<files, shared>>
       \/ /\ phase = "generating"
          /\ \E k \in DOMAIN Directory :
                LET i == Directory[k]
                IN  /\ IsNext(k)
                    /\ at \in LanguageStarts => ~Throws(seen, i, at)
                    /\ MustWrite(files[i][Writers[at]], Text(seen, i))
                    /\ files' = [files EXCEPT ![i][Writers[at]] = Torn]
          /\ UNCHANGED shared
       \/ /\ phase = "sharing"
          /\ Lists[at] = ".gitignore" \/ MustWrite(shared[Lists[at]], ListText(seen, Lists[at]))
          /\ shared' = [shared EXCEPT ![Lists[at]] = Torn]
          /\ UNCHANGED files
    /\ UNCHANGED <<described, seen, failed, wrote, edits>>

Next ==
    \/ \E i \in Interfaces : Edit(i)
    \/ StartRun \/ ReadInterface \/ ReadFails \/ StartGenerating
    \/ GenerateFails \/ WriteFile \/ StartSharing \/ WriteList
    \/ Kill

Spec == Init /\ [][Next]_vars

-----------------------------------------------------------------------------
(***************************************************************************)
(* Properties of the runs                                                  *)
(***************************************************************************)
ClassIn(i, w) == FilledOf[files[i][w].class]

\* The files are of the kinds the generator writes, and the run is at one of
\* the places of generate().
GeneratorTypeOK ==
    /\ \A i \in Interfaces : described[i] \in Descriptions[i] \cup {Absent}
    /\ \A i \in Interfaces, w \in ToSet(Writers) :
            files[i][w] \notin {NoFile, Torn} => DOMAIN files[i][w].names \subseteq Refers(files[i][w].class)
    /\ \A list \in ToSet(Lists) : shared[list] \in {NoFile, Torn, requiredVectorsOfClasses} \cup SUBSET Interfaces
    /\ phase \in {"idle", "reading", "generating", "sharing"} /\ (phase \in {"idle", "sharing"} => todo = {})
    /\ todo \subseteq DOMAIN Directory
    /\ at \in DOMAIN Writers /\ (phase = "sharing" => at \in DOMAIN Lists)
    /\ DOMAIN seen \subseteq Interfaces /\ failed \subseteq DOMAIN seen
    /\ wrote \subseteq (Interfaces \X ToSet(Writers)) \cup ({"Lists"} \X ToSet(Lists))
    /\ last = Nothing \/ last.failed \subseteq DOMAIN last.seen
    /\ edits \in 0..MaxEdits /\ kills \in 0..MaxKills

\* A description the generator has no reason to fail on: it is accepted, what
\* it refers to is accepted, and it leaves no value blank.
Sound(read, i) ==
    /\ read[i] \in DOMAIN FilledOf
    /\ \A j \in Refers(read[i]) : j \in DOMAIN read /\ read[j] \in DOMAIN FilledOf
    /\ ~BlankValue(FilledOf[read[i]])

\* Nothing has touched the generated files since a run completed.
Settled == last # Nothing /\ phase = "idle"

\* Once a run has completed, the ten files of every sound description are what
\* that description says, and the lists list every description that was
\* accepted: whatever earlier runs failed on or were killed in, and whatever
\* is wrong with the other descriptions (the try blocks of generate() and
\* writeFileContentIfDifferent).
UpToDate ==
    Settled =>
        /\ \A i \in DOMAIN last.seen : Sound(last.seen, i) =>
                i \notin last.failed /\ \A w \in ToSet(Writers) : files[i][w] = Text(last.seen, i)
        /\ \A list \in ToSet(Lists) : shared[list] = ListText(last.seen, list)

\* What a run could not generate it has reported: an interface whose files
\* are not what its description says is one of those with a logged error.
NothingFailsSilently ==
    Settled => \A i \in DOMAIN last.seen \ last.failed :
                    \A w \in ToSet(Writers) : files[i][w] = Text(last.seen, i)

\* Running the generator again on what it has seen writes no file but
\* .gitignore, so that nothing is built again: also where it fails on some of
\* the descriptions, and where it did so in the middle of an interface.
RerunWritesNothing ==
    [][(last # Nothing /\ last.seen = seen /\ phase \in {"generating", "sharing"})
        => wrote' \subseteq {<<"Lists", ".gitignore">>}]_vars

(***************************************************************************)
(* Properties of the files                                                 *)
(***************************************************************************)
Generated == {i \in DOMAIN last.seen : i \notin last.failed}

\* What the author of a class writes by hand (the custom options).
ByHandConstructors(class) ==
    When(class.parameterlessConstructor.custom, Sole("constructor")) \cup
    When(class.copyConstructor.custom, Sole("copy constructor")) \cup
    When(class.copyConstructor.customOperator, Sole("copy assignment")) \cup
    When(class.moveConstructor.custom, Sole("move constructor")) \cup
    When(class.moveConstructor.customOperator, Sole("move assignment")) \cup
    When(class.destructor.custom, Sole("destructor"))

ByHandOperators(class) ==
    When(class.equalityOperator.custom, Sole("operator==")) \cup
    When(class.equalityOperator.customInequality, Sole("operator!=")) \cup
    When(class.hashOperator.custom, Sole("std::hash")) \cup
    When(class.toStringOperator.custom, Sole("operator<<"))

ByHandProperties(class) ==
    ForEach(class, "getter", LAMBDA p : p.getterCustom) \cup
    ForEach(class, "setter", LAMBDA p : p.setterCustom)

ByHand(class) == ByHandConstructors(class) \cup ByHandOperators(class) \cup ByHandProperties(class)

\* A static property without a member variable is defined all the same, and
\* does not compile: this is left out below.
Undeclared(class) == ForEach(class, "static member", LAMBDA p : p.static /\ ~p.hasMemberVar)

\* C++ has no two members of one name; the generator does not look.
NamesDiffer(class) ==
    \A j, k \in DOMAIN class.properties : class.properties[j].name = class.properties[k].name => j = k

\* Everything a generated header declares has exactly one definition: in the
\* generated source, or by hand where the option says so.
DeclaredIsDefined ==
    Settled => \A i \in Generated :
        /\ CHeader(ClassIn(i, "C header")) \subseteq CSource(ClassIn(i, "C source"))
        /\ ObjCHeader(ClassIn(i, "ObjC header")) \subseteq ObjCSource(ClassIn(i, "ObjC source"))
        /\ LET declared == CXXHeader(ClassIn(i, "C++ header"))
               source == ClassIn(i, "C++ source")
           IN  NamesDiffer(source) => declared \ ByHand(source) = CXXSource(source) \ Undeclared(source)

\* The constructors that other files may use.
Public(class) == class.parameterlessConstructor.visibility = "public" /\ class.copyConstructor.visibility = "public"

\* What the compiler supplies where the header is silent.
Implicit(class) ==
    When(class.parameterlessConstructor.definition = "omitted", Sole("constructor")) \cup
    When(class.copyConstructor.definition = "omitted", Sole("copy constructor")) \cup
    When(class.destructor.definition = "omitted", Sole("destructor"))

\* The generated files of a class use of its other generated files only what
\* those declare; and of the class of a property too, if that class has a
\* public copy constructor.  (The C and Objective-C sources also use
\* constructors that are not public: such a class does not compile.)
UsesAreDeclared ==
    Settled => \A i \in Generated :
        LET header == ClassIn(i, "C++ header")
            cxx == CXXHeader(header) \cup Implicit(header)
            c == ClassIn(i, "C source")
        IN  /\ Public(c) => CSourceUses(c) \cup ObjCSourceUses(ClassIn(i, "ObjC source")) \subseteq cxx
            /\ WebCXXUses(ClassIn(i, "Web C++")) \subseteq cxx
            /\ WebJSUses(ClassIn(i, "JS")) \subseteq WebCXX(ClassIn(i, "Web C++"))
            /\ SwiftUses(ClassIn(i, "Swift")) \subseteq ObjCHeader(ClassIn(i, "ObjC header"))
            /\ \A p \in {q \in ToSet(c.properties) : q.type \in ClassTypes /\ q.of \in Generated} :
                    LET of == ClassIn(p.of, "C header")
                    IN  CDuplicate(of) /\ of.copyConstructor.visibility = "public" =>
                            /\ CSourceUsesOf(p) \subseteq CHeader(of)
                            /\ ObjCSourceUsesOf(p) \subseteq ObjCHeader(ClassIn(p.of, "ObjC header"))
                            /\ <<"smart_ptr", NoName>> \in WebCXX(ClassIn(p.of, "Web C++"))

\* The C++ definitions name only member variables that the class has, unless
\* its author has said himself that a property has none, or that what has none
\* is to be compared or hashed without its getter.
SaysMembers(d) ==
    LET equality == Given(d, "equalityOperator")
        hash == Given(d, "hashOperator")
        Denies(list, option) == \E k \in DOMAIN list : option \in DOMAIN list[k] /\ ~list[k][option]
    IN  \/ Denies(Given(d, "properties"), "hasMemberVar")
        \/ Denies(Given(equality, "comparedProperties"), "useGetter")
        \/ Denies(Given(hash, "hashedProperties"), "useGetter")

MembersExist ==
    Settled => \A i \in Generated :
        ~SaysMembers(last.seen[i]) =>
            CXXSourceMembers(ClassIn(i, "C++ source")) \subseteq
                ForEach(ClassIn(i, "C++ header"), "member", LAMBDA p : p.hasMemberVar)

\* Once a run has completed, the files of all languages fit together.
FilesFitTogether == DeclaredIsDefined /\ UsesAreDeclared /\ MembersExist

\* An accessor that is noexcept because of its type does nothing that throws:
\* it neither returns a copy nor copies what it is given.
NoexceptCannotThrow ==
    Settled => \A i \in Generated :
        LET given == Given(last.seen[i], "properties")
            Said(p) == {"getterNoexcept", "setterNoexcept"} \cap DOMAIN p # {}
        IN  (\A k \in DOMAIN given : ~Said(given[k])) => CXXThrowing(ClassIn(i, "C++ source")) = {}
=============================================================================
