--------------------------- MODULE GeneratorProofs ---------------------------
(***************************************************************************)
(* For any interfaces, any descriptions of them, and any edits and kills:  *)
(* what a completed run leaves behind is what the descriptions say, or was *)
(* reported; running the generator again changes nothing; and the files of *)
(* all languages fit together.                                             *)
(***************************************************************************)
EXTENDS Generator, WellFoundedInduction, TLAPS

(* No language whose text is needed for the a-th file, or an earlier one, fails. *)
Reached(read, i, a) == \A s \in LanguageStarts : s <= a => ~Throws(read, i, s)

(* The files of an interface are current as far as its run gets. *)
Current(content, read, i) ==
    \A a \in DOMAIN Writers : Reached(read, i, a) => content[i][Writers[a]] = Text(read, i)

(* A run has done all it can for an interface, and reported it if that is not all. *)
Done(content, read, reported, i) ==
    /\ Current(content, read, i)
    /\ i \notin reported => Reached(read, i, Len(Writers))

(* A run has come to the a-th file of an interface. *)
Begun(content, read, i, a) ==
    \A b \in DOMAIN Writers : b < a => content[i][Writers[b]] = Text(read, i) /\ Reached(read, i, b)

(* The lists before the a-th are current. *)
ListsBefore(lists, read, a) == \A b \in DOMAIN Lists : b < a => lists[Lists[b]] = ListText(read, Lists[b])

(* What a run that has read its descriptions may have reported. *)
Accounted(read, reported) ==
    /\ DOMAIN read \subseteq Interfaces /\ reported \subseteq DOMAIN read
    /\ \A i \in DOMAIN read \ reported : i \in DOMAIN Registered(read)
    /\ \A i \in reported : ~Sound(read, i)

(* The state has the shape that the actions rely on. *)
Shape ==
    /\ DOMAIN files = Interfaces /\ \A i \in Interfaces : DOMAIN files[i] = ToSet(Writers)
    /\ DOMAIN shared = ToSet(Lists)
    /\ phase \in {"idle", "reading", "generating", "sharing"}
    /\ todo \subseteq DOMAIN Directory
    /\ at \in DOMAIN Writers
    /\ phase \in {"idle", "sharing"} => todo = {}
    /\ phase \in {"idle", "reading"} \/ (phase = "generating" /\ todo = {}) => at = 1
    /\ phase = "sharing" => at \in DOMAIN Lists

(* The run has read some interfaces, each of them once. *)
Reading ==
    phase = "reading" =>
        /\ DOMAIN seen \subseteq Interfaces /\ failed \subseteq DOMAIN seen
        /\ \A k \in todo : Directory[k] \notin DOMAIN seen
        /\ \A i \in DOMAIN seen : i \in failed <=> seen[i] \notin DOMAIN FilledOf

(* The interfaces before the present one are current, and so are the files of *)
(* the present one before the present one.                                    *)
Generating ==
    phase = "generating" =>
        /\ Accounted(seen, failed)
        /\ \A k \in todo : Directory[k] \in DOMAIN Registered(seen)
        /\ \A k \in DOMAIN Directory \ todo :
                Directory[k] \in DOMAIN Registered(seen) => Done(files, seen, failed, Directory[k])
        /\ \A k \in todo : IsNext(k) => Begun(files, seen, Directory[k], at)

Sharing ==
    phase = "sharing" =>
        /\ Accounted(seen, failed)
        /\ \A i \in DOMAIN Registered(seen) : Done(files, seen, failed, i)
        /\ ListsBefore(shared, seen, at)

(* What the last run that completed has reported. *)
LastAccounted ==
    last # Nothing =>
        /\ Accounted(last.seen, last.failed)
        /\ \A i \in DOMAIN last.seen \ last.failed : Reached(last.seen, i, Len(Writers))

(* What it left behind is there until another run, that saw something else, *)
(* generates.                                                               *)
Undisturbed == last # Nothing /\ (phase \in {"idle", "reading"} \/ last.seen = seen)

LastCurrent ==
    Undisturbed =>
        /\ \A i \in DOMAIN Registered(last.seen) : Current(files, last.seen, i)
        /\ ListsBefore(shared, last.seen, Len(Lists) + 1)

(* A run starts with nothing written. *)
NothingWritten ==
    /\ phase = "reading" => wrote = {}
    /\ Undisturbed /\ phase \in {"generating", "sharing"} => wrote \subseteq {<<"Lists", ".gitignore">>}

GInv ==
    /\ Shape /\ Reading /\ Generating /\ Sharing
    /\ LastAccounted /\ LastCurrent /\ NothingWritten

-----------------------------------------------------------------------------
LEMMA DirectoryFacts ==
    /\ Interfaces = {Directory[k] : k \in DOMAIN Directory}
    /\ \A k \in DOMAIN Directory : k \in Nat
    /\ \A j, k \in DOMAIN Directory : Directory[j] = Directory[k] => j = k
  BY GeneratorAssumption DEF Interfaces, ToSet, IsInjective

LEMMA WritersFacts ==
    /\ DOMAIN Writers = 1..10 /\ Len(Writers) = 10
    /\ \A a \in DOMAIN Writers : Writers[a] \in ToSet(Writers)
<1>1. DOMAIN Writers = 1..10
  BY DEF Writers
<1>2. Len(Writers) = 10
  BY DEF Writers
<1>3. QED
  BY <1>1, <1>2 DEF ToSet

LEMMA ListsFacts ==
    /\ DOMAIN Lists = 1..6 /\ Len(Lists) = 6
    /\ \A a \in DOMAIN Lists : Lists[a] \in ToSet(Lists)
<1>1. DOMAIN Lists = 1..6
  BY DEF Lists
<1>2. Len(Lists) = 6
  BY DEF Lists
<1>3. QED
  BY <1>1, <1>2 DEF ToSet

LEMMA StartsFacts ==
    LanguageStarts \subseteq DOMAIN Writers /\ 1 \in LanguageStarts
  BY WritersFacts DEF LanguageStarts

LEMMA RegisteredDomain ==
    ASSUME NEW read
    PROVE  /\ DOMAIN Registered(read) = {i \in DOMAIN read : read[i] \in DOMAIN FilledOf}
           /\ \A i \in DOMAIN Registered(read) : Registered(read)[i] = FilledOf[read[i]]
  BY DEF Registered

(* Generating an interface throws only if its description is not sound. *)
LEMMA ThrowsUnsound ==
    ASSUME NEW read, NEW i \in DOMAIN Registered(read), NEW start, Throws(read, i, start)
    PROVE  ~Sound(read, i)
<1> DEFINE class == Registered(read)[i]
<1>1. i \in DOMAIN read /\ read[i] \in DOMAIN FilledOf /\ class = FilledOf[read[i]]
  BY RegisteredDomain
<1>2. BlankValue(class) \/ \E p \in ToSet(class.properties) : Unknown(read, p)
  BY DEF Throws
<1> HIDE DEF class
<1>3. CASE BlankValue(class)
  BY <1>1, <1>3 DEF Sound
<1>4. CASE \E p \in ToSet(class.properties) : Unknown(read, p)
  <2>1. PICK p \in ToSet(class.properties) : Unknown(read, p)
    BY <1>4
  <2>2. p.of \in Refers(read[i])
    BY <1>1, <2>1 DEF Unknown, Refers
  <2>3. p.of \notin DOMAIN Registered(read)
    BY <2>1 DEF Unknown
  <2>4. QED
    BY <2>2, <2>3, RegisteredDomain DEF Sound
<1>5. QED
  BY <1>2, <1>3, <1>4

-----------------------------------------------------------------------------
(* How the invariants' parts follow from each other within a run.           *)
(* An interface whose turn comes is at its first file.                       *)
LEMMA BegunFirst ==
    ASSUME NEW content, NEW read, NEW i
    PROVE  Begun(content, read, i, 1)
  BY WritersFacts DEF Begun

(* Where no language starts that throws, the run gets one file further. *)
LEMMA ReachesNext ==
    ASSUME NEW content, NEW read, NEW i, NEW a \in DOMAIN Writers,
           Begun(content, read, i, a), a \in LanguageStarts => ~Throws(read, i, a)
    PROVE  Reached(read, i, a)
<1> SUFFICES ASSUME NEW s \in LanguageStarts, s <= a
             PROVE  ~Throws(read, i, s)
  BY DEF Reached
<1>1. s \in DOMAIN Writers /\ s \in Nat /\ a \in Nat
  BY StartsFacts, WritersFacts
<1>2. CASE s = a
  BY <1>2
<1>3. CASE s < a
  <2>1. Reached(read, i, s)
    BY <1>1, <1>3 DEF Begun
  <2>2. QED
    BY <2>1, <1>1 DEF Reached
<1>4. QED
  BY <1>1, <1>2, <1>3

(* Where the next language throws, the files are as current as they get. *)
LEMMA ThrowsCurrent ==
    ASSUME NEW content, NEW read, NEW i, NEW a \in LanguageStarts,
           Begun(content, read, i, a), Throws(read, i, a)
    PROVE  Current(content, read, i)
<1> SUFFICES ASSUME NEW b \in DOMAIN Writers, Reached(read, i, b)
             PROVE  content[i][Writers[b]] = Text(read, i)
  BY DEF Current
<1>1. ~(a <= b)
  BY DEF Reached
<1>2. b < a
  BY <1>1, StartsFacts, WritersFacts
<1>3. QED
  BY <1>2 DEF Begun

(* A file more is current: one of those to come, or the last. *)
LEMMA OneFileMore ==
    ASSUME NEW content, NEW written, NEW read, NEW reported, NEW i, NEW a \in DOMAIN Writers,
           Begun(content, read, i, a), Reached(read, i, a),
           written[i][Writers[a]] = Text(read, i),
           \A b \in DOMAIN Writers : written[i][Writers[b]] \in {content[i][Writers[b]], Text(read, i)}
    PROVE  /\ Begun(written, read, i, a + 1)
           /\ a = Len(Writers) => Done(written, read, reported, i)
<1>1. Begun(written, read, i, a + 1)
  <2> SUFFICES ASSUME NEW b \in DOMAIN Writers, b < a + 1
               PROVE  written[i][Writers[b]] = Text(read, i) /\ Reached(read, i, b)
    BY DEF Begun
  <2>1. CASE b = a
    BY <2>1
  <2>2. CASE b < a
    BY <2>2 DEF Begun
  <2>3. QED
    BY <2>1, <2>2, WritersFacts
<1>2. ASSUME a = Len(Writers)
      PROVE  Done(written, read, reported, i)
  <2>1. \A b \in DOMAIN Writers : b < a + 1
    BY <1>2, WritersFacts
  <2>2. QED
    BY <1>1, <1>2, <2>1 DEF Begun, Done, Current
<1>3. QED
  BY <1>1, <1>2

(* Writing a file of an interface changes only files that hold its text then. *)
LEMMA KeepsDone ==
    ASSUME NEW content, NEW written, NEW read, NEW reported, NEW more, NEW i,
           Done(content, read, reported, i), reported \subseteq more,
           \A b \in DOMAIN Writers : written[i][Writers[b]] \in {content[i][Writers[b]], Text(read, i)}
    PROVE  Done(written, read, more, i)
  BY DEF Done, Current

-----------------------------------------------------------------------------
LEMMA InitInvariant == Init => GInv
  BY WritersFacts, ListsFacts
  DEF Init, GInv, Shape, Reading, Generating, Sharing, LastAccounted, LastCurrent, Undisturbed, NothingWritten

LEMMA StutterInvariant ==
    ASSUME GInv, UNCHANGED <<files, shared, run, last>>
    PROVE  GInv'
  BY DEF GInv, Shape, Reading, Generating, Sharing, LastAccounted, LastCurrent, Undisturbed, NothingWritten,
         IsNext, run

LEMMA StartRunInvariant ==
    ASSUME GInv, StartRun
    PROVE  GInv'
<1>1. Shape'
  BY DEF GInv, Shape, StartRun
<1>2. Reading'
  BY DEF StartRun, Reading, Empty
<1>3. Generating' /\ Sharing' /\ NothingWritten'
  BY DEF StartRun, Generating, Sharing, NothingWritten, Undisturbed
<1>4. LastAccounted' /\ LastCurrent'
  BY DEF GInv, StartRun, LastAccounted, LastCurrent, Undisturbed
<1>5. QED
  BY <1>1, <1>2, <1>3, <1>4 DEF GInv

LEMMA ReadInterfaceInvariant ==
    ASSUME GInv, ReadInterface
    PROVE  GInv'
<1>1. PICK k \in DOMAIN Directory :
        /\ IsNext(k)
        /\ seen' = [j \in DOMAIN seen \cup {Directory[k]} |->
                        IF j = Directory[k] THEN described[Directory[k]] ELSE seen[j]]
        /\ failed' = IF described[Directory[k]] \in DOMAIN FilledOf THEN failed ELSE failed \cup {Directory[k]}
        /\ todo' = todo \ {k}
  BY DEF ReadInterface
<1>2. phase = "reading" /\ UNCHANGED <<files, shared, phase, at, wrote, last>>
  BY DEF ReadInterface
<1>3. Directory[k] \in Interfaces /\ k \in todo
  BY <1>1, DirectoryFacts DEF IsNext
<1>4. Shape'
  BY <1>1, <1>2 DEF GInv, Shape
<1>5. Reading'
  <2>1. DOMAIN seen' \subseteq Interfaces /\ failed' \subseteq DOMAIN seen'
    BY <1>1, <1>2, <1>3 DEF GInv, Reading
  <2>2. \A j \in todo' : Directory[j] \notin DOMAIN seen'
    <3> SUFFICES ASSUME NEW j \in todo'
                 PROVE  Directory[j] \notin DOMAIN seen'
      OBVIOUS
    <3>1. j \in todo /\ j # k /\ j \in DOMAIN Directory
      BY <1>1 DEF GInv, Shape
    <3>2. Directory[j] # Directory[k]
      BY <3>1, DirectoryFacts
    <3>3. QED
      BY <1>1, <1>2, <3>1, <3>2 DEF GInv, Reading
  <2>3. \A i \in DOMAIN seen' : i \in failed' <=> seen'[i] \notin DOMAIN FilledOf
    <3> SUFFICES ASSUME NEW i \in DOMAIN seen'
                 PROVE  i \in failed' <=> seen'[i] \notin DOMAIN FilledOf
      OBVIOUS
    <3>1. Directory[k] \notin failed
      BY <1>2, <1>3 DEF GInv, Reading
    <3>2. CASE i = Directory[k]
      BY <1>1, <3>1, <3>2
    <3>3. CASE i # Directory[k]
      <4>1. i \in DOMAIN seen /\ seen'[i] = seen[i]
        BY <1>1, <3>3
      <4>2. i \in failed' <=> i \in failed
        BY <1>1, <3>3
      <4>3. QED
        BY <1>2, <4>1, <4>2 DEF GInv, Reading
    <3>4. QED
      BY <3>2, <3>3
  <2>4. QED
    BY <2>1, <2>2, <2>3 DEF Reading
<1>6. Generating' /\ Sharing'
  BY <1>2 DEF Generating, Sharing
<1>7. LastAccounted' /\ LastCurrent' /\ NothingWritten'
  BY <1>2 DEF GInv, LastAccounted, LastCurrent, NothingWritten, Undisturbed
<1>8. QED
  BY <1>4, <1>5, <1>6, <1>7 DEF GInv

LEMMA ReadFailsInvariant ==
    ASSUME GInv, ReadFails
    PROVE  GInv'
<1>1. Shape'
  BY DEF GInv, Shape, ReadFails
<1>2. Reading' /\ Generating' /\ Sharing' /\ NothingWritten'
  BY DEF ReadFails, Reading, Generating, Sharing, NothingWritten
<1>3. LastAccounted' /\ LastCurrent'
  BY DEF GInv, ReadFails, LastAccounted, LastCurrent, Undisturbed
<1>4. QED
  BY <1>1, <1>2, <1>3 DEF GInv

LEMMA StartGeneratingInvariant ==
    ASSUME GInv, StartGenerating
    PROVE  GInv'
<1>1. /\ phase = "reading" /\ phase' = "generating" /\ todo = {}
      /\ todo' = {k \in DOMAIN Directory : Directory[k] \in DOMAIN Registered(seen)}
      /\ UNCHANGED <<files, shared, at, seen, failed, wrote, last>>
  BY DEF StartGenerating
<1>2. Shape'
  BY <1>1 DEF GInv, Shape
<1>3. Generating'
  <2>1. Accounted(seen, failed)
    BY <1>1, RegisteredDomain DEF GInv, Reading, Accounted, Sound
  <2>2. \A k \in todo' : Begun(files, seen, Directory[k], at)
    BY <1>1, BegunFirst DEF GInv, Shape
  <2>3. QED
    BY <1>1, <2>1, <2>2 DEF Generating
<1>4. Reading' /\ Sharing'
  BY <1>1 DEF Reading, Sharing
<1>5. LastAccounted' /\ LastCurrent' /\ NothingWritten'
  BY <1>1 DEF GInv, LastAccounted, LastCurrent, NothingWritten, Undisturbed
<1>6. QED
  BY <1>2, <1>3, <1>4, <1>5 DEF GInv

LEMMA GenerateFailsInvariant ==
    ASSUME GInv, GenerateFails
    PROVE  GInv'
<1>1. PICK k \in DOMAIN Directory :
        /\ IsNext(k) /\ Throws(seen, Directory[k], at)
        /\ failed' = failed \cup {Directory[k]}
        /\ todo' = todo \ {k} /\ at' = 1
  BY DEF GenerateFails, NextInterface
<1>2. /\ phase = "generating" /\ at \in LanguageStarts
      /\ UNCHANGED <<files, shared, phase, seen, wrote, last>>
  BY DEF GenerateFails
<1>3. k \in todo /\ Directory[k] \in DOMAIN Registered(seen) /\ Accounted(seen, failed)
  BY <1>1, <1>2 DEF GInv, Generating, IsNext
<1>4. Shape'
  BY <1>1, <1>2, WritersFacts DEF GInv, Shape
<1>5. Generating'
  <2>1. Accounted(seen, failed')
    <3>1. ~Sound(seen, Directory[k])
      BY <1>1, <1>3, ThrowsUnsound
    <3>2. Directory[k] \in DOMAIN seen
      BY <1>3, RegisteredDomain
    <3>3. QED
      BY <1>1, <1>3, <3>1, <3>2 DEF Accounted
  <2>2. ASSUME NEW j \in DOMAIN Directory \ todo', Directory[j] \in DOMAIN Registered(seen)
        PROVE  Done(files, seen, failed', Directory[j])
    <3>1. CASE j = k
      <4>1. Begun(files, seen, Directory[k], at)
        BY <1>1, <1>2, <1>3 DEF GInv, Generating
      <4>2. Current(files, seen, Directory[k])
        BY <1>1, <1>2, <4>1, ThrowsCurrent
      <4>3. QED
        BY <1>1, <3>1, <4>2 DEF Done
    <3>2. CASE j # k
      <4>1. j \in DOMAIN Directory \ todo
        BY <1>1, <3>2
      <4>2. Done(files, seen, failed, Directory[j])
        BY <1>2, <2>2, <4>1 DEF GInv, Generating
      <4>3. QED
        BY <1>1, <4>2 DEF Done
    <3>3. QED
      BY <3>1, <3>2
  <2>3. \A j \in todo' : Directory[j] \in DOMAIN Registered(seen)
    BY <1>1, <1>2 DEF GInv, Generating
  <2>4. \A j \in todo' : Begun(files, seen, Directory[j], at')
    BY <1>1, BegunFirst
  <2>5. QED
    BY <1>2, <2>1, <2>2, <2>3, <2>4 DEF Generating
<1>6. Reading' /\ Sharing'
  BY <1>2 DEF Reading, Sharing
<1>7. LastAccounted' /\ LastCurrent' /\ NothingWritten'
  BY <1>2 DEF GInv, LastAccounted, LastCurrent, NothingWritten, Undisturbed
<1>8. QED
  BY <1>4, <1>5, <1>6, <1>7 DEF GInv

(* Writing a file leaves every file as it was or as its description says. *)
LEMMA WriteFileFacts ==
    ASSUME GInv, WriteFile
    PROVE  \E k \in todo :
        /\ IsNext(k) /\ Directory[k] \in DOMAIN Registered(seen)
        /\ Begun(files, seen, Directory[k], at) /\ Reached(seen, Directory[k], at)
        /\ DOMAIN files' = Interfaces /\ \A j \in Interfaces : DOMAIN files'[j] = ToSet(Writers)
        /\ files'[Directory[k]][Writers[at]] = Text(seen, Directory[k])
        /\ \A j \in Interfaces, b \in DOMAIN Writers :
                files'[j][Writers[b]] \in {files[j][Writers[b]], Text(seen, j)}
        /\ files[Directory[k]][Writers[at]] = Text(seen, Directory[k]) => UNCHANGED <<files, wrote>>
        /\ IF at < Len(Writers) THEN at' = at + 1 /\ todo' = todo ELSE at' = 1 /\ todo' = todo \ {k}
<1> DEFINE Wrote(k) ==
        IF MustWrite(files[Directory[k]][Writers[at]], Text(seen, Directory[k]))
        THEN /\ files' = [files EXCEPT ![Directory[k]][Writers[at]] = Text(seen, Directory[k])]
             /\ wrote' = wrote \cup {<<Directory[k], Writers[at]>>}
        ELSE UNCHANGED <<files, wrote>>
<1>1. PICK k \in DOMAIN Directory :
        /\ IsNext(k)
        /\ at \in LanguageStarts => ~Throws(seen, Directory[k], at)
        /\ Wrote(k)
        /\ IF at < Len(Writers) THEN at' = at + 1 /\ UNCHANGED todo ELSE NextInterface(k)
  BY DEF WriteFile
<1>2. phase = "generating" /\ k \in todo /\ at \in DOMAIN Writers
  BY <1>1 DEF WriteFile, IsNext, GInv, Shape
<1>3. Directory[k] \in DOMAIN Registered(seen) /\ Begun(files, seen, Directory[k], at)
  BY <1>1, <1>2 DEF GInv, Generating
<1>4. Reached(seen, Directory[k], at)
  BY <1>1, <1>2, <1>3, ReachesNext
<1>5. Directory[k] \in Interfaces /\ Writers[at] \in ToSet(Writers)
  BY <1>2, DirectoryFacts, WritersFacts
<1>6. DOMAIN files = Interfaces /\ \A j \in Interfaces : DOMAIN files[j] = ToSet(Writers)
  BY DEF GInv, Shape
<1> HIDE DEF Wrote
<1>7. CASE files[Directory[k]][Writers[at]] = Text(seen, Directory[k])
  <2>1. UNCHANGED <<files, wrote>>
    BY <1>1, <1>7 DEF Wrote, MustWrite
  <2>2. QED
    BY <1>1, <1>2, <1>3, <1>4, <1>6, <1>7, <2>1 DEF NextInterface
<1>8. CASE files[Directory[k]][Writers[at]] # Text(seen, Directory[k])
  <2>1. files' = [files EXCEPT ![Directory[k]][Writers[at]] = Text(seen, Directory[k])]
    BY <1>1, <1>8 DEF Wrote, MustWrite
  <2>2. /\ DOMAIN files' = Interfaces
        /\ \A j \in Interfaces : DOMAIN files'[j] = ToSet(Writers)
        /\ files'[Directory[k]][Writers[at]] = Text(seen, Directory[k])
    BY <1>5, <1>6, <2>1
  <2>3. ASSUME NEW j \in Interfaces, NEW b \in DOMAIN Writers
        PROVE  files'[j][Writers[b]] \in {files[j][Writers[b]], Text(seen, j)}
    <3>1. Writers[b] \in DOMAIN files[j]
      BY <1>6, WritersFacts
    <3>2. QED
      BY <1>5, <1>6, <2>1, <3>1
  <2>4. QED
    BY <1>1, <1>2, <1>3, <1>4, <1>8, <2>2, <2>3 DEF NextInterface
<1>9. QED
  BY <1>7, <1>8

LEMMA NextIsOne ==
    ASSUME Shape, NEW j, NEW k, IsNext(j), IsNext(k)
    PROVE  j = k
  BY DirectoryFacts DEF IsNext, Shape

LEMMA WriteFileInvariant ==
    ASSUME GInv, WriteFile
    PROVE  GInv'
<1>1. PICK k \in todo :
        /\ IsNext(k) /\ Directory[k] \in DOMAIN Registered(seen)
        /\ Begun(files, seen, Directory[k], at) /\ Reached(seen, Directory[k], at)
        /\ DOMAIN files' = Interfaces /\ \A j \in Interfaces : DOMAIN files'[j] = ToSet(Writers)
        /\ files'[Directory[k]][Writers[at]] = Text(seen, Directory[k])
        /\ \A j \in Interfaces, b \in DOMAIN Writers :
                files'[j][Writers[b]] \in {files[j][Writers[b]], Text(seen, j)}
        /\ files[Directory[k]][Writers[at]] = Text(seen, Directory[k]) => UNCHANGED <<files, wrote>>
        /\ IF at < Len(Writers) THEN at' = at + 1 /\ todo' = todo ELSE at' = 1 /\ todo' = todo \ {k}
  BY WriteFileFacts
<1>2. phase = "generating" /\ UNCHANGED <<shared, phase, seen, failed, last>>
  BY DEF WriteFile
<1>3. Shape /\ at \in DOMAIN Writers /\ k \in DOMAIN Directory /\ Directory[k] \in Interfaces
  BY <1>1, DirectoryFacts DEF GInv, Shape
<1>4. Shape'
  BY <1>1, <1>2, <1>3, WritersFacts DEF Shape
<1>5. Generating'
  <2>1. /\ Begun(files', seen, Directory[k], at + 1)
        /\ at = Len(Writers) => Done(files', seen, failed, Directory[k])
    BY <1>1, <1>3, OneFileMore
  <2>2. Accounted(seen, failed) /\ \A j \in todo' : Directory[j] \in DOMAIN Registered(seen)
    BY <1>1, <1>2 DEF GInv, Generating
  <2>3. ASSUME NEW j \in DOMAIN Directory \ todo', Directory[j] \in DOMAIN Registered(seen)
        PROVE  Done(files', seen, failed, Directory[j])
    <3>1. CASE j = k
      BY <1>1, <1>3, <2>1, <2>3, <3>1, WritersFacts
    <3>2. CASE j # k
      <4>1. j \in DOMAIN Directory \ todo /\ Directory[j] \in Interfaces
        BY <1>1, <3>2, DirectoryFacts
      <4>2. Done(files, seen, failed, Directory[j])
        BY <1>2, <2>3, <4>1 DEF GInv, Generating
      <4>3. QED
        BY <1>1, <4>1, <4>2, KeepsDone
    <3>3. QED
      BY <3>1, <3>2
  <2>4. ASSUME NEW j \in todo', IsNext(j)'
        PROVE  Begun(files', seen, Directory[j], at')
    <3>1. CASE at < Len(Writers)
      <4>1. IsNext(j)
        BY <1>1, <2>4, <3>1 DEF IsNext
      <4>2. j = k
        BY <1>1, <1>3, <4>1, NextIsOne
      <4>3. QED
        BY <1>1, <2>1, <3>1, <4>2
    <3>2. CASE ~(at < Len(Writers))
      BY <1>1, <3>2, BegunFirst
    <3>3. QED
      BY <3>1, <3>2
  <2>5. QED
    BY <1>2, <2>2, <2>3, <2>4 DEF Generating
<1>6. Reading' /\ Sharing'
  BY <1>2 DEF Reading, Sharing
<1>7. ASSUME Undisturbed
      PROVE  UNCHANGED <<files, wrote>>
  <2>1. Current(files, seen, Directory[k])
    BY <1>1, <1>2, <1>7 DEF GInv, LastCurrent, Undisturbed
  <2>2. QED
    BY <1>1, <1>3, <2>1 DEF Current
<1>8. LastAccounted' /\ LastCurrent' /\ NothingWritten'
  <2>1. Undisturbed' <=> Undisturbed
    BY <1>2 DEF Undisturbed
  <2>2. LastAccounted' /\ LastCurrent'
    BY <1>2, <1>7, <2>1 DEF GInv, LastAccounted, LastCurrent
  <2>3. NothingWritten'
    BY <1>2, <1>7, <2>1 DEF GInv, NothingWritten
  <2>4. QED
    BY <2>2, <2>3
<1>9. QED
  BY <1>4, <1>5, <1>6, <1>8 DEF GInv

LEMMA StartSharingInvariant ==
    ASSUME GInv, StartSharing
    PROVE  GInv'
<1>1. /\ phase = "generating" /\ phase' = "sharing" /\ todo = {}
      /\ UNCHANGED <<files, shared, todo, at, seen, failed, wrote, last>>
  BY DEF StartSharing
<1>2. at = 1
  BY <1>1 DEF GInv, Shape
<1>3. Shape'
  BY <1>1, <1>2, ListsFacts DEF GInv, Shape
<1>4. Sharing'
  <2>1. Accounted(seen, failed)
    BY <1>1 DEF GInv, Generating
  <2>2. ASSUME NEW i \in DOMAIN Registered(seen)
        PROVE  Done(files, seen, failed, i)
    <3>1. i \in Interfaces
      BY <2>1, RegisteredDomain DEF Accounted
    <3>2. PICK k \in DOMAIN Directory : i = Directory[k]
      BY <3>1, DirectoryFacts
    <3>3. QED
      BY <1>1, <3>2 DEF GInv, Generating
  <2>3. ListsBefore(shared, seen, at)
    BY <1>2, ListsFacts DEF ListsBefore
  <2>4. QED
    BY <1>1, <2>1, <2>2, <2>3 DEF Sharing
<1>5. Reading' /\ Generating'
  BY <1>1 DEF Reading, Generating
<1>6. LastAccounted' /\ LastCurrent' /\ NothingWritten'
  BY <1>1 DEF GInv, LastAccounted, LastCurrent, NothingWritten, Undisturbed
<1>7. QED
  BY <1>3, <1>4, <1>5, <1>6 DEF GInv

(* Writing a list leaves the others as they were or as they are to be. *)
LEMMA WriteListFacts ==
    ASSUME GInv, WriteList
    PROVE  /\ DOMAIN shared' = ToSet(Lists)
           /\ ListsBefore(shared', seen, at + 1)
           /\ \A b \in DOMAIN Lists : shared'[Lists[b]] \in {shared[Lists[b]], ListText(seen, Lists[b])}
           /\ shared[Lists[at]] = ListText(seen, Lists[at]) => wrote' \subseteq wrote \cup {<<"Lists", ".gitignore">>}
<1>1. /\ at \in DOMAIN Lists /\ ListsBefore(shared, seen, at)
      /\ DOMAIN shared = ToSet(Lists)
  BY DEF WriteList, GInv, Shape, Sharing
<1>2. IF Lists[at] = ".gitignore" \/ MustWrite(shared[Lists[at]], ListText(seen, Lists[at]))
      THEN /\ shared' = [shared EXCEPT ![Lists[at]] = ListText(seen, Lists[at])]
           /\ wrote' = wrote \cup {<<"Lists", Lists[at]>>}
      ELSE UNCHANGED <<shared, wrote>>
  BY DEF WriteList
<1>3. DOMAIN shared' = ToSet(Lists) /\ shared'[Lists[at]] = ListText(seen, Lists[at])
  BY <1>1, <1>2, ListsFacts DEF MustWrite
<1>4. \A b \in DOMAIN Lists : shared'[Lists[b]] \in {shared[Lists[b]], ListText(seen, Lists[b])}
  BY <1>1, <1>2, ListsFacts
<1>5. ListsBefore(shared', seen, at + 1)
  <2> SUFFICES ASSUME NEW b \in DOMAIN Lists, b < at + 1
               PROVE  shared'[Lists[b]] = ListText(seen, Lists[b])
    BY DEF ListsBefore
  <2>1. CASE b = at
    BY <1>3, <2>1
  <2>2. CASE b < at
    BY <1>1, <1>4, <2>2 DEF ListsBefore
  <2>3. QED
    BY <1>1, <2>1, <2>2, ListsFacts
<1>6. QED
  BY <1>2, <1>3, <1>4, <1>5 DEF MustWrite

LEMMA WriteListInvariant ==
    ASSUME GInv, WriteList
    PROVE  GInv'
<1>1. /\ phase = "sharing" /\ UNCHANGED <<files, todo, seen, failed>>
      /\ IF at < Len(Lists)
         THEN at' = at + 1 /\ UNCHANGED <<phase, last>>
         ELSE at' = 1 /\ phase' = "idle" /\ last' = [seen |-> seen, failed |-> failed]
  BY DEF WriteList
<1>2. /\ Accounted(seen, failed) /\ \A i \in DOMAIN Registered(seen) : Done(files, seen, failed, i)
      /\ at \in DOMAIN Lists
  BY <1>1 DEF GInv, Sharing, Shape
<1>3. Shape'
  BY <1>1, <1>2, WriteListFacts, WritersFacts, ListsFacts DEF GInv, Shape
<1>4. Reading' /\ Generating'
  BY <1>1 DEF Reading, Generating
<1>5. Sharing'
  BY <1>1, <1>2, WriteListFacts DEF Sharing
<1>6. CASE at < Len(Lists)
  <2>1. UNCHANGED <<phase, last>>
    BY <1>1, <1>6
  <2>2. LastAccounted'
    BY <2>1 DEF GInv, LastAccounted
  <2>3. ASSUME Undisturbed'
        PROVE  /\ \A b \in DOMAIN Lists : shared[Lists[b]] = ListText(seen, Lists[b])
               /\ Undisturbed /\ last.seen = seen
    <3>1. Undisturbed /\ last.seen = seen
      BY <1>1, <2>1, <2>3 DEF Undisturbed
    <3>2. QED
      BY <3>1, ListsFacts DEF GInv, LastCurrent, ListsBefore
  <2>4. LastCurrent'
    <3> SUFFICES ASSUME Undisturbed'
                 PROVE  /\ \A i \in DOMAIN Registered(last.seen) : Current(files, last.seen, i)
                        /\ ListsBefore(shared', last.seen, Len(Lists) + 1)
      BY <1>1, <2>1 DEF LastCurrent
    <3>1. QED
      BY <2>3, WriteListFacts DEF GInv, LastCurrent, ListsBefore
  <2>5. NothingWritten'
    <3>1. ASSUME Undisturbed'
          PROVE  wrote' \subseteq {<<"Lists", ".gitignore">>}
      <4>1. wrote \subseteq {<<"Lists", ".gitignore">>}
        BY <1>1, <2>3, <3>1 DEF GInv, NothingWritten
      <4>2. QED
        BY <1>2, <2>3, <3>1, <4>1, WriteListFacts
    <3>2. QED
      BY <1>1, <2>1, <3>1 DEF NothingWritten
  <2>6. QED
    BY <1>3, <1>4, <1>5, <2>2, <2>4, <2>5 DEF GInv
<1>7. CASE ~(at < Len(Lists))
  <2>1. /\ at = Len(Lists) /\ phase' = "idle"
        /\ last'.seen = seen /\ last'.failed = failed
    BY <1>1, <1>2, <1>7, ListsFacts
  <2>2. LastAccounted'
    <3>1. ASSUME NEW i \in DOMAIN seen \ failed
          PROVE  Reached(seen, i, Len(Writers))
      BY <1>2, <3>1 DEF Accounted, Done
    <3>2. QED
      BY <1>2, <2>1, <3>1 DEF LastAccounted
  <2>3. LastCurrent'
    <3>1. ListsBefore(shared', seen, Len(Lists) + 1)
      BY <2>1, WriteListFacts
    <3>2. QED
      BY <1>1, <1>2, <2>1, <3>1 DEF LastCurrent, Done
  <2>4. NothingWritten'
    BY <2>1 DEF NothingWritten
  <2>5. QED
    BY <1>3, <1>4, <1>5, <2>2, <2>3, <2>4 DEF GInv
<1>8. QED
  BY <1>6, <1>7

LEMMA KillInvariant ==
    ASSUME GInv, Kill
    PROVE  GInv'
<1>1. /\ phase # "idle" /\ phase' = "idle" /\ todo' = {} /\ at' = 1
      /\ last' = IF phase = "reading" THEN last ELSE Nothing
      /\ UNCHANGED <<seen, failed, wrote>>
  BY DEF Kill
<1>2. /\ DOMAIN files' = Interfaces /\ \A i \in Interfaces : DOMAIN files'[i] = ToSet(Writers)
      /\ DOMAIN shared' = ToSet(Lists)
  <2>1. CASE UNCHANGED <<files, shared>>
    BY <2>1 DEF GInv, Shape
  <2>2. CASE /\ \E k \in DOMAIN Directory :
                    files' = [files EXCEPT ![Directory[k]][Writers[at]] = Torn]
             /\ UNCHANGED shared
    BY <2>2 DEF GInv, Shape
  <2>3. CASE shared' = [shared EXCEPT ![Lists[at]] = Torn] /\ UNCHANGED files
    BY <2>3 DEF GInv, Shape
  <2>4. QED
    BY <2>1, <2>2, <2>3 DEF Kill
<1>3. Shape'
  BY <1>1, <1>2, WritersFacts DEF Shape
<1>4. Reading' /\ Generating' /\ Sharing' /\ NothingWritten'
  BY <1>1 DEF Reading, Generating, Sharing, NothingWritten
<1>5. LastAccounted' /\ LastCurrent'
  <2>1. CASE phase = "reading"
    <3>1. UNCHANGED <<files, shared, last>>
      BY <1>1, <2>1 DEF Kill
    <3>2. QED
      BY <1>1, <2>1, <3>1 DEF GInv, LastAccounted, LastCurrent, Undisturbed
  <2>2. CASE phase # "reading"
    BY <1>1, <2>2 DEF LastAccounted, LastCurrent, Undisturbed
  <2>3. QED
    BY <2>1, <2>2
<1>6. QED
  BY <1>3, <1>4, <1>5 DEF GInv

-----------------------------------------------------------------------------
(* The inductive invariant: what each phase of a run has established, and   *)
(* what the last one that completed left behind.                            *)
THEOREM GInvariant == Spec => []GInv
<1>1. Init => GInv
  BY InitInvariant
<1>2. ASSUME GInv, [Next]_vars
      PROVE  GInv'
  <2>1. CASE UNCHANGED vars
    BY <1>2, <2>1, StutterInvariant DEF vars
  <2>2. ASSUME NEW i \in Interfaces, Edit(i)
        PROVE  GInv'
    BY <1>2, <2>2, StutterInvariant DEF Edit
  <2>3. CASE StartRun
    BY <1>2, <2>3, StartRunInvariant
  <2>4. CASE ReadInterface
    BY <1>2, <2>4, ReadInterfaceInvariant
  <2>5. CASE ReadFails
    BY <1>2, <2>5, ReadFailsInvariant
  <2>6. CASE StartGenerating
    BY <1>2, <2>6, StartGeneratingInvariant
  <2>7. CASE GenerateFails
    BY <1>2, <2>7, GenerateFailsInvariant
  <2>8. CASE WriteFile
    BY <1>2, <2>8, WriteFileInvariant
  <2>9. CASE StartSharing
    BY <1>2, <2>9, StartSharingInvariant
  <2>10. CASE WriteList
    BY <1>2, <2>10, WriteListInvariant
  <2>11. CASE Kill
    BY <1>2, <2>11, KillInvariant
  <2>12. QED
    BY <1>2, <2>1, <2>2, <2>3, <2>4, <2>5, <2>6, <2>7, <2>8, <2>9, <2>10, <2>11 DEF Next
<1>3. QED
  BY <1>1, <1>2, PTL DEF Spec

(* What a completed run has not reported is current, whole. *)
LEMMA UnreportedIsCurrent ==
    ASSUME GInv, Settled, NEW i \in DOMAIN last.seen \ last.failed, NEW w \in ToSet(Writers)
    PROVE  files[i][w] = Text(last.seen, i)
<1>1. Undisturbed /\ LastAccounted /\ LastCurrent /\ last # Nothing
  BY DEF GInv, Settled, Undisturbed
<1>2. i \in DOMAIN Registered(last.seen) /\ Reached(last.seen, i, Len(Writers))
  BY <1>1 DEF LastAccounted, Accounted
<1>3. PICK a \in DOMAIN Writers : w = Writers[a]
  BY DEF ToSet
<1>4. Reached(last.seen, i, a)
  <2> SUFFICES ASSUME NEW s \in LanguageStarts, s <= a
               PROVE  ~Throws(last.seen, i, s)
    BY DEF Reached
  <2>1. s <= Len(Writers)
    BY StartsFacts, WritersFacts
  <2>2. QED
    BY <1>2, <2>1 DEF Reached
<1>5. Current(files, last.seen, i)
  BY <1>1, <1>2 DEF LastCurrent
<1>6. QED
  BY <1>3, <1>4, <1>5 DEF Current

(* An interface whose files are not what its description says is one of those *)
(* whose error generate() has logged.                                         *)
THEOREM FailuresAreReported == Spec => []NothingFailsSilently
<1>1. GInv => NothingFailsSilently
  BY UnreportedIsCurrent DEF NothingFailsSilently
<1>2. QED
  BY <1>1, GInvariant, PTL

(* After a completed run the files of every sound description, and the lists, *)
(* are current: the try blocks of generate() keep the failures of some        *)
(* interfaces from the others, and writeFileContentIfDifferent repairs what   *)
(* failed or killed runs have left.                                           *)
THEOREM CompletedIsCurrent == Spec => []UpToDate
<1>1. ASSUME GInv
      PROVE  UpToDate
  <2> SUFFICES ASSUME Settled
               PROVE  /\ \A i \in DOMAIN last.seen : Sound(last.seen, i) =>
                            i \notin last.failed /\ \A w \in ToSet(Writers) : files[i][w] = Text(last.seen, i)
                      /\ \A list \in ToSet(Lists) : shared[list] = ListText(last.seen, list)
    BY DEF UpToDate
  <2>1. ASSUME NEW i \in DOMAIN last.seen, Sound(last.seen, i)
        PROVE  i \notin last.failed
    BY <1>1, <2>1 DEF Settled, GInv, LastAccounted, Accounted
  <2>2. ListsBefore(shared, last.seen, Len(Lists) + 1)
    BY <1>1 DEF Settled, GInv, LastCurrent, Undisturbed
  <2>3. \A list \in ToSet(Lists) : shared[list] = ListText(last.seen, list)
    BY <2>2, ListsFacts DEF ListsBefore, ToSet
  <2>4. QED
    BY <1>1, <2>1, <2>3, UnreportedIsCurrent
<1>2. QED
  BY <1>1, GInvariant, PTL

(* A run that sees what the last completed one saw writes only .gitignore. *)
THEOREM RerunIsIdle == Spec => RerunWritesNothing
<1> DEFINE Rerun == last # Nothing /\ last.seen = seen /\ phase \in {"generating", "sharing"}
<1>1. ASSUME GInv, GInv', [Next]_vars, Rerun
      PROVE  wrote' \subseteq {<<"Lists", ".gitignore">>}
  <2>1. wrote \subseteq {<<"Lists", ".gitignore">>}
    BY <1>1 DEF GInv, NothingWritten, Undisturbed
  <2>2. CASE UNCHANGED wrote
    BY <2>1, <2>2
  <2>3. CASE WriteFile
    <3>1. phase' = phase /\ last' = last /\ seen' = seen
      BY <2>3 DEF WriteFile
    <3>2. QED
      BY <1>1, <3>1 DEF GInv, NothingWritten, Undisturbed
  <2>4. CASE WriteList
    <3>1. at \in DOMAIN Lists /\ ListsBefore(shared, last.seen, Len(Lists) + 1)
      BY <1>1, <2>4 DEF WriteList, GInv, Shape, LastCurrent, Undisturbed
    <3>2. shared[Lists[at]] = ListText(seen, Lists[at])
      BY <1>1, <3>1, ListsFacts DEF ListsBefore
    <3>3. QED
      BY <1>1, <2>1, <2>4, <3>2, WriteListFacts
  <2>5. QED
    BY <1>1, <2>2, <2>3, <2>4 DEF Next, Edit, StartRun, ReadInterface, ReadFails, StartGenerating, GenerateFails,
       StartSharing, Kill, vars, run
<1>2. GInv /\ GInv' /\ [Next]_vars => [Rerun => wrote' \subseteq {<<"Lists", ".gitignore">>}]_vars
  BY <1>1
<1>3. QED
  BY <1>2, GInvariant, PTL DEF Spec, RerunWritesNothing

-----------------------------------------------------------------------------
(* Types.                                                                   *)

(* What a file's text stands for refers to what the description refers to. *)
LEMMA TextRefers ==
    ASSUME NEW read, NEW i \in DOMAIN Registered(read)
    PROVE  /\ Text(read, i).class \in DOMAIN FilledOf
           /\ FilledOf[Text(read, i).class] = FilledOf[read[i]]
           /\ DOMAIN Text(read, i).names \subseteq Refers(Text(read, i).class)
<1>1. read[i] \in DOMAIN FilledOf
  BY RegisteredDomain
<1>2. DOMAIN Meaning = DOMAIN FilledOf
  BY DEF Meaning
<1>3. Meaning[read[i]] = CHOOSE e \in DOMAIN FilledOf : FilledOf[e] = FilledOf[read[i]]
  BY <1>1 DEF Meaning
<1>4. Meaning[read[i]] \in DOMAIN FilledOf /\ FilledOf[Meaning[read[i]]] = FilledOf[read[i]]
  BY <1>1, <1>3
<1>5. Refers(Meaning[read[i]]) = Refers(read[i])
  BY <1>4 DEF Refers
<1>6. /\ Text(read, i).class = Meaning[read[i]]
      /\ DOMAIN Text(read, i).names \subseteq Refers(read[i])
  BY DEF Text
<1>7. QED
  BY <1>4, <1>5, <1>6

FilesTyped ==
    \A i \in Interfaces, w \in ToSet(Writers) :
        files[i][w] \notin {NoFile, Torn} => DOMAIN files[i][w].names \subseteq Refers(files[i][w].class)

SharedTyped ==
    \A list \in ToSet(Lists) : shared[list] \in {NoFile, Torn, requiredVectorsOfClasses} \cup SUBSET Interfaces

SeenTyped == DOMAIN seen \subseteq Interfaces /\ failed \subseteq DOMAIN seen

WroteTyped == wrote \subseteq (Interfaces \X ToSet(Writers)) \cup ({"Lists"} \X ToSet(Lists))

LEMMA FilesStayTyped ==
    ASSUME FilesTyped, GInv, Next
    PROVE  FilesTyped'
<1>1. CASE UNCHANGED files
  BY <1>1 DEF FilesTyped
<1>2. CASE WriteFile
  <2>1. PICK k \in DOMAIN Directory :
            /\ k \in todo
            /\ files' \in {files, [files EXCEPT ![Directory[k]][Writers[at]] = Text(seen, Directory[k])]}
    BY <1>2 DEF WriteFile, IsNext
  <2>2. Directory[k] \in DOMAIN Registered(seen)
    BY <1>2, <2>1 DEF WriteFile, GInv, Generating
  <2>3. DOMAIN Text(seen, Directory[k]).names \subseteq Refers(Text(seen, Directory[k]).class)
    BY <2>2, TextRefers
  <2>4. ASSUME NEW i \in Interfaces, NEW w \in ToSet(Writers)
        PROVE  files'[i][w] \in {files[i][w], Text(seen, Directory[k])}
    BY <2>1 DEF GInv, Shape
  <2>5. QED
    BY <2>3, <2>4 DEF FilesTyped
<1>3. CASE Kill
  <2>1. \/ files' = files
        \/ \E k \in DOMAIN Directory : files' = [files EXCEPT ![Directory[k]][Writers[at]] = Torn]
    BY <1>3 DEF Kill
  <2>2. ASSUME NEW i \in Interfaces, NEW w \in ToSet(Writers)
        PROVE  files'[i][w] \in {files[i][w], Torn}
    BY <2>1 DEF GInv, Shape
  <2>3. QED
    BY <2>2 DEF FilesTyped
<1>4. QED
  BY <1>1, <1>2, <1>3
     DEF Next, Edit, StartRun, ReadInterface, ReadFails, StartGenerating, GenerateFails, StartSharing, WriteList

LEMMA SharedStaysTyped ==
    ASSUME SharedTyped, SeenTyped, GInv, Next
    PROVE  SharedTyped'
<1>1. CASE UNCHANGED shared
  BY <1>1 DEF SharedTyped
<1>2. CASE WriteList
  <2>1. ListText(seen, Lists[at]) \in {requiredVectorsOfClasses} \cup SUBSET Interfaces
    BY RegisteredDomain DEF ListText, SeenTyped
  <2>2. shared' \in {shared, [shared EXCEPT ![Lists[at]] = ListText(seen, Lists[at])]}
    BY <1>2 DEF WriteList
  <2>3. ASSUME NEW list \in ToSet(Lists)
        PROVE  shared'[list] \in {shared[list], ListText(seen, Lists[at])}
    BY <2>2 DEF GInv, Shape
  <2>4. QED
    BY <2>1, <2>3 DEF SharedTyped
<1>3. CASE Kill
  <2>1. shared' = shared \/ shared' = [shared EXCEPT ![Lists[at]] = Torn]
    BY <1>3 DEF Kill
  <2>2. ASSUME NEW list \in ToSet(Lists)
        PROVE  shared'[list] \in {shared[list], Torn}
    BY <2>1 DEF GInv, Shape
  <2>3. QED
    BY <2>2 DEF SharedTyped
<1>4. QED
  BY <1>1, <1>2, <1>3
     DEF Next, Edit, StartRun, ReadInterface, ReadFails, StartGenerating, GenerateFails, WriteFile, StartSharing

LEMMA SeenStaysTyped ==
    ASSUME SeenTyped, GInv, Next
    PROVE  SeenTyped'
<1>1. CASE UNCHANGED <<seen, failed>>
  BY <1>1 DEF SeenTyped
<1>2. CASE StartRun
  BY <1>2 DEF StartRun, SeenTyped, Empty
<1>3. CASE ReadInterface
  <2>1. PICK k \in DOMAIN Directory :
            /\ seen' = [j \in DOMAIN seen \cup {Directory[k]} |->
                            IF j = Directory[k] THEN described[Directory[k]] ELSE seen[j]]
            /\ failed' \in {failed, failed \cup {Directory[k]}}
    BY <1>3 DEF ReadInterface
  <2>2. Directory[k] \in Interfaces
    BY DirectoryFacts
  <2>3. QED
    BY <2>1, <2>2 DEF SeenTyped
<1>4. CASE GenerateFails
  <2>1. PICK k \in DOMAIN Directory : k \in todo /\ failed' = failed \cup {Directory[k]}
    BY <1>4 DEF GenerateFails, IsNext
  <2>2. Directory[k] \in DOMAIN seen
    BY <1>4, <2>1, RegisteredDomain DEF GenerateFails, GInv, Generating
  <2>3. QED
    BY <1>4, <2>1, <2>2 DEF GenerateFails, SeenTyped
<1>5. QED
  BY <1>1, <1>2, <1>3, <1>4
     DEF Next, Edit, ReadFails, StartGenerating, WriteFile, StartSharing, WriteList, Kill, run

LEMMA WroteStaysTyped ==
    ASSUME WroteTyped, GInv, Next
    PROVE  WroteTyped'
<1>1. CASE UNCHANGED wrote
  BY <1>1 DEF WroteTyped
<1>2. CASE StartRun
  BY <1>2 DEF StartRun, WroteTyped
<1>3. CASE WriteFile
  <2>1. PICK k \in DOMAIN Directory : wrote' \in {wrote, wrote \cup {<<Directory[k], Writers[at]>>}}
    BY <1>3 DEF WriteFile
  <2>2. Directory[k] \in Interfaces /\ Writers[at] \in ToSet(Writers)
    BY DirectoryFacts, WritersFacts DEF GInv, Shape
  <2>3. QED
    BY <2>1, <2>2 DEF WroteTyped
<1>4. CASE WriteList
  <2>1. wrote' \in {wrote, wrote \cup {<<"Lists", Lists[at]>>}}
    BY <1>4 DEF WriteList
  <2>2. Lists[at] \in ToSet(Lists)
    BY <1>4, ListsFacts DEF WriteList, GInv, Shape
  <2>3. QED
    BY <2>1, <2>2 DEF WroteTyped
<1>5. QED
  BY <1>1, <1>2, <1>3, <1>4
     DEF Next, Edit, ReadInterface, ReadFails, StartGenerating, GenerateFails, StartSharing, Kill, run

(* The descriptions, the run and the files keep their types: in particular a  *)
(* run reports only interfaces it has read, and is always at a place of the    *)
(* list of files it goes through.                                             *)
THEOREM GeneratorTypeCorrect == Spec => []GeneratorTypeOK
<1>1. Init => GeneratorTypeOK
  BY WritersFacts, GeneratorAssumption DEF Init, GeneratorTypeOK, Empty
<1>2. ASSUME GeneratorTypeOK, GInv, GInv', Next
      PROVE  GeneratorTypeOK'
  <2>1. FilesTyped /\ SharedTyped /\ SeenTyped /\ WroteTyped
    BY <1>2 DEF GeneratorTypeOK, FilesTyped, SharedTyped, SeenTyped, WroteTyped
  <2>2. FilesTyped' /\ SharedTyped' /\ SeenTyped' /\ WroteTyped'
    BY <1>2, <2>1, FilesStayTyped, SharedStaysTyped, SeenStaysTyped, WroteStaysTyped
  <2>3. \A i \in Interfaces : described'[i] \in Descriptions[i] \cup {Absent}
    <3>1. CASE UNCHANGED described
      BY <1>2, <3>1 DEF GeneratorTypeOK
    <3>2. ASSUME NEW j \in Interfaces, Edit(j)
          PROVE  \A i \in Interfaces : described'[i] \in Descriptions[i] \cup {Absent}
      <4>1. PICK d \in Descriptions[j] \cup {Absent} : described' = [described EXCEPT ![j] = d]
        BY <3>2 DEF Edit
      <4>2. QED
        BY <1>2, <4>1 DEF GeneratorTypeOK
    <3>3. QED
      BY <1>2, <3>1, <3>2 DEF Next, StartRun, ReadInterface, ReadFails, StartGenerating, GenerateFails, WriteFile,
         StartSharing, WriteList, Kill
  <2>4. edits' \in 0..MaxEdits /\ kills' \in 0..MaxKills
    BY <1>2, GeneratorAssumption DEF GeneratorTypeOK, Next, Edit, StartRun, ReadInterface, ReadFails,
       StartGenerating, GenerateFails, WriteFile, StartSharing, WriteList, Kill
  <2>5. last' = Nothing \/ last'.failed \subseteq DOMAIN last'.seen
    BY <1>2 DEF GInv, LastAccounted, Accounted
  <2>6. Shape'
    BY <1>2 DEF GInv
  <2>7. QED
    BY <2>2, <2>3, <2>4, <2>5, <2>6 DEF GeneratorTypeOK, FilesTyped, SharedTyped, SeenTyped, WroteTyped, Shape
<1>3. ASSUME GeneratorTypeOK, UNCHANGED vars
      PROVE  GeneratorTypeOK'
  BY <1>3 DEF GeneratorTypeOK, vars, run
<1>4. GeneratorTypeOK /\ GInv /\ GInv' /\ [Next]_vars => GeneratorTypeOK'
  BY <1>2, <1>3
<1>5. QED
  BY <1>1, <1>4, GInvariant, PTL DEF Spec

-----------------------------------------------------------------------------
(* What filling makes of an accepted description.                           *)

(* The class as the constructors, and then the operators, are given it. *)
Opened(json) == FillProperties(FillClass(json))
Built(json) == FillConstructors(Opened(json))

(* Filling what comes later changes neither the properties nor what was given. *)
LEMMA OpenedKeeps ==
    ASSUME NEW json
    PROVE  /\ \A key : key \in DOMAIN Opened(json) <=>
                key \in DOMAIN json \cup {"static", "properties", "aliases", "final", "copyable", "movable"}
           /\ \A key \in DOMAIN json \ {"properties"} : Opened(json)[key] = json[key]
  BY DEF Opened, FillProperties, FillClass, ??

LEMMA BuiltKeeps ==
    ASSUME NEW json, NEW key,
           key \notin {"parameterlessConstructor", "copyConstructor", "moveConstructor", "destructor"}
    PROVE  /\ key \in DOMAIN Built(json) <=> key \in DOMAIN Opened(json)
           /\ key \in DOMAIN Opened(json) => Built(json)[key] = Opened(json)[key]
  BY DEF Built, FillConstructors, ??

LEMMA FilledKeeps ==
    ASSUME NEW json, NEW key, key \notin {"equalityOperator", "hashOperator", "toStringOperator"}
    PROVE  /\ key \in DOMAIN Filled(json) <=> key \in DOMAIN Built(json)
           /\ key \in DOMAIN Built(json) => Filled(json)[key] = Built(json)[key]
  BY DEF Filled, Built, Opened, FillOperators, ??

LEMMA FilledProperties ==
    ASSUME NEW json
    PROVE  Filled(json).properties = Opened(json).properties /\ Built(json).properties = Opened(json).properties
  BY OpenedKeeps, BuiltKeeps, FilledKeeps

(* Every property is one that was given, filled in. *)
LEMMA EveryProperty ==
    ASSUME NEW json, Accepted(json), NEW k \in DOMAIN Opened(json).properties
    PROVE  /\ k \in DOMAIN Given(json, "properties")
           /\ PropertyAccepted(Given(json, "properties")[k])
           /\ Opened(json).properties[k] = FillProperty(FillClass(json), Given(json, "properties")[k])
<1>1. FillClass(json).properties = IF "properties" \in DOMAIN json THEN json.properties ELSE <<>>
  BY DEF FillClass, ??
<1>2. "properties" \in DOMAIN FillClass(json)
  BY DEF FillClass, ??
<1>3. Opened(json).properties = [j \in DOMAIN FillClass(json).properties |->
                                    FillProperty(FillClass(json), FillClass(json).properties[j])]
  BY <1>2 DEF Opened, FillProperties
<1>4. k \in DOMAIN FillClass(json).properties
  BY <1>3
<1>5. "properties" \in DOMAIN json
  BY <1>1, <1>4
<1>6. \A j \in DOMAIN json.properties : PropertyAccepted(json.properties[j])
  BY <1>5 DEF Accepted, ClassAccepted
<1>7. QED
  BY <1>1, <1>3, <1>4, <1>5, <1>6 DEF Given

(* What a filled property has, and what is inferred from its type. *)
LEMMA FilledProperty ==
    ASSUME NEW class, NEW p, PropertyAccepted(p)
    PROVE  LET q == FillProperty(class, p)
           IN  /\ q.name = p.name /\ q.type = p.type
               /\ "getterNoexcept" \notin DOMAIN p => q.getterNoexcept = GetterNoexcept(p.type)
               /\ "setterNoexcept" \notin DOMAIN p => q.setterNoexcept = SetterNoexcept(p.type)
               /\ "hasMemberVar" \notin DOMAIN p => q.hasMemberVar = (~q.getterCustom \/ ~q.setterCustom)
               /\ "hasMemberVar" \in DOMAIN p => q.hasMemberVar = p.hasMemberVar
  BY DEF FillProperty, PropertyAccepted, ??

(* A type's accessor is noexcept only where it returns a reference, or is given *)
(* a value.                                                                   *)
LEMMA NoexceptTypes ==
    ASSUME NEW type, ~IsPrimitiveType(type)
    PROVE  /\ GetterNoexcept(type) => GetterByReference(type)
           /\ SetterNoexcept(type) => ~SetterByReference(type)
  BY DEF GetterNoexcept, SetterNoexcept, GetterByReference, SetterByReference

LEMMA WritersNames ==
    \A w \in {"C header", "C source", "C++ header", "C++ source", "Web C++", "JS", "ObjC header", "ObjC source",
               "Swift"} :
        w \in ToSet(Writers)
<1>1. /\ Writers[1] = "C header" /\ Writers[2] = "C source" /\ Writers[3] = "C++ header"
      /\ Writers[4] = "C++ source" /\ Writers[5] = "Web C++" /\ Writers[6] = "JS"
      /\ Writers[8] = "ObjC header" /\ Writers[9] = "ObjC source" /\ Writers[10] = "Swift"
  BY DEF Writers
<1>2. \A a \in {1, 2, 3, 4, 5, 6, 8, 9, 10} : Writers[a] \in ToSet(Writers)
  BY WritersFacts
<1>3. QED
  BY <1>1, <1>2

(* The files of a class that was generated are of the class as it was filled. *)
LEMMA ClassOfFile ==
    ASSUME GInv, Settled, NEW i \in Generated, NEW w \in ToSet(Writers)
    PROVE  /\ Accepted(last.seen[i]) /\ last.seen[i] \in AllDescriptions
           /\ ClassIn(i, w) = Filled(last.seen[i])
<1>1. i \in DOMAIN last.seen \ last.failed
  BY DEF Generated
<1>2. files[i][w] = Text(last.seen, i)
  BY <1>1, UnreportedIsCurrent
<1>3. i \in DOMAIN Registered(last.seen)
  BY <1>1 DEF GInv, LastAccounted, Accounted, Settled
<1>4. ClassIn(i, w) = FilledOf[last.seen[i]]
  BY <1>2, <1>3, TextRefers DEF ClassIn
<1>5. last.seen[i] \in DOMAIN FilledOf
  BY <1>3, RegisteredDomain
<1>6. QED
  BY <1>4, <1>5 DEF FilledOf

(* An accessor that is noexcept because of its type neither returns a copy nor *)
(* copies what it is given, whatever type that is.                            *)
THEOREM NoexceptIsSound == Spec => []NoexceptCannotThrow
<1>1. ASSUME GInv, Settled, NEW i \in Generated,
             \A k \in DOMAIN Given(last.seen[i], "properties") :
                {"getterNoexcept", "setterNoexcept"} \cap DOMAIN Given(last.seen[i], "properties")[k] = {}
      PROVE  CXXThrowing(ClassIn(i, "C++ source")) = {}
  <2> DEFINE d == last.seen[i]
             class == ClassIn(i, "C++ source")
  <2>1. "C++ source" \in ToSet(Writers)
    BY WritersNames
  <2>2. Accepted(d) /\ class.properties = Opened(d).properties
    BY <1>1, <2>1, ClassOfFile, FilledProperties
  <2> HIDE DEF class
  <2>3. ASSUME NEW k \in DOMAIN class.properties
        PROVE  /\ class.properties[k].getterNoexcept = GetterNoexcept(class.properties[k].type)
               /\ class.properties[k].setterNoexcept = SetterNoexcept(class.properties[k].type)
    BY <1>1, <2>2, <2>3, EveryProperty, FilledProperty
  <2>4. QED
    BY <2>3, NoexceptTypes DEF CXXThrowing, ForEach, class
<1>2. GInv => NoexceptCannotThrow
  BY <1>1 DEF NoexceptCannotThrow
<1>3. QED
  BY <1>2, GInvariant, PTL

-----------------------------------------------------------------------------
(* What the files declare and define.                                       *)

(* C++: of each group of members, what the header declares and what is left    *)
(* to be written by hand make up what the source defines.                     *)
ConstructorKinds ==
    {"constructor", "copy constructor", "copy assignment", "move constructor", "move assignment", "destructor"}
OperatorKinds == {"operator==", "operator!=", "std::hash", "operator std::string", "operator<<"}
PropertyKinds == {"static member", "getter", "setter"}

LEMMA ConstructorsAreDefined ==
    ASSUME NEW class
    PROVE  /\ CXXHeaderConstructors(class) \ ByHandConstructors(class) = CXXSourceConstructors(class)
           /\ \A s \in CXXHeaderConstructors(class) \cup ByHandConstructors(class) : s[1] \in ConstructorKinds
<1> DEFINE a == <<"constructor", NoName>>
           b == <<"copy constructor", NoName>>
           c == <<"copy assignment", NoName>>
           d == <<"move constructor", NoName>>
           e == <<"move assignment", NoName>>
           f == <<"destructor", NoName>>
<1>1. /\ a # b /\ a # c /\ a # d /\ a # e /\ a # f /\ b # c /\ b # d /\ b # e /\ b # f
      /\ c # d /\ c # e /\ c # f /\ d # e /\ d # f /\ e # f
  OBVIOUS
<1>2. /\ Sole("constructor") = {a} /\ Sole("copy constructor") = {b} /\ Sole("copy assignment") = {c}
      /\ Sole("move constructor") = {d} /\ Sole("move assignment") = {e} /\ Sole("destructor") = {f}
  BY DEF Sole
<1>3. /\ a[1] \in ConstructorKinds /\ b[1] \in ConstructorKinds /\ c[1] \in ConstructorKinds
      /\ d[1] \in ConstructorKinds /\ e[1] \in ConstructorKinds /\ f[1] \in ConstructorKinds
  BY DEF ConstructorKinds
<1> HIDE DEF a, b, c, d, e, f
<1>4. \A s : s \in CXXHeaderConstructors(class) <=>
                \/ s = a /\ Written(class.parameterlessConstructor)
                \/ s \in {b, c} /\ Written(class.copyConstructor)
                \/ s \in {d, e} /\ Written(class.moveConstructor)
                \/ s = f /\ class.destructor.definition # "omitted"
  BY <1>2 DEF CXXHeaderConstructors, When
<1>5. \A s : s \in ByHandConstructors(class) <=>
                \/ s = a /\ class.parameterlessConstructor.custom
                \/ s = b /\ class.copyConstructor.custom
                \/ s = c /\ class.copyConstructor.customOperator
                \/ s = d /\ class.moveConstructor.custom
                \/ s = e /\ class.moveConstructor.customOperator
                \/ s = f /\ class.destructor.custom
  BY <1>2 DEF ByHandConstructors, When
<1>6. \A s : s \in CXXSourceConstructors(class) <=>
                \/ s = a /\ Written(class.parameterlessConstructor) /\ ~class.parameterlessConstructor.custom
                \/ s = b /\ Written(class.copyConstructor) /\ ~class.copyConstructor.custom
                \/ s = c /\ Written(class.copyConstructor) /\ ~class.copyConstructor.customOperator
                \/ s = d /\ Written(class.moveConstructor) /\ ~class.moveConstructor.custom
                \/ s = e /\ Written(class.moveConstructor) /\ ~class.moveConstructor.customOperator
                \/ s = f /\ class.destructor.definition # "omitted" /\ ~class.destructor.custom
  BY <1>2 DEF CXXSourceConstructors, When
<1>7. ASSUME NEW s
      PROVE  s \in CXXHeaderConstructors(class) \ ByHandConstructors(class) <=> s \in CXXSourceConstructors(class)
  BY <1>1, <1>4, <1>5, <1>6
<1>8. QED
  BY <1>3, <1>4, <1>5, <1>7

LEMMA OperatorsAreDefined ==
    ASSUME NEW class
    PROVE  /\ CXXHeaderOperators(class) \ ByHandOperators(class) = CXXSourceOperators(class)
           /\ \A s \in CXXHeaderOperators(class) \cup ByHandOperators(class) : s[1] \in OperatorKinds
<1> DEFINE a == <<"operator==", NoName>>
           b == <<"operator!=", NoName>>
           c == <<"std::hash", NoName>>
           d == <<"operator std::string", NoName>>
           e == <<"operator<<", NoName>>
<1>1. /\ a # b /\ a # c /\ a # d /\ a # e /\ b # c /\ b # d /\ b # e /\ c # d /\ c # e /\ d # e
  OBVIOUS
<1>2. /\ Sole("operator==") = {a} /\ Sole("operator!=") = {b} /\ Sole("std::hash") = {c}
      /\ Sole("operator std::string") = {d} /\ Sole("operator<<") = {e}
  BY DEF Sole
<1>3. /\ a[1] \in OperatorKinds /\ b[1] \in OperatorKinds /\ c[1] \in OperatorKinds
      /\ d[1] \in OperatorKinds /\ e[1] \in OperatorKinds
  BY DEF OperatorKinds
<1> HIDE DEF a, b, c, d, e
<1>4. \A s : s \in CXXHeaderOperators(class) <=>
                \/ s \in {a, b} /\ class.equalityOperator.defined
                \/ s = c /\ class.hashOperator.defined
                \/ s \in {d, e} /\ class.toStringOperator.defined
  BY <1>2 DEF CXXHeaderOperators, When
<1>5. \A s : s \in ByHandOperators(class) <=>
                \/ s = a /\ class.equalityOperator.custom
                \/ s = b /\ class.equalityOperator.customInequality
                \/ s = c /\ class.hashOperator.custom
                \/ s = e /\ class.toStringOperator.custom
  BY <1>2 DEF ByHandOperators, When
<1>6. \A s : s \in CXXSourceOperators(class) <=>
                \/ s = a /\ class.equalityOperator.defined /\ ~class.equalityOperator.custom
                \/ s = b /\ class.equalityOperator.defined /\ ~class.equalityOperator.customInequality
                \/ s = c /\ class.hashOperator.defined /\ ~class.hashOperator.custom
                \/ s = d /\ class.toStringOperator.defined
                \/ s = e /\ class.toStringOperator.defined /\ ~class.toStringOperator.custom
  BY <1>2 DEF CXXSourceOperators, When
<1>7. ASSUME NEW s
      PROVE  s \in CXXHeaderOperators(class) \ ByHandOperators(class) <=> s \in CXXSourceOperators(class)
  BY <1>1, <1>4, <1>5, <1>6
<1>8. QED
  BY <1>3, <1>4, <1>5, <1>7

LEMMA PropertiesAreDefined ==
    ASSUME NEW class, NamesDiffer(class)
    PROVE  /\ CXXHeaderProperties(class) \ ByHandProperties(class) = CXXSourceProperties(class) \ Undeclared(class)
           /\ \A s \in CXXHeaderProperties(class) \cup ByHandProperties(class) \cup Undeclared(class) :
                s[1] \in PropertyKinds
<1> DEFINE P == DOMAIN class.properties
           p(k) == class.properties[k]
           m == [k \in P |-> <<"static member", p(k).name>>]
           g == [k \in P |-> <<"getter", p(k).name>>]
           t == [k \in P |-> <<"setter", p(k).name>>]
<1>1. \A s : s \in CXXHeaderProperties(class) <=>
                \/ \E k \in P : s = m[k] /\ p(k).static /\ p(k).hasMemberVar
                \/ \E k \in P : s = g[k] /\ p(k).hasGetter
                \/ \E k \in P : s = t[k] /\ p(k).hasSetter
  BY DEF CXXHeaderProperties, ForEach
<1>2. \A s : s \in ByHandProperties(class) <=>
                \/ \E k \in P : s = g[k] /\ p(k).getterCustom
                \/ \E k \in P : s = t[k] /\ p(k).setterCustom
  BY DEF ByHandProperties, ForEach
<1>3. \A s : s \in CXXSourceProperties(class) <=>
                \/ \E k \in P : s = m[k] /\ p(k).static
                \/ \E k \in P : s = g[k] /\ p(k).hasGetter /\ ~p(k).getterCustom
                \/ \E k \in P : s = t[k] /\ p(k).hasSetter /\ ~p(k).setterCustom
  BY DEF CXXSourceProperties, ForEach
<1>4. \A s : s \in Undeclared(class) <=> \E k \in P : s = m[k] /\ p(k).static /\ ~p(k).hasMemberVar
  BY DEF Undeclared, ForEach
<1>5. /\ \A j, k \in P : m[j] = m[k] => j = k
      /\ \A j, k \in P : g[j] = g[k] => j = k
      /\ \A j, k \in P : t[j] = t[k] => j = k
  BY DEF NamesDiffer
<1>6. /\ \A j, k \in P : m[j] # g[k] /\ m[j] # t[k] /\ g[j] # t[k]
      /\ \A k \in P : m[k][1] \in PropertyKinds /\ g[k][1] \in PropertyKinds /\ t[k][1] \in PropertyKinds
  BY DEF PropertyKinds
<1> HIDE DEF P, p, m, g, t
<1>7. ASSUME NEW s
      PROVE  s \in CXXHeaderProperties(class) \ ByHandProperties(class) <=>
             s \in CXXSourceProperties(class) \ Undeclared(class)
  BY <1>1, <1>2, <1>3, <1>4, <1>5, <1>6
<1>8. QED
  BY <1>1, <1>2, <1>4, <1>6, <1>7

(* So together, the groups having no member in common. *)
LEMMA MembersAreDefined ==
    ASSUME NEW class, NamesDiffer(class)
    PROVE  CXXHeader(class) \ ByHand(class) = CXXSource(class) \ Undeclared(class)
<1> DEFINE H1 == CXXHeaderConstructors(class)
           H2 == CXXHeaderOperators(class)
           H3 == CXXHeaderProperties(class)
           B1 == ByHandConstructors(class)
           B2 == ByHandOperators(class)
           B3 == ByHandProperties(class)
           U == Undeclared(class)
           S3 == CXXSourceProperties(class)
<1>1. /\ \A s \in H1 \cup B1 : s[1] \in ConstructorKinds
      /\ \A s \in H2 \cup B2 : s[1] \in OperatorKinds
      /\ \A s \in H3 \cup B3 \cup U : s[1] \in PropertyKinds
  BY ConstructorsAreDefined, OperatorsAreDefined, PropertiesAreDefined
<1>2. /\ ConstructorKinds \cap OperatorKinds = {} /\ ConstructorKinds \cap PropertyKinds = {}
      /\ OperatorKinds \cap PropertyKinds = {}
  BY DEF ConstructorKinds, OperatorKinds, PropertyKinds
<1>3. CXXSource(class) = (H1 \ B1) \cup (H2 \ B2) \cup S3 /\ H3 \ B3 = S3 \ U
  BY ConstructorsAreDefined, OperatorsAreDefined, PropertiesAreDefined DEF CXXSource
<1>4. CXXHeader(class) = H1 \cup H2 \cup H3 /\ ByHand(class) = B1 \cup B2 \cup B3
  BY DEF CXXHeader, ByHand
<1> HIDE DEF H1, H2, H3, B1, B2, B3, U, S3
<1>5. (H1 \cup H2 \cup H3) \ (B1 \cup B2 \cup B3) = (H1 \ B1) \cup (H2 \ B2) \cup (H3 \ B3)
  BY <1>1, <1>2
<1>6. U \cap (H1 \cup H2) = {}
  BY <1>1, <1>2
<1>7. (H1 \ B1) \cup (H2 \ B2) \cup (H3 \ B3) = CXXSource(class) \ U
  BY <1>3, <1>6
<1>8. QED
  BY <1>4, <1>5, <1>7 DEF U

LEMMA HeadersAreDefined ==
    ASSUME NEW class
    PROVE  CHeader(class) \subseteq CSource(class) /\ ObjCHeader(class) \subseteq ObjCSource(class)
<1>1. CHeader(class) \subseteq CSource(class)
  BY DEF CHeader, CSource, CHeaderConstructors, CHeaderProperties, CSourceGetters, When
<1>2. ObjCHeader(class) \subseteq ObjCSource(class)
  BY DEF ObjCHeader, ObjCSource, ObjCMade, ObjCCopied, When
<1>3. QED
  BY <1>1, <1>2

-----------------------------------------------------------------------------
(* The entries of lists.                                                    *)

(* The loops that look for a name find the first place that has it. *)
Below == {pair \in Nat \X Nat : pair[1] < pair[2]}

LEMMA BelowIsWellFounded == IsWellFoundedOn(Below, Nat)
<1>1. OpToRel(<, Nat) = Below
  BY DEF OpToRel, Below
<1>2. QED
  BY <1>1, NatLessThanWellFounded

LEMMA LeastExists ==
    ASSUME NEW S, S \subseteq Nat, S # {}
    PROVE  \E x \in S : \A y \in S : x <= y
<1>1. \E x \in S : \A y \in S : ~ (<<y, x>> \in Below)
  BY BelowIsWellFounded, WFMin
<1>2. \A x, y \in Nat : y < x => <<y, x>> \in Below
  BY DEF Below
<1>3. PICK x \in S : \A y \in S : ~ (<<y, x>> \in Below)
  BY <1>1
<1>4. ASSUME NEW y \in S
      PROVE  x <= y
  <2>1. x \in Nat /\ y \in Nat
    OBVIOUS
  <2>2. ~(y < x)
    BY <1>2, <1>3, <2>1
  <2>3. QED
    BY <2>1, <2>2
<1>5. QED
  BY <1>4

LEMMA FirstPlaceHolds ==
    ASSUME NEW list, NEW name, DOMAIN list \subseteq Nat, Places(list, name) # {}
    PROVE  FirstPlace(list, name) \in DOMAIN list /\ list[FirstPlace(list, name)].name = name
<1>1. Places(list, name) \subseteq Nat
  BY DEF Places
<1>2. \E k \in Places(list, name) : \A j \in Places(list, name) : k <= j
  BY <1>1, LeastExists
<1>3. FirstPlace(list, name) \in Places(list, name)
  BY <1>2 DEF FirstPlace
<1>4. QED
  BY <1>3 DEF Places

(* The places in the lists of a description are numbers. *)
LEMMA PlacesAreNumbers ==
    ASSUME NEW d \in AllDescriptions, Accepted(d)
    PROVE  /\ DOMAIN Opened(d).properties \subseteq Nat
           /\ DOMAIN Given(Given(d, "equalityOperator"), "comparedProperties") \subseteq Nat
<1>1. PICK i \in Interfaces : d \in Descriptions[i]
  BY DEF AllDescriptions
<1>2. IsArray(Given(d, "properties")) /\ IsArray(Given(Given(d, "equalityOperator"), "comparedProperties"))
  BY <1>1, DescriptionsAssumption, GeneratorAssumption DEF Interfaces
<1>3. \A n : 1..n \subseteq Nat
  OBVIOUS
<1>4. QED
  BY <1>2, <1>3, EveryProperty DEF IsArray

LEMMA NamedHolds ==
    ASSUME NEW d \in AllDescriptions, Accepted(d), NEW e, HasProperty(Opened(d), e)
    PROVE  \E k \in DOMAIN Opened(d).properties :
                Opened(d).properties[k].name = e.name /\ Named(Opened(d), e.name) = Opened(d).properties[k]
  BY PlacesAreNumbers, FirstPlaceHolds DEF HasProperty, Named

(* Where the parts of a filled description come from. *)
LEMMA FilledConstructors ==
    ASSUME NEW json
    PROVE  /\ Filled(json).parameterlessConstructor =
                FillConstructor(Opened(json), Given(json, "parameterlessConstructor"), "parameterless")
           /\ Filled(json).copyConstructor = FillConstructor(Opened(json), Given(json, "copyConstructor"), "copy")
           /\ Filled(json).moveConstructor = FillConstructor(Opened(json), Given(json, "moveConstructor"), "move")
           /\ Filled(json).destructor = FillDestructor(Given(json, "destructor"))
<1>1. \A key \in {"parameterlessConstructor", "copyConstructor", "moveConstructor", "destructor"} :
            Given(Opened(json), key) = Given(json, key)
  BY OpenedKeeps DEF Given
<1>2. /\ {"parameterlessConstructor", "copyConstructor", "moveConstructor", "destructor"} \subseteq DOMAIN Built(json)
      /\ Built(json).parameterlessConstructor =
            FillConstructor(Opened(json), Given(json, "parameterlessConstructor"), "parameterless")
      /\ Built(json).copyConstructor = FillConstructor(Opened(json), Given(json, "copyConstructor"), "copy")
      /\ Built(json).moveConstructor = FillConstructor(Opened(json), Given(json, "moveConstructor"), "move")
      /\ Built(json).destructor = FillDestructor(Given(json, "destructor"))
  BY <1>1 DEF Built, FillConstructors, ??
<1>3. QED
  BY <1>2, FilledKeeps

LEMMA FilledOperators ==
    ASSUME NEW json
    PROVE  /\ Filled(json).equalityOperator = FillEqualityOperator(Built(json), Given(json, "equalityOperator"))
           /\ Filled(json).hashOperator =
                FillHashOperator(Built(json), Filled(json).equalityOperator, "hashOperator" \in DOMAIN json,
                                 Given(json, "hashOperator"))
<1>1. /\ \A key \in {"equalityOperator", "hashOperator"} : Given(Opened(json), key) = Given(json, key)
      /\ "hashOperator" \in DOMAIN Opened(json) <=> "hashOperator" \in DOMAIN json
  BY OpenedKeeps DEF Given
<1>2. /\ \A key \in {"equalityOperator", "hashOperator"} : Given(Built(json), key) = Given(json, key)
      /\ "hashOperator" \in DOMAIN Built(json) <=> "hashOperator" \in DOMAIN json
  BY <1>1, BuiltKeeps DEF Given
<1>3. Filled(json) = FillOperators(Built(json))
  BY DEF Filled, Built, Opened
<1>4. /\ FillOperators(Built(json)).equalityOperator =
            FillEqualityOperator(Built(json), Given(Built(json), "equalityOperator"))
      /\ FillOperators(Built(json)).hashOperator =
            FillHashOperator(Built(json), FillEqualityOperator(Built(json), Given(Built(json), "equalityOperator")),
                             "hashOperator" \in DOMAIN Built(json), Given(Built(json), "hashOperator"))
  BY DEF FillOperators, ??
<1>5. QED
  BY <1>2, <1>3, <1>4

(* What the operators were accepted for. *)
LEMMA AcceptedParts ==
    ASSUME NEW json, Accepted(json)
    PROVE  /\ \A key \in {"parameterlessConstructor", "copyConstructor", "moveConstructor"} :
                ConstructorAccepted(Opened(json), Given(json, key))
           /\ DestructorAccepted(Given(json, "destructor"))
           /\ EqualityOperatorAccepted(Opened(json), Given(json, "equalityOperator"))
           /\ HashOperatorAccepted(Opened(json), FillEqualityOperator(Opened(json), Given(json, "equalityOperator")),
                                   Given(json, "hashOperator"))
<1>1. \A key \in {"parameterlessConstructor", "copyConstructor", "moveConstructor", "destructor", "equalityOperator",
                  "hashOperator"} : Given(Opened(json), key) = Given(json, key)
  BY OpenedKeeps DEF Given
<1>2. ConstructorsAccepted(Opened(json)) /\ OperatorsAccepted(Opened(json))
  BY DEF Accepted, Opened
<1>3. QED
  BY <1>1, <1>2 DEF ConstructorsAccepted, OperatorsAccepted

(* A constructor's definition is one of the four, whether it is said or inferred. *)
LEMMA DefinitionIsOne ==
    ASSUME NEW class, NEW ctor, ConstructorAccepted(class, ctor), NEW kind \in {"parameterless", "copy", "move"}
    PROVE  FillConstructor(class, ctor, kind).definition \in ConstructorDefinition
<1> DEFINE initialized == FillInitialized(class, ctor, kind)
           canBeDefault == InitializedCanBeDefault(class, initialized, kind) /\ CodeCanBeDefault(ctor)
<1>1. /\ "definition" \in DOMAIN FillCode(ctor) <=> "definition" \in DOMAIN ctor
      /\ "definition" \in DOMAIN ctor => FillCode(ctor).definition = ctor.definition
  BY DEF FillCode, ??
<1>2. FillConstructor(class, ctor, kind).definition =
            IF "definition" \in DOMAIN FillCode(ctor) THEN FillCode(ctor).definition
            ELSE DefinitionIfNotSet(class, kind, canBeDefault)
  BY DEF FillConstructor, ??
<1>3. "definition" \in DOMAIN ctor => ctor.definition \in ConstructorDefinition
  BY DEF ConstructorAccepted, OneOf
<1> HIDE DEF canBeDefault
<1>4. DefinitionIfNotSet(class, kind, canBeDefault) \in ConstructorDefinition
  BY DEF DefinitionIfNotSet, ConstructorDefinition
<1>5. QED
  BY <1>1, <1>2, <1>3, <1>4

-----------------------------------------------------------------------------
(* What the files use of each other.                                        *)

(* What is not deleted is declared, or supplied by the compiler. *)
LEMMA ConstructorsAreThere ==
    ASSUME NEW d, Accepted(d)
    PROVE  LET class == Filled(d)
               cxx == CXXHeader(class) \cup Implicit(class)
           IN  /\ CCreate(class) => <<"constructor", NoName>> \in cxx
               /\ CDuplicate(class) => <<"copy constructor", NoName>> \in cxx
               /\ <<"destructor", NoName>> \in cxx
<1> DEFINE class == Filled(d)
           cxx == CXXHeader(class) \cup Implicit(class)
<1>1. /\ class.parameterlessConstructor.definition \in ConstructorDefinition
      /\ class.copyConstructor.definition \in ConstructorDefinition
  BY FilledConstructors, AcceptedParts, DefinitionIsOne
<1> HIDE DEF class
<1>2. CCreate(class) =>
        Written(class.parameterlessConstructor) \/ class.parameterlessConstructor.definition = "omitted"
  BY <1>1 DEF CCreate, Written, ConstructorDefinition
<1>3. CDuplicate(class) => Written(class.copyConstructor) \/ class.copyConstructor.definition = "omitted"
  BY <1>1 DEF CDuplicate, Written, ConstructorDefinition
<1>4. Written(class.parameterlessConstructor) \/ class.parameterlessConstructor.definition = "omitted"
        => <<"constructor", NoName>> \in cxx
  BY DEF CXXHeader, CXXHeaderConstructors, Implicit, When, Sole
<1>5. Written(class.copyConstructor) \/ class.copyConstructor.definition = "omitted"
        => <<"copy constructor", NoName>> \in cxx
  BY DEF CXXHeader, CXXHeaderConstructors, Implicit, When, Sole
<1>6. <<"destructor", NoName>> \in cxx
  BY DEF CXXHeader, CXXHeaderConstructors, Implicit, When, Sole
<1>7. QED
  BY <1>2, <1>3, <1>4, <1>5, <1>6 DEF class

LEMMA OperatorsAreThere ==
    ASSUME NEW class
    PROVE  /\ When(class.equalityOperator.defined, Sole("operator==")) \subseteq CXXHeader(class)
           /\ When(class.hashOperator.defined, Sole("std::hash")) \subseteq CXXHeader(class)
           /\ When(class.toStringOperator.defined, Sole("operator std::string")) \subseteq CXXHeader(class)
  BY DEF CXXHeader, CXXHeaderOperators, When

LEMMA AccessorsAreThere ==
    ASSUME NEW class
    PROVE  ForEach(class, "getter", HasPublicGetter) \cup ForEach(class, "setter", HasPublicSetter)
                \subseteq CXXHeader(class)
<1>1. ForEach(class, "getter", HasPublicGetter) \subseteq ForEach(class, "getter", LAMBDA p : p.hasGetter)
  BY DEF ForEach, HasPublicGetter
<1>2. ForEach(class, "setter", HasPublicSetter) \subseteq ForEach(class, "setter", LAMBDA p : p.hasSetter)
  BY DEF ForEach, HasPublicSetter
<1>3. QED
  BY <1>1, <1>2 DEF CXXHeader, CXXHeaderProperties

LEMMA ClassUsesAreDeclared ==
    ASSUME NEW d, Accepted(d)
    PROVE  LET class == Filled(d)
               cxx == CXXHeader(class) \cup Implicit(class)
           IN  /\ CSourceUses(class) \cup ObjCSourceUses(class) \subseteq cxx
               /\ WebCXXUses(class) \subseteq cxx
               /\ WebJSUses(class) \subseteq WebCXX(class)
               /\ SwiftUses(class) \subseteq ObjCHeader(class)
<1> DEFINE class == Filled(d)
           cxx == CXXHeader(class) \cup Implicit(class)
<1>1. /\ CCreate(class) => <<"constructor", NoName>> \in cxx
      /\ CDuplicate(class) => <<"copy constructor", NoName>> \in cxx
      /\ <<"destructor", NoName>> \in cxx
  BY ConstructorsAreThere
<1> HIDE DEF class
<1>2. CSourceUses(class) \subseteq cxx
  <2>1. /\ When(CCreate(class), Sole("constructor")) \subseteq cxx
        /\ When(CDuplicate(class), Sole("copy constructor")) \subseteq cxx
        /\ When(~class.static, Sole("destructor")) \subseteq cxx
    BY <1>1 DEF When, Sole
  <2>2. QED
    BY <2>1, OperatorsAreThere, AccessorsAreThere DEF CSourceUses
<1>3. WebCXXUses(class) \subseteq cxx
  <2> DEFINE made == <<"constructor", NoName>>
             copied == <<"copy constructor", NoName>>
  <2>1. made \in WebCXX(class) => CCreate(class)
    BY DEF WebCXX, When, Sole, ForEach
  <2>2. copied \in WebCXX(class) => CDuplicate(class)
    BY DEF WebCXX, When, Sole, ForEach
  <2>3. WebCXX(class) \cap (Sole("constructor") \cup Sole("copy constructor")) \subseteq cxx
    <3>1. Sole("constructor") = {made} /\ Sole("copy constructor") = {copied}
      BY DEF Sole
    <3> HIDE DEF made, copied, cxx
    <3>2. made \in cxx \/ ~CCreate(class)
      BY <1>1 DEF made
    <3>3. copied \in cxx \/ ~CDuplicate(class)
      BY <1>1 DEF copied
    <3>4. QED
      BY <2>1, <2>2, <3>1, <3>2, <3>3
  <2>4. QED
    BY <2>3, OperatorsAreThere, AccessorsAreThere DEF WebCXXUses
<1>4. WebJSUses(class) \subseteq WebCXX(class)
  BY DEF WebJSUses, WebCXX
<1>5. SwiftUses(class) \subseteq ObjCHeader(class)
  BY DEF SwiftUses, ObjCHeader
<1>6. QED
  BY <1>2, <1>3, <1>4, <1>5 DEF class, ObjCSourceUses

(* What the files of a class use of the class of a property. *)
LEMMA PropertyUsesAreDeclared ==
    ASSUME NEW of, NEW p, CDuplicate(of), of.copyConstructor.visibility = "public"
    PROVE  /\ CSourceUsesOf(p) \subseteq CHeader(of)
           /\ ObjCSourceUsesOf(p) \subseteq ObjCHeader(of)
           /\ <<"smart_ptr", NoName>> \in WebCXX(of)
<1>1. ~of.static
  BY DEF CDuplicate
<1>2. Sole("duplicate") \cup Sole("destroy") \subseteq CHeaderConstructors(of)
  BY <1>1 DEF CHeaderConstructors, When
<1>3. Sole("ref_clone") \cup Sole("ref_delete") \subseteq CRef(of)
  BY <1>1 DEF CRef, When
<1>4. CSourceUsesOf(p) \subseteq CHeader(of)
  BY <1>2, <1>3 DEF CSourceUsesOf, CHeader, When
<1>5. ObjCSourceUsesOf(p) \subseteq ObjCHeader(of)
  BY <1>1 DEF ObjCSourceUsesOf, ObjCHeader, When
<1>6. <<"smart_ptr", NoName>> \in WebCXX(of)
  BY DEF WebCXX, When, Sole
<1>7. QED
  BY <1>4, <1>5, <1>6

-----------------------------------------------------------------------------
(* The member variables that the definitions name.                          *)

(* A list member names a property of the class that has a member variable. *)
HasMember(class, name) ==
    \E k \in DOMAIN class.properties : class.properties[k].name = name /\ class.properties[k].hasMemberVar

LEMMA NamedHasMember ==
    ASSUME NEW d \in AllDescriptions, Accepted(d), NEW e, HasProperty(Opened(d), e),
           Named(Opened(d), e.name).hasMemberVar
    PROVE  HasMember(Opened(d), e.name)
  BY NamedHolds DEF HasMember

(* Accessors that are not left to the author: the property has the member. *)
LEMMA AccessedIsMember ==
    ASSUME NEW d, Accepted(d), ~SaysMembers(d), NEW k \in DOMAIN Opened(d).properties,
           ~Opened(d).properties[k].getterCustom \/ ~Opened(d).properties[k].setterCustom
    PROVE  Opened(d).properties[k].hasMemberVar
<1>1. "hasMemberVar" \in DOMAIN Given(d, "properties")[k] => Given(d, "properties")[k].hasMemberVar
  BY EveryProperty DEF SaysMembers
<1> DEFINE p == Given(d, "properties")[k]
           q == Opened(d).properties[k]
<1>2. PropertyAccepted(p) /\ q = FillProperty(FillClass(d), p)
  BY EveryProperty
<1>3. ~q.getterCustom \/ ~q.setterCustom
  OBVIOUS
<1> HIDE DEF p, q
<1>4. FillProperty(FillClass(d), p).hasMemberVar
  BY <1>1, <1>2, <1>3, FilledProperty DEF p
<1>5. q.hasMemberVar
  BY <1>2, <1>4
<1>6. QED
  BY <1>5 DEF q

(* Constructors initialise only member variables: those that are listed are    *)
(* refused otherwise, and the others are the stored ones.                     *)
LEMMA InitializedIsMember ==
    ASSUME NEW d \in AllDescriptions, Accepted(d), NEW ctor, ConstructorAccepted(Opened(d), ctor),
           NEW kind \in {"parameterless", "copy", "move"},
           NEW e \in ToSet(FillConstructor(Opened(d), ctor, kind).initializedProperties)
    PROVE  HasMember(Opened(d), e.name)
<1> DEFINE o == Opened(d)
           listed == IF "initializedProperties" \in DOMAIN ctor THEN ctor.initializedProperties
                     ELSE [k \in Stored(o) |-> [name |-> o.properties[k].name]]
           Full(k) == listed[k] ?? [value |-> InferredValue(kind, Named(o, listed[k].name)),
                                    initializeInBody |-> FALSE]
<1>1. FillConstructor(o, ctor, kind).initializedProperties = FillInitialized(o, ctor, kind)
  BY DEF FillConstructor, ??
<1>2. FillInitialized(o, ctor, kind) =
        [k \in DOMAIN listed |-> Full(k)]
  BY DEF FillInitialized
<1>3. \A k : "name" \in DOMAIN listed[k] => Full(k).name = listed[k].name
  BY DEF ??
<1> HIDE DEF Full, listed
<1>4. PICK k \in DOMAIN listed : e = Full(k)
  BY <1>1, <1>2 DEF ToSet
<1>5. CASE "initializedProperties" \in DOMAIN ctor
  <2>1. HasProperty(o, listed[k]) /\ Named(o, listed[k].name).hasMemberVar
    BY <1>4, <1>5 DEF ConstructorAccepted, InitializedAccepted, listed
  <2>2. "name" \in DOMAIN listed[k]
    BY <2>1 DEF HasProperty
  <2>3. QED
    BY <1>3, <1>4, <2>1, <2>2, NamedHasMember
<1>6. CASE "initializedProperties" \notin DOMAIN ctor
  <2>1. k \in Stored(o) /\ listed[k] = [name |-> o.properties[k].name]
    BY <1>4, <1>6 DEF listed
  <2>2. e.name = o.properties[k].name
    BY <1>3, <1>4, <2>1
  <2>3. QED
    BY <2>1, <2>2 DEF Stored, HasMember
<1>7. QED
  BY <1>5, <1>6

(* What is compared without its getter is a member variable. *)
LEMMA ComparedIsMember ==
    ASSUME NEW d \in AllDescriptions, Accepted(d), ~SaysMembers(d),
           NEW k \in DOMAIN Filled(d).equalityOperator.comparedProperties,
           ~Filled(d).equalityOperator.comparedProperties[k].useGetter
    PROVE  HasMember(Opened(d), Filled(d).equalityOperator.comparedProperties[k].name)
<1> DEFINE o == Opened(d)
           b == Built(d)
           op == Given(d, "equalityOperator")
           compared == Filled(d).equalityOperator.comparedProperties
<1>1. b.properties = o.properties /\ Filled(d).equalityOperator = FillEqualityOperator(b, op)
  BY FilledProperties, FilledOperators
<1>2. CASE "comparedProperties" \in DOMAIN op
  <2> DEFINE e == op.comparedProperties[k]
  <2>1. compared = [j \in DOMAIN op.comparedProperties |->
                        op.comparedProperties[j] ??
                            [useGetter |-> ~Named(b, op.comparedProperties[j].name).hasMemberVar,
                             comparator |-> TypePropEqOp(Named(b, op.comparedProperties[j].name).type)]]
    BY <1>1, <1>2 DEF FillEqualityOperator, ??
  <2>2. k \in DOMAIN op.comparedProperties /\ HasProperty(o, e)
    BY <1>2, <2>1, AcceptedParts DEF EqualityOperatorAccepted, ListedAccepted
  <2>3. "name" \in DOMAIN e
    BY <2>2 DEF HasProperty
  <2>4. "useGetter" \in DOMAIN e => e.useGetter
    BY <1>2, <2>2 DEF SaysMembers, Given
  <2>5. /\ compared[k].name = e.name
        /\ compared[k].useGetter = IF "useGetter" \in DOMAIN e THEN e.useGetter ELSE ~Named(b, e.name).hasMemberVar
    <3> DEFINE said == [useGetter |-> ~Named(b, e.name).hasMemberVar,
                        comparator |-> TypePropEqOp(Named(b, e.name).type)]
    <3>1. compared[k] = e ?? said
      BY <2>1, <2>2
    <3>2. DOMAIN said = {"useGetter", "comparator"} /\ said.useGetter = ~Named(b, e.name).hasMemberVar
      OBVIOUS
    <3> HIDE DEF said, e, compared
    <3>3. QED
      BY <2>3, <3>1, <3>2 DEF ??
  <2>6. Named(b, e.name) = Named(o, e.name)
    BY <1>1 DEF Named
  <2>7. Named(o, e.name).hasMemberVar
    BY <2>4, <2>5, <2>6
  <2>8. QED
    BY <2>2, <2>5, <2>7, NamedHasMember
<1>3. CASE "comparedProperties" \notin DOMAIN op
  <2>1. compared = EqualityOperatorComparedProperties(b)
    BY <1>1, <1>3 DEF FillEqualityOperator, ??
  <2>2. k \in DOMAIN o.properties /\ compared[k].name = o.properties[k].name
        /\ compared[k].useGetter = ~o.properties[k].hasMemberVar
    BY <1>1, <2>1 DEF EqualityOperatorComparedProperties
  <2>3. QED
    BY <2>2 DEF HasMember
<1>4. QED
  BY <1>2, <1>3

LEMMA ComparedPlaces ==
    ASSUME NEW d \in AllDescriptions, Accepted(d)
    PROVE  DOMAIN Filled(d).equalityOperator.comparedProperties \subseteq Nat
<1> DEFINE op == Given(d, "equalityOperator")
           compared == Filled(d).equalityOperator.comparedProperties
<1>1. Built(d).properties = Opened(d).properties /\ Filled(d).equalityOperator = FillEqualityOperator(Built(d), op)
  BY FilledProperties, FilledOperators
<1>2. CASE "comparedProperties" \in DOMAIN op
  <2>1. DOMAIN compared = DOMAIN op.comparedProperties
    <3>1. compared = [j \in DOMAIN op.comparedProperties |->
                        op.comparedProperties[j] ??
                            [useGetter |-> ~Named(Built(d), op.comparedProperties[j].name).hasMemberVar,
                             comparator |-> TypePropEqOp(Named(Built(d), op.comparedProperties[j].name).type)]]
      BY <1>1, <1>2 DEF FillEqualityOperator, ??
    <3>2. QED
      BY <3>1
  <2>2. QED
    BY <1>2, <2>1, PlacesAreNumbers DEF Given
<1>3. CASE "comparedProperties" \notin DOMAIN op
  <2>1. compared = EqualityOperatorComparedProperties(Built(d))
    BY <1>1, <1>3 DEF FillEqualityOperator, ??
  <2>2. DOMAIN compared \subseteq DOMAIN Opened(d).properties
    BY <1>1, <2>1 DEF EqualityOperatorComparedProperties
  <2>3. QED
    BY <2>2, PlacesAreNumbers
<1>4. QED
  BY <1>2, <1>3

(* So is what is hashed without its getter: what is said of comparing a property *)
(* goes for hashing it.                                                       *)
LEMMA HashedIsMember ==
    ASSUME NEW d \in AllDescriptions, Accepted(d), ~SaysMembers(d),
           NEW k \in DOMAIN Filled(d).hashOperator.hashedProperties,
           ~Filled(d).hashOperator.hashedProperties[k].useGetter
    PROVE  HasMember(Opened(d), Filled(d).hashOperator.hashedProperties[k].name)
<1> DEFINE o == Opened(d)
           b == Built(d)
           op == Given(d, "hashOperator")
           equality == Filled(d).equalityOperator
           compared == equality.comparedProperties
           hashed == Filled(d).hashOperator.hashedProperties
<1>1. /\ b.properties = o.properties
      /\ Filled(d).hashOperator = FillHashOperator(b, equality, "hashOperator" \in DOMAIN d, op)
  BY FilledProperties, FilledOperators
<1>2. CASE "hashedProperties" \in DOMAIN op
  <2> DEFINE e == op.hashedProperties[k]
  <2>1. hashed = [j \in DOMAIN op.hashedProperties |-> FillHashedProperty(b, equality, op.hashedProperties[j])]
    BY <1>1, <1>2 DEF FillHashOperator, ??
  <2>2. k \in DOMAIN op.hashedProperties /\ HasProperty(o, e)
    BY <1>2, <2>1, AcceptedParts DEF HashOperatorAccepted
  <2>3. "name" \in DOMAIN e
    BY <2>2 DEF HasProperty
  <2>4. "useGetter" \in DOMAIN e => e.useGetter
    BY <1>2, <2>2 DEF SaysMembers, Given
  <2>5. hashed[k] = FillHashedProperty(b, equality, e)
    BY <2>1, <2>2
  <2>6. /\ hashed[k].name = e.name
        /\ hashed[k].useGetter =
                IF "useGetter" \in DOMAIN e THEN e.useGetter
                ELSE IF Places(compared, e.name) # {} THEN compared[FirstPlace(compared, e.name)].useGetter
                ELSE ~Named(b, e.name).hasMemberVar
    BY <2>3, <2>5 DEF FillHashedProperty, ??
  <2>7. CASE Places(compared, e.name) # {}
    <3> DEFINE first == FirstPlace(compared, e.name)
    <3>1. first \in DOMAIN compared /\ compared[first].name = e.name
      BY <2>7, ComparedPlaces, FirstPlaceHolds
    <3>2. ~compared[first].useGetter
      BY <2>4, <2>6, <2>7
    <3> HIDE DEF first
    <3>3. HasMember(o, compared[first].name)
      BY <3>1, <3>2, ComparedIsMember
    <3>4. QED
      BY <2>6, <3>1, <3>3
  <2>8. CASE Places(compared, e.name) = {}
    <3>1. Named(b, e.name) = Named(o, e.name)
      BY <1>1 DEF Named
    <3>2. Named(o, e.name).hasMemberVar
      BY <2>4, <2>6, <2>8, <3>1
    <3>3. QED
      BY <2>2, <2>6, <3>2, NamedHasMember
  <2>9. QED
    BY <2>7, <2>8
<1>3. CASE "hashedProperties" \notin DOMAIN op
  <2>1. hashed = HashOperatorHashedProperties(b, equality)
    BY <1>1, <1>3 DEF FillHashOperator, ??
  <2>2. k \in DOMAIN compared /\ hashed[k].name = compared[k].name /\ hashed[k].useGetter = compared[k].useGetter
    <3> HIDE DEF compared
    <3>1. hashed = [j \in DOMAIN compared |->
                      [name |-> compared[j].name, useGetter |-> compared[j].useGetter,
                       hasher |-> TypePropHasher(Named(b, compared[j].name).type)]]
      BY <2>1, Zenon DEF HashOperatorHashedProperties, compared
    <3> HIDE DEF hashed
    <3>2. k \in DOMAIN hashed
      BY DEF hashed
    <3>3. QED
      BY <3>1, <3>2
  <2>3. QED
    BY <2>2, ComparedIsMember
<1>4. QED
  BY <1>2, <1>3

LEMMA MembersAreThere ==
    ASSUME NEW d \in AllDescriptions, Accepted(d), ~SaysMembers(d)
    PROVE  CXXSourceMembers(Filled(d)) \subseteq ForEach(Filled(d), "member", LAMBDA p : p.hasMemberVar)
<1> DEFINE class == Filled(d)
           members == ForEach(class, "member", LAMBDA p : p.hasMemberVar)
<1>1. class.properties = Opened(d).properties
  BY FilledProperties
<1>2. \A name : HasMember(Opened(d), name) => <<"member", name>> \in members
  BY <1>1 DEF HasMember, ForEach
<1>3. /\ ForEach(class, "member", LAMBDA p : p.hasGetter /\ ~p.getterCustom) \subseteq members
      /\ ForEach(class, "member", LAMBDA p : p.hasSetter /\ ~p.setterCustom) \subseteq members
  BY <1>1, AccessedIsMember DEF ForEach
<1>4. ASSUME NEW e \in InitializedEntries(class)
      PROVE  HasMember(Opened(d), e.name)
  <2>1. \/ e \in ToSet(class.parameterlessConstructor.initializedProperties)
        \/ e \in ToSet(class.copyConstructor.initializedProperties)
        \/ e \in ToSet(class.moveConstructor.initializedProperties)
    BY DEF InitializedEntries, When
  <2>2. QED
    BY <2>1, FilledConstructors, AcceptedParts, InitializedIsMember
<1>5. ASSUME NEW e \in ComparedEntries(class)
      PROVE  HasMember(Opened(d), e.name)
  BY ComparedIsMember DEF ComparedEntries, When, ToSet
<1>6. ASSUME NEW e \in HashedEntries(class)
      PROVE  HasMember(Opened(d), e.name)
  BY HashedIsMember DEF HashedEntries, When, ToSet
<1> HIDE DEF class, members
<1>7. ASSUME NEW e \in InitializedEntries(class) \cup ComparedEntries(class) \cup HashedEntries(class)
      PROVE  <<"member", e.name>> \in members
  BY <1>2, <1>4, <1>5, <1>6
<1>8. CXXSourceMembers(class) \subseteq members
  BY <1>3, <1>7 DEF CXXSourceMembers
<1>9. QED
  BY <1>8 DEF class, members

(* Once a run has completed, the files of all languages fit together: what a  *)
(* header declares is defined, what a file uses of another is declared there, *)
(* and the C++ definitions name member variables that are there.              *)
THEOREM FilesStayTogether == Spec => []FilesFitTogether
<1>1. ASSUME GInv, Settled
      PROVE  \A i \in Generated :
                /\ last.seen[i] \in AllDescriptions /\ Accepted(last.seen[i])
                /\ \A w \in ToSet(Writers) : ClassIn(i, w) = Filled(last.seen[i])
  BY <1>1, WritersNames, ClassOfFile
<1>2. ASSUME GInv
      PROVE  DeclaredIsDefined
  BY <1>1, <1>2, WritersNames, HeadersAreDefined, MembersAreDefined DEF DeclaredIsDefined
<1>3. ASSUME GInv
      PROVE  UsesAreDeclared
  BY <1>1, <1>3, WritersNames, ClassUsesAreDeclared, PropertyUsesAreDeclared DEF UsesAreDeclared
<1>4. ASSUME GInv
      PROVE  MembersExist
  BY <1>1, <1>4, WritersNames, MembersAreThere DEF MembersExist
<1>5. GInv => FilesFitTogether
  BY <1>2, <1>3, <1>4 DEF FilesFitTogether
<1>6. QED
  BY <1>5, GInvariant, PTL
=============================================================================
