--------------------------- MODULE StreamsProofs ---------------------------
(***************************************************************************)
(* Theorems about Streams for any data, sizes of content and queries: what *)
(* the streams carry, that an upload is a Transfer, and how far a download *)
(* can be trusted.                                                         *)
(***************************************************************************)
EXTENDS Streams, SequenceTheorems, TLAPS

-----------------------------------------------------------------------------
(* Sequences                                                               *)

LEMMA ConcatFacts ==
    ASSUME NEW S, NEW s \in Seq(S), NEW t \in Seq(S), NEW u, u = s \o t
    PROVE  /\ u \in Seq(S) /\ Len(u) = Len(s) + Len(t)
           /\ Len(s) \in Nat /\ Len(t) \in Nat /\ Len(u) \in Nat
           /\ \A i \in 1..Len(s) : u[i] = s[i]
           /\ \A i \in 1..Len(t) : u[Len(s) + i] = t[i]
<1>1. Len(s) \in Nat /\ Len(t) \in Nat
  BY LenProperties
<1>2. /\ u \in Seq(S) /\ Len(u) = Len(s) + Len(t)
      /\ \A i \in 1..Len(s) + Len(t) :
            u[i] = IF i <= Len(s) THEN s[i] ELSE t[i - Len(s)]
  BY ConcatProperties
<1> QED BY <1>1, <1>2

\* What is left of a stream when its first n parts were read.
LEMMA CutFacts ==
    ASSUME NEW S, NEW s \in Seq(S), NEW n \in 0..Len(s),
           NEW u, u = SubSeq(s, n + 1, Len(s))
    PROVE  /\ u \in Seq(S) /\ Len(u) = Len(s) - n /\ Len(s) \in Nat /\ Len(u) \in Nat
           /\ \A i \in 1..Len(u) : u[i] = s[n + i]
<1>1. Len(s) \in Nat /\ n \in Nat
  BY LenProperties
<1>2. \A i \in (n + 1)..Len(s) : s[i] \in S
  BY <1>1, ElementOfSeq
<1>3. /\ u \in Seq(S) /\ Len(u) = IF n + 1 <= Len(s) THEN Len(s) - (n + 1) + 1 ELSE 0
      /\ \A i \in 1..Len(s) - (n + 1) + 1 : u[i] = s[n + 1 + i - 1]
  <2> HIDE DEF CutFacts
  <2> QED BY <1>1, <1>2, SubSeqProperties
<1>4. Len(u) = Len(s) - n
  BY <1>1, <1>3
<1>5. ASSUME NEW i \in 1..Len(u) PROVE u[i] = s[n + i]
  <2>1. i \in 1..Len(s) - (n + 1) + 1 /\ n + 1 + i - 1 = n + i
    BY <1>1, <1>4
  <2> QED BY <1>3, <2>1
<1> QED BY <1>1, <1>3, <1>4, <1>5

\* The first n elements.
LEMMA PrefixFacts ==
    ASSUME NEW S, NEW s \in Seq(S), NEW n \in 0..Len(s), NEW u, u = SubSeq(s, 1, n)
    PROVE  /\ u \in Seq(S) /\ Len(u) = n /\ n \in Nat
           /\ \A i \in 1..n : u[i] = s[i]
<1>1. Len(s) \in Nat /\ n \in Nat
  BY LenProperties
<1>2. \A i \in 1..n : s[i] \in S
  BY <1>1, ElementOfSeq
<1>3. /\ u \in Seq(S) /\ Len(u) = IF 1 <= n THEN n - 1 + 1 ELSE 0
      /\ \A i \in 1..n - 1 + 1 : u[i] = s[1 + i - 1]
  BY <1>1, <1>2, SubSeqProperties
<1> QED BY <1>1, <1>3

LEMMA ShortenedFacts ==
    ASSUME NEW S, NEW s \in Seq(S), NEW u \in Shortened(s)
    PROVE  /\ u \in Seq(S) /\ Len(u) \in 0..Len(s) /\ Len(u) \in Nat
           /\ u = SubSeq(s, 1, Len(u))
           /\ \A i \in 1..Len(u) : u[i] = s[i]
<1>1. PICK n \in 0..Len(s) : u = SubSeq(s, 1, n)
  BY DEF Shortened
<1> QED BY <1>1, PrefixFacts

-----------------------------------------------------------------------------
(* Frames                                                                  *)

LEMMA FrameFacts ==
    ASSUME NEW d \in Data
    PROVE  /\ Size[d] \in Nat
           /\ Header(d) \in Seq(Parts) /\ Len(Header(d)) = 3
           /\ Header(d)[1] = <<"prefix", d>> /\ Header(d)[2] = <<"rest", d>>
           /\ Header(d)[3] = <<"meta", d>>
           /\ Chunks(d) \in Seq(Parts) /\ Len(Chunks(d)) = Size[d]
           /\ \A i \in 1..Size[d] : Chunks(d)[i] = <<"chunk", d, i>>
           /\ Frame(d) \in Seq(Parts) /\ Len(Frame(d)) = 3 + Size[d]
           /\ Frame(d)[1] = <<"prefix", d>> /\ Frame(d)[2] = <<"rest", d>>
           /\ Frame(d)[3] = <<"meta", d>>
           /\ \A i \in 1..Size[d] : Frame(d)[3 + i] = <<"chunk", d, i>>
<1> DEFINE Own == {<<"prefix", d>>, <<"rest", d>>, <<"meta", d>>}
                  \cup {<<"chunk", d, i>> : i \in 1..Size[d]}
<1>1. Size[d] \in Nat
  BY StreamsAssumption
<1>2. /\ Header(d) \in Seq(Own) /\ Len(Header(d)) = 3
      /\ Header(d)[1] = <<"prefix", d>> /\ Header(d)[2] = <<"rest", d>>
      /\ Header(d)[3] = <<"meta", d>>
  BY DEF Header
<1>3. /\ Chunks(d) \in Seq(Own) /\ Len(Chunks(d)) = Size[d]
      /\ \A i \in 1..Size[d] : Chunks(d)[i] = <<"chunk", d, i>>
  BY <1>1 DEF Chunks
<1> HIDE DEF Own
<1>4. /\ Frame(d) \in Seq(Own) /\ Len(Frame(d)) = 3 + Size[d]
      /\ \A i \in 1..3 : Frame(d)[i] = Header(d)[i]
      /\ \A i \in 1..Size[d] : Frame(d)[3 + i] = Chunks(d)[i]
  <2> DEFINE h == Header(d)
             c == Chunks(d)
             f == Frame(d)
  <2>1. h \in Seq(Own) /\ c \in Seq(Own) /\ f = h \o c /\ Len(h) = 3 /\ Len(c) = Size[d]
    BY <1>2, <1>3 DEF Frame
  <2> HIDE DEF h, c, f
  <2>2. /\ f \in Seq(Own) /\ Len(f) = 3 + Size[d]
        /\ \A i \in 1..3 : f[i] = h[i]
        /\ \A i \in 1..Size[d] : f[3 + i] = c[i]
    <3>1. /\ f \in Seq(Own) /\ Len(f) = Len(h) + Len(c)
          /\ \A i \in 1..Len(h) : f[i] = h[i]
          /\ \A i \in 1..Len(c) : f[Len(h) + i] = c[i]
      <4>1. h \in Seq(Own) /\ c \in Seq(Own) /\ f = h \o c
        BY <2>1
      <4>2. ASSUME NEW S, h \in Seq(S), c \in Seq(S), f = h \o c
            PROVE  /\ f \in Seq(S) /\ Len(f) = Len(h) + Len(c)
                   /\ \A i \in 1..Len(h) : f[i] = h[i]
                   /\ \A i \in 1..Len(c) : f[Len(h) + i] = c[i]
        BY <4>2, ConcatFacts
      <4> QED BY <4>1, <4>2
    <3> QED BY <2>1, <3>1
  <2> QED BY <2>2 DEF f, h, c
<1>5. ASSUME NEW p \in Own PROVE p \in Parts
  <2>1. \E i \in 1..(3 + Size[d]) : p = Frame(d)[i]
    <3>1. ASSUME NEW j \in 1..3 PROVE j \in 1..(3 + Size[d])
      BY <1>1
    <3>2. CASE p \in {<<"prefix", d>>, <<"rest", d>>, <<"meta", d>>}
      <4>1. \E j \in 1..3 : p = Header(d)[j]
        BY <1>2, <3>2
      <4> QED BY <1>4, <3>1, <4>1
    <3>3. ASSUME NEW i \in 1..Size[d], p = <<"chunk", d, i>>
          PROVE  3 + i \in 1..(3 + Size[d]) /\ p = Frame(d)[3 + i]
      <4>1. 3 + i \in 1..(3 + Size[d])
        BY <1>1
      <4> QED BY <1>3, <1>4, <3>3, <4>1
    <3> QED BY <3>2, <3>3 DEF Own
  <2>2. DOMAIN Frame(d) = 1..(3 + Size[d])
    BY <1>4, LenProperties
  <2>3. p \in ToSet(Frame(d))
    BY <2>1, <2>2 DEF ToSet
  <2> QED BY <2>3 DEF Parts
<1>6. Header(d) \in Seq(Parts) /\ Chunks(d) \in Seq(Parts) /\ Frame(d) \in Seq(Parts)
  BY <1>2, <1>3, <1>4, <1>5, SeqMonotonic DEF Own
<1>7. /\ Frame(d)[1] = <<"prefix", d>> /\ Frame(d)[2] = <<"rest", d>>
      /\ Frame(d)[3] = <<"meta", d>>
  BY <1>2, <1>4
<1>8. \A i \in 1..Size[d] : Frame(d)[3 + i] = <<"chunk", d, i>>
  BY <1>3, <1>4
<1> QED BY <1>1, <1>2, <1>3, <1>4, <1>6, <1>7, <1>8

LEMMA FrameChunk ==
    ASSUME NEW d \in Data, NEW i \in 1..Size[d]
    PROVE  Frame(d)[3 + i] = Chunks(d)[i]
<1>1. Frame(d)[3 + i] = <<"chunk", d, i>>
  BY FrameFacts
<1>2. Chunks(d)[i] = <<"chunk", d, i>>
  BY FrameFacts
<1> QED BY <1>1, <1>2

\* A part is in one place of one frame only.
LEMMA PartsDiffer ==
    ASSUME NEW d \in Data, NEW e \in Data,
           NEW i \in 1..(3 + Size[d]), NEW j \in 1..(3 + Size[e]),
           Frame(d)[i] = Frame(e)[j]
    PROVE  d = e /\ i = j
<1>1. Size[d] \in Nat /\ Size[e] \in Nat
  BY FrameFacts
<1>2. ASSUME NEW f \in Data, NEW m \in 1..(3 + Size[f])
      PROVE  /\ Frame(f)[m][2] = f
             /\ Frame(f)[m][1] = "prefix" <=> m = 1
             /\ Frame(f)[m][1] = "rest" <=> m = 2
             /\ Frame(f)[m][1] = "meta" <=> m = 3
             /\ m > 3 => Frame(f)[m][3] = m - 3
  <2>1. Size[f] \in Nat
    BY FrameFacts
  <2>2. CASE m > 3
    <3>1. m - 3 \in 1..Size[f] /\ 3 + (m - 3) = m
      BY <2>1, <2>2
    <3>2. Frame(f)[m] = <<"chunk", f, m - 3>>
      BY <3>1, FrameFacts
    <3>3. /\ Frame(f)[m][1] = "chunk" /\ Frame(f)[m][2] = f
          /\ Frame(f)[m][3] = m - 3
      BY <3>2
    <3> QED BY <2>2, <3>3
  <2>3. CASE m = 1
    <3>1. Frame(f)[m] = <<"prefix", f>>
      BY <2>3, FrameFacts
    <3> QED BY <2>3, <3>1
  <2>4. CASE m = 2
    <3>1. Frame(f)[m] = <<"rest", f>>
      BY <2>4, FrameFacts
    <3> QED BY <2>4, <3>1
  <2>5. CASE m = 3
    <3>1. Frame(f)[m] = <<"meta", f>>
      BY <2>5, FrameFacts
    <3> QED BY <2>5, <3>1
  <2> QED BY <2>1, <2>2, <2>3, <2>4, <2>5
<1>3. d = e
  BY <1>2
<1>4. i > 3 => j > 3 /\ i - 3 = j - 3
  BY <1>1, <1>2
<1>5. i <= 3 => i = j
  BY <1>1, <1>2
<1> QED BY <1>1, <1>3, <1>4, <1>5

\* Who reads a header finds its three parts.
LEMMA StartsFacts ==
    ASSUME NEW s \in Seq(Parts), NEW d \in Data
    PROVE  Starts(s, d) <=> /\ Len(s) >= 3
                            /\ s[1] = <<"prefix", d>> /\ s[2] = <<"rest", d>>
                            /\ s[3] = <<"meta", d>>
<1> DEFINE h == Header(d)
<1>1. /\ h \in Seq(Parts) /\ Len(h) = 3 /\ Len(s) \in Nat
      /\ h[1] = <<"prefix", d>> /\ h[2] = <<"rest", d>> /\ h[3] = <<"meta", d>>
  BY FrameFacts, LenProperties
<1> HIDE DEF h
<1>2. SubSeq(h, 1, 3) = h
  BY <1>1, SubSeqFull
<1>3. ASSUME Len(s) >= 3
      PROVE  h = SubSeq(s, 1, 3) <=> s[1] = h[1] /\ s[2] = h[2] /\ s[3] = h[3]
  <2> DEFINE u == SubSeq(s, 1, 3)
  <2>1. u \in Seq(Parts) /\ Len(u) = 3 /\ u[1] = s[1] /\ u[2] = s[2] /\ u[3] = s[3]
    <3>1. 3 \in 0..Len(s)
      BY <1>1, <1>3
    <3> QED BY <3>1, PrefixFacts
  <2> HIDE DEF u
  <2>2. (\A i \in 1..Len(h) : h[i] = u[i]) => h = u
    BY <1>1, <2>1, SeqEqual
  <2>3. h[1] = u[1] /\ h[2] = u[2] /\ h[3] = u[3] => h = u
    BY <1>1, <2>2
  <2>4. h = u => h[1] = u[1] /\ h[2] = u[2] /\ h[3] = u[3]
    OBVIOUS
  <2> QED BY <2>1, <2>3, <2>4 DEF u
<1> QED BY <1>1, <1>2, <1>3 DEF Starts, IsPrefix, h

-----------------------------------------------------------------------------
(* Types                                                                   *)

LEMMA TypesInit == StreamsInit => StreamsTypeOK
<1> SUFFICES ASSUME StreamsInit PROVE StreamsTypeOK
  OBVIOUS
<1>1. kept \in [Data -> Seq(Parts)] /\ \A d \in Data : Len(kept[d]) <= Size[d]
  BY StreamsAssumption DEF StreamsInit
<1>2. accepted = <<>> /\ delivered = <<>> /\ up = <<>> /\ down = <<>> /\ feed = <<>>
      /\ responses = <<>>
  BY DEF StreamsInit
<1> QED BY <1>1, <1>2 DEF StreamsInit, StreamsTypeOK, Files

\* Of the data it writes the writer has more chunks.
WriterSound ==
    writer.pc = "chunks" =>
        writer.taken >= 1 /\ writer.written < Size[accepted[writer.taken]]

TypesInv == StreamsTypeOK /\ WriterSound

WriterRecord ==
    [pc : {"next", "chunks", "done", "panicked"}, taken : Nat, written : Nat]

\* The writer's steps.
LEMMA WriterTypes ==
    ASSUME TypesInv,
           \/ \E d \in Data : Push(d)
           \/ WriteHeader \/ WriteChunk \/ ChunkFails \/ WriterPanics \/ WriterEnds
           \/ LinkBreaks
    PROVE  TypesInv'
<1> USE DEF StreamsTypeOK, TypesInv
<1>1. /\ writer.pc \in {"next", "chunks", "done", "panicked"}
      /\ writer.taken \in Nat /\ writer.taken <= Len(accepted) /\ writer.written \in Nat
      /\ Len(accepted) \in Nat
      /\ writer = [pc |-> writer.pc, taken |-> writer.taken, written |-> writer.written]
  BY LenProperties
<1>2. ASSUME writer'.pc \in {"next", "chunks", "done", "panicked"},
             writer'.taken \in Nat, writer'.taken <= Len(accepted'), writer'.written \in Nat,
             Len(accepted') \in Nat,
             writer' = [pc |-> writer'.pc, taken |-> writer'.taken,
                        written |-> writer'.written]
      PROVE  writer' \in [pc : {"next", "chunks", "done", "panicked"},
                          taken : 0..Len(accepted'), written : Nat]
  BY <1>2
<1>3. ASSUME NEW parts \in Seq(Parts), Write(parts) PROVE up' \in Seq(Parts)
  BY <1>3, ConcatProperties DEF Write
<1>4. ASSUME NEW d \in Data, Push(d) PROVE TypesInv'
  <2>1. /\ accepted' \in Seq(Data) /\ Len(accepted') = Len(accepted) + 1
        /\ \A i \in 1..Len(accepted) : accepted'[i] = accepted[i]
    BY <1>4, AppendProperties DEF Push
  <2>2. writer' = writer
    BY <1>4 DEF Push
  <2>3. writer' \in [pc : {"next", "chunks", "done", "panicked"},
                     taken : 0..Len(accepted'), written : Nat]
    BY <1>1, <1>2, <2>1, <2>2
  <2>4. WriterSound'
    <3> SUFFICES ASSUME writer.pc = "chunks"
                 PROVE  writer.taken >= 1 /\ writer.written < Size[accepted'[writer.taken]]
      BY <2>2 DEF WriterSound
    <3>1. writer.taken >= 1 /\ writer.written < Size[accepted[writer.taken]]
      BY DEF WriterSound
    <3>2. writer.taken \in 1..Len(accepted)
      BY <1>1, <3>1
    <3>3. accepted'[writer.taken] = accepted[writer.taken]
      BY <2>1, <3>2
    <3> QED BY <3>1, <3>3
  <2> QED BY <1>4, <2>1, <2>3, <2>4 DEF Push, diskVars, downloadVars
<1>5. CASE WriteHeader
  <2> DEFINE d == accepted[writer.taken + 1]
  <2>1. writer.taken + 1 \in 1..Len(accepted) /\ d \in Data
    <3>1. writer.taken < Len(accepted)
      BY <1>5 DEF WriteHeader
    <3>2. \A x, y \in Nat : x < y => x + 1 \in 1..y
      OBVIOUS
    <3>3. writer.taken + 1 \in 1..Len(accepted)
      BY <1>1, <3>1, <3>2
    <3> QED BY <3>3, ElementOfSeq
  <2>2. /\ writer' = [pc |-> AfterChunks(0, d), taken |-> writer.taken + 1, written |-> 0]
        /\ Write(Header(d)) /\ accepted' = accepted
    BY <1>5 DEF WriteHeader, Write
  <2>3. up' \in Seq(Parts)
    BY <1>3, <2>1, <2>2, FrameFacts
  <2>4. WriterSound'
    BY <1>1, <2>1, <2>2 DEF WriterSound, AfterChunks
  <2> HIDE DEF d
  <2>5. /\ writer'.pc = AfterChunks(0, d) /\ writer'.taken = writer.taken + 1
        /\ writer'.written = 0
    BY <2>2
  <2>6. writer'.pc \in {"next", "chunks"}
    BY <2>5 DEF AfterChunks
  <2>7. writer' \in [pc : {"next", "chunks", "done", "panicked"},
                     taken : 0..Len(accepted'), written : Nat]
    <3>1. writer.taken + 1 \in 0..Len(accepted')
      BY <1>1, <2>1, <2>2
    <3>2. writer' = [pc |-> writer'.pc, taken |-> writer.taken + 1, written |-> 0]
      BY <2>2, <2>5
    <3> QED BY <2>6, <3>1, <3>2
  <2> QED BY <2>2, <2>3, <2>4, <2>7 DEF Write, diskVars, downloadVars
<1>6. CASE WriteChunk
  <2> DEFINE d == accepted[writer.taken]
             n == writer.written + 1
  <2>1. writer.taken \in 1..Len(accepted) /\ d \in Data /\ n \in 1..Size[d]
        /\ Size[d] \in Nat
    <3>1. writer.taken >= 1 /\ writer.written < Size[accepted[writer.taken]]
      BY <1>6 DEF WriteChunk, WriterSound
    <3>2. writer.taken \in 1..Len(accepted)
      BY <1>1, <3>1
    <3>3. d \in Data
      BY <3>2, ElementOfSeq
    <3>4. Size[d] \in Nat
      BY <3>3, StreamsAssumption
    <3> HIDE DEF d
    <3>5. writer.written < Size[d]
      BY <3>1 DEF d
    <3>6. n \in 1..Size[d]
      BY <1>1, <3>4, <3>5
    <3> QED BY <3>2, <3>3, <3>4, <3>6
  <2>2. /\ writer' = [writer EXCEPT !.pc = AfterChunks(n, d), !.written = n]
        /\ Write(<<Chunks(d)[n]>>) /\ accepted' = accepted
    BY <1>6 DEF WriteChunk, Write
  <2>3. Chunks(d)[n] \in Parts
    BY <2>1, FrameFacts, ElementOfSeq
  <2>4. <<Chunks(d)[n]>> \in Seq(Parts)
    BY <2>3
  <2>5. up' \in Seq(Parts)
    BY <1>3, <2>2, <2>4
  <2>6. WriterSound'
    BY <1>1, <2>1, <2>2 DEF WriterSound, AfterChunks
  <2> HIDE DEF d, n
  <2>7. /\ writer'.pc = AfterChunks(n, d) /\ writer'.taken = writer.taken
        /\ writer'.written = n
        /\ writer' = [pc |-> AfterChunks(n, d), taken |-> writer.taken, written |-> n]
    BY <1>1, <2>2
  <2>8. writer'.pc \in {"next", "chunks"}
    BY <2>7 DEF AfterChunks
  <2>9. writer' \in [pc : {"next", "chunks", "done", "panicked"},
                     taken : 0..Len(accepted'), written : Nat]
    <3>1. writer.taken \in 0..Len(accepted')
      BY <1>1, <2>2
    <3>2. n \in Nat
      BY <2>1
    <3> QED BY <2>7, <2>8, <3>1, <3>2
  <2> QED BY <2>2, <2>5, <2>6, <2>9 DEF Write, diskVars, downloadVars
<1>7. CASE ChunkFails \/ WriterEnds \/ WriterPanics
  <2>1. Write(<<>>) /\ <<>> \in Seq(Parts) /\ accepted' = accepted
    BY <1>7 DEF ChunkFails, WriterEnds, WriterPanics, Write
  <2>2. PICK p \in {"next", "done", "panicked"}, t \in {writer.taken, writer.taken + 1} :
           /\ t <= Len(accepted)
           /\ writer' = [writer EXCEPT !.pc = p, !.taken = t]
    <3>1. CASE ChunkFails \/ WriterEnds \/ (WriterPanics /\ writer.pc = "chunks")
      BY <1>1, <3>1 DEF ChunkFails, WriterEnds, WriterPanics
    <3>2. CASE WriterPanics /\ writer.pc # "chunks"
      BY <1>1, <3>2 DEF WriterPanics
    <3> QED BY <1>7, <3>1, <3>2
  <2>3. /\ writer'.pc = p /\ writer'.taken = t /\ writer'.written = writer.written
        /\ writer' = [pc |-> p, taken |-> t, written |-> writer.written]
    BY <1>1, <2>2
  <2>4. writer' \in [pc : {"next", "chunks", "done", "panicked"},
                     taken : 0..Len(accepted'), written : Nat]
    BY <1>1, <1>2, <2>1, <2>2, <2>3
  <2>5. WriterSound'
    BY <2>3 DEF WriterSound
  <2> QED BY <1>3, <2>1, <2>4, <2>5 DEF Write, diskVars, downloadVars
<1>8. CASE LinkBreaks
  <2>1. up' \in Seq(Parts) /\ down' \in Seq(Parts)
    BY <1>8, ShortenedFacts DEF LinkBreaks
  <2>2. WriterSound'
    BY <1>8 DEF LinkBreaks, WriterSound
  <2> QED BY <1>8, <2>1, <2>2 DEF LinkBreaks, diskVars, downloadVars
<1> QED BY <1>4, <1>5, <1>6, <1>7, <1>8

\* What the other steps leave as it was.
LEMMA WriterTypesStay ==
    ASSUME TypesInv, UNCHANGED <<accepted, writer>>
    PROVE  /\ accepted' \in Seq(Data)
           /\ writer' \in [pc : {"next", "chunks", "done", "panicked"},
                           taken : 0..Len(accepted'), written : Nat]
           /\ WriterSound'
BY DEF TypesInv, StreamsTypeOK, WriterSound

\* The node's steps.
LEMMA NodeTypes ==
    ASSUME TypesInv,
           \/ \E d \in Data : TakeHeader(d)
           \/ MakeFile \/ KeepChunk \/ Answer \/ NodeReturns
    PROVE  TypesInv'
<1> USE DEF StreamsTypeOK, TypesInv
<1>1. \A d \in Data : files[d] \in Files /\ kept[d] \in Seq(Parts) /\ Len(kept[d]) <= Size[d]
  OBVIOUS
<1>2. CASE \E d \in Data : TakeHeader(d)
  <2>1. PICK d \in Data : TakeHeader(d)
    BY <1>2
  <2>2. Len(up) >= 3 /\ Len(up) \in Nat
    BY <2>1, StartsFacts, LenProperties DEF TakeHeader
  <2>3. 3 \in 0..Len(up) /\ up' = SubSeq(up, 3 + 1, Len(up))
    BY <2>1, <2>2 DEF TakeHeader, Take
  <2>4. up' \in Seq(Parts)
    BY <2>3, CutFacts
  <2>5. node' \in [pc : {"frame", "storing", "returned"}, data : Data]
    BY <2>1 DEF TakeHeader
  <2> QED BY <2>1, <2>4, <2>5, WriterTypesStay DEF TakeHeader, Take, downloadVars
<1>3. CASE MakeFile
  <2> DEFINE d == node.data
  <2>1. d \in Data
    OBVIOUS
  <2>2. NextFile[files[d]] \in Files
    BY <1>1, <1>3, <2>1 DEF MakeFile, NextFile, Files
  <2>3. files' \in [Data -> Files]
    BY <1>3, <2>1, <2>2 DEF MakeFile
  <2> QED BY <1>3, <2>3, WriterTypesStay DEF MakeFile, uploadVars, downloadVars
<1>4. CASE KeepChunk
  <2> DEFINE d == node.data
  <2>1. d \in Data /\ Size[d] \in Nat /\ Len(kept[d]) \in Nat
    BY <1>1, StreamsAssumption, LenProperties
  <2>2. Len(up) \in Nat /\ Len(up) >= 1 /\ Head(up) \in Parts
    BY <1>4, LenProperties, HeadTailProperties, EmptySeq DEF KeepChunk
  <2>3. 1 \in 0..Len(up) /\ up' = SubSeq(up, 1 + 1, Len(up))
    BY <1>4, <2>2 DEF KeepChunk, Take
  <2>4. up' \in Seq(Parts)
    BY <2>3, CutFacts
  <2>5. /\ Append(kept[d], Head(up)) \in Seq(Parts)
        /\ Len(Append(kept[d], Head(up))) = Len(kept[d]) + 1
    BY <1>1, <2>1, <2>2, AppendProperties
  <2>6. kept' = [kept EXCEPT ![d] = Append(kept[d], Head(up))] /\ Len(kept[d]) < Size[d]
    BY <1>4 DEF KeepChunk
  <2>7. kept' \in [Data -> Seq(Parts)]
    BY <2>1, <2>5, <2>6
  <2>8. ASSUME NEW e \in Data PROVE Len(kept'[e]) <= Size[e]
    <3>1. kept'[e] = IF e = d THEN Append(kept[d], Head(up)) ELSE kept[e]
      BY <2>1, <2>6
    <3>2. CASE e = d
      <4>1. Len(kept'[e]) = Len(kept[d]) + 1
        BY <2>5, <3>1, <3>2
      <4>2. Len(kept[d]) \in Nat /\ Size[d] \in Nat
        BY <1>1, <2>1, LenProperties, StreamsAssumption
      <4> QED BY <2>6, <3>2, <4>1, <4>2
    <3>3. CASE e # d
      BY <1>1, <3>1, <3>3
    <3> QED BY <3>2, <3>3
  <2> QED BY <1>4, <2>4, <2>7, <2>8, WriterTypesStay DEF KeepChunk, Take, downloadVars
<1>5. CASE Answer
  <2>1. Header(node.data) \in Seq(Parts)
    BY FrameFacts
  <2>2. down' \in Seq(Parts)
    BY <1>5, <2>1, ConcatProperties DEF Answer
  <2>3. node' \in [pc : {"frame", "storing", "returned"}, data : Data]
    BY <1>5 DEF Answer
  <2> QED BY <1>5, <2>2, <2>3, WriterTypesStay DEF Answer, downloadVars
<1>6. CASE NodeReturns
  <2>1. up' \in Seq(Parts) /\ linked' \in BOOLEAN
    <3>1. up' = <<>> /\ linked' = FALSE
      BY <1>6 DEF NodeReturns
    <3>2. <<>> \in Seq(Parts)
      OBVIOUS
    <3> QED BY <3>1, <3>2
  <2>3. down' \in Seq(Parts)
    <3>1. CASE down' \in Shortened(down)
      <4>1. down \in Seq(Parts)
        OBVIOUS
      <4> QED BY <3>1, <4>1, ShortenedFacts
    <3>2. CASE down' = down
      BY <3>2
    <3> QED BY <1>6, <3>1, <3>2 DEF NodeReturns
  <2>2. node' \in [pc : {"frame", "storing", "returned"}, data : Data]
    BY <1>6 DEF NodeReturns
  <2> QED BY <1>6, <2>1, <2>2, <2>3, WriterTypesStay DEF NodeReturns, downloadVars
<1> QED BY <1>2, <1>3, <1>4, <1>5, <1>6

\* The steps of the task that reads the answers.
LEMMA AnswerTypes ==
    ASSUME TypesInv, (\E d \in Data : ReadAnswer(d)) \/ ReaderEnds \/ TakeResponse
    PROVE  TypesInv'
<1> USE DEF StreamsTypeOK, TypesInv
<1>1. CASE \E d \in Data : ReadAnswer(d)
  <2>1. PICK d \in Data : ReadAnswer(d)
    BY <1>1
  <2>2. Len(down) >= 3 /\ Len(down) \in Nat
    BY <2>1, StartsFacts, LenProperties DEF ReadAnswer
  <2>3. 3 \in 0..Len(down) /\ down' = SubSeq(down, 3 + 1, Len(down))
    BY <2>1, <2>2 DEF ReadAnswer
  <2>4. down' \in Seq(Parts)
    BY <2>3, CutFacts
  <2>5. responses' \in Seq(Data)
    BY <2>1, AppendProperties DEF ReadAnswer
  <2> QED BY <2>1, <2>4, <2>5, WriterTypesStay DEF ReadAnswer, diskVars, downloadVars
<1>2. CASE ReaderEnds
  BY <1>2, WriterTypesStay DEF ReaderEnds, diskVars, downloadVars
<1>3. CASE TakeResponse
  <2>1. responses' \in Seq(Data)
    BY <1>3, HeadTailProperties DEF TakeResponse
  <2> QED BY <1>3, <2>1, WriterTypesStay DEF TakeResponse, diskVars, downloadVars
<1> QED BY <1>1, <1>2, <1>3

\* The steps of who serves a download.
LEMMA ServeTypes ==
    ASSUME TypesInv,
           \/ Serve
           \/ \E d \in Data : ServeUndescribed(d) \/ ServeSkips(d) \/ ServeHeader(d)
           \/ ServeChunk \/ ContentEnds \/ ServeEnds \/ FeedBreaks
    PROVE  TypesInv'
<1> USE DEF StreamsTypeOK, TypesInv
<1> DEFINE Record == [pc : {"start", "listing", "sending", "done", "failed", "broken"},
                      data : Data, sent : Nat]
<1>1. UNCHANGED <<uploadVars, diskVars>>
  BY DEF Serve, ServeUndescribed, ServeSkips, ServeHeader, Visit, ServeChunk,
         ContentEnds, ServeEnds, FeedBreaks
<1>2. CASE Serve
  <2>1. wanted' \subseteq Data /\ listed' \subseteq Data /\ serve' \in Record
    BY <1>2, StreamsAssumption DEF Serve
  <2> QED BY <1>1, <1>2, <2>1, WriterTypesStay DEF Serve, uploadVars, diskVars
<1>3. CASE \E d \in Data : ServeUndescribed(d) \/ ServeSkips(d) \/ ServeHeader(d)
  <2>1. PICK d \in Data : ServeUndescribed(d) \/ ServeSkips(d) \/ ServeHeader(d)
    BY <1>3
  <2>2. Visit(d)
    BY <2>1 DEF ServeUndescribed, ServeSkips, ServeHeader
  <2>3. feed' \in Seq(Parts)
    <3>1. Header(d) \in Seq(Parts) /\ feed \in Seq(Parts)
      BY FrameFacts
    <3>2. feed \o Header(d) \in Seq(Parts)
      BY <3>1, ConcatProperties
    <3>3. feed' = feed \/ feed' = feed \o Header(d)
      BY <2>1 DEF ServeUndescribed, ServeSkips, ServeHeader
    <3> QED BY <3>1, <3>2, <3>3
  <2>4. serve' \in Record
    <3>1. CASE ServeUndescribed(d)
      BY <3>1 DEF ServeUndescribed
    <3>2. CASE ServeSkips(d)
      BY <3>2 DEF ServeSkips
    <3>3. CASE ServeHeader(d)
      BY <3>3 DEF ServeHeader
    <3> QED BY <2>1, <3>1, <3>2, <3>3
  <2> QED BY <1>1, <2>2, <2>3, <2>4, WriterTypesStay DEF Visit, uploadVars, diskVars
<1>4. CASE ServeChunk
  <2>1. /\ serve.data \in Data /\ kept[serve.data] \in Seq(Parts)
        /\ serve.sent + 1 \in 1..Len(kept[serve.data])
    BY <1>4, LenProperties DEF ServeChunk
  <2>2. kept[serve.data][serve.sent + 1] \in Parts
    BY <2>1, ElementOfSeq
  <2>3. feed' \in Seq(Parts)
    BY <1>4, <2>2, AppendProperties DEF ServeChunk
  <2>4. serve' \in Record
    <3>1. serve' = [serve EXCEPT !.sent = serve.sent + 1] /\ serve.sent + 1 \in Nat
      BY <1>4 DEF ServeChunk
    <3> QED BY <3>1
  <2> QED BY <1>1, <1>4, <2>3, <2>4, WriterTypesStay DEF ServeChunk, uploadVars, diskVars
<1>5. CASE ContentEnds
  <2>1. serve' \in Record /\ early' \subseteq Data
    BY <1>5 DEF ContentEnds
  <2> QED BY <1>1, <1>5, <2>1, WriterTypesStay DEF ContentEnds, uploadVars, diskVars
<1>6. CASE ServeEnds
  <2>1. serve' \in Record
    BY <1>6 DEF ServeEnds
  <2> QED BY <1>1, <1>6, <2>1, WriterTypesStay DEF ServeEnds, uploadVars, diskVars
<1>7. CASE FeedBreaks
  <2>1. serve' \in Record /\ feed' \in Seq(Parts)
    BY <1>7, ShortenedFacts DEF FeedBreaks
  <2> QED BY <1>1, <1>7, <2>1, WriterTypesStay DEF FeedBreaks, uploadVars, diskVars
<1> QED BY <1>2, <1>3, <1>4, <1>5, <1>6, <1>7

\* What a download's reader takes from its stream.
LEMMA ItemFacts ==
    ASSUME NEW d \in Data, feed \in Seq(Parts), Starts(feed, d), Len(feed) >= 3 + Size[d]
    PROVE  /\ SubSeq(feed, 4, 3 + Size[d]) \in Seq(Parts)
           /\ Len(SubSeq(feed, 4, 3 + Size[d])) = Size[d]
           /\ \A i \in 1..Size[d] : SubSeq(feed, 4, 3 + Size[d])[i] = feed[3 + i]
           /\ SubSeq(feed, 4 + Size[d], Len(feed)) \in Seq(Parts)
           /\ Len(SubSeq(feed, 4 + Size[d], Len(feed))) = Len(feed) - (3 + Size[d])
           /\ \A i \in 1..Len(feed) - (3 + Size[d]) :
                 SubSeq(feed, 4 + Size[d], Len(feed))[i] = feed[3 + Size[d] + i]
<1> DEFINE n == Size[d]
           c == SubSeq(feed, 4, 3 + n)
           r == SubSeq(feed, 4 + n, Len(feed))
<1>1. n \in Nat /\ Len(feed) \in Nat
  BY StreamsAssumption, LenProperties
<1>2. 3 + n \in 0..Len(feed) /\ r = SubSeq(feed, 3 + n + 1, Len(feed))
  <2>1. Len(feed) >= 3 + n /\ r = SubSeq(feed, 4 + n, Len(feed))
    OBVIOUS
  <2> HIDE DEF n, r
  <2>2. 4 + n = 3 + n + 1
    BY <1>1
  <2> QED BY <1>1, <2>1, <2>2
<1>3. /\ r \in Seq(Parts) /\ Len(r) = Len(feed) - (3 + n)
      /\ \A i \in 1..Len(r) : r[i] = feed[3 + n + i]
  <2> HIDE DEF n, r
  <2>1. /\ r \in Seq(Parts) /\ Len(r) = Len(feed) - (3 + n)
        /\ \A i \in 1..Len(r) : r[i] = feed[(3 + n) + i]
    BY <1>2, CutFacts
  <2> QED BY <2>1
<1>4. \A i \in 4..3 + n : feed[i] \in Parts
  BY <1>1, ElementOfSeq
<1>5. /\ c \in Seq(Parts) /\ Len(c) = IF 4 <= 3 + n THEN 3 + n - 4 + 1 ELSE 0
      /\ \A i \in 1..3 + n - 4 + 1 : c[i] = feed[4 + i - 1]
  BY <1>1, <1>4, SubSeqProperties
<1>6. Len(c) = n /\ \A i \in 1..n : i \in 1..3 + n - 4 + 1 /\ 4 + i - 1 = 3 + i
  BY <1>1, <1>5
<1> QED BY <1>3, <1>5, <1>6

\* The steps of a download's reader.
LEMMA ConsumerTypes ==
    ASSUME TypesInv, (\E d \in Data : ReadItem(d)) \/ ReadEnds \/ ReadPanics
    PROVE  TypesInv'
<1> USE DEF StreamsTypeOK, TypesInv
<1>1. CASE \E d \in Data : ReadItem(d)
  <2>1. PICK d \in Data : ReadItem(d)
    BY <1>1
  <2>2. feed' \in Seq(Parts) /\ SubSeq(feed, 4, 3 + Size[d]) \in Seq(Parts)
    BY <2>1, ItemFacts DEF ReadItem
  <2>3. delivered' \in Seq([of : Data, content : Seq(Parts)])
    <3> DEFINE item == [of |-> d, content |-> SubSeq(feed, 4, 3 + Size[d])]
    <3>1. item \in [of : Data, content : Seq(Parts)]
      BY <2>2
    <3>2. delivered' = delivered \/ delivered' = Append(delivered, item)
      BY <2>1 DEF ReadItem
    <3>3. ASSUME NEW Items, delivered \in Seq(Items), NEW x \in Items
          PROVE  Append(delivered, x) \in Seq(Items)
      BY <3>3, AppendProperties
    <3>4. delivered \in Seq([of : Data, content : Seq(Parts)])
      OBVIOUS
    <3> HIDE DEF item
    <3>5. Append(delivered, item) \in Seq([of : Data, content : Seq(Parts)])
      BY <3>1, <3>3, <3>4
    <3> QED BY <3>2, <3>4, <3>5
  <2>4. consumer' \in {"reading", "left", "ended", "panicked"}
    BY <2>1 DEF ReadItem
  <2> QED BY <2>1, <2>2, <2>3, <2>4, WriterTypesStay DEF ReadItem, uploadVars, diskVars
<1>2. CASE ReadEnds \/ ReadPanics
  BY <1>2, WriterTypesStay DEF ReadEnds, ReadPanics, uploadVars, diskVars
<1> QED BY <1>1, <1>2

LEMMA TypesStep == TypesInv /\ [StreamsNext]_streamsVars => TypesInv'
<1> SUFFICES ASSUME TypesInv, [StreamsNext]_streamsVars PROVE TypesInv'
  OBVIOUS
<1>1. CASE UNCHANGED streamsVars
  BY <1>1 DEF TypesInv, StreamsTypeOK, WriterSound, streamsVars, uploadVars, diskVars,
              downloadVars
<1>2. CASE StreamsNext
  BY <1>2, WriterTypes, NodeTypes, AnswerTypes, ServeTypes, ConsumerTypes
     DEF StreamsNext
<1> QED BY <1>1, <1>2

LEMMA TypesAlways == StreamsSpec => []TypesInv
<1>1. StreamsInit => TypesInv
  BY TypesInit DEF TypesInv, WriterSound, StreamsInit
<1> QED BY <1>1, TypesStep, PTL DEF StreamsSpec

(* Whatever two streams bring, in whatever order their ends act, break and *)
(* give up, the state of both (remote.rs, data-node's main.rs) is one that *)
(* the declarations allow; in particular no file gets more chunks than the *)
(* metadata of its datum say.                                              *)
THEOREM TypesOfStreams == StreamsSpec => []StreamsTypeOK
BY TypesAlways, PTL DEF TypesInv

-----------------------------------------------------------------------------
(* Where an upload stands                                                  *)

PushedOnce ==
    \A m, n \in 1..Len(accepted) : accepted[m] = accepted[n] => m = n

\* The bytes of the stream before the n-th frame, counted in parts.
Offsets(at) ==
    /\ at[1] = 0 /\ \A n \in Nat : at[n] \in Nat
    /\ \A n \in 1..Len(accepted) : at[n + 1] = at[n] + 3 + Size[accepted[n]]
    /\ \A m \in 1..Len(accepted), n \in 1..(Len(accepted) + 1) :
          m < n => at[m + 1] <= at[n]

\* What is on its way, after the pos parts that the node has read.
InPlace(at, pos) ==
    \A i \in 1..Len(up) :
        \E n \in 1..Len(accepted) : \E j \in 1..(3 + Size[accepted[n]]) :
            pos + i = at[n] + j /\ up[i] = Frame(accepted[n])[j]

WrittenTo(at) == IF writer.pc = "chunks" THEN at[writer.taken] + 3 + writer.written
                                         ELSE at[writer.taken + 1]

WriterAt(at, pos) ==
    /\ pos + Len(up) <= WrittenTo(at)
    /\ linked => pos + Len(up) = WrittenTo(at) /\ writer.pc # "panicked"

\* The node has come to the k-th frame.
NodeAt(at, pos, k) ==
    /\ k <= writer.taken /\ pos <= at[k + 1]
    /\ k > 0 => at[k] + 3 + Len(kept[accepted[k]]) <= pos
    /\ \A n \in 1..k : n < k => Whole(accepted[n])
    /\ \A d \in Data : files[d] # "none" => \E n \in 1..k : accepted[n] = d
    /\ node.pc = "frame" => pos = at[k + 1] /\ (k > 0 => Whole(accepted[k]))
    /\ node.pc = "storing" =>
          k > 0 /\ node.data = accepted[k] /\ pos = at[k] + 3 + Len(kept[node.data])
    /\ node.pc = "returned" => up = <<>> /\ ~linked

\* A file holds the beginning of its content.
FilesInv ==
    \A d \in Data :
        /\ files[d] # "opened" => kept[d] = <<>>
        /\ \A i \in 1..Len(kept[d]) : kept[d][i] = Chunks(d)[i]

DownAligned == linked => \E m \in Nat : Len(down) = 3 * m

UploadAt(at, pos, k) ==
    Offsets(at) /\ InPlace(at, pos) /\ WriterAt(at, pos) /\ NodeAt(at, pos, k)

UploadInv ==
    /\ TypesInv /\ PushedOnce /\ FilesInv /\ DownAligned
    /\ \E at : \E pos \in Nat, k \in Nat : UploadAt(at, pos, k)

LEMMA Basics ==
    ASSUME TypesInv
    PROVE  /\ accepted \in Seq(Data) /\ Len(accepted) \in Nat
           /\ \A i \in 1..Len(accepted) : accepted[i] \in Data /\ Size[accepted[i]] \in Nat
           /\ writer.pc \in {"next", "chunks", "done", "panicked"}
           /\ writer.taken \in Nat /\ writer.taken <= Len(accepted)
           /\ writer.written \in Nat
           /\ writer.pc = "chunks" => /\ writer.taken \in 1..Len(accepted)
                                      /\ writer.written < Size[accepted[writer.taken]]
           /\ up \in Seq(Parts) /\ Len(up) \in Nat
           /\ down \in Seq(Parts) /\ Len(down) \in Nat
           /\ node.data \in Data /\ node.pc \in {"frame", "storing", "returned"}
           /\ \A d \in Data : /\ files[d] \in Files /\ kept[d] \in Seq(Parts)
                              /\ Len(kept[d]) \in Nat /\ Size[d] \in Nat
                              /\ Len(kept[d]) <= Size[d]
           /\ linked \in BOOLEAN
<1> USE DEF TypesInv, StreamsTypeOK
<1>1. accepted \in Seq(Data) /\ up \in Seq(Parts) /\ down \in Seq(Parts)
  OBVIOUS
<1>2. Len(accepted) \in Nat /\ Len(up) \in Nat /\ Len(down) \in Nat
  BY <1>1, LenProperties
<1>3. \A i \in 1..Len(accepted) : accepted[i] \in Data /\ Size[accepted[i]] \in Nat
  BY <1>1, ElementOfSeq, StreamsAssumption
<1>4. \A d \in Data : /\ files[d] \in Files /\ kept[d] \in Seq(Parts)
                      /\ Len(kept[d]) \in Nat /\ Size[d] \in Nat
                      /\ Len(kept[d]) <= Size[d]
  BY LenProperties, StreamsAssumption
<1> QED BY <1>1, <1>2, <1>3, <1>4 DEF WriterSound

\* A place is in one frame only.
LEMMA Located ==
    ASSUME TypesInv, NEW at, Offsets(at),
           NEW m \in 1..Len(accepted), NEW i \in 1..(3 + Size[accepted[m]]),
           NEW n \in 1..Len(accepted), NEW j \in 1..(3 + Size[accepted[n]]),
           at[m] + i = at[n] + j
    PROVE  m = n /\ i = j
<1>a. /\ Len(accepted) \in Nat /\ Size[accepted[m]] \in Nat /\ Size[accepted[n]] \in Nat
  BY Basics
<1>1. /\ at[m] \in Nat /\ at[n] \in Nat /\ at[m + 1] \in Nat /\ at[n + 1] \in Nat
  BY <1>a DEF Offsets
<1>2. at[m + 1] = at[m] + 3 + Size[accepted[m]] /\ at[n + 1] = at[n] + 3 + Size[accepted[n]]
  BY DEF Offsets
<1>3. (m < n => at[m + 1] <= at[n]) /\ (n < m => at[n + 1] <= at[m])
  <2>1. m \in 1..(Len(accepted) + 1) /\ n \in 1..(Len(accepted) + 1)
    BY <1>a
  <2>2. \A p \in 1..Len(accepted), q \in 1..(Len(accepted) + 1) :
            p < q => at[p + 1] <= at[q]
    BY DEF Offsets
  <2> QED BY <2>1, <2>2
<1>4. m \in Nat /\ n \in Nat /\ i \in Nat /\ j \in Nat
      /\ 1 <= i /\ 1 <= j /\ i <= 3 + Size[accepted[m]] /\ j <= 3 + Size[accepted[n]]
  BY <1>a
<1>5. ~(m < n) /\ ~(n < m)
  <2>1. ASSUME NEW a \in Nat, NEW s \in Nat, NEW p \in Nat, NEW b \in Nat, NEW q \in Nat,
               p <= 3 + s, 1 <= q, a + 3 + s <= b
        PROVE  a + p # b + q
    BY <2>1
  <2>2. ASSUME m < n PROVE FALSE
    <3>1. at[m] + 3 + Size[accepted[m]] <= at[n]
      BY <1>2, <1>3, <2>2
    <3> QED BY <1>a, <1>1, <1>4, <2>1, <3>1
  <2>3. ASSUME n < m PROVE FALSE
    <3>1. at[n] + 3 + Size[accepted[n]] <= at[m]
      BY <1>2, <1>3, <2>3
    <3> QED BY <1>a, <1>1, <1>4, <2>1, <3>1
  <2> QED BY <2>2, <2>3
<1>6. m = n
  BY <1>4, <1>5
<1> QED BY <1>1, <1>4, <1>6

UploadState == <<accepted, writer, linked, up, node, files, kept>>

LEMMA UploadStays ==
    ASSUME PushedOnce, FilesInv, NEW at, NEW pos, NEW k, UploadAt(at, pos, k),
           UNCHANGED UploadState
    PROVE  PushedOnce' /\ FilesInv' /\ UploadAt(at, pos, k)'
<1>1. UNCHANGED <<accepted, writer, linked, up, node, files, kept>>
  BY DEF UploadState
<1>2. PushedOnce' /\ FilesInv'
  BY <1>1 DEF PushedOnce, FilesInv
<1>3. Offsets(at)'
  BY <1>1 DEF UploadAt, Offsets
<1>4. InPlace(at, pos)'
  BY <1>1 DEF UploadAt, InPlace
<1>5. WriterAt(at, pos)'
  BY <1>1 DEF UploadAt, WriterAt, WrittenTo
<1>6. NodeAt(at, pos, k)'
  BY <1>1 DEF UploadAt, NodeAt, Whole
<1> QED BY <1>2, <1>3, <1>4, <1>5, <1>6 DEF UploadAt

LEMMA UploadInitially == StreamsInit => UploadInv
<1> SUFFICES ASSUME StreamsInit PROVE UploadInv
  OBVIOUS
<1>1. TypesInv
  BY TypesInit DEF TypesInv, WriterSound, StreamsInit
<1>2. /\ Len(accepted) = 0 /\ Len(up) = 0 /\ writer.pc = "next" /\ writer.taken = 0
      /\ node.pc = "frame" /\ \A d \in Data : files[d] = "none" /\ kept[d] = <<>>
  BY DEF StreamsInit
<1>3. PushedOnce /\ FilesInv
  BY <1>2 DEF PushedOnce, FilesInv
<1>4. DownAligned
  <2>1. Len(down) = 3 * 0
    BY DEF StreamsInit
  <2> QED BY <2>1 DEF DownAligned
<1> DEFINE at == [n \in Nat |-> 0]
<1>5. (\A n \in Nat : at[n] \in Nat) /\ at[1] = 0 /\ at[0 + 1] = 0
  OBVIOUS
<1> HIDE DEF at
<1>6. UploadAt(at, 0, 0)
  BY <1>2, <1>5 DEF UploadAt, Offsets, InPlace, WriterAt, WrittenTo, NodeAt
<1> QED BY <1>1, <1>3, <1>4, <1>5, <1>6 DEF UploadInv

LEMMA UploadPush ==
    ASSUME TypesInv, PushedOnce, FilesInv, NEW at, NEW pos \in Nat,
           NEW k \in Nat, UploadAt(at, pos, k), NEW d \in Data, Push(d)
    PROVE  PushedOnce' /\ FilesInv' /\ \E a : UploadAt(a, pos, k)'
<1> PICK N \in Nat : N = Len(accepted)
  BY Basics
<1>0. N = Len(accepted)
  OBVIOUS
<1> DEFINE b == [n \in Nat |-> IF n = N + 2 THEN at[N + 1] + 3 + Size[d] ELSE at[n]]
<1>1. Size[d] \in Nat /\ \A n \in Nat : at[n] \in Nat
  BY StreamsAssumption DEF UploadAt, Offsets
<1>2. /\ accepted' \in Seq(Data) /\ Len(accepted') = N + 1 /\ accepted'[N + 1] = d
      /\ \A i \in 1..N : accepted'[i] = accepted[i]
  <2>1. accepted' = Append(accepted, d) /\ accepted \in Seq(Data)
    BY Basics DEF Push
  <2> QED BY <1>0, <2>1, AppendProperties
<1>3. \A i \in 1..N : accepted[i] # d
  BY <1>0, LenProperties, Basics DEF Push, ToSet
<1>4. UNCHANGED <<writer, linked, up, node, files, kept>>
  BY DEF Push, diskVars
<1>5. (\A n \in Nat : b[n] \in Nat) /\ b[N + 2] = at[N + 1] + 3 + Size[d]
      /\ \A n \in 1..(N + 1) : b[n] = at[n]
  BY <1>1
<1> HIDE DEF b
<1>6. PushedOnce'
  <2>1. ASSUME NEW m \in 1..(N + 1), NEW n \in 1..(N + 1), accepted'[m] = accepted'[n]
        PROVE  m = n
    <3>1. CASE m = N + 1 \/ n = N + 1
      BY <1>2, <1>3, <2>1, <3>1
    <3>2. CASE m \in 1..N /\ n \in 1..N
      BY <1>0, <1>2, <2>1, <3>2 DEF PushedOnce
    <3> QED BY <3>1, <3>2
  <2> QED BY <1>2, <2>1 DEF PushedOnce
<1>7. FilesInv'
  BY <1>4 DEF FilesInv
<1>a. /\ at[1] = 0 /\ \A n \in 1..N : at[n + 1] = at[n] + 3 + Size[accepted[n]]
      /\ \A m \in 1..N, n \in 1..(N + 1) : m < n => at[m + 1] <= at[n]
  BY <1>0 DEF UploadAt, Offsets
<1>8. Offsets(b)'
  <2>1. b[1] = 0
    <3>1. 1 \in 1..(N + 1)
      OBVIOUS
    <3>2. b[1] = at[1]
      BY <1>5, <3>1
    <3> QED BY <1>a, <3>2
  <2>2. ASSUME NEW n \in 1..(N + 1) PROVE b[n + 1] = b[n] + 3 + Size[accepted'[n]]
    <3>1. CASE n = N + 1
      <4>1. N + 1 \in 1..(N + 1) /\ (N + 1) + 1 = N + 2
        OBVIOUS
      <4>2. b[N + 1] = at[N + 1] /\ accepted'[N + 1] = d
        BY <1>2, <1>5, <4>1
      <4>3. b[(N + 1) + 1] = at[N + 1] + 3 + Size[d]
        BY <1>5, <4>1
      <4>4. b[(N + 1) + 1] = b[N + 1] + 3 + Size[accepted'[N + 1]]
        BY <4>2, <4>3
      <4> QED BY <3>1, <4>4
    <3>2. CASE n \in 1..N
      <4>1. b[n] = at[n] /\ b[n + 1] = at[n + 1]
        BY <1>5, <3>2
      <4>2. accepted'[n] = accepted[n] /\ at[n + 1] = at[n] + 3 + Size[accepted[n]]
        BY <1>2, <1>a, <3>2
      <4> QED BY <4>1, <4>2
    <3> QED BY <3>1, <3>2
  <2>3. ASSUME NEW m \in 1..(N + 1), NEW n \in 1..(N + 2), m < n
        PROVE  b[m + 1] <= b[n]
    <3>1. CASE n = m + 1
      BY <1>1, <1>5, <3>1
    <3>2. CASE n = N + 2 /\ m \in 1..N
      <4>1. at[m + 1] <= at[N + 1]
        <5>1. CASE m < N + 1
          BY <1>a, <3>2, <5>1
        <5> QED BY <3>2, <5>1
      <4>2. at[m + 1] \in Nat /\ at[N + 1] \in Nat
        BY <1>1
      <4>3. b[m + 1] = at[m + 1]
        BY <1>5, <3>2
      <4>4. b[n] = at[N + 1] + 3 + Size[d]
        BY <1>5, <3>2
      <4> HIDE DEF b
      <4>5. \A x, y, z \in Nat : x <= y => x <= y + 3 + z
        OBVIOUS
      <4>6. Size[d] \in Nat
        BY <1>1
      <4> QED BY <4>1, <4>2, <4>3, <4>4, <4>5, <4>6
    <3>3. CASE n \in 1..(N + 1)
      <4>1. m \in 1..N /\ m + 1 \in 1..(N + 1)
        BY <2>3, <3>3
      <4>2. at[m + 1] <= at[n]
        BY <1>a, <2>3, <3>3, <4>1
      <4>3. b[m + 1] = at[m + 1] /\ b[n] = at[n]
        BY <1>5, <3>3, <4>1
      <4> QED BY <4>2, <4>3
    <3> QED BY <2>3, <3>1, <3>2, <3>3
  <2>4. N + 1 + 1 = N + 2
    OBVIOUS
  <2> QED BY <1>2, <1>5, <2>1, <2>2, <2>3, <2>4, Zenon DEF Offsets
<1>9. InPlace(b, pos)'
  <2>1. Len(accepted') = N + 1 /\ up' = up
    BY <1>2, <1>4
  <2>2. ASSUME NEW i \in 1..Len(up')
        PROVE  \E n \in 1..Len(accepted') : \E j \in 1..(3 + Size[accepted'[n]]) :
                         pos + i = b[n] + j /\ up'[i] = Frame(accepted'[n])[j]
    <3>1. PICK n \in 1..N : \E j \in 1..(3 + Size[accepted[n]]) :
                         pos + i = at[n] + j /\ up[i] = Frame(accepted[n])[j]
      BY <1>0, <2>1 DEF UploadAt, InPlace
    <3>2. n \in 1..Len(accepted') /\ accepted'[n] = accepted[n] /\ b[n] = at[n]
      BY <1>2, <1>5, <2>1
    <3>3. PICK j \in 1..(3 + Size[accepted[n]]) :
                         pos + i = at[n] + j /\ up[i] = Frame(accepted[n])[j]
      BY <3>1, Zenon
    <3>4. /\ j \in 1..(3 + Size[accepted'[n]])
          /\ pos + i = b[n] + j /\ up'[i] = Frame(accepted'[n])[j]
      BY <2>1, <3>2, <3>3, Zenon
    <3> QED BY <3>2, <3>4, Zenon
  <2> QED BY <2>2, Zenon DEF InPlace
<1>10. /\ writer.taken \in 0..N
       /\ writer.pc = "chunks" => writer.taken \in 1..N
  BY <1>0, Basics
<1>11. WriterAt(b, pos)'
  <2>1. ASSUME NEW t \in 0..N PROVE b[t + 1] = at[t + 1] /\ (t >= 1 => b[t] = at[t])
    BY <1>1, <1>5
  <2>4. ASSUME NEW t \in 1..N PROVE b[t] = at[t]
    BY <1>5
  <2>2. b[writer.taken + 1] = at[writer.taken + 1]
    BY <1>10, <2>1
  <2>3. writer.pc = "chunks" => b[writer.taken] = at[writer.taken]
    BY <1>10, <2>4
  <2> QED BY <1>4, <2>2, <2>3 DEF UploadAt, WriterAt, WrittenTo
<1>12. NodeAt(b, pos, k)'
  <2>1. k \in 0..N
    BY <1>10 DEF UploadAt, NodeAt
  <2>2. b[k + 1] = at[k + 1] /\ (k > 0 => b[k] = at[k])
    BY <1>5, <2>1
  <2>3. (\A n \in 1..k : accepted'[n] = accepted[n]) /\ (k > 0 => accepted'[k] = accepted[k])
    BY <1>2, <2>1
  <2> QED BY <1>4, <2>2, <2>3 DEF UploadAt, NodeAt, Whole
<1> QED BY <1>6, <1>7, <1>8, <1>9, <1>11, <1>12 DEF UploadAt

\* These parts are what comes after what is on its way.
Continues(at, pos, parts) ==
    \E n \in 1..Len(accepted), o \in Nat :
        /\ linked => pos + Len(up) = at[n] + o
        /\ \A i \in 1..Len(parts) : /\ o + i <= 3 + Size[accepted[n]]
                                    /\ parts[i] = Frame(accepted[n])[o + i]

LEMMA WrittenInPlace ==
    ASSUME TypesInv, NEW at, NEW pos \in Nat, Offsets(at), InPlace(at, pos),
           NEW parts \in Seq(Parts), Write(parts), Continues(at, pos, parts)
    PROVE  /\ InPlace(at, pos)'
           /\ Len(up') = IF linked THEN Len(up) + Len(parts) ELSE Len(up)
<1>a. PICK n \in 1..Len(accepted), o \in Nat :
        /\ linked => pos + Len(up) = at[n] + o
        /\ \A i \in 1..Len(parts) : /\ o + i <= 3 + Size[accepted[n]]
                                    /\ parts[i] = Frame(accepted[n])[o + i]
  BY DEF Continues
<1>b. PICK U \in Nat, P \in Nat, a \in Nat, z \in Nat :
        U = Len(up) /\ P = Len(parts) /\ a = at[n] /\ z = Size[accepted[n]]
  <2>1. n \in Nat /\ Len(up) \in Nat /\ Len(parts) \in Nat /\ Size[accepted[n]] \in Nat
    BY Basics, LenProperties
  <2>2. at[n] \in Nat
    BY <2>1 DEF Offsets
  <2> QED BY <2>1, <2>2
<1>0. /\ U = Len(up) /\ P = Len(parts) /\ a = at[n] /\ z = Size[accepted[n]]
      /\ linked => pos + U = a + o
      /\ \A i \in 1..P : o + i <= 3 + z /\ parts[i] = Frame(accepted[n])[o + i]
  BY <1>a, <1>b
<1>1. CASE ~linked
  <2>1. up' = up /\ accepted' = accepted
    BY <1>1 DEF Write
  <2> QED BY <1>1, <2>1 DEF InPlace
<1>2. CASE linked
  <2>1. up' = up \o parts /\ accepted' = accepted /\ up \in Seq(Parts)
    BY <1>2, Basics DEF Write
  <2>2. /\ Len(up') = U + P
        /\ \A i \in 1..U : up'[i] = up[i]
        /\ \A i \in 1..P : up'[U + i] = parts[i]
    BY <1>0, <2>1, ConcatFacts
  <2>3. ASSUME NEW i \in 1..(U + P)
        PROVE  \E m \in 1..Len(accepted) : \E j \in 1..(3 + Size[accepted[m]]) :
                  pos + i = at[m] + j /\ up'[i] = Frame(accepted[m])[j]
    <3>1. CASE i \in 1..U
      <4>1. \E m \in 1..Len(accepted) : \E j \in 1..(3 + Size[accepted[m]]) :
                  pos + i = at[m] + j /\ up[i] = Frame(accepted[m])[j]
        BY <1>0, <3>1 DEF InPlace
      <4>2. up'[i] = up[i]
        BY <2>2, <3>1
      <4> QED BY <4>1, <4>2
    <3>2. CASE i \notin 1..U
      <4>1. i - U \in 1..P /\ i = U + (i - U)
        BY <3>2
      <4> PICK j \in 1..P : j = i - U
        BY <4>1
      <4>2. j \in 1..P /\ i = U + j
        BY <4>1
      <4>3. o + j <= 3 + z /\ parts[j] = Frame(accepted[n])[o + j]
        BY <1>0
      <4>4. up'[i] = Frame(accepted[n])[o + j]
        BY <2>2, <4>2, <4>3
      <4>5. pos + i = a + (o + j)
        <5>1. pos + U = a + o
          BY <1>0, <1>2
        <5>2. pos + (U + j) = a + (o + j)
          BY <5>1
        <5> QED BY <4>2, <5>2
      <4>6. o + j \in 1..(3 + z)
        BY <4>3
      <4> QED BY <1>0, <4>4, <4>5, <4>6
    <3> QED BY <3>1, <3>2
  <2>4. ASSUME NEW i \in 1..Len(up')
        PROVE  \E m \in 1..Len(accepted') : \E j \in 1..(3 + Size[accepted'[m]]) :
                  pos + i = at[m] + j /\ up'[i] = Frame(accepted'[m])[j]
    <3>1. accepted' = accepted
      BY <2>1
    <3>2. i \in 1..(U + P)
      BY <2>2
    <3> QED BY <2>3, <3>1, <3>2, Zenon
  <2>5. InPlace(at, pos)'
    BY <2>4, Zenon DEF InPlace
  <2> QED BY <1>0, <1>2, <2>2, <2>5
<1> QED BY <1>1, <1>2

LEMMA UploadWriteHeader ==
    ASSUME TypesInv, PushedOnce, FilesInv, NEW at, NEW pos \in Nat,
           NEW k \in Nat, UploadAt(at, pos, k), WriteHeader
    PROVE  PushedOnce' /\ FilesInv' /\ UploadAt(at, pos, k)'
<1> PICK d \in Data : d = accepted[writer.taken + 1] /\ writer.taken + 1 \in 1..Len(accepted)
  BY Basics DEF WriteHeader
<1> PICK t \in Nat, N \in Nat, z \in Nat, U \in Nat :
       t = writer.taken /\ N = Len(accepted) /\ z = Size[d] /\ U = Len(up)
  BY Basics
<1>0. t = writer.taken /\ N = Len(accepted) /\ z = Size[d] /\ U = Len(up) /\ d = accepted[t + 1]
  OBVIOUS
<1>1. t + 1 \in 1..N /\ d \in Data /\ writer.pc = "next"
  BY <1>0, Basics DEF WriteHeader
<1>2. /\ writer' = [pc |-> AfterChunks(0, d), taken |-> t + 1, written |-> 0]
      /\ Write(Header(d))
  BY <1>0 DEF WriteHeader
<1>3. UNCHANGED <<accepted, linked, node, files, kept>>
  BY <1>2 DEF Write, diskVars
<1>4. writer'.pc = AfterChunks(0, d) /\ writer'.taken = t + 1 /\ writer'.written = 0
  BY <1>2
<1>a. \A n \in Nat : at[n] \in Nat
  BY DEF UploadAt, Offsets
<1>b. at[t + 2] = at[t + 1] + 3 + z
  <2>1. at[(t + 1) + 1] = at[t + 1] + 3 + Size[accepted[t + 1]]
    BY <1>0, <1>1 DEF UploadAt, Offsets
  <2>2. (t + 1) + 1 = t + 2
    OBVIOUS
  <2> QED BY <1>0, <2>1, <2>2
<1>5. pos + U <= at[t + 1] /\ (linked => pos + U = at[t + 1] /\ writer.pc # "panicked")
  BY <1>0, <1>1 DEF UploadAt, WriterAt, WrittenTo
<1>6. /\ InPlace(at, pos)'
      /\ Len(up') = IF linked THEN U + 3 ELSE U
  <2>1. /\ Header(d) \in Seq(Parts) /\ Len(Header(d)) = 3
        /\ \A i \in 1..3 : 0 + i <= 3 + z /\ Header(d)[i] = Frame(d)[0 + i]
    <3>1. \A i \in 1..3 : i = 1 \/ i = 2 \/ i = 3
      OBVIOUS
    <3>2. \A i \in 1..3 : Header(d)[i] = Frame(d)[i]
      <4>1. /\ Header(d)[1] = Frame(d)[1] /\ Header(d)[2] = Frame(d)[2]
            /\ Header(d)[3] = Frame(d)[3]
        BY <1>1, FrameFacts
      <4> QED BY <3>1, <4>1
    <3>3. \A x \in Nat : \A i \in 1..3 : 0 + i <= 3 + x /\ 0 + i = i
      OBVIOUS
    <3> QED BY <1>1, <3>2, <3>3, FrameFacts
  <2>2. linked => pos + Len(up) = at[t + 1] + 0
    BY <1>0, <1>5, <1>a
  <2>3. t + 1 \in 1..Len(accepted) /\ InPlace(at, pos)
    BY <1>0, <1>1 DEF UploadAt
  <2>4. \A i \in 1..Len(Header(d)) : /\ 0 + i <= 3 + Size[accepted[t + 1]]
                                     /\ Header(d)[i] = Frame(accepted[t + 1])[0 + i]
    BY <1>0, <2>1
  <2>5. /\ InPlace(at, pos)'
        /\ Len(up') = IF linked THEN Len(up) + Len(Header(d)) ELSE Len(up)
    <3>1. Continues(at, pos, Header(d))
      <4>1. PICK n \in 1..Len(accepted) : n = t + 1
        BY <2>3
      <4>2. PICK o \in Nat : o = 0
        OBVIOUS
      <4>3. linked => pos + Len(up) = at[n] + o
        BY <2>2, <4>1, <4>2
      <4>4. \A i \in 1..Len(Header(d)) : /\ o + i <= 3 + Size[accepted[n]]
                                         /\ Header(d)[i] = Frame(accepted[n])[o + i]
        BY <2>4, <4>1, <4>2
      <4> QED BY <4>3, <4>4 DEF Continues
    <3> QED BY <1>2, <2>1, <2>3, <3>1, WrittenInPlace DEF UploadAt
  <2> QED BY <1>0, <2>1, <2>5
<1>7. WriterAt(at, pos)'
  <2>1. WrittenTo(at)' = at[t + 1] + 3
    <3>1. CASE z = 0
      <4>1. writer'.pc = "next"
        BY <1>0, <1>4, <3>1 DEF AfterChunks
      <4>2. WrittenTo(at)' = at[(t + 1) + 1] /\ (t + 1) + 1 = t + 2
        BY <1>4, <4>1 DEF WrittenTo
      <4> QED BY <1>a, <1>b, <3>1, <4>2
    <3>2. CASE z > 0
      <4>1. writer'.pc = "chunks"
        BY <1>0, <1>4, <3>2 DEF AfterChunks
      <4>2. WrittenTo(at)' = at[t + 1] + 3 + 0
        BY <1>4, <4>1 DEF WrittenTo
      <4> QED BY <1>a, <4>2
    <3> QED BY <3>1, <3>2
  <2>2. pos + Len(up') <= at[t + 1] + 3 /\ (linked => pos + Len(up') = at[t + 1] + 3)
    <3>1. PICK c \in Nat : c = at[t + 1]
      BY <1>a
    <3>2. CASE linked
      <4>1. Len(up') = U + 3 /\ pos + U = c
        BY <1>5, <1>6, <3>1, <3>2
      <4>2. pos + (U + 3) = c + 3
        <5>1. \A x, y, m \in Nat : x + y = m => x + (y + 3) = m + 3
          OBVIOUS
        <5> QED BY <4>1, <5>1
      <4>3. pos + Len(up') = c + 3
        BY <4>1, <4>2, Zenon
      <4> QED BY <3>1, <4>3
    <3>3. CASE ~linked
      <4>1. Len(up') = U /\ pos + U <= c
        BY <1>5, <1>6, <3>1, <3>3
      <4>2. pos + Len(up') <= c + 3
        BY <4>1
      <4> QED BY <3>1, <3>3, <4>2
    <3> QED BY <3>2, <3>3
  <2>3. writer'.pc # "panicked"
    BY <1>4 DEF AfterChunks
  <2> QED BY <1>3, <2>1, <2>2, <2>3 DEF WriterAt
<1>8. NodeAt(at, pos, k)'
  <2>1. k <= t + 1
    BY <1>0 DEF UploadAt, NodeAt
  <2>2. up = <<>> /\ ~linked => up' = <<>>
    BY <1>2 DEF Write
  <2> QED BY <1>3, <1>4, <2>1, <2>2 DEF UploadAt, NodeAt, Whole
<1>9. Offsets(at)' /\ PushedOnce' /\ FilesInv'
  BY <1>3 DEF UploadAt, Offsets, PushedOnce, FilesInv
<1> QED BY <1>6, <1>7, <1>8, <1>9 DEF UploadAt

LEMMA UploadWriteChunk ==
    ASSUME TypesInv, PushedOnce, FilesInv, NEW at, NEW pos \in Nat,
           NEW k \in Nat, UploadAt(at, pos, k), WriteChunk
    PROVE  PushedOnce' /\ FilesInv' /\ UploadAt(at, pos, k)'
<1>1. writer.taken \in 1..Len(accepted) /\ writer.written < Size[accepted[writer.taken]]
  BY Basics DEF WriteChunk
<1>2. PICK d \in Data, t \in 1..Len(accepted) : d = accepted[writer.taken] /\ t = writer.taken
  BY <1>1, Basics
<1>3. PICK z \in Nat, U \in Nat, w \in Nat, a \in Nat :
         z = Size[d] /\ U = Len(up) /\ w = writer.written + 1 /\ a = at[t]
  <2>1. t \in Nat
    BY <1>2, Basics
  <2>2. at[t] \in Nat
    BY <2>1 DEF UploadAt, Offsets
  <2>3. Size[d] \in Nat /\ Len(up) \in Nat /\ writer.written + 1 \in Nat
    BY Basics
  <2> QED BY <2>2, <2>3
<1>4. w \in 1..z
  <2>1. writer.written \in Nat
    BY Basics
  <2>2. writer.written < z
    BY <1>1, <1>2, <1>3
  <2> QED BY <1>3, <2>1, <2>2
<1>5. /\ writer' = [writer EXCEPT !.pc = AfterChunks(w, d), !.written = w]
      /\ Write(<<Chunks(d)[w]>>) /\ writer.pc = "chunks"
  BY <1>2, <1>3 DEF WriteChunk
<1>6. UNCHANGED <<accepted, linked, node, files, kept>>
  BY <1>5 DEF Write, diskVars
<1>7. writer'.pc = AfterChunks(w, d) /\ writer'.taken = t /\ writer'.written = w
  BY <1>2, <1>5, Basics DEF TypesInv, StreamsTypeOK
<1>8. /\ pos + U <= a + 3 + (w - 1)
      /\ linked => pos + U = a + 3 + (w - 1)
  <2>1. w - 1 = writer.written
    BY <1>3, Basics
  <2> QED BY <1>2, <1>3, <1>5, <2>1 DEF UploadAt, WriterAt, WrittenTo
<1>9. /\ <<Chunks(d)[w]>> \in Seq(Parts) /\ Len(<<Chunks(d)[w]>>) = 1
      /\ <<Chunks(d)[w]>>[1] = Frame(d)[3 + w]
  <2>1. Chunks(d)[w] = Frame(d)[3 + w] /\ Chunks(d) \in Seq(Parts) /\ Len(Chunks(d)) = z
    BY <1>3, <1>4, FrameFacts
  <2>2. Chunks(d)[w] \in Parts
    BY <1>4, <2>1, ElementOfSeq
  <2> QED BY <2>1, <2>2
<1>10. Continues(at, pos, <<Chunks(d)[w]>>)
  <2>1. PICK o \in Nat : o = 3 + (w - 1)
    BY <1>4
  <2>2. linked => pos + Len(up) = at[t] + o
    <3>1. a + 3 + (w - 1) = a + o
      BY <1>4, <2>1
    <3> QED BY <1>3, <1>8, <3>1
  <2>3. \A i \in 1..1 : o + i = 3 + w /\ i = 1 /\ o + i <= 3 + z
    BY <1>4, <2>1
  <2>4. \A i \in 1..1 : /\ o + i <= 3 + Size[accepted[t]]
                        /\ <<Chunks(d)[w]>>[i] = Frame(accepted[t])[o + i]
    BY <1>2, <1>3, <1>9, <2>3
  <2> QED BY <1>9, <2>2, <2>4 DEF Continues
<1>11. InPlace(at, pos)' /\ Len(up') = IF linked THEN U + 1 ELSE U
  BY <1>3, <1>5, <1>9, <1>10, WrittenInPlace DEF UploadAt
<1>12. WriterAt(at, pos)'
  <2>1. WrittenTo(at)' = a + 3 + w
    <3>1. CASE w = z
      <4>1. writer'.pc = "next"
        BY <1>3, <1>7, <3>1 DEF AfterChunks
      <4>2. at[t + 1] = a + 3 + z
        BY <1>2, <1>3 DEF UploadAt, Offsets
      <4> QED BY <1>7, <3>1, <4>1, <4>2 DEF WrittenTo
    <3>2. CASE w < z
      <4>1. writer'.pc = "chunks"
        BY <1>3, <1>7, <3>2 DEF AfterChunks
      <4> QED BY <1>3, <1>7, <4>1 DEF WrittenTo
    <3> QED BY <1>4, <3>1, <3>2
  <2>2. pos + Len(up') <= a + 3 + w /\ (linked => pos + Len(up') = a + 3 + w)
    BY <1>8, <1>11
  <2>3. writer'.pc # "panicked"
    BY <1>7 DEF AfterChunks
  <2> QED BY <1>6, <2>1, <2>2, <2>3 DEF WriterAt
<1>13. NodeAt(at, pos, k)'
  <2>1. up = <<>> /\ ~linked => up' = <<>>
    BY <1>5 DEF Write
  <2>2. writer'.taken = writer.taken
    BY <1>2, <1>7
  <2> QED BY <1>6, <2>1, <2>2 DEF UploadAt, NodeAt, Whole
<1>14. Offsets(at)' /\ PushedOnce' /\ FilesInv'
  BY <1>6 DEF UploadAt, Offsets, PushedOnce, FilesInv
<1> QED BY <1>11, <1>12, <1>13, <1>14 DEF UploadAt

\* The writer notices what has become of the stream, or ends.
LEMMA UploadWriterStops ==
    ASSUME TypesInv, PushedOnce, FilesInv, NEW at, NEW pos \in Nat,
           NEW k \in Nat, UploadAt(at, pos, k),
           ChunkFails \/ WriterPanics \/ WriterEnds
    PROVE  PushedOnce' /\ FilesInv' /\ UploadAt(at, pos, k)'
<1>1. Write(<<>>) /\ UNCHANGED <<accepted, linked, node, files, kept>>
  BY DEF ChunkFails, WriterEnds, WriterPanics, Write, diskVars
<1>2. up' = up
  BY <1>1, Basics, ConcatEmptySeq DEF Write
<1>3. \A n \in Nat : at[n] \in Nat
  BY DEF UploadAt, Offsets
<1>4. PICK t \in Nat, N \in Nat : t = writer.taken /\ N = Len(accepted)
  BY Basics
<1>5. PICK U \in Nat, w \in Nat : U = Len(up) /\ w = writer.written
  BY Basics
<1>6. CASE writer.pc = "chunks"
  <2>1. t \in 1..N /\ w < Size[accepted[t]] /\ Size[accepted[t]] \in Nat
    BY <1>4, <1>5, <1>6, Basics
  <2>2. at[t + 1] = at[t] + 3 + Size[accepted[t]]
    BY <1>4, <2>1 DEF UploadAt, Offsets
  <2>3. pos + U <= at[t] + 3 + w
    BY <1>4, <1>5, <1>6 DEF UploadAt, WriterAt, WrittenTo
  <2>4. pos + U <= at[t + 1]
    BY <1>3, <2>1, <2>2, <2>3
  <2>5. ~linked /\ writer'.pc # "chunks" /\ writer'.taken = t
    BY <1>4, <1>6 DEF ChunkFails, WriterEnds, WriterPanics, TypesInv, StreamsTypeOK
  <2>6. WriterAt(at, pos)'
    BY <1>1, <1>2, <1>5, <2>4, <2>5 DEF WriterAt, WrittenTo
  <2>7. NodeAt(at, pos, k)'
    BY <1>1, <1>2, <1>4, <2>5 DEF UploadAt, NodeAt, Whole
  <2>8. (InPlace(at, pos) /\ Offsets(at))' /\ PushedOnce' /\ FilesInv'
    BY <1>1, <1>2 DEF UploadAt, Offsets, PushedOnce, FilesInv, InPlace
  <2> QED BY <2>6, <2>7, <2>8 DEF UploadAt
<1>7. CASE writer.pc # "chunks"
  <2>1. pos + U <= at[t + 1] /\ (linked => pos + U = at[t + 1])
    BY <1>4, <1>5, <1>7 DEF UploadAt, WriterAt, WrittenTo
  <2>2. \/ /\ ~linked /\ t < N /\ writer'.taken = t + 1 /\ writer'.pc = "panicked"
        \/ writer'.taken = t /\ writer'.pc = "done"
    BY <1>4, <1>7 DEF ChunkFails, WriterEnds, WriterPanics, TypesInv, StreamsTypeOK
  <2>3. t < N => at[t + 1] <= at[t + 2]
    <3> SUFFICES ASSUME t < N PROVE at[t + 1] <= at[t + 2]
      OBVIOUS
    <3>1. t + 1 \in 1..N /\ (t + 1) + 1 = t + 2
      OBVIOUS
    <3>2. at[(t + 1) + 1] = at[t + 1] + 3 + Size[accepted[t + 1]]
          /\ Size[accepted[t + 1]] \in Nat
      BY <1>4, <3>1, Basics DEF UploadAt, Offsets
    <3> QED BY <1>3, <3>1, <3>2
  <2>4. pos + U <= at[writer'.taken + 1] /\ (linked => pos + U = at[writer'.taken + 1])
    <3>1. CASE writer'.taken = t
      BY <2>1, <3>1
    <3>2. CASE ~linked /\ t < N /\ writer'.taken = t + 1
      <4>1. writer'.taken + 1 = t + 2 /\ at[t + 1] \in Nat /\ at[t + 2] \in Nat
        BY <1>3, <3>2
      <4> QED BY <2>1, <2>3, <3>2, <4>1
    <3> QED BY <2>2, <3>1, <3>2
  <2>5. writer'.pc # "chunks" /\ (linked => writer'.pc # "panicked")
    BY <2>2
  <2>6. WriterAt(at, pos)'
    BY <1>1, <1>2, <1>5, <2>4, <2>5 DEF WriterAt, WrittenTo
  <2>7. k <= writer'.taken
    BY <1>4, <2>2 DEF UploadAt, NodeAt
  <2>8. NodeAt(at, pos, k)'
    BY <1>1, <1>2, <2>7 DEF UploadAt, NodeAt, Whole
  <2>9. (InPlace(at, pos) /\ Offsets(at))' /\ PushedOnce' /\ FilesInv'
    BY <1>1, <1>2 DEF UploadAt, Offsets, PushedOnce, FilesInv, InPlace
  <2> QED BY <2>6, <2>8, <2>9 DEF UploadAt
<1> QED BY <1>6, <1>7

\* The stream breaks, or the node returns: what arrives is a beginning.
LEMMA UploadBreaks ==
    ASSUME TypesInv, PushedOnce, FilesInv, NEW at, NEW pos \in Nat,
           NEW k \in Nat, UploadAt(at, pos, k), LinkBreaks \/ NodeReturns
    PROVE  PushedOnce' /\ FilesInv' /\ UploadAt(at, pos, k)'
<1>1. /\ UNCHANGED <<accepted, writer, files, kept>> /\ ~linked'
      /\ LinkBreaks => node' = node
      /\ NodeReturns => node'.pc = "returned"
  BY DEF LinkBreaks, NodeReturns, diskVars, TypesInv, StreamsTypeOK
<1>2. /\ Len(up') \in Nat /\ Len(up') <= Len(up) /\ \A i \in 1..Len(up') : up'[i] = up[i]
  <2>1. CASE LinkBreaks
    <3>1. up' \in Shortened(up) /\ up \in Seq(Parts) /\ Len(up) \in Nat
      BY <2>1, Basics DEF LinkBreaks
    <3> QED BY <3>1, ShortenedFacts
  <2>2. CASE NodeReturns
    <3>1. up' = <<>> /\ Len(up) \in Nat
      BY <2>2, Basics DEF NodeReturns
    <3> QED BY <3>1
  <2> QED BY <2>1, <2>2
<1>3. InPlace(at, pos)'
  <2>1. ASSUME NEW i \in 1..Len(up')
        PROVE  \E n \in 1..Len(accepted') : \E j \in 1..(3 + Size[accepted'[n]]) :
                  pos + i = at[n] + j /\ up'[i] = Frame(accepted'[n])[j]
    <3>1. i \in 1..Len(up)
      BY <1>2, Basics
    <3>2. \E n \in 1..Len(accepted) : \E j \in 1..(3 + Size[accepted[n]]) :
             pos + i = at[n] + j /\ up[i] = Frame(accepted[n])[j]
      BY <3>1, Zenon DEF UploadAt, InPlace
    <3>3. accepted' = accepted /\ up'[i] = up[i]
      BY <1>1, <1>2
    <3> QED BY <3>2, <3>3, Zenon
  <2> QED BY <2>1, Zenon DEF InPlace
<1>4. WriterAt(at, pos)'
  <2>1. WrittenTo(at)' = WrittenTo(at)
    BY <1>1 DEF WrittenTo
  <2>2. WrittenTo(at) \in Nat
    <3>1. \A n \in Nat : at[n] \in Nat
      BY DEF UploadAt, Offsets
    <3>2. writer.taken \in Nat /\ writer.taken + 1 \in Nat /\ writer.written \in Nat
      BY Basics
    <3>3. at[writer.taken] \in Nat /\ at[writer.taken + 1] \in Nat
      BY <3>1, <3>2
    <3> QED BY <3>2, <3>3 DEF WrittenTo
  <2>3. pos + Len(up) <= WrittenTo(at)
    BY DEF UploadAt, WriterAt
  <2>4. pos + Len(up') <= WrittenTo(at)
    BY <1>2, <2>2, <2>3, Basics
  <2> QED BY <1>1, <2>1, <2>4 DEF WriterAt
<1>5. NodeAt(at, pos, k)'
  <2>1. CASE LinkBreaks
    <3>1. up = <<>> => up' = <<>>
      BY <2>1, EmptySeq, Basics, ShortenedFacts DEF LinkBreaks, Shortened
    <3> QED BY <1>1, <2>1, <3>1 DEF UploadAt, NodeAt, Whole
  <2>2. CASE NodeReturns
    <3>1. up' = <<>>
      BY <2>2 DEF NodeReturns
    <3> QED BY <1>1, <2>2, <3>1 DEF UploadAt, NodeAt, Whole
  <2> QED BY <2>1, <2>2
<1>6. Offsets(at)' /\ PushedOnce' /\ FilesInv'
  BY <1>1 DEF UploadAt, Offsets, PushedOnce, FilesInv
<1> QED BY <1>3, <1>4, <1>5, <1>6 DEF UploadAt

\* What is left was in its place before.
LEMMA LeftInPlace ==
    ASSUME TypesInv, NEW at, NEW pos \in Nat, InPlace(at, pos), WriterAt(at, pos),
           NEW n \in Nat, n <= Len(up), Take(n)
    PROVE  InPlace(at, pos + n)' /\ WriterAt(at, pos + n)'
<1>1. PICK U \in Nat : U = Len(up)
  BY Basics
<1>2. /\ Len(up') = U - n /\ \A i \in 1..Len(up') : up'[i] = up[n + i]
  <2>1. n \in 0..Len(up) /\ up \in Seq(Parts) /\ up' = SubSeq(up, n + 1, Len(up))
    BY Basics DEF Take
  <2> QED BY <1>1, <2>1, CutFacts
<1>3. n <= U
  BY <1>1
<1>4. UNCHANGED <<accepted, writer, linked>>
  BY DEF Take
<1>5. ASSUME NEW i \in 1..(U - n)
      PROVE  \E m \in 1..Len(accepted) : \E j \in 1..(3 + Size[accepted[m]]) :
                (pos + n) + i = at[m] + j /\ up'[i] = Frame(accepted[m])[j]
  <2>1. n + i \in 1..U /\ (pos + n) + i = pos + (n + i)
    BY <1>3
  <2>2. PICK q \in 1..Len(up) : q = n + i
    BY <1>1, <2>1
  <2>3. \E m \in 1..Len(accepted) : \E j \in 1..(3 + Size[accepted[m]]) :
            pos + q = at[m] + j /\ up[q] = Frame(accepted[m])[j]
    BY DEF InPlace
  <2>4. up'[i] = up[q]
    BY <1>2, <2>2
  <2> QED BY <2>1, <2>2, <2>3, <2>4
<1>6. InPlace(at, pos + n)'
  <2>1. \A i \in 1..Len(up') :
            \E m \in 1..Len(accepted) : \E j \in 1..(3 + Size[accepted[m]]) :
                (pos + n) + i = at[m] + j /\ up'[i] = Frame(accepted[m])[j]
    BY <1>2, <1>5
  <2> QED BY <1>4, <2>1 DEF InPlace
<1>7. WriterAt(at, pos + n)'
  <2>1. (pos + n) + Len(up') = pos + Len(up)
    BY <1>1, <1>2, <1>3
  <2>2. WrittenTo(at)' = WrittenTo(at)
    BY <1>4 DEF WrittenTo
  <2> QED BY <1>4, <2>1, <2>2 DEF WriterAt
<1> QED BY <1>6, <1>7

\* A frame that is not written to its end is not passed.
LEMMA NotPassed ==
    ASSUME TypesInv, NEW at, NEW pos \in Nat, NEW k \in Nat, Offsets(at),
           WriterAt(at, pos), k <= writer.taken, at[k + 1] < pos + Len(up)
    PROVE  k + 1 <= writer.taken
<1>1. PICK t \in Nat, N \in Nat, U \in Nat : t = writer.taken /\ N = Len(accepted) /\ U = Len(up)
  BY Basics
<1>2. (\A n \in Nat : at[n] \in Nat) /\ k <= t /\ t <= N
  BY <1>1, Basics DEF Offsets
<1>3. pos + U <= at[t + 1]
  <2>1. CASE writer.pc = "chunks"
    <3>1. /\ writer.written < Size[accepted[t]] /\ Size[accepted[t]] \in Nat /\ t \in 1..N
          /\ writer.written \in Nat
      BY <1>1, <2>1, Basics
    <3>2. at[t + 1] = at[t] + 3 + Size[accepted[t]]
      BY <1>1, <3>1 DEF Offsets
    <3>3. pos + U <= at[t] + 3 + writer.written
      BY <1>1, <2>1 DEF WriterAt, WrittenTo
    <3>4. at[t] \in Nat
      BY <1>2
    <3> QED BY <3>1, <3>2, <3>3, <3>4
  <2>2. CASE writer.pc # "chunks"
    BY <1>1, <2>2 DEF WriterAt, WrittenTo
  <2> QED BY <2>1, <2>2
<1>4. k # t
  <2> SUFFICES ASSUME k = t PROVE FALSE
    OBVIOUS
  <2>1. at[t + 1] < pos + U /\ at[t + 1] \in Nat
    BY <1>1, <1>2
  <2> QED BY <1>3, <2>1
<1> QED BY <1>1, <1>2, <1>4

LEMMA UploadTakeHeader ==
    ASSUME TypesInv, PushedOnce, FilesInv, NEW at, NEW pos \in Nat,
           NEW k \in Nat, UploadAt(at, pos, k), NEW d \in Data, TakeHeader(d)
    PROVE  PushedOnce' /\ FilesInv' /\ UploadAt(at, pos + 3, k + 1)' /\ files[d] = "none"
<1>1. node.pc = "frame" /\ node' = [pc |-> "storing", data |-> d] /\ Take(3)
      /\ UNCHANGED <<accepted, writer, linked, files, kept>>
  BY DEF TakeHeader, Take
<1>2. PICK N \in Nat, U \in Nat : N = Len(accepted) /\ U = Len(up)
  BY Basics
<1>3. U >= 3 /\ up[1] = <<"prefix", d>>
  <2>1. up \in Seq(Parts) /\ Starts(up, d)
    BY Basics DEF TakeHeader
  <2> QED BY <1>2, <2>1, StartsFacts
<1>4. \A n \in Nat : at[n] \in Nat
  BY DEF UploadAt, Offsets
<1>5. PICK n \in 1..N : \E j \in 1..(3 + Size[accepted[n]]) :
         pos + 1 = at[n] + j /\ up[1] = Frame(accepted[n])[j]
  <2>1. 1 \in 1..Len(up)
    BY <1>2, <1>3
  <2> QED BY <1>2, <2>1 DEF UploadAt, InPlace
<1>6. PICK j \in 1..(3 + Size[accepted[n]]) :
         pos + 1 = at[n] + j /\ up[1] = Frame(accepted[n])[j]
  BY <1>5
<1>7. accepted[n] = d /\ j = 1
  <2>1. accepted[n] \in Data /\ Size[d] \in Nat
    BY <1>2, Basics
  <2>2. Frame(d)[1] = <<"prefix", d>> /\ 1 \in 1..(3 + Size[d])
    <3>1. Frame(d)[1] = <<"prefix", d>>
      BY FrameFacts
    <3>2. \A x \in Nat : 1 \in 1..(3 + x)
      OBVIOUS
    <3> QED BY <2>1, <3>1, <3>2, Zenon
  <2>3. Frame(accepted[n])[j] = Frame(d)[1]
    BY <1>3, <1>6, <2>2
  <2> QED BY <2>1, <2>2, <2>3, PartsDiffer
<1>8. pos = at[n]
  BY <1>4, <1>6, <1>7
<1>9. k <= N /\ k <= writer.taken /\ pos = at[k + 1]
  BY <1>1, <1>2, Basics DEF UploadAt, NodeAt
<1>a. /\ \A m \in 1..N : at[m + 1] = at[m] + 3 + Size[accepted[m]] /\ Size[accepted[m]] \in Nat
      /\ \A m \in 1..N, q \in 1..(N + 1) : m < q => at[m + 1] <= at[q]
  BY <1>2, Basics DEF UploadAt, Offsets
<1>10. n = k + 1
  <2>1. CASE n < k + 1
    <3>1. at[n + 1] <= at[k + 1] /\ at[n + 1] = at[n] + 3 + Size[accepted[n]]
          /\ Size[accepted[n]] \in Nat
      BY <1>9, <1>a, <2>1
    <3>2. at[n] \in Nat /\ at[k + 1] = at[n]
      BY <1>4, <1>8, <1>9
    <3>3. FALSE
      BY <3>1, <3>2
    <3> QED BY <3>3
  <2>2. CASE k + 1 < n
    <3>1. k + 1 \in 1..N /\ at[k + 1] \in Nat
      BY <1>4, <2>2
    <3>2. at[(k + 1) + 1] <= at[n] /\ Size[accepted[k + 1]] \in Nat
          /\ at[(k + 1) + 1] = at[k + 1] + 3 + Size[accepted[k + 1]]
      BY <1>a, <2>2, <3>1
    <3>3. FALSE
      BY <1>8, <1>9, <3>1, <3>2
    <3> QED BY <3>3
  <2> QED BY <2>1, <2>2
<1>11. k + 1 \in 1..N /\ accepted[k + 1] = d /\ (k + 1) + 1 = k + 2
       /\ at[k + 2] = at[k + 1] + 3 + Size[d] /\ Size[d] \in Nat
  <2>1. k + 1 \in 1..N /\ accepted[k + 1] = d
    BY <1>7, <1>10
  <2>2. at[(k + 1) + 1] = at[k + 1] + 3 + Size[accepted[k + 1]] /\ (k + 1) + 1 = k + 2
    BY <1>a, <2>1
  <2> QED BY <2>1, <2>2, Basics
<1>12. k + 1 <= writer.taken
  <2>1. at[k + 1] < pos + U
    BY <1>3, <1>9
  <2> QED BY <1>2, <1>9, <2>1, NotPassed DEF UploadAt
<1>13. InPlace(at, pos + 3)' /\ WriterAt(at, pos + 3)'
  <2>1. InPlace(at, pos) /\ WriterAt(at, pos) /\ 3 <= Len(up)
    BY <1>2, <1>3 DEF UploadAt
  <2> QED BY <1>1, <2>1, LeftInPlace
<1>14. files[d] = "none" /\ kept[d] = <<>> /\ Len(kept[d]) = 0
  <2>1. \A m \in 1..k : accepted[m] # d
    <3> SUFFICES ASSUME NEW m \in 1..k, accepted[m] = d PROVE FALSE
      OBVIOUS
    <3>1. m \in 1..N /\ m # k + 1
      BY <1>9
    <3> QED BY <1>2, <1>11, <3>1 DEF PushedOnce
  <2>2. files[d] = "none"
    BY <2>1 DEF UploadAt, NodeAt
  <2> QED BY <2>2 DEF FilesInv
<1>15. NodeAt(at, pos + 3, k + 1)'
  <2>1. ASSUME NEW m \in 1..(k + 1), m < k + 1 PROVE Whole(accepted[m])
    <3>1. m \in 1..k
      BY <2>1
    <3>2. CASE m < k
      BY <3>1, <3>2 DEF UploadAt, NodeAt
    <3>3. CASE m = k
      BY <1>1, <3>1, <3>3 DEF UploadAt, NodeAt
    <3> QED BY <3>1, <3>2, <3>3
  <2>2. \A m \in 1..(k + 1) : m < k + 1 => Whole(accepted[m])'
    BY <1>1, <2>1 DEF Whole
  <2>3. ASSUME NEW e \in Data, files[e] # "none" PROVE \E m \in 1..(k + 1) : accepted[m] = e
    BY <2>3 DEF UploadAt, NodeAt
  <2>4. pos + 3 <= at[(k + 1) + 1]
    BY <1>4, <1>9, <1>11
  <2>5. at[k + 1] + 3 + Len(kept[accepted[k + 1]]) <= pos + 3
        /\ pos + 3 = at[k + 1] + 3 + Len(kept[d])
    BY <1>9, <1>11, <1>14
  <2>6. node'.pc = "storing" /\ node'.data = accepted[k + 1]
    BY <1>1, <1>11
  <2> QED BY <1>1, <1>11, <1>12, <2>2, <2>3, <2>4, <2>5, <2>6 DEF NodeAt
<1>16. Offsets(at)' /\ PushedOnce' /\ FilesInv'
  BY <1>1 DEF UploadAt, Offsets, PushedOnce, FilesInv
<1> QED BY <1>13, <1>14, <1>15, <1>16 DEF UploadAt

\* What is kept is whole when it is as long as the content.
LEMMA WholeFacts ==
    ASSUME TypesInv, FilesInv, NEW d \in Data
    PROVE  Whole(d) <=> files[d] = "opened" /\ Len(kept[d]) = Size[d]
<1>1. /\ kept[d] \in Seq(Parts) /\ Chunks(d) \in Seq(Parts) /\ Len(Chunks(d)) = Size[d]
      /\ \A i \in 1..Len(kept[d]) : kept[d][i] = Chunks(d)[i]
  BY Basics, FrameFacts DEF FilesInv
<1>2. Len(kept[d]) = Len(Chunks(d)) => kept[d] = Chunks(d)
  BY <1>1, SeqEqual
<1> QED BY <1>1, <1>2 DEF Whole

\* Of what the node has come to, only the last can be in parts.
LEMMA OthersDiffer ==
    ASSUME PushedOnce, TypesInv, NEW k \in Nat, k <= writer.taken, NEW n \in 1..k, n < k
    PROVE  accepted[n] # accepted[k]
<1>1. n \in 1..Len(accepted) /\ k \in 1..Len(accepted)
  BY Basics
<1> QED BY <1>1 DEF PushedOnce

LEMMA UploadMakeFile ==
    ASSUME TypesInv, PushedOnce, FilesInv, NEW at, NEW pos \in Nat,
           NEW k \in Nat, UploadAt(at, pos, k), MakeFile
    PROVE  PushedOnce' /\ FilesInv' /\ UploadAt(at, pos, k)'
<1>1. UNCHANGED <<accepted, writer, linked, up, node, kept>>
  BY DEF MakeFile, uploadVars
<1>2. PICK d \in Data : d = node.data
  BY Basics
<1>3. /\ node.pc = "storing" /\ files[d] # "opened" /\ files \in [Data -> Files]
      /\ files' = [files EXCEPT ![d] = NextFile[files[d]]]
  BY <1>2 DEF MakeFile, TypesInv, StreamsTypeOK
<1>4. files'[d] # "none" /\ \A e \in Data : e # d => files'[e] = files[e]
  BY <1>3 DEF NextFile, Files
<1>5. k > 0 /\ d = accepted[k] /\ k <= writer.taken
  BY <1>2, <1>3 DEF UploadAt, NodeAt
<1>6. FilesInv'
  BY <1>1, <1>3, <1>4 DEF FilesInv
<1>7. NodeAt(at, pos, k)'
  <2>1. ASSUME NEW n \in 1..k, n < k PROVE Whole(accepted[n])'
    <3>1. accepted[n] \in Data /\ accepted[n] # d /\ Whole(accepted[n])
      BY <1>5, <2>1, OthersDiffer, Basics DEF UploadAt, NodeAt
    <3> QED BY <1>1, <1>4, <3>1 DEF Whole
  <2>2. ASSUME NEW e \in Data, files'[e] # "none" PROVE \E n \in 1..k : accepted[n] = e
    <3>1. CASE e = d
      BY <1>5, <3>1
    <3>2. CASE e # d
      BY <1>4, <2>2, <3>2 DEF UploadAt, NodeAt
    <3> QED BY <3>1, <3>2
  <2> QED BY <1>1, <1>3, <2>1, <2>2 DEF UploadAt, NodeAt
<1>8. (InPlace(at, pos) /\ WriterAt(at, pos) /\ Offsets(at))' /\ PushedOnce'
  <2>1. InPlace(at, pos)'
    BY <1>1 DEF UploadAt, InPlace
  <2>2. WriterAt(at, pos)'
    BY <1>1 DEF UploadAt, WriterAt, WrittenTo
  <2>3. Offsets(at)' /\ PushedOnce'
    BY <1>1 DEF UploadAt, Offsets, PushedOnce
  <2> QED BY <2>1, <2>2, <2>3
<1> QED BY <1>6, <1>7, <1>8 DEF UploadAt

\* What comes next is the next chunk of what the node stores.
LEMMA NextChunk ==
    ASSUME TypesInv, PushedOnce, NEW at, NEW pos \in Nat, NEW k \in Nat,
           UploadAt(at, pos, k), node.pc = "storing", Len(kept[node.data]) < Size[node.data],
           Len(up) >= 1
    PROVE  up[1] = Chunks(node.data)[Len(kept[node.data]) + 1]
<1>1. PICK d \in Data, K \in Nat, N \in Nat, a \in Nat :
         d = node.data /\ K = Len(kept[d]) /\ N = Len(accepted) /\ a = at[k]
  <2>1. at[k] \in Nat
    BY DEF UploadAt, Offsets
  <2> QED BY <2>1, Basics
<1>2. /\ k \in 1..N /\ d = accepted[k] /\ pos = a + 3 + K
  BY <1>1, Basics DEF UploadAt, NodeAt
<1>3. K < Size[d] /\ Size[d] \in Nat
  BY <1>1, StreamsAssumption
<1>4. PICK n \in 1..N : \E j \in 1..(3 + Size[accepted[n]]) :
         pos + 1 = at[n] + j /\ up[1] = Frame(accepted[n])[j]
  <2>1. 1 \in 1..Len(up)
    BY Basics
  <2> QED BY <1>1, <2>1 DEF UploadAt, InPlace
<1>5. PICK j \in 1..(3 + Size[accepted[n]]) :
         pos + 1 = at[n] + j /\ up[1] = Frame(accepted[n])[j]
  BY <1>4
<1>6. PICK i \in 1..(3 + Size[accepted[k]]) : i = 4 + K
  BY <1>2, <1>3
<1>7. at[k] + i = at[n] + j
  <2>1. a + i = pos + 1
    BY <1>2, <1>6
  <2> QED BY <1>1, <1>5, <2>1
<1>8. n = k /\ j = i
  <2>1. n \in 1..Len(accepted) /\ k \in 1..Len(accepted) /\ Offsets(at)
    BY <1>1, <1>2 DEF UploadAt
  <2> QED BY <1>7, <2>1, Located
<1>9. up[1] = Frame(d)[3 + (K + 1)] /\ K + 1 \in 1..Size[d]
  BY <1>2, <1>3, <1>5, <1>6, <1>8
<1>10. Frame(d)[3 + (K + 1)] = Chunks(d)[K + 1]
  BY <1>1, <1>9, FrameChunk
<1> QED BY <1>1, <1>9, <1>10

LEMMA UploadKeepChunk ==
    ASSUME TypesInv, PushedOnce, FilesInv, NEW at, NEW pos \in Nat,
           NEW k \in Nat, UploadAt(at, pos, k), KeepChunk
    PROVE  PushedOnce' /\ FilesInv' /\ UploadAt(at, pos + 1, k)'
<1>1. PICK d \in Data, K \in Nat : d = node.data /\ K = Len(kept[d])
  BY Basics
<1>2. /\ node.pc = "storing" /\ files[d] = "opened" /\ K < Size[d] /\ up # <<>>
      /\ kept' = [kept EXCEPT ![d] = Append(kept[d], Head(up))]
      /\ Take(1) /\ UNCHANGED <<accepted, writer, linked, node, files>>
  BY <1>1 DEF KeepChunk, Take
<1>3. Len(up) \in Nat /\ Len(up) >= 1 /\ Head(up) = up[1] /\ up[1] \in Parts
  <2>1. up \in Seq(Parts) /\ up # <<>> /\ Len(up) \in Nat
    BY <1>2, Basics
  <2>2. Len(up) # 0
    BY <2>1, EmptySeq
  <2>3. 1 \in 1..Len(up)
    BY <2>1, <2>2
  <2> QED BY <2>1, <2>3, ElementOfSeq
<1>4. Head(up) = Chunks(d)[K + 1]
  BY <1>1, <1>2, <1>3, NextChunk
<1>5. /\ k > 0 /\ d = accepted[k] /\ pos = at[k] + 3 + K /\ k <= writer.taken
      /\ k <= Len(accepted)
  BY <1>1, <1>2, Basics DEF UploadAt, NodeAt
<1>6. /\ Len(Append(kept[d], Head(up))) = K + 1
      /\ \A i \in 1..K : Append(kept[d], Head(up))[i] = kept[d][i]
      /\ Append(kept[d], Head(up))[K + 1] = Head(up)
  BY <1>1, <1>3, Basics, AppendProperties
<1>7. kept \in [Data -> Seq(Parts)]
  BY DEF TypesInv, StreamsTypeOK
<1>8. Len(kept'[d]) = K + 1 /\ kept'[d] = Append(kept[d], Head(up))
      /\ \A e \in Data : e # d => kept'[e] = kept[e]
  BY <1>2, <1>6, <1>7
<1>9. FilesInv'
  <2> SUFFICES ASSUME NEW e \in Data
               PROVE  /\ files[e] # "opened" => kept'[e] = <<>>
                      /\ \A i \in 1..Len(kept'[e]) : kept'[e][i] = Chunks(e)[i]
    BY <1>2 DEF FilesInv
  <2>1. CASE e # d
    BY <1>8, <2>1 DEF FilesInv
  <2>2. CASE e = d
    <3>1. \A i \in 1..K : kept[d][i] = Chunks(d)[i]
      BY <1>1 DEF FilesInv
    <3>2. \A i \in 1..(K + 1) : i \in 1..K \/ i = K + 1
      OBVIOUS
    <3>3. \A i \in 1..(K + 1) : kept'[d][i] = Chunks(d)[i]
      BY <1>4, <1>6, <1>8, <3>1, <3>2
    <3> QED BY <1>2, <1>8, <2>2, <3>3
  <2> QED BY <2>1, <2>2
<1>10. InPlace(at, pos + 1)' /\ WriterAt(at, pos + 1)'
  BY <1>2, <1>3, LeftInPlace DEF UploadAt
<1>11. NodeAt(at, pos + 1, k)'
  <2>1. ASSUME NEW n \in 1..k, n < k PROVE Whole(accepted[n])'
    <3>1. accepted[n] \in Data /\ accepted[n] # d /\ Whole(accepted[n])
      BY <1>5, <2>1, OthersDiffer, Basics DEF UploadAt, NodeAt
    <3> QED BY <1>2, <1>8, <3>1 DEF Whole
  <2>2. pos + 1 = at[k] + 3 + (K + 1) /\ pos + 1 <= at[k + 1]
    <3>1. PICK a \in Nat, z \in Nat : a = at[k] /\ z = Size[d]
      BY Basics DEF UploadAt, Offsets
    <3>2. at[k + 1] = a + 3 + z
      BY <1>5, <3>1, Basics DEF UploadAt, Offsets
    <3>3. pos = a + 3 + K /\ K < z
      BY <1>2, <1>5, <3>1
    <3>4. pos + 1 = a + 3 + (K + 1) /\ pos + 1 <= a + 3 + z
      BY <3>3
    <3> QED BY <3>1, <3>2, <3>4
  <2>3. \A e \in Data : files[e] # "none" => \E n \in 1..k : accepted[n] = e
    BY DEF UploadAt, NodeAt
  <2>4. Len(kept'[accepted[k]]) = K + 1 /\ node.data = accepted[k]
    BY <1>1, <1>5, <1>8
  <2> QED BY <1>2, <1>5, <2>1, <2>2, <2>3, <2>4 DEF NodeAt
<1>12. Offsets(at)' /\ PushedOnce'
  BY <1>2 DEF UploadAt, Offsets, PushedOnce
<1> QED BY <1>9, <1>10, <1>11, <1>12 DEF UploadAt

LEMMA UploadAnswer ==
    ASSUME TypesInv, PushedOnce, FilesInv, NEW at, NEW pos \in Nat,
           NEW k \in Nat, UploadAt(at, pos, k), Answer
    PROVE  PushedOnce' /\ FilesInv' /\ UploadAt(at, pos, k)'
<1>1. PICK d \in Data : d = node.data
  BY Basics
<1>2. /\ UNCHANGED <<accepted, writer, linked, up, files, kept>>
      /\ node.pc = "storing" /\ files[d] = "opened" /\ Len(kept[d]) = Size[d]
      /\ node'.pc = "frame"
  BY <1>1 DEF Answer, TypesInv, StreamsTypeOK
<1>3. Whole(d) /\ k > 0 /\ d = accepted[k] /\ pos = at[k] + 3 + Size[d] /\ k <= writer.taken
  BY <1>1, <1>2, WholeFacts DEF UploadAt, NodeAt
<1>4. pos = at[k + 1]
  <2>1. k \in 1..Len(accepted)
    BY <1>3, Basics
  <2> QED BY <1>3, <2>1 DEF UploadAt, Offsets
<1>5. NodeAt(at, pos, k)'
  BY <1>2, <1>3, <1>4 DEF UploadAt, NodeAt, Whole
<1>6. (InPlace(at, pos) /\ WriterAt(at, pos) /\ Offsets(at))' /\ PushedOnce' /\ FilesInv'
  BY <1>2 DEF UploadAt, Offsets, InPlace, WriterAt, WrittenTo, PushedOnce, FilesInv
<1> QED BY <1>5, <1>6 DEF UploadAt

\* A step of the upload, the node or the answers' reader, or of a download.
UploadWrites ==
    WriteHeader \/ WriteChunk \/ ChunkFails \/ WriterPanics \/ WriterEnds

DownloadNext ==
    \/ Serve \/ \E d \in Data : ServeUndescribed(d) \/ ServeSkips(d) \/ ServeHeader(d)
    \/ ServeChunk \/ ContentEnds \/ ServeEnds \/ FeedBreaks
    \/ \E d \in Data : ReadItem(d)
    \/ ReadEnds \/ ReadPanics

LEMMA DownloadLeavesUpload ==
    ASSUME DownloadNext
    PROVE  UNCHANGED <<uploadVars, diskVars>>
BY DEF DownloadNext, Serve, ServeUndescribed, ServeSkips, ServeHeader, Visit, ServeChunk,
       ContentEnds, ServeEnds, FeedBreaks, ReadItem, ReadEnds, ReadPanics

LEMMA AlignedStep ==
    ASSUME TypesInv, DownAligned, StreamsNext
    PROVE  DownAligned'
<1> SUFFICES ASSUME linked' PROVE \E m \in Nat : Len(down') = 3 * m
  BY DEF DownAligned
<1>1. Len(down) \in Nat /\ down \in Seq(Parts) /\ linked \in BOOLEAN
  BY Basics
<1>2. linked
  BY <1>1, DownloadLeavesUpload
     DEF StreamsNext, DownloadNext, uploadVars, Push, WriteHeader, WriteChunk, ChunkFails,
         WriterPanics, WriterEnds, Write, LinkBreaks, TakeHeader, Take, MakeFile, KeepChunk,
         Answer, NodeReturns, ReadAnswer, ReaderEnds, TakeResponse
<1>3. PICK m \in Nat : Len(down) = 3 * m
  BY <1>2 DEF DownAligned
<1>4. CASE Answer
  <2>1. /\ down' = down \o Header(node.data) /\ Header(node.data) \in Seq(Parts)
        /\ Len(Header(node.data)) = 3
    BY <1>2, <1>4, Basics, FrameFacts DEF Answer
  <2>2. Len(down') = 3 * m + 3
    <3>1. ASSUME NEW s \in Seq(Parts), NEW t \in Seq(Parts) PROVE Len(s \o t) = Len(s) + Len(t)
      BY ConcatProperties
    <3>2. Len(down') = Len(down) + 3
      BY <1>1, <2>1, <3>1
    <3> QED BY <1>3, <3>2
  <2>3. 3 * m + 3 = 3 * (m + 1) /\ m + 1 \in Nat
    OBVIOUS
  <2> QED BY <2>2, <2>3
<1>5. ASSUME NEW d \in Data, ReadAnswer(d) PROVE \E q \in Nat : Len(down') = 3 * q
  <2>1. Starts(down, d) /\ down' = SubSeq(down, 4, Len(down))
    BY <1>5 DEF ReadAnswer
  <2>2. Len(down) >= 3
    BY <1>1, <2>1, StartsFacts
  <2>3. 3 \in 0..Len(down) /\ down' = SubSeq(down, 3 + 1, Len(down))
    BY <1>1, <2>1, <2>2
  <2>4. Len(down') = Len(down) - 3
    <3>1. ASSUME NEW s \in Seq(Parts), NEW n \in 0..Len(s)
          PROVE  Len(SubSeq(s, n + 1, Len(s))) = Len(s) - n
      BY CutFacts
    <3>2. down \in Seq(Parts)
      BY <1>1
    <3>3. Len(SubSeq(down, 3 + 1, Len(down))) = Len(down) - 3
      BY <2>3, <3>1, <3>2
    <3> QED BY <2>3, <3>3
  <2>5. m >= 1 /\ 3 * m - 3 = 3 * (m - 1)
    BY <1>3, <2>2
  <2> QED BY <1>3, <2>4, <2>5
<1>6. CASE UNCHANGED down
  BY <1>3, <1>6
<1>7. Answer \/ (\E d \in Data : ReadAnswer(d)) \/ UNCHANGED down
  BY <1>1, DownloadLeavesUpload
     DEF StreamsNext, DownloadNext, uploadVars, Push, WriteHeader, WriteChunk, ChunkFails,
         WriterPanics, WriterEnds, Write, LinkBreaks, TakeHeader, Take, MakeFile, KeepChunk,
         NodeReturns, ReaderEnds, TakeResponse
<1> QED BY <1>4, <1>5, <1>6, <1>7

LEMMA PlaceStep ==
    ASSUME TypesInv, PushedOnce, FilesInv, NEW at, NEW pos \in Nat, NEW k \in Nat,
           UploadAt(at, pos, k), StreamsNext
    PROVE  /\ PushedOnce' /\ FilesInv'
           /\ \E a : \E p \in Nat, j \in Nat : UploadAt(a, p, j)'
<1>1. CASE \E d \in Data : Push(d)
  BY <1>1, UploadPush
<1>2. CASE UploadWrites
  BY <1>2, UploadWriteHeader, UploadWriteChunk, UploadWriterStops DEF UploadWrites
<1>3. CASE LinkBreaks \/ NodeReturns
  BY <1>3, UploadBreaks
<1>4. CASE \E d \in Data : TakeHeader(d)
  <2>1. pos + 3 \in Nat /\ k + 1 \in Nat
    OBVIOUS
  <2> QED BY <1>4, <2>1, UploadTakeHeader
<1>5. CASE MakeFile \/ Answer
  BY <1>5, UploadMakeFile, UploadAnswer
<1>6. CASE KeepChunk
  <2>1. pos + 1 \in Nat
    OBVIOUS
  <2> QED BY <1>6, <2>1, UploadKeepChunk
<1>7. CASE UNCHANGED UploadState
  BY <1>7, UploadStays
<1>8. (\E d \in Data : ReadAnswer(d)) \/ ReaderEnds \/ TakeResponse \/ DownloadNext
         => UNCHANGED UploadState
  BY DownloadLeavesUpload
     DEF ReadAnswer, ReaderEnds, TakeResponse, UploadState, uploadVars, diskVars
<1> QED BY <1>1, <1>2, <1>3, <1>4, <1>5, <1>6, <1>7, <1>8
        DEF StreamsNext, UploadWrites, DownloadNext

LEMMA UploadStep == UploadInv /\ [StreamsNext]_streamsVars => UploadInv'
<1> SUFFICES ASSUME UploadInv, [StreamsNext]_streamsVars PROVE UploadInv'
  OBVIOUS
<1>1. TypesInv /\ PushedOnce /\ FilesInv /\ DownAligned
  BY DEF UploadInv
<1>2. PICK at : \E pos \in Nat, k \in Nat : UploadAt(at, pos, k)
  BY DEF UploadInv
<1>3. PICK pos \in Nat, k \in Nat : UploadAt(at, pos, k)
  BY <1>2
<1>4. TypesInv'
  BY <1>1, TypesStep
<1>5. CASE StreamsNext
  BY <1>1, <1>3, <1>4, <1>5, AlignedStep, PlaceStep DEF UploadInv
<1>6. CASE UNCHANGED streamsVars
  <2>1. UNCHANGED UploadState /\ UNCHANGED <<linked, down>>
    BY <1>6 DEF streamsVars, UploadState, uploadVars, diskVars
  <2>2. PushedOnce' /\ FilesInv' /\ UploadAt(at, pos, k)'
    BY <1>1, <1>3, <2>1, UploadStays
  <2>3. DownAligned'
    BY <1>1, <2>1 DEF DownAligned
  <2> QED BY <1>4, <2>2, <2>3 DEF UploadInv
<1> QED BY <1>5, <1>6

LEMMA UploadAlways == StreamsSpec => []UploadInv
BY UploadInitially, UploadStep, PTL DEF StreamsSpec

-----------------------------------------------------------------------------
(* What of an upload is stored, and what arrives                           *)

LEMMA OffsetsGrow ==
    ASSUME NEW at, Offsets(at), TypesInv, NEW N \in Nat, N = Len(accepted)
    PROVE  /\ \A n \in Nat : at[n] \in Nat
           /\ \A n \in 1..N : Size[accepted[n]] \in Nat /\ accepted[n] \in Data
                              /\ at[n + 1] = at[n] + 3 + Size[accepted[n]]
           /\ \A m, n \in 1..(N + 1) : m < n => at[m] + 3 <= at[n]
           /\ \A m, n \in 1..(N + 1) : m <= n => at[m] <= at[n]
<1>1. /\ \A n \in Nat : at[n] \in Nat
      /\ \A n \in 1..N : Size[accepted[n]] \in Nat /\ accepted[n] \in Data
                         /\ at[n + 1] = at[n] + 3 + Size[accepted[n]]
      /\ \A m \in 1..N, n \in 1..(N + 1) : m < n => at[m + 1] <= at[n]
  BY Basics DEF Offsets
<1>2. ASSUME NEW m \in 1..(N + 1), NEW n \in 1..(N + 1), m < n PROVE at[m] + 3 <= at[n]
  <2>1. m \in 1..N /\ at[m] \in Nat /\ at[n] \in Nat /\ at[m + 1] \in Nat
    BY <1>1, <1>2
  <2>2. at[m + 1] <= at[n] /\ at[m + 1] = at[m] + 3 + Size[accepted[m]]
        /\ Size[accepted[m]] \in Nat
    BY <1>1, <1>2, <2>1
  <2> QED BY <2>1, <2>2
<1>3. ASSUME NEW m \in 1..(N + 1), NEW n \in 1..(N + 1), m <= n PROVE at[m] <= at[n]
  <2>1. at[m] \in Nat /\ at[n] \in Nat
    BY <1>1
  <2>2. CASE m = n
    BY <2>1, <2>2
  <2>3. CASE m < n
    BY <1>2, <2>1, <2>3
  <2> QED BY <1>3, <2>2, <2>3
<1> QED BY <1>1, <1>2, <1>3

\* A place is the end of a frame, or within one.
LEMMA PlaceFacts ==
    ASSUME NEW at, Offsets(at), TypesInv, NEW N \in Nat, N = Len(accepted),
           NEW x \in 0..N, NEW e \in Nat, at[x + 1] <= e, x < N => e < at[x + 2]
    PROVE  \A i \in 1..N : at[i + 1] <= e <=> i <= x
<1> SUFFICES ASSUME NEW i \in 1..N PROVE at[i + 1] <= e <=> i <= x
  OBVIOUS
<1>1. at[i + 1] \in Nat /\ at[x + 1] \in Nat /\ at[x + 2] \in Nat
  BY OffsetsGrow
<1>2. CASE i <= x
  <2>1. i + 1 \in 1..(N + 1) /\ x + 1 \in 1..(N + 1) /\ i + 1 <= x + 1
    BY <1>2
  <2>2. at[i + 1] <= at[x + 1]
    BY <2>1, OffsetsGrow
  <2> QED BY <1>1, <1>2, <2>2
<1>3. CASE i > x
  <2>1. i + 1 \in 1..(N + 1) /\ x + 2 \in 1..(N + 1) /\ x + 2 <= i + 1 /\ x < N
    BY <1>3
  <2>2. at[x + 2] <= at[i + 1]
    BY <2>1, OffsetsGrow
  <2> QED BY <1>1, <1>3, <2>1, <2>2
<1> QED BY <1>2, <1>3

\* How far the stream reaches.
LEMMA ReachFacts ==
    ASSUME TypesInv, NEW at, NEW pos \in Nat, NEW k \in Nat, UploadAt(at, pos, k),
           node.pc # "returned", NEW N \in Nat, N = Len(accepted)
    PROVE  \E h \in 0..N : \A i \in 1..N : at[i + 1] <= pos + Len(up) <=> i <= h
<1>1. PICK U \in Nat, e \in Nat : U = Len(up) /\ e = pos + U
  BY Basics
<1>2. Offsets(at) /\ k <= N
  BY Basics DEF UploadAt, NodeAt
<1>3. ASSUME NEW x \in 0..N, e = at[x + 1] PROVE x < N => e < at[x + 2]
  <2> SUFFICES ASSUME x < N PROVE e < at[x + 2]
    OBVIOUS
  <2>1. x + 1 \in 1..(N + 1) /\ x + 2 \in 1..(N + 1) /\ x + 1 < x + 2
    OBVIOUS
  <2>2. (\A n \in Nat : at[n] \in Nat)
        /\ \A m, n \in 1..(N + 1) : m < n => at[m] + 3 <= at[n]
    BY <1>2, OffsetsGrow
  <2>3. PICK a \in Nat, b \in Nat : a = at[x + 1] /\ b = at[x + 2]
    BY <2>2
  <2>4. a + 3 <= b
    BY <2>1, <2>2, <2>3
  <2> QED BY <1>3, <2>3, <2>4
\* Within the n-th frame, or at its end.
<1>4. ASSUME NEW n \in 1..N, at[n] <= e, e <= at[n + 1]
      PROVE  \E x \in 0..N : at[x + 1] <= e /\ (x < N => e < at[x + 2])
  <2>1. at[n] \in Nat /\ at[n + 1] \in Nat
    BY <1>2, OffsetsGrow
  <2>2. CASE e = at[n + 1]
    <3>1. n \in 0..N /\ at[n + 1] <= e
      BY <2>1, <2>2
    <3>2. n < N => e < at[n + 2]
      BY <1>3, <2>2, <3>1
    <3> QED BY <3>1, <3>2
  <2>3. CASE e < at[n + 1]
    <3>1. n - 1 \in 0..N /\ (n - 1) + 1 = n /\ (n - 1) + 2 = n + 1
      OBVIOUS
    <3>2. at[(n - 1) + 1] <= e /\ e < at[(n - 1) + 2]
      BY <1>4, <2>3, <3>1
    <3> QED BY <3>1, <3>2
  <2> QED BY <1>4, <2>1, <2>2, <2>3
<1>5. \E x \in 0..N : at[x + 1] <= e /\ (x < N => e < at[x + 2])
  <2>1. CASE U = 0 /\ node.pc = "frame"
    <3>1. e = at[k + 1] /\ k \in 0..N /\ at[k + 1] <= e
      BY <1>1, <1>2, <2>1 DEF UploadAt, NodeAt
    <3> QED BY <1>3, <3>1
  <2>2. CASE U = 0 /\ node.pc = "storing"
    <3>1. k \in 1..N /\ e = at[k] + 3 + Len(kept[node.data]) /\ e <= at[k + 1]
      BY <1>1, <1>2, <2>2 DEF UploadAt, NodeAt
    <3>2. at[k] \in Nat /\ Len(kept[node.data]) \in Nat
      BY <1>2, Basics, OffsetsGrow
    <3>3. at[k] <= e
      BY <3>1, <3>2
    <3> QED BY <1>4, <3>1, <3>3
  <2>3. CASE U > 0
    <3>1. PICK n \in 1..N : \E j \in 1..(3 + Size[accepted[n]]) : pos + U = at[n] + j
      <4>1. U \in 1..Len(up)
        BY <1>1, <2>3
      <4> QED BY <4>1 DEF UploadAt, InPlace
    <3>2. PICK j \in 1..(3 + Size[accepted[n]]) : e = at[n] + j
      BY <1>1, <3>1
    <3>3. /\ at[n] \in Nat /\ at[n + 1] = at[n] + 3 + Size[accepted[n]]
          /\ Size[accepted[n]] \in Nat
      <4>1. /\ \A q \in Nat : at[q] \in Nat
            /\ \A q \in 1..N : Size[accepted[q]] \in Nat
                              /\ at[q + 1] = at[q] + 3 + Size[accepted[q]]
        BY <1>2, OffsetsGrow
      <4> QED BY <4>1
    <3>4. PICK a \in Nat, z \in Nat : a = at[n] /\ z = Size[accepted[n]]
      BY <3>3
    <3>5. e = a + j /\ j \in 1..(3 + z) /\ at[n + 1] = a + 3 + z
      BY <3>2, <3>3, <3>4
    <3>6. a <= e /\ e <= a + 3 + z
      BY <3>5
    <3> QED BY <1>4, <3>4, <3>5, <3>6
  <2> QED BY <2>1, <2>2, <2>3, Basics
<1>6. PICK x \in 0..N : at[x + 1] <= e /\ (x < N => e < at[x + 2])
  BY <1>5
<1>7. \A i \in 1..N : at[i + 1] <= e <=> i <= x
  BY <1>2, <1>6, PlaceFacts
<1> QED BY <1>1, <1>7

EndOf(d) == Frame(d)[3 + Size[d]]

LEMMA ArrivingIs ==
    ASSUME TypesInv, NEW d \in Data
    PROVE  Arriving(d) <=> \/ \E p \in 1..Len(up) : up[p] = EndOf(d)
                           \/ Size[d] = 0 /\ node.pc = "storing" /\ node.data = d
<1>1. \A x : x \in ToSet(up) <=> \E p \in 1..Len(up) : up[p] = x
  BY Basics, LenProperties DEF ToSet
<1>2. Size[d] \in Nat /\ Header(d)[Len(Header(d))] = <<"meta", d>>
  BY FrameFacts
<1>3. CASE Size[d] = 0
  <2>1. EndOf(d) = <<"meta", d>>
    BY <1>3, FrameFacts DEF EndOf
  <2> QED BY <1>1, <1>2, <1>3, <2>1 DEF Arriving, Last
<1>4. CASE Size[d] # 0
  <2>1. Size[d] \in 1..Size[d]
    BY <1>2, <1>4
  <2>2. EndOf(d) = <<"chunk", d, Size[d]>> /\ Chunks(d)[Len(Chunks(d))] = EndOf(d)
    BY <2>1, FrameFacts DEF EndOf
  <2> QED BY <1>1, <1>4, <2>2 DEF Arriving, Last
<1> QED BY <1>3, <1>4

\* The last part of a frame is on its way just when its place is.
LEMMA EndOnItsWay ==
    ASSUME TypesInv, PushedOnce, NEW at, NEW pos \in Nat, NEW k \in Nat,
           UploadAt(at, pos, k), NEW i \in 1..Len(accepted)
    PROVE  (\E p \in 1..Len(up) : up[p] = EndOf(accepted[i]))
              <=> pos < at[i + 1] /\ at[i + 1] <= pos + Len(up)
<1>1. PICK N \in Nat, U \in Nat : N = Len(accepted) /\ U = Len(up)
  BY Basics
<1>2. PICK x \in 1..N, d \in Data : x = i /\ d = accepted[i]
  BY <1>1, Basics
<1>3. /\ Offsets(at) /\ Size[d] \in Nat /\ at[x] \in Nat /\ at[x + 1] \in Nat
      /\ at[x + 1] = at[x] + 3 + Size[d]
  <2>1. Offsets(at)
    BY DEF UploadAt
  <2>2. /\ \A q \in Nat : at[q] \in Nat
        /\ \A q \in 1..N : Size[accepted[q]] \in Nat
                          /\ at[q + 1] = at[q] + 3 + Size[accepted[q]]
    BY <1>1, <2>1, OffsetsGrow
  <2>3. x \in Nat /\ x + 1 \in Nat
    OBVIOUS
  <2> QED BY <1>2, <2>1, <2>2, <2>3
<1>4. ASSUME NEW p \in 1..U
      PROVE  \E n \in 1..N : \E j \in 1..(3 + Size[accepted[n]]) :
                pos + p = at[n] + j /\ up[p] = Frame(accepted[n])[j]
  BY <1>1 DEF UploadAt, InPlace
<1>5. PICK l \in 1..(3 + Size[d]) : l = 3 + Size[d]
  BY <1>3
<1>a. PICK a \in Nat, b \in Nat : a = at[x] /\ b = at[x + 1]
  BY <1>3
<1>b. b = a + l
  <2>1. PICK z \in Nat : z = Size[d]
    BY <1>3
  <2>2. b = a + 3 + z /\ l = 3 + z
    BY <1>3, <1>5, <1>a, <2>1
  <2> QED BY <2>2
<1>6. ASSUME NEW p \in 1..U, up[p] = EndOf(d)
      PROVE  pos < at[x + 1] /\ at[x + 1] <= pos + U
  <2>1. PICK n \in 1..N : \E j \in 1..(3 + Size[accepted[n]]) :
                pos + p = at[n] + j /\ up[p] = Frame(accepted[n])[j]
    BY <1>4
  <2>2. PICK j \in 1..(3 + Size[accepted[n]]) :
                pos + p = at[n] + j /\ up[p] = Frame(accepted[n])[j]
    BY <2>1
  <2>3. accepted[n] \in Data /\ Frame(accepted[n])[j] = Frame(d)[l]
    BY <1>1, <1>5, <1>6, <2>2, Basics DEF EndOf
  <2>4. accepted[n] = d /\ j = l
    BY <2>3, PartsDiffer
  <2>5. n = x
    BY <1>1, <1>2, <2>4 DEF PushedOnce
  <2>6. pos + p = at[x + 1]
    BY <1>a, <1>b, <2>2, <2>4, <2>5
  <2>7. pos + p = b
    BY <1>a, <2>6
  <2>8. pos < b /\ b <= pos + U
    BY <2>7
  <2> QED BY <1>a, <2>8
<1>7. ASSUME pos < at[x + 1], at[x + 1] <= pos + U
      PROVE  \E p \in 1..U : up[p] = EndOf(d)
  <2>1. PICK p \in 1..U : pos + p = at[x + 1]
    <3>1. b - pos \in 1..U /\ pos + (b - pos) = b
      BY <1>7, <1>a
    <3> QED BY <1>a, <3>1
  <2>2. PICK n \in 1..N : \E j \in 1..(3 + Size[accepted[n]]) :
                pos + p = at[n] + j /\ up[p] = Frame(accepted[n])[j]
    BY <1>4
  <2>3. PICK j \in 1..(3 + Size[accepted[n]]) :
                pos + p = at[n] + j /\ up[p] = Frame(accepted[n])[j]
    BY <2>2
  <2>4. n \in 1..Len(accepted) /\ x \in 1..Len(accepted) /\ l \in 1..(3 + Size[accepted[x]])
        /\ at[x] + l = at[n] + j
    <3>1. a + l = at[n] + j
      BY <1>a, <1>b, <2>1, <2>3
    <3> QED BY <1>1, <1>2, <1>a, <3>1
  <2>5. n = x /\ j = l
    <3>1. PICK q \in 1..(3 + Size[accepted[x]]) : q = l
      BY <2>4
    <3>2. n \in 1..Len(accepted) /\ x \in 1..Len(accepted) /\ at[x] + q = at[n] + j
      BY <2>4, <3>1
    <3>3. x = n /\ q = j
      BY <1>3, <3>2, Located, SMTT(60)
    <3> QED BY <3>1, <3>3
  <2> QED BY <1>2, <1>5, <2>3, <2>5 DEF EndOf
<1> QED BY <1>1, <1>2, <1>6, <1>7

\* How many data are stored: those the node is through with.
LEMMA StoredFacts ==
    ASSUME TypesInv, PushedOnce, NEW at, NEW pos \in Nat, NEW k \in Nat,
           UploadAt(at, pos, k), NEW n \in Nat,
           n = IF k > 0 /\ ~Whole(accepted[k]) THEN k - 1 ELSE k
    PROVE  n <= Len(accepted) /\ \A i \in 1..Len(accepted) : Whole(accepted[i]) <=> i <= n
<1>1. PICK N \in Nat : N = Len(accepted)
  BY Basics
<1>2. k <= N
  BY <1>1, Basics DEF UploadAt, NodeAt
<1>3. ASSUME NEW i \in 1..N PROVE Whole(accepted[i]) <=> i <= n
  <2>1. CASE i > k
    <3>1. accepted[i] \in Data
      BY <1>1, Basics
    <3>2. \A m \in 1..k : accepted[m] # accepted[i]
      <4> SUFFICES ASSUME NEW m \in 1..k, accepted[m] = accepted[i] PROVE FALSE
        OBVIOUS
      <4>1. m \in 1..N /\ m # i
        BY <1>2, <2>1
      <4> QED BY <1>1, <4>1 DEF PushedOnce
    <3>3. files[accepted[i]] = "none"
      BY <3>1, <3>2 DEF UploadAt, NodeAt
    <3> QED BY <2>1, <3>3 DEF Whole
  <2>2. CASE i < k
    <3>1. i \in 1..k
      BY <2>2
    <3>2. Whole(accepted[i])
      BY <2>2, <3>1 DEF UploadAt, NodeAt
    <3> QED BY <2>2, <3>2
  <2>3. CASE i = k
    BY <2>3
  <2> QED BY <2>1, <2>2, <2>3
<1> QED BY <1>1, <1>2, <1>3

\* Of the others those arrive whose frames end before the stream does.
LEMMA ArrivingFacts ==
    ASSUME TypesInv, PushedOnce, FilesInv, NEW at, NEW pos \in Nat, NEW k \in Nat,
           UploadAt(at, pos, k), NEW i \in 1..Len(accepted), ~Whole(accepted[i])
    PROVE  Arriving(accepted[i])
              <=> node.pc # "returned" /\ at[i + 1] <= pos + Len(up)
<1>1. PICK N \in Nat, U \in Nat : N = Len(accepted) /\ U = Len(up)
  BY Basics
<1>2. PICK x \in 1..N, d \in Data : x = i /\ d = accepted[i]
  BY <1>1, Basics
<1>3. PICK a \in Nat, b \in Nat, z \in Nat : a = at[x] /\ b = at[x + 1] /\ z = Size[d]
  <2>1. at[x] \in Nat /\ at[x + 1] \in Nat
    BY DEF UploadAt, Offsets
  <2>2. Size[d] \in Nat
    BY StreamsAssumption
  <2> QED BY <2>1, <2>2
<1>4. b = a + 3 + z
  BY <1>1, <1>2, <1>3 DEF UploadAt, Offsets
<1>5. (\E p \in 1..Len(up) : up[p] = EndOf(d)) <=> pos < b /\ b <= pos + U
  BY <1>1, <1>2, <1>3, EndOnItsWay
<1>6. CASE node.pc = "returned"
  <2>1. Len(up) = 0
    BY <1>6 DEF UploadAt, NodeAt
  <2>2. ~ \E p \in 1..Len(up) : up[p] = EndOf(d)
    BY <2>1
  <2> QED BY <1>2, <1>6, <2>2, ArrivingIs
<1>7. CASE node.pc # "returned" /\ pos < b
  <2>1. ASSUME z = 0, node.pc = "storing", node.data = d PROVE FALSE
    <3>1. /\ k \in 1..N /\ accepted[k] = d /\ pos = at[k] + 3 + Len(kept[d])
      BY <1>1, <2>1, Basics DEF UploadAt, NodeAt
    <3>2. k = x
      BY <1>1, <1>2, <3>1 DEF PushedOnce
    <3>3. Len(kept[d]) \in Nat
      BY Basics
    <3>4. pos = a + 3 + Len(kept[d])
      BY <1>3, <3>1, <3>2
    <3>5. b = a + 3
      BY <1>3, <1>4, <2>1
    <3>6. pos < b
      BY <1>7
    <3> QED BY <1>3, <3>3, <3>4, <3>5, <3>6
  <2>2. Arriving(d) <=> \E p \in 1..Len(up) : up[p] = EndOf(d)
    BY <1>3, <2>1, ArrivingIs
  <2> QED BY <1>1, <1>2, <1>3, <1>5, <1>7, <2>2
<1>8. CASE node.pc # "returned" /\ b <= pos
  <2>1. k \in 0..N /\ pos <= at[k + 1]
    BY <1>1, Basics DEF UploadAt, NodeAt
  <2>2. x <= k
    <3> SUFFICES ASSUME k < x PROVE FALSE
      OBVIOUS
    <3>1. k + 1 \in 1..(N + 1) /\ x \in 1..(N + 1) /\ k + 1 <= x
      BY <2>1
    <3>2. \A m, n \in 1..(N + 1) : m <= n => at[m] <= at[n]
      BY <1>1, OffsetsGrow DEF UploadAt
    <3>3. PICK c \in Nat : c = at[k + 1]
      BY DEF UploadAt, Offsets
    <3>4. c <= a /\ pos <= c
      BY <1>3, <2>1, <3>1, <3>2, <3>3
    <3> QED BY <1>4, <1>8, <3>4
  <2>3. x = k
    <3>1. x < k => Whole(accepted[x])
      BY <2>2 DEF UploadAt, NodeAt
    <3> QED BY <1>2, <2>1, <2>2, <3>1
  <2>4. node.pc = "storing" /\ node.data = d /\ pos = a + 3 + Len(kept[d])
    <3>1. node.pc # "frame"
      BY <1>2, <2>3 DEF UploadAt, NodeAt
    <3>2. node.pc = "storing"
      BY <1>8, <3>1, Basics
    <3> QED BY <1>2, <1>3, <2>3, <3>2 DEF UploadAt, NodeAt
  <2>5. Len(kept[d]) = z
    <3>1. Len(kept[d]) \in Nat /\ Len(kept[d]) <= z
      BY <1>3, Basics
    <3> QED BY <1>4, <1>8, <2>4, <3>1
  <2>6. z = 0
    <3>1. files[d] # "opened"
      BY <1>2, <1>3, <2>5, WholeFacts
    <3>2. kept[d] = <<>>
      BY <3>1 DEF FilesInv
    <3> QED BY <2>5, <3>2
  <2>7. Arriving(d)
    BY <1>3, <2>4, <2>6, ArrivingIs
  <2>8. b <= pos + U
    BY <1>8
  <2> QED BY <1>1, <1>2, <1>3, <1>8, <2>7, <2>8
<1> QED BY <1>6, <1>7, <1>8

\* The first n accepted data are stored; of the others, if not all come, those
\* up to the c-th do.
Viewed(n, c) ==
    /\ n <= c /\ c <= Len(accepted)
    /\ \A i \in 1..Len(accepted) : Whole(accepted[i]) <=> i <= n
    /\ writer.pc # "panicked" => c = Len(accepted)
    /\ writer.pc = "panicked" =>
          \A i \in (n + 1)..Len(accepted) : Arriving(accepted[i]) <=> i <= c

LEMMA ViewIs ==
    \A n \in Nat, c \in Nat :
        TypesInv /\ Viewed(n, c) => StoredCount = n /\ ComingCount = c
<1> SUFFICES ASSUME NEW n \in Nat, NEW c \in Nat, TypesInv, Viewed(n, c)
             PROVE  StoredCount = n /\ ComingCount = c
  OBVIOUS
<1>1. PICK N \in Nat : N = Len(accepted)
  BY Basics
<1>2. /\ n <= c /\ c <= N /\ \A i \in 1..N : Whole(accepted[i]) <=> i <= n
      /\ writer.pc # "panicked" => c = N
      /\ writer.pc = "panicked" =>
            \A i \in (n + 1)..N : Arriving(accepted[i]) <=> i <= c
  BY <1>1 DEF Viewed
<1>3. StoredCount = n
  <2> DEFINE P(m) == \A i \in 1..N : Whole(accepted[i]) <=> i <= m
  <2>1. n \in 0..N /\ P(n)
    BY <1>2
  <2>2. ASSUME NEW m \in 0..N, P(m) PROVE m = n
    <3>1. ~(m < n)
      <4> SUFFICES ASSUME m < n PROVE FALSE
        OBVIOUS
      <4>1. m + 1 \in 1..N /\ m + 1 <= n /\ ~(m + 1 <= m)
        BY <2>1
      <4> QED BY <1>2, <2>2, <4>1
    <3>2. ~(n < m)
      <4> SUFFICES ASSUME n < m PROVE FALSE
        OBVIOUS
      <4>1. n + 1 \in 1..N /\ n + 1 <= m /\ ~(n + 1 <= n)
        BY <2>1
      <4> QED BY <1>2, <2>2, <4>1
    <3> QED BY <2>1, <3>1, <3>2
  <2>3. StoredCount = CHOOSE m \in 0..N : P(m)
    BY <1>1 DEF StoredCount
  <2> HIDE DEF P
  <2> QED BY <2>1, <2>2, <2>3
<1>4. CASE writer.pc # "panicked"
  BY <1>1, <1>2, <1>3, <1>4 DEF ComingCount
<1>5. CASE writer.pc = "panicked"
  <2> DEFINE P(m) == \A i \in (n + 1)..N : Arriving(accepted[i]) <=> i <= m
  <2>1. c \in n..N /\ P(c)
    BY <1>2, <1>5
  <2>2. ASSUME NEW m \in n..N, P(m) PROVE m = c
    <3>1. ~(m < c)
      <4> SUFFICES ASSUME m < c PROVE FALSE
        OBVIOUS
      <4>1. m + 1 \in (n + 1)..N /\ m + 1 <= c /\ ~(m + 1 <= m)
        BY <2>1
      <4> QED BY <2>1, <2>2, <4>1
    <3>2. ~(c < m)
      <4> SUFFICES ASSUME c < m PROVE FALSE
        OBVIOUS
      <4>1. c + 1 \in (n + 1)..N /\ c + 1 <= m /\ ~(c + 1 <= c)
        BY <2>1
      <4> QED BY <2>1, <2>2, <4>1
    <3> QED BY <2>1, <3>1, <3>2
  <2>3. ComingCount = CHOOSE m \in n..N : P(m)
    BY <1>1, <1>3, <1>5 DEF ComingCount
  <2> HIDE DEF P
  <2> QED BY <1>3, <2>1, <2>2, <2>3
<1> QED BY <1>3, <1>4, <1>5

LEMMA ViewExists == UploadInv => \E n \in Nat, c \in Nat : Viewed(n, c)
<1> SUFFICES ASSUME UploadInv PROVE \E n \in Nat, c \in Nat : Viewed(n, c)
  OBVIOUS
<1>1. TypesInv /\ PushedOnce /\ FilesInv
  BY DEF UploadInv
<1>2. PICK at : \E pos \in Nat, k \in Nat : UploadAt(at, pos, k)
  BY DEF UploadInv
<1>3. PICK pos \in Nat, k \in Nat : UploadAt(at, pos, k)
  BY <1>2
<1>4. PICK N \in Nat : N = Len(accepted)
  BY <1>1, Basics
<1>5. PICK n \in Nat : n = IF k > 0 /\ ~Whole(accepted[k]) THEN k - 1 ELSE k
  OBVIOUS
<1>6. n <= N /\ \A i \in 1..N : Whole(accepted[i]) <=> i <= n
  BY <1>1, <1>3, <1>4, <1>5, StoredFacts
<1>7. CASE writer.pc # "panicked"
  BY <1>4, <1>6, <1>7 DEF Viewed
<1>8. CASE writer.pc = "panicked" /\ node.pc = "returned"
  <2>1. ASSUME NEW i \in (n + 1)..N PROVE ~Arriving(accepted[i])
    <3>1. i \in 1..N /\ ~(i <= n)
      BY <1>6
    <3>2. i \in 1..Len(accepted) /\ ~Whole(accepted[i])
      BY <1>4, <1>6, <3>1
    <3> QED BY <1>1, <1>3, <1>8, <3>2, ArrivingFacts
  <2>2. \A i \in (n + 1)..N : ~(i <= n)
    OBVIOUS
  <2> QED BY <1>4, <1>6, <1>8, <2>1, <2>2 DEF Viewed
<1>9. CASE writer.pc = "panicked" /\ node.pc # "returned"
  <2>1. PICK h \in 0..N : \A i \in 1..N : at[i + 1] <= pos + Len(up) <=> i <= h
    BY <1>1, <1>3, <1>4, <1>9, ReachFacts
  <2>2. PICK c \in Nat : c = IF h < n THEN n ELSE h
    OBVIOUS
  <2>3. ASSUME NEW i \in (n + 1)..N PROVE Arriving(accepted[i]) <=> i <= c
    <3>1. i \in 1..N /\ ~(i <= n)
      BY <1>6
    <3>2. i \in 1..Len(accepted) /\ ~Whole(accepted[i])
      BY <1>4, <1>6, <3>1
    <3>3. Arriving(accepted[i]) <=> at[i + 1] <= pos + Len(up)
      BY <1>1, <1>3, <1>9, <3>2, ArrivingFacts
    <3>4. i <= h <=> i <= c
      BY <2>2, <3>1
    <3> QED BY <2>1, <3>1, <3>3, <3>4
  <2>4. n <= c /\ c <= N
    BY <1>6, <2>2
  <2> QED BY <1>4, <1>6, <1>9, <2>3, <2>4 DEF Viewed
<1> QED BY <1>7, <1>8, <1>9

LEMMA OutstandingIs ==
    \A n \in Nat, c \in Nat :
        TypesInv /\ Viewed(n, c) =>
            /\ Outstanding = SubSeq(accepted, n + 1, c)
            /\ accepted \in Seq(Data) /\ n <= c /\ c <= Len(accepted)
BY ViewIs, Basics DEF Outstanding, Viewed

\* The same of the state a step leads to.
LEMMA OutstandingIsNext ==
    \A n \in Nat, c \in Nat :
        TypesInv' /\ Viewed(n, c)' =>
            /\ Outstanding' = SubSeq(accepted', n + 1, c)
            /\ accepted' \in Seq(Data) /\ n <= c /\ c <= Len(accepted')
<1>1. (\A n \in Nat, c \in Nat :
          TypesInv /\ Viewed(n, c) =>
            /\ Outstanding = SubSeq(accepted, n + 1, c)
            /\ accepted \in Seq(Data) /\ n <= c /\ c <= Len(accepted))'
  BY OutstandingIs, PTL
<1> QED BY <1>1

LEMMA ViewExistsNext == UploadInv' => \E n \in Nat, c \in Nat : Viewed(n, c)'
<1>1. (UploadInv => \E n \in Nat, c \in Nat : Viewed(n, c))'
  BY ViewExists, PTL
<1> QED BY <1>1

-----------------------------------------------------------------------------
(* What an upload shows of Transfer                                        *)

AnsweredOf(s) == [i \in 1..(Len(s) \div 3) |-> s[3 * i][2]]

LEMMA ThirdFacts ==
    \A n \in Nat : /\ n \div 3 \in Nat /\ 3 * (n \div 3) <= n /\ n < 3 * (n \div 3) + 3
                   /\ (n + 3) \div 3 = (n \div 3) + 1
OBVIOUS

LEMMA PartIsOf == \A p \in Parts : p[2] \in Data
<1> SUFFICES ASSUME NEW p \in Parts PROVE p[2] \in Data
  OBVIOUS
<1>1. PICK d \in Data : p \in ToSet(Frame(d))
  BY DEF Parts
<1>2. PICK i \in 1..(3 + Size[d]) : p = Frame(d)[i]
  <2>1. Frame(d) \in Seq(Parts) /\ Len(Frame(d)) = 3 + Size[d]
    BY FrameFacts
  <2>2. DOMAIN Frame(d) = 1..(3 + Size[d])
    BY <2>1, LenProperties
  <2> QED BY <1>1, <2>2 DEF ToSet
<1>3. Size[d] \in Nat
  BY FrameFacts
<1>4. CASE i > 3
  <2>1. i - 3 \in 1..Size[d] /\ 3 + (i - 3) = i
    BY <1>3, <1>4
  <2>2. p = <<"chunk", d, i - 3>>
    BY <1>2, <2>1, FrameFacts
  <2> QED BY <2>2
<1>5. CASE i = 1 \/ i = 2 \/ i = 3
  BY <1>2, <1>5, FrameFacts
<1> QED BY <1>3, <1>4, <1>5

LEMMA AnsweredTypes ==
    ASSUME NEW s \in Seq(Parts)
    PROVE  /\ AnsweredOf(s) \in Seq(Data) /\ Len(AnsweredOf(s)) = Len(s) \div 3
           /\ \A i \in 1..(Len(s) \div 3) : AnsweredOf(s)[i] = s[3 * i][2]
           /\ \A i \in 1..(Len(s) \div 3) : 3 * i \in 1..Len(s)
<1>1. PICK L \in Nat, m \in Nat : L = Len(s) /\ m = L \div 3 /\ 3 * m <= L
  <2>1. Len(s) \in Nat
    BY LenProperties
  <2> QED BY <2>1, ThirdFacts
<1>2. ASSUME NEW i \in 1..m PROVE 3 * i \in 1..L /\ s[3 * i][2] \in Data
  <2>1. 3 * i \in 1..L
    BY <1>1
  <2>2. s[3 * i] \in Parts
    BY <1>1, <2>1, ElementOfSeq
  <2> QED BY <2>1, <2>2, PartIsOf
<1>3. AnsweredOf(s) = [i \in 1..m |-> s[3 * i][2]]
  BY <1>1 DEF AnsweredOf
<1>4. [i \in 1..m |-> s[3 * i][2]] \in Seq(Data)
      /\ Len([i \in 1..m |-> s[3 * i][2]]) = m
  BY <1>2
<1> QED BY <1>1, <1>2, <1>3, <1>4

\* The first answer, and the others.
LEMMA AnsweredFirst ==
    ASSUME NEW s \in Seq(Parts), NEW d \in Data, Starts(s, d),
           NEW r, r = SubSeq(s, 4, Len(s))
    PROVE  r \in Seq(Parts) /\ AnsweredOf(s) = <<d>> \o AnsweredOf(r)
<1>1. PICK L \in Nat, m \in Nat : L = Len(s) /\ m = L \div 3
  <2>1. Len(s) \in Nat
    BY LenProperties
  <2> QED BY <2>1, ThirdFacts
<1>2. L >= 3 /\ s[3] = <<"meta", d>>
  BY <1>1, StartsFacts
<1>3. r \in Seq(Parts) /\ Len(r) = L - 3 /\ \A i \in 1..(L - 3) : r[i] = s[3 + i]
  <2>1. 3 \in 0..Len(s) /\ r = SubSeq(s, 3 + 1, Len(s))
    BY <1>1, <1>2
  <2>2. ASSUME NEW q \in 0..Len(s), NEW u, u = SubSeq(s, q + 1, Len(s))
        PROVE  /\ u \in Seq(Parts) /\ Len(u) = Len(s) - q
               /\ \A i \in 1..Len(u) : u[i] = s[q + i]
    BY <2>2, CutFacts
  <2>3. /\ r \in Seq(Parts) /\ Len(r) = Len(s) - 3
        /\ \A i \in 1..Len(r) : r[i] = s[3 + i]
    BY <2>1, <2>2
  <2> QED BY <1>1, <2>3
<1>4. Len(r) \div 3 = m - 1 /\ m >= 1
  <2>1. PICK q \in Nat : q = L - 3
    <3>1. L - 3 \in Nat
      BY <1>2
    <3> QED BY <3>1
  <2>2. q \in Nat /\ q + 3 = L /\ Len(r) = q
    BY <1>2, <1>3, <2>1
  <2>3. (q + 3) \div 3 = (q \div 3) + 1 /\ q \div 3 \in Nat
    BY <2>2, ThirdFacts
  <2>4. m = (q \div 3) + 1
    BY <1>1, <2>2, <2>3
  <2>5. q \div 3 = m - 1 /\ m >= 1
    <3>1. PICK x \in Nat : x = q \div 3
      BY <2>3
    <3> QED BY <2>4, <3>1
  <2>6. Len(r) \div 3 = q \div 3
    BY <2>2
  <2> QED BY <2>5, <2>6
<1> DEFINE a == AnsweredOf(s)
           b == AnsweredOf(r)
<1>5. /\ a \in Seq(Data) /\ Len(a) = m /\ \A i \in 1..m : a[i] = s[3 * i][2]
  BY <1>1, AnsweredTypes
<1>6. /\ b \in Seq(Data) /\ Len(b) = m - 1 /\ \A i \in 1..(m - 1) : b[i] = r[3 * i][2]
      /\ \A i \in 1..(m - 1) : 3 * i \in 1..(L - 3)
  BY <1>3, <1>4, AnsweredTypes
<1> HIDE DEF a, b
<1> DEFINE c == <<d>> \o b
<1>7. /\ c \in Seq(Data) /\ Len(c) = m /\ c[1] = d /\ \A i \in 1..(m - 1) : c[1 + i] = b[i]
  <2>1. <<d>> \in Seq(Data) /\ Len(<<d>>) = 1 /\ <<d>>[1] = d
    OBVIOUS
  <2>2. /\ c \in Seq(Data) /\ Len(c) = Len(<<d>>) + Len(b)
        /\ \A i \in 1..Len(<<d>>) : c[i] = <<d>>[i]
        /\ \A i \in 1..Len(b) : c[Len(<<d>>) + i] = b[i]
    BY <1>6, <2>1, ConcatFacts
  <2> QED BY <1>4, <1>6, <2>1, <2>2
<1> HIDE DEF c
<1>8. ASSUME NEW i \in 1..m PROVE a[i] = c[i]
  <2>1. CASE i = 1
    BY <1>2, <1>5, <1>7, <2>1
  <2>2. CASE i > 1
    <3>1. i - 1 \in 1..(m - 1) /\ 1 + (i - 1) = i /\ 3 * i = 3 + 3 * (i - 1)
      BY <2>2
    <3>2. c[i] = b[i - 1] /\ b[i - 1] = r[3 * (i - 1)][2]
      BY <1>6, <1>7, <3>1
    <3>3. r[3 * (i - 1)] = s[3 * i]
      BY <1>3, <1>6, <3>1
    <3> QED BY <1>5, <3>2, <3>3
  <2> QED BY <2>1, <2>2
<1>9. a = c
  BY <1>5, <1>7, <1>8, SeqEqual
<1> QED BY <1>3, <1>9 DEF a, b, c

LEMMA PartsConcat ==
    ASSUME NEW x \in Seq(Parts), NEW y \in Seq(Parts), NEW u, u = x \o y
    PROVE  /\ u \in Seq(Parts) /\ Len(u) = Len(x) + Len(y)
           /\ \A i \in 1..Len(x) : u[i] = x[i]
           /\ \A i \in 1..Len(y) : u[Len(x) + i] = y[i]
BY ConcatFacts

\* An answer is added.
LEMMA AnsweredMore ==
    ASSUME NEW s \in Seq(Parts), NEW d \in Data, NEW m \in Nat, Len(s) = 3 * m,
           NEW t, t = s \o Header(d)
    PROVE  t \in Seq(Parts) /\ AnsweredOf(t) = Append(AnsweredOf(s), d)
<1>1. /\ t \in Seq(Parts) /\ Len(t) = 3 * m + 3
      /\ \A i \in 1..(3 * m) : t[i] = s[i]
      /\ t[3 * m + 3] = <<"meta", d>>
  <2>1. PICK h \in Seq(Parts) : Len(h) = 3 /\ h[3] = <<"meta", d>> /\ t = s \o h
    BY FrameFacts
  <2>2. Len(h) = 3 /\ h[3] = <<"meta", d>> /\ t = s \o h
    BY <2>1
  <2>3. ASSUME NEW x \in Seq(Parts), NEW y \in Seq(Parts)
        PROVE  /\ x \o y \in Seq(Parts) /\ Len(x \o y) = Len(x) + Len(y)
               /\ \A i \in 1..Len(x) : (x \o y)[i] = x[i]
               /\ \A i \in 1..Len(y) : (x \o y)[Len(x) + i] = y[i]
    BY PartsConcat
  <2>4. /\ t \in Seq(Parts) /\ Len(t) = Len(s) + Len(h)
        /\ \A i \in 1..Len(s) : t[i] = s[i]
        /\ \A i \in 1..Len(h) : t[Len(s) + i] = h[i]
    <3>1. /\ s \o h \in Seq(Parts) /\ Len(s \o h) = Len(s) + Len(h)
          /\ \A i \in 1..Len(s) : (s \o h)[i] = s[i]
          /\ \A i \in 1..Len(h) : (s \o h)[Len(s) + i] = h[i]
      BY <2>3, Zenon
    <3> QED BY <2>2, <3>1, Zenon
  <2> QED BY <2>2, <2>4
<1>2. (3 * m) \div 3 = m /\ (3 * m + 3) \div 3 = m + 1
  OBVIOUS
<1> DEFINE a == AnsweredOf(t)
           b == AnsweredOf(s)
           c == Append(b, d)
<1>3. a \in Seq(Data) /\ Len(a) = m + 1 /\ \A i \in 1..(m + 1) : a[i] = t[3 * i][2]
  <2>1. t \in Seq(Parts) /\ Len(t) \div 3 = m + 1
    BY <1>1, <1>2
  <2>2. /\ a \in Seq(Data) /\ Len(a) = Len(t) \div 3
        /\ \A i \in 1..(Len(t) \div 3) : a[i] = t[3 * i][2]
    BY <2>1, AnsweredTypes, Zenon
  <2> QED BY <2>1, <2>2, Zenon
<1>4. /\ b \in Seq(Data) /\ Len(b) = m /\ \A i \in 1..m : b[i] = s[3 * i][2]
      /\ \A i \in 1..m : 3 * i \in 1..(3 * m)
  BY <1>2, AnsweredTypes
<1> HIDE DEF a, b
<1>5. c \in Seq(Data) /\ Len(c) = m + 1 /\ c[m + 1] = d /\ \A i \in 1..m : c[i] = b[i]
  BY <1>4, AppendProperties
<1> HIDE DEF c
<1>6. ASSUME NEW i \in 1..(m + 1) PROVE a[i] = c[i]
  <2>1. CASE i = m + 1
    <3>1. 3 * i = 3 * m + 3
      BY <2>1
    <3>2. a[i] = t[3 * m + 3][2]
      BY <1>3, <3>1
    <3> QED BY <1>1, <1>5, <2>1, <3>2
  <2>2. CASE i \in 1..m
    <3>1. a[i] = t[3 * i][2]
      BY <1>3
    <3>2. t[3 * i] = s[3 * i]
      BY <1>1, <1>4, <2>2
    <3> QED BY <1>4, <1>5, <2>2, <3>1, <3>2
  <2> QED BY <2>1, <2>2
<1>7. a = c
  BY <1>3, <1>5, <1>6, SeqEqual
<1> QED BY <1>1, <1>7 DEF a, b, c

\* Of a stream that breaks there are the first answers.
LEMMA AnsweredFewer ==
    ASSUME NEW s \in Seq(Parts), NEW t \in Shortened(s)
    PROVE  /\ t \in Seq(Parts)
           /\ \E n \in 0..Len(AnsweredOf(s)) : AnsweredOf(t) = SubSeq(AnsweredOf(s), 1, n)
<1>1. PICK L \in Nat, K \in Nat : L = Len(s) /\ K = Len(t) /\ K <= L
         /\ t \in Seq(Parts) /\ \A i \in 1..K : t[i] = s[i]
  <2>1. Len(s) \in Nat
    BY LenProperties
  <2> QED BY <2>1, ShortenedFacts
<1>2. PICK m \in Nat, n \in Nat : m = L \div 3 /\ n = K \div 3 /\ n <= m /\ 3 * n <= K
  <2>1. L \div 3 \in Nat /\ K \div 3 \in Nat /\ 3 * (K \div 3) <= K /\ L < 3 * (L \div 3) + 3
    BY ThirdFacts
  <2>2. K \div 3 <= L \div 3
    BY <1>1, <2>1
  <2> QED BY <2>1, <2>2
<1> DEFINE a == AnsweredOf(s)
           b == AnsweredOf(t)
           c == SubSeq(a, 1, n)
<1>3. a \in Seq(Data) /\ Len(a) = m /\ \A i \in 1..m : a[i] = s[3 * i][2]
  BY <1>1, <1>2, AnsweredTypes
<1>4. /\ b \in Seq(Data) /\ Len(b) = n /\ \A i \in 1..n : b[i] = t[3 * i][2]
      /\ \A i \in 1..n : 3 * i \in 1..K
  BY <1>1, <1>2, AnsweredTypes
<1> HIDE DEF a, b
<1>5. c \in Seq(Data) /\ Len(c) = n /\ \A i \in 1..n : c[i] = a[i]
  <2>1. n \in 0..Len(a)
    BY <1>2, <1>3
  <2> QED BY <1>3, <2>1, PrefixFacts
<1> HIDE DEF c
<1>6. ASSUME NEW i \in 1..n PROVE b[i] = c[i]
  <2>1. i \in 1..m /\ t[3 * i] = s[3 * i]
    BY <1>1, <1>2, <1>4
  <2> QED BY <1>3, <1>4, <1>5, <2>1
<1>7. b = c
  BY <1>4, <1>5, <1>6, SeqEqual
<1>8. n \in 0..m
  BY <1>2
<1> QED BY <1>1, <1>3, <1>7, <1>8 DEF a, b, c

\* A sequence that begins another one.
LEMMA BeginningIs ==
    ASSUME NEW x \in Seq(Data), NEW y \in Seq(Data), Len(x) <= Len(y),
           \A i \in 1..Len(x) : x[i] = y[i]
    PROVE  \E n \in 0..Len(y) : x = SubSeq(y, 1, n)
<1>1. PICK n \in Nat : n = Len(x)
  BY LenProperties
<1>2. n \in 0..Len(y)
  BY <1>1, LenProperties
<1> DEFINE u == SubSeq(y, 1, n)
<1>3. u \in Seq(Data) /\ Len(u) = n /\ \A i \in 1..n : u[i] = y[i]
  BY <1>2, PrefixFacts
<1> HIDE DEF u
<1>4. x = u
  BY <1>1, <1>3, SeqEqual
<1> QED BY <1>2, <1>4 DEF u

\* The elements from the (n+1)-st to the c-th.
LEMMA SliceFacts ==
    ASSUME NEW s \in Seq(Data), NEW n \in Nat, NEW c \in Nat, n <= c, c <= Len(s),
           NEW u, u = SubSeq(s, n + 1, c)
    PROVE  u \in Seq(Data) /\ Len(u) = c - n /\ \A i \in 1..(c - n) : u[i] = s[n + i]
<1>1. PICK N \in Nat : N = Len(s)
  BY LenProperties
<1>2. \A i \in (n + 1)..c : s[i] \in Data
  <2>1. \A i \in 1..N : s[i] \in Data
    BY <1>1, ElementOfSeq
  <2> QED BY <1>1, <2>1
<1>3. /\ u \in Seq(Data) /\ Len(u) = IF n + 1 <= c THEN c - (n + 1) + 1 ELSE 0
      /\ \A i \in 1..c - (n + 1) + 1 : u[i] = s[n + 1 + i - 1]
  BY <1>2, SubSeqProperties
<1>4. Len(u) = c - n
  BY <1>3
<1>5. ASSUME NEW i \in 1..(c - n) PROVE u[i] = s[n + i]
  <2>1. i \in 1..c - (n + 1) + 1 /\ n + 1 + i - 1 = n + i
    OBVIOUS
  <2> QED BY <1>3, <2>1
<1> QED BY <1>3, <1>4, <1>5

LEMMA SliceBegins ==
    ASSUME NEW s \in Seq(Data), NEW n \in Nat, NEW b \in Nat, NEW c \in Nat,
           n <= b, b <= c, c <= Len(s)
    PROVE  \E m \in 0..Len(SubSeq(s, n + 1, c)) :
              SubSeq(s, n + 1, b) = SubSeq(SubSeq(s, n + 1, c), 1, m)
<1> DEFINE x == SubSeq(s, n + 1, b)
           y == SubSeq(s, n + 1, c)
<1>1. b <= Len(s)
  BY LenProperties
<1>2. x \in Seq(Data) /\ Len(x) = b - n /\ \A i \in 1..(b - n) : x[i] = s[n + i]
  BY <1>1, SliceFacts
<1>3. y \in Seq(Data) /\ Len(y) = c - n /\ \A i \in 1..(c - n) : y[i] = s[n + i]
  BY SliceFacts
<1> HIDE DEF x, y
<1>4. Len(x) <= Len(y) /\ \A i \in 1..Len(x) : x[i] = y[i]
  BY <1>2, <1>3
<1>5. \E m \in 0..Len(y) : x = SubSeq(y, 1, m)
  BY <1>2, <1>3, <1>4, BeginningIs
<1> QED BY <1>5 DEF x, y

LEMMA SliceHeadTail ==
    ASSUME NEW s \in Seq(Data), NEW n \in Nat, NEW c \in Nat, n < c, c <= Len(s)
    PROVE  /\ SubSeq(s, n + 1, c) # <<>> /\ Head(SubSeq(s, n + 1, c)) = s[n + 1]
           /\ Tail(SubSeq(s, n + 1, c)) = SubSeq(s, (n + 1) + 1, c)
<1>1. n + 1 \in 1..Len(s) /\ c \in (n + 1)..Len(s)
  BY LenProperties
<1>2. Head(SubSeq(s, n + 1, c)) = s[n + 1]
      /\ Tail(SubSeq(s, n + 1, c)) = SubSeq(s, (n + 1) + 1, c)
  BY <1>1, HeadTailOfSubSeq
<1>3. Len(SubSeq(s, n + 1, c)) = c - n
  BY SliceFacts
<1>4. SubSeq(s, n + 1, c) # <<>>
  <2> SUFFICES ASSUME SubSeq(s, n + 1, c) = <<>> PROVE FALSE
    OBVIOUS
  <2>1. Len(SubSeq(s, n + 1, c)) = 0
    BY EmptySeq
  <2> QED BY <1>3, <2>1
<1> QED BY <1>2, <1>4

LEMMA SliceAppend ==
    ASSUME NEW s \in Seq(Data), NEW d \in Data, NEW n \in Nat, n <= Len(s)
    PROVE  SubSeq(Append(s, d), n + 1, Len(s) + 1) = Append(SubSeq(s, n + 1, Len(s)), d)
<1>1. PICK N \in Nat : N = Len(s)
  BY LenProperties
<1> DEFINE t == Append(s, d)
           x == SubSeq(t, n + 1, N + 1)
           v == SubSeq(s, n + 1, N)
           y == Append(v, d)
<1>2. t \in Seq(Data) /\ Len(t) = N + 1 /\ t[N + 1] = d /\ \A i \in 1..N : t[i] = s[i]
  BY <1>1, AppendProperties
<1> HIDE DEF t
<1>3. x \in Seq(Data) /\ Len(x) = N + 1 - n /\ \A i \in 1..(N + 1 - n) : x[i] = t[n + i]
  <2>1. n <= N + 1 /\ N + 1 <= Len(t) /\ N + 1 \in Nat
    BY <1>1, <1>2
  <2> QED BY <1>2, <2>1, SliceFacts
<1>4. v \in Seq(Data) /\ Len(v) = N - n /\ \A i \in 1..(N - n) : v[i] = s[n + i]
  BY <1>1, SliceFacts
<1> HIDE DEF x, v
<1>5. y \in Seq(Data) /\ Len(y) = N - n + 1 /\ y[N - n + 1] = d
      /\ \A i \in 1..(N - n) : y[i] = v[i]
  BY <1>4, AppendProperties
<1> HIDE DEF y
<1>6. ASSUME NEW i \in 1..(N + 1 - n) PROVE x[i] = y[i]
  <2>1. CASE i = N - n + 1
    <3>1. n + i = N + 1
      BY <1>1, <2>1
    <3> QED BY <1>2, <1>3, <1>5, <2>1, <3>1
  <2>2. CASE i \in 1..(N - n)
    <3>1. n + i \in 1..N
      BY <1>1, <2>2
    <3> QED BY <1>2, <1>3, <1>4, <1>5, <2>2, <3>1
  <2>3. i = N - n + 1 \/ i \in 1..(N - n)
    BY <1>1
  <2> QED BY <2>1, <2>2, <2>3
<1>7. x = y
  <2>1. Len(x) = Len(y)
    BY <1>1, <1>3, <1>5
  <2> QED BY <1>3, <1>5, <1>6, <2>1, SeqEqual
<1> QED BY <1>1, <1>7 DEF x, y, v, t

-----------------------------------------------------------------------------
(* What the steps do to the view                                           *)

Writing   == writer.pc # "panicked"
Connected == linked /\ reading
Stored    == {d \in Data : Whole(d)}
Coming    == IF reading THEN responses \o Answered \o ToAnswer ELSE responses

\* Nothing is pushed, stored or given up.
Quiet ==
    /\ UNCHANGED <<accepted, Writing>>
    /\ \A d \in Data : Whole(d)' <=> Whole(d)
    /\ writer.pc = "panicked" =>
          \A d \in Data : ~Whole(d) => (Arriving(d)' <=> Arriving(d))

LEMMA QuietView ==
    ASSUME TypesInv, Quiet, NEW n \in Nat, NEW c \in Nat, Viewed(n, c)
    PROVE  Viewed(n, c)'
<1>1. PICK N \in Nat : N = Len(accepted)
  BY Basics
<1>2. \A i \in 1..N : accepted[i] \in Data
  BY <1>1, Basics
<1>3. /\ accepted' = accepted /\ (writer'.pc = "panicked" <=> writer.pc = "panicked")
      /\ \A d \in Data : Whole(d)' <=> Whole(d)
  BY DEF Quiet, Writing
<1>4. n <= c /\ c <= N
  BY <1>1 DEF Viewed
<1>5. \A i \in 1..N : Whole(accepted[i])' <=> i <= n
  BY <1>1, <1>2, <1>3 DEF Viewed
<1>6. ASSUME writer'.pc = "panicked", NEW i \in (n + 1)..N
      PROVE  Arriving(accepted[i])' <=> i <= c
  <2>1. i \in 1..N /\ ~(i <= n)
    OBVIOUS
  <2>2. accepted[i] \in Data /\ ~Whole(accepted[i])
    BY <1>1, <1>2, <2>1 DEF Viewed
  <2>3. Arriving(accepted[i])' <=> Arriving(accepted[i])
    BY <1>3, <1>6, <2>2 DEF Quiet
  <2> QED BY <1>1, <1>3, <1>6, <2>3 DEF Viewed
<1> QED BY <1>1, <1>3, <1>4, <1>5, <1>6 DEF Viewed

LEMMA QuietStep ==
    ASSUME UploadInv, UploadInv', Quiet
    PROVE  UNCHANGED <<Outstanding, Writing, Stored>>
<1>1. TypesInv /\ TypesInv'
  BY DEF UploadInv
<1>2. PICK n \in Nat, c \in Nat : Viewed(n, c)
  BY ViewExists
<1>3. Viewed(n, c)'
  BY <1>1, <1>2, QuietView
<1>4. Outstanding = SubSeq(accepted, n + 1, c)
  BY <1>1, <1>2, OutstandingIs
<1>5. Outstanding' = SubSeq(accepted', n + 1, c)
  BY <1>1, <1>3, OutstandingIsNext
<1>6. accepted' = accepted /\ Writing' = Writing
  BY DEF Quiet
<1>7. Stored' = Stored
  BY DEF Quiet, Stored
<1> QED BY <1>4, <1>5, <1>6, <1>7

\* A push adds its data at the end.
LEMMA PushStep ==
    ASSUME UploadInv, UploadInv', NEW d \in Data, Push(d)
    PROVE  /\ Writing /\ Outstanding' = Append(Outstanding, d)
           /\ UNCHANGED <<Writing, Stored>>
<1>1. TypesInv /\ TypesInv' /\ PushedOnce
  BY DEF UploadInv
<1>2. PICK N \in Nat : N = Len(accepted)
  BY <1>1, Basics
<1>3. writer.pc # "panicked" /\ writer' = writer /\ accepted' = Append(accepted, d)
      /\ UNCHANGED <<files, kept>> /\ d \notin ToSet(accepted)
  BY DEF Push, diskVars
<1>4. accepted \in Seq(Data) /\ accepted' \in Seq(Data) /\ Len(accepted') = N + 1
      /\ accepted'[N + 1] = d /\ \A i \in 1..N : accepted'[i] = accepted[i]
  <2>1. accepted \in Seq(Data)
    BY <1>1, Basics
  <2> QED BY <1>2, <1>3, <2>1, AppendProperties
<1>5. PICK n \in Nat, c \in Nat : Viewed(n, c)
  BY ViewExists
<1>6. n <= N /\ c = N /\ \A i \in 1..N : Whole(accepted[i]) <=> i <= n
  BY <1>2, <1>3, <1>5 DEF Viewed
<1>7. ~Whole(d)
  <2>1. PICK at : \E pos \in Nat, k \in Nat : UploadAt(at, pos, k)
    BY DEF UploadInv
  <2>2. PICK pos \in Nat, k \in Nat : UploadAt(at, pos, k)
    BY <2>1
  <2>3. k <= N
    BY <1>1, <1>2, <2>2, Basics DEF UploadAt, NodeAt
  <2>4. \A i \in 1..k : accepted[i] # d
    <3>1. \A i \in 1..N : accepted[i] # d
      BY <1>2, <1>3, <1>4, LenProperties DEF ToSet
    <3> QED BY <2>3, <3>1
  <2>5. files[d] = "none"
    BY <2>2, <2>4 DEF UploadAt, NodeAt
  <2> QED BY <2>5 DEF Whole
<1>8. ASSUME NEW i \in 1..(N + 1) PROVE Whole(accepted'[i]) <=> i <= n
  <2>1. CASE i = N + 1
    BY <1>4, <1>6, <1>7, <2>1
  <2>2. CASE i \in 1..N
    BY <1>4, <1>6, <2>2
  <2> QED BY <2>1, <2>2
<1>9. Viewed(n, N + 1)'
  <2>1. \A i \in 1..Len(accepted') : Whole(accepted[i])' <=> i <= n
    BY <1>3, <1>4, <1>8 DEF Whole
  <2>2. n <= N + 1 /\ N + 1 <= Len(accepted') /\ N + 1 = Len(accepted')
    BY <1>4, <1>6
  <2> QED BY <1>3, <2>1, <2>2 DEF Viewed
<1>10. Outstanding = SubSeq(accepted, n + 1, N)
  BY <1>1, <1>5, <1>6, OutstandingIs
<1>11. Outstanding' = SubSeq(accepted', n + 1, N + 1)
  <2>1. N + 1 \in Nat
    OBVIOUS
  <2> QED BY <1>1, <1>9, <2>1, OutstandingIsNext
<1>12. Outstanding' = Append(Outstanding, d)
  <2>1. SubSeq(Append(accepted, d), n + 1, N + 1) = Append(SubSeq(accepted, n + 1, N), d)
    BY <1>2, <1>4, <1>6, SliceAppend
  <2> QED BY <1>3, <1>10, <1>11, <2>1
<1> QED BY <1>3, <1>12 DEF Writing, Stored, Whole

\* What cannot come any more is given up.
LEMMA GiveUpView ==
    ASSUME UploadInv, UploadInv', UNCHANGED <<accepted, files, kept>>,
           NEW n \in Nat, NEW b \in Nat, NEW c \in Nat,
           Viewed(n, c), Viewed(n, b)', b <= c
    PROVE  /\ \E m \in 0..Len(Outstanding) : Outstanding' = SubSeq(Outstanding, 1, m)
           /\ Stored' = Stored
           /\ n < c => Outstanding # <<>>
           /\ b = c => Outstanding' = Outstanding
<1>1. TypesInv /\ TypesInv'
  BY DEF UploadInv
<1>2. /\ Outstanding = SubSeq(accepted, n + 1, c)
      /\ accepted \in Seq(Data) /\ n <= c /\ c <= Len(accepted)
  BY <1>1, OutstandingIs
<1>3. Outstanding' = SubSeq(accepted, n + 1, b) /\ n <= b
  BY <1>1, OutstandingIsNext
<1>4. \E m \in 0..Len(SubSeq(accepted, n + 1, c)) :
         SubSeq(accepted, n + 1, b) = SubSeq(SubSeq(accepted, n + 1, c), 1, m)
  BY <1>2, <1>3, SliceBegins
<1>5. n < c => SubSeq(accepted, n + 1, c) # <<>>
  BY <1>2, SliceHeadTail
<1>6. Stored' = Stored
  BY DEF Stored, Whole
<1> QED BY <1>2, <1>3, <1>4, <1>5, <1>6

LEMMA SameStored ==
    ASSUME TypesInv, TypesInv', UNCHANGED accepted, \A d \in Data : Whole(d)' <=> Whole(d),
           NEW n \in Nat, NEW c \in Nat, Viewed(n, c),
           NEW m \in Nat, NEW b \in Nat, Viewed(m, b)'
    PROVE  m = n
<1>1. PICK N \in Nat : N = Len(accepted) /\ N = Len(accepted')
  BY Basics
<1>2. /\ n <= N /\ m <= N
      /\ \A i \in 1..N : Whole(accepted[i]) <=> i <= n
      /\ \A i \in 1..N : Whole(accepted[i])' <=> i <= m
  <2>1. n <= N /\ \A i \in 1..N : Whole(accepted[i]) <=> i <= n
    BY <1>1 DEF Viewed
  <2>2. m <= b /\ b <= N /\ \A i \in 1..N : Whole(accepted[i])' <=> i <= m
    BY <1>1 DEF Viewed
  <2> QED BY <2>1, <2>2
<1>3. \A i \in 1..N : i <= n <=> i <= m
  <2>1. \A i \in 1..N : accepted[i] \in Data
    BY <1>1, Basics
  <2> QED BY <1>2, <2>1
<1>4. ~(n < m)
  <2> SUFFICES ASSUME n < m PROVE FALSE
    OBVIOUS
  <2>1. n + 1 \in 1..N /\ n + 1 <= m /\ ~(n + 1 <= n)
    BY <1>2
  <2> QED BY <1>3, <2>1
<1>5. ~(m < n)
  <2> SUFFICES ASSUME m < n PROVE FALSE
    OBVIOUS
  <2>1. m + 1 \in 1..N /\ m + 1 <= n /\ ~(m + 1 <= m)
    BY <1>2
  <2> QED BY <1>3, <2>1
<1> QED BY <1>4, <1>5

\* The writer panics: of what was outstanding some still comes.
LEMMA PanicStep ==
    ASSUME UploadInv, UploadInv', WriterPanics
    PROVE  /\ ~linked /\ Outstanding # <<>> /\ ~Writing' /\ Stored' = Stored
           /\ \E m \in 0..Len(Outstanding) : Outstanding' = SubSeq(Outstanding, 1, m)
<1>1. TypesInv /\ TypesInv'
  BY DEF UploadInv
<1>2. /\ ~linked /\ UNCHANGED <<accepted, files, kept>> /\ writer'.pc = "panicked"
      /\ writer.pc # "panicked"
      /\ writer.pc = "chunks" \/ (writer.pc = "next" /\ writer.taken < Len(accepted))
  BY <1>1 DEF WriterPanics, Write, diskVars, TypesInv, StreamsTypeOK
<1>3. PICK n \in Nat, c \in Nat : Viewed(n, c)
  BY ViewExists
<1>4. PICK m \in Nat, b \in Nat : Viewed(m, b)'
  BY ViewExistsNext
<1>5. m = n
  <2>1. \A d \in Data : Whole(d)' <=> Whole(d)
    BY <1>2 DEF Whole
  <2> QED BY <1>1, <1>2, <1>3, <1>4, <2>1, SameStored
<1>6. PICK N \in Nat : N = Len(accepted) /\ N = Len(accepted')
  BY <1>1, <1>2, Basics
<1>7. c = N /\ n <= N /\ b <= N /\ \A i \in 1..N : Whole(accepted[i]) <=> i <= n
  <2>1. b <= N
    BY <1>4, <1>6 DEF Viewed
  <2> QED BY <1>2, <1>3, <1>6, <2>1 DEF Viewed
<1>8. n < N
  <2>1. PICK at : \E pos \in Nat, k \in Nat : UploadAt(at, pos, k)
    BY DEF UploadInv
  <2>2. PICK pos \in Nat, k \in Nat : UploadAt(at, pos, k)
    BY <2>1
  <2>a. writer.taken \in Nat /\ writer.taken <= N
    BY <1>1, <1>6, Basics
  <2>b. PICK w \in Nat : w = writer.taken /\ w <= N
    BY <2>a
  <2>3. w = writer.taken /\ w <= N /\ k <= w
    BY <2>2, <2>b DEF UploadAt, NodeAt
  <2>4. CASE writer.pc = "next" /\ w < N
    <3>1. w + 1 \in 1..N /\ accepted[w + 1] \in Data
      BY <1>1, <1>6, <2>4, Basics
    <3>2. \A i \in 1..k : accepted[i] # accepted[w + 1]
      <4> SUFFICES ASSUME NEW i \in 1..k, accepted[i] = accepted[w + 1] PROVE FALSE
        OBVIOUS
      <4>1. i \in 1..N /\ i # w + 1
        BY <2>3
      <4> QED BY <1>6, <3>1, <4>1 DEF UploadInv, PushedOnce
    <3>3. files[accepted[w + 1]] = "none"
      BY <2>2, <3>1, <3>2 DEF UploadAt, NodeAt
    <3>4. ~Whole(accepted[w + 1])
      BY <3>3 DEF Whole
    <3> QED BY <1>7, <2>4, <3>1, <3>4
  <2>5. CASE writer.pc = "chunks"
    <3>1. w \in 1..N /\ accepted[w] \in Data /\ writer.written < Size[accepted[w]]
          /\ Size[accepted[w]] \in Nat /\ writer.written \in Nat
      BY <1>1, <1>6, <2>3, <2>5, Basics
    <3>2. CASE k < w
      <4>1. \A i \in 1..k : accepted[i] # accepted[w]
        <5> SUFFICES ASSUME NEW i \in 1..k, accepted[i] = accepted[w] PROVE FALSE
          OBVIOUS
        <5>1. i \in 1..N /\ i # w
          BY <2>3, <3>2
        <5> QED BY <1>6, <3>1, <5>1 DEF UploadInv, PushedOnce
      <4>2. files[accepted[w]] = "none"
        BY <2>2, <3>1, <4>1 DEF UploadAt, NodeAt
      <4>3. ~Whole(accepted[w])
        BY <4>2 DEF Whole
      <4> QED BY <1>7, <3>1, <4>3
    <3>3. CASE k = w
      <4>1. PICK d \in Data : d = accepted[w]
        BY <3>1
      <4>2. PICK a \in Nat, K \in Nat, U \in Nat, x \in Nat, z \in Nat :
               a = at[w] /\ K = Len(kept[d]) /\ U = Len(up) /\ x = writer.written /\ z = Size[d]
        BY <1>1, <2>2, <3>1, Basics DEF UploadAt, Offsets
      <4>3. a + 3 + K <= pos
        BY <2>2, <3>1, <3>3, <4>1, <4>2 DEF UploadAt, NodeAt
      <4>4. pos + U <= a + 3 + x
        BY <2>2, <2>3, <2>5, <4>2 DEF UploadAt, WriterAt, WrittenTo
      <4>5. x < z
        BY <3>1, <4>1, <4>2
      <4>6. K < z
        BY <4>3, <4>4, <4>5
      <4>7. ~Whole(d)
        <5>1. FilesInv /\ K # z
          BY <4>6 DEF UploadInv
        <5> QED BY <1>1, <4>2, <5>1, WholeFacts
      <4> QED BY <1>7, <3>1, <4>1, <4>7
    <3> QED BY <2>3, <3>2, <3>3
  <2> QED BY <1>2, <1>6, <2>3, <2>4, <2>5
<1>9. b <= c /\ n < c
  BY <1>7, <1>8
<1>10. Viewed(n, b)'
  BY <1>4, <1>5
<1>11. /\ \E j \in 0..Len(Outstanding) : Outstanding' = SubSeq(Outstanding, 1, j)
       /\ Stored' = Stored /\ Outstanding # <<>>
  BY <1>2, <1>3, <1>9, <1>10, GiveUpView
<1> QED BY <1>2, <1>11 DEF Writing

\* After a panic of the writer the node returns: no more can come.
LEMMA LeaveStep ==
    ASSUME UploadInv, UploadInv', NodeReturns, writer.pc = "panicked"
    PROVE  /\ ~linked /\ ~linked' /\ ~Writing /\ ~Writing' /\ Stored' = Stored
           /\ \/ /\ Outstanding # <<>>
                 /\ \E m \in 0..Len(Outstanding) : Outstanding' = SubSeq(Outstanding, 1, m)
              \/ Outstanding' = Outstanding
<1>1. TypesInv /\ TypesInv'
  BY DEF UploadInv
<1>2. /\ UNCHANGED <<accepted, writer, files, kept>> /\ up' = <<>> /\ ~linked'
      /\ node'.pc = "returned"
  BY <1>1 DEF NodeReturns, TypesInv, StreamsTypeOK
<1>3. ~linked
  <2>1. PICK at : \E pos \in Nat, k \in Nat : UploadAt(at, pos, k)
    BY DEF UploadInv
  <2> QED BY <2>1 DEF UploadAt, WriterAt
<1>4. PICK n \in Nat, c \in Nat : Viewed(n, c)
  BY ViewExists
<1>5. PICK N \in Nat : N = Len(accepted) /\ N = Len(accepted')
  BY <1>1, <1>2, Basics
<1>6. n <= c /\ c <= N /\ \A i \in 1..N : Whole(accepted[i]) <=> i <= n
  BY <1>4, <1>5 DEF Viewed
<1>7. \A d \in Data : ~Arriving(d)'
  <2>1. ToSet(<<>>) = {}
    BY DEF ToSet
  <2> QED BY <1>2, <2>1 DEF Arriving
<1>8. Viewed(n, n)'
  <2>1. \A i \in 1..N : Whole(accepted[i])' <=> i <= n
    BY <1>2, <1>6 DEF Whole
  <2>2. ASSUME NEW i \in (n + 1)..N PROVE ~Arriving(accepted[i])' /\ ~(i <= n)
    <3>1. i \in 1..N
      OBVIOUS
    <3>2. accepted'[i] \in Data
      BY <1>1, <1>2, <1>5, <3>1, Basics
    <3> QED BY <1>2, <1>7, <3>2
  <2>3. n <= N
    BY <1>6
  <2> QED BY <1>2, <1>5, <2>1, <2>2, <2>3 DEF Viewed
<1>9. /\ \E j \in 0..Len(Outstanding) : Outstanding' = SubSeq(Outstanding, 1, j)
      /\ Stored' = Stored /\ (n < c => Outstanding # <<>>)
      /\ (n = c => Outstanding' = Outstanding)
  BY <1>2, <1>4, <1>6, <1>8, GiveUpView
<1>10. n < c \/ n = c
  BY <1>6
<1> QED BY <1>2, <1>3, <1>9, <1>10 DEF Writing

Among(e, s) == \E p \in 1..Len(s) : s[p] = e

\* Of a stream whose beginning is read, another part is still there.
LEMMA StillThere ==
    ASSUME NEW s \in Seq(Parts), NEW n \in 0..Len(s), NEW u, u = SubSeq(s, n + 1, Len(s)),
           NEW e, \A p \in 1..n : s[p] # e
    PROVE  Among(e, s) <=> Among(e, u)
<1>1. PICK N \in Nat : N = Len(s)
  BY LenProperties
<1>2. n \in Nat /\ n <= N
  BY <1>1
<1>3. Len(u) = N - n /\ \A i \in 1..(N - n) : u[i] = s[n + i]
  <2>1. Len(u) = Len(s) - n /\ \A i \in 1..Len(u) : u[i] = s[n + i]
    BY CutFacts
  <2> QED BY <1>1, <2>1
<1>4. ASSUME NEW p \in 1..N, s[p] = e PROVE \E q \in 1..(N - n) : u[q] = e
  <2>1. ~(p \in 1..n)
    BY <1>4
  <2>2. p - n \in 1..(N - n) /\ n + (p - n) = p
    BY <1>2, <2>1
  <2> QED BY <1>3, <1>4, <2>2
<1>5. ASSUME NEW q \in 1..(N - n), u[q] = e PROVE \E p \in 1..N : s[p] = e
  <2>1. n + q \in 1..N /\ s[n + q] = e
    BY <1>2, <1>3, <1>5
  <2> QED BY <2>1
<1> QED BY <1>1, <1>3, <1>4, <1>5 DEF Among

LEMMA StillThereCut ==
    ASSUME NEW s \in Seq(Parts), NEW n \in 0..Len(s), NEW e, \A p \in 1..n : s[p] # e
    PROVE  Among(e, s) <=> Among(e, SubSeq(s, n + 1, Len(s)))
<1>1. PICK u : u = SubSeq(s, n + 1, Len(s))
  OBVIOUS
<1> QED BY <1>1, StillThere

LEMMA StillThereAfterOne ==
    ASSUME NEW s \in Seq(Parts), Len(s) >= 1, NEW e, s[1] # e
    PROVE  Among(e, s) <=> Among(e, SubSeq(s, 1 + 1, Len(s)))
<1>1. 1 \in 0..Len(s) /\ \A p \in 1..1 : s[p] # e
  BY LenProperties
<1>2. \A n \in 0..Len(s) : (\A p \in 1..n : s[p] # e)
                              => (Among(e, s) <=> Among(e, SubSeq(s, n + 1, Len(s))))
  BY StillThereCut, Zenon
<1> QED BY <1>1, <1>2, Zenon

LEMMA StillThereAfterThree ==
    ASSUME NEW s \in Seq(Parts), Len(s) >= 3, NEW e, s[1] # e, s[2] # e, s[3] # e
    PROVE  Among(e, s) <=> Among(e, SubSeq(s, 3 + 1, Len(s)))
<1>1. 3 \in 0..Len(s) /\ \A p \in 1..3 : s[p] # e
  BY LenProperties
<1>2. \A n \in 0..Len(s) : (\A p \in 1..n : s[p] # e)
                              => (Among(e, s) <=> Among(e, SubSeq(s, n + 1, Len(s))))
  BY StillThereCut, Zenon
<1> QED BY <1>1, <1>2, Zenon

LEMMA ArrivingOf ==
    \A e \in Data : TypesInv =>
        (Arriving(e) <=> \/ \E p \in 1..Len(up) : up[p] = EndOf(e)
                         \/ Size[e] = 0 /\ node.pc = "storing" /\ node.data = e)
BY ArrivingIs

LEMMA ArrivingIsNext ==
    ASSUME TypesInv', NEW d \in Data
    PROVE  Arriving(d)' <=> \/ \E p \in 1..Len(up') : up'[p] = EndOf(d)
                            \/ Size[d] = 0 /\ node'.pc = "storing" /\ node'.data = d
<1>1. (\A e \in Data : TypesInv =>
          (Arriving(e) <=> \/ \E p \in 1..Len(up) : up[p] = EndOf(e)
                           \/ Size[e] = 0 /\ node.pc = "storing" /\ node.data = e))'
  BY ArrivingOf, PTL
<1>2. EndOf(d)' = EndOf(d)
  BY DEF EndOf, Frame, Header, Chunks
<1> QED BY <1>1, <1>2

LEMMA TakeHeaderQuiet ==
    ASSUME TypesInv, TypesInv', NEW d \in Data, TakeHeader(d)
    PROVE  Quiet
<1>1. /\ Starts(up, d) /\ up' = SubSeq(up, 3 + 1, Len(up)) /\ up \in Seq(Parts)
      /\ UNCHANGED <<accepted, writer, files, kept>>
      /\ node.pc = "frame" /\ node'.pc = "storing" /\ node'.data = d
  <2>1. up \in Seq(Parts)
    BY DEF TypesInv, StreamsTypeOK
  <2>2. /\ Starts(up, d) /\ up' = SubSeq(up, 3 + 1, Len(up))
        /\ UNCHANGED <<accepted, writer, files, kept>>
    BY DEF TakeHeader, Take
  <2>3. node.pc = "frame" /\ node' = [pc |-> "storing", data |-> d]
    BY DEF TakeHeader
  <2> QED BY <2>1, <2>2, <2>3
<1>2. /\ Len(up) \in Nat /\ Len(up) >= 3 /\ 3 \in 0..Len(up)
      /\ up[1] = Frame(d)[1] /\ up[2] = Frame(d)[2] /\ up[3] = Frame(d)[3]
  <2>1. Len(up) \in Nat
    BY <1>1, LenProperties
  <2>2. /\ Len(up) >= 3 /\ up[1] = <<"prefix", d>> /\ up[2] = <<"rest", d>>
        /\ up[3] = <<"meta", d>>
    BY <1>1, StartsFacts
  <2>3. /\ Frame(d)[1] = <<"prefix", d>> /\ Frame(d)[2] = <<"rest", d>>
        /\ Frame(d)[3] = <<"meta", d>>
    BY FrameFacts
  <2> QED BY <2>1, <2>2, <2>3
<1>3. ASSUME NEW e \in Data PROVE Arriving(e)' <=> Arriving(e)
  <2>1. Size[d] \in Nat /\ Size[e] \in Nat
    BY FrameFacts
  <2>2. ASSUME NEW p \in 1..3, up[p] = EndOf(e) PROVE e = d /\ Size[e] = 0 /\ p = 3
    <3>1. up[p] = Frame(d)[p]
      BY <1>2
    <3>2. p \in 1..(3 + Size[d])
      BY <2>1
    <3>3. 3 + Size[e] \in 1..(3 + Size[e])
      BY <2>1
    <3>4. d = e /\ p = 3 + Size[e]
      <4>1. PICK l \in 1..(3 + Size[e]) : l = 3 + Size[e]
        BY <3>3
      <4>2. Frame(d)[p] = Frame(e)[l]
        BY <2>2, <3>1, <4>1 DEF EndOf
      <4> QED BY <3>2, <4>1, <4>2, PartsDiffer
    <3> QED BY <2>1, <3>4
  <2>3. CASE e = d /\ Size[e] = 0
    <3>1. up[3] = EndOf(e) /\ 3 \in 1..Len(up)
      <4>1. EndOf(e) = Frame(e)[3 + 0]
        BY <2>3 DEF EndOf
      <4> QED BY <1>2, <2>3, <4>1
    <3>2. Arriving(e)
      BY <3>1, ArrivingIs
    <3>3. Arriving(e)'
      BY <1>1, <2>3, ArrivingIsNext
    <3> QED BY <3>2, <3>3
  <2>4. CASE ~(e = d /\ Size[e] = 0)
    <3>1. \A p \in 1..3 : up[p] # EndOf(e)
      BY <2>2, <2>4
    <3>2. (\E p \in 1..Len(up) : up[p] = EndOf(e)) <=> (\E p \in 1..Len(up') : up'[p] = EndOf(e))
      <4>1. Among(EndOf(e), up) <=> Among(EndOf(e), SubSeq(up, 3 + 1, Len(up)))
        BY <1>1, <1>2, <3>1, StillThereAfterThree
      <4> QED BY <1>1, <4>1 DEF Among
    <3>3. Arriving(e) <=> \E p \in 1..Len(up) : up[p] = EndOf(e)
      BY <1>1, ArrivingIs
    <3>4. Arriving(e)' <=> \E p \in 1..Len(up') : up'[p] = EndOf(e)
      BY <1>1, <2>4, ArrivingIsNext
    <3> QED BY <3>2, <3>3, <3>4
  <2> QED BY <2>3, <2>4
<1> QED BY <1>1, <1>3 DEF Quiet, Writing, Whole

\* A chunk that is kept is the last of its own data at most.
LEMMA KeepChunkArriving ==
    ASSUME UploadInv, TypesInv', KeepChunk, NEW d \in Data, d = node.data
    PROVE  /\ \A e \in Data : e # d \/ Len(kept[d]) + 1 < Size[d]
                                 => (Arriving(e)' <=> Arriving(e))
           /\ Len(kept[d]) + 1 = Size[d] => Arriving(d)
<1>1. TypesInv /\ PushedOnce
  BY DEF UploadInv
<1>2. PICK K \in Nat, z \in Nat : K = Len(kept[d]) /\ z = Size[d]
  BY <1>1, Basics
<1>3. /\ node.pc = "storing" /\ K < z /\ up # <<>> /\ up' = SubSeq(up, 1 + 1, Len(up))
      /\ node' = node /\ up \in Seq(Parts)
  BY <1>1, <1>2, Basics DEF KeepChunk, Take
<1>4. Len(up) \in Nat /\ Len(up) >= 1 /\ 1 \in 0..Len(up) /\ 1 \in 1..Len(up)
  <2>1. Len(up) \in Nat /\ Len(up) # 0
    BY <1>3, EmptySeq
  <2> QED BY <2>1
<1>5. up[1] = Frame(d)[3 + (K + 1)] /\ 3 + (K + 1) \in 1..(3 + z)
  <2>1. PICK at : \E pos \in Nat, k \in Nat : UploadAt(at, pos, k)
    BY DEF UploadInv
  <2>2. PICK pos \in Nat, k \in Nat : UploadAt(at, pos, k)
    BY <2>1
  <2>3. up[1] = Chunks(d)[K + 1]
    BY <1>1, <1>2, <1>3, <1>4, <2>2, NextChunk
  <2>4. K + 1 \in 1..z
    BY <1>3
  <2>5. Chunks(d)[K + 1] = Frame(d)[3 + (K + 1)]
    BY <1>2, <2>4, FrameChunk
  <2> QED BY <2>3, <2>4, <2>5
<1>6. ASSUME NEW e \in Data, e # d \/ K + 1 < z PROVE Arriving(e)' <=> Arriving(e)
  <2>1. Size[e] \in Nat
    BY FrameFacts
  <2>2. up[1] # EndOf(e)
    <3> SUFFICES ASSUME up[1] = EndOf(e) PROVE FALSE
      OBVIOUS
    <3>1. PICK l \in 1..(3 + Size[e]), j \in 1..(3 + Size[d]) : l = 3 + Size[e] /\ j = 3 + (K + 1)
      BY <1>2, <1>5, <2>1
    <3>2. Frame(d)[j] = Frame(e)[l]
      BY <1>5, <3>1 DEF EndOf
    <3>3. d = e /\ j = l
      BY <3>2, PartsDiffer
    <3>4. 3 + (K + 1) = 3 + z
      BY <1>2, <3>1, <3>3
    <3>5. d = e /\ K + 1 = z
      BY <3>3, <3>4
    <3> QED BY <1>6, <3>5
  <2>3. \A p \in 1..1 : up[p] # EndOf(e)
    BY <2>2
  <2>4. (\E p \in 1..Len(up) : up[p] = EndOf(e)) <=> (\E p \in 1..Len(up') : up'[p] = EndOf(e))
    <3>1. Among(EndOf(e), up) <=> Among(EndOf(e), SubSeq(up, 1 + 1, Len(up)))
      BY <1>3, <1>4, <2>2, StillThereAfterOne
    <3> QED BY <1>3, <3>1 DEF Among
  <2> QED BY <1>1, <1>3, <2>4, ArrivingIs, ArrivingIsNext
<1>7. ASSUME K + 1 = z PROVE Arriving(d)
  <2>1. up[1] = EndOf(d)
    BY <1>2, <1>5, <1>7 DEF EndOf
  <2> QED BY <1>1, <1>4, <2>1, ArrivingIs
<1> QED BY <1>2, <1>6, <1>7

LEMMA WholeOf ==
    UploadInv =>
        \A e \in Data : Whole(e) <=> files[e] = "opened" /\ Len(kept[e]) = Size[e]
BY WholeFacts DEF UploadInv

LEMMA WholeIsNext ==
    UploadInv' =>
        \A e \in Data : Whole(e)' <=> files'[e] = "opened" /\ Len(kept'[e]) = Size[e]
<1>1. (UploadInv =>
          \A e \in Data : Whole(e) <=> files[e] = "opened" /\ Len(kept[e]) = Size[e])'
  BY WholeOf, PTL
<1> QED BY <1>1

\* What the node stores becomes whole when it has arrived, and no other data do.
LEMMA NodeFills ==
    ASSUME UploadInv, UploadInv', MakeFile \/ KeepChunk, NEW d \in Data, d = node.data
    PROVE  /\ node.pc = "storing" /\ ~Whole(d)
           /\ UNCHANGED <<accepted, writer, linked, node, down, reading, responses>>
           /\ \A e \in Data : e # d =>
                 (Whole(e)' <=> Whole(e)) /\ (Arriving(e)' <=> Arriving(e))
           /\ IF Whole(d)' THEN Arriving(d) ELSE Arriving(d)' <=> Arriving(d)
<1>1. TypesInv /\ TypesInv' /\ FilesInv
  BY DEF UploadInv
<1>2. files \in [Data -> Files] /\ kept \in [Data -> Seq(Parts)]
  BY <1>1 DEF TypesInv, StreamsTypeOK
<1>3. CASE MakeFile
  <2>1. /\ node.pc = "storing" /\ files[d] # "opened"
        /\ UNCHANGED <<accepted, writer, linked, node, down, reading, responses, up, kept>>
        /\ \A e \in Data : e # d => files'[e] = files[e]
    BY <1>2, <1>3 DEF MakeFile, uploadVars
  <2>2. ~Whole(d) /\ \A e \in Data : e # d => (Whole(e)' <=> Whole(e))
    BY <2>1 DEF Whole
  <2>3. \A e \in Data : Arriving(e)' <=> Arriving(e)
    BY <2>1 DEF Arriving
  <2>4. ASSUME Whole(d)' PROVE Arriving(d)
    <3>1. kept[d] = <<>> /\ Len(kept[d]) = Size[d]
      BY <1>1, <2>1, <2>4, WholeIsNext DEF FilesInv
    <3>2. Size[d] = 0
      BY <3>1
    <3> QED BY <1>1, <2>1, <3>2, ArrivingIs
  <2> QED BY <2>1, <2>2, <2>3, <2>4
<1>4. CASE KeepChunk
  <2>1. /\ node.pc = "storing" /\ Len(kept[d]) < Size[d] /\ up # <<>>
        /\ kept' = [kept EXCEPT ![d] = Append(kept[d], Head(up))]
        /\ UNCHANGED <<accepted, writer, linked, node, down, reading, responses, files>>
    BY <1>4 DEF KeepChunk, Take
  <2>2. PICK K \in Nat, z \in Nat : K = Len(kept[d]) /\ z = Size[d]
    BY <1>1, Basics
  <2>3. Len(kept'[d]) = K + 1
    <3>1. up \in Seq(Parts) /\ kept[d] \in Seq(Parts)
      BY <1>1, Basics
    <3>2. Head(up) \in Parts
      BY <2>1, <3>1, HeadTailProperties
    <3>3. Len(Append(kept[d], Head(up))) = Len(kept[d]) + 1
      BY <3>1, <3>2, AppendProperties
    <3> QED BY <1>2, <2>1, <2>2, <3>3
  <2>4. ~Whole(d)
    <3>1. Len(kept[d]) # Size[d]
      BY <2>1, <2>2
    <3> QED BY <3>1, WholeOf
  <2>5. \A e \in Data : e # d => (Whole(e)' <=> Whole(e))
    BY <1>2, <2>1 DEF Whole
  <2>6. /\ \A e \in Data : e # d \/ K + 1 < z => (Arriving(e)' <=> Arriving(e))
        /\ K + 1 = z => Arriving(d)
    BY <1>1, <1>4, <2>2, KeepChunkArriving
  <2>7. files[d] = "opened"
    BY <1>4 DEF KeepChunk
  <2>8. Whole(d)' <=> K + 1 = z
    BY <2>1, <2>2, <2>3, <2>7, WholeIsNext
  <2>9. K + 1 < z \/ K + 1 = z
    BY <2>1, <2>2
  <2> QED BY <2>1, <2>4, <2>5, <2>6, <2>8, <2>9
<1> QED BY <1>3, <1>4

LEMMA FillsQuietly ==
    ASSUME UploadInv, UploadInv', MakeFile \/ KeepChunk, NEW d \in Data, d = node.data,
           ~Whole(d)'
    PROVE  Quiet
BY NodeFills DEF Quiet, Writing

\* The data that become whole are the first of those outstanding.
LEMMA StoreStep ==
    ASSUME UploadInv, UploadInv', MakeFile \/ KeepChunk, NEW d \in Data, d = node.data,
           Whole(d)'
    PROVE  /\ Outstanding # <<>> /\ Head(Outstanding) = d /\ Outstanding' = Tail(Outstanding)
           /\ Stored' = Stored \cup {d} /\ Writing' = Writing
<1>1. TypesInv /\ TypesInv' /\ PushedOnce
  BY DEF UploadInv
<1>2. /\ node.pc = "storing" /\ ~Whole(d) /\ UNCHANGED <<accepted, writer>>
      /\ \A e \in Data : e # d =>
            (Whole(e)' <=> Whole(e)) /\ (Arriving(e)' <=> Arriving(e))
      /\ Arriving(d)
  BY NodeFills
<1>3. PICK N \in Nat : N = Len(accepted) /\ N = Len(accepted')
  BY <1>1, <1>2, Basics
<1>4. accepted \in Seq(Data) /\ \A i \in 1..N : accepted[i] \in Data
  BY <1>1, <1>3, Basics
<1>5. PICK n \in Nat, c \in Nat : Viewed(n, c)
  BY ViewExists
<1>6. /\ n <= c /\ c <= N /\ \A i \in 1..N : Whole(accepted[i]) <=> i <= n
      /\ writer.pc # "panicked" => c = N
      /\ writer.pc = "panicked" => \A i \in (n + 1)..N : Arriving(accepted[i]) <=> i <= c
  BY <1>3, <1>5 DEF Viewed
<1>7. n + 1 \in 1..N /\ accepted[n + 1] = d
  <2>1. PICK at : \E pos \in Nat, k \in Nat : UploadAt(at, pos, k)
    BY DEF UploadInv
  <2>2. PICK pos \in Nat, k \in Nat : UploadAt(at, pos, k)
    BY <2>1
  <2>3. k \in 1..N /\ d = accepted[k] /\ \A i \in 1..k : i < k => Whole(accepted[i])
    BY <1>1, <1>2, <1>3, <2>2, Basics DEF UploadAt, NodeAt
  <2>4. ~(k <= n)
    BY <1>2, <1>6, <2>3
  <2>5. ~(n + 1 < k)
    <3> SUFFICES ASSUME n + 1 < k PROVE FALSE
      OBVIOUS
    <3>1. n + 1 \in 1..k /\ n + 1 \in 1..N /\ ~(n + 1 <= n)
      BY <2>3
    <3> QED BY <1>6, <2>3, <3>1
  <2>6. k = n + 1
    BY <2>3, <2>4, <2>5
  <2> QED BY <2>3, <2>6
<1>8. n < c
  <2>1. CASE writer.pc # "panicked"
    BY <1>6, <1>7, <2>1
  <2>2. CASE writer.pc = "panicked"
    <3>1. n + 1 \in (n + 1)..N
      BY <1>7
    <3>2. n + 1 <= c
      BY <1>2, <1>6, <1>7, <2>2, <3>1
    <3> QED BY <3>2
  <2> QED BY <2>1, <2>2
<1>9. \A i \in 1..N : i # n + 1 => accepted[i] # d
  BY <1>1, <1>3, <1>7 DEF PushedOnce
<1>10. Viewed(n + 1, c)'
  <2>1. ASSUME NEW i \in 1..N PROVE Whole(accepted[i])' <=> i <= n + 1
    <3>1. CASE i = n + 1
      BY <1>2, <1>7, <3>1
    <3>2. CASE i # n + 1
      <4>1. Whole(accepted[i])' <=> Whole(accepted[i])
        BY <1>2, <1>4, <1>9, <3>2
      <4>2. i <= n <=> i <= n + 1
        BY <3>2
      <4> QED BY <1>6, <4>1, <4>2
    <3> QED BY <3>1, <3>2
  <2>2. ASSUME writer.pc = "panicked", NEW i \in ((n + 1) + 1)..N
        PROVE  Arriving(accepted[i])' <=> i <= c
    <3>1. i \in (n + 1)..N /\ i \in 1..N /\ i # n + 1
      OBVIOUS
    <3>2. Arriving(accepted[i])' <=> Arriving(accepted[i])
      BY <1>2, <1>4, <1>9, <3>1
    <3> QED BY <1>6, <2>2, <3>1, <3>2
  <2>3. n + 1 <= c
    BY <1>8
  <2> QED BY <1>2, <1>3, <1>6, <2>1, <2>2, <2>3 DEF Viewed
<1>11. Outstanding = SubSeq(accepted, n + 1, c)
  BY <1>1, <1>5, OutstandingIs
<1>12. Outstanding' = SubSeq(accepted, (n + 1) + 1, c)
  <2>1. n + 1 \in Nat
    OBVIOUS
  <2> QED BY <1>1, <1>2, <1>10, <2>1, OutstandingIsNext
<1>13. /\ SubSeq(accepted, n + 1, c) # <<>> /\ Head(SubSeq(accepted, n + 1, c)) = d
       /\ Tail(SubSeq(accepted, n + 1, c)) = SubSeq(accepted, (n + 1) + 1, c)
  BY <1>3, <1>4, <1>6, <1>7, <1>8, SliceHeadTail
<1>14. Stored' = Stored \cup {d}
  BY <1>2 DEF Stored
<1> QED BY <1>2, <1>11, <1>12, <1>13, <1>14 DEF Writing

-----------------------------------------------------------------------------
(* What the steps do to the answers that come                              *)

LEMMA TwoConcat ==
    \A x, y \in Seq(Data) :
        /\ x \o y \in Seq(Data) /\ Len(x \o y) = Len(x) + Len(y)
        /\ \A i \in 1..Len(x) : (x \o y)[i] = x[i]
        /\ \A i \in 1..Len(y) : (x \o y)[Len(x) + i] = y[i]
BY ConcatFacts

LEMMA ThreeConcat ==
    ASSUME NEW x \in Seq(Data), NEW y \in Seq(Data), NEW z \in Seq(Data),
           NEW u, u = (x \o y) \o z
    PROVE  /\ u \in Seq(Data) /\ Len(u) = Len(x) + Len(y) + Len(z)
           /\ Len(x) \in Nat /\ Len(y) \in Nat /\ Len(z) \in Nat
           /\ \A i \in 1..Len(x) : u[i] = x[i]
           /\ \A i \in 1..Len(y) : u[Len(x) + i] = y[i]
<1>1. Len(x) \in Nat /\ Len(y) \in Nat /\ Len(z) \in Nat
  BY LenProperties
<1>2. PICK v : v = x \o y
  OBVIOUS
<1>3. /\ v \in Seq(Data) /\ Len(v) = Len(x) + Len(y)
      /\ \A i \in 1..Len(x) : v[i] = x[i]
      /\ \A i \in 1..Len(y) : v[Len(x) + i] = y[i]
  BY <1>2, ConcatFacts
<1>4. /\ u \in Seq(Data) /\ Len(u) = Len(v) + Len(z) /\ \A i \in 1..Len(v) : u[i] = v[i]
  <2>1. u = v \o z
    BY <1>2
  <2>2. /\ v \o z \in Seq(Data) /\ Len(v \o z) = Len(v) + Len(z)
        /\ \A i \in 1..Len(v) : (v \o z)[i] = v[i]
    BY <1>3, TwoConcat, Zenon
  <2> QED BY <2>1, <2>2, Zenon
<1>5. ASSUME NEW i \in 1..Len(x) PROVE u[i] = x[i]
  <2>1. i \in 1..Len(v)
    BY <1>1, <1>3
  <2> QED BY <1>3, <1>4, <2>1
<1>6. ASSUME NEW i \in 1..Len(y) PROVE u[Len(x) + i] = y[i]
  <2>1. Len(x) + i \in 1..Len(v)
    BY <1>1, <1>3
  <2> QED BY <1>3, <1>4, <2>1
<1> QED BY <1>1, <1>3, <1>4, <1>5, <1>6

\* What is left when the last of the second, and the third, are lost.
LEMMA LastAreLost ==
    ASSUME NEW x \in Seq(Data), NEW y \in Seq(Data), NEW z \in Seq(Data),
           NEW n \in 0..Len(y)
    PROVE  \E m \in 0..Len((x \o y) \o z) :
              (x \o SubSeq(y, 1, n)) \o <<>> = SubSeq((x \o y) \o z, 1, m)
<1> DEFINE t == SubSeq(y, 1, n)
           u == (x \o y) \o z
           v == (x \o t) \o <<>>
<1>1. t \in Seq(Data) /\ Len(t) = n /\ n \in Nat /\ \A i \in 1..n : t[i] = y[i]
  BY PrefixFacts
<1>2. /\ u \in Seq(Data) /\ Len(u) = Len(x) + Len(y) + Len(z)
      /\ Len(x) \in Nat /\ Len(y) \in Nat /\ Len(z) \in Nat
      /\ \A i \in 1..Len(x) : u[i] = x[i]
      /\ \A i \in 1..Len(y) : u[Len(x) + i] = y[i]
  BY ThreeConcat
<1> HIDE DEF t, u
<1>3. /\ v \in Seq(Data) /\ Len(v) = Len(x) + n
      /\ \A i \in 1..Len(x) : v[i] = x[i]
      /\ \A i \in 1..n : v[Len(x) + i] = t[i]
  <2>1. <<>> \in Seq(Data) /\ Len(<<>>) = 0
    BY EmptySeq
  <2>2. v = x \o t
    <3>1. x \o t \in Seq(Data)
      BY <1>1, TwoConcat
    <3> QED BY <3>1, ConcatEmptySeq
  <2>3. /\ x \o t \in Seq(Data) /\ Len(x \o t) = Len(x) + Len(t)
        /\ \A i \in 1..Len(x) : (x \o t)[i] = x[i]
        /\ \A i \in 1..Len(t) : (x \o t)[Len(x) + i] = t[i]
    BY <1>1, TwoConcat, Zenon
  <2>4. /\ v \in Seq(Data) /\ Len(v) = Len(x) + Len(t)
        /\ \A i \in 1..Len(x) : v[i] = x[i]
        /\ \A i \in 1..Len(t) : v[Len(x) + i] = t[i]
    BY <2>2, <2>3, Zenon
  <2> QED BY <1>1, <1>2, <2>4
<1> HIDE DEF v
<1>4. Len(v) <= Len(u)
  BY <1>1, <1>2, <1>3
<1>5. ASSUME NEW i \in 1..Len(v) PROVE v[i] = u[i]
  <2>1. CASE i \in 1..Len(x)
    BY <1>2, <1>3, <2>1
  <2>2. CASE i > Len(x)
    <3>1. i - Len(x) \in 1..n /\ i - Len(x) \in 1..Len(y) /\ Len(x) + (i - Len(x)) = i
      BY <1>1, <1>2, <1>3, <2>2
    <3>2. v[Len(x) + (i - Len(x))] = t[i - Len(x)]
          /\ u[Len(x) + (i - Len(x))] = y[i - Len(x)] /\ t[i - Len(x)] = y[i - Len(x)]
      BY <1>1, <1>2, <1>3, <3>1
    <3> QED BY <3>1, <3>2
  <2> QED BY <1>2, <1>3, <2>1, <2>2
<1>6. \E m \in 0..Len(u) : v = SubSeq(u, 1, m)
  BY <1>2, <1>3, <1>4, <1>5, BeginningIs
<1> QED BY <1>6 DEF t, u, v

LEMMA OnlyFirstLeft ==
    ASSUME NEW x \in Seq(Data), NEW y \in Seq(Data), NEW z \in Seq(Data)
    PROVE  \E m \in 0..Len((x \o y) \o z) : x = SubSeq((x \o y) \o z, 1, m)
<1> DEFINE u == (x \o y) \o z
<1>1. /\ u \in Seq(Data) /\ Len(u) = Len(x) + Len(y) + Len(z)
      /\ Len(x) \in Nat /\ Len(y) \in Nat /\ Len(z) \in Nat
      /\ \A i \in 1..Len(x) : u[i] = x[i]
  BY ThreeConcat
<1> HIDE DEF u
<1>2. Len(x) <= Len(u) /\ \A i \in 1..Len(x) : x[i] = u[i]
  BY <1>1
<1>3. \E m \in 0..Len(u) : x = SubSeq(u, 1, m)
  BY <1>1, <1>2, BeginningIs
<1> QED BY <1>3 DEF u

LEMMA AllLeft ==
    ASSUME NEW x \in Seq(Data)
    PROVE  \E m \in 0..Len(x) : x = SubSeq(x, 1, m)
BY SubSeqFull, LenProperties

LEMMA ConcatTail ==
    ASSUME NEW x \in Seq(Data), NEW y \in Seq(Data), x # <<>>
    PROVE  x \o y # <<>> /\ Tail(x \o y) = Tail(x) \o y
<1> DEFINE u == x \o y
           a == Tail(u)
           v == Tail(x)
           b == v \o y
<1>1. Len(x) \in Nat /\ Len(x) # 0 /\ Len(y) \in Nat
  BY LenProperties, EmptySeq
<1>2. /\ u \in Seq(Data) /\ Len(u) = Len(x) + Len(y)
      /\ \A i \in 1..Len(x) : u[i] = x[i]
      /\ \A i \in 1..Len(y) : u[Len(x) + i] = y[i]
  BY ConcatFacts
<1>3. v \in Seq(Data) /\ Len(v) = Len(x) - 1 /\ \A i \in 1..(Len(x) - 1) : v[i] = x[i + 1]
  <2>1. v \in Seq(Data) /\ Len(v) = Len(x) - 1 /\ \A i \in 1..Len(v) : v[i] = x[i + 1]
    BY HeadTailProperties
  <2> QED BY <2>1
<1> HIDE DEF u, v
<1>4. u # <<>>
  <2>1. Len(u) # 0
    BY <1>1, <1>2
  <2> QED BY <2>1, EmptySeq
<1>5. a \in Seq(Data) /\ Len(a) = Len(u) - 1 /\ \A i \in 1..(Len(u) - 1) : a[i] = u[i + 1]
  <2>1. a \in Seq(Data) /\ Len(a) = Len(u) - 1 /\ \A i \in 1..Len(a) : a[i] = u[i + 1]
    BY <1>2, <1>4, HeadTailProperties
  <2> QED BY <2>1
<1>6. /\ b \in Seq(Data) /\ Len(b) = Len(v) + Len(y)
      /\ \A i \in 1..Len(v) : b[i] = v[i]
      /\ \A i \in 1..Len(y) : b[Len(v) + i] = y[i]
  BY <1>3, TwoConcat, Zenon
<1> HIDE DEF a, b
<1>7. ASSUME NEW i \in 1..Len(a) PROVE a[i] = b[i]
  <2>1. a[i] = u[i + 1]
    BY <1>5
  <2>2. CASE i \in 1..(Len(x) - 1)
    <3>1. i + 1 \in 1..Len(x)
      BY <1>1, <2>2
    <3> QED BY <1>2, <1>3, <1>6, <2>1, <2>2, <3>1
  <2>3. CASE i > Len(x) - 1
    <3>1. PICK j \in Nat : j = i - (Len(x) - 1)
      BY <1>1, <2>3
    <3>2. j \in 1..Len(y) /\ Len(x) + j = i + 1 /\ Len(v) + j = i
      BY <1>1, <1>2, <1>3, <1>5, <2>3, <3>1
    <3>3. u[Len(x) + j] = y[j] /\ b[Len(v) + j] = y[j]
      BY <1>2, <1>6, <3>2
    <3> QED BY <2>1, <3>2, <3>3
  <2> QED BY <1>1, <2>2, <2>3
<1>8. Len(a) = Len(b)
  BY <1>1, <1>2, <1>3, <1>5, <1>6
<1>9. a = b
  BY <1>5, <1>6, <1>7, <1>8, SeqEqual
<1> QED BY <1>4, <1>9 DEF a, b, u, v

LEMMA ComingTypes ==
    ASSUME TypesInv
    PROVE  /\ responses \in Seq(Data) /\ down \in Seq(Parts) /\ node.data \in Data
           /\ Answered = AnsweredOf(down) /\ Answered \in Seq(Data)
           /\ ToAnswer \in Seq(Data) /\ ToAnswer \in {<<>>, <<node.data>>}
           /\ responses \o Answered \in Seq(Data)
           /\ (responses \o Answered) \o ToAnswer \in Seq(Data)
           /\ reading \in BOOLEAN /\ linked \in BOOLEAN
<1>1. responses \in Seq(Data) /\ down \in Seq(Parts) /\ node.data \in Data
      /\ reading \in BOOLEAN /\ linked \in BOOLEAN
  BY DEF TypesInv, StreamsTypeOK
<1>2. Answered = AnsweredOf(down)
  BY DEF Answered, AnsweredOf
<1>3. Answered \in Seq(Data)
  BY <1>1, <1>2, AnsweredTypes
<1>4. <<node.data>> \in Seq(Data) /\ <<>> \in Seq(Data)
  BY <1>1
<1>5. ToAnswer \in Seq(Data) /\ ToAnswer \in {<<>>, <<node.data>>}
  BY <1>4 DEF ToAnswer
<1>6. responses \o Answered \in Seq(Data)
  BY <1>1, <1>3, TwoConcat
<1>7. (responses \o Answered) \o ToAnswer \in Seq(Data)
  BY <1>5, <1>6, TwoConcat
<1> QED BY <1>1, <1>2, <1>3, <1>5, <1>6, <1>7

LEMMA ComingStays ==
    ASSUME UNCHANGED <<responses, down, reading, ToAnswer>>
    PROVE  Coming' = Coming
BY DEF Coming, Answered

\* A datum that becomes whole is to be answered.
LEMMA FillsToAnswer ==
    ASSUME UploadInv, UploadInv', MakeFile \/ KeepChunk, NEW d \in Data, d = node.data
    PROVE  /\ ToAnswer = <<>> /\ ToAnswer' = (IF linked /\ Whole(d)' THEN <<d>> ELSE <<>>)
           /\ UNCHANGED <<linked, reading, responses, down>>
<1>1. /\ node.pc = "storing" /\ ~Whole(d)
      /\ UNCHANGED <<linked, node, down, reading, responses>>
  BY NodeFills
<1>2. ToAnswer = <<>>
  BY <1>1 DEF ToAnswer
<1>3. Whole(node.data)' <=> Whole(d)'
  BY <1>1 DEF Whole
<1>4. ToAnswer' = IF linked' /\ node'.pc = "storing" /\ Whole(node.data)'
                  THEN <<node'.data>> ELSE <<>>
  BY DEF ToAnswer
<1> QED BY <1>1, <1>2, <1>3, <1>4

LEMMA ComingFilled ==
    ASSUME UploadInv, UploadInv', MakeFile \/ KeepChunk, NEW d \in Data, d = node.data
    PROVE  /\ ~Whole(d)' => Coming' = Coming
           /\ Whole(d)' => Coming' = IF Connected THEN Append(Coming, d) ELSE Coming
           /\ Connected' = Connected
<1>1. /\ ToAnswer = <<>> /\ ToAnswer' = (IF linked /\ Whole(d)' THEN <<d>> ELSE <<>>)
      /\ UNCHANGED <<linked, reading, responses, down>>
  BY FillsToAnswer
<1>2. ~Whole(d)' \/ ~linked \/ ~reading => Coming' = Coming
  BY <1>1 DEF Coming, Answered
<1>3. ASSUME Whole(d)', linked, reading PROVE Coming' = Append(Coming, d)
  <2> DEFINE u == responses \o Answered
  <2>1. u \in Seq(Data)
    BY ComingTypes DEF UploadInv
  <2>2. Coming = u \o <<>> /\ Coming' = u \o <<d>>
    BY <1>1, <1>3 DEF Coming, Answered
  <2> HIDE DEF u
  <2>3. Coming = u
    BY <2>1, <2>2, ConcatEmptySeq
  <2> QED BY <2>1, <2>2, <2>3, AppendIsConcat
<1> QED BY <1>1, <1>2, <1>3 DEF Connected

LEMMA ComingTakeHeader ==
    ASSUME NEW d \in Data, TakeHeader(d), files[d] = "none"
    PROVE  Coming' = Coming /\ Connected' = Connected
<1>1. /\ node.pc = "frame" /\ node' = [pc |-> "storing", data |-> d]
      /\ UNCHANGED <<responses, down, reading, linked, files, kept>>
  BY DEF TakeHeader, Take
<1>2. ToAnswer = <<>>
  BY <1>1 DEF ToAnswer
<1>3. ToAnswer' = <<>>
  <2>1. ~Whole(node.data)'
    BY <1>1 DEF Whole
  <2> QED BY <2>1 DEF ToAnswer
<1> QED BY <1>1, <1>2, <1>3, ComingStays DEF Connected

LEMMA ComingAnswered ==
    ASSUME UploadInv, Answer
    PROVE  Coming' = Coming /\ Connected' = Connected
<1>1. TypesInv /\ DownAligned
  BY DEF UploadInv
<1>2. PICK d \in Data : d = node.data
  BY <1>1, ComingTypes
<1>3. /\ node.pc = "storing" /\ node'.pc = "frame"
      /\ down' = IF linked THEN down \o Header(d) ELSE down
      /\ files[d] = "opened" /\ Len(kept[d]) = Size[d]
      /\ UNCHANGED <<responses, reading, linked>>
  BY <1>1, <1>2 DEF Answer, TypesInv, StreamsTypeOK
<1>4. Whole(d)
  BY <1>3, WholeOf
<1>5. ToAnswer' = <<>>
  BY <1>3 DEF ToAnswer
<1>6. CASE ~linked
  <2>1. ToAnswer = <<>> /\ down' = down
    BY <1>3, <1>6 DEF ToAnswer
  <2> QED BY <1>3, <1>5, <2>1, ComingStays DEF Connected
<1>7. CASE ~reading
  BY <1>3, <1>7 DEF Coming, Connected
<1>8. CASE linked /\ reading
  <2>1. ToAnswer = <<d>>
    BY <1>2, <1>3, <1>4, <1>8 DEF ToAnswer
  <2>2. PICK m \in Nat : Len(down) = 3 * m
    BY <1>1, <1>8 DEF DownAligned
  <2>3. down \in Seq(Parts) /\ down' = down \o Header(d)
    BY <1>1, <1>3, <1>8, ComingTypes
  <2>4. AnsweredOf(down') = Append(AnsweredOf(down), d)
    BY <2>2, <2>3, AnsweredMore
  <2>5. Answered' = Append(Answered, d)
    <3>1. Answered = AnsweredOf(down) /\ Answered' = AnsweredOf(down')
      BY DEF Answered, AnsweredOf
    <3> QED BY <2>4, <3>1
  <2>6. PICK r \in Seq(Data), a \in Seq(Data) : r = responses /\ a = Answered
    BY <1>1, ComingTypes
  <2>7. Coming = (r \o a) \o <<d>> /\ Coming' = (r \o Append(a, d)) \o <<>>
    BY <1>3, <1>5, <1>8, <2>1, <2>5, <2>6 DEF Coming
  <2>8. <<d>> \in Seq(Data) /\ Append(a, d) = a \o <<d>> /\ a \o <<d>> \in Seq(Data)
    BY AppendIsConcat, TwoConcat
  <2>9. (r \o (a \o <<d>>)) \o <<>> = r \o (a \o <<d>>)
    <3>1. r \o (a \o <<d>>) \in Seq(Data)
      BY <2>8, TwoConcat
    <3> QED BY <3>1, ConcatEmptySeq
  <2>10. (r \o a) \o <<d>> = r \o (a \o <<d>>)
    BY <2>8, ConcatAssociative
  <2>11. Coming' = Coming
    BY <2>7, <2>8, <2>9, <2>10, Zenon
  <2> QED BY <1>3, <2>11 DEF Connected
<1> QED BY <1>1, <1>6, <1>7, <1>8, ComingTypes

LEMMA ComingRead ==
    ASSUME TypesInv, TypesInv', NEW d \in Data, ReadAnswer(d)
    PROVE  Coming' = Coming /\ Connected' = Connected
<1>1. /\ reading /\ Starts(down, d) /\ down' = SubSeq(down, 4, Len(down))
      /\ responses' = Append(responses, d)
      /\ UNCHANGED <<reading, linked, node, files, kept>>
  BY DEF ReadAnswer, diskVars
<1>2. ToAnswer' = ToAnswer
  BY <1>1 DEF ToAnswer, Whole
<1>3. PICK b \in Seq(Data) : b = AnsweredOf(down') /\ AnsweredOf(down) = <<d>> \o b
  <2>1. down' \in Seq(Parts) /\ down \in Seq(Parts)
    BY <1>1 DEF TypesInv, StreamsTypeOK
  <2>2. AnsweredOf(down) = <<d>> \o AnsweredOf(down')
    BY <1>1, <2>1, AnsweredFirst
  <2>3. AnsweredOf(down') \in Seq(Data)
    BY <2>1, AnsweredTypes
  <2> QED BY <2>2, <2>3
<1>4. Answered = <<d>> \o b /\ Answered' = b
  <2>1. Answered = AnsweredOf(down) /\ Answered' = AnsweredOf(down')
    BY DEF Answered, AnsweredOf
  <2> QED BY <1>3, <2>1
<1>5. PICK r \in Seq(Data), z \in Seq(Data) : r = responses /\ z = ToAnswer
  BY ComingTypes
<1>6. Coming = (r \o (<<d>> \o b)) \o z /\ Coming' = (Append(r, d) \o b) \o z
  BY <1>1, <1>2, <1>4, <1>5 DEF Coming
<1>7. Append(r, d) \o b = r \o (<<d>> \o b)
  <2>1. <<d>> \in Seq(Data) /\ Append(r, d) = r \o <<d>>
    BY AppendIsConcat
  <2>2. (r \o <<d>>) \o b = r \o (<<d>> \o b)
    BY <2>1, ConcatAssociative
  <2> QED BY <2>1, <2>2, Zenon
<1>8. Coming' = Coming
  BY <1>6, <1>7, Zenon
<1> QED BY <1>1, <1>8 DEF Connected

LEMMA ComingTaken ==
    ASSUME TypesInv, TakeResponse
    PROVE  Coming # <<>> /\ Coming' = Tail(Coming) /\ Connected' = Connected
<1>1. /\ responses # <<>> /\ responses' = Tail(responses)
      /\ UNCHANGED <<reading, linked, down, node, files, kept>>
  BY DEF TakeResponse, diskVars
<1>2. ToAnswer' = ToAnswer /\ Answered' = Answered
  BY <1>1 DEF ToAnswer, Whole, Answered
<1>3. CASE ~reading
  BY <1>1, <1>3 DEF Coming, Connected
<1>4. CASE reading
  <2>1. PICK r \in Seq(Data), a \in Seq(Data), z \in Seq(Data) :
            r = responses /\ a = Answered /\ z = ToAnswer
    BY ComingTypes
  <2>2. Coming = (r \o a) \o z /\ Coming' = (Tail(r) \o a) \o z
    BY <1>1, <1>2, <1>4, <2>1 DEF Coming
  <2>3. r \o a # <<>> /\ Tail(r \o a) = Tail(r) \o a /\ r \o a \in Seq(Data)
    BY <1>1, <2>1, ConcatTail, TwoConcat
  <2>4. (r \o a) \o z # <<>> /\ Tail((r \o a) \o z) = Tail(r \o a) \o z
    BY <2>3, ConcatTail
  <2>5. Coming # <<>> /\ Coming' = Tail(Coming)
    BY <2>2, <2>3, <2>4, Zenon
  <2> QED BY <1>1, <2>5 DEF Connected
<1> QED BY <1>3, <1>4, ComingTypes

\* When the link breaks, answers are lost from the last one on.
LEMMA ComingBreaks ==
    ASSUME TypesInv, LinkBreaks \/ (NodeReturns /\ linked)
    PROVE  ~Connected' /\ \E m \in 0..Len(Coming) : Coming' = SubSeq(Coming, 1, m)
<1>1. ~linked' /\ down' \in Shortened(down) /\ UNCHANGED <<responses, reading>>
  BY DEF LinkBreaks, NodeReturns
<1>2. ToAnswer' = <<>>
  BY <1>1 DEF ToAnswer
<1>3. CASE ~reading
  <2>1. Coming = responses /\ Coming' = responses /\ responses \in Seq(Data)
    BY <1>1, <1>3, ComingTypes DEF Coming
  <2> QED BY <1>1, <2>1, AllLeft DEF Connected
<1>4. CASE reading
  <2>1. PICK r \in Seq(Data), a \in Seq(Data), z \in Seq(Data) :
            r = responses /\ a = Answered /\ z = ToAnswer
    BY ComingTypes
  <2>2. a = AnsweredOf(down) /\ Answered' = AnsweredOf(down')
    BY <2>1 DEF Answered, AnsweredOf
  <2>3. PICK n \in 0..Len(a) : AnsweredOf(down') = SubSeq(a, 1, n)
    <3>1. down \in Seq(Parts)
      BY ComingTypes
    <3>2. \E n \in 0..Len(AnsweredOf(down)) :
              AnsweredOf(down') = SubSeq(AnsweredOf(down), 1, n)
      BY <1>1, <3>1, AnsweredFewer
    <3> QED BY <2>2, <3>2
  <2>4. Coming = (r \o a) \o z /\ Coming' = (r \o SubSeq(a, 1, n)) \o <<>>
    BY <1>1, <1>2, <1>4, <2>1, <2>2, <2>3 DEF Coming
  <2>5. \E m \in 0..Len((r \o a) \o z) :
            (r \o SubSeq(a, 1, n)) \o <<>> = SubSeq((r \o a) \o z, 1, m)
    BY LastAreLost
  <2>6. \E m \in 0..Len(Coming) : Coming' = SubSeq(Coming, 1, m)
    BY <2>4, <2>5, Zenon
  <2> QED BY <1>1, <2>6 DEF Connected
<1> QED BY <1>3, <1>4, ComingTypes

LEMMA ComingEnds ==
    ASSUME TypesInv, ReaderEnds
    PROVE  ~Connected' /\ \E m \in 0..Len(Coming) : Coming' = SubSeq(Coming, 1, m)
<1>1. reading /\ ~reading' /\ responses' = responses
  BY DEF ReaderEnds
<1>2. PICK r \in Seq(Data), a \in Seq(Data), z \in Seq(Data) :
          r = responses /\ a = Answered /\ z = ToAnswer
  BY ComingTypes
<1>3. Coming = (r \o a) \o z /\ Coming' = r
  BY <1>1, <1>2 DEF Coming
<1>4. \E m \in 0..Len((r \o a) \o z) : r = SubSeq((r \o a) \o z, 1, m)
  BY OnlyFirstLeft
<1>5. \E m \in 0..Len(Coming) : Coming' = SubSeq(Coming, 1, m)
  BY <1>3, <1>4, Zenon
<1> QED BY <1>1, <1>5 DEF Connected

-----------------------------------------------------------------------------
(* An upload is a Transfer                                                 *)

Unseen == UNCHANGED <<Outstanding, Writing, Connected, Stored, Coming>>

LEMMA UnseenIsStutter ==
    ASSUME Unseen
    PROVE  UNCHANGED Upload!transferVars
BY DEF Unseen, Upload!transferVars, Writing, Connected, Stored, Coming

LEMMA IsAccept ==
    ASSUME NEW d \in Data, Writing, Outstanding' = Append(Outstanding, d),
           UNCHANGED <<Writing, Connected, Stored, Coming>>
    PROVE  Upload!Next
<1>1. Upload!Accept(d)
  BY DEF Upload!Accept, Writing, Connected, Stored, Coming
<1> QED BY <1>1 DEF Upload!Next

LEMMA IsStore ==
    ASSUME NEW d, Outstanding # <<>>, Head(Outstanding) = d, Outstanding' = Tail(Outstanding),
           Stored' = Stored \cup {d}, Writing' = Writing, Connected' = Connected,
           Coming' = IF Connected THEN Append(Coming, d) ELSE Coming
    PROVE  Upload!Next
<1>1. Upload!Store
  BY DEF Upload!Store, Writing, Connected, Stored, Coming
<1> QED BY <1>1 DEF Upload!Next

LEMMA IsAnswer ==
    ASSUME Coming # <<>>, Coming' = Tail(Coming),
           UNCHANGED <<Outstanding, Writing, Connected, Stored>>
    PROVE  Upload!Next
<1>1. Upload!Answer
  BY DEF Upload!Answer, Writing, Connected, Stored, Coming
<1> QED BY <1>1 DEF Upload!Next

LEMMA IsDisconnect ==
    ASSUME ~Connected', \E m \in 0..Len(Coming) : Coming' = SubSeq(Coming, 1, m),
           UNCHANGED <<Outstanding, Writing, Stored>>
    PROVE  Upload!Next
<1>1. Connected' = FALSE
  BY DEF Connected
<1>2. Upload!Disconnect
  BY <1>1 DEF Upload!Disconnect, Writing, Connected, Stored, Coming
<1> QED BY <1>2 DEF Upload!Next

LEMMA IsGiveUp ==
    ASSUME ~Connected, Outstanding # <<>>, ~Writing',
           \E m \in 0..Len(Outstanding) : Outstanding' = SubSeq(Outstanding, 1, m),
           UNCHANGED <<Connected, Stored, Coming>>
    PROVE  Upload!Next
<1>1. Writing' = FALSE
  BY DEF Writing
<1>2. Upload!GiveUp
  BY <1>1 DEF Upload!GiveUp, Writing, Connected, Stored, Coming
<1> QED BY <1>2 DEF Upload!Next

\* What only the writer knows of is not seen.
LEMMA WriterUnseen ==
    ASSUME UploadInv, UploadInv', WriteHeader \/ WriteChunk \/ ChunkFails \/ WriterEnds
    PROVE  Unseen
<1>1. /\ writer.pc # "panicked" /\ writer'.pc # "panicked"
      /\ UNCHANGED <<accepted, linked, down, reading, responses, node, files, kept>>
  <2>1. writer.pc \in {"next", "chunks"}
        /\ UNCHANGED <<accepted, linked, down, reading, responses, node, files, kept>>
    BY DEF WriteHeader, WriteChunk, ChunkFails, WriterEnds, Write, diskVars
  <2>2. writer \in [pc : {"next", "chunks", "done", "panicked"},
                    taken : 0..Len(accepted), written : Nat]
    BY DEF UploadInv, TypesInv, StreamsTypeOK
  <2>3. writer'.pc \in {"next", "chunks", "done"}
    <3>1. \A n, d : AfterChunks(n, d) \in {"next", "chunks"}
      BY DEF AfterChunks
    <3>2. CASE WriteHeader
      <4>1. writer'.pc = AfterChunks(0, accepted[writer.taken + 1])
        BY <3>2 DEF WriteHeader
      <4> QED BY <3>1, <4>1
    <3>3. CASE WriteChunk
      <4>1. writer'.pc = AfterChunks(writer.written + 1, accepted[writer.taken])
        BY <2>2, <3>3 DEF WriteChunk
      <4> QED BY <3>1, <4>1
    <3>4. CASE ChunkFails
      BY <2>2, <3>4 DEF ChunkFails
    <3>5. CASE WriterEnds
      BY <2>2, <3>5 DEF WriterEnds
    <3> QED BY <3>2, <3>3, <3>4, <3>5
  <2> QED BY <2>1, <2>3
<1>2. Quiet
  BY <1>1 DEF Quiet, Writing, Whole
<1>3. UNCHANGED <<Outstanding, Writing, Stored>>
  BY <1>2, QuietStep
<1>4. ToAnswer' = ToAnswer
  BY <1>1 DEF ToAnswer, Whole
<1>5. Coming' = Coming
  BY <1>1, <1>4, ComingStays
<1> QED BY <1>1, <1>3, <1>5 DEF Unseen, Connected

\* Steps that leave the writer, the node and what comes to it alone.
LEMMA ElsewhereQuiet ==
    ASSUME UNCHANGED <<accepted, writer, up, node, files, kept>>
    PROVE  Quiet
BY DEF Quiet, Writing, Whole, Arriving

LEMMA NotPanicked ==
    ASSUME UploadInv, linked
    PROVE  writer.pc # "panicked"
<1>1. PICK at : \E pos \in Nat, k \in Nat : UploadAt(at, pos, k)
  BY DEF UploadInv
<1> QED BY <1>1 DEF UploadAt, WriterAt

LEMMA BreaksIsDisconnect ==
    ASSUME UploadInv, UploadInv', LinkBreaks \/ (NodeReturns /\ linked)
    PROVE  Upload!Next
<1>1. TypesInv
  BY DEF UploadInv
<1>2. linked /\ UNCHANGED <<accepted, writer, files, kept>>
  BY DEF LinkBreaks, NodeReturns, diskVars
<1>3. Quiet
  BY <1>2, NotPanicked DEF Quiet, Writing, Whole
<1>4. UNCHANGED <<Outstanding, Writing, Stored>>
  BY <1>3, QuietStep
<1>5. ~Connected' /\ \E m \in 0..Len(Coming) : Coming' = SubSeq(Coming, 1, m)
  BY <1>1, ComingBreaks
<1> QED BY <1>4, <1>5, IsDisconnect

LEMMA ReturnsAfterBreak ==
    ASSUME UploadInv, UploadInv', NodeReturns, ~linked
    PROVE  Upload!Next \/ Unseen
<1>1. /\ UNCHANGED <<accepted, writer, files, kept, responses, reading, down>>
      /\ ~linked'
  BY DEF NodeReturns
<1>2. Coming' = Coming /\ Connected' = Connected
  BY <1>1, ComingStays DEF ToAnswer, Connected
<1>3. CASE writer.pc = "panicked"
  <2>1. /\ ~linked /\ ~Writing /\ ~Writing' /\ Stored' = Stored
        /\ \/ /\ Outstanding # <<>>
              /\ \E m \in 0..Len(Outstanding) : Outstanding' = SubSeq(Outstanding, 1, m)
           \/ Outstanding' = Outstanding
    BY <1>3, LeaveStep
  <2>2. ~Connected /\ Writing' = Writing
    BY <2>1 DEF Connected, Writing
  <2>3. CASE Outstanding' = Outstanding
    BY <1>2, <2>1, <2>2, <2>3 DEF Unseen
  <2>4. CASE /\ Outstanding # <<>>
             /\ \E m \in 0..Len(Outstanding) : Outstanding' = SubSeq(Outstanding, 1, m)
    BY <1>2, <2>1, <2>2, <2>4, IsGiveUp
  <2> QED BY <2>1, <2>3, <2>4
<1>4. CASE writer.pc # "panicked"
  <2>1. Quiet
    BY <1>1, <1>4 DEF Quiet, Writing, Whole
  <2>2. UNCHANGED <<Outstanding, Writing, Stored>>
    BY <2>1, QuietStep
  <2> QED BY <1>2, <2>2 DEF Unseen
<1> QED BY <1>3, <1>4

LEMMA TransferStep ==
    ASSUME UploadInv, UploadInv', [StreamsNext]_streamsVars
    PROVE  Upload!Next \/ Unseen
<1>1. TypesInv /\ TypesInv' /\ PushedOnce /\ FilesInv
  BY DEF UploadInv
<1>2. ASSUME NEW d \in Data, Push(d) PROVE Upload!Next
  <2>1. /\ Writing /\ Outstanding' = Append(Outstanding, d)
        /\ UNCHANGED <<Writing, Stored>>
    BY <1>2, PushStep
  <2>2. Coming' = Coming /\ Connected' = Connected
    BY <1>2 DEF Push, diskVars, Coming, Connected, Answered, ToAnswer, Whole
  <2> QED BY <2>1, <2>2, IsAccept
<1>3. CASE WriteHeader \/ WriteChunk \/ ChunkFails \/ WriterEnds
  BY <1>3, WriterUnseen
<1>4. CASE WriterPanics
  <2>1. /\ ~linked /\ Outstanding # <<>> /\ ~Writing' /\ Stored' = Stored
        /\ \E m \in 0..Len(Outstanding) : Outstanding' = SubSeq(Outstanding, 1, m)
    BY <1>4, PanicStep
  <2>2. Coming' = Coming /\ Connected' = Connected
    BY <1>4 DEF WriterPanics, Write, diskVars, Coming, Connected, Answered, ToAnswer, Whole
  <2>3. ~Connected
    BY <2>1 DEF Connected
  <2> QED BY <2>1, <2>2, <2>3, IsGiveUp
<1>5. CASE LinkBreaks \/ NodeReturns
  BY <1>5, BreaksIsDisconnect, ReturnsAfterBreak
<1>6. ASSUME NEW d \in Data, TakeHeader(d) PROVE Unseen
  <2>1. files[d] = "none"
    <3>1. PICK at : \E pos \in Nat, k \in Nat : UploadAt(at, pos, k)
      BY DEF UploadInv
    <3>2. PICK pos \in Nat, k \in Nat : UploadAt(at, pos, k)
      BY <3>1
    <3> QED BY <1>1, <1>6, <3>2, UploadTakeHeader
  <2>2. Coming' = Coming /\ Connected' = Connected
    BY <1>6, <2>1, ComingTakeHeader
  <2>3. UNCHANGED <<Outstanding, Writing, Stored>>
    BY <1>1, <1>6, TakeHeaderQuiet, QuietStep
  <2> QED BY <2>2, <2>3 DEF Unseen
<1>7. CASE MakeFile \/ KeepChunk
  <2>1. PICK d \in Data : d = node.data
    BY <1>1, ComingTypes
  <2>2. /\ ~Whole(d)' => Coming' = Coming
        /\ Whole(d)' => Coming' = IF Connected THEN Append(Coming, d) ELSE Coming
        /\ Connected' = Connected
    BY <1>7, <2>1, ComingFilled
  <2>3. CASE Whole(d)'
    <3>1. /\ Outstanding # <<>> /\ Head(Outstanding) = d /\ Outstanding' = Tail(Outstanding)
          /\ Stored' = Stored \cup {d} /\ Writing' = Writing
      BY <1>7, <2>1, <2>3, StoreStep
    <3> QED BY <2>2, <2>3, <3>1, IsStore
  <2>4. CASE ~Whole(d)'
    <3>1. UNCHANGED <<Outstanding, Writing, Stored>>
      BY <1>7, <2>1, <2>4, FillsQuietly, QuietStep
    <3> QED BY <2>2, <2>4, <3>1 DEF Unseen
  <2> QED BY <2>3, <2>4
<1>8. CASE Answer
  <2>1. Coming' = Coming /\ Connected' = Connected
    BY <1>8, ComingAnswered
  <2>2. Quiet
    <3>1. /\ UNCHANGED <<accepted, writer, up, files, kept>> /\ node'.pc = "frame"
          /\ node.pc = "storing" /\ files[node.data] = "opened"
          /\ Len(kept[node.data]) = Size[node.data]
      BY <1>1, <1>8 DEF Answer, TypesInv, StreamsTypeOK
    <3>2. Whole(node.data)
      BY <1>1, <3>1, ComingTypes, WholeOf
    <3>3. ASSUME NEW d \in Data, ~Whole(d) PROVE Arriving(d)' <=> Arriving(d)
      <4>1. d # node.data
        BY <3>2, <3>3
      <4> QED BY <3>1, <4>1 DEF Arriving
    <3> QED BY <3>1, <3>3 DEF Quiet, Writing, Whole
  <2>3. UNCHANGED <<Outstanding, Writing, Stored>>
    BY <2>2, QuietStep
  <2> QED BY <2>1, <2>3 DEF Unseen
<1>9. ASSUME NEW d \in Data, ReadAnswer(d) PROVE Unseen
  <2>1. Coming' = Coming /\ Connected' = Connected
    BY <1>1, <1>9, ComingRead
  <2>2. UNCHANGED <<accepted, writer, up, node, files, kept>>
    BY <1>9 DEF ReadAnswer, diskVars
  <2>3. UNCHANGED <<Outstanding, Writing, Stored>>
    BY <2>2, ElsewhereQuiet, QuietStep
  <2> QED BY <2>1, <2>3 DEF Unseen
<1>10. CASE ReaderEnds
  <2>1. ~Connected' /\ \E m \in 0..Len(Coming) : Coming' = SubSeq(Coming, 1, m)
    BY <1>1, <1>10, ComingEnds
  <2>2. UNCHANGED <<accepted, writer, up, node, files, kept>>
    BY <1>10 DEF ReaderEnds, diskVars
  <2>3. UNCHANGED <<Outstanding, Writing, Stored>>
    BY <2>2, ElsewhereQuiet, QuietStep
  <2> QED BY <2>1, <2>3, IsDisconnect
<1>11. CASE TakeResponse
  <2>1. Coming # <<>> /\ Coming' = Tail(Coming) /\ Connected' = Connected
    BY <1>1, <1>11, ComingTaken
  <2>2. UNCHANGED <<accepted, writer, up, node, files, kept>>
    BY <1>11 DEF TakeResponse, diskVars
  <2>3. UNCHANGED <<Outstanding, Writing, Stored>>
    BY <2>2, ElsewhereQuiet, QuietStep
  <2> QED BY <2>1, <2>3, IsAnswer
<1>12. CASE DownloadNext \/ UNCHANGED streamsVars
  <2>1. UNCHANGED <<uploadVars, diskVars>>
    BY <1>12, DownloadLeavesUpload DEF streamsVars
  <2>2. UNCHANGED <<accepted, writer, linked, up, down, reading, responses, node, files, kept>>
    BY <2>1 DEF uploadVars, diskVars
  <2>3. UNCHANGED <<Outstanding, Writing, Stored>>
    BY <2>2, ElsewhereQuiet, QuietStep
  <2>4. Coming' = Coming /\ Connected' = Connected
    BY <2>2 DEF Coming, Connected, Answered, ToAnswer, Whole
  <2> QED BY <2>3, <2>4 DEF Unseen
<1> QED BY <1>2, <1>3, <1>4, <1>5, <1>6, <1>7, <1>8, <1>9, <1>10, <1>11, <1>12
        DEF StreamsNext, DownloadNext

(* An upload keeps what Transfer promises the producer, for any data and    *)
(* sizes and wherever the stream breaks (remote.rs:143 to 169, data-node's  *)
(* main.rs:36 to 92): what is outstanding, stored and still to be answered  *)
(* begins as in Transfer, and every step is one of Transfer or unseen.      *)
THEOREM UploadRefines == StreamsSpec => UploadIsTransfer
<1>1. StreamsInit => Upload!Init
  <2> SUFFICES ASSUME StreamsInit PROVE Upload!Init
    OBVIOUS
  <2>1. /\ accepted = <<>> /\ responses = <<>> /\ down = <<>> /\ writer.pc = "next"
        /\ linked /\ reading /\ node.pc = "frame" /\ \A d \in Data : files[d] = "none"
    BY DEF StreamsInit
  <2>2. UploadInv /\ TypesInv
    BY UploadInitially DEF UploadInv
  <2>3. Outstanding = <<>>
    <3>1. PICK n \in Nat, c \in Nat : Viewed(n, c)
      BY <2>2, ViewExists
    <3>2. n <= c /\ c <= Len(accepted) /\ Outstanding = SubSeq(accepted, n + 1, c)
      BY <2>2, <3>1, OutstandingIs
    <3>3. Len(accepted) = 0
      BY <2>1, EmptySeq
    <3>4. n + 1 > c
      BY <3>2, <3>3
    <3> QED BY <3>2, <3>4, SubSeqEmpty
  <2>4. Answered = <<>> /\ ToAnswer = <<>>
    <3>1. Len(down) = 0
      BY <2>1, EmptySeq
    <3>2. AnsweredOf(down) \in Seq(Data) /\ Len(AnsweredOf(down)) = 0 \div 3
      BY <2>2, <3>1, ComingTypes, AnsweredTypes
    <3>3. Answered \in Seq(Data) /\ Len(Answered) = 0
      BY <2>2, <3>2, ComingTypes
    <3> QED BY <2>1, <3>3, EmptySeq DEF ToAnswer
  <2>5. Coming = <<>>
    <3>1. <<>> \in Seq(Data)
      BY EmptySeq
    <3>2. Coming = (<<>> \o <<>>) \o <<>>
      BY <2>1, <2>4 DEF Coming
    <3> QED BY <3>1, <3>2, ConcatEmptySeq
  <2>6. Stored = {} /\ Writing = TRUE /\ Connected = TRUE
    BY <2>1 DEF Stored, Writing, Connected, Whole
  <2> QED BY <2>3, <2>5, <2>6 DEF Upload!Init, Stored, Writing, Connected, Coming
<1>2. UploadInv /\ UploadInv' /\ [StreamsNext]_streamsVars
         => [Upload!Next]_(Upload!transferVars)
  BY TransferStep, UnseenIsStutter
<1> QED BY <1>1, <1>2, UploadAlways, PTL DEF StreamsSpec, UploadIsTransfer, Upload!Spec
-----------------------------------------------------------------------------
(* What a download carries                                                 *)

\* Nothing was delivered of what was served before all of it was there.
Trusted == \A i \in 1..Len(delivered) : delivered[i].of \notin early

\* ds are the data whose frames were served, up to the first that was served
\* too early, and fs is where their frames begin, counted in parts since the
\* stream began.
FeedOffsets(ds, fs, L) ==
    /\ \A n \in Nat : fs[n] \in Nat
    /\ \A n \in 1..L : ds[n] \in Data /\ fs[n + 1] = fs[n] + 3 + Size[ds[n]]
    /\ \A m \in 1..L, n \in 1..(L + 1) : m < n => fs[m + 1] <= fs[n]

\* Its reader is between two of these frames.
FeedPos(fs) == fs[Len(delivered) + 1]
FeedEnd(fs) == FeedPos(fs) + Len(feed)

ServedOnce(ds, L) ==
    /\ \A m, n \in 1..L : ds[m] = ds[n] => m = n
    /\ \A n \in 1..L : ds[n] \in visited /\ ds[n] \notin early

AllServed(ds, L) ==
    early = {} /\ serve.pc \notin {"failed", "broken"} =>
        \A d \in visited \cap wanted : \E n \in 1..L : ds[n] = d

DeliveredAre(ds, L) ==
    Len(delivered) <= L /\ \A i \in 1..Len(delivered) : delivered[i].of = ds[i]

FeedHas(ds, fs, L) ==
    \A n \in 1..L : n > Len(delivered) =>
        \A j \in 1..(3 + Size[ds[n]]), i \in 1..Len(feed) :
            FeedPos(fs) + i = fs[n] + j => feed[i] = Frame(ds[n])[j]

\* The stream ends with these frames, as far as the last one is served.
ServedTo(ds, fs, L) ==
    \/ /\ serve.pc = "sending" /\ L > 0 /\ ds[L] = serve.data
       /\ FeedEnd(fs) = fs[L] + 3 + serve.sent
    \/ serve.pc = "broken" /\ FeedEnd(fs) <= fs[L + 1]
    \/ serve.pc \notin {"sending", "broken"} /\ FeedEnd(fs) = fs[L + 1]

\* The three parts after place b are the header of e, as far as they are there.
HeaderAt(e, fs, b) ==
    \A j \in 1..3, i \in 1..Len(feed) :
        FeedPos(fs) + i = b + j => feed[i] = Frame(e)[j]

\* They are followed by the header of something that was served too early.
EarlyNext(ds, fs, L) ==
    /\ \E e \in early : HeaderAt(e, fs, fs[L + 1])
    /\ serve.pc # "broken" => FeedEnd(fs) >= fs[L + 1] + 3
    /\ serve.pc = "sending" => \A n \in 1..L : ds[n] # serve.data

FeedAt(ds, fs, L) ==
    /\ FeedOffsets(ds, fs, L) /\ ServedOnce(ds, L) /\ AllServed(ds, L)
    /\ DeliveredAre(ds, L) /\ FeedHas(ds, fs, L)
    /\ ServedTo(ds, fs, L) \/ EarlyNext(ds, fs, L)

ServeInv ==
    /\ serve.pc = "start" => visited = {}
    /\ serve.pc = "sending" =>
          serve.sent <= Len(kept[serve.data]) /\ serve.data \in visited
    /\ early \subseteq visited
    /\ serve.pc = "done" => listed \subseteq visited
    /\ consumer = "ended" => serve.pc \in {"done", "failed", "broken"}

DeliveredIntact ==
    \A i \in 1..Len(delivered) :
        Intact(delivered[i]) \/ \E j \in 1..i : delivered[j].of \in early

DeliveredOnce(d) ==
    \E i \in 1..Len(delivered) :
        /\ delivered[i].of = d
        /\ \A j \in (1..Len(delivered)) \ {i} : delivered[j].of # d

EndedComplete ==
    consumer = "ended" /\ serve.pc = "done" /\ early = {} =>
        \A d \in visited \cap wanted : DeliveredOnce(d)

FeedKnown ==
    consumer = "reading" /\ Trusted => \E ds, fs : \E L \in Nat : FeedAt(ds, fs, L)

FeedInv == ServeInv /\ DeliveredIntact /\ EndedComplete /\ FeedKnown

LEMMA DownBasics ==
    ASSUME TypesInv
    PROVE  /\ feed \in Seq(Parts) /\ Len(feed) \in Nat
           /\ Len(delivered) \in Nat /\ DOMAIN delivered = 1..Len(delivered)
           /\ serve.pc \in {"start", "listing", "sending", "done", "failed", "broken"}
           /\ serve.data \in Data /\ serve.sent \in Nat
           /\ serve = [pc |-> serve.pc, data |-> serve.data, sent |-> serve.sent]
           /\ wanted \subseteq Data /\ listed \subseteq Data /\ visited \subseteq Data
           /\ early \subseteq Data
           /\ consumer \in {"reading", "left", "ended", "panicked"}
           /\ \A d \in Data : /\ files[d] \in Files /\ kept[d] \in Seq(Parts)
                              /\ Len(kept[d]) \in Nat /\ Size[d] \in Nat
                              /\ Len(kept[d]) <= Size[d]
<1> USE DEF TypesInv, StreamsTypeOK
<1>1. feed \in Seq(Parts) /\ delivered \in Seq([of : Data, content : Seq(Parts)])
  OBVIOUS
<1>2. Len(feed) \in Nat /\ Len(delivered) \in Nat /\ DOMAIN delivered = 1..Len(delivered)
  BY <1>1, LenProperties
<1>3. serve \in [pc : {"start", "listing", "sending", "done", "failed", "broken"},
                 data : Data, sent : Nat]
  OBVIOUS
<1>4. serve = [pc |-> serve.pc, data |-> serve.data, sent |-> serve.sent]
  BY <1>3
<1> QED BY <1>1, <1>2, <1>3, <1>4, Basics

\* Files only grow.
LEMMA FilesGrow ==
    ASSUME TypesInv, StreamsNext, NEW d \in Data
    PROVE  Len(kept[d]) <= Len(kept'[d])
<1>1. CASE KeepChunk
  <2>1. kept' = [kept EXCEPT ![node.data] = Append(@, Head(up))]
    BY <1>1 DEF KeepChunk
  <2>2. kept[d] \in Seq(Parts) /\ kept \in [Data -> Seq(Parts)] /\ up \in Seq(Parts)
        /\ Len(kept[d]) \in Nat /\ up # <<>>
    BY <1>1, Basics DEF TypesInv, StreamsTypeOK, KeepChunk
  <2>3. Head(up) \in Parts
    BY <2>2, HeadTailProperties
  <2>4. Len(Append(kept[d], Head(up))) = Len(kept[d]) + 1
    BY <2>2, <2>3, AppendProperties
  <2>5. kept'[d] = kept[d] \/ kept'[d] = Append(kept[d], Head(up))
    BY <2>1, <2>2
  <2> QED BY <2>2, <2>4, <2>5
<1>2. CASE kept' = kept
  BY <1>2, Basics
<1>3. CASE DownloadNext
  BY <1>2, <1>3, DownloadLeavesUpload DEF diskVars
<1>4. CASE UploadWrites \/ \E e \in Data : Push(e)
  BY <1>2, <1>4 DEF UploadWrites, WriteHeader, WriteChunk, ChunkFails, WriterPanics,
     WriterEnds, Write, Push, diskVars
<1>5. CASE \/ LinkBreaks \/ \E e \in Data : TakeHeader(e)
           \/ MakeFile \/ Answer \/ NodeReturns
           \/ \E e \in Data : ReadAnswer(e)
           \/ ReaderEnds \/ TakeResponse
  BY <1>2, <1>5 DEF LinkBreaks, TakeHeader, MakeFile, Answer, NodeReturns, ReadAnswer,
     ReaderEnds, TakeResponse, diskVars
<1> QED BY <1>1, <1>3, <1>4, <1>5 DEF StreamsNext, UploadWrites, DownloadNext

UploadNext ==
    \/ \E d \in Data : Push(d)
    \/ UploadWrites \/ LinkBreaks
    \/ \E d \in Data : TakeHeader(d)
    \/ MakeFile \/ KeepChunk \/ Answer \/ NodeReturns
    \/ \E d \in Data : ReadAnswer(d)
    \/ ReaderEnds \/ TakeResponse

LEMMA UploadLeavesDownload ==
    ASSUME UploadNext
    PROVE  UNCHANGED downloadVars
BY DEF UploadNext, UploadWrites, WriteHeader, WriteChunk, ChunkFails, WriterPanics,
       WriterEnds, Write, Push, LinkBreaks, TakeHeader, MakeFile, KeepChunk, Take,
       Answer, NodeReturns, ReadAnswer, ReaderEnds, TakeResponse

LEMMA ServeInvStep ==
    ASSUME TypesInv, StreamsNext, ServeInv
    PROVE  ServeInv'
<1>1. CASE UploadNext
  <2>1. UNCHANGED <<serve, visited, early, listed, consumer>>
    BY <1>1, UploadLeavesDownload DEF downloadVars
  <2>2. PICK d \in Data : d = serve.data
    BY DownBasics
  <2>3. Len(kept[d]) <= Len(kept'[d]) /\ Len(kept[d]) \in Nat /\ serve.sent \in Nat
    BY FilesGrow, DownBasics
  <2>4. Len(kept'[d]) \in Nat
    <3>1. TypesInv'
      BY TypesStep
    <3>2. kept'[d] \in Seq(Parts)
      BY <3>1 DEF TypesInv, StreamsTypeOK
    <3> QED BY <3>2, LenProperties
  <2>5. serve.sent <= Len(kept[d]) => serve.sent <= Len(kept'[d])
    BY <2>3, <2>4
  <2> QED BY <2>1, <2>2, <2>5 DEF ServeInv
<1>2. CASE Serve
  BY <1>2, DownBasics DEF Serve, ServeInv
<1>3. CASE \E d \in Data : ServeUndescribed(d) \/ ServeSkips(d)
  BY <1>3, DownBasics DEF ServeUndescribed, ServeSkips, Visit, ServeInv
<1>4. CASE \E d \in Data : ServeHeader(d)
  BY <1>4, DownBasics DEF ServeHeader, Visit, ServeInv, diskVars
<1>5. CASE ServeChunk
  <2>1. /\ serve.sent + 1 <= Len(kept[serve.data]) /\ serve'.sent = serve.sent + 1
        /\ serve'.pc = "sending" /\ serve'.data = serve.data
    BY <1>5, DownBasics DEF ServeChunk
  <2> QED BY <1>5, <2>1 DEF ServeChunk, ServeInv, diskVars
<1>6. CASE ContentEnds
  BY <1>6, DownBasics DEF ContentEnds, ServeInv
<1>7. CASE ServeEnds \/ FeedBreaks
  BY <1>7, DownBasics DEF ServeEnds, FeedBreaks, ServeInv
<1>8. CASE (\E d \in Data : ReadItem(d)) \/ ReadEnds \/ ReadPanics
  BY <1>8, DownBasics DEF ReadItem, ReadEnds, ReadPanics, ServeInv, diskVars
<1> QED BY <1>1, <1>2, <1>3, <1>4, <1>5, <1>6, <1>7, <1>8
        DEF StreamsNext, UploadNext, UploadWrites

LEMMA FeedStays ==
    ASSUME UNCHANGED <<serve, wanted, visited, early, feed, delivered>>,
           NEW ds, NEW fs, NEW L, FeedAt(ds, fs, L)
    PROVE  FeedAt(ds, fs, L)'
<1>1. FeedOffsets(ds, fs, L)' /\ ServedOnce(ds, L)' /\ AllServed(ds, L)'
  BY DEF FeedAt, FeedOffsets, ServedOnce, AllServed
<1>2. FeedPos(fs)' = FeedPos(fs) /\ FeedEnd(fs)' = FeedEnd(fs)
  BY DEF FeedPos, FeedEnd
<1>3. DeliveredAre(ds, L)' /\ FeedHas(ds, fs, L)'
  BY <1>2 DEF FeedAt, DeliveredAre, FeedHas
<1>4. ServedTo(ds, fs, L) => ServedTo(ds, fs, L)'
  BY <1>2 DEF ServedTo
<1>5. EarlyNext(ds, fs, L) => EarlyNext(ds, fs, L)'
  <2>1. \A e \in early : HeaderAt(e, fs, fs[L + 1]) => HeaderAt(e, fs, fs[L + 1])'
    BY <1>2 DEF HeaderAt
  <2> QED BY <1>2, <2>1, Zenon DEF EarlyNext
<1> QED BY <1>1, <1>3, <1>4, <1>5 DEF FeedAt

LEMMA FeedOffsetsGrow ==
    ASSUME NEW ds, NEW fs, NEW L \in Nat, FeedOffsets(ds, fs, L)
    PROVE  /\ \A n \in Nat : fs[n] \in Nat
           /\ \A n \in 1..L : Size[ds[n]] \in Nat /\ ds[n] \in Data
                              /\ fs[n + 1] = fs[n] + 3 + Size[ds[n]]
           /\ \A m \in 1..L, n \in 1..(L + 1) :
                 m < n => fs[m + 1] <= fs[n] /\ fs[m] + 3 <= fs[n]
<1>1. /\ \A n \in Nat : fs[n] \in Nat
      /\ \A n \in 1..L : ds[n] \in Data /\ fs[n + 1] = fs[n] + 3 + Size[ds[n]]
      /\ \A m \in 1..L, n \in 1..(L + 1) : m < n => fs[m + 1] <= fs[n]
  BY DEF FeedOffsets
<1>2. \A n \in 1..L : Size[ds[n]] \in Nat
  BY <1>1, StreamsAssumption
<1>3. ASSUME NEW m \in 1..L, NEW n \in 1..(L + 1), m < n PROVE fs[m] + 3 <= fs[n]
  <2>1. fs[m] \in Nat /\ fs[n] \in Nat /\ fs[m + 1] \in Nat /\ Size[ds[m]] \in Nat
    BY <1>1, <1>2
  <2>2. fs[m + 1] <= fs[n] /\ fs[m + 1] = fs[m] + 3 + Size[ds[m]]
    BY <1>1, <1>3
  <2> QED BY <2>1, <2>2
<1> QED BY <1>1, <1>2, <1>3

\* One more frame.
LEMMA FeedOffsetsMore ==
    ASSUME NEW ds, NEW fs, NEW L \in Nat, FeedOffsets(ds, fs, L), NEW d \in Data
    PROVE  \E cs, gs : /\ FeedOffsets(cs, gs, L + 1) /\ cs[L + 1] = d
                       /\ \A n \in 1..L : cs[n] = ds[n]
                       /\ \A n \in 1..(L + 1) : gs[n] = fs[n]
<1> DEFINE cs == [n \in Nat |-> IF n = L + 1 THEN d ELSE ds[n]]
           gs == [n \in Nat |-> IF n = L + 2 THEN fs[L + 1] + 3 + Size[d] ELSE fs[n]]
<1>1. Size[d] \in Nat /\ \A n \in Nat : fs[n] \in Nat
  BY StreamsAssumption, FeedOffsetsGrow
<1>2. /\ \A n \in Nat : gs[n] \in Nat
      /\ gs[L + 2] = fs[L + 1] + 3 + Size[d]
      /\ \A n \in 1..(L + 1) : gs[n] = fs[n]
      /\ cs[L + 1] = d /\ \A n \in 1..L : cs[n] = ds[n]
  BY <1>1
<1> HIDE DEF cs, gs
<1>3. ASSUME NEW n \in 1..(L + 1)
      PROVE  cs[n] \in Data /\ gs[n + 1] = gs[n] + 3 + Size[cs[n]]
  <2>1. CASE n = L + 1
    <3>1. L + 1 \in 1..(L + 1) /\ (L + 1) + 1 = L + 2
      OBVIOUS
    <3>2. gs[L + 1] = fs[L + 1]
      BY <1>2, <3>1
    <3>3. gs[(L + 1) + 1] = gs[L + 1] + 3 + Size[cs[L + 1]]
      BY <1>2, <3>1, <3>2
    <3> QED BY <1>2, <2>1, <3>3
  <2>2. CASE n \in 1..L
    <3>1. n \in 1..(L + 1) /\ n + 1 \in 1..(L + 1)
      BY <2>2
    <3>2. gs[n] = fs[n] /\ gs[n + 1] = fs[n + 1] /\ cs[n] = ds[n]
      BY <1>2, <2>2, <3>1
    <3>3. ds[n] \in Data /\ fs[n + 1] = fs[n] + 3 + Size[ds[n]]
      BY <2>2, FeedOffsetsGrow
    <3> QED BY <3>2, <3>3
  <2> QED BY <2>1, <2>2
<1>4. ASSUME NEW m \in 1..(L + 1), NEW n \in 1..(L + 2), m < n
      PROVE  gs[m + 1] <= gs[n]
  <2>1. PICK a \in Nat, b \in Nat : a = gs[m + 1] /\ b = gs[n]
    BY <1>2
  <2>2. CASE n = m + 1
    BY <2>1, <2>2
  <2>3. CASE n \in 1..(L + 1) /\ m \in 1..L
    <3>1. fs[m + 1] <= fs[n]
      BY <1>4, <2>3 DEF FeedOffsets
    <3>2. m + 1 \in 1..(L + 1)
      BY <2>3
    <3>3. gs[m + 1] = fs[m + 1] /\ gs[n] = fs[n]
      BY <1>2, <2>3, <3>2
    <3> QED BY <3>1, <3>3
  <2>4. CASE n = L + 2 /\ m \in 1..L
    <3>1. PICK x \in Nat, y \in Nat : x = fs[m + 1] /\ y = fs[L + 1]
      BY <1>1
    <3>2. x <= y
      <4>1. CASE m + 1 = L + 1
        BY <3>1, <4>1
      <4>2. CASE m < L + 1
        <5>1. L + 1 \in 1..(L + 1)
          OBVIOUS
        <5> QED BY <2>4, <3>1, <4>2, <5>1 DEF FeedOffsets
      <4> QED BY <2>4, <4>1, <4>2
    <3>3. m + 1 \in 1..(L + 1)
      BY <2>4
    <3>4. a = x /\ b = y + 3 + Size[d]
      BY <1>2, <2>1, <2>4, <3>1, <3>3
    <3>5. a <= b
      BY <1>1, <3>2, <3>4
    <3> QED BY <2>1, <3>5
  <2>5. n = m + 1 \/ (n \in 1..(L + 1) /\ m \in 1..L) \/ (n = L + 2 /\ m \in 1..L)
    BY <1>4
  <2> QED BY <2>2, <2>3, <2>4, <2>5
<1>5. FeedOffsets(cs, gs, L + 1)
  <2>1. (L + 1) + 1 = L + 2
    OBVIOUS
  <2> QED BY <1>2, <1>3, <1>4, <2>1, Zenon DEF FeedOffsets
<1> QED BY <1>2, <1>5

\* What is in a frame that was served is before the end of the frames.
LEMMA InFrames ==
    ASSUME NEW ds, NEW fs, NEW L \in Nat, FeedOffsets(ds, fs, L),
           NEW n \in 1..L, NEW j \in 1..(3 + Size[ds[n]])
    PROVE  /\ fs[n] + j \in Nat /\ fs[L + 1] \in Nat /\ fs[L] \in Nat
           /\ fs[n] + j <= fs[L + 1]
           /\ n < L => fs[n] + j <= fs[L]
<1>1. /\ fs[n] \in Nat /\ fs[n + 1] \in Nat /\ fs[L] \in Nat /\ fs[L + 1] \in Nat
      /\ Size[ds[n]] \in Nat /\ fs[n + 1] = fs[n] + 3 + Size[ds[n]]
  BY FeedOffsetsGrow
<1>2. L + 1 \in 1..(L + 1) /\ L \in 1..(L + 1) /\ n < L + 1
  OBVIOUS
<1>3. fs[n + 1] <= fs[L + 1] /\ (n < L => fs[n + 1] <= fs[L])
  BY <1>2, FeedOffsetsGrow
<1>4. fs[n] + j \in Nat /\ fs[n] + j <= fs[n + 1]
  BY <1>1
<1> QED BY <1>1, <1>3, <1>4

\* The same for one state: R data are delivered, and U parts are in the
\* stream, after the first p.
FeedOpen(ds, fs, L, R, U, p) ==
    /\ R = Len(delivered) /\ U = Len(feed) /\ p = fs[R + 1]
    /\ FeedPos(fs) = p /\ FeedEnd(fs) = p + U
    /\ FeedOffsets(ds, fs, L) /\ R <= L
    /\ \A i \in 1..R : delivered[i].of = ds[i]
    /\ \A m, n \in 1..L : ds[m] = ds[n] => m = n
    /\ \A n \in 1..L : ds[n] \in visited /\ ds[n] \notin early
    /\ \A n \in 1..L : n > R =>
          \A j \in 1..(3 + Size[ds[n]]), i \in 1..U :
              p + i = fs[n] + j => feed[i] = Frame(ds[n])[j]

LEMMA FeedOpened ==
    ASSUME TypesInv, NEW ds, NEW fs, NEW L \in Nat, FeedAt(ds, fs, L)
    PROVE  \E R \in Nat, U \in Nat, p \in Nat : FeedOpen(ds, fs, L, R, U, p)
<1>1. PICK R \in Nat : R = Len(delivered)
  BY DownBasics
<1>2. PICK U \in Nat : U = Len(feed)
  BY DownBasics
<1>3. /\ FeedOffsets(ds, fs, L) /\ ServedOnce(ds, L) /\ DeliveredAre(ds, L)
      /\ FeedHas(ds, fs, L)
  BY DEF FeedAt
<1>4. PICK p \in Nat : p = fs[R + 1]
  <2>1. R + 1 \in Nat
    OBVIOUS
  <2> QED BY <1>3, <2>1 DEF FeedOffsets
<1>5. FeedPos(fs) = p /\ FeedEnd(fs) = p + U
  BY <1>1, <1>2, <1>4 DEF FeedPos, FeedEnd
<1>6. R <= L /\ \A i \in 1..R : delivered[i].of = ds[i]
  BY <1>1, <1>3 DEF DeliveredAre
<1>7. /\ \A m, n \in 1..L : ds[m] = ds[n] => m = n
      /\ \A n \in 1..L : ds[n] \in visited /\ ds[n] \notin early
  BY <1>3 DEF ServedOnce
<1>8. \A n \in 1..L : n > R =>
          \A j \in 1..(3 + Size[ds[n]]), i \in 1..U :
              p + i = fs[n] + j => feed[i] = Frame(ds[n])[j]
  BY <1>1, <1>2, <1>3, <1>5 DEF FeedHas
<1>9. FeedOpen(ds, fs, L, R, U, p)
  BY <1>1, <1>2, <1>3, <1>4, <1>5, <1>6, <1>7, <1>8, Zenon DEF FeedOpen
<1> QED BY <1>9

HeaderAdded(s, t, d) ==
    /\ t \in Seq(Parts) /\ Len(t) = Len(s) + 3
    /\ \A i \in 1..Len(s) : t[i] = s[i]
    /\ \A i \in 1..3 : t[Len(s) + i] = Frame(d)[i]

LEMMA HeaderMore ==
    \A s \in Seq(Parts), d \in Data : HeaderAdded(s, s \o Header(d), d)
<1> SUFFICES ASSUME NEW s \in Seq(Parts), NEW d \in Data
             PROVE  HeaderAdded(s, s \o Header(d), d)
  OBVIOUS
<1>1. Header(d) \in Seq(Parts) /\ Len(Header(d)) = 3
      /\ \A i \in 1..3 : Header(d)[i] = Frame(d)[i]
  <2>1. Header(d) \in Seq(Parts) /\ Len(Header(d)) = 3
    BY FrameFacts
  <2>2. Header(d)[1] = <<"prefix", d>> /\ Frame(d)[1] = <<"prefix", d>>
    BY FrameFacts
  <2>3. Header(d)[2] = <<"rest", d>> /\ Frame(d)[2] = <<"rest", d>>
    BY FrameFacts
  <2>4. Header(d)[3] = <<"meta", d>> /\ Frame(d)[3] = <<"meta", d>>
    BY FrameFacts
  <2>5. \A i \in 1..3 : i = 1 \/ i = 2 \/ i = 3
    OBVIOUS
  <2> QED BY <2>1, <2>2, <2>3, <2>4, <2>5, Zenon
<1>2. PICK h \in Seq(Parts) : h = Header(d)
  BY <1>1
<1> DEFINE t == s \o h
<1>3. t = s \o h
  OBVIOUS
<1> HIDE DEF t
<1>4. /\ t \in Seq(Parts) /\ Len(t) = Len(s) + Len(h)
      /\ \A i \in 1..Len(s) : t[i] = s[i]
      /\ \A i \in 1..Len(h) : t[Len(s) + i] = h[i]
  BY <1>3, ConcatFacts
<1>5. HeaderAdded(s, t, d)
  BY <1>1, <1>2, <1>4 DEF HeaderAdded
<1> QED BY <1>2, <1>3, <1>5

\* serve_data_v1 does not visit a directory twice, and what it serves next
\* is behind all that it has served.
LEMMA FeedServeHeader ==
    ASSUME TypesInv, ServeInv, NEW ds, NEW fs, NEW L \in Nat, FeedAt(ds, fs, L),
           NEW d \in Data, ServeHeader(d)
    PROVE  \E cs, gs : \E M \in Nat : FeedAt(cs, gs, M)'
<1>0. PICK R \in Nat, U \in Nat, p \in Nat : FeedOpen(ds, fs, L, R, U, p)
  BY FeedOpened
<1>1. /\ R = Len(delivered) /\ U = Len(feed) /\ p = fs[R + 1]
      /\ FeedPos(fs) = p /\ FeedEnd(fs) = p + U
  BY <1>0 DEF FeedOpen
<1>2. /\ serve.pc = "listing" /\ d \notin visited /\ d \in wanted
      /\ visited' = visited \cup {d} /\ early' = early /\ wanted' = wanted
      /\ delivered' = delivered /\ feed' = feed \o Header(d)
      /\ serve'.pc = "sending" /\ serve'.data = d /\ serve'.sent = 0
  BY DEF ServeHeader, Visit
<1>3. /\ Len(feed') = U + 3
      /\ \A i \in 1..U : feed'[i] = feed[i]
      /\ \A i \in 1..3 : feed'[U + i] = Frame(d)[i]
  <2>1. feed \in Seq(Parts)
    BY DownBasics
  <2>2. HeaderAdded(feed, feed', d)
    BY <1>2, <2>1, HeaderMore
  <2> QED BY <1>1, <2>2 DEF HeaderAdded
<1>4. /\ FeedOffsets(ds, fs, L) /\ R <= L
      /\ \A i \in 1..R : delivered[i].of = ds[i]
      /\ \A m, n \in 1..L : ds[m] = ds[n] => m = n
      /\ \A n \in 1..L : ds[n] \in visited /\ ds[n] \notin early
      /\ \A n \in 1..L : n > R =>
            \A j \in 1..(3 + Size[ds[n]]), i \in 1..U :
                p + i = fs[n] + j => feed[i] = Frame(ds[n])[j]
  BY <1>0 DEF FeedOpen
<1>5. d \notin early
  BY <1>2 DEF ServeInv
<1>6. CASE ServedTo(ds, fs, L)
  <2>1. p + U = fs[L + 1]
    BY <1>1, <1>2, <1>6 DEF ServedTo, FeedEnd, FeedPos
  <2>2. PICK cs, gs : /\ FeedOffsets(cs, gs, L + 1) /\ cs[L + 1] = d
                      /\ \A n \in 1..L : cs[n] = ds[n]
                      /\ \A n \in 1..(L + 1) : gs[n] = fs[n]
    BY <1>4, FeedOffsetsMore
  <2>3. gs[R + 1] = p /\ gs[L + 1] = p + U
    <3>1. R + 1 \in 1..(L + 1) /\ L + 1 \in 1..(L + 1)
      BY <1>4
    <3> QED BY <1>1, <2>1, <2>2, <3>1
  <2>4. ServedOnce(cs, L + 1)'
    <3>1. ASSUME NEW m \in 1..(L + 1), NEW n \in 1..(L + 1), cs[m] = cs[n] PROVE m = n
      <4>1. \A q \in 1..L : cs[q] # d
        BY <1>2, <1>4, <2>2
      <4>2. CASE m \in 1..L /\ n \in 1..L
        BY <1>4, <2>2, <3>1, <4>2
      <4>3. CASE m = L + 1 \/ n = L + 1
        BY <2>2, <3>1, <4>1, <4>3
      <4> QED BY <4>2, <4>3
    <3>2. ASSUME NEW n \in 1..(L + 1) PROVE cs[n] \in visited' /\ cs[n] \notin early'
      <4>1. CASE n \in 1..L
        BY <1>2, <1>4, <2>2, <4>1
      <4>2. CASE n = L + 1
        BY <1>2, <1>5, <2>2, <4>2
      <4> QED BY <4>1, <4>2
    <3> QED BY <3>1, <3>2 DEF ServedOnce
  <2>5. AllServed(cs, L + 1)'
    <3> SUFFICES ASSUME early = {}, NEW e \in (visited \cup {d}) \cap wanted
                 PROVE  \E n \in 1..(L + 1) : cs[n] = e
      BY <1>2, Zenon DEF AllServed
    <3>1. CASE e = d
      <4>1. L + 1 \in 1..(L + 1)
        OBVIOUS
      <4> QED BY <2>2, <3>1, <4>1
    <3>2. CASE e # d
      <4>1. PICK n \in 1..L : ds[n] = e
        BY <1>2, <3>2 DEF FeedAt, AllServed
      <4>2. n \in 1..(L + 1) /\ cs[n] = e
        BY <2>2, <4>1
      <4> QED BY <4>2
    <3> QED BY <3>1, <3>2
  <2>6. DeliveredAre(cs, L + 1)'
    <3>1. R <= L + 1 /\ \A i \in 1..R : i \in 1..L
      BY <1>4
    <3>2. \A i \in 1..R : delivered[i].of = cs[i]
      BY <1>4, <2>2, <3>1
    <3> QED BY <1>1, <1>2, <3>1, <3>2 DEF DeliveredAre
  <2>7. FeedHas(cs, gs, L + 1)'
    <3>1. ASSUME NEW n \in 1..(L + 1), n > R, NEW j \in 1..(3 + Size[cs[n]]),
                 NEW i \in 1..(U + 3), p + i = gs[n] + j
          PROVE  feed'[i] = Frame(cs[n])[j]
      <4>1. CASE n \in 1..L
        <5>1. cs[n] = ds[n] /\ gs[n] = fs[n]
          BY <2>2, <4>1
        <5>2. j \in 1..(3 + Size[ds[n]])
          BY <5>1
        <5>3. fs[n] + j \in Nat /\ fs[n] + j <= p + U
          BY <1>4, <2>1, <4>1, <5>2, InFrames
        <5>4. i \in 1..U
          BY <3>1, <5>1, <5>3
        <5> QED BY <1>3, <1>4, <3>1, <4>1, <5>1, <5>2, <5>4
      <4>2. CASE n = L + 1
        <5>1. cs[n] = d /\ gs[n] = p + U /\ Size[d] \in Nat
          BY <2>2, <2>3, <4>2, StreamsAssumption
        <5>2. i = U + j /\ j \in 1..3
          BY <3>1, <5>1
        <5> QED BY <1>3, <5>1, <5>2
      <4> QED BY <4>1, <4>2
    <3>2. Len(delivered') = R /\ Len(feed') = U + 3 /\ FeedPos(gs)' = p
      BY <1>1, <1>2, <1>3, <2>3 DEF FeedPos
    <3> QED BY <3>1, <3>2, Zenon DEF FeedHas
  <2>8. ServedTo(cs, gs, L + 1)'
    <3>1. FeedEnd(gs)' = gs[L + 1] + 3 + 0
      <4>1. FeedEnd(gs)' = gs[R + 1] + Len(feed')
        BY <1>1, <1>2 DEF FeedEnd, FeedPos
      <4> QED BY <1>3, <2>3, <4>1
    <3>2. L + 1 > 0
      OBVIOUS
    <3> QED BY <1>2, <2>2, <3>1, <3>2 DEF ServedTo
  <2>9. FeedOffsets(cs, gs, L + 1)'
    BY <2>2 DEF FeedOffsets
  <2>10. FeedAt(cs, gs, L + 1)'
    BY <2>4, <2>5, <2>6, <2>7, <2>8, <2>9 DEF FeedAt
  <2> QED BY <2>10
<1>7. CASE EarlyNext(ds, fs, L)
  <2>1. PICK e \in early : \A j \in 1..3, i \in 1..U :
            p + i = fs[L + 1] + j => feed[i] = Frame(e)[j]
    <3>1. PICK f \in early : HeaderAt(f, fs, fs[L + 1])
      BY <1>7 DEF EarlyNext
    <3>2. \A j \in 1..3, i \in 1..U :
             p + i = fs[L + 1] + j => feed[i] = Frame(f)[j]
      BY <1>1, <3>1 DEF HeaderAt
    <3> QED BY <3>1, <3>2
  <2>2. PICK a \in Nat : a = fs[L + 1] /\ p + U >= a + 3
    BY <1>1, <1>2, <1>4, <1>7, FeedOffsetsGrow DEF EarlyNext, FeedEnd, FeedPos
  <2>3. Len(delivered') = R /\ Len(feed') = U + 3 /\ FeedPos(fs)' = p
        /\ FeedEnd(fs)' = p + (U + 3)
    BY <1>1, <1>2, <1>3 DEF FeedPos, FeedEnd
  <2>4. EarlyNext(ds, fs, L)'
    <3>1. ASSUME NEW j \in 1..3, NEW i \in 1..(U + 3), p + i = fs[L + 1] + j
          PROVE  feed'[i] = Frame(e)[j]
      <4>1. i \in 1..U
        BY <2>2, <3>1
      <4> QED BY <1>3, <2>1, <3>1, <4>1
    <3>2. p + (U + 3) >= fs[L + 1] + 3
      BY <2>2
    <3>3. \A n \in 1..L : ds[n] # d
      BY <1>2, <1>4
    <3>4. \E f \in early' : \A j \in 1..3, i \in 1..Len(feed') :
             FeedPos(fs)' + i = fs[L + 1] + j => feed'[i] = Frame(f)[j]
      <4>1. e \in early'
        BY <1>2, <2>1
      <4>2. \A j \in 1..3, i \in 1..Len(feed') :
               FeedPos(fs)' + i = fs[L + 1] + j => feed'[i] = Frame(e)[j]
        BY <2>3, <3>1, Zenon
      <4> QED BY <4>1, <4>2
    <3> QED BY <1>2, <2>3, <3>2, <3>3, <3>4, Zenon DEF EarlyNext, HeaderAt
  <2>5. ServedOnce(ds, L)' /\ DeliveredAre(ds, L)' /\ FeedOffsets(ds, fs, L)'
    BY <1>2 DEF FeedAt, ServedOnce, DeliveredAre, FeedOffsets
  <2>6. AllServed(ds, L)'
    BY <1>2, <2>1 DEF AllServed
  <2>7. FeedHas(ds, fs, L)'
    <3>1. ASSUME NEW n \in 1..L, n > R, NEW j \in 1..(3 + Size[ds[n]]),
                 NEW i \in 1..(U + 3), p + i = fs[n] + j
          PROVE  feed'[i] = Frame(ds[n])[j]
      <4>1. fs[n] + j \in Nat /\ fs[n] + j <= a
        BY <1>4, <2>2, InFrames
      <4>2. i \in 1..U
        BY <2>2, <3>1, <4>1
      <4> QED BY <1>3, <1>4, <3>1, <4>2
    <3> QED BY <2>3, <3>1, Zenon DEF FeedHas
  <2>8. FeedAt(ds, fs, L)'
    BY <2>4, <2>5, <2>6, <2>7 DEF FeedAt
  <2> QED BY <2>8
<1> QED BY <1>6, <1>7 DEF FeedAt

LEMMA FeedServeChunk ==
    ASSUME TypesInv, FilesInv, NEW ds, NEW fs, NEW L \in Nat, FeedAt(ds, fs, L),
           ServeChunk
    PROVE  FeedAt(ds, fs, L)'
<1>0. PICK R \in Nat, U \in Nat, p \in Nat : FeedOpen(ds, fs, L, R, U, p)
  BY FeedOpened
<1>1. /\ R = Len(delivered) /\ U = Len(feed) /\ p = fs[R + 1]
      /\ FeedPos(fs) = p /\ FeedEnd(fs) = p + U
  BY <1>0 DEF FeedOpen
<1>2. /\ FeedOffsets(ds, fs, L)
      /\ \A n \in 1..L : n > R =>
            \A j \in 1..(3 + Size[ds[n]]), i \in 1..U :
                p + i = fs[n] + j => feed[i] = Frame(ds[n])[j]
  BY <1>0 DEF FeedOpen
<1>3. PICK d \in Data, s \in Nat : d = serve.data /\ s = serve.sent
  BY DownBasics
<1>4. /\ serve.pc = "sending" /\ s < Len(kept[d])
      /\ feed' = Append(feed, kept[d][s + 1])
      /\ UNCHANGED <<wanted, visited, early, delivered>>
      /\ serve'.pc = "sending" /\ serve'.data = d /\ serve'.sent = s + 1
  BY <1>3, DownBasics DEF ServeChunk
<1>5. s + 1 \in 1..Len(kept[d]) /\ s + 1 \in 1..Size[d] /\ Size[d] \in Nat
  BY <1>4, DownBasics
<1>6. kept[d][s + 1] = Frame(d)[3 + (s + 1)] /\ kept[d][s + 1] \in Parts
  <2>1. kept[d][s + 1] = Chunks(d)[s + 1]
    BY <1>5 DEF FilesInv
  <2>2. kept[d] \in Seq(Parts)
    BY DownBasics
  <2> QED BY <1>5, <2>1, <2>2, FrameFacts, ElementOfSeq
<1>7. /\ Len(feed') = U + 1 /\ feed'[U + 1] = Frame(d)[3 + (s + 1)]
      /\ \A i \in 1..U : feed'[i] = feed[i]
  <2>1. feed \in Seq(Parts)
    BY DownBasics
  <2> QED BY <1>1, <1>4, <1>6, <2>1, AppendProperties
<1>8. Len(delivered') = R /\ FeedPos(fs)' = p /\ FeedEnd(fs)' = p + (U + 1)
  BY <1>1, <1>4, <1>7 DEF FeedPos, FeedEnd
<1>9. /\ FeedOffsets(ds, fs, L)' /\ ServedOnce(ds, L)' /\ DeliveredAre(ds, L)'
      /\ AllServed(ds, L)'
  BY <1>4 DEF FeedAt, FeedOffsets, ServedOnce, DeliveredAre, AllServed
<1>10. CASE ServedTo(ds, fs, L)
  <2>1. L > 0 /\ ds[L] = d /\ p + U = fs[L] + 3 + s /\ fs[L] \in Nat
    BY <1>1, <1>2, <1>3, <1>4, <1>10, FeedOffsetsGrow DEF ServedTo
  <2>2. FeedHas(ds, fs, L)'
    <3>1. ASSUME NEW n \in 1..L, n > Len(delivered'), NEW j \in 1..(3 + Size[ds[n]]),
                 NEW i \in 1..Len(feed'), FeedPos(fs)' + i = fs[n] + j
          PROVE  feed'[i] = Frame(ds[n])[j]
      <4>0. n > R /\ i \in 1..(U + 1) /\ p + i = fs[n] + j
        BY <1>7, <1>8, <3>1
      <4>1. CASE i \in 1..U
        BY <1>2, <1>7, <4>0, <4>1
      <4>2. CASE i = U + 1
        <5>1. fs[n] + j \in Nat /\ (n < L => fs[n] + j <= fs[L])
          BY <1>2, InFrames
        <5>2. n = L
          BY <2>1, <4>0, <4>2, <5>1
        <5>3. j = 3 + (s + 1)
          BY <2>1, <4>0, <4>2, <5>2
        <5> QED BY <1>7, <2>1, <4>2, <5>2, <5>3
      <4> QED BY <4>0, <4>1, <4>2
    <3> QED BY <3>1, Zenon DEF FeedHas
  <2>3. ServedTo(ds, fs, L)'
    <3>1. p + (U + 1) = fs[L] + 3 + (s + 1)
      BY <2>1
    <3> QED BY <1>4, <1>8, <2>1, <3>1 DEF ServedTo
  <2> QED BY <1>9, <2>2, <2>3 DEF FeedAt
<1>11. CASE EarlyNext(ds, fs, L)
  <2>1. PICK e \in early : \A j \in 1..3, i \in 1..U :
            p + i = fs[L + 1] + j => feed[i] = Frame(e)[j]
    <3>1. PICK f \in early : HeaderAt(f, fs, fs[L + 1])
      BY <1>11 DEF EarlyNext
    <3>2. \A j \in 1..3, i \in 1..U :
             p + i = fs[L + 1] + j => feed[i] = Frame(f)[j]
      BY <1>1, <3>1 DEF HeaderAt
    <3> QED BY <3>1, <3>2
  <2>2. PICK a \in Nat : a = fs[L + 1] /\ p + U >= a + 3
    BY <1>1, <1>2, <1>4, <1>11, FeedOffsetsGrow DEF EarlyNext
  <2>3. FeedHas(ds, fs, L)'
    <3>1. ASSUME NEW n \in 1..L, n > Len(delivered'), NEW j \in 1..(3 + Size[ds[n]]),
                 NEW i \in 1..Len(feed'), FeedPos(fs)' + i = fs[n] + j
          PROVE  feed'[i] = Frame(ds[n])[j]
      <4>0. n > R /\ i \in 1..(U + 1) /\ p + i = fs[n] + j
        BY <1>7, <1>8, <3>1
      <4>1. fs[n] + j \in Nat /\ fs[n] + j <= a
        BY <1>2, <2>2, InFrames
      <4>2. i \in 1..U
        BY <2>2, <4>0, <4>1
      <4> QED BY <1>2, <1>7, <4>0, <4>2
    <3> QED BY <3>1, Zenon DEF FeedHas
  <2>4. EarlyNext(ds, fs, L)'
    <3>1. ASSUME NEW j \in 1..3, NEW i \in 1..(U + 1), p + i = fs[L + 1] + j
          PROVE  feed'[i] = Frame(e)[j]
      <4>1. i \in 1..U
        BY <2>2, <3>1
      <4> QED BY <1>7, <2>1, <3>1, <4>1
    <3>2. p + (U + 1) >= fs[L + 1] + 3
      BY <2>2
    <3>3. \E f \in early' : \A j \in 1..3, i \in 1..Len(feed') :
             FeedPos(fs)' + i = fs[L + 1] + j => feed'[i] = Frame(f)[j]
      <4>1. e \in early'
        BY <1>4, <2>1
      <4>2. \A j \in 1..3, i \in 1..Len(feed') :
               FeedPos(fs)' + i = fs[L + 1] + j => feed'[i] = Frame(e)[j]
        BY <1>7, <1>8, <3>1, Zenon
      <4> QED BY <4>1, <4>2
    <3>4. \A n \in 1..L : ds[n] # d
      BY <1>3, <1>4, <1>11 DEF EarlyNext
    <3> QED BY <1>4, <1>8, <3>2, <3>3, <3>4, Zenon DEF EarlyNext, HeaderAt
  <2> QED BY <1>9, <2>3, <2>4 DEF FeedAt
<1> QED BY <1>10, <1>11 DEF FeedAt

\* A datum whose file ends early is the first of which nothing is certain,
\* if it was not delivered before.
LEMMA FeedContentEnds ==
    ASSUME TypesInv, ServeInv, NEW ds, NEW fs, NEW L \in Nat, FeedAt(ds, fs, L),
           ContentEnds, Trusted'
    PROVE  \E M \in Nat : FeedAt(ds, fs, M)'
<1>0. PICK R \in Nat, U \in Nat, p \in Nat : FeedOpen(ds, fs, L, R, U, p)
  BY FeedOpened
<1>1. /\ R = Len(delivered) /\ U = Len(feed) /\ p = fs[R + 1]
      /\ FeedPos(fs) = p /\ FeedEnd(fs) = p + U
  BY <1>0 DEF FeedOpen
<1>2. /\ FeedOffsets(ds, fs, L) /\ R <= L
      /\ \A i \in 1..R : delivered[i].of = ds[i]
      /\ \A m, n \in 1..L : ds[m] = ds[n] => m = n
      /\ \A n \in 1..L : ds[n] \in visited /\ ds[n] \notin early
      /\ \A n \in 1..L : n > R =>
            \A j \in 1..(3 + Size[ds[n]]), i \in 1..U :
                p + i = fs[n] + j => feed[i] = Frame(ds[n])[j]
  BY <1>0 DEF FeedOpen
<1>3. PICK d \in Data, s \in Nat : d = serve.data /\ s = serve.sent
  BY DownBasics
<1>4. /\ serve.pc = "sending" /\ s = Len(kept[d])
      /\ UNCHANGED <<feed, wanted, visited, delivered>>
      /\ \/ early' = early \cup {d}
         \/ early' = early /\ ~(s < Size[d]) /\ files[d] = "opened"
      /\ serve'.pc = IF files[d] = "opened" THEN "listing" ELSE "failed"
  BY <1>3, DownBasics DEF ContentEnds
<1>5. Len(delivered') = R /\ Len(feed') = U /\ FeedPos(fs)' = p /\ FeedEnd(fs)' = p + U
  BY <1>1, <1>4 DEF FeedPos, FeedEnd
<1>6. FeedOffsets(ds, fs, L)' /\ DeliveredAre(ds, L)' /\ FeedHas(ds, fs, L)'
  <2>1. FeedOffsets(ds, fs, L) /\ DeliveredAre(ds, L) /\ FeedHas(ds, fs, L)
    BY DEF FeedAt
  <2>2. FeedOffsets(ds, fs, L)' /\ DeliveredAre(ds, L)'
    BY <1>4, <2>1 DEF FeedOffsets, DeliveredAre
  <2> QED BY <1>1, <1>4, <1>5, <2>1, <2>2 DEF FeedHas
<1>7. CASE ServedTo(ds, fs, L) /\ early' = early /\ ~(s < Size[d]) /\ files[d] = "opened"
  <2>1. L \in 1..L /\ ds[L] = d /\ p + U = fs[L] + 3 + s
    BY <1>1, <1>3, <1>4, <1>7 DEF ServedTo
  <2>2. s = Size[d]
    BY <1>4, <1>7, DownBasics
  <2>3. p + U = fs[L + 1]
    <3>1. fs[L + 1] = fs[L] + 3 + Size[d]
      BY <1>2, <2>1 DEF FeedOffsets
    <3> QED BY <2>1, <2>2, <3>1
  <2>4. ServedOnce(ds, L)' /\ AllServed(ds, L)'
    BY <1>4, <1>7 DEF FeedAt, ServedOnce, AllServed
  <2>5. ServedTo(ds, fs, L)'
    BY <1>4, <1>5, <1>7, <2>3 DEF ServedTo
  <2> QED BY <1>6, <2>4, <2>5 DEF FeedAt
<1>8. CASE ServedTo(ds, fs, L) /\ early' = early \cup {d}
  <2>1. L \in 1..L /\ ds[L] = d /\ p + U = fs[L] + 3 + s
    BY <1>1, <1>3, <1>4, <1>8 DEF ServedTo
  <2>2. R # L
    <3> SUFFICES ASSUME R = L PROVE FALSE
      OBVIOUS
    <3>1. delivered'[L].of = d /\ L \in 1..Len(delivered')
      BY <1>2, <1>4, <1>5, <2>1
    <3> QED BY <1>8, <3>1 DEF Trusted
  <2>3. PICK M \in Nat : L = M + 1
    <3>1. L - 1 \in Nat /\ L = (L - 1) + 1
      BY <2>1
    <3> QED BY <3>1
  <2>4. R <= M /\ \A n \in 1..M : n \in 1..L /\ n # L
    BY <1>2, <2>2, <2>3
  <2>5. L > R /\ Size[d] \in Nat /\ fs[L] \in Nat
    BY <1>2, <2>2, <2>3, StreamsAssumption, FeedOffsetsGrow
  <2>6. FeedOffsets(ds, fs, M)'
    <3>1. \A n \in 1..(M + 1) : n \in 1..(L + 1)
      BY <2>3
    <3> QED BY <1>2, <2>4, <3>1 DEF FeedOffsets
  <2>7. ServedOnce(ds, M)'
    <3>1. \A n \in 1..M : ds[n] # d
      BY <1>2, <2>1, <2>4
    <3> QED BY <1>2, <1>4, <1>8, <2>4, <3>1 DEF ServedOnce
  <2>8. AllServed(ds, M)'
    BY <1>8 DEF AllServed
  <2>9. DeliveredAre(ds, M)'
    BY <1>2, <1>4, <1>5, <2>4 DEF DeliveredAre
  <2>10. FeedHas(ds, fs, M)'
    BY <1>6, <2>4 DEF FeedHas
  <2>11. EarlyNext(ds, fs, M)'
    <3>1. \E f \in early' : \A j \in 1..3, i \in 1..Len(feed') :
             FeedPos(fs)' + i = fs[M + 1] + j => feed'[i] = Frame(f)[j]
      <4>1. d \in early'
        BY <1>8
      <4>2. \A j \in 1..3 : j \in 1..(3 + Size[d])
        BY <2>5
      <4>3. \A j \in 1..3, i \in 1..U : p + i = fs[L] + j => feed[i] = Frame(d)[j]
        BY <1>2, <2>1, <2>5, <4>2
      <4>4. \A j \in 1..3, i \in 1..Len(feed') :
               FeedPos(fs)' + i = fs[M + 1] + j => feed'[i] = Frame(d)[j]
        BY <1>4, <1>5, <2>3, <4>3
      <4> QED BY <4>1, <4>4
    <3>2. FeedEnd(fs)' >= fs[M + 1] + 3
      BY <1>5, <2>1, <2>3, <2>5
    <3>3. serve'.pc # "sending"
      BY <1>4
    <3> QED BY <3>1, <3>2, <3>3, Zenon DEF EarlyNext, HeaderAt
  <2> QED BY <2>6, <2>7, <2>8, <2>9, <2>10, <2>11 DEF FeedAt
<1>9. CASE EarlyNext(ds, fs, L)
  <2>1. PICK e \in early : \A j \in 1..3, i \in 1..U :
            p + i = fs[L + 1] + j => feed[i] = Frame(e)[j]
    <3>1. PICK f \in early : HeaderAt(f, fs, fs[L + 1])
      BY <1>9 DEF EarlyNext
    <3>2. \A j \in 1..3, i \in 1..U :
             p + i = fs[L + 1] + j => feed[i] = Frame(f)[j]
      BY <1>1, <3>1 DEF HeaderAt
    <3> QED BY <3>1, <3>2
  <2>2. p + U >= fs[L + 1] + 3 /\ \A n \in 1..L : ds[n] # d
    BY <1>1, <1>3, <1>4, <1>9 DEF EarlyNext
  <2>3. ServedOnce(ds, L)'
    BY <1>2, <1>4, <2>2 DEF ServedOnce
  <2>4. e \in early' /\ AllServed(ds, L)'
    BY <1>4, <2>1 DEF AllServed
  <2>5. EarlyNext(ds, fs, L)'
    <3>1. \E f \in early' : \A j \in 1..3, i \in 1..Len(feed') :
             FeedPos(fs)' + i = fs[L + 1] + j => feed'[i] = Frame(f)[j]
      <4>1. \A j \in 1..3, i \in 1..Len(feed') :
               FeedPos(fs)' + i = fs[L + 1] + j => feed'[i] = Frame(e)[j]
        BY <1>4, <1>5, <2>1
      <4> QED BY <2>4, <4>1
    <3>2. serve'.pc # "sending"
      BY <1>4
    <3> QED BY <1>5, <2>2, <3>1, <3>2, Zenon DEF EarlyNext, HeaderAt
  <2> QED BY <1>6, <2>3, <2>4, <2>5 DEF FeedAt
<1> QED BY <1>4, <1>7, <1>8, <1>9 DEF FeedAt

\* The steps of serve_data_v1 that serve nothing.
LEMMA FeedServesNothing ==
    ASSUME TypesInv, ServeInv, NEW ds, NEW fs, NEW L \in Nat, FeedAt(ds, fs, L),
           \/ Serve \/ ServeEnds
           \/ \E d \in Data : ServeUndescribed(d) \/ ServeSkips(d)
    PROVE  FeedAt(ds, fs, L)'
<1>1. /\ UNCHANGED <<early, feed, delivered>> /\ visited \subseteq visited'
      /\ serve.pc \notin {"sending", "broken"} /\ serve'.pc \notin {"sending", "broken"}
  BY DownBasics DEF Serve, ServeEnds, ServeUndescribed, ServeSkips, Visit
<1>2. FeedOffsets(ds, fs, L)' /\ DeliveredAre(ds, L)' /\ FeedHas(ds, fs, L)'
  <2>1. FeedOffsets(ds, fs, L) /\ DeliveredAre(ds, L) /\ FeedHas(ds, fs, L)
    BY DEF FeedAt
  <2>2. FeedPos(fs)' = FeedPos(fs)
    BY <1>1 DEF FeedPos
  <2>3. FeedOffsets(ds, fs, L)' /\ DeliveredAre(ds, L)'
    BY <1>1, <2>1 DEF FeedOffsets, DeliveredAre
  <2> QED BY <1>1, <2>1, <2>2, <2>3 DEF FeedHas
<1>3. ServedOnce(ds, L)'
  <2>1. ServedOnce(ds, L)
    BY DEF FeedAt
  <2> QED BY <1>1, <2>1 DEF ServedOnce
<1>4. AllServed(ds, L)'
  <2>1. AllServed(ds, L)
    BY DEF FeedAt
  <2>2. CASE Serve
    <3>1. visited' = {}
      BY <2>2, DownBasics DEF Serve, ServeInv
    <3> QED BY <3>1 DEF AllServed
  <2>3. CASE ServeEnds
    BY <1>1, <2>1, <2>3, DownBasics DEF ServeEnds, AllServed
  <2>4. CASE \E d \in Data : ServeUndescribed(d)
    <3>1. serve'.pc = "failed"
      BY <2>4, DownBasics DEF ServeUndescribed
    <3> QED BY <3>1 DEF AllServed
  <2>5. CASE \E d \in Data : ServeSkips(d)
    <3>1. /\ visited' \cap wanted' = visited \cap wanted
          /\ UNCHANGED <<serve, early>>
      BY <2>5 DEF ServeSkips, Visit
    <3> QED BY <2>1, <3>1, Zenon DEF AllServed
  <2> QED BY <2>2, <2>3, <2>4, <2>5
<1>5. ServedTo(ds, fs, L)' \/ EarlyNext(ds, fs, L)'
  <2>1. FeedPos(fs)' = FeedPos(fs) /\ FeedEnd(fs)' = FeedEnd(fs)
    BY <1>1 DEF FeedPos, FeedEnd
  <2>2. ServedTo(ds, fs, L) => ServedTo(ds, fs, L)'
    BY <1>1, <2>1 DEF ServedTo
  <2>3. \A e \in early : HeaderAt(e, fs, fs[L + 1]) => HeaderAt(e, fs, fs[L + 1])'
    BY <1>1, <2>1 DEF HeaderAt
  <2>4. EarlyNext(ds, fs, L) => EarlyNext(ds, fs, L)'
    BY <1>1, <2>1, <2>3, Zenon DEF EarlyNext
  <2> QED BY <2>2, <2>4 DEF FeedAt
<1> QED BY <1>2, <1>3, <1>4, <1>5 DEF FeedAt

LEMMA ServedWithin ==
    ASSUME TypesInv, ServeInv, NEW ds, NEW fs, NEW L \in Nat, FeedOffsets(ds, fs, L),
           ServedTo(ds, fs, L)
    PROVE  FeedEnd(fs) <= fs[L + 1]
<1>1. CASE serve.pc = "sending"
  <2>1. L \in 1..L /\ ds[L] = serve.data /\ FeedEnd(fs) = fs[L] + 3 + serve.sent
    BY <1>1 DEF ServedTo
  <2>2. PICK d \in Data, s \in Nat : d = serve.data /\ s = serve.sent
    BY DownBasics
  <2>3. s <= Len(kept[d]) /\ Len(kept[d]) \in Nat /\ Len(kept[d]) <= Size[d]
        /\ Size[d] \in Nat
    BY <1>1, <2>2, DownBasics DEF ServeInv
  <2>4. s <= Size[d]
    BY <2>3
  <2>5. fs[L + 1] = fs[L] + 3 + Size[d] /\ fs[L] \in Nat
    BY <2>1, <2>2, FeedOffsetsGrow
  <2> QED BY <2>1, <2>2, <2>3, <2>4, <2>5
<1>2. CASE serve.pc # "sending"
  <2>1. fs[L + 1] \in Nat
    BY FeedOffsetsGrow
  <2> QED BY <1>2, <2>1 DEF ServedTo
<1> QED BY <1>1, <1>2

LEMMA FeedIsCut ==
    ASSUME TypesInv, ServeInv, NEW ds, NEW fs, NEW L \in Nat, FeedAt(ds, fs, L),
           FeedBreaks
    PROVE  FeedAt(ds, fs, L)'
<1>0. PICK R \in Nat, U \in Nat, p \in Nat : FeedOpen(ds, fs, L, R, U, p)
  BY FeedOpened
<1>1. /\ R = Len(delivered) /\ U = Len(feed) /\ p = fs[R + 1]
      /\ FeedPos(fs) = p /\ FeedEnd(fs) = p + U
  BY <1>0 DEF FeedOpen
<1>2. /\ UNCHANGED <<early, visited, wanted, delivered>> /\ serve'.pc = "broken"
      /\ serve.pc # "broken" /\ feed' \in Shortened(feed)
  BY DownBasics DEF FeedBreaks
<1>3. PICK V \in Nat : V = Len(feed') /\ V <= U /\ \A i \in 1..V : feed'[i] = feed[i]
  <2>1. feed \in Seq(Parts)
    BY DownBasics
  <2>2. /\ Len(feed') \in 0..Len(feed) /\ Len(feed') \in Nat
        /\ \A i \in 1..Len(feed') : feed'[i] = feed[i]
    BY <1>2, <2>1, ShortenedFacts
  <2> QED BY <1>1, <2>2
<1>4. \A i \in 1..V : i \in 1..U
  BY <1>3
<1>5. Len(delivered') = R /\ FeedPos(fs)' = p /\ FeedEnd(fs)' = p + V
  BY <1>1, <1>2, <1>3 DEF FeedPos, FeedEnd
<1>6. /\ FeedOffsets(ds, fs, L)' /\ ServedOnce(ds, L)' /\ DeliveredAre(ds, L)'
      /\ AllServed(ds, L)'
  BY <1>2 DEF FeedAt, FeedOffsets, ServedOnce, DeliveredAre, AllServed
<1>7. FeedHas(ds, fs, L)'
  <2>1. \A n \in 1..L : n > R =>
            \A j \in 1..(3 + Size[ds[n]]), i \in 1..U :
                p + i = fs[n] + j => feed[i] = Frame(ds[n])[j]
    BY <1>0 DEF FeedOpen
  <2>2. \A n \in 1..L : n > R =>
            \A j \in 1..(3 + Size[ds[n]]), i \in 1..V :
                p + i = fs[n] + j => feed'[i] = Frame(ds[n])[j]
    BY <1>3, <1>4, <2>1
  <2> QED BY <1>3, <1>5, <2>2, Zenon DEF FeedHas
<1>8. CASE ServedTo(ds, fs, L)
  <2>1. FeedOffsets(ds, fs, L) /\ fs[L + 1] \in Nat
    BY FeedOffsetsGrow DEF FeedAt
  <2>2. p + U <= fs[L + 1]
    <3>1. FeedEnd(fs) <= fs[L + 1]
      BY <1>8, <2>1, ServedWithin
    <3> QED BY <1>1, <3>1
  <2>3. ServedTo(ds, fs, L)'
    <3>1. p + V <= fs[L + 1]
      BY <1>3, <2>1, <2>2
    <3> QED BY <1>2, <1>5, <3>1 DEF ServedTo
  <2> QED BY <1>6, <1>7, <2>3 DEF FeedAt
<1>9. CASE EarlyNext(ds, fs, L)
  <2>1. PICK f \in early : HeaderAt(f, fs, fs[L + 1])
    BY <1>9 DEF EarlyNext
  <2>2. \A j \in 1..3, i \in 1..V : p + i = fs[L + 1] + j => feed'[i] = Frame(f)[j]
    BY <1>1, <1>3, <1>4, <2>1 DEF HeaderAt
  <2>3. HeaderAt(f, fs, fs[L + 1])'
    BY <1>3, <1>5, <2>2, Zenon DEF HeaderAt
  <2>4. EarlyNext(ds, fs, L)'
    <3>1. f \in early'
      BY <1>2, <2>1
    <3>2. serve'.pc = "broken" /\ serve'.pc # "sending"
      BY <1>2
    <3> QED BY <2>3, <3>1, <3>2, Zenon DEF EarlyNext
  <2> QED BY <1>6, <1>7, <2>4 DEF FeedAt
<1> QED BY <1>8, <1>9 DEF FeedAt

\* What its reader reads next is the first of the frames that it has not read,
\* or what comes behind them.
LEMMA ReadFollows ==
    ASSUME TypesInv, ServeInv, NEW ds, NEW fs, NEW L \in Nat, FeedAt(ds, fs, L),
           NEW d \in Data, Starts(feed, d), Len(feed) >= 3 + Size[d],
           NEW R \in Nat, R = Len(delivered)
    PROVE  /\ R < L => ds[R + 1] = d /\ SubSeq(feed, 4, 3 + Size[d]) = Chunks(d)
           /\ R >= L => d \in early
<1>0. PICK T \in Nat, U \in Nat, p \in Nat : FeedOpen(ds, fs, L, T, U, p)
  BY FeedOpened
<1>1. /\ R = T /\ U = Len(feed) /\ p = fs[R + 1]
      /\ FeedPos(fs) = p /\ FeedEnd(fs) = p + U
  BY <1>0 DEF FeedOpen
<1>2. /\ FeedOffsets(ds, fs, L) /\ R <= L
      /\ \A n \in 1..L : n > R =>
            \A j \in 1..(3 + Size[ds[n]]), i \in 1..U :
                p + i = fs[n] + j => feed[i] = Frame(ds[n])[j]
  BY <1>0, <1>1 DEF FeedOpen
<1>3. /\ feed \in Seq(Parts) /\ Size[d] \in Nat /\ U >= 3 + Size[d]
      /\ feed[2] = <<"rest", d>>
  <2>1. feed \in Seq(Parts)
    BY DownBasics
  <2> QED BY <1>1, <2>1, StartsFacts, StreamsAssumption
<1>4. ASSUME R < L
      PROVE  ds[R + 1] = d /\ SubSeq(feed, 4, 3 + Size[d]) = Chunks(d)
  <2>1. PICK n \in 1..L : n = R + 1
    BY <1>4
  <2>2. PICK e \in Data : e = ds[n] /\ Size[e] \in Nat
    BY <1>2, <2>1, FeedOffsetsGrow
  <2>3. \A i \in 1..(3 + Size[e]) : i \in 1..U => feed[i] = Frame(e)[i]
    <3>1. n > R /\ fs[n] = p
      BY <1>1, <2>1
    <3>2. \A j \in 1..(3 + Size[e]), i \in 1..U : p + i = p + j => feed[i] = Frame(e)[j]
      BY <1>2, <2>2, <3>1
    <3> QED BY <3>2
  <2>4. 2 \in 1..(3 + Size[e]) /\ 2 \in 1..U
    BY <1>3, <2>2
  <2>5. <<"rest", d>> = <<"rest", e>>
    <3>1. Frame(e)[2] = <<"rest", e>>
      BY FrameFacts
    <3> QED BY <1>3, <2>3, <2>4, <3>1
  <2>6. d = e
    BY <2>5
  <2>7. \A i \in 1..Size[d] : feed[3 + i] = Chunks(d)[i]
    <3>1. ASSUME NEW i \in 1..Size[d] PROVE feed[3 + i] = Chunks(d)[i]
      <4>1. 3 + i \in 1..(3 + Size[d]) /\ 3 + i \in 1..U
        BY <1>3
      <4>2. feed[3 + i] = Frame(d)[3 + i]
        BY <2>3, <2>6, <4>1
      <4>3. Frame(d)[3 + i] = <<"chunk", d, i>> /\ Chunks(d)[i] = <<"chunk", d, i>>
        BY FrameFacts
      <4> QED BY <4>2, <4>3
    <3> QED BY <3>1
  <2>8. PICK c \in Seq(Parts) :
          /\ c = SubSeq(feed, 4, 3 + Size[d]) /\ Len(c) = Size[d]
          /\ \A i \in 1..Size[d] : c[i] = feed[3 + i]
    BY <1>3, ItemFacts
  <2>9. PICK b \in Seq(Parts) : b = Chunks(d) /\ Len(b) = Size[d]
    BY FrameFacts
  <2>10. \A i \in 1..Len(c) : c[i] = b[i]
    BY <2>7, <2>8, <2>9
  <2>11. c = b
    BY <2>8, <2>9, <2>10, SeqEqual
  <2> QED BY <2>1, <2>2, <2>6, <2>8, <2>9, <2>11
<1>5. ASSUME R >= L PROVE d \in early
  <2>1. R = L /\ p = fs[L + 1]
    BY <1>1, <1>2, <1>5
  <2>2. ~ServedTo(ds, fs, L)
    <3> SUFFICES ASSUME ServedTo(ds, fs, L) PROVE FALSE
      OBVIOUS
    <3>1. FeedEnd(fs) <= fs[L + 1]
      BY <1>2, ServedWithin
    <3> QED BY <1>1, <1>3, <2>1, <3>1
  <2>3. PICK e \in early : HeaderAt(e, fs, fs[L + 1])
    BY <2>2 DEF FeedAt, EarlyNext
  <2>4. \A j \in 1..3, i \in 1..U : p + i = p + j => feed[i] = Frame(e)[j]
    BY <1>1, <2>1, <2>3 DEF HeaderAt
  <2>5. feed[2] = Frame(e)[2]
    <3>1. 2 \in 1..3 /\ 2 \in 1..U /\ p + 2 = p + 2
      BY <1>3
    <3> QED BY <2>4, <3>1
  <2>6. Frame(e)[2] = <<"rest", e>>
    <3>1. e \in Data
      BY <2>3, DownBasics
    <3> QED BY <3>1, FrameFacts
  <2>7. <<"rest", d>> = <<"rest", e>>
    BY <1>3, <2>5, <2>6
  <2> QED BY <2>3, <2>7
<1> QED BY <1>4, <1>5

\* What a delivery adds.
LEMMA DeliveryFacts ==
    ASSUME TypesInv, NEW d \in Data, ReadItem(d), NEW R \in Nat, R = Len(delivered),
           delivered' # delivered
    PROVE  /\ Len(delivered') = R + 1
           /\ \A i \in 1..R : delivered'[i] = delivered[i]
           /\ delivered'[R + 1] = [of |-> d, content |-> SubSeq(feed, 4, 3 + Size[d])]
<1>1. PICK x : x = [of |-> d, content |-> SubSeq(feed, 4, 3 + Size[d])]
  OBVIOUS
<1>2. delivered' = Append(delivered, x)
  BY <1>1 DEF ReadItem
<1>3. SubSeq(feed, 4, 3 + Size[d]) \in Seq(Parts)
  BY DownBasics, ItemFacts DEF ReadItem
<1>4. x \in [of : Data, content : Seq(Parts)]
  BY <1>1, <1>3
<1>5. PICK s \in Seq([of : Data, content : Seq(Parts)]) : s = delivered
  BY DEF TypesInv, StreamsTypeOK
<1>6. delivered' = Append(s, x) /\ R = Len(s)
  BY <1>2, <1>5
<1>7. /\ Len(Append(s, x)) = Len(s) + 1
      /\ \A i \in 1..Len(s) : Append(s, x)[i] = s[i]
      /\ Append(s, x)[Len(s) + 1] = x
  BY <1>4, AppendProperties
<1> QED BY <1>1, <1>5, <1>6, <1>7

LEMMA FeedReadItem ==
    ASSUME TypesInv, ServeInv, NEW ds, NEW fs, NEW L \in Nat, FeedAt(ds, fs, L),
           NEW d \in Data, ReadItem(d), delivered' # delivered, Trusted'
    PROVE  FeedAt(ds, fs, L)'
<1>0. PICK R \in Nat, U \in Nat, p \in Nat : FeedOpen(ds, fs, L, R, U, p)
  BY FeedOpened
<1>1. /\ R = Len(delivered) /\ U = Len(feed) /\ p = fs[R + 1]
      /\ FeedPos(fs) = p /\ FeedEnd(fs) = p + U
  BY <1>0 DEF FeedOpen
<1>2. /\ FeedOffsets(ds, fs, L) /\ R <= L
      /\ \A i \in 1..R : delivered[i].of = ds[i]
      /\ \A n \in 1..L : n > R =>
            \A j \in 1..(3 + Size[ds[n]]), i \in 1..U :
                p + i = fs[n] + j => feed[i] = Frame(ds[n])[j]
  BY <1>0 DEF FeedOpen
<1>3. /\ Starts(feed, d) /\ Len(feed) >= 3 + Size[d]
      /\ feed' = SubSeq(feed, 4 + Size[d], Len(feed))
      /\ UNCHANGED <<serve, wanted, visited, early>>
  BY DEF ReadItem
<1>4. /\ Len(delivered') = R + 1
      /\ \A i \in 1..R : delivered'[i] = delivered[i]
      /\ delivered'[R + 1].of = d
  <2>1. R = Len(delivered)
    BY <1>1
  <2>2. /\ Len(delivered') = R + 1
        /\ \A i \in 1..R : delivered'[i] = delivered[i]
        /\ delivered'[R + 1] = [of |-> d, content |-> SubSeq(feed, 4, 3 + Size[d])]
    BY <2>1, DeliveryFacts
  <2> QED BY <2>2
<1>5. R < L
  <2> SUFFICES ASSUME R >= L PROVE FALSE
    BY <1>2
  <2>1. d \in early
    BY <1>1, <1>3, ReadFollows
  <2>2. R + 1 \in 1..Len(delivered')
    BY <1>4
  <2> QED BY <1>3, <1>4, <2>1, <2>2 DEF Trusted
<1>6. ds[R + 1] = d /\ R + 1 \in 1..L
  BY <1>1, <1>3, <1>5, ReadFollows
<1>7. PICK z \in Nat : z = 3 + Size[d]
  BY StreamsAssumption
<1>8. U >= z /\ Len(feed') = U - z /\ \A i \in 1..(U - z) : feed'[i] = feed[z + i]
  <2>1. feed \in Seq(Parts)
    BY DownBasics
  <2> QED BY <1>1, <1>3, <1>7, <2>1, ItemFacts
<1>9. PICK V \in Nat : V = U - z
  BY <1>8
<1>10. PICK q \in Nat : q = p + z /\ q = fs[R + 2]
  <2>1. fs[(R + 1) + 1] = fs[R + 1] + 3 + Size[d]
    BY <1>2, <1>6 DEF FeedOffsets
  <2>2. (R + 1) + 1 = R + 2
    OBVIOUS
  <2>3. Size[d] \in Nat
    BY StreamsAssumption
  <2>4. fs[R + 2] = p + z
    <3>1. fs[R + 2] = fs[(R + 1) + 1]
      BY <2>2
    <3>2. fs[R + 2] = p + 3 + Size[d]
      BY <1>1, <2>1, <3>1, Zenon
    <3>3. p + 3 + Size[d] = p + z
      BY <1>7, <2>3
    <3> QED BY <3>2, <3>3
  <2> QED BY <2>4
<1>11. Len(feed') = V /\ FeedPos(fs)' = q /\ FeedEnd(fs)' = q + V
  <2>1. (R + 1) + 1 = R + 2
    OBVIOUS
  <2>2. FeedPos(fs)' = q
    BY <1>4, <1>10, <2>1 DEF FeedPos
  <2> QED BY <1>8, <1>9, <2>2 DEF FeedEnd
<1>12. FeedEnd(fs)' = FeedEnd(fs)
  <2>1. q + V = p + U
    BY <1>8, <1>9, <1>10
  <2> QED BY <1>1, <1>11, <2>1
<1>13. FeedOffsets(ds, fs, L)' /\ ServedOnce(ds, L)' /\ AllServed(ds, L)'
  BY <1>3 DEF FeedAt, FeedOffsets, ServedOnce, AllServed
<1>14. DeliveredAre(ds, L)'
  <2>1. ASSUME NEW i \in 1..(R + 1) PROVE delivered'[i].of = ds[i]
    <3>1. CASE i \in 1..R
      BY <1>2, <1>4, <3>1
    <3>2. CASE i = R + 1
      BY <1>4, <1>6, <3>2
    <3> QED BY <3>1, <3>2
  <2>2. R + 1 <= L
    BY <1>5
  <2> QED BY <1>4, <2>1, <2>2, Zenon DEF DeliveredAre
<1>15. FeedHas(ds, fs, L)'
  <2>1. ASSUME NEW n \in 1..L, n > R + 1, NEW j \in 1..(3 + Size[ds[n]]),
               NEW i \in 1..V, q + i = fs[n] + j
        PROVE  feed'[i] = Frame(ds[n])[j]
    <3>1. n > R /\ z + i \in 1..U /\ p + (z + i) = q + i
      BY <1>9, <1>10, <2>1
    <3>2. feed[z + i] = Frame(ds[n])[j]
      BY <1>2, <2>1, <3>1
    <3> QED BY <1>8, <1>9, <3>2
  <2> QED BY <1>4, <1>11, <2>1, Zenon DEF FeedHas
<1>16. ServedTo(ds, fs, L) => ServedTo(ds, fs, L)'
  BY <1>3, <1>12 DEF ServedTo
<1>17. EarlyNext(ds, fs, L) => EarlyNext(ds, fs, L)'
  <2>1. ASSUME NEW e, HeaderAt(e, fs, fs[L + 1]) PROVE HeaderAt(e, fs, fs[L + 1])'
    <3>1. \A j \in 1..3, i \in 1..U : p + i = fs[L + 1] + j => feed[i] = Frame(e)[j]
      BY <1>1, <2>1 DEF HeaderAt
    <3>2. ASSUME NEW j \in 1..3, NEW i \in 1..V, q + i = fs[L + 1] + j
          PROVE  feed'[i] = Frame(e)[j]
      <4>1. z + i \in 1..U /\ p + (z + i) = q + i
        BY <1>9, <1>10
      <4> QED BY <1>8, <1>9, <3>1, <3>2, <4>1
    <3> QED BY <1>11, <3>2, Zenon DEF HeaderAt
  <2> QED BY <1>3, <1>12, <2>1, Zenon DEF EarlyNext
<1> QED BY <1>13, <1>14, <1>15, <1>16, <1>17 DEF FeedAt

\* Readers do not start again, what was delivered stays, and what was served
\* too early remains so.
LEMMA DownloadGoesOn ==
    ASSUME TypesInv, StreamsNext
    PROVE  /\ early \subseteq early'
           /\ consumer' = "reading" => consumer = "reading"
           /\ consumer' = "ended" => consumer = "ended" \/ ReadEnds
           /\ delivered' = delivered \/ \E d \in Data : ReadItem(d)
<1>1. CASE UploadNext
  BY <1>1, UploadLeavesDownload DEF downloadVars
<1>2. CASE Serve \/ ServeChunk \/ ContentEnds \/ ServeEnds \/ FeedBreaks
  BY <1>2 DEF Serve, ServeChunk, ContentEnds, ServeEnds, FeedBreaks
<1>3. CASE \E d \in Data : ServeUndescribed(d) \/ ServeSkips(d) \/ ServeHeader(d)
  BY <1>3 DEF ServeUndescribed, ServeSkips, ServeHeader, Visit
<1>4. CASE \E d \in Data : ReadItem(d)
  BY <1>4 DEF ReadItem
<1>5. CASE ReadEnds \/ ReadPanics
  BY <1>5 DEF ReadEnds, ReadPanics
<1> QED BY <1>1, <1>2, <1>3, <1>4, <1>5 DEF StreamsNext, UploadNext, UploadWrites

LEMMA TrustStays ==
    ASSUME TypesInv, StreamsNext, Trusted'
    PROVE  Trusted
<1>1. PICK R \in Nat : R = Len(delivered)
  BY DownBasics
<1>2. R <= Len(delivered') /\ \A i \in 1..R : delivered'[i] = delivered[i]
      /\ Len(delivered') \in Nat
  <2>1. CASE delivered' = delivered
    BY <1>1, <2>1
  <2>2. CASE delivered' # delivered
    <3>1. PICK d \in Data : ReadItem(d)
      BY <2>2, DownloadGoesOn
    <3>2. Len(delivered') = R + 1 /\ \A i \in 1..R : delivered'[i] = delivered[i]
      BY <1>1, <2>2, <3>1, DeliveryFacts
    <3> QED BY <3>2
  <2> QED BY <2>1, <2>2
<1>3. ASSUME NEW i \in 1..R PROVE delivered[i].of \notin early
  <2>1. i \in 1..Len(delivered') /\ delivered'[i] = delivered[i]
    BY <1>2
  <2>2. delivered'[i].of \notin early'
    BY <2>1 DEF Trusted
  <2> QED BY <2>1, <2>2, DownloadGoesOn
<1> QED BY <1>1, <1>3 DEF Trusted

LEMMA FeedKnownStep ==
    ASSUME TypesInv, FilesInv, StreamsNext, ServeInv, FeedKnown
    PROVE  FeedKnown'
<1> SUFFICES ASSUME consumer' = "reading", Trusted'
             PROVE  \E ds, fs : \E L \in Nat : FeedAt(ds, fs, L)'
  BY DEF FeedKnown
<1>1. consumer = "reading" /\ Trusted
  BY DownloadGoesOn, TrustStays
<1>2. PICK ds, fs : \E L \in Nat : FeedAt(ds, fs, L)
  BY <1>1 DEF FeedKnown
<1>3. PICK L \in Nat : FeedAt(ds, fs, L)
  BY <1>2
<1>4. CASE UNCHANGED <<serve, wanted, visited, early, feed, delivered>>
  <2>1. FeedAt(ds, fs, L)'
    BY <1>3, <1>4, FeedStays
  <2> QED BY <2>1
<1>5. CASE UploadNext \/ ReadEnds \/ ReadPanics
  <2>1. UNCHANGED <<serve, wanted, visited, early, feed, delivered>>
    BY <1>5, UploadLeavesDownload DEF downloadVars, ReadEnds, ReadPanics
  <2> QED BY <1>4, <2>1
<1>6. CASE \/ Serve \/ ServeEnds
           \/ \E d \in Data : ServeUndescribed(d) \/ ServeSkips(d)
  <2>1. FeedAt(ds, fs, L)'
    BY <1>3, <1>6, FeedServesNothing
  <2> QED BY <2>1
<1>7. CASE \E d \in Data : ServeHeader(d)
  <2>1. PICK d \in Data : ServeHeader(d)
    BY <1>7
  <2> QED BY <1>3, <2>1, FeedServeHeader
<1>8. CASE ServeChunk
  <2>1. FeedAt(ds, fs, L)'
    BY <1>3, <1>8, FeedServeChunk
  <2> QED BY <2>1
<1>9. CASE ContentEnds
  <2>1. \E M \in Nat : FeedAt(ds, fs, M)'
    BY <1>3, <1>9, FeedContentEnds
  <2> QED BY <2>1
<1>10. CASE FeedBreaks
  <2>1. FeedAt(ds, fs, L)'
    BY <1>3, <1>10, FeedIsCut
  <2> QED BY <2>1
<1>11. CASE \E d \in Data : ReadItem(d)
  <2>1. PICK d \in Data : ReadItem(d)
    BY <1>11
  <2>2. delivered' # delivered
    <3> DEFINE x == [of |-> d, content |-> SubSeq(feed, 4, 3 + Size[d])]
    <3>1. delivered' = Append(delivered, x)
      BY <2>1 DEF ReadItem
    <3>2. PICK S : delivered \in Seq(S) /\ x \in S
      <4>1. SubSeq(feed, 4, 3 + Size[d]) \in Seq(Parts)
        BY <2>1, DownBasics, ItemFacts DEF ReadItem
      <4>2. x \in [of : Data, content : Seq(Parts)]
        BY <4>1
      <4>3. delivered \in Seq([of : Data, content : Seq(Parts)])
        BY DEF TypesInv, StreamsTypeOK
      <4> QED BY <4>2, <4>3
    <3> HIDE DEF x
    <3>3. Len(Append(delivered, x)) = Len(delivered) + 1 /\ Len(delivered) \in Nat
      BY <3>2, AppendProperties, LenProperties
    <3> QED BY <3>1, <3>3
  <2>3. FeedAt(ds, fs, L)'
    BY <1>3, <2>1, <2>2, FeedReadItem
  <2> QED BY <2>3
<1> QED BY <1>5, <1>6, <1>7, <1>8, <1>9, <1>10, <1>11
        DEF StreamsNext, UploadNext, UploadWrites

LEMMA DeliveredIntactStep ==
    ASSUME TypesInv, StreamsNext, ServeInv, FeedKnown, DeliveredIntact
    PROVE  DeliveredIntact'
<1>1. PICK R \in Nat : R = Len(delivered)
  BY DownBasics
<1>2. early \subseteq early'
  BY DownloadGoesOn
<1>3. CASE delivered' = delivered
  BY <1>2, <1>3 DEF DeliveredIntact, Intact
<1>4. CASE delivered' # delivered
  <2>1. PICK d \in Data : ReadItem(d)
    BY <1>4, DownloadGoesOn
  <2>2. /\ Len(delivered') = R + 1
        /\ \A i \in 1..R : delivered'[i] = delivered[i]
        /\ delivered'[R + 1] = [of |-> d, content |-> SubSeq(feed, 4, 3 + Size[d])]
    BY <1>1, <1>4, <2>1, DeliveryFacts
  <2>3. ASSUME NEW i \in 1..R
        PROVE  Intact(delivered'[i]) \/ \E j \in 1..i : delivered'[j].of \in early'
    <3>1. CASE Intact(delivered[i])
      BY <2>2, <3>1 DEF Intact
    <3>2. CASE \E j \in 1..i : delivered[j].of \in early
      <4>1. PICK j \in 1..i : delivered[j].of \in early
        BY <3>2
      <4>2. j \in 1..R
        OBVIOUS
      <4>3. delivered'[j].of \in early'
        BY <1>2, <2>2, <4>1, <4>2
      <4> QED BY <4>3
    <3> QED BY <1>1, <3>1, <3>2 DEF DeliveredIntact
  <2>4. Intact(delivered'[R + 1]) \/ \E j \in 1..(R + 1) : delivered'[j].of \in early'
    <3>1. CASE Trusted
      <4>1. PICK ds, fs : \E L \in Nat : FeedAt(ds, fs, L)
        BY <2>1, <3>1 DEF FeedKnown, ReadItem
      <4>2. PICK L \in Nat : FeedAt(ds, fs, L)
        BY <4>1
      <4>3. Starts(feed, d) /\ Len(feed) >= 3 + Size[d]
        BY <2>1 DEF ReadItem
      <4>4. (R < L => SubSeq(feed, 4, 3 + Size[d]) = Chunks(d)) /\ (R >= L => d \in early)
        BY <1>1, <4>2, <4>3, ReadFollows
      <4>5. delivered'[R + 1].of = d /\ (R < L => delivered'[R + 1].content = Chunks(d))
        BY <2>2, <4>4
      <4>6. R < L => Intact(delivered'[R + 1])
        BY <4>5 DEF Intact
      <4>7. R >= L => delivered'[R + 1].of \in early'
        BY <1>2, <4>4, <4>5
      <4>8. R + 1 \in 1..(R + 1)
        OBVIOUS
      <4> QED BY <4>6, <4>7, <4>8
    <3>2. CASE ~Trusted
      <4>1. PICK j \in 1..R : delivered[j].of \in early
        BY <1>1, <3>2 DEF Trusted
      <4>2. j \in 1..(R + 1) /\ delivered'[j].of \in early'
        BY <1>2, <2>2, <4>1
      <4> QED BY <4>2
    <3> QED BY <3>1, <3>2
  <2>5. \A i \in 1..(R + 1) : i \in 1..R \/ i = R + 1
    OBVIOUS
  <2> QED BY <2>2, <2>3, <2>4, <2>5 DEF DeliveredIntact
<1> QED BY <1>3, <1>4

\* A download that ended well has come to the end of the frames.
LEMMA EndedReadAll ==
    ASSUME TypesInv, ReadEnds, FeedKnown, serve.pc = "done", early = {},
           NEW d \in visited \cap wanted
    PROVE  DeliveredOnce(d)
<1>1. Trusted /\ consumer = "reading"
  BY DEF Trusted, ReadEnds
<1>2. PICK ds, fs : \E L \in Nat : FeedAt(ds, fs, L)
  BY <1>1 DEF FeedKnown
<1>3. PICK L \in Nat : FeedAt(ds, fs, L)
  BY <1>2
<1>4. PICK R \in Nat, U \in Nat, p \in Nat : FeedOpen(ds, fs, L, R, U, p)
  BY <1>3, FeedOpened
<1>5. /\ R = Len(delivered) /\ U = Len(feed) /\ p = fs[R + 1]
      /\ FeedEnd(fs) = p + U
      /\ FeedOffsets(ds, fs, L) /\ R <= L
      /\ \A i \in 1..R : delivered[i].of = ds[i]
      /\ \A m, n \in 1..L : ds[m] = ds[n] => m = n
  BY <1>4 DEF FeedOpen
<1>6. U = 0
  BY <1>5 DEF ReadEnds
<1>7. ServedTo(ds, fs, L)
  BY <1>3 DEF FeedAt, EarlyNext
<1>8. p = fs[L + 1]
  BY <1>5, <1>6, <1>7 DEF ServedTo
<1>9. R = L
  <2> SUFFICES ASSUME R < L PROVE FALSE
    BY <1>5
  <2>1. R + 1 \in 1..L /\ L + 1 \in 1..(L + 1) /\ R + 1 < L + 1
    OBVIOUS
  <2>2. fs[R + 1] + 3 <= fs[L + 1]
    BY <1>5, <2>1, FeedOffsetsGrow
  <2> QED BY <1>5, <1>8, <2>2
<1>10. PICK n \in 1..L : ds[n] = d
  BY <1>3 DEF FeedAt, AllServed
<1>11. delivered[n].of = d /\ \A j \in (1..R) \ {n} : delivered[j].of # d
  BY <1>5, <1>9, <1>10
<1> QED BY <1>5, <1>9, <1>11 DEF DeliveredOnce

LEMMA EndedCompleteStep ==
    ASSUME TypesInv, StreamsNext, ServeInv, FeedKnown, EndedComplete
    PROVE  EndedComplete'
<1> SUFFICES ASSUME consumer' = "ended", serve'.pc = "done", early' = {},
                    NEW d \in visited' \cap wanted'
             PROVE  DeliveredOnce(d)'
  BY DEF EndedComplete
<1>1. early = {} /\ (consumer = "ended" \/ ReadEnds)
  BY DownloadGoesOn
<1>2. CASE ReadEnds
  <2>1. UNCHANGED <<serve, visited, wanted, delivered>>
    BY <1>2 DEF ReadEnds
  <2>2. DeliveredOnce(d)
    BY <1>1, <1>2, <2>1, EndedReadAll
  <2> QED BY <2>1, <2>2 DEF DeliveredOnce
<1>3. CASE consumer = "ended"
  <2>1. serve.pc \in {"done", "failed", "broken"}
    BY <1>3 DEF ServeInv
  <2>2. serve.pc = "done" /\ UNCHANGED <<visited, wanted, delivered>>
    <3>1. CASE UploadNext
      BY <3>1, UploadLeavesDownload DEF downloadVars
    <3>2. CASE \/ Serve \/ ServeChunk \/ ContentEnds \/ ServeEnds
               \/ \E e \in Data : ServeUndescribed(e) \/ ServeSkips(e) \/ ServeHeader(e)
      BY <2>1, <3>2 DEF Serve, ServeChunk, ContentEnds, ServeEnds, ServeUndescribed,
         ServeSkips, ServeHeader, Visit
    <3>3. CASE FeedBreaks
      BY <3>3, DownBasics DEF FeedBreaks
    <3>4. CASE (\E e \in Data : ReadItem(e)) \/ ReadEnds \/ ReadPanics
      BY <1>3, <3>4 DEF ReadItem, ReadEnds, ReadPanics
    <3> QED BY <3>1, <3>2, <3>3, <3>4 DEF StreamsNext, UploadNext, UploadWrites
  <2>3. DeliveredOnce(d)
    BY <1>1, <1>3, <2>2 DEF EndedComplete
  <2> QED BY <2>2, <2>3 DEF DeliveredOnce
<1> QED BY <1>1, <1>2, <1>3

LEMMA FeedInitially == StreamsInit => FeedInv
<1> SUFFICES ASSUME StreamsInit PROVE FeedInv
  OBVIOUS
<1>1. /\ serve.pc = "start" /\ visited = {} /\ early = {} /\ feed = <<>>
      /\ delivered = <<>> /\ consumer = "reading"
  BY DEF StreamsInit
<1>2. Len(delivered) = 0 /\ Len(feed) = 0
  BY <1>1
<1>3. ServeInv /\ DeliveredIntact /\ EndedComplete
  BY <1>1, <1>2 DEF ServeInv, DeliveredIntact, EndedComplete
<1> DEFINE fs == [n \in Nat |-> 0]
<1>4. (\A n \in Nat : fs[n] = 0) /\ FeedPos(fs) = 0 /\ FeedEnd(fs) = 0
  BY <1>2 DEF FeedPos, FeedEnd
<1> HIDE DEF fs
<1>5. FeedOffsets(<<>>, fs, 0) /\ ServedOnce(<<>>, 0) /\ AllServed(<<>>, 0)
  BY <1>1, <1>4 DEF FeedOffsets, ServedOnce, AllServed
<1>6. DeliveredAre(<<>>, 0) /\ FeedHas(<<>>, fs, 0) /\ ServedTo(<<>>, fs, 0)
  BY <1>1, <1>2, <1>4 DEF DeliveredAre, FeedHas, ServedTo
<1>7. FeedAt(<<>>, fs, 0)
  BY <1>5, <1>6 DEF FeedAt
<1> QED BY <1>3, <1>7 DEF FeedInv, FeedKnown

LEMMA FeedStep ==
    UploadInv /\ FeedInv /\ [StreamsNext]_streamsVars => FeedInv'
<1> SUFFICES ASSUME UploadInv, FeedInv, [StreamsNext]_streamsVars PROVE FeedInv'
  OBVIOUS
<1>1. TypesInv /\ FilesInv /\ ServeInv /\ DeliveredIntact /\ EndedComplete /\ FeedKnown
  BY DEF UploadInv, FeedInv
<1>2. CASE StreamsNext
  BY <1>1, <1>2, ServeInvStep, DeliveredIntactStep, EndedCompleteStep, FeedKnownStep
     DEF FeedInv
<1>3. CASE UNCHANGED streamsVars
  <2>1. /\ UNCHANGED <<serve, wanted, visited, early, feed, delivered>>
        /\ UNCHANGED <<kept, listed, consumer>>
    BY <1>3 DEF streamsVars, downloadVars, diskVars
  <2>2. ServeInv' /\ DeliveredIntact'
    BY <1>1, <2>1 DEF ServeInv, DeliveredIntact, Intact
  <2>3. EndedComplete'
    BY <1>1, <2>1 DEF EndedComplete, DeliveredOnce
  <2>4. FeedKnown'
    <3> SUFFICES ASSUME consumer' = "reading", Trusted'
                 PROVE  \E ds, fs : \E L \in Nat : FeedAt(ds, fs, L)'
      BY DEF FeedKnown
    <3>1. consumer = "reading" /\ Trusted
      BY <2>1 DEF Trusted
    <3>2. PICK ds, fs : \E L \in Nat : FeedAt(ds, fs, L)
      BY <1>1, <3>1 DEF FeedKnown
    <3>3. PICK L \in Nat : FeedAt(ds, fs, L)
      BY <3>2
    <3>4. FeedAt(ds, fs, L)'
      BY <2>1, <3>3, FeedStays
    <3> QED BY <3>4
  <2> QED BY <2>2, <2>3, <2>4 DEF FeedInv
<1> QED BY <1>2, <1>3

LEMMA FeedAlways == StreamsSpec => []FeedInv
BY FeedInitially, FeedStep, UploadAlways, PTL DEF StreamsSpec

(* Whatever a download meets on the disk of the node (main.rs:117 to 150), *)
(* its reader (remote.rs:72 to 105) delivers what was uploaded until it    *)
(* comes to something of which not all was there when it was served.  If   *)
(* there was nothing of the kind, a download that ended, and did not fail, *)
(* has delivered each datum that was there and wanted once.                *)
THEOREM DownloadsAreIntact == StreamsSpec => []ConsumedIsIntact
<1>1. FeedInv /\ UploadInv => ConsumedIsIntact
  <2> SUFFICES ASSUME FeedInv, UploadInv PROVE ConsumedIsIntact
    OBVIOUS
  <2>1. DOMAIN delivered = 1..Len(delivered)
    BY DownBasics DEF UploadInv
  <2>2. ServeInv /\ DeliveredIntact /\ EndedComplete
    BY DEF FeedInv
  <2>3. \A i \in DOMAIN delivered :
            Intact(delivered[i]) \/ \E j \in 1..i : delivered[j].of \in early
    BY <2>1, <2>2 DEF DeliveredIntact
  <2>4. ASSUME consumer = "ended", serve.pc = "done", early = {},
               NEW d \in listed \cap wanted
        PROVE  \E i \in DOMAIN delivered :
                  /\ delivered[i].of = d
                  /\ \A j \in DOMAIN delivered \ {i} : delivered[j].of # d
    <3>1. d \in visited \cap wanted
      BY <2>2, <2>4 DEF ServeInv
    <3>2. DeliveredOnce(d)
      BY <2>2, <2>4, <3>1 DEF EndedComplete
    <3> QED BY <2>1, <3>2, Zenon DEF DeliveredOnce
  <2> QED BY <2>3, <2>4 DEF ConsumedIsIntact
<1> QED BY <1>1, FeedAlways, UploadAlways, PTL

=============================================================================
