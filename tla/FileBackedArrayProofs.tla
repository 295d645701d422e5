------------------------ MODULE FileBackedArrayProofs ------------------------
(***************************************************************************)
(* Proofs about FileBackedArray, for any number of arrays, any threshold   *)
(* and any number of elements and runs.                                    *)
(***************************************************************************)
EXTENDS FileBackedArray, Induction, SequenceTheorems

(***************************************************************************)
(* One array and the open files.  E is the set of elements.                *)
(***************************************************************************)
File(E) == [content : Seq(E), offset : Nat]

Array(E) ==
  [buffer_ : Seq(E), frozen_ : BOOLEAN, size_ : Nat, fd_ : Nat \union {NoFile}, array_ : Int,
   run_starts_ : Seq(Nat), run_ends_ : Seq(Nat)]

\* Every file is written at its end.
FilesOk(fs, E) ==
  /\ DOMAIN fs \in SUBSET (Nat \ {0}) /\ IsFiniteSet(DOMAIN fs)
  /\ fs \in [DOMAIN fs -> File(E)]
  /\ \A f \in DOMAIN fs : fs[f].offset = Len(fs[f].content)

WorldOk(w, E) ==
  /\ w = [a |-> w.a, files |-> w.files]
  /\ w.a \in Array(E)
  /\ FilesOk(w.files, E)
  /\ w.a.fd_ \in DOMAIN w.files \union {NoFile}

InFile(w) == IF w.a.fd_ = NoFile THEN <<>> ELSE w.files[w.a.fd_].content

\* What the array holds: what is in the file, and after it the buffer.
Holds(w) == InFile(w) \o w.a.buffer_

\* v is w after operations on its array: it has the file that it had or has
\* opened one, and other files are as they were.
Touches(w, v) ==
  /\ v.a.fd_ = w.a.fd_ \/ (w.a.fd_ = NoFile /\ v.a.fd_ \notin DOMAIN w.files)
  /\ DOMAIN v.files = DOMAIN w.files \union ({v.a.fd_} \ {NoFile})
  /\ \A f \in DOMAIN w.files \ {w.a.fd_} : v.files[f] = w.files[f]

\* Operations that leave the elements and the runs of the array alone.
Keeps(w, v) ==
  /\ Holds(v) = Holds(w)
  /\ v.a.size_ = w.a.size_ /\ v.a.frozen_ = w.a.frozen_ /\ v.a.array_ = w.a.array_
  /\ v.a.run_starts_ = w.a.run_starts_ /\ v.a.run_ends_ = w.a.run_ends_
  /\ Touches(w, v)

\* Operations that append data to the array.
Grows(w, v, data) ==
  /\ Holds(v) = Holds(w) \o data
  /\ v.a.size_ = w.a.size_ + Len(data)
  /\ v.a.frozen_ = w.a.frozen_ /\ v.a.array_ = w.a.array_
  /\ v.a.run_starts_ = w.a.run_starts_ /\ v.a.run_ends_ = w.a.run_ends_
  /\ Touches(w, v)

\* A frozen array with a file that is not empty is a map of that file.
Mapped(x) ==
  IF x.fd_ # NoFile /\ x.size_ > 0
    THEN x.array_ = x.fd_ /\ x.buffer_ = <<>>
    ELSE x.array_ = Buffer

(***************************************************************************)
(* The inductive invariant.                                                *)
(***************************************************************************)
Types ==
  /\ written \in Nat
  /\ arrays \in [Arrays -> Array(Elements)]
  /\ FilesOk(files, Elements)
  /\ log \in [Arrays -> Seq(Elements)]
  /\ run_log \in [Arrays -> Seq(Seq(Elements))]
  /\ writing \subseteq Arrays /\ swapped \subseteq Arrays

\* An array holds its log, and when it is frozen shows all of it.
ArrayOk(a) ==
  /\ Holds(World(a)) = log[a]
  /\ arrays[a].size_ = Len(log[a])
  /\ IF arrays[a].frozen_
       THEN Mapped(arrays[a])
       ELSE arrays[a].array_ = Null
  /\ a \in writing => ~arrays[a].frozen_

\* A run that has ended is a part of the log l.
RunsAre(starts, ends, l, r) ==
  /\ Len(starts) = Len(r)
  /\ \A i \in 1 .. Len(ends) :
       /\ starts[i] <= ends[i] /\ ends[i] <= Len(l)
       /\ r[i] = SubSeq(l, starts[i] + 1, ends[i])

\* The run that is being written is the end of it.
LastRunIs(starts, l, r) ==
  /\ starts[Len(r)] <= Len(l)
  /\ r[Len(r)] = SubSeq(l, starts[Len(r)] + 1, Len(l))

RunsOk(a) ==
  /\ Len(arrays[a].run_starts_) = Len(arrays[a].run_ends_) + (IF a \in writing THEN 1 ELSE 0)
  /\ a \in writing => run_log[a] # <<>>
  /\ a \notin swapped =>
       /\ RunsAre(arrays[a].run_starts_, arrays[a].run_ends_, log[a], run_log[a])
       /\ a \in writing => LastRunIs(arrays[a].run_starts_, log[a], run_log[a])

Owned ==
  /\ \A a \in Arrays : arrays[a].fd_ \in DOMAIN files \union {NoFile}
  /\ \A a, b \in Arrays : a # b /\ arrays[a].fd_ # NoFile => arrays[a].fd_ # arrays[b].fd_
  /\ \A f \in DOMAIN files : \E a \in Arrays : arrays[a].fd_ = f

ArraysInv ==
  /\ Types
  /\ \A a \in Arrays : ArrayOk(a) /\ RunsOk(a)
  /\ Owned

-----------------------------------------------------------------------------
(***************************************************************************)
(* The operations.                                                         *)
(***************************************************************************)
LEMMA ConcatEmpty ==
  ASSUME NEW E, NEW s \in Seq(E)
  PROVE  /\ s \o <<>> = s /\ <<>> \o s = s /\ <<>> \in Seq(E)
BY ConcatEmptySeq, EmptySeq

LEMMA ConcatLen ==
  ASSUME NEW E, NEW s \in Seq(E), NEW t \in Seq(E)
  PROVE  s \o t \in Seq(E) /\ Len(s \o t) = Len(s) + Len(t) /\ Len(s) \in Nat /\ Len(t) \in Nat
BY ConcatProperties, LenProperties

\* What is written at the end of a file is appended.
LEMMA WriteAppends ==
  ASSUME NEW E, NEW file \in File(E), file.offset = Len(file.content), NEW data \in Seq(E)
  PROVE  Write(file, data) = [content |-> file.content \o data,
                              offset  |-> Len(file.content) + Len(data)]
<1> DEFINE before == [i \in 1 .. file.offset |->
                        IF i <= Len(file.content) THEN file.content[i] ELSE Hole]
           end == file.offset + Len(data)
<1>1. /\ file.content \in Seq(E) /\ Len(file.content) \in Nat /\ Len(data) \in Nat
      /\ file.content \in [1 .. Len(file.content) -> E]
  BY LenProperties DEF File
<1>2. before = file.content
  <2>1. \A i \in 1 .. file.offset : before[i] = file.content[i]
    BY <1>1
  <2>2. before = [i \in 1 .. Len(file.content) |-> file.content[i]]
    BY <1>1, <2>1
  <2> QED
    BY <1>1, <2>2
<1>3. SubSeq(file.content, end + 1, Len(file.content)) = <<>>
  <2>1. Len(file.content) < end + 1 /\ end + 1 \in Int /\ Len(file.content) \in Int
    BY <1>1
  <2> HIDE DEF end
  <2> QED
    BY <2>1, SubSeqEmpty
<1>4. (file.content \o data) \o <<>> = file.content \o data
  BY <1>1, ConcatEmpty, ConcatProperties
<1> HIDE DEF before, end
<1>5. Write(file, data) = [content |-> before \o data \o SubSeq(file.content, end + 1, Len(file.content)),
                           offset |-> end]
  BY DEF Write, before, end
<1> QED
  BY <1>1, <1>2, <1>3, <1>4, <1>5 DEF end

LEMMA HoldsType ==
  ASSUME NEW E, NEW w, WorldOk(w, E)
  PROVE  /\ InFile(w) \in Seq(E) /\ w.a.buffer_ \in Seq(E) /\ Holds(w) \in Seq(E)
         /\ Len(Holds(w)) = Len(InFile(w)) + Len(w.a.buffer_)
<1>1. w.a.buffer_ \in Seq(E)
  BY DEF WorldOk, Array
<1>2. InFile(w) \in Seq(E)
  <2>1. CASE w.a.fd_ = NoFile
    BY <2>1, EmptySeq DEF InFile
  <2>2. CASE w.a.fd_ # NoFile
    BY <2>2 DEF InFile, WorldOk, FilesOk, File
  <2> QED
    BY <2>1, <2>2
<1> QED
  BY <1>1, <1>2, ConcatProperties DEF Holds

LEMMA KeepsTrans ==
  ASSUME NEW E, NEW u, NEW v, NEW w, WorldOk(u, E), WorldOk(v, E), WorldOk(w, E),
         Keeps(u, v), Keeps(v, w)
  PROVE  Keeps(u, w)
BY DEF Keeps, Touches, WorldOk

\* Changing or adding a file that is written at its end.
LEMMA OneFile ==
  ASSUME NEW E, NEW fs, FilesOk(fs, E), NEW gs, NEW f \in Nat \ {0},
         gs = [g \in DOMAIN gs |-> gs[g]], DOMAIN gs = DOMAIN fs \union {f},
         gs[f] \in File(E), gs[f].offset = Len(gs[f].content),
         \A g \in DOMAIN fs \ {f} : gs[g] = fs[g]
  PROVE  FilesOk(gs, E)
<1>1. DOMAIN gs \in SUBSET (Nat \ {0}) /\ IsFiniteSet(DOMAIN gs)
  BY FS_AddElement DEF FilesOk
<1>2. \A g \in DOMAIN gs : gs[g] \in File(E) /\ gs[g].offset = Len(gs[g].content)
  BY DEF FilesOk
<1> QED
  BY <1>1, <1>2 DEF FilesOk

LEMMA FlushKeeps ==
  ASSUME NEW E, NEW w, WorldOk(w, E)
  PROVE  /\ WorldOk(flush(w), E) /\ Keeps(w, flush(w))
         /\ flush(w).a.fd_ = w.a.fd_
         /\ w.a.fd_ # NoFile => flush(w).a.buffer_ = <<>>
<1>1. CASE ~(w.a.buffer_ # <<>> /\ w.a.fd_ # NoFile)
  BY <1>1 DEF flush, Keeps, Touches, WorldOk
<1>2. CASE w.a.buffer_ # <<>> /\ w.a.fd_ # NoFile
  <2> DEFINE fd == w.a.fd_
             file == w.files[fd]
             new == [content |-> file.content \o w.a.buffer_,
                     offset |-> Len(file.content) + Len(w.a.buffer_)]
             v == flush(w)
  <2>1. /\ fd \in DOMAIN w.files /\ fd # NoFile
        /\ file \in File(E) /\ file.offset = Len(file.content)
        /\ w.a.buffer_ \in Seq(E) /\ file.content \in Seq(E)
    BY <1>2 DEF WorldOk, FilesOk, Array, File
  <2>2. Write(file, w.a.buffer_) = new
    BY <2>1, WriteAppends
  <2>3. /\ new \in File(E) /\ new.offset = Len(new.content)
        /\ new.content = file.content \o w.a.buffer_
    <3> HIDE DEF file, fd
    <3>1. /\ file.content \o w.a.buffer_ \in Seq(E)
          /\ Len(file.content \o w.a.buffer_) = Len(file.content) + Len(w.a.buffer_)
          /\ Len(file.content) + Len(w.a.buffer_) \in Nat
      <4> DEFINE content == file.content
      <4>1. content \in Seq(E) /\ w.a.buffer_ \in Seq(E)
        BY <2>1
      <4> HIDE DEF content
      <4>2. /\ content \o w.a.buffer_ \in Seq(E) /\ Len(content) + Len(w.a.buffer_) \in Nat
            /\ Len(content \o w.a.buffer_) = Len(content) + Len(w.a.buffer_)
        BY <4>1, ConcatLen
      <4> QED
        BY <4>2 DEF content
    <3> QED
      BY <3>1 DEF File
  <2> HIDE DEF v, new, file
  <2>4. v.a = [w.a EXCEPT !.buffer_ = <<>>] /\ v.files = [w.files EXCEPT ![fd] = new]
        /\ v = [a |-> v.a, files |-> v.files]
    <3>1. w = [a |-> w.a, files |-> w.files]
      BY DEF WorldOk
    <3>2. v = [w EXCEPT !.a.buffer_ = <<>>, !.files[fd] = Write(file, w.a.buffer_)]
      BY <1>2 DEF flush, v, file
    <3> HIDE DEF fd
    <3> QED
      BY <2>2, <3>1, <3>2
  <2>5. v.a \in Array(E) /\ v.a.buffer_ = <<>> /\ v.a.fd_ = fd
    BY <2>4, EmptySeq DEF WorldOk, Array
  <2>6. /\ v.a.size_ = w.a.size_ /\ v.a.frozen_ = w.a.frozen_ /\ v.a.array_ = w.a.array_
        /\ v.a.run_starts_ = w.a.run_starts_ /\ v.a.run_ends_ = w.a.run_ends_
    BY <2>4 DEF WorldOk, Array
  <2>7. /\ DOMAIN v.files = DOMAIN w.files /\ v.files[fd] = new
        /\ \A f \in DOMAIN w.files \ {fd} : v.files[f] = w.files[f]
    <3> HIDE DEF fd
    <3> QED BY <2>1, <2>4 DEF WorldOk, FilesOk
  <2>8. FilesOk(v.files, E)
    <3>1. /\ FilesOk(w.files, E) /\ fd \in Nat \ {0}
          /\ v.files = [f \in DOMAIN v.files |-> v.files[f]]
          /\ DOMAIN v.files = DOMAIN w.files \union {fd}
      <4> HIDE DEF fd
      <4> QED BY <2>1, <2>4, <2>7, ZenonT(60) DEF WorldOk, FilesOk
    <3> HIDE DEF fd
    <3> QED
      BY <2>3, <2>7, <3>1, OneFile
  <2>9. WorldOk(v, E)
    BY <2>1, <2>4, <2>5, <2>7, <2>8 DEF WorldOk
  <2>10. Holds(v) = Holds(w)
    <3>1. Holds(w) = file.content \o w.a.buffer_
      BY <1>2 DEF Holds, InFile, file
    <3>2. InFile(v) = file.content \o w.a.buffer_
      BY <2>1, <2>3, <2>5, <2>7 DEF InFile
    <3>3. Holds(v) = (file.content \o w.a.buffer_) \o <<>>
      BY <2>5, <3>2 DEF Holds
    <3> QED
      BY <2>1, <3>1, <3>3, ConcatEmpty, ConcatProperties
  <2>11. Keeps(w, v)
    BY <2>1, <2>5, <2>6, <2>7, <2>10, <1>2 DEF Keeps, Touches
  <2> QED
    BY <2>5, <2>9, <2>11 DEF v
<1> QED
  BY <1>1, <1>2

\* Some number up to one more than the open files is the descriptor of none.
LEMMA FreeFile ==
  ASSUME NEW S, IsFiniteSet(S)
  PROVE  \E n \in 1 .. Cardinality(S) + 1 : n \notin S
<1>1. Cardinality(S) \in Nat
  BY FS_CardinalityType
<1>2. IsFiniteSet(1 .. Cardinality(S) + 1)
      /\ Cardinality(1 .. Cardinality(S) + 1) = Cardinality(S) + 1
  BY <1>1, FS_Interval
<1>3. SUFFICES ASSUME 1 .. Cardinality(S) + 1 \subseteq S PROVE FALSE
  OBVIOUS
<1>4. Cardinality(1 .. Cardinality(S) + 1) <= Cardinality(S)
  BY <1>3, FS_Subset
<1> QED
  BY <1>1, <1>2, <1>4

\* v is w after changes to members of the array other than its file.
Edits(w, v, E) ==
  v = [a |-> v.a, files |-> w.files] /\ v.a \in Array(E) /\ v.a.fd_ = w.a.fd_

LEMMA WithArray ==
  ASSUME NEW w, w = [a |-> w.a, files |-> w.files], NEW x
  PROVE  /\ With(w, x) = [a |-> With(w, x).a, files |-> w.files]
         /\ With(w, x).a = x /\ With(w, x).files = w.files
BY DEF With

\* An operation on the members of an array that keeps its file.
LEMMA SameFiles ==
  ASSUME NEW E, NEW w, WorldOk(w, E),
         NEW v, Edits(w, v, E)
  PROVE  WorldOk(v, E) /\ Touches(w, v) /\ InFile(v) = InFile(w)
BY DEF Edits, WorldOk, Touches, InFile

LEMMA OpenKeeps ==
  ASSUME NEW E, NEW w, WorldOk(w, E), w.a.fd_ = NoFile
  PROVE  /\ WorldOk(open(w), E) /\ Keeps(w, open(w))
         /\ open(w).a.buffer_ = w.a.buffer_ /\ open(w).a.fd_ # NoFile
<1> DEFINE fd == CHOOSE n \in 1 .. Cardinality(DOMAIN w.files) + 1 : n \notin DOMAIN w.files
           new == [content |-> <<>>, offset |-> 0]
           v == open(w)
<1>1. fd \in Nat \ {0} /\ fd \notin DOMAIN w.files /\ fd # NoFile
  <2>1. IsFiniteSet(DOMAIN w.files)
    BY DEF WorldOk, FilesOk
  <2>2. \E n \in 1 .. Cardinality(DOMAIN w.files) + 1 : n \notin DOMAIN w.files
    BY <2>1, FreeFile
  <2>3. Cardinality(DOMAIN w.files) \in Nat
    BY <2>1, FS_CardinalityType
  <2> QED
    BY <2>2, <2>3 DEF NoFile
<1> HIDE DEF fd
<1>2. v = [a |-> [w.a EXCEPT !.fd_ = fd], 
           files |-> [f \in DOMAIN w.files \union {fd} |-> IF f = fd THEN new ELSE w.files[f]]]
  BY DEF open, fd
<1>3. new \in File(E) /\ new.offset = Len(new.content) /\ new.content = <<>>
  BY EmptySeq DEF File
<1> HIDE DEF v, new
<1>4. /\ v.a.fd_ = fd /\ v.a \in Array(E) /\ v.a.buffer_ = w.a.buffer_
      /\ v.a.size_ = w.a.size_ /\ v.a.frozen_ = w.a.frozen_ /\ v.a.array_ = w.a.array_
      /\ v.a.run_starts_ = w.a.run_starts_ /\ v.a.run_ends_ = w.a.run_ends_
  BY <1>1, <1>2 DEF WorldOk, Array
<1>5. /\ v.files = [f \in DOMAIN v.files |-> v.files[f]]
      /\ DOMAIN v.files = DOMAIN w.files \union {fd} /\ v.files[fd] = new
      /\ \A f \in DOMAIN w.files : v.files[f] = w.files[f]
  BY <1>1, <1>2
<1>6. FilesOk(v.files, E)
  BY <1>1, <1>3, <1>5, OneFile DEF WorldOk
<1>7. WorldOk(v, E)
  BY <1>2, <1>4, <1>5, <1>6 DEF WorldOk
<1>8. Holds(v) = Holds(w)
  BY <1>1, <1>3, <1>4, <1>5 DEF Holds, InFile
<1>9. Keeps(w, v)
  BY <1>1, <1>4, <1>5, <1>8 DEF Keeps, Touches
<1> QED
  BY <1>1, <1>4, <1>7, <1>9 DEF v

LEMMA MaybeFlushKeeps ==
  ASSUME NEW E, NEW w, WorldOk(w, E)
  PROVE  WorldOk(maybe_flush(w), E) /\ Keeps(w, maybe_flush(w))
<1> DEFINE v == IF w.a.fd_ = NoFile THEN open(w) ELSE w
<1>1. CASE ~(Len(w.a.buffer_) >= kFlushThreshold)
  BY <1>1 DEF maybe_flush, Keeps, Touches, WorldOk
<1>2. CASE Len(w.a.buffer_) >= kFlushThreshold
  <2>1. WorldOk(v, E) /\ Keeps(w, v)
    <3>1. CASE w.a.fd_ = NoFile
      BY <3>1, OpenKeeps
    <3>2. CASE w.a.fd_ # NoFile
      BY <3>2 DEF Keeps, Touches, WorldOk
    <3> QED
      BY <3>1, <3>2
  <2>2. maybe_flush(w) = flush(v)
    BY <1>2 DEF maybe_flush
  <2> HIDE DEF v
  <2> QED
    BY <2>1, <2>2, FlushKeeps, KeepsTrans
<1> QED
  BY <1>1, <1>2

\* The end of the buffer is the end of what the array holds.
LEMMA BufferAppended ==
  ASSUME NEW E, NEW w, WorldOk(w, E), NEW data \in Seq(E),
         NEW v, Edits(w, v, E), v.a.buffer_ = w.a.buffer_ \o data
  PROVE  WorldOk(v, E) /\ Touches(w, v) /\ Holds(v) = Holds(w) \o data
<1>1. w.a.buffer_ \in Seq(E) /\ InFile(w) \in Seq(E)
  BY HoldsType
<1>2. WorldOk(v, E) /\ Touches(w, v) /\ InFile(v) = InFile(w)
  BY SameFiles
<1>3. Holds(v) = InFile(w) \o (w.a.buffer_ \o data)
  BY <1>2 DEF Holds
<1>4. InFile(w) \o (w.a.buffer_ \o data) = (InFile(w) \o w.a.buffer_) \o data
  <2> DEFINE f == InFile(w)
             b == w.a.buffer_
  <2>1. f \in Seq(E) /\ b \in Seq(E)
    BY <1>1
  <2> HIDE DEF f, b
  <2>2. f \o (b \o data) = (f \o b) \o data
    BY <2>1, ConcatAssociative, SMTT(60)
  <2> QED
    BY <2>2 DEF f, b
<1> QED
  BY <1>2, <1>3, <1>4 DEF Holds

LEMMA InsertGrows ==
  ASSUME NEW E, NEW w, WorldOk(w, E), NEW data \in Seq(E)
  PROVE  WorldOk(insert_back(w, data), E) /\ Grows(w, insert_back(w, data), data)
<1> DEFINE x == With(w, [w.a EXCEPT !.buffer_ = @ \o data, !.size_ = @ + Len(data)])
           v == maybe_flush(x)
<1>1. /\ w.a \in Array(E) /\ w = [a |-> w.a, files |-> w.files]
      /\ w.a.size_ + Len(data) \in Nat /\ w.a.buffer_ \o data \in Seq(E)
  BY LenProperties, ConcatLen DEF WorldOk, Array
<1>2. /\ x = [a |-> x.a, files |-> w.files]
      /\ x.a = [w.a EXCEPT !.buffer_ = @ \o data, !.size_ = @ + Len(data)]
  BY <1>1, WithArray
<1>3. insert_back(w, data) = v
  BY DEF insert_back
<1> HIDE DEF x, v
<1>4. /\ x.a \in Array(E) /\ x.a.buffer_ = w.a.buffer_ \o data /\ x.a.fd_ = w.a.fd_
      /\ x.a.size_ = w.a.size_ + Len(data)
      /\ x.a.frozen_ = w.a.frozen_ /\ x.a.array_ = w.a.array_
      /\ x.a.run_starts_ = w.a.run_starts_ /\ x.a.run_ends_ = w.a.run_ends_
  BY <1>1, <1>2 DEF Array
<1>5. WorldOk(x, E) /\ Touches(w, x) /\ Holds(x) = Holds(w) \o data
  <2>1. Edits(w, x, E) /\ x.a.buffer_ = w.a.buffer_ \o data
    BY <1>2, <1>4 DEF Edits
  <2> QED
    BY <2>1, BufferAppended
<1>6. WorldOk(v, E) /\ Keeps(x, v)
  BY <1>5, MaybeFlushKeeps DEF v
<1>7. Touches(w, v)
  BY <1>5, <1>6 DEF Keeps, Touches, WorldOk
<1>8. Grows(w, v, data)
  BY <1>4, <1>5, <1>6, <1>7 DEF Keeps, Grows
<1> QED
  BY <1>3, <1>6, <1>8

LEMMA PushGrows ==
  ASSUME NEW E, NEW w, WorldOk(w, E), NEW e \in E
  PROVE  WorldOk(push_back(w, e), E) /\ Grows(w, push_back(w, e), <<e>>)
<1> DEFINE x == With(w, [w.a EXCEPT !.buffer_ = Append(@, e)])
           y == maybe_flush(x)
           v == With(y, [y.a EXCEPT !.size_ = @ + 1])
<1>1. <<e>> \in Seq(E) /\ Len(<<e>>) = 1
  OBVIOUS
<1>2. /\ w.a \in Array(E) /\ w = [a |-> w.a, files |-> w.files]
      /\ w.a.buffer_ \in Seq(E) /\ w.a.size_ \in Nat
  BY DEF WorldOk, Array
<1>3. Append(w.a.buffer_, e) = w.a.buffer_ \o <<e>> /\ w.a.buffer_ \o <<e>> \in Seq(E)
  BY <1>1, <1>2, AppendIsConcat, ConcatLen
<1>4. x = [a |-> x.a, files |-> w.files] /\ x.a = [w.a EXCEPT !.buffer_ = Append(@, e)]
  BY <1>2, WithArray
<1>5. v = push_back(w, e)
  BY DEF push_back
<1> HIDE DEF x, y
<1>6. /\ x.a \in Array(E) /\ x.a.buffer_ = w.a.buffer_ \o <<e>> /\ x.a.fd_ = w.a.fd_
      /\ x.a.size_ = w.a.size_
      /\ x.a.frozen_ = w.a.frozen_ /\ x.a.array_ = w.a.array_
      /\ x.a.run_starts_ = w.a.run_starts_ /\ x.a.run_ends_ = w.a.run_ends_
  BY <1>2, <1>3, <1>4 DEF Array
<1>7. WorldOk(x, E) /\ Touches(w, x) /\ Holds(x) = Holds(w) \o <<e>>
  <2>1. Edits(w, x, E) /\ x.a.buffer_ = w.a.buffer_ \o <<e>>
    BY <1>4, <1>6 DEF Edits
  <2> QED
    BY <1>1, <2>1, BufferAppended
<1>8. WorldOk(y, E) /\ Keeps(x, y)
  BY <1>7, MaybeFlushKeeps DEF y
<1>9. y.a \in Array(E) /\ y = [a |-> y.a, files |-> y.files] /\ y.a.size_ + 1 \in Nat
  BY <1>8 DEF WorldOk, Array
<1>10. v = [a |-> v.a, files |-> y.files] /\ v.a = [y.a EXCEPT !.size_ = @ + 1]
  BY <1>9, WithArray
<1> HIDE DEF v
<1>11. /\ v.a \in Array(E) /\ v.a.fd_ = y.a.fd_
       /\ v.a.size_ = y.a.size_ + 1 /\ v.a.buffer_ = y.a.buffer_
       /\ v.a.frozen_ = y.a.frozen_ /\ v.a.array_ = y.a.array_
       /\ v.a.run_starts_ = y.a.run_starts_ /\ v.a.run_ends_ = y.a.run_ends_
  BY <1>9, <1>10 DEF Array
<1>12. WorldOk(v, E) /\ Touches(y, v) /\ InFile(v) = InFile(y)
  <2>1. Edits(y, v, E)
    BY <1>10, <1>11 DEF Edits
  <2> QED
    BY <1>8, <2>1, SameFiles
<1>13. Holds(v) = Holds(y)
  BY <1>11, <1>12 DEF Holds
<1>14. Touches(w, v)
  BY <1>7, <1>8, <1>11, <1>12, ZenonT(60) DEF Keeps, Touches, WorldOk
<1>15. Grows(w, v, <<e>>)
  BY <1>1, <1>6, <1>7, <1>8, <1>11, <1>13, <1>14 DEF Keeps, Grows
<1> QED
  BY <1>5, <1>12, <1>15

LEMMA EditsHold ==
  ASSUME NEW E, NEW w, WorldOk(w, E), NEW v, Edits(w, v, E), v.a.buffer_ = w.a.buffer_
  PROVE  WorldOk(v, E) /\ Touches(w, v) /\ Holds(v) = Holds(w)
BY SameFiles DEF Holds

LEMMA TouchesTrans ==
  ASSUME NEW E, NEW u, NEW v, NEW w, WorldOk(u, E), WorldOk(v, E), WorldOk(w, E),
         Touches(u, v), Touches(v, w)
  PROVE  Touches(u, w)
BY DEF Touches, WorldOk

LEMMA FreezeKeeps ==
  ASSUME NEW E, NEW w, WorldOk(w, E)
  PROVE  LET v == freeze(w)
         IN  /\ WorldOk(v, E) /\ Touches(w, v) /\ Holds(v) = Holds(w)
             /\ v.a.size_ = w.a.size_ /\ v.a.frozen_ = TRUE /\ Mapped(v.a)
             /\ v.a.run_starts_ = w.a.run_starts_ /\ v.a.run_ends_ = w.a.run_ends_
<1> DEFINE fits == w.a.fd_ # NoFile /\ w.a.size_ > 0
           u == IF fits THEN flush(w) ELSE w
           m == IF fits THEN w.a.fd_ ELSE Buffer
           v == freeze(w)
<1>1. v = With(u, [u.a EXCEPT !.array_ = m, !.frozen_ = TRUE])
  BY DEF freeze, maybe_map
<1>2. m \in Int
  BY DEF WorldOk, Array, NoFile, Buffer
<1>3. /\ WorldOk(u, E) /\ Keeps(w, u) /\ u.a.fd_ = w.a.fd_
      /\ fits => u.a.buffer_ = <<>>
  <2>1. CASE fits
    BY <2>1, FlushKeeps
  <2>2. CASE ~fits
    BY <2>2 DEF Keeps, Touches, WorldOk
  <2> QED
    BY <2>1, <2>2
<1> HIDE DEF u, m, v, fits
<1>4. u.a \in Array(E) /\ u = [a |-> u.a, files |-> u.files]
  BY <1>3 DEF WorldOk
<1>5. v = [a |-> v.a, files |-> u.files] /\ v.a = [u.a EXCEPT !.array_ = m, !.frozen_ = TRUE]
  BY <1>1, <1>4, WithArray
<1>6. /\ v.a \in Array(E) /\ v.a.fd_ = u.a.fd_ /\ v.a.buffer_ = u.a.buffer_
      /\ v.a.size_ = u.a.size_ /\ v.a.frozen_ = TRUE /\ v.a.array_ = m
      /\ v.a.run_starts_ = u.a.run_starts_ /\ v.a.run_ends_ = u.a.run_ends_
  BY <1>2, <1>4, <1>5 DEF Array
<1>7. Edits(u, v, E)
  BY <1>5, <1>6 DEF Edits
<1>8. WorldOk(v, E) /\ Touches(u, v) /\ Holds(v) = Holds(u)
  BY <1>3, <1>6, <1>7, EditsHold
<1>9. Touches(w, v) /\ Holds(v) = Holds(w)
  BY <1>3, <1>8, TouchesTrans DEF Keeps
<1>10. Mapped(v.a)
  BY <1>3, <1>6 DEF Mapped, Keeps, m, fits
<1> QED
  BY <1>3, <1>6, <1>8, <1>9, <1>10 DEF Keeps, v

LEMMA ThawKeeps ==
  ASSUME NEW E, NEW w, WorldOk(w, E)
  PROVE  LET v == thaw(w)
         IN  /\ WorldOk(v, E) /\ Touches(w, v) /\ Holds(v) = Holds(w)
             /\ v.a.size_ = w.a.size_ /\ v.a.frozen_ = FALSE /\ v.a.array_ = Null
             /\ v.a.run_starts_ = w.a.run_starts_ /\ v.a.run_ends_ = w.a.run_ends_
<1> DEFINE u == thawed(w)
           v == thaw(w)
<1>1. w.a \in Array(E) /\ w = [a |-> w.a, files |-> w.files]
  BY DEF WorldOk
<1>2. u = [a |-> u.a, files |-> w.files] /\ u.a = [w.a EXCEPT !.frozen_ = FALSE]
  <2>1. u = With(w, [w.a EXCEPT !.frozen_ = FALSE])
    BY DEF thawed
  <2> HIDE DEF u
  <2> QED
    BY <1>1, <2>1, WithArray
<1> HIDE DEF u
<1>3. v = With(u, [u.a EXCEPT !.array_ = Null])
  BY DEF thaw, maybe_unmap, u
<1> HIDE DEF v
<1>4. v = [a |-> v.a, files |-> w.files] /\ v.a = [u.a EXCEPT !.array_ = Null]
  BY <1>2, <1>3, WithArray
<1>5. /\ u.a \in Array(E) /\ u.a.fd_ = w.a.fd_ /\ u.a.buffer_ = w.a.buffer_
      /\ u.a.size_ = w.a.size_ /\ u.a.frozen_ = FALSE
      /\ u.a.run_starts_ = w.a.run_starts_ /\ u.a.run_ends_ = w.a.run_ends_
  BY <1>1, <1>2 DEF Array
<1>6. /\ v.a \in Array(E) /\ v.a.fd_ = w.a.fd_ /\ v.a.buffer_ = w.a.buffer_
      /\ v.a.size_ = w.a.size_ /\ v.a.frozen_ = FALSE /\ v.a.array_ = Null
      /\ v.a.run_starts_ = w.a.run_starts_ /\ v.a.run_ends_ = w.a.run_ends_
  <2>1. Null \in Int
    BY DEF Null
  <2> QED
    BY <1>4, <1>5, <2>1 DEF Array
<1>7. Edits(w, v, E)
  BY <1>4, <1>6 DEF Edits
<1>8. WorldOk(v, E) /\ Touches(w, v) /\ Holds(v) = Holds(w)
  BY <1>6, <1>7, EditsHold
<1> QED
  BY <1>6, <1>8 DEF v

LEMMA StartRunKeeps ==
  ASSUME NEW E, NEW w, WorldOk(w, E)
  PROVE  LET v == start_run(w)
         IN  /\ WorldOk(v, E) /\ Touches(w, v) /\ Holds(v) = Holds(w)
             /\ v.a.size_ = w.a.size_ /\ v.a.frozen_ = w.a.frozen_ /\ v.a.array_ = w.a.array_
             /\ v.a.run_starts_ = Append(w.a.run_starts_, w.a.size_)
             /\ v.a.run_ends_ = w.a.run_ends_
<1> DEFINE v == start_run(w)
<1>1. /\ w.a \in Array(E) /\ w = [a |-> w.a, files |-> w.files]
      /\ Append(w.a.run_starts_, w.a.size_) \in Seq(Nat)
  BY AppendProperties DEF WorldOk, Array
<1>2. /\ v = [a |-> v.a, files |-> w.files]
      /\ v.a = [w.a EXCEPT !.run_starts_ = Append(@, w.a.size_)]
  <2>1. v = With(w, [w.a EXCEPT !.run_starts_ = Append(@, w.a.size_)])
    BY DEF start_run
  <2> HIDE DEF v
  <2> QED
    BY <1>1, <2>1, WithArray
<1> HIDE DEF v
<1>3. /\ v.a \in Array(E) /\ v.a.fd_ = w.a.fd_ /\ v.a.buffer_ = w.a.buffer_
      /\ v.a.size_ = w.a.size_ /\ v.a.frozen_ = w.a.frozen_ /\ v.a.array_ = w.a.array_
      /\ v.a.run_starts_ = Append(w.a.run_starts_, w.a.size_)
      /\ v.a.run_ends_ = w.a.run_ends_
  BY <1>1, <1>2 DEF Array
<1>4. Edits(w, v, E)
  BY <1>2, <1>3 DEF Edits
<1> QED
  BY <1>3, <1>4, EditsHold DEF v

LEMMA EndRunKeeps ==
  ASSUME NEW E, NEW w, WorldOk(w, E)
  PROVE  LET v == end_run(w)
         IN  /\ WorldOk(v, E) /\ Touches(w, v) /\ Holds(v) = Holds(w)
             /\ v.a.size_ = w.a.size_
             /\ v.a.run_starts_ = w.a.run_starts_
             /\ v.a.run_ends_ = Append(w.a.run_ends_, w.a.size_)
<1> DEFINE v == end_run(w)
<1>1. /\ w.a \in Array(E) /\ w = [a |-> w.a, files |-> w.files]
      /\ Append(w.a.run_ends_, w.a.size_) \in Seq(Nat)
  BY AppendProperties DEF WorldOk, Array
<1>2. /\ v = [a |-> v.a, files |-> w.files]
      /\ v.a = [w.a EXCEPT !.run_ends_ = Append(@, w.a.size_)]
  <2>1. v = With(w, [w.a EXCEPT !.run_ends_ = Append(@, w.a.size_)])
    BY DEF end_run
  <2> HIDE DEF v
  <2> QED
    BY <1>1, <2>1, WithArray
<1> HIDE DEF v
<1>3. /\ v.a \in Array(E) /\ v.a.fd_ = w.a.fd_ /\ v.a.buffer_ = w.a.buffer_
      /\ v.a.size_ = w.a.size_
      /\ v.a.run_starts_ = w.a.run_starts_
      /\ v.a.run_ends_ = Append(w.a.run_ends_, w.a.size_)
  BY <1>1, <1>2 DEF Array
<1>4. Edits(w, v, E)
  BY <1>2, <1>3 DEF Edits
<1> QED
  BY <1>3, <1>4, EditsHold DEF v

\* A reset array is empty, and so is its file, which is written from its
\* beginning again.
LEMMA ResetEmpties ==
  ASSUME NEW E, NEW w, WorldOk(w, E), w.a.array_ # Null
  PROVE  LET v == reset(w)
         IN  /\ WorldOk(v, E) /\ Touches(w, v) /\ Holds(v) = <<>>
             /\ v.a.size_ = 0 /\ v.a.frozen_ = FALSE /\ v.a.array_ = Null
             /\ v.a.run_starts_ = <<>> /\ v.a.run_ends_ = <<>>
<1> DEFINE fd == w.a.fd_
           new == [content |-> <<>>, offset |-> 0]
           u == thawed(w)
           t == maybe_unmap(Seek(u), TRUE)
           v == reset(w)
           newFiles == IF fd # NoFile THEN [w.files EXCEPT ![fd] = new] ELSE w.files
<1>1. /\ w.a \in Array(E) /\ w = [a |-> w.a, files |-> w.files]
      /\ fd # NoFile => fd \in DOMAIN w.files /\ w.files[fd] \in File(E) /\ fd \in Nat \ {0}
      /\ w.files = [f \in DOMAIN w.files |-> w.files[f]]
  BY DEF WorldOk, FilesOk
<1>2. /\ u = [a |-> u.a, files |-> w.files] /\ u.a = [w.a EXCEPT !.frozen_ = FALSE]
      /\ u.files = w.files
  <2>1. u = With(w, [w.a EXCEPT !.frozen_ = FALSE])
    BY DEF thawed
  <2> HIDE DEF u
  <2> QED
    BY <1>1, <2>1, WithArray, ZenonT(60)
<1> HIDE DEF u
<1>3. u.a.fd_ = fd /\ u.a.array_ # Null
  BY <1>1, <1>2 DEF Array
<1>4. t.files = newFiles /\ t.a = [u.a EXCEPT !.array_ = Null] /\ t = [a |-> t.a, files |-> t.files]
  <2>1. CASE fd = NoFile
    <3>1. t = With(u, [u.a EXCEPT !.array_ = Null])
      BY <1>3, <2>1 DEF maybe_unmap, Seek
    <3> HIDE DEF t
    <3> QED
      BY <1>2, <2>1, <3>1, WithArray
  <2>2. CASE fd # NoFile
    <3> DEFINE cut == [[u EXCEPT !.files[fd].offset = 0] EXCEPT !.files[fd].content = <<>>]
    <3>1. t = With(cut, [cut.a EXCEPT !.array_ = Null])
      <4>1. Seek(u) = [u EXCEPT !.files[fd].offset = 0]
        BY <1>3, <2>2 DEF Seek
      <4>2. Seek(u).a = u.a
        BY <1>2, <4>1
      <4> QED
        BY <1>3, <2>2, <4>1, <4>2 DEF maybe_unmap
    <3>2. cut.a = u.a /\ cut = [a |-> cut.a, files |-> cut.files] /\ cut.files = newFiles
      <4> DEFINE back == [u EXCEPT !.files[fd].offset = 0]
      <4>1. back.a = u.a /\ back = [a |-> back.a, files |-> back.files]
            /\ back.files = [w.files EXCEPT ![fd].offset = 0]
        BY <1>2
      <4> HIDE DEF back
      <4>2. cut.a = u.a /\ cut = [a |-> cut.a, files |-> cut.files]
            /\ cut.files = [back.files EXCEPT ![fd].content = <<>>]
        <5>1. cut = [back EXCEPT !.files[fd].content = <<>>]
          BY DEF back
        <5> HIDE DEF cut
        <5> QED
          BY <4>1, <5>1
      <4>3. back.files = [w.files EXCEPT ![fd] = [content |-> w.files[fd].content, offset |-> 0]]
        BY <1>1, <2>2, <4>1 DEF File
      <4>4. cut.files = [w.files EXCEPT ![fd] = new]
        <5> HIDE DEF cut, fd
        <5> QED
          BY <1>1, <2>2, <4>2, <4>3
      <4> QED
        BY <2>2, <4>2, <4>4
    <3> HIDE DEF cut, t, newFiles
    <3> QED
      BY <3>1, <3>2, WithArray
  <2> QED
    BY <2>1, <2>2
<1>5. v = With(t, [t.a EXCEPT !.size_ = 0, !.buffer_ = <<>>, !.run_starts_ = <<>>, !.run_ends_ = <<>>])
  BY DEF reset, u
<1> HIDE DEF t, v, newFiles
<1>6. /\ v.files = newFiles /\ v = [a |-> v.a, files |-> v.files]
      /\ v.a = [t.a EXCEPT !.size_ = 0, !.buffer_ = <<>>, !.run_starts_ = <<>>, !.run_ends_ = <<>>]
  BY <1>4, <1>5, WithArray
<1>7. t.a \in Array(E) /\ t.a.frozen_ = FALSE /\ t.a.array_ = Null /\ t.a.fd_ = fd
  <2>1. u.a \in Array(E) /\ u.a.frozen_ = FALSE
    BY <1>1, <1>2 DEF Array
  <2>2. Null \in Int
    BY DEF Null
  <2> QED
    BY <1>3, <1>4, <2>1, <2>2 DEF Array
<1>8. /\ v.a \in Array(E) /\ v.a.frozen_ = FALSE /\ v.a.array_ = Null /\ v.a.fd_ = fd
      /\ v.a.size_ = 0 /\ v.a.buffer_ = <<>>
      /\ v.a.run_starts_ = <<>> /\ v.a.run_ends_ = <<>>
  <2>1. <<>> \in Seq(E) /\ <<>> \in Seq(Nat)
    BY EmptySeq
  <2> DEFINE x == t.a
             y == [x EXCEPT !.size_ = 0, !.buffer_ = <<>>]
  <2>2. x \in Array(E) /\ x.frozen_ = FALSE /\ x.array_ = Null /\ x.fd_ = fd
    BY <1>7
  <2>3. v.a = [y EXCEPT !.run_starts_ = <<>>, !.run_ends_ = <<>>]
    BY <1>6
  <2> HIDE DEF x
  <2>4. y \in Array(E) /\ y.frozen_ = FALSE /\ y.array_ = Null /\ y.fd_ = fd
        /\ y.size_ = 0 /\ y.buffer_ = <<>>
    BY <2>1, <2>2 DEF Array
  <2> HIDE DEF y
  <2> QED
    BY <2>1, <2>3, <2>4 DEF Array
<1>9. new \in File(E) /\ new.offset = Len(new.content) /\ new.content = <<>>
  BY EmptySeq DEF File
<1> HIDE DEF new
<1>10. /\ v.files = [f \in DOMAIN v.files |-> v.files[f]] /\ DOMAIN v.files = DOMAIN w.files
       /\ \A f \in DOMAIN w.files \ {fd} : v.files[f] = w.files[f]
       /\ fd # NoFile => v.files[fd] = new
  BY <1>1, <1>6 DEF newFiles
<1>11. FilesOk(v.files, E)
  <2>1. CASE fd = NoFile
    BY <1>6, <2>1 DEF newFiles, WorldOk
  <2>2. CASE fd # NoFile
    <3>1. DOMAIN v.files = DOMAIN w.files \union {fd} /\ fd \in Nat \ {0} /\ v.files[fd] = new
          /\ FilesOk(w.files, E)
      BY <1>1, <1>10, <2>2 DEF WorldOk
    <3> HIDE DEF fd
    <3> QED
      BY <1>9, <1>10, <3>1, OneFile
  <2> QED
    BY <2>1, <2>2
<1>12. WorldOk(v, E) /\ Touches(w, v)
  BY <1>6, <1>8, <1>10, <1>11 DEF WorldOk, Touches
<1>13. Holds(v) = <<>>
  <2>1. InFile(v) = <<>>
    BY <1>8, <1>9, <1>10 DEF InFile
  <2>2. <<>> \o <<>> = <<>>
    BY EmptySeq, ConcatEmptySeq
  <2> QED
    BY <1>8, <2>1, <2>2 DEF Holds
<1> QED
  BY <1>8, <1>12, <1>13 DEF v

\* An array that is closed takes its file with it and no other.
LEMMA CloseDrops ==
  ASSUME NEW w, w = [a |-> w.a, files |-> w.files]
  PROVE  /\ w.a.fd_ = NoFile => maybe_close(w) = w
         /\ w.a.fd_ # NoFile =>
              maybe_close(w).files = [f \in DOMAIN w.files \ {w.a.fd_} |-> w.files[f]]
<1>1. CASE w.a.fd_ = NoFile
  BY <1>1 DEF maybe_close
<1>2. CASE w.a.fd_ # NoFile
  <2> DEFINE fd == w.a.fd_
             cut == IF w.a.fd_ # NoFile /\ w.a.array_ # Null
                      THEN [w EXCEPT !.files[w.a.fd_].content = <<>>] ELSE w
             u == With(cut, [cut.a EXCEPT !.array_ = Null])
  <2>0. maybe_unmap(w, TRUE) = u
    BY DEF maybe_unmap
  <2>1. maybe_close(w).files = [f \in DOMAIN u.files \ {fd} |-> u.files[f]]
    <3> HIDE DEF u
    <3> QED
      BY <1>2, <2>0 DEF maybe_close
  <2>2. /\ cut = [a |-> cut.a, files |-> cut.files] /\ DOMAIN cut.files = DOMAIN w.files
        /\ \A f \in DOMAIN w.files \ {fd} : cut.files[f] = w.files[f]
    <3>1. CASE w.a.array_ # Null
      <4>1. cut = [w EXCEPT !.files[fd].content = <<>>]
        BY <1>2, <3>1
      <4> HIDE DEF cut
      <4>2. cut = [a |-> cut.a, files |-> cut.files]
            /\ cut.files = [w.files EXCEPT ![fd].content = <<>>]
        BY <4>1
      <4> HIDE DEF fd
      <4> QED
        BY <4>2
    <3>2. CASE w.a.array_ = Null
      BY <3>2
    <3> QED
      BY <3>1, <3>2
  <2> HIDE DEF cut
  <2>3. u.files = cut.files
    BY <2>2, WithArray
  <2> HIDE DEF u
  <2> QED
    BY <1>2, <2>1, <2>2, <2>3
<1> QED
  BY <1>1, <1>2

-----------------------------------------------------------------------------
(***************************************************************************)
(* One array changes, the others stay.                                     *)
(***************************************************************************)
\* What was right before more elements were written is right after it.
LEMMA MoreElements ==
  ASSUME NEW E, NEW F, E \subseteq F
  PROVE  /\ Seq(E) \subseteq Seq(F) /\ Array(E) \subseteq Array(F)
         /\ \A fs : FilesOk(fs, E) => FilesOk(fs, F)
         /\ \A w : WorldOk(w, E) => WorldOk(w, F)
<1>1. Seq(E) \subseteq Seq(F)
  BY SeqMonotonic
<1>2. Array(E) \subseteq Array(F)
  BY <1>1 DEF Array
<1>3. File(E) \subseteq File(F)
  BY <1>1 DEF File
<1>4. \A fs : FilesOk(fs, E) => FilesOk(fs, F)
  BY <1>3 DEF FilesOk
<1> QED
  BY <1>1, <1>2, <1>4 DEF WorldOk

LEMMA WorldIsOk ==
  ASSUME Types, Owned, NEW a \in Arrays
  PROVE  /\ WorldOk(World(a), Elements)
         /\ World(a).a = arrays[a] /\ World(a).files = files
BY DEF Types, Owned, World, WorldOk

LEMMA Frame ==
  ASSUME Types, Owned, NEW a \in Arrays, NEW v, written' \in Nat, written <= written',
         WorldOk(v, Elements'), Touches(World(a), v), Becomes(a, v)
  PROVE  /\ arrays' \in [Arrays -> Array(Elements')] /\ FilesOk(files', Elements')
         /\ Owned'
         /\ arrays'[a] = v.a /\ files' = v.files /\ World(a)' = v
         /\ \A b \in Arrays \ {a} : /\ arrays'[b] = arrays[b]
                                    /\ Holds(World(b))' = Holds(World(b))
<1>1. /\ arrays \in [Arrays -> Array(Elements)] /\ Elements \subseteq Elements'
      /\ v.a \in Array(Elements') /\ v = [a |-> v.a, files |-> v.files]
      /\ FilesOk(v.files, Elements')
  BY DEF Types, Elements, WorldOk
<1>2. arrays' = [arrays EXCEPT ![a] = v.a] /\ files' = v.files
  BY DEF Becomes
<1>3. arrays' \in [Arrays -> Array(Elements')]
  BY <1>1, <1>2, MoreElements
<1>4. arrays'[a] = v.a /\ \A b \in Arrays \ {a} : arrays'[b] = arrays[b]
  BY <1>1, <1>2
<1>5. World(a)' = v
  BY <1>1, <1>2, <1>4 DEF World
<1> DEFINE old == arrays[a].fd_
           new == v.a.fd_
<1>6. /\ new = old \/ (old = NoFile /\ new \notin DOMAIN files)
      /\ DOMAIN files' = DOMAIN files \union ({new} \ {NoFile})
      /\ \A f \in DOMAIN files \ {old} : files'[f] = files[f]
  BY <1>2 DEF Touches, World
<1>7. \A b \in Arrays \ {a} : Holds(World(b))' = Holds(World(b))
  <2> TAKE b \in Arrays \ {a}
  <2>1. arrays[b].fd_ # NoFile =>
          /\ arrays[b].fd_ \in DOMAIN files /\ arrays[b].fd_ # old
          /\ files'[arrays[b].fd_] = files[arrays[b].fd_]
    BY <1>6 DEF Owned
  <2> QED
    BY <1>4, <2>1 DEF Holds, InFile, World
<1>8. Owned'
  <2>1. \A b \in Arrays : arrays'[b].fd_ \in DOMAIN files' \union {NoFile}
    BY <1>4, <1>6 DEF Owned
  <2>2. \A b, c \in Arrays : b # c /\ arrays'[b].fd_ # NoFile => arrays'[b].fd_ # arrays'[c].fd_
    <3> SUFFICES ASSUME NEW b \in Arrays, NEW c \in Arrays, b # c, arrays'[b].fd_ # NoFile,
                        arrays'[b].fd_ = arrays'[c].fd_
                 PROVE  FALSE
      OBVIOUS
    <3>1. CASE b # a /\ c # a
      BY <1>4, <3>1 DEF Owned
    <3>2. CASE b = a
      BY <1>4, <1>6, <3>2 DEF Owned
    <3>3. CASE c = a
      BY <1>4, <1>6, <3>3 DEF Owned
    <3> QED
      BY <3>1, <3>2, <3>3
  <2>3. \A f \in DOMAIN files' : \E b \in Arrays : arrays'[b].fd_ = f
    <3> TAKE f \in DOMAIN files'
    <3>1. CASE f = new
      BY <1>4, <3>1
    <3>2. CASE f # new
      <4>1. f \in DOMAIN files
        BY <1>6, <3>2
      <4>2. PICK b \in Arrays : arrays[b].fd_ = f
        BY <4>1 DEF Owned
      <4>3. b # a
        <5> SUFFICES ASSUME b = a PROVE FALSE
          OBVIOUS
        <5>1. old = f /\ new # old
          BY <3>2, <4>2
        <5>2. NoFile \in DOMAIN files
          BY <1>6, <4>1, <5>1
        <5> QED
          BY <5>2 DEF Types, FilesOk, NoFile
      <4> QED
        BY <1>4, <4>2, <4>3
    <3> QED
      BY <3>1, <3>2
  <2> QED
    BY <2>1, <2>2, <2>3 DEF Owned
<1> QED
  BY <1>1, <1>2, <1>3, <1>4, <1>5, <1>7, <1>8

LEMMA OthersStay ==
  ASSUME NEW b \in Arrays, ArrayOk(b), RunsOk(b),
         arrays'[b] = arrays[b], Holds(World(b))' = Holds(World(b)),
         log'[b] = log[b], run_log'[b] = run_log[b],
         b \in writing' <=> b \in writing, b \in swapped' <=> b \in swapped
  PROVE  ArrayOk(b)' /\ RunsOk(b)'
BY DEF ArrayOk, RunsOk

-----------------------------------------------------------------------------
(***************************************************************************)
(* The runs.                                                               *)
(***************************************************************************)
\* A part of a sequence is the same part after something is appended.
LEMMA PartStays ==
  ASSUME NEW E, NEW s \in Seq(E), NEW t \in Seq(E), NEW m \in Nat, NEW n \in Nat, n <= Len(s)
  PROVE  SubSeq(s \o t, m + 1, n) = SubSeq(s, m + 1, n)
<1>1. CASE m + 1 <= n
  <2>1. m + 1 \in 1 .. Len(s) /\ n \in 1 .. Len(s)
    BY <1>1, ConcatLen
  <2> QED
    BY <2>1, SubSeqOfConcat1
<1>2. CASE n < m + 1
  BY <1>2, SubSeqEmpty
<1> QED
  BY <1>1, <1>2

\* What is appended to a sequence is appended to its end.
LEMMA EndGrows ==
  ASSUME NEW E, NEW s \in Seq(E), NEW t \in Seq(E), NEW m \in Nat, m <= Len(s)
  PROVE  SubSeq(s \o t, m + 1, Len(s \o t)) = SubSeq(s, m + 1, Len(s)) \o t
<1> DEFINE st == s \o t
<1>1. st \in Seq(E) /\ Len(st) = Len(s) + Len(t) /\ Len(s) \in Nat /\ Len(t) \in Nat
  BY ConcatLen
<1>2. SubSeq(st, m + 1, Len(s)) = SubSeq(s, m + 1, Len(s))
  BY <1>1, PartStays
<1>3. SubSeq(st, Len(s) + 1, Len(st)) = t
  <2>1. CASE Len(t) = 0
    <3>1. t = <<>> /\ Len(st) < Len(s) + 1
      BY <1>1, <2>1, EmptySeq
    <3>2. SubSeq(st, Len(s) + 1, Len(st)) = <<>>
      <4> HIDE DEF st
      <4> QED
        BY <1>1, <3>1, SubSeqEmpty
    <3> QED
      BY <3>1, <3>2
  <2>2. CASE Len(t) # 0
    <3>1. /\ Len(s) + 1 \in Len(s) + 1 .. Len(s) + Len(t)
          /\ Len(st) \in Len(s) + 1 .. Len(s) + Len(t)
          /\ Len(s) + 1 - Len(s) = 1 /\ Len(st) - Len(s) = Len(t)
      BY <1>1, <2>2
    <3>2. SubSeq(st, Len(s) + 1, Len(st)) = SubSeq(t, 1, Len(t))
      BY <3>1, SubSeqOfConcat2
    <3> QED
      BY <3>2, SubSeqFull
  <2> QED
    BY <2>1, <2>2
<1> HIDE DEF st
<1>4. /\ m + 1 \in 1 .. Len(st) + 1 /\ Len(s) \in (m + 1) - 1 .. Len(st)
      /\ Len(st) \in Len(s) .. Len(st)
  BY <1>1
<1>5. SubSeq(st, m + 1, Len(s)) \o SubSeq(st, Len(s) + 1, Len(st)) = SubSeq(st, m + 1, Len(st))
  BY <1>1, <1>4, ConcatAdjacentSubSeq
<1> QED
  BY <1>2, <1>3, <1>5 DEF st

LEMMA RunOpened ==
  ASSUME NEW E, NEW l \in Seq(E), NEW r \in Seq(Seq(E)),
         NEW starts \in Seq(Nat), NEW ends \in Seq(Nat), Len(starts) = Len(ends),
         RunsAre(starts, ends, l, r)
  PROVE  /\ RunsAre(Append(starts, Len(l)), ends, l, Append(r, <<>>))
         /\ LastRunIs(Append(starts, Len(l)), l, Append(r, <<>>))
         /\ Append(r, <<>>) \in Seq(Seq(E)) /\ Append(r, <<>>) # <<>>
<1> DEFINE s == Append(starts, Len(l))
           q == Append(r, <<>>)
           n == Len(starts)
<1>1. /\ n \in Nat /\ Len(l) \in Nat /\ n = Len(r) /\ n = Len(ends)
  BY LenProperties DEF RunsAre
<1>2. /\ Len(s) = n + 1 /\ s[n + 1] = Len(l) /\ \A i \in 1 .. n : s[i] = starts[i]
  BY <1>1, AppendProperties
<1>3. /\ Len(q) = n + 1 /\ q[n + 1] = <<>> /\ \A i \in 1 .. n : q[i] = r[i]
      /\ q \in Seq(Seq(E)) /\ q # <<>>
  <2>1. <<>> \in Seq(E)
    BY EmptySeq
  <2> DEFINE S == Seq(E)
  <2> HIDE DEF S
  <2>2. \A e \in S : LET p == Append(r, e)
                     IN  /\ Len(p) = n + 1 /\ p[n + 1] = e /\ \A i \in 1 .. n : p[i] = r[i]
                         /\ p \in Seq(S) /\ p # <<>>
    <3> SUFFICES ASSUME NEW e \in S
                 PROVE  LET p == Append(r, e)
                        IN  /\ Len(p) = n + 1 /\ p[n + 1] = e /\ \A i \in 1 .. n : p[i] = r[i]
                            /\ p \in Seq(S) /\ p # <<>>
      OBVIOUS
    <3>1. r \in Seq(S)
      BY DEF S
    <3> QED
      <4> DEFINE p == Append(r, e)
      <4>1. p \in Seq(S) /\ p # <<>> /\ Len(p) = Len(r) + 1
            /\ \A i \in 1 .. Len(r) + 1 : p[i] = IF i <= Len(r) THEN r[i] ELSE e
        BY <3>1, AppendProperties
      <4> HIDE DEF p
      <4> QED
        BY <1>1, <4>1, SMTT(60) DEF p
  <2> QED
    BY <2>1, <2>2 DEF S
<1>4. SubSeq(l, Len(l) + 1, Len(l)) = <<>>
  BY <1>1, SubSeqEmpty
<1> HIDE DEF s, q
<1>5. \A i \in 1 .. n : starts[i] <= ends[i] /\ ends[i] <= Len(l)
                        /\ r[i] = SubSeq(l, starts[i] + 1, ends[i])
  BY <1>1 DEF RunsAre
<1> HIDE DEF n
<1>6. RunsAre(s, ends, l, q) /\ LastRunIs(s, l, q)
  <2>1. RunsAre(s, ends, l, q)
    BY <1>1, <1>2, <1>3, <1>5 DEF RunsAre
  <2>2. Len(q) = n + 1 /\ s[Len(q)] = Len(l) /\ q[Len(q)] = <<>>
    BY <1>2, <1>3
  <2>3. LastRunIs(s, l, q)
    BY <1>1, <1>4, <2>2 DEF LastRunIs
  <2> QED
    BY <2>1, <2>3
<1> QED
  BY <1>3, <1>6 DEF s, q

LEMMA RunClosed ==
  ASSUME NEW E, NEW l \in Seq(E), NEW r \in Seq(Seq(E)),
         NEW starts \in Seq(Nat), NEW ends \in Seq(Nat), Len(starts) = Len(ends) + 1,
         RunsAre(starts, ends, l, r), LastRunIs(starts, l, r)
  PROVE  RunsAre(starts, Append(ends, Len(l)), l, r)
<1> DEFINE e == Append(ends, Len(l))
           n == Len(ends)
<1>1. n \in Nat /\ Len(l) \in Nat /\ Len(starts) = n + 1 /\ Len(r) = n + 1
  BY LenProperties DEF RunsAre
<1>2. Len(e) = n + 1 /\ e[n + 1] = Len(l) /\ \A i \in 1 .. n : e[i] = ends[i]
  BY <1>1, AppendProperties
<1>3. /\ \A i \in 1 .. n : starts[i] <= ends[i] /\ ends[i] <= Len(l)
                          /\ r[i] = SubSeq(l, starts[i] + 1, ends[i])
      /\ starts[n + 1] <= Len(l) /\ r[n + 1] = SubSeq(l, starts[n + 1] + 1, Len(l))
  BY <1>1 DEF RunsAre, LastRunIs
<1> HIDE DEF e, n
<1>4. \A i \in 1 .. n + 1 : starts[i] <= e[i] /\ e[i] <= Len(l)
                            /\ r[i] = SubSeq(l, starts[i] + 1, e[i])
  <2> SUFFICES ASSUME NEW i \in 1 .. n + 1
               PROVE  starts[i] <= e[i] /\ e[i] <= Len(l) /\ r[i] = SubSeq(l, starts[i] + 1, e[i])
    OBVIOUS
  <2>1. CASE i = n + 1
    <3>1. e[i] = Len(l) /\ starts[i] <= Len(l) /\ r[i] = SubSeq(l, starts[i] + 1, Len(l))
      BY <1>2, <1>3, <2>1
    <3> QED
      BY <1>1, <3>1
  <2>2. CASE i \in 1 .. n
    BY <1>2, <1>3, <2>2
  <2> QED
    BY <1>1, <2>1, <2>2
<1>5. RunsAre(starts, e, l, r)
  BY <1>1, <1>2, <1>4 DEF RunsAre
<1> QED
  BY <1>5 DEF e

LEMMA RunGrown ==
  ASSUME NEW E, NEW l \in Seq(E), NEW r \in Seq(Seq(E)), NEW d \in Seq(E),
         NEW starts \in Seq(Nat), NEW ends \in Seq(Nat), Len(starts) = Len(ends) + 1,
         RunsAre(starts, ends, l, r), LastRunIs(starts, l, r)
  PROVE  /\ RunsAre(starts, ends, l \o d, [r EXCEPT ![Len(r)] = @ \o d])
         /\ LastRunIs(starts, l \o d, [r EXCEPT ![Len(r)] = @ \o d])
<1> DEFINE q == [r EXCEPT ![Len(r)] = @ \o d]
           m == l \o d
           n == Len(ends)
           x == starts[n + 1]
<1>1. /\ n \in Nat /\ Len(l) \in Nat /\ Len(starts) = n + 1 /\ Len(r) = n + 1
      /\ m \in Seq(E) /\ Len(m) = Len(l) + Len(d) /\ Len(d) \in Nat
  <2>1. m \in Seq(E) /\ Len(m) = Len(l) + Len(d) /\ Len(l) \in Nat /\ Len(d) \in Nat
    BY ConcatLen
  <2>2. n \in Nat /\ Len(starts) = n + 1 /\ Len(r) = n + 1
    BY LenProperties DEF RunsAre
  <2> QED
    BY <2>1, <2>2
<1>2. /\ Len(q) = n + 1 /\ q[n + 1] = r[n + 1] \o d
      /\ \A i \in 1 .. n : q[i] = r[i]
  <2>1. n + 1 \in 1 .. Len(r)
    BY <1>1
  <2>2. r[n + 1] \in Seq(E)
    <3> HIDE DEF n
    <3> QED
      BY <2>1, ElementOfSeq
  <2>3. r[n + 1] \o d \in Seq(E)
    BY <2>2, ConcatLen
  <2>4. q = [r EXCEPT ![n + 1] = r[n + 1] \o d]
    BY <1>1
  <2> DEFINE e == r[n + 1] \o d
             S == Seq(E)
  <2>5. r \in Seq(S) /\ e \in S /\ q = [r EXCEPT ![n + 1] = e]
    BY <2>3, <2>4
  <2> HIDE DEF q, n, e, S
  <2>6. Len(q) = n + 1 /\ \A i \in 1 .. n + 1 : q[i] = IF i = n + 1 THEN e ELSE r[i]
    BY <1>1, <2>1, <2>5, ExceptSeq
  <2> QED
    BY <1>1, <2>6, SMTT(60) DEF e
<1>3. /\ \A i \in 1 .. n : starts[i] <= ends[i] /\ ends[i] <= Len(l)
                          /\ r[i] = SubSeq(l, starts[i] + 1, ends[i])
      /\ x <= Len(l) /\ r[n + 1] = SubSeq(l, x + 1, Len(l))
  BY <1>1 DEF RunsAre, LastRunIs
<1>4. \A i \in 1 .. n : SubSeq(m, starts[i] + 1, ends[i]) = SubSeq(l, starts[i] + 1, ends[i])
  <2> SUFFICES ASSUME NEW i \in 1 .. n
               PROVE  SubSeq(m, starts[i] + 1, ends[i]) = SubSeq(l, starts[i] + 1, ends[i])
    OBVIOUS
  <2> DEFINE b == starts[i]
             e == ends[i]
  <2>1. b \in Nat /\ e \in Nat /\ e <= Len(l)
    <3>1. i \in 1 .. Len(starts) /\ i \in 1 .. Len(ends)
      BY <1>1
    <3>2. e <= Len(l)
      BY <1>3
    <3> HIDE DEF n
    <3> QED
      BY <3>1, <3>2, ElementOfSeq
  <2> HIDE DEF b, e
  <2>2. SubSeq(m, b + 1, e) = SubSeq(l, b + 1, e)
    BY <2>1, PartStays
  <2> QED
    BY <2>2 DEF b, e
<1>5. x \in Nat
  <2>1. n + 1 \in 1 .. Len(starts)
    BY <1>1
  <2> HIDE DEF n
  <2> QED
    BY <2>1, ElementOfSeq
<1>6. SubSeq(m, x + 1, Len(m)) = SubSeq(l, x + 1, Len(l)) \o d
  <2> HIDE DEF x
  <2> QED
    BY <1>3, <1>5, EndGrows
<1>7. Len(m) \in Nat /\ Len(l) <= Len(m) /\ x <= Len(m)
  BY <1>1, <1>3, <1>5, SMTT(60)
<1>8. \A i \in 1 .. n : ends[i] <= Len(m)
  <2> SUFFICES ASSUME NEW i \in 1 .. n PROVE ends[i] <= Len(m)
    OBVIOUS
  <2>1. ends[i] \in Nat /\ ends[i] <= Len(l)
    BY <1>3, ElementOfSeq
  <2>2. Len(m) \in Nat /\ Len(l) \in Nat /\ Len(l) <= Len(m)
    BY <1>1, <1>7
  <2> DEFINE e == ends[i]
             k == Len(l)
  <2>3. e \in Nat /\ k \in Nat /\ e <= k /\ k <= Len(m)
    BY <2>1, <2>2
  <2> HIDE DEF m, n, e, k
  <2>4. e <= Len(m)
    BY <2>2, <2>3
  <2> QED
    BY <2>4 DEF e
<1> HIDE DEF q, m
<1>9. RunsAre(starts, ends, m, q)
  BY <1>1, <1>2, <1>3, <1>4, <1>8 DEF RunsAre
<1>10. LastRunIs(starts, m, q)
  BY <1>1, <1>2, <1>3, <1>6, <1>7 DEF LastRunIs
<1> QED
  BY <1>9, <1>10 DEF q, m

-----------------------------------------------------------------------------
(***************************************************************************)
(* Every step keeps the invariant.                                         *)
(***************************************************************************)
\* The array that an operation is on becomes v, its log l and its runs r.
Changes(a, v, l, r) ==
  /\ written' \in Nat /\ written <= written'
  /\ WorldOk(v, Elements') /\ Touches(World(a), v) /\ Becomes(a, v)
  /\ l \in Seq(Elements') /\ log' = [log EXCEPT ![a] = l]
  /\ r \in Seq(Seq(Elements')) /\ run_log' = [run_log EXCEPT ![a] = r]
  /\ writing' \subseteq Arrays /\ swapped' \subseteq Arrays
  /\ \A b \in Arrays \ {a} : (b \in writing' <=> b \in writing) /\ (b \in swapped' <=> b \in swapped)

\* It remains to look at this array.
LEMMA OneArrayChanges ==
  ASSUME ArraysInv, NEW a \in Arrays, NEW v, NEW l, NEW r, Changes(a, v, l, r)
  PROVE  /\ ArrayOk(a)' /\ RunsOk(a)' => ArraysInv'
         /\ arrays'[a] = v.a /\ World(a)' = v /\ log'[a] = l /\ run_log'[a] = r
<1>1. Types /\ Owned /\ \A b \in Arrays : ArrayOk(b) /\ RunsOk(b)
  BY DEF ArraysInv
<1>2. /\ arrays' \in [Arrays -> Array(Elements')] /\ FilesOk(files', Elements')
      /\ Owned'
      /\ arrays'[a] = v.a /\ World(a)' = v
      /\ \A b \in Arrays \ {a} : /\ arrays'[b] = arrays[b]
                                 /\ Holds(World(b))' = Holds(World(b))
  BY <1>1, Frame DEF Changes
<1>3. Elements \subseteq Elements' /\ Seq(Elements) \subseteq Seq(Elements')
      /\ Seq(Seq(Elements)) \subseteq Seq(Seq(Elements'))
  <2>1. Elements \subseteq Elements'
    BY <1>1 DEF Types, Elements, Changes
  <2>2. Seq(Elements) \subseteq Seq(Elements')
    BY <2>1, SeqMonotonic
  <2> QED
    BY <2>1, <2>2, SeqMonotonic
<1>4. log' \in [Arrays -> Seq(Elements')] /\ run_log' \in [Arrays -> Seq(Seq(Elements'))]
  BY <1>1, <1>3 DEF Types, Changes
<1>5. /\ log'[a] = l /\ run_log'[a] = r
      /\ \A b \in Arrays \ {a} : log'[b] = log[b] /\ run_log'[b] = run_log[b]
  BY <1>1 DEF Types, Changes
<1>6. \A b \in Arrays \ {a} : ArrayOk(b)' /\ RunsOk(b)'
  <2> SUFFICES ASSUME NEW b \in Arrays \ {a} PROVE ArrayOk(b)' /\ RunsOk(b)'
    OBVIOUS
  <2>1. ArrayOk(b) /\ RunsOk(b) /\ b \in Arrays
    BY <1>1
  <2>2. /\ arrays'[b] = arrays[b] /\ Holds(World(b))' = Holds(World(b))
        /\ log'[b] = log[b] /\ run_log'[b] = run_log[b]
        /\ b \in writing' <=> b \in writing
        /\ b \in swapped' <=> b \in swapped
    <3>1. /\ arrays'[b] = arrays[b] /\ Holds(World(b))' = Holds(World(b))
      BY <1>2
    <3>2. log'[b] = log[b] /\ run_log'[b] = run_log[b]
      BY <1>5
    <3>3. b \in writing' <=> b \in writing
      BY DEF Changes
    <3>4. b \in swapped' <=> b \in swapped
      BY DEF Changes
    <3> QED
      BY <3>1, <3>2, <3>3, <3>4
  <2> QED
    BY <2>1, <2>2, OthersStay
<1>7. Types'
  BY <1>2, <1>4 DEF Types, Changes
<1>8. ArrayOk(a)' /\ RunsOk(a)' => ArraysInv'
  BY <1>2, <1>6, <1>7 DEF ArraysInv
<1> QED
  BY <1>2, <1>5, <1>8

LEMMA InitArrays == Init => ArraysInv
<1> SUFFICES ASSUME Init PROVE ArraysInv
  OBVIOUS
<1>1. <<>> \in Seq(Elements) /\ <<>> \in Seq(Nat) /\ <<>> \in Seq(Seq(Elements)) /\ Len(<<>>) = 0
  BY EmptySeq
<1>2. New \in Array(Elements)
  BY <1>1 DEF New, Array, NoFile, Buffer
<1>3. FilesOk(files, Elements) /\ DOMAIN files = {}
  BY FS_EmptySet DEF Init, FilesOk
<1>4. Types
  BY <1>1, <1>2, <1>3 DEF Init, Types
<1>5. ASSUME NEW a \in Arrays
      PROVE  ArrayOk(a) /\ RunsOk(a)
  <2>1. arrays[a] = New /\ log[a] = <<>> /\ run_log[a] = <<>> /\ a \notin writing
    BY DEF Init
  <2>2. Holds(World(a)) = <<>>
    <3>1. <<>> \o <<>> = <<>>
      BY EmptySeq, ConcatEmptySeq
    <3> QED
      BY <2>1, <3>1 DEF Holds, InFile, World, New
  <2>3. ArrayOk(a)
    BY <1>1, <2>1, <2>2 DEF ArrayOk, New, Mapped
  <2>4. RunsOk(a)
    BY <1>1, <2>1 DEF RunsOk, RunsAre, New
  <2> QED
    BY <2>3, <2>4
<1>6. Owned
  BY <1>3 DEF Init, Owned, New
<1> QED
  BY <1>4, <1>5, <1>6 DEF ArraysInv

LEMMA OpenRunStep ==
  ASSUME ArraysInv, NEW a \in Arrays, OpenRun(a)
  PROVE  ArraysInv'
<1> DEFINE w == World(a)
           t == thaw(w)
           v == start_run(t)
           l == log[a]
           r == Append(run_log[a], <<>>)
<1>1. /\ WorldOk(w, Elements) /\ w.a = arrays[a] /\ ArrayOk(a) /\ RunsOk(a)
      /\ l \in Seq(Elements) /\ run_log[a] \in Seq(Seq(Elements)) /\ written \in Nat
      /\ log \in [Arrays -> Seq(Elements)]
      /\ a \notin writing
  BY WorldIsOk DEF ArraysInv, Types, ArrayOk, OpenRun
<1>2. Becomes(a, v) /\ Elements' = Elements /\ written' = written
  BY DEF OpenRun, Elements
<1> HIDE DEF w
<1>3. /\ WorldOk(t, Elements) /\ Touches(w, t) /\ Holds(t) = Holds(w)
      /\ t.a.size_ = w.a.size_ /\ t.a.frozen_ = FALSE /\ t.a.array_ = Null
      /\ t.a.run_starts_ = w.a.run_starts_ /\ t.a.run_ends_ = w.a.run_ends_
  BY <1>1, ThawKeeps
<1> HIDE DEF t
<1>4. /\ WorldOk(v, Elements) /\ Touches(t, v) /\ Holds(v) = Holds(t)
      /\ v.a.size_ = t.a.size_ /\ v.a.frozen_ = t.a.frozen_ /\ v.a.array_ = t.a.array_
      /\ v.a.run_starts_ = Append(t.a.run_starts_, t.a.size_)
      /\ v.a.run_ends_ = t.a.run_ends_
  BY <1>3, StartRunKeeps
<1> HIDE DEF v
<1>5. Touches(w, v)
  BY <1>1, <1>3, <1>4, TouchesTrans
<1>6. r \in Seq(Seq(Elements)) /\ r # <<>>
  <2>1. <<>> \in Seq(Elements)
    BY EmptySeq
  <2> DEFINE S == Seq(Elements)
  <2>2. <<>> \in S /\ run_log[a] \in Seq(S)
    BY <1>1, <2>1
  <2> HIDE DEF S
  <2>3. r \in Seq(S) /\ r # <<>>
    BY <2>2, AppendProperties, EmptySeq
  <2> QED
    BY <2>3 DEF S
<1>7. log' = [log EXCEPT ![a] = l] /\ run_log' = [run_log EXCEPT ![a] = r]
  BY <1>1 DEF OpenRun
<1> HIDE DEF l, r
<1>8. Changes(a, v, l, r)
  <2>1. written' \in Nat /\ written <= written'
    BY <1>1, <1>2
  <2>2. WorldOk(v, Elements') /\ Touches(World(a), v) /\ Becomes(a, v)
    BY <1>2, <1>4, <1>5 DEF w
  <2>3. l \in Seq(Elements') /\ r \in Seq(Seq(Elements'))
    BY <1>1, <1>2, <1>6
  <2>4. /\ writing' \subseteq Arrays /\ swapped' \subseteq Arrays
        /\ \A b \in Arrays \ {a} : (b \in writing' <=> b \in writing) /\ (b \in swapped' <=> b \in swapped)
    BY DEF OpenRun, ArraysInv, Types
  <2> QED
    BY <1>7, <2>1, <2>2, <2>3, <2>4 DEF Changes
<1>9. /\ ArrayOk(a)' /\ RunsOk(a)' => ArraysInv'
      /\ arrays'[a] = v.a /\ World(a)' = v /\ log'[a] = l /\ run_log'[a] = r
  BY <1>8, OneArrayChanges
<1>10. ArrayOk(a)'
  BY <1>1, <1>3, <1>4, <1>9 DEF ArrayOk, w, l
<1>11. RunsOk(a)'
  <2> DEFINE starts == w.a.run_starts_
             ends == w.a.run_ends_
  <2>1. /\ starts \in Seq(Nat) /\ ends \in Seq(Nat) /\ w.a.size_ = Len(l) /\ l \in Seq(Elements)
    BY <1>1 DEF WorldOk, Array, ArrayOk, l
  <2>2. /\ Len(starts) = Len(ends)
        /\ a \notin swapped => RunsAre(starts, ends, l, run_log[a])
    BY <1>1, <2>1, LenProperties DEF RunsOk, l
  <2>3. /\ v.a.run_starts_ = Append(starts, Len(l)) /\ v.a.run_ends_ = ends
        /\ a \in writing' /\ (a \in swapped' <=> a \in swapped)
    BY <1>3, <1>4, <2>1 DEF OpenRun
  <2>4. Len(Append(starts, Len(l))) = Len(ends) + 1
    <3>1. Len(l) \in Nat /\ Len(starts) = Len(ends)
      BY <2>1, <2>2, LenProperties
    <3>2. Len(Append(starts, Len(l))) = Len(starts) + 1
      BY <2>1, <3>1, AppendProperties
    <3> QED
      BY <3>1, <3>2
  <2> HIDE DEF starts, ends
  <2>5. a \notin swapped => RunsAre(Append(starts, Len(l)), ends, l, r) /\ LastRunIs(Append(starts, Len(l)), l, r)
    BY <1>1, <2>1, <2>2, RunOpened DEF r
  <2> QED
    BY <1>6, <1>9, <2>3, <2>4, <2>5 DEF RunsOk
<1> QED
  BY <1>9, <1>10, <1>11

LEMMA CloseRunStep ==
  ASSUME ArraysInv, NEW a \in Arrays, CloseRun(a)
  PROVE  ArraysInv'
<1> DEFINE w == World(a)
           t == end_run(w)
           v == freeze(t)
           l == log[a]
           r == run_log[a]
<1>1. /\ WorldOk(w, Elements) /\ w.a = arrays[a] /\ ArrayOk(a) /\ RunsOk(a)
      /\ l \in Seq(Elements) /\ r \in Seq(Seq(Elements)) /\ written \in Nat
      /\ log \in [Arrays -> Seq(Elements)] /\ run_log \in [Arrays -> Seq(Seq(Elements))]
      /\ a \in writing
  BY WorldIsOk DEF ArraysInv, Types, CloseRun
<1>2. Becomes(a, v) /\ Elements' = Elements /\ written' = written
  BY DEF CloseRun, Elements
<1> HIDE DEF w
<1>3. /\ WorldOk(t, Elements) /\ Touches(w, t) /\ Holds(t) = Holds(w)
      /\ t.a.size_ = w.a.size_
      /\ t.a.run_starts_ = w.a.run_starts_
      /\ t.a.run_ends_ = Append(w.a.run_ends_, w.a.size_)
  BY <1>1, EndRunKeeps
<1> HIDE DEF t
<1>4. /\ WorldOk(v, Elements) /\ Touches(t, v) /\ Holds(v) = Holds(t)
      /\ v.a.size_ = t.a.size_ /\ v.a.frozen_ = TRUE /\ Mapped(v.a)
      /\ v.a.run_starts_ = t.a.run_starts_ /\ v.a.run_ends_ = t.a.run_ends_
  BY <1>3, FreezeKeeps
<1> HIDE DEF v
<1>5. Touches(w, v)
  BY <1>1, <1>3, <1>4, TouchesTrans
<1>6. log' = [log EXCEPT ![a] = l] /\ run_log' = [run_log EXCEPT ![a] = r]
  BY <1>1 DEF CloseRun
<1> HIDE DEF l, r
<1>7. Changes(a, v, l, r)
  <2>1. written' \in Nat /\ written <= written'
    BY <1>1, <1>2
  <2>2. WorldOk(v, Elements') /\ Touches(World(a), v) /\ Becomes(a, v)
    BY <1>2, <1>4, <1>5 DEF w
  <2>3. l \in Seq(Elements') /\ r \in Seq(Seq(Elements'))
    BY <1>1, <1>2
  <2>4. /\ writing' \subseteq Arrays /\ swapped' \subseteq Arrays
        /\ \A b \in Arrays \ {a} : (b \in writing' <=> b \in writing) /\ (b \in swapped' <=> b \in swapped)
    BY DEF CloseRun, ArraysInv, Types
  <2> QED
    BY <1>6, <2>1, <2>2, <2>3, <2>4 DEF Changes
<1>8. /\ ArrayOk(a)' /\ RunsOk(a)' => ArraysInv'
      /\ arrays'[a] = v.a /\ World(a)' = v /\ log'[a] = l /\ run_log'[a] = r
  BY <1>7, OneArrayChanges
<1>9. a \notin writing' /\ (a \in swapped' <=> a \in swapped)
  BY DEF CloseRun
<1>10. ArrayOk(a)'
  BY <1>1, <1>3, <1>4, <1>8, <1>9 DEF ArrayOk, w, l
<1>11. RunsOk(a)'
  <2> DEFINE starts == w.a.run_starts_
             ends == w.a.run_ends_
  <2>1. /\ starts \in Seq(Nat) /\ ends \in Seq(Nat) /\ w.a.size_ = Len(l) /\ l \in Seq(Elements)
        /\ Len(l) \in Nat
    BY <1>1, LenProperties DEF WorldOk, Array, ArrayOk, l
  <2>2. /\ Len(starts) = Len(ends) + 1
        /\ a \notin swapped => RunsAre(starts, ends, l, r) /\ LastRunIs(starts, l, r)
    BY <1>1 DEF RunsOk, l, r
  <2>3. v.a.run_starts_ = starts /\ v.a.run_ends_ = Append(ends, Len(l))
    BY <1>3, <1>4, <2>1
  <2>4. Len(Append(ends, Len(l))) = Len(ends) + 1 /\ Len(ends) \in Nat /\ Len(starts) \in Nat
        /\ Append(ends, Len(l)) \in Seq(Nat)
    BY <2>1, AppendProperties, LenProperties
  <2> HIDE DEF starts, ends
  <2>5. a \notin swapped => RunsAre(starts, Append(ends, Len(l)), l, r)
    BY <1>1, <2>1, <2>2, RunClosed
  <2>6. Len(starts) = Len(Append(ends, Len(l))) + 0
    BY <2>2, <2>4
  <2> QED
    BY <1>8, <1>9, <2>3, <2>5, <2>6 DEF RunsOk
<1> QED
  BY <1>8, <1>10, <1>11

\* PushBack and InsertBack: some elements d are appended.
LEMMA GrowStep ==
  ASSUME ArraysInv, NEW a \in Arrays, a \in writing, NEW d \in Seq(Elements'),
         NEW v, WorldOk(v, Elements'), Grows(World(a), v, d),
         Becomes(a, v), Logged(a, d), UNCHANGED <<writing, swapped>>
  PROVE  ArraysInv'
<1> DEFINE w == World(a)
           l == log[a]
           m == log[a] \o d
           r == run_log[a]
           q == [run_log[a] EXCEPT ![Len(run_log[a])] = @ \o d]
<1>1. /\ WorldOk(w, Elements) /\ w.a = arrays[a] /\ ArrayOk(a) /\ RunsOk(a)
      /\ l \in Seq(Elements) /\ r \in Seq(Seq(Elements)) /\ written \in Nat
      /\ log \in [Arrays -> Seq(Elements)] /\ run_log \in [Arrays -> Seq(Seq(Elements))]
  BY WorldIsOk DEF ArraysInv, Types
<1>2. Len(d) \in Nat /\ written' = written + Len(d)
  BY LenProperties DEF Logged
<1>3. /\ Elements \subseteq Elements' /\ l \in Seq(Elements') /\ r \in Seq(Seq(Elements'))
  <2>1. Elements \subseteq Elements'
    BY <1>1, <1>2 DEF Elements
  <2>2. Seq(Elements) \subseteq Seq(Elements')
    BY <2>1, SeqMonotonic
  <2> QED
    BY <1>1, <2>1, <2>2, SeqMonotonic
<1>4. /\ m \in Seq(Elements') /\ Len(m) = Len(l) + Len(d) /\ Len(l) \in Nat
  BY <1>3, ConcatLen
<1>5. /\ q \in Seq(Seq(Elements')) /\ q # <<>>
  <2>1. r # <<>> /\ Len(r) \in 1 .. Len(r)
    <3>1. r # <<>>
      BY <1>1 DEF RunsOk
    <3>2. Len(r) \in Nat \ {0}
      BY <1>1, <3>1, EmptySeq
    <3> QED
      BY <3>1, <3>2
  <2>2. r[Len(r)] \in Seq(Elements')
    BY <1>3, <2>1, ElementOfSeq
  <2> DEFINE S == Seq(Elements')
             e == r[Len(r)] \o d
  <2>3. e \in S /\ r \in Seq(S) /\ q = [r EXCEPT ![Len(r)] = e]
    BY <1>3, <2>2, ConcatLen
  <2> HIDE DEF r, q, e, S
  <2>4. q \in Seq(S) /\ Len(q) = Len(r)
    BY <2>1, <2>3, ExceptSeq
  <2>5. q # <<>>
    BY <2>1, <2>4, EmptySeq
  <2> QED
    BY <2>4, <2>5 DEF S
<1>6. log' = [log EXCEPT ![a] = m] /\ run_log' = [run_log EXCEPT ![a] = q]
  BY <1>1 DEF Logged
<1> HIDE DEF w, l, r, m, q
<1>7. Changes(a, v, m, q)
  <2>1. written' \in Nat /\ written <= written'
    BY <1>1, <1>2
  <2>2. Touches(World(a), v)
    BY DEF Grows
  <2>3. /\ writing' \subseteq Arrays /\ swapped' \subseteq Arrays
        /\ \A b \in Arrays \ {a} : (b \in writing' <=> b \in writing) /\ (b \in swapped' <=> b \in swapped)
    BY DEF ArraysInv, Types
  <2> QED
    BY <1>4, <1>5, <1>6, <2>1, <2>2, <2>3 DEF Changes
<1>8. /\ ArrayOk(a)' /\ RunsOk(a)' => ArraysInv'
      /\ arrays'[a] = v.a /\ World(a)' = v /\ log'[a] = m /\ run_log'[a] = q
  BY <1>7, OneArrayChanges
<1>9. /\ Holds(v) = Holds(w) \o d
      /\ v.a.size_ = w.a.size_ + Len(d)
      /\ v.a.frozen_ = w.a.frozen_ /\ v.a.array_ = w.a.array_
      /\ v.a.run_starts_ = w.a.run_starts_ /\ v.a.run_ends_ = w.a.run_ends_
  BY DEF Grows, w
<1>10. ~w.a.frozen_ /\ w.a.array_ = Null /\ Holds(w) = l /\ w.a.size_ = Len(l)
  BY <1>1 DEF ArrayOk, w, l
<1>11. ArrayOk(a)'
  <2>1. Holds(World(a)') = log'[a] /\ arrays'[a].size_ = Len(log'[a])
    BY <1>4, <1>8, <1>9, <1>10 DEF m, l
  <2>2. ~arrays'[a].frozen_ /\ arrays'[a].array_ = Null
    BY <1>8, <1>9, <1>10
  <2> QED
    BY <2>1, <2>2 DEF ArrayOk
<1>12. RunsOk(a)'
  <2> DEFINE starts == w.a.run_starts_
             ends == w.a.run_ends_
  <2>1. starts \in Seq(Nat) /\ ends \in Seq(Nat)
    BY <1>1 DEF WorldOk, Array
  <2>2. /\ Len(starts) = Len(ends) + 1
        /\ a \notin swapped => RunsAre(starts, ends, l, r) /\ LastRunIs(starts, l, r)
    BY <1>1 DEF RunsOk, l, r
  <2>3. v.a.run_starts_ = starts /\ v.a.run_ends_ = ends
    BY <1>9
  <2> HIDE DEF starts, ends
  <2>4. a \notin swapped => RunsAre(starts, ends, m, q) /\ LastRunIs(starts, m, q)
    BY <1>3, <2>1, <2>2, RunGrown DEF m, q, l, r
  <2>5. a \in writing' /\ (a \in swapped' <=> a \in swapped)
    OBVIOUS
  <2> QED
    BY <1>5, <1>8, <2>2, <2>3, <2>4, <2>5 DEF RunsOk
<1> QED
  BY <1>8, <1>11, <1>12

LEMMA PushBackStep ==
  ASSUME ArraysInv, NEW a \in Arrays, PushBack(a)
  PROVE  ArraysInv'
<1> DEFINE e == written + 1
           v == push_back(World(a), e)
<1>1. WorldOk(World(a), Elements) /\ written \in Nat
  BY WorldIsOk DEF ArraysInv, Types
<1>2. /\ a \in writing /\ Becomes(a, v) /\ Logged(a, <<e>>) /\ UNCHANGED <<writing, swapped>>
  BY DEF PushBack
<1>3. written' = written + 1
  <2>1. Len(<<e>>) = 1
    OBVIOUS
  <2> QED
    BY <1>2, <2>1 DEF Logged
<1>4. Elements \subseteq Elements' /\ e \in Elements' /\ <<e>> \in Seq(Elements')
  <2>1. Elements \subseteq Elements' /\ e \in Elements'
    BY <1>1, <1>3 DEF Elements
  <2> QED
    BY <2>1
<1>5. WorldOk(World(a), Elements')
  BY <1>1, <1>4, MoreElements
<1> DEFINE F == Elements'
<1> HIDE DEF F, e
<1>6. WorldOk(v, F) /\ Grows(World(a), v, <<e>>)
  BY <1>4, <1>5, PushGrows DEF F
<1> HIDE DEF v
<1> QED
  BY <1>2, <1>4, <1>6, GrowStep DEF F

LEMMA InsertBackStep ==
  ASSUME ArraysInv, NEW a \in Arrays, InsertBack(a)
  PROVE  ArraysInv'
<1>1. WorldOk(World(a), Elements) /\ written \in Nat
  BY WorldIsOk DEF ArraysInv, Types
<1>2. PICK n \in 0 .. MaxInsert :
        LET data == [i \in 1 .. n |-> written + i]
        IN  Becomes(a, insert_back(World(a), data)) /\ Logged(a, data)
  BY DEF InsertBack
<1> DEFINE d == [i \in 1 .. n |-> written + i]
           v == insert_back(World(a), d)
<1>3. n \in Nat
  BY ArrayAssumption
<1>4. Len(d) = n
  BY <1>3
<1>5. Elements \subseteq Elements' /\ d \in Seq(Elements')
  <2>1. written' = written + n
    BY <1>2, <1>4 DEF Logged
  <2>2. \A i \in 1 .. n : written + i \in Elements'
    BY <1>1, <1>3, <2>1 DEF Elements
  <2> QED
    BY <1>1, <1>3, <2>1, <2>2 DEF Elements
<1>6. a \in writing /\ Becomes(a, v) /\ Logged(a, d) /\ UNCHANGED <<writing, swapped>>
  BY <1>2 DEF InsertBack
<1>7. WorldOk(World(a), Elements')
  BY <1>1, <1>5, MoreElements
<1> DEFINE F == Elements'
<1> HIDE DEF d, F
<1>8. WorldOk(v, F) /\ Grows(World(a), v, d)
  BY <1>5, <1>7, InsertGrows DEF F
<1> HIDE DEF v
<1> QED
  BY <1>5, <1>6, <1>8, GrowStep DEF F

LEMMA ResetStep ==
  ASSUME ArraysInv, NEW a \in Arrays, Reset(a)
  PROVE  ArraysInv'
<1> DEFINE w == World(a)
           v == reset(w)
           l == <<>>
<1>1. /\ WorldOk(w, Elements) /\ w.a = arrays[a] /\ ArrayOk(a) /\ written \in Nat
      /\ a \notin writing /\ w.a.frozen_
  BY WorldIsOk DEF ArraysInv, Types, ArrayOk, Reset
<1>2. Becomes(a, v) /\ Elements' = Elements /\ written' = written
  BY DEF Reset, Elements
<1>3. w.a.array_ # Null
  BY <1>1 DEF ArrayOk, Mapped, WorldOk, Array, Null, Buffer, NoFile
<1> HIDE DEF w
<1>4. /\ WorldOk(v, Elements) /\ Touches(w, v) /\ Holds(v) = <<>>
      /\ v.a.size_ = 0 /\ v.a.frozen_ = FALSE /\ v.a.array_ = Null
      /\ v.a.run_starts_ = <<>> /\ v.a.run_ends_ = <<>>
  BY <1>1, <1>3, ResetEmpties
<1> HIDE DEF v
<1>5. l \in Seq(Elements) /\ l \in Seq(Seq(Elements)) /\ Len(l) = 0
  BY EmptySeq
<1>6. Changes(a, v, l, l)
  <2>1. log' = [log EXCEPT ![a] = l] /\ run_log' = [run_log EXCEPT ![a] = l]
    BY DEF Reset
  <2>2. Touches(World(a), v)
    BY <1>4 DEF w
  <2>3. /\ writing' \subseteq Arrays /\ swapped' \subseteq Arrays
        /\ \A b \in Arrays \ {a} : (b \in writing' <=> b \in writing) /\ (b \in swapped' <=> b \in swapped)
    BY DEF Reset, ArraysInv, Types
  <2>4. written' \in Nat /\ written <= written'
    BY <1>1, <1>2
  <2>5. WorldOk(v, Elements') /\ l \in Seq(Elements') /\ l \in Seq(Seq(Elements'))
    BY <1>2, <1>4, <1>5
  <2> HIDE DEF l
  <2> QED
    BY <1>2, <2>1, <2>2, <2>3, <2>4, <2>5 DEF Changes
<1>7. /\ ArrayOk(a)' /\ RunsOk(a)' => ArraysInv'
      /\ arrays'[a] = v.a /\ World(a)' = v /\ log'[a] = l /\ run_log'[a] = l
  <2> HIDE DEF l
  <2> QED
    BY <1>6, OneArrayChanges
<1>8. a \notin writing'
  BY <1>1 DEF Reset
<1>9. ArrayOk(a)'
  BY <1>4, <1>5, <1>7, <1>8 DEF ArrayOk
<1>10. RunsOk(a)'
  BY <1>4, <1>5, <1>7, <1>8 DEF RunsOk, RunsAre
<1> QED
  BY <1>7, <1>9, <1>10

LEMMA FreezeStep ==
  ASSUME ArraysInv, NEW a \in Arrays, Freeze(a)
  PROVE  ArraysInv'
<1> DEFINE w == World(a)
           v == freeze(w)
           l == log[a]
           r == run_log[a]
<1>1. /\ WorldOk(w, Elements) /\ w.a = arrays[a] /\ ArrayOk(a) /\ RunsOk(a)
      /\ l \in Seq(Elements) /\ r \in Seq(Seq(Elements)) /\ written \in Nat
      /\ log \in [Arrays -> Seq(Elements)] /\ run_log \in [Arrays -> Seq(Seq(Elements))]
      /\ a \notin writing
  BY WorldIsOk DEF ArraysInv, Types, Freeze
<1>2. Becomes(a, v) /\ Elements' = Elements /\ written' = written
  BY DEF Freeze, Elements
<1> HIDE DEF w
<1>3. /\ WorldOk(v, Elements) /\ Touches(w, v) /\ Holds(v) = Holds(w)
      /\ v.a.size_ = w.a.size_ /\ v.a.frozen_ = TRUE /\ Mapped(v.a)
      /\ v.a.run_starts_ = w.a.run_starts_ /\ v.a.run_ends_ = w.a.run_ends_
  BY <1>1, FreezeKeeps
<1> HIDE DEF v
<1>4. log' = [log EXCEPT ![a] = l] /\ run_log' = [run_log EXCEPT ![a] = r]
  BY <1>1 DEF Freeze
<1> HIDE DEF l, r
<1>5. Changes(a, v, l, r)
  <2>1. written' \in Nat /\ written <= written'
    BY <1>1, <1>2
  <2>2. WorldOk(v, Elements') /\ Touches(World(a), v) /\ Becomes(a, v)
    BY <1>2, <1>3 DEF w
  <2>3. l \in Seq(Elements') /\ r \in Seq(Seq(Elements'))
    BY <1>1, <1>2
  <2>4. /\ writing' \subseteq Arrays /\ swapped' \subseteq Arrays
        /\ \A b \in Arrays \ {a} : (b \in writing' <=> b \in writing) /\ (b \in swapped' <=> b \in swapped)
    BY DEF Freeze, ArraysInv, Types
  <2> QED
    BY <1>4, <2>1, <2>2, <2>3, <2>4 DEF Changes
<1>6. /\ ArrayOk(a)' /\ RunsOk(a)' => ArraysInv'
      /\ arrays'[a] = v.a /\ World(a)' = v /\ log'[a] = l /\ run_log'[a] = r
  BY <1>5, OneArrayChanges
<1>7. a \notin writing' /\ (a \in swapped' <=> a \in swapped)
  BY <1>1 DEF Freeze
<1>8. ArrayOk(a)'
  BY <1>1, <1>3, <1>6, <1>7 DEF ArrayOk, w, l
<1>9. RunsOk(a)'
  BY <1>1, <1>3, <1>6, <1>7 DEF RunsOk, l, r
<1> QED
  BY <1>6, <1>8, <1>9

\* The file of a is closed, no other array has it.
LEMMA RenewStep ==
  ASSUME ArraysInv, NEW a \in Arrays, Renew(a)
  PROVE  ArraysInv'
<1> DEFINE old == arrays[a].fd_
<1>1. /\ Types /\ Owned /\ \A b \in Arrays : ArrayOk(b) /\ RunsOk(b)
      /\ a \notin writing
  BY DEF ArraysInv, ArrayOk, Renew
<1>2. Elements' = Elements /\ written' = written
  BY DEF Renew, Elements
<1>3. /\ DOMAIN files' = DOMAIN files \ {old}
      /\ files' = [f \in DOMAIN files' |-> files'[f]]
      /\ \A f \in DOMAIN files' : files'[f] = files[f]
  <2>1. files' = maybe_close(World(a)).files
    BY DEF Renew
  <2>2. World(a) = [a |-> World(a).a, files |-> World(a).files] /\ World(a).a = arrays[a]
        /\ World(a).files = files
    BY DEF World
  <2>3. files = [f \in DOMAIN files |-> files[f]] /\ NoFile \notin DOMAIN files
    BY <1>1 DEF Types, FilesOk, NoFile
  <2>4. CASE old = NoFile
    BY <2>1, <2>2, <2>3, <2>4, CloseDrops
  <2>5. CASE old # NoFile
    <3>1. files' = [f \in DOMAIN files \ {old} |-> files[f]]
      BY <2>1, <2>2, <2>5, CloseDrops
    <3> HIDE DEF old
    <3> QED
      BY <3>1
  <2> QED
    BY <2>4, <2>5
<1>4. FilesOk(files', Elements')
  <2>1. IsFiniteSet(DOMAIN files')
    BY <1>1, <1>3, FS_Subset DEF Types, FilesOk
  <2> QED
    BY <1>1, <1>2, <1>3, <2>1 DEF Types, FilesOk
<1>5. arrays' = [arrays EXCEPT ![a] = New] /\ arrays \in [Arrays -> Array(Elements)]
  BY <1>1 DEF Renew, Types
<1>6. <<>> \in Seq(Elements) /\ <<>> \in Seq(Nat) /\ <<>> \in Seq(Seq(Elements)) /\ Len(<<>>) = 0
  BY EmptySeq
<1>7. New \in Array(Elements) /\ New.fd_ = NoFile
  BY <1>6 DEF New, Array, NoFile, Buffer
<1>8. /\ arrays' \in [Arrays -> Array(Elements')]
      /\ arrays'[a] = New /\ \A b \in Arrays \ {a} : arrays'[b] = arrays[b]
  BY <1>2, <1>5, <1>7
<1>9. Types'
  <2>1. /\ log' \in [Arrays -> Seq(Elements')] /\ run_log' \in [Arrays -> Seq(Seq(Elements'))]
    BY <1>1, <1>2, <1>6 DEF Types, Renew
  <2> QED
    BY <1>1, <1>2, <1>4, <1>8, <2>1 DEF Types, Renew
<1>10. Owned'
  <2>1. \A b \in Arrays : arrays'[b].fd_ \in DOMAIN files' \union {NoFile}
    BY <1>1, <1>3, <1>7, <1>8 DEF Owned
  <2>2. \A b, c \in Arrays : b # c /\ arrays'[b].fd_ # NoFile => arrays'[b].fd_ # arrays'[c].fd_
    <3> SUFFICES ASSUME NEW b \in Arrays, NEW c \in Arrays, b # c, arrays'[b].fd_ # NoFile,
                        arrays'[b].fd_ = arrays'[c].fd_
                 PROVE  FALSE
      OBVIOUS
    <3>1. b # a /\ c # a
      BY <1>7, <1>8
    <3> QED
      BY <1>1, <1>8, <3>1 DEF Owned
  <2>3. \A f \in DOMAIN files' : \E b \in Arrays : arrays'[b].fd_ = f
    BY <1>1, <1>3, <1>8 DEF Owned
  <2> QED
    BY <2>1, <2>2, <2>3 DEF Owned
<1>11. ArrayOk(a)' /\ RunsOk(a)'
  <2>1. log'[a] = <<>> /\ run_log'[a] = <<>> /\ a \notin writing'
    BY <1>1 DEF Renew, Types
  <2>2. Holds(World(a)') = <<>>
    <3>1. <<>> \o <<>> = <<>>
      BY EmptySeq, ConcatEmptySeq
    <3>2. World(a)'.a = New
      BY <1>8 DEF World
    <3> QED
      BY <3>1, <3>2 DEF Holds, InFile, New
  <2>3. ArrayOk(a)'
    BY <1>6, <1>8, <2>1, <2>2 DEF ArrayOk, New, Mapped
  <2>4. RunsOk(a)'
    BY <1>6, <1>8, <2>1 DEF RunsOk, RunsAre, New
  <2> QED
    BY <2>3, <2>4
<1>12. \A b \in Arrays \ {a} : ArrayOk(b)' /\ RunsOk(b)'
  <2> SUFFICES ASSUME NEW b \in Arrays \ {a} PROVE ArrayOk(b)' /\ RunsOk(b)'
    OBVIOUS
  <2>1. arrays[b].fd_ # NoFile => arrays[b].fd_ \in DOMAIN files' /\ files'[arrays[b].fd_] = files[arrays[b].fd_]
    BY <1>1, <1>3 DEF Owned
  <2>2. Holds(World(b))' = Holds(World(b))
    BY <1>8, <2>1 DEF Holds, InFile, World
  <2>3. /\ log'[b] = log[b] /\ run_log'[b] = run_log[b]
        /\ (b \in writing' <=> b \in writing) /\ (b \in swapped' <=> b \in swapped)
    BY <1>1 DEF Renew, Types
  <2>4. ArrayOk(b) /\ RunsOk(b) /\ arrays'[b] = arrays[b]
    BY <1>1, <1>8
  <2> QED
    BY <2>2, <2>3, <2>4, OthersStay
<1> QED
  BY <1>9, <1>10, <1>11, <1>12 DEF ArraysInv

LEMMA MovedFromType ==
  ASSUME NEW E, NEW x \in Array(E)
  PROVE  /\ MovedFrom(x).fd_ = NoFile
         /\ MovedFrom(x).run_starts_ = x.run_starts_ /\ MovedFrom(x).run_ends_ = x.run_ends_
BY DEF MovedFrom, Array

\* An array that is moved from has no file to close.
LEMMA CloseMovedFrom ==
  ASSUME NEW E, NEW x \in Array(E), NEW fs
  PROVE  maybe_close([a |-> MovedFrom(x), files |-> fs]) = [a |-> MovedFrom(x), files |-> fs]
BY MovedFromType DEF maybe_close

LEMMA AssignedType ==
  ASSUME NEW E, NEW x \in Array(E), NEW y \in Array(E)
  PROVE  LET z == Assigned(MovedFrom(x), y)
         IN  /\ z \in Array(E)
             /\ z.buffer_ = y.buffer_ /\ z.frozen_ = y.frozen_ /\ z.size_ = y.size_
             /\ z.fd_ = y.fd_ /\ z.array_ = y.array_
             /\ z.run_starts_ = x.run_starts_ /\ z.run_ends_ = x.run_ends_
<1> DEFINE m == MovedFrom(x)
<1>1. /\ m.run_starts_ = x.run_starts_ /\ m.run_ends_ = x.run_ends_
      /\ x.run_starts_ \in Seq(Nat) /\ x.run_ends_ \in Seq(Nat)
  BY MovedFromType DEF Array
<1> HIDE DEF m
<1>2. Assigned(m, y) = [y EXCEPT !.run_starts_ = x.run_starts_, !.run_ends_ = x.run_ends_]
  BY <1>1 DEF Assigned
<1> QED
  BY <1>1, <1>2 DEF m, Array

LEMMA SwapStep ==
  ASSUME ArraysInv, NEW a \in Arrays, NEW b \in Arrays, Swap(a, b)
  PROVE  ArraysInv'
<1> DEFINE x == arrays[a]
           y == arrays[b]
           newA == Assigned(MovedFrom(x), y)
           newB == Assigned(MovedFrom(y), x)
<1>1. /\ Types /\ Owned /\ \A c \in Arrays : ArrayOk(c) /\ RunsOk(c)
      /\ a # b /\ x.frozen_ /\ y.frozen_ /\ a \notin writing /\ b \notin writing
      /\ x \in Array(Elements) /\ y \in Array(Elements)
  BY DEF ArraysInv, ArrayOk, Types, Swap
<1>2. Elements' = Elements /\ written' = written
  BY DEF Swap, Elements
<1>3. arrays' = [arrays EXCEPT ![a] = newA, ![b] = newB] /\ files' = files
  <2> DEFINE closedA == maybe_close([a |-> MovedFrom(x), files |-> files])
             closedB == maybe_close([a |-> MovedFrom(y), files |-> closedA.files])
             last == maybe_close([a |-> MovedFrom(x), files |-> closedB.files])
  <2>1. /\ arrays' = [arrays EXCEPT ![a] = Assigned(closedA.a, y), ![b] = Assigned(closedB.a, x)]
        /\ files' = last.files
    BY DEF Swap
  <2> HIDE DEF x, y
  <2>2. closedA = [a |-> MovedFrom(x), files |-> files]
    BY <1>1, CloseMovedFrom
  <2>3. closedA.a = MovedFrom(x) /\ closedA.files = files
    BY <2>2
  <2> HIDE DEF closedA
  <2>4. closedB = [a |-> MovedFrom(y), files |-> files]
    BY <1>1, <2>3, CloseMovedFrom
  <2>5. closedB.a = MovedFrom(y) /\ closedB.files = files
    BY <2>4
  <2> HIDE DEF closedB
  <2>6. last = [a |-> MovedFrom(x), files |-> files]
    BY <1>1, <2>5, CloseMovedFrom
  <2> HIDE DEF last
  <2> QED
    BY <2>1, <2>3, <2>5, <2>6
<1>4. /\ newA \in Array(Elements)
      /\ newA.buffer_ = y.buffer_ /\ newA.frozen_ = y.frozen_ /\ newA.size_ = y.size_
      /\ newA.fd_ = y.fd_ /\ newA.array_ = y.array_
      /\ newA.run_starts_ = x.run_starts_ /\ newA.run_ends_ = x.run_ends_
  <2> HIDE DEF x, y
  <2> QED
    BY <1>1, AssignedType
<1>5. /\ newB \in Array(Elements)
      /\ newB.buffer_ = x.buffer_ /\ newB.frozen_ = x.frozen_ /\ newB.size_ = x.size_
      /\ newB.fd_ = x.fd_ /\ newB.array_ = x.array_
      /\ newB.run_starts_ = y.run_starts_ /\ newB.run_ends_ = y.run_ends_
  <2> HIDE DEF x, y
  <2> QED
    BY <1>1, AssignedType
<1> HIDE DEF newA, newB
<1>6. /\ arrays' \in [Arrays -> Array(Elements')]
      /\ arrays'[a] = newA /\ arrays'[b] = newB
      /\ \A c \in Arrays \ {a, b} : arrays'[c] = arrays[c]
  <2> HIDE DEF x, y
  <2> QED
    BY <1>1, <1>2, <1>3, <1>4, <1>5 DEF Types
<1>7. /\ log' = [log EXCEPT ![a] = log[b], ![b] = log[a]]
      /\ run_log' = [run_log EXCEPT ![a] = run_log[b], ![b] = run_log[a]]
      /\ swapped' = swapped \union {a, b} /\ writing' = writing
  BY DEF Swap
<1>8. /\ log' \in [Arrays -> Seq(Elements)] /\ run_log' \in [Arrays -> Seq(Seq(Elements))]
      /\ log'[a] = log[b] /\ log'[b] = log[a]
      /\ run_log'[a] = run_log[b] /\ run_log'[b] = run_log[a]
      /\ \A c \in Arrays \ {a, b} : log'[c] = log[c] /\ run_log'[c] = run_log[c]
  BY <1>1, <1>7 DEF Types
<1>9. Types'
  BY <1>1, <1>2, <1>3, <1>6, <1>7, <1>8 DEF Types
<1>10. /\ arrays'[a].fd_ = arrays[b].fd_ /\ arrays'[b].fd_ = arrays[a].fd_
       /\ \A c \in Arrays \ {a, b} : arrays'[c].fd_ = arrays[c].fd_
  BY <1>4, <1>5, <1>6
<1>11. Owned'
  <2> DEFINE other(c) == IF c = a THEN b ELSE IF c = b THEN a ELSE c
  <2>1. \A c \in Arrays : /\ other(c) \in Arrays /\ other(other(c)) = c
                         /\ arrays'[c].fd_ = arrays[other(c)].fd_
    BY <1>10
  <2> HIDE DEF other
  <2>2. \A c \in Arrays : arrays'[c].fd_ \in DOMAIN files' \union {NoFile}
    BY <1>1, <1>3, <2>1 DEF Owned
  <2>3. \A c, d \in Arrays : c # d /\ arrays'[c].fd_ # NoFile => arrays'[c].fd_ # arrays'[d].fd_
    <3> SUFFICES ASSUME NEW c \in Arrays, NEW d \in Arrays, c # d, arrays'[c].fd_ # NoFile
                 PROVE  arrays'[c].fd_ # arrays'[d].fd_
      OBVIOUS
    <3>1. other(c) # other(d) /\ other(c) \in Arrays /\ other(d) \in Arrays
      BY <2>1
    <3> QED
      BY <1>1, <2>1, <3>1 DEF Owned
  <2>4. \A f \in DOMAIN files' : \E c \in Arrays : arrays'[c].fd_ = f
    <3> SUFFICES ASSUME NEW f \in DOMAIN files' PROVE \E c \in Arrays : arrays'[c].fd_ = f
      OBVIOUS
    <3>1. PICK c \in Arrays : arrays[c].fd_ = f
      BY <1>1, <1>3 DEF Owned
    <3>2. other(c) \in Arrays /\ arrays'[other(c)].fd_ = f
      BY <2>1, <3>1
    <3> QED
      BY <3>2
  <2> QED
    BY <2>2, <2>3, <2>4 DEF Owned
<1>12. ArrayOk(a)' /\ ArrayOk(b)'
  <2>1. ArrayOk(a) /\ ArrayOk(b)
    BY <1>1
  <2>2. Holds(World(a)') = Holds(World(b)) /\ Holds(World(b)') = Holds(World(a))
    BY <1>3, <1>4, <1>5, <1>6 DEF Holds, InFile, World
  <2>3. Mapped(newA) = Mapped(y) /\ Mapped(newB) = Mapped(x)
    BY <1>4, <1>5 DEF Mapped
  <2>4. ArrayOk(a)'
    BY <1>1, <1>4, <1>6, <1>7, <1>8, <2>1, <2>2, <2>3 DEF ArrayOk
  <2>5. ArrayOk(b)'
    BY <1>1, <1>5, <1>6, <1>7, <1>8, <2>1, <2>2, <2>3 DEF ArrayOk
  <2> QED
    BY <2>4, <2>5
<1>13. RunsOk(a)' /\ RunsOk(b)'
  <2>1. RunsOk(a) /\ RunsOk(b)
    BY <1>1
  <2>2. a \in swapped' /\ b \in swapped' /\ a \notin writing' /\ b \notin writing'
    BY <1>1, <1>7
  <2> QED
    BY <1>1, <1>4, <1>5, <1>6, <2>1, <2>2 DEF RunsOk
<1>14. \A c \in Arrays \ {a, b} : ArrayOk(c)' /\ RunsOk(c)'
  <2> SUFFICES ASSUME NEW c \in Arrays \ {a, b} PROVE ArrayOk(c)' /\ RunsOk(c)'
    OBVIOUS
  <2>1. ArrayOk(c) /\ RunsOk(c) /\ arrays'[c] = arrays[c] /\ log'[c] = log[c] /\ run_log'[c] = run_log[c]
    BY <1>1, <1>6, <1>8
  <2>2. Holds(World(c))' = Holds(World(c))
    BY <1>3, <2>1 DEF World
  <2>3. (c \in writing' <=> c \in writing) /\ (c \in swapped' <=> c \in swapped)
    BY <1>7
  <2> QED
    BY <2>1, <2>2, <2>3, OthersStay
<1> QED
  BY <1>9, <1>11, <1>12, <1>13, <1>14 DEF ArraysInv

LEMMA ArraysStep == ArraysInv /\ [Next]_vars => ArraysInv'
<1> SUFFICES ASSUME ArraysInv, [Next]_vars PROVE ArraysInv'
  OBVIOUS
<1>1. CASE UNCHANGED vars
  BY <1>1 DEF vars, ArraysInv, Types, FilesOk, ArrayOk, RunsOk, Owned, World, Elements
<1>2. ASSUME NEW a \in Arrays, OpenRun(a) PROVE ArraysInv'
  BY <1>2, OpenRunStep
<1>3. ASSUME NEW a \in Arrays, CloseRun(a) PROVE ArraysInv'
  BY <1>3, CloseRunStep
<1>4. ASSUME NEW a \in Arrays, PushBack(a) PROVE ArraysInv'
  BY <1>4, PushBackStep
<1>5. ASSUME NEW a \in Arrays, InsertBack(a) PROVE ArraysInv'
  BY <1>5, InsertBackStep
<1>6. ASSUME NEW a \in Arrays, Reset(a) PROVE ArraysInv'
  BY <1>6, ResetStep
<1>7. ASSUME NEW a \in Arrays, Freeze(a) PROVE ArraysInv'
  BY <1>7, FreezeStep
<1>8. ASSUME NEW a \in Arrays, Renew(a) PROVE ArraysInv'
  BY <1>8, RenewStep
<1>9. ASSUME NEW a \in Arrays, NEW b \in Arrays, Swap(a, b) PROVE ArraysInv'
  BY <1>9, SwapStep
<1> QED
  BY <1>1, <1>2, <1>3, <1>4, <1>5, <1>6, <1>7, <1>8, <1>9 DEF Next

\* The invariant holds in every state.
THEOREM ArraysInvariance == Spec => []ArraysInv
<1> QED
  BY InitArrays, ArraysStep, PTL DEF Spec

-----------------------------------------------------------------------------
(***************************************************************************)
(* What follows from the invariant.                                        *)
(***************************************************************************)
\* A frozen array shows what it holds.
LEMMA ShownIsLog ==
  ASSUME ArraysInv, NEW a \in Arrays, arrays[a].frozen_
  PROVE  arrays[a].array_ # Null /\ Shown(a) = log[a] /\ arrays[a].size_ = Len(log[a])
<1> DEFINE x == arrays[a]
<1>1. /\ WorldOk(World(a), Elements) /\ ArrayOk(a) /\ Mapped(x)
      /\ World(a).a = x /\ World(a).files = files
      /\ log[a] \in Seq(Elements) /\ x.buffer_ \in Seq(Elements) /\ x.size_ \in Nat
      /\ x.fd_ \in Nat \union {NoFile}
  BY WorldIsOk DEF ArraysInv, Types, Array, ArrayOk
<1>2. InFile(World(a)) \in Seq(Elements) /\ Holds(World(a)) = log[a] /\ x.size_ = Len(log[a])
      /\ Len(log[a]) = Len(InFile(World(a))) + Len(x.buffer_)
  BY <1>1, HoldsType DEF ArrayOk
<1>3. CASE x.fd_ # NoFile /\ x.size_ > 0
  <2>1. /\ x.array_ = x.fd_ /\ x.buffer_ = <<>> /\ x.fd_ \in DOMAIN files
        /\ x.fd_ \in Nat \ {0}
    BY <1>1, <1>3 DEF Mapped, ArraysInv, Types, FilesOk, Owned
  <2>2. Shown(a) = files[x.fd_].content /\ x.array_ # Null
    BY <2>1 DEF Shown, Buffer, Null
  <2>3. InFile(World(a)) = files[x.fd_].content
    BY <1>1, <1>3 DEF InFile
  <2>4. InFile(World(a)) \o <<>> = InFile(World(a))
    BY <1>2, ConcatEmptySeq
  <2> QED
    BY <1>1, <1>2, <2>1, <2>2, <2>3, <2>4 DEF Holds
<1>4. CASE x.fd_ = NoFile
  <2>1. x.array_ = Buffer /\ Shown(a) = x.buffer_ /\ x.array_ # Null
    BY <1>1, <1>4 DEF Mapped, Shown, Buffer, Null
  <2>2. InFile(World(a)) = <<>> /\ <<>> \o x.buffer_ = x.buffer_
    BY <1>1, <1>4, ConcatEmptySeq DEF InFile
  <2> QED
    BY <1>1, <1>2, <2>1, <2>2 DEF Holds
<1>5. CASE x.size_ = 0
  <2>1. x.array_ = Buffer /\ Shown(a) = x.buffer_ /\ x.array_ # Null
    BY <1>1, <1>5 DEF Mapped, Shown, Buffer, Null
  <2>2. log[a] = <<>> /\ x.buffer_ = <<>>
    BY <1>1, <1>2, <1>5, EmptySeq, LenProperties
  <2> QED
    BY <1>2, <2>1, <2>2
<1> QED
  BY <1>1, <1>3, <1>4, <1>5

\* A frozen array shows what was written to it, wherever kFlushThreshold has
\* cut it, after any sequence of resets, swaps and new arrays.
THEOREM ShowsWhatWasWritten == Spec => []ReadsBack
<1>1. ArraysInv => ReadsBack
  BY ShownIsLog DEF ReadsBack
<1> QED
  BY <1>1, ArraysInvariance, PTL

\* runs() gives the runs that were written, unless the array was swapped.
THEOREM RunsAreTheRunsWritten == Spec => []RunsReadBack
<1>1. ASSUME ArraysInv PROVE RunsReadBack
  <2> SUFFICES ASSUME NEW a \in Arrays \ swapped, arrays[a].frozen_
               PROVE  RunsShown(a) = run_log[a]
    BY DEF RunsReadBack
  <2> DEFINE ends == arrays[a].run_ends_
             r == run_log[a]
  <2>1. /\ ArrayOk(a) /\ RunsOk(a) /\ a \notin writing /\ r \in Seq(Seq(Elements))
        /\ ends \in Seq(Nat)
    BY <1>1 DEF ArraysInv, ArrayOk, Types, Array
  <2>2. Shown(a) = log[a]
    BY <1>1, ShownIsLog
  <2>3. /\ Len(ends) = Len(r) /\ Len(r) \in Nat
        /\ \A i \in 1 .. Len(r) : r[i] = Run(a, i)
    BY <2>1, <2>2, LenProperties DEF RunsOk, RunsAre, Run
  <2>4. r = [i \in 1 .. Len(r) |-> r[i]]
    BY <2>1, LenProperties
  <2> HIDE DEF ends, r
  <2>5. RunsShown(a) = [i \in 1 .. Len(r) |-> Run(a, i)]
    BY <2>3 DEF RunsShown, ends
  <2> QED
    BY <2>3, <2>4, <2>5 DEF r
<1> QED
  BY <1>1, ArraysInvariance, PTL

\* Every open file belongs to exactly one array.
THEOREM FilesAreOwned == Spec => []FilesOwned
<1>1. ASSUME ArraysInv PROVE FilesOwned
  <2>1. Owned /\ NoFile \notin DOMAIN files
    BY <1>1 DEF ArraysInv, Types, FilesOk, NoFile
  <2>2. ASSUME NEW f \in DOMAIN files
        PROVE  Cardinality({a \in Arrays : arrays[a].fd_ = f}) = 1
    <3>1. PICK a \in Arrays : arrays[a].fd_ = f
      BY <2>1 DEF Owned
    <3>2. {b \in Arrays : arrays[b].fd_ = f} = {a}
      BY <2>1, <3>1 DEF Owned
    <3> QED
      BY <3>2, FS_Singleton
  <2>3. \A a \in Arrays : arrays[a].fd_ # NoFile => arrays[a].fd_ \in DOMAIN files
    BY <2>1 DEF Owned
  <2> QED
    BY <2>2, <2>3 DEF FilesOwned
<1> QED
  BY <1>1, ArraysInvariance, PTL

\* Every member holds a value of its kind.
THEOREM TypesOfArrays == Spec => []TypeOK
<1>1. ASSUME ArraysInv PROVE TypeOK
  <2>1. ASSUME NEW a \in Arrays
        PROVE  arrays[a].array_ \in DOMAIN files \union {Null, Buffer}
    <3>1. ArrayOk(a) /\ arrays[a].fd_ \in DOMAIN files \union {NoFile}
          /\ arrays[a] \in Array(Elements)
      BY <1>1 DEF ArraysInv, Types, Owned
    <3> QED
      BY <3>1 DEF ArrayOk, Mapped
  <2>2. ASSUME NEW a \in Arrays
        PROVE  /\ arrays[a].buffer_ \in Seq(Elements) /\ arrays[a].size_ \in Nat
               /\ arrays[a].frozen_ \in BOOLEAN
               /\ arrays[a].fd_ \in DOMAIN files \union {NoFile}
               /\ Len(arrays[a].run_starts_) =
                     Len(arrays[a].run_ends_) + (IF a \in writing THEN 1 ELSE 0)
    BY <1>1 DEF ArraysInv, Types, Owned, Array, RunsOk
  <2>3. \A f \in DOMAIN files : files[f].content \in Seq(Elements) /\ files[f].offset \in Nat
    BY <1>1 DEF ArraysInv, Types, FilesOk, File
  <2> QED
    BY <1>1, <2>1, <2>2, <2>3 DEF TypeOK, ArraysInv, Types
<1> QED
  BY <1>1, ArraysInvariance, PTL

=============================================================================
