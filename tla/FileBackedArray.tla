-------------------------- MODULE FileBackedArray --------------------------
(***************************************************************************)
(* file_backed_mmap_array (file-backed-array.h): an array that is kept in  *)
(* a buffer until it grows, and then in a file and the buffer; to read it, *)
(* it is frozen, which maps the file.  Arrays are written run after run,   *)
(* and swapped, as dedup does with all_keys and new_all_keys (search.h).   *)
(*                                                                         *)
(* The operations of the class are operators on the array and the files,   *)
(* under their names in the code; the actions are what its users do.  The  *)
(* elements are numbered in the order in which they are written.  write,   *)
(* lseek, mmap and the others are external and do not fail: the code       *)
(* aborts when they do.                                                    *)
(***************************************************************************)
EXTENDS Integers, SequencesExt, FiniteSetsExt

CONSTANTS
  Arrays,           \* the arrays
  kFlushThreshold,  \* elements of a buffer that goes to the file
  MaxWritten,       \* bound: elements written
  MaxInsert,        \* bound: elements inserted at once
  MaxRuns           \* bound: runs of an array

ASSUME ArrayAssumption ==
  /\ kFlushThreshold \in Nat \ {0}
  /\ MaxWritten \in Nat /\ MaxInsert \in Nat /\ MaxRuns \in Nat

VARIABLES
  arrays,   \* the members of each array
  files,    \* the contents and the offset of each open file
  written,  \* how many elements were written, to any array
  log,      \* the elements that each array should have
  run_log,  \* the elements of each of its runs
  writing,  \* the arrays with a WriteRun
  swapped   \* the arrays that were swapped after their first run

vars == <<arrays, files, written, log, run_log, writing, swapped>>

\* fd_ is NoFile or positive; array_ is Null, the buffer, or the map of a file.
NoFile == -1
Null   == -1
Buffer == 0

Hole == 0  \* read where a file was not written

-----------------------------------------------------------------------------
(***************************************************************************)
(* The operations: w.a is the array, w.files are all open files.           *)
(***************************************************************************)
World(a) == [a |-> arrays[a], files |-> files]

\* The world in which the array is x.
With(w, x) == [w EXCEPT !.a = x]

Write(file, data) ==
  LET before == [i \in 1 .. file.offset |->
                   IF i <= Len(file.content) THEN file.content[i] ELSE Hole]
      end    == file.offset + Len(data)
  IN  [content |-> before \o data \o SubSeq(file.content, end + 1, Len(file.content)),
       offset  |-> end]

open(w) ==
  LET fd == CHOOSE n \in 1 .. Cardinality(DOMAIN w.files) + 1 : n \notin DOMAIN w.files
  IN  [a     |-> [w.a EXCEPT !.fd_ = fd],
       files |-> [f \in DOMAIN w.files \union {fd} |->
                    IF f = fd THEN [content |-> <<>>, offset |-> 0] ELSE w.files[f]]]

\* Mutant: the write is gone with the assertion around it.
MutFlush(w) ==
  IF w.a.buffer_ # <<>> /\ w.a.fd_ # NoFile THEN [w EXCEPT !.a.buffer_ = <<>>] ELSE w

flush(w) ==
  IF w.a.buffer_ # <<>> /\ w.a.fd_ # NoFile
    THEN [w EXCEPT !.a.buffer_ = <<>>, !.files[w.a.fd_] = Write(@, w.a.buffer_)]
    ELSE w

maybe_flush(w) ==
  IF Len(w.a.buffer_) >= kFlushThreshold
    THEN flush(IF w.a.fd_ = NoFile THEN open(w) ELSE w)
    ELSE w

maybe_map(w) ==
  IF w.a.fd_ # NoFile /\ w.a.size_ > 0
    THEN With(flush(w), [flush(w).a EXCEPT !.array_ = w.a.fd_, !.frozen_ = TRUE])
    ELSE With(w, [w.a EXCEPT !.array_ = Buffer, !.frozen_ = TRUE])

maybe_unmap(w, truncate) ==
  LET cut == IF w.a.fd_ # NoFile /\ w.a.array_ # Null /\ truncate
               THEN [w EXCEPT !.files[w.a.fd_].content = <<>>] ELSE w
  IN  With(cut, [cut.a EXCEPT !.array_ = Null])

maybe_close(w) ==
  IF w.a.fd_ # NoFile
    THEN LET cut == maybe_unmap(w, TRUE)
         IN  [a     |-> [cut.a EXCEPT !.fd_ = NoFile],
              files |-> [f \in DOMAIN cut.files \ {w.a.fd_} |-> cut.files[f]]]
    ELSE w

freeze(w) == maybe_map(w)

thawed(w) == With(w, [w.a EXCEPT !.frozen_ = FALSE])

thaw(w) == maybe_unmap(thawed(w), FALSE)

Seek(w) == IF w.a.fd_ # NoFile THEN [w EXCEPT !.files[w.a.fd_].offset = 0] ELSE w

\* Mutant: the runs stay.
MutReset(w) ==
  LET cut == maybe_unmap(Seek(thawed(w)), TRUE)
  IN  With(cut, [cut.a EXCEPT !.size_ = 0, !.buffer_ = <<>>])

reset(w) ==
  LET cut == maybe_unmap(Seek(thawed(w)), TRUE)
  IN  With(cut, [cut.a EXCEPT !.size_ = 0, !.buffer_ = <<>>,
                              !.run_starts_ = <<>>, !.run_ends_ = <<>>])

start_run(w) == With(w, [w.a EXCEPT !.run_starts_ = Append(@, w.a.size_)])
end_run(w)   == With(w, [w.a EXCEPT !.run_ends_ = Append(@, w.a.size_)])

insert_back(w, data) ==
  maybe_flush(With(w, [w.a EXCEPT !.buffer_ = @ \o data, !.size_ = @ + Len(data)]))

push_back(w, element) ==
  LET stored == maybe_flush(With(w, [w.a EXCEPT !.buffer_ = Append(@, element)]))
  IN  With(stored, [stored.a EXCEPT !.size_ = @ + 1])

\* A new array; its constructor freezes it.
New ==
  [buffer_ |-> <<>>, frozen_ |-> TRUE, size_ |-> 0, fd_ |-> NoFile, array_ |-> Buffer,
   run_starts_ |-> <<>>, run_ends_ |-> <<>>]

\* An array that is assigned the members of another; the runs are not among
\* the members that are assigned.
Assigned(to, from) ==
  [from EXCEPT !.run_starts_ = to.run_starts_, !.run_ends_ = to.run_ends_]

\* Mutant: the file stays with the array that it was moved from.
MutMovedFrom(from) == [from EXCEPT !.buffer_ = <<>>, !.array_ = Null]

MovedFrom(from) == [from EXCEPT !.buffer_ = <<>>, !.array_ = Null, !.fd_ = NoFile]

-----------------------------------------------------------------------------
Init ==
  /\ arrays = [a \in Arrays |-> New]
  /\ files = <<>>
  /\ written = 0
  /\ log = [a \in Arrays |-> <<>>] /\ run_log = [a \in Arrays |-> <<>>]
  /\ writing = {} /\ swapped = {}

Becomes(a, w) == arrays' = [arrays EXCEPT ![a] = w.a] /\ files' = w.files

\* The constructor of WriteRun.
OpenRun(a) ==
  /\ arrays[a].frozen_
  /\ Len(arrays[a].run_starts_) < MaxRuns /\ Len(run_log[a]) < MaxRuns
  /\ Becomes(a, start_run(thaw(World(a))))
  /\ run_log' = [run_log EXCEPT ![a] = Append(@, <<>>)]
  /\ writing' = writing \union {a}
  /\ UNCHANGED <<written, log, swapped>>

\* Mutant: the run is not ended.
MutCloseRun(a) ==
  /\ a \in writing
  /\ Becomes(a, freeze(World(a)))
  /\ writing' = writing \ {a}
  /\ UNCHANGED <<written, log, run_log, swapped>>

\* The destructor of WriteRun.
CloseRun(a) ==
  /\ a \in writing
  /\ Becomes(a, freeze(end_run(World(a))))
  /\ writing' = writing \ {a}
  /\ UNCHANGED <<written, log, run_log, swapped>>

Logged(a, data) ==
  /\ written' = written + Len(data)
  /\ log' = [log EXCEPT ![a] = @ \o data]
  /\ run_log' = [run_log EXCEPT ![a][Len(run_log[a])] = @ \o data]

PushBack(a) ==
  /\ a \in writing
  /\ written < MaxWritten
  /\ Becomes(a, push_back(World(a), written + 1))
  /\ Logged(a, << written + 1 >>)
  /\ UNCHANGED <<writing, swapped>>

InsertBack(a) ==
  /\ a \in writing
  /\ \E n \in 0 .. MaxInsert :
       LET data == [i \in 1 .. n |-> written + i]
       IN  /\ written + n <= MaxWritten
           /\ Becomes(a, insert_back(World(a), data))
           /\ Logged(a, data)
  /\ UNCHANGED <<writing, swapped>>

\* reset leaves the array thawed: to be of use again it has to be frozen.
Reset(a) ==
  /\ arrays[a].frozen_
  /\ Becomes(a, reset(World(a)))
  /\ log' = [log EXCEPT ![a] = <<>>] /\ run_log' = [run_log EXCEPT ![a] = <<>>]
  /\ swapped' = swapped \ {a}
  /\ UNCHANGED <<written, writing>>

Freeze(a) ==
  /\ ~arrays[a].frozen_
  /\ a \notin writing
  /\ Becomes(a, freeze(World(a)))
  /\ UNCHANGED <<written, log, run_log, writing, swapped>>

\* std::swap: by a temporary, with maybe_close before either is assigned to.
Swap(a, b) ==
  /\ a # b
  /\ arrays[a].frozen_ /\ arrays[b].frozen_
  /\ LET tmp     == arrays[a]
         closedA == maybe_close([a |-> MovedFrom(arrays[a]), files |-> files])
         newA    == Assigned(closedA.a, arrays[b])
         closedB == maybe_close([a |-> MovedFrom(arrays[b]), files |-> closedA.files])
         newB    == Assigned(closedB.a, tmp)
     IN  /\ arrays' = [arrays EXCEPT ![a] = newA, ![b] = newB]
         /\ files' = maybe_close([a |-> MovedFrom(tmp), files |-> closedB.files]).files
  /\ log' = [log EXCEPT ![a] = log[b], ![b] = log[a]]
  /\ run_log' = [run_log EXCEPT ![a] = run_log[b], ![b] = run_log[a]]
  /\ swapped' = swapped \union {a, b}
  /\ UNCHANGED <<written, writing>>

\* The destructor, and a new array in the next iteration.
Renew(a) ==
  /\ arrays[a].frozen_
  /\ files' = maybe_close(World(a)).files
  /\ arrays' = [arrays EXCEPT ![a] = New]
  /\ log' = [log EXCEPT ![a] = <<>>] /\ run_log' = [run_log EXCEPT ![a] = <<>>]
  /\ swapped' = swapped \ {a}
  /\ UNCHANGED <<written, writing>>

Next ==
  \E a \in Arrays :
    \/ OpenRun(a) \/ CloseRun(a) \/ PushBack(a) \/ InsertBack(a)
    \/ Reset(a) \/ Freeze(a) \/ Renew(a)
    \/ \E b \in Arrays : Swap(a, b)

Spec == Init /\ [][Next]_vars

-----------------------------------------------------------------------------
(***************************************************************************)
(* Properties.                                                             *)
(***************************************************************************)
Elements == 1 .. written

\* Every member holds a value of its kind, and a run that is not ended is one
\* that is being written.
TypeOK ==
  /\ \A a \in Arrays :
       /\ arrays[a].buffer_ \in Seq(Elements) /\ arrays[a].size_ \in Nat
       /\ arrays[a].frozen_ \in BOOLEAN
       /\ arrays[a].fd_ \in DOMAIN files \union {NoFile}
       /\ arrays[a].array_ \in DOMAIN files \union {Null, Buffer}
       /\ Len(arrays[a].run_starts_) =
            Len(arrays[a].run_ends_) + (IF a \in writing THEN 1 ELSE 0)
  /\ \A f \in DOMAIN files : files[f].content \in Seq(Elements) /\ files[f].offset \in Nat
  /\ writing \subseteq Arrays /\ swapped \subseteq Arrays

\* What an array shows when it is frozen: elements from array_ on.
Shown(a) ==
  IF arrays[a].array_ = Buffer THEN arrays[a].buffer_ ELSE files[arrays[a].array_].content

\* A frozen array shows the elements that were written to it, in order and
\* without a hole, wherever the threshold has cut them and whatever the file
\* was used for before.
ReadsBack ==
  \A a \in Arrays : arrays[a].frozen_ => /\ arrays[a].array_ # Null
                                         /\ Shown(a) = log[a]
                                         /\ arrays[a].size_ = Len(log[a])

\* run(i): the elements between the places where the run started and ended.
Run(a, i) == SubSeq(Shown(a), arrays[a].run_starts_[i] + 1, arrays[a].run_ends_[i])

RunsShown(a) == [i \in 1 .. Len(arrays[a].run_ends_) |-> Run(a, i)]

\* The runs of an array are the runs that were written to it, until the array
\* is swapped: search takes runs only of arrays that never are.
RunsReadBack ==
  \A a \in Arrays \ swapped : arrays[a].frozen_ => RunsShown(a) = run_log[a]

\* runs() "returns a vector of all the runs that have been recorded for the
\* array" (file-backed-array.h:171), for every array.
RunsAlwaysReadBack ==
  \A a \in Arrays : arrays[a].frozen_ => RunsShown(a) = run_log[a]

\* Every open file belongs to one array: none is left open without one, and
\* none is closed, cut or written by another array than the one it belongs to.
FilesOwned ==
  /\ \A f \in DOMAIN files : Cardinality({a \in Arrays : arrays[a].fd_ = f}) = 1
  /\ \A a \in Arrays : arrays[a].fd_ # NoFile => arrays[a].fd_ \in DOMAIN files

=============================================================================
