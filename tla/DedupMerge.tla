----------------------------- MODULE DedupMerge -----------------------------
(***************************************************************************)
(* pack_pairs and dedup (search.h), record by record, with the streams     *)
(* they use (util.h): batches of pairs are packed into runs, the runs are  *)
(* interleaved in the order of their keys, and what comes out is merged    *)
(* with all_keys.  Module Bfs has each of the two as one step on sets.     *)
(*                                                                         *)
(* A stream is the sequence of its records from the current one on; it is  *)
(* empty when the sequence is.  The interleaver is the function from the   *)
(* runs whose streams are in its queue to these streams.                   *)
(***************************************************************************)
EXTENDS Integers, SequencesExt, FiniteSetsExt, Functions

CONSTANTS
  Key,       \* packed states
  NullKey,   \* the one whose bytes are all 0
  HashByte,  \* the values
  Inputs     \* the batches that an iteration may collect: sequences of batches

Pair == Key \X HashByte

\* std::sort leaves pairs with equal keys in any order.
InKeyOrder(pairs) == \A i, j \in DOMAIN pairs : i < j => pairs[i][1] <= pairs[j][1]

\* Keys are compared by their bytes.
ASSUME MergeAssumption ==
  /\ Key \subseteq Nat /\ IsFiniteSet(Key)
  /\ NullKey \in Key /\ \A k \in Key : NullKey <= k
  /\ 0 \in HashByte
  /\ \A input \in Inputs :
       /\ input \in Seq(Seq(Pair)) /\ input # <<>>
       /\ \A b \in DOMAIN input : InKeyOrder(input[b])

VARIABLES
  batches,     \* the batches of pairs, each in the order of its keys
  seen,        \* the keys of all_keys, before dedup
  new_keys,    \* the runs that pack_pairs writes: a sequence of keys for each batch
  new_values,  \*   and their values
  unpacked,    \* what is left of the batch that is being packed
  prev,        \* the key that was packed last
  streams,     \* the pairs of the runs that are in the interleaver
  top,         \* the pair it returned last
  new_empty,   \* whether it has returned all
  old,         \* merged_stream
  keys,        \* written by dedup to the new run of keys_by_depth,
  values,      \*   to that of values_by_depth,
  merged,      \*   and to new_all_keys
  pc           \* "pack", "advance" the interleaver, "merge", or "done"

packing == <<new_keys, new_values, unpacked, prev>>
merging == <<streams, top, new_empty, old>>
written == <<keys, values, merged>>
vars == <<batches, seen, packing, merging, written, pc>>

Init ==
  /\ batches \in Inputs
  /\ seen \in SUBSET (Key \ {NullKey})
  /\ new_keys = << <<>> >> /\ new_values = << <<>> >>
  /\ unpacked = batches[1] /\ prev = NullKey
  /\ streams = <<>> /\ top = <<NullKey, 0>> /\ new_empty = FALSE /\ old = <<>>
  /\ keys = <<>> /\ values = <<>> /\ merged = <<>>
  /\ pc = "pack"

Rising(s) == \A i, j \in DOMAIN s : i < j => s[i] < s[j]

-----------------------------------------------------------------------------
(***************************************************************************)
(* pack_pairs.                                                             *)
(***************************************************************************)
Written(pair) ==
  /\ new_keys' = [new_keys EXCEPT ![Len(new_keys)] = Append(@, pair[1])]
  /\ new_values' = [new_values EXCEPT ![Len(new_values)] = Append(@, pair[2])]

\* Mutant: prev is not updated.
MutPackPair ==
  /\ pc = "pack" /\ unpacked # <<>>
  /\ unpacked' = Tail(unpacked)
  /\ IF Head(unpacked)[1] = prev THEN UNCHANGED <<new_keys, new_values>>
                                 ELSE Written(Head(unpacked))
  /\ UNCHANGED <<prev, batches, seen, merging, written, pc>>

PackPair ==
  /\ pc = "pack" /\ unpacked # <<>>
  /\ unpacked' = Tail(unpacked)
  /\ IF Head(unpacked)[1] = prev
       THEN UNCHANGED <<new_keys, new_values, prev>>
       ELSE Written(Head(unpacked)) /\ prev' = Head(unpacked)[1]
  /\ UNCHANGED <<batches, seen, merging, written, pc>>

NextBatch ==
  /\ pc = "pack" /\ unpacked = <<>>
  /\ Len(new_keys) < Len(batches)
  /\ unpacked' = batches[Len(new_keys) + 1]
  /\ new_keys' = Append(new_keys, <<>>)
  /\ new_values' = Append(new_values, <<>>)
  /\ prev' = NullKey
  /\ UNCHANGED <<batches, seen, merging, written, pc>>

-----------------------------------------------------------------------------
(***************************************************************************)
(* dedup.                                                                  *)
(***************************************************************************)
\* Mutant: ends with the stream of keys.
MutPaired(ks, vs) == [i \in DOMAIN ks |-> <<ks[i], IF i \in DOMAIN vs THEN vs[i] ELSE 0>>]

\* StreamPairer: ends with the shorter of the two streams.
Paired(ks, vs) == [i \in 1 .. Min({Len(ks), Len(vs)}) |-> <<ks[i], vs[i]>>]

\* A run without pairs is not added to the interleaver.
Interleaved(runs) == [r \in {q \in DOMAIN runs : runs[q] # <<>>} |-> runs[r]]

\* The keys of a set in the order in which a run has them.
InOrder(S) == {s \in [1 .. Cardinality(S) -> S] : Rising(s) /\ Range(s) = S}

\* A compressed run may be read with records behind its last one that were
\* never packed (module DeltaCodec).
Start ==
  /\ pc = "pack" /\ unpacked = <<>>
  /\ Len(new_keys) = Len(batches)
  /\ \E behind \in {<<>>} \union {<<k>> : k \in Key} :
       streams' = Interleaved([r \in DOMAIN new_keys |-> Paired(new_keys[r] \o behind, new_values[r])])
  /\ old' \in InOrder(seen)
  /\ pc' = "advance"
  /\ UNCHANGED <<batches, seen, packing, top, new_empty, written>>

\* SortedStreamInterleaver::next with nothing left.
AdvanceToEnd ==
  /\ pc = "advance"
  /\ DOMAIN streams = {}
  /\ new_empty' = TRUE
  /\ pc' = "merge"
  /\ UNCHANGED <<batches, seen, packing, streams, top, old, written>>

\* The stream is moved on, and is gone when it has ended.
Moved(s) == Interleaved([streams EXCEPT ![s] = Tail(@)])

\* Mutant: a record equal to the last one is returned once more.
MutAdvance ==
  /\ pc = "advance"
  /\ \E s \in DOMAIN streams :
       /\ \A r \in DOMAIN streams : Head(streams[s])[1] <= Head(streams[r])[1]
       /\ streams' = Moved(s)
       /\ top' = Head(streams[s])
  /\ pc' = "merge"
  /\ UNCHANGED <<batches, seen, packing, new_empty, old, written>>

\* Of streams with equal keys the queue has any on top.  While its record is
\* equal to the one returned last, next goes on.
Advance ==
  /\ pc = "advance"
  /\ \E s \in DOMAIN streams :
       /\ \A r \in DOMAIN streams : Head(streams[s])[1] <= Head(streams[r])[1]
       /\ streams' = Moved(s)
       /\ IF Head(streams[s])[1] = top[1]
            THEN UNCHANGED <<top, pc>>
            ELSE top' = Head(streams[s]) /\ pc' = "merge"
  /\ UNCHANGED <<batches, seen, packing, new_empty, old, written>>

have_new == ~new_empty
have_old == old # <<>>

\* Mutant: old keys that come after all new ones are left behind.
MutTakeOld ==
  /\ pc = "merge" /\ have_old
  /\ have_new /\ Head(old) < top[1]
  /\ merged' = Append(merged, Head(old))
  /\ old' = Tail(old)
  /\ UNCHANGED <<batches, seen, packing, streams, top, new_empty, keys, values, pc>>

TakeOld ==
  /\ pc = "merge" /\ have_old
  /\ have_new => Head(old) < top[1]
  /\ merged' = Append(merged, Head(old))
  /\ old' = Tail(old)
  /\ UNCHANGED <<batches, seen, packing, streams, top, new_empty, keys, values, pc>>

DropNew ==
  /\ pc = "merge" /\ have_old /\ have_new
  /\ Head(old) = top[1]
  /\ merged' = Append(merged, Head(old))
  /\ old' = Tail(old)
  /\ pc' = "advance"
  /\ UNCHANGED <<batches, seen, packing, streams, top, new_empty, keys, values>>

\* Mutant: the value is not written.
MutTakeNew ==
  /\ pc = "merge" /\ have_new
  /\ have_old => top[1] < Head(old)
  /\ keys' = Append(keys, top[1])
  /\ merged' = Append(merged, top[1])
  /\ pc' = "advance"
  /\ UNCHANGED <<batches, seen, packing, merging, values>>

TakeNew ==
  /\ pc = "merge" /\ have_new
  /\ have_old => top[1] < Head(old)
  /\ keys' = Append(keys, top[1])
  /\ values' = Append(values, top[2])
  /\ merged' = Append(merged, top[1])
  /\ pc' = "advance"
  /\ UNCHANGED <<batches, seen, packing, merging>>

\* Mutant: the merge ends with the new records.
MutFinish ==
  /\ pc = "merge" /\ ~have_new
  /\ pc' = "done"
  /\ UNCHANGED <<batches, seen, packing, merging, written>>

Finish ==
  /\ pc = "merge" /\ ~have_new /\ ~have_old
  /\ pc' = "done"
  /\ UNCHANGED <<batches, seen, packing, merging, written>>

Next ==
  \/ PackPair \/ NextBatch
  \/ Start \/ Advance \/ AdvanceToEnd
  \/ TakeOld \/ DropNew \/ TakeNew \/ Finish

Spec == Init /\ [][Next]_vars

\* One thread, which does not stop before dedup has returned.
FairSpec == Spec /\ WF_vars(Next)

-----------------------------------------------------------------------------
(***************************************************************************)
(* Properties.                                                             *)
(***************************************************************************)
\* Every variable holds a value of its kind; a run has a value for each key.
TypeOK ==
  /\ batches \in Seq(Seq(Pair)) /\ seen \subseteq Key
  /\ new_keys \in Seq(Seq(Key)) /\ new_values \in Seq(Seq(HashByte))
  /\ Len(new_keys) = Len(new_values)
  /\ \A r \in DOMAIN new_keys : Len(new_keys[r]) = Len(new_values[r])
  /\ unpacked \in Seq(Pair) /\ prev \in Key
  /\ DOMAIN streams \subseteq DOMAIN new_keys
  /\ \A r \in DOMAIN streams : streams[r] \in Seq(Pair) \ {<<>>}
  /\ top \in Pair /\ new_empty \in BOOLEAN
  /\ old \in Seq(Key)
  /\ keys \in Seq(Key) /\ merged \in Seq(Key)
  /\ values \in Seq(HashByte) /\ Len(values) = Len(keys)
  /\ pc \in {"pack", "advance", "merge", "done"}

\* Everything that is written is in the order of the keys, without duplicates:
\* this is what the streams that read it later take for granted (util.h:65).
WritesRuns ==
  /\ Rising(keys) /\ Rising(merged)
  /\ \A r \in DOMAIN new_keys : Rising(new_keys[r])

PairsIn(r) == Range(Paired(new_keys[r], new_values[r]))

Packed == UNION {PairsIn(r) : r \in DOMAIN new_keys}

\* The search with one depth of the states seen, and these runs.
Search ==
  INSTANCE Bfs WITH
    Hash            <- [k \in Key |-> 0],
    BatchLimit      <- 0,
    Setups          <- {},
    setup           <- <<>>,
    keys_by_depth   <- IF pc = "done" THEN << seen, Range(keys) >> ELSE << seen >>,
    values_by_depth <-
      LET zeros == [k \in seen |-> 0]
      IN  IF pc = "done"
            THEN << zeros, [k \in Range(keys) |->
                              values[CHOOSE i \in DOMAIN keys : keys[i] = k]] >>
            ELSE << zeros >>,
    all_keys        <- IF pc = "done" THEN Range(merged) ELSE seen,
    new_states      <- {},
    new_pairs       <- Packed,
    todo            <- {},
    win             <- FALSE,
    win_state       <- <<NullKey, 0>>,
    pc              <- IF pc = "done" THEN "iterate"
                       ELSE IF pc = "pack" THEN "visit" ELSE "dedup",
    target          <- <<NullKey, 0>>,
    depth           <- 0,
    path            <- <<>>,
    result          <- 0

\* A batch is packed into a run that has each of its keys once, with one of
\* the values that the key has in the batch: the packing of module Bfs.
PacksBatches ==
  pc # "pack" =>
    \A b \in DOMAIN batches :
      \E run \in Search!Packings(Range(batches[b])) : PairsIn(b) = Search!PairsOf(run)

\* From the runs to what it writes, dedup is the Dedup of module Bfs, whatever
\* keys are in several of the runs, and whichever of them comes first.
MergeIsDedup == [][pc # "pack" => Search!Dedup]_<<pc = "done", Search!vars>>

\* dedup returns.
Returns == <>(pc = "done")

=============================================================================
