----------------------------- MODULE BfsProofs -----------------------------
(***************************************************************************)
(* Proofs about Bfs, for every set of puzzles, every hash function and     *)
(* every batch limit.                                                      *)
(***************************************************************************)
EXTENDS Bfs, Induction, SequenceTheorems

(***************************************************************************)
(* The inductive invariant.                                                *)
(***************************************************************************)
\* What was collected from the states visited so far.
Collected == new_states \union new_pairs

\* Everything collected, the winning state included, comes from the last run.
CollectedNameParents ==
  pc \in {"visit", "dedup"} =>
    /\ todo \subseteq LastRun
    /\ \A x \in Collected : HasParent(x[1], x[2], Len(keys_by_depth))
    /\ win => /\ win_state[1] \in setup.wins
              /\ HasParent(win_state[1], win_state[2], Len(keys_by_depth))

\* The state the trace is at has a parent one depth up, until it is the start.
TraceOnCourse ==
  pc = "trace" =>
    /\ depth < Len(keys_by_depth)
    /\ depth > 0 => HasParent(target[1], target[2], depth)
    /\ depth = 0 => target[1] \in Run(1)

StartsAtStart == Run(1) = {setup.start}

IInv ==
  /\ TypeOK
  /\ EachKeyOnce
  /\ ValuesNameParents
  /\ CollectedNameParents
  /\ TraceOnCourse
  /\ StartsAtStart

LEMMA SetupIsPuzzle ==
  ASSUME NEW s \in Setups
  PROVE  /\ s.start \in Key
         /\ s.moves \in [Key -> Seq(Key)]
         /\ s.wins \subseteq Key
         /\ NullKey \in s.wins
BY SearchAssumption

\* Visiting generates keys that are one move away, with the right hash.
LEMMA GeneratedIsNext ==
  ASSUME setup \in Setups, NEW k \in Key
  PROVE  /\ Generated(k) \subseteq Key \X HashByte
         /\ \A x \in Generated(k) : x[2] = Hash[k] /\ x[1] \in Range(setup.moves[k])
         /\ \A m \in Winning(k) : /\ setup.moves[k][m] \in Range(setup.moves[k])
                                  /\ setup.moves[k][m] \in Key
                                  /\ setup.moves[k][m] \in setup.wins
<1>1. setup.moves[k] \in Seq(Key)
  BY SetupIsPuzzle
<1>2. \A m \in DOMAIN setup.moves[k] : setup.moves[k][m] \in Key
  BY <1>1
<1>3. Hash[k] \in HashByte
  BY SearchAssumption
<1> QED
  BY <1>2, <1>3 DEF Generated, Winning, Offered, Range

\* Packing invents no pair.
LEMMA PackingsKeepPairs ==
  ASSUME NEW pairs \in SUBSET (Key \X HashByte), NEW run \in Packings(pairs)
  PROVE  /\ PairsOf(run) \subseteq pairs
         /\ DOMAIN run = KeysOf(pairs) \ {NullKey}
         /\ DOMAIN run \subseteq Key
         /\ run \in [DOMAIN run -> HashByte]
         /\ \A k \in DOMAIN run : <<k, run[k]>> \in pairs
         /\ KeysOf(PairsOf(run)) = KeysOf(pairs) \ {NullKey}
<1>1. /\ DOMAIN run = KeysOf(pairs) \ {NullKey}
      /\ run \in [DOMAIN run -> HashByte]
      /\ \A k \in DOMAIN run : <<k, run[k]>> \in pairs
  BY DEF Packings
<1>2. KeysOf(pairs) \subseteq Key
  BY DEF KeysOf
<1>3. PairsOf(run) \subseteq pairs
  BY <1>1 DEF PairsOf
<1>4. KeysOf(PairsOf(run)) = DOMAIN run
  <2>1. ASSUME NEW k \in DOMAIN run PROVE k \in KeysOf(PairsOf(run))
    <3>1. <<k, run[k]>> \in PairsOf(run) /\ <<k, run[k]>>[1] = k
      BY DEF PairsOf
    <3> QED
      BY <3>1 DEF KeysOf
  <2>2. ASSUME NEW k \in KeysOf(PairsOf(run)) PROVE k \in DOMAIN run
    BY DEF KeysOf, PairsOf
  <2> QED
    BY <2>1, <2>2
<1> QED
  BY <1>1, <1>2, <1>3, <1>4

\* Collecting pairs keeps them, whole or packed, and adds nothing else.
LEMMA CollectKeeps ==
  ASSUME NEW pairs \in SUBSET (Key \X HashByte), new_pairs \subseteq Key \X HashByte,
         Collect(pairs)
  PROVE  /\ new_states' \subseteq pairs
         /\ new_pairs' \subseteq new_pairs \union pairs
         /\ new_pairs \subseteq new_pairs'
         /\ KeysOf(pairs) \ {NullKey} \subseteq KeysOf(Collected')
<1>1. CASE Cardinality(pairs) > BatchLimit
  <2>1. PICK run \in Packings(pairs) : new_pairs' = new_pairs \union PairsOf(run)
    BY <1>1 DEF Collect
  <2>2. new_states' = {}
    BY <1>1 DEF Collect
  <2>3. /\ PairsOf(run) \subseteq pairs
        /\ KeysOf(PairsOf(run)) = KeysOf(pairs) \ {NullKey}
    BY PackingsKeepPairs
  <2> QED
    BY <2>1, <2>2, <2>3 DEF KeysOf, Collected
<1>2. CASE ~(Cardinality(pairs) > BatchLimit)
  <2>1. new_states' = pairs /\ new_pairs' = new_pairs
    BY <1>2 DEF Collect
  <2> QED
    BY <2>1 DEF KeysOf, Collected
<1> QED
  BY <1>1, <1>2

-----------------------------------------------------------------------------
(***************************************************************************)
(* Types.                                                                  *)
(***************************************************************************)
LEMMA TypeStep ==
  ASSUME TypeOK, TraceOnCourse, [Next]_vars
  PROVE  TypeOK'
<1> USE DEF TypeOK, data, visiting, tracing, Run, Depths
<1>0. /\ setup.start \in Key /\ setup.moves \in [Key -> Seq(Key)]
      /\ setup.wins \subseteq Key
  BY SetupIsPuzzle
<1>1. CASE StartIteration
  <2>1. LastRun \subseteq Key
    BY DEF LastRun
  <2> QED
    BY <1>1, <2>1 DEF StartIteration
<1>2. CASE GiveUp
  BY <1>2 DEF GiveUp
<1>3. CASE Visit
  <2>1. PICK k \in todo :
          /\ todo' = todo \ {k}
          /\ IF Winning(k) = {}
               THEN UNCHANGED <<win, win_state>>
               ELSE /\ win' = TRUE
                    /\ \E m \in Winning(k) : win_state' = <<setup.moves[k][m], Hash[k]>>
          /\ Collect(new_states \union Generated(k))
    BY <1>3 DEF Visit
  <2>2. /\ Generated(k) \subseteq Key \X HashByte
        /\ \A m \in Winning(k) : setup.moves[k][m] \in Key
    BY GeneratedIsNext
  <2>3. Hash[k] \in HashByte
    BY SearchAssumption
  <2>4. win' \in BOOLEAN /\ win_state' \in Key \X HashByte
    <3>1. CASE Winning(k) = {}
      BY <2>1, <3>1
    <3>2. CASE Winning(k) # {}
      <4>1. win' = TRUE /\ \E m \in Winning(k) : win_state' = <<setup.moves[k][m], Hash[k]>>
        BY <2>1, <3>2
      <4> QED
        BY <4>1, <2>2, <2>3
    <3> QED
      BY <3>1, <3>2
  <2>5. /\ new_states' \subseteq Key \X HashByte
        /\ new_pairs' \subseteq Key \X HashByte
    <3>1. new_states \union Generated(k) \in SUBSET (Key \X HashByte)
      BY <2>2
    <3> QED
      BY <3>1, <2>1, CollectKeeps
  <2>6. UNCHANGED <<setup, data, pc, tracing>>
    BY <1>3 DEF Visit
  <2> QED
    BY <2>1, <2>4, <2>5, <2>6
<1>4. CASE EndVisit
  <2>1. PICK run \in Packings(new_states) : new_pairs' = new_pairs \union PairsOf(run)
    BY <1>4 DEF EndVisit
  <2>2. PairsOf(run) \subseteq new_states
    BY PackingsKeepPairs
  <2> QED
    BY <1>4, <2>1, <2>2 DEF EndVisit
<1>5. CASE Dedup
  <2>1. PICK run \in Packings(new_pairs) :
          /\ keys_by_depth' = Append(keys_by_depth, Fresh(run))
          /\ values_by_depth' = Append(values_by_depth, FreshValues(run))
          /\ all_keys' = all_keys \union Fresh(run)
    BY <1>5 DEF Dedup
  <2> DEFINE fresh == DOMAIN run \ all_keys
             values == [k \in fresh |-> run[k]]
  <2>2. DOMAIN run \subseteq Key /\ run \in [DOMAIN run -> HashByte]
    BY PackingsKeepPairs
  <2>3. fresh \in SUBSET Key /\ values \in [fresh -> HashByte]
    BY <2>2
  <2>4. /\ keys_by_depth' = Append(keys_by_depth, fresh)
        /\ values_by_depth' = Append(values_by_depth, values)
        /\ all_keys' = all_keys \union fresh
    BY <2>1 DEF Fresh, FreshValues
  <2> HIDE DEF fresh, values
  <2>5. /\ keys_by_depth' \in Seq(SUBSET Key)
        /\ Len(keys_by_depth') = Len(keys_by_depth) + 1
        /\ Len(keys_by_depth') > 0
        /\ Len(values_by_depth') = Len(keys_by_depth')
    BY <2>3, <2>4
  <2>6. \A d \in DOMAIN keys_by_depth' : values_by_depth'[d] \in [keys_by_depth'[d] -> HashByte]
    BY <2>3, <2>4
  <2>7. /\ pc' \in {"trace", "iterate"}
        /\ target' \in Key \X HashByte
        /\ depth' \in Nat
    BY <1>5 DEF Dedup
  <2>8. UNCHANGED <<setup, visiting, path, result>>
    BY <1>5 DEF Dedup
  <2> QED
    BY <2>3, <2>4, <2>5, <2>6, <2>7, <2>8
<1>6. CASE TraceBack
  <2>1. PICK k \in Parents : target' = <<k, values_by_depth[depth][k]>>
    BY <1>6 DEF TraceBack, Least
  <2>2. k \in keys_by_depth[depth]
    BY <2>1 DEF Parents
  <2>3. depth > 0 /\ pc = "trace" /\ depth' = depth - 1
    BY <1>6 DEF TraceBack
  <2>4. depth \in Depths
    BY <2>3 DEF TraceOnCourse
  <2>5. k \in Key /\ values_by_depth[depth][k] \in HashByte
    BY <2>2, <2>4
  <2>6. path' \in Seq(Key)
    BY <1>6 DEF TraceBack
  <2> QED
    BY <1>6, <2>1, <2>3, <2>5, <2>6 DEF TraceBack
<1>7. CASE TraceEnd
  <2>1. path' \in Seq(Key)
    BY <1>7 DEF TraceEnd
  <2>2. result' \in Nat
    BY <1>7 DEF TraceEnd
  <2> QED
    BY <1>7, <2>1, <2>2 DEF TraceEnd
<1>8. CASE UNCHANGED vars
  BY <1>8 DEF vars
<1> QED
  BY <1>1, <1>2, <1>3, <1>4, <1>5, <1>6, <1>7, <1>8 DEF Next

-----------------------------------------------------------------------------
(***************************************************************************)
(* What adding a run does: the runs before it stay as they are.            *)
(***************************************************************************)
LEMMA DedupAppends ==
  ASSUME TypeOK, Dedup
  PROVE  \E run \in Packings(new_pairs) : \E fresh \in SUBSET Key :
           /\ fresh = DOMAIN run \ all_keys
           /\ Depths = 1 .. Len(keys_by_depth)
           /\ Depths' = 1 .. (Len(keys_by_depth) + 1)
           /\ Len(keys_by_depth') = Len(keys_by_depth) + 1
           /\ \A d \in 1 .. Len(keys_by_depth) : /\ keys_by_depth'[d] = keys_by_depth[d]
                                                 /\ values_by_depth'[d] = values_by_depth[d]
           /\ keys_by_depth'[Len(keys_by_depth) + 1] = fresh
           /\ values_by_depth'[Len(keys_by_depth) + 1] = [k \in fresh |-> run[k]]
           /\ all_keys' = all_keys \union fresh
<1>1. PICK run \in Packings(new_pairs) :
        /\ keys_by_depth' = Append(keys_by_depth, Fresh(run))
        /\ values_by_depth' = Append(values_by_depth, FreshValues(run))
        /\ all_keys' = all_keys \union Fresh(run)
  BY DEF Dedup
<1> DEFINE fresh  == DOMAIN run \ all_keys
           values == [k \in fresh |-> run[k]]
<1>2. DOMAIN run \subseteq Key
  BY PackingsKeepPairs DEF TypeOK
<1>3. fresh \in SUBSET Key
  BY <1>2
<1>4. /\ keys_by_depth' = Append(keys_by_depth, fresh)
      /\ values_by_depth' = Append(values_by_depth, values)
      /\ all_keys' = all_keys \union fresh
  BY <1>1 DEF Fresh, FreshValues
<1>5. keys_by_depth \in Seq(SUBSET Key) /\ Len(values_by_depth) = Len(keys_by_depth)
  BY DEF TypeOK
<1>6. fresh = DOMAIN run \ all_keys /\ values = [k \in fresh |-> run[k]]
  OBVIOUS
<1> HIDE DEF fresh, values
<1>7. /\ Depths = 1 .. Len(keys_by_depth)
      /\ Depths' = 1 .. (Len(keys_by_depth) + 1)
      /\ Len(keys_by_depth') = Len(keys_by_depth) + 1
      /\ \A d \in 1 .. Len(keys_by_depth) : keys_by_depth'[d] = keys_by_depth[d]
      /\ keys_by_depth'[Len(keys_by_depth) + 1] = fresh
  BY <1>3, <1>4, <1>5 DEF Depths
<1>8. /\ \A d \in 1 .. Len(keys_by_depth) : values_by_depth'[d] = values_by_depth[d]
      /\ values_by_depth'[Len(keys_by_depth) + 1] = values
  BY <1>4, <1>5
<1> QED
  BY <1>3, <1>4, <1>6, <1>7, <1>8

\* Only Dedup changes the runs.
LEMMA RunsStay ==
  ASSUME [Next]_vars, ~Dedup
  PROVE  UNCHANGED <<setup, keys_by_depth, values_by_depth, all_keys>>
BY DEF Next, vars, data, StartIteration, GiveUp, Visit, EndVisit, TraceBack, TraceEnd

LEMMA DepthsAreDepths ==
  ASSUME TypeOK
  PROVE  Depths = 1 .. Len(keys_by_depth) /\ Len(keys_by_depth) \in Nat \ {0}
BY DEF TypeOK, Depths

-----------------------------------------------------------------------------
(***************************************************************************)
(* Each state once.                                                        *)
(***************************************************************************)
LEMMA OnceStep ==
  ASSUME TypeOK, EachKeyOnce, [Next]_vars
  PROVE  EachKeyOnce'
<1>1. CASE ~Dedup
  BY <1>1, RunsStay DEF EachKeyOnce, Run, Depths
<1>2. CASE Dedup
  <2>0. PICK n \in Nat : n = Len(keys_by_depth)
    BY DepthsAreDepths
  <2>1. PICK run \in Packings(new_pairs), fresh \in SUBSET Key :
           /\ fresh = DOMAIN run \ all_keys
           /\ Depths = 1 .. n
           /\ Depths' = 1 .. (n + 1)
           /\ \A d \in 1 .. n : keys_by_depth'[d] = keys_by_depth[d]
           /\ keys_by_depth'[n + 1] = fresh
           /\ all_keys' = all_keys \union fresh
    BY <1>2, <2>0, DedupAppends
  <2>2. n \in Nat
    OBVIOUS
  <2>3. \A d \in 1 .. n : Run(d)' = Run(d) /\ Run(d) \subseteq all_keys
    BY <2>1 DEF Run, EachKeyOnce
  <2>4. Run(n + 1)' = fresh /\ fresh \intersect all_keys = {}
    BY <2>1 DEF Run
  <2>5. \A d \in Depths' : d = n + 1 \/ d \in 1 .. n
    BY <2>1, <2>2
  <2>6. ASSUME NEW c \in Depths', NEW d \in Depths', c # d
        PROVE  Run(c)' \intersect Run(d)' = {}
    BY <2>1, <2>3, <2>4, <2>5, <2>6 DEF EachKeyOnce
  <2>7. all_keys' = UNION {Run(d)' : d \in Depths'}
    <3>1. all_keys = UNION {Run(d) : d \in 1 .. n}
      BY <2>1 DEF EachKeyOnce
    <3>2. ASSUME NEW k \in all_keys' PROVE k \in UNION {Run(d)' : d \in Depths'}
      <4>1. CASE k \in all_keys
        <5>1. PICK d \in 1 .. n : k \in Run(d)
          BY <3>1, <4>1
        <5>2. d \in Depths' /\ k \in Run(d)'
          BY <5>1, <2>1, <2>2, <2>3
        <5> QED
          BY <5>2
      <4>2. CASE k \in fresh
        <5>1. n + 1 \in Depths'
          BY <2>1, <2>2
        <5> QED
          BY <5>1, <4>2, <2>4
      <4> QED
        BY <4>1, <4>2, <2>1
    <3>3. ASSUME NEW d \in Depths' PROVE Run(d)' \subseteq all_keys'
      BY <2>1, <2>3, <2>4, <2>5
    <3> QED
      BY <3>2, <3>3
  <2> QED
    BY <2>6, <2>7 DEF EachKeyOnce
<1> QED
  BY <1>1, <1>2

-----------------------------------------------------------------------------
(***************************************************************************)
(* Values name parents.                                                    *)
(***************************************************************************)
LEMMA ValuesStep ==
  ASSUME TypeOK, ValuesNameParents, CollectedNameParents, [Next]_vars
  PROVE  ValuesNameParents'
<1>1. CASE ~Dedup
  BY <1>1, RunsStay DEF ValuesNameParents, HasParent, Run, Depths
<1>2. CASE Dedup
  <2> DEFINE n == Len(keys_by_depth)
  <2>1. PICK run \in Packings(new_pairs), fresh \in SUBSET Key :
           /\ fresh = DOMAIN run \ all_keys
           /\ Depths = 1 .. n
           /\ Depths' = 1 .. (n + 1)
           /\ \A d \in 1 .. n : /\ keys_by_depth'[d] = keys_by_depth[d]
                                /\ values_by_depth'[d] = values_by_depth[d]
           /\ keys_by_depth'[n + 1] = fresh
           /\ values_by_depth'[n + 1] = [k \in fresh |-> run[k]]
    BY <1>2, DedupAppends
  <2>2. n \in Nat \ {0}
    BY DepthsAreDepths
  <2>3. setup' = setup /\ pc = "dedup"
    BY <1>2 DEF Dedup
  <2>4. \A d \in 1 .. n, k \in Key, h \in HashByte : HasParent(k, h, d) => HasParent(k, h, d)'
    BY <2>1, <2>3 DEF HasParent, Run
  <2>5. ASSUME NEW d \in Depths' \ {1}, NEW k \in Run(d)'
        PROVE  HasParent(k, values_by_depth[d][k], d - 1)'
    <3>1. CASE d \in 1 .. n
      <4>1. /\ d \in Depths \ {1} /\ k \in Run(d) /\ d - 1 \in 1 .. n
            /\ values_by_depth'[d][k] = values_by_depth[d][k]
        BY <3>1, <2>1, <2>2, <2>5 DEF Run
      <4>2. HasParent(k, values_by_depth[d][k], d - 1)
        BY <4>1 DEF ValuesNameParents
      <4> QED
        BY <4>1, <4>2, <2>1, <2>3 DEF HasParent, Run
    <3>2. CASE d = n + 1
      <4>1. k \in DOMAIN run /\ values_by_depth'[d][k] = run[k] /\ d - 1 = n
        BY <3>2, <2>1, <2>2, <2>5 DEF Run
      <4>2. <<k, run[k]>> \in new_pairs
        BY <4>1, PackingsKeepPairs DEF TypeOK
      <4>3. HasParent(k, run[k], n)
        BY <4>2, <2>3 DEF CollectedNameParents, Collected
      <4>4. n \in 1 .. n
        BY <2>2
      <4> QED
        BY <4>1, <4>3, <4>4, <2>1, <2>3 DEF HasParent, Run
    <3> QED
      BY <3>1, <3>2, <2>1, <2>2
  <2> QED
    BY <2>5 DEF ValuesNameParents
<1> QED
  BY <1>1, <1>2

-----------------------------------------------------------------------------
(***************************************************************************)
(* Everything collected has a parent in the last run.                      *)
(***************************************************************************)
LEMMA CollectedStep ==
  ASSUME TypeOK, CollectedNameParents, [Next]_vars
  PROVE  CollectedNameParents'
<1>0. LastRun \subseteq Key /\ Len(keys_by_depth) \in Nat \ {0} /\ setup \in Setups
  BY DEF TypeOK, LastRun
<1>1. CASE StartIteration
  BY <1>1 DEF StartIteration, CollectedNameParents, Collected, data, LastRun
<1>2. CASE Visit
  <2>1. PICK k \in todo :
          /\ todo' = todo \ {k}
          /\ IF Winning(k) = {}
               THEN UNCHANGED <<win, win_state>>
               ELSE /\ win' = TRUE
                    /\ \E m \in Winning(k) : win_state' = <<setup.moves[k][m], Hash[k]>>
          /\ Collect(new_states \union Generated(k))
    BY <1>2 DEF Visit
  <2>2. pc = "visit" /\ UNCHANGED <<setup, keys_by_depth, pc>>
    BY <1>2 DEF Visit, data
  <2>3. k \in LastRun /\ k \in Key
    BY <1>0, <2>1, <2>2 DEF CollectedNameParents
  <2>4. /\ Generated(k) \subseteq Key \X HashByte
        /\ \A x \in Generated(k) : x[2] = Hash[k] /\ x[1] \in Range(setup.moves[k])
        /\ \A m \in Winning(k) : /\ setup.moves[k][m] \in Range(setup.moves[k])
                                 /\ setup.moves[k][m] \in setup.wins
    BY <1>0, <2>3, GeneratedIsNext
  <2>5. \A x \in Generated(k) : HasParent(x[1], x[2], Len(keys_by_depth))
    BY <2>3, <2>4 DEF HasParent, Run, LastRun
  <2>6. Collected' \subseteq Collected \union Generated(k)
    <3>1. /\ new_states \union Generated(k) \in SUBSET (Key \X HashByte)
          /\ new_pairs \subseteq Key \X HashByte
      BY <2>4 DEF TypeOK
    <3>2. /\ new_states' \subseteq new_states \union Generated(k)
          /\ new_pairs' \subseteq new_pairs \union (new_states \union Generated(k))
      BY <3>1, <2>1, CollectKeeps
    <3> QED
      BY <3>2 DEF Collected
  <2>7. \A x \in Collected : HasParent(x[1], x[2], Len(keys_by_depth))
    BY <2>2 DEF CollectedNameParents
  <2>8. win' => /\ win_state'[1] \in setup.wins
                /\ HasParent(win_state'[1], win_state'[2], Len(keys_by_depth))
    <3>1. CASE Winning(k) = {}
      BY <2>1, <2>2, <3>1 DEF CollectedNameParents
    <3>2. CASE Winning(k) # {}
      <4>1. PICK m \in Winning(k) : win_state' = <<setup.moves[k][m], Hash[k]>>
        BY <2>1, <3>2
      <4> QED
        BY <4>1, <2>3, <2>4 DEF HasParent, Run, LastRun
    <3> QED
      BY <3>1, <3>2
  <2>9. todo' \subseteq LastRun'
    BY <2>1, <2>2 DEF CollectedNameParents, LastRun
  <2> QED
    BY <2>2, <2>5, <2>6, <2>7, <2>8, <2>9 DEF CollectedNameParents, HasParent, Run
<1>3. CASE EndVisit
  <2>1. PICK run \in Packings(new_states) : new_pairs' = new_pairs \union PairsOf(run)
    BY <1>3 DEF EndVisit
  <2>2. PairsOf(run) \subseteq new_states
    BY PackingsKeepPairs DEF TypeOK
  <2>3. /\ Collected' \subseteq Collected /\ pc = "visit"
        /\ UNCHANGED <<setup, keys_by_depth, todo, win, win_state>>
    BY <1>3, <2>1, <2>2 DEF EndVisit, Collected, data
  <2> QED
    BY <2>3 DEF CollectedNameParents, HasParent, Run, LastRun
<1>4. CASE GiveUp \/ Dedup \/ TraceBack \/ TraceEnd
  <2>1. pc' \notin {"visit", "dedup"}
    BY <1>4 DEF GiveUp, Dedup, TraceBack, TraceEnd
  <2> QED
    BY <2>1 DEF CollectedNameParents
<1>5. CASE UNCHANGED vars
  BY <1>5 DEF vars, data, visiting, CollectedNameParents, Collected, HasParent, Run, LastRun
<1> QED
  BY <1>1, <1>2, <1>3, <1>4, <1>5 DEF Next

-----------------------------------------------------------------------------
(***************************************************************************)
(* The trace back.                                                         *)
(***************************************************************************)
LEMMA StartStep ==
  ASSUME TypeOK, StartsAtStart, [Next]_vars
  PROVE  StartsAtStart'
<1>1. CASE ~Dedup
  BY <1>1, RunsStay DEF StartsAtStart, Run
<1>2. CASE Dedup
  <2>1. \A d \in 1 .. Len(keys_by_depth) : keys_by_depth'[d] = keys_by_depth[d]
    BY <1>2, DedupAppends
  <2>2. 1 \in 1 .. Len(keys_by_depth)
    BY DepthsAreDepths
  <2> QED
    BY <1>2, <2>1, <2>2 DEF Dedup, StartsAtStart, Run
<1> QED
  BY <1>1, <1>2

LEMMA TraceStep ==
  ASSUME TypeOK, ValuesNameParents, CollectedNameParents, TraceOnCourse, [Next]_vars
  PROVE  TraceOnCourse'
<1> DEFINE n == Len(keys_by_depth)
<1>0. n \in Nat \ {0} /\ Depths = 1 .. n
  BY DepthsAreDepths
<1>1. CASE Dedup
  <2>1. CASE ~win
    BY <1>1, <2>1 DEF Dedup, TraceOnCourse
  <2>2. CASE win
    <3>1. pc = "dedup" /\ target' = win_state /\ depth' = n /\ setup' = setup
      BY <1>1, <2>2 DEF Dedup
    <3>2. HasParent(win_state[1], win_state[2], n)
      BY <2>2, <3>1 DEF CollectedNameParents
    <3>3. /\ \A d \in 1 .. n : keys_by_depth'[d] = keys_by_depth[d]
          /\ Len(keys_by_depth') = n + 1
      BY <1>1, DedupAppends
    <3>4. n \in 1 .. n
      BY <1>0
    <3> QED
      BY <1>0, <3>1, <3>2, <3>3, <3>4 DEF TraceOnCourse, HasParent, Run
  <2> QED
    BY <2>1, <2>2
<1>2. CASE TraceBack
  <2>1. PICK k \in Parents : target' = <<k, values_by_depth[depth][k]>>
    BY <1>2 DEF TraceBack, Least
  <2>2. /\ pc = "trace" /\ depth > 0 /\ depth' = depth - 1
        /\ UNCHANGED <<setup, keys_by_depth>>
    BY <1>2 DEF TraceBack, data
  <2>3. depth \in Nat /\ depth < n
    BY <2>2 DEF TypeOK, TraceOnCourse
  <2>4. k \in Run(depth) /\ target'[1] = k /\ target'[2] = values_by_depth[depth][k]
    BY <2>1 DEF Parents, Run
  <2>5. CASE depth = 1
    BY <2>2, <2>3, <2>4, <2>5 DEF TraceOnCourse, Run
  <2>6. CASE depth # 1
    <3>1. depth \in Depths \ {1}
      BY <1>0, <2>2, <2>3, <2>6
    <3>2. HasParent(k, values_by_depth[depth][k], depth - 1)
      BY <2>4, <3>1 DEF ValuesNameParents
    <3> QED
      BY <2>2, <2>3, <2>4, <2>6, <3>2 DEF TraceOnCourse, HasParent, Run
  <2> QED
    BY <2>5, <2>6
<1>3. CASE StartIteration \/ GiveUp \/ Visit \/ EndVisit \/ TraceEnd
  <2>1. pc' # "trace"
    BY <1>3 DEF StartIteration, GiveUp, Visit, EndVisit, TraceEnd
  <2> QED
    BY <2>1 DEF TraceOnCourse
<1>4. CASE UNCHANGED vars
  BY <1>4 DEF vars, data, tracing, TraceOnCourse, HasParent, Run
<1> QED
  BY <1>1, <1>2, <1>3, <1>4 DEF Next

-----------------------------------------------------------------------------
LEMMA InvInit == Init => IInv
<1> SUFFICES ASSUME Init PROVE IInv
  OBVIOUS
<1>1. setup \in Setups /\ setup.start \in Key /\ NullKey \in Key /\ 0 \in HashByte
  BY SetupIsPuzzle, SearchAssumption DEF Init
<1>2. keys_by_depth = << {setup.start} >> /\ Depths = {1} /\ Run(1) = {setup.start}
  BY DEF Init, Depths, Run
<1>3. TypeOK
  <2>1. keys_by_depth \in Seq(SUBSET Key) /\ Len(keys_by_depth) = 1
    BY <1>1, <1>2
  <2>2. values_by_depth[1] \in [Run(1) -> HashByte] /\ Len(values_by_depth) = 1
    BY <1>1, <1>2 DEF Init
  <2>3. NoPair \in Key \X HashByte
    BY <1>1 DEF NoPair
  <2>4. path \in Seq(Key)
    BY DEF Init
  <2>5. \A d \in Depths : values_by_depth[d] \in [Run(d) -> HashByte]
    BY <1>2, <2>2
  <2>6. /\ all_keys \subseteq Key /\ todo \subseteq Key
        /\ new_states \subseteq Key \X HashByte /\ new_pairs \subseteq Key \X HashByte
        /\ win \in BOOLEAN /\ win_state \in Key \X HashByte /\ target \in Key \X HashByte
        /\ pc \in {"iterate", "visit", "dedup", "trace", "done"}
        /\ depth \in Nat /\ result \in Nat
    BY <1>1, <2>3 DEF Init
  <2> QED
    BY <1>1, <2>1, <2>2, <2>4, <2>5, <2>6 DEF TypeOK
<1>4. EachKeyOnce
  BY <1>2 DEF Init, EachKeyOnce
<1>5. ValuesNameParents
  BY <1>2 DEF ValuesNameParents
<1> QED
  BY <1>2, <1>3, <1>4, <1>5 DEF Init, IInv, CollectedNameParents, TraceOnCourse, StartsAtStart

LEMMA InvStep == IInv /\ [Next]_vars => IInv'
BY TypeStep, OnceStep, ValuesStep, CollectedStep, TraceStep, StartStep DEF IInv

THEOREM Invariance == Spec => []IInv
BY InvInit, InvStep, PTL DEF Spec

\* Every variable of the search always holds a value of its kind.
THEOREM TypeCorrect == Spec => []TypeOK
<1>1. IInv => TypeOK
  BY DEF IInv
<1> QED
  BY <1>1, Invariance, PTL

\* dedup lets no state in twice, at any depth, whatever the hash function and
\* however the new states were cut into batches.
THEOREM StatesOnce == Spec => []EachKeyOnce
<1>1. IInv => EachKeyOnce
  BY DEF IInv
<1> QED
  BY <1>1, Invariance, PTL

\* The value kept with a state names a parent at the depth before.
THEOREM ParentsNamed == Spec => []ValuesNameParents
<1>1. IInv => ValuesNameParents
  BY DEF IInv
<1> QED
  BY <1>1, Invariance, PTL

\* The assertion of trace_solution_path holds: a parent is always found.
THEOREM TraceNeverStuck == Spec => []FoundNext
<1>1. IInv => FoundNext
  BY DEF IInv, TraceOnCourse, FoundNext, Parents, HasParent, Run
<1> QED
  BY <1>1, Invariance, PTL

-----------------------------------------------------------------------------
(***************************************************************************)
(* Nothing is lost, and the layers of the search.                          *)
(***************************************************************************)
\* One move away from the states of S.
Ahead(S) == UNION {Range(setup.moves[k]) : k \in S}

\* While no win was seen, all that the visited states have a move to was
\* collected, and nothing of it wins; then nothing of it is the key of zeros.
NothingLost ==
  /\ pc \in {"visit", "dedup"} /\ ~win =>
       \A k \in LastRun \ todo : /\ Range(setup.moves[k]) \intersect setup.wins = {}
                                 /\ Range(setup.moves[k]) \subseteq KeysOf(Collected)
  /\ pc = "dedup" => todo = {} /\ new_states = {}

\* A win is looked at as soon as the iteration that saw it ends.
WinIsTraced ==
  /\ pc = "iterate" => ~win
  /\ pc = "trace" => win

\* The depths that are complete: not the one written in the iteration that
\* found a win.
Complete == IF pc \in {"trace", "done"} /\ win THEN Len(keys_by_depth) - 1 ELSE Len(keys_by_depth)

UpTo(d) == UNION {Run(c) : c \in 1 .. d}

\* Each run is what is one move from the run before and in no run before it.
Layered ==
  /\ Complete > 0
  /\ \A d \in 1 .. Complete : Run(d) \intersect setup.wins = {}
  /\ \A d \in 1 .. (Complete - 1) : /\ Ahead(Run(d)) \intersect setup.wins = {}
                                    /\ Run(d + 1) = Ahead(Run(d)) \ UpTo(d)

\* What search returns: the depth of the win, or 0 when there is nothing
\* left to visit.
Answered ==
  /\ pc \in {"trace", "done"} /\ win =>
       Ahead(Run(Complete)) \intersect setup.wins # {}
  /\ pc = "done" /\ win => result = Len(keys_by_depth) - 1
  /\ pc = "done" /\ ~win => result = 0 /\ LastRun = {}

\* From the state that the trace is at, the path leads to a win.
Leads(p) ==
  /\ p[Len(p)] \in setup.wins
  /\ \A i \in 1 .. (Len(p) - 1) : p[i + 1] \in Range(setup.moves[p[i]])

PathLeads ==
  /\ pc \notin {"trace", "done"} => path = <<>>
  /\ pc = "trace" => /\ Len(path) = Len(keys_by_depth) - 1 - depth
                     /\ Leads(<<target[1]>> \o path)
  /\ pc = "done" /\ win => /\ Len(path) = Len(keys_by_depth)
                           /\ Leads(path) /\ path[1] = setup.start

\* An uncompressed run without states is not visited.
NotEmpty == pc \in {"visit", "dedup"} /\ ~setup.compress => LastRun # {}

MoreInv ==
  NothingLost /\ WinIsTraced /\ Layered /\ Answered /\ PathLeads /\ NotEmpty

-----------------------------------------------------------------------------
\* A state whose moves are all looked at without a win has no winning move.
LEMMA NoWinOffersAll ==
  ASSUME setup \in Setups, NEW k \in Key, Winning(k) = {}
  PROVE  /\ Range(setup.moves[k]) \intersect setup.wins = {}
         /\ NullKey \notin Range(setup.moves[k])
         /\ Range(setup.moves[k]) \subseteq KeysOf(Generated(k))
<1> DEFINE s == setup.moves[k]
           T == {m \in DOMAIN s : s[m] \in setup.wins}
<1>1. s \in Seq(Key) /\ NullKey \in setup.wins
  BY SetupIsPuzzle
<1>2. DOMAIN s \subseteq Nat
  BY <1>1
<1>3. T = {}
  <2>1. SUFFICES ASSUME T # {} PROVE FALSE
    OBVIOUS
  <2>2. PICK m \in T : \A n \in T : m <= n
    <3>1. T \subseteq Nat
      BY <1>2
    <3> HIDE DEF T
    <3> QED
      BY <2>1, <3>1, LeastNatural
  <2>3. \A n \in 1 .. (m - 1) : s[n] \notin setup.wins
    <3>1. SUFFICES ASSUME NEW n \in 1 .. (m - 1), s[n] \in setup.wins PROVE FALSE
      OBVIOUS
    <3>2. n \in DOMAIN s
      BY <1>1, <2>2
    <3>3. m <= n
      BY <2>2, <3>1, <3>2
    <3> QED
      BY <1>2, <2>2, <3>3
  <2> QED
    BY <2>2, <2>3 DEF Winning, Offered
<1>4. Range(s) \intersect setup.wins = {}
  BY <1>3 DEF Range
<1>5. Offered(k) = DOMAIN s
  <2>1. \A m \in DOMAIN s : \A n \in 1 .. (m - 1) : n \in DOMAIN s
    BY <1>1
  <2> QED
    BY <1>3, <2>1 DEF Offered
<1>6. ASSUME NEW m \in DOMAIN s PROVE s[m] \in KeysOf(Generated(k))
  <2>1. <<s[m], Hash[k]>> \in Generated(k)
    BY <1>5 DEF Generated
  <2>2. <<s[m], Hash[k]>>[1] = s[m]
    OBVIOUS
  <2> QED
    BY <2>1, <2>2 DEF KeysOf
<1> QED
  BY <1>1, <1>4, <1>6 DEF Range

LEMMA LostStep ==
  ASSUME TypeOK, CollectedNameParents, NothingLost, [Next]_vars
  PROVE  NothingLost'
<1>0. LastRun \subseteq Key /\ setup \in Setups
  BY DEF TypeOK, LastRun
<1>1. CASE StartIteration
  BY <1>1 DEF StartIteration, NothingLost, data, LastRun
<1>2. CASE Visit
  <2>1. PICK k \in todo :
          /\ todo' = todo \ {k}
          /\ IF Winning(k) = {}
               THEN UNCHANGED <<win, win_state>>
               ELSE /\ win' = TRUE
                    /\ \E m \in Winning(k) : win_state' = <<setup.moves[k][m], Hash[k]>>
          /\ Collect(new_states \union Generated(k))
    BY <1>2 DEF Visit
  <2>2. pc = "visit" /\ UNCHANGED <<setup, keys_by_depth, pc>>
    BY <1>2 DEF Visit, data
  <2>3. k \in Key
    BY <1>0, <2>1, <2>2 DEF CollectedNameParents
  <2>4. SUFFICES ASSUME ~win', NEW j \in LastRun \ todo'
                 PROVE  /\ Range(setup.moves[j]) \intersect setup.wins = {}
                        /\ Range(setup.moves[j]) \subseteq KeysOf(Collected')
    BY <2>2 DEF NothingLost, LastRun, KeysOf, Collected
  <2>5. Winning(k) = {} /\ ~win
    BY <2>1, <2>4 DEF TypeOK
  <2>6. /\ KeysOf(new_states \union Generated(k)) \ {NullKey} \subseteq KeysOf(Collected')
        /\ new_pairs \subseteq new_pairs'
    <3>1. /\ new_states \union Generated(k) \in SUBSET (Key \X HashByte)
          /\ new_pairs \subseteq Key \X HashByte
      BY <1>0, <2>3, GeneratedIsNext DEF TypeOK
    <3> QED
      BY <2>1, <3>1, CollectKeeps
  <2>7. CASE j = k
    BY <1>0, <2>3, <2>5, <2>6, <2>7, NoWinOffersAll DEF KeysOf
  <2>8. CASE j # k
    <3>1. /\ Range(setup.moves[j]) \intersect setup.wins = {}
          /\ Range(setup.moves[j]) \subseteq KeysOf(Collected)
      BY <2>1, <2>2, <2>4, <2>5, <2>8 DEF NothingLost
    <3>2. NullKey \in setup.wins
      BY <1>0, SetupIsPuzzle
    <3>3. KeysOf(Collected) \ {NullKey} \subseteq KeysOf(Collected')
      BY <2>6 DEF KeysOf, Collected
    <3> QED
      BY <3>1, <3>2, <3>3
  <2> QED
    BY <2>7, <2>8
<1>3. CASE EndVisit
  <2>1. PICK run \in Packings(new_states) : new_pairs' = new_pairs \union PairsOf(run)
    BY <1>3 DEF EndVisit
  <2>2. KeysOf(PairsOf(run)) = KeysOf(new_states) \ {NullKey}
    BY PackingsKeepPairs DEF TypeOK
  <2>3. /\ pc = "visit" /\ todo = {} /\ todo' = {} /\ new_states' = {}
        /\ UNCHANGED <<setup, keys_by_depth, win>>
    BY <1>3 DEF EndVisit, data
  <2>4. KeysOf(Collected) \ {NullKey} \subseteq KeysOf(Collected')
    BY <2>1, <2>2 DEF KeysOf, Collected
  <2>5. NullKey \in setup.wins
    BY <1>0, SetupIsPuzzle
  <2>6. ASSUME ~win', NEW j \in LastRun \ todo'
        PROVE  /\ Range(setup.moves[j]) \intersect setup.wins = {}
               /\ Range(setup.moves[j]) \subseteq KeysOf(Collected')
    BY <2>3, <2>4, <2>5, <2>6 DEF NothingLost
  <2> QED
    BY <2>3, <2>6 DEF NothingLost, LastRun, KeysOf, Collected
<1>4. CASE GiveUp \/ Dedup \/ TraceBack \/ TraceEnd
  <2>1. pc' \notin {"visit", "dedup"}
    BY <1>4 DEF GiveUp, Dedup, TraceBack, TraceEnd
  <2> QED
    BY <2>1 DEF NothingLost
<1>5. CASE UNCHANGED vars
  BY <1>5 DEF vars, data, visiting, NothingLost, Collected, LastRun, KeysOf
<1> QED
  BY <1>1, <1>2, <1>3, <1>4, <1>5 DEF Next

\* Without a win, the next run is all that is one move ahead and new.
LEMMA DedupDeepens ==
  ASSUME TypeOK, CollectedNameParents, NothingLost, Dedup, ~win
  PROVE  /\ Ahead(LastRun) \intersect setup.wins = {}
         /\ keys_by_depth' = Append(keys_by_depth, Ahead(LastRun) \ all_keys)
<1>0. pc = "dedup" /\ setup \in Setups
  BY DEF Dedup, TypeOK
<1>1. NullKey \in setup.wins
  BY <1>0, SetupIsPuzzle
<1>2. \A k \in LastRun : /\ Range(setup.moves[k]) \intersect setup.wins = {}
                         /\ Range(setup.moves[k]) \subseteq KeysOf(new_pairs)
  BY <1>0 DEF NothingLost, Collected
<1>3. Ahead(LastRun) \intersect setup.wins = {} /\ NullKey \notin Ahead(LastRun)
  BY <1>1, <1>2 DEF Ahead
<1>4. KeysOf(new_pairs) \subseteq Ahead(LastRun)
  BY <1>0 DEF CollectedNameParents, Collected, HasParent, KeysOf, Ahead, Run, LastRun
<1>5. KeysOf(new_pairs) \ {NullKey} = Ahead(LastRun)
  BY <1>1, <1>2, <1>3, <1>4 DEF Ahead
<1>6. PICK run \in Packings(new_pairs) : keys_by_depth' = Append(keys_by_depth, Fresh(run))
  BY DEF Dedup
<1>7. DOMAIN run = Ahead(LastRun)
  BY <1>5, PackingsKeepPairs DEF TypeOK
<1> QED
  BY <1>3, <1>6, <1>7 DEF Fresh

LEMMA TracedStep ==
  ASSUME WinIsTraced, [Next]_vars
  PROVE  WinIsTraced'
BY DEF WinIsTraced, Next, vars, data, visiting, tracing,
       StartIteration, GiveUp, Visit, EndVisit, Dedup, TraceBack, TraceEnd

LEMMA NotEmptyStep ==
  ASSUME NotEmpty, [Next]_vars
  PROVE  NotEmpty'
<1>1. CASE StartIteration
  BY <1>1 DEF StartIteration, NotEmpty, NoBytes, LastRun, data
<1>2. CASE Visit
  BY <1>2 DEF Visit, NotEmpty, LastRun, data
<1>3. CASE EndVisit
  BY <1>3 DEF EndVisit, NotEmpty, LastRun, data
<1>4. CASE GiveUp \/ Dedup \/ TraceBack \/ TraceEnd
  <2>1. pc' \notin {"visit", "dedup"}
    BY <1>4 DEF GiveUp, Dedup, TraceBack, TraceEnd
  <2> QED
    BY <2>1 DEF NotEmpty
<1>5. CASE UNCHANGED vars
  BY <1>5 DEF vars, data, NotEmpty, LastRun
<1> QED
  BY <1>1, <1>2, <1>3, <1>4, <1>5 DEF Next

\* Only Dedup, when there was no win, adds a complete depth.
LEMMA CompleteStays ==
  ASSUME TypeOK, WinIsTraced, [Next]_vars, ~(Dedup /\ ~win)
  PROVE  /\ Complete' = Complete /\ setup' = setup
         /\ \A d \in 1 .. Complete : Run(d)' = Run(d)
<1>0. Len(keys_by_depth) \in Nat \ {0}
  BY DepthsAreDepths
<1>1. CASE Dedup
  <2>1. pc = "dedup" /\ pc' = "trace" /\ win /\ win' = win /\ setup' = setup
    BY <1>1 DEF Dedup, visiting
  <2>2. /\ Len(keys_by_depth') = Len(keys_by_depth) + 1
        /\ \A d \in 1 .. Len(keys_by_depth) : keys_by_depth'[d] = keys_by_depth[d]
    BY <1>1, DedupAppends
  <2>3. Complete = Len(keys_by_depth) /\ Complete' = Len(keys_by_depth)
    BY <1>0, <2>1, <2>2 DEF Complete
  <2> QED
    BY <2>1, <2>2, <2>3 DEF Run
<1>2. CASE ~Dedup
  <2>1. UNCHANGED <<setup, keys_by_depth>>
    BY <1>2, RunsStay
  <2>2. (pc \in {"trace", "done"} /\ win)' = (pc \in {"trace", "done"} /\ win)
    BY <1>2 DEF WinIsTraced, Next, vars, visiting, tracing,
                StartIteration, GiveUp, Visit, EndVisit, TraceBack, TraceEnd
  <2> QED
    BY <2>1, <2>2 DEF Complete, Run
<1> QED
  BY <1>1, <1>2

LEMMA LayeredStep ==
  ASSUME TypeOK, EachKeyOnce, CollectedNameParents, NothingLost, WinIsTraced, Layered,
         [Next]_vars
  PROVE  Layered'
<1>0. PICK n \in Nat \ {0} : n = Len(keys_by_depth) /\ Depths = 1 .. n
  BY DepthsAreDepths
<1>1. CASE ~(Dedup /\ ~win)
  <2>1. /\ Complete' = Complete /\ setup' = setup
        /\ \A d \in 1 .. Complete : Run(d)' = Run(d)
    BY <1>1, CompleteStays
  <2>2. Complete \in Nat
    BY <1>0 DEF Complete
  <2>3. \A d \in 1 .. (Complete - 1) : UpTo(d)' = UpTo(d)
    <3>1. \A d \in 1 .. (Complete - 1) : \A c \in 1 .. d : c \in 1 .. Complete
      BY <2>2
    <3> QED
      BY <2>1, <3>1 DEF UpTo
  <2>4. \A d \in 1 .. (Complete - 1) : d \in 1 .. Complete /\ d + 1 \in 1 .. Complete
    BY <2>2
  <2> QED
    BY <2>1, <2>3, <2>4 DEF Layered, Ahead
<1>2. CASE Dedup /\ ~win
  <2>1. /\ Ahead(LastRun) \intersect setup.wins = {}
        /\ keys_by_depth' = Append(keys_by_depth, Ahead(LastRun) \ all_keys)
    BY <1>2, DedupDeepens
  <2>2. pc = "dedup" /\ pc' = "iterate" /\ setup' = setup
    BY <1>2 DEF Dedup
  <2>3. /\ Len(keys_by_depth') = n + 1
        /\ \A d \in 1 .. n : keys_by_depth'[d] = keys_by_depth[d]
    BY <1>0, <1>2, DedupAppends
  <2>4. keys_by_depth'[n + 1] = Ahead(LastRun) \ all_keys
    BY <1>0, <2>1 DEF TypeOK
  <2>5. Complete = n /\ Complete' = n + 1
    BY <1>0, <2>2, <2>3 DEF Complete
  <2>6. all_keys = UpTo(n)
    BY <1>0 DEF EachKeyOnce, UpTo
  <2>7. \A d \in 1 .. n : Run(d)' = Run(d) /\ UpTo(d)' = UpTo(d) /\ Ahead(Run(d))' = Ahead(Run(d))
    <3>1. \A d \in 1 .. n : \A c \in 1 .. d : c \in 1 .. n
      BY <1>0
    <3> QED
      BY <2>2, <2>3, <3>1 DEF Run, UpTo, Ahead
  <2>8. /\ Run(n + 1)' = Ahead(Run(n)) \ UpTo(n)
        /\ Ahead(Run(n)) \intersect setup.wins = {}
    BY <1>0, <2>1, <2>4, <2>6 DEF Run, LastRun
  <2>9. \A d \in 1 .. (n + 1) : Run(d)' \intersect setup'.wins = {}
    BY <1>0, <2>2, <2>5, <2>7, <2>8 DEF Layered
  <2>10. ASSUME NEW d \in 1 .. n
         PROVE  /\ Ahead(Run(d)) \intersect setup.wins = {}
                /\ Run(d + 1)' = Ahead(Run(d)) \ UpTo(d)
    <3>1. CASE d = n
      BY <2>8, <3>1
    <3>2. CASE d # n
      <4>1. d \in 1 .. (n - 1) /\ d + 1 \in 1 .. n
        BY <1>0, <3>2
      <4> QED
        BY <4>1, <2>5, <2>7 DEF Layered
    <3> QED
      BY <3>1, <3>2
  <2>11. (n + 1) - 1 = n /\ n + 1 > 0
    BY <1>0
  <2> QED
    BY <2>2, <2>5, <2>7, <2>9, <2>10, <2>11 DEF Layered
<1> QED
  BY <1>1, <1>2

LEMMA AnsweredStep ==
  ASSUME TypeOK, CollectedNameParents, WinIsTraced, Answered, [Next]_vars
  PROVE  Answered'
<1>0. PICK n \in Nat \ {0} : n = Len(keys_by_depth)
  BY DepthsAreDepths
<1>1. CASE Dedup
  <2>1. CASE ~win
    BY <1>1, <2>1 DEF Dedup, Answered
  <2>2. CASE win
    <3>1. pc = "dedup" /\ pc' = "trace" /\ setup' = setup /\ win' = win
      BY <1>1, <2>2 DEF Dedup, visiting
    <3>2. Complete' = Complete /\ Complete = n /\ Run(n)' = Run(n)
      BY <1>0, <1>1, <2>2, <3>1, CompleteStays DEF Complete
    <3>3. win_state[1] \in setup.wins /\ win_state[1] \in Ahead(Run(n))
      BY <1>0, <2>2, <3>1 DEF CollectedNameParents, HasParent, Ahead
    <3>4. (Ahead(Run(Complete)) \intersect setup.wins)' # {}
      BY <3>1, <3>2, <3>3 DEF Ahead
    <3> QED
      BY <3>1, <3>4 DEF Answered
  <2> QED
    BY <2>1, <2>2
<1>2. CASE TraceBack \/ TraceEnd
  <2>1. /\ pc = "trace" /\ win /\ win' = win /\ setup' = setup
        /\ keys_by_depth' = keys_by_depth
    BY <1>2 DEF TraceBack, TraceEnd, WinIsTraced, visiting, data
  <2>2. pc' = "trace" \/ (pc' = "done" /\ result' = n - 1)
    BY <1>0, <1>2 DEF TraceBack, TraceEnd
  <2>3. Complete' = Complete /\ Run(Complete)' = Run(Complete)
    BY <2>1, <2>2 DEF Complete, Run
  <2> QED
    BY <1>0, <2>1, <2>2, <2>3 DEF Answered, Ahead
<1>3. CASE GiveUp
  <2>1. ~win' /\ result' = 0 /\ LastRun' = {} /\ pc' = "done"
    BY <1>3 DEF GiveUp, WinIsTraced, visiting, data, NoBytes, LastRun
  <2> QED
    BY <2>1 DEF Answered
<1>4. CASE StartIteration \/ Visit \/ EndVisit
  <2>1. pc' \notin {"trace", "done"}
    BY <1>4 DEF StartIteration, Visit, EndVisit
  <2> QED
    BY <2>1 DEF Answered
<1>5. CASE UNCHANGED vars
  BY <1>5 DEF vars, data, visiting, tracing, Answered, Complete, Run, LastRun, Ahead
<1> QED
  BY <1>1, <1>2, <1>3, <1>4, <1>5 DEF Next

\* One more state before a path that leads to a win.
LEMMA LeadsFrom ==
  ASSUME setup \in Setups, NEW p \in Seq(Key), p # <<>>, Leads(p), NEW k \in Key,
         p[1] \in Range(setup.moves[k])
  PROVE  Leads(<<k>> \o p)
<1> DEFINE q == <<k>> \o p
<1>1. /\ Len(p) \in Nat \ {0} /\ Len(q) = Len(p) + 1
      /\ q[1] = k /\ \A i \in 1 .. Len(p) : q[i + 1] = p[i]
  OBVIOUS
<1> HIDE DEF q
<1>2. q[Len(q)] \in setup.wins
  BY <1>1 DEF Leads
<1>3. ASSUME NEW i \in 1 .. (Len(q) - 1) PROVE q[i + 1] \in Range(setup.moves[q[i]])
  <2>1. CASE i = 1
    BY <1>1, <2>1
  <2>2. CASE i # 1
    <3>1. i \in 1 .. Len(p) /\ i - 1 \in 1 .. (Len(p) - 1) /\ (i - 1) + 1 = i
      BY <1>1, <2>2
    <3>2. q[i + 1] = p[i] /\ q[i] = p[i - 1]
      <4>1. i - 1 \in 1 .. Len(p)
        BY <1>1, <3>1
      <4> QED
        BY <1>1, <3>1, <4>1
    <3> QED
      BY <3>1, <3>2 DEF Leads
  <2> QED
    BY <2>1, <2>2
<1> QED
  BY <1>2, <1>3 DEF Leads, q

LEMMA PathStep ==
  ASSUME TypeOK, CollectedNameParents, TraceOnCourse, StartsAtStart, WinIsTraced, PathLeads,
         NothingLost, [Next]_vars
  PROVE  PathLeads'
<1> DEFINE n == Len(keys_by_depth)
<1>0. n \in Nat \ {0} /\ Depths = 1 .. n /\ setup \in Setups
  BY DepthsAreDepths DEF TypeOK
<1>1. CASE Dedup
  <2>1. CASE ~win
    BY <1>1, <2>1 DEF Dedup, PathLeads
  <2>2. CASE win
    <3>1. /\ pc = "dedup" /\ target' = win_state /\ depth' = n /\ setup' = setup
          /\ path' = path /\ pc' = "trace"
      BY <1>1, <2>2 DEF Dedup
    <3>2. win_state[1] \in setup.wins
      BY <2>2, <3>1 DEF CollectedNameParents
    <3>3. Len(keys_by_depth') = n + 1
      BY <1>1, DedupAppends
    <3> QED
      BY <1>0, <3>1, <3>2, <3>3 DEF PathLeads, Leads, TypeOK
  <2> QED
    BY <2>1, <2>2
<1>2. CASE TraceBack
  <2>1. PICK k \in Parents : target' = <<k, values_by_depth[depth][k]>>
    BY <1>2 DEF TraceBack, Least
  <2>2. /\ pc = "trace" /\ depth > 0 /\ depth' = depth - 1
        /\ path' = <<target[1]>> \o path
        /\ UNCHANGED <<setup, keys_by_depth, win, pc>>
    BY <1>2 DEF TraceBack, data, visiting
  <2>3. /\ path' \in Seq(Key) /\ path' # <<>> /\ path'[1] = target[1]
        /\ Len(path') = Len(path) + 1
    BY <2>2 DEF TypeOK
  <2>4. Leads(path')
    BY <2>2 DEF PathLeads
  <2>5. k \in Key /\ target[1] \in Range(setup.moves[k])
    <3>1. k \in Run(depth)
      BY <2>1 DEF Parents, Run
    <3>2. depth \in Depths
      BY <1>0, <2>2 DEF TraceOnCourse, TypeOK
    <3>3. Run(depth) \subseteq Key
      <4>1. keys_by_depth \in Seq(SUBSET Key)
        BY DEF TypeOK
      <4> QED
        BY <3>2, <4>1 DEF Run, Depths
    <3>4. target[1] \in Range(setup.moves[k])
      BY <2>1 DEF Parents
    <3> QED
      BY <3>1, <3>3, <3>4
  <2>6. Leads(<<k>> \o path')
    BY <1>0, <2>3, <2>4, <2>5, LeadsFrom
  <2>7. Leads(<<target[1]>> \o path)'
    BY <2>1, <2>2, <2>6 DEF Leads
  <2>8. Len(path') = n - 1 - depth'
    BY <1>0, <2>2, <2>3 DEF PathLeads, TypeOK
  <2> QED
    BY <1>0, <2>2, <2>7, <2>8 DEF PathLeads
<1>3. CASE TraceEnd
  <2>1. /\ pc = "trace" /\ depth = 0 /\ pc' = "done"
        /\ path' = <<target[1]>> \o path
        /\ UNCHANGED <<setup, keys_by_depth>>
    BY <1>3 DEF TraceEnd, data
  <2>2. /\ path'[1] = target[1] /\ Len(path') = Len(path) + 1
    BY <2>1 DEF TypeOK
  <2>3. target[1] = setup.start
    BY <2>1 DEF TraceOnCourse, StartsAtStart
  <2>4. Len(path) = n - 1 /\ Leads(path)'
    BY <1>0, <2>1 DEF PathLeads, Leads
  <2> QED
    BY <1>0, <2>1, <2>2, <2>3, <2>4 DEF PathLeads
<1>4. CASE GiveUp
  <2>1. pc' = "done" /\ ~win'
    BY <1>4 DEF GiveUp, WinIsTraced, visiting
  <2> QED
    BY <2>1 DEF PathLeads
<1>5. CASE StartIteration \/ Visit \/ EndVisit
  <2>1. pc \notin {"trace", "done"} /\ pc' \notin {"trace", "done"} /\ path' = path
    BY <1>5 DEF StartIteration, Visit, EndVisit, tracing
  <2> QED
    BY <2>1 DEF PathLeads
<1>6. CASE UNCHANGED vars
  BY <1>6 DEF vars, data, visiting, tracing, PathLeads, Leads
<1> QED
  BY <1>1, <1>2, <1>3, <1>4, <1>5, <1>6 DEF Next

-----------------------------------------------------------------------------
SearchInv == IInv /\ MoreInv

LEMMA SearchInvInit == Init => SearchInv
<1> SUFFICES ASSUME Init PROVE SearchInv
  OBVIOUS
<1>1. IInv
  BY InvInit
<1>2. keys_by_depth = << {setup.start} >> /\ Run(1) = {setup.start} /\ pc = "iterate" /\ ~win
  BY DEF Init, Run
<1>3. setup.start \notin setup.wins
  BY SearchAssumption DEF Init
<1>4. Complete = 1
  BY <1>2 DEF Complete
<1>5. Layered
  BY <1>2, <1>3, <1>4 DEF Layered
<1>6. NothingLost /\ WinIsTraced /\ Answered /\ NotEmpty
  BY <1>2 DEF NothingLost, WinIsTraced, Answered, NotEmpty
<1>7. PathLeads
  BY <1>2 DEF Init, PathLeads
<1> QED
  BY <1>1, <1>5, <1>6, <1>7 DEF SearchInv, MoreInv

LEMMA SearchInvStep == SearchInv /\ [Next]_vars => SearchInv'
BY InvStep, LostStep, TracedStep, LayeredStep, AnsweredStep, PathStep, NotEmptyStep
   DEF SearchInv, MoreInv, IInv

LEMMA SearchInvariance == Spec => []SearchInv
BY SearchInvInit, SearchInvStep, PTL DEF Spec

\* The states given to Policy::trace are a solution, and its length is what
\* search returns.
THEOREM PathSolves == Spec => []PathIsSolution
<1>1. SearchInv => PathIsSolution
  <2> SUFFICES ASSUME SearchInv, pc = "done", win
               PROVE  /\ Len(path) = result + 1
                      /\ path[1] = setup.start
                      /\ path[Len(path)] \in setup.wins
                      /\ \A i \in 1 .. result : path[i + 1] \in Range(setup.moves[path[i]])
    BY DEF PathIsSolution
  <2>1. /\ Len(path) = Len(keys_by_depth) /\ result = Len(keys_by_depth) - 1
        /\ Leads(path) /\ path[1] = setup.start
    BY DEF SearchInv, MoreInv, PathLeads, Answered
  <2>2. Len(keys_by_depth) \in Nat
    BY DEF SearchInv, IInv, TypeOK
  <2> QED
    BY <2>1, <2>2 DEF Leads
<1> QED
  BY <1>1, SearchInvariance, PTL

-----------------------------------------------------------------------------
(***************************************************************************)
(* The search implements LevelSearch.                                      *)
(***************************************************************************)
\* There is a solution: whatever holds the start and all moves of what it
\* holds, has a state that wins.
Solvable ==
  \A S \in SUBSET Key :
    setup.start \in S /\ Ahead(S) \subseteq S => S \intersect setup.wins # {}

\* A puzzle on which search ends: see VisitsSomething.
Ends == setup.compress => Solvable

\* When there is nothing left to visit, the states found are all there are.
LEMMA FoundAll ==
  ASSUME SearchInv, LastRun = {}, Complete = Len(keys_by_depth)
  PROVE  /\ all_keys \subseteq Key /\ setup.start \in all_keys
         /\ Ahead(all_keys) \subseteq all_keys
         /\ all_keys \intersect setup.wins = {}
<1>0. PICK n \in Nat \ {0} : n = Len(keys_by_depth) /\ Depths = 1 .. n
  BY DepthsAreDepths DEF SearchInv, IInv
<1>1. all_keys = UpTo(n) /\ all_keys \subseteq Key
  BY <1>0 DEF SearchInv, IInv, EachKeyOnce, UpTo, TypeOK
<1>2. setup.start \in all_keys
  BY <1>0, <1>1 DEF SearchInv, IInv, StartsAtStart, UpTo
<1>3. \A d \in 1 .. n : Run(d) \intersect setup.wins = {}
  BY <1>0 DEF SearchInv, MoreInv, Layered
<1>4. ASSUME NEW d \in 1 .. n PROVE Ahead(Run(d)) \subseteq all_keys
  <2>1. CASE d = n
    BY <1>0, <2>1 DEF LastRun, Run, Ahead
  <2>2. CASE d # n
    <3>1. d \in 1 .. (n - 1) /\ d + 1 \in 1 .. n
      BY <1>0, <2>2
    <3>2. Run(d + 1) = Ahead(Run(d)) \ UpTo(d)
      BY <1>0, <3>1 DEF SearchInv, MoreInv, Layered
    <3>3. Run(d + 1) \subseteq UpTo(n) /\ UpTo(d) \subseteq UpTo(n)
      BY <1>0, <3>1 DEF UpTo
    <3> QED
      BY <1>1, <3>2, <3>3
  <2> QED
    BY <2>1, <2>2
<1>5. Ahead(all_keys) \subseteq all_keys
  BY <1>1, <1>4, SMTT(60) DEF UpTo, Ahead
<1>6. all_keys \intersect setup.wins = {}
  BY <1>1, <1>3 DEF UpTo
<1> QED
  BY <1>1, <1>2, <1>5, <1>6

\* While there is a solution and no win was seen, there are states to visit.
LEMMA FrontierNotEmpty ==
  ASSUME SearchInv, Ends, pc \in {"visit", "dedup"}
  PROVE  LastRun # {}
<1> SUFFICES ASSUME LastRun = {} PROVE FALSE
  OBVIOUS
<1>1. setup.compress /\ Solvable
  BY DEF SearchInv, MoreInv, NotEmpty, Ends
<1>2. Complete = Len(keys_by_depth)
  BY DEF Complete
<1> QED
  BY <1>1, <1>2, FoundAll DEF Solvable

AbsLayers ==
  IF pc \in {"trace", "done"} /\ win
    THEN SubSeq(keys_by_depth, 1, Len(keys_by_depth) - 1) ELSE keys_by_depth

AbsAnswer ==
  IF pc = "trace" THEN Len(keys_by_depth) - 1 ELSE IF pc = "done" THEN result ELSE -1

LEMMA WithoutAppended ==
  ASSUME NEW S, NEW s \in Seq(S), NEW e \in S
  PROVE  SubSeq(Append(s, e), 1, Len(Append(s, e)) - 1) = s
<1> DEFINE t == SubSeq(Append(s, e), 1, Len(s))
<1>1. /\ Len(s) \in Nat /\ Len(Append(s, e)) - 1 = Len(s)
      /\ \A i \in 1 .. Len(s) : Append(s, e)[i] = s[i] /\ s[i] \in S
  OBVIOUS
<1>2. /\ t \in Seq(S) /\ Len(t) = Len(s)
      /\ \A i \in 1 .. Len(s) : t[i] = s[i]
  BY <1>1, SubSeqProperties
<1> HIDE DEF t
<1>3. t = s
  BY <1>2, SeqEqual
<1> QED
  BY <1>1, <1>3 DEF t

LEMMA DedupImplements ==
  ASSUME SearchInv, Ends, Dedup
  PROVE  Abstract!Deepen \/ Abstract!Solve
<1>0. PICK n \in Nat \ {0} : n = Len(keys_by_depth) /\ Depths = 1 .. n
  BY DepthsAreDepths DEF SearchInv, IInv
<1>1. pc = "dedup" /\ setup' = setup /\ win' = win
  BY DEF Dedup, visiting
<1>2. AbsLayers = keys_by_depth /\ AbsAnswer = -1
  BY <1>1 DEF AbsLayers, AbsAnswer
<1>a. Abstract!Frontier = LastRun
  BY <1>2 DEF AbsLayers, Abstract!Frontier, LastRun
<1>b. Abstract!Ahead(Abstract!Frontier) = Ahead(LastRun)
  <2>1. Abstract!Ahead(LastRun) = Ahead(LastRun)
    BY DEF Abstract!Ahead, Ahead, Abstract!Range, Range
  <2> QED
    BY <1>a, <2>1
<1>3. CASE ~win
  <2>1. /\ Ahead(LastRun) \intersect setup.wins = {}
        /\ keys_by_depth' = Append(keys_by_depth, Ahead(LastRun) \ all_keys)
    BY <1>3, DedupDeepens DEF SearchInv, IInv, MoreInv
  <2>2. pc' = "iterate"
    BY <1>3 DEF Dedup
  <2>3. AbsLayers' = keys_by_depth' /\ AbsAnswer' = -1
    BY <2>2 DEF AbsLayers, AbsAnswer
  <2>4. LastRun # {}
    BY <1>1, FrontierNotEmpty
  <2>5. Abstract!Discovered = all_keys
    <3>1. all_keys = UNION {keys_by_depth[d] : d \in DOMAIN keys_by_depth}
      BY DEF SearchInv, IInv, EachKeyOnce, Depths, Run
    <3>2. Abstract!Discovered = UNION {AbsLayers[d] : d \in DOMAIN AbsLayers}
      BY DEF Abstract!Discovered, AbsLayers
    <3> QED
      BY <1>2, <3>1, <3>2
  <2>6. /\ AbsLayers' = Append(AbsLayers, Ahead(LastRun) \ all_keys)
        /\ AbsAnswer = -1 /\ UNCHANGED <<setup, AbsAnswer>>
    BY <1>1, <1>2, <2>1, <2>3
  <2>7. Abstract!Deepen
    BY <1>a, <1>b, <2>1, <2>4, <2>5, <2>6
       DEF AbsLayers, AbsAnswer, Abstract!Deepen, Abstract!Searching
  <2> QED
    BY <2>7
<1>4. CASE win
  <2>1. PICK run \in Packings(new_pairs) : keys_by_depth' = Append(keys_by_depth, Fresh(run))
    BY DEF Dedup
  <2>2. pc' = "trace"
    BY <1>4 DEF Dedup
  <2>3. Fresh(run) \in SUBSET Key
    BY PackingsKeepPairs DEF SearchInv, IInv, TypeOK, Fresh
  <2>4. AbsLayers' = keys_by_depth
    <3>1. AbsLayers' = SubSeq(keys_by_depth', 1, Len(keys_by_depth') - 1)
      BY <1>1, <1>4, <2>2 DEF AbsLayers
    <3>2. keys_by_depth \in Seq(SUBSET Key)
      BY DEF SearchInv, IInv, TypeOK
    <3> QED
      BY <2>1, <2>3, <3>1, <3>2, WithoutAppended
  <2>5. AbsAnswer' = n
    <3>1. Len(keys_by_depth') = n + 1
      BY <1>0, DedupAppends DEF SearchInv, IInv
    <3> QED
      BY <2>2, <3>1 DEF AbsAnswer
  <2>6. Ahead(LastRun) \intersect setup.wins # {}
    BY <1>1, <1>4 DEF SearchInv, IInv, CollectedNameParents, HasParent, Ahead, Run, LastRun
  <2>7. /\ AbsAnswer' = Len(AbsLayers) /\ AbsAnswer = -1
        /\ UNCHANGED <<setup, AbsLayers>>
    BY <1>0, <1>1, <1>2, <2>4, <2>5
  <2>8. Abstract!Solve
    BY <1>b, <2>6, <2>7 DEF AbsLayers, AbsAnswer, Abstract!Solve, Abstract!Searching
  <2> QED
    BY <2>8
<1> QED
  BY <1>3, <1>4

LEMMA StepImplements ==
  ASSUME SearchInv, Ends, [Next]_vars
  PROVE  Abstract!Next \/ UNCHANGED <<setup, AbsLayers, AbsAnswer>>
<1> USE DEF SearchInv, MoreInv
<1>1. CASE Dedup
  BY <1>1, DedupImplements DEF Abstract!Next
<1>2. CASE GiveUp
  <2>1. /\ pc = "iterate" /\ pc' = "done" /\ result' = 0 /\ ~win /\ ~win' /\ LastRun = {}
        /\ UNCHANGED <<setup, keys_by_depth>>
    BY <1>2 DEF GiveUp, WinIsTraced, NoBytes, visiting, data
  <2>2. /\ AbsLayers = keys_by_depth /\ AbsLayers' = keys_by_depth
        /\ AbsAnswer = -1 /\ AbsAnswer' = 0
    BY <2>1 DEF AbsLayers, AbsAnswer
  <2>3. Abstract!GiveUp
    BY <2>1, <2>2 DEF AbsLayers, AbsAnswer, Abstract!GiveUp, Abstract!Searching, Abstract!Frontier, LastRun
  <2> QED
    BY <2>3 DEF Abstract!Next
<1>3. CASE StartIteration \/ Visit \/ EndVisit
  <2>1. /\ pc \notin {"trace", "done"} /\ pc' \notin {"trace", "done"}
        /\ UNCHANGED <<setup, keys_by_depth>>
    BY <1>3 DEF StartIteration, Visit, EndVisit, data
  <2> QED
    BY <2>1 DEF AbsLayers, AbsAnswer
<1>4. CASE TraceBack \/ TraceEnd
  <2>1. /\ pc = "trace" /\ win /\ win'
        /\ pc' = "trace" \/ (pc' = "done" /\ result' = Len(keys_by_depth) - 1)
        /\ UNCHANGED <<setup, keys_by_depth>>
    BY <1>4 DEF TraceBack, TraceEnd, WinIsTraced, data, visiting
  <2> QED
    BY <2>1 DEF AbsLayers, AbsAnswer
<1>5. CASE UNCHANGED vars
  BY <1>5 DEF vars, data, visiting, tracing, AbsLayers, AbsAnswer
<1> QED
  BY <1>1, <1>2, <1>3, <1>4, <1>5 DEF Next

\* The search is the abstract one, on every puzzle that has a solution, and
\* on every puzzle when its runs are not compressed.
THEOREM SearchImplements == Spec /\ Ends => Implements
<1>1. Init => Abstract!Init
  BY DEF Init, Abstract!Init, Abstract!Searching
<1>2. SearchInv /\ Ends /\ [Next]_vars => [Abstract!Next]_<<setup, AbsLayers, AbsAnswer>>
  BY StepImplements
<1>3. Ends /\ [Next]_vars => Ends'
  <2>1. [Next]_vars => setup' = setup
    BY DEF Next, vars, StartIteration, GiveUp, Visit, EndVisit, Dedup, TraceBack, TraceEnd
  <2> QED
    BY <2>1 DEF Ends, Solvable, Ahead
<1> QED
  BY <1>1, <1>2, <1>3, SearchInvariance, PTL
     DEF Spec, Implements, Abstract!Spec, AbsLayers, AbsAnswer

-----------------------------------------------------------------------------
(***************************************************************************)
(* search returns the length of a shortest solution.                       *)
(***************************************************************************)
LEMMA WithinEquation ==
  ASSUME setup \in Setups
  PROVE  /\ Within[0] = {setup.start}
         /\ \A n \in Nat : Within[n + 1] = Within[n] \union Ahead(Within[n])
<1> DEFINE sets == SUBSET Key
           base == {setup.start}
           step == [p \in Nat \X sets |-> p[2] \union Ahead(p[2])]
<1>1. setup.start \in Key /\ setup.moves \in [Key -> Seq(Key)]
  BY SetupIsPuzzle
<1>2. \A S \in SUBSET Key : Ahead(S) \in SUBSET Key
  <2>1. \A k \in Key : Range(setup.moves[k]) \subseteq Key
    BY <1>1 DEF Range
  <2> QED
    BY <2>1 DEF Ahead
<1>3. step \in [Nat \X sets -> sets] /\ base \in sets
  BY <1>1, <1>2
<1>4. PICK f : Recurs(f, sets, base, step)
  <2> HIDE DEF sets, base, step
  <2> QED
    BY <1>3, PrimitiveRecursion
<1>5. \A n \in Nat \ {0} : f[n] = f[n - 1] \union Ahead(f[n - 1])
  <2> TAKE n \in Nat \ {0}
  <2>1. n - 1 \in Nat
    OBVIOUS
  <2>2. f[n - 1] \in sets /\ f[n] = step[<<n, f[n - 1]>>]
    BY <1>4, <2>1 DEF Recurs
  <2> HIDE DEF sets
  <2> QED
    BY <2>2
<1>6. f = [n \in Nat |->
             IF n = 0 THEN {setup.start} ELSE f[n - 1] \union Ahead(f[n - 1])]
  BY <1>4, <1>5 DEF Recurs
<1>7. Within = [n \in Nat |->
                  IF n = 0 THEN {setup.start} ELSE Within[n - 1] \union Ahead(Within[n - 1])]
  BY <1>6 DEF Within, Ahead
<1>8. \A n \in Nat : Within[n] = IF n = 0 THEN {setup.start}
                                          ELSE Within[n - 1] \union Ahead(Within[n - 1])
  BY <1>7
<1>9. \A n \in Nat : n + 1 \in Nat /\ n + 1 # 0 /\ (n + 1) - 1 = n
  OBVIOUS
<1>10. \A n \in Nat : Within[n + 1] = Within[n] \union Ahead(Within[n])
  BY <1>8, <1>9
<1> QED
  BY <1>8, <1>10

\* What is at most n moves from the start are the states of the first n + 1
\* complete runs.
LEMMA WithinIsUpTo ==
  ASSUME SearchInv
  PROVE  \A n \in Nat : n < Complete => Within[n] = UpTo(n + 1)
<1> DEFINE S == {n \in Nat : n < Complete => Within[n] = UpTo(n + 1)}
<1>0. setup \in Setups /\ Complete \in Nat
  BY DepthsAreDepths DEF SearchInv, IInv, TypeOK, Complete
<1>1. 0 \in S
  BY <1>0, WithinEquation DEF SearchInv, IInv, StartsAtStart, UpTo
<1>2. ASSUME NEW n \in Nat, n \in S PROVE n + 1 \in S
  <2> SUFFICES ASSUME n + 1 < Complete PROVE Within[n + 1] = UpTo(n + 2)
    OBVIOUS
  <2>1. Within[n + 1] = UpTo(n + 1) \union Ahead(UpTo(n + 1))
    BY <1>0, <1>2, WithinEquation
  <2>2. \A d \in 1 .. (n + 1) : Run(d + 1) = Ahead(Run(d)) \ UpTo(d)
    BY <1>0 DEF SearchInv, MoreInv, Layered
  <2>3. UpTo(n + 2) = UpTo(n + 1) \union Run(n + 2)
    <3>1. 1 .. (n + 2) = (1 .. (n + 1)) \union {n + 2}
      OBVIOUS
    <3> QED
      BY <3>1 DEF UpTo
  <2>4. ASSUME NEW d \in 1 .. (n + 1) PROVE Ahead(Run(d)) \subseteq UpTo(n + 2)
    <3>1. d + 1 \in 1 .. (n + 2) /\ 1 .. d \subseteq 1 .. (n + 2)
      OBVIOUS
    <3>2. Run(d + 1) \subseteq UpTo(n + 2) /\ UpTo(d) \subseteq UpTo(n + 2)
      BY <3>1 DEF UpTo
    <3> QED
      BY <2>2, <3>2
  <2>5. Ahead(UpTo(n + 1)) \subseteq UpTo(n + 2)
    BY <2>4 DEF Ahead, UpTo
  <2>6. Run(n + 2) \subseteq Ahead(UpTo(n + 1))
    <3>1. n + 1 \in 1 .. (n + 1) /\ (n + 1) + 1 = n + 2
      OBVIOUS
    <3>2. Run(n + 2) \subseteq Ahead(Run(n + 1))
      BY <2>2, <3>1
    <3> QED
      BY <3>1, <3>2 DEF Ahead, UpTo
  <2> QED
    BY <2>1, <2>3, <2>5, <2>6
<1> HIDE DEF S
<1>3. \A n \in Nat : n \in S
  BY <1>1, <1>2, NaturalInduction
<1> QED
  BY <1>3 DEF S

\* There are not more depths than states.
LEMMA DepthsBounded ==
  ASSUME SearchInv, Ahead(Run(Complete)) # {}
  PROVE  Complete <= Cardinality(Key)
<1>0. PICK n \in Nat : n = Complete /\ n > 0 /\ 1 .. n \subseteq Depths
  BY DepthsAreDepths DEF SearchInv, IInv, MoreInv, Layered, Complete
<1>1. \A d \in 1 .. n : Run(d) \subseteq Key
  BY <1>0 DEF SearchInv, IInv, TypeOK, Run, Depths
<1>2. \A d \in 1 .. n : Run(d) # {}
  <2> DEFINE T == {d \in 1 .. n : Run(d) = {}}
  <2>1. SUFFICES ASSUME T # {} PROVE FALSE
    OBVIOUS
  <2>2. PICK d \in T : \A c \in T : c <= d
    <3>1. T \subseteq Nat /\ \A c \in T : c <= n
      OBVIOUS
    <3> HIDE DEF T
    <3> QED
      BY <1>0, <2>1, <3>1, GreatestNatural
  <2>3. d # n
    BY <1>0, <2>2 DEF Ahead
  <2>4. d + 1 \in 1 .. n /\ d \in 1 .. (n - 1)
    BY <2>2, <2>3
  <2>5. Run(d + 1) = {}
    BY <1>0, <2>2, <2>4 DEF SearchInv, MoreInv, Layered, Ahead
  <2>6. d + 1 <= d
    BY <2>2, <2>4, <2>5
  <2> QED
    BY <2>2, <2>6
<1> DEFINE f == [d \in 1 .. n |-> CHOOSE k \in Run(d) : TRUE]
<1>3. \A d \in 1 .. n : f[d] \in Run(d)
  BY <1>2
<1> HIDE DEF f
<1>4. f \in [1 .. n -> Key]
  BY <1>1, <1>3 DEF f
<1>5. \A c, d \in 1 .. n : f[c] = f[d] => c = d
  BY <1>0, <1>3 DEF SearchInv, IInv, EachKeyOnce
<1>6. f \in Injection(1 .. n, Key)
  BY <1>4, <1>5 DEF Injection, IsInjective
<1>7. Cardinality(1 .. n) <= Cardinality(Key) /\ Cardinality(1 .. n) = n
  BY <1>0, <1>6, FS_Injection, FS_Interval, SearchAssumption
<1> QED
  BY <1>0, <1>7

\* search returns the length of a shortest solution, or 0 if there is none:
\* a win is seen at the least depth at which there is one, whichever order
\* the moves have and wherever the batches end.
THEOREM FindsShortest == Spec => []ShortestSolution
<1>1. ASSUME SearchInv, pc = "done", win PROVE ShortestSolution
  <2>1. PICK n \in Nat : n = Complete /\ n > 0 /\ result = n
    <3>1. Complete = Len(keys_by_depth) - 1 /\ result = Len(keys_by_depth) - 1
      BY <1>1 DEF SearchInv, MoreInv, Answered, Complete
    <3>2. Complete > 0 /\ Len(keys_by_depth) \in Nat
      BY <1>1, DepthsAreDepths DEF SearchInv, IInv, MoreInv, Layered
    <3> QED
      BY <3>1, <3>2
  <2>2. Ahead(Run(n)) \intersect setup.wins # {}
    BY <1>1, <2>1 DEF SearchInv, MoreInv, Answered
  <2>3. n <= Cardinality(Key) /\ Cardinality(Key) \in Nat
    BY <1>1, <2>1, <2>2, DepthsBounded, FS_CardinalityType, SearchAssumption
  <2>4. \A d \in 1 .. n : Run(d) \intersect setup.wins = {}
    BY <1>1, <2>1 DEF SearchInv, MoreInv, Layered
  <2>5. setup \in Setups
    BY <1>1 DEF SearchInv, IInv, TypeOK
  <2>6. Within[n] \intersect setup.wins # {}
    <3>1. n - 1 \in Nat /\ n - 1 < n /\ (n - 1) + 1 = n
      BY <2>1
    <3>2. Within[n - 1] = UpTo(n)
      BY <1>1, <2>1, <3>1, WithinIsUpTo
    <3>3. Within[n] = UpTo(n) \union Ahead(UpTo(n))
      BY <2>5, <3>1, <3>2, WithinEquation
    <3>4. Ahead(Run(n)) \subseteq Ahead(UpTo(n))
      BY <2>1 DEF UpTo, Ahead
    <3> QED
      BY <2>2, <3>3, <3>4
  <2>7. ASSUME NEW m \in Nat, m < n PROVE Within[m] \intersect setup.wins = {}
    <3>1. Within[m] = UpTo(m + 1)
      BY <1>1, <2>1, <2>7, WithinIsUpTo
    <3>2. 1 .. (m + 1) \subseteq 1 .. n
      BY <2>7
    <3> QED
      BY <2>4, <3>1, <3>2 DEF UpTo
  <2> DEFINE solved == {m \in 1 .. Cardinality(Key) : Within[m] \intersect setup.wins # {}}
  <2>8. n \in solved /\ \A m \in solved : n <= m
    BY <2>1, <2>3, <2>6, <2>7
  <2> QED
    BY <2>1, <2>8 DEF ShortestSolution, Least
<1>2. ASSUME SearchInv, pc = "done", ~win PROVE ShortestSolution
  <2>1. result = 0 /\ LastRun = {} /\ Complete = Len(keys_by_depth) /\ setup \in Setups
    BY <1>2 DEF SearchInv, IInv, TypeOK, MoreInv, Answered, Complete
  <2>2. /\ setup.start \in all_keys /\ Ahead(all_keys) \subseteq all_keys
        /\ all_keys \intersect setup.wins = {}
    BY <1>2, <2>1, FoundAll
  <2> DEFINE S == {n \in Nat : Within[n] \subseteq all_keys}
  <2>3. 0 \in S
    BY <2>1, <2>2, WithinEquation
  <2>4. ASSUME NEW n \in Nat, n \in S PROVE n + 1 \in S
    <3>1. Ahead(Within[n]) \subseteq Ahead(all_keys)
      BY <2>4 DEF Ahead
    <3> QED
      BY <2>1, <2>2, <2>4, <3>1, WithinEquation
  <2>5. \A n \in Nat : n \in S
    <3> HIDE DEF S
    <3> QED
      BY <2>3, <2>4, NaturalInduction
  <2>6. Cardinality(Key) \in Nat
    BY FS_CardinalityType, SearchAssumption
  <2>7. {m \in 1 .. Cardinality(Key) : Within[m] \intersect setup.wins # {}} = {}
    BY <2>2, <2>5, <2>6
  <2> QED
    BY <2>1, <2>7 DEF ShortestSolution
<1>3. SearchInv => ShortestSolution
  BY <1>1, <1>2 DEF ShortestSolution
<1> QED
  BY <1>3, SearchInvariance, PTL

=============================================================================
