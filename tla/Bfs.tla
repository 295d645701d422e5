-------------------------------- MODULE Bfs --------------------------------
(***************************************************************************)
(* BreadthFirstSearch (search.h): a breadth first search that keeps every  *)
(* packed state it knows in sorted, deduplicated runs, and walks back from *)
(* the winning state when there is one.                                    *)
(*                                                                         *)
(* A packed state is a key, a number, so that the runs have their order.   *)
(* A run is the set of its keys, or the function from its keys to their    *)
(* values when it has values.  How the runs are merged and encoded is not  *)
(* part of this module, with one exception: whether a run without keys is  *)
(* also without bytes, which the search asks.                              *)
(***************************************************************************)
EXTENDS Integers, Sequences, FiniteSets, Functions

CONSTANTS
  Key,         \* packed states
  NullKey,     \* the one whose bytes are all 0: a Key never assigned to
  HashByte,    \* the values: one byte of a hash code
  Hash,        \* Key::hash() & 0xff
  BatchLimit,  \* most new states to collect before packing them
  Setups       \* the puzzles: records with a start, the moves and the wins,
               \* and whether the runs are compressed with zstd

\* Every state without snakes wins, and the one that packs to NullKey has none.
ASSUME SearchAssumption ==
  /\ Key \subseteq Nat /\ IsFiniteSet(Key)
  /\ NullKey \in Key
  /\ 0 \in HashByte
  /\ Hash \in [Key -> HashByte]
  /\ BatchLimit \in Nat
  /\ \A s \in Setups : /\ s.start \in Key \ s.wins
                       /\ s.moves \in [Key -> Seq(Key)]
                       /\ s.wins \subseteq Key
                       /\ NullKey \in s.wins
                       /\ s.compress \in BOOLEAN

VARIABLES
  setup,            \* the puzzle being solved, and the template argument Compress
  keys_by_depth,    \* the keys found at each depth
  values_by_depth,  \* for each of them, the hash of a state it was reached from
  all_keys,         \* the same keys in a single run
  new_states,       \* <<key, value>> collected and not packed yet
  new_pairs,        \* <<key, value>> packed in runs of new_keys and new_values
  todo,             \* the keys of the last depth that are still to be visited
  win, win_state,   \* whether a winning state was seen, and the last one seen
  pc,               \* where the search is
  target, depth,    \* the state trace_solution_path is at, and its depth
  path,             \* the states given to Policy::trace, the first one first
  result            \* what search returns

data == <<keys_by_depth, values_by_depth, all_keys>>
visiting == <<new_states, new_pairs, todo, win, win_state>>
tracing == <<target, depth, path, result>>
vars == <<setup, data, visiting, pc, tracing>>

Least(k, S) == k \in S /\ \A j \in S : k <= j

LastRun == keys_by_depth[Len(keys_by_depth)]

-----------------------------------------------------------------------------
(***************************************************************************)
(* Packing.  Of several pairs with one key an arbitrary one is kept.  The  *)
(* search for duplicates compares with an all-zero key first, which drops  *)
(* a pair that really has this key.                                        *)
(***************************************************************************)
KeysOf(pairs) == {p[1] : p \in pairs}

Packings(pairs) ==
  {run \in [KeysOf(pairs) \ {NullKey} -> HashByte] :
     \A k \in DOMAIN run : <<k, run[k]>> \in pairs}

PairsOf(run) == {<<k, run[k]>> : k \in DOMAIN run}

-----------------------------------------------------------------------------
(***************************************************************************)
(* search: one iteration for each depth.                                   *)
(***************************************************************************)
NoPair == <<NullKey, 0>>

Init ==
  /\ setup \in Setups
  /\ keys_by_depth = << {setup.start} >>
  /\ values_by_depth = << [k \in {setup.start} |-> 0] >>
  /\ all_keys = {setup.start}
  /\ new_states = {} /\ new_pairs = {} /\ todo = {}
  /\ win = FALSE /\ win_state = NoPair
  /\ pc = "iterate"
  /\ target = NoPair /\ depth = 0 /\ path = <<>> /\ result = 0

\* A compressed run has the bytes of at least one zstd frame, keys or not.
NoBytes(run) == run = {} /\ ~setup.compress

StartIteration ==
  /\ pc = "iterate"
  /\ ~NoBytes(LastRun)
  /\ todo' = LastRun
  /\ new_states' = {} /\ new_pairs' = {}
  /\ win' = FALSE
  /\ pc' = "visit"
  /\ UNCHANGED <<setup, data, win_state, tracing>>

\* Mutant: the loop goes on instead of returning.
MutGiveUp == pc = "iterate" /\ NoBytes(LastRun) /\ UNCHANGED vars

GiveUp ==
  /\ pc = "iterate"
  /\ NoBytes(LastRun)
  /\ result' = 0
  /\ pc' = "done"
  /\ UNCHANGED <<setup, data, visiting, target, depth, path>>

\* The moves of k that are looked at: do_valid_moves stops at the first win.
Offered(k) ==
  {m \in DOMAIN setup.moves[k] : \A n \in 1 .. (m - 1) : setup.moves[k][n] \notin setup.wins}

Winning(k) == {m \in Offered(k) : setup.moves[k][m] \in setup.wins}

\* Mutant: the hash of the new state, not of its parent.
MutGenerated(k) == {<<setup.moves[k][m], Hash[setup.moves[k][m]]>> : m \in Offered(k)}

Generated(k) == {<<setup.moves[k][m], Hash[k]>> : m \in Offered(k)}

\* Mutant: a full batch is dropped.
MutCollect(pairs) ==
  /\ new_states' = IF Cardinality(pairs) > BatchLimit THEN {} ELSE pairs
  /\ UNCHANGED new_pairs

Collect(pairs) ==
  IF Cardinality(pairs) > BatchLimit
    THEN /\ \E run \in Packings(pairs) : new_pairs' = new_pairs \union PairsOf(run)
         /\ new_states' = {}
    ELSE new_states' = pairs /\ UNCHANGED new_pairs

\* A win does not end the iteration: the other states are visited too.
Visit ==
  /\ pc = "visit"
  /\ \E k \in todo :
       /\ Least(k, todo)
       /\ todo' = todo \ {k}
       /\ IF Winning(k) = {}
            THEN UNCHANGED <<win, win_state>>
            ELSE /\ win' = TRUE
                 /\ \E m \in Winning(k) : win_state' = <<setup.moves[k][m], Hash[k]>>
       /\ Collect(new_states \union Generated(k))
  /\ UNCHANGED <<setup, data, pc, tracing>>

EndVisit ==
  /\ pc = "visit"
  /\ todo = {}
  /\ \E run \in Packings(new_states) : new_pairs' = new_pairs \union PairsOf(run)
  /\ new_states' = {}
  /\ pc' = "dedup"
  /\ UNCHANGED <<setup, data, todo, win, win_state, tracing>>

\* Mutant: only the last depth is looked at for duplicates.
MutFresh(run) == DOMAIN run \ LastRun

\* The keys of a run that are seen for the first time.
Fresh(run) == DOMAIN run \ all_keys

\* Mutant: the values of the duplicates are written too.
MutFreshValues(run) == run

FreshValues(run) == [k \in Fresh(run) |-> run[k]]

\* What is in new_pairs and not in all_keys is the run of the next depth.
Dedup ==
  /\ pc = "dedup"
  /\ \E run \in Packings(new_pairs) :
       /\ keys_by_depth' = Append(keys_by_depth, Fresh(run))
       /\ values_by_depth' = Append(values_by_depth, FreshValues(run))
       /\ all_keys' = all_keys \union Fresh(run)
  /\ IF win THEN /\ pc' = "trace"
                 /\ target' = win_state
                 /\ depth' = Len(keys_by_depth)
            ELSE pc' = "iterate" /\ UNCHANGED <<target, depth>>
  /\ UNCHANGED <<setup, visiting, path, result>>

-----------------------------------------------------------------------------
(***************************************************************************)
(* trace_solution_path: for each depth, the first state whose hash is the  *)
(* value of the target and that has a move to the target.                  *)
(***************************************************************************)
\* Mutant: the run of the target itself is searched.
MutParentsDepth ==
  {k \in keys_by_depth[depth + 1] : Hash[k] = target[2] /\ target[1] \in Range(setup.moves[k])}

\* Mutant: the hash is taken for proof.
MutParentsHash == {k \in keys_by_depth[depth] : Hash[k] = target[2]}

Parents ==
  {k \in keys_by_depth[depth] : Hash[k] = target[2] /\ target[1] \in Range(setup.moves[k])}

TraceBack ==
  /\ pc = "trace"
  /\ depth > 0
  /\ path' = <<target[1]>> \o path
  /\ \E k \in Parents : Least(k, Parents) /\ target' = <<k, values_by_depth[depth][k]>>
  /\ depth' = depth - 1
  /\ UNCHANGED <<setup, data, visiting, pc, result>>

\* Mutant: search returns the number of states, not of moves.
MutTraceEnd ==
  /\ pc = "trace"
  /\ depth = 0
  /\ path' = <<target[1]>> \o path
  /\ result' = Len(keys_by_depth)
  /\ pc' = "done"
  /\ UNCHANGED <<setup, data, visiting, target, depth>>

TraceEnd ==
  /\ pc = "trace"
  /\ depth = 0
  /\ path' = <<target[1]>> \o path
  /\ result' = Len(keys_by_depth) - 1
  /\ pc' = "done"
  /\ UNCHANGED <<setup, data, visiting, target, depth>>

Next ==
  \/ StartIteration \/ GiveUp \/ Visit \/ EndVisit \/ Dedup
  \/ TraceBack \/ TraceEnd

Spec == Init /\ [][Next]_vars

\* One thread, which does not stop before search returns.
FairSpec == Spec /\ WF_vars(Next)

-----------------------------------------------------------------------------
(***************************************************************************)
(* Properties.                                                             *)
(***************************************************************************)
Run(d) == keys_by_depth[d]

Depths == DOMAIN keys_by_depth

\* Every variable holds a value of its kind; values_by_depth has a value for
\* every key of keys_by_depth, and for no other.
TypeOK ==
  /\ setup \in Setups
  /\ keys_by_depth \in Seq(SUBSET Key) /\ Len(keys_by_depth) > 0
  /\ Len(values_by_depth) = Len(keys_by_depth)
  /\ \A d \in Depths : values_by_depth[d] \in [Run(d) -> HashByte]
  /\ all_keys \subseteq Key /\ todo \subseteq Key
  /\ new_states \subseteq Key \X HashByte /\ new_pairs \subseteq Key \X HashByte
  /\ win \in BOOLEAN
  /\ win_state \in Key \X HashByte /\ target \in Key \X HashByte
  /\ pc \in {"iterate", "visit", "dedup", "trace", "done"}
  /\ depth \in Nat /\ result \in Nat
  /\ path \in Seq(Key)

\* Each state is in keys_by_depth just once (search.h:142-145), and all_keys
\* holds the states of all its runs, which is what dedup compares with.
EachKeyOnce ==
  /\ \A c, d \in Depths : c # d => Run(c) \intersect Run(d) = {}
  /\ all_keys = UNION {Run(d) : d \in Depths}

\* A state of run d has this hash, and a move to this key.
HasParent(k, hash, d) ==
  \E p \in Run(d) : Hash[p] = hash /\ k \in Range(setup.moves[p])

\* The value of a state names, up to a collision of hashes, a state of the
\* depth before that has a move to it, whichever duplicate was kept.
ValuesNameParents ==
  \A d \in Depths \ {1} : \A k \in Run(d) : HasParent(k, values_by_depth[d][k], d - 1)

\* trace_solution_path finds a parent at every depth (assert, search.h:317).
FoundNext == pc = "trace" /\ depth > 0 => Parents # {}

\* What is given to Policy::trace is a solution: it leads by moves from the
\* start to a state that wins, and has as many moves as search returns.
PathIsSolution ==
  pc = "done" /\ win =>
    /\ Len(path) = result + 1
    /\ path[1] = setup.start
    /\ path[Len(path)] \in setup.wins
    /\ \A i \in 1 .. result : path[i + 1] \in Range(setup.moves[path[i]])

\* The states at most n moves from the start.
Within[n \in Nat] ==
  IF n = 0 THEN {setup.start}
           ELSE Within[n - 1] \union UNION {Range(setup.moves[k]) : k \in Within[n - 1]}

\* search returns the length of a shortest solution, or 0 if there is none.
ShortestSolution ==
  pc = "done" =>
    LET solved == {n \in 1 .. Cardinality(Key) : Within[n] \intersect setup.wins # {}}
    IN  IF solved = {} THEN result = 0 ELSE Least(result, solved)

\* Nothing is visited when there is nothing to visit: with no moves left to
\* process the search returns ("We haven't won, and have no moves to
\* process.", search.h:186-189).
VisitsSomething == pc = "visit" => LastRun # {}

\* search returns.
Returns == <>(pc = "done")

\* The search is the abstract one.  The run written in the iteration that
\* finds a win is incomplete and is not one of its layers.
Abstract ==
  INSTANCE LevelSearch WITH
    layers <- IF pc \in {"trace", "done"} /\ win
                THEN SubSeq(keys_by_depth, 1, Len(keys_by_depth) - 1) ELSE keys_by_depth,
    answer <- IF pc = "trace" THEN Len(keys_by_depth) - 1
              ELSE IF pc = "done" THEN result ELSE -1

Implements == Abstract!Spec

=============================================================================
