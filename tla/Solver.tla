------------------------------- MODULE Solver -------------------------------
(***************************************************************************)
(* The program of a level: main solves the puzzle of module StatePacking   *)
(* with the search of module Bfs.  The two meet in do_valid_moves, which   *)
(* the search calls on every state it visits and, to walk back from a win, *)
(* on every state that may be the parent of the next: a state is unpacked, *)
(* each snake is moved in each direction, and each state that results is   *)
(* handed to a callback, which packs it again.  Here a move takes as many  *)
(* steps as in module Snakebird, and the search waits for it.              *)
(*                                                                         *)
(* Bfs has the moves of a state in a table.  Its actions that use the      *)
(* table are replaced by steps of do_valid_moves; the others are its own.  *)
(***************************************************************************)
EXTENDS StatePacking

CONSTANTS
  HashByte, Hash, BatchLimit,  \* as in Bfs
  Expected                     \* what main expects of search

VARIABLES
  keys_by_depth, values_by_depth, all_keys, new_states, new_pairs, todo, won, win_state,
  pc, target, depth, path, result,  \* as in Bfs; todo is also the stream of possible parents
  visited,                          \* the state whose do_valid_moves is running, or None
  tried,                            \* its next move to look at
  moved                             \* whether a move is being made from it

None == -1

NullKey == 0

search_vars ==
  <<keys_by_depth, values_by_depth, all_keys, new_states, new_pairs, todo, won, win_state,
    pc, target, depth, path, result>>
call == <<visited, tried, moved>>
all_vars == <<packing_vars, search_vars, call>>

PackedKey == KeyFrom(Packed)

\* The search, for the parts that do not need the moves; compressed as it is
\* in main.
Search ==
  INSTANCE Bfs WITH
    Key    <- Nat,
    Setups <- {},
    setup  <- [compress |-> TRUE],
    win    <- won

InitSolver ==
  /\ InitPacking
  /\ keys_by_depth = << {PackedKey} >>
  /\ values_by_depth = << [k \in {PackedKey} |-> 0] >>
  /\ all_keys = {PackedKey}
  /\ new_states = {} /\ new_pairs = {} /\ todo = {}
  /\ won = FALSE /\ win_state = <<NullKey, 0>>
  /\ pc = "iterate"
  /\ target = <<NullKey, 0>> /\ depth = 0 /\ path = <<>> /\ result = 0
  /\ visited = None /\ tried = 0 /\ moved = FALSE

-----------------------------------------------------------------------------
(***************************************************************************)
(* do_valid_moves(fun).  Every move starts from a copy of the state it is  *)
(* called on.                                                              *)
(***************************************************************************)
dirs == <<"UP", "RIGHT", "DOWN", "LEFT">>

MoveCount == 4 * SnakeCount

\* The state that is packed in key, and nothing under way.
Load(key) ==
  LET st == Unpacked(BytesOf(key))
  IN  /\ snakes' = st.snakes /\ tail_' = st.tail_
      /\ fruit' = st.fruit /\ gadgets' = st.gadgets
      /\ phase' = "moves" /\ orig_tele_mask' = {} /\ recompute_falling' = {}

Call(key) ==
  /\ Load(key)
  /\ visited' = key /\ tried' = 0 /\ moved' = FALSE

\* Move n is one of a snake, in one of the directions.
Mover(n) == (n \div 4) + 1
Heading(n) == dirs[(n % 4) + 1]

\* The snake has exited, or none of is_valid_grow, is_valid_move and
\* is_valid_push.
Blocked(s, delta) ==
  snakes[s] # <<>> =>
  LET to == snakes[s][1] + delta
  IN  /\ to \notin fruit
      /\ ~ (no_object_at(to) /\ empty_terrain_at(to))
      /\ PushMapObjectsAt(s, to) = {} \/ PushableSets(s, delta) = {}

MovesLeft ==
  {n \in tried .. (MoveCount - 1) : ~ Blocked(Mover(n), apply_direction[Heading(n)])}

TryMove ==
  /\ visited # None /\ ~moved /\ MovesLeft # {}
  /\ LET n == Min(MovesLeft)
     IN  MoveIn(Mover(n), Heading(n)) /\ tried' = n + 1
  /\ moved' = TRUE
  /\ UNCHANGED <<visited, search_vars>>

RunPhysics ==
  /\ phase \notin {"moves", "lost", "undefined"}
  /\ PhysicsStep
  /\ UNCHANGED <<call, search_vars>>

\* On with the next move, or with none when the callback returned true.
GoOn == Load(visited) /\ moved' = FALSE /\ UNCHANGED <<visited, tried>>
Return == Load(visited) /\ moved' = FALSE /\ tried' = MoveCount /\ UNCHANGED visited

\* process_gravity returned false: the callback does not get to see the state.
DropLost ==
  /\ phase = "lost"
  /\ GoOn
  /\ UNCHANGED search_vars

\* The physics is over: fun is called.
InCallback == moved /\ phase = "moves"

Done == visited # None /\ ~moved /\ MovesLeft = {}

-----------------------------------------------------------------------------
(***************************************************************************)
(* visit_states.                                                           *)
(***************************************************************************)
Visit ==
  /\ pc = "visit" /\ visited = None
  /\ \E k \in todo : Search!Least(k, todo) /\ Call(k) /\ todo' = todo \ {k}
  /\ UNCHANGED <<keys_by_depth, values_by_depth, all_keys, new_states, new_pairs, won, win_state,
                 pc, target, depth, path, result>>

Collect ==
  /\ pc = "visit" /\ InCallback
  /\ new_states' = new_states \union {<<PackedKey, Hash[visited]>>}
  /\ IF win THEN /\ won' = TRUE /\ win_state' = <<PackedKey, Hash[visited]>>
                 /\ Return
            ELSE UNCHANGED <<won, win_state>> /\ GoOn
  /\ UNCHANGED <<keys_by_depth, values_by_depth, all_keys, new_pairs, todo,
                 pc, target, depth, path, result>>

Visited ==
  /\ pc = "visit" /\ Done
  /\ Search!Collect(new_states)
  /\ visited' = None
  /\ UNCHANGED <<packing_vars, tried, moved, keys_by_depth, values_by_depth, all_keys, todo, won,
                 win_state, pc, target, depth, path, result>>

\* search and dedup, between calls of do_valid_moves.
SearchStep ==
  /\ visited = None
  /\ \/ Search!StartIteration \/ Search!GiveUp
     \/ Search!EndVisit \/ Search!Dedup \/ Search!TraceEnd
  /\ UNCHANGED <<packing_vars, call>>

-----------------------------------------------------------------------------
(***************************************************************************)
(* trace_solution_path.                                                    *)
(***************************************************************************)
TraceDepth ==
  /\ pc = "trace" /\ depth > 0
  /\ path' = <<target[1]>> \o path
  /\ todo' = {k \in keys_by_depth[depth] : Hash[k] = target[2]}
  /\ pc' = "parents"
  /\ UNCHANGED <<packing_vars, call, keys_by_depth, values_by_depth, all_keys, new_states,
                 new_pairs, won, win_state, target, depth, result>>

TryParent ==
  /\ pc = "parents" /\ visited = None
  /\ \E k \in todo : Search!Least(k, todo) /\ Call(k) /\ todo' = todo \ {k}
  /\ UNCHANGED <<keys_by_depth, values_by_depth, all_keys, new_states, new_pairs, won, win_state,
                 pc, target, depth, path, result>>

\* The callback finds the target among the moves of the state.
FoundParent ==
  /\ pc = "parents" /\ InCallback
  /\ PackedKey = target[1]
  /\ target' = <<visited, values_by_depth[depth][visited]>>
  /\ depth' = depth - 1
  /\ pc' = "trace"
  /\ Load(visited) /\ visited' = None /\ moved' = FALSE
  /\ UNCHANGED <<tried, keys_by_depth, values_by_depth, all_keys, new_states, new_pairs, todo,
                 won, win_state, path, result>>

NotTheTarget ==
  /\ pc = "parents" /\ InCallback
  /\ PackedKey # target[1]
  /\ GoOn
  /\ UNCHANGED search_vars

NotAParent ==
  /\ pc = "parents" /\ Done
  /\ visited' = None
  /\ UNCHANGED <<packing_vars, tried, moved, search_vars>>

\* main has got the result.
Finished == pc = "done" /\ UNCHANGED all_vars

NextSolver ==
  \/ TryMove \/ RunPhysics \/ DropLost
  \/ Visit \/ Collect \/ Visited
  \/ SearchStep
  \/ TraceDepth \/ TryParent \/ FoundParent \/ NotTheTarget \/ NotAParent
  \/ Finished

\* One thread, which does not stop before search has returned.  This is weak
\* fairness of NextSolver, since in every other state a step is enabled (TLC
\* reports a deadlock where none is) and every step that changes something is
\* a step of NextSolver.
SolverSpec ==
  /\ InitSolver /\ [][NextSolver]_all_vars
  /\ []<><<TRUE>>_all_vars \/ <>(pc = "done")

-----------------------------------------------------------------------------
(***************************************************************************)
(* Properties.                                                             *)
(***************************************************************************)
\* The test in the level's main, EXPECT_EQ(Expected, search(st, map)): the
\* program ends, and what search returns is the number expected.
TestPasses == <>(pc = "done" /\ result = Expected)

\* What can be seen of a packed state: the bodies on the map and the fruit.
Picture(key) ==
  LET st == Unpacked(BytesOf(key))
  IN  << {st.snakes[s] : s \in Snakes},
         {{st.gadgets[g] + d : d \in Shape[g]} : g \in {h \in Gadgets : st.gadgets[h] # kGadgetDeleted}},
         st.fruit >>

\* Two states that are known never show the same picture: canonicalize picks
\* one of the many ways to number the same objects (canonicalize(S) ==
\* canonicalize(S') for functionally equal states), through every chain of
\* moves, falls, teleports, exits and reloads.
OneKeyForEachPicture ==
  pc \in {"iterate", "done"} => Cardinality({Picture(k) : k \in all_keys}) = Cardinality(all_keys)

=============================================================================
