---------------------------- MODULE LevelSearch ----------------------------
(***************************************************************************)
(* What BreadthFirstSearch (search.h) promises: the states of a puzzle are *)
(* discovered one depth after another, each of them once, and the answer   *)
(* is the depth of the nearest state that wins, or 0 when none does.       *)
(***************************************************************************)
EXTENDS Integers, Sequences, Functions

CONSTANT
  Setups  \* the puzzles: records with a start, the moves and the wins

VARIABLES
  setup,   \* the puzzle being solved
  layers,  \* the states discovered at each depth; the last is the frontier
  answer   \* what the search returns; Searching until it does

Searching == -1

\* One move away from the states of S.  The moves of a state are a sequence:
\* do_valid_moves offers them in an order.
Ahead(S) == UNION {Range(setup.moves[s]) : s \in S}

Frontier == layers[Len(layers)]

Discovered == UNION {layers[d] : d \in DOMAIN layers}

Init ==
  /\ setup \in Setups
  /\ layers = << {setup.start} >>
  /\ answer = Searching

\* Nothing one move away wins: what was not seen before is the next depth.
Deepen ==
  /\ answer = Searching
  /\ Frontier # {}
  /\ Ahead(Frontier) \intersect setup.wins = {}
  /\ layers' = Append(layers, Ahead(Frontier) \ Discovered)
  /\ UNCHANGED <<setup, answer>>

\* The frontier is at depth Len(layers) - 1, so the win is one move deeper.
Solve ==
  /\ answer = Searching
  /\ Ahead(Frontier) \intersect setup.wins # {}
  /\ answer' = Len(layers)
  /\ UNCHANGED <<setup, layers>>

GiveUp ==
  /\ answer = Searching
  /\ Frontier = {}
  /\ answer' = 0
  /\ UNCHANGED <<setup, layers>>

Next == Deepen \/ Solve \/ GiveUp

Spec == Init /\ [][Next]_<<setup, layers, answer>>

=============================================================================
