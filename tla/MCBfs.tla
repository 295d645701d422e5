------------------------------- MODULE MCBfs -------------------------------
(***************************************************************************)
(* Every puzzle with four states besides the one that packs to zero, at    *)
(* most two moves in each, none of them back to itself, and one or two     *)
(* states that win.                                                        *)
(***************************************************************************)
EXTENDS Bfs, SequencesExt

MCKey  == 0 .. 4
MCNull == 0

\* Two values for five keys: hashes collide.
MCHashByte == 0 .. 1
MCHash     == [k \in MCKey |-> k % 2]

\* A state without moves, with one, or with two, the greater first.
MoveLists(k) ==
  {SetToSortSeq(S, >) : S \in {T \in SUBSET (MCKey \ {k}) : Cardinality(T) <= 2}}

\* The state that packs to 0 has no snakes, so no moves.
Moves ==
  {<<a, b, c, d>> @@ (0 :> <<>>) :
     a \in MoveLists(1), b \in MoveLists(2), c \in MoveLists(3), d \in MoveLists(4)}

Puzzles(compress) == [start : {2}, moves : Moves, wins : {{0}, {0, 4}}, compress : {compress}]

Reached(s) ==
  LET after[n \in 0 .. 4] ==
        IF n = 0 THEN {s.start} ELSE after[n - 1] \union UNION {Range(s.moves[k]) : k \in after[n - 1]}
  IN  after[4]

\* All puzzles without compression.  With compression the search ends only
\* on those that have a solution.
MCSetups ==
  Puzzles(FALSE) \union {s \in Puzzles(TRUE) : Reached(s) \intersect s.wins # {}}

MCCompressed == Puzzles(TRUE)

=============================================================================
