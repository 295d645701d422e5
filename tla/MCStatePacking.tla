--------------------------- MODULE MCStatePacking ---------------------------
(***************************************************************************)
(* A level for StatePacking whose 35 bits take several accumulators of     *)
(* the configuration.                                                      *)
(***************************************************************************)
EXTENDS StatePacking, ObjectLoops, MCLevelMap

\* Three gadgets, the large one drawn first: the constructor has to put it
\* last, and the two small ones are interchangeable.  The large one can be
\* pushed from inside, and then falls with the snake inside, each standing on
\* the other.  What is pushed off the ledge falls into the lower half of the
\* teleporter; the large gadget would then reach out of the map, and falls on
\* into the water.
Yard ==
     ".........."
  \o ". T      ."
  \o ".        ."
  \o ".   00   ."
  \o ".O   02  ."
  \o ".*>R001  ."
  \o ".......  ."
  \o ".      T ."
  \o "~~~~~~~~~~"

=============================================================================
