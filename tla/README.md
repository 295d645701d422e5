# Verification of the Snakebird solver

TLA+ modules, TLC configurations and TLAPS proofs for the solver in `src/`: the
rules of the puzzle (`src/src/snakebird/snakebird.h`), the breadth first
search that solves it (`src/src/search.h`), the program of a level, which
is the two together, and what the search keeps its states in: bit fields
(`bit-packer.h`), sorted streams (`util.h`), an encoding (`compress.h`) and arrays
that spill to disk (`file-backed-array.h`).

## 1. The system

A level program (`levelNN.cc`) gives a picture of the level and the template
parameters (`Setup`); `main.h` builds a `Map` and the initial `State` and calls
`BreadthFirstSearch::search`. There is one thread. What makes the code hard is
not concurrency but the number of interacting rules in one step of the puzzle,
and long runs over data structures that are only correct together.

| Component | State | Operations | Correct when |
|---|---|---|---|
| `Setup`, coordinates | none | `apply_direction` | |
| `Map` | terrain, exit, fruit, teleporters, shapes; constant | constructor, `trace_tail` | the picture is read as its comment says |
| `State` | snakes, gadgets, fruit | `do_valid_moves`, `process_gravity`, `canonicalize`, `win`, `pack`/`unpack` | objects never overlap, never enter terrain or leave the map; snakes stay connected and fit their arrays; the physics ends, with nothing left to do; canonicalizing changes only names |
| `ObjMap` | one byte a cell, drawn from a `State` | `no_object_at`, `mask_at`, ... | no two things are in one cell |
| `PackedState`, `Packer` | bytes | deposit, extract, order, hash | packing loses nothing |
| `BreadthFirstSearch` | `keys_by_depth`, `values_by_depth`, `all_keys`, new keys and values | `search`, `visit_states`, `pack_pairs`, `dedup`, `trace_solution_path` | each state once and at its depth; the values name parents; the answer is the shortest length; it returns |
| streams (`util.h`) | positions in runs | `next`, `value`, `empty` | the interleaver is the sorted union of its inputs |
| delta and zstd encoding (`compress.h`) | previous record, buffer | `pack`, `flush`, `unpack`, `refill` | what was packed is unpacked, and no more |
| `file_backed_mmap_array` | buffer, file, mapping, run table | `push_back`, `insert_back`, `freeze`, `thaw`, `run`, ... | reads back what was written, run by run, wherever the flush falls |
| CityHash, zstd | | | external |

How they interact: `search` calls `do_valid_moves` with a callback for each state
of the last run; `do_valid_moves` copies the state, moves a snake and calls
`process_gravity` and `canonicalize`; the new states are packed into keys, sorted
and written, through the encoder, into runs of file backed arrays; `dedup` reads
all of them back through streams and writes the next run.

Where it is hard, apart from single functions (`PROJECT.json` lists each place as
a hazard):

* the rounds of `process_gravity`: exits, edge triggered teleporters and falling
  each restart the loop, `recompute_falling` and `orig_tele_mask` carry what the
  rounds before have seen, and several tests read an `obj_map` drawn before
  something moved;
* the absence of bounds checks, which relies on the border of the map, and so on
  each of the 53 pictures;
* a body that is kept twice, as segments and as directions, and packed into fields
  that nothing masks;
* canonicalization: the search knows a state by its bytes;
* the search's tables, which must stay in step through batches, duplicates,
  collisions of 8 bit hashes and an incomplete last run;
* the boundaries in the encoding and in the arrays: the end of a block, the last
  octet of an integer, the element at which the buffer goes to the file, a file
  that is used again, arrays that are swapped.

## 2. Modules

| Module | Models | Lines of the source |
|---|---|---|
| `Setup` | template parameters, coordinates, object ids | `snakebird.h` 58-102 |
| `MapContents` | what a `Map` holds, and what the rules take for granted of it | 37-40, 295-404 |
| `LevelMap` | what a picture means: from the drawing to the constants of `MapContents` | 300-387 |
| `MapConstructor`, `MCMapConstructor` | the constructor of `Map`, character by character | 243-258, 300-387 |
| `Levels` | all 53 level programs: parameters, picture, expected result | `level*.cc` |
| `Snakebird` | the puzzle: moves, `process_gravity` step by step, `canonicalize` | `snakebird.h` 114-277, 483-1362 |
| `ObjectLoops` | the loops that find the objects that are pushed, and those that fall | 833-962, 1025-1083 |
| `Binary` | numbers and the sets of the positions of their 1 bits | `util.h` 15-25, with the shifts of `bit-packer.h` and `compress.h` |
| `BitPacker` | `Packer`: bit fields through an accumulator | `bit-packer.h` |
| `StatePacking` | `tail_` beside the segments; a state as bytes, and their order | `snakebird.h` 129-201, 405-474, 1364-1396 |
| `MCStatePacking` | a level made for `StatePacking` and `ObjectLoops` | |
| `MCSnakebird` | levels on which `Snakebird` is checked by itself | `level31.cc`, `level44.cc` |
| `MCLevelMap` | constants for the configurations, from the picture | |
| `SnakebirdProofs` | theorems about `Snakebird` and `ObjectLoops` | |
| `StatePackingProofs` | theorems about `StatePacking` | |
| `LevelSearch` | what the search promises: layers, and the depth of the nearest win | `search.h` 60-213 |
| `Bfs` | `BreadthFirstSearch`, run by run | `search.h` 137-442 |
| `MCBfs` | all small puzzles | |
| `BfsProofs` | theorems about `Bfs` | |
| `Solver`, `MCSolver` | the program: `Bfs` and `StatePacking` together | `main.h`, `search.h` 231-318, `snakebird.h` 625-702 |
| `SolverProofs` | theorems about `Solver` | |
| `DedupMerge`, `MCDedupMerge` | `pack_pairs` and `dedup` record by record, on the streams | `search.h` 324-442, `util.h` 45-210 |
| `DedupMergeProofs` | theorems about `DedupMerge` | |
| `VarInt` | integers with stop bits | `compress.h` 13-89 |
| `DeltaCodec`, `MCDeltaCodec` | one run through the compressor and back | `compress.h` 91-328 |
| `DeltaCodecProofs` | theorems about `DeltaCodec` | |
| `FileBackedArray`, `MCFileBackedArray` | arrays: buffer, file, map and runs | `file-backed-array.h` 24-281 |
| `FileBackedArrayProofs` | theorems about `FileBackedArray` | |
| `Induction` | what several proofs need: induction and recursion, as facts about sets and functions that can be cited; division, powers of two and the bits of a number; the places of the elements of a finite set | |

Which uses which:

    Setup <- MapContents <- Snakebird <- StatePacking <- Solver  (EXTENDS)
                            Snakebird <- ObjectLoops
    Binary <- StatePacking, DeltaCodec;  VarInt <- DeltaCodec    (EXTENDS)
    StatePacking -> BitPacker,  Solver -> Bfs,  Bfs -> LevelSearch,  DedupMerge -> Bfs,
    MapConstructor -> LevelMap, MapContents                      (INSTANCE)

and of the proofs

    Snakebird, ObjectLoops <- SnakebirdProofs <- StatePackingProofs <- SolverProofs
    StatePacking <- StatePackingProofs,  Solver <- SolverProofs
    Binary <- Induction <- SnakebirdProofs, BfsProofs, FileBackedArrayProofs, DeltaCodecProofs
                                                                 (EXTENDS)

Definitions whose names start with `Mut` are wrong on purpose: each is a likely
bug, and the property it is paired with in `PROJECT.json` fails when it replaces
the definition it imitates. No specification uses them.

### MapContents, LevelMap, MapConstructor and Levels

The constants of the rules are the members of `Map`. Their assumptions,
`TerrainAssumption` and `ObjectsAssumption`, are what the rules need: a border
without spaces, everything in a space of its own, snakes of two segments or more that fit
their arrays together with the fruit, gadgets in the order of their shapes, with the same rank for the same shape. They are the
operators `LegalTerrain` and `LegalObjects`, so that they can also be checked of a map.

`LevelMap` says what a picture means, without saying how it is read. `MapConstructor`
reads it: an action for each kind of character, which appends to an array without looking
whether there is room, as the code does, and `SortGadgets` at the end. `trace_tail` and
`init_locations_from_tail` have no state and are operators, which both modules use.
`Levels` has the pictures of all level programs, and run `levels` shows for each of them
that the two modules agree and that what comes out is legal. Violating the
assertions of the constructor, and the 8 parts that a gadget has room for, which nothing
asserts, is part of the same property.

### Snakebird

`snakes`, `gadgets` and `fruit` are the members of `State`. A snake is the sequence
of its segments; `tail_` is left to `StatePacking`. A snake that has exited is `<<>>`, a destroyed gadget has offset 0, as in
the code.

`do_valid_moves` is the action `PlayerMove` with the disjuncts `Grow`, `Move` and
`Push`. The rest of the handler is a loop, so it is modelled step by step, with
`phase` as its program counter and the two local variables that live from round to
round: `orig_tele_mask` and `recompute_falling`.

    moves --PlayerMove--> exits --CheckExits--> teleports --Teleport--> exits
    teleports --NoTeleport--> gravity --Fall--> exits
    gravity --Perish--> lost        (process_gravity returns false)
    gravity --Settle--> moves       (canonicalize, and the callback gets the state)
    teleports --TeleportOffMap--> undefined

`Perish` returns from the middle of a fall, as `destroy_if_intersects_hazard` does at the first snake that
perishes: everything that falls has moved, and no gadget is destroyed yet. The state is left like
that, perhaps in water or on spikes, and no callback sees it. Nothing leaves phase `lost` in `Snakebird`; in
`Solver` the search goes on with the next move (`DropLost`).

In phase `moves` the two local variables are reset, so the states of this phase are
exactly the states that the callback sees. Their number in level34, 2259, is that of
the states the compiled program finds.

Two inner loops are defined by the set they compute. `is_valid_push` closes the set
of pushed objects under "is in the way of": the least of `PushableSets`. The loop over
`supported` computes the least set of supported objects; `Falling` is its
complement, the greatest set of unsupported objects that stand on nothing but each
other. `ObjectLoops` has the loops as they are, pass by pass over the objects in
the order of their numbers, with early returns; `PushLoopFindsLeast` and
`SupportLoopFindsFalling` say that they arrive at these sets.

`canonicalize` is a sort that is not stable: `Settle` takes any permutation that
sorts. Snakes are compared by head only, since two snakes in play have different heads
and all that have exited are equal.

`map[to]` and `obj_map_[to]` are not checked. Where `to` is a single step away the
border protects them, and `Terrain` is only ever applied inside the map: TLC stops with an
error if it is not, and the proofs need `InOpenTerrain` and the border to apply it.
A teleport may look further. Then the code reads foreign memory: if what it reads is
not a space the teleport is refused (`Fits` is false, so `NoTeleport`); if it is, the
model goes to phase `undefined` and stops (`TeleportOffMap`).

### BitPacker and StatePacking

A number is the set of the positions of its 1 bits: a shift adds to positions, `|` is
union and a mask an intersection. A packer is a record of its bytes and its context;
`deposit`, `flush`, `extract` and `refill` are operators on it. What the code does not mask is
not masked: a bit beyond the width of its field goes to the fields after it, and the last
byte that `flush` writes gets what the accumulator has above it. Widths are at most
`AccBits - ByteBits`, the most that `refill` can always provide (`WidthAssumption`; for
tails of the real levels, 56 bits, part of `LevelsAreSafe`).

`StatePacking` extends `Snakebird` with `tail_`, the second copy of a body: each action is that
of `Snakebird` together with what it does to `tail_`. `std::copy` and `std::copy_backward` in
`grow` and `move` (132, 143) are modelled by the result they have for segments, which are
plain integers; that the range of the first overlaps its destination makes it undefined in
the letter of the standard, but every library moves such ranges as blocks of memory.
`Packed` and `Unpacked` are `pack` and `unpack` over all members, `Significance` is the
order of the bits in `PackedState::operator<`, which takes eight, four or one byte at a time
as a number with the least byte first.

### Solver

The program of a level: `StatePacking` and `Bfs` in one state space, as they meet in the
code. `do_valid_moves` is called by the search on a packed state (`visited`): `Load`
unpacks it, `TryMove` makes the next move that is not refused, in the order of the
code (snakes, then directions), `RunPhysics` runs `process_gravity` and `canonicalize` step by step,
and the callback packs the result: `Collect` in `visit_states`, `FoundParent` or
`NotTheTarget` in `trace_solution_path`. Each move starts from the state as it was unpacked.
Where `Bfs` looks up moves in a table, `Solver` has these steps; the other actions are those of
`Bfs`, by instance (`SearchStep`). `Collect` drops nothing and stops at the first win of a
state, as the callback's return value makes `do_valid_moves` do.

### Bfs

A packed state is a number (a key), so that runs have an order. A run is the set of its
keys; its values are a function on this set. `setup` holds the puzzle: start, the
sequence of moves of each state in the order `do_valid_moves` offers them, and the
states that win, and whether runs are compressed (the template argument `Compress`, true by
default). It never changes; TLC checks all puzzles of the configuration in one run.

`search` is `StartIteration`, `GiveUp` and the test for a win at the end of `Dedup`;
`visit_states` is `Visit` for each state of the last run, and `EndVisit`; `pack_pairs`
is `Packings`: one arbitrary pair for each key, and none for the key of zeros;
`dedup` is `Dedup`; `trace_solution_path` is `TraceBack` for each depth and `TraceEnd`.
Batches are counted in different pairs, where the code counts all it has pushed.

Of the encoding of runs one thing is kept: a compressed run without keys still has
bytes, and `search` looks at the bytes.

### DedupMerge

A stream is the sequence of its records from the current one on. `pack_pairs` is
`PackPair` for each pair of a sorted batch and `NextBatch`; `std::sort` leaves pairs with
equal keys in any order, so the batches are any sorted sequences. `dedup` is `Start`, then
the loop: `TakeOld`, `DropNew`, `TakeNew` are its three outcomes, `Finish` its end, and each
`new_stream.next()` is `Advance`, repeated as long as the interleaver meets the record it
returned last, or `AdvanceToEnd`. Of equal heads the queue has any on top. A run is read as
`StreamPairer` does, keys and values in step until one of them ends; since a compressed run
of keys may be read with more records than were packed (`DeltaCodec`), there may be a
record `behind` each stream of keys.

The module implements `Bfs`: the packing of a batch is one of `Packings`
(`PacksBatches`), and the whole merge is one step `Dedup` (`MergeIsDedup`, with `Bfs`
instantiated on the sets of what was read and written).

### VarInt and DeltaCodec

Octets are numbers below `2 * TopBit`. `DeltaCodec` writes one run, closes it and reads it:
`pack` for each record, `Close` for the destructor, which always flushes, `Open` for the
constructor of the decompressor, `Unpack` for each record, with `refill` inside where the code
has it, and `Empty`. `zbuffer` keeps what earlier blocks left in it; reading past it
leads to `pc = "overrun"`. A zstd frame is a number of opaque octets; `frames` says what the one
that starts at a position contains. As in the code, it is decompressed without looking at where
it ends.

### FileBackedArray

The members of the class are the fields of a record, and its operations are operators from
array and open files to array and open files, under the names of the code, so that one can be
read against the other. The actions are what the users do: `WriteRun`'s constructor and destructor
(`OpenRun`, `CloseRun`), `push_back` and `insert_back` in between, `reset` and `freeze`,
`std::swap`, and destruction (`Renew`). Elements are numbered as they are written, and `log`
and `run_log` keep what an array and its runs should show.

## 3. What is checked

Properties of `Snakebird`, in words:

* `NoOverlap`: no two things are ever in one cell.
* `InOpenTerrain`: everything in play is on empty terrain of the map, unless the state is
  lost. If the search went on with a state that is lost this would be violated (`MutPerish`).
* `GadgetsMoveWhole`: no part of a gadget goes over the end of a row into the next one while others
  do not. `InOpenTerrain` does not say so, since what comes out there may be a space too. For
  pushes and falls the border is the reason; for teleports the comment in lines 1194-1198 says that
  there is none, and that levels could be padded if a solution depended on it. No level needs
  it: where there are teleporters no gadget has a gap (part of `LevelsAreSafe`).
* `SnakesFitTheirArrays`: snakes stay short enough for `i_` even if they eat all that is left.
* `RecomputeIsEnough`: the objects that fell in the round before are the only ones that
  may be falling now. This is the optimisation of lines 990-994 and its correctness is
  not obvious: exits and teleporters remove what others stand on.
* `AtRest`: a state handed to the callback is stable.
* `StaysDefined`: no teleport looks off the map.
* `CanonicalizeKeepsBodies`: an action property of `Settle`.
* `PhysicsEnds`: `process_gravity` returns. It depends on the level: with one half of a
  teleporter straight above the other in an open column, what falls in never stops. None of
  the repository's levels looks like that.

`ObjectLoops`: `PushLoopFindsLeast` (for every snake in play and every direction, in every
state that a player can reach) and `SupportLoopFindsFalling` (in every round of
`process_gravity`).

`StatePacking`: `TailMatchesBody` (segments and directions describe the same body, in every
step, which is why snakes stay connected; of `Snakebird` by itself `SnakesConnected` is proved and not
run) and `PackedLosesNothing` (a state that is packed and unpacked is the same state).

`MapConstructor`: `LevelsAreSafe` (every level is one that the rules, and the theorems about
them, are safe on: the border that the comment in lines 37-40 counts on, template
parameters that make room for what is drawn, and no gadget with a gap where there are teleporters) and `ReadsWhatIsDrawn` (the
loop arrives at what the picture means, and never writes past an array on the way).

`Solver`: `TestPasses` is the level's own test, `EXPECT_EQ(17, search(st, map))`, as a liveness
property: the program ends, with this number. `OneKeyForEachPicture` says that
canonicalization is a quotient: of all states the search knows no two look the same on the map,
whatever moves, falls, teleports and reloads led to them.

Properties of `Bfs`: `EachKeyOnce`, `ValuesNameParents`, `FoundNext` (the assertion in
line 317), `PathIsSolution`, `ShortestSolution` (against a definition of reachability
that knows nothing of runs), `Returns`, and `Implements`: the search is a refinement of
`LevelSearch`.

Properties of the storage: `WritesRuns` (what is written is sorted and without duplicates, as
its readers assume), `PacksBatches` and `MergeIsDedup` (see above); `RoundTrip` (a run is read back
record by record as it was written, over all blocks, unless an empty block follows the last
record), `BlocksInBounds` (the assertion in `compress.h` 156), `NoOctets` (which runs have no
bytes: what `Bfs` takes for granted as `NoBytes`), `StreamEnds`; `ReadsBack` (a frozen
array shows what was written to it), `RunsReadBack` (and its runs too, until it is swapped),
`FilesOwned` (each open file belongs to one array).

| Run | Instance | States | Checks |
|---|---|---|---|
| `level34` | the program of the level, whole | 89 538 | `InOpenTerrain`, `RecomputeIsEnough`, `StaysDefined`, `OneKeyForEachPicture`, `TestPasses` |
| `yard` | a snake that grows, three gadgets of which two are alike, water, a teleporter near the top | 11 380 | `TypeOK`, `TailMatchesBody`, `PackedLosesNothing`, `NoOverlap`, `AtRest`, `PushLoopFindsLeast`, `SupportLoopFindsFalling`, `SnakesFitTheirArrays`, `CanonicalizeKeepsBodies`, `GadgetsMoveWhole`, `PhysicsEnds` |
| `levels` | all 53 levels | 11 215 | `LevelsAreSafe`, `ReadsWhatIsDrawn` |
| `level44_offmap` | the level | | finds `StaysDefined` violated |
| `level31_default` | the level | | finds `DefaultStateUnreachable` violated |
| `bfs` | all puzzles without compression, those with a solution with it | 496 070 | `TypeOK`, `EachKeyOnce`, `ValuesNameParents`, `FoundNext`, `PathIsSolution`, `ShortestSolution`, `Returns`, `Implements` |
| `bfs_unsolvable` | all puzzles, compressed runs | | finds `VisitsSomething` violated |
| `merge` | three batches of up to four pairs together | 578 516 | `TypeOK`, `WritesRuns`, `PacksBatches`, `MergeIsDedup`, `Returns` |
| `codec` | runs of up to four records, with and without blocks | 70 674 | `TypeOK`, `RoundTrip`, `BlocksInBounds`, `NoOctets`, `StreamEnds` |
| `codec_emptyblock` | runs of up to three records | | finds `NoMoreThanPacked` violated |
| `array` | two arrays, a buffer of two elements | 648 385 | `TypeOK`, `ReadsBack`, `RunsReadBack`, `FilesOwned` |
| `array_swap` | the same | | finds `RunsAlwaysReadBack` violated |

Bounds. A level is finite, so nothing is cut off in the runs of `Snakebird`, `StatePacking` and
`Solver`: they visit every state a player can reach, or every step of the program. Between them
every action fires.

`yard` is drawn for the rules that meet rarely. One gadget is open to one side: the snake pushes it from
inside, then both fall, each standing on the other. Two small gadgets are alike and stand on one
another, so that they are renamed. What is pushed off the ledge may fall into the
teleporter, from which the large gadget would reach out of the map (`TeleportOffMap`), or into the
water. The exit is on the ground at the left, and the snake also falls onto it. There is one
fruit. A packed state has 35 bits, and with an accumulator of 16 bits it is flushed twice, both
times in the middle of a byte; the real one of 64 bits is flushed less often, and at the same kind of place. That
two objects get to a teleporter at the same time does not happen there; that at most one can go
is proved (theorem `OneTeleport`).

In `level34` the accumulator has its real size. The hash is the same for all states, the worst case of
an 8 bit hash: the walk back tries every state of a depth as a parent, and which of several
pairs with one key `pack_pairs` keeps makes no difference, which is why the search
is deterministic there. What depends on the hash is checked on all small puzzles (`bfs`).
`BatchLimit` is 100, in place of 100 000 000. The larger depths of the level have more new states than
that, so they are packed in several batches, where the real program has one for each depth of a level of this
size; the keys and the result are the same.

The puzzles of the `Bfs` runs have four states and the one that packs to
zeros, at most two moves in a state and none to itself, and one or two winning states
(29 282 puzzles, depth up to 4; those with a solution once more with compression); the hash has two values, so that every walk back meets
collisions, and a batch is full after two pairs, so that duplicates occur within a
batch, in two batches, and in an earlier depth.

The batches of `merge` are all sorted sequences over three keys, one of them the key of
zeros, and two values, up to three batches with four pairs together, with every set of states seen: all orders in which a merge can take
its turns. In `codec` an octet has two bits, so that masks have one octet or two, and
the length of a block one, two or three; a block ends after more than four octets, so that a run
has up to five blocks, some of which are longer than the one after them. In `array` a buffer holds two
elements and up to three are inserted at once: the threshold falls before, in and at the end of an
insertion, and five elements are enough to use a file, reset it or swap it, and use it again.
The two arrays are symmetric.

`CHECK_DEADLOCK FALSE`: a player may be stuck, a lost state is dropped, and a search or
a constructor that has returned does nothing more. `level34` checks for deadlock: the program
never waits, and `Finished` is its end.

Fairness. `FairPackingSpec` is weak fairness of `PhysicsStep`: `process_gravity` is a
loop that runs to its end before anything else happens. Nothing is assumed about the
player. `FairSpec` of `Bfs` and of `DedupMerge` is weak fairness of `Next`: one thread. That of
`SolverSpec` says the same, in the form that steps go on until the search has returned. That of
`DeltaCodec` is weak fairness of its reader: streams are read to their end.

## 4. What the runs found

* **A read off the map** (`level44_offmap`). In level44 a snake falls with a segment into
  the lower teleporter while its head is higher; `try_snake_teleport` then looks at
  `map[-9]`. The header's argument, that walls make bounds checks unnecessary (lines
  37-39), covers steps and not teleports.
* **A search that does not end** (`bfs_unsolvable`). "We haven't won, and have no moves to
  process" (`search.h` 186-189) compares byte ranges, and a compressed run is never
  without bytes. On a puzzle without solution the program runs forever.
* **The default state is reachable** (`level31_default`). `search.h` 82-83 asks that it is
  not. In a level without fruit and gadgets it is the winning state, and `pack_pairs`
  drops it; the search survives because `win_state` is kept apart.

* **Records that were never packed** (`codec_emptyblock`). When the last record of a run fills its block,
  the destructor writes an empty block after it. `unpack` (`compress.h` 131) refills once and decodes
  whatever is in the buffer, which is the block before, and does not stop at its end. It takes a
  run of more than a megabyte whose last record is the one that passes the threshold.
* **Runs left behind by a move** (`array_swap`). Moving an array carries over its elements
  but not its runs (`file-backed-array.h` 35-54). `search` swaps only `all_keys`, whose
  runs it does not ask for.

The comment in `compress.h` 100-101 says of the first record that it is encoded with all bits
set. It is encoded against zeros (`Zeros` in `DeltaCodec`), on both sides.

## 5. What is proved

The theorems hold for every value of the constants that satisfies the named assumptions:
every map and every placement of objects for `Snakebird`
(`SetupAssumption`, `TerrainAssumption`, `ObjectsAssumption`: what the constructor of `Map`
asserts, a border without spaces, at most one teleporter pair), with tails that fit the
segments for `StatePacking` (`TailAssumption`), every set of puzzles, hash function and batch
limit for `Bfs` (`SearchAssumption`). That all 53 levels satisfy the assumptions about maps is what run
`levels` checks, so the theorems hold for each of them.

`SnakebirdProofs` proves the inductive invariant `IInv` of `Snakebird` (theorem `Invariance`), which is the
conjunction of `TypeOK`, `NoOverlap` and `InOpenTerrain`. They are only inductive together: a push lands on free
cells because what is in the way is pushed too and bodies do not overlap; a fall lands on
free cells because what does not fall holds nothing above it that does, and
on open terrain because snakes that fall into a hazard perish, gadgets are destroyed and
everything else is ground; a teleport needs that at most one object goes, which follows
from bodies not overlapping at the two halves of the one pair. One lemma for each action; they assume
`Inv`, where everything is in the open. A lost state only has its objects apart (`PerishInv`), and is
left as it is (`LostIsLeft`).

`GadgetsStayWhole` proves `GadgetsMoveWhole` under the hypothesis `NothingSparseTeleports`, part of
`LevelsAreSafe`. A single step never crosses an edge, since it would start or end in the border
(`StepColumn`), and a fall keeps the column (`DownKeepsColumn`). A teleport takes every part to a space
inside the border; two parts one step apart are one step apart there too, and no
step between spaces crosses an edge, so all parts of a connected gadget change their column alike (`SameColumns`).

`SnakebirdProofs` proves from it `SnakesConnected`, `SnakesFitTheirArrays`,
`OneTeleportAtATime` and the action property `CanonicalizeKeepsBodies`.
`OneTeleportAtATime` is why the `obj_map` that `process_teleports` goes on using after it has moved
something does no harm.

It also proves `RecomputeIsEnough` and `AtRest`, from the invariant `GravityInv`. Its main
part, `Held`, says that of the objects that did not fall in the round before, none would
fall even if all that did fall were gone. So it does not matter what exits and
teleporters have done to those: a snake that leaves, or an object that is teleported, has
just moved (the other parts of `GravityInv`). `Held` is kept by a fall because the objects that do not fall together with
those that do would otherwise be a larger set that stands on nothing but itself (`FallHolds`). After `canonicalize` the objects have other
names and stand as they stood (`SettledRests`). `MovesEndAtRest` assumes `AtRest` of the
start, since nothing runs the physics on it; the run `yard` starts from such a level.

The loops of `ObjectLoops` compute the sets that `Snakebird` defines: `SupportIsFound`
and `PushIsFound`. A pass that adds nothing shows that the set is closed, and of as many passes as there
are objects one adds nothing (`Saturates`); what was added is in every closed set. The
loop of `is_valid_push` takes a pass more, since it also has to see that everything can be
pushed. These two hold in every state whatsoever, given only the types of the variables.

`StatePackingProofs` proves that `StatePacking` implements `Snakebird` (`PackingImplements`), which
carries all of these theorems over to states with `tail_`, and `TailMatchesBody`
(`TailDescribesBody`). The invariant `TailInv` says it bit by bit, since the direction at a place of
`tail_` is found by its bits (`DirectionFound`): `move` clears the two bits of the oldest direction and
no others (`ClearedFacts`), and both `move` and `grow` shift the others by one place (`ShiftedFacts`).
It needs snakes of two segments or more (snakebird.h 220), without which `move` clears nothing.

It also proves `PackedLosesNothing` (`PackingIsExact`), from `IInv`, `SnakeInv`, `TailInv` and
`WidthAssumption`. Two predicates say what the accumulator is about: `Writing`, that the bytes and the
accumulator together hold the bits that were deposited, at the places where they were
deposited, and `Reading`, that the accumulator holds the bits that come next and the rest is still in
the bytes. `flush` and `deposit` keep the first (`DepositWrites`), `refill` and `extract` the second
(`ExtractReads`). It follows by induction over the fields that what `PackFields` makes is each field at
its offset (`PacksAll`), and, if every field fits its width, that `UnpackFields` gives each
of them back (`UnpacksAll`): fields do not reach into one another (`LaidApart`). What is left is
that the fields of a state fit (`FieldsLegal`), since a head is a cell, a snake fits its array, and
`tail_` has nothing beyond the snake, which `TailInv` is needed for; and that each member is found
again in its field: numbers (`NumberOfItsBits`), fruit by their places on the map (`FruitPlaces`), and
segments from the head and the directions (`LocatedAgain`).

`SolverProofs` proves `OneKeyForEachPicture` (`PicturesHaveOneKey`) of the whole program. The search
unpacks a state, leaves it half way and loads another, so what it works on is no behaviour of
`Snakebird`. `SolverInv` therefore says of every key that the search holds, in a run, in a batch, still
to be visited or being visited, that it is one of `Keys`: what it unpacks to is `Sound`, it has the invariants of
`Snakebird` and `StatePacking` and its objects are in order, and packing it gives the key again. Loading such a
key gives a state with these invariants (`LoadStateInv`), the moves and the physics keep them
(`RulesStateInv`), and when the physics is over `canonicalize` has put the objects in order again
(`SettleOrders`), so that what the callback packs is such a key (`PackedKeyIsKey`). This needs that
`operator<` compares packed states as numbers that determine the bytes: chunks of 8, 4 and 1 bytes
cover them and do not overlap (`KeyHasBytes`). From the other side, what can be seen of a sound state determines it
(`PictureTells`): no two objects are in the same place, so there is one ascending
order of the heads, and for each shape one of the offsets (`AscentsAgree`), a body has one `tail_` (`OneTail`), and the cells
of a gadget tell its offset and shape (`CellsTellGadget`). Hence there are as many keys as pictures. `SolverInv` also
gives `NoOverlap`, `InOpenTerrain`, `RecomputeIsEnough` and the other invariants of the rules in every state
of the program (`LoadedStatesKeepTheRules`).

Both theorems assume `InOrder` of the start. The search packs it as the constructor left it, without
`canonicalize`. Its snakes are in order, since the constructor meets their heads row by row, but gadgets
of the same shape are in whatever order `std::sort` leaves them, which is not specified. If they were
not in order, the start would have a key that it cannot come back to, and a state that looks the
same could be kept beside it. In `level34` the start is in order.

`BfsProofs` proves `TypeOK`, `EachKeyOnce`, `ValuesNameParents` and `FoundNext`. The
invariant `IInv` adds what is true in the middle of an iteration: whatever is collected, packed
or not, has a parent in the last run with the hash it is paired with
(`CollectedNameParents`), and the target of the walk back has a parent one depth up
(`TraceOnCourse`).

It goes on to what the search is for: `PathIsSolution`, `Implements` and
`ShortestSolution`. `MoreInv` says, besides, that nothing generated is lost on its way to
the next run except states known before and the one that packs to zeros (`NothingLost`), that each
complete run is what is ahead of the one before and was not found earlier, that no complete run
holds a winning state and none but the last has one ahead (`Layered`), that the search ends at
the depth of a win ahead of the last complete run, or with nothing left to visit (`Answered`,
`WinIsTraced`), that the path taken so far leads from the target to a winning state
(`PathLeads`), and that no empty run is visited when runs are not compressed (`NotEmpty`). From this each iteration is one step `Deepen` of
`LevelSearch`. `SearchImplements` assumes `Ends`: the puzzle has a solution, or its runs are not
compressed. Without it the refinement is false, which is what `bfs_unsolvable` shows. `ShortestSolution`
compares the result with a recursive definition of what is at most n moves away (`Within`),
by induction over n (`WithinIsUpTo`), and needs no such assumption.

`DedupMergeProofs` proves `TypeOK`, `WritesRuns`, `PacksBatches` and `MergeIsDedup`, for any
number of batches of any size. The invariant `DedupInv` follows a pair from its batch to the
new runs. While packing, the run has just the keys of the part of the batch that is done, in
order, and `prev` is the last of them (`PackInv`). While merging, every pair packed is either still in
a stream or its key is known: written, seen before, or on top (`StreamsOk`, `WrittenOk`); and
what is on top of the interleaver is larger than all that is written and not larger
than what is left (`AdvanceInv`, `NewInv`). The record that may follow the end of a stream of keys is dropped
because the values end before it. Keys have to be finitely many and the key of zeros the least
of them (`MergeAssumption`): the first comparison of `pack_pairs` is with that key.

`FileBackedArrayProofs` proves `TypeOK`, `ReadsBack`, `RunsReadBack` and `FilesOwned`, for any number of arrays,
any threshold and any sizes of what is inserted. The invariant `ArraysInv` says of each array that
its file followed by its buffer is its log, as far as the last reset (`ArrayOk`), that its recorded
runs are the logged ones until it is swapped (`RunsOk`), and that every open file is that of just one
array (`Owned`), without which a write to one array would change another. One lemma for each operation of the class, under the
name of the operation.

`DeltaCodecProofs` proves `TypeOK`, `RoundTrip`, `BlocksInBounds` and `NoOctets`, for records of any length
with a mask of at most three octets, blocks and frames of any length
(`CodecAssumption`, `VarIntAssumption`) and any number of records. `decode` undoes `encode`, wherever the integer stands
(`EncodeDecode`); a mask names the octets that changed and `Changed` puts them in their places, so
that a record is read where it was written if the one before is known (`ReadsDelta`). The invariant
`IInv` says where: the output is the encoded records one after another (`WithoutBlocks`), or a
row of blocks, each of a length, a frame and, in the frame, some of the records
(`WithBlocks`); `prev` is the last record; and the reader is behind the last record
it has returned, with that record as its `value` (`ReadSoFar`). Without the layout nothing
would say that what stands at the reader's position is the beginning of a record; without the
values, what its difference refers to. An empty block after the last record is excluded from
`ReadSoFar` and from `RoundTrip`: what is read then is what `codec_emptyblock` shows.

`Induction` has what these proofs need of induction: a predicate is given as the set of its
members, since the provers cannot instantiate an operator. Its lemmas come from two facts of the
library that have no operator parameter, that < on the natural numbers and strict inclusion on
finite sets are well-founded. `PrimitiveRecursion` and `FollowsExists` give a recursive
definition its equations, which is how `Within` and the loops of `ObjectLoops` are reasoned about.

Only model-checked: `StaysDefined` (false in general: `level44_offmap`);
the properties of `MapConstructor` (they are about given pictures, and the run
has them all); and the liveness properties `PhysicsEnds`, `TestPasses`, `Returns` and
`StreamEnds`, which are out of the prover's reach.

## 6. Not modelled, and what is left

Not stated is an abstract specification of the rules, the puzzle on unnamed bodies. What it would say
is proved directly: `canonicalize` changes only names (`CanonicalizeRenames`), and the names it
gives are determined by what is where (`PicturesHaveOneKey`).

Not modelled, with the reasons: system calls that fail (the code aborts), the memory that
`unpack` reads past its buffer (the model stops there), widths of more than 22 bits (the code
asserts that there are none), `VarInt` and blocks of their real size (the boundaries are the same).

That the streams of old keys in `dedup`, `visit_states` and `trace_solution_path` may return records
that were never packed (`codec_emptyblock`) is not carried over to `Bfs` and `Solver`, which read runs as they
were written.

Not planned: printing, CityHash and zstd themselves.
