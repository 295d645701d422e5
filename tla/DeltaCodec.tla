----------------------------- MODULE DeltaCodec -----------------------------
(***************************************************************************)
(* One run of records through ByteArrayDeltaCompressor into an array of    *)
(* octets, and out of it through StructureDeltaDecompressorStream          *)
(* (compress.h).  A record is written as a mask of the octets that differ  *)
(* from the record before, followed by these octets; with Compress the     *)
(* result is cut into blocks, each written as the length of a zstd frame   *)
(* followed by the frame.                                                  *)
(*                                                                         *)
(* zstd is external: a frame is some number of octets that have no meaning *)
(* of their own, and decompressing from the position of its first octet    *)
(* gives back what it was made from, whatever follows the frame.           *)
(***************************************************************************)
EXTENDS VarInt, Binary, FiniteSets, SequencesExt

CONSTANTS
  Length,        \* octets of a record
  FlushSize,     \* a block is ended when it has more octets than this
  Records,       \* the records that may be packed
  MaxRecords,    \* bound: records in the run
  FrameLengths   \* lengths that frames may have

Index == 0 .. Length - 1

ASSUME CodecAssumption ==
  /\ Length \in Nat \ {0}
  /\ Length <= 3 * PayloadBits + 1
  /\ FlushSize \in Nat /\ MaxRecords \in Nat
  /\ Records \subseteq [Index -> Octet]
  /\ FrameLengths \subseteq Encodable(3) \ {0}

VARIABLES
  Compress,          \* whether there are blocks; a template parameter
  packed,            \* the records given to pack
  prev,              \* the last of them, zeros before the first
  delta_transformed, \* the block that is being filled
  output,            \* the array of octets
  frames,            \* what the frame that starts at a position was made from
  raw_it,            \* position in output of the next block
  it, end,           \* positions in the block of the next record, and of the end
  zbuffer,           \* buffer that blocks are decompressed to
  value,             \* the record unpacked last
  unpacked,          \* all the records unpacked
  pc                 \* "pack", "open", "unpack", "empty", or "overrun"

writer == <<Compress, packed, prev, delta_transformed, output, frames>>
reader == <<raw_it, it, end, zbuffer, value, unpacked>>
vars == <<writer, reader, pc>>

Opaque == -1  \* an octet of a frame

Zeros == [j \in Index |-> 0]

Init ==
  /\ Compress \in BOOLEAN
  /\ packed = <<>> /\ prev = Zeros
  /\ delta_transformed = <<>> /\ output = <<>> /\ frames = <<>>
  /\ raw_it = 1 /\ it = 1 /\ end = 1 /\ zbuffer = <<>>
  /\ value = Zeros /\ unpacked = <<>>
  /\ pc = "pack"

-----------------------------------------------------------------------------
(***************************************************************************)
(* The compressor.                                                         *)
(***************************************************************************)
MaskOctets == Octets(Length)
LenOctets  == 3

Mask(S)     == NumberOf(S, Length)
Changed(n)  == {j \in Index : IsSet(j, n)}
InOrder(S)  == CHOOSE s \in [1 .. Cardinality(S) -> S] : \A i, k \in DOMAIN s : i < k => s[i] < s[k]

\* The mask of the octets of a record that are not those of the one before,
\* and these octets.
Delta(from, to) ==
  LET changed == {j \in Index : from[j] # to[j]}
  IN  encode(MaskOctets, Mask(changed))
        \o [k \in 1 .. Cardinality(changed) |-> to[InOrder(changed)[k]]]

\* The frames, and another one at position p.
Framed(p, block) ==
  [q \in DOMAIN frames \union {p} |-> IF q = p THEN block ELSE frames[q]]

\* Mutant: an empty block is not written.
MutFlush(block) ==
  IF Compress /\ block # <<>>
    THEN \E len \in FrameLengths :
           LET start == output \o encode(LenOctets, len)
           IN  /\ output' = start \o [i \in 1 .. len |-> Opaque]
               /\ frames' = Framed(Len(start) + 1, block)
    ELSE output' = output \o block /\ UNCHANGED frames

flush(block) ==
  IF Compress
    THEN \E len \in FrameLengths :
           LET start == output \o encode(LenOctets, len)
           IN  /\ output' = start \o [i \in 1 .. len |-> Opaque]
               /\ frames' = Framed(Len(start) + 1, block)
    ELSE output' = output \o block /\ UNCHANGED frames

pack(record) ==
  LET block == delta_transformed \o Delta(prev, record)
  IN  /\ pc = "pack"
      /\ Len(packed) < MaxRecords
      /\ packed' = Append(packed, record)
      /\ prev' = record
      /\ IF Len(block) > FlushSize
           THEN flush(block) /\ delta_transformed' = <<>>
           ELSE delta_transformed' = block /\ UNCHANGED <<output, frames>>
      /\ UNCHANGED <<Compress, reader, pc>>

\* The destructor of the compressor flushes, whatever is left.
Close ==
  /\ pc = "pack"
  /\ flush(delta_transformed)
  /\ delta_transformed' = <<>>
  /\ pc' = "open"
  /\ UNCHANGED <<Compress, packed, prev, reader>>

-----------------------------------------------------------------------------
(***************************************************************************)
(* The decompressor.  The buffer only ever grows: behind a block it still  *)
(* holds what earlier blocks left there.                                   *)
(***************************************************************************)
Over(block, buffer) == block \o SubSeq(buffer, Len(block) + 1, Len(buffer))

\* Mutant: the length of the content is taken for that of the frame.
MutRefill ==
  /\ Compress
  /\ raw_it <= Len(output)
  /\ LET len == decode(LenOctets, output, raw_it)
     IN  /\ zbuffer' = Over(frames[len.next], zbuffer)
         /\ end' = Len(frames[len.next]) + 1
         /\ raw_it' = len.next + Len(frames[len.next])

refill ==
  /\ Compress
  /\ raw_it <= Len(output)
  /\ LET len == decode(LenOctets, output, raw_it)
     IN  /\ zbuffer' = Over(frames[len.next], zbuffer)
         /\ end' = Len(frames[len.next]) + 1
         /\ raw_it' = len.next + len.value

Open ==
  /\ pc = "open"
  /\ IF Compress THEN refill
                 ELSE end' = Len(output) + 1 /\ UNCHANGED <<raw_it, zbuffer>>
  /\ it' = 1
  /\ pc' = "unpack"
  /\ UNCHANGED <<writer, value, unpacked>>

\* Mutant: octets are stored one place too far, the last behind the record.
MutChange(record, bits, octets) ==
  [j \in Index \union {Length} |->
     IF j - 1 \in bits THEN octets[Cardinality({i \in bits : i <= j - 1})] ELSE 0]

\* The record with the octets at bits replaced, in order, by octets.
Change(record, bits, octets) ==
  [j \in Index |->
     IF j \in bits THEN octets[Cardinality({i \in bits : i <= j})] ELSE record[j]]

\* The record at position i of a buffer.  Past the end of the buffer there is
\* memory that is not the reader's.
unpack_internal(buffer, i) ==
  LET mask  == decode(MaskOctets, buffer \o <<0, 0, 0>>, i)
      bits  == Changed(mask.value)
      after == mask.next + Cardinality(bits)
  IN  IF after > Len(buffer) + 1
        THEN pc' = "overrun" /\ UNCHANGED <<it, value, unpacked>>
        ELSE /\ value' = Change(value, bits, SubSeq(buffer, mask.next, after - 1))
             /\ unpacked' = Append(unpacked, value')
             /\ it' = after
             /\ UNCHANGED pc

Unpack ==
  /\ pc = "unpack"
  /\ \/ /\ it # end
        /\ unpack_internal(IF Compress THEN zbuffer ELSE output, it)
        /\ UNCHANGED <<raw_it, end, zbuffer>>
     \/ /\ it = end
        /\ refill
        /\ unpack_internal(zbuffer', 1)
  /\ UNCHANGED writer

\* Mutant: next() reports the end and does not remember it.
MutEmpty == pc = "unpack" /\ it = end /\ raw_it > Len(output) /\ UNCHANGED vars

Empty ==
  /\ pc = "unpack"
  /\ it = end
  /\ ~Compress \/ raw_it > Len(output)
  /\ pc' = "empty"
  /\ UNCHANGED <<writer, reader>>

Next ==
  \/ \E record \in Records : pack(record)
  \/ Close \/ Open \/ Unpack \/ Empty

Spec == Init /\ [][Next]_vars

\* The reader asks for records until there are none.
FairSpec == Spec /\ WF_vars(Open \/ Unpack \/ Empty)

-----------------------------------------------------------------------------
(***************************************************************************)
(* Properties.                                                             *)
(***************************************************************************)
\* Every variable holds a value of its kind.
TypeOK ==
  /\ Compress \in BOOLEAN
  /\ packed \in Seq(Records) /\ prev \in [Index -> Octet]
  /\ delta_transformed \in Seq(Octet)
  /\ output \in Seq(Octet \union {Opaque})
  /\ \A p \in DOMAIN frames : p \in DOMAIN output /\ frames[p] \in Seq(Octet)
  /\ raw_it \in Nat /\ it \in Nat /\ end \in Nat
  /\ zbuffer \in Seq(Octet)
  /\ value \in [Index -> Octet] /\ unpacked \in Seq([Index -> Octet])
  /\ pc \in {"pack", "open", "unpack", "empty", "overrun"}

Written == pc # "pack"

\* The record that was packed last ended a block, so that the destructor has
\* written another one without records behind it.
EmptyLastBlock ==
  /\ Written
  /\ \E p \in DOMAIN frames : frames[p] = <<>>
  /\ packed # <<>>

\* What is unpacked is what was packed, record by record and over all blocks,
\* with no record lost, repeated or taken from what an earlier block has left
\* in the buffer, unless there is an empty block behind the last record.
RoundTrip ==
  ~EmptyLastBlock => /\ IsPrefix(unpacked, packed)
                     /\ pc = "empty" => unpacked = packed
                     /\ pc # "overrun"

\* unpack returns false if all the records have been read already
\* (compress.h:129): it never returns more of them than were packed.
NoMoreThanPacked == Len(unpacked) <= Len(packed)

\* A block never reaches over the end of the array (assert, compress.h:156),
\* and what follows it is the length of the next.
BlocksInBounds ==
  Compress /\ Written =>
    \/ raw_it = Len(output) + 1
    \/ /\ raw_it <= Len(output) /\ output[raw_it] \in Octet
       /\ decode(LenOctets, output, raw_it).next \in DOMAIN frames

\* A run has no octets, which is what ends the search without a solution
\* (search.h:186), if it has no records and is not compressed either.
NoOctets == Written => (output = <<>> <=> packed = <<>> /\ ~Compress)

\* A reader comes to the end of the run.
StreamEnds == Written ~> (pc = "empty" \/ EmptyLastBlock)

=============================================================================
