----------------------------- MODULE BitPacker -----------------------------
(***************************************************************************)
(* Packer (bit-packer.h): fields of any width are written one after the    *)
(* other into bytes, and read back, through an accumulator.                *)
(*                                                                         *)
(* A number is the set of the positions of its 1 bits, so that shifting    *)
(* moves positions, or is union and masking intersection.  A packer being  *)
(* written, or read, is a record of bytes_ and of the three members of its *)
(* context.                                                                *)
(***************************************************************************)
EXTENDS Integers, Sequences

CONSTANTS
  Bits,      \* most bits that can be packed
  ByteBits,  \* bits of a byte: 8
  AccBits    \* bits of the accumulator: 64

Bytes == (Bits + ByteBits - 1) \div ByteBits

mask_n_bits(n) == 0 .. (n - 1)

ShiftLeft(bits, n) == {b + n : b \in bits}

ShiftRight(bits, n) == {b - n : b \in {c \in bits : c >= n}}

\* A packer with these bytes, and a context that was not used yet.
Packer(bytes) == [bytes_ |-> bytes, acc_ |-> {}, acc_bits_ |-> 0, at_ |-> 0]

\* Mutant: goes on with the next whole byte.
Mutflush(p) ==
  [bytes_    |-> p.bytes_ \union ShiftLeft(p.acc_, p.at_),
   acc_      |-> {},
   acc_bits_ |-> 0,
   at_       |-> ByteBits * ((p.at_ + p.acc_bits_ + ByteBits - 1) \div ByteBits)]

\* What is in the accumulator goes to the bits from at_ on, up to the end of
\* the last byte that is written.  Here at_ counts bits.
flush(p) ==
  LET end == p.at_ + p.acc_bits_
      written == IF p.acc_bits_ = 0 THEN {}
                 ELSE mask_n_bits(ByteBits * ((end + ByteBits - 1) \div ByteBits))
  IN  [bytes_    |-> p.bytes_ \union (ShiftLeft(p.acc_, p.at_) \intersect written),
       acc_      |-> {},
       acc_bits_ |-> 0,
       at_       |-> end]

\* data is not masked: bits beyond width end up in the fields that follow.
deposit(p, data, width) ==
  LET q == IF p.acc_bits_ + width > AccBits THEN flush(p) ELSE p
  IN  [bytes_    |-> q.bytes_,
       acc_      |-> q.acc_ \union (ShiftLeft(data, q.acc_bits_) \intersect mask_n_bits(AccBits)),
       acc_bits_ |-> q.acc_bits_ + width,
       at_       |-> q.at_]

\* Whole bytes, as many as there are and as fit.  Here at_ counts bytes.
refill(p) ==
  LET room == (AccBits - p.acc_bits_) \div ByteBits
      n    == IF room < Bytes - p.at_ THEN room ELSE Bytes - p.at_
      read == ShiftRight(p.bytes_ \intersect mask_n_bits(ByteBits * (p.at_ + n)), ByteBits * p.at_)
  IN  [bytes_    |-> p.bytes_,
       acc_      |-> p.acc_ \union ShiftLeft(read, p.acc_bits_),
       acc_bits_ |-> p.acc_bits_ + ByteBits * n,
       at_       |-> p.at_ + n]

Refilled(p, width) == IF p.acc_bits_ < width THEN refill(p) ELSE p

\* extract gives the value of the field, and leaves the packer as Extracted.
extract(p, width) == Refilled(p, width).acc_ \intersect mask_n_bits(width)

Extracted(p, width) ==
  LET q == Refilled(p, width)
  IN  [bytes_    |-> q.bytes_,
       acc_      |-> ShiftRight(q.acc_, width),
       acc_bits_ |-> q.acc_bits_ - width,
       at_       |-> q.at_]

-----------------------------------------------------------------------------
(***************************************************************************)
(* A sequence of fields [data, width] is packed from an empty packer, and  *)
(* flushed at the end; the values of fields with these widths are read.    *)
(***************************************************************************)
PackFields(fields) ==
  LET packer[i \in 0 .. Len(fields)] ==
        IF i = 0 THEN Packer({}) ELSE deposit(packer[i - 1], fields[i].data, fields[i].width)
  IN  flush(packer[Len(fields)]).bytes_

UnpackFields(bytes, widths) ==
  LET reading[i \in 0 .. Len(widths)] ==
        IF i = 0 THEN [packer |-> Packer(bytes), values |-> <<>>]
        ELSE LET before == reading[i - 1]
             IN  [packer |-> Extracted(before.packer, widths[i]),
                  values |-> Append(before.values, extract(before.packer, widths[i]))]
  IN  reading[Len(widths)].values

=============================================================================
