-------------------------- MODULE DedupMergeProofs --------------------------
(***************************************************************************)
(* Proofs about DedupMerge, for any keys and values, any states seen       *)
(* before, and any batches.                                                *)
(***************************************************************************)
EXTENDS DedupMerge, SequenceTheorems, FiniteSetTheorems, TLAPS

(***************************************************************************)
(* The inductive invariant.                                                *)
(***************************************************************************)
BatchesOk ==
  /\ batches # <<>>
  /\ \A b \in DOMAIN batches : InKeyOrder(batches[b])
  /\ NullKey \notin seen

\* The keys and values of a run hold the first n pairs of the batch p, each
\* key once.
RunOf(ks, vs, p, n) ==
  /\ Rising(ks)
  /\ \A i \in 1 .. Len(ks) : ks[i] # NullKey /\ \E j \in 1 .. n : p[j] = <<ks[i], vs[i]>>
  /\ \A j \in 1 .. n : p[j][1] = NullKey \/ \E i \in 1 .. Len(ks) : ks[i] = p[j][1]

Now == Len(new_keys)

\* How many pairs of the present batch have been taken.
Taken == Len(batches[Now]) - Len(unpacked)

PackInv ==
  /\ Now \in 1 .. Len(batches)
  /\ Taken \in Nat
  /\ \A i \in 1 .. Len(unpacked) : unpacked[i] = batches[Now][Taken + i]
  /\ IF Taken = 0 THEN prev = NullKey ELSE prev = batches[Now][Taken][1]
  /\ RunOf(new_keys[Now], new_values[Now], batches[Now], Taken)
  /\ \A r \in 1 .. Now - 1 : RunOf(new_keys[r], new_values[r], batches[r], Len(batches[r]))
  /\ pc # "pack" => unpacked = <<>> /\ Now = Len(batches)

RisingPairs(s) == \A i, j \in DOMAIN s : i < j => s[i][1] < s[j][1]

\* What the interleaver has not returned yet.
Left == UNION {Range(streams[r]) : r \in DOMAIN streams}

\* The keys that dedup knows, those that pack_pairs does not write included.
Known == Range(keys) \union seen \union {NullKey}

StreamsOk ==
  /\ \A r \in DOMAIN streams : RisingPairs(streams[r])
  /\ Left \subseteq Packed
  /\ \A p \in Left : top[1] <= p[1]

\* What is written so far: the keys that are new, and these with the old ones
\* that have been taken.
WrittenOk ==
  /\ Rising(keys) /\ Rising(merged) /\ Rising(old)
  /\ \A i \in 1 .. Len(keys) : <<keys[i], values[i]>> \in Packed /\ keys[i] # NullKey
  /\ Range(keys) \intersect seen = {}
  /\ Range(old) \subseteq seen
  /\ Range(merged) = Range(keys) \union (seen \ Range(old))
  /\ \A m \in Range(merged), o \in Range(old) : m < o

\* The pair returned last is known when the next one is asked for, and is
\* ahead of everything written when there is something to do with it.
AdvanceInv ==
  /\ ~new_empty
  /\ \A o \in Range(old) : top[1] < o
  /\ \A m \in Range(merged) : m <= top[1]
  /\ top[1] \in Known
  /\ \A p \in Packed : p \in Left \/ p[1] \in Known

NewInv ==
  /\ top \in Packed /\ top[1] # NullKey
  /\ \A m \in Range(merged) : m < top[1]
  /\ \A p \in Packed : p \in Left \/ p[1] \in Known \/ p[1] = top[1]

EmptyInv ==
  /\ DOMAIN streams = {}
  /\ \A p \in Packed : p[1] \in Known

MergeInv ==
  /\ pc = "pack" =>
       /\ keys = <<>> /\ values = <<>> /\ merged = <<>>
       /\ ~new_empty /\ top = <<NullKey, 0>>
  /\ pc # "pack" => StreamsOk /\ WrittenOk
  /\ pc = "advance" => AdvanceInv
  /\ pc = "merge" /\ ~new_empty => NewInv
  /\ new_empty => EmptyInv
  /\ pc = "done" => new_empty /\ old = <<>>

DedupInv == TypeOK /\ BatchesOk /\ PackInv /\ MergeInv

-----------------------------------------------------------------------------
(***************************************************************************)
(* Sequences in order.                                                     *)
(***************************************************************************)
LEMMA DomainOf ==
  ASSUME NEW S, NEW s \in Seq(S)
  PROVE  DOMAIN s = 1 .. Len(s) /\ Len(s) \in Nat /\ \A i \in 1 .. Len(s) : s[i] \in S
BY LenProperties, ElementOfSeq

LEMMA Appended ==
  ASSUME NEW S, NEW s \in Seq(S), NEW e \in S
  PROVE  /\ Append(s, e) \in Seq(S) /\ Len(Append(s, e)) = Len(s) + 1
         /\ Append(s, e)[Len(s) + 1] = e
         /\ \A i \in 1 .. Len(s) : Append(s, e)[i] = s[i]
         /\ Range(Append(s, e)) = Range(s) \union {e}
<1> DEFINE t == Append(s, e)
<1>1. /\ t \in Seq(S) /\ Len(t) = Len(s) + 1 /\ Len(s) \in Nat
      /\ t[Len(s) + 1] = e /\ \A i \in 1 .. Len(s) : t[i] = s[i]
  BY AppendProperties, LenProperties
<1> HIDE DEF t
<1>2. DOMAIN t = 1 .. Len(s) + 1 /\ DOMAIN s = 1 .. Len(s)
  BY <1>1, DomainOf
<1>3. Range(t) = Range(s) \union {e}
  <2>1. 1 .. Len(s) + 1 = (1 .. Len(s)) \union {Len(s) + 1}
    BY <1>1
  <2> QED
    BY <1>1, <1>2, <2>1 DEF Range
<1> QED
  BY <1>1, <1>3 DEF t

LEMMA RisingAppend ==
  ASSUME NEW s \in Seq(Key), Rising(s), NEW k \in Key, \A i \in 1 .. Len(s) : s[i] < k
  PROVE  Rising(Append(s, k))
<1> DEFINE t == Append(s, k)
<1>1. /\ t \in Seq(Key) /\ Len(t) = Len(s) + 1 /\ Len(s) \in Nat
      /\ t[Len(s) + 1] = k /\ \A i \in 1 .. Len(s) : t[i] = s[i]
  BY Appended, LenProperties
<1> HIDE DEF t
<1>2. DOMAIN t = 1 .. Len(s) + 1 /\ DOMAIN s = 1 .. Len(s)
  BY <1>1, DomainOf
<1> SUFFICES ASSUME NEW i \in DOMAIN t, NEW j \in DOMAIN t, i < j
             PROVE  t[i] < t[j]
  BY DEF Rising, t
<1>3. i \in 1 .. Len(s)
  BY <1>1, <1>2
<1>4. CASE j = Len(s) + 1
  BY <1>1, <1>3, <1>4
<1>5. CASE j \in 1 .. Len(s)
  BY <1>1, <1>2, <1>3, <1>5 DEF Rising
<1> QED
  BY <1>1, <1>2, <1>4, <1>5

\* The first of a sequence and the others.
LEMMA HeadAndTail ==
  ASSUME NEW S, NEW s \in Seq(S), s # <<>>
  PROVE  /\ Head(s) = s[1] /\ Head(s) \in S /\ Len(s) \in Nat \ {0}
         /\ Tail(s) \in Seq(S) /\ Len(Tail(s)) = Len(s) - 1
         /\ \A i \in 1 .. Len(s) - 1 : Tail(s)[i] = s[i + 1]
         /\ Range(s) = {Head(s)} \union Range(Tail(s))
<1> DEFINE t == Tail(s)
<1>1. /\ Head(s) = s[1] /\ Head(s) \in S /\ Len(s) \in Nat \ {0}
      /\ t \in Seq(S) /\ Len(t) = Len(s) - 1
      /\ \A i \in 1 .. Len(s) - 1 : t[i] = s[i + 1]
  BY HeadTailProperties, EmptySeq
<1> HIDE DEF t
<1>2. DOMAIN s = 1 .. Len(s) /\ DOMAIN t = 1 .. Len(s) - 1
  BY <1>1, DomainOf
<1>3. Range(s) = {Head(s)} \union Range(t)
  <2>1. \A i \in 1 .. Len(s) : i = 1 \/ (i - 1 \in 1 .. Len(s) - 1 /\ s[i] = t[i - 1])
    BY <1>1
  <2>2. \A i \in 1 .. Len(s) - 1 : i + 1 \in 1 .. Len(s)
    BY <1>1
  <2>3. Range(s) \subseteq {Head(s)} \union Range(t)
    BY <1>1, <1>2, <2>1 DEF Range
  <2>4. Head(s) \in Range(s)
    BY <1>1, <1>2 DEF Range
  <2>5. Range(t) \subseteq Range(s)
    BY <1>1, <1>2, <2>2 DEF Range
  <2> QED
    BY <2>3, <2>4, <2>5
<1> QED
  BY <1>1, <1>3 DEF t

LEMMA RisingTail ==
  ASSUME NEW s \in Seq(Key), s # <<>>, Rising(s)
  PROVE  /\ Rising(Tail(s)) /\ \A k \in Range(Tail(s)) : Head(s) < k
         /\ Head(s) \notin Range(Tail(s))
<1> DEFINE t == Tail(s)
<1>1. /\ Head(s) = s[1] /\ Len(s) \in Nat \ {0} /\ t \in Seq(Key) /\ Len(t) = Len(s) - 1
      /\ \A i \in 1 .. Len(s) - 1 : t[i] = s[i + 1]
      /\ Head(s) \in Nat
  BY HeadAndTail, MergeAssumption
<1> HIDE DEF t
<1>2. DOMAIN s = 1 .. Len(s) /\ DOMAIN t = 1 .. Len(s) - 1
  BY <1>1, DomainOf
<1>3. Rising(t)
  <2> SUFFICES ASSUME NEW i \in DOMAIN t, NEW j \in DOMAIN t, i < j
               PROVE  t[i] < t[j]
    BY DEF Rising
  <2>1. i + 1 \in DOMAIN s /\ j + 1 \in DOMAIN s /\ i + 1 < j + 1
    BY <1>1, <1>2
  <2> QED
    BY <1>1, <1>2, <2>1 DEF Rising
<1>4. \A k \in Range(t) : Head(s) < k
  <2> SUFFICES ASSUME NEW i \in DOMAIN t PROVE s[1] < t[i]
    BY <1>1 DEF Range
  <2>1. 1 \in DOMAIN s /\ i + 1 \in DOMAIN s /\ 1 < i + 1
    BY <1>1, <1>2
  <2> QED
    BY <1>1, <1>2, <2>1 DEF Rising
<1>5. Head(s) \notin Range(t)
  BY <1>1, <1>4
<1> QED
  BY <1>3, <1>4, <1>5 DEF t

LEMMA RisingPairsTail ==
  ASSUME NEW s \in Seq(Pair), s # <<>>, RisingPairs(s)
  PROVE  /\ RisingPairs(Tail(s)) /\ \A p \in Range(Tail(s)) : Head(s)[1] < p[1]
<1> DEFINE t == Tail(s)
<1>1. /\ Head(s) = s[1] /\ Len(s) \in Nat \ {0} /\ t \in Seq(Pair) /\ Len(t) = Len(s) - 1
      /\ \A i \in 1 .. Len(s) - 1 : t[i] = s[i + 1]
  BY HeadAndTail
<1> HIDE DEF t
<1>2. DOMAIN s = 1 .. Len(s) /\ DOMAIN t = 1 .. Len(s) - 1
  BY <1>1, DomainOf
<1>3. RisingPairs(t)
  <2> SUFFICES ASSUME NEW i \in DOMAIN t, NEW j \in DOMAIN t, i < j
               PROVE  t[i][1] < t[j][1]
    BY DEF RisingPairs
  <2>1. i + 1 \in DOMAIN s /\ j + 1 \in DOMAIN s /\ i + 1 < j + 1
    BY <1>1, <1>2
  <2> QED
    BY <1>1, <1>2, <2>1 DEF RisingPairs
<1>4. \A p \in Range(t) : Head(s)[1] < p[1]
  <2> SUFFICES ASSUME NEW i \in DOMAIN t PROVE s[1][1] < t[i][1]
    BY <1>1 DEF Range
  <2>1. 1 \in DOMAIN s /\ i + 1 \in DOMAIN s /\ 1 < i + 1
    BY <1>1, <1>2
  <2> QED
    BY <1>1, <1>2, <2>1 DEF RisingPairs
<1> QED
  BY <1>3, <1>4 DEF t

-----------------------------------------------------------------------------
(***************************************************************************)
(* Runs.                                                                   *)
(***************************************************************************)
LEMMA PairParts ==
  ASSUME NEW p \in Pair
  PROVE  p = <<p[1], p[2]>> /\ p[1] \in Key /\ p[2] \in HashByte /\ p[1] \in Nat
<1>1. p = <<p[1], p[2]>> /\ p[1] \in Key /\ p[2] \in HashByte
  BY DEF Pair
<1> QED
  BY <1>1, MergeAssumption

LEMMA LeastKey ==
  ASSUME NEW k \in Key
  PROVE  k \in Nat /\ NullKey \in Key /\ NullKey \in Nat /\ NullKey <= k
BY MergeAssumption

\* What PackPair does to the run of the pairs before it.
LEMMA RunGrows ==
  ASSUME NEW p \in Seq(Pair), InKeyOrder(p), NEW n \in Nat, n < Len(p),
         NEW ks \in Seq(Key), NEW vs \in Seq(HashByte), Len(ks) = Len(vs),
         RunOf(ks, vs, p, n),
         NEW last \in Key, IF n = 0 THEN last = NullKey ELSE last = p[n][1]
  PROVE  /\ p[n + 1][1] = last => RunOf(ks, vs, p, n + 1)
         /\ p[n + 1][1] # last =>
              RunOf(Append(ks, p[n + 1][1]), Append(vs, p[n + 1][2]), p, n + 1)
<1> DEFINE h == p[n + 1]
<1>1. /\ Len(p) \in Nat /\ DOMAIN p = 1 .. Len(p) /\ n + 1 \in 1 .. Len(p)
      /\ h \in Pair /\ (n # 0 => n \in 1 .. Len(p))
      /\ \A j \in 1 .. n : j \in 1 .. Len(p) /\ j \in 1 .. n + 1
  BY DomainOf
<1>2. \A j \in 1 .. Len(p) : p[j] \in Pair
  BY DomainOf
<1>3. h = <<h[1], h[2]>> /\ h[1] \in Key /\ h[2] \in HashByte
  BY <1>1, PairParts
<1>4. Len(ks) \in Nat /\ \A i \in 1 .. Len(ks) : ks[i] \in Key
  BY DomainOf
<1>5. 1 .. n + 1 = (1 .. n) \union {n + 1}
  OBVIOUS
<1>6. ASSUME h[1] = last PROVE RunOf(ks, vs, p, n + 1)
  <2>1. h[1] = NullKey \/ \E i \in 1 .. Len(ks) : ks[i] = h[1]
    <3>1. CASE n = 0
      BY <1>6, <3>1
    <3>2. CASE n # 0
      <4>1. n \in 1 .. n /\ p[n][1] = h[1]
        BY <1>6, <3>2
      <4> QED
        BY <4>1 DEF RunOf
    <3> QED
      BY <3>1, <3>2
  <2> QED
    BY <2>1, <1>1, <1>5 DEF RunOf
<1>7. ASSUME h[1] # last PROVE RunOf(Append(ks, h[1]), Append(vs, h[2]), p, n + 1)
  <2>1. last < h[1] /\ \A i \in 1 .. Len(ks) : ks[i] <= last
    <3>1. last \in Nat /\ h[1] \in Nat /\ NullKey <= h[1] /\ \A i \in 1 .. Len(ks) : ks[i] \in Nat
      BY <1>3, <1>4, LeastKey
    <3>2. CASE n = 0
      <4>1. Len(ks) = 0
        BY <1>4, <3>2 DEF RunOf
      <4> QED
        BY <1>7, <3>1, <3>2, <4>1
    <3>3. CASE n # 0
      <4>1. p[n][1] <= h[1]
        BY <1>1, <3>3, SMTT(60) DEF InKeyOrder
      <4>2. ASSUME NEW i \in 1 .. Len(ks) PROVE ks[i] <= last
        <5>1. PICK j \in 1 .. n : p[j] = <<ks[i], vs[i]>>
          BY DEF RunOf
        <5>2. p[j][1] = ks[i]
          BY <5>1
        <5>3. CASE j = n
          BY <1>4, <3>1, <3>3, <5>2, <5>3
        <5>4. CASE j < n
          BY <1>1, <3>3, <5>2, <5>4 DEF InKeyOrder
        <5> QED
          BY <5>3, <5>4
      <4> QED
        BY <1>7, <3>1, <3>3, <4>1, <4>2
    <3> QED
      BY <3>2, <3>3
  <2>2. h[1] # NullKey /\ \A i \in 1 .. Len(ks) : ks[i] < h[1]
    BY <1>3, <1>4, <2>1, LeastKey, SMTT(60)
  <2>3. Rising(Append(ks, h[1]))
    BY <1>3, <2>2, RisingAppend DEF RunOf
  <2> DEFINE k2 == Append(ks, h[1])
             v2 == Append(vs, h[2])
  <2>4. /\ Len(k2) = Len(ks) + 1 /\ k2[Len(ks) + 1] = h[1] /\ v2[Len(ks) + 1] = h[2]
        /\ \A i \in 1 .. Len(ks) : k2[i] = ks[i]
        /\ \A i \in 1 .. Len(ks) : v2[i] = vs[i]
    BY <1>3, Appended
  <2>5. 1 .. Len(ks) + 1 = (1 .. Len(ks)) \union {Len(ks) + 1}
    BY <1>4, SMTT(60)
  <2> HIDE DEF k2, v2
  <2>6. ASSUME NEW i \in 1 .. Len(k2)
        PROVE  k2[i] # NullKey /\ \E j \in 1 .. n + 1 : p[j] = <<k2[i], v2[i]>>
    <3>1. CASE i \in 1 .. Len(ks)
      <4>1. ks[i] # NullKey /\ \E j \in 1 .. n : p[j] = <<ks[i], vs[i]>>
        BY <3>1 DEF RunOf
      <4> QED
        BY <1>5, <2>4, <3>1, <4>1
    <3>2. CASE i = Len(ks) + 1
      BY <1>3, <1>5, <2>2, <2>4, <3>2
    <3> QED
      BY <2>4, <2>5, <3>1, <3>2
  <2>7. ASSUME NEW j \in 1 .. n + 1
        PROVE  p[j][1] = NullKey \/ \E i \in 1 .. Len(k2) : k2[i] = p[j][1]
    <3>1. CASE j \in 1 .. n
      BY <2>4, <2>5, <3>1 DEF RunOf
    <3>2. CASE j = n + 1
      BY <2>4, <2>5, <3>2
    <3> QED
      BY <1>5, <3>1, <3>2
  <2> QED
    BY <2>3, <2>6, <2>7 DEF RunOf, k2, v2
<1> QED
  BY <1>6, <1>7

LEMMA PairedIs ==
  ASSUME NEW ks \in Seq(Key), NEW vs \in Seq(HashByte), Len(ks) = Len(vs), NEW b \in Seq(Key)
  PROVE  /\ Paired(ks, vs) = [i \in 1 .. Len(ks) |-> <<ks[i], vs[i]>>]
         /\ Paired(ks \o b, vs) = [i \in 1 .. Len(ks) |-> <<ks[i], vs[i]>>]
<1> DEFINE kb == ks \o b
<1>1. /\ Len(kb) = Len(ks) + Len(b) /\ Len(ks) \in Nat /\ Len(b) \in Nat
      /\ \A i \in 1 .. Len(ks) : kb[i] = ks[i]
  <2>1. \A i \in 1 .. Len(ks) : i <= Len(ks) /\ i \in 1 .. Len(ks) + Len(b)
    BY LenProperties
  <2> QED
    BY <2>1, ConcatProperties, LenProperties
<1> HIDE DEF kb
<1>2. ASSUME NEW l \in Nat, Len(ks) <= l
      PROVE  Min({l, Len(vs)}) = Len(ks)
  BY <1>1, <1>2 DEF Min
<1>3. Min({Len(ks), Len(vs)}) = Len(ks) /\ Min({Len(kb), Len(vs)}) = Len(ks)
  BY <1>1, <1>2, SMTT(60)
<1>4. Paired(kb, vs) = [i \in 1 .. Len(ks) |-> <<ks[i], vs[i]>>]
  BY <1>1, <1>3 DEF Paired
<1> QED
  BY <1>3, <1>4 DEF Paired, kb

\* The runs have the kinds that TypeOK says.
LEMMA RunsAre ==
  ASSUME TypeOK
  PROVE  /\ Now \in Nat /\ DOMAIN new_keys = 1 .. Now /\ DOMAIN new_values = 1 .. Now
         /\ \A r \in 1 .. Now : /\ new_keys[r] \in Seq(Key) /\ new_values[r] \in Seq(HashByte)
                                /\ Len(new_keys[r]) = Len(new_values[r])
                                /\ Len(new_keys[r]) \in Nat
<1> DEFINE K == Seq(Key)
           V == Seq(HashByte)
<1>1. /\ new_keys \in Seq(K) /\ new_values \in Seq(V) /\ Len(new_keys) = Len(new_values)
      /\ \A r \in DOMAIN new_keys : Len(new_keys[r]) = Len(new_values[r])
  BY DEF TypeOK
<1> HIDE DEF K, V
<1>2. /\ Len(new_keys) \in Nat /\ DOMAIN new_keys = 1 .. Len(new_keys)
      /\ DOMAIN new_values = 1 .. Len(new_keys)
      /\ \A r \in 1 .. Len(new_keys) : new_keys[r] \in K /\ new_values[r] \in V
  BY <1>1, DomainOf
<1>3. \A r \in 1 .. Len(new_keys) : new_keys[r] \in Seq(Key) /\ new_values[r] \in Seq(HashByte)
  BY <1>2 DEF K, V
<1> QED
  BY <1>1, <1>2, <1>3, LenProperties DEF Now

LEMMA BatchesAre ==
  ASSUME TypeOK, BatchesOk
  PROVE  /\ Len(batches) \in Nat \ {0} /\ DOMAIN batches = 1 .. Len(batches)
         /\ \A b \in 1 .. Len(batches) : /\ batches[b] \in Seq(Pair) /\ InKeyOrder(batches[b])
                                         /\ Len(batches[b]) \in Nat
                                         /\ DOMAIN batches[b] = 1 .. Len(batches[b])
<1> DEFINE P == Seq(Pair)
<1>1. batches \in Seq(P) /\ batches # <<>>
  BY DEF TypeOK, BatchesOk
<1> HIDE DEF P
<1>2. /\ Len(batches) \in Nat \ {0} /\ DOMAIN batches = 1 .. Len(batches)
      /\ \A b \in 1 .. Len(batches) : batches[b] \in P
  BY <1>1, DomainOf, EmptySeq
<1>3. \A b \in 1 .. Len(batches) : batches[b] \in Seq(Pair)
  BY <1>2 DEF P
<1> QED
  BY <1>2, <1>3, DomainOf DEF BatchesOk

LEMMA PairsInRun ==
  ASSUME TypeOK, NEW r \in DOMAIN new_keys
  PROVE  /\ PairsIn(r) = {<<new_keys[r][i], new_values[r][i]>> : i \in 1 .. Len(new_keys[r])}
         /\ PairsIn(r) \subseteq Pair
<1>1. /\ new_keys[r] \in Seq(Key) /\ new_values[r] \in Seq(HashByte)
      /\ Len(new_keys[r]) = Len(new_values[r])
  BY RunsAre
<1> DEFINE f == [i \in 1 .. Len(new_keys[r]) |-> <<new_keys[r][i], new_values[r][i]>>]
<1>2. <<>> \in Seq(Key)
  OBVIOUS
<1>3. Paired(new_keys[r], new_values[r]) = f
  BY <1>1, <1>2, PairedIs
<1>4. \A i \in 1 .. Len(new_keys[r]) : <<new_keys[r][i], new_values[r][i]>> \in Pair
  BY <1>1, DomainOf DEF Pair
<1> QED
  BY <1>3, <1>4 DEF PairsIn, Range

LEMMA PackedIs ==
  ASSUME TypeOK
  PROVE  /\ Packed \subseteq Pair
         /\ \A p \in Packed : \E r \in DOMAIN new_keys : \E i \in 1 .. Len(new_keys[r]) :
              p = <<new_keys[r][i], new_values[r][i]>>
         /\ \A r \in DOMAIN new_keys : \A i \in 1 .. Len(new_keys[r]) :
              <<new_keys[r][i], new_values[r][i]>> \in Packed
BY PairsInRun DEF Packed

-----------------------------------------------------------------------------
(***************************************************************************)
(* pack_pairs keeps the invariant.                                         *)
(***************************************************************************)
LEMMA InitInv == Init => DedupInv
<1> SUFFICES ASSUME Init PROVE DedupInv
  OBVIOUS
<1> DEFINE P == Seq(Pair)
           K == Seq(Key)
           V == Seq(HashByte)
<1>1. /\ batches \in Seq(P) /\ batches # <<>> /\ \A b \in DOMAIN batches : InKeyOrder(batches[b])
  BY MergeAssumption DEF Init
<1> HIDE DEF P
<1>2. /\ Len(batches) \in Nat \ {0} /\ 1 \in 1 .. Len(batches)
      /\ \A b \in 1 .. Len(batches) : batches[b] \in P
  BY <1>1, DomainOf, EmptySeq
<1>3. batches[1] \in Seq(Pair) /\ Len(batches[1]) \in Nat
  BY <1>2, DomainOf DEF P
<1>4. <<>> \in K /\ <<>> \in V
  OBVIOUS
<1> HIDE DEF K, V
<1>5. /\ new_keys \in Seq(K) /\ new_values \in Seq(V) /\ Len(new_keys) = 1 /\ Len(new_values) = 1
      /\ DOMAIN new_keys = 1 .. 1 /\ new_keys[1] = <<>> /\ new_values[1] = <<>>
  BY <1>4 DEF Init
<1>6. TypeOK
  <2>1. /\ batches \in Seq(Seq(Pair)) /\ new_keys \in Seq(Seq(Key)) /\ new_values \in Seq(Seq(HashByte))
    BY <1>1, <1>5 DEF P, K, V
  <2>2. \A r \in DOMAIN new_keys : Len(new_keys[r]) = Len(new_values[r])
    BY <1>5
  <2>3. top \in Pair /\ prev \in Key /\ seen \subseteq Key
    BY MergeAssumption DEF Init, Pair
  <2>4. DOMAIN streams = {}
    BY DEF Init
  <2>5. /\ unpacked \in Seq(Pair) /\ new_empty \in BOOLEAN /\ old = <<>> /\ keys = <<>>
        /\ merged = <<>> /\ values = <<>> /\ pc = "pack"
    BY <1>3 DEF Init
  <2>6. /\ old \in Seq(Key) /\ keys \in Seq(Key) /\ merged \in Seq(Key)
        /\ values \in Seq(HashByte) /\ Len(values) = Len(keys)
    BY <2>5
  <2>7. Len(new_keys) = Len(new_values)
    BY <1>5
  <2> QED
    BY <2>1, <2>2, <2>3, <2>4, <2>5, <2>6, <2>7 DEF TypeOK
<1>7. BatchesOk
  BY <1>1 DEF Init, BatchesOk
<1>8. PackInv
  <2>1. Now = 1 /\ Taken = 0 /\ unpacked = batches[1] /\ prev = NullKey
    BY <1>3, <1>5 DEF Now, Taken, Init
  <2>2. RunOf(new_keys[1], new_values[1], batches[1], 0)
    BY <1>5 DEF RunOf, Rising
  <2> QED
    BY <1>2, <1>3, <2>1, <2>2 DEF PackInv, Init
<1>9. MergeInv
  BY DEF Init, MergeInv
<1> QED
  BY <1>6, <1>7, <1>8, <1>9 DEF DedupInv

LEMMA PackPairKeeps ==
  ASSUME DedupInv, PackPair
  PROVE  DedupInv'
<1> DEFINE h == Head(unpacked)
           p == batches[Now]
           ks == new_keys[Now]
           vs == new_values[Now]
<1>1. /\ TypeOK /\ BatchesOk /\ PackInv /\ MergeInv
      /\ pc = "pack" /\ unpacked # <<>> /\ unpacked \in Seq(Pair)
      /\ Now \in 1 .. Len(batches)
      /\ UNCHANGED <<batches, seen, streams, top, new_empty, old, keys, values, merged, pc>>
  BY DEF DedupInv, PackPair, PackInv, TypeOK, merging, written
<1>2. /\ p \in Seq(Pair) /\ InKeyOrder(p) /\ Len(p) \in Nat /\ Taken \in Nat
      /\ ks \in Seq(Key) /\ vs \in Seq(HashByte) /\ Len(ks) = Len(vs)
      /\ Now \in DOMAIN new_keys /\ Now \in DOMAIN new_values /\ Now \in 1 .. Now /\ Now \in Nat
      /\ RunOf(ks, vs, p, Taken) /\ prev \in Key
      /\ IF Taken = 0 THEN prev = NullKey ELSE prev = p[Taken][1]
  <2>1. Now \in Nat /\ Now \in 1 .. Now
    BY <1>1, RunsAre
  <2> QED
    BY <1>1, <2>1, BatchesAre, RunsAre DEF PackInv, TypeOK
<1>3. /\ unpacked' \in Seq(Pair) /\ Len(unpacked') = Len(unpacked) - 1 /\ Len(unpacked) \in Nat \ {0}
      /\ h = unpacked[1] /\ h \in Pair
      /\ \A i \in 1 .. Len(unpacked) - 1 : unpacked'[i] = unpacked[i + 1]
  BY <1>1, HeadAndTail DEF PackPair
<1>4. /\ h = p[Taken + 1] /\ Taken < Len(p)
      /\ h[1] \in Key /\ h[2] \in HashByte
      /\ \A i \in 1 .. Len(unpacked) - 1 : unpacked'[i] = p[Taken + 1 + i]
  <2>1. \A i \in 1 .. Len(unpacked) : unpacked[i] = p[Taken + i]
    BY <1>1 DEF PackInv
  <2>2. Taken = Len(p) - Len(unpacked)
    BY DEF Taken
  <2>3. 1 \in 1 .. Len(unpacked) /\ \A i \in 1 .. Len(unpacked) - 1 : i + 1 \in 1 .. Len(unpacked)
    BY <1>3
  <2>4. \A i \in 1 .. Len(unpacked) - 1 : Taken + (i + 1) = Taken + 1 + i
    BY <1>2, <1>3
  <2> HIDE DEF h, p
  <2>5. h = p[Taken + 1]
    BY <1>3, <2>1, <2>3
  <2>6. Taken < Len(p)
    BY <1>2, <1>3, <2>2 DEF p
  <2>7. h[1] \in Key /\ h[2] \in HashByte
    BY <1>3, PairParts
  <2>8. \A i \in 1 .. Len(unpacked) - 1 : unpacked'[i] = p[Taken + 1 + i]
    BY <1>3, <2>1, <2>3, <2>4
  <2> QED
    BY <2>5, <2>6, <2>7, <2>8
<1>5. /\ h[1] = prev => RunOf(ks, vs, p, Taken + 1)
      /\ h[1] # prev => RunOf(Append(ks, h[1]), Append(vs, h[2]), p, Taken + 1)
  <2> HIDE DEF h, p, ks, vs
  <2> QED
    BY <1>2, <1>4, RunGrows
<1>6. /\ Now' = Now /\ Taken' = Taken + 1 /\ prev' = p[Taken + 1][1]
      /\ new_keys' \in Seq(Seq(Key)) /\ new_values' \in Seq(Seq(HashByte))
      /\ DOMAIN new_keys' = DOMAIN new_keys /\ Len(new_keys') = Len(new_values')
      /\ \A r \in DOMAIN new_keys : r # Now => new_keys'[r] = new_keys[r] /\ new_values'[r] = new_values[r]
      /\ RunOf(new_keys'[Now], new_values'[Now], p, Taken + 1)
      /\ Len(new_keys'[Now]) = Len(new_values'[Now])
  <2> DEFINE K == Seq(Key)
             V == Seq(HashByte)
  <2>1. new_keys \in Seq(K) /\ new_values \in Seq(V) /\ Len(new_keys) = Len(new_values)
    BY <1>1 DEF TypeOK
  <2>2. batches' = batches /\ Len(unpacked') = Len(unpacked) - 1
    BY <1>1, <1>3
  <2>3. CASE h[1] = prev
    <3>1. new_keys' = new_keys /\ new_values' = new_values /\ prev' = prev
      BY <2>3 DEF PackPair
    <3>2. Now' = Now
      BY <3>1 DEF Now
    <3>3. Taken' = Taken + 1
      BY <1>2, <1>3, <2>2, <3>2 DEF Taken
    <3> QED
      BY <1>2, <1>4, <1>5, <2>1, <2>3, <3>1, <3>2, <3>3
  <2>4. CASE h[1] # prev
    <3>1. /\ new_keys' = [new_keys EXCEPT ![Now] = Append(new_keys[Now], h[1])]
          /\ new_values' = [new_values EXCEPT ![Now] = Append(new_values[Now], h[2])]
          /\ prev' = h[1]
      <4>1. Len(new_keys) = Now /\ Len(new_values) = Now
        BY <2>1 DEF Now
      <4> QED
        BY <2>4, <4>1 DEF PackPair, Written
    <3>2. Append(ks, h[1]) \in K /\ Append(vs, h[2]) \in V /\ Len(Append(ks, h[1])) = Len(Append(vs, h[2]))
      BY <1>2, <1>4, Appended
    <3> DEFINE k2 == Append(ks, h[1])
               v2 == Append(vs, h[2])
    <3> HIDE DEF K, V
    <3>3. /\ new_keys' \in Seq(K) /\ new_values' \in Seq(V)
          /\ Len(new_keys') = Len(new_keys) /\ Len(new_values') = Len(new_values)
          /\ DOMAIN new_keys' = DOMAIN new_keys /\ DOMAIN new_values' = DOMAIN new_values
      BY <1>2, <2>1, <3>1, <3>2, ExceptSeq, DomainOf DEF Now
    <3>4. /\ new_keys'[Now] = k2 /\ new_values'[Now] = v2
          /\ \A r \in DOMAIN new_keys : r # Now => new_keys'[r] = new_keys[r]
          /\ \A r \in DOMAIN new_values : r # Now => new_values'[r] = new_values[r]
      BY <1>2, <3>1
    <3>5. DOMAIN new_keys = DOMAIN new_values
      BY <2>1, DomainOf
    <3>6. Now' = Now
      BY <3>3 DEF Now
    <3>7. Taken' = Taken + 1
      BY <1>2, <1>3, <2>2, <3>6 DEF Taken
    <3>8. Len(new_keys'[Now]) = Len(new_values'[Now])
      BY <3>2, <3>4
    <3>9. RunOf(new_keys'[Now], new_values'[Now], p, Taken + 1)
      BY <1>5, <2>4, <3>4
    <3>10. new_keys' \in Seq(Seq(Key)) /\ new_values' \in Seq(Seq(HashByte)) /\ prev' = p[Taken + 1][1]
      BY <1>4, <3>1, <3>3 DEF K, V
    <3> QED
      BY <2>1, <3>3, <3>4, <3>5, <3>6, <3>7, <3>8, <3>9, <3>10
  <2> QED
    BY <2>3, <2>4
<1> HIDE DEF h, p, ks, vs
<1>7. TypeOK'
  <2>1. \A r \in DOMAIN new_keys' : Len(new_keys'[r]) = Len(new_values'[r])
    BY <1>1, <1>6 DEF TypeOK
  <2>2. prev' \in Key
    BY <1>4, <1>6
  <2> QED
    BY <1>1, <1>3, <1>6, <2>1, <2>2 DEF TypeOK
<1>8. PackInv'
  <2>1. \A r \in 1 .. Now - 1 : r \in DOMAIN new_keys /\ r # Now
    BY <1>1, <1>2, RunsAre
  <2>2. \A r \in 1 .. Now - 1 : RunOf(new_keys'[r], new_values'[r], batches[r], Len(batches[r]))
    BY <1>1, <1>6, <2>1 DEF PackInv
  <2>3. batches' = batches /\ p = batches[Now] /\ pc' = "pack" /\ Now \in 1 .. Len(batches)
    BY <1>1 DEF p
  <2>4. Taken + 1 \in Nat /\ Taken + 1 # 0
    BY <1>2
  <2> QED
    BY <1>3, <1>4, <1>6, <2>2, <2>3, <2>4 DEF PackInv
<1>9. BatchesOk' /\ MergeInv'
  BY <1>1 DEF BatchesOk, MergeInv
<1> QED
  BY <1>7, <1>8, <1>9 DEF DedupInv

LEMMA NextBatchKeeps ==
  ASSUME DedupInv, NextBatch
  PROVE  DedupInv'
<1> DEFINE K == Seq(Key)
           V == Seq(HashByte)
<1>1. /\ TypeOK /\ BatchesOk /\ PackInv /\ MergeInv
      /\ pc = "pack" /\ unpacked = <<>> /\ Now < Len(batches)
      /\ UNCHANGED <<batches, seen, streams, top, new_empty, old, keys, values, merged, pc>>
  BY DEF DedupInv, NextBatch, Now, merging, written
<1>2. /\ Now \in Nat \ {0} /\ Now + 1 \in 1 .. Len(batches)
      /\ DOMAIN new_keys = 1 .. Now /\ DOMAIN new_values = 1 .. Now
      /\ Len(batches) \in Nat /\ Now \in 1 .. Len(batches)
  BY <1>1, RunsAre, BatchesAre DEF PackInv
<1>3. /\ unpacked' = batches[Now + 1] /\ batches[Now + 1] \in Seq(Pair) /\ Len(batches[Now + 1]) \in Nat
      /\ Len(batches[Now]) \in Nat /\ prev' = NullKey
  BY <1>1, <1>2, BatchesAre DEF NextBatch, Now
<1>4. /\ new_keys \in Seq(K) /\ new_values \in Seq(V) /\ Len(new_keys) = Len(new_values)
      /\ <<>> \in K /\ <<>> \in V /\ Len(new_keys) = Now
      /\ new_keys' = Append(new_keys, <<>>) /\ new_values' = Append(new_values, <<>>)
  BY <1>1 DEF TypeOK, NextBatch, Now
<1> HIDE DEF K, V
<1>5. /\ new_keys' \in Seq(K) /\ new_values' \in Seq(V)
      /\ Len(new_keys') = Now + 1 /\ Len(new_values') = Now + 1
      /\ new_keys'[Now + 1] = <<>> /\ new_values'[Now + 1] = <<>>
      /\ \A r \in 1 .. Now : new_keys'[r] = new_keys[r] /\ new_values'[r] = new_values[r]
  <2>1. Len(new_values) = Now
    BY <1>4
  <2>2. /\ new_keys' \in Seq(K) /\ Len(new_keys') = Now + 1 /\ new_keys'[Now + 1] = <<>>
        /\ \A r \in 1 .. Now : new_keys'[r] = new_keys[r]
    BY <1>4, Appended
  <2>3. /\ new_values' \in Seq(V) /\ Len(new_values') = Now + 1 /\ new_values'[Now + 1] = <<>>
        /\ \A r \in 1 .. Now : new_values'[r] = new_values[r]
    BY <1>4, <2>1, Appended
  <2> QED
    BY <2>2, <2>3
<1>6. DOMAIN new_keys' = 1 .. Now + 1 /\ 1 .. Now + 1 = (1 .. Now) \union {Now + 1}
  BY <1>2, <1>5, DomainOf
<1>7. TypeOK'
  <2>1. \A r \in DOMAIN new_keys' : Len(new_keys'[r]) = Len(new_values'[r])
    BY <1>1, <1>2, <1>5, <1>6 DEF TypeOK
  <2>2. new_keys' \in Seq(Seq(Key)) /\ new_values' \in Seq(Seq(HashByte))
    BY <1>5 DEF K, V
  <2>3. prev' \in Key /\ unpacked' \in Seq(Pair)
    BY <1>3, MergeAssumption
  <2>4. DOMAIN streams' \subseteq DOMAIN new_keys'
    BY <1>1, <1>2, <1>6 DEF TypeOK
  <2>5. Len(new_keys') = Len(new_values')
    BY <1>5
  <2> QED
    BY <1>1, <2>1, <2>2, <2>3, <2>4, <2>5 DEF TypeOK
<1>8. PackInv'
  <2>1. Now' = Now + 1
    BY <1>5 DEF Now
  <2>2. Taken' = 0
    BY <1>1, <1>3, <2>1 DEF Taken
  <2>3. \A i \in 1 .. Len(unpacked') : unpacked'[i] = batches[Now + 1][0 + i]
    BY <1>3
  <2>4. RunOf(new_keys'[Now + 1], new_values'[Now + 1], batches[Now + 1], 0)
    BY <1>5 DEF RunOf, Rising
  <2>5. \A r \in 1 .. Now : RunOf(new_keys'[r], new_values'[r], batches[r], Len(batches[r]))
    <3> SUFFICES ASSUME NEW r \in 1 .. Now
                 PROVE  RunOf(new_keys[r], new_values[r], batches[r], Len(batches[r]))
      BY <1>5
    <3>1. CASE r = Now
      <4>1. Taken = Len(batches[Now])
        BY <1>1, <1>3 DEF Taken
      <4> QED
        BY <1>1, <3>1, <4>1 DEF PackInv
    <3>2. CASE r \in 1 .. Now - 1
      BY <1>1, <3>2 DEF PackInv
    <3> QED
      BY <1>2, <3>1, <3>2
  <2>6. \A r \in 1 .. (Now + 1) - 1 : r \in 1 .. Now
    BY <1>2
  <2>7. \A r \in 1 .. (Now + 1) - 1 : RunOf(new_keys'[r], new_values'[r], batches[r], Len(batches[r]))
    BY <2>5, <2>6
  <2>8. batches' = batches /\ pc' = "pack" /\ prev' = NullKey /\ 0 \in Nat
    BY <1>1, <1>3
  <2> QED
    BY <1>2, <2>1, <2>2, <2>3, <2>4, <2>7, <2>8 DEF PackInv
<1>9. BatchesOk' /\ MergeInv'
  BY <1>1 DEF BatchesOk, MergeInv
<1> QED
  BY <1>7, <1>8, <1>9 DEF DedupInv

-----------------------------------------------------------------------------
(***************************************************************************)
(* dedup keeps the invariant.                                              *)
(***************************************************************************)
\* After packing, nothing writes what pack_pairs has written.
LEMMA PackedStays ==
  ASSUME DedupInv, pc # "pack" \/ Start, UNCHANGED <<batches, seen, packing>>, pc' # "pack"
  PROVE  BatchesOk' /\ PackInv' /\ Packed' = Packed
<1>1. PackInv /\ BatchesOk /\ UNCHANGED <<batches, seen, new_keys, new_values, unpacked, prev>>
  BY DEF DedupInv, packing
<1>2. unpacked = <<>> /\ Now = Len(batches)
  BY <1>1 DEF Start, PackInv, Now
<1>3. Now' = Now /\ Taken' = Taken /\ Packed' = Packed
  BY <1>1 DEF Now, Taken, Packed, PairsIn
<1> QED
  BY <1>1, <1>2, <1>3 DEF PackInv, BatchesOk

\* The runs as the interleaver gets them.
LEMMA Streams ==
  ASSUME TypeOK, NEW b \in Seq(Key), \A r \in DOMAIN new_keys : Rising(new_keys[r]),
         streams' = Interleaved([r \in DOMAIN new_keys |-> Paired(new_keys[r] \o b, new_values[r])])
  PROVE  /\ DOMAIN streams' \subseteq DOMAIN new_keys
         /\ \A r \in DOMAIN streams' : streams'[r] \in Seq(Pair) \ {<<>>} /\ RisingPairs(streams'[r])
         /\ Left' = Packed
<1> DEFINE f(r) == [i \in 1 .. Len(new_keys[r]) |-> <<new_keys[r][i], new_values[r][i]>>]
           runs == [r \in DOMAIN new_keys |-> Paired(new_keys[r] \o b, new_values[r])]
<1>1. /\ DOMAIN new_keys = 1 .. Now
      /\ \A r \in DOMAIN new_keys : /\ new_keys[r] \in Seq(Key) /\ new_values[r] \in Seq(HashByte)
                                    /\ Len(new_keys[r]) = Len(new_values[r])
                                    /\ Len(new_keys[r]) \in Nat
  BY RunsAre
<1>2. \A r \in DOMAIN new_keys : runs[r] = f(r) /\ Range(f(r)) = PairsIn(r)
  <2> TAKE r \in DOMAIN new_keys
  <2>1. Paired(new_keys[r] \o b, new_values[r]) = f(r) /\ Paired(new_keys[r], new_values[r]) = f(r)
    BY <1>1, PairedIs
  <2> QED
    BY <2>1 DEF PairsIn
<1>3. \A r \in DOMAIN new_keys : f(r) \in Seq(Pair) /\ RisingPairs(f(r))
  <2> TAKE r \in DOMAIN new_keys
  <2>1. \A i \in 1 .. Len(new_keys[r]) : <<new_keys[r][i], new_values[r][i]>> \in Pair
    BY <1>1, DomainOf DEF Pair
  <2>2. f(r) \in Seq(Pair)
    BY <1>1, <2>1, IsASeq
  <2>3. DOMAIN new_keys[r] = 1 .. Len(new_keys[r])
    BY <1>1, DomainOf
  <2> QED
    BY <2>2, <2>3 DEF Rising, RisingPairs
<1>4. streams' = [r \in {q \in DOMAIN new_keys : runs[q] # <<>>} |-> runs[r]]
  BY DEF Interleaved
<1> HIDE DEF f, runs
<1>5. DOMAIN streams' \subseteq DOMAIN new_keys /\ \A r \in DOMAIN streams' : streams'[r] = f(r) /\ f(r) # <<>>
  BY <1>2, <1>4
<1>6. \A r \in DOMAIN new_keys : r \in DOMAIN streams' \/ f(r) = <<>>
  BY <1>2, <1>4
<1>7. Left' = UNION {Range(streams'[r]) : r \in DOMAIN streams'}
  BY DEF Left
<1>8. Left' \subseteq Packed
  BY <1>2, <1>5, <1>7 DEF Packed
<1>9. Packed \subseteq Left'
  <2> SUFFICES ASSUME NEW r \in DOMAIN new_keys, NEW p \in PairsIn(r) PROVE p \in Left'
    BY DEF Packed
  <2>1. p \in Range(f(r))
    BY <1>2
  <2>2. Range(<<>>) = {}
    BY DEF Range
  <2> QED
    BY <1>5, <1>6, <1>7, <2>1, <2>2
<1> QED
  BY <1>3, <1>5, <1>8, <1>9

LEMMA StartKeeps ==
  ASSUME DedupInv, Start
  PROVE  DedupInv'
<1>1. /\ TypeOK /\ BatchesOk /\ PackInv /\ MergeInv
      /\ pc = "pack" /\ pc' = "advance"
      /\ UNCHANGED <<batches, seen, packing, new_keys, new_values, unpacked, prev, top, new_empty, keys, values, merged>>
      /\ keys = <<>> /\ values = <<>> /\ merged = <<>> /\ ~new_empty /\ top = <<NullKey, 0>>
  BY DEF DedupInv, Start, packing, written, MergeInv
<1>2. \A r \in DOMAIN new_keys : Rising(new_keys[r])
  <2>1. Now \in Nat /\ DOMAIN new_keys = 1 .. Now
    BY <1>1, RunsAre
  <2> QED
    BY <1>1, <2>1 DEF PackInv, RunOf
<1>3. PICK b \in {<<>>} \union {<<k>> : k \in Key} :
        streams' = Interleaved([r \in DOMAIN new_keys |-> Paired(new_keys[r] \o b, new_values[r])])
  BY DEF Start
<1>4. b \in Seq(Key)
  <2>1. <<>> \in Seq(Key) /\ \A k \in Key : <<k>> \in Seq(Key)
    OBVIOUS
  <2> QED
    BY <2>1
<1>5. /\ DOMAIN streams' \subseteq DOMAIN new_keys
      /\ \A r \in DOMAIN streams' : streams'[r] \in Seq(Pair) \ {<<>>} /\ RisingPairs(streams'[r])
      /\ Left' = Packed
  BY <1>1, <1>2, <1>3, <1>4, Streams
<1>6. old' \in Seq(Key) /\ Rising(old') /\ Range(old') = seen
  <2>1. seen \subseteq Key /\ IsFiniteSet(seen)
    BY <1>1, MergeAssumption, FS_Subset DEF TypeOK
  <2>2. Cardinality(seen) \in Nat
    BY <2>1, FS_CardinalityType
  <2>3. old' \in [1 .. Cardinality(seen) -> seen] /\ Rising(old') /\ Range(old') = seen
    BY DEF Start, InOrder
  <2> QED
    BY <2>1, <2>2, <2>3
<1>7. BatchesOk' /\ PackInv' /\ Packed' = Packed
  BY <1>1, PackedStays
<1>8. TypeOK'
  BY <1>1, <1>5, <1>6 DEF TypeOK
<1>9. MergeInv'
  <2>1. StreamsOk'
    <3>1. \A p \in Packed : NullKey <= p[1]
      BY <1>1, PackedIs, PairParts, LeastKey
    <3> QED
      BY <1>1, <1>5, <1>7, <3>1 DEF StreamsOk
  <2>2. WrittenOk'
    <3>1. Rising(<<>>) /\ Range(<<>>) = {} /\ Len(<<>>) = 0
      BY DEF Rising, Range
    <3> QED
      BY <1>1, <1>6, <3>1 DEF WrittenOk
  <2>3. AdvanceInv'
    <3>1. Range(<<>>) = {}
      BY DEF Range
    <3>2. \A o \in seen : NullKey < o
      BY <1>1, LeastKey DEF BatchesOk, TypeOK
    <3> QED
      BY <1>1, <1>5, <1>6, <1>7, <3>1, <3>2 DEF AdvanceInv, Known
  <2> QED
    BY <1>1, <2>1, <2>2, <2>3 DEF MergeInv
<1> QED
  BY <1>7, <1>8, <1>9 DEF DedupInv

LEMMA MovedStreams ==
  ASSUME DedupInv, NEW s \in DOMAIN streams, StreamsOk, streams' = Moved(s)
  PROVE  /\ DOMAIN streams' \subseteq DOMAIN streams
         /\ \A r \in DOMAIN streams' : streams'[r] \in Seq(Pair) \ {<<>>} /\ RisingPairs(streams'[r])
         /\ Left = Left' \union {Head(streams[s])}
         /\ \A p \in Left' : \E r \in DOMAIN streams : Head(streams[r])[1] <= p[1]
<1>1. \A r \in DOMAIN streams : streams[r] \in Seq(Pair) /\ streams[r] # <<>> /\ RisingPairs(streams[r])
  BY DEF DedupInv, TypeOK, StreamsOk
<1> DEFINE g(r) == IF r = s THEN Tail(streams[r]) ELSE streams[r]
<1>2. /\ DOMAIN streams' \subseteq DOMAIN streams
      /\ \A r \in DOMAIN streams' : streams'[r] = g(r) /\ g(r) # <<>>
      /\ \A r \in DOMAIN streams : r \in DOMAIN streams' \/ g(r) = <<>>
  <2> DEFINE m == [streams EXCEPT ![s] = Tail(streams[s])]
  <2>1. DOMAIN m = DOMAIN streams /\ \A r \in DOMAIN streams : m[r] = g(r)
    OBVIOUS
  <2>2. streams' = [r \in {q \in DOMAIN m : m[q] # <<>>} |-> m[r]]
    BY DEF Moved, Interleaved
  <2> HIDE DEF m, g
  <2> QED
    BY <2>1, <2>2
<1>3. \A r \in DOMAIN streams : g(r) \in Seq(Pair) /\ RisingPairs(g(r)) /\ Range(g(r)) \subseteq Range(streams[r])
  <2> TAKE r \in DOMAIN streams
  <2>1. CASE r = s
    <3>1. Range(streams[s]) = {Head(streams[s])} \union Range(Tail(streams[s]))
      BY <1>1, HeadAndTail
    <3>2. Tail(streams[s]) \in Seq(Pair) /\ RisingPairs(Tail(streams[s]))
      BY <1>1, HeadAndTail, RisingPairsTail
    <3> QED
      BY <2>1, <3>1, <3>2
  <2>2. CASE r # s
    BY <1>1, <2>2
  <2> QED
    BY <2>1, <2>2
<1>4. Range(streams[s]) = {Head(streams[s])} \union Range(g(s))
  BY <1>1, HeadAndTail
<1>5. \A r \in DOMAIN streams : r # s => g(r) = streams[r]
  OBVIOUS
<1>6. Left' = UNION {Range(streams'[r]) : r \in DOMAIN streams'}
  BY DEF Left
<1> HIDE DEF g
<1>7. Left' \union {Head(streams[s])} \subseteq Left
  <2>1. Left' \subseteq Left
    BY <1>2, <1>3, <1>6 DEF Left
  <2>2. Head(streams[s]) \in Left
    BY <1>4 DEF Left
  <2> QED
    BY <2>1, <2>2
<1>8. Left \subseteq Left' \union {Head(streams[s])}
  <2> SUFFICES ASSUME NEW r \in DOMAIN streams, NEW p \in Range(streams[r]), p # Head(streams[s])
               PROVE  p \in Left'
    BY DEF Left
  <2>1. p \in Range(g(r))
    BY <1>4, <1>5
  <2>2. Range(<<>>) = {}
    BY DEF Range
  <2> QED
    BY <1>2, <1>6, <2>1, <2>2
<1>9. ASSUME NEW p \in Left' PROVE \E r \in DOMAIN streams : Head(streams[r])[1] <= p[1]
  <2>1. PICK r \in DOMAIN streams : p \in Range(streams[r])
    BY <1>7 DEF Left
  <2>2. \A q \in Range(Tail(streams[r])) : Head(streams[r])[1] < q[1]
    BY <1>1, RisingPairsTail
  <2>3. /\ Range(streams[r]) = {Head(streams[r])} \union Range(Tail(streams[r]))
        /\ Head(streams[r]) \in Pair /\ Tail(streams[r]) \in Seq(Pair)
    BY <1>1, HeadAndTail
  <2>4. Head(streams[r])[1] \in Nat
    BY <2>3, PairParts
  <2>5. CASE p = Head(streams[r])
    BY <2>4, <2>5
  <2>6. CASE p \in Range(Tail(streams[r]))
    <3>1. p \in Pair
      BY <2>3, <2>6, RangeOfSeq DEF Range
    <3>2. p[1] \in Nat
      BY <3>1, PairParts
    <3> QED
      BY <2>2, <2>4, <2>6, <3>2
  <2> QED
    BY <2>1, <2>3, <2>5, <2>6
<1> QED
  BY <1>1, <1>2, <1>3, <1>7, <1>8, <1>9

LEMMA AdvanceKeeps ==
  ASSUME DedupInv, Advance
  PROVE  DedupInv'
<1>1. /\ TypeOK /\ BatchesOk /\ PackInv /\ MergeInv /\ pc = "advance"
      /\ StreamsOk /\ WrittenOk /\ AdvanceInv
      /\ UNCHANGED <<batches, seen, packing, new_keys, new_values, unpacked, prev, new_empty, old, keys, values, merged>>
      /\ pc' # "pack"
  BY DEF DedupInv, Advance, packing, written, MergeInv
<1>2. PICK s \in DOMAIN streams :
        /\ \A r \in DOMAIN streams : Head(streams[s])[1] <= Head(streams[r])[1]
        /\ streams' = Moved(s)
        /\ IF Head(streams[s])[1] = top[1]
             THEN UNCHANGED <<top, pc>>
             ELSE top' = Head(streams[s]) /\ pc' = "merge"
  BY DEF Advance
<1> DEFINE h == Head(streams[s])
<1>3. /\ DOMAIN streams' \subseteq DOMAIN streams
      /\ \A r \in DOMAIN streams' : streams'[r] \in Seq(Pair) \ {<<>>} /\ RisingPairs(streams'[r])
      /\ Left = Left' \union {h}
      /\ \A p \in Left' : \E r \in DOMAIN streams : Head(streams[r])[1] <= p[1]
  BY <1>1, <1>2, MovedStreams
<1>4. BatchesOk' /\ PackInv' /\ Packed' = Packed
  BY <1>1, PackedStays
<1>5. \A r \in DOMAIN streams : Head(streams[r]) \in Pair /\ Head(streams[r])[1] \in Nat
  <2> TAKE r \in DOMAIN streams
  <2>1. streams[r] \in Seq(Pair) /\ streams[r] # <<>>
    BY <1>1 DEF TypeOK
  <2>2. Head(streams[r]) \in Pair
    BY <2>1, HeadAndTail
  <2> QED
    BY <2>2, PairParts
<1>6. h \in Packed /\ h \in Pair /\ h[1] \in Nat /\ top[1] <= h[1] /\ h \in Left
  BY <1>1, <1>3, <1>5 DEF StreamsOk
<1>7. top \in Pair /\ top[1] \in Nat /\ NullKey <= top[1] /\ NullKey \in Nat
  <2>1. top \in Pair
    BY <1>1 DEF TypeOK
  <2> QED
    BY <2>1, PairParts, LeastKey
<1>8. top' \in Pair /\ top'[1] = h[1]
  BY <1>2, <1>6, <1>7
<1>9. \A p \in Left' : top'[1] <= p[1]
  <2> SUFFICES ASSUME NEW p \in Left' PROVE h[1] <= p[1]
    BY <1>8
  <2>1. PICK r \in DOMAIN streams : Head(streams[r])[1] <= p[1]
    BY <1>3
  <2>2. h[1] <= Head(streams[r])[1]
    BY <1>2
  <2>3. p \in Pair
    BY <1>1, <1>3, PackedIs DEF StreamsOk
  <2>4. p[1] \in Nat /\ h[1] \in Nat /\ Head(streams[r])[1] \in Nat
    BY <1>5, <1>6, <2>3, PairParts
  <2> QED
    BY <2>1, <2>2, <2>4
<1>10. TypeOK'
  BY <1>1, <1>2, <1>3, <1>8 DEF TypeOK
<1>11. StreamsOk'
  <2>1. Left' \subseteq Packed
    BY <1>1, <1>3 DEF StreamsOk
  <2> QED
    BY <1>3, <1>4, <1>9, <2>1 DEF StreamsOk
<1>12. WrittenOk'
  BY <1>1, <1>4 DEF WrittenOk
<1>13. Known' = Known
  BY <1>1 DEF Known
<1> HIDE DEF h
<1>14. CASE h[1] = top[1]
  <2>1. top' = top /\ pc' = "advance"
    BY <1>1, <1>2, <1>14 DEF h
  <2>2. \A p \in Packed : p \in Left' \/ p[1] \in Known
    BY <1>1, <1>3, <1>14 DEF AdvanceInv
  <2>3. AdvanceInv'
    BY <1>1, <1>4, <1>13, <2>1, <2>2 DEF AdvanceInv
  <2> QED
    BY <1>1, <1>4, <1>10, <1>11, <1>12, <2>1, <2>3 DEF DedupInv, MergeInv, AdvanceInv
<1>15. CASE h[1] # top[1]
  <2>1. top' = h /\ pc' = "merge"
    BY <1>2, <1>15 DEF h
  <2>2. h[1] # NullKey
    BY <1>6, <1>7, <1>15
  <2>3. ASSUME NEW m \in Range(merged) PROVE m < h[1]
    <3>1. m \in Nat
      <4>1. merged \in Seq(Key)
        BY <1>1 DEF TypeOK
      <4> QED
        BY <4>1, DomainOf, MergeAssumption DEF Range
    <3>2. m <= top[1]
      BY <1>1 DEF AdvanceInv
    <3> QED
      BY <1>6, <1>7, <1>15, <3>1, <3>2
  <2>4. \A p \in Packed : p \in Left' \/ p[1] \in Known \/ p[1] = h[1]
    BY <1>1, <1>3 DEF AdvanceInv
  <2>5. NewInv'
    BY <1>1, <1>4, <1>6, <1>13, <2>1, <2>2, <2>3, <2>4 DEF NewInv
  <2> QED
    BY <1>1, <1>4, <1>10, <1>11, <1>12, <2>1, <2>5 DEF DedupInv, MergeInv, AdvanceInv
<1> QED
  BY <1>14, <1>15

LEMMA AdvanceToEndKeeps ==
  ASSUME DedupInv, AdvanceToEnd
  PROVE  DedupInv'
<1>1. /\ TypeOK /\ BatchesOk /\ PackInv /\ MergeInv /\ pc = "advance"
      /\ StreamsOk /\ WrittenOk /\ AdvanceInv
      /\ UNCHANGED <<batches, seen, packing, new_keys, new_values, unpacked, prev, streams, top, old, keys, values, merged>>
      /\ pc' = "merge" /\ new_empty' = TRUE /\ DOMAIN streams = {}
  BY DEF DedupInv, AdvanceToEnd, packing, written, MergeInv
<1>2. BatchesOk' /\ PackInv' /\ Packed' = Packed
  BY <1>1, PackedStays
<1>3. TypeOK'
  BY <1>1 DEF TypeOK
<1>4. Left' = Left /\ Left = {} /\ Known' = Known
  BY <1>1 DEF Left, Known
<1>5. StreamsOk' /\ WrittenOk'
  BY <1>1, <1>2, <1>4 DEF StreamsOk, WrittenOk
<1>6. EmptyInv'
  BY <1>1, <1>2, <1>4 DEF EmptyInv, AdvanceInv
<1> QED
  BY <1>1, <1>2, <1>3, <1>5, <1>6 DEF DedupInv, MergeInv

\* The parts of the invariant that dedup takes for granted while it merges.
LEMMA Merging ==
  ASSUME DedupInv, pc = "merge"
  PROVE  /\ TypeOK /\ BatchesOk /\ PackInv /\ MergeInv /\ StreamsOk /\ WrittenOk
         /\ (~new_empty => NewInv) /\ (new_empty => EmptyInv)
         /\ old \in Seq(Key) /\ keys \in Seq(Key) /\ merged \in Seq(Key) /\ values \in Seq(HashByte)
         /\ top \in Pair /\ top[1] \in Key /\ top[2] \in HashByte /\ top[1] \in Nat
         /\ Range(old) \subseteq Nat /\ Range(merged) \subseteq Nat /\ Range(keys) \subseteq Nat
         /\ \A i \in 1 .. Len(merged) : merged[i] \in Range(merged)
         /\ \A i \in 1 .. Len(keys) : keys[i] \in Range(keys)
<1>1. /\ TypeOK /\ BatchesOk /\ PackInv /\ MergeInv /\ StreamsOk /\ WrittenOk
      /\ (~new_empty => NewInv) /\ (new_empty => EmptyInv)
      /\ old \in Seq(Key) /\ keys \in Seq(Key) /\ merged \in Seq(Key) /\ values \in Seq(HashByte)
      /\ top \in Pair
  BY DEF DedupInv, MergeInv, TypeOK
<1>2. top[1] \in Key /\ top[2] \in HashByte /\ top[1] \in Nat
  BY <1>1, PairParts
<1>3. Range(old) \subseteq Nat /\ Range(merged) \subseteq Nat /\ Range(keys) \subseteq Nat
  BY <1>1, DomainOf, MergeAssumption DEF Range
<1>4. /\ \A i \in 1 .. Len(merged) : merged[i] \in Range(merged)
      /\ \A i \in 1 .. Len(keys) : keys[i] \in Range(keys)
  BY <1>1, DomainOf DEF Range
<1> QED
  BY <1>1, <1>2, <1>3, <1>4

\* The first of the old keys is written, and has been before the others.
LEMMA OldTaken ==
  ASSUME DedupInv, pc = "merge", have_old,
         merged' = Append(merged, Head(old)), old' = Tail(old),
         UNCHANGED <<seen, keys, values, new_keys, new_values>>
  PROVE  /\ WrittenOk'
         /\ merged' \in Seq(Key) /\ old' \in Seq(Key)
         /\ Head(old) \in seen /\ Head(old) \in Nat
         /\ \A o \in Range(old') : Head(old) < o
         /\ Range(merged') = Range(merged) \union {Head(old)}
         /\ Range(old) = Range(old') \union {Head(old)}
<1> DEFINE h == Head(old)
<1>1. /\ TypeOK /\ WrittenOk /\ old \in Seq(Key) /\ merged \in Seq(Key) /\ old # <<>>
      /\ Range(old) \subseteq Nat /\ Range(merged) \subseteq Nat
      /\ \A i \in 1 .. Len(merged) : merged[i] \in Range(merged)
  BY Merging DEF have_old
<1>2. /\ h \in Key /\ old' \in Seq(Key) /\ Range(old) = Range(old') \union {h}
      /\ Rising(old') /\ (\A o \in Range(old') : h < o) /\ h \notin Range(old')
  BY <1>1, HeadAndTail, RisingTail DEF WrittenOk
<1>3. h \in Range(old) /\ h \in seen /\ h \in Nat
  BY <1>1, <1>2 DEF WrittenOk
<1>4. merged' \in Seq(Key) /\ Range(merged') = Range(merged) \union {h} /\ Rising(merged')
  <2>1. \A i \in 1 .. Len(merged) : merged[i] < h
    BY <1>1, <1>3 DEF WrittenOk
  <2> QED
    BY <1>1, <1>2, <2>1, Appended, RisingAppend DEF WrittenOk
<1> HIDE DEF h
<1>5. Packed' = Packed
  BY DEF Packed, PairsIn
<1>6. \A m \in Range(merged'), o \in Range(old') : m < o
  BY <1>1, <1>2, <1>4 DEF WrittenOk
<1>7. Range(merged') = Range(keys) \union (seen \ Range(old'))
  BY <1>1, <1>2, <1>3, <1>4 DEF WrittenOk
<1>8. WrittenOk'
  <2>1. Range(old') \subseteq seen
    BY <1>1, <1>2 DEF WrittenOk
  <2> QED
    BY <1>1, <1>2, <1>4, <1>5, <1>6, <1>7, <2>1 DEF WrittenOk
<1> QED
  BY <1>2, <1>3, <1>4, <1>8 DEF h

LEMMA TakeOldKeeps ==
  ASSUME DedupInv, TakeOld
  PROVE  DedupInv'
<1>1. /\ pc = "merge" /\ pc' = "merge" /\ have_old /\ (have_new => Head(old) < top[1])
      /\ merged' = Append(merged, Head(old)) /\ old' = Tail(old)
      /\ UNCHANGED <<batches, seen, packing, new_keys, new_values, unpacked, prev, streams, top, new_empty, keys, values>>
  BY DEF TakeOld, packing
<1>2. /\ TypeOK /\ MergeInv /\ StreamsOk /\ (~new_empty => NewInv) /\ (new_empty => EmptyInv)
  BY <1>1, Merging
<1>3. /\ WrittenOk' /\ merged' \in Seq(Key) /\ old' \in Seq(Key)
      /\ Range(merged') = Range(merged) \union {Head(old)}
  BY <1>1, OldTaken
<1>4. BatchesOk' /\ PackInv' /\ Packed' = Packed
  BY <1>1, PackedStays
<1>5. Left' = Left /\ Known' = Known
  BY <1>1 DEF Left, Known
<1>6. TypeOK'
  BY <1>1, <1>2, <1>3 DEF TypeOK
<1>7. StreamsOk'
  BY <1>1, <1>2, <1>4, <1>5 DEF StreamsOk
<1>8. ASSUME ~new_empty PROVE NewInv'
  <2>1. \A m \in Range(merged') : m < top[1]
    BY <1>1, <1>2, <1>3, <1>8 DEF NewInv, have_new
  <2> QED
    BY <1>1, <1>2, <1>4, <1>5, <1>8, <2>1 DEF NewInv
<1>9. ASSUME new_empty PROVE EmptyInv'
  BY <1>1, <1>2, <1>4, <1>5, <1>9 DEF EmptyInv
<1> QED
  BY <1>1, <1>3, <1>4, <1>6, <1>7, <1>8, <1>9 DEF DedupInv, MergeInv

LEMMA DropNewKeeps ==
  ASSUME DedupInv, DropNew
  PROVE  DedupInv'
<1>1. /\ pc = "merge" /\ pc' = "advance" /\ have_old /\ ~new_empty /\ Head(old) = top[1]
      /\ merged' = Append(merged, Head(old)) /\ old' = Tail(old)
      /\ UNCHANGED <<batches, seen, packing, new_keys, new_values, unpacked, prev, streams, top, new_empty, keys, values>>
  BY DEF DropNew, packing, have_new
<1>2. TypeOK /\ MergeInv /\ StreamsOk /\ NewInv /\ Range(merged) \subseteq Nat
  BY <1>1, Merging
<1>3. /\ WrittenOk' /\ merged' \in Seq(Key) /\ old' \in Seq(Key)
      /\ Head(old) \in seen /\ Head(old) \in Nat /\ (\A o \in Range(old') : Head(old) < o)
      /\ Range(merged') = Range(merged) \union {Head(old)}
  BY <1>1, OldTaken
<1>4. BatchesOk' /\ PackInv' /\ Packed' = Packed
  BY <1>1, PackedStays
<1>5. Left' = Left /\ Known' = Known
  BY <1>1 DEF Left, Known
<1>6. TypeOK'
  BY <1>1, <1>2, <1>3 DEF TypeOK
<1>7. StreamsOk'
  BY <1>1, <1>2, <1>4, <1>5 DEF StreamsOk
<1>8. AdvanceInv'
  <2>1. \A m \in Range(merged') : m <= top[1]
    BY <1>1, <1>2, <1>3, SMTT(60) DEF NewInv
  <2>2. top[1] \in Known
    BY <1>1, <1>3 DEF Known
  <2>3. \A p \in Packed : p \in Left \/ p[1] \in Known
    BY <1>2, <2>2 DEF NewInv
  <2> QED
    BY <1>1, <1>3, <1>4, <1>5, <2>1, <2>2, <2>3 DEF AdvanceInv
<1> QED
  BY <1>1, <1>3, <1>4, <1>6, <1>7, <1>8 DEF DedupInv, MergeInv, AdvanceInv

LEMMA TakeNewKeeps ==
  ASSUME DedupInv, TakeNew
  PROVE  DedupInv'
<1> DEFINE k == top[1]
           v == top[2]
<1>1. /\ pc = "merge" /\ pc' = "advance" /\ ~new_empty /\ (have_old => k < Head(old))
      /\ keys' = Append(keys, k) /\ values' = Append(values, v) /\ merged' = Append(merged, k)
      /\ UNCHANGED <<batches, seen, packing, new_keys, new_values, unpacked, prev, streams, top, new_empty, old>>
  BY DEF TakeNew, packing, merging, have_new
<1>2. /\ TypeOK /\ MergeInv /\ StreamsOk /\ NewInv /\ WrittenOk
      /\ old \in Seq(Key) /\ keys \in Seq(Key) /\ merged \in Seq(Key) /\ values \in Seq(HashByte)
      /\ k \in Key /\ v \in HashByte /\ k \in Nat
      /\ Range(old) \subseteq Nat /\ Range(merged) \subseteq Nat /\ Range(keys) \subseteq Nat
      /\ \A i \in 1 .. Len(merged) : merged[i] \in Range(merged)
      /\ \A i \in 1 .. Len(keys) : keys[i] \in Range(keys)
      /\ Len(values) = Len(keys)
  BY <1>1, Merging DEF TypeOK
<1>3. top = <<k, v>> /\ top \in Packed /\ k # NullKey
  BY <1>2, Merging, PairParts DEF NewInv, TypeOK
<1> HIDE DEF k, v
<1>4. \A o \in Range(old) : k < o
  <2>1. CASE old = <<>>
    BY <2>1 DEF Range
  <2>2. CASE old # <<>>
    <3>1. k < Head(old) /\ Head(old) \in Key
      BY <1>1, <1>2, <2>2, HeadAndTail DEF have_old
    <3>2. /\ Range(old) = {Head(old)} \union Range(Tail(old))
          /\ \A o \in Range(Tail(old)) : Head(old) < o
      BY <1>2, <2>2, HeadAndTail, RisingTail DEF WrittenOk
    <3>3. Head(old) \in Nat
      BY <3>1, MergeAssumption
    <3> QED
      BY <1>2, <3>1, <3>2, <3>3
  <2> QED
    BY <2>1, <2>2
<1>5. k \notin seen
  <2>1. k \notin Range(old) /\ k \notin Range(merged)
    BY <1>2, <1>4 DEF NewInv, k
  <2> QED
    BY <1>2, <2>1 DEF WrittenOk
<1>6. /\ keys' \in Seq(Key) /\ Len(keys') = Len(keys) + 1 /\ Range(keys') = Range(keys) \union {k}
      /\ keys'[Len(keys) + 1] = k /\ \A i \in 1 .. Len(keys) : keys'[i] = keys[i]
  BY <1>1, <1>2, Appended
<1>7. /\ values' \in Seq(HashByte) /\ Len(values') = Len(keys) + 1
      /\ values'[Len(keys) + 1] = v /\ \A i \in 1 .. Len(keys) : values'[i] = values[i]
  BY <1>1, <1>2, Appended
<1>8. merged' \in Seq(Key) /\ Range(merged') = Range(merged) \union {k}
  BY <1>1, <1>2, Appended
<1>9. Rising(keys') /\ Rising(merged')
  <2>1. \A m \in Range(merged) : m < k
    BY <1>2 DEF NewInv, k
  <2>2. Range(keys) \subseteq Range(merged)
    BY <1>2 DEF WrittenOk
  <2>3. (\A i \in 1 .. Len(keys) : keys[i] < k) /\ (\A i \in 1 .. Len(merged) : merged[i] < k)
    BY <1>2, <2>1, <2>2
  <2> QED
    BY <1>1, <1>2, <2>3, RisingAppend DEF WrittenOk
<1>10. BatchesOk' /\ PackInv' /\ Packed' = Packed
  BY <1>1, PackedStays
<1>11. Left' = Left /\ Known' = Known \union {k}
  BY <1>1, <1>6 DEF Left, Known
<1>12. TypeOK'
  BY <1>1, <1>2, <1>6, <1>7, <1>8 DEF TypeOK
<1>13. StreamsOk'
  BY <1>1, <1>2, <1>10, <1>11 DEF StreamsOk
<1>14. WrittenOk'
  <2>1. \A i \in 1 .. Len(keys') : <<keys'[i], values'[i]>> \in Packed /\ keys'[i] # NullKey
    <3>1. Len(keys) \in Nat
      BY <1>2, LenProperties
    <3>2. 1 .. Len(keys') = (1 .. Len(keys)) \union {Len(keys) + 1}
      BY <1>6, <3>1
    <3>3. \A i \in 1 .. Len(keys) : <<keys[i], values[i]>> \in Packed /\ keys[i] # NullKey
      BY <1>2 DEF WrittenOk
    <3> QED
      BY <1>3, <1>6, <1>7, <3>2, <3>3
  <2>2. Range(keys') \intersect seen = {}
    BY <1>2, <1>5, <1>6 DEF WrittenOk
  <2>3. Range(merged') = Range(keys') \union (seen \ Range(old))
    BY <1>2, <1>6, <1>8 DEF WrittenOk
  <2>4. \A m \in Range(merged'), o \in Range(old) : m < o
    BY <1>2, <1>4, <1>8 DEF WrittenOk
  <2> QED
    BY <1>1, <1>2, <1>9, <1>10, <2>1, <2>2, <2>3, <2>4 DEF WrittenOk
<1>15. AdvanceInv'
  <2>1. \A m \in Range(merged') : m <= k
    BY <1>2, <1>8 DEF NewInv, k
  <2>2. \A p \in Packed : p \in Left \/ p[1] \in Known \union {k}
    BY <1>2 DEF NewInv, k
  <2> QED
    BY <1>1, <1>4, <1>10, <1>11, <2>1, <2>2 DEF AdvanceInv, k
<1> QED
  BY <1>1, <1>10, <1>12, <1>13, <1>14, <1>15 DEF DedupInv, MergeInv, AdvanceInv

LEMMA FinishKeeps ==
  ASSUME DedupInv, Finish
  PROVE  DedupInv'
<1>1. /\ pc = "merge" /\ pc' = "done" /\ old = <<>> /\ new_empty
      /\ UNCHANGED <<batches, seen, packing, new_keys, new_values, unpacked, prev, streams, top, new_empty, old, keys, values, merged>>
  BY DEF Finish, packing, merging, written, have_old, have_new
<1>2. TypeOK /\ StreamsOk /\ WrittenOk /\ EmptyInv
  BY <1>1, Merging
<1>3. BatchesOk' /\ PackInv' /\ Packed' = Packed
  BY <1>1, PackedStays
<1>4. Left' = Left /\ Known' = Known
  BY <1>1 DEF Left, Known
<1>5. TypeOK'
  BY <1>1, <1>2 DEF TypeOK
<1>6. StreamsOk' /\ WrittenOk' /\ EmptyInv'
  BY <1>1, <1>2, <1>3, <1>4 DEF StreamsOk, WrittenOk, EmptyInv
<1> QED
  BY <1>1, <1>3, <1>5, <1>6 DEF DedupInv, MergeInv

LEMMA StepKeeps ==
  ASSUME DedupInv, [Next]_vars
  PROVE  DedupInv'
<1>1. CASE UNCHANGED vars
  <2>1. /\ UNCHANGED <<batches, seen, new_keys, new_values, unpacked, prev>>
        /\ UNCHANGED <<streams, top, new_empty, old, keys, values, merged, pc>>
    BY <1>1 DEF vars, packing, merging, written
  <2>2. TypeOK' /\ BatchesOk' /\ PackInv'
    BY <2>1 DEF DedupInv, TypeOK, BatchesOk, PackInv, Now, Taken
  <2>3. Packed' = Packed /\ Left' = Left /\ Known' = Known
    BY <2>1 DEF Packed, PairsIn, Left, Known
  <2>4. MergeInv'
    BY <2>1, <2>3 DEF DedupInv, MergeInv, StreamsOk, WrittenOk, AdvanceInv, NewInv, EmptyInv
  <2> QED
    BY <2>2, <2>4 DEF DedupInv
<1> QED
  BY <1>1, PackPairKeeps, NextBatchKeeps, StartKeeps, AdvanceKeeps, AdvanceToEndKeeps,
     TakeOldKeeps, DropNewKeeps, TakeNewKeeps, FinishKeeps DEF Next

-----------------------------------------------------------------------------
(***************************************************************************)
(* Theorems.                                                               *)
(***************************************************************************)
\* What packing and merging keep true, for any batches and any states seen:
\* the pairs that the interleaver still has, with what is written, are all
\* the pairs that were packed.
THEOREM MergeInvariance == Spec => []DedupInv
<1>1. DedupInv /\ [Next]_vars => DedupInv'
  BY StepKeeps
<1> QED
  BY InitInv, <1>1, PTL DEF Spec

\* Every variable of pack_pairs and dedup holds a value of its kind, and the
\* runs have a value for each of their keys.
THEOREM TypesOfMerge == Spec => []TypeOK
<1>1. DedupInv => TypeOK
  BY DEF DedupInv
<1> QED
  BY MergeInvariance, <1>1, PTL

\* Every run that is written is in the order of its keys, each key once
\* (util.h:65), at any time.
THEOREM RunsAreSorted == Spec => []WritesRuns
<1>1. ASSUME DedupInv PROVE WritesRuns
  <2>1. Now \in Nat /\ DOMAIN new_keys = 1 .. Now
    BY <1>1, RunsAre DEF DedupInv
  <2>2. \A r \in DOMAIN new_keys : Rising(new_keys[r])
    BY <1>1, <2>1 DEF DedupInv, PackInv, RunOf
  <2>3. Rising(<<>>)
    BY DEF Rising
  <2>4. Rising(keys) /\ Rising(merged)
    BY <1>1, <2>3 DEF DedupInv, MergeInv, WrittenOk
  <2> QED
    BY <2>2, <2>4 DEF WritesRuns
<1> QED
  BY MergeInvariance, <1>1, PTL

\* Where each key is, and its value.
At(ks, k) == CHOOSE i \in DOMAIN ks : ks[i] = k

\* A run as module Bfs has it: the values of its keys.
AsFunction(ks, vs) == [k \in Range(ks) |-> vs[At(ks, k)]]

LEMMA RunFunction ==
  ASSUME NEW ks \in Seq(Key), NEW vs \in Seq(HashByte), Len(ks) = Len(vs), Rising(ks)
  PROVE  /\ AsFunction(ks, vs) \in [Range(ks) -> HashByte]
         /\ \A i \in 1 .. Len(ks) : AsFunction(ks, vs)[ks[i]] = vs[i]
         /\ \A k \in Range(ks) : \E i \in 1 .. Len(ks) : ks[i] = k /\ AsFunction(ks, vs)[k] = vs[i]
<1>1. /\ DOMAIN ks = 1 .. Len(ks) /\ Len(ks) \in Nat
      /\ (\A i \in 1 .. Len(ks) : ks[i] \in Nat) /\ (\A i \in 1 .. Len(ks) : vs[i] \in HashByte)
  BY DomainOf, MergeAssumption
<1>2. ASSUME NEW k \in Range(ks) PROVE At(ks, k) \in 1 .. Len(ks) /\ ks[At(ks, k)] = k
  <2>1. \E i \in DOMAIN ks : ks[i] = k
    BY DEF Range
  <2> QED
    BY <1>1, <2>1 DEF At
<1>3. ASSUME NEW i \in 1 .. Len(ks), NEW j \in 1 .. Len(ks), ks[i] = ks[j] PROVE i = j
  BY <1>1, <1>3 DEF Rising
<1>4. \A i \in 1 .. Len(ks) : ks[i] \in Range(ks) /\ At(ks, ks[i]) = i
  <2> TAKE i \in 1 .. Len(ks)
  <2>1. ks[i] \in Range(ks)
    BY <1>1 DEF Range
  <2> QED
    BY <1>2, <1>3, <2>1
<1> QED
  BY <1>1, <1>2, <1>4 DEF AsFunction

\* A batch is packed into a run that has each of its keys once, with one of
\* the values that the key has in the batch, whatever the order of its pairs
\* with equal keys.
THEOREM BatchesArePacked == Spec => []PacksBatches
<1>1. ASSUME DedupInv PROVE PacksBatches
  <2> SUFFICES ASSUME pc # "pack", NEW b \in DOMAIN batches
               PROVE  \E run \in Search!Packings(Range(batches[b])) : PairsIn(b) = Search!PairsOf(run)
    BY DEF PacksBatches
  <2> DEFINE ks == new_keys[b]
             vs == new_values[b]
             p == batches[b]
             run == AsFunction(ks, vs)
  <2>1. TypeOK /\ BatchesOk /\ PackInv /\ Now \in Nat /\ Now = Len(batches) /\ unpacked = <<>>
    BY <1>1, RunsAre DEF DedupInv, PackInv
  <2>2. /\ b \in 1 .. Now /\ b \in DOMAIN new_keys /\ p \in Seq(Pair) /\ Len(p) \in Nat
        /\ DOMAIN p = 1 .. Len(p)
        /\ ks \in Seq(Key) /\ vs \in Seq(HashByte) /\ Len(ks) = Len(vs)
    BY <2>1, RunsAre, BatchesAre
  <2>3. RunOf(ks, vs, p, Len(p))
    <3>1. CASE b = Now
      <4>1. Taken = Len(p)
        BY <2>1, <2>2, <3>1 DEF Taken
      <4> QED
        BY <2>1, <3>1, <4>1 DEF PackInv
    <3>2. CASE b \in 1 .. Now - 1
      BY <2>1, <3>2 DEF PackInv
    <3> QED
      BY <2>1, <2>2, <3>1, <3>2
  <2>4. PairsIn(b) = {<<ks[i], vs[i]>> : i \in 1 .. Len(ks)}
    BY <2>1, <2>2, PairsInRun
  <2>5. DOMAIN ks = 1 .. Len(ks)
    BY <2>2, DomainOf
  <2> HIDE DEF ks, vs, p
  <2>6. /\ run \in [Range(ks) -> HashByte]
        /\ \A i \in 1 .. Len(ks) : run[ks[i]] = vs[i]
        /\ \A k \in Range(ks) : \E i \in 1 .. Len(ks) : ks[i] = k /\ run[k] = vs[i]
    BY <2>2, <2>3, RunFunction DEF RunOf
  <2> HIDE DEF run
  <2>7. \A k \in Range(ks) : k # NullKey /\ <<k, run[k]>> \in Range(p)
    <3> TAKE k \in Range(ks)
    <3>1. PICK i \in 1 .. Len(ks) : ks[i] = k /\ run[k] = vs[i]
      BY <2>6
    <3>2. PICK j \in 1 .. Len(p) : p[j] = <<ks[i], vs[i]>>
      BY <2>3 DEF RunOf
    <3>3. k # NullKey
      BY <2>3, <3>1 DEF RunOf
    <3>4. p[j] = <<k, run[k]>>
      BY <3>1, <3>2
    <3> QED
      BY <2>2, <3>3, <3>4 DEF Range
  <2>8. \A q \in Range(p) : q[1] = NullKey \/ q[1] \in Range(ks)
    <3> SUFFICES ASSUME NEW j \in 1 .. Len(p) PROVE p[j][1] = NullKey \/ p[j][1] \in Range(ks)
      BY <2>2 DEF Range
    <3> QED
      BY <2>3, <2>5 DEF RunOf, Range
  <2>9. Range(ks) = Search!KeysOf(Range(p)) \ {NullKey}
    <3>1. Range(ks) \subseteq Search!KeysOf(Range(p)) \ {NullKey}
      <4> SUFFICES ASSUME NEW k \in Range(ks) PROVE k \in Search!KeysOf(Range(p))
        BY <2>7
      <4>1. <<k, run[k]>> \in Range(p) /\ <<k, run[k]>>[1] = k
        BY <2>7
      <4> QED
        BY <4>1 DEF Search!KeysOf
    <3>2. Search!KeysOf(Range(p)) \ {NullKey} \subseteq Range(ks)
      BY <2>8 DEF Search!KeysOf
    <3> QED
      BY <3>1, <3>2
  <2>10. run \in Search!Packings(Range(p))
    BY <2>6, <2>7, <2>9 DEF Search!Packings
  <2>11. PairsIn(b) = Search!PairsOf(run)
    <3>1. Search!PairsOf(run) = {<<k, run[k]>> : k \in Range(ks)}
      BY <2>6 DEF Search!PairsOf
    <3>2. \A i \in 1 .. Len(ks) : ks[i] \in Range(ks)
      BY <2>5 DEF Range
    <3> QED
      BY <2>4, <2>6, <3>1, <3>2
  <2> QED
    BY <2>10, <2>11 DEF p
<1> QED
  BY MergeInvariance, <1>1, PTL

\* When the merge has ended, it has done what Dedup does in module Bfs.
LEMMA FinishIsDedup ==
  ASSUME DedupInv, Finish
  PROVE  Search!Dedup
<1>1. /\ pc = "merge" /\ pc' = "done" /\ old = <<>> /\ new_empty
      /\ UNCHANGED <<batches, seen, new_keys, new_values, keys, values, merged>>
  BY DEF Finish, packing, merging, written, have_old, have_new
<1>2. /\ TypeOK /\ WrittenOk /\ EmptyInv /\ keys \in Seq(Key) /\ values \in Seq(HashByte)
      /\ Len(keys) = Len(values) /\ Rising(keys)
  BY <1>1, Merging DEF TypeOK, WrittenOk
<1>3. Range(merged) = Range(keys) \union seen /\ Range(keys) \intersect seen = {}
  <2>1. Range(old) = {}
    BY <1>1 DEF Range
  <2> QED
    BY <1>2, <2>1 DEF WrittenOk
<1> DEFINE f == AsFunction(keys, values)
           D == Search!KeysOf(Packed) \ {NullKey}
           run == [k \in D |-> IF k \in Range(keys) THEN f[k] ELSE CHOOSE v \in HashByte : <<k, v>> \in Packed]
<1>4. /\ f \in [Range(keys) -> HashByte]
      /\ \A k \in Range(keys) : \E i \in 1 .. Len(keys) : keys[i] = k /\ f[k] = values[i]
  BY <1>2, RunFunction
<1>5. \A k \in Range(keys) : <<k, f[k]>> \in Packed /\ k # NullKey
  BY <1>2, <1>4 DEF WrittenOk
<1>6. \A k \in D : \E v \in HashByte : <<k, v>> \in Packed
  <2> SUFFICES ASSUME NEW p \in Packed PROVE \E v \in HashByte : <<p[1], v>> \in Packed
    BY DEF Search!KeysOf
  <2>1. p \in Pair
    BY <1>2, PackedIs
  <2>2. p = <<p[1], p[2]>> /\ p[2] \in HashByte
    BY <2>1, PairParts
  <2> QED
    BY <2>2
<1>7. Range(keys) \subseteq D
  <2> SUFFICES ASSUME NEW k \in Range(keys) PROVE k \in Search!KeysOf(Packed)
    BY <1>5
  <2>1. <<k, f[k]>> \in Packed /\ <<k, f[k]>>[1] = k
    BY <1>5
  <2> QED
    BY <2>1 DEF Search!KeysOf
<1>8. D \subseteq Range(keys) \union seen
  BY <1>2 DEF EmptyInv, Known, Search!KeysOf
<1> HIDE DEF f, D
<1>9. run \in [D -> HashByte] /\ \A k \in D : <<k, run[k]>> \in Packed
  <2> SUFFICES ASSUME NEW k \in D PROVE run[k] \in HashByte /\ <<k, run[k]>> \in Packed
    OBVIOUS
  <2>1. CASE k \in Range(keys)
    BY <1>4, <1>5, <2>1
  <2>2. CASE k \notin Range(keys)
    <3>1. run[k] = CHOOSE v \in HashByte : <<k, v>> \in Packed
      BY <2>2
    <3> QED
      BY <1>6, <3>1
  <2> QED
    BY <2>1, <2>2
<1>10. \A k \in Range(keys) : run[k] = f[k]
  BY <1>7
<1>11. DOMAIN run = D
  OBVIOUS
<1> HIDE DEF run
<1>12. run \in Search!Packings(Packed)
  BY <1>9 DEF Search!Packings, D
<1>13. D \ seen = Range(keys)
  BY <1>3, <1>7, <1>8
<1>14. [k \in Range(keys) |-> run[k]] = [k \in Range(keys) |-> values[CHOOSE i \in DOMAIN keys : keys[i] = k]]
  BY <1>10 DEF f, AsFunction, At
<1>15. Search!Fresh(run) = Range(keys) /\ Search!FreshValues(run) = [k \in Range(keys) |-> run[k]]
  BY <1>1, <1>11, <1>13 DEF Search!Fresh, Search!FreshValues
<1>16. Packed' = Packed
  BY <1>1 DEF Packed, PairsIn
<1>17. << seen, Range(keys) >>' = Append(<< seen >>, Range(keys))
  BY <1>1
<1>18. ASSUME NEW a, NEW b
       PROVE  << a, b >> = Append(<< a >>, b)
  OBVIOUS
<1> DEFINE zeros == [k \in seen |-> 0]
           found == [k \in Range(keys) |-> values[CHOOSE i \in DOMAIN keys : keys[i] = k]]
<1>19. zeros' = zeros /\ found' = found
  BY <1>1
<1>20. << zeros, found >>' = Append(<< zeros >>, Search!FreshValues(run))
  BY <1>14, <1>15, <1>18, <1>19
<1>21. (Range(merged))' = seen \union Search!Fresh(run)
  BY <1>1, <1>3, <1>15
<1> QED
  BY <1>1, <1>12, <1>15, <1>16, <1>17, <1>20, <1>21 DEF Search!Dedup, Search!visiting

\* What the search sees of a step that is not the last one of dedup: nothing.
LEMMA OtherStepsAreHidden ==
  ASSUME DedupInv, [Next]_vars, pc # "pack", ~Finish
  PROVE  UNCHANGED <<pc = "done", Search!vars>>
<1>1. /\ UNCHANGED <<seen, new_keys, new_values>>
      /\ pc' \in {"advance", "merge", "done"} /\ (pc = "done" <=> pc' = "done")
      /\ (pc = "done" => UNCHANGED <<keys, values, merged>>)
      /\ pc \in {"advance", "merge", "done"}
  <2>1. pc \in {"advance", "merge", "done"}
    BY DEF DedupInv, TypeOK
  <2>2. CASE UNCHANGED vars
    BY <2>1, <2>2 DEF vars, packing, written
  <2>3. CASE Advance
    BY <2>1, <2>3 DEF Advance, packing
  <2>4. CASE AdvanceToEnd
    BY <2>4 DEF AdvanceToEnd, packing
  <2>5. CASE TakeOld
    BY <2>5 DEF TakeOld, packing
  <2>6. CASE DropNew
    BY <2>6 DEF DropNew, packing
  <2>7. CASE TakeNew
    BY <2>7 DEF TakeNew, packing
  <2> QED
    BY <2>1, <2>2, <2>3, <2>4, <2>5, <2>6, <2>7 DEF Next, PackPair, NextBatch, Start
<1>2. Packed' = Packed
  BY <1>1 DEF Packed, PairsIn
<1>3. UNCHANGED <<Search!data, Search!visiting, Search!tracing>>
  <2>1. CASE pc = "done"
    BY <1>1, <1>2, <2>1, SMTT(60) DEF Search!data, Search!visiting, Search!tracing
  <2>2. CASE pc # "done"
    BY <1>1, <1>2, <2>2 DEF Search!data, Search!visiting, Search!tracing
  <2> QED
    BY <2>1, <2>2
<1> QED
  BY <1>1, <1>3 DEF Search!vars

\* From the runs to what it writes, dedup is one step of module Bfs, its
\* Dedup, whatever keys are in several of the runs, whichever run comes first,
\* and whatever was seen before.
THEOREM DedupImplements == Spec => MergeIsDedup
<1>1. ASSUME DedupInv, [Next]_vars
      PROVE  [pc # "pack" => Search!Dedup]_<<pc = "done", Search!vars>>
  <2>1. CASE pc = "pack"
    BY <2>1
  <2>2. CASE Finish
    BY <1>1, <2>2, FinishIsDedup
  <2>3. CASE pc # "pack" /\ ~Finish
    BY <1>1, <2>3, OtherStepsAreHidden
  <2> QED
    BY <2>1, <2>2, <2>3
<1> QED
  BY MergeInvariance, <1>1, PTL DEF Spec, MergeIsDedup

=============================================================================
