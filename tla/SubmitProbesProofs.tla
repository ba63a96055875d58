------------------------- MODULE SubmitProbesProofs -------------------------
(***************************************************************************)
(* Proofs about SubmitProbes and the packing it ends with, for any         *)
(* requests, prefixes and agents, and any widths of addresses, user ids    *)
(* and batches.                                                            *)
(*                                                                         *)
(* The arithmetic of the prefixes comes down to where a bit of the user id *)
(* lands: right after the agent's prefix, which it leaves as it is.        *)
(***************************************************************************)
EXTENDS SubmitProbes, TLAPS

----------------------------------------------------------------------------
(* Packing, for any requests and any limit.                                *)

\* What validate_json_probe accepts, deserialize_json_to_capnp turns into a message.
LEMMA ValidIsSerializable == \A p \in Probe \union {None} : Valid(p) => Serializable(p)
BY DEF Valid, Serializable, Port, Ttl

\* Offsets grow with the probes.
LEMMA Offsets ==
    ASSUME PackTypeOK, input # None
    PROVE  /\ Count \in Nat
           /\ \A i \in 0..Count : Upto(i) \in Nat
           /\ \A i, j \in 0..Count : i < j => Upto(i) < Upto(j)
<1>1. /\ input \in Input
      /\ input.probes \in Seq(Probe \union {None})
      /\ input.upto \in Seq(Nat \ {0})
      /\ Len(input.upto) = Len(input.probes)
      /\ \A i, j \in 1..Len(input.upto) : i < j => input.upto[i] < input.upto[j]
    BY ProbeBatchesAssumption DEF PackTypeOK, Probes
<1>2. Count \in Nat
    BY <1>1 DEF Count
<1>3. \A i \in 1..Count : Upto(i) \in Nat \ {0} /\ Upto(i) = input.upto[i]
    BY <1>1 DEF Count, Upto
<1>4. Upto(0) = 0
    BY DEF Upto
<1>5. \A i \in 0..Count : Upto(i) \in Nat
    BY <1>2, <1>3, <1>4
<1>6. ASSUME NEW i \in 0..Count, NEW j \in 0..Count, i < j
      PROVE  Upto(i) < Upto(j)
    <2>1. CASE i = 0
        BY <1>2, <1>3, <1>4, <1>6, <2>1
    <2>2. CASE i # 0
        <3>1. i \in 1..Len(input.upto) /\ j \in 1..Len(input.upto)
            BY <1>1, <1>2, <1>6, <2>2 DEF Count
        <3> QED
            BY <1>1, <1>2, <1>3, <1>6, <3>1 DEF Count
    <2> QED
        BY <2>1, <2>2
<1> QED
    BY <1>2, <1>5, <1>6

\* A run of probes takes what its parts take.
LEMMA BytesAdd ==
    ASSUME PackTypeOK, input # None,
           NEW i \in 1..Count, NEW j \in 1..Count, i <= j, j + 1 <= Count
    PROVE  Bytes(i, j) + Bytes(j + 1, j + 1) = Bytes(i, j + 1)
<1>1. Count \in Nat
    BY Offsets
<1>2. Upto(i - 1) \in Nat /\ Upto(j) \in Nat /\ Upto(j + 1) \in Nat
    BY <1>1, Offsets
<1>3. (j + 1) - 1 = j
    BY <1>1
<1> QED
    BY <1>2, <1>3 DEF Bytes

\* What Push does to the batches.
LEMMA PushEffect ==
    ASSUME PackTypeOK, packed > 0, Push
    PROVE  /\ batches' \in Seq([from : Nat \ {0}, to : Nat \ {0}])
           /\ Len(batches) \in Nat
           /\ Len(batches') = Len(batches) + 1
           /\ \A i \in 1..Len(batches) : batches'[i] = batches[i]
           /\ batches'[Len(batches) + 1].from = first
           /\ batches'[Len(batches) + 1].to = packed
<1>1. [from |-> first, to |-> packed] \in [from : Nat \ {0}, to : Nat \ {0}]
    BY DEF PackTypeOK
<1> QED
    BY <1>1 DEF Push, PackTypeOK

----------------------------------------------------------------------------
(* The steps of packing.                                                   *)

LEMMA BeginKeeps ==
    ASSUME PackInv, NEW in \in Input, Begin(in)
    PROVE  PackInv'
<1>1. /\ Idle /\ input' = in /\ stage' = "pack"
      /\ packed' = 0 /\ first' = 1 /\ filled' = 0 /\ batches' = <<>>
    BY DEF Begin, PackInv, Idle
<1>2. in \in Probes /\ in # None
    BY ProbeBatchesAssumption, NoneIsNoProbe
<1>3. PackTypeOK'
    BY <1>1 DEF PackTypeOK
<1>4. Count' \in Nat
    BY <1>1, <1>2 DEF Count, Probes
<1>5. Bytes(1, 0)' = 0
    BY <1>1 DEF Bytes, Upto
<1>6. MaxBatchSize \in Nat
    BY ProbeBatchesAssumption
<1> QED
    BY <1>1, <1>2, <1>3, <1>4, <1>5, <1>6
    DEF PackInv, CurrentShape, PushedShape, BatchesFit, BatchesAreFull, BatchesPartition

\* Sizes depend on the request only.
LEMMA SameBytes ==
    ASSUME UNCHANGED input
    PROVE  Count' = Count /\ \A i, j : Bytes(i, j)' = Bytes(i, j)
BY DEF Count, Bytes, Upto

\* A probe that still fits joins the batch.
LEMMA JoinKeeps ==
    ASSUME PackInv, stage = "pack", packed < Count,
           ~Full(Bytes(packed + 1, packed + 1)), Take(Bytes(packed + 1, packed + 1)),
           UNCHANGED <<input, stage>>
    PROVE  PackInv'
<1> USE DEF PackInv
<1>1. /\ PackTypeOK /\ input # None /\ Count \in Nat /\ MaxBatchSize \in Nat
      /\ BatchesFit /\ BatchesAreFull /\ CurrentShape /\ PushedShape
    BY Offsets, ProbeBatchesAssumption
<1>2. /\ packed' = packed + 1 /\ filled' = filled + Bytes(packed + 1, packed + 1)
      /\ UNCHANGED <<batches, first>>
    BY DEF Take
<1>3. packed \in Nat /\ first \in Nat \ {0} /\ filled \in Nat
    BY <1>1 DEF PackTypeOK
<1>4. Bytes(packed + 1, packed + 1) \in Nat
    <2>1. (packed + 1) - 1 = packed /\ packed \in 0..Count /\ packed + 1 \in 0..Count
        BY <1>1, <1>3
    <2>2. Upto(packed) \in Nat /\ Upto(packed + 1) \in Nat /\ Upto(packed) < Upto(packed + 1)
        BY <1>1, <1>3, <2>1, Offsets
    <2> QED
        BY <2>1, <2>2 DEF Bytes
<1>5. PackTypeOK'
    BY <1>1, <1>2, <1>3, <1>4 DEF PackTypeOK
<1>6. CurrentShape'
    <2>1. CASE CurrentIsEmpty
        <3>1. first = packed + 1 /\ filled = Bytes(packed + 1, packed)
            BY <1>1, <1>3, <2>1 DEF CurrentShape, CurrentIsEmpty
        <3>2. packed \in 0..Count /\ Upto(packed) \in Nat /\ (packed + 1) - 1 = packed
            BY <1>1, <1>3, Offsets
        <3>3. filled = 0
            BY <3>1, <3>2 DEF Bytes
        <3> QED
            BY <1>1, <1>2, <1>3, <1>4, <3>1, <3>3, SameBytes DEF CurrentShape
    <2>2. CASE ~CurrentIsEmpty
        <3>1. /\ first \in 1..Count /\ packed \in 1..Count
              /\ first <= packed /\ packed + 1 <= Count
            BY <1>1, <1>3, <2>2 DEF CurrentShape, CurrentIsEmpty
        <3>2. Bytes(first, packed) + Bytes(packed + 1, packed + 1) = Bytes(first, packed + 1)
            BY <1>1, <3>1, BytesAdd
        <3>3. filled + Bytes(packed + 1, packed + 1) <= MaxBatchSize
            BY <1>1, <1>3, <1>4, <2>2 DEF Full
        <3> QED
            BY <1>1, <1>2, <1>3, <3>1, <3>2, <3>3, SameBytes DEF CurrentShape
    <2> QED
        BY <2>1, <2>2
<1>7. PushedShape' /\ BatchesFit' /\ BatchesAreFull'
    BY <1>1, <1>2, SameBytes DEF PushedShape, BatchesFit, BatchesAreFull
<1> QED
    BY <1>1, <1>2, <1>5, <1>6, <1>7 DEF BatchesPartition

\* A batch is pushed: it fits and does not overlap those before it.
LEMMA PushKeeps ==
    ASSUME PackInv, stage = "pack", ~CurrentIsEmpty, Push, UNCHANGED input
    PROVE  /\ BatchesFit' /\ BatchesAreFull'
           /\ Len(batches') \in 1..packed
           /\ \A i \in 1..Len(batches') : batches'[i].from <= batches'[i].to /\ batches'[i].to <= Count
           /\ \A i \in 1..Len(batches') - 1 : batches'[i + 1].from = batches'[i].to + 1
           /\ batches'[1].from = 1
           /\ batches'[Len(batches')].from = first
           /\ batches'[Len(batches')].to = packed
           /\ batches' \in Seq([from : Nat \ {0}, to : Nat \ {0}])
<1> USE DEF PackInv
<1>1. /\ PackTypeOK /\ input # None /\ Count \in Nat /\ MaxBatchSize \in Nat
      /\ BatchesFit /\ BatchesAreFull /\ CurrentShape /\ PushedShape
    BY Offsets, ProbeBatchesAssumption
<1>2. packed \in Nat /\ first \in Nat \ {0} /\ first <= packed /\ packed > 0 /\ packed <= Count
    BY <1>1 DEF PackTypeOK, CurrentShape, CurrentIsEmpty
<1>3. /\ batches' \in Seq([from : Nat \ {0}, to : Nat \ {0}])
      /\ Len(batches) \in Nat
      /\ Len(batches') = Len(batches) + 1
      /\ \A i \in 1..Len(batches) : batches'[i] = batches[i]
      /\ batches'[Len(batches) + 1].from = first
      /\ batches'[Len(batches) + 1].to = packed
    BY <1>1, <1>2, PushEffect
<1>4. batches = <<>> <=> Len(batches) = 0
    BY <1>1 DEF PackTypeOK
<1>5. BatchesFit'
    <2>1. \/ Bytes(first, packed) <= MaxBatchSize
          \/ first = packed
        BY <1>1 DEF CurrentShape
    <2>2. ASSUME NEW i \in 1..Len(batches')
          PROVE  \/ Bytes(batches'[i].from, batches'[i].to) <= MaxBatchSize
                 \/ batches'[i].from = batches'[i].to
        <3>1. CASE i = Len(batches) + 1
            BY <1>3, <2>1, <3>1
        <3>2. CASE i \in 1..Len(batches)
            BY <1>1, <1>3, <3>2 DEF BatchesFit
        <3> QED
            BY <1>3, <3>1, <3>2
    <2> QED
        BY <2>2, SameBytes DEF BatchesFit
<1>6. BatchesAreFull'
    <2>1. Len(batches) > 0 => Bytes(batches[Len(batches)].from, first) > MaxBatchSize
        BY <1>1, <1>4 DEF PushedShape
    <2>2. SUFFICES ASSUME NEW i \in 1..Len(batches)
                   PROVE  Bytes(batches'[i].from, batches'[i + 1].from) > MaxBatchSize
        BY <1>3, SameBytes DEF BatchesAreFull
    <2>3. CASE i = Len(batches)
        BY <1>3, <2>1, <2>3
    <2>4. CASE i # Len(batches)
        <3>1. i \in 1..Len(batches) - 1 /\ i + 1 \in 1..Len(batches)
            BY <1>3, <2>4
        <3> QED
            BY <1>1, <1>3, <3>1 DEF BatchesAreFull
    <2> QED
        BY <2>3, <2>4
<1>7. Len(batches') \in 1..packed
    BY <1>1, <1>2, <1>3 DEF PushedShape
<1>8. ASSUME NEW i \in 1..Len(batches')
      PROVE  batches'[i].from <= batches'[i].to /\ batches'[i].to <= Count
    <2>1. CASE i = Len(batches) + 1
        BY <1>2, <1>3, <2>1
    <2>2. CASE i \in 1..Len(batches)
        BY <1>1, <1>3, <2>2 DEF PushedShape
    <2> QED
        BY <1>3, <2>1, <2>2
<1>9. ASSUME NEW i \in 1..Len(batches') - 1
      PROVE  batches'[i + 1].from = batches'[i].to + 1
    <2>1. CASE i = Len(batches)
        <3>1. batches[Len(batches)].to = first - 1
            BY <1>1, <1>3, <1>4, <2>1 DEF PushedShape
        <3> QED
            BY <1>2, <1>3, <2>1, <3>1
    <2>2. CASE i # Len(batches)
        <3>1. i \in 1..Len(batches) - 1 /\ i + 1 \in 1..Len(batches)
            BY <1>3, <2>2
        <3>2. batches[i + 1].from = batches[i].to + 1
            BY <1>1, <3>1 DEF PushedShape
        <3>3. batches'[i] = batches[i] /\ batches'[i + 1] = batches[i + 1]
            BY <1>3, <3>1
        <3> QED
            BY <3>2, <3>3
    <2> QED
        BY <2>1, <2>2
<1>10. batches'[1].from = 1
    <2>1. CASE Len(batches) = 0
        BY <1>1, <1>3, <1>4, <2>1 DEF PushedShape
    <2>2. CASE Len(batches) # 0
        <3>1. batches[1].from = 1 /\ 1 \in 1..Len(batches)
            BY <1>1, <1>3, <1>4, <2>2 DEF PushedShape
        <3> QED
            BY <1>3, <3>1
    <2> QED
        BY <2>1, <2>2
<1> QED
    BY <1>3, <1>5, <1>6, <1>7, <1>8, <1>9, <1>10

\* A probe that does not fit begins the next batch.
LEMMA NextBatchKeeps ==
    ASSUME PackInv, stage = "pack", packed < Count,
           Full(Bytes(packed + 1, packed + 1)), Take(Bytes(packed + 1, packed + 1)),
           UNCHANGED <<input, stage>>
    PROVE  PackInv'
<1> USE DEF PackInv
<1>1. /\ PackTypeOK /\ input # None /\ Count \in Nat /\ MaxBatchSize \in Nat
      /\ CurrentShape /\ ~CurrentIsEmpty
    BY Offsets, ProbeBatchesAssumption DEF Full
<1>2. /\ packed' = packed + 1 /\ first' = packed + 1
      /\ filled' = Bytes(packed + 1, packed + 1) /\ Push
    BY DEF Take
<1>3. /\ packed \in Nat /\ first \in Nat \ {0} /\ filled \in Nat /\ first <= packed
      /\ filled = Bytes(first, packed)
    BY <1>1 DEF PackTypeOK, CurrentShape, CurrentIsEmpty
<1>4. Bytes(packed + 1, packed + 1) \in Nat
    <2>1. (packed + 1) - 1 = packed /\ packed \in 0..Count /\ packed + 1 \in 0..Count
        BY <1>1, <1>3
    <2>2. Upto(packed) \in Nat /\ Upto(packed + 1) \in Nat /\ Upto(packed) < Upto(packed + 1)
        BY <1>1, <1>3, <2>1, Offsets
    <2> QED
        BY <2>1, <2>2 DEF Bytes
<1>5. /\ BatchesFit' /\ BatchesAreFull'
      /\ Len(batches') \in 1..packed
      /\ \A i \in 1..Len(batches') : batches'[i].from <= batches'[i].to /\ batches'[i].to <= Count
      /\ \A i \in 1..Len(batches') - 1 : batches'[i + 1].from = batches'[i].to + 1
      /\ batches'[1].from = 1
      /\ batches'[Len(batches')].from = first
      /\ batches'[Len(batches')].to = packed
      /\ batches' \in Seq([from : Nat \ {0}, to : Nat \ {0}])
    BY <1>1, <1>2, PushKeeps
<1>6. PackTypeOK'
    BY <1>1, <1>2, <1>3, <1>4, <1>5 DEF PackTypeOK
<1>7. CurrentShape'
    BY <1>1, <1>2, <1>3, <1>4, SameBytes DEF CurrentShape
<1>8. PushedShape'
    <2>1. Bytes(first, packed + 1) > MaxBatchSize
        <3>1. first \in 1..Count /\ packed \in 1..Count /\ packed + 1 <= Count
            BY <1>1, <1>3
        <3>2. Bytes(first, packed) + Bytes(packed + 1, packed + 1) = Bytes(first, packed + 1)
            BY <1>1, <1>3, <3>1, BytesAdd
        <3> QED
            BY <1>3, <3>2 DEF Full
    <2>2. first' - 1 = packed
        BY <1>2, <1>3
    <2> QED
        BY <1>2, <1>3, <1>5, <2>1, <2>2, SameBytes DEF PushedShape
<1> QED
    BY <1>1, <1>5, <1>6, <1>7, <1>8 DEF BatchesPartition

LEMMA ProbeKeeps ==
    ASSUME PackInv, PackProbe
    PROVE  PackInv'
<1>1. CASE Serializable(input.probes[packed + 1])
    BY <1>1, JoinKeeps, NextBatchKeeps DEF PackProbe
<1>2. CASE ~Serializable(input.probes[packed + 1])
    <2>1. /\ stage = "pack" /\ stage' = "failed"
          /\ UNCHANGED <<input, packed, first, filled, batches>>
        BY <1>2 DEF PackProbe
    <2> QED
        BY <2>1, SameBytes
        DEF PackInv, PackTypeOK, CurrentShape, PushedShape, BatchesFit, BatchesAreFull,
            BatchesPartition
<1> QED
    BY <1>1, <1>2

LEMMA LastKeeps ==
    ASSUME PackInv, PackLast
    PROVE  PackInv'
<1> USE DEF PackInv
<1>1. /\ PackTypeOK /\ input # None /\ Count \in Nat
      /\ stage = "pack" /\ packed = Count /\ stage' = "packed"
      /\ CurrentShape /\ PushedShape /\ BatchesFit /\ BatchesAreFull
      /\ UNCHANGED <<input, packed, first, filled>>
    BY Offsets DEF PackLast
<1>2. CASE CurrentIsEmpty
    <2>1. Count = 0 /\ UNCHANGED batches
        BY <1>1, <1>2 DEF CurrentShape, CurrentIsEmpty, PackTypeOK, PackLast
    <2>2. batches = <<>>
        BY <1>1, <1>2, <2>1 DEF CurrentShape, CurrentIsEmpty, PushedShape, PackTypeOK
    <2> QED
        BY <1>1, <2>1, <2>2, SameBytes DEF PackTypeOK, BatchesFit, BatchesAreFull, BatchesPartition
<1>3. CASE ~CurrentIsEmpty
    <2>1. Push
        BY <1>3 DEF PackLast
    <2>2. /\ BatchesFit' /\ BatchesAreFull'
          /\ Len(batches') \in 1..packed
          /\ \A i \in 1..Len(batches') : batches'[i].from <= batches'[i].to /\ batches'[i].to <= Count
          /\ \A i \in 1..Len(batches') - 1 : batches'[i + 1].from = batches'[i].to + 1
          /\ batches'[1].from = 1
          /\ batches'[Len(batches')].from = first
          /\ batches'[Len(batches')].to = packed
          /\ batches' \in Seq([from : Nat \ {0}, to : Nat \ {0}])
        BY <1>1, <1>3, <2>1, PushKeeps
    <2> QED
        BY <1>1, <2>2, SameBytes DEF PackTypeOK, BatchesPartition
<1> QED
    BY <1>2, <1>3

----------------------------------------------------------------------------
(* The invariant of packing.                                               *)

LEMMA PackInitially == PackInit => PackInv
BY DEF PackInit, PackInv, PackTypeOK, BatchesPartition

LEMMA PackKept == PackInv /\ [PackNext]_packVars => PackInv'
<1> SUFFICES ASSUME PackInv, [PackNext]_packVars
             PROVE  PackInv'
    OBVIOUS
<1>1. CASE UNCHANGED packVars
    BY <1>1, SameBytes
    DEF packVars, PackInv, PackTypeOK, CurrentShape, PushedShape, BatchesFit, BatchesAreFull,
        BatchesPartition
<1> QED
    BY <1>1, BeginKeeps, ProbeKeeps, LastKeeps DEF PackNext, Pack

\* Whatever request is packed: what the loop has pushed and what it holds back.
THEOREM Packing == PackSpec => []PackInv
BY PackInitially, PackKept, PTL DEF PackSpec

\* The batches of a request are its probes, once and in order.
THEOREM PackedOnce == PackSpec => []BatchesPartition
BY Packing, PTL DEF PackInv

\* No batch is over the limit, but for one probe that is itself over it.
THEOREM PackedWithin == PackSpec => []BatchesFit
<1>1. PackInv => BatchesFit
    BY DEF PackInv, BatchesFit
<1> QED
    BY <1>1, Packing, PTL

\* No batch is closed that the next probe would still fit in.
THEOREM PackedTight == PackSpec => []BatchesAreFull
<1>1. PackInv => BatchesAreFull
    BY DEF PackInv, BatchesAreFull
<1> QED
    BY <1>1, Packing, PTL

----------------------------------------------------------------------------
USE UserPrefixAssumption

----------------------------------------------------------------------------
(* The arithmetic of the prefixes.                                         *)

\* The address of a user's prefix has the agent's bits ...
LEMMA AgentBits ==
    ASSUME NEW p \in Prefix, HasRoom(p), NEW id \in Id, NEW b \in 1..p.len
    PROVE  UserAddress(p, id)[b] = p.addr[b]
<1> DEFINE n == Width - p.len - IdBits
<1>1. /\ p.addr \in Address /\ p.len \in 0..Width
      /\ n \in Nat /\ b \in 1..Width /\ p.addr[b] \in BOOLEAN
    BY DEF Prefix, Address, HasRoom
<1>2. Network(p)[b] = p.addr[b]
    BY <1>1 DEF Network
<1>3. ShiftLeft(Widened(id), n)[b] = FALSE
    <2>1. b + n \in 1..Width /\ ~(b + n > Width - IdBits)
        BY <1>1
    <2>2. Widened(id)[b + n] = FALSE
        BY <2>1 DEF Widened
    <2> QED
        BY <1>1, <2>2 DEF ShiftLeft
<1>4. UserAddress(p, id)[b] = (Network(p)[b] \/ ShiftLeft(Widened(id), n)[b])
    BY <1>1 DEF UserAddress, BitOr
<1> QED
    BY <1>1, <1>2, <1>3, <1>4

\* ... and then the user's.
LEMMA IdBitsOf ==
    ASSUME NEW p \in Prefix, HasRoom(p), NEW id \in Id, NEW b \in 1..IdBits
    PROVE  UserAddress(p, id)[p.len + b] = id[b]
<1> DEFINE n == Width - p.len - IdBits
           c == p.len + b
<1>1. /\ p.len \in 0..Width
      /\ n \in Nat /\ c \in 1..Width /\ ~(c <= p.len) /\ id[b] \in BOOLEAN
    BY DEF Prefix, HasRoom, Id
<1>2. Network(p)[c] = FALSE
    BY <1>1 DEF Network
<1>3. ShiftLeft(Widened(id), n)[c] = id[b]
    <2>1. c + n \in 1..Width /\ c + n > Width - IdBits /\ c + n - (Width - IdBits) = b
        BY <1>1
    <2>2. Widened(id)[c + n] = id[b]
        <3>1. PICK x \in 1..Width : x = c + n /\ x > Width - IdBits /\ x - (Width - IdBits) = b
            BY <1>1, <2>1
        <3>2. Widened(id)[x] = id[b]
            BY <1>1, <3>1, Zenon DEF Widened
        <3> QED
            BY <3>1, <3>2
    <2> QED
        BY <1>1, <2>1, <2>2 DEF ShiftLeft
<1>4. UserAddress(p, id)[c] = (Network(p)[c] \/ ShiftLeft(Widened(id), n)[c])
    BY <1>1 DEF UserAddress, BitOr
<1> QED
    BY <1>1, <1>2, <1>3, <1>4

LEMMA UserPrefixType ==
    ASSUME NEW p \in Prefix, HasRoom(p), NEW id \in Id
    PROVE  UserPrefix(p, id) \in Prefix
<1>1. UserAddress(p, id) \in Address
    BY DEF UserAddress, BitOr, Address
<1>2. p.len + IdBits \in 0..Width
    BY DEF Prefix, HasRoom
<1> QED
    BY <1>1, <1>2 DEF UserPrefix, Prefix

\* A user's prefix lies within the agent's.
THEOREM UserWithinAgent ==
    ASSUME NEW p \in Prefix, HasRoom(p), NEW id \in Id, NEW ip, Contains(UserPrefix(p, id), ip)
    PROVE  Contains(p, ip)
<1> SUFFICES ASSUME NEW b \in 1..p.len
             PROVE  ip[b] = p.addr[b]
    BY DEF Contains
<1>1. b \in 1..(p.len + IdBits)
    BY DEF Prefix
<1>2. ip[b] = UserAddress(p, id)[b]
    BY <1>1 DEF Contains, UserPrefix
<1> QED
    BY <1>2, AgentBits

\* The prefixes of two users at one agent prefix have no address in common.
THEOREM UsersApart ==
    ASSUME NEW p \in Prefix, HasRoom(p), NEW id \in Id, NEW other \in Id, NEW ip,
           Contains(UserPrefix(p, id), ip), Contains(UserPrefix(p, other), ip)
    PROVE  id = other
<1>1. ASSUME NEW b \in 1..IdBits
      PROVE  id[b] = other[b]
    <2>1. p.len + b \in 1..(p.len + IdBits)
        BY DEF Prefix
    <2>2. ip[p.len + b] = UserAddress(p, id)[p.len + b]
        BY <2>1 DEF Contains, UserPrefix
    <2>3. ip[p.len + b] = UserAddress(p, other)[p.len + b]
        BY <2>1 DEF Contains, UserPrefix
    <2> QED
        BY <2>2, <2>3, IdBitsOf
<1> QED
    BY <1>1 DEF Id

----------------------------------------------------------------------------
(* Types.                                                                  *)

\* What is known of a request under way.
LEMMA RequestFields ==
    ASSUME TypeOK, request # None
    PROVE  /\ request \in Request
           /\ Me \in User
           /\ request.body \in Input
           /\ request.metadata \in Seq(AgentMetadata)
           /\ idOf[Me] \in Id \union {None}
BY SubmitProbesAssumption DEF TypeOK, Me

\* A configured prefix is a prefix.
LEMMA ConfiguredPrefixes ==
    ASSUME TypeOK, NEW a \in Agent, config[a] # None
    PROVE  config[a].prefixes \subseteq Prefix
BY SubmitProbesAssumption DEF TypeOK, Config

LEMMA OfferedPrefixes ==
    ASSUME TypeOK, NEW a \in Agent, NEW id \in Id
    PROVE  UserPrefixes(id, a) \subseteq Prefix
BY ConfiguredPrefixes, UserPrefixType DEF UserPrefixes

\* The steps of the handler up to its batches leave packing alone, but for its start;
\* no step makes packing do anything else than one of its own.
LEMMA PackSteps == SubmitInv /\ [Next]_vars => [PackNext]_packVars
<1> SUFFICES ASSUME SubmitInv, Next
             PROVE  PackNext \/ UNCHANGED packVars
    BY DEF vars, packVars
<1>1. CASE PassQuota
    <2>1. request.body \in Input
        BY <1>1, RequestFields DEF PassQuota, SubmitInv, RequestShape
    <2> QED
        BY <1>1, <2>1 DEF PassQuota, PackNext
<1>2. CASE PackBatches
    BY <1>2 DEF PackBatches, PackNext
<1> QED
    BY <1>1, <1>2
    DEF Next, Handler, Receive, GetUserId, UserIdFails, CheckSource, Admit, FailQuota, OtherGetsId,
        ListPrefixes, Configure

\* The turn of the loop that admits a source.
LEMMA AdmitEffect ==
    ASSUME SubmitInv, step = "sources", NEW p \in Prefix \union {None}, Admit(p)
    PROVE  /\ admitted' \in Seq(Prefix \union {None})
           /\ Len(admitted') = next
           /\ next' = next + 1
           /\ \A i \in 1..Len(admitted) : admitted'[i] = admitted[i]
           /\ admitted'[next] = p
           /\ step' = AfterSources(next + 1)
           /\ UNCHANGED <<packVars, storeVars, request, readerVars>>
<1>1. admitted \in Seq(Prefix \union {None}) /\ next = Len(admitted) + 1
    BY DEF SubmitInv, TypeOK, RequestShape
<1> QED
    BY <1>1 DEF Admit

LEMMA CheckedSource ==
    ASSUME SubmitInv, step = "sources"
    PROVE  /\ request # None
           /\ Source \in AgentMetadata
           /\ Source.agent \in Agent
           /\ next \in Nat \ {0}
           /\ idOf[Me] \in Id
<1>1. request # None /\ idOf[Me] # None /\ next \in Nat \ {0} /\ next <= Len(request.metadata)
    BY DEF SubmitInv, RequestShape, TypeOK
<1>2. request.metadata \in Seq(AgentMetadata) /\ idOf[Me] \in Id \union {None}
    BY <1>1, RequestFields DEF SubmitInv
<1>3. Source \in AgentMetadata
    BY <1>1, <1>2 DEF Source
<1> QED
    BY <1>1, <1>2, <1>3 DEF AgentMetadata

\* What CheckSource does.
LEMMA CheckEffect ==
    ASSUME SubmitInv, CheckSource
    PROVE  \/ \E p \in Prefix \union {None} :
                 /\ Admit(p)
                 /\ p # None => ValidateUserIpv6(Source.ip_address, p, idOf[Me])
           \/ /\ Source.ip_address # V4 /\ config[Source.agent] # None /\ Admitting = {}
              /\ Refuse
              /\ UNCHANGED <<packVars, storeVars, request, next, admitted, readerVars>>
<1>1. Source.agent \in Agent
    BY CheckedSource DEF CheckSource
<1>2. config[Source.agent] # None => Admitting \subseteq Prefix
    BY <1>1, ConfiguredPrefixes DEF SubmitInv, Admitting
<1> QED
    BY <1>2 DEF CheckSource, Admitting

LEMMA StoreTyping ==
    ASSUME SubmitInv, [Next]_vars
    PROVE  /\ idOf' \in [User -> Id \union {None}]
           /\ config' \in [Agent -> Config \union {None}]
           /\ request' \in Request \union {None}
<1> USE DEF SubmitInv, TypeOK
<1>1. CASE \E r \in Request : Receive(r)
    BY <1>1 DEF Receive, storeVars
<1>2. CASE GetUserId
    BY <1>2, RequestFields DEF GetUserId, Ids!Allocate, RequestShape
<1>3. CASE \E u \in User : OtherGetsId(u)
    BY <1>3 DEF OtherGetsId, Ids!Allocate, handlerVars
<1>4. CASE \E a \in Agent : Configure(a)
    BY <1>4 DEF Configure, handlerVars
<1>5. CASE UNCHANGED <<idOf, config, request>>
    BY <1>5
<1> QED
    BY <1>1, <1>2, <1>3, <1>4, <1>5
    DEF Next, Handler, UserIdFails, CheckSource, Admit, PassQuota, FailQuota, PackBatches,
        ListPrefixes, vars, storeVars, handlerVars

LEMMA HandlerTyping ==
    ASSUME SubmitInv, [Next]_vars
    PROVE  /\ step' \in {"idle", "user", "sources", "quota", "accepted", "refused"}
           /\ next' \in Nat \ {0}
           /\ admitted' \in Seq(Prefix \union {None})
<1> USE DEF SubmitInv, TypeOK
<1>1. CASE \E r \in Request : Receive(r)
    BY <1>1 DEF Receive
<1>2. CASE GetUserId
    BY <1>2 DEF GetUserId, AfterSources
<1>3. CASE CheckSource
    <2>1. ASSUME NEW p \in Prefix \union {None}, Admit(p)
          PROVE  /\ step' \in {"idle", "user", "sources", "quota", "accepted", "refused"}
                 /\ next' \in Nat \ {0}
                 /\ admitted' \in Seq(Prefix \union {None})
        BY <1>3, <2>1, AdmitEffect DEF CheckSource, AfterSources
    <2> QED
        BY <1>3, <2>1, CheckEffect DEF Refuse
<1>4. CASE UserIdFails \/ FailQuota
    BY <1>4 DEF UserIdFails, FailQuota, Refuse
<1>5. CASE PassQuota
    BY <1>5 DEF PassQuota
<1>6. CASE UNCHANGED handlerVars
    BY <1>6 DEF handlerVars
<1> QED
    BY <1>1, <1>2, <1>3, <1>4, <1>5, <1>6
    DEF Next, Handler, OtherGetsId, Configure, ListPrefixes, PackBatches, vars

LEMMA ReaderTyping ==
    ASSUME SubmitInv, [Next]_vars
    PROVE  /\ offer' \in [user : User, prefixes : [Agent -> SUBSET Prefix]] \union {None}
           /\ current' \subseteq Agent
<1> USE DEF SubmitInv, TypeOK
<1>1. CASE \E a \in Agent : Configure(a)
    BY <1>1 DEF Configure
<1>2. CASE \E u \in User : ListPrefixes(u)
    <2>1. PICK u \in User : ListPrefixes(u)
        BY <1>2
    <2>2. idOf[u] \in Id
        BY <2>1 DEF ListPrefixes
    <2>3. [a \in Agent |-> UserPrefixes(idOf[u], a)] \in [Agent -> SUBSET Prefix]
        BY <2>2, OfferedPrefixes
    <2> QED
        BY <2>1, <2>3 DEF ListPrefixes
<1>3. CASE UNCHANGED readerVars
    BY <1>3 DEF readerVars
<1> QED
    BY <1>1, <1>2, <1>3, CheckEffect
    DEF Next, Handler, OtherGetsId, Receive, GetUserId, UserIdFails, CheckSource, Admit, PassQuota,
        FailQuota, PackBatches, vars, readerVars

----------------------------------------------------------------------------
(* The invariant.                                                          *)

\* Ids are given once, and to one user each.
LEMMA IdsKept ==
    ASSUME SubmitInv, [Next]_vars
    PROVE  /\ IdsDiffer'
           /\ \A u \in User : idOf[u] # None => idOf'[u] = idOf[u]
<1> USE DEF SubmitInv, TypeOK, IdsDiffer
<1>1. ASSUME NEW u \in User, Ids!Allocate(u)
      PROVE  /\ IdsDiffer'
             /\ \A v \in User : idOf[v] # None => idOf'[v] = idOf[v]
    BY <1>1, NoneIsNoConfig DEF Ids!Allocate, Ids!Taken
<1>2. CASE GetUserId
    BY <1>1, <1>2, RequestFields DEF GetUserId, RequestShape
<1>3. CASE \E u \in User : OtherGetsId(u)
    BY <1>1, <1>3 DEF OtherGetsId
<1>4. CASE UNCHANGED idOf
    BY <1>4
<1> QED
    BY <1>2, <1>3, <1>4
    DEF Next, Handler, Receive, UserIdFails, CheckSource, Admit, PassQuota, FailQuota, PackBatches,
        ListPrefixes, Configure, vars, storeVars

LEMMA RequestKept ==
    ASSUME SubmitInv, [Next]_vars
    PROVE  RequestShape'
<1> USE DEF SubmitInv, RequestShape, Me
<1>0. \A u \in User : idOf[u] # None => idOf'[u] = idOf[u]
    BY IdsKept
<1>1. CASE \E r \in Request : Receive(r)
    BY <1>1, NoneIsNoConfig DEF Receive, packVars
<1>2. CASE GetUserId
    <2>1. step = "user" /\ UNCHANGED <<packVars, request, next, admitted>>
        BY <1>2 DEF GetUserId
    <2>2. Me \in User /\ request.metadata \in Seq(AgentMetadata)
        BY <2>1, RequestFields
    <2>3. idOf'[Me] # None
        BY <1>2, <2>2, NoneIsNoConfig DEF GetUserId, Ids!Allocate, TypeOK
    <2>4. step' = IF 1 > Len(request.metadata) THEN "quota" ELSE "sources"
        BY <1>2 DEF GetUserId, AfterSources
    <2> QED
        BY <2>1, <2>2, <2>3, <2>4 DEF packVars
<1>3. CASE CheckSource
    <2>1. ASSUME NEW p \in Prefix \union {None}, Admit(p)
          PROVE  RequestShape'
        <3>1. /\ next \in Nat \ {0} /\ request # None /\ idOf[Me] # None
              /\ request.metadata \in Seq(AgentMetadata)
            BY <1>3, CheckedSource, RequestFields, NoneIsNoConfig DEF CheckSource
        <3> QED
            BY <1>3, <2>1, <3>1, AdmitEffect DEF CheckSource, AfterSources, storeVars, packVars
    <2> QED
        BY <1>3, <2>1, CheckEffect DEF Refuse, CheckSource, packVars
<1>4. CASE UserIdFails \/ FailQuota
    BY <1>4 DEF UserIdFails, FailQuota, Refuse, packVars
<1>5. CASE PassQuota
    BY <1>5 DEF PassQuota, Begin
<1>6. CASE PackBatches
    BY <1>6 DEF PackBatches, Pack, PackProbe, PackLast, Take, handlerVars, storeVars
<1>7. CASE UNCHANGED <<packVars, handlerVars>>
    <2>1. step = "sources" => request # None /\ Me \in User
        BY RequestFields
    <2> QED
        BY <1>0, <1>7, <2>1 DEF packVars, handlerVars
<1> QED
    BY <1>1, <1>2, <1>3, <1>4, <1>5, <1>6, <1>7
    DEF Next, Handler, OtherGetsId, ListPrefixes, Configure, vars

LEMMA AdmittedKept ==
    ASSUME SubmitInv, [Next]_vars
    PROVE  AdmittedShape'
<1> USE DEF SubmitInv, AdmittedShape, Me
<1>0. \A u \in User : idOf[u] # None => idOf'[u] = idOf[u]
    BY IdsKept
<1>1. CASE \E r \in Request : Receive(r)
    BY <1>1 DEF Receive, RequestShape
<1>2. CASE CheckSource
    <2>1. ASSUME NEW p \in Prefix \union {None}, Admit(p),
                 p # None => ValidateUserIpv6(Source.ip_address, p, idOf[Me])
          PROVE  AdmittedShape'
        <3>1. /\ request # None /\ Me \in User /\ idOf[Me] # None
              /\ next = Len(admitted) + 1
            BY <1>2, CheckedSource, RequestFields, NoneIsNoConfig DEF CheckSource, RequestShape
        <3>2. /\ admitted \in Seq(Prefix \union {None})
              /\ Len(admitted') = next
              /\ \A i \in 1..Len(admitted) : admitted'[i] = admitted[i]
              /\ admitted'[next] = p
              /\ UNCHANGED <<request, idOf>>
            BY <1>2, <2>1, AdmitEffect DEF CheckSource, storeVars, TypeOK
        <3>3. p # None => ValidateUserIpv6(request.metadata[next].ip_address, p, idOf[Me])
            BY <2>1 DEF Source
        <3>4. ASSUME NEW i \in 1..Len(admitted'), admitted'[i] # None
              PROVE  /\ Me \in User /\ idOf[Me] # None
                     /\ ValidateUserIpv6(request.metadata[i].ip_address, admitted'[i], idOf[Me])
            BY <3>1, <3>2, <3>3, <3>4
        <3> QED
            BY <3>2, <3>4
    <2> QED
        BY <1>2, <2>1, CheckEffect DEF storeVars
<1>3. CASE UNCHANGED <<request, admitted>>
    BY <1>0, <1>3
<1> QED
    BY <1>1, <1>2, <1>3
    DEF Next, Handler, GetUserId, UserIdFails, PassQuota, FailQuota, PackBatches, OtherGetsId,
        ListPrefixes, Configure, handlerVars, vars

LEMMA OfferKept ==
    ASSUME SubmitInv, [Next]_vars
    PROVE  OfferShape'
<1> USE DEF SubmitInv, OfferShape
<1>0. \A u \in User : idOf[u] # None => idOf'[u] = idOf[u]
    BY IdsKept
<1>1. offer # None => offer.user \in User
    BY DEF TypeOK
<1>2. ASSUME UNCHANGED offer, offer # None, NEW a \in current, config'[a] = config[a]
      PROVE  /\ (idOf[offer.user] # None)'
             /\ (offer.prefixes[a] = UserPrefixes(idOf[offer.user], a))'
    <2>1. idOf'[offer'.user] = idOf[offer.user] /\ idOf[offer.user] # None
        BY <1>0, <1>1, <1>2
    <2>2. offer.prefixes[a] = UserPrefixes(idOf[offer.user], a)
        BY <1>2
    <2> QED
        BY <1>2, <2>1, <2>2 DEF UserPrefixes
<1>3. CASE \E a \in Agent : Configure(a)
    <2>1. PICK a \in Agent : Configure(a)
        BY <1>3
    <2>2. \A b \in current' : b \in current /\ config'[b] = config[b]
        BY <2>1 DEF Configure, TypeOK
    <2>3. UNCHANGED <<offer, idOf>>
        BY <2>1 DEF Configure
    <2> QED
        BY <1>2, <2>2, <2>3
<1>4. CASE \E u \in User : ListPrefixes(u)
    <2>1. PICK u \in User : ListPrefixes(u)
        BY <1>4
    <2> QED
        BY <2>1 DEF ListPrefixes, storeVars, UserPrefixes
<1>5. CASE UNCHANGED <<config, readerVars>>
    <2>1. UNCHANGED <<offer, current>>
        BY <1>5 DEF readerVars
    <2>2. offer # None => idOf'[offer'.user] # None
        BY <1>0, <1>1, <2>1
    <2> QED
        BY <1>2, <1>5, <2>1, <2>2
<1> QED
    BY <1>3, <1>4, <1>5
    DEF Next, Handler, Receive, GetUserId, UserIdFails, CheckSource, Admit, PassQuota, FailQuota,
        PackBatches, OtherGetsId, storeVars, vars

\* Serializing a probe that was validated does not fail.
LEMMA PackingKept ==
    ASSUME SubmitInv, [Next]_vars
    PROVE  AcceptedIsPacked'
<1> USE DEF SubmitInv, AcceptedIsPacked
<1>1. CASE PackBatches /\ PackProbe
    <2>1. AllValid(input) /\ input \in Input /\ packed + 1 \in DOMAIN input.probes
        <3>1. stage = "pack" /\ input # None /\ packed < Count /\ packed \in Nat
            BY <1>1 DEF PackProbe, PackInv, PackTypeOK
        <3>2. input \in Input /\ input.probes \in Seq(Probe \union {None})
            BY <3>1, ProbeBatchesAssumption DEF PackInv, PackTypeOK, Probes
        <3> QED
            BY <3>1, <3>2 DEF RequestShape, Count
    <2>2. input.probes[packed + 1] \in Probe \union {None}
        BY <2>1, ProbeBatchesAssumption DEF Probes
    <2>3. Serializable(input.probes[packed + 1])
        BY <2>1, <2>2, ValidIsSerializable DEF AllValid
    <2> QED
        BY <1>1, <2>3 DEF PackProbe
<1>2. CASE PackBatches /\ PackLast
    BY <1>2 DEF PackLast
<1>3. CASE PassQuota
    BY <1>3 DEF PassQuota, Begin
<1>4. CASE UNCHANGED packVars
    BY <1>4 DEF packVars
<1> QED
    BY <1>1, <1>2, <1>3, <1>4
    DEF Next, Handler, Receive, GetUserId, UserIdFails, CheckSource, Admit, FailQuota, PackBatches,
        Pack, OtherGetsId, ListPrefixes, Configure, vars

LEMMA Initially == Init => SubmitInv
<1> SUFFICES ASSUME Init
             PROVE  SubmitInv
    OBVIOUS
<1>1. PackInv
    BY PackInitially DEF Init
<1> QED
    BY <1>1
    DEF Init, PackInit, Ids!Init, SubmitInv, TypeOK, PackInv, IdsDiffer, RequestShape, AdmittedShape,
        OfferShape, AcceptedIsPacked

LEMMA Kept == SubmitInv /\ [Next]_vars => SubmitInv'
<1> SUFFICES ASSUME SubmitInv, [Next]_vars
             PROVE  SubmitInv'
    OBVIOUS
<1>1. PackInv'
    BY PackSteps, PackKept DEF SubmitInv
<1>2. TypeOK'
    BY <1>1, StoreTyping, HandlerTyping, ReaderTyping DEF TypeOK, PackInv
<1> QED
    BY <1>1, <1>2, IdsKept, RequestKept, AdmittedKept, OfferKept, PackingKept DEF SubmitInv

\* Types, batches, and what is known of the request, its sources and the last offer.
THEOREM SubmitInvariance == Spec => []SubmitInv
BY Initially, Kept, PTL DEF Spec

\* Every variable keeps to its type.
THEOREM TypeCorrect == Spec => []TypeOK
BY SubmitInvariance, PTL DEF SubmitInv

----------------------------------------------------------------------------
(* What the checks of the handler are worth.                               *)

\* No request that was accepted fails in packing, and its batches are its probes.
THEOREM AcceptedPacks == Spec => [](AcceptedIsPacked /\ PackInv)
BY SubmitInvariance, PTL DEF SubmitInv

\* Nobody sends from an address of another user, or from outside the agent's prefix.
THEOREM SourcesApart == Spec => []SourcesAreOwn
<1>1. SubmitInv => SourcesAreOwn
    <2> SUFFICES ASSUME SubmitInv, NEW i \in 1..Len(admitted), admitted[i] # None
                 PROVE  /\ Contains(admitted[i], request.metadata[i].ip_address)
                        /\ \A u \in User \ {Me} :
                              idOf[u] # None
                              => ~Contains(UserPrefix(admitted[i], idOf[u]),
                                           request.metadata[i].ip_address)
        BY DEF SourcesAreOwn
    <2> DEFINE p  == admitted[i]
               ip == request.metadata[i].ip_address
    <2>1. /\ Me \in User /\ idOf[Me] # None
          /\ HasRoom(p) /\ Contains(UserPrefix(p, idOf[Me]), ip)
        BY DEF SubmitInv, AdmittedShape, ValidateUserIpv6
    <2>2. p \in Prefix /\ idOf[Me] \in Id
        BY <2>1 DEF SubmitInv, TypeOK
    <2>3. Contains(p, ip)
        BY <2>1, <2>2, UserWithinAgent
    <2>4. ASSUME NEW u \in User \ {Me}, idOf[u] # None, Contains(UserPrefix(p, idOf[u]), ip)
          PROVE  FALSE
        <3>1. idOf[u] \in Id
            BY <2>4 DEF SubmitInv, TypeOK
        <3>2. idOf[u] = idOf[Me]
            BY <2>1, <2>2, <2>4, <3>1, UsersApart
        <3> QED
            BY <2>1, <2>4, <3>2 DEF SubmitInv, IdsDiffer
    <2> QED
        BY <2>3, <2>4
<1> QED
    BY <1>1, SubmitInvariance, PTL

\* What get_user_prefixes offers, submit_probes takes.
THEOREM OffersHold == Spec => OfferedIsAccepted
<1>1. SubmitInv /\ [Next]_vars
      => [step = "sources" /\ step' = "refused"
          => \/ offer = None
             \/ offer.user # Me
             \/ Source.agent \notin current
             \/ \A p \in offer.prefixes[Source.agent] : ~Contains(p, Source.ip_address)]_vars
    <2> SUFFICES ASSUME SubmitInv, Next, step = "sources", step' = "refused",
                        offer # None, offer.user = Me, Source.agent \in current,
                        NEW p \in offer.prefixes[Source.agent], Contains(p, Source.ip_address)
                 PROVE  FALSE
        OBVIOUS
    <2>1. CheckSource
        BY DEF Next, Handler, Receive, GetUserId, UserIdFails, PassQuota, FailQuota, PackBatches,
               OtherGetsId, ListPrefixes, Configure, handlerVars
    <2>2. /\ config[Source.agent] # None /\ Admitting = {}
        <3>1. ASSUME NEW q \in Prefix \union {None}, Admit(q)
              PROVE  FALSE
            BY <3>1, AdmitEffect DEF AfterSources
        <3> QED
            BY <2>1, <3>1, CheckEffect
    <2>3. offer.prefixes[Source.agent] = UserPrefixes(idOf[Me], Source.agent)
        BY DEF SubmitInv, OfferShape
    <2>4. PICK q \in config[Source.agent].prefixes : HasRoom(q) /\ p = UserPrefix(q, idOf[Me])
        BY <2>2, <2>3 DEF UserPrefixes
    <2>5. q \in Admitting
        BY <2>4 DEF Admitting, ValidateUserIpv6
    <2> QED
        BY <2>2, <2>5
<1> QED
    BY <1>1, SubmitInvariance, PTL DEF Spec, OfferedIsAccepted
=============================================================================
