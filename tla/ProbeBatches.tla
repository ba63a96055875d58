---------------------------- MODULE ProbeBatches ----------------------------
(***************************************************************************)
(* How the probes of a request are validated and packed into batches:      *)
(* validate_probes, and deserialize_probes_batch one probe at a time.      *)
(*                                                                         *)
(* A batch is the interval of the probes whose serialized bytes it joins.  *)
(* Sizes are given as offsets: upto[i] is what the first i probes of the    *)
(* request take, so that any run of them takes a difference of two.        *)
(***************************************************************************)
EXTENDS Integers, Sequences

CONSTANTS
    None,          \* a value that is no number, or no array of five
    Input,         \* the probes a request may carry
    MaxBatchSize   \* max_batch_size: bytes in a batch

VARIABLES
    input,         \* json_probes
    stage,         \* where deserialize_probes_batch is
    packed,        \* how many probes its loop has packed
    first,         \* the first probe of current_batch
    filled,        \* current_batch_size
    batches        \* the batches pushed, each [from, to]

packVars == <<input, stage, packed, first, filled, batches>>

\* A JSON probe, by what its two readers tell apart.  A number that as_u64 refuses
\* is None; an address or a protocol that is no string is bad.
Probe ==
    [dst : {"v6", "v4", "bad"}, src_port : Nat \union {None}, dst_port : Nat \union {None},
     ttl : Nat \union {None}, protocol : {"udp", "icmpv6", "tcp", "icmp", "bad"}]

Probes ==
    [probes : Seq(Probe \union {None}), upto : Seq(Nat \ {0})]

ASSUME ProbeBatchesAssumption ==
    /\ MaxBatchSize \in Nat
    /\ \A in \in Input :
          /\ in \in Probes
          /\ Len(in.upto) = Len(in.probes)
          /\ \A i, j \in 1..Len(in.upto) : i < j => in.upto[i] < in.upto[j]

ASSUME NoneIsNoProbe == None \notin Probe \union Nat \union Probes

----------------------------------------------------------------------------
(* One probe.                                                              *)

Port(n) == n # None /\ n # 0 /\ n <= 65535

Ttl(n) == n # None /\ n # 0 /\ n <= 255

\* Mutation of Valid: any port will do for ICMPv6.
ValidAnyPort(p) ==
    /\ p # None
    /\ p.dst = "v6"
    /\ p.protocol = "udp" => Port(p.src_port) /\ Port(p.dst_port)
    /\ Ttl(p.ttl)
    /\ p.protocol \in {"udp", "icmpv6"}

\* validate_json_probe: IPv6 only, no ICMPv4, no TCP
Valid(p) ==
    /\ p # None
    /\ p.dst = "v6"
    /\ Port(p.src_port) /\ Port(p.dst_port)
    /\ Ttl(p.ttl)
    /\ p.protocol \in {"udp", "icmpv6"}

\* deserialize_json_to_capnp returns a message
Serializable(p) ==
    /\ p # None
    /\ p.dst # "bad"
    /\ Port(p.src_port) /\ Port(p.dst_port)
    /\ Ttl(p.ttl)
    /\ p.protocol # "bad"

\* validate_probes
AllValid(in) == \A i \in DOMAIN in.probes : Valid(in.probes[i])

----------------------------------------------------------------------------
(* deserialize_probes_batch.                                               *)

Count == Len(input.probes)

Upto(i) == IF i = 0 THEN 0 ELSE input.upto[i]

Bytes(from, to) == Upto(to) - Upto(from - 1)

Idle == stage = "idle"

PackInit ==
    /\ input = None
    /\ stage = "idle"
    /\ packed = 0
    /\ first = 1
    /\ filled = 0
    /\ batches = <<>>

Begin(in) ==
    /\ Idle
    /\ input' = in
    /\ stage' = "pack"
    /\ UNCHANGED <<packed, first, filled, batches>>

CurrentIsEmpty == first > packed

\* Mutation of Full: what is in the batch is compared, without the probe to come.
FullAlready(size) == ~CurrentIsEmpty /\ filled > MaxBatchSize

\* the batch must be pushed before a probe of this size
Full(size) == ~CurrentIsEmpty /\ filled + size > MaxBatchSize

Push == batches' = Append(batches, [from |-> first, to |-> packed])

\* Mutation of Take: current_batch_size is not reset with the batch.
TakeNoReset(size) ==
    /\ packed' = packed + 1
    /\ filled' = filled + size
    /\ IF Full(size) THEN Push /\ first' = packed + 1 ELSE UNCHANGED <<batches, first>>

\* The next probe joins the batch, or begins another.
Take(size) ==
    /\ packed' = packed + 1
    /\ IF Full(size)
       THEN Push /\ first' = packed + 1 /\ filled' = size
       ELSE filled' = filled + size /\ UNCHANGED <<batches, first>>

\* One turn of the loop: a probe is serialized, or the function returns the error.
PackProbe ==
    /\ stage = "pack"
    /\ packed < Count
    /\ IF Serializable(input.probes[packed + 1])
       THEN Take(Bytes(packed + 1, packed + 1)) /\ UNCHANGED stage
       ELSE stage' = "failed" /\ UNCHANGED <<packed, first, filled, batches>>
    /\ UNCHANGED input

\* Mutation of PackLast: what is left in current_batch is pushed only if a batch
\* was pushed before it.
PackLastFewer ==
    /\ stage = "pack"
    /\ packed = Count
    /\ IF batches = <<>> \/ CurrentIsEmpty THEN UNCHANGED batches ELSE Push
    /\ stage' = "packed"
    /\ UNCHANGED <<input, packed, first, filled>>

PackLast ==
    /\ stage = "pack"
    /\ packed = Count
    /\ IF CurrentIsEmpty THEN UNCHANGED batches ELSE Push
    /\ stage' = "packed"
    /\ UNCHANGED <<input, packed, first, filled>>

Pack == PackProbe \/ PackLast

PackNext == (\E in \in Input : Begin(in)) \/ Pack

PackSpec == PackInit /\ [][PackNext]_packVars

----------------------------------------------------------------------------
(* Properties.                                                             *)

\* Every variable keeps to its type.
PackTypeOK ==
    /\ input \in Input \union {None}
    /\ stage \in {"idle", "pack", "packed", "failed"}
    /\ packed \in Nat
    /\ first \in Nat \ {0}
    /\ filled \in Nat
    /\ batches \in Seq([from : Nat \ {0}, to : Nat \ {0}])

\* The batches hold every probe of the request once and in order, none is empty,
\* and the first counts as the last if there is no other: submit_probes finds the
\* batch to mark end_of_measurement (lib.rs:556) among at most as many as probes.
BatchesPartition ==
    stage = "packed" =>
        /\ \A i \in 1..Len(batches) : batches[i].from <= batches[i].to
        /\ \A i \in 1..Len(batches) - 1 : batches[i + 1].from = batches[i].to + 1
        /\ Count > 0 => /\ Len(batches) \in 1..Count
                        /\ batches[1].from = 1
                        /\ batches[Len(batches)].to = Count

\* "max 1MB per batch" (lib.rs:512): a batch is within the limit unless a single
\* probe is larger than it.
BatchesFit ==
    \A i \in 1..Len(batches) :
        \/ Bytes(batches[i].from, batches[i].to) <= MaxBatchSize
        \/ batches[i].from = batches[i].to

\* No batch is pushed while the probe that follows it still fits.
BatchesAreFull ==
    \A i \in 1..Len(batches) - 1 :
        Bytes(batches[i].from, batches[i + 1].from) > MaxBatchSize

----------------------------------------------------------------------------
(* The inductive invariant behind them.                                    *)

\* current_batch is what is packed and not yet pushed, as large as
\* current_batch_size says.
CurrentShape ==
    /\ packed <= Count
    /\ first <= packed + 1
    /\ filled = Bytes(first, packed)
    /\ filled <= MaxBatchSize \/ first = packed
    /\ packed > 0 => first <= packed

\* The pushed batches lie end to end before it.
PushedShape ==
    /\ Len(batches) < first
    /\ \A i \in 1..Len(batches) : batches[i].from <= batches[i].to /\ batches[i].to <= Count
    /\ \A i \in 1..Len(batches) - 1 : batches[i + 1].from = batches[i].to + 1
    /\ batches = <<>> => first = 1
    /\ batches # <<>> =>
          /\ batches[1].from = 1
          /\ batches[Len(batches)].to = first - 1
          /\ Bytes(batches[Len(batches)].from, first) > MaxBatchSize

PackInv ==
    /\ PackTypeOK
    /\ stage = "idle" => input = None /\ packed = 0 /\ first = 1 /\ filled = 0 /\ batches = <<>>
    /\ stage # "idle" => input # None /\ BatchesFit /\ BatchesAreFull
    /\ stage \in {"pack", "failed"} => CurrentShape /\ PushedShape
    /\ BatchesPartition
=============================================================================
