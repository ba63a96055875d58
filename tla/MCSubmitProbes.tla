--------------------------- MODULE MCSubmitProbes ---------------------------
(* Instances of SubmitProbes for TLC.                                      *)
EXTENDS SubmitProbes, TLC, FiniteSetsExt

CONSTANTS u1, u2, a1

\* Words are written by their set bits.
Word(bits) == [b \in 1..Width |-> b \in bits]

\* Prefixes with room for an id, with just enough, and without.
Roomy == [addr |-> Word({1, 3}), len |-> 1]
Tight == [addr |-> Word({2}), len |-> 2]
Whole == [addr |-> Word({}), len |-> 3]

SomePrefixSets == {{}, {Roomy}, {Roomy, Tight}, {Whole}}

Good == [dst |-> "v6", src_port |-> 1, dst_port |-> 65535, ttl |-> 255, protocol |-> "udp"]

\* Probes at the edges of what the two readers of a probe accept.
Edges ==
    {None, Good}
    \union {[Good EXCEPT !.dst = d] : d \in {"v4", "bad"}}
    \union {[Good EXCEPT !.src_port = n, !.protocol = p] :
              n \in {None, 0, 65536}, p \in {"udp", "icmpv6"}}
    \union {[Good EXCEPT !.dst_port = n] : n \in {None, 0, 65536}}
    \union {[Good EXCEPT !.ttl = n] : n \in {None, 0, 1, 256}}
    \union {[Good EXCEPT !.protocol = p] : p \in {"icmpv6", "tcp", "icmp", "bad"}}

\* Up to three probes of sizes 1 to 4.
Sizes == UNION {[1..n -> 1..4] : n \in 1..3}

Offsets(sizes) == [i \in DOMAIN sizes |-> MapThenSumSet(LAMBDA j : sizes[j], 1..i)]

ToPack == {[probes |-> [i \in DOMAIN s |-> Good], upto |-> Offsets(s)] : s \in Sizes}

ToValidate == {[probes |-> <<Good, p>>, upto |-> <<1, 2>>] : p \in Edges}

OneProbe == [probes |-> <<Good>>, upto |-> <<1>>]

Inputs == ToPack \union ToValidate \union {[probes |-> <<>>, upto |-> <<>>]}

\* Any address for one agent, a few for two, and IPv4 with any probes.
Lists ==
    {<<[agent |-> a1, ip_address |-> ip]>> : ip \in Address}
    \union {<<[agent |-> a1, ip_address |-> Word({1})], [agent |-> a1, ip_address |-> ip]>> :
              ip \in {Word({1, 3}), None}}
    \union {<<>>}

Requests ==
    {[user |-> u1, body |-> OneProbe, metadata |-> md] : md \in Lists}
    \union {[user |-> u1, body |-> in, metadata |-> <<[agent |-> a1, ip_address |-> V4]>>] :
              in \in Inputs}
=============================================================================
