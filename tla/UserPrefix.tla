----------------------------- MODULE UserPrefix -----------------------------
(***************************************************************************)
(* The arithmetic that gives each user a prefix of its own within an       *)
(* agent's IPv6 prefix.  Words are sequences of bits, the most significant *)
(* first; the program's are 128 bits wide with 32 bits for the user id.     *)
(***************************************************************************)
EXTENDS Integers

CONSTANTS
    Width,     \* bits of an address: 128
    IdBits     \* bits of a user id: 32

ASSUME UserPrefixAssumption ==
    /\ Width \in Nat
    /\ IdBits \in Nat \ {0}
    /\ IdBits <= Width

Address == [1..Width -> BOOLEAN]

Id == [1..IdBits -> BOOLEAN]

\* An Ipv6Net.  Bits after its length may be set: 2001:db8::1/32 parses.
Prefix == [addr : Address, len : 0..Width]

\* Ipv6Net::network
Network(p) == [b \in 1..Width |-> b <= p.len /\ p.addr[b]]

\* Ipv6Net::contains
Contains(p, ip) == \A b \in 1..p.len : ip[b] = p.addr[b]

\* user_id as u128
Widened(id) == [b \in 1..Width |-> b > Width - IdBits /\ id[b - (Width - IdBits)]]

\* w << n
ShiftLeft(w, n) == [b \in 1..Width |-> b + n \in 1..Width /\ w[b + n]]

BitOr(v, w) == [b \in 1..Width |-> v[b] \/ w[b]]

\* "Validate there's enough space": the user id has room after the agent's prefix.
HasRoom(p) == p.len <= Width - IdBits

\* Mutation of UserAddress: shifted to the other end of the address.
UserAddressAtEnd(p, id) == BitOr(Network(p), Widened(id))

\* calculate_user_prefix_addr, for a prefix with room
UserAddress(p, id) == BitOr(Network(p), ShiftLeft(Widened(id), Width - p.len - IdBits))

\* calculate_user_prefix, for a prefix with room
UserPrefix(p, id) == [addr |-> UserAddress(p, id), len |-> p.len + IdBits]

\* Mutation of ValidateUserIpv6: a prefix that has just enough room is refused.
ValidateUserIpv6Roomier(ip, p, id) ==
    p.len < Width - IdBits /\ Contains(UserPrefix(p, id), ip)

\* validate_user_ipv6
ValidateUserIpv6(ip, p, id) == HasRoom(p) /\ Contains(UserPrefix(p, id), ip)
=============================================================================
