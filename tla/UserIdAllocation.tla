-------------------------- MODULE UserIdAllocation --------------------------
(***************************************************************************)
(* What the allocation of user ids promises: a user gets at most one id,   *)
(* which is nobody else's and never changes, and every call that is        *)
(* answered with an id is answered with that one.                          *)
(***************************************************************************)
CONSTANTS
    User,      \* user hashes
    Id,        \* ids
    Call,      \* calls of the allocator
    None,      \* "no id", "no answer"
    Error      \* an error answer

VARIABLES
    idOf,      \* the id each user has been given
    answer     \* the answer of each call: a user and its id, Error, or None

Init ==
    /\ idOf = [u \in User |-> None]
    /\ answer = [k \in Call |-> None]

Taken == {idOf[u] : u \in User} \ {None}

\* A user without an id may get one nobody has, answered or not.
Allocate(u) ==
    /\ idOf[u] = None
    /\ \E i \in Id \ Taken : idOf' = [idOf EXCEPT ![u] = i]

\* A call is answered with the id of its user, or with an error.
Answer(k) ==
    /\ answer[k] = None
    /\ \/ answer' = [answer EXCEPT ![k] = Error]
       \/ \E u \in User : idOf'[u] # None /\ answer' = [answer EXCEPT ![k] = <<u, idOf'[u]>>]

Next ==
    \/ \E u \in User : Allocate(u) /\ UNCHANGED answer
    \/ \E k \in Call : Answer(k) /\ UNCHANGED idOf
    \/ \E u \in User, k \in Call : Allocate(u) /\ Answer(k)

Spec == Init /\ [][Next]_<<idOf, answer>>
=============================================================================
