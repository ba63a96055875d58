---------------------------- MODULE SubmitProbes ----------------------------
(***************************************************************************)
(* submit_probes from the arrival of a request to its batches: the checks  *)
(* of its probes and of its source addresses, then packing.  What follows, *)
(* the tracking rows and the messages, is Measurements, which leaves these *)
(* checks abstract.                                                        *)
(*                                                                         *)
(* Beside the handler run what its answer depends on: users get ids        *)
(* (UserIdAllocation, which UserIds implements), agents configure their    *)
(* prefixes, and get_user_prefixes tells a user which addresses to use.     *)
(***************************************************************************)
EXTENDS ProbeBatches, UserPrefix

CONSTANTS
    User,          \* user hashes
    Agent,         \* agent ids
    PrefixSets,    \* the sets of prefixes an agent may configure
    Request,       \* the requests that may arrive
    V4             \* an IPv4 source address

\* one of request.metadata: an agent and the address to send from, if any is given
AgentMetadata == [agent : Agent, ip_address : Address \union {V4, None}]

\* an agent's Vec<AgentConfig>, by the prefixes it holds that parse
Config == [prefixes : PrefixSets]

ASSUME SubmitProbesAssumption ==
    /\ PrefixSets \subseteq SUBSET Prefix
    /\ \A r \in Request : r.user \in User /\ r.body \in Input /\ r.metadata \in Seq(AgentMetadata)

ASSUME NoneIsNoConfig == None \notin Config \union Request \union Id \union Prefix \union Address \union {V4}

ASSUME V4IsNoAddress == V4 \notin Address

VARIABLES
    idOf,          \* user_id_mappings
    config,        \* the agents' config; None if the agent or its config is missing
    step,          \* where the handler is before it packs
    request,       \* its request
    next,          \* its position in request.metadata
    admitted,      \* history: the agent prefix each address was found in, if any
    offer,         \* the last answer of get_user_prefixes: to whom, which prefixes
    current        \* history: agents whose config has not changed since

storeVars == <<idOf, config>>
handlerVars == <<step, request, next, admitted>>
readerVars == <<offer, current>>
vars == <<packVars, storeVars, handlerVars, readerVars>>

Ids == INSTANCE UserIdAllocation
           WITH Call <- {}, answer <- <<>>, Error <- None

Init ==
    /\ PackInit
    /\ Ids!Init
    /\ config = [a \in Agent |-> None]
    /\ step = "idle"
    /\ request = None
    /\ next = 1
    /\ admitted = <<>>
    /\ offer = None
    /\ current = {}

----------------------------------------------------------------------------
(* The handler.                                                            *)

Refuse == step' = "refused"

\* Up to the first await: some probes, all of them valid, an address for each agent.
Receive(r) ==
    /\ step = "idle"
    /\ request' = r
    /\ step' = IF /\ r.body.probes # <<>>
                  /\ AllValid(r.body)
                  /\ \A i \in DOMAIN r.metadata : r.metadata[i].ip_address # None
               THEN "user" ELSE "refused"
    /\ UNCHANGED <<packVars, storeVars, next, admitted, readerVars>>

Me == request.user

AfterSources(n) == IF n > Len(request.metadata) THEN "quota" ELSE "sources"

\* get_or_create_user_id, or its error (500).
GetUserId ==
    /\ step = "user"
    /\ \/ /\ idOf[Me] = None
          /\ Ids!Allocate(Me)
       \/ idOf[Me] # None /\ UNCHANGED idOf
    /\ step' = AfterSources(1)
    /\ UNCHANGED <<packVars, config, request, next, admitted, readerVars>>

UserIdFails ==
    /\ step = "user"
    /\ Refuse
    /\ UNCHANGED <<packVars, storeVars, request, next, admitted, readerVars>>

Source == request.metadata[next]

\* the configured prefixes that give Me the source address
Admitting ==
    {p \in config[Source.agent].prefixes : ValidateUserIpv6(Source.ip_address, p, idOf[Me])}

Admit(p) ==
    /\ admitted' = Append(admitted, p)
    /\ next' = next + 1
    /\ step' = AfterSources(next + 1)
    /\ UNCHANGED <<packVars, storeVars, request, readerVars>>

\* One turn of the loop over the metadata: an IPv6 address must be the user's in one
\* of the agent's prefixes, if the agent is there and configured by now.
CheckSource ==
    /\ step = "sources"
    /\ IF Source.ip_address = V4 \/ config[Source.agent] = None
       THEN Admit(None)
       ELSE \/ \E p \in Admitting : Admit(p)
            \/ /\ Admitting = {}
               /\ Refuse
               /\ UNCHANGED <<packVars, storeVars, request, next, admitted, readerVars>>

\* The quota and the health of the agents, which Measurements models.
PassQuota ==
    /\ step = "quota"
    /\ step' = "accepted"
    /\ Begin(request.body)
    /\ UNCHANGED <<storeVars, request, next, admitted, readerVars>>

FailQuota ==
    /\ step = "quota"
    /\ Refuse
    /\ UNCHANGED <<packVars, storeVars, request, next, admitted, readerVars>>

\* deserialize_probes_batch runs without an await.
PackBatches == Pack /\ UNCHANGED <<storeVars, handlerVars, readerVars>>

----------------------------------------------------------------------------
(* Beside it.                                                              *)

\* Another handler allocates an id.
OtherGetsId(u) ==
    /\ Ids!Allocate(u)
    /\ UNCHANGED <<packVars, config, handlerVars, readerVars>>

\* An agent posts its configuration, or is cleaned up and registers again.
Configure(a) ==
    /\ \E c \in Config \union {None} : c # config[a] /\ config' = [config EXCEPT ![a] = c]
    /\ current' = current \ {a}
    /\ UNCHANGED <<packVars, idOf, handlerVars, offer>>

\* get_user_prefixes, for a user with an id: the answer is one look at the store.
UserPrefixes(id, a) ==
    IF config[a] = None THEN {}
    ELSE {UserPrefix(p, id) : p \in {q \in config[a].prefixes : HasRoom(q)}}

ListPrefixes(u) ==
    /\ idOf[u] # None
    /\ offer' = [user |-> u, prefixes |-> [a \in Agent |-> UserPrefixes(idOf[u], a)]]
    /\ current' = Agent
    /\ UNCHANGED <<packVars, storeVars, handlerVars>>

Handler ==
    \/ \E r \in Request : Receive(r)
    \/ GetUserId \/ UserIdFails \/ CheckSource \/ PassQuota \/ FailQuota
    \/ PackBatches

Next ==
    \/ Handler
    \/ \E u \in User : OtherGetsId(u) \/ ListPrefixes(u)
    \/ \E a \in Agent : Configure(a)

Spec == Init /\ [][Next]_vars

----------------------------------------------------------------------------
(* Properties.                                                             *)

\* Every variable keeps to its type.
TypeOK ==
    /\ PackTypeOK
    /\ idOf \in [User -> Id \union {None}]
    /\ config \in [Agent -> Config \union {None}]
    /\ step \in {"idle", "user", "sources", "quota", "accepted", "refused"}
    /\ request \in Request \union {None}
    /\ next \in Nat \ {0}
    /\ admitted \in Seq(Prefix \union {None})
    /\ offer \in [user : User, prefixes : [Agent -> SUBSET Prefix]] \union {None}
    /\ current \subseteq Agent

\* What validate_probes accepts deserialize_probes_batch packs: a request that was
\* charged against the quota is not refused as "Failed to process probe data".
AcceptedIsPacked == stage # "failed"

\* A source address that was checked lies within the agent's prefix and in the
\* prefix of no other user there, whoever gets an id later.
SourcesAreOwn ==
    \A i \in 1..Len(admitted) :
        LET p  == admitted[i]
            ip == request.metadata[i].ip_address
        IN  p # None =>
              /\ Contains(p, ip)
              /\ \A u \in User \ {Me} :
                    idOf[u] # None => ~Contains(UserPrefix(p, idOf[u]), ip)

\* An address that get_user_prefixes has offered to a user is not refused as "not
\* within your allocated prefix" while the agent's configuration stays the same.
OfferedIsAccepted ==
    [][step = "sources" /\ step' = "refused"
       => \/ offer = None
          \/ offer.user # Me
          \/ Source.agent \notin current
          \/ \A p \in offer.prefixes[Source.agent] : ~Contains(p, Source.ip_address)]_vars

----------------------------------------------------------------------------
(* The inductive invariant behind them.                                    *)

IdsDiffer == \A u, v \in User : idOf[u] # None /\ idOf[u] = idOf[v] => u = v

\* What is known of the request at each step; a request that is packed is one that
\* was validated.
RequestShape ==
    /\ step \in {"user", "sources", "quota", "accepted"} => request # None /\ AllValid(request.body)
    /\ step \in {"idle", "user"} => admitted = <<>> /\ next = 1
    /\ step = "sources" =>
          /\ idOf[Me] # None
          /\ next = Len(admitted) + 1
          /\ next <= Len(request.metadata)
    /\ stage # "idle" => step = "accepted" /\ AllValid(input)

\* Every address that was checked passed.
AdmittedShape ==
    \A i \in 1..Len(admitted) :
        admitted[i] # None =>
            /\ Me \in User
            /\ idOf[Me] # None
            /\ ValidateUserIpv6(request.metadata[i].ip_address, admitted[i], idOf[Me])

\* The last offer is what the store would answer now for an agent unchanged since.
OfferShape ==
    offer # None =>
        /\ idOf[offer.user] # None
        /\ \A a \in current : offer.prefixes[a] = UserPrefixes(idOf[offer.user], a)

\* All of it holds in every state, and is kept by every step.
SubmitInv ==
    /\ TypeOK /\ PackInv
    /\ IdsDiffer /\ RequestShape /\ AdmittedShape /\ OfferShape
    /\ AcceptedIsPacked
=============================================================================
