------------------------------ MODULE JwksCache ------------------------------
(***************************************************************************)
(* The cache of the issuer's signing keys that all requests of clients     *)
(* share.  JWKS_CACHE holds the keys and LAST_JWKS_REFRESH the time of     *)
(* their last refresh; each is behind a read-write lock of its own.  A     *)
(* request asks the second whether the first is fresh, and either reads it *)
(* or fetches the keys again and writes both, one lock after the other;    *)
(* other requests run at every await, and a request whose connection       *)
(* closes is dropped there.                                                *)
(*                                                                         *)
(* Keys are known by their kid.  Of a token the model keeps its kid; that  *)
(* it fails validation for another reason is a choice.                     *)
(***************************************************************************)
EXTENDS Integers

CONSTANTS
    Key,           \* kids
    Call,          \* requests in progress at a time
    None,          \* no keys, no time, no request, no kid
    MaxAge,        \* JWKS_CACHE_DURATION
    Latency,       \* how long a request may take: the client's 10 s for a
                   \* fetch, and what the runtime adds
    MaxTime,       \* bound: time
    MaxRotations,  \* bound: changes of the issuer's keys
    Restarts       \* may the gateway restart?

ASSUME JwksCacheAssumption ==
    /\ MaxAge \in Nat
    /\ Latency \in Nat
    /\ MaxTime \in Nat
    /\ MaxRotations \in Nat
    /\ Restarts \in BOOLEAN

VARIABLES
    clock,         \* the gateway's time (an Instant)
    cache,         \* JWKS_CACHE
    refreshed,     \* LAST_JWKS_REFRESH
    call,          \* the requests between their arrival and their answer
    published,     \* the issuer: the usable keys it serves
    rotations,     \* how often it has changed them
    removed,       \* history: when the issuer last withdrew a key,
    added          \* and when it last added it

issuerVars == <<published, rotations, removed, added>>
vars == <<clock, cache, refreshed, call, issuerVars>>

\* A JwtValidator has nothing but its keys.
Validator == [jwks : SUBSET Key]

Verdict == {"accepted", "unknown", "refused"}

Request ==
    [stage : {"check", "fetch", "refetch", "store", "stamp", "read"} \union Verdict,
     since : 0..MaxTime, got : Validator \union {None}, kid : Key \union {None}]

ASSUME NoneIsNoData == None \notin Key \union Nat \union Validator \union Request

Init ==
    /\ clock = 0
    /\ cache = None
    /\ refreshed = None
    /\ call = [k \in Call |-> None]
    /\ published \in SUBSET Key
    /\ rotations = 0
    /\ removed = [i \in Key |-> None]
    /\ added = [i \in Key |-> None]

Idle(k) == call[k] = None

At(k, stage) == ~Idle(k) /\ call[k].stage = stage

GoTo(k, stage) == call' = [call EXCEPT ![k].stage = stage]

----------------------------------------------------------------------------
(* jwt_middleware and get_or_create.                                       *)

\* A request arrives.  The keys are asked for before its authorization header is
\* looked at, so its kid is chosen only in Answer.
Arrive(k) ==
    /\ Idle(k)
    /\ call' = [call EXCEPT ![k] = [stage |-> "check", since |-> clock, got |-> None, kid |-> None]]
    /\ UNCHANGED <<clock, cache, refreshed, issuerVars>>

\* Mutation of Fresh: a cache that was ever filled is used.
FreshForever == refreshed # None

Fresh == refreshed # None /\ clock - refreshed <= MaxAge

\* The lock of the timestamp is released before that of the cache is taken.
CheckTime(k) ==
    /\ At(k, "check")
    /\ GoTo(k, IF Fresh THEN "read" ELSE "fetch")
    /\ UNCHANGED <<clock, cache, refreshed, issuerVars>>

\* extract_bearer_token and validate_jwt: the token's kid selects the key; what else
\* the request may fail (no token, no kid, a bad signature...) is a choice.
Answer(k, keys) ==
    \/ \E kid \in Key :
          call' = [call EXCEPT ![k].stage = IF kid \in keys THEN "accepted" ELSE "unknown",
                               ![k].got = None, ![k].kid = kid]
    \/ call' = [call EXCEPT ![k].stage = "refused", ![k].got = None]

\* fetch_jwks: the issuer serves its keys.  Without a usable one there is no
\* validator.  What is fetched for want of a cache is not stored.
Serve(k) ==
    /\ At(k, "fetch") \/ At(k, "refetch")
    /\ published # {}
    /\ IF At(k, "refetch")
       THEN Answer(k, published)
       ELSE call' = [call EXCEPT ![k].stage = "store", ![k].got = [jwks |-> published]]
    /\ UNCHANGED <<clock, cache, refreshed, issuerVars>>

\* No jwks_uri, no answer within the timeout, an error status, no usable key.
FetchFails(k) ==
    /\ At(k, "fetch") \/ At(k, "refetch")
    /\ GoTo(k, "refused")
    /\ UNCHANGED <<clock, cache, refreshed, issuerVars>>

\* who holds the write lock of the cache
Writer(k) == At(k, "stamp")

CacheFree == \A k \in Call : ~Writer(k)

\* a request that fetches for want of a cache keeps its read lock meanwhile
NoReader == \A k \in Call : ~At(k, "refetch")

\* Mutations of StoreKeys: the time is written first; a cache that another request
\* has filled meanwhile is left as it is.
StoreKeysAfterTime(k) ==
    /\ At(k, "store")
    /\ CacheFree /\ NoReader
    /\ refreshed' = clock
    /\ GoTo(k, "stamp")
    /\ UNCHANGED <<clock, cache, issuerVars>>

StoreKeysOnce(k) ==
    /\ At(k, "store")
    /\ CacheFree /\ NoReader
    /\ cache' = IF cache = None THEN call[k].got ELSE cache
    /\ GoTo(k, "stamp")
    /\ UNCHANGED <<clock, refreshed, issuerVars>>

\* The write lock of the cache is kept until the time is written too.
StoreKeys(k) ==
    /\ At(k, "store")
    /\ CacheFree /\ NoReader
    /\ cache' = call[k].got
    /\ GoTo(k, "stamp")
    /\ UNCHANGED <<clock, refreshed, issuerVars>>

\* Mutation of StoreTime: readers of the cache still hold the timestamp's lock.
StoreTimeNested(k) ==
    /\ At(k, "stamp")
    /\ \A j \in Call : ~At(j, "read")
    /\ refreshed' = clock
    /\ Answer(k, call[k].got.jwks)
    /\ UNCHANGED <<clock, cache, issuerVars>>

\* The caller goes on with the keys it fetched, whatever the cache holds later.
StoreTime(k) ==
    /\ At(k, "stamp")
    /\ refreshed' = clock
    /\ Answer(k, call[k].got.jwks)
    /\ UNCHANGED <<clock, cache, issuerVars>>

\* "Should never happen" (jwt.rs:181): a fresh time without keys.
ReadCache(k) ==
    /\ At(k, "read")
    /\ CacheFree
    /\ IF cache = None THEN GoTo(k, "refetch") ELSE Answer(k, cache.jwks)
    /\ UNCHANGED <<clock, cache, refreshed, issuerVars>>

\* The response is on its way.
Finish(k) ==
    /\ \E v \in Verdict : At(k, v)
    /\ call' = [call EXCEPT ![k] = None]
    /\ UNCHANGED <<clock, cache, refreshed, issuerVars>>

\* The handler's future is dropped, and with it the lock it may hold.
Abort(k) ==
    /\ ~Idle(k)
    /\ call' = [call EXCEPT ![k] = None]
    /\ UNCHANGED <<clock, cache, refreshed, issuerVars>>

----------------------------------------------------------------------------
(* The issuer, time and restarts.                                          *)

\* The issuer rotates its keys: withdraws some, adds others.
Rotate ==
    /\ rotations < MaxRotations
    /\ rotations' = rotations + 1
    /\ \E keys \in SUBSET Key :
          /\ published' = keys
          /\ removed' = [i \in Key |-> IF i \in published \ keys THEN clock ELSE removed[i]]
          /\ added' = [i \in Key |-> IF i \in keys \ published THEN clock ELSE added[i]]
    /\ UNCHANGED <<clock, cache, refreshed, call>>

Tick ==
    /\ clock < MaxTime
    /\ \A k \in Call : ~Idle(k) => clock - call[k].since < Latency
    /\ clock' = clock + 1
    /\ UNCHANGED <<cache, refreshed, call, issuerVars>>

\* Both statics are empty again.
Restart ==
    /\ Restarts
    /\ cache' = None
    /\ refreshed' = None
    /\ call' = [k \in Call |-> None]
    /\ UNCHANGED <<clock, issuerVars>>

Fetch(k) == Serve(k) \/ FetchFails(k)

CallStep(k) ==
    \/ Arrive(k) \/ CheckTime(k) \/ Fetch(k) \/ StoreKeys(k) \/ StoreTime(k)
    \/ ReadCache(k) \/ Finish(k) \/ Abort(k)

Next == (\E k \in Call : CallStep(k)) \/ Rotate \/ Tick \/ Restart

Spec == Init /\ [][Next]_vars

\* Handlers run when they are ready and a fetch is answered or times out; Tokio's
\* locks are first come, first served.
Fairness ==
    \A k \in Call :
        /\ WF_vars(CheckTime(k) \/ Fetch(k) \/ StoreTime(k) \/ Finish(k))
        /\ SF_vars(StoreKeys(k))
        /\ SF_vars(ReadCache(k))

FairSpec == Spec /\ Fairness

----------------------------------------------------------------------------
(* Properties.                                                             *)

\* Every variable keeps to its type.
TypeOK ==
    /\ clock \in 0..MaxTime
    /\ cache \in Validator \union {None}
    /\ refreshed \in 0..MaxTime \union {None}
    /\ call \in [Call -> Request \union {None}]
    /\ published \subseteq Key
    /\ rotations \in 0..MaxRotations
    /\ removed \in [Key -> 0..MaxTime \union {None}]
    /\ added \in [Key -> 0..MaxTime \union {None}]

\* What jwt.rs:181 says should never happen does not: a request that found the
\* time of the refresh fresh finds keys, although the two are written under two
\* locks by requests that may be dropped in between.
CacheIsThere == (refreshed # None \/ \E k \in Call : At(k, "read")) => cache # None

PublishedSince(i, t) == i \in published \/ (removed[i] # None /\ removed[i] >= t)

MissingSince(i, t) == i \notin published \/ (added[i] # None /\ added[i] >= t)

\* k's answer follows the issuer's keys of some time from t on.
AnswerFollows(k, t) ==
    /\ At(k, "accepted") => PublishedSince(call[k].kid, t)
    /\ At(k, "unknown") => MissingSince(call[k].kid, t)

\* However refreshes overlap, are dropped or finish in another order than they
\* were served, an answer follows keys no older, when the request arrived, than
\* the cache's duration and one refresh: an accepted token names a key that the
\* issuer has published since then, one refused as "Unknown key ID" a key that it
\* has not published all the time since then.
AnswersFollowIssuer ==
    \A k \in Call : ~Idle(k) => AnswerFollows(k, call[k].since - MaxAge - Latency)

\* No two locks are ever waited for in a circle: every request is answered.
CallReturns == \A k \in Call : ~Idle(k) ~> Idle(k)

----------------------------------------------------------------------------
(* The inductive invariant behind them.                                    *)

\* keys is what the issuer published at some time from t on
Genuine(keys, t) ==
    /\ \A i \in keys : PublishedSince(i, t)
    /\ \A i \in Key \ keys : MissingSince(i, t)

CallShape(k) ==
    /\ call[k].since <= clock
    /\ clock <= call[k].since + Latency
    /\ call[k].got # None => Genuine(call[k].got.jwks, call[k].since)
    /\ ~At(k, "refetch")
    /\ At(k, "store") => call[k].got # None
    /\ At(k, "stamp") => call[k].got # None /\ cache = call[k].got
    /\ At(k, "read") => refreshed # None /\ call[k].since - refreshed <= MaxAge
    /\ At(k, "accepted") \/ At(k, "unknown") => call[k].kid # None

\* The keys are at most one request older than the time says, whoever wrote them.
CacheShape ==
    refreshed # None => /\ cache # None
                        /\ refreshed <= clock
                        /\ Genuine(cache.jwks, refreshed - Latency)

\* Every validator is genuine, and no older than its stage or timestamp says; one
\* request at most is between the two writes.
IInv ==
    /\ TypeOK
    /\ CacheShape
    /\ \A k \in Call : ~Idle(k) => CallShape(k)
    /\ \A j, k \in Call : Writer(j) /\ Writer(k) => j = k
    /\ AnswersFollowIssuer
=============================================================================
