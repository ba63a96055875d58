--------------------------- MODULE JwksCacheProofs ---------------------------
(***************************************************************************)
(* Proofs about JwksCache, for any keys, any number of requests in         *)
(* progress, any duration of the cache and any latency.                    *)
(*                                                                         *)
(* That the cache is there whenever its time is rests on the order of the  *)
(* two writes under one lock; that its keys are no older than the time     *)
(* says, less one request, on every writer being younger than Latency.     *)
(***************************************************************************)
EXTENDS JwksCache, TLAPS

USE JwksCacheAssumption

----------------------------------------------------------------------------
(* Types.                                                                  *)

\* Of a request, an answer changes what it says, and nothing of its arrival.
LEMMA AnswerEffect ==
    ASSUME TypeOK, NEW k \in Call, ~Idle(k), NEW keys, Answer(k, keys)
    PROVE  \E r \in Request :
               /\ call' = [call EXCEPT ![k] = r]
               /\ r.since = call[k].since
               /\ r.got = None
               /\ r.stage \in Verdict
               /\ r.stage = "accepted" => r.kid \in Key /\ r.kid \in keys
               /\ r.stage = "unknown" => r.kid \in Key /\ r.kid \notin keys
<1>1. call[k] \in Request
    BY DEF TypeOK, Idle
<1>2. CASE \E kid \in Key :
              call' = [call EXCEPT ![k].stage = IF kid \in keys THEN "accepted" ELSE "unknown",
                                   ![k].got = None, ![k].kid = kid]
    <2>1. PICK kid \in Key :
              call' = [call EXCEPT ![k].stage = IF kid \in keys THEN "accepted" ELSE "unknown",
                                   ![k].got = None, ![k].kid = kid]
        BY <1>2
    <2> DEFINE r == [call[k] EXCEPT !.stage = IF kid \in keys THEN "accepted" ELSE "unknown",
                                    !.got = None, !.kid = kid]
    <2>2. r \in Request
        BY <1>1 DEF Request, Verdict
    <2>3. call' = [call EXCEPT ![k] = r]
        BY <2>1, <1>1 DEF TypeOK, Request
    <2> QED
        BY <2>2, <2>3, <1>1 DEF Request, Verdict
<1>3. CASE call' = [call EXCEPT ![k].stage = "refused", ![k].got = None]
    <2> DEFINE r == [call[k] EXCEPT !.stage = "refused", !.got = None]
    <2>1. r \in Request
        BY <1>1 DEF Request, Verdict
    <2>2. call' = [call EXCEPT ![k] = r]
        BY <1>3, <1>1 DEF TypeOK, Request
    <2> QED
        BY <2>1, <2>2, <1>1 DEF Request, Verdict
<1> QED
    BY <1>2, <1>3 DEF Answer

\* What the steps of request k make of it and of the cache.
LEMMA CallEffect ==
    ASSUME TypeOK, NEW k \in Call, CallStep(k)
    PROVE  /\ UNCHANGED <<clock, issuerVars>>
           /\ \E r \in Request \union {None} : call' = [call EXCEPT ![k] = r]
           /\ cache' \in Validator \union {None}
           /\ refreshed' \in 0..MaxTime \union {None}
<1> USE DEF Idle, At, GoTo, Validator
<1>0. ~Idle(k) => call[k] \in Request
    BY DEF TypeOK
<1>1. CASE Arrive(k)
    <2>1. [stage |-> "check", since |-> clock, got |-> None, kid |-> None] \in Request
        BY DEF TypeOK, Request
    <2> QED
        BY <1>1, <2>1 DEF Arrive, TypeOK
<1>2. CASE CheckTime(k)
    <2> DEFINE r == [call[k] EXCEPT !.stage = IF Fresh THEN "read" ELSE "fetch"]
    <2>1. r \in Request
        BY <1>0, <1>2 DEF CheckTime, Request
    <2>2. call' = [call EXCEPT ![k] = r]
        BY <1>2, <1>0 DEF CheckTime, TypeOK, Request
    <2> QED
        BY <1>2, <2>1, <2>2 DEF CheckTime, TypeOK
<1>3. CASE Serve(k)
    <2>1. CASE At(k, "refetch")
        BY <1>3, <2>1, AnswerEffect DEF Serve, TypeOK
    <2>2. CASE ~At(k, "refetch")
        <3> DEFINE r == [call[k] EXCEPT !.stage = "store", !.got = [jwks |-> published]]
        <3>1. r \in Request
            BY <1>0, <1>3 DEF Serve, Request, TypeOK
        <3>2. call' = [call EXCEPT ![k] = r]
            BY <1>3, <1>0, <2>2 DEF Serve, TypeOK, Request
        <3> QED
            BY <1>3, <3>1, <3>2 DEF Serve, TypeOK
    <2> QED
        BY <2>1, <2>2
<1>4. CASE FetchFails(k)
    <2> DEFINE r == [call[k] EXCEPT !.stage = "refused"]
    <2>1. r \in Request
        BY <1>0, <1>4 DEF FetchFails, Request, Verdict
    <2>2. call' = [call EXCEPT ![k] = r]
        BY <1>4, <1>0 DEF FetchFails, TypeOK, Request
    <2> QED
        BY <1>4, <2>1, <2>2 DEF FetchFails, TypeOK
<1>5. CASE StoreKeys(k)
    <2> DEFINE r == [call[k] EXCEPT !.stage = "stamp"]
    <2>1. r \in Request
        BY <1>0, <1>5 DEF StoreKeys, Request
    <2>2. call' = [call EXCEPT ![k] = r]
        BY <1>5, <1>0 DEF StoreKeys, TypeOK, Request
    <2> QED
        BY <1>5, <1>0, <2>1, <2>2 DEF StoreKeys, TypeOK, Request
<1>6. CASE StoreTime(k)
    BY <1>6, AnswerEffect DEF StoreTime, TypeOK
<1>7. CASE ReadCache(k)
    <2>1. CASE cache = None
        <3> DEFINE r == [call[k] EXCEPT !.stage = "refetch"]
        <3>1. r \in Request
            BY <1>0, <1>7 DEF ReadCache, Request
        <3>2. call' = [call EXCEPT ![k] = r]
            BY <1>7, <2>1, <1>0 DEF ReadCache, TypeOK, Request
        <3> QED
            BY <1>7, <3>1, <3>2 DEF ReadCache, TypeOK
    <2>2. CASE cache # None
        BY <1>7, <2>2, AnswerEffect DEF ReadCache, TypeOK
    <2> QED
        BY <2>1, <2>2
<1>8. CASE Finish(k) \/ Abort(k)
    BY <1>8 DEF Finish, Abort, TypeOK
<1> QED
    BY <1>1, <1>2, <1>3, <1>4, <1>5, <1>6, <1>7, <1>8 DEF CallStep, Fetch

LEMMA Typing == TypeOK /\ [Next]_vars => TypeOK'
<1> SUFFICES ASSUME TypeOK, [Next]_vars
             PROVE  TypeOK'
    OBVIOUS
<1>1. CASE \E k \in Call : CallStep(k)
    <2>1. PICK k \in Call : CallStep(k)
        BY <1>1
    <2> QED
        BY <2>1, CallEffect DEF TypeOK, issuerVars
<1>2. CASE Rotate
    BY <1>2 DEF Rotate, TypeOK
<1>3. CASE Tick
    BY <1>3 DEF Tick, TypeOK, issuerVars
<1>4. CASE Restart
    BY <1>4 DEF Restart, TypeOK, issuerVars
<1>5. CASE UNCHANGED vars
    BY <1>5 DEF vars, issuerVars, TypeOK
<1> QED
    BY <1>1, <1>2, <1>3, <1>4, <1>5 DEF Next

----------------------------------------------------------------------------
(* The issuer's history.                                                   *)

\* What was published, or missing, at some time from t on stays so.
LEMMA HistoryStable ==
    ASSUME TypeOK, [Next]_vars, NEW i \in Key, NEW t \in Int, t <= clock
    PROVE  /\ PublishedSince(i, t) => PublishedSince(i, t)'
           /\ MissingSince(i, t) => MissingSince(i, t)'
<1> USE DEF PublishedSince, MissingSince
<1>1. CASE Rotate
    <2>1. clock # None
        BY NoneIsNoData DEF TypeOK
    <2> QED
        BY <1>1, <2>1 DEF Rotate, TypeOK
<1>2. CASE UNCHANGED issuerVars
    BY <1>2 DEF issuerVars
<1> QED
    BY <1>1, <1>2, CallEffect DEF Next, Tick, Restart, vars

\* The keys that the issuer serves now are what it publishes.
LEMMA ServedIsGenuine ==
    ASSUME NEW t \in Int
    PROVE  Genuine(published, t)
BY DEF Genuine, PublishedSince, MissingSince

\* Keys of a time from t on are keys of a time from s on, if s is before t.
LEMMA GenuineEarlier ==
    ASSUME TypeOK, NEW keys \in SUBSET Key, NEW s \in Int, NEW t \in Int, s <= t, Genuine(keys, t)
    PROVE  Genuine(keys, s)
<1>1. \A n \in 0..MaxTime \union {None} : n # None /\ n >= t => n >= s
    OBVIOUS
<1> QED
    BY <1>1 DEF Genuine, PublishedSince, MissingSince, TypeOK

LEMMA GenuineStable ==
    ASSUME TypeOK, [Next]_vars, NEW keys \in SUBSET Key, NEW t \in Int, t <= clock,
           Genuine(keys, t)
    PROVE  Genuine(keys, t)'
BY HistoryStable DEF Genuine

----------------------------------------------------------------------------
(* The inductive invariant.                                                *)

\* A step of another request leaves k in shape: it writes the cache only while
\* nobody is between the two writes, and only advances the time.
LEMMA OthersKept ==
    ASSUME IInv, TypeOK', [Next]_vars,
           NEW j \in Call, CallStep(j), NEW k \in Call, k # j, ~Idle(k)
    PROVE  CallShape(k)' /\ AnswerFollows(k, call[k].since - MaxAge - Latency)'
<1> DEFINE r == call[k]
<1>1. /\ call'[k] = call[k]
      /\ clock' = clock
      /\ issuerVars' = issuerVars
    BY CallEffect DEF IInv, TypeOK
<1>2. CallShape(k) /\ AnswerFollows(k, call[k].since - MaxAge - Latency)
    BY DEF IInv, AnswersFollowIssuer
<1>3. At(k, "stamp") => cache' = cache
    BY DEF CallStep, Arrive, CheckTime, Fetch, Serve, FetchFails, StoreKeys, StoreTime, ReadCache,
           Finish, Abort, CacheFree, Writer
<1>4. refreshed' = refreshed \/ refreshed' = clock
    BY DEF CallStep, Arrive, CheckTime, Fetch, Serve, FetchFails, StoreKeys, StoreTime, ReadCache,
           Finish, Abort
<1>5. call[k] \in Request /\ clock \in Nat
    BY DEF IInv, TypeOK, Idle
<1>6. clock # None
    BY <1>5, NoneIsNoData
<1>7. CallShape(k)'
    BY <1>1, <1>2, <1>3, <1>4, <1>5, <1>6
       DEF CallShape, At, Idle, Genuine, PublishedSince, MissingSince, issuerVars, Request
<1>8. AnswerFollows(k, call[k].since - MaxAge - Latency)'
    BY <1>1, <1>2
       DEF AnswerFollows, At, Idle, PublishedSince, MissingSince, issuerVars
<1> QED
    BY <1>7, <1>8

\* An answer from keys that are genuine since some time follows the issuer.
LEMMA AnswerShape ==
    ASSUME IInv, NEW k \in Call, ~Idle(k), clock' = clock, UNCHANGED issuerVars,
           NEW keys \in SUBSET Key,
           Genuine(keys, call[k].since - MaxAge - Latency), Answer(k, keys)
    PROVE  CallShape(k)' /\ AnswerFollows(k, call[k].since - MaxAge - Latency)'
<1>1. PICK r \in Request :
          /\ call' = [call EXCEPT ![k] = r]
          /\ r.since = call[k].since
          /\ r.got = None
          /\ r.stage \in Verdict
          /\ r.stage = "accepted" => r.kid \in Key /\ r.kid \in keys
          /\ r.stage = "unknown" => r.kid \in Key /\ r.kid \notin keys
    BY AnswerEffect DEF IInv
<1>2. call'[k] = r
    BY <1>1 DEF IInv, TypeOK
<1>3. CallShape(k)
    BY DEF IInv
<1>4. CallShape(k)'
    BY <1>1, <1>2, <1>3, NoneIsNoData DEF CallShape, At, Verdict
<1>5. AnswerFollows(k, call[k].since - MaxAge - Latency)'
    BY <1>1, <1>2
       DEF AnswerFollows, At, Idle, Genuine, PublishedSince, MissingSince, issuerVars
<1> QED
    BY <1>4, <1>5

\* The request that steps is left in shape.
LEMMA OwnStep ==
    ASSUME IInv, TypeOK', [Next]_vars, NEW k \in Call, CallStep(k), ~Idle(k)'
    PROVE  /\ CallShape(k)'
           /\ AnswerFollows(k, call[k].since - MaxAge - Latency)'
<1>0. /\ clock \in Nat
      /\ clock' = clock
      /\ UNCHANGED issuerVars
      /\ published \in SUBSET Key
    BY CallEffect DEF IInv, TypeOK
<1>1. CASE Arrive(k)
    BY <1>1, <1>0 DEF Arrive, CallShape, AnswerFollows, At, IInv, TypeOK
<1>a. CASE ~Arrive(k)
    <2>1. ~Idle(k) /\ call[k] \in Request /\ call[k].since \in Nat
        BY <1>a DEF CallStep, CheckTime, Fetch, Serve, FetchFails, StoreKeys, StoreTime, ReadCache,
                    Finish, Abort, At, IInv, TypeOK, Idle, Request
    <2>2. CallShape(k) /\ CacheShape
        BY <2>1 DEF IInv
    <2>3. CASE CheckTime(k)
        BY <2>1, <2>2, <2>3, <1>0
           DEF CheckTime, GoTo, Fresh, CallShape, AnswerFollows, At, Idle, IInv, TypeOK, Request,
               Genuine, PublishedSince, MissingSince, issuerVars
    <2>4. CASE Serve(k)
        <3>1. Genuine(published, call[k].since)'
            BY <1>0, <2>1 DEF Genuine, PublishedSince, MissingSince, issuerVars
        <3> QED
            BY <2>1, <2>2, <2>4, <3>1, <1>0, NoneIsNoData
               DEF Serve, CallShape, AnswerFollows, At, Idle, IInv, TypeOK, Request, Validator,
                   Genuine, PublishedSince, MissingSince, issuerVars
    <2>5. CASE FetchFails(k)
        BY <2>1, <2>2, <2>5, <1>0
           DEF FetchFails, GoTo, CallShape, AnswerFollows, At, Idle, IInv, TypeOK, Request,
               Genuine, PublishedSince, MissingSince, issuerVars
    <2>6. CASE StoreKeys(k)
        BY <2>1, <2>2, <2>6, <1>0
           DEF StoreKeys, GoTo, CallShape, AnswerFollows, At, Idle, IInv, TypeOK, Request,
               Genuine, PublishedSince, MissingSince, issuerVars
    <2>7. CASE StoreTime(k)
        <3>1. /\ call[k].got \in Validator
              /\ Genuine(call[k].got.jwks, call[k].since)
            BY <2>1, <2>2, <2>7 DEF StoreTime, CallShape, At, Request
        <3>2. Genuine(call[k].got.jwks, call[k].since - MaxAge - Latency)
            BY <2>1, <3>1, GenuineEarlier DEF Validator, IInv
        <3> QED
            BY <2>1, <2>7, <3>1, <3>2, <1>0, AnswerShape DEF StoreTime, Validator
    <2>8. CASE ReadCache(k)
        <3>1. /\ cache \in Validator
              /\ refreshed \in Nat
              /\ Genuine(cache.jwks, refreshed - Latency)
              /\ call[k].since - refreshed <= MaxAge
            BY <2>1, <2>2, <2>8 DEF ReadCache, CallShape, CacheShape, At, IInv, TypeOK
        <3>2. Genuine(cache.jwks, call[k].since - MaxAge - Latency)
            BY <2>1, <3>1, GenuineEarlier DEF Validator, IInv
        <3>3. cache # None
            BY <2>2, <2>8 DEF ReadCache, CallShape, CacheShape, At
        <3> QED
            BY <2>1, <2>8, <3>1, <3>2, <3>3, <1>0, AnswerShape DEF ReadCache, Validator
    <2>9. ~Finish(k) /\ ~Abort(k)
        BY DEF Finish, Abort, Idle, IInv, TypeOK
    <2> QED
        BY <1>a, <2>3, <2>4, <2>5, <2>6, <2>7, <2>8, <2>9 DEF CallStep, Fetch
<1> QED
    BY <1>1, <1>a

\* The cache stays in shape, and one request at most is between its two writes.
LEMMA CacheStep ==
    ASSUME IInv, TypeOK', [Next]_vars, NEW k \in Call, CallStep(k)
    PROVE  CacheShape' /\ (\A i, j \in Call : Writer(i)' /\ Writer(j)' => i = j)
<1>0. /\ clock \in Nat
      /\ clock' = clock
      /\ UNCHANGED issuerVars
      /\ CacheShape
    BY CallEffect DEF IInv, TypeOK
<1>1. CASE StoreKeys(k)
    <2>1. /\ call[k] \in Request
          /\ call[k].since \in Nat
          /\ CallShape(k)
        BY <1>1 DEF StoreKeys, At, Idle, IInv, TypeOK, Request
    <2>2. /\ call[k].got \in Validator
          /\ call[k].got # None
          /\ Genuine(call[k].got.jwks, call[k].since)
          /\ clock <= call[k].since + Latency
        BY <2>1, <1>1 DEF StoreKeys, CallShape, Request
    <2>3. refreshed # None => /\ refreshed \in Nat
                              /\ refreshed - Latency <= call[k].since
        BY <2>1, <2>2, <1>0 DEF CacheShape, IInv, TypeOK
    <2>4. refreshed # None => Genuine(call[k].got.jwks, refreshed - Latency)
        BY <2>1, <2>2, <2>3, GenuineEarlier DEF Validator, IInv
    <2>5. CacheShape'
        BY <1>0, <1>1, <2>2, <2>4
           DEF StoreKeys, CacheShape, Genuine, PublishedSince, MissingSince, issuerVars
    <2>6. \A i \in Call : Writer(i)' => i = k
        BY <1>1, <2>1 DEF StoreKeys, GoTo, CacheFree, Writer, At, Idle, IInv, TypeOK
    <2> QED
        BY <2>5, <2>6
<1>2. CASE StoreTime(k)
    <2>1. /\ call[k] \in Request
          /\ call[k].since \in Nat
          /\ CallShape(k)
        BY <1>2 DEF StoreTime, At, Idle, IInv, TypeOK, Request
    <2>2. /\ cache = call[k].got
          /\ cache \in Validator
          /\ cache # None
          /\ Genuine(cache.jwks, call[k].since)
          /\ clock - Latency <= call[k].since
        BY <2>1, <1>2, <1>0 DEF StoreTime, CallShape, Request
    <2>3. Genuine(cache.jwks, clock - Latency)
        BY <1>0, <2>1, <2>2, GenuineEarlier DEF Validator, IInv
    <2>4. CacheShape'
        BY <1>0, <1>2, <2>2, <2>3
           DEF StoreTime, CacheShape, Genuine, PublishedSince, MissingSince, issuerVars
    <2>5. \A i \in Call : ~Writer(i)'
        <3>1. \A i \in Call : Writer(i) => i = k
            BY <1>2 DEF IInv, Writer, StoreTime
        <3>2. ~Writer(k)'
            BY <1>2, AnswerEffect DEF StoreTime, Writer, At, Idle, Verdict, IInv, TypeOK
        <3>3. \A i \in Call \ {k} : call'[i] = call[i]
            BY CallEffect DEF IInv, TypeOK
        <3> QED
            BY <3>1, <3>2, <3>3 DEF Writer, At, Idle
    <2> QED
        BY <2>4, <2>5
<1>3. CASE ~StoreKeys(k) /\ ~StoreTime(k)
    <2>1. UNCHANGED <<cache, refreshed>>
        BY <1>3 DEF CallStep, Arrive, CheckTime, Fetch, Serve, FetchFails, ReadCache, Finish, Abort
    <2>2. CacheShape'
        BY <1>0, <2>1
           DEF CacheShape, Genuine, PublishedSince, MissingSince, issuerVars
    <2>3. ~Writer(k)'
        <3>1. CASE ReadCache(k)
            <4>1. ~Idle(k) /\ call[k] \in Request /\ TypeOK
                BY <3>1 DEF ReadCache, At, Idle, IInv, TypeOK
            <4>2. CASE cache = None
                BY <3>1, <4>1, <4>2 DEF ReadCache, GoTo, Writer, At, Idle, TypeOK, Request
            <4>3. CASE Answer(k, cache.jwks)
                <5>1. PICK r \in Request : call' = [call EXCEPT ![k] = r] /\ r.stage \in Verdict
                    BY <4>1, <4>3, AnswerEffect
                <5> QED
                    BY <4>1, <5>1 DEF Writer, At, Idle, Verdict, TypeOK
            <4> QED
                BY <3>1, <4>2, <4>3 DEF ReadCache
        <3>2. CASE Arrive(k) \/ Finish(k) \/ Abort(k)
            BY <3>2 DEF Arrive, Finish, Abort, Writer, At, Idle, IInv, TypeOK
        <3>3. CASE CheckTime(k) \/ Fetch(k)
            <4>1. call[k] \in Request /\ ~At(k, "refetch")
                BY <3>3 DEF CheckTime, Fetch, Serve, FetchFails, CallShape, At, Idle, IInv, TypeOK
            <4> QED
                BY <3>3, <4>1
                   DEF CheckTime, Fetch, Serve, FetchFails, GoTo, Writer, At, Idle, IInv, TypeOK,
                       Request
        <3> QED
            BY <1>3, <3>1, <3>2, <3>3 DEF CallStep
    <2>4. \A i \in Call \ {k} : call'[i] = call[i]
        BY CallEffect DEF IInv, TypeOK
    <2> QED
        BY <2>2, <2>3, <2>4 DEF Writer, At, Idle, IInv
<1> QED
    BY <1>1, <1>2, <1>3

\* The issuer and the clock leave every request and the cache in shape.
LEMMA SurroundingsStep ==
    ASSUME IInv, TypeOK', [Next]_vars, Rotate \/ Tick \/ UNCHANGED vars
    PROVE  /\ CacheShape'
           /\ \A k \in Call :
                 ~Idle(k) => /\ CallShape(k)'
                             /\ AnswerFollows(k, call[k].since - MaxAge - Latency)'
<1>0. /\ UNCHANGED <<cache, refreshed, call>>
      /\ clock \in Nat
      /\ clock' = clock \/ clock' = clock + 1
      /\ TypeOK
      /\ CacheShape
    BY DEF Rotate, Tick, vars, IInv, TypeOK
<1>1. \A i \in Key, t \in Int :
          t <= clock => /\ PublishedSince(i, t) => PublishedSince(i, t)'
                        /\ MissingSince(i, t) => MissingSince(i, t)'
    BY <1>0, HistoryStable
<1>2. CacheShape'
    <2>1. CASE refreshed # None
        <3>1. cache \in Validator /\ refreshed \in Nat /\ refreshed - Latency <= clock
            BY <1>0, <2>1 DEF CacheShape, TypeOK
        <3>2. Genuine(cache.jwks, refreshed - Latency)'
            BY <1>0, <1>1, <2>1, <3>1 DEF CacheShape, Genuine, Validator
        <3> QED
            BY <1>0, <3>1, <3>2 DEF CacheShape
    <2> QED
        BY <1>0, <2>1 DEF CacheShape
<1>3. ASSUME NEW k \in Call, ~Idle(k)
      PROVE  CallShape(k)' /\ AnswerFollows(k, call[k].since - MaxAge - Latency)'
    <2>1. /\ call[k] \in Request
          /\ call[k].since \in Nat
          /\ call[k].since <= clock
          /\ call[k].since - MaxAge - Latency <= clock
          /\ CallShape(k)
          /\ AnswerFollows(k, call[k].since - MaxAge - Latency)
        BY <1>0, <1>3 DEF CallShape, IInv, TypeOK, Idle, Request, AnswersFollowIssuer
    <2>2. clock' <= call[k].since + Latency
        BY <1>0, <1>3, <2>1 DEF CallShape, Tick, Rotate, vars
    <2>3. call[k].got # None => Genuine(call[k].got.jwks, call[k].since)'
        BY <1>0, <1>1, <2>1 DEF CallShape, Genuine, Validator, Request
    <2>4. CallShape(k)'
        BY <1>0, <2>1, <2>2, <2>3 DEF CallShape, At, Idle
    <2>5. AnswerFollows(k, call[k].since - MaxAge - Latency)'
        BY <1>0, <1>1, <2>1 DEF AnswerFollows, At, Idle, CallShape, Request
    <2> QED
        BY <2>4, <2>5
<1> QED
    BY <1>2, <1>3

\* Every reachable state satisfies the inductive invariant: the validators are
\* genuine and as old as their stage or the timestamp says, with one writer.
THEOREM Invariance == Spec => []IInv
<1>1. Init => IInv
    BY NoneIsNoData
       DEF Init, IInv, TypeOK, CacheShape, AnswersFollowIssuer, Idle, Writer, At
<1>2. IInv /\ [Next]_vars => IInv'
    <2> SUFFICES ASSUME IInv, [Next]_vars
                 PROVE  IInv'
        OBVIOUS
    <2>1. TypeOK'
        BY Typing DEF IInv
    <2>2. CASE \E k \in Call : CallStep(k)
        <3>1. PICK k \in Call : CallStep(k)
            BY <2>2
        <3>2. CacheShape' /\ (\A i, j \in Call : Writer(i)' /\ Writer(j)' => i = j)
            BY <2>1, <3>1, CacheStep
        <3>3. ASSUME NEW j \in Call, ~Idle(j)'
              PROVE  CallShape(j)' /\ AnswerFollows(j, call[j].since - MaxAge - Latency)'
            <4>1. CASE j = k
                BY <2>1, <3>1, <3>3, <4>1, OwnStep
            <4>2. CASE j # k
                <5>1. ~Idle(j)
                    BY <3>1, <3>3, <4>2, CallEffect DEF Idle, IInv, TypeOK
                <5> QED
                    BY <2>1, <3>1, <4>2, <5>1, OthersKept
            <4> QED
                BY <4>1, <4>2
        <3> QED
            BY <2>1, <3>2, <3>3 DEF IInv, AnswersFollowIssuer
    <2>3. CASE Rotate \/ Tick \/ UNCHANGED vars
        <3>1. call' = call
            BY <2>3 DEF Rotate, Tick, vars
        <3> QED
            BY <2>1, <2>3, <3>1, SurroundingsStep
               DEF IInv, AnswersFollowIssuer, Writer, At, Idle
    <2>4. CASE Restart
        BY <2>1, <2>4 DEF Restart, IInv, CacheShape, AnswersFollowIssuer, Writer, At, Idle
    <2> QED
        BY <2>2, <2>3, <2>4 DEF Next
<1> QED
    BY <1>1, <1>2, PTL DEF Spec

\* Every variable keeps to its type.
THEOREM TypeCorrect == Spec => []TypeOK
<1>1. IInv => TypeOK
    BY DEF IInv
<1> QED
    BY <1>1, Invariance, PTL

\* jwt.rs:181, "Should never happen": a fresh timestamp comes with keys.
THEOREM CacheIsAlwaysThere == Spec => []CacheIsThere
<1>1. IInv => CacheIsThere
    BY DEF IInv, CacheIsThere, CacheShape, CallShape, At
<1> QED
    BY <1>1, Invariance, PTL

\* Answers follow keys that the issuer published within the cache's duration and
\* one request of their arrival.
THEOREM AnswersAreRecent == Spec => []AnswersFollowIssuer
<1>1. IInv => AnswersFollowIssuer
    BY DEF IInv
<1> QED
    BY <1>1, Invariance, PTL
=============================================================================
