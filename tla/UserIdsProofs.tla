---------------------------- MODULE UserIdsProofs ----------------------------
(***************************************************************************)
(* Proofs about UserIds: its invariants, and that it implements            *)
(* UserIdAllocation, for any users, ids, calls and number of attempts.     *)
(***************************************************************************)
EXTENDS UserIds, TLAPS

\* The inductive invariant holds initially.
LEMMA InitIInv == Init => IInv
BY UserIdsAssumption DEF Init, IInv, TypeOK, Injective, RereadFindsRow,
   DeterministicUnlessTaken, ExhaustedOnlyByCollision, CallShape, Answered

----------------------------------------------------------------------------
\* A row of the table is never deleted or changed: whatever a step does, it only
\* adds one, with an id no user had.
LEMMA TableOnlyGrows ==
    ASSUME IInv, [Next]_vars
    PROVE  \/ UNCHANGED mapping
           \/ \E u \in User, i \in Id :
                 /\ mapping[u] = None
                 /\ ~IdTaken(i)
                 /\ mapping' = [mapping EXCEPT ![u] = i]
BY UserIdsAssumption
DEF IInv, TypeOK, Next, vars, Start, Step, Lookup, Insert, InsertUserExists,
    InsertIdTaken, MisreadError, Reread, StatementFails, UserHasRow, Candidates

\* Collisions are for ever: an id a call found taken by another user stays so.
LEMMA CollisionsPersist ==
    ASSUME IInv, [Next]_vars, NEW u \in User, NEW v \in User \ {u},
           mapping[v] = Deterministic[u]
    PROVE  mapping'[v] = Deterministic[u]
<1>1. Deterministic[u] \in Id
  BY UserIdsAssumption
<1>2. CASE UNCHANGED mapping
  BY <1>2
<1>3. ASSUME NEW w \in User, NEW i \in Id, mapping[w] = None,
             mapping' = [mapping EXCEPT ![w] = i]
      PROVE  mapping'[v] = Deterministic[u]
  BY <1>1, <1>3, UserIdsAssumption DEF IInv, TypeOK
<1>4. QED
  BY <1>2, <1>3, TableOnlyGrows

\* The same for the whole of DetTaken.
LEMMA DetTakenPersists ==
    ASSUME IInv, [Next]_vars, NEW u \in User, DetTaken(u)
    PROVE  DetTaken(u)'
BY CollisionsPersist DEF DetTaken

\* No two users share an id after a step.
LEMMA StepInjective == IInv /\ [Next]_vars => Injective'
<1> SUFFICES ASSUME IInv, [Next]_vars PROVE Injective'
  OBVIOUS
<1>1. CASE UNCHANGED mapping
  BY <1>1 DEF IInv, Injective
<1>2. ASSUME NEW w \in User, NEW i \in Id, ~IdTaken(i),
             mapping' = [mapping EXCEPT ![w] = i]
      PROVE  Injective'
  BY <1>2 DEF IInv, TypeOK, Injective, IdTaken
<1>3. QED
  BY <1>1, <1>2, TableOnlyGrows

\* The types are kept by every step.
LEMMA StepTypeOK == IInv /\ [Next]_vars => TypeOK'
<1> SUFFICES ASSUME IInv, [Next]_vars PROVE TypeOK'
  OBVIOUS
<1> USE UserIdsAssumption DEF IInv, TypeOK
<1>1. ASSUME NEW k \in Call, Start(k) PROVE TypeOK'
  BY <1>1 DEF Start
<1>2. ASSUME NEW k \in Call, Lookup(k) PROVE TypeOK'
  BY <1>2 DEF Lookup, Return
<1>3. ASSUME NEW k \in Call, Insert(k) PROVE TypeOK'
  BY <1>3 DEF Insert, Return, Candidates
<1>4. ASSUME NEW k \in Call, InsertUserExists(k) PROVE TypeOK'
  BY <1>4 DEF InsertUserExists
<1>5. ASSUME NEW k \in Call, InsertIdTaken(k) PROVE TypeOK'
  BY <1>5 DEF InsertIdTaken, NextAttempt, Return, CallShape
<1>6. ASSUME NEW k \in Call, Reread(k) PROVE TypeOK'
  BY <1>6 DEF Reread, NextAttempt, Return, CallShape, UserHasRow
<1>7. ASSUME NEW k \in Call, StatementFails(k) PROVE TypeOK'
  BY <1>7 DEF StatementFails, Return, Candidates
<1>8. ASSUME NEW k \in Call, MisreadError(k) PROVE TypeOK'
  BY <1>8 DEF MisreadError, NextAttempt, Return, CallShape
<1>9. CASE UNCHANGED vars
  BY <1>9 DEF vars
<1>10. QED
  BY <1>1, <1>2, <1>3, <1>4, <1>5, <1>6, <1>7, <1>8, <1>9 DEF Next, Step

\* A step, the call's own or another call's, leaves every call knowing only what
\* is true of the table.
LEMMA StepCallShape == IInv /\ [Next]_vars => \A k \in Call : CallShape(k)'
<1> SUFFICES ASSUME IInv, [Next]_vars, NEW k \in Call PROVE CallShape(k)'
  OBVIOUS
<1>1. CallShape(k) /\ TypeOK
  BY DEF IInv
<1>2. user[k] \in User /\ mapping[user[k]] # None => mapping'[user[k]] = mapping[user[k]]
  BY TableOnlyGrows, <1>1 DEF TypeOK
<1>3. user[k] \in User /\ DetTaken(user[k]) =>
        \E v \in User \ {user[k]} : mapping'[v] = Deterministic[user[k]]
  BY CollisionsPersist DEF DetTaken
<1>4. CASE UNCHANGED <<pc[k], user[k], attempt[k], result[k]>> /\ (k \in misread' <=> k \in misread)
  <2>1. attempt[k] > 0 \/ Answered(k) => user[k] \in User
    BY <1>1, UserIdsAssumption DEF TypeOK, CallShape, Answered
  <2>2. QED
    BY <1>1, <1>2, <1>3, <1>4, <2>1, UserIdsAssumption DEF TypeOK, CallShape, DetTaken, Answered
<1>5. CASE Start(k)
  BY <1>1, <1>5, UserIdsAssumption DEF TypeOK, Start, CallShape, Answered
<1>6. CASE Lookup(k)
  BY <1>1, <1>6, UserIdsAssumption DEF TypeOK, Lookup, Return, CallShape, Answered
<1>7. CASE Insert(k)
  <2>1. user[k] \in User /\ user'[k] = user[k] /\ attempt'[k] = attempt[k] /\ misread' = misread
    BY <1>1, <1>7 DEF TypeOK, Insert
  <2>2. pc'[k] = "returned" /\ result'[k] \in Id /\ mapping'[user[k]] = result'[k]
    <3>1. PICK id \in Id : mapping' = [mapping EXCEPT ![user[k]] = id] /\ Return(k, id)
      BY <2>1, <1>7, UserIdsAssumption DEF Insert, Candidates
    <3>2. QED
      BY <1>1, <2>1, <3>1 DEF TypeOK, Return
  <2>3. QED
    BY <1>1, <1>3, <2>1, <2>2, UserIdsAssumption DEF CallShape, DetTaken, Answered
<1>8. CASE InsertUserExists(k)
  BY <1>1, <1>8, UserIdsAssumption
  DEF TypeOK, InsertUserExists, CallShape, DetTaken, Answered
<1>9. ASSUME NextAttempt(k), pc[k] \in {"insert", "reread"}, mapping' = mapping, user' = user,
             misread \subseteq misread', DetTaken(user[k]) \/ k \in misread'
      PROVE  CallShape(k)'
  <2>1. user[k] \in User
    BY <1>1, <1>9 DEF TypeOK
  <2>2. attempt'[k] = attempt[k] + 1 /\ attempt[k] \in Nat /\ attempt[k] < MaxAttempts
    BY <1>1, <1>9, UserIdsAssumption DEF TypeOK, CallShape, NextAttempt
  <2>3. CASE attempt[k] + 1 < MaxAttempts
    BY <1>1, <1>9, <2>1, <2>2, <2>3, UserIdsAssumption
    DEF TypeOK, NextAttempt, CallShape, DetTaken, Answered
  <2>4. CASE ~(attempt[k] + 1 < MaxAttempts)
    BY <1>1, <1>9, <2>1, <2>2, <2>4, UserIdsAssumption
    DEF TypeOK, NextAttempt, Return, CallShape, DetTaken, Answered
  <2>5. QED
    BY <2>3, <2>4
<1>10. CASE InsertIdTaken(k)
  <2>1. user[k] \in User
    BY <1>1, <1>10 DEF TypeOK, InsertIdTaken
  <2>2. DetTaken(user[k]) \/ k \in misread
    <3>1. CASE attempt[k] = 0
      <4>1. PICK v \in User : mapping[v] = Deterministic[user[k]]
        BY <1>10, <3>1 DEF InsertIdTaken, Candidates, IdTaken
      <4>2. v # user[k]
        BY <1>10, <2>1, <4>1, UserIdsAssumption DEF InsertIdTaken, UserHasRow
      <4>3. QED
        BY <4>1, <4>2 DEF DetTaken
    <3>2. CASE attempt[k] # 0
      BY <1>1, <3>2 DEF TypeOK, CallShape
    <3>3. QED
      BY <3>1, <3>2
  <2>3. QED
    BY <1>9, <1>10, <2>2 DEF InsertIdTaken
<1>11. CASE MisreadError(k)
  <2>1. CASE NextAttempt(k)
    BY <1>9, <1>11, <2>1 DEF MisreadError
  <2>2. CASE pc' = [pc EXCEPT ![k] = "reread"] /\ UNCHANGED <<attempt, result>>
    BY <1>1, <1>11, <2>2, UserIdsAssumption
    DEF TypeOK, MisreadError, CallShape, DetTaken, Answered
  <2>3. QED
    BY <1>11, <2>1, <2>2 DEF MisreadError
<1>12. CASE Reread(k)
  <2>1. user[k] \in User
    BY <1>1, <1>12 DEF Reread, TypeOK
  <2>2. CASE UserHasRow(k)
    BY <1>1, <1>12, <2>1, <2>2, UserIdsAssumption
    DEF TypeOK, Reread, Return, UserHasRow, CallShape, DetTaken, Answered
  <2>3. CASE ~UserHasRow(k)
    <3>1. k \in misread
      BY <1>12, <2>3 DEF IInv, RereadFindsRow, Reread
    <3>2. QED
      BY <1>9, <1>12, <2>3, <3>1 DEF Reread
  <2>4. QED
    BY <2>2, <2>3
<1>13. CASE StatementFails(k)
  <2>1. /\ user'[k] = user[k] /\ attempt'[k] = attempt[k] /\ user[k] \in User
        /\ pc'[k] = "returned" /\ result'[k] = Error /\ misread' = misread
        /\ pc[k] # "idle"
    BY <1>1, <1>13 DEF TypeOK, StatementFails, Return
  <2>2. QED
    BY <1>1, <1>3, <2>1, UserIdsAssumption DEF CallShape, DetTaken, Answered
<1>14. CASE \E j \in Call \ {k} : Start(j) \/ Step(j) \/ MisreadError(j) \/ StatementFails(j)
  <2>1. UNCHANGED <<pc[k], user[k], attempt[k], result[k]>> /\ (k \in misread' <=> k \in misread)
    BY <1>1, <1>14
    DEF TypeOK, Start, Step, Lookup, Insert, InsertUserExists, InsertIdTaken, MisreadError,
        Reread, StatementFails, NextAttempt, Return
  <2>2. QED
    BY <1>4, <2>1
<1>15. CASE UNCHANGED vars
  BY <1>4, <1>15 DEF vars
<1>16. QED
  BY <1>5, <1>6, <1>7, <1>8, <1>10, <1>11, <1>12, <1>13, <1>14, <1>15 DEF Next, Step

\* The row that caused a primary key conflict is there for the second lookup.
LEMMA StepReread == IInv /\ [Next]_vars => RereadFindsRow'
<1> SUFFICES ASSUME IInv, [Next]_vars, NEW k \in Call, pc'[k] = "reread", k \notin misread'
             PROVE  UserHasRow(k)'
  BY DEF RereadFindsRow
<1> USE UserIdsAssumption DEF IInv, TypeOK, UserHasRow
<1>1. user[k] \in User /\ user'[k] = user[k] /\ mapping[user[k]] # None
  BY DEF RereadFindsRow, Next, vars, Start, Step, Lookup, Insert, InsertUserExists,
         InsertIdTaken, MisreadError, Reread, StatementFails, NextAttempt, Return
<1>2. QED
  BY <1>1, TableOnlyGrows

\* A call that is past its start keeps its user.
LEMMA UserStays ==
    ASSUME IInv, [Next]_vars, NEW k \in Call, pc[k] # "idle"
    PROVE  user'[k] = user[k] /\ user[k] \in User
BY DEF IInv, TypeOK, Next, vars, Start, Step, Lookup, Insert, InsertUserExists,
       InsertIdTaken, MisreadError, Reread, StatementFails

\* A call that ends a step out of attempts began it with its user.
LEMMA ExhaustedKeepsUser ==
    ASSUME IInv, [Next]_vars, NEW k \in Call, result'[k] = Exhausted
    PROVE  user'[k] = user[k]
<1>1. pc[k] = "idle" => result[k] = None
  BY DEF IInv, CallShape
<1>2. pc[k] # "idle"
  BY <1>1, UserIdsAssumption
  DEF IInv, TypeOK, Next, vars, Start, Step, Lookup, Insert, InsertUserExists,
      InsertIdTaken, MisreadError, Reread, StatementFails, NextAttempt, Return
<1>3. QED
  BY <1>2, UserStays

\* What a call misread is not forgotten.
LEMMA MisreadStays == [Next]_vars => misread \subseteq misread'
BY DEF Next, vars, Start, Step, Lookup, Insert, InsertUserExists, InsertIdTaken,
       MisreadError, Reread, StatementFails

\* A new row that does not hold its user's deterministic id is inserted by a call
\* that found that id taken, or thought so.
LEMMA StepDeterministic == IInv /\ [Next]_vars => DeterministicUnlessTaken'
<1> SUFFICES ASSUME IInv, [Next]_vars, NEW u \in User,
                    mapping'[u] \notin {None, Deterministic[u]}
             PROVE  DetTaken(u)' \/ \E k \in misread' : user'[k] = u
  BY DEF DeterministicUnlessTaken
<1>1. TypeOK
  BY DEF IInv
<1>2. ASSUME NEW k \in misread, user[k] = u
      PROVE  k \in misread' /\ user'[k] = u
  <2>1. k \in Call /\ pc[k] # "idle"
    BY <1>1 DEF TypeOK, IInv, CallShape
  <2>2. QED
    BY <1>2, <2>1, UserStays, MisreadStays
<1>3. CASE mapping'[u] = mapping[u]
  BY <1>2, <1>3, DetTakenPersists DEF IInv, DeterministicUnlessTaken
<1>4. CASE mapping'[u] # mapping[u]
  <2>1. PICK k \in Call : /\ pc[k] = "insert" /\ user[k] = u
                          /\ \E id \in Candidates(k) :
                                mapping' = [mapping EXCEPT ![u] = id]
    BY <1>1, <1>4, UserIdsAssumption
    DEF TypeOK, Next, vars, Start, Step, Lookup, Insert, InsertUserExists,
        InsertIdTaken, MisreadError, Reread, StatementFails
  <2>2. attempt[k] # 0
    BY <1>1, <2>1 DEF TypeOK, Candidates
  <2>3. DetTaken(u) \/ k \in misread
    BY <1>1, <2>1, <2>2 DEF IInv, CallShape, TypeOK
  <2>4. QED
    BY <1>2, <2>1, <2>3, DetTakenPersists
<1>5. QED
  BY <1>3, <1>4

\* A call runs out of attempts only after its last collision, or what it took for
\* one.
LEMMA StepError == IInv /\ [Next]_vars => ExhaustedOnlyByCollision'
<1> SUFFICES ASSUME IInv, [Next]_vars, NEW k \in Call, result'[k] = Exhausted
             PROVE  \/ k \in misread'
                    \/ \E v \in User \ {user'[k]} : mapping'[v] = Deterministic[user'[k]]
  BY DEF ExhaustedOnlyByCollision, DetTaken
<1>1. TypeOK /\ CallShape(k)
  BY DEF IInv
<1>2. CASE result[k] = Exhausted
  <2>1. pc[k] = "returned" /\ user[k] \in User
    BY <1>1, <1>2, UserIdsAssumption DEF TypeOK, CallShape
  <2>2. QED
    BY <1>2, <2>1, ExhaustedKeepsUser, CollisionsPersist, MisreadStays
    DEF IInv, ExhaustedOnlyByCollision, DetTaken
<1>3. CASE result[k] # Exhausted
  <2>1. attempt'[k] > 0
    BY <1>1, <1>3, UserIdsAssumption
    DEF TypeOK, Next, vars, Start, Step, Lookup, Insert, InsertUserExists,
        InsertIdTaken, MisreadError, Reread, StatementFails, NextAttempt, Return, Candidates,
        UserHasRow
  <2>2. CallShape(k)'
    BY StepCallShape
  <2>3. QED
    BY <2>1, <2>2 DEF CallShape, DetTaken
<1>4. QED
  BY <1>2, <1>3

\* Every step keeps the inductive invariant.
LEMMA StepIInv == IInv /\ [Next]_vars => IInv'
BY StepTypeOK, StepInjective, StepReread, StepDeterministic, StepError, StepCallShape
DEF IInv

----------------------------------------------------------------------------
\* The inductive invariant holds in every interleaving of the calls.
THEOREM Invariance == Spec => []IInv
BY InitIInv, StepIInv, PTL DEF Spec

\* The variables keep to their types (get_or_create_user_id, user_id_mappings).
THEOREM TypeCorrect == Spec => []TypeOK
<1>1. IInv => TypeOK
  BY DEF IInv
<1>2. QED
  BY <1>1, Invariance, PTL

\* Concurrent calls are answered with the same id exactly when they are for the
\* same user.
THEOREM Agreement == Spec => []CallsAgree
<1>1. IInv => CallsAgree
  BY UserIdsAssumption DEF IInv, TypeOK, Injective, CallShape, CallsAgree, Answered
<1>2. QED
  BY <1>1, Invariance, PTL

\* The second lookup after a conflict never misses: the branch commented "This
\* shouldn't happen" is dead but for errors that were no conflict.
THEOREM RereadNeverMisses == Spec => []RereadFindsRow
<1>1. IInv => RereadFindsRow
  BY DEF IInv
<1>2. QED
  BY <1>1, Invariance, PTL

\* Ids are deterministic but for collisions between users and errors taken for one.
THEOREM Determinism == Spec => []DeterministicUnlessTaken
<1>1. IInv => DeterministicUnlessTaken
  BY DEF IInv
<1>2. QED
  BY <1>1, Invariance, PTL

\* Attempts are used up by collisions between users and errors taken for one only.
THEOREM ErrorsExplained == Spec => []ExhaustedOnlyByCollision
<1>1. IInv => ExhaustedOnlyByCollision
  BY DEF IInv
<1>2. QED
  BY <1>1, Invariance, PTL

----------------------------------------------------------------------------
(* UserIds implements UserIdAllocation.                                    *)

Answers == [k \in Call |-> AnswerOf(k)]

\* A call that returns changes its own answer and no other.
LEMMA ReturnAnswers ==
    ASSUME IInv, NEW k \in Call, NEW x \in Id \union {Error, Exhausted}, Return(k, x),
           UNCHANGED user
    PROVE  Answers' = [Answers EXCEPT ![k] = IF x \in Id THEN <<user[k], x>> ELSE Error]
<1>1. result' = [result EXCEPT ![k] = x] /\ result \in [Call -> Id \union {Error, Exhausted, None}]
  BY DEF Return, IInv, TypeOK
<1>2. \A j \in Call : AnswerOf(j)' = IF j = k THEN IF x \in Id THEN <<user[k], x>> ELSE Error
                                              ELSE AnswerOf(j)
  BY <1>1, UserIdsAssumption DEF AnswerOf
<1>3. QED
  BY <1>2 DEF Answers

\* A step that returns nothing changes no answer.
LEMMA OthersAnswerNothing ==
    ASSUME IInv, UNCHANGED result,
           UNCHANGED user \/ \E k \in Call : Start(k)
    PROVE  Answers' = Answers
<1>1. \A k \in Call : AnswerOf(k)' = AnswerOf(k)
  BY UserIdsAssumption DEF IInv, TypeOK, CallShape, AnswerOf, Start
<1>2. QED
  BY <1>1 DEF Answers

\* No user has an id and no call an answer to begin with.
LEMMA InitRefines == Init => Abstract!Init
BY UserIdsAssumption DEF Init, Abstract!Init, AnswerOf

\* A running call has not been answered.
LEMMA NotYetAnswered ==
    ASSUME IInv, NEW k \in Call, pc[k] \in {"lookup", "insert", "reread"}
    PROVE  Answers[k] = None /\ user[k] \in User
BY UserIdsAssumption DEF IInv, TypeOK, CallShape, Answers, AnswerOf

\* Answering a call without touching the table is an abstract Answer.
LEMMA AnswerRefines ==
    ASSUME IInv, NEW k \in Call, NEW x \in Id \union {Error, Exhausted}, Return(k, x),
           pc[k] \in {"lookup", "insert", "reread"},
           x \in Id => x = mapping[user[k]],
           UNCHANGED <<user, mapping>>
    PROVE  Abstract!Next
<1>1. Answers[k] = None /\ user[k] \in User
  BY NotYetAnswered
<1>2. Answers' = [Answers EXCEPT ![k] = IF x \in Id THEN <<user[k], x>> ELSE Error]
  BY ReturnAnswers
<1>3. Abstract!Answer(k)
  <2>1. CASE x \notin Id
    BY <1>1, <1>2, <2>1, UserIdsAssumption DEF Abstract!Answer, Answers
  <2>2. CASE x \in Id
    BY <1>1, <1>2, <2>2, UserIdsAssumption DEF Abstract!Answer, Answers
  <2>3. QED
    BY <2>1, <2>2
<1>4. QED
  BY <1>3 DEF Abstract!Next

\* Inserting a row is an abstract Allocate, answered at once with the id or with
\* an error.
LEMMA InsertRefines ==
    ASSUME IInv, NEW k \in Call, NEW i \in Id, NEW x \in {i, Error}, Return(k, x),
           pc[k] = "insert", ~UserHasRow(k), ~IdTaken(i),
           mapping' = [mapping EXCEPT ![user[k]] = i],
           UNCHANGED user
    PROVE  Abstract!Next
<1>1. Answers[k] = None /\ user[k] \in User
  BY NotYetAnswered
<1>2. Answers' = [Answers EXCEPT ![k] = IF x \in Id THEN <<user[k], x>> ELSE Error]
  BY ReturnAnswers
<1>3. Abstract!Allocate(user[k])
  <2>1. i \in Id \ Abstract!Taken
    BY DEF Abstract!Taken, IdTaken
  <2>2. QED
    BY <2>1, <1>1 DEF Abstract!Allocate, UserHasRow
<1>4. mapping'[user[k]] = i /\ i # None
  BY <1>1, UserIdsAssumption DEF IInv, TypeOK
<1>5. Abstract!Answer(k)
  <2>1. CASE x = Error
    BY <1>1, <1>2, <2>1, UserIdsAssumption DEF Abstract!Answer, Answers
  <2>2. CASE x = i
    BY <1>1, <1>2, <1>4, <2>2, UserIdsAssumption DEF Abstract!Answer, Answers
  <2>3. QED
    BY <2>1, <2>2
<1>6. QED
  BY <1>1, <1>3, <1>5 DEF Abstract!Next

\* Every step of the calls is a step of the abstract allocation, or a stutter.
LEMMA StepRefines == IInv /\ [Next]_vars => [Abstract!Next]_<<mapping, Answers>>
<1> SUFFICES ASSUME IInv, [Next]_vars
             PROVE  Abstract!Next \/ UNCHANGED <<mapping, Answers>>
  OBVIOUS
<1> USE UserIdsAssumption
<1>0. ASSUME NEW k \in Call, NextAttempt(k), pc[k] \in {"insert", "reread"},
             UNCHANGED <<mapping, user>>
      PROVE  Abstract!Next \/ UNCHANGED <<mapping, Answers>>
  <2>1. CASE UNCHANGED result
    BY <1>0, <2>1, OthersAnswerNothing
  <2>2. CASE Return(k, Exhausted)
    BY <1>0, <2>2, AnswerRefines
  <2>3. QED
    BY <1>0, <2>1, <2>2 DEF NextAttempt
<1>1. ASSUME NEW k \in Call, Start(k) PROVE UNCHANGED <<mapping, Answers>>
  BY <1>1, OthersAnswerNothing DEF Start
<1>2. ASSUME NEW k \in Call, Lookup(k)
      PROVE  Abstract!Next \/ UNCHANGED <<mapping, Answers>>
  <2>1. CASE mapping[user[k]] # None
    <3>1. mapping[user[k]] \in Id
      BY <1>2, <2>1, NotYetAnswered DEF IInv, TypeOK, Lookup
    <3>2. QED
      BY <1>2, <2>1, <3>1, AnswerRefines DEF Lookup
  <2>2. CASE mapping[user[k]] = None
    BY <1>2, <2>2, OthersAnswerNothing DEF Lookup
  <2>3. QED
    BY <2>1, <2>2
<1>3. ASSUME NEW k \in Call, Insert(k) PROVE Abstract!Next
  <2>1. PICK id \in Candidates(k) : /\ ~IdTaken(id)
                                    /\ mapping' = [mapping EXCEPT ![user[k]] = id]
                                    /\ Return(k, id)
    BY <1>3 DEF Insert
  <2>2. id \in Id
    BY <1>3, NotYetAnswered DEF Candidates, Insert
  <2>3. QED
    BY <1>3, <2>1, <2>2, InsertRefines DEF Insert
<1>4. ASSUME NEW k \in Call, InsertUserExists(k) PROVE UNCHANGED <<mapping, Answers>>
  BY <1>4, OthersAnswerNothing DEF InsertUserExists
<1>5. ASSUME NEW k \in Call, InsertIdTaken(k)
      PROVE  Abstract!Next \/ UNCHANGED <<mapping, Answers>>
  BY <1>0, <1>5 DEF InsertIdTaken
<1>6. ASSUME NEW k \in Call, Reread(k)
      PROVE  Abstract!Next \/ UNCHANGED <<mapping, Answers>>
  <2>1. CASE UserHasRow(k)
    <3>1. mapping[user[k]] \in Id
      BY <1>6, <2>1, NotYetAnswered DEF IInv, TypeOK, Reread, UserHasRow
    <3>2. QED
      BY <1>6, <2>1, <3>1, AnswerRefines DEF Reread
  <2>2. CASE ~UserHasRow(k)
    BY <1>0, <1>6, <2>2 DEF Reread
  <2>3. QED
    BY <2>1, <2>2
<1>7. ASSUME NEW k \in Call, StatementFails(k) PROVE Abstract!Next
  <2>1. CASE UNCHANGED mapping
    BY <1>7, <2>1, AnswerRefines DEF StatementFails
  <2>2. ASSUME NEW id \in Candidates(k), pc[k] = "insert", ~UserHasRow(k), ~IdTaken(id),
               mapping' = [mapping EXCEPT ![user[k]] = id]
        PROVE  Abstract!Next
    <3>1. id \in Id
      BY <2>2, NotYetAnswered DEF Candidates
    <3>2. QED
      BY <1>7, <2>2, <3>1, InsertRefines DEF StatementFails
  <2>3. QED
    BY <1>7, <2>1, <2>2 DEF StatementFails
<1>8. ASSUME NEW k \in Call, MisreadError(k)
      PROVE  Abstract!Next \/ UNCHANGED <<mapping, Answers>>
  <2>1. CASE UNCHANGED result
    BY <1>8, <2>1, OthersAnswerNothing DEF MisreadError
  <2>2. CASE NextAttempt(k)
    BY <1>0, <1>8, <2>2 DEF MisreadError
  <2>3. QED
    BY <1>8, <2>1, <2>2 DEF MisreadError
<1>9. CASE UNCHANGED vars
  BY <1>9, OthersAnswerNothing DEF vars
<1>10. QED
  BY <1>1, <1>2, <1>3, <1>4, <1>5, <1>6, <1>7, <1>8, <1>9 DEF Next, Step

\* The concurrent, failing calls implement the allocation of one unique and
\* immutable id per user.
THEOREM Refinement == Spec => ImplementsAllocation
<1>1. IInv /\ [Next]_vars => [Abstract!Next]_<<mapping, [k \in Call |-> AnswerOf(k)]>>
  BY StepRefines DEF Answers
<1>2. QED
  BY <1>1, InitRefines, Invariance, PTL DEF Spec, ImplementsAllocation, Abstract!Spec
=============================================================================
