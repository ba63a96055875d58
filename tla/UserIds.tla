------------------------------- MODULE UserIds -------------------------------
(***************************************************************************)
(* get_or_create_user_id: concurrent calls look a user up in the table     *)
(* user_id_mappings and, for a new user, insert candidate ids until one is *)
(* accepted.  Each action is one statement the database executes and what  *)
(* the call does with its outcome.                                         *)
(*                                                                         *)
(* Ids are the values of the INTEGER column (the u32 of the program and    *)
(* the i32 of the column are the same 32 bits).                            *)
(***************************************************************************)
EXTENDS Integers, FiniteSets

CONSTANTS
    User,          \* user hashes
    Id,            \* MIN_USER_ID..MAX_USER_ID
    Call,          \* calls of get_or_create_user_id
    None,          \* no id, no user
    Error,         \* the Err answer of a database error
    Exhausted,     \* the Err answer after max_attempts
    Deterministic, \* generate_deterministic_user_id, a function of the hash
    MaxAttempts,   \* max_attempts
    Faults         \* may the database or a connection fail?

ASSUME UserIdsAssumption ==
    /\ Deterministic \in [User -> Id]
    /\ MaxAttempts \in Nat \ {0}
    /\ Faults \in BOOLEAN
    /\ None \notin Id /\ None \notin User
    /\ {Error, Exhausted} \intersect (Id \union {None}) = {}
    /\ Error # Exhausted

VARIABLES
    mapping,       \* user_id_mappings: user_hash (primary key) to user_id (UNIQUE)
    pc,            \* where each call is
    user,          \* the user it is for
    attempt,       \* its attempt counter
    result,        \* the id or the error it returned, or None
    misread        \* history: the calls that took another error for a conflict

vars == <<mapping, pc, user, attempt, result, misread>>

Init ==
    /\ mapping = [u \in User |-> None]
    /\ pc = [k \in Call |-> "idle"]
    /\ user = [k \in Call |-> None]
    /\ attempt = [k \in Call |-> 0]
    /\ result = [k \in Call |-> None]
    /\ misread = {}

----------------------------------------------------------------------------
\* The calls end here: Ok(id), or Err.
Return(k, id) ==
    /\ pc' = [pc EXCEPT ![k] = "returned"]
    /\ result' = [result EXCEPT ![k] = id]

Start(k) ==
    /\ pc[k] = "idle"
    /\ \E u \in User : user' = [user EXCEPT ![k] = u]
    /\ pc' = [pc EXCEPT ![k] = "lookup"]
    /\ UNCHANGED <<mapping, attempt, result, misread>>

\* get_user_id_by_hash, first time
Lookup(k) ==
    /\ pc[k] = "lookup"
    /\ IF mapping[user[k]] # None
       THEN Return(k, mapping[user[k]])
       ELSE pc' = [pc EXCEPT ![k] = "insert"] /\ UNCHANGED result
    /\ UNCHANGED <<mapping, user, attempt, misread>>

\* Mutation of Candidates: a random id from the first attempt on.
CandidatesRandom(k) == Id

Candidates(k) == IF attempt[k] = 0 THEN {Deterministic[user[k]]} ELSE Id

\* Mutations of NextAttempt: one attempt too many; attempts are not counted.
NextAttemptOneMore(k) ==
    /\ attempt' = [attempt EXCEPT ![k] = @ + 1]
    /\ IF attempt[k] < MaxAttempts
       THEN pc' = [pc EXCEPT ![k] = "insert"] /\ UNCHANGED result
       ELSE Return(k, Exhausted)

NextAttemptUncounted(k) ==
    /\ pc' = [pc EXCEPT ![k] = "insert"]
    /\ UNCHANGED <<attempt, result>>

\* the next iteration of the loop, or the error after the last one
NextAttempt(k) ==
    /\ attempt' = [attempt EXCEPT ![k] = @ + 1]
    /\ IF attempt[k] + 1 < MaxAttempts
       THEN pc' = [pc EXCEPT ![k] = "insert"] /\ UNCHANGED result
       ELSE Return(k, Exhausted)

UserHasRow(k) == mapping[user[k]] # None

IdTaken(id) == \E v \in User : mapping[v] = id

\* Mutation of Insert: an upsert.
InsertOrReplace(k) ==
    /\ pc[k] = "insert"
    /\ \E id \in Candidates(k) :
          /\ ~IdTaken(id)
          /\ mapping' = [mapping EXCEPT ![user[k]] = id]
          /\ Return(k, id)
    /\ UNCHANGED <<user, attempt, misread>>

\* create_user_id_mapping: the INSERT is accepted
Insert(k) ==
    /\ pc[k] = "insert"
    /\ ~UserHasRow(k)
    /\ \E id \in Candidates(k) :
          /\ ~IdTaken(id)
          /\ mapping' = [mapping EXCEPT ![user[k]] = id]
          /\ Return(k, id)
    /\ UNCHANGED <<user, attempt, misread>>

\* Mutations of InsertUserExists: the candidate is taken for the user's id; the
\* INSERT is tried again without a look at the row.
InsertUserExistsTrusts(k) ==
    /\ pc[k] = "insert"
    /\ UserHasRow(k)
    /\ \E id \in Candidates(k) : Return(k, id)
    /\ UNCHANGED <<mapping, user, attempt, misread>>

InsertUserExistsRetries(k) ==
    /\ pc[k] = "insert"
    /\ UserHasRow(k)
    /\ NextAttempt(k)
    /\ UNCHANGED <<mapping, user, misread>>

\* It breaks the primary key, which PostgreSQL checks before the UNIQUE column.
InsertUserExists(k) ==
    /\ pc[k] = "insert"
    /\ UserHasRow(k)
    /\ pc' = [pc EXCEPT ![k] = "reread"]
    /\ UNCHANGED <<mapping, user, attempt, result, misread>>

\* Mutation of InsertIdTaken: every conflict is taken for one on the user.
InsertIdTakenRereads(k) ==
    /\ pc[k] = "insert"
    /\ ~UserHasRow(k)
    /\ \E id \in Candidates(k) : IdTaken(id)
    /\ pc' = [pc EXCEPT ![k] = "reread"]
    /\ UNCHANGED <<mapping, user, attempt, result, misread>>

\* It breaks the UNIQUE constraint of user_id only: another candidate.
InsertIdTaken(k) ==
    /\ pc[k] = "insert"
    /\ ~UserHasRow(k)
    /\ \E id \in Candidates(k) : IdTaken(id)
    /\ NextAttempt(k)
    /\ UNCHANGED <<mapping, user, misread>>

\* The server refuses the INSERT for another reason, in a message that names the
\* table or an index of it ("permission denied for table user_id_mappings"): what
\* create_user_id_mapping looks for in the message makes it a conflict on user_id,
\* or on user_hash if it names the primary key.
MisreadError(k) ==
    /\ Faults
    /\ pc[k] = "insert"
    /\ misread' = misread \union {k}
    /\ \/ NextAttempt(k)
       \/ pc' = [pc EXCEPT ![k] = "reread"] /\ UNCHANGED <<attempt, result>>
    /\ UNCHANGED <<mapping, user>>

\* get_user_id_by_hash after a conflict on the user; a missing row "shouldn't
\* happen, but retry if it does"
Reread(k) ==
    /\ pc[k] = "reread"
    /\ IF UserHasRow(k)
       THEN Return(k, mapping[user[k]]) /\ UNCHANGED attempt
       ELSE NextAttempt(k)
    /\ UNCHANGED <<mapping, user, misread>>

\* A statement fails with an error that is not taken for a conflict, or the call
\* is dropped.  An INSERT may have been committed all the same.
StatementFails(k) ==
    /\ Faults
    /\ pc[k] \in {"lookup", "insert", "reread"}
    /\ Return(k, Error)
    /\ \/ UNCHANGED mapping
       \/ /\ pc[k] = "insert"
          /\ ~UserHasRow(k)
          /\ \E id \in Candidates(k) :
                /\ ~IdTaken(id)
                /\ mapping' = [mapping EXCEPT ![user[k]] = id]
    /\ UNCHANGED <<user, attempt, misread>>

Step(k) ==
    Lookup(k) \/ Insert(k) \/ InsertUserExists(k) \/ InsertIdTaken(k) \/ Reread(k)

Next == \E k \in Call : Start(k) \/ Step(k) \/ MisreadError(k) \/ StatementFails(k)

Spec == Init /\ [][Next]_vars

\* Tokio runs every call whose statement has returned.
FairSpec == Spec /\ \A k \in Call : WF_vars(Step(k))

----------------------------------------------------------------------------
(* Invariants.                                                             *)

\* Every variable keeps to its type, and a running call has a user.
TypeOK ==
    /\ mapping \in [User -> Id \union {None}]
    /\ pc \in [Call -> {"idle", "lookup", "insert", "reread", "returned"}]
    /\ user \in [Call -> User \union {None}]
    /\ attempt \in [Call -> 0..MaxAttempts]
    /\ result \in [Call -> Id \union {Error, Exhausted, None}]
    /\ misread \subseteq Call
    /\ \A k \in Call : pc[k] # "idle" => user[k] \in User

Answered(k) == result[k] \in Id

\* Concurrent calls agree: all the calls for a user are answered with the same
\* id, and calls for different users with different ids.
CallsAgree ==
    \A j, k \in Call :
        Answered(j) /\ Answered(k) => (user[j] = user[k] <=> result[j] = result[k])

\* The branch that "shouldn't happen" does not: after a conflict on the primary
\* key, the row of the user is there to be read.  Only an error that was no
\* conflict at all leads a call there without a row.
RereadFindsRow == \A k \in Call : pc[k] = "reread" => UserHasRow(k) \/ k \in misread

\* the deterministic id of u is another user's
DetTaken(u) == \E v \in User \ {u} : mapping[v] = Deterministic[u]

\* A user has another id than the deterministic one only if that one is taken by
\* another user, or a call for the user took another error for a conflict:
\* whatever calls raced to create the mapping.
DeterministicUnlessTaken ==
    \A u \in User :
        mapping[u] \notin {None, Deterministic[u]}
        => DetTaken(u) \/ \E k \in misread : user[k] = u

\* A call runs out of attempts only if another user holds the deterministic id
\* of its user, or it took another error for a conflict: losing the race to other
\* calls for the same user, any number of times, does not use its attempts up.
ExhaustedOnlyByCollision ==
    \A k \in Call : result[k] = Exhausted => DetTaken(user[k]) \/ k \in misread

----------------------------------------------------------------------------
(* The inductive invariant behind the invariants above.                    *)

Injective == \A u, v \in User : mapping[u] # None /\ mapping[u] = mapping[v] => u = v

\* what a call has found out by the time it is at each statement
CallShape(k) ==
    /\ pc[k] \in {"idle", "lookup"} => attempt[k] = 0
    /\ pc[k] \in {"insert", "reread"} => attempt[k] < MaxAttempts
    /\ pc[k] = "returned" <=> result[k] # None
    /\ attempt[k] > 0 => DetTaken(user[k]) \/ k \in misread
    /\ k \in misread => pc[k] \notin {"idle", "lookup"}
    /\ Answered(k) => mapping[user[k]] = result[k]

\* Ids are one user's each, and each call knows what its statements have found:
\* the strengthening that makes the invariants above inductive.
IInv ==
    /\ TypeOK
    /\ Injective
    /\ RereadFindsRow
    /\ DeterministicUnlessTaken
    /\ ExhaustedOnlyByCollision
    /\ \A k \in Call : CallShape(k)

----------------------------------------------------------------------------
(* The calls implement the abstract allocation.                            *)

AnswerOf(k) ==
    CASE result[k] \in Id -> <<user[k], result[k]>>
      [] result[k] \in {Error, Exhausted} -> Error
      [] OTHER -> None

Abstract == INSTANCE UserIdAllocation
    WITH idOf <- mapping, answer <- [k \in Call |-> AnswerOf(k)]

\* Every step of every call, failed statements included, is an allocation, an
\* answer, both, or nothing to the abstract specification.
ImplementsAllocation == Abstract!Spec

----------------------------------------------------------------------------
(* Liveness.                                                               *)

\* The retry loop ends: every call returns.
CallReturns == \A k \in Call : pc[k] = "lookup" ~> pc[k] = "returned"
=============================================================================
