-------------------------- MODULE IdempotentWrites --------------------------
(***************************************************************************)
(* What an Idempotency-Key promises a client of sie-config: at most one    *)
(* request works on a key at a time; once a write of the key is committed  *)
(* nobody works on the key again while the commit is remembered; and a     *)
(* request is told that the write happened only if a request with the same *)
(* key and the same payload committed it.  What is remembered may be       *)
(* forgotten at any time: the memory is bounded and dies with the process. *)
(***************************************************************************)
CONSTANTS Requests, Keys, None

VARIABLES key,      \* per request: its key, None if it carries none
          payload,  \* per request: the digest of what it asks for
          owner,    \* per key: the request that works on it
          memory,   \* per key: the payload and the answer of the commit
          commits,  \* per key: payloads ever committed under it
          told      \* per request: what it was answered

vars == <<key, payload, owner, memory, commits, told>>

Init ==
  /\ owner = [k \in Keys |-> None]
  /\ memory = [k \in Keys |-> None]
  /\ commits = [k \in Keys |-> {}]
  /\ told = [r \in Requests |-> None]

Begin(r) ==
  /\ owner[key[r]] = None /\ memory[key[r]] = None /\ told[r] = None
  /\ owner' = [owner EXCEPT ![key[r]] = r]
  /\ UNCHANGED <<memory, commits, told>>

\* The owner remembers its answer; others may be forgotten to make room.
Commit(r) ==
  /\ owner[key[r]] = r
  /\ owner' = [owner EXCEPT ![key[r]] = None]
  /\ \E answer \in {"changed", "unchanged"}, lost \in SUBSET Keys :
       /\ memory' = [k \in Keys |->
            IF k = key[r] THEN [payload |-> payload[r], answer |-> answer]
            ELSE IF k \in lost THEN None ELSE memory[k]]
       /\ told' = [told EXCEPT ![r] = answer]
  /\ commits' = [commits EXCEPT ![key[r]] = @ \cup {payload[r]}]

\* The owner fails or is cancelled: the key is free again.
GiveUp(r) ==
  /\ owner[key[r]] = r
  /\ owner' = [owner EXCEPT ![key[r]] = None]
  /\ \E answer \in {"conflict", "error", "cancelled"} :
       told' = [told EXCEPT ![r] = answer]
  /\ UNCHANGED <<memory, commits>>

\* A request that does not own its key is answered: from memory, with the
\* bare fact that the write was committed, or with a refusal.
Tell(r) ==
  /\ told[r] = None /\ owner[key[r]] # r
  /\ \E answer \in {"changed", "unchanged", "applied", "mismatch", "conflict",
                    "error", "cancelled"} :
       /\ answer \in {"changed", "unchanged"} =>
            memory[key[r]] = [payload |-> payload[r], answer |-> answer]
       /\ answer = "applied" => payload[r] \in commits[key[r]]
       /\ told' = [told EXCEPT ![r] = answer]
  /\ UNCHANGED <<owner, memory, commits>>

\* The process stops: nothing is remembered, and whoever had not been
\* answered never will be.
Forget ==
  /\ owner' = [k \in Keys |-> None]
  /\ memory' = [k \in Keys |-> None]
  /\ \E lost \in SUBSET {r \in Requests : told[r] = None} :
       told' = [r \in Requests |-> IF r \in lost THEN "lost" ELSE told[r]]
  /\ UNCHANGED commits

Next ==
  /\ \/ \E r \in {q \in Requests : key[q] \in Keys} :
          Begin(r) \/ Commit(r) \/ GiveUp(r) \/ Tell(r)
     \/ Forget
  /\ UNCHANGED <<key, payload>>

Spec == Init /\ [][Next]_vars
=============================================================================
