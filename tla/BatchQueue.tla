---------------------------- MODULE BatchQueue ----------------------------
(***************************************************************************)
(* What a batching queue of the sidecar promises to the loop that consumes *)
(* it, whatever the order it packs in.  A queue holds items; a consumer    *)
(* takes one legal batch at a time and learns when the oldest item that    *)
(* remains arrived.                                                        *)
(***************************************************************************)
EXTENDS Integers, FiniteSets, FiniteSetsExt

VARIABLES
  queued,    \* the items that wait, records [id, at, cost, alone, cap, req]
  served,    \* the ids of the items that left in some batch
  head,      \* arrival of the oldest queued item, 0 when there is none
  limits     \* the caps in force: [cost, requests, requestItems]

queueVars == <<queued, served, head, limits>>

TotalCost(S) == MapThenSumSet(LAMBDA r : r.cost, S)

\* The cost cap of a batch taken from Q: the configured one, or the lowest
\* hard cap of an item that waits.
CostCap(Q, caps) == Min({caps.cost} \cup {r.cap : r \in Q})

(***************************************************************************)
(* A batch is legal when it is not empty, an item that runs alone is its   *)
(* only item, only a single item exceeds the cost cap, and more items than *)
(* the request cap leave together only if they are one caller's request.   *)
(***************************************************************************)
LegalBatch(B, Q, caps) ==
  /\ B # {} /\ B \subseteq Q
  /\ Cardinality(B) > 1 =>
       /\ \A r \in B : ~r.alone
       /\ TotalCost(B) <= CostCap(Q, caps)
  /\ \/ Cardinality(B) <= Max({1, caps.requests})
     \/ /\ Cardinality(B) <= caps.requestItems
        /\ \A r, s \in B : r.req = s.req

Oldest(Q) == IF Q = {} THEN 0 ELSE Min({r.at : r \in Q})

Arrive ==
  /\ queued \subseteq queued' /\ queued' # queued
  /\ \A r \in queued' \ queued : r.id \notin served
  /\ head' = Oldest(queued')
  /\ UNCHANGED <<served, limits>>

Leave ==
  /\ LegalBatch(queued \ queued', queued, limits)
  /\ queued' \subseteq queued
  /\ served' = served \cup {r.id : r \in queued \ queued'}
  /\ head' = Oldest(queued')
  /\ UNCHANGED limits

Adjust == UNCHANGED <<queued, served, head>>

QueueInit == queued = {} /\ served = {} /\ head = 0
QueueNext == Arrive \/ Leave \/ Adjust
QueueSpec == QueueInit /\ [][QueueNext]_queueVars
=============================================================================
