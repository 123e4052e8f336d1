---------------------------- MODULE WorkDelivery ----------------------------
(***************************************************************************)
(* The work plane for one non-streaming request (encode, score, extract):  *)
(* the gateway publishes one message per item to JetStream, sidecars pull, *)
(* run and settle the messages, and results come back over Core NATS to a  *)
(* collector the HTTP handler waits on.                                    *)
(*                                                                         *)
(*   gateway  packages/sie_gateway/src/queue/publisher.rs (WorkPublisher), *)
(*            queue/dispatch.rs (fallback timer), handlers/proxy.rs (the   *)
(*            waiting handler, its abandonment guard, the ACK monitor)     *)
(*   sidecar  packages/sie_server_sidecar/src/dispatcher.rs                *)
(*                                                                         *)
(* An item has at most two copies: one on the private stream of the worker *)
(* it was dispatched to ("direct") and one on the lane's pool stream       *)
(* ("pool").  The pool copy is the original of a pool-targeted request, or *)
(* the fallback of a direct one.  Batching is abstracted: the sidecar      *)
(* settles every item of a batch on its own, so an item moves through the  *)
(* phases alone and a failure of the whole batch is a failure of each item.*)
(* Requests meet only in the bounded tombstone table, whose eviction is    *)
(* the fault ForgetTombstone.                                              *)
(***************************************************************************)
EXTENDS Naturals, FiniteSets

CONSTANTS
  Targets,       \* the PublishTargets considered: "direct", "pool" or both
  Items,         \* items of the request
  Workers,       \* sidecars of the lane
  DirectWorker,  \* the worker a direct dispatch names
  Offloaded,     \* items whose payload goes to the payload store
  MaxDeliver,    \* consumer max_deliver
  Enforce,       \* SIE_WORK_DEADLINE_ENFORCE
  FaultKinds,    \* which transport and process faults are considered
  MaxFaults      \* bound: faults of a behaviour

ASSUME DeliveryAssumption ==
  /\ Targets \subseteq {"direct", "pool"}
  /\ Items # {} /\ IsFiniteSet(Items)
  /\ DirectWorker \in Workers
  /\ Offloaded \subseteq Items
  /\ MaxDeliver \in Nat \ {0}
  /\ Enforce \in BOOLEAN
  /\ FaultKinds \subseteq {"publish", "client", "store", "settle", "result",
                           "wait", "signal", "restart"}
  /\ MaxFaults \in Nat

Lanes == {"direct", "pool"}
Copies == Items \X Lanes
ItemOf(c) == c[1]
LaneOf(c) == c[2]
Signals == {"work", "batch"}      \* work_cancel.>, batch_cancel.>

VARIABLES
  target,     \* "direct" or "pool": the request's PublishTarget
  pub,        \* publish_work_inner: [at, todo]
  initAcks,   \* publish ACKs of the initial publication, by item
  collector,  \* the request is in pending_results
  results,    \* items whose result the collector holds
  oneshot,    \* the collector's sender: open, sent or closed
  stale,      \* direct_fallback_republished_indices
  taken,      \* direct_fallback_republished: the one-shot fallback is spent
  cached,     \* items with a direct_fallback_payload
  fallback,   \* republish_pending_result_to_pool: [at, todo, took, ok]
  handler,    \* the HTTP handler
  dur,        \* monitor_dispatch_durability
  tasks,      \* detached cleanups: "finish" (cancel, then delete), "delete"
  tracked,    \* offloaded_payload_keys
  blobs,      \* payloads in the store
  cancelled,  \* history: work_cancel was published
  late,       \* the request's deadline has passed
  signals,    \* Core NATS cancel signals in flight
  tomb,       \* tombstones of each sidecar
  inflight,   \* results in flight to the gateway
  msg,        \* JetStream: [state, n] of each copy
  hold,       \* phase of the copy at each sidecar
  excused,    \* history: items whose result or delivery budget was lost
  faults

collectorVars == <<collector, results, stale, taken, cached>>
gwVars == <<target, pub, initAcks, collector, results, oneshot, stale, taken,
            cached, fallback, handler, dur, tasks, tracked, blobs, cancelled>>
netVars == <<late, signals, inflight>>
workerVars == <<tomb, hold>>
vars == <<gwVars, netVars, workerVars, msg, excused, faults>>

Phases == {"none", "grouped", "queued", "running"}
HandlerStates == {"publishing", "waiting", "answered", "unavailable",
                  "timedout", "closed", "gone"}
Ended == HandlerStates \ {"publishing", "waiting"}

(* Every variable holds what its field holds in the code; no copy is       *)
(* delivered more often than max_deliver allows.                           *)
DeliveryTypeOK ==
  /\ target \in Lanes
  /\ pub \in [at : {"initial", "retry", "abort", "done", "cut"}, todo : SUBSET Items]
  /\ initAcks \in [Items -> {"none", "ok", "err"}]
  /\ collector \in BOOLEAN /\ results \subseteq Items
  /\ oneshot \in {"open", "sent", "closed"}
  /\ stale \subseteq Items /\ taken \in BOOLEAN /\ cached \subseteq Items
  /\ fallback \in [at : {"off", "armed", "publish", "done"},
                   todo : SUBSET Items, took : SUBSET Items, ok : BOOLEAN]
  /\ handler \in HandlerStates
  /\ dur \in {"off", "waiting", "ok", "err", "aborted"}
  /\ tasks \subseteq {"finish", "delete"}
  /\ tracked \subseteq Offloaded /\ blobs \subseteq Offloaded
  /\ cancelled \in BOOLEAN /\ late \in BOOLEAN
  /\ signals \subseteq Signals \X Workers
  /\ tomb \in [Workers -> SUBSET Signals]
  /\ inflight \subseteq Copies
  /\ msg \in [Copies -> [state : {"absent", "ready", "pending", "acked", "dead"},
                         n : 0..MaxDeliver]]
  /\ hold \in [Workers -> [Copies -> Phases]]
  /\ excused \subseteq Items
  /\ faults \in 0..MaxFaults

Init ==
  /\ target \in Targets
  /\ pub = [at |-> "initial", todo |-> Items]
  /\ initAcks = [i \in Items |-> "none"]
  /\ collector = TRUE /\ results = {} /\ oneshot = "open"
  /\ stale = {} /\ taken = FALSE /\ cached = {}
  /\ fallback = [at |-> "off", todo |-> {}, took |-> {}, ok |-> TRUE]
  /\ handler = "publishing" /\ dur = "off"
  /\ tasks = {} /\ tracked = {} /\ blobs = {}
  /\ cancelled = FALSE /\ late = FALSE
  /\ signals = {} /\ tomb = [w \in Workers |-> {}] /\ inflight = {}
  /\ msg = [c \in Copies |-> [state |-> "absent", n |-> 0]]
  /\ hold = [w \in Workers |-> [c \in Copies |-> "none"]]
  /\ excused = {} /\ faults = 0

Fault(kind) ==
  kind \in FaultKinds /\ faults < MaxFaults /\ faults' = faults + 1
NoFault == UNCHANGED faults

-----------------------------------------------------------------------------
(* JetStream, as the gateway and the sidecars use it.                      *)

Stored(m, S) == [c \in Copies |-> IF c \in S /\ m[c].state = "absent"
                                  THEN [m[c] EXCEPT !.state = "ready"] ELSE m[c]]
Put(c, m) == [msg EXCEPT ![c] = m]

(* Faulty variant of Requeued: the budget allows one delivery too many.    *)
RequeuedOnceMore(m) ==
  CASE m.state = "pending" /\ m.n <= MaxDeliver -> [m EXCEPT !.state = "ready"]
    [] OTHER -> m

(* A NAK or the end of the ACK wait: one more delivery, or none left.      *)
Requeued(m) ==
  CASE m.state = "pending" /\ m.n < MaxDeliver -> [m EXCEPT !.state = "ready"]
    [] m.state = "pending" /\ m.n = MaxDeliver -> [m EXCEPT !.state = "dead"]
    [] OTHER -> m
Requeue(c, m) ==
  /\ msg' = Put(c, Requeued(m))
  /\ excused' = IF Requeued(m).state = "dead" THEN excused \cup {ItemOf(c)} ELSE excused

-----------------------------------------------------------------------------
(* Publication: publish_work_inner and its guard.                          *)

PubLane == IF pub.at = "initial" THEN target ELSE "pool"

(* Removing the collector drops its fields and, unless it was completed,   *)
(* its sender.                                                             *)
Removed ==
  /\ collector' = FALSE
  /\ results' = {} /\ stale' = {} /\ taken' = FALSE /\ cached' = {}
DropSender == oneshot' = IF collector THEN "closed" ELSE oneshot

(* Faulty variant of Abandon: the collector goes, nothing tells the workers. *)
AbandonSilently == Removed /\ DropSender /\ UNCHANGED tasks

(* The removal is the ownership boundary: whoever removes the collector    *)
(* starts the cancel and the payload cleanup, the others do nothing.       *)
Abandon ==
  /\ Removed /\ DropSender
  /\ tasks' = IF collector THEN tasks \cup {"finish"} ELSE tasks

Offload(S) ==
  /\ tracked' = tracked \cup (S \cap Offloaded)
  /\ blobs' = blobs \cup (S \cap Offloaded)

(* publish_single: the payload is stored, then the message is published.   *)
(* The ACK arrives later; a missing ACK does not say the broker dropped it.*)
PublishItem(i) ==
  /\ handler = "publishing" /\ i \in pub.todo
  /\ pub' = [pub EXCEPT !.todo = @ \ {i}]
  /\ Offload({i})
  /\ \/ /\ NoFault
        /\ msg' = Stored(msg, {<<i, PubLane>>})
        /\ initAcks' = [initAcks EXCEPT ![i] = "ok"]
     \/ /\ Fault("publish")
        /\ msg' \in {msg, Stored(msg, {<<i, PubLane>>})}
        /\ initAcks' = [initAcks EXCEPT ![i] = "err"]
  /\ UNCHANGED <<target, collector, results, oneshot, stale, taken, cached,
                 fallback, handler, dur, tasks, cancelled, netVars, workerVars,
                 excused>>

(* One publish fails: the siblings in progress are dropped, some with the  *)
(* payload put and some already at the broker.  A direct dispatch retries  *)
(* every item on the pool subject; otherwise the request fails and the     *)
(* guard abandons it.                                                      *)
PublishFails(i) ==
  /\ handler = "publishing" /\ i \in pub.todo /\ Fault("publish")
  /\ \E put \in SUBSET (pub.todo \ {i}) : \E landed \in SUBSET put :
       /\ msg' = Stored(msg, landed \X {PubLane})
       /\ Offload(put \cup {i})
  /\ IF pub.at = "initial" /\ target = "direct"
     THEN /\ pub' = [at |-> "retry", todo |-> Items]
          /\ initAcks' = [j \in Items |-> "none"]
          /\ UNCHANGED <<handler, collectorVars, oneshot, tasks>>
     ELSE /\ pub' = [at |-> "done", todo |-> {}]
          /\ handler' = "unavailable" /\ Abandon /\ UNCHANGED initAcks
  /\ UNCHANGED <<target, fallback, dur, cancelled, netVars, workerVars, excused>>

(* Hand-over to the handler: cache the fallback payloads, start the ACK    *)
(* monitor and, for a direct dispatch, the fallback timer.                 *)
Handoff ==
  /\ pub' = [at |-> "done", todo |-> {}]
  /\ handler' = "waiting" /\ dur' = "waiting"
  /\ cached' = IF target = "direct" /\ collector THEN Items ELSE cached
  /\ fallback' = IF target = "direct" THEN [fallback EXCEPT !.at = "armed"]
                 ELSE fallback

PublishDone ==
  /\ handler = "publishing" /\ pub = [at |-> "initial", todo |-> {}]
  /\ Handoff
  /\ UNCHANGED <<target, initAcks, collector, results, oneshot, stale, taken,
                 tasks, tracked, blobs, cancelled, netVars, workerVars, msg,
                 excused, faults>>

(* The pool retry is durable: the direct copies are disowned and cancelled.*)
RetryConfirmed ==
  /\ handler = "publishing" /\ pub = [at |-> "retry", todo |-> {}]
  /\ \A i \in Items : initAcks[i] = "ok"
  /\ stale' = IF collector THEN Items ELSE stale
  /\ taken' = (taken \/ collector)
  /\ signals' = signals \cup {<<"batch", DirectWorker>>}
  /\ Handoff
  /\ UNCHANGED <<target, initAcks, collector, results, oneshot, tasks, tracked,
                 blobs, cancelled, late, inflight, workerVars, msg, excused, faults>>

(* The pool retry is not durable: abort_pending_dispatch runs inside the   *)
(* request, so the disconnect of the client can cut it short (pub "cut")   *)
(* after the removal of the collector and before the cancel.               *)
RetryUnconfirmed ==
  /\ handler = "publishing" /\ pub = [at |-> "retry", todo |-> {}]
  /\ \E i \in Items : initAcks[i] = "err"
  /\ pub' = [pub EXCEPT !.at = "abort"] /\ Removed /\ DropSender
  /\ UNCHANGED <<target, initAcks, fallback, handler, dur, tasks, tracked, blobs,
                 cancelled, netVars, workerVars, msg, excused, faults>>

SendWorkCancel ==
  /\ cancelled' = TRUE
  /\ signals' = signals \cup {<<"work", w>> : w \in Workers}

RetryAborts ==
  /\ handler = "publishing" /\ pub.at = "abort"
  /\ pub' = [pub EXCEPT !.at = "done"]
  /\ handler' = "unavailable"
  /\ SendWorkCancel /\ tasks' = tasks \cup {"delete"}
  /\ UNCHANGED <<target, initAcks, collectorVars, oneshot, fallback, dur, tracked,
                 blobs, late, inflight, workerVars, msg, excused, faults>>

-----------------------------------------------------------------------------
(* The waiting handler, the ACK monitor and the abandonment guard.         *)

handlerRest == <<target, pub, initAcks, fallback, tracked, blobs, cancelled,
                 netVars, workerVars, msg, excused>>

Monitor ==
  /\ dur = "waiting"
  /\ dur' = IF \E i \in Items : initAcks[i] = "err" THEN "err" ELSE "ok"
  /\ UNCHANGED <<handlerRest, collectorVars, oneshot, tasks, handler, faults>>

(* The monitor tells the handler first and then, in a task of its own,     *)
(* tears down and cancels, whoever removed the collector.                  *)
MonitorAbort ==
  /\ dur = "err" /\ dur' = "aborted"
  /\ Removed /\ DropSender /\ tasks' = tasks \cup {"finish"}
  /\ UNCHANGED <<handlerRest, handler, faults>>

ResultsReady == oneshot = "sent" /\ dur = "ok"

(* Results answer the request only after every publish ACK is confirmed.   *)
Answer ==
  /\ handler = "waiting" /\ ResultsReady
  /\ handler' = "answered"
  /\ UNCHANGED <<handlerRest, collectorVars, oneshot, tasks, dur, faults>>

DurabilityError ==
  /\ handler = "waiting" /\ dur \in {"err", "aborted"}
  /\ handler' = "unavailable" /\ Abandon
  /\ UNCHANGED <<handlerRest, dur, faults>>

ChannelClosed ==
  /\ handler = "waiting" /\ oneshot = "closed" /\ dur \in {"waiting", "ok"}
  /\ handler' = "closed" /\ Abandon
  /\ UNCHANGED <<handlerRest, dur, faults>>

(* The select is biased: the timeout is the last arm.                      *)
Timeout ==
  /\ handler = "waiting" /\ late
  /\ ~ResultsReady /\ oneshot # "closed" /\ dur \in {"waiting", "ok"}
  /\ handler' = "timedout" /\ Abandon
  /\ UNCHANGED <<handlerRest, dur, faults>>

(* The client disconnects: the handler task is dropped, and with it the    *)
(* publication if it is still running.                                     *)
ClientGone ==
  /\ handler \in {"publishing", "waiting"} /\ Fault("client")
  /\ handler' = "gone" /\ Abandon
  /\ pub' = [at |-> IF pub.at = "abort" THEN "cut" ELSE "done", todo |-> {}]
  /\ \E put \in SUBSET pub.todo : \E landed \in SUBSET put :
       /\ msg' = Stored(msg, landed \X {PubLane})
       /\ Offload(put)
  /\ UNCHANGED <<target, initAcks, fallback, dur, cancelled, netVars, workerVars,
                 excused>>

Deadline ==
  /\ ~late /\ late' = TRUE
  /\ UNCHANGED <<gwVars, signals, inflight, workerVars, msg, excused, faults>>

-----------------------------------------------------------------------------
(* The direct-dispatch fallback: one shot, to the pool subject.            *)

fallbackRest == <<target, pub, initAcks, collector, results, oneshot, cached,
                  handler, dur, tasks, tracked, blobs, cancelled, late, inflight,
                  workerVars, excused>>

(* take_direct_fallback_payloads, under the collector's lock.              *)
FallbackFires ==
  LET missing == cached \ results
      fires == collector /\ ~taken /\ missing # {}
  IN /\ fallback.at = "armed"
     /\ fallback' = IF fires THEN [fallback EXCEPT !.at = "publish", !.todo = missing,
                                                   !.took = missing]
                    ELSE [fallback EXCEPT !.at = "done"]
     /\ taken' = (taken \/ fires)
     /\ UNCHANGED <<fallbackRest, stale, signals, msg, faults>>

FallbackPublishes(i) ==
  /\ fallback.at = "publish" /\ i \in fallback.todo
  /\ \/ /\ NoFault
        /\ msg' = Stored(msg, {<<i, "pool">>})
        /\ fallback' = [fallback EXCEPT !.todo = @ \ {i}]
     \/ /\ Fault("publish")
        /\ msg' \in {msg, Stored(msg, {<<i, "pool">>})}
        /\ fallback' = [fallback EXCEPT !.todo = @ \ {i}, !.ok = FALSE]
     \/ /\ Fault("publish")           \* the publish itself fails: give up
        /\ fallback' = [fallback EXCEPT !.at = "done", !.todo = {}]
        /\ UNCHANGED msg
  /\ UNCHANGED <<fallbackRest, stale, taken, signals>>

(* Faulty variant of FallbackSettles: cancels the direct copies without the ACKs. *)
FallbackSettlesUnconfirmed ==
  /\ fallback.at = "publish" /\ fallback.todo = {}
  /\ fallback' = [fallback EXCEPT !.at = "done"]
  /\ stale' = IF collector THEN stale \cup fallback.took ELSE stale
  /\ signals' = signals \cup {<<"batch", DirectWorker>>}
  /\ UNCHANGED <<fallbackRest, taken, msg, faults>>

(* Only a fallback with every ACK disowns and cancels the direct copies.   *)
FallbackSettles ==
  /\ fallback.at = "publish" /\ fallback.todo = {}
  /\ fallback' = [fallback EXCEPT !.at = "done"]
  /\ stale' = IF fallback.ok /\ collector THEN stale \cup fallback.took ELSE stale
  /\ signals' = IF fallback.ok THEN signals \cup {<<"batch", DirectWorker>>} ELSE signals
  /\ UNCHANGED <<fallbackRest, taken, msg, faults>>

-----------------------------------------------------------------------------
(* Results, expiry and payload cleanup.                                    *)

collectorRest == <<target, pub, initAcks, fallback, handler, dur, workerVars, msg,
                   excused, faults>>

Accepts(c) ==
  collector /\ ~(LaneOf(c) = "direct" /\ ItemOf(c) \in stale)

(* handle_result, under the collector's lock: the first result of an item  *)
(* is kept; a result for no collector, or a disowned direct one, is not.   *)
HandleResult(c) ==
  /\ c \in inflight
  /\ inflight' = inflight \ {c}
  /\ results' = IF Accepts(c) THEN results \cup {ItemOf(c)} ELSE results
  /\ UNCHANGED <<collectorRest, collector, stale, taken, cached, oneshot, tasks,
                 tracked, blobs, cancelled, late, signals>>

(* handle_result, after the lock: the task that saw every result removes   *)
(* the collector, unless another owner has removed it in between.          *)
Complete ==
  /\ collector /\ results = Items
  /\ Removed /\ oneshot' = "sent" /\ tasks' = tasks \cup {"delete"}
  /\ UNCHANGED <<collectorRest, tracked, blobs, cancelled, netVars>>

(* Faulty variant of SweepExpired: cancels even when another owner has removed the *)
(* collector since the sweep listed it.                                    *)
SweepExpiredUnowned ==
  /\ late /\ Removed /\ DropSender /\ tasks' = tasks \cup {"finish"}
  /\ UNCHANGED <<collectorRest, tracked, blobs, cancelled, netVars>>

(* cleanup_expired: an expired collector is abandoned, never completed.    *)
SweepExpired ==
  /\ late /\ collector /\ Abandon
  /\ UNCHANGED <<collectorRest, tracked, blobs, cancelled, netVars>>

(* Faulty variant of SweepOrphans: does not look whether the request is pending. *)
SweepOrphansOfAny ==
  /\ tracked # {} /\ "delete" \notin tasks
  /\ tasks' = tasks \cup {"delete"}
  /\ UNCHANGED <<collectorRest, collectorVars, oneshot, tracked, blobs, cancelled,
                 netVars>>

(* cleanup_expired: payloads of a request no longer pending are retried.   *)
SweepOrphans ==
  /\ ~collector /\ tracked # {} /\ "delete" \notin tasks
  /\ tasks' = tasks \cup {"delete"}
  /\ UNCHANGED <<collectorRest, collectorVars, oneshot, tracked, blobs, cancelled,
                 netVars>>

(* finish_abandoned_work: the signal goes out before the payloads go.      *)
PublishWorkCancel ==
  /\ "finish" \in tasks
  /\ tasks' = (tasks \ {"finish"}) \cup {"delete"}
  /\ SendWorkCancel
  /\ UNCHANGED <<collectorRest, collectorVars, oneshot, tracked, blobs, late,
                 inflight>>

(* Faulty variant of DeletePayloads: forgets the keys before their deletes succeed. *)
DeletePayloadsForgets ==
  /\ "delete" \in tasks
  /\ tasks' = tasks \ {"delete"} /\ tracked' = {}
  /\ \/ blobs' = blobs \ tracked /\ NoFault
     \/ Fault("store") /\ \E failed \in (SUBSET tracked) \ {{}} :
                   blobs' = (blobs \ tracked) \cup (blobs \cap failed)
  /\ UNCHANGED <<target, pub, initAcks, collectorVars, oneshot, fallback, handler,
                 dur, cancelled, netVars, workerVars, msg, excused>>

(* cleanup_offloaded_payloads: a key is forgotten once its delete is done. *)
DeletePayloads ==
  /\ "delete" \in tasks
  /\ tasks' = tasks \ {"delete"}
  /\ \/ tracked' = {} /\ blobs' = blobs \ tracked /\ NoFault
     \/ /\ Fault("store")
        /\ \E failed \in (SUBSET tracked) \ {{}} :
             tracked' = failed /\ blobs' = (blobs \ tracked) \cup (blobs \cap failed)
  /\ UNCHANGED <<target, pub, initAcks, collectorVars, oneshot, fallback, handler,
                 dur, cancelled, netVars, workerVars, msg, excused>>
-----------------------------------------------------------------------------
(* The sidecar.  A copy moves grouped -> queued -> running,                *)
(* or leaves with an ACK, a NAK or (Outcome) neither.                      *)

sidecarRest == <<gwVars, late, signals, tomb>>

(* Faulty variant of Cancelled: a batch tombstone drops the pool fallback too. *)
CancelledAnyLane(w, c) == tomb[w] # {}

(* classify_cancellation: a request tombstone covers every copy, a batch   *)
(* tombstone only copies pulled from the worker's own stream.              *)
Cancelled(w, c) ==
  \/ "work" \in tomb[w]
  \/ "batch" \in tomb[w] /\ LaneOf(c) = "direct"

(* settle_if_cancelled, which asks settle_if_expired first.                *)
Dropped(w, c) == Cancelled(w, c) \/ (late /\ Enforce)

Goes(w, c, phase) == hold' = [hold EXCEPT ![w][c] = phase]

(* The settlement of a delivery m is best effort: a failed ACK or NAK is   *)
(* only logged, and the ACK wait takes over.                               *)
Acks(w, c, m) ==
  /\ Goes(w, c, "none")
  /\ \/ NoFault /\ msg' = Put(c, [m EXCEPT !.state = "acked"])
     \/ Fault("settle") /\ msg' = Put(c, m)
  /\ UNCHANGED excused

Naks(w, c, m) ==
  /\ Goes(w, c, "none") /\ UNCHANGED inflight
  /\ \/ NoFault /\ Requeue(c, m)
     \/ Fault("settle") /\ msg' = Put(c, m) /\ UNCHANGED excused

Drops(w, c, m) == Dropped(w, c) /\ Acks(w, c, m) /\ UNCHANGED inflight

Answers(w, c) == inflight' = inflight \cup {c} /\ Acks(w, c, msg[c])

(* publish_error: ACK once the error is out, NAK if it cannot be sent.     *)
AnswersError(w, c) ==
  \/ Answers(w, c)
  \/ /\ Fault("result") /\ Goes(w, c, "none")
     /\ Requeue(c, msg[c]) /\ UNCHANGED inflight

Advances(w, c, m, phase) ==
  Goes(w, c, phase) /\ msg' = Put(c, m) /\ UNCHANGED <<inflight, excused, faults>>

Eligible(w, c) == LaneOf(c) = "direct" => w = DirectWorker

(* A pull hands the copy to handle_batch: tombstones first, then NAK what  *)
(* this worker may not serve, then the model group.                        *)
Intake(w, c) ==
  /\ msg[c].state = "ready" /\ hold[w][c] = "none" /\ Eligible(w, c)
  /\ LET m == [state |-> "pending", n |-> msg[c].n + 1]
     IN \/ Drops(w, c, m)
        \/ ~Dropped(w, c) /\ (Naks(w, c, m) \/ Advances(w, c, m, "grouped"))
  /\ UNCHANGED sidecarRest

(* handle_model_group and the enqueue: the group waits for its model (and  *)
(* is parked while it loads); then the payload is fetched.  A missing      *)
(* payload, and a model that cannot load, are answered with an error.      *)
Prepare(w, c) ==
  /\ hold[w][c] = "grouped"
  /\ \/ Drops(w, c, msg[c])
     \/ /\ ~Dropped(w, c)
        /\ \/ Naks(w, c, msg[c])
           \/ AnswersError(w, c)
           \/ /\ ItemOf(c) \in blobs \/ ItemOf(c) \notin Offloaded
              /\ Advances(w, c, msg[c], "queued")
  /\ UNCHANGED sidecarRest

(* process_scheduler_contract_batch: the last look at the tombstones, then *)
(* the config barrier, then the backend.                                   *)
Dispatch(w, c) ==
  /\ hold[w][c] = "queued"
  /\ \/ Drops(w, c, msg[c])
     \/ ~Dropped(w, c) /\ (Naks(w, c, msg[c]) \/ Advances(w, c, msg[c], "running"))
  /\ UNCHANGED sidecarRest

(* apply_outcomes: publish and ACK; a result that cannot be published is   *)
(* left to the ACK wait; a retry, a backend error or no outcome is NAKed.  *)
Outcome(w, c) ==
  /\ hold[w][c] = "running"
  /\ \/ Answers(w, c)
     \/ Fault("result") /\ Goes(w, c, "none") /\ UNCHANGED <<msg, inflight, excused>>
     \/ Naks(w, c, msg[c])
  /\ UNCHANGED sidecarRest

(* spawn_work_cancel_subscriber, spawn_batch_direct_cancel_subscriber.     *)
Tombstone(s, w) ==
  /\ <<s, w>> \in signals
  /\ signals' = signals \ {<<s, w>>}
  /\ tomb' = [tomb EXCEPT ![w] = @ \cup {s}]
  /\ UNCHANGED <<gwVars, late, inflight, hold, msg, excused, faults>>

-----------------------------------------------------------------------------
(* Faults.                                                                 *)

(* The ACK wait ends: at once when nobody holds the copy, or while a       *)
(* worker still does because its progress ACKs stopped.                    *)
AckWait(c) ==
  /\ msg[c].state = "pending"
  /\ IF \E w \in Workers : hold[w][c] # "none" THEN Fault("wait") ELSE NoFault
  /\ Requeue(c, msg[c])
  /\ UNCHANGED <<gwVars, netVars, workerVars>>

LoseResult(c) ==
  /\ c \in inflight /\ Fault("result")
  /\ inflight' = inflight \ {c} /\ excused' = excused \cup {ItemOf(c)}
  /\ UNCHANGED <<gwVars, late, signals, workerVars, msg>>

LoseSignal(s, w) ==
  /\ <<s, w>> \in signals /\ Fault("signal")
  /\ signals' = signals \ {<<s, w>>}
  /\ UNCHANGED <<gwVars, late, inflight, workerVars, msg, excused>>

ForgetTombstone(s, w) ==
  /\ s \in tomb[w] /\ Fault("signal")
  /\ tomb' = [tomb EXCEPT ![w] = @ \ {s}]
  /\ UNCHANGED <<gwVars, netVars, hold, msg, excused>>

RestartSidecar(w) ==
  /\ Fault("restart")
  /\ hold' = [hold EXCEPT ![w] = [c \in Copies |-> "none"]]
  /\ tomb' = [tomb EXCEPT ![w] = {}]
  /\ UNCHANGED <<gwVars, netVars, msg, excused>>

-----------------------------------------------------------------------------
GatewayStep ==
  \/ \E i \in Items : PublishItem(i) \/ PublishFails(i) \/ FallbackPublishes(i)
  \/ PublishDone \/ RetryConfirmed \/ RetryUnconfirmed \/ RetryAborts
  \/ Monitor \/ MonitorAbort
  \/ Answer \/ DurabilityError \/ ChannelClosed \/ Timeout \/ ClientGone
  \/ FallbackFires \/ FallbackSettles
  \/ \E c \in Copies : HandleResult(c)
  \/ Complete \/ SweepExpired \/ SweepOrphans \/ PublishWorkCancel \/ DeletePayloads

SidecarStep ==
  \E w \in Workers :
    \/ \E c \in Copies : \/ Intake(w, c) \/ Prepare(w, c)
                         \/ Dispatch(w, c) \/ Outcome(w, c)
    \/ \E s \in Signals : Tombstone(s, w)

FaultStep ==
  \/ \E c \in Copies : AckWait(c) \/ LoseResult(c)
  \/ \E w \in Workers : \/ RestartSidecar(w)
                        \/ \E s \in Signals : LoseSignal(s, w) \/ ForgetTombstone(s, w)

Next == GatewayStep \/ SidecarStep \/ FaultStep \/ Deadline

Spec == Init /\ [][Next]_vars

(* Every task of the gateway and of the sidecars is scheduled, timers fire,*)
(* and JetStream redelivers; nothing is assumed of faults.                 *)
PublishTask == \/ \E i \in Items : PublishItem(i)
               \/ PublishDone \/ RetryConfirmed \/ RetryUnconfirmed \/ RetryAborts
FallbackTask == \/ FallbackFires \/ FallbackSettles
                \/ \E i \in Items : FallbackPublishes(i)
CopyTask(w, c) == Intake(w, c) \/ Prepare(w, c) \/ Dispatch(w, c) \/ Outcome(w, c)

Fairness ==
  /\ WF_vars(Deadline)
  /\ WF_vars(PublishTask) /\ WF_vars(FallbackTask)
  /\ WF_vars(Monitor \/ MonitorAbort)
  /\ WF_vars(Answer \/ DurabilityError \/ ChannelClosed \/ Timeout)
  /\ \A c \in Copies : WF_vars(HandleResult(c)) /\ WF_vars(AckWait(c))
  /\ WF_vars(Complete) /\ WF_vars(SweepExpired) /\ WF_vars(SweepOrphans)
  /\ WF_vars(PublishWorkCancel) /\ WF_vars(DeletePayloads)
  /\ \A w \in Workers, c \in Copies : WF_vars(CopyTask(w, c))
  /\ \A w \in Workers, s \in Signals : WF_vars(Tombstone(s, w))

FairSpec == Spec /\ Fairness

-----------------------------------------------------------------------------
Live(c) == msg[c].state \in {"ready", "pending"} \/ c \in inflight

(* No work is lost in the protocol itself: while the handler waits, before *)
(* the deadline and with every initial publish ACKed, each item without a  *)
(* result still has a copy the stream will deliver or a result on its way, *)
(* unless the transport lost a result or a copy ran out of deliveries.     *)
(* Cancelling the direct copies of a fallback (batch_cancel), discarding   *)
(* late direct results and redelivering held work never strand the request.*)
NoStrandedItem ==
  (collector /\ handler = "waiting" /\ ~late /\ \A i \in Items : initAcks[i] = "ok")
    => \A i \in Items \ (results \cup excused) : \E l \in Lanes : Live(<<i, l>>)

(* The offloaded payload of an item still to be answered is in the store   *)
(* as long as its request is pending and a message that names it exists:   *)
(* neither the orphan sweep nor a late cleanup removes it under a request. *)
PayloadWhilePending ==
  collector => \A i \in Offloaded \ results :
                 (\E l \in Lanes : msg[<<i, l>>].state # "absent") => i \in blobs

(* A request-wide cancel is published only for a request that is not, and  *)
(* never will be, answered with results: completion, timeout, disconnect,  *)
(* expiry sweep and ACK failure race for the collector and one of them     *)
(* wins.                                                                   *)
CancelMeansUnanswered == cancelled => handler # "answered" /\ ~ResultsReady

(* A request that ends without an answer while results are missing is      *)
(* eventually cancelled at the workers, whichever path ended it.  The one  *)
(* exception is a client that leaves while publish_work_inner aborts an    *)
(* unconfirmed pool retry: the abort dies with the request, and the guard  *)
(* finds no collector left to own.                                         *)
AbandonedIsCancelled ==
  (handler \in Ended \ {"answered"} /\ oneshot # "sent" /\ pub.at # "cut")
    ~> cancelled

(* Payloads do not leak: once the request is over its blobs and their      *)
(* tracking entries go, failed deletes included.                           *)
PayloadsReclaimed == <>[](blobs = {} /\ tracked = {})
=============================================================================
