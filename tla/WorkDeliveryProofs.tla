------------------------- MODULE WorkDeliveryProofs -------------------------
(* Proofs, for every number of items and workers, every delivery budget and *)
(* every number of faults of any kind, of what WorkDelivery promises.       *)
EXTENDS WorkDelivery, TLAPS

\* Most leaves are set reasoning without arithmetic, for Zenon; the others say SMT.
USE ZenonT(30), SMTT(30)
USE DeliveryAssumption DEF Lanes, Copies, ItemOf, LaneOf

-----------------------------------------------------------------------------
(* The stream. *)

Msg == [state : {"absent", "ready", "pending", "acked", "dead"}, n : 0..MaxDeliver]

\* A copy that may still be delivered has a delivery left.
WithinBudget(m) == m.state \in {"absent", "ready"} => m.n < MaxDeliver

TypeInv == DeliveryTypeOK /\ \A c \in Copies : WithinBudget(msg[c])

\* Storing copies keeps every message well formed and within its budget.
LEMMA StoredType ==
  ASSUME NEW m \in [Copies -> Msg], NEW S, \A c \in Copies : WithinBudget(m[c])
  PROVE  Stored(m, S) \in [Copies -> Msg] /\ \A c \in Copies : WithinBudget(Stored(m, S)[c])
BY SMT DEF Stored, Msg, WithinBudget

\* The end of an ACK wait leaves a well-formed message: deliverable if a
\* delivery is left, dead otherwise.
LEMMA RequeuedType ==
  ASSUME NEW m \in Msg, WithinBudget(m)
  PROVE  Requeued(m) \in Msg /\ WithinBudget(Requeued(m))
BY DEF Requeued, Msg, WithinBudget

\* Replacing one message by a good one keeps all of them good.
LEMMA PutType ==
  ASSUME TypeInv, NEW c \in Copies, NEW m \in Msg, WithinBudget(m)
  PROVE  Put(c, m) \in [Copies -> Msg] /\ \A d \in Copies : WithinBudget(Put(c, m)[d])
BY DEF Put, Msg, TypeInv, DeliveryTypeOK

\* What a sidecar's handling of copy c, starting from delivery m, does to the
\* types: the settlements keep them.
LEMMA SettleType ==
  ASSUME TypeInv, NEW w \in Workers, NEW c \in Copies, NEW m \in Msg, WithinBudget(m)
  PROVE  /\ Acks(w, c, m) => msg' \in [Copies -> Msg] /\ (\A d \in Copies : WithinBudget(msg'[d]))
         /\ Naks(w, c, m) => msg' \in [Copies -> Msg] /\ (\A d \in Copies : WithinBudget(msg'[d]))
<1>1. Put(c, m) \in [Copies -> Msg] /\ \A d \in Copies : WithinBudget(Put(c, m)[d])
  BY PutType
<1>2. [m EXCEPT !.state = "acked"] \in Msg /\ WithinBudget([m EXCEPT !.state = "acked"])
  BY DEF Msg, WithinBudget
<1>3. /\ Put(c, [m EXCEPT !.state = "acked"]) \in [Copies -> Msg]
      /\ \A d \in Copies : WithinBudget(Put(c, [m EXCEPT !.state = "acked"])[d])
  BY <1>2, PutType
<1>4. /\ Put(c, Requeued(m)) \in [Copies -> Msg]
      /\ \A d \in Copies : WithinBudget(Put(c, Requeued(m))[d])
  BY RequeuedType, PutType
<1> QED BY <1>1, <1>3, <1>4 DEF Acks, Naks, Requeue

-----------------------------------------------------------------------------
(* Types. *)

\* The part of the state a sidecar or a fault may change, for the type proof.
NetType ==
  /\ late \in BOOLEAN /\ signals \subseteq Signals \X Workers
  /\ tomb \in [Workers -> SUBSET Signals] /\ inflight \subseteq Copies
  /\ msg \in [Copies -> Msg] /\ (\A c \in Copies : WithinBudget(msg[c]))
  /\ hold \in [Workers -> [Copies -> Phases]] /\ excused \subseteq Items
  /\ faults \in 0..MaxFaults

GatewayType ==
  /\ target \in Lanes
  /\ pub \in [at : {"initial", "retry", "abort", "done", "cut"}, todo : SUBSET Items]
  /\ initAcks \in [Items -> {"none", "ok", "err"}]
  /\ collector \in BOOLEAN /\ results \subseteq Items
  /\ oneshot \in {"open", "sent", "closed"}
  /\ stale \subseteq Items /\ taken \in BOOLEAN /\ cached \subseteq Items
  /\ fallback \in [at : {"off", "armed", "publish", "done"},
                   todo : SUBSET Items, took : SUBSET Items, ok : BOOLEAN]
  /\ handler \in HandlerStates
  /\ dur \in {"off", "waiting", "ok", "err", "aborted"}
  /\ tasks \subseteq {"finish", "delete"}
  /\ tracked \subseteq Offloaded /\ blobs \subseteq Offloaded
  /\ cancelled \in BOOLEAN

\* The type invariant splits into the gateway's part and the rest.
LEMMA TypeSplit == TypeInv <=> GatewayType /\ NetType
BY DEF TypeInv, DeliveryTypeOK, GatewayType, NetType, Msg

\* The same split, after a step.
LEMMA TypeSplitNext == TypeInv' <=> GatewayType' /\ NetType'
BY DEF TypeInv, DeliveryTypeOK, GatewayType, NetType, Msg

\* A fault is counted within its bound.
LEMMA FaultType ==
  ASSUME TypeInv, NEW k, Fault(k) \/ NoFault
  PROVE  faults' \in 0..MaxFaults
BY SMT DEF TypeInv, DeliveryTypeOK, Fault, NoFault

\* Moving a copy to a phase keeps the type of hold.
LEMMA GoesType ==
  ASSUME TypeInv, NEW w \in Workers, NEW c \in Copies, NEW p \in Phases, Goes(w, c, p)
  PROVE  hold' \in [Workers -> [Copies -> Phases]]
BY DEF TypeInv, DeliveryTypeOK, Goes

\* Every step of a sidecar on a copy keeps the types.
LEMMA SidecarType ==
  ASSUME TypeInv, NEW w \in Workers, NEW c \in Copies, CopyTask(w, c)
  PROVE  TypeInv'
<1> USE DEF Phases
<1>1. UNCHANGED sidecarRest
  BY DEF CopyTask, Intake, Prepare, Dispatch, Outcome
<1>2. GatewayType'
  BY SMT, <1>1, TypeSplit DEF sidecarRest, gwVars, GatewayType
<1> DEFINE fresh == [state |-> "pending", n |-> msg[c].n + 1]
<1> DEFINE Effect == /\ inflight' \subseteq Copies /\ excused' \subseteq Items
                     /\ msg' \in [Copies -> Msg] /\ (\A d \in Copies : WithinBudget(msg'[d]))
                     /\ hold' \in [Workers -> [Copies -> Phases]]
                     /\ faults' \in 0..MaxFaults
<1>3. /\ msg[c] \in Msg /\ WithinBudget(msg[c])
      /\ inflight \subseteq Copies /\ excused \subseteq Items /\ faults \in 0..MaxFaults
  BY DEF TypeInv, DeliveryTypeOK, Msg
<1>4. ASSUME NEW m \in Msg, WithinBudget(m), Naks(w, c, m) PROVE Effect
  <2>1. hold' \in [Workers -> [Copies -> Phases]] BY <1>4, GoesType DEF Naks
  <2>2. faults' \in 0..MaxFaults BY <1>4, FaultType DEF Naks
  <2>3. msg' \in [Copies -> Msg] /\ (\A d \in Copies : WithinBudget(msg'[d]))
    BY <1>4, SettleType
  <2>4. inflight' \subseteq Copies /\ excused' \subseteq Items
    BY <1>3, <1>4 DEF Naks, Requeue
  <2> QED BY <2>1, <2>2, <2>3, <2>4
<1>5. ASSUME NEW m \in Msg, WithinBudget(m), Acks(w, c, m), inflight' \subseteq Copies
      PROVE Effect
  <2>1. hold' \in [Workers -> [Copies -> Phases]] BY <1>5, GoesType DEF Acks
  <2>2. faults' \in 0..MaxFaults BY <1>5, FaultType DEF Acks
  <2>3. msg' \in [Copies -> Msg] /\ (\A d \in Copies : WithinBudget(msg'[d]))
    BY <1>5, SettleType
  <2> QED BY <2>1, <2>2, <2>3, <1>3, <1>5 DEF Acks
<1>6. ASSUME NEW m \in Msg, WithinBudget(m), NEW p \in Phases, Advances(w, c, m, p)
      PROVE Effect
  <2>0. Goes(w, c, p) BY <1>6 DEF Advances
  <2>1. hold' \in [Workers -> [Copies -> Phases]] BY <1>6, <2>0, GoesType
  <2>2. msg' \in [Copies -> Msg] /\ (\A d \in Copies : WithinBudget(msg'[d]))
    BY <1>6, PutType DEF Advances
  <2> QED BY <2>1, <2>2, <1>3, <1>6 DEF Advances
<1>7. ASSUME NEW m \in Msg, WithinBudget(m), Drops(w, c, m) PROVE Effect
  BY <1>3, <1>5, <1>7 DEF Drops
<1>8. ASSUME Answers(w, c) PROVE Effect
  BY <1>3, <1>5, <1>8 DEF Answers
<1>9. ASSUME AnswersError(w, c) PROVE Effect
  <2>1. CASE Answers(w, c) BY <1>8, <2>1
  <2>2. CASE /\ Fault("result") /\ Goes(w, c, "none")
             /\ Requeue(c, msg[c]) /\ UNCHANGED inflight
    <3>1. hold' \in [Workers -> [Copies -> Phases]] BY <2>2, GoesType
    <3>2. faults' \in 0..MaxFaults BY <2>2, FaultType
    <3>3. Requeued(msg[c]) \in Msg /\ WithinBudget(Requeued(msg[c]))
      BY <1>3, RequeuedType
    <3>4. msg' \in [Copies -> Msg] /\ (\A d \in Copies : WithinBudget(msg'[d]))
      BY <3>3, <2>2, PutType DEF Requeue
    <3> QED BY <3>1, <3>2, <3>4, <2>2, <1>3 DEF Requeue
  <2> QED BY <1>9, <2>1, <2>2 DEF AnswersError
<1>10. CASE Intake(w, c)
  <2>1. fresh \in Msg /\ WithinBudget(fresh)
    BY SMT, <1>3, <1>10 DEF Intake, Msg, WithinBudget
  <2>2. Drops(w, c, fresh) \/ Naks(w, c, fresh) \/ Advances(w, c, fresh, "grouped")
    BY <1>10 DEF Intake
  <2> HIDE DEF fresh
  <2>3. Effect BY <2>1, <2>2, <1>4, <1>6, <1>7
  <2> QED BY <2>3, <1>1, <1>2, TypeSplit, TypeSplitNext DEF NetType, sidecarRest
<1>11. CASE Prepare(w, c) \/ Dispatch(w, c)
  <2>1. \/ Drops(w, c, msg[c]) \/ Naks(w, c, msg[c]) \/ AnswersError(w, c)
        \/ Advances(w, c, msg[c], "queued") \/ Advances(w, c, msg[c], "running")
    BY <1>11 DEF Prepare, Dispatch
  <2>2. Effect BY <2>1, <1>3, <1>4, <1>6, <1>7, <1>9
  <2> QED BY <2>2, <1>1, <1>2, TypeSplit, TypeSplitNext DEF NetType, sidecarRest
<1>12. CASE Outcome(w, c)
  <2>1. CASE Answers(w, c) \/ Naks(w, c, msg[c])
    <3>1. Effect BY <2>1, <1>3, <1>4, <1>8
    <3> QED BY <3>1, <1>1, <1>2, TypeSplit, TypeSplitNext DEF NetType, sidecarRest
  <2>2. CASE Fault("result") /\ Goes(w, c, "none") /\ UNCHANGED <<msg, inflight, excused>>
    <3>1. hold' \in [Workers -> [Copies -> Phases]] BY <2>2, GoesType
    <3>2. faults' \in 0..MaxFaults BY <2>2, FaultType
    <3> QED BY <3>1, <3>2, <2>2, <1>1, <1>2, TypeSplit, TypeSplitNext
            DEF NetType, sidecarRest
  <2> QED BY <1>12, <2>1, <2>2 DEF Outcome
<1> QED BY <1>10, <1>11, <1>12 DEF CopyTask

PubType == [at : {"initial", "retry", "abort", "done", "cut"}, todo : SUBSET Items]
FallbackType == [at : {"off", "armed", "publish", "done"},
                 todo : SUBSET Items, took : SUBSET Items, ok : BOOLEAN]

\* The hand-over to the handler keeps the types.
LEMMA HandoffType ==
  ASSUME TypeInv, Handoff
  PROVE  /\ pub' \in PubType /\ fallback' \in FallbackType
         /\ handler' \in HandlerStates /\ cached' \subseteq Items
         /\ dur' \in {"off", "waiting", "ok", "err", "aborted"}
<1>1. fallback \in FallbackType /\ cached \subseteq Items
  BY DEF TypeInv, DeliveryTypeOK, FallbackType
<1>2. [fallback EXCEPT !.at = "armed"] \in FallbackType BY <1>1 DEF FallbackType
<1>3. fallback' \in FallbackType BY <1>1, <1>2 DEF Handoff
<1>4. pub' \in PubType BY DEF Handoff, PubType
<1> QED BY <1>1, <1>3, <1>4 DEF Handoff, HandlerStates

\* Abandoning a request keeps the types of the collector's fields.
LEMMA AbandonType ==
  ASSUME TypeInv, Abandon
  PROVE  /\ collector' \in BOOLEAN /\ results' \subseteq Items
         /\ oneshot' \in {"open", "sent", "closed"} /\ tasks' \subseteq {"finish", "delete"}
         /\ stale' \subseteq Items /\ taken' \in BOOLEAN /\ cached' \subseteq Items
BY DEF TypeInv, DeliveryTypeOK, Abandon, Removed, DropSender

\* Storing payloads keeps them among the offloaded items.
LEMMA OffloadType ==
  ASSUME TypeInv, NEW S, Offload(S)
  PROVE  tracked' \subseteq Offloaded /\ blobs' \subseteq Offloaded
BY DEF TypeInv, DeliveryTypeOK, Offload

\* The cancel signals the gateway sends are addressed to workers.
LEMMA SignalType ==
  ASSUME TypeInv
  PROVE  /\ signals \cup {<<"batch", DirectWorker>>} \subseteq Signals \X Workers
         /\ SendWorkCancel => signals' \subseteq Signals \X Workers
<1>1. signals \subseteq Signals \X Workers BY DEF TypeInv, DeliveryTypeOK
<1>2. <<"batch", DirectWorker>> \in Signals \X Workers BY DEF Signals
<1>3. {<<"work", w>> : w \in Workers} \subseteq Signals \X Workers BY SMT DEF Signals
<1> QED BY <1>1, <1>2, <1>3 DEF SendWorkCancel

\* The type invariant, with the delivery budget that makes it inductive.
LEMMA TypeInductive == Spec => []TypeInv
<1>1. Init => TypeInv
  <2> SUFFICES ASSUME Init PROVE TypeInv OBVIOUS
  <2>1. GatewayType
    BY DEF Init, GatewayType, HandlerStates
  <2>2. msg \in [Copies -> Msg] /\ (\A c \in Copies : WithinBudget(msg[c]))
    BY SMT DEF Init, Msg, WithinBudget
  <2>3. NetType
    <3>1. tomb \in [Workers -> SUBSET Signals] BY DEF Init
    <3>2. hold \in [Workers -> [Copies -> Phases]] BY DEF Init, Phases
    <3>3. faults \in 0..MaxFaults BY SMT DEF Init
    <3> QED BY <2>2, <3>1, <3>2, <3>3 DEF Init, NetType
  <2> QED BY <2>1, <2>3, TypeSplit
<1>2. ASSUME TypeInv, [Next]_vars PROVE TypeInv'
  <2> USE <1>2
  <2>0. GatewayType /\ NetType BY TypeSplit
  <2>a. ASSUME NEW S PROVE
          /\ Stored(msg, S) \in [Copies -> Msg]
          /\ \A c \in Copies : WithinBudget(Stored(msg, S)[c])
    BY <2>0, StoredType DEF NetType
  <2>1. ASSUME NEW i \in Items, PublishItem(i) PROVE TypeInv'
    <3>1. faults' \in 0..MaxFaults BY <2>1, FaultType DEF PublishItem
    <3>2. msg' \in [Copies -> Msg] /\ (\A c \in Copies : WithinBudget(msg'[c]))
      BY SMT, <2>0, <2>1, <2>a DEF PublishItem, NetType
    <3>3. NetType'
      BY <2>0, <2>1, <3>1, <3>2 DEF PublishItem, NetType, netVars, workerVars
    <3>4. GatewayType'
      BY SMT, <2>0, <2>1 DEF PublishItem, GatewayType, Offload
    <3> QED BY <3>3, <3>4, TypeSplitNext
  <2>2. ASSUME NEW i \in Items, PublishFails(i) PROVE TypeInv'
    <3>1. faults' \in 0..MaxFaults BY <2>2, FaultType DEF PublishFails
    <3>2. msg' \in [Copies -> Msg] /\ (\A c \in Copies : WithinBudget(msg'[c]))
      <4>1. PICK landed : msg' = Stored(msg, landed \X {PubLane})
        BY <2>2 DEF PublishFails
      <4> QED BY <4>1, <2>a
    <3>3. NetType'
      BY <2>0, <2>2, <3>1, <3>2 DEF PublishFails, NetType, netVars, workerVars
    <3>4. GatewayType'
      <4>1. tracked' \subseteq Offloaded /\ blobs' \subseteq Offloaded
        BY <2>2, OffloadType DEF PublishFails
      <4>2. CASE pub.at = "initial" /\ target = "direct"
        <5>1. /\ pub' = [at |-> "retry", todo |-> Items]
              /\ initAcks' = [j \in Items |-> "none"]
              /\ UNCHANGED <<handler, collectorVars, oneshot, tasks, target, fallback, dur,
                             cancelled>>
          BY <2>2, <4>2 DEF PublishFails
        <5> QED BY SMT, <2>0, <4>1, <5>1 DEF GatewayType, collectorVars
      <4>3. CASE ~(pub.at = "initial" /\ target = "direct")
        <5>1. Abandon /\ handler' = "unavailable" /\ pub' = [at |-> "done", todo |-> {}]
          BY <2>2, <4>3 DEF PublishFails
        <5> QED BY <2>0, <2>2, <4>1, <4>3, <5>1, AbandonType
                DEF PublishFails, GatewayType, HandlerStates
      <4> QED BY <4>2, <4>3
    <3> QED BY <3>3, <3>4, TypeSplitNext
  <2>3. ASSUME NEW i \in Items, FallbackPublishes(i) PROVE TypeInv'
    <3>1. faults' \in 0..MaxFaults BY <2>3, FaultType DEF FallbackPublishes
    <3>2. msg' \in [Copies -> Msg] /\ (\A c \in Copies : WithinBudget(msg'[c]))
      BY SMT, <2>0, <2>3, <2>a DEF FallbackPublishes, NetType
    <3>3. NetType'
      BY <2>0, <2>3, <3>1, <3>2
      DEF FallbackPublishes, fallbackRest, NetType, workerVars
    <3>4. GatewayType'
      <4>1. fallback' \in FallbackType
        <5>1. fallback \in FallbackType BY <2>0 DEF GatewayType, FallbackType
        <5>2. /\ [fallback EXCEPT !.todo = @ \ {i}] \in FallbackType
              /\ [fallback EXCEPT !.todo = @ \ {i}, !.ok = FALSE] \in FallbackType
              /\ [fallback EXCEPT !.at = "done", !.todo = {}] \in FallbackType
          BY <5>1 DEF FallbackType
        <5> QED BY <2>3, <5>2 DEF FallbackPublishes
      <4> QED BY SMT, <2>0, <2>3, <4>1
              DEF FallbackPublishes, GatewayType, FallbackType, fallbackRest
    <3> QED BY <3>3, <3>4, TypeSplitNext
  <2>4. CASE PublishDone \/ RetryConfirmed
    <3>1. Handoff BY <2>4 DEF PublishDone, RetryConfirmed
    <3>2. GatewayType'
      <4>1. stale' \subseteq Items /\ taken' \in BOOLEAN
        BY <2>0, <2>4 DEF PublishDone, RetryConfirmed, GatewayType
      <4>2. UNCHANGED <<target, initAcks, collector, results, oneshot, tasks, tracked, blobs,
                        cancelled>>
        BY <2>4 DEF PublishDone, RetryConfirmed
      <4>3. /\ pub' \in PubType /\ fallback' \in FallbackType
            /\ handler' \in HandlerStates /\ cached' \subseteq Items
            /\ dur' \in {"off", "waiting", "ok", "err", "aborted"}
        BY <3>1, HandoffType
      <4> QED BY <2>0, <4>1, <4>2, <4>3 DEF GatewayType, PubType, FallbackType
    <3>3. NetType'
      BY <2>0, <2>4, SignalType
      DEF PublishDone, RetryConfirmed, NetType, netVars, workerVars
    <3> QED BY <3>2, <3>3, TypeSplitNext
  <2>5. CASE RetryUnconfirmed \/ RetryAborts
    <3>1. GatewayType'
      <4>1. CASE RetryUnconfirmed
        BY <2>0, <4>1
        DEF RetryUnconfirmed, Removed, DropSender, GatewayType, HandlerStates
      <4>2. CASE RetryAborts
        <5>1. pub' \in PubType BY <2>0, <4>2 DEF RetryAborts, GatewayType, PubType
        <5> QED BY <2>0, <4>2, <5>1
                DEF RetryAborts, SendWorkCancel, GatewayType, collectorVars, HandlerStates,
                    PubType
      <4> QED BY <2>5, <4>1, <4>2
    <3>2. NetType'
      BY <2>0, <2>5, SignalType
      DEF RetryUnconfirmed, RetryAborts, NetType, netVars, workerVars
    <3> QED BY <3>1, <3>2, TypeSplitNext
  <2>6. CASE Monitor \/ MonitorAbort \/ Answer
    <3>1. NetType'
      BY <2>0, <2>6
      DEF Monitor, MonitorAbort, Answer, NetType, handlerRest, netVars, workerVars
    <3>2. CASE Monitor
      BY <2>0, <3>1, <3>2, TypeSplitNext
      DEF Monitor, GatewayType, handlerRest, collectorVars
    <3>3. CASE MonitorAbort
      BY <2>0, <3>1, <3>3, TypeSplitNext
      DEF MonitorAbort, Removed, DropSender, GatewayType, handlerRest
    <3>4. CASE Answer
      BY <2>0, <3>1, <3>4, TypeSplitNext
      DEF Answer, GatewayType, handlerRest, collectorVars, HandlerStates
    <3> QED BY <2>6, <3>2, <3>3, <3>4
  <2>7. CASE DurabilityError \/ ChannelClosed \/ Timeout
    <3>1. Abandon /\ UNCHANGED <<handlerRest, dur, faults>> /\ handler' \in HandlerStates
      BY <2>7 DEF DurabilityError, ChannelClosed, Timeout, HandlerStates
    <3>2. NetType' BY <2>0, <3>1 DEF NetType, handlerRest, netVars, workerVars
    <3>3. GatewayType'
      BY <2>0, <3>1
      DEF Abandon, Removed, DropSender, GatewayType, handlerRest
    <3> QED BY <3>2, <3>3, TypeSplitNext
  <2>8. CASE ClientGone
    <3>1. faults' \in 0..MaxFaults BY <2>8, FaultType DEF ClientGone
    <3>2. msg' \in [Copies -> Msg] /\ (\A c \in Copies : WithinBudget(msg'[c]))
      BY <2>8, <2>a DEF ClientGone
    <3>3. NetType'
      BY <2>0, <2>8, <3>1, <3>2 DEF ClientGone, NetType, netVars, workerVars
    <3>4. GatewayType'
      BY <2>0, <2>8
      DEF ClientGone, GatewayType, Offload, Abandon, Removed, DropSender, HandlerStates
    <3> QED BY <3>3, <3>4, TypeSplitNext
  <2>9. CASE FallbackFires \/ FallbackSettles
    <3>1. fallback' \in FallbackType
      <4>1. fallback \in FallbackType /\ cached \ results \in SUBSET Items
        BY <2>0 DEF GatewayType, FallbackType
      <4>2. /\ [fallback EXCEPT !.at = "publish", !.todo = cached \ results,
                                !.took = cached \ results] \in FallbackType
            /\ [fallback EXCEPT !.at = "done"] \in FallbackType
        BY <4>1 DEF FallbackType
      <4> QED BY <2>9, <4>2 DEF FallbackFires, FallbackSettles
    <3>2. stale' \subseteq Items /\ taken' \in BOOLEAN
      BY <2>0, <2>9 DEF FallbackFires, FallbackSettles, GatewayType
    <3>3. GatewayType'
      BY SMT, <2>0, <2>9, <3>1, <3>2
      DEF FallbackFires, FallbackSettles, fallbackRest, GatewayType, FallbackType
    <3>4. NetType'
      BY <2>0, <2>9, SignalType
      DEF FallbackFires, FallbackSettles, fallbackRest, NetType, workerVars
    <3> QED BY <3>3, <3>4, TypeSplitNext
  <2>10. ASSUME NEW c \in Copies, HandleResult(c) PROVE TypeInv'
    BY <2>0, <2>10, TypeSplitNext
    DEF HandleResult, collectorRest, GatewayType, NetType, workerVars
  <2>11. CASE Complete \/ SweepExpired \/ SweepOrphans
    <3>1. NetType'
      BY <2>0, <2>11
      DEF Complete, SweepExpired, SweepOrphans, collectorRest, NetType, netVars, workerVars
    <3>2. CASE Complete
      BY <2>0, <3>1, <3>2, TypeSplitNext
      DEF Complete, Removed, collectorRest, GatewayType
    <3>3. CASE SweepExpired
      BY <2>0, <3>1, <3>3, TypeSplitNext
      DEF SweepExpired, Abandon, Removed, DropSender, collectorRest, collectorVars, GatewayType
    <3>4. CASE SweepOrphans
      BY <2>0, <3>1, <3>4, TypeSplitNext
      DEF SweepOrphans, collectorRest, collectorVars, GatewayType
    <3> QED BY <2>11, <3>2, <3>3, <3>4
  <2>12. CASE PublishWorkCancel
    <3>1. GatewayType'
      BY SMT, <2>0, <2>12
      DEF PublishWorkCancel, SendWorkCancel, collectorRest, collectorVars, GatewayType
    <3>2. NetType'
      BY <2>0, <2>12, SignalType
      DEF PublishWorkCancel, collectorRest, NetType, netVars, workerVars
    <3> QED BY <3>1, <3>2, TypeSplitNext
  <2>13. CASE DeletePayloads
    <3>1. faults' \in 0..MaxFaults BY <2>13, FaultType DEF DeletePayloads
    <3> QED BY <2>0, <2>13, <3>1, TypeSplitNext
            DEF DeletePayloads, collectorVars, GatewayType, NetType, netVars, workerVars
  <2>14. ASSUME NEW w \in Workers, NEW c \in Copies, CopyTask(w, c) PROVE TypeInv'
    BY <2>14, SidecarType
  <2>15. ASSUME NEW w \in Workers, NEW s \in Signals,
                Tombstone(s, w) \/ LoseSignal(s, w) \/ ForgetTombstone(s, w)
         PROVE TypeInv'
    <3>1. faults' \in 0..MaxFaults
      BY <2>0, <2>15, FaultType DEF Tombstone, LoseSignal, ForgetTombstone, NetType
    <3>2. tomb' \in [Workers -> SUBSET Signals] /\ signals' \subseteq Signals \X Workers
      BY SMT, <2>0, <2>15
      DEF Tombstone, LoseSignal, ForgetTombstone, NetType, netVars, workerVars
    <3>3. GatewayType'
      <4>1. UNCHANGED gwVars BY <2>15 DEF Tombstone, LoseSignal, ForgetTombstone
      <4> QED BY SMT, <2>0, <4>1 DEF gwVars, GatewayType
    <3>4. NetType'
      <4>1. UNCHANGED <<msg, hold, inflight, late, excused>>
        BY <2>15
        DEF Tombstone, LoseSignal, ForgetTombstone, netVars, workerVars
      <4> QED BY <2>0, <3>1, <3>2, <4>1 DEF NetType
    <3> QED BY <3>3, <3>4, TypeSplitNext
  <2>16. ASSUME NEW c \in Copies, AckWait(c) PROVE TypeInv'
    <3>1. faults' \in 0..MaxFaults BY <2>16, FaultType DEF AckWait
    <3>2. Requeued(msg[c]) \in Msg /\ WithinBudget(Requeued(msg[c]))
      BY <2>0, RequeuedType DEF NetType
    <3>3. msg' \in [Copies -> Msg] /\ (\A d \in Copies : WithinBudget(msg'[d]))
      BY <3>2, <2>16, PutType DEF AckWait, Requeue
    <3> QED BY <2>0, <2>16, <3>1, <3>3, TypeSplitNext
            DEF AckWait, Requeue, gwVars, GatewayType, NetType, netVars, workerVars
  <2>17. ASSUME NEW c \in Copies, LoseResult(c) PROVE TypeInv'
    <3>1. faults' \in 0..MaxFaults BY <2>17, FaultType DEF LoseResult
    <3> QED BY <2>0, <2>17, <3>1, TypeSplitNext
            DEF LoseResult, gwVars, GatewayType, NetType, workerVars
  <2>18. ASSUME NEW w \in Workers, RestartSidecar(w) PROVE TypeInv'
    <3>1. faults' \in 0..MaxFaults BY <2>18, FaultType DEF RestartSidecar
    <3> QED BY <2>0, <2>18, <3>1, TypeSplitNext
            DEF RestartSidecar, gwVars, GatewayType, NetType, netVars, Phases
  <2>19. CASE Deadline
    BY <2>0, <2>19, TypeSplitNext
    DEF Deadline, gwVars, GatewayType, NetType, workerVars
  <2>20. CASE UNCHANGED vars
    BY <2>0, <2>20, TypeSplitNext
    DEF vars, gwVars, GatewayType, NetType, netVars, workerVars
  <2> QED
    BY <2>1, <2>2, <2>3, <2>4, <2>5, <2>6, <2>7, <2>8, <2>9, <2>10, <2>11, <2>12, <2>13,
       <2>14, <2>15, <2>16, <2>17, <2>18, <2>19, <2>20
    DEF Next, GatewayStep, SidecarStep, FaultStep, CopyTask
<1> QED BY <1>1, <1>2, PTL DEF Spec

\* Every variable keeps its type, and a copy is delivered at most MaxDeliver
\* times, however NAKs, ACK waits, restarts and lost settlements interleave.
THEOREM DeliveryTypeCorrect == Spec => []DeliveryTypeOK
<1>1. TypeInv => DeliveryTypeOK BY DEF TypeInv
<1> QED BY <1>1, TypeInductive, PTL

-----------------------------------------------------------------------------
(* Who owns the request. *)

\* The sidecars, the faults and the clock leave the gateway's state alone.
LEMMA OthersLeaveGateway ==
  ASSUME SidecarStep \/ FaultStep \/ Deadline \/ UNCHANGED vars
  PROVE  UNCHANGED gwVars
<1>1. ASSUME NEW w \in Workers, NEW c \in Copies, CopyTask(w, c) PROVE UNCHANGED gwVars
  BY <1>1 DEF CopyTask, Intake, Prepare, Dispatch, Outcome, sidecarRest
<1>2. CASE SidecarStep BY <1>1, <1>2 DEF SidecarStep, Tombstone, CopyTask
<1>3. CASE FaultStep
  BY <1>3
  DEF FaultStep, AckWait, LoseResult, RestartSidecar, LoseSignal, ForgetTombstone
<1>4. CASE Deadline \/ UNCHANGED vars BY <1>4 DEF Deadline, vars
<1> QED BY <1>2, <1>3, <1>4

\* While the collector is there its sender is open and no cleanup is under way;
\* a cancel belongs to a request whose sender was dropped, whose ACKs failed, or
\* whose publication ended without ever being handed over.
OwnerInv ==
  /\ collector => oneshot = "open" /\ tasks = {} /\ ~cancelled
  /\ handler = "answered" => oneshot = "sent" /\ dur = "ok"
  /\ handler = "publishing" => dur = "off"
  /\ pub.at = "abort" => ~collector
  /\ (cancelled \/ "finish" \in tasks) =>
       \/ oneshot = "closed" \/ dur \in {"err", "aborted"}
       \/ dur = "off" /\ handler \in Ended

\* The ownership invariant: the removal of the collector decides who ends it.
LEMMA OwnerInductive == Spec => []OwnerInv
<1> USE DEF OwnerInv, HandlerStates, Ended
<1>1. Init => OwnerInv BY SMT DEF Init
<1>2. ASSUME TypeInv, OwnerInv, [Next]_vars PROVE OwnerInv'
  <2> USE <1>2
  <2>0. /\ collector \in BOOLEAN /\ cancelled \in BOOLEAN /\ handler \in HandlerStates
        /\ oneshot \in {"open", "sent", "closed"} /\ tasks \subseteq {"finish", "delete"}
        /\ dur \in {"off", "waiting", "ok", "err", "aborted"} /\ pub \in PubType
    BY DEF TypeInv, DeliveryTypeOK, PubType
  <2>1. ASSUME NEW i \in Items, PublishItem(i) \/ FallbackPublishes(i) PROVE OwnerInv'
    <3>1. pub'.at = pub.at
      BY <2>0, <2>1 DEF PublishItem, FallbackPublishes, fallbackRest, PubType
    <3>2. UNCHANGED <<collector, oneshot, tasks, cancelled, handler, dur>>
      BY <2>1 DEF PublishItem, FallbackPublishes, fallbackRest
    <3> QED BY <3>1, <3>2
  <2>2. ASSUME NEW i \in Items, PublishFails(i) PROVE OwnerInv'
    <3>0. \/ pub' = [at |-> "retry", todo |-> Items]
          \/ pub' = [at |-> "done", todo |-> {}]
      BY <2>2 DEF PublishFails
    <3>1. pub'.at \in {"retry", "done"} /\ UNCHANGED <<dur, cancelled>>
      <4>1. UNCHANGED <<dur, cancelled>> BY <2>2 DEF PublishFails
      <4> QED BY SMT, <3>0, <4>1
    <3>2. CASE UNCHANGED <<handler, collectorVars, oneshot, tasks>>
      BY <3>1, <3>2 DEF collectorVars
    <3>3. CASE handler' = "unavailable" /\ Abandon
      BY <2>0, <3>1, <3>3 DEF Abandon, Removed, DropSender
    <3> QED BY <2>2, <3>2, <3>3 DEF PublishFails
  <2>3. CASE PublishDone \/ RetryConfirmed
    BY SMT, <2>0, <2>3 DEF PublishDone, RetryConfirmed, Handoff
  <2>4. CASE RetryUnconfirmed
    BY <2>0, <2>4 DEF RetryUnconfirmed, Removed, DropSender
  <2>5. CASE RetryAborts
    BY <2>0, <2>5 DEF RetryAborts, SendWorkCancel, collectorVars
  <2>6. CASE Monitor \/ MonitorAbort
    <3>1. CASE Monitor
      <4>1. dur = "waiting" /\ dur' \in {"ok", "err"} BY <3>1 DEF Monitor
      <4>2. UNCHANGED <<pub, collector, oneshot, tasks, cancelled, handler>>
        BY <3>1 DEF Monitor, handlerRest, collectorVars
      <4> QED BY <2>0, <4>1, <4>2
    <3>2. CASE MonitorAbort
      BY <2>0, <3>2 DEF MonitorAbort, Removed, DropSender, handlerRest
    <3> QED BY <2>6, <3>1, <3>2
  <2>7. CASE Answer
    BY <2>0, <2>7 DEF Answer, ResultsReady, handlerRest, collectorVars
  <2>8. CASE DurabilityError \/ ChannelClosed \/ Timeout
    BY SMT, <2>0, <2>8 DEF DurabilityError, ChannelClosed, Timeout, Abandon, Removed, DropSender,
                      handlerRest
  <2>9. CASE ClientGone
    BY <2>0, <2>9 DEF ClientGone, Abandon, Removed, DropSender
  <2>10. CASE FallbackFires \/ FallbackSettles
    BY SMT, <2>0, <2>10 DEF FallbackFires, FallbackSettles, fallbackRest
  <2>11. ASSUME NEW c \in Copies, HandleResult(c) PROVE OwnerInv'
    BY <2>0, <2>11 DEF HandleResult, collectorRest
  <2>12. CASE Complete \/ SweepExpired \/ SweepOrphans
    BY SMT, <2>0, <2>12 DEF Complete, SweepExpired, SweepOrphans, Abandon, Removed, DropSender,
                       collectorRest, collectorVars
  <2>13. CASE PublishWorkCancel \/ DeletePayloads
    BY SMT, <2>0, <2>13 DEF PublishWorkCancel, SendWorkCancel, DeletePayloads, collectorRest,
                       collectorVars
  <2>14. CASE SidecarStep \/ FaultStep \/ Deadline \/ UNCHANGED vars
    BY SMT, <2>14, OthersLeaveGateway DEF gwVars
  <2> QED
    BY <2>1, <2>2, <2>3, <2>4, <2>5, <2>6, <2>7, <2>8, <2>9, <2>10, <2>11, <2>12, <2>13,
       <2>14 DEF Next, GatewayStep
<1> QED BY <1>1, <1>2, TypeInductive, PTL DEF Spec

\* A request that was cancelled at the workers is never answered with results:
\* completion, timeout, disconnect, sweep and ACK failure cannot both win.
THEOREM CancelledIsUnanswered == Spec => []CancelMeansUnanswered
<1>1. OwnerInv => CancelMeansUnanswered
  BY DEF OwnerInv, CancelMeansUnanswered, ResultsReady
<1> QED BY <1>1, OwnerInductive, PTL

-----------------------------------------------------------------------------
(* What a step does to the stream. *)

Present(c) == msg[c].state # "absent"

\* A sidecar holds only copies that were published.
HoldInv == \A w \in Workers, c \in Copies : hold[w][c] # "none" => Present(c)

\* The gateway only adds copies to the stream, ready for delivery.
GatewayOnStream ==
  /\ UNCHANGED <<hold, tomb, late, excused>>
  /\ \A c \in Copies : /\ msg[c].state # "absent" => msg'[c] = msg[c]
                       /\ msg'[c] = msg[c] \/ msg'[c].state = "ready"

\* Storing a set of copies makes exactly the absent ones of the set ready.
LEMMA StoredAdds ==
  ASSUME TypeInv, NEW S, NEW c \in Copies
  PROVE  /\ msg[c].state # "absent" => Stored(msg, S)[c] = msg[c]
         /\ Stored(msg, S)[c] = msg[c] \/ Stored(msg, S)[c].state = "ready"
         /\ c \notin S => Stored(msg, S)[c] = msg[c]
         /\ c \in S => Stored(msg, S)[c].state # "absent"
<1>1. msg[c] \in Msg BY DEF TypeInv, DeliveryTypeOK, Msg
<1> QED BY <1>1 DEF Stored, Msg

\* No gateway step changes a copy the stream has, or a sidecar's state.
LEMMA GatewayStores == ASSUME TypeInv, GatewayStep PROVE GatewayOnStream
<1>0. ASSUME NEW S, msg' = Stored(msg, S) \/ msg' = msg, UNCHANGED <<hold, tomb, late, excused>>
      PROVE  GatewayOnStream
  <2>1. CASE msg' = Stored(msg, S)
    <3>1. \A c \in Copies : /\ msg[c].state # "absent" => msg'[c] = msg[c]
                            /\ msg'[c] = msg[c] \/ msg'[c].state = "ready"
      BY <2>1, StoredAdds
    <3> QED BY <1>0, <3>1 DEF GatewayOnStream
  <2> QED BY <1>0, <2>1 DEF GatewayOnStream
<1>1. ASSUME NEW i \in Items, PublishItem(i) PROVE GatewayOnStream
  BY <1>0, <1>1 DEF PublishItem, netVars, workerVars
<1>2. ASSUME NEW i \in Items, PublishFails(i) PROVE GatewayOnStream
  <2>1. PICK S : msg' = Stored(msg, S) BY <1>2 DEF PublishFails
  <2>2. UNCHANGED <<hold, tomb, late, excused>>
    BY <1>2 DEF PublishFails, netVars, workerVars
  <2> QED BY <1>0, <2>1, <2>2
<1>3. ASSUME NEW i \in Items, FallbackPublishes(i) PROVE GatewayOnStream
  BY <1>0, <1>3 DEF FallbackPublishes, fallbackRest, workerVars
<1>4. CASE ClientGone
  <2>1. PICK S : msg' = Stored(msg, S) BY <1>4 DEF ClientGone
  <2>2. UNCHANGED <<hold, tomb, late, excused>>
    BY <1>4 DEF ClientGone, netVars, workerVars
  <2> QED BY <1>0, <2>1, <2>2
<1>5. CASE UNCHANGED <<msg, hold, tomb, late, excused>>
  BY <1>5 DEF GatewayOnStream
<1>6. CASE PublishDone \/ RetryConfirmed \/ RetryUnconfirmed \/ RetryAborts
  BY <1>5, <1>6
  DEF PublishDone, RetryConfirmed, RetryUnconfirmed, RetryAborts, netVars, workerVars
<1>7. CASE \/ Monitor \/ MonitorAbort \/ Answer \/ DurabilityError \/ ChannelClosed
           \/ Timeout
  BY <1>5, <1>7 DEF Monitor, MonitorAbort, Answer, DurabilityError, ChannelClosed, Timeout,
                    handlerRest, netVars, workerVars
<1>8. CASE FallbackFires \/ FallbackSettles
  BY <1>5, <1>8 DEF FallbackFires, FallbackSettles, fallbackRest, workerVars
<1>9. ASSUME NEW c \in Copies, HandleResult(c) PROVE GatewayOnStream
  BY <1>5, <1>9 DEF HandleResult, collectorRest, workerVars
<1>10. CASE \/ Complete \/ SweepExpired \/ SweepOrphans \/ PublishWorkCancel
            \/ DeletePayloads
  BY <1>5, <1>10 DEF Complete, SweepExpired, SweepOrphans, PublishWorkCancel,
                     DeletePayloads, collectorRest, netVars, workerVars
<1> QED BY <1>1, <1>2, <1>3, <1>4, <1>6, <1>7, <1>8, <1>9, <1>10 DEF GatewayStep

\* A sidecar's step on copy c touches that copy only.  Afterwards the copy is
\* answered, was dropped with reason, is still in the stream, ran out of
\* deliveries, or is as it was.
SidecarOnStream(w, c) ==
  /\ UNCHANGED <<gwVars, late, signals, tomb>>
  /\ \A d \in Copies : d # c => msg'[d] = msg[d]
  /\ \A v \in Workers, d \in Copies : d # c => hold'[v][d] = hold[v][d]
  /\ msg[c].state # "absent" /\ msg'[c].state # "absent"
  /\ inflight \subseteq inflight' /\ excused \subseteq excused'
  /\ \/ c \in inflight' \/ Dropped(w, c) \/ msg'[c].state \in {"ready", "pending"}
     \/ ItemOf(c) \in excused' \/ msg'[c] = msg[c]
  /\ msg'[c].state = "dead" => msg[c].state = "dead" \/ ItemOf(c) \in excused'

\* A requeued copy is as it was, ready or dead, and never absent.
LEMMA RequeuedCases ==
  ASSUME NEW m \in Msg, m.state # "absent"
  PROVE  /\ Requeued(m).state # "absent"
         /\ Requeued(m) = m \/ Requeued(m).state \in {"ready", "dead"}
         /\ m.state = "pending" => Requeued(m).state \in {"ready", "dead"}
BY SMT DEF Requeued, Msg

\* Intake, Prepare, Dispatch and Outcome have the effect SidecarOnStream.
LEMMA SidecarSteps ==
  ASSUME TypeInv, HoldInv, NEW w \in Workers, NEW c \in Copies, CopyTask(w, c)
  PROVE  SidecarOnStream(w, c)
<1>1. UNCHANGED <<gwVars, late, signals, tomb>>
  BY DEF CopyTask, Intake, Prepare, Dispatch, Outcome, sidecarRest
<1>2. msg[c] \in Msg /\ msg \in [Copies -> Msg] /\ hold \in [Workers -> [Copies -> Phases]]
  BY DEF TypeInv, DeliveryTypeOK, Msg
<1>3. msg[c].state # "absent"
  BY DEF HoldInv, Present, CopyTask, Intake, Prepare, Dispatch, Outcome
<1>4. ASSUME NEW m, msg' = Put(c, m)
      PROVE  msg'[c] = m /\ \A d \in Copies : d # c => msg'[d] = msg[d]
  BY <1>2, <1>4 DEF Put
<1>5. ASSUME NEW p, Goes(w, c, p)
      PROVE  \A v \in Workers, d \in Copies : d # c => hold'[v][d] = hold[v][d]
  BY <1>2, <1>5 DEF Goes
<1> DEFINE From(m) == m \in Msg /\ (m = msg[c] \/ m.state = "pending")
<1>6. ASSUME NEW m, From(m), Drops(w, c, m) PROVE SidecarOnStream(w, c)
  <2>1. Dropped(w, c) /\ UNCHANGED <<inflight, excused>> /\ Goes(w, c, "none")
    BY <1>6 DEF Drops, Acks
  <2>2. msg' = Put(c, m) \/ msg' = Put(c, [m EXCEPT !.state = "acked"])
    BY <1>6 DEF Drops, Acks
  <2>3. [m EXCEPT !.state = "acked"].state = "acked" BY <1>6 DEF Msg
  <2> QED BY <1>1, <1>3, <1>4, <1>5, <1>6, <2>1, <2>2, <2>3 DEF SidecarOnStream
<1>7. ASSUME Answers(w, c) PROVE SidecarOnStream(w, c)
  <2>1. inflight' = inflight \cup {c} /\ UNCHANGED excused /\ Goes(w, c, "none")
    BY <1>7 DEF Answers, Acks
  <2>2. msg' = Put(c, msg[c]) \/ msg' = Put(c, [msg[c] EXCEPT !.state = "acked"])
    BY <1>7 DEF Answers, Acks
  <2>3. [msg[c] EXCEPT !.state = "acked"].state = "acked" BY <1>2 DEF Msg
  <2> QED BY <1>1, <1>3, <1>4, <1>5, <2>1, <2>2, <2>3 DEF SidecarOnStream
<1>8. ASSUME NEW m, From(m), Requeue(c, m), UNCHANGED inflight, Goes(w, c, "none")
      PROVE  SidecarOnStream(w, c)
  <2>1. msg'[c] = Requeued(m) /\ \A d \in Copies : d # c => msg'[d] = msg[d]
    BY <1>4, <1>8 DEF Requeue
  <2>2. Requeued(m).state = "dead" => ItemOf(c) \in excused' BY <1>8 DEF Requeue
  <2>3. excused \subseteq excused' BY <1>8 DEF Requeue
  <2>4. m.state # "absent" BY <1>3, <1>8
  <2> QED BY <1>1, <1>3, <1>5, <1>8, <2>1, <2>2, <2>3, <2>4, RequeuedCases
          DEF SidecarOnStream
<1>9. ASSUME NEW m, From(m), msg' = Put(c, m), UNCHANGED <<inflight, excused>>,
             NEW p, Goes(w, c, p)
      PROVE  SidecarOnStream(w, c)
  <2>1. msg'[c] = m /\ \A d \in Copies : d # c => msg'[d] = msg[d] BY <1>4, <1>9
  <2>2. \A v \in Workers, d \in Copies : d # c => hold'[v][d] = hold[v][d]
    BY <1>5, <1>9
  <2>3. m = msg[c] \/ m.state = "pending" BY <1>9
  <2>4. inflight \subseteq inflight' /\ excused \subseteq excused' BY <1>9
  <2> QED BY <1>1, <1>3, <2>1, <2>2, <2>3, <2>4 DEF SidecarOnStream
<1>10. ASSUME NEW m, From(m), Naks(w, c, m) PROVE SidecarOnStream(w, c)
  BY <1>8, <1>9, <1>10 DEF Naks
<1>11. ASSUME NEW m, From(m), NEW p, Advances(w, c, m, p) PROVE SidecarOnStream(w, c)
  BY <1>9, <1>11 DEF Advances
<1>12. From(msg[c]) BY <1>2
<1>13. AnswersError(w, c) => SidecarOnStream(w, c)
  BY <1>7, <1>8, <1>12 DEF AnswersError
<1>14. CASE Intake(w, c)
  <2> DEFINE m == [state |-> "pending", n |-> msg[c].n + 1]
  <2>1. From(m)
    BY SMT, <1>2, <1>14 DEF Intake, Msg, TypeInv, WithinBudget
  <2>2. Drops(w, c, m) \/ Naks(w, c, m) \/ Advances(w, c, m, "grouped")
    BY <1>14 DEF Intake
  <2> HIDE DEF m, From
  <2> QED BY <2>1, <2>2, <1>6, <1>10, <1>11
<1>15. CASE Prepare(w, c) \/ Dispatch(w, c)
  <2>1. \/ Drops(w, c, msg[c]) \/ Naks(w, c, msg[c]) \/ AnswersError(w, c)
        \/ Advances(w, c, msg[c], "queued") \/ Advances(w, c, msg[c], "running")
    BY <1>15 DEF Prepare, Dispatch
  <2> HIDE DEF From
  <2> QED BY <2>1, <1>6, <1>10, <1>11, <1>12, <1>13
<1>16. CASE Outcome(w, c)
  <2>1. CASE Answers(w, c) \/ Naks(w, c, msg[c])
    BY <2>1, <1>7, <1>10, <1>12
  <2>2. CASE Goes(w, c, "none") /\ UNCHANGED <<msg, inflight, excused>>
    <3>1. \A v \in Workers, d \in Copies : d # c => hold'[v][d] = hold[v][d]
      BY <1>5, <2>2
    <3> QED BY <1>1, <1>3, <2>2, <3>1 DEF SidecarOnStream
  <2> QED BY <1>16, <2>1, <2>2 DEF Outcome
<1> QED BY <1>14, <1>15, <1>16 DEF CopyTask

\* The end of an ACK wait makes the copy deliverable again, or dead and excused.
LEMMA AckWaitSteps ==
  ASSUME TypeInv, NEW c \in Copies, AckWait(c)
  PROVE  /\ UNCHANGED <<gwVars, late, signals, inflight, tomb, hold>>
         /\ \A d \in Copies : d # c => msg'[d] = msg[d]
         /\ msg[c].state = "pending" /\ excused \subseteq excused'
         /\ \/ msg'[c].state = "ready"
            \/ msg'[c].state = "dead" /\ ItemOf(c) \in excused'
<1>1. msg[c] \in Msg /\ msg \in [Copies -> Msg] BY DEF TypeInv, DeliveryTypeOK, Msg
<1>2. msg'[c] = Requeued(msg[c]) /\ \A d \in Copies : d # c => msg'[d] = msg[d]
  BY <1>1 DEF AckWait, Requeue, Put
<1>3. msg[c].state = "pending" BY DEF AckWait
<1>4. Requeued(msg[c]).state \in {"ready", "dead"} BY <1>1, <1>3, RequeuedCases
<1>5. /\ Requeued(msg[c]).state = "dead" => ItemOf(c) \in excused'
      /\ excused \subseteq excused'
  BY DEF AckWait, Requeue
<1>6. UNCHANGED <<gwVars, late, signals, inflight, tomb, hold>>
  BY DEF AckWait, netVars, workerVars
<1> QED BY <1>2, <1>3, <1>4, <1>5, <1>6

\* Sidecars hold only published copies.
LEMMA HoldInductive == Spec => []HoldInv
<1>1. Init => HoldInv BY SMT DEF Init, HoldInv
<1>2. ASSUME TypeInv, HoldInv, [Next]_vars PROVE HoldInv'
  <2> USE <1>2
  <2>0. hold \in [Workers -> [Copies -> Phases]] BY DEF TypeInv, DeliveryTypeOK
  <2>1. CASE GatewayStep
    BY SMT, <2>1, GatewayStores DEF GatewayOnStream, HoldInv, Present
  <2>2. ASSUME NEW w \in Workers, NEW c \in Copies, CopyTask(w, c) PROVE HoldInv'
    BY SMT, <2>2, SidecarSteps DEF SidecarOnStream, HoldInv, Present
  <2>3. ASSUME NEW w \in Workers, NEW s \in Signals,
               Tombstone(s, w) \/ LoseSignal(s, w) \/ ForgetTombstone(s, w)
        PROVE HoldInv'
    BY SMT, <2>3 DEF Tombstone, LoseSignal, ForgetTombstone, HoldInv, Present, workerVars
  <2>4. ASSUME NEW c \in Copies, AckWait(c) PROVE HoldInv'
    BY SMT, <2>4, AckWaitSteps DEF HoldInv, Present
  <2>5. ASSUME NEW c \in Copies, LoseResult(c) PROVE HoldInv'
    BY <2>5 DEF LoseResult, HoldInv, Present, workerVars
  <2>6. ASSUME NEW w \in Workers, RestartSidecar(w) PROVE HoldInv'
    <3>1. \A v \in Workers, c \in Copies : hold'[v][c] # "none" => hold[v][c] # "none"
      BY <2>0, <2>6 DEF RestartSidecar
    <3>2. UNCHANGED msg BY <2>6 DEF RestartSidecar
    <3> QED BY <3>1, <3>2 DEF HoldInv, Present
  <2>7. CASE Deadline \/ UNCHANGED vars
    BY <2>7 DEF Deadline, vars, workerVars, HoldInv, Present
  <2> QED BY <2>1, <2>2, <2>3, <2>4, <2>5, <2>6, <2>7
          DEF Next, SidecarStep, FaultStep, CopyTask
<1> QED BY <1>1, <1>2, TypeInductive, PTL DEF Spec

-----------------------------------------------------------------------------
(* Payloads. *)

\* While the request is pending, an offloaded payload that is not in the store
\* belongs to an item whose publication is still to come, and no message names it.
PayloadInv ==
  /\ handler = "publishing" => pub.at \in {"initial", "retry", "abort"}
  /\ fallback.at # "off" => pub.at = "done"
  /\ collector => \A i \in Offloaded \ blobs :
       /\ pub.at \in {"initial", "retry"} /\ i \in pub.todo
       /\ \A l \in Lanes : msg[<<i, l>>].state = "absent"

\* The payload invariant.
LEMMA PayloadInductive == Spec => []PayloadInv
<1>1. Init => PayloadInv BY SMT DEF Init, PayloadInv
<1>2. ASSUME TypeInv, OwnerInv, HoldInv, PayloadInv, [Next]_vars PROVE PayloadInv'
  <2> USE <1>2
  <2>0. /\ pub \in PubType /\ fallback \in FallbackType /\ collector \in BOOLEAN
        /\ msg \in [Copies -> Msg] /\ target \in Lanes
    BY DEF TypeInv, DeliveryTypeOK, PubType, FallbackType, Msg
  <2>1. ASSUME NEW i \in Items, PublishItem(i) PROVE PayloadInv'
    <3>1. pub'.at = pub.at /\ pub'.todo = pub.todo \ {i}
      BY <2>0, <2>1 DEF PublishItem, PubType
    <3>2. /\ UNCHANGED <<handler, fallback, collector>>
          /\ blobs' = blobs \cup ({i} \cap Offloaded)
          /\ msg' \in {msg, Stored(msg, {<<i, PubLane>>})}
      BY <2>1 DEF PublishItem, Offload
    <3>3. ASSUME NEW j \in Items, j # i, NEW l \in Lanes PROVE msg'[<<j, l>>] = msg[<<j, l>>]
      BY SMT, <3>2, <3>3, StoredAdds
    <3> QED BY SMT, <3>1, <3>2, <3>3 DEF PayloadInv
  <2>2. ASSUME NEW i \in Items, PublishFails(i) PROVE PayloadInv'
    <3>1. PICK put \in SUBSET (pub.todo \ {i}) : \E landed \in SUBSET put :
            msg' = Stored(msg, landed \X {PubLane}) /\ Offload(put \cup {i})
      BY <2>2 DEF PublishFails
    <3>a. PICK landed \in SUBSET put :
            msg' = Stored(msg, landed \X {PubLane}) /\ Offload(put \cup {i})
      BY <3>1
    <3>2. fallback.at = "off" /\ UNCHANGED fallback
      BY <2>2 DEF PublishFails, PayloadInv
    <3>3. CASE /\ pub' = [at |-> "retry", todo |-> Items]
               /\ UNCHANGED <<handler, collectorVars>>
      <4>1. ASSUME NEW j \in Offloaded \ blobs', collector, NEW l \in Lanes
            PROVE  msg'[<<j, l>>].state = "absent"
        <5>1. j \in Offloaded \ blobs /\ j \notin landed
          BY <3>a, <4>1 DEF Offload
        <5>2. <<j, l>> \in Copies /\ <<j, l>> \notin landed \X {PubLane} BY <4>1, <5>1
        <5>3. msg'[<<j, l>>] = msg[<<j, l>>]
          BY <3>a, <5>2, StoredAdds
        <5>4. msg[<<j, l>>].state = "absent"
          BY <4>1, <5>1 DEF PayloadInv
        <5> QED BY <5>3, <5>4
      <4> QED BY <3>2, <3>3, <4>1 DEF PayloadInv, collectorVars
    <3>4. CASE pub'.at = "done" /\ handler' = "unavailable" /\ Abandon
      BY <3>2, <3>4 DEF PayloadInv, Abandon, Removed
    <3> QED BY SMT, <2>2, <3>3, <3>4 DEF PublishFails
  <2>3. ASSUME NEW i \in Items, FallbackPublishes(i) PROVE PayloadInv'
    <3>1. pub.at = "done" /\ UNCHANGED <<pub, handler, collector, blobs>>
      BY <2>3 DEF FallbackPublishes, fallbackRest, PayloadInv
    <3> QED BY <3>1 DEF PayloadInv
  <2>4. CASE PublishDone \/ RetryConfirmed
    <3>1. /\ pub.todo = {} /\ pub'.at = "done" /\ handler' = "waiting"
          /\ UNCHANGED <<collector, blobs>>
      BY SMT, <2>4 DEF PublishDone, RetryConfirmed, Handoff
    <3> QED BY <3>1 DEF PayloadInv
  <2>5. CASE RetryUnconfirmed
    <3>1. pub.at = "retry" /\ pub'.at = "abort" /\ ~collector' /\ UNCHANGED fallback
      BY <2>0, <2>5 DEF RetryUnconfirmed, Removed, PubType
    <3> QED BY <3>1 DEF PayloadInv
  <2>6. CASE RetryAborts
    <3>1. pub'.at = "done" /\ handler' = "unavailable" /\ ~collector'
      BY <2>0, <2>6 DEF RetryAborts, OwnerInv, PubType, collectorVars
    <3> QED BY <3>1 DEF PayloadInv
  <2>7. CASE Monitor \/ Answer
    BY SMT, <2>7 DEF Monitor, Answer, handlerRest, collectorVars, PayloadInv
  <2>8. CASE MonitorAbort \/ DurabilityError \/ ChannelClosed \/ Timeout
    BY <2>8
    DEF MonitorAbort, DurabilityError, ChannelClosed, Timeout, Abandon, Removed,
        handlerRest, PayloadInv
  <2>9. CASE ClientGone
    <3>1. ~collector' /\ handler' = "gone" /\ UNCHANGED fallback
      BY <2>9 DEF ClientGone, Abandon, Removed
    <3>2. pub'.at = IF pub.at = "abort" THEN "cut" ELSE "done"
      BY <2>9 DEF ClientGone
    <3> QED BY <3>1, <3>2 DEF PayloadInv
  <2>10. CASE FallbackFires \/ FallbackSettles
    <3>1. fallback.at # "off" /\ UNCHANGED <<pub, handler, collector, blobs, msg>>
      BY <2>10 DEF FallbackFires, FallbackSettles, fallbackRest
    <3> QED BY <3>1 DEF PayloadInv
  <2>11. ASSUME NEW c \in Copies, HandleResult(c) PROVE PayloadInv'
    BY <2>11 DEF HandleResult, collectorRest, PayloadInv
  <2>12. CASE Complete \/ SweepExpired \/ SweepOrphans
    <3>1. ~collector'
      BY <2>0, <2>12 DEF Complete, SweepExpired, SweepOrphans, Abandon, Removed, collectorVars
    <3> QED BY <2>12, <3>1 DEF Complete, SweepExpired, SweepOrphans, collectorRest, PayloadInv
  <2>13. CASE PublishWorkCancel \/ DeletePayloads
    <3>1. ~collector'
      BY <2>0, <2>13
      DEF PublishWorkCancel, DeletePayloads, OwnerInv, collectorVars
    <3> QED BY <2>13, <3>1
            DEF PublishWorkCancel, DeletePayloads, collectorRest, PayloadInv
  <2>14. ASSUME NEW w \in Workers, NEW c \in Copies, CopyTask(w, c) PROVE PayloadInv'
    <3>1. UNCHANGED <<pub, handler, fallback, collector, blobs>>
      BY <2>14, SidecarSteps DEF SidecarOnStream, gwVars
    <3>2. \A d \in Copies : msg[d].state = "absent" => msg'[d] = msg[d]
      BY <2>14, SidecarSteps DEF SidecarOnStream
    <3> QED BY SMT, <3>1, <3>2 DEF PayloadInv
  <2>15. ASSUME NEW c \in Copies, AckWait(c) PROVE PayloadInv'
    <3>1. UNCHANGED <<pub, handler, fallback, collector, blobs>>
      BY <2>15, AckWaitSteps DEF gwVars
    <3>2. \A d \in Copies : msg[d].state = "absent" => msg'[d] = msg[d]
      BY <2>15, AckWaitSteps
    <3> QED BY SMT, <3>1, <3>2 DEF PayloadInv
  <2>16. CASE UNCHANGED <<gwVars, msg>>
    BY <2>16 DEF gwVars, PayloadInv
  <2>17. CASE \/ \E w \in Workers, s \in Signals :
                   Tombstone(s, w) \/ LoseSignal(s, w) \/ ForgetTombstone(s, w)
              \/ \E c \in Copies : LoseResult(c)
              \/ \E w \in Workers : RestartSidecar(w)
              \/ Deadline \/ UNCHANGED vars
    BY <2>16, <2>17
    DEF Tombstone, LoseSignal, ForgetTombstone, LoseResult, RestartSidecar, Deadline, vars
  <2> QED
    BY <2>1, <2>2, <2>3, <2>4, <2>5, <2>6, <2>7, <2>8, <2>9, <2>10, <2>11, <2>12, <2>13,
       <2>14, <2>15, <2>17
    DEF Next, GatewayStep, SidecarStep, FaultStep, CopyTask
<1> QED BY <1>1, <1>2, TypeInductive, OwnerInductive, HoldInductive, PTL DEF Spec

\* The payload of a published item is in the store for as long as its request
\* is pending: no cleanup of a finished or orphaned request reaches it.
THEOREM PayloadIsThere == Spec => []PayloadWhilePending
<1>1. PayloadInv => PayloadWhilePending
  BY DEF PayloadInv, PayloadWhilePending
<1> QED BY <1>1, PayloadInductive, PTL

-----------------------------------------------------------------------------
(* No item is stranded. *)

\* A copy that was published stays known to the stream.
LEMMA PresentStays ==
  ASSUME TypeInv, HoldInv, [Next]_vars, NEW d \in Copies, Present(d)
  PROVE  Present(d)'
<1>1. CASE GatewayStep BY <1>1, GatewayStores DEF GatewayOnStream, Present
<1>2. ASSUME NEW w \in Workers, NEW c \in Copies, CopyTask(w, c) PROVE Present(d)'
  <2>1. SidecarOnStream(w, c) BY <1>2, SidecarSteps
  <2> QED BY <2>1 DEF SidecarOnStream, Present
<1>3. ASSUME NEW c \in Copies, AckWait(c) PROVE Present(d)'
  BY <1>3, AckWaitSteps DEF Present
<1>4. CASE \/ \E w \in Workers, s \in Signals :
                Tombstone(s, w) \/ LoseSignal(s, w) \/ ForgetTombstone(s, w)
           \/ \E c \in Copies : LoseResult(c)
           \/ \E w \in Workers : RestartSidecar(w)
           \/ Deadline \/ UNCHANGED vars
  BY <1>4
  DEF Tombstone, LoseSignal, ForgetTombstone, LoseResult, RestartSidecar, Deadline, vars,
      Present
<1> QED BY <1>1, <1>2, <1>3, <1>4 DEF Next, SidecarStep, FaultStep, CopyTask

\* A worker that has, or will have, signal s.
Signalled(s) == \E w \in Workers : <<s, w>> \in signals \/ s \in tomb[w]

\* A request-wide tombstone exists only for a request that was cancelled.
CancelInv == Signalled("work") => cancelled

\* Request-wide signals and tombstones come from a cancel only.
LEMMA CancelInductive == Spec => []CancelInv
<1> USE DEF CancelInv, Signalled
<1>1. Init => CancelInv BY DEF Init
<1>2. ASSUME TypeInv, CancelInv, [Next]_vars PROVE CancelInv'
  <2> USE <1>2
  <2>0. tomb \in [Workers -> SUBSET Signals] BY DEF TypeInv, DeliveryTypeOK
  <2>1. CASE RetryAborts \/ PublishWorkCancel
    BY <2>1 DEF RetryAborts, PublishWorkCancel, SendWorkCancel
  <2>2. CASE RetryConfirmed \/ FallbackSettles
    <3>1. /\ UNCHANGED <<tomb, cancelled>>
          /\ signals' \subseteq signals \cup {<<"batch", DirectWorker>>}
      BY <2>2 DEF RetryConfirmed, FallbackSettles, fallbackRest, workerVars
    <3> QED BY <3>1
  <2>3. CASE UNCHANGED <<signals, tomb, cancelled>> BY <2>3
  <2>4. ASSUME NEW i \in Items, PublishItem(i) \/ PublishFails(i) \/ FallbackPublishes(i)
        PROVE CancelInv'
    BY <2>3, <2>4
    DEF PublishItem, PublishFails, FallbackPublishes, fallbackRest, netVars, workerVars
  <2>5. CASE \/ PublishDone \/ RetryUnconfirmed \/ Monitor \/ MonitorAbort \/ Answer
             \/ DurabilityError \/ ChannelClosed \/ Timeout \/ ClientGone \/ FallbackFires
    BY <2>3, <2>5
    DEF PublishDone, RetryUnconfirmed, Monitor, MonitorAbort, Answer, DurabilityError,
        ChannelClosed, Timeout, ClientGone, FallbackFires, fallbackRest, handlerRest,
        netVars, workerVars
  <2>6. CASE \/ Complete \/ SweepExpired \/ SweepOrphans \/ DeletePayloads
             \/ \E c \in Copies : HandleResult(c)
    BY <2>3, <2>6 DEF Complete, SweepExpired, SweepOrphans, DeletePayloads, HandleResult,
                      collectorRest, netVars, workerVars
  <2>7. CASE \E w \in Workers, c \in Copies : CopyTask(w, c)
    <3>1. UNCHANGED sidecarRest
      BY <2>7
      DEF CopyTask, Intake, Prepare, Dispatch, Outcome
    <3> QED BY <2>3, <3>1 DEF sidecarRest, gwVars
  <2>8. CASE \E c \in Copies : AckWait(c) \/ LoseResult(c)
    BY <2>3, <2>8 DEF AckWait, LoseResult, gwVars, netVars, workerVars
  <2>9. ASSUME NEW w \in Workers, NEW s \in Signals,
               Tombstone(s, w) \/ LoseSignal(s, w) \/ ForgetTombstone(s, w)
        PROVE CancelInv'
    BY <2>0, <2>9
    DEF Tombstone, LoseSignal, ForgetTombstone, gwVars, netVars, workerVars
  <2>10. ASSUME NEW w \in Workers, RestartSidecar(w) PROVE CancelInv'
    BY <2>0, <2>10 DEF RestartSidecar, gwVars, netVars
  <2>11. CASE Deadline \/ UNCHANGED vars
    <3>1. UNCHANGED <<signals, tomb, cancelled>>
      BY <2>11 DEF Deadline, vars, gwVars, netVars, workerVars
    <3> QED BY <2>3, <3>1
  <2> QED BY <2>1, <2>2, <2>4, <2>5, <2>6, <2>7, <2>8, <2>9, <2>10, <2>11
          DEF Next, GatewayStep, SidecarStep, FaultStep, CopyTask
<1> QED BY <1>1, <1>2, TypeInductive, PTL DEF Spec

Pool(i) == <<i, "pool">>
Direct(i) == <<i, "direct">>

\* An ACK means a copy, on the pool stream if the publication was retried there.
AckInv ==
  \A i \in Items : initAcks[i] = "ok" =>
    /\ Present(Pool(i)) \/ Present(Direct(i))
    /\ pub.at = "retry" => Present(Pool(i))

\* The fallback takes every item without a result, and an item it has seen
\* ACKed has a pool copy.
TakeInv ==
  /\ fallback.at = "armed" /\ collector => cached = Items
  /\ fallback.at = "publish" /\ collector => Items \subseteq fallback.took \cup results
  /\ fallback.at = "publish" /\ fallback.ok =>
       \A i \in fallback.took \ fallback.todo : Present(Pool(i))

\* A disowned direct copy has a pool copy, and where the direct copies were
\* cancelled every item is disowned or has its result.
DisownInv ==
  collector => /\ \A i \in stale : Present(Pool(i))
               /\ Signalled("batch") => Items \subseteq stale \cup results

\* A publish ACK stands for a copy in the stream.
LEMMA AckInductive == Spec => []AckInv
<1>1. Init => AckInv BY DEF Init, AckInv
<1>2. ASSUME TypeInv, HoldInv, AckInv, [Next]_vars PROVE AckInv'
  <2> USE <1>2
  <2>0. /\ pub \in PubType /\ target \in Lanes
        /\ initAcks \in [Items -> {"none", "ok", "err"}]
    BY DEF TypeInv, DeliveryTypeOK, PubType
  <2>1. \A i \in Items : Pool(i) \in Copies /\ Direct(i) \in Copies BY DEF Pool, Direct
  <2>2. \A c \in Copies : Present(c) => Present(c)' BY PresentStays
  <2>3. CASE UNCHANGED initAcks /\ (pub'.at = "retry" => pub.at = "retry")
    BY <2>1, <2>2, <2>3 DEF AckInv, Pool, Direct
  <2>4. ASSUME NEW i \in Items, PublishItem(i) PROVE AckInv'
    <3>1. pub'.at = pub.at BY <2>0, <2>4 DEF PublishItem, PubType
    <3>2. \A j \in Items : j # i => initAcks'[j] = initAcks[j]
      BY <2>0, <2>4 DEF PublishItem
    <3>0. PICK k : k = <<i, PubLane>> OBVIOUS
    <3>3. k \in Copies BY <2>0, <3>0 DEF PubLane
    <3>4. (k = Pool(i) \/ k = Direct(i)) /\ (pub.at = "retry" => k = Pool(i))
      BY <2>0, <3>0 DEF PubLane, Pool, Direct
    <3>5. initAcks'[i] = "ok" => msg' = Stored(msg, {k})
      BY <2>0, <2>4, <3>0 DEF PublishItem
    <3>6. Stored(msg, {k})[k].state # "absent" BY <3>3, StoredAdds
    <3>7. initAcks'[i] = "ok" => Present(k)' BY <3>5, <3>6 DEF Present
    <3>8. ASSUME NEW j \in Items, initAcks'[j] = "ok"
          PROVE  /\ Present(Pool(j))' \/ Present(Direct(j))'
                 /\ pub'.at = "retry" => Present(Pool(j))'
      <4>1. CASE j = i BY <3>1, <3>4, <3>7, <3>8, <4>1
      <4>2. CASE j # i BY <2>1, <2>2, <3>1, <3>2, <3>8, <4>2 DEF AckInv
      <4> QED BY <4>1, <4>2
    <3> QED BY <3>8 DEF AckInv
  <2>5. ASSUME NEW i \in Items, PublishFails(i) PROVE AckInv'
    <3>1. CASE initAcks' = [j \in Items |-> "none"] BY <3>1 DEF AckInv
    <3>2. CASE UNCHANGED initAcks /\ pub'.at = "done" BY <2>3, <3>2
    <3> QED BY SMT, <2>5, <3>1, <3>2 DEF PublishFails
  <2>6. CASE PublishDone \/ RetryConfirmed \/ RetryUnconfirmed \/ RetryAborts \/ ClientGone
    <3>1. UNCHANGED initAcks /\ pub'.at # "retry"
      BY SMT, <2>0, <2>6 DEF PublishDone, RetryConfirmed, RetryUnconfirmed, RetryAborts,
                        ClientGone, Handoff, PubType
    <3> QED BY <2>3, <3>1
  <2>7. CASE UNCHANGED <<initAcks, pub>> BY <2>3, <2>7
  <2>8. CASE \/ Monitor \/ MonitorAbort \/ Answer \/ DurabilityError \/ ChannelClosed
             \/ Timeout
    BY <2>7, <2>8 DEF Monitor, MonitorAbort, Answer, DurabilityError, ChannelClosed, Timeout,
                      handlerRest
  <2>9. CASE \/ FallbackFires \/ FallbackSettles \/ \E i \in Items : FallbackPublishes(i)
    BY <2>7, <2>9 DEF FallbackFires, FallbackSettles, FallbackPublishes, fallbackRest
  <2>10. CASE \/ Complete \/ SweepExpired \/ SweepOrphans \/ PublishWorkCancel
              \/ DeletePayloads \/ \E c \in Copies : HandleResult(c)
    BY <2>7, <2>10 DEF Complete, SweepExpired, SweepOrphans, PublishWorkCancel,
                       DeletePayloads, HandleResult, collectorRest
  <2>11. CASE SidecarStep \/ FaultStep \/ Deadline \/ UNCHANGED vars
    BY <2>7, <2>11, OthersLeaveGateway DEF gwVars
  <2> QED BY <2>4, <2>5, <2>6, <2>8, <2>9, <2>10, <2>11 DEF Next, GatewayStep
<1> QED BY <1>1, <1>2, TypeInductive, HoldInductive, PTL DEF Spec

\* The fallback covers every item without a result.
LEMMA TakeInductive == Spec => []TakeInv
<1>1. Init => TakeInv BY SMT DEF Init, TakeInv
<1>2. ASSUME TypeInv, HoldInv, TakeInv, [Next]_vars PROVE TakeInv'
  <2> USE <1>2
  <2>0. /\ fallback \in FallbackType /\ collector \in BOOLEAN /\ results \subseteq Items
        /\ cached \subseteq Items
    BY DEF TypeInv, DeliveryTypeOK, FallbackType
  <2>1. \A i \in Items : Pool(i) \in Copies BY DEF Pool
  <2>2. \A c \in Copies : Present(c) => Present(c)' BY PresentStays
  <2>3. \A i \in Items : Present(Pool(i)) => Present(Pool(i))' BY <2>1, <2>2
  <2>4. CASE /\ UNCHANGED fallback
             /\ collector' => collector /\ UNCHANGED cached /\ results \subseteq results'
    BY <2>0, <2>3, <2>4 DEF TakeInv, FallbackType
  <2>5. ASSUME NEW i \in Items, PublishItem(i) \/ PublishFails(i) PROVE TakeInv'
    BY <2>4, <2>5 DEF PublishItem, PublishFails, Abandon, Removed, collectorVars
  <2>6. CASE PublishDone \/ RetryConfirmed
    <3>1. Handoff /\ UNCHANGED <<collector, results>>
      BY <2>6
      DEF PublishDone, RetryConfirmed
    <3>2. CASE target = "direct"
      <4>1. fallback'.at = "armed" /\ (collector => cached' = Items)
        BY <2>0, <3>1, <3>2 DEF Handoff, FallbackType
      <4> QED BY <3>1, <4>1 DEF TakeInv
    <3>3. CASE target # "direct"
      <4>1. UNCHANGED <<fallback, cached>> BY <3>1, <3>3 DEF Handoff
      <4> QED BY <2>4, <3>1, <4>1
    <3> QED BY <3>2, <3>3
  <2>7. CASE RetryUnconfirmed \/ RetryAborts
    BY <2>4, <2>7 DEF RetryUnconfirmed, RetryAborts, Removed, collectorVars
  <2>8. CASE \/ Monitor \/ MonitorAbort \/ Answer \/ DurabilityError \/ ChannelClosed
             \/ Timeout \/ ClientGone
    BY <2>4, <2>8
    DEF Monitor, MonitorAbort, Answer, DurabilityError, ChannelClosed, Timeout, ClientGone,
        Abandon, Removed, handlerRest, collectorVars
  <2>9. CASE FallbackFires
    <3>1. UNCHANGED <<collector, results, cached>> /\ fallback.at = "armed"
      BY <2>9 DEF FallbackFires, fallbackRest
    <3>2. \/ fallback'.at = "done"
          \/ /\ fallback'.at = "publish"
             /\ fallback'.took = cached \ results /\ fallback'.todo = cached \ results
      BY <2>0, <2>9 DEF FallbackFires, FallbackType
    <3> QED BY <2>0, <3>1, <3>2 DEF TakeInv
  <2>10. ASSUME NEW i \in Items, FallbackPublishes(i) PROVE TakeInv'
    <3>1. UNCHANGED <<collector, results, cached>> /\ fallback.at = "publish"
      BY <2>10 DEF FallbackPublishes, fallbackRest
    <3>2. \/ fallback'.at = "done"
          \/ /\ fallback'.at = "publish" /\ fallback'.took = fallback.took
             /\ fallback'.todo = fallback.todo \ {i}
             /\ \/ ~fallback'.ok
                \/ fallback'.ok = fallback.ok /\ msg' = Stored(msg, {Pool(i)})
      BY <2>0, <2>10 DEF FallbackPublishes, FallbackType, Pool
    <3>3. msg' = Stored(msg, {Pool(i)}) => Present(Pool(i))'
      <4>1. PICK k : k = Pool(i) OBVIOUS
      <4>2. Stored(msg, {k})[k].state # "absent" BY SMT, <2>1, <4>1, StoredAdds
      <4> QED BY <4>1, <4>2 DEF Present
    <3>4. \A j \in fallback.took : j \in Items BY <2>0 DEF FallbackType
    <3> QED BY <2>3, <3>1, <3>2, <3>3, <3>4 DEF TakeInv
  <2>11. CASE FallbackSettles
    <3>1. fallback'.at = "done" BY <2>0, <2>11 DEF FallbackSettles, FallbackType
    <3> QED BY <3>1 DEF TakeInv
  <2>12. CASE \/ Complete \/ SweepExpired \/ SweepOrphans \/ PublishWorkCancel
              \/ DeletePayloads \/ \E c \in Copies : HandleResult(c)
    BY <2>4, <2>12
    DEF Complete, SweepExpired, SweepOrphans, PublishWorkCancel, DeletePayloads,
        HandleResult, Abandon, Removed, collectorRest, collectorVars
  <2>13. CASE SidecarStep \/ FaultStep \/ Deadline \/ UNCHANGED vars
    BY <2>4, <2>13, OthersLeaveGateway DEF gwVars
  <2> QED BY <2>5, <2>6, <2>7, <2>8, <2>9, <2>10, <2>11, <2>12, <2>13
          DEF Next, GatewayStep
<1> QED BY <1>1, <1>2, TypeInductive, HoldInductive, PTL DEF Spec

\* The direct copies are disowned and cancelled only once pool copies exist.
LEMMA DisownInductive == Spec => []DisownInv
<1>1. Init => DisownInv BY DEF Init, DisownInv, Signalled
<1>2. ASSUME TypeInv, HoldInv, AckInv, TakeInv, DisownInv, [Next]_vars PROVE DisownInv'
  <2> USE <1>2
  <2>0. /\ fallback \in FallbackType /\ collector \in BOOLEAN /\ results \subseteq Items
        /\ stale \subseteq Items /\ tomb \in [Workers -> SUBSET Signals]
    BY DEF TypeInv, DeliveryTypeOK, FallbackType
  <2>1. \A i \in Items : Pool(i) \in Copies BY DEF Pool
  <2>2. \A c \in Copies : Present(c) => Present(c)' BY PresentStays
  <2>3. \A i \in Items : Present(Pool(i)) => Present(Pool(i))' BY <2>1, <2>2
  <2>4. CASE collector' => /\ collector /\ UNCHANGED stale /\ results \subseteq results'
                           /\ Signalled("batch")' => Signalled("batch")
    BY <2>0, <2>3, <2>4 DEF DisownInv
  <2>5. CASE UNCHANGED <<signals, tomb>> /\ (collector' => collector /\ UNCHANGED stale
                                                            /\ results \subseteq results')
    BY <2>4, <2>5 DEF Signalled
  <2>6. ASSUME NEW i \in Items, PublishItem(i) \/ PublishFails(i) \/ FallbackPublishes(i)
        PROVE DisownInv'
    BY <2>5, <2>6 DEF PublishItem, PublishFails, FallbackPublishes, Abandon, Removed,
                      collectorVars, fallbackRest, netVars, workerVars
  <2>7. CASE PublishDone \/ RetryUnconfirmed
    BY <2>5, <2>7 DEF PublishDone, RetryUnconfirmed, Removed, netVars, workerVars
  <2>8. CASE RetryConfirmed
    <3>1. \A i \in Items : Present(Pool(i)) BY <2>8 DEF RetryConfirmed, AckInv
    <3>2. UNCHANGED collector /\ (collector => stale' = Items) BY <2>8 DEF RetryConfirmed
    <3> QED BY <2>3, <3>1, <3>2 DEF DisownInv
  <2>9. CASE FallbackSettles
    <3>1. /\ fallback.at = "publish" /\ fallback.todo = {} /\ UNCHANGED <<collector, results>>
          /\ stale' = IF fallback.ok /\ collector THEN stale \cup fallback.took ELSE stale
          /\ ~fallback.ok => UNCHANGED <<signals, tomb>>
      BY <2>9 DEF FallbackSettles, fallbackRest, workerVars
    <3>2. CASE fallback.ok
      <4>1. \A i \in fallback.took : i \in Items /\ Present(Pool(i))
        BY <2>0, <3>1, <3>2 DEF TakeInv, FallbackType
      <4>2. collector => Items \subseteq stale' \cup results'
        BY <3>1, <3>2 DEF TakeInv
      <4> QED BY <2>0, <2>3, <3>1, <3>2, <4>1, <4>2 DEF DisownInv
    <3>3. CASE ~fallback.ok
      <4>1. UNCHANGED <<collector, results, stale, signals, tomb>> BY <3>1, <3>3
      <4> QED BY <2>5, <4>1
    <3> QED BY <3>2, <3>3
  <2>10. CASE RetryAborts \/ PublishWorkCancel
    <3>1. /\ UNCHANGED <<collectorVars, tomb>>
          /\ signals' = signals \cup {<<"work", w>> : w \in Workers}
      BY <2>10
      DEF RetryAborts, PublishWorkCancel, SendWorkCancel, collectorRest, workerVars
    <3>2. Signalled("batch")' => Signalled("batch") BY <3>1 DEF Signalled
    <3> QED BY <2>4, <3>1, <3>2 DEF collectorVars
  <2>11. CASE \/ Monitor \/ MonitorAbort \/ Answer \/ DurabilityError \/ ChannelClosed
              \/ Timeout \/ ClientGone
    BY <2>5, <2>11
    DEF Monitor, MonitorAbort, Answer, DurabilityError, ChannelClosed, Timeout, ClientGone,
        Abandon, Removed, handlerRest, collectorVars, netVars, workerVars
  <2>12. CASE FallbackFires
    BY <2>5, <2>12 DEF FallbackFires, fallbackRest, workerVars
  <2>13. CASE \/ Complete \/ SweepExpired \/ SweepOrphans \/ DeletePayloads
              \/ \E c \in Copies : HandleResult(c)
    BY <2>5, <2>13 DEF Complete, SweepExpired, SweepOrphans, DeletePayloads, HandleResult,
                       Abandon, Removed, collectorRest, collectorVars, netVars, workerVars
  <2>14. CASE \E w \in Workers, c \in Copies : CopyTask(w, c)
    <3>1. UNCHANGED sidecarRest
      BY <2>14 DEF CopyTask, Intake, Prepare, Dispatch, Outcome
    <3> QED BY <2>5, <3>1 DEF sidecarRest, gwVars
  <2>15. CASE \E c \in Copies : AckWait(c) \/ LoseResult(c)
    <3>1. UNCHANGED <<collector, results, stale, signals, tomb>>
      BY <2>15 DEF AckWait, LoseResult, gwVars, netVars, workerVars
    <3> QED BY <2>5, <3>1
  <2>16. ASSUME NEW w \in Workers, NEW s \in Signals,
                Tombstone(s, w) \/ LoseSignal(s, w) \/ ForgetTombstone(s, w)
         PROVE DisownInv'
    <3>1. UNCHANGED <<collector, stale, results>>
      BY <2>16 DEF Tombstone, LoseSignal, ForgetTombstone, gwVars
    <3>2. Signalled("batch")' => Signalled("batch")
      <4>0. ASSUME signals' \subseteq signals,
                   \A v \in Workers : "batch" \in tomb'[v] =>
                                         "batch" \in tomb[v] \/ <<"batch", v>> \in signals
            PROVE  Signalled("batch")' => Signalled("batch")
        BY <4>0 DEF Signalled
      <4>1. CASE Tombstone(s, w)
        <5>1. \A v \in Workers : "batch" \in tomb'[v] =>
                                    "batch" \in tomb[v] \/ <<"batch", v>> \in signals
          <6>1. <<s, w>> \in signals /\ tomb' = [tomb EXCEPT ![w] = @ \cup {s}]
            BY <4>1 DEF Tombstone
          <6> QED BY <2>0, <6>1
        <5> QED BY <4>0, <4>1, <5>1 DEF Tombstone
      <4>2. CASE LoseSignal(s, w) BY <4>0, <4>2 DEF LoseSignal, workerVars
      <4>3. CASE ForgetTombstone(s, w)
        <5>1. UNCHANGED signals /\ tomb' = [tomb EXCEPT ![w] = @ \ {s}]
          BY <4>3 DEF ForgetTombstone, netVars
        <5> QED BY <2>0, <4>0, <5>1
      <4> QED BY <2>16, <4>1, <4>2, <4>3
    <3> QED BY <2>4, <3>1, <3>2
  <2>17. ASSUME NEW w \in Workers, RestartSidecar(w) PROVE DisownInv'
    <3>1. UNCHANGED <<collector, stale, results>> BY <2>17 DEF RestartSidecar, gwVars
    <3>2. Signalled("batch")' => Signalled("batch")
      BY <2>0, <2>17 DEF RestartSidecar, Signalled, netVars
    <3> QED BY <2>4, <3>1, <3>2
  <2>18. CASE Deadline \/ UNCHANGED vars
    BY SMT, <2>5, <2>18 DEF Deadline, vars, gwVars, netVars, workerVars
  <2> QED BY <2>6, <2>7, <2>8, <2>9, <2>10, <2>11, <2>12, <2>13, <2>14, <2>15, <2>16, <2>17,
             <2>18
          DEF Next, GatewayStep, SidecarStep, FaultStep, CopyTask
<1> QED BY <1>1, <1>2, TypeInductive, HoldInductive, AckInductive, TakeInductive, PTL
        DEF Spec

\* A dead copy is excused; before the deadline of a pending request a published
\* copy is live, or its item has a result or is excused, or it is a disowned
\* direct copy.
Settled(c) ==
  \/ Live(c) \/ ItemOf(c) \in results \cup excused
  \/ LaneOf(c) = "direct" /\ ItemOf(c) \in stale

CopyInv ==
  /\ \A c \in Copies : msg[c].state = "dead" => ItemOf(c) \in excused
  /\ collector /\ ~late => \A c \in Copies : Present(c) => Settled(c)

\* Every published copy of a pending request is settled for a reason.
LEMMA CopyInductive == Spec => []CopyInv
<1>1. Init => CopyInv BY SMT DEF Init, CopyInv, Present
<1>2. ASSUME TypeInv, OwnerInv, HoldInv, CancelInv, DisownInv, CopyInv, [Next]_vars
      PROVE CopyInv'
  <2> USE <1>2
  <2>0. collector \in BOOLEAN /\ late \in BOOLEAN BY DEF TypeInv, DeliveryTypeOK
  \* A gateway step other than HandleResult takes no result off the wire.
  <2>1. ASSUME GatewayStep, inflight \subseteq inflight',
               collector' => /\ collector
                             /\ results \subseteq results' /\ stale \subseteq stale'
        PROVE  CopyInv'
    <3>1. GatewayOnStream BY <2>1, GatewayStores
    <3> QED BY <2>1, <3>1 DEF GatewayOnStream, CopyInv, Present, Settled, Live
  <2>2. ASSUME NEW i \in Items, PublishItem(i) \/ PublishFails(i) \/ FallbackPublishes(i)
        PROVE CopyInv'
    <3>1. GatewayStep BY <2>2 DEF GatewayStep
    <3> QED BY <2>1, <2>2, <3>1
            DEF PublishItem, PublishFails, FallbackPublishes, Abandon, Removed,
                collectorVars, fallbackRest, netVars
  <2>3. CASE PublishDone \/ RetryConfirmed \/ RetryUnconfirmed \/ RetryAborts
    <3>1. GatewayStep BY <2>3 DEF GatewayStep
    <3>2. collector' => collector /\ results \subseteq results' /\ stale \subseteq stale'
      BY <2>3
      DEF PublishDone, RetryConfirmed, RetryUnconfirmed, RetryAborts, Removed,
          collectorVars, TypeInv, DeliveryTypeOK
    <3>3. UNCHANGED inflight
      BY <2>3 DEF PublishDone, RetryConfirmed, RetryUnconfirmed, RetryAborts, netVars
    <3> QED BY <2>1, <3>1, <3>2, <3>3
  <2>4. CASE \/ Monitor \/ MonitorAbort \/ Answer \/ DurabilityError \/ ChannelClosed
             \/ Timeout \/ ClientGone
    <3>1. GatewayStep BY <2>4 DEF GatewayStep
    <3> QED BY <2>1, <2>4, <3>1
            DEF Monitor, MonitorAbort, Answer, DurabilityError, ChannelClosed, Timeout,
                ClientGone, Abandon, Removed, handlerRest, collectorVars, netVars
  <2>5. CASE FallbackFires \/ FallbackSettles
    <3>1. GatewayStep BY <2>5 DEF GatewayStep
    <3> QED BY <2>1, <2>5, <3>1 DEF FallbackFires, FallbackSettles, fallbackRest
  <2>6. CASE \/ Complete \/ SweepExpired \/ SweepOrphans \/ PublishWorkCancel
             \/ DeletePayloads
    <3>1. GatewayStep BY <2>6 DEF GatewayStep
    <3> QED BY <2>1, <2>6, <3>1
            DEF Complete, SweepExpired, SweepOrphans, PublishWorkCancel, DeletePayloads,
                Abandon, Removed, collectorRest, collectorVars, netVars
  <2>7. ASSUME NEW c \in Copies, HandleResult(c) PROVE CopyInv'
    <3>1. /\ inflight' = inflight \ {c} /\ UNCHANGED <<collector, stale, late, msg, excused>>
          /\ results' = IF Accepts(c) THEN results \cup {ItemOf(c)} ELSE results
      BY <2>7 DEF HandleResult, collectorRest
    <3>2. collector => \/ ItemOf(c) \in results'
                       \/ LaneOf(c) = "direct" /\ ItemOf(c) \in stale
      BY <3>1 DEF Accepts
    <3>3. ASSUME collector', ~late', NEW d \in Copies, Present(d)' PROVE Settled(d)'
      <4>1. Settled(d) BY <3>1, <3>3 DEF CopyInv, Present
      <4>2. CASE d = c BY <3>1, <3>2, <3>3, <4>2 DEF Settled
      <4>3. CASE d # c BY <3>1, <4>1, <4>3 DEF Settled, Live
      <4> QED BY <4>2, <4>3
    <3> QED BY <3>1, <3>3 DEF CopyInv
  <2>8. ASSUME NEW w \in Workers, NEW c \in Copies, CopyTask(w, c) PROVE CopyInv'
    <3>1. SidecarOnStream(w, c) BY <2>8, SidecarSteps
    <3>2. UNCHANGED <<collector, results, stale, late>>
      BY <3>1
      DEF SidecarOnStream, gwVars
    <3>3. ASSUME collector, ~late, Dropped(w, c)
          PROVE  \/ ItemOf(c) \in results
                 \/ LaneOf(c) = "direct" /\ ItemOf(c) \in stale
      <4>1. ~Signalled("work") BY <3>3 DEF OwnerInv, CancelInv
      <4>2. "batch" \in tomb[w] /\ LaneOf(c) = "direct"
        BY <3>3, <4>1 DEF Dropped, Cancelled, Signalled
      <4>3. Signalled("batch") BY <4>2 DEF Signalled
      <4> QED BY <3>3, <4>2, <4>3 DEF DisownInv
    <3>4. ASSUME collector', ~late', NEW d \in Copies, Present(d)' PROVE Settled(d)'
      <4>1. CASE d # c
        <5>1. /\ msg'[d] = msg[d] /\ inflight \subseteq inflight'
              /\ excused \subseteq excused'
          BY <3>1, <4>1 DEF SidecarOnStream
        <5>2. Settled(d) BY <3>2, <3>4, <5>1 DEF CopyInv, Present
        <5> QED BY <3>2, <5>1, <5>2 DEF Settled, Live
      <4>2. CASE d = c
        <5>0. Present(c) BY <3>1 DEF SidecarOnStream, Present
        <5>1. Settled(c) BY <3>2, <3>4, <5>0 DEF CopyInv
        <5>2. CASE \/ c \in inflight' \/ msg'[c].state \in {"ready", "pending"}
                   \/ ItemOf(c) \in excused'
          BY <4>2, <5>2 DEF Settled, Live
        <5>3. CASE Dropped(w, c) BY <3>2, <3>3, <3>4, <4>2, <5>3 DEF Settled
        <5>4. CASE msg'[c] = msg[c]
          <6>1. inflight \subseteq inflight' /\ excused \subseteq excused'
            BY <3>1 DEF SidecarOnStream
          <6> QED BY <3>2, <4>2, <5>1, <5>4, <6>1 DEF Settled, Live
        <5> QED BY <3>1, <5>2, <5>3, <5>4 DEF SidecarOnStream
      <4> QED BY <4>1, <4>2
    <3>5. ASSUME NEW d \in Copies, msg'[d].state = "dead" PROVE ItemOf(d) \in excused'
      BY <3>1, <3>5 DEF SidecarOnStream, CopyInv
    <3> QED BY <3>4, <3>5 DEF CopyInv
  <2>9. ASSUME NEW c \in Copies, AckWait(c) PROVE CopyInv'
    <3>1. UNCHANGED <<collector, results, stale, late, inflight>>
      BY <2>9, AckWaitSteps DEF gwVars
    <3>2. /\ \A d \in Copies : d # c => msg'[d] = msg[d]
          /\ msg[c].state = "pending" /\ excused \subseteq excused'
          /\ \/ msg'[c].state = "ready"
             \/ msg'[c].state = "dead" /\ ItemOf(c) \in excused'
      BY <2>9, AckWaitSteps
    <3>3. ASSUME NEW d \in Copies, msg'[d].state = "dead" PROVE ItemOf(d) \in excused'
      BY <3>2, <3>3 DEF CopyInv
    <3>4. ASSUME collector', ~late', NEW d \in Copies, Present(d)' PROVE Settled(d)'
      <4>1. CASE d = c BY <3>2, <4>1 DEF Settled, Live
      <4>2. CASE d # c
        <5>1. Settled(d) BY <3>1, <3>2, <3>4, <4>2 DEF CopyInv, Present
        <5> QED BY <3>1, <3>2, <4>2, <5>1 DEF Settled, Live
      <4> QED BY <4>1, <4>2
    <3> QED BY <3>3, <3>4 DEF CopyInv
  <2>10. ASSUME NEW c \in Copies, LoseResult(c) PROVE CopyInv'
    BY <2>10 DEF LoseResult, gwVars, CopyInv, Present, Settled, Live
  <2>11. CASE /\ UNCHANGED <<gwVars, inflight, msg, excused>> /\ (late => late')
    BY <2>11 DEF gwVars, CopyInv, Present, Settled, Live
  <2>12. ASSUME NEW w \in Workers, NEW s \in Signals,
                Tombstone(s, w) \/ LoseSignal(s, w) \/ ForgetTombstone(s, w)
         PROVE  CopyInv'
    BY <2>11, <2>12 DEF Tombstone, LoseSignal, ForgetTombstone, netVars
  <2>13. CASE (\E w \in Workers : RestartSidecar(w)) \/ UNCHANGED vars
    BY SMT, <2>11, <2>13 DEF RestartSidecar, vars, netVars
  <2>14. CASE Deadline BY <2>11, <2>14 DEF Deadline
  <2> QED BY <2>2, <2>3, <2>4, <2>5, <2>6, <2>7, <2>8, <2>9, <2>10, <2>12,
             <2>13, <2>14
          DEF Next, GatewayStep, SidecarStep, FaultStep, CopyTask
<1> QED BY <1>1, <1>2, TypeInductive, OwnerInductive, HoldInductive, CancelInductive,
           DisownInductive, PTL DEF Spec

\* The fallback, its cancel and the redeliveries strand no item: before the
\* deadline every unanswered item of a durably published request has a copy or
\* a result on its way, unless the transport lost it or its budget ran out.
THEOREM NothingIsStranded == Spec => []NoStrandedItem
<1>1. ASSUME AckInv, DisownInv, CopyInv PROVE NoStrandedItem
  <2> SUFFICES ASSUME collector, ~late, \A i \in Items : initAcks[i] = "ok",
                      NEW i \in Items \ (results \cup excused)
               PROVE  \E l \in Lanes : Live(<<i, l>>)
    BY DEF NoStrandedItem
  <2>1. Present(Pool(i)) => Live(<<i, "pool">>)
    <3>1. Pool(i) \in Copies /\ ItemOf(Pool(i)) = i /\ LaneOf(Pool(i)) # "direct" BY DEF Pool
    <3>2. Present(Pool(i)) => Settled(Pool(i)) BY <1>1, <3>1 DEF CopyInv
    <3> QED BY <3>1, <3>2 DEF Settled, Pool
  <2>2. Present(Direct(i)) => Live(<<i, "direct">>) \/ i \in stale
    <3>1. Direct(i) \in Copies /\ ItemOf(Direct(i)) = i BY DEF Direct
    <3>2. Present(Direct(i)) => Settled(Direct(i)) BY <1>1, <3>1 DEF CopyInv
    <3> QED BY <3>1, <3>2 DEF Settled, Direct
  <2>3. i \in stale => Present(Pool(i)) BY <1>1 DEF DisownInv
  <2>4. Present(Pool(i)) \/ Present(Direct(i)) BY <1>1 DEF AckInv
  <2> QED BY <2>1, <2>2, <2>3, <2>4
<1> QED BY <1>1, AckInductive, DisownInductive, CopyInductive, PTL

=============================================================================
