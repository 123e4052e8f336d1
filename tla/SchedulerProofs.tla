-------------------------- MODULE SchedulerProofs ---------------------------
(***************************************************************************)
(* Slots, lane counts and items of Scheduler balance, and the choice of    *)
(* the queue and the verdict of the lane, which the loop makes steps       *)
(* before it acts on them, still hold when it does: for every set of       *)
(* queues, number and size of requests, batch cap and depth, and every     *)
(* sequence of reported widths.                                            *)
(***************************************************************************)
EXTENDS SchedulerMoves

\* Most leaves are set reasoning without arithmetic, for Zenon; the others say SMT.
USE ZenonT(30), SMTT(30)

-----------------------------------------------------------------------------
(* The remaining steps preserve the invariant. *)

\* Replacing a batch that is out by one with the same items keeps their number.
LEMMA Replaced ==
  ASSUME OutInv, NEW b \in out, NEW c, c.items = b.items, c # b, out' = (out \ {b}) \cup {c}
  PROVE  c \notin out /\ IsFiniteSet(out') /\ Cardinality(out') = Cardinality(out)
<1>1. c \notin out BY DEF OutInv
<1>2. IsFiniteSet(out) /\ Cardinality(out) \in Nat BY FS_CardinalityType DEF OutInv
<1>3. IsFiniteSet(out \ {b}) /\ Cardinality(out \ {b}) = Cardinality(out) - 1
  BY <1>2, FS_RemoveElement
<1>4. c \notin out \ {b} BY <1>1
<1>5. IsFiniteSet(out') /\ Cardinality(out') = Cardinality(out \ {b}) + 1
  BY <1>3, <1>4, FS_AddElement
<1> QED BY SMT, <1>1, <1>2, <1>3, <1>5

\* Items that come back go from the running to the served ones.
LEMMA Served ==
  ASSUME PlaceInv, NEW R, R \subseteq job.hand \cup Running, served' = served \cup R,
         job'.hand = job.hand \ R, Running' = Running \ R, UNCHANGED <<pending, clock>>
  PROVE  PlaceInv'
<1>1. Items' = Items BY DEF Items
<1>2. Placed' = Placed BY <1>1 DEF Placed
<1>3. /\ Items' \cap job'.hand = {} /\ Items' \cap Running' = {} /\ Items' \cap served' = {}
      /\ job'.hand \cap Running' = {} /\ job'.hand \cap served' = {} /\ Running' \cap served' = {}
  BY <1>1 DEF PlaceInv
<1> QED BY <1>2, <1>3 DEF PlaceInv

\* The return of a batch keeps the invariant.
LEMMA ReturnKeeps ==
  ASSUME Inv, CtlInv', NEW b \in out, Return(b)
  PROVE  Inv'
<1>1. /\ b.stage = "run" /\ served' = served \cup b.items
      /\ UNCHANGED <<pending, clock, depth, pc, job>>
  BY DEF Return, queueVars, loopVars
<1>2. /\ permits \in Nat /\ depth \in Nat /\ Held \in Nat /\ InRecall \in Nat
      /\ lane.inFlight \in Nat /\ Cardinality(out) \in Nat
      /\ IsFiniteSet(LaneRun) /\ Cardinality(LaneRun) \in Nat
  BY CountTypes DEF Inv, OutInv
<1>3. Held' = Held /\ InRecall' = InRecall BY <1>1 DEF Held, InRecall, Quiesced
<1>4. b \in BatchT /\ b.items \subseteq Running BY <1>1 DEF Inv, CtlInv, WorkType, Running
<1>5. \A x \in out : x # b => x.items \cap b.items = {} BY DEF Inv, OutInv
<1>6. b.items \cap job.hand = {} BY <1>4 DEF Inv, PlaceInv
<1>7. Cardinality(out) = InTasks /\ lane.inFlight = Cardinality(LaneRun) + InRecall
  BY DEF Inv, CountInv
<1>8. CASE b.lane
  <2> DEFINE c == [b EXCEPT !.stage = "returned"]
  <2>1. /\ lane' \in OnReturn(lane, b.answered) /\ out' = (out \ {b}) \cup {c} /\ permits' = permits
    BY <1>8 DEF Return
  <2>2. c.items = b.items /\ c.stage = "returned" /\ c.lane = b.lane /\ c # b
    BY <1>1, <1>4 DEF BatchT
  <2> HIDE DEF c
  <2>3. c \notin out /\ IsFiniteSet(out') /\ Cardinality(out') = Cardinality(out)
    BY <2>1, <2>2, Replaced DEF Inv
  <2>4. Running' = Running \ b.items
    <3>1. ASSUME NEW i PROVE i \in Running' <=> i \in Running \ b.items
      BY <1>1, <1>5, <2>1, <2>2 DEF Running
    <3> QED BY <3>1
  <2>5. PlaceInv'
    <3>1. job'.hand = job.hand \ b.items BY <1>1, <1>6
    <3> QED BY <1>1, <1>4, <2>4, <3>1, Served DEF Inv
  <2>6. OutInv'
    <3>1. \A x \in out' : x.items # {} /\ (x.stage # "run" => x.lane /\ x.items \subseteq served')
      BY <1>1, <1>8, <2>1, <2>2 DEF Inv, OutInv
    <3>2. ASSUME NEW x \in out', NEW y \in out', x # y PROVE x.items \cap y.items = {}
      BY <1>5, <2>1, <2>2, <3>2 DEF Inv, OutInv
    <3> QED BY <2>3, <3>1, <3>2 DEF OutInv
  <2>7. LaneRun' = LaneRun \ {b} /\ b \in LaneRun BY <1>1, <1>8, <2>1, <2>2 DEF LaneRun
  <2>8. Cardinality(LaneRun') = Cardinality(LaneRun) - 1 /\ Cardinality(LaneRun') \in Nat
    <3>1. Cardinality(LaneRun') = Cardinality(LaneRun) - 1 BY <1>2, <2>7, FS_RemoveElement
    <3>2. IsFiniteSet(LaneRun') BY <1>2, <2>7, FS_RemoveElement
    <3> QED BY <3>1, <3>2, FS_CardinalityType
  <2>9. lane'.inFlight = lane.inFlight - 1
    <3>1. lane.inFlight > 0 BY SMT, <1>2, <1>7, <2>8
    <3>2. b.answered \in Nat BY <1>4 DEF BatchT
    <3>3. lane'.inFlight = IF lane.inFlight = 0 THEN 0 ELSE lane.inFlight - 1
      BY <2>1, <3>2, LaneMethods DEF Inv, CtlInv, LaneType
    <3> QED BY SMT, <1>2, <3>1, <3>3
  <2>10. Cardinality(out') = InTasks' BY <1>1, <1>3, <1>7, <2>1, <2>3 DEF InTasks
  <2>11. lane'.inFlight = Cardinality(LaneRun') + InRecall' BY SMT, <1>2, <1>3, <1>7, <2>8, <2>9
  <2> QED BY <2>5, <2>6, <2>10, <2>11 DEF Inv, CountInv
<1>9. CASE ~b.lane
  <2>1. lane' = lane /\ out' = out \ {b} /\ permits' = permits + 1 BY <1>9 DEF Return
  <2>2. Running' = Running \ b.items
    <3>1. ASSUME NEW i PROVE i \in Running' <=> i \in Running \ b.items
      BY <1>1, <1>5, <2>1 DEF Running
    <3> QED BY <3>1
  <2>3. PlaceInv'
    <3>1. job'.hand = job.hand \ b.items BY <1>1, <1>6
    <3> QED BY <1>1, <1>4, <2>2, <3>1, Served DEF Inv
  <2>4. IsFiniteSet(out') /\ Cardinality(out') = Cardinality(out) - 1
    BY <2>1, FS_RemoveElement DEF Inv, OutInv
  <2>5. OutInv' BY <1>1, <2>1, <2>4 DEF Inv, OutInv
  <2>6. LaneRun' = LaneRun BY <1>9, <2>1 DEF LaneRun
  <2>7. InTasks' = InTasks - 1 BY SMT, <1>1, <1>2, <1>3, <2>1 DEF InTasks
  <2>8. Cardinality(out') = InTasks' BY <1>7, <2>4, <2>7
  <2>9. lane'.inFlight = Cardinality(LaneRun') + InRecall' BY <1>3, <1>7, <2>1, <2>6
  <2> QED BY <2>3, <2>5, <2>8, <2>9 DEF Inv, CountInv
<1> QED BY <1>8, <1>9

\* So do the two steps that follow the return of a batch of the lane.
LEMMA NoteKeeps ==
  ASSUME Inv, CtlInv', NEW b \in out, NotifyReturn(b)
  PROVE  Inv'
<1> DEFINE c == [b EXCEPT !.stage = "noted"]
<1>1. /\ b.stage = "returned" /\ out' = (out \ {b}) \cup {c}
      /\ UNCHANGED <<pending, clock, permits, depth, lane, pc, job, served>>
  BY DEF NotifyReturn, queueVars, slotVars, loopVars
<1>2. b \in BatchT BY DEF Inv, CtlInv, WorkType
<1>3. c.items = b.items /\ c.stage = "noted" /\ c.lane = b.lane /\ c # b BY <1>1, <1>2 DEF BatchT
<1> HIDE DEF c
<1>4. c \notin out /\ IsFiniteSet(out') /\ Cardinality(out') = Cardinality(out)
  BY <1>1, <1>3, Replaced DEF Inv
<1>5. Held' = Held /\ InRecall' = InRecall BY <1>1 DEF Held, InRecall, Quiesced
<1>6. LaneRun' = LaneRun BY <1>1, <1>3 DEF LaneRun
<1>7. Running' = Running BY <1>1, <1>3 DEF Running
<1>8. OutInv'
  <2>1. \A x \in out' : x.items # {} /\ (x.stage # "run" => x.lane /\ x.items \subseteq served')
    BY <1>1, <1>3 DEF Inv, OutInv
  <2>2. ASSUME NEW x \in out', NEW y \in out', x # y PROVE x.items \cap y.items = {}
    BY <1>1, <1>3, <2>2 DEF Inv, OutInv
  <2> QED BY <1>4, <2>1, <2>2 DEF OutInv
<1>9. PlaceInv' BY <1>1, <1>7 DEF Inv, PlaceInv, Placed, Items
<1>10. CountInv' BY <1>1, <1>4, <1>5, <1>6 DEF Inv, CountInv, InTasks
<1> QED BY <1>8, <1>9, <1>10 DEF Inv

\* A slot that is freed was that of a batch that is out.
LEMMA FreeKeeps ==
  ASSUME Inv, CtlInv', NEW b \in out, FreeSlot(b)
  PROVE  Inv'
<1>1. /\ b.stage = "noted" /\ out' = out \ {b} /\ permits' = permits + 1
      /\ UNCHANGED <<pending, clock, depth, lane, pc, job, served>>
  BY DEF FreeSlot, queueVars, loopVars
<1>2. IsFiniteSet(out') /\ Cardinality(out') = Cardinality(out) - 1
  BY <1>1, FS_RemoveElement DEF Inv, OutInv
<1>3. Held' = Held /\ InRecall' = InRecall BY <1>1 DEF Held, InRecall, Quiesced
<1>4. LaneRun' = LaneRun BY <1>1 DEF LaneRun
<1>5. Running' = Running BY <1>1 DEF Running
<1>6. OutInv' BY <1>1, <1>2 DEF Inv, OutInv
<1>7. PlaceInv' BY SMT, <1>1, <1>5 DEF Inv, PlaceInv, Placed, Items
<1>8. permits \in Nat /\ depth \in Nat /\ Held \in Nat /\ Cardinality(out) \in Nat
  BY CountTypes DEF Inv, OutInv
<1>9. InTasks' = InTasks - 1 BY SMT, <1>1, <1>3, <1>8 DEF InTasks
<1>10. CountInv' BY <1>1, <1>2, <1>3, <1>4, <1>9 DEF Inv, CountInv
<1> QED BY <1>6, <1>7, <1>10 DEF Inv

\* Items that the loop runs itself go from its hand to the served ones.
LEMMA InlineKeeps ==
  ASSUME Inv, CtlInv', RunInline
  PROVE  Inv'
<1>1. /\ pc = "inline" /\ served' = served \cup job.hand /\ Continue(job)
      /\ UNCHANGED <<pending, clock, permits, depth, lane, out>>
  BY DEF RunInline, queueVars, slotVars
<1>2. job \in JobT BY DEF Inv, CtlInv, LoopType
<1>3. job'.hand = {} /\ (job.next = "final" => job'.budget = job.budget)
  BY <1>1, <1>2 DEF Continue, NoJob, JobT
<1>4. pc' = job.next /\ pc' \in {"top", "cont", "drainslot", "final"} BY <1>1, <1>2 DEF Continue, JobT
<1>5. Held' = Held /\ InRecall' = InRecall
  BY <1>1, <1>3, <1>4 DEF Held, InRecall, Holding, Quiesced
<1>6. Running' = Running /\ LaneRun' = LaneRun BY <1>1 DEF Running, LaneRun
<1>7. PlaceInv'
  <2>1. job'.hand = job.hand \ job.hand /\ Running' = Running \ job.hand
    BY <1>3, <1>6 DEF Inv, PlaceInv
  <2> QED BY <1>1, <2>1, Served DEF Inv
<1>8. OutInv' BY <1>1 DEF Inv, OutInv
<1>9. CountInv' BY <1>1, <1>5, <1>6 DEF Inv, CountInv, InTasks
<1> QED BY <1>7, <1>8, <1>9 DEF Inv

\* The items of a new request are new.
LEMMA AppendKeeps ==
  ASSUME Inv, CtlInv', NEW c \in Calls, NEW q \in Queues, NEW n \in Parts, Append(c, q, n)
  PROVE  Inv'
<1> DEFINE New == {[req |-> c, part |-> i, at |-> clock'] : i \in 1 .. n}
<1>1. /\ clock' = clock + n /\ pending' = [pending EXCEPT ![q] = @ \cup New]
      /\ UNCHANGED <<permits, depth, lane, pc, job, out, served>>
  BY DEF Append, slotVars, loopVars, workVars
<1>2. n \in Nat \ {0} /\ clock \in Nat BY SchedulerConstants DEF Inv, CtlInv, QueueType
<1>3. \A i \in New : i.at = clock' BY SMT
<1>4. IsFiniteSet(New) /\ Cardinality(New) = n
  <2> DEFINE f == [i \in 1 .. n |-> [req |-> c, part |-> i, at |-> clock']]
  <2>1. f \in Bijection(1 .. n, New)
    <3>1. f \in Surjection(1 .. n, New) BY DEF Surjection
    <3>2. \A i \in 1 .. n : f[i].part = i OBVIOUS
    <3>3. f \in [1 .. n -> New] OBVIOUS
    <3> HIDE DEF f, New
    <3>4. \A i, j \in 1 .. n : f[i] = f[j] => i = j BY <3>2
    <3>5. f \in Injection(1 .. n, New) BY <3>3, <3>4 DEF Injection, IsInjective
    <3> QED BY <3>1, <3>5 DEF Bijection
  <2>2. IsFiniteSet(1 .. n) /\ Cardinality(1 .. n) = n BY SMT, <1>2, FS_Interval
  <2> HIDE DEF f, New
  <2>3. ExistsBijection(1 .. n, New) BY <2>1 DEF ExistsBijection
  <2> QED BY <2>2, <2>3, FS_Bijection
<1> HIDE DEF New
<1>5. New \cap Placed = {} BY SMT, <1>1, <1>2, <1>3 DEF Inv, PlaceInv
<1>6. pending \in [Queues -> SUBSET ItemT] BY DEF Inv, CtlInv, QueueType
<1>7. pending'[q] = pending[q] \cup New /\ \A r \in Queues \ {q} : pending'[r] = pending[r]
  BY <1>1, <1>6
<1>8. Items' = Items \cup New
  <2>1. ASSUME NEW i PROVE i \in Items' <=> i \in Items \cup New BY <1>7 DEF Items
  <2> QED BY <2>1
<1>9. Running' = Running /\ LaneRun' = LaneRun BY <1>1 DEF Running, LaneRun
<1>10. Placed' = Placed \cup New BY <1>1, <1>8, <1>9 DEF Placed
<1>11. IsFiniteSet(Placed') /\ Cardinality(Placed') = clock'
  <2>1. IsFiniteSet(Placed) /\ Cardinality(Placed) = clock BY DEF Inv, PlaceInv
  <2>2. Placed \cap New = {} BY <1>5
  <2>3. /\ IsFiniteSet(Placed \cup New)
        /\ Cardinality(Placed \cup New) = Cardinality(Placed) + Cardinality(New) - Cardinality(Placed \cap New)
    BY <1>4, <2>1, FS_Union
  <2>4. Cardinality(Placed \cap New) = 0 BY <2>2, FS_EmptySet
  <2> QED BY SMT, <1>1, <1>2, <1>4, <1>10, <2>1, <2>3, <2>4
<1>12. \A i \in Placed' : i.at <= clock'
  <2>1. ASSUME NEW i \in Placed PROVE i.at <= clock'
    <3>1. i \in ItemT
      <4>1. Items \subseteq ItemT BY <1>6 DEF Items
      <4>2. job.hand \subseteq ItemT /\ served \subseteq ItemT
        BY DEF Inv, CtlInv, LoopType, JobT, WorkType
      <4>3. Running \subseteq ItemT BY DEF Inv, CtlInv, WorkType, BatchT, Running
      <4> QED BY <4>1, <4>2, <4>3 DEF Placed
    <3>2. i.at <= clock /\ i.at \in Nat BY <3>1 DEF Inv, PlaceInv, ItemT
    <3> QED BY SMT, <1>1, <1>2, <3>2
  <2>2. clock' <= clock' BY SMT, <1>1, <1>2
  <2> QED BY <1>3, <1>10, <2>1, <2>2
<1>13. /\ Items' \cap job'.hand = {} /\ Items' \cap Running' = {} /\ Items' \cap served' = {}
       /\ job'.hand \cap Running' = {} /\ job'.hand \cap served' = {} /\ Running' \cap served' = {}
  BY <1>1, <1>5, <1>8, <1>9 DEF Inv, PlaceInv, Placed
<1>14. ASSUME NEW p \in Queues, NEW r \in Queues, p # r PROVE pending'[p] \cap pending'[r] = {}
  <2>1. pending[p] \cap pending[r] = {} BY <1>14 DEF Inv, PlaceInv
  <2>2. pending[p] \cap New = {} /\ pending[r] \cap New = {} BY <1>5 DEF Placed, Items
  <2> QED BY <1>7, <1>14, <2>1, <2>2
<1>15. PlaceInv' BY <1>11, <1>12, <1>13, <1>14 DEF PlaceInv
<1>16. OutInv' BY <1>1 DEF Inv, OutInv
<1>17. Held' = Held /\ InRecall' = InRecall BY <1>1 DEF Held, InRecall, Quiesced
<1>18. CountInv' BY <1>1, <1>9, <1>17 DEF Inv, CountInv, InTasks
<1> QED BY <1>15, <1>16, <1>18 DEF Inv

\* The invariant holds at the start.
LEMMA InvInit == Init => Inv
<1> SUFFICES ASSUME Init PROVE Inv OBVIOUS
<1>1. CtlInv BY CtlInit
<1>2. Items = {} /\ Running = {} /\ Placed = {} /\ LaneRun = {} /\ job.hand = {}
  <2>1. pending = [q \in Queues |-> {}] /\ out = {} /\ served = {} /\ job = NoJob BY DEF Init
  <2>2. Items = {} BY <2>1 DEF Items
  <2>3. Running = {} /\ LaneRun = {} BY <2>1 DEF Running, LaneRun
  <2>4. job.hand = {} BY <2>1 DEF NoJob
  <2> QED BY <2>1, <2>2, <2>3, <2>4 DEF Placed
<1>3. IsFiniteSet({}) /\ Cardinality({}) = 0 BY FS_EmptySet
<1>4. PlaceInv BY <1>2, <1>3 DEF Init, PlaceInv
<1>5. OutInv BY <1>3 DEF Init, OutInv
<1>6. Held = 0 /\ InRecall = 0 BY DEF Init, Held, InRecall, Holding, Quiesced
<1>7. depth \in Nat /\ permits = depth /\ out = {} /\ lane.inFlight = 0
  BY <1>1 DEF Init, CtlInv, SlotType
<1>8. CountInv BY SMT, <1>2, <1>3, <1>6, <1>7 DEF CountInv, InTasks
<1> QED BY <1>1, <1>4, <1>5, <1>8 DEF Inv

\* Every step keeps it.
LEMMA InvStep == Inv /\ [Next]_vars => Inv'
<1> SUFFICES ASSUME Inv, [Next]_vars PROVE Inv' OBVIOUS
<1>1. CtlInv' BY CtlStep DEF Inv
<1>2. ASSUME Idle \/ Transfers PROVE Inv'
  BY <1>1, <1>2, IdleKeeps, MovesKeep DEF Transfers
<1>3. pc = "recall" => lane.inFlight > 0
  <2>1. InRecall = 1 /\ lane.inFlight = Cardinality(LaneRun) + InRecall /\ Cardinality(LaneRun) \in Nat => lane.inFlight > 0
    BY SMT
  <2>2. Cardinality(LaneRun) \in Nat BY CountTypes DEF Inv, OutInv
  <2> QED BY <2>1, <2>2 DEF Inv, CountInv, InRecall
<1>4. CASE \/ Top \/ ReserveSlot("laneslot", "arm") \/ ReserveSlot("slot", "carm")
           \/ ReserveSlot("cont", "snapshot") \/ ReserveSlot("drainslot", "drain")
           \/ Arm("arm", "pick") \/ PickOldest("pick", "view", "await") \/ GateView \/ Judge \/ Wake
           \/ Arm("carm", "cpick") \/ PickOldest("cpick", "get", "cwait") \/ Snapshot
           \/ Cancel \/ Quiesce \/ AcquireAll \/ Exit
           \/ (\E c \in Calls : Caller(c)) \/ Ripen \/ CloseWindow \/ GrowTo \/ Shutdown
           \/ (\E w \in Widths : RecordWidth(w)) \/ UNCHANGED vars
  BY <1>1, <1>2, <1>4, IdleSteps DEF Inv
<1>5. CASE Take \/ Send \/ Recall \/ SpawnSingle \/ GetBatch \/ Drain \/ FinalDrain
  BY <1>1, <1>2, <1>3, <1>5, MovingSteps DEF Inv
<1>6. CASE RunInline BY <1>1, <1>6, InlineKeeps
<1>7. CASE \E b \in out : Task(b) BY <1>1, <1>7, ReturnKeeps, NoteKeeps, FreeKeeps DEF Task
<1>8. CASE \E c \in Calls, q \in Queues, n \in Parts : Append(c, q, n) BY <1>1, <1>8, AppendKeeps
<1> QED BY <1>4, <1>5, <1>6, <1>7, <1>8 DEF Next, Progress, Loop

\* The invariant is one of the specification.
LEMMA InvHolds == Spec => []Inv
BY InvInit, InvStep, PTL DEF Spec

\* No slot of the pipeline is lost or made up, whatever the widths reported,
\* the waits that shutdown cancels and the order of returns
\* (scheduler_drain_loop, ModelPipeline).
THEOREM SlotsBalanceHolds == Spec => []SlotsBalance
<1>1. Inv => SlotsBalance
  <2> SUFFICES ASSUME Inv PROVE SlotsBalance OBVIOUS
  <2>1. permits \in Nat /\ depth \in Nat /\ Held \in Nat /\ Cardinality(out) \in Nat
    BY CountTypes DEF Inv, OutInv
  <2>2. Cardinality(out) = depth - permits - Held BY DEF Inv, CountInv, InTasks
  <2>3. permits + Cardinality(out) + Held = depth BY SMT, <2>1, <2>2
  <2> QED BY <2>3 DEF SlotsBalance, Held
<1> QED BY <1>1, InvHolds, PTL

\* The lane counts the batches it has out, also when a batch that it let go
\* leaves the other way (lane.rs: in_flight).
THEOREM LaneCountHolds == Spec => []LaneCountsItsBatches
<1>1. Inv => LaneCountsItsBatches
  BY DEF Inv, CountInv, LaneRun, InRecall, LaneCountsItsBatches
<1> QED BY <1>1, InvHolds, PTL

\* If the pipeline has not grown since the loop asked for its slots, then
\* nothing is with the engine once the final drain has begun.
QuietFinalDrain == Quiesced /\ depth = job.budget => out = {}

\* The final drain does not overlap a dispatch, as the comment on quiesce in
\* scheduler_drain_loop says, unless a wider engine was reported meanwhile.
THEOREM QuietFinalDrainHolds == Spec => []QuietFinalDrain
<1>1. Inv => QuietFinalDrain
  <2> SUFFICES ASSUME Inv, Quiesced, depth = job.budget PROVE out = {} BY DEF QuietFinalDrain
  <2>1. permits \in Nat /\ depth \in Nat /\ Cardinality(out) \in Nat BY CountTypes DEF Inv, OutInv
  <2>2. Held = depth BY DEF Quiesced, Held, Holding
  <2>3. Cardinality(out) = depth - permits - Held BY DEF Inv, CountInv, InTasks
  <2>4. Cardinality(out) = 0 BY SMT, <2>1, <2>2, <2>3
  <2> QED BY <2>4, FS_EmptySet DEF Inv, OutInv
<1> QED BY <1>1, InvHolds, PTL

\* Every submitted item is in one place (spawn_scheduler_batch, the cancelled
\* waits, the final drain).
THEOREM ItemsInOnePlaceHolds == Spec => []ItemsInOnePlace
<1>1. Inv => ItemsInOnePlace
  <2> SUFFICES ASSUME Inv PROVE ItemsInOnePlace OBVIOUS
  <2> DEFINE A == Items \cup job.hand
             B == A \cup Running
  <2>1. IsFiniteSet(Placed) /\ Cardinality(Placed) = clock BY DEF Inv, PlaceInv
  <2>2. Placed = B \cup served BY DEF Placed
  <2>3. /\ IsFiniteSet(Items) /\ IsFiniteSet(job.hand) /\ IsFiniteSet(Running) /\ IsFiniteSet(served)
        /\ IsFiniteSet(A) /\ IsFiniteSet(B)
    BY SMT, <2>1, <2>2, FS_Subset
  <2>4. /\ Cardinality(Items) \in Nat /\ Cardinality(job.hand) \in Nat /\ Cardinality(Running) \in Nat
        /\ Cardinality(served) \in Nat /\ Cardinality(A) \in Nat /\ Cardinality(B) \in Nat
    BY <2>3, FS_CardinalityType
  <2>5. Items \cap job.hand = {} /\ A \cap Running = {} /\ B \cap served = {} BY DEF Inv, PlaceInv
  <2>6. Cardinality({}) = 0 BY FS_EmptySet
  <2>7. Cardinality(A) = Cardinality(Items) + Cardinality(job.hand) - Cardinality(Items \cap job.hand)
    BY <2>3, FS_Union
  <2> HIDE DEF A
  <2>8. Cardinality(B) = Cardinality(A) + Cardinality(Running) - Cardinality(A \cap Running)
    BY <2>3, FS_Union
  <2> HIDE DEF B
  <2>9. Cardinality(B \cup served) = Cardinality(B) + Cardinality(served) - Cardinality(B \cap served)
    BY <2>3, FS_Union
  <2>10. Cardinality(Items \cap job.hand) = 0 /\ Cardinality(A \cap Running) = 0 /\ Cardinality(B \cap served) = 0
    BY <2>5, <2>6
  <2>11. Cardinality(A) = Cardinality(Items) + Cardinality(job.hand) BY SMT, <2>4, <2>7, <2>10
  <2>12. Cardinality(B) = Cardinality(A) + Cardinality(Running) BY SMT, <2>4, <2>8, <2>10
  <2>13. clock = Cardinality(B) + Cardinality(served)
    <3>1. Cardinality(B \cup served) = clock BY <2>1, <2>2
    <3> QED BY SMT, <2>4, <2>9, <2>10, <3>1
  <2>14. Cardinality(Items) + Cardinality(job.hand) + Cardinality(Running) + Cardinality(served) = clock
    BY <2>4, <2>11, <2>12, <2>13
  <2> QED BY <2>1, <2>14 DEF ItemsInOnePlace, Placed, Running
<1> QED BY <1>1, InvHolds, PTL

-----------------------------------------------------------------------------
(* The choice of the queue and the verdict of the lane. *)

\* The queue picked is still the oldest, the one seen full is still full, and
\* what the verdict saw of the lane still holds.
OldestInv == pc \in {"view", "judge", "take", "get"} => \A r \in Busy : Head(job.queue) <= Head(r)
HeldInv ==
  /\ pc = "judge" /\ job.full => Full(job.queue)
  /\ pc = "take" => Full(job.queue) \/ lane.inFlight = 0 \/ lane.continues
  /\ pc = "send" => Cardinality(job.hand) = Cap \/ lane.inFlight = 0 \/ lane.continues

\* Outside the loop nothing leaves a queue, no batch is added to the lane, and
\* it does not forget that a batch left part of a request behind.
Bystands ==
  /\ UNCHANGED <<pc, job>>
  /\ lane.inFlight = 0 => lane'.inFlight = 0
  /\ lane'.continues = lane.continues

\* The steps of the callers, the tasks and the environment are such.
LEMMA BystanderSteps ==
  ASSUME CtlInv,
         \/ \E c \in Calls : Caller(c)
         \/ \E b \in out : Task(b)
         \/ Ripen \/ CloseWindow \/ GrowTo \/ Shutdown
         \/ \E w \in Widths : RecordWidth(w)
         \/ UNCHANGED vars
  PROVE  Bystands /\ pending' = pending
<1>1. ASSUME UNCHANGED <<pc, job, lane, pending>> PROVE Bystands /\ pending' = pending BY <1>1 DEF Bystands
<1>2. ASSUME NEW c \in Calls, Caller(c) PROVE Bystands /\ pending' = pending
  <2>1. UNCHANGED <<pc, job, pending>> BY <1>2 DEF Caller, TellLane, Notify, loopVars, queueVars
  <2>2. lane' \in OnArrival(lane) \/ lane' = lane BY <1>2 DEF Caller, TellLane, Notify
  <2>3. lane'.inFlight = lane.inFlight /\ lane'.continues = lane.continues
    BY <2>2, LaneMethods DEF CtlInv, LaneType
  <2> QED BY <2>1, <2>3 DEF Bystands
<1>3. ASSUME NEW b \in out, Task(b) PROVE Bystands /\ pending' = pending
  <2>1. UNCHANGED <<pc, job, pending>> BY <1>3 DEF Task, Return, NotifyReturn, FreeSlot, loopVars, queueVars
  <2>2. lane' \in OnReturn(lane, b.answered) \/ lane' = lane BY <1>3 DEF Task, Return, NotifyReturn, FreeSlot
  <2>3. b.answered \in Nat BY DEF CtlInv, WorkType, BatchT
  <2>4. (lane.inFlight = 0 => lane'.inFlight = 0) /\ lane'.continues = lane.continues
    BY <2>2, <2>3, LaneMethods DEF CtlInv, LaneType
  <2> QED BY <2>1, <2>4 DEF Bystands
<1>4. CASE Ripen BY <1>1, <1>4 DEF Ripen, loopVars
<1>5. CASE CloseWindow
  <2>1. lane'.inFlight = lane.inFlight /\ lane'.continues = lane.continues
    BY <1>5 DEF CloseWindow, CtlInv, LaneType, LaneT
  <2> QED BY <1>5, <2>1 DEF CloseWindow, Bystands, loopVars, queueVars
<1>6. CASE GrowTo BY <1>1, <1>6 DEF GrowTo, loopVars, queueVars
<1>7. CASE Shutdown BY <1>1, <1>7 DEF Shutdown, loopVars, queueVars
<1>8. ASSUME NEW w \in Widths, RecordWidth(w) PROVE Bystands /\ pending' = pending
  BY <1>1, <1>8 DEF RecordWidth, loopVars, queueVars
<1>9. CASE UNCHANGED vars BY <1>1, <1>9 DEF vars, loopVars, queueVars
<1> QED BY <1>2, <1>3, <1>4, <1>5, <1>6, <1>7, <1>8, <1>9

\* The other steps of the loop do not lead to a place of these invariants.
LEMMA LeadsElsewhere ==
  ASSUME CtlInv,
         \/ Top \/ ReserveSlot("laneslot", "arm") \/ ReserveSlot("slot", "carm")
         \/ ReserveSlot("cont", "snapshot") \/ ReserveSlot("drainslot", "drain")
         \/ Arm("arm", "pick") \/ Wake \/ Send \/ Recall \/ SpawnSingle \/ RunInline
         \/ Arm("carm", "cpick") \/ GetBatch \/ Snapshot \/ Drain
         \/ Cancel \/ Quiesce \/ AcquireAll \/ FinalDrain \/ Exit
  PROVE  pc' \notin {"view", "judge", "take", "get", "send"}
<1>1. job.next \in {"top", "cont", "drainslot", "final"} BY DEF CtlInv, LoopType, JobT
<1>2. ASSUME NEW j, j.next \in {"top", "cont", "drainslot", "final"}, SpawnBatch(j)
      PROVE  pc' \notin {"view", "judge", "take", "get", "send"}
  <2>1. pc' = j.next \/ pc' = "single" BY <1>2 DEF SpawnBatch, Spawn, Continue
  <2> QED BY <1>2, <2>1
<1>3. CASE \/ Top \/ ReserveSlot("laneslot", "arm") \/ ReserveSlot("slot", "carm")
           \/ ReserveSlot("cont", "snapshot") \/ ReserveSlot("drainslot", "drain")
           \/ Arm("arm", "pick") \/ Arm("carm", "cpick") \/ Wake \/ Send
  BY <1>3 DEF Top, ReserveSlot, Arm, Wake, Send, Goto, GoTop
<1>4. CASE Snapshot \/ Cancel \/ Quiesce \/ AcquireAll \/ FinalDrain \/ Exit
  BY <1>4 DEF Snapshot, Cancel, Quiesce, AcquireAll, FinalDrain, Exit, Goto, GoTop
<1>5. CASE Recall
  <2> DEFINE j == [job EXCEPT !.answered = 0, !.remainder = FALSE]
  <2>1. SpawnBatch(j) BY <1>5 DEF Recall
  <2>2. j.next = job.next BY DEF CtlInv, LoopType, JobT
  <2> HIDE DEF j
  <2> QED BY SMT, <1>1, <1>2, <2>1, <2>2
<1>6. CASE SpawnSingle
  <2>1. pc' \in {"inline", "single", job.next} BY <1>6 DEF SpawnSingle, Spawn, Continue, Goto
  <2> QED BY <1>1, <2>1
<1>7. CASE RunInline BY <1>1, <1>7 DEF RunInline, Continue
<1>8. CASE GetBatch
  <2>1. PICK B : SpawnBatch([job EXCEPT !.hand = B, !.next = "cont"]) BY <1>8 DEF GetBatch
  <2> DEFINE j == [job EXCEPT !.hand = B, !.next = "cont"]
  <2>2. j.next = "cont" BY DEF CtlInv, LoopType, JobT
  <2>3. SpawnBatch(j) BY <2>1
  <2> HIDE DEF j
  <2> QED BY SMT, <1>2, <2>2, <2>3
<1>9. CASE Drain
  <2>1. PICK B, n, x : x \in {"drainslot", "top"} /\ SpawnBatch([job EXCEPT !.hand = B, !.budget = n, !.next = x])
    BY <1>9 DEF Drain
  <2> DEFINE j == [job EXCEPT !.hand = B, !.budget = n, !.next = x]
  <2>2. j.next = x BY DEF CtlInv, LoopType, JobT
  <2>3. SpawnBatch(j) BY <2>1
  <2> HIDE DEF j
  <2> QED BY SMT, <1>2, <2>1, <2>2, <2>3
<1> QED BY <1>3, <1>4, <1>5, <1>6, <1>7, <1>8, <1>9

\* A request that arrives changes no head of a queue that has one, and its own
\* is the youngest.
LEMMA ArrivalsAreYounger ==
  ASSUME Inv, CtlInv', NEW c \in Calls, NEW p \in Queues, NEW n \in Parts, Append(c, p, n)
  PROVE  /\ Busy \subseteq Busy' /\ \A q \in Busy : Head(q)' = Head(q)
         /\ \A r \in Busy' \ Busy : \A q \in Busy : Head(q) <= Head(r)'
<1> DEFINE New == {[req |-> c, part |-> i, at |-> clock'] : i \in 1 .. n}
<1>1. QueueType /\ QueueType' BY DEF Inv, CtlInv
<1>2. n \in Nat \ {0} /\ clock \in Nat /\ clock' = clock + n
  BY <1>1, SchedulerConstants DEF QueueType, Append
<1>3. pending' = [pending EXCEPT ![p] = @ \cup New] BY DEF Append
<1>4. \A i \in New : i.at = clock' BY SMT
<1> HIDE DEF New
<1>5. pending'[p] = pending[p] \cup New /\ \A r \in Queues \ {p} : pending'[r] = pending[r]
  BY <1>1, <1>3 DEF QueueType
<1>6. Busy \subseteq Busy' BY <1>5 DEF Busy
<1>7. ASSUME NEW q \in Busy PROVE Head(q) \in Nat /\ Head(q) <= clock /\ Head(q)' = Head(q)
  <2>1. /\ Head(q) \in Nat /\ \A i \in pending[q] : Head(q) <= i.at
        /\ \E i \in pending[q] : i.at = Head(q)
    BY <1>1, HeadFacts
  <2>2. Head(q) <= clock BY <2>1 DEF Inv, PlaceInv, Placed, Items, Busy
  <2>3. q \in Busy' BY <1>6
  <2>4. /\ Head(q)' \in Nat /\ \A i \in pending'[q] : Head(q)' <= i.at
        /\ \E i \in pending'[q] : i.at = Head(q)'
    BY <1>1, <2>3, HeadFactsNext
  <2>5. pending[q] \subseteq pending'[q] /\ \A i \in pending'[q] \ pending[q] : i.at = clock'
    BY <1>4, <1>5 DEF Busy
  <2>6. Head(q)' <= Head(q) BY <2>1, <2>4, <2>5
  <2>7. Head(q) <= Head(q)'
    <3>1. PICK i \in pending'[q] : i.at = Head(q)' BY <2>4
    <3>2. CASE i \in pending[q] BY <2>1, <3>1, <3>2
    <3>3. CASE i \notin pending[q]
      <4>1. Head(q)' = clock' BY <2>5, <3>1, <3>3
      <4> QED BY SMT, <1>2, <2>1, <2>2, <4>1
    <3> QED BY <3>2, <3>3
  <2> QED BY SMT, <2>1, <2>2, <2>4, <2>6, <2>7
<1>8. ASSUME NEW r \in Busy' \ Busy, NEW q \in Busy PROVE Head(q) <= Head(r)'
  <2>1. r \in Queues /\ pending[r] = {} BY DEF Busy
  <2>2. \A i \in pending'[r] : i.at = clock' BY <1>4, <1>5, <2>1
  <2>3. Head(r)' = clock' BY <1>1, <2>2, HeadFactsNext
  <2> QED BY SMT, <1>2, <1>7, <2>3
<1> QED BY <1>6, <1>7, <1>8

\* Both survive every step.
LEMMA ChoiceStep ==
  ASSUME Inv, Inv', OldestInv, HeldInv, [Next]_vars
  PROVE  OldestInv' /\ HeldInv'
<1>1. CtlInv /\ CtlInv' /\ QueueType /\ LoopInv /\ job \in JobT BY DEF Inv, CtlInv, LoopType
<1>2. ASSUME pending' = pending, pc' \in {"view", "judge", "take", "get"} => job'.queue = job.queue,
             pc' \in {"view", "judge", "take", "get"} => pc \in {"view", "judge", "take", "get"}
      PROVE  OldestInv'
  BY <1>2 DEF OldestInv, Busy, Head
<1>3. CASE \/ \E c \in Calls : Caller(c)
           \/ \E b \in out : Task(b)
           \/ Ripen \/ CloseWindow \/ GrowTo \/ Shutdown
           \/ \E w \in Widths : RecordWidth(w)
           \/ UNCHANGED vars
  <2>1. Bystands /\ pending' = pending BY <1>1, <1>3, BystanderSteps
  <2>2. OldestInv' BY <1>2, <2>1 DEF Bystands
  <2>3. HeldInv' BY <2>1 DEF HeldInv, Full, Bystands
  <2> QED BY <2>2, <2>3
<1>4. ASSUME NEW c \in Calls, NEW p \in Queues, NEW n \in Parts, Append(c, p, n)
      PROVE  OldestInv' /\ HeldInv'
  <2>1. UNCHANGED <<pc, job, lane>> BY <1>4 DEF Append, loopVars
  <2>2. OldestInv'
    <3> SUFFICES ASSUME pc \in {"view", "judge", "take", "get"}, NEW r \in Busy'
                 PROVE  Head(job.queue)' <= Head(r)'
      BY <2>1 DEF OldestInv
    <3>1. PICK k \in Busy : k = job.queue BY <1>1 DEF LoopInv, Busy
    <3>2. Head(job.queue)' = Head(k)' BY <2>1, <3>1 DEF Head
    <3>3. /\ Head(k)' = Head(k)
          /\ \A q \in Busy : Head(q)' = Head(q)
          /\ r \notin Busy => Head(k) <= Head(r)'
      BY <1>1, <1>4, ArrivalsAreYounger
    <3>4. r \in Busy => Head(k) <= Head(r)
      BY <3>1 DEF OldestInv
    <3> QED BY <3>2, <3>3, <3>4
  <2>3. HeldInv'
    <3>1. \A r \in Queues : Full(r) => Full(r)'
      <4>1. \A r \in Queues : Cardinality(pending[r]) <= Cardinality(pending'[r]) BY <1>1, <1>4, AppendFacts
      <4>2. \A r \in Queues : Cardinality(pending[r]) \in Nat /\ Cardinality(pending'[r]) \in Nat
        BY <1>1, FS_CardinalityType DEF CtlInv, QueueType
      <4>3. Cap \in Nat BY SchedulerConstants
      <4> QED BY SMT, <4>1, <4>2, <4>3 DEF Full
    <3>2. pc \in {"judge", "take"} /\ Full(job.queue) => Full(job.queue)'
      <4> SUFFICES ASSUME pc \in {"judge", "take"}, Full(job.queue) PROVE Full(job.queue)' OBVIOUS
      <4>1. PICK k \in Queues : k = job.queue BY <1>1 DEF LoopInv
      <4>2. Full(k)' BY <3>1, <4>1
      <4> QED BY <2>1, <4>1, <4>2 DEF Full
    <3> QED BY <2>1, <3>2 DEF HeldInv
  <2> QED BY <2>2, <2>3
<1>5. CASE \/ Top \/ ReserveSlot("laneslot", "arm") \/ ReserveSlot("slot", "carm")
           \/ ReserveSlot("cont", "snapshot") \/ ReserveSlot("drainslot", "drain")
           \/ Arm("arm", "pick") \/ Wake \/ Send \/ Recall \/ SpawnSingle \/ RunInline
           \/ Arm("carm", "cpick") \/ GetBatch \/ Snapshot \/ Drain
           \/ Cancel \/ Quiesce \/ AcquireAll \/ FinalDrain \/ Exit
  <2>1. pc' \notin {"view", "judge", "take", "get", "send"} BY <1>1, <1>5, LeadsElsewhere
  <2> QED BY <2>1 DEF OldestInv, HeldInv
<1>6. ASSUME NEW from, NEW found, NEW empty, PickOldest(from, found, empty),
             found \in {"view", "get"}, empty \in {"await", "cwait"}
      PROVE  OldestInv' /\ HeldInv'
  <2>1. pending' = pending BY <1>6 DEF PickOldest, queueVars
  <2>2. CASE Busy = {}
    <3>1. pc' = empty BY <1>6, <2>2 DEF PickOldest, Goto
    <3> QED BY <1>6, <3>1 DEF OldestInv, HeldInv
  <2>3. CASE Busy # {}
    <3>1. pc' = found /\ job' = [job EXCEPT !.queue = OldestQueue] BY <1>6, <2>3 DEF PickOldest
    <3>2. PICK k \in Busy : k = OldestQueue /\ \A r \in Busy : Head(k) <= Head(r)
      BY <1>1, <2>3, OldestQueueFacts
    <3>3. job'.queue = k BY <1>1, <3>1, <3>2 DEF JobT
    <3>4. OldestInv' BY <2>1, <3>2, <3>3 DEF OldestInv, Busy, Head
    <3> QED BY <1>6, <3>1, <3>4 DEF HeldInv
  <2> QED BY <2>2, <2>3
<1>7. CASE GateView
  <2>1. /\ pc = "view" /\ pc' = "judge" /\ pending' = pending
        /\ \E x : job' = [job EXCEPT !.full = Full(job.queue), !.classic = x]
    BY <1>7 DEF GateView, queueVars
  <2>2. job'.queue = job.queue /\ job'.full = Full(job.queue) BY <1>1, <2>1 DEF JobT
  <2>3. OldestInv' BY <1>2, <2>1, <2>2
  <2>4. HeldInv' BY <2>1, <2>2 DEF HeldInv, Full
  <2> QED BY <2>3, <2>4
<1>8. CASE Judge
  <2>1. /\ pc = "judge" /\ pending' = pending /\ pc' = Verdict(lane')
        /\ \E x : job' = [job EXCEPT !.full = FALSE, !.classic = x]
    BY <1>8 DEF Judge, queueVars
  <2>2. job'.queue = job.queue BY <1>1, <2>1 DEF JobT
  <2>3. pc' \in {"take", "timed", "await"} BY <2>1 DEF Verdict
  <2>4. OldestInv' BY <1>2, <2>1, <2>2
  <2>5. pc' = "take" => job.full \/ ~(lane'.inFlight > 0) \/ lane'.continues
    BY SMT, <1>1, <2>1 DEF Verdict, Classic
  <2>6. lane'.inFlight \in Nat BY <1>1 DEF CtlInv, LaneType, LaneT
  <2>7. ~(lane'.inFlight > 0) => lane'.inFlight = 0 BY SMT, <2>6
  <2>8. HeldInv' BY <2>1, <2>2, <2>3, <2>5, <2>7 DEF HeldInv, Full
  <2> QED BY <2>4, <2>8
<1>9. CASE Take
  <2>1. PICK B \in Batches(job.queue, Cap) : \E x, y : job' = [job EXCEPT !.hand = B, !.answered = x, !.remainder = y]
    BY <1>9 DEF Take
  <2>2. pc = "take" /\ pc' = "send" /\ lane' = lane BY <1>9 DEF Take
  <2>3. job'.hand = B BY <1>1, <2>1 DEF JobT
  <2>4. job.queue \in Queues /\ pending[job.queue] # {} /\ Cap \in Nat \ {0}
    BY <1>1, <2>2, SchedulerConstants DEF LoopInv
  <2>5. Full(job.queue) => Cardinality(B) = Cap BY <1>1, <2>4, BatchFacts
  <2>6. HeldInv' BY <2>2, <2>3, <2>5 DEF HeldInv
  <2> QED BY <2>2, <2>6 DEF OldestInv
<1> QED BY <1>3, <1>4, <1>5, <1>6, <1>7, <1>8, <1>9 DEF Next, Progress, Loop

\* The invariant with both.
LEMMA ChoiceHolds == Spec => [](Inv /\ OldestInv /\ HeldInv)
<1>1. Init => Inv /\ OldestInv /\ HeldInv
  <2>1. Init => pc = "top" BY DEF Init
  <2> QED BY <2>1, InvInit DEF OldestInv, HeldInv
<1>2. (Inv /\ OldestInv /\ HeldInv) /\ [Next]_vars => (Inv /\ OldestInv /\ HeldInv)'
  BY InvStep, ChoiceStep
<1> QED BY <1>1, <1>2, PTL DEF Spec

\* The lane holds a partial batch back while one of its batches is with the
\* engine (lane.rs: verdict).
THEOREM HeldWhileBusyHolds == Spec => HeldWhileBusy
<1>1. Inv /\ OldestInv /\ HeldInv =>
        (pc = "send" /\ pc' # "send" /\ lane.inFlight > 0 => Cardinality(job.hand) = Cap \/ lane.continues)
  <2>1. Inv => lane.inFlight \in Nat BY DEF Inv, CtlInv, LaneType, LaneT
  <2> QED BY SMT, <2>1 DEF HeldInv
<1> QED BY <1>1, ChoiceHolds, PTL DEF HeldWhileBusy

\* The queue a batch is taken from has the oldest head (engine.rs:
\* pick_oldest).
THEOREM FirstComeFirstServedHolds == Spec => FirstComeFirstServed
<1> DEFINE A == \A q \in Busy : pc \in {"take", "get", "final"} /\ ~(pending[q] \subseteq pending'[q]) =>
                  \A r \in Busy : Head(q) <= Head(r)
<1>1. ASSUME Inv, OldestInv, [Next]_vars PROVE A
  <2> SUFFICES ASSUME NEW q \in Busy, pc \in {"take", "get", "final"}, ~(pending[q] \subseteq pending'[q])
               PROVE  \A r \in Busy : Head(q) <= Head(r)
    OBVIOUS
  <2>1. CtlInv /\ QueueType /\ pending \in [Queues -> SUBSET ItemT] BY <1>1 DEF Inv, CtlInv, QueueType
  <2>2. pending' # pending OBVIOUS
  <2>3. ASSUME NEW p \in Queues, NEW B, pending' = [pending EXCEPT ![p] = @ \ B] PROVE p = q
    BY <2>1, <2>3 DEF Busy
  <2>4. CASE Take \/ GetBatch
    <3>1. job.queue \in Queues /\ pc \in {"take", "get"} BY <2>1, <2>4 DEF CtlInv, LoopInv, Take, GetBatch
    <3>2. \E B : pending' = [pending EXCEPT ![job.queue] = @ \ B] BY <2>4 DEF Take, GetBatch, Extract
    <3>3. job.queue = q BY <2>3, <3>1, <3>2
    <3> QED BY <1>1, <3>1, <3>3 DEF OldestInv
  <2>5. CASE FinalDrain
    <3>1. Busy # {} /\ \E B : pending' = [pending EXCEPT ![OldestQueue] = @ \ B] BY <2>5 DEF FinalDrain, Extract
    <3>2. OldestQueue \in Queues /\ \A r \in Busy : Head(OldestQueue) <= Head(r) BY <2>1, <3>1, OldestQueueFacts
    <3>3. OldestQueue = q BY <2>3, <3>1, <3>2
    <3> QED BY <3>2, <3>3
  <2>6. CASE \E c \in Calls, p \in Queues, n \in Parts : Append(c, p, n)
    <3>1. q \in Queues BY DEF Busy
    <3> QED BY <2>1, <2>6, <3>1, AppendFacts
  <2>7. CASE \/ \E c \in Calls : Caller(c)
             \/ \E b \in out : Task(b)
             \/ Ripen \/ CloseWindow \/ GrowTo \/ Shutdown
             \/ \E w \in Widths : RecordWidth(w)
             \/ UNCHANGED vars
    BY <2>1, <2>2, <2>7, BystanderSteps
  <2>8. CASE \/ Top \/ ReserveSlot("laneslot", "arm") \/ ReserveSlot("slot", "carm")
             \/ ReserveSlot("cont", "snapshot") \/ ReserveSlot("drainslot", "drain")
             \/ Arm("arm", "pick") \/ PickOldest("pick", "view", "await") \/ GateView \/ Judge \/ Wake
             \/ Arm("carm", "cpick") \/ PickOldest("cpick", "get", "cwait") \/ Snapshot
             \/ Cancel \/ Quiesce \/ AcquireAll \/ Exit
    <3>1. pending' = pending
      BY <2>8 DEF Top, ReserveSlot, Arm, PickOldest, GateView, Judge, Wake, Snapshot, Cancel, Quiesce,
                  AcquireAll, Exit, queueVars
    <3> QED BY <2>2, <3>1
  <2>9. CASE Send \/ Recall \/ SpawnSingle \/ RunInline \/ Drain
    BY <2>9 DEF Send, Recall, SpawnSingle, RunInline, Drain
  <2> QED BY <1>1, <2>4, <2>5, <2>6, <2>7, <2>8, <2>9 DEF Next, Progress, Loop
<1>2. (Inv /\ OldestInv /\ HeldInv) /\ [Next]_vars => [A]_vars BY <1>1
<1> HIDE DEF A
<1>3. Spec => [][A]_vars BY <1>2, ChoiceHolds, PTL DEF Spec
<1> QED BY <1>3 DEF FirstComeFirstServed, A
=============================================================================
