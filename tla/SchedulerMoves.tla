--------------------------- MODULE SchedulerMoves ---------------------------
(***************************************************************************)
(* Lemmas for SchedulerProofs on what a step moves: items between the      *)
(* queues, the loop's hand, the engine and the served ones, slots between  *)
(* the pipeline and their holders, and the lane's count.  Then the         *)
(* invariant that counts them, and that idle steps and moves preserve it.  *)
(***************************************************************************)
EXTENDS SchedulerControl

\* Most leaves are set reasoning without arithmetic, for Zenon; the others say SMT.
USE ZenonT(30), SMTT(30)

\* The slots of the loop, and whether it has counted a batch that is not out.
Held == IF pc \in Holding THEN 1 ELSE IF Quiesced THEN job.budget ELSE 0
InRecall == IF pc = "recall" THEN 1 ELSE 0
\* The slots that are neither free nor the loop's.
InTasks == depth - permits - Held

\* k slots go to dispatch tasks; k batches are added to the lane's count.
SlotsGo(k) == InTasks' = InTasks + k
LaneGains(k) == lane'.inFlight - InRecall' = lane.inFlight - InRecall + k

\* Nothing moves.
Idle ==
  /\ UNCHANGED <<pending, clock, out, served>> /\ job'.hand = job.hand
  /\ SlotsGo(0) /\ LaneGains(0)

\* The loop takes B from a queue, if anything, and starts a batch S of what it
\* then has in hand, if any.
Leaves(B) ==
  \/ B = {} /\ UNCHANGED pending
  \/ \E q \in Queues : B \subseteq pending[q] /\ pending' = [pending EXCEPT ![q] = @ \ B]
Moves(B, S, inLane, n) ==
  /\ Leaves(B) /\ S \subseteq job.hand \cup B /\ job'.hand = (job.hand \cup B) \ S
  /\ IF S = {} THEN out' = out /\ SlotsGo(0) /\ LaneGains(0)
     ELSE /\ out' = out \cup {Batch(S, inLane, n)} /\ SlotsGo(1)
          /\ LaneGains(IF inLane THEN 1 ELSE 0)
  /\ UNCHANGED <<clock, served>>

\* The steps of the loop that move no item, the callers' and the
\* environment's are idle.
LEMMA IdleSteps ==
  ASSUME CtlInv, CtlInv',
         \/ Top \/ ReserveSlot("laneslot", "arm") \/ ReserveSlot("slot", "carm")
         \/ ReserveSlot("cont", "snapshot") \/ ReserveSlot("drainslot", "drain")
         \/ Arm("arm", "pick") \/ PickOldest("pick", "view", "await") \/ GateView \/ Judge \/ Wake
         \/ Arm("carm", "cpick") \/ PickOldest("cpick", "get", "cwait") \/ Snapshot
         \/ Cancel \/ Quiesce \/ AcquireAll \/ Exit
         \/ (\E c \in Calls : Caller(c)) \/ Ripen \/ CloseWindow \/ GrowTo \/ Shutdown
         \/ (\E w \in Widths : RecordWidth(w)) \/ UNCHANGED vars
  PROVE  Idle
<1>1. /\ permits \in Nat /\ depth \in Nat /\ permits' \in Nat /\ depth' \in Nat
      /\ lane.inFlight \in Nat /\ lane'.inFlight \in Nat
      /\ job.budget \in Nat /\ job'.budget \in Nat
  BY DEF CtlInv, SlotType, LaneType, LaneT, LoopType, JobT
<1>2. NoJob.hand = {} /\ NoJob.next = "top" BY DEF NoJob
<1>3. ASSUME UNCHANGED <<pending, clock, out, served, permits, depth, lane>>, job'.hand = job.hand,
             Held' = Held, InRecall' = InRecall
      PROVE  Idle
  <2>1. Held \in Nat /\ InRecall \in Nat BY <1>1 DEF Held, InRecall
  <2> QED BY SMT, <1>1, <1>3, <2>1 DEF Idle, SlotsGo, LaneGains, InTasks
<1>4. CASE Top
  <2>1. /\ UNCHANGED <<pending, clock, out, served, permits, depth, lane, job>>
        /\ pc = "top" /\ pc' \in {"laneslot", "slot"}
    BY <1>4 DEF Top, Goto, queueVars, slotVars, workVars
  <2>2. Held' = Held /\ InRecall' = InRecall BY <2>1 DEF Held, InRecall, Holding, Quiesced
  <2> QED BY <1>3, <2>1, <2>2
<1>5. ASSUME NEW from, NEW to, ReserveSlot(from, to),
             from \in {"laneslot", "slot", "cont", "drainslot"}, to \in {"arm", "carm", "snapshot", "drain"}
      PROVE  Idle
  <2>1. UNCHANGED <<pending, clock, out, served, depth, lane>> /\ pc = from
    BY <1>5 DEF ReserveSlot, queueVars, workVars
  <2>2. Held = 0 /\ InRecall = 0 BY <1>5, <2>1 DEF Held, InRecall, Holding, Quiesced
  <2>3. job.hand = {} BY <1>5, <2>1 DEF CtlInv, LoopInv
  <2>4. CASE shutdown
    <3>1. pc' = "quiesce" /\ job' = NoJob /\ permits' = permits BY <1>5, <2>4 DEF ReserveSlot
    <3>2. Held' = 0 /\ InRecall' = 0 BY <3>1 DEF Held, InRecall, Holding, Quiesced
    <3> QED BY <1>2, <1>3, <2>1, <2>2, <2>3, <3>1, <3>2
  <2>5. CASE ~shutdown
    <3>1. pc' = to /\ job' = job /\ permits' = permits - 1 BY <1>5, <2>5 DEF ReserveSlot, Goto
    <3>2. Held' = 1 /\ InRecall' = 0 BY <1>5, <3>1 DEF Held, InRecall, Holding
    <3> QED BY SMT, <1>1, <2>1, <2>2, <3>1, <3>2 DEF Idle, SlotsGo, LaneGains, InTasks
  <2> QED BY <2>4, <2>5
<1>6. ASSUME NEW from, NEW to, Arm(from, to), from \in {"arm", "carm"}, to \in {"pick", "cpick"}
      PROVE  Idle
  <2>1. UNCHANGED <<pending, clock, out, served, permits, depth, lane, job>> /\ pc = from /\ pc' = to
    BY <1>6 DEF Arm, Goto, queueVars, slotVars, workVars
  <2>2. Held' = Held /\ InRecall' = InRecall BY <1>6, <2>1 DEF Held, InRecall, Holding
  <2> QED BY <1>3, <2>1, <2>2
<1>7. ASSUME NEW from, NEW found, NEW empty, PickOldest(from, found, empty),
             from \in {"pick", "cpick"}, {found, empty} \subseteq {"view", "await", "get", "cwait"}
      PROVE  Idle
  <2>1. /\ UNCHANGED <<pending, clock, out, served, permits, depth, lane>>
        /\ pc = from /\ pc' \in {found, empty}
        /\ job' = job \/ job' = [job EXCEPT !.queue = OldestQueue]
    BY <1>7 DEF PickOldest, Goto, queueVars, slotVars, workVars
  <2>2. Held' = Held /\ InRecall' = InRecall BY <1>7, <2>1 DEF Held, InRecall, Holding
  <2>3. job'.hand = job.hand BY <2>1 DEF CtlInv, LoopType, JobT
  <2> QED BY <1>3, <2>1, <2>2, <2>3
<1>8. CASE GateView
  <2>1. /\ UNCHANGED <<pending, clock, out, served, permits, depth, lane>>
        /\ pc = "view" /\ pc' = "judge"
        /\ \E f, c : job' = [job EXCEPT !.full = f, !.classic = c]
    BY <1>8 DEF GateView, queueVars, slotVars, workVars
  <2>2. Held' = Held /\ InRecall' = InRecall BY <2>1 DEF Held, InRecall, Holding
  <2>3. job'.hand = job.hand BY <2>1 DEF CtlInv, LoopType, JobT
  <2> QED BY <1>3, <2>1, <2>2, <2>3
<1>9. CASE Judge
  <2>1. /\ UNCHANGED <<pending, clock, out, served, permits, depth>>
        /\ pc = "judge" /\ pc' \in {"take", "timed", "await"}
        /\ \E f, c : job' = [job EXCEPT !.full = f, !.classic = c]
    BY <1>9 DEF Judge, Verdict, queueVars, slotVars, workVars
  <2>2. Held' = Held /\ InRecall' = InRecall BY <2>1 DEF Held, InRecall, Holding
  <2>3. job'.hand = job.hand BY <2>1 DEF CtlInv, LoopType, JobT
  <2>4. lane'.inFlight = lane.inFlight BY <1>9, LaneMethods DEF Judge, CtlInv, LaneType
  <2>5. Held \in Nat /\ InRecall \in Nat BY <1>1 DEF Held, InRecall
  <2> QED BY SMT, <1>1, <2>1, <2>2, <2>3, <2>4, <2>5 DEF Idle, SlotsGo, LaneGains, InTasks
<1>10. CASE Wake
  <2>1. /\ UNCHANGED <<pending, clock, out, served, permits, depth, lane>>
        /\ pc \in {"await", "timed", "cwait"} /\ pc' \in {"arm", "carm"} /\ job' = NoJob
    BY <1>10 DEF Wake, queueVars, slotVars, workVars
  <2>2. Held' = Held /\ InRecall' = InRecall BY <2>1 DEF Held, InRecall, Holding
  <2>3. job.hand = {} BY <2>1 DEF CtlInv, LoopInv
  <2> QED BY <1>2, <1>3, <2>1, <2>2, <2>3
<1>11. CASE Snapshot
  <2>1. UNCHANGED <<pending, clock, out, served, depth, lane>> /\ pc = "snapshot"
    BY <1>11 DEF Snapshot, queueVars, workVars
  <2>2. Held = 1 /\ InRecall = 0 BY <2>1 DEF Held, InRecall, Holding
  <2>3. job.hand = {} BY <2>1 DEF CtlInv, LoopInv
  <2>4. CASE pending[job.queue] = {}
    <3>1. pc' = "top" /\ job' = NoJob /\ permits' = permits + 1 BY <1>11, <2>4 DEF Snapshot, GoTop
    <3>2. Held' = 0 /\ InRecall' = 0 BY <3>1 DEF Held, InRecall, Holding, Quiesced
    <3> QED BY SMT, <1>1, <1>2, <2>1, <2>2, <2>3, <3>1, <3>2 DEF Idle, SlotsGo, LaneGains, InTasks
  <2>5. CASE pending[job.queue] # {}
    <3>1. pc' = "drain" /\ permits' = permits /\ job' = [job EXCEPT !.budget = Cardinality(pending[job.queue])]
      BY <1>11, <2>5 DEF Snapshot
    <3>2. Held' = 1 /\ InRecall' = 0 BY <3>1 DEF Held, InRecall, Holding
    <3>3. job'.hand = job.hand BY <3>1 DEF CtlInv, LoopType, JobT
    <3> QED BY <1>3, <2>1, <2>2, <3>1, <3>2, <3>3
  <2> QED BY <2>4, <2>5
<1>12. CASE Cancel
  <2>1. /\ UNCHANGED <<pending, clock, out, served, depth, lane>> /\ permits' = permits + 1
        /\ pc \in {"pick", "view", "take", "await", "timed", "cpick", "cwait", "get", "snapshot", "drain"}
        /\ pc' = "quiesce" /\ job' = NoJob
    BY <1>12 DEF Cancel, queueVars, workVars
  <2>2. Held = 1 /\ InRecall = 0 BY <2>1 DEF Held, InRecall, Holding
  <2>3. Held' = 0 /\ InRecall' = 0 BY <2>1 DEF Held, InRecall, Holding, Quiesced
  <2>4. job.hand = {} BY <2>1 DEF CtlInv, LoopInv
  <2> QED BY SMT, <1>1, <1>2, <2>1, <2>2, <2>3, <2>4 DEF Idle, SlotsGo, LaneGains, InTasks
<1>13. CASE Quiesce
  <2>1. /\ UNCHANGED <<pending, clock, out, served, permits, depth, lane>>
        /\ pc = "quiesce" /\ pc' = "acquire" /\ job' = [job EXCEPT !.budget = depth, !.next = "final"]
    BY <1>13 DEF Quiesce, queueVars, slotVars, workVars
  <2>2. Held' = Held /\ InRecall' = InRecall BY <2>1 DEF Held, InRecall, Holding, Quiesced
  <2>3. job'.hand = job.hand BY <2>1 DEF CtlInv, LoopType, JobT
  <2> QED BY <1>3, <2>1, <2>2, <2>3
<1>14. CASE AcquireAll
  <2>1. /\ UNCHANGED <<pending, clock, out, served, depth, lane, job>> /\ permits' = permits - job.budget
        /\ pc = "acquire" /\ pc' = "final"
    BY <1>14 DEF AcquireAll, Goto, queueVars, workVars
  <2>2. Held = 0 /\ InRecall = 0 BY <2>1 DEF Held, InRecall, Holding, Quiesced
  <2>3. Held' = job.budget /\ InRecall' = 0 BY <2>1 DEF Held, InRecall, Holding, Quiesced
  <2>4. SlotsGo(0)
    <3>1. permits' = permits - job.budget /\ depth' = depth /\ job.budget \in Nat /\ permits \in Nat /\ depth \in Nat
      BY <1>1, <2>1
    <3> QED BY SMT, <2>2, <2>3, <3>1 DEF SlotsGo, InTasks
  <2>5. LaneGains(0) BY SMT, <1>1, <2>1, <2>2, <2>3 DEF LaneGains
  <2> QED BY <2>1, <2>4, <2>5 DEF Idle
<1>15. CASE Exit
  <2>1. /\ UNCHANGED <<pending, clock, out, served, permits, depth, lane, job>>
        /\ pc = "final" /\ pc' = "exit"
    BY <1>15 DEF Exit, Goto, queueVars, slotVars, workVars
  <2>2. Held' = Held /\ InRecall' = InRecall BY <2>1 DEF Held, InRecall, Holding, Quiesced
  <2> QED BY <1>3, <2>1, <2>2
<1>16. ASSUME UNCHANGED <<pending, clock, out, served, permits, depth, lane, pc, job>> PROVE Idle
  <2>1. Held' = Held /\ InRecall' = InRecall BY <1>16 DEF Held, InRecall, Quiesced
  <2> QED BY <1>3, <1>16, <2>1
<1>17. ASSUME NEW c \in Calls, Caller(c) PROVE Idle
  <2>1. UNCHANGED <<pending, clock, out, served, permits, depth, pc, job>>
    BY <1>17 DEF Caller, TellLane, Notify, queueVars, slotVars, workVars, loopVars
  <2>2. lane'.inFlight = lane.inFlight
    BY <1>17, LaneMethods DEF Caller, TellLane, Notify, CtlInv, LaneType
  <2>3. Held' = Held /\ InRecall' = InRecall BY <2>1 DEF Held, InRecall, Quiesced
  <2>4. Held \in Nat /\ InRecall \in Nat BY <1>1 DEF Held, InRecall
  <2> QED BY SMT, <1>1, <2>1, <2>2, <2>3, <2>4 DEF Idle, SlotsGo, LaneGains, InTasks
<1>18. CASE Ripen BY <1>16, <1>18 DEF Ripen, slotVars, workVars, loopVars
<1>19. CASE CloseWindow
  <2>1. UNCHANGED <<pending, clock, out, served, permits, depth, pc, job>> /\ lane' = [lane EXCEPT !.over = TRUE]
    BY <1>19 DEF CloseWindow, queueVars, slotVars, workVars, loopVars
  <2>2. lane'.inFlight = lane.inFlight BY <2>1 DEF CtlInv, LaneType, LaneT
  <2>3. Held' = Held /\ InRecall' = InRecall BY <2>1 DEF Held, InRecall, Quiesced
  <2>4. Held \in Nat /\ InRecall \in Nat BY <1>1 DEF Held, InRecall
  <2> QED BY SMT, <1>1, <2>1, <2>2, <2>3, <2>4 DEF Idle, SlotsGo, LaneGains, InTasks
<1>20. CASE GrowTo
  <2>1. /\ UNCHANGED <<pending, clock, out, served, lane, pc, job>>
        /\ depth' = width /\ permits' = permits + width - depth /\ width \in Nat
    BY <1>20 DEF GrowTo, CtlInv, SlotType, queueVars, workVars, loopVars
  <2>2. Held' = Held /\ InRecall' = InRecall BY <2>1 DEF Held, InRecall, Quiesced
  <2>3. Held \in Nat /\ InRecall \in Nat BY <1>1 DEF Held, InRecall
  <2> QED BY SMT, <1>1, <2>1, <2>2, <2>3 DEF Idle, SlotsGo, LaneGains, InTasks
<1>21. CASE Shutdown BY <1>16, <1>21 DEF Shutdown, queueVars, slotVars, workVars, loopVars
<1>22. ASSUME NEW w \in Widths, RecordWidth(w) PROVE Idle
  BY <1>16, <1>22 DEF RecordWidth, queueVars, slotVars, workVars, loopVars
<1>23. CASE UNCHANGED vars BY <1>16, <1>23 DEF vars, queueVars, slotVars, workVars, loopVars
<1> QED BY <1>4, <1>5, <1>6, <1>7, <1>8, <1>9, <1>10, <1>11, <1>12, <1>13, <1>14, <1>15, <1>17, <1>18,
           <1>19, <1>20, <1>21, <1>22, <1>23

\* A spawned part of what is in hand moves it, to a place where the loop holds
\* no slot.
LEMMA SpawnMoves ==
  ASSUME NEW j \in JobT, NEW B, NEW S \in SUBSET j.hand, S # {},
         SpawnsPart(j, S), j.next # "final", j.hand = job.hand \cup B, Leaves(B),
         UNCHANGED <<clock, served>>
  PROVE  /\ Held' = 0 /\ InRecall' = 0
         /\ SlotsGo(1) /\ LaneGains(0) => Moves(B, S, FALSE, 0)
<1>1. pc' \in {"top", "cont", "drainslot", "single"} BY DEF SpawnsPart, JobT
<1>2. Held' = 0 /\ InRecall' = 0 BY <1>1 DEF Held, InRecall, Holding, Quiesced
<1>3. job'.hand = j.hand \ S
  <2>1. CASE S = j.hand /\ job' = (IF j.next = "top" THEN NoJob ELSE [j EXCEPT !.hand = {}])
    BY <2>1 DEF NoJob, JobT
  <2>2. CASE S # j.hand /\ job' = [j EXCEPT !.hand = j.hand \ S] BY <2>2 DEF JobT
  <2> QED BY <2>1, <2>2 DEF SpawnsPart
<1>4. out' = out \cup {Batch(S, FALSE, 0)} BY DEF SpawnsPart
<1> QED BY <1>2, <1>3, <1>4 DEF Moves

\* A move of items, whichever.
Transfers == \E B, S \in SUBSET ItemT, inLane \in BOOLEAN, n \in Nat : Moves(B, S, inLane, n)

\* The steps of the loop that move items, but for those it runs itself.  At
\* "recall" the lane counts the batch in hand.
LEMMA MovingSteps ==
  ASSUME CtlInv, CtlInv', pc = "recall" => lane.inFlight > 0,
         Take \/ Send \/ Recall \/ SpawnSingle \/ GetBatch \/ Drain \/ FinalDrain
  PROVE  Idle \/ Transfers
<1>1. /\ permits \in Nat /\ depth \in Nat /\ permits' \in Nat /\ depth' \in Nat
      /\ lane.inFlight \in Nat /\ lane'.inFlight \in Nat
      /\ job.budget \in Nat /\ job'.budget \in Nat
  BY DEF CtlInv, SlotType, LaneType, LaneT, LoopType, JobT
<1>2. Cap \in Nat \ {0} BY SchedulerConstants
<1>3. QueueType /\ job.hand \in SUBSET ItemT BY DEF CtlInv, LoopType, JobT
<1>4. CASE Take
  <2>1. PICK B \in Batches(job.queue, Cap) :
          /\ Extract(job.queue, B)
          /\ \E n, r : job' = [job EXCEPT !.hand = B, !.answered = n, !.remainder = r]
    BY <1>4 DEF Take
  <2>2. /\ pc = "take" /\ pc' = "send" /\ UNCHANGED <<lane, permits, depth, out, served, clock>>
        /\ pending' = [pending EXCEPT ![job.queue] = @ \ B]
    BY <1>4, <2>1 DEF Take, Extract, slotVars
  <2>3. job.queue \in Queues /\ pending[job.queue] # {} /\ job.hand = {} BY <2>2 DEF CtlInv, LoopInv
  <2>4. B \in SUBSET ItemT /\ B \subseteq pending[job.queue] BY <1>2, <1>3, <2>3, BatchFacts
  <2>5. job'.hand = B BY <2>1 DEF CtlInv, LoopType, JobT
  <2>6. SlotsGo(0) /\ LaneGains(0) BY SMT, <1>1, <2>2 DEF SlotsGo, LaneGains, InTasks, Held, InRecall, Holding
  <2>7. Leaves(B) BY <2>2, <2>3, <2>4 DEF Leaves
  <2>8. Moves(B, {}, FALSE, 0) BY <2>2, <2>3, <2>5, <2>6, <2>7 DEF Moves
  <2> QED BY <2>4, <2>8 DEF Transfers
<1>5. CASE Send
  <2>1. /\ pc = "send" /\ lane' = OnDispatch(lane, job.remainder)
        /\ UNCHANGED <<pending, clock, permits, depth, served>>
    BY <1>5 DEF Send, queueVars, slotVars
  <2>2. lane'.inFlight = lane.inFlight + 1
    <3>1. job.remainder \in BOOLEAN BY DEF CtlInv, LoopType, JobT
    <3> QED BY <2>1, <3>1, LaneMethods DEF CtlInv, LaneType
  <2>3. CASE width > 1
    <3>1. pc' = "recall" /\ job' = job /\ out' = out BY <1>5, <2>3 DEF Send, Goto
    <3>2. SlotsGo(0) /\ LaneGains(0) BY SMT, <1>1, <2>1, <2>2, <3>1 DEF SlotsGo, LaneGains, InTasks, Held, InRecall, Holding
    <3> QED BY <2>1, <3>1, <3>2 DEF Idle
  <2>4. CASE ~(width > 1)
    <3>1. out' = out \cup {Batch(job.hand, TRUE, job.answered)} /\ pc' = "top" /\ job' = NoJob
      BY <1>5, <2>4 DEF Send, GoTop
    <3>2. Held = 1 /\ InRecall = 0 BY <2>1 DEF Held, InRecall, Holding
    <3>3. Held' = 0 /\ InRecall' = 0 BY <3>1 DEF Held, InRecall, Holding, Quiesced
    <3>4. SlotsGo(1) /\ LaneGains(1) BY SMT, <1>1, <2>1, <2>2, <3>2, <3>3 DEF SlotsGo, LaneGains, InTasks
    <3>5. job.hand # {} /\ job'.hand = {} /\ job.answered \in Nat
      BY <2>1, <3>1 DEF CtlInv, LoopInv, LoopType, JobT, NoJob
    <3>6. Leaves({}) BY <2>1 DEF Leaves
    <3>7. Moves({}, job.hand, TRUE, job.answered) BY <2>1, <3>1, <3>4, <3>5, <3>6 DEF Moves
    <3> QED BY <1>3, <3>5, <3>7 DEF Transfers
  <2> QED BY <2>3, <2>4
<1>6. CASE Recall
  <2> DEFINE j == [job EXCEPT !.answered = 0, !.remainder = FALSE]
  <2>1. /\ pc = "recall" /\ lane' \in OnReturn(lane, 0) /\ SpawnBatch(j)
        /\ UNCHANGED <<pending, clock, permits, depth, served>>
    BY <1>6 DEF Recall, queueVars, slotVars
  <2>2. j \in JobT /\ j.hand = job.hand /\ j.next = job.next BY DEF CtlInv, LoopType, JobT
  <2>3. job.hand # {} /\ job.next # "final" BY <2>1 DEF CtlInv, LoopInv, Ends
  <2> HIDE DEF j
  <2>4. PICK S \in SUBSET j.hand : S # {} /\ SpawnsPart(j, S) BY <2>1, <2>2, <2>3, SpawnBatchFacts
  <2>5. Held = 1 /\ InRecall = 1 BY <2>1 DEF Held, InRecall, Holding
  <2>6. lane'.inFlight = lane.inFlight - InRecall BY SMT, <1>1, <2>1, <2>5, LaneMethods DEF CtlInv, LaneType
  <2>7. Leaves({}) /\ j.hand = job.hand \cup {} BY <2>1, <2>2 DEF Leaves
  <2>8. Held' = 0 /\ InRecall' = 0 BY <2>1, <2>2, <2>3, <2>4, <2>7, SpawnMoves
  <2>9. SlotsGo(1) /\ LaneGains(0) BY SMT, <1>1, <2>1, <2>5, <2>6, <2>8 DEF SlotsGo, LaneGains, InTasks
  <2>10. Moves({}, S, FALSE, 0) BY <2>1, <2>2, <2>3, <2>4, <2>7, <2>9, SpawnMoves
  <2> QED BY <1>3, <2>2, <2>10 DEF Transfers
<1>7. CASE SpawnSingle
  <2>1. pc = "single" /\ UNCHANGED <<pending, clock, lane, depth, served>> BY <1>7 DEF SpawnSingle, queueVars
  <2>2. job.hand # {} /\ job.next # "final" /\ job \in JobT BY <2>1 DEF CtlInv, LoopInv, LoopType, Ends
  <2>3. Held = 0 /\ InRecall = 0 BY <2>1 DEF Held, InRecall, Holding, Quiesced
  <2>4. CASE shutdown
    <3>1. pc' = "inline" /\ job' = job /\ out' = out /\ permits' = permits BY <1>7, <2>4 DEF SpawnSingle, Goto
    <3>2. Held' = 0 /\ InRecall' = 0 BY <2>2, <3>1 DEF Held, InRecall, Holding, Quiesced
    <3> QED BY SMT, <1>1, <2>1, <2>3, <3>1, <3>2 DEF Idle, SlotsGo, LaneGains, InTasks
  <2>5. CASE ~shutdown
    <3>1. PICK i \in job.hand : Spawn(job, {i}) BY <1>7, <2>5 DEF SpawnSingle
    <3>2. SpawnsPart(job, {i}) BY <3>1, SpawnFacts
    <3>3. permits' = permits - 1 BY <1>7, <2>5 DEF SpawnSingle
    <3>4. {i} \in SUBSET job.hand /\ {i} # {} /\ Leaves({}) /\ job.hand = job.hand \cup {} BY <2>1 DEF Leaves
    <3>5. Held' = 0 /\ InRecall' = 0 BY <2>1, <2>2, <3>2, <3>4, SpawnMoves
    <3>6. SlotsGo(1) /\ LaneGains(0) BY SMT, <1>1, <2>1, <2>3, <3>3, <3>5 DEF SlotsGo, LaneGains, InTasks
    <3>7. Moves({}, {i}, FALSE, 0) BY <2>1, <2>2, <3>2, <3>4, <3>6, SpawnMoves
    <3>8. {i} \in SUBSET ItemT /\ {} \in SUBSET ItemT BY <1>3
    <3> QED BY <3>7, <3>8 DEF Transfers
  <2> QED BY <2>4, <2>5
<1>8. CASE GetBatch
  <2>1. pc = "get" /\ UNCHANGED <<lane, permits, depth>> BY <1>8 DEF GetBatch, slotVars
  <2>2. PICK B \in Batches(job.queue, Cap) :
          Extract(job.queue, B) /\ SpawnBatch([job EXCEPT !.hand = B, !.next = "cont"])
    BY <1>8 DEF GetBatch
  <2>3. job.queue \in Queues /\ pending[job.queue] # {} /\ job.hand = {} BY <2>1 DEF CtlInv, LoopInv
  <2>4. B \in SUBSET ItemT /\ B # {} /\ B \subseteq pending[job.queue] BY <1>2, <1>3, <2>3, BatchFacts
  <2>5. Leaves(B) /\ UNCHANGED <<clock, served>> BY <2>2, <2>3, <2>4 DEF Extract, Leaves
  <2> DEFINE j == [job EXCEPT !.hand = B, !.next = "cont"]
  <2>6. j \in JobT /\ j.hand = B /\ j.next = "cont" BY <2>4 DEF CtlInv, LoopType, JobT
  <2>7. SpawnBatch(j) BY <2>2
  <2> HIDE DEF j
  <2>8. PICK S \in SUBSET j.hand : S # {} /\ SpawnsPart(j, S) BY <2>4, <2>6, <2>7, SpawnBatchFacts
  <2>9. Held = 1 /\ InRecall = 0 BY <2>1 DEF Held, InRecall, Holding
  <2>10. j.hand = job.hand \cup B BY <2>3, <2>6
  <2>11. Held' = 0 /\ InRecall' = 0 BY <2>5, <2>6, <2>8, <2>10, SpawnMoves
  <2>12. SlotsGo(1) /\ LaneGains(0) BY SMT, <1>1, <2>1, <2>9, <2>11 DEF SlotsGo, LaneGains, InTasks
  <2>13. Moves(B, S, FALSE, 0) BY <2>5, <2>6, <2>8, <2>10, <2>12, SpawnMoves
  <2> QED BY <2>4, <2>6, <2>13 DEF Transfers
<1>9. CASE Drain
  <2>1. pc = "drain" /\ UNCHANGED <<lane, permits, depth>> BY <1>9 DEF Drain, slotVars
  <2>2. PICK B \in Batches(job.queue, job.budget) :
          /\ Extract(job.queue, B)
          /\ SpawnBatch([job EXCEPT !.hand = B, !.budget = job.budget - Cardinality(B),
                                    !.next = IF job.budget - Cardinality(B) > 0 THEN "drainslot" ELSE "top"])
    BY <1>9 DEF Drain
  <2>3. /\ job.queue \in Queues /\ job.budget \in Nat \ {0} /\ job.hand = {}
        /\ job.budget <= Cardinality(pending[job.queue])
    BY SMT, <2>1 DEF CtlInv, LoopInv, Drains, LoopType, JobT
  <2>4. pending[job.queue] # {}
    <3>1. Cardinality({}) = 0 BY FS_EmptySet
    <3> QED BY SMT, <2>3, <3>1
  <2>5. /\ B \in SUBSET ItemT /\ B # {} /\ B \subseteq pending[job.queue]
        /\ Cardinality(B) \in Nat /\ Cardinality(B) <= job.budget
    BY <1>3, <2>3, <2>4, BatchFacts
  <2>6. Leaves(B) /\ UNCHANGED <<clock, served>> BY <2>2, <2>3, <2>5 DEF Extract, Leaves
  <2> DEFINE left == job.budget - Cardinality(B)
             nxt == IF left > 0 THEN "drainslot" ELSE "top"
             j == [job EXCEPT !.hand = B, !.budget = left, !.next = nxt]
  <2>7. left \in Nat /\ nxt \in {"drainslot", "top"} BY SMT, <2>3, <2>5
  <2>8. SpawnBatch(j) BY <2>2
  <2> HIDE DEF left, nxt
  <2>9. j \in JobT /\ j.hand = B /\ j.next = nxt BY <2>5, <2>7 DEF CtlInv, LoopType, JobT
  <2> HIDE DEF j
  <2>10. PICK S \in SUBSET j.hand : S # {} /\ SpawnsPart(j, S) BY <2>5, <2>8, <2>9, SpawnBatchFacts
  <2>11. Held = 1 /\ InRecall = 0 BY <2>1 DEF Held, InRecall, Holding
  <2>12. j.hand = job.hand \cup B /\ j.next # "final" BY <2>3, <2>7, <2>9
  <2>13. Held' = 0 /\ InRecall' = 0 BY <2>6, <2>9, <2>10, <2>12, SpawnMoves
  <2>14. SlotsGo(1) /\ LaneGains(0) BY SMT, <1>1, <2>1, <2>11, <2>13 DEF SlotsGo, LaneGains, InTasks
  <2>15. Moves(B, S, FALSE, 0) BY <2>6, <2>9, <2>10, <2>12, <2>14, SpawnMoves
  <2> QED BY <2>5, <2>9, <2>15 DEF Transfers
<1>10. CASE FinalDrain
  <2>1. /\ pc = "final" /\ pc' = "inline" /\ Busy # {} /\ UNCHANGED <<lane, permits, depth, out>>
    BY <1>10 DEF FinalDrain, slotVars
  <2>2. PICK B \in Batches(OldestQueue, Cap) : Extract(OldestQueue, B) /\ job' = [job EXCEPT !.hand = B]
    BY <1>10 DEF FinalDrain
  <2>3. OldestQueue \in Queues /\ pending[OldestQueue] # {} BY <1>3, <2>1, OldestQueueFacts
  <2>4. B \in SUBSET ItemT /\ B \subseteq pending[OldestQueue] BY <1>2, <1>3, <2>3, BatchFacts
  <2>5. job'.hand = B /\ job'.next = job.next /\ job'.budget = job.budget BY <2>2 DEF CtlInv, LoopType, JobT
  <2>6. job.hand = {} /\ job.next = "final" BY <2>1 DEF CtlInv, LoopInv, Ends
  <2>7. Held' = Held /\ InRecall' = InRecall BY <2>1, <2>5, <2>6 DEF Held, InRecall, Holding, Quiesced
  <2>8. Held \in Nat /\ InRecall \in Nat BY <1>1 DEF Held, InRecall
  <2>9. SlotsGo(0) /\ LaneGains(0) BY SMT, <1>1, <2>1, <2>7, <2>8 DEF SlotsGo, LaneGains, InTasks
  <2>10. Leaves(B) /\ UNCHANGED <<clock, served>> BY <2>2, <2>3, <2>4 DEF Extract, Leaves
  <2>11. Moves(B, {}, FALSE, 0) BY <2>1, <2>5, <2>6, <2>9, <2>10 DEF Moves
  <2> QED BY <2>4, <2>11 DEF Transfers
<1> QED BY <1>4, <1>5, <1>6, <1>7, <1>8, <1>9, <1>10

-----------------------------------------------------------------------------
(* Where the items are, which batches are out, and the counts of both. *)

Running == UNION {b.items : b \in {x \in out : x.stage = "run"}}
Placed == Items \cup job.hand \cup Running \cup served
LaneRun == {b \in out : b.lane /\ b.stage = "run"}

\* No item is in two places, none is from the future, and all are there.
PlaceInv ==
  /\ \A q, r \in Queues : q # r => pending[q] \cap pending[r] = {}
  /\ Items \cap job.hand = {} /\ Items \cap Running = {} /\ Items \cap served = {}
  /\ job.hand \cap Running = {} /\ job.hand \cap served = {} /\ Running \cap served = {}
  /\ \A i \in Placed : i.at <= clock
  /\ IsFiniteSet(Placed) /\ Cardinality(Placed) = clock

\* The batches that are out are told apart by their items; one that has come
\* back and is still there is of the lane.
OutInv ==
  /\ IsFiniteSet(out)
  /\ \A b \in out : b.items # {} /\ (b.stage # "run" => b.lane /\ b.items \subseteq served)
  /\ \A b, c \in out : b # c => b.items \cap c.items = {}

\* A slot for every batch that is out, and the lane's count.
CountInv ==
  /\ Cardinality(out) = InTasks
  /\ lane.inFlight = Cardinality(LaneRun) + InRecall

\* The inductive invariant.
Inv == CtlInv /\ PlaceInv /\ OutInv /\ CountInv

\* The numbers of the invariant.
LEMMA CountTypes ==
  ASSUME CtlInv, IsFiniteSet(out)
  PROVE  /\ permits \in Nat /\ depth \in Nat /\ Held \in Nat /\ InRecall \in Nat
         /\ lane.inFlight \in Nat /\ Cardinality(out) \in Nat
         /\ IsFiniteSet(LaneRun) /\ Cardinality(LaneRun) \in Nat
<1>1. LaneRun \subseteq out BY DEF LaneRun
<1>2. IsFiniteSet(LaneRun) BY <1>1, FS_Subset
<1>3. Cardinality(out) \in Nat /\ Cardinality(LaneRun) \in Nat BY <1>2, FS_CardinalityType
<1> QED BY <1>2, <1>3 DEF CtlInv, SlotType, LaneType, LaneT, LoopType, JobT, Held, InRecall

\* An idle step keeps them.
LEMMA IdleKeeps ==
  ASSUME Inv, CtlInv', Idle
  PROVE  Inv'
<1>1. UNCHANGED <<pending, clock, out, served>> /\ job'.hand = job.hand /\ SlotsGo(0) /\ LaneGains(0)
  BY DEF Idle
<1>2. Items' = Items /\ Running' = Running /\ Placed' = Placed /\ LaneRun' = LaneRun
  BY <1>1 DEF Items, Running, Placed, LaneRun
<1>3. PlaceInv' BY <1>1, <1>2 DEF Inv, PlaceInv
<1>4. OutInv' BY <1>1 DEF Inv, OutInv
<1>5. /\ permits \in Nat /\ depth \in Nat /\ Held \in Nat /\ InRecall \in Nat
      /\ lane.inFlight \in Nat /\ Cardinality(out) \in Nat /\ Cardinality(LaneRun) \in Nat
  BY CountTypes DEF Inv, OutInv
<1>6. /\ permits' \in Nat /\ depth' \in Nat /\ Held' \in Nat /\ InRecall' \in Nat /\ lane'.inFlight \in Nat
  BY DEF CtlInv, SlotType, LaneType, LaneT, LoopType, JobT, Held, InRecall
<1>7. Cardinality(out') = InTasks'
  <2>1. Cardinality(out) = InTasks BY DEF Inv, CountInv
  <2> QED BY SMT, <1>1, <1>5, <2>1 DEF SlotsGo
<1>8. lane'.inFlight = Cardinality(LaneRun') + InRecall'
  <2>1. lane.inFlight = Cardinality(LaneRun) + InRecall BY DEF Inv, CountInv
  <2> QED BY SMT, <1>1, <1>2, <1>5, <1>6, <2>1 DEF LaneGains
<1> QED BY <1>3, <1>4, <1>7, <1>8 DEF Inv, CountInv

\* What leaves a queue leaves the pending items.
LEMMA LeavesItems ==
  ASSUME CtlInv, PlaceInv, NEW B, Leaves(B)
  PROVE  /\ B \subseteq Items /\ Items' = Items \ B
         /\ (\A q, r \in Queues : q # r => pending[q] \cap pending[r] = {})'
<1>1. CASE B = {} /\ UNCHANGED pending BY <1>1 DEF PlaceInv, Items
<1>2. ASSUME NEW q \in Queues, B \subseteq pending[q], pending' = [pending EXCEPT ![q] = @ \ B]
      PROVE  /\ B \subseteq Items /\ Items' = Items \ B
             /\ (\A p, r \in Queues : p # r => pending[p] \cap pending[r] = {})'
  <2>1. pending \in [Queues -> SUBSET ItemT] BY DEF CtlInv, QueueType
  <2>2. pending'[q] = pending[q] \ B /\ \A r \in Queues \ {q} : pending'[r] = pending[r] BY <1>2, <2>1
  <2>3. \A r \in Queues \ {q} : pending[r] \cap B = {} BY <1>2 DEF PlaceInv
  <2>4. B \subseteq Items BY <1>2 DEF Items
  <2>5. ASSUME NEW i PROVE i \in Items' <=> i \in Items \ B
    BY <2>2, <2>3 DEF Items
  <2>6. ASSUME NEW p \in Queues, NEW r \in Queues, p # r PROVE pending'[p] \cap pending'[r] = {}
    <3>1. pending[p] \cap pending[r] = {} BY <2>6 DEF PlaceInv
    <3>2. pending'[p] \subseteq pending[p] /\ pending'[r] \subseteq pending[r] BY <2>2
    <3> QED BY <3>1, <3>2
  <2> QED BY <2>4, <2>5, <2>6
<1> QED BY <1>1, <1>2 DEF Leaves

\* A new batch of items that are not out yet is a new member of out.
LEMMA StartsBatch ==
  ASSUME CtlInv, OutInv, NEW S \in SUBSET ItemT, S # {}, S \cap Running = {}, S \cap served = {},
         NEW inLane \in BOOLEAN, NEW n \in Nat, out' = out \cup {Batch(S, inLane, n)}, served' = served
  PROVE  /\ OutInv' /\ Running' = Running \cup S
         /\ Cardinality(out') = Cardinality(out) + 1
         /\ Cardinality(LaneRun') = Cardinality(LaneRun) + IF inLane THEN 1 ELSE 0
<1> DEFINE nb == Batch(S, inLane, n)
<1>1. nb.items = S /\ nb.lane = inLane /\ nb.stage = "run" BY DEF Batch
<1>2. out' = out \cup {nb} OBVIOUS
<1> HIDE DEF nb
<1>3. ASSUME NEW b \in out PROVE b.items \cap S = {}
  <2>1. CASE b.stage = "run"
    <3>1. b.items \subseteq Running BY <2>1 DEF Running
    <3> QED BY <3>1
  <2>2. CASE b.stage # "run"
    <3>1. b.items \subseteq served BY <2>2 DEF OutInv
    <3> QED BY <3>1
  <2> QED BY <2>1, <2>2
<1>4. nb \notin out BY <1>1, <1>3
<1>5. IsFiniteSet(out') /\ Cardinality(out') = Cardinality(out) + 1
  BY SMT, <1>2, <1>4, FS_AddElement DEF OutInv
<1>6. OutInv'
  <2>1. \A b \in out' : b.items # {} /\ (b.stage # "run" => b.lane /\ b.items \subseteq served')
    BY <1>1, <1>2 DEF OutInv
  <2>2. ASSUME NEW b \in out', NEW c \in out', b # c PROVE b.items \cap c.items = {}
    BY <1>1, <1>2, <1>3, <2>2 DEF OutInv
  <2> QED BY <1>5, <2>1, <2>2 DEF OutInv
<1>7. Running' = Running \cup S
  <2>1. ASSUME NEW i PROVE i \in Running' <=> i \in Running \cup S
    BY SMT, <1>1, <1>2 DEF Running
  <2> QED BY <2>1
<1>8. Cardinality(LaneRun') = Cardinality(LaneRun) + IF inLane THEN 1 ELSE 0
  <2>1. IsFiniteSet(LaneRun) /\ Cardinality(LaneRun) \in Nat BY CountTypes DEF OutInv
  <2>2. CASE inLane
    <3>1. LaneRun' = LaneRun \cup {nb} /\ nb \notin LaneRun BY <1>1, <1>2, <1>4, <2>2 DEF LaneRun
    <3> QED BY <2>1, <2>2, <3>1, FS_AddElement
  <2>3. CASE ~inLane
    <3>1. LaneRun' = LaneRun BY <1>1, <1>2, <2>3 DEF LaneRun
    <3> QED BY SMT, <2>1, <2>3, <3>1
  <2> QED BY <2>2, <2>3
<1> QED BY <1>5, <1>6, <1>7, <1>8

\* A transfer keeps the invariant.
LEMMA MovesKeep ==
  ASSUME Inv, CtlInv', NEW B \in SUBSET ItemT, NEW S \in SUBSET ItemT, NEW inLane \in BOOLEAN, NEW n \in Nat,
         Moves(B, S, inLane, n)
  PROVE  Inv'
<1>1. /\ Leaves(B) /\ S \subseteq job.hand \cup B /\ job'.hand = (job.hand \cup B) \ S
      /\ UNCHANGED <<clock, served>>
  BY DEF Moves
<1>2. /\ B \subseteq Items /\ Items' = Items \ B
      /\ (\A q, r \in Queues : q # r => pending[q] \cap pending[r] = {})'
  BY <1>1, LeavesItems DEF Inv
<1>3. S \cap Running = {} /\ S \cap served = {}
  BY <1>1, <1>2 DEF Inv, PlaceInv
<1>4. /\ permits \in Nat /\ depth \in Nat /\ Held \in Nat /\ InRecall \in Nat
      /\ lane.inFlight \in Nat /\ Cardinality(out) \in Nat /\ Cardinality(LaneRun) \in Nat
  BY CountTypes DEF Inv, OutInv
<1>5. /\ permits' \in Nat /\ depth' \in Nat /\ Held' \in Nat /\ InRecall' \in Nat /\ lane'.inFlight \in Nat
  BY DEF CtlInv, SlotType, LaneType, LaneT, LoopType, JobT, Held, InRecall
<1>6. Cardinality(out) = InTasks /\ lane.inFlight = Cardinality(LaneRun) + InRecall
  BY DEF Inv, CountInv
<1>7. OutInv' /\ CountInv' /\ Running' = Running \cup S
  <2>1. CASE S = {}
    <3>1. out' = out /\ SlotsGo(0) /\ LaneGains(0) BY <2>1 DEF Moves
    <3>2. OutInv' /\ Running' = Running /\ LaneRun' = LaneRun
      BY <1>1, <3>1 DEF Inv, OutInv, Running, LaneRun
    <3>3. Cardinality(out') = InTasks' BY SMT, <1>4, <1>6, <3>1 DEF SlotsGo
    <3>4. lane'.inFlight = Cardinality(LaneRun') + InRecall' BY SMT, <1>4, <1>5, <1>6, <3>1, <3>2 DEF LaneGains
    <3> QED BY <2>1, <3>2, <3>3, <3>4 DEF CountInv
  <2>2. CASE S # {}
    <3>1. out' = out \cup {Batch(S, inLane, n)} /\ SlotsGo(1) /\ LaneGains(IF inLane THEN 1 ELSE 0)
      BY <2>2 DEF Moves
    <3>2. /\ OutInv' /\ Running' = Running \cup S
          /\ Cardinality(out') = Cardinality(out) + 1
          /\ Cardinality(LaneRun') = Cardinality(LaneRun) + IF inLane THEN 1 ELSE 0
      BY <1>1, <1>3, <2>2, <3>1, StartsBatch DEF Inv
    <3>3. Cardinality(out') = InTasks' BY <1>4, <1>6, <3>1, <3>2 DEF SlotsGo
    <3>4. lane'.inFlight = Cardinality(LaneRun') + InRecall' BY SMT, <1>4, <1>5, <1>6, <3>1, <3>2 DEF LaneGains
    <3> QED BY <3>2, <3>3, <3>4 DEF CountInv
  <2> QED BY <2>1, <2>2
<1>8. Placed' = Placed BY <1>1, <1>2, <1>7 DEF Placed
<1>9. /\ Items' \cap job'.hand = {} /\ Items' \cap Running' = {} /\ Items' \cap served' = {}
      /\ job'.hand \cap Running' = {} /\ job'.hand \cap served' = {} /\ Running' \cap served' = {}
  BY <1>1, <1>2, <1>3, <1>7 DEF Inv, PlaceInv
<1>10. PlaceInv' BY <1>1, <1>2, <1>8, <1>9 DEF Inv, PlaceInv
<1> QED BY <1>7, <1>10 DEF Inv
=============================================================================
