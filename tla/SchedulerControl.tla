-------------------------- MODULE SchedulerControl --------------------------
(***************************************************************************)
(* Lemmas for SchedulerProofs: the types of Scheduler, what its operators  *)
(* return, and what the drain loop knows of its queue at each place.       *)
(***************************************************************************)
EXTENDS Scheduler, FiniteSetTheorems, TLAPS

\* Most leaves are set reasoning without arithmetic, for Zenon; the others say SMT.
USE ZenonT(30), SMTT(30)

-----------------------------------------------------------------------------
(* Minima and maxima. *)

\* A non-empty set of naturals has a least element: the sets 0 .. x, for x in
\* it, are finite, and strict inclusion is well founded on finite sets.
LEMMA LeastExists ==
  ASSUME NEW S \in SUBSET Nat, S # {}
  PROVE  \E x \in S : \A y \in S : x <= y
<1> DEFINE T == {0 .. x : x \in S}
<1>1. T # {} OBVIOUS
<1>2. T \subseteq FiniteSubsetsOf(Nat)
  <2> SUFFICES ASSUME NEW x \in S PROVE 0 .. x \in FiniteSubsetsOf(Nat)
    OBVIOUS
  <2>1. IsFiniteSet(0 .. x) BY SMT, FS_Interval
  <2>2. 0 .. x \in SUBSET Nat BY SMT
  <2> QED BY <2>1, <2>2 DEF FiniteSubsetsOf
<1> HIDE DEF T
<1>3. PICK U \in T : \A V \in T : ~(<<V, U>> \in StrictSubsetOrdering(Nat))
  BY <1>1, <1>2, WFMin, FS_StrictSubsetOrderingWellFounded
<1>4. PICK x \in S : U = 0 .. x BY DEF T
<1>5. ASSUME NEW y \in S, y < x PROVE FALSE
  <2>1. 0 .. y \in T BY DEF T
  <2>2. 0 .. y \in SUBSET Nat /\ 0 .. x \in SUBSET Nat BY SMT
  <2>3. 0 .. y \subseteq 0 .. x /\ 0 .. y # 0 .. x BY SMT, <1>5
  <2>4. <<0 .. y, 0 .. x>> \in StrictSubsetOrdering(Nat)
    BY <2>2, <2>3 DEF StrictSubsetOrdering
  <2> QED BY <1>3, <1>4, <2>1, <2>4
<1>6. ASSUME NEW y \in S PROVE x <= y
  <2>1. ~(y < x) BY <1>5
  <2>2. x \in Nat /\ y \in Nat OBVIOUS
  <2> QED BY SMT, <2>1, <2>2
<1> QED BY <1>6

\* Min is the least element of a non-empty set of naturals.
LEMMA MinIsLeast ==
  ASSUME NEW S \in SUBSET Nat, S # {}
  PROVE  Min(S) \in S /\ \A y \in S : Min(S) <= y
BY LeastExists DEF Min

\* The greater of two naturals.
LEMMA MaxOfTwo ==
  ASSUME NEW m \in Int, NEW n \in Int
  PROVE  Max({m, n}) = IF m >= n THEN m ELSE n
<1>1. \E x \in {m, n} : \A y \in {m, n} : x >= y BY SMT
<1>2. Max({m, n}) \in {m, n} /\ \A y \in {m, n} : Max({m, n}) >= y
  BY <1>1 DEF Max
<1> QED BY SMT, <1>2

-----------------------------------------------------------------------------
(* Types. *)

Places == {"top", "laneslot", "slot", "cont", "drainslot", "single", "quiesce", "acquire", "final", "inline", "exit"}
ItemT == [req : Nat, part : Nat, at : Nat]
LaneT == [inFlight : Nat, need : Nat, over : BOOLEAN, gathers : BOOLEAN, continues : BOOLEAN]
JobT == [queue : Queues \cup {None}, full : BOOLEAN, classic : BOOLEAN, hand : SUBSET ItemT,
         answered : Nat, remainder : BOOLEAN, next : {"top", "cont", "drainslot", "final"},
         budget : Nat]
BatchT == [items : SUBSET ItemT, lane : BOOLEAN, answered : Nat, stage : {"run", "returned", "noted"}]

QueueType ==
  /\ clock \in Nat /\ pending \in [Queues -> SUBSET ItemT]
  /\ \A q \in Queues : IsFiniteSet(pending[q])
SlotType == permits \in Nat /\ depth \in Nat /\ width \in Nat
LoopType == pc \in Places \cup Holding /\ job \in JobT
LaneType == lane \in LaneT
WorkType == out \in SUBSET BatchT /\ served \in SUBSET ItemT

\* What the loop knows of the queue it works on, where it goes on after a
\* batch, and where it has items in hand.
Drains == \/ pc \in {"drainslot", "drain"}
          \/ pc \in {"single", "inline"} /\ job.next = "drainslot"
Ends == pc \in {"acquire", "final", "exit"}
LoopInv ==
  /\ pc \in {"view", "judge", "take", "get"} => job.queue \in Queues /\ pending[job.queue] # {}
  /\ pc \in {"cont", "snapshot"} => job.next = "cont"
  /\ job.next = "cont" \/ Drains => job.queue \in Queues
  /\ Drains => job.budget > 0 /\ job.budget <= Cardinality(pending[job.queue])
  /\ Ends => job.next = "final"
  /\ job.next = "drainslot" => pc \in {"drainslot", "drain", "single", "inline"}
  /\ job.next = "cont" => pc \in {"cont", "snapshot", "drain", "single", "inline"}
  /\ job.next = "final" => Ends \/ pc = "inline"
  /\ pc \in {"send", "recall", "single"} => job.hand # {}
  /\ pc \notin {"send", "recall", "single", "inline"} => job.hand = {}

\* A batch of at most limit items is a non-empty part of its queue, and full
\* if the queue allows it.
LEMMA BatchFacts ==
  ASSUME QueueType, NEW q \in Queues, pending[q] # {}, NEW limit \in Nat \ {0},
         NEW B \in Batches(q, limit)
  PROVE  /\ B \subseteq pending[q] /\ B # {} /\ B \in SUBSET ItemT
         /\ IsFiniteSet(B) /\ Cardinality(B) \in Nat \ {0} /\ Cardinality(B) <= limit
         /\ IsFiniteSet(pending[q] \ B)
         /\ Cardinality(pending[q] \ B) = Cardinality(pending[q]) - Cardinality(B)
         /\ Cardinality(pending[q]) \in Nat
         /\ Full(q) /\ limit = Cap => Cardinality(B) = Cap
<1>1. B \in SUBSET pending[q] /\ Cardinality(B) = Min({limit, Cap, Cardinality(pending[q])})
  BY DEF Batches
<1>2. IsFiniteSet(pending[q]) /\ Cardinality(pending[q]) \in Nat \ {0}
  <2>1. IsFiniteSet(pending[q]) BY DEF QueueType
  <2>2. Cardinality(pending[q]) \in Nat BY <2>1, FS_CardinalityType
  <2>3. Cardinality(pending[q]) # 0 BY <2>1, FS_EmptySet
  <2> QED BY <2>1, <2>2, <2>3
<1>3. Cap \in Nat \ {0} BY SchedulerConstants
<1> DEFINE n == Cardinality(pending[q])
<1> HIDE DEF n
<1>4. n \in Nat \ {0} BY <1>2 DEF n
<1>5. Min({limit, Cap, n}) \in {limit, Cap, n} /\ \A y \in {limit, Cap, n} : Min({limit, Cap, n}) <= y
  <2>1. {limit, Cap, n} \in SUBSET Nat /\ {limit, Cap, n} # {} BY <1>3, <1>4
  <2> QED BY <2>1, MinIsLeast
<1>6. Cardinality(B) = Min({limit, Cap, n}) BY <1>1 DEF n
<1>7. Cardinality(B) \in Nat \ {0} /\ Cardinality(B) <= limit
  BY <1>3, <1>4, <1>5, <1>6
<1>8. IsFiniteSet(B) BY <1>1, <1>2, FS_Subset
<1>9. B # {}  BY <1>7, FS_EmptySet
<1>10. Full(q) /\ limit = Cap => Cardinality(B) = Cap
  BY SMT, <1>3, <1>4, <1>5, <1>6 DEF Full, n
<1>11. B \cap pending[q] = B /\ pending[q] \cap B = B BY <1>1
<1>12. /\ IsFiniteSet(pending[q] \ B)
       /\ Cardinality(pending[q] \ B) = Cardinality(pending[q]) - Cardinality(B)
  <2>1. /\ IsFiniteSet(pending[q] \ B)
        /\ Cardinality(pending[q] \ B) = Cardinality(pending[q]) - Cardinality(pending[q] \cap B)
    BY <1>2, FS_Difference
  <2> QED BY <1>11, <2>1
<1>13. B \in SUBSET ItemT BY <1>1 DEF QueueType
<1> QED BY <1>1, <1>2, <1>7, <1>8, <1>9, <1>10, <1>12, <1>13

\* The requests a batch completes are finitely many.
LEMMA CompletesType ==
  ASSUME NEW q, NEW B, IsFiniteSet(B)
  PROVE  Cardinality(Completes(q, B)) \in Nat
<1> DEFINE f == [i \in B |-> i.req]
<1>1. f \in Surjection(B, Requests(B)) BY DEF Surjection, Requests
<1>2. IsFiniteSet(Requests(B)) BY <1>1, FS_Surjection
<1>3. Completes(q, B) \in SUBSET Requests(B) BY DEF Completes
<1>4. IsFiniteSet(Completes(q, B)) BY <1>2, <1>3, FS_Subset
<1> QED BY <1>4, FS_CardinalityType

\* What the lane's methods return.
LEMMA LaneMethods ==
  ASSUME NEW l \in LaneT, NEW n \in Nat
  PROVE  /\ \A hit \in BOOLEAN : \A k \in Scores(l, hit) : k \in LaneT /\ k.inFlight = l.inFlight /\ k.continues = l.continues
         /\ \A k \in Settled(l) : k \in LaneT /\ k.inFlight = l.inFlight /\ k.continues = l.continues
         /\ \A k \in OnArrival(l) : k \in LaneT /\ k.inFlight = l.inFlight /\ k.continues = l.continues
         /\ \A k \in OnReturn(l, n) : /\ k \in LaneT /\ k.continues = l.continues
                                      /\ k.inFlight = IF l.inFlight = 0 THEN 0 ELSE l.inFlight - 1
         /\ \A b \in BOOLEAN : /\ OnDispatch(l, b) \in LaneT
                               /\ OnDispatch(l, b).inFlight = l.inFlight + 1
<1>1. ASSUME NEW m \in LaneT, NEW hit \in BOOLEAN, NEW k \in Scores(m, hit)
      PROVE  k \in LaneT /\ k.inFlight = m.inFlight /\ k.continues = m.continues
  <2>1. PICK g \in {m.gathers, hit} : k = [m EXCEPT !.need = 0, !.over = FALSE, !.gathers = g]
    BY <1>1 DEF Scores
  <2>2. g \in BOOLEAN BY DEF LaneT
  <2> QED BY <2>1, <2>2 DEF LaneT
<1>2. ASSUME NEW k \in Settled(l)
      PROVE  k \in LaneT /\ k.inFlight = l.inFlight /\ k.continues = l.continues
  BY <1>1, <1>2 DEF Settled
<1>3. ASSUME NEW k \in OnArrival(l)
      PROVE  k \in LaneT /\ k.inFlight = l.inFlight /\ k.continues = l.continues
  <2>1. CASE l.need > 1 /\ ~l.over
    <3>1. l.need \in Nat BY DEF LaneT
    <3>2. ~(l.need = 0) /\ ~l.over /\ ~(l.need = 1) BY SMT, <2>1, <3>1
    <3>3. OnArrival(l) = {[l EXCEPT !.need = @ - 1]} BY <3>2 DEF OnArrival
    <3>4. k = [l EXCEPT !.need = l.need - 1] BY <1>3, <3>3
    <3>5. l.need - 1 \in Nat BY SMT, <2>1, <3>1
    <3> QED BY <3>4, <3>5 DEF LaneT
  <2>2. CASE ~(l.need > 1 /\ ~l.over)
    <3>0. l.need = 0 \/ l.over \/ l.need = 1 BY SMT, <2>2 DEF LaneT
    <3>1. k = l \/ k \in Scores(l, FALSE) \/ k \in Scores(l, TRUE)
      BY <1>3, <3>0 DEF OnArrival
    <3> QED BY <1>1, <3>1
  <2> QED BY <2>1, <2>2
<1>4. ASSUME NEW k \in OnReturn(l, n)
      PROVE  /\ k \in LaneT /\ k.continues = l.continues
             /\ k.inFlight = IF l.inFlight = 0 THEN 0 ELSE l.inFlight - 1
  <2> DEFINE m == [l EXCEPT !.inFlight = Max({0, l.inFlight - 1})]
             Closed == IF l.need > 0 THEN Scores(m, FALSE) ELSE {m}
  <2>1. Max({0, l.inFlight - 1}) = IF l.inFlight = 0 THEN 0 ELSE l.inFlight - 1
    BY SMT, MaxOfTwo DEF LaneT
  <2>2. /\ m \in LaneT /\ m.continues = l.continues
        /\ m.inFlight = IF l.inFlight = 0 THEN 0 ELSE l.inFlight - 1
    BY SMT, <2>1 DEF LaneT
  <2>3. \/ k = m \/ k \in Closed
        \/ \E c \in Closed : k = [c EXCEPT !.need = n, !.over = FALSE]
    BY <1>4 DEF OnReturn
  <2> HIDE DEF m
  <2>4. \A c \in Closed : c \in LaneT /\ c.inFlight = m.inFlight /\ c.continues = m.continues
    BY <1>1, <2>2
  <2> HIDE DEF Closed
  <2>5. CASE \E c \in Closed : k = [c EXCEPT !.need = n, !.over = FALSE]
    <3>1. PICK c \in Closed : k = [c EXCEPT !.need = n, !.over = FALSE] BY <2>5
    <3>2. c \in LaneT /\ c.inFlight = m.inFlight /\ c.continues = m.continues BY <2>4
    <3>3. k \in LaneT /\ k.inFlight = c.inFlight /\ k.continues = c.continues
      BY <3>1, <3>2 DEF LaneT
    <3> QED BY <2>2, <3>2, <3>3
  <2>6. CASE k = m \/ k \in Closed
    BY <2>2, <2>4, <2>6
  <2> QED BY <2>3, <2>5, <2>6
<1>5. ASSUME NEW b \in BOOLEAN
      PROVE  OnDispatch(l, b) \in LaneT /\ OnDispatch(l, b).inFlight = l.inFlight + 1
  <2>1. OnDispatch(l, b) = [l EXCEPT !.inFlight = l.inFlight + 1, !.continues = b]
    BY DEF OnDispatch
  <2>2. l.inFlight \in Nat /\ l.inFlight + 1 \in Nat BY SMT DEF LaneT
  <2>3. ASSUME NEW k \in Nat
        PROVE  /\ [l EXCEPT !.inFlight = k, !.continues = b] \in LaneT
               /\ [l EXCEPT !.inFlight = k, !.continues = b].inFlight = k
    BY DEF LaneT
  <2> QED BY <2>1, <2>2, <2>3
<1> QED BY <1>1, <1>2, <1>3, <1>4, <1>5

-----------------------------------------------------------------------------
(* The control of the loop. *)

\* What spawn_scheduler_batch does with the items in hand.
SpawnsPart(j, S) ==
  /\ out' = out \cup {Batch(S, FALSE, 0)}
  /\ \/ S = j.hand /\ pc' = j.next /\ job' = (IF j.next = "top" THEN NoJob ELSE [j EXCEPT !.hand = {}])
     \/ S # j.hand /\ pc' = "single" /\ job' = [j EXCEPT !.hand = j.hand \ S]

\* Spawn does this with the items it is given.
LEMMA SpawnFacts ==
  ASSUME NEW j, NEW S, Spawn(j, S)
  PROVE  SpawnsPart(j, S)
BY DEF Spawn, SpawnsPart, Continue

\* A part of what is in hand goes to the engine, and the loop goes on to the
\* rest of it or to its next place.
LEMMA SpawnBatchFacts ==
  ASSUME NEW j, j.hand # {}, SpawnBatch(j)
  PROVE  \E S \in SUBSET j.hand : S # {} /\ SpawnsPart(j, S)
<1>1. CASE DispatchesItemsAlone(j.queue)
  <2>1. PICK i \in j.hand : Spawn(j, {i}) BY <1>1 DEF SpawnBatch
  <2>2. SpawnsPart(j, {i}) BY <2>1, SpawnFacts
  <2> QED BY <2>2
<1>2. CASE ~DispatchesItemsAlone(j.queue)
  <2>1. SpawnsPart(j, j.hand) BY <1>2, SpawnFacts DEF SpawnBatch
  <2> QED BY <2>1
<1> QED BY <1>1, <1>2

\* The types together with the control invariant.
CtlInv == QueueType /\ SlotType /\ LaneType /\ LoopType /\ WorkType /\ LoopInv

\* Every pc of a spawned batch's continuation, from a loop that holds j: the
\* loop's record is typed and keeps what it knows of its queue.
LEMMA SpawnKeepsLoop ==
  ASSUME WorkType, NEW j \in JobT, j.hand # {}, NEW S \in SUBSET j.hand, S # {}, SpawnsPart(j, S),
         j.next # "final",
         j.next # "top" => j.queue \in Queues,
         j.next = "drainslot" => j.budget > 0 /\ j.budget <= Cardinality(pending'[j.queue])
  PROVE  LoopType' /\ LoopInv' /\ out' \in SUBSET BatchT
<1>1. j.hand \in SUBSET ItemT /\ j.next \in {"top", "cont", "drainslot"} BY DEF JobT
<1>2. NoJob \in JobT BY DEF NoJob, JobT
<1>3. [j EXCEPT !.hand = {}] \in JobT /\ [j EXCEPT !.hand = j.hand \ S] \in JobT
  BY <1>1 DEF JobT
<1>4. LoopType'
  BY <1>1, <1>2, <1>3 DEF LoopType, SpawnsPart, Places
<1>5. out' \in SUBSET BatchT
  <2>1. Batch(S, FALSE, 0) \in BatchT BY <1>1 DEF Batch, BatchT
  <2> QED BY <2>1 DEF SpawnsPart, WorkType
<1>6. CASE S = j.hand /\ pc' = j.next /\ job' = (IF j.next = "top" THEN NoJob ELSE [j EXCEPT !.hand = {}])
  <2>1. CASE j.next = "top"
    <3>1. pc' = "top" /\ job'.next = "top" /\ job'.hand = {} BY <1>6, <2>1 DEF NoJob
    <3> QED BY <1>4, <1>5, <3>1 DEF LoopInv, Drains, Ends
  <2>2. CASE j.next # "top"
    <3>1. job'.next = j.next /\ job'.hand = {} /\ job'.queue = j.queue /\ job'.budget = j.budget
      BY <1>6, <2>2 DEF JobT
    <3> QED BY <1>1, <1>4, <1>5, <1>6, <2>2, <3>1 DEF LoopInv, Drains, Ends
  <2> QED BY <2>1, <2>2
<1>7. CASE S # j.hand /\ pc' = "single" /\ job' = [j EXCEPT !.hand = j.hand \ S]
  <2>1. /\ job'.next = j.next /\ job'.hand = j.hand \ S /\ job'.queue = j.queue
        /\ job'.budget = j.budget
    BY <1>7 DEF JobT
  <2>2. job'.hand # {} BY <1>7, <2>1
  <2> QED BY <1>1, <1>4, <1>5, <1>7, <2>1, <2>2 DEF LoopInv, Drains, Ends
<1> QED BY <1>6, <1>7 DEF SpawnsPart

\* The head of a queue that is not empty is its least arrival.
LEMMA HeadFacts ==
  ASSUME QueueType, NEW q \in Busy
  PROVE  /\ Head(q) \in Nat
         /\ \A i \in pending[q] : Head(q) <= i.at
         /\ \E i \in pending[q] : i.at = Head(q)
<1> DEFINE S == {i.at : i \in pending[q]}
<1>1. S \in SUBSET Nat /\ S # {} BY SMT DEF QueueType, Busy, ItemT
<1>2. Min(S) \in S /\ \A y \in S : Min(S) <= y BY <1>1, MinIsLeast
<1>3. Head(q) = Min(S) BY DEF Head
<1> QED BY <1>1, <1>2, <1>3

\* The same of the next state.
LEMMA HeadFactsNext ==
  ASSUME QueueType', NEW q, q \in Busy'
  PROVE  /\ Head(q)' \in Nat
         /\ \A i \in pending'[q] : Head(q)' <= i.at
         /\ \E i \in pending'[q] : i.at = Head(q)'
<1> DEFINE S == {i.at : i \in pending'[q]}
<1>1. S \in SUBSET Nat /\ S # {} BY SMT DEF QueueType, Busy, ItemT
<1>2. Min(S) \in S /\ \A y \in S : Min(S) <= y BY <1>1, MinIsLeast
<1>3. Head(q)' = Min(S) BY DEF Head
<1> QED BY <1>1, <1>2, <1>3

\* If anything waits there is a queue whose head is oldest.
LEMMA OldestQueueFacts ==
  ASSUME QueueType, Busy # {}
  PROVE  /\ OldestQueue \in Busy /\ OldestQueue \in Queues /\ pending[OldestQueue] # {}
         /\ \A r \in Busy : Head(OldestQueue) <= Head(r)
<1> DEFINE S == {Head(q) : q \in Busy}
<1>1. S \in SUBSET Nat /\ S # {} BY HeadFacts
<1>2. PICK x \in S : \A y \in S : x <= y BY <1>1, LeastExists
<1>3. \E q \in Busy : \A r \in Busy : Head(q) <= Head(r) BY <1>2
<1>4. OldestQueue \in Busy /\ \A r \in Busy : Head(OldestQueue) <= Head(r)
  BY <1>3 DEF OldestQueue
<1> QED BY <1>4 DEF Busy

\* Steps of the callers and tasks that touch neither the queues nor the loop.
LEMMA CtlOutside ==
  ASSUME CtlInv,
         \/ \E c \in Calls : Caller(c)
         \/ \E b \in out : Task(b)
         \/ Ripen \/ CloseWindow \/ GrowTo \/ Shutdown
         \/ \E w \in Widths : RecordWidth(w)
  PROVE  CtlInv'
<1> USE DEF CtlInv
<1>1. ASSUME UNCHANGED <<pending, clock, loopVars>> PROVE QueueType' /\ LoopType' /\ LoopInv'
  BY <1>1 DEF QueueType, LoopType, LoopInv, Drains, Ends, loopVars
<1>2. ASSUME NEW c \in Calls, TellLane(c) PROVE CtlInv'
  <2>1. LaneType' BY <1>2, LaneMethods DEF TellLane, LaneType
  <2> QED BY <1>1, <1>2, <2>1 DEF TellLane, queueVars, slotVars, widthVars, workVars, SlotType, WorkType
<1>3. ASSUME NEW c \in Calls, Notify(c) PROVE CtlInv'
  BY <1>1, <1>3 DEF Notify, queueVars, slotVars, widthVars, workVars, SlotType, WorkType, LaneType
<1>4. ASSUME NEW b \in out, Return(b) PROVE CtlInv'
  <2>1. b \in BatchT BY DEF WorkType
  <2>2. LaneType'
    <3>1. b.answered \in Nat BY <2>1 DEF BatchT
    <3>2. lane' \in OnReturn(lane, b.answered) \/ lane' = lane BY <1>4 DEF Return
    <3> QED BY <3>1, <3>2, LaneMethods DEF LaneType
  <2>3. [b EXCEPT !.stage = "returned"] \in BatchT BY <2>1 DEF BatchT
  <2>4. out' \in SUBSET BatchT BY <1>4, <2>3 DEF Return, WorkType
  <2>5. served' \in SUBSET ItemT BY <1>4, <2>1 DEF Return, WorkType, BatchT
  <2>6. SlotType' BY SMT, <1>4 DEF Return, SlotType, widthVars
  <2> QED BY <1>1, <1>4, <2>2, <2>4, <2>5, <2>6 DEF Return, queueVars, WorkType
<1>5. ASSUME NEW b \in out, NotifyReturn(b) PROVE CtlInv'
  <2>1. [b EXCEPT !.stage = "noted"] \in BatchT BY DEF BatchT, WorkType
  <2>2. out' \in SUBSET BatchT BY <1>5, <2>1 DEF NotifyReturn, WorkType
  <2> QED BY <1>1, <1>5, <2>2 DEF NotifyReturn, queueVars, slotVars, widthVars, SlotType, WorkType, LaneType
<1>6. ASSUME NEW b \in out, FreeSlot(b) PROVE CtlInv'
  BY SMT, <1>1, <1>6 DEF FreeSlot, queueVars, widthVars, SlotType, WorkType, LaneType
<1>7. CASE Ripen
  BY <1>1, <1>7 DEF Ripen, slotVars, widthVars, workVars, SlotType, WorkType, LaneType
<1>8. CASE CloseWindow
  <2>1. LaneType' BY <1>8 DEF CloseWindow, LaneType, LaneT
  <2> QED BY <1>1, <1>8, <2>1 DEF CloseWindow, queueVars, slotVars, widthVars, workVars, SlotType, WorkType
<1>9. CASE GrowTo
  BY SMT, <1>1, <1>9 DEF GrowTo, queueVars, widthVars, workVars, SlotType, WorkType, LaneType
<1>10. CASE Shutdown
  BY <1>1, <1>10 DEF Shutdown, queueVars, slotVars, widthVars, workVars, SlotType, WorkType, LaneType
<1>11. ASSUME NEW w \in Widths, RecordWidth(w) PROVE CtlInv'
  BY <1>1, <1>11, SchedulerConstants
     DEF RecordWidth, queueVars, slotVars, workVars, SlotType, WorkType, LaneType
<1> QED BY <1>2, <1>3, <1>4, <1>5, <1>6, <1>7, <1>8, <1>9, <1>10, <1>11 DEF Caller, Task

\* A request that arrives only makes its queue longer.
LEMMA AppendFacts ==
  ASSUME QueueType, NEW c \in Calls, NEW q \in Queues, NEW n \in Parts, Append(c, q, n)
  PROVE  /\ QueueType'
         /\ \A r \in Queues : pending[r] \subseteq pending'[r]
         /\ \A r \in Queues : Cardinality(pending[r]) <= Cardinality(pending'[r])
<1> DEFINE New == {[req |-> c, part |-> i, at |-> clock'] : i \in 1 .. n}
<1>1. n \in Nat \ {0} /\ c \in Nat BY SMT, SchedulerConstants DEF Calls
<1>2. clock' \in Nat BY SMT, <1>1 DEF Append, QueueType
<1>3. New \in SUBSET ItemT BY SMT, <1>1, <1>2 DEF ItemT
<1>4. IsFiniteSet(New)
  <2> DEFINE f == [i \in 1 .. n |-> [req |-> c, part |-> i, at |-> clock']]
  <2>1. f \in Surjection(1 .. n, New) BY DEF Surjection
  <2>2. IsFiniteSet(1 .. n) BY SMT, <1>1, FS_Interval
  <2> QED BY SMT, <2>1, <2>2, FS_Surjection
<1>5. pending' = [pending EXCEPT ![q] = @ \cup New] BY DEF Append
<1> HIDE DEF New
<1>6. pending' \in [Queues -> SUBSET ItemT] BY <1>3, <1>5 DEF QueueType
<1>7. ASSUME NEW r \in Queues
      PROVE  IsFiniteSet(pending'[r]) /\ pending[r] \subseteq pending'[r]
  <2>1. IsFiniteSet(pending[r]) BY DEF QueueType
  <2>2. CASE r = q
    <3>1. pending'[r] = pending[r] \cup New BY <1>5, <2>2 DEF QueueType
    <3>2. IsFiniteSet(pending[r] \cup New) BY <1>4, <2>1, FS_Union
    <3> QED BY <3>1, <3>2
  <2>3. CASE r # q
    <3>1. pending'[r] = pending[r] BY <1>5, <2>3 DEF QueueType
    <3> QED BY <2>1, <3>1
  <2> QED BY <2>2, <2>3
<1>8. ASSUME NEW r \in Queues
      PROVE  Cardinality(pending[r]) <= Cardinality(pending'[r])
  BY <1>7, FS_Subset
<1>9. QueueType' BY <1>2, <1>6, <1>7 DEF QueueType
<1> QED BY <1>7, <1>8, <1>9

\* So it keeps the types and what the loop knows of its queue.
LEMMA CtlAppend ==
  ASSUME CtlInv, NEW c \in Calls, NEW q \in Queues, NEW n \in Parts, Append(c, q, n)
  PROVE  CtlInv'
<1> USE DEF CtlInv
<1>1. /\ QueueType'
      /\ \A r \in Queues : pending[r] \subseteq pending'[r]
      /\ \A r \in Queues : Cardinality(pending[r]) <= Cardinality(pending'[r])
  BY AppendFacts
<1>2. UNCHANGED <<pc, job>> BY DEF Append, loopVars
<1>3. \A r \in Queues : Cardinality(pending[r]) \in Nat /\ Cardinality(pending'[r]) \in Nat
  BY <1>1, FS_CardinalityType DEF QueueType
<1>4. LoopType' BY <1>2 DEF LoopType
<1>5. LoopInv'
  <2>1. /\ pc \in {"view", "judge", "take", "get"} => job.queue \in Queues /\ pending'[job.queue] # {}
    BY <1>1 DEF LoopInv
  <2>2. Drains => job.budget > 0 /\ job.budget <= Cardinality(pending'[job.queue])
    BY SMT, <1>1, <1>3 DEF LoopInv, LoopType, JobT
  <2> QED BY <1>2, <2>1, <2>2 DEF LoopInv, Drains, Ends
<1> QED BY <1>1, <1>4, <1>5 DEF Append, slotVars, widthVars, workVars, SlotType, WorkType, LaneType

\* Steps of the loop that move no item.
LEMMA CtlControl ==
  ASSUME CtlInv,
         \/ Top \/ ReserveSlot("laneslot", "arm") \/ ReserveSlot("slot", "carm")
         \/ ReserveSlot("cont", "snapshot") \/ ReserveSlot("drainslot", "drain")
         \/ Arm("arm", "pick") \/ PickOldest("pick", "view", "await") \/ GateView \/ Judge \/ Wake
         \/ Arm("carm", "cpick") \/ PickOldest("cpick", "get", "cwait") \/ Snapshot
         \/ Cancel \/ Quiesce \/ AcquireAll \/ Exit
  PROVE  CtlInv'
<1> USE DEF CtlInv
<1>1. ASSUME UNCHANGED <<queueVars, workVars>>, SlotType', LaneType', LoopType', LoopInv'
      PROVE  CtlInv'
  BY <1>1 DEF QueueType, WorkType, queueVars, workVars
<1>2. NoJob \in JobT /\ NoJob.next = "top" /\ NoJob.hand = {} BY DEF NoJob, JobT
<1>3. CASE Top
  <2>1. UNCHANGED <<queueVars, workVars, slotVars, widthVars, lane, job>> /\ pc = "top" /\ pc' \in {"laneslot", "slot"}
    BY <1>3 DEF Top, Goto
  <2>2. LoopType' /\ LoopInv' BY <2>1 DEF LoopType, LoopInv, Drains, Ends, Places
  <2> QED BY <1>1, <2>1, <2>2 DEF SlotType, LaneType, slotVars, widthVars
<1>4. ASSUME NEW from, NEW to, ReserveSlot(from, to),
             <<from, to>> \in {<<"laneslot", "arm">>, <<"slot", "carm">>, <<"cont", "snapshot">>, <<"drainslot", "drain">>}
      PROVE  CtlInv'
  <2>1. UNCHANGED <<queueVars, workVars, depth, widthVars, lane>> BY <1>4 DEF ReserveSlot
  <2>2. SlotType' BY SMT, <1>4, <2>1 DEF ReserveSlot, SlotType, widthVars
  <2>3. CASE shutdown
    <3>1. pc' = "quiesce" /\ job' = NoJob BY <1>4, <2>3 DEF ReserveSlot
    <3>2. LoopType' /\ LoopInv' BY <1>2, <3>1 DEF LoopType, LoopInv, Drains, Ends, Places
    <3> QED BY <1>1, <2>1, <2>2, <3>2 DEF LaneType
  <2>4. CASE ~shutdown
    <3>1. pc = from /\ pc' = to /\ job' = job /\ pending' = pending BY <1>4, <2>4 DEF ReserveSlot, Goto, queueVars
    <3>2. from \in {"laneslot", "slot", "cont", "drainslot"} /\ to \in {"arm", "carm", "snapshot", "drain"}
          /\ (from = "cont" <=> to = "snapshot") /\ (from = "drainslot" <=> to = "drain")
      BY <1>4
    <3>3. LoopType' BY <3>1, <3>2 DEF LoopType, Holding
    <3>4. LoopInv' BY <3>1, <3>2 DEF LoopInv, Drains, Ends
    <3> QED BY <1>1, <2>1, <2>2, <3>3, <3>4 DEF LaneType
  <2> QED BY <2>3, <2>4
<1>5. ASSUME NEW from, NEW to, Arm(from, to), <<from, to>> \in {<<"arm", "pick">>, <<"carm", "cpick">>}
      PROVE  CtlInv'
  <2>1. UNCHANGED <<queueVars, workVars, slotVars, widthVars, lane, job>> /\ pc = from /\ pc' = to
    BY <1>5 DEF Arm, Goto
  <2>2. from \in {"arm", "carm"} /\ to \in {"pick", "cpick"} BY <1>5
  <2>3. LoopType' /\ LoopInv' BY <2>1, <2>2 DEF LoopType, LoopInv, Drains, Ends, Holding
  <2> QED BY <1>1, <2>1, <2>3 DEF SlotType, LaneType, slotVars, widthVars
<1>6. ASSUME NEW from, NEW found, NEW empty, PickOldest(from, found, empty),
             <<from, found, empty>> \in {<<"pick", "view", "await">>, <<"cpick", "get", "cwait">>}
      PROVE  CtlInv'
  <2>1. UNCHANGED <<queueVars, workVars, slotVars, widthVars, lane>> /\ pc = from /\ pending' = pending
    BY <1>6 DEF PickOldest, queueVars
  <2>2. from \in {"pick", "cpick"} /\ found \in {"view", "get"} /\ empty \in {"await", "cwait"} BY <1>6
  <2>3. CASE Busy = {}
    <3>1. pc' = empty /\ job' = job BY <1>6, <2>3 DEF PickOldest, Goto
    <3>2. LoopType' /\ LoopInv' BY <2>1, <2>2, <3>1 DEF LoopType, LoopInv, Drains, Ends, Holding
    <3> QED BY <1>1, <2>1, <3>2 DEF SlotType, LaneType, slotVars, widthVars
  <2>4. CASE Busy # {}
    <3>1. pc' = found /\ job' = [job EXCEPT !.queue = OldestQueue] BY <1>6, <2>4 DEF PickOldest
    <3>2. OldestQueue \in Queues /\ pending[OldestQueue] # {} BY <2>4, OldestQueueFacts
    <3>3. job' \in JobT /\ job'.queue = OldestQueue /\ job'.next = job.next /\ job'.hand = job.hand
      BY <3>1, <3>2 DEF LoopType, JobT
    <3>4. LoopType' BY <2>2, <3>1, <3>3 DEF LoopType, Holding
    <3>5. LoopInv' BY <2>1, <2>2, <3>1, <3>2, <3>3 DEF LoopInv, Drains, Ends
    <3> QED BY <1>1, <2>1, <3>4, <3>5 DEF SlotType, LaneType, slotVars, widthVars
  <2> QED BY <2>3, <2>4
<1>7. CASE GateView
  <2>1. /\ UNCHANGED <<queueVars, workVars, slotVars, widthVars, lane>> /\ pc = "view" /\ pc' = "judge"
        /\ job' = [job EXCEPT !.full = Full(job.queue), !.classic = Full(job.queue) \/ ripe]
        /\ pending' = pending
    BY <1>7 DEF GateView, queueVars
  <2>2. Full(job.queue) \in BOOLEAN /\ (Full(job.queue) \/ ripe) \in BOOLEAN BY SMT DEF Full
  <2>3. ASSUME NEW f \in BOOLEAN, NEW c \in BOOLEAN, job' = [job EXCEPT !.full = f, !.classic = c]
        PROVE  job' \in JobT /\ job'.queue = job.queue /\ job'.next = job.next /\ job'.hand = job.hand
    BY <2>3 DEF LoopType, JobT
  <2>4. job' \in JobT /\ job'.queue = job.queue /\ job'.next = job.next /\ job'.hand = job.hand
    BY <2>1, <2>2, <2>3
  <2>5. LoopType' /\ LoopInv' BY <2>1, <2>4 DEF LoopType, LoopInv, Drains, Ends, Holding
  <2> QED BY <1>1, <2>1, <2>5 DEF SlotType, LaneType, slotVars, widthVars
<1>8. CASE Judge
  <2>1. /\ UNCHANGED <<queueVars, workVars, slotVars, widthVars>> /\ pc = "judge" /\ pc' = Verdict(lane')
        /\ job' = [job EXCEPT !.full = FALSE, !.classic = (pc' = "timed" /\ Classic(lane'))]
        /\ pending' = pending
    BY <1>8 DEF Judge, queueVars
  <2>2. LaneType' BY <1>8, LaneMethods DEF Judge, LaneType
  <2>3. pc' \in {"take", "timed", "await"} BY <2>1 DEF Verdict
  <2>4. ASSUME NEW c \in BOOLEAN, job' = [job EXCEPT !.full = FALSE, !.classic = c]
        PROVE  job' \in JobT /\ job'.queue = job.queue /\ job'.next = job.next /\ job'.hand = job.hand
    BY <2>4 DEF LoopType, JobT
  <2>5. job' \in JobT /\ job'.queue = job.queue /\ job'.next = job.next /\ job'.hand = job.hand
    BY <2>1, <2>4
  <2>6. LoopType' BY <2>3, <2>5 DEF LoopType, Holding
  <2>7. LoopInv' BY <2>1, <2>3, <2>5 DEF LoopInv, Drains, Ends
  <2> QED BY <1>1, <2>1, <2>2, <2>6, <2>7 DEF SlotType, slotVars, widthVars
<1>9. CASE Wake
  <2>1. UNCHANGED <<queueVars, workVars, slotVars, widthVars, lane>> /\ pc' \in {"arm", "carm"} /\ job' = NoJob
    BY <1>9 DEF Wake
  <2>2. LoopType' /\ LoopInv' BY <1>2, <2>1 DEF LoopType, LoopInv, Drains, Ends, Holding
  <2> QED BY <1>1, <2>1, <2>2 DEF SlotType, LaneType, slotVars, widthVars
<1>10. CASE Snapshot
  <2>1. UNCHANGED <<queueVars, workVars, depth, widthVars, lane>> /\ pc = "snapshot" /\ pending' = pending
    BY <1>10 DEF Snapshot, queueVars
  <2>2. SlotType' BY SMT, <1>10, <2>1 DEF Snapshot, SlotType, widthVars
  <2>3. CASE pending[job.queue] = {}
    <3>1. pc' = "top" /\ job' = NoJob BY <1>10, <2>3 DEF Snapshot, GoTop
    <3>2. LoopType' /\ LoopInv' BY <1>2, <3>1 DEF LoopType, LoopInv, Drains, Ends, Places
    <3> QED BY <1>1, <2>1, <2>2, <3>2 DEF LaneType
  <2>4. CASE pending[job.queue] # {}
    <3>1. pc' = "drain" /\ job' = [job EXCEPT !.budget = Cardinality(pending[job.queue])]
      BY <1>10, <2>4 DEF Snapshot
    <3>2. job.queue \in Queues /\ job.next = "cont" /\ job.hand = {} BY <2>1 DEF LoopInv
    <3>3. Cardinality(pending[job.queue]) \in Nat /\ Cardinality(pending[job.queue]) # 0
      BY <2>4, <3>2, FS_CardinalityType, FS_EmptySet DEF QueueType
    <3>4. /\ job' \in JobT /\ job'.queue = job.queue /\ job'.next = "cont" /\ job'.hand = {}
          /\ job'.budget = Cardinality(pending[job.queue])
      BY <3>1, <3>2, <3>3 DEF LoopType, JobT
    <3>5. LoopType' BY <3>1, <3>4 DEF LoopType, Holding
    <3>6. LoopInv' BY SMT, <2>1, <3>1, <3>2, <3>3, <3>4 DEF LoopInv, Drains, Ends
    <3> QED BY <1>1, <2>1, <2>2, <3>5, <3>6 DEF LaneType
  <2> QED BY <2>3, <2>4
<1>11. CASE Cancel
  <2>1. UNCHANGED <<queueVars, workVars, depth, widthVars, lane>> /\ pc' = "quiesce" /\ job' = NoJob /\ permits' = permits + 1
    BY <1>11 DEF Cancel
  <2>2. LoopType' /\ LoopInv' BY <1>2, <2>1 DEF LoopType, LoopInv, Drains, Ends, Places
  <2> QED BY SMT, <1>1, <2>1, <2>2 DEF SlotType, LaneType, widthVars
<1>12. CASE Quiesce
  <2>1. /\ UNCHANGED <<queueVars, workVars, slotVars, widthVars, lane>> /\ pc = "quiesce" /\ pc' = "acquire"
        /\ job' = [job EXCEPT !.budget = depth, !.next = "final"]
    BY <1>12 DEF Quiesce
  <2>2. job' \in JobT /\ job'.next = "final" /\ job'.hand = job.hand BY <2>1 DEF LoopType, JobT, SlotType
  <2>3. LoopType' /\ LoopInv' BY <2>1, <2>2 DEF LoopType, LoopInv, Drains, Ends, Places
  <2> QED BY <1>1, <2>1, <2>3 DEF SlotType, LaneType, slotVars, widthVars
<1>13. CASE AcquireAll
  <2>1. UNCHANGED <<queueVars, workVars, depth, widthVars, lane, job>> /\ pc = "acquire" /\ pc' = "final"
    BY <1>13 DEF AcquireAll, Goto
  <2>2. SlotType' BY SMT, <1>13, <2>1 DEF AcquireAll, SlotType, LoopType, JobT, widthVars
  <2>3. LoopType' /\ LoopInv' BY <2>1 DEF LoopType, LoopInv, Drains, Ends, Places
  <2> QED BY <1>1, <2>1, <2>2, <2>3 DEF LaneType
<1>14. CASE Exit
  <2>1. UNCHANGED <<queueVars, workVars, slotVars, widthVars, lane, job>> /\ pc = "final" /\ pc' = "exit"
    BY <1>14 DEF Exit, Goto
  <2>2. LoopType' /\ LoopInv' BY <2>1 DEF LoopType, LoopInv, Drains, Ends, Places
  <2> QED BY <1>1, <2>1, <2>2 DEF SlotType, LaneType, slotVars, widthVars
<1> QED BY <1>3, <1>4, <1>5, <1>6, <1>7, <1>8, <1>9, <1>10, <1>11, <1>12, <1>13, <1>14

\* Extraction takes the batch out of its queue and leaves the others alone.
LEMMA ExtractFacts ==
  ASSUME QueueType, NEW q \in Queues, pending[q] # {}, NEW limit \in Nat \ {0},
         NEW B \in Batches(q, limit), Extract(q, B)
  PROVE  /\ QueueType' /\ clock' = clock
         /\ pending'[q] = pending[q] \ B
         /\ \A r \in Queues \ {q} : pending'[r] = pending[r]
         /\ Cardinality(pending'[q]) = Cardinality(pending[q]) - Cardinality(B)
<1>1. pending' = [pending EXCEPT ![q] = @ \ B] /\ clock' = clock BY DEF Extract
<1>2. pending'[q] = pending[q] \ B /\ \A r \in Queues \ {q} : pending'[r] = pending[r]
  BY <1>1 DEF QueueType
<1>3. IsFiniteSet(pending[q] \ B) /\ Cardinality(pending[q] \ B) = Cardinality(pending[q]) - Cardinality(B)
  BY BatchFacts
<1>4. pending' \in [Queues -> SUBSET ItemT] BY <1>1 DEF QueueType
<1>5. \A r \in Queues : IsFiniteSet(pending'[r]) BY <1>2, <1>3 DEF QueueType
<1> QED BY <1>1, <1>2, <1>3, <1>4, <1>5 DEF QueueType

\* Steps of the loop that move items.
LEMMA CtlMoves ==
  ASSUME CtlInv,
         Take \/ Send \/ Recall \/ SpawnSingle \/ RunInline \/ GetBatch \/ Drain \/ FinalDrain
  PROVE  CtlInv'
<1> USE DEF CtlInv
<1>1. Cap \in Nat \ {0} BY SchedulerConstants
<1>2. NoJob \in JobT /\ NoJob.next = "top" /\ NoJob.hand = {} BY DEF NoJob, JobT
<1>3. CASE Take
  <2>1. PICK B \in Batches(job.queue, Cap) :
          /\ Extract(job.queue, B)
          /\ job' = [job EXCEPT !.hand = B,
                                !.answered = Cardinality(Completes(job.queue, B)),
                                !.remainder = Requests(B) # Completes(job.queue, B)]
    BY <1>3 DEF Take
  <2>2. pc = "take" /\ pc' = "send" /\ UNCHANGED <<lane, slotVars, widthVars, out, served>>
    BY <1>3, <2>1 DEF Take, Extract
  <2>3. job.queue \in Queues /\ pending[job.queue] # {} BY <2>2 DEF LoopInv
  <2>4. B \in SUBSET ItemT /\ B # {} /\ Cardinality(Completes(job.queue, B)) \in Nat
    BY <1>1, <2>3, BatchFacts, CompletesType
  <2>5. QueueType' BY <1>1, <2>1, <2>3, ExtractFacts
  <2>6. ASSUME NEW n \in Nat, NEW r \in BOOLEAN, job' = [job EXCEPT !.hand = B, !.answered = n, !.remainder = r]
        PROVE  job' \in JobT /\ job'.hand = B /\ job'.next = job.next /\ job'.queue = job.queue
    BY <2>4, <2>6 DEF LoopType, JobT
  <2>7. job' \in JobT /\ job'.hand = B /\ job'.next = job.next /\ job'.queue = job.queue
    BY <2>1, <2>4, <2>6
  <2>8. LoopType' BY <2>2, <2>7 DEF LoopType, Holding
  <2>9. LoopInv' BY <2>2, <2>4, <2>7 DEF LoopInv, Drains, Ends
  <2> QED BY <2>2, <2>5, <2>8, <2>9 DEF SlotType, LaneType, WorkType, slotVars, widthVars
<1>4. CASE Send
  <2>1. pc = "send" /\ lane' = OnDispatch(lane, job.remainder) /\ UNCHANGED <<queueVars, slotVars, widthVars, served>>
    BY <1>4 DEF Send
  <2>2. QueueType' /\ SlotType' BY <2>1 DEF QueueType, SlotType, queueVars, slotVars, widthVars
  <2>3. LaneType'
    <3>1. job.remainder \in BOOLEAN BY DEF LoopType, JobT
    <3> QED BY <2>1, <3>1, LaneMethods DEF LaneType
  <2>4. CASE width > 1
    <3>1. pc' = "recall" /\ job' = job /\ out' = out BY <1>4, <2>4 DEF Send, Goto
    <3>2. LoopType' BY <3>1 DEF LoopType, Holding
    <3>3. LoopInv' BY <2>1, <3>1 DEF LoopInv, Drains, Ends
    <3> QED BY <2>1, <2>2, <2>3, <3>1, <3>2, <3>3 DEF WorkType
  <2>5. CASE ~(width > 1)
    <3>1. out' = out \cup {Batch(job.hand, TRUE, job.answered)} /\ pc' = "top" /\ job' = NoJob
      BY <1>4, <2>5 DEF Send, GoTop
    <3>2. LoopType' /\ LoopInv' BY <1>2, <3>1 DEF LoopType, LoopInv, Drains, Ends, Places
    <3>3. Batch(job.hand, TRUE, job.answered) \in BatchT BY DEF Batch, BatchT, LoopType, JobT
    <3> QED BY <2>1, <2>2, <2>3, <3>1, <3>2, <3>3 DEF WorkType
  <2> QED BY <2>4, <2>5
<1>5. CASE Recall
  <2> DEFINE j == [job EXCEPT !.answered = 0, !.remainder = FALSE]
  <2>1. pc = "recall" /\ lane' \in OnReturn(lane, 0) /\ SpawnBatch(j) /\ UNCHANGED <<queueVars, slotVars, widthVars, served>>
    BY <1>5 DEF Recall
  <2>2. j \in JobT /\ j.hand = job.hand /\ j.next = job.next /\ j.queue = job.queue BY DEF LoopType, JobT
  <2>3. j.hand # {} /\ j.next = "top"
    <3>1. job.hand # {} /\ job.next \in {"top", "cont", "drainslot", "final"} BY <2>1 DEF LoopInv, LoopType, JobT
    <3>2. job.next = "top" BY <2>1, <3>1 DEF LoopInv, Drains, Ends
    <3> QED BY <2>2, <3>1, <3>2
  <2> HIDE DEF j
  <2>4. PICK S \in SUBSET j.hand : S # {} /\ SpawnsPart(j, S) BY <2>1, <2>3, SpawnBatchFacts
  <2>5. LoopType' /\ LoopInv' /\ out' \in SUBSET BatchT BY <2>2, <2>3, <2>4, SpawnKeepsLoop
  <2>6. LaneType' BY <2>1, LaneMethods DEF LaneType
  <2> QED BY <2>1, <2>5, <2>6 DEF QueueType, SlotType, WorkType, queueVars, slotVars, widthVars
<1>6. CASE SpawnSingle
  <2>1. pc = "single" /\ UNCHANGED <<queueVars, lane, depth, widthVars, served>> BY <1>6 DEF SpawnSingle
  <2>2. pending' = pending /\ clock' = clock BY <2>1 DEF queueVars
  <2>3. CASE shutdown
    <3>1. pc' = "inline" /\ job' = job /\ out' = out /\ permits' = permits BY <1>6, <2>3 DEF SpawnSingle, Goto
    <3>2. LoopType' BY <3>1 DEF LoopType, Places
    <3>3. LoopInv' BY <2>1, <2>2, <3>1 DEF LoopInv, Drains, Ends
    <3> QED BY <2>1, <2>2, <3>1, <3>2, <3>3 DEF QueueType, SlotType, LaneType, WorkType, widthVars
  <2>4. CASE ~shutdown
    <3>1. PICK i \in job.hand : Spawn(job, {i}) BY <1>6, <2>4 DEF SpawnSingle
    <3>2. SpawnsPart(job, {i}) BY <3>1, SpawnFacts
    <3>3. /\ job \in JobT /\ job.hand # {} /\ job.next # "final"
          /\ job.next # "top" => job.queue \in Queues
          /\ job.next = "drainslot" => job.budget > 0 /\ job.budget <= Cardinality(pending'[job.queue])
      BY <2>1, <2>2 DEF LoopInv, LoopType, JobT, Drains, Ends
    <3>4. LoopType' /\ LoopInv' /\ out' \in SUBSET BatchT
      <4>1. {i} \in SUBSET job.hand /\ {i} # {} OBVIOUS
      <4> QED BY <3>2, <3>3, <4>1, SpawnKeepsLoop
    <3>5. SlotType' BY SMT, <1>6, <2>1, <2>4 DEF SpawnSingle, SlotType, widthVars
    <3> QED BY <2>1, <2>2, <3>4, <3>5 DEF QueueType, LaneType, WorkType
  <2> QED BY <2>3, <2>4
<1>7. CASE RunInline
  <2>1. /\ pc = "inline" /\ UNCHANGED <<queueVars, lane, slotVars, widthVars, out>>
        /\ served' = served \cup job.hand /\ Continue(job) /\ pending' = pending
    BY <1>7 DEF RunInline, queueVars
  <2>2. served' \in SUBSET ItemT BY <2>1 DEF WorkType, LoopType, JobT
  <2>3. LoopType' /\ LoopInv'
    <3>1. CASE job.next = "top"
      <4>1. pc' = "top" /\ job' = NoJob BY <2>1, <3>1 DEF Continue
      <4> QED BY <1>2, <4>1 DEF LoopType, LoopInv, Drains, Ends, Places
    <3>2. CASE job.next # "top"
      <4>1. pc' = job.next /\ job' = [job EXCEPT !.hand = {}] /\ job.next \in {"cont", "drainslot", "final"}
        BY <2>1, <3>2 DEF Continue, LoopType, JobT
      <4>2. /\ job' \in JobT /\ job'.hand = {} /\ job'.next = job.next /\ job'.queue = job.queue
            /\ job'.budget = job.budget
        BY <4>1 DEF LoopType, JobT
      <4>3. LoopType' BY <4>1, <4>2 DEF LoopType, Places
      <4>4. LoopInv' BY <2>1, <4>1, <4>2 DEF LoopInv, Drains, Ends
      <4> QED BY <4>3, <4>4
    <3> QED BY <3>1, <3>2
  <2> QED BY <2>1, <2>2, <2>3 DEF QueueType, SlotType, LaneType, WorkType, queueVars, slotVars, widthVars
<1>8. CASE GetBatch
  <2>1. pc = "get" /\ UNCHANGED <<lane, slotVars>> BY <1>8 DEF GetBatch
  <2>2. PICK B \in Batches(job.queue, Cap) :
          Extract(job.queue, B) /\ SpawnBatch([job EXCEPT !.hand = B, !.next = "cont"])
    BY <1>8 DEF GetBatch
  <2>3. job.queue \in Queues /\ pending[job.queue] # {} BY <2>1 DEF LoopInv
  <2>4. B \in SUBSET ItemT /\ B # {} BY <1>1, <2>3, BatchFacts
  <2>5. QueueType' BY <1>1, <2>2, <2>3, ExtractFacts
  <2> DEFINE j == [job EXCEPT !.hand = B, !.next = "cont"]
  <2>6. j \in JobT /\ j.hand = B /\ j.next = "cont" /\ j.queue = job.queue BY <2>4 DEF LoopType, JobT
  <2>7. SpawnBatch(j) BY <2>2
  <2> HIDE DEF j
  <2>8. PICK S \in SUBSET j.hand : S # {} /\ SpawnsPart(j, S) BY <2>4, <2>6, <2>7, SpawnBatchFacts
  <2>9. LoopType' /\ LoopInv' /\ out' \in SUBSET BatchT BY <2>3, <2>4, <2>6, <2>8, SpawnKeepsLoop
  <2> QED BY <2>1, <2>2, <2>5, <2>9 DEF Extract, SlotType, LaneType, WorkType, slotVars, widthVars
<1>9. CASE Drain
  <2>1. pc = "drain" /\ UNCHANGED <<lane, slotVars>> BY <1>9 DEF Drain
  <2>2. PICK B \in Batches(job.queue, job.budget) :
          /\ Extract(job.queue, B)
          /\ SpawnBatch([job EXCEPT !.hand = B, !.budget = job.budget - Cardinality(B),
                                    !.next = IF job.budget - Cardinality(B) > 0 THEN "drainslot" ELSE "top"])
    BY <1>9 DEF Drain
  <2>3. /\ job.queue \in Queues /\ job.budget \in Nat \ {0}
        /\ job.budget <= Cardinality(pending[job.queue])
    BY SMT, <2>1 DEF LoopInv, Drains, LoopType, JobT
  <2>4. pending[job.queue] # {}
    <3>1. Cardinality({}) = 0 BY FS_EmptySet
    <3> QED BY SMT, <2>3, <3>1
  <2>5. /\ B \in SUBSET ItemT /\ B # {} /\ Cardinality(B) \in Nat /\ Cardinality(B) <= job.budget
        /\ Cardinality(pending[job.queue]) \in Nat
    BY <2>3, <2>4, BatchFacts
  <2>6. QueueType' /\ Cardinality(pending'[job.queue]) = Cardinality(pending[job.queue]) - Cardinality(B)
    BY <2>2, <2>3, <2>4, ExtractFacts
  <2> DEFINE left == job.budget - Cardinality(B)
             nxt == IF left > 0 THEN "drainslot" ELSE "top"
             j == [job EXCEPT !.hand = B, !.budget = left, !.next = nxt]
  <2>7. left \in Nat /\ left <= Cardinality(pending'[job.queue]) /\ nxt \in {"drainslot", "top"}
        /\ (nxt = "drainslot" => left > 0)
    BY SMT, <2>3, <2>5, <2>6
  <2>8. SpawnBatch(j) BY <2>2
  <2> HIDE DEF left, nxt
  <2>9. j \in JobT /\ j.hand = B /\ j.next = nxt /\ j.queue = job.queue /\ j.budget = left
    BY <2>5, <2>7 DEF LoopType, JobT
  <2> HIDE DEF j
  <2>10. PICK S \in SUBSET j.hand : S # {} /\ SpawnsPart(j, S) BY <2>5, <2>8, <2>9, SpawnBatchFacts
  <2>11. LoopType' /\ LoopInv' /\ out' \in SUBSET BatchT
    BY <2>3, <2>5, <2>7, <2>9, <2>10, SpawnKeepsLoop
  <2> QED BY <2>1, <2>2, <2>6, <2>11 DEF Extract, SlotType, LaneType, WorkType, slotVars, widthVars
<1>10. CASE FinalDrain
  <2>1. pc = "final" /\ pc' = "inline" /\ Busy # {} /\ UNCHANGED <<lane, slotVars, out>> BY <1>10 DEF FinalDrain
  <2>2. PICK B \in Batches(OldestQueue, Cap) : Extract(OldestQueue, B) /\ job' = [job EXCEPT !.hand = B]
    BY <1>10 DEF FinalDrain
  <2>3. OldestQueue \in Queues /\ pending[OldestQueue] # {} BY <2>1, OldestQueueFacts
  <2>4. B \in SUBSET ItemT BY <1>1, <2>3, BatchFacts
  <2>5. QueueType' BY <1>1, <2>2, <2>3, ExtractFacts
  <2>6. job' \in JobT /\ job'.next = job.next BY <2>2, <2>4 DEF LoopType, JobT
  <2>7. LoopType' BY <2>1, <2>6 DEF LoopType, Places
  <2>8. job.next = "final" BY <2>1 DEF LoopInv, Ends
  <2>9. LoopInv' BY <2>1, <2>6, <2>8 DEF LoopInv, Drains, Ends
  <2> QED BY <2>1, <2>2, <2>5, <2>7, <2>9 DEF Extract, SlotType, LaneType, WorkType, slotVars, widthVars
<1> QED BY <1>3, <1>4, <1>5, <1>6, <1>7, <1>8, <1>9, <1>10

\* The types and the control invariant hold at the start.
LEMMA CtlInit == Init => CtlInv
<1> SUFFICES ASSUME Init PROVE CtlInv OBVIOUS
<1>1. QueueType BY FS_EmptySet DEF Init, QueueType
<1>2. SlotType
  <2>1. width \in Nat /\ Depth \in Nat BY SchedulerConstants DEF Init
  <2>2. Max({Depth, width}) \in Nat BY SMT, <2>1, MaxOfTwo
  <2> QED BY <2>1, <2>2 DEF Init, SlotType
<1>3. LaneType BY DEF Init, LaneType, LaneT
<1>4. LoopType /\ LoopInv BY DEF Init, LoopType, LoopInv, Drains, Ends, NoJob, JobT, Places
<1>5. WorkType BY DEF Init, WorkType
<1> QED BY <1>1, <1>2, <1>3, <1>4, <1>5 DEF CtlInv

\* Every step keeps them.
LEMMA CtlStep == CtlInv /\ [Next]_vars => CtlInv'
<1> SUFFICES ASSUME CtlInv, [Next]_vars PROVE CtlInv' OBVIOUS
<1>1. CASE Loop BY <1>1, CtlControl, CtlMoves DEF Loop
<1>2. CASE \/ \E c \in Calls : Caller(c)
           \/ \E b \in out : Task(b)
           \/ Ripen \/ CloseWindow \/ GrowTo \/ Shutdown
           \/ \E w \in Widths : RecordWidth(w)
  BY <1>2, CtlOutside
<1>3. CASE \E c \in Calls, q \in Queues, n \in Parts : Append(c, q, n) BY <1>3, CtlAppend
<1>4. CASE UNCHANGED vars
  BY <1>4 DEF CtlInv, QueueType, SlotType, LaneType, LoopType, WorkType, LoopInv, Drains, Ends, vars,
              queueVars, slotVars, widthVars, loopVars, workVars
<1> QED BY <1>1, <1>2, <1>3, <1>4 DEF Next, Progress
=============================================================================
