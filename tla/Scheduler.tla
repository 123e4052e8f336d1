----------------------------- MODULE Scheduler -----------------------------
(***************************************************************************)
(* The scheduler of one model in the sidecar: callers append requests to   *)
(* its (op, lora) queues (scheduler/engine.rs), the lane decides when the  *)
(* next batch leaves (scheduler/lane.rs), and the drain loop takes batches *)
(* and hands them to the engine over a pipeline of slots (dispatcher.rs).  *)
(* An engine that runs one batch at a time is served under the lane's      *)
(* rule; one that batches by itself (dispatch width above 1) in waves.     *)
(*                                                                         *)
(* A queue is the abstract BatchQueue with items of one cost: a batch is   *)
(* as many of its items as the caps allow, whichever the former packs.     *)
(* Time is a step: a queue becomes ripe when a flush timer of it has run   *)
(* out, and the gather window of the lane closes.  The loop, the callers   *)
(* and the dispatch tasks run on several threads, so every lock region is  *)
(* an action.                                                              *)
(***************************************************************************)
EXTENDS Integers, FiniteSets, FiniteSetsExt

CONSTANTS
  Queues,       \* the (op, lora) keys
  Split,        \* those whose items go to a wide engine one by one
  MaxCalls,     \* requests that are submitted
  Parts,        \* items a request may have
  Cap,          \* max_batch_requests
  Depth,        \* pipeline_depth()
  Widths,       \* dispatch widths the backend may report
  MaxReports,   \* bound on the reports that change the width
  Knobs,        \* settings of the operator: [idle, hold]
  None

ASSUME SchedulerConstants ==
  /\ Split \subseteq Queues /\ None \notin Queues
  /\ Parts \cup {MaxCalls, Cap, Depth} \subseteq Nat \ {0} /\ MaxReports \in Nat
  /\ Widths \subseteq Nat \ {0}
  /\ Knobs \subseteq [idle : BOOLEAN, hold : BOOLEAN]

VARIABLES
  pending,      \* per queue: the set of items [req, part, at] that wait
  clock,        \* items submitted so far; gives a call its instant
  ripe,         \* a flush timer of the oldest queue has run out
  call,         \* per request: the next step of its submit
  lane,         \* [inFlight, need, over, gathers, continues]
  permit,       \* new_item holds a stored permit
  notified,     \* the loop's Notified: "none", "waiting", "woken", "done"
  permits,      \* free slots of the pipeline semaphore
  depth,        \* slots it has in all
  width,        \* dispatch width reported last
  reports,
  knobs,        \* SIE_BATCHER_IDLE_BYPASS_ENABLED, SIE_BATCHER_HOLD_WHILE_BUSY
  pc,           \* where the loop is
  wasIdle,      \* whether the classic loop may flush at once
  job,          \* the locals of the loop, see NoJob
  out,          \* batches with the engine: [items, lane, answered, stage]
  served,       \* items whose batch came back
  shutdown

queueVars == <<pending, clock, ripe>>
notifyVars == <<permit, notified>>
slotVars == <<permits, depth>>
widthVars == <<width, reports>>
loopVars == <<pc, wasIdle, job>>
workVars == <<out, served>>
fixedVars == <<knobs, shutdown>>
vars == <<queueVars, call, lane, notifyVars, slotVars, widthVars, loopVars, workVars, fixedVars>>

\* What the loop holds: the queue it picked, what gate_view said of it, the
\* items it extracted and has not spawned, the requests they complete,
\* whether they leave part of one behind, where it goes on after it has
\* spawned them, and its drain budget (when it quiesces, the slots it takes).
NoJob == [queue |-> None, full |-> FALSE, classic |-> FALSE, hand |-> {}, answered |-> 0, remainder |-> FALSE, next |-> "top", budget |-> 0]

Calls == 1 .. MaxCalls
Items == UNION {pending[q] : q \in Queues}
Busy == {q \in Queues : pending[q] # {}}
Head(q) == Min({i.at : i \in pending[q]})
Full(q) == Cardinality(pending[q]) >= Cap

\* notify_one: a waiter is woken, or the permit is stored.
NotifyOne ==
  IF notified = "waiting" THEN notified' = "woken" /\ UNCHANGED permit
  ELSE permit' = TRUE /\ UNCHANGED notified
\* Dropping a Notified passes a wake-up that nobody took on to the permit.
DropNotified == notified' = "none" /\ permit' = (permit \/ notified = "woken")

(***************************************************************************)
(* The lane: its state is behind one mutex, a method is one atomic step.   *)
(***************************************************************************)
\* The echo score rises with a hit and falls with a miss; only whether it is
\* over the threshold matters.
Scores(l, hit) ==
  {[l EXCEPT !.need = 0, !.over = FALSE, !.gathers = g] : g \in {l.gathers, hit}}
\* settle_watch: a window that has closed is scored as a miss.
Settled(l) == IF l.need > 0 /\ l.over THEN Scores(l, FALSE) ELSE {l}

OnArrival(l) ==
  IF l.need = 0 THEN {l}
  ELSE IF l.over THEN Scores(l, FALSE)
  ELSE IF l.need = 1 THEN Scores(l, TRUE)
  ELSE {[l EXCEPT !.need = @ - 1]}

OnDispatch(l, leaves) == [l EXCEPT !.inFlight = @ + 1, !.continues = leaves]

\* The batch that empties the lane opens the watch, if it answered anybody
\* and the window is worth a timer.
OnReturn(l, n) ==
  LET m == [l EXCEPT !.inFlight = Max({0, @ - 1})]
      Closed == IF l.need > 0 THEN Scores(m, FALSE) ELSE {m}
  IN  IF m.inFlight > 0 THEN {m}
      ELSE Closed \cup IF n = 0 THEN {} ELSE {[k EXCEPT !.need = n, !.over = FALSE] : k \in Closed}

(***************************************************************************)
(* Callers: submit_many appends a request to its queue, tells the lane,    *)
(* and notifies the loop.  Requests are numbered as they reach the queues. *)
(* An arrival restarts the coalesce timer.                                 *)
(***************************************************************************)
Append(c, q, n) ==
  /\ call[c] = "idle" /\ \A d \in 1 .. c - 1 : call[d] # "idle"
  /\ clock' = clock + n
  /\ pending' = [pending EXCEPT ![q] = @ \cup {[req |-> c, part |-> i, at |-> clock'] : i \in 1 .. n}]
  /\ ripe' = FALSE
  /\ call' = [call EXCEPT ![c] = "appended"]
  /\ UNCHANGED <<lane, notifyVars, slotVars, widthVars, loopVars, workVars, fixedVars>>

TellLane(c) ==
  /\ call[c] = "appended"
  /\ lane' \in OnArrival(lane)
  /\ call' = [call EXCEPT ![c] = "told"]
  /\ UNCHANGED <<queueVars, notifyVars, slotVars, widthVars, loopVars, workVars, fixedVars>>

\* Faulty variant: the loop is not told.
NotifyNobody(c) ==
  /\ call[c] = "told"
  /\ call' = [call EXCEPT ![c] = "done"]
  /\ UNCHANGED <<queueVars, lane, notifyVars, slotVars, widthVars, loopVars, workVars, fixedVars>>
Notify(c) ==
  /\ call[c] = "told"
  /\ NotifyOne
  /\ call' = [call EXCEPT ![c] = "done"]
  /\ UNCHANGED <<queueVars, lane, slotVars, widthVars, loopVars, workVars, fixedVars>>

(***************************************************************************)
(* Slots of the pipeline.                                                  *)
(***************************************************************************)
Goto(p) == pc' = p /\ UNCHANGED <<wasIdle, job>>
GoTop == pc' = "top" /\ job' = NoJob

\* reserve_pipeline_slot: shutdown wins the biased select.
ReserveSlot(from, to) ==
  /\ pc = from
  /\ IF shutdown THEN pc' = "quiesce" /\ job' = NoJob /\ UNCHANGED <<wasIdle, permits>>
     ELSE permits > 0 /\ permits' = permits - 1 /\ Goto(to)
  /\ UNCHANGED <<queueVars, call, lane, notifyVars, depth, widthVars, workVars, fixedVars>>

\* Shutdown drops a wait between two locks, and the slot with it.
Cancel ==
  /\ shutdown
  /\ pc \in {"pick", "view", "take", "await", "timed", "cpick", "cwait", "get", "snapshot", "drain"}
  /\ permits' = permits + 1
  /\ DropNotified
  /\ pc' = "quiesce" /\ job' = NoJob
  /\ UNCHANGED <<queueVars, call, lane, depth, widthVars, wasIdle, workVars, fixedVars>>

\* The loop reads the width to choose its branch.
Top ==
  /\ pc = "top"
  /\ Goto(IF knobs.hold /\ width <= 1 THEN "laneslot" ELSE "slot")
  /\ UNCHANGED <<queueVars, call, lane, notifyVars, slotVars, widthVars, workVars, fixedVars>>

(***************************************************************************)
(* next_dispatch.                                                          *)
(***************************************************************************)
Arm(from, to) ==
  /\ pc = from /\ Goto(to)
  /\ notified' = IF permit THEN "done" ELSE "waiting"
  /\ permit' = FALSE
  /\ UNCHANGED <<queueVars, call, lane, slotVars, widthVars, workVars, fixedVars>>

\* Faulty variant: a queue is picked regardless of its head.
AnyQueue == CHOOSE q \in Busy : TRUE
\* pick_oldest: the queue whose head is oldest.
OldestQueue == CHOOSE q \in Busy : \A r \in Busy : Head(q) <= Head(r)
PickOldest(from, found, empty) ==
  /\ pc = from
  /\ IF Busy = {} THEN Goto(empty)
     ELSE pc' = found /\ job' = [job EXCEPT !.queue = OldestQueue] /\ UNCHANGED wasIdle
  /\ UNCHANGED <<queueVars, call, lane, notifyVars, slotVars, widthVars, workVars, fixedVars>>

GateView ==
  /\ pc = "view"
  /\ job' = [job EXCEPT !.full = Full(job.queue), !.classic = Full(job.queue) \/ ripe]
  /\ pc' = "judge"
  /\ UNCHANGED <<queueVars, call, lane, notifyVars, slotVars, widthVars, wasIdle, workVars, fixedVars>>

\* With the idle bypass off, an idle lane waits for the classic triggers.
Classic(l) == ~knobs.idle /\ ~job.full /\ l.inFlight = 0 /\ l.need = 0
\* Faulty variant: a busy lane holds nothing back.
VerdictUnheld(l) == IF job.full \/ l.inFlight > 0 \/ job.classic THEN "take" ELSE "timed"
Verdict(l) ==
  IF Classic(l) THEN IF job.classic THEN "take" ELSE "timed"
  ELSE IF job.full THEN "take"
  ELSE IF l.inFlight > 0 THEN IF l.continues THEN "take" ELSE "await"
  ELSE IF l.need > 0 /\ l.gathers THEN "timed" ELSE "take"
SettlesFirst == ~job.full /\ (~knobs.idle \/ lane.inFlight = 0)

Judge ==
  /\ pc = "judge"
  /\ lane' \in IF SettlesFirst THEN Settled(lane) ELSE {lane}
  /\ pc' = Verdict(lane')
  /\ job' = [job EXCEPT !.full = FALSE, !.classic = (pc' = "timed" /\ Classic(lane'))]
  /\ UNCHANGED <<queueVars, call, notifyVars, slotVars, widthVars, wasIdle, workVars, fixedVars>>

\* Awaiting the Notified, or it and a timer: the queue's, or the window's.
TimerDue == IF job.classic THEN ripe ELSE lane.over
Wake ==
  /\ \/ pc \in {"await", "timed", "cwait"} /\ notified \in {"woken", "done"}
     \/ pc = "timed" /\ TimerDue
  /\ pc' = IF pc = "cwait" THEN "carm" ELSE "arm"
  /\ job' = NoJob
  /\ notified' = "none"
  /\ UNCHANGED <<queueVars, call, lane, permit, slotVars, widthVars, wasIdle, workVars, fixedVars>>

\* The batches of at most limit items that the former of q may pack (the
\* parts of a request are interchangeable), and the requests they complete.
Batches(q, limit) ==
  {B \in SUBSET pending[q] :
     /\ Cardinality(B) = Min({limit, Cap, Cardinality(pending[q])})
     /\ \A i \in B, j \in pending[q] \ B : i.req = j.req => i.part < j.part}
Requests(B) == {i.req : i \in B}
Completes(q, B) == Requests(B) \ Requests(pending[q] \ B)

\* What remains is timed from its own oldest item.
Extract(q, B) ==
  /\ pending' = [pending EXCEPT ![q] = @ \ B]
  /\ ripe' = FALSE
  /\ UNCHANGED <<clock, call, widthVars, served, fixedVars>>

Take ==
  /\ pc = "take"
  /\ \E B \in Batches(job.queue, Cap) :
       /\ Extract(job.queue, B)
       /\ job' = [job EXCEPT !.hand = B,
                             !.answered = Cardinality(Completes(job.queue, B)),
                             !.remainder = Requests(B) # Completes(job.queue, B)]
  /\ pc' = "send"
  /\ DropNotified
  /\ UNCHANGED <<lane, slotVars, wasIdle, out>>

Batch(B, inLane, n) == [items |-> B, lane |-> inLane, answered |-> n, stage |-> "run"]

\* on_dispatch; then spawn_lane_batch, unless the width has grown while the
\* lane waited.
Send ==
  /\ pc = "send"
  /\ lane' = OnDispatch(lane, job.remainder)
  /\ IF width > 1 THEN Goto("recall") /\ UNCHANGED out
     ELSE /\ out' = out \cup {Batch(job.hand, TRUE, job.answered)}
          /\ GoTop /\ wasIdle' = TRUE
  /\ UNCHANGED <<queueVars, call, notifyVars, slotVars, widthVars, served, fixedVars>>

(***************************************************************************)
(* spawn_scheduler_batch: on the slot the loop holds or, for the items of  *)
(* a wide engine, one item per slot.                                       *)
(***************************************************************************)
DispatchesItemsAlone(q) == q \in Split /\ width > 1
\* The loop goes on; it keeps its queue and budget only within a wave.
Continue(j) == pc' = j.next /\ job' = IF j.next = "top" THEN NoJob ELSE [j EXCEPT !.hand = {}]
Spawn(j, B) ==
  /\ out' = out \cup {Batch(B, FALSE, 0)}
  /\ IF j.hand = B THEN Continue(j) ELSE pc' = "single" /\ job' = [j EXCEPT !.hand = @ \ B]
SpawnBatch(j) ==
  IF DispatchesItemsAlone(j.queue) THEN \E i \in j.hand : Spawn(j, {i}) ELSE Spawn(j, j.hand)

\* Faulty variant: shutdown drops the rest of the batch.
SpawnSingleDrops ==
  /\ pc = "single"
  /\ IF shutdown THEN pc' = "quiesce" /\ job' = NoJob /\ UNCHANGED <<permits, out>>
     ELSE permits > 0 /\ permits' = permits - 1 /\ \E i \in job.hand : Spawn(job, {i})
  /\ UNCHANGED <<queueVars, call, lane, notifyVars, depth, widthVars, wasIdle, served, fixedVars>>
\* Every further item waits for a slot; if shutdown wins, the rest run here.
SpawnSingle ==
  /\ pc = "single"
  /\ IF shutdown THEN Goto("inline") /\ UNCHANGED <<permits, out>>
     ELSE /\ permits > 0 /\ permits' = permits - 1
          /\ \E i \in job.hand : Spawn(job, {i})
          /\ UNCHANGED wasIdle
  /\ UNCHANGED <<queueVars, call, lane, notifyVars, depth, widthVars, served, fixedVars>>

\* Faulty variant: the lane still counts the batch.
RecallUncounted ==
  /\ pc = "recall"
  /\ SpawnBatch([job EXCEPT !.answered = 0, !.remainder = FALSE])
  /\ wasIdle' = TRUE
  /\ UNCHANGED <<queueVars, call, lane, notifyVars, slotVars, widthVars, served, fixedVars>>
\* The batch never went out under the lane's rule: it is taken back out of
\* the lane's count and sent the other way.
Recall ==
  /\ pc = "recall"
  /\ lane' \in OnReturn(lane, 0)
  /\ NotifyOne
  /\ SpawnBatch([job EXCEPT !.answered = 0, !.remainder = FALSE])
  /\ wasIdle' = TRUE
  /\ UNCHANGED <<queueVars, call, slotVars, widthVars, served, fixedVars>>

RunInline ==
  /\ pc = "inline"
  /\ served' = served \cup job.hand
  /\ Continue(job)
  /\ UNCHANGED <<queueVars, call, lane, notifyVars, slotVars, widthVars, wasIdle, out, fixedVars>>

(***************************************************************************)
(* consume_next and the continuation of its wave: get_batch waits for a    *)
(* cap or a timer unless the loop was idle, and a wave that drained        *)
(* nothing after a single item leaves it idle.                             *)
(***************************************************************************)
GetBatch ==
  /\ pc = "get"
  /\ (wasIdle /\ knobs.idle) \/ ripe \/ Full(job.queue)
  /\ \E B \in Batches(job.queue, Cap) :
       /\ Extract(job.queue, B)
       /\ SpawnBatch([job EXCEPT !.hand = B, !.next = "cont"])
       /\ wasIdle' = (Cardinality(B) <= 1)
  /\ DropNotified
  /\ UNCHANGED <<lane, slotVars>>

\* Faulty variant: the slot is kept when nothing waits.
SnapshotKeepsSlot ==
  /\ pc = "snapshot"
  /\ IF pending[job.queue] = {} THEN GoTop
     ELSE job' = [job EXCEPT !.budget = Cardinality(pending[job.queue])] /\ pc' = "drain"
  /\ UNCHANGED <<queueVars, call, lane, notifyVars, slotVars, widthVars, wasIdle, workVars, fixedVars>>
\* The first continuation slot is open: the wave is bounded by what waits now.
Snapshot ==
  /\ pc = "snapshot"
  /\ IF pending[job.queue] = {} THEN GoTop /\ permits' = permits + 1
     ELSE /\ job' = [job EXCEPT !.budget = Cardinality(pending[job.queue])]
          /\ pc' = "drain" /\ UNCHANGED permits
  /\ UNCHANGED <<queueVars, call, lane, notifyVars, depth, widthVars, wasIdle, workVars, fixedVars>>

Drain ==
  /\ pc = "drain"
  /\ \E B \in Batches(job.queue, job.budget) :
       /\ Extract(job.queue, B)
       /\ LET left == job.budget - Cardinality(B)
          IN  SpawnBatch([job EXCEPT !.hand = B, !.budget = left, !.next = IF left > 0 THEN "drainslot" ELSE "top"])
  /\ wasIdle' = FALSE
  /\ UNCHANGED <<lane, notifyVars, slotVars>>

(***************************************************************************)
(* Shutdown: take every slot, then flush what is pending by its triggers   *)
(* until nothing is left or the deadline passes.                           *)
(***************************************************************************)
Quiesce ==
  /\ pc = "quiesce"
  /\ pc' = "acquire" /\ job' = [job EXCEPT !.budget = depth, !.next = "final"]
  /\ UNCHANGED <<queueVars, call, lane, notifyVars, slotVars, widthVars, wasIdle, workVars, fixedVars>>

\* quiesce: as many slots as the pipeline had when the loop asked.
AcquireAll ==
  /\ pc = "acquire"
  /\ permits >= job.budget /\ permits' = permits - job.budget
  /\ Goto("final")
  /\ UNCHANGED <<queueVars, call, lane, notifyVars, depth, widthVars, workVars, fixedVars>>

\* try_consume_next
FinalDrain ==
  /\ pc = "final" /\ Busy # {}
  /\ ripe \/ Full(OldestQueue)
  /\ \E B \in Batches(OldestQueue, Cap) :
       Extract(OldestQueue, B) /\ job' = [job EXCEPT !.hand = B]
  /\ pc' = "inline"
  /\ UNCHANGED <<lane, notifyVars, slotVars, wasIdle, out>>

\* Nothing is pending, or the deadline has passed.
Exit ==
  /\ pc = "final"
  /\ Goto("exit")
  /\ UNCHANGED <<queueVars, call, lane, notifyVars, slotVars, widthVars, workVars, fixedVars>>

(***************************************************************************)
(* A dispatch task: process_scheduler_batch comes back; a batch of the     *)
(* lane then reports its return and wakes the loop; the slot is freed.     *)
(***************************************************************************)
Return(b) ==
  /\ b.stage = "run"
  /\ served' = served \cup b.items
  /\ IF b.lane
     THEN /\ lane' \in OnReturn(lane, b.answered)
          /\ out' = (out \ {b}) \cup {[b EXCEPT !.stage = "returned"]}
          /\ UNCHANGED permits
     ELSE out' = out \ {b} /\ permits' = permits + 1 /\ UNCHANGED lane
  /\ UNCHANGED <<queueVars, call, notifyVars, depth, widthVars, loopVars, fixedVars>>

NotifyReturn(b) ==
  /\ b.stage = "returned"
  /\ NotifyOne
  /\ out' = (out \ {b}) \cup {[b EXCEPT !.stage = "noted"]}
  /\ UNCHANGED <<queueVars, call, lane, slotVars, widthVars, loopVars, served, fixedVars>>

FreeSlot(b) ==
  /\ b.stage = "noted"
  /\ permits' = permits + 1
  /\ out' = out \ {b}
  /\ UNCHANGED <<queueVars, call, lane, notifyVars, depth, widthVars, loopVars, served, fixedVars>>

(***************************************************************************)
(* The environment: time, the widths that EnsureModelReady reports, and    *)
(* the shutdown signal.                                                    *)
(***************************************************************************)
\* Only the timers of the oldest queue are read, where the loop waits for
\* one or is about to look.
Ripen ==
  /\ pc \in {"view", "get", "final"} \/ (pc = "timed" /\ job.classic)
  /\ Busy # {}
  /\ ~ripe /\ ripe' = TRUE
  /\ UNCHANGED <<pending, clock, call, lane, notifyVars, slotVars, widthVars, loopVars, workVars, fixedVars>>

CloseWindow ==
  /\ lane.need > 0 /\ ~lane.over
  /\ lane' = [lane EXCEPT !.over = TRUE]
  /\ UNCHANGED <<queueVars, call, notifyVars, slotVars, widthVars, loopVars, workVars, fixedVars>>

RecordWidth(w) ==
  /\ w # width /\ reports < MaxReports
  /\ width' = w /\ reports' = reports + 1
  /\ UNCHANGED <<queueVars, call, lane, notifyVars, slotVars, loopVars, workVars, fixedVars>>

\* The report then widens the pipeline, which never narrows.
GrowTo ==
  /\ width > depth
  /\ depth' = width /\ permits' = permits + width - depth
  /\ UNCHANGED <<queueVars, call, lane, notifyVars, widthVars, loopVars, workVars, fixedVars>>

Shutdown ==
  /\ ~shutdown /\ shutdown' = TRUE
  /\ UNCHANGED <<queueVars, call, lane, notifyVars, slotVars, widthVars, loopVars, workVars, knobs>>

Init ==
  /\ pending = [q \in Queues |-> {}] /\ clock = 0 /\ ripe = FALSE
  /\ call = [c \in Calls |-> "idle"]
  /\ lane = [inFlight |-> 0, need |-> 0, over |-> FALSE, gathers |-> TRUE, continues |-> FALSE]
  /\ permit = FALSE /\ notified = "none"
  /\ width \in Widths /\ depth = Max({Depth, width}) /\ permits = depth /\ reports = 0
  /\ knobs \in Knobs
  /\ pc = "top" /\ wasIdle = TRUE /\ job = NoJob
  /\ out = {} /\ served = {} /\ shutdown = FALSE

Loop ==
  \/ Top \/ ReserveSlot("laneslot", "arm") \/ ReserveSlot("slot", "carm")
  \/ ReserveSlot("cont", "snapshot") \/ ReserveSlot("drainslot", "drain")
  \/ Arm("arm", "pick") \/ PickOldest("pick", "view", "await") \/ GateView \/ Judge
  \/ Wake \/ Take \/ Send \/ Recall \/ SpawnSingle \/ RunInline
  \/ Arm("carm", "cpick") \/ PickOldest("cpick", "get", "cwait") \/ GetBatch \/ Snapshot \/ Drain
  \/ Cancel \/ Quiesce \/ AcquireAll \/ FinalDrain \/ Exit
Caller(c) == TellLane(c) \/ Notify(c)
Task(b) == Return(b) \/ NotifyReturn(b) \/ FreeSlot(b)

\* Steps of running code and of time; a submit, a report and the signal may
\* never come.
Progress ==
  \/ Loop \/ (\E c \in Calls : Caller(c)) \/ (\E b \in out : Task(b))
  \/ Ripen \/ CloseWindow \/ GrowTo

Next ==
  \/ Progress
  \/ \E c \in Calls, q \in Queues, n \in Parts : Append(c, q, n)
  \/ (\E w \in Widths : RecordWidth(w)) \/ Shutdown

Spec == Init /\ [][Next]_vars
FairSpec == Spec /\ WF_vars(Progress)
-----------------------------------------------------------------------------
\* Where the loop holds a slot of its own.
Holding == {"arm", "pick", "view", "judge", "take", "send", "recall", "await", "timed", "carm", "cpick", "cwait", "get", "snapshot", "drain"}
\* The final drain is on: the loop keeps the slots it quiesced with.
Quiesced == pc \in {"final", "exit"} \/ (pc = "inline" /\ job.next = "final")

\* No slot is lost or made up on any path of the drain loop: the free ones,
\* the loop's and the tasks' add up to the depth, through early returns, a
\* cancelled wait, items that are spawned one by one and a pipeline that
\* grows while it is full (dispatcher.rs: ModelPipeline, the permits of
\* scheduler_drain_loop).
SlotsBalance ==
  permits + Cardinality(out) + (IF pc \in Holding THEN 1 ELSE IF Quiesced THEN job.budget ELSE 0) = depth

\* The lane's count is the number of its batches that are with the engine,
\* also when the dispatch width changes between the lane's verdict and the
\* send and the batch goes the other way (lane.rs: in_flight; a batch that is
\* never reported would hold the lane for good).
LaneCountsItsBatches ==
  lane.inFlight = Cardinality({b \in out : b.lane /\ b.stage = "run"}) + IF pc = "recall" THEN 1 ELSE 0

\* A submitted item is in one place: pending, in the loop's hand, with the
\* engine, or back.  None is dropped with a wait that shutdown cancels or
\* with the rest of a batch that is spawned item by item, and none is sent
\* twice (dispatcher.rs: spawn_scheduler_batch, the select of shutdown and
\* next_dispatch, the final drain).
ItemsInOnePlace ==
  LET running == UNION {b.items : b \in {x \in out : x.stage = "run"}}
  IN  /\ Cardinality(Items \cup job.hand \cup running \cup served) = clock
      /\ Cardinality(Items) + Cardinality(job.hand) + Cardinality(running) + Cardinality(served) = clock

\* Whenever the loop picks a queue to take from, under the lane, in the
\* classic loop or in the final drain, it takes from the one whose head is
\* oldest at that moment, although it picked it steps earlier (engine.rs:
\* pick_oldest).
FirstComeFirstServed ==
  [][\A q \in Busy : pc \in {"take", "get", "final"} /\ ~(pending[q] \subseteq pending'[q]) =>
       \A r \in Busy : Head(q) <= Head(r)]_vars

\* While a batch of the lane is with the engine, another one leaves only full
\* or after a batch that left part of a request behind, whatever returned or
\* arrived between the view of the queue, the verdict and the extraction
\* (lane.rs: verdict).
HeldWhileBusy ==
  [][pc = "send" /\ pc' # "send" /\ lane.inFlight > 0 => Cardinality(job.hand) = Cap \/ lane.continues]_vars

\* Everything that is submitted leaves its queue unless shutdown comes, and
\* then the loop ends: no wake-up is lost between an arrival or a return and
\* a loop that is about to wait, no held lane stays held, and no slot is
\* waited for in vain (engine.rs: next_dispatch, consume_next; dispatcher.rs:
\* scheduler_drain_loop).
EverythingLeaves == <>[](IF shutdown THEN pc = "exit" ELSE Items = {})
=============================================================================
