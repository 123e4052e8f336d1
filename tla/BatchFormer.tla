---------------------------- MODULE BatchFormer ----------------------------
(***************************************************************************)
(* The queue in which the sidecar forms batches for one (op, lora) of a    *)
(* model: scheduler/batch_former.rs.  Callers append items, the adaptive   *)
(* controller changes the caps, and a consumer extracts batches, at most   *)
(* maxItems at a time.  Items that run alone (long audio) take turns with  *)
(* the batchable ones; a batchable turn spans several batches and owes     *)
(* what earlier turns left over.                                           *)
(*                                                                         *)
(* Every operation holds the queue's mutex from its first read to its last *)
(* write, so each is one action.  An Instant is a number that only its     *)
(* order gives a meaning; items of one call may share one.  Whether the    *)
(* oldest item has waited max_batch_wait_ms is a choice of each extraction *)
(* (the controller moves that knob both ways).                             *)
(***************************************************************************)
EXTENDS Integers, Sequences, FiniteSets, TLC, SequencesExt

CONSTANTS
  Calls,      \* what one call may submit: sequences of [cost, alone, cap, req]
  Configs,    \* caps the controller may set: [cost, requests, requestItems]
  Budgets,    \* how many items an extraction may ask for
  MaxItems    \* bound on the items submitted

VARIABLES
  pending,     \* the items that wait, in the order of the code's Vec
  clock,       \* the instant of the latest arrival
  config,      \* the caps in force
  first,       \* first_request_time, 0 for None; also the FCFS head
  last,        \* last_submit_time, 0 for None
  lastAlone,   \* lane of the last batch: "none", "alone" or "batch"
  turn,        \* the batchable turn under way, or NoTurn
  lastCutoff,  \* latest cutoff of a turn begun so far
  taken,       \* history: the ids of the items that left
  wait,        \* history: per item id, turns waited and the promised bound
  spent        \* history: what the turn took, and what it may take

formerVars == <<pending, clock, config, first, last, lastAlone, turn, lastCutoff, taken, wait, spent>>

Instants(s) == {s[i].at : i \in DOMAIN s}
\* The positions of s that pass Test.
Where(s, Test(_)) == {i \in DOMAIN s : Test(s[i])}
CostAt(s, I) == MapThenSumSet(LAMBDA i : s[i].cost, I)
AnyAlone(s) == \E i \in DOMAIN s : s[i].alone
AnyBatchable(s) == \E i \in DOMAIN s : ~s[i].alone

NoTurn == [cutoff |-> 0, owed |-> 0, left |-> 0, tookUnowed |-> FALSE]

\* A turn serves the batchable items that were there when it began, and owes
\* the oldest of those that an earlier turn left over.
Serves(t, r) == ~r.alone /\ r.at <= t.cutoff
Owes(t, r) == Serves(t, r) /\ r.at <= t.owed

\* The cost cap of the next batch: the lowest hard cap pending counts.
EffectiveMaxCost == Min({config.cost} \cup {pending[i].cap : i \in DOMAIN pending})

(***************************************************************************)
(* Whose turn it is.                                                       *)
(***************************************************************************)
\* Faulty variant: the turn goes on while it serves anything.
GoesOnDropsBudget(t) == \E i \in DOMAIN pending : Serves(t, pending[i])
\* The turn under way goes on while something it serves fits what is left of
\* its budget or, until it took an item it does not owe, while it serves any.
GoesOn(t) ==
  \E i \in DOMAIN pending :
    /\ Serves(t, pending[i])
    /\ t.tookUnowed => pending[i].cost <= t.left

\* The first position that holds the oldest arrival.
OldestAt(s) ==
  CHOOSE i \in DOMAIN s :
    \A j \in DOMAIN s : s[i].at < s[j].at \/ (s[i].at = s[j].at /\ i <= j)

\* The lanes alternate when both have items and no turn is under way.
AloneNext(t) ==
  /\ AnyAlone(pending)
  /\ \/ ~AnyBatchable(pending)
     \/ /\ t = NoTurn
        /\ \/ lastAlone = "batch"
           \/ lastAlone = "none" /\ pending[OldestAt(pending)].alone

\* Faulty variant: a turn owes nothing.
OwedLeftOverNothing(maxCost) == [owed |-> 0, oldestCost |-> 0]
\* What a turn opened now owes: the oldest instant that was left over and, in
\* order of arrival, the later ones that fit maxCost together with it.
OwedLeftOver(maxCost) ==
  LET Left == Where(pending, LAMBDA r : ~r.alone /\ r.at <= lastCutoff)
      CostUpTo(t) == CostAt(pending, {i \in Left : pending[i].at <= t})
      Times == {pending[i].at : i \in Left}
  IN  IF Left = {} THEN [owed |-> 0, oldestCost |-> 0]
      ELSE [owed |-> Max({Min(Times)} \cup {t \in Times : CostUpTo(t) <= maxCost}),
            oldestCost |-> CostUpTo(Min(Times))]

OpenTurn(maxCost) ==
  LET o == OwedLeftOver(maxCost)
  IN  [cutoff |-> Max(Instants(pending)), owed |-> o.owed,
       left |-> maxCost + o.oldestCost, tookUnowed |-> FALSE]

(***************************************************************************)
(* The order in which packing meets the items.                             *)
(***************************************************************************)
\* The stable sort: what the turn serves by cost, later arrivals by cost,
\* then the items that run alone by arrival.
Rank(t, r) == IF r.alone THEN 3 ELSE IF Serves(t, r) THEN 1 ELSE 2
Key(r) == IF r.alone THEN r.at ELSE r.cost
Precedes(t, s, i, j) ==
  \/ Rank(t, s[i]) < Rank(t, s[j])
  \/ Rank(t, s[i]) = Rank(t, s[j]) /\ Key(s[i]) < Key(s[j])
  \/ Rank(t, s[i]) = Rank(t, s[j]) /\ Key(s[i]) = Key(s[j]) /\ i < j
Sorted(t, s) ==
  LET order == SortSeq([i \in DOMAIN s |-> i], LAMBDA i, j : Precedes(t, s, i, j))
  IN  [i \in DOMAIN s |-> s[order[i]]]

\* Outside turns, with nothing flagged pending, the oldest item goes first
\* once it has waited the batch wait.
Promoted(t, aged) == aged /\ t = NoTurn /\ ~AnyAlone(pending)

\* s with the oldest item that runs alone, the first of them, in front.
AloneToFront(s) ==
  LET i == SelectInSeq(s, LAMBDA r : r.alone) IN <<s[i]>> \o RemoveAt(s, i)
\* Positions from k to m of s, those of the items in S first.
FavourFrom(s, k, m, S) ==
  SubSeq(s, 1, k - 1)
  \o SelectSeq(SubSeq(s, k, m), LAMBDA r : r \in S)
  \o SelectSeq(SubSeq(s, k, m), LAMBDA r : r \notin S)
  \o SubSeq(s, m + 1, Len(s))

\* s holds what turn t serves first, by cost.  At the first item that t does
\* not owe and that would leave too little of the budget for what t owes, the
\* owed items go ahead of it, unless the batch ends before.
MakeRoomForOwed(t, s, room, maxTake) ==
  LET Served == Where(s, LAMBDA r : Serves(t, r))
      Before(k) == CostAt(s, 1 .. k - 1)
      OwedFrom(k) == CostAt(s, {i \in Served : i >= k /\ Owes(t, s[i])})
      Ends(k) == k > maxTake \/ (k > 1 /\ Before(k) + s[k].cost > room)
      Crowds(k) == ~Owes(t, s[k]) /\ Before(k) + s[k].cost + OwedFrom(k) > t.left
      Stops == {k \in Served : Ends(k) \/ Crowds(k)}
  IN  IF Stops = {} \/ (Stops # {} /\ Ends(Min(Stops))) THEN s
      ELSE FavourFrom(s, Min(Stops), Max(Served), {r \in ToSet(s) : Owes(t, r)})

OwesAny(t) == \E i \in DOMAIN pending : Owes(t, pending[i])

\* What packing of turn t may take: of the cost, and of the items.
Room(t) == Min({EffectiveMaxCost} \cup IF t = NoTurn THEN {} ELSE {t.left})
MaxTake(maxItems) == Max({1, Min({maxItems, config.requests})})

\* The turn the next batch belongs to, if it belongs to one: the one under
\* way, or one opened because the last batch or a pending item runs alone.
NextTurn ==
  IF GoesOn(turn) THEN turn
  ELSE IF ~AloneNext(NoTurn) /\ (AnyAlone(pending) \/ lastAlone = "alone")
       THEN OpenTurn(EffectiveMaxCost) ELSE NoTurn
Opens(t) == t # NoTurn /\ ~GoesOn(turn)

\* The pending items in the order in which the next batch, of turn t, takes
\* them.
OrderForNextBatch(t, aged, maxItems) ==
  IF Promoted(t, aged)
  THEN <<pending[OldestAt(pending)]>> \o Sorted(t, RemoveAt(pending, OldestAt(pending)))
  ELSE IF AloneNext(t) THEN AloneToFront(Sorted(t, pending))
  ELSE IF OwesAny(t) THEN MakeRoomForOwed(t, Sorted(t, pending), Room(t), MaxTake(maxItems))
  ELSE Sorted(t, pending)

\* How many items the request at the head of s has pending, if it is kept
\* whole: more than one, and no more than requestItems.
HeadRequestLen(t, s) ==
  LET same == Cardinality(Where(s, LAMBDA r : r.req = s[1].req))
  IN  IF t = NoTurn /\ ~AnyAlone(s) /\ same > 1 /\ same <= config.requestItems THEN same ELSE 0
HeadRequestFirst(s, whole) ==
  IF whole = 0 THEN s ELSE FavourFrom(s, 1, Len(s), {r \in ToSet(s) : r.req = s[1].req})

(***************************************************************************)
(* The greedy pack: the longest prefix of s in which every item but the    *)
(* first still joins.                                                      *)
(***************************************************************************)
\* Faulty variant: an item that runs alone may be joined.
JoinsAlone(t, s, k, maxItems, whole) ==
  /\ k <= maxItems
  /\ t # NoTurn => Serves(t, s[k])
  /\ CostAt(s, 1 .. k) <= Room(t)
  /\ k - 1 < config.requests \/ k - 1 < whole
Joins(t, s, k, maxItems, whole) ==
  /\ k <= maxItems
  /\ ~s[k].alone /\ ~s[1].alone
  /\ t # NoTurn => Serves(t, s[k])
  /\ CostAt(s, 1 .. k) <= Room(t)
  /\ k - 1 < config.requests \/ k - 1 < whole

Pack(t, s, maxItems, whole) ==
  CHOOSE m \in DOMAIN s :
    /\ \A k \in 2 .. m : Joins(t, s, k, maxItems, whole)
    /\ m < Len(s) => ~Joins(t, s, m + 1, maxItems, whole)

OldestOr0(s) == IF s = <<>> THEN 0 ELSE Min(Instants(s))
NewestOr0(s) == IF s = <<>> THEN 0 ELSE Max(Instants(s))

(***************************************************************************)
(* The bookkeeping of what the queue promises: how many turns left an item *)
(* over (or, for an item that runs alone, went ahead of it), and how many  *)
(* may.                                                                    *)
(***************************************************************************)
Older(r) == {i \in DOMAIN pending : ~pending[i].alone /\ pending[i].at < r.at}
Waited(t) ==
  LET ended(r) == turn # NoTurn /\ t # turn /\ Serves(turn, r)
      w(r) == wait[r.id]
      After(r) ==
        IF ended(r)
        THEN [turns |-> w(r).turns + 1,
              bound |-> IF w(r).turns = 0 THEN 1 + Cardinality(Older(r)) ELSE w(r).bound]
        ELSE IF Opens(t) /\ r.alone THEN [w(r) EXCEPT !.turns = @ + 1]
        ELSE w(r)
  IN  [i \in DOMAIN wait |-> After(pending[CHOOSE k \in DOMAIN pending : pending[k].id = i])]
\* What a turn may take in all: its budget and the cheapest item not owed.
TurnLimit(t) ==
  LET Other == Where(pending, LAMBDA r : Serves(t, r) /\ ~Owes(t, r))
  IN  t.left + IF Other = {} THEN 0 ELSE Min({pending[i].cost : i \in Other})

(***************************************************************************)
(* extract_batch_up_to: the batch, what stays, the turn and the timers.    *)
(***************************************************************************)
\* Faulty variant: a partial extraction leaves the timers where they were.
KeepAnchors(rest) ==
  /\ first' = IF rest = <<>> THEN 0 ELSE first
  /\ last' = IF rest = <<>> THEN 0 ELSE last
ReAnchor(rest) == first' = OldestOr0(rest) /\ last' = NewestOr0(rest)

\* saturating_sub
Less(left, cost) == Max({0, left - cost})

\* The first n items of s leave as a batch of turn t.
Take(t, s, n) ==
  LET rest == SubSeq(s, n + 1, Len(s))
      cost == CostAt(s, 1 .. n)
  IN  /\ pending' = rest
      /\ ReAnchor(rest)
      /\ lastAlone' = IF s[1].alone THEN "alone" ELSE "batch"
      /\ turn' = IF t = NoTurn THEN NoTurn
                 ELSE [t EXCEPT !.owed = IF OwesAny(t) THEN @ ELSE 0,
                                !.left = Less(@, cost),
                                !.tookUnowed = @ \/ \E i \in 1 .. n : ~Owes(t, s[i])]
      /\ lastCutoff' = Max({lastCutoff, t.cutoff})
      /\ taken' = taken \cup {s[i].id : i \in 1 .. n}
      /\ wait' = [i \in {s[k].id : k \in n + 1 .. Len(s)} |-> Waited(t)[i]]
      /\ spent' = IF t = NoTurn THEN [cost |-> 0, limit |-> 0]
                  ELSE [cost |-> cost + IF Opens(t) THEN 0 ELSE spent.cost,
                        limit |-> IF Opens(t) THEN TurnLimit(t) ELSE spent.limit]
      /\ UNCHANGED <<clock, config>>

Extract(maxItems, aged) ==
  /\ pending # <<>>
  /\ \E t \in {NextTurn} :
     \E order \in {OrderForNextBatch(t, aged, maxItems)} :
     \E whole \in {HeadRequestLen(t, order)} :
     \E s \in {HeadRequestFirst(order, whole)} :
       Take(t, s, Pack(t, s, maxItems, whole))

\* submit and submit_many: the items of one call, appended under the lock at
\* one instant.  (Items of a call at different instants are as several calls.)
Submitted == Len(pending) + Cardinality(taken)
Pending(k, id) ==
  [id |-> id, at |-> clock', cost |-> k.cost, alone |-> k.alone, cap |-> k.cap, req |-> k.req]
Promise(r) ==
  IF r.alone
  THEN [turns |-> IF turn = NoTurn THEN 0 ELSE 1,
        bound |-> 1 + Cardinality({x \in ToSet(pending') : x.alone /\ x.id < r.id})]
  ELSE [turns |-> 0, bound |-> 0]

Submit(ks) ==
  /\ Submitted + Len(ks) <= MaxItems
  /\ clock' = clock + 1
  /\ pending' = pending \o [i \in DOMAIN ks |-> Pending(ks[i], Submitted + i)]
  /\ last' = clock'
  /\ first' = IF first = 0 THEN clock' ELSE first
  /\ wait' = [i \in {r.id : r \in ToSet(pending')} |->
                IF i <= Submitted THEN wait[i]
                ELSE Promise(CHOOSE r \in ToSet(pending') : r.id = i)]
  /\ UNCHANGED <<config, lastAlone, turn, lastCutoff, taken, spent>>

UpdateConfig(c) ==
  /\ config' = c
  /\ c # config
  /\ UNCHANGED <<pending, clock, first, last, lastAlone, turn, lastCutoff, taken, wait, spent>>

FormerInit ==
  /\ pending = <<>> /\ clock = 0
  /\ config \in Configs
  /\ first = 0 /\ last = 0
  /\ lastAlone = "none" /\ turn = NoTurn /\ lastCutoff = 0
  /\ taken = {} /\ wait = <<>> /\ spent = [cost |-> 0, limit |-> 0]

FormerNext ==
  \/ \E ks \in Calls : Submit(ks)
  \/ \E n \in Budgets, aged \in BOOLEAN : Extract(n, aged)
  \/ \E c \in Configs : UpdateConfig(c)

FormerSpec == FormerInit /\ [][FormerNext]_formerVars

-----------------------------------------------------------------------------
(* No item starves (batch_former.rs, point 5).  A batchable item is left over
   by at most as many turns that served its generation as items arrived before
   it and were pending when the first of those turns ended, and one more; an
   item that runs alone waits for at most one batchable turn per such item
   ahead of it, plus one.  Cheaper items that keep arriving, caps that change
   and drains with a small budget cannot pass it over again. *)
WaitIsBounded ==
  \A i \in DOMAIN pending : wait[pending[i].id].turns <= wait[pending[i].id].bound

(* A turn cannot grow: over all of its batches it takes at most the cost cap
   it began with, the oldest item left over, and the cheapest other one, even
   when the caps change or items arrive during the turn; what is left of its
   budget, an unsigned number, does not pass zero. *)
TurnWithinBudget == turn.left >= 0 /\ spent.cost <= spent.limit

(* After any mix of appends and partial, reordering extractions the timers are
   those of the items that remain: first_request_time, which the scheduler
   compares across its queues, is the oldest arrival that is still pending,
   and last_submit_time the newest. *)
TimersAnchored == first = OldestOr0(pending) /\ last = NewestOr0(pending)

Queue == INSTANCE BatchQueue
           WITH queued <- ToSet(pending), served <- taken, head <- first, limits <- config

(* The former implements the queue its consumers rely on: every item leaves
   once, in a legal batch (caps, hard caps, items that run alone, requests
   kept whole), and the head it shows is the oldest item that waits. *)
IsAQueue == Queue!QueueSpec
=============================================================================
