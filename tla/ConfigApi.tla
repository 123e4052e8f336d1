----------------------------- MODULE ConfigApi -----------------------------
(***************************************************************************)
(* The requests that write to sie-config: POST, PUT and DELETE handlers on *)
(* one event loop, from the claim of their Idempotency-Key through the     *)
(* write lock and the steps of ConfigAuthority to the answer.  Requests    *)
(* with the same key wait for the one that owns it; its outcome is cached, *)
(* first in first out, or, if it failed, passed on to those who waited.    *)
(* A client may go away at any await, which cancels the handler's task     *)
(* there unless the await is shielded (_await_committed); the process may  *)
(* stop at any time, and clients retry as other requests of the instance.  *)
(***************************************************************************)
EXTENDS ConfigAuthority, FiniteSets

CONSTANTS Requests,
          Keys,
          Calls,      \* what requests ask: [op, model, body, key or None]
          Workloads,  \* the assignments of calls to requests
          CacheSize,  \* _MAX_IDEMPOTENCY_CACHE_SIZE
          CancelAt    \* the awaits at which a handler is cancelled

ASSUME CallsAssumption ==
  Calls \subseteq [op: {"add", "replace", "delete"}, model: Models,
                   body: Bodies \cup {NoConfig}, key: Keys \cup {None}]
ASSUME WrittenAssumption == \A c \in Calls : c.op # "delete" => c.body \in Bodies
ASSUME WorkloadsAssumption == Workloads \subseteq [Requests -> Calls]
ASSUME AbsenceAssumption == None \notin Keys /\ None \notin Requests
ASSUME CacheAssumption == CacheSize \in Nat \ {0}
ASSUME CancelAssumption == CancelAt \subseteq {"waiting", "locking", "deleting"}

VARIABLES call,      \* per request: what it asks
          req,       \* per request: where its handler is, and the outcome
          in_flight, \* per key: the request that owns it
          cache,     \* completed responses, oldest first
          applied    \* history, per key: the payloads committed under it

apiVars == <<call, req, in_flight, cache, applied>>
vars == <<authVars, apiVars>>

Key(r) == call[r].key

\* The payload hash: PUT and DELETE fold the method and the path into it,
\* the body of a POST names the model.
Payload(r) == <<call[r].op, call[r].model, call[r].body>>

Success == {"changed", "unchanged"}
Failure == {"conflict", "error", "cancelled"}

ApiTypeOK ==
  /\ AuthTypeOK
  /\ call \in [Requests -> Calls]
  /\ req \in [Requests ->
       [at: {"arriving", "waiting", "locking", "writing"}]
       \cup [at: {"woken"}, outcome: Success \cup Failure]
       \cup [at: {"closing"}, outcome: Success \cup Failure]
       \cup [at: {"done"}, outcome: Success \cup Failure
                                    \cup {"applied", "mismatch", "lost"}]]
  /\ in_flight \in [Keys -> Requests \cup {None}]
  /\ cache \in Seq([key: Keys, payload: {Payload(r) : r \in Requests},
                    answer: Success])
  /\ Len(cache) <= CacheSize
  /\ {r \in Requests : req[r].at = "writing"} = {} <=> LockFree

ApiInit ==
  /\ AuthInit
  /\ call \in Workloads
  /\ req = [r \in Requests |-> [at |-> "arriving"]]
  /\ in_flight = [k \in Keys |-> None]
  /\ cache = <<>>
  /\ applied = [k \in Keys |-> {}]

GoTo(r, at) == req' = [req EXCEPT ![r] = [at |-> at]]
Answer(r, a) == req' = [req EXCEPT ![r] = [at |-> "done", outcome |-> a]]
Close(r, a) == req' = [req EXCEPT ![r] = [at |-> "closing", outcome |-> a]]

-----------------------------------------------------------------------------
(* The claim of the key. *)

\* Refused before anything else: a POST or PUT while NATS is not connected,
\* a DELETE without a store (delete_model, config_api.py:1340).
Unavailable(r) ==
  /\ req[r].at = "arriving" /\ (call[r].op = "delete" => ~HasStore)
  /\ Answer(r, IF call[r].op = "delete" THEN "conflict" ELSE "error")
  /\ UNCHANGED <<authVars, call, in_flight, cache, applied>>

Entries(k) == {cache[i] : i \in {j \in 1..Len(cache) : cache[j].key = k}}

\* Under idem.lock: a cached response is replayed to the same payload only.
Replay(r, e) == Answer(r, IF e.payload = Payload(r) THEN e.answer
                          ELSE "mismatch")

\* Faulty variant: a key that is being written is claimed again.
ClaimTwice(r) ==
  /\ req[r].at = "arriving" /\ (call[r].op = "delete" => HasStore)
  /\ \/ /\ Key(r) = None
        /\ GoTo(r, "locking") /\ UNCHANGED in_flight
     \/ /\ Key(r) # None
        /\ \E e \in Entries(Key(r)) : Replay(r, e)
        /\ UNCHANGED in_flight
     \/ /\ Key(r) # None /\ Entries(Key(r)) = {}
        /\ GoTo(r, "locking")
        /\ in_flight' = [in_flight EXCEPT ![Key(r)] = r]
  /\ UNCHANGED <<authVars, call, cache, applied>>

\* _idempotency_claim, first pass: replay, own the key, refuse another
\* payload under it, or wait for its owner.
Claim(r) ==
  /\ req[r].at = "arriving" /\ (call[r].op = "delete" => HasStore)
  /\ \/ /\ Key(r) = None
        /\ GoTo(r, "locking") /\ UNCHANGED in_flight
     \/ /\ Key(r) # None
        /\ \E e \in Entries(Key(r)) : Replay(r, e)
        /\ UNCHANGED in_flight
     \/ /\ Key(r) # None /\ Entries(Key(r)) = {} /\ in_flight[Key(r)] = None
        /\ GoTo(r, "locking")
        /\ in_flight' = [in_flight EXCEPT ![Key(r)] = r]
     \/ /\ Key(r) # None /\ Entries(Key(r)) = {} /\ in_flight[Key(r)] # None
        /\ IF Payload(in_flight[Key(r)]) = Payload(r) THEN GoTo(r, "waiting")
                                                      ELSE Answer(r, "mismatch")
        /\ UNCHANGED in_flight
  /\ UNCHANGED <<authVars, call, cache, applied>>

\* Second pass, woken by the owner: its exception is raised here too (503 if
\* it was cancelled); else the cache is looked up again, and if the response
\* has been evicted by then the bare fact is answered.
Reclaim(r) ==
  /\ req[r].at = "woken"
  /\ \/ req[r].outcome \in Failure /\ Answer(r, req[r].outcome)
     \/ /\ req[r].outcome \in Success
        /\ \E e \in Entries(Key(r)) : Replay(r, e)
     \/ /\ req[r].outcome \in Success /\ Entries(Key(r)) = {}
        /\ Answer(r, "applied")
  /\ UNCHANGED <<authVars, call, in_flight, cache, applied>>

-----------------------------------------------------------------------------
(* The write, under the write lock. *)

\* validate_model_config's conflict, or, for a POST that creates nothing,
\* the comparison with the stored document.
Refused(c) ==
  /\ c.op = "add"
  /\ \/ Conflicts(registry[c.model], c.body) # {}
     \/ /\ Created(registry[c.model], c.body) = {}
        /\ HasStore /\ store[c.model] # NoConfig
        /\ \E p \in Profiles : /\ c.body[p] # None
                               /\ store[c.model][p] # c.body[p]

\* A write that would change nothing: no persist, no epoch, no delta.
NoOp(c) ==
  CASE c.op = "add"     -> Created(registry[c.model], c.body) = {}
    [] c.op = "replace" -> registry[c.model] = c.body
    [] c.op = "delete"  -> store[c.model] = NoConfig

\* The lock is taken and the request is refused, finds nothing to do, cannot
\* be written to disk (in all three the lock is released again), or is
\* persisted.
Lock(r) ==
  /\ req[r].at = "locking" /\ LockFree
  /\ LET c == call[r] IN
     \/ /\ Refused(c)
        /\ Close(r, "conflict") /\ UNCHANGED authVars
     \/ /\ ~Refused(c) /\ NoOp(c)
        /\ Close(r, "unchanged") /\ UNCHANGED authVars
     \/ /\ ~Refused(c) /\ ~NoOp(c) /\ HasStore
        /\ Close(r, "error") /\ UNCHANGED authVars
     \/ /\ ~Refused(c) /\ ~NoOp(c)
        /\ CASE c.op = "add"     -> AddModel(c.model, c.body)
             [] c.op = "replace" -> ReplaceModel(c.model, c.body)
             [] c.op = "delete"  -> DeleteModel(c.model)
        /\ GoTo(r, "writing")
  /\ UNCHANGED <<call, in_flight, cache, applied>>

\* The steps of the write in progress; the last one releases the lock.
Write(r) ==
  /\ req[r].at = "writing"
  /\ \/ (RegisterWrite \/ CountWrite) /\ UNCHANGED req
     \/ CountFails /\ Close(r, "error")
     \/ PublishWrite /\ Close(r, "changed")
  /\ UNCHANGED <<call, in_flight, cache, applied>>

-----------------------------------------------------------------------------
(* The end of the request. *)

Newest(s) == SubSeq(s, Len(s) - CacheSize + 1, Len(s))

\* The responses remembered under other keys.
Others(k) ==
  IF Entries(k) = {} THEN cache ELSE SelectSeq(cache, LAMBDA e : e.key # k)

\* Faulty variant: nothing is evicted.
RememberAll(k, p, a) ==
  Append(Others(k), [key |-> k, payload |-> p, answer |-> a])

\* The cache with one more response, the oldest evicted above the limit.
Remember(k, p, a) ==
  LET s == Append(Others(k), [key |-> k, payload |-> p, answer |-> a])
  IN  IF Len(s) > CacheSize THEN Newest(s) ELSE s

\* Setting the owner's event wakes everyone who waits for this owner.
Woken(r, q) == req[q].at = "waiting" /\ Key(q) = Key(r)

\* Faulty variants: a failure is cached like a response; waiters are only
\* woken by a success.
SettleCachesFailures(r) ==
  /\ req[r].at = "closing"
  /\ LET k == Key(r)  out == req[r].outcome IN
     /\ req' = [q \in Requests |->
          IF q = r THEN [at |-> "done", outcome |-> out]
          ELSE IF k # None /\ Woken(r, q)
               THEN [at |-> "woken", outcome |-> "unchanged"]
          ELSE req[q]]
     /\ in_flight' = [x \in Keys |-> IF x = k THEN None ELSE in_flight[x]]
     /\ cache' = IF k # None THEN Remember(k, Payload(r), "unchanged")
                 ELSE cache
     /\ applied' = [x \in Keys |-> IF x = k /\ out \in Success
                                   THEN applied[x] \cup {Payload(r)}
                                   ELSE applied[x]]
  /\ UNCHANGED <<authVars, call>>

SettleSilently(r) ==
  /\ req[r].at = "closing"
  /\ LET k == Key(r)  out == req[r].outcome IN
     /\ req' = [q \in Requests |->
          IF q = r THEN [at |-> "done", outcome |-> out]
          ELSE IF k # None /\ Woken(r, q) /\ out \in Success
               THEN [at |-> "woken", outcome |-> out]
          ELSE req[q]]
     /\ in_flight' = [x \in Keys |-> IF x = k THEN None ELSE in_flight[x]]
     /\ cache' = IF k # None /\ out \in Success
                 THEN Remember(k, Payload(r), out) ELSE cache
     /\ applied' = [x \in Keys |-> IF x = k /\ out \in Success
                                   THEN applied[x] \cup {Payload(r)}
                                   ELSE applied[x]]
  /\ UNCHANGED <<authVars, call>>

\* Under idem.lock, in one step: a success is cached, the key is given up and
\* the waiters are woken; a failure is not cached.
Settle(r) ==
  /\ req[r].at = "closing"
  /\ LET k == Key(r)  out == req[r].outcome IN
     /\ req' = [q \in Requests |->
          IF q = r THEN [at |-> "done", outcome |-> out]
          ELSE IF k # None /\ Woken(r, q)
               THEN [at |-> "woken", outcome |-> out]
          ELSE req[q]]
     /\ in_flight' = [x \in Keys |-> IF x = k THEN None ELSE in_flight[x]]
     /\ cache' = IF k # None /\ out \in Success
                 THEN Remember(k, Payload(r), out) ELSE cache
     /\ applied' = [x \in Keys |-> IF x = k /\ out \in Success
                                   THEN applied[x] \cup {Payload(r)}
                                   ELSE applied[x]]
  /\ UNCHANGED <<authVars, call>>

\* The await at which the handler of r can be cancelled.  Past the first
\* persist every await is shielded but one: delete_model reads the epoch
\* between the deletion of the file and that of the registry's entry.
Unshielded(r) ==
  CASE req[r].at \in {"waiting", "locking"} -> req[r].at
    [] req[r].at = "writing" /\ write.op = "delete"
         /\ write.phase = "persisted" -> "deleting"
    [] OTHER -> "shielded"

\* The handler's task is cancelled: an owner records that and will wake the
\* others; the write lock is released if it was held.
Cancel(r) ==
  /\ Unshielded(r) \in CancelAt
  /\ IF req[r].at = "waiting" THEN Answer(r, "cancelled")
                              ELSE Close(r, "cancelled")
  /\ write' = IF req[r].at = "writing" THEN NoWrite ELSE write
  /\ UNCHANGED <<store, epoch, registry, wire, reply, call, in_flight, cache,
                 applied>>

\* The process stops: the handlers, the markers and the cache are gone.
ApiRestart ==
  /\ Restart
  /\ req' = [r \in Requests |->
       IF req[r].at \in {"arriving", "done"} THEN req[r]
       ELSE [at |-> "done", outcome |-> "lost"]]
  /\ in_flight' = [k \in Keys |-> None]
  /\ cache' = <<>>
  /\ UNCHANGED <<call, applied>>

Handle(r) == Claim(r) \/ Reclaim(r) \/ Lock(r) \/ Write(r) \/ Settle(r)

ApiNext ==
  \/ \E r \in Requests : Handle(r) \/ Unavailable(r) \/ Cancel(r)
  \/ ApiRestart
  \/ \E c \in Clients : TakeDelta(c) /\ UNCHANGED apiVars

ApiSpec == ApiInit /\ [][ApiNext]_vars

\* The event loop runs every handler that can go on, and the threads and the
\* sockets it awaits answer; the lock and the events wake who waits on them.
FairApiSpec == ApiSpec /\ \A r \in Requests : WF_vars(Handle(r))

-----------------------------------------------------------------------------
(* Properties. *)

\* What a lookup of a key in the cache finds, and what a client was told under
\* its key.
Recalled(es) ==
  IF es = {} THEN None
  ELSE LET e == CHOOSE e \in es : TRUE
       IN  [payload |-> e.payload, answer |-> e.answer]

Remembered == [k \in Keys |-> Recalled(Entries(k))]

Told ==
  [r \in Requests |-> IF Key(r) # None /\ req[r].at = "done"
                      THEN req[r].outcome ELSE None]

Promise == INSTANCE IdempotentWrites WITH
  key     <- [r \in Requests |-> Key(r)],
  payload <- [r \in Requests |-> Payload(r)],
  owner   <- in_flight,
  memory  <- Remembered,
  commits <- applied,
  told    <- Told

\* _idempotency_claim and the handlers' success and error ends implement the
\* promise of an Idempotency-Key: one write per key at a time, a committed
\* write is replayed and not redone while it is remembered, and nobody is told
\* of a write of its payload that was not committed ("The write was applied
\* exactly once").
KeepsPromise == Promise!Spec

\* Every request is answered: no waiter is left behind by an owner that
\* failed, was cancelled or was evicted ("so waiters aren't stuck forever").
EveryRequestEnds == <>[](\A r \in Requests : req[r].at = "done")

\* A write reaches the store or the registry only through the owner of its
\* key, whose outcome is not known yet: a retry never writes a second time
\* behind a response that is still cached.
WritesOwnTheirKey ==
  \A r \in Requests :
    req[r].at \in {"locking", "writing", "closing"} /\ Key(r) # None =>
      in_flight[Key(r)] = r /\ Entries(Key(r)) = {}

\* "Deletion is [...] idempotent", and "removing an API override reveals that
\* baseline immediately": when a DELETE reports success, done or nothing to
\* do, the live registry shows of the model what the image has.
DeletedIsGone ==
  [][\A r \in Requests :
       /\ call[r].op = "delete" /\ req[r].at # "closing"
       /\ req'[r].at = "closing" /\ req'[r].outcome \in Success
       => registry'[call[r].model] = Baked[call[r].model]]_vars

=============================================================================
