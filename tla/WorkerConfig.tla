---------------------------- MODULE WorkerConfig ----------------------------
(***************************************************************************)
(* One worker pod against sie-config: the sidecar's delta subscriber and   *)
(* export reconciler, and the backend processes (children) they configure. *)
(*                                                                         *)
(* Both tasks take the sidecar's apply barrier exclusively, fan a request  *)
(* out to every child, and commit an epoch and a hash only if the children *)
(* answered with the hash the control plane announced.  While a fan-out is *)
(* not known to have reached every child alike, the whole pool is          *)
(* quarantined.  A third task, the IPC heartbeat, adopts a child's own     *)
(* hash as long as nothing is committed.                                   *)
(*                                                                         *)
(* A child's registry holds what it runs; a configuration the child        *)
(* refuses is remembered beside it, hashed in its place, and the model is  *)
(* reported as unsupported.                                                *)
(***************************************************************************)
EXTENDS ConfigAuthority, FaultBudget

CONSTANTS Worker,       \* the client of sie-config that this module refines
          Scope,        \* the models of the worker's bundle and pool
          Children,     \* backend processes of the pod
          Unservable    \* configurations a child refuses

ASSUME WorkerAssumption == Worker \in Clients
ASSUME ScopeAssumption == Scope \subseteq Models
ASSUME ChildrenAssumption == Children # {}
ASSUME UnservableAssumption == Unservable \subseteq Config \ {NoConfig}

VARIABLES sEpoch,      \* ConfigApplyState.epoch
          view,        \* its bundle_config_hash and unsupported_models
          sub,         \* the subscriber task
          rec,         \* the reconciler task
          lastFp,      \* last_bundle_config_hashes_hash
          lastSig,     \* last_export_signature
          ping,        \* the heartbeat's answer being processed
          runs,        \* per child: its model registry
          refused,     \* per child: configurations it received and refused
          quarantined, \* AdapterWorkerPool.config_quarantined
          seen,        \* history: registries sie-config showed at each epoch
          origin       \* history: where view comes from

sidecarVars == <<sEpoch, view, sub, rec, lastFp, lastSig, ping, origin>>
childVars   == <<runs, refused, quarantined>>
workerVars  == <<sidecarVars, childVars, faults>>
allVars     == <<authVars, workerVars, seen>>

EmptyCatalog == [m \in Models |-> NoConfig]

\* What concerns this worker of a catalogue, and so what its hash covers.
Served(cat) == [m \in Models |-> IF m \in Scope THEN cat[m] ELSE NoConfig]

NoDelta == [at |-> "idle"]
Idle    == [at |-> "idle"]
Seeding == [at |-> "seeding"]
NoSig   == [none |-> TRUE]
NoFp    == None
NoPing  == [none |-> TRUE]
NoView  == [hash |-> EmptyCatalog, unsupported |-> {}]

BarrierFree == /\ sub.at \notin {"applying", "answered"}
               /\ rec.at \notin {"applying", "answered"}

WorkerInit ==
  /\ AuthInit
  /\ sEpoch = 0 /\ view = NoView /\ origin = "none"
  /\ sub = NoDelta /\ rec = Seeding
  /\ lastFp = NoFp /\ lastSig = NoSig /\ ping = NoPing
  /\ runs = [c \in Children |-> EmptyCatalog]
  /\ refused = [c \in Children |-> EmptyCatalog]
  /\ quarantined = FALSE
  /\ seen = [e \in 0..MaxEpoch |-> IF e = 0 THEN {Baked} ELSE {}]
  /\ faults = {}

-----------------------------------------------------------------------------
(* The children and the fan-out of the pool. *)

\* bundle_config_view of a child that runs r and refused f.
ViewHash(r, f) == [m \in Models |-> IF f[m] # NoConfig THEN f[m] ELSE r[m]]
ViewUnsupported(r, f) == {m \in Models : f[m] # NoConfig /\ f[m] # r[m]}

\* ApplyModelConfig(m, c) on a child that runs r and refused f.
AppliedRuns(r, m, c) == IF c \in Unservable THEN r ELSE [r EXCEPT ![m] = c]
AppliedRefused(f, m, c) ==
  [f EXCEPT ![m] = IF c \in Unservable THEN c ELSE NoConfig]

\* ReplaceModelConfigs(models): what is not in the snapshot is removed; a
\* model whose entry is refused keeps what it runs.
ReplacedRuns(r, models) ==
  [m \in Models |-> IF models[m] \in Unservable THEN r[m] ELSE models[m]]
ReplacedRefused(models) ==
  [m \in Models |-> IF models[m] \in Unservable THEN models[m] ELSE NoConfig]

Same(S) == \A x, y \in S : x = y

\* The pool's answer when every child answered: applied only if the children
\* report one hash (and, for a replace, one set of models).
Merged(r, f, replace) ==
  LET hashes == {ViewHash(r[c], f[c]) : c \in Children} \ {EmptyCatalog}
      served == {{m \in Models : r[c][m] # NoConfig} : c \in Children}
  IN [applied |-> Same(hashes) /\ (replace => Same(served)),
      hash |-> IF hashes = {} THEN EmptyCatalog ELSE CHOOSE h \in hashes : TRUE,
      unsupported |-> UNION {ViewUnsupported(r[c], f[c]) : c \in Children}]

\* A child the request takes effect on moves to r[c], f[c]; others stay.
Reach(hit, r, f) ==
  /\ runs' = [c \in Children |-> IF c \in hit THEN r[c] ELSE runs[c]]
  /\ refused' = [c \in Children |-> IF c \in hit THEN f[c] ELSE refused[c]]

\* Faulty variant: the quarantine ends whatever the children answered.
FanOutClears(r, f, replace) ==
  /\ Reach(Children, r, f)
  /\ quarantined' = FALSE

\* Every child took the request and answered: clear_config_quarantine_after_
\* success, if they answered alike.  Only the heartbeat looks at the children
\* while a fan-out goes from one to the next, so that it is one step.
FanOut(r, f, replace) ==
  /\ Reach(Children, r, f)
  /\ quarantined' = ~Merged(r, f, replace).applied

\* A child failed, perhaps after taking the request: all are quarantined.
FanOutFails(r, f) ==
  /\ \E hit \in SUBSET Children : Reach(hit, r, f)
  /\ quarantined' = TRUE

\* Faulty variant: the children's hash is not compared.
VerifiedAlways(control, resp) == TRUE

\* verified_applied_bundle_hash: an empty control-plane hash accepts any.
Verified(control, resp) == control = EmptyCatalog \/ control = resp.hash

-----------------------------------------------------------------------------
(* The subscriber (config_subscriber.rs). *)

Stale(e) == e < sEpoch \/ (e = sEpoch /\ e # 0)

\* The next message, up to the wait for the barrier.
SubTake ==
  /\ sub = NoDelta /\ wire[Worker] # <<>>
  /\ LET n == Head(wire[Worker]) IN
     sub' = IF Stale(n.epoch) \/ n.model \notin Scope THEN NoDelta
            ELSE [at |-> "waiting", delta |-> n]
  /\ wire' = [wire EXCEPT ![Worker] = Tail(@)]
  /\ UNCHANGED <<store, epoch, registry, write, reply, childVars, seen,
                 sEpoch, view, rec, lastFp, lastSig, ping, origin, faults>>

\* lock_apply, the second staleness check under it, and begin_config_fanout.
SubLock ==
  /\ sub.at = "waiting" /\ BarrierFree
  /\ IF Stale(sub.delta.epoch)
       THEN sub' = NoDelta /\ UNCHANGED quarantined
       ELSE sub' = [sub EXCEPT !.at = "applying"] /\ quarantined' = TRUE
  /\ UNCHANGED <<authVars, runs, refused, seen, sEpoch, view, rec, lastFp,
                 lastSig, ping, origin, faults>>

SubRuns == [c \in Children |->
              AppliedRuns(runs[c], sub.delta.model, sub.delta.config)]
SubRefused == [c \in Children |->
              AppliedRefused(refused[c], sub.delta.model, sub.delta.config)]

\* apply_model_config, answered by every child.
SubApply ==
  /\ sub.at = "applying"
  /\ FanOut(SubRuns, SubRefused, FALSE)
  /\ sub' = [at |-> "answered", delta |-> sub.delta,
             resp |-> Merged(SubRuns, SubRefused, FALSE)]
  /\ UNCHANGED <<authVars, seen, sEpoch, view, rec, lastFp, lastSig, ping,
                 origin, faults>>

\* A child's call fails: a transient error is retried with the barrier held,
\* any other (the child answers with an error) drops the delta.
SubApplyFails ==
  /\ sub.at = "applying"
  /\ FanOutFails(SubRuns, SubRefused)
  /\ \/ Fault("ipc") /\ sub' = sub
     \/ Fault("apply") /\ sub' = NoDelta
  /\ UNCHANGED <<authVars, seen, sEpoch, view, rec, lastFp, lastSig, ping,
                 origin>>

SetView(resp) ==
  /\ view' = [hash |-> resp.hash, unsupported |-> resp.unsupported]
  /\ origin' = "commit"

\* mark_applied, if the children proved the announced hash; then the barrier
\* is released.
SubCommit ==
  /\ sub.at = "answered"
  /\ LET e == sub.delta.epoch
         proved == sub.resp.applied /\ Verified(Served(sub.delta.hash), sub.resp)
     IN IF proved /\ (e = 0 \/ e > sEpoch)
        THEN SetView(sub.resp) /\ sEpoch' = e
        ELSE UNCHANGED <<view, origin, sEpoch>>
  /\ sub' = NoDelta
  /\ UNCHANGED <<authVars, childVars, seen, rec, lastFp, lastSig, ping, faults>>

-----------------------------------------------------------------------------
(* The reconciler (config_reconciler.rs). *)

\* GET /epoch is answered by sie-config while the reconciler waits for it.
Polled ==
  /\ rec.at \in {"seeding", "polling"}
  /\ ReadEpoch(Worker) \/ ReadFingerprint(Worker)
  /\ UNCHANGED <<workerVars, seen>>

TakeReply == reply' = [reply EXCEPT ![Worker] = NoReply]

StartupDrift == [reason |-> "startup", force |-> FALSE,
                 fingerprint |-> NoFp]

\* Start: the fingerprint is taken over from the first poll, or stays unset
\* if that fails; the startup export follows in both cases.
RecSeed ==
  /\ rec = Seeding
  /\ \/ /\ reply[Worker].got = "both" /\ NoFault
        /\ lastFp' = reply[Worker].fingerprint
     \/ Fault("http") /\ UNCHANGED lastFp
  /\ TakeReply
  /\ rec' = [at |-> "fetching", drift |-> StartupDrift]
  /\ UNCHANGED <<store, epoch, registry, write, wire, childVars, seen, sEpoch,
                 view, sub, lastSig, ping, origin>>

RecTick ==
  /\ rec = Idle
  /\ rec' = [at |-> "polling", local |-> sEpoch]
  /\ UNCHANGED <<authVars, childVars, seen, sEpoch, view, sub, lastFp, lastSig,
                 ping, origin, faults>>

\* Faulty variant: only a rewind of the epoch or the fingerprint is drift.
DriftedRewind(local, remote) ==
  remote.epoch < local \/ remote.fingerprint # lastFp

\* drift_reason: on the epochs, then on the fingerprint (which is not empty:
\* it digests the bundles of sie-config even when they have no model).
Drifted(local, remote) ==
  remote.epoch # local \/ remote.fingerprint # lastFp

\* The poll is answered: an export is due if there is drift, or, at epoch 0,
\* when the interval of the full export is over.
RecPolled(periodic) ==
  /\ rec.at = "polling" /\ reply[Worker].got = "both"
  /\ LET remote  == reply[Worker]
         drifted == Drifted(rec.local, remote)
     IN /\ periodic => ~drifted /\ remote.epoch = 0
        /\ rec' = IF drifted \/ periodic
                  THEN [at |-> "fetching",
                        drift |-> [reason |-> IF drifted THEN "drift"
                                              ELSE "periodic",
                                   force |-> remote.epoch < rec.local,
                                   fingerprint |-> remote.fingerprint]]
                  ELSE Idle
  /\ TakeReply
  /\ UNCHANGED <<store, epoch, registry, write, wire, childVars, seen, sEpoch,
                 view, sub, lastFp, lastSig, ping, origin, faults>>

\* GET /epoch or GET /export fails: the next tick starts over.
RecHttpFails ==
  /\ rec.at \in {"polling", "fetching"} /\ Fault("http")
  /\ TakeReply /\ rec' = Idle
  /\ UNCHANGED <<store, epoch, registry, write, wire, childVars, seen, sEpoch,
                 view, sub, lastFp, lastSig, ping, origin>>

\* GET /export, served under sie-config's write lock.
RecFetch ==
  /\ rec.at = "fetching" /\ LockFree
  /\ \E e \in EpochRead :
       rec' = [at |-> "waiting", drift |-> rec.drift, snap |-> Snapshot(e)]
  /\ UNCHANGED <<authVars, childVars, seen, sEpoch, view, sub, lastFp, lastSig,
                 ping, origin, faults>>

\* compute_export_signature of what the export says to this worker.
Signature(snap) == [models |-> Served(snap.models), hash |-> Served(snap.hash)]

\* What the loop remembers of a reconciliation without failures.
Remember(sig) ==
  /\ lastSig' = sig
  /\ lastFp' = IF rec.drift.fingerprint # NoFp
               THEN rec.drift.fingerprint ELSE lastFp

\* lock_apply, then the two ways of having nothing to do: the export is older
\* than what is applied, or it is a periodic one that did not change.  Else
\* begin_config_fanout.
RecLock ==
  /\ rec.at = "waiting" /\ BarrierFree
  /\ LET stale == ~rec.drift.force /\ rec.snap.epoch < sEpoch
         same  == rec.drift.reason = "periodic" /\ Signature(rec.snap) = lastSig
     IN IF stale \/ same
        THEN rec' = Idle /\ Remember(lastSig) /\ UNCHANGED quarantined
        ELSE /\ rec' = [rec EXCEPT !.at = "applying"]
             /\ quarantined' = TRUE /\ UNCHANGED <<lastFp, lastSig>>
  /\ UNCHANGED <<authVars, runs, refused, seen, sEpoch, view, sub, ping, origin,
                 faults>>

RecRuns == [c \in Children |-> ReplacedRuns(runs[c], Served(rec.snap.models))]
RecRefused == [c \in Children |-> ReplacedRefused(Served(rec.snap.models))]

RecApply ==
  /\ rec.at = "applying"
  /\ FanOut(RecRuns, RecRefused, TRUE)
  /\ rec' = [at |-> "answered", drift |-> rec.drift, snap |-> rec.snap,
             resp |-> Merged(RecRuns, RecRefused, TRUE)]
  /\ UNCHANGED <<authVars, seen, sEpoch, view, sub, lastFp, lastSig, ping,
                 origin, faults>>

RecApplyFails ==
  /\ rec.at = "applying"
  /\ FanOutFails(RecRuns, RecRefused)
  /\ \/ Fault("ipc") /\ rec' = rec
     \/ Fault("replace") /\ rec' = Idle
  /\ UNCHANGED <<authVars, seen, sEpoch, view, sub, lastFp, lastSig, ping,
                 origin>>

\* mark_export_reconciled: the epoch is forced after a rewind of sie-config,
\* else it only moves up.  A hash that was not proved is a failure.
RecCommit ==
  /\ rec.at = "answered"
  /\ LET proved == rec.resp.applied /\ Verified(Served(rec.snap.hash), rec.resp)
         moves  == rec.drift.force \/ rec.snap.epoch >= sEpoch
     IN /\ IF proved /\ moves THEN SetView(rec.resp) /\ sEpoch' = rec.snap.epoch
           ELSE UNCHANGED <<sEpoch, view, origin>>
        /\ IF proved THEN Remember(Signature(rec.snap))
           ELSE UNCHANGED <<lastFp, lastSig>>
  /\ rec' = Idle
  /\ UNCHANGED <<authVars, childVars, seen, sub, ping, faults>>

-----------------------------------------------------------------------------
(* The heartbeat and the restarts. *)

\* A child reports the hash of its own registry, without the refused ones.
PingAnswer ==
  /\ ping = NoPing
  /\ \E c \in Children : ping' = [hash |-> runs[c]]
  /\ UNCHANGED <<authVars, childVars, seen, sEpoch, view, sub, rec, lastFp,
                 lastSig, origin, faults>>

\* The round of pings is over: adopt_backend_hash_if_unset, if a child is
\* ready, which none is during a quarantine.
PingAdopt ==
  /\ ping # NoPing
  /\ IF ~quarantined /\ view.hash = EmptyCatalog /\ ping.hash # EmptyCatalog
       THEN view' = [view EXCEPT !.hash = ping.hash] /\ origin' = "ping"
       ELSE UNCHANGED <<view, origin>>
  /\ ping' = NoPing
  /\ UNCHANGED <<authVars, childVars, seen, sEpoch, sub, rec, lastFp, lastSig,
                 faults>>

\* The sidecar's process restarts; the children keep what they run, and the
\* subscription starts with the deltas published from now on.
SidecarRestart ==
  /\ Fault("sidecar")
  /\ sEpoch' = 0 /\ view' = NoView /\ origin' = "none"
  /\ sub' = NoDelta /\ rec' = Seeding
  /\ lastFp' = NoFp /\ lastSig' = NoSig /\ ping' = NoPing
  /\ quarantined' = FALSE
  /\ wire' = [wire EXCEPT ![Worker] = <<>>] /\ TakeReply
  /\ UNCHANGED <<store, epoch, registry, write, runs, refused, seen>>

\* A step of sie-config's writes; the history notes what its registry shows.
AuthorityStep ==
  /\ AuthWrite
  /\ seen' = [seen EXCEPT ![epoch'] = @ \cup {registry'}]
  /\ UNCHANGED workerVars

\* sie-config restarts, or cannot write its epoch.
AuthorityFault ==
  /\ Fault("authority") /\ (Restart \/ CountFails)
  /\ seen' = [seen EXCEPT ![epoch'] = @ \cup {registry'}]
  /\ UNCHANGED <<sidecarVars, childVars>>

SubStep == SubLock \/ SubApply \/ SubApplyFails \/ SubCommit
RecStep == \/ RecSeed \/ RecTick \/ \E periodic \in BOOLEAN : RecPolled(periodic)
           \/ RecHttpFails \/ RecFetch \/ RecLock \/ RecApply \/ RecApplyFails
           \/ RecCommit

WorkerNext ==
  \/ AuthorityStep \/ AuthorityFault
  \/ SubTake \/ SubStep \/ Polled \/ RecStep
  \/ PingAnswer \/ PingAdopt \/ SidecarRestart

WorkerSpec == WorkerInit /\ [][WorkerNext]_allVars

\* Fairness: the event loops of sie-config and of the sidecar run every step
\* that stays possible.  The barrier is a FIFO lock, so a task that keeps
\* finding it free gets it; the interval of the full export keeps elapsing.
\* Nothing is assumed of writes, faults, restarts and pings.
FinishWrite ==
  /\ RegisterWrite \/ CountWrite \/ PublishWrite
  /\ AuthorityStep

WorkerFairness ==
  /\ WF_allVars(FinishWrite) /\ WF_allVars(Polled)
  /\ WF_allVars(SubTake) /\ SF_allVars(SubLock)
  /\ WF_allVars(SubApply) /\ WF_allVars(SubCommit)
  /\ WF_allVars(RecSeed) /\ WF_allVars(RecTick)
  /\ WF_allVars(RecPolled(FALSE)) /\ SF_allVars(RecPolled(TRUE))
  /\ WF_allVars(RecFetch) /\ SF_allVars(RecLock)
  /\ WF_allVars(RecApply) /\ WF_allVars(RecCommit)

FairWorkerSpec == WorkerSpec /\ WorkerFairness

-----------------------------------------------------------------------------
(* What the worker promises. *)

\* ConfigApplyState pairs an epoch with a hash: what the worker advertises
\* from a commit is, for the worker's bundle and pool, a catalogue sie-config
\* really had at the epoch the worker claims; deltas and exports that race,
\* get lost or arrive late never pair an epoch with another one's content.
AdvertisedIsAuthoritative ==
  HasStore /\ ~FlakyReads /\ origin = "commit" =>
    \E r \in seen[sEpoch] : Served(r) = view.hash

\* The quarantine covers divergence: once the worker advertises a committed
\* configuration, its children agree on the hash of theirs whenever the pool
\* is open for work, however the fan-outs of the two tasks failed before and
\* though a restart of the sidecar forgets the quarantine.
OpenPoolAgrees ==
  origin = "commit" /\ ~quarantined => \A c, d \in Children :
    ViewHash(runs[c], refused[c]) = ViewHash(runs[d], refused[d])

\* The worker shows and runs what sie-config has now.  (With nothing to serve
\* there is no hash to show, and a ping may still fill the gap.)
Converged ==
  /\ LockFree /\ ~quarantined
  /\ sEpoch = epoch
  /\ Served(registry) # EmptyCatalog => view.hash = Served(registry)
  /\ \A c \in Children : ViewHash(runs[c], refused[c]) = Served(registry)

\* config_reconciler.rs "closes that gap": if writes come to an end (faults
\* do), the worker reaches what sie-config has and stays there, whatever
\* deltas were lost and whichever poll, export or fan-out failed.
WorkerConverges == <>[]LockFree => <>[]Converged

\* The same unless one of two failures occurs that no later poll sees: a
\* backend process answers a replace with an error (the startup export is not
\* tried again), or sie-config does not count a write (a DELETE that brings
\* back the fingerprint of the last poll is then taken for no change).  Polls
\* and exports that fail, deltas that are lost or refused, transient IPC
\* errors and a restart of the sidecar are all made good.
WorkerRecovers ==
  [](faults \cap {"replace", "authority"} = {}) => WorkerConverges
=============================================================================
