--------------------------- MODULE GatewayConfig ---------------------------
(***************************************************************************)
(* A gateway's replica of what sie-config has: the models it routes, the   *)
(* hash it expects workers to advertise, the bundles, and the epoch.       *)
(*                                                                         *)
(* Three tasks write to it.  The bootstrap loop and the epoch poller fetch *)
(* the bundles and the export and install them as one snapshot, if nobody  *)
(* has changed the registry since they began.  The NATS subscription       *)
(* applies deltas one by one.  Each HTTP request is a step of its own, and *)
(* sie-config moves between them; it may be redeployed with another set of *)
(* bundles.  Every store of a snapshot makes the generations captured      *)
(* before it stale.                                                        *)
(*                                                                         *)
(* Models have one profile, "default", so that an identity the gateway     *)
(* serves is a model.  Every adapter is in every set of bundles.           *)
(***************************************************************************)
EXTENDS ConfigAuthority, FaultBudget

CONSTANTS Gateway,      \* the client of sie-config that is the gateway
          Written,      \* the models the instance's requests write
          Replacements, \* the bodies of PUT requests; POST has the others
          MinRetained,  \* SIE_GATEWAY_CONFIG_MIN_RETAINED_RATIO, in percent
          Hazards       \* what may happen though the gateway misses it

ASSUME GatewayAssumption == Gateway \in Clients
ASSUME RequestsAssumption == Written \subseteq Models /\ Replacements \subseteq Bodies
ASSUME RatioAssumption == MinRetained \in 0..100
ASSUME HazardsAssumption == Hazards \subseteq {"late delta", "uncounted delete"}
ASSUME AbsentAssumption == None \notin Nat

VARIABLES bundles,   \* sie-config's set of bundles, by deployment
          snap,      \* the ArcSwap snapshot: models, expected hash, bundles
          surface,   \* authoritative_surface: an export has been installed
          mark,      \* ConfigEpoch, BundlesHash and BundleConfigHashesHash
          task,      \* the bootstrap loop and the poller
          retry,     \* the poller's retry_bootstrap
          installed  \* history: the epoch of the newest delta applied

gwVars == <<bundles, snap, surface, mark, task, retry, faults, installed>>
vars == <<authVars, gwVars>>

Tasks == {"boot", "poll"}

\* A task: the step it is at; the poller's view of its own marks and of the
\* remote epoch; the epoch to force; whether the registry is still the one it
\* captured; the fingerprints (and bundles) and the export it fetched, and (for
\* MatchedSnapshot) the deployment that answered with the export.
At(step) == [at |-> step, local |-> None, remote |-> None, force |-> None,
             fresh |-> FALSE, pre |-> None, export |-> None,
             deployed |-> None]

Absent == [m \in Models |-> NoConfig]
Unmarked == [epoch |-> 0, models |-> None, bundles |-> None]
Nothing == [models |-> Absent, hash |-> Absent, bundles |-> None]
Deployments == 0..1

GwTypeOK ==
  /\ bundles \in Deployments
  /\ snap \in [models: Catalog, hash: Catalog, bundles: Deployments \cup {None}]
  /\ surface \in BOOLEAN /\ retry \in BOOLEAN
  /\ mark \in [epoch: Nat, models: Catalog \cup {None},
               bundles: Deployments \cup {None}]
  /\ DOMAIN task = Tasks
  /\ \A t \in Tasks :
       task[t].at \in {"idle", "off", "epoch", "fingerprint", "begin",
                       "export", "install", "finish"}
  /\ faults \subseteq Faults
  /\ (surface => snap.bundles # None) /\ (mark.models # None => surface)

GwInit ==
  /\ AuthInit
  /\ bundles = 0
  /\ snap = Nothing /\ surface = FALSE /\ mark = Unmarked
  /\ task = [t \in Tasks |-> IF t = "boot" THEN At("begin") ELSE At("idle")]
  /\ retry = FALSE
  /\ faults = {} /\ installed = 0

\* What a read of the persisted epoch returns: 0 if it fails, which is a fault.
EpochSeen(e) == IF e = epoch THEN NoFault ELSE Fault("read")

Max2(a, b) == IF a > b THEN a ELSE b

-----------------------------------------------------------------------------
(* bootstrap_once, run by the bootstrap loop and by the poller.             *)

Enter(t, r) == task' = [task EXCEPT ![t] = r]

\* What a request to sie-config leaves alone.
Reading == UNCHANGED <<authVars, bundles, snap, surface, mark, installed>>

\* A failed attempt: the bootstrap loop starts over after its backoff, the
\* poller remembers to bootstrap at the next tick.
GiveUp(t) ==
  /\ Enter(t, IF t = "boot" THEN At("begin") ELSE At("idle"))
  /\ retry' = (retry \/ t = "poll")

\* capture_generation; the fingerprints (the epoch in that answer is not
\* used); then the bundles.  If they change between the two answers the
\* attempt is given up as torn, one more way to fail that is left out.
Begin(t) ==
  /\ task[t].at = "begin"
  /\ Enter(t, [task[t] EXCEPT !.at = "export", !.fresh = TRUE,
                 !.pre = [models |-> registry, bundles |-> bundles]])
  /\ Reading /\ NoFault /\ UNCHANGED retry

\* GET /v1/configs/export waits for sie-config's write lock.
FetchExport(t) ==
  /\ task[t].at = "export" /\ LockFree
  /\ \E e \in EpochRead :
       /\ EpochSeen(e)
       /\ Enter(t, [task[t] EXCEPT !.at = "install", !.export = Snapshot(e),
                                !.deployed = bundles])
  /\ Reading /\ UNCHANGED retry

\* Any of the requests fails.
RequestFails(t) ==
  /\ task[t].at \in {"begin", "export", "install"}
  /\ Fault("http") /\ GiveUp(t) /\ Reading

Routed(models) == {m \in Models : models[m] # NoConfig}

\* shrink_refusal: too few of the models served now would remain.
Shrinks(models) ==
  LET served == Cardinality(Routed(snap.models))
      retained == Cardinality(Routed(snap.models) \cap Routed(models))
  IN  surface /\ retained < (served * MinRetained + 99) \div 100

\* The timing assumption of instances without late deltas: the messages
\* published before the export was taken have been handled.
InTime(t) ==
  \/ "late delta" \in Hazards
  \/ \A i \in 1..Len(wire[Gateway]) :
       wire[Gateway][i].epoch > task[t].export.epoch

\* The export becomes the snapshot, with the bundles fetched before it.
Replace(t) ==
  /\ snap' = [models |-> task[t].export.models, hash |-> task[t].export.hash,
              bundles |-> task[t].pre.bundles]
  /\ task' = [u \in Tasks |->
       [task[u] EXCEPT !.at = IF u = t THEN "finish" ELSE @, !.fresh = FALSE]]
  /\ surface' = TRUE /\ UNCHANGED retry

\* Faulty variant: the result of the replace is not looked at.
RefuseIgnored(t) ==
  /\ Enter(t, [task[t] EXCEPT !.at = "finish"])
  /\ UNCHANGED <<retry, snap, surface>>

Refuse(t) == GiveUp(t) /\ UNCHANGED <<snap, surface>>

\* Faulty variants: the export is installed over whatever is there by now;
\* the bundle surface is not read again.
InstallAnyway(t) ==
  /\ task[t].at = "install" /\ InTime(t)
  /\ IF bundles # task[t].pre.bundles \/ Shrinks(task[t].export.models)
       THEN Refuse(t) ELSE Replace(t)
  /\ UNCHANGED <<authVars, bundles, mark, faults, installed>>

InstallTorn(t) ==
  /\ task[t].at = "install" /\ InTime(t)
  /\ IF ~task[t].fresh \/ Shrinks(task[t].export.models)
       THEN Refuse(t) ELSE Replace(t)
  /\ UNCHANGED <<authVars, bundles, mark, faults, installed>>

\* The fingerprints once more: TornRead if the bundles have moved.  Then
\* replace_authoritative_surface_if_current, under the registry's write lock.
Install(t) ==
  /\ task[t].at = "install" /\ InTime(t)
  /\ IF \/ bundles # task[t].pre.bundles
        \/ ~task[t].fresh
        \/ Shrinks(task[t].export.models)
       THEN Refuse(t) ELSE Replace(t)
  /\ UNCHANGED <<authVars, bundles, mark, faults, installed>>

\* set_max, the fingerprints read before the fetch, and on the poller's
\* recovery path force_set; the bootstrap loop is done with its first success.
Finish(t) ==
  /\ task[t].at = "finish"
  /\ mark' = [epoch |-> IF task[t].force # None THEN task[t].force
                        ELSE Max2(mark.epoch, task[t].export.epoch),
              models |-> task[t].pre.models, bundles |-> task[t].pre.bundles]
  /\ Enter(t, IF t = "boot" THEN At("off") ELSE At("idle"))
  /\ retry' = (retry /\ t = "boot")
  /\ UNCHANGED <<authVars, bundles, snap, surface, faults, installed>>

-----------------------------------------------------------------------------
(* The poller.                                                              *)

\* A tick: the marks are read before the request is sent.
PollTick ==
  /\ task["poll"].at = "idle"
  /\ Enter("poll", [At("epoch") EXCEPT !.local = mark])
  /\ Reading /\ NoFault /\ UNCHANGED retry

\* GET /v1/configs/epoch: the epoch first ...
PollEpoch ==
  /\ task["poll"].at = "epoch"
  /\ \E e \in EpochRead :
       /\ EpochSeen(e)
       /\ Enter("poll", [task["poll"] EXCEPT !.at = "fingerprint", !.remote = e])
  /\ Reading /\ UNCHANGED retry

\* Faulty variant: the fingerprint of the configurations is not compared.
OutOfSyncByEpoch(local, remote) ==
  retry \/ remote > local.epoch \/ local.bundles # bundles

\* The poller's second branch: a bootstrap is due.
OutOfSync(local, remote) ==
  \/ retry
  \/ remote > local.epoch
  \/ local.bundles # bundles
  \/ local.models # registry

\* ... then the fingerprints; a rewound epoch is forced after the bootstrap.
PollFingerprint ==
  /\ task["poll"].at = "fingerprint"
  /\ LET local == task["poll"].local  remote == task["poll"].remote IN
     Enter("poll", IF remote < local.epoch
                     THEN [At("begin") EXCEPT !.force = remote]
                   ELSE IF OutOfSync(local, remote) THEN At("begin")
                   ELSE At("idle"))
  /\ Reading /\ NoFault /\ UNCHANGED retry

PollFails ==
  /\ task["poll"].at \in {"epoch", "fingerprint"}
  /\ Fault("http") /\ Enter("poll", At("idle"))
  /\ Reading /\ UNCHANGED retry

-----------------------------------------------------------------------------
(* The subscription.                                                        *)

\* add_model_config: append-only, and needs a bundle that has the adapter.
Rejects(n) ==
  snap.bundles = None \/ Conflicts(snap.models[n.model], n.config) # {}

\* The snapshot with the profiles of the delta added; its hash is recomputed.
Added(n) ==
  LET models == [snap.models EXCEPT ![n.model] = Merge(@, n.config)]
  IN  [snap EXCEPT !.models = models, !.hash = models]

\* A delta is taken: rejected without advancing the epoch; or its model is
\* added, the delta's hash installed over the one computed from that, and the
\* epoch raised to the delta's, whether or not the delta is news.  (The calls
\* take the write lock one by one with no await between them; a bootstrap
\* would have to begin and end in between to make a difference.)
HandleDelta ==
  /\ wire[Gateway] # <<>>
  /\ LET n == Head(wire[Gateway]) IN
     IF Rejects(n)
       THEN UNCHANGED <<snap, task, mark, installed>>
       ELSE /\ snap' = [Added(n) EXCEPT !.hash = n.hash]
            /\ task' = [t \in Tasks |-> [task[t] EXCEPT !.fresh = FALSE]]
            /\ mark' = [mark EXCEPT !.epoch = Max2(@, n.epoch)]
            /\ installed' = Max2(installed, n.epoch)
  /\ wire' = [wire EXCEPT ![Gateway] = Tail(@)]
  /\ UNCHANGED <<store, epoch, registry, write, reply, bundles, surface, retry,
                 faults>>

-----------------------------------------------------------------------------
(* sie-config's side, and the gateway's own restart.                        *)

AuthorityWrites ==
  /\ \/ \E m \in Written, c \in Bodies \ Replacements : AddModel(m, c)
     \/ \E m \in Written, c \in Replacements : ReplaceModel(m, c)
     \/ \E m \in Written : DeleteModel(m)
     \/ RegisterWrite \/ PublishWrite
  /\ NoFault /\ UNCHANGED <<bundles, snap, surface, mark, task, retry,
                            installed>>

\* The assumption of instances without uncounted deletes: after a DELETE the
\* epoch file can be read and written, and the process does not stop before.
Counted == "uncounted delete" \notin Hazards /\ ~LockFree =>
             (write.op = "delete" => write.phase = "counted")

AuthorityCounts ==
  /\ \/ CountWrite /\ IF epoch' = epoch + 1 \/ ~HasStore THEN NoFault
                      ELSE Fault("read") /\ Counted
     \/ CountFails /\ Fault("count") /\ Counted
  /\ UNCHANGED <<bundles, snap, surface, mark, task, retry, installed>>

\* sie-config restarts, possibly from an image with other bundles.
Redeploy ==
  /\ Fault("redeploy") /\ Counted /\ Restart
  /\ bundles' \in {bundles, bundles + 1}
  /\ UNCHANGED <<snap, surface, mark, task, retry, installed>>

\* The gateway restarts with nothing; what NATS had for it is gone.
GatewayRestart ==
  /\ Fault("gateway")
  /\ snap' = Nothing /\ surface' = FALSE /\ mark' = Unmarked
  /\ task' = [t \in Tasks |-> IF t = "boot" THEN At("begin") ELSE At("idle")]
  /\ retry' = FALSE /\ installed' = 0
  /\ wire' = [wire EXCEPT ![Gateway] = <<>>]
  /\ UNCHANGED <<store, epoch, registry, write, reply, bundles>>

Bootstrap(t) == Begin(t) \/ FetchExport(t) \/ Install(t) \/ Finish(t)
Poll == PollTick \/ PollEpoch \/ PollFingerprint

GwNext ==
  \/ \E t \in Tasks : Bootstrap(t) \/ RequestFails(t)
  \/ Poll \/ PollFails \/ HandleDelta
  \/ AuthorityWrites \/ AuthorityCounts \/ Redeploy \/ GatewayRestart

GwSpec == GwInit /\ [][GwNext]_vars

\* The gateway's tasks run, its requests are answered, and sie-config ends the
\* writes it has begun.  Faults, writes and deltas owe nothing.
GwFinishWrite == \/ AuthorityCounts
                 \/ AuthorityWrites /\ write.phase \in {"persisted", "counted"}
FairGwSpec ==
  /\ GwSpec
  /\ \A t \in Tasks : WF_vars(Bootstrap(t)) /\ SF_vars(FetchExport(t))
  /\ WF_vars(Poll) /\ WF_vars(HandleDelta) /\ WF_vars(GwFinishWrite)

-----------------------------------------------------------------------------
(* Properties. *)

\* replace_authoritative_surface_if_current: an export fetched before a delta
\* was applied never takes the delta's change back, however the three tasks
\* interleave (sie-config counting its writes one by one).
NoLostDelta ==
  [][\A t \in Tasks :
       /\ task[t].at = "install" /\ task'[t].at = "finish"
       /\ faults \cap {"read", "count"} = {}
       => task[t].export.epoch >= installed]_vars

\* bootstrap installs bundles and models "as one matched snapshot": the
\* bundles are those of the deployment the models were exported by, whatever
\* is redeployed between the reads.
MatchedSnapshot ==
  [][\A t \in Tasks : task[t].at = "install" /\ task'[t].at = "finish" =>
       snap'.bundles = task[t].deployed]_vars

GwConverged ==
  /\ snap.models = registry /\ snap.hash = registry /\ snap.bundles = bundles
  /\ mark.epoch = epoch

\* "A gateway cannot stay wedged with stale expected hashes": once sie-config
\* is quiet the gateway has its models, hash, bundles and epoch, unless it
\* refuses a removal of more than it may lose at once.
GwConverges == <>[]LockFree => <>[](GwConverged \/ Shrinks(registry))

=============================================================================
