--------------------------- MODULE ModelRegistry ---------------------------
(***************************************************************************)
(* The model registry of one Python backend process                        *)
(* (sie_server/core/registry.py): which configurations are served, which   *)
(* models are resident, and the asyncio tasks that load, evict, replace    *)
(* and execute them.                                                       *)
(*                                                                         *)
(* A step is what one task does between two suspension points of the event *)
(* loop.  Tasks: a background load per model, the configuration mutations  *)
(* (delta, delete, export), IPC executions holding the execution lease,    *)
(* the memory monitor, the idle evictor, the OOM recovery of a model's     *)
(* worker, a manual unload, and the reaper of exited engines.              *)
(*                                                                         *)
(* _load_lock is held across a suspension only by an adapter teardown, and *)
(* _config_update_lock only by the mutation that owns the writer lease, so *)
(* both are derived from the phases of those tasks.                        *)
(***************************************************************************)
EXTENDS Naturals, FiniteSets, TLC

CONSTANTS Models,        \* sie_ids, profile variants included
          RemoteModels,  \* ids whose config serves_remotely: no device memory
          Versions,      \* semantically different contents of a model config
          None,
          Writers,       \* tasks that run config mutations
          Executions,    \* IPC executions that take the lease
          InitConfigs,   \* configs discovered in models_dir at startup
          PinSets,       \* pinned sets the gateway may send
          Evictors,      \* which background unloads are enabled
          Faults,        \* which operations may fail
          MaxMutations   \* bound: mutations requested in a behaviour

ASSUME ModelsAssumption == Models # {} /\ RemoteModels \subseteq Models
ASSUME NoneAssumption == None \notin Versions /\ None \notin Models /\ None \notin Writers
ASSUME ConfigsAssumption == InitConfigs \in [Models -> Versions \cup {None}]
ASSUME PinAssumption == PinSets \subseteq SUBSET Models
ASSUME BoundAssumption == MaxMutations \in Nat

VARIABLES configs,    \* _configs
          loaded,     \* _loaded: the config each resident adapter was built from
          loading,    \* _loading
          unload,     \* _unloading and _unload_done: phase and running task
          tracked,    \* models registered with a memory manager
          pinned,     \* _pinned_models
          stale,      \* models idle for longer than idle_evict_s
          failed,     \* _failed: the error class, and the config that failed
          load,       \* per model, the load_async in flight
          mut,        \* per writer, the mutation in flight
          admission,  \* holder of _load_admission_lock
          lease,      \* per execution: waiting, or the config it is pinned to
          idleSnap,   \* models the idle evictor saw stale before locking
          eager,      \* a scheduled _eager_load_pinned
          dead,       \* models whose worker's inference pool was shut down
          mutations

registryVars == <<configs, loaded, loading, unload, tracked, pinned, stale, failed>>
taskVars == <<load, mut, admission, lease, idleSnap, eager, dead, mutations>>
vars == <<registryVars, taskVars>>

Config == Versions \cup {None}

(* Who runs an unload: the exception of a failed teardown goes to that task. *)
By(task, id) == [task |-> task, id |-> id]
NotUnloading == [phase |-> "no", by |-> By("manual", None)]

NoLoad == [pc |-> "idle", cfg |-> None, waits |-> {}]
NoMutation == [pc |-> "idle", kind |-> "apply", want |-> <<>>, todo |-> {}, waits |-> {}]
NoLease == [pc |-> "out", model |-> None, cfg |-> None]

(* Holders of the admission lock. *)
LoadTask(m) == By("load", m)
MutTask(w) == By("config", w)
Free == By("manual", None)

-----------------------------------------------------------------------------
(* Locks and events.                                                       *)

Unloading == {m \in Models : unload[m].phase # "no"}
Resident == {m \in Models : loaded[m] # None}
LoadLockFree == \A m \in Models : unload[m].phase # "tear"
WriterActive == \E w \in Writers : mut[w].pc \in {"plan", "queued", "unloading"}
WriterWaiting == \E w \in Writers : mut[w].pc = "lease"
ReaderActive == \E x \in Executions : lease[x].pc = "in"
UpdateLockFree == ~WriterActive
Running(task) == \E m \in Models : unload[m].phase # "no" /\ unload[m].by = task

(* _unload_done[m].set(): everyone awaiting the unload of m moves on.       *)
WakeLoads(m, l) == [n \in Models |-> [l[n] EXCEPT !.waits = @ \ {m}]]
WakeMuts(m, u) == [w \in Writers |-> [u[w] EXCEPT !.waits = @ \ {m}]]

(* _begin_unload by `task`; a model already unloading is only waited for.   *)
Claim(m, task) ==
  IF unload[m].phase = "no" THEN [unload EXCEPT ![m] = [phase |-> "drain", by |-> task]]
                            ELSE unload

-----------------------------------------------------------------------------
Init ==
  /\ configs = InitConfigs
  /\ loaded = [m \in Models |-> None]
  /\ loading = {}
  /\ unload = [m \in Models |-> NotUnloading]
  /\ tracked = {}
  /\ pinned = {}
  /\ stale = {}
  /\ failed = [m \in Models |-> None]
  /\ load = [m \in Models |-> NoLoad]
  /\ mut = [w \in Writers |-> NoMutation]
  /\ admission = Free
  /\ lease = [x \in Executions |-> NoLease]
  /\ idleSnap = {}
  /\ eager = FALSE
  /\ dead = {}
  /\ mutations = 0

-----------------------------------------------------------------------------
(* Loading.                                                                *)

(* start_load_async / load_now: refuse a resident, loading or failed model. *)
Startable(m) ==
  /\ configs[m] # None
  /\ loaded[m] = None \/ m \in Unloading
  /\ m \notin loading
  /\ failed[m] = None

StartLoads(S) ==
  /\ loading' = loading \cup S
  /\ load' = [m \in Models |-> IF m \in S THEN [NoLoad EXCEPT !.pc = "start"] ELSE load[m]]

StartLoad(m) ==
  /\ Startable(m)
  /\ load[m].pc = "idle"
  /\ StartLoads({m})
  /\ UNCHANGED <<configs, loaded, unload, tracked, pinned, stale, failed,
                 mut, admission, lease, idleSnap, eager, dead, mutations>>

(* _eager_load_pinned skips resident models, draining ones included.        *)
EagerSet(p) == {m \in p : Startable(m) /\ loaded[m] = None}

EagerLoadPinned ==
  /\ eager
  /\ eager' = FALSE
  /\ StartLoads(EagerSet(pinned))
  /\ UNCHANGED <<configs, loaded, unload, tracked, pinned, stale, failed,
                 mut, admission, lease, idleSnap, dead, mutations>>

SetPinnedModels(p) ==
  /\ p # pinned
  /\ pinned' = p
  /\ StartLoads(EagerSet(p))
  /\ UNCHANGED <<configs, loaded, unload, tracked, stale, failed,
                 mut, admission, lease, idleSnap, eager, dead, mutations>>

(* Faulty variant: the admission lock is not released with the load.         *)
EndLoadKeepsAdmission(m) ==
  /\ load' = [load EXCEPT ![m] = NoLoad]
  /\ loading' = loading \ {m}
  /\ UNCHANGED admission

(* The end of a load: release what it holds, forget it, record its outcome. *)
EndLoad(m) ==
  /\ load' = [load EXCEPT ![m] = NoLoad]
  /\ loading' = loading \ {m}
  /\ admission' = IF admission = LoadTask(m) THEN Free ELSE admission

(* _record_load_failure: whatever config the registry serves by now.        *)
FailLoad(m, class, cfg) ==
  /\ EndLoad(m)
  /\ failed' = [failed EXCEPT ![m] = [class |-> class, of |-> cfg]]

(* load_async up to the download: wait for an unload of the same model,     *)
(* then pick the config, between mutations.                                 *)
LoadBegin(m) ==
  /\ load[m].pc = "start" /\ load[m].waits = {}
  /\ UpdateLockFree /\ LoadLockFree
  /\ \/ /\ m \in Unloading
        /\ load' = [load EXCEPT ![m].waits = {m}]
        /\ UNCHANGED <<loading, failed, admission>>
     \/ /\ m \notin Unloading /\ loaded[m] # None
        /\ EndLoad(m)
        /\ failed' = [failed EXCEPT ![m] = None]
     \/ /\ m \notin Unloading /\ loaded[m] = None /\ configs[m] = None
        /\ FailLoad(m, "other", None)
     \/ /\ m \notin Unloading /\ loaded[m] = None /\ configs[m] # None
        /\ load' = [load EXCEPT ![m] = [NoLoad EXCEPT
                      !.pc = IF m \in RemoteModels THEN "remote" ELSE "download",
                      !.cfg = configs[m]]]
        /\ UNCHANGED <<loading, failed, admission>>
  /\ UNCHANGED <<configs, loaded, unload, tracked, pinned, stale,
                 mut, lease, idleSnap, eager, dead, mutations>>

LoadRemote(m) ==
  /\ load[m].pc = "remote"
  /\ UpdateLockFree /\ LoadLockFree
  /\ EndLoad(m)
  /\ IF configs[m] = load[m].cfg
     THEN /\ loaded' = [loaded EXCEPT ![m] = load[m].cfg]
          /\ failed' = [failed EXCEPT ![m] = None]
          /\ dead' = dead \ {m}
     ELSE UNCHANGED <<loaded, failed, dead>>
  /\ UNCHANGED <<configs, unload, tracked, pinned, stale,
                 mut, lease, idleSnap, eager, mutations>>

(* ensure_weights_cached_async holds no lock but the model's own.           *)
Download(m) ==
  /\ load[m].pc = "download"
  /\ load' = [load EXCEPT ![m].pc = "queued"]
  /\ UNCHANGED <<registryVars, mut, admission, lease, idleSnap, eager, dead, mutations>>

DownloadFails(m) ==
  /\ "download" \in Faults
  /\ load[m].pc \in {"download", "remote"}
  /\ FailLoad(m, "other", load[m].cfg)
  /\ UNCHANGED <<configs, loaded, unload, tracked, pinned, stale,
                 mut, lease, idleSnap, eager, dead, mutations>>

(* Take _load_admission_lock, then wait for the unloads in flight now.      *)
AdmitLoad(m) ==
  /\ load[m].pc = "queued" /\ admission = Free
  /\ admission' = LoadTask(m)
  /\ load' = [load EXCEPT ![m].pc = "check", ![m].waits = Unloading]
  /\ UNCHANGED <<registryVars, mut, lease, idleSnap, eager, dead, mutations>>

(* Faulty variant: the config is not read again after the download.          *)
CheckConfigDropped(m) ==
  /\ load[m].pc = "check" /\ load[m].waits = {} /\ LoadLockFree
  /\ load' = [load EXCEPT ![m].pc = "room", ![m].waits = Unloading]
  /\ UNCHANGED <<registryVars, mut, admission, lease, idleSnap, eager, dead, mutations>>

(* Never load a config the registry no longer serves.                       *)
CheckConfig(m) ==
  /\ load[m].pc = "check" /\ load[m].waits = {} /\ LoadLockFree
  /\ IF configs[m] = load[m].cfg
     THEN /\ load' = [load EXCEPT ![m].pc = "room", ![m].waits = Unloading]
          /\ UNCHANGED <<loading, admission>>
     ELSE EndLoad(m)
  /\ UNCHANGED <<configs, loaded, unload, tracked, pinned, stale, failed,
                 mut, lease, idleSnap, eager, dead, mutations>>

(* Pre-load eviction.  Device pressure is the environment's choice, and so  *)
(* is the victim's place in the LRU order.                                  *)
MakeRoom(m) ==
  /\ load[m].pc = "room" /\ load[m].waits = {} /\ LoadLockFree
  /\ \/ /\ load' = [load EXCEPT ![m].pc = "device"]
        /\ UNCHANGED unload
     \/ \E v \in tracked \ pinned :
          /\ unload' = Claim(v, LoadTask(m))
          /\ load' = [load EXCEPT ![m].pc = "evicting", ![m].waits = {v}]
  /\ UNCHANGED <<configs, loaded, loading, tracked, pinned, stale, failed,
                 mut, admission, lease, idleSnap, eager, dead, mutations>>

LoopRoom(m) ==
  /\ load[m].pc = "evicting" /\ load[m].waits = {}
  /\ load' = [load EXCEPT ![m].pc = "room", ![m].waits = Unloading]
  /\ UNCHANGED <<registryVars, mut, admission, lease, idleSnap, eager, dead, mutations>>

(* load_and_register_async succeeded: register under the load lock.         *)
Register(m) ==
  /\ load[m].pc \in {"device", "retry"} /\ load[m].waits = {} /\ LoadLockFree
  /\ EndLoad(m)
  /\ loaded' = [loaded EXCEPT ![m] = load[m].cfg]
  /\ tracked' = tracked \cup {m}
  /\ stale' = stale \ {m}
  /\ dead' = dead \ {m}
  /\ failed' = [failed EXCEPT ![m] = None]
  /\ UNCHANGED <<configs, unload, pinned, mut, lease, idleSnap, eager, mutations>>

(* Instantiation or device load fails for good.                             *)
DeviceFails(m) ==
  /\ "load" \in Faults
  /\ load[m].pc \in {"device", "retry"} /\ load[m].waits = {}
  /\ \E class \in {"oom", "other"} :
       /\ class = "oom" => load[m].pc = "retry"
       /\ FailLoad(m, class, load[m].cfg)
  /\ UNCHANGED <<configs, loaded, unload, tracked, pinned, stale,
                 mut, lease, idleSnap, eager, dead, mutations>>

DeviceOom(m) ==
  /\ "oom" \in Faults
  /\ load[m].pc = "device"
  /\ load' = [load EXCEPT ![m].pc = "oom", ![m].waits = Unloading]
  /\ UNCHANGED <<registryVars, mut, admission, lease, idleSnap, eager, dead, mutations>>

(* OOM despite the pre-load eviction: evict one model and retry once.       *)
EvictForOom(m) ==
  /\ load[m].pc = "oom" /\ load[m].waits = {} /\ LoadLockFree
  /\ \/ /\ tracked \subseteq pinned
        /\ FailLoad(m, "oom", load[m].cfg)
        /\ UNCHANGED unload
     \/ \E v \in tracked \ pinned :
          /\ unload' = Claim(v, LoadTask(m))
          /\ load' = [load EXCEPT ![m].pc = "retry", ![m].waits = {v}]
          /\ UNCHANGED <<loading, failed, admission>>
  /\ UNCHANGED <<configs, loaded, tracked, pinned, stale,
                 mut, lease, idleSnap, eager, dead, mutations>>

-----------------------------------------------------------------------------
(* Unloading.                                                              *)

(* An evictor decides and claims its victim without a suspension point.     *)
EvictBy(m, task) ==
  /\ m \notin Unloading
  /\ unload' = Claim(m, task)

(* The monitor loop reaps and evicts one model after the other.             *)
MonitorWaits == ~Running(By("monitor", None)) /\ ~Running(By("reap", None))

(* _memory_monitor_loop under pressure.                                     *)
MonitorEvict(m) ==
  /\ "monitor" \in Evictors /\ LoadLockFree
  /\ MonitorWaits
  /\ m \in tracked \ pinned /\ Cardinality(tracked) > 1
  /\ EvictBy(m, By("monitor", None))
  /\ UNCHANGED <<configs, loaded, loading, tracked, pinned, stale, failed, taskVars>>

(* _idle_evict_loop: snapshot without the lock, re-check age under it.      *)
IdleSnapshot ==
  /\ "idle" \in Evictors
  /\ idleSnap = {} /\ ~Running(By("idle", None))
  /\ idleSnap' = (tracked \cap stale) \ pinned
  /\ idleSnap' # {}
  /\ UNCHANGED <<registryVars, load, mut, admission, lease, eager, dead, mutations>>

IdleVictims == {m \in idleSnap : loaded[m] # None /\ m \notin Unloading /\ m \in stale}

IdleEvict ==
  /\ idleSnap # {} /\ LoadLockFree
  /\ idleSnap' = {}
  /\ IF IdleVictims = {}
     THEN UNCHANGED unload
     ELSE \E m \in IdleVictims : EvictBy(m, By("idle", None))
  /\ UNCHANGED <<configs, loaded, loading, tracked, pinned, stale, failed,
                 load, mut, admission, lease, eager, dead, mutations>>

(* Faulty variant: an OOM recovery excludes its own model only.              *)
OomEvictsPinned(e, m) ==
  /\ "oom" \in Evictors /\ LoadLockFree
  /\ loaded[e] # None /\ e \notin dead /\ ~Running(By("oom", e))
  /\ m \in (tracked \cap Resident) \ {e}
  /\ EvictBy(m, By("oom", e))
  /\ UNCHANGED <<configs, loaded, loading, tracked, pinned, stale, failed, taskVars>>

(* evict_lru_excluding, awaited by the batch of worker e that hit an OOM.   *)
OomEvict(e, m) ==
  /\ "oom" \in Evictors /\ LoadLockFree
  /\ loaded[e] # None /\ e \notin dead /\ ~Running(By("oom", e))
  /\ m \in (tracked \cap Resident) \ (pinned \cup {e})
  /\ EvictBy(m, By("oom", e))
  /\ UNCHANGED <<configs, loaded, loading, tracked, pinned, stale, failed, taskVars>>

(* unload_async takes the model's load lock first.                          *)
ManualUnload(m) ==
  /\ "manual" \in Evictors
  /\ load[m].pc \in {"idle", "start"} /\ loaded[m] # None
  /\ EvictBy(m, By("manual", None))
  /\ UNCHANGED <<configs, loaded, loading, tracked, pinned, stale, failed, taskVars>>

(* _reap_exited_engines: record the exit, then the ordinary unload.         *)
ReapExited(m) ==
  /\ "reap" \in Evictors
  /\ loaded[m] # None /\ MonitorWaits
  /\ EvictBy(m, By("reap", None))
  /\ failed' = [failed EXCEPT ![m] = [class |-> "other", of |-> loaded[m]]]
  /\ UNCHANGED <<configs, loaded, loading, tracked, pinned, stale, taskVars>>

(* Faulty variant: the accounting is dropped before the adapter releases its memory. *)
TearDownUnregisters(m) ==
  /\ unload[m].phase = "drain" /\ LoadLockFree
  /\ unload' = [unload EXCEPT ![m].phase = "tear"]
  /\ loaded' = [loaded EXCEPT ![m] = None]
  /\ tracked' = tracked \ {m}
  /\ UNCHANGED <<configs, loading, pinned, stale, failed, taskVars>>

(* _finish_unload: the drain has ended or timed out; take the load lock.    *)
TearDown(m) ==
  /\ unload[m].phase = "drain" /\ LoadLockFree
  /\ unload' = [unload EXCEPT ![m].phase = "tear"]
  /\ loaded' = [loaded EXCEPT ![m] = None]
  /\ UNCHANGED <<configs, loading, tracked, pinned, stale, failed, taskVars>>

(* adapter.unload() returned: drop the accounting, forget the OOM failures  *)
(* of every model, and wake the waiters.                                    *)
UnloadDone(m) ==
  /\ unload[m].phase = "tear"
  /\ unload' = [unload EXCEPT ![m] = NotUnloading]
  /\ tracked' = tracked \ {m}
  /\ stale' = stale \ {m}
  /\ dead' = dead \ {m}
  /\ failed' = [n \in Models |-> IF failed[n] # None /\ failed[n].class = "oom"
                                 THEN None ELSE failed[n]]
  /\ load' = WakeLoads(m, load)
  /\ mut' = WakeMuts(m, mut)
  /\ UNCHANGED <<configs, loaded, loading, pinned, admission, lease, idleSnap,
                 eager, mutations>>

(* adapter.unload() raised: the accounting is dropped all the same, and the *)
(* task that ran the unload gets the exception.                             *)
UnloadRaises(m) ==
  /\ "teardown" \in Faults
  /\ unload[m].phase = "tear"
  /\ unload' = [unload EXCEPT ![m] = NotUnloading]
  /\ tracked' = tracked \ {m}
  /\ stale' = stale \ {m}
  /\ dead' = dead \ {m}
  /\ LET by == unload[m].by
         l  == WakeLoads(m, load)
         u  == WakeMuts(m, mut)
     IN \/ /\ by.task = "load"
           /\ load' = [l EXCEPT ![by.id] = NoLoad]
           /\ loading' = loading \ {by.id}
           /\ failed' = [failed EXCEPT ![by.id] = [class |-> "other", of |-> load[by.id].cfg]]
           /\ admission' = Free
           /\ mut' = u
        \/ /\ by.task = "config"
           /\ mut' = [u EXCEPT ![by.id] = NoMutation]
           /\ admission' = Free
           /\ load' = l
           /\ UNCHANGED <<loading, failed>>
        \/ /\ by.task \notin {"load", "config"}
           /\ load' = l
           /\ mut' = u
           /\ UNCHANGED <<loading, failed, admission>>
  /\ UNCHANGED <<configs, loaded, pinned, lease, idleSnap, eager, mutations>>

(* The batch awaiting an OOM eviction is cancelled because its own worker e *)
(* is being stopped: the victim's drain unwinds through the `finally` with  *)
(* the victim still in _loaded and, if its worker ran, its inference pool   *)
(* shut down.                                                               *)
UnloadCancelled(m) ==
  /\ unload[m].phase = "drain" /\ unload[m].by.task = "oom"
  /\ unload[unload[m].by.id].phase = "drain"
  /\ unload' = [unload EXCEPT ![m] = NotUnloading]
  /\ dead' \in {dead, dead \cup {m}}
  /\ load' = WakeLoads(m, load)
  /\ mut' = WakeMuts(m, mut)
  /\ UNCHANGED <<configs, loaded, loading, tracked, pinned, stale, failed,
                 admission, lease, idleSnap, eager, mutations>>

-----------------------------------------------------------------------------
(* Requests, clocks.                                                       *)

(* start_worker touches the model in the step that checks it may be used.   *)
Touch(m) ==
  /\ m \in stale /\ loaded[m] # None /\ m \notin Unloading
  /\ stale' = stale \ {m}
  /\ UNCHANGED <<configs, loaded, loading, unload, tracked, pinned, failed, taskVars>>

Age(m) ==
  /\ "idle" \in Evictors
  /\ m \in tracked \ stale
  /\ stale' = stale \cup {m}
  /\ UNCHANGED <<configs, loaded, loading, unload, tracked, pinned, failed, taskVars>>

(* The cooldown of a recorded failure elapses.                              *)
Cooldown(m) ==
  /\ failed[m] # None
  /\ failed' = [failed EXCEPT ![m] = None]
  /\ UNCHANGED <<configs, loaded, loading, unload, tracked, pinned, stale, taskVars>>

-----------------------------------------------------------------------------
(* The execution lease.                                                    *)

RequestExecution(x, m) ==
  /\ lease[x].pc = "out"
  /\ lease' = [lease EXCEPT ![x] = [pc |-> "wait", model |-> m, cfg |-> None]]
  /\ UNCHANGED <<registryVars, load, mut, admission, idleSnap, eager, dead, mutations>>

(* execution_lease: a queued writer has priority.                           *)
EnterExecution(x) ==
  /\ lease[x].pc = "wait"
  /\ ~WriterActive /\ ~WriterWaiting
  /\ lease' = [lease EXCEPT ![x].pc = "in", ![x].cfg = configs[lease[x].model]]
  /\ UNCHANGED <<registryVars, load, mut, admission, idleSnap, eager, dead, mutations>>

LeaveExecution(x) ==
  /\ lease[x].pc = "in"
  /\ lease' = [lease EXCEPT ![x] = NoLease]
  /\ UNCHANGED <<registryVars, load, mut, admission, idleSnap, eager, dead, mutations>>

-----------------------------------------------------------------------------
(* Configuration mutations.                                                *)

Named == SUBSET Models \ {{}}

(* add_config_async, remove_config_async and replace_configs_async queue    *)
(* for the lease; `want` is the part of the config map they set.            *)
(* A model's profile variants change together, so several ids may; what an  *)
(* export retains (retained_models) or a delta does not name keeps its config. *)
Wanted == [kind : {"apply", "replace"}, want : UNION {[S -> Config] : S \in Named}]
          \cup [kind : {"remove"}, want : UNION {[S -> {None}] : S \in Named}]

RequestMutation(w, r) ==
  /\ mut[w].pc = "idle" /\ mutations < MaxMutations
  /\ mut' = [mut EXCEPT ![w] = [NoMutation EXCEPT !.pc = "lease",
                                  !.kind = r.kind, !.want = r.want]]
  /\ mutations' = mutations + 1
  /\ UNCHANGED <<registryVars, load, admission, lease, idleSnap, eager, dead>>

(* Faulty variant: a writer does not wait for the executions in flight.      *)
TakeLeaseAtOnce(w) ==
  /\ mut[w].pc = "lease"
  /\ ~WriterActive
  /\ mut' = [mut EXCEPT ![w].pc = "plan"]
  /\ UNCHANGED <<registryVars, load, admission, lease, idleSnap, eager, dead, mutations>>

(* _config_mutation_lease: no reader, no other writer, or a timeout.        *)
TakeLease(w) ==
  /\ mut[w].pc = "lease"
  /\ ~ReaderActive /\ ~WriterActive
  /\ mut' = [mut EXCEPT ![w].pc = "plan"]
  /\ UNCHANGED <<registryVars, load, admission, lease, idleSnap, eager, dead, mutations>>

LeaseTimeout(w) ==
  /\ mut[w].pc = "lease"
  /\ ReaderActive \/ WriterActive
  /\ mut' = [mut EXCEPT ![w] = NoMutation]
  /\ UNCHANGED <<registryVars, load, admission, lease, idleSnap, eager, dead, mutations>>

Target(w) == [m \in Models |-> IF m \in DOMAIN mut[w].want THEN mut[w].want[m] ELSE configs[m]]

(* Configs the mutation changes; an added one was not there to invalidate.  *)
Invalidated(w) ==
  {m \in DOMAIN mut[w].want : /\ mut[w].want[m] # configs[m]
                              /\ mut[w].kind = "replace" \/ configs[m] # None}

(* Faulty variant: a mutation that ends keeps the admission lock.            *)
EndMutationKeepsAdmission(w) ==
  /\ mut' = [mut EXCEPT ![w] = NoMutation]
  /\ UNCHANGED admission

EndMutation(w) ==
  /\ mut' = [mut EXCEPT ![w] = NoMutation]
  /\ admission' = IF admission = MutTask(w) THEN Free ELSE admission

(* Faulty variant: the failures of the replaced configs are kept.            *)
InstallKeepsFailures(w) ==
  /\ configs' = Target(w)
  /\ UNCHANGED failed
  /\ eager' = (eager \/ mut[w].kind = "replace")
  /\ EndMutation(w)

(* Install the new map, forget the failures of the configs it replaced, and *)
(* schedule the load of pinned models.                                      *)
Install(w) ==
  /\ configs' = Target(w)
  /\ failed' = [m \in Models |->
                  IF \/ mut[w].kind # "replace" /\ m \in DOMAIN mut[w].want
                     \/ m \in Invalidated(w)
                  THEN None ELSE failed[m]]
  /\ eager' = \/ eager
              \/ mut[w].kind = "apply" /\ DOMAIN mut[w].want \cap pinned # {}
              \/ mut[w].kind = "replace" /\ Invalidated(w) # {}
  /\ EndMutation(w)

(* Validation in a thread refuses the update, or an update that invalidates *)
(* nothing is applied at once (a delete of nothing returns), or the         *)
(* mutation queues for admission.                                           *)
PlanMutation(w) ==
  /\ mut[w].pc = "plan"
  /\ \/ /\ "refuse" \in Faults /\ mut[w].kind # "remove"
        /\ EndMutation(w)
        /\ UNCHANGED <<configs, failed, eager>>
     \/ /\ mut[w].kind = "apply" /\ Invalidated(w) = {}
        /\ Install(w)
     \/ /\ mut[w].kind = "remove" /\ Invalidated(w) = {}
        /\ EndMutation(w)
        /\ UNCHANGED <<configs, failed, eager>>
     \/ /\ mut[w].kind = "replace" \/ Invalidated(w) # {}
        /\ mut' = [mut EXCEPT ![w].pc = "queued"]
        /\ UNCHANGED <<configs, failed, eager, admission>>
  /\ UNCHANGED <<loaded, loading, unload, tracked, pinned, stale,
                 load, lease, idleSnap, dead, mutations>>

AdmitMutation(w) ==
  /\ mut[w].pc = "queued" /\ admission = Free
  /\ admission' = MutTask(w)
  /\ mut' = [mut EXCEPT ![w].pc = "unloading", ![w].todo = Invalidated(w)]
  /\ UNCHANGED <<registryVars, load, lease, idleSnap, eager, dead, mutations>>

(* A delete drops each entry once that model is unloaded; a delta and an    *)
(* export change nothing before everything is.                              *)
Dropped(w) == IF mut[w].kind = "remove" THEN DOMAIN mut[w].want \ mut[w].todo ELSE {}

(* One iteration of the unload loop: `if name in _loaded: await _do_unload`. *)
UnloadInvalidated(w, m) ==
  /\ mut[w].pc = "unloading" /\ mut[w].waits = {} /\ m \in mut[w].todo
  /\ configs' = [n \in Models |-> IF n \in Dropped(w) THEN None ELSE configs[n]]
  /\ failed' = [n \in Models |-> IF n \in Dropped(w) THEN None ELSE failed[n]]
  /\ IF loaded[m] # None
     THEN /\ unload' = Claim(m, MutTask(w))
          /\ mut' = [mut EXCEPT ![w].todo = @ \ {m}, ![w].waits = {m}]
     ELSE /\ mut' = [mut EXCEPT ![w].todo = @ \ {m}]
          /\ UNCHANGED unload
  /\ UNCHANGED <<loaded, loading, tracked, pinned, stale,
                 load, admission, lease, idleSnap, eager, dead, mutations>>

CommitMutation(w) ==
  /\ mut[w].pc = "unloading" /\ mut[w].waits = {} /\ mut[w].todo = {}
  /\ Install(w)
  /\ UNCHANGED <<loaded, loading, unload, tracked, pinned, stale,
                 load, lease, idleSnap, dead, mutations>>

-----------------------------------------------------------------------------
LoadStep(m) ==
  \/ LoadBegin(m) \/ LoadRemote(m) \/ Download(m) \/ AdmitLoad(m) \/ CheckConfig(m)
  \/ MakeRoom(m) \/ LoopRoom(m) \/ Register(m) \/ EvictForOom(m)
LoadFault(m) == DownloadFails(m) \/ DeviceFails(m) \/ DeviceOom(m)
UnloadStep(m) == TearDown(m) \/ UnloadDone(m)
MutationStep(w) ==
  \/ TakeLease(w) \/ PlanMutation(w) \/ AdmitMutation(w) \/ CommitMutation(w)
  \/ \E m \in Models : UnloadInvalidated(w, m)

Next ==
  \/ \E m \in Models : \/ StartLoad(m) \/ LoadStep(m) \/ LoadFault(m)
                       \/ UnloadStep(m) \/ UnloadRaises(m) \/ UnloadCancelled(m)
                       \/ MonitorEvict(m) \/ ManualUnload(m) \/ ReapExited(m)
                       \/ Touch(m) \/ Age(m) \/ Cooldown(m)
                       \/ \E e \in Models : OomEvict(e, m)
  \/ EagerLoadPinned \/ IdleSnapshot \/ IdleEvict
  \/ \E p \in PinSets : SetPinnedModels(p)
  \/ \E x \in Executions : \/ EnterExecution(x) \/ LeaveExecution(x)
                           \/ \E m \in Models : RequestExecution(x, m)
  \/ \E w \in Writers : \/ MutationStep(w) \/ LeaseTimeout(w)
                        \/ \E r \in Wanted : RequestMutation(w, r)

(* Tasks make progress; asyncio.Lock and Condition queue first-in-first-out, *)
(* so a task that can get a lock again and again gets it.                    *)
Fairness ==
  /\ \A m \in Models : SF_vars(LoadStep(m)) /\ SF_vars(UnloadStep(m))
  /\ \A w \in Writers : SF_vars(MutationStep(w)) /\ WF_vars(LeaseTimeout(w))
  /\ \A x \in Executions : SF_vars(EnterExecution(x)) /\ WF_vars(LeaveExecution(x))
  /\ WF_vars(EagerLoadPinned) /\ WF_vars(IdleEvict)

Spec == Init /\ [][Next]_vars
FairSpec == Spec /\ Fairness
-----------------------------------------------------------------------------
(* Properties.                                                             *)

(* A resident adapter was built from the configuration the registry serves   *)
(* for its model: load_async re-checks the config after the unlocked         *)
(* download, and a mutation unloads what it invalidates before it swaps.     *)
LoadedFromCurrentConfig == \A m \in Models : loaded[m] # None => configs[m] = loaded[m]

(* The memory managers account for exactly the models that hold device       *)
(* memory, so no evictor can select a ghost and a load sizes itself against  *)
(* what a dying adapter still holds (_finish_unload, issue 1600).            *)
NoGhost ==
  \A m \in Models \ RemoteModels :
    m \in tracked <=> loaded[m] # None \/ unload[m].phase = "tear"

(* The configuration an execution was admitted against does not change while *)
(* it holds the lease (execution_lease: "the selected configuration cannot   *)
(* change until it ends").                                                   *)
LeasePinsConfig ==
  \A x \in Executions : lease[x].pc = "in" => lease[x].cfg = configs[lease[x].model]

(* A recorded failure is one of the config now served: a config update       *)
(* clears sticky failures "so the next request retries with the new config". *)
FailureOfCurrentConfig ==
  \A m \in Models : failed[m] # None => failed[m].of = configs[m]

(* No eviction claims a model that is pinned at that moment                  *)
(* (set_pinned_models: "every eviction path ... see the new protection       *)
(* immediately").                                                            *)
PinnedNotEvicted ==
  [][\A m \in Models :
       /\ unload[m].phase = "no" /\ unload'[m].phase = "drain"
       /\ unload'[m].by.task \in {"load", "monitor", "idle", "oom"}
       => m \notin pinned]_vars

(* Every load that is announced as loading ends, whatever fails: the API     *)
(* answers MODEL_LOADING for as long as the model stays in _loading.         *)
LoadsEnd == \A m \in Models : (m \in loading) ~> (m \notin loading)

(* Neither side of the lease waits for ever: executions get in once the      *)
(* queued mutations are done or timed out, and every mutation ends.          *)
LeaseIsLive ==
  /\ \A x \in Executions : (lease[x].pc = "wait") ~> (lease[x].pc = "in")
  /\ \A w \in Writers : (mut[w].pc # "idle") ~> (mut[w].pc = "idle")
=============================================================================
