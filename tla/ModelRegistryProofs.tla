------------------------ MODULE ModelRegistryProofs ------------------------
(***************************************************************************)
(* The properties of ModelRegistry that its runs check, proved for every   *)
(* set of models, configs, executions and writers.  First the control part *)
(* of the inductive invariant: the shape of the state, who holds the       *)
(* admission lock, and who owns and awaits each unload.                    *)
(***************************************************************************)
EXTENDS ModelRegistry, TLAPS

\* Most leaves are set reasoning without arithmetic, for Zenon; the others say SMT.
USE ZenonT(30), SMTT(30)

(* The phases of an unload: none, waiting for requests in flight, tearing   *)
(* the adapter down.                                                        *)
Phases == {"no", "drain", "tear"}

(* The tasks of the registry, each with the model or the config writer it   *)
(* works for.                                                               *)
Tasks == [task: {"load", "oom"}, id: Models] \cup [task: {"config"}, id: Writers]
         \cup [task: {"monitor", "reap", "idle", "manual"}, id: {None}]

(* What the registry records of a model's unload.                           *)
UnloadT == [phase: Phases, by: Tasks]

(* The steps of a load that run under the admission lock.                   *)
Admitted == {"check", "room", "evicting", "device", "oom", "retry"}

(* The steps of a load after its config was re-checked under the lock.      *)
Kept == Admitted \ {"check"}

(* A load task.                                                             *)
LoadT == [pc: {"idle", "start", "remote", "download", "queued"} \cup Admitted,
          cfg: Config, waits: SUBSET Models]

(* What a mutation may ask for: a config for each of some models.           *)
Wants == UNION {[S -> Config] : S \in SUBSET Models}

(* A config mutation.                                                       *)
MutT == [pc: {"idle", "lease", "plan", "queued", "unloading"},
         kind: {"apply", "replace", "remove"}, want: Wants,
         todo: SUBSET Models, waits: SUBSET Models]

(* An execution lease.                                                      *)
LeaseT == {NoLease} \cup [pc: {"wait", "in"}, model: Models, cfg: Config]

(* A recorded load failure.                                                 *)
FailureT == [class: {"oom", "other"}, of: Config]

(* Every variable of the registry has its type.                             *)
TypeInv ==
  /\ configs \in [Models -> Config] /\ loaded \in [Models -> Config]
  /\ loading \subseteq Models /\ tracked \subseteq Models /\ pinned \subseteq Models
  /\ idleSnap \subseteq Models
  /\ unload \in [Models -> UnloadT]
  /\ failed \in [Models -> {None} \cup FailureT]
  /\ load \in [Models -> LoadT]
  /\ mut \in [Writers -> MutT]
  /\ admission \in Tasks
  /\ lease \in [Executions -> LeaseT]

(* A load that runs is in `loading`. One past its admission holds the       *)
(* admission lock and a config, remote models never take that path, and an  *)
(* evicting load awaits at most one victim.                                 *)
LoadCtl ==
  \A m \in Models :
    /\ load[m].pc # "idle" => m \in loading
    /\ load[m].pc \in Admitted => admission = LoadTask(m)
    /\ load[m].pc \notin {"idle", "start"} => load[m].cfg # None
    /\ load[m].pc \in Admitted \cup {"download", "queued"} => m \notin RemoteModels
    /\ load[m].pc = "remote" => m \in RemoteModels
    /\ load[m].pc \in {"evicting", "retry"} => \A v, u \in load[m].waits : u = v

(* A mutation that unloads holds the admission lock, awaits only unloads in *)
(* progress, one at a time, and a removal wants no config.                  *)
MutCtl ==
  \A w \in Writers :
    /\ mut[w].pc = "unloading" => admission = MutTask(w)
    /\ mut[w].waits \subseteq Unloading
    /\ \A v, u \in mut[w].waits : u = v
    /\ mut[w].kind = "remove" => \A m \in DOMAIN mut[w].want : mut[w].want[m] = None

(* The load or the mutation that owns the unload of v is still there and    *)
(* awaits it.                                                               *)
Owned(v) ==
  /\ unload[v].by.task = "load" =>
       /\ load[unload[v].by.id].pc \in {"evicting", "retry"}
       /\ v \in load[unload[v].by.id].waits
  /\ unload[v].by.task = "config" =>
       /\ mut[unload[v].by.id].pc = "unloading"
       /\ v \in mut[unload[v].by.id].waits

(* Every unload in progress has its owner.                                  *)
UnloadCtl == \A v \in Models : unload[v].phase # "no" => Owned(v)

(* The control of loads, mutations and unloads.                             *)
CtlInv == LoadCtl /\ MutCtl /\ UnloadCtl

(* What makes NoGhost inductive: an unload drains a loaded model and tears  *)
(* down one no longer served, and remote models are not accounted.          *)
GhostInv ==
  /\ \A m \in Models : /\ unload[m].phase = "drain" => loaded[m] # None
                       /\ unload[m].phase = "tear" => loaded[m] = None
  /\ tracked \cap RemoteModels = {}
  /\ NoGhost

(* What makes LeasePinsConfig inductive: readers and writers exclude each   *)
(* other.                                                                   *)
LeaseInv == LeasePinsConfig /\ ~(ReaderActive /\ WriterActive)

(* A load past its re-check loads the config the registry serves: the       *)
(* admission lock keeps mutations from installing another.                  *)
KeepInv == \A m \in Models : load[m].pc \in Kept => configs[m] = load[m].cfg

(* A mutation that unloads has still to unload, or awaits, every loaded     *)
(* model whose config it changes.                                           *)
UnloadInv == \A w \in Writers : mut[w].pc = "unloading" =>
  \A m \in DOMAIN mut[w].want :
    \/ m \in mut[w].todo \cup mut[w].waits
    \/ loaded[m] = None \/ mut[w].want[m] = configs[m]

(* No unload belongs to the recovery from an out-of-memory error outside a  *)
(* load.                                                                    *)
NoOom == \A m \in Models : unload[m].phase # "no" => unload[m].by.task # "oom"

(* The idle records and the names of tasks have their types.                *)
LEMMA Basics ==
  /\ None \in Config
  /\ NoLoad \in LoadT /\ NoMutation \in MutT /\ NoLease \in LeaseT
  /\ NotUnloading \in UnloadT
  /\ \A m \in Models : LoadTask(m) \in Tasks /\ By("oom", m) \in Tasks
  /\ \A w \in Writers : MutTask(w) \in Tasks
  /\ Free \in Tasks
  /\ \A t \in {"monitor", "reap", "idle", "manual"} : By(t, None) \in Tasks
<1>1. <<>> \in [{} -> Config]
  BY SMT
<1>2. <<>> \in Wants
  BY <1>1 DEF Wants
<1>3. /\ \A m \in Models : LoadTask(m) \in Tasks /\ By("oom", m) \in Tasks
      /\ \A w \in Writers : MutTask(w) \in Tasks
      /\ Free \in Tasks
      /\ \A t \in {"monitor", "reap", "idle", "manual"} : By(t, None) \in Tasks
  BY DEF Tasks, By, LoadTask, MutTask, Free
<1>4. NotUnloading \in UnloadT
  BY <1>3 DEF NotUnloading, Free, Phases, UnloadT
<1> QED BY <1>2, <1>3, <1>4 DEF NoLoad, NoMutation, NoLease, LoadT, MutT, LeaseT, Config, Admitted

(* Claiming a model for unload (_begin_unload) keeps the type of the unload *)
(* table.                                                                   *)
LEMMA ClaimType ==
  ASSUME TypeInv, NEW m \in Models, NEW t \in Tasks
  PROVE  Claim(m, t) \in [Models -> UnloadT]
<1>1. [phase |-> "drain", by |-> t] \in UnloadT
  BY DEF UnloadT, Phases
<1> QED BY <1>1 DEF TypeInv, Claim

(* Waking the tasks that await an unload keeps the types of the loads and   *)
(* of the mutations.                                                        *)
LEMMA WakeTypes ==
  ASSUME TypeInv, NEW m \in Models
  PROVE  WakeLoads(m, load) \in [Models -> LoadT] /\ WakeMuts(m, mut) \in [Writers -> MutT]
<1>1. \A n \in Models : [load[n] EXCEPT !.waits = @ \ {m}] \in LoadT
  BY SMT DEF TypeInv, LoadT
<1>2. \A w \in Writers : [mut[w] EXCEPT !.waits = @ \ {m}] \in MutT
  BY DEF TypeInv, MutT
<1> QED BY <1>1, <1>2 DEF WakeLoads, WakeMuts

(* The configs a mutation installs, invalidates and drops are configs and   *)
(* models.                                                                  *)
LEMMA TargetType ==
  ASSUME TypeInv, NEW w \in Writers
  PROVE  Target(w) \in [Models -> Config] /\ Invalidated(w) \subseteq Models /\ Dropped(w) \subseteq Models
<1>1. mut[w].want \in Wants
  BY DEF TypeInv, MutT
<1>2. PICK S \in SUBSET Models : mut[w].want \in [S -> Config]
  BY <1>1 DEF Wants
<1> QED BY <1>2 DEF Target, Invalidated, Dropped, TypeInv

(* The end of a load keeps the types of what it resets.                     *)
LEMMA EndsType ==
  ASSUME TypeInv, NEW m \in Models, EndLoad(m)
  PROVE  load' \in [Models -> LoadT] /\ loading' \subseteq Models /\ admission' \in Tasks
BY Basics DEF TypeInv, EndLoad

(* A failed load keeps the types of what it resets and records.             *)
LEMMA FailsType ==
  ASSUME TypeInv, NEW m \in Models, NEW c \in {"oom", "other"}, NEW g \in Config, FailLoad(m, c, g)
  PROVE  /\ load' \in [Models -> LoadT] /\ loading' \subseteq Models /\ admission' \in Tasks
         /\ failed' \in [Models -> {None} \cup FailureT]
<1>1. [class |-> c, of |-> g] \in FailureT
  BY DEF FailureT
<1> QED BY <1>1, EndsType DEF FailLoad, TypeInv

(* A load that moves on to its next step is still a load.                   *)
LEMMA LoadMoves ==
  ASSUME TypeInv, NEW m \in Models, NEW p \in {"queued"} \cup Admitted, NEW W \in SUBSET Models
  PROVE  /\ [load EXCEPT ![m].pc = p, ![m].waits = W] \in [Models -> LoadT]
         /\ [load EXCEPT ![m].pc = p] \in [Models -> LoadT]
         /\ [load EXCEPT ![m].waits = W] \in [Models -> LoadT]
         /\ load[m].cfg \in Config
<1>0. load[m] \in LoadT
  BY DEF TypeInv
<1>1. /\ [load[m] EXCEPT !.pc = p, !.waits = W] \in LoadT
      /\ [load[m] EXCEPT !.pc = p] \in LoadT
      /\ [load[m] EXCEPT !.waits = W] \in LoadT
      /\ load[m].cfg \in Config
  BY <1>0 DEF LoadT
<1> QED BY <1>1 DEF TypeInv

(* Starting loads keeps their types.                                        *)
LEMMA StartsType ==
  ASSUME TypeInv, NEW S \in SUBSET Models, StartLoads(S)
  PROVE  load' \in [Models -> LoadT] /\ loading' \subseteq Models
<1>1. [NoLoad EXCEPT !.pc = "start"] \in LoadT
  BY Basics DEF NoLoad, LoadT
<1> QED BY <1>1 DEF StartLoads, TypeInv
(* A mutation that moves on to its next step is still a mutation.           *)
LEMMA MutMoves ==
  ASSUME TypeInv, NEW w \in Writers, NEW T \in SUBSET Models
  PROVE  /\ \A p \in {"plan", "queued"} : [mut EXCEPT ![w].pc = p] \in [Writers -> MutT]
         /\ [mut EXCEPT ![w].pc = "unloading", ![w].todo = T] \in [Writers -> MutT]
<1>0. mut[w] \in MutT
  BY DEF TypeInv
<1>1. /\ \A p \in {"plan", "queued"} : [mut[w] EXCEPT !.pc = p] \in MutT
      /\ [mut[w] EXCEPT !.pc = "unloading", !.todo = T] \in MutT
  BY <1>0 DEF MutT
<1> QED BY <1>1 DEF TypeInv

(* Installing a mutation's configs keeps the types of what it writes.       *)
LEMMA InstallType ==
  ASSUME TypeInv, NEW w \in Writers, Install(w)
  PROVE  /\ configs' \in [Models -> Config] /\ failed' \in [Models -> {None} \cup FailureT]
         /\ mut' \in [Writers -> MutT] /\ admission' \in Tasks
BY TargetType, Basics DEF TypeInv, Install, EndMutation

(* The initial states are well typed.                                       *)
LEMMA InitType == Init => TypeInv
BY Basics, ConfigsAssumption DEF Init, TypeInv, Config

(* Every step keeps the types.                                              *)
LEMMA TypeStep ==
  ASSUME TypeInv, [Next]_vars
  PROVE  TypeInv'
<1>1. ASSUME NEW m \in Models, StartLoad(m) PROVE TypeInv'
  BY <1>1, StartsType DEF TypeInv, StartLoad
<1>2. ASSUME NEW m \in Models, LoadBegin(m) PROVE TypeInv'
  <2>1. ASSUME configs[m] # None,
               load' = [load EXCEPT ![m] = [NoLoad EXCEPT
                      !.pc = IF m \in RemoteModels THEN "remote" ELSE "download",
                      !.cfg = configs[m]]]
        PROVE  load' \in [Models -> LoadT]
    <3>1. [NoLoad EXCEPT !.pc = IF m \in RemoteModels THEN "remote" ELSE "download",
                         !.cfg = configs[m]] \in LoadT
      BY Basics DEF NoLoad, LoadT, TypeInv
    <3> QED BY <2>1, <3>1 DEF TypeInv
  <2>2. ASSUME load' = [load EXCEPT ![m].waits = {m}] PROVE load' \in [Models -> LoadT]
    <3>1. {m} \in SUBSET Models /\ "room" \in Admitted
      BY DEF Admitted
    <3> QED BY <2>2, <3>1, LoadMoves
  <2>3. ASSUME EndLoad(m), failed' = [failed EXCEPT ![m] = None]
        PROVE  /\ load' \in [Models -> LoadT] /\ loading' \subseteq Models /\ admission' \in Tasks
               /\ failed' \in [Models -> {None} \cup FailureT]
    BY <2>3, EndsType DEF TypeInv
  <2>4. ASSUME FailLoad(m, "other", None)
        PROVE  /\ load' \in [Models -> LoadT] /\ loading' \subseteq Models /\ admission' \in Tasks
               /\ failed' \in [Models -> {None} \cup FailureT]
    BY <2>4, FailsType, Basics
  <2>5. /\ load' \in [Models -> LoadT] /\ loading' \subseteq Models /\ admission' \in Tasks
        /\ failed' \in [Models -> {None} \cup FailureT]
    BY <1>2, <2>1, <2>2, <2>3, <2>4 DEF LoadBegin, TypeInv
  <2> QED BY <1>2, <2>5 DEF LoadBegin, TypeInv
<1>3. ASSUME NEW m \in Models, LoadRemote(m) PROVE TypeInv'
  <2>1. load[m].cfg \in Config
    BY DEF TypeInv, LoadT
  <2>2. /\ load' \in [Models -> LoadT] /\ loading' \subseteq Models /\ admission' \in Tasks
    BY <1>3, EndsType DEF LoadRemote
  <2> QED BY <1>3, <2>1, <2>2 DEF TypeInv, LoadRemote
<1>4. ASSUME NEW m \in Models, Download(m) PROVE TypeInv'
  BY <1>4, LoadMoves DEF TypeInv, Download, registryVars
<1>5. ASSUME NEW m \in Models, AdmitLoad(m) PROVE TypeInv'
  BY <1>5, LoadMoves, Basics DEF TypeInv, AdmitLoad, registryVars, Admitted, Unloading
<1>6. ASSUME NEW m \in Models, CheckConfig(m) PROVE TypeInv'
  <2>1. "room" \in Admitted /\ Unloading \in SUBSET Models
    BY DEF Admitted, Unloading
  <2>2. [load EXCEPT ![m].pc = "room", ![m].waits = Unloading] \in [Models -> LoadT]
    BY <2>1, LoadMoves
  <2>3. load' \in [Models -> LoadT] /\ loading' \subseteq Models /\ admission' \in Tasks
    BY <1>6, <2>2, EndsType DEF CheckConfig, TypeInv
  <2> QED BY <1>6, <2>3 DEF TypeInv, CheckConfig
<1>7. ASSUME NEW m \in Models, MakeRoom(m) PROVE TypeInv'
  <2>1. ASSUME NEW v \in tracked \ pinned,
               unload' = Claim(v, LoadTask(m)),
               load' = [load EXCEPT ![m].pc = "evicting", ![m].waits = {v}]
        PROVE  unload' \in [Models -> UnloadT] /\ load' \in [Models -> LoadT]
    <3>1. /\ v \in Models /\ {v} \in SUBSET Models
          /\ LoadTask(m) \in Tasks /\ {"evicting", "retry"} \subseteq Admitted
      BY <2>1, Basics DEF TypeInv, Admitted
    <3>2. unload' \in [Models -> UnloadT]
      BY <2>1, <3>1, ClaimType
    <3> QED BY <2>1, <3>1, <3>2, LoadMoves
  <2>2. ASSUME load' = [load EXCEPT ![m].pc = "device"]
        PROVE  load' \in [Models -> LoadT]
    BY <2>2, LoadMoves DEF Admitted
  <2> QED BY <1>7, <2>1, <2>2 DEF TypeInv, MakeRoom
<1>8. ASSUME NEW m \in Models, LoopRoom(m) PROVE TypeInv'
  BY <1>8, LoadMoves DEF TypeInv, LoopRoom, registryVars, Admitted, Unloading
<1>9. ASSUME NEW m \in Models, Register(m) PROVE TypeInv'
  BY <1>9, EndsType, LoadMoves, Basics DEF TypeInv, Register, Admitted
<1>10. ASSUME NEW m \in Models, EvictForOom(m) PROVE TypeInv'
  <2>1. ASSUME NEW v \in tracked \ pinned,
               unload' = Claim(v, LoadTask(m)),
               load' = [load EXCEPT ![m].pc = "retry", ![m].waits = {v}]
        PROVE  unload' \in [Models -> UnloadT] /\ load' \in [Models -> LoadT]
    <3>1. /\ v \in Models /\ {v} \in SUBSET Models
          /\ LoadTask(m) \in Tasks /\ {"evicting", "retry"} \subseteq Admitted
      BY <2>1, Basics DEF TypeInv, Admitted
    <3>2. unload' \in [Models -> UnloadT]
      BY <2>1, <3>1, ClaimType
    <3> QED BY <2>1, <3>1, <3>2, LoadMoves
  <2>2. ASSUME FailLoad(m, "oom", load[m].cfg)
        PROVE  /\ load' \in [Models -> LoadT] /\ loading' \subseteq Models /\ admission' \in Tasks
               /\ failed' \in [Models -> {None} \cup FailureT]
    BY <2>2, FailsType, LoadMoves DEF Admitted
  <2> QED BY <1>10, <2>1, <2>2 DEF TypeInv, EvictForOom
<1>11. ASSUME NEW m \in Models, DownloadFails(m) PROVE TypeInv'
  BY <1>11, FailsType, LoadMoves DEF TypeInv, DownloadFails, Admitted
<1>12. ASSUME NEW m \in Models, DeviceFails(m) PROVE TypeInv'
  <2>1. load[m].cfg \in Config
    BY LoadMoves DEF Admitted
  <2>2. PICK c \in {"oom", "other"} : FailLoad(m, c, load[m].cfg)
    BY <1>12 DEF DeviceFails
  <2>3. /\ load' \in [Models -> LoadT] /\ loading' \subseteq Models /\ admission' \in Tasks
        /\ failed' \in [Models -> {None} \cup FailureT]
    BY <2>1, <2>2, FailsType
  <2> QED BY <1>12, <2>3 DEF TypeInv, DeviceFails
<1>13. ASSUME NEW m \in Models, DeviceOom(m) PROVE TypeInv'
  BY <1>13, LoadMoves DEF TypeInv, DeviceOom, registryVars, Admitted, Unloading
<1>14. ASSUME NEW m \in Models, TearDown(m) PROVE TypeInv'
  BY <1>14, Basics DEF TypeInv, TearDown, taskVars, UnloadT, Phases
<1>15. ASSUME NEW m \in Models, UnloadDone(m) PROVE TypeInv'
  BY <1>15, Basics, WakeTypes DEF TypeInv, UnloadDone
<1>16. ASSUME NEW m \in Models, UnloadRaises(m) PROVE TypeInv'
  <2> DEFINE by == unload[m].by
  <2>1. by \in Tasks
    BY DEF TypeInv, UnloadT
  <2>2. CASE by.task = "load"
    <3>1. by.id \in Models
      BY <2>1, <2>2 DEF Tasks
    <3>2. [class |-> "other", of |-> load[by.id].cfg] \in FailureT
      BY <3>1, LoadMoves DEF FailureT, Admitted
    <3>3. failed' \in [Models -> {None} \cup FailureT]
      BY <1>16, <2>2, <3>1, <3>2 DEF TypeInv, UnloadRaises
    <3>4. load' = [WakeLoads(m, load) EXCEPT ![by.id] = NoLoad] /\ mut' = WakeMuts(m, mut)
      BY <1>16, <2>2 DEF UnloadRaises
    <3>5. load' \in [Models -> LoadT] /\ mut' \in [Writers -> MutT]
      BY <3>1, <3>4, Basics, WakeTypes
    <3> QED BY <1>16, <2>2, <3>3, <3>5, Basics DEF TypeInv, UnloadRaises
  <2>3. CASE by.task = "config"
    <3>1. by.id \in Writers
      BY <2>1, <2>3 DEF Tasks
    <3> QED BY <1>16, <2>3, <3>1, Basics, WakeTypes DEF TypeInv, UnloadRaises
  <2>4. CASE by.task \notin {"load", "config"}
    BY <1>16, <2>4, Basics, WakeTypes DEF TypeInv, UnloadRaises
  <2> QED BY <2>2, <2>3, <2>4
<1>17. ASSUME NEW m \in Models, UnloadCancelled(m) PROVE TypeInv'
  BY <1>17, Basics, WakeTypes DEF TypeInv, UnloadCancelled
<1>18. ASSUME NEW m \in Models, NEW t \in Tasks, EvictBy(m, t)
       PROVE  unload' \in [Models -> UnloadT]
  BY <1>18, ClaimType DEF EvictBy
<1>19. ASSUME NEW m \in Models, MonitorEvict(m) PROVE TypeInv'
  BY <1>19, <1>18, Basics DEF TypeInv, MonitorEvict, taskVars
<1>20. ASSUME NEW m \in Models, ManualUnload(m) PROVE TypeInv'
  BY <1>20, <1>18, Basics DEF TypeInv, ManualUnload, taskVars
<1>21. ASSUME NEW m \in Models, ReapExited(m) PROVE TypeInv'
  <2>1. [class |-> "other", of |-> loaded[m]] \in FailureT
    BY DEF FailureT, TypeInv
  <2> QED BY <1>21, <1>18, <2>1, Basics DEF TypeInv, ReapExited, taskVars
<1>22. ASSUME NEW m \in Models, Touch(m) \/ Age(m) \/ Cooldown(m) PROVE TypeInv'
  BY <1>22 DEF TypeInv, Touch, Age, Cooldown, taskVars
<1>23. ASSUME NEW m \in Models, NEW e \in Models, OomEvict(e, m) PROVE TypeInv'
  BY <1>23, <1>18, Basics DEF TypeInv, OomEvict, taskVars
<1>24. ASSUME EagerLoadPinned PROVE TypeInv'
  BY <1>24, StartsType DEF TypeInv, EagerLoadPinned, EagerSet
<1>25. ASSUME IdleSnapshot PROVE TypeInv'
  BY <1>25 DEF TypeInv, IdleSnapshot, registryVars
<1>26. ASSUME IdleEvict PROVE TypeInv'
  BY <1>26, <1>18, Basics DEF TypeInv, IdleEvict, IdleVictims
<1>27. ASSUME NEW p \in PinSets, SetPinnedModels(p) PROVE TypeInv'
  BY <1>27, StartsType, PinAssumption DEF TypeInv, SetPinnedModels, EagerSet
<1>28. ASSUME NEW x \in Executions, EnterExecution(x) PROVE TypeInv'
  <2>1. lease[x] \in [pc: {"wait", "in"}, model: Models, cfg: Config]
    BY SMT, <1>28 DEF EnterExecution, TypeInv, LeaseT, NoLease
  <2>2. [lease[x] EXCEPT !.pc = "in", !.cfg = configs[lease[x].model]] \in LeaseT
    BY <2>1 DEF TypeInv, LeaseT
  <2> QED BY <1>28, <2>2 DEF TypeInv, EnterExecution, registryVars
<1>29. ASSUME NEW x \in Executions, LeaveExecution(x) PROVE TypeInv'
  BY <1>29, Basics DEF TypeInv, LeaveExecution, registryVars
<1>30. ASSUME NEW x \in Executions, NEW m \in Models, RequestExecution(x, m) PROVE TypeInv'
  BY <1>30, Basics DEF TypeInv, RequestExecution, registryVars, LeaseT
<1>31. ASSUME NEW w \in Writers, TakeLease(w) PROVE TypeInv'
  BY <1>31, MutMoves DEF TypeInv, TakeLease, registryVars
<1>32. ASSUME NEW w \in Writers, PlanMutation(w) PROVE TypeInv'
  <2>1. CASE EndMutation(w) /\ UNCHANGED <<configs, failed, eager>>
    BY <1>32, <2>1, Basics DEF TypeInv, PlanMutation, EndMutation
  <2>2. CASE Install(w)
    BY <1>32, <2>2, InstallType DEF TypeInv, PlanMutation
  <2>3. CASE mut' = [mut EXCEPT ![w].pc = "queued"] /\ UNCHANGED <<configs, failed, eager, admission>>
    BY <1>32, <2>3, MutMoves DEF TypeInv, PlanMutation
  <2> QED BY <1>32, <2>1, <2>2, <2>3 DEF PlanMutation
<1>33. ASSUME NEW w \in Writers, AdmitMutation(w) PROVE TypeInv'
  BY <1>33, MutMoves, TargetType, Basics DEF TypeInv, AdmitMutation, registryVars
<1>34. ASSUME NEW w \in Writers, CommitMutation(w) PROVE TypeInv'
  BY <1>34, InstallType DEF TypeInv, CommitMutation
<1>35. ASSUME NEW w \in Writers, NEW m \in Models, UnloadInvalidated(w, m) PROVE TypeInv'
  <2>2. mut' \in [Writers -> MutT]
    <3>1. /\ [mut EXCEPT ![w].todo = @ \ {m}, ![w].waits = {m}] \in [Writers -> MutT]
          /\ [mut EXCEPT ![w].todo = @ \ {m}] \in [Writers -> MutT]
      <4>1. mut[w] \in MutT
        BY DEF TypeInv
      <4>2. /\ [mut[w] EXCEPT !.todo = @ \ {m}, !.waits = {m}] \in MutT
            /\ [mut[w] EXCEPT !.todo = @ \ {m}] \in MutT
        BY <4>1 DEF MutT
      <4> QED BY <4>2 DEF TypeInv
    <3> QED BY <1>35, <3>1 DEF UnloadInvalidated
  <2>3. unload' \in [Models -> UnloadT]
    BY SMT, <1>35, ClaimType, Basics DEF UnloadInvalidated, TypeInv
  <2> QED BY <1>35, <2>2, <2>3, Basics DEF TypeInv, UnloadInvalidated
<1>36. ASSUME NEW w \in Writers, LeaseTimeout(w) PROVE TypeInv'
  BY <1>36, Basics DEF TypeInv, LeaseTimeout, registryVars
<1>37. ASSUME NEW w \in Writers, NEW r \in Wanted, RequestMutation(w, r) PROVE TypeInv'
  <2>1. r.kind \in {"apply", "replace", "remove"} /\ r.want \in Wants
    BY SMT, Basics DEF Wanted, Wants, Named
  <2>2. [NoMutation EXCEPT !.pc = "lease", !.kind = r.kind, !.want = r.want] \in MutT
    BY <2>1, Basics DEF MutT, NoMutation
  <2> QED BY <1>37, <2>2 DEF TypeInv, RequestMutation, registryVars
<1>38. CASE UNCHANGED vars
  BY <1>38 DEF TypeInv, vars, registryVars, taskVars
<1> QED BY <1>1, <1>2, <1>3, <1>4, <1>5, <1>6, <1>7, <1>8, <1>9, <1>10, <1>11, <1>12, <1>13,
           <1>14, <1>15, <1>16, <1>17, <1>19, <1>20, <1>21, <1>22, <1>23, <1>24, <1>25,
           <1>26, <1>27, <1>28, <1>29, <1>30, <1>31, <1>32, <1>33, <1>34, <1>35, <1>36, <1>37, <1>38
        DEF Next, LoadStep, LoadFault, UnloadStep, MutationStep
(* The tasks of different models and writers are different, and none is the *)
(* free lock.                                                               *)
LEMMA TaskFacts ==
  /\ \A m, n \in Models : LoadTask(m) = LoadTask(n) => m = n
  /\ \A w, u \in Writers : MutTask(w) = MutTask(u) => w = u
  /\ \A m \in Models, w \in Writers : LoadTask(m) # MutTask(w)
  /\ \A m \in Models : LoadTask(m) # Free /\ LoadTask(m).task = "load" /\ LoadTask(m).id = m
  /\ \A w \in Writers : MutTask(w) # Free /\ MutTask(w).task = "config" /\ MutTask(w).id = w
BY DEF LoadTask, MutTask, By, Free

(* A task is its kind and the model or the writer it works for.             *)
LEMMA TaskEquality ==
  ASSUME NEW s \in Tasks, NEW t \in Tasks, s.task = t.task, s.id = t.id
  PROVE  s = t
BY SMT DEF Tasks

(* Waking the tasks that await m only takes m out of what they await.       *)
LEMMA WakeFacts ==
  ASSUME TypeInv, NEW m \in Models
  PROVE  /\ \A n \in Models : /\ WakeLoads(m, load)[n].pc = load[n].pc
                               /\ WakeLoads(m, load)[n].cfg = load[n].cfg
                               /\ WakeLoads(m, load)[n].waits = load[n].waits \ {m}
         /\ \A w \in Writers : /\ WakeMuts(m, mut)[w].pc = mut[w].pc
                                /\ WakeMuts(m, mut)[w].kind = mut[w].kind
                                /\ WakeMuts(m, mut)[w].want = mut[w].want
                                /\ WakeMuts(m, mut)[w].todo = mut[w].todo
                                /\ WakeMuts(m, mut)[w].waits = mut[w].waits \ {m}
<1>1. \A n \in Models : load[n] \in LoadT
  BY DEF TypeInv
<1>2. \A w \in Writers : mut[w] \in MutT
  BY DEF TypeInv
<1> QED BY SMT, <1>1, <1>2 DEF WakeLoads, WakeMuts, LoadT, MutT

(* A claim marks one model as draining, for the task that claims it, and    *)
(* leaves an unload in progress alone.                                      *)
LEMMA ClaimFacts ==
  ASSUME TypeInv, NEW m \in Models, NEW t \in Tasks, unload' = Claim(m, t)
  PROVE  /\ unload'[m].phase # "no"
         /\ unload[m].phase = "no" => unload'[m].phase = "drain" /\ unload'[m].by = t
         /\ unload[m].phase # "no" => unload'[m] = unload[m]
         /\ \A v \in Models : v # m => unload'[v] = unload[v]
BY DEF TypeInv, Claim

(* The end of a load keeps the control of loads: it releases only the lock  *)
(* it holds.                                                                *)
LEMMA EndLoadCtl ==
  ASSUME TypeInv, LoadCtl, NEW m \in Models, EndLoad(m)
  PROVE  LoadCtl'
BY SMT, TaskFacts DEF TypeInv, LoadT, LoadCtl, Admitted, NoLoad, EndLoad

(* A load that stays admitted keeps the control of loads.                   *)
LEMMA AdmittedCtl ==
  ASSUME TypeInv, LoadCtl, NEW m \in Models, load[m].pc \in Admitted, UNCHANGED <<loading, admission>>,
         load'[m].pc \in Admitted, load'[m].cfg = load[m].cfg,
         load'[m].pc \in {"evicting", "retry"} => \A v, u \in load'[m].waits : u = v,
         \A n \in Models : n # m => load'[n] = load[n]
  PROVE  LoadCtl'
BY DEF LoadCtl, Admitted

(* Every step keeps the control of loads.                                   *)
LEMMA LoadCtlStep ==
  ASSUME TypeInv, CtlInv, [Next]_vars
  PROVE  LoadCtl'
<1>1. ASSUME NEW m \in Models, StartLoad(m) PROVE LoadCtl'
  BY SMT, <1>1, TaskFacts DEF StartLoad, StartLoads, Startable, registryVars, TypeInv, LoadT, CtlInv, LoadCtl, Admitted, NoLoad
<1>2. ASSUME EagerLoadPinned PROVE LoadCtl'
  BY SMT, <1>2, TaskFacts DEF EagerLoadPinned, StartLoads, EagerSet, Startable, registryVars, TypeInv, LoadT, CtlInv, LoadCtl, Admitted, NoLoad
<1>3. ASSUME NEW p \in PinSets, SetPinnedModels(p) PROVE LoadCtl'
  BY SMT, <1>3, TaskFacts DEF SetPinnedModels, StartLoads, EagerSet, Startable, registryVars, TypeInv, LoadT, CtlInv, LoadCtl, Admitted, NoLoad
<1>4. ASSUME NEW m \in Models, LoadBegin(m) PROVE LoadCtl'
  <2>1. CASE load' = [load EXCEPT ![m].waits = {m}] /\ UNCHANGED <<loading, admission>>
    BY SMT, <1>4, <2>1 DEF LoadBegin, TypeInv, LoadT, CtlInv, LoadCtl, Admitted
  <2>2. CASE /\ configs[m] # None
             /\ load' = [load EXCEPT ![m] = [NoLoad EXCEPT
                      !.pc = IF m \in RemoteModels THEN "remote" ELSE "download",
                      !.cfg = configs[m]]]
             /\ UNCHANGED <<loading, admission>>
    BY SMT, <1>4, <2>2 DEF LoadBegin, TypeInv, LoadT, CtlInv, LoadCtl, Admitted, NoLoad
  <2> QED BY <1>4, <2>1, <2>2, EndLoadCtl DEF LoadBegin, FailLoad, CtlInv
<1>5. ASSUME NEW m \in Models, LoadRemote(m) PROVE LoadCtl'
  BY <1>5, EndLoadCtl DEF LoadRemote, CtlInv
<1>6. ASSUME NEW m \in Models, Download(m) PROVE LoadCtl'
  BY SMT, <1>6, TaskFacts DEF Download, registryVars, TypeInv, LoadT, CtlInv, LoadCtl, Admitted, NoLoad
<1>7. ASSUME NEW m \in Models, AdmitLoad(m) PROVE LoadCtl'
  BY SMT, <1>7, TaskFacts DEF AdmitLoad, registryVars, TypeInv, LoadT, CtlInv, LoadCtl, Admitted, NoLoad
<1>8. ASSUME NEW m \in Models, CheckConfig(m) PROVE LoadCtl'
  <2>1. load[m].pc \in Admitted /\ "room" \in Admitted
    BY <1>8 DEF CheckConfig, Admitted
  <2>2. CASE /\ load' = [load EXCEPT ![m].pc = "room", ![m].waits = Unloading]
             /\ UNCHANGED <<loading, admission>>
    <3>1. load \in [Models -> LoadT] /\ LoadCtl
      BY DEF TypeInv, CtlInv
    <3>2. /\ load'[m].pc = "room" /\ load'[m].cfg = load[m].cfg
          /\ \A n \in Models : n # m => load'[n] = load[n]
      BY SMT, <2>2, <3>1 DEF LoadT
    <3> QED BY <2>1, <2>2, <3>1, <3>2, AdmittedCtl
  <2> QED BY <1>8, <2>2, EndLoadCtl DEF CheckConfig, CtlInv
<1>9. ASSUME NEW m \in Models, MakeRoom(m) PROVE LoadCtl'
  <2>1. load[m].pc \in Admitted /\ {"device", "evicting"} \subseteq Admitted
    BY <1>9 DEF MakeRoom, Admitted
  <2>2. CASE load' = [load EXCEPT ![m].pc = "device"]
    <3>1. load \in [Models -> LoadT] /\ LoadCtl /\ UNCHANGED <<loading, admission>>
      BY <1>9 DEF MakeRoom, TypeInv, CtlInv
    <3>2. /\ load'[m].pc = "device" /\ load'[m].cfg = load[m].cfg
          /\ \A n \in Models : n # m => load'[n] = load[n]
      BY <2>2, <3>1 DEF LoadT
    <3> QED BY <2>1, <3>1, <3>2, AdmittedCtl
  <2>3. ASSUME NEW v, load' = [load EXCEPT ![m].pc = "evicting", ![m].waits = {v}]
        PROVE  LoadCtl'
    <3>1. load \in [Models -> LoadT] /\ LoadCtl /\ UNCHANGED <<loading, admission>>
      BY <1>9 DEF MakeRoom, TypeInv, CtlInv
    <3>2. /\ load'[m].pc = "evicting" /\ load'[m].cfg = load[m].cfg /\ load'[m].waits = {v}
          /\ \A n \in Models : n # m => load'[n] = load[n]
      BY SMT, <2>3, <3>1 DEF LoadT
    <3> QED BY <2>1, <3>1, <3>2, AdmittedCtl
  <2> QED BY <1>9, <2>2, <2>3 DEF MakeRoom
<1>10. ASSUME NEW m \in Models, LoopRoom(m) PROVE LoadCtl'
  <2>1. load[m].pc \in Admitted /\ "room" \in Admitted
    BY <1>10 DEF LoopRoom, Admitted
  <2>2. load \in [Models -> LoadT] /\ LoadCtl /\ UNCHANGED <<loading, admission>>
    BY <1>10 DEF LoopRoom, registryVars, TypeInv, CtlInv
  <2>3. /\ load'[m].pc = "room" /\ load'[m].cfg = load[m].cfg
        /\ \A n \in Models : n # m => load'[n] = load[n]
    BY SMT, <1>10, <2>2 DEF LoopRoom, LoadT
  <2> QED BY <2>1, <2>2, <2>3, AdmittedCtl
<1>11. ASSUME NEW m \in Models, Register(m) PROVE LoadCtl'
  BY <1>11, EndLoadCtl DEF Register, CtlInv
<1>12. ASSUME NEW m \in Models, EvictForOom(m) PROVE LoadCtl'
  <2>1. load[m].pc \in Admitted /\ "retry" \in Admitted
    BY <1>12 DEF EvictForOom, Admitted
  <2>2. ASSUME NEW v, load' = [load EXCEPT ![m].pc = "retry", ![m].waits = {v}],
               loading' = loading, admission' = admission
        PROVE  LoadCtl'
    <3>1. load \in [Models -> LoadT] /\ LoadCtl
      BY DEF TypeInv, CtlInv
    <3>2. /\ load'[m].pc = "retry" /\ load'[m].cfg = load[m].cfg /\ load'[m].waits = {v}
          /\ \A n \in Models : n # m => load'[n] = load[n]
      BY SMT, <2>2, <3>1 DEF LoadT
    <3> QED BY <2>1, <2>2, <3>1, <3>2, AdmittedCtl
  <2> QED BY <1>12, <2>2, EndLoadCtl DEF EvictForOom, FailLoad, CtlInv
<1>13. ASSUME NEW m \in Models, DownloadFails(m) PROVE LoadCtl'
  BY <1>13, EndLoadCtl DEF DownloadFails, FailLoad, CtlInv
<1>14. ASSUME NEW m \in Models, DeviceFails(m) PROVE LoadCtl'
  BY <1>14, EndLoadCtl DEF DeviceFails, FailLoad, CtlInv
<1>15. ASSUME NEW m \in Models, DeviceOom(m) PROVE LoadCtl'
  <2>1. load[m].pc \in Admitted /\ "oom" \in Admitted
    BY <1>15 DEF DeviceOom, Admitted
  <2>2. load \in [Models -> LoadT] /\ LoadCtl /\ UNCHANGED <<loading, admission>>
    BY <1>15 DEF DeviceOom, registryVars, TypeInv, CtlInv
  <2>3. /\ load'[m].pc = "oom" /\ load'[m].cfg = load[m].cfg
        /\ \A n \in Models : n # m => load'[n] = load[n]
    BY SMT, <1>15, <2>2 DEF DeviceOom, LoadT
  <2> QED BY <2>1, <2>2, <2>3, AdmittedCtl
<1>16. ASSUME NEW m \in Models, UnloadDone(m) PROVE LoadCtl'
  BY SMT, <1>16, WakeFacts DEF UnloadDone, CtlInv, LoadCtl
<1>17. ASSUME NEW m \in Models, UnloadRaises(m) PROVE LoadCtl'
  <2> DEFINE by == unload[m].by
  <2>1. by \in Tasks
    BY DEF UnloadT, TypeInv
  <2>2. CASE by.task = "load"
    <3>1. by.id \in Models /\ admission = LoadTask(by.id)
      BY <1>17, <2>1, <2>2 DEF Tasks, UnloadRaises, CtlInv, UnloadCtl, Owned, LoadCtl, Admitted
    <3>2. /\ load' = [WakeLoads(m, load) EXCEPT ![by.id] = NoLoad]
          /\ loading' = loading \ {by.id} /\ admission' = Free
      BY <1>17, <2>2 DEF UnloadRaises
    <3>3. WakeLoads(m, load) \in [Models -> LoadT]
      BY WakeTypes
    <3> QED BY SMT, <3>1, <3>2, <3>3, TaskFacts, WakeFacts DEF CtlInv, LoadCtl, NoLoad, Admitted
  <2>3. CASE by.task = "config"
    <3>1. by.id \in Writers /\ admission = MutTask(by.id)
      BY <1>17, <2>1, <2>3 DEF Tasks, UnloadRaises, CtlInv, UnloadCtl, Owned, MutCtl
    <3>2. load' = WakeLoads(m, load) /\ loading' = loading /\ admission' = Free
      BY <1>17, <2>3 DEF UnloadRaises
    <3> QED BY SMT, <3>1, <3>2, TaskFacts, WakeFacts DEF CtlInv, LoadCtl
  <2>4. CASE by.task \notin {"load", "config"}
    <3>1. load' = WakeLoads(m, load) /\ loading' = loading /\ admission' = admission
      BY <1>17, <2>4 DEF UnloadRaises
    <3> QED BY SMT, <3>1, WakeFacts DEF CtlInv, LoadCtl
  <2> QED BY <2>2, <2>3, <2>4
<1>18. ASSUME NEW m \in Models, UnloadCancelled(m) PROVE LoadCtl'
  BY SMT, <1>18, WakeFacts DEF UnloadCancelled, CtlInv, LoadCtl
<1>19. ASSUME NEW w \in Writers, PlanMutation(w) PROVE LoadCtl'
  <2>1. /\ UNCHANGED <<load, loading>>
        /\ admission' = admission \/ admission = MutTask(w)
    BY <1>19 DEF PlanMutation, Install, EndMutation
  <2> QED BY SMT, <2>1, TaskFacts DEF CtlInv, LoadCtl
<1>20. ASSUME NEW w \in Writers, AdmitMutation(w) PROVE LoadCtl'
  BY <1>20, TaskFacts DEF AdmitMutation, registryVars, TypeInv, LoadT, CtlInv, LoadCtl, Admitted, NoLoad
<1>21. ASSUME NEW w \in Writers, CommitMutation(w) PROVE LoadCtl'
  BY SMT, <1>21, TaskFacts DEF CommitMutation, Install, EndMutation, registryVars, TypeInv, LoadT, CtlInv, LoadCtl, Admitted, NoLoad
<1>22. CASE UNCHANGED <<load, loading, admission>>
  BY <1>22 DEF registryVars, TypeInv, LoadT, CtlInv, LoadCtl, Admitted, NoLoad
<1> QED BY <1>1, <1>2, <1>3, <1>4, <1>5, <1>6, <1>7, <1>8, <1>9, <1>10, <1>11, <1>12,
           <1>13, <1>14, <1>15, <1>16, <1>17, <1>18, <1>19, <1>20, <1>21, <1>22
        DEF Next, LoadStep, LoadFault, UnloadStep, MutationStep, vars, registryVars,
            taskVars, TearDown, MonitorEvict, ManualUnload, ReapExited, Touch,
            Age, Cooldown, OomEvict, IdleSnapshot, IdleEvict, EnterExecution,
            LeaveExecution, RequestExecution, TakeLease, LeaseTimeout,
            UnloadInvalidated, RequestMutation

(* What only keeps unloads, their waiters and the lock of the mutations. *)
MutKept ==
  /\ \A w \in Writers : admission = MutTask(w) => admission' = admission
  /\ \A v \in Models : unload[v].phase # "no" => unload'[v].phase # "no"

(* A step that keeps the mutations and what they rely on keeps their        *)
(* control.                                                                 *)
LEMMA MutCtlFrame ==
  ASSUME TypeInv, MutCtl, MutKept, mut' = mut
  PROVE  MutCtl'
<1>1. Unloading \subseteq Unloading'
  BY DEF MutKept, Unloading
<1> QED BY <1>1 DEF MutCtl, MutKept

(* Steps of loads and evictors neither move a mutation nor take what it     *)
(* relies on.                                                               *)
LEMMA MutKeptSteps ==
  ASSUME TypeInv, NEW m \in Models,
         \/ StartLoad(m) \/ LoadStep(m) \/ LoadFault(m) \/ TearDown(m)
         \/ MonitorEvict(m) \/ ManualUnload(m) \/ ReapExited(m)
         \/ Touch(m) \/ Age(m) \/ Cooldown(m)
         \/ \E e \in Models : OomEvict(e, m)
  PROVE  mut' = mut /\ MutKept
<1>1. mut' = mut
  BY DEF LoadStep, LoadFault, StartLoad, LoadBegin, LoadRemote, Download, AdmitLoad, CheckConfig,
         MakeRoom, LoopRoom, Register, EvictForOom, DownloadFails, DeviceFails, DeviceOom, TearDown,
         MonitorEvict, ManualUnload, ReapExited, Touch, Age, Cooldown, OomEvict, taskVars
<1>2. \A w \in Writers : admission = MutTask(w) => admission' = admission
  <2>1. ASSUME NEW w \in Writers, admission = MutTask(w), EndLoad(m) PROVE admission' = admission
    BY <2>1, TaskFacts DEF EndLoad
  <2>2. ASSUME NEW w \in Writers, admission = MutTask(w), LoadStep(m) PROVE admission' = admission
    <3>1. CASE LoadBegin(m) \/ LoadRemote(m) \/ Download(m) \/ AdmitLoad(m)
      BY <2>1, <2>2, <3>1, TaskFacts DEF LoadBegin, LoadRemote, Download, AdmitLoad, FailLoad, taskVars
    <3>2. CASE CheckConfig(m) \/ MakeRoom(m) \/ LoopRoom(m) \/ Register(m) \/ EvictForOom(m)
      BY <2>1, <2>2, <3>2 DEF CheckConfig, MakeRoom, LoopRoom, Register, EvictForOom, FailLoad, taskVars
    <3> QED BY <2>2, <3>1, <3>2 DEF LoadStep
  <2>3. ASSUME NEW w \in Writers, admission = MutTask(w), LoadFault(m) PROVE admission' = admission
    BY <2>1, <2>3, TaskFacts DEF LoadFault, DownloadFails, DeviceFails, DeviceOom, FailLoad, taskVars
  <2> QED BY <2>2, <2>3 DEF StartLoad, TearDown, MonitorEvict, ManualUnload, ReapExited, Touch, Age,
         Cooldown, OomEvict, taskVars
<1>3. \A v \in Models : unload[v].phase # "no" => unload'[v].phase # "no"
  <2>1. ASSUME NEW u \in Models, NEW t \in Tasks, unload' = Claim(u, t)
        PROVE  \A v \in Models : unload[v].phase # "no" => unload'[v].phase # "no"
    <3>1. unload'[u].phase # "no" /\ \A v \in Models : v # u => unload'[v] = unload[v]
      BY <2>1, ClaimFacts
    <3> QED BY <3>1
  <2>2. CASE MakeRoom(m) \/ EvictForOom(m)
    BY <2>1, <2>2, Basics DEF MakeRoom, EvictForOom, TypeInv
  <2>3. CASE TearDown(m)
    BY <2>3 DEF TearDown, TypeInv, UnloadT
  <2>4. CASE MonitorEvict(m) \/ ManualUnload(m) \/ ReapExited(m) \/ \E e \in Models : OomEvict(e, m)
    BY <2>1, <2>4, Basics DEF MonitorEvict, ManualUnload, ReapExited, OomEvict, EvictBy
  <2> QED BY <2>2, <2>3, <2>4 DEF LoadStep, LoadFault, StartLoad, LoadBegin, LoadRemote, Download,
         AdmitLoad, CheckConfig, LoopRoom, Register, DownloadFails, DeviceFails, DeviceOom,
         Touch, Age, Cooldown, registryVars
<1> QED BY <1>1, <1>2, <1>3 DEF MutKept

(* Steps of pins, of executions and of the idle evictor do not either.      *)
LEMMA OtherKeptSteps ==
  ASSUME TypeInv, \/ EagerLoadPinned \/ IdleSnapshot \/ IdleEvict
                  \/ \E p \in PinSets : SetPinnedModels(p)
                  \/ \E x \in Executions : \/ EnterExecution(x) \/ LeaveExecution(x)
                                           \/ \E m \in Models : RequestExecution(x, m)
                  \/ UNCHANGED vars
  PROVE  mut' = mut /\ MutKept
<1>1. CASE unload' = unload
  BY <1>1 DEF MutKept, EagerLoadPinned, IdleSnapshot, IdleEvict, SetPinnedModels, EnterExecution,
              LeaveExecution, RequestExecution, vars, taskVars
<1>2. CASE IdleEvict /\ \E m \in IdleVictims : EvictBy(m, By("idle", None))
  <2>1. PICK u \in Models : unload' = Claim(u, By("idle", None))
    BY <1>2 DEF EvictBy, IdleVictims, TypeInv
  <2>2. unload'[u].phase # "no" /\ \A v \in Models : v # u => unload'[v] = unload[v]
    BY <2>1, ClaimFacts, Basics
  <2> QED BY <1>2, <2>2 DEF MutKept, IdleEvict
<1> QED BY <1>1, <1>2 DEF EagerLoadPinned, IdleSnapshot, IdleEvict, SetPinnedModels, EnterExecution,
              LeaveExecution, RequestExecution, vars, registryVars

(* The end of an unload keeps the control of the mutations it wakes.        *)
LEMMA WakeCtl ==
  ASSUME TypeInv, MutCtl, NEW m \in Models, mut' = WakeMuts(m, mut),
         unload' = [unload EXCEPT ![m] = NotUnloading],
         \A w \in Writers : admission = MutTask(w) => admission' = admission
  PROVE  MutCtl'
<1>1. Unloading \ {m} \subseteq Unloading'
  BY DEF Unloading, TypeInv
<1> QED BY SMT, <1>1, WakeFacts DEF MutCtl

(* The end of a mutation keeps the control of mutations.                    *)
LEMMA EndMutCtl ==
  ASSUME TypeInv, MutCtl, NEW w \in Writers, EndMutation(w), unload' = unload
  PROVE  MutCtl'
<1>1. Unloading' = Unloading
  BY DEF Unloading
<1>2. mut'[w] = NoMutation /\ \A u \in Writers : u # w => mut'[u] = mut[u]
  BY DEF TypeInv, EndMutation
<1>3. \A u \in Writers : u # w /\ admission = MutTask(u) => admission' = admission
  BY TaskFacts DEF EndMutation
<1> QED BY SMT, <1>1, <1>2, <1>3 DEF MutCtl, NoMutation

(* Every step keeps the control of mutations.                               *)
LEMMA MutCtlStep ==
  ASSUME TypeInv, CtlInv, [Next]_vars
  PROVE  MutCtl'
<1>1. CASE mut' = mut /\ MutKept
  BY <1>1, MutCtlFrame DEF CtlInv
<1>2. ASSUME NEW m \in Models, UnloadDone(m) \/ UnloadCancelled(m) PROVE MutCtl'
  BY <1>2, WakeCtl DEF UnloadDone, UnloadCancelled, CtlInv
<1>3. ASSUME NEW m \in Models, UnloadRaises(m) PROVE MutCtl'
  <2> DEFINE by == unload[m].by
  <2>1. by \in Tasks /\ unload[m].phase # "no"
    BY <1>3 DEF UnloadT, TypeInv, UnloadRaises
  <2>2. CASE by.task = "load"
    <3>1. by.id \in Models /\ admission = LoadTask(by.id)
      BY <2>1, <2>2 DEF Tasks, CtlInv, UnloadCtl, Owned, LoadCtl, Admitted
    <3> QED BY <1>3, <2>2, <3>1, TaskFacts, WakeCtl DEF UnloadRaises, CtlInv
  <2>3. CASE by.task = "config"
    <3>1. by.id \in Writers /\ admission = MutTask(by.id)
      BY <2>1, <2>3 DEF Tasks, CtlInv, UnloadCtl, Owned, MutCtl
    <3>2. /\ mut' = [WakeMuts(m, mut) EXCEPT ![by.id] = NoMutation]
          /\ unload' = [unload EXCEPT ![m] = NotUnloading]
      BY <1>3, <2>3 DEF UnloadRaises
    <3>3. WakeMuts(m, mut) \in [Writers -> MutT]
      BY WakeTypes
    <3>4. mut'[by.id] = NoMutation
          /\ \A w \in Writers : w # by.id => mut'[w] = WakeMuts(m, mut)[w]
      BY <3>1, <3>2, <3>3
    <3>5. Unloading \ {m} \subseteq Unloading'
      BY <3>2 DEF Unloading, TypeInv
    <3>6. \A w \in Writers : w # by.id => mut[w].pc # "unloading"
      BY SMT, <3>1, TaskFacts DEF CtlInv, MutCtl
    <3>7. \A w \in Writers : w # by.id =>
            /\ mut'[w].pc = mut[w].pc /\ mut'[w].kind = mut[w].kind
            /\ mut'[w].want = mut[w].want /\ mut'[w].waits = mut[w].waits \ {m}
      BY SMT, <3>4, WakeFacts
    <3> SUFFICES ASSUME NEW w \in Writers
                 PROVE  /\ mut'[w].pc = "unloading" => admission' = MutTask(w)
                        /\ mut'[w].waits \subseteq Unloading'
                        /\ \A v, u \in mut'[w].waits : u = v
                        /\ mut'[w].kind = "remove" =>
                             \A n \in DOMAIN mut'[w].want : mut'[w].want[n] = None
      BY DEF MutCtl, MutTask, By
    <3>8. CASE w = by.id
      BY SMT, <3>4, <3>8 DEF NoMutation
    <3>9. CASE w # by.id
      <4>1. /\ mut[w].waits \subseteq Unloading
            /\ \A v, u \in mut[w].waits : u = v
            /\ mut[w].kind = "remove" => \A n \in DOMAIN mut[w].want : mut[w].want[n] = None
        BY DEF CtlInv, MutCtl
      <4>2. mut[w].pc # "unloading"
        BY <3>6, <3>9
      <4> QED BY <3>5, <3>7, <3>9, <4>1, <4>2
    <3> QED BY <3>8, <3>9
  <2>4. CASE by.task \notin {"load", "config"}
    BY <1>3, <2>4, WakeCtl DEF UnloadRaises, CtlInv
  <2> QED BY <2>2, <2>3, <2>4
<1>4. ASSUME NEW w \in Writers, TakeLease(w) PROVE MutCtl'
  <2>1. Unloading' = Unloading
    BY <1>4 DEF Unloading, TakeLease, registryVars
  <2> QED BY SMT, <1>4, <2>1 DEF TakeLease, TypeInv, MutT, CtlInv, MutCtl
<1>5. ASSUME NEW w \in Writers, LeaseTimeout(w) PROVE MutCtl'
  <2>1. Unloading' = Unloading
    BY <1>5 DEF Unloading, LeaseTimeout, registryVars
  <2> QED BY <1>5, <2>1 DEF LeaseTimeout, TypeInv, CtlInv, MutCtl, NoMutation
<1>6. ASSUME NEW w \in Writers, PlanMutation(w) PROVE MutCtl'
  <2>1. CASE mut' = [mut EXCEPT ![w].pc = "queued"] /\ admission' = admission
    <3>1. Unloading' = Unloading
      BY <1>6 DEF Unloading, PlanMutation
    <3> QED BY SMT, <2>1, <3>1 DEF TypeInv, MutT, CtlInv, MutCtl
  <2> QED BY <1>6, <2>1, EndMutCtl DEF PlanMutation, Install, CtlInv
<1>7. ASSUME NEW w \in Writers, AdmitMutation(w) PROVE MutCtl'
  <2>1. Unloading' = Unloading
    BY <1>7 DEF Unloading, AdmitMutation, registryVars
  <2>2. \A u \in Writers : mut[u].pc # "unloading"
    BY <1>7, TaskFacts DEF AdmitMutation, CtlInv, MutCtl
  <2> QED BY SMT, <1>7, <2>1, <2>2 DEF AdmitMutation, TypeInv, MutT, CtlInv, MutCtl
<1>8. ASSUME NEW w \in Writers, CommitMutation(w) PROVE MutCtl'
  BY <1>8, EndMutCtl DEF CommitMutation, Install, CtlInv
<1>9. ASSUME NEW w \in Writers, NEW m \in Models, UnloadInvalidated(w, m) PROVE MutCtl'
  <2>1. /\ Unloading \subseteq Unloading'
        /\ mut'[w].waits \subseteq Unloading' /\ \A u, v \in mut'[w].waits : u = v
    <3>1. CASE loaded[m] # None
      <4>1. unload' = Claim(m, MutTask(w)) /\ mut'[w].waits = {m}
        BY SMT, <1>9, <3>1 DEF UnloadInvalidated, TypeInv, MutT
      <4>2. unload'[m].phase # "no" /\ \A v \in Models : v # m => unload'[v] = unload[v]
        BY <4>1, ClaimFacts, Basics
      <4> QED BY <4>1, <4>2 DEF Unloading
    <3>2. CASE loaded[m] = None
      <4>1. unload' = unload /\ mut'[w].waits = {}
        BY <1>9, <3>2 DEF UnloadInvalidated, TypeInv, MutT
      <4> QED BY <4>1 DEF Unloading
    <3> QED BY <3>1, <3>2
  <2>2. /\ mut'[w].pc = mut[w].pc /\ mut'[w].kind = mut[w].kind /\ mut'[w].want = mut[w].want
        /\ \A u \in Writers : u # w => mut'[u] = mut[u]
    BY SMT, <1>9 DEF UnloadInvalidated, TypeInv, MutT
  <2>3. admission' = admission
    BY <1>9 DEF UnloadInvalidated
  <2> QED BY SMT, <2>1, <2>2, <2>3 DEF CtlInv, MutCtl
<1>10. ASSUME NEW w \in Writers, NEW r \in Wanted, RequestMutation(w, r) PROVE MutCtl'
  <2>1. Unloading' = Unloading /\ admission' = admission
    BY <1>10 DEF Unloading, RequestMutation, registryVars
  <2>2. /\ mut'[w].pc = "lease" /\ mut'[w].kind = r.kind /\ mut'[w].want = r.want
        /\ mut'[w].waits = {} /\ \A u \in Writers : u # w => mut'[u] = mut[u]
    BY <1>10 DEF RequestMutation, NoMutation, TypeInv
  <2>3. r.kind = "remove" => \A m \in DOMAIN r.want : r.want[m] = None
    BY SMT DEF Wanted
  <2> QED BY SMT, <2>1, <2>2, <2>3 DEF CtlInv, MutCtl
<1> QED BY <1>1, <1>2, <1>3, <1>4, <1>5, <1>6, <1>7, <1>8, <1>9, <1>10, MutKeptSteps, OtherKeptSteps
        DEF Next, UnloadStep, MutationStep

(* A task awaiting an unload does not move. *)
Awaiting ==
  /\ \A n \in Models : load[n].pc \in {"evicting", "retry"} /\ load[n].waits # {} => load'[n] = load[n]
  /\ \A w \in Writers : mut[w].pc = "unloading" /\ mut[w].waits # {} => mut'[w] = mut[w]

(* A step that keeps what is awaited, and whose new unloads have their      *)
(* owners, keeps every unload owned.                                        *)
LEMMA OwnedFrame ==
  ASSUME TypeInv, UnloadCtl, Awaiting,
         \A v \in Models : unload'[v].phase # "no" =>
           \/ unload[v].phase # "no" /\ unload'[v].by = unload[v].by
           \/ Owned(v)'
  PROVE  UnloadCtl'
<1> SUFFICES ASSUME NEW v \in Models, unload[v].phase # "no", unload'[v].by = unload[v].by
             PROVE  Owned(v)'
  BY DEF UnloadCtl
<1> DEFINE by == unload[v].by
<1>1. by \in Tasks /\ Owned(v)
  BY DEF TypeInv, UnloadT, UnloadCtl
<1>2. CASE by.task = "load"
  <2>1. by.id \in Models
    BY <1>1, <1>2 DEF Tasks
  <2>2. load'[by.id] = load[by.id]
    BY <1>1, <1>2, <2>1 DEF Owned, Awaiting
  <2> QED BY <1>1, <1>2, <2>2 DEF Owned
<1>3. CASE by.task = "config"
  <2>1. by.id \in Writers
    BY <1>1, <1>3 DEF Tasks
  <2>2. mut'[by.id] = mut[by.id]
    BY <1>1, <1>3, <2>1 DEF Owned, Awaiting
  <2> QED BY <1>1, <1>3, <2>2 DEF Owned
<1> QED BY <1>2, <1>3 DEF Owned

(* A step of a load abandons nothing that is awaited: an evicting load does *)
(* not move before its victim is gone.                                      *)
LEMMA LoadsAwait ==
  ASSUME TypeInv, LoadCtl, NEW m \in Models, StartLoad(m) \/ LoadStep(m) \/ LoadFault(m)
  PROVE  Awaiting
<1>1. mut' = mut
  BY MutKeptSteps
<1>2. ASSUME NEW n \in Models, n # m PROVE load'[n] = load[n]
  <2>1. load \in [Models -> LoadT]
    BY DEF TypeInv
  <2>2. CASE LoadStep(m)
    <3>1. CASE LoadBegin(m) \/ LoadRemote(m) \/ Download(m) \/ AdmitLoad(m)
      BY <1>2, <2>1, <3>1 DEF LoadBegin, LoadRemote, Download, AdmitLoad, FailLoad, EndLoad
    <3>2. CASE CheckConfig(m) \/ MakeRoom(m) \/ LoopRoom(m) \/ Register(m) \/ EvictForOom(m)
      BY <1>2, <2>1, <3>2 DEF CheckConfig, MakeRoom, LoopRoom, Register, EvictForOom, FailLoad, EndLoad
    <3> QED BY <2>2, <3>1, <3>2 DEF LoadStep
  <2> QED BY <1>2, <2>1, <2>2 DEF LoadFault, StartLoad, StartLoads, DownloadFails, DeviceFails, DeviceOom,
         FailLoad, EndLoad
<1>3. load[m].pc \notin {"evicting", "retry"} \/ load[m].waits = {}
  <2>1. CASE LoadStep(m)
    <3>1. CASE LoadBegin(m) \/ LoadRemote(m) \/ Download(m) \/ AdmitLoad(m)
      BY <3>1 DEF LoadBegin, LoadRemote, Download, AdmitLoad
    <3>2. CASE CheckConfig(m) \/ MakeRoom(m) \/ LoopRoom(m) \/ Register(m) \/ EvictForOom(m)
      BY <3>2 DEF CheckConfig, MakeRoom, LoopRoom, Register, EvictForOom
    <3> QED BY <2>1, <3>1, <3>2 DEF LoadStep
  <2> QED BY <2>1 DEF LoadFault, StartLoad, DownloadFails, DeviceFails, DeviceOom
<1> QED BY <1>1, <1>2, <1>3 DEF Awaiting

(* Nor does a step of an evictor, of the pins or of an execution.           *)
LEMMA OthersAwait ==
  ASSUME TypeInv, CtlInv,
         \/ \E m \in Models : TearDown(m) \/ MonitorEvict(m) \/ ManualUnload(m) \/ ReapExited(m)
                              \/ Touch(m) \/ Age(m) \/ Cooldown(m) \/ \E e \in Models : OomEvict(e, m)
         \/ EagerLoadPinned \/ IdleSnapshot \/ IdleEvict
         \/ \E p \in PinSets : SetPinnedModels(p)
         \/ \E x \in Executions : \/ EnterExecution(x) \/ LeaveExecution(x)
                                  \/ \E m \in Models : RequestExecution(x, m)
         \/ UNCHANGED vars
  PROVE  Awaiting
<1>1. mut' = mut
  BY MutKeptSteps, OtherKeptSteps
<1>2. CASE EagerLoadPinned \/ \E p \in PinSets : SetPinnedModels(p)
  <2>1. PICK S : StartLoads(S) /\ \A n \in S : n \notin loading
    <3>1. \A p : \A n \in EagerSet(p) : n \notin loading
      BY DEF EagerSet, Startable
    <3> QED BY <1>2, <3>1 DEF EagerLoadPinned, SetPinnedModels
  <2>2. \A n \in Models : n \notin loading => load[n].pc = "idle"
    BY DEF CtlInv, LoadCtl
  <2> QED BY <1>1, <2>1, <2>2 DEF StartLoads, Awaiting
<1>3. CASE load' = load
  BY <1>1, <1>3 DEF Awaiting
<1> QED BY <1>2, <1>3 DEF TearDown, MonitorEvict, ManualUnload, ReapExited, Touch, Age, Cooldown, OomEvict,
         IdleSnapshot, IdleEvict, EnterExecution, LeaveExecution, RequestExecution, vars, taskVars

(* Nor does a step of a mutation.                                           *)
LEMMA MutsAwait ==
  ASSUME TypeInv, CtlInv, NEW w \in Writers,
         \/ MutationStep(w) \/ LeaseTimeout(w) \/ \E r \in Wanted : RequestMutation(w, r)
  PROVE  Awaiting
<1>1. load' = load
  BY DEF MutationStep, TakeLease, PlanMutation, AdmitMutation, CommitMutation, UnloadInvalidated,
         LeaseTimeout, RequestMutation
<1>2. ASSUME NEW u \in Writers, u # w PROVE mut'[u] = mut[u]
  <2>1. mut \in [Writers -> MutT]
    BY DEF TypeInv
  <2> QED BY <1>2, <2>1 DEF MutationStep, TakeLease, PlanMutation, AdmitMutation, CommitMutation,
         UnloadInvalidated, LeaseTimeout, RequestMutation, Install, EndMutation
<1>3. mut[w].pc # "unloading" \/ mut[w].waits = {}
  BY DEF MutationStep, TakeLease, PlanMutation, AdmitMutation, CommitMutation, UnloadInvalidated,
         LeaseTimeout, RequestMutation
<1> QED BY <1>1, <1>2, <1>3 DEF Awaiting

(* The end of one unload leaves every other unload with its owner.          *)
LEMMA WokenOwned ==
  ASSUME TypeInv, UnloadCtl, NEW m \in Models, unload' = [unload EXCEPT ![m] = NotUnloading],
         \A n \in Models : n # unload[m].by.id \/ unload[m].by.task # "load"
                           => load'[n] = WakeLoads(m, load)[n],
         \A w \in Writers : w # unload[m].by.id \/ unload[m].by.task # "config"
                            => mut'[w] = WakeMuts(m, mut)[w],
         \A v \in Models : v # m /\ unload[v].phase # "no" /\ unload[m].by.task \in {"load", "config"}
                           => unload[v].by # unload[m].by
  PROVE  UnloadCtl'
<1> SUFFICES ASSUME NEW v \in Models, v # m, unload[v].phase # "no"
             PROVE  Owned(v)'
  BY DEF UnloadCtl, NotUnloading, TypeInv
<1> DEFINE by == unload[v].by
<1>1. unload'[v] = unload[v] /\ by \in Tasks /\ unload[m].by \in Tasks /\ Owned(v)
  BY DEF TypeInv, UnloadT, UnloadCtl
<1>2. CASE by.task = "load"
  <2>1. by.id \in Models
    BY <1>1, <1>2 DEF Tasks
  <2>2. by.id # unload[m].by.id \/ unload[m].by.task # "load"
    BY <1>1, <1>2, TaskEquality
  <2>3. load'[by.id].pc = load[by.id].pc /\ load'[by.id].waits = load[by.id].waits \ {m}
    <3>1. load'[by.id] = WakeLoads(m, load)[by.id]
      BY <2>1, <2>2
    <3>2. /\ WakeLoads(m, load)[by.id].pc = load[by.id].pc
          /\ WakeLoads(m, load)[by.id].waits = load[by.id].waits \ {m}
      BY <2>1, WakeFacts
    <3> QED BY <3>1, <3>2
  <2> QED BY <1>1, <1>2, <2>3 DEF Owned
<1>3. CASE by.task = "config"
  <2>1. by.id \in Writers
    BY <1>1, <1>3 DEF Tasks
  <2>2. by.id # unload[m].by.id \/ unload[m].by.task # "config"
    BY <1>1, <1>3, TaskEquality
  <2>3. mut'[by.id].pc = mut[by.id].pc /\ mut'[by.id].waits = mut[by.id].waits \ {m}
    <3>1. mut'[by.id] = WakeMuts(m, mut)[by.id]
      BY <2>1, <2>2
    <3>2. /\ WakeMuts(m, mut)[by.id].pc = mut[by.id].pc
          /\ WakeMuts(m, mut)[by.id].waits = mut[by.id].waits \ {m}
      BY <2>1, WakeFacts
    <3> QED BY <3>1, <3>2
  <2> QED BY <1>1, <1>3, <2>3 DEF Owned
<1> QED BY <1>1, <1>2, <1>3 DEF Owned

(* A load or a mutation owns at most one unload at a time.                  *)
LEMMA OneVictim ==
  ASSUME TypeInv, CtlInv, NEW m \in Models, NEW v \in Models, unload[m].phase # "no", unload[v].phase # "no",
         unload[m].by.task \in {"load", "config"}, unload[v].by = unload[m].by
  PROVE  v = m
<1> DEFINE by == unload[m].by
<1>1. by \in Tasks /\ Owned(m) /\ Owned(v)
  BY DEF TypeInv, UnloadT, CtlInv, UnloadCtl
<1>2. CASE by.task = "load"
  <2>1. by.id \in Models
    BY <1>1, <1>2 DEF Tasks
  <2> QED BY <1>1, <1>2, <2>1 DEF Owned, CtlInv, LoadCtl
<1>3. CASE by.task = "config"
  <2>1. by.id \in Writers
    BY <1>1, <1>3 DEF Tasks
  <2> QED BY <1>1, <1>3, <2>1 DEF Owned, CtlInv, MutCtl
<1> QED BY <1>2, <1>3

(* A claim whose claimer awaits its victim keeps every unload owned.        *)
LEMMA EvictedOwned ==
  ASSUME TypeInv, CtlInv, Awaiting, NEW m \in Models, NEW t \in Tasks, unload' = Claim(m, t),
         unload[m].phase = "no" => Owned(m)'
  PROVE  UnloadCtl'
BY ClaimFacts, OwnedFrame DEF CtlInv

(* Every step keeps every unload owned.                                     *)
LEMMA UnloadCtlStep ==
  ASSUME TypeInv, CtlInv, [Next]_vars
  PROVE  UnloadCtl'
<1>1. CASE Awaiting /\ unload' = unload
  BY <1>1, OwnedFrame DEF CtlInv
<1>2. ASSUME NEW m \in Models, TearDown(m) PROVE UnloadCtl'
  <2>1. Awaiting
    BY <1>2, OthersAwait
  <2>2. \A v \in Models : unload'[v].by = unload[v].by /\ (unload[v].phase = "no" => unload'[v].phase = "no")
    BY <1>2 DEF TearDown, TypeInv, UnloadT
  <2> QED BY <2>1, <2>2, OwnedFrame DEF CtlInv
<1>3. ASSUME NEW m \in Models, NEW v \in tracked \ pinned, MakeRoom(m) \/ EvictForOom(m),
             unload' = Claim(v, LoadTask(m)),
             \E p \in {"evicting", "retry"} : load' = [load EXCEPT ![m].pc = p, ![m].waits = {v}]
      PROVE  UnloadCtl'
  <2>1. Awaiting /\ v \in Models /\ LoadTask(m) \in Tasks
    BY <1>3, LoadsAwait, Basics DEF CtlInv, LoadStep, TypeInv
  <2>2. load'[m].pc \in {"evicting", "retry"} /\ load'[m].waits = {v}
    BY SMT, <1>3 DEF TypeInv, LoadT
  <2>3. unload[v].phase = "no" => unload'[v].by = LoadTask(m)
    BY <1>3, <2>1, ClaimFacts
  <2>4. unload[v].phase = "no" => Owned(v)'
    BY SMT, <2>2, <2>3, TaskFacts DEF Owned
  <2> QED BY <1>3, <2>1, <2>4, EvictedOwned
<1>4. ASSUME NEW m \in Models, MakeRoom(m) PROVE UnloadCtl'
  BY <1>1, <1>3, <1>4, LoadsAwait DEF MakeRoom, LoadStep, CtlInv
<1>5. ASSUME NEW m \in Models, EvictForOom(m) PROVE UnloadCtl'
  BY <1>1, <1>3, <1>5, LoadsAwait DEF EvictForOom, LoadStep, CtlInv
<1>6. ASSUME NEW m \in Models, NEW t \in Tasks, t.task \notin {"load", "config"}, EvictBy(m, t), Awaiting
      PROVE  UnloadCtl'
  <2>1. unload[m].phase = "no" => unload'[m].by = t
    BY <1>6, ClaimFacts DEF EvictBy
  <2>2. unload[m].phase = "no" => Owned(m)'
    BY <1>6, <2>1 DEF Owned
  <2> QED BY <1>6, <2>2, EvictedOwned DEF EvictBy
<1>7. ASSUME NEW m \in Models, MonitorEvict(m) \/ ManualUnload(m) \/ ReapExited(m) \/ \E e \in Models : OomEvict(e, m)
      PROVE  UnloadCtl'
  <2>1. PICK t \in Tasks : t.task \notin {"load", "config"} /\ EvictBy(m, t)
    BY <1>7, Basics DEF MonitorEvict, ManualUnload, ReapExited, OomEvict, By
  <2> QED BY <1>6, <1>7, <2>1, OthersAwait
<1>8. ASSUME IdleEvict PROVE UnloadCtl'
  <2>1. CASE unload' = unload
    BY <1>1, <1>8, <2>1, OthersAwait
  <2>2. CASE \E m \in IdleVictims : EvictBy(m, By("idle", None))
    <3>1. By("idle", None) \in Tasks /\ By("idle", None).task = "idle" /\ IdleVictims \subseteq Models
      BY Basics DEF By, IdleVictims, TypeInv
    <3> QED BY <1>6, <1>8, <2>2, <3>1, OthersAwait
  <2> QED BY <1>8, <2>1, <2>2 DEF IdleEvict
<1>9. ASSUME NEW w \in Writers, NEW m \in Models, UnloadInvalidated(w, m) PROVE UnloadCtl'
  <2>1. Awaiting
    BY <1>9, MutsAwait DEF MutationStep
  <2>2. CASE unload' = unload
    BY <1>1, <2>1, <2>2
  <2>3. CASE unload' = Claim(m, MutTask(w)) /\ mut' = [mut EXCEPT ![w].todo = @ \ {m}, ![w].waits = {m}]
    <3>1. mut'[w].pc = "unloading" /\ mut'[w].waits = {m} /\ MutTask(w) \in Tasks
      BY <1>9, <2>3, Basics DEF UnloadInvalidated, TypeInv, MutT
    <3>2. unload[m].phase = "no" => unload'[m].by = MutTask(w)
      BY <2>3, <3>1, ClaimFacts
    <3>3. unload[m].phase = "no" => Owned(m)'
      BY <3>1, <3>2, TaskFacts DEF Owned
    <3> QED BY <2>1, <2>3, <3>1, <3>3, EvictedOwned
  <2> QED BY <1>9, <2>2, <2>3 DEF UnloadInvalidated
<1>10. ASSUME NEW m \in Models, UnloadDone(m) \/ UnloadCancelled(m) PROVE UnloadCtl'
  <2>1. unload[m].phase # "no"
    BY <1>10 DEF UnloadDone, UnloadCancelled
  <2>2. \A v \in Models : v # m /\ unload[v].phase # "no" /\ unload[m].by.task \in {"load", "config"}
                          => unload[v].by # unload[m].by
    BY <2>1, OneVictim
  <2>3. /\ load' = WakeLoads(m, load) /\ mut' = WakeMuts(m, mut)
        /\ unload' = [unload EXCEPT ![m] = NotUnloading]
    BY <1>10 DEF UnloadDone, UnloadCancelled
  <2> QED BY <2>2, <2>3, WokenOwned DEF CtlInv
<1>11. ASSUME NEW m \in Models, UnloadRaises(m) PROVE UnloadCtl'
  <2>1. unload[m].phase # "no"
    BY <1>11 DEF UnloadRaises
  <2>2. \A v \in Models : v # m /\ unload[v].phase # "no" /\ unload[m].by.task \in {"load", "config"}
                          => unload[v].by # unload[m].by
    BY <2>1, OneVictim
  <2>3. WakeLoads(m, load) \in [Models -> LoadT] /\ WakeMuts(m, mut) \in [Writers -> MutT]
    BY WakeTypes
  <2>4. \A n \in Models : n # unload[m].by.id \/ unload[m].by.task # "load"
                          => load'[n] = WakeLoads(m, load)[n]
    BY <1>11, <2>3 DEF UnloadRaises
  <2>5. \A w \in Writers : w # unload[m].by.id \/ unload[m].by.task # "config"
                           => mut'[w] = WakeMuts(m, mut)[w]
    BY <1>11, <2>3 DEF UnloadRaises
  <2>6. unload' = [unload EXCEPT ![m] = NotUnloading]
    BY <1>11 DEF UnloadRaises
  <2> QED BY <2>2, <2>4, <2>5, <2>6, WokenOwned DEF CtlInv
<1>12. ASSUME NEW m \in Models, StartLoad(m) \/ LoadStep(m) \/ LoadFault(m) PROVE UnloadCtl'
  <2>1. CASE unload' = unload
    BY <1>1, <1>12, <2>1, LoadsAwait DEF CtlInv
  <2>2. CASE LoadStep(m)
    BY <1>4, <1>5, <2>1, <2>2 DEF LoadStep, LoadBegin, LoadRemote, Download, AdmitLoad, CheckConfig, LoopRoom,
         Register, registryVars
  <2> QED BY <1>12, <2>1, <2>2 DEF StartLoad, LoadFault, DownloadFails, DeviceFails, DeviceOom, registryVars
<1>13. ASSUME NEW w \in Writers, MutationStep(w) \/ LeaseTimeout(w) \/ \E r \in Wanted : RequestMutation(w, r)
       PROVE  UnloadCtl'
  <2>1. CASE unload' = unload
    BY <1>1, <1>13, <2>1, MutsAwait
  <2> QED BY <1>9, <1>13, <2>1 DEF MutationStep, TakeLease, PlanMutation, AdmitMutation, CommitMutation,
         LeaseTimeout, RequestMutation, registryVars
<1>14. CASE \/ \E m \in Models : Touch(m) \/ Age(m) \/ Cooldown(m)
            \/ EagerLoadPinned \/ IdleSnapshot \/ \E p \in PinSets : SetPinnedModels(p)
            \/ \E x \in Executions : \/ EnterExecution(x) \/ LeaveExecution(x)
                                     \/ \E m \in Models : RequestExecution(x, m)
            \/ UNCHANGED vars
  <2>1. unload' = unload
    BY <1>14 DEF Touch, Age, Cooldown, EagerLoadPinned, IdleSnapshot, SetPinnedModels, EnterExecution,
         LeaveExecution, RequestExecution, vars, registryVars
  <2> QED BY <1>1, <1>14, <2>1, OthersAwait
<1> QED BY <1>2, <1>7, <1>8, <1>10, <1>11, <1>12, <1>13, <1>14 DEF Next, UnloadStep



(* Claiming a loaded model for unload keeps the accounting exact.           *)
LEMMA GhostClaims ==
  ASSUME TypeInv, GhostInv, NEW m \in Models, NEW t \in Tasks, unload' = Claim(m, t),
         m \in tracked \/ loaded[m] # None, UNCHANGED <<loaded, tracked>>
  PROVE  GhostInv'
<1>1. unload[m].phase = "no" => loaded[m] # None
  BY DEF GhostInv, NoGhost
<1>2. /\ unload[m].phase = "no" => unload'[m].phase = "drain"
      /\ unload[m].phase # "no" => unload'[m] = unload[m]
      /\ \A v \in Models : v # m => unload'[v] = unload[v]
  BY ClaimFacts
<1>3. \A v \in Models : unload'[v].phase = unload[v].phase
                        \/ (unload[v].phase = "no" /\ unload'[v].phase = "drain" /\ loaded[v] # None)
  BY <1>1, <1>2
<1> QED BY <1>3 DEF GhostInv, NoGhost

(* A step that changes neither the adapters nor their accounting keeps it   *)
(* exact.                                                                   *)
LEMMA GhostFrame ==
  ASSUME GhostInv, UNCHANGED <<loaded, unload, tracked>>
  PROVE  GhostInv'
BY DEF GhostInv, NoGhost

(* A step of a load keeps the accounting exact: it registers adapter and    *)
(* memory in one step, and only claims models that are accounted.           *)
LEMMA GhostLoads ==
  ASSUME TypeInv, CtlInv, GhostInv, NEW m \in Models, StartLoad(m) \/ LoadStep(m) \/ LoadFault(m)
  PROVE  GhostInv'
<1>1. CASE UNCHANGED <<loaded, unload, tracked>>
  BY <1>1, GhostFrame
<1>2. ASSUME Register(m) PROVE GhostInv'
  <2>1. load[m].cfg # None /\ m \notin RemoteModels
    BY <1>2 DEF Register, CtlInv, LoadCtl, Admitted
  <2>2. /\ unload[m].phase # "tear" /\ loaded'[m] # None
        /\ \A n \in Models : n # m => loaded'[n] = loaded[n]
        /\ tracked' = tracked \cup {m} /\ unload' = unload
    BY <1>2, <2>1 DEF Register, LoadLockFree, TypeInv
  <2> QED BY <2>1, <2>2 DEF GhostInv, NoGhost
<1>3. ASSUME LoadRemote(m) PROVE GhostInv'
  <2>1. load[m].cfg # None /\ m \in RemoteModels
    BY <1>3 DEF LoadRemote, CtlInv, LoadCtl, Admitted
  <2>2. /\ unload[m].phase # "tear"
        /\ loaded'[m] # None \/ loaded' = loaded
        /\ \A n \in Models : n # m => loaded'[n] = loaded[n]
        /\ tracked' = tracked /\ unload' = unload
    BY <1>3, <2>1 DEF LoadRemote, LoadLockFree, TypeInv
  <2> QED BY <2>1, <2>2 DEF GhostInv, NoGhost
<1>4. ASSUME NEW v \in tracked \ pinned, unload' = Claim(v, LoadTask(m)), UNCHANGED <<loaded, tracked>>
      PROVE  GhostInv'
  BY <1>4, GhostClaims, Basics DEF TypeInv
<1>5. CASE MakeRoom(m)
  BY <1>1, <1>4, <1>5 DEF MakeRoom
<1>6. CASE EvictForOom(m)
  BY <1>1, <1>4, <1>6 DEF EvictForOom
<1>7. CASE LoadStep(m)
  <2>1. CASE LoadBegin(m) \/ Download(m) \/ AdmitLoad(m) \/ CheckConfig(m) \/ LoopRoom(m)
    BY <1>1, <2>1 DEF LoadBegin, Download, AdmitLoad, CheckConfig, LoopRoom, registryVars
  <2> QED BY <1>2, <1>3, <1>5, <1>6, <1>7, <2>1 DEF LoadStep
<1> QED BY <1>1, <1>7 DEF StartLoad, LoadFault, DownloadFails, DeviceFails, DeviceOom, registryVars

(* A step of an unload keeps the accounting exact: teardown drops adapter   *)
(* and memory, and an unload that raises or is cancelled leaves both or     *)
(* none.                                                                    *)
LEMMA GhostUnloads ==
  ASSUME TypeInv, GhostInv, NEW m \in Models, UnloadStep(m) \/ UnloadRaises(m) \/ UnloadCancelled(m)
  PROVE  GhostInv'
<1>1. CASE TearDown(m)
  <2>1. /\ unload[m].phase = "drain" /\ unload'[m].phase = "tear" /\ loaded'[m] = None
        /\ \A n \in Models : n # m => loaded'[n] = loaded[n] /\ unload'[n] = unload[n]
        /\ tracked' = tracked
    BY <1>1 DEF TearDown, TypeInv, UnloadT
  <2> QED BY <2>1 DEF GhostInv, NoGhost
<1>2. CASE UnloadDone(m) \/ UnloadRaises(m)
  <2>1. /\ unload[m].phase = "tear" /\ unload'[m].phase = "no" /\ loaded' = loaded
        /\ \A n \in Models : n # m => unload'[n] = unload[n]
        /\ tracked' = tracked \ {m}
    <3>1. /\ unload[m].phase = "tear" /\ loaded' = loaded /\ tracked' = tracked \ {m}
          /\ unload' = [unload EXCEPT ![m] = NotUnloading]
      BY <1>2 DEF UnloadDone, UnloadRaises
    <3>2. unload \in [Models -> UnloadT]
      BY DEF TypeInv
    <3> QED BY <3>1, <3>2 DEF NotUnloading
  <2> QED BY <2>1 DEF GhostInv, NoGhost
<1>3. CASE UnloadCancelled(m)
  <2>1. /\ unload[m].phase = "drain" /\ unload'[m].phase = "no" /\ loaded' = loaded
        /\ \A n \in Models : n # m => unload'[n] = unload[n]
        /\ tracked' = tracked
    BY <1>3 DEF UnloadCancelled, TypeInv, NotUnloading
  <2> QED BY <2>1 DEF GhostInv, NoGhost
<1> QED BY <1>1, <1>2, <1>3 DEF UnloadStep

(* Every step keeps the accounting exact.                                   *)
LEMMA GhostStep ==
  ASSUME TypeInv, CtlInv, GhostInv, [Next]_vars
  PROVE  GhostInv'
<1>1. CASE UNCHANGED <<loaded, unload, tracked>>
  BY <1>1, GhostFrame
<1>2. ASSUME NEW m \in Models,
             MonitorEvict(m) \/ ManualUnload(m) \/ ReapExited(m) \/ \E e \in Models : OomEvict(e, m)
      PROVE  GhostInv'
  <2>1. PICK t \in Tasks : unload' = Claim(m, t)
    BY <1>2, Basics DEF MonitorEvict, ManualUnload, ReapExited, OomEvict, EvictBy
  <2>2. (m \in tracked \/ loaded[m] # None) /\ UNCHANGED <<loaded, tracked>>
    BY <1>2 DEF MonitorEvict, ManualUnload, ReapExited, OomEvict
  <2> QED BY <2>1, <2>2, GhostClaims
<1>3. CASE IdleEvict
  <2>1. ASSUME NEW m \in IdleVictims, EvictBy(m, By("idle", None)) PROVE GhostInv'
    <3>1. m \in Models /\ loaded[m] # None /\ By("idle", None) \in Tasks
      BY Basics DEF IdleVictims, TypeInv
    <3> QED BY <1>3, <2>1, <3>1, GhostClaims DEF EvictBy, IdleEvict
  <2> QED BY <1>1, <1>3, <2>1 DEF IdleEvict
<1>4. ASSUME NEW w \in Writers, NEW m \in Models, UnloadInvalidated(w, m) PROVE GhostInv'
  BY <1>1, <1>4, GhostClaims, Basics DEF UnloadInvalidated
<1>5. ASSUME NEW w \in Writers, MutationStep(w) \/ LeaseTimeout(w) \/ \E r \in Wanted : RequestMutation(w, r)
      PROVE  GhostInv'
  BY <1>1, <1>4, <1>5 DEF MutationStep, TakeLease, PlanMutation, AdmitMutation, CommitMutation,
         LeaseTimeout, RequestMutation, registryVars
<1>6. CASE \/ \E m \in Models : Touch(m) \/ Age(m) \/ Cooldown(m)
           \/ EagerLoadPinned \/ IdleSnapshot \/ \E p \in PinSets : SetPinnedModels(p)
           \/ \E x \in Executions : \/ EnterExecution(x) \/ LeaveExecution(x)
                                    \/ \E m \in Models : RequestExecution(x, m)
           \/ UNCHANGED vars
  BY <1>1, <1>6 DEF Touch, Age, Cooldown, EagerLoadPinned, IdleSnapshot, SetPinnedModels, EnterExecution,
         LeaveExecution, RequestExecution, vars, registryVars
<1> QED BY <1>2, <1>3, <1>5, <1>6, GhostLoads, GhostUnloads DEF Next

(* Every step keeps an execution's lease on its config: a writer starts     *)
(* when no reader is in, a reader enters when no writer is.                 *)
LEMMA LeaseStep ==
  ASSUME TypeInv, LeaseInv, [Next]_vars
  PROVE  LeaseInv'
<1>1. ASSUME UNCHANGED <<configs, lease>>,
             \A w \in Writers : mut'[w].pc = "plan" \/ mut'[w].pc \in {mut[w].pc, "idle", "lease"},
             \A w \in Writers : mut'[w].pc = "plan" => mut[w].pc = "plan" \/ ~ReaderActive
      PROVE  LeaseInv'
  <2>1. ReaderActive' = ReaderActive
    BY <1>1 DEF ReaderActive
  <2>2. WriterActive' => WriterActive \/ ~ReaderActive
    BY <1>1 DEF WriterActive
  <2> QED BY <1>1, <2>1, <2>2 DEF LeaseInv, LeasePinsConfig
<1>2. CASE UNCHANGED <<configs, lease, mut>>
  <2>1. ReaderActive' = ReaderActive /\ WriterActive' = WriterActive
    BY <1>2 DEF ReaderActive, WriterActive
  <2> QED BY <1>2, <2>1 DEF LeaseInv, LeasePinsConfig
<1>3. ASSUME NEW x \in Executions, EnterExecution(x) PROVE LeaseInv'
  <2>1. lease[x] \in [pc: {"wait", "in"}, model: Models, cfg: Config]
    BY SMT, <1>3 DEF EnterExecution, TypeInv, LeaseT, NoLease
  <2>2. /\ lease'[x].cfg = configs[lease'[x].model]
        /\ \A y \in Executions : y # x => lease'[y] = lease[y]
    BY <1>3, <2>1 DEF EnterExecution, TypeInv
  <2>3. ~WriterActive'
    BY <1>3 DEF EnterExecution, WriterActive
  <2>4. configs' = configs
    BY <1>3 DEF EnterExecution, registryVars
  <2> QED BY <2>2, <2>3, <2>4 DEF LeaseInv, LeasePinsConfig
<1>4. ASSUME NEW x \in Executions, LeaveExecution(x) \/ (\E m \in Models : RequestExecution(x, m))
      PROVE  LeaseInv'
  <2>1. lease'[x].pc # "in" /\ \A y \in Executions : y # x => lease'[y] = lease[y]
    <3>1. lease \in [Executions -> LeaseT]
      BY DEF TypeInv
    <3>2. CASE LeaveExecution(x)
      BY <3>1, <3>2 DEF LeaveExecution, NoLease
    <3>3. ASSUME NEW m \in Models, RequestExecution(x, m)
          PROVE  lease'[x].pc # "in" /\ \A y \in Executions : y # x => lease'[y] = lease[y]
      BY <3>1, <3>3 DEF RequestExecution
    <3> QED BY <1>4, <3>2, <3>3
  <2>2. UNCHANGED <<configs, mut>>
    BY <1>4 DEF LeaveExecution, RequestExecution, registryVars
  <2>3. ReaderActive' => ReaderActive
    BY <2>1 DEF ReaderActive
  <2>4. WriterActive' = WriterActive
    BY <2>2 DEF WriterActive
  <2> QED BY <2>1, <2>2, <2>3, <2>4 DEF LeaseInv, LeasePinsConfig
<1>5. ASSUME NEW m \in Models, UnloadDone(m) \/ UnloadCancelled(m) \/ UnloadRaises(m)
      PROVE  LeaseInv'
  <2>1. UNCHANGED <<configs, lease>>
    BY <1>5 DEF UnloadDone, UnloadCancelled, UnloadRaises
  <2>2. WakeMuts(m, mut) \in [Writers -> MutT] /\ \A w \in Writers : WakeMuts(m, mut)[w].pc = mut[w].pc
    BY WakeTypes, WakeFacts
  <2>3. \A w \in Writers : mut'[w] = WakeMuts(m, mut)[w] \/ mut'[w] = NoMutation
    BY <1>5, <2>2 DEF UnloadDone, UnloadCancelled, UnloadRaises
  <2>4. \A w \in Writers : mut'[w].pc \in {mut[w].pc, "idle"}
    <3>1. NoMutation.pc = "idle"
      BY DEF NoMutation
    <3> QED BY <2>2, <2>3, <3>1
  <2> QED BY <1>1, <2>1, <2>4
<1>6. ASSUME NEW w \in Writers, MutationStep(w), mut[w].pc # "lease" PROVE LeaseInv'
  <2>1. WriterActive /\ UNCHANGED lease
    BY <1>6 DEF MutationStep, WriterActive, TakeLease, PlanMutation, AdmitMutation, CommitMutation,
         UnloadInvalidated
  <2>2. ~ReaderActive'
    BY <2>1 DEF LeaseInv, ReaderActive
  <2> QED BY <2>2 DEF LeaseInv, LeasePinsConfig, ReaderActive
<1>7. ASSUME NEW w \in Writers, TakeLease(w) PROVE LeaseInv'
  BY <1>1, <1>7 DEF TakeLease, TypeInv, MutT, registryVars
<1>8. ASSUME NEW w \in Writers, LeaseTimeout(w) \/ (\E r \in Wanted : RequestMutation(w, r)) PROVE LeaseInv'
  <2>1. UNCHANGED <<configs, lease>> /\ \A u \in Writers : u # w => mut'[u] = mut[u]
    BY <1>8 DEF LeaseTimeout, RequestMutation, TypeInv, registryVars
  <2>2. mut'[w].pc \in {"idle", "lease"}
    <3>1. CASE LeaseTimeout(w)
      BY <3>1 DEF LeaseTimeout, TypeInv, NoMutation
    <3>2. ASSUME NEW r \in Wanted, RequestMutation(w, r) PROVE mut'[w].pc = "lease"
      BY <3>2 DEF RequestMutation, TypeInv, NoMutation
    <3> QED BY <1>8, <3>1, <3>2
  <2> QED BY <1>1, <2>1, <2>2
<1>9. ASSUME NEW w \in Writers, MutationStep(w) PROVE LeaseInv'
  BY <1>6, <1>7, <1>9 DEF MutationStep, PlanMutation, AdmitMutation, CommitMutation, UnloadInvalidated
<1>10. ASSUME NEW m \in Models,
              \/ StartLoad(m) \/ LoadStep(m) \/ LoadFault(m) \/ TearDown(m)
              \/ MonitorEvict(m) \/ ManualUnload(m) \/ ReapExited(m)
              \/ Touch(m) \/ Age(m) \/ Cooldown(m)
              \/ \E e \in Models : OomEvict(e, m)
       PROVE  LeaseInv'
  <2>1. UNCHANGED <<configs, lease>>
    BY <1>10 DEF LoadStep, LoadFault, StartLoad, LoadBegin, LoadRemote, Download, AdmitLoad, CheckConfig,
         MakeRoom, LoopRoom, Register, EvictForOom, DownloadFails, DeviceFails, DeviceOom, TearDown,
         MonitorEvict, ManualUnload, ReapExited, Touch, Age, Cooldown, OomEvict, taskVars, registryVars
  <2> QED BY <1>2, <1>10, <2>1, MutKeptSteps
<1>11. CASE EagerLoadPinned \/ IdleSnapshot \/ IdleEvict
            \/ (\E p \in PinSets : SetPinnedModels(p)) \/ UNCHANGED vars
  BY <1>2, <1>11 DEF EagerLoadPinned, IdleSnapshot, IdleEvict, SetPinnedModels, vars, registryVars, taskVars
<1> QED BY <1>3, <1>4, <1>5, <1>8, <1>9, <1>10, <1>11 DEF Next, UnloadStep

(* What a step may do to the configs while the invariants hold. *)
LEMMA ConfigSteps ==
  ASSUME TypeInv, CtlInv, [Next]_vars, configs' # configs
  PROVE  \E w \in Writers :
           \/ PlanMutation(w) /\ Install(w) /\ mut[w].kind = "apply" /\ Invalidated(w) = {}
           \/ CommitMutation(w)
           \/ \E m \in Models : UnloadInvalidated(w, m)
<1>1. ASSUME NEW m \in Models,
             \/ StartLoad(m) \/ LoadStep(m) \/ LoadFault(m)
             \/ UnloadStep(m) \/ UnloadRaises(m) \/ UnloadCancelled(m)
             \/ MonitorEvict(m) \/ ManualUnload(m) \/ ReapExited(m)
             \/ Touch(m) \/ Age(m) \/ Cooldown(m)
             \/ \E e \in Models : OomEvict(e, m)
      PROVE  configs' = configs
  BY <1>1 DEF LoadStep, LoadFault, StartLoad, LoadBegin, LoadRemote, Download, AdmitLoad, CheckConfig,
         MakeRoom, LoopRoom, Register, EvictForOom, DownloadFails, DeviceFails, DeviceOom, UnloadStep,
         TearDown, UnloadDone, UnloadRaises, UnloadCancelled,
         MonitorEvict, ManualUnload, ReapExited, Touch, Age, Cooldown, OomEvict, taskVars, registryVars
<1>2. ASSUME \/ EagerLoadPinned \/ IdleSnapshot \/ IdleEvict
             \/ \E p \in PinSets : SetPinnedModels(p)
             \/ \E x \in Executions : \/ EnterExecution(x) \/ LeaveExecution(x)
                                      \/ \E m \in Models : RequestExecution(x, m)
             \/ UNCHANGED vars
      PROVE  configs' = configs
  BY <1>2 DEF EagerLoadPinned, IdleSnapshot, IdleEvict, SetPinnedModels, EnterExecution, LeaveExecution,
         RequestExecution, vars, registryVars
<1>3. PICK w \in Writers : MutationStep(w) \/ LeaseTimeout(w) \/ \E r \in Wanted : RequestMutation(w, r)
  BY <1>1, <1>2 DEF Next
<1> QED BY <1>3 DEF MutationStep, TakeLease, PlanMutation, AdmitMutation, LeaseTimeout, RequestMutation,
         registryVars

(* While a load is past its re-check no step changes the config it loads:   *)
(* the mutation would need the admission lock.                              *)
LEMMA KeptFrame ==
  ASSUME TypeInv, CtlInv, KeepInv, [Next]_vars, NEW n \in Models, load[n].pc \in Kept
  PROVE  configs'[n] = configs[n]
<1>1. SUFFICES ASSUME configs' # configs PROVE configs'[n] = configs[n]
  OBVIOUS
<1>2. load[n].pc \in Admitted /\ admission = LoadTask(n) /\ load[n].cfg # None
  BY DEF Kept, CtlInv, LoadCtl, Admitted
<1>3. PICK w \in Writers :
        \/ PlanMutation(w) /\ Install(w) /\ mut[w].kind = "apply" /\ Invalidated(w) = {}
        \/ CommitMutation(w)
        \/ \E m \in Models : UnloadInvalidated(w, m)
  BY <1>1, ConfigSteps
<1>4. mut[w].pc # "unloading"
  BY <1>2, TaskFacts DEF CtlInv, MutCtl
<1>5. Install(w) /\ mut[w].kind = "apply" /\ Invalidated(w) = {}
  BY <1>3, <1>4 DEF CommitMutation, UnloadInvalidated
<1>6. n \in DOMAIN mut[w].want => mut[w].want[n] = configs[n]
  BY <1>2, <1>5 DEF Invalidated, KeepInv
<1> QED BY <1>5, <1>6 DEF Install, Target

(* Every step keeps admitted loads on the served config.                    *)
LEMMA KeepStep ==
  ASSUME TypeInv, CtlInv, KeepInv, [Next]_vars
  PROVE  KeepInv'
<1> SUFFICES ASSUME NEW n \in Models, load'[n].pc \in Kept
             PROVE  configs'[n] = load'[n].cfg
  BY DEF KeepInv
<1>1. \/ load'[n].cfg = load[n].cfg /\ load[n].pc \in Kept
      \/ configs' = configs /\ load'[n].cfg = configs[n]
  <2>1. CASE load' = load
    BY <2>1
  <2>2. ASSUME NEW m \in Models, StartLoad(m) \/ LoadStep(m) \/ LoadFault(m)
        PROVE  \/ load'[n].cfg = load[n].cfg /\ load[n].pc \in Kept
               \/ configs' = configs /\ load'[n].cfg = configs[n]
    <3>1. load \in [Models -> LoadT]
      BY DEF TypeInv
    <3>2. CASE n # m
      <4>1. load'[n] = load[n]
        BY <2>2, <3>1, <3>2 DEF LoadStep, LoadFault, StartLoad, StartLoads, LoadBegin, LoadRemote, Download,
         AdmitLoad, CheckConfig, MakeRoom, LoopRoom, Register, EvictForOom, DownloadFails, DeviceFails,
         DeviceOom, FailLoad, EndLoad
      <4> QED BY <4>1
    <3>3. CASE n = m
      <4>1. ~StartLoad(m)
        BY <3>1, <3>3 DEF StartLoad, StartLoads, NoLoad, Kept, Admitted
      <4>2. ~LoadBegin(m)
        <5>1. ASSUME LoadBegin(m) PROVE load'[n].pc \in {"start", "idle", "remote", "download"}
          <6>1. \/ load'[n] = [load[n] EXCEPT !.waits = {m}] /\ load[n].pc = "start"
                \/ load'[n] = NoLoad
                \/ \E p \in {"remote", "download"} : load'[n] = [NoLoad EXCEPT !.pc = p, !.cfg = configs[m]]
            BY <3>1, <3>3, <5>1 DEF LoadBegin, FailLoad, EndLoad
          <6>2. load[n] \in LoadT
            BY <3>1
          <6>3. [load[n] EXCEPT !.waits = {m}].pc = load[n].pc
            BY <6>2 DEF LoadT
          <6>4. ASSUME NEW p \in {"remote", "download"}, load'[n] = [NoLoad EXCEPT !.pc = p, !.cfg = configs[m]]
                PROVE  load'[n].pc = p
            BY <6>4 DEF NoLoad
          <6>5. NoLoad.pc = "idle"
            BY DEF NoLoad
          <6> QED BY <6>1, <6>3, <6>4, <6>5
        <5> QED BY <5>1 DEF Kept, Admitted
      <4>3. ~EndLoad(m)
        BY SMT, <3>1, <3>3 DEF EndLoad, NoLoad, Kept, Admitted
      <4>4. ~Download(m) /\ ~AdmitLoad(m)
        BY SMT, <3>1, <3>3 DEF Download, AdmitLoad, LoadT, Kept, Admitted
      <4>5. ASSUME CheckConfig(m) PROVE configs' = configs /\ load'[n].cfg = configs[n]
        BY SMT, <3>1, <3>3, <4>3, <4>5 DEF CheckConfig, LoadT
      <4>6. ASSUME MakeRoom(m) \/ LoopRoom(m) \/ DeviceOom(m) \/ EvictForOom(m)
            PROVE  load'[n].cfg = load[n].cfg /\ load[n].pc \in Kept
        BY SMT, <3>1, <3>3, <4>3, <4>6 DEF MakeRoom, LoopRoom, DeviceOom, EvictForOom, FailLoad, LoadT, Kept, Admitted
      <4> QED BY <2>2, <3>3, <4>1, <4>2, <4>3, <4>4, <4>5, <4>6 DEF LoadStep, LoadFault, LoadRemote, Register,
                 DownloadFails, DeviceFails, FailLoad
    <3> QED BY <3>2, <3>3
  <2>3. ASSUME NEW m \in Models, UnloadDone(m) \/ UnloadCancelled(m) \/ UnloadRaises(m)
        PROVE  \/ load'[n].cfg = load[n].cfg /\ load[n].pc \in Kept
               \/ configs' = configs /\ load'[n].cfg = configs[n]
    <3>1. WakeLoads(m, load) \in [Models -> LoadT] /\ WakeLoads(m, load)[n].pc = load[n].pc
          /\ WakeLoads(m, load)[n].cfg = load[n].cfg
      BY WakeTypes, WakeFacts
    <3>2. load'[n] = WakeLoads(m, load)[n] \/ load'[n] = NoLoad
      BY <2>3, <3>1 DEF UnloadDone, UnloadCancelled, UnloadRaises
    <3>3. NoLoad.pc \notin Kept
      BY DEF NoLoad, Kept, Admitted
    <3> QED BY <3>1, <3>2, <3>3
  <2>4. ASSUME NEW S, StartLoads(S) PROVE load'[n] = load[n]
    BY <2>4 DEF StartLoads, NoLoad, Kept, Admitted
  <2>5. CASE EagerLoadPinned \/ \E p \in PinSets : SetPinnedModels(p)
    BY <2>4, <2>5 DEF EagerLoadPinned, SetPinnedModels
  <2>6. ASSUME NEW w \in Writers, MutationStep(w) \/ LeaseTimeout(w) \/ \E r \in Wanted : RequestMutation(w, r)
        PROVE  load' = load
    BY <2>6 DEF MutationStep, TakeLease, PlanMutation, AdmitMutation, CommitMutation,
         UnloadInvalidated, LeaseTimeout, RequestMutation, taskVars
  <2>7. ASSUME NEW m \in Models, \/ TearDown(m) \/ MonitorEvict(m) \/ ManualUnload(m) \/ ReapExited(m)
                                 \/ Touch(m) \/ Age(m) \/ Cooldown(m) \/ \E e \in Models : OomEvict(e, m)
        PROVE  load' = load
    BY <2>7 DEF TearDown, MonitorEvict, ManualUnload, ReapExited, Touch, Age, Cooldown, OomEvict, taskVars
  <2>8. CASE load' = load
    BY <2>1, <2>8
  <2> QED BY <2>2, <2>3, <2>5, <2>6, <2>7, <2>8 DEF Next, UnloadStep, IdleSnapshot, IdleEvict,
         EnterExecution, LeaveExecution, RequestExecution, vars, taskVars
<1> QED BY SMT, <1>1, KeptFrame DEF KeepInv

(* A model a mutation names and does not invalidate keeps its config or had *)
(* none.                                                                    *)
LEMMA InvalidatedOrSame ==
  ASSUME TypeInv, NEW w \in Writers, NEW m \in DOMAIN mut[w].want
  PROVE  /\ m \in Models /\ mut[w].want[m] \in Config
         /\ m \notin Invalidated(w) =>
              mut[w].want[m] = configs[m] \/ (mut[w].kind # "replace" /\ configs[m] = None)
<1>1. mut[w].want \in Wants
  BY DEF TypeInv, MutT
<1>2. PICK S \in SUBSET Models : mut[w].want \in [S -> Config]
  BY <1>1 DEF Wants
<1> QED BY <1>2 DEF Invalidated

(* What makes LoadedFromCurrentConfig inductive.                            *)
ServedInv == LoadedFromCurrentConfig /\ UnloadInv

(* No step changes the config of a model that is loaded.                    *)
LEMMA ServedConfigs ==
  ASSUME TypeInv, CtlInv, ServedInv, [Next]_vars, NEW n \in Models, loaded[n] # None
  PROVE  configs'[n] = configs[n]
<1>1. SUFFICES ASSUME configs' # configs PROVE configs'[n] = configs[n]
  OBVIOUS
<1>2. PICK w \in Writers :
        \/ PlanMutation(w) /\ Install(w) /\ mut[w].kind = "apply" /\ Invalidated(w) = {}
        \/ CommitMutation(w)
        \/ \E m \in Models : UnloadInvalidated(w, m)
  BY <1>1, ConfigSteps
<1>3. configs[n] # None
  BY DEF ServedInv, LoadedFromCurrentConfig
<1>4. CASE Install(w) /\ mut[w].kind = "apply" /\ Invalidated(w) = {}
  <2>1. n \in DOMAIN mut[w].want => mut[w].want[n] = configs[n]
    BY <1>3, <1>4, InvalidatedOrSame
  <2> QED BY <1>4, <2>1 DEF Install, Target
<1>5. CASE CommitMutation(w)
  <2>1. n \in DOMAIN mut[w].want => mut[w].want[n] = configs[n]
    BY <1>5 DEF CommitMutation, ServedInv, UnloadInv
  <2> QED BY <1>5, <2>1 DEF CommitMutation, Install, Target
<1>6. ASSUME NEW m \in Models, UnloadInvalidated(w, m) PROVE configs'[n] = configs[n]
  <2>1. n \notin Dropped(w)
    <3>1. SUFFICES ASSUME n \in Dropped(w) PROVE FALSE
      OBVIOUS
    <3>2. mut[w].kind = "remove" /\ n \in DOMAIN mut[w].want /\ n \notin mut[w].todo
      BY <3>1 DEF Dropped
    <3>3. mut[w].want[n] = None /\ mut[w].want[n] = configs[n]
      BY <1>6, <3>2 DEF UnloadInvalidated, ServedInv, UnloadInv, CtlInv, MutCtl
    <3> QED BY <1>3, <3>3
  <2> QED BY <1>6, <2>1 DEF UnloadInvalidated
<1> QED BY <1>2, <1>4, <1>5, <1>6

(* An adapter enters service only with the config the registry serves, and  *)
(* not while a mutation unloads.                                            *)
LEMMA LoadedSteps ==
  ASSUME TypeInv, CtlInv, KeepInv, [Next]_vars, NEW n \in Models, loaded'[n] # None
  PROVE  \/ loaded'[n] = loaded[n]
         \/ configs' = configs /\ loaded'[n] = configs[n] /\ mut' = mut
            /\ \A w \in Writers : mut[w].pc # "unloading"
<1>1. CASE loaded' = loaded
  BY <1>1
<1>2. ASSUME NEW m \in Models, TearDown(m) PROVE loaded'[n] = loaded[n]
  BY <1>2 DEF TearDown, TypeInv
<1>3. ASSUME NEW m \in Models, LoadRemote(m)
      PROVE  \/ loaded'[n] = loaded[n]
             \/ configs' = configs /\ loaded'[n] = configs[n] /\ mut' = mut
                /\ \A w \in Writers : mut[w].pc # "unloading"
  BY <1>3 DEF LoadRemote, TypeInv, UpdateLockFree, WriterActive
<1>4. ASSUME NEW m \in Models, Register(m)
      PROVE  \/ loaded'[n] = loaded[n]
             \/ configs' = configs /\ loaded'[n] = configs[n] /\ mut' = mut
                /\ \A w \in Writers : mut[w].pc # "unloading"
  <2>1. load[m].pc \in Kept /\ load[m].pc \in Admitted
    BY <1>4 DEF Register, Kept, Admitted
  <2>2. configs[m] = load[m].cfg /\ admission = LoadTask(m)
    BY <2>1 DEF KeepInv, CtlInv, LoadCtl
  <2>3. \A w \in Writers : mut[w].pc # "unloading"
    BY <2>2, TaskFacts DEF CtlInv, MutCtl
  <2> QED BY <1>4, <2>2, <2>3 DEF Register, TypeInv
<1>5. ASSUME NEW m \in Models,
             \/ StartLoad(m) \/ LoadStep(m) \/ LoadFault(m)
             \/ UnloadStep(m) \/ UnloadRaises(m) \/ UnloadCancelled(m)
             \/ MonitorEvict(m) \/ ManualUnload(m) \/ ReapExited(m)
             \/ Touch(m) \/ Age(m) \/ Cooldown(m)
             \/ \E e \in Models : OomEvict(e, m)
      PROVE  loaded' = loaded \/ TearDown(m) \/ LoadRemote(m) \/ Register(m)
  BY <1>5 DEF LoadStep, LoadFault, StartLoad, LoadBegin, Download, AdmitLoad, CheckConfig, MakeRoom,
         LoopRoom, EvictForOom, DownloadFails, DeviceFails, DeviceOom, UnloadStep,
         UnloadDone, UnloadRaises, UnloadCancelled, MonitorEvict, ManualUnload, ReapExited,
         Touch, Age, Cooldown, OomEvict, registryVars
<1>6. ASSUME NEW w \in Writers, MutationStep(w) \/ LeaseTimeout(w) \/ \E r \in Wanted : RequestMutation(w, r)
      PROVE  loaded' = loaded
  BY <1>6 DEF MutationStep, TakeLease, PlanMutation, AdmitMutation, CommitMutation, UnloadInvalidated,
         LeaseTimeout, RequestMutation, registryVars
<1>7. ASSUME \/ EagerLoadPinned \/ IdleSnapshot \/ IdleEvict
             \/ \E p \in PinSets : SetPinnedModels(p)
             \/ \E x \in Executions : \/ EnterExecution(x) \/ LeaveExecution(x)
                                      \/ \E m \in Models : RequestExecution(x, m)
             \/ UNCHANGED vars
      PROVE  loaded' = loaded
  BY <1>7 DEF EagerLoadPinned, IdleSnapshot, IdleEvict, SetPinnedModels, EnterExecution, LeaveExecution,
         RequestExecution, vars, registryVars
<1>8. loaded' = loaded \/ \E m \in Models : TearDown(m) \/ LoadRemote(m) \/ Register(m)
  BY <1>5, <1>6, <1>7 DEF Next
<1> QED BY <1>1, <1>2, <1>3, <1>4, <1>8

(* Without out-of-memory recovery outside loads no unload belongs to it.    *)
LEMMA NoOomStep ==
  ASSUME "oom" \notin Evictors, TypeInv, NoOom, [Next]_vars
  PROVE  NoOom'
<1>1. CASE unload' = unload
  BY <1>1 DEF NoOom
<1>2. ASSUME NEW m \in Models, NEW t \in Tasks, t.task # "oom", unload' = Claim(m, t) PROVE NoOom'
  BY <1>2, ClaimFacts DEF NoOom
<1>3. ASSUME NEW m \in Models, MakeRoom(m) \/ EvictForOom(m) PROVE NoOom'
  <2>1. tracked \subseteq Models /\ LoadTask(m) \in Tasks /\ LoadTask(m).task = "load"
    BY Basics, TaskFacts DEF TypeInv
  <2> QED BY <1>1, <1>2, <1>3, <2>1 DEF MakeRoom, EvictForOom
<1>4. ASSUME NEW m \in Models, MonitorEvict(m) \/ ManualUnload(m) \/ ReapExited(m) PROVE NoOom'
  <2>1. \A t \in {"monitor", "manual", "reap"} : By(t, None) \in Tasks /\ By(t, None).task # "oom"
    BY Basics DEF By
  <2> QED BY <1>2, <1>4, <2>1 DEF MonitorEvict, ManualUnload, ReapExited, EvictBy
<1>5. ASSUME IdleEvict PROVE NoOom'
  <2>1. By("idle", None) \in Tasks /\ By("idle", None).task # "oom" /\ IdleVictims \subseteq Models
    BY Basics DEF By, IdleVictims, TypeInv
  <2> QED BY <1>1, <1>2, <1>5, <2>1 DEF IdleEvict, EvictBy
<1>6. ASSUME NEW m \in Models, UnloadStep(m) \/ UnloadRaises(m) \/ UnloadCancelled(m) PROVE NoOom'
  <2>1. /\ \A v \in Models : v # m => unload'[v] = unload[v]
        /\ unload'[m].phase = "no" \/ (unload[m].phase # "no" /\ unload'[m].by = unload[m].by)
    BY SMT, <1>6 DEF UnloadStep, TearDown, UnloadDone, UnloadRaises, UnloadCancelled, TypeInv, UnloadT, NotUnloading
  <2> QED BY <2>1 DEF NoOom
<1>7. ASSUME NEW w \in Writers, NEW m \in Models, UnloadInvalidated(w, m) PROVE NoOom'
  <2>1. MutTask(w) \in Tasks /\ MutTask(w).task # "oom"
    BY Basics, TaskFacts
  <2> QED BY <1>1, <1>2, <1>7, <2>1 DEF UnloadInvalidated
<1>8. \A m \in Models, e \in Models : ~OomEvict(e, m)
  BY DEF OomEvict
<1>9. ASSUME NEW m \in Models, StartLoad(m) \/ LoadStep(m) \/ LoadFault(m) PROVE NoOom'
  BY <1>1, <1>3, <1>9 DEF LoadStep, LoadFault, StartLoad, LoadBegin, LoadRemote, Download, AdmitLoad,
         CheckConfig, LoopRoom, Register, DownloadFails, DeviceFails, DeviceOom, registryVars
<1>10. ASSUME NEW w \in Writers, MutationStep(w) \/ LeaseTimeout(w) \/ \E r \in Wanted : RequestMutation(w, r)
       PROVE  NoOom'
  BY <1>1, <1>7, <1>10 DEF MutationStep, TakeLease, PlanMutation, AdmitMutation, CommitMutation,
         LeaseTimeout, RequestMutation, registryVars
<1>11. CASE UNCHANGED unload
  BY <1>1, <1>11
<1> QED BY <1>4, <1>5, <1>6, <1>8, <1>9, <1>10, <1>11 DEF Next, Touch, Age, Cooldown, EagerLoadPinned,
         IdleSnapshot, SetPinnedModels, EnterExecution, LeaveExecution, RequestExecution, vars, registryVars

(* Every step keeps every adapter on the config the registry serves.        *)
LEMMA ServedStep ==
  ASSUME TypeInv, CtlInv, GhostInv, KeepInv, NoOom, ServedInv, [Next]_vars
  PROVE  ServedInv'
<1>1. LoadedFromCurrentConfig'
  <2> SUFFICES ASSUME NEW n \in Models, loaded'[n] # None PROVE configs'[n] = loaded'[n]
    BY DEF LoadedFromCurrentConfig
  <2>1. CASE loaded'[n] = loaded[n]
    BY <2>1, ServedConfigs DEF ServedInv, LoadedFromCurrentConfig
  <2> QED BY <2>1, LoadedSteps
<1>2. UnloadInv'
  <2> SUFFICES ASSUME NEW w \in Writers, mut'[w].pc = "unloading", NEW m \in DOMAIN mut'[w].want,
                      m \notin mut'[w].todo \cup mut'[w].waits, loaded'[m] # None
               PROVE  mut'[w].want[m] = configs'[m]
    BY DEF UnloadInv
  <2>1. ASSUME mut[w].pc = "unloading", mut'[w].want = mut[w].want, m \in Models,
               m \notin mut[w].todo \cup mut[w].waits
        PROVE  mut'[w].want[m] = configs'[m]
    <3>1. loaded'[m] = loaded[m]
      BY <2>1, LoadedSteps
    <3>2. mut[w].want[m] = configs[m]
      BY <2>1, <3>1 DEF ServedInv, UnloadInv
    <3> QED BY <2>1, <3>1, <3>2, ServedConfigs
  <2>2. CASE mut'[w] = mut[w]
    BY <2>1, <2>2, InvalidatedOrSame
  <2>3. ASSUME NEW v \in Models, UnloadDone(v) \/ UnloadRaises(v) PROVE mut'[w].want[m] = configs'[m]
    <3>1. WakeMuts(v, mut) \in [Writers -> MutT]
          /\ WakeMuts(v, mut)[w].pc = mut[w].pc /\ WakeMuts(v, mut)[w].want = mut[w].want
          /\ WakeMuts(v, mut)[w].todo = mut[w].todo /\ WakeMuts(v, mut)[w].waits = mut[w].waits \ {v}
      BY WakeTypes, WakeFacts
    <3>2. mut'[w] = WakeMuts(v, mut)[w] \/ mut'[w] = NoMutation
      BY <2>3, <3>1 DEF UnloadDone, UnloadRaises
    <3>3. mut'[w] = WakeMuts(v, mut)[w]
      BY SMT, <3>2 DEF NoMutation
    <3>4. loaded'[v] = None
      BY <2>3 DEF UnloadDone, UnloadRaises, GhostInv
    <3> QED BY <2>1, <3>1, <3>3, <3>4, InvalidatedOrSame
  <2>4. \A v \in Models : ~UnloadCancelled(v)
    BY DEF UnloadCancelled, NoOom
  <2>5. ASSUME AdmitMutation(w) PROVE mut'[w].want[m] = configs'[m]
    <3>1. mut'[w].want = mut[w].want /\ mut'[w].todo = Invalidated(w)
          /\ configs' = configs /\ loaded' = loaded
      BY SMT, <2>5 DEF AdmitMutation, TypeInv, MutT, registryVars
    <3>2. m \in DOMAIN mut[w].want /\ m \notin Invalidated(w)
      BY <3>1
    <3>3. m \in Models /\ (mut[w].want[m] = configs[m] \/ configs[m] = None)
      BY <3>2, InvalidatedOrSame
    <3> QED BY <3>1, <3>3 DEF ServedInv, LoadedFromCurrentConfig
  <2>6. ASSUME NEW v \in Models, UnloadInvalidated(w, v) PROVE mut'[w].want[m] = configs'[m]
    <3>1. /\ mut[w].pc = "unloading" /\ mut[w].waits = {} /\ mut'[w].want = mut[w].want
          /\ mut'[w].todo = mut[w].todo \ {v} /\ loaded' = loaded
          /\ loaded[v] # None => mut'[w].waits = {v}
      BY SMT, <2>6 DEF UnloadInvalidated, TypeInv, MutT
    <3>2. m # v
      BY <3>1
    <3> QED BY <2>1, <3>1, <3>2, InvalidatedOrSame
  <2>7. ASSUME NEW u \in Writers, u # w,
               MutationStep(u) \/ LeaseTimeout(u) \/ \E r \in Wanted : RequestMutation(u, r)
        PROVE  mut'[w] = mut[w]
    BY <2>7 DEF MutationStep, TakeLease, PlanMutation, AdmitMutation, CommitMutation,
         UnloadInvalidated, LeaseTimeout, RequestMutation, Install, EndMutation, TypeInv
  <2>8. mut'[w] # NoMutation /\ mut' # [mut EXCEPT ![w].pc = "queued"] /\ mut' # [mut EXCEPT ![w].pc = "plan"]
    BY SMT DEF NoMutation, TypeInv, MutT
  <2>9. ~TakeLease(w) /\ ~CommitMutation(w) /\ ~LeaseTimeout(w) /\ ~PlanMutation(w)
    BY <2>8 DEF TakeLease, CommitMutation, LeaseTimeout, PlanMutation, Install, EndMutation, TypeInv
  <2>10. ASSUME NEW r \in Wanted, RequestMutation(w, r) PROVE FALSE
    BY <2>10 DEF RequestMutation, TypeInv, NoMutation
  <2>11. ASSUME NEW v \in Models,
               \/ StartLoad(v) \/ LoadStep(v) \/ LoadFault(v) \/ TearDown(v)
               \/ MonitorEvict(v) \/ ManualUnload(v) \/ ReapExited(v)
               \/ Touch(v) \/ Age(v) \/ Cooldown(v)
               \/ \E e \in Models : OomEvict(e, v)
         PROVE  mut'[w] = mut[w]
    BY <2>11, MutKeptSteps
  <2>12. ASSUME \/ EagerLoadPinned \/ IdleSnapshot \/ IdleEvict
                \/ \E p \in PinSets : SetPinnedModels(p)
                \/ \E x \in Executions : \/ EnterExecution(x) \/ LeaveExecution(x)
                                         \/ \E v \in Models : RequestExecution(x, v)
                \/ UNCHANGED vars
         PROVE  mut'[w] = mut[w]
    BY <2>12, OtherKeptSteps
  <2> QED BY <2>2, <2>3, <2>4, <2>5, <2>6, <2>7, <2>8, <2>9, <2>10, <2>11, <2>12
          DEF Next, UnloadStep, MutationStep
<1> QED BY <1>1, <1>2 DEF ServedInv

(* A load that fails after its download records the config the registry     *)
(* serves.                                                                  *)
LEMMA FailedByLoads ==
  ASSUME "download" \notin Faults, TypeInv, KeepInv, NEW m \in Models,
         StartLoad(m) \/ LoadStep(m) \/ LoadFault(m), NEW n \in Models
  PROVE  configs' = configs /\ (failed'[n] \in {failed[n], None} \/ failed'[n].of = configs[n])
<1>1. configs' = configs
  BY DEF LoadStep, LoadFault, StartLoad, LoadBegin, LoadRemote, Download, AdmitLoad, CheckConfig, MakeRoom,
         LoopRoom, Register, EvictForOom, DownloadFails, DeviceFails, DeviceOom, registryVars
<1>2. CASE failed' = failed \/ failed' = [failed EXCEPT ![m] = None]
  BY <1>1, <1>2 DEF TypeInv
<1>3. ASSUME NEW c, NEW g, g = configs[m], FailLoad(m, c, g) PROVE failed'[n] = failed[n] \/ failed'[n].of = configs[n]
  BY <1>3 DEF FailLoad, TypeInv
<1>4. CASE LoadBegin(m)
  BY <1>1, <1>2, <1>3, <1>4 DEF LoadBegin
<1>5. CASE DeviceFails(m)
  <2>1. load[m].cfg = configs[m]
    BY <1>5 DEF DeviceFails, KeepInv, Kept, Admitted
  <2> QED BY <1>1, <1>3, <1>5, <2>1 DEF DeviceFails
<1>6. CASE EvictForOom(m)
  <2>1. load[m].cfg = configs[m]
    BY <1>6 DEF EvictForOom, KeepInv, Kept, Admitted
  <2> QED BY <1>1, <1>2, <1>3, <1>6, <2>1 DEF EvictForOom
<1>7. ~DownloadFails(m)
  BY DEF DownloadFails
<1> QED BY <1>2, <1>4, <1>5, <1>6, <1>7 DEF LoadStep, LoadFault, StartLoad, LoadRemote, Download, AdmitLoad,
         CheckConfig, MakeRoom, LoopRoom, Register, DeviceOom, registryVars

(* An unload that raises fails its load under the config the registry       *)
(* serves.                                                                  *)
LEMMA FailedByUnloads ==
  ASSUME TypeInv, CtlInv, KeepInv, NEW m \in Models, UnloadStep(m) \/ UnloadRaises(m) \/ UnloadCancelled(m),
         NEW n \in Models
  PROVE  configs' = configs /\ (failed'[n] \in {failed[n], None} \/ failed'[n].of = configs[n])
<1>1. configs' = configs
  BY DEF UnloadStep, TearDown, UnloadDone, UnloadRaises, UnloadCancelled
<1>2. CASE UnloadDone(m)
  BY <1>1, <1>2 DEF UnloadDone
<1>3. CASE UnloadRaises(m)
  <2> DEFINE by == unload[m].by
  <2>1. CASE by.task = "load"
    <3>1. by \in Tasks /\ Owned(m)
      BY <1>3 DEF UnloadRaises, TypeInv, UnloadT, CtlInv, UnloadCtl
    <3>2. by.id \in Models /\ load[by.id].pc \in Kept
      BY <2>1, <3>1 DEF Tasks, Owned, Kept, Admitted
    <3>3. load[by.id].cfg = configs[by.id]
      BY <3>2 DEF KeepInv
    <3>4. failed' = [failed EXCEPT ![by.id] = [class |-> "other", of |-> load[by.id].cfg]]
      BY <1>3, <2>1 DEF UnloadRaises
    <3> QED BY <1>1, <3>2, <3>3, <3>4 DEF TypeInv
  <2> QED BY <1>1, <1>3, <2>1 DEF UnloadRaises
<1>4. CASE TearDown(m) \/ UnloadCancelled(m)
  BY <1>1, <1>4 DEF TearDown, UnloadCancelled
<1> QED BY <1>2, <1>3, <1>4 DEF UnloadStep

(* A mutation forgets the failures of the models whose configs it changes.  *)
LEMMA FailedByMutations ==
  ASSUME TypeInv, NEW w \in Writers,
         MutationStep(w) \/ LeaseTimeout(w) \/ \E r \in Wanted : RequestMutation(w, r), NEW n \in Models
  PROVE  failed'[n] = None \/ (failed'[n] = failed[n] /\ configs'[n] = configs[n])
<1>1. CASE UNCHANGED <<configs, failed>>
  BY <1>1
<1>2. CASE Install(w)
  <2>1. CASE n \in DOMAIN mut[w].want
    <3>1. CASE failed'[n] = None
      BY <3>1
    <3>2. CASE failed'[n] # None
      <4>1. mut[w].kind = "replace" /\ n \notin Invalidated(w) /\ failed'[n] = failed[n]
        BY <1>2, <2>1, <3>2 DEF Install
      <4>2. mut[w].want[n] = configs[n]
        BY <2>1, <4>1, InvalidatedOrSame
      <4> QED BY <1>2, <2>1, <4>1, <4>2 DEF Install, Target
    <3> QED BY <3>1, <3>2
  <2>2. CASE n \notin DOMAIN mut[w].want
    BY <1>2, <2>2 DEF Install, Target
  <2> QED BY <2>1, <2>2
<1>3. ASSUME NEW m \in Models, UnloadInvalidated(w, m)
      PROVE  failed'[n] = None \/ (failed'[n] = failed[n] /\ configs'[n] = configs[n])
  BY <1>3 DEF UnloadInvalidated
<1> QED BY <1>1, <1>2, <1>3 DEF MutationStep, TakeLease, PlanMutation, AdmitMutation, CommitMutation,
         LeaseTimeout, RequestMutation, registryVars

(* Every step keeps recorded failures about the configs the registry        *)
(* serves.                                                                  *)
LEMMA FailedStep ==
  ASSUME "download" \notin Faults, TypeInv, CtlInv, KeepInv, ServedInv, FailureOfCurrentConfig, [Next]_vars
  PROVE  FailureOfCurrentConfig'
<1> SUFFICES ASSUME NEW n \in Models, failed'[n] # None PROVE failed'[n].of = configs'[n]
  BY DEF FailureOfCurrentConfig
<1>1. ASSUME configs' = configs, failed'[n] \in {failed[n], None} \/ failed'[n].of = configs[n]
      PROVE  failed'[n].of = configs'[n]
  BY <1>1 DEF FailureOfCurrentConfig
<1>2. ASSUME NEW w \in Writers, MutationStep(w) \/ LeaseTimeout(w) \/ \E r \in Wanted : RequestMutation(w, r)
      PROVE  failed'[n].of = configs'[n]
  BY <1>2, FailedByMutations DEF FailureOfCurrentConfig
<1>3. ASSUME NEW m \in Models, ReapExited(m) PROVE failed'[n].of = configs'[n]
  <2>1. loaded[m] = configs[m]
    BY <1>3 DEF ReapExited, ServedInv, LoadedFromCurrentConfig
  <2> QED BY <1>1, <1>3, <2>1 DEF ReapExited, TypeInv
<1>4. ASSUME NEW m \in Models,
             MonitorEvict(m) \/ ManualUnload(m) \/ Touch(m) \/ Age(m) \/ Cooldown(m) \/ \E e \in Models : OomEvict(e, m)
      PROVE  failed'[n].of = configs'[n]
  BY <1>1, <1>4 DEF MonitorEvict, ManualUnload, Touch, Age, Cooldown, OomEvict, TypeInv
<1>5. CASE \/ EagerLoadPinned \/ IdleSnapshot \/ IdleEvict
           \/ \E p \in PinSets : SetPinnedModels(p)
           \/ \E x \in Executions : \/ EnterExecution(x) \/ LeaveExecution(x)
                                    \/ \E m \in Models : RequestExecution(x, m)
           \/ UNCHANGED vars
  BY <1>1, <1>5 DEF EagerLoadPinned, IdleSnapshot, IdleEvict, SetPinnedModels, EnterExecution, LeaveExecution,
         RequestExecution, vars, registryVars
<1> QED BY <1>1, <1>2, <1>3, <1>4, <1>5, FailedByLoads, FailedByUnloads DEF Next

(* With no idle snapshot pending, an evictor picks no pinned model.         *)
LEMMA PinnedStep ==
  ASSUME TypeInv, idleSnap = {}, [Next]_vars, NEW n \in Models,
         unload[n].phase = "no", unload'[n].phase = "drain",
         unload'[n].by.task \in {"load", "monitor", "idle", "oom"}
  PROVE  n \notin pinned
<1>1. ASSUME NEW v \in Models, NEW t \in Tasks, unload' = Claim(v, t) PROVE n = v /\ unload'[n].by = t
  <2>1. n = v
    BY <1>1, ClaimFacts
  <2> QED BY <1>1, <2>1, ClaimFacts
<1>2. ASSUME NEW m \in Models, NEW v \in tracked \ pinned, unload' = Claim(v, LoadTask(m)) PROVE n \notin pinned
  BY <1>1, <1>2, Basics DEF TypeInv
<1>3. unload' # unload
  OBVIOUS
<1>4. ASSUME NEW m \in Models, StartLoad(m) \/ LoadStep(m) \/ LoadFault(m) PROVE n \notin pinned
  BY <1>2, <1>3, <1>4 DEF LoadStep, LoadFault, StartLoad, LoadBegin, LoadRemote, Download, AdmitLoad,
         CheckConfig, MakeRoom, LoopRoom, Register, EvictForOom, DownloadFails, DeviceFails, DeviceOom,
         registryVars
<1>5. ASSUME NEW m \in Models, UnloadStep(m) \/ UnloadRaises(m) \/ UnloadCancelled(m) PROVE FALSE
  BY <1>5 DEF UnloadStep, TearDown, UnloadDone, UnloadRaises, UnloadCancelled, TypeInv, UnloadT, NotUnloading
<1>6. ASSUME NEW m \in Models, MonitorEvict(m) \/ \E e \in Models : OomEvict(e, m) PROVE n \notin pinned
  <2>1. PICK t \in Tasks : unload' = Claim(m, t)
    BY <1>6, Basics DEF MonitorEvict, OomEvict, EvictBy
  <2>2. m \notin pinned
    BY <1>6 DEF MonitorEvict, OomEvict
  <2> QED BY <1>1, <2>1, <2>2
<1>7. ASSUME NEW m \in Models, ManualUnload(m) \/ ReapExited(m) PROVE FALSE
  <2>1. PICK t \in {"manual", "reap"} : unload' = Claim(m, By(t, None))
    BY <1>7 DEF ManualUnload, ReapExited, EvictBy
  <2>2. By(t, None) \in Tasks /\ By(t, None).task = t
    BY Basics DEF By
  <2> QED BY <1>1, <2>1, <2>2
<1>8. ~IdleEvict
  BY DEF IdleEvict
<1>9. ASSUME NEW w \in Writers, NEW m \in Models, UnloadInvalidated(w, m) PROVE FALSE
  BY SMT, <1>1, <1>3, <1>9, Basics, TaskFacts DEF UnloadInvalidated
<1>10. ASSUME NEW w \in Writers, MutationStep(w) \/ LeaseTimeout(w) \/ \E r \in Wanted : RequestMutation(w, r)
       PROVE  FALSE
  BY <1>3, <1>9, <1>10 DEF MutationStep, TakeLease, PlanMutation, AdmitMutation, CommitMutation,
         LeaseTimeout, RequestMutation, registryVars
<1>11. ASSUME \/ \E m \in Models : Touch(m) \/ Age(m) \/ Cooldown(m)
              \/ EagerLoadPinned \/ IdleSnapshot \/ \E p \in PinSets : SetPinnedModels(p)
              \/ \E x \in Executions : \/ EnterExecution(x) \/ LeaveExecution(x)
                                       \/ \E m \in Models : RequestExecution(x, m)
              \/ UNCHANGED vars
       PROVE  FALSE
  BY <1>3, <1>11 DEF Touch, Age, Cooldown, EagerLoadPinned, IdleSnapshot, SetPinnedModels, EnterExecution,
         LeaveExecution, RequestExecution, vars, registryVars
<1> QED BY <1>4, <1>5, <1>6, <1>7, <1>8, <1>10, <1>11 DEF Next

(* Without the idle evictor no snapshot is ever pending.                    *)
LEMMA SnapStep ==
  ASSUME "idle" \notin Evictors, idleSnap = {}, [Next]_vars
  PROVE  idleSnap' = {}
<1>1. ASSUME NEW m \in Models,
             \/ StartLoad(m) \/ LoadStep(m) \/ LoadFault(m)
             \/ UnloadStep(m) \/ UnloadRaises(m) \/ UnloadCancelled(m)
             \/ MonitorEvict(m) \/ ManualUnload(m) \/ ReapExited(m)
             \/ Touch(m) \/ Age(m) \/ Cooldown(m)
             \/ \E e \in Models : OomEvict(e, m)
      PROVE  idleSnap' = idleSnap
  BY <1>1 DEF LoadStep, LoadFault, StartLoad, LoadBegin, LoadRemote, Download, AdmitLoad, CheckConfig,
         MakeRoom, LoopRoom, Register, EvictForOom, DownloadFails, DeviceFails, DeviceOom, UnloadStep,
         TearDown, UnloadDone, UnloadRaises, UnloadCancelled,
         MonitorEvict, ManualUnload, ReapExited, Touch, Age, Cooldown, OomEvict, taskVars
<1>2. ASSUME NEW w \in Writers, MutationStep(w) \/ LeaseTimeout(w) \/ \E r \in Wanted : RequestMutation(w, r)
      PROVE  idleSnap' = idleSnap
  BY <1>2 DEF MutationStep, TakeLease, PlanMutation, AdmitMutation, CommitMutation, UnloadInvalidated,
         LeaseTimeout, RequestMutation
<1>3. ASSUME \/ EagerLoadPinned \/ IdleSnapshot \/ IdleEvict
             \/ \E p \in PinSets : SetPinnedModels(p)
             \/ \E x \in Executions : \/ EnterExecution(x) \/ LeaveExecution(x)
                                      \/ \E m \in Models : RequestExecution(x, m)
             \/ UNCHANGED vars
      PROVE  idleSnap' = {}
  BY <1>3 DEF EagerLoadPinned, IdleSnapshot, IdleEvict, SetPinnedModels, EnterExecution, LeaveExecution,
         RequestExecution, vars, taskVars
<1> QED BY <1>1, <1>2, <1>3 DEF Next

(* The inductive invariant of the registry.                                 *)
RegistryInv == TypeInv /\ CtlInv /\ GhostInv /\ LeaseInv /\ KeepInv

(* The initial states satisfy the invariant.                                *)
LEMMA RegistryInit == Init => RegistryInv
<1> SUFFICES ASSUME Init PROVE RegistryInv
  OBVIOUS
<1>1. TypeInv
  BY InitType
<1>2. /\ \A m \in Models : load[m].pc = "idle" /\ unload[m].phase = "no" /\ loaded[m] = None
      /\ \A w \in Writers : mut[w].pc = "idle" /\ mut[w].kind = "apply" /\ mut[w].waits = {}
      /\ \A x \in Executions : lease[x].pc = "out"
      /\ tracked = {}
  BY DEF Init, NoLoad, NotUnloading, NoMutation, NoLease
<1>3. CtlInv
  BY <1>2 DEF CtlInv, LoadCtl, MutCtl, UnloadCtl, Admitted
<1>4. GhostInv /\ LeaseInv /\ KeepInv
  BY <1>2 DEF GhostInv, NoGhost, LeaseInv, LeasePinsConfig, ReaderActive, KeepInv, Kept, Admitted
<1> QED BY <1>1, <1>3, <1>4 DEF RegistryInv

(* Every step preserves the invariant.                                      *)
LEMMA RegistryStep == RegistryInv /\ [Next]_vars => RegistryInv'
BY TypeStep, LoadCtlStep, MutCtlStep, UnloadCtlStep, GhostStep, LeaseStep, KeepStep DEF RegistryInv, CtlInv

(* The inductive invariant holds in every reachable state of the registry,  *)
(* whatever fails and whoever evicts.                                       *)
THEOREM RegistryIsConsistent == Spec => []RegistryInv
<1> QED BY RegistryInit, RegistryStep, PTL DEF Spec

(* Memory is accounted for exactly the adapters that are in service or      *)
(* draining, through every failed load, failed teardown and cancelled       *)
(* unload (registry.py, _loaded and the memory manager's tracking).         *)
THEOREM AccountingIsExact == Spec => []NoGhost
<1>1. RegistryInv => NoGhost
  BY DEF RegistryInv, GhostInv
<1> QED BY <1>1, RegistryIsConsistent, PTL

(* A request that holds an execution lease runs under the config it was     *)
(* admitted with: no mutation installs another until it leaves              *)
(* (execution_lease and the config update lock).                            *)
THEOREM LeaseIsStable == Spec => []LeasePinsConfig
<1>1. RegistryInv => LeasePinsConfig
  BY DEF RegistryInv, LeaseInv
<1> QED BY <1>1, RegistryIsConsistent, PTL

(* When no batch-time out-of-memory recovery evicts, every adapter in       *)
(* service was loaded from the config the registry serves, through every    *)
(* interleaving of loads, evictions and mutations. The recovery is excluded *)
(* because its cancelled unload leaves the old adapter in service.          *)
THEOREM ServedIsCurrent ==
  ASSUME "oom" \notin Evictors
  PROVE  Spec => []LoadedFromCurrentConfig
<1> DEFINE J == RegistryInv /\ NoOom /\ ServedInv
<1>1. Init => J
  <2> SUFFICES ASSUME Init PROVE NoOom /\ ServedInv
    BY RegistryInit
  <2> QED BY DEF Init, NoOom, ServedInv, LoadedFromCurrentConfig, UnloadInv, NotUnloading, NoMutation
<1>2. J /\ [Next]_vars => J'
  BY RegistryStep, NoOomStep, ServedStep DEF RegistryInv
<1>3. J => LoadedFromCurrentConfig
  BY DEF ServedInv
<1> QED BY <1>1, <1>2, <1>3, PTL DEF Spec

(* When in addition no download fails, a recorded failure is about the      *)
(* config the registry serves. A failed download is excluded because it     *)
(* records the failure outside the admission lock.                          *)
THEOREM FailuresAreCurrent ==
  ASSUME "oom" \notin Evictors, "download" \notin Faults
  PROVE  Spec => []FailureOfCurrentConfig
<1> DEFINE J == RegistryInv /\ NoOom /\ ServedInv /\ FailureOfCurrentConfig
<1>1. Init => J
  <2> SUFFICES ASSUME Init PROVE NoOom /\ ServedInv /\ FailureOfCurrentConfig
    BY RegistryInit
  <2> QED BY DEF Init, NoOom, ServedInv, LoadedFromCurrentConfig, UnloadInv, NotUnloading, NoMutation,
             FailureOfCurrentConfig
<1>2. J /\ [Next]_vars => J'
  BY RegistryStep, NoOomStep, ServedStep, FailedStep DEF RegistryInv
<1>3. J => FailureOfCurrentConfig
  OBVIOUS
<1> QED BY <1>1, <1>2, <1>3, PTL DEF Spec

(* When the idle evictor does not run, no evictor starts to unload a pinned *)
(* model. The idle evictor is excluded because it evicts from a snapshot    *)
(* taken before its suspension points.                                      *)
THEOREM PinsProtect ==
  ASSUME "idle" \notin Evictors
  PROVE  Spec => PinnedNotEvicted
<1> DEFINE J == TypeInv /\ idleSnap = {}
<1> DEFINE A == \A m \in Models :
                  /\ unload[m].phase = "no" /\ unload'[m].phase = "drain"
                  /\ unload'[m].by.task \in {"load", "monitor", "idle", "oom"}
                  => m \notin pinned
<1>1. Init => J
  BY InitType DEF Init
<1>2. J /\ [Next]_vars => J'
  BY TypeStep, SnapStep
<1>3. J /\ [Next]_vars => A
  BY PinnedStep
<1>4. J /\ [Next]_vars => [A]_vars
  BY <1>3
<1> QED BY <1>1, <1>2, <1>4, PTL DEF Spec, PinnedNotEvicted

====
