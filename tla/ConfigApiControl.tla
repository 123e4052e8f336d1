------------------------- MODULE ConfigApiControl --------------------------
(***************************************************************************)
(* Proofs, for every catalogue, image, set of clients and bound, of what   *)
(* ConfigAuthority promises; then lemmas for ConfigApiProofs on the        *)
(* idempotency cache and on what each step of a handler does.              *)
(***************************************************************************)
EXTENDS ConfigApi, TLAPS

\* Most leaves are set reasoning without arithmetic, for Zenon; the others say SMT.
USE ZenonT(30), SMTT(30)

-----------------------------------------------------------------------------
(* The operators on configurations. *)

\* merged profiles are profiles: Merge never leaves the configuration space.
LEMMA MergeType ==
  ASSUME NEW c \in Config, NEW d \in Config
  PROVE  Merge(c, d) \in Config
BY DEF Merge, Config

\* Restoring a stored document over an image that does not have the model
\* yields the document.
LEMMA MergeNothing ==
  ASSUME NEW d \in Config
  PROVE  Merge(NoConfig, d) = d /\ Conflicts(NoConfig, d) = {}
BY DEF Merge, NoConfig, Config, Conflicts

\* The absent model is a configuration like any other.
LEMMA NoConfigType == NoConfig \in Config
BY DEF NoConfig, Config

\* What a restart rebuilds from any store is a catalogue.
LEMMA RestoredType ==
  ASSUME NEW st \in Catalog
  PROVE  Restored(st) \in Catalog
BY MergeType, BakedAssumption DEF Restored, Catalog

\* A persisted write names a model, and what it registers is a configuration.
LEMMA MutatedType ==
  ASSUME AuthTypeOK, write.phase = "persisted"
  PROVE  /\ Mutated(write) \in Config
         /\ write.model \in Models
         /\ write \in [phase: {"persisted"}, op: {"add", "replace", "delete"},
                       model: Models, body: Config]
BY SMT, MergeType, BakedAssumption DEF Mutated, AuthTypeOK, NoWrite, Catalog

-----------------------------------------------------------------------------
(* Type correctness. *)

\* Every step of sie-config keeps the types.
LEMMA AuthTypeStep ==
  ASSUME AuthTypeOK, [AuthNext]_authVars
  PROVE  AuthTypeOK'
<1>0. AuthTypeOK /\ [AuthNext]_authVars
  OBVIOUS
<1>1. CASE \E m \in Models, c \in Bodies : AddModel(m, c)
  <2>1. PICK m \in Models, c \in Bodies : AddModel(m, c)
    BY <1>1
  <2>2. c \in Config
    BY BodiesAssumption
  <2>3. store' \in Catalog
    <3>1. \A d \in StoreRead(m) : d \in Config
      BY SMT, <1>0, NoConfigType DEF StoreRead, AuthTypeOK, Catalog
    <3>2. CASE HasStore
      <4>1. PICK d \in StoreRead(m) : store' = [store EXCEPT ![m] = Merge(d, c)]
        BY <2>1, <3>2 DEF AddModel
      <4> QED BY <1>0, <2>2, <3>1, <4>1, MergeType DEF AuthTypeOK, Catalog
    <3> QED BY <1>0, <2>1, <3>2 DEF AddModel, AuthTypeOK
  <2> QED BY <1>0, <2>1, <2>2, <2>3 DEF AddModel, AuthTypeOK
<1>2. CASE \E m \in Models, c \in Bodies : ReplaceModel(m, c)
  BY SMT, <1>0, <1>2, BodiesAssumption DEF ReplaceModel, AuthTypeOK, Catalog
<1>3. CASE \E m \in Models : DeleteModel(m)
  BY SMT, <1>0, <1>3, NoConfigType DEF DeleteModel, AuthTypeOK, Catalog
<1>4. CASE RegisterWrite
  BY <1>0, <1>4, MutatedType DEF RegisterWrite, AuthTypeOK, Catalog
<1>5. CASE CountWrite
  <2>1. epoch' \in Nat
    BY SMT, <1>0, <1>5 DEF CountWrite, EpochRead, AuthTypeOK
  <2>2. write \in [phase: {"registered"}, op: {"add", "replace", "delete"},
                   model: Models, body: Config]
    BY SMT, <1>0, <1>5 DEF CountWrite, AuthTypeOK, NoWrite
  <2>3. write' \in [phase: {"counted"}, op: {"add", "replace", "delete"},
                    model: Models, body: Config]
    BY <1>5, <2>2 DEF CountWrite
  <2> QED BY <1>0, <1>5, <2>1, <2>3 DEF CountWrite, AuthTypeOK
<1>6. CASE CountFails
  BY <1>0, <1>6 DEF CountFails, AuthTypeOK
<1>7. CASE PublishWrite
  <2>1. Delta(write) \in Notification
    BY SMT, <1>0, <1>7 DEF PublishWrite, Delta, DeltaConfig, Notification,
       AuthTypeOK, Catalog, NoWrite
  <2>2. wire' \in [Clients -> Seq(Notification)]
    BY SMT, <1>0, <1>7, <2>1 DEF PublishWrite, AuthTypeOK
  <2> QED BY <1>0, <1>7, <2>2 DEF PublishWrite, AuthTypeOK
<1>8. CASE Restart
  BY <1>0, <1>8, RestoredType DEF Restart, AuthTypeOK
<1>9. CASE \E c \in Clients : TakeDelta(c)
  BY SMT, <1>0, <1>9 DEF TakeDelta, AuthTypeOK
<1>10. CASE UNCHANGED authVars
  BY <1>0, <1>10 DEF authVars, AuthTypeOK
<1> QED
  BY <1>0, <1>1, <1>2, <1>3, <1>4, <1>5, <1>6, <1>7, <1>8, <1>9, <1>10
  DEF AuthNext, AuthWrite

\* Every reachable state of sie-config is well typed: the record of the write
\* in progress always names a model and a body, and every delta on the wire a
\* configuration and the catalogue it was published from.
THEOREM AuthTypeCorrect == AuthSpec => []AuthTypeOK
<1>1. AuthInit => AuthTypeOK
  BY SMT, NoConfigType, BakedAssumption DEF AuthInit, AuthTypeOK, Catalog
<1>2. AuthTypeOK /\ [AuthNext]_authVars => AuthTypeOK'
  BY AuthTypeStep
<1> QED BY <1>1, <1>2, PTL DEF AuthSpec

-----------------------------------------------------------------------------
(* Safety.  StoreAgrees is inductive with the types: it also says what holds *)
(* between persist and registration, where export may not look.  WireOrdered *)
(* needs WireBehind, which says where the wire stands against the epoch      *)
(* before and after a write is counted.                                      *)

\* No delta under way announces an epoch beyond the persisted one, and while a
\* write is counted but not published none announces its epoch.
WireBehind ==
  HasStore /\ ~FlakyReads =>
    \A c \in Clients : \A i \in 1..Len(wire[c]) :
      /\ wire[c][i].epoch <= epoch
      /\ write.phase = "counted" => wire[c][i].epoch < epoch

\* A write leaves every model but its own alone, in the store and in the
\* registry, and a restart rebuilds every model from its own documents: the
\* agreement of store and registry is preserved by every step.
LEMMA StoreAgreesStep ==
  ASSUME AuthTypeOK, StoreAgrees, [AuthNext]_authVars
  PROVE  StoreAgrees'
<1> SUFFICES ASSUME HasStore, ~FlakyReads PROVE StoreAgrees'
  BY DEF StoreAgrees
<1>0. AuthTypeOK /\ StoreAgrees
  OBVIOUS
<1>1. CASE \E m \in Models, c \in Bodies : AddModel(m, c)
  <2>1. PICK m \in Models, c \in Bodies : AddModel(m, c)
    BY <1>1
  <2>2. store' = [store EXCEPT ![m] = Merge(store[m], c)]
    BY <2>1 DEF AddModel, StoreRead
  <2>3. Merge(store[m], c) # NoConfig
    BY <2>1, BodiesAssumption DEF AddModel, Created, Merge, NoConfig
  <2>4. /\ write.phase = "idle" /\ registry' = registry
        /\ write' = [phase |-> "persisted", op |-> "add", model |-> m, body |-> c]
    BY <2>1 DEF AddModel, LockFree, NoWrite
  <2>5. Mutated(write)' = Merge(registry[m], c)
    BY <2>4 DEF Mutated
  <2> QED BY <1>0, <2>2, <2>3, <2>4, <2>5 DEF StoreAgrees, Upcoming, AuthTypeOK, Catalog
<1>2. CASE \E m \in Models, c \in Bodies : ReplaceModel(m, c)
  <2>1. PICK m \in Models, c \in Bodies : ReplaceModel(m, c)
    BY <1>2
  <2>2. /\ write.phase = "idle" /\ registry' = registry
        /\ store' = [store EXCEPT ![m] = c]
        /\ write' = [phase |-> "persisted", op |-> "replace", model |-> m, body |-> c]
    BY <2>1 DEF ReplaceModel, LockFree, NoWrite
  <2>3. Mutated(write)' = c /\ c # NoConfig
    BY <2>2, BodiesAssumption DEF Mutated
  <2> QED BY <1>0, <2>2, <2>3 DEF StoreAgrees, Upcoming, AuthTypeOK, Catalog
<1>3. CASE \E m \in Models : DeleteModel(m)
  <2>1. PICK m \in Models : DeleteModel(m)
    BY <1>3
  <2>2. /\ write.phase = "idle" /\ registry' = registry
        /\ store' = [store EXCEPT ![m] = NoConfig]
        /\ write' = [phase |-> "persisted", op |-> "delete", model |-> m,
                     body |-> NoConfig]
    BY <2>1 DEF DeleteModel, LockFree, NoWrite
  <2>3. Mutated(write)' = Baked[m]
    BY <2>2 DEF Mutated
  <2> QED BY <1>0, <2>2, <2>3 DEF StoreAgrees, Upcoming, AuthTypeOK, Catalog
<1>4. CASE RegisterWrite
  <2>1. /\ write.model \in Models /\ store' = store
        /\ registry' = [registry EXCEPT ![write.model] = Mutated(write)]
        /\ write.phase = "persisted" /\ write'.phase = "registered"
    BY <1>0, <1>4, MutatedType DEF RegisterWrite
  <2> QED BY <1>0, <2>1 DEF StoreAgrees, Upcoming, AuthTypeOK, Catalog
<1>5. CASE CountWrite
  <2>1. /\ store' = store /\ registry' = registry
        /\ write.phase = "registered" /\ write'.phase = "counted"
    BY <1>0, <1>5 DEF CountWrite, AuthTypeOK, NoWrite
  <2> QED BY <1>0, <2>1 DEF StoreAgrees, Upcoming
<1>6. CASE CountFails \/ PublishWrite
  BY SMT, <1>0, <1>6 DEF CountFails, PublishWrite, StoreAgrees, Upcoming, NoWrite
<1>7. CASE Restart
  <2>1. write'.phase = "idle" /\ store' = store /\ registry' = Restored(store)
    BY <1>7 DEF Restart, NoWrite
  <2>2. \A m \in Models : Baked[m] = NoConfig => Restored(store)[m] = store[m]
    BY <1>0, MergeNothing DEF Restored, AuthTypeOK, Catalog
  <2>3. \A m \in Models : store[m] = NoConfig => Restored(store)[m] = Baked[m]
    BY BakedAssumption DEF Restored, Conflicts, Merge, NoConfig, Catalog, Config
  <2> QED BY <2>1, <2>2, <2>3 DEF StoreAgrees, Upcoming
<1>8. CASE \E c \in Clients : TakeDelta(c)
  BY <1>0, <1>8 DEF TakeDelta, StoreAgrees, Upcoming, Mutated
<1>9. CASE UNCHANGED authVars
  BY <1>0, <1>9 DEF authVars, StoreAgrees, Upcoming, Mutated
<1> QED BY <1>1, <1>2, <1>3, <1>4, <1>5, <1>6, <1>7, <1>8, <1>9
        DEF AuthNext, AuthWrite

\* What PublishWrite appends to a subscriber's queue, and what it leaves.
LEMMA PublishedWire ==
  ASSUME AuthTypeOK, PublishWrite, NEW c \in Clients
  PROVE  /\ wire[c] \in Seq(Notification)
         /\ \/ wire'[c] = wire[c]
            \/ /\ Len(wire'[c]) = Len(wire[c]) + 1
               /\ \A i \in 1..Len(wire[c]) : wire'[c][i] = wire[c][i]
               /\ wire'[c][Len(wire[c]) + 1] = Delta(write)
<1>1. wire[c] \in Seq(Notification)
  BY DEF AuthTypeOK
<1>2. wire'[c] = wire[c] \/ wire'[c] = Append(wire[c], Delta(write))
  BY DEF PublishWrite
<1>3. wire'[c] = Append(wire[c], Delta(write)) =>
        /\ Len(wire'[c]) = Len(wire[c]) + 1
        /\ \A i \in 1..Len(wire[c]) : wire'[c][i] = wire[c][i]
        /\ wire'[c][Len(wire[c]) + 1] = Delta(write)
  BY SMT, <1>1
<1> QED BY <1>1, <1>2, <1>3

\* What TakeDelta leaves of a subscriber's queue: the same, or its tail.
LEMMA TakenWire ==
  ASSUME AuthTypeOK, NEW d \in Clients, TakeDelta(d), NEW c \in Clients
  PROVE  \E s \in {0, 1} :
           /\ Len(wire'[c]) = Len(wire[c]) - s
           /\ \A i \in 1..Len(wire'[c]) : wire'[c][i] = wire[c][i + s]
<1>1. wire[c] \in Seq(Notification) /\ Len(wire[c]) \in Nat
  BY SMT DEF AuthTypeOK
<1>2. CASE wire'[c] = wire[c]
  BY SMT, <1>1, <1>2
<1>3. CASE wire[c] # <<>> /\ wire'[c] = Tail(wire[c])
  <2>1. /\ Len(wire'[c]) = Len(wire[c]) - 1
        /\ \A i \in 1..Len(wire'[c]) : wire'[c][i] = wire[c][i + 1]
    BY SMT, <1>1, <1>3
  <2> QED BY <2>1
<1> QED BY <1>2, <1>3 DEF TakeDelta, AuthTypeOK

\* Every delta under way is a notification, with a natural epoch.
LEMMA WireElement ==
  ASSUME AuthTypeOK, NEW c \in Clients, NEW i \in 1..Len(wire[c])
  PROVE  wire[c][i] \in Notification /\ wire[c][i].epoch \in Nat
<1>1. wire[c][i] \in Notification
  <2>1. wire[c] \in Seq(Notification)
    BY DEF AuthTypeOK
  <2> QED BY SMT, <2>1
<1> QED BY <1>1 DEF Notification

\* The wire stays in epoch order and behind the persisted epoch: an epoch is
\* announced only after CountWrite, once, and CountWrite only moves it up.
LEMMA WireStep ==
  ASSUME AuthTypeOK, WireOrdered, WireBehind, [AuthNext]_authVars
  PROVE  WireOrdered' /\ WireBehind'
<1> SUFFICES ASSUME HasStore, ~FlakyReads PROVE WireOrdered' /\ WireBehind'
  BY DEF WireOrdered, WireBehind
<1>0. AuthTypeOK /\ WireOrdered /\ WireBehind
  OBVIOUS
<1>1. CASE \/ \E m \in Models, c \in Bodies : AddModel(m, c) \/ ReplaceModel(m, c)
           \/ \E m \in Models : DeleteModel(m)
  <2>1. wire' = wire /\ epoch' = epoch /\ write'.phase = "persisted"
    BY SMT, <1>1 DEF AddModel, ReplaceModel, DeleteModel
  <2> QED BY <1>0, <2>1 DEF WireOrdered, WireBehind
<1>2. CASE RegisterWrite
  <2>1. wire' = wire /\ epoch' = epoch /\ write'.phase = "registered"
    BY <1>0, <1>2, MutatedType DEF RegisterWrite
  <2> QED BY <1>0, <2>1 DEF WireOrdered, WireBehind
<1>3. CASE CountWrite
  <2>1. wire' = wire /\ epoch' = epoch + 1 /\ epoch \in Nat
    BY <1>0, <1>3 DEF CountWrite, EpochRead, AuthTypeOK
  <2>2. \A c \in Clients : \A i \in 1..Len(wire[c]) : wire[c][i].epoch \in Nat
    BY <1>0, WireElement
  <2> QED BY SMT, <1>0, <2>1, <2>2 DEF WireOrdered, WireBehind
<1>4. CASE CountFails \/ Restart
  <2>1. wire' = wire /\ epoch' = epoch /\ write'.phase = "idle"
    BY SMT, <1>4 DEF CountFails, Restart, NoWrite
  <2> QED BY <1>0, <2>1 DEF WireOrdered, WireBehind
<1>5. CASE PublishWrite
  <2>1. epoch' = epoch /\ epoch \in Nat /\ write'.phase = "idle"
        /\ write.phase = "counted" /\ Delta(write).epoch = epoch
    BY <1>0, <1>5 DEF PublishWrite, NoWrite, Delta, AuthTypeOK
  <2>2. ASSUME NEW c \in Clients
        PROVE  /\ \A i, j \in 1..Len(wire'[c]) :
                    i < j => wire'[c][i].epoch < wire'[c][j].epoch
               /\ \A i \in 1..Len(wire'[c]) : wire'[c][i].epoch <= epoch
    <3>1. \A i \in 1..Len(wire[c]) : wire[c][i].epoch < epoch
      BY <1>0, <2>1 DEF WireBehind
    <3>2. \A i, j \in 1..Len(wire[c]) : i < j => wire[c][i].epoch < wire[c][j].epoch
      BY <1>0 DEF WireOrdered
    <3>3. \A i \in 1..Len(wire[c]) : wire[c][i].epoch \in Nat
      BY <1>0, WireElement
    <3>4. Len(wire[c]) \in Nat
      BY SMT, <1>0 DEF AuthTypeOK
    <3>5. CASE wire'[c] = wire[c]
      BY SMT, <2>1, <3>1, <3>2, <3>3, <3>5
    <3>6. CASE wire'[c] # wire[c]
      <4>1. /\ Len(wire'[c]) = Len(wire[c]) + 1
            /\ \A i \in 1..Len(wire[c]) : wire'[c][i] = wire[c][i]
            /\ wire'[c][Len(wire[c]) + 1].epoch = epoch
        BY <1>0, <1>5, <2>1, <3>6, PublishedWire
      <4>2. ASSUME NEW i \in 1..Len(wire'[c])
            PROVE  \/ i \in 1..Len(wire[c]) /\ wire'[c][i] = wire[c][i]
                   \/ i = Len(wire[c]) + 1 /\ wire'[c][i].epoch = epoch
        BY SMT, <3>4, <4>1
      <4>3. \A i \in 1..Len(wire'[c]) : wire'[c][i].epoch <= epoch
        BY SMT, <2>1, <3>1, <3>3, <4>2
      <4>4. ASSUME NEW i \in 1..Len(wire'[c]), NEW j \in 1..Len(wire'[c]), i < j
            PROVE  wire'[c][i].epoch < wire'[c][j].epoch
        <5>1. i \in 1..Len(wire[c]) /\ wire'[c][i] = wire[c][i]
          BY SMT, <3>4, <4>1, <4>4
        <5>2. CASE j \in 1..Len(wire[c]) /\ wire'[c][j] = wire[c][j]
          BY <3>2, <4>4, <5>1, <5>2
        <5>3. CASE wire'[c][j].epoch = epoch
          BY <3>1, <5>1, <5>3
        <5> QED BY <4>2, <5>2, <5>3
      <4> QED BY <4>3, <4>4
    <3> QED BY <3>5, <3>6
  <2> QED BY <2>1, <2>2 DEF WireOrdered, WireBehind
<1>6. CASE \E d \in Clients : TakeDelta(d)
  <2>1. PICK d \in Clients : TakeDelta(d)
    BY <1>6
  <2>2. epoch' = epoch /\ write' = write
    BY <2>1 DEF TakeDelta
  <2>3. ASSUME NEW c \in Clients
        PROVE  /\ \A i, j \in 1..Len(wire'[c]) :
                    i < j => wire'[c][i].epoch < wire'[c][j].epoch
               /\ \A i \in 1..Len(wire'[c]) :
                    /\ wire'[c][i].epoch <= epoch
                    /\ write.phase = "counted" => wire'[c][i].epoch < epoch
    <3>1. PICK s \in {0, 1} :
            /\ Len(wire'[c]) = Len(wire[c]) - s
            /\ \A i \in 1..Len(wire'[c]) : wire'[c][i] = wire[c][i + s]
      BY <1>0, <2>1, TakenWire
    <3>2. Len(wire[c]) \in Nat
      BY SMT, <1>0 DEF AuthTypeOK
    <3>3. \A i, j \in 1..Len(wire[c]) : i < j => wire[c][i].epoch < wire[c][j].epoch
      BY <1>0 DEF WireOrdered
    <3>4. \A i \in 1..Len(wire[c]) :
            /\ wire[c][i].epoch <= epoch
            /\ write.phase = "counted" => wire[c][i].epoch < epoch
      BY <1>0 DEF WireBehind
    <3>5. \A i \in 1..Len(wire'[c]) : i + s \in 1..Len(wire[c])
      BY SMT, <3>1, <3>2
    <3>6. ASSUME NEW i \in 1..Len(wire'[c]), NEW j \in 1..Len(wire'[c]), i < j
          PROVE  wire'[c][i].epoch < wire'[c][j].epoch
      <4>1. i + s < j + s
        BY SMT, <3>1, <3>2, <3>6
      <4> QED BY <3>1, <3>3, <3>5, <4>1
    <3> QED BY <3>1, <3>4, <3>5, <3>6
  <2> QED BY <2>2, <2>3 DEF WireOrdered, WireBehind
<1>7. CASE UNCHANGED authVars
  BY <1>0, <1>7 DEF authVars, WireOrdered, WireBehind
<1> QED BY <1>1, <1>2, <1>3, <1>4, <1>5, <1>6, <1>7 DEF AuthNext, AuthWrite

\* A delta is appended only by PublishWrite, under the lock, when store and
\* registry agree on the written model; what is under way never changes.
LEMMA DeltaStep ==
  ASSUME AuthTypeOK, StoreAgrees, DeltaVerifiable, [AuthNext]_authVars
  PROVE  DeltaVerifiable'
<1> SUFFICES ASSUME HasStore, ~FlakyReads, NEW c \in Clients,
                    NEW i \in 1..Len(wire'[c]),
                    Baked[wire'[c][i].model] = NoConfig
             PROVE  wire'[c][i].config = wire'[c][i].hash[wire'[c][i].model]
  BY DEF DeltaVerifiable
<1>0. AuthTypeOK /\ StoreAgrees /\ DeltaVerifiable
  OBVIOUS
<1>1. ASSUME NEW k \in 1..Len(wire[c]), wire'[c][i] = wire[c][k]
      PROVE  wire'[c][i].config = wire'[c][i].hash[wire'[c][i].model]
  BY <1>0, <1>1 DEF DeltaVerifiable
<1>2. CASE PublishWrite
  <2>1. Len(wire[c]) \in Nat
    BY SMT, <1>0 DEF AuthTypeOK
  <2>2. CASE i \in 1..Len(wire[c])
    <3>1. wire'[c][i] = wire[c][i]
      BY <1>0, <1>2, <2>2, PublishedWire
    <3> QED BY <1>1, <2>2, <3>1
  <2>3. CASE i \notin 1..Len(wire[c])
    <3>1. wire'[c][i] = Delta(write)
      BY SMT, <1>0, <1>2, <2>1, <2>3, PublishedWire
    <3>2. write.phase = "counted" /\ write.model \in Models
      BY SMT, <1>0, <1>2 DEF PublishWrite, AuthTypeOK, NoWrite
    <3>3. Baked[write.model] = NoConfig
      BY SMT, <3>1 DEF Delta
    <3>4. store[write.model] = registry[write.model]
      BY <1>0, <3>2, <3>3 DEF StoreAgrees, Upcoming
    <3> QED BY SMT, <3>1, <3>4 DEF Delta, DeltaConfig
  <2> QED BY <2>2, <2>3
<1>3. CASE \E d \in Clients : TakeDelta(d)
  <2>1. PICK d \in Clients : TakeDelta(d)
    BY <1>3
  <2>2. PICK s \in {0, 1} :
          /\ Len(wire'[c]) = Len(wire[c]) - s
          /\ \A j \in 1..Len(wire'[c]) : wire'[c][j] = wire[c][j + s]
    BY <1>0, <2>1, TakenWire
  <2>3. i + s \in 1..Len(wire[c])
    BY SMT, <1>0, <2>2 DEF AuthTypeOK
  <2> QED BY <1>1, <2>2, <2>3
<1>4. CASE wire' = wire
  BY <1>1, <1>4
<1>5. PublishWrite \/ (\E d \in Clients : TakeDelta(d)) \/ wire' = wire
  BY DEF AuthNext, AuthWrite, AddModel, ReplaceModel, DeleteModel,
     RegisterWrite, CountWrite, CountFails, Restart, authVars
<1> QED BY <1>2, <1>3, <1>4, <1>5

\* The conjunction every safety result below is read off.
AuthInv == AuthTypeOK /\ StoreAgrees /\ WireOrdered /\ WireBehind /\ DeltaVerifiable

\* The conjunction is invariant: it holds of a fresh sie-config and no step of
\* a write, restart or delivery breaks it.
LEMMA AuthInvariance == AuthSpec => []AuthInv
<1>1. AuthInit => StoreAgrees /\ WireOrdered /\ WireBehind /\ DeltaVerifiable
  <2> SUFFICES ASSUME AuthInit
               PROVE  StoreAgrees /\ WireOrdered /\ WireBehind /\ DeltaVerifiable
    OBVIOUS
  <2>1. \A c \in Clients : Len(wire[c]) = 0
    BY DEF AuthInit
  <2>2. StoreAgrees
    BY DEF AuthInit, StoreAgrees, Upcoming, NoWrite
  <2> QED BY SMT, <2>1, <2>2 DEF WireOrdered, WireBehind, DeltaVerifiable
<1>2. AuthTypeOK /\ StoreAgrees /\ WireOrdered /\ WireBehind /\ DeltaVerifiable
        /\ [AuthNext]_authVars
      => StoreAgrees' /\ WireOrdered' /\ WireBehind' /\ DeltaVerifiable'
  BY StoreAgreesStep, WireStep, DeltaStep
<1> QED BY <1>1, <1>2, AuthTypeCorrect, PTL DEF AuthSpec, AuthInv

\* The store and the registry agree, at every step of every write and across
\* restarts, on every model that is not an API write over a baked one.
THEOREM StoreAndRegistryAgree == AuthSpec => []StoreAgrees
BY AuthInvariance, PTL DEF AuthInv

\* export_snapshot ships configurations that hash to the hashes it ships.
THEOREM ExportIsVerifiable == AuthSpec => []ExportVerifiable
<1>1. AuthTypeOK /\ StoreAgrees => ExportVerifiable
  BY SMT, BakedAssumption DEF AuthTypeOK, StoreAgrees, ExportVerifiable, Upcoming,
     LockFree, NoWrite, Snapshot, ExportConfig, Catalog
<1> QED BY <1>1, AuthInvariance, PTL DEF AuthInv

\* Deltas reach each subscriber in strictly increasing epoch order.
THEOREM DeltasAreOrdered == AuthSpec => []WireOrdered
BY AuthInvariance, PTL DEF AuthInv

\* A delta's configuration is the one its hash covers.
THEOREM DeltasAreVerifiable == AuthSpec => []DeltaVerifiable
BY AuthInvariance, PTL DEF AuthInv

\* A restart, at any point of a write, loses no registered API model.
THEOREM RestartIsSafe == AuthSpec => RestartKeepsApiModels
<1>1. ASSUME AuthInv
      PROVE  HasStore /\ ~FlakyReads /\ Restart =>
               \A m \in Models : Baked[m] = NoConfig => registry'[m] = Upcoming(m)
  <2> SUFFICES ASSUME HasStore, ~FlakyReads, Restart,
                      NEW m \in Models, Baked[m] = NoConfig
               PROVE  registry'[m] = Upcoming(m)
    OBVIOUS
  <2>1. store[m] \in Config /\ registry' = Restored(store)
    BY <1>1 DEF AuthInv, AuthTypeOK, Catalog, Restart
  <2>2. Restored(store)[m] = store[m]
    BY <2>1, MergeNothing DEF Restored
  <2> QED BY <1>1, <2>1, <2>2 DEF AuthInv, StoreAgrees
<1> QED BY <1>1, AuthInvariance, PTL DEF RestartKeepsApiModels

-----------------------------------------------------------------------------
(* Deleted models. *)

\* A write in progress has an operation, a model and a body.
LEMMA WriteShape ==
  ASSUME AuthTypeOK
  PROVE  /\ write = NoWrite <=> write.phase = "idle"
         /\ write # NoWrite => write \in [phase: {"persisted", "registered", "counted"},
                                          op: {"add", "replace", "delete"}, model: Models, body: Config]
BY SMT DEF AuthTypeOK, NoWrite

\* A model without a stored document shows, or is about to show, what the image
\* has of it; a DELETE in progress has removed the document.
GoneInv ==
  /\ HasStore => \A m \in Models : store[m] = NoConfig => Upcoming(m) = Baked[m]
  /\ write # NoWrite /\ write.op = "delete" => HasStore /\ store[write.model] = NoConfig

\* Every step of sie-config keeps GoneInv, failed reads of the store included: a
\* document that is written is never empty, and a restart over no document
\* rebuilds what the image has.
LEMMA GoneStep ==
  ASSUME AuthTypeOK, GoneInv, [AuthNext]_authVars
  PROVE  GoneInv'
<1>0. /\ AuthTypeOK /\ store \in Catalog
      /\ HasStore => \A m \in Models : store[m] = NoConfig => Upcoming(m) = Baked[m]
      /\ write # NoWrite /\ write.op = "delete" => HasStore /\ store[write.model] = NoConfig
  BY DEF GoneInv, AuthTypeOK
<1>1. ASSUME NEW m \in Models, NEW c \in Bodies, AddModel(m, c)
      PROVE  GoneInv'
  <2>1. HasStore => \E d : store' = [store EXCEPT ![m] = Merge(d, c)]
    BY <1>1 DEF AddModel
  <2>2. \A d : Merge(d, c) # NoConfig
    BY BodiesAssumption DEF Merge, NoConfig, Config
  <2>3. /\ write.phase = "idle" /\ registry' = registry
        /\ write' = [phase |-> "persisted", op |-> "add", model |-> m, body |-> c]
    BY <1>1 DEF AddModel, LockFree, NoWrite
  <2> QED BY SMT, <1>0, <2>1, <2>2, <2>3 DEF GoneInv, Upcoming, Catalog
<1>2. ASSUME NEW m \in Models, NEW c \in Bodies, ReplaceModel(m, c)
      PROVE  GoneInv'
  <2>1. /\ write.phase = "idle" /\ registry' = registry
        /\ HasStore => store' = [store EXCEPT ![m] = c]
        /\ write' = [phase |-> "persisted", op |-> "replace", model |-> m, body |-> c]
    BY <1>2 DEF ReplaceModel, LockFree, NoWrite
  <2>2. c # NoConfig
    BY BodiesAssumption
  <2> QED BY <1>0, <2>1, <2>2 DEF GoneInv, Upcoming, Catalog
<1>3. ASSUME NEW m \in Models, DeleteModel(m)
      PROVE  GoneInv'
  <2>1. /\ write.phase = "idle" /\ registry' = registry /\ HasStore
        /\ store' = [store EXCEPT ![m] = NoConfig]
        /\ write' = [phase |-> "persisted", op |-> "delete", model |-> m, body |-> NoConfig]
    BY <1>3 DEF DeleteModel, LockFree, NoWrite
  <2>2. Mutated(write)' = Baked[m]
    BY <2>1 DEF Mutated
  <2> QED BY <1>0, <2>1, <2>2 DEF GoneInv, Upcoming, Catalog
<1>4. CASE RegisterWrite
  <2>1. write \in [phase: {"persisted"}, op: {"add", "replace", "delete"}, model: Models, body: Config]
    BY <1>0, <1>4, MutatedType DEF RegisterWrite
  <2>2. /\ store' = store /\ registry' = [registry EXCEPT ![write.model] = Mutated(write)]
        /\ write' = [write EXCEPT !.phase = "registered"] /\ write.phase = "persisted"
    BY <1>4 DEF RegisterWrite
  <2>3. /\ write'.phase = "registered" /\ write'.op = write.op /\ write'.model = write.model
        /\ write.model \in Models
    BY <2>1, <2>2
  <2>4. \A m \in Models : Upcoming(m)' = Upcoming(m)
    BY <1>0, <2>2, <2>3 DEF Upcoming, AuthTypeOK, Catalog
  <2>5. write # NoWrite
    BY SMT, <2>2 DEF NoWrite
  <2> QED BY <1>0, <2>2, <2>3, <2>4, <2>5 DEF GoneInv
<1>5. CASE CountWrite
  <2>1. write.phase = "registered" /\ write # NoWrite
    BY SMT, <1>5 DEF CountWrite, NoWrite
  <2>2. write \in [phase: {"persisted", "registered", "counted"}, op: {"add", "replace", "delete"},
                   model: Models, body: Config]
    BY <1>0, <2>1, WriteShape
  <2>3. /\ store' = store /\ registry' = registry /\ write' = [write EXCEPT !.phase = "counted"]
    BY <1>5 DEF CountWrite
  <2>4. write'.phase = "counted" /\ write'.op = write.op /\ write'.model = write.model
    BY <2>2, <2>3
  <2> QED BY <1>0, <2>1, <2>3, <2>4 DEF GoneInv, Upcoming
<1>6. CASE CountFails \/ PublishWrite
  <2>1. /\ store' = store /\ registry' = registry /\ write' = NoWrite
        /\ write.phase # "persisted" /\ write'.phase # "persisted"
    BY SMT, <1>6 DEF CountFails, PublishWrite, NoWrite
  <2> QED BY <1>0, <2>1 DEF GoneInv, Upcoming
<1>7. CASE Restart
  <2>1. write' = NoWrite /\ write'.phase = "idle" /\ store' = store /\ registry' = Restored(store)
    BY <1>7 DEF Restart, NoWrite
  <2>2. \A m \in Models : store[m] = NoConfig => Restored(store)[m] = Baked[m]
    BY BakedAssumption DEF Restored, Conflicts, Merge, NoConfig, Catalog, Config
  <2> QED BY <2>1, <2>2 DEF GoneInv, Upcoming
<1>8. CASE UNCHANGED <<store, registry, write>>
  BY <1>8 DEF GoneInv, Upcoming, Mutated
<1>9. (\E c \in Clients : TakeDelta(c)) \/ UNCHANGED authVars => UNCHANGED <<store, registry, write>>
  BY DEF TakeDelta, authVars
<1> QED BY <1>1, <1>2, <1>3, <1>4, <1>5, <1>6, <1>7, <1>8, <1>9 DEF AuthNext, AuthWrite

-----------------------------------------------------------------------------
(* The idempotency cache. *)

\* The places of a handler that works on its key.
Owning == {"locking", "writing", "closing"}

\* The entries of the cache.
EntryT == [key: Keys, payload: {Payload(r) : r \in Requests}, answer: Success]

\* A key has at most one response in the cache.
CacheInv == \A i, j \in 1..Len(cache) : cache[i].key = cache[j].key => i = j

\* A key without a response has nothing to drop from the cache.
LEMMA OthersSame ==
  ASSUME NEW k, Entries(k) = {}
  PROVE  Others(k) = cache
BY DEF Others

\* Newest keeps all but the oldest of one entry too many, in order.
LEMMA NewestFacts ==
  ASSUME NEW S, NEW s \in Seq(S), Len(s) = CacheSize + 1
  PROVE  /\ Newest(s) \in Seq(S) /\ Len(Newest(s)) = CacheSize
         /\ \A i \in 1..CacheSize : Newest(s)[i] = s[i + 1]
<1>1. CacheSize \in Nat /\ Len(s) \in Nat
  BY SMT, CacheAssumption
<1>2. Newest(s) = SubSeq(s, 2, Len(s))
  BY SMT, <1>1 DEF Newest
<1> QED BY SMT, <1>1, <1>2

\* Remember appends one entry and shifts the others by the one it evicts, if any:
\* the bound is kept.
LEMMA Remembers ==
  ASSUME ApiTypeOK, NEW k \in Keys, Entries(k) = {}, NEW r \in Requests, NEW a \in Success,
         cache' = Remember(k, Payload(r), a)
  PROVE  \E d \in {0, 1} :
           /\ cache' \in Seq(EntryT) /\ Len(cache') = Len(cache) + 1 - d /\ Len(cache') <= CacheSize
           /\ Len(cache') >= 1
           /\ cache'[Len(cache')] = [key |-> k, payload |-> Payload(r), answer |-> a]
           /\ \A i \in 1..(Len(cache') - 1) : cache'[i] = cache[i + d]
<1> DEFINE e == [key |-> k, payload |-> Payload(r), answer |-> a]
           s == Append(cache, e)
<1>1. cache \in Seq(EntryT) /\ Len(cache) \in Nat /\ CacheSize \in Nat \ {0} /\ Len(cache) <= CacheSize
  BY SMT, CacheAssumption DEF ApiTypeOK, EntryT
<1>2. e \in EntryT
  BY DEF EntryT
<1>3. cache' = IF Len(s) > CacheSize THEN Newest(s) ELSE s
  BY SMT, OthersSame DEF Remember
<1> HIDE DEF e
<1>4. /\ s \in Seq(EntryT) /\ Len(s) = Len(cache) + 1 /\ s[Len(s)] = e
      /\ \A i \in 1..Len(cache) : s[i] = cache[i]
  BY SMT, <1>1, <1>2
<1> HIDE DEF s
<1>5. CASE Len(s) > CacheSize
  <2>1. Len(s) = CacheSize + 1 /\ cache' = Newest(s)
    BY SMT, <1>1, <1>3, <1>4, <1>5
  <2>2. /\ cache' \in Seq(EntryT) /\ Len(cache') = CacheSize
        /\ \A i \in 1..CacheSize : cache'[i] = s[i + 1]
    BY SMT, <1>4, <2>1, NewestFacts
  <2>3. cache'[Len(cache')] = e /\ \A i \in 1..(Len(cache') - 1) : cache'[i] = cache[i + 1]
    BY SMT, <1>1, <1>4, <2>1, <2>2
  <2> QED BY SMT, <1>1, <1>4, <2>1, <2>2, <2>3 DEF e
<1>6. CASE ~(Len(s) > CacheSize)
  <2>1. cache' = s
    BY <1>3, <1>6
  <2> QED BY SMT, <1>1, <1>4, <1>6, <2>1 DEF e
<1> QED BY <1>5, <1>6

\* After Remember the key has exactly its own response, every other key keeps
\* its response or has lost it, and no key has two.
LEMMA RememberFacts ==
  ASSUME ApiTypeOK, CacheInv, NEW k \in Keys, Entries(k) = {}, NEW r \in Requests, NEW a \in Success,
         cache' = Remember(k, Payload(r), a)
  PROVE  /\ cache' \in Seq(EntryT) /\ Len(cache') <= CacheSize
         /\ CacheInv'
         /\ Entries(k)' = {[key |-> k, payload |-> Payload(r), answer |-> a]}
         /\ \A x \in Keys : x # k => Entries(x)' = {} \/ Entries(x)' = Entries(x)
<1> DEFINE e == [key |-> k, payload |-> Payload(r), answer |-> a]
<1>1. PICK d \in {0, 1} :
           /\ cache' \in Seq(EntryT) /\ Len(cache') = Len(cache) + 1 - d /\ Len(cache') <= CacheSize
           /\ Len(cache') >= 1
           /\ cache'[Len(cache')] = e
           /\ \A i \in 1..(Len(cache') - 1) : cache'[i] = cache[i + d]
  BY Remembers
<1>2. Len(cache) \in Nat /\ Len(cache') \in Nat /\ e.key = k
  BY SMT, <1>1 DEF ApiTypeOK, EntryT
<1> HIDE DEF e
<1>3. \A i \in 1..Len(cache) : cache[i].key # k
  BY DEF Entries
<1>4. \A i \in 1..(Len(cache') - 1) : i + d \in 1..Len(cache) /\ cache'[i] = cache[i + d]
  BY SMT, <1>1, <1>2
<1>5. \A i \in 1..Len(cache') : i = Len(cache') \/ i \in 1..(Len(cache') - 1)
  BY SMT, <1>2
<1>6. CacheInv'
  <2> SUFFICES ASSUME NEW i \in 1..Len(cache'), NEW j \in 1..Len(cache'), cache'[i].key = cache'[j].key
               PROVE  i = j
    BY DEF CacheInv
  <2>1. CASE i \in 1..(Len(cache') - 1) /\ j \in 1..(Len(cache') - 1)
    <3>1. /\ i + d \in 1..Len(cache) /\ j + d \in 1..Len(cache)
          /\ cache[i + d].key = cache[j + d].key
      BY <1>4, <2>1
    <3>2. i + d = j + d
      BY <3>1 DEF CacheInv
    <3> QED BY SMT, <3>2
  <2>2. CASE i = Len(cache') /\ j \in 1..(Len(cache') - 1)
    BY <1>1, <1>2, <1>3, <1>4, <2>2
  <2>3. CASE j = Len(cache') /\ i \in 1..(Len(cache') - 1)
    BY <1>1, <1>2, <1>3, <1>4, <2>3
  <2> QED BY <1>5, <2>1, <2>2, <2>3
<1>7. Entries(k)' = {e}
  <2>1. Len(cache') \in 1..Len(cache') /\ cache'[Len(cache')] = e /\ e.key = k
    BY SMT, <1>1, <1>2
  <2>2. \A i \in 1..Len(cache') : cache'[i].key = k => i = Len(cache')
    BY <1>3, <1>4, <1>5
  <2> QED BY <2>1, <2>2 DEF Entries
<1>8. ASSUME NEW x \in Keys, x # k, Entries(x)' # {} PROVE Entries(x)' = Entries(x)
  <2>1. PICK i \in 1..Len(cache') : cache'[i].key = x
    BY <1>8 DEF Entries
  <2>2. i \in 1..(Len(cache') - 1) /\ i + d \in 1..Len(cache) /\ cache[i + d].key = x /\ cache'[i] = cache[i + d]
    BY <1>1, <1>2, <1>4, <1>5, <1>8, <2>1
  <2>3. \A j \in 1..Len(cache') : cache'[j].key = x => j = i
    BY <1>6, <2>1 DEF CacheInv
  <2>4. \A j \in 1..Len(cache) : cache[j].key = x => j = i + d
    BY <2>2 DEF CacheInv
  <2>5. Entries(x)' = {cache'[i]}
    BY <2>1, <2>3 DEF Entries
  <2>6. Entries(x) = {cache[i + d]}
    BY <2>2, <2>4 DEF Entries
  <2> QED BY <2>2, <2>5, <2>6
<1> QED BY <1>1, <1>6, <1>7, <1>8 DEF e

-----------------------------------------------------------------------------
(* What the steps of a handler do. *)

\* The states of a handler.
ReqT == [at: {"arriving", "waiting", "locking", "writing"}]
        \cup [at: {"woken"}, outcome: Success \cup Failure]
        \cup [at: {"closing"}, outcome: Success \cup Failure]
        \cup [at: {"done"}, outcome: Success \cup Failure \cup {"applied", "mismatch", "lost"}]

\* The states the steps give a handler are states of a handler.
LEMMA ReqTypes ==
  /\ \A a \in {"arriving", "waiting", "locking", "writing"} : [at |-> a] \in ReqT
  /\ \A o \in Success \cup Failure : /\ [at |-> "woken", outcome |-> o] \in ReqT
                                     /\ [at |-> "closing", outcome |-> o] \in ReqT
  /\ \A o \in Success \cup Failure \cup {"applied", "mismatch", "lost"} :
       [at |-> "done", outcome |-> o] \in ReqT
  /\ \A x \in ReqT : x.at \in {"woken", "closing"} => x.outcome \in Success \cup Failure
BY DEF ReqT

\* What a request asks is well formed.
LEMMA CallFacts ==
  ASSUME ApiTypeOK, NEW r \in Requests
  PROVE  /\ call[r].op \in {"add", "replace", "delete"} /\ call[r].model \in Models
         /\ call[r].op # "delete" => call[r].body \in Bodies
         /\ Key(r) \in Keys \cup {None} /\ (Key(r) # None => Key(r) \in Keys)
         /\ req[r] \in ReqT
<1>1. call[r] \in Calls
  BY DEF ApiTypeOK
<1>2. call[r].op \in {"add", "replace", "delete"} /\ call[r].model \in Models /\ call[r].key \in Keys \cup {None}
  BY <1>1, CallsAssumption
<1>3. req[r] \in ReqT
  BY DEF ApiTypeOK, ReqT
<1> QED BY <1>1, <1>2, <1>3, WrittenAssumption DEF Key

\* The responses found under a key are entries of that key.
LEMMA EntryFacts ==
  ASSUME ApiTypeOK, NEW k, NEW e \in Entries(k)
  PROVE  e \in EntryT /\ e.key = k
<1>1. PICK i \in 1..Len(cache) : e = cache[i] /\ cache[i].key = k
  BY DEF Entries
<1>2. cache \in Seq(EntryT)
  BY DEF ApiTypeOK, EntryT
<1>3. cache[i] \in EntryT
  BY SMT, <1>2
<1> QED BY <1>1, <1>3

\* Every step of the handlers is a step of sie-config or leaves it alone, except
\* a DELETE cancelled between the deletion of the file and of the entry.
LEMMA AuthoritySteps ==
  ASSUME ApiTypeOK, [ApiNext]_vars
  PROVE  \/ [AuthNext]_authVars
         \/ \E r \in Requests : Cancel(r) /\ req[r].at = "writing" /\ Unshielded(r) = "deleting"
<1>1. ASSUME NEW r \in Requests, Lock(r) PROVE [AuthNext]_authVars
  <2>1. CASE AddModel(call[r].model, call[r].body) /\ call[r].op = "add"
    BY <2>1, CallFacts DEF AuthNext, AuthWrite
  <2>2. CASE ReplaceModel(call[r].model, call[r].body) /\ call[r].op = "replace"
    BY <2>2, CallFacts DEF AuthNext, AuthWrite
  <2>3. CASE DeleteModel(call[r].model)
    BY <2>3, CallFacts DEF AuthNext, AuthWrite
  <2>4. call[r].op \in {"add", "replace", "delete"}
    BY CallFacts
  <2> QED BY <1>1, <2>1, <2>2, <2>3, <2>4 DEF Lock
<1>2. ASSUME NEW r \in Requests, Write(r) PROVE AuthNext
  BY <1>2 DEF Write, AuthNext, AuthWrite
<1>3. ASSUME NEW r \in Requests, Claim(r) \/ Reclaim(r) \/ Settle(r) \/ Unavailable(r) PROVE UNCHANGED authVars
  BY <1>3 DEF Claim, Reclaim, Settle, Unavailable
<1>4. ASSUME NEW r \in Requests, Cancel(r), req[r].at # "writing" PROVE UNCHANGED authVars
  BY <1>4 DEF Cancel, authVars
<1>5. ASSUME NEW r \in Requests, Cancel(r), req[r].at = "writing" PROVE Unshielded(r) = "deleting"
  BY <1>5, CancelAssumption DEF Cancel, Unshielded
<1>6. CASE ApiRestart
  BY <1>6 DEF ApiRestart, AuthNext
<1>7. CASE \E c \in Clients : TakeDelta(c) /\ UNCHANGED apiVars
  BY <1>7 DEF AuthNext
<1>8. CASE UNCHANGED vars
  BY <1>8 DEF vars
<1> QED BY <1>1, <1>2, <1>3, <1>4, <1>5, <1>6, <1>7, <1>8 DEF ApiNext, Handle

\* Every step of the handlers keeps the types of sie-config, that one included.
LEMMA AuthStep ==
  ASSUME ApiTypeOK, [ApiNext]_vars
  PROVE  AuthTypeOK'
<1>1. AuthTypeOK
  BY DEF ApiTypeOK
<1>2. ASSUME NEW r \in Requests, Cancel(r) PROVE AuthTypeOK'
  BY <1>1, <1>2 DEF Cancel, AuthTypeOK
<1> QED BY <1>1, <1>2, AuthTypeStep, AuthoritySteps

\* Close, Answer and GoTo change one handler, and to what.
LEMMA Closes ==
  ASSUME ApiTypeOK, NEW r \in Requests, NEW a \in Success \cup Failure, Close(r, a)
  PROVE  /\ req' \in [Requests -> ReqT] /\ \A q \in Requests : q # r => req'[q] = req[q]
         /\ req'[r].at = "closing" /\ req'[r].outcome = a
<1> DEFINE x == [at |-> "closing", outcome |-> a]
<1>1. req \in [Requests -> ReqT] /\ req' = [req EXCEPT ![r] = x]
  BY DEF ApiTypeOK, ReqT, Close
<1>2. x \in ReqT /\ x.at = "closing" /\ x.outcome = a
  BY ReqTypes
<1> HIDE DEF x
<1> QED BY <1>1, <1>2

\* The same of an answer.
LEMMA Answers ==
  ASSUME ApiTypeOK, NEW r \in Requests, NEW a \in Success \cup Failure \cup {"applied", "mismatch", "lost"},
         Answer(r, a)
  PROVE  /\ req' \in [Requests -> ReqT] /\ \A q \in Requests : q # r => req'[q] = req[q]
         /\ req'[r].at = "done" /\ req'[r].outcome = a
<1> DEFINE x == [at |-> "done", outcome |-> a]
<1>1. req \in [Requests -> ReqT] /\ req' = [req EXCEPT ![r] = x]
  BY DEF ApiTypeOK, ReqT, Answer
<1>2. x \in ReqT /\ x.at = "done" /\ x.outcome = a
  BY ReqTypes
<1> HIDE DEF x
<1> QED BY <1>1, <1>2

\* And of a handler that goes on.
LEMMA Goes ==
  ASSUME ApiTypeOK, NEW r \in Requests, NEW a \in {"waiting", "locking", "writing"}, GoTo(r, a)
  PROVE  /\ req' \in [Requests -> ReqT] /\ \A q \in Requests : q # r => req'[q] = req[q]
         /\ req'[r].at = a
<1> DEFINE x == [at |-> a]
<1>1. req \in [Requests -> ReqT] /\ req' = [req EXCEPT ![r] = x]
  BY DEF ApiTypeOK, ReqT, GoTo
<1>2. x \in ReqT /\ x.at = a
  BY ReqTypes
<1> HIDE DEF x
<1> QED BY <1>1, <1>2

\* What is replayed to a request is an answer.
LEMMA Replays ==
  ASSUME ApiTypeOK, NEW r \in Requests, NEW k, NEW e \in Entries(k), Replay(r, e)
  PROVE  \E a \in Success \cup {"mismatch"} :
           Answer(r, a) /\ (a \in Success => e.payload = Payload(r) /\ e.answer = a)
<1>1. e.answer \in Success
  BY EntryFacts DEF EntryT
<1> QED BY SMT, <1>1 DEF Replay, Success

\* What a step of one handler other than its end leaves alone, and where it goes.
LEMMA Moves ==
  ASSUME ApiTypeOK, NEW r \in Requests,
         Claim(r) \/ Reclaim(r) \/ Lock(r) \/ Write(r) \/ Unavailable(r) \/ Cancel(r)
  PROVE  /\ req' \in [Requests -> ReqT]
         /\ \A q \in Requests : q # r => req'[q] = req[q]
         /\ UNCHANGED <<call, cache, applied>>
         /\ Claim(r) \/ UNCHANGED in_flight
         /\ Claim(r) \/ (req'[r].at \in Owning <=> req[r].at \in Owning)
         /\ Claim(r) \/ req'[r].at \in {"writing", "closing", "done"}
<1>1. UNCHANGED <<call, cache, applied>> /\ (Claim(r) \/ UNCHANGED in_flight)
  BY DEF Claim, Reclaim, Lock, Write, Unavailable, Cancel
<1>2. CASE Claim(r)
  <2>1. \/ \E e \in Entries(Key(r)) : Replay(r, e)
        \/ GoTo(r, "locking") \/ GoTo(r, "waiting") \/ Answer(r, "mismatch")
    BY <1>2 DEF Claim
  <2> QED BY <1>1, <1>2, <2>1, Goes, Answers, Replays
<1>3. CASE Reclaim(r)
  <2>1. /\ req[r].at = "woken"
        /\ \/ \E e \in Entries(Key(r)) : Replay(r, e)
           \/ \E a \in Failure \cup {"applied"} : Answer(r, a)
    BY <1>3 DEF Reclaim
  <2> QED BY <1>1, <2>1, Answers, Replays DEF Owning
<1>4. CASE Lock(r)
  <2>1. /\ req[r].at = "locking"
        /\ GoTo(r, "writing") \/ Close(r, "conflict") \/ Close(r, "unchanged") \/ Close(r, "error")
    BY <1>4 DEF Lock
  <2> QED BY <1>1, <2>1, Goes, Closes DEF Owning, Success, Failure
<1>5. CASE Write(r)
  <2>1. req[r].at = "writing" /\ (UNCHANGED req \/ Close(r, "error") \/ Close(r, "changed"))
    BY <1>5 DEF Write
  <2>2. req \in [Requests -> ReqT]
    BY DEF ApiTypeOK, ReqT
  <2> QED BY <1>1, <2>1, <2>2, Closes DEF Owning, Success, Failure
<1>6. CASE Unavailable(r)
  <2>1. req[r].at = "arriving" /\ (Answer(r, "conflict") \/ Answer(r, "error"))
    BY <1>6 DEF Unavailable
  <2> QED BY <1>1, <2>1, Answers DEF Owning, Failure
<1>7. CASE Cancel(r)
  <2>1. req[r].at \in {"waiting", "locking", "writing"}
    BY <1>7, CancelAssumption DEF Cancel, Unshielded
  <2>2. IF req[r].at = "waiting" THEN Answer(r, "cancelled") ELSE Close(r, "cancelled")
    BY <1>7 DEF Cancel
  <2> QED BY <1>1, <2>1, <2>2, Answers, Closes DEF Owning, Failure
<1> QED BY <1>2, <1>3, <1>4, <1>5, <1>6, <1>7

\* Under the lock a request is closed, with success only when there is nothing
\* to do, or its own write begins.
LEMMA LockMoves ==
  ASSUME ApiTypeOK, NEW r \in Requests, Lock(r)
  PROVE  /\ req[r].at = "locking" /\ write = NoWrite
         /\ \/ UNCHANGED authVars /\ req'[r].at = "closing" /\
               (req'[r].outcome \in Success => NoOp(call[r]))
            \/ /\ req'[r].at = "writing" /\ write' # NoWrite
               /\ write'.op = call[r].op /\ write'.model = call[r].model
<1>1. req \in [Requests -> ReqT]
  BY DEF ApiTypeOK, ReqT
<1>2. req[r].at = "locking" /\ write = NoWrite
  BY DEF Lock, LockFree
<1>3. CASE Close(r, "conflict") /\ UNCHANGED authVars
  BY <1>1, <1>2, <1>3 DEF Close, Success
<1>4. CASE NoOp(call[r]) /\ Close(r, "unchanged") /\ UNCHANGED authVars
  BY <1>1, <1>2, <1>4 DEF Close
<1>5. CASE Close(r, "error") /\ UNCHANGED authVars
  BY <1>1, <1>2, <1>5 DEF Close, Success
<1>6. CASE /\ CASE call[r].op = "add"     -> AddModel(call[r].model, call[r].body)
                [] call[r].op = "replace" -> ReplaceModel(call[r].model, call[r].body)
                [] call[r].op = "delete"  -> DeleteModel(call[r].model)
           /\ GoTo(r, "writing")
  <2>1. req'[r].at = "writing"
    BY <1>1, <1>6 DEF GoTo
  <2>2. call[r].op \in {"add", "replace", "delete"}
    BY CallFacts
  <2>3. \E b : write' = [phase |-> "persisted", op |-> call[r].op, model |-> call[r].model, body |-> b]
    <3>1. CASE call[r].op = "add"
      BY <1>6, <3>1 DEF AddModel
    <3>2. CASE call[r].op = "replace"
      BY <1>6, <3>2 DEF ReplaceModel
    <3>3. CASE call[r].op = "delete"
      BY <1>6, <3>3 DEF DeleteModel
    <3> QED BY <2>2, <3>1, <3>2, <3>3
  <2>4. write' # NoWrite /\ write'.op = call[r].op /\ write'.model = call[r].model
    BY SMT, <2>3 DEF NoWrite
  <2> QED BY <1>2, <2>1, <2>4
<1> QED BY <1>3, <1>4, <1>5, <1>6 DEF Lock

\* A write goes on as the same write or ends and releases the lock.
LEMMA WriteMoves ==
  ASSUME ApiTypeOK, NEW r \in Requests, Write(r)
  PROVE  /\ req[r].at = "writing"
         /\ \/ /\ UNCHANGED req /\ write' # NoWrite /\ write'.op = write.op /\ write'.model = write.model
            \/ req'[r].at = "closing" /\ write' = NoWrite
<1>1. req \in [Requests -> ReqT] /\ AuthTypeOK
  BY DEF ApiTypeOK, ReqT
<1>2. CASE RegisterWrite /\ UNCHANGED req
  <2>1. write \in [phase: {"persisted", "registered", "counted"},
                   op: {"add", "replace", "delete"}, model: Models, body: Config]
    BY <1>1, <1>2, WriteShape DEF RegisterWrite
  <2>2. write' = [write EXCEPT !.phase = "registered"]
    BY <1>2 DEF RegisterWrite
  <2>3. write'.phase = "registered" /\ write'.op = write.op /\ write'.model = write.model
    BY <2>1, <2>2
  <2> QED BY SMT, <1>2, <2>3 DEF NoWrite, Write
<1>3. CASE CountWrite /\ UNCHANGED req
  <2>1. write \in [phase: {"persisted", "registered", "counted"},
                   op: {"add", "replace", "delete"}, model: Models, body: Config]
    BY <1>1, <1>3, WriteShape DEF CountWrite
  <2>2. write' = [write EXCEPT !.phase = "counted"]
    BY <1>3 DEF CountWrite
  <2>3. write'.phase = "counted" /\ write'.op = write.op /\ write'.model = write.model
    BY <2>1, <2>2
  <2> QED BY SMT, <1>3, <2>3 DEF NoWrite, Write
<1>4. CASE (CountFails /\ Close(r, "error")) \/ (PublishWrite /\ Close(r, "changed"))
  BY SMT, <1>1, <1>4 DEF CountFails, PublishWrite, Close, Write
<1> QED BY <1>2, <1>3, <1>4 DEF Write

\* What the end of a request does to the requests, the keys and the cache.
LEMMA SettleMoves ==
  ASSUME ApiTypeOK, NEW r \in Requests, Settle(r)
  PROVE  /\ UNCHANGED <<authVars, call>> /\ req[r].at = "closing" /\ req[r].outcome \in Success \cup Failure
         /\ req' \in [Requests -> ReqT] /\ in_flight' \in [Keys -> Requests \cup {None}]
         /\ req'[r] = [at |-> "done", outcome |-> req[r].outcome]
         /\ \A q \in Requests : q # r =>
              IF Key(r) # None /\ req[q].at = "waiting" /\ Key(q) = Key(r)
              THEN req'[q] = [at |-> "woken", outcome |-> req[r].outcome] ELSE req'[q] = req[q]
         /\ \A x \in Keys : in_flight'[x] = IF x = Key(r) THEN None ELSE in_flight[x]
         /\ cache' = IF Key(r) # None /\ req[r].outcome \in Success
                     THEN Remember(Key(r), Payload(r), req[r].outcome) ELSE cache
         /\ applied' = [x \in Keys |-> IF x = Key(r) /\ req[r].outcome \in Success
                                       THEN applied[x] \cup {Payload(r)} ELSE applied[x]]
<1> DEFINE out == req[r].outcome
<1>1. /\ req \in [Requests -> ReqT] /\ in_flight \in [Keys -> Requests \cup {None}]
  BY DEF ApiTypeOK, ReqT
<1>2. req[r].at = "closing" /\ out \in Success \cup Failure
  BY <1>1, ReqTypes DEF Settle
<1>3. req' = [q \in Requests |-> IF q = r THEN [at |-> "done", outcome |-> out]
                                ELSE IF Key(r) # None /\ Woken(r, q) THEN [at |-> "woken", outcome |-> out]
                                ELSE req[q]]
  BY DEF Settle
<1> HIDE DEF out
<1>4. [at |-> "done", outcome |-> out] \in ReqT /\ [at |-> "woken", outcome |-> out] \in ReqT
  BY <1>2, ReqTypes
<1>5. req' \in [Requests -> ReqT]
  BY <1>1, <1>3, <1>4
<1>6. in_flight' = [x \in Keys |-> IF x = Key(r) THEN None ELSE in_flight[x]]
  BY DEF Settle
<1>7. in_flight' \in [Keys -> Requests \cup {None}]
  BY <1>1, <1>6
<1> QED BY <1>2, <1>3, <1>5, <1>6, <1>7 DEF Settle, Woken, out

\* The same, request by request: the waiters of the key are woken with the
\* owner's outcome, the others are left alone.
LEMMA SettleEach ==
  ASSUME ApiTypeOK, NEW r \in Requests, Settle(r)
  PROVE  /\ req'[r].at = "done" /\ req'[r].outcome = req[r].outcome
         /\ \A q \in Requests : q # r =>
              IF Key(r) # None /\ req[q].at = "waiting" /\ Key(q) = Key(r)
              THEN req'[q].at = "woken" /\ req'[q].outcome = req[r].outcome ELSE req'[q] = req[q]
<1>1. req'[r].at = "done" /\ req'[r].outcome = req[r].outcome
  <2>1. req'[r] = [at |-> "done", outcome |-> req[r].outcome]
    BY SettleMoves
  <2> QED BY SMT, <2>1
<1>2. ASSUME NEW q \in Requests, q # r, Key(r) # None, req[q].at = "waiting", Key(q) = Key(r)
      PROVE  req'[q].at = "woken" /\ req'[q].outcome = req[r].outcome
  <2>1. req'[q] = [at |-> "woken", outcome |-> req[r].outcome]
    BY <1>2, SettleMoves
  <2> QED BY SMT, <2>1
<1>3. ASSUME NEW q \in Requests, q # r, ~(Key(r) # None /\ req[q].at = "waiting" /\ Key(q) = Key(r))
      PROVE  req'[q] = req[q]
  BY <1>3, SettleMoves
<1> QED BY <1>1, <1>2, <1>3

\* What a restart leaves of the handlers.
LEMMA RestartMoves ==
  ASSUME ApiTypeOK, ApiRestart
  PROVE  /\ req' \in [Requests -> ReqT] /\ in_flight' \in [Keys -> Requests \cup {None}]
         /\ \A q \in Requests : req'[q].at \in {"arriving", "done"}
         /\ \A q \in Requests : IF req[q].at \in {"arriving", "done"} THEN req'[q] = req[q]
                                ELSE req'[q] = [at |-> "done", outcome |-> "lost"]
         /\ \A k \in Keys : in_flight'[k] = None
         /\ cache' = <<>> /\ \A k : Entries(k)' = {}
         /\ UNCHANGED <<call, applied>> /\ write' = NoWrite /\ Restart
<1>1. req \in [Requests -> ReqT] /\ [at |-> "done", outcome |-> "lost"] \in ReqT
  BY ReqTypes DEF ApiTypeOK, ReqT
<1>2. req' = [r \in Requests |-> IF req[r].at \in {"arriving", "done"} THEN req[r]
                                ELSE [at |-> "done", outcome |-> "lost"]]
  BY DEF ApiRestart
<1>3. req' \in [Requests -> ReqT] /\ \A q \in Requests : req'[q].at \in {"arriving", "done"}
  BY <1>1, <1>2
<1>4. \A q \in Requests : IF req[q].at \in {"arriving", "done"} THEN req'[q] = req[q]
                          ELSE req'[q] = [at |-> "done", outcome |-> "lost"]
  BY <1>2
<1>5. cache' = <<>> /\ in_flight' = [k \in Keys |-> None] /\ UNCHANGED <<call, applied>>
  BY DEF ApiRestart
<1>6. \A k : Entries(k)' = {}
  BY SMT, <1>5 DEF Entries
<1>7. write' = NoWrite /\ Restart
  BY DEF ApiRestart, Restart
<1> QED BY <1>3, <1>4, <1>5, <1>6, <1>7
=============================================================================
