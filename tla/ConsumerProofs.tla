--------------------------- MODULE ConsumerProofs ---------------------------
(***************************************************************************)
(* Proofs about the consumers of sie-config, for any number of models,     *)
(* profiles, clients, backend processes and faults.                        *)
(*                                                                         *)
(* WorkerConfig: what the worker advertises from a commit is a catalogue   *)
(* sie-config had at that epoch, and its children agree whenever the pool  *)
(* is open under a committed configuration.                                *)
(* GatewayConfig: the types of its state; an export never takes back a     *)
(* delta; bundles and models are installed as they were deployed together. *)
(***************************************************************************)
EXTENDS WorkerConfig, GatewayConfig, TLAPS

\* Most leaves are set reasoning without arithmetic, for Zenon; the others say SMT.
USE ZenonT(30), SMTT(30)

-----------------------------------------------------------------------------
(* sie-config, as far as both proofs use it. *)

\* The state of sie-config, without the answers being computed.
AuthShape ==
  /\ store \in Catalog /\ registry \in Catalog /\ epoch \in Nat
  /\ write \in {NoWrite} \cup
       [phase: {"persisted", "registered", "counted"},
        op: {"add", "replace", "delete"}, model: Models, body: Config]
  /\ wire \in [Clients -> Seq(Notification)]

\* The messages of a sequence.
Messages(s) == {s[i] : i \in 1..Len(s)}

(* What the operations of a subscription do to the messages in it.          *)
LEMMA QueueFacts ==
  ASSUME NEW S, NEW s \in Seq(S)
  PROVE  /\ Messages(s) \subseteq S
         /\ \A e \in S : Append(s, e) \in Seq(S)
                         /\ Messages(Append(s, e)) = Messages(s) \cup {e}
         /\ s # <<>> => /\ Head(s) \in Messages(s) /\ Tail(s) \in Seq(S)
                        /\ Messages(Tail(s)) \subseteq Messages(s)
<1>1. Messages(s) \subseteq S
  BY SMT DEF Messages
<1>2. ASSUME NEW e \in S
      PROVE  Append(s, e) \in Seq(S) /\ Messages(Append(s, e)) = Messages(s) \cup {e}
  <2>1. /\ Append(s, e) \in Seq(S) /\ Len(Append(s, e)) = Len(s) + 1 /\ Len(s) \in Nat
        /\ Append(s, e)[Len(s) + 1] = e
        /\ \A i \in 1..Len(s) : Append(s, e)[i] = s[i]
    BY SMT
  <2>2. 1..(Len(s) + 1) = 1..Len(s) \cup {Len(s) + 1}
    BY SMT, <2>1
  <2> QED BY <2>1, <2>2 DEF Messages
<1>3. ASSUME s # <<>>
      PROVE  /\ Head(s) \in Messages(s) /\ Tail(s) \in Seq(S)
             /\ Messages(Tail(s)) \subseteq Messages(s)
  <2>1. /\ Len(s) \in Nat /\ Len(s) >= 1 /\ Head(s) = s[1] /\ Tail(s) \in Seq(S)
        /\ Len(Tail(s)) = Len(s) - 1
        /\ \A i \in 1..(Len(s) - 1) : Tail(s)[i] = s[i + 1]
    BY SMT, <1>3
  <2>2. \A i \in 1..(Len(s) - 1) : i + 1 \in 1..Len(s)
    BY SMT, <2>1
  <2> QED BY SMT, <2>1, <2>2 DEF Messages
<1> QED BY <1>1, <1>2, <1>3

(* Merging configurations gives one; it is not the empty one if one of them *)
(* is not.                                                                  *)
LEMMA MergeFacts ==
  ASSUME NEW c \in Config, NEW d \in Config
  PROVE  /\ Merge(c, d) \in Config
         /\ d # NoConfig => Merge(c, d) # NoConfig
<1>1. Merge(c, d) \in Config
  BY DEF Merge, Config
<1>2. ASSUME d # NoConfig PROVE Merge(c, d) # NoConfig
  <2>1. PICK p \in Profiles : d[p] # None
    BY <1>2 DEF NoConfig, Config
  <2>2. Merge(c, d)[p] = d[p] /\ NoConfig[p] = None
    BY <2>1 DEF Merge, NoConfig
  <2> QED BY <2>1, <2>2
<1> QED BY <1>1, <1>2

(* NoConfig is a configuration, and so is what a store read returns.        *)
LEMMA ReadFacts ==
  ASSUME AuthShape
  PROVE  /\ NoConfig \in Config
         /\ \A m \in Models : StoreRead(m) \subseteq Config
         /\ EpochRead \subseteq Nat
<1>1. NoConfig \in Config
  BY DEF NoConfig, Config
<1>2. \A m \in Models : store[m] \in Config
  BY DEF AuthShape, Catalog
<1> QED BY SMT, <1>1, <1>2 DEF StoreRead, EpochRead, AuthShape

(* What a write of sie-config that begins does: the document is in the      *)
(* store, a write that will be published has a configuration there.         *)
LEMMA BeginFacts ==
  ASSUME AuthShape, NEW m \in Models,
         (\E c \in Bodies : AddModel(m, c) \/ ReplaceModel(m, c)) \/ DeleteModel(m)
  PROVE  /\ LockFree /\ epoch < MaxEpoch
         /\ store' \in Catalog /\ UNCHANGED <<epoch, registry, wire>>
         /\ write' \in [phase: {"persisted"}, op: {"add", "replace", "delete"},
                        model: Models, body: Config]
         /\ write'.op # "delete" => write'.body # NoConfig
         /\ HasStore /\ write'.op = "add" => store'[write'.model] # NoConfig
<1>1. /\ \A c \in Bodies : c \in Config /\ c # NoConfig
      /\ store \in [Models -> Config] /\ NoConfig \in Config
  BY BodiesAssumption, ReadFacts DEF AuthShape, Catalog
<1> DEFINE Begun ==
      /\ LockFree /\ epoch < MaxEpoch
      /\ store' \in Catalog /\ UNCHANGED <<epoch, registry, wire>>
      /\ write' \in [phase: {"persisted"}, op: {"add", "replace", "delete"},
                     model: Models, body: Config]
      /\ write'.op # "delete" => write'.body # NoConfig
      /\ HasStore /\ write'.op = "add" => store'[write'.model] # NoConfig
<1>2. ASSUME NEW c \in Bodies, AddModel(m, c) PROVE Begun
  <2>1. write' = [phase |-> "persisted", op |-> "add", model |-> m, body |-> c]
    BY <1>2 DEF AddModel
  <2>2. CASE HasStore
    <3>1. PICK onDisk \in StoreRead(m) : store' = [store EXCEPT ![m] = Merge(onDisk, c)]
      BY <1>2, <2>2 DEF AddModel
    <3>2. Merge(onDisk, c) \in Config /\ Merge(onDisk, c) # NoConfig
      BY <1>1, MergeFacts, ReadFacts
    <3> QED BY SMT, <1>1, <1>2, <2>1, <3>1, <3>2 DEF AddModel, Catalog
  <2>3. CASE ~HasStore
    BY SMT, <1>1, <1>2, <2>1, <2>3 DEF AddModel, Catalog
  <2> QED BY <1>1, <2>2, <2>3
<1>3. ASSUME NEW c \in Bodies, ReplaceModel(m, c) PROVE Begun
  BY <1>1, <1>3 DEF ReplaceModel, Catalog
<1>4. CASE DeleteModel(m)
  BY <1>1, <1>4 DEF DeleteModel, Catalog
<1> QED BY <1>2, <1>3, <1>4

(* The registration of a write: the model it wrote is in the registry,      *)
(* unless it was deleted.                                                   *)
LEMMA RegisterFacts ==
  ASSUME AuthShape, RegisterWrite
  PROVE  /\ write.phase = "persisted" /\ write' = [write EXCEPT !.phase = "registered"]
         /\ write \in [phase: {"persisted"}, op: {"add", "replace", "delete"},
                       model: Models, body: Config]
         /\ registry' \in Catalog /\ UNCHANGED <<store, epoch, wire>>
         /\ write.op # "delete" /\ write.body # NoConfig =>
              registry'[write.model] # NoConfig
<1>1. write \in [phase: {"persisted"}, op: {"add", "replace", "delete"},
                 model: Models, body: Config]
  BY SMT DEF RegisterWrite, AuthShape, NoWrite
<1>2. /\ registry \in [Models -> Config] /\ write.model \in Models /\ write.body \in Config
      /\ Baked[write.model] \in Config
  BY <1>1, BakedAssumption DEF AuthShape, Catalog
<1>3. /\ Mutated(write) \in Config
      /\ write.op # "delete" /\ write.body # NoConfig => Mutated(write) # NoConfig
  <2>1. CASE write.op = "add"
    BY <1>2, <2>1, MergeFacts DEF Mutated
  <2>2. CASE write.op = "replace"
    BY <1>2, <2>2 DEF Mutated
  <2>3. CASE write.op = "delete"
    BY <1>2, <2>3 DEF Mutated
  <2> QED BY <1>1, <2>1, <2>2, <2>3
<1> QED BY <1>1, <1>2, <1>3 DEF RegisterWrite, Catalog

(* The publication: every client has what it had, or the delta behind it,   *)
(* which announces the epoch and the registry of this moment.               *)
LEMMA PublishFacts ==
  ASSUME AuthShape, PublishWrite
  PROVE  /\ write.phase = "counted" /\ write' = NoWrite
         /\ UNCHANGED <<store, epoch, registry>>
         /\ wire' \in [Clients -> Seq(Notification)]
         /\ \A c \in Clients : \/ Messages(wire'[c]) = Messages(wire[c])
                               \/ /\ write.op # "delete"
                                  /\ Messages(wire'[c]) = Messages(wire[c]) \cup {Delta(write)}
<1>1. write \in [phase: {"counted"}, op: {"add", "replace", "delete"},
                 model: Models, body: Config]
  BY SMT DEF PublishWrite, AuthShape, NoWrite
<1>2. Delta(write) \in Notification
  <2>1. DeltaConfig(write) \in Config
    BY <1>1 DEF DeltaConfig, AuthShape, Catalog
  <2> QED BY <1>1, <2>1 DEF Delta, Notification, AuthShape
<1>3. \A c \in Clients : wire[c] \in Seq(Notification)
  BY DEF AuthShape
<1>4. PICK reached \in SUBSET (IF write.op = "delete" THEN {} ELSE Clients) :
        wire' = [c \in Clients |-> IF c \in reached THEN Append(wire[c], Delta(write))
                                   ELSE wire[c]]
  BY DEF PublishWrite
<1>5. \A c \in Clients : wire'[c] = IF c \in reached THEN Append(wire[c], Delta(write))
                                    ELSE wire[c]
  BY <1>4
<1>6. \A c \in Clients : /\ Append(wire[c], Delta(write)) \in Seq(Notification)
                         /\ Messages(Append(wire[c], Delta(write)))
                              = Messages(wire[c]) \cup {Delta(write)}
  BY <1>2, <1>3, QueueFacts
<1>7. wire' \in [Clients -> Seq(Notification)]
  BY <1>3, <1>4, <1>6
<1>8. ASSUME NEW c \in Clients
      PROVE  \/ Messages(wire'[c]) = Messages(wire[c])
             \/ /\ write.op # "delete"
                /\ Messages(wire'[c]) = Messages(wire[c]) \cup {Delta(write)}
  BY <1>4, <1>5, <1>6
<1> QED BY <1>7, <1>8 DEF PublishWrite

(* A restart shows a catalogue.                                             *)
LEMMA RestartFacts ==
  ASSUME AuthShape, Restart
  PROVE  registry' \in Catalog /\ write' = NoWrite /\ UNCHANGED <<store, epoch, wire>>
<1>1. \A m \in Models : /\ Baked[m] \in Config /\ store[m] \in Config
                        /\ Merge(Baked[m], store[m]) \in Config
  BY BakedAssumption, MergeFacts DEF AuthShape, Catalog
<1>2. Restored(store) \in Catalog
  BY <1>1 DEF Restored, Catalog
<1> QED BY <1>2 DEF Restart

(* Every step of sie-config keeps the shape of its state.                   *)
LEMMA AuthShapeStep ==
  ASSUME AuthShape, AuthWrite \/ CountFails \/ Restart
  PROVE  AuthShape'
<1>1. ASSUME NEW m \in Models,
             (\E c \in Bodies : AddModel(m, c) \/ ReplaceModel(m, c)) \/ DeleteModel(m)
      PROVE  AuthShape'
  BY <1>1, BeginFacts DEF AuthShape
<1>3. CASE RegisterWrite
  <2>1. write' \in [phase: {"registered"}, op: {"add", "replace", "delete"},
                    model: Models, body: Config]
    BY <1>3, RegisterFacts
  <2> QED BY <1>3, <2>1, RegisterFacts DEF AuthShape
<1>4. CASE CountWrite
  <2>1. write' \in [phase: {"counted"}, op: {"add", "replace", "delete"},
                    model: Models, body: Config]
    BY SMT, <1>4 DEF CountWrite, AuthShape, NoWrite
  <2>2. epoch' \in Nat
    BY SMT, <1>4, ReadFacts DEF CountWrite, AuthShape
  <2> QED BY <1>4, <2>1, <2>2 DEF CountWrite, AuthShape
<1>5. CASE PublishWrite
  BY <1>5, PublishFacts DEF AuthShape
<1>6. CASE CountFails
  BY <1>6 DEF CountFails, AuthShape
<1>7. CASE Restart
  BY <1>7, RestartFacts DEF AuthShape
<1> QED BY <1>1, <1>3, <1>4, <1>5, <1>6, <1>7 DEF AuthWrite

-----------------------------------------------------------------------------
(* The worker: the inductive invariant. *)

\* A write that will be published has a configuration to publish, in the
\* store and, once registered, in the registry; and its count fits.
WriteOK ==
  /\ write.phase \in {"persisted", "registered"} => epoch < MaxEpoch
  /\ write.phase # "idle" /\ write.op # "delete" =>
       /\ write.body # NoConfig
       /\ HasStore /\ write.op = "add" => store[write.model] # NoConfig
       /\ write.phase # "persisted" => registry[write.model] # NoConfig

\* A delta announces a catalogue that sie-config showed (says the history h)
\* at the delta's epoch, and in which the delta's model is present.
Told(n, h) ==
  /\ n.epoch \in 0..MaxEpoch /\ n.hash \in h[n.epoch]
  /\ n.config # NoConfig /\ n.hash[n.model] # NoConfig

AuthInv ==
  /\ AuthShape /\ epoch <= MaxEpoch /\ WriteOK
  /\ DOMAIN seen = 0..MaxEpoch /\ registry \in seen[epoch]
  /\ \A n \in Messages(wire[Worker]) : Told(n, seen)

\* The subscriber, past its first staleness check, has such a delta, of a
\* model in its scope.
SubInv ==
  /\ sub.at \in {"idle", "waiting", "applying", "answered"}
  /\ sub.at \in {"waiting", "applying"} =>
       sub = [at |-> sub.at, delta |-> sub.delta]
  /\ sub.at # "idle" => /\ sub.delta \in Notification /\ sub.delta.model \in Scope
                        /\ Told(sub.delta, seen)

\* The reconciler's export is one of sie-config's catalogues too, unless the
\* read of the epoch may fail; it ships nothing for a model its hash does not
\* cover, so that the children's answer to an empty one is empty.
RecInv ==
  /\ rec.at \in {"idle", "seeding", "polling", "fetching", "waiting",
                 "applying", "answered"}
  /\ rec.at \in {"waiting", "applying"} =>
       rec = [at |-> rec.at, drift |-> rec.drift, snap |-> rec.snap]
  /\ rec.at \in {"waiting", "applying", "answered"} =>
       /\ rec.snap \in [epoch: 0..MaxEpoch, models: Catalog, hash: Catalog]
       /\ ~FlakyReads => rec.snap.hash \in seen[rec.snap.epoch]
       /\ \A m \in Models :
            rec.snap.hash[m] = NoConfig => rec.snap.models[m] = NoConfig
  /\ rec.at = "answered" /\ Served(rec.snap.hash) = EmptyCatalog =>
       rec.resp.hash = EmptyCatalog

ChildInv ==
  /\ runs \in [Children -> Catalog] /\ refused \in [Children -> Catalog]
  /\ quarantined \in BOOLEAN

ViewInv == sEpoch \in 0..MaxEpoch /\ AdvertisedIsAuthoritative

\* The children agree on their view if c runs r[c] and refused f[c].
Alike(r, f) == \A c, d \in Children : ViewHash(r[c], f[c]) = ViewHash(r[d], f[d])

Agree == Alike(runs, refused)

Holding == {"applying", "answered"}

\* The barrier has one holder; and the pool is open with a commit made, or
\* with an answer that may become one, only if the children agree.
Barrier ==
  /\ ~(sub.at \in Holding /\ rec.at \in Holding)
  /\ ~quarantined /\ (origin = "commit" \/ sub.at = "answered"
                        \/ rec.at = "answered") => Agree

WorkerInv == AuthInv /\ SubInv /\ RecInv /\ ChildInv /\ ViewInv /\ Barrier

-----------------------------------------------------------------------------
(* The worker: steps of sie-config. *)

(* A step of sie-config keeps the writes in order and their epochs in bound.*)
LEMMA WriteOKStep ==
  ASSUME AuthShape, epoch <= MaxEpoch, WriteOK, AuthWrite \/ CountFails \/ Restart
  PROVE  epoch' <= MaxEpoch /\ WriteOK'
<1>0. epoch \in Nat /\ MaxEpoch \in Nat
  BY BoundAssumption DEF AuthShape
<1>1. ASSUME NEW m \in Models,
             (\E c \in Bodies : AddModel(m, c) \/ ReplaceModel(m, c)) \/ DeleteModel(m)
      PROVE  epoch' <= MaxEpoch /\ WriteOK'
  BY <1>1, BeginFacts DEF WriteOK
<1>2. CASE RegisterWrite
  <2>1. /\ write'.phase = "registered" /\ write'.op = write.op
        /\ write'.model = write.model /\ write'.body = write.body
    BY <1>2, RegisterFacts
  <2>2. write.phase # "idle" /\ epoch < MaxEpoch
    BY <1>2, RegisterFacts DEF WriteOK
  <2> QED BY <1>2, <2>1, <2>2, RegisterFacts DEF WriteOK
<1>3. CASE CountWrite
  <2>1. write \in [phase: {"registered"}, op: {"add", "replace", "delete"},
                   model: Models, body: Config]
    BY SMT, <1>3 DEF CountWrite, AuthShape, NoWrite
  <2>2. /\ write'.phase = "counted" /\ write'.op = write.op
        /\ write'.model = write.model /\ write'.body = write.body
    BY <1>3, <2>1 DEF CountWrite
  <2>3. UNCHANGED <<store, registry>>
    BY <1>3 DEF CountWrite
  <2>4. epoch < MaxEpoch
    BY <2>1 DEF WriteOK
  <2>5. epoch' <= MaxEpoch
    BY SMT, <1>0, <1>3, <2>4 DEF CountWrite, EpochRead
  <2> QED BY <2>1, <2>2, <2>3, <2>5 DEF WriteOK
<1>4. CASE PublishWrite \/ CountFails \/ Restart
  <2>1. write' = NoWrite /\ epoch' = epoch
    BY <1>4 DEF PublishWrite, CountFails, Restart
  <2> QED BY <2>1 DEF WriteOK, NoWrite
<1> QED BY <1>1, <1>2, <1>3, <1>4 DEF AuthWrite

(* What such a step adds to the wire is told truly.                         *)
LEMMA ToldStep ==
  ASSUME AuthInv, AuthWrite \/ CountFails \/ Restart, NEW n \in Messages(wire'[Worker])
  PROVE  Told(n, seen)
<1>1. CASE wire' = wire
  BY <1>1 DEF AuthInv
<1>2. CASE PublishWrite
  <2>1. n \in Messages(wire[Worker]) \/ (write.op # "delete" /\ n = Delta(write))
    BY <1>2, PublishFacts, WorkerAssumption DEF AuthInv
  <2>2. CASE write.op # "delete" /\ n = Delta(write)
    <3>1. write.phase = "counted"
      BY <1>2 DEF PublishWrite
    <3>2. DeltaConfig(write) # NoConfig /\ registry[write.model] # NoConfig
      BY <2>2, <3>1 DEF DeltaConfig, AuthInv, WriteOK
    <3>3. epoch \in 0..MaxEpoch /\ registry \in seen[epoch]
      BY SMT, BoundAssumption DEF AuthInv, AuthShape
    <3> QED BY <2>2, <3>2, <3>3 DEF Told, Delta
  <2> QED BY <2>1, <2>2 DEF AuthInv
<1> QED BY <1>1, <1>2 DEF AuthWrite, AddModel, ReplaceModel, DeleteModel, RegisterWrite,
     CountWrite, CountFails, Restart

Grows == \A e \in 0..MaxEpoch : seen[e] \subseteq seen'[e]

(* Steps of sie-config keep AuthInv, and the history only grows.            *)
LEMMA AuthoritySteps ==
  ASSUME AuthInv, AuthorityStep \/ AuthorityFault
  PROVE  AuthInv' /\ Grows
<1>1. AuthWrite \/ CountFails \/ Restart
  BY DEF AuthorityStep, AuthorityFault
<1>2. AuthShape' /\ epoch' <= MaxEpoch /\ WriteOK'
  BY <1>1, AuthShapeStep, WriteOKStep DEF AuthInv
<1>3. epoch' \in 0..MaxEpoch
  BY SMT, <1>2, BoundAssumption DEF AuthShape
<1>4. seen' = [seen EXCEPT ![epoch'] = @ \cup {registry'}] /\ DOMAIN seen = 0..MaxEpoch
  BY DEF AuthorityStep, AuthorityFault, AuthInv
<1>5. DOMAIN seen' = 0..MaxEpoch /\ registry' \in seen'[epoch'] /\ Grows
  BY <1>3, <1>4 DEF Grows
<1>6. ASSUME NEW n \in Messages(wire'[Worker]) PROVE Told(n, seen')
  <2>1. Told(n, seen)
    BY <1>1, ToldStep
  <2> QED BY <1>5, <2>1 DEF Told, Grows
<1> QED BY <1>2, <1>5, <1>6 DEF AuthInv

-----------------------------------------------------------------------------
(* The worker: the children. *)

(* If the pool reports a fan-out as applied, and no child's view is empty,  *)
(* then the children agree.                                                 *)
LEMMA AppliedAgree ==
  ASSUME NEW r, NEW f, NEW replace, Merged(r, f, replace).applied,
         \A c \in Children : ViewHash(r[c], f[c]) # EmptyCatalog
  PROVE  Alike(r, f)
<1>1. Same({ViewHash(r[c], f[c]) : c \in Children} \ {EmptyCatalog})
  BY DEF Merged
<1> QED BY <1>1 DEF Same, Alike

(* The configurations a child has after an ApplyModelConfig; its view shows *)
(* the configuration it was given, whether it took or refused it.           *)
LEMMA ApplyFacts ==
  ASSUME NEW r \in Catalog, NEW f \in Catalog, NEW m \in Models, NEW c \in Config,
         c # NoConfig
  PROVE  /\ AppliedRuns(r, m, c) \in Catalog /\ AppliedRefused(f, m, c) \in Catalog
         /\ ViewHash(AppliedRuns(r, m, c), AppliedRefused(f, m, c)) # EmptyCatalog
<1>0. NoConfig \in Config
  BY DEF NoConfig, Config
<1>1. /\ AppliedRuns(r, m, c) \in Catalog /\ AppliedRefused(f, m, c) \in Catalog
  BY <1>0 DEF AppliedRuns, AppliedRefused, Catalog
<1>2. CASE c \in Unservable
  <2>1. AppliedRefused(f, m, c)[m] = c
    BY <1>2 DEF AppliedRefused, Catalog
  <2>2. ViewHash(AppliedRuns(r, m, c), AppliedRefused(f, m, c))[m] = c
    BY <2>1 DEF ViewHash
  <2>3. EmptyCatalog[m] = NoConfig
    BY DEF EmptyCatalog
  <2> QED BY <1>1, <2>2, <2>3
<1>3. CASE c \notin Unservable
  <2>1. AppliedRefused(f, m, c)[m] = NoConfig /\ AppliedRuns(r, m, c)[m] = c
    BY <1>3 DEF AppliedRefused, AppliedRuns, Catalog
  <2>2. ViewHash(AppliedRuns(r, m, c), AppliedRefused(f, m, c))[m] = c
    BY <2>1 DEF ViewHash
  <2>3. EmptyCatalog[m] = NoConfig
    BY DEF EmptyCatalog
  <2> QED BY <1>1, <2>2, <2>3
<1> QED BY <1>1, <1>2, <1>3

(* After a ReplaceModelConfigs a child's view is the snapshot, whatever it  *)
(* ran and refused before.                                                  *)
LEMMA ReplaceFacts ==
  ASSUME NEW r \in Catalog, NEW s \in Catalog
  PROVE  /\ ReplacedRuns(r, s) \in Catalog /\ ReplacedRefused(s) \in Catalog
         /\ ViewHash(ReplacedRuns(r, s), ReplacedRefused(s)) = s
<1>0. NoConfig \in Config
  BY DEF NoConfig, Config
<1>1. ReplacedRuns(r, s) \in Catalog /\ ReplacedRefused(s) \in Catalog
  BY <1>0 DEF ReplacedRuns, ReplacedRefused, Catalog
<1>2. ASSUME NEW m \in Models
      PROVE  ViewHash(ReplacedRuns(r, s), ReplacedRefused(s))[m] = s[m]
  <2>1. CASE s[m] \in Unservable
    <3>1. ReplacedRefused(s)[m] = s[m] /\ s[m] # NoConfig
      BY <2>1, UnservableAssumption DEF ReplacedRefused
    <3> QED BY <3>1 DEF ViewHash
  <2>2. CASE s[m] \notin Unservable
    <3>1. ReplacedRefused(s)[m] = NoConfig /\ ReplacedRuns(r, s)[m] = s[m]
      BY <2>2 DEF ReplacedRefused, ReplacedRuns
    <3> QED BY <3>1 DEF ViewHash
  <2> QED BY <2>1, <2>2
<1>3. /\ ViewHash(ReplacedRuns(r, s), ReplacedRefused(s))
           = [m \in Models |-> ViewHash(ReplacedRuns(r, s), ReplacedRefused(s))[m]]
      /\ s = [m \in Models |-> s[m]]
  BY DEF ViewHash, Catalog
<1> QED BY <1>1, <1>2, <1>3

-----------------------------------------------------------------------------
(* The worker: steps of the sidecar. *)

(* What is left alone keeps its part of the invariant while the history     *)
(* grows.                                                                   *)
LEMMA Frames ==
  ASSUME Grows
  PROVE  /\ SubInv /\ UNCHANGED sub => SubInv'
         /\ RecInv /\ UNCHANGED rec => RecInv'
         /\ ChildInv /\ UNCHANGED <<runs, refused, quarantined>> => ChildInv'
         /\ ViewInv /\ UNCHANGED <<sEpoch, view, origin>> => ViewInv'
<1>1. SubInv /\ UNCHANGED sub => SubInv'
  BY DEF SubInv, Told, Grows
<1>2. RecInv /\ UNCHANGED rec => RecInv'
  BY DEF RecInv, Grows
<1>3. ChildInv /\ UNCHANGED <<runs, refused, quarantined>> => ChildInv'
  BY DEF ChildInv
<1>4. ViewInv /\ UNCHANGED <<sEpoch, view, origin>> => ViewInv'
  BY DEF ViewInv, AdvertisedIsAuthoritative, Grows
<1> QED BY <1>1, <1>2, <1>3, <1>4

(* sie-config keeps its part if only messages to the worker are taken.      *)
LEMMA AuthFrame ==
  ASSUME AuthInv, UNCHANGED <<store, epoch, registry, write, seen>>,
         wire' \in [Clients -> Seq(Notification)],
         Messages(wire'[Worker]) \subseteq Messages(wire[Worker])
  PROVE  AuthInv' /\ Grows
<1>1. AuthShape'
  BY DEF AuthInv, AuthShape
<1>2. WriteOK' /\ epoch' <= MaxEpoch
  BY DEF AuthInv, WriteOK
<1>3. \A n \in Messages(wire'[Worker]) : Told(n, seen')
  BY DEF AuthInv
<1>4. DOMAIN seen' = 0..MaxEpoch /\ registry' \in seen'[epoch'] /\ Grows
  BY DEF AuthInv, Grows
<1> QED BY <1>1, <1>2, <1>3, <1>4 DEF AuthInv

(* The barrier is kept by a step that moves neither task into or within it, *)
(* touches no child and commits nothing.                                    *)
LEMMA BarrierFrame ==
  ASSUME Barrier, UNCHANGED <<runs, refused>>,
         sub'.at = sub.at \/ sub'.at \in {"idle", "waiting"},
         rec'.at = rec.at \/ rec'.at \in {"idle", "seeding", "polling", "fetching", "waiting"},
         quarantined' = quarantined, origin' = origin \/ origin' # "commit"
  PROVE  Barrier'
<1>1. Agree' = Agree
  BY DEF Agree, Alike
<1>2. /\ sub'.at \in Holding => sub.at \in Holding
      /\ rec'.at \in Holding => rec.at \in Holding
      /\ sub'.at = "answered" => sub.at = "answered"
      /\ rec'.at = "answered" => rec.at = "answered"
  BY DEF Holding
<1> QED BY <1>1, <1>2 DEF Barrier

(* Taking the next delta.                                                   *)
LEMMA SubTakeKeeps ==
  ASSUME WorkerInv, SubTake
  PROVE  WorkerInv'
<1> DEFINE n == Head(wire[Worker])
<1>1. wire \in [Clients -> Seq(Notification)] /\ wire[Worker] \in Seq(Notification)
  BY WorkerAssumption DEF WorkerInv, AuthInv, AuthShape
<1>2. wire[Worker] # <<>> /\ wire' = [wire EXCEPT ![Worker] = Tail(@)]
  BY DEF SubTake
<1>3. /\ n \in Messages(wire[Worker]) /\ n \in Notification
      /\ Tail(wire[Worker]) \in Seq(Notification)
      /\ Messages(Tail(wire[Worker])) \subseteq Messages(wire[Worker])
  BY <1>1, <1>2, QueueFacts
<1>4. /\ wire' \in [Clients -> Seq(Notification)] /\ wire'[Worker] = Tail(wire[Worker])
  BY <1>1, <1>2, <1>3, WorkerAssumption
<1>5. Messages(wire'[Worker]) \subseteq Messages(wire[Worker])
  BY <1>3, <1>4
<1>6. AuthInv' /\ Grows
  BY <1>4, <1>5, AuthFrame DEF SubTake, WorkerInv
<1>7. RecInv' /\ ChildInv' /\ ViewInv'
  BY <1>6, Frames DEF SubTake, WorkerInv, childVars
<1>8. Told(n, seen) /\ UNCHANGED seen
  BY <1>3 DEF SubTake, WorkerInv, AuthInv
<1>9. sub' = NoDelta \/ (n.model \in Scope /\ sub' = [at |-> "waiting", delta |-> n])
  BY DEF SubTake
<1>10. SubInv'
  <2>1. CASE sub' = NoDelta
    BY <2>1 DEF SubInv, NoDelta
  <2>2. CASE n.model \in Scope /\ sub' = [at |-> "waiting", delta |-> n]
    <3> HIDE DEF n
    <3>1. sub'.at = "waiting" /\ sub'.delta = n
      BY <2>2
    <3> QED BY <1>3, <1>8, <2>2, <3>1 DEF SubInv, Told
  <2> QED BY <1>9, <2>1, <2>2
<1>11. Barrier'
  <2>1. sub'.at \in {"idle", "waiting"}
    BY SMT, <1>9 DEF NoDelta
  <2> QED BY <2>1, BarrierFrame DEF SubTake, WorkerInv, childVars
<1> QED BY <1>6, <1>7, <1>10, <1>11 DEF WorkerInv

(* A step that leaves sie-config alone.                                     *)
LEMMA Quiet ==
  ASSUME WorkerInv, UNCHANGED <<authVars, seen>>
  PROVE  AuthInv' /\ Grows
<1>1. UNCHANGED <<store, epoch, registry, write, seen, wire>>
  BY DEF authVars
<1> QED BY <1>1, AuthFrame DEF WorkerInv, AuthInv, AuthShape

(* The children a request reaches, or not, keep catalogues.                 *)
LEMMA ReachFacts ==
  ASSUME ChildInv, NEW hit \in SUBSET Children, NEW r \in [Children -> Catalog],
         NEW f \in [Children -> Catalog], Reach(hit, r, f)
  PROVE  /\ runs' \in [Children -> Catalog] /\ refused' \in [Children -> Catalog]
         /\ hit = Children => \A c \in Children : runs'[c] = r[c] /\ refused'[c] = f[c]
BY DEF Reach, ChildInv

(* What a delta makes of the children, and that none is left empty.         *)
LEMMA SubChildren ==
  ASSUME WorkerInv, sub.at = "applying"
  PROVE  /\ SubRuns \in [Children -> Catalog] /\ SubRefused \in [Children -> Catalog]
         /\ \A c \in Children : ViewHash(SubRuns[c], SubRefused[c]) # EmptyCatalog
<1>1. /\ sub.delta.model \in Models /\ sub.delta.config \in Config
      /\ sub.delta.config # NoConfig
  BY DEF WorkerInv, SubInv, Told, Notification
<1>2. \A c \in Children : runs[c] \in Catalog /\ refused[c] \in Catalog
  BY DEF WorkerInv, ChildInv
<1>3. \A c \in Children :
        /\ AppliedRuns(runs[c], sub.delta.model, sub.delta.config) \in Catalog
        /\ AppliedRefused(refused[c], sub.delta.model, sub.delta.config) \in Catalog
        /\ ViewHash(AppliedRuns(runs[c], sub.delta.model, sub.delta.config),
                    AppliedRefused(refused[c], sub.delta.model, sub.delta.config))
             # EmptyCatalog
  BY <1>1, <1>2, ApplyFacts
<1> QED BY <1>3 DEF SubRuns, SubRefused

(* The subscriber takes the barrier.                                        *)
LEMMA SubLockKeeps ==
  ASSUME WorkerInv, SubLock
  PROVE  WorkerInv'
<1>1. AuthInv' /\ Grows
  BY Quiet DEF SubLock
<1>2. RecInv' /\ ViewInv'
  BY <1>1, Frames DEF SubLock, WorkerInv
<1>3. CASE sub' = NoDelta /\ UNCHANGED quarantined
  <2>1. SubInv' /\ sub'.at = "idle"
    BY <1>3 DEF SubInv, NoDelta
  <2>2. ChildInv' /\ Barrier'
    BY <1>1, <1>3, <2>1, Frames, BarrierFrame DEF SubLock, WorkerInv
  <2> QED BY <1>1, <1>2, <2>1, <2>2 DEF WorkerInv
<1>4. CASE sub' = [sub EXCEPT !.at = "applying"] /\ quarantined' = TRUE
  <2>1. sub.at = "waiting" /\ sub = [at |-> sub.at, delta |-> sub.delta]
    BY DEF SubLock, WorkerInv, SubInv
  <2>2. sub' = [at |-> "applying", delta |-> sub.delta]
    BY <1>4, <2>1
  <2>3. SubInv'
    <3>1. sub'.at = "applying" /\ sub'.delta = sub.delta /\ UNCHANGED seen
      BY <2>2 DEF SubLock
    <3> QED BY <2>1, <2>2, <3>1 DEF WorkerInv, SubInv, Told
  <2>4. ChildInv'
    BY <1>4 DEF SubLock, WorkerInv, ChildInv
  <2>5. Barrier'
    BY <1>4 DEF SubLock, BarrierFree, Barrier, Holding
  <2> QED BY <1>1, <1>2, <2>3, <2>4, <2>5 DEF WorkerInv
<1> QED BY <1>3, <1>4 DEF SubLock

(* Every child answers the delta: the pool opens only if they agree.        *)
LEMMA SubApplyKeeps ==
  ASSUME WorkerInv, SubApply
  PROVE  WorkerInv'
<1>0. sub.at = "applying"
  BY DEF SubApply
<1>1. AuthInv' /\ Grows
  BY Quiet DEF SubApply
<1>2. RecInv' /\ ViewInv'
  BY <1>1, Frames DEF SubApply, WorkerInv
<1>3. /\ sub'.at = "answered" /\ sub'.delta = sub.delta /\ UNCHANGED <<seen, rec>>
  BY DEF SubApply
<1>4. SubInv'
  BY <1>0, <1>3 DEF WorkerInv, SubInv, Told
<1>5. /\ Reach(Children, SubRuns, SubRefused)
      /\ quarantined' = ~Merged(SubRuns, SubRefused, FALSE).applied
  BY DEF SubApply, FanOut
<1>6. /\ runs' \in [Children -> Catalog] /\ refused' \in [Children -> Catalog]
      /\ \A c \in Children : runs'[c] = SubRuns[c] /\ refused'[c] = SubRefused[c]
  BY <1>0, <1>5, ReachFacts, SubChildren DEF WorkerInv
<1>7. ChildInv'
  <2>1. quarantined' \in BOOLEAN
    BY <1>5
  <2> QED BY <1>6, <2>1 DEF ChildInv
<1>8. ASSUME ~quarantined' PROVE Agree'
  <2>1. Merged(SubRuns, SubRefused, FALSE).applied
    BY <1>5, <1>8
  <2>2. \A c \in Children : ViewHash(SubRuns[c], SubRefused[c]) # EmptyCatalog
    BY <1>0, SubChildren
  <2>3. Alike(SubRuns, SubRefused)
    BY <2>1, <2>2, AppliedAgree
  <2> QED BY <1>6, <2>3 DEF Agree, Alike
<1>9. Barrier'
  BY <1>0, <1>3, <1>8 DEF WorkerInv, Barrier, Holding
<1> QED BY <1>1, <1>2, <1>4, <1>7, <1>9 DEF WorkerInv

(* A child fails: the pool stays closed.                                    *)
LEMMA SubApplyFailsKeeps ==
  ASSUME WorkerInv, SubApplyFails
  PROVE  WorkerInv'
<1>0. sub.at = "applying" /\ quarantined' = TRUE /\ (sub' = sub \/ sub' = NoDelta)
  BY DEF SubApplyFails, FanOutFails
<1>1. AuthInv' /\ Grows
  BY Quiet DEF SubApplyFails
<1>2. RecInv' /\ ViewInv'
  BY <1>1, Frames DEF SubApplyFails, WorkerInv
<1>3. SubInv'
  <2>1. CASE sub' = sub
    BY <1>1, <2>1, Frames DEF WorkerInv
  <2>2. CASE sub' = NoDelta
    BY <2>2 DEF SubInv, NoDelta
  <2> QED BY <1>0, <2>1, <2>2
<1>4. ChildInv'
  <2>1. PICK hit \in SUBSET Children : Reach(hit, SubRuns, SubRefused)
    BY DEF SubApplyFails, FanOutFails
  <2> QED BY <1>0, <2>1, ReachFacts, SubChildren DEF WorkerInv, ChildInv
<1>5. Barrier'
  BY <1>0 DEF SubApplyFails, WorkerInv, Barrier, Holding, NoDelta
<1> QED BY <1>1, <1>2, <1>3, <1>4, <1>5 DEF WorkerInv

(* A hash that covers a model of the worker's scope is not the empty one.   *)
LEMMA ServedPresent ==
  ASSUME NEW h, NEW m \in Scope, h[m] # NoConfig
  PROVE  Served(h) # EmptyCatalog
<1>1. m \in Models
  BY ScopeAssumption
<1>2. Served(h)[m] = h[m] /\ EmptyCatalog[m] = NoConfig
  BY <1>1 DEF Served, EmptyCatalog
<1> QED BY <1>2

(* The subscriber commits what the children proved.                         *)
LEMMA SubCommitKeeps ==
  ASSUME WorkerInv, SubCommit
  PROVE  WorkerInv'
<1>0. sub.at = "answered" /\ sub' = NoDelta /\ sub'.at = "idle"
  BY DEF SubCommit, NoDelta
<1>1. AuthInv' /\ Grows
  BY Quiet DEF SubCommit
<1>2. RecInv' /\ ChildInv'
  BY <1>1, Frames DEF SubCommit, WorkerInv, childVars
<1>3. SubInv'
  BY <1>0 DEF SubInv
<1>4. CASE UNCHANGED <<view, origin, sEpoch>>
  <2>1. ViewInv'
    BY <1>1, <1>4, Frames DEF WorkerInv
  <2>2. Barrier'
    BY <1>0, <1>4, BarrierFrame DEF SubCommit, WorkerInv, childVars
  <2> QED BY <1>1, <1>2, <1>3, <2>1, <2>2 DEF WorkerInv
<1>5. CASE /\ Verified(Served(sub.delta.hash), sub.resp) /\ SetView(sub.resp)
           /\ sEpoch' = sub.delta.epoch
  <2>1. /\ sub.delta.model \in Scope /\ sub.delta.hash[sub.delta.model] # NoConfig
        /\ sub.delta.epoch \in 0..MaxEpoch /\ sub.delta.hash \in seen[sub.delta.epoch]
    BY <1>0 DEF WorkerInv, SubInv, Told
  <2>2. Served(sub.delta.hash) # EmptyCatalog
    BY <2>1, ServedPresent
  <2>3. view'.hash = Served(sub.delta.hash) /\ UNCHANGED seen
    BY <1>5, <2>2 DEF Verified, SetView, SubCommit
  <2>4. ViewInv'
    BY <1>5, <2>1, <2>3 DEF ViewInv, AdvertisedIsAuthoritative
  <2>5. Barrier'
    <3>1. UNCHANGED <<runs, refused, quarantined, rec>>
      BY DEF SubCommit, childVars
    <3>2. Agree' = Agree
      BY <3>1 DEF Agree, Alike
    <3> QED BY <1>0, <3>1, <3>2 DEF WorkerInv, Barrier, Holding
  <2> QED BY <1>1, <1>2, <1>3, <2>4, <2>5 DEF WorkerInv
<1> QED BY <1>4, <1>5 DEF SubCommit

(* The steps of the reconciler before it has an export, and its giving up.  *)
LEMMA RecEarlyKeeps ==
  ASSUME WorkerInv,
         UNCHANGED <<store, epoch, registry, write, wire, seen, childVars, sub>>,
         UNCHANGED <<sEpoch, view, origin>>,
         rec' = rec \/ rec'.at \in {"idle", "polling", "fetching"}
  PROVE  WorkerInv'
<1>1. AuthInv' /\ Grows
  BY AuthFrame DEF WorkerInv, AuthInv, AuthShape
<1>2. SubInv' /\ ChildInv' /\ ViewInv'
  BY <1>1, Frames DEF WorkerInv, childVars
<1>3. RecInv'
  <2>1. CASE rec' = rec
    BY <1>1, <2>1, Frames DEF WorkerInv
  <2>2. CASE rec'.at \in {"idle", "polling", "fetching"}
    BY <2>2 DEF RecInv
  <2> QED BY <2>1, <2>2
<1>4. Barrier'
  BY BarrierFrame DEF WorkerInv, childVars
<1> QED BY <1>1, <1>2, <1>3, <1>4 DEF WorkerInv

(* The export is one of the catalogues of sie-config.                       *)
LEMMA RecFetchKeeps ==
  ASSUME WorkerInv, RecFetch
  PROVE  WorkerInv'
<1>1. AuthInv' /\ Grows
  BY Quiet DEF RecFetch
<1>2. SubInv' /\ ChildInv' /\ ViewInv'
  BY <1>1, Frames DEF RecFetch, WorkerInv, childVars
<1>3. PICK e \in EpochRead :
        rec' = [at |-> "waiting", drift |-> rec.drift, snap |-> Snapshot(e)]
  BY DEF RecFetch
<1>4. epoch \in 0..MaxEpoch /\ registry \in seen[epoch] /\ registry \in Catalog
  BY SMT, BoundAssumption DEF WorkerInv, AuthInv, AuthShape
<1>5. e \in 0..MaxEpoch /\ (~FlakyReads => e = epoch)
  BY SMT, <1>4, BoundAssumption DEF EpochRead
<1>6. \A m \in Models : ExportConfig(m) \in Config
  BY BakedAssumption DEF ExportConfig, WorkerInv, AuthInv, AuthShape, Catalog
<1>7. Snapshot(e) \in [epoch: 0..MaxEpoch, models: Catalog, hash: Catalog]
  <2>1. NoConfig \in Config
    BY ReadFacts DEF WorkerInv, AuthInv
  <2> QED BY <1>4, <1>5, <1>6, <2>1 DEF Snapshot, Catalog
<1>8. /\ Snapshot(e).hash = registry /\ Snapshot(e).epoch = e
      /\ \A m \in Models : registry[m] = NoConfig => Snapshot(e).models[m] = NoConfig
  BY DEF Snapshot
<1>9. rec'.at = "waiting" /\ rec'.snap = Snapshot(e) /\ UNCHANGED seen
      /\ rec' = [at |-> rec'.at, drift |-> rec'.drift, snap |-> rec'.snap]
  BY <1>3 DEF RecFetch
<1>10. RecInv'
  BY <1>4, <1>5, <1>7, <1>8, <1>9 DEF RecInv
<1>11. Barrier'
  BY <1>9, BarrierFrame DEF RecFetch, WorkerInv, childVars
<1> QED BY <1>1, <1>2, <1>10, <1>11 DEF WorkerInv

(* The reconciler takes the barrier, or has nothing to do.                  *)
LEMMA RecLockKeeps ==
  ASSUME WorkerInv, RecLock
  PROVE  WorkerInv'
<1>1. AuthInv' /\ Grows
  BY Quiet DEF RecLock
<1>2. SubInv' /\ ViewInv'
  BY <1>1, Frames DEF RecLock, WorkerInv
<1>3. CASE rec' = Idle /\ UNCHANGED quarantined
  <2>1. RecInv' /\ rec'.at = "idle"
    BY <1>3 DEF RecInv, Idle
  <2>2. ChildInv' /\ Barrier'
    BY <1>1, <1>3, <2>1, Frames, BarrierFrame DEF RecLock, WorkerInv
  <2> QED BY <1>1, <1>2, <2>1, <2>2 DEF WorkerInv
<1>4. CASE rec' = [rec EXCEPT !.at = "applying"] /\ quarantined' = TRUE
  <2>1. rec.at = "waiting" /\ rec = [at |-> rec.at, drift |-> rec.drift, snap |-> rec.snap]
    BY DEF RecLock, WorkerInv, RecInv
  <2>2. rec' = [at |-> "applying", drift |-> rec.drift, snap |-> rec.snap]
    BY <1>4, <2>1
  <2>3. RecInv'
    <3>1. rec'.at = "applying" /\ rec'.snap = rec.snap /\ UNCHANGED seen
          /\ rec' = [at |-> rec'.at, drift |-> rec'.drift, snap |-> rec'.snap]
      BY <2>2 DEF RecLock
    <3> QED BY <2>1, <3>1 DEF WorkerInv, RecInv
  <2>4. ChildInv'
    BY <1>4 DEF RecLock, WorkerInv, ChildInv
  <2>5. Barrier'
    BY <1>4 DEF RecLock, BarrierFree, Barrier, Holding
  <2> QED BY <1>1, <1>2, <2>3, <2>4, <2>5 DEF WorkerInv
<1> QED BY <1>3, <1>4 DEF RecLock

(* What an export makes of the children: each one's view is the export.     *)
LEMMA RecChildren ==
  ASSUME WorkerInv, rec.at = "applying"
  PROVE  /\ RecRuns \in [Children -> Catalog] /\ RecRefused \in [Children -> Catalog]
         /\ \A c \in Children : ViewHash(RecRuns[c], RecRefused[c]) = Served(rec.snap.models)
<1> DEFINE s == Served(rec.snap.models)
<1>1. s \in Catalog
  <2>1. rec.snap.models \in Catalog /\ NoConfig \in Config
    BY ReadFacts DEF WorkerInv, AuthInv, RecInv
  <2> QED BY <2>1 DEF Served, Catalog
<1>2. \A c \in Children : runs[c] \in Catalog
  BY DEF WorkerInv, ChildInv
<1>3. /\ RecRuns = [c \in Children |-> ReplacedRuns(runs[c], s)]
      /\ RecRefused = [c \in Children |-> ReplacedRefused(s)]
  BY DEF RecRuns, RecRefused
<1> HIDE DEF s
<1>4. \A c \in Children : /\ ReplacedRuns(runs[c], s) \in Catalog
                          /\ ReplacedRefused(s) \in Catalog
                          /\ ViewHash(ReplacedRuns(runs[c], s), ReplacedRefused(s)) = s
  BY <1>1, <1>2, ReplaceFacts
<1>5. \A c \in Children : RecRuns[c] = ReplacedRuns(runs[c], s)
                          /\ RecRefused[c] = ReplacedRefused(s)
  BY <1>3
<1>6. RecRuns \in [Children -> Catalog] /\ RecRefused \in [Children -> Catalog]
  BY <1>3, <1>4
<1>7. \A c \in Children : ViewHash(RecRuns[c], RecRefused[c]) = s
  BY <1>4, <1>5
<1> QED BY <1>6, <1>7 DEF s

(* Children whose views are empty answer with the empty hash.               *)
LEMMA EmptyAnswer ==
  ASSUME NEW r, NEW f, NEW replace,
         \A c \in Children : ViewHash(r[c], f[c]) = EmptyCatalog
  PROVE  Merged(r, f, replace).hash = EmptyCatalog
<1>1. {ViewHash(r[c], f[c]) : c \in Children} \ {EmptyCatalog} = {}
  OBVIOUS
<1> QED BY <1>1 DEF Merged

(* Every child answers the export.                                          *)
LEMMA RecApplyKeeps ==
  ASSUME WorkerInv, RecApply
  PROVE  WorkerInv'
<1>0. rec.at = "applying"
  BY DEF RecApply
<1>1. AuthInv' /\ Grows
  BY Quiet DEF RecApply
<1>2. SubInv' /\ ViewInv'
  BY <1>1, Frames DEF RecApply, WorkerInv
<1>3. /\ rec'.at = "answered" /\ rec'.snap = rec.snap
      /\ rec'.resp = Merged(RecRuns, RecRefused, TRUE) /\ UNCHANGED <<seen, sub>>
  BY DEF RecApply
<1>4. ASSUME Served(rec.snap.hash) = EmptyCatalog PROVE rec'.resp.hash = EmptyCatalog
  <2>1. \A m \in Models : rec.snap.hash[m] = NoConfig => rec.snap.models[m] = NoConfig
    BY <1>0 DEF WorkerInv, RecInv
  <2>2. \A m \in Scope : rec.snap.hash[m] = NoConfig
    BY <1>4, ServedPresent
  <2>3. Served(rec.snap.models) = EmptyCatalog
    BY <2>1, <2>2, ScopeAssumption DEF Served, EmptyCatalog
  <2>4. \A c \in Children : ViewHash(RecRuns[c], RecRefused[c]) = EmptyCatalog
    BY <1>0, <2>3, RecChildren
  <2>5. Merged(RecRuns, RecRefused, TRUE).hash = EmptyCatalog
    BY <2>4, EmptyAnswer
  <2> QED BY <1>3, <2>5
<1>5. RecInv'
  BY <1>0, <1>3, <1>4 DEF WorkerInv, RecInv
<1>6. Reach(Children, RecRuns, RecRefused) /\ quarantined' \in BOOLEAN
  BY DEF RecApply, FanOut
<1>7. /\ runs' \in [Children -> Catalog] /\ refused' \in [Children -> Catalog]
      /\ \A c \in Children : runs'[c] = RecRuns[c] /\ refused'[c] = RecRefused[c]
  BY <1>0, <1>6, ReachFacts, RecChildren DEF WorkerInv
<1>8. ChildInv'
  BY <1>6, <1>7 DEF ChildInv
<1>9. Agree'
  <2>1. \A c \in Children : ViewHash(runs'[c], refused'[c]) = Served(rec.snap.models)
    BY <1>0, <1>7, RecChildren
  <2> QED BY <2>1 DEF Agree, Alike
<1>10. Barrier'
  BY <1>0, <1>3, <1>9 DEF WorkerInv, Barrier, Holding
<1> QED BY <1>1, <1>2, <1>5, <1>8, <1>10 DEF WorkerInv

(* A child fails on the export: the pool stays closed.                      *)
LEMMA RecApplyFailsKeeps ==
  ASSUME WorkerInv, RecApplyFails
  PROVE  WorkerInv'
<1>0. rec.at = "applying" /\ quarantined' = TRUE /\ (rec' = rec \/ rec' = Idle)
  BY DEF RecApplyFails, FanOutFails
<1>1. AuthInv' /\ Grows
  BY Quiet DEF RecApplyFails
<1>2. SubInv' /\ ViewInv'
  BY <1>1, Frames DEF RecApplyFails, WorkerInv
<1>3. RecInv'
  <2>1. CASE rec' = rec
    BY <1>1, <2>1, Frames DEF WorkerInv
  <2>2. CASE rec' = Idle
    BY <2>2 DEF RecInv, Idle
  <2> QED BY <1>0, <2>1, <2>2
<1>4. ChildInv'
  <2>1. PICK hit \in SUBSET Children : Reach(hit, RecRuns, RecRefused)
    BY DEF RecApplyFails, FanOutFails
  <2> QED BY <1>0, <2>1, ReachFacts, RecChildren DEF WorkerInv, ChildInv
<1>5. Barrier'
  BY <1>0 DEF RecApplyFails, WorkerInv, Barrier, Holding, Idle
<1> QED BY <1>1, <1>2, <1>3, <1>4, <1>5 DEF WorkerInv

(* The reconciler commits what the children proved.                         *)
LEMMA RecCommitKeeps ==
  ASSUME WorkerInv, RecCommit
  PROVE  WorkerInv'
<1>0. rec.at = "answered" /\ rec' = Idle /\ rec'.at = "idle"
  BY DEF RecCommit, Idle
<1>1. AuthInv' /\ Grows
  BY Quiet DEF RecCommit
<1>2. SubInv' /\ ChildInv'
  BY <1>1, Frames DEF RecCommit, WorkerInv, childVars
<1>3. RecInv'
  BY <1>0 DEF RecInv
<1>4. CASE UNCHANGED <<sEpoch, view, origin>>
  <2>1. ViewInv'
    BY <1>1, <1>4, Frames DEF WorkerInv
  <2>2. Barrier'
    BY <1>0, <1>4, BarrierFrame DEF RecCommit, WorkerInv, childVars
  <2> QED BY <1>1, <1>2, <1>3, <2>1, <2>2 DEF WorkerInv
<1>5. CASE /\ Verified(Served(rec.snap.hash), rec.resp) /\ SetView(rec.resp)
           /\ sEpoch' = rec.snap.epoch
  <2>1. /\ rec.snap.epoch \in 0..MaxEpoch
        /\ ~FlakyReads => rec.snap.hash \in seen[rec.snap.epoch]
        /\ Served(rec.snap.hash) = EmptyCatalog => rec.resp.hash = EmptyCatalog
    BY <1>0 DEF WorkerInv, RecInv
  <2>2. view'.hash = Served(rec.snap.hash) /\ UNCHANGED seen
    BY <1>5, <2>1 DEF Verified, SetView, RecCommit
  <2>3. ViewInv'
    BY <1>5, <2>1, <2>2 DEF ViewInv, AdvertisedIsAuthoritative
  <2>4. Barrier'
    <3>1. UNCHANGED <<runs, refused, quarantined, sub>>
      BY DEF RecCommit, childVars
    <3>2. Agree' = Agree
      BY <3>1 DEF Agree, Alike
    <3> QED BY <1>0, <3>1, <3>2 DEF WorkerInv, Barrier, Holding
  <2> QED BY <1>1, <1>2, <1>3, <2>3, <2>4 DEF WorkerInv
<1> QED BY <1>4, <1>5 DEF RecCommit

(* The heartbeat: what it adopts does not count as committed.               *)
LEMMA PingKeeps ==
  ASSUME WorkerInv, PingAnswer \/ PingAdopt
  PROVE  WorkerInv'
<1>1. /\ UNCHANGED <<authVars, seen>>
      /\ UNCHANGED <<runs, refused, quarantined, sEpoch, sub, rec>>
  BY DEF PingAnswer, PingAdopt, childVars
<1>2. AuthInv' /\ Grows
  BY <1>1, Quiet
<1>3. SubInv' /\ RecInv' /\ ChildInv'
  BY <1>1, <1>2, Frames DEF WorkerInv
<1>4. UNCHANGED <<view, origin>> \/ origin' = "ping"
  BY DEF PingAnswer, PingAdopt
<1>5. ViewInv'
  <2>1. CASE UNCHANGED <<view, origin>>
    BY <1>1, <1>2, <2>1, Frames DEF WorkerInv
  <2>2. CASE origin' = "ping"
    BY <1>1, <2>2 DEF WorkerInv, ViewInv, AdvertisedIsAuthoritative
  <2> QED BY <1>4, <2>1, <2>2
<1>6. Barrier'
  BY <1>1, <1>4, BarrierFrame DEF WorkerInv
<1> QED BY <1>2, <1>3, <1>5, <1>6 DEF WorkerInv

(* A restart of the sidecar: the quarantine is forgotten, and the commit    *)
(* with it.                                                                 *)
LEMMA SidecarRestartKeeps ==
  ASSUME WorkerInv, SidecarRestart
  PROVE  WorkerInv'
<1>1. wire \in [Clients -> Seq(Notification)]
  BY DEF WorkerInv, AuthInv, AuthShape
<1>2. wire' \in [Clients -> Seq(Notification)] /\ wire'[Worker] = <<>>
  BY SMT, <1>1, WorkerAssumption DEF SidecarRestart
<1>3. Messages(wire'[Worker]) \subseteq Messages(wire[Worker])
  BY SMT, <1>2 DEF Messages
<1>4. AuthInv' /\ Grows
  BY <1>2, <1>3, AuthFrame DEF SidecarRestart, WorkerInv
<1>5. SubInv' /\ RecInv'
  BY DEF SidecarRestart, SubInv, RecInv, NoDelta, Seeding
<1>6. ChildInv'
  BY DEF SidecarRestart, WorkerInv, ChildInv
<1>7. ViewInv'
  <2>1. sEpoch' \in 0..MaxEpoch /\ origin' # "commit"
    BY SMT, BoundAssumption DEF SidecarRestart
  <2> QED BY <2>1 DEF ViewInv, AdvertisedIsAuthoritative
<1>8. Barrier'
  BY DEF SidecarRestart, Barrier, NoDelta, Seeding, Holding
<1> QED BY <1>4, <1>5, <1>6, <1>7, <1>8 DEF WorkerInv

(* Steps of sie-config's writes, restarts and failures.                     *)
LEMMA AuthorityKeeps ==
  ASSUME WorkerInv, AuthorityStep \/ AuthorityFault
  PROVE  WorkerInv'
<1>1. UNCHANGED <<sEpoch, view, sub, rec, origin, runs, refused, quarantined>>
  BY DEF AuthorityStep, AuthorityFault, workerVars, sidecarVars, childVars
<1>2. AuthInv' /\ Grows
  BY AuthoritySteps DEF WorkerInv
<1>3. SubInv' /\ RecInv' /\ ChildInv' /\ ViewInv'
  BY <1>1, <1>2, Frames DEF WorkerInv
<1>4. Barrier'
  BY <1>1, BarrierFrame DEF WorkerInv
<1> QED BY <1>2, <1>3, <1>4 DEF WorkerInv

(* Every step of the worker and of sie-config keeps the invariant.          *)
LEMMA WorkerStep == WorkerInv /\ [WorkerNext]_allVars => WorkerInv'
<1> SUFFICES ASSUME WorkerInv, [WorkerNext]_allVars PROVE WorkerInv'
  OBVIOUS
<1>1. CASE UNCHANGED allVars
  BY <1>1, RecEarlyKeeps DEF allVars, authVars, workerVars, sidecarVars
<1>2. CASE SubStep
  BY <1>2, SubLockKeeps, SubApplyKeeps, SubApplyFailsKeeps, SubCommitKeeps DEF SubStep
<1>3. CASE Polled
  <2>1. UNCHANGED <<store, epoch, registry, write, wire, seen, workerVars>>
    BY <1>3 DEF Polled, ReadEpoch, ReadFingerprint
  <2> QED BY <2>1, RecEarlyKeeps DEF workerVars, sidecarVars
<1>4. CASE RecStep
  <2>1. CASE RecSeed
    BY <2>1, RecEarlyKeeps DEF RecSeed
  <2>2. CASE RecTick
    BY <2>2, RecEarlyKeeps DEF RecTick, authVars
  <2>3. ASSUME NEW periodic \in BOOLEAN, RecPolled(periodic) PROVE WorkerInv'
    <3>1. rec'.at \in {"fetching", "idle"}
      BY <2>3 DEF RecPolled, Idle
    <3> QED BY <2>3, <3>1, RecEarlyKeeps DEF RecPolled
  <2>4. CASE RecHttpFails
    BY <2>4, RecEarlyKeeps DEF RecHttpFails, Idle
  <2> QED BY <1>4, <2>1, <2>2, <2>3, <2>4, RecFetchKeeps, RecLockKeeps, RecApplyKeeps,
             RecApplyFailsKeeps, RecCommitKeeps DEF RecStep
<1> QED BY <1>1, <1>2, <1>3, <1>4, AuthorityKeeps, SubTakeKeeps, PingKeeps,
          SidecarRestartKeeps DEF WorkerNext

(* The worker starts with the invariant.                                    *)
LEMMA WorkerStart == WorkerInit => WorkerInv
<1> SUFFICES ASSUME WorkerInit PROVE WorkerInv
  OBVIOUS
<1>0. NoConfig \in Config /\ EmptyCatalog \in Catalog
  BY DEF NoConfig, Config, EmptyCatalog, Catalog
<1>1. AuthShape /\ epoch = 0 /\ registry = Baked /\ write = NoWrite /\ wire[Worker] = <<>>
  BY SMT, <1>0, BakedAssumption, WorkerAssumption DEF WorkerInit, AuthInit, AuthShape, Catalog
<1>2. AuthInv
  <2>1. Messages(<<>>) = {}
    BY SMT DEF Messages
  <2> QED BY SMT, <1>1, <2>1, BoundAssumption DEF AuthInv, WorkerInit, WriteOK, NoWrite
<1>3. SubInv /\ RecInv
  BY DEF WorkerInit, SubInv, RecInv, NoDelta, Seeding
<1>4. ChildInv
  BY <1>0 DEF WorkerInit, ChildInv
<1>5. ViewInv
  <2>1. sEpoch \in 0..MaxEpoch /\ origin # "commit"
    BY SMT, BoundAssumption DEF WorkerInit
  <2> QED BY <2>1 DEF ViewInv, AdvertisedIsAuthoritative
<1>6. Barrier
  BY DEF WorkerInit, Barrier, Holding, NoDelta, Seeding
<1> QED BY <1>2, <1>3, <1>4, <1>5, <1>6 DEF WorkerInv

(* The invariant of the worker.                                             *)
LEMMA WorkerHolds == WorkerSpec => []WorkerInv
<1> QED BY WorkerStart, WorkerStep, PTL DEF WorkerSpec

(* What ConfigApplyState advertises from a commit is, in the worker's       *)
(* scope, a catalogue sie-config really had at the epoch advertised with    *)
(* it, although the subscriber and the reconciler race, deltas get lost and *)
(* either side restarts.                                                    *)
THEOREM WorkerAdvertisesAuthoritative == WorkerSpec => []AdvertisedIsAuthoritative
<1>1. WorkerInv => AdvertisedIsAuthoritative
  BY DEF WorkerInv, ViewInv
<1> QED BY <1>1, WorkerHolds, PTL

(* The quarantine covers every divergence of the children: under a          *)
(* committed configuration they agree whenever the pool is open, however    *)
(* fan-outs failed halfway, and for any number of children.                 *)
THEOREM OpenPoolAgreesHolds == WorkerSpec => []OpenPoolAgrees
<1>1. WorkerInv => OpenPoolAgrees
  BY DEF WorkerInv, Barrier, Agree, Alike, OpenPoolAgrees
<1> QED BY <1>1, WorkerHolds, PTL

-----------------------------------------------------------------------------
(* The gateway: the inductive invariant. *)

Steps == {"idle", "off", "epoch", "fingerprint", "begin", "export", "install",
          "finish"}
MarkT   == [epoch: Nat, models: Catalog \cup {None}, bundles: Deployments \cup {None}]
PreT    == [models: Catalog, bundles: Deployments]
ExportT == [epoch: Nat, models: Catalog, hash: Catalog]
TaskT   == [at: Steps, local: MarkT \cup {None}, remote: Nat \cup {None},
            force: Nat \cup {None}, fresh: BOOLEAN, pre: PreT \cup {None},
            export: ExportT \cup {None}, deployed: Deployments \cup {None}]

\* What a task k knows at its step, while sie-config has the bundles b, an
\* export is installed or not (s), i is the newest delta applied and f has
\* happened: the bundles it fetched are not newer than the deployment that
\* answered with the export, nor that than sie-config's; and a task whose
\* registry is still the captured one has an export as new as every delta,
\* unless sie-config has misread its epoch.
TaskOK(k, b, s, i, f) ==
  /\ k \in TaskT
  /\ k.at \in {"epoch", "fingerprint"} => k.local \in MarkT
  /\ k.at = "fingerprint" => k.remote \in Nat
  /\ k.at \in {"export", "install", "finish"} => k.pre \in PreT
  /\ k.at \in {"export", "install"} => k.pre.bundles <= b
  /\ k.at \in {"install", "finish"} => k.export \in ExportT
  /\ k.at = "install" => /\ k.deployed \in Deployments
                         /\ k.pre.bundles <= k.deployed /\ k.deployed <= b
  /\ k.at = "install" /\ k.fresh /\ "read" \notin f => i <= k.export.epoch
  /\ k.at = "finish" => s

\* No delta, applied or on its way, is ahead of sie-config.
Ordered ==
  "read" \notin faults =>
    installed <= epoch /\ \A n \in Messages(wire[Gateway]) : n.epoch <= epoch

ReplicaInv ==
  /\ snap \in [models: Catalog, hash: Catalog, bundles: Deployments \cup {None}]
  /\ surface \in BOOLEAN /\ mark \in MarkT /\ installed \in Nat
  /\ (surface => snap.bundles # None) /\ (mark.models # None => surface)

GwInv ==
  /\ AuthShape
  /\ bundles \in Deployments /\ ("redeploy" \notin faults => bundles = 0)
  /\ ReplicaInv
  /\ DOMAIN task = Tasks /\ task = [t \in Tasks |-> task[t]]
  /\ \A t \in Tasks : TaskOK(task[t], bundles, surface, installed, faults)
  /\ retry \in BOOLEAN /\ faults \subseteq Faults
  /\ Ordered

-----------------------------------------------------------------------------
(* The gateway: its tasks. *)

(* A task that has just started or is at rest knows nothing.                *)
LEMMA AtFacts ==
  ASSUME NEW step \in Steps
  PROVE  /\ At(step) \in TaskT /\ At(step).at = step
         /\ step \in {"idle", "off", "begin"} =>
              \A b, s, i, f : TaskOK(At(step), b, s, i, f)
<1>1. At(step) \in TaskT /\ At(step).at = step
  BY DEF At, TaskT
<1>2. ASSUME step \in {"idle", "off", "begin"}, NEW b, NEW s, NEW i, NEW f
      PROVE  TaskOK(At(step), b, s, i, f)
  BY <1>1, <1>2 DEF TaskOK
<1> QED BY <1>1, <1>2

(* A task keeps what it knows while other things only move on.              *)
LEMMA TaskKept ==
  ASSUME NEW k, NEW b \in Deployments, NEW b2 \in Deployments, b <= b2,
         NEW s, NEW s2, s => s2, NEW i, NEW f, NEW f2, f \subseteq f2,
         TaskOK(k, b, s, i, f)
  PROVE  TaskOK(k, b2, s2, i, f2)
BY SMT DEF TaskOK, Deployments, PreT

(* A task whose capture is stale knows the same but for the order.          *)
LEMMA TaskStale ==
  ASSUME NEW k, NEW b, NEW s, NEW s2, s => s2, NEW i, NEW i2, NEW f,
         TaskOK(k, b, s, i, f)
  PROVE  /\ TaskOK([k EXCEPT !.fresh = FALSE], b, s2, i2, f)
         /\ [k EXCEPT !.fresh = FALSE].at = k.at
<1> DEFINE j == [k EXCEPT !.fresh = FALSE]
<1>1. k \in TaskT
  BY DEF TaskOK
<1>2. /\ j \in TaskT /\ j.at = k.at /\ j.local = k.local /\ j.remote = k.remote
      /\ j.pre = k.pre /\ j.export = k.export /\ j.deployed = k.deployed /\ ~j.fresh
  BY <1>1 DEF TaskT
<1> HIDE DEF j
<1>3. TaskOK(j, b, s2, i2, f)
  BY <1>2 DEF TaskOK
<1> QED BY <1>2, <1>3 DEF j

(* Entering a step changes one task.                                        *)
LEMMA EnterFacts ==
  ASSUME GwInv, NEW t \in Tasks, NEW r, Enter(t, r)
  PROVE  /\ DOMAIN task' = Tasks /\ task' = [u \in Tasks |-> task'[u]]
         /\ task'[t] = r /\ \A u \in Tasks \ {t} : task'[u] = task[u]
BY DEF GwInv, Enter

(* A request to sie-config, answered or not, changes one task and notes the *)
(* fault, if there is one.                                                  *)
LEMMA ReadingKeeps ==
  ASSUME GwInv, Reading, NEW t \in Tasks, NEW r, Enter(t, r), retry' \in BOOLEAN,
         faults \subseteq faults', faults' \subseteq Faults,
         TaskOK(r, bundles, surface, installed, faults')
  PROVE  GwInv'
<1>1. /\ UNCHANGED <<store, epoch, registry, write, wire>>
      /\ UNCHANGED <<bundles, snap, surface, mark, installed>>
  BY DEF Reading, authVars
<1>2. AuthShape' /\ ReplicaInv'
  BY <1>1 DEF GwInv, AuthShape, ReplicaInv
<1>3. Ordered'
  BY <1>1 DEF GwInv, Ordered
<1>4. bundles' \in Deployments /\ ("redeploy" \notin faults' => bundles' = 0)
  BY <1>1 DEF GwInv
<1>5. ASSUME NEW u \in Tasks
      PROVE  TaskOK(task'[u], bundles, surface, installed, faults')
  <2>1. CASE u = t
    BY <2>1, EnterFacts
  <2>2. CASE u # t
    <3>1. task'[u] = task[u] /\ TaskOK(task[u], bundles, surface, installed, faults)
          /\ bundles \in Deployments
      BY <2>2, EnterFacts DEF GwInv
    <3>2. bundles <= bundles
      BY SMT, <3>1 DEF Deployments
    <3>3. TaskOK(task[u], bundles, surface, installed, faults')
      BY <3>1, <3>2, TaskKept
    <3> QED BY <3>1, <3>3
  <2> QED BY <2>1, <2>2
<1>6. \A u \in Tasks : TaskOK(task'[u], bundles', surface', installed', faults')
  BY <1>1, <1>5
<1> QED BY <1>2, <1>3, <1>4, <1>6, EnterFacts DEF GwInv

(* What every task knows, by the step it is at.                             *)
LEMMA TaskFacts ==
  ASSUME GwInv, NEW t \in Tasks
  PROVE  task[t] \in TaskT /\ TaskOK(task[t], bundles, surface, installed, faults)
BY DEF GwInv, TaskOK

(* A fault is noted.                                                        *)
LEMMA FaultFacts ==
  ASSUME GwInv
  PROVE  /\ \A kind : Fault(kind) => /\ faults \subseteq faults' /\ faults' \subseteq Faults
                                     /\ kind \in faults' /\ kind \notin faults
         /\ NoFault => faults \subseteq faults' /\ faults' \subseteq Faults
         /\ \A e : EpochSeen(e) => /\ faults \subseteq faults' /\ faults' \subseteq Faults
                                   /\ "read" \notin faults' => e = epoch
<1>1. faults \subseteq Faults
  BY DEF GwInv
<1>2. /\ \A kind : Fault(kind) => /\ faults \subseteq faults' /\ faults' \subseteq Faults
                                  /\ kind \in faults' /\ kind \notin faults
      /\ NoFault => faults \subseteq faults' /\ faults' \subseteq Faults
  BY <1>1 DEF Fault, NoFault
<1> QED BY <1>2 DEF EpochSeen

(* The export is a catalogue with an epoch.                                 *)
LEMMA ExportFacts ==
  ASSUME AuthShape, NEW e \in EpochRead
  PROVE  e \in Nat /\ Snapshot(e) \in ExportT /\ Snapshot(e).epoch = e
<1>1. NoConfig \in Config /\ e \in Nat
  BY ReadFacts
<1>2. \A m \in Models : ExportConfig(m) \in Config
  BY BakedAssumption DEF ExportConfig, AuthShape, Catalog
<1>3. registry \in Catalog
  BY DEF AuthShape
<1> QED BY <1>1, <1>2, <1>3 DEF Snapshot, ExportT, Catalog

(* The capture and the first two requests of a bootstrap.                   *)
LEMMA BeginKeeps ==
  ASSUME GwInv, NEW t \in Tasks, Begin(t)
  PROVE  GwInv'
<1> DEFINE p == [models |-> registry, bundles |-> bundles]
           r == [task[t] EXCEPT !.at = "export", !.fresh = TRUE, !.pre = p]
<1>1. task[t] \in TaskT
  BY TaskFacts
<1>2. p \in PreT /\ p.bundles = bundles /\ bundles \in Deployments
  BY DEF GwInv, AuthShape, PreT
<1>3. r \in TaskT /\ r.at = "export" /\ r.pre = p
  <2> HIDE DEF p
  <2> QED BY <1>1, <1>2 DEF TaskT, Steps
<1>4. Enter(t, r) /\ Reading /\ NoFault /\ UNCHANGED retry
  BY DEF Begin
<1>5. TaskOK(r, bundles, surface, installed, faults')
  <2> HIDE DEF p, r
  <2> QED BY SMT, <1>2, <1>3 DEF TaskOK, Deployments
<1>6. retry' \in BOOLEAN
  BY <1>4 DEF GwInv
<1> HIDE DEF r
<1> QED BY <1>4, <1>5, <1>6, FaultFacts, ReadingKeeps

(* The export arrives.                                                      *)
LEMMA FetchExportKeeps ==
  ASSUME GwInv, NEW t \in Tasks, FetchExport(t)
  PROVE  GwInv'
<1>1. PICK e \in EpochRead :
        /\ EpochSeen(e)
        /\ Enter(t, [task[t] EXCEPT !.at = "install", !.export = Snapshot(e),
                                    !.deployed = bundles])
  BY DEF FetchExport
<1> DEFINE r == [task[t] EXCEPT !.at = "install", !.export = Snapshot(e),
                                !.deployed = bundles]
<1>2. task[t].at = "export" /\ Reading /\ UNCHANGED retry
  BY DEF FetchExport
<1>3. /\ task[t] \in TaskT /\ task[t].pre \in PreT /\ task[t].pre.bundles <= bundles
      /\ bundles \in Deployments
  BY <1>2, TaskFacts DEF TaskOK, GwInv
<1>4. Snapshot(e) \in ExportT /\ Snapshot(e).epoch = e
  BY ExportFacts DEF GwInv
<1>5. /\ r \in TaskT /\ r.at = "install" /\ r.export = Snapshot(e)
      /\ r.deployed = bundles /\ r.pre = task[t].pre
  BY <1>3, <1>4 DEF TaskT, Steps
<1>6. "read" \notin faults' => installed <= e
  BY <1>1, FaultFacts DEF GwInv, Ordered
<1>7. TaskOK(r, bundles, surface, installed, faults')
  <2> HIDE DEF r
  <2> QED BY SMT, <1>3, <1>4, <1>5, <1>6 DEF TaskOK, Deployments
<1>8. retry' \in BOOLEAN
  BY <1>2 DEF GwInv
<1> HIDE DEF r
<1>9. Enter(t, r)
  BY <1>1 DEF r
<1> QED BY <1>1, <1>2, <1>7, <1>8, <1>9, FaultFacts, ReadingKeeps

(* What giving up leaves of a task.                                         *)
LEMMA GiveUpFacts ==
  ASSUME GwInv, NEW t \in Tasks, GiveUp(t)
  PROVE  retry' \in BOOLEAN /\ \E r : /\ Enter(t, r) /\ r.at \in {"begin", "idle"}
                                      /\ \A b, s, i, f : TaskOK(r, b, s, i, f)
<1> DEFINE r == IF t = "boot" THEN At("begin") ELSE At("idle")
<1>1. Enter(t, r) /\ retry' \in BOOLEAN
  BY DEF GiveUp
<1>2. r.at \in {"begin", "idle"} /\ \A b, s, i, f : TaskOK(r, b, s, i, f)
  <2>1. "begin" \in Steps /\ "idle" \in Steps
    BY DEF Steps
  <2> QED BY <2>1, AtFacts
<1> HIDE DEF r
<1> QED BY <1>1, <1>2

(* A request of a bootstrap fails.                                          *)
LEMMA RequestFailsKeeps ==
  ASSUME GwInv, NEW t \in Tasks, RequestFails(t)
  PROVE  GwInv'
<1>1. Fault("http") /\ GiveUp(t) /\ Reading
  BY DEF RequestFails
<1>2. retry' \in BOOLEAN
  BY <1>1, GiveUpFacts
<1>3. PICK r : Enter(t, r) /\ \A b, s, i, f : TaskOK(r, b, s, i, f)
  BY <1>1, GiveUpFacts
<1> QED BY <1>1, <1>2, <1>3, FaultFacts, ReadingKeeps

(* A step that changes the replica and the tasks, but nothing of            *)
(* sie-config, the faults or the newest delta.                              *)
LEMMA ReplicaKeeps ==
  ASSUME GwInv, UNCHANGED <<authVars, bundles, faults, installed>>, ReplicaInv',
         retry' \in BOOLEAN, DOMAIN task' = Tasks, task' = [u \in Tasks |-> task'[u]],
         \A u \in Tasks : TaskOK(task'[u], bundles, surface', installed, faults)
  PROVE  GwInv'
<1>1. UNCHANGED <<store, epoch, registry, write, wire>>
  BY DEF authVars
<1>2. AuthShape'
  BY <1>1 DEF GwInv, AuthShape
<1>3. Ordered'
  BY <1>1 DEF GwInv, Ordered
<1> QED BY <1>2, <1>3 DEF GwInv

(* The snapshot is replaced: by an export and the bundles fetched for it.   *)
LEMMA ReplaceKeeps ==
  ASSUME GwInv, NEW t \in Tasks, task[t].at = "install", Replace(t),
         UNCHANGED <<authVars, bundles, mark, faults, installed>>
  PROVE  GwInv'
<1>1. \A u \in Tasks : /\ task[u] \in TaskT
                       /\ TaskOK(task[u], bundles, surface, installed, faults)
  BY TaskFacts
<1>2. task[t].pre \in PreT /\ task[t].export \in ExportT
  BY <1>1 DEF TaskOK
<1>3. /\ DOMAIN task' = Tasks /\ task' = [u \in Tasks |-> task'[u]]
      /\ \A u \in Tasks : task'[u] =
           [task[u] EXCEPT !.at = IF u = t THEN "finish" ELSE @, !.fresh = FALSE]
  BY DEF Replace
<1>4. surface' = TRUE /\ UNCHANGED retry
      /\ snap' = [models |-> task[t].export.models, hash |-> task[t].export.hash,
                  bundles |-> task[t].pre.bundles]
  BY DEF Replace
<1>5. ReplicaInv'
  <2>1. /\ task[t].export.models \in Catalog /\ task[t].export.hash \in Catalog
        /\ task[t].pre.bundles \in Deployments
    BY <1>2 DEF ExportT, PreT
  <2>2. task[t].pre.bundles # None
    BY SMT, <2>1, AbsentAssumption DEF Deployments
  <2> QED BY <1>4, <2>1, <2>2 DEF GwInv, ReplicaInv
<1>6. ASSUME NEW u \in Tasks
      PROVE  TaskOK(task'[u], bundles, TRUE, installed, faults)
  <2>1. CASE u = t
    <3>1. task'[u] = [task[t] EXCEPT !.at = "finish", !.fresh = FALSE]
      BY <1>3, <2>1
    <3>2. task[t] \in TaskT
      BY <1>1
    <3>3. /\ task'[u] \in TaskT /\ task'[u].at = "finish"
          /\ task'[u].pre = task[t].pre /\ task'[u].export = task[t].export
      BY <3>1, <3>2 DEF TaskT, Steps
    <3> QED BY <1>2, <3>3 DEF TaskOK
  <2>2. CASE u # t
    <3>1. task[u] \in TaskT
      BY <1>1
    <3>2. task'[u] = [task[u] EXCEPT !.fresh = FALSE]
      <4>1. task'[u] = [task[u] EXCEPT !.at = task[u].at, !.fresh = FALSE]
        BY <1>3, <2>2
      <4>2. [task[u] EXCEPT !.at = task[u].at] = task[u]
        BY <3>1 DEF TaskT
      <4> QED BY <4>1, <4>2
    <3>3. TaskOK([task[u] EXCEPT !.fresh = FALSE], bundles, TRUE, installed, faults)
      BY <1>1, TaskStale
    <3> QED BY <3>2, <3>3
  <2> QED BY <2>1, <2>2
<1>7. \A u \in Tasks : TaskOK(task'[u], bundles, surface', installed, faults)
  BY <1>4, <1>6
<1>8. retry' \in BOOLEAN
  BY <1>4 DEF GwInv
<1> QED BY <1>3, <1>5, <1>7, <1>8, ReplicaKeeps

(* The attempt to install an export.                                        *)
LEMMA InstallKeeps ==
  ASSUME GwInv, NEW t \in Tasks, Install(t)
  PROVE  GwInv'
<1>1. task[t].at = "install" /\ UNCHANGED <<authVars, bundles, mark, faults, installed>>
  BY DEF Install
<1>2. CASE Replace(t)
  BY <1>1, <1>2, ReplaceKeeps
<1>3. CASE Refuse(t)
  <2>1. GiveUp(t) /\ UNCHANGED <<snap, surface>>
    BY <1>3 DEF Refuse
  <2>2. PICK r : Enter(t, r) /\ \A b, s, i, f : TaskOK(r, b, s, i, f)
    BY <2>1, GiveUpFacts
  <2>3. Reading
    BY <1>1, <2>1 DEF Reading
  <2>4. retry' \in BOOLEAN
    BY <2>1, GiveUpFacts
  <2>5. faults \subseteq faults' /\ faults' \subseteq Faults
    BY <1>1 DEF GwInv
  <2> QED BY <2>2, <2>3, <2>4, <2>5, ReadingKeeps
<1> QED BY <1>2, <1>3 DEF Install

(* The marks after a bootstrap.                                             *)
LEMMA FinishKeeps ==
  ASSUME GwInv, NEW t \in Tasks, Finish(t)
  PROVE  GwInv'
<1>1. /\ task[t] \in TaskT /\ task[t].pre \in PreT /\ task[t].export \in ExportT
      /\ surface
  BY TaskFacts DEF Finish, TaskOK
<1>2. /\ task[t].force # None => task[t].force \in Nat
      /\ task[t].export.epoch \in Nat /\ mark.epoch \in Nat
      /\ task[t].pre.models \in Catalog /\ task[t].pre.bundles \in Deployments
  BY <1>1 DEF TaskT, ExportT, PreT, GwInv, ReplicaInv, MarkT
<1>3. mark' \in MarkT
  BY <1>2 DEF Finish, MarkT, Max2
<1>4. ReplicaInv'
  BY <1>1, <1>3 DEF Finish, GwInv, ReplicaInv
<1> DEFINE r == IF t = "boot" THEN At("off") ELSE At("idle")
<1>5. \A b, s, i, f : TaskOK(r, b, s, i, f)
  <2>1. "off" \in Steps /\ "idle" \in Steps
    BY DEF Steps
  <2> QED BY <2>1, AtFacts
<1>6. Enter(t, r) /\ retry' \in BOOLEAN
  BY DEF Finish
<1> HIDE DEF r
<1>7. DOMAIN task' = Tasks /\ task' = [u \in Tasks |-> task'[u]]
  BY <1>6, EnterFacts
<1>8. UNCHANGED surface
  BY DEF Finish
<1>9. \A u \in Tasks : TaskOK(task'[u], bundles, surface', installed, faults)
  <2>1. \A u \in Tasks : task'[u] = r \/ task'[u] = task[u]
    BY <1>6, EnterFacts
  <2> QED BY <1>5, <1>8, <2>1, TaskFacts
<1> QED BY <1>4, <1>6, <1>7, <1>9, ReplicaKeeps DEF Finish

(* The poller.                                                              *)
LEMMA PollKeeps ==
  ASSUME GwInv, Poll \/ PollFails
  PROVE  GwInv'
<1>0. "poll" \in Tasks /\ Steps = Steps \cup {"idle", "begin", "epoch", "fingerprint"}
  BY DEF Tasks, Steps
<1>1. task["poll"] \in TaskT /\ TaskOK(task["poll"], bundles, surface, installed, faults)
  BY <1>0, TaskFacts
<1>2. Reading /\ UNCHANGED retry /\ retry' \in BOOLEAN
  BY DEF Poll, PollTick, PollEpoch, PollFingerprint, PollFails, GwInv
<1>3. CASE PollTick
  <2> DEFINE r == [At("epoch") EXCEPT !.local = mark]
  <2>1. Enter("poll", r) /\ NoFault
    BY <1>3 DEF PollTick
  <2>2. mark \in MarkT
    BY DEF GwInv, ReplicaInv
  <2>3. r \in TaskT /\ r.at = "epoch" /\ r.local = mark
    <3>1. At("epoch") \in TaskT /\ At("epoch").at = "epoch"
      BY <1>0, AtFacts
    <3> HIDE DEF At
    <3> QED BY <2>2, <3>1 DEF TaskT
  <2> HIDE DEF r
  <2>4. TaskOK(r, bundles, surface, installed, faults')
    BY <2>2, <2>3 DEF TaskOK
  <2> QED BY <1>0, <1>2, <2>1, <2>4, FaultFacts, ReadingKeeps
<1>4. CASE PollEpoch
  <2>1. PICK e \in EpochRead : /\ EpochSeen(e)
                               /\ Enter("poll", [task["poll"] EXCEPT !.at = "fingerprint",
                                                                     !.remote = e])
    BY <1>4 DEF PollEpoch
  <2> DEFINE r == [task["poll"] EXCEPT !.at = "fingerprint", !.remote = e]
  <2>2. e \in Nat
    BY ReadFacts DEF GwInv
  <2>3. task["poll"].local \in MarkT
    BY <1>1, <1>4 DEF PollEpoch, TaskOK
  <2>4. r \in TaskT /\ r.at = "fingerprint" /\ r.local = task["poll"].local /\ r.remote = e
    BY <1>1, <2>2 DEF TaskT, Steps
  <2>5. Enter("poll", r)
    BY <2>1
  <2> HIDE DEF r
  <2>6. TaskOK(r, bundles, surface, installed, faults')
    BY <2>2, <2>3, <2>4 DEF TaskOK
  <2> QED BY <1>0, <1>2, <2>1, <2>5, <2>6, FaultFacts, ReadingKeeps
<1>5. CASE PollFingerprint
  <2>1. task["poll"].remote \in Nat
    BY <1>1, <1>5 DEF PollFingerprint, TaskOK
  <2> DEFINE forced == [At("begin") EXCEPT !.force = task["poll"].remote]
  <2>2. \A b, s, i, f : TaskOK(At("begin"), b, s, i, f) /\ TaskOK(At("idle"), b, s, i, f)
    BY <1>0, AtFacts
  <2>3. forced \in TaskT /\ forced.at = "begin"
    <3>1. At("begin") \in TaskT /\ At("begin").at = "begin"
      BY <1>0, AtFacts
    <3> HIDE DEF At
    <3> QED BY <2>1, <3>1 DEF TaskT
  <2>4. NoFault /\ (Enter("poll", forced) \/ Enter("poll", At("begin"))
                      \/ Enter("poll", At("idle")))
    BY <1>5 DEF PollFingerprint
  <2> HIDE DEF forced
  <2>5. TaskOK(forced, bundles, surface, installed, faults')
    BY <2>3 DEF TaskOK
  <2> QED BY <1>0, <1>2, <2>2, <2>4, <2>5, FaultFacts, ReadingKeeps
<1>6. CASE PollFails
  <2>1. Fault("http") /\ Enter("poll", At("idle"))
    BY <1>6 DEF PollFails
  <2>2. \A b, s, i, f : TaskOK(At("idle"), b, s, i, f)
    BY <1>0, AtFacts
  <2> QED BY <1>0, <1>2, <2>1, <2>2, FaultFacts, ReadingKeeps
<1> QED BY <1>3, <1>4, <1>5, <1>6 DEF Poll

(* A delta that is applied makes every capture stale.                       *)
LEMMA HandleDeltaKeeps ==
  ASSUME GwInv, HandleDelta
  PROVE  GwInv'
<1> DEFINE n == Head(wire[Gateway])
<1>1. wire \in [Clients -> Seq(Notification)] /\ wire[Gateway] \in Seq(Notification)
  BY GatewayAssumption DEF GwInv, AuthShape
<1>2. wire[Gateway] # <<>> /\ wire' = [wire EXCEPT ![Gateway] = Tail(@)]
  BY DEF HandleDelta
<1>3. /\ n \in Messages(wire[Gateway]) /\ n \in Notification
      /\ Tail(wire[Gateway]) \in Seq(Notification)
      /\ Messages(Tail(wire[Gateway])) \subseteq Messages(wire[Gateway])
  BY <1>1, <1>2, QueueFacts
<1>4. /\ wire' \in [Clients -> Seq(Notification)]
      /\ Messages(wire'[Gateway]) \subseteq Messages(wire[Gateway])
  BY <1>1, <1>2, <1>3, GatewayAssumption
<1>5. UNCHANGED <<store, epoch, registry, write, bundles, surface, retry, faults>>
  BY DEF HandleDelta
<1>6. AuthShape'
  BY <1>4, <1>5 DEF GwInv, AuthShape
<1> HIDE DEF n
<1>7. n.epoch \in Nat /\ n.model \in Models /\ n.config \in Config /\ n.hash \in Catalog
  BY <1>3 DEF Notification
<1>8. CASE UNCHANGED <<snap, task, mark, installed>>
  <2>1. ReplicaInv'
    BY <1>5, <1>8 DEF GwInv, ReplicaInv
  <2>2. Ordered'
    BY <1>4, <1>5, <1>8 DEF GwInv, Ordered
  <2> QED BY <1>5, <1>6, <1>8, <2>1, <2>2 DEF GwInv
<1>9. CASE /\ snap' = [Added(n) EXCEPT !.hash = n.hash]
           /\ task' = [t \in Tasks |-> [task[t] EXCEPT !.fresh = FALSE]]
           /\ mark' = [mark EXCEPT !.epoch = Max2(@, n.epoch)]
           /\ installed' = Max2(installed, n.epoch)
  <2>1. /\ snap \in [models: Catalog, hash: Catalog, bundles: Deployments \cup {None}]
        /\ mark \in MarkT /\ installed \in Nat
    BY DEF GwInv, ReplicaInv
  <2>2. /\ snap'.bundles = snap.bundles
        /\ snap' \in [models: Catalog, hash: Catalog, bundles: Deployments \cup {None}]
    <3> DEFINE ms == [snap.models EXCEPT ![n.model] = Merge(@, n.config)]
    <3>1. snap.models \in [Models -> Config] /\ snap.models[n.model] \in Config
      BY <1>7, <2>1 DEF Catalog
    <3>2. Merge(snap.models[n.model], n.config) \in Config
      BY <1>7, <3>1, MergeFacts
    <3>3. ms \in Catalog
      BY <3>1, <3>2 DEF Catalog
    <3>4. Added(n) = [snap EXCEPT !.models = ms, !.hash = ms]
      BY DEF Added
    <3> HIDE DEF ms
    <3> QED BY <1>7, <1>9, <2>1, <3>3, <3>4
  <2>3. mark' \in MarkT /\ mark'.models = mark.models /\ installed' \in Nat
    BY <1>7, <1>9, <2>1 DEF MarkT, Max2
  <2>4. ReplicaInv'
    BY <1>5, <2>2, <2>3 DEF GwInv, ReplicaInv
  <2>5. Ordered'
    <3>1. "read" \notin faults => n.epoch <= epoch /\ installed <= epoch
      BY <1>3 DEF GwInv, Ordered
    <3>2. "read" \notin faults' => installed' <= epoch'
      BY <1>5, <1>9, <3>1 DEF Max2
    <3> QED BY <1>4, <1>5, <3>2 DEF GwInv, Ordered
  <2>6. \A t \in Tasks : TaskOK(task[t], bundles, surface, installed, faults)
    BY TaskFacts
  <2>7. ASSUME NEW t \in Tasks
        PROVE  TaskOK(task'[t], bundles', surface', installed', faults')
    <3>1. task'[t] = [task[t] EXCEPT !.fresh = FALSE]
      BY <1>9
    <3>2. TaskOK([task[t] EXCEPT !.fresh = FALSE], bundles, surface, installed', faults)
      BY <2>6, TaskStale
    <3> QED BY <1>5, <3>1, <3>2
  <2>8. DOMAIN task' = Tasks /\ task' = [t \in Tasks |-> task'[t]]
    BY <1>9
  <2> QED BY <1>5, <1>6, <2>4, <2>5, <2>7, <2>8 DEF GwInv
<1> QED BY <1>8, <1>9 DEF HandleDelta, n

(* A step of sie-config, with what it does to the epoch and to the messages *)
(* under way, leaves the gateway as it is.                                  *)
LEMMA GwAuthorityKeeps ==
  ASSUME GwInv, AuthShape',
         UNCHANGED <<snap, surface, mark, task, retry, installed>>,
         bundles' \in Deployments, bundles <= bundles',
         "redeploy" \notin faults' => bundles' = 0,
         faults \subseteq faults', faults' \subseteq Faults,
         "read" \notin faults' =>
           /\ epoch <= epoch'
           /\ \A n \in Messages(wire'[Gateway]) :
                n \in Messages(wire[Gateway]) \/ n.epoch = epoch
  PROVE  GwInv'
<1>1. ReplicaInv'
  <2>1. ReplicaInv /\ snap' = snap /\ surface' = surface /\ mark' = mark /\ installed' = installed
    BY DEF GwInv
  <2> QED BY SMT, <2>1 DEF ReplicaInv
<1>2. Ordered'
  <2> SUFFICES ASSUME "read" \notin faults'
               PROVE  /\ installed' <= epoch'
                      /\ \A n \in Messages(wire'[Gateway]) : n.epoch <= epoch'
    BY DEF Ordered
  <2>1. /\ installed <= epoch /\ \A n \in Messages(wire[Gateway]) : n.epoch <= epoch
        /\ installed \in Nat /\ epoch \in Nat /\ epoch' \in Nat /\ epoch <= epoch'
    BY DEF GwInv, Ordered, ReplicaInv, AuthShape
  <2>2. wire[Gateway] \in Seq(Notification) /\ wire'[Gateway] \in Seq(Notification)
    BY GatewayAssumption DEF GwInv, AuthShape
  <2>3. Messages(wire'[Gateway]) \subseteq Notification
    BY <2>2, QueueFacts
  <2>4. \A n \in Messages(wire'[Gateway]) : n.epoch \in Nat /\ n.epoch <= epoch
    BY SMT, <2>1, <2>3 DEF Notification
  <2> QED BY SMT, <2>1, <2>4
<1>3. ASSUME NEW t \in Tasks
      PROVE  TaskOK(task[t], bundles', surface, installed, faults')
  <2>1. bundles \in Deployments /\ TaskOK(task[t], bundles, surface, installed, faults)
    BY DEF GwInv
  <2> QED BY <2>1, TaskKept
<1>4. \A t \in Tasks : TaskOK(task'[t], bundles', surface', installed', faults')
  BY <1>3
<1> QED BY <1>1, <1>2, <1>4 DEF GwInv

(* sie-config begins, registers or publishes a write.                       *)
LEMMA AuthorityWritesKeeps ==
  ASSUME GwInv, AuthorityWrites
  PROVE  GwInv'
<1>1. /\ AuthShape /\ bundles \in Deployments /\ faults' = faults /\ bundles' = bundles
      /\ ("redeploy" \notin faults => bundles = 0) /\ faults \subseteq Faults
      /\ UNCHANGED <<snap, surface, mark, task, retry, installed>>
  BY DEF GwInv, AuthorityWrites, NoFault
<1>2. Written \subseteq Models /\ Replacements \subseteq Bodies
  BY RequestsAssumption
<1>3. \/ \E m \in Models :
           (\E c \in Bodies : AddModel(m, c) \/ ReplaceModel(m, c)) \/ DeleteModel(m)
      \/ RegisterWrite \/ PublishWrite
  BY <1>2 DEF AuthorityWrites
<1>4. AuthWrite
  BY <1>3 DEF AuthWrite
<1>5. AuthShape' /\ epoch \in Nat
  BY <1>1, <1>4, AuthShapeStep DEF AuthShape
<1>6. UNCHANGED <<epoch, wire>>
      \/ (PublishWrite /\ epoch' = epoch)
  BY <1>1, <1>3, BeginFacts, RegisterFacts, PublishFacts
<1>7. \A n \in Messages(wire'[Gateway]) : n \in Messages(wire[Gateway]) \/ n.epoch = epoch
  <2>1. CASE UNCHANGED <<epoch, wire>>
    BY <2>1
  <2>2. CASE PublishWrite
    <3>1. Delta(write).epoch = epoch
      BY DEF Delta
    <3> QED BY <1>1, <2>2, <3>1, GatewayAssumption, PublishFacts
  <2> QED BY <1>6, <2>1, <2>2
<1>8. epoch <= epoch' /\ bundles <= bundles'
  BY SMT, <1>1, <1>5, <1>6 DEF Deployments
<1> QED BY <1>1, <1>5, <1>7, <1>8, GwAuthorityKeeps

(* sie-config counts a write, or fails to.                                  *)
LEMMA AuthorityCountsKeeps ==
  ASSUME GwInv, AuthorityCounts
  PROVE  GwInv'
<1>1. /\ AuthShape /\ bundles \in Deployments /\ bundles' = bundles
      /\ ("redeploy" \notin faults => bundles = 0) /\ faults \subseteq Faults
      /\ UNCHANGED <<snap, surface, mark, task, retry, installed>>
  BY DEF GwInv, AuthorityCounts
<1>2. (CountWrite \/ CountFails) /\ UNCHANGED wire
  BY DEF AuthorityCounts, CountWrite, CountFails
<1>3. AuthShape' /\ epoch \in Nat
  BY <1>1, <1>2, AuthShapeStep DEF AuthWrite, AuthShape
<1>4. faults \subseteq faults' /\ faults' \subseteq Faults
  BY FaultFacts DEF AuthorityCounts
<1>5. "read" \notin faults' => epoch <= epoch'
  <2>1. CASE CountWrite /\ (epoch' = epoch + 1 \/ epoch' = epoch)
    BY SMT, <1>3, <2>1
  <2>2. CASE CountWrite /\ Fault("read")
    BY <2>2, FaultFacts
  <2>3. CASE CountFails
    BY SMT, <1>3, <2>3 DEF CountFails
  <2>4. \/ CountWrite /\ (epoch' = epoch + 1 \/ ~HasStore)
        \/ CountWrite /\ Fault("read")
        \/ CountFails
    BY DEF AuthorityCounts
  <2>5. CountWrite /\ ~HasStore => epoch' = epoch
    BY DEF CountWrite
  <2> QED BY <2>1, <2>2, <2>3, <2>4, <2>5
<1>6. bundles <= bundles' /\ ("redeploy" \notin faults' => bundles' = 0)
  BY SMT, <1>1, <1>4 DEF Deployments
<1>7. \A n \in Messages(wire'[Gateway]) : n \in Messages(wire[Gateway])
  BY <1>2
<1> QED BY <1>1, <1>3, <1>4, <1>5, <1>6, <1>7, GwAuthorityKeeps

(* sie-config restarts, once, with the bundles it had or the next ones.     *)
LEMMA RedeployKeeps ==
  ASSUME GwInv, Redeploy
  PROVE  GwInv'
<1>1. /\ AuthShape /\ bundles \in Deployments
      /\ ("redeploy" \notin faults => bundles = 0) /\ faults \subseteq Faults
      /\ UNCHANGED <<snap, surface, mark, task, retry, installed>>
      /\ Restart /\ Fault("redeploy") /\ bundles' \in {bundles, bundles + 1}
  BY DEF GwInv, Redeploy
<1>2. AuthShape' /\ UNCHANGED <<epoch, wire>> /\ epoch \in Nat
  BY <1>1, AuthShapeStep, RestartFacts DEF AuthShape
<1>3. /\ faults \subseteq faults' /\ faults' \subseteq Faults
      /\ "redeploy" \in faults' /\ "redeploy" \notin faults
  BY <1>1 DEF Fault
<1>4. bundles = 0 /\ bundles' \in Deployments /\ bundles <= bundles'
  BY SMT, <1>1, <1>3 DEF Deployments
<1>5. epoch <= epoch' /\ \A n \in Messages(wire'[Gateway]) : n \in Messages(wire[Gateway])
  BY SMT, <1>2
<1> QED BY <1>1, <1>2, <1>3, <1>4, <1>5, GwAuthorityKeeps

(* The first state of the gateway's own part.                               *)
LEMMA GatewayBegins ==
  ASSUME NEW b, NEW f, NEW k,
         k = [t \in Tasks |-> IF t = "boot" THEN At("begin") ELSE At("idle")]
  PROVE  /\ DOMAIN k = Tasks /\ k = [t \in Tasks |-> k[t]]
         /\ \A t \in Tasks : TaskOK(k[t], b, FALSE, 0, f)
         /\ Nothing \in [models: Catalog, hash: Catalog, bundles: Deployments \cup {None}]
         /\ Unmarked \in MarkT /\ Unmarked.models = None
<1>1. \A t \in Tasks : k[t] = At("begin") \/ k[t] = At("idle")
  OBVIOUS
<1>2. TaskOK(At("begin"), b, FALSE, 0, f) /\ TaskOK(At("idle"), b, FALSE, 0, f)
  BY AtFacts DEF Steps
<1>3. \A t \in Tasks : TaskOK(k[t], b, FALSE, 0, f)
  BY <1>1, <1>2
<1>4. Absent \in Catalog
  BY DEF Absent, Catalog, NoConfig, Config
<1>5. /\ Nothing \in [models: Catalog, hash: Catalog, bundles: Deployments \cup {None}]
      /\ Unmarked \in MarkT /\ Unmarked.models = None
  BY <1>4 DEF Nothing, Unmarked, MarkT
<1> QED BY <1>3, <1>5

(* The gateway restarts.                                                    *)
LEMMA GatewayRestartKeeps ==
  ASSUME GwInv, GatewayRestart
  PROVE  GwInv'
<1>1. /\ AuthShape /\ bundles \in Deployments /\ faults \subseteq Faults
      /\ ("redeploy" \notin faults => bundles = 0) /\ Ordered
  BY DEF GwInv
<1>2. /\ Fault("gateway")
      /\ snap' = Nothing /\ surface' = FALSE /\ mark' = Unmarked
      /\ task' = [t \in Tasks |-> IF t = "boot" THEN At("begin") ELSE At("idle")]
      /\ retry' = FALSE /\ installed' = 0
      /\ wire' = [wire EXCEPT ![Gateway] = <<>>]
      /\ UNCHANGED <<store, epoch, registry, write, bundles>>
  BY DEF GatewayRestart
<1>3. AuthShape' /\ wire'[Gateway] = <<>> /\ epoch' \in Nat
  BY SMT, <1>1, <1>2, GatewayAssumption DEF AuthShape
<1>4. faults \subseteq faults' /\ faults' \subseteq Faults
  BY <1>2, FaultFacts
<1>5. Ordered'
  BY SMT, <1>2, <1>3 DEF Ordered, Messages
<1>6. /\ DOMAIN task' = Tasks /\ task' = [t \in Tasks |-> task'[t]]
      /\ \A t \in Tasks : TaskOK(task'[t], bundles', FALSE, 0, faults')
      /\ Nothing \in [models: Catalog, hash: Catalog, bundles: Deployments \cup {None}]
      /\ Unmarked \in MarkT /\ Unmarked.models = None
  <2> DEFINE k == task'
             b == bundles'
             f == faults'
  <2>1. k = [t \in Tasks |-> IF t = "boot" THEN At("begin") ELSE At("idle")]
    BY <1>2
  <2> HIDE DEF k, b, f
  <2>2. /\ DOMAIN k = Tasks /\ k = [t \in Tasks |-> k[t]]
        /\ \A t \in Tasks : TaskOK(k[t], b, FALSE, 0, f)
        /\ Nothing \in [models: Catalog, hash: Catalog, bundles: Deployments \cup {None}]
        /\ Unmarked \in MarkT /\ Unmarked.models = None
    BY <2>1, GatewayBegins
  <2> QED BY <2>2 DEF k, b, f
<1>7. ReplicaInv'
  BY <1>2, <1>6 DEF ReplicaInv
<1> QED BY <1>1, <1>2, <1>3, <1>4, <1>5, <1>6, <1>7 DEF GwInv

(* Every state reachable from the first satisfies the invariant.            *)
LEMMA GwStart == GwInit => GwInv
<1> SUFFICES ASSUME GwInit PROVE GwInv
  OBVIOUS
<1>1. /\ AuthInit /\ bundles = 0 /\ snap = Nothing /\ surface = FALSE /\ mark = Unmarked
      /\ task = [t \in Tasks |-> IF t = "boot" THEN At("begin") ELSE At("idle")]
      /\ retry = FALSE /\ faults = {} /\ installed = 0
  BY DEF GwInit
<1>2. /\ DOMAIN task = Tasks /\ task = [t \in Tasks |-> task[t]]
      /\ \A t \in Tasks : TaskOK(task[t], bundles, FALSE, 0, faults)
      /\ Nothing \in [models: Catalog, hash: Catalog, bundles: Deployments \cup {None}]
      /\ Unmarked \in MarkT /\ Unmarked.models = None
  <2> DEFINE k == task
  <2>1. k = [t \in Tasks |-> IF t = "boot" THEN At("begin") ELSE At("idle")]
    BY <1>1
  <2> HIDE DEF k
  <2>2. /\ DOMAIN k = Tasks /\ k = [t \in Tasks |-> k[t]]
        /\ \A t \in Tasks : TaskOK(k[t], bundles, FALSE, 0, faults)
        /\ Nothing \in [models: Catalog, hash: Catalog, bundles: Deployments \cup {None}]
        /\ Unmarked \in MarkT /\ Unmarked.models = None
    BY <2>1, GatewayBegins
  <2> QED BY <2>2 DEF k
<1>3. NoConfig \in Config /\ Baked \in Catalog
  BY BakedAssumption DEF NoConfig, Config
<1>4. AuthShape /\ wire[Gateway] = <<>> /\ epoch = 0
  BY SMT, <1>1, <1>3, GatewayAssumption DEF AuthInit, AuthShape, Catalog
<1>5. Ordered
  BY SMT, <1>1, <1>4 DEF Ordered, Messages
<1>6. ReplicaInv
  BY <1>1, <1>2 DEF ReplicaInv
<1>7. \A t \in Tasks : TaskOK(task[t], bundles, surface, installed, faults)
  BY <1>1, <1>2
<1>8. bundles \in Deployments /\ faults \subseteq Faults
  BY SMT, <1>1 DEF Deployments
<1>9. retry \in BOOLEAN
  BY <1>1
<1> QED BY <1>1, <1>2, <1>4, <1>5, <1>6, <1>7, <1>8, <1>9 DEF GwInv

(* Every step preserves it.                                                 *)
LEMMA GwStep == GwInv /\ [GwNext]_vars => GwInv'
<1> SUFFICES ASSUME GwInv, [GwNext]_vars PROVE GwInv'
  OBVIOUS
<1>1. ASSUME NEW t \in Tasks, Bootstrap(t) PROVE GwInv'
  BY <1>1, BeginKeeps, FetchExportKeeps, InstallKeeps, FinishKeeps DEF Bootstrap
<1>2. ASSUME NEW t \in Tasks, RequestFails(t) PROVE GwInv'
  BY <1>2, RequestFailsKeeps
<1>3. CASE Poll \/ PollFails
  BY <1>3, PollKeeps
<1>4. CASE HandleDelta
  BY <1>4, HandleDeltaKeeps
<1>5. CASE AuthorityWrites
  BY <1>5, AuthorityWritesKeeps
<1>6. CASE AuthorityCounts
  BY <1>6, AuthorityCountsKeeps
<1>7. CASE Redeploy
  BY <1>7, RedeployKeeps
<1>8. CASE GatewayRestart
  BY <1>8, GatewayRestartKeeps
<1>9. CASE UNCHANGED vars
  <2>1. /\ UNCHANGED <<store, epoch, registry, write, wire>>
        /\ UNCHANGED <<bundles, snap, surface, mark, task, retry, faults, installed>>
    BY <1>9 DEF vars, authVars, gwVars
  <2>2. AuthShape' /\ ReplicaInv' /\ Ordered'
    BY <2>1 DEF GwInv, AuthShape, ReplicaInv, Ordered
  <2> QED BY <2>1, <2>2 DEF GwInv
<1> QED BY <1>1, <1>2, <1>3, <1>4, <1>5, <1>6, <1>7, <1>8, <1>9 DEF GwNext

(* The invariant holds of the gateway, whatever fails.                      *)
LEMMA GwHolds == GwSpec => []GwInv
<1> QED BY GwStart, GwStep, PTL DEF GwSpec

-----------------------------------------------------------------------------
(* The gateway: what it promises. *)

(* A task gets from its export to the marks only by installing the export,  *)
(* which it captured nothing newer for, with the bundles it fetched being   *)
(* sie-config's still.                                                      *)
LEMMA OnlyReplace ==
  ASSUME GwInv, [GwNext]_vars, NEW t \in Tasks,
         task[t].at = "install", task'[t].at = "finish"
  PROVE  Replace(t) /\ task[t].fresh /\ bundles = task[t].pre.bundles
<1>1. ASSUME NEW u \in Tasks, NEW r, Enter(u, r), u # t \/ r.at # "finish"
      PROVE  FALSE
  <2>1. CASE u = t
    BY <1>1, <2>1, EnterFacts
  <2>2. CASE u # t
    <3>1. task'[t] = task[t]
      BY <1>1, <2>2, EnterFacts
    <3> QED BY <3>1
  <2> QED BY <1>1, <2>1, <2>2
<1>2. \A step \in {"begin", "idle", "off"} : At(step).at # "finish"
  BY DEF At
<1>3. ASSUME NEW u \in Tasks, Bootstrap(u) \/ RequestFails(u)
      PROVE  Replace(t) /\ task[t].fresh /\ bundles = task[t].pre.bundles
  <2>1. CASE Begin(u)
    <3>1. task[u].at = "begin" /\ u # t
      BY <2>1 DEF Begin
    <3> QED BY <1>1, <2>1, <3>1 DEF Begin
  <2>2. CASE FetchExport(u)
    <3>1. task[u].at = "export" /\ u # t /\ \E r : Enter(u, r)
      BY <2>2 DEF FetchExport
    <3> QED BY <1>1, <3>1
  <2>3. CASE GiveUp(u)
    BY <1>1, <1>2, <2>3 DEF GiveUp
  <2>4. CASE Finish(u)
    BY <1>1, <1>2, <2>4 DEF Finish
  <2>5. CASE Install(u) /\ ~GiveUp(u)
    <3>1. Replace(u) /\ task[u].fresh /\ bundles = task[u].pre.bundles
      BY <2>5 DEF Install, Refuse
    <3>2. ASSUME u # t PROVE FALSE
      <4>1. task'[t] = [task[t] EXCEPT !.at = IF t = u THEN "finish" ELSE @, !.fresh = FALSE]
        BY <3>1 DEF Replace
      <4>2. task[t] \in TaskT
        BY TaskFacts
      <4>3. task'[t].at = task[t].at
        BY <3>2, <4>1, <4>2 DEF TaskT
      <4> QED BY <4>3
    <3> QED BY <3>1, <3>2
  <2> QED BY <1>3, <2>1, <2>2, <2>3, <2>4, <2>5 DEF Bootstrap, RequestFails
<1>4. ASSUME Poll \/ PollFails PROVE FALSE
  <2>1. "poll" \in Tasks /\ task["poll"].at \in {"idle", "epoch", "fingerprint"} /\ "poll" # t
    BY <1>4 DEF Poll, PollTick, PollEpoch, PollFingerprint, PollFails, Tasks
  <2>2. \E r : Enter("poll", r)
    BY <1>4 DEF Poll, PollTick, PollEpoch, PollFingerprint, PollFails
  <2> QED BY <1>1, <2>1, <2>2
<1>5. ASSUME HandleDelta PROVE FALSE
  <2>1. task' = task \/ task' = [u \in Tasks |-> [task[u] EXCEPT !.fresh = FALSE]]
    BY <1>5 DEF HandleDelta
  <2>2. task[t] \in TaskT
    BY TaskFacts
  <2>3. task'[t].at = task[t].at
    BY <2>1, <2>2 DEF TaskT
  <2> QED BY <2>3
<1>6. ASSUME GatewayRestart PROVE FALSE
  BY <1>2, <1>6 DEF GatewayRestart
<1>7. ASSUME UNCHANGED task PROVE FALSE
  BY <1>7
<1>8. CASE AuthorityWrites \/ AuthorityCounts \/ Redeploy \/ UNCHANGED vars
  <2>1. UNCHANGED task
    BY <1>8 DEF AuthorityWrites, AuthorityCounts, Redeploy, vars, gwVars
  <2> QED BY <1>7, <2>1
<1> QED BY <1>3, <1>4, <1>5, <1>6, <1>8 DEF GwNext

(* The gateway's state has its types; in particular an installed export has *)
(* its bundles, and a gateway with marks has installed an export.           *)
THEOREM GwTypes == GwSpec => []GwTypeOK
<1>1. ASSUME GwInv PROVE GwTypeOK
  <2>1. \A t \in Tasks : task[t].at \in Steps
    BY TaskFacts, <1>1 DEF TaskT
  <2> QED BY <1>1, <2>1 DEF GwInv, ReplicaInv, GwTypeOK, MarkT, Steps
<1> QED BY <1>1, GwHolds, PTL

(* replace_authoritative_surface_if_current never takes back a delta that   *)
(* was applied while the export was under way, however the bootstrap loop,  *)
(* the poller, the subscription and sie-config interleave.                  *)
THEOREM ExportsKeepDeltas == GwSpec => NoLostDelta
<1>1. ASSUME GwInv, [GwNext]_vars, NEW t \in Tasks,
             task[t].at = "install", task'[t].at = "finish",
             faults \cap {"read", "count"} = {}
      PROVE  task[t].export.epoch >= installed
  <2>1. task[t].fresh
    BY <1>1, OnlyReplace
  <2>2. /\ task[t].export \in ExportT /\ installed \in Nat
        /\ installed <= task[t].export.epoch
    BY <1>1, <2>1, TaskFacts DEF TaskOK, GwInv, ReplicaInv
  <2> QED BY <2>2 DEF ExportT
<1>2. GwInv /\ [GwNext]_vars =>
        [\A t \in Tasks :
           /\ task[t].at = "install" /\ task'[t].at = "finish"
           /\ faults \cap {"read", "count"} = {}
           => task[t].export.epoch >= installed]_vars
  BY <1>1
<1> QED BY <1>2, GwHolds, PTL DEF GwSpec, NoLostDelta

(* The bootstrap installs bundles and models of one deployment, whatever is *)
(* redeployed between its reads.                                            *)
THEOREM SnapshotsMatch == GwSpec => MatchedSnapshot
<1>1. ASSUME GwInv, [GwNext]_vars, NEW t \in Tasks,
             task[t].at = "install", task'[t].at = "finish"
      PROVE  snap'.bundles = task[t].deployed
  <2>1. Replace(t) /\ bundles = task[t].pre.bundles
    BY <1>1, OnlyReplace
  <2>2. snap'.bundles = task[t].pre.bundles
    BY <2>1 DEF Replace
  <2>3. /\ task[t].deployed \in Deployments /\ bundles \in Deployments
        /\ task[t].pre.bundles <= task[t].deployed /\ task[t].deployed <= bundles
    BY <1>1, TaskFacts DEF TaskOK, GwInv
  <2> QED BY SMT, <2>1, <2>2, <2>3 DEF Deployments
<1>2. GwInv /\ [GwNext]_vars =>
        [\A t \in Tasks : task[t].at = "install" /\ task'[t].at = "finish" =>
           snap'.bundles = task[t].deployed]_vars
  BY <1>1
<1> QED BY <1>2, GwHolds, PTL DEF GwSpec, MatchedSnapshot
=============================================================================
