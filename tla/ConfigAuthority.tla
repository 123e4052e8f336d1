-------------------------- MODULE ConfigAuthority --------------------------
(***************************************************************************)
(* sie-config, the single-replica control plane: it validates, persists    *)
(* and publishes model configurations, and answers the two requests its    *)
(* consumers (gateways, worker sidecars) reconcile with.                   *)
(*                                                                         *)
(* A write runs under the per-app write lock through four steps with an    *)
(* await between them: persist to the store, mutate the in-memory          *)
(* registry, increment the persisted epoch, publish a NATS core delta.     *)
(* The process may stop between any two of them; what a restart shows is   *)
(* rebuilt from the image's files and the store.  GET /epoch takes no lock *)
(* and reads the epoch and the fingerprint at two moments; GET /export     *)
(* takes the write lock.                                                   *)
(*                                                                         *)
(* A model's configuration is the version each of its profiles has, None   *)
(* for a profile it does not have; the model without profiles (NoConfig)   *)
(* is absent.  A digest of a catalogue (bundle_config_hash, the            *)
(* fingerprint of /epoch) is the catalogue itself: the digest is taken to  *)
(* be injective.  The bundle_config_hash of the empty catalogue is "".     *)
(***************************************************************************)
EXTENDS Integers, Sequences

CONSTANTS Models, Profiles, Versions, None,
          Baked,        \* the catalogue of the image's models directory
          HasStore,     \* SIE_CONFIG_STORE_DIR and SIE_CONFIG_RESTORE are set
          FlakyReads,   \* a read of the store may fail
          Bodies,       \* the configurations requests carry
          Clients,      \* subscribers of the deltas and pollers of /epoch
          MaxEpoch      \* bound on the writes: the epoch stays at most this

Config   == [Profiles -> Versions \cup {None}]
NoConfig == [p \in Profiles |-> None]
Catalog  == [Models -> Config]

ASSUME NoneAssumption == None \notin Versions
ASSUME BakedAssumption == Baked \in Catalog
ASSUME FlagAssumption == HasStore \in BOOLEAN /\ FlakyReads \in BOOLEAN
ASSUME BodiesAssumption == Bodies \subseteq Config \ {NoConfig}
ASSUME BoundAssumption == MaxEpoch \in Nat

VARIABLES store,     \* the per-model YAML files: what an API write persisted
          epoch,     \* the persisted epoch counter, 0 for ever without a store
          registry,  \* the in-memory ModelRegistry
          write,     \* the write that holds the lock, and how far it is
          wire,      \* per client: deltas sent to it and not yet handled
          reply      \* per client: the answer of /epoch it waits for or holds

authVars == <<store, epoch, registry, write, wire, reply>>

NoWrite == [phase |-> "idle"]
NoReply == [got |-> "nothing"]

Notification == [epoch: Nat, model: Models, config: Config, hash: Catalog]

AuthTypeOK ==
  /\ store \in Catalog
  /\ epoch \in Nat
  /\ registry \in Catalog
  /\ write \in {NoWrite} \cup
       [phase: {"persisted", "registered", "counted"},
        op: {"add", "replace", "delete"}, model: Models, body: Config]
  /\ wire \in [Clients -> Seq(Notification)]
  /\ reply \in [Clients -> {NoReply} \cup [got: {"epoch"}, epoch: Nat]
                 \cup [got: {"both"}, epoch: Nat, fingerprint: Catalog]]

-----------------------------------------------------------------------------
(* Operators of the registry and of the store. *)

\* The profiles two configurations both define with different content.
Conflicts(c, d) ==
  {p \in Profiles : c[p] # None /\ d[p] # None /\ c[p] # d[p]}

\* The profiles of d that c does not have yet: the ones a POST creates.
Created(c, d) == {p \in Profiles : c[p] = None /\ d[p] # None}

\* c extended and overridden by the profiles of d (dict.update).
Merge(c, d) == [p \in Profiles |-> IF d[p] # None THEN d[p] ELSE c[p]]

\* The registry after a restart: the image's models, and every stored model
\* re-added through the append-only path; a stored model that conflicts with
\* the image's is logged and skipped.
Restored(st) ==
  [m \in Models |-> IF HasStore /\ Conflicts(Baked[m], st[m]) = {}
                    THEN Merge(Baked[m], st[m]) ELSE Baked[m]]

\* What ConfigStore.read_epoch may return: 0 when the read fails.
EpochRead == {epoch} \cup (IF FlakyReads THEN {0} ELSE {})

\* What ConfigStore.read_model may return: nothing when the read fails.
StoreRead(m) == {store[m]} \cup (IF FlakyReads THEN {NoConfig} ELSE {})

LockFree == write = NoWrite

AuthInit ==
  /\ store = [m \in Models |-> NoConfig]
  /\ epoch = 0
  /\ registry = Baked
  /\ write = NoWrite
  /\ wire = [c \in Clients |-> <<>>]
  /\ reply = [c \in Clients |-> NoReply]

-----------------------------------------------------------------------------
(* The writes.  A POST that creates no profile, a PUT of the content that   *)
(* is there and a DELETE of a model that is not stored change nothing.      *)

\* Faulty variants of AddModel: the body alone is written over the stored
\* document; nothing is written at all.
AddModelOverwrites(m, c) ==
  /\ LockFree /\ epoch < MaxEpoch
  /\ Conflicts(registry[m], c) = {} /\ Created(registry[m], c) # {}
  /\ store' = IF HasStore THEN [store EXCEPT ![m] = c] ELSE store
  /\ write' = [phase |-> "persisted", op |-> "add", model |-> m, body |-> c]
  /\ UNCHANGED <<epoch, registry, wire, reply>>

AddModelUnpersisted(m, c) ==
  /\ LockFree /\ epoch < MaxEpoch
  /\ Conflicts(registry[m], c) = {} /\ Created(registry[m], c) # {}
  /\ write' = [phase |-> "persisted", op |-> "add", model |-> m, body |-> c]
  /\ UNCHANGED <<store, epoch, registry, wire, reply>>

\* POST /v1/configs/models: append-only.  With a store, the document written
\* is the stored one updated with the body, not the registry's.
AddModel(m, c) ==
  /\ LockFree /\ epoch < MaxEpoch
  /\ Conflicts(registry[m], c) = {} /\ Created(registry[m], c) # {}
  /\ IF HasStore
       THEN \E onDisk \in StoreRead(m) :
              store' = [store EXCEPT ![m] = Merge(onDisk, c)]
       ELSE UNCHANGED store
  /\ write' = [phase |-> "persisted", op |-> "add", model |-> m, body |-> c]
  /\ UNCHANGED <<epoch, registry, wire, reply>>

\* PUT /v1/configs/models/{id}: replaces the whole entry.
ReplaceModel(m, c) ==
  /\ LockFree /\ epoch < MaxEpoch
  /\ c # registry[m]
  /\ store' = IF HasStore THEN [store EXCEPT ![m] = c] ELSE store
  /\ write' = [phase |-> "persisted", op |-> "replace", model |-> m, body |-> c]
  /\ UNCHANGED <<epoch, registry, wire, reply>>

\* DELETE /v1/configs/models/{id}: needs a store, and a stored document.
DeleteModel(m) ==
  /\ LockFree /\ epoch < MaxEpoch
  /\ HasStore /\ store[m] # NoConfig
  /\ store' = [store EXCEPT ![m] = NoConfig]
  /\ write' = [phase |-> "persisted", op |-> "delete", model |-> m,
               body |-> NoConfig]
  /\ UNCHANGED <<epoch, registry, wire, reply>>

\* Faulty variant: a DELETE leaves the registry's entry in place.
MutatedKeepsDeleted(w) ==
  CASE w.op = "add"     -> Merge(registry[w.model], w.body)
    [] w.op = "replace" -> w.body
    [] w.op = "delete"  -> registry[w.model]

\* The registry mutation of the write in progress: a POST merges, a PUT
\* replaces, a DELETE reveals the image's own entry.
Mutated(w) ==
  CASE w.op = "add"     -> Merge(registry[w.model], w.body)
    [] w.op = "replace" -> w.body
    [] w.op = "delete"  -> Baked[w.model]

RegisterWrite ==
  /\ write.phase = "persisted"
  /\ registry' = [registry EXCEPT ![write.model] = Mutated(write)]
  /\ write' = [write EXCEPT !.phase = "registered"]
  /\ UNCHANGED <<store, epoch, wire, reply>>

\* Faulty variant: the epoch is not incremented.
CountWriteUncounted ==
  /\ write.phase = "registered"
  /\ write' = [write EXCEPT !.phase = "counted"]
  /\ UNCHANGED <<store, epoch, registry, wire, reply>>

\* increment_epoch reads, adds one and writes; a failed read counts from 0.
CountWrite ==
  /\ write.phase = "registered"
  /\ IF HasStore THEN \E e \in EpochRead : epoch' = e + 1 ELSE epoch' = epoch
  /\ write' = [write EXCEPT !.phase = "counted"]
  /\ UNCHANGED <<store, registry, wire, reply>>

CountFails ==
  /\ HasStore /\ write.phase = "registered"
  /\ write' = NoWrite
  /\ UNCHANGED <<store, epoch, registry, wire, reply>>

\* Faulty variant: the request's body is published as it came.
DeltaBody(w) == w.body

\* The document a delta carries: the stored one for a POST with a store,
\* the registry's otherwise.
DeltaConfig(w) ==
  IF HasStore /\ w.op = "add" THEN store[w.model] ELSE registry[w.model]

Delta(w) == [epoch |-> epoch, model |-> w.model, config |-> DeltaConfig(w),
             hash |-> registry]

\* Publish and release the lock.  NATS core keeps nothing: a client that is
\* not connected, or whose message is dropped, never gets it.  A DELETE
\* publishes nothing.
PublishWrite ==
  /\ write.phase = "counted"
  /\ \E reached \in SUBSET (IF write.op = "delete" THEN {} ELSE Clients) :
       wire' = [c \in Clients |-> IF c \in reached
                                  THEN Append(wire[c], Delta(write))
                                  ELSE wire[c]]
  /\ write' = NoWrite
  /\ UNCHANGED <<store, epoch, registry, reply>>

\* The process stops and comes back.  The lock, the write in progress and the
\* answers being computed are gone; deltas already sent are not.
Restart ==
  /\ registry' = Restored(store)
  /\ write' = NoWrite
  /\ reply' = [c \in Clients |-> IF reply[c].got = "epoch" THEN NoReply
                                 ELSE reply[c]]
  /\ UNCHANGED <<store, epoch, wire>>

-----------------------------------------------------------------------------
(* The reads. *)

\* GET /v1/configs/epoch, first half: the epoch, read in a thread.
ReadEpoch(c) ==
  /\ reply[c] = NoReply
  /\ \E e \in EpochRead :
       reply' = [reply EXCEPT ![c] = [got |-> "epoch", epoch |-> e]]
  /\ UNCHANGED <<store, epoch, registry, write, wire>>

\* Second half: the fingerprint of the registry as it is by then.
ReadFingerprint(c) ==
  /\ reply[c].got = "epoch"
  /\ reply' = [reply EXCEPT ![c] = [got |-> "both", epoch |-> reply[c].epoch,
                                    fingerprint |-> registry]]
  /\ UNCHANGED <<store, epoch, registry, write, wire>>

\* What GET /v1/configs/export says of m: without a store the registry's
\* configuration, else the stored document, else the image's file, else the
\* registry's.
ExportConfig(m) ==
  IF ~HasStore THEN registry[m]
  ELSE IF store[m] # NoConfig THEN store[m]
  ELSE IF Baked[m] # NoConfig THEN Baked[m]
  ELSE registry[m]

\* The snapshot: one entry per registered model, and the registry's hashes.
Snapshot(e) ==
  [epoch |-> e,
   models |-> [m \in Models |-> IF registry[m] = NoConfig THEN NoConfig
                                ELSE ExportConfig(m)],
   hash |-> registry]


AuthWrite ==
  \/ \E m \in Models, c \in Bodies : AddModel(m, c) \/ ReplaceModel(m, c)
  \/ \E m \in Models : DeleteModel(m)
  \/ RegisterWrite \/ CountWrite \/ PublishWrite

-----------------------------------------------------------------------------
(* sie-config alone, with clients that take the deltas; what reading does   *)
(* is the subject of the modules that compose sie-config with its readers.  *)

TakeDelta(c) ==
  /\ wire[c] # <<>>
  /\ wire' = [wire EXCEPT ![c] = Tail(@)]
  /\ UNCHANGED <<store, epoch, registry, write, reply>>

AuthNext ==
  \/ AuthWrite
  \/ CountFails \/ Restart
  \/ \E c \in Clients : TakeDelta(c)

AuthSpec == AuthInit /\ [][AuthNext]_authVars

-----------------------------------------------------------------------------
(* What sie-config promises its consumers. *)

\* What the registry shows of m once the write in progress is registered.
Upcoming(m) == IF write.phase = "persisted" /\ write.model = m
               THEN Mutated(write) ELSE registry[m]

\* The store is the registry, model by model: a model that is not baked into
\* the image is (or, between persist and registration, is about to be)
\* registered as stored, and one without a stored document as baked.
StoreAgrees ==
  HasStore /\ ~FlakyReads =>
    \A m \in Models : /\ Baked[m] = NoConfig => Upcoming(m) = store[m]
                      /\ store[m] = NoConfig => Upcoming(m) = Baked[m]

\* export_snapshot: whenever the write lock is free, the configurations it
\* ships are the ones its hashes cover, so a consumer that installs them
\* computes the hash it is told to expect.  (An API write on top of a baked
\* model is the exception: add_model stores and ships the request body alone.)
ExportVerifiable ==
  HasStore /\ ~FlakyReads /\ LockFree =>
    \A m \in Models : (Baked[m] = NoConfig \/ store[m] = NoConfig) =>
      Snapshot(epoch).models[m] = Snapshot(epoch).hash[m]

\* add_model and replace_model publish inside the lock so that deltas reach
\* the wire in strictly increasing epoch order for each subscriber, and none
\* announces an epoch that is not persisted yet.
WireOrdered ==
  HasStore /\ ~FlakyReads =>
    \A c \in Clients :
      /\ \A i, j \in 1..Len(wire[c]) :
           i < j => wire[c][i].epoch < wire[c][j].epoch
      /\ \A i \in 1..Len(wire[c]) : wire[c][i].epoch <= epoch

\* A delta carries the configuration its hash covers (again, with the
\* exception of an append to a baked model).
DeltaVerifiable ==
  HasStore /\ ~FlakyReads =>
    \A c \in Clients : \A i \in 1..Len(wire[c]) :
      LET n == wire[c][i] IN
      Baked[n.model] = NoConfig => n.config = n.hash[n.model]

\* "Persist FIRST": a restart at any point of a write shows every API model
\* either as it was registered or, for the model being written, as the write
\* would have registered it; nothing that was registered is lost.
RestartKeepsApiModels ==
  [][HasStore /\ ~FlakyReads /\ Restart =>
       \A m \in Models : Baked[m] = NoConfig =>
         registry'[m] = Upcoming(m)]_authVars

=============================================================================
