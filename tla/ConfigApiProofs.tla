-------------------------- MODULE ConfigApiProofs --------------------------
(***************************************************************************)
(* Proofs, for every set of requests, keys and calls, every cache size and *)
(* every choice of the awaits at which a handler may be cancelled, of what *)
(* the handlers of sie-config promise.                                     *)
(***************************************************************************)
EXTENDS ConfigApiControl

\* Most leaves are set reasoning without arithmetic, for Zenon; the others say SMT.
USE ZenonT(30), SMTT(30)

-----------------------------------------------------------------------------
(* The invariant. *)

\* One handler writes at a time, the write in progress is the one it asks for,
\* and a DELETE gets past its claim only with a store.
LockInv ==
  /\ \A r, q \in Requests : req[r].at = "writing" /\ req[q].at = "writing" => r = q
  /\ \A r \in Requests : req[r].at = "writing" =>
       write.op = call[r].op /\ write.model = call[r].model
  /\ \A r \in Requests : call[r].op = "delete" /\ req[r].at \notin {"arriving", "done"} => HasStore

\* A key in flight is worked on by a handler of that key and has no response
\* yet; a handler that works owns its key; one that waits waits for a handler
\* with the same payload; one that was woken with a success knows that its
\* payload was committed.
KeyInv ==
  /\ \A k \in Keys : in_flight[k] # None =>
       Key(in_flight[k]) = k /\ req[in_flight[k]].at \in Owning /\ Entries(k) = {}
  /\ \A r \in Requests : req[r].at \in Owning /\ Key(r) # None => in_flight[Key(r)] = r
  /\ \A r \in Requests : req[r].at = "waiting" =>
       Key(r) # None /\ in_flight[Key(r)] # None /\ Payload(in_flight[Key(r)]) = Payload(r)
  /\ \A r \in Requests : req[r].at = "woken" =>
       Key(r) # None /\ (req[r].outcome \in Success => Payload(r) \in applied[Key(r)])

\* What was committed under a key is the payload of some request.
AppliedOK == applied \in [Keys -> SUBSET {Payload(r) : r \in Requests}]

\* The inductive invariant of the handlers.
ApiInv == ApiTypeOK /\ LockInv /\ KeyInv /\ CacheInv /\ AppliedOK

-----------------------------------------------------------------------------
(* Keys and their owners. *)

\* Keys, payloads and responses depend on the calls and the cache only.
LEMMA Same ==
  ASSUME UNCHANGED <<call, cache>>
  PROVE  /\ \A r : Key(r)' = Key(r) /\ Payload(r)' = Payload(r)
         /\ \A k : Entries(k)' = Entries(k)
BY DEF Key, Payload, Entries

\* KeyInv after a step, from what the step made of the requests and the keys.
LEMMA KeyMade ==
  ASSUME UNCHANGED call,
         \A k \in Keys : in_flight'[k] # None =>
           Key(in_flight'[k]) = k /\ req'[in_flight'[k]].at \in Owning /\ Entries(k)' = {},
         \A q \in Requests : req'[q].at \in Owning /\ Key(q) # None => in_flight'[Key(q)] = q,
         \A q \in Requests : req'[q].at = "waiting" =>
           Key(q) # None /\ in_flight'[Key(q)] # None /\ Payload(in_flight'[Key(q)]) = Payload(q),
         \A q \in Requests : req'[q].at = "woken" =>
           Key(q) # None /\ (req'[q].outcome \in Success => Payload(q) \in applied'[Key(q)])
  PROVE  KeyInv'
BY DEF KeyInv, Key, Payload, Entries, Owning, Success

\* A handler that neither takes nor gives up its key, and does not wait, keeps
\* KeyInv.
LEMMA KeyFrame ==
  ASSUME ApiTypeOK, KeyInv, NEW r \in Requests, UNCHANGED <<call, cache, applied, in_flight>>,
         \A q \in Requests : q # r => req'[q] = req[q],
         req'[r].at \in Owning <=> req[r].at \in Owning,
         req'[r].at \notin {"waiting", "woken"}
  PROVE  KeyInv'
<1>1. \A k \in Keys : in_flight[k] \in Requests \cup {None}
  BY DEF ApiTypeOK
<1>2. \A q \in Requests : req'[q].at \in Owning <=> req[q].at \in Owning
  OBVIOUS
<1>3. \A k \in Keys : in_flight'[k] # None =>
        Key(in_flight'[k]) = k /\ req'[in_flight'[k]].at \in Owning /\ Entries(k)' = {}
  BY SMT, <1>1, <1>2, Same DEF KeyInv
<1>4. \A q \in Requests : req'[q].at \in Owning /\ Key(q) # None => in_flight'[Key(q)] = q
  BY <1>2, Same DEF KeyInv
<1>5. \A q \in Requests : req'[q].at = "waiting" =>
        Key(q) # None /\ in_flight'[Key(q)] # None /\ Payload(in_flight'[Key(q)]) = Payload(q)
  BY Same DEF KeyInv
<1>6. \A q \in Requests : req'[q].at = "woken" =>
        Key(q) # None /\ (req'[q].outcome \in Success => Payload(q) \in applied'[Key(q)])
  BY Same DEF KeyInv
<1> QED BY <1>3, <1>4, <1>5, <1>6, KeyMade

\* The claim keeps KeyInv: a key is taken only when nobody works on it and no
\* response is cached.
LEMMA ClaimKeys ==
  ASSUME ApiTypeOK, KeyInv, NEW r \in Requests, Claim(r)
  PROVE  KeyInv'
<1> DEFINE k == Key(r)
<1>0. /\ UNCHANGED <<call, cache, applied>> /\ req[r].at = "arriving"
      /\ \A q \in Requests : q # r => req'[q] = req[q]
  BY Moves DEF Claim
<1>1. /\ \A x \in Keys : in_flight[x] \in Requests \cup {None}
      /\ in_flight \in [Keys -> Requests \cup {None}] /\ req \in [Requests -> ReqT]
      /\ k \in Keys \cup {None} /\ \A q \in Requests : Key(q) # None => Key(q) \in Keys
  BY CallFacts DEF ApiTypeOK, ReqT
<1>2. None \notin Requests /\ None \notin Keys
  BY AbsenceAssumption
<1>3. CASE k = None /\ GoTo(r, "locking") /\ UNCHANGED in_flight
  <2>1. req'[r].at = "locking"
    BY <1>1, <1>3 DEF GoTo
  <2>2. \A x \in Keys : in_flight'[x] # None =>
          Key(in_flight'[x]) = x /\ req'[in_flight'[x]].at \in Owning /\ Entries(x)' = {}
    BY SMT, <1>0, <1>1, <1>3, <2>1, Same DEF KeyInv, Owning
  <2>3. \A q \in Requests : req'[q].at \in Owning /\ Key(q) # None => in_flight'[Key(q)] = q
    BY <1>0, <1>3, Same DEF KeyInv
  <2>4. \A q \in Requests : req'[q].at = "waiting" =>
          Key(q) # None /\ in_flight'[Key(q)] # None /\ Payload(in_flight'[Key(q)]) = Payload(q)
    BY <1>0, <1>3, <2>1 DEF KeyInv
  <2>5. \A q \in Requests : req'[q].at = "woken" =>
          Key(q) # None /\ (req'[q].outcome \in Success => Payload(q) \in applied'[Key(q)])
    BY <1>0, <2>1 DEF KeyInv
  <2> QED BY <1>0, <2>2, <2>3, <2>4, <2>5, KeyMade
<1>4. CASE \E a : Answer(r, a) /\ UNCHANGED in_flight
  <2>1. req'[r].at = "done"
    BY SMT, <1>1, <1>4 DEF Answer
  <2> QED BY <1>0, <1>4, <2>1, KeyFrame DEF Owning
<1>5. CASE /\ k # None /\ Entries(k) = {} /\ in_flight[k] = None
           /\ GoTo(r, "locking") /\ in_flight' = [in_flight EXCEPT ![k] = r]
  <2>1. req'[r].at = "locking" /\ in_flight'[k] = r /\ \A x \in Keys : x # k => in_flight'[x] = in_flight[x]
    BY <1>1, <1>5 DEF GoTo
  <2>2. \A x \in Keys : in_flight'[x] # None =>
          Key(in_flight'[x]) = x /\ req'[in_flight'[x]].at \in Owning /\ Entries(x)' = {}
    BY SMT, <1>0, <1>1, <1>5, <2>1, Same DEF KeyInv, Owning
  <2>3. \A q \in Requests : req'[q].at \in Owning /\ Key(q) # None => in_flight'[Key(q)] = q
    BY SMT, <1>0, <1>1, <1>2, <1>5, <2>1, Same DEF KeyInv
  <2>4. \A q \in Requests : req'[q].at = "waiting" =>
          Key(q) # None /\ in_flight'[Key(q)] # None /\ Payload(in_flight'[Key(q)]) = Payload(q)
    BY SMT, <1>0, <1>1, <1>5, <2>1, Same DEF KeyInv
  <2>5. \A q \in Requests : req'[q].at = "woken" =>
          Key(q) # None /\ (req'[q].outcome \in Success => Payload(q) \in applied'[Key(q)])
    BY <1>0, <2>1, Same DEF KeyInv
  <2> QED BY <1>0, <2>2, <2>3, <2>4, <2>5, KeyMade
<1>6. CASE /\ k # None /\ in_flight[k] # None /\ Payload(in_flight[k]) = Payload(r)
           /\ GoTo(r, "waiting") /\ UNCHANGED in_flight
  <2>1. req'[r].at = "waiting"
    BY <1>1, <1>6 DEF GoTo
  <2>2. \A x \in Keys : in_flight'[x] # None =>
          Key(in_flight'[x]) = x /\ req'[in_flight'[x]].at \in Owning /\ Entries(x)' = {}
    BY SMT, <1>0, <1>1, <1>6, Same DEF KeyInv, Owning
  <2>3. \A q \in Requests : req'[q].at \in Owning /\ Key(q) # None => in_flight'[Key(q)] = q
    BY <1>0, <1>6, <2>1, Same DEF KeyInv, Owning
  <2>4. \A q \in Requests : req'[q].at = "waiting" =>
          Key(q) # None /\ in_flight'[Key(q)] # None /\ Payload(in_flight'[Key(q)]) = Payload(q)
    BY <1>0, <1>6, <2>1, Same DEF KeyInv
  <2>5. \A q \in Requests : req'[q].at = "woken" =>
          Key(q) # None /\ (req'[q].outcome \in Success => Payload(q) \in applied'[Key(q)])
    BY <1>0, <2>1, Same DEF KeyInv
  <2> QED BY <1>0, <2>2, <2>3, <2>4, <2>5, KeyMade
<1> QED BY <1>3, <1>4, <1>5, <1>6 DEF Claim, Replay

\* A handler at work is the only one of its key, nothing is cached under it, and
\* those who wait for it ask the same.
LEMMA Unkeyed ==
  ASSUME KeyInv, NEW r \in Requests, req[r].at \in Owning, Key(r) # None, Key(r) \in Keys
  PROVE  /\ in_flight[Key(r)] = r /\ Entries(Key(r)) = {}
         /\ \A q \in Requests : req[q].at \in Owning /\ Key(q) = Key(r) => q = r
         /\ \A q \in Requests : req[q].at = "waiting" /\ Key(q) = Key(r) => Payload(q) = Payload(r)
<1>1. in_flight[Key(r)] = r /\ r # None
  BY AbsenceAssumption DEF KeyInv
<1> QED BY <1>1 DEF KeyInv

\* The cache after the end of a request.
LEMMA SettleCache ==
  ASSUME ApiTypeOK, KeyInv, CacheInv, NEW r \in Requests, Settle(r)
  PROVE  /\ cache' \in Seq(EntryT) /\ Len(cache') <= CacheSize /\ CacheInv'
         /\ \A x \in Keys : x # Key(r) => Entries(x)' = {} \/ Entries(x)' = Entries(x)
         /\ IF Key(r) # None /\ req[r].outcome \in Success
            THEN Entries(Key(r))' = {[key |-> Key(r), payload |-> Payload(r), answer |-> req[r].outcome]}
            ELSE \A x : Entries(x)' = Entries(x)
<1>1. cache \in Seq(EntryT) /\ Len(cache) <= CacheSize /\ req[r].at \in Owning
  BY SettleMoves DEF ApiTypeOK, EntryT, Owning
<1>2. CASE Key(r) # None /\ req[r].outcome \in Success
  <2>1. Key(r) \in Keys /\ cache' = Remember(Key(r), Payload(r), req[r].outcome)
    BY <1>2, SettleMoves, CallFacts
  <2>2. Entries(Key(r)) = {}
    BY <1>1, <1>2, <2>1, Unkeyed
  <2>3. /\ cache' \in Seq(EntryT) /\ Len(cache') <= CacheSize /\ CacheInv'
        /\ Entries(Key(r))' = {[key |-> Key(r), payload |-> Payload(r), answer |-> req[r].outcome]}
        /\ \A x \in Keys : x # Key(r) => Entries(x)' = {} \/ Entries(x)' = Entries(x)
    <3> DEFINE k == Key(r)  a == req[r].outcome
    <3>1. k \in Keys /\ a \in Success /\ Entries(k) = {} /\ cache' = Remember(k, Payload(r), a) /\ k' = k
      BY <1>2, <2>1, <2>2, SettleMoves DEF Key
    <3>2. PICK kk \in Keys, aa \in Success : kk = k /\ aa = a
      BY <3>1
    <3>3. Entries(k)' = Entries(kk)'
      BY <3>1, <3>2 DEF Entries
    <3> HIDE DEF k, a
    <3>4. /\ cache' \in Seq(EntryT) /\ Len(cache') <= CacheSize /\ CacheInv'
          /\ Entries(kk)' = {[key |-> kk, payload |-> Payload(r), answer |-> aa]}
          /\ \A x \in Keys : x # kk => Entries(x)' = {} \/ Entries(x)' = Entries(x)
      BY <3>1, <3>2, RememberFacts
    <3> QED BY <3>2, <3>3, <3>4 DEF k, a
  <2> QED BY <1>2, <2>3
<1>3. CASE ~(Key(r) # None /\ req[r].outcome \in Success)
  <2>1. cache' = cache
    BY <1>3, SettleMoves
  <2> QED BY <1>1, <1>3, <2>1 DEF CacheInv, Entries
<1> QED BY <1>2, <1>3

\* The end of a request keeps KeyInv: whoever is woken with a success has the
\* payload that was committed.
LEMMA SettleKeys ==
  ASSUME ApiTypeOK, AppliedOK, KeyInv, CacheInv, NEW r \in Requests, Settle(r)
  PROVE  KeyInv'
<1>1. /\ \A x \in Keys : in_flight[x] \in Requests \cup {None}
      /\ \A q \in Requests : Key(q) # None => Key(q) \in Keys
      /\ None \notin Keys /\ None \notin Requests
  BY CallFacts, AbsenceAssumption DEF ApiTypeOK
<1>2. req[r].at \in Owning
  BY SettleMoves DEF Owning
<1>3. /\ UNCHANGED call
      /\ req'[r].at = "done"
      /\ \A q \in Requests : q # r =>
           IF Key(r) # None /\ req[q].at = "waiting" /\ Key(q) = Key(r)
           THEN req'[q].at = "woken" /\ req'[q].outcome = req[r].outcome ELSE req'[q] = req[q]
      /\ \A x \in Keys : in_flight'[x] = IF x = Key(r) THEN None ELSE in_flight[x]
  <2>1. UNCHANGED call /\ \A x \in Keys : in_flight'[x] = IF x = Key(r) THEN None ELSE in_flight[x]
    BY SettleMoves
  <2> QED BY <2>1, SettleEach
<1>4. \A x \in Keys : x # Key(r) => Entries(x)' = {} \/ Entries(x)' = Entries(x)
  BY SettleCache
<1>5. \A k \in Keys : in_flight'[k] # None =>
        Key(in_flight'[k]) = k /\ req'[in_flight'[k]].at \in Owning /\ Entries(k)' = {}
  <2> SUFFICES ASSUME NEW k \in Keys, in_flight'[k] # None
               PROVE  Key(in_flight'[k]) = k /\ req'[in_flight'[k]].at \in Owning /\ Entries(k)' = {}
    OBVIOUS
  <2>1. k # Key(r) /\ in_flight'[k] = in_flight[k] /\ in_flight[k] \in Requests
    BY <1>1, <1>3
  <2>2. Key(in_flight[k]) = k /\ req[in_flight[k]].at \in Owning /\ Entries(k) = {}
    BY <2>1 DEF KeyInv
  <2>3. in_flight[k] # r /\ req[in_flight[k]].at # "waiting"
    BY <2>1, <2>2 DEF Owning
  <2> QED BY <1>3, <1>4, <2>1, <2>2, <2>3
<1>6. \A q \in Requests : req'[q].at \in Owning /\ Key(q) # None => in_flight'[Key(q)] = q
  <2> SUFFICES ASSUME NEW q \in Requests, req'[q].at \in Owning, Key(q) # None
               PROVE  in_flight'[Key(q)] = q
    OBVIOUS
  <2>1. q # r /\ req[q].at \in Owning
    BY <1>3 DEF Owning
  <2>2. Key(q) # Key(r)
    BY <1>1, <1>2, <2>1, Unkeyed
  <2> QED BY <1>1, <1>3, <2>1, <2>2 DEF KeyInv
<1>7. \A q \in Requests : req'[q].at = "waiting" =>
        Key(q) # None /\ in_flight'[Key(q)] # None /\ Payload(in_flight'[Key(q)]) = Payload(q)
  <2> SUFFICES ASSUME NEW q \in Requests, req'[q].at = "waiting"
               PROVE  Key(q) # None /\ in_flight'[Key(q)] # None /\ Payload(in_flight'[Key(q)]) = Payload(q)
    OBVIOUS
  <2>1. q # r /\ req[q].at = "waiting"
    BY <1>3
  <2>2. Key(q) # None
    BY <2>1 DEF KeyInv
  <2>3. Key(q) # Key(r)
    BY <1>3, <2>1, <2>2
  <2>4. in_flight'[Key(q)] = in_flight[Key(q)]
    BY <1>1, <1>3, <2>2, <2>3
  <2> QED BY <2>1, <2>2, <2>4 DEF KeyInv
<1>8. \A q \in Requests : req'[q].at = "woken" =>
        Key(q) # None /\ (req'[q].outcome \in Success => Payload(q) \in applied'[Key(q)])
  <2> SUFFICES ASSUME NEW q \in Requests, req'[q].at = "woken"
               PROVE  Key(q) # None /\ (req'[q].outcome \in Success => Payload(q) \in applied'[Key(q)])
    OBVIOUS
  <2>1. applied' = [x \in Keys |-> IF x = Key(r) /\ req[r].outcome \in Success
                                   THEN applied[x] \cup {Payload(r)} ELSE applied[x]]
    BY SettleMoves
  <2>2. q # r
    BY <1>3
  <2>3. CASE Key(r) # None /\ req[q].at = "waiting" /\ Key(q) = Key(r)
    <3>1. Payload(q) = Payload(r)
      BY <1>1, <1>2, <2>3, Unkeyed
    <3> QED BY <1>1, <1>3, <2>1, <2>2, <2>3, <3>1
  <2>4. CASE ~(Key(r) # None /\ req[q].at = "waiting" /\ Key(q) = Key(r))
    <3>1. req[q].at = "woken" /\ req'[q] = req[q]
      BY <1>3, <2>2, <2>4
    <3>2. Key(q) # None /\ Key(q) \in Keys /\ (req[q].outcome \in Success => Payload(q) \in applied[Key(q)])
      BY <1>1, <3>1 DEF KeyInv
    <3> QED BY <2>1, <3>1, <3>2
  <2> QED BY <2>3, <2>4
<1> QED BY <1>3, <1>5, <1>6, <1>7, <1>8, KeyMade

\* Every step keeps KeyInv.
LEMMA KeyStep ==
  ASSUME ApiTypeOK, AppliedOK, KeyInv, CacheInv, [ApiNext]_vars
  PROVE  KeyInv'
<1>1. ASSUME NEW r \in Requests, Reclaim(r) \/ Lock(r) \/ Write(r) \/ Unavailable(r) \/ Cancel(r), ~Claim(r)
      PROVE  KeyInv'
  <2>1. /\ UNCHANGED <<call, cache, applied, in_flight>>
        /\ \A q \in Requests : q # r => req'[q] = req[q]
        /\ req'[r].at \in Owning <=> req[r].at \in Owning
        /\ req'[r].at \in {"writing", "closing", "done"}
    BY <1>1, Moves
  <2> QED BY <2>1, KeyFrame
<1>2. CASE ApiRestart
  BY <1>2, RestartMoves, KeyMade DEF Owning
<1>3. CASE UNCHANGED apiVars
  <2>1. UNCHANGED <<call, req, in_flight, cache, applied>>
    BY <1>3 DEF apiVars
  <2>2. \A k \in Keys : Entries(k)' = Entries(k)
    BY <2>1 DEF Entries
  <2> QED BY <2>1, <2>2, KeyMade DEF KeyInv
<1> QED BY <1>1, <1>2, <1>3, ClaimKeys, SettleKeys DEF ApiNext, Handle, vars

-----------------------------------------------------------------------------
(* Cache, lock and types. *)

\* Every step keeps the record of what was committed well formed.
LEMMA AppliedStep ==
  ASSUME ApiTypeOK, AppliedOK, [ApiNext]_vars
  PROVE  AppliedOK'
<1>1. CASE UNCHANGED <<call, applied>>
  BY <1>1 DEF AppliedOK, Payload
<1>2. ASSUME NEW r \in Requests, Settle(r) PROVE AppliedOK'
  <2>1. /\ UNCHANGED call
        /\ applied' = [x \in Keys |-> IF x = Key(r) /\ req[r].outcome \in Success
                                      THEN applied[x] \cup {Payload(r)} ELSE applied[x]]
    BY <1>2, SettleMoves
  <2>2. applied' \in [Keys -> SUBSET {Payload(q) : q \in Requests}]
    BY <2>1 DEF AppliedOK
  <2> QED BY <2>1, <2>2 DEF AppliedOK, Payload
<1>3. ASSUME NEW r \in Requests, Claim(r) \/ Reclaim(r) \/ Lock(r) \/ Write(r) \/ Unavailable(r) \/ Cancel(r)
      PROVE  UNCHANGED <<call, applied>>
  BY <1>3, Moves
<1>4. ApiRestart => UNCHANGED <<call, applied>>
  BY RestartMoves
<1>5. UNCHANGED apiVars => UNCHANGED <<call, applied>>
  BY DEF apiVars
<1> QED BY <1>1, <1>2, <1>3, <1>4, <1>5 DEF ApiNext, Handle, vars

\* Every step keeps the cache within its bound and with one response per key.
LEMMA CacheStep ==
  ASSUME ApiTypeOK, KeyInv, CacheInv, [ApiNext]_vars
  PROVE  CacheInv' /\ cache' \in Seq(EntryT) /\ Len(cache') <= CacheSize
<1>0. cache \in Seq(EntryT) /\ Len(cache) <= CacheSize /\ CacheSize \in Nat
  BY CacheAssumption DEF ApiTypeOK, EntryT
<1>1. CASE UNCHANGED cache
  BY <1>0, <1>1 DEF CacheInv
<1>2. ASSUME NEW r \in Requests, Claim(r) \/ Reclaim(r) \/ Lock(r) \/ Write(r) \/ Unavailable(r) \/ Cancel(r)
      PROVE  UNCHANGED cache
  BY <1>2, Moves
<1>3. CASE ApiRestart
  <2>1. cache' = <<>>
    BY <1>3, RestartMoves
  <2> QED BY SMT, <1>0, <2>1 DEF CacheInv
<1>4. UNCHANGED apiVars => UNCHANGED cache
  BY DEF apiVars
<1> QED BY <1>1, <1>2, <1>3, <1>4, SettleCache DEF ApiNext, Handle, vars

\* Every step keeps LockInv, and the lock is held exactly while a handler writes.
LEMMA LockStep ==
  ASSUME ApiTypeOK, LockInv, [ApiNext]_vars
  PROVE  LockInv' /\ ({r \in Requests : req'[r].at = "writing"} = {} <=> write' = NoWrite)
<1>0. (\E r \in Requests : req[r].at = "writing") <=> write # NoWrite
  BY DEF ApiTypeOK, LockFree
<1>1. ASSUME UNCHANGED call, NEW r \in Requests, \A q \in Requests : q # r => req'[q] = req[q],
             req[r].at # "writing", req'[r].at # "writing", UNCHANGED write,
             call[r].op = "delete" /\ req'[r].at \notin {"arriving", "done"} => HasStore
      PROVE  LockInv' /\ ({q \in Requests : req'[q].at = "writing"} = {} <=> write' = NoWrite)
  BY SMT, <1>0, <1>1 DEF LockInv
<1>2. ASSUME NEW r \in Requests, Claim(r) \/ Reclaim(r) \/ Unavailable(r)
      PROVE  LockInv' /\ ({q \in Requests : req'[q].at = "writing"} = {} <=> write' = NoWrite)
  <2>1. UNCHANGED call /\ \A q \in Requests : q # r => req'[q] = req[q]
    BY <1>2, Moves
  <2>2. UNCHANGED write /\ req[r].at \in {"arriving", "woken"}
    BY <1>2 DEF Claim, Reclaim, Unavailable, authVars
  <2>3. req \in [Requests -> ReqT]
    BY DEF ApiTypeOK, ReqT
  <2>4. req'[r].at # "writing"
    BY SMT, <1>2, <2>3 DEF Claim, Reclaim, Unavailable, Replay, Answer, GoTo
  <2>5. call[r].op = "delete" /\ req'[r].at \notin {"arriving", "done"} => HasStore
    BY SMT, <1>2, <2>2, <2>3 DEF LockInv, Claim, Reclaim, Unavailable, Replay, Answer, GoTo
  <2> QED BY <1>1, <2>1, <2>2, <2>4, <2>5
<1>3. ASSUME NEW r \in Requests, Lock(r)
      PROVE  LockInv' /\ ({q \in Requests : req'[q].at = "writing"} = {} <=> write' = NoWrite)
  <2>1. UNCHANGED call /\ \A q \in Requests : q # r => req'[q] = req[q]
    BY <1>3, Moves
  <2>2. CASE UNCHANGED authVars /\ req'[r].at = "closing"
    BY <1>1, <1>3, <2>1, <2>2, LockMoves, SMTT(30) DEF authVars, LockInv
  <2>3. CASE /\ req'[r].at = "writing" /\ write' # NoWrite
             /\ write'.op = call[r].op /\ write'.model = call[r].model
    BY SMT, <1>0, <1>3, <2>1, <2>3, LockMoves DEF LockInv
  <2> QED BY <1>3, <2>2, <2>3, LockMoves
<1>4. ASSUME NEW r \in Requests, Write(r)
      PROVE  LockInv' /\ ({q \in Requests : req'[q].at = "writing"} = {} <=> write' = NoWrite)
  <2>1. UNCHANGED call /\ \A q \in Requests : q # r => req'[q] = req[q]
    BY <1>4, Moves
  <2>2. CASE UNCHANGED req /\ write' # NoWrite /\ write'.op = write.op /\ write'.model = write.model
    BY <1>4, <2>1, <2>2, WriteMoves DEF LockInv
  <2>3. CASE req'[r].at = "closing" /\ write' = NoWrite
    BY SMT, <1>4, <2>1, <2>3, WriteMoves DEF LockInv
  <2> QED BY <1>4, <2>2, <2>3, WriteMoves
<1>5. ASSUME NEW r \in Requests, Cancel(r)
      PROVE  LockInv' /\ ({q \in Requests : req'[q].at = "writing"} = {} <=> write' = NoWrite)
  <2>1. UNCHANGED call /\ \A q \in Requests : q # r => req'[q] = req[q]
    BY <1>5, Moves
  <2>2. req \in [Requests -> ReqT] /\ req[r].at \in {"waiting", "locking", "writing"}
    BY <1>5, CancelAssumption DEF ApiTypeOK, ReqT, Cancel, Unshielded
  <2>3. req'[r].at \in {"done", "closing"}
    BY SMT, <1>5, <2>2 DEF Cancel, Answer, Close
  <2>4. call[r].op = "delete" => HasStore
    BY <2>2 DEF LockInv
  <2>5. CASE req[r].at = "writing"
    <3>1. write' = NoWrite
      BY <1>5, <2>5 DEF Cancel
    <3> QED BY <2>1, <2>3, <2>4, <2>5, <3>1 DEF LockInv
  <2>6. CASE req[r].at # "writing"
    <3>1. write' = write
      BY <1>5, <2>6 DEF Cancel
    <3> QED BY <1>1, <2>1, <2>3, <2>4, <2>6, <3>1
  <2> QED BY <2>5, <2>6
<1>6. ASSUME NEW r \in Requests, Settle(r)
      PROVE  LockInv' /\ ({q \in Requests : req'[q].at = "writing"} = {} <=> write' = NoWrite)
  <2>1. UNCHANGED <<call, write>> /\ req[r].at = "closing"
    BY <1>6, SettleMoves DEF authVars
  <2>2. \A q \in Requests : /\ req'[q].at = "writing" <=> req[q].at = "writing"
                            /\ req'[q].at \notin {"arriving", "done"} => req[q].at \notin {"arriving", "done"}
    BY <1>6, <2>1, SettleEach
  <2> QED BY <1>0, <2>1, <2>2 DEF LockInv
<1>7. CASE ApiRestart
  <2>1. /\ write' = NoWrite /\ \A q \in Requests : req'[q].at \in {"arriving", "done"}
    BY <1>7, RestartMoves
  <2> QED BY <2>1 DEF LockInv
<1>8. CASE UNCHANGED <<apiVars, write>>
  <2>1. UNCHANGED <<call, req, write>>
    BY <1>8 DEF apiVars
  <2> QED BY <1>0, <2>1 DEF LockInv
<1>9. (\E c \in Clients : TakeDelta(c) /\ UNCHANGED apiVars) \/ UNCHANGED vars => UNCHANGED <<apiVars, write>>
  BY DEF TakeDelta, vars, authVars
<1> QED BY <1>2, <1>3, <1>4, <1>5, <1>6, <1>7, <1>8, <1>9 DEF ApiNext, Handle

\* Every step keeps the types.
LEMMA ApiTypeStep ==
  ASSUME ApiInv, [ApiNext]_vars
  PROVE  ApiTypeOK'
<1>0. ApiTypeOK /\ LockInv /\ KeyInv /\ CacheInv /\ AppliedOK
  BY DEF ApiInv
<1>1. /\ call \in [Requests -> Calls] /\ req \in [Requests -> ReqT]
      /\ in_flight \in [Keys -> Requests \cup {None}]
  BY <1>0 DEF ApiTypeOK, ReqT
<1>2. UNCHANGED call /\ req' \in [Requests -> ReqT] /\ in_flight' \in [Keys -> Requests \cup {None}]
  <2>1. ASSUME NEW r \in Requests, Claim(r)
        PROVE  UNCHANGED call /\ req' \in [Requests -> ReqT] /\ in_flight' \in [Keys -> Requests \cup {None}]
    <3>1. UNCHANGED call /\ req' \in [Requests -> ReqT]
      BY <1>0, <2>1, Moves
    <3>2. in_flight' = in_flight \/ in_flight' = [in_flight EXCEPT ![Key(r)] = r]
      BY <2>1 DEF Claim
    <3> QED BY <1>1, <3>1, <3>2
  <2>2. ASSUME NEW r \in Requests, Reclaim(r) \/ Lock(r) \/ Write(r) \/ Unavailable(r) \/ Cancel(r), ~Claim(r)
        PROVE  UNCHANGED <<call, in_flight>> /\ req' \in [Requests -> ReqT]
    BY <1>0, <2>2, Moves
  <2>3. ASSUME NEW r \in Requests, Settle(r)
        PROVE  UNCHANGED call /\ req' \in [Requests -> ReqT] /\ in_flight' \in [Keys -> Requests \cup {None}]
    BY <1>0, <2>3, SettleMoves
  <2>4. CASE ApiRestart
    BY <1>0, <2>4, RestartMoves
  <2>5. CASE UNCHANGED apiVars
    BY <1>1, <2>5 DEF apiVars
  <2> QED BY <1>1, <2>1, <2>2, <2>3, <2>4, <2>5 DEF ApiNext, Handle, vars
<1>3. AuthTypeOK'
  BY <1>0, AuthStep
<1>4. {r \in Requests : req'[r].at = "writing"} = {} <=> write' = NoWrite
  BY <1>0, LockStep
<1>5. cache' \in Seq(EntryT) /\ Len(cache') <= CacheSize
  BY <1>0, CacheStep
<1>6. EntryT' = EntryT
  BY <1>2 DEF EntryT, Payload
<1> QED BY <1>1, <1>2, <1>3, <1>4, <1>5, <1>6 DEF ApiTypeOK, ReqT, EntryT, LockFree, NoWrite, Success, Failure

\* The invariant holds in every state of every run of the handlers.
LEMMA ApiInvariance == ApiSpec => []ApiInv
<1>1. ApiInit => ApiInv
  <2> SUFFICES ASSUME ApiInit PROVE ApiInv
    OBVIOUS
  <2>1. AuthTypeOK
    BY SMT, NoConfigType, BakedAssumption DEF ApiInit, AuthInit, AuthTypeOK, Catalog
  <2>2. \A r \in Requests : req[r] = [at |-> "arriving"] /\ req[r].at = "arriving"
    BY DEF ApiInit
  <2>3. /\ call \in [Requests -> Calls] /\ cache = <<>> /\ in_flight = [k \in Keys |-> None]
        /\ req = [r \in Requests |-> [at |-> "arriving"]] /\ write = NoWrite
    BY WorkloadsAssumption DEF ApiInit, AuthInit
  <2>4. req \in [Requests -> ReqT]
    BY <2>3, ReqTypes
  <2>5. cache \in Seq(EntryT) /\ Len(cache) <= CacheSize
    BY SMT, <2>3, CacheAssumption
  <2>6. {r \in Requests : req[r].at = "writing"} = {} <=> LockFree
    BY <2>2, <2>3 DEF LockFree
  <2>7. ApiTypeOK
    BY <2>1, <2>3, <2>4, <2>5, <2>6 DEF ApiTypeOK, ReqT, EntryT
  <2>8. LockInv /\ KeyInv
    BY <2>2, <2>3 DEF LockInv, KeyInv, Owning
  <2>9. CacheInv /\ AppliedOK
    BY SMT, <2>3 DEF CacheInv, AppliedOK, ApiInit
  <2> QED BY <2>7, <2>8, <2>9 DEF ApiInv
<1>2. ApiInv /\ [ApiNext]_vars => ApiInv'
  BY ApiTypeStep, LockStep, KeyStep, CacheStep, AppliedStep DEF ApiInv
<1> QED BY <1>1, <1>2, PTL DEF ApiSpec

-----------------------------------------------------------------------------
(* What the handlers guarantee. *)

\* The handlers keep their types: the idempotency cache stays within
\* _MAX_IDEMPOTENCY_CACHE_SIZE, every key in flight names a request, and the
\* write lock is held exactly while one handler is writing.
THEOREM ApiTypeCorrect == ApiSpec => []ApiTypeOK
<1>1. ApiInv => ApiTypeOK
  BY DEF ApiInv
<1> QED BY <1>1, ApiInvariance, PTL

\* A handler that waits for the lock, writes or is about to answer owns its key
\* and no response is cached under it, whatever was cancelled, woken or evicted
\* (_idempotency_claim): no write is done twice behind a cached response.
THEOREM KeysAreOwned == ApiSpec => []WritesOwnTheirKey
<1>1. ApiInv => WritesOwnTheirKey
  <2> SUFFICES ASSUME ApiInv, NEW r \in Requests, req[r].at \in Owning, Key(r) # None
               PROVE  in_flight[Key(r)] = r /\ Entries(Key(r)) = {}
    BY DEF WritesOwnTheirKey, Owning
  <2> QED BY CallFacts, Unkeyed DEF ApiInv
<1> QED BY <1>1, ApiInvariance, PTL

\* The handlers run sie-config as ConfigAuthority describes it: the write lock,
\* keys, waits, cancellations and restarts add no behaviour to it, unless
\* delete_model is cancelled at its one unshielded await.
THEOREM HandlersDriveTheAuthority ==
  ASSUME "deleting" \notin CancelAt
  PROVE  ApiSpec => AuthSpec
<1>1. ApiInv /\ [ApiNext]_vars => [AuthNext]_authVars
  <2> SUFFICES ASSUME ApiInv, [ApiNext]_vars PROVE [AuthNext]_authVars
    OBVIOUS
  <2>1. ASSUME NEW r \in Requests, Cancel(r), Unshielded(r) = "deleting" PROVE FALSE
    BY <2>1 DEF Cancel
  <2> QED BY <2>1, AuthoritySteps DEF ApiInv
<1>2. ApiInit => AuthInit
  BY DEF ApiInit
<1> QED BY <1>1, <1>2, ApiInvariance, PTL DEF ApiSpec, AuthSpec

\* So what config_store.py, model_registry.py and the publisher promise of
\* each write holds under any workload of POST, PUT and DELETE: store and
\* registry agree, an export and a delta ship what their hashes cover, deltas
\* are ordered, and a restart loses no registered model.
THEOREM AuthorityUnderRequests ==
  ASSUME "deleting" \notin CancelAt
  PROVE  ApiSpec => /\ [](StoreAgrees /\ ExportVerifiable /\ WireOrdered /\ DeltaVerifiable)
                    /\ RestartKeepsApiModels
BY HandlersDriveTheAuthority, StoreAndRegistryAgree, ExportIsVerifiable, DeltasAreOrdered,
   DeltasAreVerifiable, RestartIsSafe, PTL

\* When delete_model reports success, having deleted or found nothing to
\* delete, the registry shows of the model what the image has: for every
\* workload and every interleaving with writes and restarts.
THEOREM DeletesAreVisible ==
  ASSUME "deleting" \notin CancelAt
  PROVE  ApiSpec => DeletedIsGone
<1>1. AuthInit => GoneInv
  <2> SUFFICES ASSUME AuthInit PROVE GoneInv
    OBVIOUS
  <2>1. write = NoWrite /\ write.phase = "idle" /\ registry = Baked
    BY DEF AuthInit, NoWrite
  <2> QED BY <2>1 DEF GoneInv, Upcoming
<1>2. AuthSpec => []GoneInv
  <2>1. AuthTypeOK /\ GoneInv /\ [AuthNext]_authVars => GoneInv'
    BY GoneStep
  <2> QED BY <1>1, <2>1, AuthTypeCorrect, PTL DEF AuthSpec
<1>3. ASSUME ApiInv, GoneInv, [ApiNext]_vars, NEW r \in Requests,
             call[r].op = "delete", req[r].at # "closing",
             req'[r].at = "closing", req'[r].outcome \in Success
      PROVE  registry'[call[r].model] = Baked[call[r].model]
  <2>0. /\ ApiTypeOK /\ LockInv /\ AuthTypeOK /\ call[r].model \in Models
        /\ req \in [Requests -> ReqT]
    BY <1>3, CallFacts DEF ApiInv, ApiTypeOK, ReqT
  <2>1. ASSUME NEW q \in Requests,
               Claim(q) \/ Reclaim(q) \/ Lock(q) \/ Write(q) \/ Unavailable(q) \/ Cancel(q)
        PROVE  q = r
    BY <1>3, <2>0, <2>1, Moves
  <2>2. CASE Lock(r)
    <3>1. UNCHANGED authVars /\ NoOp(call[r]) /\ write = NoWrite /\ req[r].at = "locking"
      BY <1>3, <2>0, <2>2, LockMoves
    <3>2. HasStore /\ store[call[r].model] = NoConfig /\ write.phase = "idle" /\ registry' = registry
      BY <1>3, <2>0, <3>1 DEF NoOp, LockInv, NoWrite, authVars
    <3> QED BY <1>3, <2>0, <3>2, SMTT(30) DEF GoneInv, Upcoming
  <2>3. CASE Write(r)
    <3>1. PublishWrite /\ req[r].at = "writing"
      BY SMT, <1>3, <2>0, <2>3 DEF Write, Close, Success
    <3>2. /\ write.phase = "counted" /\ registry' = registry /\ write # NoWrite
      BY SMT, <3>1 DEF PublishWrite, NoWrite
    <3>3. write.op = "delete" /\ write.model = call[r].model
      BY <1>3, <2>0, <3>1 DEF LockInv
    <3> QED BY <1>3, <2>0, <3>2, <3>3 DEF GoneInv, Upcoming
  <2>4. ~Claim(r) /\ ~Reclaim(r) /\ ~Unavailable(r) /\ ~Cancel(r)
    <3>1. ~Claim(r) /\ ~Reclaim(r) /\ ~Unavailable(r)
      BY SMT, <1>3, <2>0 DEF Claim, Reclaim, Unavailable, Replay, GoTo, Answer
    <3>2. ASSUME Cancel(r) PROVE FALSE
      <4>1. CASE req[r].at = "waiting"
        BY SMT, <1>3, <2>0, <3>2, <4>1 DEF Cancel, Answer
      <4>2. CASE Close(r, "cancelled")
        BY <1>3, <2>0, <4>2 DEF Close, Success
      <4> QED BY <3>2, <4>1, <4>2 DEF Cancel
    <3> QED BY <3>1, <3>2
  <2>5. ASSUME NEW q \in Requests, Settle(q) PROVE FALSE
    BY <1>3, <2>0, <2>5, SettleEach
  <2>6. ~ApiRestart
    BY <1>3, <2>0, RestartMoves
  <2>7. ~UNCHANGED apiVars
    BY <1>3 DEF apiVars
  <2> QED BY <1>3, <2>1, <2>2, <2>3, <2>4, <2>5, <2>6, <2>7 DEF ApiNext, Handle, vars
<1>4. ApiInv /\ GoneInv /\ [ApiNext]_vars =>
        [\A r \in Requests :
           /\ call[r].op = "delete" /\ req[r].at # "closing"
           /\ req'[r].at = "closing" /\ req'[r].outcome \in Success
           => registry'[call[r].model] = Baked[call[r].model]]_vars
  BY <1>3
<1> QED BY <1>2, <1>4, ApiInvariance, HandlersDriveTheAuthority, PTL DEF ApiSpec, DeletedIsGone

-----------------------------------------------------------------------------
(* The handlers implement IdempotentWrites. *)

\* What is recalled of no response, and of one.
LEMMA RecalledOne ==
  /\ Recalled({}) = None
  /\ \A e : Recalled({e}) = [payload |-> e.payload, answer |-> e.answer]
<1> SUFFICES ASSUME NEW e PROVE Recalled({e}) = [payload |-> e.payload, answer |-> e.answer]
  BY DEF Recalled
<1> DEFINE c == CHOOSE x \in {e} : TRUE
<1>1. c = e
  OBVIOUS
<1>2. Recalled({e}) = [payload |-> c.payload, answer |-> c.answer]
  BY DEF Recalled
<1> QED BY <1>1, <1>2

\* What the promise remembers of a key is its response in the cache.
LEMMA MemoryOf ==
  ASSUME ApiTypeOK, CacheInv, NEW k \in Keys
  PROVE  /\ Entries(k) = {} => Remembered[k] = None
         /\ \A e \in Entries(k) : Remembered[k] = [payload |-> e.payload, answer |-> e.answer]
<1>1. Remembered[k] = Recalled(Entries(k))
  BY DEF Remembered
<1>2. ASSUME NEW e \in Entries(k) PROVE Entries(k) = {e}
  <2>1. PICK i \in 1..Len(cache) : e = cache[i] /\ cache[i].key = k
    BY <1>2 DEF Entries
  <2>2. \A j \in 1..Len(cache) : cache[j].key = k => j = i
    BY <2>1 DEF CacheInv
  <2> QED BY <2>1, <2>2 DEF Entries
<1> QED BY <1>1, <1>2, RecalledOne

\* The promise sees no change where the calls and the cache do not change.
LEMMA PromiseSame ==
  ASSUME UNCHANGED <<call, cache>>
  PROVE  /\ Remembered' = Remembered
         /\ [r \in Requests |-> Key(r)]' = [r \in Requests |-> Key(r)]
         /\ [r \in Requests |-> Payload(r)]' = [r \in Requests |-> Payload(r)]
<1>1. Remembered' = Remembered
  <2>1. \A k \in Keys : Entries(k)' = Entries(k)
    BY DEF Entries
  <2> QED BY <2>1 DEF Remembered
<1>2. /\ [r \in Requests |-> Key(r)]' = [r \in Requests |-> Key(r)]
      /\ [r \in Requests |-> Payload(r)]' = [r \in Requests |-> Payload(r)]
  BY DEF Key, Payload
<1> QED BY <1>1, <1>2

\* Nobody is told anything by a step of a request without a key, or of one that
\* is not answered.
LEMMA ToldSame ==
  ASSUME UNCHANGED call, NEW r \in Requests, \A q \in Requests : q # r => req'[q] = req[q],
         Key(r) = None \/ (req[r].at # "done" /\ req'[r].at # "done")
  PROVE  Told' = Told
<1>1. \A q \in Requests : Key(q)' = Key(q)
  BY DEF Key
<1>2. \A q \in Requests : Told'[q] = Told[q]
  BY <1>1 DEF Told
<1> QED BY <1>2 DEF Told

\* An answer to a request with a key is told to it alone.
LEMMA ToldOne ==
  ASSUME UNCHANGED call, NEW r \in Requests, \A q \in Requests : q # r => req'[q] = req[q],
         Key(r) # None, req'[r].at = "done", NEW a, req'[r].outcome = a
  PROVE  Told' = [Told EXCEPT ![r] = a]
<1>1. \A q \in Requests : Key(q)' = Key(q)
  BY DEF Key
<1> QED BY <1>1 DEF Told

\* A step of the promise, or a stutter.
PromiseStep == [Promise!Next]_Promise!vars

\* Answering a request that does not own its key is Tell, if what it is told of
\* a write was remembered or committed.
LEMMA PromiseTell ==
  ASSUME ApiTypeOK, KeyInv, NEW r \in Requests, UNCHANGED <<call, cache, applied, in_flight>>,
         \A q \in Requests : q # r => req'[q] = req[q],
         req[r].at \in {"arriving", "waiting", "woken"}, req'[r].at = "done",
         NEW a \in {"changed", "unchanged", "applied", "mismatch", "conflict", "error", "cancelled"},
         req'[r].outcome = a,
         Key(r) # None /\ a \in Success => Remembered[Key(r)] = [payload |-> Payload(r), answer |-> a],
         Key(r) # None /\ a = "applied" => Payload(r) \in applied[Key(r)]
  PROVE  PromiseStep
<1>1. CASE Key(r) = None
  BY <1>1, ToldSame, PromiseSame, SMTT(30) DEF PromiseStep, Promise!vars
<1>2. CASE Key(r) # None
  <2>1. Key(r) \in Keys /\ None \notin Requests
    BY <1>2, CallFacts, AbsenceAssumption
  <2>2. in_flight[Key(r)] # r
    BY <1>2, <2>1, SMTT(30) DEF KeyInv, Owning
  <2>3. Told[r] = None /\ Told' = [Told EXCEPT ![r] = a]
    BY <1>2, ToldOne DEF Told
  <2>4. Promise!Tell(r)
    BY <1>2, <2>1, <2>2, <2>3, PromiseSame DEF Promise!Tell, Success
  <2> QED BY <2>1, <2>4, PromiseSame, SMTT(30) DEF PromiseStep, Promise!Next
<1> QED BY <1>1, <1>2

\* A step of a handler that answers nobody and keeps the keys is a stutter.
LEMMA PromiseQuiet ==
  ASSUME NEW r \in Requests, UNCHANGED <<call, cache, applied, in_flight>>,
         \A q \in Requests : q # r => req'[q] = req[q],
         Key(r) = None \/ (req[r].at # "done" /\ req'[r].at # "done")
  PROVE  PromiseStep
BY ToldSame, PromiseSame DEF PromiseStep, Promise!vars

\* The claim begins, tells or leaves the promise alone.
LEMMA PromiseClaim ==
  ASSUME ApiInv, NEW r \in Requests, Claim(r)
  PROVE  PromiseStep
<1> DEFINE k == Key(r)
<1>0. /\ ApiTypeOK /\ KeyInv /\ CacheInv /\ UNCHANGED <<call, cache, applied>> /\ req[r].at = "arriving"
      /\ \A q \in Requests : q # r => req'[q] = req[q]
      /\ req \in [Requests -> ReqT] /\ (k # None => k \in Keys)
  <2>1. ApiTypeOK /\ KeyInv /\ CacheInv
    BY DEF ApiInv
  <2>2. UNCHANGED <<call, cache, applied>> /\ \A q \in Requests : q # r => req'[q] = req[q]
    BY <2>1, Moves
  <2> QED BY <2>1, <2>2, CallFacts DEF Claim, ApiTypeOK, ReqT
<1>1. CASE k = None /\ GoTo(r, "locking") /\ UNCHANGED in_flight
  BY <1>0, <1>1, PromiseQuiet
<1>2. CASE k # None /\ (\E e \in Entries(k) : Replay(r, e)) /\ UNCHANGED in_flight
  <2>1. PICK e \in Entries(k) : Replay(r, e)
    BY <1>2
  <2>2. e \in EntryT /\ Remembered[k] = [payload |-> e.payload, answer |-> e.answer]
    BY <1>0, <1>2, EntryFacts, MemoryOf, SMTT(30)
  <2>3. e.answer \in Success
    BY <2>2 DEF EntryT
  <2> DEFINE a == IF e.payload = Payload(r) THEN e.answer ELSE "mismatch"
  <2>4. req'[r].at = "done" /\ req'[r].outcome = a
    BY <1>0, <2>1 DEF Replay, Answer
  <2>5. a \in {"changed", "unchanged", "applied", "mismatch", "conflict", "error", "cancelled"}
    BY <2>3 DEF Success
  <2>6. /\ a \in Success => Remembered[k] = [payload |-> Payload(r), answer |-> a]
        /\ a # "applied"
    BY <2>2, <2>3 DEF Success
  <2> HIDE DEF a
  <2> QED BY <1>0, <1>2, <2>4, <2>5, <2>6, PromiseTell
<1>3. CASE /\ k # None /\ Entries(k) = {} /\ in_flight[k] = None
           /\ GoTo(r, "locking") /\ in_flight' = [in_flight EXCEPT ![k] = r]
  <2>1. req'[r].at = "locking"
    BY <1>0, <1>3 DEF GoTo
  <2>2. Told' = Told /\ Told[r] = None
    BY <1>0, <2>1, ToldSame, SMTT(30) DEF Told
  <2>3. Remembered[k] = None
    BY <1>0, <1>3, MemoryOf
  <2>4. Promise!Begin(r)
    BY <1>0, <1>3, <2>2, <2>3, PromiseSame DEF Promise!Begin
  <2> QED BY <1>0, <1>3, <2>4, PromiseSame DEF PromiseStep, Promise!Next
<1>4. CASE GoTo(r, "waiting") /\ UNCHANGED in_flight
  <2>1. req'[r].at = "waiting"
    BY <1>0, <1>4 DEF GoTo
  <2> QED BY <1>0, <1>4, <2>1, PromiseQuiet
<1>5. CASE Answer(r, "mismatch") /\ UNCHANGED in_flight
  <2>1. req'[r].at = "done" /\ req'[r].outcome = "mismatch"
    BY <1>0, <1>5 DEF Answer
  <2> QED BY <1>0, <1>5, <2>1, PromiseTell DEF Success
<1> QED BY <1>1, <1>2, <1>3, <1>4, <1>5 DEF Claim

\* A woken waiter is told what is remembered or was committed.
LEMMA PromiseReclaim ==
  ASSUME ApiInv, NEW r \in Requests, Reclaim(r)
  PROVE  PromiseStep
<1>0. /\ ApiTypeOK /\ KeyInv /\ CacheInv /\ UNCHANGED <<call, cache, applied, in_flight>> /\ req[r].at = "woken"
      /\ \A q \in Requests : q # r => req'[q] = req[q]
      /\ req \in [Requests -> ReqT] /\ (Key(r) # None => Key(r) \in Keys)
  <2>1. ApiTypeOK /\ KeyInv /\ CacheInv
    BY DEF ApiInv
  <2>2. \A q \in Requests : q # r => req'[q] = req[q]
    BY <2>1, Moves
  <2> QED BY <2>1, <2>2, CallFacts DEF Reclaim, ApiTypeOK, ReqT
<1>1. Key(r) # None /\ (req[r].outcome \in Success => Payload(r) \in applied[Key(r)])
  BY <1>0 DEF KeyInv
<1>2. CASE req[r].outcome \in Failure /\ Answer(r, req[r].outcome)
  <2> DEFINE a == req[r].outcome
  <2>1. a \in Failure /\ req'[r].at = "done" /\ req'[r].outcome = a
    BY <1>0, <1>2 DEF Answer
  <2> HIDE DEF a
  <2> QED BY <1>0, <2>1, PromiseTell DEF Success, Failure
<1>3. CASE \E e \in Entries(Key(r)) : Replay(r, e)
  <2>1. PICK e \in Entries(Key(r)) : Replay(r, e)
    BY <1>3
  <2>2. e \in EntryT /\ Remembered[Key(r)] = [payload |-> e.payload, answer |-> e.answer]
    BY <1>0, <1>1, EntryFacts, MemoryOf
  <2>3. e.answer \in Success
    BY <2>2 DEF EntryT
  <2> DEFINE a == IF e.payload = Payload(r) THEN e.answer ELSE "mismatch"
  <2>4. req'[r].at = "done" /\ req'[r].outcome = a
    BY <1>0, <2>1 DEF Replay, Answer
  <2>5. a \in {"changed", "unchanged", "applied", "mismatch", "conflict", "error", "cancelled"}
    BY <2>3 DEF Success
  <2>6. /\ a \in Success => Remembered[Key(r)] = [payload |-> Payload(r), answer |-> a]
        /\ a # "applied"
    BY <2>2, <2>3 DEF Success
  <2> HIDE DEF a
  <2> QED BY <1>0, <2>4, <2>5, <2>6, PromiseTell
<1>4. CASE req[r].outcome \in Success /\ Answer(r, "applied")
  <2>1. req'[r].at = "done" /\ req'[r].outcome = "applied"
    BY <1>0, <1>4 DEF Answer
  <2> QED BY <1>0, <1>1, <1>4, <2>1, PromiseTell DEF Success
<1> QED BY <1>2, <1>3, <1>4 DEF Reclaim

\* The end of a request with a key commits or gives up.
LEMMA PromiseSettle ==
  ASSUME ApiInv, NEW r \in Requests, Settle(r)
  PROVE  PromiseStep
<1> DEFINE k == Key(r)  out == req[r].outcome
<1>0. ApiTypeOK /\ KeyInv /\ CacheInv /\ AppliedOK
  BY DEF ApiInv
<1>1. /\ UNCHANGED call /\ req[r].at = "closing" /\ out \in Success \cup Failure
      /\ \A x \in Keys : in_flight'[x] = IF x = k THEN None ELSE in_flight[x]
      /\ in_flight' \in [Keys -> Requests \cup {None}]
      /\ applied' = [x \in Keys |-> IF x = k /\ out \in Success THEN applied[x] \cup {Payload(r)} ELSE applied[x]]
  BY <1>0, SettleMoves
<1>2. /\ [q \in Requests |-> Key(q)]' = [q \in Requests |-> Key(q)]
      /\ [q \in Requests |-> Payload(q)]' = [q \in Requests |-> Payload(q)]
      /\ \A q \in Requests : Key(q)' = Key(q)
  BY <1>1 DEF Key, Payload
<1>3. \A q \in Requests : q # r => Told'[q] = Told[q]
  <2> SUFFICES ASSUME NEW q \in Requests, q # r PROVE Told'[q] = Told[q]
    OBVIOUS
  <2>1. req'[q] = req[q] \/ (req[q].at # "done" /\ req'[q].at # "done")
    BY <1>0, SettleEach
  <2> QED BY <1>2, <2>1 DEF Told
<1>4. req'[r].at = "done" /\ req'[r].outcome = out
  BY <1>0, SettleEach
<1>5. in_flight \in [Keys -> Requests \cup {None}] /\ applied \in [Keys -> SUBSET {Payload(q) : q \in Requests}]
  BY <1>0 DEF ApiTypeOK, AppliedOK
<1>6. CASE k = None
  <2>1. in_flight' = in_flight /\ applied' = applied
    BY SMT, <1>1, <1>5, <1>6, AbsenceAssumption
  <2>2. cache' = cache
    BY <1>0, <1>6, SettleMoves
  <2>3. Told'[r] = Told[r]
    BY <1>2, <1>6 DEF Told
  <2>4. Told' = Told
    BY <1>3, <2>3, SMTT(30) DEF Told
  <2> QED BY <1>1, <2>1, <2>2, <2>4, PromiseSame DEF PromiseStep, Promise!vars
<1>7. CASE k # None
  <2>1. k \in Keys /\ in_flight[k] = r
    BY <1>0, <1>1, <1>7, CallFacts, Unkeyed DEF Owning
  <2>2. in_flight' = [in_flight EXCEPT ![k] = None]
    BY <1>1, <1>5, <2>1
  <2>3. Told' = [Told EXCEPT ![r] = out]
    <3>1. Told'[r] = out
      BY <1>2, <1>4, <1>7 DEF Told
    <3> QED BY <1>3, <3>1 DEF Told
  <2>4. CASE out \in Failure
    <3>1. out \notin Success
      BY <2>4 DEF Success, Failure
    <3>2. cache' = cache
      BY <1>0, <3>1, SettleMoves
    <3>3. applied' = applied
      BY <1>1, <1>5, <3>1
    <3> HIDE DEF out
    <3>4. Promise!GiveUp(r)
      BY <1>1, <2>1, <2>2, <2>3, <2>4, <3>2, <3>3, PromiseSame DEF Promise!GiveUp, Failure
    <3> QED BY <1>2, <2>1, <3>4 DEF PromiseStep, Promise!Next
  <2>5. CASE out \in Success
    <3> DEFINE lost == {x \in Keys : Entries(x)' = {}}
    <3>1. /\ Entries(k)' = {[key |-> k, payload |-> Payload(r), answer |-> out]}
          /\ \A x \in Keys : x # k => Entries(x)' = {} \/ Entries(x)' = Entries(x)
      BY <1>0, <1>7, <2>5, SettleCache
    <3>2. applied' = [applied EXCEPT ![k] = applied[k] \cup {Payload(r)}]
      BY <1>1, <1>5, <2>1, <2>5
    <3>3. Remembered' = [x \in Keys |-> IF x = k THEN [payload |-> Payload(r), answer |-> out]
                                        ELSE IF x \in lost THEN None ELSE Remembered[x]]
      <4>1. Remembered'[k] = [payload |-> Payload(r), answer |-> out]
        <5>1. PICK x \in Keys : x = k
          BY <2>1
        <5>2. Entries(x)' = {[key |-> k, payload |-> Payload(r), answer |-> out]}
          BY <1>2, <3>1, <5>1 DEF Entries
        <5>3. Remembered'[x] = Recalled({[key |-> k, payload |-> Payload(r), answer |-> out]})
          BY <5>2 DEF Remembered
        <5>4. Recalled({[key |-> k, payload |-> Payload(r), answer |-> out]})
                = [payload |-> Payload(r), answer |-> out]
          <6> DEFINE e == [key |-> k, payload |-> Payload(r), answer |-> out]
          <6>1. e.payload = Payload(r) /\ e.answer = out
            OBVIOUS
          <6> HIDE DEF e
          <6>2. Recalled({e}) = [payload |-> e.payload, answer |-> e.answer]
            BY RecalledOne
          <6> QED BY <6>1, <6>2 DEF e
        <5> QED BY <5>1, <5>3, <5>4
      <4>2. \A x \in Keys : x # k => Remembered'[x] = IF x \in lost THEN None ELSE Remembered[x]
        BY <3>1, RecalledOne DEF Remembered
      <4> QED BY <4>1, <4>2 DEF Remembered
    <3> HIDE DEF out, lost
    <3>4. lost \in SUBSET Keys
      BY DEF lost
    <3>5. Promise!Commit(r)
      BY <2>1, <2>2, <2>3, <2>5, <3>2, <3>3, <3>4 DEF Promise!Commit, Success
    <3> QED BY <1>2, <2>1, <3>5, SMTT(30) DEF PromiseStep, Promise!Next
  <2> QED BY <1>1, <2>4, <2>5, SMTT(30)
<1> QED BY <1>6, <1>7

\* A restart forgets.
LEMMA PromiseRestart ==
  ASSUME ApiInv, ApiRestart
  PROVE  PromiseStep
<1> DEFINE lost == {r \in Requests : Key(r) # None /\ req[r].at \notin {"arriving", "done"}}
<1>0. ApiTypeOK
  BY DEF ApiInv
<1>1. /\ UNCHANGED <<call, applied>> /\ in_flight' = [k \in Keys |-> None] /\ \A k : Entries(k)' = {}
  BY <1>0, RestartMoves DEF ApiRestart
<1>2. /\ [q \in Requests |-> Key(q)]' = [q \in Requests |-> Key(q)]
      /\ [q \in Requests |-> Payload(q)]' = [q \in Requests |-> Payload(q)]
      /\ \A q \in Requests : Key(q)' = Key(q)
  BY <1>1 DEF Key, Payload
<1>3. Remembered' = [k \in Keys |-> None]
  BY <1>1, RecalledOne DEF Remembered
<1>4. \A r \in lost : Told[r] = None
  BY DEF Told
<1>5. ASSUME NEW r \in Requests PROVE Told'[r] = IF r \in lost THEN "lost" ELSE Told[r]
  <2>1. CASE req[r].at \in {"arriving", "done"}
    <3>1. req'[r] = req[r]
      BY <1>0, <2>1, RestartMoves
    <3> QED BY <1>2, <2>1, <3>1 DEF Told
  <2>2. CASE req[r].at \notin {"arriving", "done"}
    <3>1. req'[r] = [at |-> "done", outcome |-> "lost"]
      BY <1>0, <2>2, RestartMoves
    <3>2. req'[r].at = "done" /\ req'[r].outcome = "lost" /\ req[r].at # "done"
      BY SMT, <2>2, <3>1
    <3> QED BY <1>2, <2>2, <3>2 DEF Told
  <2> QED BY <2>1, <2>2
<1>6. Told' = [r \in Requests |-> IF r \in lost THEN "lost" ELSE Told[r]]
  BY <1>5 DEF Told
<1>7. lost \in SUBSET {r \in Requests : Told[r] = None}
  BY <1>4
<1> HIDE DEF lost
<1>8. Promise!Forget
  BY <1>1, <1>3, <1>6, <1>7 DEF Promise!Forget
<1> QED BY <1>2, <1>8 DEF PromiseStep, Promise!Next

\* The handlers implement the promise of an Idempotency-Key, for any number of
\* requests, keys and cache size: one owner of a key at a time, no second write
\* while the first is remembered, and nobody is told of a write of its payload
\* that was not committed ("The write was applied exactly once").
THEOREM PromiseIsKept == ApiSpec => KeepsPromise
<1>1. ApiInit => Promise!Init
  <2> SUFFICES ASSUME ApiInit PROVE Promise!Init
    OBVIOUS
  <2>1. cache = <<>> /\ \A r \in Requests : req[r].at = "arriving"
    BY DEF ApiInit
  <2>2. \A k : Entries(k) = {}
    BY SMT, <2>1 DEF Entries
  <2>3. Remembered = [k \in Keys |-> None]
    BY <2>2, RecalledOne DEF Remembered
  <2>4. Told = [r \in Requests |-> None]
    BY <2>1 DEF Told
  <2> QED BY <2>3, <2>4 DEF ApiInit, Promise!Init
<1>2. ASSUME ApiInv, [ApiNext]_vars PROVE PromiseStep
  <2>0. ApiTypeOK /\ KeyInv /\ req \in [Requests -> ReqT]
    BY <1>2 DEF ApiInv, ApiTypeOK, ReqT
  <2>1. ASSUME NEW r \in Requests, Lock(r) \/ Write(r) PROVE PromiseStep
    <3>1. UNCHANGED <<call, cache, applied, in_flight>>
      BY <2>1 DEF Lock, Write
    <3>2. \A q \in Requests : q # r => req'[q] = req[q]
      BY <2>0, <2>1, Moves
    <3>3. req[r].at # "done" /\ req'[r].at # "done"
      BY <2>0, <2>1, LockMoves, WriteMoves
    <3> QED BY <3>1, <3>2, <3>3, PromiseQuiet
  <2>2. ASSUME NEW r \in Requests, Unavailable(r) PROVE PromiseStep
    <3>1. UNCHANGED <<call, cache, applied, in_flight>> /\ req[r].at = "arriving"
      BY <2>2 DEF Unavailable
    <3>2. \A q \in Requests : q # r => req'[q] = req[q]
      BY <2>0, <2>2, Moves
    <3>3. req'[r].at = "done" /\ req'[r].outcome \in {"conflict", "error"}
      BY <2>0, <2>2 DEF Unavailable, Answer
    <3>4. PICK a \in {"conflict", "error"} : req'[r].outcome = a
      BY <3>3
    <3> QED BY <2>0, <3>1, <3>2, <3>3, <3>4, PromiseTell DEF Success
  <2>3. ASSUME NEW r \in Requests, Cancel(r) PROVE PromiseStep
    <3>1. UNCHANGED <<call, cache, applied, in_flight>> /\ req[r].at \in {"waiting", "locking", "writing"}
      BY <2>3, CancelAssumption DEF Cancel, Unshielded
    <3>2. \A q \in Requests : q # r => req'[q] = req[q]
      BY <2>0, <2>3, Moves
    <3>3. CASE req[r].at = "waiting"
      <4>1. req'[r].at = "done" /\ req'[r].outcome = "cancelled"
        BY SMT, <2>0, <2>3, <3>3 DEF Cancel, Answer
      <4> QED BY <2>0, <3>1, <3>2, <3>3, <4>1, PromiseTell DEF Success
    <3>4. CASE req[r].at # "waiting"
      <4>1. req'[r].at = "closing"
        BY SMT, <2>0, <2>3, <3>4 DEF Cancel, Close
      <4> QED BY <3>1, <3>2, <4>1, PromiseQuiet
    <3> QED BY <3>3, <3>4
  <2>4. CASE UNCHANGED apiVars
    <3>1. UNCHANGED <<call, req, in_flight, cache, applied>>
      BY <2>4 DEF apiVars
    <3>2. Told' = Told
      BY <3>1 DEF Told, Key
    <3> QED BY <3>1, <3>2, PromiseSame DEF PromiseStep, Promise!vars
  <2> QED BY <1>2, <2>1, <2>2, <2>3, <2>4, PromiseClaim, PromiseReclaim, PromiseSettle, PromiseRestart, SMTT(30)
          DEF ApiNext, Handle, vars
<1>3. ApiInv /\ [ApiNext]_vars => [Promise!Next]_Promise!vars
  BY <1>2 DEF PromiseStep
<1> QED BY <1>1, <1>3, ApiInvariance, PTL DEF ApiSpec, KeepsPromise, Promise!Spec
=============================================================================
