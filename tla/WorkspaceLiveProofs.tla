-------------------------- MODULE WorkspaceLiveProofs --------------------------
(***************************************************************************)
(* Proofs about what clients may rely on.  The socket: what a connection   *)
(* was sent last is the workspace as its replica has it, or a newer push   *)
(* is on its way.  The answers: an acknowledged row stays, which rests on  *)
(* the inductive invariant of WorkspaceProofs.                             *)
(***************************************************************************)
EXTENDS WorkspaceLive, WorkspaceProofs

(***************************************************************************)
(* Why no screen is left behind.  Whatever changes the store of a replica  *)
(* leaves an announcement due, or a request that will make one, or is      *)
(* excused; an announcement becomes a nudge or a broadcast; and a          *)
(* broadcast that has not yet reached a connection reads the store after   *)
(* it took a version no connection has seen.                               *)
(***************************************************************************)
Connection(c) ==
    \E x : c \in [at : {"joined", "first", "on"}, replica : Replicas, sess : Sessions,
                  first : Nat, top : Nat \cup {-1}, shows : {x}]

Casting == [at : {"begun", "numbered", "sending"}, replica : Replicas, v : Nat,
            targets : SUBSET Clients]

\* A request under way is served by one replica.
Work(x) == {"at", "replica"} \subseteq DOMAIN x /\ x.replica \in Replicas

JobsOK ==
    /\ job = [h \in Handlers |-> job[h]]
    /\ \A h \in Handlers :
          job[h] = Idle \/ Work(job[h])

LiveTypes ==
    /\ JobsOK
    /\ DOMAIN cache = Replicas /\ DOMAIN upset = Replicas
    /\ due \in [Replicas -> Nat] /\ nudged \in [Replicas -> Nat]
    /\ version \in [Replicas -> Nat]
    /\ DOMAIN client = Clients
    /\ \A k \in Clients : client[k] \in {Offline, Gone} \/ Connection(client[k])
    /\ cast \in [Workers -> Casting \cup {NoCast}]

Connected(k) == client[k] \notin {Offline, Gone}

\* No connection and no broadcast is ahead of the version of its replica.
VersionsOK ==
    /\ \A k \in Clients : Connected(k) =>
          /\ client[k].top <= version[client[k].replica]
          /\ client[k].first <= version[client[k].replica]
          /\ client[k].at = "on" => client[k].top >= 0
    /\ \A w \in Workers : cast[w] # NoCast => cast[w].v <= version[cast[w].replica]

\* A request of r that is going to announce something.
Busy(h, r) ==
    /\ job[h].at \in {"count", "publish", "save", "record", "ring"}
    /\ job[h].replica = r

Pending(r) == due[r] > 0 \/ \E h \in Handlers : Busy(h, r)

\* The broadcast w has a newer push in store for k.
Coming(w, k) ==
    /\ cast[w] # NoCast /\ cast[w].replica = client[k].replica
    /\ \/ cast[w].at = "begun"
       \/ /\ cast[w].v >= client[k].top
          /\ cast[w].at = "numbered" \/ k \in cast[w].targets

OnItsWay(k) ==
    \/ Pending(client[k].replica)
    \/ nudged[client[k].replica] > 0
    \/ \E w \in Workers : Coming(w, k)

UpToDate(k) ==
    Connected(k) /\ client[k].top >= 0 /\ "ahead" \notin upset[client[k].replica]
        => Current(k) \/ OnItsWay(k)

PushInv == LiveTypes /\ VersionsOK /\ \A k \in Clients : UpToDate(k)

\* A replica that is still starting has no connections.
Opened ==
    \A k \in Clients, h \in Handlers :
        Connected(k) /\ job[h].at = "seed" => job[h].replica # client[k].replica

-----------------------------------------------------------------------------
(* What a step of the service leaves behind on every replica.               *)

\* The store of r has not moved, or the move is going to be announced, or excused.
Spoken(r) ==
    \/ Pending(r)'
    \/ "ahead" \in upset'[r]
    \/ /\ cache'[r] = cache[r] /\ ~Pending(r)
       /\ "ahead" \in upset[r] => "ahead" \in upset'[r]

\* A step that leaves a replica's store, reasons, announcements and busy requests.
LEMMA Untouched ==
    ASSUME NEW r \in Replicas, cache'[r] = cache[r], upset[r] \subseteq upset'[r],
           due'[r] >= due[r], due[r] \in Nat, due'[r] \in Nat,
           \A h \in Handlers : Busy(h, r) => \E g \in Handlers : Busy(g, r)'
    PROVE  Spoken(r)
BY DEF Spoken, Pending

\* What a commit leaves on every replica.
LEMMA Committed ==
    ASSUME LiveTypes, NEW r \in Replicas, NEW o, NEW excuse, Commit(r, o, excuse)
    PROVE  /\ DOMAIN cache' = Replicas /\ DOMAIN upset' = Replicas
           /\ cache'[r] = o.store
           /\ \A q \in Replicas \ {r} : cache'[q] = cache[q]
           /\ \A q \in Replicas : upset[q] \subseteq upset'[q]
           /\ excuse \subseteq upset'[r]
BY DEF LiveTypes, Commit, Disturbed

\* The answer to a request that succeeded is followed by an announcement.
LEMMA Announcement ==
    ASSUME LiveTypes, Realtime, NEW r \in Replicas, NEW ok \in BOOLEAN,
           GinBroadcastWorkspace(r, ok)
    PROVE  /\ due' \in [Replicas -> Nat]
           /\ ok => due'[r] > 0
           /\ \A q \in Replicas : due'[q] >= due[q]
<1>1. due \in [Replicas -> Nat]
    BY DEF LiveTypes
<1> QED
    BY <1>1 DEF GinBroadcastWorkspace

\* A request in one step: what it changes is announced unless it is excused.
LEMMA RequestSpoken ==
    ASSUME LiveTypes, Realtime, NEW r \in Replicas, NEW o, NEW excuse,
           Commit(r, o, excuse), GinBroadcastWorkspace(r, o.err = "ok"), job' = job,
           o.err = "ok" \/ o.store = cache[r] \/ "ahead" \in excuse
    PROVE  \A q \in Replicas : Spoken(q)
<1>1. /\ \A q \in Replicas : due'[q] >= due[q] /\ due[q] \in Nat /\ due'[q] \in Nat
      /\ o.err = "ok" => due'[r] > 0
    <2>1. (o.err = "ok") \in BOOLEAN
        OBVIOUS
    <2> QED
        BY <2>1, Announcement DEF LiveTypes
<1>2. \A q \in Replicas, h \in Handlers : Busy(h, q) => Busy(h, q)'
    BY DEF Busy
<1>3. \A q \in Replicas : cache'[q] = cache[q] => Spoken(q)
    BY <1>1, <1>2, Committed, Untouched
<1>4. \A q \in Replicas \ {r} : Spoken(q)
    BY <1>3, Committed
<1>5. Spoken(r)
    <2>1. CASE o.err = "ok"
        BY <1>1, <2>1 DEF Spoken, Pending
    <2>2. CASE o.store = cache[r]
        BY <1>3, <2>2, Committed
    <2>3. CASE "ahead" \in excuse
        BY <2>3, Committed DEF Spoken
    <2> QED
        BY <2>1, <2>2, <2>3
<1> QED
    BY <1>4, <1>5

-----------------------------------------------------------------------------
(* The methods of the store change it when they succeed, and then only.     *)

LEMMA ZoneOutcomes ==
    ASSUME NEW d, NEW s, NEW code, NEW name, NEW o, o.err # "ok",
           o \in CM!CreateZone(d, s, code, name) \cup CM!DeleteZone(d, s, code)
    PROVE  o.store = s
BY DEF CM!CreateZone, CM!DeleteZone, CM!Dropped, CM!Ends, CM!Grown, CM!After, CM!wrapPersist

LEMMA ContractOutcomes ==
    ASSUME NEW d, NEW s, NEW in, NEW no, NEW patch, NEW o, o.err # "ok",
           \/ o \in CM!CreateContract(d, s, in)
           \/ o \in CM!updateContract(d, s, no, patch)
           \/ o \in CM!deleteContract(d, s, no)
    PROVE  o.store = s
BY DEF CM!CreateContract, CM!insertContract, CM!updateContract, CM!deleteContract,
       CM!Ends, CM!After, CM!wrapPersist

\* Statements that only write the tables.
LEMMA StoreKept ==
    ASSUME NEW d, NEW s, NEW x, NEW o,
           o \in CM!persistZoneCount(d, s, x) \cup CM!auditStored(d, s, x)
    PROVE  o.store = s
<1>1. PICK stmts, e : e \in CM!After(s, stmts, s) /\ o = [e EXCEPT !.err = "ok"]
    BY DEF CM!persistZoneCount, CM!auditStored
<1>2. e.store = s /\ "store" \in DOMAIN e
    BY <1>1 DEF CM!After
<1> QED
    BY <1>1, <1>2

-----------------------------------------------------------------------------
(* The steps of the service.                                                *)

\* A step of the request h, which holds x afterwards.
LEMMA OneJob ==
    ASSUME JobsOK, NEW h \in Handlers, NEW x, job' = [job EXCEPT ![h] = x],
           x = Idle \/ Work(x)
    PROVE  /\ JobsOK'
           /\ job'[h] = x
           /\ \A g \in Handlers \ {h} : job'[g] = job[g]
BY DEF JobsOK

\* What a service step has to keep for the rest of the invariant.
ServiceTypes ==
    /\ JobsOK /\ DOMAIN cache = Replicas /\ DOMAIN upset = Replicas
    /\ due \in [Replicas -> Nat]

\* No start begins.
NoStart == \A h \in Handlers : job'[h].at = "seed" => job'[h] = job[h]

Kept == ServiceTypes' /\ NoStart /\ \A q \in Replicas : Spoken(q)

\* A step of h, for the replica r, that leaves h busy there unless r's store is left alone.
LEMMA JobSpoken ==
    ASSUME LiveTypes, NEW r \in Replicas, NEW h \in Handlers, NEW x,
           job' = [job EXCEPT ![h] = x],
           x = Idle \/ Work(x), x.at # "seed",
           \A q \in Replicas : Busy(h, q) => q = r,
           DOMAIN cache' = Replicas, DOMAIN upset' = Replicas,
           due' \in [Replicas -> Nat],
           \A q \in Replicas : due'[q] >= due[q],
           \A q \in Replicas : q # r => cache'[q] = cache[q] /\ upset[q] \subseteq upset'[q],
           \/ Busy(h, r)' \/ due'[r] > 0 \/ "ahead" \in upset'[r]
           \/ cache'[r] = cache[r] /\ upset[r] \subseteq upset'[r] /\ ~Busy(h, r)
    PROVE  Kept
<1>1. /\ JobsOK' /\ job'[h] = x
      /\ \A g \in Handlers \ {h} : job'[g] = job[g]
    BY OneJob DEF LiveTypes
<1>2. \A q \in Replicas, g \in Handlers \ {h} : Busy(g, q) => Busy(g, q)'
    BY <1>1 DEF Busy
<1>3. \A q \in Replicas : due[q] \in Nat /\ due'[q] \in Nat
    BY DEF LiveTypes
<1>4. ASSUME NEW q \in Replicas, q # r
      PROVE  Spoken(q)
    <2>1. \A g \in Handlers : Busy(g, q) => Busy(g, q)'
        BY <1>2, <1>4
    <2> QED
        BY <1>3, <1>4, <2>1, Untouched
<1>5. Spoken(r)
    <2>1. CASE Busy(h, r)' \/ due'[r] > 0 \/ "ahead" \in upset'[r]
        BY <2>1 DEF Spoken, Pending
    <2>2. CASE cache'[r] = cache[r] /\ upset[r] \subseteq upset'[r] /\ ~Busy(h, r)
        <3>1. \A g \in Handlers : Busy(g, r) => Busy(g, r)'
            BY <1>2, <2>2
        <3> QED
            BY <1>3, <2>2, <3>1, Untouched
    <2> QED
        BY <2>1, <2>2
<1>6. NoStart
    BY <1>1 DEF NoStart
<1> QED
    BY <1>1, <1>4, <1>5, <1>6 DEF Kept, ServiceTypes

LEMMA ZonesSpoken ==
    ASSUME LiveTypes, Realtime, NEW r \in Replicas, ZoneRequests(r)
    PROVE  Kept
<1>1. \E o, excuse :
          /\ Commit(r, o, excuse) /\ GinBroadcastWorkspace(r, o.err = "ok") /\ job' = job
          /\ o.err = "ok" \/ o.store = cache[r] \/ "ahead" \in excuse
    <2>1. CASE \E z \in ZoneCodes, n \in Data :
                  Create(r, "zones", CM!CreateZone(db, cache[r], z, n))
        <3>1. PICK z \in ZoneCodes, n \in Data :
                  Create(r, "zones", CM!CreateZone(db, cache[r], z, n))
            BY <2>1
        <3>2. PICK o \in CM!CreateZone(db, cache[r], z, n) :
                  Commit(r, o, {}) /\ GinBroadcastWorkspace(r, o.err = "ok") /\ job' = job
            BY <3>1 DEF Create, Request, NoExcuse
        <3> QED
            BY <3>2, ZoneOutcomes
    <2>2. CASE \E z \in ZoneCodes, n \in Data :
                  Request(r, CM!PatchZone(db, cache[r], z, n),
                          LAMBDA o : IF o.err = "ok" THEN {} ELSE {"ahead"}, Keeps)
        <3>1. PICK z \in ZoneCodes, n \in Data :
                  Request(r, CM!PatchZone(db, cache[r], z, n),
                          LAMBDA o : IF o.err = "ok" THEN {} ELSE {"ahead"}, Keeps)
            BY <2>2
        <3>2. PICK o \in CM!PatchZone(db, cache[r], z, n) :
                  /\ Commit(r, o, IF o.err = "ok" THEN {} ELSE {"ahead"})
                  /\ GinBroadcastWorkspace(r, o.err = "ok") /\ job' = job
            BY <3>1 DEF Request
        <3> QED
            BY <3>2
    <2>3. CASE \E z \in ZoneCodes : Destroy(r, "zones", z, CM!DeleteZone(db, cache[r], z))
        <3>1. PICK z \in ZoneCodes : Destroy(r, "zones", z, CM!DeleteZone(db, cache[r], z))
            BY <2>3
        <3>2. PICK o \in CM!DeleteZone(db, cache[r], z) :
                  Commit(r, o, {}) /\ GinBroadcastWorkspace(r, o.err = "ok") /\ job' = job
            BY <3>1 DEF Destroy, Request, NoExcuse
        <3> QED
            BY <3>2, ZoneOutcomes
    <2> QED
        BY <2>1, <2>2, <2>3 DEF ZoneRequests
<1>2. PICK o, excuse :
          /\ Commit(r, o, excuse) /\ GinBroadcastWorkspace(r, o.err = "ok") /\ job' = job
          /\ o.err = "ok" \/ o.store = cache[r] \/ "ahead" \in excuse
    BY <1>1
<1>3. \A q \in Replicas : Spoken(q)
    BY <1>2, RequestSpoken
<1>4. due' \in [Replicas -> Nat]
    <2>1. (o.err = "ok") \in BOOLEAN
        OBVIOUS
    <2> QED
        BY <1>2, <2>1, Announcement
<1>5. DOMAIN cache' = Replicas /\ DOMAIN upset' = Replicas
    BY <1>2, Committed
<1> QED
    BY <1>2, <1>3, <1>4, <1>5 DEF Kept, ServiceTypes, LiveTypes, JobsOK, NoStart

\* A request that has cleared its way to the counts or the events is busy.
LEMMA CountingBusy ==
    ASSUME NEW r \in Replicas, NEW no, NEW s, NEW zones, NEW tell
    PROVE  LET x == Counting(r, no, s, zones, tell) IN
           /\ x.at \in {"publish", "count"} /\ x.replica = r
           /\ Work(x)
BY DEF Counting, Work

\* Contract requests: the store changes and h goes on to count, or neither.
LEMMA ContractSpoken ==
    ASSUME LiveTypes, NEW r \in Replicas, NEW h \in Handlers, NEW o, NEW x,
           Commit(r, o, {}), due' = due, \A q \in Replicas : ~Busy(h, q),
           job' = [job EXCEPT ![h] = x],
           x = Idle \/ Work(x),
           o.err = "ok" => x.at \in {"publish", "count"} /\ x.replica = r,
           o.err # "ok" => o.store = cache[r] /\ x.at # "seed"
    PROVE  Kept
<1>1. /\ DOMAIN cache' = Replicas /\ DOMAIN upset' = Replicas
      /\ cache'[r] = o.store
      /\ \A q \in Replicas \ {r} : cache'[q] = cache[q]
      /\ \A q \in Replicas : upset[q] \subseteq upset'[q]
    BY Committed
<1>2. due' \in [Replicas -> Nat] /\ \A q \in Replicas : due'[q] >= due[q]
    BY DEF LiveTypes
<1>3. job'[h] = x
    BY OneJob DEF LiveTypes
<1>4. Busy(h, r)' \/ (cache'[r] = cache[r] /\ ~Busy(h, r))
    <2>1. CASE o.err = "ok"
        BY <1>3, <2>1 DEF Busy
    <2>2. CASE o.err # "ok"
        BY <1>1, <2>2
    <2> QED
        BY <2>1, <2>2
<1> QED
    BY <1>1, <1>2, <1>4, JobSpoken

LEMMA PostedSpoken ==
    ASSUME LiveTypes, NEW r \in Replicas, NEW h \in Handlers, ContractPosted(h, r)
    PROVE  Kept
<1>1. PICK given \in ContractNos \cup {None}, z \in ZoneCodes, sup \in Supervisors,
           st \in Statuses \cup {None} :
          LET no == IF given = None THEN CM!nextContractNo(cache[r]) ELSE given
              in == [id |-> no, zone |-> z, sup |-> sup, status |-> st, report |-> 0]
          IN /\ no \in ContractNos
             /\ \E o \in CM!CreateContract(db, cache[r], in) :
                  /\ Commit(r, o, {})
                  /\ acked' = Adds("contracts", o)
                  /\ miscounted' = Miscounts(r, o)
                  /\ raced' = IF o.err # "ok" /\ o.db = db THEN raced
                              ELSE IF OnContract(no) \/ o.err = "lost" THEN raced \cup {no} ELSE raced
                  /\ job' = IF o.err # "ok" THEN job
                            ELSE [job EXCEPT ![h] = Counting(r, no, o.store, <<z>>, CM!defaultStatus(st))]
    BY Zenon DEF ContractPosted
<1> DEFINE no == IF given = None THEN CM!nextContractNo(cache[r]) ELSE given
           in == [id |-> no, zone |-> z, sup |-> sup, status |-> st, report |-> 0]
<1>0. PICK o \in CM!CreateContract(db, cache[r], in) :
          /\ Commit(r, o, {})
          /\ job' = IF o.err # "ok" THEN job
                    ELSE [job EXCEPT ![h] = Counting(r, no, o.store, <<z>>, CM!defaultStatus(st))]
    BY <1>1
<1> HIDE DEF no, in
<1>2. job[h] = Idle /\ due' = due /\ DOMAIN job = Handlers /\ job = [job EXCEPT ![h] = job[h]]
    BY DEF ContractPosted, LiveTypes, JobsOK
<1>3. PICK x : x = IF o.err # "ok" THEN Idle
                   ELSE Counting(r, no, o.store, <<z>>, CM!defaultStatus(st))
    OBVIOUS
<1>4. job' = [job EXCEPT ![h] = x]
    BY <1>0, <1>2, <1>3
<1>5. \A q \in Replicas : ~Busy(h, q)
    BY <1>2 DEF Busy, Idle
<1>6. o.err # "ok" => o.store = cache[r]
    BY <1>0, ContractOutcomes
<1>7. /\ x = Idle \/ Work(x)
      /\ o.err = "ok" => x.at \in {"publish", "count"} /\ x.replica = r
      /\ o.err # "ok" => x.at # "seed"
    BY <1>3, CountingBusy, IdleAt
<1> QED
    BY <1>0, <1>2, <1>4, <1>5, <1>6, <1>7, ContractSpoken

\* The replica of a request that is under way, as it is for every step of it.
LEMMA OfReplica ==
    ASSUME LiveTypes, NEW h \in Handlers, job[h].at # "idle"
    PROVE  Work(job[h])
BY DEF LiveTypes, JobsOK, Idle

LEMMA PatchBeginsSpoken ==
    ASSUME LiveTypes, NEW r \in Replicas, NEW h \in Handlers, PatchBegins(h, r)
    PROVE  Kept
<1>1. PICK x : /\ job' = [job EXCEPT ![h] = x] /\ Work(x) /\ x.at # "seed"
    <2>1. PICK sess \in Sessions, c \in Range(cache[r].contracts), patch \in Patches :
              job' = [job EXCEPT ![h] = [at |-> "patch", replica |-> r, sess |-> sess, no |-> c.id,
                                         patch |-> patch, previous |-> c.status]]
        BY DEF PatchBegins
    <2>2. PICK x : x = [at |-> "patch", replica |-> r, sess |-> sess, no |-> c.id,
                        patch |-> patch, previous |-> c.status]
        OBVIOUS
    <2>3. Work(x) /\ x.at # "seed"
        BY <2>2 DEF Work
    <2> QED
        BY Zenon, <2>1, <2>2, <2>3
<1>2. job[h] = Idle /\ cache' = cache /\ upset' = upset /\ due' = due
    BY DEF PatchBegins
<1>3. \A q \in Replicas : ~Busy(h, q)
    BY <1>2 DEF Busy, Idle
<1>4. /\ DOMAIN cache' = Replicas /\ DOMAIN upset' = Replicas
      /\ due' \in [Replicas -> Nat] /\ \A q \in Replicas : due'[q] >= due[q]
      /\ \A q \in Replicas : cache'[q] = cache[q] /\ upset[q] \subseteq upset'[q]
    BY <1>2 DEF LiveTypes
<1> QED
    BY <1>1, <1>3, <1>4, JobSpoken

LEMMA PatchContractSpoken ==
    ASSUME LiveTypes, NEW h \in Handlers, job[h].replica \in Replicas, PatchContract(h)
    PROVE  Kept
<1> DEFINE r == job[h].replica
<1> DEFINE i == CM!Find(cache[r].contracts, job[h].no)
           old == cache[r].contracts[i].zone
           new == IF "zone" \in DOMAIN job[h].patch THEN job[h].patch.zone ELSE old
           zones == IF i = 0 THEN <<>> ELSE IF new = old THEN <<new>> ELSE <<old, new>>
           tell == Tell(job[h].patch, job[h].previous)
<1>1. PICK o \in CM!updateContract(db, cache[r], job[h].no, job[h].patch) :
          /\ Commit(r, o, {})
          /\ job' = [job EXCEPT ![h] = IF o.err # "ok" THEN Idle
                                       ELSE Counting(r, job[h].no, o.store, zones, tell)]
    BY Zenon DEF PatchContract
<1> HIDE DEF zones, tell
<1>2. PICK x : x = IF o.err # "ok" THEN Idle ELSE Counting(r, job[h].no, o.store, zones, tell)
    OBVIOUS
<1>3. job[h].at = "patch" /\ due' = due
    BY DEF PatchContract
<1>4. \A q \in Replicas : ~Busy(h, q)
    BY <1>3 DEF Busy
<1>5. o.err # "ok" => o.store = cache[r]
    BY <1>1, ContractOutcomes
<1>6. /\ x = Idle \/ Work(x)
      /\ o.err = "ok" => x.at \in {"publish", "count"} /\ x.replica = r
      /\ o.err # "ok" => x.at # "seed"
    BY <1>2, CountingBusy, IdleAt
<1>7. job' = [job EXCEPT ![h] = x]
    BY <1>1, <1>2
<1>8. Commit(r, o, {})
    BY <1>1
<1> QED
    BY <1>3, <1>4, <1>5, <1>6, <1>7, <1>8, ContractSpoken

LEMMA DeleteBeginsSpoken ==
    ASSUME LiveTypes, NEW r \in Replicas, NEW h \in Handlers, DeleteBegins(h, r)
    PROVE  Kept
<1>1. PICK x : /\ job' = [job EXCEPT ![h] = x] /\ Work(x) /\ x.at # "seed"
    <2>1. PICK no \in ContractNos :
              job' = [job EXCEPT ![h] = [at |-> "drop", replica |-> r, no |-> no,
                                         existing |-> CM!Find(cache[r].contracts, no) # 0]]
        BY DEF DeleteBegins
    <2>2. PICK x : x = [at |-> "drop", replica |-> r, no |-> no,
                        existing |-> CM!Find(cache[r].contracts, no) # 0]
        OBVIOUS
    <2>3. Work(x) /\ x.at # "seed"
        BY <2>2 DEF Work
    <2> QED
        BY Zenon, <2>1, <2>2, <2>3
<1>2. job[h] = Idle /\ cache' = cache /\ upset' = upset /\ due' = due
    BY DEF DeleteBegins
<1>3. \A q \in Replicas : ~Busy(h, q)
    BY <1>2 DEF Busy, Idle
<1>4. /\ DOMAIN cache' = Replicas /\ DOMAIN upset' = Replicas
      /\ due' \in [Replicas -> Nat] /\ \A q \in Replicas : due'[q] >= due[q]
      /\ \A q \in Replicas : cache'[q] = cache[q] /\ upset[q] \subseteq upset'[q]
    BY <1>2 DEF LiveTypes
<1> QED
    BY <1>1, <1>3, <1>4, JobSpoken

LEMMA DeleteContractSpoken ==
    ASSUME LiveTypes, NEW h \in Handlers, job[h].replica \in Replicas, DeleteContract(h)
    PROVE  Kept
<1> DEFINE r == job[h].replica
           i == CM!Find(cache[r].contracts, job[h].no)
           zones == IF i = 0 THEN <<>> ELSE <<cache[r].contracts[i].zone>>
           tell == IF job[h].existing THEN "gone" ELSE None
<1>1. PICK o \in CM!deleteContract(db, cache[r], job[h].no) :
          /\ Commit(r, o, {})
          /\ job' = [job EXCEPT ![h] = IF o.err # "ok" THEN Idle
                                       ELSE Counting(r, job[h].no, o.store, zones, tell)]
    BY Zenon DEF DeleteContract
<1> HIDE DEF zones, tell
<1>2. PICK x : x = IF o.err # "ok" THEN Idle ELSE Counting(r, job[h].no, o.store, zones, tell)
    OBVIOUS
<1>3. job[h].at = "drop" /\ due' = due
    BY DEF DeleteContract
<1>4. \A q \in Replicas : ~Busy(h, q)
    BY <1>3 DEF Busy
<1>5. o.err # "ok" => o.store = cache[r]
    BY <1>1, ContractOutcomes
<1>6. /\ x = Idle \/ Work(x)
      /\ o.err = "ok" => x.at \in {"publish", "count"} /\ x.replica = r
      /\ o.err # "ok" => x.at # "seed"
    BY <1>2, CountingBusy, IdleAt
<1>7. job' = [job EXCEPT ![h] = x]
    BY <1>1, <1>2
<1>8. Commit(r, o, {})
    BY <1>1
<1> QED
    BY <1>3, <1>4, <1>5, <1>6, <1>7, <1>8, ContractSpoken

LEMMA CountSpoken ==
    ASSUME LiveTypes, NEW h \in Handlers, job[h].replica \in Replicas, CountZone(h)
    PROVE  Kept
<1>0. PICK r \in Replicas : r = job[h].replica
    OBVIOUS
<1> DEFINE x == [job[h] EXCEPT !.zones = Tail(@),
                               !.at = IF Len(job[h].zones) = 1 THEN "publish" ELSE "count"]
<1>1. PICK z, o : o \in CM!persistZoneCount(db, cache[r], z) /\ Commit(r, o, {})
    BY <1>0 DEF CountZone
<1>2. job[h].at = "count" /\ due' = due /\ job' = [job EXCEPT ![h] = x]
    <2>1. /\ job[h].at = "count" /\ due' = due
          /\ job' = [job EXCEPT ![h].zones = Tail(@),
                                ![h].at = IF Len(job[h].zones) = 1 THEN "publish" ELSE "count"]
        BY DEF CountZone
    <2>2. DOMAIN job = Handlers
        BY DEF LiveTypes, JobsOK
    <2>3. \A a, b : [job EXCEPT ![h].zones = a, ![h].at = b]
                       = [job EXCEPT ![h] = [job[h] EXCEPT !.zones = a, !.at = b]]
        BY <2>2
    <2> QED
        BY <2>1, <2>3
<1>3. Work(job[h])
    BY <1>2, OfReplica
<1>4. x.at \in {"publish", "count"} /\ x.replica = r /\ Work(x)
    BY <1>0, <1>3 DEF Work
<1>5. job'[h] = x
    BY <1>2, <1>4, OneJob DEF LiveTypes
<1>6. Busy(h, r)'
    BY <1>4, <1>5 DEF Busy
<1>7. \A q \in Replicas : Busy(h, q) => q = r
    BY <1>0 DEF Busy
<1>8. /\ DOMAIN cache' = Replicas /\ DOMAIN upset' = Replicas
      /\ \A q \in Replicas : q # r => cache'[q] = cache[q] /\ upset[q] \subseteq upset'[q]
    BY <1>1, Committed
<1>9. due' \in [Replicas -> Nat] /\ \A q \in Replicas : due'[q] >= due[q]
    BY <1>2 DEF LiveTypes
<1> HIDE DEF x
<1> QED
    BY <1>2, <1>4, <1>6, <1>7, <1>8, <1>9, JobSpoken

LEMMA PublishSpoken ==
    ASSUME LiveTypes, Realtime, NEW h \in Handlers, job[h].replica \in Replicas,
           job[h].at \in {"publish", "ring"}, job' = [job EXCEPT ![h] = Idle],
           GinBroadcastWorkspace(job[h].replica, TRUE),
           DOMAIN cache' = Replicas, DOMAIN upset' = Replicas,
           \A q \in Replicas : q # job[h].replica =>
               cache'[q] = cache[q] /\ upset[q] \subseteq upset'[q]
    PROVE  Kept
<1>1. /\ due' \in [Replicas -> Nat] /\ due'[job[h].replica] > 0
      /\ \A q \in Replicas : due'[q] >= due[q]
    BY Announcement
<1>2. \A q \in Replicas : Busy(h, q) => q = job[h].replica
    BY DEF Busy
<1> QED
    BY <1>1, <1>2, IdleAt, JobSpoken

LEMMA BulkSpoken ==
    ASSUME LiveTypes, NEW r \in Replicas, NEW h \in Handlers, PutWorkspace(h, r)
    PROVE  Kept
<1>1. PICK s : Replaced(h, r, s, WorkspaceHalf)
    BY DEF PutWorkspace
<1> DEFINE mine == [at |-> "save", replica |-> r, copy |-> s, of |-> WorkspaceHalf,
                    shared |-> Shared]
<1>2. /\ cache' = [cache EXCEPT ![r] = s] /\ due' = due
      /\ job' = [Unshared(r, WorkspaceHalf) EXCEPT ![h] = mine]
      /\ upset' = IF Saving(r) THEN [upset EXCEPT ![r] = @ \cup {"overlap"}] ELSE upset
    BY <1>1 DEF Replaced
<1>3. /\ DOMAIN cache' = Replicas /\ DOMAIN upset' = Replicas
      /\ \A q \in Replicas : q # r => cache'[q] = cache[q] /\ upset[q] \subseteq upset'[q]
      /\ \A q \in Replicas : due[q] \in Nat /\ due'[q] \in Nat /\ due'[q] >= due[q]
      /\ due' \in [Replicas -> Nat]
    BY <1>2 DEF LiveTypes
<1>4. \A g \in Handlers :
          g # h => \/ job'[g] = job[g]
                   \/ job[g].at = "save" /\ job'[g] = [job[g] EXCEPT !.shared = @ \ WorkspaceHalf]
    BY <1>2 DEF Unshared
<1>5. job'[h] = mine /\ job' = [g \in Handlers |-> job'[g]]
    BY <1>2 DEF Unshared
<1>6. \A g \in Handlers : Work(job[g]) \/ job[g] = Idle
    BY DEF LiveTypes, JobsOK
<1>7. \A g \in Handlers : g # h =>
          \/ job'[g] = job[g]
          \/ /\ Work(job'[g])
             /\ job'[g].at = job[g].at /\ job'[g].replica = job[g].replica
    <2> SUFFICES ASSUME NEW g \in Handlers, g # h, job'[g] # job[g]
                 PROVE  /\ Work(job'[g])
                        /\ job'[g].at = job[g].at /\ job'[g].replica = job[g].replica
        OBVIOUS
    <2>1. job[g].at = "save" /\ job'[g] = [job[g] EXCEPT !.shared = @ \ WorkspaceHalf]
        BY <1>4
    <2>2. Work(job[g])
        BY <1>6, <2>1 DEF Idle
    <2>3. /\ DOMAIN job'[g] = DOMAIN job[g]
          /\ job'[g].at = job[g].at /\ job'[g].replica = job[g].replica
        BY <2>1, <2>2 DEF Work
    <2> QED
        BY <2>2, <2>3 DEF Work
<1>8. JobsOK'
    <2>1. Work(mine)
        BY DEF Work
    <2> QED
        BY <1>5, <1>6, <1>7, <2>1 DEF JobsOK
<1>9. Busy(h, r)'
    <2>1. mine.at = "save" /\ mine.replica = r
        OBVIOUS
    <2> QED
        BY <1>5, <2>1 DEF Busy
<1>10. job[h] = Idle
    BY <1>1 DEF Replaced
<1>11. \A q \in Replicas, g \in Handlers : Busy(g, q) => g # h /\ Busy(g, q)'
    BY <1>7, <1>10 DEF Busy, Idle
<1>12. ASSUME NEW q \in Replicas
       PROVE  Spoken(q)
    <2>1. CASE q = r
        BY <1>9, <2>1 DEF Spoken, Pending
    <2>2. CASE q # r
        BY <1>3, <1>11, <2>2, Untouched
    <2> QED
        BY <2>1, <2>2
<1>13. NoStart
    <2>1. ASSUME NEW g \in Handlers, job'[g].at = "seed"
          PROVE  job'[g] = job[g]
        <3>1. g # h
            BY <1>5, <2>1
        <3>2. ~(job[g].at = "save" /\ job'[g].at = job[g].at)
            BY <2>1
        <3> QED
            BY <1>4, <1>7, <2>1, <3>1, <3>2
    <2> QED
        BY <2>1 DEF NoStart
<1> QED
    BY <1>3, <1>8, <1>12, <1>13 DEF Kept, ServiceTypes

LEMMA SaveSpoken ==
    ASSUME LiveTypes, NEW h \in Handlers, job[h].replica \in Replicas, SaveSnapshot(h)
    PROVE  Kept
<1>1. PICK r \in Replicas : r = job[h].replica
    OBVIOUS
<1> DEFINE here == job[h].replica
           lacking == upset[here] \cap {"foreign", "lost", "load", "overlap"}
           recounted == job[h].of = WorkspaceHalf
<1>0. PICK o \in CM!bulkSaved(db, job[h].copy, cache[here], job[h].shared) :
         /\ db' = o.db
         /\ upset' = [q \in Replicas |->
                        IF q # here THEN (IF o.db # db THEN upset[q] \cup {"foreign"} ELSE upset[q])
                        ELSE IF o.err # "ok" THEN upset[here] \cup {"ahead"}
                        ELSE (upset[here] \cap {"overlap"}) \cup {"bulk"}]
         /\ spilled' = (spilled \/ (o.db # db /\ lacking # {}))
         /\ miscounted' = IF o.db = db THEN miscounted
                          ELSE IF upset[here] \cap (IF recounted THEN {"overlap"}
                                  ELSE {"foreign", "lost", "ahead", "overlap", "load"}) # {}
                          THEN DOMAIN o.db.zones
                          ELSE IF recounted THEN {} ELSE miscounted
         /\ acked' = IF o.db = db THEN acked ELSE {x \in acked : x[1] # "projects"}
         /\ job' = [job EXCEPT ![h] = IF o.err = "ok" THEN [at |-> "record", replica |-> here]
                                      ELSE Idle]
    BY Zenon DEF SaveSnapshot
<1>2. /\ upset' = [q \in Replicas |->
                        IF q # r THEN (IF o.db # db THEN upset[q] \cup {"foreign"} ELSE upset[q])
                        ELSE IF o.err # "ok" THEN upset[r] \cup {"ahead"}
                        ELSE (upset[r] \cap {"overlap"}) \cup {"bulk"}]
      /\ job' = [job EXCEPT ![h] = IF o.err = "ok" THEN [at |-> "record", replica |-> r] ELSE Idle]
    BY <1>0, <1>1
<1>3. cache' = cache /\ due' = due
    BY DEF SaveSnapshot
<1>4. PICK x : x = IF o.err = "ok" THEN [at |-> "record", replica |-> r] ELSE Idle
    OBVIOUS
<1>5. /\ job' = [job EXCEPT ![h] = x]
      /\ x = Idle \/ Work(x)
      /\ x.at # "seed"
      /\ o.err = "ok" => x.at = "record" /\ x.replica = r
    BY <1>2, <1>4, IdleAt DEF Work
<1>6. job'[h] = x
    BY <1>5, OneJob DEF LiveTypes
<1>7. Busy(h, r)' \/ "ahead" \in upset'[r]
    BY <1>2, <1>5, <1>6 DEF Busy
<1>8. /\ DOMAIN cache' = Replicas /\ DOMAIN upset' = Replicas
      /\ \A q \in Replicas : q # r => cache'[q] = cache[q] /\ upset[q] \subseteq upset'[q]
      /\ due' \in [Replicas -> Nat] /\ \A q \in Replicas : due'[q] >= due[q]
    BY <1>2, <1>3 DEF LiveTypes
<1>9. \A q \in Replicas : Busy(h, q) => q = r
    BY <1>1 DEF Busy
<1> QED
    BY <1>5, <1>7, <1>8, <1>9, JobSpoken

LEMMA RecordSpoken ==
    ASSUME LiveTypes, NEW h \in Handlers, job[h].replica \in Replicas, RecordBulkReplace(h)
    PROVE  Kept
<1>1. PICK r \in Replicas : r = job[h].replica
    OBVIOUS
<1>2. PICK o, excuse, x :
          /\ Commit(r, o, excuse) /\ job' = [job EXCEPT ![h] = x]
          /\ x = [at |-> "ring", replica |-> r, entry |-> NextEntry]
    BY <1>1 DEF RecordBulkReplace, StoreEntry
<1>3. x.at = "ring" /\ x.replica = r /\ Work(x)
    BY <1>2 DEF Work
<1>4. job'[h] = x
    BY <1>2, <1>3, OneJob DEF LiveTypes
<1>5. Busy(h, r)'
    BY <1>3, <1>4 DEF Busy
<1>6. /\ DOMAIN cache' = Replicas /\ DOMAIN upset' = Replicas
      /\ \A q \in Replicas : q # r => cache'[q] = cache[q] /\ upset[q] \subseteq upset'[q]
    BY <1>2, Committed
<1>7. due' \in [Replicas -> Nat] /\ \A q \in Replicas : due'[q] >= due[q]
    BY DEF RecordBulkReplace, LiveTypes
<1>8. \A q \in Replicas : Busy(h, q) => q = r
    BY <1>1 DEF Busy
<1> QED
    BY <1>2, <1>3, <1>5, <1>6, <1>7, <1>8, JobSpoken

LEMMA RingSpoken ==
    ASSUME LiveTypes, Realtime, NEW h \in Handlers, AuditRing(h)
    PROVE  Kept
<1>1. job[h].replica \in Replicas
    BY DEF AuditRing, LiveTypes, JobsOK, Idle, Work
<1>2. PICK r \in Replicas : r = job[h].replica
    BY <1>1
<1>3. /\ job[h].at = "ring" /\ job' = [job EXCEPT ![h] = Idle]
      /\ GinBroadcastWorkspace(job[h].replica, TRUE)
      /\ cache' = [cache EXCEPT ![r] = CM!auditRing(@, job[h].entry)]
      /\ upset' = upset \/ upset' = [upset EXCEPT ![r] = @ \cup {"late"}]
    BY <1>2 DEF AuditRing
<1>4. /\ DOMAIN cache' = Replicas /\ DOMAIN upset' = Replicas
      /\ \A q \in Replicas : q # r => cache'[q] = cache[q] /\ upset[q] \subseteq upset'[q]
    BY <1>3 DEF LiveTypes
<1> QED
    BY <1>1, <1>2, <1>3, <1>4, PublishSpoken

\* Every step of the service, as the hub sees it.
ServiceStep ==
    \/ ContractNext
    \/ \E h \in Handlers, r \in Replicas : PutWorkspace(h, r)
    \/ \E h \in Handlers : SaveSnapshot(h) \/ RecordBulkReplace(h) \/ AuditRing(h)

LEMMA ServiceSpoken ==
    ASSUME LiveTypes, Realtime, ServiceStep
    PROVE  Kept
<1>1. \A h \in Handlers : job[h].at # "idle" => job[h].replica \in Replicas
    BY DEF LiveTypes, JobsOK, Idle, Work
<1>2. CASE \E r \in Replicas : ZoneRequests(r)
    BY <1>2, ZonesSpoken
<1>3. ASSUME NEW h \in Handlers, NEW r \in Replicas,
             ContractPosted(h, r) \/ PatchBegins(h, r) \/ DeleteBegins(h, r) \/ PutWorkspace(h, r)
      PROVE  Kept
    BY <1>3, PostedSpoken, PatchBeginsSpoken, DeleteBeginsSpoken, BulkSpoken
<1>4. ASSUME NEW h \in Handlers, PatchContract(h)
      PROVE  Kept
    BY <1>1, <1>4, PatchContractSpoken DEF PatchContract
<1>10. ASSUME NEW h \in Handlers, DeleteContract(h)
       PROVE  Kept
    BY <1>1, <1>10, DeleteContractSpoken DEF DeleteContract
<1>5. ASSUME NEW h \in Handlers, CountZone(h)
      PROVE  Kept
    BY <1>1, <1>5, CountSpoken DEF CountZone
<1>6. ASSUME NEW h \in Handlers, PublishContract(h)
      PROVE  Kept
    <2>1. /\ job[h].at = "publish" /\ job' = [job EXCEPT ![h] = Idle]
          /\ GinBroadcastWorkspace(job[h].replica, TRUE)
          /\ cache' = cache /\ upset' = upset
        BY <1>6 DEF PublishContract
    <2>2. job[h].replica \in Replicas
        BY <1>1, <2>1
    <2>3. DOMAIN cache' = Replicas /\ DOMAIN upset' = Replicas
        BY <2>1 DEF LiveTypes
    <2> QED
        BY <2>1, <2>2, <2>3, PublishSpoken
<1>7. ASSUME NEW h \in Handlers, SaveSnapshot(h)
      PROVE  Kept
    BY <1>1, <1>7, SaveSpoken DEF SaveSnapshot
<1>8. ASSUME NEW h \in Handlers, RecordBulkReplace(h)
      PROVE  Kept
    BY <1>1, <1>8, RecordSpoken DEF RecordBulkReplace
<1>9. ASSUME NEW h \in Handlers, AuditRing(h)
      PROVE  Kept
    BY <1>9, RingSpoken
<1> QED
    BY <1>2, <1>3, <1>4, <1>5, <1>6, <1>7, <1>8, <1>9, <1>10 DEF ServiceStep, ContractNext

-----------------------------------------------------------------------------
(* The steps of the hub.                                                    *)

\* A connection that is connected, in its parts.
LEMMA ConnectionParts ==
    ASSUME LiveTypes, NEW k \in Clients, Connected(k)
    PROVE  /\ Connection(client[k])
           /\ client[k].at \in {"joined", "first", "on"} /\ client[k].replica \in Replicas
           /\ client[k].first \in Nat /\ client[k].top \in Nat \cup {-1}
<1>1. Connection(client[k])
    BY DEF LiveTypes, Connected
<1>2. PICK x : client[k] \in [at : {"joined", "first", "on"}, replica : Replicas,
                              sess : Sessions, first : Nat, top : Nat \cup {-1}, shows : {x}]
    BY <1>1 DEF Connection
<1> QED
    BY <1>1, <1>2

\* A connection as it stays, or a little changed.
LEMMA ConnectionIsNeither ==
    ASSUME NEW c, Connection(c)
    PROVE  c \notin {Offline, Gone}
<1>1. c.at \in {"joined", "first", "on"}
    BY DEF Connection
<1> QED
    BY <1>1 DEF Offline, Gone

\* A broadcast under way, in its parts.
LEMMA CastParts ==
    ASSUME LiveTypes, NEW w \in Workers
    PROVE  /\ cast[w] \in Casting \cup {NoCast}
           /\ cast[w] # NoCast => cast[w] \in Casting
           /\ cast[w].at \in {"begun", "numbered", "sending"} => cast[w] # NoCast
           /\ cast[w] # NoCast => cast[w].at \in {"begun", "numbered", "sending"}
BY DEF LiveTypes, NoCast, Casting

\* What a connection shows does not age while the store stands still.
LEMMA CurrentStays ==
    ASSUME NEW k \in Clients, NEW r, client[k].replica = r,
           client'[k] = client[k], cache'[r] = cache[r], Current(k)
    PROVE  Current(k)'
<1>1. PICK s : s = client[k].sess
    OBVIOUS
<1>2. View(r, s)' = View(r, s)
    BY DEF View, CM!FilterWorkspace
<1> QED
    BY <1>1, <1>2 DEF Current

\* A step of the service keeps k up to date if it is spoken of on its replica.
LEMMA SpokenUpToDate ==
    ASSUME LiveTypes, UNCHANGED live, NEW k \in Clients, UpToDate(k),
           Connected(k) => Spoken(client[k].replica)
    PROVE  UpToDate(k)'
<1>1. client' = client /\ nudged' = nudged /\ cast' = cast
    BY DEF live
<1> SUFFICES ASSUME Connected(k), client[k].top >= 0, "ahead" \notin upset'[client[k].replica]
             PROVE  Current(k)' \/ OnItsWay(k)'
    BY <1>1 DEF UpToDate, Connected
<1>2. PICK r \in Replicas : r = client[k].replica
    BY ConnectionParts
<1>3. Spoken(r)
    BY <1>2
<1>4. CASE Pending(r)'
    BY <1>1, <1>2, <1>4 DEF OnItsWay
<1>5. CASE cache'[r] = cache[r] /\ ~Pending(r) /\ "ahead" \notin upset[r]
    <2>1. CASE Current(k)
        BY <1>1, <1>2, <1>5, <2>1, CurrentStays
    <2>2. CASE OnItsWay(k)
        BY <1>1, <1>2, <1>5, <2>2 DEF OnItsWay, Coming
    <2> QED
        BY <1>2, <1>5, <2>1, <2>2 DEF UpToDate
<1> QED
    BY <1>2, <1>3, <1>4, <1>5 DEF Spoken

LEMMA ServiceUpToDate ==
    ASSUME LiveTypes, Realtime, ServiceStep, UNCHANGED live,
           NEW k \in Clients, UpToDate(k)
    PROVE  UpToDate(k)'
<1>1. Connected(k) => client[k].replica \in Replicas
    BY ConnectionParts
<1> QED
    BY <1>1, ServiceSpoken, SpokenUpToDate DEF Kept

LEMMA ServicePush ==
    ASSUME PushInv, Realtime, ServiceStep, UNCHANGED live
    PROVE  PushInv'
<1>1. LiveTypes' /\ VersionsOK'
    BY ServiceSpoken
    DEF PushInv, Kept, ServiceTypes, LiveTypes, VersionsOK, Connected, live
<1> QED
    BY <1>1, ServiceUpToDate DEF PushInv

\* A start that seeds the tables moves the store of a replica without connections.
LEMMA SeedPush ==
    ASSUME PushInv, Opened, NEW h \in Handlers, SeedWorkspace(h), UNCHANGED live
    PROVE  PushInv'
<1>1. LiveTypes
    BY DEF PushInv
<1>2. PICK r : r = job[h].replica
    OBVIOUS
<1>3. /\ job[h].at = "seed" /\ job' = [job EXCEPT ![h] = Idle] /\ due' = due
      /\ \E o \in CM!Seeded(db) :
            /\ cache' = [cache EXCEPT ![r] = o.store]
            /\ upset' = [q \in Replicas |->
                  IF q # r THEN (IF o.db # db THEN upset[q] \cup {"foreign"} ELSE upset[q])
                  ELSE IF o.store = CM!Repo!LoadState(o.db) THEN {} ELSE {"load"}]
    <2>1. PICK o \in CM!Seeded(db) :
              /\ cache' = [cache EXCEPT ![job[h].replica] = o.store]
              /\ upset' = [q \in Replicas |->
                    IF q # job[h].replica
                    THEN (IF o.db # db THEN upset[q] \cup {"foreign"} ELSE upset[q])
                    ELSE IF o.store = CM!Repo!LoadState(o.db) THEN {} ELSE {"load"}]
        BY DEF SeedWorkspace
    <2>2. job[h].at = "seed" /\ job' = [job EXCEPT ![h] = Idle] /\ due' = due
        BY DEF SeedWorkspace
    <2> QED
        BY Zenon, <1>2, <2>1, <2>2
<1>4. /\ DOMAIN cache' = Replicas /\ DOMAIN upset' = Replicas
      /\ \A q \in Replicas : q # r => cache'[q] = cache[q] /\ upset[q] \subseteq upset'[q]
    BY <1>1, <1>3 DEF LiveTypes
<1>5. /\ JobsOK' /\ job'[h] = Idle
      /\ \A g \in Handlers \ {h} : job'[g] = job[g]
    BY <1>1, <1>3, OneJob DEF LiveTypes
<1>6. ASSUME NEW q \in Replicas, q # r
      PROVE  Spoken(q)
    <2>1. \A g \in Handlers : Busy(g, q) => Busy(g, q)'
        BY <1>3, <1>5 DEF Busy
    <2>2. due[q] \in Nat /\ due'[q] = due[q]
        BY <1>1, <1>3 DEF LiveTypes
    <2> QED
        BY <1>4, <1>6, <2>1, <2>2, Untouched
<1>7. LiveTypes' /\ VersionsOK'
    BY <1>1, <1>3, <1>4, <1>5 DEF PushInv, LiveTypes, VersionsOK, Connected, live
<1>8. ASSUME NEW k \in Clients
      PROVE  UpToDate(k)'
    <2>1. Connected(k) => client[k].replica \in Replicas /\ client[k].replica # r
        BY <1>1, <1>2, <1>3, ConnectionParts DEF Opened
    <2>2. Connected(k) => Spoken(client[k].replica)
        BY <1>6, <2>1
    <2> QED
        BY <1>1, <2>2, SpokenUpToDate DEF PushInv
<1> QED
    BY <1>7, <1>8 DEF PushInv

\* A hub step that moves neither store nor connection of k keeps k up to date if what
\* was on its way still is.
LEMMA StillUpToDate ==
    ASSUME LiveTypes, NEW k \in Clients, UpToDate(k), client'[k] = client[k],
           Connected(k) =>
               /\ cache'[client[k].replica] = cache[client[k].replica]
               /\ upset'[client[k].replica] = upset[client[k].replica]
               /\ OnItsWay(k) => OnItsWay(k)'
    PROVE  UpToDate(k)'
<1> SUFFICES ASSUME Connected(k), client[k].top >= 0, "ahead" \notin upset'[client[k].replica]
             PROVE  Current(k)' \/ OnItsWay(k)'
    BY DEF UpToDate, Connected
<1>1. PICK r \in Replicas : r = client[k].replica
    BY ConnectionParts
<1>2. cache'[r] = cache[r] /\ upset'[r] = upset[r]
    BY <1>1
<1> QED
    BY <1>1, <1>2, CurrentStays DEF UpToDate

\* A step of one connection, which becomes c.
LEMMA ClientPush ==
    ASSUME PushInv, NEW j \in Clients, NEW c,
           client' = [client EXCEPT ![j] = c],
           UNCHANGED <<vars, bridged, version, cast, nudged>>,
           \/ c = Gone
           \/ /\ Connection(c)
              /\ c.top <= version[c.replica] /\ c.first <= version[c.replica]
              /\ c.at = "on" => c.top >= 0
              /\ c.top >= 0 /\ "ahead" \notin upset[c.replica] =>
                    \/ c.shows = View(c.replica, c.sess)
                    \/ /\ c.replica = client[j].replica /\ c.top = client[j].top
                       /\ OnItsWay(j)
    PROVE  PushInv'
<1>1. /\ cache' = cache /\ job' = job /\ due' = due /\ upset' = upset
      /\ version' = version /\ cast' = cast /\ nudged' = nudged
    BY DEF vars
<1>2. client'[j] = c /\ \A k \in Clients \ {j} : client'[k] = client[k]
    BY DEF PushInv, LiveTypes
<1>3. Connection(c)' <=> Connection(c)
    BY DEF Connection
<1>4. LiveTypes'
    <2>1. \A k \in Clients : client'[k] \in {Offline, Gone} \/ Connection(client'[k])
        BY <1>2 DEF PushInv, LiveTypes
    <2>2. (DOMAIN client)' = Clients
        BY DEF PushInv, LiveTypes
    <2>3. \A k \in Clients : Connection(client[k])' <=> Connection(client'[k])
        BY DEF Connection
    <2> QED
        BY <1>1, <2>1, <2>2, <2>3 DEF PushInv, LiveTypes, JobsOK, Work
<1>5. VersionsOK'
    <2>1. \A w \in Workers : cast'[w] # NoCast => cast'[w].v <= version'[cast'[w].replica]
        BY <1>1 DEF PushInv, VersionsOK
    <2>2. ASSUME NEW k \in Clients, client'[k] \notin {Offline, Gone}
          PROVE  /\ client'[k].top <= version'[client'[k].replica]
                 /\ client'[k].first <= version'[client'[k].replica]
                 /\ client'[k].at = "on" => client'[k].top >= 0
        BY <1>1, <1>2, <2>2 DEF PushInv, VersionsOK, Connected
    <2> QED
        BY <2>1, <2>2 DEF VersionsOK, Connected
<1>6. ASSUME NEW k \in Clients, k # j
      PROVE  UpToDate(k)'
    <2>1. OnItsWay(k) => OnItsWay(k)'
        BY <1>1, <1>2, <1>6 DEF OnItsWay, Pending, Busy, Coming
    <2>2. UpToDate(k) /\ LiveTypes
        BY DEF PushInv
    <2> QED
        BY <1>1, <1>2, <1>6, <2>1, <2>2, StillUpToDate
<1>7. UpToDate(j)'
    <2> SUFFICES ASSUME c \notin {Offline, Gone}, c.top >= 0, "ahead" \notin upset[c.replica]
                 PROVE  Current(j)' \/ OnItsWay(j)'
        BY <1>1, <1>2 DEF UpToDate, Connected
    <2>1. CASE c.shows = View(c.replica, c.sess)
        <3>1. View(c.replica, c.sess)' = View(c.replica, c.sess)
            BY <1>1 DEF View, CM!FilterWorkspace
        <3> QED
            BY <1>2, <2>1, <3>1 DEF Current
    <2>2. CASE c.replica = client[j].replica /\ c.top = client[j].top /\ OnItsWay(j)
        <3>1. PICK r : r = c.replica
            OBVIOUS
        <3>2. client'[j].replica = r /\ client[j].replica = r /\ client'[j].top = client[j].top
            BY <1>2, <2>2, <3>1
        <3> QED
            BY <1>1, <2>2, <3>2 DEF OnItsWay, Pending, Busy, Coming
    <2> QED
        BY <2>1, <2>2
<1> QED
    BY <1>4, <1>5, <1>6, <1>7 DEF PushInv

\* A connection that takes a push.
LEMMA ReceivedParts ==
    ASSUME NEW c, Connection(c), NEW v \in Nat
    PROVE  LET d == Received(c, v) IN
           /\ Connection(d)
           /\ d.at = c.at /\ d.replica = c.replica /\ d.sess = c.sess /\ d.first = c.first
           /\ v >= c.top => d.top = v /\ d.shows = View(c.replica, c.sess)
           /\ ~(v >= c.top) => d = c
<1>1. PICK x : c \in [at : {"joined", "first", "on"}, replica : Replicas, sess : Sessions,
                      first : Nat, top : Nat \cup {-1}, shows : {x}]
    BY DEF Connection
<1>2. PICK y : y = View(c.replica, c.sess)
    OBVIOUS
<1>3. CASE v >= c.top
    <2>1. PICK d : d = [c EXCEPT !.top = v, !.shows = y]
        OBVIOUS
    <2>2. d = Received(c, v)
        BY <1>2, <1>3, <2>1 DEF Received
    <2>3. /\ d \in [at : {"joined", "first", "on"}, replica : Replicas, sess : Sessions,
                    first : Nat, top : Nat \cup {-1}, shows : {y}]
          /\ d.at = c.at /\ d.replica = c.replica /\ d.sess = c.sess /\ d.first = c.first
          /\ d.top = v /\ d.shows = y
        BY <1>1, <2>1
    <2>4. Connection(d)
        BY <2>3 DEF Connection
    <2> QED
        BY <1>2, <1>3, <2>2, <2>3, <2>4
<1>4. CASE ~(v >= c.top)
    BY <1>4 DEF Received
<1> QED
    BY <1>3, <1>4

LEMMA ServePush ==
    ASSUME PushInv, NEW j \in Clients, NEW r \in Replicas, ServeWS(j, r)
    PROVE  PushInv'
<1>1. PICK sess \in Sessions :
          client' = [client EXCEPT ![j] = [at |-> "joined", replica |-> r, sess |-> sess,
                                           first |-> 0, top |-> -1, shows |-> None]]
    BY DEF ServeWS
<1>2. PICK c : c = [at |-> "joined", replica |-> r, sess |-> sess,
                    first |-> 0, top |-> -1, shows |-> None]
    OBVIOUS
<1>3. /\ c \in [at : {"joined", "first", "on"}, replica : Replicas, sess : Sessions,
                first : Nat, top : Nat \cup {-1}, shows : {None}]
      /\ c.top = -1 /\ c.first = 0 /\ c.replica = r /\ c.at = "joined"
    BY <1>2
<1>4. Connection(c)
    BY <1>3 DEF Connection
<1>5. version[r] \in Nat
    BY DEF PushInv, LiveTypes
<1>6. UNCHANGED <<vars, bridged, version, cast, nudged>>
    BY DEF ServeWS
<1>7. client' = [client EXCEPT ![j] = c]
    BY <1>1, <1>2
<1>8. c.top <= version[c.replica] /\ c.first <= version[c.replica] /\ ~(c.top >= 0)
    BY <1>3, <1>5
<1> QED
    BY <1>3, <1>4, <1>6, <1>7, <1>8, ClientPush

LEMMA LoadPush ==
    ASSUME PushInv, NEW j \in Clients, LoadVersion(j)
    PROVE  PushInv'
<1>1. LiveTypes /\ VersionsOK /\ UpToDate(j) /\ DOMAIN client = Clients
    BY DEF PushInv, LiveTypes
<1>2. client[j].at = "joined" /\ UNCHANGED <<vars, bridged, version, cast, nudged>>
    BY DEF LoadVersion
<1>3. Connected(j)
    BY <1>2 DEF Connected, Offline, Gone
<1>4. PICK x : client[j] \in [at : {"joined", "first", "on"}, replica : Replicas,
                              sess : Sessions, first : Nat, top : Nat \cup {-1}, shows : {x}]
    BY <1>1, <1>3, ConnectionParts DEF Connection
<1>5. PICK n \in Nat : n = version[client[j].replica]
    BY <1>1, <1>4 DEF LiveTypes
<1>6. PICK c : c = [client[j] EXCEPT !.at = "first", !.first = n]
    OBVIOUS
<1>7. client' = [client EXCEPT ![j] = c]
    <2>1. client' = [client EXCEPT ![j].at = "first", ![j].first = n]
        BY <1>5 DEF LoadVersion
    <2> QED
        BY <1>1, <1>6, <2>1
<1>8. /\ c \in [at : {"joined", "first", "on"}, replica : Replicas, sess : Sessions,
                first : Nat, top : Nat \cup {-1}, shows : {x}]
      /\ c.at = "first" /\ c.first = n /\ c.replica = client[j].replica
      /\ c.sess = client[j].sess /\ c.top = client[j].top /\ c.shows = client[j].shows
    BY <1>4, <1>6
<1>9. Connection(c)
    BY <1>8 DEF Connection
<1>10. c.top <= version[c.replica] /\ c.first <= version[c.replica]
    BY <1>1, <1>3, <1>5, <1>8 DEF VersionsOK
<1>11. c.top >= 0 /\ "ahead" \notin upset[c.replica] =>
           c.shows = View(c.replica, c.sess) \/ OnItsWay(j)
    BY <1>1, <1>3, <1>8 DEF UpToDate, Current
<1> QED
    BY <1>2, <1>7, <1>8, <1>9, <1>10, <1>11, ClientPush

LEMMA FirstPush ==
    ASSUME PushInv, NEW j \in Clients, FirstSnapshot(j)
    PROVE  PushInv'
<1>1. LiveTypes /\ VersionsOK /\ UpToDate(j) /\ DOMAIN client = Clients
    BY DEF PushInv, LiveTypes
<1>2. client[j].at = "first" /\ UNCHANGED <<vars, bridged, version, cast, nudged>>
    BY DEF FirstSnapshot
<1>3. Connected(j)
    BY <1>2 DEF Connected, Offline, Gone
<1>4. /\ Connection(client[j]) /\ client[j].first \in Nat /\ client[j].top \in Nat \cup {-1}
      /\ client[j].replica \in Replicas
    BY <1>1, <1>3, ConnectionParts
<1>5. PICK d : d = Received(client[j], client[j].first)
    OBVIOUS
<1>6. /\ Connection(d) /\ d.replica = client[j].replica /\ d.sess = client[j].sess
      /\ d.first = client[j].first
      /\ client[j].first >= client[j].top =>
            d.top = client[j].first /\ d.shows = View(client[j].replica, client[j].sess)
      /\ ~(client[j].first >= client[j].top) => d = client[j]
    BY <1>4, <1>5, ReceivedParts
<1>7. PICK c : c = [d EXCEPT !.at = "on"]
    OBVIOUS
<1>8. /\ Connection(c)
      /\ c.at = "on" /\ c.replica = d.replica /\ c.sess = d.sess /\ c.first = d.first
      /\ c.top = d.top /\ c.shows = d.shows
    <2>1. PICK x : d \in [at : {"joined", "first", "on"}, replica : Replicas, sess : Sessions,
                          first : Nat, top : Nat \cup {-1}, shows : {x}]
        BY <1>6 DEF Connection
    <2>2. /\ c \in [at : {"joined", "first", "on"}, replica : Replicas, sess : Sessions,
                    first : Nat, top : Nat \cup {-1}, shows : {x}]
          /\ c.at = "on" /\ c.replica = d.replica /\ c.sess = d.sess /\ c.first = d.first
          /\ c.top = d.top /\ c.shows = d.shows
        BY <1>7, <2>1
    <2> QED
        BY <2>2 DEF Connection
<1>9. client' = [client EXCEPT ![j] = c]
    BY <1>5, <1>7 DEF FirstSnapshot
<1>10. c.top <= version[c.replica] /\ c.first <= version[c.replica]
    BY <1>1, <1>3, <1>6, <1>8 DEF VersionsOK
<1>11. c.top >= 0
    BY <1>4, <1>6, <1>8
<1>12. "ahead" \notin upset[c.replica] =>
           \/ c.shows = View(c.replica, c.sess)
           \/ c.top = client[j].top /\ OnItsWay(j)
    BY <1>1, <1>3, <1>6, <1>8, <1>11 DEF UpToDate, Current
<1> QED
    BY <1>2, <1>6, <1>8, <1>9, <1>10, <1>11, <1>12, ClientPush

LEMMA DisconnectPush ==
    ASSUME PushInv, NEW j \in Clients, Disconnect(j)
    PROVE  PushInv'
BY ClientPush DEF Disconnect

-----------------------------------------------------------------------------
(* The steps of a broadcast and of its announcement.                        *)

\* What is on its way to k stays, when announcements and nudges do and the broadcast w
\* still has its push in store.
LEMMA StillComing ==
    ASSUME NEW k \in Clients, NEW w \in Workers, NEW x, DOMAIN cast = Workers,
           client'[k] = client[k], job' = job, cast' = [cast EXCEPT ![w] = x],
           OnItsWay(k),
           due[client[k].replica] > 0 =>
               due'[client[k].replica] > 0 \/ nudged'[client[k].replica] > 0 \/ Coming(w, k)',
           nudged[client[k].replica] > 0 => nudged'[client[k].replica] > 0 \/ Coming(w, k)',
           Coming(w, k) => Coming(w, k)'
    PROVE  OnItsWay(k)'
<1>1. PICK r : r = client[k].replica
    OBVIOUS
<1>2. client'[k].replica = r
    BY <1>1
<1>3. CASE due[r] > 0
    BY <1>1, <1>2, <1>3 DEF OnItsWay, Pending
<1>4. CASE \E h \in Handlers : Busy(h, r)
    <2>1. PICK h \in Handlers : Busy(h, r)
        BY <1>4
    <2>2. Busy(h, r)'
        BY <2>1 DEF Busy
    <2> QED
        BY <1>2, <2>2 DEF OnItsWay, Pending
<1>5. CASE nudged[r] > 0
    BY <1>1, <1>2, <1>5 DEF OnItsWay
<1>6. CASE \E u \in Workers : Coming(u, k)
    <2>1. PICK u \in Workers : Coming(u, k)
        BY <1>6
    <2>2. CASE u = w
        BY <2>1, <2>2 DEF OnItsWay
    <2>3. CASE u # w
        <3>1. cast'[u] = cast[u]
            BY <2>3
        <3>2. Coming(u, k)'
            BY <2>1, <3>1 DEF Coming
        <3> QED
            BY <3>2 DEF OnItsWay
    <2> QED
        BY <2>2, <2>3
<1> QED
    BY <1>1, <1>3, <1>4, <1>5, <1>6 DEF OnItsWay, Pending

\* A step of the broadcast w, which becomes x, that moves neither stores nor connections.
LEMMA CastPush ==
    ASSUME PushInv, NEW w \in Workers, NEW x \in Casting \cup {NoCast},
           cast' = [cast EXCEPT ![w] = x],
           client' = client, cache' = cache, job' = job, upset' = upset,
           version' \in [Replicas -> Nat], nudged' \in [Replicas -> Nat],
           due' \in [Replicas -> Nat],
           \A r \in Replicas : version'[r] >= version[r],
           x # NoCast => x.v <= version'[x.replica],
           \A k \in Clients : Connected(k) /\ OnItsWay(k) => OnItsWay(k)'
    PROVE  PushInv'
<1>1. LiveTypes /\ VersionsOK /\ version \in [Replicas -> Nat]
    BY DEF PushInv, LiveTypes
<1>2. cast'[w] = x /\ \A u \in Workers \ {w} : cast'[u] = cast[u]
    BY <1>1 DEF LiveTypes
<1>3. LiveTypes'
    <2>1. cast' \in [Workers -> Casting \cup {NoCast}]
        BY <1>1 DEF LiveTypes
    <2>2. JobsOK'
        BY <1>1 DEF LiveTypes, JobsOK, Work
    <2>3. \A k \in Clients : client'[k] \in {Offline, Gone} \/ Connection(client'[k])
        BY <1>1 DEF LiveTypes
    <2>4. \A k \in Clients : Connection(client[k])' <=> Connection(client'[k])
        BY DEF Connection
    <2> QED
        BY <1>1, <2>1, <2>2, <2>3, <2>4 DEF LiveTypes
<1>4. VersionsOK'
    <2>1. ASSUME NEW k \in Clients, Connected(k)
          PROVE  /\ client[k].top <= version'[client[k].replica]
                 /\ client[k].first <= version'[client[k].replica]
                 /\ client[k].at = "on" => client[k].top >= 0
        <3>1. /\ client[k].replica \in Replicas
              /\ client[k].first \in Nat /\ client[k].top \in Nat \cup {-1}
            BY <1>1, <2>1, ConnectionParts
        <3>2. PICK n \in Nat : n = version[client[k].replica]
            BY <1>1, <3>1
        <3>3. PICK m \in Nat : m = version'[client[k].replica]
            BY <3>1
        <3>4. n <= m
            BY <3>1, <3>2, <3>3
        <3>5. client[k].top <= n /\ client[k].first <= n /\ (client[k].at = "on" => client[k].top >= 0)
            BY <1>1, <2>1, <3>2 DEF VersionsOK
        <3> QED
            BY <3>1, <3>3, <3>4, <3>5
    <2>2. ASSUME NEW u \in Workers, cast'[u] # NoCast
          PROVE  cast'[u].v <= version'[cast'[u].replica]
        <3>1. CASE u = w
            BY <1>2, <2>2, <3>1
        <3>2. CASE u # w
            <4>1. cast[u] \in Casting /\ cast'[u] = cast[u]
                BY <1>1, <1>2, <2>2, <3>2, CastParts
            <4>2. cast[u].v <= version[cast[u].replica]
                BY <1>1, <2>2, <4>1 DEF VersionsOK
            <4>3. cast[u].replica \in Replicas /\ cast[u].v \in Nat
                BY <4>1 DEF Casting
            <4> QED
                BY <1>1, <4>1, <4>2, <4>3
        <3> QED
            BY <3>1, <3>2
    <2> QED
        BY <2>1, <2>2 DEF VersionsOK, Connected
<1>5. ASSUME NEW k \in Clients
      PROVE  UpToDate(k)'
    BY <1>1, StillUpToDate DEF PushInv
<1> QED
    BY <1>3, <1>4, <1>5 DEF PushInv

LEMMA TakePush ==
    ASSUME PushInv, NEW w \in Workers, TakeVersion(w)
    PROVE  PushInv'
<1>1. LiveTypes /\ VersionsOK /\ version \in [Replicas -> Nat] /\ DOMAIN cast = Workers
    BY DEF PushInv, LiveTypes
<1>2. cast[w].at = "begun" /\ cast[w] \in Casting /\ cast[w] # NoCast
    BY <1>1, CastParts DEF TakeVersion
<1>3. PICK r \in Replicas : r = cast[w].replica
    BY <1>2 DEF Casting
<1>4. PICK n \in Nat : n = version[r]
    BY <1>1
<1>5. PICK x : x = [cast[w] EXCEPT !.at = "numbered", !.v = n + 1]
    OBVIOUS
<1>6. /\ x \in Casting
      /\ x.at = "numbered" /\ x.v = n + 1 /\ x.replica = r
    <2>1. cast[w] \in [at : {"begun", "numbered", "sending"}, replica : Replicas, v : Nat,
                       targets : SUBSET Clients]
        BY <1>2 DEF Casting
    <2>2. PICK m \in Nat : m = n + 1
        OBVIOUS
    <2>3. x = [cast[w] EXCEPT !.at = "numbered", !.v = m]
        BY <1>5, <2>2
    <2>4. /\ x \in [at : {"begun", "numbered", "sending"}, replica : Replicas, v : Nat,
                    targets : SUBSET Clients]
          /\ x.at = "numbered" /\ x.v = m /\ x.replica = cast[w].replica
        BY <2>1, <2>3
    <2> QED
        BY <1>3, <2>2, <2>4 DEF Casting
<1>7. cast' = [cast EXCEPT ![w] = x]
    <2>1. cast' = [cast EXCEPT ![w].at = "numbered", ![w].v = n + 1]
        BY <1>3, <1>4 DEF TakeVersion
    <2> QED
        BY <1>1, <1>5, <2>1
<1>8. version' = [version EXCEPT ![r] = n + 1] /\ UNCHANGED <<vars, bridged, client, nudged>>
    BY <1>3, <1>4 DEF TakeVersion
<1>9. /\ cache' = cache /\ job' = job /\ due' = due /\ upset' = upset
      /\ client' = client /\ nudged' = nudged
    BY <1>8 DEF vars
<1>10. /\ version' \in [Replicas -> Nat]
       /\ \A q \in Replicas : version'[q] >= version[q]
       /\ version'[r] = n + 1
    BY <1>1, <1>4, <1>8
<1>11. ASSUME NEW k \in Clients, Connected(k), OnItsWay(k)
       PROVE  OnItsWay(k)'
    <2>1. client[k].replica = r => n + 1 >= client[k].top
        <3>1. client[k].top \in Nat \cup {-1}
            BY <1>1, <1>11, ConnectionParts
        <3>2. client[k].replica = r => client[k].top <= n
            BY <1>1, <1>4, <1>11 DEF VersionsOK
        <3> QED
            BY <3>1, <3>2
    <2>2. cast'[w] = x /\ x # NoCast
        BY <1>1, <1>6, <1>7 DEF NoCast
    <2>3. Coming(w, k) => Coming(w, k)'
        BY <1>3, <1>6, <1>9, <2>1, <2>2 DEF Coming
    <2> QED
        BY <1>1, <1>7, <1>9, <1>11, <2>3, StillComing
<1>12. due \in [Replicas -> Nat] /\ nudged \in [Replicas -> Nat]
    BY <1>1 DEF LiveTypes
<1>13. x \in Casting \cup {NoCast} /\ x.v <= version'[x.replica]
    BY <1>4, <1>6, <1>10
<1> QED
    BY <1>7, <1>9, <1>10, <1>11, <1>12, <1>13, CastPush

LEMMA ListPush ==
    ASSUME PushInv, NEW w \in Workers, ListTargets(w)
    PROVE  PushInv'
<1>1. LiveTypes /\ VersionsOK /\ version \in [Replicas -> Nat] /\ DOMAIN cast = Workers
    BY DEF PushInv, LiveTypes
<1>2. cast[w].at = "numbered" /\ cast[w] \in Casting /\ cast[w] # NoCast
    BY <1>1, CastParts DEF ListTargets
<1>3. PICK r \in Replicas : r = cast[w].replica
    BY <1>2 DEF Casting
<1>4. PICK T \in SUBSET Clients : T = ConnectedTo(r)
    BY DEF ConnectedTo
<1>5. PICK x : x = IF T = {} THEN NoCast ELSE [cast[w] EXCEPT !.at = "sending", !.targets = T]
    OBVIOUS
<1>6. /\ x \in Casting \cup {NoCast}
      /\ T # {} => /\ x \in Casting /\ x.at = "sending" /\ x.targets = T
                   /\ x.v = cast[w].v /\ x.replica = r
    BY <1>2, <1>3, <1>4, <1>5 DEF Casting
<1>7. cast' = [cast EXCEPT ![w] = x]
    <2>1. cast' = [cast EXCEPT ![w] = IF T = {} THEN NoCast
                                      ELSE [@ EXCEPT !.at = "sending", !.targets = T]]
        BY <1>3, <1>4 DEF ListTargets
    <2> QED
        BY <1>1, <1>5, <2>1
<1>8. UNCHANGED <<vars, bridged, version, client, nudged>>
    BY DEF ListTargets
<1>9. /\ cache' = cache /\ job' = job /\ due' = due /\ upset' = upset
      /\ client' = client /\ nudged' = nudged /\ version' = version
    BY <1>8 DEF vars
<1>10. x # NoCast => x.v <= version[x.replica]
    <2>1. x # NoCast => T # {}
        BY <1>5
    <2>2. cast[w].v <= version[r]
        BY <1>1, <1>2, <1>3 DEF VersionsOK
    <2> QED
        BY <1>6, <2>1, <2>2
<1>11. ASSUME NEW k \in Clients, Connected(k), OnItsWay(k)
       PROVE  OnItsWay(k)'
    <2>1. Coming(w, k) => Coming(w, k)'
        <3> SUFFICES ASSUME Coming(w, k)
                     PROVE  Coming(w, k)'
            OBVIOUS
        <3>1. client[k].replica = r /\ cast[w].v >= client[k].top
            BY <1>2, <1>3 DEF Coming
        <3>2. k \in T
            BY <1>4, <1>11, <3>1 DEF ConnectedTo, Connected
        <3>3. cast'[w] = x /\ x # NoCast
            BY <1>1, <1>6, <1>7, <3>2 DEF NoCast, Casting
        <3> QED
            BY <1>6, <1>9, <3>1, <3>2, <3>3 DEF Coming
    <2> QED
        BY <1>1, <1>7, <1>9, <1>11, <2>1, StillComing
<1>12. /\ due \in [Replicas -> Nat] /\ nudged \in [Replicas -> Nat]
       /\ \A q \in Replicas : version[q] >= version[q]
    BY <1>1 DEF LiveTypes
<1> QED
    BY <1>1, <1>6, <1>7, <1>9, <1>10, <1>11, <1>12, CastPush

\* A broadcast that begins on r, whatever announced it there.
LEMMA StartPush ==
    ASSUME PushInv, NEW w \in Workers, NEW r \in Replicas, cast[w] = NoCast,
           cast' = Started(w, r), cache' = cache, job' = job, upset' = upset,
           client' = client, version' = version,
           due' \in [Replicas -> Nat], nudged' \in [Replicas -> Nat],
           \A q \in Replicas \ {r} : due'[q] = due[q] /\ nudged'[q] = nudged[q]
    PROVE  PushInv'
<1>1. LiveTypes /\ version \in [Replicas -> Nat] /\ DOMAIN cast = Workers
    BY DEF PushInv, LiveTypes
<1>2. PICK x : x = [at |-> "begun", replica |-> r, v |-> 0, targets |-> {}]
    OBVIOUS
<1>3. /\ x \in Casting /\ x # NoCast
      /\ x.at = "begun" /\ x.replica = r /\ x.v = 0
    BY <1>2 DEF Casting, NoCast
<1>4. cast' = [cast EXCEPT ![w] = x] /\ cast'[w] = x
    BY <1>1, <1>2 DEF Started
<1>5. ASSUME NEW k \in Clients, Connected(k), OnItsWay(k)
      PROVE  OnItsWay(k)'
    <2>1. client[k].replica \in Replicas
        BY <1>1, <1>5, ConnectionParts
    <2>2. CASE client[k].replica = r
        <3>1. Coming(w, k)'
            BY <1>3, <1>4, <2>2 DEF Coming
        <3> QED
            BY <3>1 DEF OnItsWay
    <2>3. CASE client[k].replica # r
        <3>1. ~Coming(w, k)
            BY DEF Coming
        <3> QED
            BY <1>1, <1>4, <1>5, <2>1, <2>3, <3>1, StillComing
    <2> QED
        BY <2>2, <2>3
<1>6. x.v <= version'[x.replica] /\ \A q \in Replicas : version'[q] >= version[q]
    BY <1>1, <1>3
<1> QED
    BY <1>1, <1>3, <1>4, <1>5, <1>6, CastPush

LEMMA AnnouncePush ==
    ASSUME PushInv, NEW r \in Replicas, Announce(r)
    PROVE  PushInv'
<1>1. LiveTypes /\ version \in [Replicas -> Nat] /\ DOMAIN cast = Workers
      /\ due \in [Replicas -> Nat] /\ nudged \in [Replicas -> Nat]
    BY DEF PushInv, LiveTypes
<1>2. Announced(r) /\ version' = version /\ client' = client
    BY DEF Announce, Notify, BroadcastHere, NotifyFails
<1>3. /\ cache' = cache /\ job' = job /\ upset' = upset
      /\ due' \in [Replicas -> Nat] /\ \A q \in Replicas \ {r} : due'[q] = due[q]
    BY <1>1, <1>2 DEF Announced
<1>4. CASE Notify(r)
    <2>1. cast' = cast /\ nudged' = [q \in Replicas |-> nudged[q] + 1]
        BY <1>4 DEF Notify
    <2>2. nudged' \in [Replicas -> Nat] /\ \A q \in Replicas : nudged'[q] > 0
        BY <1>1, <2>1
    <2>3. PICK w \in Workers : w = r
        BY DEF Workers
    <2>4. PICK x : x = cast[w]
        OBVIOUS
    <2>5. x \in Casting \cup {NoCast} /\ cast' = [cast EXCEPT ![w] = x]
        <3>1. x \in Casting \cup {NoCast}
            BY <1>1, <2>4, CastParts
        <3>2. cast = [u \in Workers |-> cast[u]]
            BY <1>1 DEF LiveTypes
        <3> QED
            BY <2>1, <2>4, <3>1, <3>2
    <2>6. x # NoCast => x.v <= version'[x.replica]
        BY <1>2, <2>4 DEF PushInv, VersionsOK
    <2>7. \A k \in Clients : Connected(k) => OnItsWay(k)'
        BY <1>1, <1>2, <2>2, ConnectionParts DEF OnItsWay
    <2>8. \A q \in Replicas : version'[q] >= version[q]
        BY <1>1, <1>2
    <2> QED
        BY <1>1, <1>2, <1>3, <2>2, <2>5, <2>6, <2>7, <2>8, CastPush
<1>5. CASE \E w \in Pushers : BroadcastHere(w, r) \/ NotifyFails(w, r)
    <2>1. PICK w \in Pushers : BroadcastHere(w, r) \/ NotifyFails(w, r)
        BY <1>5
    <2>2. cast[w] = NoCast /\ cast' = Started(w, r) /\ nudged' = nudged /\ w \in Workers
        BY <2>1 DEF BroadcastHere, NotifyFails, Workers
    <2> QED
        BY <1>1, <1>2, <1>3, <2>2, StartPush
<1> QED
    BY <1>4, <1>5 DEF Announce

LEMMA SubscriberPush ==
    ASSUME PushInv, NEW r \in Replicas, RunSubscriber(r)
    PROVE  PushInv'
<1>1. due \in [Replicas -> Nat] /\ nudged \in [Replicas -> Nat] /\ r \in Workers
    BY DEF PushInv, LiveTypes, Workers
<1>2. /\ nudged[r] > 0 /\ nudged' = [nudged EXCEPT ![r] = @ - 1]
      /\ cast[r] = NoCast /\ cast' = Started(r, r) /\ version' = version /\ client' = client
      /\ cache' = cache /\ job' = job /\ upset' = upset /\ due' = due
    BY DEF RunSubscriber, vars
<1>3. /\ nudged' \in [Replicas -> Nat]
      /\ \A q \in Replicas \ {r} : due'[q] = due[q] /\ nudged'[q] = nudged[q]
    BY <1>1, <1>2
<1> QED
    BY <1>1, <1>2, <1>3, StartPush

\* The broadcast w, which has listed its targets, writes to one of them.
LEMMA SendPush ==
    ASSUME PushInv, NEW w \in Workers, SendTo(w)
    PROVE  PushInv'
<1>1. /\ LiveTypes /\ VersionsOK /\ DOMAIN cast = Workers /\ DOMAIN client = Clients
      /\ version \in [Replicas -> Nat] /\ due \in [Replicas -> Nat]
      /\ nudged \in [Replicas -> Nat]
    BY DEF PushInv, LiveTypes
<1>2. cast[w].at = "sending" /\ cast[w] \in Casting /\ cast[w] # NoCast
    BY <1>1, CastParts DEF SendTo
<1>3. PICK r \in Replicas : r = cast[w].replica
    BY <1>2 DEF Casting
<1>4. PICK v \in Nat : v = cast[w].v
    BY <1>2 DEF Casting
<1>5. PICK j \in cast[w].targets :
          /\ client' = IF j \in ConnectedTo(cast[w].replica)
                       THEN [client EXCEPT ![j] = Received(@, cast[w].v)] ELSE client
          /\ cast' = [cast EXCEPT ![w] = IF @.targets = {j} THEN NoCast
                                         ELSE [@ EXCEPT !.targets = cast[w].targets \ {j}]]
    BY DEF SendTo
<1>6. /\ cache' = cache /\ job' = job /\ due' = due /\ upset' = upset
      /\ nudged' = nudged /\ version' = version
    BY DEF SendTo, vars
<1>7. PICK T \in SUBSET Clients : T = cast[w].targets
    BY <1>2 DEF Casting
<1>8. PICK x : x = IF T = {j} THEN NoCast ELSE [cast[w] EXCEPT !.targets = T \ {j}]
    OBVIOUS
<1>9. /\ x \in Casting \cup {NoCast}
      /\ T # {j} => /\ x \in Casting /\ x.at = "sending" /\ x.targets = T \ {j}
                    /\ x.v = v /\ x.replica = r
    BY <1>2, <1>3, <1>4, <1>7, <1>8 DEF Casting
<1>10. /\ cast' = [cast EXCEPT ![w] = x] /\ cast'[w] = x
       /\ \A u \in Workers \ {w} : cast'[u] = cast[u]
    <2>1. PICK c : c = cast[w]
        OBVIOUS
    <2>2. PICK y : y = IF c.targets = {j} THEN NoCast
                       ELSE [c EXCEPT !.targets = c.targets \ {j}]
        OBVIOUS
    <2>3. x = y
        BY <1>7, <1>8, <2>1, <2>2
    <2>4. cast' = [cast EXCEPT ![w] = y]
        BY <1>1, <1>5, <2>1, <2>2
    <2> QED
        BY <1>1, <2>3, <2>4
<1>11. j \in Clients /\ v <= version[r]
    BY <1>1, <1>2, <1>3, <1>4, <1>7 DEF VersionsOK
<1>12. j \in ConnectedTo(r) <=> Connected(j) /\ client[j].replica = r
    BY <1>11 DEF ConnectedTo, Connected
\* The connection that was written to.
<1>13. \/ client'[j] = client[j] /\ ~(Connected(j) /\ client[j].replica = r)
       \/ /\ Connected(j) /\ client[j].replica = r
          /\ client'[j] = Received(client[j], v)
    BY <1>1, <1>3, <1>4, <1>5, <1>11, <1>12
<1>14. \A k \in Clients \ {j} : client'[k] = client[k]
    BY <1>1, <1>5
<1>15. DOMAIN client' = Clients
    BY <1>1, <1>5
<1>16. Connected(j) /\ client[j].replica = r =>
           LET d == client'[j] IN
           /\ Connection(d) /\ d \notin {Offline, Gone}
           /\ d.at = client[j].at /\ d.replica = r /\ d.sess = client[j].sess
           /\ d.first = client[j].first /\ d.top \in Nat \cup {-1}
           /\ v >= client[j].top => d.top = v /\ d.shows = View(r, d.sess)
           /\ ~(v >= client[j].top) => d = client[j]
    <2> SUFFICES ASSUME Connected(j), client[j].replica = r
                 PROVE  LET d == client'[j] IN
                        /\ Connection(d) /\ d \notin {Offline, Gone}
                        /\ d.at = client[j].at /\ d.replica = r /\ d.sess = client[j].sess
                        /\ d.first = client[j].first /\ d.top \in Nat \cup {-1}
                        /\ v >= client[j].top => d.top = v /\ d.shows = View(r, d.sess)
                        /\ ~(v >= client[j].top) => d = client[j]
        OBVIOUS
    <2>1. Connection(client[j])
        BY <1>1, <1>11, ConnectionParts
    <2>2. PICK d : d = Received(client[j], v)
        OBVIOUS
    <2>3. /\ Connection(d)
          /\ d.at = client[j].at /\ d.replica = client[j].replica /\ d.sess = client[j].sess
          /\ d.first = client[j].first
          /\ v >= client[j].top => d.top = v /\ d.shows = View(client[j].replica, client[j].sess)
          /\ ~(v >= client[j].top) => d = client[j]
        BY <2>1, <2>2, ReceivedParts
    <2>4. d.top \in Nat \cup {-1}
        BY <2>3 DEF Connection
    <2>5. d = client'[j]
        BY <1>13, <2>2
    <2>6. d \notin {Offline, Gone}
        BY <2>3, ConnectionIsNeither
    <2> QED
        BY <2>3, <2>4, <2>5, <2>6
<1>17. ~(Connected(j) /\ client[j].replica = r) => client'[j] = client[j]
    BY <1>13
<1>18. \A k \in Clients : client'[k] \in {Offline, Gone} \/ Connection(client'[k])
    BY <1>1, <1>14, <1>16, <1>17 DEF LiveTypes
<1>19. LiveTypes'
    <2>1. cast' \in [Workers -> Casting \cup {NoCast}]
        BY <1>1, <1>9, <1>10 DEF LiveTypes
    <2>2. JobsOK'
        BY <1>1, <1>6 DEF LiveTypes, JobsOK, Work
    <2>3. \A k \in Clients : Connection(client[k])' <=> Connection(client'[k])
        BY DEF Connection
    <2> QED
        BY <1>1, <1>6, <1>15, <1>18, <2>1, <2>2, <2>3 DEF LiveTypes
<1>20. VersionsOK'
    <2>1. ASSUME NEW u \in Workers, cast'[u] # NoCast
          PROVE  cast'[u].v <= version'[cast'[u].replica]
        <3>1. CASE u = w
            <4>1. T # {j} /\ x.v = v /\ x.replica = r
                BY <1>8, <1>9, <1>10, <2>1, <3>1
            <4> QED
                BY <1>6, <1>10, <1>11, <3>1, <4>1
        <3>2. CASE u # w
            BY <1>1, <1>6, <1>10, <2>1, <3>2 DEF VersionsOK
        <3> QED
            BY <3>1, <3>2
    <2>2. ASSUME NEW k \in Clients, client'[k] \notin {Offline, Gone}
          PROVE  /\ client'[k].top <= version'[client'[k].replica]
                 /\ client'[k].first <= version'[client'[k].replica]
                 /\ client'[k].at = "on" => client'[k].top >= 0
        <3>1. CASE client'[k] = client[k]
            BY <1>1, <1>6, <2>2, <3>1 DEF VersionsOK, Connected
        <3>2. CASE client'[k] # client[k]
            <4>1. k = j /\ Connected(j) /\ client[j].replica = r
                BY <1>14, <1>17, <3>2
            <4>2. /\ client'[j].replica = r /\ client'[j].first = client[j].first
                  /\ client'[j].top = v
                BY <1>16, <3>2, <4>1
            <4>3. client[j].first <= version[r]
                BY <1>1, <1>11, <4>1 DEF VersionsOK
            <4> QED
                BY <1>6, <1>11, <4>1, <4>2, <4>3
        <3> QED
            BY <3>1, <3>2
    <2> QED
        BY <2>1, <2>2 DEF VersionsOK, Connected
<1>21. ASSUME NEW k \in Clients, client'[k] = client[k],
              ~(k = j /\ Connected(j) /\ client[j].replica = r /\ v >= client[j].top)
       PROVE  UpToDate(k)'
    <2>1. ASSUME Connected(k), OnItsWay(k)
          PROVE  OnItsWay(k)'
        <3>1. Coming(w, k) => Coming(w, k)'
            <4> SUFFICES ASSUME Coming(w, k)
                         PROVE  Coming(w, k)'
                OBVIOUS
            <4>1. client[k].replica = r /\ v >= client[k].top /\ k \in T
                BY <1>2, <1>3, <1>4, <1>7 DEF Coming
            <4>2. k # j
                BY <1>21, <2>1, <4>1
            <4>3. T # {j} /\ x # NoCast
                BY <1>9, <4>1, <4>2 DEF Casting, NoCast
            <4> QED
                BY <1>9, <1>10, <1>21, <4>1, <4>2, <4>3 DEF Coming
        <3> QED
            BY <1>1, <1>6, <1>10, <1>21, <2>1, <3>1, StillComing
    <2> QED
        BY <1>1, <1>6, <1>21, <2>1, StillUpToDate DEF PushInv
<1>22. ASSUME Connected(j), client[j].replica = r, v >= client[j].top
       PROVE  UpToDate(j)'
    <2>1. client'[j].replica = r /\ client'[j].shows = View(r, client'[j].sess)
        BY <1>16, <1>22
    <2>2. PICK s : s = client'[j].sess
        OBVIOUS
    <2>3. View(r, s)' = View(r, s)
        BY <1>6 DEF View, CM!FilterWorkspace
    <2>4. Current(j)'
        BY <2>1, <2>2, <2>3 DEF Current
    <2> QED
        BY <2>4 DEF UpToDate
<1>23. \A k \in Clients : UpToDate(k)'
    <2>1. ASSUME NEW k \in Clients
          PROVE  UpToDate(k)'
        <3>1. CASE k = j /\ Connected(j) /\ client[j].replica = r /\ v >= client[j].top
            BY <1>22, <3>1
        <3>2. CASE ~(k = j /\ Connected(j) /\ client[j].replica = r /\ v >= client[j].top)
            <4>1. client'[k] = client[k]
                BY <1>14, <1>16, <1>17, <3>2
            <4> QED
                BY <1>21, <3>2, <4>1
        <3> QED
            BY <3>1, <3>2
    <2> QED
        BY <2>1
<1> QED
    BY <1>19, <1>20, <1>23 DEF PushInv

\* A restart takes with it what belonged to the replica, and nothing else.
LEMMA RestartPush ==
    ASSUME PushInv, NEW r \in Replicas, LiveRestart(r)
    PROVE  PushInv'
<1>1. /\ LiveTypes /\ VersionsOK /\ JobsOK /\ DOMAIN cast = Workers /\ DOMAIN client = Clients
      /\ version \in [Replicas -> Nat] /\ due \in [Replicas -> Nat]
      /\ nudged \in [Replicas -> Nat] /\ DOMAIN cache = Replicas /\ DOMAIN upset = Replicas
      /\ DOMAIN job = Handlers
    BY DEF PushInv, LiveTypes, JobsOK
<1>2. PICK s, u : /\ cache' = [cache EXCEPT ![r] = s]
                  /\ upset' = [upset EXCEPT ![r] = u]
    <2>1. Restart(r)
        BY DEF LiveRestart
    <2>2. CASE \E s \in CM!NewStore(db) :
                 /\ cache' = [cache EXCEPT ![r] = s]
                 /\ upset' = [upset EXCEPT ![r] = IF s = CM!Repo!LoadState(db) THEN {} ELSE {"load"}]
        BY <2>2
    <2>3. CASE cache' = [cache EXCEPT ![r] = CM!seed] /\ upset' = [upset EXCEPT ![r] = {"load"}]
        BY <2>3
    <2> QED
        BY Zenon, <2>1, <2>2, <2>3 DEF Restart
<1>3. /\ version' = [version EXCEPT ![r] = 0] /\ due' = [due EXCEPT ![r] = 0]
      /\ nudged' = [nudged EXCEPT ![r] = 0]
    BY DEF LiveRestart, Restart
<1>4. Revived(r)
    BY <1>1, RestartJobs DEF LiveRestart, JobsOK
<1>5. /\ DOMAIN client' = Clients
      /\ \A k \in Clients :
            \/ client'[k] = Gone
            \/ client'[k] = client[k] /\ ~(Connected(k) /\ client[k].replica = r)
    BY DEF LiveRestart, ConnectedTo, Connected
<1>6. /\ DOMAIN cast' = Workers
      /\ \A w \in Workers : cast'[w] = IF cast[w] # NoCast /\ cast[w].replica = r
                                       THEN NoCast ELSE cast[w]
    BY DEF LiveRestart
<1>7. \A q \in Replicas \ {r} :
          /\ cache'[q] = cache[q] /\ upset'[q] = upset[q] /\ due'[q] = due[q]
          /\ version'[q] = version[q] /\ nudged'[q] = nudged[q]
    BY <1>1, <1>2, <1>3
<1>8. LiveTypes'
    <2>1. /\ version' \in [Replicas -> Nat] /\ due' \in [Replicas -> Nat]
          /\ nudged' \in [Replicas -> Nat]
          /\ DOMAIN cache' = Replicas /\ DOMAIN upset' = Replicas
        BY <1>1, <1>2, <1>3
    <2>2. JobsOK'
        <3>1. \A h \in Handlers : job'[h] = Idle \/ Work(job'[h])
            <4>1. Work([at |-> "seed", replica |-> r])
                BY DEF Work
            <4> QED
                BY <1>1, <1>4, <4>1 DEF JobsOK, Revived
        <3>2. job' = [h \in Handlers |-> job'[h]]
            BY <1>4 DEF Revived
        <3> QED
            BY <3>1, <3>2 DEF JobsOK, Work
    <2>3. \A k \in Clients : client'[k] \in {Offline, Gone} \/ Connection(client'[k])
        BY <1>1, <1>5 DEF LiveTypes
    <2>4. \A k \in Clients : Connection(client[k])' <=> Connection(client'[k])
        BY DEF Connection
    <2>5. cast' \in [Workers -> Casting \cup {NoCast}]
        <3>1. \A w \in Workers : cast'[w] \in Casting \cup {NoCast}
            BY <1>1, <1>6, CastParts
        <3>2. cast' = [w \in Workers |-> cast'[w]]
            BY DEF LiveRestart
        <3> QED
            BY <3>1, <3>2
    <2> QED
        BY <1>5, <2>1, <2>2, <2>3, <2>4, <2>5 DEF LiveTypes
<1>9. VersionsOK'
    <2>1. ASSUME NEW k \in Clients, client'[k] \notin {Offline, Gone}
          PROVE  /\ client'[k].top <= version'[client'[k].replica]
                 /\ client'[k].first <= version'[client'[k].replica]
                 /\ client'[k].at = "on" => client'[k].top >= 0
        <3>1. client'[k] = client[k] /\ Connected(k) /\ client[k].replica # r
            BY <1>5, <2>1 DEF Connected
        <3>2. client[k].replica \in Replicas \ {r}
            BY <1>1, <3>1, ConnectionParts
        <3> QED
            BY <1>1, <1>7, <3>1, <3>2 DEF VersionsOK
    <2>2. ASSUME NEW w \in Workers, cast'[w] # NoCast
          PROVE  cast'[w].v <= version'[cast'[w].replica]
        <3>1. cast'[w] = cast[w] /\ cast[w] # NoCast /\ cast[w].replica # r
            BY <1>6, <2>2
        <3>2. cast[w].replica \in Replicas \ {r}
            BY <1>1, <3>1, CastParts DEF Casting
        <3> QED
            BY <1>1, <1>7, <3>1, <3>2 DEF VersionsOK
    <2> QED
        BY <2>1, <2>2 DEF VersionsOK, Connected
<1>10. ASSUME NEW k \in Clients
       PROVE  UpToDate(k)'
    <2>1. CASE client'[k] = Gone
        BY <2>1 DEF UpToDate, Connected
    <2>2. CASE client'[k] = client[k] /\ ~(Connected(k) /\ client[k].replica = r)
        <3>1. ASSUME Connected(k), OnItsWay(k)
              PROVE  OnItsWay(k)'
            <4>1. PICK q \in Replicas \ {r} : q = client[k].replica
                BY <1>1, <2>2, <3>1, ConnectionParts
            <4>2. client'[k].replica = q
                BY <2>2, <4>1
            <4>3. CASE due[q] > 0
                BY <1>7, <4>2, <4>3 DEF OnItsWay, Pending
            <4>4. CASE \E h \in Handlers : Busy(h, q)
                <5>1. PICK h \in Handlers : Busy(h, q)
                    BY <4>4
                <5>2. job'[h] = job[h]
                    BY <1>4, <4>1, <5>1, IdleAt DEF Busy, Revived
                <5> QED
                    BY <4>2, <5>1, <5>2 DEF Busy, OnItsWay, Pending
            <4>5. CASE nudged[q] > 0
                BY <1>7, <4>2, <4>5 DEF OnItsWay
            <4>6. CASE \E w \in Workers : Coming(w, k)
                <5>1. PICK w \in Workers : Coming(w, k)
                    BY <4>6
                <5>2. cast'[w] = cast[w]
                    BY <1>6, <4>1, <5>1 DEF Coming
                <5> QED
                    BY <2>2, <5>1, <5>2 DEF OnItsWay, Coming
            <4> QED
                BY <3>1, <4>1, <4>3, <4>4, <4>5, <4>6 DEF OnItsWay, Pending
        <3>2. Connected(k) => client[k].replica \in Replicas \ {r}
            BY <1>1, <2>2, ConnectionParts
        <3> QED
            BY <1>1, <1>7, <2>2, <3>1, <3>2, StillUpToDate DEF PushInv
    <2> QED
        BY <1>5, <2>1, <2>2
<1> QED
    BY <1>8, <1>9, <1>10 DEF PushInv

-----------------------------------------------------------------------------
(* The invariant, and what it says once everything has settled.             *)

LEMMA PushInit == LiveInit => PushInv /\ Opened
<1> SUFFICES ASSUME LiveInit
             PROVE  PushInv /\ Opened
    OBVIOUS
<1>1. /\ cache = [r \in Replicas |-> CM!Repo!LoadState(db)]
      /\ job = [h \in Handlers |-> Idle] /\ due = [r \in Replicas |-> 0]
      /\ upset = [r \in Replicas |-> {}]
      /\ version = [r \in Replicas |-> 0] /\ client = [k \in Clients |-> Offline]
      /\ cast = [w \in Workers |-> NoCast] /\ nudged = [r \in Replicas |-> 0]
    BY DEF LiveInit, Init
<1>2. LiveTypes
    BY <1>1 DEF LiveTypes, JobsOK
<1>3. VersionsOK
    BY <1>1 DEF VersionsOK, Connected
<1>4. \A k \in Clients : UpToDate(k)
    BY <1>1 DEF UpToDate, Connected
<1>5. Opened
    BY <1>1 DEF Opened, Connected
<1> QED
    BY <1>2, <1>3, <1>4, <1>5 DEF PushInv

\* A connection that is not opened in a step is that of the same replica before.
Seats == \A k \in Clients : Connected(k)' => /\ Connected(k)
                                             /\ client'[k].replica = client[k].replica

LEMMA OpenedKept ==
    ASSUME Opened, Seats, NoStart
    PROVE  Opened'
BY DEF Opened, Seats, NoStart

LEMMA OpenedNext ==
    ASSUME Realtime, LiveTypes, Opened, [LiveNext]_liveVars
    PROVE  Opened'
<1>0. job' = job => NoStart
    BY DEF NoStart
<1>1. client' = client => Seats
    BY DEF Seats, Connected
<1>2. \A k \in Clients : Connected(k) => Connection(client[k])
    BY ConnectionParts
<1>3. CASE ServiceStep /\ UNCHANGED live
    BY <1>1, <1>3, ServiceSpoken, OpenedKept DEF Kept, live
<1>4. ASSUME NEW h \in Handlers, SeedWorkspace(h), UNCHANGED live
      PROVE  Opened'
    <2>1. NoStart
        BY <1>4, IdleAt DEF SeedWorkspace, NoStart, LiveTypes, JobsOK
    <2> QED
        BY <1>1, <1>4, <2>1, OpenedKept DEF live
<1>5. ASSUME NEW r \in Replicas, LiveRestart(r)
      PROVE  Opened'
    <2>1. Revived(r)
        BY <1>5, RestartJobs DEF LiveRestart, LiveTypes, JobsOK
    <2>2. \A k \in Clients : Connected(k)' =>
              client'[k] = client[k] /\ Connected(k) /\ client[k].replica # r
        BY <1>5 DEF LiveRestart, ConnectedTo, Connected
    <2>3. \A h \in Handlers : job'[h].at = "seed" => job'[h] = job[h] \/ job'[h].replica = r
        BY <2>1, IdleAt DEF Revived
    <2> QED
        BY <2>2, <2>3 DEF Opened
<1>6. ASSUME NEW r \in Replicas, Announce(r) \/ RunSubscriber(r)
      PROVE  Opened'
    <2>1. job' = job /\ client' = client
        BY <1>6 DEF Announce, RunSubscriber, BroadcastHere, Notify, NotifyFails, Announced, vars
    <2> QED
        BY <1>0, <1>1, <2>1, OpenedKept
<1>7. ASSUME NEW k \in Clients, LoadVersion(k) \/ FirstSnapshot(k) \/ Disconnect(k)
      PROVE  Opened'
    <2>1. job' = job
        BY <1>7 DEF LoadVersion, FirstSnapshot, Disconnect, vars
    <2>2. PICK c : client' = [client EXCEPT ![k] = c] /\ (c = Gone \/ c.replica = client[k].replica)
        <3>1. CASE LoadVersion(k)
            <4>1. /\ client[k].at = "joined"
                  /\ client' = [client EXCEPT ![k].at = "first", ![k].first = version[client[k].replica]]
                BY <3>1 DEF LoadVersion
            <4>2. Connection(client[k])
                BY <1>2, <4>1 DEF Connected, Offline, Gone
            <4>3. PICK c : c = [client[k] EXCEPT !.at = "first", !.first = version[client[k].replica]]
                OBVIOUS
            <4>4. c.replica = client[k].replica
                BY <4>2, <4>3 DEF Connection
            <4>5. client' = [client EXCEPT ![k] = c]
                BY <4>1, <4>3 DEF LiveTypes
            <4> QED
                BY <4>4, <4>5
        <3>2. CASE FirstSnapshot(k)
            <4>1. /\ client[k].at = "first"
                  /\ client' = [client EXCEPT ![k] = [Received(client[k], client[k].first) EXCEPT !.at = "on"]]
                BY <3>2 DEF FirstSnapshot
            <4>2. Connection(client[k])
                BY <1>2, <4>1 DEF Connected, Offline, Gone
            <4>3. PICK c : c = [Received(client[k], client[k].first) EXCEPT !.at = "on"]
                OBVIOUS
            <4>4. c.replica = client[k].replica
                BY <4>2, <4>3 DEF Connection, Received
            <4> QED
                BY <4>1, <4>3, <4>4
        <3>3. CASE Disconnect(k)
            BY <3>3 DEF Disconnect
        <3> QED
            BY <1>7, <3>1, <3>2, <3>3
    <2>3. c # Gone => Connected(k)
        <3>1. CASE LoadVersion(k) \/ FirstSnapshot(k)
            BY <3>1 DEF LoadVersion, FirstSnapshot, Connected, Offline, Gone
        <3>2. CASE Disconnect(k)
            BY <3>2 DEF Disconnect, Connected
        <3> QED
            BY <1>7, <3>1, <3>2
    <2>4. Seats
        BY <2>2, <2>3 DEF Seats, Connected, LiveTypes
    <2> QED
        BY <1>0, <2>1, <2>4, OpenedKept
<1>8. ASSUME NEW k \in Clients, NEW r \in Replicas, ServeWS(k, r)
      PROVE  Opened'
    <2>1. job' = job /\ Up(r)
        BY <1>8 DEF ServeWS, vars
    <2>2. PICK c : client' = [client EXCEPT ![k] = c] /\ c.replica = r
        <3>1. PICK sess \in Sessions :
                  client' = [client EXCEPT ![k] =
                                [at |-> "joined", replica |-> r, sess |-> sess,
                                 first |-> 0, top |-> -1, shows |-> None]]
            BY Zenon, <1>8 DEF ServeWS
        <3>2. [at |-> "joined", replica |-> r, sess |-> sess,
               first |-> 0, top |-> -1, shows |-> None].replica = r
            OBVIOUS
        <3> QED
            BY Zenon, <3>1, <3>2
    <2>3. ASSUME NEW j \in Clients, NEW h \in Handlers, Connected(j)', job'[h].at = "seed"
          PROVE  job'[h].replica # client'[j].replica
        <3>1. CASE j = k
            BY <2>1, <2>2, <2>3, <3>1 DEF Up, LiveTypes
        <3>2. CASE j # k
            BY <2>1, <2>2, <2>3, <3>2 DEF Opened, Connected
        <3> QED
            BY <3>1, <3>2
    <2> QED
        BY <2>3 DEF Opened
<1>9. ASSUME NEW w \in Workers, CastStep(w)
      PROVE  Opened'
    <2>1. job' = job
        BY <1>9 DEF CastStep, TakeVersion, ListTargets, SendTo, vars
    <2>2. CASE client' = client
        BY <1>0, <1>1, <2>1, <2>2, OpenedKept
    <2>3. CASE \E k \in ConnectedTo(cast[w].replica) :
                 client' = [client EXCEPT ![k] = Received(client[k], cast[w].v)]
        <3>1. PICK k \in ConnectedTo(cast[w].replica) :
                 client' = [client EXCEPT ![k] = Received(client[k], cast[w].v)]
            BY <2>3
        <3>2. k \in Clients /\ Connected(k)
            BY <3>1 DEF ConnectedTo, Connected
        <3>3. Received(client[k], cast[w].v).replica = client[k].replica
            BY <1>2, <3>2 DEF Connection, Received
        <3>4. Seats
            BY <3>1, <3>2, <3>3 DEF Seats, Connected, LiveTypes
        <3> QED
            BY <1>0, <2>1, <3>4, OpenedKept
    <2> QED
        BY <1>9, <2>2, <2>3 DEF CastStep, TakeVersion, ListTargets, SendTo
<1>10. CASE UNCHANGED liveVars
    BY <1>0, <1>1, <1>10, OpenedKept DEF liveVars, vars, live
<1> QED
    BY <1>3, <1>4, <1>5, <1>6, <1>7, <1>8, <1>9, <1>10 DEF LiveNext, ServiceStep

LEMMA PushNext ==
    ASSUME Realtime
    PROVE  PushInv /\ Opened /\ [LiveNext]_liveVars => PushInv' /\ Opened'
<1> SUFFICES ASSUME PushInv, Opened, [LiveNext]_liveVars
             PROVE  PushInv'
    BY OpenedNext DEF PushInv
<1>1. CASE ServiceStep /\ UNCHANGED live
    BY <1>1, ServicePush
<1>6. ASSUME NEW h \in Handlers, SeedWorkspace(h), UNCHANGED live
      PROVE  PushInv'
    BY <1>6, SeedPush
<1>2. ASSUME NEW r \in Replicas, LiveRestart(r) \/ Announce(r) \/ RunSubscriber(r)
      PROVE  PushInv'
    BY <1>2, RestartPush, AnnouncePush, SubscriberPush
<1>3. ASSUME NEW k \in Clients,
             \/ LoadVersion(k) \/ FirstSnapshot(k) \/ Disconnect(k)
             \/ \E r \in Replicas : ServeWS(k, r)
      PROVE  PushInv'
    BY <1>3, LoadPush, FirstPush, DisconnectPush, ServePush
<1>4. ASSUME NEW w \in Workers, CastStep(w)
      PROVE  PushInv'
    BY <1>4, TakePush, ListPush, SendPush DEF CastStep
<1>5. CASE UNCHANGED liveVars
    <2>1. /\ cache' = cache /\ job' = job /\ due' = due /\ upset' = upset
          /\ version' = version /\ cast' = cast /\ nudged' = nudged /\ client' = client
        BY <1>5 DEF liveVars, vars, live
    <2>2. LiveTypes' /\ VersionsOK'
        BY <2>1 DEF PushInv, LiveTypes, JobsOK, Work, Connection, Casting, VersionsOK, Connected
    <2>3. ASSUME NEW k \in Clients
          PROVE  UpToDate(k)'
        <3>1. OnItsWay(k) => OnItsWay(k)'
            BY <2>1 DEF OnItsWay, Pending, Busy, Coming
        <3> QED
            BY <2>1, <3>1, StillUpToDate DEF PushInv
    <2> QED
        BY <2>2, <2>3 DEF PushInv
<1> QED
    BY <1>1, <1>2, <1>3, <1>4, <1>5, <1>6 DEF LiveNext, ServiceStep

\* When a replica has settled, nothing is on its way to its connections.
LEMMA PushSettles == PushInv => NewestPushIsCurrent
<1> SUFFICES ASSUME PushInv, NEW k \in Clients, Owed(k), Settled(client[k].replica)
             PROVE  Current(k)
    BY DEF NewestPushIsCurrent
<1>1. LiveTypes /\ VersionsOK /\ UpToDate(k)
    BY DEF PushInv
<1>2. client[k].at = "on" /\ "ahead" \notin upset[client[k].replica]
    BY DEF Owed
<1>3. Connected(k)
    BY <1>2 DEF Connected, Offline, Gone
<1>4. client[k].top >= 0
    BY <1>1, <1>2, <1>3 DEF VersionsOK
<1>5. PICK r \in Replicas : r = client[k].replica
    BY <1>1, <1>3, ConnectionParts
<1>6. ~OnItsWay(k)
    <2>1. ~Pending(r) /\ ~(nudged[r] > 0)
        BY <1>5 DEF Settled, Pending, Busy
    <2>2. \A w \in Workers : ~Coming(w, k)
        BY <1>5 DEF Settled, Coming
    <2> QED
        BY <1>5, <2>1, <2>2 DEF OnItsWay
<1> QED
    BY <1>1, <1>2, <1>3, <1>4, <1>6 DEF UpToDate

(***************************************************************************)
(* hub.go: Broadcast, encode and the workspace socket; broadcast.go and    *)
(* redis.go: who announces.  For any number of replicas, requests,         *)
(* connections and broadcasts, interleaved in any order, with restarts:    *)
(* once nothing that concerns a replica is under way, each of its          *)
(* connections was last shown the workspace that the replica holds,        *)
(* unless a request that failed has changed the cache without a push.      *)
(***************************************************************************)
THEOREM PushesConverge ==
    ASSUME Realtime
    PROVE  LiveSpec => []NewestPushIsCurrent
<1>1. LiveInit => PushInv /\ Opened
    BY PushInit
<1>2. PushInv /\ Opened /\ [LiveNext]_liveVars => PushInv' /\ Opened'
    BY PushNext
<1>3. PushInv => NewestPushIsCurrent
    BY PushSettles
<1> QED
    BY <1>1, <1>2, <1>3, PTL DEF LiveSpec

-----------------------------------------------------------------------------
(* Acknowledged rows. *)

(***************************************************************************)
(* Why acknowledged rows stay.  A store that lacks no rows lists every     *)
(* acknowledged row, so the snapshot of a bulk PUT holds it as well; and   *)
(* no statement takes a row away but the one that was asked to delete it.  *)
(***************************************************************************)

\* A project of the store has the task.
HoldsTask(s, id) == \E i \in DOMAIN s.projects : id \in CM!Ids(s.projects[i].tasks)
\* The tables have the row, a task under a project they have.
Held(d, t, id) ==
    /\ id \in DOMAIN d[t]
    /\ t = "tasks" => d.tasks[id].project \in DOMAIN d.projects
\* A snapshot of the store would have it; projects get new names there.
Shown(s, t, id) ==
    /\ t \in CM!Repo!Keyed => id \in CM!Ids(s[t])
    /\ t = "tasks" => HoldsTask(s, id)

\* No row is lost but those that are gone.
RowsLast(d, d2, gone) ==
    \A t \in Tables, id \in Int : <<t, id>> \notin gone /\ Held(d, t, id) => Held(d2, t, id)
ListLasts(s, s2, gone) ==
    \A t \in Tables, id \in Int : <<t, id>> \notin gone /\ Shown(s, t, id) => Shown(s2, t, id)
Lasts(d, s, o, gone) ==
    RowsLast(d, o.db, gone) /\ (o.err # "lost" => ListLasts(s, o.store, gone))
\* Nothing is gone when nothing was written.
Lasting(d, s, o, gone) == Lasts(d, s, o, gone) /\ (o.db = d => Lasts(d, s, o, {}))

LEMMA NothingGone ==
    ASSUME NEW d, NEW s, NEW gone
    PROVE  RowsLast(d, d, gone) /\ ListLasts(s, s, gone)
BY DEF RowsLast, ListLasts

\* What goes may be more.
LEMMA MoreGone ==
    ASSUME NEW d, NEW s, NEW o, NEW gone, Lasts(d, s, o, {})
    PROVE  Lasts(d, s, o, gone) /\ Lasting(d, s, o, gone)
BY DEF Lasts, Lasting, RowsLast, ListLasts

LEMMA EndsLasts ==
    ASSUME NEW d, NEW s, NEW e, NEW o \in CM!Ends(d, s, e)
    PROVE  Lasts(d, s, o, {})
BY NothingGone DEF CM!Ends, Lasts

LEMMA MissedLasts ==
    ASSUME NEW d, NEW s, NEW s2, NEW stmts, Missed(d, stmts), NEW o \in CM!After(s, stmts, s2)
    PROVE  Lasts(d, s, o, {})
<1>1. o.db = d /\ o.store = s
    BY AfterShape DEF Missed
<1> QED
    BY <1>1, NothingGone DEF Lasts

LEMMA AfterLasts ==
    ASSUME NEW d, NEW s, NEW d2, NEW s2, NEW gone, RowsLast(d, d2, gone), ListLasts(s, s2, gone),
           NEW stmts, Statement(d, d2, stmts), NEW o \in CM!After(s, stmts, s2)
    PROVE  /\ Lasts(d, s, o, gone)
           /\ o.err \notin {"ok", "lost"} => Lasts(d, s, o, {})
           /\ d2 # d => Lasting(d, s, o, gone)
<1>1. \/ o.db = d /\ o.err \notin {"ok", "lost"} /\ o.store = s
      \/ o.db = d2 /\ o.err = "ok" /\ o.store = s2
      \/ o.db = d2 /\ o.err = "lost"
    BY DEF CM!After, CM!wrapPersist, Statement
<1> QED
    BY <1>1, NothingGone DEF Lasts, Lasting

\* One keyed table and its list change.
LEMMA TableLasts ==
    ASSUME NEW d, NEW s, CM!Repo!IsDb(d), CM!IsStore(s), NEW t \in CM!Repo!Keyed, NEW gone,
           NEW table, NEW rows,
           \A id \in Int : <<t, id>> \notin gone =>
             /\ id \in DOMAIN d[t] => id \in DOMAIN table
             /\ id \in CM!Ids(s[t]) => id \in CM!Ids(rows),
           NEW d2, d2 = [d EXCEPT ![t] = table], NEW s2, s2 = [s EXCEPT ![t] = rows]
    PROVE  RowsLast(d, d2, gone) /\ ListLasts(s, s2, gone)
<1>1. /\ d2[t] = table /\ \A u \in Tables : u # t => d2[u] = d[u]
      /\ s2[t] = rows /\ \A u \in CM!Repo!Keyed : u # t => s2[u] = s[u]
      /\ s2.projects = s.projects /\ t \notin {"projects", "tasks"}
      /\ {"projects", "tasks"} \subseteq Tables
    BY DbParts, StoreParts DEF CM!Repo!Keyed, Tables, CM!Repo!Tables
<1>2. RowsLast(d, d2, gone)
    BY <1>1 DEF RowsLast, Held
<1>3. ListLasts(s, s2, gone)
    BY <1>1 DEF ListLasts, Shown, HoldsTask
<1> QED
    BY <1>2, <1>3

\* The ids of lists with a row more, rewritten, less.
LEMMA IdsKept ==
    ASSUME NEW t \in Kinds, NEW rows, CM!Repo!IsList(t, rows)
    PROVE  /\ \A x : CM!Repo!IsRow(t, x) => CM!Ids(rows) \subseteq CM!Ids(Append(rows, x))
           /\ \A i \in DOMAIN rows : \A x : x.id = rows[i].id => CM!Ids(rows) \subseteq CM!Ids([rows EXCEPT ![i] = x])
           /\ \A i \in DOMAIN rows : CM!Ids(rows) \subseteq CM!Ids(CM!RemoveAt(rows, i)) \cup {rows[i].id}
<1>1. DOMAIN rows = 1..Len(rows) /\ Len(rows) \in Nat /\ rows = [k \in DOMAIN rows |-> rows[k]]
    BY ListSeq
<1>2. ASSUME NEW x, CM!Repo!IsRow(t, x)
      PROVE  CM!Ids(rows) \subseteq CM!Ids(Append(rows, x))
    <2>1. /\ DOMAIN Append(rows, x) = 1..(Len(rows) + 1)
          /\ \A i \in 1..Len(rows) : Append(rows, x)[i] = rows[i]
        BY <1>2, ListAppend
    <2> QED
        BY <1>1, <2>1 DEF CM!Ids
<1>3. ASSUME NEW i \in DOMAIN rows, NEW x, x.id = rows[i].id
      PROVE  CM!Ids(rows) \subseteq CM!Ids([rows EXCEPT ![i] = x])
    BY <1>1, <1>3 DEF CM!Ids
<1>4. ASSUME NEW i \in DOMAIN rows
      PROVE  CM!Ids(rows) \subseteq CM!Ids(CM!RemoveAt(rows, i)) \cup {rows[i].id}
    <2> DEFINE new == CM!RemoveAt(rows, i)
    <2>1. /\ DOMAIN new = 1..(Len(rows) - 1)
          /\ \A k \in 1..(Len(rows) - 1) : new[k] = IF k < i THEN rows[k] ELSE rows[k + 1]
        BY ListRemoveAt
    <2> HIDE DEF new
    <2>2. ASSUME NEW k \in DOMAIN rows, k # i
          PROVE  rows[k].id \in CM!Ids(new)
        <3>1. CASE k < i
            <4>1. k \in DOMAIN new /\ new[k] = rows[k]
                BY <1>1, <2>1, <2>2, <3>1
            <4> QED
                BY <4>1 DEF CM!Ids
        <3>2. CASE k > i
            <4>1. k - 1 \in DOMAIN new /\ new[k - 1] = rows[k]
                BY <1>1, <2>1, <2>2, <3>2
            <4> QED
                BY <4>1 DEF CM!Ids
        <3> QED
            BY <1>1, <2>2, <3>1, <3>2
    <2> QED
        BY <2>2 DEF CM!Ids, new
<1> QED
    BY <1>2, <1>3, <1>4

\* A row is inserted and listed, and the tables differ when that was answered.
LEMMA GrownLasts ==
    ASSUME NEW d, NEW s, CM!Repo!IsDb(d), CM!IsStore(s), NEW t \in CM!Repo!Keyed,
           NEW row, CM!Repo!IsRow(t, row), NEW o,
           \/ o \in CM!After(s, CM!Repo!Insert(d, t, row), [s EXCEPT ![t] = Append(s[t], row)])
           \/ o \in CM!After(s, CM!Repo!Refused(d), [s EXCEPT ![t] = Append(s[t], row)])
    PROVE  Lasts(d, s, o, {}) /\ (o.err = "ok" => o.db # d)
<1>1. PICK s2 : s2 = [s EXCEPT ![t] = Append(s[t], row)]
    OBVIOUS
<1>2. PICK d2 : d2 = [d EXCEPT ![t] = CM!Repo!With(d[t], row.id, row)]
    OBVIOUS
<1>3. CASE o \in CM!After(s, CM!Repo!Refused(d), s2)
    BY <1>3, RefusedMissed, MissedLasts, AfterShape DEF Missed
<1>4. CASE row.id \notin DOMAIN d[t] /\ o \in CM!After(s, CM!Repo!Ran(d, d2), s2)
    <2>1. Statement(d, d2, CM!Repo!Ran(d, d2))
        BY RanStatement
    <2>2. t \in DOMAIN d /\ row.id \in DOMAIN CM!Repo!With(d[t], row.id, row)
          /\ DOMAIN d[t] \subseteq DOMAIN CM!Repo!With(d[t], row.id, row)
        BY DbParts, KeyedTables DEF CM!Repo!With
    <2>3. d2 # d
        BY <1>2, <1>4, <2>2
    <2>4. CM!Ids(s[t]) \subseteq CM!Ids(Append(s[t], row))
        BY StoreParts, KeyedTables, IdsKept
    <2>5. RowsLast(d, d2, {}) /\ ListLasts(s, s2, {})
        BY <1>1, <1>2, <2>2, <2>4, TableLasts
    <2>6. o.err = "ok" => o.db = d2
        BY <1>4, <2>1, AfterWritten DEF Unwritten
    <2> QED
        BY <1>4, <2>1, <2>3, <2>5, <2>6, AfterLasts
<1> QED
    BY <1>1, <1>2, <1>3, <1>4, InsertStatement

LEMMA RewrittenLasts ==
    ASSUME NEW d, NEW s, CM!Repo!IsDb(d), CM!IsStore(s), NEW t \in CM!Repo!Keyed,
           NEW i \in DOMAIN s[t], NEW row, row.id = s[t][i].id, NEW o,
           \/ o \in CM!After(s, CM!Repo!Update(d, t, row), [s EXCEPT ![t] = [s[t] EXCEPT ![i] = row]])
           \/ o \in CM!After(s, CM!Repo!Refused(d), [s EXCEPT ![t] = [s[t] EXCEPT ![i] = row]])
    PROVE  Lasts(d, s, o, {})
<1>1. PICK s2 : s2 = [s EXCEPT ![t] = [s[t] EXCEPT ![i] = row]]
    OBVIOUS
<1>2. PICK d2 : d2 = [d EXCEPT ![t] = [d[t] EXCEPT ![row.id] = row]]
    OBVIOUS
<1>3. CASE o \in CM!After(s, CM!Repo!Refused(d), s2)
    BY <1>3, RefusedMissed, MissedLasts
<1>4. CASE o \in CM!After(s, CM!Repo!Update(d, t, row), s2)
    <2>1. CM!Ids(s[t]) \subseteq CM!Ids([s[t] EXCEPT ![i] = row])
        BY StoreParts, KeyedTables, IdsKept
    <2>2. DOMAIN d[t] = DOMAIN [d[t] EXCEPT ![row.id] = row]
        OBVIOUS
    <2>3. RowsLast(d, d2, {}) /\ ListLasts(s, s2, {})
        BY <1>1, <1>2, <2>1, <2>2, TableLasts
    <2>4. Statement(d, d2, CM!Repo!Update(d, t, row)) \/ Missed(d, CM!Repo!Update(d, t, row))
        BY <1>2, UpdateStatement
    <2> QED
        BY <1>4, <2>3, <2>4, AfterLasts, MissedLasts
<1> QED
    BY <1>1, <1>3, <1>4

LEMMA DroppedLasts ==
    ASSUME NEW d, NEW s, CM!Repo!IsDb(d), CM!IsStore(s), NEW t \in CM!Repo!Keyed,
           NEW i \in DOMAIN s[t], NEW id, id = s[t][i].id, NEW o,
           \/ o \in CM!After(s, CM!Repo!Delete(d, t, id), [s EXCEPT ![t] = CM!RemoveAt(s[t], i)])
           \/ o \in CM!After(s, CM!Repo!Refused(d), [s EXCEPT ![t] = CM!RemoveAt(s[t], i)])
    PROVE  Lasting(d, s, o, {<<t, id>>})
<1>1. PICK s2 : s2 = [s EXCEPT ![t] = CM!RemoveAt(s[t], i)]
    OBVIOUS
<1>2. PICK d2 : d2 = [d EXCEPT ![t] = CM!Repo!Without(d[t], id)]
    OBVIOUS
<1>3. CASE o \in CM!After(s, CM!Repo!Refused(d), s2)
    BY <1>3, RefusedMissed, MissedLasts, MoreGone
<1>4. CASE o \in CM!After(s, CM!Repo!Delete(d, t, id), s2) /\ Missed(d, CM!Repo!Delete(d, t, id))
    BY <1>4, MissedLasts, MoreGone
<1>5. CASE o \in CM!After(s, CM!Repo!Delete(d, t, id), s2) /\ id \in DOMAIN d[t]
             /\ Statement(d, d2, CM!Repo!Delete(d, t, id))
    <2>1. CM!Ids(s[t]) \subseteq CM!Ids(CM!RemoveAt(s[t], i)) \cup {id}
        BY StoreParts, KeyedTables, IdsKept
    <2>2. DOMAIN CM!Repo!Without(d[t], id) = DOMAIN d[t] \ {id}
        BY DEF CM!Repo!Without, CM!Repo!Restrict
    <2>3. t \in DOMAIN d
        BY DbParts, KeyedTables
    <2>4. d2 # d
        BY <1>2, <1>5, <2>2, <2>3
    <2>5. RowsLast(d, d2, {<<t, id>>}) /\ ListLasts(s, s2, {<<t, id>>})
        <3>1. \A k \in Int : <<t, k>> \notin {<<t, id>>} =>
                /\ k \in DOMAIN d[t] => k \in DOMAIN CM!Repo!Without(d[t], id)
                /\ k \in CM!Ids(s[t]) => k \in CM!Ids(CM!RemoveAt(s[t], i))
            BY <2>1, <2>2
        <3> QED
            BY <1>1, <1>2, <3>1, TableLasts
    <2> QED
        BY <1>5, <2>4, <2>5, AfterLasts
<1> QED
    BY <1>1, <1>2, <1>3, <1>4, <1>5, DeleteStatement

\* The recount of the zones loses nothing.
LEMMA RecountLasts ==
    ASSUME NEW d, NEW s, NEW stmts, NEW s2, NEW gone, NEW o \in CM!After(s, stmts, CM!recalcZoneCounts(s2)),
           \A p \in CM!After(s, stmts, s2) : CM!IsStore(p.store) /\ Lasting(d, s, p, gone)
    PROVE  /\ Lasting(d, s, o, gone)
           /\ \E p \in CM!After(s, stmts, s2) : p.db = o.db /\ p.err = o.err
<1>1. PICK e \in stmts : o = [db |-> e.db, store |-> IF e.err = "ok" THEN CM!recalcZoneCounts(s2) ELSE s,
                              err |-> CM!wrapPersist(e.err)]
    BY DEF CM!After
<1> DEFINE p == [db |-> e.db, store |-> IF e.err = "ok" THEN s2 ELSE s, err |-> CM!wrapPersist(e.err)]
<1>2. p \in CM!After(s, stmts, s2)
    BY DEF CM!After
<1>3. p.db = o.db /\ p.err = o.err /\ p.store = IF e.err = "ok" THEN s2 ELSE s
    BY <1>1
<1>4. o.store = IF e.err = "ok" THEN CM!recalcZoneCounts(s2) ELSE s
    BY <1>1
<1> HIDE DEF p
<1>5. CM!IsStore(p.store) /\ Lasting(d, s, p, gone)
    BY <1>2
<1>6. \A t \in Tables, id \in Int : Shown(p.store, t, id) => Shown(o.store, t, id)
    <2>1. CASE e.err = "ok"
        <3>1. p.store = s2 /\ o.store = CM!recalcZoneCounts(s2) /\ CM!IsStore(s2)
            BY <1>3, <1>4, <1>5, <2>1
        <3>2. /\ \A t \in CM!Repo!Keyed : t # "zones" => o.store[t] = s2[t]
              /\ o.store.projects = s2.projects
              /\ DOMAIN o.store.zones = DOMAIN s2.zones
              /\ \A i \in DOMAIN s2.zones : o.store.zones[i].id = s2.zones[i].id
            BY <3>1, RecountStore, StoreParts
        <3>3. \A t \in CM!Repo!Keyed : CM!Ids(o.store[t]) = CM!Ids(s2[t])
            BY <3>2 DEF CM!Ids
        <3> QED
            BY <3>1, <3>2, <3>3 DEF Shown, HoldsTask
    <2>2. CASE e.err # "ok"
        BY <1>3, <1>4, <2>2
    <2> QED
        BY <2>1, <2>2
<1> QED
    BY <1>2, <1>3, <1>5, <1>6 DEF Lasting, Lasts, ListLasts

\* What the methods of engineers, milestones, materials and roles lose.
LEMMA EngineerLasts ==
    ASSUME NEW d, NEW s, CM!Repo!IsDb(d), CM!IsStore(s), NEW id, NEW data, NEW o
    PROVE  /\ o \in CM!CreateEngineer(d, s, data) => Lasts(d, s, o, {}) /\ (o.err = "ok" => o.db # d)
           /\ o \in CM!PatchEngineer(d, s, id, data) => Lasts(d, s, o, {})
           /\ o \in CM!DeleteEngineer(d, s, id) => Lasting(d, s, o, {<<"engineers", id>>})
<1> DEFINE t == "engineers"
           i == CM!Find(s[t], id)
           row == [id |-> CM!NextId(s[t]), data |-> data]
           new == [s[t][i] EXCEPT !.data = data]
<1>0. t \in Plain /\ t \in CM!Repo!Keyed
    BY PlainRow DEF Plain
<1>1. ASSUME o \in CM!CreateEngineer(d, s, data)
      PROVE  Lasts(d, s, o, {}) /\ (o.err = "ok" => o.db # d)
    <2>1. CM!Repo!IsRow(t, row)
        BY <1>0, PlainRow, NextIdInt
    <2>2. o \in CM!After(s, CM!Repo!Insert(d, t, row), [s EXCEPT ![t] = Append(s[t], row)])
        BY <1>1 DEF CM!CreateEngineer, CM!Grown, CM!Repo!InsertEngineer
    <2> HIDE DEF row, t
    <2> QED
        BY <2>1, <2>2, <1>0, GrownLasts
<1>2. ASSUME o \in CM!PatchEngineer(d, s, id, data)
      PROVE  Lasts(d, s, o, {})
    <2>1. CASE i = 0
        BY <2>1, <1>2, EndsLasts DEF CM!PatchEngineer, CM!Rewritten
    <2>2. CASE i # 0
        <3>1. i \in DOMAIN s[t] /\ new.id = s[t][i].id
            BY <2>2, <1>0, FoundRow, PlainRow
        <3>2. o \in CM!After(s, CM!Repo!Update(d, t, new), [s EXCEPT ![t] = [s[t] EXCEPT ![i] = new]])
            BY <2>2, <1>2 DEF CM!PatchEngineer, CM!Rewritten, CM!Repo!UpdateEngineer
        <3> HIDE DEF new, i, t
        <3> QED
            BY <3>1, <3>2, <1>0, RewrittenLasts
    <2> QED
        BY <2>1, <2>2
<1>3. ASSUME o \in CM!DeleteEngineer(d, s, id)
      PROVE  Lasting(d, s, o, {<<t, id>>})
    <2>1. CASE i = 0
        BY <2>1, <1>3, EndsLasts, MoreGone DEF CM!DeleteEngineer, CM!Dropped
    <2>2. CASE i # 0
        <3>1. i \in DOMAIN s[t] /\ id = s[t][i].id
            BY <2>2, <1>0, FoundRow
        <3>2. o \in CM!After(s, CM!Repo!Delete(d, t, id), [s EXCEPT ![t] = CM!RemoveAt(s[t], i)])
            BY <2>2, <1>3 DEF CM!DeleteEngineer, CM!Dropped, CM!Repo!DeleteEngineer
        <3> HIDE DEF i, t
        <3> QED
            BY <3>1, <3>2, <1>0, DroppedLasts
    <2> QED
        BY <2>1, <2>2
<1> QED
    BY <1>1, <1>2, <1>3

LEMMA MilestoneLasts ==
    ASSUME NEW d, NEW s, CM!Repo!IsDb(d), CM!IsStore(s), NEW id, NEW data, NEW o
    PROVE  /\ o \in CM!CreateMilestone(d, s, data) => Lasts(d, s, o, {}) /\ (o.err = "ok" => o.db # d)
           /\ o \in CM!PatchMilestone(d, s, id, data) => Lasts(d, s, o, {})
           /\ o \in CM!DeleteMilestone(d, s, id) => Lasting(d, s, o, {<<"milestones", id>>})
<1> DEFINE t == "milestones"
           i == CM!Find(s[t], id)
           row == [id |-> CM!NextId(s[t]), data |-> data]
           new == [s[t][i] EXCEPT !.data = data]
<1>0. t \in Plain /\ t \in CM!Repo!Keyed
    BY PlainRow DEF Plain
<1>1. ASSUME o \in CM!CreateMilestone(d, s, data)
      PROVE  Lasts(d, s, o, {}) /\ (o.err = "ok" => o.db # d)
    <2>1. CM!Repo!IsRow(t, row)
        BY <1>0, PlainRow, NextIdInt
    <2>2. o \in CM!After(s, CM!Repo!Insert(d, t, row), [s EXCEPT ![t] = Append(s[t], row)])
        BY <1>1 DEF CM!CreateMilestone, CM!Grown, CM!Repo!InsertMilestone
    <2> HIDE DEF row, t
    <2> QED
        BY <2>1, <2>2, <1>0, GrownLasts
<1>2. ASSUME o \in CM!PatchMilestone(d, s, id, data)
      PROVE  Lasts(d, s, o, {})
    <2>1. CASE i = 0
        BY <2>1, <1>2, EndsLasts DEF CM!PatchMilestone, CM!Rewritten
    <2>2. CASE i # 0
        <3>1. i \in DOMAIN s[t] /\ new.id = s[t][i].id
            BY <2>2, <1>0, FoundRow, PlainRow
        <3>2. o \in CM!After(s, CM!Repo!Update(d, t, new), [s EXCEPT ![t] = [s[t] EXCEPT ![i] = new]])
            BY <2>2, <1>2 DEF CM!PatchMilestone, CM!Rewritten, CM!Repo!UpdateMilestone
        <3> HIDE DEF new, i, t
        <3> QED
            BY <3>1, <3>2, <1>0, RewrittenLasts
    <2> QED
        BY <2>1, <2>2
<1>3. ASSUME o \in CM!DeleteMilestone(d, s, id)
      PROVE  Lasting(d, s, o, {<<t, id>>})
    <2>1. CASE i = 0
        BY <2>1, <1>3, EndsLasts, MoreGone DEF CM!DeleteMilestone, CM!Dropped
    <2>2. CASE i # 0
        <3>1. i \in DOMAIN s[t] /\ id = s[t][i].id
            BY <2>2, <1>0, FoundRow
        <3>2. o \in CM!After(s, CM!Repo!Delete(d, t, id), [s EXCEPT ![t] = CM!RemoveAt(s[t], i)])
            BY <2>2, <1>3 DEF CM!DeleteMilestone, CM!Dropped, CM!Repo!DeleteMilestone
        <3> HIDE DEF i, t
        <3> QED
            BY <3>1, <3>2, <1>0, DroppedLasts
    <2> QED
        BY <2>1, <2>2
<1> QED
    BY <1>1, <1>2, <1>3

LEMMA MaterialLasts ==
    ASSUME NEW d, NEW s, CM!Repo!IsDb(d), CM!IsStore(s), NEW id, NEW data, NEW o
    PROVE  /\ o \in CM!CreateMaterial(d, s, data) => Lasts(d, s, o, {}) /\ (o.err = "ok" => o.db # d)
           /\ o \in CM!PatchMaterial(d, s, id, data) => Lasts(d, s, o, {})
           /\ o \in CM!DeleteMaterial(d, s, id) => Lasting(d, s, o, {<<"materials", id>>})
<1> DEFINE t == "materials"
           i == CM!Find(s[t], id)
           row == [id |-> CM!NextId(s[t]), data |-> data]
           new == [s[t][i] EXCEPT !.data = data]
<1>0. t \in Plain /\ t \in CM!Repo!Keyed
    BY PlainRow DEF Plain
<1>1. ASSUME o \in CM!CreateMaterial(d, s, data)
      PROVE  Lasts(d, s, o, {}) /\ (o.err = "ok" => o.db # d)
    <2>1. CM!Repo!IsRow(t, row)
        BY <1>0, PlainRow, NextIdInt
    <2>2. o \in CM!After(s, CM!Repo!Insert(d, t, row), [s EXCEPT ![t] = Append(s[t], row)])
        BY <1>1 DEF CM!CreateMaterial, CM!Grown, CM!Repo!InsertMaterial
    <2> HIDE DEF row, t
    <2> QED
        BY <2>1, <2>2, <1>0, GrownLasts
<1>2. ASSUME o \in CM!PatchMaterial(d, s, id, data)
      PROVE  Lasts(d, s, o, {})
    <2>1. CASE i = 0
        BY <2>1, <1>2, EndsLasts DEF CM!PatchMaterial, CM!Rewritten
    <2>2. CASE i # 0
        <3>1. i \in DOMAIN s[t] /\ new.id = s[t][i].id
            BY <2>2, <1>0, FoundRow, PlainRow
        <3>2. o \in CM!After(s, CM!Repo!Update(d, t, new), [s EXCEPT ![t] = [s[t] EXCEPT ![i] = new]])
            BY <2>2, <1>2 DEF CM!PatchMaterial, CM!Rewritten, CM!Repo!UpdateMaterial
        <3> HIDE DEF new, i, t
        <3> QED
            BY <3>1, <3>2, <1>0, RewrittenLasts
    <2> QED
        BY <2>1, <2>2
<1>3. ASSUME o \in CM!DeleteMaterial(d, s, id)
      PROVE  Lasting(d, s, o, {<<t, id>>})
    <2>1. CASE i = 0
        BY <2>1, <1>3, EndsLasts, MoreGone DEF CM!DeleteMaterial, CM!Dropped
    <2>2. CASE i # 0
        <3>1. i \in DOMAIN s[t] /\ id = s[t][i].id
            BY <2>2, <1>0, FoundRow
        <3>2. o \in CM!After(s, CM!Repo!Delete(d, t, id), [s EXCEPT ![t] = CM!RemoveAt(s[t], i)])
            BY <2>2, <1>3 DEF CM!DeleteMaterial, CM!Dropped, CM!Repo!DeleteMaterial
        <3> HIDE DEF i, t
        <3> QED
            BY <3>1, <3>2, <1>0, DroppedLasts
    <2> QED
        BY <2>1, <2>2
<1> QED
    BY <1>1, <1>2, <1>3

LEMMA RoleLasts ==
    ASSUME NEW d, NEW s, CM!Repo!IsDb(d), CM!IsStore(s), NEW id, NEW data, NEW o
    PROVE  /\ o \in CM!CreateRole(d, s, data) => Lasts(d, s, o, {}) /\ (o.err = "ok" => o.db # d)
           /\ o \in CM!PatchRole(d, s, id, data) => Lasts(d, s, o, {})
<1> DEFINE t == "roles"
           i == CM!Find(s[t], id)
           row == [id |-> CM!NextId(s[t]), data |-> data]
           new == [s[t][i] EXCEPT !.data = data]
<1>0. t \in Plain /\ t \in CM!Repo!Keyed
    BY PlainRow DEF Plain
<1>1. ASSUME o \in CM!CreateRole(d, s, data)
      PROVE  Lasts(d, s, o, {}) /\ (o.err = "ok" => o.db # d)
    <2>1. CM!Repo!IsRow(t, row)
        BY <1>0, PlainRow, NextIdInt
    <2>2. o \in CM!After(s, CM!Repo!Insert(d, t, row), [s EXCEPT ![t] = Append(s[t], row)])
        BY <1>1 DEF CM!CreateRole, CM!Grown, CM!Repo!InsertCustomRole
    <2> HIDE DEF row, t
    <2> QED
        BY <2>1, <2>2, <1>0, GrownLasts
<1>2. ASSUME o \in CM!PatchRole(d, s, id, data)
      PROVE  Lasts(d, s, o, {})
    <2>1. CASE i = 0
        BY <2>1, <1>2, EndsLasts DEF CM!PatchRole, CM!Rewritten
    <2>2. CASE i # 0
        <3>1. i \in DOMAIN s[t] /\ new.id = s[t][i].id
            BY <2>2, <1>0, FoundRow, PlainRow
        <3>2. o \in CM!After(s, CM!Repo!Update(d, t, new), [s EXCEPT ![t] = [s[t] EXCEPT ![i] = new]])
            BY <2>2, <1>2 DEF CM!PatchRole, CM!Rewritten, CM!Repo!UpdateCustomRole
        <3> HIDE DEF new, i, t
        <3> QED
            BY <3>1, <3>2, <1>0, RewrittenLasts
    <2> QED
        BY <2>1, <2>2
<1> QED
    BY <1>1, <1>2


\* The methods of zones.
LEMMA CreateZoneLasts ==
    ASSUME NEW d, NEW s, CM!Repo!IsDb(d), CM!IsStore(s), NEW code \in Int, NEW name,
           NEW o \in CM!CreateZone(d, s, code, name)
    PROVE  Lasts(d, s, o, {}) /\ (o.err = "ok" => o.db # d)
<1> DEFINE t == "zones"
           z == [id |-> code, name |-> name, count |-> 0]
<1>0. t \in CM!Repo!Keyed /\ CM!Repo!IsRow(t, z)
    BY DEF CM!Repo!Keyed, CM!Repo!IsRow, CM!Repo!Columns
<1>1. CASE CM!Find(s.zones, code) # 0
    <2>1. o \in CM!Ends(d, s, "conflict")
        BY <1>1 DEF CM!CreateZone
    <2>2. o.err # "ok"
        BY <2>1 DEF CM!Ends
    <2> QED
        BY <2>1, <2>2, EndsLasts
<1>2. CASE CM!Find(s.zones, code) = 0
    <2>1. [z EXCEPT !.count = 0] = z
        OBVIOUS
    <2>2. o \in CM!After(s, CM!Repo!Insert(d, t, z), [s EXCEPT ![t] = Append(s[t], z)])
        BY <1>2, <2>1 DEF CM!CreateZone, CM!Grown, CM!Repo!InsertZone
    <2> HIDE DEF t, z
    <2> QED
        BY <2>2, <1>0, GrownLasts
<1> QED
    BY <1>1, <1>2

LEMMA DeleteZoneLasts ==
    ASSUME NEW d, NEW s, CM!Repo!IsDb(d), CM!IsStore(s), NEW code,
           NEW o \in CM!DeleteZone(d, s, code)
    PROVE  Lasting(d, s, o, {<<"zones", code>>})
<1> DEFINE t == "zones"
           i == CM!Find(s[t], code)
<1>0. t \in CM!Repo!Keyed
    BY DEF CM!Repo!Keyed
<1>1. CASE i = 0
    BY <1>1, EndsLasts, MoreGone DEF CM!DeleteZone, CM!Dropped
<1>2. CASE i # 0
    <2>1. i \in DOMAIN s[t] /\ code = s[t][i].id
        BY <1>2, <1>0, FoundRow
    <2>2. o \in CM!After(s, CM!Repo!DeleteZone(d, code), [s EXCEPT ![t] = CM!RemoveAt(s[t], i)])
        BY <1>2 DEF CM!DeleteZone, CM!Dropped
    <2>3. \/ CM!Repo!DeleteZone(d, code) = CM!Repo!Refused(d)
          \/ CM!Repo!DeleteZone(d, code) = CM!Repo!Delete(d, t, code)
        BY DEF CM!Repo!DeleteZone
    <2>4. Lasting(d, s, o, {<<t, code>>})
        <3> HIDE DEF t, i
        <3> QED
            BY <2>1, <2>2, <2>3, <1>0, DroppedLasts
    <2> QED
        BY <2>4
<1> QED
    BY <1>1, <1>2

\* The name and the count of a zone are written, whatever the answer.
LEMMA PatchZoneLasts ==
    ASSUME NEW d, NEW s, CM!Repo!IsDb(d), CM!IsStore(s), NEW code, NEW name,
           NEW o \in CM!PatchZone(d, s, code, name)
    PROVE  Lasts(d, s, o, {})
<1> DEFINE i == CM!Find(s.zones, code)
           rows == [s.zones EXCEPT ![i] = [s.zones[i] EXCEPT !.name = name]]
<1>0. "zones" \in CM!Repo!Keyed /\ "zones" \in Tables
    BY KeyedTables DEF CM!Repo!Keyed
<1>1. CASE i = 0
    BY <1>1, EndsLasts DEF CM!PatchZone
<1>2. CASE i # 0
    <2>0. i \in DOMAIN s.zones /\ CM!Repo!IsRow("zones", s.zones[i]) /\ CM!Repo!IsList("zones", s.zones)
        BY <1>2, <1>0, FoundRow, StoreParts
    <2>1. PICK s2 : s2 = [s EXCEPT !["zones"] = rows]
        OBVIOUS
    <2> DEFINE new == [s.zones[i] EXCEPT !.name = name]
    <2>2. new.id = s.zones[i].id /\ CM!Repo!IsRow("zones", new)
        BY <2>0, ZoneRow DEF CM!Repo!IsRow, CM!Repo!Columns
    <2>3. CM!Repo!IsList("zones", rows)
        <3>1. /\ Len(s.zones) \in Nat /\ DOMAIN s.zones = 1..Len(s.zones)
              /\ \A k \in DOMAIN s.zones : CM!Repo!IsRow("zones", s.zones[k])
            BY <2>0, ListSeq
        <3> HIDE DEF new
        <3>2. rows = [k \in 1..Len(s.zones) |-> IF k = i THEN new ELSE s.zones[k]]
            BY <3>1 DEF new
        <3>3. rows = [k \in 1..Len(s.zones) |-> rows[k]] /\ \A k \in 1..Len(s.zones) : CM!Repo!IsRow("zones", rows[k])
            BY <3>1, <3>2, <2>2
        <3> HIDE DEF rows
        <3> QED
            BY <3>1, <3>3, ListMade
    <2>4. CM!Ids(s.zones) \subseteq CM!Ids(rows)
        <3> HIDE DEF new
        <3>1. CM!Ids(s.zones) \subseteq CM!Ids([s.zones EXCEPT ![i] = new])
            BY <2>0, <2>2, <1>0, KeyedTables, IdsKept
        <3> QED
            BY <3>1 DEF new
    <2>5. o \in CM!After(CM!recalcZoneCounts(s2), CM!Repo!UpdateZone(d, CM!recalcZoneCounts(s2).zones[i]),
                         CM!recalcZoneCounts(s2))
        BY <1>2, <2>1 DEF CM!PatchZone
    <2> HIDE DEF rows, new
    <2>6. /\ DOMAIN s2 = DOMAIN s /\ s2.zones = rows /\ \A x \in DOMAIN s : x # "zones" => s2[x] = s[x]
        BY <2>1, <1>0, StoreParts
    <2>7. CM!IsStore(s2)
        <3>1. \A t \in CM!Repo!Keyed : CM!Repo!IsList(t, s2[t])
            BY <2>3, <2>6, StoreParts
        <3>2. s2.assistance = s.assistance /\ s2.projects = s.projects
            BY <2>6, StoreParts
        <3> QED
            BY <2>6, <3>1, <3>2 DEF CM!IsStore
    <2>8. o.store = CM!recalcZoneCounts(s2)
        BY <2>5 DEF CM!After
    <2>9. ListLasts(s, o.store, {})
        <3>1. /\ \A t \in CM!Repo!Keyed : t # "zones" => o.store[t] = s[t]
              /\ o.store.projects = s.projects
              /\ DOMAIN o.store.zones = DOMAIN rows
              /\ \A k \in DOMAIN rows : o.store.zones[k].id = rows[k].id
            BY <2>6, <2>7, <2>8, RecountStore, StoreParts
        <3>2. CM!Ids(o.store.zones) = CM!Ids(rows)
            BY <3>1 DEF CM!Ids
        <3>3. \A t \in CM!Repo!Keyed : CM!Ids(s[t]) \subseteq CM!Ids(o.store[t])
            BY <3>1, <3>2, <2>4
        <3> QED
            BY <3>1, <3>3 DEF ListLasts, Shown, HoldsTask
    <2>10. RowsLast(d, o.db, {})
        <3>1. PICK z : o \in CM!After(CM!recalcZoneCounts(s2), CM!Repo!UpdateZone(d, z), CM!recalcZoneCounts(s2))
            BY <2>5
        <3>2. o.db = d \/ o.db = [d EXCEPT !.zones[z.id].name = z.name]
            BY <3>1, HitOrSame DEF CM!After, CM!Repo!UpdateZone
        <3>3. PICK table : table = [d.zones EXCEPT ![z.id].name = z.name]
            OBVIOUS
        <3>4. o.db = d \/ o.db = [d EXCEPT !["zones"] = table]
            BY <3>2, <3>3
        <3>5. DOMAIN table = DOMAIN d.zones
            BY <3>3
        <3>6. RowsLast(d, [d EXCEPT !["zones"] = table], {})
            BY <3>5, <1>0, TableLasts
        <3> QED
            BY <3>4, <3>6, NothingGone
    <2> QED
        BY <2>9, <2>10 DEF Lasts
<1> QED
    BY <1>1, <1>2

\* One UpdateZoneCount.
LEMMA CountLasts ==
    ASSUME NEW d, NEW s, CM!Repo!IsDb(d), CM!IsStore(s), NEW code,
           NEW o \in CM!persistZoneCount(d, s, code)
    PROVE  Lasts(d, s, o, {})
<1>0. "zones" \in CM!Repo!Keyed
    BY DEF CM!Repo!Keyed
<1>1. PICK n : n = s.zones[CM!Find(s.zones, code)].count
    OBVIOUS
<1>2. PICK p \in CM!After(s, CM!Repo!UpdateZoneCount(d, code, n), s) : o = [p EXCEPT !.err = "ok"]
    BY <1>1 DEF CM!persistZoneCount
<1>3. o.db = p.db /\ o.store = s
    BY <1>2 DEF CM!After
<1>4. p.db = d \/ p.db = [d EXCEPT !.zones[code].count = n]
    BY <1>2, HitOrSame DEF CM!After, CM!Repo!UpdateZoneCount
<1>5. PICK table : table = [d.zones EXCEPT ![code].count = n]
    OBVIOUS
<1>6. RowsLast(d, [d EXCEPT !["zones"] = table], {})
    <2>1. DOMAIN table = DOMAIN d.zones
        BY <1>5
    <2> QED
        BY <2>1, <1>0, TableLasts
<1>7. p.db = d \/ p.db = [d EXCEPT !["zones"] = table]
    BY <1>4, <1>5
<1> QED
    BY <1>3, <1>6, <1>7, NothingGone DEF Lasts

\* The methods of contracts.
LEMMA CreateContractLasts ==
    ASSUME NEW d, NEW s, CM!Repo!IsDb(d), CM!IsStore(s),
           NEW no \in Int, NEW z, NEW sup, NEW st, NEW rep, NEW o,
           o \in CM!CreateContract(d, s, [id |-> no, zone |-> z, sup |-> sup, status |-> st, report |-> rep])
    PROVE  Lasts(d, s, o, {}) /\ (o.err = "ok" => o.db # d)
<1> DEFINE t == "contracts"
           c == [id |-> no, zone |-> z, sup |-> sup, status |-> CM!defaultStatus(st), report |-> rep]
           s2 == [s EXCEPT ![t] = Append(s[t], c)]
           stmts == CM!Repo!InsertContract(d, c)
<1>0. t \in CM!Repo!Keyed /\ CM!Repo!IsRow(t, c) /\ c.id \notin Unstored(t)
    BY ContractRow DEF Unstored
<1>1. o \in CM!insertContract(d, s, c)
    <2>1. [[id |-> no, zone |-> z, sup |-> sup, status |-> st, report |-> rep]
             EXCEPT !.status = CM!defaultStatus(@)] = c
        OBVIOUS
    <2> QED
        BY <2>1 DEF CM!CreateContract
<1>2. CASE CM!Find(s.contracts, no) # 0
    <2>1. o \in CM!Ends(d, s, "conflict")
        BY <1>1, <1>2 DEF CM!insertContract
    <2>2. o.err # "ok"
        BY <2>1 DEF CM!Ends
    <2> QED
        BY <2>1, <2>2, EndsLasts
<1>3. CASE CM!Find(s.contracts, no) = 0
    <2>1. o \in CM!After(s, stmts, CM!recalcZoneCounts(s2))
        BY <1>1, <1>3 DEF CM!insertContract
    <2>2. stmts = CM!Repo!Refused(d) \/ stmts = CM!Repo!Insert(d, t, c)
        BY DEF CM!Repo!InsertContract
    <2> HIDE DEF c, t, stmts
    <2>3. ASSUME NEW p \in CM!After(s, stmts, s2)
          PROVE  CM!IsStore(p.store) /\ Lasts(d, s, p, {}) /\ (p.err = "ok" => p.db # d)
        <3>1. Sound(d, s, p)
            BY <2>2, <2>3, <1>0, GrownSound
        <3> QED
            BY <2>2, <2>3, <3>1, <1>0, GrownLasts DEF Sound
    <2> HIDE DEF s2
    <2>4. Lasting(d, s, o, {}) /\ \E p \in CM!After(s, stmts, s2) : p.db = o.db /\ p.err = o.err
        BY <2>1, <2>3, MoreGone, RecountLasts
    <2> QED
        BY <2>3, <2>4 DEF Lasting
<1> QED
    BY <1>2, <1>3

LEMMA UpdateContractLasts ==
    ASSUME NEW d, NEW s, CM!Repo!IsDb(d), CM!IsStore(s), NEW no, NEW patch, "id" \notin DOMAIN patch,
           NEW o \in CM!updateContract(d, s, no, patch)
    PROVE  Lasts(d, s, o, {})
<1> DEFINE t == "contracts"
           i == CM!Find(s[t], no)
           c == CM!Patched(s[t][i], patch)
           s2 == [s EXCEPT ![t] = [s[t] EXCEPT ![i] = c]]
           stmts == CM!Repo!UpdateContract(d, c)
<1>0. t \in CM!Repo!Keyed /\ t \in Kinds
    BY ContractRow, KeyedTables
<1>2. CASE i = 0
    BY <1>2, EndsLasts DEF CM!updateContract
<1>3. CASE i # 0
    <2>0. i \in DOMAIN s[t] /\ CM!Repo!IsRow(t, c) /\ c.id = s[t][i].id
        BY <1>0, <1>3, FoundRow, PatchedRow, RowId
    <2>1. o \in CM!After(s, stmts, CM!recalcZoneCounts(s2))
        BY <1>3 DEF CM!updateContract
    <2>2. stmts = CM!Repo!Refused(d) \/ stmts = CM!Repo!Update(d, t, c)
        BY DEF CM!Repo!UpdateContract
    <2> HIDE DEF c, t, stmts, i
    <2>3. ASSUME NEW p \in CM!After(s, stmts, s2)
          PROVE  CM!IsStore(p.store) /\ Lasting(d, s, p, {})
        <3>1. Sound(d, s, p)
            BY <2>0, <2>2, <2>3, <1>0, RewrittenSound
        <3>2. Lasts(d, s, p, {})
            BY <2>0, <2>2, <2>3, <1>0, RewrittenLasts
        <3> QED
            BY <3>1, <3>2, MoreGone DEF Sound
    <2> HIDE DEF s2
    <2> QED
        BY <2>1, <2>3, RecountLasts DEF Lasting
<1> QED
    BY <1>2, <1>3

LEMMA DeleteContractLasts ==
    ASSUME NEW d, NEW s, CM!Repo!IsDb(d), CM!IsStore(s), NEW no,
           NEW o \in CM!deleteContract(d, s, no)
    PROVE  Lasting(d, s, o, {<<"contracts", no>>})
<1> DEFINE t == "contracts"
           i == CM!Find(s[t], no)
           s2 == [s EXCEPT ![t] = CM!RemoveAt(s[t], i)]
           stmts == CM!Repo!Delete(d, t, no)
<1>0. t \in CM!Repo!Keyed
    BY ContractRow
<1>2. CASE i = 0
    BY <1>2, EndsLasts, MoreGone DEF CM!deleteContract
<1>3. CASE i # 0
    <2>0. i \in DOMAIN s[t] /\ no = s[t][i].id
        BY <1>0, <1>3, FoundRow
    <2>1. o \in CM!After(s, stmts, CM!recalcZoneCounts(s2))
        BY <1>3 DEF CM!deleteContract, CM!Repo!DeleteContract
    <2>2. Lasting(d, s, o, {<<t, no>>})
        <3> HIDE DEF t, i
        <3>1. ASSUME NEW p \in CM!After(s, stmts, s2)
              PROVE  CM!IsStore(p.store) /\ Lasting(d, s, p, {<<t, no>>})
            <4>1. Sound(d, s, p)
                BY <2>0, <3>1, <1>0, DroppedSound
            <4> QED
                BY <2>0, <3>1, <4>1, <1>0, DroppedLasts DEF Sound
        <3> HIDE DEF s2, stmts
        <3> QED
            BY <2>1, <3>1, RecountLasts
    <2> QED
        BY <2>2
<1> QED
    BY <1>2, <1>3

\* The methods of users.
LEMMA CreateUserLasts ==
    ASSUME NEW d, NEW s, CM!Repo!IsDb(d), CM!IsStore(s), NEW email, NEW role,
           NEW o \in CM!CreateUser(d, s, email, role)
    PROVE  Lasts(d, s, o, {}) /\ (o.err = "ok" => o.db # d)
<1> DEFINE t == "users"
           u == [id |-> CM!NextId(s.users), email |-> email, name |-> "given", status |-> "active", role |-> role]
           stmts == CM!Repo!InsertWorkspaceUser(d, u)
<1>0. t \in CM!Repo!Keyed /\ CM!Repo!IsRow(t, u)
    <2>1. CM!NextId(s.users) \in Int
        BY NextIdInt DEF CM!Repo!Keyed
    <2> QED
        BY <2>1 DEF CM!Repo!Keyed, CM!Repo!IsRow, CM!Repo!Columns
<1>1. CASE \E v \in CM!Range(s.users) : v.email = email
    <2>1. o \in CM!Ends(d, s, "conflict")
        BY <1>1 DEF CM!CreateUser
    <2>2. o.err # "ok"
        BY <2>1 DEF CM!Ends
    <2> QED
        BY <2>1, <2>2, EndsLasts
<1>2. CASE ~ \E v \in CM!Range(s.users) : v.email = email
    <2>1. o \in CM!After(s, stmts, [s EXCEPT ![t] = Append(s[t], u)])
        BY <1>2 DEF CM!CreateUser, CM!Grown
    <2>2. stmts = CM!Repo!Refused(d) \/ stmts = CM!Repo!Insert(d, t, u)
        BY DEF CM!Repo!InsertWorkspaceUser
    <2> HIDE DEF t, u, stmts
    <2> QED
        BY <2>1, <2>2, <1>0, GrownLasts
<1> QED
    BY <1>1, <1>2

LEMMA PatchUserLasts ==
    ASSUME NEW d, NEW s, CM!Repo!IsDb(d), CM!IsStore(s), NEW id, NEW patch, "id" \notin DOMAIN patch,
           NEW o \in CM!PatchUser(d, s, id, patch)
    PROVE  Lasts(d, s, o, {})
<1> DEFINE t == "users"
           i == CM!Find(s[t], id)
           u == CM!Patched(s[t][i], patch)
           stmts == CM!Repo!UpdateWorkspaceUser(d, u)
<1>0. t \in CM!Repo!Keyed /\ t \in Kinds
    BY KeyedTables DEF CM!Repo!Keyed
<1>1. CASE i = 0
    BY <1>1, EndsLasts DEF CM!PatchUser, CM!Rewritten
<1>2. CASE i # 0
    <2>0. i \in DOMAIN s[t] /\ u.id = s[t][i].id
        BY <1>0, <1>2, FoundRow, PatchedRow, RowId
    <2>1. o \in CM!After(s, stmts, [s EXCEPT ![t] = [s[t] EXCEPT ![i] = u]])
        BY <1>2 DEF CM!PatchUser, CM!Rewritten
    <2>2. stmts = CM!Repo!Refused(d) \/ stmts = CM!Repo!Update(d, t, u)
        BY DEF CM!Repo!UpdateWorkspaceUser
    <2> HIDE DEF t, u, stmts, i
    <2> QED
        BY <2>0, <2>1, <2>2, <1>0, RewrittenLasts
<1> QED
    BY <1>1, <1>2

LEMMA ProfileLasts ==
    ASSUME NEW d, NEW s, CM!Repo!IsDb(d), CM!IsStore(s), NEW email, NEW name,
           NEW o \in CM!PatchProfileForSession(d, s, email, name)
    PROVE  Lasts(d, s, o, {})
BY EndsLasts, PatchUserLasts DEF CM!PatchProfileForSession

\* DeleteRole takes the role away and leaves every user.
LEMMA DeleteRoleLasts ==
    ASSUME NEW d, NEW s, CM!Repo!IsDb(d), CM!IsStore(s), NEW id,
           NEW o \in CM!DeleteRole(d, s, id)
    PROVE  Lasting(d, s, o, {<<"roles", id>>})
<1> DEFINE i == CM!Find(s.roles, id)
           freed(u) == IF u.role = id THEN [u EXCEPT !.role = None] ELSE u
<1>0. /\ "roles" \in CM!Repo!Keyed /\ "roles" \in Kinds /\ "users" \in CM!Repo!Keyed /\ "users" \in Kinds
      /\ "roles" \in DOMAIN d /\ "users" \in DOMAIN d /\ "roles" \in DOMAIN s /\ "users" \in DOMAIN s
    BY KeyedTables, DbParts, StoreParts DEF CM!Repo!Keyed
<1>1. CASE i = 0
    BY <1>1, EndsLasts, MoreGone DEF CM!DeleteRole
<1>2. CASE i # 0
    <2>1. PICK table : table = [u \in DOMAIN d.users |-> freed(d.users[u])]
        OBVIOUS
    <2>2. PICK rows : rows = [k \in DOMAIN s.users |-> freed(s.users[k])]
        OBVIOUS
    <2>3. PICK d2 : d2 = [d EXCEPT !.roles = CM!Repo!Without(@, id), !.users = table]
        OBVIOUS
    <2>4. PICK s2 : s2 = [s EXCEPT !.roles = CM!RemoveAt(@, i), !.users = rows]
        OBVIOUS
    <2>5. o \in CM!After(s, CM!Repo!errOrNotFound(d, id \in DOMAIN d.roles, d2), s2)
        BY <1>2, <2>1, <2>2, <2>3, <2>4 DEF CM!DeleteRole, CM!Repo!DeleteCustomRole
    <2>6. i \in DOMAIN s.roles /\ id = s.roles[i].id
        BY <1>0, <1>2, FoundRow
    <2>7. CM!Ids(s.users) \subseteq CM!Ids(rows)
        <3>1. \A k \in DOMAIN s.users : CM!Repo!IsRow("users", s.users[k])
            BY <1>0, StoreParts, ListSeq
        <3>2. \A u : CM!Repo!IsRow("users", u) => freed(u).id = u.id
            BY DEF CM!Repo!IsRow, CM!Repo!Columns
        <3>3. DOMAIN rows = DOMAIN s.users /\ \A k \in DOMAIN s.users : rows[k] = freed(s.users[k])
            BY <2>2
        <3> HIDE DEF freed
        <3>4. \A k \in DOMAIN s.users : rows[k].id = s.users[k].id
            BY <3>1, <3>2, <3>3
        <3> QED
            BY <3>3, <3>4 DEF CM!Ids
    <2>8. DOMAIN table = DOMAIN d.users
        BY <2>1
    <2> HIDE DEF freed, i
    <2>9. /\ d2.roles = CM!Repo!Without(d.roles, id) /\ d2.users = table
          /\ \A u \in Tables : u \notin {"roles", "users"} => d2[u] = d[u]
        BY <1>0, <2>3, DbParts
    <2>10. /\ s2.roles = CM!RemoveAt(s.roles, i) /\ s2.users = rows /\ s2.projects = s.projects
           /\ \A u \in CM!Repo!Keyed : u \notin {"roles", "users"} => s2[u] = s[u]
        BY <1>0, <2>4, StoreParts
    <2>11. DOMAIN d2.roles = DOMAIN d.roles \ {id}
        BY <2>9 DEF CM!Repo!Without, CM!Repo!Restrict
    <2>12. CM!Ids(s.roles) \subseteq CM!Ids(s2.roles) \cup {id}
        BY <1>0, <2>6, <2>10, StoreParts, IdsKept
    <2>13. RowsLast(d, d2, {<<"roles", id>>})
        <3>1. {"tasks", "projects"} \subseteq Tables
            BY DEF Tables, CM!Repo!Tables
        <3> QED
            BY <2>8, <2>9, <2>11, <3>1 DEF RowsLast, Held
    <2>14. ListLasts(s, s2, {<<"roles", id>>})
        BY <2>7, <2>10, <2>12 DEF ListLasts, Shown, HoldsTask
    <2>15. CASE id \in DOMAIN d.roles
        <3>1. Statement(d, d2, CM!Repo!errOrNotFound(d, id \in DOMAIN d.roles, d2))
            BY <2>15 DEF CM!Repo!errOrNotFound, CM!Repo!Ran, CM!Repo!Told, Statement
        <3>2. d2 # d
            BY <2>11, <2>15
        <3> QED
            BY <2>5, <2>13, <2>14, <3>1, <3>2, AfterLasts
    <2>16. CASE id \notin DOMAIN d.roles
        <3>1. Missed(d, CM!Repo!errOrNotFound(d, id \in DOMAIN d.roles, d2))
            BY <2>16 DEF CM!Repo!errOrNotFound, CM!Repo!Refused, CM!Repo!Told, Missed
        <3> QED
            BY <2>5, <3>1, MissedLasts, MoreGone
    <2> QED
        BY <2>15, <2>16
<1> QED
    BY <1>1, <1>2

\* A statement that loses no row but those that are gone, and none when it fails.
Spares(d, stmts, gone) ==
    \A e \in stmts : RowsLast(d, e.db, gone) /\ (e.err \notin {"ok", "lost"} => e.db = d)

\* A statement of one of two outcomes spares what its success spares.
LEMMA RanSpares ==
    ASSUME NEW d, NEW after, NEW gone, RowsLast(d, after, gone), NEW hit
    PROVE  /\ Spares(d, CM!Repo!Ran(d, after), gone) /\ Spares(d, CM!Repo!Refused(d), gone)
           /\ Spares(d, CM!Repo!errOrNotFound(d, hit, after), gone) /\ Spares(d, CM!SkipRepo(d), gone)
BY NothingGone DEF Spares, CM!Repo!Ran, CM!Repo!Refused, CM!Repo!errOrNotFound, CM!Repo!Told, CM!SkipRepo

LEMMA SparesLasts ==
    ASSUME NEW d, NEW s, NEW s2, NEW gone, ListLasts(s, s2, gone),
           NEW stmts, Spares(d, stmts, gone), NEW o \in CM!After(s, stmts, s2)
    PROVE  /\ Lasts(d, s, o, gone)
           /\ o.err \notin {"ok", "lost"} => Lasts(d, s, o, {})
<1>1. PICK e \in stmts : /\ o.db = e.db /\ o.err = CM!wrapPersist(e.err)
                         /\ o.store = IF e.err = "ok" THEN s2 ELSE s
    BY DEF CM!After
<1>2. RowsLast(d, o.db, gone) /\ (o.err \notin {"ok", "lost"} => o.db = d /\ o.store = s)
    BY <1>1 DEF Spares, CM!wrapPersist
<1>3. ListLasts(s, o.store, gone)
    BY <1>1, NothingGone
<1> QED
    BY <1>2, <1>3, NothingGone DEF Lasts

\* The board of the store changes.
LEMMA BoardLasts ==
    ASSUME NEW s, CM!IsStore(s), NEW rows, NEW s2, s2 = [s EXCEPT !["projects"] = rows], NEW gone,
           \A i \in DOMAIN s.projects : \A id \in CM!Ids(s.projects[i].tasks) :
             <<"tasks", id>> \notin gone => \E j \in DOMAIN rows : id \in CM!Ids(rows[j].tasks)
    PROVE  ListLasts(s, s2, gone)
<1>1. s2.projects = rows /\ \A t \in CM!Repo!Keyed : s2[t] = s[t]
    BY StoreParts DEF CM!Repo!Keyed
<1> QED
    BY <1>1 DEF ListLasts, Shown, HoldsTask

\* What the statements of projects and tasks take away.
LEMMA InsertTaskProjectSpares ==
    ASSUME NEW d, CM!Repo!IsDb(d), NEW name
    PROVE  /\ Spares(d, CM!Repo!InsertTaskProject(d, name), {})
           /\ \A e \in CM!Repo!InsertTaskProject(d, name) : e.err = "ok" => d.serial \in DOMAIN e.db.projects
<1> DEFINE p == [id |-> d.serial, order |-> CM!Repo!NextOrder(d), name |-> name]
           table == CM!Repo!With(d.projects, d.serial, p)
<1>1. PICK d2 : d2 = [d EXCEPT !.projects = table, !.serial = @ + 1]
    OBVIOUS
<1>2. CM!Repo!InsertTaskProject(d, name) \in {CM!Repo!Refused(d), CM!Repo!Ran(d, d2)}
    BY <1>1 DEF CM!Repo!InsertTaskProject
<1>3. DOMAIN table = DOMAIN d.projects \cup {d.serial}
    BY DEF CM!Repo!With
<1> HIDE DEF table
<1>4. d2.projects = table /\ d2.tasks = d.tasks /\ \A t \in CM!Repo!Keyed : d2[t] = d[t]
    BY <1>1, DbFields, DbParts, KeyedTables DEF CM!Repo!Keyed
<1>5. Tables = CM!Repo!Keyed \cup {"projects", "tasks"} /\ "tasks" \notin CM!Repo!Keyed
    BY DEF Tables, CM!Repo!Tables, CM!Repo!Keyed
<1>6. RowsLast(d, d2, {})
    BY <1>3, <1>4, <1>5 DEF RowsLast, Held
<1>7. Spares(d, CM!Repo!InsertTaskProject(d, name), {})
    BY <1>2, <1>6, RanSpares
<1>8. \A e \in CM!Repo!InsertTaskProject(d, name) : e.err = "ok" => e.db = d2
    BY <1>2 DEF CM!Repo!Refused, CM!Repo!Ran, CM!Repo!Told
<1> QED
    BY <1>3, <1>4, <1>7, <1>8

LEMMA UpdateTaskProjectSpares ==
    ASSUME NEW d, CM!Repo!IsDb(d), NEW id, NEW name
    PROVE  Spares(d, CM!Repo!UpdateTaskProject(d, id, name), {})
<1>1. PICK d2 : d2 = [d EXCEPT !.projects[id].name = name]
    OBVIOUS
<1>2. PICK table : table = [d.projects EXCEPT ![id].name = name]
    OBVIOUS
<1>3. d2 = [d EXCEPT !["projects"] = table] /\ DOMAIN table = DOMAIN d.projects
    BY <1>1, <1>2
<1>4. d2.projects = table /\ d2.tasks = d.tasks /\ \A t \in CM!Repo!Keyed : d2[t] = d[t]
    BY <1>3, DbFields, DbParts, KeyedTables DEF CM!Repo!Keyed
<1>5. Tables = CM!Repo!Keyed \cup {"projects", "tasks"} /\ "tasks" \notin CM!Repo!Keyed
    BY DEF Tables, CM!Repo!Tables, CM!Repo!Keyed
<1>6. RowsLast(d, d2, {})
    BY <1>3, <1>4, <1>5 DEF RowsLast, Held
<1>7. CM!Repo!UpdateTaskProject(d, id, name) = CM!Repo!errOrNotFound(d, id \in DOMAIN d.projects, d2)
    BY <1>1 DEF CM!Repo!UpdateTaskProject
<1> QED
    BY <1>6, <1>7, RanSpares

LEMMA DeleteTaskProjectSpares ==
    ASSUME NEW d, CM!Repo!IsDb(d), NEW id, NEW gone, <<"projects", id>> \in gone,
           \A t \in DOMAIN d.tasks : d.tasks[t].project = id => <<"tasks", t>> \in gone
    PROVE  Spares(d, CM!Repo!DeleteTaskProject(d, id), gone)
<1> DEFINE projects == CM!Repo!Without(d.projects, id)
           tasks == CM!Repo!Restrict(d.tasks, {t \in DOMAIN d.tasks : d.tasks[t].project # id})
<1>1. PICK d2 : d2 = [d EXCEPT !.projects = projects, !.tasks = tasks]
    OBVIOUS
<1>2. CM!Repo!DeleteTaskProject(d, id) = CM!Repo!errOrNotFound(d, id \in DOMAIN d.projects, d2)
    BY <1>1 DEF CM!Repo!DeleteTaskProject
<1>3. /\ DOMAIN projects = DOMAIN d.projects \ {id}
      /\ DOMAIN tasks = {t \in DOMAIN d.tasks : d.tasks[t].project # id}
      /\ \A t \in DOMAIN tasks : tasks[t] = d.tasks[t]
    BY DEF CM!Repo!Without, CM!Repo!Restrict
<1> HIDE DEF projects, tasks
<1>4. d2.projects = projects /\ d2.tasks = tasks /\ \A t \in CM!Repo!Keyed : d2[t] = d[t]
    BY <1>1, DbFields, DbParts, KeyedTables DEF CM!Repo!Keyed
<1>5. Tables = CM!Repo!Keyed \cup {"projects", "tasks"} /\ "tasks" \notin CM!Repo!Keyed
    BY DEF Tables, CM!Repo!Tables, CM!Repo!Keyed
<1>6. RowsLast(d, d2, gone)
    BY <1>3, <1>4, <1>5 DEF RowsLast, Held
<1> QED
    BY <1>2, <1>6, RanSpares

LEMMA InsertTaskItemSpares ==
    ASSUME NEW d, CM!Repo!IsDb(d), NEW project, NEW id, NEW title
    PROVE  LET stmts == CM!Repo!InsertTaskItem(d, project, [id |-> id, title |-> title]) IN
           /\ Spares(d, stmts, {})
           /\ \A e \in stmts : e.err = "ok" => e.db # d /\ Held(e.db, "tasks", id)
<1> DEFINE row == [id |-> id, project |-> project, title |-> title]
           tasks == CM!Repo!With(d.tasks, id, row)
           stmts == CM!Repo!InsertTaskItem(d, project, [id |-> id, title |-> title])
<1>1. PICK d2 : d2 = [d EXCEPT !.tasks = tasks]
    OBVIOUS
<1>2. \/ stmts = CM!Repo!Refused(d)
      \/ id \notin DOMAIN d.tasks /\ project \in DOMAIN d.projects /\ stmts = CM!Repo!Ran(d, d2)
    BY <1>1 DEF CM!Repo!InsertTaskItem
<1>3. /\ DOMAIN tasks = DOMAIN d.tasks \cup {id} /\ tasks[id].project = project
      /\ \A t \in DOMAIN d.tasks : t # id => tasks[t] = d.tasks[t]
    BY DEF CM!Repo!With
<1> HIDE DEF tasks, stmts
<1>4. d2.projects = d.projects /\ d2.tasks = tasks /\ \A t \in CM!Repo!Keyed : d2[t] = d[t]
    BY <1>1, DbFields, DbParts, KeyedTables DEF CM!Repo!Keyed
<1>5. Tables = CM!Repo!Keyed \cup {"projects", "tasks"} /\ "tasks" \notin CM!Repo!Keyed
    BY DEF Tables, CM!Repo!Tables, CM!Repo!Keyed
<1>6. CASE stmts = CM!Repo!Refused(d)
    <2>1. \A e \in stmts : e.err # "ok" /\ e.db = d
        BY <1>6 DEF CM!Repo!Refused, CM!Repo!Told
    <2> QED
        BY <2>1, NothingGone DEF Spares, stmts
<1>7. CASE id \notin DOMAIN d.tasks /\ project \in DOMAIN d.projects /\ stmts = CM!Repo!Ran(d, d2)
    <2>1. RowsLast(d, d2, {})
        BY <1>3, <1>4, <1>5, <1>7 DEF RowsLast, Held
    <2>2. \A e \in stmts : e.err = "ok" => e.db = d2
        BY <1>7 DEF CM!Repo!Ran, CM!Repo!Told
    <2>3. d2 # d /\ Held(d2, "tasks", id)
        BY <1>3, <1>4, <1>7 DEF Held
    <2>4. Spares(d, stmts, {})
        BY <1>7, <2>1, RanSpares
    <2> QED
        BY <2>2, <2>3, <2>4 DEF stmts
<1> QED
    BY <1>2, <1>6, <1>7

LEMMA UpdateTaskItemSpares ==
    ASSUME NEW d, CM!Repo!IsDb(d), NEW project, NEW t
    PROVE  Spares(d, CM!Repo!UpdateTaskItem(d, project, t), {})
<1>1. PICK d2 : d2 = [d EXCEPT !.tasks[t.id].title = t.title]
    OBVIOUS
<1>2. PICK tasks : tasks = [d.tasks EXCEPT ![t.id].title = t.title]
    OBVIOUS
<1>3. d2 = [d EXCEPT !["tasks"] = tasks] /\ DOMAIN tasks = DOMAIN d.tasks
    BY <1>1, <1>2
<1>4. d2.projects = d.projects /\ d2.tasks = tasks /\ \A u \in CM!Repo!Keyed : d2[u] = d[u]
    BY <1>3, DbFields, DbParts, KeyedTables DEF CM!Repo!Keyed
<1>5. Tables = CM!Repo!Keyed \cup {"projects", "tasks"} /\ "tasks" \notin CM!Repo!Keyed
    BY DEF Tables, CM!Repo!Tables, CM!Repo!Keyed
<1>6. \A k \in DOMAIN d.tasks : tasks[k].project = d.tasks[k].project
    <2>1. ASSUME NEW k \in DOMAIN d.tasks
          PROVE  tasks[k].project = d.tasks[k].project
        <3>1. "project" \in DOMAIN d.tasks[k]
            BY DbFields, TableRow DEF CM!Repo!IsRow, CM!Repo!Columns
        <3>2. CASE k = t.id
            <4>1. tasks[k] = [d.tasks[k] EXCEPT !.title = t.title]
                BY <1>2, <3>2
            <4> QED
                BY <3>1, <4>1
        <3>3. CASE k # t.id
            BY <1>2, <3>3
        <3> QED
            BY <3>2, <3>3
    <2> QED
        BY <2>1
<1>7. RowsLast(d, d2, {})
    BY <1>3, <1>4, <1>5, <1>6 DEF RowsLast, Held
<1>8. CM!Repo!UpdateTaskItem(d, project, t) = CM!Repo!errOrNotFound(d, CM!Repo!TaskOf(d, project, t.id), d2)
    BY <1>1 DEF CM!Repo!UpdateTaskItem
<1> QED
    BY <1>7, <1>8, RanSpares

LEMMA DeleteTaskItemSpares ==
    ASSUME NEW d, CM!Repo!IsDb(d), NEW project, NEW id
    PROVE  Spares(d, CM!Repo!DeleteTaskItem(d, project, id), {<<"tasks", id>>})
<1>1. PICK d2 : d2 = [d EXCEPT !["tasks"] = CM!Repo!Without(d.tasks, id)]
    OBVIOUS
<1>2. CM!Repo!DeleteTaskItem(d, project, id) = CM!Repo!errOrNotFound(d, CM!Repo!TaskOf(d, project, id), d2)
    BY <1>1 DEF CM!Repo!DeleteTaskItem
<1>3. /\ DOMAIN CM!Repo!Without(d.tasks, id) = DOMAIN d.tasks \ {id}
      /\ \A t \in DOMAIN d.tasks \ {id} : CM!Repo!Without(d.tasks, id)[t] = d.tasks[t]
    BY DEF CM!Repo!Without, CM!Repo!Restrict
<1>4. /\ d2.projects = d.projects /\ d2.tasks = CM!Repo!Without(d.tasks, id)
      /\ \A t \in CM!Repo!Keyed : d2[t] = d[t]
    BY <1>1, DbFields, DbParts, KeyedTables DEF CM!Repo!Keyed
<1>5. Tables = CM!Repo!Keyed \cup {"projects", "tasks"} /\ "tasks" \notin CM!Repo!Keyed
    BY DEF Tables, CM!Repo!Tables, CM!Repo!Keyed
<1>6. RowsLast(d, d2, {<<"tasks", id>>})
    BY <1>3, <1>4, <1>5 DEF RowsLast, Held
<1> QED
    BY <1>2, <1>6, RanSpares

\* A project without a surrogate loses nothing.
LEMMA StoredSpares ==
    ASSUME NEW d, NEW p, NEW stmts, NEW gone, Spares(d, stmts, gone)
    PROVE  Spares(d, CM!Stored(d, p, stmts), gone)
BY NothingGone DEF Spares, CM!Stored, CM!SkipRepo, CM!Repo!Told

\* What the methods of projects and tasks lose.
LEMMA CreateProjectLasts ==
    ASSUME NEW d, NEW s, CM!Repo!IsDb(d), CM!IsStore(s), NEW name, NEW o \in CM!CreateProject(d, s, name)
    PROVE  Lasts(d, s, o, {}) /\ (o.err = "ok" => d.serial \in DOMAIN o.db.projects)
<1> DEFINE p == [dbid |-> d.serial, name |-> name, tasks |-> <<>>]
           stmts == CM!Repo!InsertTaskProject(d, name)
<1>1. PICK rows : rows = Append(s.projects, p)
    OBVIOUS
<1>2. PICK s2 : s2 = [s EXCEPT !["projects"] = rows]
    OBVIOUS
<1>3. o \in CM!After(s, stmts, s2)
    BY <1>1, <1>2 DEF CM!CreateProject
<1>4. Spares(d, stmts, {}) /\ \A e \in stmts : e.err = "ok" => d.serial \in DOMAIN e.db.projects
    BY InsertTaskProjectSpares
<1>5. s.projects \in Seq(Range(s.projects)) /\ CM!IsBoard(s.projects)
    BY BoardParts DEF CM!IsStore
<1> HIDE DEF p, stmts
<1>6. DOMAIN s.projects \subseteq DOMAIN rows /\ \A i \in DOMAIN s.projects : rows[i] = s.projects[i]
    <2>1. s.projects \in Seq(Range(s.projects) \cup {p})
        BY <1>5
    <2> QED
        BY <1>1, <2>1
<1>7. ListLasts(s, s2, {})
    BY <1>2, <1>6, BoardLasts
<1>8. Lasts(d, s, o, {})
    BY <1>3, <1>4, <1>7, SparesLasts
<1>9. \E e \in stmts : o.db = e.db /\ o.err = CM!wrapPersist(e.err)
    BY <1>3 DEF CM!After
<1> QED
    BY <1>4, <1>8, <1>9 DEF CM!wrapPersist

LEMMA PatchProjectLasts ==
    ASSUME NEW d, NEW s, CM!Repo!IsDb(d), CM!IsStore(s), NEW i, NEW name, NEW o \in CM!PatchProject(d, s, i, name)
    PROVE  Lasts(d, s, o, {})
<1>1. CASE i \notin DOMAIN s.projects
    BY <1>1, EndsLasts DEF CM!PatchProject
<1>2. CASE i \in DOMAIN s.projects
    <2> DEFINE stmts == CM!Stored(d, s.projects[i], CM!Repo!UpdateTaskProject(d, s.projects[i].dbid, name))
    <2>0. IsProject(s.projects[i])
        BY <1>2, BoardParts DEF CM!IsStore
    <2>1. PICK p : p = [s.projects[i] EXCEPT !.name = name]
        OBVIOUS
    <2>2. PICK rows : rows = [s.projects EXCEPT ![i] = p]
        OBVIOUS
    <2>3. PICK s2 : s2 = [s EXCEPT !["projects"] = rows]
        OBVIOUS
    <2>4. o \in CM!After(s, stmts, s2)
        BY <1>2, <2>1, <2>2, <2>3 DEF CM!PatchProject
    <2>5. Spares(d, stmts, {})
        BY UpdateTaskProjectSpares, StoredSpares
    <2> HIDE DEF stmts
    <2>6. p.tasks = s.projects[i].tasks
        BY <2>0, <2>1 DEF IsProject
    <2>7. DOMAIN rows = DOMAIN s.projects /\ \A j \in DOMAIN s.projects : rows[j].tasks = s.projects[j].tasks
        BY <2>2, <2>6
    <2>8. ListLasts(s, s2, {})
        BY <2>3, <2>7, BoardLasts
    <2> QED
        BY <2>4, <2>5, <2>8, SparesLasts
<1> QED
    BY <1>1, <1>2

LEMMA DeleteProjectLasts ==
    ASSUME NEW d, NEW s, CM!Repo!IsDb(d), CM!IsStore(s), NEW i, NEW o \in CM!DeleteProject(d, s, i), NEW gone,
           <<"projects", s.projects[i].dbid>> \in gone,
           \A t \in DOMAIN d.tasks : d.tasks[t].project = s.projects[i].dbid => <<"tasks", t>> \in gone,
           \A t \in CM!Ids(s.projects[i].tasks) : <<"tasks", t>> \in gone
    PROVE  Lasts(d, s, o, gone) /\ (o.err \notin {"ok", "lost"} => Lasts(d, s, o, {}))
<1>1. CASE i \notin DOMAIN s.projects
    <2>1. o \in CM!Ends(d, s, "notfound")
        BY <1>1 DEF CM!DeleteProject
    <2> QED
        BY <2>1, EndsLasts, MoreGone
<1>2. CASE i \in DOMAIN s.projects
    <2> DEFINE dbid == s.projects[i].dbid
               stmts == CM!Stored(d, s.projects[i], CM!Repo!DeleteTaskProject(d, dbid))
    <2>1. PICK rows : rows = CM!RemoveAt(s.projects, i)
        OBVIOUS
    <2>2. PICK s2 : s2 = [s EXCEPT !["projects"] = rows]
        OBVIOUS
    <2>3. o \in CM!After(s, stmts, s2)
        BY <1>2, <2>1, <2>2 DEF CM!DeleteProject
    <2>4. Spares(d, CM!Repo!DeleteTaskProject(d, dbid), gone)
        <3> HIDE DEF dbid
        <3>1. <<"projects", dbid>> \in gone /\ \A t \in DOMAIN d.tasks : d.tasks[t].project = dbid => <<"tasks", t>> \in gone
            BY DEF dbid
        <3> QED
            BY <3>1, DeleteTaskProjectSpares
    <2>5. Spares(d, stmts, gone)
        BY <2>4, StoredSpares
    <2> HIDE DEF stmts
    <2>6. /\ DOMAIN s.projects = 1..Len(s.projects) /\ Len(s.projects) \in Nat
          /\ s.projects \in Seq(Range(s.projects))
        BY BoardParts DEF CM!IsStore
    <2>7. /\ DOMAIN rows = 1..(Len(s.projects) - 1)
          /\ \A k \in 1..(Len(s.projects) - 1) : rows[k] = IF k < i THEN s.projects[k] ELSE s.projects[k + 1]
        BY <1>2, <2>1, <2>6, SeqRemoveAt
    <2>8. ASSUME NEW k \in DOMAIN s.projects, k # i
          PROVE  \E j \in DOMAIN rows : rows[j] = s.projects[k]
        <3>1. CASE k < i
            <4>1. k \in DOMAIN rows /\ rows[k] = s.projects[k]
                BY <1>2, <2>6, <2>7, <2>8, <3>1
            <4> QED
                BY <4>1
        <3>2. CASE k > i
            <4>1. k - 1 \in DOMAIN rows /\ rows[k - 1] = s.projects[k]
                BY <1>2, <2>6, <2>7, <2>8, <3>2
            <4> QED
                BY <4>1
        <3> QED
            BY <1>2, <2>6, <2>8, <3>1, <3>2
    <2>9. \A k \in DOMAIN s.projects : \A id \in CM!Ids(s.projects[k].tasks) :
             <<"tasks", id>> \notin gone => \E j \in DOMAIN rows : id \in CM!Ids(rows[j].tasks)
        BY <2>8
    <2>10. ListLasts(s, s2, gone)
        BY <2>2, <2>9, BoardLasts
    <2> QED
        BY <2>3, <2>5, <2>10, SparesLasts
<1> QED
    BY <1>1, <1>2

\* The tasks of one project change.
LEMMA ItemsLast ==
    ASSUME NEW s, CM!IsStore(s), NEW i \in DOMAIN s.projects, NEW items, NEW rows, NEW s2, NEW gone,
           rows = [s.projects EXCEPT ![i].tasks = items], s2 = [s EXCEPT !["projects"] = rows],
           \A id \in CM!Ids(s.projects[i].tasks) : <<"tasks", id>> \notin gone => id \in CM!Ids(items)
    PROVE  ListLasts(s, s2, gone) /\ \A id \in CM!Ids(items) : Shown(s2, "tasks", id)
<1>1. IsProject(s.projects[i])
    BY BoardParts DEF CM!IsStore
<1>2. PICK p : p = [s.projects[i] EXCEPT !.tasks = items]
    OBVIOUS
<1>3. p.tasks = items
    BY <1>1, <1>2 DEF IsProject
<1>4. rows = [s.projects EXCEPT ![i] = p]
    BY <1>2
<1>5. DOMAIN rows = DOMAIN s.projects /\ rows[i].tasks = items /\ \A j \in DOMAIN s.projects : j # i => rows[j] = s.projects[j]
    BY <1>3, <1>4
<1>6. \A k \in DOMAIN s.projects : \A id \in CM!Ids(s.projects[k].tasks) :
         <<"tasks", id>> \notin gone => \E j \in DOMAIN rows : id \in CM!Ids(rows[j].tasks)
    BY <1>5
<1>7. s2.projects = rows /\ "tasks" \notin CM!Repo!Keyed
    BY StoreParts DEF CM!Repo!Keyed
<1>8. \A id \in CM!Ids(items) : Shown(s2, "tasks", id)
    BY <1>5, <1>7 DEF Shown, HoldsTask
<1> QED
    BY <1>6, <1>8, BoardLasts

LEMMA CreateTaskLasts ==
    ASSUME NEW d, NEW s, CM!Repo!IsDb(d), CM!IsStore(s), NEW i, NEW id \in Int, NEW title,
           NEW o \in CM!CreateTask(d, s, i, id, title)
    PROVE  /\ Lasts(d, s, o, {})
           /\ o.err = "ok" /\ s.projects[i].dbid # 0 =>
                o.db # d /\ Held(o.db, "tasks", id) /\ Shown(o.store, "tasks", id)
<1> DEFINE p == s.projects[i]
           t == [id |-> id, title |-> title]
<1>0. "items" \in Kinds /\ CM!Repo!IsRow("items", t) /\ t.id = id
    BY ProjectRow DEF Kinds
<1>3. ASSUME i \in DOMAIN s.projects
      PROVE  CM!Repo!IsList("items", p.tasks) /\ DOMAIN p.tasks = 1..Len(p.tasks)
    <2>1. CM!Repo!IsList("items", p.tasks)
        BY <1>3, BoardParts DEF CM!IsStore, IsProject
    <2> QED
        BY <2>1, ListSeq
<1>1. CASE i \notin DOMAIN s.projects
    <2>1. o \in CM!Ends(d, s, "notfound")
        BY <1>1 DEF CM!CreateTask
    <2> QED
        BY <2>1, EndsLasts DEF CM!Ends
<1>2. CASE i \in DOMAIN s.projects
    <2> DEFINE inner == CM!Repo!InsertTaskItem(d, p.dbid, t)
               stmts == CM!Stored(d, p, inner)
    <2>1. PICK items : items = Append(p.tasks, t)
        OBVIOUS
    <2>2. PICK rows : rows = [s.projects EXCEPT ![i].tasks = items]
        OBVIOUS
    <2>3. PICK s2 : s2 = [s EXCEPT !["projects"] = rows]
        OBVIOUS
    <2>4. o \in CM!After(s, stmts, s2)
        BY <1>2, <2>1, <2>2, <2>3 DEF CM!CreateTask
    <2>5. Spares(d, inner, {}) /\ \A e \in inner : e.err = "ok" => e.db # d /\ Held(e.db, "tasks", id)
        BY InsertTaskItemSpares
    <2>6. p.dbid # 0 => stmts = inner
        BY DEF CM!Stored
    <2> HIDE DEF inner
    <2>7. Spares(d, stmts, {})
        BY <2>5, StoredSpares
    <2> HIDE DEF stmts, t
    <2>8. CM!Ids(p.tasks) \subseteq CM!Ids(items) /\ id \in CM!Ids(items)
        <3>1. /\ DOMAIN items = 1..(Len(p.tasks) + 1) /\ Len(p.tasks) \in Nat
              /\ items[Len(p.tasks) + 1] = t /\ \A j \in 1..Len(p.tasks) : items[j] = p.tasks[j]
            BY <1>0, <1>3, <1>2, <2>1, ListAppend
        <3> HIDE DEF p
        <3>2. Len(p.tasks) + 1 \in DOMAIN items
            BY <3>1
        <3>3. DOMAIN p.tasks = 1..Len(p.tasks)
            BY <1>3, <1>2
        <3>4. DOMAIN p.tasks \subseteq DOMAIN items
            BY <3>1, <3>3
        <3> QED
            BY <1>0, <3>1, <3>2, <3>3, <3>4 DEF CM!Ids
    <2>9. ListLasts(s, s2, {}) /\ Shown(s2, "tasks", id)
        BY <1>2, <2>2, <2>3, <2>8, ItemsLast
    <2>10. Lasts(d, s, o, {})
        BY <2>4, <2>7, <2>9, SparesLasts
    <2>11. \E e \in stmts : o.db = e.db /\ o.err = CM!wrapPersist(e.err) /\ o.store = IF e.err = "ok" THEN s2 ELSE s
        BY <2>4 DEF CM!After
    <2> QED
        BY <2>5, <2>6, <2>9, <2>10, <2>11 DEF CM!wrapPersist
<1> QED
    BY <1>1, <1>2

LEMMA TaskMethodsLast ==
    ASSUME NEW d, NEW s, CM!Repo!IsDb(d), CM!IsStore(s), NEW i, NEW id \in Int, NEW title, NEW o
    PROVE  /\ o \in CM!PatchTask(d, s, i, id, title) => Lasts(d, s, o, {})
           /\ o \in CM!DeleteTask(d, s, i, id) =>
                Lasts(d, s, o, {<<"tasks", id>>}) /\ (o.err \notin {"ok", "lost"} => Lasts(d, s, o, {}))
<1> DEFINE p == s.projects[i]
           k == CM!Find(p.tasks, id)
           t == [id |-> id, title |-> title]
<1>0. "items" \in Kinds /\ CM!Repo!IsRow("items", t) /\ t.id = id
    BY ProjectRow DEF Kinds
<1>1. ASSUME i \notin DOMAIN s.projects,
             \/ o \in CM!PatchTask(d, s, i, id, title)
             \/ o \in CM!DeleteTask(d, s, i, id)
      PROVE  o \in CM!Ends(d, s, "notfound")
    BY <1>1 DEF CM!PatchTask, CM!DeleteTask
<1>2. ASSUME o \in CM!Ends(d, s, "notfound")
      PROVE  o.err = "notfound" /\ \A gone : Lasts(d, s, o, gone)
    BY <1>2, EndsLasts, MoreGone DEF CM!Ends
<1>3. ASSUME i \in DOMAIN s.projects
      PROVE  /\ CM!Repo!IsList("items", p.tasks) /\ DOMAIN p.tasks = 1..Len(p.tasks) /\ p.tasks \in Seq(Range(p.tasks))
             /\ k # 0 => k \in DOMAIN p.tasks /\ p.tasks[k].id = id
    <2>1. CM!Repo!IsList("items", p.tasks)
        BY <1>3, BoardParts DEF CM!IsStore, IsProject
    <2>2. DOMAIN p.tasks = 1..Len(p.tasks) /\ p.tasks \in Seq(Range(p.tasks))
        BY <2>1, ListSeq
    <2> QED
        BY <2>1, <2>2, FindRow
<1>5. ASSUME o \in CM!PatchTask(d, s, i, id, title)
      PROVE  Lasts(d, s, o, {})
    <2>1. CASE i \notin DOMAIN s.projects
        BY <1>1, <1>2, <1>5, <2>1
    <2>2. CASE k = 0
        BY <1>2, <1>5, <2>2 DEF CM!PatchTask
    <2>3. CASE i \in DOMAIN s.projects /\ k # 0
        <3> DEFINE stmts == CM!Stored(d, p, CM!Repo!UpdateTaskItem(d, p.dbid, t))
        <3>1. PICK new : new = [p.tasks[k] EXCEPT !.title = title]
            OBVIOUS
        <3>2. PICK items : items = [p.tasks EXCEPT ![k] = new]
            OBVIOUS
        <3>3. PICK rows : rows = [s.projects EXCEPT ![i].tasks = items]
            OBVIOUS
        <3>4. PICK s2 : s2 = [s EXCEPT !["projects"] = rows]
            OBVIOUS
        <3>5. o \in CM!After(s, stmts, s2)
            BY <1>5, <2>3, <3>1, <3>2, <3>3, <3>4 DEF CM!PatchTask
        <3>6. Spares(d, stmts, {})
            BY UpdateTaskItemSpares, StoredSpares
        <3>7. new.id = p.tasks[k].id
            <4>1. CM!Repo!IsRow("items", p.tasks[k])
                BY <1>0, <1>3, <2>3, ListSeq
            <4> QED
                BY <3>1, <4>1, ProjectRow
        <3> HIDE DEF stmts
        <3>8. CM!Ids(p.tasks) \subseteq CM!Ids(items)
            BY <1>0, <1>3, <2>3, <3>2, <3>7, IdsKept
        <3>9. ListLasts(s, s2, {})
            BY <2>3, <3>3, <3>4, <3>8, ItemsLast
        <3> QED
            BY <3>5, <3>6, <3>9, SparesLasts
    <2> QED
        BY <2>1, <2>2, <2>3
<1>6. ASSUME o \in CM!DeleteTask(d, s, i, id)
      PROVE  Lasts(d, s, o, {<<"tasks", id>>}) /\ (o.err \notin {"ok", "lost"} => Lasts(d, s, o, {}))
    <2>1. CASE i \notin DOMAIN s.projects
        BY <1>1, <1>2, <1>6, <2>1
    <2>2. CASE k = 0
        BY <1>2, <1>6, <2>2 DEF CM!DeleteTask
    <2>3. CASE i \in DOMAIN s.projects /\ k # 0
        <3> DEFINE stmts == CM!Stored(d, p, CM!Repo!DeleteTaskItem(d, p.dbid, id))
        <3>2. PICK items : items = CM!RemoveAt(p.tasks, k)
            OBVIOUS
        <3>3. PICK rows : rows = [s.projects EXCEPT ![i].tasks = items]
            OBVIOUS
        <3>4. PICK s2 : s2 = [s EXCEPT !["projects"] = rows]
            OBVIOUS
        <3>5. o \in CM!After(s, stmts, s2)
            BY <1>6, <2>3, <3>2, <3>3, <3>4 DEF CM!DeleteTask
        <3>6. Spares(d, stmts, {<<"tasks", id>>})
            BY DeleteTaskItemSpares, StoredSpares
        <3> HIDE DEF stmts
        <3>8. CM!Ids(p.tasks) \subseteq CM!Ids(items) \cup {id}
            BY <1>0, <1>3, <2>3, <3>2, IdsKept
        <3>9. ListLasts(s, s2, {<<"tasks", id>>})
            <4>1. \A n \in CM!Ids(p.tasks) : <<"tasks", n>> \notin {<<"tasks", id>>} => n \in CM!Ids(items)
                BY <3>8
            <4> QED
                BY <2>3, <3>3, <3>4, <4>1, ItemsLast
        <3> QED
            BY <3>5, <3>6, <3>9, SparesLasts
    <2> QED
        BY <2>1, <2>2, <2>3
<1> QED
    BY <1>5, <1>6

\* The logs hold no rows.
LEMMA LogsHoldNone ==
    ASSUME NEW d, NEW s, CM!Repo!IsDb(d), CM!IsStore(s), NEW x \in {"audit", "assistance", "photos", "scan"}, NEW v
    PROVE  /\ \A d2 : d2 = [d EXCEPT ![x] = v] => RowsLast(d, d2, {})
           /\ \A s2 : s2 = [s EXCEPT ![x] = v] => ListLasts(s, s2, {})
<1>1. /\ \A d2 : d2 = [d EXCEPT ![x] = v] => \A t \in Tables : d2[t] = d[t]
      /\ \A s2 : s2 = [s EXCEPT ![x] = v] => s2.projects = s.projects /\ \A t \in CM!Repo!Keyed : s2[t] = s[t]
      /\ {"projects", "tasks"} \subseteq Tables
    BY DbParts, StoreParts DEF Tables, CM!Repo!Tables, CM!Repo!Keyed
<1> QED
    BY <1>1 DEF RowsLast, ListLasts, Held, Shown, HoldsTask

LEMMA AuditLasts ==
    ASSUME NEW d, NEW s, CM!Repo!IsDb(d), CM!IsStore(s), NEW entry, NEW o \in CM!auditStored(d, s, entry)
    PROVE  Lasts(d, s, o, {})
<1>1. PICK e \in CM!Repo!InsertAuditAndTrim(d, entry, AuditKeep) :
        o = [[db |-> e.db, store |-> IF e.err = "ok" THEN s ELSE s, err |-> CM!wrapPersist(e.err)]
               EXCEPT !.err = "ok"]
    BY DEF CM!auditStored, CM!After
<1>2. o.db = e.db /\ o.store = s
    BY <1>1
<1>3. PICK log : e.db = d \/ e.db = [d EXCEPT !["audit"] = log]
    BY DEF CM!Repo!InsertAuditAndTrim, CM!Repo!Ran, CM!Repo!Told
<1> QED
    BY <1>2, <1>3, NothingGone, LogsHoldNone DEF Lasts

LEMMA RingLasts ==
    ASSUME NEW s, CM!IsStore(s), NEW entry
    PROVE  ListLasts(s, CM!auditRing(s, entry), {})
<1>1. PICK ring : CM!auditRing(s, entry) = [s EXCEPT !["audit"] = ring]
    BY DEF CM!auditRing
<1>2. PICK s2 : s2 = CM!auditRing(s, entry)
    OBVIOUS
<1>3. s2.projects = s.projects /\ \A t \in CM!Repo!Keyed : s2[t] = s[t]
    BY <1>1, <1>2, StoreParts DEF CM!Repo!Keyed
<1> QED
    BY <1>2, <1>3 DEF ListLasts, Shown, HoldsTask

LEMMA AssistanceLasts ==
    ASSUME NEW d, NEW s, CM!Repo!IsDb(d), CM!IsStore(s), NEW m, NEW o \in CM!PostAssistance(d, s, m)
    PROVE  Lasts(d, s, o, {})
<1>1. PICK d2 : d2 = [d EXCEPT !["assistance"] = Append(d.assistance, m)]
    OBVIOUS
<1>2. PICK s2 : s2 = [s EXCEPT !["assistance"] = <<m>> \o s.assistance]
    OBVIOUS
<1>3. o \in CM!After(s, CM!Repo!Ran(d, d2), s2)
    BY <1>1, <1>2 DEF CM!PostAssistance, CM!Repo!InsertAssistance
<1>4. RowsLast(d, d2, {}) /\ ListLasts(s, s2, {})
    BY <1>1, <1>2, LogsHoldNone
<1> QED
    BY <1>3, <1>4, RanStatement, AfterLasts

LEMMA PhotoLasts ==
    ASSUME NEW d, NEW s, CM!Repo!IsDb(d), CM!IsStore(s), NEW email, NEW photo,
           NEW o \in CM!SetProfilePhoto(d, s, email, photo)
    PROVE  Lasts(d, s, o, {})
<1> DEFINE put(photos) == IF photo = None THEN CM!Repo!Without(photos, email)
                          ELSE CM!Repo!With(photos, email, photo)
<1>1. PICK d2 : d2 = [d EXCEPT !["photos"] = put(d.photos)]
    OBVIOUS
<1>2. PICK s2 : s2 = [s EXCEPT !["photos"] = put(s.photos)]
    OBVIOUS
<1>3. o \in CM!After(s, CM!Repo!Ran(d, d2), s2)
    BY <1>1, <1>2 DEF CM!SetProfilePhoto, CM!Repo!DeleteProfilePhoto, CM!Repo!UpsertProfilePhoto
<1> HIDE DEF put
<1>4. RowsLast(d, d2, {}) /\ ListLasts(s, s2, {})
    BY <1>1, <1>2, LogsHoldNone
<1> QED
    BY <1>3, <1>4, RanStatement, AfterLasts

LEMMA ScanLasts ==
    ASSUME NEW d, NEW s, CM!Repo!IsDb(d), CM!IsStore(s), NEW scan, NEW o \in CM!SetAiScan(d, s, scan)
    PROVE  Lasts(d, s, o, {})
<1>0. PICK s2 : s2 = [s EXCEPT !["scan"] = scan]
    OBVIOUS
<1>9. PICK p \in CM!After(s, CM!Repo!UpsertAiScan(d, scan), s2) : o = [p EXCEPT !.err = "ok"]
    BY <1>0 DEF CM!SetAiScan
<1>1. PICK e \in CM!Repo!UpsertAiScan(d, scan) :
        p = [db |-> e.db, store |-> IF e.err = "ok" THEN s2 ELSE s, err |-> CM!wrapPersist(e.err)]
    BY DEF CM!After
<1>2. o.db = e.db /\ (o.store = s \/ o.store = [s EXCEPT !["scan"] = scan])
    BY <1>0, <1>1, <1>9
<1>3. e.db = d \/ e.db = [d EXCEPT !["scan"] = scan]
    BY DEF CM!Repo!UpsertAiScan, CM!Repo!Ran, CM!Repo!Told
<1> QED
    BY <1>2, <1>3, NothingGone, LogsHoldNone DEF Lasts

-----------------------------------------------------------------------------
(* The invariant. *)

\* What a store may have missed.
Lacking(r) == upset[r] \cap {"foreign", "lost", "load", "overlap"} # {}

\* Acknowledged rows are held, and shown by every store that lacks none.
Safe(t, id) ==
    Held(db, t, id) /\ \A r \in Replicas : ~Lacking(r) => Shown(cache[r], t, id)
AckInv == spilled \/ \A t \in Tables, id \in Int : <<t, id>> \in acked \ unsaved => Safe(t, id)

\* The rows a request adds are those its answer tells of.
Fresh(o, added) ==
    \A t \in Tables, id \in Int : <<t, id>> \in added =>
      /\ Held(o.db, t, id) /\ Shown(o.store, t, id)
      /\ t # "projects" => o.db # db

\* The write of one replica.
LEMMA CommitSafe ==
    ASSUME Core, AckInv, NEW r \in Replicas, NEW o, NEW excuse, Commit(r, o, excuse), spilled' = spilled,
           unsaved \subseteq unsaved',
           NEW gone, NEW added, Lasts(db, cache[r], o, gone), Fresh(o, added),
           acked' \ unsaved' \subseteq ((acked \ unsaved) \ gone) \cup added
    PROVE  AckInv'
<1>1. /\ db' = o.db
      /\ cache' = [cache EXCEPT ![r] = o.store]
      /\ upset' = Disturbed(r, o, excuse)
    BY DEF Commit
<1>2. /\ cache'[r] = o.store
      /\ \A q \in Replicas : q # r => cache'[q] = cache[q]
    BY <1>1 DEF Core
<1>3. /\ \A q \in Replicas : q # r => upset'[q] = upset[q] \cup (IF o.db # db THEN {"foreign"} ELSE {})
      /\ upset'[r] = upset[r] \cup (excuse \cup (IF o.err = "lost" THEN {"lost"} ELSE {})
                                \cup (IF <<o.db, o.store>> # <<db, cache[r]>> /\ Saving(r) THEN {"overlap"} ELSE {}))
    BY <1>1 DEF Disturbed
<1>4. /\ \A q \in Replicas : ~Lacking(q)' => ~Lacking(q) /\ (q # r => o.db = db)
      /\ ~Lacking(r)' => o.err # "lost"
    BY <1>3 DEF Lacking
<1>5. ASSUME ~spilled, NEW t \in Tables, NEW id \in Int, <<t, id>> \in acked' \ unsaved'
      PROVE  Safe(t, id)'
    <2>1. CASE <<t, id>> \in added
        <3>1. Held(o.db, t, id) /\ Shown(o.store, t, id) /\ (t # "projects" => o.db # db)
            BY <2>1 DEF Fresh
        <3>2. ASSUME NEW q \in Replicas, ~Lacking(q)'
              PROVE  Shown(cache'[q], t, id)
            <4>1. CASE q = r
                BY <3>1, <4>1, <1>2
            <4>2. CASE q # r
                <5>1. t = "projects"
                    BY <3>1, <3>2, <4>2, <1>4
                <5> QED
                    BY <5>1 DEF Shown, CM!Repo!Keyed
            <4> QED
                BY <4>1, <4>2
        <3>3. Held(db', t, id)
            BY <3>1, <1>1
        <3> QED
            BY <3>2, <3>3 DEF Safe, Held, Shown, HoldsTask
    <2>2. CASE <<t, id>> \in acked \ unsaved /\ <<t, id>> \notin gone
        <3>1. Safe(t, id)
            BY <1>5, <2>2 DEF AckInv
        <3>2. Held(o.db, t, id)
            BY <2>2, <3>1 DEF Safe, Lasts, RowsLast
        <3>3. ASSUME NEW q \in Replicas, ~Lacking(q)'
              PROVE  Shown(cache'[q], t, id)
            <4>1. Shown(cache[q], t, id)
                BY <1>4, <3>1, <3>3 DEF Safe
            <4>2. CASE q = r
                BY <2>2, <3>3, <4>1, <4>2, <1>2, <1>4 DEF Lasts, ListLasts
            <4> QED
                BY <4>1, <4>2, <1>2
        <3>4. Held(db', t, id)
            BY <3>2, <1>1
        <3> QED
            BY <3>3, <3>4 DEF Safe, Held, Shown, HoldsTask
    <2> QED
        BY <1>5, <2>1, <2>2
<1> QED
    BY <1>5 DEF AckInv

\* A step that writes nothing and acknowledges nothing.
LEMMA QuietSafe ==
    ASSUME AckInv, UNCHANGED <<db, cache, acked, unsaved, spilled>>,
           \A q \in Replicas : ~Lacking(q)' => ~Lacking(q)
    PROVE  AckInv'
BY DEF AckInv, Safe, Held, Shown, HoldsTask

\* Requests that create, change and destroy a row.
LEMMA AddsSafe ==
    ASSUME Core, AckInv, NEW r \in Replicas, NEW t \in CM!Repo!Keyed, NEW o, NEW excuse,
           Lasts(db, cache[r], o, {}), o.err = "ok" => o.db # db, Made(t, o),
           Commit(r, o, excuse), spilled' = spilled, acked' = Adds(t, o), unsaved' = unsaved
    PROVE  AckInv'
<1>2. PICK added : added = IF o.err = "ok" THEN {<<t, Last(o.store[t]).id>>} ELSE {}
    OBVIOUS
<1>3. Fresh(o, added)
    <2>1. CASE o.err = "ok"
        <3>1. /\ Last(o.store[t]).id \in DOMAIN o.db[t] /\ o.db # db
              /\ Last(o.store[t]).id \in CM!Ids(o.store[t])
            BY <2>1 DEF Made
        <3>2. t # "tasks"
            BY DEF CM!Repo!Keyed
        <3> QED
            BY <1>2, <2>1, <3>1, <3>2 DEF Fresh, Held, Shown
    <2>2. CASE o.err # "ok"
        BY <1>2, <2>2 DEF Fresh
    <2> QED
        BY <2>1, <2>2
<1>5. acked' \ unsaved' \subseteq ((acked \ unsaved) \ {}) \cup added
    BY <1>2 DEF Adds
<1> QED
    BY <1>3, <1>5, CommitSafe

LEMMA CreateSafe ==
    ASSUME Core, AckInv, NEW r \in Replicas, NEW t \in CM!Repo!Keyed, NEW outcomes,
           \A o \in outcomes : Lasts(db, cache[r], o, {}) /\ (o.err = "ok" => o.db # db) /\ Made(t, o),
           Create(r, t, outcomes)
    PROVE  AckInv'
<1>1. PICK o \in outcomes : Did(r, o, {}) /\ acked' = Adds(t, o) /\ unsaved' = unsaved
    BY DEF Create, Request, Did, NoExcuse
<1>2. Commit(r, o, {}) /\ spilled' = spilled
    BY <1>1 DEF Did
<1> QED
    BY <1>1, <1>2, AddsSafe

LEMMA KeepsSafe ==
    ASSUME Core, AckInv, NEW r \in Replicas, NEW o, NEW excuse, Commit(r, o, excuse), spilled' = spilled,
           Lasts(db, cache[r], o, {}), acked' = acked, unsaved' = unsaved
    PROVE  AckInv'
<1>1. Fresh(o, {})
    BY DEF Fresh
<1>2. acked' \ unsaved' \subseteq ((acked \ unsaved) \ {}) \cup {}
    OBVIOUS
<1> QED
    BY <1>1, <1>2, CommitSafe

LEMMA ChangeSafe ==
    ASSUME Core, AckInv, NEW r \in Replicas, NEW outcomes,
           \A o \in outcomes : Lasts(db, cache[r], o, {}), Change(r, outcomes)
    PROVE  AckInv'
<1>1. PICK o \in outcomes : Did(r, o, {}) /\ acked' = acked /\ unsaved' = unsaved
    BY DEF Change, Request, Did, NoExcuse, Keeps
<1>2. Commit(r, o, {}) /\ spilled' = spilled
    BY <1>1 DEF Did
<1> QED
    BY <1>1, <1>2, KeepsSafe

LEMMA DropsSafe ==
    ASSUME Core, AckInv, NEW r \in Replicas, NEW o, NEW excuse, Commit(r, o, excuse), spilled' = spilled,
           NEW t, NEW id, Lasting(db, cache[r], o, {<<t, id>>}), acked' = Drops(t, id, o), unsaved' = unsaved
    PROVE  AckInv'
<1>1. CASE o.db = db
    <2>1. acked' = acked /\ Lasts(db, cache[r], o, {})
        BY <1>1 DEF Drops, Lasting
    <2> QED
        BY <2>1, KeepsSafe
<1>2. CASE o.db # db
    <2>1. Fresh(o, {})
        BY DEF Fresh
    <2>2. Lasts(db, cache[r], o, {<<t, id>>})
        BY DEF Lasting
    <2>3. acked' \ unsaved' \subseteq ((acked \ unsaved) \ {<<t, id>>}) \cup {}
        BY <1>2 DEF Drops
    <2> QED
        BY <2>1, <2>2, <2>3, CommitSafe
<1> QED
    BY <1>1, <1>2

LEMMA DestroySafe ==
    ASSUME Core, AckInv, NEW r \in Replicas, NEW t, NEW id, NEW outcomes,
           \A o \in outcomes : Lasting(db, cache[r], o, {<<t, id>>}), Destroy(r, t, id, outcomes)
    PROVE  AckInv'
<1>1. PICK o \in outcomes : Did(r, o, {}) /\ acked' = Drops(t, id, o) /\ unsaved' = unsaved
    BY DEF Destroy, Request, Did, NoExcuse
<1>2. Commit(r, o, {}) /\ spilled' = spilled
    BY <1>1 DEF Did
<1> QED
    BY <1>1, <1>2, DropsSafe

\* The requests, one group after another.

\* What was asked to go is gone unless the request failed.
LEMMA GoneSafe ==
    ASSUME Core, AckInv, NEW r \in Replicas, NEW o, NEW excuse, Commit(r, o, excuse), spilled' = spilled,
           NEW gone, Lasts(db, cache[r], o, gone), o.err \notin {"ok", "lost"} => Lasts(db, cache[r], o, {}),
           acked' = IF o.err \in {"ok", "lost"} THEN acked \ gone ELSE acked, unsaved' = unsaved
    PROVE  AckInv'
<1>1. CASE o.err \notin {"ok", "lost"}
    BY <1>1, KeepsSafe
<1>2. CASE o.err \in {"ok", "lost"}
    <2>1. Fresh(o, {}) /\ acked' \ unsaved' \subseteq ((acked \ unsaved) \ gone) \cup {}
        BY <1>2 DEF Fresh
    <2> QED
        BY <2>1, CommitSafe
<1> QED
    BY <1>1, <1>2

LEMMA ZoneSafe ==
    ASSUME Core, AckInv, NEW r \in Replicas, ZoneRequests(r)
    PROVE  AckInv'
<1>1. CM!Repo!IsDb(db) /\ CM!IsStore(cache[r])
    BY CoreParts
<1>2. CASE \E z \in ZoneCodes, n \in Data : Create(r, "zones", CM!CreateZone(db, cache[r], z, n))
    <2>1. PICK z \in ZoneCodes, n \in Data : Create(r, "zones", CM!CreateZone(db, cache[r], z, n))
        BY <1>2
    <2>2. \A o \in CM!CreateZone(db, cache[r], z, n) :
             Lasts(db, cache[r], o, {}) /\ (o.err = "ok" => o.db # db) /\ Made("zones", o)
        BY <1>1, CreateZoneLasts, CreateZoneMade, ServiceAssumption
    <2>3. "zones" \in CM!Repo!Keyed
        BY DEF CM!Repo!Keyed
    <2> QED
        BY <2>1, <2>2, <2>3, CreateSafe
<1>3. CASE \E z \in ZoneCodes, n \in Data :
             /\ Request(r, CM!PatchZone(db, cache[r], z, n),
                        LAMBDA o : IF o.err = "ok" THEN {} ELSE {"ahead"}, Keeps)
             /\ UNCHANGED unsaved
    <2>1. PICK z \in ZoneCodes, n \in Data :
             /\ Request(r, CM!PatchZone(db, cache[r], z, n),
                        LAMBDA o : IF o.err = "ok" THEN {} ELSE {"ahead"}, Keeps)
             /\ UNCHANGED unsaved
        BY <1>3
    <2>2. PICK o \in CM!PatchZone(db, cache[r], z, n) :
             Did(r, o, IF o.err = "ok" THEN {} ELSE {"ahead"}) /\ acked' = acked /\ unsaved' = unsaved
        BY <2>1 DEF Request, Did, Keeps
    <2>3. Lasts(db, cache[r], o, {})
        BY <1>1, PatchZoneLasts
    <2>4. Commit(r, o, IF o.err = "ok" THEN {} ELSE {"ahead"}) /\ spilled' = spilled
        BY <2>2 DEF Did
    <2> QED
        BY <2>2, <2>3, <2>4, KeepsSafe
<1>4. CASE \E z \in ZoneCodes : Destroy(r, "zones", z, CM!DeleteZone(db, cache[r], z))
    <2>1. PICK z \in ZoneCodes : Destroy(r, "zones", z, CM!DeleteZone(db, cache[r], z))
        BY <1>4
    <2>2. \A o \in CM!DeleteZone(db, cache[r], z) : Lasting(db, cache[r], o, {<<"zones", z>>})
        BY <1>1, DeleteZoneLasts
    <2> QED
        BY <2>1, <2>2, DestroySafe
<1> QED
    BY <1>2, <1>3, <1>4 DEF ZoneRequests

LEMMA EngineerSafe ==
    ASSUME Core, AckInv, NEW r \in Replicas, EngineerRequests(r)
    PROVE  AckInv'
<1>1. CM!Repo!IsDb(db) /\ CM!IsStore(cache[r])
    BY CoreParts
<1>2. CASE \E x \in Data : Create(r, "engineers", CM!CreateEngineer(db, cache[r], x))
    <2>1. PICK x \in Data : Create(r, "engineers", CM!CreateEngineer(db, cache[r], x))
        BY <1>2
    <2>2. \A o \in CM!CreateEngineer(db, cache[r], x) :
             Lasts(db, cache[r], o, {}) /\ (o.err = "ok" => o.db # db) /\ Made("engineers", o)
        BY <1>1, EngineerLasts, CreateEngineerMade
    <2>3. "engineers" \in CM!Repo!Keyed
        BY DEF CM!Repo!Keyed
    <2> QED
        BY <2>1, <2>2, <2>3, CreateSafe
<1>3. CASE \E i \in CM!Ids(cache[r].engineers), x \in Data : Change(r, CM!PatchEngineer(db, cache[r], i, x))
    <2>1. PICK i \in CM!Ids(cache[r].engineers), x \in Data : Change(r, CM!PatchEngineer(db, cache[r], i, x))
        BY <1>3
    <2>2. \A o \in CM!PatchEngineer(db, cache[r], i, x) : Lasts(db, cache[r], o, {})
        BY <1>1, EngineerLasts
    <2> QED
        BY <2>1, <2>2, ChangeSafe
<1>4. CASE \E i \in CM!Ids(cache[r].engineers) : Destroy(r, "engineers", i, CM!DeleteEngineer(db, cache[r], i))
    <2>1. PICK i \in CM!Ids(cache[r].engineers) : Destroy(r, "engineers", i, CM!DeleteEngineer(db, cache[r], i))
        BY <1>4
    <2>2. \A o \in CM!DeleteEngineer(db, cache[r], i) : Lasting(db, cache[r], o, {<<"engineers", i>>})
        BY <1>1, EngineerLasts
    <2> QED
        BY <2>1, <2>2, DestroySafe
<1> QED
    BY <1>2, <1>3, <1>4 DEF EngineerRequests

LEMMA MilestoneSafe ==
    ASSUME Core, AckInv, NEW r \in Replicas, MilestoneRequests(r)
    PROVE  AckInv'
<1>1. CM!Repo!IsDb(db) /\ CM!IsStore(cache[r])
    BY CoreParts
<1>2. CASE \E x \in Data : Create(r, "milestones", CM!CreateMilestone(db, cache[r], x))
    <2>1. PICK x \in Data : Create(r, "milestones", CM!CreateMilestone(db, cache[r], x))
        BY <1>2
    <2>2. \A o \in CM!CreateMilestone(db, cache[r], x) :
             Lasts(db, cache[r], o, {}) /\ (o.err = "ok" => o.db # db) /\ Made("milestones", o)
        BY <1>1, MilestoneLasts, CreateMilestoneMade
    <2>3. "milestones" \in CM!Repo!Keyed
        BY DEF CM!Repo!Keyed
    <2> QED
        BY <2>1, <2>2, <2>3, CreateSafe
<1>3. CASE \E i \in CM!Ids(cache[r].milestones), x \in Data : Change(r, CM!PatchMilestone(db, cache[r], i, x))
    <2>1. PICK i \in CM!Ids(cache[r].milestones), x \in Data : Change(r, CM!PatchMilestone(db, cache[r], i, x))
        BY <1>3
    <2>2. \A o \in CM!PatchMilestone(db, cache[r], i, x) : Lasts(db, cache[r], o, {})
        BY <1>1, MilestoneLasts
    <2> QED
        BY <2>1, <2>2, ChangeSafe
<1>4. CASE \E i \in CM!Ids(cache[r].milestones) : Destroy(r, "milestones", i, CM!DeleteMilestone(db, cache[r], i))
    <2>1. PICK i \in CM!Ids(cache[r].milestones) : Destroy(r, "milestones", i, CM!DeleteMilestone(db, cache[r], i))
        BY <1>4
    <2>2. \A o \in CM!DeleteMilestone(db, cache[r], i) : Lasting(db, cache[r], o, {<<"milestones", i>>})
        BY <1>1, MilestoneLasts
    <2> QED
        BY <2>1, <2>2, DestroySafe
<1> QED
    BY <1>2, <1>3, <1>4 DEF MilestoneRequests

LEMMA MaterialSafe ==
    ASSUME Core, AckInv, NEW r \in Replicas, MaterialRequests(r)
    PROVE  AckInv'
<1>1. CM!Repo!IsDb(db) /\ CM!IsStore(cache[r])
    BY CoreParts
<1>2. CASE \E x \in Data : Create(r, "materials", CM!CreateMaterial(db, cache[r], x))
    <2>1. PICK x \in Data : Create(r, "materials", CM!CreateMaterial(db, cache[r], x))
        BY <1>2
    <2>2. \A o \in CM!CreateMaterial(db, cache[r], x) :
             Lasts(db, cache[r], o, {}) /\ (o.err = "ok" => o.db # db) /\ Made("materials", o)
        BY <1>1, MaterialLasts, CreateMaterialMade
    <2>3. "materials" \in CM!Repo!Keyed
        BY DEF CM!Repo!Keyed
    <2> QED
        BY <2>1, <2>2, <2>3, CreateSafe
<1>3. CASE \E i \in CM!Ids(cache[r].materials), x \in Data : Change(r, CM!PatchMaterial(db, cache[r], i, x))
    <2>1. PICK i \in CM!Ids(cache[r].materials), x \in Data : Change(r, CM!PatchMaterial(db, cache[r], i, x))
        BY <1>3
    <2>2. \A o \in CM!PatchMaterial(db, cache[r], i, x) : Lasts(db, cache[r], o, {})
        BY <1>1, MaterialLasts
    <2> QED
        BY <2>1, <2>2, ChangeSafe
<1>4. CASE \E i \in CM!Ids(cache[r].materials) : Destroy(r, "materials", i, CM!DeleteMaterial(db, cache[r], i))
    <2>1. PICK i \in CM!Ids(cache[r].materials) : Destroy(r, "materials", i, CM!DeleteMaterial(db, cache[r], i))
        BY <1>4
    <2>2. \A o \in CM!DeleteMaterial(db, cache[r], i) : Lasting(db, cache[r], o, {<<"materials", i>>})
        BY <1>1, MaterialLasts
    <2> QED
        BY <2>1, <2>2, DestroySafe
<1> QED
    BY <1>2, <1>3, <1>4 DEF MaterialRequests

LEMMA RoleSafe ==
    ASSUME Core, AckInv, NEW r \in Replicas, RoleRequests(r)
    PROVE  AckInv'
<1>1. CM!Repo!IsDb(db) /\ CM!IsStore(cache[r])
    BY CoreParts
<1>2. CASE \E x \in Data : Create(r, "roles", CM!CreateRole(db, cache[r], x))
    <2>1. PICK x \in Data : Create(r, "roles", CM!CreateRole(db, cache[r], x))
        BY <1>2
    <2>2. \A o \in CM!CreateRole(db, cache[r], x) :
             Lasts(db, cache[r], o, {}) /\ (o.err = "ok" => o.db # db) /\ Made("roles", o)
        BY <1>1, RoleLasts, CreateRoleMade
    <2>3. "roles" \in CM!Repo!Keyed
        BY DEF CM!Repo!Keyed
    <2> QED
        BY <2>1, <2>2, <2>3, CreateSafe
<1>3. CASE \E i \in CM!Ids(cache[r].roles), x \in Data : Change(r, CM!PatchRole(db, cache[r], i, x))
    <2>1. PICK i \in CM!Ids(cache[r].roles), x \in Data : Change(r, CM!PatchRole(db, cache[r], i, x))
        BY <1>3
    <2>2. \A o \in CM!PatchRole(db, cache[r], i, x) : Lasts(db, cache[r], o, {})
        BY <1>1, RoleLasts
    <2> QED
        BY <2>1, <2>2, ChangeSafe
<1>4. CASE \E i \in CM!Ids(cache[r].roles) : Destroy(r, "roles", i, CM!DeleteRole(db, cache[r], i))
    <2>1. PICK i \in CM!Ids(cache[r].roles) : Destroy(r, "roles", i, CM!DeleteRole(db, cache[r], i))
        BY <1>4
    <2>2. \A o \in CM!DeleteRole(db, cache[r], i) : Lasting(db, cache[r], o, {<<"roles", i>>})
        BY <1>1, DeleteRoleLasts
    <2> QED
        BY <2>1, <2>2, DestroySafe
<1> QED
    BY <1>2, <1>3, <1>4 DEF RoleRequests

LEMMA UserSafe ==
    ASSUME Core, AckInv, NEW r \in Replicas, UserRequests(r)
    PROVE  AckInv'
<1>1. CM!Repo!IsDb(db) /\ CM!IsStore(cache[r])
    BY CoreParts
<1>2. CASE \E e \in Emails, ro \in RoleIds \cup {None} : Create(r, "users", CM!CreateUser(db, cache[r], e, ro))
    <2>1. PICK e \in Emails, ro \in RoleIds \cup {None} : Create(r, "users", CM!CreateUser(db, cache[r], e, ro))
        BY <1>2
    <2>2. \A o \in CM!CreateUser(db, cache[r], e, ro) :
             Lasts(db, cache[r], o, {}) /\ (o.err = "ok" => o.db # db) /\ Made("users", o)
        BY <1>1, CreateUserLasts, CreateUserMade
    <2>3. "users" \in CM!Repo!Keyed
        BY DEF CM!Repo!Keyed
    <2> QED
        BY <2>1, <2>2, <2>3, CreateSafe
<1>3. ASSUME NEW i, NEW patch, "id" \notin DOMAIN patch, Change(r, CM!PatchUser(db, cache[r], i, patch))
      PROVE  AckInv'
    <2>1. \A o \in CM!PatchUser(db, cache[r], i, patch) : Lasts(db, cache[r], o, {})
        BY <1>1, <1>3, PatchUserLasts
    <2> QED
        BY <1>3, <2>1, ChangeSafe
<1>4. CASE \E i \in CM!Ids(cache[r].users) :
             \/ \E e \in Emails : Change(r, CM!PatchUser(db, cache[r], i, [email |-> e]))
             \/ \E ro \in RoleIds : Change(r, CM!PatchUser(db, cache[r], i, [role |-> ro]))
    <2>1. \A x : "id" \notin DOMAIN [email |-> x] /\ "id" \notin DOMAIN [role |-> x]
        OBVIOUS
    <2> QED
        BY <1>3, <1>4, <2>1
<1>5. CASE \E i \in CM!Ids(cache[r].users) : Change(r, CM!DeactivateUser(db, cache[r], i))
    <2>1. "id" \notin DOMAIN [status |-> "inactive"]
        OBVIOUS
    <2> QED
        BY <1>3, <1>5, <2>1 DEF CM!DeactivateUser
<1> QED
    BY <1>2, <1>4, <1>5 DEF UserRequests

LEMMA ProfileSafe ==
    ASSUME Core, AckInv, NEW r \in Replicas, ProfileRequests(r)
    PROVE  AckInv'
<1>1. CM!Repo!IsDb(db) /\ CM!IsStore(cache[r])
    BY CoreParts
<1>2. CASE \E e \in Emails : Change(r, CM!PatchProfileForSession(db, cache[r], e, "own"))
    <2>1. PICK e \in Emails : Change(r, CM!PatchProfileForSession(db, cache[r], e, "own"))
        BY <1>2
    <2>2. \A o \in CM!PatchProfileForSession(db, cache[r], e, "own") : Lasts(db, cache[r], o, {})
        BY <1>1, ProfileLasts
    <2> QED
        BY <2>1, <2>2, ChangeSafe
<1>3. CASE \E e \in Emails, p \in Data \cup {None} : Change(r, CM!SetProfilePhoto(db, cache[r], e, p))
    <2>1. PICK e \in Emails, p \in Data \cup {None} : Change(r, CM!SetProfilePhoto(db, cache[r], e, p))
        BY <1>3
    <2>2. \A o \in CM!SetProfilePhoto(db, cache[r], e, p) : Lasts(db, cache[r], o, {})
        BY <1>1, PhotoLasts
    <2> QED
        BY <2>1, <2>2, ChangeSafe
<1> QED
    BY <1>2, <1>3 DEF ProfileRequests

LEMMA ProjectSafe ==
    ASSUME Core, AckInv, NEW r \in Replicas, ProjectRequests(r)
    PROVE  AckInv'
<1>1. CM!Repo!IsDb(db) /\ CM!IsStore(cache[r])
    BY CoreParts
<1>2. CASE \E x \in Data :
             /\ Request(r, CM!CreateProject(db, cache[r], x), NoExcuse,
                        LAMBDA o : IF o.err = "ok" THEN acked \cup {<<"projects", db.serial>>} ELSE acked)
             /\ UNCHANGED unsaved
    <2>1. PICK x \in Data :
             /\ Request(r, CM!CreateProject(db, cache[r], x), NoExcuse,
                        LAMBDA o : IF o.err = "ok" THEN acked \cup {<<"projects", db.serial>>} ELSE acked)
             /\ UNCHANGED unsaved
        BY <1>2
    <2>2. PICK o \in CM!CreateProject(db, cache[r], x) :
             /\ Did(r, o, {}) /\ unsaved' = unsaved
             /\ acked' = IF o.err = "ok" THEN acked \cup {<<"projects", db.serial>>} ELSE acked
        BY <2>1 DEF Request, Did, NoExcuse
    <2>3. PICK added : added = IF o.err = "ok" THEN {<<"projects", db.serial>>} ELSE {}
        OBVIOUS
    <2>4. Lasts(db, cache[r], o, {}) /\ (o.err = "ok" => db.serial \in DOMAIN o.db.projects)
        BY <1>1, <2>2, CreateProjectLasts
    <2>5. Fresh(o, added)
        BY <2>3, <2>4 DEF Fresh, Held, Shown, CM!Repo!Keyed
    <2>6. Commit(r, o, {}) /\ spilled' = spilled
        BY <2>2 DEF Did
    <2>7. acked' \ unsaved' \subseteq ((acked \ unsaved) \ {}) \cup added
        BY <2>2, <2>3
    <2> QED
        BY <2>2, <2>4, <2>5, <2>6, <2>7, CommitSafe
<1>3. CASE \E i \in DOMAIN cache[r].projects, x \in Data : Change(r, CM!PatchProject(db, cache[r], i, x))
    <2>1. PICK i \in DOMAIN cache[r].projects, x \in Data : Change(r, CM!PatchProject(db, cache[r], i, x))
        BY <1>3
    <2>2. \A o \in CM!PatchProject(db, cache[r], i, x) : Lasts(db, cache[r], o, {})
        BY <1>1, PatchProjectLasts
    <2> QED
        BY <2>1, <2>2, ChangeSafe
<1>4. CASE /\ \E i \in DOMAIN cache[r].projects :
                  LET gone == {<<"projects", ProjectAt(r, i).dbid>>}
                                \cup {<<"tasks", t>> : t \in {id \in DOMAIN db.tasks : db.tasks[id].project = ProjectAt(r, i).dbid}}
                                \cup {<<"tasks", t.id>> : t \in Range(ProjectAt(r, i).tasks)}
                  IN Request(r, CM!DeleteProject(db, cache[r], i), NoExcuse,
                             LAMBDA o : IF o.err \in {"ok", "lost"} THEN acked \ gone ELSE acked)
           /\ UNCHANGED unsaved
    <2>1. PICK i \in DOMAIN cache[r].projects :
            LET gone == {<<"projects", ProjectAt(r, i).dbid>>}
                          \cup {<<"tasks", t>> : t \in {id \in DOMAIN db.tasks : db.tasks[id].project = ProjectAt(r, i).dbid}}
                          \cup {<<"tasks", t.id>> : t \in Range(ProjectAt(r, i).tasks)}
            IN Request(r, CM!DeleteProject(db, cache[r], i), NoExcuse,
                       LAMBDA o : IF o.err \in {"ok", "lost"} THEN acked \ gone ELSE acked)
        BY <1>4
    <2>2. PICK gone : gone = {<<"projects", ProjectAt(r, i).dbid>>}
                          \cup {<<"tasks", t>> : t \in {id \in DOMAIN db.tasks : db.tasks[id].project = ProjectAt(r, i).dbid}}
                          \cup {<<"tasks", t.id>> : t \in Range(ProjectAt(r, i).tasks)}
        OBVIOUS
    <2>3. PICK o \in CM!DeleteProject(db, cache[r], i) :
             Did(r, o, {}) /\ acked' = IF o.err \in {"ok", "lost"} THEN acked \ gone ELSE acked
        BY <2>1, <2>2 DEF Request, Did, NoExcuse
    <2>4. /\ <<"projects", cache[r].projects[i].dbid>> \in gone
          /\ \A t \in DOMAIN db.tasks : db.tasks[t].project = cache[r].projects[i].dbid => <<"tasks", t>> \in gone
          /\ \A t \in CM!Ids(cache[r].projects[i].tasks) : <<"tasks", t>> \in gone
        BY <2>2 DEF ProjectAt, CM!Ids, Range
    <2>5. Lasts(db, cache[r], o, gone) /\ (o.err \notin {"ok", "lost"} => Lasts(db, cache[r], o, {}))
        BY <1>1, <2>3, <2>4, DeleteProjectLasts
    <2>6. Commit(r, o, {}) /\ spilled' = spilled
        BY <2>3 DEF Did
    <2> QED
        BY <1>4, <2>3, <2>5, <2>6, GoneSafe
<1> QED
    BY <1>2, <1>3, <1>4 DEF ProjectRequests

LEMMA TaskSafe ==
    ASSUME Core, AckInv, NEW r \in Replicas, TaskRequests(r)
    PROVE  AckInv'
<1>1. CM!Repo!IsDb(db) /\ CM!IsStore(cache[r])
    BY CoreParts
<1>2. PICK i \in DOMAIN cache[r].projects :
    \/ /\ Allowed("tasks.create")
       /\ \E t \in TaskIds, x \in Data :
            /\ Request(r, CM!CreateTask(db, cache[r], i, t, x), NoExcuse,
                       LAMBDA o : IF o.err = "ok" THEN acked \cup {<<"tasks", t>>} ELSE acked)
            /\ unsaved' = IF ProjectAt(r, i).dbid = 0 THEN unsaved \cup {<<"tasks", t>>} ELSE unsaved
    \/ /\ Allowed("tasks.update")
       /\ \E t \in CM!Ids(ProjectAt(r, i).tasks), x \in Data :
            Change(r, CM!PatchTask(db, cache[r], i, t, x))
    \/ /\ Allowed("tasks.delete")
       /\ \E t \in CM!Ids(ProjectAt(r, i).tasks) :
            Request(r, CM!DeleteTask(db, cache[r], i, t), NoExcuse,
                    LAMBDA o : IF o.err \in {"ok", "lost"} THEN acked \ {<<"tasks", t>>} ELSE acked)
       /\ UNCHANGED unsaved
    BY DEF TaskRequests
<1>3. CM!Ids(ProjectAt(r, i).tasks) \subseteq Int
    <2>1. CM!Repo!IsList("items", cache[r].projects[i].tasks)
        <3>1. CM!IsBoard(cache[r].projects)
            BY <1>1 DEF CM!IsStore
        <3> QED
            BY <3>1, BoardParts DEF IsProject
    <2>2. "items" \in Kinds
        BY DEF Kinds
    <2>3. \A k \in DOMAIN cache[r].projects[i].tasks : cache[r].projects[i].tasks[k].id \in Int
        BY <2>1, <2>2, ListSeq, RowId
    <2> QED
        BY <2>3 DEF CM!Ids, ProjectAt
<1>4. CASE \E t \in TaskIds, x \in Data :
            /\ Request(r, CM!CreateTask(db, cache[r], i, t, x), NoExcuse,
                       LAMBDA o : IF o.err = "ok" THEN acked \cup {<<"tasks", t>>} ELSE acked)
            /\ unsaved' = IF ProjectAt(r, i).dbid = 0 THEN unsaved \cup {<<"tasks", t>>} ELSE unsaved
    <2>1. PICK t \in TaskIds, x \in Data :
            /\ Request(r, CM!CreateTask(db, cache[r], i, t, x), NoExcuse,
                       LAMBDA o : IF o.err = "ok" THEN acked \cup {<<"tasks", t>>} ELSE acked)
            /\ unsaved' = IF ProjectAt(r, i).dbid = 0 THEN unsaved \cup {<<"tasks", t>>} ELSE unsaved
        BY <1>4
    <2>2. PICK o \in CM!CreateTask(db, cache[r], i, t, x) :
             Did(r, o, {}) /\ acked' = IF o.err = "ok" THEN acked \cup {<<"tasks", t>>} ELSE acked
        BY <2>1 DEF Request, Did, NoExcuse
    <2> DEFINE new == o.err = "ok" /\ cache[r].projects[i].dbid # 0
    <2>3. PICK added : added = IF new THEN {<<"tasks", t>>} ELSE {}
        OBVIOUS
    <2>0. t \in Int
        BY ServiceAssumption
    <2>4. Lasts(db, cache[r], o, {}) /\ (new => o.db # db /\ Held(o.db, "tasks", t) /\ Shown(o.store, "tasks", t))
        BY <1>1, <1>3, <2>0, <2>2, CreateTaskLasts
    <2>5. unsaved \subseteq unsaved' /\ acked' \ unsaved' \subseteq ((acked \ unsaved) \ {}) \cup added
        BY <2>1, <2>2, <2>3 DEF ProjectAt
    <2> HIDE DEF new
    <2>6. Fresh(o, added)
        <3>1. \A u \in Tables, id \in Int : <<u, id>> \in added => u = "tasks" /\ id = t /\ new
            BY <2>3
        <3> QED
            BY <2>4, <3>1 DEF Fresh
    <2>7. Commit(r, o, {}) /\ spilled' = spilled
        BY <2>2 DEF Did
    <2> QED
        BY <2>4, <2>5, <2>6, <2>7, CommitSafe
<1>5. CASE \E t \in CM!Ids(ProjectAt(r, i).tasks), x \in Data :
            Change(r, CM!PatchTask(db, cache[r], i, t, x))
    <2>1. PICK t \in CM!Ids(ProjectAt(r, i).tasks), x \in Data : Change(r, CM!PatchTask(db, cache[r], i, t, x))
        BY <1>5
    <2>2. \A o \in CM!PatchTask(db, cache[r], i, t, x) : Lasts(db, cache[r], o, {})
        BY <1>1, <1>3, TaskMethodsLast
    <2> QED
        BY <2>1, <2>2, ChangeSafe
<1>6. CASE /\ \E t \in CM!Ids(ProjectAt(r, i).tasks) :
                Request(r, CM!DeleteTask(db, cache[r], i, t), NoExcuse,
                        LAMBDA o : IF o.err \in {"ok", "lost"} THEN acked \ {<<"tasks", t>>} ELSE acked)
           /\ UNCHANGED unsaved
    <2>1. PICK t \in CM!Ids(ProjectAt(r, i).tasks) :
                Request(r, CM!DeleteTask(db, cache[r], i, t), NoExcuse,
                        LAMBDA o : IF o.err \in {"ok", "lost"} THEN acked \ {<<"tasks", t>>} ELSE acked)
        BY <1>6
    <2>2. PICK o \in CM!DeleteTask(db, cache[r], i, t) :
             Did(r, o, {}) /\ acked' = IF o.err \in {"ok", "lost"} THEN acked \ {<<"tasks", t>>} ELSE acked
        BY <2>1 DEF Request, Did, NoExcuse
    <2>3. Lasts(db, cache[r], o, {<<"tasks", t>>}) /\ (o.err \notin {"ok", "lost"} => Lasts(db, cache[r], o, {}))
        BY <1>1, <1>3, <2>2, TaskMethodsLast
    <2>4. Commit(r, o, {}) /\ spilled' = spilled
        BY <2>2 DEF Did
    <2> QED
        BY <1>6, <2>2, <2>3, <2>4, GoneSafe
<1> QED
    BY <1>2, <1>4, <1>5, <1>6

LEMMA MessageSafe ==
    ASSUME Core, AckInv, NEW r \in Replicas, PostAssistance(r) \/ PutAiScan(r)
    PROVE  AckInv'
<1>1. CASE PostAssistance(r)
    <2>1. PICK m \in Messages : Change(r, CM!PostAssistance(db, cache[r], m))
        BY <1>1 DEF PostAssistance
    <2>2. \A o \in CM!PostAssistance(db, cache[r], m) : Lasts(db, cache[r], o, {})
        BY CoreParts, AssistanceLasts
    <2> QED
        BY <2>1, <2>2, ChangeSafe
<1>2. CASE PutAiScan(r)
    <2>1. PICK x \in Data :
           /\ Request(r, CM!SetAiScan(db, cache[r], x),
                      LAMBDA o : IF o.db.scan = o.store.scan THEN {} ELSE {"dropped"}, Keeps)
           /\ UNCHANGED unsaved
        BY <1>2 DEF PutAiScan
    <2>2. PICK o \in CM!SetAiScan(db, cache[r], x) :
             /\ Did(r, o, IF o.db.scan = o.store.scan THEN {} ELSE {"dropped"})
             /\ acked' = acked /\ unsaved' = unsaved
        BY <2>1 DEF Request, Did, Keeps
    <2>3. Lasts(db, cache[r], o, {})
        BY CoreParts, ScanLasts
    <2>4. Commit(r, o, IF o.db.scan = o.store.scan THEN {} ELSE {"dropped"}) /\ spilled' = spilled
        BY <2>2 DEF Did
    <2> QED
        BY <2>2, <2>3, <2>4, KeepsSafe
<1> QED
    BY <1>1, <1>2

LEMMA EntrySafe ==
    ASSUME Core, AckInv, NEW h \in Handlers, NEW r \in Replicas, StoreEntry(h, r),
           UNCHANGED <<acked, unsaved, spilled>>
    PROVE  AckInv'
<1>1. PICK o \in CM!auditStored(db, cache[r], NextEntry) :
        Commit(r, o, IF NextEntry \in Range(o.db.audit) THEN {} ELSE {"dropped"})
    BY DEF StoreEntry
<1>2. Lasts(db, cache[r], o, {})
    BY CoreParts, AuditLasts
<1> QED
    BY <1>1, <1>2, KeepsSafe

LEMMA AuditSafe ==
    ASSUME Core, AckInv, NEW h \in Handlers,
           \/ \E r \in Replicas : AppendAudit(h, r)
           \/ RecordBulkReplace(h)
           \/ AuditRing(h)
    PROVE  AckInv'
<1>1. CASE \E r \in Replicas : AppendAudit(h, r)
    BY <1>1, EntrySafe DEF AppendAudit, history
<1>2. CASE RecordBulkReplace(h)
    <2>1. job[h].replica \in Replicas
        BY <1>2, IdleOK DEF RecordBulkReplace, Core, JobOK
    <2> QED
        BY <1>2, <2>1, EntrySafe DEF RecordBulkReplace, history
<1>3. CASE AuditRing(h)
    <2> DEFINE r == job[h].replica
    <2>1. r \in Replicas
        BY <1>3, IdleOK DEF AuditRing, Core, JobOK
    <2>2. UNCHANGED <<db, acked, unsaved, spilled>> /\ cache' = [cache EXCEPT ![r] = CM!auditRing(@, job[h].entry)]
        BY <1>3 DEF AuditRing, history
    <2>3. \A q \in Replicas : ~Lacking(q)' => ~Lacking(q)
        <3>1. upset' = upset \/ upset' = [upset EXCEPT ![r] = @ \cup {"late"}]
            BY <1>3 DEF AuditRing
        <3>2. \A q \in Replicas : upset[q] \subseteq upset'[q]
            BY <3>1 DEF Core
        <3> QED
            BY <3>2 DEF Lacking
    <2>4. ListLasts(cache[r], CM!auditRing(cache[r], job[h].entry), {})
        BY <2>1, CoreParts, RingLasts
    <2>5. cache'[r] = CM!auditRing(cache[r], job[h].entry) /\ \A q \in Replicas : q # r => cache'[q] = cache[q]
        BY <2>1, <2>2 DEF Core
    <2>6. \A t \in Tables, id \in Int : \A q \in Replicas : Shown(cache[q], t, id) => Shown(cache'[q], t, id)
        BY <2>4, <2>5 DEF ListLasts
    <2> HIDE DEF r
    <2>7. ASSUME ~spilled, NEW t \in Tables, NEW id \in Int, <<t, id>> \in acked \ unsaved
          PROVE  Safe(t, id)'
        <3>1. Safe(t, id)
            BY <2>7 DEF AckInv
        <3>2. \A q \in Replicas : ~Lacking(q)' => Shown(cache'[q], t, id)
            BY <2>3, <2>6, <3>1 DEF Safe
        <3> QED
            BY <2>2, <3>1, <3>2 DEF Safe, Held, Shown, HoldsTask
    <2> QED
        BY <2>2, <2>7 DEF AckInv
<1> QED
    BY <1>1, <1>2, <1>3

LEMMA ContractPostedSafe ==
    ASSUME Core, AckInv, NEW h \in Handlers, NEW r \in Replicas, ContractPosted(h, r)
    PROVE  AckInv'
<1>1. PICK given \in ContractNos \cup {None}, z \in ZoneCodes, sup \in Supervisors, st \in Statuses \cup {None} :
       LET no == IF given = None THEN CM!nextContractNo(cache[r]) ELSE given
           in == [id |-> no, zone |-> z, sup |-> sup, status |-> st, report |-> 0]
       IN /\ no \in ContractNos
          /\ \E o \in CM!CreateContract(db, cache[r], in) :
               /\ Commit(r, o, {})
               /\ acked' = Adds("contracts", o)
               /\ miscounted' = Miscounts(r, o)
               /\ raced' = IF o.err # "ok" /\ o.db = db THEN raced
                           ELSE IF OnContract(no) \/ o.err = "lost" THEN raced \cup {no} ELSE raced
               /\ job' = IF o.err # "ok" THEN job
                         ELSE [job EXCEPT ![h] = Counting(r, no, o.store, <<z>>, CM!defaultStatus(st))]
    BY Zenon DEF ContractPosted
<1> DEFINE no == IF given = None THEN CM!nextContractNo(cache[r]) ELSE given
<1>2. PICK o \in CM!CreateContract(db, cache[r], [id |-> no, zone |-> z, sup |-> sup, status |-> st, report |-> 0]) :
           Commit(r, o, {}) /\ acked' = Adds("contracts", o)
    BY <1>1
<1>3. no \in Int
    BY <1>1, ServiceAssumption
<1> HIDE DEF no
<1>4. Lasts(db, cache[r], o, {}) /\ (o.err = "ok" => o.db # db) /\ Made("contracts", o)
    BY <1>2, <1>3, CoreParts, CreateContractLasts, CreateContractMade
<1>5. unsaved' = unsaved /\ spilled' = spilled /\ "contracts" \in CM!Repo!Keyed
    BY DEF ContractPosted, CM!Repo!Keyed
<1> QED
    BY <1>2, <1>4, <1>5, AddsSafe

LEMMA PatchContractSafe ==
    ASSUME Core, AckInv, NEW h \in Handlers, PatchContract(h)
    PROVE  AckInv'
<1> DEFINE j == job[h]
           r == j.replica
<1>1. j.at = "patch" /\ r \in Replicas /\ j.patch \in Patches
    BY IdleOK DEF PatchContract, Core, JobOK
<1>2. PICK o \in CM!updateContract(db, cache[r], j.no, j.patch) : Commit(r, o, {})
    BY DEF PatchContract
<1>3. "id" \notin DOMAIN j.patch
    BY <1>1 DEF Patches
<1>4. Lasts(db, cache[r], o, {})
    BY <1>1, <1>2, <1>3, CoreParts, UpdateContractLasts
<1>5. UNCHANGED <<acked, unsaved, spilled>>
    BY DEF PatchContract
<1> QED
    BY <1>1, <1>2, <1>4, <1>5, KeepsSafe

LEMMA DeleteContractSafe ==
    ASSUME Core, AckInv, NEW h \in Handlers, DeleteContract(h)
    PROVE  AckInv'
<1>1. PICK r, no : r = job[h].replica /\ no = job[h].no
    OBVIOUS
<1>2. job[h].at = "drop" /\ r \in Replicas
    BY <1>1, IdleOK DEF DeleteContract, Core, JobOK
<1>3. PICK o \in CM!deleteContract(db, cache[r], no) :
        Commit(r, o, {}) /\ acked' = Drops("contracts", no, o)
    BY <1>1 DEF DeleteContract
<1>4. Lasting(db, cache[r], o, {<<"contracts", no>>})
    BY <1>2, <1>3, CoreParts, DeleteContractLasts
<1>5. unsaved' = unsaved /\ spilled' = spilled
    BY DEF DeleteContract
<1> QED
    BY <1>2, <1>3, <1>4, <1>5, DropsSafe

LEMMA CountZoneSafe ==
    ASSUME Core, AckInv, NEW h \in Handlers, CountZone(h)
    PROVE  AckInv'
<1> DEFINE r == job[h].replica
<1>1. r \in Replicas
    BY IdleOK DEF CountZone, Core, JobOK
<1>2. PICK o \in CM!persistZoneCount(db, cache[r], Head(job[h].zones)) : Commit(r, o, {})
    BY DEF CountZone
<1>3. Lasts(db, cache[r], o, {})
    BY <1>1, <1>2, CoreParts, CountLasts
<1>4. UNCHANGED <<acked, unsaved, spilled>>
    BY DEF CountZone
<1> QED
    BY <1>1, <1>2, <1>3, <1>4, KeepsSafe

LEMMA StillSafe ==
    ASSUME AckInv, NEW h \in Handlers,
           (\E r \in Replicas : PatchBegins(h, r) \/ DeleteBegins(h, r)) \/ PublishContract(h)
    PROVE  AckInv'
<1>1. UNCHANGED <<db, cache, upset, acked, unsaved, spilled>>
    BY DEF PatchBegins, DeleteBegins, PublishContract
<1>2. \A q \in Replicas : ~Lacking(q)' => ~Lacking(q)
    BY <1>1 DEF Lacking
<1> QED
    BY <1>1, <1>2, QuietSafe

\* The snapshot has the tasks of every project, under the project's new name.
LEMMA SnapshotTaskRows ==
    ASSUME NEW d, NEW s, NEW a, a = Snapshot(d, s)
    PROVE  /\ \A id : id \in DOMAIN a.tasks <=> HoldsTask(s, id)
           /\ \A id \in DOMAIN a.tasks : a.tasks[id].project \in DOMAIN a.projects
<1> DEFINE row(i, t) == [id |-> t.id, project |-> d.serial + i - 1, title |-> t.title]
           rowsOf(i) == {[id |-> t.id, project |-> d.serial + i - 1, title |-> t.title] : t \in CM!Repo!Range(s.projects[i].tasks)}
           items == UNION {rowsOf(i) : i \in DOMAIN s.projects}
<1>1. /\ a.tasks = [id \in {t.id : t \in items} |-> CHOOSE t \in items : t.id = id]
      /\ DOMAIN a.projects = {d.serial + i - 1 : i \in DOMAIN s.projects}
    BY DEF Snapshot
<1>2. \A x : x \in items <=>
        \E i \in DOMAIN s.projects : \E k \in DOMAIN s.projects[i].tasks : x = row(i, s.projects[i].tasks[k])
    <2>1. \A i, t : t \in CM!Repo!Range(s.projects[i].tasks) <=>
                      \E k \in DOMAIN s.projects[i].tasks : t = s.projects[i].tasks[k]
        BY DEF CM!Repo!Range
    <2> HIDE DEF row
    <2>2. ASSUME NEW x
          PROVE  x \in items <=>
                   \E i \in DOMAIN s.projects : \E k \in DOMAIN s.projects[i].tasks : x = row(i, s.projects[i].tasks[k])
        <3>1. x \in items <=> \E i \in DOMAIN s.projects : x \in rowsOf(i)
            OBVIOUS
        <3>2. \A i : x \in rowsOf(i) <=> \E t \in CM!Repo!Range(s.projects[i].tasks) : x = row(i, t)
            BY DEF row
        <3> HIDE DEF items, rowsOf
        <3>3. ASSUME NEW i
              PROVE  x \in rowsOf(i) <=> \E k \in DOMAIN s.projects[i].tasks : x = row(i, s.projects[i].tasks[k])
            <4>1. x \in rowsOf(i) <=> \E t \in CM!Repo!Range(s.projects[i].tasks) : x = row(i, t)
                BY <3>2
            <4>2. \A t : t \in CM!Repo!Range(s.projects[i].tasks) <=>
                          \E k \in DOMAIN s.projects[i].tasks : t = s.projects[i].tasks[k]
                BY <2>1
            <4> QED
                BY <4>1, <4>2
        <3> QED
            BY <3>1, <3>3
    <2> QED
        BY <2>2
<1>3. \A i, t : row(i, t).id = t.id /\ row(i, t).project = d.serial + i - 1
    OBVIOUS
<1> HIDE DEF items, row
<1>4. \A id : id \in DOMAIN a.tasks <=> \E x \in items : x.id = id
    BY <1>1
<1>5. \A id \in DOMAIN a.tasks : a.tasks[id] \in items
    BY <1>1
<1>6. \A x \in items : x.project \in DOMAIN a.projects
    BY <1>1, <1>2, <1>3
<1>7. \A id : (\E x \in items : x.id = id) <=> HoldsTask(s, id)
    BY <1>2, <1>3 DEF HoldsTask, CM!Ids
<1> QED
    BY <1>4, <1>5, <1>6, <1>7

\* A snapshot holds what the store shows, and nothing else.
LEMMA SnapshotHolds ==
    ASSUME NEW d, NEW s, NEW a, a = Snapshot(d, s), BelowAll(a, s), MirrorsAll(a, s)
    PROVE  \A t \in Tables, id \in Int :
             /\ t # "projects" /\ Shown(s, t, id) => Held(a, t, id)
             /\ Held(a, t, id) => Shown(s, t, id)
<1>1. \A t \in CM!Repo!Keyed : CM!Ids(s[t]) \subseteq DOMAIN a[t] /\ DOMAIN a[t] \subseteq CM!Ids(s[t])
    BY DEF BelowAll, MirrorsAll, Below, Mirrors
<1>2. /\ \A id : id \in DOMAIN a.tasks <=> HoldsTask(s, id)
      /\ \A id \in DOMAIN a.tasks : a.tasks[id].project \in DOMAIN a.projects
    BY SnapshotTaskRows
<1>3. /\ Tables = CM!Repo!Keyed \cup {"projects", "tasks"}
      /\ "projects" \notin CM!Repo!Keyed /\ "tasks" \notin CM!Repo!Keyed
    BY DEF Tables, CM!Repo!Tables, CM!Repo!Keyed
<1> QED
    BY <1>1, <1>2, <1>3 DEF Held, Shown

\* Every project is loaded.
LEMMA ProjectsListed ==
    ASSUME NEW table, CM!Repo!IsTable("projects", table),
           \A k \in DOMAIN table : table[k].order \in Int,
           \A k, l \in DOMAIN table : table[k].order = table[l].order => k = l
    PROVE  LET rows == CM!Repo!OrderBy(table, "order")
               n == Cardinality(DOMAIN table) IN
           /\ rows = [i \in 1..n |-> rows[i]]
           /\ \A id \in DOMAIN table : \E i \in 1..n : rows[i] = table[id]
<1> DEFINE rows == CM!Repo!OrderBy(table, "order")
           n == Cardinality(DOMAIN table)
<1>1. "projects" \in Kinds
    BY DEF Kinds, Tables, CM!Repo!Tables
<1>2. /\ \A k \in DOMAIN table : table[k]["order"] \in Int
      /\ \A k, l \in DOMAIN table : table[k]["order"] = table[l]["order"] => k = l
    OBVIOUS
<1>3. /\ rows = [i \in 1..n |-> rows[i]]
      /\ \A id \in DOMAIN table : \E i \in 1..n : rows[i] = table[id]
    BY <1>1, <1>2, Ordered
<1> QED
    BY <1>3

\* What a replica loads shows every row that is held.
LEMMA LoadedBoard ==
    ASSUME NEW d, CM!Repo!IsDb(d), NEW id \in DOMAIN d.tasks, d.tasks[id].project \in DOMAIN d.projects,
           NEW s, s = CM!Repo!LoadState(d)
    PROVE  HoldsTask(s, id)
<1> DEFINE inOrder == CM!Repo!OrderBy(d.projects, "order")
           tasksOf(p) == CM!Repo!ById(CM!Repo!Restrict(d.tasks, {t \in DOMAIN d.tasks : d.tasks[t].project = p}))
           item(t) == [id |-> t.id, title |-> t.title]
           n == Cardinality(DOMAIN d.projects)
           p == d.tasks[id].project
           board == [i \in DOMAIN inOrder |->
                      [dbid |-> inOrder[i].id, name |-> inOrder[i].name,
                       tasks |-> [k \in DOMAIN tasksOf(inOrder[i].id) |-> item(tasksOf(inOrder[i].id)[k])]]]
<1>1. s.projects = board
    BY DEF CM!Repo!loadTasks, CM!Repo!LoadState
<1>2. /\ inOrder = [i \in 1..n |-> inOrder[i]]
      /\ \A q \in DOMAIN d.projects : \E i \in 1..n : inOrder[i] = d.projects[q]
    BY DbFields, ProjectsListed
<1>3. id \in CM!Ids(tasksOf(p))
    <2> DEFINE T == {t \in DOMAIN d.tasks : d.tasks[t].project = p}
    <2>1. T \in SUBSET DOMAIN d.tasks /\ id \in T
        OBVIOUS
    <2> HIDE DEF T
    <2>2. PICK table : table = CM!Repo!Restrict(d.tasks, T)
        OBVIOUS
    <2>3. CM!Repo!IsTable("tasks", table) /\ id \in DOMAIN table
        BY <2>1, <2>2, DbFields, TableWithout DEF CM!Repo!Restrict
    <2>4. id \in CM!Ids(CM!Repo!ById(table))
        BY <2>3, DbFields, Loaded DEF Mirrors
    <2> QED
        BY <2>2, <2>4 DEF T
<1>4. PICK i \in 1..n : inOrder[i] = d.projects[p]
    BY <1>2
<1>5. inOrder[i].id = p /\ i \in DOMAIN inOrder
    <2>1. DOMAIN inOrder = 1..n
        BY <1>2
    <2>2. d.projects[p].id = p
        BY DbFields, TableRow
    <2> QED
        BY <1>4, <2>1, <2>2
<1> DEFINE rows == tasksOf(p)
<1>6. i \in DOMAIN board /\ board[i].tasks = [k \in DOMAIN rows |-> item(rows[k])]
    BY <1>5
<1> HIDE DEF board, rows
<1>7. \A k \in DOMAIN rows : (board[i].tasks[k]).id = rows[k].id
    BY <1>6
<1>8. id \in CM!Ids(rows)
    BY <1>3 DEF rows
<1>9. id \in CM!Ids(board[i].tasks)
    BY <1>6, <1>7, <1>8 DEF CM!Ids
<1> QED
    BY <1>1, <1>6, <1>9 DEF HoldsTask

LEMMA LoadedShows ==
    ASSUME NEW d, CM!Repo!IsDb(d), NEW s, s = CM!Repo!LoadState(d), NEW t \in Tables, NEW id \in Int, Held(d, t, id)
    PROVE  Shown(s, t, id)
<1>1. \A u \in CM!Repo!Keyed : DOMAIN d[u] \subseteq CM!Ids(s[u])
    BY LoadedStore DEF MirrorsAll, Mirrors
<1>2. t = "tasks" => HoldsTask(s, id)
    BY LoadedBoard DEF Held
<1> QED
    BY <1>1, <1>2 DEF Held, Shown

\* A bulk PUT leaves the lists it does not bring.
LEMMA WorkspaceShows ==
    ASSUME NEW s, CM!IsStore(s), NEW ws \in Workspaces, NEW s2, s2 = CM!ReplaceWorkspace(s, ws)
    PROVE  \A t \in Tables \ WorkspaceHalf : \A id : Shown(s, t, id) => Shown(s2, t, id)
<1> DEFINE mid == [s EXCEPT !.zones = ws.zones, !.contracts = ws.contracts,
                            !.engineers = ws.engineers, !.users = ws.users]
<1>1. DOMAIN s = CM!Repo!Keyed \cup {"audit", "assistance", "photos", "projects", "scan"}
      /\ \A t \in CM!Repo!Keyed : CM!Repo!IsList(t, s[t])
    BY StoreParts
<1>2. DOMAIN mid = DOMAIN s /\ \A x \in DOMAIN s \ WorkspaceHalf : mid[x] = s[x]
    BY DEF WorkspaceHalf
<1>3. WorkspaceHalf \subseteq DOMAIN s
    BY <1>1 DEF WorkspaceHalf, CM!Repo!Keyed
<1>4. \A t \in WorkspaceHalf : mid[t] = ws[t]
    BY <1>3 DEF WorkspaceHalf
<1>5. s2 = CM!recalcZoneCounts(mid)
    BY DEF CM!ReplaceWorkspace
<1> HIDE DEF mid
<1>6. \A t \in CM!Repo!Keyed : CM!Repo!IsList(t, mid[t])
    BY <1>1, <1>2, <1>4, BodiesAssumption
<1>7. mid.assistance = s.assistance /\ mid.projects = s.projects
    BY <1>1, <1>2 DEF WorkspaceHalf
<1>8. CM!IsStore(mid)
    BY <1>2, <1>6, <1>7 DEF CM!IsStore
<1>9. \A x \in DOMAIN s \ WorkspaceHalf : s2[x] = s[x]
    <2>1. "zones" \in WorkspaceHalf
        BY DEF WorkspaceHalf
    <2> QED
        BY <1>2, <1>5, <1>8, <2>1, RecountStore
<1>10. s2.projects = s.projects /\ \A t \in CM!Repo!Keyed \ WorkspaceHalf : s2[t] = s[t]
    BY <1>1, <1>9 DEF WorkspaceHalf
<1> QED
    BY <1>10 DEF Shown, HoldsTask

LEMMA FrontendShows ==
    ASSUME NEW s, CM!IsStore(s), NEW fe \in Frontends, NEW s2, s2 = CM!ReplaceFrontend(s, fe)
    PROVE  \A t \in Tables \ (FrontendHalf \cup {"projects", "tasks"}) :
             \A id : Shown(s, t, id) => Shown(s2, t, id)
<1>1. \A x \in DOMAIN s \ (FrontendHalf \cup {"projects", "assistance", "photos", "scan"}) : s2[x] = s[x]
    BY DEF CM!ReplaceFrontend, FrontendHalf
<1>2. \A t \in CM!Repo!Keyed \ FrontendHalf : s2[t] = s[t]
    <2>1. CM!Repo!Keyed \subseteq DOMAIN s
        BY StoreParts
    <2> QED
        BY <1>1, <2>1 DEF CM!Repo!Keyed
<1> QED
    BY <1>2 DEF Shown

LEMMA ReplacedSafe ==
    ASSUME Core, AckInv, NEW h \in Handlers, NEW r \in Replicas, NEW s, NEW tables,
           \A t \in Tables \ tables : \A id : Shown(cache[r], t, id) => Shown(s, t, id),
           Replaced(h, r, s, tables)
    PROVE  AckInv'
<1>1. /\ db' = db /\ cache' = [cache EXCEPT ![r] = s]
      /\ upset' = IF Saving(r) THEN [upset EXCEPT ![r] = upset[r] \cup {"overlap"}] ELSE upset
      /\ acked' = {x \in acked : x[1] \notin tables} /\ unsaved' = unsaved /\ spilled' = spilled
    BY DEF Replaced
<1>2. cache'[r] = s /\ \A q \in Replicas : q # r => cache'[q] = cache[q]
    BY <1>1 DEF Core
<1>3. \A q \in Replicas : upset[q] \subseteq upset'[q]
    BY <1>1 DEF Core
<1>4. ASSUME ~spilled, NEW t \in Tables, NEW id \in Int, <<t, id>> \in acked' \ unsaved'
      PROVE  Safe(t, id)'
    <2>1. t \notin tables /\ <<t, id>> \in acked \ unsaved
        BY <1>1, <1>4
    <2>2. Safe(t, id)
        BY <1>4, <2>1 DEF AckInv
    <2>3. ASSUME NEW q \in Replicas, ~Lacking(q)'
          PROVE  Shown(cache'[q], t, id)
        <3>1. ~Lacking(q)
            BY <1>3, <2>3 DEF Lacking
        <3>2. Shown(cache[q], t, id)
            BY <2>2, <3>1 DEF Safe
        <3> QED
            BY <1>2, <2>1, <3>2
    <2>4. Held(db', t, id)
        BY <1>1, <2>2 DEF Safe
    <2> QED
        BY <2>3, <2>4 DEF Safe, Held, Shown, HoldsTask
<1> QED
    BY <1>1, <1>4 DEF AckInv

LEMMA PutSafe ==
    ASSUME Core, AckInv, NEW h \in Handlers, NEW r \in Replicas, PutWorkspace(h, r) \/ PutFrontend(h, r)
    PROVE  AckInv'
<1>1. CASE PutWorkspace(h, r)
    <2>1. PICK ws \in Workspaces : Replaced(h, r, CM!ReplaceWorkspace(cache[r], ws), WorkspaceHalf)
        BY <1>1 DEF PutWorkspace
    <2>2. \A t \in Tables \ WorkspaceHalf : \A id :
            Shown(cache[r], t, id) => Shown(CM!ReplaceWorkspace(cache[r], ws), t, id)
        BY CoreParts, WorkspaceShows
    <2> QED
        BY <2>1, <2>2, ReplacedSafe
<1>2. CASE PutFrontend(h, r)
    <2>1. PICK fe \in Frontends :
            Replaced(h, r, CM!ReplaceFrontend(cache[r], fe), FrontendHalf \cup {"projects", "tasks", "photos"})
        BY <1>2 DEF PutFrontend
    <2>2. \A t \in Tables \ (FrontendHalf \cup {"projects", "tasks", "photos"}) : \A id :
            Shown(cache[r], t, id) => Shown(CM!ReplaceFrontend(cache[r], fe), t, id)
        BY CoreParts, FrontendShows
    <2> QED
        BY <2>1, <2>2, ReplacedSafe
<1> QED
    BY <1>1, <1>2

\* What stores that are alike show is the same.
LEMMA AlikeShows ==
    ASSUME NEW s, NEW s2, Alike(s, s2)
    PROVE  \A t, id : Shown(s, t, id) <=> Shown(s2, t, id)
<1>1. s.projects = s2.projects /\ \A t \in CM!Repo!Keyed : s[t] = s2[t]
    BY DEF Alike, CM!seed, CM!Repo!Keyed
<1> QED
    BY <1>1 DEF Shown, HoldsTask

\* The save of a bulk PUT: a store that lacks no rows writes all that were acknowledged.
LEMMA SaveSafe ==
    ASSUME Core, AckInv, NEW h \in Handlers, SaveSnapshot(h)
    PROVE  AckInv'
<1> DEFINE r == job[h].replica
           copy == job[h].copy
           shared == job[h].shared
           lacking == upset[r] \cap {"foreign", "lost", "load", "overlap"}
<1>1. /\ job[h].at = "save" /\ r \in Replicas
      /\ CM!IsStore(copy) /\ shared \subseteq Shared
    BY IdleOK DEF SaveSnapshot, Core, JobOK
<1>2. PICK o \in CM!bulkSaved(db, copy, cache[r], shared) :
          /\ db' = o.db
          /\ upset' = [q \in Replicas |->
                         IF q # r THEN (IF o.db # db THEN upset[q] \cup {"foreign"} ELSE upset[q])
                         ELSE IF o.err # "ok" THEN upset[r] \cup {"ahead"}
                         ELSE (upset[r] \cap {"overlap"}) \cup {"bulk"}]
          /\ spilled' = (spilled \/ (o.db # db /\ lacking # {}))
          /\ acked' = IF o.db = db THEN acked ELSE {x \in acked : x[1] # "projects"}
    BY DEF SaveSnapshot
<1>3. cache' = cache /\ unsaved' = unsaved
    BY DEF SaveSnapshot
<1>4. PICK st \in CM!TornStores(copy, cache[r], shared) : o \in CM!Repo!SaveState(db, st)
    BY <1>2 DEF CM!bulkSaved
<1>5. CM!IsStore(st) /\ (Alike(copy, cache[r]) => Alike(st, cache[r]))
    BY <1>1, <1>4, CoreParts, TornStore
<1>6. \/ o.db = db /\ o.err = "failed"
      \/ o.db = Snapshot(db, st) /\ BelowAll(o.db, st) /\ MirrorsAll(o.db, st)
    BY <1>1, <1>4, <1>5, CoreParts, SaveSound
<1>7. ASSUME ~spilled', NEW t \in Tables, NEW id \in Int, <<t, id>> \in acked' \ unsaved'
      PROVE  Safe(t, id)'
    <2>1. <<t, id>> \in acked \ unsaved /\ (o.db # db => t # "projects")
        BY <1>2, <1>3, <1>7
    <2>2. Held(db, t, id) /\ \A q \in Replicas : ~Lacking(q) => Shown(cache[q], t, id)
        BY <1>2, <1>7, <2>1 DEF AckInv, Safe
    <2>3. "overlap" \notin upset[r] => Alike(st, cache[r])
        BY <1>1, <1>5 DEF Core, SavesKept
    <2>4. Held(o.db, t, id)
        <3>1. CASE o.db = db
            BY <2>2, <3>1
        <3>2. CASE o.db # db
            <4>1. lacking = {}
                BY <1>2, <1>7, <3>2
            <4>2. Alike(st, cache[r]) /\ Shown(cache[r], t, id)
                BY <1>1, <2>2, <2>3, <4>1 DEF Lacking
            <4>3. Shown(st, t, id)
                BY <4>2, AlikeShows
            <4> QED
                BY <1>6, <2>1, <3>2, <4>3, SnapshotHolds
        <3> QED
            BY <3>1, <3>2
    <2>5. ASSUME NEW q \in Replicas, ~Lacking(q)'
          PROVE  Shown(cache'[q], t, id)
        <3>1. CASE q # r
            <4>1. ~Lacking(q)
                BY <1>2, <2>5, <3>1 DEF Lacking
            <4> QED
                BY <1>3, <2>2, <4>1
        <3>2. CASE q = r /\ o.err # "ok"
            <4>1. upset'[r] = upset[r] \cup {"ahead"}
                BY <1>1, <1>2, <3>2
            <4>2. ~Lacking(q)
                BY <2>5, <3>2, <4>1 DEF Lacking
            <4> QED
                BY <1>3, <2>2, <4>2
        <3>3. CASE q = r /\ o.err = "ok"
            <4>1. upset'[r] = (upset[r] \cap {"overlap"}) \cup {"bulk"}
                BY <1>1, <1>2, <3>3
            <4>2. "overlap" \notin upset[r]
                BY <2>5, <3>3, <4>1 DEF Lacking
            <4>3. Shown(st, t, id)
                BY <1>6, <2>4, <3>3, SnapshotHolds
            <4>4. Shown(cache[r], t, id)
                BY <2>3, <4>2, <4>3, AlikeShows
            <4> QED
                BY <1>3, <3>3, <4>4
        <3> QED
            BY <3>1, <3>2, <3>3
    <2>6. Held(db', t, id)
        BY <1>2, <2>4
    <2> QED
        BY <2>5, <2>6 DEF Safe, Held, Shown, HoldsTask
<1> QED
    BY <1>7 DEF AckInv

\* A replica that loads shows what is held.
LEMMA HydratedSafe ==
    ASSUME Core, AckInv, NEW r \in Replicas, UNCHANGED <<db, acked, unsaved, spilled>>,
           cache'[r] = CM!Repo!LoadState(db) \/ upset'[r] = {"load"},
           \A q \in Replicas : q # r => cache'[q] = cache[q] /\ upset[q] \subseteq upset'[q]
    PROVE  AckInv'
<1>1. ASSUME ~spilled, NEW t \in Tables, NEW id \in Int, <<t, id>> \in acked' \ unsaved'
      PROVE  Safe(t, id)'
    <2>1. Safe(t, id)
        BY <1>1 DEF AckInv
    <2>2. ASSUME NEW q \in Replicas, ~Lacking(q)'
          PROVE  Shown(cache'[q], t, id)
        <3>1. CASE q # r
            <4>1. ~Lacking(q)
                BY <2>2, <3>1 DEF Lacking
            <4> QED
                BY <2>1, <3>1, <4>1 DEF Safe
        <3>2. CASE q = r
            <4>1. PICK s : s = CM!Repo!LoadState(db)
                OBVIOUS
            <4>2. cache'[r] = s
                BY <2>2, <3>2, <4>1 DEF Lacking
            <4>3. Shown(s, t, id)
                BY <2>1, <4>1, CoreParts, LoadedShows DEF Safe
            <4> QED
                BY <3>2, <4>2, <4>3
        <3> QED
            BY <3>1, <3>2
    <2>3. Held(db', t, id)
        BY <2>1 DEF Safe
    <2> QED
        BY <2>2, <2>3 DEF Safe, Held, Shown, HoldsTask
<1> QED
    BY <1>1 DEF AckInv

LEMMA RestartSafe ==
    ASSUME Core, AckInv, NEW r \in Replicas, Restart(r)
    PROVE  AckInv'
<1>1. PICK s : /\ cache' = [cache EXCEPT ![r] = s]
               /\ \/ upset' = [upset EXCEPT ![r] = IF s = CM!Repo!LoadState(db) THEN {} ELSE {"load"}]
                  \/ upset' = [upset EXCEPT ![r] = {"load"}]
    <2>1. CASE \E s \in CM!NewStore(db) :
                 /\ cache' = [cache EXCEPT ![r] = s]
                 /\ upset' = [upset EXCEPT ![r] = IF s = CM!Repo!LoadState(db) THEN {} ELSE {"load"}]
        BY <2>1
    <2>2. CASE cache' = [cache EXCEPT ![r] = CM!seed] /\ upset' = [upset EXCEPT ![r] = {"load"}]
        BY <2>2
    <2> QED
        BY Zenon, <2>1, <2>2 DEF Restart
<1>2. UNCHANGED <<db, acked, unsaved, spilled>>
    BY DEF Restart
<1>3. /\ cache'[r] = s /\ (s = CM!Repo!LoadState(db) \/ upset'[r] = {"load"})
      /\ \A q \in Replicas : q # r => cache'[q] = cache[q] /\ upset'[q] = upset[q]
    BY <1>1 DEF Core
<1>4. \A q \in Replicas : q # r => upset[q] \subseteq upset'[q]
    BY <1>3
<1> QED
    BY <1>2, <1>3, <1>4, HydratedSafe

LEMMA SeedWorkspaceSafe ==
    ASSUME Core, AckInv, NEW h \in Handlers, SeedWorkspace(h)
    PROVE  AckInv'
<1>1. PICK r : r = job[h].replica
    OBVIOUS
<1>2. r \in Replicas /\ unsaved' = unsaved /\ spilled' = spilled
    BY <1>1, IdleOK DEF SeedWorkspace, Core, JobOK
<1>3. PICK o \in CM!Seeded(db) :
          /\ db' = o.db /\ cache' = [cache EXCEPT ![r] = o.store]
          /\ upset' = [q \in Replicas |->
                         IF q # r THEN (IF o.db # db THEN upset[q] \cup {"foreign"} ELSE upset[q])
                         ELSE IF o.store = CM!Repo!LoadState(o.db) THEN {} ELSE {"load"}]
          /\ acked' = IF o.db = db THEN acked ELSE {}
    BY <1>1 DEF SeedWorkspace
<1>4. CASE o.db # db
    BY <1>3, <1>4 DEF AckInv
<1>5. CASE o.db = db
    <2>1. UNCHANGED <<db, acked, unsaved, spilled>>
        BY <1>2, <1>3, <1>5
    <2>2. /\ cache'[r] = o.store /\ (o.store = CM!Repo!LoadState(db) \/ upset'[r] = {"load"})
          /\ \A q \in Replicas : q # r => cache'[q] = cache[q] /\ upset[q] \subseteq upset'[q]
        BY <1>2, <1>3, <1>5 DEF Core
    <2> QED
        BY <1>2, <2>1, <2>2, HydratedSafe
<1> QED
    BY <1>4, <1>5

LEMMA AckStep ==
    ASSUME Core, AckInv, [Next]_vars
    PROVE  AckInv'
<1>1. CASE UNCHANGED vars
    <2>1. UNCHANGED <<db, cache, upset, acked, unsaved, spilled>>
        BY <1>1 DEF vars
    <2>2. \A q \in Replicas : ~Lacking(q)' => ~Lacking(q)
        BY <2>1 DEF Lacking
    <2> QED
        BY <2>1, <2>2, QuietSafe
<1>2. CASE ContractNext
    BY <1>2, ZoneSafe, ContractPostedSafe, StillSafe, DeleteContractSafe, PatchContractSafe, CountZoneSafe
    DEF ContractNext
<1>3. CASE PeopleNext
    BY <1>3, UserSafe, ProfileSafe, RoleSafe DEF PeopleNext
<1>4. CASE RegisterNext
    BY <1>4, EngineerSafe, MilestoneSafe, MaterialSafe DEF RegisterNext
<1>5. CASE TaskNext
    BY <1>5, ProjectSafe, TaskSafe DEF TaskNext
<1>6. CASE LogNext
    BY <1>6, AuditSafe, MessageSafe DEF LogNext
<1>7. CASE BulkNext
    BY <1>7, PutSafe, SaveSafe, AuditSafe, RestartSafe, SeedWorkspaceSafe DEF BulkNext
<1>8. CASE FrontendBulkNext
    BY <1>8, PutSafe DEF FrontendBulkNext
<1> QED
    BY <1>1, <1>2, <1>3, <1>4, <1>5, <1>6, <1>7, <1>8 DEF Next

(***************************************************************************)
(* The inductive invariant of acknowledged rows: the tables hold each of   *)
(* them, a task under a project they hold, and every replica that missed   *)
(* nothing lists it, so that no snapshot of such a replica leaves it out   *)
(* (store.go: the snapshot is taken under the lock, saved outside it).     *)
(***************************************************************************)
THEOREM AckedInvariant == Spec => []AckInv
<1>1. Init => AckInv
    BY DEF Init, AckInv
<1>2. Core /\ AckInv /\ [Next]_vars => AckInv'
    BY AckStep
<1>3. Core /\ Bookkept => Core
    OBVIOUS
<1> QED
    BY <1>1, <1>2, <1>3, WorkspaceInvariant, PTL DEF Spec

(***************************************************************************)
(* A row whose creation was answered 2xx stays in the tables until it is   *)
(* removed or replaced, unless a replica that missed rows wrote its        *)
(* snapshot, or the row is a task of a project without a surrogate         *)
(* (store.go, task_repo.go).                                               *)
(***************************************************************************)
THEOREM AckedStay == Spec => []AckedRowsStay
<1>1. Core /\ Bookkept /\ AckInv => AckedRowsStay
    <2>1. ASSUME Bookkept, AckInv, ~spilled, NEW x \in acked \ unsaved
          PROVE  Stored(db, x)
        <3>1. PICK t \in Tables, id \in Int : x = <<t, id>>
            BY <2>1 DEF Bookkept
        <3> QED
            BY <2>1, <3>1 DEF AckInv, Safe, Held, Stored
    <2> QED
        BY <2>1 DEF AckedRowsStay
<1> QED
    BY <1>1, WorkspaceInvariant, AckedInvariant, PTL
===============================================================================
