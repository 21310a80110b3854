----------------------------- MODULE WorkspaceLive -----------------------------
(***************************************************************************)
(* WorkspaceService composed with the workspace socket: a hub on every     *)
(* replica (realtime/hub.go), the hook that announces a mutation           *)
(* (middleware/broadcast.go) and, when Redis is configured (bridged), the  *)
(* channel that carries it to every replica (realtime/redis.go).           *)
(*                                                                         *)
(* A Broadcast runs in the goroutine of a request (Pushers) or in the      *)
(* subscriber of a replica (named by the replica): it takes a version,     *)
(* lists the connections, then encodes and writes to one after another.    *)
(* A push is remembered by the connection that received it if no push of a *)
(* higher version came before.  A nudge that Redis accepted is taken to    *)
(* reach every subscriber.                                                 *)
(***************************************************************************)
EXTENDS WorkspaceService

CONSTANTS
  Clients,      \* connections; a browser that comes back is another one
  Pushers       \* bound: goroutines started for a mutating request at a time

VARIABLES bridged, version, client, cast, nudged

live == <<bridged, version, client, cast, nudged>>
liveVars == <<vars, live>>

Offline == [at |-> "off"]
Gone == [at |-> "gone"]
NoCast == [at |-> "idle"]
Workers == Pushers \cup Replicas

LiveInit ==
  /\ Init
  /\ bridged \in BOOLEAN
  /\ version = [r \in Replicas |-> 0]
  /\ client = [k \in Clients |-> Offline]
  /\ cast = [w \in Workers |-> NoCast]
  /\ nudged = [r \in Replicas |-> 0]

-----------------------------------------------------------------------------
(* A connection: registered with the hub first, then the version is read,  *)
(* then the workspace is projected and sent.                               *)

View(r, sess) == CM!FilterWorkspace(cache[r], sess)
ConnectedTo(r) == {k \in Clients : client[k] \notin {Offline, Gone} /\ client[k].replica = r}

ServeWS(k, r) ==
  /\ client[k] = Offline /\ Up(r)
  /\ \E sess \in Sessions :
       client' = [client EXCEPT ![k] = [at |-> "joined", replica |-> r, sess |-> sess,
                                        first |-> 0, top |-> -1, shows |-> None]]
  /\ UNCHANGED <<vars, bridged, version, cast, nudged>>

Received(c, v) ==
  IF v >= c.top THEN [c EXCEPT !.top = v, !.shows = View(c.replica, c.sess)] ELSE c

(* encode reads the version, encodeVersion the store after it. *)
LoadVersion(k) ==
  /\ client[k].at = "joined"
  /\ client' = [client EXCEPT ![k].at = "first", ![k].first = version[client[k].replica]]
  /\ UNCHANGED <<vars, bridged, version, cast, nudged>>
FirstSnapshot(k) ==
  /\ client[k].at = "first"
  /\ client' = [client EXCEPT ![k] = [Received(client[k], client[k].first) EXCEPT !.at = "on"]]
  /\ UNCHANGED <<vars, bridged, version, cast, nudged>>

(* A read error, a missed pong: the connection leaves the hub. *)
Disconnect(k) ==
  /\ client[k] \notin {Offline, Gone}
  /\ client' = [client EXCEPT ![k] = Gone]
  /\ UNCHANGED <<vars, bridged, version, cast, nudged>>

-----------------------------------------------------------------------------
(* Broadcast *)

Started(w, r) == [cast EXCEPT ![w] = [at |-> "begun", replica |-> r, v |-> 0, targets |-> {}]]

TakeVersion(w) ==
  LET r == cast[w].replica IN
  /\ cast[w].at = "begun"
  /\ version' = [version EXCEPT ![r] = @ + 1]
  /\ cast' = [cast EXCEPT ![w].at = "numbered", ![w].v = version[r] + 1]
  /\ UNCHANGED <<vars, bridged, client, nudged>>

ListTargets(w) ==
  LET targets == ConnectedTo(cast[w].replica) IN
  /\ cast[w].at = "numbered"
  /\ cast' = [cast EXCEPT ![w] = IF targets = {} THEN NoCast
                                 ELSE [@ EXCEPT !.at = "sending", !.targets = targets]]
  /\ UNCHANGED <<vars, bridged, version, client, nudged>>

(* A write to a connection that has gone is logged and passed over. *)
SendTo(w) ==
  /\ cast[w].at = "sending"
  /\ \E k \in cast[w].targets :
       /\ client' = IF k \in ConnectedTo(cast[w].replica)
                    THEN [client EXCEPT ![k] = Received(@, cast[w].v)] ELSE client
       /\ cast' = [cast EXCEPT ![w] = IF @.targets = {k} THEN NoCast
                                      ELSE [@ EXCEPT !.targets = cast[w].targets \ {k}]]
  /\ UNCHANGED <<vars, bridged, version, nudged>>

-----------------------------------------------------------------------------
(* The announcement of a mutation, and the subscriber of a replica. *)

Announced(r) ==
  /\ due[r] > 0 /\ due' = [due EXCEPT ![r] = @ - 1]
  /\ UNCHANGED <<db, cache, job, upset, history, ops>>

(* go hub.Broadcast() *)
BroadcastHere(w, r) ==
  /\ ~bridged /\ cast[w] = NoCast /\ Announced(r)
  /\ cast' = Started(w, r)
  /\ UNCHANGED <<bridged, version, client, nudged>>

(* Published to every subscriber ... *)
Notify(r) ==
  /\ bridged /\ Announced(r)
  /\ nudged' = [q \in Replicas |-> nudged[q] + 1]
  /\ UNCHANGED <<bridged, version, client, cast>>
(* Fault: a failed publication is only logged. *)
NotifyFailsSilently(w, r) ==
  /\ bridged /\ cast[w] = NoCast /\ Announced(r)
  /\ UNCHANGED <<bridged, version, client, cast, nudged>>
(* ... or not, and the local sessions are refreshed instead. *)
NotifyFails(w, r) ==
  /\ bridged /\ cast[w] = NoCast /\ Announced(r)
  /\ cast' = Started(w, r)
  /\ UNCHANGED <<bridged, version, client, nudged>>

(* Fault: a replica ignores the nudge as one of its own. *)
RunSubscriberIgnores(r) ==
  /\ nudged[r] > 0
  /\ nudged' = [nudged EXCEPT ![r] = @ - 1]
  /\ UNCHANGED <<vars, bridged, version, client, cast>>

RunSubscriber(r) ==
  /\ nudged[r] > 0 /\ cast[r] = NoCast
  /\ nudged' = [nudged EXCEPT ![r] = @ - 1]
  /\ cast' = Started(r, r)
  /\ UNCHANGED <<vars, bridged, version, client>>

-----------------------------------------------------------------------------
(* A restart takes the sockets, the goroutines and the subscriber with it. *)

LiveRestart(r) ==
  /\ Restart(r)
  /\ version' = [version EXCEPT ![r] = 0]
  /\ client' = [k \in Clients |-> IF k \in ConnectedTo(r) THEN Gone ELSE client[k]]
  /\ cast' = [w \in Workers |->
                IF cast[w] # NoCast /\ cast[w].replica = r THEN NoCast ELSE cast[w]]
  /\ nudged' = [nudged EXCEPT ![r] = 0]
  /\ UNCHANGED bridged

(* What goes on by itself once it has begun. *)
HandlerSteps ==
  \E h \in Handlers : \/ PatchContract(h) \/ DeleteContract(h) \/ CountZone(h) \/ PublishContract(h)
                      \/ SaveSnapshot(h) \/ RecordBulkReplace(h) \/ AuditRing(h) \/ SeedWorkspace(h)
CastStep(w) == TakeVersion(w) \/ ListTargets(w) \/ SendTo(w)
Announce(r) == \/ Notify(r)
               \/ \E w \in Pushers : BroadcastHere(w, r) \/ NotifyFails(w, r)

LiveNext ==
  \/ (ContractNext \/ \E h \in Handlers, r \in Replicas : PutWorkspace(h, r)) /\ UNCHANGED live
  \/ \E h \in Handlers : (SaveSnapshot(h) \/ RecordBulkReplace(h) \/ AuditRing(h) \/ SeedWorkspace(h)) /\ UNCHANGED live
  \/ \E r \in Replicas : LiveRestart(r) \/ Announce(r) \/ RunSubscriber(r)
  \/ \E k \in Clients : \/ LoadVersion(k) \/ FirstSnapshot(k) \/ Disconnect(k)
                        \/ \E r \in Replicas : ServeWS(k, r)
  \/ \E w \in Workers : CastStep(w)

(* Requests, connections and crashes need not happen; goroutines run. *)
Fairness ==
  /\ WF_liveVars(HandlerSteps /\ UNCHANGED live)
  /\ \A r \in Replicas : WF_liveVars(Announce(r)) /\ WF_liveVars(RunSubscriber(r))
  /\ \A w \in Workers : WF_liveVars(CastStep(w))
  /\ \A k \in Clients : WF_liveVars(LoadVersion(k) \/ FirstSnapshot(k))

LiveSpec == LiveInit /\ [][LiveNext]_liveVars /\ Fairness

-----------------------------------------------------------------------------
(***************************************************************************)
(* When nothing that concerns a replica is under way, the push of the      *)
(* highest version a connection got is the workspace as the replica has    *)
(* it: versions are taken, and the store read, in an order that no         *)
(* interleaving of requests, broadcasts and a joining connection spoils.   *)
(* A PatchZone or bulk PUT that failed has changed the cache silently.     *)
(***************************************************************************)
Settled(r) ==
  /\ due[r] = 0 /\ nudged[r] = 0
  /\ \A h \in Handlers : job[h].at \notin {"patch", "drop", "count", "publish", "save", "record", "ring", "seed"}
                         \/ job[h].replica # r
  /\ \A w \in Workers : cast[w] = NoCast \/ cast[w].replica # r
Current(k) == client[k].shows = View(client[k].replica, client[k].sess)
Owed(k) == client[k].at = "on" /\ "ahead" \notin upset[client[k].replica]
NewestPushIsCurrent ==
  \A k \in Clients : (Owed(k) /\ Settled(client[k].replica)) => Current(k)

(***************************************************************************)
(* A connection whose newest push is out of date is not left so: another   *)
(* push comes, or the connection, or the replica, goes.                    *)
(***************************************************************************)
StaleScreensRefresh ==
  \A k \in Clients : (Owed(k) /\ ~Current(k)) ~> (~Owed(k) \/ Current(k))

(***************************************************************************)
(* redis.go:18: "Every instance reads the same database, so one instance   *)
(* only has to tell the others that something moved; each then re-projects *)
(* for its own sessions" - a nudged replica shows what the database holds. *)
(***************************************************************************)
NudgedScreensShowTheDatabase ==
  \A k \in Clients :
    (client[k].at = "on" /\ \A r \in Replicas : Settled(r)) =>
      client[k].shows = CM!FilterWorkspace(CM!Repo!LoadState(db), client[k].sess)
===============================================================================
