---------------------------- MODULE PeerRegistry ----------------------------
(***************************************************************************)
(* The tracker's registry of peers (service/store.go): a Redis record per  *)
(* peer and a Redis set of peer ids per file, both with a time to live,    *)
(* and a row per peer in Postgres.  A handler is a sequence of separate    *)
(* store commands, each of them one step, and handlers run concurrently.   *)
(*                                                                         *)
(* A peer sends its next request when the last one is answered (its        *)
(* heartbeat thread is a loop that starts after registration), so there is *)
(* at most one handler per peer; its reply is not modelled.  Lookups come  *)
(* from anybody; one per file is under way at a time.  The Online flag is  *)
(* never false and left out, and what a registration does to the peer's    *)
(* load counter is in PeerLoad: the two share no key.                      *)
(*                                                                         *)
(* Time passes in ticks, a fraction of peerRecordTTL.  A record carries    *)
(* the age of its lastSeen, which the program computes, and its remaining  *)
(* life, which Redis keeps.  lastSeen has been cut to a full second before *)
(* Redis starts to count, so a record is stale a little before it is gone. *)
(*                                                                         *)
(* What holds depends on the surroundings: on how late heartbeats are, on  *)
(* whether peers come and go, on which store fails.  A behaviour has one   *)
(* regime, chosen in its first state, and the properties name theirs.      *)
(***************************************************************************)
EXTENDS Integers, FiniteSets

CONSTANTS
    Peers, Files,
    TTL,            \* peerRecordTTL, in ticks
    Regimes,        \* the surroundings a behaviour may have
    Absent          \* no record, no row, no peer

ASSUME TTLAssumption == TTL \in Nat \ {0}

Regime ==
    [punctual  : BOOLEAN,   \* live peers are heard within TTL, answers take no tick
     lifecycle : [Peers -> {"stays", "stops", "returns"}],    \* what they may do
     faults    : SUBSET {"redis", "postgres"},                \* stores that may fail
     shares    : [Peers -> SUBSET SUBSET Files]]              \* lists a peer may
                                         \* register; none if it takes no part

ASSUME RegimeAssumption == Regimes \subseteq Regime

VARIABLES
    up,             \* the peer's process runs
    record,         \* Redis: peer:<peerId>
    index, life,    \* Redis: members and remaining life of file:<fileId>:peers
    rows,           \* Postgres: tracker_peers
    req,            \* the handler that works for each peer
    acked,          \* the peer's last registration was answered 200
    look,           \* the lookup under way for each file
    regime,         \* the surroundings, chosen once
    lapsed,         \* history: the sets that listed a peer when its record expired
                    \* and that it has not registered since
    behind          \* history: by how much the row of a peer was stamped before its
                    \* record; a heartbeat stamps the row last

vars == <<up, record, index, life, rows, req, acked, look, regime, lapsed, behind>>
background == <<regime, lapsed, behind>>

\* SADD makes a set that lives until an EXPIRE gives it a time
Unlimited == TTL + 1
\* ages are counted up to the first that is stale
Ages == 0..TTL

\* what Redis keeps of a peer, and Postgres
Record == [files : SUBSET Files, age : Ages, life : 0..TTL]
Row == [files : SUBSET Files, age : Ages]

ASSUME AbsentAssumption ==
    Absent \notin Peers /\ Absent \notin Files /\ Absent \notin Record \cup Row

Position == {"idle", "upserting", "unlinking", "linking", "limiting",
             "stamping", "extending"}
\* age is that of the lastSeen the handler gives to Redis, since that of the
\* one a registration gives to Postgres, which it has stamped before
Handler == {h \in [at : Position, files : SUBSET Files, todo : SUBSET Files,
                   file : Files \cup {Absent}, age : Ages, since : Ages] :
                h.age <= h.since}
Idle == [at |-> "idle", files |-> {}, todo |-> {}, file |-> Absent,
         age |-> 0, since |-> 0]

\* isPeerFresh, and the condition on lastSeen in postgresListPeersForFile
Fresh(r) == r # Absent /\ r.age < TTL
FilesOf(r) == IF r = Absent THEN {} ELSE r.files

Init ==
    /\ record = [p \in Peers |-> Absent]
    /\ index = [f \in Files |-> {}]
    /\ life = [f \in Files |-> 0]
    /\ rows = [p \in Peers |-> Absent]
    /\ req = [p \in Peers |-> Idle]
    /\ acked = [p \in Peers |-> FALSE]
    /\ look = [f \in Files |-> [todo |-> {}, sweep |-> Absent]]
    /\ regime \in Regimes
    /\ up = [p \in Peers |-> regime.shares[p] # {}]
    /\ lapsed = [p \in Peers |-> {}]
    /\ behind = [p \in Peers |-> 0]

-----------------------------------------------------------------------------
(* Store commands.  A command that fails changes nothing, and a GET that     *)
(* fails is taken for a record that is not there.                            *)

RedisMayFail == "redis" \in regime.faults
Get(p) == {record[p]} \cup (IF RedisMayFail THEN {Absent} ELSE {})

Set(p, files, age) ==
    record' = [record EXCEPT ![p] = [files |-> files, age |-> age, life |-> TTL]]

SRem(f, p) ==
    \/ /\ index' = [index EXCEPT ![f] = @ \ {p}]
       /\ life' = [life EXCEPT ![f] = IF index[f] \subseteq {p} THEN 0 ELSE @]
    \/ RedisMayFail /\ UNCHANGED <<index, life>>

SAdd(f, p) ==
    \/ /\ index' = [index EXCEPT ![f] = @ \cup {p}]
       /\ life' = [life EXCEPT ![f] = IF index[f] = {} THEN Unlimited ELSE @]
    \/ RedisMayFail /\ UNCHANGED <<index, life>>

Expire(f) ==
    /\ \/ life' = [life EXCEPT ![f] = IF index[f] = {} THEN 0 ELSE TTL]
       \/ RedisMayFail /\ UNCHANGED life
    /\ UNCHANGED index

SetRow(p, row) == rows' = [rows EXCEPT ![p] = row]
PostgresFails == "postgres" \in regime.faults /\ UNCHANGED rows

-----------------------------------------------------------------------------
(* registerHandler: upsertPeer, then postgresUpsertPeer *)

\* the peer with its lastSeen, of which upsertPeer gets a copy
Register(p) ==
    /\ up[p] /\ req[p].at = "idle"
    /\ \E files \in regime.shares[p] :
          req' = [req EXCEPT ![p] = [Idle EXCEPT !.at = "upserting",
                                                 !.files = files]]
    /\ acked' = [acked EXCEPT ![p] = FALSE]
    /\ UNCHANGED <<background, up, record, index, life, rows, look>>

\* stamp the copy anew and GET the old record
Upsert(p) ==
    /\ req[p].at = "upserting"
    /\ \E old \in Get(p) :
          req' = [req EXCEPT ![p].at = "unlinking", ![p].age = 0,
                             ![p].todo = FilesOf(old)]
    /\ UNCHANGED <<background, up, record, index, life, rows, look, acked>>

\* Definitions whose name starts with Bad are not the code: each is a plausible
\* slip in the definition that follows it, which some property has to notice.

\* the peer stays in the sets of the files it no longer has
BadUnlink(p) ==
    /\ req[p].at = "unlinking"
    /\ \E f \in req[p].todo : req' = [req EXCEPT ![p].todo = @ \ {f}]
    /\ UNCHANGED <<background, up, record, index, life, rows, look, acked>>

\* removePeerFromFileSets
Unlink(p) ==
    /\ req[p].at = "unlinking"
    /\ \E f \in req[p].todo :
          /\ SRem(f, p)
          /\ req' = [req EXCEPT ![p].todo = @ \ {f}]
    /\ UNCHANGED <<background, up, record, rows, look, acked>>

\* the record is written only if there is none, as the load counter is
BadStore(p) ==
    /\ req[p].at = "unlinking" /\ req[p].todo = {}
    /\ IF record[p] = Absent THEN Set(p, req[p].files, req[p].age)
                             ELSE UNCHANGED record
    /\ req' = [req EXCEPT ![p].at = "linking", ![p].todo = req[p].files]
    /\ lapsed' = [lapsed EXCEPT ![p] = @ \ req[p].files]
    /\ UNCHANGED <<regime, behind, up, index, life, rows, look, acked>>

\* SET the new record; if that fails upsertPeer returns, and the handler goes on
Store(p) ==
    /\ req[p].at = "unlinking" /\ req[p].todo = {}
    /\ \/ /\ Set(p, req[p].files, req[p].age)
          /\ req' = [req EXCEPT ![p].at = "linking", ![p].todo = req[p].files]
          /\ lapsed' = [lapsed EXCEPT ![p] = @ \ req[p].files]
       \/ /\ RedisMayFail
          /\ req' = [req EXCEPT ![p].at = "linking"]
          /\ UNCHANGED <<record, lapsed>>
    /\ UNCHANGED <<regime, behind, up, index, life, rows, look, acked>>

\* SADD to the set of a file ...
Link(p) ==
    /\ req[p].at = "linking"
    /\ \E f \in req[p].todo :
          /\ SAdd(f, p)
          /\ req' = [req EXCEPT ![p].at = "limiting", ![p].file = f,
                                ![p].todo = @ \ {f}]
    /\ UNCHANGED <<background, up, record, rows, look, acked>>

\* ... and EXPIRE it
Limit(p) ==
    /\ req[p].at = "limiting"
    /\ Expire(req[p].file)
    /\ req' = [req EXCEPT ![p].at = "linking", ![p].file = Absent]
    /\ UNCHANGED <<background, up, record, rows, look, acked>>

\* postgresUpsertPeer, with the first stamp, and the answer: 200, or 500 if it
\* fails
RegisterRow(p) ==
    /\ req[p].at = "linking" /\ req[p].todo = {}
    /\ \/ /\ SetRow(p, [files |-> req[p].files, age |-> req[p].since])
          /\ behind' = [behind EXCEPT ![p] = req[p].since - req[p].age]
          /\ acked' = [acked EXCEPT ![p] = TRUE]
       \/ PostgresFails /\ UNCHANGED <<behind, acked>>
    /\ req' = [req EXCEPT ![p] = Idle]
    /\ UNCHANGED <<regime, lapsed, up, record, index, life, look>>

-----------------------------------------------------------------------------
(* heartbeatHandler: touchPeer, then postgresTouchPeer *)

\* GET the record; a peer that is not there is answered 404
Heartbeat(p) ==
    /\ up[p] /\ req[p].at = "idle"
    /\ \E old \in Get(p) \ {Absent} :
          req' = [req EXCEPT ![p] = [Idle EXCEPT !.at = "stamping",
                                                 !.files = old.files]]
    /\ UNCHANGED <<background, up, record, index, life, rows, look, acked>>

\* SET it with the new lastSeen, or answer 404
Stamp(p) ==
    /\ req[p].at = "stamping"
    /\ \/ /\ Set(p, req[p].files, req[p].age)
          /\ req' = [req EXCEPT ![p].at = "extending", ![p].todo = req[p].files]
       \/ /\ RedisMayFail
          /\ req' = [req EXCEPT ![p] = Idle]
          /\ UNCHANGED record
    /\ UNCHANGED <<background, up, index, life, rows, look, acked>>

\* only the record is given more time
BadExtend(p) ==
    /\ req[p].at = "extending"
    /\ \E f \in req[p].todo : req' = [req EXCEPT ![p].todo = @ \ {f}]
    /\ UNCHANGED <<background, up, record, index, life, rows, look, acked>>

\* EXPIRE the set of each file the record names
Extend(p) ==
    /\ req[p].at = "extending"
    /\ \E f \in req[p].todo :
          /\ Expire(f)
          /\ req' = [req EXCEPT ![p].todo = @ \ {f}]
    /\ UNCHANGED <<background, up, record, rows, look, acked>>

\* the row is left as it is
BadTouchRow(p) ==
    /\ req[p].at = "extending" /\ req[p].todo = {}
    /\ req' = [req EXCEPT ![p] = Idle]
    /\ UNCHANGED <<background, up, record, index, life, rows, look, acked>>

\* postgresTouchPeer: the row's lastSeen, if there is a row
TouchRow(p) ==
    /\ req[p].at = "extending" /\ req[p].todo = {}
    /\ \/ /\ rows[p] # Absent
          /\ SetRow(p, [rows[p] EXCEPT !.age = 0])
          /\ behind' = [behind EXCEPT ![p] = 0]
       \/ rows[p] = Absent /\ UNCHANGED <<rows, behind>>
       \/ PostgresFails /\ UNCHANGED behind
    /\ req' = [req EXCEPT ![p] = Idle]
    /\ UNCHANGED <<regime, lapsed, up, record, index, life, look, acked>>

-----------------------------------------------------------------------------
(* peerForFile, whose result filePeersHandler sorts and returns *)

\* SMEMBERS
Lookup(f) ==
    /\ look[f].todo = {} /\ look[f].sweep = Absent
    /\ index[f] # {}
    /\ look' = [look EXCEPT ![f].todo = index[f]]
    /\ UNCHANGED <<background, up, record, index, life, rows, req, acked>>

\* a peer without a record is skipped, but not removed
BadCheck(f) ==
    /\ look[f].sweep = Absent
    /\ \E p \in look[f].todo : \E r \in Get(p) :
          look' = [look EXCEPT ![f].todo = @ \ {p},
                     ![f].sweep = IF Fresh(r) \/ r = Absent THEN Absent ELSE p]
    /\ UNCHANGED <<background, up, record, index, life, rows, req, acked>>

\* GET the record of each member
Check(f) ==
    /\ look[f].sweep = Absent
    /\ \E p \in look[f].todo : \E r \in Get(p) :
          look' = [look EXCEPT ![f].todo = @ \ {p},
                               ![f].sweep = IF Fresh(r) THEN Absent ELSE p]
    /\ UNCHANGED <<background, up, record, index, life, rows, req, acked>>

\* SREM a member whose record is stale or gone
Sweep(f) ==
    /\ look[f].sweep # Absent
    /\ SRem(f, look[f].sweep)
    /\ look' = [look EXCEPT ![f].sweep = Absent]
    /\ UNCHANGED <<background, up, record, rows, req, acked>>

-----------------------------------------------------------------------------
(* Time, Redis' own expiry, and the peers' processes *)

After(age) == IF age < TTL THEN age + 1 ELSE age
Older(r) == [r EXCEPT !.age = After(@)]

\* Nothing outlives its time.  A punctual live peer registers or sends a
\* heartbeat before it is stale, and no tick falls into its request.
Tick ==
    /\ \A p \in Peers : record[p] # Absent => record[p].life > 0
    /\ \A f \in Files : index[f] # {} => life[f] > 0
    /\ regime.punctual => \A p \in Peers :
          /\ req[p].at = "idle"
          /\ up[p] /\ record[p] # Absent => record[p].age + 1 < TTL
    /\ record' = [p \in Peers |->
                    IF record[p] = Absent THEN Absent
                    ELSE [Older(record[p]) EXCEPT !.life = @ - 1]]
    /\ life' = [f \in Files |-> IF life[f] \in 1..TTL THEN life[f] - 1 ELSE life[f]]
    /\ rows' = [p \in Peers |-> IF rows[p] = Absent THEN Absent ELSE Older(rows[p])]
    /\ req' = [p \in Peers |-> IF req[p].at = "idle" THEN Idle
                          ELSE [Older(req[p]) EXCEPT !.since = After(@)]]
    /\ UNCHANGED <<background, up, index, look, acked>>

\* the sets that list the peer, or are about to
Listing(p) == {f \in Files : p \in index[f]}
                  \cup (IF req[p].at \in {"linking", "limiting"} THEN req[p].todo ELSE {})

ExpireRecord(p) ==
    /\ record[p] # Absent /\ record[p].life = 0
    /\ record' = [record EXCEPT ![p] = Absent]
    /\ lapsed' = [lapsed EXCEPT ![p] = Listing(p)]
    /\ UNCHANGED <<regime, behind, up, index, life, rows, req, look, acked>>

ExpireSet(f) ==
    /\ index[f] # {} /\ life[f] = 0
    /\ index' = [index EXCEPT ![f] = {}]
    /\ UNCHANGED <<background, up, record, life, rows, req, look, acked>>

\* a handler that is under way goes on
Stop(p) ==
    /\ regime.lifecycle[p] # "stays" /\ up[p]
    /\ up' = [up EXCEPT ![p] = FALSE]
    /\ UNCHANGED <<background, record, index, life, rows, req, look, acked>>

Return(p) ==
    /\ regime.lifecycle[p] = "returns" /\ ~up[p] /\ regime.shares[p] # {}
    /\ up' = [up EXCEPT ![p] = TRUE]
    /\ UNCHANGED <<background, record, index, life, rows, req, look, acked>>

-----------------------------------------------------------------------------
HandlerStep(p) ==
    \/ Upsert(p) \/ Unlink(p) \/ Store(p) \/ Link(p) \/ Limit(p)
    \/ RegisterRow(p) \/ Stamp(p) \/ Extend(p) \/ TouchRow(p)
LookupStep(f) == Lookup(f) \/ Check(f) \/ Sweep(f)
Expiry == (\E p \in Peers : ExpireRecord(p)) \/ (\E f \in Files : ExpireSet(f))

Next ==
    \/ \E p \in Peers : \/ Register(p) \/ Heartbeat(p) \/ HandlerStep(p)
                        \/ Stop(p) \/ Return(p)
    \/ \E f \in Files : LookupStep(f)
    \/ Tick \/ Expiry

SafeSpec == Init /\ [][Next]_vars

\* Time passes (no endless row of requests in one tick), Redis expires what is
\* due, the heartbeat thread of a live peer goes round, handlers run to their
\* end and every file is looked up for ever.
Fairness ==
    /\ []<><<Tick>>_vars
    /\ WF_vars(Expiry)
    /\ \A p \in Peers : WF_vars(Heartbeat(p)) /\ WF_vars(HandlerStep(p))
    /\ \A f \in Files : WF_vars(LookupStep(f))

Spec == SafeSpec /\ Fairness

-----------------------------------------------------------------------------
(* Properties *)

\* Types of what the stores keep and of the handlers' locals.
TypeOK ==
    /\ up \in [Peers -> BOOLEAN]
    /\ record \in [Peers -> Record \cup {Absent}]
    /\ index \in [Files -> SUBSET Peers]
    /\ life \in [Files -> 0..Unlimited]
    /\ \A f \in Files : index[f] = {} => life[f] = 0
    /\ rows \in [Peers -> Row \cup {Absent}]
    /\ req \in [Peers -> Handler]
    /\ acked \in [Peers -> BOOLEAN]
    /\ look \in [Files -> [todo : SUBSET Peers, sweep : Peers \cup {Absent}]]
    /\ regime \in Regimes
    /\ lapsed \in [Peers -> SUBSET Files]
    /\ behind \in [Peers -> Ages]

Quiet(p) == req[p].at = "idle"

\* A peer whose record is fresh is in the set of every file the record names:
\* lookups find it.  (store.go:206: a heartbeat must "store peer in fileId that
\* peer have".)
FindableWhenFresh ==
    \A p \in Peers : Quiet(p) /\ Fresh(record[p]) =>
        \A f \in record[p].files : p \in index[f]

\* Where peers stay and are heard in time and Redis does not fail, nothing that
\* handlers, lookups and other peers' requests do to a set between two commands
\* loses a live peer.
Settled ==
    /\ regime.punctual /\ ~RedisMayFail
    /\ \A p \in Peers : regime.lifecycle[p] = "stays"
FindableWhenPunctual == Settled => FindableWhenFresh

\* A lookup of a file returns, of the peers that are between two requests, only
\* those that have registered the file (handlers.go:69: it "sends peers twith
\* that have fileId").  With a Redis that does not fail there is one way to miss
\* this: the set listed the peer when its record expired, so that its next
\* registration did not know of the set (store.go:106).  A set the peer registers
\* again is no longer excused.
ListedPeersHaveFile ==
    ~RedisMayFail =>
        \A f \in Files : \A p \in index[f] :
            Quiet(p) /\ Fresh(record[p]) => f \in record[p].files \cup lapsed[p]

\* After a registration that was answered 200 both stores name the same files
\* for the peer, whatever heartbeats wrote back, expired or was swept since; this
\* takes a Redis that does not fail, since the handler does not notice.
StoresAgree ==
    ~RedisMayFail =>
        \A p \in Peers : acked[p] /\ record[p] # Absent =>
            rows[p] # Absent /\ rows[p].files = record[p].files

\* A peer that Redis holds for alive is known to Postgres too, also when commands
\* of Redis fail half-way through a handler, and its row is as recent as its
\* record: after a heartbeat not behind it at all, after a registration by no
\* more than the handler took between its two stamps (handlers.go:37 stamps what
\* Postgres gets, store.go:101 what Redis gets).  By that much
\* postgresListPeersForFile may drop a live peer before peerForFile does.
PostgresKnowsLivePeers ==
    "postgres" \notin regime.faults =>
        \A p \in Peers : Quiet(p) /\ Fresh(record[p]) =>
            rows[p] # Absent /\ rows[p].age <= record[p].age + behind[p]

\* A peer that stops for good disappears from every set, also from those other
\* peers keep alive.
StoppedPeerForgotten ==
    \A p \in Peers :
        ~up[p] /\ regime.lifecycle[p] = "stops" /\ ~RedisMayFail ~>
            \A f \in Files : p \notin index[f]
=============================================================================
