-------------------------- MODULE PeerRegistryProofs --------------------------
(***************************************************************************)
(* Proofs about PeerRegistry, for any peers, files, time to live and       *)
(* regimes.                                                                *)
(*                                                                         *)
(* Each property has an invariant of its own, which says what becomes of   *)
(* it while a handler is half-way through its commands: what a handler has *)
(* read and not yet written back, which sets it has still to leave or to   *)
(* join, and how much time the sets it has not yet extended have left.     *)
(***************************************************************************)
EXTENDS PeerRegistry, TLAPS

\* The row of a peer is not behind its record by more than what lay between the
\* two stamps, except while a heartbeat has written the record and not yet the
\* row; what a handler is about to write is not older than what is there,
\* although a command of Redis may have failed.
RowKeepsUp(p) ==
    /\ req[p].at # "idle" /\ record[p] # Absent => req[p].age <= record[p].age
    /\ "postgres" \notin regime.faults =>
          /\ req[p].at \in {"stamping", "extending"} => rows[p] # Absent
          /\ req[p].at \in {"idle", "stamping"} /\ record[p] # Absent =>
                rows[p] # Absent /\ rows[p].age <= record[p].age + behind[p]
RowsKeepUp == \A p \in Peers : RowKeepsUp(p)

\* Until a registration is answered its files are those of the record it has
\* written; a heartbeat of a peer that was answered writes back the row's files.
HandlerAgrees(p) ==
    /\ acked[p] => req[p].at \in {"idle", "stamping", "extending"}
    /\ acked[p] => rows[p] # Absent
    /\ ~RedisMayFail =>
          /\ req[p].at \in {"linking", "limiting"} /\ record[p] # Absent =>
                record[p].files = req[p].files
          /\ acked[p] /\ record[p] # Absent => rows[p].files = record[p].files
          /\ acked[p] /\ req[p].at = "stamping" => rows[p].files = req[p].files
HandlersAgree == \A p \in Peers : HandlerAgrees(p)

\* The files by which the peer's record, or a registration that has read it,
\* still knows the sets the peer is in.
Owed(p) == IF req[p].at = "unlinking" THEN req[p].todo ELSE FilesOf(record[p])

\* A set that lists a peer is known by its record, unless it has expired.
IsKnown(p) ==
    /\ req[p].at # "limiting" => req[p].file = Absent
    /\ req[p].at \in {"linking", "limiting", "extending"} =>
          req[p].todo \subseteq req[p].files
    /\ ~RedisMayFail =>
          /\ req[p].at \in {"linking", "limiting", "stamping"}
             /\ record[p] # Absent => record[p].files = req[p].files
          /\ req[p].at \in {"linking", "limiting"} /\ record[p] = Absent =>
                req[p].todo \subseteq lapsed[p]
          /\ \A f \in Files : p \in index[f] => f \in Owed(p) \cup lapsed[p]
SetsAreKnown == \A p \in Peers : IsKnown(p)

\* Where nothing fails and everybody is in time, the set of a file a peer has
\* lives as long as the peer's record; while a handler is under way no time
\* passes, so the sets it has not come to yet are still there.
Kept(p, f) ==
    /\ req[p].at \in {"idle", "upserting", "stamping"} /\ f \in FilesOf(record[p]) =>
          p \in index[f] /\ life[f] >= record[p].life
    /\ req[p].at = "extending" /\ f \in req[p].files =>
          p \in index[f] /\ (f \in req[p].todo \/ life[f] >= TTL)
    /\ req[p].at \in {"linking", "limiting"} /\ f \in req[p].files \ req[p].todo =>
          p \in index[f] /\ (f = req[p].file \/ life[f] >= TTL)

LiveRecord(p) ==
    /\ req[p].age = 0
    /\ record[p] # Absent \/ req[p].at # "idle" => up[p]
    /\ record[p] # Absent =>
          record[p].age < TTL /\ record[p].life = TTL - record[p].age
    /\ req[p].at \notin {"idle", "upserting", "unlinking"} => record[p] # Absent
    /\ req[p].at \in {"stamping", "extending"} => record[p].files = req[p].files
    /\ lapsed[p] = {}

NothingSwept(f) ==
    /\ look[f].sweep = Absent
    /\ index[f] # {} => life[f] > 0
    /\ \A p \in index[f] \cup look[f].todo : record[p] # Absent

SetsAreKept ==
    Settled => /\ \A p \in Peers : LiveRecord(p)
               /\ \A f \in Files : NothingSwept(f)
               /\ \A p \in Peers, f \in Files : Kept(p, f)
-----------------------------------------------------------------------------
(* Types *)

\* The stores' commands keep the types of the sets.
LEMMA CommandTypes ==
    ASSUME TypeOK, NEW p \in Peers, NEW f \in Files,
           SRem(f, p) \/ SAdd(f, p) \/ Expire(f)
    PROVE  /\ index' \in [Files -> SUBSET Peers]
           /\ life' \in [Files -> 0..Unlimited]
           /\ \A g \in Files : index'[g] = {} => life'[g] = 0
<1>1. /\ index \in [Files -> SUBSET Peers] /\ life \in [Files -> 0..Unlimited]
      /\ \A g \in Files : index[g] = {} => life[g] = 0
    BY DEF TypeOK
<1>2. 0 \in 0..Unlimited /\ TTL \in 0..Unlimited /\ Unlimited \in 0..Unlimited
    BY TTLAssumption DEF Unlimited
<1> HIDE DEF Unlimited
<1>3. CASE UNCHANGED <<index, life>>
    BY <1>1, <1>3
<1>4. ASSUME index' = [index EXCEPT ![f] = @ \ {p}],
             life' = [life EXCEPT ![f] = IF index[f] \subseteq {p} THEN 0 ELSE @]
      PROVE  /\ index' \in [Files -> SUBSET Peers]
             /\ life' \in [Files -> 0..Unlimited]
             /\ \A g \in Files : index'[g] = {} => life'[g] = 0
    <2>1. index[f] \ {p} = {} => index[f] \subseteq {p}
        OBVIOUS
    <2>2. index' \in [Files -> SUBSET Peers]
        BY <1>1, <1>4
    <2>3. life' \in [Files -> 0..Unlimited]
        BY <1>1, <1>2, <1>4
    <2> QED
        BY <1>1, <1>4, <2>1, <2>2, <2>3
<1>5. ASSUME index' = [index EXCEPT ![f] = @ \cup {p}],
             life' = [life EXCEPT ![f] = IF index[f] = {} THEN Unlimited ELSE @]
      PROVE  /\ index' \in [Files -> SUBSET Peers]
             /\ life' \in [Files -> 0..Unlimited]
             /\ \A g \in Files : index'[g] = {} => life'[g] = 0
    <2>2. index' \in [Files -> SUBSET Peers]
        BY <1>1, <1>5
    <2>3. life' \in [Files -> 0..Unlimited]
        BY <1>1, <1>2, <1>5
    <2> QED
        BY <1>1, <1>5, <2>2, <2>3
<1>6. CASE Expire(f)
    BY <1>1, <1>2, <1>6 DEF Expire
<1> QED
    BY <1>3, <1>4, <1>5, <1>6 DEF SRem, SAdd

\* A tick takes no age beyond the first that is stale, does not make the smaller
\* of two the larger, and does not add to what one is behind the other.
LEMMA AfterAge ==
    /\ \A m \in Ages : After(m) \in Ages
    /\ \A m, n \in Ages : m <= n => After(m) <= After(n)
    /\ \A m, n, d \in Ages : m <= n + d => After(m) <= After(n) + d
BY TTLAssumption DEF After, Ages

\* Time is added to no record beyond what its type allows.
LEMMA OlderTypes ==
    /\ \A r \in Record : r.life > 0 => [Older(r) EXCEPT !.life = @ - 1] \in Record
    /\ \A r \in Row : Older(r) \in Row
    /\ \A h \in Handler : [Older(h) EXCEPT !.since = After(@)] \in Handler
<1>1. ASSUME NEW r \in Record, r.life > 0
      PROVE  [Older(r) EXCEPT !.life = @ - 1] \in Record
    <2>1. After(r.age) \in Ages /\ r.files \subseteq Files /\ r.life \in 0..TTL
        BY AfterAge DEF Record
    <2>2. Older(r) = [files |-> r.files, age |-> After(r.age), life |-> r.life]
        BY DEF Older, Record
    <2>3. r.life - 1 \in 0..TTL
        BY <1>1, <2>1, TTLAssumption
    <2> QED
        BY <2>1, <2>2, <2>3 DEF Record
<1>2. ASSUME NEW r \in Row PROVE Older(r) \in Row
    BY <1>2, AfterAge DEF Older, Row
<1>3. ASSUME NEW h \in Handler
      PROVE  [Older(h) EXCEPT !.since = After(@)] \in Handler
    BY <1>3, AfterAge DEF Older, Handler
<1> QED
    BY <1>1, <1>2, <1>3

LEMMA TypeHandler ==
    ASSUME TypeOK, NEW p \in Peers,
           Register(p) \/ Heartbeat(p) \/ HandlerStep(p) \/ Stop(p) \/ Return(p)
    PROVE  TypeOK'
<1> USE TTLAssumption DEF TypeOK, background
<1>0. req[p] \in Handler /\ Idle \in Handler
    BY DEF Handler, Idle, Position, Ages
<1>1. CASE Register(p)
    <2>1. PICK files \in regime.shares[p] :
             req' = [req EXCEPT ![p] = [Idle EXCEPT !.at = "upserting",
                                                    !.files = files]]
        BY <1>1 DEF Register
    <2>2. files \subseteq Files
        BY RegimeAssumption DEF Regime
    <2>3. req' \in [Peers -> Handler]
        BY <1>0, <2>1, <2>2 DEF Handler, Idle, Position, Ages
    <2> QED
        BY <1>1, <2>3 DEF Register
<1>11. CASE Upsert(p)
    <2>1. PICK old \in Get(p) :
             req' = [req EXCEPT ![p].at = "unlinking", ![p].age = 0,
                                ![p].todo = FilesOf(old)]
        BY <1>11 DEF Upsert
    <2>2. FilesOf(old) \subseteq Files
        BY DEF Get, FilesOf, Record
    <2>3. /\ req[p].files \subseteq Files /\ req[p].file \in Files \cup {Absent}
          /\ req[p].since \in Ages /\ 0 \in Ages /\ 0 <= req[p].since
        BY <1>0 DEF Handler, Ages
    <2>4. req'[p] = [at |-> "unlinking", files |-> req[p].files,
                     todo |-> FilesOf(old), file |-> req[p].file,
                     age |-> 0, since |-> req[p].since]
        BY <1>0, <2>1 DEF Handler
    <2>5. req'[p] \in Handler
        BY <2>2, <2>3, <2>4 DEF Handler, Position
    <2>6. req' \in [Peers -> Handler]
        BY <2>1, <2>5
    <2> QED
        BY <1>11, <2>6 DEF Upsert
<1>2. CASE Heartbeat(p)
    <2>1. PICK old \in Get(p) \ {Absent} :
             req' = [req EXCEPT ![p] = [Idle EXCEPT !.at = "stamping",
                                                    !.files = old.files]]
        BY <1>2 DEF Heartbeat
    <2>2. old.files \subseteq Files
        BY DEF Get, Record
    <2>3. req' \in [Peers -> Handler]
        BY <1>0, <2>1, <2>2 DEF Handler, Idle, Position, Ages
    <2> QED
        BY <1>2, <2>3 DEF Heartbeat
<1>3. CASE Unlink(p)
    <2>1. PICK f \in req[p].todo :
             SRem(f, p) /\ req' = [req EXCEPT ![p].todo = @ \ {f}]
        BY <1>3 DEF Unlink
    <2>2. f \in Files /\ req' \in [Peers -> Handler]
        BY <1>0, <2>1 DEF Handler
    <2> QED
        BY <1>3, <2>1, <2>2, CommandTypes DEF Unlink
<1>4. CASE Store(p) \/ Stamp(p)
    <2>1. [files |-> req[p].files, age |-> req[p].age, life |-> TTL] \in Record
        BY <1>0 DEF Record, Handler
    <2>2. record' \in [Peers -> Record \cup {Absent}]
        BY <1>4, <2>1 DEF Store, Stamp, Set
    <2>3. req' \in [Peers -> Handler]
        <3>1. \A at \in Position : [req[p] EXCEPT !.at = at] \in Handler
            BY <1>0 DEF Handler
        <3>2. \A at \in Position :
                 [req[p] EXCEPT !.at = at, !.todo = req[p].files] \in Handler
            BY <1>0 DEF Handler
        <3> QED
            BY <1>0, <1>4, <3>1, <3>2 DEF Store, Stamp, Position
    <2>4. lapsed' \in [Peers -> SUBSET Files]
        BY <1>4 DEF Store, Stamp
    <2> QED
        BY <1>4, <2>2, <2>3, <2>4 DEF Store, Stamp
<1>5. CASE Link(p)
    <2>1. PICK f \in req[p].todo :
             /\ SAdd(f, p)
             /\ req' = [req EXCEPT ![p].at = "limiting", ![p].file = f,
                                   ![p].todo = @ \ {f}]
        BY <1>5 DEF Link
    <2>2. f \in Files
        BY <1>0, <2>1 DEF Handler
    <2>3. req' \in [Peers -> Handler]
        BY <1>0, <2>1, <2>2 DEF Handler, Position
    <2> QED
        BY <1>5, <2>1, <2>2, <2>3, CommandTypes DEF Link
<1>6. CASE Limit(p)
    <2>1. req' \in [Peers -> Handler]
        BY <1>0, <1>6 DEF Limit, Handler, Position
    <2>2. /\ index' \in [Files -> SUBSET Peers]
          /\ life' \in [Files -> 0..Unlimited]
          /\ \A g \in Files : index'[g] = {} => life'[g] = 0
        BY <1>6 DEF Limit, Expire, Unlimited
    <2> QED
        BY <1>6, <2>1, <2>2 DEF Limit
<1>7. CASE RegisterRow(p)
    <2>1. [files |-> req[p].files, age |-> req[p].since] \in Row
        BY <1>0 DEF Row, Handler
    <2>2. rows' \in [Peers -> Row \cup {Absent}]
        BY <1>7, <2>1 DEF RegisterRow, SetRow, PostgresFails
    <2>3. req[p].since - req[p].age \in Ages
        BY <1>0 DEF Handler, Ages
    <2>4. behind' \in [Peers -> Ages]
        BY <1>7, <2>3 DEF RegisterRow
    <2> QED
        BY <1>0, <1>7, <2>2, <2>4 DEF RegisterRow
<1>8. CASE Extend(p)
    <2>1. PICK f \in req[p].todo :
             Expire(f) /\ req' = [req EXCEPT ![p].todo = @ \ {f}]
        BY <1>8 DEF Extend
    <2>2. f \in Files /\ req' \in [Peers -> Handler]
        BY <1>0, <2>1 DEF Handler
    <2> QED
        BY <1>8, <2>1, <2>2, CommandTypes DEF Extend
<1>9. CASE TouchRow(p)
    <2>1. rows[p] # Absent => [rows[p] EXCEPT !.age = 0] \in Row
        BY DEF Row, Ages
    <2>2. behind' \in [Peers -> Ages]
        BY <1>9 DEF TouchRow, Ages
    <2> QED
        BY <1>0, <1>9, <2>1, <2>2 DEF TouchRow, SetRow, PostgresFails
<1>10. CASE Stop(p) \/ Return(p)
    BY <1>10 DEF Stop, Return
<1> QED
    BY <1>1, <1>2, <1>3, <1>4, <1>5, <1>6, <1>7, <1>8, <1>9, <1>10, <1>11
       DEF HandlerStep

LEMMA TypeLookup ==
    ASSUME TypeOK, NEW f \in Files, LookupStep(f) PROVE TypeOK'
<1> USE DEF TypeOK, background
<1>1. CASE Lookup(f)
    BY <1>1 DEF Lookup
<1>2. CASE Check(f)
    <2>1. PICK p \in look[f].todo : \E r \in Get(p) :
             look' = [look EXCEPT ![f].todo = @ \ {p},
                                  ![f].sweep = IF Fresh(r) THEN Absent ELSE p]
        BY <1>2 DEF Check
    <2>2. PICK q \in Peers \cup {Absent} :
             look' = [look EXCEPT ![f].todo = @ \ {p}, ![f].sweep = q]
        BY <2>1
    <2>3. look'[f] = [todo |-> look[f].todo \ {p}, sweep |-> q]
        BY <2>2
    <2>4. \A g \in Files \ {f} : look'[g] = look[g]
        BY <2>2
    <2> QED
        BY <1>2, <2>2, <2>3, <2>4 DEF Check
<1>3. CASE Sweep(f)
    BY <1>3, CommandTypes DEF Sweep
<1> QED
    BY <1>1, <1>2, <1>3 DEF LookupStep

LEMMA TypeTime ==
    ASSUME TypeOK, Tick \/ Expiry PROVE TypeOK'
<1> USE TTLAssumption DEF TypeOK, background
<1>1. CASE Tick
    <2>1. record' \in [Peers -> Record \cup {Absent}]
        BY <1>1, OlderTypes DEF Tick
    <2>2. rows' \in [Peers -> Row \cup {Absent}]
        BY <1>1, OlderTypes DEF Tick
    <2>3. Idle \in Handler
        BY DEF Handler, Idle, Position, Ages
    <2>4. req' \in [Peers -> Handler]
        BY <1>1, <2>3, OlderTypes DEF Tick
    <2>5. /\ life' \in [Files -> 0..Unlimited]
          /\ \A f \in Files : index[f] = {} => life'[f] = 0
        BY <1>1 DEF Tick, Unlimited
    <2> QED
        BY <1>1, <2>1, <2>2, <2>4, <2>5 DEF Tick
<1>2. ASSUME NEW p \in Peers, ExpireRecord(p) PROVE TypeOK'
    <2>1. Listing(p) \subseteq Files
        BY DEF Listing, Handler
    <2> QED
        BY <1>2, <2>1 DEF ExpireRecord
<1>3. ASSUME NEW f \in Files, ExpireSet(f) PROVE TypeOK'
    BY <1>3 DEF ExpireSet
<1> QED
    BY <1>1, <1>2, <1>3 DEF Expiry

\* What the stores keep and the handlers' locals have their types.
THEOREM TypeCorrect == SafeSpec => []TypeOK
<1>1. Init => TypeOK
    BY RegimeAssumption, TTLAssumption
       DEF Init, TypeOK, Regime, Handler, Idle, Position, Ages, Unlimited
<1>2. TypeOK /\ [Next]_vars => TypeOK'
    <2>1. CASE UNCHANGED vars
        BY <2>1 DEF vars, TypeOK
    <2> QED
        BY <2>1, TypeHandler, TypeLookup, TypeTime DEF Next
<1> QED
    BY <1>1, <1>2, PTL DEF SafeSpec

-----------------------------------------------------------------------------
(* What a step leaves alone *)

\* A handler's step touches nothing of the other peers.
SameFor(q) ==
    /\ UNCHANGED <<regime, record[q], rows[q], req[q], acked[q], lapsed[q], behind[q],
                   up[q]>>
    /\ \A f \in Files : q \in index'[f] <=> q \in index[f]

LEMMA OthersUntouched ==
    ASSUME TypeOK, NEW p \in Peers,
           Register(p) \/ Heartbeat(p) \/ HandlerStep(p) \/ Stop(p) \/ Return(p),
           NEW q \in Peers \ {p}
    PROVE  SameFor(q)
<1> USE DEF TypeOK, background, SameFor
<1>1. ASSUME NEW f \in Files, SRem(f, p) \/ SAdd(f, p) \/ Expire(f)
      PROVE  \A g \in Files : q \in index'[g] <=> q \in index[g]
    <2>1. \/ index' = index \/ index' = [index EXCEPT ![f] = @ \ {p}]
          \/ index' = [index EXCEPT ![f] = @ \cup {p}]
        BY <1>1 DEF SRem, SAdd, Expire
    <2> QED
        BY <2>1
<1>2. CASE Register(p) \/ Upsert(p) \/ Heartbeat(p)
    BY <1>2 DEF Register, Upsert, Heartbeat
<1>3. CASE Unlink(p) \/ Link(p) \/ Extend(p)
    <2>1. PICK f \in req[p].todo : SRem(f, p) \/ SAdd(f, p) \/ Expire(f)
        BY <1>3 DEF Unlink, Link, Extend
    <2>2. f \in Files
        BY <2>1 DEF Handler
    <2>3. \A g \in Files : q \in index'[g] <=> q \in index[g]
        BY <1>1, <2>1, <2>2
    <2>4. UNCHANGED <<regime, record[q], rows[q], req[q], acked[q], lapsed[q], behind[q],
                   up[q]>>
        BY <1>3 DEF Unlink, Link, Extend
    <2> QED
        BY <2>3, <2>4
<1>4. CASE Limit(p)
    BY <1>4 DEF Limit, Expire
<1>5. CASE Store(p) \/ Stamp(p)
    BY <1>5 DEF Store, Stamp, Set
<1>6. CASE RegisterRow(p) \/ TouchRow(p)
    BY <1>6 DEF RegisterRow, TouchRow, SetRow, PostgresFails
<1>7. CASE Stop(p) \/ Return(p)
    BY <1>7 DEF Stop, Return
<1> QED
    BY <1>2, <1>3, <1>4, <1>5, <1>6, <1>7 DEF HandlerStep

\* A lookup's step takes at most members out of sets.
LEMMA LookupsRemove ==
    ASSUME TypeOK, NEW f \in Files, LookupStep(f)
    PROVE  /\ UNCHANGED <<regime, record, rows, req, acked, lapsed, behind, up>>
           /\ \A g \in Files : index'[g] \subseteq index[g]
BY DEF LookupStep, Lookup, Check, Sweep, SRem, background, TypeOK

LEMMA ExpirySteps ==
    ASSUME TypeOK, Expiry
    PROVE  /\ UNCHANGED <<regime, rows, req, acked, behind, up, look>>
           /\ \A g \in Files : index'[g] \subseteq index[g]
           /\ \A q \in Peers :
                 \/ record'[q] = record[q] /\ lapsed'[q] = lapsed[q]
                 \/ record'[q] = Absent /\ lapsed'[q] = Listing(q)
                    /\ index' = index
BY DEF Expiry, ExpireRecord, ExpireSet, background, TypeOK

\* A tick changes nothing but ages and remaining lives.
LEMMA TickEffect ==
    ASSUME TypeOK, Tick, NEW q \in Peers
    PROVE  /\ UNCHANGED <<regime, up, index, look, acked, lapsed, behind>>
           /\ record[q] = Absent => record'[q] = Absent
           /\ record[q] # Absent => 
                 /\ record'[q] # Absent
                 /\ record'[q].files = record[q].files
                 /\ record'[q].age = Older(record[q]).age
                 /\ record'[q].life = record[q].life - 1
           /\ rows[q] = Absent => rows'[q] = Absent
           /\ rows[q] # Absent =>
                 /\ rows'[q] # Absent
                 /\ rows'[q].files = rows[q].files
                 /\ rows'[q].age = Older(rows[q]).age
           /\ req'[q].at = req[q].at
           /\ req[q].at # "idle" =>
                 /\ req'[q].files = req[q].files /\ req'[q].todo = req[q].todo
                 /\ req'[q].file = req[q].file
                 /\ req'[q].age = Older(req[q]).age
           /\ req[q].at = "idle" => req'[q] = Idle
<1> USE DEF TypeOK, background
<1>1. /\ UNCHANGED <<regime, up, index, look, acked, lapsed, behind>>
      /\ record'[q] = IF record[q] = Absent THEN Absent
                      ELSE [Older(record[q]) EXCEPT !.life = @ - 1]
      /\ rows'[q] = IF rows[q] = Absent THEN Absent ELSE Older(rows[q])
      /\ req'[q] = IF req[q].at = "idle" THEN Idle
                   ELSE [Older(req[q]) EXCEPT !.since = After(@)]
      /\ record[q] # Absent => record[q].life > 0
    BY DEF Tick
<1>2. ASSUME record[q] # Absent
      PROVE  /\ record'[q] # Absent
             /\ record'[q].files = record[q].files
             /\ record'[q].age = Older(record[q]).age
             /\ record'[q].life = record[q].life - 1
    <2>1. record[q] \in Record /\ record'[q] \in Record
        BY <1>1, <1>2, OlderTypes
    <2> QED
        BY <1>1, <1>2, <2>1, AbsentAssumption DEF Older, Record
<1>3. ASSUME rows[q] # Absent
      PROVE  /\ rows'[q] # Absent
             /\ rows'[q].files = rows[q].files
             /\ rows'[q].age = Older(rows[q]).age
    <2>1. rows[q] \in Row /\ rows'[q] \in Row
        BY <1>1, <1>3, OlderTypes
    <2> QED
        BY <1>1, <1>3, <2>1, AbsentAssumption DEF Older, Row
<1>4. CASE req[q].at = "idle"
    BY <1>1, <1>2, <1>3, <1>4 DEF Idle
<1>5. CASE req[q].at # "idle"
    <2>1. req[q] \in Handler
        OBVIOUS
    <2>2. /\ req'[q].at = req[q].at /\ req'[q].files = req[q].files
          /\ req'[q].todo = req[q].todo /\ req'[q].file = req[q].file
          /\ req'[q].age = Older(req[q]).age
        BY <1>1, <1>5, <2>1 DEF Older, Handler
    <2> QED
        BY <1>1, <1>2, <1>3, <1>5, <2>2
<1> QED
    BY <1>4, <1>5

-----------------------------------------------------------------------------
(* What a step of a peer's handler does to the peer's own entries *)

LEMMA RegisterEffect ==
    ASSUME TypeOK, NEW p \in Peers, Register(p)
    PROVE  /\ UNCHANGED <<regime, up, record, index, life, rows, look, lapsed, behind>>
           /\ up[p] /\ req[p].at = "idle"
           /\ req'[p].at = "upserting" /\ req'[p].age = 0 /\ req'[p].file = Absent
           /\ ~acked'[p]
<1>1. PICK files \in regime.shares[p] :
         req' = [req EXCEPT ![p] = [Idle EXCEPT !.at = "upserting", !.files = files]]
    BY DEF Register
<1>2. req'[p] = [at |-> "upserting", files |-> files, todo |-> {},
                 file |-> Absent, age |-> 0, since |-> 0]
    BY <1>1 DEF TypeOK, Idle
<1>3. /\ UNCHANGED <<regime, up, record, index, life, rows, look, lapsed, behind>>
      /\ up[p] /\ req[p].at = "idle" /\ ~acked'[p]
    BY DEF Register, TypeOK, background
<1> QED
    BY <1>2, <1>3

LEMMA UpsertEffect ==
    ASSUME TypeOK, NEW p \in Peers, Upsert(p)
    PROVE  /\ UNCHANGED <<regime, up, record, index, life, rows, look, acked, lapsed,
                          behind>>
           /\ req[p].at = "upserting"
           /\ req'[p].at = "unlinking" /\ req'[p].age = 0
           /\ req'[p].file = req[p].file
           /\ ~RedisMayFail => req'[p].todo = FilesOf(record[p])
<1>1. PICK old \in Get(p) :
         req' = [req EXCEPT ![p].at = "unlinking", ![p].age = 0,
                            ![p].todo = FilesOf(old)]
    BY DEF Upsert
<1>2. /\ req'[p].at = "unlinking" /\ req'[p].age = 0
      /\ req'[p].file = req[p].file /\ req'[p].todo = FilesOf(old)
    BY <1>1 DEF TypeOK, Handler
<1>3. ~RedisMayFail => old = record[p]
    BY DEF Get
<1> QED
    BY <1>2, <1>3 DEF Upsert, background

LEMMA HeartbeatEffect ==
    ASSUME TypeOK, NEW p \in Peers, Heartbeat(p)
    PROVE  /\ UNCHANGED <<regime, up, record, index, life, rows, look, acked, lapsed,
                          behind>>
           /\ up[p] /\ req[p].at = "idle" /\ record[p] # Absent
           /\ req'[p].at = "stamping" /\ req'[p].files = record[p].files
           /\ req'[p].todo = {} /\ req'[p].file = Absent /\ req'[p].age = 0
<1>1. PICK old \in Get(p) \ {Absent} :
         req' = [req EXCEPT ![p] = [Idle EXCEPT !.at = "stamping",
                                                !.files = old.files]]
    BY DEF Heartbeat
<1>2. old = record[p] /\ record[p] # Absent
    BY DEF Get
<1>3. req'[p] = [at |-> "stamping", files |-> old.files, todo |-> {},
                 file |-> Absent, age |-> 0, since |-> 0]
    BY <1>1 DEF TypeOK, Idle
<1>4. /\ UNCHANGED <<regime, up, record, index, life, rows, look, acked, lapsed,
                          behind>>
      /\ up[p] /\ req[p].at = "idle"
    BY DEF Heartbeat, background
<1> QED
    BY <1>2, <1>3, <1>4

\* The steps that only go through the sets.
LEMMA SetStepEffect ==
    ASSUME TypeOK, NEW p \in Peers,
           Unlink(p) \/ Link(p) \/ Limit(p) \/ Extend(p)
    PROVE  /\ UNCHANGED <<regime, up, record, rows, look, acked, lapsed, behind>>
           /\ req'[p].files = req[p].files /\ req'[p].age = req[p].age
           /\ \/ req[p].at \in {"unlinking", "extending"} /\ req'[p].at = req[p].at
              \/ req[p].at = "linking" /\ req'[p].at = "limiting"
              \/ req[p].at = "limiting" /\ req'[p].at = "linking"
<1>0. req[p] \in Handler
    BY DEF TypeOK
<1>1. \A f : /\ [req[p] EXCEPT !.todo = @ \ {f}].files = req[p].files
             /\ [req[p] EXCEPT !.todo = @ \ {f}].age = req[p].age
             /\ [req[p] EXCEPT !.todo = @ \ {f}].at = req[p].at
    BY <1>0 DEF Handler
<1>2. CASE Unlink(p) \/ Extend(p)
    <2>1. PICK f \in req[p].todo : req' = [req EXCEPT ![p].todo = @ \ {f}]
        BY <1>2 DEF Unlink, Extend
    <2>2. req'[p] = [req[p] EXCEPT !.todo = @ \ {f}]
        BY <2>1 DEF TypeOK
    <2> QED
        BY <1>1, <1>2, <2>2 DEF Unlink, Extend, background
<1>3. CASE Link(p)
    <2>1. PICK f \in req[p].todo :
             req' = [req EXCEPT ![p].at = "limiting", ![p].file = f,
                                ![p].todo = @ \ {f}]
        BY <1>3 DEF Link
    <2>2. /\ req'[p].files = req[p].files /\ req'[p].age = req[p].age
          /\ req'[p].at = "limiting"
        BY <1>0, <2>1 DEF TypeOK, Handler
    <2> QED
        BY <1>3, <2>2 DEF Link, background
<1>4. CASE Limit(p)
    BY <1>0, <1>4 DEF Limit, TypeOK, Handler, background
<1> QED
    BY <1>2, <1>3, <1>4

\* ... and which set they go to.
LEMMA SetStepChoice ==
    ASSUME TypeOK, NEW p \in Peers
    PROVE  /\ Unlink(p) => \E f \in req[p].todo \cap Files :
                 /\ SRem(f, p)
                 /\ req'[p].todo = req[p].todo \ {f} /\ req'[p].file = req[p].file
                 /\ req[p].at = "unlinking" /\ req'[p].at = "unlinking"
           /\ Link(p) => \E f \in req[p].todo \cap Files :
                 /\ SAdd(f, p)
                 /\ req'[p].todo = req[p].todo \ {f} /\ req'[p].file = f
                 /\ req[p].at = "linking" /\ req'[p].at = "limiting"
           /\ Limit(p) =>
                 /\ Expire(req[p].file)
                 /\ req'[p].todo = req[p].todo /\ req'[p].file = Absent
                 /\ req[p].at = "limiting" /\ req'[p].at = "linking"
           /\ Extend(p) => \E f \in req[p].todo \cap Files :
                 /\ Expire(f)
                 /\ req'[p].todo = req[p].todo \ {f} /\ req'[p].file = req[p].file
                 /\ req[p].at = "extending" /\ req'[p].at = "extending"
<1>0. req[p] \in Handler /\ req[p].todo \subseteq Files
    BY DEF TypeOK, Handler
<1>1. ASSUME NEW f, req' = [req EXCEPT ![p].todo = @ \ {f}]
      PROVE  /\ req'[p].todo = req[p].todo \ {f} /\ req'[p].file = req[p].file
             /\ req'[p].at = req[p].at
    <2>1. req'[p] = [req[p] EXCEPT !.todo = @ \ {f}]
        BY <1>1 DEF TypeOK
    <2> QED
        BY <1>0, <2>1 DEF Handler
<1>2. ASSUME NEW f, req' = [req EXCEPT ![p].at = "limiting", ![p].file = f,
                                       ![p].todo = @ \ {f}]
      PROVE  /\ req'[p].todo = req[p].todo \ {f} /\ req'[p].file = f
             /\ req'[p].at = "limiting"
    BY <1>0, <1>2 DEF TypeOK, Handler
<1>3. Unlink(p) => \E f \in req[p].todo \cap Files :
                 /\ SRem(f, p)
                 /\ req'[p].todo = req[p].todo \ {f} /\ req'[p].file = req[p].file
                 /\ req[p].at = "unlinking" /\ req'[p].at = "unlinking"
    BY <1>0, <1>1 DEF Unlink
<1>4. Link(p) => \E f \in req[p].todo \cap Files :
                 /\ SAdd(f, p)
                 /\ req'[p].todo = req[p].todo \ {f} /\ req'[p].file = f
                 /\ req[p].at = "linking" /\ req'[p].at = "limiting"
    BY <1>0, <1>2 DEF Link
<1>5. Limit(p) =>
                 /\ Expire(req[p].file)
                 /\ req'[p].todo = req[p].todo /\ req'[p].file = Absent
                 /\ req[p].at = "limiting" /\ req'[p].at = "linking"
    <2> SUFFICES ASSUME Limit(p)
                 PROVE  /\ Expire(req[p].file)
                        /\ req'[p].todo = req[p].todo /\ req'[p].file = Absent
                        /\ req[p].at = "limiting" /\ req'[p].at = "linking"
        OBVIOUS
    <2>1. req' = [req EXCEPT ![p].at = "linking", ![p].file = Absent]
        BY DEF Limit
    <2>2. /\ req'[p].todo = req[p].todo /\ req'[p].file = Absent
          /\ req'[p].at = "linking"
        BY <1>0, <2>1 DEF TypeOK, Handler
    <2> QED
        BY <2>2 DEF Limit
<1>6. Extend(p) => \E f \in req[p].todo \cap Files :
                 /\ Expire(f)
                 /\ req'[p].todo = req[p].todo \ {f} /\ req'[p].file = req[p].file
                 /\ req[p].at = "extending" /\ req'[p].at = "extending"
    BY <1>0, <1>1 DEF Extend
<1> QED
    BY <1>3, <1>4, <1>5, <1>6

\* The steps that write the record, or fail to.
LEMMA RecordStepEffect ==
    ASSUME TypeOK, NEW p \in Peers, Store(p) \/ Stamp(p)
    PROVE  /\ UNCHANGED <<regime, up, index, life, rows, look, acked, behind>>
           /\ \/ lapsed' = lapsed
              \/ /\ Store(p) /\ record'[p] # Absent
                 /\ lapsed'[p] = lapsed[p] \ req[p].files
           /\ \/ /\ record'[p] # Absent
                 /\ record'[p].files = req[p].files
                 /\ record'[p].age = req[p].age /\ record'[p].life = TTL
                 /\ req'[p].files = req[p].files /\ req'[p].todo = req[p].files
                 /\ req'[p].file = req[p].file /\ req'[p].age = req[p].age
                 /\ \/ Store(p) /\ req'[p].at = "linking"
                    \/ Stamp(p) /\ req'[p].at = "extending"
              \/ /\ RedisMayFail /\ UNCHANGED record
                 /\ \/ /\ Store(p) /\ req'[p].at = "linking"
                       /\ req'[p].files = req[p].files /\ req'[p].todo = req[p].todo
                       /\ req'[p].file = req[p].file /\ req'[p].age = req[p].age
                    \/ Stamp(p) /\ req'[p] = Idle
<1>0. req[p] \in Handler
    BY DEF TypeOK
<1>1. [files |-> req[p].files, age |-> req[p].age, life |-> TTL] \in Record
    BY <1>0, TTLAssumption DEF Record, Handler
<1>2. ASSUME Set(p, req[p].files, req[p].age)
      PROVE  /\ record'[p] # Absent
             /\ record'[p].files = req[p].files
             /\ record'[p].age = req[p].age /\ record'[p].life = TTL
    BY <1>1, <1>2, AbsentAssumption DEF Set, TypeOK
<1>3. CASE Store(p)
    BY <1>0, <1>2, <1>3 DEF Store, TypeOK, Handler, background
<1>4. CASE Stamp(p)
    BY <1>0, <1>2, <1>4 DEF Stamp, TypeOK, Handler, background
<1> QED
    BY <1>3, <1>4

\* The steps that write the row and answer.
LEMMA RowStepEffect ==
    ASSUME TypeOK, NEW p \in Peers, RegisterRow(p) \/ TouchRow(p)
    PROVE  /\ UNCHANGED <<regime, up, record, index, life, look, lapsed>>
           /\ req'[p] = Idle /\ req[p].todo = {}
           /\ \/ /\ RegisterRow(p) /\ req[p].at = "linking"
                 /\ \/ /\ rows'[p] # Absent /\ rows'[p].files = req[p].files
                       /\ rows'[p].age = req[p].since
                       /\ behind'[p] = req[p].since - req[p].age
                    \/ "postgres" \in regime.faults /\ UNCHANGED <<rows, behind, acked>>
              \/ /\ TouchRow(p) /\ req[p].at = "extending" /\ UNCHANGED acked
                 /\ \/ /\ rows[p] # Absent
                       /\ rows'[p] # Absent /\ rows'[p].files = rows[p].files
                       /\ rows'[p].age = 0 /\ behind'[p] = 0
                    \/ rows[p] = Absent /\ UNCHANGED <<rows, behind>>
                    \/ "postgres" \in regime.faults /\ UNCHANGED <<rows, behind>>
<1>0. req[p] \in Handler
    BY DEF TypeOK
<1>1. CASE RegisterRow(p)
    <2>1. [files |-> req[p].files, age |-> req[p].since] \in Row
        BY <1>0 DEF Row, Handler
    <2>2. [files |-> req[p].files, age |-> req[p].since] # Absent
        BY <2>1, AbsentAssumption
    <2>3. req'[p] = Idle /\ req[p].todo = {} /\ req[p].at = "linking"
          /\ UNCHANGED <<regime, up, record, index, life, look, lapsed>>
        BY <1>1 DEF RegisterRow, TypeOK, background
    <2>4. \/ /\ rows'[p] = [files |-> req[p].files, age |-> req[p].since]
             /\ behind'[p] = req[p].since - req[p].age
          \/ "postgres" \in regime.faults /\ UNCHANGED <<rows, behind, acked>>
        BY <1>1 DEF RegisterRow, SetRow, PostgresFails, TypeOK
    <2> QED
        BY <1>1, <2>2, <2>3, <2>4
<1>2. CASE TouchRow(p)
    <2>1. req'[p] = Idle /\ req[p].todo = {} /\ req[p].at = "extending"
          /\ UNCHANGED <<regime, up, record, index, life, look, lapsed, acked>>
        BY <1>2 DEF TouchRow, TypeOK, background
    <2>2. ASSUME rows[p] # Absent, SetRow(p, [rows[p] EXCEPT !.age = 0])
          PROVE  /\ rows'[p] # Absent /\ rows'[p].files = rows[p].files
                 /\ rows'[p].age = 0
        <3>1. rows'[p] = [rows[p] EXCEPT !.age = 0]
            BY <2>2 DEF SetRow, TypeOK
        <3>2. rows[p] \in Row /\ 0 \in Ages
            BY <2>2, TTLAssumption DEF TypeOK, Ages
        <3>3. rows'[p] \in Row
            BY <3>1, <3>2 DEF Row
        <3> QED
            BY <3>1, <3>2, <3>3, AbsentAssumption DEF Row
    <2>3. \/ /\ rows[p] # Absent /\ SetRow(p, [rows[p] EXCEPT !.age = 0])
             /\ behind'[p] = 0
          \/ rows[p] = Absent /\ UNCHANGED <<rows, behind>>
          \/ "postgres" \in regime.faults /\ UNCHANGED <<rows, behind>>
        BY <1>2 DEF TouchRow, PostgresFails, TypeOK
    <2> QED
        BY <1>2, <2>1, <2>2, <2>3
<1> QED
    BY <1>1, <1>2

-----------------------------------------------------------------------------
(* Postgres keeps up *)

LEMMA RowsHandler ==
    ASSUME TypeOK, NEW p \in Peers, RowKeepsUp(p),
           Register(p) \/ Heartbeat(p) \/ HandlerStep(p) \/ Stop(p) \/ Return(p)
    PROVE  RowKeepsUp(p)'
<1> USE DEF RowKeepsUp
<1>0. /\ record[p] # Absent => record[p].age \in Nat
      /\ req[p].age \in Nat
    BY DEF TypeOK, Record, Handler, Ages
<1>13. req[p].since \in Nat /\ behind[p] \in Nat
    BY DEF TypeOK, Handler, Ages
<1>1. CASE Register(p)
    BY <1>0, <1>1, RegisterEffect
<1>12. CASE Upsert(p)
    BY <1>0, <1>12, UpsertEffect
<1>2. CASE Heartbeat(p)
    BY <1>0, <1>2, HeartbeatEffect
<1>3. CASE Unlink(p) \/ Link(p) \/ Limit(p) \/ Extend(p)
    BY <1>3, SetStepEffect
<1>4. CASE Store(p)
    <2>1. req[p].at = "unlinking" /\ ~Stamp(p)
        BY <1>4 DEF Store, Stamp
    <2> QED
        BY <1>0, <1>4, <2>1, RecordStepEffect
<1>5. CASE Stamp(p)
    <2>1. req[p].at = "stamping" /\ ~Store(p) /\ Idle.at = "idle"
        BY <1>5 DEF Store, Stamp, Idle
    <2> QED
        BY <1>0, <1>5, <2>1, RecordStepEffect
<1>6. CASE RegisterRow(p) \/ TouchRow(p)
    <2>1. Idle.at = "idle"
        BY DEF Idle
    <2> QED
        BY <1>0, <1>13, <1>6, <2>1, RowStepEffect
<1>7. CASE Stop(p) \/ Return(p)
    BY <1>7 DEF Stop, Return, background
<1> QED
    BY <1>1, <1>2, <1>3, <1>4, <1>5, <1>6, <1>7, <1>12
       DEF HandlerStep

LEMMA RowsTick == ASSUME TypeOK, RowsKeepUp, Tick PROVE RowsKeepUp'
<1> SUFFICES ASSUME NEW p \in Peers PROVE RowKeepsUp(p)'
    BY DEF RowsKeepUp
<1>1. RowKeepsUp(p)
    BY DEF RowsKeepUp
<1>2. /\ record[p] # Absent => record[p].age \in Ages
                              /\ Older(record[p]).age = After(record[p].age)
      /\ rows[p] # Absent => rows[p].age \in Ages
                            /\ Older(rows[p]).age = After(rows[p].age)
      /\ req[p].age \in Ages /\ Older(req[p]).age = After(req[p].age)
      /\ behind[p] \in Ages
    BY DEF TypeOK, Record, Row, Handler, Older
<1>3. ASSUME req[p].at # "idle", record[p] # Absent
      PROVE  Older(req[p]).age <= Older(record[p]).age
    BY <1>1, <1>2, <1>3, AfterAge DEF RowKeepsUp
<1>4. ASSUME "postgres" \notin regime.faults, req[p].at \in {"idle", "stamping"},
             record[p] # Absent
      PROVE  rows[p] # Absent /\ Older(rows[p]).age <= Older(record[p]).age + behind[p]
    BY <1>1, <1>2, <1>4, AfterAge DEF RowKeepsUp
<1> QED
    BY <1>1, <1>3, <1>4, TickEffect DEF RowKeepsUp

LEMMA RowsNext == TypeOK /\ RowsKeepUp /\ [Next]_vars => RowsKeepUp'
<1> SUFFICES ASSUME TypeOK, RowsKeepUp, [Next]_vars PROVE RowsKeepUp'
    OBVIOUS
<1> USE DEF RowsKeepUp
<1>1. ASSUME NEW p \in Peers,
             Register(p) \/ Heartbeat(p) \/ HandlerStep(p) \/ Stop(p) \/ Return(p)
      PROVE  RowsKeepUp'
    <2>1. RowKeepsUp(p)'
        BY <1>1, RowsHandler
    <2>2. \A q \in Peers \ {p} : SameFor(q)
        BY <1>1, OthersUntouched
    <2> QED
        BY <2>1, <2>2 DEF SameFor, RowKeepsUp
<1>2. ASSUME NEW f \in Files, LookupStep(f) PROVE RowsKeepUp'
    BY <1>2, LookupsRemove DEF RowKeepsUp
<1>3. CASE Tick
    BY <1>3, RowsTick
<1>4. CASE Expiry
    BY <1>4, ExpirySteps DEF RowKeepsUp
<1>5. CASE UNCHANGED vars
    BY <1>5 DEF vars, RowKeepsUp
<1> QED
    BY <1>1, <1>2, <1>3, <1>4, <1>5 DEF Next

\* A peer that Redis holds for alive between two requests has a row that is not
\* behind its record by more than what lay between the two stamps of its last
\* registration, and not at all after a heartbeat, although commands of Redis may
\* fail half-way through a handler.
THEOREM PostgresKnows == SafeSpec => []PostgresKnowsLivePeers
<1>1. Init => RowsKeepUp
    BY DEF Init, RowsKeepUp, RowKeepsUp, Idle
<1>2. RowsKeepUp => PostgresKnowsLivePeers
    BY DEF PostgresKnowsLivePeers, RowsKeepUp, RowKeepsUp, Quiet, Fresh
<1> QED
    BY <1>1, <1>2, RowsNext, TypeCorrect, PTL DEF SafeSpec

-----------------------------------------------------------------------------
(* The stores agree *)

LEMMA AgreeHandler ==
    ASSUME TypeOK, NEW p \in Peers, HandlerAgrees(p),
           Register(p) \/ Heartbeat(p) \/ HandlerStep(p) \/ Stop(p) \/ Return(p)
    PROVE  HandlerAgrees(p)'
<1> USE DEF HandlerAgrees, RedisMayFail
<1>1. CASE Register(p)
    BY <1>1, RegisterEffect
<1>12. CASE Upsert(p)
    BY <1>12, UpsertEffect
<1>2. CASE Heartbeat(p)
    BY <1>2, HeartbeatEffect
<1>3. CASE Unlink(p) \/ Link(p) \/ Limit(p) \/ Extend(p)
    BY <1>3, SetStepEffect
<1>4. CASE Store(p)
    <2>1. req[p].at = "unlinking" /\ ~Stamp(p)
        BY <1>4 DEF Store, Stamp
    <2> QED
        BY <1>4, <2>1, RecordStepEffect
<1>5. CASE Stamp(p)
    <2>1. req[p].at = "stamping" /\ ~Store(p) /\ Idle.at = "idle"
        BY <1>5 DEF Store, Stamp, Idle
    <2> QED
        BY <1>5, <2>1, RecordStepEffect
<1>6. CASE RegisterRow(p) \/ TouchRow(p)
    <2>1. Idle.at = "idle"
        BY DEF Idle
    <2> QED
        BY <1>6, <2>1, RowStepEffect
<1>7. CASE Stop(p) \/ Return(p)
    BY <1>7 DEF Stop, Return, background
<1> QED
    BY <1>1, <1>2, <1>3, <1>4, <1>5, <1>6, <1>7, <1>12
       DEF HandlerStep

LEMMA AgreeNext == TypeOK /\ HandlersAgree /\ [Next]_vars => HandlersAgree'
<1> SUFFICES ASSUME TypeOK, HandlersAgree, [Next]_vars PROVE HandlersAgree'
    OBVIOUS
<1> USE DEF HandlersAgree
<1>1. ASSUME NEW p \in Peers,
             Register(p) \/ Heartbeat(p) \/ HandlerStep(p) \/ Stop(p) \/ Return(p)
      PROVE  HandlersAgree'
    <2>1. HandlerAgrees(p)'
        BY <1>1, AgreeHandler
    <2>2. \A q \in Peers \ {p} : SameFor(q)
        BY <1>1, OthersUntouched
    <2> QED
        BY <2>1, <2>2 DEF SameFor, HandlerAgrees, RedisMayFail
<1>2. ASSUME NEW f \in Files, LookupStep(f) PROVE HandlersAgree'
    BY <1>2, LookupsRemove DEF HandlerAgrees, RedisMayFail
<1>3. CASE Tick
    BY <1>3, TickEffect DEF HandlerAgrees, RedisMayFail
<1>4. CASE Expiry
    BY <1>4, ExpirySteps DEF HandlerAgrees, RedisMayFail
<1>5. CASE UNCHANGED vars
    BY <1>5 DEF vars, HandlerAgrees, RedisMayFail
<1> QED
    BY <1>1, <1>2, <1>3, <1>4, <1>5 DEF Next

\* After a registration that was answered 200 Redis and Postgres name the same
\* files for the peer, whatever heartbeats of before and after it write back and
\* whatever expires in between.
THEOREM StoresStayAgreed == SafeSpec => []StoresAgree
<1>1. Init => HandlersAgree
    BY DEF Init, HandlersAgree, HandlerAgrees, Idle
<1>2. HandlersAgree => StoresAgree
    BY DEF HandlersAgree, HandlerAgrees, StoresAgree
<1> QED
    BY <1>1, <1>2, AgreeNext, TypeCorrect, PTL DEF SafeSpec

-----------------------------------------------------------------------------
(* The sets are known *)

LEMMA KnownHandler ==
    ASSUME TypeOK, NEW p \in Peers, IsKnown(p),
           Register(p) \/ Heartbeat(p) \/ HandlerStep(p) \/ Stop(p) \/ Return(p)
    PROVE  IsKnown(p)'
<1> USE DEF IsKnown, RedisMayFail, Owed, FilesOf
<1>1. CASE Register(p)
    BY <1>1, RegisterEffect
<1>12. CASE Upsert(p)
    BY <1>12, UpsertEffect
<1>2. CASE Heartbeat(p)
    BY <1>2, HeartbeatEffect
<1>3. CASE Unlink(p)
    <2>1. PICK f \in req[p].todo \cap Files :
             /\ SRem(f, p)
             /\ req'[p].todo = req[p].todo \ {f} /\ req'[p].file = req[p].file
             /\ req[p].at = "unlinking" /\ req'[p].at = "unlinking"
        BY <1>3, SetStepChoice
    <2>2. ~RedisMayFail => index' = [index EXCEPT ![f] = @ \ {p}]
        BY <2>1 DEF SRem
    <2>3. ~RedisMayFail => \A g \in Files : p \in index'[g] => g # f /\ p \in index[g]
        BY <2>2 DEF TypeOK
    <2> QED
        BY <1>3, <2>1, <2>3, SetStepEffect
<1>4. CASE Link(p)
    <2>1. PICK f \in req[p].todo \cap Files :
             /\ SAdd(f, p)
             /\ req'[p].todo = req[p].todo \ {f} /\ req'[p].file = f
             /\ req[p].at = "linking" /\ req'[p].at = "limiting"
        BY <1>4, SetStepChoice
    <2>2. \A g \in Files : p \in index'[g] => g = f \/ p \in index[g]
        BY <2>1 DEF SAdd, TypeOK
    <2> QED
        BY <1>4, <2>1, <2>2, SetStepEffect
<1>5. CASE Limit(p)
    <2>1. index' = index
        BY <1>5 DEF Limit, Expire
    <2> QED
        BY <1>5, <2>1, SetStepEffect, SetStepChoice
<1>6. CASE Extend(p)
    <2>1. PICK f \in req[p].todo \cap Files :
             /\ Expire(f)
             /\ req'[p].todo = req[p].todo \ {f} /\ req'[p].file = req[p].file
             /\ req[p].at = "extending" /\ req'[p].at = "extending"
        BY <1>6, SetStepChoice
    <2>2. index' = index
        BY <2>1 DEF Expire
    <2> QED
        BY <1>6, <2>1, <2>2, SetStepEffect
<1>7. CASE Store(p)
    <2>1. req[p].at = "unlinking" /\ req[p].todo = {} /\ ~Stamp(p)
        BY <1>7 DEF Store, Stamp
    <2> QED
        BY <1>7, <2>1, RecordStepEffect
<1>8. CASE Stamp(p)
    <2>1. req[p].at = "stamping" /\ ~Store(p)
          /\ Idle.at = "idle" /\ Idle.file = Absent /\ Idle.todo = {}
        BY <1>8 DEF Store, Stamp, Idle
    <2> QED
        BY <1>8, <2>1, RecordStepEffect
<1>9. CASE RegisterRow(p) \/ TouchRow(p)
    <2>1. Idle.at = "idle" /\ Idle.file = Absent /\ Idle.todo = {}
        BY DEF Idle
    <2> QED
        BY <1>9, <2>1, RowStepEffect
<1>10. CASE Stop(p) \/ Return(p)
    BY <1>10 DEF Stop, Return, background
<1> QED
    BY <1>1, <1>2, <1>3, <1>4, <1>5, <1>6, <1>7, <1>8, <1>9, <1>10, <1>12
       DEF HandlerStep

LEMMA KnownExpiry ==
    ASSUME TypeOK, NEW q \in Peers, IsKnown(q), Expiry PROVE IsKnown(q)'
<1> USE DEF IsKnown, RedisMayFail, Owed, FilesOf
<1>1. /\ UNCHANGED <<regime, rows, req, acked, behind, up, look>>
      /\ \A g \in Files : index'[g] \subseteq index[g]
    BY ExpirySteps
<1>2. CASE record'[q] = record[q] /\ lapsed'[q] = lapsed[q]
    BY <1>1, <1>2
<1>3. CASE record'[q] = Absent /\ lapsed'[q] = Listing(q) /\ index' = index
    <2>1. \A f \in Files : q \in index'[f] => f \in lapsed'[q]
        BY <1>3 DEF Listing
    <2>2. req[q].at \in {"linking", "limiting"} => req[q].todo \subseteq lapsed'[q]
        BY <1>3 DEF Listing
    <2> QED
        BY <1>1, <1>3, <2>1, <2>2
<1> QED
    BY <1>2, <1>3, ExpirySteps

LEMMA KnownNext == TypeOK /\ SetsAreKnown /\ [Next]_vars => SetsAreKnown'
<1> SUFFICES ASSUME TypeOK, SetsAreKnown, [Next]_vars PROVE SetsAreKnown'
    OBVIOUS
<1> USE DEF SetsAreKnown
<1>1. ASSUME NEW p \in Peers,
             Register(p) \/ Heartbeat(p) \/ HandlerStep(p) \/ Stop(p) \/ Return(p)
      PROVE  SetsAreKnown'
    <2>1. IsKnown(p)'
        BY <1>1, KnownHandler
    <2>2. ASSUME NEW q \in Peers \ {p} PROVE IsKnown(q)'
        <3>1. SameFor(q)
            BY <1>1, OthersUntouched
        <3>2. IsKnown(q)
            OBVIOUS
        <3> QED
            BY <3>1, <3>2 DEF SameFor, IsKnown, Owed, RedisMayFail
    <2> QED
        BY <2>1, <2>2
<1>2. ASSUME NEW f \in Files, LookupStep(f) PROVE SetsAreKnown'
    <2>1. /\ UNCHANGED <<regime, record, rows, req, acked, lapsed, behind, up>>
          /\ \A g \in Files : index'[g] \subseteq index[g]
        BY <1>2, LookupsRemove
    <2> QED
        BY <2>1 DEF IsKnown, Owed, RedisMayFail
<1>3. ASSUME Tick, NEW q \in Peers PROVE IsKnown(q)'
    <2>1. Idle.at = "idle" /\ Idle.file = Absent
        BY DEF Idle
    <2>2. IsKnown(q)
        OBVIOUS
    <2> QED
        BY <1>3, <2>1, <2>2, TickEffect DEF IsKnown, Owed, FilesOf, RedisMayFail
<1>4. CASE Expiry
    BY <1>4, KnownExpiry
<1>5. CASE UNCHANGED vars
    BY <1>5 DEF vars, IsKnown, Owed, RedisMayFail
<1> QED
    BY <1>1, <1>2, <1>3, <1>4, <1>5 DEF Next

\* Where Redis does not fail, a set lists a peer that has not the file only if
\* it did so when the peer's record expired: a registration leaves every set the
\* last one joined, although it knows of them by the record alone.
THEOREM ListedHaveFile == SafeSpec => []ListedPeersHaveFile
<1>1. Init => SetsAreKnown
    BY DEF Init, SetsAreKnown, IsKnown, Idle
<1>2. TypeOK /\ SetsAreKnown => ListedPeersHaveFile
    <2> SUFFICES ASSUME TypeOK, SetsAreKnown, ~RedisMayFail, NEW f \in Files,
                        NEW p \in index[f], Quiet(p), Fresh(record[p])
                 PROVE  f \in record[p].files \cup lapsed[p]
        BY DEF ListedPeersHaveFile
    <2>1. p \in Peers
        BY DEF TypeOK
    <2> QED
        BY <2>1 DEF SetsAreKnown, IsKnown, Owed, FilesOf, Quiet, Fresh
<1> QED
    BY <1>1, <1>2, KnownNext, TypeCorrect, PTL DEF SafeSpec

-----------------------------------------------------------------------------
(* The sets are kept *)

\* What one command does to a set, for a Redis that does not fail.
LEMMA CommandSets ==
    ASSUME TypeOK, ~RedisMayFail, NEW p \in Peers, NEW f,
           SRem(f, p) \/ SAdd(f, p) \/ Expire(f), NEW g \in Files
    PROVE  /\ index'[g] \subseteq index[g] \cup {p}
           /\ p \in index'[g] => p \in index[g] \/ SAdd(f, p)
           /\ index'[g] # {} /\ (index[g] # {} => life[g] > 0) => life'[g] > 0
           /\ \A q \in index[g] \ {p} : life'[g] \in {life[g], TTL}
<1>1. index \in [Files -> SUBSET Peers] /\ life \in [Files -> 0..Unlimited]
    BY DEF TypeOK
<1>2. TTL > 0 /\ Unlimited > 0
    BY TTLAssumption DEF Unlimited
<1>3. CASE index' = [index EXCEPT ![f] = @ \ {p}]
           /\ life' = [life EXCEPT ![f] = IF index[f] \subseteq {p} THEN 0 ELSE @]
    <2>1. CASE g = f
        BY <1>1, <1>3, <2>1
    <2>2. CASE g # f
        BY <1>1, <1>3, <2>2
    <2> QED
        BY <2>1, <2>2
<1>4. CASE index' = [index EXCEPT ![f] = @ \cup {p}] /\ SAdd(f, p)
           /\ life' = [life EXCEPT ![f] = IF index[f] = {} THEN Unlimited ELSE @]
    <2>1. CASE g = f
        BY <1>1, <1>2, <1>4, <2>1
    <2>2. CASE g # f
        BY <1>1, <1>4, <2>2
    <2> QED
        BY <2>1, <2>2
<1>5. CASE life' = [life EXCEPT ![f] = IF index[f] = {} THEN 0 ELSE TTL]
           /\ index' = index
    <2>1. CASE g = f
        BY <1>1, <1>2, <1>5, <2>1
    <2>2. CASE g # f
        BY <1>1, <1>5, <2>2
    <2> QED
        BY <2>1, <2>2
<1> QED
    BY <1>3, <1>4, <1>5 DEF SRem, SAdd, Expire

LEMMA HandlerSets ==
    ASSUME TypeOK, ~RedisMayFail, NEW p \in Peers,
           Register(p) \/ Heartbeat(p) \/ HandlerStep(p), NEW g \in Files
    PROVE  /\ index'[g] \subseteq index[g] \cup {p}
           /\ p \in index'[g] => p \in index[g] \/ req[p].at = "linking"
           /\ index'[g] # {} /\ (index[g] # {} => life[g] > 0) => life'[g] > 0
           /\ \A q \in index[g] \ {p} : life'[g] \in {life[g], TTL}
<1>1. CASE UNCHANGED <<index, life>>
    BY <1>1
<1>2. CASE \E f : SRem(f, p) \/ Expire(f)
    <2>1. PICK f : SRem(f, p) \/ Expire(f)
        BY <1>2
    <2>2. CASE SAdd(f, p)
        <3>1. index' = index \/ index' = [index EXCEPT ![f] = @ \ {p}]
            BY <2>1 DEF SRem, Expire
        <3>2. p \in index'[g] => p \in index[g]
            BY <3>1 DEF TypeOK
        <3> QED
            BY <2>1, <3>2, CommandSets
    <2>3. CASE ~SAdd(f, p)
        BY <2>1, <2>3, CommandSets
    <2> QED
        BY <2>2, <2>3
<1>3. CASE req[p].at = "linking" /\ \E f : SAdd(f, p)
    BY <1>3, CommandSets
<1>4. Register(p) \/ Upsert(p) \/ Heartbeat(p) => UNCHANGED <<index, life>>
    BY RegisterEffect, UpsertEffect, HeartbeatEffect
<1>5. Store(p) \/ Stamp(p) => UNCHANGED <<index, life>>
    BY RecordStepEffect
<1>6. RegisterRow(p) \/ TouchRow(p) => UNCHANGED <<index, life>>
    BY RowStepEffect
<1>7. Unlink(p) \/ Limit(p) \/ Extend(p) => \E f : SRem(f, p) \/ Expire(f)
    BY DEF Unlink, Limit, Extend
<1>8. Link(p) => req[p].at = "linking" /\ \E f : SAdd(f, p)
    BY DEF Link
<1> QED
    BY <1>1, <1>2, <1>3, <1>4, <1>5, <1>6, <1>7, <1>8 DEF HandlerStep

LEMMA LiveHandler ==
    ASSUME TypeOK, Settled, NEW p \in Peers, LiveRecord(p),
           Register(p) \/ Heartbeat(p) \/ HandlerStep(p)
    PROVE  LiveRecord(p)' /\ (record[p] # Absent => record'[p] # Absent)
<1> USE DEF LiveRecord
<1>0. TTL \in Nat \ {0} /\ ~RedisMayFail
    BY TTLAssumption DEF Settled
<1>1. CASE Register(p)
    BY <1>1, RegisterEffect
<1>12. CASE Upsert(p)
    BY <1>12, UpsertEffect
<1>2. CASE Heartbeat(p)
    BY <1>2, HeartbeatEffect
<1>3. CASE Unlink(p) \/ Link(p) \/ Limit(p) \/ Extend(p)
    BY <1>3, SetStepEffect
<1>4. CASE Store(p)
    <2>1. req[p].at = "unlinking" /\ ~Stamp(p)
        BY <1>4 DEF Store, Stamp
    <2> QED
        BY <1>0, <1>4, <2>1, RecordStepEffect
<1>5. CASE Stamp(p)
    <2>1. req[p].at = "stamping" /\ ~Store(p)
        BY <1>5 DEF Store, Stamp
    <2> QED
        BY <1>0, <1>5, <2>1, RecordStepEffect
<1>6. CASE RegisterRow(p) \/ TouchRow(p)
    <2>1. Idle.at = "idle" /\ Idle.age = 0
        BY DEF Idle
    <2> QED
        BY <1>6, <2>1, RowStepEffect
<1> QED
    BY <1>1, <1>2, <1>3, <1>4, <1>5, <1>6, <1>12
       DEF HandlerStep

LEMMA KeptHandler ==
    ASSUME TypeOK, Settled, NEW p \in Peers, LiveRecord(p), IsKnown(p),
           Register(p) \/ Heartbeat(p) \/ HandlerStep(p),
           NEW g \in Files, Kept(p, g)
    PROVE  Kept(p, g)'
<1> USE DEF Kept, FilesOf
<1>0. /\ TTL \in Nat \ {0} /\ ~RedisMayFail /\ g # Absent
      /\ index \in [Files -> SUBSET Peers] /\ life \in [Files -> 0..Unlimited]
      /\ record[p] # Absent => record[p].life \in 0..TTL
    BY TTLAssumption, AbsentAssumption DEF Settled, TypeOK, Record
<1>1. CASE Register(p)
    BY <1>1, RegisterEffect
<1>12. CASE Upsert(p)
    BY <1>12, UpsertEffect
<1>2. CASE Heartbeat(p)
    BY <1>2, HeartbeatEffect
<1>3. CASE Unlink(p)
    <2>1. req'[p].at = "unlinking"
        BY <1>3, SetStepChoice
    <2> QED
        BY <2>1
<1>4. CASE Link(p)
    <2>1. PICK f \in req[p].todo \cap Files :
             /\ SAdd(f, p)
             /\ req'[p].todo = req[p].todo \ {f} /\ req'[p].file = f
             /\ req[p].at = "linking" /\ req'[p].at = "limiting"
        BY <1>4, SetStepChoice
    <2>2. /\ index' = [index EXCEPT ![f] = @ \cup {p}]
          /\ g # f => life'[g] = life[g]
        BY <1>0, <2>1 DEF SAdd
    <2>3. req'[p].files = req[p].files /\ req[p].file = Absent
        BY <1>4, <2>1, SetStepEffect DEF IsKnown
    <2> QED
        BY <1>0, <2>1, <2>2, <2>3
<1>5. CASE Limit(p)
    <2>1. /\ Expire(req[p].file)
          /\ req'[p].todo = req[p].todo /\ req'[p].file = Absent
          /\ req[p].at = "limiting" /\ req'[p].at = "linking"
          /\ req'[p].files = req[p].files
        BY <1>5, SetStepChoice, SetStepEffect
    <2>2. /\ index' = index
          /\ g # req[p].file => life'[g] = life[g]
          /\ g = req[p].file /\ index[g] # {} => life'[g] = TTL
        BY <1>0, <2>1 DEF Expire
    <2> QED
        BY <1>0, <2>1, <2>2
<1>6. CASE Extend(p)
    <2>1. PICK f \in req[p].todo \cap Files :
             /\ Expire(f)
             /\ req'[p].todo = req[p].todo \ {f} /\ req'[p].file = req[p].file
             /\ req[p].at = "extending" /\ req'[p].at = "extending"
        BY <1>6, SetStepChoice
    <2>2. /\ index' = index
          /\ g # f => life'[g] = life[g]
          /\ g = f /\ index[g] # {} => life'[g] = TTL
        BY <1>0, <2>1 DEF Expire
    <2>3. req'[p].files = req[p].files
        BY <1>6, SetStepEffect
    <2> QED
        BY <1>0, <2>1, <2>2, <2>3
<1>7. CASE Store(p)
    <2>1. req[p].at = "unlinking" /\ ~Stamp(p)
        BY <1>7 DEF Store, Stamp
    <2> QED
        BY <1>0, <1>7, <2>1, RecordStepEffect
<1>8. CASE Stamp(p)
    <2>1. req[p].at = "stamping" /\ ~Store(p)
        BY <1>8 DEF Store, Stamp
    <2> QED
        BY <1>0, <1>8, <2>1, RecordStepEffect DEF LiveRecord
<1>9. CASE RegisterRow(p)
    <2>1. req[p].at = "linking" /\ req[p].todo = {} /\ Idle.at = "idle"
          /\ UNCHANGED <<record, index, life>> /\ req'[p] = Idle
        BY <1>9, RowStepEffect DEF RegisterRow, Idle
    <2>2. req[p].file = Absent /\ record[p] # Absent /\ record[p].files = req[p].files
        BY <1>0, <2>1 DEF IsKnown, LiveRecord
    <2> QED
        BY <1>0, <2>1, <2>2
<1>10. CASE TouchRow(p)
    <2>1. req[p].at = "extending" /\ req[p].todo = {} /\ Idle.at = "idle"
          /\ UNCHANGED <<record, index, life>> /\ req'[p] = Idle
        BY <1>10, RowStepEffect DEF TouchRow, Idle
    <2> QED
        BY <1>0, <2>1 DEF LiveRecord
<1> QED
    BY <1>1, <1>2, <1>3, <1>4, <1>5, <1>6, <1>7, <1>8, <1>9, <1>10, <1>12
       DEF HandlerStep

\* A command on a set for one peer takes no time from another peer in it.
LEMMA KeptForOthers ==
    ASSUME TypeOK, Settled, NEW p \in Peers,
           Register(p) \/ Heartbeat(p) \/ HandlerStep(p),
           NEW q \in Peers \ {p}, NEW g \in Files, Kept(q, g)
    PROVE  Kept(q, g)'
<1>1. q \in index[g] => life'[g] \in {life[g], TTL}
    BY HandlerSets DEF Settled
<1>2. SameFor(q)
    BY OthersUntouched
<1>3. TTL \in Nat /\ (record[q] # Absent => record[q].life \in 0..TTL)
    BY TTLAssumption DEF TypeOK, Record
<1> QED
    BY <1>1, <1>2, <1>3 DEF SameFor, Kept, FilesOf

LEMMA SweptHandler ==
    ASSUME TypeOK, Settled, NEW p \in Peers, LiveRecord(p),
           Register(p) \/ Heartbeat(p) \/ HandlerStep(p),
           NEW g \in Files, NothingSwept(g)
    PROVE  NothingSwept(g)'
<1> USE DEF NothingSwept
<1>1. look' = look
    BY RegisterEffect, UpsertEffect, HeartbeatEffect, SetStepEffect, RecordStepEffect, RowStepEffect
       DEF HandlerStep
<1>2. \A q \in Peers : record[q] # Absent => record'[q] # Absent
    <2>1. \A q \in Peers \ {p} : record'[q] = record[q]
        BY OthersUntouched DEF SameFor
    <2> QED
        BY <2>1, LiveHandler
<1>3. req[p].at = "linking" => record[p] # Absent
    BY DEF LiveRecord
<1>4. /\ index'[g] \subseteq index[g] \cup {p}
      /\ p \in index'[g] => p \in index[g] \/ req[p].at = "linking"
      /\ index'[g] # {} => life'[g] > 0
    BY HandlerSets DEF Settled
<1>5. index[g] \subseteq Peers /\ look[g].todo \subseteq Peers
    BY DEF TypeOK
<1> QED
    BY <1>1, <1>2, <1>3, <1>4, <1>5

\* Every record is fresh, so a lookup finds nothing to take out of a set.
LEMMA SweptLookup ==
    ASSUME TypeOK, Settled, \A p \in Peers : LiveRecord(p),
           NEW f \in Files, LookupStep(f), \A g \in Files : NothingSwept(g)
    PROVE  /\ \A g \in Files : NothingSwept(g)'
           /\ UNCHANGED <<regime, up, record, index, life, req, lapsed>>
<1> USE DEF NothingSwept, background
<1>0. look \in [Files -> [todo : SUBSET Peers, sweep : Peers \cup {Absent}]]
      /\ index \in [Files -> SUBSET Peers]
    BY DEF TypeOK
<1>1. CASE Lookup(f)
    BY <1>0, <1>1 DEF Lookup
<1>2. CASE Check(f)
    <2>1. PICK p \in look[f].todo : \E r \in Get(p) :
             look' = [look EXCEPT ![f].todo = @ \ {p},
                                  ![f].sweep = IF Fresh(r) THEN Absent ELSE p]
        BY <1>2 DEF Check
    <2>2. Get(p) = {record[p]}
        BY DEF Get, Settled
    <2>3. p \in Peers /\ Fresh(record[p])
        BY <1>0, <2>1 DEF Fresh, LiveRecord
    <2>4. look' = [look EXCEPT ![f].todo = @ \ {p}, ![f].sweep = Absent]
        BY <2>1, <2>2, <2>3
    <2>5. /\ look'[f].todo \subseteq look[f].todo /\ look'[f].sweep = Absent
          /\ \A g \in Files \ {f} : look'[g] = look[g]
        BY <1>0, <2>4
    <2> QED
        BY <1>2, <2>5 DEF Check
<1>3. CASE Sweep(f)
    BY <1>3 DEF Sweep
<1> QED
    BY <1>1, <1>2, <1>3 DEF LookupStep

\* A punctual peer is heard before its record is stale, and a set that lists it
\* has as much time left as the record.
LEMMA KeptTick ==
    ASSUME TypeOK, SetsAreKnown, SetsAreKept, Settled, Tick
    PROVE  /\ \A p \in Peers : LiveRecord(p)'
           /\ \A f \in Files : NothingSwept(f)'
           /\ \A p \in Peers, f \in Files : Kept(p, f)'
<1>0. /\ TTL \in Nat \ {0} /\ ~RedisMayFail
      /\ life \in [Files -> 0..Unlimited] /\ index \in [Files -> SUBSET Peers]
      /\ Idle.at = "idle" /\ Idle.age = 0
    BY TTLAssumption DEF Settled, TypeOK, Idle
<1>1. ASSUME NEW p \in Peers
      PROVE  /\ req[p].at = "idle" /\ req'[p] = Idle /\ LiveRecord(p)
             /\ record[p] # Absent =>
                   /\ record[p].age + 1 < TTL /\ record[p].age \in Nat
                   /\ record'[p].age = record[p].age + 1
                   /\ record[p].life = TTL - record[p].age
                   /\ record'[p].life = record[p].life - 1
                   /\ record'[p] # Absent /\ record'[p].files = record[p].files
             /\ record[p] = Absent => record'[p] = Absent
             /\ UNCHANGED <<regime, up, index, look, lapsed>>
    <2>1. req[p].at = "idle" /\ LiveRecord(p)
        BY DEF Tick, Settled, SetsAreKept
    <2>2. record[p] # Absent => record[p].age + 1 < TTL
        BY <2>1 DEF Tick, Settled, LiveRecord
    <2>3. record[p] # Absent => record[p].age \in Nat /\ record[p] \in Record
        BY DEF TypeOK, Record, Ages
    <2>4. record[p] # Absent => Older(record[p]).age = record[p].age + 1
        BY <1>0, <2>2, <2>3 DEF Older, After, Record
    <2> QED
        BY <2>1, <2>2, <2>3, <2>4, TickEffect DEF LiveRecord
<1>2. ASSUME NEW p \in Peers, NEW f \in Files, p \in index[f]
      PROVE  life[f] >= 2 /\ record[p] # Absent
    <2>1. record[p] # Absent
        BY <1>2 DEF SetsAreKept, NothingSwept
    <2>2. f \in FilesOf(record[p])
        BY <1>0, <1>1, <1>2 DEF SetsAreKnown, IsKnown, Owed, LiveRecord
    <2>3. life[f] >= record[p].life
        BY <1>1, <2>2 DEF SetsAreKept, Kept
    <2> QED
        BY <1>0, <1>1, <2>1, <2>3
<1>3. \A f \in Files : life'[f] = IF life[f] \in 1..TTL THEN life[f] - 1 ELSE life[f]
    BY DEF Tick
<1>4. ASSUME NEW p \in Peers PROVE LiveRecord(p)'
    BY <1>0, <1>1 DEF LiveRecord
<1>5. ASSUME NEW f \in Files PROVE NothingSwept(f)'
    <2>1. NothingSwept(f) /\ index[f] \subseteq Peers /\ look[f].todo \subseteq Peers
        BY DEF SetsAreKept, TypeOK
    <2>2. index' = index /\ look' = look
        BY DEF Tick
    <2>3. \A p \in index[f] \cup look[f].todo : record'[p] # Absent
        BY <1>1, <2>1 DEF NothingSwept
    <2>4. index[f] # {} => life'[f] > 0
        BY <1>0, <1>2, <1>3, <2>1
    <2> QED
        BY <2>1, <2>2, <2>3, <2>4 DEF NothingSwept
<1>6. ASSUME NEW p \in Peers, NEW f \in Files PROVE Kept(p, f)'
    <2>1. req'[p].at = "idle"
        BY <1>0, <1>1
    <2>2. ASSUME f \in FilesOf(record'[p])
          PROVE  p \in index'[f] /\ life'[f] >= record'[p].life
        <3>1. record[p] # Absent /\ f \in FilesOf(record[p])
            BY <1>1, <2>2 DEF FilesOf
        <3>2. p \in index[f] /\ life[f] >= record[p].life
            BY <1>1, <3>1 DEF SetsAreKept, Kept
        <3>3. record[p].life \in Nat /\ record[p].life >= 2
            BY <1>0, <1>1, <3>1
        <3>4. life'[f] >= record[p].life - 1
            BY <1>0, <1>3, <3>2, <3>3
        <3>5. index' = index
            BY DEF Tick
        <3> QED
            BY <1>1, <3>1, <3>2, <3>4, <3>5
    <2> QED
        BY <2>1, <2>2 DEF Kept
<1> QED
    BY <1>4, <1>5, <1>6

LEMMA KeptNext ==
    TypeOK /\ SetsAreKnown /\ SetsAreKept /\ [Next]_vars => SetsAreKept'
<1> SUFFICES ASSUME TypeOK, SetsAreKnown, SetsAreKept, [Next]_vars, Settled'
             PROVE  (/\ \A p \in Peers : LiveRecord(p)
                     /\ \A f \in Files : NothingSwept(f)
                     /\ \A p \in Peers, f \in Files : Kept(p, f))'
    BY DEF SetsAreKept
<1>0. regime' = regime
    BY DEF Next, vars, HandlerStep, LookupStep, Expiry, background, Register, Upsert,
           Unlink, Store, Link, Limit, RegisterRow, Heartbeat, Stamp, Extend, TouchRow,
           Lookup, Check, Sweep, Tick, ExpireRecord, ExpireSet, Stop, Return
<1>1. /\ Settled
      /\ \A p \in Peers : LiveRecord(p)
      /\ \A f \in Files : NothingSwept(f)
      /\ \A p \in Peers, f \in Files : Kept(p, f)
    BY <1>0 DEF Settled, RedisMayFail, SetsAreKept
<1>2. ASSUME NEW p \in Peers, Register(p) \/ Heartbeat(p) \/ HandlerStep(p)
      PROVE  (/\ \A q \in Peers : LiveRecord(q)
              /\ \A f \in Files : NothingSwept(f)
              /\ \A q \in Peers, f \in Files : Kept(q, f))'
    <2>1. LiveRecord(p)'
        BY <1>1, <1>2, LiveHandler
    <2>2. \A q \in Peers \ {p} : LiveRecord(q)'
        BY <1>1, <1>2, OthersUntouched DEF SameFor, LiveRecord
    <2>3. \A f \in Files : NothingSwept(f)'
        BY <1>1, <1>2, SweptHandler
    <2>4. \A f \in Files : Kept(p, f)'
        BY <1>1, <1>2, KeptHandler DEF SetsAreKnown
    <2>5. \A q \in Peers \ {p}, f \in Files : Kept(q, f)'
        BY <1>1, <1>2, KeptForOthers
    <2> QED
        BY <2>1, <2>2, <2>3, <2>4, <2>5
<1>3. ASSUME NEW f \in Files, LookupStep(f)
      PROVE  (/\ \A q \in Peers : LiveRecord(q)
              /\ \A g \in Files : NothingSwept(g)
              /\ \A q \in Peers, g \in Files : Kept(q, g))'
    <2>1. /\ \A g \in Files : NothingSwept(g)'
          /\ UNCHANGED <<regime, up, record, index, life, req, lapsed>>
        BY <1>1, <1>3, SweptLookup
    <2> QED
        BY <1>1, <2>1 DEF LiveRecord, Kept
<1>4. CASE Tick
    BY <1>1, <1>4, KeptTick
<1>5. ASSUME NEW p \in Peers PROVE ~ExpireRecord(p) /\ ~Stop(p) /\ ~Return(p)
    <2>1. ~ExpireRecord(p)
        BY <1>1, TTLAssumption DEF ExpireRecord, LiveRecord, TypeOK, Record, Ages
    <2>2. ~Stop(p) /\ ~Return(p)
        BY <1>1 DEF Settled, Stop, Return
    <2> QED
        BY <2>1, <2>2
<1>6. ASSUME NEW f \in Files PROVE ~ExpireSet(f)
    BY <1>1 DEF ExpireSet, NothingSwept
<1>7. CASE UNCHANGED vars
    BY <1>1, <1>7 DEF vars, LiveRecord, NothingSwept, Kept
<1> QED
    BY <1>2, <1>3, <1>4, <1>5, <1>6, <1>7 DEF Next, Expiry

\* Where peers stay and are heard in time and Redis does not fail, a peer is in
\* the set of every file it registered, at every moment between two of its
\* requests: no lookup sweeps it out, no other peer's registration takes the set
\* away, and the set does not run out before the record.
THEOREM PunctualPeersAreFound == SafeSpec => []FindableWhenPunctual
<1>1. Init => SetsAreKept
    BY TTLAssumption
       DEF Init, SetsAreKept, LiveRecord, NothingSwept, Kept, FilesOf, Idle
<1>2. Init => SetsAreKnown
    BY DEF Init, SetsAreKnown, IsKnown, Idle
<1>3. TypeOK /\ SetsAreKept => FindableWhenPunctual
    <2> SUFFICES ASSUME TypeOK, SetsAreKept, Settled, NEW p \in Peers,
                        Quiet(p), Fresh(record[p]), NEW f \in record[p].files
                 PROVE  p \in index[f]
        BY DEF FindableWhenPunctual, FindableWhenFresh
    <2>1. f \in Files /\ f \in FilesOf(record[p])
        BY DEF TypeOK, Record, Fresh, FilesOf
    <2> QED
        BY <2>1 DEF SetsAreKept, Kept, Quiet
<1> QED
    BY <1>1, <1>2, <1>3, KnownNext, KeptNext, TypeCorrect, PTL DEF SafeSpec
=============================================================================
