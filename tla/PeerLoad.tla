------------------------------ MODULE PeerLoad ------------------------------
(***************************************************************************)
(* The load counter the tracker keeps for one peer (service/store.go): the *)
(* Redis key peer:<peerId>:load, raised before a chunk is requested from   *)
(* the peer and lowered afterwards, by workers anywhere in the network.    *)
(* Reserving is one INCR.  Releasing is a DECR and, if the counter went    *)
(* below zero, a SET to 0.  A registration of the peer copies the counter  *)
(* with a GET and a SET to give it a new time to live.  Redis drops a key  *)
(* that nobody touched for peerRecordTTL, during a long transfer too.      *)
(*                                                                         *)
(* Each Redis command is a step.  The EXPIRE that follows a command, and   *)
(* the heartbeat's, only put the key's expiry off; they are left out       *)
(* because Expire may come at any time.                                    *)
(***************************************************************************)
EXTENDS Integers, FiniteSets

CONSTANTS
    Requests,           \* chunk requests that may be under way at once
    Registrations,      \* registrations of the peer, one after or beside the other
    Absent              \* no key; no value read

ASSUME RequestsAssumption == IsFiniteSet(Requests)
ASSUME AbsentAssumption == Absent \notin Int

VARIABLES
    load,               \* value of the key, or Absent
    pc,                 \* "idle", "active" between reserve and release, "clamping"
    reg, seen,          \* each registration: position, value of its GET
    expired,            \* history: the key has reached its time to live
    raced               \* history: a request came between a GET and its SET

vars == <<load, pc, reg, seen, expired, raced>>

\* INCR and DECR start from 0 if there is no key
Value(x) == IF x = Absent THEN 0 ELSE x
\* getPeerLoad: what peers are sorted by, and /load/status reports
Reported == IF Value(load) < 0 THEN 0 ELSE Value(load)

In(state) == {r \in Requests : pc[r] = state}

Init ==
    /\ load = Absent
    /\ pc = [r \in Requests |-> "idle"]
    /\ reg = [g \in Registrations |-> "idle"]
    /\ seen = [g \in Registrations |-> Absent]
    /\ expired = FALSE /\ raced = FALSE

\* A request changes the counter, and its position.  A registration that has read
\* the counter will write the old value over the new one.
Go(r, state) ==
    /\ pc' = [pc EXCEPT ![r] = state]
    /\ raced' = (raced \/ \E g \in Registrations : seen[g] # Absent)

-----------------------------------------------------------------------------
\* reservePeerLoad: INCR
Reserve(r) ==
    /\ pc[r] = "idle"
    /\ load' = Value(load) + 1
    /\ Go(r, "active")
    /\ UNCHANGED <<reg, seen, expired>>

\* Definitions whose name starts with Bad are not the code: each is a plausible
\* slip in the definition that follows it, which some property has to notice.

\* a counter below zero is not put right
BadRelease(r) ==
    /\ pc[r] = "active"
    /\ load' = Value(load) - 1
    /\ Go(r, "idle")
    /\ UNCHANGED <<reg, seen, expired>>

\* releasePeerLoad: DECR
Release(r) ==
    /\ pc[r] = "active"
    /\ load' = Value(load) - 1
    /\ Go(r, IF load' < 0 THEN "clamping" ELSE "idle")
    /\ UNCHANGED <<reg, seen, expired>>

\* the clamp takes back this request's own DECR instead of setting 0
BadClamp(r) ==
    /\ pc[r] = "clamping"
    /\ load' = Value(load) + 1
    /\ Go(r, "idle")
    /\ UNCHANGED <<reg, seen, expired>>

\* releasePeerLoad: SET to 0, whatever the counter has become
Clamp(r) ==
    /\ pc[r] = "clamping"
    /\ load' = 0
    /\ Go(r, "idle")
    /\ UNCHANGED <<reg, seen, expired>>

\* upsertPeer: GET
Read(g) ==
    /\ reg[g] = "idle"
    /\ seen' = [seen EXCEPT ![g] = load]
    /\ reg' = [reg EXCEPT ![g] = "storing"]
    /\ UNCHANGED <<load, pc, expired, raced>>

\* the first counter is written with SET
BadStore(g) ==
    /\ reg[g] = "storing"
    /\ load' = Value(seen[g])
    /\ reg' = [reg EXCEPT ![g] = "done"]
    /\ seen' = [seen EXCEPT ![g] = Absent]
    /\ UNCHANGED <<pc, expired, raced>>

\* upsertPeer: SET of the value read, or SETNX of 0 if there was none
Store(g) ==
    /\ reg[g] = "storing"
    /\ load' = IF seen[g] # Absent THEN seen[g]
               ELSE IF load = Absent THEN 0 ELSE load
    /\ reg' = [reg EXCEPT ![g] = "done"]
    /\ seen' = [seen EXCEPT ![g] = Absent]
    /\ UNCHANGED <<pc, expired, raced>>

\* Redis drops the key
Expire ==
    /\ load # Absent
    /\ load' = Absent
    /\ expired' = TRUE
    /\ UNCHANGED <<pc, reg, seen, raced>>

-----------------------------------------------------------------------------
Next ==
    \/ \E r \in Requests : Reserve(r) \/ Release(r) \/ Clamp(r)
    \/ \E g \in Registrations : Read(g) \/ Store(g)
    \/ Expire

SafeSpec == Init /\ [][Next]_vars

-----------------------------------------------------------------------------
(* Properties *)

\* Types of the key and of the handlers' locals.
TypeOK ==
    /\ load \in Int \cup {Absent}
    /\ pc \in [Requests -> {"idle", "active", "clamping"}]
    /\ reg \in [Registrations -> {"idle", "storing", "done"}]
    /\ seen \in [Registrations -> Int \cup {Absent}]
    /\ {expired, raced} \subseteq BOOLEAN

\* Until the key expires, the counter is the number of requests under way, also
\* when the peer registers, for the first time or again, while it is being asked;
\* unless a request comes between the GET and the SET of a registration that has
\* found a counter: with one that finds none, it may.
CountsActive == ~expired /\ ~raced => Value(load) = Cardinality(In("active"))

\* A key that expires during transfers may make the tracker count too few
\* requests, but, with the same exception, it never leaves load on a peer that
\* nobody uses: releases that come late, the SET to 0 that other requests can
\* overtake, and the SET of a registration that brings the key back, included.
NeverOverCounts == ~raced => Value(load) <= Cardinality(In("active"))

\* A counter below zero is on its way to being put right: every unit is covered
\* by a release that has yet to SET it to 0, so it cannot stay and swallow later
\* reservations; with the same exception.
NegativeIsBeingClamped == ~raced => -Value(load) <= Cardinality(In("clamping"))

\* handlers.go:449 calls the counter "activeRequests", and store.go:115 has a
\* registration "store curr load on peer": when nothing is under way it is 0.
IdlePeerHasNoLoad ==
    In("idle") = Requests /\ (\A g \in Registrations : reg[g] # "storing")
        => Reported = 0
=============================================================================
