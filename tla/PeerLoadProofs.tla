--------------------------- MODULE PeerLoadProofs ---------------------------
(***************************************************************************)
(* Proofs about PeerLoad, for any number of requests and registrations.    *)
(*                                                                         *)
(* The invariant relates the counter to the requests in each position.     *)
(* Below, it never falls short by more than the releases that still have   *)
(* to SET it to 0; above, it never exceeds the requests under way, and it  *)
(* is that number until the key expires, when no release ever gets below   *)
(* zero.  What a registration has read is bounded in the same way for as   *)
(* long as no request comes before it is written back.                     *)
(***************************************************************************)
EXTENDS PeerLoad, FiniteSetTheorems, TLAPS

\* a value the counter may have while the requests are where they are
Covered(x) ==
    x <= Cardinality(In("active")) /\ -x <= Cardinality(In("clamping"))

LoadInv ==
    /\ TypeOK
    /\ ~raced =>
          /\ Covered(Value(load))
          /\ \A g \in Registrations : seen[g] # Absent =>
                Covered(seen[g]) /\ (~expired => seen[g] = load)
          /\ ~expired => /\ Value(load) = Cardinality(In("active"))
                         /\ Cardinality(In("clamping")) = 0

-----------------------------------------------------------------------------
\* The requests in a position are finitely many.
LEMMA InFinite ==
    ASSUME NEW state
    PROVE  IsFiniteSet(In(state)) /\ Cardinality(In(state)) \in Nat
<1>1. In(state) \subseteq Requests
    BY DEF In
<1> QED
    BY <1>1, RequestsAssumption, FS_Subset, FS_CardinalityType

\* A request that goes from one position to another leaves a set and joins one.
LEMMA Moves ==
    ASSUME TypeOK, NEW r \in Requests,
           NEW from, pc[r] = from,
           NEW to \in {"idle", "active", "clamping"}, from # to,
           Go(r, to)
    PROVE  /\ Cardinality(In(to)') = Cardinality(In(to)) + 1
           /\ Cardinality(In(from)') = Cardinality(In(from)) - 1
           /\ \A state : state # to /\ state # from => In(state)' = In(state)
<1>1. pc' = [pc EXCEPT ![r] = to] /\ pc \in [Requests -> {"idle", "active", "clamping"}]
    BY DEF TypeOK, Go
<1>2. In(to)' = In(to) \cup {r} /\ r \notin In(to)
    BY <1>1 DEF In
<1>3. In(from)' = In(from) \ {r} /\ r \in In(from)
    BY <1>1 DEF In
<1>4. \A state : state # to /\ state # from => In(state)' = In(state)
    BY <1>1 DEF In
<1>5. Cardinality(In(to)') = Cardinality(In(to)) + 1
    BY <1>2, InFinite, FS_AddElement
<1>6. Cardinality(In(from)') = Cardinality(In(from)) - 1
    BY <1>3, InFinite, FS_RemoveElement
<1> QED
    BY <1>4, <1>5, <1>6

LEMMA LoadInit == Init => LoadInv
<1> SUFFICES ASSUME Init PROVE LoadInv
    OBVIOUS
<1>1. TypeOK /\ \A g \in Registrations : seen[g] = Absent
    BY DEF Init, TypeOK
<1>2. In("active") = {} /\ In("clamping") = {}
    BY DEF Init, In
<1>3. Value(load) = 0
    BY DEF Init, Value
<1> QED
    BY <1>1, <1>2, <1>3, FS_EmptySet DEF LoadInv, Covered

\* A step of a request that ends unraced has met no registration with a value.
LEMMA Unraced ==
    ASSUME LoadInv, NEW r \in Requests, NEW to \in {"idle", "active", "clamping"},
           Go(r, to), UNCHANGED <<reg, seen, expired>>, load' \in Int,
           ~raced' => /\ load' <= Cardinality(In("active"))'
                      /\ -load' <= Cardinality(In("clamping"))',
           ~raced' /\ ~expired => /\ load' = Cardinality(In("active"))'
                                  /\ Cardinality(In("clamping"))' = 0
    PROVE  LoadInv'
<1>1. TypeOK'
    BY DEF LoadInv, TypeOK, Go
<1>2. Value(load)' = load'
    BY AbsentAssumption DEF Value
<1>3. ~raced' => \A g \in Registrations : seen'[g] = Absent
    BY DEF Go
<1> QED
    BY <1>1, <1>2, <1>3 DEF LoadInv, Covered

\* One step of any handler, or of Redis.
LEMMA LoadStep == LoadInv /\ [Next]_vars => LoadInv'
<1> SUFFICES ASSUME LoadInv, [Next]_vars PROVE LoadInv'
    OBVIOUS
<1> DEFINE active == Cardinality(In("active"))
           clamping == Cardinality(In("clamping"))
<1> USE AbsentAssumption
<1>0. /\ TypeOK
      /\ active \in Nat /\ clamping \in Nat /\ active' \in Nat /\ clamping' \in Nat
      /\ Value(load) \in Int
      /\ ~raced => /\ Value(load) <= active /\ -Value(load) <= clamping
                   /\ ~expired => Value(load) = active /\ clamping = 0
  <2>1. active' \in Nat /\ clamping' \in Nat
    <3>1. In("active")' \subseteq Requests /\ In("clamping")' \subseteq Requests
        BY DEF In
    <3> QED
        BY <3>1, RequestsAssumption, FS_Subset, FS_CardinalityType
  <2> QED
    BY <2>1, InFinite DEF LoadInv, Covered, TypeOK, Value
<1> HIDE DEF active, clamping
<1>1. ASSUME NEW r \in Requests, Reserve(r)
      PROVE  LoadInv'
  <2>1. active' = active + 1 /\ clamping' = clamping
    <3>1. pc[r] = "idle" /\ Go(r, "active")
        BY <1>1 DEF Reserve
    <3> QED
        BY <1>0, <3>1, Moves DEF active, clamping
  <2>2. load' = Value(load) + 1 /\ load' \in Int
    BY <1>0, <1>1 DEF Reserve
  <2>3. Go(r, "active") /\ UNCHANGED <<reg, seen, expired>> /\ (~raced' => ~raced)
    BY <1>1 DEF Reserve, Go
  <2>4. ~raced' => load' <= active' /\ -load' <= clamping'
    BY <1>0, <2>1, <2>2, <2>3
  <2>5. ~raced' /\ ~expired => load' = active' /\ clamping' = 0
    BY <1>0, <2>1, <2>2, <2>3
  <2> QED
    BY <2>2, <2>3, <2>4, <2>5, Unraced DEF active, clamping
<1>2. ASSUME NEW r \in Requests, Release(r)
      PROVE  LoadInv'
  <2>0. /\ load' = Value(load) - 1 /\ pc[r] = "active"
        /\ Go(r, IF load' < 0 THEN "clamping" ELSE "idle")
        /\ UNCHANGED <<reg, seen, expired>>
    BY <1>2 DEF Release
  <2>1. /\ load' = Value(load) - 1 /\ load' \in Int /\ pc[r] = "active"
        /\ Go(r, IF load' < 0 THEN "clamping" ELSE "idle")
        /\ UNCHANGED <<reg, seen, expired>> /\ (~raced' => ~raced)
    <3>1. load' \in Int
        BY <1>0, <2>0
    <3>2. ~raced' => ~raced
        BY <2>0, Zenon DEF Go
    <3> QED
        BY <2>0, <3>1, <3>2
  <2>2. CASE load' < 0
    <3>1. active' = active - 1 /\ clamping' = clamping + 1 /\ Go(r, "clamping")
        BY <1>0, <2>1, <2>2, Moves DEF active, clamping
    <3>2. ~raced' => load' <= active' /\ -load' <= clamping'
        BY <1>0, <2>1, <3>1
    <3>3. ~raced' /\ ~expired => load' = active' /\ clamping' = 0
        BY <1>0, <2>1, <2>2, <3>1
    <3> QED
        BY <2>1, <3>1, <3>2, <3>3, Unraced DEF active, clamping
  <2>3. CASE ~(load' < 0)
    <3>1. active' = active - 1 /\ clamping' = clamping /\ Go(r, "idle")
        BY <1>0, <2>1, <2>3, Moves DEF active, clamping
    <3>2. ~raced' => load' <= active' /\ -load' <= clamping'
        BY <1>0, <2>1, <2>3, <3>1
    <3>3. ~raced' /\ ~expired => load' = active' /\ clamping' = 0
        BY <1>0, <2>1, <3>1
    <3> QED
        BY <2>1, <3>1, <3>2, <3>3, Unraced DEF active, clamping
  <2> QED
    BY <2>2, <2>3
<1>3. ASSUME NEW r \in Requests, Clamp(r)
      PROVE  LoadInv'
  <2>1. active' = active /\ clamping' = clamping - 1
    <3>1. pc[r] = "clamping" /\ Go(r, "idle")
        BY <1>3 DEF Clamp
    <3> QED
        BY <1>0, <3>1, Moves DEF active, clamping
  <2>2. load' = 0 /\ Go(r, "idle") /\ UNCHANGED <<reg, seen, expired>>
        /\ (~raced' => ~raced)
    BY <1>3 DEF Clamp, Go
  <2>3. ~raced' => load' <= active' /\ -load' <= clamping'
    BY <1>0, <2>2
  <2>4. ~raced' => expired
    BY <1>0, <2>1, <2>2
  <2> QED
    BY <2>2, <2>3, <2>4, Unraced DEF active, clamping
<1>4. ASSUME NEW g \in Registrations, Read(g)
      PROVE  LoadInv'
  <2>1. /\ UNCHANGED <<load, pc, expired, raced>>
        /\ seen' = [seen EXCEPT ![g] = load]
    BY <1>4 DEF Read
  <2>2. TypeOK'
    BY <1>0, <1>4 DEF Read, TypeOK
  <2>4. In("active")' = In("active") /\ In("clamping")' = In("clamping")
    BY <2>1 DEF In
  <2>5. ASSUME ~raced, NEW h \in Registrations, seen'[h] # Absent
        PROVE  Covered(seen[h])' /\ (~expired => seen'[h] = load)
    <3>1. CASE h = g
      <4>1. seen'[h] = load /\ load # Absent /\ Value(load) = load
        BY <1>0, <2>1, <2>5, <3>1 DEF TypeOK, Value
      <4> QED
        BY <2>4, <2>5, <4>1 DEF LoadInv, Covered
    <3>2. CASE h # g
      <4>1. seen'[h] = seen[h]
        BY <1>0, <2>1, <3>2 DEF TypeOK
      <4> QED
        BY <2>4, <2>5, <4>1 DEF LoadInv, Covered
    <3> QED
        BY <3>1, <3>2
  <2>6. Covered(Value(load))' <=> Covered(Value(load))
    BY <2>1, <2>4 DEF Covered, Value
  <2> QED
    BY <2>1, <2>2, <2>4, <2>5, <2>6 DEF LoadInv, Value
<1>5. ASSUME NEW g \in Registrations, Store(g)
      PROVE  LoadInv'
  <2>1. UNCHANGED <<pc, expired, raced>> /\ seen' = [seen EXCEPT ![g] = Absent]
    BY <1>5 DEF Store
  <2>2. TypeOK'
    BY <1>0, <1>5 DEF Store, TypeOK
  <2>3. In("active")' = In("active") /\ In("clamping")' = In("clamping")
    BY <2>1 DEF In
  <2>4. \/ seen[g] # Absent /\ load' = seen[g]
        \/ Value(load)' = Value(load) /\ (load = Absent \/ load' = load)
    BY <1>5 DEF Store, Value
  <2>5. ASSUME ~raced PROVE Covered(Value(load))'
    <3>1. CASE seen[g] # Absent /\ load' = seen[g]
      BY <2>3, <2>5, <3>1 DEF LoadInv, Covered, Value
    <3>2. CASE Value(load)' = Value(load)
      BY <2>3, <2>5, <3>2 DEF LoadInv, Covered
    <3> QED
      BY <2>4, <3>1, <3>2
  <2>6. ASSUME ~raced, ~expired PROVE Value(load)' = Value(load)
    BY <2>4, <2>6 DEF LoadInv, Value
  <2>7. ASSUME ~raced, NEW h \in Registrations, seen'[h] # Absent
        PROVE  Covered(seen[h])' /\ (~expired => seen'[h] = load')
    <3>1. h # g /\ seen'[h] = seen[h]
      BY <1>0, <2>1, <2>7 DEF TypeOK
    <3>2. ~expired => seen[h] = load /\ load' = load
      BY <2>4, <2>7, <3>1 DEF LoadInv
    <3> QED
      BY <2>3, <2>7, <3>1, <3>2 DEF LoadInv, Covered
  <2> QED
    BY <2>1, <2>2, <2>3, <2>5, <2>6, <2>7 DEF LoadInv
<1>6. ASSUME Expire
      PROVE  LoadInv'
  <2>1. In("active")' = In("active") /\ In("clamping")' = In("clamping")
    BY <1>6 DEF Expire, In
  <2>2. expired' /\ Value(load)' = 0 /\ seen' = seen /\ raced' = raced
    BY <1>6 DEF Expire, Value
  <2>3. TypeOK'
    BY <1>0, <1>6 DEF Expire, TypeOK
  <2>4. Covered(Value(load))'
    BY <1>0, <2>1, <2>2 DEF Covered, active, clamping
  <2>5. ~raced => \A g \in Registrations : seen'[g] # Absent => Covered(seen[g])'
    BY <2>1, <2>2 DEF LoadInv, Covered
  <2> QED
    BY <2>2, <2>3, <2>4, <2>5 DEF LoadInv
<1>7. ASSUME UNCHANGED vars
      PROVE  LoadInv'
    BY <1>7 DEF vars, LoadInv, Covered, TypeOK, Value, In
<1> QED
    BY <1>1, <1>2, <1>3, <1>4, <1>5, <1>6, <1>7 DEF Next

-----------------------------------------------------------------------------
\* LoadInv holds in every reachable state.
THEOREM LoadInvariant == SafeSpec => []LoadInv
BY LoadInit, LoadStep, PTL DEF SafeSpec

\* Until the key expires the counter is exact (CountsActive): INCR, DECR, SETNX and
\* the copying of a counter nobody changes meanwhile, in any interleaving, count
\* the requests under way.
THEOREM CountIsExact == SafeSpec => []CountsActive
<1>1. LoadInv => CountsActive
    BY DEF LoadInv, CountsActive
<1> QED
    BY <1>1, LoadInvariant, PTL

\* A key that expires, and one that a registration brings back, never make the
\* tracker count too many (NeverOverCounts).
THEOREM NoPhantomLoad == SafeSpec => []NeverOverCounts
<1>1. LoadInv => NeverOverCounts
    BY DEF LoadInv, Covered, NeverOverCounts
<1> QED
    BY <1>1, LoadInvariant, PTL

\* A negative counter is covered by the releases that still have to SET it to 0
\* (NegativeIsBeingClamped).
THEOREM NegativeIsCovered == SafeSpec => []NegativeIsBeingClamped
<1>1. LoadInv => NegativeIsBeingClamped
    BY DEF LoadInv, Covered, NegativeIsBeingClamped
<1> QED
    BY <1>1, LoadInvariant, PTL
=============================================================================
