------------------------- MODULE ConnectionPoolProofs -------------------------
(***************************************************************************)
(* Proofs about the connection pool, for every number of threads, every    *)
(* pool size and every number of failures of the factory.                  *)
(***************************************************************************)
EXTENDS ConnectionPool, FiniteSetTheorems, TLAPS

IInv == TypeOK /\ ConnectionsBounded

\* The threads that hold a connection are finitely many.
LEMMA InUseFinite == IsFiniteSet(InUse) /\ Cardinality(InUse) \in Nat
  <1>1. InUse \subseteq Clients
    BY DEF InUse
  <1>2. IsFiniteSet(InUse)
    BY <1>1, PoolAssumption, FS_Subset
  <1>3. QED
    BY <1>2, FS_CardinalityType

\* A thread that gets a connection is counted once more.
LEMMA StartsUsing ==
  ASSUME TypeOK, NEW c \in Clients, pc[c] \notin {"using", "retiring"},
         Goto(c, "using")
  PROVE  Cardinality(InUse') = Cardinality(InUse) + 1
  <1>1. InUse' = InUse \cup {c} /\ c \notin InUse
    BY DEF TypeOK, Goto, InUse
  <1>2. QED
    BY <1>1, InUseFinite, FS_AddElement

\* A thread that gives its connection up is counted no more.
LEMMA StopsUsing ==
  ASSUME TypeOK, NEW c \in Clients, pc[c] \in {"using", "retiring"},
         Goto(c, "idle")
  PROVE  Cardinality(InUse') = Cardinality(InUse) - 1
  <1>1. InUse' = InUse \ {c} /\ c \in InUse
    BY DEF TypeOK, Goto, InUse
  <1>2. QED
    BY <1>1, InUseFinite, FS_RemoveElement

\* Moves between places that are alike leave the count alone.
LEMMA UsingUnchanged ==
  ASSUME TypeOK, NEW c \in Clients, NEW place,
         Goto(c, place),
         pc[c] \in {"using", "retiring"} <=> place \in {"using", "retiring"}
  PROVE  InUse' = InUse
  BY DEF TypeOK, Goto, InUse

\* The type invariant and the bound on the connections are inductive together.
THEOREM InvariantHolds == Spec => []IInv
  <1>1. Init => IInv
    <2> SUFFICES ASSUME Init PROVE IInv
      OBVIOUS
    <2>1. TypeOK
      BY PoolAssumption DEF Init, TypeOK, Places
    <2>2. InUse = {}
      BY DEF Init, InUse
    <2>3. QED
      BY <2>1, <2>2, FS_EmptySet, PoolAssumption DEF IInv, ConnectionsBounded, Init
  <1>2. IInv /\ [Next]_vars => IInv'
    <2> SUFFICES ASSUME IInv, [Next]_vars PROVE IInv'
      OBVIOUS
    <2>0. /\ TypeOK /\ ConnectionsBounded
          /\ free \in Nat /\ created \in Nat /\ PoolSize \in Nat
          /\ Cardinality(InUse) \in Nat
      BY InUseFinite, PoolAssumption DEF IInv, TypeOK
    <2>1. ASSUME NEW c \in Clients, GetNowait(c) \/ GetWait(c)
          PROVE  IInv'
      <3>1. Cardinality(InUse') = Cardinality(InUse) + 1
        BY <2>0, <2>1, StartsUsing DEF GetNowait, GetWait
      <3>2. TypeOK' /\ free' = free - 1 /\ created' = created
        BY <2>0, <2>1 DEF GetNowait, GetWait, Goto, TypeOK, Places
      <3>3. QED
        BY <2>0, <3>1, <3>2 DEF IInv, ConnectionsBounded
    <2>2. ASSUME NEW c \in Clients, QueueEmpty(c) \/ PoolExhausted(c)
          PROVE  IInv'
      <3>1. InUse' = InUse
        BY <2>0, <2>2, UsingUnchanged DEF QueueEmpty, PoolExhausted
      <3>2. TypeOK' /\ free' = free /\ created' = created
        BY <2>0, <2>2 DEF QueueEmpty, PoolExhausted, Goto, TypeOK, Places
      <3>3. QED
        BY <2>0, <3>1, <3>2 DEF IInv, ConnectionsBounded
    <2>3. ASSUME NEW c \in Clients, Grow(c)
          PROVE  IInv'
      <3>1. Cardinality(InUse') = Cardinality(InUse) + 1
        BY <2>0, <2>3, StartsUsing DEF Grow
      <3>2. /\ TypeOK' /\ free' = free
            /\ created' = created + 1 /\ created < PoolSize
        BY <2>0, <2>3 DEF Grow, FactoryWorks, Goto, TypeOK, Places
      <3>3. QED
        BY <2>0, <3>1, <3>2 DEF IInv, ConnectionsBounded
    <2>4. ASSUME NEW c \in Clients, GrowFails(c)
          PROVE  IInv'
      <3>1. InUse' = InUse
        BY <2>0, <2>4, UsingUnchanged DEF GrowFails
      <3>2. /\ TypeOK' /\ free' = free
            /\ created' = created + 1 /\ created < PoolSize
        BY <2>0, <2>4, PoolAssumption
           DEF GrowFails, FactoryFails, Goto, TypeOK, Places
      <3>3. QED
        BY <2>0, <3>1, <3>2 DEF IInv, ConnectionsBounded
    <2>5. ASSUME NEW c \in Clients, Release(c)
          PROVE  IInv'
      <3>1. Cardinality(InUse') = Cardinality(InUse) - 1
        BY <2>0, <2>5, StopsUsing DEF Release
      <3>2. TypeOK' /\ free' = free + 1 /\ created' = created
        BY <2>0, <2>5 DEF Release, Goto, TypeOK, Places
      <3>3. QED
        BY <2>0, <3>1, <3>2 DEF IInv, ConnectionsBounded
    <2>6. ASSUME NEW c \in Clients, CloseConnection(c)
          PROVE  IInv'
      <3>1. InUse' = InUse
        BY <2>0, <2>6, UsingUnchanged DEF CloseConnection
      <3>2. TypeOK' /\ free' = free /\ created' = created
        BY <2>0, <2>6 DEF CloseConnection, Goto, TypeOK, Places
      <3>3. QED
        BY <2>0, <3>1, <3>2 DEF IInv, ConnectionsBounded
    <2>7. ASSUME NEW c \in Clients, Replenish(c)
          PROVE  IInv'
      <3>1. Cardinality(InUse') = Cardinality(InUse) - 1
        BY <2>0, <2>7, StopsUsing DEF Replenish
      <3>2. TypeOK' /\ free' \in Nat /\ free' <= free + 1 /\ created' = created
        BY <2>0, <2>7 DEF Replenish, HasRoom, FactoryWorks, Goto, TypeOK, Places
      <3>3. QED
        BY <2>0, <3>1, <3>2 DEF IInv, ConnectionsBounded
    <2>8. ASSUME NEW c \in Clients, ReplenishFails(c)
          PROVE  IInv'
      <3>1. Cardinality(InUse') = Cardinality(InUse) - 1
        BY <2>0, <2>8, StopsUsing DEF ReplenishFails
      <3>2. created >= 1
        <4>1. c \in InUse
          BY <2>8 DEF ReplenishFails, InUse
        <4>2. Cardinality(InUse) # 0
          BY <4>1, InUseFinite, FS_EmptySet
        <4>3. QED
          BY <2>0, <4>2 DEF ConnectionsBounded
      <3>3. TypeOK' /\ free' = free /\ created' = created - 1
        BY <2>0, <2>8, <3>2, PoolAssumption
           DEF ReplenishFails, FactoryFails, Goto, TypeOK, Places
      <3>4. QED
        BY <2>0, <3>1, <3>3 DEF IInv, ConnectionsBounded
    <2>9. CASE UNCHANGED vars
      BY <2>0, <2>9 DEF vars, IInv, TypeOK, ConnectionsBounded, InUse
    <2>10. QED
      BY <2>1, <2>2, <2>3, <2>4, <2>5, <2>6, <2>7, <2>8, <2>9
         DEF Next, Acquire, Finish
  <1>3. QED
    BY <1>1, <1>2, PTL DEF Spec

\* The fields of the pool keep their types (the counter is never negative).
THEOREM TypeCorrect == Spec => []TypeOK
  <1>1. IInv => TypeOK
    BY DEF IInv
  <1>2. QED
    BY <1>1, InvariantHolds, PTL

\* There are never more connections than pool_size.
THEOREM PoolIsBounded == Spec => []ConnectionsBounded
  <1>1. IInv => ConnectionsBounded
    BY DEF IInv
  <1>2. QED
    BY <1>1, InvariantHolds, PTL
=============================================================================
