--------------------------- MODULE DispatchQueue ---------------------------
(***************************************************************************)
(* The bounded, resource-aware admission queue of agentix-core             *)
(* (crates/agentix-core/src/dispatch.rs), shared by the application        *)
(* runtimes.  Work is admitted in order, its scope is resolved again on    *)
(* every scan from the current routing snapshot, and a dispatched          *)
(* operation keeps the scope it was dispatched with until it finishes.     *)
(*                                                                         *)
(* Abstractions.  A work item stands for one admitted operation and for    *)
(* the DispatchId it gets: an item is in the queue at most once at a time, *)
(* and may be admitted again once it has finished.  `route' is the answer  *)
(* of the scope closure; Reroute is the rest of the application changing   *)
(* that answer.  Timestamps and statistics are left out.                   *)
(***************************************************************************)
EXTENDS Naturals, Sequences, FiniteSets, FiniteSetTheorems, TLAPS

CONSTANTS
    Work,           \* operations an application may submit
    Keys,           \* resources operations are ordered by
    Routings,       \* the answers routing may give: a scope for each operation
    Capacity,       \* bound on pending plus active operations
    Concurrency,    \* bound on active operations
    MaxReroutes     \* bound on routing changes in a behaviour

\* A scope is Keys(ks), Access{shared, exclusive} or Global.
Scopes == [global : BOOLEAN, shared : SUBSET Keys, exclusive : SUBSET Keys]
KeysScope(ks) == [global |-> FALSE, shared |-> {}, exclusive |-> ks]
Access(rs, ws) == [global |-> FALSE, shared |-> rs, exclusive |-> ws]
Global == [global |-> TRUE, shared |-> {}, exclusive |-> {}]

ASSUME LimitsPositive == /\ Capacity \in Nat \ {0}
                         /\ Concurrency \in Nat \ {0}
ASSUME RoutingsGiveScopes == Routings \subseteq [Work -> Scopes]
ASSUME ReroutesNat == MaxReroutes \in Nat

VARIABLES
    pending,    \* admitted operations not yet dispatched, oldest first
    active,     \* the operations being executed
    held,       \* the scope each active operation was dispatched with
    route,      \* the scope the current routing snapshot gives an operation
    reroutes    \* routing changes so far

vars == <<pending, active, held, route, reroutes>>

Pending == {pending[i] : i \in 1..Len(pending)}

Init ==
    /\ pending = <<>>
    /\ active = {}
    /\ held = [w \in Work |-> Global]
    /\ route \in Routings
    /\ reroutes = 0

----------------------------------------------------------------------------
\* Mutant: forgets the active operations in the capacity test.
IsFullPendingOnly == Len(pending) >= Capacity

IsFull == Len(pending) + Cardinality(active) >= Capacity

\* Admission: a full queue returns the work to its caller, which changes nothing.
TryPush(w) ==
    /\ w \notin active
    /\ w \notin Pending
    /\ ~IsFull
    /\ pending' = Append(pending, w)
    /\ UNCHANGED <<active, held, route, reroutes>>

\* The keys a scan has collected when it comes to index i: those of the active
\* operations and those of every earlier operation it had to leave waiting.
ReadersBefore(i) ==
    UNION ({held[w].shared : w \in active}
             \cup {route[pending[j]].shared : j \in 1..(i - 1)})
\* Mutant: a blocked operation does not reserve its keys against later work.
WritersOfActive(i) == UNION {held[w].exclusive : w \in active}

WritersBefore(i) ==
    UNION ({held[w].exclusive : w \in active}
             \cup {route[pending[j]].exclusive : j \in 1..(i - 1)})

\* Mutant: lets a reader in beside a writer that holds or awaits the resource.
BlockedIgnoresWriters(i) ==
    route[pending[i]].exclusive \cap (ReadersBefore(i) \cup WritersBefore(i)) # {}

Blocked(i) ==
    LET s == route[pending[i]]
    IN  \/ s.shared \cap WritersBefore(i) # {}
        \/ s.exclusive \cap (ReadersBefore(i) \cup WritersBefore(i)) # {}

\* Mutant: a global operation is skipped instead of ending the scan.
ReachedPastGlobal(i) ==
    \A j \in 1..(i - 1) : route[pending[j]].global \/ Blocked(j)

\* The scan passes blocked operations and stops at the first global one.
Reached(i) == \A j \in 1..(i - 1) : ~route[pending[j]].global /\ Blocked(j)

Runs(i) ==
    /\ Reached(i)
    /\ IF route[pending[i]].global THEN active = {} /\ i = 1 ELSE ~Blocked(i)

\* Mutant: the dispatched operation stays in the pending queue.
RemoveAtNothing(i) == pending

RemoveAt(i) ==
    [k \in 1..(Len(pending) - 1) |-> IF k < i THEN pending[k] ELSE pending[k + 1]]

NextReady ==
    /\ Cardinality(active) < Concurrency
    /\ \A w \in active : ~held[w].global
    /\ \E i \in 1..Len(pending) :
          /\ Runs(i)
          /\ active' = active \cup {pending[i]}
          /\ held' = [held EXCEPT ![pending[i]] = route[pending[i]]]
          /\ pending' = RemoveAt(i)
    /\ UNCHANGED <<route, reroutes>>

\* The worker has stopped: its reservation is released.
Finish(w) ==
    /\ w \in active
    /\ active' = active \ {w}
    /\ held' = [held EXCEPT ![w] = Global]
    /\ UNCHANGED <<pending, route, reroutes>>

\* The application's routing state changes while work waits or runs: the next
\* snapshot may give any number of operations another scope.
Reroute ==
    /\ reroutes < MaxReroutes
    /\ route' \in Routings
    /\ reroutes' = reroutes + 1
    /\ UNCHANGED <<pending, active, held>>

Next ==
    \/ \E w \in Work : TryPush(w)
    \/ NextReady
    \/ \E w \in Work : Finish(w)
    \/ Reroute

\* The runtime scans on every turn of its loop and every worker ends, in
\* success, failure or panic; nobody is obliged to submit or to reroute.
Fairness == WF_vars(NextReady) /\ \A w \in Work : WF_vars(Finish(w))

Spec == Init /\ [][Next]_vars
FairSpec == Spec /\ Fairness

----------------------------------------------------------------------------
\* Two scopes that may not be held at once: either is global, or one writes
\* what the other reads or writes.
Conflict(s, t) ==
    \/ s.global
    \/ t.global
    \/ s.exclusive \cap (t.shared \cup t.exclusive) # {}
    \/ s.shared \cap t.exclusive # {}

\* An operation is in the queue once, waiting or active.
HeldOnce ==
    /\ \A i, j \in 1..Len(pending) : pending[i] = pending[j] => i = j
    /\ Pending \cap active = {}

\* Types, and the single place of every operation: next_ready moves it from the
\* pending queue to the active set.
TypeOK ==
    /\ HeldOnce
    /\ pending \in Seq(Work)
    /\ active \in SUBSET Work
    /\ held \in [Work -> Scopes]
    /\ route \in Routings
    /\ reroutes \in 0..MaxReroutes

\* DispatchQueue bounds pending plus active work by its capacity and active
\* work by its concurrency at all times.
WithinBounds ==
    /\ Cardinality(active) <= Concurrency
    /\ Len(pending) + Cardinality(active) <= Capacity

\* Two operations being executed never hold conflicting scopes, whatever
\* routing did since they were dispatched; a global one runs alone.
Exclusion ==
    \A v, w \in active : v # w => ~Conflict(held[v], held[w])

\* A dispatched operation never overtakes one that was admitted earlier, is
\* still waiting, and conflicts with it under the routing of that scan.
NoOvertakingStep ==
    \A i, j \in 1..Len(pending) :
        (i < j /\ pending[j] \in active')
            => ~Conflict(route[pending[i]], route[pending[j]])
NoOvertaking == [][NoOvertakingStep]_vars

\* The code's promise that a multi-resource or global operation cannot starve:
\* every admitted operation is eventually dispatched, however much unrelated or
\* conflicting work keeps arriving behind it.
Dispatched == \A w \in Work : (w \in Pending) ~> (w \in active)

----------------------------------------------------------------------------
(* The bounds and the mutual exclusion, for every set of operations and *)
(* keys, every routing and every capacity and concurrency.              *)

\* The inductive invariant: the bounds need the active set to be finite.
IInv == /\ TypeOK
        /\ IsFiniteSet(active)
        /\ WithinBounds
        /\ Exclusion

----------------------------------------------------------------------------
\* Removing index i from the pending queue (VecDeque::remove in next_ready)
\* keeps the order of the others and drops exactly one element.
LEMMA RemoveAtFacts ==
    ASSUME pending \in Seq(Work), NEW i \in 1..Len(pending)
    PROVE  /\ RemoveAt(i) \in Seq(Work)
           /\ Len(RemoveAt(i)) = Len(pending) - 1
           /\ \A k \in 1..(Len(pending) - 1) :
                 RemoveAt(i)[k] = IF k < i THEN pending[k] ELSE pending[k + 1]
<1> DEFINE r == RemoveAt(i)
           n == Len(pending) - 1
<1>1. n \in Nat
  OBVIOUS
<1>2. \A k \in 1..n : r[k] = IF k < i THEN pending[k] ELSE pending[k + 1]
  BY DEF RemoveAt
<1>3. \A k \in 1..n : r[k] \in Work
  BY <1>2, <1>1
<1>4. r \in [1..n -> Work]
  BY <1>3 DEF RemoveAt
<1>5. r \in Seq(Work) /\ Len(r) = n
  BY <1>1, <1>4
<1> QED
  BY <1>2, <1>5

\* An operation the scan picks conflicts with no active operation, and with no
\* operation admitted before it: those are the keys the scan collected.
LEMMA RunsIsConflictFree ==
    ASSUME TypeOK, NEW i \in 1..Len(pending), Runs(i),
           \A w \in active : ~held[w].global
    PROVE  /\ \A w \in active : ~Conflict(route[pending[i]], held[w])
           /\ \A j \in 1..(i - 1) : ~Conflict(route[pending[i]], route[pending[j]])
<1> DEFINE s == route[pending[i]]
<1>1. pending[i] \in Work /\ s \in Scopes
  BY RoutingsGiveScopes DEF TypeOK
<1>2. \A j \in 1..(i - 1) : pending[j] \in Work /\ ~route[pending[j]].global
  BY DEF TypeOK, Runs, Reached
<1>3. CASE s.global
  <2>1. active = {} /\ i = 1
    BY <1>3 DEF Runs
  <2> QED
    BY <2>1
<1>4. CASE ~s.global
  <2>1. ~Blocked(i)
    BY <1>4 DEF Runs
  <2>2. ASSUME NEW w \in active PROVE ~Conflict(s, held[w])
    <3>1. held[w].shared \subseteq ReadersBefore(i)
      BY DEF ReadersBefore
    <3>2. held[w].exclusive \subseteq WritersBefore(i)
      BY DEF WritersBefore
    <3> QED
      BY <1>4, <2>1, <3>1, <3>2 DEF Blocked, Conflict
  <2>3. ASSUME NEW j \in 1..(i - 1) PROVE ~Conflict(s, route[pending[j]])
    <3>1. route[pending[j]].shared \subseteq ReadersBefore(i)
      BY DEF ReadersBefore
    <3>2. route[pending[j]].exclusive \subseteq WritersBefore(i)
      BY DEF WritersBefore
    <3> QED
      BY <1>2, <1>4, <2>1, <3>1, <3>2 DEF Blocked, Conflict
  <2> QED
    BY <2>2, <2>3
<1> QED
  BY <1>3, <1>4

\* Conflict is symmetric: who was dispatched first does not matter.
LEMMA ConflictSymmetric ==
    ASSUME NEW s \in Scopes, NEW t \in Scopes
    PROVE  Conflict(s, t) <=> Conflict(t, s)
  BY DEF Conflict, Scopes

----------------------------------------------------------------------------
\* DispatchQueue::new: an empty queue satisfies the invariant.
LEMMA InitEstablishes == Init => IInv
<1> SUFFICES ASSUME Init PROVE IInv
  OBVIOUS
<1>1. IsFiniteSet(active) /\ Cardinality(active) = 0
  BY FS_EmptySet DEF Init
<1>2. TypeOK
  BY ReroutesNat DEF Init, TypeOK, HeldOnce, Pending, Scopes, Global
<1>3. WithinBounds
  BY <1>1, LimitsPositive DEF Init, WithinBounds
<1>4. Exclusion
  BY DEF Init, Exclusion
<1> QED
  BY <1>1, <1>2, <1>3, <1>4 DEF IInv

\* try_push, next_ready, finish and a change of routing each keep the invariant.
LEMMA StepPreserves == IInv /\ [Next]_vars => IInv'
<1> SUFFICES ASSUME IInv, [Next]_vars PROVE IInv'
  OBVIOUS
<1> USE DEF IInv
<1>0. Cardinality(active) \in Nat
  BY FS_CardinalityType
<1>1. ASSUME NEW w \in Work, TryPush(w) PROVE IInv'
  <2>1. /\ pending' \in Seq(Work)
        /\ Len(pending') = Len(pending) + 1
        /\ \A k \in 1..Len(pending) : pending'[k] = pending[k]
        /\ pending'[Len(pending) + 1] = w
    BY <1>1 DEF TryPush, TypeOK
  <2>3. \A k \in 1..Len(pending) : pending[k] # w
    BY <1>1 DEF TryPush, Pending
  <2>4. \A i, j \in 1..Len(pending') : pending'[i] = pending'[j] => i = j
    <3> SUFFICES ASSUME NEW i \in 1..Len(pending'), NEW j \in 1..Len(pending'),
                        pending'[i] = pending'[j]
                 PROVE  i = j
      OBVIOUS
    <3>1. Len(pending) \in Nat
      BY DEF TypeOK
    <3> QED
      BY SMTT(30), <2>1, <2>3, <3>1 DEF TypeOK, HeldOnce
  <2>5. (Pending \cap active = {})'
    <3> SUFFICES ASSUME NEW k \in 1..Len(pending') PROVE pending'[k] \notin active'
      BY DEF Pending
    <3>1. Len(pending) \in Nat
      BY DEF TypeOK
    <3> QED
      BY <1>1, <2>1, <3>1 DEF TryPush, TypeOK, HeldOnce, Pending
  <2>6. WithinBounds'
    <3>1. Len(pending) \in Nat
      BY DEF TypeOK
    <3>2. (Cardinality(active) <= Concurrency)'
      BY <1>1 DEF TryPush, WithinBounds
    <3>3. (Len(pending) + Cardinality(active) <= Capacity)'
      BY <1>0, <1>1, <2>1, <3>1, LimitsPositive DEF TryPush, IsFull
    <3> QED
      BY <3>2, <3>3 DEF WithinBounds
  <2>7. Exclusion'
    BY <1>1 DEF TryPush, Exclusion
  <2>8. TypeOK' /\ IsFiniteSet(active)'
    BY <1>1, <2>1, <2>4, <2>5 DEF TryPush, TypeOK, HeldOnce
  <2> QED
    BY <2>6, <2>7, <2>8
<1>2. ASSUME NextReady PROVE IInv'
  <2>1. PICK i \in 1..Len(pending) :
          /\ Runs(i)
          /\ active' = active \cup {pending[i]}
          /\ held' = [held EXCEPT ![pending[i]] = route[pending[i]]]
          /\ pending' = RemoveAt(i)
    BY <1>2 DEF NextReady
  <2> DEFINE w == pending[i]
  <2>2. /\ pending' \in Seq(Work)
        /\ Len(pending') = Len(pending) - 1
        /\ \A k \in 1..(Len(pending) - 1) :
              pending'[k] = IF k < i THEN pending[k] ELSE pending[k + 1]
    BY <2>1, RemoveAtFacts DEF TypeOK
  <2>3. w \in Work /\ Len(pending) \in Nat \ {0} /\ i \in Nat
    BY DEF TypeOK
  <2>4. w \notin active
    BY DEF TypeOK, HeldOnce, Pending
  <2>5. IsFiniteSet(active') /\ Cardinality(active') = Cardinality(active) + 1
    BY <2>1, <2>4, FS_AddElement
  <2>7. \A k, m \in 1..Len(pending') : pending'[k] = pending'[m] => k = m
    <3> SUFFICES ASSUME NEW k \in 1..Len(pending'), NEW m \in 1..Len(pending'),
                        pending'[k] = pending'[m]
                 PROVE  k = m
      OBVIOUS
    <3> QED
      BY SMTT(30), <2>2, <2>3 DEF TypeOK, HeldOnce
  <2>8. (Pending \cap active = {})'
    <3> SUFFICES ASSUME NEW k \in 1..Len(pending') PROVE pending'[k] \notin active'
      BY DEF Pending
    <3>1. PICK m \in 1..Len(pending) : m # i /\ pending'[k] = pending[m]
      BY <2>2, <2>3
    <3>2. pending[m] # w
      BY <3>1 DEF TypeOK, HeldOnce
    <3>3. pending[m] \notin active
      BY DEF TypeOK, HeldOnce, Pending
    <3> QED
      BY <2>1, <3>1, <3>2, <3>3
  <2>9. WithinBounds'
    <3>1. (Cardinality(active) <= Concurrency)'
      BY <1>0, <1>2, <2>5, LimitsPositive DEF NextReady
    <3>2. (Len(pending) + Cardinality(active) <= Capacity)'
      BY <1>0, <2>2, <2>3, <2>5, LimitsPositive DEF WithinBounds
    <3> QED
      BY <3>1, <3>2 DEF WithinBounds
  <2>10. \A v \in active : ~Conflict(route[w], held[v])
    BY <1>2, <2>1, RunsIsConflictFree DEF NextReady
  <2>11. \A v \in active : held'[v] = held[v] /\ held[v] \in Scopes
    BY <2>1, <2>4 DEF TypeOK
  <2>12. held'[w] = route[w] /\ route[w] \in Scopes
    BY RoutingsGiveScopes, <2>1, <2>3 DEF TypeOK
  <2>13. Exclusion'
    <3> SUFFICES ASSUME NEW u \in active', NEW v \in active', u # v
                 PROVE  ~Conflict(held'[u], held'[v])
      BY DEF Exclusion
    <3>1. CASE u \in active /\ v \in active
      BY <2>11, <3>1 DEF Exclusion
    <3>2. CASE u = w
      <4>1. v \in active
        BY <2>1, <3>2
      <4> QED
        BY <2>10, <2>11, <2>12, <3>2, <4>1
    <3>3. CASE v = w
      <4>1. u \in active
        BY <2>1, <3>3
      <4> QED
        BY <2>10, <2>11, <2>12, <3>3, <4>1, ConflictSymmetric
    <3> QED
      BY <2>1, <3>1, <3>2, <3>3
  <2>14. TypeOK'
    BY RoutingsGiveScopes, <1>2, <2>1, <2>2, <2>3, <2>7, <2>8 DEF NextReady, TypeOK, HeldOnce
  <2> QED
    BY <2>5, <2>9, <2>13, <2>14
<1>3. ASSUME NEW w \in Work, Finish(w) PROVE IInv'
  <2>1. IsFiniteSet(active') /\ Cardinality(active') = Cardinality(active) - 1
    BY <1>3, FS_RemoveElement DEF Finish
  <2>2. TypeOK'
    <3>1. HeldOnce'
      BY <1>3 DEF Finish, TypeOK, HeldOnce, Pending
    <3> QED
      BY <1>3, <3>1 DEF Finish, TypeOK, Scopes, Global
  <2>3. WithinBounds'
    <3>1. Len(pending) \in Nat
      BY DEF TypeOK
    <3>2. (Cardinality(active) <= Concurrency)'
      BY <1>0, <2>1, LimitsPositive DEF WithinBounds
    <3>3. (Len(pending) + Cardinality(active) <= Capacity)'
      BY <1>0, <1>3, <2>1, <3>1, LimitsPositive DEF WithinBounds, Finish
    <3> QED
      BY <3>2, <3>3 DEF WithinBounds
  <2>4. Exclusion'
    <3>1. \A v \in active' : v \in active /\ held'[v] = held[v]
      BY <1>3 DEF Finish, TypeOK
    <3> QED
      BY <3>1 DEF Exclusion
  <2> QED
    BY <2>1, <2>2, <2>3, <2>4
<1>4. CASE Reroute
  <2>1. TypeOK'
    <3>1. HeldOnce'
      BY <1>4 DEF Reroute, TypeOK, HeldOnce, Pending
    <3> QED
      BY <1>4, <3>1, ReroutesNat DEF Reroute, TypeOK
  <2>2. WithinBounds' /\ Exclusion' /\ IsFiniteSet(active)'
    BY <1>4 DEF Reroute, WithinBounds, Exclusion
  <2> QED
    BY <2>1, <2>2
<1>5. CASE UNCHANGED vars
  BY <1>5 DEF vars, TypeOK, HeldOnce, WithinBounds, Pending, Exclusion
<1> QED
  BY <1>1, <1>2, <1>3, <1>4, <1>5 DEF Next

\* Every reachable state is well typed and satisfies the inductive invariant.
LEMMA Inductive == Spec => []IInv
<1>1. Init => IInv
  BY InitEstablishes
<1>2. IInv /\ [Next]_vars => IInv'
  BY StepPreserves
<1> QED
  BY <1>1, <1>2, PTL DEF Spec

\* Every reachable state is well typed and every operation is waiting, active or
\* neither, never two of them (the move in next_ready).
THEOREM TypesHold == Spec => []TypeOK
<1>1. IInv => TypeOK
  BY DEF IInv
<1> QED
  BY <1>1, Inductive, PTL

\* The queue never holds more than Capacity operations nor runs more than
\* Concurrency of them (try_push and next_ready).
THEOREM BoundsHold == Spec => []WithinBounds
<1>1. IInv => WithinBounds
  BY DEF IInv
<1> QED
  BY <1>1, Inductive, PTL

\* Operations executing at the same time never hold conflicting scopes: the
\* guarantee every engine worker relies on instead of a lock.
THEOREM ExclusionHolds == Spec => []Exclusion
<1>1. IInv => Exclusion
  BY DEF IInv
<1> QED
  BY <1>1, Inductive, PTL

\* next_ready never lets an operation overtake an earlier conflicting one.
THEOREM NoOvertakingHolds == Spec => NoOvertaking
<1>1. ASSUME IInv, [Next]_vars PROVE NoOvertakingStep
  <2> SUFFICES ASSUME NEW i \in 1..Len(pending), NEW j \in 1..Len(pending),
                      i < j, pending[j] \in active'
               PROVE  ~Conflict(route[pending[i]], route[pending[j]])
    BY DEF NoOvertakingStep
  <2> USE <1>1 DEF IInv
  <2>1. pending[j] \notin active
    BY DEF TypeOK, HeldOnce, Pending
  <2>2. NextReady
    <3>1. /\ ~Reroute
          /\ \A w \in Work : ~TryPush(w) /\ ~Finish(w)
      BY <2>1 DEF TryPush, Finish, Reroute
    <3>2. ~UNCHANGED vars
      BY <2>1 DEF vars
    <3> QED
      BY <1>1, <3>1, <3>2 DEF Next
  <2>3. PICK k \in 1..Len(pending) : Runs(k) /\ active' = active \cup {pending[k]}
    BY <2>2 DEF NextReady
  <2>4. k = j
    BY <2>1, <2>3 DEF TypeOK, HeldOnce
  <2>5. ~Conflict(route[pending[j]], route[pending[i]])
    BY <2>2, <2>3, <2>4, RunsIsConflictFree DEF NextReady
  <2>6. route[pending[i]] \in Scopes /\ route[pending[j]] \in Scopes
    BY RoutingsGiveScopes DEF TypeOK
  <2> QED
    BY <2>5, <2>6, ConflictSymmetric
<1> QED
  BY <1>1, Inductive, PTL DEF Spec, NoOvertaking
============================================================================
