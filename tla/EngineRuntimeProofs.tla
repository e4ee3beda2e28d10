------------------------ MODULE EngineRuntimeProofs ------------------------
(***************************************************************************)
(* The engine runtime uses its admission queue as DispatchQueue specifies  *)
(* it, so that what is proved of the queue holds of the runtime's workers; *)
(* its bookkeeping of requests and refreshes is exact; and however it      *)
(* stops, no claim is left open.  For every set of work, conversations,    *)
(* sessions and agents, and for all limits.                                *)
(***************************************************************************)
EXTENDS EngineRuntime, FiniteSetTheorems, TLAPS

\* The theorems about the queue, for the queue the loop feeds.
QueueProofs == INSTANCE DispatchQueue WITH
    Keys <- Resources,
    Routings <- [Work -> [global : BOOLEAN, shared : SUBSET Resources,
                            exclusive : SUBSET Resources]],
    MaxReroutes <- MaxRoutings,
    route <- ScopesUnder(snapshot), reroutes <- routings

Scopes == [global : BOOLEAN, shared : SUBSET Resources, exclusive : SUBSET Resources]
Bindings == [Conversations -> Sessions \cup {None}]
Views == [current : Bindings, draining : [Sessions -> Conversations \cup {None}],
          actions : SUBSET Sessions, replies : Bindings]
Progress == {"idle", "running", "claimed", "acted", "done", "failed"}
Statuses == {"none", "processing", "completed", "failed", "uncertain", "rejected"}

----------------------------------------------------------------------------
(* The inductive invariant. *)

\* The tables of the engine and what the loop has read of them.
Tables ==
    /\ current \in Bindings /\ saved \in Bindings /\ replies \in Bindings
    /\ draining \in [Sessions -> Conversations \cup {None}]
    /\ actions \subseteq Sessions /\ switching \subseteq Conversations
    /\ snapshot \in Views /\ partial \in Views

\* Where an operation is before it is admitted: with the agent, in the stream,
\* or nowhere; it is never admitted twice.
Arrivals ==
    /\ script \subseteq Work /\ Recoveries \subseteq script /\ Queued \subseteq script
    /\ unsent \subseteq script /\ stream \in Seq(script)
    /\ \A w \in unsent :
          /\ Event(w) \/ Produced(w)
          /\ w \notin Queued
          /\ \A i \in 1..Len(stream) : stream[i] # w
    /\ \A i \in 1..Len(stream) : Event(stream[i]) /\ stream[i] \notin Queued
    /\ \A i, j \in 1..Len(stream) : stream[i] = stream[j] => i = j

\* inbound_ids, inbound_counts and the refreshes are those of the queued work.
Bookkeeping ==
    /\ IsFiniteSet(ids) /\ ids = {w \in Queued : Inbound(w)}
    /\ refreshes = {w \in Queued : Refresh(w)}
    /\ counts \in [Conversations -> Nat]
    /\ \A c \in Conversations : counts[c] = Cardinality({w \in ids : w.c = c})

Phases ==
    /\ pc \in {"top", "bindings", "actions", "replies", "scan", "select",
               "maintain", "working", "stopping", "stopped"}
    /\ pc = "stopped" => active = {}

\* A claim belongs to a worker that has not ended, to one that was aborted and is
\* retired with a fence, or is left by a write that failed; an effect is open to a
\* replay only after such a write or an error of the handler.
Claims ==
    /\ worker \in [Work -> Progress] /\ status \in [Work -> Statuses]
    /\ outcome \in [Work -> SUBSET Marks]
    /\ \A w \in Work :
          /\ status[w] = "processing" =>
                \/ w \in active /\ Inbound(w) /\ worker[w] \in {"claimed", "acted", "failed"}
                \/ "unwritten" \in outcome[w]
          /\ w \in active /\ worker[w] \in {"claimed", "acted"} =>
                status[w] = "processing"
          /\ "effect" \in outcome[w] =>
                \/ status[w] \in {"completed", "uncertain"}
                \/ outcome[w] \cap {"error", "unwritten"} # {}
                \/ /\ status[w] = "processing" /\ w \in active
                   /\ worker[w] \in {"claimed", "acted", "failed"}

\* What lost events mean for each session.
Losses == [Sessions -> {"none", "lost", "unbuilt"}]
Gaps == gap \in Losses

IInv == QueueProofs!IInv /\ Tables /\ Arrivals /\ Bookkeeping /\ Phases /\ Claims /\ Gaps

----------------------------------------------------------------------------
(* The queue. *)

\* What the queue's own invariant says of its variables.
LEMMA QueueFacts ==
    ASSUME QueueProofs!IInv
    PROVE  /\ pending \in Seq(Work) /\ active \subseteq Work /\ IsFiniteSet(active)
           /\ \A i, j \in 1..Len(pending) : pending[i] = pending[j] => i = j
           /\ \A i \in 1..Len(pending) : pending[i] \notin active
           /\ held \in [Work -> Scopes]
           /\ routings \in 0..MaxRoutings
  BY DEF QueueProofs!IInv, QueueProofs!TypeOK, QueueProofs!HeldOnce, QueueProofs!Pending,
         QueueProofs!Scopes, Scopes, QueueProofs!IsFiniteSet, IsFiniteSet

\* engine_scope: the scope of an operation names resources, whatever the tables say.
LEMMA ScopeTyped ==
    ASSUME NEW view \in Views, NEW w \in Work
    PROVE  Scope(w, view) \in Scopes
<1>1. CASE \/ w.kind \in {"recover", "disconnected"}
           \/ w.kind \in {"press", "answer"} /\ w.s \notin view.actions
  BY <1>1 DEF Scope, Global, Scopes
<1>2. CASE ~(\/ w.kind \in {"recover", "disconnected"}
             \/ w.kind \in {"press", "answer"} /\ w.s \notin view.actions)
  <2>1. /\ view.current \in Bindings /\ view.replies \in Bindings
        /\ view.draining \in [Sessions -> Conversations \cup {None}]
    BY DEF Views
  <2>2. /\ w.c \in Conversations \cup {None} /\ w.s \in Sessions \cup {None}
        /\ w.r \in Sessions \cup {None}
        /\ Inbound(w) \/ w.kind \in {"reattach", "switch"} => w.c \in Conversations
    BY <1>2, WorkTyped
  <2>3. Reserved(w, view) \subseteq Sessions
    BY <2>1, <2>2 DEF Reserved, Bindings
  <2>4. \A s \in Sessions : Route(view, s) \subseteq Conversations
    BY <2>1 DEF Route
  <2>5. \A s \in Sessions : BackendOf[s] \in Backends
    BY RuntimeLimits
  <2>6. Fenced(w, view) \subseteq Backends
    <3>1. w.kind \in {"switch", "replace"} => view.current[w.c] \in Sessions \cup {None}
      BY <2>1, <2>2 DEF Inbound, Bindings
    <3> QED
      BY <3>1, <2>5 DEF Fenced, ReserveBackend
  <2> DEFINE ss == Reserved(w, view)
  <2>7. {BackendOf[s] : s \in ss} \subseteq Resources
    BY <2>3, <2>5 DEF Resources
  <2>8. (ss \cup (UNION {Route(view, s) : s \in ss}) \cup ({w.c} \ {None}) \cup Fenced(w, view)
           \cup (IF w.kind = "board" THEN {TaskBoard} ELSE {})) \subseteq Resources
    BY <2>2, <2>3, <2>4, <2>6 DEF Resources
  <2> QED
    BY <1>2, <2>7, <2>8 DEF Scope, Scopes
<1> QED
  BY <1>1, <1>2

\* A snapshot gives every operation a scope.
LEMMA SnapshotRoutes ==
    ASSUME NEW view \in Views
    PROVE  ScopesUnder(view) \in [Work -> Scopes]
  BY ScopeTyped DEF ScopesUnder

----------------------------------------------------------------------------
(* What a step does to the queue and its bookkeeping. *)

bookVars == <<ids, counts, refreshes>>

Admits(w) ==
    /\ w \in script \ Queued
    /\ ~Queue!IsFull
    /\ Push(w)
    /\ ids' = IF Inbound(w) THEN ids \cup {w} ELSE ids
    /\ counts' = IF Inbound(w) THEN [counts EXCEPT ![w.c] = @ + 1] ELSE counts
    /\ refreshes' = IF Refresh(w) THEN refreshes \cup {w} ELSE refreshes

Starts ==
    /\ Queue!NextReady
    /\ UNCHANGED bookVars

Releases(w) ==
    /\ w \in active
    /\ active' = active \ {w}
    /\ held' = [held EXCEPT ![w] = Global]
    /\ pending' = pending
    /\ ids' = ids \ {w}
    /\ counts' = IF Inbound(w) THEN [counts EXCEPT ![w.c] = @ - 1] ELSE counts
    /\ refreshes' = refreshes \ {w}

Rests == UNCHANGED <<pending, active, held, ids, counts, refreshes>>

\* A step that takes no new snapshot rests, admits one operation, starts one that
\* the snapshot lets run, or releases one.
Moves ==
    \/ Rests
    \/ \E w \in Work : Admits(w)
    \/ Starts
    \/ \E w \in Work : Releases(w)

\* The head of the loop admits at most a recovery that is not queued yet.
LEMMA TopMoves ==
    ASSUME IInv, Top
    PROVE  Moves
<1>1. CASE UNCHANGED queueVars
  BY <1>1 DEF Top, Moves, Rests, queueVars, inboundVars, tickVars
<1>2. CASE ~UNCHANGED queueVars
  <2>1. ~Queue!IsFull /\ PushRecover
    BY <1>2 DEF Top
  <2>2. PICK w \in Recoveries \ Queued : Push(w)
    BY <2>1 DEF PushRecover
  <2>3. w \in script /\ ~Inbound(w) /\ ~Refresh(w)
    BY <2>2 DEF IInv, Arrivals, Recoveries, Recovery, Item, Inbound, Refresh
  <2>4. Admits(w)
    BY <2>1, <2>2, <2>3 DEF Top, Admits, inboundVars, tickVars
  <2> QED
    BY <2>3, <2>4 DEF Moves, IInv, Arrivals
<1> QED
  BY <1>1, <1>2

\* admit_inbound takes a request that is not queued: its id is not known.
LEMMA InboundMoves ==
    ASSUME IInv, NEW w \in script, AdmitInbound(w)
    PROVE  Moves
<1>1. CASE UNCHANGED <<queueVars, inboundVars>>
  BY <1>1 DEF AdmitInbound, Moves, Rests, queueVars, inboundVars, tickVars
<1>2. CASE ~UNCHANGED <<queueVars, inboundVars>>
  <2>1. /\ ~Known(w) /\ Inbound(w) /\ ~Queue!IsFull
        /\ ids' = ids \cup {w}
        /\ counts' = [counts EXCEPT ![w.c] = @ + 1]
        /\ Push(w)
        /\ refreshes' = refreshes
    BY <1>2 DEF AdmitInbound, tickVars
  <2>2. w \notin Queued /\ ~Refresh(w)
    BY <2>1 DEF IInv, Bookkeeping, Known, Inbound, Refresh
  <2>3. Admits(w)
    BY <2>1, <2>2 DEF Admits
  <2> QED
    BY <2>3 DEF Moves, IInv, Arrivals
<1> QED
  BY <1>1, <1>2

\* Work of the engine and agent events are admitted once.
LEMMA ProducedMoves ==
    ASSUME IInv, NEW w \in script, AdmitProduced(w)
    PROVE  Moves
<1>1. w \notin Queued /\ ~Inbound(w) /\ ~Refresh(w) /\ w \in Work
  BY DEF AdmitProduced, IInv, Arrivals, Produced, Inbound, Refresh
<1>2. Admits(w)
  BY <1>1 DEF AdmitProduced, Admits, inboundVars, tickVars
<1> QED
  BY <1>1, <1>2 DEF Moves

\* A received event moves from the stream to the queue; after a lag a recovery does.
LEMMA EventMoves ==
    ASSUME IInv, ReceiveEvent
    PROVE  Moves
<1>1. CASE lagged
  <2>1. ~Queue!IsFull /\ PushRecover
    BY <1>1 DEF ReceiveEvent, OnLagged
  <2>2. PICK w \in Recoveries \ Queued : Push(w)
    BY <2>1 DEF PushRecover
  <2>3. w \in script /\ ~Inbound(w) /\ ~Refresh(w)
    BY <2>2 DEF IInv, Arrivals, Recoveries, Recovery, Item, Inbound, Refresh
  <2>4. Admits(w)
    BY <2>1, <2>2, <2>3 DEF ReceiveEvent, Admits, inboundVars, tickVars
  <2> QED
    BY <2>3, <2>4 DEF Moves, IInv, Arrivals
<1>2. CASE ~lagged
  <2> DEFINE w == Head(stream)
  <2>1. stream \in Seq(script) /\ stream # <<>> /\ ~Queue!IsFull /\ Push(w)
    BY <1>2 DEF ReceiveEvent, IInv, Arrivals
  <2>2. w = stream[1] /\ 1 \in 1..Len(stream)
    BY <2>1
  <2>3. w \in script /\ Event(w) /\ w \notin Queued
    BY <2>1, <2>2 DEF IInv, Arrivals
  <2>4. ~Inbound(w) /\ ~Refresh(w)
    BY <2>3 DEF Event, Inbound, Refresh
  <2>5. Admits(w)
    BY <2>1, <2>3, <2>4 DEF ReceiveEvent, Admits, inboundVars, tickVars
  <2> QED
    BY <2>3, <2>5 DEF Moves, IInv, Arrivals
<1> QED
  BY <1>1, <1>2

\* schedule_refreshes pushes an item only when its refresh is not admitted.
LEMMA RefreshMoves ==
    ASSUME IInv, ScheduleRefreshes
    PROVE  Moves
<1>1. CASE UNCHANGED <<queueVars, refreshes>>
  BY <1>1 DEF ScheduleRefreshes, Moves, Rests, queueVars, inboundVars
<1>2. CASE ~UNCHANGED <<queueVars, refreshes>>
  <2> DEFINE w == Head(todo.items)
  <2>1. /\ ~Queue!IsFull /\ Offered(w) /\ Push(w)
        /\ refreshes' = refreshes \cup {w}
        /\ UNCHANGED inboundVars
    BY <1>2 DEF ScheduleRefreshes, Tick, OfferMaintenance, ReadTurns, OfferWorking,
                TickEnds
  <2>2. w \in script \ Queued /\ ~Inbound(w) /\ Refresh(w)
    BY <2>1 DEF Offered, IInv, Bookkeeping, Inbound, Refresh
  <2>3. Admits(w)
    BY <2>1, <2>2 DEF Admits, inboundVars
  <2> QED
    BY <2>2, <2>3 DEF Moves, IInv, Arrivals
<1> QED
  BY <1>1, <1>2

\* retire releases what the worker held.
LEMMA RetireMoves ==
    ASSUME IInv, NEW w \in script, Retire(w)
    PROVE  Moves
<1>1. w \in Work
  BY DEF IInv, Arrivals
<1>2. Releases(w)
  BY DEF Retire, Releases
<1> QED
  BY <1>1, <1>2 DEF Moves

\* start_ready starts what next_ready returns.
LEMMA StartMoves ==
    ASSUME IInv, StartReady
    PROVE  Starts
<1>1. Queue!Cardinality(active) = Cardinality(active)
  BY Zenon DEF Queue!Cardinality, Cardinality, Queue!IsFiniteSet, IsFiniteSet
<1>2. PICK i \in 1..Len(pending) :
          /\ Startable(i)
          /\ active' = active \cup {pending[i]}
          /\ held' = [held EXCEPT ![pending[i]] = Scope(pending[i], snapshot)]
          /\ pending' = Queue!RemoveAt(i)
  BY DEF StartReady
<1>3. pending[i] \in Work
  BY QueueFacts DEF IInv
<1>4. UNCHANGED <<ScopesUnder(snapshot), routings>>
  BY DEF StartReady, snapVars, ScopesUnder
<1>5. Queue!NextReady
  BY <1>1, <1>2, <1>3, <1>4 DEF Startable, Queue!NextReady, ScopesUnder
<1> QED
  BY <1>5 DEF StartReady, Starts, bookVars, inboundVars, tickVars

\* The workers leave the queue alone, and so do the loop's other steps.
LEMMA StepMoves ==
    ASSUME IInv, [Next]_vars
    PROVE  \/ Moves /\ UNCHANGED <<script, snapshot, partial, routings>>
           \/ DispatchSnapshot
<1>1. CASE Top
  BY <1>1, TopMoves DEF Top, snapVars
<1>2. CASE StartReady
  BY <1>2, StartMoves DEF StartReady, Moves, snapVars
<1>3. CASE ScanEnds
  BY <1>3 DEF ScanEnds, Moves, Rests, queueVars, inboundVars, tickVars, snapVars
<1>4. CASE \E w \in script : AdmitInbound(w) \/ AdmitProduced(w)
  BY <1>4, InboundMoves, ProducedMoves DEF AdmitInbound, AdmitProduced, snapVars
<1>5. CASE ReceiveEvent
  BY <1>5, EventMoves DEF ReceiveEvent, snapVars
<1>6. CASE ScheduleRefreshes
  BY <1>6, RefreshMoves DEF ScheduleRefreshes, snapVars
<1>7. CASE \E w \in script : RetireWorker(w) \/ RetireStopped(w)
  <2>1. PICK w \in script : Retire(w)
    BY <1>7 DEF RetireWorker, RetireStopped
  <2> QED
    BY <2>1, RetireMoves DEF Retire, snapVars
<1>8. CASE \E w \in script : Abort(w) \/ WorkerStep(w)
  BY <1>8 DEF Abort, WorkerStep, Moves, Rests, queueVars, inboundVars, tickVars, snapVars
<1>9. CASE ConfigurationChanged \/ StopSelected \/ Stopped \/ Reload \/ Cancel
  BY <1>9 DEF ConfigurationChanged, StopSelected, Stopped, Reload, Cancel,
              Moves, Rests, queueVars, inboundVars, tickVars, snapVars
<1>10. CASE \E e \in script : Emit(e)
  BY <1>10 DEF Emit, Moves, Rests, queueVars, inboundVars, tickVars, snapVars
<1>11. CASE UNCHANGED vars
  BY <1>11 DEF vars, Moves, Rests, queueVars, inboundVars, tickVars, snapVars
<1> QED
  BY <1>1, <1>2, <1>3, <1>4, <1>5, <1>6, <1>7, <1>8, <1>9, <1>10, <1>11 DEF Next, Loop

----------------------------------------------------------------------------
(* The refinement. *)

\* A snapshot that differs from the last one is a change of routing.
LEMMA SnapshotReroutes ==
    ASSUME IInv, DispatchSnapshot
    PROVE  /\ snapshot' \in Views /\ partial' \in Views
           /\ Queue!Reroute \/ UNCHANGED <<pending, active, held, snapshot, routings>>
<1>1. snapshot \in Views /\ partial \in Views
  BY DEF IInv, Tables
<1>2. CASE ReadBindings \/ ReadActions
  BY <1>1, <1>2 DEF DispatchSnapshot, ReadBindings, ReadActions, Views, IInv, Tables, queueVars
<1>3. CASE ReadReplies
  <2>1. partial' \in Views /\ snapshot' = partial'
    BY <1>1, <1>3 DEF ReadReplies, Views, IInv, Tables
  <2>2. CASE snapshot' = snapshot
    BY <1>3, <2>1, <2>2 DEF DispatchSnapshot, ReadReplies, queueVars
  <2>3. CASE snapshot' # snapshot
    <3>1. ScopesUnder(snapshot') \in [Work -> Scopes]
      BY <2>1, SnapshotRoutes
    <3>2. routings \in 0..MaxRoutings /\ MaxRoutings \in Nat
      BY QueueFacts, RuntimeLimits DEF IInv
    <3>3. routings' = routings + 1 /\ routings < MaxRoutings
      BY <1>3, <2>3, <3>2 DEF ReadReplies
    <3>4. ScopesUnder(snapshot)' \in [Work -> Scopes]
      BY <3>1 DEF ScopesUnder
    <3> QED
      BY <1>3, <2>1, <3>3, <3>4 DEF DispatchSnapshot, Queue!Reroute, Scopes, queueVars
  <2> QED
    BY <2>2, <2>3
<1> QED
  BY <1>2, <1>3 DEF DispatchSnapshot

\* Every step of the runtime is a step of its queue or leaves the queue alone.
LEMMA StepImplements ==
    ASSUME IInv, [Next]_vars
    PROVE  [Queue!Next]_(Queue!vars)
<1>1. CASE Moves /\ UNCHANGED <<script, snapshot, partial, routings>>
  <2>1. UNCHANGED <<ScopesUnder(snapshot), routings>>
    BY <1>1 DEF ScopesUnder
  <2>2. CASE Rests
    BY <2>1, <2>2 DEF Rests, Queue!vars
  <2>3. CASE \E w \in Work : Admits(w)
    <3>1. PICK w \in Work : Admits(w)
      BY <2>3
    <3>2. Queue!TryPush(w)
      BY <2>1, <3>1 DEF Admits, Queue!TryPush, Queue!Pending, Queued, Push
    <3> QED
      BY <3>2 DEF Queue!Next
  <2>4. CASE Starts
    BY <2>4 DEF Starts, Queue!Next
  <2>5. CASE \E w \in Work : Releases(w)
    <3>1. PICK w \in Work : Releases(w)
      BY <2>5
    <3>2. Queue!Finish(w)
      BY <2>1, <3>1 DEF Releases, Queue!Finish, Queue!Global, Global
    <3> QED
      BY <3>2 DEF Queue!Next
  <2> QED
    BY <1>1, <2>2, <2>3, <2>4, <2>5 DEF Moves
<1>2. CASE DispatchSnapshot
  <2>1. CASE Queue!Reroute
    BY <2>1 DEF Queue!Next
  <2>2. CASE UNCHANGED <<pending, active, held, snapshot, routings>>
    BY <2>2 DEF Queue!vars, ScopesUnder
  <2> QED
    BY <1>2, <2>1, <2>2, SnapshotReroutes
<1> QED
  BY <1>1, <1>2, StepMoves

\* The queue named in EngineRuntime is the one the theorems are about.
LEMMA SameQueue ==
    /\ Queue!vars = QueueProofs!vars /\ Queue!Init = QueueProofs!Init
    /\ Queue!Next = QueueProofs!Next
<1>1. Queue!Cardinality(active) = QueueProofs!Cardinality(active)
  BY Zenon DEF Queue!Cardinality, QueueProofs!Cardinality, Queue!IsFiniteSet,
               QueueProofs!IsFiniteSet
<1>2. Queue!IsFull = QueueProofs!IsFull
  BY <1>1 DEF Queue!IsFull, QueueProofs!IsFull
<1>3. ASSUME NEW i PROVE Queue!Runs(i) = QueueProofs!Runs(i)
  BY Zenon DEF Queue!Runs, QueueProofs!Runs, Queue!Reached, QueueProofs!Reached, Queue!Blocked,
         QueueProofs!Blocked, Queue!ReadersBefore, QueueProofs!ReadersBefore,
         Queue!WritersBefore, QueueProofs!WritersBefore
<1>4. Queue!NextReady = QueueProofs!NextReady
  BY <1>1, <1>3 DEF Queue!NextReady, QueueProofs!NextReady, Queue!RemoveAt, QueueProofs!RemoveAt
<1>5. \A w \in Work : Queue!TryPush(w) = QueueProofs!TryPush(w)
  BY <1>2 DEF Queue!TryPush, QueueProofs!TryPush, Queue!Pending, QueueProofs!Pending
<1>6. \A w \in Work : Queue!Finish(w) = QueueProofs!Finish(w)
  BY DEF Queue!Finish, QueueProofs!Finish, Queue!Global, QueueProofs!Global
<1>7. Queue!Reroute = QueueProofs!Reroute
  BY DEF Queue!Reroute, QueueProofs!Reroute
<1> QED
  BY <1>4, <1>5, <1>6, <1>7 DEF Queue!Next, QueueProofs!Next, Queue!vars, QueueProofs!vars, Queue!Init, QueueProofs!Init, Queue!Global, QueueProofs!Global

\* The queue of the runtime keeps the queue's own invariant.
LEMMA QueueKept ==
    ASSUME IInv, [Next]_vars
    PROVE  QueueProofs!IInv'
<1>1. [Queue!Next]_(Queue!vars)
  BY StepImplements
<1>2. [QueueProofs!Next]_(QueueProofs!vars)
  <2>1. Queue!Next => QueueProofs!Next
    BY SameQueue
  <2>2. UNCHANGED Queue!vars => UNCHANGED QueueProofs!vars
    BY DEF Queue!vars, QueueProofs!vars
  <2> QED
    BY <1>1, <2>1, <2>2
<1>3. QueueProofs!LimitsPositive /\ QueueProofs!RoutingsGiveScopes /\ QueueProofs!ReroutesNat
  BY RuntimeLimits DEF RuntimeLimits, QueueProofs!LimitsPositive,
       QueueProofs!RoutingsGiveScopes, QueueProofs!ReroutesNat, QueueProofs!Scopes
<1> QED
  BY <1>2, <1>3, QueueProofs!StepPreserves DEF IInv

----------------------------------------------------------------------------
(* The tables. *)

\* BindingTable::attach keeps the table typed.
LEMMA AttachTyped ==
    ASSUME Tables, NEW c \in Conversations, NEW s \in Sessions \cup {None}, NEW busy,
           Attach(c, s, busy)
    PROVE  /\ current' \in Bindings
           /\ draining' \in [Sessions -> Conversations \cup {None}]
  BY DEF Attach, Tables, Bindings

\* Binding a conversation keeps the routing tables well formed,
LEMMA BindTyped ==
    ASSUME Tables, NEW c \in Conversations, NEW s \in Sessions \cup {None}, NEW busy,
           Bind(c, s, busy)
    PROVE  /\ current' \in Bindings /\ saved' \in Bindings
           /\ draining' \in [Sessions -> Conversations \cup {None}]
           /\ switching' \subseteq Conversations
<1>1. saved' \in Bindings /\ switching' \subseteq Conversations
  BY DEF Bind, Tables, Bindings
<1> QED
  BY <1>1, AttachTyped DEF Bind

\* so does giving up its session,
LEMMA UnbindTyped ==
    ASSUME Tables, NEW c \in Conversations, NEW keep, Unbind(c, keep)
    PROVE  /\ current' \in Bindings
           /\ draining' \in [Sessions -> Conversations \cup {None}]
<1>1. current' \in Bindings
  BY DEF Unbind, Tables, Bindings
<1>2. draining' \in [Sessions -> Conversations \cup {None}]
  BY DEF Unbind, Tables, Bindings
<1> QED
  BY <1>1, <1>2

Routes ==
    /\ current \in Bindings /\ saved \in Bindings /\ replies \in Bindings
    /\ draining \in [Sessions -> Conversations \cup {None}]
    /\ actions \subseteq Sessions /\ switching \subseteq Conversations

\* Every handler keeps the tables typed.
LEMMA InboundTyped ==
    ASSUME Tables, NEW w \in Work, Inbound(w), HandleInbound(w)
    PROVE  Routes'
<1>1. /\ w.c \in Conversations /\ w.s \in Sessions \cup {None}
      /\ w.r \in Sessions \cup {None}
  BY WorkTyped DEF Inbound
<1>2. CASE w.kind = "text"
  BY <1>1, <1>2 DEF HandleInbound, Tables, Routes, Bindings
<1>3. CASE w.kind = "attach"
  <2>1. /\ UNCHANGED <<actions, replies>>
        /\ \/ UNCHANGED <<current, draining, saved, switching>>
           \/ Bind(w.c, w.s, current[w.c] \in turns)
    BY <1>3 DEF HandleInbound
  <2> QED
    BY <1>1, <2>1, BindTyped DEF Tables, Routes
<1>4. CASE w.kind = "detach"
  <2>1. /\ switching' = switching \ {w.c} /\ UNCHANGED <<actions, replies>>
        /\ \/ UNCHANGED <<current, draining, saved>>
           \/ /\ Unbind(w.c, current[w.c] \in turns)
              /\ saved' = [saved EXCEPT ![w.c] = None]
    BY <1>4 DEF HandleInbound
  <2>2. saved' \in Bindings
    BY <1>1, <2>1 DEF Tables, Bindings
  <2> QED
    BY <1>1, <2>1, <2>2, UnbindTyped DEF Tables, Routes
<1>5. CASE w.kind \in {"replace", "launch", "press"}
  <2>1. /\ actions' \subseteq actions /\ UNCHANGED replies
        /\ \/ UNCHANGED <<current, draining, saved, switching>>
           \/ \E s \in {w.r, w.s} : Bind(w.c, s, current[w.c] \in turns)
    BY <1>5 DEF HandleInbound
  <2> QED
    BY <1>1, <2>1, BindTyped DEF Tables, Routes
<1>6. CASE w.kind = "answer"
  <2>1. /\ actions' \subseteq actions /\ UNCHANGED <<current, draining, saved, switching>>
        /\ replies' \in {replies, [replies EXCEPT ![w.c] = w.s]}
    BY <1>6 DEF HandleInbound
  <2>2. replies' \in Bindings
    BY <1>1, <2>1 DEF Tables, Bindings
  <2> QED
    BY <2>1, <2>2 DEF Tables, Routes
<1> QED
  BY <1>2, <1>3, <1>4, <1>5, <1>6 DEF Inbound

\* and each handler: of an event,
LEMMA EventTyped ==
    ASSUME Tables, NEW w \in Work, Event(w), HandleEvent(w)
    PROVE  Routes'
<1>1. /\ w.s \in Sessions \cup {None} /\ w.r \in Sessions \cup {None}
      /\ w.kind # "disconnected" => w.s \in Sessions
  BY WorkTyped DEF Event
<1>2. CASE w.kind = "started"
  BY <1>2 DEF HandleEvent, Tables, Routes
<1>3. CASE w.kind = "completed"
  BY <1>1, <1>3 DEF HandleEvent, Tables, Routes
<1>4. CASE w.kind = "requested"
  BY <1>1, <1>4 DEF HandleEvent, Tables, Routes
<1>5. CASE w.kind = "exited"
  <2> DEFINE owner == {c \in Conversations : current[c] = w.s}
             c == CHOOSE x \in owner : TRUE
  <2>1. HandleExit(w.s)
    BY <1>5 DEF HandleEvent
  <2>2. CASE UNCHANGED <<current, draining, actions, replies>>
    BY <2>1, <2>2 DEF HandleExit, Tables, Routes
  <2>3. CASE ~UNCHANGED <<current, draining, actions, replies>>
    <3>1. /\ owner # {} /\ Unbind(c, FALSE)
          /\ actions' = actions \ {w.s}
          /\ replies' = [replies EXCEPT ![c] = None]
          /\ UNCHANGED <<saved, switching>>
      BY <2>1, <2>3 DEF HandleExit
    <3>2. c \in Conversations
      BY <3>1
    <3>3. replies' \in Bindings
      BY <3>1, <3>2 DEF Tables, Bindings
    <3> HIDE DEF c, owner
    <3> QED
      BY <3>1, <3>2, <3>3, UnbindTyped DEF Tables, Routes
  <2> QED
    BY <2>2, <2>3
<1>6. CASE w.kind = "resumed"
  <2> DEFINE owner == {c \in Conversations : saved[c] = w.s}
             c == CHOOSE x \in owner : TRUE
  <2>1. HandleResume(w.s)
    BY <1>6 DEF HandleEvent
  <2>2. CASE owner = {}
    BY <2>1, <2>2 DEF HandleResume, Tables, Routes
  <2>3. CASE owner # {}
    <3>1. Attach(c, w.s, FALSE) /\ UNCHANGED <<saved, actions, replies, switching>>
      BY <2>1, <2>3 DEF HandleResume
    <3>2. c \in Conversations
      BY <2>3
    <3> HIDE DEF c, owner
    <3> QED
      BY <1>1, <3>1, <3>2, AttachTyped DEF Tables, Routes
  <2> QED
    BY <2>2, <2>3
<1>7. CASE w.kind = "replaced"
  <2> DEFINE owner == {c \in switching : current[c] = w.s}
             c == CHOOSE x \in owner : TRUE
  <2>1. /\ \/ owner # {} /\ Bind(c, w.r, FALSE)
           \/ UNCHANGED <<current, draining, saved, switching>>
        /\ UNCHANGED <<actions, replies>>
    BY <1>7 DEF HandleEvent
  <2>2. owner # {} => c \in Conversations
    BY DEF Tables
  <2> HIDE DEF c, owner
  <2> QED
    BY <1>1, <2>1, <2>2, BindTyped DEF Tables, Routes
<1>8. CASE w.kind = "disconnected"
  <2>1. replies' \in Bindings
    BY <1>8 DEF HandleEvent, NoReplies, Bindings
  <2> QED
    BY <1>8, <2>1 DEF HandleEvent, Tables, Routes
<1> QED
  BY <1>2, <1>3, <1>4, <1>5, <1>6, <1>7, <1>8 DEF Event

\* and of the other work.
LEMMA OtherTyped ==
    ASSUME Tables, NEW w \in Work, HandleOther(w)
    PROVE  Routes'
<1>1. /\ w.kind \in {"reattach", "switch"} =>
            w.c \in Conversations /\ w.r \in Sessions \cup {None}
      /\ w.s \in Sessions \cup {None}
  BY WorkTyped
<1>2. CASE w.kind = "switch"
  <2>1. /\ UNCHANGED <<actions, replies>>
        /\ Bind(w.c, w.r, FALSE) \/ UNCHANGED <<current, draining, saved, switching>>
    BY <1>2 DEF HandleOther
  <2> QED
    BY <1>1, <1>2, <2>1, BindTyped DEF Tables, Routes
<1>3. CASE w.kind = "reattach"
  <2>1. /\ UNCHANGED <<actions, replies>>
        /\ \/ Bind(w.c, w.s, current[w.c] \in turns)
           \/ UNCHANGED <<current, draining, saved, switching>>
    BY <1>3 DEF HandleOther
  <2> QED
    BY <1>1, <1>3, <2>1, BindTyped DEF Tables, Routes
<1>4. CASE w.kind = "recover"
  <2>1. replies' \in Bindings /\ actions' = {}
        /\ UNCHANGED <<current, draining, saved, switching>>
    BY <1>4 DEF HandleOther, RecoverEventGap, NoReplies, Bindings
  <2> QED
    BY <2>1 DEF Tables, Routes
<1>5. CASE w.kind \notin {"switch", "reattach", "recover"}
  BY <1>5 DEF HandleOther, routeVars, Tables, Routes
<1> QED
  BY <1>2, <1>3, <1>4, <1>5

\* Every step keeps the routing tables well formed.
LEMMA TablesKept ==
    ASSUME IInv, [Next]_vars
    PROVE  Tables'
<1>1. script \subseteq Work
  BY DEF IInv, Arrivals
<1>2. CASE DispatchSnapshot
  BY <1>2, SnapshotReroutes DEF DispatchSnapshot, routeVars, IInv, Tables
<1>3. CASE \E w \in script : WorkerStep(w)
  <2>1. PICK w \in script : WorkerStep(w)
    BY <1>3
  <2>2. CASE UNCHANGED routeVars
    BY <2>1, <2>2 DEF WorkerStep, snapVars, routeVars, IInv, Tables
  <2>3. CASE ~UNCHANGED routeVars
    <3>1. Execute(w)
      BY <2>1, <2>3 DEF WorkerStep, Claim, Complete, Fail, Settle, Panic
    <3>2. Routes'
      BY <1>1, <3>1, InboundTyped, EventTyped, OtherTyped DEF Execute, IInv
    <3> QED
      BY <2>1, <3>2 DEF WorkerStep, snapVars, IInv, Tables, Routes
  <2> QED
    BY <2>2, <2>3
<1>4. CASE UNCHANGED <<routeVars, snapVars>>
  BY <1>4 DEF routeVars, snapVars, IInv, Tables
<1> QED
  BY <1>2, <1>3, <1>4 DEF Next, Loop, vars, Top, StartReady, ScanEnds, AdmitInbound,
     AdmitProduced, ReceiveEvent, ScheduleRefreshes, RetireWorker, RetireStopped, Retire,
     Abort, ConfigurationChanged, StopSelected, Stopped, Emit, Reload, Cancel

----------------------------------------------------------------------------
(* The bookkeeping. *)

\* What each move does to the set of queued work.
LEMMA AdmitQueued ==
    ASSUME QueueProofs!IInv, NEW w \in Work, Push(w)
    PROVE  Queued' = Queued \cup {w}
<1>1. /\ pending \in Seq(Work) /\ pending' = Append(pending, w) /\ active' = active
  BY QueueFacts DEF Push
<1>2. /\ Len(pending) \in Nat /\ Len(pending') = Len(pending) + 1
      /\ \A i \in 1..Len(pending) : pending'[i] = pending[i]
      /\ pending'[Len(pending) + 1] = w
  BY <1>1
<1>3. {pending'[i] : i \in 1..Len(pending')} = {pending[i] : i \in 1..Len(pending)} \cup {w}
  <2>1. 1..Len(pending') = 1..Len(pending) \cup {Len(pending) + 1}
    BY <1>2
  <2> QED
    BY <1>2, <2>1
<1> QED
  BY <1>1, <1>3 DEF Queued

\* Starting work that is ready does not change which work is queued or running,
LEMMA StartQueued ==
    ASSUME QueueProofs!IInv, Queue!NextReady
    PROVE  Queued' = Queued
<1>1. PICK i \in 1..Len(pending) :
          active' = active \cup {pending[i]} /\ pending' = Queue!RemoveAt(i)
  BY DEF Queue!NextReady
<1>2. pending \in Seq(Work) /\ Len(pending) \in Nat \ {0} /\ i \in Nat /\ i >= 1
  BY QueueFacts
<1>3. /\ Len(pending') = Len(pending) - 1
      /\ \A k \in 1..(Len(pending) - 1) :
            pending'[k] = IF k < i THEN pending[k] ELSE pending[k + 1]
  <2>1. pending' = [k \in 1..(Len(pending) - 1) |->
                      IF k < i THEN pending[k] ELSE pending[k + 1]]
    BY <1>1 DEF Queue!RemoveAt
  <2>2. Len(pending) - 1 \in Nat
    BY <1>2
  <2>3. \A k \in 1..(Len(pending) - 1) : pending'[k] \in Work
    BY <1>2, <2>1
  <2>4. pending' \in [1..(Len(pending) - 1) -> Work]
    BY <2>1, <2>3
  <2>5. Len(pending') = Len(pending) - 1
    BY <2>2, <2>4
  <2> QED
    BY <2>1, <2>5
<1>4. ASSUME NEW x PROVE x \in Queued' <=> x \in Queued
  <2>1. ASSUME x \in Queued' PROVE x \in Queued
    <3>1. CASE x \in active'
      BY <1>1, <3>1 DEF Queued
    <3>2. CASE \E k \in 1..Len(pending') : x = pending'[k]
      <4>1. PICK k \in 1..Len(pending') : x = pending'[k]
        BY <3>2
      <4>2. \E m \in 1..Len(pending) : x = pending[m]
        BY <1>2, <1>3, <4>1
      <4> QED
        BY <4>2 DEF Queued
    <3> QED
      BY <2>1, <3>1, <3>2 DEF Queued
  <2>2. ASSUME x \in Queued PROVE x \in Queued'
    <3>1. CASE x \in active
      BY <1>1, <3>1 DEF Queued
    <3>2. CASE \E m \in 1..Len(pending) : x = pending[m]
      <4>1. PICK m \in 1..Len(pending) : x = pending[m]
        BY <3>2
      <4>2. CASE m = i
        BY <1>1, <4>1, <4>2 DEF Queued
      <4>3. CASE m < i
        <5>1. m \in 1..Len(pending') /\ pending'[m] = pending[m]
          BY <1>2, <1>3, <4>1, <4>3
        <5> QED
          BY <4>1, <5>1 DEF Queued
      <4>4. CASE m > i
        <5>1. m - 1 \in 1..Len(pending') /\ pending'[m - 1] = pending[m]
          BY <1>2, <1>3, <4>1, <4>4
        <5> QED
          BY <4>1, <5>1 DEF Queued
      <4> QED
        BY <1>2, <4>2, <4>3, <4>4
    <3> QED
      BY <2>2, <3>1, <3>2 DEF Queued
  <2> QED
    BY <2>1, <2>2
<1> QED
  BY <1>4

\* and its completion removes just that work.
LEMMA ReleaseQueued ==
    ASSUME QueueProofs!IInv, NEW w, Releases(w)
    PROVE  Queued' = Queued \ {w}
<1>1. \A i \in 1..Len(pending) : pending[i] # w
  BY QueueFacts DEF Releases
<1> QED
  BY <1>1 DEF Releases, Queued

\* admit_inbound and retire count the requests of a conversation in and out.
LEMMA BookkeepingKept ==
    ASSUME IInv, [Next]_vars
    PROVE  Bookkeeping'
<1> USE DEF IInv
<1>1. CASE UNCHANGED <<pending, active, ids, counts, refreshes>>
  BY <1>1 DEF Bookkeeping, Queued
<1>2. CASE \E w \in Work : Admits(w)
  <2>1. PICK w \in Work : Admits(w)
    BY <1>2
  <2>2. Queued' = Queued \cup {w} /\ w \notin Queued
    BY <2>1, AdmitQueued DEF Admits
  <2>3. IsFiniteSet(ids') /\ ids' = {v \in Queued' : Inbound(v)}
    <3>1. IsFiniteSet(ids) /\ ids = {v \in Queued : Inbound(v)}
      BY DEF Bookkeeping
    <3>2. ids' = IF Inbound(w) THEN ids \cup {w} ELSE ids
      BY <2>1, <3>1 DEF Admits
    <3>3. IsFiniteSet(ids')
      BY <3>1, <3>2, FS_AddElement
    <3>4. ids' = {v \in Queued' : Inbound(v)}
      BY <2>2, <3>1, <3>2
    <3> QED
      BY <3>3, <3>4
  <2>4. refreshes' = {v \in Queued' : Refresh(v)}
    BY <2>1, <2>2 DEF Admits, Bookkeeping
  <2>5. CASE ~Inbound(w)
    BY <2>1, <2>3, <2>4, <2>5 DEF Admits, Bookkeeping
  <2>6. CASE Inbound(w)
    <3>1. w.c \in Conversations /\ w \notin ids
      BY <2>2, <2>6, WorkTyped DEF Bookkeeping
    <3>2. counts' \in [Conversations -> Nat]
      BY <2>1, <2>6, <3>1 DEF Admits, Bookkeeping
    <3>3. ASSUME NEW c \in Conversations
          PROVE  counts'[c] = Cardinality({v \in ids' : v.c = c})
      <4> DEFINE S == {v \in ids : v.c = c}
      <4>1. IsFiniteSet(S) /\ Cardinality(S) = counts[c]
        BY FS_Subset DEF Bookkeeping
      <4>2. CASE c = w.c
        <5>1. {v \in ids' : v.c = c} = S \cup {w}
          BY <2>1, <2>6, <4>2 DEF Admits
        <5>2. counts'[c] = counts[c] + 1
          BY <2>1, <2>6, <3>1, <4>2 DEF Admits, Bookkeeping
        <5>3. Cardinality(S \cup {w}) = Cardinality(S) + 1
          BY <3>1, <4>1, FS_AddElement
        <5> QED
          BY <4>1, <5>1, <5>2, <5>3
      <4>3. CASE c # w.c
        <5>1. {v \in ids' : v.c = c} = S
          BY <2>1, <2>6, <4>3 DEF Admits
        <5>2. counts'[c] = counts[c]
          BY <2>1, <2>6, <3>1, <4>3 DEF Admits, Bookkeeping
        <5> QED
          BY <4>1, <5>1, <5>2
      <4> QED
        BY <4>2, <4>3
    <3> QED
      BY <2>3, <2>4, <3>2, <3>3 DEF Bookkeeping
  <2> QED
    BY <2>5, <2>6
<1>3. CASE Starts
  <2>1. Queued' = Queued
    BY <1>3, StartQueued DEF Starts
  <2> QED
    BY <1>3, <2>1 DEF Starts, bookVars, Bookkeeping
<1>4. CASE \E w \in Work : Releases(w)
  <2>1. PICK w \in Work : Releases(w)
    BY <1>4
  <2>2. Queued' = Queued \ {w} /\ w \in Queued
    BY <2>1, ReleaseQueued DEF Releases, Queued
  <2>3. IsFiniteSet(ids') /\ ids' = {v \in Queued' : Inbound(v)}
    BY <2>1, <2>2, FS_RemoveElement DEF Releases, Bookkeeping
  <2>4. refreshes' = {v \in Queued' : Refresh(v)}
    BY <2>1, <2>2 DEF Releases, Bookkeeping
  <2>5. CASE ~Inbound(w)
    <3>1. ids' = ids
      BY <2>1, <2>5 DEF Releases, Bookkeeping
    <3> QED
      BY <2>1, <2>3, <2>4, <2>5, <3>1 DEF Releases, Bookkeeping
  <2>6. CASE Inbound(w)
    <3>1. w.c \in Conversations /\ w \in ids
      BY <2>2, <2>6, WorkTyped DEF Bookkeeping
    <3>2. ASSUME NEW c \in Conversations
          PROVE  counts'[c] = Cardinality({v \in ids' : v.c = c}) /\ counts'[c] \in Nat
      <4> DEFINE S == {v \in ids : v.c = c}
      <4>1. IsFiniteSet(S) /\ Cardinality(S) = counts[c]
        BY FS_Subset DEF Bookkeeping
      <4>2. CASE c = w.c
        <5>1. {v \in ids' : v.c = c} = S \ {w}
          BY <2>1, <4>2 DEF Releases
        <5>2. counts'[c] = counts[c] - 1
          BY <2>1, <2>6, <3>1, <4>2 DEF Releases, Bookkeeping
        <5>3. IsFiniteSet(S \ {w}) /\ Cardinality(S \ {w}) = Cardinality(S) - 1
          BY <3>1, <4>1, <4>2, FS_RemoveElement
        <5>4. Cardinality(S \ {w}) \in Nat
          BY <5>3, FS_CardinalityType
        <5> QED
          BY <4>1, <5>1, <5>2, <5>3, <5>4
      <4>3. CASE c # w.c
        <5>1. {v \in ids' : v.c = c} = S
          BY <2>1, <4>3 DEF Releases
        <5>2. counts'[c] = counts[c] /\ counts[c] \in Nat
          BY <2>1, <2>6, <3>1, <4>3 DEF Releases, Bookkeeping
        <5> QED
          BY <4>1, <5>1, <5>2
      <4> QED
        BY <4>2, <4>3
    <3>3. counts' \in [Conversations -> Nat]
      <4>1. counts' = [counts EXCEPT ![w.c] = @ - 1]
        BY <2>1, <2>6 DEF Releases
      <4> QED
        BY <3>1, <3>2, <4>1 DEF Bookkeeping
    <3> QED
      BY <2>3, <2>4, <3>2, <3>3 DEF Bookkeeping
  <2> QED
    BY <2>5, <2>6
<1>5. CASE DispatchSnapshot
  BY <1>1, <1>5 DEF DispatchSnapshot, queueVars, inboundVars, tickVars
<1> QED
  BY <1>1, <1>2, <1>3, <1>4, <1>5, StepMoves DEF Moves, Rests

----------------------------------------------------------------------------
(* Arrivals. *)

\* Work that is neither an agent event nor handed back by the engine comes from
\* outside, so admitting it disturbs nothing that is on its way.
LEMMA OutsideArrival ==
    ASSUME IInv, UNCHANGED <<script, unsent>>, stream' \in {stream, <<>>},
           \/ Queued' \subseteq Queued
           \/ \E w \in script : Queued' = Queued \cup {w} /\ ~Event(w) /\ ~Produced(w)
    PROVE  Arrivals'
<1>1. Arrivals
  BY DEF IInv
<1>2. stream' \in Seq(script')
  <2>1. stream \in Seq(script) /\ <<>> \in Seq(script) /\ script' = script
    BY <1>1 DEF Arrivals
  <2> QED
    BY <2>1
<1>3. Queued' \subseteq script'
  BY <1>1 DEF Arrivals
<1>4. ASSUME NEW w \in unsent'
      PROVE  /\ Event(w) \/ Produced(w)
             /\ w \notin Queued'
             /\ \A i \in 1..Len(stream') : stream'[i] # w
  BY <1>1 DEF Arrivals
<1>5. ASSUME NEW i \in 1..Len(stream') PROVE Event(stream'[i]) /\ stream'[i] \notin Queued'
  BY <1>1 DEF Arrivals
<1>6. \A i, j \in 1..Len(stream') : stream'[i] = stream'[j] => i = j
  BY <1>1 DEF Arrivals
<1> QED
  BY <1>1, <1>2, <1>3, <1>4, <1>5, <1>6 DEF Arrivals, Event, Produced

\* The agent emits an event: it moves from the agent to the end of the stream,
\* and may push the oldest one out.
LEMMA EmitArrival ==
    ASSUME IInv, NEW e \in script, Emit(e)
    PROVE  Arrivals'
<1> DEFINE rest == IF Len(stream) >= StreamCapacity THEN Tail(stream) ELSE stream
<1>1. Arrivals /\ Queued' = Queued
  BY DEF IInv, Emit, queueVars, Queued
<1>2. stream \in Seq(script) /\ e \in unsent /\ Event(e)
  BY <1>1 DEF Arrivals, Emit
<1> DEFINE Shifted(d) == /\ Len(rest) = Len(stream) - d
                         /\ \A i \in 1..Len(rest) : rest[i] = stream[i + d]
                                                    /\ i + d \in 1..Len(stream)
<1>3. /\ rest \in Seq(script) /\ Len(rest) \in Nat
      /\ \E d \in {0, 1} : Shifted(d)
  <2>1. CASE Len(stream) >= StreamCapacity
    <3>1. stream # <<>>
      BY <1>2, <2>1, RuntimeLimits
    <3>2. /\ Tail(stream) \in Seq(script) /\ Len(Tail(stream)) = Len(stream) - 1
          /\ \A i \in 1..Len(Tail(stream)) : Tail(stream)[i] = stream[i + 1]
      BY <1>2, <3>1
    <3>3. Shifted(1)
      BY <1>2, <2>1, <3>2
    <3>4. rest \in Seq(script) /\ Len(rest) \in Nat
      BY <1>2, <2>1, <3>2
    <3> HIDE DEF Shifted
    <3>5. \E d \in {0, 1} : Shifted(d)
      BY <3>3
    <3> QED
      BY <3>4, <3>5
  <2>2. CASE ~(Len(stream) >= StreamCapacity)
    <3>1. rest = stream
      BY <2>2
    <3>2. Shifted(0)
      BY <1>2, <3>1
    <3> HIDE DEF rest, Shifted
    <3>3. rest \in Seq(script) /\ Len(rest) \in Nat
      BY <1>2, <3>1
    <3>4. \E d \in {0, 1} : Shifted(d)
      BY <3>2
    <3> QED
      BY <3>3, <3>4
  <2> QED
    BY <2>1, <2>2
<1>4. PICK d \in {0, 1} : Shifted(d)
  BY <1>3
<1>5. stream' = Append(rest, e)
  BY DEF Emit
<1> HIDE DEF rest
<1>6. /\ stream' \in Seq(script) /\ Len(stream') = Len(rest) + 1
      /\ \A i \in 1..Len(rest) : stream'[i] = rest[i]
      /\ stream'[Len(rest) + 1] = e
  BY <1>2, <1>3, <1>5
<1>7. \A i \in 1..Len(rest) : rest[i] # e /\ Event(rest[i]) /\ rest[i] \notin Queued
  <2>1. \A i \in 1..Len(stream) : stream[i] # e
    BY <1>1, <1>2 DEF Arrivals
  <2>2. \A i \in 1..Len(stream) : Event(stream[i]) /\ stream[i] \notin Queued
    BY <1>1 DEF Arrivals
  <2> QED
    BY <1>4, <2>1, <2>2
<1>8. \A i, j \in 1..Len(rest) : rest[i] = rest[j] => i = j
  <2> SUFFICES ASSUME NEW i \in 1..Len(rest), NEW j \in 1..Len(rest), rest[i] = rest[j]
               PROVE  i = j
    OBVIOUS
  <2>1. i + d = j + d
    BY <1>1, <1>4 DEF Arrivals
  <2> QED
    BY <1>3, <2>1
<1>9. \A i \in 1..Len(stream') : i \in 1..Len(rest) \/ i = Len(rest) + 1
  BY <1>3, <1>6
<1>10. e \notin Queued /\ unsent' = unsent \ {e} /\ script' = script
  BY <1>1, <1>2 DEF Arrivals, Emit
<1>11. ASSUME NEW w \in unsent'
       PROVE  /\ Event(w) \/ Produced(w)
              /\ w \notin Queued'
              /\ \A i \in 1..Len(stream') : stream'[i] # w
  BY <1>1, <1>4, <1>6, <1>9, <1>10, <1>11 DEF Arrivals
<1>12. \A i \in 1..Len(stream') : Event(stream'[i]) /\ stream'[i] \notin Queued'
  BY <1>1, <1>2, <1>6, <1>7, <1>9, <1>10
<1>13. \A i, j \in 1..Len(stream') : stream'[i] = stream'[j] => i = j
  BY <1>6, <1>7, <1>8, <1>9
<1> QED
  BY <1>1, <1>6, <1>10, <1>11, <1>12, <1>13 DEF Arrivals, Event, Produced

\* The loop receives the oldest event of the stream.
LEMMA ReceiveArrival ==
    ASSUME IInv, ReceiveEvent
    PROVE  Arrivals'
<1>1. Arrivals /\ QueueProofs!IInv
  BY DEF IInv
<1>2. CASE lagged
  <2>1. PICK w \in Recoveries \ Queued : Push(w)
    BY <1>2 DEF ReceiveEvent, OnLagged, PushRecover
  <2>2. w \in script /\ w \in Work /\ ~Event(w) /\ ~Produced(w)
    BY <1>1, <2>1 DEF Arrivals, Recoveries, Recovery, Item, Event, Produced
  <2>3. Queued' = Queued \cup {w}
    BY <1>1, <2>1, <2>2, AdmitQueued
  <2> QED
    BY <1>2, <2>2, <2>3, OutsideArrival DEF ReceiveEvent
<1>3. CASE ~lagged
  <2> DEFINE e == Head(stream)
  <2>1. /\ stream \in Seq(script) /\ stream # <<>> /\ Push(e) /\ stream' = Tail(stream)
        /\ unsent' = unsent /\ script' = script
    BY <1>1, <1>3 DEF ReceiveEvent, Arrivals
  <2>2. /\ e = stream[1] /\ 1 \in 1..Len(stream)
        /\ stream' \in Seq(script) /\ Len(stream') = Len(stream) - 1
        /\ \A i \in 1..Len(stream') : stream'[i] = stream[i + 1] /\ i + 1 \in 1..Len(stream)
    BY <2>1
  <2>3. e \in script /\ e \in Work /\ e \notin unsent
    BY <1>1, <2>1, <2>2 DEF Arrivals
  <2>4. Queued' = Queued \cup {e}
    BY <1>1, <2>1, <2>3, AdmitQueued
  <2>5. \A i \in 1..Len(stream') : stream'[i] # e
    BY <1>1, <2>1, <2>2 DEF Arrivals
  <2> HIDE DEF e
  <2>6. \A i, j \in 1..Len(stream') : stream'[i] = stream'[j] => i = j
    <3> SUFFICES ASSUME NEW i \in 1..Len(stream'), NEW j \in 1..Len(stream'),
                        stream'[i] = stream'[j]
                 PROVE  i = j
      OBVIOUS
    <3>1. i + 1 = j + 1
      BY <1>1, <2>2 DEF Arrivals
    <3> QED
      BY <2>1, <2>2, <3>1
  <2>7. \A i \in 1..Len(stream') : Event(stream'[i]) /\ stream'[i] \notin Queued'
    BY <1>1, <2>2, <2>4, <2>5 DEF Arrivals
  <2>8. ASSUME NEW w \in unsent'
        PROVE  /\ Event(w) \/ Produced(w)
               /\ w \notin Queued'
               /\ \A i \in 1..Len(stream') : stream'[i] # w
    BY <1>1, <2>1, <2>2, <2>3, <2>4 DEF Arrivals
  <2> QED
    BY <1>1, <2>1, <2>2, <2>3, <2>4, <2>6, <2>7, <2>8 DEF Arrivals, Event, Produced
<1> QED
  BY <1>2, <1>3

\* Every step keeps what arrives in one place.
LEMMA ArrivalsKept ==
    ASSUME IInv, [Next]_vars
    PROVE  Arrivals'
<1>1. Arrivals /\ QueueProofs!IInv
  BY DEF IInv
<1>2. CASE Top
  <2>1. CASE UNCHANGED queueVars
    BY <1>2, <2>1, OutsideArrival DEF Top, queueVars, Queued
  <2>2. CASE ~UNCHANGED queueVars
    <3>1. PICK w \in Recoveries \ Queued : Push(w)
      BY <1>2, <2>2 DEF Top, PushRecover
    <3>2. w \in script /\ w \in Work /\ ~Event(w) /\ ~Produced(w)
      BY <1>1, <3>1 DEF Arrivals, Recoveries, Recovery, Item, Event, Produced
    <3>3. Queued' = Queued \cup {w}
      BY <1>1, <3>1, <3>2, AdmitQueued
    <3> QED
      BY <1>2, <3>2, <3>3, OutsideArrival DEF Top
  <2> QED
    BY <2>1, <2>2
<1>3. CASE \E w \in script : AdmitInbound(w)
  <2>1. PICK w \in script : AdmitInbound(w)
    BY <1>3
  <2>2. UNCHANGED <<script, unsent, stream>> /\ w \in Work /\ ~Event(w) /\ ~Produced(w)
    BY <1>1, <2>1 DEF AdmitInbound, streamVars, Arrivals, Inbound, Event, Produced
  <2>3. CASE UNCHANGED queueVars
    BY <2>2, <2>3, OutsideArrival DEF queueVars, Queued
  <2>4. CASE Push(w)
    BY <1>1, <2>2, <2>4, AdmitQueued, OutsideArrival
  <2> QED
    BY <2>1, <2>3, <2>4 DEF AdmitInbound
<1>4. CASE \E w \in script : AdmitProduced(w)
  <2>1. PICK w \in script : AdmitProduced(w)
    BY <1>4
  <2>2. w \in unsent /\ Produced(w) /\ w \in Work /\ unsent' = unsent \ {w}
    BY <1>1, <2>1 DEF AdmitProduced, Arrivals
  <2>3. Queued' = Queued \cup {w} /\ UNCHANGED <<stream, script>>
    BY <1>1, <2>1, <2>2, AdmitQueued DEF AdmitProduced
  <2> QED
    BY <1>1, <2>2, <2>3 DEF Arrivals, Event, Produced
<1>5. CASE ReceiveEvent
  BY <1>5, ReceiveArrival
<1>6. CASE ScheduleRefreshes
  <2>1. UNCHANGED <<script, unsent, stream>>
    BY <1>6 DEF ScheduleRefreshes, streamVars
  <2>2. CASE UNCHANGED queueVars
    BY <2>1, <2>2, OutsideArrival DEF queueVars, Queued
  <2>3. CASE ~UNCHANGED queueVars
    <3> DEFINE w == Head(todo.items)
    <3>1. Offered(w) /\ Push(w)
      BY <1>6, <2>3 DEF ScheduleRefreshes, Tick, OfferMaintenance, ReadTurns, OfferWorking,
                        TickEnds
    <3>2. w \in script /\ w \in Work /\ ~Event(w) /\ ~Produced(w)
      BY <1>1, <3>1 DEF Offered, Arrivals, Refresh, Event, Produced
    <3> HIDE DEF w
    <3> QED
      BY <1>1, <2>1, <3>1, <3>2, AdmitQueued, OutsideArrival
  <2> QED
    BY <2>2, <2>3
<1>7. CASE StartReady
  <2>1. Starts
    BY <1>7, StartMoves
  <2>2. Queued' = Queued
    BY <1>1, <2>1, StartQueued DEF Starts
  <2> QED
    BY <1>7, <2>2, OutsideArrival DEF StartReady, streamVars
<1>8. CASE \E w \in script : RetireWorker(w) \/ RetireStopped(w)
  <2>1. PICK w \in script : Retire(w)
    BY <1>8 DEF RetireWorker, RetireStopped
  <2>2. Queued' \subseteq Queued
    BY <2>1 DEF Retire, Queued
  <2> QED
    BY <2>1, <2>2, OutsideArrival DEF Retire, streamVars
<1>9. CASE \E e \in script : Emit(e)
  BY <1>9, EmitArrival
<1>10. CASE UNCHANGED <<script, unsent, stream, queueVars>>
  BY <1>10, OutsideArrival DEF queueVars, Queued
<1> QED
  BY <1>2, <1>3, <1>4, <1>5, <1>6, <1>7, <1>8, <1>9, <1>10
     DEF Next, Loop, vars, DispatchSnapshot, ScanEnds, Abort, WorkerStep, ConfigurationChanged,
         StopSelected, Stopped, Reload, Cancel, streamVars

----------------------------------------------------------------------------
(* Phases and claims. *)

\* The loop ends with no worker left, and nothing starts one afterwards.
LEMMA PhasesKept ==
    ASSUME IInv, [Next]_vars
    PROVE  Phases'
<1>1. Phases
  BY DEF IInv
<1>2. CASE Top \/ DispatchSnapshot \/ StartReady \/ ScanEnds
  BY <1>1, <1>2 DEF Phases, Top, DispatchSnapshot, ReadBindings, ReadActions, ReadReplies,
                    StartReady, ScanEnds, queueVars
<1>3. CASE (\E w \in script : AdmitInbound(w) \/ AdmitProduced(w)) \/ ReceiveEvent
  BY <1>1, <1>3 DEF Phases, AdmitInbound, AdmitProduced, ReceiveEvent
<1>4. CASE ScheduleRefreshes
  BY <1>1, <1>4 DEF Phases, ScheduleRefreshes, Tick, OfferMaintenance, ReadTurns,
                    OfferWorking, TickEnds
<1>5. CASE \E w \in script : RetireWorker(w) \/ RetireStopped(w)
  BY <1>1, <1>5 DEF Phases, RetireWorker, RetireStopped
<1>6. CASE StopSelected \/ Stopped \/ ConfigurationChanged
  BY <1>1, <1>6 DEF Phases, StopSelected, Stopped, ConfigurationChanged, queueVars
<1>7. CASE UNCHANGED <<pc, active>>
  BY <1>1, <1>7 DEF Phases
<1> QED
  BY <1>2, <1>3, <1>4, <1>5, <1>6, <1>7
     DEF Next, Loop, vars, queueVars, Abort, WorkerStep, Emit, Reload, Cancel

\* What Claims says of one operation.
Claimed(w) ==
    /\ status[w] = "processing" =>
          \/ w \in active /\ Inbound(w) /\ worker[w] \in {"claimed", "acted", "failed"}
          \/ "unwritten" \in outcome[w]
    /\ w \in active /\ worker[w] \in {"claimed", "acted"} => status[w] = "processing"
    /\ "effect" \in outcome[w] =>
          \/ status[w] \in {"completed", "uncertain"}
          \/ outcome[w] \cap {"error", "unwritten"} # {}
          \/ /\ status[w] = "processing" /\ w \in active
             /\ worker[w] \in {"claimed", "acted", "failed"}

\* A change to the entries of one operation.
Settles(w, step, answer, marks) ==
    /\ worker' = [worker EXCEPT ![w] = step] /\ step \in Progress
    /\ status' = [status EXCEPT ![w] = answer] /\ answer \in Statuses
    /\ outcome' = [outcome EXCEPT ![w] = marks] /\ marks \in SUBSET Marks

\* claim_event, the handler, complete_event and release_event, in any worker.
LEMMA WorkerClaims ==
    ASSUME IInv, NEW w \in script, WorkerStep(w)
    PROVE  Claims'
<1>1. /\ w \in Work /\ w \in active /\ active' = active
      /\ worker \in [Work -> Progress] /\ status \in [Work -> Statuses]
      /\ outcome \in [Work -> SUBSET Marks]
      /\ \A v \in Work : Claimed(v)
  BY DEF IInv, Arrivals, Claims, Claimed, WorkerStep, queueVars
<1>2. ASSUME NEW step, NEW answer, NEW marks, Settles(w, step, answer, marks), Claimed(w)'
      PROVE  Claims'
  <2>1. /\ worker' \in [Work -> Progress] /\ status' \in [Work -> Statuses]
        /\ outcome' \in [Work -> SUBSET Marks]
    BY <1>1, <1>2 DEF Settles
  <2>2. ASSUME NEW v \in Work, v # w PROVE Claimed(v)'
    <3>1. worker'[v] = worker[v] /\ status'[v] = status[v] /\ outcome'[v] = outcome[v]
      BY <1>1, <1>2, <2>2 DEF Settles
    <3> QED
      BY <1>1, <3>1 DEF Claimed
  <2> QED
    BY <1>2, <2>1, <2>2 DEF Claims, Claimed
<1>3. CASE Claim(w)
  <2>1. CASE worker' = [worker EXCEPT ![w] = "claimed"]
    <3>1. Settles(w, "claimed", "processing", outcome[w] \cap {"effect"})
      BY <1>1, <1>3, <2>1 DEF Claim, Settles, Progress, Statuses
    <3>2. Claimed(w)'
      BY <1>1, <1>3, <3>1 DEF Claim, Claimed, Settles
    <3> QED
      BY <1>2, <3>1, <3>2
  <2>2. CASE UNCHANGED <<status, outcome>> /\ worker' = [worker EXCEPT ![w] = "done"]
    <3>1. Settles(w, "done", status[w], outcome[w])
      BY <1>1, <2>2 DEF Settles, Progress
    <3>2. Claimed(w)'
      BY <1>1, <1>3, <3>1 DEF Claim, Claimed, Settles
    <3> QED
      BY <1>2, <3>1, <3>2
  <2> QED
    BY <1>3, <2>1, <2>2 DEF Claim
<1>4. CASE Execute(w)
  <2>1. CASE Inbound(w)
    <3>1. Settles(w, "acted", status[w], outcome[w] \cup {"effect"})
      BY <1>1, <1>4, <2>1 DEF Execute, Mark, Settles, Progress, Marks
    <3>2. Claimed(w)'
      BY <1>1, <1>4, <2>1, <3>1 DEF Execute, Claimed, Settles
    <3> QED
      BY <1>2, <3>1, <3>2
  <2>2. CASE ~Inbound(w)
    <3>1. Settles(w, "done", status[w], outcome[w])
      BY <1>1, <1>4, <2>2 DEF Execute, Settles, Progress
    <3>2. Claimed(w)'
      BY <1>1, <1>4, <2>2, <3>1 DEF Execute, Claimed, Settles
    <3> QED
      BY <1>2, <3>1, <3>2
  <2> QED
    BY <2>1, <2>2
<1>5. ASSUME NEW answer \in Statuses \ {"processing"}, NEW marks \in SUBSET Marks,
             worker[w] \in {"claimed", "acted"}, Settle(w, answer, marks),
             answer \in {"completed", "uncertain"} \/ "error" \in marks
      PROVE  Claims'
  <2>1. CASE status' = [status EXCEPT ![w] = answer] /\ outcome' = Mark(w, marks)
    <3>1. Settles(w, "done", answer, outcome[w] \cup marks)
      BY <1>1, <1>5, <2>1 DEF Settle, Mark, Settles, Progress, Statuses
    <3>2. Claimed(w)'
      BY <1>1, <1>5, <3>1 DEF Claimed, Settles
    <3> QED
      BY <1>2, <3>1, <3>2
  <2>2. CASE outcome' = Mark(w, marks \cup {"unwritten"}) /\ UNCHANGED status
    <3>1. Settles(w, "done", status[w], outcome[w] \cup marks \cup {"unwritten"})
      BY <1>1, <1>5, <2>2 DEF Settle, Mark, Settles, Progress, Marks
    <3>2. Claimed(w)'
      BY <1>1, <3>1 DEF Claimed, Settles
    <3> QED
      BY <1>2, <3>1, <3>2
  <2> QED
    BY <1>5, <2>1, <2>2 DEF Settle
<1>6. CASE Complete(w)
  BY <1>5, <1>6 DEF Complete, Statuses
<1>7. CASE Fail(w)
  BY <1>5, <1>7 DEF Fail, Statuses, Marks
<1>8. CASE Panic(w)
  <2>1. Settles(w, "failed", status[w], outcome[w])
    BY <1>1, <1>8 DEF Panic, Settles, Progress
  <2>2. Claimed(w)'
    BY <1>1, <1>8, <2>1 DEF Panic, Claimed, Settles
  <2> QED
    BY <1>2, <2>1, <2>2
<1> QED
  BY <1>3, <1>4, <1>6, <1>7, <1>8 DEF WorkerStep

\* retire fences the claim of a worker that was aborted or panicked.
LEMMA RetireClaims ==
    ASSUME IInv, NEW w \in script, Retire(w)
    PROVE  Claims'
<1>1. /\ w \in Work /\ w \in active /\ active' = active \ {w}
      /\ worker' = [worker EXCEPT ![w] = "idle"] /\ Settled(w)
      /\ \/ status' = Fence(w) /\ outcome' = outcome
         \/ /\ Inbound(w) /\ worker[w] = "failed"
            /\ outcome' = Mark(w, {"unwritten"}) /\ status' = status
      /\ worker \in [Work -> Progress] /\ status \in [Work -> Statuses]
      /\ outcome \in [Work -> SUBSET Marks]
      /\ \A v \in Work : Claimed(v)
  BY DEF IInv, Arrivals, Claims, Claimed, Retire
<1>2. /\ worker' \in [Work -> Progress] /\ status' \in [Work -> Statuses]
      /\ outcome' \in [Work -> SUBSET Marks]
  BY <1>1 DEF Fence, Mark, Marks, Progress, Statuses
<1>3. ASSUME NEW v \in Work, v # w PROVE Claimed(v)'
  <2>1. /\ status'[v] = status[v] /\ worker'[v] = worker[v] /\ outcome'[v] = outcome[v]
        /\ (v \in active' <=> v \in active)
    BY <1>1, <1>3 DEF Fence, Mark
  <2> QED
    BY <1>1, <2>1 DEF Claimed
<1>4. Claimed(w)'
  <2>1. w \notin active' /\ Claimed(w)
    BY <1>1
  <2>2. CASE status' = Fence(w) /\ outcome' = outcome
    <3>1. CASE Inbound(w) /\ worker[w] = "failed" /\ status[w] \in {"none", "processing"}
      <4>1. status'[w] = "uncertain"
        BY <1>1, <2>2, <3>1 DEF Fence
      <4> QED
        BY <2>1, <4>1 DEF Claimed
    <3>2. CASE ~(Inbound(w) /\ worker[w] = "failed" /\ status[w] \in {"none", "processing"})
      <4>1. status' = status
        BY <2>2, <3>2 DEF Fence
      <4> QED
        BY <1>1, <2>1, <2>2, <3>2, <4>1 DEF Claimed, Settled
    <3> QED
      BY <3>1, <3>2
  <2>3. CASE outcome' = Mark(w, {"unwritten"}) /\ status' = status
    <3>1. "unwritten" \in outcome'[w]
      BY <1>1, <2>3 DEF Mark
    <3> QED
      BY <2>1, <3>1 DEF Claimed
  <2> QED
    BY <1>1, <2>2, <2>3
<1> QED
  BY <1>2, <1>3, <1>4 DEF Claims, Claimed

\* Every step keeps the claims of inbound work.
LEMMA ClaimsKept ==
    ASSUME IInv, [Next]_vars
    PROVE  Claims'
<1>1. /\ worker \in [Work -> Progress] /\ status \in [Work -> Statuses]
      /\ outcome \in [Work -> SUBSET Marks]
      /\ \A v \in Work : Claimed(v)
      /\ script \subseteq Work
  BY DEF IInv, Arrivals, Claims, Claimed
<1>2. CASE \E w \in script : WorkerStep(w)
  BY <1>2, WorkerClaims
<1>3. CASE \E w \in script : RetireWorker(w) \/ RetireStopped(w)
  BY <1>3, RetireClaims DEF RetireWorker, RetireStopped
<1>4. CASE StartReady
  <2>1. PICK i \in 1..Len(pending) : /\ active' = active \cup {pending[i]}
                                     /\ worker' = [worker EXCEPT ![pending[i]] = "running"]
    BY <1>4 DEF StartReady
  <2>2. pending[i] \in Work /\ pending[i] \notin active /\ UNCHANGED <<status, outcome>>
    BY <1>4, QueueFacts DEF StartReady, IInv
  <2>3. worker' \in [Work -> Progress]
    BY <1>1, <2>1, <2>2 DEF Progress
  <2>4. ASSUME NEW v \in Work PROVE Claimed(v)'
    <3>1. CASE v = pending[i]
      BY <1>1, <2>1, <2>2, <3>1 DEF Claimed
    <3>2. CASE v # pending[i]
      BY <1>1, <2>1, <2>2, <3>2 DEF Claimed
    <3> QED
      BY <3>1, <3>2
  <2> QED
    BY <1>1, <2>2, <2>3, <2>4 DEF Claims, Claimed
<1>5. CASE \E w \in script : AdmitInbound(w)
  <2>1. PICK w \in script : AdmitInbound(w)
    BY <1>5
  <2>2. /\ UNCHANGED <<worker, outcome, active>>
        /\ \/ status' = status
           \/ status[w] \in {"none", "failed"} /\ status' = [status EXCEPT ![w] = "rejected"]
    BY <2>1 DEF AdmitInbound, queueVars, Push
  <2>3. status' \in [Work -> Statuses]
    BY <1>1, <2>2 DEF Statuses
  <2>4. ASSUME NEW v \in Work PROVE Claimed(v)'
    <3>1. CASE status'[v] = status[v]
      BY <1>1, <2>2, <3>1 DEF Claimed
    <3>2. CASE status'[v] # status[v]
      BY <1>1, <2>2, <3>2 DEF Claimed
    <3> QED
      BY <3>1, <3>2
  <2> QED
    BY <1>1, <2>2, <2>3, <2>4 DEF Claims, Claimed
<1>6. CASE \E w \in script : Abort(w)
  <2>1. PICK w \in script : Abort(w)
    BY <1>6
  <2>2. UNCHANGED <<active, status, outcome>> /\ worker' = [worker EXCEPT ![w] = "failed"]
    BY <2>1 DEF Abort, queueVars
  <2>3. worker' \in [Work -> Progress]
    BY <1>1, <2>2 DEF Progress
  <2>4. ASSUME NEW v \in Work PROVE Claimed(v)'
    <3>1. CASE v = w
      BY <1>1, <2>1, <2>2, <3>1 DEF Claimed, Abort, Settled
    <3>2. CASE v # w
      BY <1>1, <2>2, <3>2 DEF Claimed
    <3> QED
      BY <3>1, <3>2
  <2> QED
    BY <1>1, <2>2, <2>3, <2>4 DEF Claims, Claimed
<1>7. CASE UNCHANGED <<active, worker, status, outcome>>
  BY <1>1, <1>7 DEF Claims, Claimed
<1> QED
  BY <1>2, <1>3, <1>4, <1>5, <1>6, <1>7
     DEF Next, Loop, vars, queueVars, Top, PushRecover, Push, DispatchSnapshot, ScanEnds,
         AdmitProduced, ReceiveEvent, OnLagged, ScheduleRefreshes, Tick, OfferMaintenance,
         ReadTurns, OfferWorking, TickEnds, ConfigurationChanged, StopSelected, Stopped,
         Emit, Reload, Cancel

\* An event lost, or a recovery, keeps what is known of each session typed.
LEMMA GapsKept ==
    ASSUME IInv, [Next]_vars
    PROVE  Gaps'
<1>1. gap \in Losses
  BY DEF IInv, Gaps
<1>2. CASE UNCHANGED gap
  BY <1>1, <1>2 DEF Gaps
<1>3. CASE \E ss : gap' = Lose(ss)
  BY <1>1, <1>3 DEF Gaps, Losses, Lose
<1>4. CASE \E w \in script : WorkerStep(w)
  <2>1. PICK w \in script : WorkerStep(w)
    BY <1>4
  <2>2. CASE Execute(w) /\ w.kind = "recover"
    <3>1. RecoverEventGap
      BY <2>2 DEF Execute, Inbound, Event, HandleOther
    <3> QED
      BY <1>1, <3>1 DEF RecoverEventGap, Gaps, Losses
  <2>3. CASE ~(Execute(w) /\ w.kind = "recover")
    BY <1>2, <2>1, <2>3 DEF WorkerStep, Execute, Claim, Complete, Fail, Settle, Panic
  <2> QED
    BY <2>2, <2>3
<1> QED
  BY <1>2, <1>3, <1>4 DEF Next, Loop, vars, Top, DispatchSnapshot, StartReady, ScanEnds,
     AdmitInbound, AdmitProduced, ReceiveEvent, ScheduleRefreshes, RetireWorker,
     RetireStopped, Retire, Abort, ConfigurationChanged, StopSelected, Stopped, Emit,
     Reload, Cancel

----------------------------------------------------------------------------
(* The invariant holds. *)

\* A new runtime: an empty queue and the saved bindings.
LEMMA InitEstablishes == Init => IInv /\ Queue!Init
<1> SUFFICES ASSUME Init PROVE IInv /\ Queue!Init
  OBVIOUS
<1>1. Queued = {}
  BY DEF Init, Queued
<1>2. snapshot \in Views /\ Tables
  <2>1. Bound \in Bindings /\ [c \in Conversations |-> None] \in Bindings
    BY RuntimeLimits DEF Bindings
  <2>2. switching \subseteq Conversations
    <3>1. \A w \in script : w.kind = "switch" => w.c \in Conversations
      BY WorkTyped, RuntimeLimits DEF Init
    <3> QED
      BY <3>1 DEF Init
  <2>3. Live \in Views
    BY <2>1 DEF Init, Live, Views
  <2> QED
    BY <2>1, <2>2, <2>3 DEF Init, Tables
<1>3. Arrivals
  BY <1>1, RuntimeLimits, WorkTyped DEF Init, Arrivals
<1>4. Bookkeeping
  <2>1. IsFiniteSet({}) /\ Cardinality({}) = 0
    BY FS_EmptySet
  <2>2. \A c \in Conversations : {w \in ids : w.c = c} = {}
    BY DEF Init
  <2> QED
    BY <1>1, <2>1, <2>2 DEF Init, Bookkeeping
<1>5. Phases /\ Claims
  BY DEF Init, Phases, Claims, Progress, Statuses, Marks
<1>8. Gaps
  BY DEF Init, Gaps, Losses
<1>6. Queue!Init
  <2>1. ScopesUnder(snapshot) \in [Work -> Scopes]
    BY <1>2, SnapshotRoutes
  <2> QED
    BY <2>1 DEF Init, Queue!Init, Queue!Global, Global, Scopes
<1>7. QueueProofs!IInv
  <2>1. QueueProofs!LimitsPositive /\ QueueProofs!RoutingsGiveScopes /\ QueueProofs!ReroutesNat
    BY RuntimeLimits DEF RuntimeLimits, QueueProofs!LimitsPositive,
         QueueProofs!RoutingsGiveScopes, QueueProofs!ReroutesNat, QueueProofs!Scopes
  <2>2. QueueProofs!Init
    BY <1>6, SameQueue
  <2> QED
    BY <2>1, <2>2, QueueProofs!InitEstablishes
<1> QED
  BY <1>2, <1>3, <1>4, <1>5, <1>6, <1>7, <1>8 DEF IInv

\* The inductive invariant holds in every state.
LEMMA Inductive == Spec => []IInv
<1>1. Init => IInv
  BY InitEstablishes
<1>2. IInv /\ [Next]_vars => IInv'
  <2> SUFFICES ASSUME IInv, [Next]_vars PROVE IInv'
    OBVIOUS
  <2> QED
    BY QueueKept, TablesKept, ArrivalsKept, BookkeepingKept, PhasesKept, ClaimsKept,
       GapsKept DEF IInv
<1> QED
  BY <1>1, <1>2, PTL DEF Spec

\* inbound_ids and inbound_counts say exactly which requests of a conversation
\* are unfinished, and refreshes which refreshes are, whatever the workers do.
THEOREM TypesHold == Spec => []TypeOK
<1>1. IInv => TypeOK
  BY DEF IInv, Tables, Arrivals, Bookkeeping, Phases, Claims, Views, Bindings, Progress,
         Statuses, Gaps, Losses, TypeOK
<1> QED
  BY <1>1, Inductive, PTL

\* engine_runtime.rs uses its DispatchQueue as it is specified: each step of the
\* loop and of a worker is a step of the queue or leaves the queue alone.
THEOREM ImplementsQueueHolds == Spec => ImplementsQueue
<1>1. Init => Queue!Init
  BY InitEstablishes
<1>2. IInv /\ [Next]_vars => [Queue!Next]_(Queue!vars)
  BY StepImplements
<1> QED
  BY <1>1, <1>2, Inductive, PTL DEF Spec, ImplementsQueue, Queue!Spec

\* The workers of the runtime hold scopes that do not conflict, although the
\* snapshots they were dispatched from are out of date.
THEOREM ExclusionHolds == Spec => []Queue!Exclusion
<1>1. IInv => Queue!Exclusion
  BY DEF IInv, QueueProofs!IInv, QueueProofs!Exclusion, QueueProofs!Conflict,
         Queue!Exclusion, Queue!Conflict
<1> QED
  BY <1>1, Inductive, PTL

\* Whatever interrupts the workers, stop_workers leaves no claim open and no effect
\* to a replay, save where a write failed or a handler ended with an error.
THEOREM FencedAtStopHolds == Spec => []FencedAtStop
<1>1. IInv => FencedAtStop
  BY DEF IInv, Arrivals, Phases, Claims, FencedAtStop
<1> QED
  BY <1>1, Inductive, PTL

----------------------------------------------------------------------------
(* Two handlers in progress never touch the same conversation or session.  *)
(*                                                                         *)
(* The routing an operation was dispatched with is out of date as soon as  *)
(* another worker binds something, and the snapshot it was taken from was  *)
(* read table by table while workers ran.  It suffices nevertheless: a     *)
(* worker changes only what its scope holds, so whatever a snapshot says   *)
(* of a conversation that no active operation holds is still true.         *)
(* Resuming a session is left out: it follows the row of the binding,      *)
(* which admission does not know.                                          *)

\* An operation holds the conversations and sessions its scope names, and the
\* sessions of the agents it fences.
Holds(w, k) ==
    \/ held[w].global
    \/ k \in held[w].exclusive
    \/ k \in Sessions /\ BackendOf[k] \in held[w].exclusive

\* reserve_session: with a session goes a share of its agent.
Shares ==
    \A w \in active :
        held[w].global \/ {BackendOf[s] : s \in held[w].exclusive \cap Sessions}
                             \subseteq held[w].shared

InProgress(w) == w \in active /\ worker[w] \in {"running", "claimed"}

\* The scope of a handler in progress is what its routing would be now.
Current(w) ==
    LET own == held[w].exclusive
    IN  held[w].global \/
        /\ w.kind \notin {"recover", "disconnected"}
        /\ {w.c} \ {None} \subseteq own
        /\ w.kind # "switch" => {w.s} \ {None} \subseteq own
        /\ Event(w) => {w.r} \ {None} \subseteq own
        /\ Inbound(w) => {current[w.c], replies[w.c]} \ {None} \subseteq own
        /\ w.kind \in {"reattach", "switch"} => {current[w.c]} \ {None} \subseteq own
        /\ w.kind \in {"replace", "switch"} /\ current[w.c] # None =>
              BackendOf[current[w.c]] \in own
        /\ w.kind = "launch" => Backends \subseteq own
        /\ \A s \in own \cap Sessions : Route(Live, s) \subseteq own

Scoped == \A w \in Work : InProgress(w) => Current(w)

\* What differs from a view by now was changed by an operation that is still
\* active and holds all that the change was about.
Traced(view) ==
    /\ \A c \in Conversations : view.current[c] # current[c] =>
          \E u \in active : \A k \in {c, view.current[c], current[c]} \ {None} : Holds(u, k)
    /\ \A s \in Sessions : view.draining[s] # draining[s] =>
          \E u \in active : Holds(u, s)
RepliesTraced(view) ==
    \A c \in Conversations : view.replies[c] # replies[c] =>
        \E u \in active : Holds(u, c)

Snapshots ==
    /\ pc \in {"actions", "replies"} => Traced(partial)
    /\ pc = "scan" => Traced(snapshot) /\ RepliesTraced(snapshot)

----------------------------------------------------------------------------
(* Scopes. *)

\* Two active operations hold nothing in common.
LEMMA OneHolder ==
    ASSUME IInv, Shares, NEW v \in active, NEW w \in active, NEW k,
           Holds(v, k), Holds(w, k)
    PROVE  v = w
<1> SUFFICES ASSUME v # w PROVE FALSE
  OBVIOUS
<1>1. /\ ~held[v].global /\ ~held[w].global
      /\ held[v].exclusive \cap held[w].exclusive = {}
      /\ held[v].exclusive \cap held[w].shared = {}
      /\ held[w].exclusive \cap held[v].shared = {}
  BY DEF IInv, QueueProofs!IInv, QueueProofs!Exclusion, QueueProofs!Conflict
<1> QED
  BY <1>1 DEF Shares, Holds

\* engine_scope: what a scope of a snapshot reserves.
LEMMA ScopeReserves ==
    ASSUME NEW view \in Views, NEW w \in Work, ~Scope(w, view).global
    PROVE  LET own == Scope(w, view).exclusive
           IN  /\ w.kind \notin {"recover", "disconnected"}
               /\ {w.c} \ {None} \subseteq own
               /\ Reserved(w, view) \subseteq own
               /\ Fenced(w, view) \subseteq own
               /\ own \cap Sessions \subseteq Reserved(w, view)
               /\ \A s \in Reserved(w, view) : /\ BackendOf[s] \in Scope(w, view).shared
                                                /\ Route(view, s) \subseteq own
<1>1. ~(\/ w.kind \in {"recover", "disconnected"}
        \/ w.kind \in {"press", "answer"} /\ w.s \notin view.actions)
  BY DEF Scope, Global
<1> DEFINE ss == Reserved(w, view)
           board == IF w.kind = "board" THEN {TaskBoard} ELSE {}
           own == Scope(w, view).exclusive
<1>2. /\ Scope(w, view).shared = {BackendOf[s] : s \in ss}
      /\ own = ss \cup (UNION {Route(view, s) : s \in ss}) \cup ({w.c} \ {None})
                  \cup Fenced(w, view) \cup board
  BY <1>1 DEF Scope
<1>3. \A s \in Sessions : Route(view, s) \subseteq Conversations
  BY DEF Route, Views
<1>4. /\ w.c \in Conversations \cup {None}
      /\ ss \subseteq Sessions /\ Fenced(w, view) \subseteq Backends
  <2>1. /\ view.current \in Bindings /\ view.replies \in Bindings
    BY DEF Views
  <2>2. /\ w.c \in Conversations \cup {None} /\ w.s \in Sessions \cup {None}
        /\ w.r \in Sessions \cup {None}
        /\ Inbound(w) \/ w.kind \in {"reattach", "switch"} => w.c \in Conversations
    BY <1>1, WorkTyped
  <2>3. ss \subseteq Sessions
    BY <2>1, <2>2 DEF Reserved, Bindings
  <2>4. w.kind \in {"switch", "replace"} => view.current[w.c] \in Sessions \cup {None}
    BY <2>1, <2>2 DEF Inbound, Bindings
  <2>5. \A s \in Sessions : BackendOf[s] \in Backends
    BY RuntimeLimits
  <2>6. Fenced(w, view) \subseteq Backends
    BY <2>4, <2>5 DEF Fenced, ReserveBackend
  <2> QED
    BY <2>2, <2>3, <2>6
<1> HIDE DEF ss
<1>5. own \cap Sessions \subseteq ss
  BY <1>2, <1>3, <1>4, ResourcesApart
<1>6. \A s \in ss : BackendOf[s] \in Scope(w, view).shared /\ Route(view, s) \subseteq own
  BY <1>2
<1>7. {w.c} \ {None} \subseteq own /\ ss \subseteq own /\ Fenced(w, view) \subseteq own
  BY <1>2
<1> HIDE DEF own
<1> QED
  BY <1>1, <1>5, <1>6, <1>7 DEF ss, own
----------------------------------------------------------------------------
(* What a handler does is within its scope. *)

\* The handlers read and change only what their operations hold.
LEMMA TouchedHeld ==
    ASSUME IInv, NEW w \in Work, w.kind # "resumed", Current(w), NEW k \in Touched(w)
    PROVE  Holds(w, k)
<1> SUFFICES ASSUME ~held[w].global PROVE Holds(w, k)
  BY DEF Holds
<1> DEFINE own == held[w].exclusive
<1>1. /\ w.kind \notin {"recover", "disconnected"}
      /\ {w.c} \ {None} \subseteq own
      /\ w.kind # "switch" => {w.s} \ {None} \subseteq own
      /\ Event(w) => {w.r} \ {None} \subseteq own
      /\ Inbound(w) => {current[w.c], replies[w.c]} \ {None} \subseteq own
      /\ w.kind \in {"reattach", "switch"} => {current[w.c]} \ {None} \subseteq own
      /\ w.kind \in {"replace", "switch"} /\ current[w.c] # None =>
            BackendOf[current[w.c]] \in own
      /\ w.kind = "launch" => Backends \subseteq own
      /\ \A s \in own \cap Sessions : Route(Live, s) \subseteq own
  BY DEF Current
<1> DEFINE sessions ==
        (CASE Inbound(w) -> {current[w.c], replies[w.c]}
                              \cup IF w.kind = "attach" \/ w.s \in actions THEN {w.s} ELSE {}
           [] Event(w) -> {w.s, w.r}
           [] w.kind = "reattach" -> {current[w.c], w.s}
           [] w.kind = "switch" -> {current[w.c]}
           [] OTHER -> {w.s}) \ {None}
     obtained == IF w.kind \in {"replace", "launch", "switch"} /\ Replacement(w)
                 THEN {w.r} ELSE {}
<1>2. k \in sessions \cup obtained \cup (UNION {Route(Live, s) : s \in sessions})
               \cup ({w.c} \ {None})
  BY <1>1 DEF Touched
<1>3. sessions \subseteq own \cap Sessions
  <2>1. /\ w.s \in Sessions \cup {None}
        /\ w.r \in Sessions \cup {None}
        /\ Inbound(w) \/ w.kind \in {"reattach", "switch"} => w.c \in Conversations
    BY <1>1, WorkTyped
  <2>2. Inbound(w) \/ w.kind \in {"reattach", "switch"} =>
           current[w.c] \in Sessions \cup {None} /\ replies[w.c] \in Sessions \cup {None}
    BY <2>1 DEF IInv, Tables, Bindings
  <2>3. w.kind = "switch" => ~Inbound(w) /\ ~Event(w)
    BY DEF Inbound, Event
  <2>4. sessions \subseteq Sessions
    BY <2>1, <2>2 DEF Inbound, Event
  <2>5. sessions \subseteq own
    BY <1>1, <2>3
  <2> QED
    BY <2>4, <2>5
<1>4. ASSUME NEW s \in obtained PROVE Holds(w, s)
  <2>1. s = w.r /\ w.r # None /\ w.kind \in {"replace", "launch", "switch"} /\ Replacement(w)
    BY DEF Replacement
  <2>2. w.r \in Sessions
    BY <1>1, <2>1, WorkTyped
  <2>3. BackendOf[w.r] \in own
    BY <1>1, <2>1, <2>2, RuntimeLimits DEF Replacement
  <2> QED
    BY <2>1, <2>2, <2>3 DEF Holds
<1> HIDE DEF sessions, obtained
<1>5. UNION {Route(Live, s) : s \in sessions} \subseteq own
  BY <1>1, <1>3
<1> QED
  BY <1>1, <1>2, <1>3, <1>4, <1>5 DEF Holds

Confined(w) ==
    /\ \A c \in Conversations : current'[c] # current[c] =>
          \A k \in {c, current[c], current'[c]} \ {None} : Holds(w, k)
    /\ \A s \in Sessions : draining'[s] # draining[s] => Holds(w, s)

\* BindingTable::attach changes the entries of the conversation, of both its
\* sessions and of the conversation the session had.
LEMMA AttachConfined ==
    ASSUME Tables, NEW w \in Work, NEW c \in Conversations, NEW s \in Sessions \cup {None},
           NEW busy, Attach(c, s, busy),
           Holds(w, c), current[c] # None => Holds(w, current[c]), s # None => Holds(w, s),
           \A x \in Conversations : current[x] = s /\ s # None => Holds(w, x)
    PROVE  Confined(w)
<1>1. ASSUME NEW x \in Conversations, current'[x] # current[x]
      PROVE  \A k \in {x, current[x], current'[x]} \ {None} : Holds(w, k)
  <2>1. CASE x = c
    BY <1>1, <2>1 DEF Attach, Tables, Bindings
  <2>2. CASE x # c
    <3>1. current[x] = s /\ current'[x] = None
      BY <1>1, <2>2 DEF Attach, Tables, Bindings
    <3> QED
      BY <1>1, <3>1
  <2> QED
    BY <2>1, <2>2
<1>2. ASSUME NEW x \in Sessions, draining'[x] # draining[x] PROVE Holds(w, x)
  <2>1. x \in {s, current[c]}
    BY <1>2 DEF Attach, Tables
  <2> QED
    BY <2>1, ResourcesApart
<1> QED
  BY <1>1, <1>2 DEF Confined

\* BindingTable::detach.
LEMMA UnbindConfined ==
    ASSUME Tables, NEW w \in Work, NEW c \in Conversations, NEW keep, Unbind(c, keep),
           Holds(w, c), current[c] # None => Holds(w, current[c])
    PROVE  Confined(w)
<1>1. ASSUME NEW x \in Conversations, current'[x] # current[x]
      PROVE  \A k \in {x, current[x], current'[x]} \ {None} : Holds(w, k)
  <2>1. x = c /\ current'[x] = None
    BY <1>1 DEF Unbind, Tables, Bindings
  <2> QED
    BY <2>1
<1>2. ASSUME NEW x \in Sessions, draining'[x] # draining[x] PROVE Holds(w, x)
  <2>1. x = current[c]
    BY <1>2 DEF Unbind, Tables
  <2> QED
    BY <2>1, ResourcesApart
<1> QED
  BY <1>1, <1>2 DEF Confined
\* What Current gives a handler that binds: its conversation, the session that
\* had been bound, and every conversation of a session it holds.
LEMMA BindConfined ==
    ASSUME IInv, NEW w \in Work, Current(w), ~held[w].global, NEW c \in Conversations,
           NEW s \in Sessions \cup {None}, NEW busy, Attach(c, s, busy),
           c \in held[w].exclusive, {current[c]} \ {None} \subseteq held[w].exclusive,
           \/ s = None
           \/ s \in held[w].exclusive
           \/ Holds(w, s) /\ Unbound(s)
    PROVE  Confined(w)
<1> DEFINE own == held[w].exclusive
<1>1. Holds(w, c) /\ (current[c] # None => Holds(w, current[c])) /\ (s # None => Holds(w, s))
  BY DEF Holds
<1>2. ASSUME NEW x \in Conversations, current[x] = s, s # None PROVE Holds(w, x)
  <2>1. s \in own /\ s \in Sessions
    BY <1>2 DEF Unbound
  <2>2. x \in Route(Live, s)
    BY <1>2 DEF Route, Live
  <2> QED
    BY <2>1, <2>2 DEF Current, Holds
<1> QED
  BY <1>1, <1>2, AttachConfined DEF IInv

RepliesConfined(w) == \A c \in Conversations : replies'[c] # replies[c] => Holds(w, c)

\* A handler changes the routing of its own conversation and sessions only: of inbound work,
LEMMA InboundConfined ==
    ASSUME IInv, NEW w \in Work, Current(w), ~held[w].global, Inbound(w), HandleInbound(w)
    PROVE  Confined(w) /\ RepliesConfined(w)
<1> DEFINE own == held[w].exclusive
<1>1. /\ w.c \in Conversations /\ w.s \in Sessions \cup {None} /\ w.r \in Sessions \cup {None}
      /\ w.c \in own /\ {w.s} \ {None} \subseteq own /\ {current[w.c]} \ {None} \subseteq own
      /\ Holds(w, w.c)
  BY WorkTyped, ResourcesApart DEF Inbound, Current, Holds
<1>2. RepliesConfined(w)
  <2>1. \/ replies' = replies
        \/ \E s : replies' = [replies EXCEPT ![w.c] = s]
    BY DEF HandleInbound, Inbound
  <2> QED
    BY <1>1, <2>1 DEF RepliesConfined, IInv, Tables, Bindings
<1>3. CASE UNCHANGED <<current, draining>>
  BY <1>2, <1>3 DEF Confined
<1>4. CASE w.kind \in {"attach", "press"} /\ Attach(w.c, w.s, current[w.c] \in turns)
  BY <1>1, <1>2, <1>4, BindConfined
<1>5. CASE w.kind = "detach" /\ Unbind(w.c, current[w.c] \in turns)
  <2>1. current[w.c] # None => Holds(w, current[w.c])
    BY <1>1 DEF Holds
  <2> QED
    BY <1>1, <1>2, <1>5, <2>1, UnbindConfined DEF IInv
<1>6. CASE /\ w.kind \in {"replace", "launch"} /\ Replacement(w)
           /\ Attach(w.c, w.r, current[w.c] \in turns)
  <2>1. w.r \in Sessions /\ BackendOf[w.r] \in own
    BY <1>1, <1>6, RuntimeLimits DEF Replacement, Current
  <2>2. Holds(w, w.r) /\ Unbound(w.r)
    BY <1>6, <2>1 DEF Holds, Replacement
  <2> QED
    BY <1>1, <1>2, <1>6, <2>1, <2>2, BindConfined
<1> QED
  BY <1>3, <1>4, <1>5, <1>6 DEF HandleInbound, Inbound, Bind

\* of an agent event,
LEMMA EventConfined ==
    ASSUME IInv, NEW w \in Work, Current(w), ~held[w].global, Event(w), w.kind # "resumed",
           HandleEvent(w)
    PROVE  Confined(w) /\ RepliesConfined(w)
<1> DEFINE own == held[w].exclusive
           owner == {x \in Conversations : current[x] = w.s}
<1>1. /\ w.s \in Sessions /\ w.s \in own /\ Route(Live, w.s) \subseteq own
      /\ w.r \in Sessions \cup {None} /\ {w.r} \ {None} \subseteq own
      /\ w.kind # "disconnected"
  <2>1. w.kind \notin {"recover", "disconnected"} /\ w.kind # "switch"
    BY DEF Current, Event
  <2>2. w.s \in Sessions /\ w.r \in Sessions \cup {None}
    BY <2>1, WorkTyped
  <2>3. w.s \in own /\ {w.r} \ {None} \subseteq own
    BY <2>1, <2>2, ResourcesApart DEF Current
  <2> QED
    BY <2>1, <2>2, <2>3 DEF Current
<1>2. owner \subseteq own /\ Holds(w, w.s)
  BY <1>1 DEF Route, Live, Holds
<1>3. CASE w.kind \in {"started", "requested"}
  BY <1>3 DEF HandleEvent, Confined, RepliesConfined
<1>4. CASE w.kind = "completed"
  BY <1>2, <1>4 DEF HandleEvent, Confined, RepliesConfined, IInv, Tables
<1>5. CASE w.kind = "exited"
  <2> DEFINE c == CHOOSE x \in owner : TRUE
  <2>1. HandleExit(w.s)
    BY <1>5 DEF HandleEvent
  <2>2. CASE UNCHANGED <<current, draining, actions, replies>>
    BY <2>2 DEF Confined, RepliesConfined
  <2>3. CASE ~UNCHANGED <<current, draining, actions, replies>>
    <3>1. /\ owner # {} /\ Unbind(c, FALSE) /\ replies' = [replies EXCEPT ![c] = None]
      BY <2>1, <2>3 DEF HandleExit
    <3>2. c \in owner
      BY <3>1
    <3> HIDE DEF c
    <3>3. c \in Conversations /\ current[c] = w.s /\ Holds(w, c)
      BY <1>2, <3>2 DEF Holds
    <3>4. Confined(w)
      BY <1>2, <3>1, <3>3, UnbindConfined DEF IInv
    <3>5. RepliesConfined(w)
      BY <3>1, <3>3 DEF RepliesConfined, IInv, Tables, Bindings
    <3> QED
      BY <3>4, <3>5
  <2> QED
    BY <2>2, <2>3
<1>6. CASE w.kind = "replaced"
  <2> DEFINE owned == {x \in switching : current[x] = w.s}
             c == CHOOSE x \in owned : TRUE
  <2>1. /\ \/ owned # {} /\ Bind(c, w.r, FALSE)
           \/ UNCHANGED <<current, draining>>
        /\ replies' = replies
    BY <1>6 DEF HandleEvent
  <2>2. CASE UNCHANGED <<current, draining>>
    BY <2>1, <2>2 DEF Confined, RepliesConfined
  <2>3. CASE owned # {} /\ Bind(c, w.r, FALSE)
    <3>1. c \in owned
      BY <2>3
    <3>2. c \in Conversations /\ current[c] = w.s /\ Attach(c, w.r, FALSE)
      BY <2>3, <3>1 DEF IInv, Tables, Bind
    <3> HIDE DEF c
    <3>3. Confined(w)
      BY <1>1, <1>2, <3>2, BindConfined
    <3> QED
      BY <2>1, <3>3 DEF RepliesConfined
  <2> QED
    BY <2>1, <2>2, <2>3
<1> QED
  BY <1>1, <1>3, <1>4, <1>5, <1>6 DEF Event

\* and of other work.
LEMMA OtherConfined ==
    ASSUME IInv, NEW w \in Work, Current(w), ~held[w].global, ~Inbound(w), ~Event(w),
           HandleOther(w)
    PROVE  Confined(w) /\ RepliesConfined(w)
<1> DEFINE own == held[w].exclusive
<1>1. w.kind # "recover"
  BY DEF Current
<1>2. w.kind \in {"switch", "reattach"} =>
        /\ w.c \in Conversations /\ w.s \in Sessions \cup {None} /\ w.r \in Sessions \cup {None}
        /\ w.c \in own /\ {current[w.c]} \ {None} \subseteq own
  BY WorkTyped, ResourcesApart DEF Current
<1>3. CASE w.kind = "switch"
  <2>1. CASE UNCHANGED <<current, draining>>
    BY <1>3, <2>1 DEF HandleOther, Confined, RepliesConfined
  <2>2. CASE ~UNCHANGED <<current, draining>>
    <3>1. Replacement(w) /\ Attach(w.c, w.r, FALSE) /\ replies' = replies
      BY <1>3, <2>2 DEF HandleOther, Bind
    <3>2. w.r \in Sessions /\ BackendOf[w.r] \in own
      BY <1>2, <1>3, <3>1 DEF Replacement, Current
    <3>3. Holds(w, w.r) /\ Unbound(w.r)
      BY <3>1, <3>2 DEF Holds, Replacement
    <3>4. Confined(w)
      BY <1>2, <1>3, <3>1, <3>2, <3>3, BindConfined
    <3> QED
      BY <3>1, <3>4 DEF RepliesConfined
  <2> QED
    BY <2>1, <2>2
<1>4. CASE w.kind = "reattach"
  <2>1. replies' = replies
    BY <1>4 DEF HandleOther
  <2>2. CASE UNCHANGED <<current, draining>>
    BY <2>1, <2>2 DEF Confined, RepliesConfined
  <2>3. CASE Attach(w.c, w.s, current[w.c] \in turns)
    <3>1. {w.s} \ {None} \subseteq own
      BY <1>4 DEF Current
    <3>2. Confined(w)
      BY <1>2, <1>4, <2>3, <3>1, BindConfined
    <3> QED
      BY <2>1, <3>2 DEF RepliesConfined
  <2> QED
    BY <1>4, <2>2, <2>3 DEF HandleOther, Bind
<1>5. CASE w.kind \notin {"switch", "reattach"}
  BY <1>1, <1>5 DEF HandleOther, routeVars, Confined, RepliesConfined
<1> QED
  BY <1>3, <1>4, <1>5

\* A worker changes only what its operation holds.
LEMMA WorkerConfined ==
    ASSUME IInv, NEW w \in Work, w.kind # "resumed", WorkerStep(w), Scoped
    PROVE  Confined(w) /\ RepliesConfined(w)
<1>1. CASE held[w].global
  BY <1>1 DEF Confined, RepliesConfined, Holds
<1>2. CASE ~held[w].global
  <2>1. CASE UNCHANGED routeVars
    BY <2>1 DEF routeVars, Confined, RepliesConfined
  <2>2. CASE ~UNCHANGED routeVars
    <3>1. Execute(w) /\ w \in active
      BY <2>2 DEF WorkerStep, Claim, Complete, Fail, Settle, Panic
    <3>2. Current(w)
      BY <3>1 DEF Scoped, InProgress, Execute
    <3>3. CASE Inbound(w)
      BY <1>2, <3>1, <3>2, <3>3, InboundConfined DEF Execute
    <3>4. CASE Event(w)
      BY <1>2, <3>1, <3>2, <3>4, EventConfined DEF Execute, Inbound, Event
    <3>5. CASE ~Inbound(w) /\ ~Event(w)
      BY <1>2, <3>1, <3>2, <3>5, OtherConfined DEF Execute
    <3> QED
      BY <3>3, <3>4, <3>5
  <2> QED
    BY <2>1, <2>2
<1> QED
  BY <1>1, <1>2
----------------------------------------------------------------------------
(* The scopes of the handlers in progress stay current. *)

\* next_ready starts an operation with the scope the snapshot gives it.
LEMMA StartFacts ==
    ASSUME IInv, StartReady
    PROVE  \E w \in Work : /\ w \notin active /\ active' = active \cup {w}
                           /\ held' = [held EXCEPT ![w] = Scope(w, snapshot)]
                           /\ worker' = [worker EXCEPT ![w] = "running"]
<1>1. PICK i \in 1..Len(pending) :
          /\ active' = active \cup {pending[i]}
          /\ held' = [held EXCEPT ![pending[i]] = Scope(pending[i], snapshot)]
          /\ worker' = [worker EXCEPT ![pending[i]] = "running"]
  BY DEF StartReady
<1>2. pending[i] \in Work /\ pending[i] \notin active
  BY QueueFacts DEF IInv
<1> QED
  BY <1>1, <1>2

\* Other steps neither start an operation nor change the scope of one.
LEMMA NoStart ==
    ASSUME IInv, [Next]_vars, ~StartReady
    PROVE  active' \subseteq active /\ \A u \in active' : held'[u] = held[u]
<1>1. CASE \E w \in script : RetireWorker(w) \/ RetireStopped(w)
  BY <1>1, QueueFacts DEF RetireWorker, RetireStopped, Retire, IInv
<1>2. CASE UNCHANGED <<active, held>>
  BY <1>2
<1> QED
  BY <1>1, <1>2
     DEF Next, Loop, vars, queueVars, Top, PushRecover, Push, DispatchSnapshot, ScanEnds,
         AdmitInbound, AdmitProduced, ReceiveEvent, OnLagged, ScheduleRefreshes, Tick,
         OfferMaintenance, ReadTurns, OfferWorking, TickEnds, Abort, ConfigurationChanged,
         StopSelected, Stopped, WorkerStep, Emit, Reload, Cancel

\* With a session goes a share of its agent, in every step.
LEMMA SharesKept ==
    ASSUME IInv, Shares, [Next]_vars
    PROVE  Shares'
<1>1. CASE StartReady
  <2>1. PICK w \in Work : /\ w \notin active /\ active' = active \cup {w}
                          /\ held' = [held EXCEPT ![w] = Scope(w, snapshot)]
    BY <1>1, StartFacts
  <2>2. held \in [Work -> Scopes] /\ active \subseteq Work /\ snapshot \in Views
    BY QueueFacts DEF IInv, Tables
  <2>3. held'[w] = Scope(w, snapshot) /\ \A u \in active : held'[u] = held[u]
    BY <2>1, <2>2
  <2>4. Scope(w, snapshot).global \/ {BackendOf[s] : s \in Scope(w, snapshot).exclusive
                                          \cap Sessions} \subseteq Scope(w, snapshot).shared
    BY <2>2, ScopeReserves
  <2> QED
    BY <2>1, <2>3, <2>4 DEF Shares
<1>2. CASE ~StartReady
  BY <1>2, NoStart DEF Shares
<1> QED
  BY <1>1, <1>2

\* What work holds remains current while its routing is untouched.
LEMMA CurrentStays ==
    ASSUME NEW w \in Work, Current(w), held'[w] = held[w],
           UNCHANGED <<current, draining, replies>>
    PROVE  Current(w)'
  BY DEF Current, Route, Live

\* Another worker does not disturb the routing of what w holds.
LEMMA CurrentUndisturbed ==
    ASSUME IInv, Shares, NEW v \in active, NEW w \in active, v # w, w \in Work,
           Confined(v), RepliesConfined(v), held' = held, Current(w)
    PROVE  Current(w)'
<1> SUFFICES ASSUME ~held[w].global PROVE Current(w)'
  BY DEF Current
<1> DEFINE own == held[w].exclusive
<1>1. \A k \in own : ~Holds(v, k)
  BY OneHolder DEF Holds
<1>2. \A c \in own \cap Conversations : current'[c] = current[c] /\ replies'[c] = replies[c]
  BY <1>1, ResourcesApart DEF Confined, RepliesConfined
<1>3. ASSUME NEW s \in own \cap Sessions PROVE Route(Live, s)' = Route(Live, s)
  <2>1. ASSUME NEW c \in Conversations PROVE current'[c] = s <=> current[c] = s
    BY <1>1, <2>1, ResourcesApart DEF Confined
  <2>2. draining'[s] = draining[s]
    BY <1>1 DEF Confined
  <2> QED
    BY <2>1, <2>2 DEF Route, Live
<1>4. /\ w.kind # "recover"
      /\ Inbound(w) \/ w.kind \in {"reattach", "switch"} =>
            w.c \in Conversations /\ w.c \in own
      /\ w.kind \in {"replace", "switch"} => Inbound(w) \/ w.kind = "switch"
  BY WorkTyped, ResourcesApart DEF Current, Inbound
<1>5. Inbound(w) \/ w.kind \in {"reattach", "switch"} =>
         current'[w.c] = current[w.c] /\ replies'[w.c] = replies[w.c]
  BY <1>2, <1>4
<1> QED
  BY <1>3, <1>4, <1>5 DEF Current

\* A started operation is routed by the snapshot, and by the tables as they are
\* now: whatever has changed since is held by another operation.
LEMMA StartCurrent ==
    ASSUME IInv, Shares, Snapshots, [Next]_vars, StartReady, NEW w \in Work,
           w \notin active, active' = active \cup {w},
           held' = [held EXCEPT ![w] = Scope(w, snapshot)]
    PROVE  Current(w)'
<1>1. /\ held \in [Work -> Scopes] /\ active \subseteq Work /\ snapshot \in Views
      /\ held'[w] = Scope(w, snapshot) /\ UNCHANGED <<current, draining, replies>>
      /\ Traced(snapshot) /\ RepliesTraced(snapshot)
  BY QueueFacts DEF IInv, Tables, StartReady, routeVars, Snapshots
<1> SUFFICES ASSUME ~Scope(w, snapshot).global PROVE Current(w)'
  BY <1>1 DEF Current
<1> DEFINE own == Scope(w, snapshot).exclusive
<1>2. /\ w.kind \notin {"recover", "disconnected"}
      /\ {w.c} \ {None} \subseteq own
      /\ Reserved(w, snapshot) \subseteq own
      /\ Fenced(w, snapshot) \subseteq own
      /\ \A s \in own \cap Sessions : /\ BackendOf[s] \in Scope(w, snapshot).shared
                                      /\ Route(snapshot, s) \subseteq own
  BY <1>1, ScopeReserves
<1>3. ASSUME NEW k \in own, NEW u \in active PROVE ~Holds(u, k)
  <2>1. u # w /\ u \in active' /\ w \in active' /\ held'[u] = held[u]
    BY <1>1
  <2>2. QueueProofs!Exclusion'
    BY QueueKept DEF QueueProofs!IInv
  <2>3. /\ ~held[u].global
        /\ held[u].exclusive \cap own = {}
        /\ held[u].exclusive \cap Scope(w, snapshot).shared = {}
    BY <1>1, <2>1, <2>2 DEF QueueProofs!Exclusion, QueueProofs!Conflict
  <2> QED
    BY <1>2, <2>3 DEF Holds
<1> HIDE DEF own
<1>4. \A c \in own \cap Conversations : /\ current[c] = snapshot.current[c]
                                        /\ replies[c] = snapshot.replies[c]
  BY <1>1, <1>3, ResourcesApart DEF Traced, RepliesTraced
<1>5. ASSUME NEW s \in own \cap Sessions PROVE Route(Live, s) = Route(snapshot, s)
  <2>1. ASSUME NEW c \in Conversations PROVE current[c] = s <=> snapshot.current[c] = s
    BY <1>1, <1>3, <2>1, ResourcesApart DEF Traced
  <2>2. draining[s] = snapshot.draining[s]
    BY <1>1, <1>3 DEF Traced
  <2> QED
    BY <2>1, <2>2 DEF Route, Live
<1>6. Inbound(w) \/ w.kind \in {"reattach", "switch"} => w.c \in own \cap Conversations
  BY <1>2, WorkTyped, ResourcesApart
<1>7. /\ w.kind # "switch" => {w.s} \ {None} \subseteq own
      /\ Event(w) => {w.r} \ {None} \subseteq own
      /\ Inbound(w) => {current[w.c], replies[w.c]} \ {None} \subseteq own
      /\ w.kind \in {"reattach", "switch"} => {current[w.c]} \ {None} \subseteq own
  BY <1>2, <1>4, <1>6 DEF Reserved, Inbound, Event
<1>8. /\ w.kind \in {"replace", "switch"} /\ current[w.c] # None =>
            BackendOf[current[w.c]] \in own
      /\ w.kind = "launch" => Backends \subseteq own
  <2>1. w.kind \in {"replace", "switch"} => w.c \in own \cap Conversations
    BY <1>6 DEF Inbound
  <2> QED
    BY <1>2, <1>4, <2>1 DEF Fenced, ReserveBackend
<1>9. \A s \in own \cap Sessions : Route(Live, s)' \subseteq own
  <2>1. \A s : Route(Live, s)' = Route(Live, s)
    BY <1>1 DEF Route, Live
  <2> QED
    BY <1>2, <1>5, <2>1
<1> QED
  BY <1>1, <1>2, <1>7, <1>8, <1>9 DEF Current, own
\* The routing that running work was admitted for stays current in every step.
LEMMA ScopedKept ==
    ASSUME IInv, Shares, Scoped, Snapshots, [Next]_vars,
           \A w \in Work : w.kind # "resumed"
    PROVE  Scoped'
<1>1. active \subseteq Work /\ script \subseteq Work /\ worker \in [Work -> Progress]
  BY QueueFacts DEF IInv, Arrivals, Claims
<1>2. CASE StartReady
  <2>1. PICK w \in Work : /\ w \notin active /\ active' = active \cup {w}
                          /\ held' = [held EXCEPT ![w] = Scope(w, snapshot)]
                          /\ worker' = [worker EXCEPT ![w] = "running"]
    BY <1>2, StartFacts
  <2>2. Current(w)'
    BY <1>2, <2>1, StartCurrent
  <2>3. ASSUME NEW v \in Work, v # w, InProgress(v)' PROVE Current(v)'
    <3>1. InProgress(v) /\ held'[v] = held[v]
      BY <1>1, <2>1, <2>3, QueueFacts DEF InProgress, IInv
    <3> QED
      BY <1>2, <3>1, CurrentStays DEF Scoped, StartReady, routeVars
  <2> QED
    BY <2>2, <2>3 DEF Scoped
<1>3. CASE \E v \in script : WorkerStep(v)
  <2>1. PICK v \in script : WorkerStep(v)
    BY <1>3
  <2>2. v \in Work /\ v \in active /\ active' = active /\ held' = held
    BY <1>1, <2>1 DEF WorkerStep, queueVars
  <2>3. Confined(v) /\ RepliesConfined(v)
    BY <2>1, <2>2, WorkerConfined
  <2>4. ASSUME NEW w \in Work, InProgress(w)' PROVE Current(w)'
    <3>1. CASE w # v
      <4>1. worker'[w] = worker[w]
        BY <1>1, <2>1, <3>1 DEF WorkerStep, Claim, Execute, Complete, Fail, Settle, Panic
      <4>2. w \in active /\ Current(w)
        BY <2>2, <2>4, <4>1 DEF InProgress, Scoped
      <4> QED
        BY <2>2, <2>3, <3>1, <4>2, CurrentUndisturbed
    <3>2. CASE w = v
      <4>1. worker'[v] \in {"running", "claimed"}
        BY <2>4, <3>2 DEF InProgress
      <4>2. Claim(v)
        BY <1>1, <2>1, <2>2, <4>1 DEF WorkerStep, Execute, Complete, Fail, Settle, Panic
      <4>3. Current(v)
        BY <2>2, <4>2 DEF Claim, Scoped, InProgress
      <4> QED
        BY <2>2, <3>2, <4>2, <4>3, CurrentStays DEF Claim, routeVars
    <3> QED
      BY <3>1, <3>2
  <2> QED
    BY <2>4 DEF Scoped
<1>4. CASE ~StartReady /\ ~(\E v \in script : WorkerStep(v))
  <2>1. active' \subseteq active /\ \A u \in active' : held'[u] = held[u]
    BY <1>4, NoStart
  <2>2. UNCHANGED <<current, draining, replies>>
    BY <1>4 DEF Next, Loop, vars, routeVars, Top, DispatchSnapshot, ScanEnds, AdmitInbound,
         AdmitProduced, ReceiveEvent, ScheduleRefreshes, RetireWorker, RetireStopped, Retire,
         Abort, ConfigurationChanged, StopSelected, Stopped, Emit, Reload, Cancel
  <2>3. ASSUME NEW w \in active' PROVE worker'[w] \in {worker[w], "idle", "failed"}
    <3>1. \/ worker' = worker
          \/ \E v \in Work, step \in {"idle", "failed"} : worker' = [worker EXCEPT ![v] = step]
      BY <1>1, <1>4 DEF Next, Loop, vars, Top, DispatchSnapshot, ScanEnds, AdmitInbound,
         AdmitProduced, ReceiveEvent, ScheduleRefreshes, RetireWorker, RetireStopped, Retire,
         Abort, ConfigurationChanged, StopSelected, Stopped, Emit, Reload, Cancel
    <3>2. w \in Work
      BY <1>1, <2>1
    <3> QED
      BY <1>1, <3>1, <3>2
  <2>4. ASSUME NEW w \in Work, InProgress(w)' PROVE Current(w)'
    <3>1. InProgress(w) /\ held'[w] = held[w]
      BY <2>1, <2>3, <2>4 DEF InProgress
    <3> QED
      BY <2>2, <3>1, CurrentStays DEF Scoped
  <2> QED
    BY <2>4 DEF Scoped
<1> QED
  BY <1>2, <1>3, <1>4

----------------------------------------------------------------------------
(* What a snapshot says of a conversation nobody holds is still true. *)

\* A worker's change is traced to the worker.
LEMMA WorkerTraced ==
    ASSUME IInv, Shares, NEW w \in active, Confined(w), RepliesConfined(w),
           UNCHANGED <<active, held>>, NEW view
    PROVE  /\ Traced(view) =>
                /\ \A c \in Conversations : view.current[c] # current'[c] =>
                      \E u \in active :
                         \A k \in {c, view.current[c], current'[c]} \ {None} : Holds(u, k)
                /\ \A s \in Sessions : view.draining[s] # draining'[s] =>
                      \E u \in active : Holds(u, s)
           /\ RepliesTraced(view) =>
                \A c \in Conversations : view.replies[c] # replies'[c] =>
                    \E u \in active : Holds(u, c)
<1>1. ASSUME Traced(view), NEW c \in Conversations, view.current[c] # current'[c]
      PROVE  \E u \in active :
                \A k \in {c, view.current[c], current'[c]} \ {None} : Holds(u, k)
  <2>1. CASE current'[c] = current[c]
    BY <1>1, <2>1 DEF Traced
  <2>2. CASE current'[c] # current[c]
    <3>1. \A k \in {c, current[c], current'[c]} \ {None} : Holds(w, k)
      BY <2>2 DEF Confined
    <3>2. view.current[c] # None => Holds(w, view.current[c])
      <4>1. CASE view.current[c] = current[c]
        BY <3>1, <4>1
      <4>2. CASE view.current[c] # current[c]
        <5>1. PICK u \in active :
                 \A k \in {c, view.current[c], current[c]} \ {None} : Holds(u, k)
          BY <1>1, <4>2 DEF Traced
        <5>2. u = w
          BY <3>1, <5>1, OneHolder, ResourcesApart
        <5> QED
          BY <5>1, <5>2
      <4> QED
        BY <4>1, <4>2
    <3> QED
      BY <3>1, <3>2
  <2> QED
    BY <2>1, <2>2
<1>2. ASSUME Traced(view), NEW s \in Sessions, view.draining[s] # draining'[s]
      PROVE  \E u \in active : Holds(u, s)
  BY <1>2 DEF Traced, Confined
<1>3. ASSUME RepliesTraced(view), NEW c \in Conversations, view.replies[c] # replies'[c]
      PROVE  \E u \in active : Holds(u, c)
  BY <1>3 DEF RepliesTraced, RepliesConfined
<1> QED
  BY <1>1, <1>2, <1>3

\* Every step keeps what differs from a scan's view traceable to active work.
LEMMA SnapshotsKept ==
    ASSUME IInv, Shares, Scoped, Snapshots, [Next]_vars,
           \A w \in Work : w.kind # "resumed"
    PROVE  Snapshots'
<1>1. active \subseteq Work /\ script \subseteq Work /\ partial \in Views /\ held \in [Work -> Scopes]
  BY QueueFacts DEF IInv, Arrivals, Tables
<1>2. CASE DispatchSnapshot
  <2>1. UNCHANGED <<current, draining, replies, active, held>>
    BY <1>2 DEF DispatchSnapshot, routeVars, queueVars
  <2>2. CASE ReadBindings
    <3>1. pc' = "actions" /\ partial'.current = current /\ partial'.draining = draining
      BY <1>1, <2>2 DEF ReadBindings, Views
    <3> QED
      BY <2>1, <3>1 DEF Snapshots, Traced
  <2>3. CASE ReadActions
    <3>1. /\ pc = "actions" /\ pc' = "replies" /\ partial'.current = partial.current
          /\ partial'.draining = partial.draining
      BY <1>1, <2>3 DEF ReadActions, Views
    <3> QED
      BY <2>1, <3>1 DEF Snapshots, Traced, Holds
  <2>4. CASE ReadReplies
    <3>1. /\ pc = "replies" /\ pc' = "scan" /\ snapshot'.current = partial.current
          /\ snapshot'.draining = partial.draining /\ snapshot'.replies = replies
      BY <1>1, <2>4 DEF ReadReplies, Views
    <3> QED
      BY <2>1, <3>1 DEF Snapshots, Traced, RepliesTraced, Holds
  <2> QED
    BY <1>2, <2>2, <2>3, <2>4 DEF DispatchSnapshot
<1>3. CASE StartReady
  <2>1. PICK w \in Work : /\ w \notin active /\ active' = active \cup {w}
                          /\ held' = [held EXCEPT ![w] = Scope(w, snapshot)]
    BY <1>3, StartFacts
  <2>2. \A u \in active : u \in active' /\ \A k : Holds(u, k)' <=> Holds(u, k)
    BY <1>1, <2>1 DEF Holds
  <2>3. pc = "scan" /\ pc' = pc /\ UNCHANGED <<snapshot, current, draining, replies>>
    BY <1>3 DEF StartReady, snapVars, routeVars
  <2>4. Traced(snapshot)'
    <3>1. ASSUME NEW c \in Conversations, snapshot.current[c] # current[c]
          PROVE  \E u \in active' :
                    \A k \in {c, snapshot.current[c], current[c]} \ {None} : Holds(u, k)'
      BY <2>2, <2>3, <3>1 DEF Snapshots, Traced
    <3>2. ASSUME NEW s \in Sessions, snapshot.draining[s] # draining[s]
          PROVE  \E u \in active' : Holds(u, s)'
      BY <2>2, <2>3, <3>2 DEF Snapshots, Traced
    <3> QED
      BY <2>3, <3>1, <3>2 DEF Traced
  <2>5. RepliesTraced(snapshot)'
    BY <2>2, <2>3 DEF Snapshots, RepliesTraced
  <2> QED
    BY <2>3, <2>4, <2>5 DEF Snapshots
<1>4. CASE \E w \in script : WorkerStep(w)
  <2>1. PICK w \in script : WorkerStep(w)
    BY <1>4
  <2>2. /\ w \in Work /\ w \in active
        /\ UNCHANGED <<active, held, pc, snapshot, partial>>
    BY <1>1, <2>1 DEF WorkerStep, queueVars, snapVars
  <2>3. Confined(w) /\ RepliesConfined(w)
    BY <2>1, <2>2, WorkerConfined
  <2>4. Traced(partial) => Traced(partial)'
    BY SMTT(30), <2>2, <2>3, WorkerTraced DEF Traced, Holds
  <2>5. Traced(snapshot) => Traced(snapshot)'
    BY SMTT(30), <2>2, <2>3, WorkerTraced DEF Traced, Holds
  <2>6. RepliesTraced(snapshot) => RepliesTraced(snapshot)'
    BY <2>2, <2>3, WorkerTraced DEF RepliesTraced, Holds
  <2> QED
    BY <2>2, <2>4, <2>5, <2>6 DEF Snapshots
<1>5. CASE pc' \notin {"actions", "replies", "scan"}
  BY <1>5 DEF Snapshots
<1>6. CASE UNCHANGED <<pc, active, held, snapshot, partial, current, draining, replies>>
  BY <1>6 DEF Snapshots, Traced, RepliesTraced, Holds
<1> QED
  BY <1>2, <1>3, <1>4, <1>5, <1>6
     DEF Next, Loop, vars, routeVars, snapVars, queueVars, Top, ScanEnds, AdmitInbound,
         AdmitProduced, ReceiveEvent, ScheduleRefreshes, Tick, OfferMaintenance, ReadTurns,
         OfferWorking, TickEnds, RetireWorker, RetireStopped, Abort, ConfigurationChanged,
         StopSelected, Stopped, Emit, Reload, Cancel

----------------------------------------------------------------------------
SInv == IInv /\ Shares /\ Scoped /\ Snapshots

\* The strengthened invariant holds in every state where no session is resumed.
LEMMA SerialInductive ==
    ASSUME \A w \in Work : w.kind # "resumed"
    PROVE  Spec => []SInv
<1>1. Init => SInv
  <2>1. ASSUME Init PROVE Shares /\ Scoped /\ Snapshots
    BY <2>1 DEF Init, Shares, Scoped, Snapshots, InProgress
  <2> QED
    BY <2>1, InitEstablishes DEF SInv
<1>2. SInv /\ [Next]_vars => SInv'
  <2> SUFFICES ASSUME SInv, [Next]_vars PROVE SInv'
    OBVIOUS
  <2>1. IInv'
    BY QueueKept, TablesKept, ArrivalsKept, BookkeepingKept, PhasesKept, ClaimsKept,
       GapsKept DEF SInv, IInv
  <2> QED
    BY <2>1, SharesKept, ScopedKept, SnapshotsKept DEF SInv
<1> QED
  BY <1>1, <1>2, PTL DEF Spec

\* "Requests affecting the same conversation or session retain their order"
\* (docs/architecture.md), as long as no session resumes: two handlers in
\* progress never touch the same conversation or session, for any number of
\* conversations, sessions, agents, operations and workers.
THEOREM SerialisedHolds ==
    ASSUME \A w \in Work : w.kind # "resumed"
    PROVE  Spec => []Serialised
<1>1. SInv => Serialised
  <2> SUFFICES ASSUME SInv, NEW v \in active, NEW w \in active, v # w,
                      worker[v] \in {"running", "claimed"},
                      worker[w] \in {"running", "claimed"}
               PROVE  Touched(v) \cap Touched(w) = {}
    BY DEF Serialised
  <2>1. v \in Work /\ w \in Work /\ Current(v) /\ Current(w)
    BY QueueFacts DEF SInv, IInv, Scoped, InProgress
  <2>2. \A k \in Touched(v) : Holds(v, k)
    BY <2>1, TouchedHeld DEF SInv
  <2>3. \A k \in Touched(w) : Holds(w, k)
    BY <2>1, TouchedHeld DEF SInv
  <2> QED
    BY <2>2, <2>3, OneHolder DEF SInv
<1> QED
  BY <1>1, SerialInductive, PTL
=============================================================================
