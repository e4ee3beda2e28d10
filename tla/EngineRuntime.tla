--------------------------- MODULE EngineRuntime ---------------------------
(***************************************************************************)
(* The engine runtime (crates/agentix/src/engine_runtime.rs) and the       *)
(* routing reservations of crates/agentix-core/src/engine/dispatch.rs: one *)
(* loop admits inbound requests, agent events, engine-produced work and    *)
(* periodic refreshes into a DispatchQueue, takes a routing snapshot, and  *)
(* starts workers that execute while the loop goes on with that snapshot.  *)
(*                                                                         *)
(* A work item is a record [kind, c, s, r]: the conversation it arrived    *)
(* in, the session it names and the replacement session its handler        *)
(* obtains, each None where there is none.  A handler is the change it     *)
(* makes to the routing state; an inbound one first claims its event id    *)
(* in the database and afterwards completes or releases it.  Sessions are  *)
(* named by their qualified key, so that a session has one alias.          *)
(* Attaching is one step here (SessionBinding takes it apart), and a       *)
(* prompt whose delivery is deferred belongs to PromptDelivery.            *)
(* The loop also ends when both inputs are closed and the queue is empty,  *)
(* which is a shutdown with nothing left to do.                            *)
(***************************************************************************)
EXTENDS Naturals, Sequences, FiniteSets

LOCAL INSTANCE SequencesExt

CONSTANTS
    Conversations, Backends, None,
    SessionOrder,           \* the sessions, in the order of their names
    BackendOf,              \* the agent kind in a session's key
    TaskBoard,              \* the resource of the task board
    Work,                   \* the operations that may arrive
    Scripts,                \* the sets of them a behaviour may be offered
    Bound,                  \* conversations' sessions at the start
    Capacity, Concurrency, ConversationCapacity, StreamCapacity,
    MaxReloads,             \* bound on configuration changes of the agent
    MaxRecoveries,          \* bound on recoveries queued at once
    MaxRoutings,            \* bound on different snapshots in a behaviour
    MaxErrors               \* bound on requests with an error at once

Sessions == ToSet(SessionOrder)

ASSUME RuntimeLimits ==
    /\ Capacity \in Nat \ {0}
    /\ Concurrency \in Nat \ {0}
    /\ ConversationCapacity \in Nat \ {0}
    /\ StreamCapacity \in Nat \ {0}
    /\ BackendOf \in [Sessions -> Backends]
    /\ Bound \in [Conversations -> Sessions \cup {None}]
    /\ Scripts \subseteq SUBSET Work
    /\ MaxRoutings \in Nat /\ MaxErrors \in Nat

\* Resources of different kinds are different, whatever they are named.
ASSUME ResourcesApart ==
    /\ Conversations \cap Sessions = {}
    /\ Backends \cap (Conversations \cup Sessions) = {}
    /\ {None, TaskBoard} \cap (Conversations \cup Sessions \cup Backends) = {}

VARIABLES
    script,         \* the work offered in this behaviour
    pc,             \* where the loop is
    pending, active, held,          \* the DispatchQueue
    snapshot,       \* the last EngineDispatchSnapshot
    partial,        \* the fields of the next one that have been read
    routings,       \* snapshots that changed the routing
    current, draining,              \* BindingTable
    saved,          \* rows of the bindings table
    actions,        \* sessions whose interaction token is live
    replies,        \* reply_modes: the session a conversation's text answers
    turns,          \* sessions with an active turn
    switching,      \* conversations with a session switch to finish
    worker,         \* progress of each dispatched work item
    status,         \* processed_events row of each inbound request
    outcome,        \* what has happened to each inbound request
    ids, counts,    \* inbound_ids and inbound_counts
    refreshes,      \* refresh work already admitted
    todo,           \* refreshes this tick has still to offer, and their number
    cursor,         \* working_cursor
    stream, unsent, \* agent events buffered, and not yet emitted
    lagged,         \* the receiver's next answer is Lagged
    gap,            \* what the loss of events means for each session
    recoverPending, reloaded, reloads, shutdown

queueVars == <<pending, active, held>>
routeVars == <<current, draining, saved, actions, replies, turns, switching>>
inboundVars == <<ids, counts>>
streamVars == <<stream, unsent, lagged>>
reloadVars == <<recoverPending, reloaded, reloads>>
snapVars == <<snapshot, partial, routings>>
tickVars == <<refreshes, todo, cursor>>
vars == <<script, pc, queueVars, snapVars, routeVars, worker, status, outcome,
          inboundVars, tickVars, streamVars, gap, reloadVars, shutdown>>

----------------------------------------------------------------------------
Inbound(w) == w.kind \in {"text", "attach", "detach", "replace", "launch",
                          "press", "answer"}
Event(w) == w.kind \in {"started", "completed", "requested", "exited",
                        "resumed", "replaced", "disconnected"}
\* CardDelivered, PromptAcknowledged, QueuedInput, InputRecovered; Reattachment.
Produced(w) == w.kind \in {"delivery", "reattach"}
Refresh(w) == w.kind \in {"working", "board", "switch"}

Item(kind, c, s, r) == [kind |-> kind, c |-> c, s |-> s, r |-> r]
Board == Item("board", None, None, None)
Switch(c, r) == Item("switch", c, None, r)
Working(s) == Item("working", None, s, None)
\* Several recoveries may be queued at once, after lags and after reloads.
Recovery(n) == Item("recover", None, None, n)
Recoveries == {Recovery(n) : n \in 1..MaxRecoveries}

\* The fields a request of each kind carries.
ASSUME WorkTyped ==
    /\ Recoveries \subseteq Work
    /\ \A w \in Work :
          /\ w.c \in Conversations \cup {None} /\ w.s \in Sessions \cup {None}
          /\ w.kind # "recover" => w.r \in Sessions \cup {None}
          /\ Inbound(w) \/ w.kind \in {"reattach", "switch"} => w.c \in Conversations
          /\ Event(w) /\ w.kind # "disconnected" => w.s \in Sessions

Queued == {pending[i] : i \in 1..Len(pending)} \cup active

Resources == Conversations \cup Sessions \cup Backends \cup {TaskBoard}
Global == [global |-> TRUE, shared |-> {}, exclusive |-> {}]

\* What a snapshot or the live state says: by_conversation, draining, actions
\* and reply modes.
Live == [current |-> current, draining |-> draining, actions |-> actions,
         replies |-> replies]

\* BindingTable::route for a critical event.
Route(view, s) ==
    LET owner == {c \in Conversations : view.current[c] = s}
    IN  IF owner # {} THEN owner ELSE {view.draining[s]} \ {None}

\* The sessions a work item reserves, under a view of the routing state.
\* Mutant: reserves only the session the request names.
ReservedNamedOnly(w, view) == {w.s} \ {None}

Reserved(w, view) ==
    (CASE Inbound(w) -> {view.current[w.c], view.replies[w.c], w.s}
       [] Event(w) -> {w.s, w.r}
       [] w.kind = "reattach" -> {view.current[w.c], w.s}
       [] w.kind = "switch" -> {view.current[w.c]}
       [] OTHER -> {w.s}) \ {None}

\* reserve_backend: the session's backend, or all of them.
ReserveBackend(s) == IF s = None THEN Backends ELSE {BackendOf[s]}

\* The backends fenced until a replacement session is bound.
\* Mutant: a fork or clear shares its backend like any other command.
FencedNever(w, view) == {}

Fenced(w, view) ==
    CASE w.kind \in {"switch", "replace"} -> ReserveBackend(view.current[w.c])
      [] w.kind = "launch" -> ReserveBackend(None)
      [] OTHER -> {}

Scope(w, view) ==
    IF \/ w.kind \in {"recover", "disconnected"}
       \/ w.kind \in {"press", "answer"} /\ w.s \notin view.actions
    THEN Global
    ELSE LET ss == Reserved(w, view)
         IN  [global |-> FALSE,
              shared |-> {BackendOf[s] : s \in ss},
              exclusive |-> ss \cup (UNION {Route(view, s) : s \in ss})
                               \cup ({w.c} \ {None}) \cup Fenced(w, view)
                               \cup IF w.kind = "board" THEN {TaskBoard} ELSE {}]

ScopesUnder(view) == [w \in Work |-> Scope(w, view)]

\* The admission queue the loop feeds, with this module's routing answers.
Queue == INSTANCE DispatchQueue WITH
    Keys <- Resources,
    Routings <- [Work -> [global : BOOLEAN, shared : SUBSET Resources,
                            exclusive : SUBSET Resources]],
    MaxReroutes <- MaxRoutings,
    route <- ScopesUnder(snapshot), reroutes <- routings

Init ==
    /\ \E work \in Scripts : script = work \cup Recoveries
    /\ pc = "top"
    /\ pending = <<>> /\ active = {} /\ held = [w \in Work |-> Global]
    /\ current = Bound /\ saved = Bound
    /\ draining = [s \in Sessions |-> None]
    /\ actions = {} /\ turns = {}
    /\ replies = [c \in Conversations |-> None]
    /\ switching = {w.c : w \in {x \in script : x.kind = "switch"}}
    /\ snapshot = Live /\ partial = Live /\ routings = 0
    /\ worker = [w \in Work |-> "idle"]
    /\ status = [w \in Work |-> "none"]
    /\ outcome = [w \in Work |-> {}]
    /\ ids = {} /\ counts = [c \in Conversations |-> 0]
    /\ refreshes = {} /\ cursor = 0
    /\ todo = [items |-> <<>>, count |-> 0]
    /\ stream = <<>> /\ lagged = FALSE /\ gap = [s \in Sessions |-> "none"]
    /\ unsent = {w \in script : Event(w) \/ Produced(w)}
    /\ recoverPending = FALSE /\ reloaded = FALSE /\ reloads = 0
    /\ shutdown = FALSE

----------------------------------------------------------------------------
(* The loop. *)

\* The sessions an event is about, and events of some sessions lost.
Concerns(e) == IF e.kind = "disconnected" THEN Sessions ELSE {e.s, e.r} \ {None}
Lose(ss) == [s \in Sessions |-> IF s \in ss THEN "lost" ELSE gap[s]]

Push(w) == pending' = Append(pending, w) /\ UNCHANGED <<active, held>>

PushRecover == \E w \in Recoveries \ Queued : Push(w)

\* The head of the loop, up to its first await: a new agent is subscribed to
\* and noted for recovery, a noted recovery is admitted when there is room, a
\* shutdown ends the loop, and work that could start asks for a snapshot.
Top ==
    LET note == reloaded \/ recoverPending
        room == ~Queue!IsFull
        waiting == pending' # <<>> /\ Cardinality(active) < Concurrency
    IN  /\ pc = "top"
        /\ reloaded' = FALSE
        /\ stream' = IF reloaded THEN <<>> ELSE stream
        /\ lagged' = (lagged /\ ~reloaded)
        /\ gap' = IF reloaded THEN Lose(Sessions) ELSE gap
        /\ recoverPending' = (note /\ ~room)
        /\ IF note /\ room THEN PushRecover ELSE UNCHANGED queueVars
        /\ pc' = CASE shutdown -> "stopping"
                   [] ~shutdown /\ waiting -> "bindings"
                   [] OTHER -> "select"
        /\ UNCHANGED <<script, snapVars, routeVars, worker, status, outcome, inboundVars,
                       tickVars, unsent, reloads, shutdown>>

\* dispatch_snapshot locks one table after another; workers run in between.
ReadBindings ==
    /\ pc = "bindings" /\ pc' = "actions"
    /\ partial' = [partial EXCEPT !.current = current, !.draining = draining]
    /\ UNCHANGED <<snapshot, routings>>
ReadActions ==
    /\ pc = "actions" /\ pc' = "replies"
    /\ partial' = [partial EXCEPT !.actions = actions]
    /\ UNCHANGED <<snapshot, routings>>
ReadReplies ==
    /\ pc = "replies" /\ pc' = "scan"
    /\ partial' = [partial EXCEPT !.replies = replies]
    /\ snapshot' = partial'
    /\ routings' = IF snapshot' = snapshot THEN routings ELSE routings + 1
    /\ routings' <= MaxRoutings
DispatchSnapshot ==
    /\ ReadBindings \/ ReadActions \/ ReadReplies
    /\ UNCHANGED <<script, queueVars, routeVars, worker, status, outcome, inboundVars,
                   tickVars, streamVars, gap, reloadVars, shutdown>>

Startable(i) ==
    /\ Cardinality(active) < Concurrency
    /\ \A w \in active : ~held[w].global
    /\ Queue!Runs(i)

\* start_ready: every operation the same snapshot lets run gets a worker.
StartReady ==
    /\ pc = "scan"
    /\ \E i \in 1..Len(pending) :
          /\ ~shutdown /\ Startable(i)
          /\ active' = active \cup {pending[i]}
          /\ held' = [held EXCEPT ![pending[i]] = Scope(pending[i], snapshot)]
          /\ pending' = Queue!RemoveAt(i)
          /\ worker' = [worker EXCEPT ![pending[i]] = "running"]
    /\ UNCHANGED <<script, pc, snapVars, routeVars, status, outcome, inboundVars,
                   tickVars, streamVars, gap, reloadVars, shutdown>>
ScanEnds ==
    /\ pc = "scan"
    /\ shutdown \/ ~\E i \in 1..Len(pending) : Startable(i)
    /\ pc' = "select"
    /\ UNCHANGED <<script, queueVars, snapVars, routeVars, worker, status, outcome,
                   inboundVars, tickVars, streamVars, gap, reloadVars, shutdown>>

\* Mutant: the loop takes the same delivery again while it is queued.
KnownNever(w) == FALSE

Known(w) == w \in ids

\* The inbound branch: a redelivery of queued work is dropped, and a
\* conversation with too many requests has this one rejected for good, or the
\* service stops when that cannot be written.
AdmitInbound(w) ==
    /\ pc = "select" /\ pc' = "top"
    /\ w \in script /\ Inbound(w) /\ ~Queue!IsFull
    /\ \/ /\ Known(w)
          /\ UNCHANGED <<queueVars, inboundVars, status, shutdown>>
       \/ /\ ~Known(w) /\ counts[w.c] >= ConversationCapacity
          /\ \/ /\ status' = IF status[w] \in {"none", "failed"}
                             THEN [status EXCEPT ![w] = "rejected"] ELSE status
                /\ UNCHANGED shutdown
             \/ shutdown' = TRUE /\ UNCHANGED status
          /\ UNCHANGED <<queueVars, inboundVars>>
       \/ /\ ~Known(w) /\ counts[w.c] < ConversationCapacity
          /\ ids' = ids \cup {w}
          /\ counts' = [counts EXCEPT ![w.c] = @ + 1]
          /\ Push(w)
          /\ UNCHANGED <<status, shutdown>>
    /\ UNCHANGED <<script, snapVars, routeVars, worker, outcome, tickVars,
                   streamVars, gap, reloadVars>>

\* Work the engine itself hands back, each item once.
AdmitProduced(w) ==
    /\ pc = "select" /\ pc' = "top"
    /\ w \in unsent /\ Produced(w) /\ ~Queue!IsFull
    /\ unsent' = unsent \ {w}
    /\ Push(w)
    /\ UNCHANGED <<script, snapVars, routeVars, worker, status, outcome, inboundVars,
                   tickVars, stream, lagged, gap, reloadVars, shutdown>>

\* Mutant: a lag is logged and the receiver goes on.
OnLaggedIgnored == UNCHANGED queueVars

OnLagged == PushRecover

\* The event branch: the next event, or the notice that some were lost.
ReceiveEvent ==
    /\ pc = "select" /\ pc' = "top"
    /\ ~Queue!IsFull
    /\ \/ /\ lagged
          /\ OnLagged
          /\ lagged' = FALSE /\ UNCHANGED stream
       \/ /\ ~lagged /\ stream # <<>>
          /\ Push(Head(stream))
          /\ stream' = Tail(stream) /\ UNCHANGED lagged
    /\ UNCHANGED <<script, snapVars, routeVars, worker, status, outcome, inboundVars,
                   tickVars, unsent, gap, reloadVars, shutdown>>

\* A refresh is offered unless it is admitted already.
Offered(w) == w \in script \ refreshes /\ Refresh(w)

\* schedule_refreshes: first the switches and the board, each unless the queue is
\* full.
Tick ==
    /\ pc = "select" /\ pc' = "maintain"
    /\ LET items == SetToSeq({w \in script : w.kind = "switch" /\ w.c \in switching})
                       \o SetToSeq({Board} \cap script)
       IN  todo' = [items |-> items, count |-> Len(items)]
    /\ UNCHANGED <<queueVars, refreshes, cursor>>
OfferMaintenance ==
    /\ pc = "maintain" /\ todo.items # <<>>
    /\ LET w == Head(todo.items)
       IN  IF ~Queue!IsFull /\ Offered(w)
           THEN Push(w) /\ refreshes' = refreshes \cup {w}
           ELSE UNCHANGED <<queueVars, refreshes>>
    /\ todo' = [todo EXCEPT !.items = Tail(@)]
    /\ UNCHANGED <<pc, cursor>>
\* Then the active turns, in name order from where the last tick stopped.
ReadTurns ==
    /\ pc = "maintain" /\ todo.items = <<>> /\ pc' = "working"
    /\ LET ss == SelectSeq(SessionOrder,
                           LAMBDA s : s \in turns)
           k == IF ss = <<>> THEN 0 ELSE cursor % Len(ss)
           rotated == SubSeq(ss, k + 1, Len(ss)) \o SubSeq(ss, 1, k)
       IN  todo' = [items |-> [i \in 1..Len(ss) |-> Working(rotated[i])],
                    count |-> Len(ss)]
    /\ UNCHANGED <<queueVars, refreshes, cursor>>
OfferWorking ==
    /\ pc = "working" /\ todo.items # <<>> /\ ~Queue!IsFull
    /\ LET w == Head(todo.items)
       IN  IF Offered(w)
           THEN Push(w) /\ refreshes' = refreshes \cup {w}
           ELSE UNCHANGED <<queueVars, refreshes>>
    /\ cursor' = (cursor + 1) % todo.count
    /\ todo' = [todo EXCEPT !.items = Tail(@)]
    /\ UNCHANGED pc
TickEnds ==
    /\ pc = "working"
    /\ todo.items = <<>> \/ Queue!IsFull
    /\ pc' = "top"
    /\ todo' = [items |-> <<>>, count |-> 0]
    /\ UNCHANGED <<queueVars, refreshes, cursor>>
ScheduleRefreshes ==
    /\ Tick \/ OfferMaintenance \/ ReadTurns \/ OfferWorking \/ TickEnds
    /\ UNCHANGED <<script, snapVars, routeVars, worker, status, outcome,
                   inboundVars, streamVars, gap, reloadVars, shutdown>>

Settled(w) == worker[w] \in {"done", "failed"}

\* The effect of a request, an error its handler ended with, a write of its
\* processed_events row that failed.
Marks == {"effect", "error", "unwritten"}
Mark(w, marks) == [outcome EXCEPT ![w] = @ \cup marks]
MayFail(w) ==
    Cardinality({v \in script \ {w} : outcome[v] \cap {"error", "unwritten"} # {}})
        < MaxErrors

\* Mutant: an interrupted request is retired like a finished one.
FenceNothing(w) == status

\* fence_event: only an unsettled claim, or none at all, becomes uncertain.
Fence(w) ==
    IF Inbound(w) /\ worker[w] = "failed" /\ status[w] \in {"none", "processing"}
    THEN [status EXCEPT ![w] = "uncertain"] ELSE status

\* A joined worker gives back its reservation, its refresh and its request; a
\* fence that cannot be written is logged.
Retire(w) ==
    /\ w \in active /\ Settled(w)
    /\ active' = active \ {w}
    /\ held' = [held EXCEPT ![w] = Global]
    /\ worker' = [worker EXCEPT ![w] = "idle"]
    /\ refreshes' = refreshes \ {w}
    /\ ids' = ids \ {w}
    /\ counts' = IF Inbound(w) THEN [counts EXCEPT ![w.c] = @ - 1] ELSE counts
    /\ \/ status' = Fence(w) /\ UNCHANGED outcome
       \/ /\ Inbound(w) /\ worker[w] = "failed" /\ MayFail(w)
          /\ outcome' = Mark(w, {"unwritten"}) /\ UNCHANGED status
    /\ UNCHANGED <<script, pending, snapVars, routeVars, todo, cursor,
                   streamVars, gap, reloadVars>>

\* The worker branch: a panic may have left a transition half done, so the
\* service stops.
RetireWorker(w) ==
    /\ pc = "select"
    /\ Retire(w)
    /\ shutdown' = (shutdown \/ worker[w] = "failed")
    /\ pc' = IF worker[w] = "failed" THEN "stopping" ELSE "top"

ConfigurationChanged ==
    /\ pc = "select" /\ reloaded /\ pc' = "top"
    /\ UNCHANGED <<script, queueVars, snapVars, routeVars, worker, status, outcome,
                   inboundVars, tickVars, streamVars, gap, reloadVars, shutdown>>

StopSelected ==
    /\ pc = "select" /\ shutdown /\ pc' = "stopping"
    /\ UNCHANGED <<script, queueVars, snapVars, routeVars, worker, status, outcome,
                   inboundVars, tickVars, streamVars, gap, reloadVars, shutdown>>

\* stop_workers: after the grace period a worker is aborted where it stands;
\* all outcomes are retired once every worker has settled.
Abort(w) ==
    /\ pc = "stopping" /\ w \in active /\ ~Settled(w)
    /\ worker' = [worker EXCEPT ![w] = "failed"]
    /\ UNCHANGED <<script, pc, queueVars, snapVars, routeVars, status, outcome,
                   inboundVars, tickVars, streamVars, gap, reloadVars, shutdown>>
RetireStopped(w) ==
    /\ pc = "stopping" /\ \A v \in active : Settled(v)
    /\ Retire(w)
    /\ UNCHANGED <<pc, shutdown>>
Stopped ==
    /\ pc = "stopping" /\ active = {} /\ pc' = "stopped"
    /\ UNCHANGED <<script, queueVars, snapVars, routeVars, worker, status, outcome,
                   inboundVars, tickVars, streamVars, gap, reloadVars, shutdown>>

----------------------------------------------------------------------------
(* The workers: execute_work and the handlers it calls. *)

\* BindingTable::attach: the conversation's previous session drains if its turn
\* runs, and the session's previous conversation is displaced.
Attach(c, s, busy) ==
    /\ current' = IF current[c] = s THEN current
                  ELSE [x \in Conversations |-> IF x = c THEN s
                                                ELSE IF current[x] = s THEN None
                                                ELSE current[x]]
    /\ draining' = IF current[c] = s THEN draining
                   ELSE [x \in Sessions |->
                            IF x = s THEN None
                            ELSE IF x = current[c]
                                 THEN (IF busy THEN c ELSE None)
                            ELSE draining[x]]

\* The same with the row of the bindings table.  A session switch is of the
\* binding it began with (its epoch), so that binding anew ends it.
Bind(c, s, busy) ==
    /\ Attach(c, s, busy)
    /\ saved' = [x \in Conversations |-> IF x = c THEN s
                                         ELSE IF saved[x] = s THEN None
                                         ELSE saved[x]]
    /\ switching' = {x \in switching \ {c} : saved'[x] = saved[x]}

\* What a fork, a clear, a launch or a session switch leads to: a session that no
\* conversation has, of the same agent unless it was launched.
Unbound(s) == \A x \in Conversations : s \notin {current[x], saved[x]}
Replacement(w) ==
    /\ w.r # None /\ Unbound(w.r)
    /\ w.kind # "launch" => /\ current[w.c] # None
                            /\ BackendOf[w.r] = BackendOf[current[w.c]]

Unbind(c, keep) ==
    /\ current' = [current EXCEPT ![c] = None]
    /\ draining' = IF keep THEN [draining EXCEPT ![current[c]] = c] ELSE draining

NoReplies == [c \in Conversations |-> None]

\* What the agent, the database or the IM refuses leaves the tables alone, with
\* a control used up all the same; commit_binding changes row and table together.
HandleInbound(w) ==
    CASE w.kind = "text" ->
            /\ replies' = [replies EXCEPT ![w.c] = None]
            /\ UNCHANGED <<current, draining, saved, actions, turns, switching>>
      [] w.kind = "attach" ->
            /\ \/ Bind(w.c, w.s, current[w.c] \in turns)
               \/ UNCHANGED <<current, draining, saved, switching>>
            /\ UNCHANGED <<actions, replies, turns>>
      [] w.kind = "detach" ->
            /\ IF current[w.c] = None THEN UNCHANGED <<current, draining, saved>>
               ELSE /\ Unbind(w.c, current[w.c] \in turns)
                    /\ saved' = [saved EXCEPT ![w.c] = None]
            /\ switching' = switching \ {w.c}
            /\ UNCHANGED <<actions, replies, turns>>
      [] w.kind \in {"replace", "launch"} ->
            /\ \/ Replacement(w) /\ Bind(w.c, w.r, current[w.c] \in turns)
               \/ UNCHANGED <<current, draining, saved, switching>>
            /\ UNCHANGED <<actions, replies, turns>>
      [] w.kind = "press" ->
            /\ \/ w.s \in actions /\ Bind(w.c, w.s, current[w.c] \in turns)
               \/ UNCHANGED <<current, draining, saved, switching>>
            /\ actions' = actions \ {w.s}
            /\ UNCHANGED <<replies, turns>>
      [] w.kind = "answer" ->
            /\ \/ w.s \in actions /\ replies' = [replies EXCEPT ![w.c] = w.s]
               \/ UNCHANGED replies
            /\ actions' = actions \ {w.s}
            /\ UNCHANGED <<current, draining, saved, turns, switching>>

\* handle_session_exit: the binding is suspended, its row kept, unless a
\* session switch is to carry it over.
HandleExit(s) ==
    LET owner == {c \in Conversations : current[c] = s}
    IN  /\ turns' = IF owner \cap switching # {} THEN turns ELSE turns \ {s}
        /\ IF owner = {} \/ owner \cap switching # {}
           THEN UNCHANGED <<current, draining, actions, replies>>
           ELSE LET c == CHOOSE x \in owner : TRUE
                IN  /\ Unbind(c, FALSE)
                    /\ actions' = actions \ {s}
                    /\ replies' = [replies EXCEPT ![c] = None]
        /\ UNCHANGED <<saved, switching>>

\* handle_session_resume: the row decides, whatever the memory says by now.
HandleResume(s) ==
    LET owner == {c \in Conversations : saved[c] = s}
    IN  /\ IF owner = {} THEN UNCHANGED <<current, draining>>
           ELSE Attach(CHOOSE x \in owner : TRUE, s, FALSE)
        /\ UNCHANGED <<saved, actions, replies, turns, switching>>

HandleEvent(w) ==
    CASE w.kind = "started" ->
            /\ turns' = turns \cup {w.s}
            /\ UNCHANGED <<current, draining, saved, actions, replies, switching>>
      [] w.kind = "completed" ->
            /\ turns' = IF Route(Live, w.s) = {} THEN turns ELSE turns \ {w.s}
            /\ draining' = [draining EXCEPT ![w.s] = None]
            /\ UNCHANGED <<current, saved, actions, replies, switching>>
      [] w.kind = "requested" ->
            /\ actions' = IF Route(Live, w.s) = {} THEN actions
                          ELSE actions \cup {w.s}
            /\ UNCHANGED <<current, draining, saved, replies, turns, switching>>
      [] w.kind = "exited" -> HandleExit(w.s)
      [] w.kind = "resumed" -> HandleResume(w.s)
      [] w.kind = "replaced" ->
            LET owner == {c \in switching : current[c] = w.s}
            IN  /\ IF owner = {} \/ ~Unbound(w.r)
                   THEN UNCHANGED <<current, draining, saved, switching>>
                   ELSE Bind(CHOOSE x \in owner : TRUE, w.r, FALSE)
                /\ UNCHANGED <<actions, replies, turns>>
      [] w.kind = "disconnected" ->
            /\ actions' = {} /\ replies' = NoReplies
            /\ UNCHANGED <<current, draining, saved, turns, switching>>

\* recover_event_gap drops every control and rebuilds the turns of the bound
\* sessions whose history it can read: without list_bindings of none, and an
\* error of one session is logged.  Nothing tries again, and no other session is
\* rebuilt.
RecoverEventGap ==
    /\ actions' = {} /\ replies' = NoReplies
    /\ \E rebuilt \in SUBSET {current[c] : c \in {x \in Conversations :
                                   current[x] # None /\ saved[x] = current[x]}} :
          /\ \E running \in SUBSET rebuilt : turns' = (turns \ rebuilt) \cup running
          /\ gap' = [s \in Sessions |->
                        IF gap[s] = "none" \/ s \in rebuilt THEN "none" ELSE "unbuilt"]
    /\ UNCHANGED <<current, draining, saved, switching>>

\* refresh_session_switch attaches the replacement a crash left unfinished;
\* a reattachment binds unless its conversation has moved on.
HandleOther(w) ==
    CASE w.kind = "switch" ->
            /\ IF w.c \in switching /\ Replacement(w) THEN Bind(w.c, w.r, FALSE)
               ELSE UNCHANGED <<current, draining, saved, switching>>
            /\ UNCHANGED <<actions, replies, turns>>
      [] w.kind = "reattach" ->
            /\ \/ Bind(w.c, w.s, current[w.c] \in turns)
               \/ UNCHANGED <<current, draining, saved, switching>>
            /\ UNCHANGED <<actions, replies, turns>>
      [] w.kind = "recover" -> RecoverEventGap
      [] OTHER -> UNCHANGED routeVars

\* handle_inbound starts with claim_event: an id that is settled or rejected is
\* not executed again, one that failed is.  Without the database nothing is.
Claim(w) ==
    /\ worker[w] = "running" /\ Inbound(w)
    /\ \/ /\ status[w] \in {"none", "failed"}
          /\ status' = [status EXCEPT ![w] = "processing"]
          /\ outcome' = [outcome EXCEPT ![w] = @ \cap {"effect"}]
          /\ worker' = [worker EXCEPT ![w] = "claimed"]
       \/ /\ worker' = [worker EXCEPT ![w] = "done"]
          /\ UNCHANGED <<status, outcome>>
    /\ UNCHANGED <<routeVars, gap>>
Execute(w) ==
    /\ worker[w] = IF Inbound(w) THEN "claimed" ELSE "running"
    /\ IF Inbound(w) THEN HandleInbound(w)
       ELSE IF Event(w) THEN HandleEvent(w) ELSE HandleOther(w)
    /\ outcome' = IF Inbound(w) THEN Mark(w, {"effect"}) ELSE outcome
    /\ w.kind # "recover" => UNCHANGED gap
    /\ worker' = [worker EXCEPT ![w] = IF Inbound(w) THEN "acted" ELSE "done"]
    /\ UNCHANGED status

\* The last write of handle_inbound, whose failure is reported or logged and
\* leaves the claim where it is: the worker has ended all the same.
Settle(w, answer, marks) ==
    /\ worker' = [worker EXCEPT ![w] = "done"]
    /\ \/ /\ status' = [status EXCEPT ![w] = answer]
          /\ outcome' = Mark(w, marks)
       \/ /\ MayFail(w)
          /\ outcome' = Mark(w, marks \cup {"unwritten"})
          /\ UNCHANGED status
    /\ UNCHANGED <<routeVars, gap>>
Complete(w) == worker[w] = "acted" /\ Settle(w, "completed", {})
\* An error before, during or after the effect releases the claim, or fences it
\* when the agent's answer was lost.
Fail(w) ==
    /\ worker[w] \in {"claimed", "acted"} /\ MayFail(w)
    /\ \E answer \in {"failed", "uncertain"} : Settle(w, answer, {"error"})
Panic(w) ==
    /\ worker[w] \in {"running", "claimed", "acted"}
    /\ ~shutdown /\ pc # "stopping"
    /\ worker' = [worker EXCEPT ![w] = "failed"]
    /\ UNCHANGED <<routeVars, status, outcome, gap>>
WorkerStep(w) ==
    /\ w \in active
    /\ Claim(w) \/ Execute(w) \/ Complete(w) \/ Fail(w) \/ Panic(w)
    /\ UNCHANGED <<script, pc, queueVars, snapVars, inboundVars, tickVars,
                   streamVars, reloadVars, shutdown>>

----------------------------------------------------------------------------
(* The agents and the host. *)

\* A broadcast channel drops the oldest event of a slow receiver.
Emit(e) ==
    /\ e \in unsent /\ Event(e)
    /\ pc \notin {"stopping", "stopped"}
    /\ unsent' = unsent \ {e}
    /\ stream' = Append(IF Len(stream) >= StreamCapacity THEN Tail(stream) ELSE stream, e)
    /\ lagged' = (lagged \/ Len(stream) >= StreamCapacity)
    /\ gap' = IF Len(stream) >= StreamCapacity THEN Lose(Concerns(Head(stream))) ELSE gap
    /\ UNCHANGED <<script, pc, queueVars, snapVars, routeVars, worker, status,
                   outcome, inboundVars, tickVars, reloadVars, shutdown>>

\* The configuration watch publishes an engine with another agent.
Reload ==
    /\ reloads < MaxReloads
    /\ pc \notin {"stopping", "stopped"}
    /\ reloads' = reloads + 1 /\ reloaded' = TRUE
    /\ UNCHANGED <<script, pc, queueVars, snapVars, routeVars, worker, status,
                   outcome, inboundVars, tickVars, streamVars, gap,
                   recoverPending, shutdown>>
Cancel ==
    /\ ~shutdown /\ shutdown' = TRUE
    /\ UNCHANGED <<script, pc, queueVars, snapVars, routeVars, worker, status,
                   outcome, inboundVars, tickVars, streamVars, gap, reloadVars>>

Loop == Top \/ DispatchSnapshot \/ StartReady \/ ScanEnds
Next ==
    \/ Loop
    \/ \E w \in script : AdmitInbound(w) \/ AdmitProduced(w)
    \/ ReceiveEvent
    \/ ScheduleRefreshes
    \/ \E w \in script : RetireWorker(w) \/ Abort(w) \/ RetireStopped(w)
    \/ ConfigurationChanged \/ StopSelected \/ Stopped
    \/ \E w \in script : WorkerStep(w)
    \/ \E e \in script : Emit(e)
    \/ Reload \/ Cancel

Spec == Init /\ [][Next]_vars

\* The loop and every worker run on; tokio's select polls its branches in
\* random order, so that a branch which is ready again and again is taken.
Fairness ==
    /\ WF_vars(Loop) /\ WF_vars(ScheduleRefreshes)
    /\ WF_vars(ConfigurationChanged) /\ SF_vars(ReceiveEvent)
    /\ \A w \in Work : WF_vars(WorkerStep(w)) /\ SF_vars(RetireWorker(w))

FairSpec == Spec /\ Fairness

----------------------------------------------------------------------------
\* Types, and the bookkeeping of admitted requests: inbound_ids and
\* inbound_counts say exactly which requests of a conversation are unfinished.
TypeOK ==
    /\ pc \in {"top", "bindings", "actions", "replies", "scan", "select",
               "maintain", "working", "stopping", "stopped"}
    /\ Queued \subseteq script /\ script \subseteq Work
    /\ snapshot.current \in [Conversations -> Sessions \cup {None}]
    /\ worker \in [Work -> {"idle", "running", "claimed", "acted", "done", "failed"}]
    /\ status \in [Work -> {"none", "processing", "completed", "failed",
                            "uncertain", "rejected"}]
    /\ outcome \in [Work -> SUBSET Marks]
    /\ gap \in [Sessions -> {"none", "lost", "unbuilt"}]
    /\ ids = {w \in Queued : Inbound(w)}
    /\ \A c \in Conversations : counts[c] = Cardinality({w \in ids : w.c = c})
    /\ refreshes = {w \in Queued : Refresh(w)}

\* The runtime uses its queue as the queue is specified: it never pushes past
\* the capacity it tested, never queues an item twice, and starts only what the
\* routing of its latest complete snapshot lets run.
ImplementsQueue == Queue!Spec

\* What a handler in progress reads or changes, as the routing state stands now.
Touched(w) ==
    LET owners(s) == Route(Live, s)
        sessions ==
            (CASE Inbound(w) -> {current[w.c], replies[w.c]}
                                  \cup IF w.kind = "attach" \/ w.s \in actions
                                       THEN {w.s} ELSE {}
               [] Event(w) -> {w.s, w.r}
               [] w.kind = "reattach" -> {current[w.c], w.s}
               [] w.kind = "switch" -> {current[w.c]}
               [] OTHER -> {w.s}) \ {None}
        obtained == IF w.kind \in {"replace", "launch", "switch"} /\ Replacement(w)
                    THEN {w.r} ELSE {}
        kept == IF w.kind = "resumed" THEN {c \in Conversations : saved[c] = w.s}
                ELSE {}
    IN  CASE w.kind \in {"recover", "disconnected"} -> Conversations \cup Sessions
          [] w.kind = "board" -> {}
          [] OTHER -> sessions \cup obtained \cup (UNION {owners(s) : s \in sessions})
                        \cup kept \cup ({w.c} \ {None})

\* "Requests affecting the same conversation or session retain their order"
\* (docs/architecture.md): two handlers in progress never touch the same
\* conversation or session, although both were dispatched from snapshots that
\* other workers have made obsolete since.
Serialised ==
    \A v, w \in active :
        (v # w /\ worker[v] \in {"running", "claimed"}
               /\ worker[w] \in {"running", "claimed"})
            => Touched(v) \cap Touched(w) = {}

\* However the loop ends (cancellation, a panic, the grace period running out),
\* an interruption leaves no request claimed and opens none to a replay: a claim
\* is left only where the database refused the write that settles it, and the
\* next start hands out again what has had its effect only after such a write or
\* after an error of the handler itself, which release_event answers.
FencedAtStop ==
    pc = "stopped" =>
        \A w \in script : Inbound(w) =>
            /\ status[w] = "processing" => "unwritten" \in outcome[w]
            /\ "effect" \in outcome[w] =>
                  \/ status[w] \in {"completed", "uncertain"}
                  \/ outcome[w] \cap {"error", "unwritten"} # {}

\* Lost events, through a lag or through a change of the agent, are answered for
\* each session concerned: a recovery that begins after the loss drops every
\* control and rebuilds the session's turn, or has tried to, unless the service
\* stops.
GapsAnswered ==
    \A s \in Sessions :
        gap[s] = "lost" ~> (gap[s] # "lost" \/ pc \in {"stopping", "stopped"})

============================================================================
