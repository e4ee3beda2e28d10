--------------------------- MODULE SessionBinding ---------------------------
(***************************************************************************)
(* The binding of a conversation to the session it is attached to: the     *)
(* table in memory (agentix-domain/src/binding.rs), its rows in the        *)
(* database (agentix-storage/src/state.rs), and the subscription the agent *)
(* adapter keeps for it (agentix-core/src/engine/subscription_cleanup.rs,  *)
(* session_flows.rs, session_service.rs, turn_flows.rs, startup.rs).       *)
(*                                                                         *)
(* A handler is one step: the dispatch queue keeps two handlers that name  *)
(* the same conversation or session apart.  What a handler leaves behind   *)
(* runs on its own: workers that subscribe (prepare) and unsubscribe       *)
(* (cleanup), results that come back as work, and lifecycle events of the  *)
(* agent that are handled some time after they happened.                   *)
(*                                                                         *)
(* Request ids are uuids: an id that nothing refers to any more is reused. *)
(* Cards, command menus, labels and histories are left out.                *)
(***************************************************************************)
EXTENDS Naturals, Sequences, FiniteSets

CONSTANTS
    Conversations, Sessions, None,
    Starts,             \* the bindings the service may start with
    Limit,              \* capacity of pending, preparing and attachments (128)
    MaxJobs,            \* bound on request and worker ids in use at once
    MaxCommands,        \* bound on what users ask for (turns start and end freely)
    MaxFaults           \* bound on reconnects, exits, crashes and failures

Rows == [s : Sessions, epoch : Nat]
Requests == [c : Conversations, s : Sessions, epoch : Nat, gen : Nat,
             prepared : BOOLEAN, id : Nat]

ASSUME NoneIsNothing == None \notin Conversations \cup Sessions \cup Rows \cup Requests
ASSUME LimitsNat == {Limit, MaxJobs, MaxCommands, MaxFaults} \subseteq Nat
ASSUME StartsTyped ==
    /\ Starts \subseteq [Conversations -> Sessions \cup {None}]
    /\ \A b \in Starts, c, d \in Conversations : b[c] = b[d] /\ b[c] # None => c = d

VARIABLES
    cur,            \* by_conversation
    drain,          \* draining: the conversation a session's last turn goes to
    epoch,          \* epochs of the table in memory
    row,            \* bindings: [s, epoch] or None
    dbEpoch,        \* binding_epochs
    cl,             \* SubscriptionCleanup's State
    follow,         \* what the adapter does about a session
    running,        \* sessions whose process runs
    turns,          \* sessions with an active turn
    events,         \* lifecycle events not yet handled
    generation, up, commands, faults,
    stuck,          \* history: sessions whose unsubscribe failed
    contested       \* history: saved sessions released by another conversation

tableVars == <<cur, drain, epoch>>
dbVars == <<row, dbEpoch>>
hostVars == <<follow, running, events>>
limitVars == <<commands, faults>>
historyVars == <<stuck, contested>>
vars == <<tableVars, dbVars, cl, hostVars, turns, generation, up, limitVars,
          historyVars>>

----------------------------------------------------------------------------
\* BindingTable.
Owner(s) == {c \in Conversations : cur[c] = s}
Bound(s) == Owner(s) # {}
Route(s) == IF Bound(s) THEN Owner(s) ELSE {drain[s]} \ {None}

\* What BindingTable::attach_at_epoch does to the table.
AttachAtEpoch(c, s, active, e) ==
    LET old == cur[c] IN
    /\ cur' = [x \in Conversations |->
                  IF x = c THEN s ELSE IF cur[x] = s THEN None ELSE cur[x]]
    /\ drain' = [x \in Sessions |->
                    CASE old = s -> drain[x]
                      [] old # s /\ x = s -> None
                      [] old # s /\ x # s /\ x = old -> IF active THEN c ELSE None
                      [] OTHER -> drain[x]]
    /\ epoch' = [epoch EXCEPT ![c] = e]

\* Mutant: the row of the conversation that loses the session stays.
RowsDisplacedKept(c, s) ==
    [row EXCEPT ![c] = [s |-> s, epoch |-> dbEpoch[c] + 1]]

\* The rows after SqliteState::attach: one per conversation and per session.
RowsAttached(c, s) ==
    [x \in Conversations |->
        IF x = c THEN [s |-> s, epoch |-> dbEpoch[c] + 1]
        ELSE IF row[x] # None /\ row[x].s = s THEN None ELSE row[x]]

SaveBinding(c, s) ==
    /\ dbEpoch' = [dbEpoch EXCEPT ![c] = @ + 1]
    /\ row' = RowsAttached(c, s)

\* SqliteState::detach and suspend
DeleteBinding(c) ==
    /\ row' = [row EXCEPT ![c] = None]
    /\ dbEpoch' = [dbEpoch EXCEPT ![c] = @ + 1]
SuspendBinding(c) ==
    /\ row' = [row EXCEPT ![c].epoch = dbEpoch[c] + 1]
    /\ dbEpoch' = [dbEpoch EXCEPT ![c] = @ + 1]

----------------------------------------------------------------------------
\* SubscriptionCleanup.  A worker is a record [id, kind, request, s, waits,
\* stage]; a result is a prepared request that has been posted.
Request(c, s, e, g, p, i) ==
    [c |-> c, s |-> s, epoch |-> e, gen |-> g, prepared |-> p, id |-> i]
Idle == [attachments |-> [c \in Conversations |-> None], retries |-> {},
         results |-> {}, workers |-> {}]

Attachments(k) == {k.attachments[c] : c \in Conversations} \ {None}
Targeted(k, s) == \E r \in Attachments(k) : r.s = s
Preparing(k) == {w \in k.workers : w.kind = "prepare"}
Cleaning(k, s) == {w \in k.workers : w.kind = "cleanup" /\ w.s = s}
IdsInUse(k) ==
    {r.id : r \in Attachments(k) \cup k.retries} \cup {w.id : w \in k.workers}
    \cup {p.request.id : p \in k.results}
FreeIds(k) == 1..MaxJobs \ IdsInUse(k)
FreshId(k) == CHOOSE i \in FreeIds(k) : TRUE

\* The bound MaxJobs leaves an id for the request or worker that a step may create.
Room == FreeIds(cl) # {}

Cancel(k, c) ==
    [k EXCEPT !.retries = {r \in @ : r.c # c}, !.attachments[c] = None]
CancelSession(k, s) ==
    LET hit == {c \in Conversations :
                   k.attachments[c] # None /\ k.attachments[c].s = s}
    IN  [k EXCEPT !.retries = {r \in @ : r.c \notin hit},
                  !.attachments = [c \in Conversations |->
                      IF c \in hit THEN None ELSE k.attachments[c]]]

\* Mutant: does not look for attachments that still want the session.
EnqueueAlways(k, s) ==
    IF Cleaning(k, s) # {} THEN k
    ELSE [k EXCEPT !.workers = @ \cup
             {[id |-> FreshId(k), kind |-> "cleanup", request |-> None, s |-> s,
               waits |-> {w.id : w \in {v \in Preparing(k) : v.s = s}},
               stage |-> "wait"]}]

\* enqueue: at most one unsubscribe of a session, behind its preparations,
\* unless an attachment in progress still needs the subscription.
Enqueue(k, s) ==
    IF Targeted(k, s) \/ Cleaning(k, s) # {}
       \/ Cardinality({w \in k.workers : w.kind = "cleanup"}) >= Limit
    THEN k
    ELSE [k EXCEPT !.workers = @ \cup
             {[id |-> FreshId(k), kind |-> "cleanup", request |-> None, s |-> s,
               waits |-> {w.id : w \in {v \in Preparing(k) : v.s = s}},
               stage |-> "wait"]}]

\* prepare: subscribe behind the other preparations of the session and its
\* unsubscribe; refused at the limit.
Full(k) == Cardinality(Preparing(k)) + Cardinality(k.results) >= Limit

Prepare(k, r) ==
    IF Full(k) THEN k
    ELSE [k EXCEPT
            !.attachments[r.c] = r,
            !.workers = @ \cup
               {[id |-> r.id, kind |-> "prepare", request |-> r, s |-> r.s,
                 waits |-> {w.id : w \in {v \in Preparing(k) : v.s = r.s}
                                          \cup Cleaning(k, r.s)},
                 stage |-> "wait"]}]

\* defer_attachment, whose caller found an unsubscribe of the session pending.
Defer(k, r) ==
    [k EXCEPT !.attachments[r.c] = r,
              !.retries = IF Cleaning(k, r.s) = {} THEN @ \cup {r} ELSE @]

\* Mutant: nothing wakes the attachments deferred behind a cleanup.
WokenNone(k, s) == {}

\* The attachments a finished cleanup puts back on the ready queue.
Woken(k, s) == {r \in Attachments(k) : r.s = s /\ ~r.prepared}

\* A finished worker: nobody waits for it any more.
Finish(k, w) ==
    [k EXCEPT !.workers =
        {[v EXCEPT !.waits = @ \ {w.id}] : v \in k.workers \ {w}}]

\* Mutant: leaves the subscription of an abandoned attachment alone.
ReleaseNothing(k, s) == k

\* release_unused_attachment
Release(k, s) == IF Bound(s) \/ Targeted(k, s) THEN k ELSE Enqueue(k, s)
Saved(s) == \E c \in Conversations : row[c] # None /\ row[c].s = s
NoteRelease(s) ==
    contested' = IF Saved(s) /\ ~Bound(s) THEN contested \cup {s} ELSE contested

----------------------------------------------------------------------------
\* Commands of a user.  MaxCommands bounds them.
Ask == up /\ commands < MaxCommands /\ commands' = commands + 1

\* defer_subscription_cleanup and begin_attachment
DeferCleanup(k, c, s) ==
    Defer(k, Request(c, s, epoch[c], generation, FALSE, FreshId(k)))
BeginAttachment(k, c, s) ==
    Prepare(k, Request(c, s, epoch[c], generation, TRUE, FreshId(k)))

Attach(c, s) ==
    /\ Ask
    /\ LET k == CancelSession(Cancel(cl, c), s)
       IN  /\ FreeIds(k) # {}
           /\ cl' = IF cur[c] = s THEN k
                    ELSE IF Cleaning(k, s) # {} THEN DeferCleanup(k, c, s)
                    ELSE BeginAttachment(k, c, s)
    /\ UNCHANGED <<tableVars, dbVars, hostVars, turns, generation, up, faults,
                   historyVars>>

Detach(c) ==
    /\ Ask /\ Room
    /\ LET k == Cancel(cl, c)
       IN  \/ /\ cur[c] = None
              /\ cl' = k
              /\ UNCHANGED <<tableVars, dbVars>>
           \/ /\ cur[c] # None
              /\ DeleteBinding(c)
              /\ cur' = [cur EXCEPT ![c] = None]
              /\ epoch' = [epoch EXCEPT ![c] = @ + 1]
              /\ IF cur[c] \in turns
                 THEN drain' = [drain EXCEPT ![cur[c]] = c] /\ cl' = k
                 ELSE drain' = drain /\ cl' = Enqueue(k, cur[c])
    /\ UNCHANGED <<hostVars, turns, generation, up, faults, historyVars>>

\* bind_subscribed_session: commit_binding, then the unsubscribes it causes.
BindSubscribed(c, s, k) ==
    LET live == IF cur[c] # s THEN cur[c] ELSE None
        stored == IF row[c] # None /\ row[c].s # s THEN row[c].s ELSE None
        active == cur[c] \in turns
        k1 == IF live # None /\ ~active THEN Enqueue(k, live) ELSE k
    IN  /\ SaveBinding(c, s)
        /\ AttachAtEpoch(c, s, active, dbEpoch[c] + 1)
        /\ cl' = IF stored # None /\ stored # live THEN Enqueue(k1, stored) ELSE k1

\* run_session_command whose result carries a replacement session, which the
\* adapter has created and subscribed: a session nobody knew.
Replace(c, s) ==
    /\ Ask /\ Room
    /\ cur[c] # None /\ follow[cur[c]] = "live"
    /\ follow[s] = "off" /\ drain[s] = None /\ ~Bound(s) /\ ~Saved(s)
    /\ ~Targeted(cl, s) /\ \A w \in cl.workers : w.s # s
    /\ \A p \in cl.results : p.request.s # s
    /\ follow' = [follow EXCEPT ![s] = "live"]
    /\ running' = running \cup {s}
    /\ BindSubscribed(c, s, cl)
    /\ UNCHANGED <<turns, events, generation, up, faults, historyVars>>

----------------------------------------------------------------------------
\* Workers.
Fault == faults < MaxFaults /\ faults' = faults + 1

\* AgentAdapter::attach and the history page: a session whose process is gone
\* is remembered for its return, and the attachment fails.
Subscribe(w) ==
    /\ up /\ w \in Preparing(cl) /\ w.stage = "wait" /\ w.waits = {}
    /\ \/ /\ w.s \in running
          /\ follow' = [follow EXCEPT ![w.s] = "live"]
          /\ \/ cl' = [cl EXCEPT !.workers =
                         (@ \ {w}) \cup {[w EXCEPT !.stage = "ok"]}]
                /\ UNCHANGED faults
             \/ /\ Fault                            \* the history is not read
                /\ cl' = [cl EXCEPT !.workers =
                            (@ \ {w}) \cup {[w EXCEPT !.stage = "failed"]}]
       \/ /\ w.s \notin running
          /\ follow' = [follow EXCEPT ![w.s] = "exited"]
          /\ cl' = [cl EXCEPT !.workers =
                      (@ \ {w}) \cup {[w EXCEPT !.stage = "failed"]}]
          /\ UNCHANGED faults
    /\ UNCHANGED <<tableVars, dbVars, running, events, turns, generation, up,
                   commands, historyVars>>

Post(w) ==
    /\ up /\ w \in Preparing(cl) /\ w.stage \in {"ok", "failed"}
    /\ cl' = [Finish(cl, w) EXCEPT !.results =
                 @ \cup {[request |-> w.request, ok |-> w.stage = "ok"]}]
    /\ UNCHANGED <<tableVars, dbVars, hostVars, turns, generation, up, limitVars,
                   historyVars>>

\* AgentAdapter::unsubscribe forgets the session before it asks the agent.
Unsubscribe(w) ==
    /\ up /\ w \in cl.workers /\ w.kind = "cleanup" /\ w.stage = "wait"
    /\ w.waits = {}
    /\ follow' = [follow EXCEPT ![w.s] = "off"]
    /\ \/ stuck' = stuck \ {w.s} /\ UNCHANGED faults
       \/ stuck' = stuck \cup {w.s} /\ Fault
    /\ cl' = [cl EXCEPT !.workers = (@ \ {w}) \cup {[w EXCEPT !.stage = "done"]}]
    /\ UNCHANGED <<tableVars, dbVars, running, events, turns, generation, up,
                   commands, contested>>

\* The end of a cleanup: the attachments deferred behind it are tried again.
FinishCleanup(w) ==
    /\ up /\ w \in cl.workers /\ w.kind = "cleanup" /\ w.stage = "done"
    /\ cl' = [Finish(cl, w) EXCEPT !.retries =
                 @ \cup Woken(cl, w.s)]
    /\ UNCHANGED <<tableVars, dbVars, hostVars, turns, generation, up, limitVars,
                   historyVars>>

\* Mutant: applies a prepared attachment without checking that it is current.
CurrentUnchecked(r) == epoch[r.c] = r.epoch /\ generation = r.gen

StillCurrent(r) ==
    cl.attachments[r.c] = r /\ epoch[r.c] = r.epoch /\ generation = r.gen

\* apply_prepared_attachment
ApplyPrepared(p) ==
    LET r == p.request
        k == [cl EXCEPT !.results = @ \ {p},
                        !.attachments[r.c] = IF @ = r THEN None ELSE @]
    IN  /\ up /\ Room /\ p \in cl.results
        /\ \/ /\ StillCurrent(r) /\ p.ok
              /\ BindSubscribed(r.c, r.s, k)
              /\ UNCHANGED contested
           \/ /\ ~(StillCurrent(r) /\ p.ok)
              /\ cl' = Release(k, r.s)
              /\ NoteRelease(r.s)
              /\ UNCHANGED <<tableVars, dbVars>>
        /\ UNCHANGED <<hostVars, turns, generation, up, limitVars, stuck>>

\* apply_reattachment of a request that was deferred
ApplyDeferred(r) ==
    LET k == [cl EXCEPT !.retries = @ \ {r},
                        !.attachments[r.c] = IF @ = r THEN None ELSE @]
    IN  /\ up /\ r \in cl.retries
        /\ cl' = IF ~StillCurrent(r) THEN k
                 ELSE IF Cleaning(k, r.s) # {} THEN Defer(k, r)
                 ELSE Prepare(k, [r EXCEPT !.prepared = TRUE])
        /\ UNCHANGED <<tableVars, dbVars, hostVars, turns, generation, up,
                       limitVars, historyVars>>

----------------------------------------------------------------------------
\* Turns: their events arrive for sessions the adapter follows.
TurnStarted(s) ==
    /\ up /\ follow[s] = "live" /\ s \in running /\ s \notin turns
    /\ Route(s) # {}
    /\ turns' = turns \cup {s}
    /\ UNCHANGED <<tableVars, dbVars, cl, hostVars, generation, up, commands, faults,
                   historyVars>>

\* handle_turn_completed: the last turn of a session left behind ends its
\* subscription.
TurnCompleted(s) ==
    /\ up /\ Room /\ follow[s] = "live" /\ s \in running /\ s \in turns
    /\ turns' = turns \ {s}
    /\ IF ~Bound(s) /\ drain[s] # None
       THEN drain' = [drain EXCEPT ![s] = None] /\ cl' = Enqueue(cl, s)
       ELSE UNCHANGED <<drain, cl>>
    /\ UNCHANGED <<cur, epoch, dbVars, hostVars, generation, up, limitVars,
                   historyVars>>

\* The process of a session ends and starts again; the adapter says so of the
\* sessions it follows.
HostExits(s) ==
    /\ Fault /\ s \in running
    /\ running' = running \ {s}
    /\ IF up /\ follow[s] = "live"
       THEN follow' = [follow EXCEPT ![s] = "exited"]
            /\ events' = Append(events, [kind |-> "exited", s |-> s])
       ELSE UNCHANGED <<follow, events>>
    /\ UNCHANGED <<tableVars, dbVars, cl, turns, generation, up, commands,
                   historyVars>>

HostStarts(s) ==
    /\ s \notin running
    /\ running' = running \cup {s}
    /\ IF up /\ follow[s] = "exited"
       THEN follow' = [follow EXCEPT ![s] = "live"]
            /\ events' = Append(events, [kind |-> "resumed", s |-> s])
       ELSE UNCHANGED <<follow, events>>
    /\ UNCHANGED <<tableVars, dbVars, cl, turns, generation, up, limitVars,
                   historyVars>>

\* handle_session_exit: the binding is suspended, its row kept.
HandleExit ==
    /\ up /\ events # <<>> /\ Head(events).kind = "exited"
    /\ events' = Tail(events)
    /\ LET s == Head(events).s IN
       /\ cl' = CancelSession(cl, s)
       /\ turns' = turns \ {s}
       /\ IF Bound(s)
          THEN LET c == CHOOSE x \in Owner(s) : TRUE IN
               /\ SuspendBinding(c)
               /\ cur' = [cur EXCEPT ![c] = None]
               /\ epoch' = [epoch EXCEPT ![c] = @ + 1]
          ELSE UNCHANGED <<dbVars, cur, epoch>>
    /\ UNCHANGED <<drain, follow, running, generation, up, limitVars, historyVars>>

\* handle_session_resume
HandleResume ==
    /\ up /\ events # <<>> /\ Head(events).kind = "resumed"
    /\ events' = Tail(events)
    /\ LET s == Head(events).s
           saved == {c \in Conversations : row[c] # None /\ row[c].s = s}
       IN  IF saved # {} /\ \A c \in saved : cur[c] # s
           THEN LET c == CHOOSE x \in saved : TRUE
                IN  AttachAtEpoch(c, s, FALSE, row[c].epoch)
           ELSE UNCHANGED tableVars
    /\ UNCHANGED <<dbVars, cl, follow, running, turns, generation, up, limitVars,
                   historyVars>>

\* The agent connection is replaced.
Reconnect ==
    /\ up /\ Fault
    /\ generation' = generation + 1
    /\ UNCHANGED <<tableVars, dbVars, cl, hostVars, turns, up, commands,
                   historyVars>>

\* The service stops, with or without prepare_shutdown_notifications.
Crash ==
    /\ up /\ Fault
    /\ up' = FALSE
    /\ cur' = [c \in Conversations |-> None]
    /\ drain' = [s \in Sessions |-> None]
    /\ epoch' = [c \in Conversations |-> 0]
    /\ cl' = Idle
    /\ follow' = [s \in Sessions |-> "off"]
    /\ events' = <<>>
    /\ generation' = 0
    /\ stuck' = {} /\ contested' = {}
    /\ UNCHANGED <<dbVars, running, turns, commands>>

\* restore_binding: Attached, or Offline until the session's client is back.
RestoredStatus(s) == IF s \in running THEN "live" ELSE "exited"

\* restore_bindings_deferred: a saved session that runs is subscribed, one that
\* does not is kept offline or, when the agent rejects it, forgotten.
Restart ==
    /\ ~up
    /\ up' = TRUE
    /\ \E rejected \in SUBSET {c \in Conversations :
                                   row[c] # None /\ row[c].s \notin running} :
       LET kept == {c \in Conversations : row[c] # None} \ rejected IN
       /\ row' = [c \in Conversations |-> IF c \in rejected THEN None ELSE row[c]]
       /\ dbEpoch' = [c \in Conversations |->
                         dbEpoch[c] + (IF c \in rejected THEN 1 ELSE 0)]
       /\ cur' = [c \in Conversations |-> IF c \in kept THEN row[c].s ELSE None]
       /\ epoch' = [c \in Conversations |-> IF c \in kept THEN row[c].epoch ELSE 0]
       /\ follow' = [s \in Sessions |->
                        IF \E c \in kept : row[c].s = s
                        THEN RestoredStatus(s) ELSE "off"]
       /\ turns' = {s \in turns : \E c \in kept : row[c].s = s}
    /\ UNCHANGED <<drain, cl, running, events, generation, limitVars, historyVars>>

----------------------------------------------------------------------------
\* The service starts with the bindings of Starts restored.
Init ==
    /\ cur \in Starts
    /\ drain = [s \in Sessions |-> None]
    /\ dbEpoch = [c \in Conversations |-> IF cur[c] = None THEN 0 ELSE 1]
    /\ epoch = dbEpoch
    /\ row = [c \in Conversations |->
                 IF cur[c] = None THEN None ELSE [s |-> cur[c], epoch |-> 1]]
    /\ cl = Idle
    /\ follow = [s \in Sessions |-> IF Bound(s) THEN "live" ELSE "off"]
    /\ running = Sessions
    /\ turns = {}
    /\ events = <<>>
    /\ generation = 0
    /\ up = TRUE
    /\ commands = 0 /\ faults = 0
    /\ stuck = {} /\ contested = {}

Worker(w) == Subscribe(w) \/ Post(w) \/ Unsubscribe(w) \/ FinishCleanup(w)
Next ==
    \/ \E c \in Conversations, s \in Sessions : Attach(c, s) \/ Replace(c, s)
    \/ \E c \in Conversations : Detach(c)
    \/ \E w \in cl.workers : Worker(w)
    \/ \E p \in cl.results : ApplyPrepared(p)
    \/ \E r \in cl.retries : ApplyDeferred(r)
    \/ \E s \in Sessions : \/ TurnStarted(s) \/ TurnCompleted(s)
                           \/ HostExits(s) \/ HostStarts(s)
    \/ HandleExit \/ HandleResume \/ Reconnect \/ Crash \/ Restart

Spec == Init /\ [][Next]_vars

Progress ==
    \/ \E w \in cl.workers : Worker(w)
    \/ \E p \in cl.results : ApplyPrepared(p)
    \/ \E r \in cl.retries : ApplyDeferred(r)
    \/ HandleExit \/ HandleResume

----------------------------------------------------------------------------
BoundIsFollowed ==
    \A c \in Conversations :
        cur[c] # None /\ cur[c] \notin contested =>
            follow[cur[c]] # "off" /\ Cleaning(cl, cur[c]) = {}
Quiet == cl.workers = {} /\ cl.results = {} /\ cl.retries = {}
NothingLeftFollowed ==
    Quiet => \A s \in Sessions :
        follow[s] # "off" => Bound(s) \/ drain[s] # None \/ Saved(s)

\* A conversation that shows a session has its subscription, and no unsubscribe
\* of that session is under way, however attachments, detachments, drained
\* turns and cancelled preparations of two conversations overlap (enqueue and
\* prepare order them).  And when nothing is under way the adapter follows only
\* sessions that somebody is shown, whose last turn is awaited, or that are
\* saved for their return: an attachment that is cancelled, superseded or
\* failed leaves no subscription behind.  A saved session that another
\* conversation gave up while its process was gone is the exception: see the
\* hazard at release_unused_attachment.
SubscriptionsMatch == BoundIsFollowed /\ NothingLeftFollowed

\* The table in memory and the database agree: a shown session has a row with
\* the same session and the same epoch, and no session has two conversations
\* (commit_binding, commit_detach, suspend, restore_binding and
\* handle_session_resume each update both).
TableAgreesWithRows ==
    /\ \A c \in Conversations :
           cur[c] # None => row[c] = [s |-> cur[c], epoch |-> epoch[c]]
    /\ \A s \in Sessions : Cardinality(Owner(s)) <= 1
    /\ \A c \in Conversations : row[c] # None => row[c].epoch = dbEpoch[c]

\* A shown session is subscribed and not being unsubscribed, and nothing else stays
\* subscribed (subscription_cleanup.rs); the bindings in memory and in the database
\* agree (session_service.rs).
BindingsTrue == SubscriptionsMatch /\ TableAgreesWithRows

\* An attachment that was promised ("Reattachment will continue automatically")
\* is decided: it binds, fails or is superseded, as long as workers and the
\* dispatch queue get their turns.
AttachmentsDecided ==
    \A c \in Conversations :
        (cl.attachments[c] # None) ~> (cl.attachments[c] = None)
=============================================================================
