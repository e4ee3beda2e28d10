----------------------- MODULE BackgroundCompletions -----------------------
(***************************************************************************)
(* Notices of turns that ended in a session no conversation shows          *)
(* (engine/background_completions.rs).  The turn's handler prepares the    *)
(* request and lets it run only after its own cleanup; a bounded pool      *)
(* reads the turn, shows a loading card when that takes long, and edits it *)
(* into the final one.                                                     *)
(*                                                                         *)
(* One conversation and one session, whose events are handled in turn.     *)
(***************************************************************************)
EXTENDS Naturals, Sequences, FiniteSets, SequencesExt

CONSTANTS Nobody,
          Turns,
          Capacity, Concurrency, Recent,   \* CAPACITY, CONCURRENCY, RECENT_CAPACITY
          MaxEvents,    \* bound: completions, repeated ones included
          MaxMoves,     \* bound: changes of binding, agent connection and clicks
          MaxFaults     \* bound: failed or uncertain deliveries and cleanups

VARIABLES
    closed, waiting, running, recent,   \* State
    job,         \* every accepted request: where it is, its ready signal and generation
    card,        \* its recipient: the delivery under way, what is shown, the cached token
    notified,    \* TurnCoordinator.background_notifications: the last turn recorded
    handler,     \* the turn whose completion the session's lane handles
    scope,       \* the conversation's epoch and the agent's generation
    sends,       \* history: messages that reached the conversation for a turn
    clicks,      \* history: clicks accepted in the present epoch
    evicted,     \* history: turns whose key left recent
    events, moves, faults

state == <<closed, waiting, running, recent>>
vars == <<closed, waiting, running, recent, job, card, notified, handler, scope, sends,
          clicks, evicted, events, moves, faults>>

NoJob == [at |-> "none", ready |-> "pending", gen |-> 0]
NoCard == [at |-> "idle", epoch |-> 0, message |-> FALSE, token |-> Nobody, live |-> {}]

Init ==
    /\ closed = FALSE /\ waiting = <<>> /\ running = {} /\ recent = <<>>
    /\ job = [t \in Turns |-> NoJob] /\ card = [t \in Turns |-> NoCard]
    /\ notified = Nobody /\ handler = Nobody
    /\ scope = [epoch |-> 0, gen |-> 0]
    /\ sends = [t \in Turns |-> 0] /\ clicks = [t \in Turns |-> 0] /\ evicted = {}
    /\ events = 0 /\ moves = 0 /\ faults = 0

Fault == faults < MaxFaults /\ faults' = faults + 1
Move == moves < MaxMoves /\ moves' = moves + 1

\* start: requests leave the queue while there is room.
Start(w, r) ==
    LET n == IF Cardinality(r) >= Concurrency THEN 0
             ELSE IF Len(w) < Concurrency - Cardinality(r) THEN Len(w)
             ELSE Concurrency - Cardinality(r)
    IN  waiting' = SubSeq(w, n + 1, Len(w)) /\ running' = r \union {w[i] : i \in 1..n}

----------------------------------------------------------------------------
(* The completion event's handler *)

\* prepare_background_completion: who was told already is left out.
Prepare(t) ==
    /\ handler = Nobody /\ events < MaxEvents /\ events' = events + 1
    /\ handler' = IF notified = t THEN Nobody ELSE t
    /\ UNCHANGED <<state, job, card, notified, scope, sends, clicks, evicted, moves, faults>>

\* Mutant: what ended just now is not remembered.
KnownLive(t) == t \in running \/ t \in Range(waiting)

Known(t) == t \in running \/ t \in Range(waiting) \/ t \in Range(recent)

\* submit: a turn is queued once and the queue is bounded.
Submit ==
    /\ handler # Nobody /\ job[handler].ready # "owed"
    /\ IF closed \/ Known(handler) \/ Cardinality(running) + Len(waiting) >= Capacity
       THEN handler' = Nobody /\ UNCHANGED <<waiting, running, job, card>>
       ELSE /\ Start(Append(waiting, handler), running)
            /\ job' = [job EXCEPT ![handler] = [at |-> "queued", ready |-> "owed", gen |-> scope.gen]]
            /\ card' = [card EXCEPT ![handler] = NoCard]
            /\ UNCHANGED handler
    /\ UNCHANGED <<closed, recent, notified, scope, sends, clicks, evicted, events, moves, faults>>

\* The turn is archived and the permit sent, or dropped with the error.
Cleanup(ok) ==
    /\ handler # Nobody /\ job[handler].ready = "owed"
    /\ ok \/ faults < MaxFaults
    /\ faults' = IF ok THEN faults ELSE faults + 1
    /\ job' = [job EXCEPT ![handler].ready = IF ok THEN "yes" ELSE "no"]
    /\ handler' = Nobody
    /\ UNCHANGED <<state, card, notified, scope, sends, clicks, evicted, events, moves>>

----------------------------------------------------------------------------
(* The request *)

\* Mutant: the room a request frees is not given to the next.
NextUpNone(r) == waiting' = waiting /\ running' = r

NextUp(r) == Start(waiting, r)

\* CompletionGuard::drop
Ends(t) ==
    /\ NextUp(running \ {t})
    /\ LET all == Append(recent, t)
           long == Len(all) > Recent
       IN  /\ recent' = IF long THEN Tail(all) ELSE all
           /\ evicted' = IF long THEN evicted \union {Head(all)} ELSE evicted

\* The permit decides, then the agent says whether this is a subagent's turn and whether the
\* connection is still the one that told of it; a complete cached turn is shown at once.
Check(t) ==
    /\ t \in running /\ job[t].at = "queued" /\ job[t].ready \in {"yes", "no"}
    /\ \E at \in {"reading", "read", "subagent"} :
         IF at = "subagent" \/ job[t].ready = "no" \/ job[t].gen # scope.gen
         THEN Ends(t) /\ job' = [job EXCEPT ![t].at = "ended"]
         ELSE job' = [job EXCEPT ![t].at = at] /\ UNCHANGED <<waiting, running, recent, evicted>>
    /\ UNCHANGED <<closed, card, notified, handler, scope, sends, clicks, events, moves, faults>>

\* read_with_retry ends with the turn or without it; both give a final view.
Read(t) ==
    /\ t \in running /\ job[t].at = "reading"
    /\ job' = [job EXCEPT ![t].at = "read"]
    /\ UNCHANGED <<state, card, notified, handler, scope, sends, clicks, evicted, events, moves, faults>>

Valid(t) == job[t].gen = scope.gen

\* Mutant: every view brings a button of its own.
TokenAnew(t) == [card[t] EXCEPT !.token = scope.epoch, !.live = @ \union {<<scope.epoch, card[t].at>>}]

\* attachment_button: the loading and the final view share one single-use action.
Token(t) ==
    IF card[t].token = scope.epoch THEN card[t]
    ELSE [card[t] EXCEPT !.token = scope.epoch, !.live = @ \union {<<scope.epoch, "idle">>}]

\* publish_one up to the request: a loading card while the read goes on, or the final one.
Publish(t) ==
    /\ t \in running
    /\ \/ job[t].at = "reading" /\ card[t].at = "idle"
       \/ job[t].at = "read" /\ card[t].at \in {"idle", "loaded"}
    /\ LET loading == job[t].at = "reading"
           late == card[t].at = "loaded"
       IN  card' = [card EXCEPT ![t] =
             IF ~Valid(t) \/ (late /\ ~card[t].message)
             THEN [@ EXCEPT !.at = IF loading THEN "loaded" ELSE "finished"]
             ELSE [Token(t) EXCEPT !.epoch = scope.epoch, !.at = IF loading THEN "loading" ELSE "final"]]
    /\ UNCHANGED <<state, job, notified, handler, scope, sends, clicks, evicted, events, moves, faults>>

Settled(t, c) == card' = [card EXCEPT ![t] = [c EXCEPT !.at = IF @ = "loading" THEN "loaded" ELSE "finished"]]

\* The request leaves if its scope still holds, and its answer says that it was carried out.
Delivered(t) ==
    /\ t \in running /\ card[t].at \in {"loading", "final"}
    /\ IF Valid(t) /\ card[t].epoch = scope.epoch
       THEN /\ Settled(t, [card[t] EXCEPT !.message = TRUE])
            /\ sends' = IF card[t].message THEN sends ELSE [sends EXCEPT ![t] = @ + 1]
            /\ notified' = t
       ELSE Settled(t, card[t]) /\ UNCHANGED <<sends, notified>>
    /\ UNCHANGED <<state, job, handler, scope, clicks, evicted, events, moves, faults>>

\* It fails, or its answer is lost whether it arrived or not.
Failed(t, arrived) ==
    /\ t \in running /\ card[t].at \in {"loading", "final"} /\ Fault
    /\ Settled(t, card[t])
    /\ sends' = IF arrived /\ ~card[t].message THEN [sends EXCEPT ![t] = @ + 1] ELSE sends
    /\ UNCHANGED <<state, job, notified, handler, scope, clicks, evicted, events, moves>>

Complete(t) ==
    /\ t \in running /\ card[t].at = "finished"
    /\ Ends(t) /\ job' = [job EXCEPT ![t].at = "ended"]
    /\ UNCHANGED <<closed, card, notified, handler, scope, sends, clicks, events, moves, faults>>

\* A panic in an adapter releases the room as well.
Panic(t) ==
    /\ t \in running /\ job[t].at # "queued" /\ Fault
    /\ Ends(t) /\ job' = [job EXCEPT ![t].at = "ended"]
    /\ UNCHANGED <<closed, card, notified, handler, scope, sends, clicks, events, moves>>

----------------------------------------------------------------------------
(* Around the pool *)

\* The user clicks Attach; the action is consumed with its group whether or not attaching works.
Click(t, attaches) ==
    /\ sends[t] > 0 /\ Move
    /\ \E x \in card[t].live : x[1] = scope.epoch /\ card' = [card EXCEPT ![t].live = @ \ {x}]
    /\ scope' = IF attaches THEN [scope EXCEPT !.epoch = @ + 1] ELSE scope
    /\ clicks' = IF attaches THEN [u \in Turns |-> 0] ELSE [clicks EXCEPT ![t] = @ + 1]
    /\ UNCHANGED <<state, job, notified, handler, sends, evicted, events, faults>>

Rebind ==
    /\ Move /\ scope' = [scope EXCEPT !.epoch = @ + 1] /\ clicks' = [u \in Turns |-> 0]
    /\ UNCHANGED <<state, job, card, notified, handler, sends, evicted, events, faults>>

Reconnect ==
    /\ Move /\ scope' = [scope EXCEPT !.gen = @ + 1]
    /\ UNCHANGED <<state, job, card, notified, handler, sends, clicks, evicted, events, faults>>

\* cancel: the runtime stops.
Cancel ==
    /\ ~closed /\ closed' = TRUE /\ waiting' = <<>> /\ running' = {}
    /\ UNCHANGED <<recent, job, card, notified, handler, scope, sends, clicks, evicted, events, moves, faults>>

Next ==
    \/ Submit \/ Rebind \/ Reconnect \/ Cancel
    \/ \E ok \in BOOLEAN : Cleanup(ok)
    \/ \E t \in Turns : \/ Prepare(t) \/ Check(t) \/ Read(t) \/ Publish(t) \/ Delivered(t)
                        \/ Complete(t) \/ Panic(t)
                        \/ \E b \in BOOLEAN : Failed(t, b) \/ Click(t, b)

Spec == Init /\ [][Next]_vars

----------------------------------------------------------------------------
\* However often a turn's completion is told, and whatever was lost, a conversation gets a
\* second message for it only after its key left the recent list.
NoticedOnce == \A t \in Turns : sends[t] > 1 => t \in evicted

\* One card lets its reader attach once, whether the loading or the final view was clicked.
OneAttachment == \A t \in Turns : clicks[t] <= 1 /\ Cardinality({x \in card[t].live : x[1] = scope.epoch}) <= 1

\* Nothing is published before the handler's own cleanup, or after it failed.
AfterCleanup == \A t \in Turns : sends[t] > 0 /\ t \notin evicted => job[t].ready = "yes"

\* Room is never left idle while a request waits, and the bound holds.
Working ==
    /\ waiting # <<>> => Cardinality(running) = Concurrency
    /\ Cardinality(running) + Len(waiting) <= Capacity

NoticesTrue == NoticedOnce /\ OneAttachment /\ AfterCleanup /\ Working
=============================================================================
