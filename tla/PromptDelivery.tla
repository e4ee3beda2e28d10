--------------------------- MODULE PromptDelivery ---------------------------
(***************************************************************************)
(* How an inbound message of one conversation reaches an agent session:    *)
(* Engine::handle_inbound, send_prompt, the deferred acknowledgements and  *)
(* queued follow-ups of engine/pending_prompts.rs, stop, attachment and    *)
(* the persisted event claims, over shutdown, crash and restart.           *)
(*                                                                         *)
(* Abstractions.  All work of the conversation holds its dispatch key, so  *)
(* it runs one operation at a time in admission order (DispatchQueue):     *)
(* `lane' is that queue and `op' the operation being executed.  Agent      *)
(* events and finished attachments are executed when no operation is:      *)
(* they may arrive at any time, so queueing them adds no order.  An input  *)
(* stands for its event id; copies of a QueuedInput differ from the owned  *)
(* one at most in `cancelled', so queues hold input names.  A turn is      *)
(* named after the input that began it.  Cards, receipts, notices and the  *)
(* terminal prompts of check_terminal_input are left out; a full card      *)
(* table is a refusal of `start' that may happen at any time.              *)
(***************************************************************************)
EXTENDS Naturals, Sequences, FiniteSets

CONSTANTS
    Inputs,                 \* inbound events of the conversation
    Kind,                   \* what each of them is: a prompt, /stop or /attach
    Target,                 \* the session an /attach names
    Earlier,                \* inputs first delivered before another: prompts differ
                            \* only in name, so one order stands for all
    Sessions, Writable,     \* agent sessions, and those that accept input
    FirstBound,             \* the session bound at first
    MaxPending,             \* MAX_PENDING: unacknowledged starts
    MaxQueued,              \* MAX_QUEUED: follow-ups waiting per session
    ConversationCapacity,   \* CONVERSATION_CAPACITY: unfinished inbound work
    MaxRedeliveries,        \* bound: events the channel delivers once more
    MaxRestarts,            \* bound: shutdowns and crashes
    MaxDisruptions,         \* bound: session exits and agent reconnections
    MaxLostWrites,          \* bound: failed writes to the state store
    None

ASSUME KindsTyped == Kind \in [Inputs -> {"prompt", "stop", "attach"}]
ASSUME TargetsTyped == Target \in [Inputs -> Sessions]
ASSUME EarlierTyped == Earlier \in [Inputs -> SUBSET Inputs]
ASSUME SessionsTyped == Writable \subseteq Sessions /\ FirstBound \in Sessions \cup {None}
ASSUME LimitsNat ==
    {MaxPending, MaxQueued, ConversationCapacity, MaxRedeliveries, MaxRestarts,
     MaxDisruptions, MaxLostWrites} \subseteq Nat

EventStatus == {"absent", "processing", "completed", "failed", "uncertain", "rejected"}
QueuedInput == [session : Sessions, epoch : Nat, generation : Nat, queued : BOOLEAN,
                cancelled : BOOLEAN, reattach : BOOLEAN, seq : Nat]
Pending == [input : Inputs, stop : BOOLEAN, applied : BOOLEAN, valid : BOOLEAN,
            observed : Inputs \cup {None}, queued : Seq(Inputs)]
Attachment == [session : Sessions, epoch : Nat, generation : Nat]
Work == [from : {"inbound", "queued", "ack"}, input : Inputs]
Operation == [from : {"inbound", "queued", "ack"}, input : Inputs,
              step : {"begin", "handle", "window", "await", "settle"},
              result : {None, "ok", "refused"}]
Request == [state : {"none", "flying", "accepted", "refused", "unknown"}, session : Sessions \cup {None},
            turn : Inputs \cup {None}, generation : Nat]

ASSUME NoneIsNothing ==
    None \notin Inputs \cup Sessions \cup QueuedInput \cup Pending \cup Operation
                  \cup Attachment

VARIABLES
    event,      \* processed_events: the persisted status of each event
    bound,      \* the session the conversation is attached to, or None
    epoch,      \* its binding epoch
    lane,       \* admitted work of the conversation, oldest first
    op,         \* the operation being executed, or None
    pending,    \* per session, the unacknowledged start and its follow-ups
    owned,      \* inputs whose claim the engine keeps beyond their operation
    ready,      \* owned inputs to be admitted as work again
    nextSeq,    \* State.next_id
    attaching,  \* the attachment being prepared for the conversation
    active,     \* per session, the turn the engine believes to run
    ended,      \* turns the engine knows to be over
    phase,      \* of the process: up, closed, fenced, down
    rpc,        \* the request that carries an input to the agent
    accepted,   \* how often the agent accepted an input
    live,       \* per session, the turn the agent runs
    stops,      \* turns the agent was asked to stop
    generation, \* of the agent connection
    bounds,     \* deliveries, restarts, disruptions and lost writes so far
    claims,     \* history: for a claimed prompt, those claimed no later than it,
    doomed,     \* the inputs that a stop cancelled,
    stopped,    \* the unacknowledged starts that were stopped,
    crashed     \* and whether the process was killed

store == <<event, bound, epoch>>
inputState == <<lane, op, pending, owned, ready, nextSeq, attaching>>
turnState == <<active, ended>>
history == <<claims, doomed, stopped, crashed>>
agent == <<rpc, accepted, live, stops, generation>>
vars == <<store, inputState, turnState, agent, phase, bounds, history>>

----------------------------------------------------------------------------
NoRequest == [state |-> "none", session |-> None, turn |-> None, generation |-> 0]
Answers == {"accepted", "refused", "unknown"}

Init ==
    /\ event = [e \in Inputs |-> "absent"]
    /\ bound = FirstBound
    /\ epoch = 0
    /\ lane = <<>>
    /\ op = None
    /\ pending = [s \in Sessions |-> None]
    /\ owned = [e \in Inputs |-> None]
    /\ ready = <<>>
    /\ nextSeq = 1
    /\ attaching = None
    /\ active = [s \in Sessions |-> None]
    /\ ended = {}
    /\ phase = "up"
    /\ rpc = [e \in Inputs |-> NoRequest]
    /\ accepted = [e \in Inputs |-> 0]
    /\ live = [s \in Sessions |-> None]
    /\ stops = {}
    /\ generation = 0
    /\ bounds = [delivered |-> {}, repeated |-> 0, restarts |-> 0,
                 disruptions |-> 0, lost |-> 0]
    /\ claims = [e \in Inputs |-> {}]
    /\ doomed = {} /\ stopped = {} /\ crashed = FALSE

Closed == phase # "up"
SeqRange(q) == {q[i] : i \in 1..Len(q)}
Owned == {e \in Inputs : owned[e] # None}
QueuedFor(s) == {e \in Owned : owned[e].queued /\ owned[e].session = s}

----------------------------------------------------------------------------
(* The state store *)

Complete(ev, es) == [e \in Inputs |-> IF e \in es THEN "completed" ELSE ev[e]]

\* Mutant: an uncertain event is not recorded.
FenceNothing(ev, es) == ev

Fence(ev, es) ==
    [e \in Inputs |-> IF e \in es /\ ev[e] \in {"absent", "processing"}
                      THEN "uncertain" ELSE ev[e]]
\* Mutant: a claim that is given up stays claimed.
ReleaseNothing(ev, es) == ev

Release(ev, es) ==
    [e \in Inputs |-> IF e \in es /\ ev[e] = "processing" THEN "failed" ELSE ev[e]]

\* Mutant: an unknown outcome leaves the claim alone.
SettledWhenKnown(ev, e, result) ==
    CASE result \in {"ok", "accepted"} -> Complete(ev, {e})
      [] result = "unknown" -> ev
      [] OTHER -> Release(ev, {e})

\* What the result of sending an input does to its claim.
Settled(ev, e, result) ==
    CASE result \in {"ok", "accepted"} -> Complete(ev, {e})
      [] result = "unknown" -> Fence(ev, {e})
      [] OTHER -> Release(ev, {e})

Forget(own, es) == [e \in Inputs |-> IF e \in es THEN None ELSE own[e]]

----------------------------------------------------------------------------
(* Admission: the runtime loop *)

Unfinished ==
    Cardinality({i \in 1..Len(lane) : lane[i].from = "inbound"})
      + IF op # None /\ op.from = "inbound" THEN 1 ELSE 0
Admitted(e) ==
    \/ op # None /\ op.from = "inbound" /\ op.input = e
    \/ [from |-> "inbound", input |-> e] \in SeqRange(lane)

\* admit_inbound: a duplicate of unfinished work is ignored, work beyond the
\* conversation's share is durably rejected.
Deliver(e) ==
    /\ ~Closed
    /\ \/ /\ e \notin bounds.delivered /\ Earlier[e] \subseteq bounds.delivered
          /\ bounds' = [bounds EXCEPT !.delivered = @ \cup {e}]
       \/ /\ e \in bounds.delivered /\ bounds.repeated < MaxRedeliveries
          /\ bounds' = [bounds EXCEPT !.repeated = @ + 1]
    /\ \/ Admitted(e) /\ UNCHANGED <<event, lane>>
       \/ /\ ~Admitted(e) /\ Unfinished >= ConversationCapacity
          /\ event' = IF event[e] \in {"absent", "failed"}
                      THEN [event EXCEPT ![e] = "rejected"] ELSE event
          /\ UNCHANGED lane
       \/ /\ ~Admitted(e) /\ Unfinished < ConversationCapacity
          /\ lane' = Append(lane, [from |-> "inbound", input |-> e])
          /\ UNCHANGED event
    /\ UNCHANGED <<bound, epoch, op, pending, owned, ready, nextSeq, attaching,
                   turnState, agent, phase, history>>

\* PendingPrompts::next: inputs that are ready come before acknowledgements.
AckWork(e) == [from |-> "ack", input |-> e]
Acknowledgeable ==
    {pending[s].input : s \in {r \in Sessions : pending[r] # None}}
        \ ({e \in Inputs : AckWork(e) \in SeqRange(lane)}
             \cup (IF op # None /\ op.from = "ack" THEN {op.input} ELSE {}))

NextPending ==
    /\ ~Closed
    /\ \/ /\ ready # <<>>
          /\ lane' = Append(lane, [from |-> "queued", input |-> Head(ready)])
          /\ ready' = Tail(ready)
       \/ /\ ready = <<>> /\ UNCHANGED ready
          /\ \E e \in Acknowledgeable : /\ rpc[e].state \in Answers
                                        /\ lane' = Append(lane, AckWork(e))
    /\ UNCHANGED <<store, op, pending, owned, nextSeq, attaching, turnState, agent,
                   phase, bounds, history>>

Dispatch ==
    /\ ~Closed
    /\ op = None /\ lane # <<>>
    /\ op' = [from |-> Head(lane).from, input |-> Head(lane).input,
              step |-> "begin", result |-> None]
    /\ lane' = Tail(lane)
    /\ UNCHANGED <<store, pending, owned, ready, nextSeq, attaching, turnState, agent,
                   phase, bounds, history>>

----------------------------------------------------------------------------
(* Inputs that wait *)

\* The end of an operation whose input stays owned, or of one that has a result.
EndOp == op' = None
Result(result) == op' = [op EXCEPT !.step = "settle", !.result = result]

CancelQueued(own, es) ==
    [e \in Inputs |-> IF /\ e \in es /\ own[e] # None
                         /\ own[e].queued /\ ~own[e].reattach
                      THEN [own[e] EXCEPT !.cancelled = TRUE] ELSE own[e]]

\* The inputs es, oldest first: the sequences that list them so.
ByAge(own, es) ==
    {q \in [1..Cardinality(es) -> es] :
        /\ SeqRange(q) = es
        /\ \A i, j \in 1..Cardinality(es) : i < j => own[q[i]].seq < own[q[j]].seq}

Reattaching(own) == {e \in Inputs : own[e] # None /\ own[e].reattach}

\* finish_reattachment: the inputs that waited get the new epoch or are
\* cancelled; all of them are ready.
FinishedReattachment(own, newEpoch) ==
    [e \in Inputs |->
        IF e \notin Reattaching(own) THEN own[e]
        ELSE IF newEpoch = None THEN [own[e] EXCEPT !.reattach = FALSE, !.cancelled = TRUE]
        ELSE [own[e] EXCEPT !.reattach = FALSE, !.epoch = newEpoch]]
ReadyAfter(own) == {ready \o q : q \in ByAge(own, Reattaching(own))}

InsertByAge(q, e, own) ==
    LET at == 1 + Cardinality({i \in 1..Len(q) : own[q[i]].seq < own[e].seq})
    IN  [i \in 1..(Len(q) + 1) |->
            IF i < at THEN q[i] ELSE IF i = at THEN e ELSE q[i - 1]]

\* queue_waiting_prompt, past its first return: keep the input behind an
\* unacknowledged start, for the attachment, or ready again.
QueueWaiting(e, s, reattach) ==
    \/ /\ Cardinality(QueuedFor(s)) >= MaxQueued /\ owned[e] = None
       /\ Result("refused")
       /\ UNCHANGED <<pending, owned, ready, nextSeq>>
    \/ /\ Cardinality(QueuedFor(s)) < MaxQueued \/ owned[e] # None
       /\ owned' = [owned EXCEPT ![e] =
                      [session |-> s, epoch |-> epoch, generation |-> generation,
                       queued |-> TRUE, cancelled |-> FALSE, reattach |-> reattach,
                       seq |-> IF owned[e] # None THEN owned[e].seq ELSE nextSeq]]
       /\ nextSeq' = IF owned[e] # None THEN nextSeq ELSE nextSeq + 1
       /\ pending' = IF ~reattach /\ pending[s] # None
                     THEN [pending EXCEPT ![s].queued =
                              InsertByAge(pending[s].queued, e, owned')]
                     ELSE pending
       /\ ready' = IF ~reattach /\ pending[s] = None THEN Append(ready, e) ELSE ready
       /\ EndOp

\* Mutant: follow-ups already handed on are not waited for.
MustWaitForStartOnly(s) == pending[s] # None

\* An input waits for a start, and a new one also for every follow-up.
MustWait(s) ==
    \/ pending[s] # None
    \/ op.from = "inbound" /\ QueuedFor(s) # {}

----------------------------------------------------------------------------
(* Executing an operation *)

At(from, step) == op # None /\ op.from \in from /\ op.step = step

\* Prompt e is claimed after every other, and no more where it was claimed before.
ClaimedLast(e) ==
    [f \in Inputs |-> IF f = e THEN {g \in Inputs : claims[g] # {}} \cup {e}
                      ELSE claims[f] \ {e}]

Claim ==
    /\ At({"inbound"}, "begin")
    /\ LET e == op.input
       IN  \/ /\ event[e] \in {"absent", "failed"}
              /\ event' = [event EXCEPT ![e] = "processing"]
              /\ op' = [op EXCEPT !.step = "handle"]
              /\ claims' = IF Kind[e] = "prompt" THEN ClaimedLast(e) ELSE claims
           \/ /\ event[e] \notin {"absent", "failed"}
              /\ EndOp
              /\ UNCHANGED <<event, claims>>
    /\ UNCHANGED <<bound, epoch, lane, pending, owned, ready, nextSeq, attaching,
                   turnState, agent, phase, bounds, doomed, stopped, crashed>>

\* Mutant: a follow-up is sent although it was cancelled while it was admitted.
StaleBindingOnly(e) ==
    owned[e] = None \/ owned[e].epoch # epoch \/ bound # owned[e].session

Stale(e) ==
    \/ owned[e] = None
    \/ owned[e].cancelled
    \/ owned[e].generation # generation
    \/ owned[e].epoch # epoch
    \/ bound # owned[e].session

\* A write to the state store may fail: the claim stays as it is.
LoseWrites(es) ==
    /\ bounds.lost + Cardinality(es) <= MaxLostWrites
    /\ bounds' = [bounds EXCEPT !.lost = @ + Cardinality(es)]

\* apply_queued_input, up to send_prompt.
TakeQueued ==
    /\ At({"queued"}, "begin")
    /\ LET e == op.input
       IN  \/ /\ ~Closed /\ ~Stale(e)
              /\ op' = [op EXCEPT !.step = "handle"]
              /\ UNCHANGED <<event, owned, bounds>>
           \/ /\ Closed \/ Stale(e)
              /\ EndOp
              /\ \E lost \in SUBSET {e} :
                    /\ LoseWrites(lost)
                    /\ event' = Complete(event, {e} \ lost)
                    /\ owned' = Forget(owned, {e} \ lost)
    /\ UNCHANGED <<bound, epoch, lane, pending, ready, nextSeq, attaching, turnState,
                   agent, phase, history>>

\* Send the input: into the running turn and waiting for the answer, or as the
\* start of a turn, which is waited for only so long.
Send(e, s) ==
    /\ rpc' = [rpc EXCEPT ![e] = [state |-> "flying", session |-> s, turn |-> None,
                                  generation |-> generation]]
    /\ op' = [op EXCEPT !.step = IF active[s] # None THEN "await" ELSE "window"]

SendPrompt ==
    /\ At({"inbound", "queued"}, "handle")
    /\ Kind[op.input] = "prompt"
    /\ LET e == op.input
           s == bound
       IN  \/ /\ attaching # None
              /\ QueueWaiting(e, attaching.session, TRUE)
              /\ UNCHANGED rpc
           \/ /\ attaching = None
              /\ \/ /\ s \notin Writable
                    /\ Result(IF s = None THEN "refused" ELSE "ok")
                    /\ UNCHANGED <<pending, owned, ready, nextSeq, rpc>>
                 \/ /\ s \in Writable /\ MustWait(s)
                    /\ QueueWaiting(e, s, FALSE)
                    /\ UNCHANGED rpc
                 \/ /\ s \in Writable /\ ~MustWait(s)
                    /\ Send(e, s)
                    /\ UNCHANGED <<pending, owned, ready, nextSeq>>
    /\ UNCHANGED <<store, lane, attaching, turnState, accepted, live, stops, generation,
                   phase, bounds, history>>

\* Mutant: only one start per session, but any number of sessions.
RoomPerSession(s) == ~Closed /\ pending[s] = None

\* PendingPrompts::start accepts the request.
Room(s) ==
    /\ ~Closed
    /\ Cardinality({r \in Sessions : pending[r] # None}) < MaxPending
    /\ pending[s] = None

\* The 100 ms are over: defer the acknowledgement and free the lane.
DeferPrompt ==
    /\ At({"inbound", "queued"}, "window")
    /\ LET e == op.input
           s == rpc[e].session
       IN  /\ Room(s)
           /\ owned' = [owned EXCEPT ![e] =
                 [session |-> s, epoch |-> epoch, generation |-> rpc[e].generation,
                  queued |-> FALSE, cancelled |-> FALSE, reattach |-> FALSE, seq |-> 0]]
           /\ pending' = [pending EXCEPT ![s] =
                 [input |-> e, stop |-> FALSE, applied |-> FALSE, valid |-> TRUE,
                  observed |-> None, queued |-> <<>>]]
           /\ EndOp
    /\ UNCHANGED <<store, lane, ready, nextSeq, attaching, turnState, agent, phase,
                   bounds, history>>

\* The start is refused: keep waiting for the same request.
KeepAwaiting ==
    /\ At({"inbound", "queued"}, "window")
    /\ op' = [op EXCEPT !.step = "await"]
    /\ UNCHANGED <<store, lane, pending, owned, ready, nextSeq, attaching, turnState,
                   agent, phase, bounds, history>>

Outcome ==
    CASE op.step = "settle" -> op.result
      [] op.step \in {"window", "await"} -> rpc[op.input].state
      [] OTHER -> "none"

\* The end of handle_inbound and of apply_queued_input.
Settle ==
    /\ op # None /\ op.from \in {"inbound", "queued"}
    /\ Outcome \in Answers \cup {"ok"}
    /\ LET e == op.input
       IN  /\ active' = IF Outcome = "accepted" /\ op.step # "settle"
                        THEN [active EXCEPT ![rpc[e].session] = rpc[e].turn] ELSE active
           /\ \E lost \in SUBSET {e} :
                 /\ LoseWrites(lost)
                 /\ event' = IF lost = {} THEN Settled(event, e, Outcome) ELSE event
                 /\ owned' = Forget(owned, {e} \ lost)
           /\ rpc' = [rpc EXCEPT ![e] = NoRequest]
    /\ EndOp
    /\ UNCHANGED <<bound, epoch, lane, pending, ready, nextSeq, attaching, ended,
                   accepted, live, stops, generation, phase, history>>

\* Whether an acknowledged start still belongs to what the conversation shows.
Current(s) ==
    LET in == owned[pending[s].input]
    IN  /\ pending[s].valid
        /\ in.generation = generation
        /\ in.epoch = epoch
        /\ bound = s

\* Mutant: a stop between the send and its acknowledgement is forgotten.
StopForgotten(s, turn) == FALSE

\* A stop asked for before the turn was known is applied by the acknowledgement.
StopDue(s, turn) ==
    /\ pending[s].stop /\ ~pending[s].applied /\ pending[s].valid
    /\ owned[pending[s].input].generation = generation
    /\ turn \notin ended

HandOn(s, e) == rpc[e].state = "accepted" /\ Current(s) /\ ~pending[s].stop

\* apply_prompt_acknowledged; only it removes a start, so the start it finds is
\* the one acknowledged.  Follow-ups are handed on or, after the input's own
\* claim is settled, cancelled one by one; if that first write fails none is
\* cancelled.  A stop the agent refuses ends the operation before the turn is shown.
ApplyAcknowledged ==
    /\ At({"ack"}, "begin")
    /\ LET e == op.input
           s == rpc[e].session
           turn == rpc[e].turn
           left == IF HandOn(s, e) THEN {} ELSE SeqRange(pending[s].queued)
       IN  /\ \E lost \in SUBSET ({e} \cup left) :
                 /\ LoseWrites(lost)
                 /\ \/ /\ e \in lost /\ lost = {e}
                       /\ UNCHANGED <<event, owned, stops, active>>
                    \/ /\ e \notin lost
                       /\ event' = Complete(Settled(event, e, rpc[e].state), left \ lost)
                       /\ owned' = Forget(owned, {e} \cup (left \ lost))
                       /\ stops' = IF rpc[e].state = "accepted" /\ StopDue(s, turn)
                                   THEN stops \cup {turn} ELSE stops
                       /\ \/ /\ rpc[e].state = "accepted" /\ Current(s)
                             /\ turn \notin ended
                             /\ active[s] \in {None, turn}
                             /\ active' = [active EXCEPT ![s] = turn]
                          \/ /\ \/ rpc[e].state # "accepted" \/ ~Current(s)
                                \/ turn \in ended \/ active[s] \notin {None, turn}
                                \/ StopDue(s, turn)
                             /\ UNCHANGED active
           /\ ready' = IF HandOn(s, e) THEN ready \o pending[s].queued ELSE ready
           /\ pending' = [pending EXCEPT ![s] = None]
           /\ rpc' = [rpc EXCEPT ![e] = NoRequest]
           /\ stopped' = stopped \ {e}
    /\ EndOp
    /\ UNCHANGED <<bound, epoch, lane, nextSeq, attaching, ended, accepted, live,
                   generation, phase, claims, doomed, crashed>>

----------------------------------------------------------------------------
(* /stop and /attach *)

CancelSession(own, s) ==
    CancelQueued(own, {e \in Inputs : own[e] # None /\ own[e].session = s})

\* The turn a stop can name now.
KnownTurn(s) ==
    IF active[s] # None THEN active[s]
    ELSE IF pending[s] # None /\ pending[s].valid THEN pending[s].observed ELSE None

\* request_stop and, when the turn is known, take_stop.
StopRequested(s, take) ==
    IF pending[s] = None THEN pending
    ELSE [pending EXCEPT ![s] =
            [pending[s] EXCEPT
                !.stop = TRUE,
                !.applied = pending[s].applied \/ (take /\ pending[s].valid)]]

\* stop_current.
StopCurrent ==
    /\ At({"inbound"}, "handle")
    /\ Kind[op.input] = "stop"
    /\ LET s == bound
           own == IF attaching = None THEN owned ELSE FinishedReattachment(owned, None)
           turn == KnownTurn(s)
           take == turn # None /\ ~(pending[s] # None /\ turn \in ended)
           due == IF pending[s] = None \/ turn # None THEN {} ELSE {pending[s].input}
       IN  /\ ready' \in IF attaching = None THEN {ready} ELSE ReadyAfter(owned)
           /\ \/ /\ s \notin Writable
                 /\ Result(IF s = None /\ attaching = None THEN "refused" ELSE "ok")
                 /\ owned' = own
                 /\ doomed' = doomed \cup Reattaching(owned)
                 /\ UNCHANGED <<pending, stops, stopped>>
              \/ /\ s \in Writable
                 /\ owned' = CancelSession(own, s)
                 /\ pending' = StopRequested(s, take)
                 /\ stops' = IF take THEN stops \cup {turn} ELSE stops
                 /\ doomed' = doomed \cup Reattaching(owned) \cup QueuedFor(s)
                 /\ stopped' = stopped \cup due
                 /\ \/ Result(IF turn = None /\ pending[s] = None THEN "refused" ELSE "ok")
                    \/ take /\ Result("refused")
    /\ UNCHANGED <<store, lane, nextSeq, attaching, turnState, rpc, accepted, live,
                   generation, phase, bounds, claims, crashed>>

\* attach: an earlier attachment is given up, another session is prepared.
Attach ==
    /\ At({"inbound"}, "handle")
    /\ Kind[op.input] = "attach"
    /\ IF attaching = None THEN UNCHANGED <<owned, ready>>
       ELSE owned' = FinishedReattachment(owned, None) /\ ready' \in ReadyAfter(owned)
    /\ attaching' = IF Target[op.input] = bound THEN None
                    ELSE [session |-> Target[op.input], epoch |-> epoch,
                          generation |-> generation]
    /\ Result("ok")
    /\ UNCHANGED <<store, lane, pending, nextSeq, turnState, agent, phase, bounds, history>>

\* apply_prepared_attachment: bind the prepared session; a stale or failed
\* preparation cancels the inputs that waited for it, and so does an error
\* after the binding was committed.
Attached ==
    /\ ~Closed /\ op = None
    /\ attaching # None
    /\ attaching' = None
    /\ LET fresh == attaching.epoch = epoch /\ attaching.generation = generation
       IN  \/ /\ owned' = FinishedReattachment(owned, None)
              /\ ready' \in ReadyAfter(owned)
              /\ UNCHANGED <<bound, epoch>>
           \/ /\ fresh
              /\ bound' = attaching.session
              /\ epoch' = epoch + 1
              /\ \E e \in {None, epoch + 1} :
                    owned' = FinishedReattachment(CancelQueued(owned, Inputs), e)
              /\ ready' \in ReadyAfter(owned)
    /\ UNCHANGED <<event, lane, op, pending, nextSeq, turnState, agent, phase, bounds,
                   history>>

----------------------------------------------------------------------------
(* Agent events *)

Idle == ~Closed /\ op = None

\* record_turn_started: the event names the turn of a start that was not
\* acknowledged yet, and applies a stop that waits for it.
TurnStarted(s) ==
    /\ Idle
    /\ live[s] # None /\ active[s] # live[s]
    /\ active' = [active EXCEPT ![s] = live[s]]
    /\ LET adopt == pending[s] # None /\ Current(s) /\ pending[s].observed \in {None, live[s]}
           take == pending[s] # None /\ pending[s].valid
                     /\ pending[s].stop /\ ~pending[s].applied
       IN  /\ pending' = IF pending[s] = None THEN pending
                         ELSE [pending EXCEPT ![s] =
                                 [pending[s] EXCEPT
                                     !.observed = IF adopt THEN live[s]
                                                  ELSE pending[s].observed,
                                     !.applied = pending[s].applied \/ take]]
           /\ stops' = IF take THEN stops \cup {live[s]} ELSE stops
    /\ UNCHANGED <<store, lane, op, owned, ready, nextSeq, attaching, ended, rpc,
                   accepted, live, generation, phase, bounds, history>>

\* The agent ends the turn and the engine is told.
TurnCompleted(s) ==
    /\ Idle
    /\ live[s] # None
    /\ ended' = ended \cup {live[s]}
    /\ active' = [active EXCEPT ![s] = IF @ = live[s] THEN None ELSE @]
    /\ live' = [live EXCEPT ![s] = None]
    /\ UNCHANGED <<store, inputState, rpc, accepted, stops, generation, phase, bounds,
                   history>>

Disrupt ==
    /\ bounds.disruptions < MaxDisruptions
    /\ bounds' = [bounds EXCEPT !.disruptions = @ + 1]

\* handle_session_exit.
SessionExited(s) ==
    /\ Idle
    /\ Disrupt
    /\ LET gone == attaching # None /\ attaching.session = s
           own == IF gone THEN FinishedReattachment(owned, None) ELSE owned
       IN  /\ owned' = CancelSession(own, s)
           /\ ready' \in IF gone THEN ReadyAfter(owned) ELSE {ready}
           /\ attaching' = IF gone THEN None ELSE attaching
    /\ pending' = IF pending[s] = None THEN pending
                  ELSE [pending EXCEPT ![s].valid = FALSE]
    /\ bound' = IF bound = s THEN None ELSE bound
    /\ epoch' = IF bound = s THEN epoch + 1 ELSE epoch
    /\ active' = [active EXCEPT ![s] = None]
    /\ live' = [live EXCEPT ![s] = None]
    /\ UNCHANGED <<event, lane, op, nextSeq, ended, rpc, accepted, stops, generation,
                   phase, history>>

\* The agent connection is replaced.
Reconnected ==
    /\ Disrupt
    /\ generation' = generation + 1
    /\ UNCHANGED <<store, inputState, turnState, rpc, accepted, live, stops, phase, history>>

\* The agent answers a request; an answer that is lost leaves its outcome unknown.
AgentAnswers(e) ==
    /\ rpc[e].state = "flying"
    /\ LET s == rpc[e].session
           turn == IF live[s] = None THEN e ELSE live[s]
       IN  \/ /\ rpc' = [rpc EXCEPT ![e].state = "refused"]
              /\ UNCHANGED <<accepted, live>>
           \/ /\ rpc' = [rpc EXCEPT ![e].state = "unknown"]
              /\ UNCHANGED <<accepted, live>>
           \/ /\ \E state \in {"accepted", "unknown"} :
                    rpc' = [rpc EXCEPT ![e] = [@ EXCEPT !.state = state, !.turn = turn]]
              /\ accepted' = [accepted EXCEPT ![e] = @ + 1]
              /\ live' = [live EXCEPT ![s] = turn]
    /\ UNCHANGED <<store, inputState, turnState, stops, generation, phase, bounds, history>>

----------------------------------------------------------------------------
(* Shutdown, crash and restart *)

\* The loop is left: nothing is admitted or dispatched, requests are aborted.
Shutdown ==
    /\ ~Closed
    /\ bounds.restarts < MaxRestarts
    /\ bounds' = [bounds EXCEPT !.restarts = @ + 1]
    /\ phase' = "closed"
    /\ attaching' = None
    /\ UNCHANGED <<store, lane, op, pending, owned, ready, nextSeq, turnState, agent,
                   history>>

\* A worker that panics is retired, which fences its inbound event, and stops
\* the service.
Fenced == IF op.from = "inbound" THEN Fence(event, {op.input}) ELSE event
WorkerPanics ==
    /\ ~Closed /\ op # None
    /\ bounds.restarts < MaxRestarts
    /\ bounds' = [bounds EXCEPT !.restarts = @ + 1]
    /\ event' = Fenced
    /\ EndOp
    /\ phase' = "closed"
    /\ attaching' = None
    /\ UNCHANGED <<bound, epoch, lane, pending, owned, ready, nextSeq, turnState, agent,
                   history>>

\* cancel_pending_prompts fences every owned input.
FenceOwned ==
    /\ phase = "closed"
    /\ phase' = "fenced"
    /\ event' = Fence(event, Owned)
    /\ UNCHANGED <<bound, epoch, inputState, turnState, agent, bounds, history>>

\* The grace period is over: the worker is aborted and its event fenced.
AbortWorker ==
    /\ phase = "fenced" /\ op # None
    /\ event' = Fenced
    /\ EndOp
    /\ UNCHANGED <<bound, epoch, lane, pending, owned, ready, nextSeq, attaching,
                   turnState, agent, phase, bounds, history>>

LoseMemory ==
    /\ phase' = "down"
    /\ lane' = <<>>
    /\ op' = None
    /\ pending' = [s \in Sessions |-> None]
    /\ owned' = [e \in Inputs |-> None]
    /\ ready' = <<>>
    /\ nextSeq' = 1
    /\ attaching' = None
    /\ active' = [s \in Sessions |-> None]
    /\ ended' = {}
    /\ claims' = [e \in Inputs |-> {}]
    /\ doomed' = {} /\ stopped' = {}
    /\ crashed' = (crashed \/ phase # "fenced")

Exit ==
    /\ phase = "fenced" /\ op = None
    /\ LoseMemory
    /\ UNCHANGED <<store, agent, bounds>>

\* The process is killed.
Crash ==
    /\ phase = "up"
    /\ bounds.restarts < MaxRestarts
    /\ bounds' = [bounds EXCEPT !.restarts = @ + 1]
    /\ LoseMemory
    /\ UNCHANGED <<store, agent>>

\* Startup takes claims left behind for failed, and may find the turn running.
Restart ==
    /\ phase = "down"
    /\ phase' = "up"
    /\ event' = Release(event, Inputs)
    /\ active' \in {[s \in Sessions |-> None],
                    [s \in Sessions |-> IF s = bound THEN live[s] ELSE None]}
    /\ UNCHANGED <<bound, epoch, inputState, ended, agent, bounds, history>>

----------------------------------------------------------------------------
Operate ==
    \/ Claim \/ TakeQueued \/ SendPrompt \/ DeferPrompt \/ KeepAwaiting \/ Settle
    \/ ApplyAcknowledged \/ StopCurrent \/ Attach

Progress ==
    \/ Dispatch \/ NextPending \/ Operate \/ Attached
    \/ \E e \in Inputs : AgentAnswers(e)
    \/ FenceOwned \/ AbortWorker \/ Exit \/ Restart

Next ==
    \/ Progress
    \/ \E e \in Inputs : Deliver(e)
    \/ \E s \in Sessions : TurnStarted(s) \/ TurnCompleted(s) \/ SessionExited(s)
    \/ Reconnected
    \/ Shutdown \/ WorkerPanics \/ Crash

\* The runtime keeps taking work, workers keep running, requests have a
\* deadline, and the service is restarted after it went down.
Fairness == WF_vars(Progress)

Spec == Init /\ [][Next]_vars
FairSpec == Spec /\ Fairness

----------------------------------------------------------------------------
(* Properties *)

\* Types, and the limit of the engine on unacknowledged starts.  MAX_QUEUED is no
\* such bound: a follow-up that is owned already is kept whatever waits, so one
\* re-queued for an attachment may exceed it.
TypeOK ==
    /\ event \in [Inputs -> EventStatus]
    /\ bound \in Sessions \cup {None} /\ epoch \in Nat /\ nextSeq \in Nat
    /\ lane \in Seq(Work) /\ ready \in Seq(Inputs)
    /\ op \in Operation \cup {None}
    /\ pending \in [Sessions -> Pending \cup {None}]
    /\ owned \in [Inputs -> QueuedInput \cup {None}]
    /\ attaching \in Attachment \cup {None}
    /\ active \in [Sessions -> Inputs \cup {None}] /\ live \in [Sessions -> Inputs \cup {None}]
    /\ ended \subseteq Inputs /\ stops \subseteq Inputs
    /\ phase \in {"up", "closed", "fenced", "down"}
    /\ rpc \in [Inputs -> Request]
    /\ accepted \in [Inputs -> Nat] /\ generation \in Nat
    /\ Cardinality({s \in Sessions : pending[s] # None}) <= MaxPending

\* Redelivery, reload of the queue, late acknowledgements, worker panics and
\* orderly shutdown with restart never make the agent accept an input twice;
\* only a killed process or a failed write may.
AtMostOnce ==
    (~crashed /\ bounds.lost = 0) => \A e \in Inputs : accepted[e] <= 1

\* Where the engine keeps an owned input: it waits for its acknowledgement,
\* behind one, ready, as admitted work, in the operation, or for an attachment.
Places(e) ==
    {<<"start", s>> : s \in {r \in Sessions : pending[r] # None /\ pending[r].input = e}}
      \cup {<<"behind", s>> : s \in {r \in Sessions :
                 pending[r] # None /\ e \in SeqRange(pending[r].queued)}}
      \cup {<<"ready", i>> : i \in {k \in 1..Len(ready) : ready[k] = e}}
      \cup {<<"lane", i>> : i \in {k \in 1..Len(lane) :
                 lane[k] = [from |-> "queued", input |-> e]}}
      \cup {<<"op", 0>> : i \in {k \in {0} : op # None /\ op.from = "queued" /\ op.input = e}}
      \cup {<<"attachment", 0>> : i \in {k \in {0} :
                 attaching # None /\ owned[e] # None /\ owned[e].reattach}}

\* The state is well formed and, while the service is up and its store works, a claimed event is the one being
\* handled or is owned, and an owned input is in exactly one place from which it
\* goes on: no claim is forgotten and no input can be sent from two places.
ClaimsCarried ==
    /\ TypeOK
    /\ (phase = "up" /\ bounds.lost = 0) =>
        \A e \in Inputs :
            /\ event[e] = "processing" <=>
                  \/ owned[e] # None
                  \/ op # None /\ op.from = "inbound" /\ op.input = e /\ op.step # "begin"
            /\ IF owned[e] = None THEN Places(e) = {} ELSE Cardinality(Places(e)) = 1

Sends(e) == rpc[e].state # "flying" /\ rpc'[e].state = "flying"
ClaimedBefore(f, e) == f # e /\ f \in claims[e]

\* Inputs of a session reach the agent in the order they were claimed, one start
\* at a time: none is sent before the unacknowledged one is settled, nor past an
\* older one that still waits and may still be sent.
InOrderStep ==
    \A e \in Inputs : Sends(e) =>
        LET s == rpc'[e].session
        IN  /\ pending[s] = None
            /\ \A f \in Inputs \ {e} :
                  (ClaimedBefore(f, e) /\ Places(f) # {} /\ owned[f].session = s) => Stale(f)
InOrder == [][InOrderStep]_vars

\* No follow-up that was waiting when the user stopped the session is ever sent.
StopCancels == [][\A e \in doomed : ~Sends(e)]_vars

\* The start of session s was stopped before its turn was known and is now
\* acknowledged, in the same session, over the same connection.
StoppedStartAcknowledged(s) ==
    /\ pending[s] # None /\ pending'[s] = None /\ phase' # "down"
    /\ pending[s].valid /\ pending[s].input \in stopped
    /\ rpc[pending[s].input].state = "accepted"
    /\ owned[pending[s].input].generation = generation
    /\ bounds'.lost = bounds.lost
StopArrived(s) == rpc[pending[s].input].turn \in stops' \cup ended

\* A start event of a turn that is not the start's own took the stop.
TakenByAnotherTurn(s) ==
    pending[s].applied /\ pending[s].observed # rpc[pending[s].input].turn

\* A stop executed before the turn was known reaches it or the turn is over,
\* unless the session began another turn, which took the stop.
StopReaches ==
    [][\A s \in Sessions :
          (StoppedStartAcknowledged(s) /\ ~TakenByAnotherTurn(s)) => StopArrived(s)]_vars

\* Every claimed event is settled: completed, failed, fenced, or given back by
\* the next start of the service.
Settles ==
    \A e \in Inputs :
        (event[e] = "processing") ~> (event[e] # "processing" \/ bounds.lost > 0)
============================================================================
