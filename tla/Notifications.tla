---------------------------- MODULE Notifications ----------------------------
(***************************************************************************)
(* The durable notification outbox (agentix-storage notification_outbox.rs)*)
(* with those who fill it, the refresh of the task board and the rejection *)
(* of inputs that find their conversation full, and the workers that empty *)
(* it (agentix notification_runtime.rs).                                   *)
(*                                                                         *)
(* A notice is the set of things it tells: task events by their sequence,  *)
(* rejected inputs by their id.                                            *)
(***************************************************************************)
EXTENDS Naturals, Sequences, FiniteSets

CONSTANTS Nobody,
          Conversations,
          Requests,      \* inbound events, each of one conversation
          Refreshers,    \* engine snapshots that refresh the board
          Page,          \* events read by one refresh
          MaxEvents,     \* bound: task events
          MaxFailures    \* bound: failed or uncertain sends, and stops

VARIABLES
    happened,      \* sequence of the newest task event
    bound,       \* the conversation that shows the session of the events
    addressed,   \* history: who each event is for, decided when it is staged
    cursor,      \* notification_cursors of the tasks and of the admission consumer
    outbox,      \* the rows: [consumer, seq, to, items, token, due, failed]
    status,      \* processed_events of each request
    reader,      \* every refresher: the events it has read and not yet staged
    workers,     \* deliveries under way: the claimed row, and whether it was sent
    shown,       \* history: what every conversation was shown, as <<consumer, seq, items>>
    failures

outboxVars == <<happened, bound, addressed, cursor, outbox, status, reader, workers, shown, failures>>

Home == [r \in Requests |-> CHOOSE c \in Conversations : TRUE]
Consumers == {"tasks", "admission"}

OutboxInit ==
    /\ happened = 0 /\ bound \in Conversations /\ addressed = <<>>
    /\ cursor = [k \in Consumers |-> 0] /\ outbox = {}
    /\ status = [r \in Requests |-> "new"]
    /\ reader = [p \in Refreshers |-> <<>>]
    /\ workers = {}
    /\ shown = [c \in Conversations |-> <<>>] /\ failures = 0

Failure == failures < MaxFailures /\ failures' = failures + 1
Row(k, n, c, items) ==
    [consumer |-> k, seq |-> n, to |-> c, items |-> items, token |-> Nobody, due |-> TRUE]
Replace(old, new) == outbox' = (outbox \ {old}) \union {new}

----------------------------------------------------------------------------
(* Task events *)

Happen ==
    /\ happened < MaxEvents /\ happened' = happened + 1
    /\ UNCHANGED <<bound, addressed, cursor, outbox, status, reader, workers, shown, failures>>

Rebind ==
    /\ \E c \in (Conversations \union {Nobody}) \ {bound} : bound' = c
    /\ happened > 0 /\ Len(addressed) < happened
    /\ UNCHANGED <<happened, addressed, cursor, outbox, status, reader, workers, shown, failures>>

\* refresh_task_board: a page of events after the cursor.
Read(p) ==
    /\ reader[p] = <<>> /\ cursor["tasks"] < happened
    /\ LET n == IF happened - cursor["tasks"] > Page THEN Page ELSE happened - cursor["tasks"]
       IN  reader' = [reader EXCEPT ![p] = [i \in 1..n |-> cursor["tasks"] + i]]
    /\ UNCHANGED <<happened, bound, addressed, cursor, outbox, status, workers, shown, failures>>

\* Mutant: the row is written whatever the cursor says.
StagedTwice(n) == TRUE

Staged(n) == cursor["tasks"] < n

\* stage_notification: the cursor and the row, once, in one transaction.
Stage(p) ==
    /\ reader[p] # <<>>
    /\ LET n == Head(reader[p])
       IN  IF Staged(n)
           THEN /\ cursor' = [cursor EXCEPT !["tasks"] = IF @ < n THEN n ELSE @]
                /\ addressed' = IF n > Len(addressed) THEN Append(addressed, bound) ELSE addressed
                /\ outbox' = IF bound = Nobody THEN outbox
                             ELSE outbox \union {Row("tasks", n, bound, {<<"task", n>>})}
           ELSE UNCHANGED <<cursor, addressed, outbox>>
    /\ reader' = [reader EXCEPT ![p] = Tail(@)]
    /\ UNCHANGED <<happened, bound, status, workers, shown, failures>>

----------------------------------------------------------------------------
(* Inputs *)

\* claim_event, and release_event when the input failed before it had an effect; other
\* outcomes leave the row as final as this one (see EngineRuntime).
Process(r) ==
    /\ \/ status[r] = "processing" /\ status' = [status EXCEPT ![r] = "failed"]
       \/ status[r] \in {"new", "failed"} /\ status' = [status EXCEPT ![r] = "processing"]
    /\ UNCHANGED <<happened, bound, addressed, cursor, outbox, reader, workers, shown, failures>>

\* Mutant: a notice that is being delivered is extended as well.
OpenAny(c) == {x \in outbox : x.consumer = "admission" /\ x.to = c}

Open(c) == {x \in outbox : x.consumer = "admission" /\ x.to = c /\ x.token = Nobody}

\* reject_overloaded: an input that has not started is refused for good, and the refusals
\* of a conversation are gathered in its newest notice that nobody delivers.
Reject(r) ==
    /\ status[r] \in {"new", "failed"}
    /\ status' = [status EXCEPT ![r] = "rejected"]
    /\ LET c == Home[r]
       IN  IF Open(c) # {}
           THEN LET x == CHOOSE y \in Open(c) : \A z \in Open(c) : z.seq <= y.seq
                IN  Replace(x, [x EXCEPT !.items = @ \union {<<"input", r>>}]) /\ UNCHANGED cursor
           ELSE /\ cursor' = [cursor EXCEPT !["admission"] = @ + 1]
                /\ outbox' = outbox \union {Row("admission", cursor["admission"] + 1, c, {<<"input", r>>})}
    /\ UNCHANGED <<happened, bound, addressed, reader, workers, shown, failures>>

----------------------------------------------------------------------------
(* Delivery *)

\* Mutant: any notice of a conversation may be delivered.
OldestAny(x) == TRUE

Oldest(x) == \A y \in outbox : (y.consumer = x.consumer /\ y.to = x.to) => y.seq >= x.seq

Leased(w) == {x \in outbox : x.consumer = w.row.consumer /\ x.seq = w.row.seq /\ x.token = w.row.token}

\* A lease of 60 s outlives every delivery under it (20 s): it runs out when nobody holds it.
Free(x) == x.token = Nobody \/ ~\E w \in workers : x \in Leased(w)

\* A random token: none that a row or a worker still knows.
Token == CHOOSE n \in 1..(Cardinality(workers) + Cardinality(outbox) + 1) :
            ~\E x \in outbox \union {w.row : w \in workers} : x.token = n

\* claim_notifications: the oldest notice of each conversation, with a new token.
Claim ==
    /\ \E x \in outbox :
         /\ x.due /\ Free(x) /\ Oldest(x)
         /\ Replace(x, [x EXCEPT !.token = Token])
         /\ workers' = workers \union {[row |-> [x EXCEPT !.token = Token], sent |-> FALSE]}
    /\ UNCHANGED <<happened, bound, addressed, cursor, status, reader, shown, failures>>

\* deliver_task_notification: the view is sent, or the send fails or is lost either way.
Send(w) ==
    /\ ~w.sent
    /\ workers' = (workers \ {w}) \union {[w EXCEPT !.sent = TRUE]}
    /\ shown' = [shown EXCEPT ![w.row.to] = Append(@, <<w.row.consumer, w.row.seq, w.row.items>>)]
    /\ UNCHANGED <<happened, bound, addressed, cursor, outbox, status, reader, failures>>

Acknowledge(w) ==
    /\ w.sent
    /\ outbox' = outbox \ Leased(w) /\ workers' = workers \ {w}
    /\ UNCHANGED <<happened, bound, addressed, cursor, status, reader, shown, failures>>

\* finish_notification with an error: sent or not, it is tried again later.
Fail(w) ==
    /\ Failure
    /\ outbox' = (outbox \ Leased(w)) \union {[x EXCEPT !.token = Nobody, !.due = FALSE] : x \in Leased(w)}
    /\ workers' = workers \ {w}
    /\ UNCHANGED <<happened, bound, addressed, cursor, status, reader, shown>>

BackoffEnds ==
    /\ \E x \in outbox : ~x.due /\ Replace(x, [x EXCEPT !.due = TRUE])
    /\ UNCHANGED <<happened, bound, addressed, cursor, status, reader, workers, shown, failures>>

\* The runtime stops, or crashes: workers and refreshes end, leases stay.
Stop ==
    /\ workers # {} /\ Failure
    /\ workers' = {} /\ reader' = [p \in Refreshers |-> <<>>]
    /\ UNCHANGED <<happened, bound, addressed, cursor, outbox, status, shown>>

OutboxNext ==
    \/ Happen \/ Rebind \/ Claim \/ BackoffEnds \/ Stop
    \/ \E p \in Refreshers : Read(p) \/ Stage(p)
    \/ \E r \in Requests : Process(r) \/ Reject(r)
    \/ \E w \in workers : Send(w) \/ Acknowledge(w) \/ Fail(w)

OutboxSpec == OutboxInit /\ [][OutboxNext]_outboxVars

----------------------------------------------------------------------------
Seen(c) == UNION {shown[c][i][3] : i \in 1..Len(shown[c])}
Owed(c) == UNION {x.items : x \in {y \in outbox : y.to = c}}

\* What happened is told: a staged event of a bound session and every rejected input is in
\* the outbox until its conversation was shown it, across failures and restarts.
NothingUntold ==
    /\ \A n \in 1..Len(addressed) : addressed[n] # Nobody => <<"task", n>> \in Seen(addressed[n]) \union Owed(addressed[n])
    /\ \A r \in Requests : status[r] = "rejected" => <<"input", r>> \in Seen(Home[r]) \union Owed(Home[r])

\* A conversation is shown its notices in the order of the events, repeated at most around a failure.
ShownInOrder ==
    \A c \in Conversations : \A i, j \in 1..Len(shown[c]) :
        i < j /\ shown[c][i][1] = shown[c][j][1] => shown[c][i][2] <= shown[c][j][2]

\* A notice that was acknowledged never comes back: each repetition needs a failure or a stop.
RepeatedOnFailure ==
    \A c \in Conversations : \A i \in 1..Len(shown[c]) :
        Cardinality({j \in 1..Len(shown[c]) : shown[c][j][1] = shown[c][i][1] /\ shown[c][j][2] = shown[c][i][2]})
            <= 1 + failures

NotificationsTrue == NothingUntold /\ ShownInOrder /\ RepeatedOnFailure
=============================================================================
