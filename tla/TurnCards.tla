------------------------------ MODULE TurnCards ------------------------------
(***************************************************************************)
(* The cards of a session's turns: what the agent says is buffered by item *)
(* (output_buffer.rs), shown on a card that is edited while the turn works *)
(* and sent again when it is done (turn_flows.rs), then put away           *)
(* (cold_turns.rs).  Events may be lost and are then made up from history, *)
(* a missing prompt is read on the side (input_recovery.rs), every call to *)
(* the channel or a database may fail, and the process may stop.           *)
(*                                                                         *)
(* The session is bound to one conversation and its handlers run one at a  *)
(* time (EngineRuntime); revisions of one card are in CardWrites.          *)
(***************************************************************************)
EXTENDS Naturals, Sequences, SequencesExt, FiniteSets

CONSTANTS Nobody,
          Script,       \* what the agent does: [do, turn, item]
          Summaries,    \* turns whose history has the answer but no items
          Concurrency,  \* reads of input at once (8)
          Window,       \* how far the agent is ahead of the handlers
          MaxMoves, MaxFaults

VARIABLES
    pos,      \* how much of the script the agent has done
    at,       \* how much of it was handled
    gap,      \* events were lost: the projection has to be rebuilt
    e,        \* the engine's state, see Fresh
    era,      \* the binding's epoch and the connection's generation
    reads,    \* input reads: waiting, reading and finished, in order
    exited,
    missed,   \* history: turns whose end was lost for good
    patched,  \* history: what the agent said was read from its history
    misread,  \* history: input was restored that should not have been
    moves, faults

vars == <<pos, at, gap, e, era, reads, exited, missed, patched, misread, moves, faults>>

Turns == {Script[k].turn : k \in DOMAIN Script}
NoId == ""
NewBuffer == [user |-> "", items |-> <<>>, text |-> <<>>, status |-> "running", final |-> FALSE]

\* hot and cold: buffers, cold with its card.  card: the card that is edited (0: none),
\* sent: how many were sent, last: what the newest shows.  tok: turns with a Stop button
\* that works.  rows: the turns a restart would show.  req: requests for input.
Fresh == [hot |-> [t \in Turns |-> Nobody], cold |-> [t \in Turns |-> Nobody],
          card |-> [t \in Turns |-> 0], sent |-> [t \in Turns |-> 0], finals |-> [t \in Turns |-> 0],
          last |-> [t \in Turns |-> Nobody], active |-> Nobody, tok |-> {}, drawn |-> {},
          rows |-> [t \in Turns |-> Nobody], req |-> [t \in Turns |-> Nobody], asked |-> 0, ok |-> TRUE]

Init ==
    /\ pos = 0 /\ at = 0 /\ gap = FALSE /\ e = Fresh /\ era = 0 /\ reads = <<>> /\ exited = FALSE
    /\ missed = {} /\ patched = FALSE /\ misread = FALSE /\ moves = 0 /\ faults = 0

----------------------------------------------------------------------------
(* The agent, and what its history says after p events *)

Deltas(i, p) == {k \in 1..p : Script[k].do = "delta" /\ Script[k].item = i}
Said(i, p) == [n \in 1..Cardinality(Deltas(i, p)) |-> <<i, n>>]
Note(i) == \E k \in DOMAIN Script : Script[k].do = "note" /\ Script[k].item = i
Done(t, p) == \E k \in 1..p : Script[k].do = "done" /\ Script[k].turn = t

Begun(t, p) ==
    LET ks == SelectSeq([k \in 1..p |-> k], LAMBDA k :
                 /\ Script[k].turn = t /\ Script[k].do \in {"delta", "note"}
                 /\ \A l \in 1..(k - 1) : Script[l].item # Script[k].item)
    IN  [n \in DOMAIN ks |-> Script[ks[n]].item]

Answers(t, p) == SelectSeq(Begun(t, p), LAMBDA i : ~Note(i))
Answer(t, p) == FlattenSeq([n \in DOMAIN Answers(t, p) |-> Said(Answers(t, p)[n], p)])
Status(t, p) == IF Done(t, p) THEN "completed" ELSE "running"

----------------------------------------------------------------------------
(* The buffer *)

\* refresh_agent_text
Texts(items) ==
    FlattenSeq([n \in DOMAIN items |-> IF items[n].process THEN <<>> ELSE items[n].text])
Refreshed(b) == [b EXCEPT !.text = Texts(b.items)]

Item(id, text, process, fallback) ==
    [id |-> id, text |-> text, process |-> process, fallback |-> fallback]

\* A buffer that was restored has text but no items yet.
Hydrated(b, id, process) ==
    IF b.items = <<>> /\ b.text # <<>>
    THEN [b EXCEPT !.items = <<Item(IF process THEN NoId ELSE id, b.text, FALSE, process \/ id = NoId)>>]
    ELSE b

\* The item to write: the one of this id, or the one that history could not name.
Existing(b, id, process) ==
    LET named == {n \in DOMAIN b.items : id # NoId /\ b.items[n].id = id}
        unnamed == {n \in DOMAIN b.items : ~process /\ id # NoId /\ b.items[n].fallback}
        first(s) == CHOOSE n \in s : \A m \in s : n <= m
    IN  IF named # {} THEN first(named) ELSE IF unnamed # {} THEN first(unnamed) ELSE 0

\* Mutant: an item that is complete is appended to what its deltas said.
RecordAppend(old, text, append) == old \o text

RecordText(old, text, append) == IF append THEN old \o text ELSE text

RecordOutput(b0, id, text, process, append) ==
    LET b == Hydrated(b0, id, process)
        n == Existing(b, id, process)
    IN  Refreshed([b EXCEPT !.items =
            IF n = 0 THEN Append(@, Item(id, text, process, FALSE))
            ELSE [@ EXCEPT ![n] = Item(IF @.fallback THEN id ELSE @.id,
                                       RecordText(@.text, text, append), process, FALSE)]])

\* A summary cannot tell which of several answers changed.
RecordSummary(b, text) ==
    LET answers == {n \in DOMAIN b.items : ~b.items[n].process}
    IN  CASE Cardinality(answers) > 1 -> b
          [] Cardinality(answers) = 1 ->
               Refreshed([b EXCEPT !.items[CHOOSE n \in answers : TRUE].text = text])
          [] OTHER -> Refreshed([b EXCEPT !.items = Append(@, Item(NoId, text, FALSE, TRUE))])

Restore(b, t, p) ==
    IF t \in Summaries
    THEN IF Answer(t, p) = <<>> THEN b ELSE RecordSummary(b, Answer(t, p))
    ELSE FoldLeft(LAMBDA c, i : RecordOutput(c, i, Said(i, p), Note(i), FALSE), b, Begun(t, p))

HistoryUser(t) == IF t \in Summaries THEN "" ELSE "said"

FromSummary(t, p) ==
    [Restore(NewBuffer, t, p) EXCEPT !.user = HistoryUser(t), !.status = Status(t, p)]

MergeSummary(b, t, p) ==
    [Restore(b, t, p) EXCEPT !.user = IF HistoryUser(t) = "" THEN @ ELSE HistoryUser(t)]

----------------------------------------------------------------------------
(* Steps of the handlers; x says which kind of call fails, whether the card may be      *)
(* edited already (due), and what a read of the input answers at once (ready)           *)

Failed(s) == [s EXCEPT !.ok = FALSE]
Running(b) == b.status = "running"

RestoreCold(s, t) ==
    IF s.hot[t] # Nobody \/ s.cold[t] = Nobody THEN s
    ELSE [s EXCEPT !.hot[t] = s.cold[t].buffer, !.card[t] = s.cold[t].card]

\* Mutant: the receipt of the final card is not kept.
StoredPlain(b) == [b EXCEPT !.final = FALSE]

Stored(b) == b

\* archive_turn: the hot state is kept until the record is written.
Archive(s, t, x) ==
    IF s.hot[t] = Nobody THEN s
    ELSE IF x.fail = "store" THEN Failed(s)
    ELSE [s EXCEPT !.cold[t] = [buffer |-> Stored(s.hot[t]), card |-> s.card[t]],
                   !.hot[t] = Nobody, !.card[t] = 0]

\* clear_turn_stop_action: the button stops working whatever becomes of the card.
ClearStop(s, t, x) ==
    LET off == [s EXCEPT !.tok = @ \ {t}]
    IN  IF t \notin s.tok THEN s
        ELSE IF s.hot[t] = Nobody \/ s.card[t] = 0 \/ ~Running(s.hot[t]) THEN off
        ELSE IF x.fail = "save" THEN Failed(off)
        ELSE [off EXCEPT !.rows[t] = Nobody,
                         !.last[t] = IF x.fail = "edit" THEN @ ELSE [@ EXCEPT !.stop = FALSE]]

Reading == {n \in DOMAIN reads : reads[n].step = "reading"}

StartReads(rs) ==
    [n \in DOMAIN rs |->
        IF /\ rs[n].step = "waiting"
           /\ Cardinality({m \in DOMAIN rs : rs[m].step = "reading" \/ (m < n /\ rs[m].step = "waiting")}) < Concurrency
        THEN [rs[n] EXCEPT !.step = "reading"] ELSE rs[n]]

\* restore_turn_input: a missing prompt is asked for once, at the side.
RestoreInput(s, t, x) ==
    IF s.hot[t] = Nobody \/ s.hot[t].user # "" \/ s.req[t] # Nobody THEN s
    ELSE IF x.ready # "later" /\ Cardinality(Reading) < Concurrency THEN [s EXCEPT !.hot[t].user = x.ready]
    ELSE [s EXCEPT !.req[t] = [id |-> s.asked + 1, era |-> era], !.asked = @ + 1]

\* Mutant: the result is shown by an edit of the card that streamed.
FinalNever(s, t) == FALSE

\* The result is sent as a new card, once.
FreshFinal(s, t) == s.hot[t].status = "completed" /\ ~s.hot[t].final

\* deliver_turn_view
Deliver(s, t, view, x) ==
    IF s.card[t] # 0 /\ ~FreshFinal(s, t)
    THEN IF x.fail = "edit" THEN Failed(s)
         ELSE [s EXCEPT !.last[t] = IF s.card[t] = s.sent[t] THEN view ELSE @]
    ELSE IF x.fail = "send"
         THEN Failed(IF s.card[t] = 0 THEN s ELSE [s EXCEPT !.last[t] = view])
         ELSE [s EXCEPT !.sent[t] = @ + 1, !.card[t] = s.sent[t] + 1, !.last[t] = view,
                        !.finals[t] = @ + (IF FreshFinal(s, t) THEN 1 ELSE 0),
                        !.hot[t].final = @ \/ FreshFinal(s, t)]

\* The checkpoint of a turn that works, so that a restart shows it.
Checkpoint(s, t, can, x) ==
    IF ~s.ok THEN s ELSE IF x.fail = "save" THEN Failed(s)
    ELSE [s EXCEPT !.rows[t] = IF can THEN [text |-> s.hot[t].text, user |-> s.hot[t].user] ELSE Nobody]

RenderView(s, t, bound, x) ==
    IF s.hot[t] = Nobody THEN s
    ELSE LET running == Running(s.hot[t])
             claimed == IF running /\ bound /\ s.card[t] = 0 /\ s.active = Nobody
                        THEN [s EXCEPT !.active = t] ELSE s
             can == running /\ bound /\ claimed.active = t
             armed == [claimed EXCEPT !.tok = IF can THEN @ \union {t} ELSE @ \ {t}]
             view == [text |-> s.hot[t].text, user |-> s.hot[t].user,
                      status |-> s.hot[t].status, stop |-> can]
             shown == Checkpoint(Deliver(armed, t, view, x), t, can, x)
         IN  IF shown.ok /\ ~running THEN Archive(shown, t, x) ELSE shown

Render(s, t, force, x) ==
    IF ~s.ok \/ (~force /\ t \in s.drawn /\ ~x.due) THEN s
    ELSE RenderView(RestoreInput([s EXCEPT !.drawn = @ \union {t}], t, x), t, TRUE, x)

\* The buffer of t changes to b, with the turn put away again if it was.
Change(s, t, Op(_), force, x) ==
    LET was == s.hot[t] = Nobody /\ s.cold[t] # Nobody
        r == RestoreCold(s, t)
        b == IF r.hot[t] = Nobody THEN NewBuffer ELSE r.hot[t]
        d == Render([r EXCEPT !.hot[t] = Op(b)], t, force, x)
    IN  IF was /\ d.ok THEN Archive(d, t, x) ELSE d

\* record_turn_started: the turn before is put away.
Started(s0, t, x) ==
    LET s == RestoreCold(s0, t)
        p == s.active
        c == IF p \in {Nobody, t} THEN s ELSE ClearStop(s, p, x)
        a == IF p \in {Nobody, t} \/ ~c.ok THEN c ELSE Archive(c, p, x)
    IN  IF ~a.ok THEN a
        ELSE [a EXCEPT !.active = t, !.hot[t] = IF @ = Nobody THEN NewBuffer ELSE @]

\* handle_turn_completed: the agent's end counts even if the card cannot be edited.
Completed(s, t, x) ==
    LET end(c) == Change([c EXCEPT !.active = IF @ = t THEN Nobody ELSE @], t,
                         LAMBDA b : [b EXCEPT !.status = "completed"], TRUE, x)
    IN  IF s.ok THEN end(s) ELSE s

Handle(s, k, x) ==
    LET t == Script[k].turn
        i == Script[k].item
        process(b) == \E n \in DOMAIN b.items : b.items[n].id = i /\ b.items[n].process
    IN  CASE Script[k].do = "start" -> Started(s, t, x)
          [] Script[k].do = "note" ->
               LET r == RestoreCold(s, t)
                   b == IF r.hot[t] = Nobody THEN NewBuffer ELSE r.hot[t]
               IN  [r EXCEPT !.hot[t] = IF \E n \in DOMAIN b.items : b.items[n].id = i THEN b
                                        ELSE RecordOutput(b, i, <<>>, TRUE, FALSE)]
          [] Script[k].do = "delta" ->
               Change(s, t, LAMBDA b : RecordOutput(b, i, <<<<i, Cardinality(Deltas(i, k))>>>>, process(b), TRUE), FALSE, x)
          [] Script[k].do = "item" ->
               Change(s, t, LAMBDA b : RecordOutput(b, i, Said(i, k), Note(i), FALSE), FALSE, x)
          [] Script[k].do = "user" -> Change(s, t, LAMBDA b : [b EXCEPT !.user = "live"], FALSE, x)
          [] Script[k].do = "done" -> Completed(s, t, x)

----------------------------------------------------------------------------
(* After a gap *)

\* hydrate_running_turn: a new buffer, on a new card.
Hydrate(s, t, x) ==
    LET r == Started(s, t, x)
    IN  IF ~r.ok THEN r
        ELSE Render([r EXCEPT !.cold[t] = Nobody, !.hot[t] = FromSummary(t, pos), !.card[t] = 0,
                              !.drawn = @ \ {t}], t, TRUE, x)

Known == {Script[k].turn : k \in 1..pos}
Latest == IF pos = 0 THEN Nobody ELSE Script[pos].turn

\* Mutant: a turn that ended unseen stays the one that is steered.
ReconcileRunning(s, x) ==
    IF Latest = Nobody \/ Done(Latest, pos) THEN s ELSE Hydrate(s, Latest, x)

\* reconcile_resumed_session
Reconcile(s, x) ==
    LET t == Latest
    IN  IF t = Nobody THEN [s EXCEPT !.active = Nobody]
        ELSE IF ~Done(t, pos) THEN Hydrate(s, t, x)
        ELSE IF s.active # t THEN [s EXCEPT !.active = Nobody]
        ELSE Completed(Change(s, t, LAMBDA b : RecordOutput(b, "recovered", Answer(t, pos), FALSE, FALSE),
                              FALSE, x), t, x)

\* recover_event_gap: what fails is logged.
Recovered(s, x) ==
    LET off == FoldSet(LAMBDA t, c : [ClearStop(c, t, x) EXCEPT !.ok = TRUE], s, s.tok)
    IN  IF x.fail = "read" THEN Failed(off) ELSE Reconcile(off, x)

----------------------------------------------------------------------------
(* The lane *)

\* fail: which kind of call fails, due: the card may be edited already, ready: the prompt
\* is read at once.
Calls == {"send", "edit", "save", "store"}
Ways(fails) ==
    {[fail |-> "none", due |-> d, ready |-> r] : d \in BOOLEAN, r \in {"later", "old"}}
    \union {[fail |-> f, due |-> TRUE, ready |-> "later"] : f \in IF faults < MaxFaults THEN fails ELSE {}}

\* Cancelled requests are not read any more; new ones wait for their turn.
Queued(s) ==
    LET wanted == {t \in Turns : s.req[t] # Nobody /\ \A n \in DOMAIN reads : reads[n].id # s.req[t].id}
    IN  StartReads(SelectSeq(reads, LAMBDA r : r.step = "read" \/ (s.req[r.turn] # Nobody /\ s.req[r.turn].id = r.id))
        \o [n \in 1..Cardinality(wanted) |->
              LET t == CHOOSE t \in wanted : TRUE IN [turn |-> t, id |-> s.req[t].id, step |-> "waiting"]])

\* The handler ends: its state, and the input it asked for.
Ends(s, x) ==
    /\ e' = [s EXCEPT !.ok = TRUE] /\ reads' = Queued(s)
    /\ x.fail = "none" \/ ~s.ok \/ s # e
    /\ faults' = faults + (IF x.fail = "none" THEN 0 ELSE 1)

Agent ==
    /\ pos < Len(Script) /\ pos - at < Window /\ ~exited /\ pos' = pos + 1
    /\ UNCHANGED <<at, gap, e, era, reads, exited, missed, patched, misread, moves, faults>>

Event ==
    /\ at < pos /\ ~gap /\ ~exited
    /\ \E x \in Ways(Calls) :
         LET s == Handle(e, at + 1, x)
         IN  /\ Ends(s, x) /\ at' = at + 1
             /\ missed' = missed \union
                   (IF x.fail = "none" \/ (s.ok /\ x.fail # "save") THEN {} ELSE {Script[at + 1].turn})
    /\ UNCHANGED <<pos, gap, era, exited, patched, misread, moves>>

\* The stream lags: some events are lost, the projection is rebuilt before the next.
Lag ==
    /\ at < pos /\ ~gap /\ ~exited /\ moves < MaxMoves /\ moves' = moves + 1
    /\ \E k \in (at + 1)..pos :
         /\ at' = k
         /\ missed' = missed \union {Script[l].turn : l \in {l \in (at + 1)..k : Script[l].turn # Latest}}
    /\ gap' = TRUE /\ patched' = TRUE
    /\ UNCHANGED <<pos, e, era, reads, exited, misread, faults>>

Recover ==
    /\ gap /\ ~exited /\ gap' = FALSE
    /\ \E x \in Ways({"read"} \union Calls) :
         LET s == Recovered(e, x)
         IN  /\ Ends(s, x)
             /\ missed' = missed \union {t \in Known \ {Latest} : e.hot[t] # Nobody \/ e.sent[t] = 0}
                                 \union (IF Latest = Nobody \/ (x.fail = "none" /\ (~Done(Latest, pos) \/ e.active = Latest))
                                         THEN {} ELSE {Latest})
    /\ UNCHANGED <<pos, at, era, exited, patched, misread, moves>>

\* /last: the card is sent again at the end of the conversation.
ShowLast ==
    /\ ~gap /\ ~exited /\ moves < MaxMoves /\ moves' = moves + 1
    /\ e.active # Nobody \/ Latest # Nobody
    /\ patched' = (patched \/ at < pos)
    /\ \E x \in Ways(Calls) :
         LET t == IF e.active # Nobody THEN e.active ELSE Latest
             r == RestoreCold(e, t)
             b == [MergeSummary(IF r.hot[t] = Nobody THEN FromSummary(t, pos) ELSE r.hot[t], t, pos)
                      EXCEPT !.status = Status(t, pos)]
             m == [r EXCEPT !.hot[t] = b]
             u == IF e.active # Nobody THEN r
                  ELSE IF Running(b) THEN Started(m, t, x) ELSE [m EXCEPT !.active = Nobody]
             c == IF u.ok THEN ClearStop(u, t, x) ELSE u
             s == IF c.ok THEN Render([c EXCEPT !.card[t] = 0], t, TRUE, x) ELSE c
         IN  Ends(IF ~s.ok /\ s.card[t] = 0 THEN [s EXCEPT !.card[t] = c.card[t]] ELSE s, x)
    /\ UNCHANGED <<pos, at, gap, era, exited, missed, misread>>

\* The working time on the card of a turn that is silent.
Refresh ==
    /\ e.active # Nobody /\ ~exited /\ moves < MaxMoves /\ moves' = moves + 1
    /\ LET t == e.active
       IN  /\ e.hot[t] # Nobody /\ Running(e.hot[t]) /\ e.card[t] = e.sent[t] /\ e.card[t] # 0
           /\ e' = [e EXCEPT !.last[t] = [text |-> e.hot[t].text, user |-> e.hot[t].user,
                                          status |-> "running", stop |-> t \in e.tok]]
    /\ UNCHANGED <<pos, at, gap, era, reads, exited, missed, patched, misread, faults>>

----------------------------------------------------------------------------
(* Input that is read at the side *)

ReadEnds ==
    /\ \E n \in Reading : reads' = StartReads([reads EXCEPT ![n].step = "read"])
    /\ UNCHANGED <<pos, at, gap, e, era, exited, missed, patched, misread, moves, faults>>

\* Mutant: a result is taken whatever was asked since.
CurrentAny(r) == TRUE

\* take, then the connection and the binding of the request.
Current(r) == e.req[r.turn].id = r.id /\ e.req[r.turn].era = era

\* Mutant: the prompt that arrived meanwhile is replaced.
MissingAny(b) == TRUE

Missing(b) == b.user = ""

\* apply_recovered_input, in the session's lane.
Apply ==
    \E n \in DOMAIN reads :
      LET r == reads[n]
          t == r.turn
          taken == IF e.req[t] # Nobody /\ e.req[t].id = r.id THEN [e EXCEPT !.req[t] = Nobody] ELSE e
          hot == RestoreCold(taken, t)
          was == taken.hot[t] = Nobody /\ hot.hot[t] # Nobody
      IN  /\ r.step = "read" /\ \A m \in 1..(n - 1) : reads[m].step # "read"
          /\ \E x \in Ways(Calls), text \in {"", "old"} :
               LET set == IF hot.hot[t] # Nobody /\ Missing(hot.hot[t])
                          THEN Render([hot EXCEPT !.hot[t].user = text], t, TRUE, x) ELSE hot
                   s == IF taken = e \/ ~Current(r) \/ text = "" THEN taken
                        ELSE IF was /\ set.ok THEN Archive(set, t, x) ELSE set
               IN  /\ e' = [s EXCEPT !.ok = TRUE]
                   /\ reads' = RemoveAt(reads, n)
                   /\ misread' = (misread \/ (s.hot[t] # Nobody /\ e.hot[t] # Nobody /\ s.hot[t].user # e.hot[t].user
                                              /\ (e.hot[t].user # "" \/ e.req[t].era # era)))
                   /\ missed' = IF s.ok /\ x.fail # "save" THEN missed ELSE missed \union {t}
                   /\ x.fail = "none" \/ s # taken
                   /\ faults' = faults + (IF x.fail = "none" THEN 0 ELSE 1)
          /\ UNCHANGED <<pos, at, gap, era, exited, patched, moves>>

\* The conversation attaches again, or the agent's connection is replaced.
Rebind ==
    /\ era = 0 /\ (\E t \in Turns : e.req[t] # Nobody) /\ moves < MaxMoves /\ moves' = moves + 1 /\ era' = era + 1
    /\ UNCHANGED <<pos, at, gap, e, reads, exited, missed, patched, misread, faults>>

----------------------------------------------------------------------------
(* The end of the session, and of the process *)

\* cleanup_exited_turn
CleanUp(s, t, x) ==
    LET r == RestoreCold(s, t)
        v == IF r.card[t] # 0
             THEN RenderView([r EXCEPT !.hot[t] = IF @ = Nobody THEN [NewBuffer EXCEPT !.status = "interrupted"]
                                                  ELSE IF Running(@) THEN [@ EXCEPT !.status = "interrupted"] ELSE @],
                             t, FALSE, x)
             ELSE [r EXCEPT !.tok = @ \ {t}]
    IN  [v EXCEPT !.ok = TRUE, !.rows[t] = IF x.fail = "save" THEN @ ELSE Nobody,
                  !.hot[t] = Nobody, !.card[t] = 0, !.cold[t] = Nobody, !.drawn = @ \ {t}]

\* Mutant: the card is closed but its button still works.
CleanUpCards(s, t, x) == [CleanUp(s, t, x) EXCEPT !.tok = s.tok]

Cleaned(s, t, x) == CleanUp(s, t, x)

\* handle_session_exit
Exit ==
    /\ ~exited /\ ~gap /\ moves < MaxMoves /\ moves' = moves + 1 /\ exited' = TRUE
    /\ \E x \in Ways(Calls) :
         /\ x.ready = "later"
         /\ LET ts == {t \in Turns : e.card[t] # 0 \/ e.cold[t] # Nobody \/ t \in e.tok \/ t = e.active}
                s0 == [e EXCEPT !.req = [t \in Turns |-> Nobody], !.active = Nobody]
                s == FoldSet(LAMBDA t, c : Cleaned(c, t, x), s0, ts)
            IN  Ends(s, x)
    /\ UNCHANGED <<pos, at, gap, era, missed, patched, misread>>

\* The process stops; the turns it has rows for are shown again, then the session resumes.
Restart ==
    /\ ~exited /\ faults < MaxFaults /\ faults' = faults + 1
    /\ LET kept == {t \in Turns : e.rows[t] # Nobody}
       IN  /\ e' = [Fresh EXCEPT
                  !.hot = [t \in Turns |-> IF t \in kept
                              THEN [NewBuffer EXCEPT !.text = e.rows[t].text, !.user = e.rows[t].user] ELSE Nobody],
                  !.card = [t \in Turns |-> IF t \in kept THEN e.sent[t] ELSE 0],
                  !.active = IF kept = {} THEN Nobody ELSE CHOOSE t \in kept : \A u \in kept : u <= t,
                  !.sent = e.sent, !.finals = e.finals, !.last = e.last, !.rows = e.rows]
           /\ missed' = missed \union {t \in Known : t \notin kept /\ ~(e.sent[t] > 0 /\ e.hot[t] = Nobody)}
                               \union ({Script[l].turn : l \in (at + 1)..pos} \ {Latest})
    /\ at' = pos /\ gap' = TRUE /\ patched' = TRUE /\ reads' = <<>>
    /\ UNCHANGED <<pos, era, exited, misread, moves>>

Next ==
    \/ Agent \/ Event \/ Lag \/ Recover \/ ShowLast \/ Refresh
    \/ ReadEnds \/ Apply \/ Rebind \/ Exit \/ Restart

Spec == Init /\ [][Next]_vars

----------------------------------------------------------------------------
(* Properties *)

Says(text, part) == \E n \in 0..(Len(text) - Len(part)) : SubSeq(text, n + 1, n + Len(part)) = part

\* When all is handled, the newest card of a turn that is done says every answer in full,
\* says that it is done, and has no Stop button.
SaysAll ==
    at = pos /\ ~gap /\ ~exited =>
        \A t \in {t \in Turns : Done(t, pos)} \ missed :
            e.sent[t] > 0 =>
                /\ e.last[t].status = "completed" /\ ~e.last[t].stop
                /\ e.finals[t] > 0 /\ (patched \/ e.last[t].text = Answer(t, pos))
                /\ \A n \in DOMAIN Answers(t, pos) : Says(e.last[t].text, Said(Answers(t, pos)[n], pos))

\* A result is sent once, whatever is told twice; what fails may be sent again.
SentOnce == \A t \in Turns : e.finals[t] <= 1 + faults

\* A Stop button that works belongs to the turn that runs.
StopsRunning == \A t \in e.tok \ missed : e.active = t /\ e.hot[t] # Nobody /\ Running(e.hot[t])

\* Input read at the side never replaces what arrived, nor that of another binding; and no
\* request is left that nobody reads.
InputRestored ==
    /\ ~misread
    /\ \A t \in Turns : e.req[t] # Nobody => \E n \in DOMAIN reads : reads[n].id = e.req[t].id

TurnCardsTrue == SaysAll /\ SentOnce /\ StopsRunning /\ InputRestored
=============================================================================
