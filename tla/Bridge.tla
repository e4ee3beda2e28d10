------------------------------- MODULE Bridge -------------------------------
(***************************************************************************)
(* An agent's terminal process and the service, joined by a local socket.  *)
(*                                                                         *)
(* The extension in the terminal process (runtime.mjs, transport.mjs,      *)
(* queue.mjs) connects, registers its session and sends numbered events;   *)
(* the hub (bridge_hub.rs, bridge.rs) keeps one connection per session and *)
(* sends it requests.  Sockets break, the terminal process stops and comes *)
(* back as a new instance with the queue it saved, requests time out.      *)
(*                                                                         *)
(* "version" counts the changes of the conversation an event announces and *)
(* a history page shows.  Messages of kind "prompt" go to the agent at     *)
(* once and only when it is idle, those of kind "queue" wait their turn.   *)
(* A request has an identity: of a prompt, each call makes a new one, of a *)
(* queued message it is the message's own, so that the host knows a repeat *)
(* of the second kind only.                                                *)
(***************************************************************************)
EXTENDS Naturals, FiniteSets, FiniteSetsExt, DurableQueue

CONSTANTS Prompts, Queued,  \* messages of the two kinds
          MaxSockets,       \* bound: connections made
          MaxMoves,         \* bound: what users do with the queue
          MaxCalls,         \* bound: calls of senders and turns typed at the terminal
          MaxFaults         \* bound: sockets cut, processes stopped, calls timed out, sends failed

Messages == Prompts \union Queued

VARIABLES
    \* the terminal process
    up, inst,         \* running, incarnation
    idle, version,    \* ctx.isIdle(), the conversation
    sock,             \* its socket, 0 for none
    registered,       \* the socket's registration was acknowledged
    sequence,         \* transport.#sequence
    chain,            \* requests waiting for the command chain
    sending,          \* request in api.sendUserMessage, with its caller's socket
    queue,            \* DurableQueue, saved before every change
    \* the wire, per socket
    toHub, toHost, cut,
    \* the hub
    entry,            \* registrations[session]: [sock, inst, last, online]
    reserved,         \* pending_registrations: the socket whose acknowledgement is written
    waiting,          \* requests with a response slot, with their socket
    resumed,          \* SessionResumed not yet handled by the engine
    reading,          \* the engine waits for a history page
    known,            \* version the engine has seen
    told,             \* what a message's sender was told last
    calls,            \* per sender, and None for the terminal
    moves, faults,
    sent,             \* history: how often a request's message was handed to the agent
    thrown            \* history: prompts whose api.sendUserMessage threw

handed == <<sent, thrown>>
hostVars == <<up, inst, idle, version, sock, registered, sequence, chain, sending, queue, handed>>
wireVars == <<toHub, toHost, cut>>
hubVars == <<entry, reserved, waiting, resumed, reading, known, told>>
vars == <<hostVars, wireVars, hubVars, calls, moves, faults>>

Sockets == 1..MaxSockets
RequestIds == Messages \X (0..MaxCalls)
Message(id) == id[1]
Of(m) == {id \in RequestIds : Message(id) = m}
RequestId(m, n) == <<m, IF m \in Queued THEN 0 ELSE n>>
NotSending == [id |-> None, sock |-> 0]
NoEntry == [sock |-> 0, inst |-> 0, last |-> 0, online |-> FALSE]

Begun == MapThenSumSet(LAMBDA n : calls[n], Messages \union {None})
Move == moves < MaxMoves /\ moves' = moves + 1
Fault == faults < MaxFaults /\ faults' = faults + 1
Push(s, frame) == toHub' = [toHub EXCEPT ![s] = IF s \in cut THEN @ ELSE Append(@, frame)]
Online == entry.online

(***************************************************************************)
(* transport.mjs.                                                          *)
(***************************************************************************)
\* BridgeTransport.event: without a registered client an event has no number.
Emit ==
    IF sock # 0 /\ registered
    THEN /\ sequence' = sequence + 1
         /\ Push(sock, [type |-> "event", seq |-> sequence + 1, inst |-> inst, version |-> version'])
    ELSE UNCHANGED <<sequence, toHub>>

Connect ==
    /\ up /\ sock = 0
    /\ \E s \in Sockets :
         /\ s \notin cut /\ toHub[s] = <<>> /\ toHost[s] = <<>>
         /\ entry.sock # s /\ reserved # s
         /\ \A t \in Sockets : t < s => t \in cut
         /\ sock' = s /\ registered' = FALSE
         /\ Push(s, [type |-> "register", seq |-> sequence, inst |-> inst, version |-> version])
    /\ UNCHANGED <<up, inst, idle, version, sequence, chain, sending, queue, handed, toHost,
                   cut, hubVars, calls, moves, faults>>

\* The host reads a frame: an acknowledgement, a request it answers at once, or one
\* for the chain.
HostRead ==
    /\ up /\ sock # 0 /\ toHost[sock] # <<>>
    /\ LET frame == Head(toHost[sock])
       IN  /\ registered' = (registered \/ frame.type = "ack")
           /\ IF frame.type = "history"
              THEN Push(sock, [type |-> "history", version |-> version])
              ELSE UNCHANGED toHub
           /\ chain' = IF frame.type = "call" THEN Append(chain, [id |-> frame.id, sock |-> sock])
                       ELSE chain
    /\ toHost' = [toHost EXCEPT ![sock] = Tail(@)]
    /\ UNCHANGED <<up, inst, idle, version, sock, sequence, sending, queue, handed, cut,
                   hubVars, calls, moves, faults>>

\* The host notices that its socket closed; #retry connects again.
HostClosed ==
    /\ up /\ sock # 0 /\ sock \in cut /\ toHost[sock] = <<>>
    /\ sock' = 0 /\ registered' = FALSE
    /\ UNCHANGED <<up, inst, idle, version, sequence, chain, sending, queue, handed, wireVars,
                   hubVars, calls, moves, faults>>

(***************************************************************************)
(* runtime.mjs.                                                            *)
(***************************************************************************)
Answer(c, result) == Push(c.sock, [type |-> "answer", id |-> c.id, result |-> result])

\* The turn starts and the message goes to api.sendUserMessage.
Deliver(id, s, q) ==
    /\ queue' = q
    /\ sent' = [sent EXCEPT ![id] = @ + 1]
    /\ sending' = [id |-> id, sock |-> s]
    /\ idle' = FALSE

\* command('prompt') and command('queue'); BridgeTransport.#handle drops a request whose
\* socket is gone.  A prompt is taken whenever the agent is idle, even beside a delivery
\* that is uncertain: only the queue stops for one.
Command ==
    /\ up /\ sending.id = None /\ chain # <<>>
    /\ LET c == Head(chain)
           id == c.id
       IN  IF c.sock # sock \/ c.sock \in cut
           THEN UNCHANGED <<queue, sent, sending, idle, toHub, version, sequence>>
           ELSE IF Message(id) \in Queued
           THEN /\ queue' = Enqueue(queue, id) /\ Answer(c, "ok")
                /\ UNCHANGED <<sent, sending, idle, version, sequence>>
           ELSE IF id \in queue.receipts \/ ~idle
           THEN /\ Answer(c, IF id \in queue.receipts \ queue.failures THEN "ok" ELSE "refused")
                /\ UNCHANGED <<queue, sent, sending, idle, version, sequence>>
           ELSE /\ Deliver(id, c.sock, Remember(queue, id))
                /\ version' = version + 1 /\ Emit
    /\ chain' = Tail(chain)
    /\ UNCHANGED <<up, inst, sock, registered, thrown, toHost, cut, hubVars, calls, moves,
                   faults>>

Pump ==
    /\ up /\ sending.id = None /\ idle /\ Peek(queue) # None
    /\ Deliver(Peek(queue), 0, Claim(queue))
    /\ version' = version + 1 /\ Emit
    /\ UNCHANGED <<up, inst, sock, registered, chain, thrown, toHost, cut, hubVars, calls,
                   moves, faults>>

\* sendUserMessage returned; a prompt's caller gets its turn.
SendReturns ==
    /\ up /\ sending.id # None
    /\ sending' = NotSending
    /\ IF sending.sock # 0 THEN Answer(sending, "ok") ELSE UNCHANGED toHub
    /\ UNCHANGED <<up, inst, idle, version, sock, registered, sequence, chain, queue, handed,
                   toHost, cut, hubVars, calls, moves, faults>>

\* sendUserMessage threw: the outcome is unknown, the queue stops.
SendFails ==
    /\ up /\ sending.id # None /\ Fault
    /\ sending' = NotSending
    /\ queue' = Finished(IF sending.sock = 0 THEN MarkUncertain(queue)
                         ELSE Fail(queue, sending.id), FALSE)
    /\ thrown' = IF sending.sock = 0 THEN thrown ELSE thrown \union {sending.id}
    /\ version' = version + 1 /\ idle' = TRUE
    /\ LET answered == IF sending.sock # 0 /\ sending.sock \notin cut
                       THEN <<[type |-> "answer", id |-> sending.id, result |-> "refused"]>>
                       ELSE <<>>
           event == [type |-> "event", seq |-> sequence + 1, inst |-> inst,
                     version |-> version + 1]
       IN  IF sock # 0 /\ registered
           THEN /\ sequence' = sequence + 1
                /\ toHub' = [toHub EXCEPT ![sock] = IF sock \in cut THEN @
                                                    ELSE Append(@, event) \o answered]
           ELSE UNCHANGED <<sequence, toHub>>
    /\ UNCHANGED <<up, inst, sock, registered, chain, sent, toHost, cut, hubVars, calls,
                   moves>>

\* finish: the agent settled; 'stop' aborts it and pauses the queue.
Finish ==
    /\ up /\ ~idle /\ sending.id = None
    /\ idle' = TRUE /\ version' = version + 1
    /\ \E interrupted \in BOOLEAN : queue' = Finished(queue, interrupted)
    /\ Emit
    /\ UNCHANGED <<up, inst, sock, registered, chain, sending, handed, toHost, cut, hubVars,
                   calls, moves, faults>>

\* The user types in the terminal.
UserTurn ==
    /\ up /\ idle /\ sending.id = None
    /\ Begun < MaxCalls /\ calls' = [calls EXCEPT ![None] = @ + 1]
    /\ idle' = FALSE /\ version' = version + 1 /\ Emit
    /\ UNCHANGED <<up, inst, sock, registered, chain, sending, queue, handed, toHost, cut,
                   hubVars, moves, faults>>

\* queue_resume and queue_clear.
ControlQueue ==
    /\ up /\ Online /\ Move
    /\ queue' \in {Resume(queue), Clear(queue, idle)} \ {queue}
    /\ UNCHANGED <<up, inst, idle, version, sock, registered, sequence, chain, sending,
                   handed, wireVars, hubVars, calls, faults>>

\* The process stops; a new instance restores the queue.
HostStops ==
    /\ up /\ Fault
    /\ up' = FALSE /\ sock' = 0 /\ registered' = FALSE /\ chain' = <<>>
    /\ sending' = NotSending /\ idle' = TRUE
    /\ cut' = cut \union ({sock} \ {0})
    /\ UNCHANGED <<inst, version, sequence, queue, handed, toHub, toHost, hubVars, calls,
                   moves>>

Open ==
    /\ ~up
    /\ up' = TRUE /\ inst' = inst + 1 /\ sequence' = 0
    /\ queue' = Restore(queue)
    /\ UNCHANGED <<idle, version, sock, registered, chain, sending, handed, wireVars, hubVars,
                   calls, moves, faults>>

(***************************************************************************)
(* bridge_hub.rs.                                                          *)
(***************************************************************************)
Close(s) == cut' = cut \union {s}
NextFrame(s, type) == toHub[s] # <<>> /\ Head(toHub[s]).type = type
Taken(s) == toHub' = [toHub EXCEPT ![s] = Tail(@)]

\* accept up to the acknowledgement: one registration at a time, none beside a live one.
Accept(s) ==
    /\ NextFrame(s, "register") /\ entry.sock # s /\ reserved # s
    /\ IF reserved # 0 \/ entry.sock # 0
       THEN Taken(s) /\ Close(s) /\ UNCHANGED <<toHost, reserved>>
       ELSE /\ reserved' = s
            /\ toHost' = [toHost EXCEPT ![s] = Append(@, [type |-> "ack"])]
            /\ UNCHANGED <<toHub, cut>>
    /\ UNCHANGED <<hostVars, entry, waiting, resumed, reading, known, told, calls, moves,
                   faults>>

\* Mutant: the engine is not told of a session that registered before.
ResumedNever == resumed
Resumed == TRUE
\* accept after it: the connection is entered and the engine hears SessionResumed.
Register ==
    /\ reserved # 0
    /\ LET frame == Head(toHub[reserved])
       IN  entry' = [sock |-> reserved, inst |-> frame.inst, last |-> frame.seq, online |-> TRUE]
    /\ Taken(reserved)
    /\ reserved' = 0 /\ resumed' = Resumed
    /\ UNCHANGED <<hostVars, toHost, cut, waiting, reading, known, told, calls, moves,
                   faults>>

\* State::disconnected: the entry goes, slots without an answer are dropped.
Outcome(s) == IF s.dispatched THEN "uncertain" ELSE "unavailable"
Lost(s) == {w \in waiting : w.sock = s}
Disconnected(s) ==
    /\ entry' = NoEntry
    /\ waiting' = waiting \ Lost(s)
    /\ told' = [m \in Messages |->
                  IF \E w \in Lost(s) : w.id \in Of(m)
                  THEN Outcome(CHOOSE w \in Lost(s) : w.id \in Of(m)) ELSE told[m]]
    /\ reading' = FALSE
    /\ Close(s)

(***************************************************************************)
(* bridge.rs: the reader of a connection.                                  *)
(***************************************************************************)
Gap(frame) == frame.seq # entry.last + 1

ReadFrame ==
    /\ Online /\ toHub[entry.sock] # <<>>
    /\ LET s == entry.sock
           frame == Head(toHub[s])
       IN  /\ Taken(s)
           /\ \/ /\ frame.type = "answer"
                 /\ IF \E w \in waiting : w.id = frame.id /\ w.sock = s
                    THEN told' = [told EXCEPT ![Message(frame.id)] = frame.result]
                    ELSE UNCHANGED told
                 /\ waiting' = {w \in waiting : w.id # frame.id \/ w.sock # s}
                 /\ UNCHANGED <<entry, cut, known, reading>>
              \/ /\ frame.type = "history"
                 /\ known' = IF reading THEN frame.version ELSE known
                 /\ reading' = FALSE
                 /\ UNCHANGED <<entry, cut, waiting, told>>
              \/ /\ frame.type = "event"
                 /\ IF frame.inst # entry.inst \/ frame.seq <= entry.last
                    THEN UNCHANGED <<entry, cut, waiting, told, known, reading>>
                    ELSE IF Gap(frame) THEN Disconnected(s) /\ UNCHANGED known
                    ELSE /\ entry' = [entry EXCEPT !.last = frame.seq]
                         /\ known' = frame.version
                         /\ UNCHANGED <<cut, waiting, told, reading>>
    /\ UNCHANGED <<hostVars, toHost, reserved, resumed, calls, moves, faults>>

\* The stream ended.
StreamEnds ==
    /\ entry.sock # 0 /\ entry.sock \in cut /\ toHub[entry.sock] = <<>>
    /\ Disconnected(entry.sock)
    /\ UNCHANGED <<hostVars, toHub, toHost, reserved, resumed, known, calls, moves, faults>>

(***************************************************************************)
(* bridge.rs: requests.                                                    *)
(***************************************************************************)
\* A sender repeats a prompt when it was told that nothing happened or that it was refused
\* (its event is released and comes again), the sender of a queued message after any answer
\* but "ok".
MayCall(m) ==
    /\ Begun < MaxCalls
    /\ ~\E w \in waiting : w.id \in Of(m)
    /\ told[m] # "ok"
    /\ m \in Prompts => told[m] # "uncertain"

\* The slot is taken before the frame is written; the writer is shared.
Call(m) ==
    /\ MayCall(m)
    /\ calls' = [calls EXCEPT ![m] = @ + 1]
    /\ IF Online
       THEN waiting' = waiting \union {[id |-> RequestId(m, calls'[m]), sock |-> entry.sock,
                                           dispatched |-> FALSE]}
            /\ UNCHANGED told
       ELSE told' = [told EXCEPT ![m] = "unavailable"] /\ UNCHANGED waiting
    /\ UNCHANGED <<hostVars, wireVars, entry, reserved, resumed, reading, known, moves,
                   faults>>

\* Mutant: a request counts as sent only once it is answered.
WrittenQuiet(w) == w
Written(w) == [w EXCEPT !.dispatched = TRUE]
Write ==
    \E w \in waiting :
      /\ ~w.dispatched /\ Online /\ w.sock = entry.sock
      /\ toHost' = [toHost EXCEPT ![w.sock] =
                      IF w.sock \in cut THEN @ ELSE Append(@, [type |-> "call", id |-> w.id])]
      /\ waiting' = (waiting \ {w}) \union {Written(w)}
      /\ UNCHANGED <<hostVars, toHub, cut, entry, reserved, resumed, reading, known, told,
                     calls, moves, faults>>

\* Ten seconds passed: before the write nothing happened, after it nobody knows.
TimeOut ==
    /\ Fault
    /\ \E w \in waiting :
         /\ waiting' = waiting \ {w}
         /\ told' = [told EXCEPT ![Message(w.id)] = Outcome(w)]
    /\ UNCHANGED <<hostVars, wireVars, entry, reserved, resumed, reading, known, calls,
                   moves>>

\* Cancelled halfway through the frame: the connection is unusable (Connection::poison).
Poison ==
    /\ Fault /\ Online
    /\ \E w \in waiting :
         /\ ~w.dispatched /\ w.sock = entry.sock
         /\ waiting' = waiting \ Lost(w.sock)
         /\ told' = [m \in Messages |->
                       IF \E x \in Lost(w.sock) : x.id \in Of(m)
                       THEN Outcome(CHOOSE x \in Lost(w.sock) : x.id \in Of(m)) ELSE told[m]]
    /\ entry' = [entry EXCEPT !.online = FALSE]
    /\ Close(entry.sock)
    /\ toHub' = [toHub EXCEPT ![entry.sock] = <<>>]
    /\ UNCHANGED <<hostVars, toHost, reserved, resumed, reading, known, calls, moves>>

(***************************************************************************)
(* The engine: a resumed session's history is read over the connection.    *)
(***************************************************************************)
ReadHistory ==
    /\ resumed /\ Online /\ ~reading
    /\ resumed' = FALSE /\ reading' = TRUE
    /\ toHost' = [toHost EXCEPT ![entry.sock] =
                    IF entry.sock \in cut THEN @ ELSE Append(@, [type |-> "history"])]
    /\ UNCHANGED <<hostVars, toHub, cut, entry, reserved, waiting, known, told, calls, moves,
                   faults>>

\* The network between the two is cut.
Cut ==
    /\ Fault /\ sock # 0 /\ sock \notin cut
    /\ Close(sock)
    /\ UNCHANGED <<hostVars, toHub, toHost, hubVars, calls, moves>>

Init ==
    /\ up = TRUE /\ inst = 1 /\ idle = TRUE /\ version = 0 /\ sock = 0 /\ registered = FALSE
    /\ sequence = 0 /\ chain = <<>> /\ sending = NotSending /\ queue = NewQueue
    /\ toHub = [s \in Sockets |-> <<>>] /\ toHost = [s \in Sockets |-> <<>>] /\ cut = {}
    /\ entry = NoEntry /\ reserved = 0 /\ waiting = {} /\ resumed = FALSE /\ reading = FALSE
    /\ known = 0 /\ told = [m \in Messages |-> ""]
    /\ calls = [m \in Messages \union {None} |-> 0] /\ moves = 0 /\ faults = 0 /\ sent = [id \in RequestIds |-> 0]
    /\ thrown = {}

Next ==
    \/ Connect \/ HostRead \/ HostClosed \/ Command \/ Pump \/ SendReturns \/ SendFails \/ Finish
    \/ UserTurn \/ ControlQueue \/ HostStops \/ Open
    \/ \E s \in Sockets : Accept(s)
    \/ Register \/ ReadFrame \/ StreamEnds
    \/ \E m \in Messages : Call(m)
    \/ Write \/ TimeOut \/ Poison \/ ReadHistory \/ Cut

Spec == Init /\ [][Next]_vars

(***************************************************************************)
(* Properties.                                                             *)
(***************************************************************************)
Quiet ==
    /\ up /\ Online /\ entry.sock = sock /\ sock \notin cut /\ registered
    /\ toHub[sock] = <<>> /\ toHost[sock] = <<>> /\ ~resumed /\ ~reading

(* No request's message is handed to the agent twice, whatever socket breaks, whichever     *)
(* process stops and however often its sender repeats it; and a prompt goes a second time,  *)
(* by another request, only after api.sendUserMessage threw for the first, whose caller     *)
(* heard of a refusal.  (Whether the agent had it already is not known then.)               *)
SentOnce ==
    /\ \A id \in RequestIds : sent[id] <= 1
    /\ \A m \in Messages : Cardinality({id \in Of(m) \ thrown : sent[id] > 0}) <= 1

(* A sender that was told "unavailable", and so may send again, has had no effect by that   *)
(* request: its message is neither with the agent nor in the queue, nor can it still get    *)
(* there.                                                                                   *)
UnavailableMeansNever ==
    \A m \in Messages :
      LET id == RequestId(m, calls[m])
      IN  told[m] = "unavailable" /\ ~(\E w \in waiting : w.id = id)
            /\ (m \in Queued => calls[m] <= 1)
          => /\ sent[id] = 0 /\ id \notin queue.receipts
             /\ \A n \in 1..Len(chain) : chain[n].id # id

(* When the connection has nothing more to say, the engine has seen the conversation as it  *)
(* is: an event that was dropped around a reconnection was made up for by the history.      *)
Informed == Quiet => known = version

BridgeHonest == SentOnce /\ UnavailableMeansNever
=============================================================================
