---------------------------- MODULE OpenCodeHost ----------------------------
(***************************************************************************)
(* The bridge inside OpenCode (opencode/runtime.mjs).                      *)
(*                                                                         *)
(* It follows the session the terminal shows, delivers prompts through the *)
(* native SDK, turns native events into the engine's events and shows      *)
(* permission requests and forms.  Every SDK call is awaited, and while it *)
(* is, the user may show another session, events arrive and commands run;  *)
(* "inst" (this.instance) is what a continuation compares.                 *)
(*                                                                         *)
(* A turn carries the name of the message that started it; "u" is a turn   *)
(* the user starts in the terminal.                                        *)
(***************************************************************************)
EXTENDS Naturals, FiniteSets, DurableQueue

CONSTANTS Sessions, First,   \* native sessions, the one shown at the start
          Prompts, Queued,   \* messages the engine sends
          Asks,              \* permission requests and forms
          MaxMoves,          \* bound: commands, native actions of the user, routes
          MaxFaults          \* bound: SDK calls that fail, connections lost

Messages == Prompts \union Queued
Turns == Messages \union {"u"}

VARIABLES
    \* OpenCode
    running,    \* session -> turns of its running execution
    log,        \* session -> turns of its transcript
    asks,       \* session -> requests that wait for an answer
    transit,    \* session.prompt calls OpenCode has not handled yet
    \* the bridge
    route, session, inst,
    get,        \* session open() asked for, None for no open in that phase
    seed,       \* open() waits for the history: [inst, turns, at]
    switching,  \* command "new" under way
    link,       \* the transport: "closed", "opening" or "live"
    events,     \* native events in this.events
    turn, active, announced, pending,
    queue,      \* session -> journal
    sends,      \* session.prompt calls awaited: [m, inst]
    fin,        \* finish() waits for the history: [inst, active, status]
    replay,     \* replayInteractions() waits: [inst, list, at]
    pump,       \* a pump is scheduled
    \* the engine's side and history
    shown, handed, asked, moves, faults

nativeVars == <<running, log, asks, transit>>
openVars == <<route, session, inst, get, seed, switching>>
turnVars == <<turn, active, announced>>
workVars == <<sends, fin, replay, pump>>
seenVars == <<shown, handed, asked>>
vars == <<nativeVars, openVars, link, events, turnVars, pending, queue, workVars, seenVars, moves,
          faults>>

NoSeed == [inst |-> 0, turns |-> {}, at |-> "none"]
NoFinish == [inst |-> 0, active |-> {}, status |-> ""]
NoReplay == [inst |-> 0, list |-> {}, at |-> "none"]

Move == moves < MaxMoves /\ moves' = moves + 1 /\ UNCHANGED faults
Fault == faults < MaxFaults /\ faults' = faults + 1 /\ UNCHANGED moves
Free == UNCHANGED <<moves, faults>>

Busy == running[session] # {}
Live == link = "live"
\* api.data.on: events of other sessions are not queued.
Notify(s, type, x) ==
    events' = IF s = session THEN Append(events, [s |-> s, type |-> type, x |-> x]) ELSE events

(***************************************************************************)
(* OpenCode.                                                               *)
(***************************************************************************)
NativePrompt(s, t) ==
    /\ running' = [running EXCEPT ![s] = @ \union {t}]
    /\ log' = [log EXCEPT ![s] = @ \union {t}]
    /\ Notify(s, "delivered", t)

NativeAccepts ==
    /\ \E c \in transit :
         /\ transit' = transit \ {c}
         /\ NativePrompt(c.s, c.m)
         /\ handed' = [handed EXCEPT ![c.m] = @ + 1]
    /\ UNCHANGED <<asks, openVars, link, turnVars, pending, queue, workVars, shown, asked>>
    /\ Free

UserPrompts ==
    /\ Move /\ ~\E s \in Sessions : "u" \in log[s]
    /\ NativePrompt(route, "u")
    /\ UNCHANGED <<asks, transit, openVars, link, turnVars, pending, queue, workVars, seenVars>>

NativeEnds ==
    /\ \E s \in Sessions, status \in {"completed", "interrupted"} :
         /\ running[s] # {} /\ asks[s] = {}
         /\ running' = [running EXCEPT ![s] = {}]
         /\ Notify(s, "ended", status)
    /\ UNCHANGED <<log, asks, transit, openVars, link, turnVars, pending, queue, workVars, seenVars>>
    /\ Free

NativeAsks ==
    /\ \E s \in Sessions, a \in Asks \ asked :
         /\ running[s] # {}
         /\ asks' = [asks EXCEPT ![s] = @ \union {a}]
         /\ asked' = asked \union {a}
         /\ Notify(s, "asked", a)
    /\ UNCHANGED <<running, log, transit, openVars, link, turnVars, pending, queue, workVars, shown,
                   handed>>
    /\ Free

\* The user answers in the terminal.
NativeReplies ==
    /\ \E s \in Sessions : \E a \in asks[s] :
         /\ asks' = [asks EXCEPT ![s] = @ \ {a}]
         /\ Notify(s, "replied", a)
    /\ UNCHANGED <<running, log, transit, openVars, link, turnVars, pending, queue, workVars,
                   seenVars>>
    /\ Free

(***************************************************************************)
(* Following the terminal.                                                 *)
(***************************************************************************)
\* The user shows another session.
Navigate ==
    /\ Move /\ switching = "no"
    /\ \E s \in Sessions \ {route} : route' = s
    /\ UNCHANGED <<nativeVars, session, inst, get, seed, switching, link, events, turnVars, pending,
                   queue, workVars, seenVars>>

\* refresh, polled, one at a time.
Refresh ==
    /\ get = None /\ seed.inst = 0 /\ switching = "no" /\ route # session
    /\ get' = route
    /\ UNCHANGED <<nativeVars, route, session, inst, seed, switching, link, events, turnVars, pending,
                   queue, workVars, seenVars>>
    /\ Free

\* open up to the history: the old transport is closed, everything kept for the old session
\* is dropped, the queue of the new one is restored.
OpenSession ==
    /\ get # None
    /\ get' = None
    /\ IF get # route
       THEN /\ switching' = "no"
            /\ UNCHANGED <<session, inst, seed, link, turnVars, pending, queue, shown>>
       ELSE /\ session' = get /\ inst' = inst + 1 /\ link' = "closed"
            /\ turn' = None /\ active' = {} /\ announced' = {} /\ pending' = {} /\ shown' = {}
            /\ queue' = [queue EXCEPT ![get] = Restore(@)]
            /\ seed' = [inst |-> inst + 1, turns |-> {}, at |-> "asked"]
            /\ UNCHANGED switching
    /\ UNCHANGED <<nativeVars, route, events, workVars, handed, asked>>
    /\ Free

SeedRead ==
    /\ seed.at = "asked"
    /\ seed' = [seed EXCEPT !.at = "read", !.turns = running[session]]
    /\ UNCHANGED <<nativeVars, route, session, inst, get, switching, link, events, turnVars, pending,
                   queue, workVars, seenVars>>
    /\ Free

\* open after the history: what it shows was announced before, what still runs is active.
Opened ==
    /\ seed.at = "read"
    /\ seed' = NoSeed /\ link' = "opening"
    /\ switching' = IF get = None THEN "no" ELSE switching
    /\ announced' = announced \union log[session]
    /\ active' = IF Busy THEN active \union seed.turns ELSE active
    /\ turn' = IF Busy /\ seed.turns # {} THEN CHOOSE t \in seed.turns : TRUE ELSE turn
    /\ UNCHANGED <<nativeVars, route, session, inst, get, events, pending, queue, workVars, seenVars>>
    /\ Free

\* The history failed: the session opens all the same.
OpenedBlind ==
    /\ seed.at = "asked" /\ Fault
    /\ seed' = NoSeed /\ link' = "opening" /\ switching' = IF get = None THEN "no" ELSE switching
    /\ UNCHANGED <<nativeVars, route, session, inst, get, events, turnVars, pending, queue, workVars,
                   seenVars>>

\* Mutant: requests that were made before the registration are not asked for.
ReplayNone == NoReplay
Replay == [inst |-> inst, list |-> {}, at |-> "asked"]
Registered ==
    /\ link = "opening"
    /\ link' = "live" /\ replay' = Replay
    /\ UNCHANGED <<nativeVars, openVars, events, turnVars, pending, queue, sends, fin, pump, seenVars>>
    /\ Free

LinkLost ==
    /\ Live /\ Fault
    /\ link' = "opening" /\ shown' = {}
    /\ UNCHANGED <<nativeVars, openVars, events, turnVars, pending, queue, workVars, handed,
                   asked>>

(***************************************************************************)
(* Interactions.                                                           *)
(***************************************************************************)
ReplayRead ==
    /\ replay.at = "asked"
    /\ replay' = [replay EXCEPT !.at = "read", !.list = asks[session]]
    /\ UNCHANGED <<nativeVars, openVars, link, events, turnVars, pending, queue, sends, fin, pump,
                   seenVars>>
    /\ Free

Show(list) ==
    /\ pending' = pending \union list
    /\ shown' = IF Live THEN shown \union list ELSE shown
Hide(a) ==
    /\ pending' = pending \ {a}
    /\ shown' = shown \ (IF Live THEN {a} ELSE {})

ReplayInteractions ==
    /\ replay.at = "read"
    /\ replay' = NoReplay
    /\ IF replay.inst = inst THEN Show(replay.list) ELSE UNCHANGED <<pending, shown>>
    /\ UNCHANGED <<nativeVars, openVars, link, events, turnVars, queue, sends, fin, pump, handed,
                   asked>>
    /\ Free

\* reply: the answer goes to OpenCode, which knows whether the request still waits.
Reply ==
    /\ Live /\ Move
    /\ \E a \in shown \intersect pending :
         IF a \in asks[session]
         THEN /\ asks' = [asks EXCEPT ![session] = @ \ {a}]
              /\ Notify(session, "replied", a) /\ Hide(a)
         ELSE UNCHANGED <<asks, events, pending, shown>>
    /\ UNCHANGED <<running, log, transit, openVars, link, turnVars, queue, workVars, handed,
                   asked>>

(***************************************************************************)
(* Turns.                                                                  *)
(***************************************************************************)
StartUser(t) ==
    IF t \in announced \union active THEN UNCHANGED turnVars
    ELSE turn' = t /\ active' = active \union {t} /\ announced' = announced \union {t}

\* event: one at a time; while finish() waits the next one waits too.
HandleEvent ==
    /\ events # <<>> /\ fin.inst = 0
    /\ LET e == Head(events)
       IN  IF e.s # session THEN UNCHANGED <<turnVars, fin, pending, shown>>
           ELSE \/ /\ e.type = "delivered" /\ StartUser(e.x)
                   /\ UNCHANGED <<fin, pending, shown>>
                \/ /\ e.type = "ended"
                   /\ fin' = IF active = {} THEN NoFinish
                             ELSE [inst |-> inst, active |-> active, status |-> e.x]
                   /\ UNCHANGED <<turnVars, pending, shown>>
                \/ /\ e.type = "asked" /\ Show({e.x}) /\ UNCHANGED <<turnVars, fin>>
                \/ /\ e.type = "replied" /\ Hide(e.x) /\ UNCHANGED <<turnVars, fin>>
    /\ events' = Tail(events)
    /\ UNCHANGED <<nativeVars, openVars, link, queue, sends, replay, pump, handed, asked>>
    /\ Free

\* finish after the history: in another session by now, it does nothing.
FinishTurns(q) ==
    /\ fin' = NoFinish
    /\ IF fin.inst # inst THEN UNCHANGED <<active, turn, queue, pump>>
       ELSE /\ active' = active \ fin.active /\ turn' = None
            /\ queue' = [queue EXCEPT ![session] = q] /\ pump' = TRUE
    /\ UNCHANGED <<nativeVars, openVars, link, events, announced, pending, sends, replay, shown,
                   handed, asked>>

Finish ==
    /\ fin.inst # 0
    /\ FinishTurns(Finished(queue[session], fin.status = "interrupted"))
    /\ Free

\* The history for the answer failed: the queue stops.
FinishBlind ==
    /\ fin.inst # 0 /\ Fault
    /\ FinishTurns(Finished(Pause(queue[session]), FALSE))

(***************************************************************************)
(* Deliveries.                                                             *)
(***************************************************************************)
Send(m, q) ==
    /\ queue' = [queue EXCEPT ![session] = q]
    /\ StartUser(m)
    /\ sends' = sends \union {[m |-> m, inst |-> inst]}
    /\ transit' = transit \union {[m |-> m, s |-> session]}

Pump ==
    /\ pump /\ pump' = FALSE
    /\ IF Busy \/ turn # None \/ Peek(queue[session]) = None
       THEN UNCHANGED <<queue, turnVars, sends, transit>>
       ELSE Send(Peek(queue[session]), Claim(queue[session]))
    /\ UNCHANGED <<running, log, asks, openVars, link, events, pending, fin, replay, seenVars>>
    /\ Free

\* command("prompt"): a repeated one gets its receipt.
Prompt ==
    /\ Live /\ Move
    /\ \E m \in Prompts :
         /\ m \notin queue[session].receipts /\ queue[session].uncertain = None
         /\ ~Busy /\ turn = None
         /\ ~\E s \in Sessions \ {session} : m \in queue[s].receipts
         /\ Send(m, Remember(queue[session], m))
    /\ UNCHANGED <<running, log, asks, openVars, link, events, pending, fin, replay, pump, seenVars>>

QueuePrompt ==
    /\ Live /\ Move
    /\ \E m \in Queued :
         /\ ~\E s \in Sessions \ {session} : m \in queue[s].receipts
         /\ queue' = [queue EXCEPT ![session] = Enqueue(@, m)]
    /\ pump' = TRUE
    /\ UNCHANGED <<nativeVars, openVars, link, events, turnVars, pending, sends, fin, replay, seenVars>>

\* send after the call: a failure leaves the delivery uncertain.
SendReturns ==
    /\ \E c \in sends :
         /\ ~\E d \in transit : d.m = c.m
         /\ sends' = sends \ {c}
    /\ UNCHANGED <<nativeVars, openVars, link, events, turnVars, pending, queue, fin, replay, pump,
                   seenVars>>
    /\ Free

SendFails ==
    /\ Fault
    /\ \E c \in sends :
         /\ sends' = sends \ {c}
         /\ transit' \in {transit, {d \in transit : d.m # c.m}}
         /\ queue' = IF c.inst = inst THEN [queue EXCEPT ![session] = MarkUncertain(@)] ELSE queue
    /\ UNCHANGED <<running, log, asks, openVars, link, events, turnVars, pending, fin, replay, pump,
                   seenVars>>

QueueClear ==
    /\ Live /\ Move /\ queue[session].uncertain # None
    /\ IF ~Busy THEN turn' = None /\ active' = {} ELSE UNCHANGED <<turn, active>>
    /\ queue' = [queue EXCEPT ![session] = Clear(@, ~Busy)]
    /\ UNCHANGED <<nativeVars, openVars, link, events, announced, pending, workVars, seenVars>>

QueueResume ==
    /\ Live /\ Move /\ queue[session].paused
    /\ queue' = [queue EXCEPT ![session] = Resume(@)]
    /\ pump' = TRUE
    /\ UNCHANGED <<nativeVars, openVars, link, events, turnVars, pending, sends, fin, replay, seenVars>>

\* command("stop"): OpenCode ends the execution in its own time.
Stop ==
    /\ Live /\ Move /\ Busy
    /\ queue' = [queue EXCEPT ![session] = Pause(@)]
    /\ UNCHANGED <<nativeVars, openVars, link, events, turnVars, pending, workVars, seenVars>>

(***************************************************************************)
(* command("new").                                                         *)
(***************************************************************************)
NewSession ==
    /\ Live /\ Move /\ switching = "no"
    /\ switching' = "asked"
    /\ queue' = [queue EXCEPT ![session] = Pause(@)]
    /\ UNCHANGED <<nativeVars, route, session, inst, get, seed, link, events, turnVars, pending,
                   workVars, seenVars>>

\* The old session is stopped, a session is created and shown; or one of these failed.
NewCreated ==
    /\ switching = "asked"
    /\ \/ /\ \E s \in Sessions \ {session} : log[s] = {} /\ route' = s /\ get' = s
          /\ switching' = "opening" /\ Free
       \/ /\ switching' = "no" /\ Fault /\ UNCHANGED <<route, get>>
    /\ UNCHANGED <<nativeVars, session, inst, seed, link, events, turnVars, pending, queue, workVars,
                   seenVars>>

Init ==
    /\ running = [s \in Sessions |-> {}] /\ log = [s \in Sessions |-> {}]
    /\ asks = [s \in Sessions |-> {}] /\ transit = {}
    /\ route = First /\ session = First /\ inst = 1 /\ get = None
    /\ seed = [inst |-> 1, turns |-> {}, at |-> "asked"] /\ switching = "no" /\ link = "closed"
    /\ events = <<>> /\ turn = None /\ active = {} /\ announced = {} /\ pending = {}
    /\ queue = [s \in Sessions |-> NewQueue]
    /\ sends = {} /\ fin = NoFinish /\ replay = NoReplay /\ pump = FALSE
    /\ shown = {} /\ handed = [m \in Messages |-> 0] /\ asked = {}
    /\ moves = 0 /\ faults = 0

\* The event chain runs before the event loop turns: nothing else happens in between.
Due == events # <<>> /\ fin.inst = 0

Next ==
    \/ HandleEvent
    \/ /\ ~Due
       /\ \/ NativeAccepts \/ UserPrompts \/ NativeEnds \/ NativeAsks \/ NativeReplies
          \/ Navigate \/ Refresh \/ OpenSession \/ SeedRead \/ Opened \/ OpenedBlind
          \/ Registered \/ LinkLost \/ ReplayRead \/ ReplayInteractions \/ Reply
          \/ Finish \/ FinishBlind \/ Pump \/ Prompt \/ QueuePrompt \/ SendReturns \/ SendFails
          \/ QueueClear \/ QueueResume \/ Stop \/ NewSession \/ NewCreated

Spec == Init /\ [][Next]_vars

(***************************************************************************)
(* Properties.                                                             *)
(***************************************************************************)
Settled ==
    /\ Live /\ events = <<>> /\ fin.inst = 0 /\ replay.at = "none" /\ get = None /\ seed.inst = 0
    /\ sends = {} /\ transit = {} /\ session = route

(* A message is handed to OpenCode at most once, whatever call fails or session is shown. *)
HandedOnce == \A m \in Messages : handed[m] <= 1

(* When the bridge has caught up, every request that waits in the session it follows is    *)
(* shown, those made while nobody was connected too.                                       *)
AsksShown == Settled => asks[session] \subseteq shown

(* When the bridge has caught up with an idle session no turn is left open, except one     *)
(* whose delivery the user was told is uncertain.                                          *)
NoTurnLeftOpen ==
    Settled /\ ~Busy => active \subseteq {queue[session].uncertain}

OpenCodeHonest == HandedOnce /\ AsksShown /\ NoTurnLeftOpen
=============================================================================
