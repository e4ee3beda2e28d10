----------------------------- MODULE ClaudeHost -----------------------------
(***************************************************************************)
(* The bridge beside Claude Code (claude/*.mjs).                           *)
(*                                                                         *)
(* A prompt is typed into the terminal pane Claude runs in: two checks of  *)
(* the screen, a paste, the Enter key, each a command of a multiplexer     *)
(* that may fail after it took effect.  (Or it is a channel notification   *)
(* that Claude acknowledges with a tool.)  What Claude does is learnt from *)
(* hook events that wait as files; receipts are appended to a journal.     *)
(* The user works at the same terminal.                                    *)
(***************************************************************************)
EXTENDS Naturals, Sequences, FiniteSets

CONSTANTS Messages,
          MaxMoves,   \* bound: prompts sent, things the user does
          MaxFaults   \* bound: failed commands and writes, timeouts, stops of the bridge

VARIABLES
    channel,    \* deliveryMode: through the channel instead of the terminal
    composer,   \* what Claude's input line holds: messages and the user's "draft"
    running,    \* Claude's turn, {} when idle
    line,       \* inputs submitted meanwhile
    inbox,      \* channel notifications Claude has not acknowledged
    mail,       \* mailbox: event files
    receipts, disk,  \* ClaudeSession.receipts and the journal
    waiters, active, \* ClaudeSession.waiters, .active
    sends,      \* deliveries under way: [m, at, aborted]
    told,       \* answers to the engine
    entered,    \* history: how often the bridge submitted a message
    reached,    \* history: messages Claude got, by anybody's hand
    mixed,      \* history: two messages were submitted as one
    moves, faults

claudeVars == <<composer, running, line, inbox, mail, reached>>
sessionVars == <<receipts, disk, waiters, active, told>>
vars == <<channel, claudeVars, sessionVars, sends, entered, mixed, moves, faults>>

Move == moves < MaxMoves /\ moves' = moves + 1 /\ UNCHANGED faults
Fault == faults < MaxFaults /\ faults' = faults + 1 /\ UNCHANGED moves
Free == UNCHANGED <<moves, faults>>

Unresolved == {m \in Messages : receipts[m] \in {"pending", "uncertain"}}
Put(m, state) == [receipts EXCEPT ![m] = state]

(***************************************************************************)
(* Claude and its user.                                                    *)
(***************************************************************************)
\* The Enter key.
Submit(input) ==
    /\ composer' = {}
    /\ reached' = reached \union (input \ {"draft"})
    /\ IF input = {} \/ running # {}
       THEN /\ line' = IF input = {} THEN line ELSE Append(line, input)
            /\ UNCHANGED <<running, mail>>
       ELSE /\ running' = input /\ UNCHANGED line
            /\ mail' = Append(mail, [hook |-> "UserPromptSubmit", input |-> input])

ClaudeStops ==
    /\ running # {} /\ mail' = Append(mail, [hook |-> "Stop", input |-> {}])
    /\ running' = {}
    /\ UNCHANGED <<channel, composer, line, inbox, reached, sessionVars, sends, entered, mixed>> /\ Free

ClaudeContinues ==
    /\ running = {} /\ line # <<>>
    /\ running' = Head(line) /\ line' = Tail(line)
    /\ mail' = Append(mail, [hook |-> "UserPromptSubmit", input |-> Head(line)])
    /\ UNCHANGED <<channel, composer, inbox, reached, sessionVars, sends, entered, mixed>> /\ Free

UserTypes ==
    /\ ~channel /\ Move /\ "draft" \notin composer
    /\ composer' = composer \union {"draft"}
    /\ UNCHANGED <<channel, running, line, inbox, mail, reached, sessionVars, sends, entered, mixed>>

UserSubmits ==
    /\ composer # {} /\ Submit(composer)
    /\ UNCHANGED <<channel, inbox, sessionVars, sends, entered, mixed>> /\ Free

\* The user clears the line, or agrees in the chat to have it cleared (delivery.draft).
ClearDraft ==
    /\ composer # {} /\ composer' = {}
    /\ UNCHANGED <<channel, running, line, inbox, mail, reached, sessionVars, sends, entered, mixed>>
    /\ Free

(***************************************************************************)
(* ClaudeSession.request("prompt").                                        *)
(***************************************************************************)
\* The receipt is in the journal before anything is typed.
Prompt ==
    /\ Move
    /\ \E m \in Messages :
         IF receipts[m] = "accepted" THEN told' = [told EXCEPT ![m] = "ok"]
                                          /\ UNCHANGED <<receipts, disk, waiters, sends>>
         ELSE /\ receipts[m] = "none" /\ active = {} /\ Unresolved = {}
              /\ receipts' = Put(m, "pending") /\ disk' = [disk EXCEPT ![m] = "pending"]
              /\ waiters' = waiters \union {m} /\ told' = [told EXCEPT ![m] = ""]
              /\ sends' = sends \union {[m |-> m, at |-> "check", aborted |-> FALSE]}
    /\ UNCHANGED <<channel, claudeVars, active, entered, mixed>>

\* The bridge presses Enter.
Press ==
    /\ Submit(composer) /\ UNCHANGED inbox
    /\ entered' = [m \in Messages |-> entered[m] + (IF m \in composer THEN 1 ELSE 0)]
    /\ mixed' = (mixed \/ Cardinality(composer \intersect Messages) > 1)

\* A command that is cut off or fails may have done its work.
Interrupted(ds) ==
    \/ UNCHANGED <<claudeVars, entered, mixed>>
    \/ /\ \E d \in ds : d.at = "paste" /\ composer' = composer \union {d.m}
       /\ UNCHANGED <<running, line, inbox, mail, reached, entered, mixed>>
    \/ (\E d \in ds : d.at = "wait") /\ Press

Abort(m) == {IF d.m = m THEN [d EXCEPT !.aborted = TRUE] ELSE d : d \in sends}

\* Nobody acknowledged in time; the state may not be saved, the journal then says pending.
TimeOut ==
    /\ Fault
    /\ \E m \in waiters :
         /\ waiters' = waiters \ {m} /\ receipts' = Put(m, "uncertain")
         /\ disk' \in {disk, [disk EXCEPT ![m] = "uncertain"]}
         /\ told' = [told EXCEPT ![m] = "uncertain"]
         /\ sends' = Abort(m) /\ Interrupted({d \in sends : d.m = m})
    /\ UNCHANGED <<channel, active>>

(***************************************************************************)
(* TerminalDelivery.send and what becomes of its errors.                   *)
(***************************************************************************)
\* Mutant: a message counts as sent only when the paste command has returned.
NotSentLate(d) == d.at \in {"check", "loaded", "paste"}
NotSent(d) == d.at \in {"check", "loaded"}

Failed(d) ==
    /\ sends' = sends \ {d}
    /\ IF d.m \notin waiters THEN UNCHANGED <<waiters, receipts, disk, told>>
       ELSE /\ waiters' = waiters \ {d.m}
            /\ receipts' = Put(d.m, IF NotSent(d) THEN "none" ELSE "uncertain")
            /\ disk' = [disk EXCEPT ![d.m] = receipts'[d.m]]
            /\ told' = [told EXCEPT ![d.m] = IF NotSent(d) THEN "not sent" ELSE "uncertain"]
    /\ UNCHANGED active

Step(d, at) == sends' = (sends \ {d}) \union {[d EXCEPT !.at = at]}

\* check: the line must be empty, before the text is loaded and again before the paste.
Check ==
    /\ ~channel
    /\ \E d \in sends :
         /\ d.at \in {"check", "loaded"}
         /\ IF composer # {} \/ d.aborted THEN Failed(d)
            ELSE Step(d, IF d.at = "check" THEN "loaded" ELSE "paste") /\ UNCHANGED sessionVars
    /\ UNCHANGED <<channel, claudeVars, entered, mixed>> /\ Free

Paste ==
    /\ \E d \in sends :
         /\ d.at = "paste"
         /\ IF d.aborted THEN Failed(d) /\ UNCHANGED composer
            ELSE composer' = composer \union {d.m} /\ Step(d, "wait") /\ UNCHANGED sessionVars
    /\ UNCHANGED <<channel, running, line, inbox, mail, reached, entered, mixed>> /\ Free

Enter ==
    /\ \E d \in sends :
         /\ d.at = "wait"
         /\ IF d.aborted THEN Failed(d) /\ UNCHANGED <<claudeVars, entered, mixed>>
            ELSE Press /\ sends' = sends \ {d} /\ UNCHANGED sessionVars
    /\ UNCHANGED channel /\ Free

CommandFails ==
    /\ Fault /\ ~channel
    /\ \E d \in sends : ~d.aborted /\ Failed(d) /\ Interrupted({d})
    /\ UNCHANGED channel

\* The error's receipt could not be saved: whatever happened, it counts as uncertain.
SaveFails ==
    /\ Fault
    /\ \E d \in sends :
         /\ NotSent(d) /\ d.m \in waiters /\ composer # {}
         /\ sends' = sends \ {d} /\ waiters' = waiters \ {d.m}
         /\ receipts' = Put(d.m, "uncertain") /\ told' = [told EXCEPT ![d.m] = "uncertain"]
    /\ UNCHANGED <<channel, claudeVars, disk, active, entered, mixed>>

(***************************************************************************)
(* Acknowledgements and hooks.                                             *)
(***************************************************************************)
Acknowledge(m, input) ==
    /\ receipts' = Put(m, "accepted") /\ disk' = [disk EXCEPT ![m] = "accepted"]
    /\ active' = input /\ waiters' = waiters \ {m}
    /\ told' = IF m \in waiters THEN [told EXCEPT ![m] = "ok"] ELSE told

\* ClaudeSession.hook.
Handle(event) ==
    IF event.hook = "Stop"
    THEN active' = {} /\ UNCHANGED <<receipts, disk, waiters, told>>
    ELSE IF active # {} THEN UNCHANGED sessionVars
    ELSE IF ~channel /\ \E m \in Unresolved : event.input = {m}
    THEN Acknowledge(CHOOSE m \in Unresolved : event.input = {m}, event.input)
    ELSE active' = event.input /\ UNCHANGED <<receipts, disk, waiters, told>>

\* poll: Mailbox.consume.
Hook ==
    /\ mail # <<>> /\ Handle(Head(mail)) /\ mail' = Tail(mail)
    /\ UNCHANGED <<channel, composer, running, line, inbox, reached, sends, entered, mixed>> /\ Free

\* ChannelDelivery.send: a notification Claude acknowledges when it comes to it.
Notify ==
    /\ channel
    /\ \E d \in sends :
         /\ inbox' = inbox \union {d.m} /\ sends' = sends \ {d}
         /\ entered' = [entered EXCEPT ![d.m] = @ + 1]
         /\ reached' = reached \union {d.m}
    /\ UNCHANGED <<channel, composer, running, line, mail, sessionVars, mixed>> /\ Free

\* agentix_acknowledge: refused while a turn runs and after the delivery was cleared.
ToolAcknowledge ==
    /\ running = {}
    /\ \E m \in inbox :
         /\ inbox' = inbox \ {m} /\ running' = {m}
         /\ IF receipts[m] \in {"pending", "uncertain"} /\ active = {}
            THEN Acknowledge(m, {m}) ELSE UNCHANGED sessionVars
    /\ UNCHANGED <<channel, composer, line, mail, reached, sends, entered, mixed>> /\ Free

\* queue_clear: the user has looked at the history.
QueueClear ==
    /\ active = {} /\ waiters = {} /\ \E m \in Messages : receipts[m] = "uncertain"
    /\ receipts' = [m \in Messages |-> IF receipts[m] = "uncertain" THEN "cleared" ELSE receipts[m]]
    /\ disk' = receipts'
    /\ UNCHANGED <<channel, claudeVars, waiters, active, told, sends, entered, mixed>> /\ Free

\* The bridge stops and starts again: what was pending is uncertain.  An event it was
\* handling may have been handled, its file is still there.
Restarted(saved) == [m \in Messages |-> IF saved[m] = "pending" THEN "uncertain" ELSE saved[m]]
Restart ==
    /\ Fault
    /\ \/ receipts' = Restarted(disk) /\ UNCHANGED disk
       \/ /\ mail # <<>> /\ Head(mail).hook # "Stop" /\ active = {} /\ ~channel
          /\ \E m \in Unresolved :
               /\ Head(mail).input = {m}
               /\ disk' = [disk EXCEPT ![m] = "accepted"] /\ receipts' = Restarted(disk')
    /\ active' = {} /\ waiters' = {} /\ sends' = {}
    /\ told' = [m \in Messages |-> IF m \in waiters THEN "uncertain" ELSE told[m]]
    /\ Interrupted({d \in sends : ~d.aborted})
    /\ UNCHANGED channel

Init ==
    /\ channel \in BOOLEAN
    /\ composer = {} /\ running = {} /\ line = <<>> /\ inbox = {} /\ mail = <<>> /\ reached = {}
    /\ receipts = [m \in Messages |-> "none"] /\ disk = receipts /\ waiters = {} /\ active = {}
    /\ told = [m \in Messages |-> ""] /\ sends = {}
    /\ entered = [m \in Messages |-> 0] /\ mixed = FALSE /\ moves = 0 /\ faults = 0

Next ==
    \/ ClaudeStops \/ ClaudeContinues \/ UserTypes \/ UserSubmits \/ ClearDraft
    \/ Prompt \/ TimeOut \/ Check \/ Paste \/ Enter \/ CommandFails \/ SaveFails
    \/ Hook \/ Notify \/ ToolAcknowledge \/ QueueClear \/ Restart

Spec == Init /\ [][Next]_vars

(***************************************************************************)
(* Properties.                                                             *)
(***************************************************************************)
(* A message the engine was told is not sent has not reached Claude, and is not waiting in *)
(* the input line for the user's next Enter.                                               *)
NotSentNever ==
    \A m \in Messages :
      told[m] = "not sent" => m \notin reached \union composer \union inbox

(* The bridge submits a message at most once, and never two messages as one. *)
EnteredOnce == ~mixed /\ \A m \in Messages : entered[m] <= 1

(* An accepted receipt, which answers every repetition of the request, is for a message     *)
(* Claude really got.                                                                       *)
AcceptedReached == \A m \in Messages : receipts[m] = "accepted" => m \in reached

ClaudeHonest == NotSentNever /\ EnteredOnce /\ AcceptedReached
=============================================================================
