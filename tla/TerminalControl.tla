--------------------------- MODULE TerminalControl ---------------------------
(***************************************************************************)
(* Keys typed into the terminal of an agent (agentix-multiplexer           *)
(* native_control.rs, interactions.rs and terminal.rs over the drivers,    *)
(* and request_native_new, request_native_exit and checkout.rs of          *)
(* agentix-codex): /new and /exit are submitted to the Codex that a person *)
(* may be using at the same moment, a draft in its composer is cleared     *)
(* when the user agreed to that, and dialogs are answered by moving their  *)
(* selection.                                                              *)
(*                                                                         *)
(* A look shows what Codex has drawn; a key is handled after a while, but  *)
(* before the second look of its sender after it.  Text that arrives at    *)
(* once is held back by Codex as a paste, and Enter is part of it until it *)
(* has settled.                                                            *)
(***************************************************************************)
EXTENDS Naturals, Sequences

CONSTANTS
    None,
    Drafts,     \* what a person may type
    Polls,      \* whether every dialog is put on a card: terminal_interactions_enabled
    MaxLooks,   \* bound: looks of a loop (20, and 40 for a dialog)
    MaxMoves    \* bound: what the person, the agent and the user in IM do

VARIABLES
    cli,        \* the Codex in the pane
    keys,       \* sent, not handled yet
    owners,     \* clients that have the session, "own" is the one in the pane
    wanted,     \* registry: requested_switch
    card,       \* the draft on the card that asks to clear it
    offered,    \* the dialog on a card
    polls,
    op,         \* the command of the conversation, and the task /new has spawned
    moves,
    harmed      \* history: keys that hit something else than what was seen

vars == <<cli, keys, owners, wanted, card, offered, polls, op, moves, harmed>>

Procs == {"command", "task"}
Dialogs == {"checkout", "approval"}
Other(option) == IF option = "first" THEN "second" ELSE "first"
Still == [is |-> "none", text |-> None, by |-> None, seen |-> {}]
Idle == [do |-> "none", at |-> "idle", on |-> None, want |-> None, key |-> None, next |-> None,
         ready |-> None, looks |-> 0, moved |-> FALSE, begun |-> FALSE]

Init ==
    /\ cli \in [on : {TRUE}, view : {"composer"}, draft : {None} \cup Drafts, sel : {"first"},
                turn : BOOLEAN, paste : {Still}]
    /\ polls \in Polls
    /\ keys = <<>> /\ owners = {"own"} /\ wanted = FALSE /\ card = None /\ offered = None
    /\ op = [p \in Procs |-> Idle] /\ moves = 0 /\ harmed = {}

Move == moves < MaxMoves /\ moves' = moves + 1

\* Something else than p's own keys changed the screen.
Moved(p) ==
    [q \in Procs |-> IF q = p \/ op[q] = Idle THEN op[q] ELSE [op[q] EXCEPT !.moved = TRUE]]
Disturb(p) ==
    /\ op' = Moved(p)
    /\ keys' = [i \in DOMAIN keys |-> [keys[i] EXCEPT !.excused = @ \/ keys[i].by # p]]

----------------------------------------------------------------------------
(* Codex *)

Composer == cli.on /\ cli.view = "composer"
Typed(text) == IF cli.draft = None THEN text ELSE "mixed"

\* Enter in the composer: a command or a prompt.
Submit ==
    CASE cli.draft = None -> {cli}
      [] cli.draft = "/new" /\ cli.turn -> {[cli EXCEPT !.draft = None]}
      [] cli.draft = "/new" /\ ~cli.turn ->
            {[cli EXCEPT !.draft = None],
             [cli EXCEPT !.draft = None, !.view = "checkout", !.sel = "first"]}
      [] cli.draft = "/exit" -> {[cli EXCEPT !.on = FALSE]}
      [] OTHER -> {[cli EXCEPT !.draft = None, !.turn = TRUE]}
Pressed(k) ==
    CASE ~cli.on -> {cli}
      [] cli.on /\ k.press = "text" ->
            IF Composer
            THEN {[cli EXCEPT !.paste = [is |-> "held", seen |-> {},
                     by |-> IF k.excused THEN None ELSE k.by,
                     text |-> IF cli.paste.is = "held" THEN "mixed" ELSE k.want]]}
            ELSE {cli}
      [] cli.on /\ k.press = "Enter" ->
            IF ~Composer THEN {[cli EXCEPT !.view = "composer"]}
            ELSE IF cli.paste.is # "none" THEN {[cli EXCEPT !.draft = "mixed"]}
            ELSE Submit
      [] cli.on /\ k.press = "C-c" ->
            IF ~Composer THEN {[cli EXCEPT !.view = "composer"]}
            ELSE {[cli EXCEPT !.draft = None, !.on = cli.draft # None]}
      [] cli.on /\ k.press = "Escape" -> {[cli EXCEPT !.view = "composer"]}
      [] cli.on /\ k.press = "arrow" ->
            IF Composer THEN {cli} ELSE {[cli EXCEPT !.sel = Other(@)], cli}

\* The key does what it was sent for.
Fits(k) ==
    /\ cli.on
    /\ CASE k.press = "text" -> Composer /\ cli.draft = None
         [] k.press = "C-c" -> Composer /\ cli.draft = k.want
         [] k.press = "Enter" /\ k.on = "composer" ->
               Composer /\ cli.draft = k.want /\ cli.paste.is = "none"
               /\ (k.want = "/new" /\ cli.turn => k.begun)
         [] k.press = "Enter" /\ k.on # "composer" -> cli.view = k.on /\ cli.sel = k.want
         [] k.press \in {"arrow", "Escape"} -> cli.view = k.on

\* Text of somebody else, or that went astray, is held back: nobody can see it.
Hidden(k) == cli.paste.is # "none" /\ cli.paste.by # k.by

\* A turn starts after one was seen stopped.
Begins == cli'.turn /\ ~cli.turn

Handle ==
    /\ keys # <<>>
    /\ LET k == Head(keys) IN
       /\ harmed' = harmed \cup (IF k.excused \/ Hidden(k) \/ Fits(k) THEN {} ELSE {k.press})
       /\ cli' \in Pressed(k)
       /\ op' = [p \in Procs |-> [Moved(k.by)[p] EXCEPT !.begun = @ \/ (op[p] # Idle /\ Begins)]]
       /\ keys' = [i \in DOMAIN Tail(keys) |->
                     [keys[i + 1] EXCEPT !.excused = @ \/ keys[i + 1].by # k.by,
                                         !.begun = @ \/ Begins]]
       /\ wanted' = (wanted /\ ~(k.press = "Enter" /\ Composer /\ cli.draft = "/new"
                                   /\ cli' # cli /\ cli'.view = "composer" /\ ~cli.turn))
       /\ owners' = IF cli'.on THEN owners ELSE owners \ {"own"}
    /\ UNCHANGED <<card, offered, polls, moves>>

\* The paste is drawn, maybe after its sender gave up, and then it is over.
Draw ==
    /\ cli.on /\ cli.paste.is = "held"
    /\ cli' = [cli EXCEPT !.paste.is = "drawn", !.draft = Typed(cli.paste.text)]
    /\ Disturb(cli.paste.by)
    /\ UNCHANGED <<owners, wanted, card, offered, polls, moves, harmed>>
Settle ==
    /\ cli.on /\ cli.paste.is = "drawn" /\ cli' = [cli EXCEPT !.paste = Still]
    /\ UNCHANGED <<keys, owners, wanted, card, offered, polls, op, moves, harmed>>

----------------------------------------------------------------------------
(* What the drivers are asked for *)

Start(do, at) == [Idle EXCEPT !.do = do, !.at = at]
Clear(text) == [Start("clear", "look") EXCEPT !.want = text]
Answer(do, dialog, want) == [Start(do, "select") EXCEPT !.on = dialog, !.want = want]

----------------------------------------------------------------------------
(* Looks: what is seen decides on the next key *)

\* The dialog that is drawn.
ParseTerminalInteraction == IF cli.view \in Dialogs THEN cli.view ELSE None

Fail(o) == [o EXCEPT !.at = "failed"]
Key(o, press, on, want, next) ==
    [o EXCEPT !.at = "send", !.key = press, !.on = on, !.want = want, !.next = next,
              !.looks = 0, !.ready = None]
Again(o, ready) ==
    IF o.looks + 1 = MaxLooks THEN Fail(o) ELSE [o EXCEPT !.looks = @ + 1, !.ready = ready]

\* terminal_input: the draft is reported, or cleared when it is the confirmed one.
\* Mutant: whatever is there.
CodexTerminalInputAny(o) ==
    IF ~Composer THEN Fail(o) ELSE Key(o, "C-c", "composer", o.want, "cleared")
CodexTerminalInput(o) ==
    CASE ~Composer -> Fail(o)
      [] Composer /\ cli.draft = None -> [o EXCEPT !.at = "empty"]
      [] Composer /\ cli.draft # None /\ (o.do = "check" \/ cli.draft # o.want) ->
            [o EXCEPT !.at = "found", !.want = cli.draft]
      [] Composer /\ cli.draft # None /\ o.do = "clear" /\ cli.draft = o.want ->
            Key(o, "C-c", "composer", o.want, "cleared")
Cleared(o) == IF Composer /\ cli.draft = None THEN [o EXCEPT !.at = "empty"] ELSE Fail(o)

\* The cursor is where an empty prompt has it; then the whole input is read.
ValidateCodexPrompt(o) == IF Composer THEN [o EXCEPT !.at = "read"] ELSE Fail(o)
ReadDraft(o) ==
    IF Composer /\ cli.draft = None THEN Key(o, "text", "composer", o.do, "shown") ELSE Fail(o)
\* The command must be seen twice.  Mutant: once.
WaitForCodexCommandOnce(o) ==
    IF Composer /\ cli.draft = o.do THEN Key(o, "Enter", "composer", o.do, "finish")
    ELSE Again(o, None)
WaitForCodexCommand(o) ==
    IF Composer /\ cli.draft = o.do
    THEN IF o.ready = o.do THEN Key(o, "Enter", "composer", o.do, "finish") ELSE Again(o, o.do)
    ELSE Again(o, None)
FinishCodexNew(o) ==
    CASE Composer /\ cli.draft = None -> [o EXCEPT !.at = "idle"]
      [] Composer /\ cli.draft # None -> Again(o, None)
      [] ~Composer -> IF o.ready = ParseTerminalInteraction THEN [o EXCEPT !.at = "choice"]
                      ELSE Again(o, ParseTerminalInteraction)

\* A dialog: the option must be seen selected twice.  Mutant: once.
RespondOnce(o) ==
    CASE ParseTerminalInteraction # o.on -> Fail(o)
      [] cli.view = o.on /\ cli.sel = o.want -> Key(o, "Enter", o.on, o.want, "idle")
      [] cli.view = o.on /\ cli.sel # o.want ->
            [Key(o, "arrow", o.on, o.want, "select") EXCEPT !.looks = o.looks]
Respond(o) ==
    CASE ParseTerminalInteraction # o.on -> Fail(o)
      [] cli.view = o.on /\ o.want = "cancel" -> Key(o, "Escape", o.on, o.want, "idle")
      [] cli.view = o.on /\ o.want = cli.sel ->
            IF o.ready = cli.sel THEN Key(o, "Enter", o.on, o.want, "idle") ELSE Again(o, cli.sel)
      [] cli.view = o.on /\ o.want \notin {cli.sel, "cancel"} ->
            IF o.looks + 1 = MaxLooks THEN Fail(o)
            ELSE [Key(o, "arrow", o.on, o.want, "select") EXCEPT !.looks = o.looks + 1]

\* The original process must be the one in the foreground.
Snapshot(o) ==
    CASE ~cli.on -> Fail(o)
      [] cli.on /\ o.at = "look" -> CodexTerminalInput(o)
      [] cli.on /\ o.at = "cleared" -> Cleared(o)
      [] cli.on /\ o.at = "validate" -> ValidateCodexPrompt(o)
      [] cli.on /\ o.at = "read" -> ReadDraft(o)
      [] cli.on /\ o.at = "shown" -> WaitForCodexCommand(o)
      [] cli.on /\ o.at = "finish" -> FinishCodexNew(o)
      [] cli.on /\ o.at = "select" -> Respond(o)
Look(p) ==
    /\ op[p].at \in {"look", "cleared", "validate", "read", "shown", "finish", "select"}
    /\ \A i \in DOMAIN keys : p \notin keys[i].seen
    /\ cli.paste.is = "drawn" => p \notin cli.paste.seen
    /\ op' = [op EXCEPT ![p] = Snapshot([@ EXCEPT !.moved = FALSE])]
    /\ keys' = [i \in DOMAIN keys |-> [keys[i] EXCEPT !.seen = @ \cup {p}]]
    /\ cli' = [cli EXCEPT !.paste.seen = IF cli.paste.is = "drawn" THEN @ \cup {p} ELSE @]
    /\ UNCHANGED <<owners, wanted, card, offered, polls, moves, harmed>>

\* A key goes to the original process only; after Enter for /exit nothing is left to do.
SendKey(p) ==
    LET o == op[p] IN
    /\ o.at = "send"
    /\ IF cli.on
       THEN /\ keys' = Append(keys, [press |-> o.key, on |-> o.on, want |-> o.want, by |-> p,
                                     excused |-> o.moved, begun |-> o.begun, seen |-> {}])
            /\ op' = [op EXCEPT ![p].at =
                         IF o.do = "/exit" /\ o.key = "Enter" THEN "idle" ELSE o.next]
       ELSE op' = [op EXCEPT ![p] = Fail(@)] /\ UNCHANGED keys
    /\ UNCHANGED <<cli, owners, wanted, card, offered, polls, moves, harmed>>

----------------------------------------------------------------------------
(* Commands of the conversation *)

\* A command of the user, like a poll, comes after the keys of the one before were handled.
Ready == op["command"] = Idle /\ \A i \in DOMAIN keys : keys[i].by # "command"
Command(o) == op' = [op EXCEPT !["command"] = o]
Kept == UNCHANGED <<cli, keys, owners, polls, harmed>>

\* request_new_session, check_terminal_input: no command while a draft is to be confirmed.
RequestNewSession ==
    /\ Ready /\ Move /\ card = None /\ op["task"].at = "idle" /\ "own" \in owners
    /\ Command(Start("check", "look"))
    /\ Kept /\ UNCHANGED <<wanted, card, offered>>
ShowTerminalInput ==
    /\ op["command"].at = "found" /\ card' = op["command"].want /\ Command(Idle)
    /\ Kept /\ UNCHANGED <<wanted, offered, moves>>
\* resolve_terminal_input.
ResolveTerminalInput ==
    /\ Ready /\ card # None /\ Move /\ card' = None
    /\ \/ Command(Clear(card)) /\ owners = {"own"}
       \/ UNCHANGED op
    /\ Kept /\ UNCHANGED <<wanted, offered>>
\* No draft: a cleared one is looked for again, and /new gets its task.
RequestNativeNew ==
    LET o == op["command"] IN
    /\ o.at = "empty"
    /\ IF o.do = "clear" THEN Command(Start("check", "look"))
       ELSE op' = [op EXCEPT !["command"] = Idle,
                             !["task"] = IF owners = {"own"} THEN Start("/new", "turn")
                                         ELSE @]
    /\ Kept /\ UNCHANGED <<wanted, card, offered, moves>>
RequestNativeExit ==
    /\ Ready /\ Move /\ owners = {"own"}
    /\ Command(Start("/exit", "validate"))
    /\ Kept /\ UNCHANGED <<wanted, card, offered>>
\* The poller puts a dialog on a card; respond_interaction answers it.
InspectInteraction ==
    /\ polls /\ cli.on /\ keys = <<>> /\ ParseTerminalInteraction \notin {None, offered}
    /\ offered' = ParseTerminalInteraction
    /\ Kept /\ UNCHANGED <<wanted, card, op, moves>>
RespondInteraction ==
    /\ Ready /\ offered # None /\ Move /\ offered' = None
    /\ \E want \in {"first", "second", "cancel"} :
          IF ~polls /\ owners # {"own"} THEN UNCHANGED <<op, wanted>>
          ELSE /\ Command(Answer(IF polls THEN "answer" ELSE "checkout", offered, want))
               /\ wanted' = IF polls THEN wanted ELSE want # "cancel"
    /\ Kept /\ UNCHANGED card
\* A failed switch is told (SessionSwitchFailed) and no longer expected, if the client
\* is still the only one; the other failures are told.
Failed(p) ==
    /\ op[p].at = "failed" /\ op' = [op EXCEPT ![p] = Idle]
    /\ wanted' = (wanted /\ (op[p].do \notin {"/new", "checkout"} \/ owners # {"own"}))
    /\ cli' = [cli EXCEPT !.paste.by = IF @ = p THEN None ELSE @]
    /\ UNCHANGED <<keys, owners, polls, harmed, card, offered, moves>>
Done(p) ==
    /\ op[p].at = "idle" /\ op[p] # Idle /\ op' = [op EXCEPT ![p] = Idle]
    /\ Kept /\ UNCHANGED <<wanted, card, offered, moves>>

----------------------------------------------------------------------------
(* The task of /new *)

Task(o) == op' = [op EXCEPT !["task"] = o]

\* The turn is interrupted and must have stopped within 30 seconds.
\* Mutant: it is interrupted, which is all.
NextAfterInterrupt(o) == [o EXCEPT !.at = "client", !.begun = FALSE]
AfterTurn(o) ==
    IF cli.turn THEN [o EXCEPT !.at = "stop"] ELSE [o EXCEPT !.at = "client", !.begun = FALSE]
LatestTurnForSessionSwitch ==
    /\ op["task"].at \in {"turn", "stop"}
    /\ \/ Task(AfterTurn(op["task"]))
       \/ cli.turn /\ op["task"].at = "stop" /\ Task(Fail(op["task"]))
    /\ Kept /\ UNCHANGED <<wanted, card, offered, moves>>
\* The client must be the one there was; from here on its new session is expected.
SetNativeSessionSwitch ==
    /\ op["task"].at = "client"
    /\ IF owners = {"own"} THEN wanted' = TRUE /\ Task([op["task"] EXCEPT !.at = "validate"])
       ELSE UNCHANGED wanted /\ Task(Fail(op["task"]))
    /\ Kept /\ UNCHANGED <<card, offered, moves>>
\* Checkout choices get a card of their own unless every dialog has one.
RequestCheckoutChoice ==
    /\ op["task"].at = "choice" /\ Task(Idle)
    /\ offered' = IF polls THEN offered ELSE "checkout"
    /\ Kept /\ UNCHANGED <<wanted, card, moves>>

----------------------------------------------------------------------------
(* The person at the keyboard and the agent *)

\* A person types, submits, moves or answers; the agent asks; Codex is left.
Person ==
    /\ cli.on /\ Move
    /\ \/ Composer /\ cli' \in {[cli EXCEPT !.draft = Typed(d)] : d \in Drafts}
       \/ Composer /\ cli.draft # None /\ cli' = [cli EXCEPT !.draft = None]
       \/ cli.view = "composer" /\ cli' = [cli EXCEPT !.view = "approval", !.sel = "first"]
       \/ ~Composer /\ cli' \in {[cli EXCEPT !.sel = Other(@)], [cli EXCEPT !.view = "composer"]}
       \/ cli' = [cli EXCEPT !.on = FALSE]
    /\ owners' = IF cli'.on THEN owners ELSE owners \ {"own"}
    /\ Disturb(None)
    /\ UNCHANGED <<wanted, card, offered, polls, harmed>>
TurnStarts ==
    /\ cli.on /\ ~cli.turn /\ Move /\ cli' = [cli EXCEPT !.turn = TRUE]
    /\ op' = [p \in Procs |-> [op[p] EXCEPT !.begun = op[p] # Idle]]
    /\ keys' = [i \in DOMAIN keys |-> [keys[i] EXCEPT !.begun = TRUE]]
    /\ UNCHANGED <<owners, wanted, card, offered, polls, harmed>>
TurnEnds ==
    /\ cli.turn /\ cli' = [cli EXCEPT !.turn = FALSE]
    /\ UNCHANGED <<keys, owners, wanted, card, offered, polls, op, moves, harmed>>
\* Another client opens the session, or leaves it.
OtherClient ==
    /\ Move /\ owners' \in {owners \cup {"other"}, owners \ {"other"}} /\ owners' # owners
    /\ UNCHANGED <<cli, keys, wanted, card, offered, polls, op, harmed>>

Next ==
    \/ Handle \/ Draw \/ Settle
    \/ \E p \in Procs : Look(p) \/ SendKey(p) \/ Failed(p) \/ Done(p)
    \/ RequestNewSession \/ ShowTerminalInput \/ ResolveTerminalInput \/ RequestNativeNew
    \/ RequestNativeExit \/ InspectInteraction \/ RespondInteraction
    \/ LatestTurnForSessionSwitch \/ SetNativeSessionSwitch \/ RequestCheckoutChoice
    \/ Person \/ TurnStarts \/ TurnEnds \/ OtherClient
Spec == Init /\ [][Next]_vars

----------------------------------------------------------------------------
(***************************************************************************)
(* Properties                                                              *)
(***************************************************************************)
\* Unless somebody else touches the terminal after the last look, text is typed into an
\* empty composer only, Enter submits exactly the command that was asked for, and not
\* into a running turn, C-c clears exactly the draft the user agreed to lose and never
\* quits Codex, and a dialog is answered with the option that was chosen.
TerminalTrue == harmed = {}
=============================================================================
