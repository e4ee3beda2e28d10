-------------------------- MODULE SessionCommands --------------------------
(***************************************************************************)
(* The commands of an attached session, the pickers and the prompts beside *)
(* them (agentix-core/src/command.rs, session.rs, engine/session_flows.rs, *)
(* the session commands of agentix-codex/src/client.rs and                 *)
(* agentix-bridge/src/bridge.rs).                                          *)
(*                                                                         *)
(* A message of one conversation is taken, its command becomes the         *)
(* requests that its client makes, each of which may be refused or lose    *)
(* its answer, and the engine carries the result over into its tables and  *)
(* onto a card.  Meanwhile the host goes on: turns begin and end and       *)
(* another process takes a session over.  A message whose claim is         *)
(* released comes again.  /new is SessionSwitch's, /exit TerminalControl's,*)
(* the delivery of a prompt PromptDelivery's and the tables of a binding   *)
(* SessionBinding's: here each of them is one step.                        *)
(***************************************************************************)
EXTENDS Naturals, Sequences, FiniteSets, SequencesExt

CONSTANTS
    First, Other,       \* a session of Codex and one of a plugin's host
    Fresh,              \* the threads that Codex may start
    HostCommands,       \* what the plugin's host can do
    None, MaxMessages, MaxMoves     \* messages, failures and moves of the host together

VARIABLES
    running, turns,     \* the host: the turn that runs in a session, and how many began
    events,             \* what the host reported and the engine has not handled
    readOnly,           \* the sessions that another process writes
    bound,              \* the attached session
    active,             \* turns.active
    subscriptions, pendingResumes,      \* of the Codex client
    buttons,            \* the actions of cards that still work
    question,           \* session_inputs: the session whose new name was asked for
    offered,            \* the commands the last help named, and their session
    inbox, said,        \* the claim of a message and what it says
    work,               \* the message that is being handled
    moves,
    carried, repeated,  \* history: what the host did for a message, and did again
    made, adopted,      \* history: the message a thread was started for; the attached ones
    halfway, told       \* history: /clear stopped after its start; a failure was shown

vars == <<running, turns, events, readOnly, bound, active, subscriptions, pendingResumes, buttons,
          question, offered, inbox, said, work, moves,
          carried, repeated, made, adopted, halfway, told>>
host == <<running, turns, events, readOnly>>
tables == <<bound, active, subscriptions, pendingResumes>>
cards == <<buttons, question, offered>>
history == <<carried, repeated, made, adopted, halfway, told>>

Threads == {First, Other} \cup Fresh
Messages == 1..MaxMessages
Exists(s) == s \in Fresh => made[s] # None

----------------------------------------------------------------------------
\* What a message may say.  A plain text is a prompt, or the name that was asked for.
Commands(names, args) == [name : names, arg : args]
Plain == [name |-> "prompt", arg |-> None]
SessionCommand ==
    Commands({"compact", "fork", "fast", "diff", "skills", "review", "status", "mcp"}, {None})
    \cup Commands({"clear", "rename", "model", "reasoning"}, {None, "value"})
    \cup Commands({"plan"}, {None, "prompt"}) \cup Commands({"goal"}, {None, "set", "clear"})
Pressed == [name |-> "pressed", arg |-> None]

Capability == {"compact", "fork", "fast", "diff", "skills", "review", "status", "mcp", "clear",
               "rename", "model", "reasoning", "plan", "goal"}
Supports(s, name) == IF s = Other THEN name \in HostCommands ELSE name # "queue_control"

\* on: the session of the message; meant: that of the card or question it answers.
Idle == [at |-> "idle", msg |-> None, command |-> Plain, on |-> None, meant |-> None,
         todo |-> <<>>, fresh |-> None, turn |-> 0, error |-> None]
Asking(m, c, meant, todo) ==
    [Idle EXCEPT !.at = "asking", !.msg = m, !.command = c, !.on = bound, !.meant = meant,
                 !.todo = todo]
Card(m, c, meant, why) == [Asking(m, c, meant, <<>>) EXCEPT !.at = "card", !.error = why]

----------------------------------------------------------------------------
\* The requests a command makes, one after another.
AvailableModels == <<"model/list">>
ForkThread == <<"thread/fork">>
ModelCommand(arg) ==
    AvailableModels \o IF arg = None THEN <<"thread/read">> ELSE <<"thread/settings/update">>
ReasoningCommand(arg) ==
    <<"thread/read">> \o AvailableModels
    \o IF arg = None THEN <<>> ELSE <<"thread/settings/update">>
PlanCommand == <<"thread/read", "thread/settings/update">>
FastCommand == <<"thread/resume">> \o AvailableModels \o <<"thread/settings/update">>
\* The effort is carried over when the old session has one.
ClearCommand(arg) ==
    {<<"thread/resume", "thread/start">> \o name \o effort :
        name \in {IF arg = None THEN <<>> ELSE <<"thread/name/set">>},
        effort \in {<<>>, <<"thread/settings/update">>}}
RenameCommand == <<"thread/name/set">>
DiffCommand == <<"thread/read", "git">>
GoalCommand(arg) ==
    <<IF arg = None THEN "thread/goal/get"
      ELSE IF arg = "clear" THEN "thread/goal/clear" ELSE "thread/goal/set">>
SkillsCommand == <<"thread/read", "skills/list">>
ReviewCommand == <<"review/start">>
QuotaStatus == <<"account/rateLimits/read">>
StatusCommand == <<"thread/resume", "thread/goal/get">> \o QuotaStatus
McpCommand == <<"mcpServerStatus/list">>
BridgeCommand == <<"command">>
ListQueuedPrompts == <<"thread/queue/list">>
QueuePrompt == <<"thread/queue/add">> \o ListQueuedPrompts
ReadHistory == <<"thread/turns/list">>
ControlQueue == <<"queue_control">> \o ListQueuedPrompts

RunCodexCommand(c) ==
    CASE c.name = "compact" -> {<<"thread/compact/start">>}
      [] c.name = "fork" -> {ForkThread}
      [] c.name = "fast" -> {FastCommand}
      [] c.name = "clear" -> ClearCommand(c.arg)
      [] c.name = "diff" -> {DiffCommand}
      [] c.name = "rename" -> {RenameCommand}
      [] c.name = "model" -> {ModelCommand(c.arg)}
      [] c.name = "reasoning" -> {ReasoningCommand(c.arg)}
      [] c.name = "skills" -> {SkillsCommand}
      [] c.name = "plan" -> {PlanCommand}
      [] c.name = "goal" -> {GoalCommand(c.arg)}
      [] c.name = "review" -> {ReviewCommand}
      [] c.name = "status" -> {StatusCommand}
      [] c.name = "mcp" -> {McpCommand}
CommandRequests(s, c) == IF s = Other THEN {BridgeCommand} ELSE RunCodexCommand(c)

\* Only these are asked again, or fail in an ordinary way, when the answer is lost.
Reads == {"thread/read", "thread/turns/list", "thread/resume", "thread/goal/get", "model/list",
          "skills/list", "mcpServerStatus/list", "account/rateLimits/read", "thread/queue/list", "git"}
\* Doing these twice is not the same as doing them once.
Additive == {"thread/fork", "thread/start", "thread/compact/start", "review/start", "turn/start",
             "turn/steer", "thread/queue/add", "command"}
\* A failed answer that only makes the card poorer.
Ignored(r) ==
    \/ r \in Range(QuotaStatus)
    \/ r \in Range(ListQueuedPrompts) /\ work.command = Plain

----------------------------------------------------------------------------
Move == moves < MaxMoves /\ moves' = moves + 1

\* The claim of a message, and its end: completed, fenced or released to come again.
Take(m, c, next) ==
    /\ \/ inbox[m] = "new" /\ Move /\ \A n \in 1..(m - 1) : inbox[n] # "new"
       \/ inbox[m] = "released" /\ said[m] = c /\ UNCHANGED moves
    /\ said' = [n \in Messages |-> IF n = m THEN c
                                 ELSE IF inbox[n] \in {"done", "fenced"} THEN Pressed ELSE said[n]]
    /\ carried' = {x \in carried : inbox[x[1]] = "released"}
    /\ work' = next
    /\ inbox' = [inbox EXCEPT ![m] = IF next = Idle THEN "released" ELSE "claimed"]
    /\ UNCHANGED <<repeated, made, adopted, halfway, told>>
End(how) ==
    /\ inbox' = [inbox EXCEPT ![work.msg] = how]
    /\ work' = Idle

Init ==
    /\ running = [s \in Threads |-> 0] /\ turns = running /\ active = running
    /\ events = [s \in Threads |-> <<>>]
    /\ readOnly = {} /\ bound \in {First, Other, None}
    \* A name was asked for before the conversation came to the other session.
    /\ question = IF bound = Other THEN First ELSE None
    /\ subscriptions = {First, Other} /\ pendingResumes = {}
    /\ buttons = {} /\ offered = [on |-> None, names |-> {}]
    /\ inbox = [m \in Messages |-> "new"] /\ said = [m \in Messages |-> Pressed]
    /\ work = Idle /\ moves = 0
    /\ carried = {} /\ repeated = {} /\ made = [t \in Fresh |-> None] /\ adopted = {}
    /\ halfway = {} /\ told = {}

----------------------------------------------------------------------------
\* What is checked before a command reaches its client.
Refusal(c) ==
    CASE bound = None -> "unattached"
      [] bound \in readOnly -> "readOnly"
      [] bound \notin readOnly \cup {None} /\ ~Supports(bound, c.name) -> "unavailable"
      [] OTHER -> IF c.name \in {"clear", "plan"} /\ active[bound] # 0 THEN "busy"
                  ELSE IF c = [name |-> "rename", arg |-> None] THEN "question" ELSE None
RunSessionCommand(m, c, meant) ==
    LET why == Refusal(c) IN
    IF why # None THEN {Card(m, c, meant, why)}
    ELSE {Asking(m, c, meant, todo) : todo \in CommandRequests(bound, c)}

\* What becomes of an input for the attached session; Idle: an error, and it comes again.
ForSession(m, c, todo) ==
    IF bound = None THEN Idle
    ELSE IF bound \in readOnly THEN Card(m, c, None, "readOnly") ELSE Asking(m, c, None, todo)
SendPrompt ==
    IF active[bound] = 0 THEN <<"turn/start">>
    ELSE IF Supports(bound, "queue") THEN QueuePrompt ELSE <<"turn/steer">>
Attach(m, s) ==
    IF bound = s THEN Card(m, [name |-> "attach", arg |-> s], None, "attached")
    ELSE [Asking(m, [name |-> "attach", arg |-> s], None, <<"thread/resume">> \o ReadHistory)
              EXCEPT !.on = s]

\* The actions of the card that ends a command.
Action(on, name, arg) == [on |-> on, command |-> [name |-> name, arg |-> arg], of |-> work.msg]
ShowSessions ==
    {Action(s, "attach", s) : s \in {t \in Threads \ {bound} : Exists(t)}}
ShowQueue ==
    IF Supports(work.on, "queue_control") THEN {Action(work.on, "queue", "control")} ELSE {}
SessionCommandActions == {Action(work.on, work.command.name, "value")}
Actions ==
    CASE work.error = None /\ work.command.name = "sessions" -> ShowSessions
      [] work.error = None /\ work.command.name = "queue" -> ShowQueue
      [] work.error = None /\ work.command.name \in {"model", "reasoning"}
         /\ work.command.arg = None -> SessionCommandActions
      [] work.error = "rejected" /\ work.command.name = "attach" ->
            {Action(work.on, "attach", work.on)}
      [] OTHER -> {}

AppendCommandHelp(names) == {n \in names : n \in Capability => Supports(bound, n)}
AvailableCommands ==
    IF bound \in readOnly \cup {None} THEN {}
    ELSE AppendCommandHelp({"steer"} \cup Capability)

----------------------------------------------------------------------------
\* A message is taken.
Command(m) ==
    /\ \E c \in SessionCommand : \E w \in RunSessionCommand(m, c, None) :
          /\ Take(m, c, w)
          /\ question' = IF w.error = "question" THEN bound ELSE question
    /\ UNCHANGED <<host, tables, buttons, offered>>
Prompt(m) ==
    /\ question = None
    /\ Take(m, Plain, ForSession(m, Plain, IF bound = None THEN <<>> ELSE SendPrompt))
    /\ UNCHANGED <<host, tables, cards>>
\* The question is taken before its session is compared with the attached one.
ReplyName(m) ==
    /\ question # None /\ question' = None
    /\ \E w \in IF bound = question
                THEN RunSessionCommand(m, [name |-> "rename", arg |-> "value"], question)
                ELSE {Idle} : Take(m, Plain, w)
    /\ UNCHANGED <<host, tables, buttons, offered>>
SteerCurrent(m) ==
    /\ Take(m, [name |-> "steer", arg |-> None],
            LET w == ForSession(m, Plain, <<"turn/steer">>)
            IN  IF w.at = "asking" /\ active[bound] = 0 THEN Idle ELSE w)
    /\ UNCHANGED <<host, tables, cards>>
QueueCommand(m) ==
    /\ \E c \in Commands({"queue"}, {None, "control"}) :
          Take(m, c, ForSession(m, c, IF c.arg = None THEN ListQueuedPrompts ELSE ControlQueue))
    /\ UNCHANGED <<host, tables, cards>>
ShowHelp(m) ==
    /\ LET c == [name |-> "help", arg |-> None] IN Take(m, c, Card(m, c, None, None))
    /\ offered' = [on |-> bound, names |-> AvailableCommands]
    /\ UNCHANGED <<host, tables, buttons, question>>
ShowSessionsFiltered(m) ==
    /\ LET c == [name |-> "sessions", arg |-> None] IN Take(m, c, Card(m, c, None, None))
    /\ UNCHANGED <<host, tables, cards>>
\* These only read, also when another process writes.
ShowView(m, name, todo, turn) ==
    /\ LET c == [name |-> name, arg |-> None] IN
       Take(m, c, IF bound = None THEN Idle ELSE [Asking(m, c, None, todo) EXCEPT !.turn = turn])
    /\ UNCHANGED <<host, tables, cards>>
ShowCurrent(m) == ShowView(m, "current", <<>>, 0)
ShowHistory(m) == ShowView(m, "history", ReadHistory, 0)
\* The turn that is known to run is shown without asking.
ShowLast(m) ==
    IF bound \in readOnly \cup {None} THEN ShowView(m, "last", ReadHistory, 0)
    ELSE ShowView(m, "last", IF active[bound] = 0 THEN ReadHistory ELSE <<>>, active[bound])
AttachCommand(m) ==
    /\ \E s \in {First, Other} : Take(m, [name |-> "attach", arg |-> s], Attach(m, s))
    /\ UNCHANGED <<host, tables, cards>>
\* A token counts once: a press that failed does not come again.
Press(m, b) ==
    /\ inbox[m] = "new"
    /\ \E w \in CASE b.command.name = "attach" -> {Attach(m, b.on)}
                  [] b.command.name # "attach" /\ b.on # bound -> {Idle}
                  [] b.command.name = "queue" /\ b.on = bound ->
                        {ForSession(m, b.command, ControlQueue)}
                  [] OTHER -> RunSessionCommand(m, b.command, b.on) : Take(m, Pressed, w)
    /\ buttons' = {o \in buttons : o.of # b.of}
    /\ UNCHANGED <<host, tables, question, offered>>

----------------------------------------------------------------------------
\* A request reaches the host.  It refuses to steer a turn that has ended, and a review
\* while a turn runs.
Acceptable(r) ==
    CASE r = "turn/steer" -> running[work.on] # 0 /\ running[work.on] = active[work.on]
      [] r = "review/start" -> running[work.on] = 0
      [] OTHER -> TRUE
Begins(s) ==
    /\ turns' = [turns EXCEPT ![s] = @ + 1]
    /\ running' = [running EXCEPT ![s] = turns'[s]]
    /\ events' = [events EXCEPT ![s] = Append(@, <<"started", turns'[s]>>)]
CarryOut(r) ==
    /\ Acceptable(r)
    /\ IF r \in {"turn/start", "review/start"} /\ running[work.on] = 0 THEN Begins(work.on)
       ELSE UNCHANGED <<running, turns, events>>
    /\ IF r \in {"thread/fork", "thread/start"}
       THEN \E t \in Fresh : made[t] = None /\ made' = [made EXCEPT ![t] = work.msg]
       ELSE UNCHANGED made
    /\ carried' = carried \cup {<<work.msg, r>>}
    /\ repeated' = repeated \cup {x \in carried : x = <<work.msg, r>> /\ r \in Additive}
\* These have no card of their own for a failure.
Direct == work.command.name \in {"prompt", "queue", "history", "last"}
Failing(r, why) ==
    \/ /\ Ignored(r)
       /\ work' = [work EXCEPT !.todo = Tail(@)]
       /\ UNCHANGED <<inbox, halfway>>
    \/ /\ ~Ignored(r) /\ Direct
       /\ End(IF why = "uncertain" THEN "fenced" ELSE "released")
       /\ UNCHANGED halfway
    \/ /\ ~Ignored(r) /\ ~Direct
       /\ work' = [work EXCEPT !.at = "card", !.error = why]
       /\ halfway' = halfway \cup IF work.fresh = None THEN {} ELSE {work.msg}
       /\ UNCHANGED inbox

Asked(r) == work.at = "asking" /\ work.todo # <<>> /\ r = Head(work.todo)
Answer(r) ==
    /\ Asked(r) /\ CarryOut(r)
    /\ work' = [work EXCEPT
          !.todo = Tail(@),
          !.fresh = IF made' = made THEN @ ELSE CHOOSE t \in Fresh : made'[t] # made[t],
          !.turn = IF r \in {"turn/start", "review/start", "turn/steer", "thread/turns/list"}
                   THEN running'[work.on] ELSE @]
    /\ UNCHANGED <<readOnly, tables, cards, inbox, said, moves, adopted, halfway, told>>
Refused(r) ==
    /\ Asked(r) /\ (Move \/ (~Acceptable(r) /\ UNCHANGED moves))
    /\ Failing(r, "rejected")
    /\ UNCHANGED <<host, tables, cards, said, carried, repeated, made, adopted, told>>
Lost(r) ==
    /\ Asked(r) /\ Move
    /\ \/ CarryOut(r)
       \/ UNCHANGED <<running, turns, events, carried, repeated, made>>
    /\ Failing(r, IF r \in Reads THEN "rejected" ELSE "uncertain")
    /\ UNCHANGED <<readOnly, tables, cards, said, adopted, told>>

----------------------------------------------------------------------------
\* All requests were answered.
Bind(s) ==
    /\ bound' = s
    /\ adopted' = adopted \cup {s}
    /\ buttons' = IF s = bound THEN buttons ELSE {}     \* their binding epoch has passed
StartPrompt ==
    /\ work.command = Plain /\ work.turn # 0
    /\ active' = [active EXCEPT ![work.on] = work.turn]
    /\ pendingResumes' = pendingResumes \ {work.on}
    /\ End("done")
    /\ UNCHANGED <<bound, subscriptions, buttons, adopted>>
FinishAttachment ==
    /\ work.command.name = "attach"
    /\ Bind(work.on)
    /\ subscriptions' = subscriptions \cup {work.on}
    /\ work' = [work EXCEPT !.at = "card"]
    /\ UNCHANGED <<active, pendingResumes, inbox>>
ReplacementResult ==
    /\ work.fresh # None
    /\ subscriptions' = subscriptions \cup {work.fresh}
    /\ pendingResumes' = pendingResumes \cup IF work.command.name = "clear" THEN {work.fresh} ELSE {}
    /\ \/ /\ Bind(work.fresh)
          /\ work' = [work EXCEPT !.at = "card", !.on = work.fresh]
          /\ UNCHANGED <<inbox, moves>>
       \/ /\ Move /\ End("fenced")
          /\ UNCHANGED <<bound, buttons, adopted>>
    /\ UNCHANGED active
LastTurn == [active EXCEPT ![work.on] = work.turn]
ShowResult ==
    /\ work.fresh = None /\ work.command.name # "attach" /\ ~(work.command = Plain /\ work.turn # 0)
    /\ active' = IF work.command.name = "last" \/ (work.turn # 0 /\ work.command.name # "history")
                 THEN LastTurn ELSE active
    /\ work' = [work EXCEPT !.at = "card"]
    /\ UNCHANGED <<bound, subscriptions, pendingResumes, buttons, adopted, inbox>>
Finish ==
    /\ work.at = "asking" /\ work.todo = <<>>
    /\ \/ (StartPrompt \/ FinishAttachment \/ ShowResult) /\ UNCHANGED moves
       \/ ReplacementResult
    /\ UNCHANGED <<host, question, offered, said, carried, repeated, made, halfway, told>>

\* The card at the end.  The prompt that came with /plan follows it.
Continue ==
    IF work.command = [name |-> "plan", arg |-> "prompt"] /\ work.error = None
    THEN work' = ForSession(work.msg, Plain, SendPrompt) /\ UNCHANGED inbox
    ELSE End("done")
SendView ==
    /\ work.at = "card"
    /\ buttons' = buttons \cup Actions
    /\ told' = told \cup IF work.error \in {"rejected", "uncertain"}
                       THEN {work.msg} \cap Range(made) ELSE {}
    /\ active' = IF work.command.name = "attach" /\ work.error = None THEN LastTurn ELSE active
    /\ Continue
    /\ UNCHANGED <<host, bound, subscriptions, pendingResumes, question, offered, said, moves,
                   carried, repeated, made, adopted, halfway>>
SendViewFails ==
    /\ work.at = "card" /\ Move
    /\ IF work.error = None /\ (work.command = Plain \/ work.command.name \in Capability)
       THEN Continue
       ELSE End(IF work.error = "uncertain" THEN "fenced" ELSE "released")
    /\ UNCHANGED <<host, tables, cards, said, history>>

----------------------------------------------------------------------------
\* Meanwhile.
BeginElsewhere(s) ==
    /\ Exists(s) /\ running[s] = 0 /\ Move
    /\ Begins(s)
    /\ UNCHANGED <<readOnly, tables, cards, inbox, said, work, history>>
EndTurn(s) ==
    /\ running[s] # 0
    /\ running' = [running EXCEPT ![s] = 0]
    /\ events' = [events EXCEPT ![s] = Append(@, <<"completed", running[s]>>)]
    /\ UNCHANGED <<turns, readOnly, tables, cards, inbox, said, work, moves, history>>
TakeOver(s) ==
    /\ Exists(s) /\ s \notin readOnly /\ Move
    /\ readOnly' = readOnly \cup {s}
    /\ offered' = IF offered.on = s THEN [on |-> None, names |-> {}] ELSE offered
    /\ UNCHANGED <<running, turns, events, tables, buttons, question, inbox, said, work, history>>
TryResumePendingSession(s) ==
    /\ s \in pendingResumes /\ turns[s] # 0
    /\ pendingResumes' = pendingResumes \ {s}
    /\ UNCHANGED <<host, bound, active, subscriptions, cards, inbox, said, work, moves,
                   history>>
\* The sessions of a message are reserved for it, and where a new one may come of it
\* those of its backend.
Reserved(s) ==
    /\ work.at # "idle"
    /\ s \in {work.on, bound} \/ (work.command.name \in {"fork", "clear"} /\ s # Other)
HandleAgentEvent(s) ==
    /\ events[s] # <<>> /\ ~Reserved(s)
    /\ events' = [events EXCEPT ![s] = Tail(@)]
    /\ LET e == Head(events[s]) IN
       active' = CASE e[1] = "started" /\ s = bound -> [active EXCEPT ![s] = e[2]]
                   [] e[1] = "completed" /\ active[s] = e[2] -> [active EXCEPT ![s] = 0]
                   [] OTHER -> active
    /\ UNCHANGED <<running, turns, readOnly, bound, subscriptions, pendingResumes, cards, inbox, said,
                   work, moves, history>>

Handle(m) ==
    /\ work.at = "idle"
    /\ inbox[m] \in {"new", "released"}
    /\ \/ Command(m) \/ Prompt(m) \/ ReplyName(m) \/ SteerCurrent(m) \/ QueueCommand(m)
       \/ ShowHelp(m) \/ ShowSessionsFiltered(m) \/ AttachCommand(m)
       \/ ShowCurrent(m) \/ ShowHistory(m) \/ ShowLast(m)
       \/ \E b \in buttons : Press(m, b)

Next ==
    \/ \E m \in Messages : Handle(m)
    \/ \E r \in Range(work.todo) : Answer(r) \/ Refused(r) \/ Lost(r)
    \/ Finish \/ SendView \/ SendViewFails
    \/ \E s \in Threads : BeginElsewhere(s) \/ EndTurn(s) \/ HandleAgentEvent(s)
    \/ \E s \in Threads \ {Other} : TakeOver(s) \/ TryResumePendingSession(s)
Spec == Init /\ [][Next]_vars

----------------------------------------------------------------------------
(***************************************************************************)
(* Properties                                                              *)
(***************************************************************************)
\* What adds something is done once for a message, however often it comes again, unless
\* /clear was stopped after its start (handle_inbound).  An answer to a card or a
\* question goes to the session it was about (handle_action, handle_text).  A turn that
\* counts as active runs, or its end is still to be handled (set_active).  The attached
\* session is subscribed to (replacement_result).  The prompt of /plan goes out only
\* after the mode was set (run_session_command).  No new thread is left without a word:
\* it was attached, or its message failed visibly or may come again.  And what a help
\* names is not refused while the session is as it was (available_commands).
CommandsTrue ==
    /\ \A x \in repeated : x[2] = "thread/start" /\ x[1] \in halfway
    /\ work.at = "asking" /\ work.meant # None => work.on = work.meant
    /\ \A s \in Threads : active[s] # 0 =>
          running[s] = active[s] \/ <<"completed", active[s]>> \in Range(events[s])
    /\ bound # None => bound \in subscriptions
    /\ \A m \in Messages :
          said[m] = [name |-> "plan", arg |-> "prompt"] /\ <<m, "turn/start">> \in carried
              => <<m, "thread/settings/update">> \in carried
    /\ \A t \in Fresh \ adopted : made[t] # None =>
          \/ work.msg = made[t] \/ made[t] \in told \cup halfway
          \/ inbox[made[t]] \in {"fenced", "released"}
    /\ work.error \in {"readOnly", "unavailable"} =>
          ~(offered.on = work.on /\ work.command.name \in offered.names)
=============================================================================
