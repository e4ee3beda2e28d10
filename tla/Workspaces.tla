----------------------------- MODULE Workspaces -----------------------------
(***************************************************************************)
(* Terminal workspaces: the browser of a terminal multiplexer in a         *)
(* conversation and the launch of an agent in a pane                       *)
(* (agentix-core/src/engine/workspace_flows.rs, workspace_picker.rs,       *)
(* agentix-multiplexer/src/lib.rs, the drivers agentix-tmux, agentix-rmux  *)
(* and agentix-rex, and the mutate of agentix-codex and agentix-bridge).   *)
(*                                                                         *)
(* The person at the keyboard starts and ends programs and closes panes    *)
(* while a list of them is on a card and while a launch is under way; each *)
(* command of a driver is a process of its own.  All agents run in the     *)
(* same directory, where telling their sessions apart is hardest.  The     *)
(* directory form is BoardFlows', the binding SessionBinding's.            *)
(***************************************************************************)
EXTENDS Naturals, Sequences, FiniteSets, SequencesExt

CONSTANTS
    Conversations, Agents,
    Drivers,            \* of "tmux", "rmux", "rex": the one that was detected
    Browsed,            \* where the conversations may be in the browser at the start
    None,
    MaxPanes, MaxLists, MaxMoves, MaxFaults

VARIABLES
    driver,
    panes,      \* the server's: what runs in a pane, in which session and window
    agents,     \* sessions of agents, in the order they were started
    selected,   \* multiplexer.selected: the agent of a conversation
    bound,      \* the attached session
    lists,      \* the lists that were sent, with the state of their Picker
    op,         \* a conversation's mutation
    moves, faults,
    harmed,     \* history: a program was disturbed that the last look had shown
    left,       \* history: panes left by creations that could not be configured
    astray      \* history: a launch was attached to another session, its own being there

vars == <<driver, panes, agents, selected, bound, lists, op, moves, faults, harmed, left, astray>>
server == <<driver, panes, agents>>
history == <<harmed, left, astray>>

Panes == 1..MaxPanes
Alive(p) == panes[p].runs \notin {"none", "gone"}
Shell(p) == panes[p].runs = "shell"
\* target: where a pane is to be made, <<0, 0>> for a launch; since: something was
\* started in the pane after the last look at it.
Idle == [at |-> "idle", pane |-> 0, target |-> <<0, 0>>, make |-> FALSE, agent |-> None,
         known |-> {}, todo |-> <<>>, since |-> FALSE]

Move == moves < MaxMoves /\ moves' = moves + 1
Fault == faults < MaxFaults /\ faults' = faults + 1

----------------------------------------------------------------------------
\* What discovery knows of the sessions of an agent.
Listed(k) == {s \in DOMAIN agents : agents[s].is = "up" /\ agents[s].agent = k}
Located(k, p) == {s \in Listed(k) : agents[s].located /\ agents[s].pane = p}

\* A session or window is there as long as a pane of it is.
SnapshotFromInventory == {p \in Panes : Alive(p)}
InSession(s) == {p \in SnapshotFromInventory : panes[p].home[1] = s}
InWindow(s, w) == {p \in SnapshotFromInventory : panes[p].home = <<s, w>>}

\* The buttons of the three levels.
Show(s, w) == [what |-> "show", home |-> <<s, w>>]
Create(s, w) == [what |-> "create", home |-> <<s, w>>]
AgentPicker(p) == {[what |-> "launch", pane |-> p, agent |-> k] : k \in Agents}
MultiplexerRootActions ==
    {Show(panes[p].home[1], 0) : p \in SnapshotFromInventory} \cup {Create(0, 0), Show(0, 0)}
MultiplexerSessionActions(s) ==
    {Show(s, panes[p].home[2]) : p \in InSession(s)} \cup {Create(s, 0), Show(0, 0)}
MultiplexerPaneActions(c, p) ==
    LET found == Located(selected[c], p)
    IN  IF found # {}
        THEN {[what |-> "attach", session |-> s] : s \in found \ {bound[c]}}
        ELSE IF Shell(p) THEN {[what |-> "choose", pane |-> p]} ELSE {}
MultiplexerSplitActions(s, w) == {Create(s, w), Show(s, 0)}

\* The first configured agent.
First == CHOOSE k \in Agents : TRUE
EnsureMultiplexerBackend(c) ==
    IF selected[c] # None THEN selected[c]
    ELSE IF bound[c] # 0 THEN agents[bound[c]].agent ELSE First

\* A list is a card for its rows and one for the rest (a Telegram list), sent one
\* after the other; each is known to the Picker only after it was sent.
List(c, k, controls) ==
    [conv |-> c, agent |-> k, controls |-> controls, sent |-> 0, open |-> {},
     spent |-> FALSE, old |-> FALSE]
Send(now, list) == Len(now) < MaxLists /\ lists' = Append(now, list)
SendWorkspacePicker(now, c, k, controls) == Send(now, List(c, k, controls))
ShowMultiplexerSession(now, c, s) ==
    SendWorkspacePicker(now, c, selected[c], MultiplexerSessionActions(s))
ShowMultiplexerWindow(now, c, s, w) ==
    SendWorkspacePicker(now, c, selected[c],
        UNION {MultiplexerPaneActions(c, p) : p \in InWindow(s, w)}
            \cup MultiplexerSplitActions(s, w))
\* The agents to launch are on a plain card.
ShowMultiplexerAgentPicker(now, c, p) ==
    Send(now, [List(c, selected[c], AgentPicker(p)) EXCEPT !.sent = 2])
\* A conversation has browsed to one of the levels of the pane that is there, or has not
\* begun.
Level(c, level) ==
    CASE level = "root" -> MultiplexerRootActions
      [] level = "session" -> MultiplexerSessionActions(1)
      [] level = "window" -> MultiplexerPaneActions(c, 1) \cup MultiplexerSplitActions(1, 1)
      [] level = "agents" -> AgentPicker(1)
Init ==
    /\ driver \in Drivers
    /\ panes = [p \in Panes |-> IF p = 1 THEN [runs |-> "shell", home |-> <<1, 1>>]
                                 ELSE [runs |-> "none", home |-> <<0, 0>>]]
    /\ agents = <<>>
    /\ \E browsed \in Browsed :
          /\ selected = [c \in Conversations |-> IF browsed[c] = "none" THEN None ELSE First]
          /\ lists = SetToSeq({
                [List(c, First, Level(c, browsed[c])) EXCEPT !.sent = 2, !.open = {1, 2}] :
                    c \in {d \in Conversations : browsed[d] # "none"}})
    /\ bound = [c \in Conversations |-> 0]
    /\ op = [c \in Conversations |-> Idle]
    /\ moves = 0 /\ faults = 0
    /\ harmed = FALSE /\ left = {} /\ astray = FALSE

\* A button works as long as the conversation stays attached as it was.
Outdated(now, c) ==
    [i \in DOMAIN now |-> [now[i] EXCEPT !.old = @ \/ now[i].conv = c]]

ShowMultiplexerRoot(c) ==
    /\ op[c] = Idle /\ Move
    /\ selected' = [selected EXCEPT ![c] = EnsureMultiplexerBackend(c)]
    /\ SendWorkspacePicker(lists, c, EnsureMultiplexerBackend(c), MultiplexerRootActions)
    /\ UNCHANGED <<server, bound, op, faults, history>>
SelectMultiplexerBackend(c, k) ==
    /\ op[c] = Idle /\ Move
    /\ selected' = [selected EXCEPT ![c] = k]
    /\ SendWorkspacePicker(lists, c, k, MultiplexerRootActions)
    /\ UNCHANGED <<server, bound, op, faults, history>>

\* A card that arrives when its list was already answered is cleared at once.
\* Mutant: the card is only noted for a later answer.
SendPickerCardLate(l) == [l EXCEPT !.sent = @ + 1, !.open = @ \cup {l.sent + 1}]
SendPickerCard(l) ==
    [l EXCEPT !.sent = @ + 1, !.open = IF l.spent THEN @ ELSE @ \cup {l.sent + 1}]
SendPickerView(i) ==
    /\ lists[i].sent < 2
    /\ lists' = [lists EXCEPT ![i] = SendPickerCard(@)]
    /\ UNCHANGED <<server, selected, bound, op, moves, faults, history>>
ClearWorkspacePicker(i) == [lists EXCEPT ![i].spent = TRUE, ![i].open = {}]

----------------------------------------------------------------------------
\* What a button asks for, answered from a new inventory.
HandleMultiplexerAction(i, c, a) ==
    LET now == ClearWorkspacePicker(i)
        s == a.home[1]
        w == a.home[2]
        refused == lists' = now /\ UNCHANGED op
    IN  CASE selected[c] # lists[i].agent -> refused
          [] a.what = "show" /\ s = 0 ->
                SendWorkspacePicker(now, c, selected[c], MultiplexerRootActions) /\ UNCHANGED op
          [] a.what = "show" /\ s # 0 /\ w = 0 ->
                IF InSession(s) = {} THEN refused
                ELSE ShowMultiplexerSession(now, c, s) /\ UNCHANGED op
          [] a.what = "show" /\ w # 0 ->
                IF InWindow(s, w) = {} THEN refused
                ELSE ShowMultiplexerWindow(now, c, s, w) /\ UNCHANGED op
          [] a.what = "create" ->
                /\ lists' = now
                /\ op' = [op EXCEPT ![c] = [Idle EXCEPT !.at = "prepare", !.make = TRUE,
                                                         !.target = a.home, !.agent = selected[c]]]
Press(i) ==
    LET c == lists[i].conv IN
    /\ op[c] = Idle /\ lists[i].sent > 0 /\ ~lists[i].spent /\ ~lists[i].old
    /\ \E a \in lists[i].controls :
          \/ /\ a.what \in {"show", "create"}
             /\ UNCHANGED <<selected, bound>>
             /\ HandleMultiplexerAction(i, c, a)
          \/ /\ a.what = "choose"
             /\ ShowMultiplexerAgentPicker(ClearWorkspacePicker(i), c, a.pane)
             /\ UNCHANGED <<selected, bound, op>>
          \/ /\ a.what = "attach"
             /\ bound' = [bound EXCEPT ![c] = a.session]
             /\ lists' = Outdated(ClearWorkspacePicker(i), c)
             /\ UNCHANGED <<selected, op>>
          \/ /\ a.what = "launch"
             /\ selected' = [selected EXCEPT ![c] = a.agent]
             /\ lists' = ClearWorkspacePicker(i)
             /\ op' = [op EXCEPT ![c] = [Idle EXCEPT !.at = "prepare", !.pane = a.pane,
                                                      !.agent = a.agent]]
             /\ UNCHANGED bound
    /\ UNCHANGED <<server, moves, faults, history>>

----------------------------------------------------------------------------
\* A mutation: prepared, the sessions there are noted, prepared again, carried out by
\* the driver command by command (todo), and, for a launch, waited for.
LaunchSteps ==
    CASE driver = "tmux" -> <<"look", "interrupt", "respawn", "locate">>
      [] driver = "rmux" -> <<"find", "interrupt", "respawn", "locate">>
      [] driver = "rex" -> <<"look", "look", "interrupt", "look", "type", "look", "enter">>
\* Rex, and rmux for a split, say when the pane closes as they create it.
CreateSteps(o) ==
    IF driver = "rex" \/ (driver = "rmux" /\ o.target[2] # 0) THEN <<"create", "locate">>
    ELSE <<"create", "configure", "locate">>

\* The target as the inventory shows it: an agent is launched in a shell only.
TargetExists(s, w) == s = 0 \/ (IF w = 0 THEN InSession(s) ELSE InWindow(s, w)) # {}
\* Mutant: whatever runs in the pane.
PrepareAny(o) == IF o.make THEN TargetExists(o.target[1], o.target[2]) ELSE Alive(o.pane)
Prepare(o) == IF o.make THEN TargetExists(o.target[1], o.target[2]) ELSE Shell(o.pane)
\* The sessions that were there before.
Known(o) == Listed(o.agent)
Mutate(c) ==
    LET o == op[c] IN
    /\ o.at \in {"prepare", "known", "execute"}
    /\ op' = [op EXCEPT ![c] =
          CASE o.at = "known" -> [o EXCEPT !.at = "execute", !.known = Known(o)]
            [] o.at # "known" /\ ~Prepare(o) -> Idle
            [] o.at = "prepare" /\ Prepare(o) -> [o EXCEPT !.at = "known"]
            [] o.at = "execute" /\ Prepare(o) ->
                  [o EXCEPT !.at = "driver", !.since = FALSE,
                            !.todo = IF o.make THEN CreateSteps(o) ELSE LaunchSteps]]
    /\ UNCHANGED <<server, selected, bound, lists, moves, faults, history>>

Doing(c, step) == op[c].at = "driver" /\ op[c].todo # <<>> /\ Head(op[c].todo) = step
Failed(c) == op' = [op EXCEPT ![c] = Idle]
Done(c) == op' = [op EXCEPT ![c].todo = Tail(@)]
\* A command hits what runs in the pane; after a look nothing may have been there.
Hit(c) == harmed' = (harmed \/ ((~Shell(op[c].pane)) /\ ~op[c].since))
\* The session of an agent that was ended, and one that is started.
Ended(p) ==
    [s \in DOMAIN agents |->
        IF agents[s].pane = p THEN [agents[s] EXCEPT !.is = "ended"] ELSE agents[s]]
Started(now, p, k) == Append(now, [pane |-> p, agent |-> k, is |-> "starting", located |-> FALSE])
\* Somebody starts something in the pane: whoever looked there does not know.
Unseen(ops, p) == [c \in Conversations |-> [ops[c] EXCEPT !.since = @ \/ ops[c].pane = p]]

Look(c) ==
    /\ \/ Doing(c, "look") /\ IF Shell(op[c].pane)
                              THEN op' = [op EXCEPT ![c].todo = Tail(@), ![c].since = FALSE]
                              ELSE Failed(c)
       \/ Doing(c, "find") /\ IF Alive(op[c].pane) THEN Done(c) ELSE Failed(c)
    /\ UNCHANGED <<server, selected, bound, lists, moves, faults, history>>
Interrupt(c) ==
    LET p == op[c].pane IN
    /\ Doing(c, "interrupt")
    /\ IF Alive(p)
       THEN /\ Done(c) /\ Hit(c)
            /\ panes' = [panes EXCEPT ![p].runs = IF @ = "user" THEN "shell" ELSE @]
       ELSE Failed(c) /\ UNCHANGED <<panes, harmed>>
    /\ UNCHANGED <<driver, agents, selected, bound, lists, moves, faults, left, astray>>
Respawn(c) ==
    LET p == op[c].pane IN
    /\ Doing(c, "respawn")
    /\ IF Alive(p)
       THEN /\ Hit(c)
            /\ op' = [Unseen(op, p) EXCEPT ![c].todo = Tail(@)]
            /\ panes' = [panes EXCEPT ![p].runs = "agent"]
            /\ agents' = Started(Ended(p), p, op[c].agent)
       ELSE Failed(c) /\ UNCHANGED <<panes, agents, harmed>>
    /\ UNCHANGED <<driver, selected, bound, lists, moves, faults, left, astray>>
\* Rex types the command into the shell and sends Enter.
LaunchInShell(c) ==
    LET p == op[c].pane IN
    /\ Doing(c, "type") \/ Doing(c, "enter")
    /\ IF ~Alive(p)
       THEN Failed(c) /\ UNCHANGED <<panes, agents, harmed>>
       ELSE /\ Hit(c)
            /\ IF Doing(c, "enter") /\ Shell(p)
               THEN /\ op' = [Unseen(op, p) EXCEPT ![c].todo = <<>>, ![c].at = "wait"]
                    /\ panes' = [panes EXCEPT ![p].runs = "agent"]
                    /\ agents' = Started(agents, p, op[c].agent)
               ELSE /\ op' = [op EXCEPT ![c].todo = Tail(@),
                                        ![c].at = IF Doing(c, "enter") THEN "wait" ELSE @]
                    /\ UNCHANGED <<panes, agents>>
    /\ UNCHANGED <<driver, selected, bound, lists, moves, faults, left, astray>>

\* A new pane; the command may be reported as failed although it was carried out.
CreatePane(c) ==
    LET s == op[c].target[1] w == op[c].target[2] IN
    /\ Doing(c, "create")
    /\ IF TargetExists(s, w)
       THEN \E p \in Panes :
               /\ panes[p].runs = "none" /\ (\A q \in Panes : q < p => panes[q].runs # "none")
               /\ panes' = [panes EXCEPT ![p] =
                     [runs |-> "shell", home |-> <<IF s = 0 THEN p ELSE s, IF w = 0 THEN p ELSE w>>]]
               /\ \/ op' = [op EXCEPT ![c].todo = Tail(@), ![c].pane = p] /\ UNCHANGED faults
                  \/ Fault /\ Failed(c)
       ELSE Failed(c) /\ UNCHANGED <<panes, faults>>
    /\ UNCHANGED <<driver, agents, selected, bound, lists, moves, history>>
\* A pane that cannot be told to close with its shell is removed again.
\* Mutant: it is forgotten.
RemovePaneNot(p) == UNCHANGED <<panes, agents>>
RemovePane(p) == panes' = [panes EXCEPT ![p].runs = "gone"] /\ agents' = Ended(p)
Configure(c) ==
    LET p == op[c].pane IN
    /\ Doing(c, "configure")
    /\ \/ Alive(p) /\ Done(c) /\ UNCHANGED <<panes, agents, faults, left>>
       \/ ~Alive(p) /\ Failed(c) /\ UNCHANGED <<panes, agents, faults, left>>
       \/ Alive(p) /\ Fault /\ Failed(c) /\ RemovePane(p)
          /\ left' = left \cup {q \in {p} : panes'[q].runs # "gone"}
       \/ Alive(p) /\ Fault /\ Failed(c) /\ UNCHANGED <<panes, agents, left>>
    /\ UNCHANGED <<driver, selected, bound, lists, moves, harmed, astray>>
\* The pane as the last listing shows it; a new one is offered to the agents.
LocationForPane(c) ==
    LET p == op[c].pane IN
    /\ Doing(c, "locate")
    /\ \/ (~Alive(p)) /\ Failed(c) /\ UNCHANGED <<lists, faults>>
       \/ Alive(p) /\ Fault /\ Failed(c) /\ UNCHANGED lists
       \/ Alive(p) /\ (~op[c].make) /\ op' = [op EXCEPT ![c].todo = <<>>, ![c].at = "wait"]
          /\ UNCHANGED <<lists, faults>>
       \/ Alive(p) /\ op[c].make /\ Failed(c) /\ ShowMultiplexerAgentPicker(lists, c, p)
          /\ UNCHANGED faults
    /\ UNCHANGED <<server, selected, bound, moves, history>>

----------------------------------------------------------------------------
\* The session a launch started: the new one in the pane or, as long as discovery
\* does not know where it runs, the only new one in the directory (Codex).
\* Mutant: any new one.
StartedSessionAny(o) == Listed(o.agent) \ o.known
StartedSession(o) ==
    LET there == Located(o.agent, o.pane) \ o.known
        new == {s \in Listed(o.agent) \ o.known : ~agents[s].located}
    IN  IF there # {} THEN there
        ELSE IF o.agent = "codex" /\ Cardinality(new) = 1 THEN new ELSE {}
Own(o) == {s \in Listed(o.agent) \ o.known : agents[s].pane = o.pane}
WaitForWorkspaceSession(c) ==
    LET found == StartedSession(op[c]) IN
    /\ op[c].at = "wait"
    /\ \/ \E s \in found :
             /\ bound' = [bound EXCEPT ![c] = s]
             /\ lists' = Outdated(lists, c)
             /\ astray' = (astray \/ (/\ agents[s].pane # op[c].pane
                                  /\ (Own(op[c]) # {} \/ op[c].agent # "codex")))
             /\ UNCHANGED faults
       \/ /\ found = {} /\ UNCHANGED <<bound, lists, astray>>
          /\ \/ ~Alive(op[c].pane) /\ UNCHANGED faults
             \/ Fault
    /\ Failed(c)
    /\ UNCHANGED <<server, selected, moves, harmed, left>>

----------------------------------------------------------------------------
\* The person at the keyboard, and discovery.
StartProgram(p) ==
    /\ Shell(p) /\ Move
    /\ op' = Unseen(op, p)
    /\ \/ panes' = [panes EXCEPT ![p].runs = "user"] /\ UNCHANGED agents
       \/ /\ panes' = [panes EXCEPT ![p].runs = "agent"]
          /\ \E k \in Agents : agents' = Started(agents, p, k)
    /\ UNCHANGED <<driver, selected, bound, lists, faults, history>>
EndProgram(p) ==
    /\ Alive(p) /\ Move
    /\ \/ (~Shell(p)) /\ panes' = [panes EXCEPT ![p].runs = "shell"]
       \/ panes' = [panes EXCEPT ![p].runs = "gone"]
    /\ agents' = Ended(p)
    /\ UNCHANGED <<driver, selected, bound, lists, op, faults, history>>
StartElsewhere(k) ==
    /\ Move
    /\ agents' = Started(agents, 0, k)
    /\ UNCHANGED <<driver, panes, selected, bound, lists, op, faults, history>>
Register(s) ==
    /\ agents[s].is = "starting"
    /\ agents' = [agents EXCEPT ![s].is = "up"]
    /\ UNCHANGED <<driver, panes, selected, bound, lists, op, moves, faults, history>>
DescendantLocations(s) ==
    /\ agents[s].is = "up" /\ agents[s].pane # 0 /\ ~agents[s].located
    /\ agents' = [agents EXCEPT ![s].located = TRUE]
    /\ UNCHANGED <<driver, panes, selected, bound, lists, op, moves, faults, history>>

Next ==
    \/ \E c \in Conversations :
          \/ ShowMultiplexerRoot(c)
          \/ \E k \in Agents : SelectMultiplexerBackend(c, k)
          \/ Mutate(c) \/ Look(c) \/ Interrupt(c) \/ Respawn(c) \/ LaunchInShell(c)
          \/ CreatePane(c) \/ Configure(c) \/ LocationForPane(c) \/ WaitForWorkspaceSession(c)
    \/ \E i \in DOMAIN lists : Press(i) \/ SendPickerView(i)
    \/ \E p \in Panes : StartProgram(p) \/ EndProgram(p)
    \/ \E k \in Agents : StartElsewhere(k)
    \/ \E s \in DOMAIN agents : Register(s) \/ DescendantLocations(s)
Spec == Init /\ [][Next]_vars

----------------------------------------------------------------------------
(***************************************************************************)
(* Properties                                                              *)
(***************************************************************************)
\* A launch ends or types into nothing that was there when its driver last looked at
\* the pane: programs and agents that somebody else, or another conversation, started
\* are safe except in the time between a look and the command after it (prepare, the
\* drivers' execute).  No list that was answered keeps a card with buttons, also one
\* that was still being sent (workspace_picker.rs).  A pane whose configuration failed
\* is left behind only when its removal fails too (execute).  And a launch is attached
\* to a session that runs elsewhere only while its own has not shown up
\* (started_session, mutate).
WorkspacesTrue ==
    /\ ~harmed
    /\ \A i \in DOMAIN lists : lists[i].spent => lists[i].open = {}
    /\ left = {}
    /\ ~astray
=============================================================================
