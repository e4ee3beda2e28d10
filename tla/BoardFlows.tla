----------------------------- MODULE BoardFlows -----------------------------
(***************************************************************************)
(* Task and Issue cards, forms and terminal workspaces in a conversation   *)
(* (agentix-core/src/engine/task_board.rs, task_board/, issue_flows.rs,    *)
(* workspace_flows.rs, workspace_directories.rs, workspace_picker.rs).     *)
(*                                                                         *)
(* The model follows one conversation that several people may write in, a  *)
(* Task and an Issue.  A card carries the revision and the session it was  *)
(* drawn for; a button of it may be pressed, and a form it opened may be   *)
(* answered, long after the record, the attachment or the connection       *)
(* changed.  What a card says is left out; so are the Jobs of an Issue.    *)
(***************************************************************************)
EXTENDS Naturals

CONSTANTS
    Owners,             \* who draws cards; a button works for nobody else
    Writers,            \* who may type in the conversation
    Sessions, Nobody,
    MaxRevision,        \* bound on the changes of a record
    MaxMoves            \* bound on cards drawn, attachments and lost connections

VARIABLES
    at, epoch,      \* the attached session and the binding epoch
    gen, wgen,      \* generations of the agents and of the terminal server
    task, issue,    \* the records
    cards,          \* registered buttons, a card with its group
    input,          \* tasks.inputs or tasks.issue_inputs
    draft,          \* multiplexer.drafts
    exec,           \* tasks.issue_executions
    attaching,      \* session an attachment was begun for
    pane,           \* a new pane, whose card offers the agents to launch
    moves,
    last,           \* history: the command this step carried out
    asked           \* history: who was last asked to type something

place == <<at, epoch, gen, wgen>>
records == <<task, issue>>
forms == <<input, draft, exec>>
vars == <<place, records, cards, forms, attaching, pane, moves, last, asked>>

None == [what |-> "none"]
Init ==
    /\ at \in Sessions /\ epoch = 0 /\ gen = 0 /\ wgen = 0
    /\ task = [rev |-> 0, lease |-> Nobody]
    /\ issue = [rev |-> 0, open |-> TRUE]
    /\ cards = {}
    /\ input = Nobody /\ draft = Nobody /\ exec = Nobody
    /\ attaching = Nobody /\ pane = Nobody
    /\ moves = 0 /\ last = None /\ asked = {}

Move == moves < MaxMoves /\ moves' = moves + 1

\* What a button, a form or a remembered execution is scoped to.
Scope(o) == [owner |-> o, epoch |-> epoch, gen |-> gen]
InScope(o, s) == s.owner = o /\ s.epoch = epoch /\ s.gen = gen

----------------------------------------------------------------------------
\* Cards.  A Task offers its commands to the attached session only, and not
\* while another one holds the lease.
MatchesLease(s) == task.lease \in {Nobody, s}
ShowTask(o) ==
    /\ at # Nobody /\ MatchesLease(at)
    /\ Move
    /\ cards' = cards \cup {[kind |-> "task", scope |-> Scope(o), rev |-> task.rev, session |-> at]}
    /\ UNCHANGED <<place, records, forms, attaching, pane, asked>> /\ last' = None
ShowIssue(o) ==
    /\ issue.open
    /\ Move
    /\ cards' = cards \cup {[kind |-> "issue", scope |-> Scope(o), rev |-> issue.rev, session |-> Nobody]}
    /\ UNCHANGED <<place, records, forms, attaching, pane, asked>> /\ last' = None
\* The sessions an execution may be started in.
ShowIssueSessions(o, c) ==
    {[kind |-> "target", scope |-> Scope(o), rev |-> c.rev, session |-> s] : s \in Sessions}

\* Somebody else changes a record: an agent, the command line, another card.
ChangeTask ==
    /\ task.rev < MaxRevision
    /\ \E s \in Sessions \cup {Nobody} : task' = [rev |-> task.rev + 1, lease |-> s]
    /\ UNCHANGED <<place, issue, cards, forms, attaching, pane, moves, asked>> /\ last' = None
ChangeIssue ==
    /\ issue.rev < MaxRevision
    /\ \E b \in BOOLEAN : issue' = [rev |-> issue.rev + 1, open |-> b]
    /\ UNCHANGED <<place, task, cards, forms, attaching, pane, moves, asked>> /\ last' = None

----------------------------------------------------------------------------
\* The store carries a command out only at the revision it expects.
Done(what, o, c, record, s) ==
    last' = [what |-> what, by |-> o, owner |-> c.scope.owner, rev |-> c.rev, found |-> record.rev,
             session |-> c.session, in |-> s]
Refused == UNCHANGED records /\ last' = None
\* Mutant: the command does not say which revision it is for.
ExecuteAnyRevision(record, c) == record.rev <= MaxRevision
Execute(record, c) == record.rev = c.rev /\ record.rev <= MaxRevision

ApplyTaskAction(o, c) ==
    IF at = c.session /\ MatchesLease(at) /\ Execute(task, c)
    THEN /\ \E s \in {at, Nobody} : task' = [rev |-> task.rev + 1, lease |-> s]
         /\ Done("task", o, c, task, at)
         /\ UNCHANGED issue
    ELSE Refused
ApplyIssueAction(o, c) ==
    IF issue.open /\ Execute(issue, c)
    THEN /\ \E b \in BOOLEAN : issue' = [rev |-> issue.rev + 1, open |-> b]
         /\ Done("issue", o, c, issue, c.session)
         /\ UNCHANGED task
    ELSE Refused

\* A new form replaces every other one of the conversation.
Form(c, o) == [card |-> c, scope |-> Scope(o)]
DropDraft == draft' = Nobody /\ asked' = IF draft # Nobody THEN {} ELSE asked
Ask(o, c) == input' = Form(c, o) /\ draft' = Nobody /\ asked' = {o}

\* Pressing a button spends its card; a button that is not the directory
\* form's own also drops the form.
Press(o, c, kind) ==
    /\ c \in cards /\ c.kind = kind /\ InScope(o, c.scope)
RunTaskAction(o) ==
    \E c \in cards :
       /\ Press(o, c, "task")
       /\ cards' = cards \ {c}
       /\ \/ /\ at = c.session /\ Ask(o, c) /\ Refused
          \/ /\ ApplyTaskAction(o, c)
             /\ DropDraft /\ UNCHANGED input
       /\ UNCHANGED <<place, exec, attaching, pane, moves>>
RunIssueAction(o) ==
    \E c \in cards :
       /\ Press(o, c, "issue")
       /\ \/ cards' = cards \ {c} /\ Ask(o, c) /\ Refused
          \/ /\ cards' = cards \ {c} /\ ApplyIssueAction(o, c)
             /\ DropDraft /\ UNCHANGED input
          \/ /\ issue.rev = c.rev /\ issue.open
             /\ cards' = (cards \ {c}) \cup ShowIssueSessions(o, c)
             /\ DropDraft /\ Refused /\ UNCHANGED input
       /\ UNCHANGED <<place, exec, attaching, pane, moves>>

----------------------------------------------------------------------------
\* execute_issue_round: the requirement goes to the chosen session, once the
\* conversation is attached to it.
Sent(o, c, s) ==
    IF issue.rev = c.rev /\ issue.open
    THEN Done("execute", o, c, issue, s) /\ UNCHANGED records
    ELSE Refused
Remember(o, c, workspace) == exec' = [card |-> c, scope |-> Scope(o), workspace |-> workspace]
ExecuteIssueSession(o) ==
    \E c \in cards :
       /\ Press(o, c, "target")
       /\ cards' = cards \ {c} /\ DropDraft
       /\ IF issue.rev # c.rev \/ ~issue.open THEN Refused /\ UNCHANGED <<exec, attaching>>
          ELSE IF at = c.session THEN Sent(o, c, at) /\ UNCHANGED <<exec, attaching>>
          ELSE /\ Remember(o, c, FALSE) /\ attaching' = c.session
               /\ Refused
       /\ UNCHANGED <<place, input, pane, moves>>
\* A workspace for the Issue, or (with no Issue) for its own sake.
BeginDirectoryDraft(o) ==
    /\ draft' = [scope |-> Scope(o), wgen |-> wgen, typing |-> FALSE, expired |-> FALSE]
    /\ input' = Nobody /\ asked' = {}
ExecuteIssueWorkspace(o) ==
    \E c \in cards :
       /\ Press(o, c, "target")
       /\ cards' = cards \ {c}
       /\ issue.rev = c.rev /\ issue.open
       /\ Remember(o, [c EXCEPT !.session = Nobody], TRUE)
       /\ BeginDirectoryDraft(o)
       /\ UNCHANGED <<place, records, attaching, pane, moves>> /\ last' = None
BeginCreate(o) ==
    /\ Move
    /\ BeginDirectoryDraft(o)
    /\ UNCHANGED <<place, records, cards, exec, attaching, pane>> /\ last' = None

\* resume_issue_execution, after the conversation was bound to s: exactly one
\* attachment may lie between.
Resumable(s, workspace) ==
    /\ exec # Nobody /\ exec.workspace = workspace /\ (workspace \/ exec.card.session = s)
    /\ exec.scope.gen = gen /\ exec.scope.epoch = epoch
Resumed(s, workspace) ==
    /\ exec' = IF exec # Nobody /\ exec.workspace = workspace
                  /\ (workspace \/ exec.card.session = s) THEN Nobody ELSE exec
    /\ IF Resumable(s, workspace)
       THEN Sent(exec.scope.owner, [exec.card EXCEPT !.session = s, !.scope = exec.scope], s)
       ELSE Refused
FinishAttachment(s) ==
    /\ Move
    /\ at' = s /\ epoch' = epoch + 1 /\ attaching' = Nobody
    /\ Resumed(s, FALSE)
    /\ UNCHANGED <<gen, wgen, cards, input, draft, pane, asked>>
Detach ==
    /\ Move /\ at # Nobody
    /\ at' = Nobody /\ epoch' = epoch + 1 /\ attaching' = Nobody
    /\ UNCHANGED <<gen, wgen, records, cards, forms, pane, asked>> /\ last' = None

----------------------------------------------------------------------------
\* The directory form.
ValidDraft(o) ==
    /\ InScope(o, draft.scope) /\ draft.wgen = wgen /\ ~draft.expired
DirectoryInput(o) ==
    /\ draft # Nobody /\ ValidDraft(o) /\ ~draft.typing
    /\ draft' = [draft EXCEPT !.typing = TRUE]
    /\ asked' = {o}
    /\ UNCHANGED <<place, records, cards, input, exec, attaching, pane, moves>> /\ last' = None
DirectoryPreview(o) ==
    /\ draft # Nobody /\ ValidDraft(o) /\ draft.typing
    /\ draft' = [draft EXCEPT !.typing = FALSE]
    /\ asked' = {}
    /\ UNCHANGED <<place, records, cards, input, exec, attaching, pane, moves>> /\ last' = None
\* Create: an empty pane, and a card to choose the agent to launch in it.
ConfirmDirectory(o) ==
    /\ draft # Nobody /\ ValidDraft(o)
    /\ draft' = Nobody /\ asked' = {}
    /\ pane' = [scope |-> Scope(o)]
    /\ UNCHANGED <<place, records, cards, input, exec, attaching, moves>> /\ last' = None
CancelDirectory(o) ==
    /\ draft # Nobody /\ ValidDraft(o)
    /\ draft' = Nobody /\ exec' = Nobody /\ asked' = {}
    /\ UNCHANGED <<place, records, cards, input, attaching, pane, moves>> /\ last' = None
\* A button of a form that is no longer valid drops the form.
StaleDirectory(o) ==
    /\ draft # Nobody /\ InScope(o, draft.scope) /\ ~ValidDraft(o)
    /\ DropDraft
    /\ UNCHANGED <<place, records, cards, input, exec, attaching, pane, moves>> /\ last' = None
LaunchAgent(o) ==
    /\ Move
    /\ pane # Nobody /\ InScope(o, pane.scope)
    /\ pane' = Nobody /\ DropDraft
    /\ \E s \in Sessions \ {at} :
          /\ at' = s /\ epoch' = epoch + 1 /\ attaching' = Nobody
          /\ Resumed(s, TRUE)
    /\ UNCHANGED <<gen, wgen, cards, input>>

\* Connections come and go.  A lost one leaves the form as a tombstone.
Disconnected ==
    /\ Move /\ gen' = gen + 1
    /\ draft' = IF draft = Nobody THEN draft ELSE [draft EXCEPT !.expired = TRUE]
    /\ cards' = {}
    /\ UNCHANGED <<at, epoch, wgen, records, input, exec, attaching, pane, asked>> /\ last' = None
TerminalRestarted ==
    /\ Move /\ wgen' = wgen + 1
    /\ UNCHANGED <<at, epoch, gen, records, cards, forms, attaching, pane, asked>> /\ last' = None

----------------------------------------------------------------------------
\* A text, in the order handle_text looks for what it answers.  The agent is
\* prompted only when nothing was asked for.
FinishInput(o) ==
    /\ input # Nobody
    /\ IF input.card.kind = "issue" /\ input.scope.owner # o
       THEN UNCHANGED <<records, input, asked>> /\ last' = None     \* a foreign reply is refused
       ELSE /\ input' = Nobody /\ asked' = {}
            /\ IF ~InScope(o, input.scope) THEN Refused
               ELSE IF input.card.kind = "task" THEN ApplyTaskAction(o, input.card)
               ELSE ApplyIssueAction(o, input.card)
    /\ UNCHANGED draft
\* Mutant: a form that expired lets the text through.
DirectoryTextLenient(o) == ValidDraft(o) /\ draft.typing
DirectoryText(o) == ~ValidDraft(o) \/ draft.typing
HandleDirectoryText(o) ==
    /\ draft # Nobody /\ DirectoryText(o)
    /\ \/ /\ ~ValidDraft(o)
          /\ draft' = IF o = draft.scope.owner THEN Nobody ELSE draft
          /\ asked' = IF o = draft.scope.owner THEN {} ELSE asked
       \/ /\ ValidDraft(o)
          /\ draft' = [draft EXCEPT !.typing = FALSE] /\ asked' = {}
       \/ ValidDraft(o) /\ UNCHANGED <<draft, asked>>         \* no such directory
    /\ UNCHANGED <<records, input>> /\ last' = None
SendPrompt(o) ==
    /\ last' = [what |-> "prompt", by |-> o, answer |-> o \in asked]
    /\ UNCHANGED <<records, input, draft, asked>>
HandleText(o) ==
    /\ \/ /\ input # Nobody /\ input.card.kind = "issue" /\ FinishInput(o)
       \/ /\ ~(input # Nobody /\ input.card.kind = "issue")
          /\ HandleDirectoryText(o)
       \/ /\ ~(draft # Nobody /\ DirectoryText(o))
          /\ input # Nobody /\ input.card.kind = "task" /\ FinishInput(o)
       \/ /\ ~(draft # Nobody /\ DirectoryText(o))
          /\ input = Nobody /\ at # Nobody /\ SendPrompt(o)
    /\ UNCHANGED <<place, cards, exec, attaching, pane, moves>>
\* /cancel: an open directory form takes it, and keeps the execution.
Cancel(o) ==
    /\ IF draft # Nobody
       THEN /\ draft.scope.owner = o
            /\ draft' = Nobody
            /\ UNCHANGED <<input, exec>>
       ELSE input' = Nobody /\ exec' = Nobody /\ UNCHANGED draft
    /\ asked' = {}
    /\ last' = [what |-> "cancel", by |-> o]
    /\ UNCHANGED <<place, records, cards, attaching, pane, moves>>

----------------------------------------------------------------------------
Next ==
    \/ \E o \in Owners :
          \/ ShowTask(o) \/ ShowIssue(o) \/ RunTaskAction(o) \/ RunIssueAction(o)
          \/ ExecuteIssueSession(o) \/ ExecuteIssueWorkspace(o) \/ BeginCreate(o)
          \/ DirectoryInput(o) \/ DirectoryPreview(o) \/ ConfirmDirectory(o)
          \/ CancelDirectory(o) \/ StaleDirectory(o) \/ LaunchAgent(o)
    \/ \E o \in Writers : HandleText(o) \/ Cancel(o)
    \/ \E s \in Sessions : FinishAttachment(s)
    \/ ChangeTask \/ ChangeIssue \/ Detach \/ Disconnected \/ TerminalRestarted

\* Whatever happened between a card and the answer to it, a command is carried
\* out at the revision the card showed, by the person it was drawn for, and in
\* the session it named, and what somebody was asked to type never reaches the
\* agent as a prompt (expected_revision, ActionRegistry::consume, PendingTaskInput,
\* PendingIssueExecution, and the tombstone of expire_directory_drafts).
CarriedOutAsShown ==
    /\ last.what \in {"task", "issue", "execute"} =>
          /\ last.rev = last.found /\ last.by = last.owner
          /\ last.session = last.in
    /\ last.what = "prompt" => ~last.answer

\* After /cancel the conversation holds no execution that a later attachment or
\* workspace would carry out (cancel_pending_reply, handle_directory_text).
CancelFences == last.what = "cancel" => exec = Nobody
=============================================================================
