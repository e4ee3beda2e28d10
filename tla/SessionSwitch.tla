--------------------------- MODULE SessionSwitch ---------------------------
(***************************************************************************)
(* The hand-over of a conversation to the new session of its terminal      *)
(* client (agentix-core/src/engine/session_switch.rs, terminal_input.rs,   *)
(* agentix-storage/src/session_switch.rs).  While the client changes       *)
(* sessions the conversation's messages wait in a durable queue; once the  *)
(* new session is attached they are sent to it one turn at a time.         *)
(*                                                                         *)
(* One conversation.  Two workers may be inside these handlers at once:    *)
(* the one that serves the conversation and the one that serves the event  *)
(* of a session; what a worker has read is protected by the revision of    *)
(* the stored record only.  A revision is compared for equality, so one    *)
(* that no copy carries is used again.  A message is queued in two steps,  *)
(* the read and the save; the other writes follow their read without a     *)
(* wait for anything but the database, and are one step.  Notices and      *)
(* labels are left out.                                                    *)
(***************************************************************************)
EXTENDS Naturals, Sequences, FiniteSets

CONSTANTS
    SwitchSessions, NoSession,
    QueueLimit,         \* 100 messages
    MaxMessages,        \* bound on messages accepted for the queue
    MaxSwitches,        \* bound on switches begun or retried
    MaxUpsets           \* bound on failures, exits, rebindings and crashes

Workers == {"conversation", "event"}

VARIABLES
    bound,          \* the bindings row and its binding_epochs row: [s, epoch]
    shown,          \* the session of the table in memory
    sw,             \* the session_switches row or NoSession
    late,           \* its deadline has passed
    copy,           \* what each worker holds: [pc, sw, to, m]
    draft,          \* terminal_inputs: what awaits the user's confirmation
    choice,         \* the client asks the user something about the switch
    busy,           \* the shown session has an active turn
    alive,
    accepted,       \* number of messages accepted; they are 1, 2, ...
    sent,           \* messages handed to the session, in order
    told,           \* messages the user was told were not sent
    unsaved,        \* messages whose save was refused, which nobody looks at
    switches, upsets

bindVars == <<bound, shown>>
countVars == <<switches, upsets>>
logVars == <<accepted, sent, told, unsaved>>
switchVars == <<bindVars, sw, late, copy, draft, choice, busy, alive, logVars,
                countVars>>

----------------------------------------------------------------------------
NoCopy == [pc |-> "idle", sw |-> NoSession, to |-> NoSession, m |-> 0]
Free(w) == alive /\ copy[w].pc = "idle"

Revisions ==
    {copy[w].sw.rev : w \in {v \in Workers : copy[v].sw # NoSession}}
    \cup (IF sw # NoSession THEN {sw.rev} ELSE {})
FreshRevision == CHOOSE r \in 1..4 : r \notin Revisions
Revised(x) == [x EXCEPT !.rev = FreshRevision]

\* Mutant: a save does not compare the revision.
UnfencedCopy(x) == sw # NoSession

\* UPDATE ... WHERE id = ? AND revision = ?
CopyIsCurrent(x) == sw # NoSession /\ sw.rev = x.rev

Queued(x) == IF x = NoSession THEN {} ELSE {x.messages[i].id : i \in 1..Len(x.messages)}
SomeSending(x) == \E i \in 1..Len(x.messages) : x.messages[i].sending
SameEpoch(x) == bound.s # NoSession /\ bound.epoch = x.epoch

\* expire_session_switch: a question to the user moves the deadline; a switch
\* past it is deleted and its messages are shown as not sent.
Extends == sw # NoSession /\ choice /\ ~sw.paused /\ sw.target = NoSession

\* Mutant: only a paused switch is deleted past its deadline.
ExpiresPaused == sw # NoSession /\ sw.paused /\ sw.target = NoSession /\ late

Expires == sw # NoSession /\ ~Extends /\ sw.target = NoSession /\ late
AfterExpire ==
    IF Extends THEN Revised(sw) ELSE IF Expires THEN NoSession ELSE sw
Expire ==
    /\ late' = IF Extends \/ Expires THEN FALSE ELSE late
    /\ told' = IF Expires THEN told \cup Queued(sw) ELSE told

\* The record written before a message is sent.
MarkedSending(x) == Revised([x EXCEPT !.messages[1].sending = TRUE])

\* drain_session_switch from a record x, up to the write that precedes the
\* send; the session is the one shown in memory, d the draft that waits.
CanDrain(x, s, b, d) ==
    /\ d = 0 /\ x # NoSession /\ x.target # NoSession /\ ~x.paused
    /\ b.s # NoSession /\ b.epoch = x.epoch /\ s = x.target
DrainTo(w, x, y) ==
    /\ sw' = y
    /\ copy' = [copy EXCEPT ![w] =
                   IF y # NoSession /\ y # x /\ ~y.paused
                   THEN [pc |-> "send", sw |-> y, to |-> NoSession,
                         m |-> y.messages[1].id]
                   ELSE NoCopy]
Drain(w, x, s, b, d, turn) ==
    IF ~CanDrain(x, s, b, d) \/ turn THEN DrainTo(w, x, x)
    ELSE \/ /\ x.messages = <<>>
            /\ DrainTo(w, x, NoSession)
         \/ /\ x.messages # <<>> /\ x.messages[1].sending
            /\ DrainTo(w, x, x)
         \/ /\ x.messages # <<>> /\ ~x.messages[1].sending
            /\ DrainTo(w, x, MarkedSending(x))

----------------------------------------------------------------------------
\* send_prompt: the session takes the message, a draft in the terminal stops
\* it, or an error leaves open whether it arrived.
Upset == upsets < MaxUpsets /\ upsets' = upsets + 1

Send(w) ==
    /\ alive /\ copy[w].pc = "send"
    /\ \/ /\ sent' = Append(sent, copy[w].m)
          /\ busy' = TRUE
          /\ copy' = [copy EXCEPT ![w].pc = "taken"]
          /\ UNCHANGED <<draft, upsets>>
       \/ /\ Upset
          /\ draft' = copy[w].m
          /\ copy' = [copy EXCEPT ![w].pc = "taken"]
          /\ UNCHANGED <<sent, busy>>
       \/ /\ Upset
          /\ sent' \in {sent, Append(sent, copy[w].m)}
          /\ copy' = [copy EXCEPT ![w].pc = "failed"]
          /\ UNCHANGED <<draft, busy>>
    /\ UNCHANGED <<bindVars, sw, late, choice, alive, accepted, unsaved, told, switches>>

\* The record after the send, unless somebody wrote it meanwhile.
AfterSend(w) ==
    LET x == copy[w].sw IN
    IF copy[w].pc = "failed" THEN [x EXCEPT !.paused = TRUE]
    ELSE IF draft # 0 THEN [x EXCEPT !.messages[1].sending = FALSE]
    ELSE [x EXCEPT !.messages = Tail(@)]

FinishSend(w) ==
    /\ alive /\ copy[w].pc \in {"taken", "failed"}
    /\ sw' = IF CopyIsCurrent(copy[w].sw) THEN Revised(AfterSend(w)) ELSE sw
    /\ copy' = [copy EXCEPT ![w] = NoCopy]
    /\ UNCHANGED <<bindVars, late, draft, choice, busy, alive, logVars, countVars>>

----------------------------------------------------------------------------
NewSwitch == [old |-> shown, target |-> NoSession, candidate |-> NoSession,
              epoch |-> bound.epoch, paused |-> FALSE, messages |-> <<>>,
              rev |-> FreshRevision]
\* INSERT ... WHERE EXISTS the binding the switch starts from.
CanBegin == bound.s # NoSession /\ bound.s = shown

\* begin_session_switch on NativeSessionSwitchStarted
NativeSwitchStarted ==
    /\ Free("event") /\ sw = NoSession /\ shown # NoSession /\ CanBegin
    /\ switches < MaxSwitches /\ switches' = switches + 1
    /\ sw' = NewSwitch /\ late' = FALSE
    /\ UNCHANGED <<bindVars, copy, draft, choice, busy, alive, logVars, upsets>>

\* request_new_session: begins a switch, or retries a paused one that never
\* reached a session; otherwise it answers with a notice.
Retryable(x) ==
    /\ x.paused /\ x.target = NoSession /\ x.candidate = NoSession
    /\ x.old = shown /\ SameEpoch(x) /\ ~SomeSending(x)
RequestNewSession ==
    LET x == AfterExpire IN
    /\ Free("conversation") /\ shown # NoSession /\ draft = 0
    /\ switches < MaxSwitches /\ switches' = switches + 1
    /\ told' = IF Expires THEN told \cup Queued(sw) ELSE told
    /\ \/ /\ x = NoSession /\ CanBegin
          /\ sw' = NewSwitch /\ late' = FALSE
       \/ /\ x # NoSession /\ Retryable(x)
          /\ sw' = Revised([x EXCEPT !.paused = FALSE]) /\ late' = FALSE
       \/ /\ x # NoSession /\ ~Retryable(x)
          /\ sw' = x /\ late' = IF Extends THEN FALSE ELSE late
    /\ UNCHANGED <<bindVars, copy, draft, choice, busy, alive, accepted, unsaved, sent,
                   upsets>>

\* enqueue_switch_prompt reads the record and then waits for the binding's epoch;
\* a message it does not take is an ordinary prompt, or refused when the queue is
\* full.
EnqueuePrompt ==
    LET x == AfterExpire IN
    /\ Free("conversation") /\ accepted < MaxMessages
    /\ Expire
    /\ sw' = x
    /\ copy' = IF x = NoSession \/ Len(x.messages) >= QueueLimit THEN copy
               ELSE [copy EXCEPT !["conversation"] =
                        [pc |-> "enqueue", sw |-> x, to |-> NoSession, m |-> 0]]
    /\ UNCHANGED <<bindVars, draft, choice, busy, alive, accepted, unsaved, sent,
                   countVars>>

\* The save is refused when the record was written in between.  The handler does
\* not look at that: it has taken the message and drains what is stored.
SavePrompt ==
    LET x == copy["conversation"].sw
        m == [id |-> accepted + 1, sending |-> FALSE]
    IN
    /\ alive /\ copy["conversation"].pc = "enqueue"
    /\ \/ /\ ~SameEpoch(x)
          /\ copy' = [copy EXCEPT !["conversation"] = NoCopy]
          /\ UNCHANGED <<sw, accepted, unsaved>>
       \/ /\ SameEpoch(x) /\ CopyIsCurrent(x)
          /\ accepted' = accepted + 1
          /\ Drain("conversation", Revised([x EXCEPT !.messages = Append(@, m)]),
                   shown, bound, draft, busy)
          /\ UNCHANGED unsaved
       \/ /\ SameEpoch(x) /\ ~CopyIsCurrent(x)
          /\ accepted' = accepted + 1
          /\ unsaved' = unsaved \cup {m.id}
          /\ Drain("conversation", sw, shown, bound, draft, busy)
    /\ UNCHANGED <<bindVars, late, draft, choice, busy, alive, sent, told, countVars>>

\* fail_session_switch: the command failed, or the client says so.
SwitchFails ==
    /\ alive /\ sw # NoSession /\ sw.target = NoSession /\ Upset
    /\ sw' = Revised([sw EXCEPT !.paused = TRUE])
    /\ UNCHANGED <<bindVars, late, copy, draft, choice, busy, alive, logVars,
                   switches>>

\* replace_session, up to the wait for the agent, on SessionReplaced and on a
\* refresh that finds a candidate.  It expires every stored switch it meets before
\* it looks whose it is.
Waiting(x) == x # NoSession /\ x.target = NoSession /\ ~x.paused
BeginReplace(w, x, t) ==
    LET y == Revised([x EXCEPT !.candidate = t]) IN
    /\ sw' = y
    /\ copy' = [copy EXCEPT ![w] =
                   [pc |-> "attach", sw |-> y, to |-> t, m |-> 0]]
OtherReplaced ==
    /\ Free("event") /\ sw # NoSession
    /\ Expire
    /\ sw' = AfterExpire
    /\ UNCHANGED <<bindVars, copy, draft, choice, busy, alive, accepted, unsaved, sent,
                   countVars>>
SessionReplaced(t) ==
    LET x == AfterExpire IN
    /\ Free("event")
    /\ Waiting(x) /\ SameEpoch(x) /\ t # x.old /\ ~late
    /\ Expire
    /\ BeginReplace("event", x, t)
    /\ UNCHANGED <<bindVars, draft, choice, busy, alive, accepted, unsaved, sent, countVars>>

\* complete_session_switch moves the binding and the queue together, unless
\* the binding, the record or the owner of the target changed.
CanComplete(x) ==
    /\ bound.s = x.old /\ bound.epoch = x.epoch
    /\ CopyIsCurrent(x)
CompleteReplace(w) ==
    LET x == copy[w].sw
        t == copy[w].to
        y == Revised([x EXCEPT !.target = t, !.epoch = @ + 1])
        b == [s |-> t, epoch |-> x.epoch + 1]
    IN  /\ alive /\ copy[w].pc = "attach"
        /\ Expire
        /\ \/ /\ ~Expires /\ ~Extends /\ CanComplete(x)
              /\ bound' = b /\ shown' = t /\ busy' = FALSE
              /\ Drain(w, y, t, b, draft, FALSE)
           \/ /\ Expires \/ Extends \/ ~CanComplete(x)
              /\ sw' = AfterExpire
              /\ copy' = [copy EXCEPT ![w] = NoCopy]
              /\ UNCHANGED <<bindVars, busy>>
        /\ UNCHANGED <<draft, choice, alive, accepted, unsaved, sent, countVars>>

\* The agent cannot attach the new session yet, or did not answer in time.
ReplaceNotYet(w) ==
    /\ alive /\ copy[w].pc = "attach" /\ Upset
    /\ copy' = [copy EXCEPT ![w] = NoCopy]
    /\ UNCHANGED <<bindVars, sw, late, draft, choice, busy, alive, logVars, switches>>

\* Mutant: a message found in sending is sent again.
ResendUncertain(x) == Revised([x EXCEPT !.messages[1].sending = FALSE])

\* A message found in sending is never sent again by itself.
PauseUncertain(x) == Revised([x EXCEPT !.paused = TRUE])

\* cancel_session_switch
Cancelled(x) ==
    IF x = NoSession \/ x.messages = <<>> THEN NoSession
    ELSE Revised([x EXCEPT !.paused = TRUE])

\* refresh_session_switch, once a second for every stored switch.
Refresh ==
    LET x == AfterExpire IN
    /\ Free("conversation") /\ sw # NoSession
    /\ Expire
    /\ IF x = NoSession \/ x.paused \/ bound.s = NoSession
       THEN sw' = x /\ UNCHANGED copy
       ELSE IF ~SameEpoch(x) THEN sw' = Cancelled(x) /\ UNCHANGED copy
       ELSE IF x.target = NoSession /\ x.candidate # NoSession
       THEN IF late /\ ~Extends THEN sw' = x /\ UNCHANGED copy
            ELSE BeginReplace("conversation", x, x.candidate)
       ELSE IF SomeSending(x) THEN sw' = PauseUncertain(x) /\ UNCHANGED copy
       ELSE Drain("conversation", x, shown, bound, draft, busy)
    /\ UNCHANGED <<bindVars, draft, choice, busy, alive, accepted, unsaved, sent, countVars>>

----------------------------------------------------------------------------
\* resolve_terminal_input and cancel_pending_reply
HeadWaits == /\ sw # NoSession /\ sw.target = shown /\ ~sw.paused
             /\ sw.messages # <<>> /\ ~sw.messages[1].sending
DraftCancelled ==
    /\ Free("conversation") /\ draft # 0 /\ shown # NoSession
    /\ draft' = 0
    /\ IF HeadWaits
       THEN /\ told' = told \cup {sw.messages[1].id}
            /\ sw' = Revised([sw EXCEPT !.messages = Tail(@)])
       ELSE told' = told \cup {draft} /\ UNCHANGED sw
    /\ UNCHANGED <<bindVars, late, copy, choice, busy, alive, accepted, unsaved, sent,
                   countVars>>
DraftConfirmed ==
    /\ Free("conversation") /\ draft # 0 /\ shown # NoSession
    /\ draft' = 0
    /\ IF HeadWaits /\ sw.messages[1].id = draft
       THEN Drain("conversation", sw, shown, bound, 0, busy) /\ UNCHANGED sent
       ELSE sent' = Append(sent, draft) /\ UNCHANGED <<sw, copy>>
    /\ UNCHANGED <<bindVars, late, choice, busy, alive, accepted, unsaved, told, countVars>>

\* control_switch_queue
ClearQueue ==
    /\ Free("conversation") /\ sw # NoSession
    /\ told' = told \cup Queued(sw)
    /\ sw' = IF sw.paused \/ sw.target # NoSession THEN NoSession
             ELSE Revised([sw EXCEPT !.messages = <<>>])
    /\ UNCHANGED <<bindVars, late, copy, draft, choice, busy, alive, accepted, unsaved, sent,
                   countVars>>
ResumeQueue ==
    /\ Free("conversation") /\ sw # NoSession
    /\ ~SomeSending(sw) /\ SameEpoch(sw) /\ sw.target # NoSession /\ sw.paused
    /\ Drain("conversation", Revised([sw EXCEPT !.paused = FALSE]), shown, bound,
             draft, busy)
    /\ UNCHANGED <<bindVars, late, draft, choice, busy, alive, logVars, countVars>>

\* A turn ends: the next message follows.
TurnEnds ==
    /\ Free("event") /\ busy /\ shown # NoSession
    /\ busy' = FALSE
    /\ Drain("event", sw, shown, bound, draft, FALSE)
    /\ UNCHANGED <<bindVars, late, draft, choice, alive, logVars, countVars>>

\* drain_session_switch finds that the new session is read-only.
TargetReadOnly ==
    /\ Free("conversation") /\ CanDrain(sw, shown, bound, draft) /\ ~busy /\ Upset
    /\ sw' = Revised([sw EXCEPT !.paused = TRUE])
    /\ UNCHANGED <<bindVars, late, copy, draft, choice, busy, alive, logVars,
                   switches>>

\* The client asks, and gets its answer.
AskChoice ==
    /\ alive /\ Waiting(sw) /\ ~choice /\ Upset
    /\ choice' = TRUE
    /\ UNCHANGED <<bindVars, sw, late, copy, draft, busy, alive, logVars, switches>>
AnswerChoice ==
    /\ choice /\ choice' = FALSE
    /\ UNCHANGED <<bindVars, sw, late, copy, draft, busy, alive, logVars, countVars>>

\* The user attaches another session or detaches (attach, detach).
Rebind(s) ==
    /\ Free("conversation") /\ Upset /\ s # shown
    /\ draft' = 0
    /\ told' = told \cup ({draft} \ {0})
    /\ sw' = Cancelled(sw)
    /\ shown' = s /\ busy' = FALSE
    /\ bound' = [s |-> s, epoch |-> bound.epoch + 1]
    /\ UNCHANGED <<late, copy, choice, alive, accepted, unsaved, sent, switches>>

\* handle_session_exit: retain_switch_on_exit keeps the binding of a session
\* that is being replaced; otherwise it is suspended.
SessionExits ==
    /\ Free("event") /\ shown # NoSession /\ Upset
    /\ busy' = FALSE /\ choice' = FALSE
    /\ IF Waiting(sw) /\ sw.old = shown
       THEN draft' = 0 /\ told' = told \cup ({draft} \ {0}) /\ UNCHANGED bindVars
       ELSE /\ shown' = NoSession
            /\ bound' = [bound EXCEPT !.epoch = @ + 1]
            /\ UNCHANGED <<draft, told>>
    /\ UNCHANGED <<sw, late, copy, alive, accepted, unsaved, sent, switches>>
SessionResumes ==
    /\ Free("event") /\ shown = NoSession /\ bound.s # NoSession
    /\ shown' = bound.s
    /\ UNCHANGED <<bound, sw, late, copy, draft, choice, busy, alive, logVars,
                   countVars>>

Stop ==
    /\ alive /\ Upset
    /\ alive' = FALSE
    /\ copy' = [w \in Workers |-> NoCopy]
    /\ draft' = 0 /\ choice' = FALSE /\ busy' = FALSE /\ shown' = NoSession
    /\ UNCHANGED <<bound, sw, late, logVars, switches>>
Start ==
    /\ ~alive /\ alive' = TRUE
    /\ shown' = bound.s
    /\ UNCHANGED <<bound, sw, late, copy, draft, choice, busy, logVars, countVars>>

DeadlinePasses ==
    /\ sw # NoSession /\ ~late /\ late' = TRUE
    /\ UNCHANGED <<bindVars, sw, copy, draft, choice, busy, alive, logVars, countVars>>

SwitchInit ==
    /\ \E s \in SwitchSessions :
           bound = [s |-> s, epoch |-> 1] /\ shown = s
    /\ sw = NoSession /\ late = FALSE
    /\ copy = [w \in Workers |-> NoCopy]
    /\ draft = 0 /\ choice = FALSE /\ busy = FALSE /\ alive = TRUE
    /\ accepted = 0 /\ sent = <<>> /\ told = {} /\ unsaved = {}
    /\ switches = 0 /\ upsets = 0

SwitchNext ==
    \/ \E w \in Workers : \/ Send(w) \/ FinishSend(w)
                          \/ CompleteReplace(w) \/ ReplaceNotYet(w)
    \/ NativeSwitchStarted \/ RequestNewSession \/ EnqueuePrompt \/ SavePrompt
    \/ SwitchFails \/ OtherReplaced
    \/ \E t \in SwitchSessions : SessionReplaced(t)
    \/ Refresh \/ DraftCancelled \/ DraftConfirmed \/ ClearQueue \/ ResumeQueue
    \/ TurnEnds \/ TargetReadOnly \/ AskChoice \/ AnswerChoice
    \/ \E s \in SwitchSessions \cup {NoSession} : Rebind(s)
    \/ SessionExits \/ SessionResumes \/ Stop \/ Start \/ DeadlinePasses

SwitchProgress ==
    \/ \E w \in Workers : Send(w) \/ FinishSend(w) \/ CompleteReplace(w)
    \/ SavePrompt \/ Start

----------------------------------------------------------------------------
SentInOrder == \A i, j \in 1..Len(sent) : i < j => sent[i] < sent[j]
NoSilentLoss ==
    \A m \in 1..accepted :
        m \in Queued(sw) \cup told \cup unsaved \cup {sent[i] : i \in 1..Len(sent)}

\* A queued message is handed to the session at most once and in the order in
\* which it was accepted, although the delivery is interrupted by a crash,
\* stopped by a draft in the terminal, raced by a second worker or repeated
\* after an error (SwitchPrompt.sending, "A crash here requires human
\* reconciliation").  And an accepted message that was once in the queue does not
\* disappear: it is still there, was handed over, or the user was shown it as not
\* sent, whichever way the switch ended.  The messages that nobody hears of again
\* are those whose own save was refused (unsaved).
MessagesAccounted == SentInOrder /\ NoSilentLoss

\* A switch does not wait for ever: it is completed and its queue emptied, or
\* deleted past its deadline, or it stops for the user to decide.
SwitchEnds ==
    (sw # NoSession /\ ~sw.paused)
        ~> (sw = NoSession \/ sw.paused \/ draft # 0 \/ choice)
=============================================================================
