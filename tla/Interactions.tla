---------------------------- MODULE Interactions ----------------------------
(***************************************************************************)
(* Questions and approvals of an agent, answered from a conversation       *)
(* (agentix-core/src/engine/interaction_flows.rs, question_flows.rs,       *)
(* terminal_input.rs, agentix-core/src/registry.rs and registry/           *)
(* terminal.rs, agentix-domain/src/action.rs).                             *)
(*                                                                         *)
(* The model follows one session.  A request of the agent gets a route (a  *)
(* token the answer is sent back by); the engine shows a card with buttons *)
(* in the conversation the session is attached to.  A button is good once, *)
(* for its conversation and binding epoch, and spends the others of its    *)
(* group.  A request may also be answered in the agent's own terminal, and *)
(* events reach the engine later than the answer.  The steps of the engine *)
(* that concern one session or conversation do not overlap (DispatchQueue).*)
(* A card is sent or updated through a service that may refuse it: what the*)
(* engine did before the call stays done, and what it would have done      *)
(* afterwards does not happen.  Buttons that were issued for such a card   *)
(* are left out: nobody sees them.  Texts, labels and styles are left out, *)
(* the "Reject" button of a question and the cancellation of a dialog from *)
(* the conversation too.                                                   *)
(***************************************************************************)
EXTENDS Naturals, Sequences, FiniteSets

CONSTANTS
    Conversations, Nobody,
    Questions, Approvals, Dialogs,  \* kinds of requests; dialogs are read off a terminal
    Parts,              \* number of questions a request asks
    MaxRequests,        \* bound on the requests the agent has to make
    MaxMoves,           \* bound on attachments, presses of "Other", cancellations and
                        \* repeated announcements
    MaxFaults           \* bound on drops, event gaps, refused answers and failed cards

VARIABLES
    native,         \* per request: "none", "open", "closed"
    seen,           \* per dialog: [reads, token]; 3 reads once it was answered
    route,          \* requests with a route: keys <<request, n>>
    net,            \* events on their way to the engine
    queued,         \* interactions.questions
    noticed,        \* those of them with notices in other conversations
    pend,           \* interactions.pending: [key, c, cur, live, group]
    acts,           \* interactions.actions
    reply,          \* interactions.reply_modes
    at, epoch,      \* the attached conversation, and the binding epochs
    drops,          \* number of times routes were dropped, for fresh keys
    moves, faults,
    answers,        \* history: answers the agent accepted
    undrawn,        \* history: questions whose card failed since they were last shown
    lost            \* history: keys of events that were lost or that nobody was attached
                    \* for, of refused answers, of notices that failed, and of answers
                    \* given while a second announcement was on its way

agentVars == <<native, seen, route, net>>
cardVars == <<queued, noticed, pend, acts, reply>>
countVars == <<drops, moves, faults>>
logVars == <<answers, undrawn, lost>>
vars == <<agentVars, cardVars, at, epoch, countVars, logVars>>

Interaction == Questions \cup Approvals \cup Dialogs
Keys == Interaction \X (0..MaxFaults + 1)
Cards(k) == {p \in pend : p.key = k}

Init ==
    /\ native \in [Interaction -> {"none", "closed"}]
    /\ Cardinality({r \in Interaction : native[r] = "none"}) <= MaxRequests
    /\ seen = [r \in Dialogs |-> [reads |-> 0, token |-> 0]]
    /\ route = {} /\ net = <<>>
    /\ queued = {} /\ noticed = {} /\ pend = {} /\ acts = {}
    /\ reply = [x \in Conversations |-> Nobody]
    /\ at \in Conversations
    /\ epoch = [x \in Conversations |-> 0]
    /\ drops = 0 /\ moves = 0 /\ faults = 0
    /\ answers = [r \in Interaction |-> 0]
    /\ undrawn = {} /\ lost = {}

\* The agent, a channel or the connection fails.
Fault == faults < MaxFaults /\ faults' = faults + 1
Move == moves < MaxMoves /\ moves' = moves + 1

----------------------------------------------------------------------------
\* ActionRegistry: what a button is registered for.
Issue(x, k, kind, g) == [c |-> x, epoch |-> epoch[x], key |-> k, kind |-> kind, group |-> g]
RevokeGroup(a, g) == {b \in a : b.group # g}
FreshGroup(k) ==
    CHOOSE g \in {<<k, i>> : i \in 0..3} :
        (\A a \in acts : a.group # g) /\ (\A p \in pend : p.group # g)
Consumes(x, a) == a.c = x /\ a.epoch = epoch[x]

\* The buttons of a card.
InputButtons(x, k, g) == {Issue(x, k, "select", g), Issue(x, k, "custom", g)}
ApprovalButtons(x, k, g) == {Issue(x, k, "resolve", g)}
Buttons(x, k, g) ==
    IF k[1] \in Questions THEN InputButtons(x, k, g) ELSE ApprovalButtons(x, k, g)

\* The cards and buttons after the request k is shown in x, at its part cur; b are
\* the buttons that are left of earlier cards.
Card(x, k, cur, g) == [key |-> k, c |-> x, cur |-> cur, live |-> TRUE, group |-> g]
Shown(x, k, cur, b) ==
    /\ pend' = (pend \ Cards(k)) \cup {Card(x, k, cur, FreshGroup(k))}
    /\ acts' = b \cup Buttons(x, k, FreshGroup(k))

----------------------------------------------------------------------------
\* TerminalObserver::clear: a dialog that was announced is withdrawn.
Token(r) == <<r, seen[r].token>>
Announced == {Token(r) : r \in {d \in Dialogs : seen[d].reads = 2}}
Cleared == [r \in Dialogs |-> [seen[r] EXCEPT !.reads = 0]]
Withdrawn ==
    IF Announced = {} THEN net
    ELSE Append(net, [type |-> "resolved", key |-> CHOOSE k \in Announced : TRUE])

\* The agent's side: a request is routed once, however often it is announced.
Announce(r) ==
    LET old == {k \in route : k[1] = r}
        k == IF old = {} THEN <<r, drops>> ELSE CHOOSE o \in old : TRUE
    IN  /\ native[r] \in {"none", "open"} /\ r \notin Dialogs
        /\ Len(net) < 2
        /\ IF old = {} THEN UNCHANGED moves ELSE Move
        /\ native' = [native EXCEPT ![r] = "open"]
        /\ seen' = Cleared
        /\ route' = (route \ Announced) \cup {k}
        /\ net' = Append(Withdrawn, [type |-> "requested", key |-> k])
        /\ UNCHANGED <<cardVars, at, epoch, drops, faults, logVars>>

\* Answered in the agent's terminal, or withdrawn.  Nobody is told of a dialog
\* that is gone until the screen is read again.
AnsweredNatively(r) ==
    /\ native[r] = "open" /\ Len(net) < 2
    /\ native' = [native EXCEPT ![r] = "closed"]
    /\ IF r \in Dialogs THEN UNCHANGED <<route, net>>
       ELSE /\ route' = {k \in route : k[1] # r}
            /\ net' = IF \E k \in route : k[1] = r
                      THEN Append(net, [type |-> "resolved", key |-> CHOOSE k \in route : k[1] = r])
                      ELSE net
    /\ UNCHANGED <<seen, cardVars, at, epoch, countVars, logVars>>

\* spawn_backend: the connection to the agent is lost; its open requests come
\* back under new routes.
Disconnected ==
    /\ Fault /\ Len(net) < 2
    /\ drops' = drops + 1
    /\ route' = {k \in route : k[1] \in Dialogs}
    /\ net' = Append(net, [type |-> "offline", key |-> Nobody])
    /\ UNCHANGED <<native, seen, cardVars, at, epoch, moves, logVars>>

\* TerminalObserver: a dialog is announced once it was read twice, while the
\* session is attached and no request of the protocol is open.
DialogAppears(r) ==
    /\ r \in Dialogs /\ native[r] = "none"
    /\ native' = [native EXCEPT ![r] = "open"]
    /\ UNCHANGED <<seen, route, net, cardVars, at, epoch, countVars, logVars>>
RecordDialog(r) ==
    /\ r \in Dialogs /\ at # Nobody /\ Len(net) < 2
    /\ IF native[r] = "open" /\ \A k \in route : k[1] \in Dialogs
       THEN /\ seen[r].reads < 2 /\ seen[r].token <= MaxFaults
            /\ LET now == [reads |-> seen[r].reads + 1, token |-> seen[r].token + seen[r].reads]
               IN  /\ seen' = [seen EXCEPT ![r] = now]
                   /\ IF now.reads = 1 THEN UNCHANGED <<route, net>>
                      ELSE /\ route' = route \cup {<<r, now.token>>}
                           /\ net' = Append(net, [type |-> "requested", key |-> <<r, now.token>>])
       ELSE /\ seen[r].reads > 0
            /\ seen' = Cleared
            /\ route' = route \ Announced /\ net' = Withdrawn
    /\ UNCHANGED <<native, cardVars, at, epoch, countVars, logVars>>

\* resolve_interaction: the route is spent before the agent is asked; without one the
\* answer is refused.  The agent may refuse it as well, and the request stays open.
CanResolve(k) == k \in route
Spent(k) ==
    /\ route' = route \ {k}
    /\ seen' = IF k[1] \in Dialogs THEN [seen EXCEPT ![k[1]].reads = 3] ELSE seen
    /\ net' = IF k[1] \in Dialogs THEN Append(net, [type |-> "resolved", key |-> k]) ELSE net
OnItsWay(k) == \E i \in DOMAIN net : net[i] = [type |-> "requested", key |-> k]
Resolve(k) ==
    /\ CanResolve(k) /\ Spent(k)
    /\ native' = [native EXCEPT ![k[1]] = "closed"]
    /\ answers' = [answers EXCEPT ![k[1]] = IF native[k[1]] = "open" THEN @ + 1 ELSE @]
    /\ lost' = IF OnItsWay(k) THEN lost \cup {k} ELSE lost
    /\ UNCHANGED <<drops, faults, undrawn>>
ResolveFails(k) ==
    /\ CanResolve(k) /\ Spent(k) /\ Fault
    /\ drops' = drops + 1
    /\ lost' = lost \cup {k}
    /\ UNCHANGED <<native, answers, undrawn>>
ResolveRefused(k) ==
    ~CanResolve(k) /\ UNCHANGED <<agentVars, drops, faults, logVars>>

----------------------------------------------------------------------------
\* The engine takes the next event.  A question is recorded before its card is sent:
\* when that fails, it stays without one, and announcing it again changes nothing.
Requested(k) ==
    LET shows == \/ /\ Shown(at, k, 0, acts)
                    /\ undrawn' = undrawn \ {k} /\ UNCHANGED faults
                 \/ /\ Fault
                    /\ undrawn' = undrawn \cup {k} /\ UNCHANGED <<pend, acts>>
    IN  IF k \in queued \/ (at = Nobody /\ k[1] \notin Questions)
        THEN UNCHANGED <<queued, noticed, pend, acts, faults, undrawn>>
        ELSE /\ queued' = IF k[1] \in Questions THEN queued \cup {k} ELSE queued
             /\ IF at # Nobody THEN shows /\ UNCHANGED noticed
                ELSE noticed' = noticed \cup {k} /\ UNCHANGED <<pend, acts, faults, undrawn>>

\* A notice that cannot be updated leaves the card as it is, and so does the end of a
\* request that is no question while nobody is attached.
WithoutCard(k) == {a \in acts : \A p \in Cards(k) : a.group # p.group}
ResolveExternal(k) ==
    /\ pend' = pend \ Cards(k)
    /\ acts' = WithoutCard(k)
    /\ reply' = [x \in Conversations |->
                    IF Cards(k) # {} /\ reply[x] = k THEN Nobody ELSE reply[x]]
Resolved(k) ==
    /\ queued' = queued \ {k} /\ noticed' = noticed \ {k}
    /\ undrawn' = undrawn \ {k}
    /\ \/ /\ k \in queued \/ at # Nobody
          /\ ResolveExternal(k) /\ UNCHANGED <<faults, lost>>
       \/ /\ k \notin queued /\ at = Nobody
          /\ lost' = lost \cup {k} /\ UNCHANGED <<pend, acts, reply, faults>>
       \/ /\ k \in noticed /\ Fault
          /\ lost' = lost \cup {k} /\ UNCHANGED <<pend, acts, reply>>

InvalidateSession ==
    /\ queued' = {} /\ noticed' = {} /\ pend' = {} /\ acts' = {} /\ undrawn' = {}
    /\ reply' = [x \in Conversations |-> Nobody]

HandleEvent ==
    /\ net # <<>>
    /\ LET e == Head(net) IN
       \/ e.type = "requested" /\ Requested(e.key) /\ UNCHANGED <<reply, lost>>
       \/ e.type = "resolved" /\ Resolved(e.key)
       \/ e.type = "offline" /\ InvalidateSession /\ UNCHANGED <<faults, lost>>
    /\ net' = Tail(net)
    /\ UNCHANGED <<native, seen, route, at, epoch, drops, moves, answers>>

\* recover_event_gap: events were lost; every control is cleared.
RecoverEventGap ==
    /\ Fault /\ net # <<>>
    /\ net' = <<>>
    /\ pend' = {} /\ acts' = {}
    /\ reply' = [x \in Conversations |-> Nobody]
    /\ undrawn' = undrawn \cup queued
    /\ lost' = lost \cup UNION {IF net[i].type = "offline" THEN queued ELSE {net[i].key} :
                                  i \in DOMAIN net}
    /\ UNCHANGED <<native, seen, route, queued, noticed, at, epoch, drops, moves, answers>>

----------------------------------------------------------------------------
\* show_queued_questions after an attach: the questions move to x, or their controls
\* are issued again for the new epoch.  A failure leaves the rest as it was (none of
\* them is reached when the history could not be sent); the binding has moved.
Attach(x) ==
    \E done \in SUBSET queued, hit \in SUBSET queued :
       LET part(k) == IF \E p \in Cards(k) : p.c = x /\ p.live
                      THEN (CHOOSE p \in Cards(k) : TRUE).cur ELSE 0
           issued(k) == {[b EXCEPT !.epoch = epoch'[x]] : b \in Buttons(x, k, FreshGroup(k))}
       IN  /\ done \subseteq hit /\ Cardinality(hit \ done) <= 1
           /\ Move
           /\ IF done = queued THEN UNCHANGED faults ELSE Fault
           /\ at' = x
           /\ epoch' = IF at = x THEN epoch ELSE [epoch EXCEPT ![x] = @ + 1]
           /\ pend' = {p \in pend : p.key \notin hit}
                      \cup {Card(x, k, part(k), FreshGroup(k)) : k \in done}
           /\ acts' = {a \in acts : \A k \in hit : a \in WithoutCard(k)}
                      \cup UNION {issued(k) : k \in done}
           /\ reply' = [y \in Conversations |->
                           IF reply[y] \in hit /\ Cards(reply[y]) # {} THEN Nobody
                           ELSE reply[y]]
           /\ undrawn' = (undrawn \ done) \cup (queued \ done)
    /\ UNCHANGED <<agentVars, queued, noticed, drops, answers, lost>>

\* The dialogs of a session that is detached are withdrawn (unobserve).
Detach ==
    /\ Move /\ at # Nobody /\ Len(net) < 2
    /\ at' = Nobody
    /\ epoch' = [epoch EXCEPT ![at] = @ + 1]
    /\ seen' = Cleared
    /\ route' = route \ Announced /\ net' = Withdrawn
    /\ UNCHANGED <<native, cardVars, drops, faults, logVars>>

\* Mutant: an answer to a part that is not the last one keeps its buttons.
NextPartSilent(x, k, p, b) ==
    /\ pend' = (pend \ {p}) \cup {Card(x, k, p.cur + 1, FreshGroup(k))}
    /\ acts' = b
NextPart(x, k, p, b) == Shown(x, k, p.cur + 1, b)

\* The card is taken out while it is worked on.  When its update fails it is not put
\* back.
CardFails(k, b) ==
    /\ Fault
    /\ pend' = pend \ Cards(k) /\ acts' = b
    /\ undrawn' = undrawn \cup {k}
    /\ UNCHANGED <<answers, lost>>

\* answer_input; b are the buttons that are left.  The question is forgotten when the
\* agent took the answer.
AnswerInput(x, k, b) ==
    \E p \in Cards(k) :
       \/ /\ p.cur + 1 < Parts
          /\ NextPart(x, k, p, b)
          /\ UNCHANGED <<agentVars, queued, noticed, drops, faults, logVars>>
       \/ /\ p.cur + 1 < Parts
          /\ CardFails(k, b)
          /\ UNCHANGED <<agentVars, queued, noticed, drops>>
       \/ /\ p.cur + 1 = Parts
          /\ pend' = pend \ {p} /\ acts' = b
          /\ \/ Resolve(k) /\ queued' = queued \ {k} /\ noticed' = noticed \ {k}
             \/ (ResolveFails(k) \/ ResolveRefused(k)) /\ UNCHANGED <<queued, noticed>>

\* handle_action: the button and its group are spent before the action runs.
PressSelect(x) ==
    \E a \in acts :
       LET b == RevokeGroup(acts, a.group) IN
       /\ a.kind = "select" /\ Consumes(x, a)
       /\ IF at = x /\ Cards(a.key) # {}
          THEN AnswerInput(x, a.key, b)
          ELSE acts' = b /\ UNCHANGED <<agentVars, queued, noticed, pend, drops, faults, logVars>>
       /\ UNCHANGED <<reply, at, epoch, moves>>
PressResolve(x) ==
    \E a \in acts :
       /\ a.kind = "resolve" /\ Consumes(x, a) /\ Len(net) < 2
       /\ acts' = RevokeGroup(acts, a.group)
       /\ pend' = pend \ Cards(a.key)
       /\ Resolve(a.key) \/ ResolveFails(a.key) \/ ResolveRefused(a.key)
       /\ UNCHANGED <<queued, noticed, reply, at, epoch, moves>>

\* begin_custom_input and the text that follows it.
PressCustom(x) ==
    \E a \in acts :
       LET k == a.key
           b == RevokeGroup(acts, a.group)
       IN  /\ Move
           /\ a.kind = "custom" /\ Consumes(x, a)
           /\ \/ /\ Cards(k) = {}
                 /\ acts' = b /\ UNCHANGED <<pend, reply, faults, logVars>>
              \/ /\ Cards(k) # {}
                 /\ pend' = {IF p.key = k THEN [p EXCEPT !.live = FALSE] ELSE p : p \in pend}
                 /\ acts' = b /\ reply' = [reply EXCEPT ![x] = k]
                 /\ UNCHANGED <<faults, logVars>>
              \/ /\ Cards(k) # {}
                 /\ CardFails(k, b) /\ UNCHANGED reply
           /\ UNCHANGED <<agentVars, queued, noticed, at, epoch, drops>>
TextReply(x) ==
    /\ reply[x] # Nobody
    /\ reply' = [reply EXCEPT ![x] = Nobody]
    /\ IF at = x /\ Cards(reply[x]) # {} THEN AnswerInput(x, reply[x], acts)
       ELSE UNCHANGED <<agentVars, queued, noticed, pend, acts, drops, faults, logVars>>
    /\ UNCHANGED <<at, epoch, moves>>

\* cancel_pending_reply shows the buttons of the question again (show_input_question).
CancelReply(x) ==
    /\ Move
    /\ reply[x] # Nobody
    /\ reply' = [reply EXCEPT ![x] = Nobody]
    /\ \/ Cards(reply[x]) = {} /\ UNCHANGED <<pend, acts, faults, logVars>>
       \/ \E p \in Cards(reply[x]) :
             Shown(x, p.key, p.cur, acts) /\ UNCHANGED <<faults, logVars>>
       \/ Cards(reply[x]) # {} /\ CardFails(reply[x], acts)
    /\ UNCHANGED <<agentVars, queued, noticed, at, epoch, drops>>

----------------------------------------------------------------------------
Next ==
    \/ \E r \in Interaction : Announce(r) \/ AnsweredNatively(r) \/ DialogAppears(r)
                           \/ RecordDialog(r)
    \/ Disconnected \/ HandleEvent \/ RecoverEventGap \/ Detach
    \/ \E x \in Conversations :
          Attach(x) \/ PressSelect(x) \/ PressResolve(x) \/ PressCustom(x)
          \/ TextReply(x) \/ CancelReply(x)

\* A button that can be pressed, and what the attached conversation can answer with a
\* button or a text.
Pressable(x, k) == \E a \in acts : a.key = k /\ a.c = x /\ Consumes(x, a) /\ Cards(k) # {}
Usable(k) == at # Nobody /\ (Pressable(at, k) \/ (reply[at] = k /\ Cards(k) # {}))

\* An answer reaches the agent at most once, whoever answered first
\* (route_interaction, ActionRegistry::consume).  Once the events are handled, no
\* button of a card that is kept answers a request that is closed, in whichever
\* conversation it is; and the attached conversation has a working control for every
\* open question (question_flows.rs).  A question whose card failed has none, however
\* often it is announced, until the next attach that succeeds shows it again
\* (undrawn).  Nothing is said of a request whose events were lost or met nobody
\* (the buttons of an approval stay in a conversation it was taken from), of one whose
\* answer the agent refused after its route was spent, of one whose notice could not
\* be updated, and of one announced twice and answered in between, whose second card
\* answers nothing (lost).
ControlsMatch ==
    /\ \A r \in Interaction : answers[r] <= 1
    /\ net = <<>> =>
          \A k \in Keys \ lost :
             /\ Usable(k) \/ (\E x \in Conversations : Pressable(x, k)) => k \in route
             /\ k[1] \in Questions /\ k \in route /\ k \notin undrawn /\ at # Nobody => Usable(k)
=============================================================================
