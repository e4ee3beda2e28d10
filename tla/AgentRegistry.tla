---------------------------- MODULE AgentRegistry ----------------------------
(***************************************************************************)
(* What an agent asks a person has two sources (registry.rs): a request of *)
(* its protocol, which the registry gives a token and a route back, and a  *)
(* dialog its terminal shows, which an observer reads every 750 ms         *)
(* (registry/terminal.rs).  The events of a backend, the observer and the  *)
(* person who answers run side by side.                                    *)
(***************************************************************************)
EXTENDS Naturals, Sequences, FiniteSets, SequencesExt

CONSTANTS Nobody, Backends,
          Own,          \* the backend whose session is observed; one session each
          Clients,      \* processes the observed session can be in
          Dialogs,      \* fingerprints of dialogs
          MaxAsks, MaxMoves

VARIABLES
    asked, asks,    \* [backend -> number of requests; those not resolved]
    stream,         \* [backend -> its events on their way]
    routes,         \* [token -> [kind, native]]
    routing,        \* the request whose route is about to be written
    client, screen, \* where the session runs; [client -> what its terminal shows]
    observed,       \* the session is attached
    switches,       \* client that is to start a new session (switches)
    seen,           \* the dialog seen last: [client, dialog, count, token, answered]
    pending,        \* [token -> [client, dialog, switching]]
    inspection,     \* [step, client, dialog]
    response,       \* an answer being given to the terminal
    held,           \* the client's next session is expected (set_native_session_switch)
    shown,          \* history: tokens a person can press
    lost,           \* history: [backend -> requests that can no longer be answered]
    went,           \* history: the client was told to start its new session
    tokens, moves

vars == <<asked, asks, stream, routes, routing, client, screen, observed, switches, seen, pending,
          inspection, response, held, shown, lost, went, tokens, moves>>
hosts == <<asked, asks, stream, lost>>
terminal == <<client, screen>>
observer == <<observed, switches, seen, pending>>

Rest == [step |-> "rest"]
Move == moves < MaxMoves /\ moves' = moves + 1
Others(f, S) == [x \in DOMAIN f \ S |-> f[x]]

Init ==
    /\ asked = [k \in Backends |-> 0] /\ asks = [k \in Backends |-> {}]
    /\ stream = [k \in Backends |-> <<>>] /\ routes = <<>> /\ routing = Nobody
    /\ client = (CHOOSE c \in Clients : TRUE) /\ screen = [c \in Clients |-> Nobody]
    /\ observed = FALSE /\ switches = Nobody /\ seen = Nobody /\ pending = <<>>
    /\ inspection = Rest /\ response = Nobody /\ held = FALSE /\ shown = {}
    /\ lost = [k \in Backends |-> {}] /\ went = FALSE /\ tokens = 0 /\ moves = 0

----------------------------------------------------------------------------
(* The agents and their terminals *)

Emit(k, e) == stream' = [stream EXCEPT ![k] = Append(@, e)]

HostAsks(k) ==
    /\ asked[k] < MaxAsks /\ Move
    /\ asked' = [asked EXCEPT ![k] = @ + 1]
    /\ asks' = [asks EXCEPT ![k] = @ \union {asked[k] + 1}]
    /\ Emit(k, <<"ask", asked[k] + 1>>)
    /\ UNCHANGED <<routes, routing, terminal, observer, inspection, response, held, shown, lost,
                   went, tokens>>

\* A backend that connects again repeats what is not resolved.
HostRepeats(k) ==
    /\ Move
    /\ \E r \in asks[k] : Emit(k, <<"ask", r>>)
    /\ UNCHANGED <<asked, asks, routes, routing, terminal, observer, inspection, response, held,
                   shown, lost, went, tokens>>

HostResolves(k) ==
    /\ \E r \in asks[k] : asks' = [asks EXCEPT ![k] = @ \ {r}] /\ Emit(k, <<"done", r>>)
    /\ UNCHANGED <<asked, routes, routing, terminal, observer, inspection, response, held, shown,
                   lost, went, tokens, moves>>

\* The session ends, a switch of it fails, or it is not reached any more.
HostTells(k) ==
    /\ Move
    /\ \/ asks' = [asks EXCEPT ![k] = {}] /\ Emit(k, <<"gone", 0>>)
       \/ asks' = asks /\ \E e \in {"failed", "offline"} : Emit(k, <<e, 0>>)
    /\ UNCHANGED <<asked, routes, routing, terminal, observer, inspection, response, held, shown,
                   lost, went, tokens>>

\* The backend disconnects, or its oldest events are dropped.
HostLags(k) ==
    /\ Move
    /\ \E n \in 0..Len(stream[k]) :
         stream' = [stream EXCEPT ![k] = <<<<"lag", 0>>>> \o SubSeq(@, n + 1, Len(@))]
    /\ UNCHANGED <<asked, asks, routes, routing, terminal, observer, inspection, response, held,
                   shown, lost, went, tokens>>

TerminalChanges ==
    /\ Move
    /\ \/ \E c \in Clients, d \in Dialogs \union {Nobody} :
            screen' = [screen EXCEPT ![c] = d] /\ client' = client
       \/ client' \in Clients /\ screen' = screen
    /\ UNCHANGED <<hosts, routes, routing, observer, inspection, response, held, shown, went, tokens>>

----------------------------------------------------------------------------
(* The events of a backend *)

\* Mutant: the dialog is forgotten but its card stays.
ClearQuietly(closed) ==
    /\ seen' = Nobody
    /\ pending' = IF seen # Nobody THEN Others(pending, {seen.token}) ELSE pending
    /\ shown' = shown \ closed

\* clear: the dialog is forgotten, its card closed; with it what else is closed.
Clear(closed) ==
    /\ seen' = Nobody
    /\ pending' = IF seen # Nobody THEN Others(pending, {seen.token}) ELSE pending
    /\ shown' = (IF seen # Nobody THEN shown \ {seen.token} ELSE shown) \ closed

RoutesOf(k) == {t \in DOMAIN routes : routes[t].kind = k}
Routed == RoutesOf(Own) # {}

\* Mutant: a session that ends keeps its routes.
NoneGone(k) == {}

GoneOf(k) == RoutesOf(k)

\* backend_event and then route_interaction; a request writes its route afterwards.
Handle(k) ==
    /\ routing = Nobody /\ stream[k] # <<>>
    /\ stream' = [stream EXCEPT ![k] = Tail(@)]
    /\ LET e == Head(stream[k])[1]
           r == Head(stream[k])[2]
           done == {t \in RoutesOf(k) : e = "done" /\ routes[t].native = r}
           drop == IF e \in {"gone", "offline", "lag"} THEN GoneOf(k) ELSE done
       IN  /\ routing' = IF e = "ask" THEN [kind |-> k, native |-> r] ELSE Nobody
           /\ routes' = Others(routes, drop)
           /\ IF k = Own /\ e \in {"ask", "gone", "failed"} THEN Clear(drop)
              ELSE shown' = shown \ drop /\ UNCHANGED <<seen, pending>>
           /\ switches' = IF k = Own /\ e \in {"gone", "failed"} THEN Nobody ELSE switches
           /\ lost' = IF e \in {"offline", "lag"} THEN [lost EXCEPT ![k] = @ \union asks[k]] ELSE lost
    /\ UNCHANGED <<asked, asks, terminal, observed, inspection, response, held, went, tokens, moves>>

\* Mutant: a repeated request gets another token.
KnownNever == {}

Known == {t \in DOMAIN routes : routes[t] = routing}

\* A repeated request keeps its token.
Route ==
    /\ routing # Nobody /\ routing' = Nobody
    /\ IF Known # {} THEN UNCHANGED <<routes, shown, tokens>>
       ELSE /\ tokens' = tokens + 1 /\ shown' = shown \union {tokens + 1}
            /\ routes' = [t \in DOMAIN routes \union {tokens + 1} |->
                            IF t = tokens + 1 THEN routing ELSE routes[t]]
    /\ UNCHANGED <<hosts, terminal, observer, inspection, response, held, went, moves>>

----------------------------------------------------------------------------
(* The observer *)

\* attach and unsubscribe
Observe ==
    /\ ~observed /\ observed' = TRUE
    /\ UNCHANGED <<hosts, routes, routing, terminal, switches, seen, pending, inspection, response,
                   held, shown, went, tokens, moves>>

Unobserve ==
    /\ observed /\ observed' = FALSE /\ switches' = Nobody /\ Clear({}) /\ Move
    /\ UNCHANGED <<hosts, routes, routing, terminal, inspection, response, held, went, tokens>>

\* A session of the client is to be replaced; a command that fails takes it back.
Switch ==
    /\ Move
    /\ switches' \in {client, Nobody} \ {switches}
    /\ UNCHANGED <<hosts, routes, routing, terminal, observed, seen, pending, inspection, response,
                   held, shown, went, tokens>>

\* A request writes its route in much less than the time between two ticks.
Tick ==
    /\ observed /\ inspection = Rest /\ routing = Nobody
    /\ IF Routed THEN seen # Nobody /\ Clear({}) /\ UNCHANGED <<inspection, moves>>
       ELSE inspection' = [step |-> "asked", client |-> client] /\ UNCHANGED <<seen, pending, shown, moves>>
    /\ UNCHANGED <<hosts, routes, routing, terminal, observed, switches, response, held, went, tokens>>

\* The terminal is read, or does not answer in time; meanwhile a request may have come.
Inspect ==
    /\ inspection.step = "asked"
    /\ IF Routed THEN Clear({}) /\ inspection' = Rest /\ moves' = moves
       ELSE \E d \in {screen[inspection.client], Nobody} :
              /\ inspection' = [step |-> "read", client |-> inspection.client, dialog |-> d]
              /\ IF d = screen[inspection.client] THEN moves' = moves ELSE Move
              /\ UNCHANGED <<seen, pending, shown>>
    /\ UNCHANGED <<hosts, routes, routing, terminal, observed, switches, response, held, went, tokens>>

Same == seen # Nobody /\ seen.client = inspection.client /\ seen.dialog = inspection.dialog

\* Mutant: a dialog is offered at the first sight.
Once == TRUE

Twice == Same

Sight == [client |-> inspection.client, dialog |-> inspection.dialog, token |-> 0, answered |-> FALSE]

\* record: a dialog is offered when it was seen twice, and once.
Record ==
    /\ inspection.step = "read" /\ inspection' = Rest
    /\ \/ ~observed /\ UNCHANGED <<seen, pending, shown, tokens>>
       \/ observed /\ inspection.dialog = Nobody /\ Clear({}) /\ UNCHANGED tokens
       \/ /\ observed /\ inspection.dialog # Nobody /\ ~Twice
          /\ seen' = Sight /\ UNCHANGED tokens
          /\ pending' = IF seen # Nobody THEN Others(pending, {seen.token}) ELSE pending
          /\ shown' = IF seen # Nobody THEN shown \ {seen.token} ELSE shown
       \/ /\ observed /\ inspection.dialog # Nobody /\ Twice
          /\ LET s == IF Same THEN seen ELSE Sight
             IN  IF s.token # 0 \/ s.answered THEN UNCHANGED <<seen, pending, shown, tokens>>
                 ELSE /\ tokens' = tokens + 1 /\ seen' = [s EXCEPT !.token = tokens + 1]
                      /\ shown' = shown \union {tokens + 1}
                      /\ pending' = [t \in DOMAIN pending \union {tokens + 1} |->
                                       IF t = tokens + 1
                                       THEN [client |-> s.client, dialog |-> s.dialog,
                                             switching |-> switches = s.client]
                                       ELSE pending[t]]
    /\ UNCHANGED <<hosts, routes, routing, terminal, observed, switches, response, held, went, moves>>

----------------------------------------------------------------------------
(* A person answers *)

\* resolve_interaction: the route is used up, whether the host takes the answer or not.
Answer ==
    /\ \E t \in DOMAIN routes :
         LET k == routes[t].kind
             r == routes[t].native
         IN  /\ routes' = Others(routes, {t}) /\ shown' = shown \ {t}
             /\ \/ /\ r \in asks[k] /\ asks' = [asks EXCEPT ![k] = @ \ {r}]
                   /\ Emit(k, <<"done", r>>) /\ UNCHANGED <<lost, moves>>
                \/ Move /\ lost' = [lost EXCEPT ![k] = @ \union {r}] /\ UNCHANGED <<asks, stream>>
    /\ UNCHANGED <<asked, routing, terminal, observer, inspection, response, held, went, tokens>>

\* respond, first part: the card is used up.
Respond ==
    /\ response = Nobody
    /\ \E t \in DOMAIN pending, cancel \in BOOLEAN :
         /\ response' = pending[t] @@ [token |-> t, cancel |-> cancel, step |-> "taken"]
         /\ pending' = Others(pending, {t})
         /\ seen' = IF seen # Nobody THEN [seen EXCEPT !.answered = TRUE, !.token = 0] ELSE seen
    /\ UNCHANGED <<hosts, routes, routing, terminal, observed, switches, inspection, held, shown,
                   went, tokens, moves>>

\* Mutant: only a cancellation is taken back.
RevokesCancel(pressed) == response.switching /\ response.cancel

Revokes(pressed) == response.switching /\ (~pressed \/ response.cancel)

Finish(pressed) ==
    /\ response' = Nobody /\ shown' = shown \ {response.token}
    /\ held' = IF Revokes(pressed) THEN FALSE ELSE held
    /\ went' = IF pressed /\ response.switching THEN ~response.cancel ELSE went

\* The session must still be attached and in the same client; then a new session of
\* the client is announced.
Announce ==
    /\ response # Nobody /\ response.step = "taken"
    /\ IF ~observed \/ client # response.client THEN Finish(FALSE)
       ELSE /\ response' = [response EXCEPT !.step = "announced"] /\ shown' = shown
            /\ held' = IF response.switching THEN ~response.cancel ELSE held
            /\ went' = IF response.switching THEN FALSE ELSE went
    /\ UNCHANGED <<hosts, routes, routing, terminal, observer, inspection, tokens, moves>>

\* The keys are pressed while the terminal shows the same dialog, or that fails.
Press ==
    /\ response # Nobody /\ response.step = "announced"
    /\ \/ /\ screen[response.client] = response.dialog /\ Finish(TRUE)
          /\ screen' = [screen EXCEPT ![response.client] = Nobody]
       \/ Finish(FALSE) /\ screen' = screen
    /\ UNCHANGED <<hosts, routes, routing, client, observer, inspection, tokens, moves>>

Next ==
    \/ \E k \in Backends :
         HostAsks(k) \/ HostRepeats(k) \/ HostResolves(k) \/ HostTells(k) \/ HostLags(k) \/ Handle(k)
    \/ TerminalChanges \/ Route \/ Observe \/ Unobserve \/ Switch
    \/ Tick \/ Inspect \/ Record
    \/ Answer \/ Respond \/ Announce \/ Press

Spec == Init /\ [][Next]_vars

----------------------------------------------------------------------------
(* Properties *)

\* An agent never asks through its terminal's card and through its protocol at once.
OneAsker == DOMAIN pending # {} => ~Routed /\ Cardinality(DOMAIN pending) = 1

\* What a person can press is what somebody waits for, or is giving now: no card is left
\* behind, and none is closed whose dialog or request still waits for it.
CardsLive ==
    shown = DOMAIN routes \union DOMAIN pending \union (IF response = Nobody THEN {} ELSE {response.token})

Coming(k, e) == \E n \in DOMAIN stream[k] : stream[k][n][1] \in e

\* A token is for one request, which is open or about to be closed; and an open request
\* has one, unless it was lost with the connection or in an answer.
TokensTrue ==
    /\ \A t, u \in DOMAIN routes : routes[t] = routes[u] => t = u
    /\ \A t \in DOMAIN routes :
         LET k == routes[t].kind
             r == routes[t].native
         IN  r \in asks[k] \/ Contains(stream[k], <<"done", r>>) \/ Coming(k, {"gone", "offline", "lag"})
    /\ \A k \in Backends : \A r \in asks[k] \ lost[k] :
         \/ \E t \in DOMAIN routes : routes[t] = [kind |-> k, native |-> r]
         \/ routing = [kind |-> k, native |-> r]
         \/ Contains(stream[k], <<"ask", r>>) \/ Coming(k, {"lag"})

\* A new session is not expected of a client that was not told to start it.
SwitchTaken == held /\ response = Nobody => went

RegistryTrue == OneAsker /\ CardsLive /\ TokensTrue /\ SwitchTaken
=============================================================================
