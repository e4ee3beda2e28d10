-------------------------------- MODULE Reload --------------------------------
(***************************************************************************)
(* A running service reads its configuration again (reload.rs): a          *)
(* candidate is built beside it, checked against the bot it talks to, and  *)
(* takes over its conversations, its queue and every connection that did   *)
(* not change.  Meanwhile the user edits the file, people write to the bot *)
(* and an owner is claimed with a code (main.rs).                          *)
(***************************************************************************)
EXTENDS Naturals, Sequences, FiniteSets

CONSTANTS Nobody, People,
          Configs,      \* [bot, key, owners, agents, codex, fixed]
          First,        \* the configuration the service started with
          QueueLimit,   \* messages that wait for the engine (256)
          MaxMoves, MaxAdapters

VARIABLES
    file,       \* the configuration on disk
    service,    \* what runs: [conf, channel, agents]
    adapters,   \* channel adapters built so far, see NewAdapter
    tasks,      \* adapters whose task runs: [id -> "runs" or "cancelled"]
    identity,   \* the bot the service talks to
    call,       \* the reload in progress: [phase, conf, channel, agents]
    inbound, received, handled,
    code,       \* the claim code: [id, up]
    claim,      \* a claim being carried out: [person, code, adapter, step]
    codes,      \* codes given out
    redeemed,   \* history: [person, code] of successful claims
    claimed,    \* history: owners claimed since the configuration was taken up
    cut,        \* history: codes whose claim was cut off by a reload
    builds, moves

vars == <<file, service, adapters, tasks, identity, call, inbound, received, handled, code, claim,
          codes, redeemed, claimed, cut, builds, moves>>

NewAdapter(c) == [bot |-> c.bot, key |-> c.key, owners |-> c.owners, claimer |-> c.owners = {}, done |-> FALSE]
Idle == [phase |-> "idle"]
Move == moves < MaxMoves /\ moves' = moves + 1
Up == call.phase # "down"

Init ==
    /\ file = First /\ adapters = <<NewAdapter(First)>> /\ identity = First.bot
    /\ service = [conf |-> First, channel |-> 1, agents |-> [a \in First.agents |-> 1]]
    /\ tasks = [a \in {1} |-> "runs"] /\ call = Idle
    /\ inbound = <<>> /\ received = 0 /\ handled = 0
    /\ code = [id |-> 0, up |-> FALSE] /\ claim = Nobody /\ codes = 0
    /\ redeemed = {} /\ claimed = {} /\ cut = {} /\ builds = 1 /\ moves = 0

----------------------------------------------------------------------------
(* The reload *)

Edit ==
    /\ Move /\ file' \in Configs \ {file}
    /\ UNCHANGED <<service, adapters, tasks, identity, call, inbound, received, handled, code, claim,
                   codes, redeemed, claimed, cut, builds>>

\* load_candidate: what was set up once cannot change.
Acceptable(c) == c.fixed = service.conf.fixed /\ c.codex = service.conf.codex

\* One reload at a time; a candidate that is not acceptable changes nothing.
Reload ==
    /\ call.phase = "idle" /\ Acceptable(file) /\ Move
    /\ call' = [phase |-> "building", conf |-> file]
    /\ UNCHANGED <<file, service, adapters, tasks, identity, inbound, received, handled, code, claim,
                   codes, redeemed, claimed, cut, builds>>

\* Mutant: a connection is compared by its bot alone.
SameBot(c) == service.conf.bot = c.bot

\* same_channel_connection
SameConnection(c) == service.conf.bot = c.bot /\ service.conf.key = c.key

\* build_service: what did not change is used again.
Build ==
    /\ call.phase = "building" /\ Len(adapters) < MaxAdapters
    /\ LET c == call.conf
           fresh == ~SameConnection(c)
       IN  /\ call' = [phase |-> "validating", conf |-> c,
                       channel |-> IF fresh THEN Len(adapters) + 1 ELSE service.channel,
                       agents |-> [a \in c.agents |-> IF a \in DOMAIN service.agents
                                                      THEN service.agents[a] ELSE builds + 1]]
           /\ adapters' = IF fresh THEN Append(adapters, NewAdapter(c)) ELSE adapters
           /\ builds' = IF c.agents \subseteq DOMAIN service.agents THEN builds ELSE builds + 1
    /\ UNCHANGED <<file, service, tasks, identity, inbound, received, handled, code, claim, codes,
                   redeemed, claimed, cut, moves>>

\* Building or checking fails or takes too long: the call is told, the service goes on.
Fail ==
    /\ call.phase \in {"building", "validating"} /\ call' = Idle
    /\ UNCHANGED <<file, service, adapters, tasks, identity, inbound, received, handled, code, claim,
                   codes, redeemed, claimed, cut, builds, moves>>

\* Mutant: the new connection may belong to another bot.
AnyBot(a) == TRUE

\* prepare_reload
KnownBot(a) == adapters[a].bot = identity

Running(a) == a \in DOMAIN tasks /\ tasks[a] = "runs"

\* replace, first part: a connection that is not kept is told to stop.
Validate ==
    /\ call.phase = "validating"
    /\ call.channel = service.channel \/ KnownBot(call.channel)
    /\ call' = [call EXCEPT !.phase = "replacing"]
    /\ tasks' = [a \in DOMAIN tasks |-> IF a = call.channel THEN tasks[a] ELSE "cancelled"]
    /\ UNCHANGED <<file, service, adapters, identity, inbound, received, handled, code, claim, codes,
                   redeemed, claimed, cut, builds, moves>>

\* A task that was told to stop ends, or is cut off when the time is over.
TaskEnds ==
    \E a \in DOMAIN tasks :
        /\ tasks[a] = "cancelled"
        /\ tasks' = [b \in DOMAIN tasks \ {a} |-> tasks[b]]
        /\ IF claim # Nobody /\ claim.adapter = a
           THEN /\ cut' = cut \union {claim.code}
                /\ claim' = IF claim.step = "matched" THEN [claim EXCEPT !.step = "cut"] ELSE Nobody
           ELSE UNCHANGED <<claim, cut>>
        /\ UNCHANGED <<file, service, adapters, identity, call, inbound, received, handled, code,
                       codes, redeemed, claimed, builds, moves>>

\* Mutant: the new connection does not wait for the old one.
StoppedNever == TRUE

\* wait_for_channel_shutdown
Stopped == \A a \in DOMAIN tasks : tasks[a] = "runs"

\* Mutant: an owner who was taken off the list stays on the connection that is kept.
OwnersMore(a, c) == adapters[a].owners \union c.owners

OwnersOf(a, c) == c.owners

\* replace, second part.
Replace ==
    /\ call.phase = "replacing" /\ Stopped
    /\ LET a == call.channel
           c == call.conf
       IN  /\ tasks' = [b \in DOMAIN tasks \union {a} |-> "runs"]
           /\ claimed' = {}
           /\ adapters' = [adapters EXCEPT ![a].owners = OwnersOf(a, c)]
           /\ service' = [conf |-> c, channel |-> a, agents |-> call.agents]
    /\ call' = Idle
    /\ UNCHANGED <<file, identity, inbound, received, handled, code, claim, codes, redeemed, cut,
                   builds, moves>>

\* The signal is heard between two calls, and while a reload is prepared.
Stop ==
    /\ call.phase \in {"idle", "building", "validating"} /\ Move
    /\ call' = [phase |-> "down"] /\ inbound' = <<>>
    /\ tasks' = [a \in DOMAIN tasks |-> "cancelled"]
    /\ UNCHANGED <<file, service, adapters, identity, received, handled, code, claim, codes,
                   redeemed, claimed, cut, builds>>

----------------------------------------------------------------------------
(* The channel and the engine *)

\* A channel may fail on its own; the service does not notice.
TaskDies ==
    /\ Move
    /\ \E a \in DOMAIN tasks :
         /\ tasks[a] = "runs" /\ ~(claim # Nobody /\ claim.adapter = a)
         /\ tasks' = [b \in DOMAIN tasks \ {a} |-> tasks[b]]
    /\ UNCHANGED <<file, service, adapters, identity, call, inbound, received, handled, code, claim,
                   codes, redeemed, claimed, cut, builds>>

Receive ==
    /\ Up /\ Len(inbound) < QueueLimit /\ Move
    /\ \E a \in DOMAIN tasks, p \in People : p \in adapters[a].owners
    /\ received' = received + 1 /\ inbound' = Append(inbound, received + 1)
    /\ UNCHANGED <<file, service, adapters, tasks, identity, call, handled, code, claim, codes,
                   redeemed, claimed, cut, builds>>

\* Also while channels are replaced.
Handle ==
    /\ Up /\ inbound # <<>> /\ inbound' = Tail(inbound) /\ handled' = Head(inbound)
    /\ UNCHANGED <<file, service, adapters, tasks, identity, call, received, code, claim, codes,
                   redeemed, claimed, cut, builds, moves>>

----------------------------------------------------------------------------
(* The owner's claim *)

\* A code is for a service without an owner, and replaces the one before.
AskCode ==
    /\ Up /\ file.owners = {} /\ Move
    /\ code' = [id |-> codes + 1, up |-> TRUE] /\ codes' = codes + 1
    /\ UNCHANGED <<file, service, adapters, tasks, identity, call, inbound, received, handled, claim,
                   redeemed, claimed, cut, builds>>

Expire ==
    /\ code.up /\ code' = [code EXCEPT !.up = FALSE] /\ Move
    /\ UNCHANGED <<file, service, adapters, tasks, identity, call, inbound, received, handled, claim,
                   codes, redeemed, claimed, cut, builds>>

Match ==
    /\ code.up /\ claim = Nobody
    /\ \E a \in DOMAIN tasks, p \in People :
         /\ adapters[a].claimer /\ ~adapters[a].done
         /\ claim' = [person |-> p, code |-> code.id, adapter |-> a, step |-> "matched"]
    /\ UNCHANGED <<file, service, adapters, tasks, identity, call, inbound, received, handled, code,
                   codes, redeemed, claimed, cut, builds, moves>>

\* add_telegram_owner and the like; a write that began is not cut off.
Write ==
    /\ claim # Nobody /\ claim.step \in {"matched", "cut"}
    /\ \/ /\ claim' = IF claim.step = "cut" THEN Nobody ELSE [claim EXCEPT !.step = "written"]
          /\ file' = [file EXCEPT !.owners = @ \union {claim.person}]
          /\ redeemed' = redeemed \union {[person |-> claim.person, code |-> claim.code]}
       \/ claim' = Nobody /\ UNCHANGED <<file, redeemed>>
    /\ UNCHANGED <<service, adapters, tasks, identity, call, inbound, received, handled, code, codes,
                   claimed, cut, builds, moves>>

\* Mutant: a code is good until it expires, and for every connection.
ConsumeNever(c) == code

\* A newer code stays.
Consume(c) == IF code.id = c THEN [code EXCEPT !.up = FALSE] ELSE code

Claimed ==
    /\ claim # Nobody /\ claim.step = "written" /\ claim' = Nobody
    /\ code' = Consume(claim.code)
    /\ adapters' = [adapters EXCEPT ![claim.adapter].owners = @ \union {claim.person},
                                    ![claim.adapter].done = TRUE]
    /\ claimed' = claimed \union {claim.person}
    /\ UNCHANGED <<file, service, tasks, identity, call, inbound, received, handled, codes, redeemed,
                   cut, builds, moves>>

Next ==
    \/ Edit \/ Reload \/ Build \/ Fail \/ Validate \/ TaskEnds \/ Replace \/ Stop
    \/ TaskDies \/ Receive \/ Handle
    \/ AskCode \/ Expire \/ Match \/ Write \/ Claimed

Spec == Init /\ [][Next]_vars

----------------------------------------------------------------------------
(* Properties *)

\* Two tasks never take messages for the bot at once, and none for another bot.
OneConsumer ==
    /\ Cardinality(DOMAIN tasks) <= 1
    /\ \A a \in DOMAIN tasks : adapters[a].bot = First.bot

\* The service is one configuration: its connection is that of its settings, Codex and
\* what could not change are as they were, and every agent of it is there.
OneConfiguration ==
    /\ adapters[service.channel].key = service.conf.key
    /\ adapters[service.channel].bot = service.conf.bot
    /\ service.conf.fixed = First.fixed /\ service.conf.codex = First.codex
    /\ DOMAIN service.agents = service.conf.agents

\* Messages are handled in order, whatever is reloaded meanwhile.
NoneLost ==
    /\ handled <= received
    /\ Up => inbound = [n \in 1..(received - handled) |-> handled + n]

\* A code makes one owner, unless a reload cut its claim off after the file was written.
OneOwner == \A r, s \in redeemed : r.code = s.code /\ r.code \notin cut => r.person = s.person

\* The owners of the configuration in force are listened to, those who claimed since, and
\* nobody else.
Listened == adapters[service.channel].owners = service.conf.owners \union claimed

ReloadTrue == OneConsumer /\ OneConfiguration /\ NoneLost /\ OneOwner /\ Listened
=============================================================================
