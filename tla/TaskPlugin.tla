------------------------------ MODULE TaskPlugin ------------------------------
(***************************************************************************)
(* The Taskix plugin inside an OpenCode server (plugins/taskix-manager     *)
(* opencode/runtime.mjs), for one session: it follows the session's        *)
(* prompts from hooks and from a stream of events that comes later, has    *)
(* each routed once before the model sees it, keeps what is going on in    *)
(* the host's storage, and forgets sessions that are idle.                 *)
(***************************************************************************)
EXTENDS Naturals, Sequences, SequencesExt

CONSTANTS Nobody,
          Prompts,
          MaxCalls,   \* bound: calls of the model
          MaxFaults   \* bound: failed preparations or writes, and restarts

VARIABLES
    place,       \* host: each prompt is "new", "asked", "inbox", "said" or "gone"
    transcript,  \* host: the prompts that were delivered
    running,     \* host: the session executes
    events,      \* the stream, oldest first
    plugin,      \* the plugin's state of the session, Nobody if it has none
    trimming,    \* the state that is being shut down is the one in use
    saved,       \* the storage's record of the session: turns and current
    misled,      \* history: the model was given the context of another prompt than the newest
    whole,       \* history: no event and no prompt that was asked for was lost so far
    routed,      \* history: how often each prompt was routed to the end
    calls, faults

host == <<place, transcript, running>>
vars == <<place, transcript, running, events, plugin, trimming, saved, misled, whole, routed, calls, faults>>

Fresh == [pending |-> {}, admitted |-> {}, seen |-> {}, turns |-> {}, current |-> Nobody, context |-> Nobody]

Init ==
    /\ place = [m \in Prompts |-> "new"] /\ transcript = <<>> /\ running = FALSE
    /\ events = <<>> /\ plugin = Nobody /\ trimming = FALSE /\ saved = Nobody
    /\ misled = FALSE /\ whole = TRUE /\ routed = [m \in Prompts |-> 0] /\ calls = 0 /\ faults = 0

Fault == faults < MaxFaults /\ faults' = faults + 1
Emit(e) == events' = Append(events, e)

\* session: the state in use, or one made from what was saved; a record that the session
\* has outlived (it became idle after the write) is removed.
Stale == saved # Nobody /\ ~running
Loaded ==
    IF saved = Nobody \/ Stale THEN Fresh
    ELSE [Fresh EXCEPT !.seen = saved.turns, !.turns = saved.turns,
                       !.current = saved.current, !.context = saved.current]
State == IF plugin = Nobody THEN Loaded ELSE plugin
Kept == IF plugin = Nobody /\ Stale THEN Nobody ELSE saved

----------------------------------------------------------------------------
(* What the plugin does in one turn of the session's chain *)

\* stage, when the prompt was not consumed.
Staged(p, m, admitted) ==
    IF m \in p.seen THEN p
    ELSE [p EXCEPT !.pending = @ \union {m},
                   !.admitted = IF admitted THEN @ \union {m} ELSE @ \ {m}]

Forgotten(p, m) == [p EXCEPT !.pending = @ \ {m}, !.admitted = @ \ {m}]

\* Mutant: a prompt that was consumed is routed again.
ConsumedNever(p, m) == FALSE

Consumed(p, m) == m \in p.seen

\* activate: routed, recorded in the storage, and only then consumed.
Activated(p, m) ==
    [Forgotten(p, m) EXCEPT !.turns = @ \union {m}, !.current = m, !.context = m, !.seen = @ \union {m}]

\* reconcile: the delivered prompts that the transcript has and the plugin expects.
ToActivate(p, m) ==
    SelectSeq(transcript, LAMBDA x :
        /\ ~Consumed(p, x)
        /\ x = m \/ x \in p.pending \/ (p.current = Nobody /\ x = Last(transcript)))

Reconciled(p, m) ==
    LET q == FoldLeft(Activated, p, ToActivate(p, m))
        said == ToSet(transcript)
    IN  [q EXCEPT !.pending = {x \in @ : x \in q.admitted \/ x \in said}]

\* Mutant: the record forgets which prompt is the current one.
RecordTurns(p) == IF p.turns = {} THEN Nobody ELSE [turns |-> p.turns, current |-> Nobody]

Record(p) == IF p.turns = {} THEN Nobody ELSE [turns |-> p.turns, current |-> p.current]

\* The state after a piece of work, and the record that goes with it.
Becomes(p, new) ==
    /\ plugin' = new
    /\ routed' = [m \in Prompts |->
          routed[m] + IF m \in new.seen /\ ~Consumed(p, m) /\ (m \notin p.seen \/ new.current = m)
                      THEN 1 ELSE 0]
    /\ saved' = IF new.turns = p.turns /\ new.current = p.current THEN Kept ELSE Record(new)

----------------------------------------------------------------------------
(* Hooks *)

\* The prompt hook, before the host takes the prompt.
Ask(m) ==
    /\ place[m] = "new" /\ place' = [place EXCEPT ![m] = "asked"]
    /\ Becomes(State, Staged(State, m, FALSE))
    /\ UNCHANGED <<transcript, running, events, trimming, misled, whole, calls, faults>>

\* The context hook: the model is called.  Reconciles when something may be unknown.
Call ==
    /\ running /\ transcript # <<>> /\ calls < MaxCalls /\ calls' = calls + 1
    /\ LET p == State
           new == IF p.pending # {} \/ p.current = Nobody THEN Reconciled(p, Nobody) ELSE p
       IN  /\ Becomes(p, new)
           /\ misled' = (misled \/ (whole /\ events = <<>> /\ new.context # Last(transcript)))
    /\ UNCHANGED <<host, events, trimming, whole, faults>>

----------------------------------------------------------------------------
(* The host *)

Take(m) ==
    /\ place[m] = "asked"
    /\ \/ place' = [place EXCEPT ![m] = "inbox"] /\ Emit(<<"enqueued", m>>)
       \/ place' = [place EXCEPT ![m] = "gone"] /\ UNCHANGED events
    /\ UNCHANGED <<transcript, running, plugin, trimming, saved, misled, whole, routed, calls, faults>>

Deliver(m) ==
    /\ place[m] = "inbox" /\ place' = [place EXCEPT ![m] = "said"]
    /\ transcript' = Append(transcript, m) /\ running' = TRUE /\ Emit(<<"delivered", m>>)
    /\ UNCHANGED <<plugin, trimming, saved, misled, whole, routed, calls, faults>>

Cancel(m) ==
    /\ place[m] = "inbox" /\ place' = [place EXCEPT ![m] = "gone"] /\ Emit(<<"cancelled", m>>)
    /\ UNCHANGED <<transcript, running, plugin, trimming, saved, misled, whole, routed, calls, faults>>

\* The execution succeeds, fails or is interrupted.
Finish ==
    /\ running /\ running' = FALSE /\ Emit(<<"ended", Nobody>>)
    /\ UNCHANGED <<place, transcript, plugin, trimming, saved, misled, whole, routed, calls, faults>>

----------------------------------------------------------------------------
(* The stream *)

\* settle: every turn is ended; the record goes.
Settled(p) == [p EXCEPT !.turns = {}, !.current = Nobody]

Handled(p, e) ==
    CASE e[1] = "enqueued" -> Staged(p, e[2], TRUE)
      [] e[1] = "delivered" ->
           IF e[2] \in p.pending THEN (IF Consumed(p, e[2]) THEN p ELSE Activated(p, e[2]))
           ELSE IF Consumed(p, e[2]) THEN p ELSE Reconciled(p, e[2])
      [] e[1] = "cancelled" -> Forgotten(p, e[2])
      [] e[1] = "ended" -> IF p.turns = {} THEN p ELSE Settled(p)

\* An event of a session the plugin does not have is passed over.  A failed preparation or
\* write changes nothing: the prompt stays to be tried again.
Event ==
    /\ events # <<>> /\ events' = Tail(events)
    /\ \/ plugin # Nobody /\ Becomes(plugin, Handled(plugin, Head(events))) /\ UNCHANGED <<whole, faults>>
       \/ /\ IF plugin = Nobody THEN UNCHANGED faults ELSE Fault /\ Head(events)[1] # "cancelled"
          /\ whole' = FALSE /\ UNCHANGED <<plugin, saved, routed>>
    /\ UNCHANGED <<host, trimming, misled, calls>>

----------------------------------------------------------------------------
(* Idle sessions and restarts *)

AtRest == events = <<>> /\ plugin.pending = {}

Spared == plugin.turns # {}

\* trimSessions: chosen while idle; the session-end hook takes its time.
Trim ==
    /\ plugin # Nobody /\ ~trimming /\ ~Spared /\ Fault
    /\ trimming' = TRUE
    /\ UNCHANGED <<host, events, plugin, saved, misled, whole, routed, calls>>

Trimmed ==
    /\ trimming /\ trimming' = FALSE /\ plugin' = Nobody /\ whole' = (whole /\ AtRest)
    /\ UNCHANGED <<host, events, saved, misled, routed, calls, faults>>

\* The server stops; the events that nobody read are lost.  An execution is resumed.
Restart ==
    /\ plugin # Nobody /\ Fault
    /\ plugin' = Nobody /\ trimming' = FALSE /\ events' = <<>> /\ whole' = (whole /\ AtRest)
    /\ UNCHANGED <<host, saved, misled, routed, calls>>

Next ==
    \/ \E m \in Prompts : Ask(m) \/ Take(m) \/ Deliver(m) \/ Cancel(m)
    \/ Call \/ Finish \/ Event \/ Trim \/ Trimmed \/ Restart

Spec == Init /\ [][Next]_vars

----------------------------------------------------------------------------
\* Once the events have caught up, the model is given the context of the newest prompt,
\* also after a restart or after the session was forgotten, if nothing was on its way then.
ContextCurrent == ~misled

\* When the session is idle and its events are handled, no turn of it is open.
TurnsClosed == events = <<>> /\ ~running /\ plugin # Nobody /\ whole => plugin.turns = {}

\* A prompt is routed at most once, but for restarts and sessions that were forgotten.
RoutedOnce == \A m \in Prompts : routed[m] <= 1 + faults

PluginTrue == ContextCurrent /\ TurnsClosed /\ RoutedOnce
=============================================================================
