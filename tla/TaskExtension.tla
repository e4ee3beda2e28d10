---------------------------- MODULE TaskExtension ----------------------------
(***************************************************************************)
(* The Taskix extension inside a host (plugins/taskix-manager runtime.mjs, *)
(* registerExtension): it renews the session's leases by a timer while the *)
(* session works, stops renewing and tells Taskix when it is interrupted   *)
(* or ends.                                                                *)
(*                                                                         *)
(* The host's handlers overlap: every await lets another one run.  Timer   *)
(* callbacks that are already queued run after their timer is cleared.     *)
(***************************************************************************)
EXTENDS Naturals, Sequences, FiniteSets, TLC

CONSTANTS Nobody,
          Sessions,
          MaxStarts,  \* bound: session_start events
          MaxTurns,   \* bound: prompts
          MaxFaults   \* bound: hooks that fail

VARIABLES
    st,       \* every state made by session_start
    active,   \* the one in use, 0 if none
    tasks,    \* the handlers at work
    timers,   \* the timers made so far: the state of each
    stopped,  \* history: sessions Taskix was told are interrupted or ended, since they last began
    late,     \* history: a stopped session was renewed
    turns, faults

vars == <<st, active, tasks, timers, stopped, late, turns, faults>>

None == 0
Handlers == {"start", "prompt", "finish", "shutdown"}
Idle == [step |-> "idle"]

Init ==
    /\ st = <<>> /\ active = 0 /\ tasks = [h \in Handlers |-> Idle] /\ timers = <<>>
    /\ stopped = {} /\ late = FALSE /\ turns = 0 /\ faults = 0

Fault == faults < MaxFaults /\ faults' = faults + 1

----------------------------------------------------------------------------
(* The timer *)

\* Mutant: the heartbeat on its way is left to finish.
PausedRunning(s) == [s EXCEPT !.timer = None]

\* pause: no more ticks, and the heartbeat on its way is aborted.
Paused(s) == [s EXCEPT !.timer = None, !.beat = IF @ = "live" THEN "aborted" ELSE @]

\* Mutant: a callback that was queued before its timer was cleared still works.
DueAny(n) == st[timers[n]].beat = "none"

Due(n) == active = timers[n] /\ st[timers[n]].timer = n /\ st[timers[n]].beat = "none"

Tick(n) ==
    /\ Due(n) /\ st' = [st EXCEPT ![timers[n]].beat = "live"]
    /\ UNCHANGED <<active, tasks, timers, stopped, late, turns, faults>>

\* The heartbeat reaches the store, or does not; an aborted one no longer does.
BeatEnds(i) ==
    /\ st[i].beat # "none" /\ st' = [st EXCEPT ![i].beat = "none"]
    /\ late' = (late \/ (st[i].beat = "live" /\ st[i].session \in stopped))
    /\ UNCHANGED <<active, tasks, timers, stopped, turns, faults>>

\* renew: one timer at most.
Renewed(states, i) ==
    IF states[i].timer # None THEN [st |-> states, timers |-> timers]
    ELSE [st |-> [states EXCEPT ![i].timer = Len(timers) + 1], timers |-> Append(timers, i)]

----------------------------------------------------------------------------
(* release: pause, join the cleanup at work, then tell Taskix *)

\* Nothing to tell: an end is final, an interrupt is told once.
Told(s, op) == s.ended \/ (op = "interrupt" /\ s.interrupted)

\* What handler h does next for state i: waits, tells, or is past it.
Released(h, i, op) ==
    LET p == [st EXCEPT ![i] = Paused(@)]
    IN  IF p[i].cleanup # Nobody THEN [st |-> p, task |-> [step |-> "join", i |-> i, op |-> op, on |-> p[i].cleanup]]
        ELSE IF Told(p[i], op) THEN [st |-> p, task |-> [step |-> "done", i |-> i, op |-> op]]
        ELSE [st |-> [p EXCEPT ![i].cleanup = h], task |-> [step |-> "tell", i |-> i, op |-> op]]

Release(h, i, op) ==
    LET r == Released(h, i, op) IN st' = r.st /\ tasks' = [tasks EXCEPT ![h] = r.task]

\* The handlers that wait for h go on, or fail with it.
Woken(h, ok) ==
    [g \in Handlers |->
        IF tasks[g].step = "join" /\ tasks[g].on = h
        THEN IF ok THEN [tasks[g] EXCEPT !.step = "joined"] ELSE Idle
        ELSE tasks[g]]

\* The hook reaches Taskix; if it fails, nothing restarts the renewal.
Tell(h) ==
    /\ tasks[h].step = "tell"
    /\ LET i == tasks[h].i
           s == st[i].session
       IN  \/ /\ st' = [st EXCEPT ![i].cleanup = Nobody,
                                  ![i].ended = @ \/ tasks[h].op = "session-end",
                                  ![i].interrupted = @ \/ tasks[h].op = "interrupt"]
              /\ stopped' = stopped \union {s}
              /\ tasks' = [Woken(h, TRUE) EXCEPT ![h].step = "done"]
              /\ UNCHANGED faults
           \/ /\ Fault /\ st' = [st EXCEPT ![i].cleanup = Nobody]
              /\ tasks' = [Woken(h, FALSE) EXCEPT ![h] = Idle]
              /\ UNCHANGED stopped
    /\ UNCHANGED <<active, timers, late, turns>>

Joined(h) ==
    /\ h \in {"start", "finish", "shutdown"} /\ tasks[h].step = "joined"
    /\ LET i == tasks[h].i IN
       IF tasks[h].op = "wait" \/ Told(st[i], tasks[h].op)
       THEN tasks' = [tasks EXCEPT ![h].step = "done"] /\ UNCHANGED st
       ELSE tasks' = [tasks EXCEPT ![h].step = "tell"] /\ st' = [st EXCEPT ![i].cleanup = h]
    /\ UNCHANGED <<active, timers, stopped, late, turns, faults>>

----------------------------------------------------------------------------
(* The host's events *)

Free(h) == tasks[h].step = "idle"

\* session_start: the session before is ended, or its cleanup awaited.  The host's events
\* before it are handled by now, except for an interrupt that is being told.
SessionStart(s) ==
    /\ \A h \in Handlers : Free(h) \/ (h = "finish" /\ tasks[h].step \in {"tell", "done"})
    /\ Len(st) < MaxStarts
    /\ IF active = 0
       THEN tasks' = [tasks EXCEPT !["start"] = [step |-> "done", i |-> 0, s |-> s]] /\ UNCHANGED st
       ELSE LET r == Released("start", active, "session-end")
                p == [st EXCEPT ![active] = Paused(@)]
            IN  IF st[active].session # s
                THEN st' = r.st /\ tasks' = [tasks EXCEPT !["start"] = r.task @@ [s |-> s]]
                ELSE /\ st' = p
                     /\ tasks' = [tasks EXCEPT !["start"] =
                            IF st[active].cleanup = Nobody THEN [step |-> "done", i |-> active, s |-> s]
                            ELSE [step |-> "join", i |-> active, op |-> "wait", on |-> st[active].cleanup, s |-> s]]
    /\ UNCHANGED <<active, timers, stopped, late, turns, faults>>

\* The new state, and the session-start hook.
Begin ==
    /\ tasks["start"].step = "done"
    /\ st' = Append(st, [session |-> tasks["start"].s, timer |-> None, beat |-> "none",
                         cleanup |-> Nobody, ended |-> FALSE, interrupted |-> FALSE])
    /\ active' = Len(st) + 1
    /\ tasks' = [tasks EXCEPT !["start"] = [step |-> "begun", i |-> Len(st) + 1]]
    /\ UNCHANGED <<timers, stopped, late, turns, faults>>

Begun ==
    /\ tasks["start"].step = "begun"
    /\ LET i == tasks["start"].i
           r == Renewed(st, i)
       IN  \/ /\ stopped' = stopped \ {st[i].session}
              /\ IF active = i THEN st' = r.st /\ timers' = r.timers ELSE UNCHANGED <<st, timers>>
              /\ UNCHANGED faults
           \/ Fault /\ UNCHANGED <<st, timers, stopped>>
    /\ tasks' = [tasks EXCEPT !["start"] = Idle]
    /\ UNCHANGED <<active, late, turns>>

Works(i) == active = i /\ ~st[i].ended

Work(i) ==
    LET r == Renewed([st EXCEPT ![i].interrupted = FALSE], i)
    IN  IF Works(i)
        THEN st' = r.st /\ timers' = r.timers /\ stopped' = stopped \ {st[i].session}
        ELSE UNCHANGED <<st, timers, stopped>>

\* before_agent_start: the cleanup is awaited, then the session works again.
Prompt ==
    /\ active # 0 /\ \A h \in {"shutdown", "start", "prompt"} : Free(h)
    /\ turns < MaxTurns /\ turns' = turns + 1
    /\ IF st[active].cleanup = Nobody THEN Work(active) /\ UNCHANGED tasks
       ELSE /\ tasks' = [tasks EXCEPT !["prompt"] = [step |-> "join", i |-> active, on |-> st[active].cleanup]]
            /\ UNCHANGED <<st, timers, stopped>>
    /\ UNCHANGED <<active, late, faults>>

Working ==
    /\ tasks["prompt"].step = "joined" /\ Work(tasks["prompt"].i)
    /\ tasks' = [tasks EXCEPT !["prompt"] = Idle]
    /\ UNCHANGED <<active, late, turns, faults>>

\* agent_end of an aborted turn (omp), agent_settled (pi): the transcript is recorded first.
Aborted ==
    /\ active # 0 /\ Free("finish") /\ Free("start") /\ turns > 0
    /\ tasks' = [tasks EXCEPT !["finish"] = [step |-> "record", i |-> active]]
    /\ UNCHANGED <<st, active, timers, stopped, late, turns, faults>>

Recorded ==
    /\ tasks["finish"].step = "record" /\ Release("finish", tasks["finish"].i, "interrupt")
    /\ UNCHANGED <<active, timers, stopped, late, turns, faults>>

\* No prompt waits meanwhile: one that waits for an interrupt's cleanup would start the
\* timer again while the end is told.
Shutdown ==
    /\ active # 0 /\ \A h \in {"shutdown", "start", "prompt"} : Free(h)
    /\ Release("shutdown", active, "session-end")
    /\ UNCHANGED <<active, timers, stopped, late, turns, faults>>

Done(h) ==
    /\ h \in {"finish", "shutdown"} /\ tasks[h].step = "done"
    /\ active' = IF h = "shutdown" /\ active = tasks[h].i THEN 0 ELSE active
    /\ tasks' = [tasks EXCEPT ![h] = Idle]
    /\ UNCHANGED <<st, timers, stopped, late, turns, faults>>

Next ==
    \/ \E n \in 1..Len(timers) : Tick(n)
    \/ \E i \in 1..Len(st) : BeatEnds(i)
    \/ \E h \in Handlers : Tell(h) \/ Joined(h) \/ Done(h)
    \/ \E s \in Sessions : SessionStart(s)
    \/ Begin \/ Begun \/ Prompt \/ Working \/ Aborted \/ Recorded \/ Shutdown

Spec == Init /\ [][Next]_vars

----------------------------------------------------------------------------
\* Once Taskix was told that a session is interrupted or ended, no heartbeat renews its leases
\* until it works again: neither one that was on its way nor a tick that was queued.
SilentOnceStopped == ~late

\* At most one heartbeat is on its way.
OneHeartbeat == Cardinality({i \in 1..Len(st) : st[i].beat = "live"}) <= 1

ExtensionTrue == SilentOnceStopped /\ OneHeartbeat
=============================================================================
