---------------------------- MODULE CodexClient -----------------------------
(***************************************************************************)
(* The Codex adapter in proxy mode (agentix-codex/src/client.rs): which    *)
(* sessions it follows, over one WebSocket to the app-server that drops    *)
(* and is reopened, for clients that register and leave.                   *)
(*                                                                         *)
(* A session that is followed is subscribed, or only observed when another *)
(* process holds its writer.  While its rollout is being created it is     *)
(* pending: subscribed provisionally and resumed by the content monitor.   *)
(* A task of the adapter (a call of the engine, a monitor's worker) is a   *)
(* record [do, at]: at "send" it is about to write its request, at "wait"  *)
(* it waits for the response, then at is the response.  Between two writes *)
(* and responses a task runs in one step.  Histories, names, usage counts  *)
(* and the models, skills and servers a client lists are left out.         *)
(***************************************************************************)
EXTENDS Naturals, SequencesExt, FiniteSetTheorems, TLAPS

CONSTANTS
    Sessions,
    MaxCalls,           \* bound on calls of the engine
    MaxFaults           \* bound on drops, departures and timeouts

VARIABLES
    c,              \* the client's sets: subs, pend, obs, watched, exited
    job,            \* job[k][s]: task k of session s
    due,            \* sessions whose content version is not processed
    registered,     \* sessions of the registry's connected clients
    awaited,        \* sessions whose client may be about to replace them
    link,           \* is the socket open
    wire,           \* requests written and not yet served
    thread,         \* the app-server's view: "fresh" (no rollout), "empty"
                    \* (loaded, no turn), "ready" or "owned" by a process
    served,         \* threads streamed over the current socket
    want,           \* sessions the engine keeps attached
    turns,          \* turns the app-server started, per session
    told,           \* what the caller of start_turn was told
    calls, faults,
    raced           \* history: sessions a late unsubscribe or reply caught up

clientVars == <<c, job, due>>
hostVars == <<registered, awaited, thread>>
wireVars == <<link, wire, served, turns>>
vars == <<clientVars, hostVars, wireVars, told, want, calls, faults, raced>>

Tasks == {"engine", "refresh", "release", "turn"}
Idle == [do |-> "none", at |-> "idle"]
Observing == c.obs \cup c.pend \cup c.exited

Init ==
    /\ c = [subs |-> {}, pend |-> {}, obs |-> {}, watched |-> {}, exited |-> {}]
    /\ job = [k \in Tasks |-> [s \in Sessions |-> Idle]]
    /\ due = Sessions
    /\ registered \in SUBSET Sessions
    /\ awaited = {}
    /\ link = TRUE /\ wire = <<>> /\ served = {}
    /\ thread \in [Sessions -> {"fresh", "ready", "owned"}]
    /\ want = {} /\ raced = {}
    /\ turns = [s \in Sessions |-> 0]
    /\ told = [s \in Sessions |-> "none"]
    /\ calls = 0 /\ faults = 0

Fault == faults < MaxFaults /\ faults' = faults + 1
Set(k, s, do, at) == job' = [job EXCEPT ![k][s] = [do |-> do, at |-> at]]
End(k, s) == job' = [job EXCEPT ![k][s] = Idle]
\* registry.wake(): every session's version differs from the processed one.
Wake == due' = Sessions

----------------------------------------------------------------------------
\* What an attach leaves in the client's sets.
Provisional(s) ==
    [c EXCEPT !.pend = @ \cup {s}, !.subs = @ \cup {s},
              !.watched = @ \cup {s}, !.exited = @ \ {s}]
\* Mutant: a fresh session is subscribed without being kept for recovery.
AttachedForgetful(s, r) ==
    CASE r = "writer" -> [c EXCEPT !.obs = @ \cup {s}, !.exited = @ \ {s},
                                   !.watched = @ \cup {s}]
      [] OTHER -> [c EXCEPT !.pend = @ \ {s}, !.exited = @ \ {s},
                            !.subs = @ \cup {s}, !.watched = @ \cup {s}]
Attached(s, r) ==
    CASE r = "ok" -> [c EXCEPT !.pend = @ \ {s}, !.exited = @ \ {s},
                               !.subs = @ \cup {s}, !.watched = @ \cup {s}]
      [] r = "initializing" -> [c EXCEPT !.pend = @ \cup {s},
                                         !.subs = @ \cup {s}, !.watched = @ \cup {s}]
      [] r = "writer" -> [c EXCEPT !.obs = @ \cup {s}, !.exited = @ \ {s},
                                   !.watched = @ \cup {s}]
Offline(s) == [c EXCEPT !.exited = @ \cup {s}, !.watched = @ \cup {s}]
Resumed(s) == [c EXCEPT !.exited = @ \ {s}, !.pend = @ \ {s}]

\* attach_inner: an offline session waits for its client, an observed one is
\* attached already.
EngineAttach(s) ==
    /\ job["engine"][s] = Idle /\ calls < MaxCalls
    /\ calls' = calls + 1
    /\ want' = want \cup {s}
    /\ \/ s \notin registered /\ c' = Offline(s) /\ Wake /\ UNCHANGED job
       \/ s \in registered \cap c.obs /\ Wake /\ UNCHANGED <<c, job>>
       \/ s \in registered \ c.obs /\ Set("engine", s, "attach", "send") /\ UNCHANGED <<c, due>>
    /\ UNCHANGED <<hostVars, wireVars, told, faults, raced>>

\* An attach during which the client left is an error: nothing is attached.
Kept(k, s) == IF k = "engine" /\ s \notin registered THEN want \ {s} ELSE want

\* After the response: the client may have left in the meantime.
FinishAttach(k, s) ==
    /\ job[k][s].do = "attach" /\ job[k][s].at \in {"ok", "initializing", "writer"}
    /\ c' = IF s \notin registered THEN c
            ELSE IF k = "refresh" THEN [Attached(s, job[k][s].at) EXCEPT !.exited = @ \ {s}]
            ELSE Attached(s, job[k][s].at)
    /\ End(k, s) /\ Wake
    /\ want' = Kept(k, s)
    /\ raced' = IF s \in registered /\ job[k][s].at = "ok" /\ s \notin served
                THEN raced \cup {s} ELSE raced
    /\ UNCHANGED <<hostVars, wireVars, told, calls, faults>>

\* attach gives up waiting after a second: the request may still be served.
Forget(w, k, s) ==
    [i \in DOMAIN w |-> IF w[i].k = k /\ w[i].s = s THEN [w[i] EXCEPT !.k = "none"]
                        ELSE w[i]]
AttachTimesOut(k, s) ==
    /\ Fault
    /\ job[k][s].do = "attach" /\ job[k][s].at \in {"send", "wait"}
    /\ c' = IF s \in registered THEN Provisional(s) ELSE c
    /\ End(k, s)
    /\ due' = IF s \in registered THEN Sessions ELSE due
    /\ wire' = Forget(wire, k, s)
    /\ want' = Kept(k, s)
    /\ UNCHANGED <<hostVars, link, served, turns, told, calls, raced>>

\* A new window of the workspace: the session its agent started is followed
\* provisionally (mutate).
LaunchSession(s) ==
    /\ calls < MaxCalls /\ calls' = calls + 1
    /\ s \in registered /\ job["engine"][s] = Idle /\ s \notin c.watched
    /\ c' = [c EXCEPT !.subs = @ \cup {s}, !.watched = @ \cup {s}, !.pend = @ \cup {s}]
    /\ want' = want \cup {s}
    /\ UNCHANGED <<job, due, hostVars, wireVars, told, faults, raced>>

EngineUnsubscribe(s) ==
    /\ job["engine"][s] = Idle /\ s \in want
    /\ want' = want \ {s}
    /\ Wake
    /\ IF s \in c.obs
       THEN /\ c' = [c EXCEPT !.watched = @ \ {s}, !.exited = @ \ {s}, !.obs = @ \ {s}]
            /\ UNCHANGED job
       ELSE /\ c' = [c EXCEPT !.watched = @ \ {s}, !.exited = @ \ {s},
                              !.subs = @ \ {s}, !.pend = @ \ {s}]
            /\ Set("engine", s, "unsubscribe", "send")
    /\ UNCHANGED <<hostVars, wireVars, told, calls, faults, raced>>

----------------------------------------------------------------------------
\* The socket.  A task that resumes waits for the reconnection; any other
\* request fails, and a mutation that was being written is uncertain.
Method(j) == IF j.do \in {"attach", "recover"} THEN "thread/resume"
             ELSE IF j.do = "unsubscribe" THEN "thread/unsubscribe" ELSE "turn/start"
Retries(j) == Method(j) = "thread/resume"
Resuming(s) == \E k \in Tasks : job[k][s].do \in {"attach", "recover"}
\* Mutant: every transport error is reported as if nothing had been sent.
SafeError(j) == "failed"
TransportError(j) == IF Method(j) = "turn/start" THEN "uncertain" ELSE "failed"
Closed(j) ==
    IF j.at = "send" THEN [j EXCEPT !.at = IF j.do = "turn" THEN "orphan" ELSE "send"]
    ELSE IF j.at # "wait" THEN j
    ELSE IF Retries(j) THEN [j EXCEPT !.at = "send"]
    ELSE [j EXCEPT !.at = TransportError(j)]

SendRequest(k, s) ==
    /\ job[k][s].at = "send"
    /\ link \/ ~Retries(job[k][s])
    /\ IF link
       THEN /\ wire' = Append(wire, [k |-> k, s |-> s, method |-> Method(job[k][s])])
            /\ job' = [job EXCEPT ![k][s].at = "wait"]
       ELSE /\ job' = [job EXCEPT ![k][s].at = TransportError(job[k][s])]
            /\ UNCHANGED wire
    /\ raced' = IF k = "release" /\ (s \in registered \cup c.subs \/ Resuming(s))
                THEN raced \cup {s} ELSE raced
    /\ UNCHANGED <<c, due, hostVars, link, served, turns, told, want, calls, faults>>

\* The app-server takes the next request.
Answer(s) == CASE thread[s] = "ready" -> {"ok"}
               [] thread[s] = "empty" -> {"ok"}
               [] thread[s] = "fresh" -> {"ok", "initializing"}
               [] thread[s] = "owned" -> {"writer"}
ServeRequest ==
    /\ wire # <<>>
    /\ LET q == Head(wire) IN
       \E r \in IF q.method = "thread/resume" THEN Answer(q.s) ELSE {"ok"} :
          /\ served' = IF q.method = "thread/unsubscribe" THEN served \ {q.s}
                       ELSE IF q.method = "thread/resume" /\ r = "ok"
                       THEN served \cup {q.s} ELSE served
          /\ thread' = IF q.method = "thread/resume" /\ r = "ok" /\ thread[q.s] = "fresh"
                       THEN [thread EXCEPT ![q.s] = "empty"] ELSE thread
          /\ turns' = IF q.method = "turn/start" THEN [turns EXCEPT ![q.s] = @ + 1]
                      ELSE turns
          /\ job' = IF q.k = "none" THEN job ELSE [job EXCEPT ![q.k][q.s].at = r]
    /\ wire' = Tail(wire)
    /\ UNCHANGED <<c, due, registered, awaited, link, told, want, calls, faults, raced>>

\* read_loop: responses that are waited for are dropped.
Disconnected ==
    /\ link /\ Fault
    /\ link' = FALSE /\ wire' = <<>> /\ served' = {}
    /\ job' = [k \in Tasks |-> [s \in Sessions |-> Closed(job[k][s])]]
    /\ UNCHANGED <<c, due, hostVars, turns, told, want, calls, raced>>


\* Mutant: the new socket is used without resuming what was subscribed.
ResumesNone == {<<>>}
\* What read_loop writes first to the new socket, nobody waiting for it.
Resumes ==
    {[i \in DOMAIN q |-> [k |-> "none", s |-> q[i], method |-> "thread/resume"]] :
        q \in SetToSeqs(c.subs)}
Reconnect ==
    /\ ~link /\ link' = TRUE
    /\ wire' \in Resumes
    /\ Wake
    /\ UNCHANGED <<c, job, hostVars, served, turns, told, want, calls, faults, raced>>

----------------------------------------------------------------------------
\* monitor_attached_content: one worker per session, started when its version
\* changed; it returns an exited session, recovers a pending one or polls.
StartRefresh(s) ==
    /\ job["refresh"][s] = Idle
    /\ s \in due \cap Observing \cap registered
    /\ due' = due \ {s}
    /\ CASE s \in c.exited \cap c.obs -> c' = Resumed(s) /\ UNCHANGED job
         [] s \in c.exited \ c.obs -> Set("refresh", s, "attach", "send") /\ UNCHANGED c
         [] s \in c.pend \ c.exited -> Set("refresh", s, "recover", "send") /\ UNCHANGED c
         [] OTHER -> UNCHANGED <<c, job>>
    /\ UNCHANGED <<hostVars, wireVars, told, want, calls, faults, raced>>

\* A worker whose session left, or that nobody follows any more, is aborted.
AbortRefresh(s) ==
    /\ job["refresh"][s] # Idle
    /\ s \notin registered \/ s \notin Observing \cup c.subs
    /\ End("refresh", s)
    /\ wire' = Forget(wire, "refresh", s)
    /\ UNCHANGED <<c, due, hostVars, link, served, turns, told, want, calls, faults, raced>>

\* try_resume_pending_session, and for the worker recover_pending_session:
\* a session without a first turn stays pending.
Recovered(k, s, r) ==
    CASE r = "ok" ->
           IF k = "refresh" /\ thread[s] = "empty" /\ s \in c.subs THEN c
           ELSE [c EXCEPT !.pend = @ \ {s}]
      [] r = "writer" -> [c EXCEPT !.obs = @ \cup {s}, !.subs = @ \ {s}, !.pend = @ \ {s}]
      [] OTHER -> c
FinishRecover(k, s) ==
    /\ job[k][s].do = "recover" /\ job[k][s].at \in {"ok", "initializing", "writer"}
    /\ c' = IF s \notin c.pend \/ s \notin registered THEN c
            ELSE Recovered(k, s, job[k][s].at)
    /\ End(k, s)
    /\ raced' = IF s \in c.pend /\ job[k][s].at = "ok" /\ s \notin served
                THEN raced \cup {s} ELSE raced
    /\ UNCHANGED <<due, hostVars, wireVars, told, want, calls, faults>>
\* The deadline of a retried request: the next change tries again.
RecoverTimesOut(k, s) ==
    /\ job[k][s].do = "recover" /\ job[k][s].at = "send" /\ ~link
    /\ End(k, s)
    /\ UNCHANGED <<c, due, hostVars, wireVars, told, want, calls, faults, raced>>

\* Mutant: the monitor forgets the session instead of waiting for its return.
DepartedForgotten(s) ==
    [c EXCEPT !.subs = @ \ {s}, !.pend = @ \ {s}, !.watched = @ \ {s}]
Departed(s) ==
    [c EXCEPT !.subs = @ \ {s}, !.pend = @ \ {s}, !.exited = @ \cup {s}]

\* monitor_running_sessions: the client of a watched session left.
SessionExits(s) ==
    /\ s \in c.watched \ (c.exited \cup registered \cup awaited)
    /\ c' = Departed(s)
    /\ IF s \in c.obs \/ job["release"][s] # Idle THEN UNCHANGED job
       ELSE Set("release", s, "unsubscribe", "check")
    /\ UNCHANGED <<due, hostVars, wireVars, told, want, calls, faults, raced>>
\* The spawned release looks at the registry once more before it writes.
CheckRelease(s) ==
    /\ job["release"][s].at = "check"
    /\ IF s \in registered THEN End("release", s)
       ELSE Set("release", s, "unsubscribe", "send")
    /\ UNCHANGED <<c, due, hostVars, wireVars, told, want, calls, faults, raced>>
EndUnsubscribe(k, s) ==
    /\ job[k][s].do = "unsubscribe" /\ job[k][s].at \in {"ok", "failed"}
    /\ End(k, s)
    /\ UNCHANGED <<c, due, hostVars, wireVars, told, want, calls, faults, raced>>

----------------------------------------------------------------------------
\* A prompt: turn/start is written at most once.
StartTurn(s) ==
    /\ calls < MaxCalls /\ calls' = calls + 1
    /\ s \in want \ c.obs /\ job["turn"][s] = Idle /\ job["engine"][s] = Idle /\ told[s] = "none"
    /\ Set("turn", s, "turn", "send")
    /\ UNCHANGED <<c, due, hostVars, wireVars, told, want, faults, raced>>
TurnTimesOut(s) ==
    /\ Fault
    /\ job["turn"][s].do = "turn" /\ job["turn"][s].at \in {"send", "orphan", "wait"}
    /\ job' = [job EXCEPT !["turn"][s].at =
                  IF @ = "wait" THEN TransportError(job["turn"][s]) ELSE "failed"]
    /\ wire' = Forget(wire, "turn", s)
    /\ UNCHANGED <<c, due, hostVars, link, served, turns, told, want, calls, raced>>
\* Its response was dropped while it waited for the writer: it is written to
\* the new socket all the same.
SendOrphan(s) ==
    /\ job["turn"][s].at = "orphan" /\ link
    /\ wire' = Append(wire, [k |-> "none", s |-> s, method |-> "turn/start"])
    /\ job' = [job EXCEPT !["turn"][s].at = TransportError(job["turn"][s])]
    /\ UNCHANGED <<c, due, hostVars, link, served, turns, told, want, calls, faults, raced>>
TurnAnswered(s) ==
    /\ job["turn"][s].do = "turn" /\ job["turn"][s].at \in {"ok", "failed", "uncertain"}
    /\ told' = [told EXCEPT ![s] = job["turn"][s].at]
    /\ IF job["turn"][s].at = "ok" /\ s \in c.pend
       THEN Set("turn", s, "recover", "send") ELSE End("turn", s)
    /\ UNCHANGED <<c, due, hostVars, wireVars, want, calls, faults, raced>>

----------------------------------------------------------------------------
\* Clients come and go (registry.rs); the first turn materialises a thread,
\* with its writer in the app-server or in a process of its own.
ClientRegisters(s) ==
    /\ s \notin registered
    /\ registered' = registered \cup {s} /\ awaited' = awaited \ {s}
    /\ Wake
    /\ UNCHANGED <<c, job, thread, wireVars, told, want, calls, faults, raced>>
ClientLeaves(s) ==
    /\ Fault /\ s \in registered
    /\ registered' = registered \ {s}
    /\ awaited' \in {awaited, awaited \cup {s}}
    /\ Wake
    /\ UNCHANGED <<c, job, thread, wireVars, told, want, calls, raced>>
ReplacementExpires(s) ==
    /\ s \in awaited /\ awaited' = awaited \ {s}
    /\ UNCHANGED <<clientVars, registered, thread, wireVars, told, want, calls, faults, raced>>
FirstTurn(s) ==
    /\ thread[s] \in {"fresh", "empty"} /\ s \in registered
    /\ \E t \in {"ready"} \cup IF thread[s] = "fresh" THEN {"owned"} ELSE {} :
          thread' = [thread EXCEPT ![s] = t]
    /\ due' = due \cup {s}
    /\ UNCHANGED <<c, job, registered, awaited, wireVars, told, want, calls, faults, raced>>

----------------------------------------------------------------------------
Steps(s) ==
    \/ \E k \in Tasks : FinishAttach(k, s) \/ SendRequest(k, s) \/ FinishRecover(k, s)
                        \/ EndUnsubscribe(k, s)
    \/ StartRefresh(s) \/ SessionExits(s) \/ CheckRelease(s)
    \/ SendOrphan(s) \/ TurnAnswered(s)
Progress == ServeRequest \/ Reconnect \/ \E s \in Sessions : Steps(s)
Environment ==
    \/ Disconnected
    \/ \E s \in Sessions :
          \/ \E k \in Tasks : AttachTimesOut(k, s) \/ RecoverTimesOut(k, s)
          \/ EngineAttach(s) \/ EngineUnsubscribe(s) \/ LaunchSession(s)
          \/ AbortRefresh(s) \/ StartTurn(s) \/ TurnTimesOut(s)
          \/ ClientRegisters(s) \/ ClientLeaves(s) \/ ReplacementExpires(s) \/ FirstTurn(s)
Next == Progress \/ Environment

Followed(s) == s \in served \/ s \in c.obs \/ thread[s] = "fresh"

\* A session the engine keeps attached while its client stays registered is
\* followed in the end, whatever dropped or timed out meanwhile, unless a
\* release written after its return or a response applied after a
\* reconnection caught it (monitor_attached_content, read_loop).
FollowedInTheEnd ==
    \A s \in Sessions :
        <>[](s \in want \cap registered) => []<>(Followed(s) \/ s \in raced)

\* A prompt is started at most once; a caller that is told it failed, not that
\* it is uncertain, can send it again (request_rpc, request_transport_error).
HonestErrors ==
    \A s \in Sessions :
        LET written == {i \in DOMAIN wire : wire[i].s = s /\ wire[i].method = "turn/start"}
        IN  /\ turns[s] <= 1
            /\ told[s] = "failed" => turns[s] = 0 /\ written = {}
            /\ told[s] = "ok" => turns[s] = 1

----------------------------------------------------------------------------
(* A prompt starts at most once and its caller is told the truth: for every finite set *)
(* of sessions, every order of drops, departures and timeouts, and all bounds.         *)

TaskStates ==
    [do : {"none", "attach", "recover", "unsubscribe", "turn"},
     at : {"idle", "send", "wait", "orphan", "check", "ok", "initializing", "writer",
           "failed", "uncertain"}]
Written == [k : Tasks \cup {"none"}, s : Sessions,
            method : {"thread/resume", "thread/unsubscribe", "turn/start"}]
Followers ==
    [subs : SUBSET Sessions, pend : SUBSET Sessions, obs : SUBSET Sessions,
     watched : SUBSET Sessions, exited : SUBSET Sessions]
Typed ==
    /\ c \in Followers
    /\ job \in [Tasks -> [Sessions -> TaskStates]]
    /\ wire \in Seq(Written)
    /\ thread \in [Sessions -> {"fresh", "empty", "ready", "owned"}]
    /\ turns \in [Sessions -> Nat]
    /\ told \in [Sessions -> {"none", "ok", "failed", "uncertain"}]

\* Only the task of a prompt writes it, and a task that writes has something to do.
Sane(k, j) ==
    /\ j.do = "turn" => k = "turn"
    /\ j.at \in {"send", "wait"} => j.do # "none"
    /\ j.at = "orphan" => j.do = "turn"
Writing == \A k \in Tasks, s \in Sessions : Sane(k, job[k][s])

\* A request whose response is waited for is its task's, and the only one.
Waited ==
    /\ \A i \in 1..Len(wire) : wire[i].k # "none" =>
          /\ job[wire[i].k][wire[i].s].at = "wait"
          /\ wire[i].method = Method(job[wire[i].k][wire[i].s])
    /\ \A i, j \in 1..Len(wire) :
          wire[i].k # "none" /\ wire[i].k = wire[j].k /\ wire[i].s = wire[j].s => i = j

\* What is known of a prompt: to its task while it runs, then to its caller.
Verdict(s) == IF job["turn"][s].do = "turn" THEN job["turn"][s].at ELSE told[s]
Starts(i, s) == wire[i].s = s /\ wire[i].method = "turn/start"
AtMostOnce(s) ==
    /\ turns[s] <= 1
    /\ \A i \in 1..Len(wire) : Starts(i, s) =>
          turns[s] = 0 /\ \A j \in 1..Len(wire) : Starts(j, s) => i = j
Unsent(s) == turns[s] = 0 /\ \A i \in 1..Len(wire) : ~Starts(i, s)
Prompted(s) ==
    /\ AtMostOnce(s)
    /\ job["turn"][s].do = "turn" =>
          told[s] = "none"
          /\ job["turn"][s].at \in {"send", "wait", "orphan", "ok", "failed", "uncertain"}
    /\ Verdict(s) \in {"none", "send", "orphan", "failed"} => Unsent(s)
    /\ Verdict(s) = "ok" => turns[s] = 1
    /\ Verdict(s) = "wait" =>
          turns[s] = 0 /\ \A i \in 1..Len(wire) : Starts(i, s) => wire[i].k = "turn"
    /\ Verdict(s) = "uncertain" =>
          \A i \in 1..Len(wire) : Starts(i, s) => wire[i].k = "none"
Prompts == \A s \in Sessions : Prompted(s)

HonestInv == Typed /\ Writing /\ Waited /\ Prompts

\* Init satisfies it: nothing is written and nobody was told anything.
LEMMA InitHonest == Init => HonestInv
  <1>1. SUFFICES ASSUME Init PROVE HonestInv
    OBVIOUS
  <1>2. Typed
    BY <1>1 DEF Init, Typed, Followers, TaskStates, Written, Idle
  <1>3. Len(wire) = 0 /\ \A k \in Tasks, s \in Sessions : job[k][s] = Idle
    BY <1>1 DEF Init
  <1>4. Writing /\ Waited
    BY <1>3 DEF Writing, Waited, Sane, Idle
  <1>5. Prompts
    BY <1>1, <1>3 DEF Init, Prompts, Prompted, AtMostOnce, Unsent, Verdict, Idle, Tasks
  <1> QED BY <1>2, <1>4, <1>5 DEF HonestInv

\* One task of one session changes its state.
LEMMA JobChange ==
  ASSUME job \in [Tasks -> [Sessions -> TaskStates]],
         NEW k \in Tasks, NEW s \in Sessions, NEW v \in TaskStates,
         job' = [job EXCEPT ![k][s] = v]
  PROVE  /\ job' \in [Tasks -> [Sessions -> TaskStates]]
         /\ job'[k][s] = v
         /\ \A k2 \in Tasks, s2 \in Sessions :
               k2 # k \/ s2 # s => job'[k2][s2] = job[k2][s2]
  <1>1. job' = [job EXCEPT ![k] = [job[k] EXCEPT ![s] = v]]
    OBVIOUS
  <1>2. job[k] \in [Sessions -> TaskStates]
    OBVIOUS
  <1>3. [job[k] EXCEPT ![s] = v] \in [Sessions -> TaskStates]
    BY <1>2
  <1>4. job'[k] = [job[k] EXCEPT ![s] = v]
    BY <1>1
  <1>5. \A k2 \in Tasks : k2 # k => job'[k2] = job[k2]
    BY <1>1
  <1> QED BY <1>1, <1>2, <1>3, <1>4, <1>5

\* A task whose response was taken, or whose request is given up, forgets it.
LEMMA ForgetIs ==
  ASSUME NEW w \in Seq(Written), NEW k, NEW s
  PROVE  /\ Forget(w, k, s) \in Seq(Written)
         /\ Len(Forget(w, k, s)) = Len(w)
         /\ \A i \in 1..Len(w) :
               /\ Forget(w, k, s)[i].s = w[i].s
               /\ Forget(w, k, s)[i].method = w[i].method
               /\ Forget(w, k, s)[i].k =
                     IF w[i].k = k /\ w[i].s = s THEN "none" ELSE w[i].k
  <1>1. \A i \in 1..Len(w) : w[i] \in Written
    OBVIOUS
  <1>2. DOMAIN w = 1..Len(w) /\ Len(w) \in Nat
    OBVIOUS
  <1> DEFINE e(i) == IF w[i].k = k /\ w[i].s = s THEN [w[i] EXCEPT !.k = "none"] ELSE w[i]
  <1>3. \A i \in 1..Len(w) :
          /\ e(i) \in Written
          /\ e(i).s = w[i].s /\ e(i).method = w[i].method
          /\ e(i).k = IF w[i].k = k /\ w[i].s = s THEN "none" ELSE w[i].k
    BY <1>1 DEF Written
  <1>4. Forget(w, k, s) = [i \in 1..Len(w) |-> e(i)]
    BY <1>2 DEF Forget
  <1> HIDE DEF e
  <1>5. [i \in 1..Len(w) |-> e(i)] \in Seq(Written)
    BY <1>2, <1>3
  <1>6. Len([i \in 1..Len(w) |-> e(i)]) = Len(w)
    BY <1>2
  <1> QED BY <1>3, <1>4, <1>5, <1>6

LEMMA WireTyped ==
  ASSUME Typed
  PROVE  \A i \in 1..Len(wire) :
            /\ wire[i] \in Written
            /\ wire[i].k \in Tasks \cup {"none"} /\ wire[i].s \in Sessions
  <1>1. wire \in Seq(Written)
    BY DEF Typed
  <1>2. \A i \in 1..Len(wire) : wire[i] \in Written
    BY <1>1
  <1>3. \A q \in Written : q.k \in Tasks \cup {"none"} /\ q.s \in Sessions
    BY DEF Written
  <1> QED BY <1>2, <1>3

\* What is written, started and told, and by whom, decides the invariant.
LEMMA StillStep ==
  ASSUME HonestInv, c' \in Followers,
         thread' \in [Sessions -> {"fresh", "empty", "ready", "owned"}],
         UNCHANGED <<job, wire, turns, told>>
  PROVE  HonestInv'
  <1>1. Typed'
    BY DEF HonestInv, Typed
  <1>2. Writing' /\ Waited'
    BY DEF HonestInv, Writing, Waited, Sane, Method
  <1>3. Prompts'
    BY DEF HonestInv, Prompts, Prompted, AtMostOnce, Unsent, Verdict, Starts
  <1> QED BY <1>1, <1>2, <1>3 DEF HonestInv

\* A task that waits for no response, and holds no prompt, goes on.
LEMMA QuietStep ==
  ASSUME HonestInv, c' \in Followers, UNCHANGED <<thread, wire, turns, told>>,
         NEW k \in Tasks, NEW s \in Sessions, NEW v \in TaskStates,
         job' = [job EXCEPT ![k][s] = v],
         Sane(k, v), v.do # "turn", job[k][s].do # "turn", job[k][s].at # "wait"
  PROVE  HonestInv'
  <1>1. /\ job' \in [Tasks -> [Sessions -> TaskStates]]
        /\ job'[k][s] = v
        /\ \A k2 \in Tasks, s2 \in Sessions :
              k2 # k \/ s2 # s => job'[k2][s2] = job[k2][s2]
    BY JobChange DEF HonestInv, Typed
  <1>2. Typed'
    BY <1>1 DEF HonestInv, Typed
  <1>3. Writing'
    BY <1>1 DEF HonestInv, Writing, Sane
  <1>4. \A i \in 1..Len(wire) :
          wire[i].k \in Tasks \cup {"none"} /\ wire[i].s \in Sessions
    BY WireTyped DEF HonestInv
  <1>5. Waited'
    BY <1>1, <1>4 DEF HonestInv, Waited, Method
  <1>6. \A s2 \in Sessions :
          /\ Verdict(s2)' = Verdict(s2)
          /\ job'["turn"][s2].do = "turn" => job'["turn"][s2] = job["turn"][s2]
    BY <1>1 DEF Verdict, Tasks
  <1>7. Prompts'
    BY <1>6 DEF HonestInv, Prompts, Prompted, AtMostOnce, Unsent, Starts
  <1> QED BY <1>2, <1>3, <1>5, <1>7 DEF HonestInv

\* A task that holds no prompt gives its request up.
LEMMA ForgetStep ==
  ASSUME HonestInv, c' \in Followers, UNCHANGED <<thread, turns, told>>,
         NEW k \in Tasks, NEW s \in Sessions,
         job' = [job EXCEPT ![k][s] = Idle], wire' = Forget(wire, k, s),
         job[k][s].do # "turn"
  PROVE  HonestInv'
  <1>0. Idle \in TaskStates
    BY DEF Idle, TaskStates
  <1>1. /\ job' \in [Tasks -> [Sessions -> TaskStates]]
        /\ job'[k][s] = Idle
        /\ \A k2 \in Tasks, s2 \in Sessions :
              k2 # k \/ s2 # s => job'[k2][s2] = job[k2][s2]
    BY <1>0, JobChange DEF HonestInv, Typed
  <1>2. /\ wire' \in Seq(Written)
        /\ Len(wire') = Len(wire)
        /\ \A i \in 1..Len(wire) :
              /\ wire'[i].s = wire[i].s /\ wire'[i].method = wire[i].method
              /\ wire'[i].k = IF wire[i].k = k /\ wire[i].s = s THEN "none" ELSE wire[i].k
    BY ForgetIs DEF HonestInv, Typed
  <1>3. Typed'
    BY <1>1, <1>2 DEF HonestInv, Typed
  <1>4. Writing'
    BY <1>1 DEF HonestInv, Writing, Sane, Idle
  <1>5. \A i \in 1..Len(wire) :
          wire[i].k \in Tasks \cup {"none"} /\ wire[i].s \in Sessions
    BY WireTyped DEF HonestInv
  <1>6. Waited'
    BY SMTT(30), <1>1, <1>2, <1>5 DEF HonestInv, Waited, Method
  <1>7. \A s2 \in Sessions :
          /\ Verdict(s2)' = Verdict(s2)
          /\ job'["turn"][s2].do = "turn" => job'["turn"][s2] = job["turn"][s2]
    BY <1>1 DEF Verdict, Tasks, Idle
  <1>8. \A i \in 1..Len(wire), s2 \in Sessions : Starts(i, s2)' <=> Starts(i, s2)
    BY <1>2 DEF Starts
  <1>9. ASSUME NEW s2 \in Sessions PROVE Prompted(s2)'
    <2>1. Prompted(s2)
      BY DEF HonestInv, Prompts
    <2>2. AtMostOnce(s2)' /\ (Unsent(s2)' <=> Unsent(s2))
      BY <2>1, <1>2, <1>8 DEF Prompted, AtMostOnce, Unsent
    <2>3. Verdict(s2) = "wait" => job["turn"][s2].do = "turn"
      BY DEF Verdict, HonestInv, Typed
    <2>4. Verdict(s2)' = "wait" =>
             turns'[s2] = 0 /\ \A i \in 1..Len(wire') : Starts(i, s2)' => wire'[i].k = "turn"
      BY <2>1, <2>3, <1>2, <1>7, <1>8 DEF Prompted, Starts
    <2>5. Verdict(s2)' = "uncertain" =>
             \A i \in 1..Len(wire') : Starts(i, s2)' => wire'[i].k = "none"
      BY <2>1, <1>2, <1>7, <1>8 DEF Prompted
    <2>6. job["turn"][s2].do = "turn" =>
            told[s2] = "none"
            /\ job["turn"][s2].at \in {"send", "wait", "orphan", "ok", "failed", "uncertain"}
      BY <2>1 DEF Prompted
    <2>7. job'["turn"][s2].do = "turn" =>
            told'[s2] = "none"
            /\ job'["turn"][s2].at \in {"send", "wait", "orphan", "ok", "failed", "uncertain"}
      BY <2>6, <1>7
    <2> QED BY <2>1, <2>2, <2>4, <2>5, <2>7, <1>7 DEF Prompted
  <1>10. Prompts'
    BY <1>9 DEF Prompts
  <1> QED BY <1>3, <1>4, <1>6, <1>10 DEF HonestInv

\* A request is written by the task whose turn it is, or fails on a closed socket.
LEMMA SendHonest ==
  ASSUME HonestInv, NEW k \in Tasks, NEW s \in Sessions, SendRequest(k, s)
  PROVE  HonestInv'
  <1>1. /\ job[k][s] \in TaskStates /\ Sane(k, job[k][s])
        /\ job[k][s].at = "send" /\ job[k][s].do # "none"
    BY DEF HonestInv, Typed, Writing, Sane, SendRequest
  <1>2. UNCHANGED <<c, thread, turns, told>>
    BY DEF SendRequest, hostVars
  <1>3. CASE link
    <2> DEFINE q == [k |-> k, s |-> s, method |-> Method(job[k][s])]
               v == [job[k][s] EXCEPT !.at = "wait"]
    <2>1. wire' = Append(wire, q) /\ job' = [job EXCEPT ![k][s] = v]
      BY <1>3 DEF SendRequest
    <2>2. v \in TaskStates /\ v.do = job[k][s].do /\ v.at = "wait"
      BY <1>1 DEF TaskStates
    <2>3. q \in Written /\ q.k = k /\ q.s = s /\ q.method = Method(job[k][s])
      BY DEF Written, Method
    <2> HIDE DEF q, v
    <2>4. /\ job' \in [Tasks -> [Sessions -> TaskStates]]
          /\ job'[k][s] = v
          /\ \A k2 \in Tasks, s2 \in Sessions :
                k2 # k \/ s2 # s => job'[k2][s2] = job[k2][s2]
      BY <2>1, <2>2, JobChange DEF HonestInv, Typed
    <2>5. wire \in Seq(Written)
      BY DEF HonestInv, Typed
    <2>6. /\ wire' \in Seq(Written) /\ Len(wire) \in Nat /\ Len(wire') = Len(wire) + 1
          /\ wire'[Len(wire) + 1] = q
          /\ \A i \in 1..Len(wire) : wire'[i] = wire[i]
      BY <2>1, <2>3, <2>5
    <2>7. Typed'
      BY <2>4, <2>6, <1>2 DEF HonestInv, Typed
    <2>8. Writing'
      BY <2>2, <2>4, <1>1 DEF HonestInv, Writing, Sane
    <2>9. \A i \in 1..Len(wire) :
            /\ wire[i].k \in Tasks \cup {"none"} /\ wire[i].s \in Sessions
            /\ wire[i].k # k \/ wire[i].s # s
      BY WireTyped, <1>1 DEF HonestInv, Waited, Tasks
    <2>10. Waited'
      <3>1. \A i \in 1..Len(wire') : i \in 1..Len(wire) \/ i = Len(wire) + 1
        BY <2>6
      <3>2. ASSUME NEW i \in 1..Len(wire'), wire'[i].k # "none"
            PROVE  /\ job'[wire'[i].k][wire'[i].s].at = "wait"
                   /\ wire'[i].method = Method(job'[wire'[i].k][wire'[i].s])
        <4>1. CASE i = Len(wire) + 1
          BY <4>1, <2>2, <2>3, <2>4, <2>6 DEF Method
        <4>2. CASE i \in 1..Len(wire)
          <5>1. /\ wire'[i] = wire[i] /\ wire[i].k \in Tasks
                /\ job'[wire[i].k][wire[i].s] = job[wire[i].k][wire[i].s]
            BY <4>2, <3>2, <2>4, <2>6, <2>9
          <5> QED BY <5>1, <4>2, <3>2 DEF HonestInv, Waited, Method
        <4> QED BY <3>1, <4>1, <4>2
      <3>3. ASSUME NEW i \in 1..Len(wire'), NEW j \in 1..Len(wire'),
                   wire'[i].k # "none", wire'[i].k = wire'[j].k, wire'[i].s = wire'[j].s
            PROVE  i = j
        BY <3>1, <3>3, <2>3, <2>6, <2>9 DEF HonestInv, Waited
      <3> QED BY <3>2, <3>3 DEF Waited
    <2>11. ASSUME NEW s2 \in Sessions PROVE Prompted(s2)'
      <3>1. Prompted(s2)
        BY DEF HonestInv, Prompts
      <3>2. CASE s2 = s /\ job[k][s].do = "turn"
        <4>1. k = "turn" /\ Verdict(s) = "send" /\ Verdict(s)' = "wait"
          BY <3>2, <1>1, <2>2, <2>4 DEF Verdict, Sane
        <4>2. /\ told[s] = "none" /\ turns[s] = 0 /\ job'["turn"][s].at = "wait"
              /\ \A i \in 1..Len(wire) : ~Starts(i, s)
          BY <4>1, <3>1, <3>2, <2>2, <2>4 DEF Prompted, Unsent
        <4>3. \A i \in 1..Len(wire') : Starts(i, s)' => i = Len(wire) + 1 /\ wire'[i].k = "turn"
          BY <4>1, <4>2, <2>3, <2>6 DEF Starts
        <4> QED BY <4>1, <4>2, <4>3, <3>2, <1>2 DEF Prompted, AtMostOnce
      <3>3. CASE ~(s2 = s /\ job[k][s].do = "turn")
        <4>1. q.method = "turn/start" => job[k][s].do = "turn"
          BY <2>3, <1>1 DEF Method, TaskStates
        <4>2. \A i \in 1..Len(wire') :
                 (Starts(i, s2)' <=> i \in 1..Len(wire) /\ Starts(i, s2))
                 /\ (i \in 1..Len(wire) => wire'[i] = wire[i])
          BY <4>1, <3>3, <2>3, <2>6 DEF Starts
        <4>3. /\ Verdict(s2)' = Verdict(s2)
              /\ job'["turn"][s2].do = "turn" => job'["turn"][s2] = job["turn"][s2]
          BY <3>3, <2>2, <2>4, <1>2 DEF Verdict, Tasks
        <4>4. AtMostOnce(s2)' /\ (Unsent(s2) => Unsent(s2)')
          BY <4>2, <3>1, <2>6, <1>2 DEF Prompted, AtMostOnce, Unsent
        <4> QED BY <3>1, <4>2, <4>3, <4>4, <1>2 DEF Prompted
      <3> QED BY <3>2, <3>3
    <2> QED BY <2>7, <2>8, <2>10, <2>11 DEF HonestInv, Prompts
  <1>4. CASE ~link
    <2> DEFINE v == [job[k][s] EXCEPT !.at = TransportError(job[k][s])]
    <2>1. wire' = wire /\ job' = [job EXCEPT ![k][s] = v]
      BY <1>4 DEF SendRequest
    <2>2. v \in TaskStates /\ v.do = job[k][s].do /\ v.at \in {"failed", "uncertain"}
      BY <1>1 DEF TaskStates, TransportError
    <2>3. v.do = "turn" => v.at = "uncertain"
      BY <1>1 DEF TaskStates, TransportError, Method
    <2> HIDE DEF v
    <2>4. /\ job' \in [Tasks -> [Sessions -> TaskStates]]
          /\ job'[k][s] = v
          /\ \A k2 \in Tasks, s2 \in Sessions :
                k2 # k \/ s2 # s => job'[k2][s2] = job[k2][s2]
      BY <2>1, <2>2, JobChange DEF HonestInv, Typed
    <2>5. Typed' /\ Writing'
      BY <2>1, <2>2, <2>4, <1>1, <1>2 DEF HonestInv, Typed, Writing, Sane
    <2>6. \A i \in 1..Len(wire) : wire[i].k \in Tasks \cup {"none"} /\ wire[i].s \in Sessions
      BY WireTyped DEF HonestInv
    <2>7. Waited'
      BY <2>1, <2>4, <2>6, <1>1 DEF HonestInv, Waited, Method
    <2>8. ASSUME NEW s2 \in Sessions PROVE Prompted(s2)'
      <3>1. Prompted(s2)
        BY DEF HonestInv, Prompts
      <3>2. \A i \in 1..Len(wire) : Starts(i, s2)' <=> Starts(i, s2)
        BY <2>1 DEF Starts
      <3>3. AtMostOnce(s2)' /\ (Unsent(s2) => Unsent(s2)')
        BY <3>1, <3>2, <2>1, <1>2 DEF Prompted, AtMostOnce, Unsent
      <3>4. CASE s2 = s /\ job[k][s].do = "turn"
        <4>1. k = "turn" /\ Verdict(s) = "send" /\ Verdict(s)' = "uncertain" /\ Unsent(s)
          BY <3>1, <3>4, <1>1, <2>2, <2>3, <2>4 DEF Verdict, Sane, Prompted
        <4> QED BY <4>1, <3>1, <3>2, <3>3, <3>4, <2>1, <2>2, <2>3, <2>4, <1>2
                DEF Prompted, Unsent
      <3>5. CASE ~(s2 = s /\ job[k][s].do = "turn")
        <4>1. /\ Verdict(s2)' = Verdict(s2)
              /\ job'["turn"][s2].do = "turn" => job'["turn"][s2] = job["turn"][s2]
          BY <3>5, <2>2, <2>4, <1>2 DEF Verdict, Tasks
        <4> QED BY <4>1, <3>1, <3>2, <3>3, <2>1, <1>2 DEF Prompted
      <3> QED BY <3>4, <3>5
    <2> QED BY <2>5, <2>7, <2>8 DEF HonestInv, Prompts
  <1> QED BY <1>3, <1>4

\* The app-server serves the first request, once, and answers its task.
LEMMA ServeHonest ==
  ASSUME HonestInv, ServeRequest
  PROVE  HonestInv'
  <1> DEFINE q == wire[1]
  <1>1. /\ wire \in Seq(Written) /\ wire # <<>>
        /\ Len(wire) \in Nat /\ 1 \in 1..Len(wire)
    BY DEF HonestInv, Typed, ServeRequest
  <1>2. /\ wire' \in Seq(Written) /\ Len(wire') = Len(wire) - 1
        /\ \A i \in 1..Len(wire') : i + 1 \in 1..Len(wire) /\ wire'[i] = wire[i + 1]
    <2>1. wire' = Tail(wire)
      BY DEF ServeRequest
    <2> QED BY <2>1, <1>1
  <1>3. Head(wire) = q
    BY <1>1
  <1>4. q \in Written /\ q.k \in Tasks \cup {"none"} /\ q.s \in Sessions
    BY <1>1, WireTyped DEF HonestInv
  <1> HIDE DEF q
  <1>5. PICK r \in {"ok", "initializing", "writer"} :
           /\ q.method = "turn/start" => r = "ok"
           /\ thread' = IF q.method = "thread/resume" /\ r = "ok" /\ thread[q.s] = "fresh"
                        THEN [thread EXCEPT ![q.s] = "empty"] ELSE thread
           /\ turns' = IF q.method = "turn/start" THEN [turns EXCEPT ![q.s] = @ + 1]
                       ELSE turns
           /\ job' = IF q.k = "none" THEN job ELSE [job EXCEPT ![q.k][q.s].at = r]
    <2>1. PICK r \in IF q.method = "thread/resume" THEN Answer(q.s) ELSE {"ok"} :
           /\ thread' = IF q.method = "thread/resume" /\ r = "ok" /\ thread[q.s] = "fresh"
                        THEN [thread EXCEPT ![q.s] = "empty"] ELSE thread
           /\ turns' = IF q.method = "turn/start" THEN [turns EXCEPT ![q.s] = @ + 1]
                       ELSE turns
           /\ job' = IF q.k = "none" THEN job ELSE [job EXCEPT ![q.k][q.s].at = r]
      BY <1>3 DEF ServeRequest
    <2>2. thread[q.s] \in {"fresh", "empty", "ready", "owned"}
      BY <1>4 DEF HonestInv, Typed
    <2>3. Answer(q.s) \subseteq {"ok", "initializing", "writer"}
      BY <2>2 DEF Answer
    <2> QED BY <2>1, <2>3
  <1>6. UNCHANGED <<c, told>>
    BY DEF ServeRequest
  <1>7. /\ job' \in [Tasks -> [Sessions -> TaskStates]]
        /\ q.k # "none" =>
             job[q.k][q.s].at = "wait"
             /\ job'[q.k][q.s].do = job[q.k][q.s].do /\ job'[q.k][q.s].at = r
        /\ \A k \in Tasks, s \in Sessions :
              q.k # k \/ q.s # s => job'[k][s] = job[k][s]
    <2>1. CASE q.k = "none"
      BY <2>1, <1>5 DEF HonestInv, Typed, Tasks
    <2>2. CASE q.k # "none"
      <3> DEFINE v == [job[q.k][q.s] EXCEPT !.at = r]
      <3>1. q.k \in Tasks /\ job[q.k][q.s] \in TaskStates
        BY <2>2, <1>4 DEF HonestInv, Typed
      <3>2. v \in TaskStates /\ v.do = job[q.k][q.s].do /\ v.at = r
        BY <3>1 DEF TaskStates
      <3>3. job' = [job EXCEPT ![q.k][q.s] = v]
        BY <2>2, <1>5
      <3> HIDE DEF v
      <3>4. job[q.k][q.s].at = "wait"
        BY <2>2, <1>1 DEF HonestInv, Waited, q
      <3> QED BY <3>1, <3>2, <3>3, <3>4, <1>4, JobChange DEF HonestInv, Typed
    <2> QED BY <2>1, <2>2
  <1>8. thread' \in [Sessions -> {"fresh", "empty", "ready", "owned"}]
    BY <1>4, <1>5 DEF HonestInv, Typed
  <1>9. /\ turns' \in [Sessions -> Nat]
        /\ \A s \in Sessions : turns'[s] = IF q.method = "turn/start" /\ q.s = s
                                           THEN turns[s] + 1 ELSE turns[s]
    BY <1>4, <1>5 DEF HonestInv, Typed
  <1>10. Typed'
    BY <1>2, <1>6, <1>7, <1>8, <1>9 DEF HonestInv, Typed
  <1>11. Writing'
    <2>1. ASSUME NEW k \in Tasks, NEW s \in Sessions PROVE Sane(k, job'[k][s])
      <3>1. Sane(k, job[k][s])
        BY DEF HonestInv, Writing
      <3> QED BY <3>1, <1>5, <1>7 DEF Sane
    <2> QED BY <2>1 DEF Writing
  <1>12. \A i \in 1..Len(wire') : wire'[i].k # "none" =>
           /\ wire'[i].k \in Tasks /\ wire'[i].s \in Sessions
           /\ job'[wire'[i].k][wire'[i].s] = job[wire'[i].k][wire'[i].s]
    <2>1. ASSUME NEW i \in 1..Len(wire'), wire'[i].k # "none"
          PROVE  wire'[i].k \in Tasks /\ wire'[i].s \in Sessions
                 /\ (q.k # wire'[i].k \/ q.s # wire'[i].s)
      <3>1. i + 1 \in 1..Len(wire) /\ wire'[i] = wire[i + 1] /\ i + 1 # 1
        BY <1>2
      <3>2. wire'[i].k \in Tasks /\ wire'[i].s \in Sessions
        BY <3>1, <2>1, WireTyped DEF HonestInv
      <3>3. q.k # wire'[i].k \/ q.s # wire'[i].s
        BY <3>1, <2>1, <1>1 DEF HonestInv, Waited, q
      <3> QED BY <3>2, <3>3
    <2> QED BY <2>1, <1>7
  <1>13. Waited'
    <2>1. ASSUME NEW i \in 1..Len(wire'), wire'[i].k # "none"
          PROVE  /\ job'[wire'[i].k][wire'[i].s].at = "wait"
                 /\ wire'[i].method = Method(job'[wire'[i].k][wire'[i].s])
      <3>1. i + 1 \in 1..Len(wire) /\ wire'[i] = wire[i + 1]
        BY <1>2
      <3>2. /\ job[wire[i + 1].k][wire[i + 1].s].at = "wait"
            /\ wire[i + 1].method = Method(job[wire[i + 1].k][wire[i + 1].s])
        BY <3>1, <2>1 DEF HonestInv, Waited
      <3>3. job'[wire'[i].k][wire'[i].s] = job[wire'[i].k][wire'[i].s]
        BY <2>1, <1>12
      <3> QED BY <3>1, <3>2, <3>3 DEF Method
    <2>2. ASSUME NEW i \in 1..Len(wire'), NEW j \in 1..Len(wire'),
                 wire'[i].k # "none", wire'[i].k = wire'[j].k, wire'[i].s = wire'[j].s
          PROVE  i = j
      <3>1. /\ i + 1 \in 1..Len(wire) /\ wire'[i] = wire[i + 1]
            /\ j + 1 \in 1..Len(wire) /\ wire'[j] = wire[j + 1]
        BY <1>2
      <3>2. i + 1 = j + 1
        BY <2>2, <3>1 DEF HonestInv, Waited
      <3> QED BY <3>2
    <2> QED BY <2>1, <2>2 DEF Waited
  <1>14. ASSUME NEW s \in Sessions PROVE Prompted(s)'
    <2>1. Prompted(s)
      BY DEF HonestInv, Prompts
    <2>2. \A i \in 1..Len(wire') :
            /\ Starts(i, s)' <=> Starts(i + 1, s)
            /\ wire'[i] = wire[i + 1] /\ i + 1 \in 1..Len(wire) /\ i + 1 # 1
      BY <1>2 DEF Starts
    <2>3. CASE Starts(1, s)
      <3>1. q.s = s /\ q.method = "turn/start" /\ turns[s] = 0 /\ turns'[s] = 1
        BY <2>3, <2>1, <1>1, <1>9 DEF Starts, Prompted, AtMostOnce, q
      <3>2. \A i \in 1..Len(wire') : ~Starts(i, s)'
        BY <2>1, <2>2, <2>3, <1>1 DEF Prompted, AtMostOnce
      <3>3. AtMostOnce(s)'
        BY <3>1, <3>2 DEF AtMostOnce
      <3>4. CASE q.k = "none"
        <4>1. /\ Verdict(s)' = Verdict(s) /\ job'["turn"][s] = job["turn"][s]
              /\ Verdict(s) \notin {"none", "send", "orphan", "failed", "wait"}
          BY <3>1, <3>4, <2>1, <2>3, <1>1, <1>6, <1>7
             DEF Verdict, Prompted, Unsent, Starts, Tasks, q
        <4> QED BY <4>1, <3>1, <3>2, <3>3, <2>1, <1>6 DEF Prompted
      <3>5. CASE q.k # "none"
        <4>1. q.k \in Tasks /\ Sane(q.k, job[q.k][s]) /\ job[q.k][s] \in TaskStates
          BY <3>1, <3>5, <1>4 DEF HonestInv, Writing, Typed
        <4>2. job[q.k][s].at = "wait" /\ q.method = Method(job[q.k][s])
          BY <3>1, <3>5, <1>1 DEF HonestInv, Waited, q
        <4>3. job[q.k][s].do = "turn" /\ q.k = "turn"
          BY <4>1, <4>2, <3>1 DEF Sane, Method, TaskStates
        <4>4. /\ job'["turn"][s].do = "turn" /\ job'["turn"][s].at = "ok"
              /\ Verdict(s)' = "ok" /\ told'[s] = told[s] /\ told[s] = "none"
          BY <4>3, <3>1, <2>1, <1>5, <1>6, <1>7 DEF Verdict, Prompted
        <4> QED BY <4>4, <3>1, <3>2, <3>3 DEF Prompted
      <3> QED BY <3>4, <3>5
    <2>4. CASE ~Starts(1, s)
      <3>1. turns'[s] = turns[s] /\ ~(q.s = s /\ q.method = "turn/start")
        BY <2>4, <1>9 DEF Starts, q
      <3>2. AtMostOnce(s)' /\ (Unsent(s) => Unsent(s)')
        <4>1. AtMostOnce(s)
          BY <2>1 DEF Prompted
        <4>2. ASSUME NEW i \in 1..Len(wire'), NEW j \in 1..Len(wire'), Starts(i, s)'
              PROVE  turns'[s] = 0 /\ (Starts(j, s)' => i = j)
          <5>1. turns[s] = 0 /\ (Starts(j + 1, s) => i + 1 = j + 1)
            BY <4>1, <4>2, <2>2 DEF AtMostOnce
          <5> QED BY <5>1, <3>1, <2>2
        <4>3. Unsent(s) => Unsent(s)'
          BY <3>1, <2>2 DEF Unsent
        <4>4. turns'[s] <= 1
          BY <4>1, <3>1 DEF AtMostOnce
        <4> QED BY <4>2, <4>3, <4>4 DEF AtMostOnce
      <3>3. /\ Verdict(s)' = Verdict(s)
            /\ job'["turn"][s].do = job["turn"][s].do
            /\ job["turn"][s].do = "turn" => job'["turn"][s] = job["turn"][s]
        <4>1. CASE q.k = "turn" /\ q.s = s
          <5>1. job["turn"][s].at = "wait" /\ q.method = Method(job["turn"][s])
            BY <4>1, <1>1 DEF HonestInv, Waited, q
          <5>2. job["turn"][s].do # "turn"
            BY <5>1, <4>1, <3>1 DEF Method
          <5> QED BY <5>2, <4>1, <1>6, <1>7 DEF Verdict
        <4>2. CASE ~(q.k = "turn" /\ q.s = s)
          BY <4>2, <1>6, <1>7 DEF Verdict, Tasks
        <4> QED BY <4>1, <4>2
      <3> QED BY <3>1, <3>2, <3>3, <2>1, <2>2, <1>6 DEF Prompted
    <2> QED BY <2>3, <2>4
  <1> QED BY <1>10, <1>11, <1>13, <1>14 DEF HonestInv, Prompts

\* A drop of the socket: nothing stays written, and a prompt that was is uncertain.
LEMMA DisconnectHonest ==
  ASSUME HonestInv, Disconnected
  PROVE  HonestInv'
  <1>1. /\ Len(wire') = 0 /\ wire' \in Seq(Written)
        /\ UNCHANGED <<c, thread, turns, told>>
        /\ job' = [k \in Tasks |-> [s \in Sessions |-> Closed(job[k][s])]]
    BY DEF Disconnected, hostVars
  <1>2. ASSUME NEW k \in Tasks, NEW s \in Sessions
        PROVE  /\ job'[k][s] = Closed(job[k][s])
               /\ job'[k][s] \in TaskStates /\ Sane(k, job'[k][s])
               /\ job'[k][s].do = job[k][s].do
               /\ job[k][s].do = "turn" =>
                    job'[k][s].at = CASE job[k][s].at = "send" -> "orphan"
                                      [] job[k][s].at = "wait" -> "uncertain"
                                      [] OTHER -> job[k][s].at
    <2>1. job[k][s] \in TaskStates /\ Sane(k, job[k][s])
      BY DEF HonestInv, Typed, Writing
    <2>2. job'[k][s] = Closed(job[k][s])
      BY <1>1
    <2> QED BY <2>1, <2>2 DEF TaskStates, Closed, Sane, TransportError, Retries, Method
  <1>3. job' \in [Tasks -> [Sessions -> TaskStates]]
    BY <1>1, <1>2
  <1>4. Typed' /\ Writing' /\ Waited'
    BY <1>1, <1>2, <1>3 DEF HonestInv, Typed, Writing, Waited
  <1>5. ASSUME NEW s \in Sessions PROVE Prompted(s)'
    <2>1. Prompted(s)
      BY DEF HonestInv, Prompts
    <2>2. /\ job'["turn"][s].do = job["turn"][s].do
          /\ job["turn"][s].do = "turn" =>
               job'["turn"][s].at = CASE job["turn"][s].at = "send" -> "orphan"
                                      [] job["turn"][s].at = "wait" -> "uncertain"
                                      [] OTHER -> job["turn"][s].at
      BY <1>2 DEF Tasks
    <2>3. turns'[s] = turns[s] /\ told'[s] = told[s]
      BY <1>1
    <2>4. AtMostOnce(s)' /\ (Unsent(s) => Unsent(s)')
      BY <2>1, <2>3, <1>1 DEF Prompted, AtMostOnce, Unsent
    <2>5. CASE job["turn"][s].do = "turn"
      BY <2>1, <2>2, <2>3, <2>4, <2>5, <1>1 DEF Prompted, Verdict
    <2>6. CASE job["turn"][s].do # "turn"
      BY <2>1, <2>2, <2>3, <2>4, <2>6, <1>1 DEF Prompted, Verdict
    <2> QED BY <2>5, <2>6
  <1> QED BY <1>4, <1>5 DEF HonestInv, Prompts

\* The requests written first to a new socket resume, and nobody waits for them.
LEMMA ReconnectHonest ==
  ASSUME IsFiniteSet(Sessions), HonestInv, Reconnect
  PROVE  HonestInv'
  <1>1. UNCHANGED <<c, thread, turns, told, job>> /\ wire' \in Resumes
    BY DEF Reconnect, hostVars
  <1>2. c.subs \subseteq Sessions
    BY DEF HonestInv, Typed, Followers
  <1>3. IsFiniteSet(c.subs)
    BY <1>2, FS_Subset
  <1>4. Cardinality(c.subs) \in Nat
    BY <1>3, FS_CardinalityType
  <1>5. PICK o \in SetToSeqs(c.subs) :
           wire' = [i \in DOMAIN o |->
                      [k |-> "none", s |-> o[i], method |-> "thread/resume"]]
    BY <1>1 DEF Resumes
  <1>6. o \in [1..Cardinality(c.subs) -> c.subs]
    BY <1>5 DEF SetToSeqs
  <1>7. /\ wire' \in Seq(Written)
        /\ \A i \in 1..Len(wire') :
              wire'[i].k = "none" /\ wire'[i].method = "thread/resume"
    <2> DEFINE N == Cardinality(c.subs)
               e(i) == [k |-> "none", s |-> o[i], method |-> "thread/resume"]
    <2>1. \A i \in 1..N : e(i) \in Written /\ e(i).k = "none" /\ e(i).method = "thread/resume"
      BY <1>2, <1>6 DEF Written
    <2>2. wire' = [i \in 1..N |-> e(i)]
      BY <1>5, <1>6
    <2>3. N \in Nat
      BY <1>4
    <2> HIDE DEF N, e
    <2>4. wire' \in Seq(Written) /\ Len(wire') = N
      BY <2>1, <2>2, <2>3
    <2> QED BY <2>1, <2>2, <2>4
  <1>8. Typed' /\ Writing'
    BY <1>1, <1>7 DEF HonestInv, Typed, Writing, Sane
  <1>9. Waited'
    BY <1>7 DEF Waited
  <1>10. ASSUME NEW s \in Sessions PROVE Prompted(s)'
    <2>1. Prompted(s)
      BY DEF HonestInv, Prompts
    <2>2. \A i \in 1..Len(wire') : ~Starts(i, s)'
      BY <1>7 DEF Starts
    <2> QED BY <1>1, <2>1, <2>2 DEF Prompted, AtMostOnce, Unsent, Verdict
  <1> QED BY <1>8, <1>9, <1>10 DEF HonestInv, Prompts

\* The task of a prompt starts.
LEMMA StartHonest ==
  ASSUME HonestInv, NEW s \in Sessions, StartTurn(s)
  PROVE  HonestInv'
  <1> DEFINE v == [do |-> "turn", at |-> "send"]
  <1>1. /\ UNCHANGED <<c, thread, wire, turns, told>>
        /\ job' = [job EXCEPT !["turn"][s] = v]
        /\ job["turn"][s] = Idle /\ told[s] = "none"
    BY DEF StartTurn, Set, hostVars, wireVars
  <1>2. v \in TaskStates /\ v.do = "turn" /\ v.at = "send" /\ Sane("turn", v)
    BY DEF TaskStates, Sane
  <1> HIDE DEF v
  <1>3. "turn" \in Tasks
    BY DEF Tasks
  <1>4. /\ job' \in [Tasks -> [Sessions -> TaskStates]]
        /\ job'["turn"][s] = v
        /\ \A k2 \in Tasks, s2 \in Sessions :
              k2 # "turn" \/ s2 # s => job'[k2][s2] = job[k2][s2]
    BY <1>1, <1>2, <1>3, JobChange DEF HonestInv, Typed
  <1>5. Typed' /\ Writing'
    BY <1>1, <1>2, <1>4 DEF HonestInv, Typed, Writing, Sane
  <1>6. \A i \in 1..Len(wire) : wire[i].k \in Tasks \cup {"none"} /\ wire[i].s \in Sessions
    BY WireTyped DEF HonestInv
  <1>7. Waited'
    BY <1>1, <1>4, <1>6 DEF HonestInv, Waited, Method, Idle
  <1>8. ASSUME NEW s2 \in Sessions PROVE Prompted(s2)'
    <2>1. Prompted(s2)
      BY DEF HonestInv, Prompts
    <2>2. \A i \in 1..Len(wire) : Starts(i, s2)' <=> Starts(i, s2)
      BY <1>1 DEF Starts
    <2>3. AtMostOnce(s2)' /\ (Unsent(s2) => Unsent(s2)')
      BY <2>1, <2>2, <1>1 DEF Prompted, AtMostOnce, Unsent
    <2>4. CASE s2 = s
      <3>1. Verdict(s2) = "none" /\ Verdict(s2)' = "send"
        BY <2>4, <1>1, <1>2, <1>4 DEF Verdict, Idle
      <3> QED BY <3>1, <2>1, <2>3, <2>4, <1>1, <1>2, <1>4 DEF Prompted
    <2>5. CASE s2 # s
      <3>1. Verdict(s2)' = Verdict(s2) /\ job'["turn"][s2] = job["turn"][s2]
        BY <2>5, <1>1, <1>3, <1>4 DEF Verdict
      <3> QED BY <3>1, <2>1, <2>2, <2>3, <1>1 DEF Prompted
    <2> QED BY <2>4, <2>5
  <1> QED BY <1>5, <1>7, <1>8 DEF HonestInv, Prompts

\* A prompt's caller gives up: nothing was written, or it cannot tell.
LEMMA TimeoutHonest ==
  ASSUME HonestInv, NEW s \in Sessions, TurnTimesOut(s)
  PROVE  HonestInv'
  <1> DEFINE j == job["turn"][s]
             v == [j EXCEPT !.at = IF j.at = "wait" THEN TransportError(j) ELSE "failed"]
  <1>1. /\ UNCHANGED <<c, thread, turns, told>> /\ wire' = Forget(wire, "turn", s)
        /\ job' = [job EXCEPT !["turn"][s] = v]
        /\ j.do = "turn" /\ j.at \in {"send", "orphan", "wait"}
    BY DEF TurnTimesOut, hostVars
  <1>2. "turn" \in Tasks /\ j \in TaskStates /\ Sane("turn", j)
    BY DEF HonestInv, Typed, Writing, Tasks
  <1>3. /\ v \in TaskStates /\ v.do = "turn" /\ Sane("turn", v)
        /\ v.at = IF j.at = "wait" THEN "uncertain" ELSE "failed"
    BY <1>1, <1>2 DEF TaskStates, TransportError, Method, Sane
  <1> HIDE DEF v
  <1>4. /\ job' \in [Tasks -> [Sessions -> TaskStates]]
        /\ job'["turn"][s] = v
        /\ \A k2 \in Tasks, s2 \in Sessions :
              k2 # "turn" \/ s2 # s => job'[k2][s2] = job[k2][s2]
    BY <1>1, <1>2, <1>3, JobChange DEF HonestInv, Typed
  <1>5. /\ wire' \in Seq(Written)
        /\ Len(wire') = Len(wire)
        /\ \A i \in 1..Len(wire) :
              /\ wire'[i].s = wire[i].s /\ wire'[i].method = wire[i].method
              /\ wire'[i].k = IF wire[i].k = "turn" /\ wire[i].s = s THEN "none"
                              ELSE wire[i].k
    BY <1>1, ForgetIs DEF HonestInv, Typed
  <1>6. Typed' /\ Writing'
    BY <1>1, <1>3, <1>4, <1>5 DEF HonestInv, Typed, Writing, Sane
  <1>7. \A i \in 1..Len(wire) : wire[i].k \in Tasks \cup {"none"} /\ wire[i].s \in Sessions
    BY WireTyped DEF HonestInv
  <1>8. Waited'
    BY <1>4, <1>5, <1>7 DEF HonestInv, Waited, Method
  <1>9. ASSUME NEW s2 \in Sessions PROVE Prompted(s2)'
    <2>1. Prompted(s2)
      BY DEF HonestInv, Prompts
    <2>2. \A i \in 1..Len(wire) : Starts(i, s2)' <=> Starts(i, s2)
      BY <1>5 DEF Starts
    <2>3. AtMostOnce(s2)' /\ (Unsent(s2) => Unsent(s2)')
      BY <2>1, <2>2, <1>1, <1>5 DEF Prompted, AtMostOnce, Unsent
    <2>4. CASE s2 = s /\ j.at = "wait"
      <3>1. Verdict(s2) = "wait" /\ Verdict(s2)' = "uncertain" /\ told'[s2] = told[s2]
        BY <2>4, <1>1, <1>3, <1>4 DEF Verdict
      <3>2. \A i \in 1..Len(wire') : Starts(i, s2)' => wire'[i].k = "none"
        BY <3>1, <2>1, <2>2, <2>4, <1>5 DEF Prompted, Starts
      <3> QED BY <3>1, <3>2, <2>1, <2>3, <2>4, <1>1, <1>3, <1>4 DEF Prompted
    <2>5. CASE s2 = s /\ j.at # "wait"
      <3>1. Verdict(s2) \in {"send", "orphan"} /\ Verdict(s2)' = "failed"
            /\ told'[s2] = told[s2]
        BY <2>5, <1>1, <1>3, <1>4 DEF Verdict
      <3>2. Unsent(s2)'
        BY <3>1, <2>1, <2>3 DEF Prompted
      <3> QED BY <3>1, <3>2, <2>1, <2>3, <2>5, <1>1, <1>3, <1>4 DEF Prompted
    <2>6. CASE s2 # s
      <3>1. Verdict(s2)' = Verdict(s2) /\ job'["turn"][s2] = job["turn"][s2]
        BY <2>6, <1>1, <1>2, <1>4 DEF Verdict
      <3>2. \A i \in 1..Len(wire) : Starts(i, s2) => wire'[i].k = wire[i].k
        BY <2>6, <1>5 DEF Starts
      <3> QED BY <3>1, <3>2, <2>1, <2>2, <2>3, <1>1, <1>5 DEF Prompted
    <2> QED BY <2>4, <2>5, <2>6
  <1> QED BY <1>6, <1>8, <1>9 DEF HonestInv, Prompts

\* A prompt whose caller was dropped is written to the new socket, once, with
\* nobody waiting: its caller is told it is uncertain.
LEMMA OrphanHonest ==
  ASSUME HonestInv, NEW s \in Sessions, SendOrphan(s)
  PROVE  HonestInv'
  <1> DEFINE j == job["turn"][s]
             v == [j EXCEPT !.at = TransportError(j)]
             q == [k |-> "none", s |-> s, method |-> "turn/start"]
  <1>1. /\ UNCHANGED <<c, thread, turns, told>> /\ wire' = Append(wire, q)
        /\ job' = [job EXCEPT !["turn"][s] = v] /\ j.at = "orphan"
    BY DEF SendOrphan, hostVars
  <1>2. "turn" \in Tasks /\ j \in TaskStates /\ j.do = "turn"
    BY <1>1 DEF HonestInv, Typed, Writing, Tasks, Sane
  <1>3. v \in TaskStates /\ v.do = "turn" /\ v.at = "uncertain"
    BY <1>1, <1>2 DEF TaskStates, TransportError, Method
  <1>4. q \in Written /\ q.k = "none" /\ q.s = s /\ q.method = "turn/start"
    BY DEF Written
  <1> HIDE DEF v, q
  <1>5. /\ job' \in [Tasks -> [Sessions -> TaskStates]]
        /\ job'["turn"][s] = v
        /\ \A k2 \in Tasks, s2 \in Sessions :
              k2 # "turn" \/ s2 # s => job'[k2][s2] = job[k2][s2]
    BY <1>1, <1>2, <1>3, JobChange DEF HonestInv, Typed
  <1>6. wire \in Seq(Written)
    BY DEF HonestInv, Typed
  <1>7. /\ wire' \in Seq(Written) /\ Len(wire) \in Nat /\ Len(wire') = Len(wire) + 1
        /\ wire'[Len(wire) + 1] = q
        /\ \A i \in 1..Len(wire) : wire'[i] = wire[i]
        /\ \A i \in 1..Len(wire') : i \in 1..Len(wire) \/ i = Len(wire) + 1
    BY <1>1, <1>4, <1>6
  <1>8. Typed' /\ Writing'
    BY <1>1, <1>3, <1>5, <1>7 DEF HonestInv, Typed, Writing, Sane
  <1>9. \A i \in 1..Len(wire) : wire[i].k \in Tasks \cup {"none"} /\ wire[i].s \in Sessions
    BY WireTyped DEF HonestInv
  <1>10. Waited'
    <2>1. ASSUME NEW i \in 1..Len(wire'), wire'[i].k # "none"
          PROVE  i \in 1..Len(wire) /\ wire'[i] = wire[i]
                 /\ job'[wire[i].k][wire[i].s] = job[wire[i].k][wire[i].s]
      <3>1. i \in 1..Len(wire) /\ wire'[i] = wire[i]
        BY <2>1, <1>4, <1>7
      <3>2. job[wire[i].k][wire[i].s].at = "wait"
        BY <3>1, <2>1 DEF HonestInv, Waited
      <3>3. wire[i].k # "turn" \/ wire[i].s # s
        BY <3>2, <1>1
      <3> QED BY <3>1, <3>3, <2>1, <1>5, <1>9
    <2>2. ASSUME NEW i \in 1..Len(wire'), NEW k \in 1..Len(wire'), wire'[i].k # "none",
                 wire'[i].k = wire'[k].k, wire'[i].s = wire'[k].s
          PROVE  i = k
      <3>1. i \in 1..Len(wire) /\ wire'[i] = wire[i]
        BY <2>1, <2>2
      <3>2. k \in 1..Len(wire) /\ wire'[k] = wire[k]
        BY <2>1, <2>2
      <3> QED BY <3>1, <3>2, <2>2 DEF HonestInv, Waited
    <2>3. ASSUME NEW i \in 1..Len(wire'), wire'[i].k # "none"
          PROVE  /\ job'[wire'[i].k][wire'[i].s].at = "wait"
                 /\ wire'[i].method = Method(job'[wire'[i].k][wire'[i].s])
      BY <2>1, <2>3 DEF HonestInv, Waited, Method
    <2> QED BY <2>2, <2>3 DEF Waited
  <1>11. ASSUME NEW s2 \in Sessions PROVE Prompted(s2)'
    <2>1. Prompted(s2)
      BY DEF HonestInv, Prompts
    <2>2. CASE s2 = s
      <3>1. Verdict(s2) = "orphan" /\ Verdict(s2)' = "uncertain" /\ told'[s2] = told[s2]
        BY <2>2, <1>1, <1>2, <1>3, <1>5 DEF Verdict
      <3>2. turns'[s2] = 0 /\ told[s2] = "none" /\ \A i \in 1..Len(wire) : ~Starts(i, s2)
        BY <3>1, <2>1, <2>2, <1>1, <1>2 DEF Prompted, Unsent
      <3>3. \A i \in 1..Len(wire') :
               Starts(i, s2)' => i = Len(wire) + 1 /\ wire'[i].k = "none"
        BY <3>2, <1>4, <1>7 DEF Starts
      <3> QED BY <3>1, <3>2, <3>3, <2>2, <1>3, <1>5 DEF Prompted, AtMostOnce
    <2>3. CASE s2 # s
      <3>1. \A i \in 1..Len(wire') :
               (Starts(i, s2)' <=> i \in 1..Len(wire) /\ Starts(i, s2))
               /\ (i \in 1..Len(wire) => wire'[i] = wire[i])
        BY <2>3, <1>4, <1>7 DEF Starts
      <3>2. AtMostOnce(s2)' /\ (Unsent(s2) => Unsent(s2)')
        BY <3>1, <2>1, <1>1, <1>7 DEF Prompted, AtMostOnce, Unsent
      <3>3. Verdict(s2)' = Verdict(s2) /\ job'["turn"][s2] = job["turn"][s2]
        BY <2>3, <1>1, <1>2, <1>5 DEF Verdict
      <3> QED BY <3>1, <3>2, <3>3, <2>1, <1>1 DEF Prompted
    <2> QED BY <2>2, <2>3
  <1> QED BY <1>8, <1>10, <1>11 DEF HonestInv, Prompts

\* The caller is told what its task knows.
LEMMA AnsweredHonest ==
  ASSUME HonestInv, NEW s \in Sessions, TurnAnswered(s)
  PROVE  HonestInv'
  <1> DEFINE j == job["turn"][s]
  <1>1. PICK v \in {Idle, [do |-> "recover", at |-> "send"]} :
           job' = [job EXCEPT !["turn"][s] = v]
    BY DEF TurnAnswered, Set, End
  <1>2. /\ UNCHANGED <<c, thread, wire, turns>>
        /\ told' = [told EXCEPT ![s] = j.at]
        /\ j.do = "turn" /\ j.at \in {"ok", "failed", "uncertain"}
    BY DEF TurnAnswered, hostVars, wireVars
  <1>3. v \in TaskStates /\ v.do # "turn" /\ Sane("turn", v) /\ "turn" \in Tasks
    BY DEF TaskStates, Sane, Idle, Tasks
  <1>4. /\ job' \in [Tasks -> [Sessions -> TaskStates]]
        /\ job'["turn"][s] = v
        /\ \A k2 \in Tasks, s2 \in Sessions :
              k2 # "turn" \/ s2 # s => job'[k2][s2] = job[k2][s2]
    BY <1>1, <1>3, JobChange DEF HonestInv, Typed
  <1>5. /\ told' \in [Sessions -> {"none", "ok", "failed", "uncertain"}]
        /\ told'[s] = j.at /\ \A s2 \in Sessions : s2 # s => told'[s2] = told[s2]
    BY <1>2 DEF HonestInv, Typed
  <1>6. Typed' /\ Writing'
    BY <1>2, <1>3, <1>4, <1>5 DEF HonestInv, Typed, Writing, Sane
  <1>7. \A i \in 1..Len(wire) : wire[i].k \in Tasks \cup {"none"} /\ wire[i].s \in Sessions
    BY WireTyped DEF HonestInv
  <1>8. Waited'
    BY <1>2, <1>4, <1>7 DEF HonestInv, Waited, Method
  <1>9. ASSUME NEW s2 \in Sessions PROVE Prompted(s2)'
    <2>1. Prompted(s2)
      BY DEF HonestInv, Prompts
    <2>2. \A i \in 1..Len(wire) : Starts(i, s2)' <=> Starts(i, s2)
      BY <1>2 DEF Starts
    <2>3. AtMostOnce(s2)' /\ (Unsent(s2) => Unsent(s2)')
      BY <2>1, <2>2, <1>2 DEF Prompted, AtMostOnce, Unsent
    <2>4. Verdict(s2)' = Verdict(s2)
      BY <1>2, <1>3, <1>4, <1>5 DEF Verdict, Tasks
    <2>5. job'["turn"][s2].do = "turn" =>
             job'["turn"][s2] = job["turn"][s2] /\ told'[s2] = told[s2]
      BY <1>3, <1>4, <1>5
    <2> QED BY <2>1, <2>2, <2>3, <2>4, <2>5, <1>2 DEF Prompted
  <1> QED BY <1>6, <1>8, <1>9 DEF HonestInv, Prompts

\* The tasks that hold no prompt, their responses and their deadlines.
LEMMA TaskHonest ==
  ASSUME HonestInv, NEW k \in Tasks, NEW s \in Sessions,
         \/ FinishAttach(k, s) \/ FinishRecover(k, s) \/ EndUnsubscribe(k, s)
         \/ RecoverTimesOut(k, s) \/ AttachTimesOut(k, s)
  PROVE  HonestInv'
  <1> DEFINE j == job[k][s]
  <1>1. Idle \in TaskStates /\ Sane(k, Idle) /\ Idle.do # "turn"
    BY DEF Idle, TaskStates, Sane
  <1>2. c \in Followers
    BY DEF HonestInv, Typed
  <1>3. CASE AttachTimesOut(k, s)
    <2>1. /\ UNCHANGED <<thread, turns, told>> /\ wire' = Forget(wire, k, s)
          /\ job' = [job EXCEPT ![k][s] = Idle] /\ j.do # "turn"
      BY <1>3 DEF AttachTimesOut, End, hostVars
    <2>2. c' \in Followers
      BY <1>2, <1>3 DEF AttachTimesOut, Provisional, Followers
    <2> QED BY <2>1, <2>2, ForgetStep
  <1>4. CASE FinishAttach(k, s)
    <2>1. /\ UNCHANGED <<thread, wire, turns, told>> /\ j.do # "turn" /\ j.at # "wait"
          /\ job' = [job EXCEPT ![k][s] = Idle]
      BY <1>4 DEF FinishAttach, End, hostVars, wireVars
    <2>2. \A r \in {"ok", "initializing", "writer"} : Attached(s, r) \in Followers
      BY <1>2 DEF Attached, Followers
    <2>3. c' \in Followers
      BY <1>2, <1>4, <2>2 DEF FinishAttach, Followers
    <2> QED BY <2>1, <2>3, <1>1, QuietStep
  <1>5. CASE FinishRecover(k, s)
    <2>1. /\ UNCHANGED <<thread, wire, turns, told>> /\ j.do # "turn" /\ j.at # "wait"
          /\ job' = [job EXCEPT ![k][s] = Idle]
      BY <1>5 DEF FinishRecover, End, hostVars, wireVars
    <2>2. c' \in Followers
      BY <1>2, <1>5 DEF FinishRecover, Recovered, Followers
    <2> QED BY <2>1, <2>2, <1>1, QuietStep
  <1>6. CASE EndUnsubscribe(k, s) \/ RecoverTimesOut(k, s)
    <2>1. /\ UNCHANGED <<c, thread, wire, turns, told>> /\ j.do # "turn" /\ j.at # "wait"
          /\ job' = [job EXCEPT ![k][s] = Idle]
      BY <1>6 DEF EndUnsubscribe, RecoverTimesOut, End, hostVars, wireVars
    <2> QED BY <2>1, <1>1, <1>2, QuietStep
  <1> QED BY <1>3, <1>4, <1>5, <1>6

\* The engine's calls, the monitors, and clients that come and go.
LEMMA OthersHonest ==
  ASSUME HonestInv, NEW s \in Sessions,
         \/ EngineAttach(s) \/ EngineUnsubscribe(s) \/ LaunchSession(s)
         \/ StartRefresh(s) \/ AbortRefresh(s) \/ SessionExits(s) \/ CheckRelease(s)
         \/ ClientRegisters(s) \/ ClientLeaves(s) \/ ReplacementExpires(s) \/ FirstTurn(s)
  PROVE  HonestInv'
  <1>1. /\ c \in Followers /\ Tasks = {"engine", "refresh", "release", "turn"}
        /\ thread \in [Sessions -> {"fresh", "empty", "ready", "owned"}]
    BY DEF HonestInv, Typed, Tasks
  <1>2. \A k \in Tasks :
          /\ job[k][s] \in TaskStates /\ Sane(k, job[k][s])
          /\ Idle \in TaskStates /\ Sane(k, Idle)
    BY DEF HonestInv, Typed, Writing, Idle, TaskStates, Sane
  <1>3. \A k \in Tasks, d \in {"attach", "recover", "unsubscribe"}, a \in {"send", "check"} :
          LET v == [do |-> d, at |-> a]
          IN  v \in TaskStates /\ v.do # "turn" /\ Sane(k, v)
    BY DEF TaskStates, Sane
  <1>4. Idle.do = "none" /\ Idle.at = "idle"
    BY DEF Idle
  <1>5. CASE EngineAttach(s)
    <2>1. UNCHANGED <<thread, wire, turns, told>> /\ job["engine"][s] = Idle
      BY <1>5 DEF EngineAttach, hostVars, wireVars
    <2>2. c' \in Followers
      <3>1. c' = Offline(s) \/ c' = c
        BY <1>5 DEF EngineAttach
      <3>2. Offline(s) \in Followers
        BY <1>1 DEF Offline, Followers
      <3> QED BY <3>1, <3>2, <1>1
    <2>3. \/ UNCHANGED job
          \/ job' = [job EXCEPT !["engine"][s] = [do |-> "attach", at |-> "send"]]
      BY <1>5 DEF EngineAttach, Set
    <2>4. CASE UNCHANGED job
      BY <2>1, <2>2, <2>4, <1>1, StillStep
    <2>5. CASE job' = [job EXCEPT !["engine"][s] = [do |-> "attach", at |-> "send"]]
      BY <2>1, <2>2, <2>5, <1>1, <1>3, <1>4, QuietStep
    <2> QED BY <2>3, <2>4, <2>5
  <1>6. CASE EngineUnsubscribe(s)
    <2>1. UNCHANGED <<thread, wire, turns, told>> /\ job["engine"][s] = Idle
      BY <1>6 DEF EngineUnsubscribe, hostVars, wireVars
    <2>2. c' \in Followers
      <3>1. CASE s \in c.obs
        <4>1. c' = [c EXCEPT !.watched = @ \ {s}, !.exited = @ \ {s}, !.obs = @ \ {s}]
          BY <1>6, <3>1 DEF EngineUnsubscribe
        <4> QED BY <4>1, <1>1 DEF Followers
      <3>2. CASE s \notin c.obs
        <4>1. c' = [c EXCEPT !.watched = @ \ {s}, !.exited = @ \ {s},
                             !.subs = @ \ {s}, !.pend = @ \ {s}]
          BY <1>6, <3>2 DEF EngineUnsubscribe
        <4> QED BY <4>1, <1>1 DEF Followers
      <3> QED BY <3>1, <3>2
    <2>3. \/ UNCHANGED job
          \/ job' = [job EXCEPT !["engine"][s] = [do |-> "unsubscribe", at |-> "send"]]
      BY <1>6 DEF EngineUnsubscribe, Set
    <2>4. CASE UNCHANGED job
      BY <2>1, <2>2, <2>4, <1>1, StillStep
    <2>5. CASE job' = [job EXCEPT !["engine"][s] = [do |-> "unsubscribe", at |-> "send"]]
      BY <2>1, <2>2, <2>5, <1>1, <1>3, <1>4, QuietStep
    <2> QED BY <2>3, <2>4, <2>5
  <1>7. CASE LaunchSession(s)
    <2>1. UNCHANGED <<job, thread, wire, turns, told>>
      BY <1>7 DEF LaunchSession, hostVars, wireVars
    <2>2. c' \in Followers
      BY <1>1, <1>7 DEF LaunchSession, Followers
    <2> QED BY <2>1, <2>2, <1>1, StillStep
  <1>8. CASE StartRefresh(s)
    <2>1. UNCHANGED <<thread, wire, turns, told>> /\ job["refresh"][s] = Idle
      BY <1>8 DEF StartRefresh, hostVars, wireVars
    <2>2. /\ c' \in Followers
          /\ \/ UNCHANGED job
             \/ \E d \in {"attach", "recover"} :
                   job' = [job EXCEPT !["refresh"][s] = [do |-> d, at |-> "send"]]
      <3>1. \/ c' = Resumed(s) /\ UNCHANGED job
            \/ Set("refresh", s, "attach", "send") /\ UNCHANGED c
            \/ Set("refresh", s, "recover", "send") /\ UNCHANGED c
            \/ UNCHANGED <<c, job>>
        BY <1>8 DEF StartRefresh
      <3>2. Resumed(s) \in Followers
        BY <1>1 DEF Resumed, Followers
      <3> QED BY <3>1, <3>2, <1>1 DEF Set
    <2>3. CASE UNCHANGED job
      BY <2>1, <2>2, <2>3, <1>1, StillStep
    <2>4. ASSUME NEW d \in {"attach", "recover"},
                 job' = [job EXCEPT !["refresh"][s] = [do |-> d, at |-> "send"]]
          PROVE  HonestInv'
      BY <2>1, <2>2, <2>4, <1>1, <1>3, <1>4, QuietStep
    <2> QED BY <2>2, <2>3, <2>4
  <1>9. CASE AbortRefresh(s)
    <2>1. /\ UNCHANGED <<c, thread, turns, told>> /\ wire' = Forget(wire, "refresh", s)
          /\ job' = [job EXCEPT !["refresh"][s] = Idle]
      BY <1>9 DEF AbortRefresh, End, hostVars
    <2>2. job["refresh"][s].do # "turn"
      BY <1>1, <1>2 DEF Sane
    <2> QED BY <2>1, <2>2, <1>1, ForgetStep
  <1>10. CASE SessionExits(s)
    <2>1. UNCHANGED <<thread, wire, turns, told>>
      BY <1>10 DEF SessionExits, hostVars, wireVars
    <2>2. c' \in Followers
      BY <1>1, <1>10 DEF SessionExits, Departed, Followers
    <2>3. \/ UNCHANGED job
          \/ /\ job["release"][s] = Idle
             /\ job' = [job EXCEPT !["release"][s] = [do |-> "unsubscribe", at |-> "check"]]
      BY <1>10 DEF SessionExits, Set
    <2>4. CASE UNCHANGED job
      BY <2>1, <2>2, <2>4, <1>1, StillStep
    <2>5. CASE ~UNCHANGED job
      BY <2>1, <2>2, <2>3, <2>5, <1>1, <1>3, <1>4, QuietStep
    <2> QED BY <2>4, <2>5
  <1>11. CASE CheckRelease(s)
    <2>1. UNCHANGED <<c, thread, wire, turns, told>> /\ job["release"][s].at = "check"
      BY <1>11 DEF CheckRelease, hostVars, wireVars
    <2>2. job["release"][s].do # "turn"
      BY <1>1, <1>2 DEF Sane
    <2>3. \/ job' = [job EXCEPT !["release"][s] = Idle]
          \/ job' = [job EXCEPT !["release"][s] = [do |-> "unsubscribe", at |-> "send"]]
      BY <1>11 DEF CheckRelease, Set, End
    <2>4. CASE job' = [job EXCEPT !["release"][s] = Idle]
      BY <2>1, <2>2, <2>4, <1>1, <1>2, <1>4, QuietStep
    <2>5. CASE job' = [job EXCEPT !["release"][s] = [do |-> "unsubscribe", at |-> "send"]]
      BY <2>1, <2>2, <2>5, <1>1, <1>3, QuietStep
    <2> QED BY <2>3, <2>4, <2>5
  <1>12. CASE ClientRegisters(s) \/ ClientLeaves(s) \/ ReplacementExpires(s)
    <2>1. UNCHANGED <<c, job, thread, wire, turns, told>>
      BY <1>12 DEF ClientRegisters, ClientLeaves, ReplacementExpires, clientVars, wireVars
    <2> QED BY <2>1, <1>1, StillStep
  <1>13. CASE FirstTurn(s)
    <2>1. UNCHANGED <<c, job, wire, turns, told>>
      BY <1>13 DEF FirstTurn, wireVars
    <2>2. thread' \in [Sessions -> {"fresh", "empty", "ready", "owned"}]
      BY <1>1, <1>13 DEF FirstTurn
    <2> QED BY <2>1, <2>2, <1>1, StillStep
  <1> QED BY <1>5, <1>6, <1>7, <1>8, <1>9, <1>10, <1>11, <1>12, <1>13

LEMMA NextHonest ==
  ASSUME IsFiniteSet(Sessions), HonestInv, [Next]_vars
  PROVE  HonestInv'
  <1>1. CASE ServeRequest
    BY <1>1, ServeHonest
  <1>2. CASE Reconnect
    BY <1>2, ReconnectHonest
  <1>3. CASE Disconnected
    BY <1>3, DisconnectHonest
  <1>4. ASSUME NEW s \in Sessions, NEW k \in Tasks,
               \/ FinishAttach(k, s) \/ SendRequest(k, s) \/ FinishRecover(k, s)
               \/ EndUnsubscribe(k, s) \/ AttachTimesOut(k, s) \/ RecoverTimesOut(k, s)
        PROVE  HonestInv'
    BY <1>4, TaskHonest, SendHonest
  <1>5. ASSUME NEW s \in Sessions,
               StartTurn(s) \/ TurnTimesOut(s) \/ SendOrphan(s) \/ TurnAnswered(s)
        PROVE  HonestInv'
    BY <1>5, StartHonest, TimeoutHonest, OrphanHonest, AnsweredHonest
  <1>6. ASSUME NEW s \in Sessions,
               \/ EngineAttach(s) \/ EngineUnsubscribe(s) \/ LaunchSession(s)
               \/ StartRefresh(s) \/ AbortRefresh(s) \/ SessionExits(s) \/ CheckRelease(s)
               \/ ClientRegisters(s) \/ ClientLeaves(s) \/ ReplacementExpires(s)
               \/ FirstTurn(s)
        PROVE  HonestInv'
    BY <1>6, OthersHonest
  <1>7. CASE UNCHANGED vars
    <2>1. UNCHANGED <<c, job, thread, wire, turns, told>>
      BY <1>7 DEF vars, clientVars, hostVars, wireVars
    <2>2. /\ c \in Followers
          /\ thread \in [Sessions -> {"fresh", "empty", "ready", "owned"}]
      BY DEF HonestInv, Typed
    <2> QED BY <2>1, <2>2, StillStep
  <1> QED BY <1>1, <1>2, <1>3, <1>4, <1>5, <1>6, <1>7
          DEF Next, Progress, Environment, Steps

\* A caller told its prompt failed can send it again: it was neither started
\* nor is on its way; one told it succeeded has it started; none starts twice
\* (request_rpc, request_transport_error, read_loop).
THEOREM HonestErrorsHold ==
  ASSUME IsFiniteSet(Sessions)
  PROVE  Init /\ [][Next]_vars => []HonestErrors
  <1>1. Init => HonestInv
    BY InitHonest
  <1>2. HonestInv /\ [Next]_vars => HonestInv'
    BY NextHonest
  <1>3. HonestInv => HonestErrors
    <2> SUFFICES ASSUME HonestInv, NEW s \in Sessions
                 PROVE  LET written == {i \in DOMAIN wire :
                                          wire[i].s = s /\ wire[i].method = "turn/start"}
                        IN  /\ turns[s] <= 1
                            /\ told[s] = "failed" => turns[s] = 0 /\ written = {}
                            /\ told[s] = "ok" => turns[s] = 1
      BY DEF HonestErrors
    <2>1. Prompted(s)
      BY DEF HonestInv, Prompts
    <2>2. told[s] # "none" => Verdict(s) = told[s]
      BY <2>1 DEF Verdict, Prompted
    <2>3. DOMAIN wire = 1..Len(wire)
      BY DEF HonestInv, Typed
    <2> QED BY <2>1, <2>2, <2>3 DEF Prompted, AtMostOnce, Unsent, Starts
  <1> QED BY <1>1, <1>2, <1>3, PTL
=============================================================================
