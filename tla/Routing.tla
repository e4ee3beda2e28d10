------------------------------- MODULE Routing -------------------------------
(***************************************************************************)
(* How a prompt is routed to a Job before the agent sees it.               *)
(*                                                                         *)
(* The host's hook (plugins/taskix-manager runtime.mjs) reads a snapshot   *)
(* (agentix-task routing.rs), has a classifier decide (jev.mjs,            *)
(* lifecycle.mjs) and hands the agent a command.  None of these hold a     *)
(* lock: other sessions and people change Jobs, Issues and leases between  *)
(* any two of the steps.  The classifier is outside: it answers anything.  *)
(***************************************************************************)
EXTENDS Naturals, FiniteSets

CONSTANTS Nobody,
          Jobs,
          Limit,       \* candidates in one snapshot (32)
          MaxTurns,    \* bound: prompts of the session
          MaxMoves     \* bound: changes made by others, and assessments

VARIABLES
    job,      \* the store's Jobs: revision, status, associated with the Issue
    task,     \* one open Task of each: revision, open
    issue,    \* the Issue: revision, writable
    lease,    \* the session's lease: the Job it is on, and whether its time ran out
    turn,
    receipt,  \* the routing receipt on disk exists
    ready,    \* history: the facts of this turn reached the agent
    route,    \* the hook or helper at work
    acted,    \* history: the agent's last effect, and what it was judged by
    quiet,    \* history: discovery was left out of this turn
    moves

vars == <<job, task, issue, lease, turn, receipt, ready, route, acted, quiet, moves>>

Idle == [step |-> "idle"]
NoAct == [kind |-> "none"]
Open == {"active", "review"}
Kinds == {"prompt", "policy", "completion", "recovery"}

Init ==
    /\ job \in [Jobs -> [rev : {0}, status : Open, linked : {FALSE}]]
    /\ task = [j \in Jobs |-> [rev |-> 0, open |-> TRUE]]
    /\ issue = [rev |-> 0, writable |-> TRUE]
    /\ lease \in [job : {j \in Jobs : job[j].status = "active"} \union {Nobody}, lapsed : {FALSE}]
    /\ turn = 0 /\ receipt = FALSE /\ ready = FALSE /\ quiet = FALSE
    /\ route = Idle /\ acted = NoAct /\ moves = 0

----------------------------------------------------------------------------
(* Everybody else *)

Touch(j, status, linked) ==
    job' = [job EXCEPT ![j] = [rev |-> @.rev + 1, status |-> status, linked |-> linked]]

Others ==
    /\ moves < MaxMoves /\ moves' = moves + 1
    /\ \/ \E j \in Jobs : \E status \in {"active", "review", "done"} :
            /\ job[j].status # "done" /\ Touch(j, status, job[j].linked)
            /\ UNCHANGED <<task, issue, lease>>
       \/ \E j \in Jobs :
            /\ job[j].status \in Open /\ ~job[j].linked /\ Touch(j, job[j].status, TRUE)
            /\ UNCHANGED <<task, issue, lease>>
       \/ \E j \in Jobs : \E open \in BOOLEAN :
            /\ task' = [task EXCEPT ![j] = [rev |-> @.rev + 1, open |-> open]]
            /\ UNCHANGED <<job, issue, lease>>
       \/ \E w \in BOOLEAN :
            /\ issue' = [rev |-> issue.rev + 1, writable |-> w] /\ UNCHANGED <<job, task, lease>>
       \/ /\ lease.job # Nobody /\ ~lease.lapsed /\ lease' = [lease EXCEPT !.lapsed = TRUE]
          /\ UNCHANGED <<job, task, issue>>
    /\ UNCHANGED <<turn, receipt, ready, route, acted, quiet>>

----------------------------------------------------------------------------
(* The snapshot *)

\* routing_assignment: a lease whose time ran out is none.
Assigned == IF lease.lapsed THEN Nobody ELSE lease.job

\* Mutant: the receipt of the turn before is left.
ClearedNot == receipt

Cleared == FALSE

\* The prompt arrives; the receipt is removed before anything can fail.  The helper that
\* assesses a transition (lifecycle.mjs) starts within a turn and has no receipt.
Submit ==
    /\ route.step = "idle" /\ turn < MaxTurns
    /\ turn' = turn + 1 /\ ready' = FALSE /\ quiet' = FALSE
    /\ receipt' = Cleared
    /\ route' = [step |-> "snapshot", kind |-> "prompt"] /\ acted' = NoAct
    /\ UNCHANGED <<job, task, issue, lease, moves>>

Assess(k) ==
    /\ route.step = "idle" /\ turn > 0 /\ moves < MaxMoves /\ moves' = moves + 1
    /\ route' = [step |-> "snapshot", kind |-> k] /\ acted' = NoAct
    /\ UNCHANGED <<job, task, issue, lease, turn, receipt, ready, quiet>>

\* session.heartbeat: leases that ran out are taken back, their Tasks wait for the session;
\* the others are renewed.  The assignment is read after it.
Heartbeat ==
    /\ route.step = "snapshot"
    /\ lease' = IF lease.lapsed THEN [job |-> Nobody, lapsed |-> FALSE] ELSE lease
    /\ task' = IF lease.lapsed THEN [task EXCEPT ![lease.job].rev = @ + 1] ELSE task
    /\ route' = [step |-> "beaten", kind |-> route.kind]
    /\ UNCHANGED <<job, issue, turn, receipt, ready, acted, quiet, moves>>

Reassign ==
    /\ route.step = "beaten"
    /\ route' = [step |-> "assigned", kind |-> route.kind, held |-> Assigned]
    /\ UNCHANGED <<job, task, issue, lease, turn, receipt, ready, acted, quiet, moves>>

\* routing_candidates and, in a transaction of its own, routing_issues.
Candidates ==
    /\ route.step = "assigned"
    /\ LET all == {j \in Jobs : job[j].status \in Open}
       IN  \E some \in SUBSET all :
             /\ Cardinality(some) = (IF Cardinality(all) > Limit THEN Limit ELSE Cardinality(all))
             /\ route' = [step |-> "candidates", kind |-> route.kind, held |-> route.held,
                          jobs |-> [j \in some |-> job[j]], tasks |-> [j \in some |-> task[j]],
                          complete |-> some = all]
    /\ UNCHANGED <<job, task, issue, lease, turn, receipt, ready, acted, quiet, moves>>

\* With the Issues the facts are whole: prepareMeasuredPrompt is ready.
Issues ==
    /\ route.step = "candidates"
    /\ ready' = (ready \/ route.kind = "prompt")
    /\ route' = [step |-> "judge", kind |-> route.kind, held |-> route.held, jobs |-> route.jobs,
                 tasks |-> route.tasks, complete |-> route.complete, issue |-> issue]
    /\ UNCHANGED <<job, task, issue, lease, turn, receipt, acted, quiet, moves>>

----------------------------------------------------------------------------
(* The judgement *)

\* Mutant: a held assignment does not bind the classifier.
KeepsAny(r, j) == TRUE

\* "Do not redirect an owned assignment, even if a classifier prefers another Job."
Keeps(r, j) == r.held \in {Nobody, j}

\* What the answers may be turned into: every refusal is the agent's to decide.
Verdicts(r) ==
    IF r.kind = "prompt"
    THEN {[kind |-> "new", job |-> Nobody, link |-> l] : l \in {x \in BOOLEAN : x => r.issue.writable}}
         \union {[kind |-> "resume", job |-> j, link |-> l] :
                     j \in {x \in DOMAIN r.jobs : r.jobs[x].status = "active"}, l \in BOOLEAN}
         \union {[kind |-> "followup", job |-> j, link |-> l] :
                     j \in {x \in DOMAIN r.jobs : r.jobs[x].status = "review"}, l \in BOOLEAN}
         \union {[kind |-> k, job |-> j, link |-> FALSE] : k \in {"approve", "reject"},
                     j \in {x \in DOMAIN r.jobs : r.jobs[x].status = "review"}}
         \union {[kind |-> "cancel", job |-> j, link |-> FALSE] : j \in DOMAIN r.jobs}
    ELSE {[kind |-> r.kind, job |-> j, link |-> FALSE] :
             j \in {x \in DOMAIN r.jobs : r.kind = "completion" =>
                                           (r.jobs[x].status = "active" /\ r.tasks[x].open)}}

\* An Issue the Job has is preserved; a new one is one the snapshot showed.
Linkable(r, v) ==
    v.link => (v.job # Nobody /\ r.jobs[v.job].linked) \/ r.issue.writable

\* The answers pass the checks that need no new read.
Judge ==
    /\ route.step = "judge" /\ route.complete
    /\ route.held = Nobody \/ route.held \in DOMAIN route.jobs
    /\ \E v \in Verdicts(route) :
         /\ Keeps(route, v.job) /\ Linkable(route, v)
         /\ route' = [step |-> "recheck", verdict |-> v, kind |-> route.kind, held |-> route.held,
                      complete |-> route.complete, issue |-> route.issue, read |-> Nobody,
                      was |-> IF v.job = Nobody THEN Nobody
                              ELSE <<route.jobs[v.job], route.tasks[v.job]>>]
    /\ UNCHANGED <<job, task, issue, lease, turn, receipt, ready, acted, quiet, moves>>

\* unchangedJob, once after the classifier and again after the Issue was read.
Unchanged(r) == r.verdict.job = Nobody \/ job[r.verdict.job] = r.was[1]

Recheck ==
    /\ route.step \in {"recheck", "again"}
    /\ route' = IF ~Unchanged(route) THEN Idle
                ELSE [route EXCEPT !.step =
                        IF route.verdict.link /\ @ = "recheck" THEN "issue" ELSE "decided"]
    /\ UNCHANGED <<job, task, issue, lease, turn, receipt, ready, acted, quiet, moves>>

\* Mutant: the Issue that was just read is not compared with the one that was judged.
SameIssueAny(r) == issue.writable

SameIssue(r) == issue.writable /\ issue.rev = r.issue.rev

\* obsidian sync and issue show.
Reread ==
    /\ route.step = "issue"
    /\ route' = IF SameIssue(route) THEN [route EXCEPT !.step = "again", !.read = issue] ELSE Idle
    /\ UNCHANGED <<job, task, issue, lease, turn, receipt, ready, acted, quiet, moves>>

\* Any answer that is refused, any read that fails, and the deadline: the agent decides.
Defer ==
    /\ route.step \notin {"idle", "decided"} /\ route' = Idle
    /\ receipt' = (receipt \/ (route.kind = "prompt" /\ ready))
    /\ UNCHANGED <<job, task, issue, lease, turn, ready, acted, quiet, moves>>

----------------------------------------------------------------------------
(* The agent *)

\* The revisions that go with the command the agent is told to run.
\* Mutant: a followup goes without a revision.
GuardedNot(k) == k \in {"approve", "reject", "cancel", "policy", "completion"}

Guarded(k) == k \in {"followup", "approve", "reject", "cancel", "policy", "completion"}

\* The store's checks of that command (check_revision, associate, completion_policy).
Accepts(r) ==
    LET v == r.verdict
    IN  /\ v.job # Nobody /\ Guarded(v.kind) => job[v.job].rev = r.was[1].rev
        /\ v.kind \in {"completion", "recovery"} => task[v.job].rev = r.was[2].rev
        /\ v.kind \in {"followup", "approve", "reject"} => job[v.job].status = "review"
        /\ v.kind \in {"resume", "completion"} => job[v.job].status = "active"
        /\ v.kind \in {"cancel", "policy"} => job[v.job].status \in Open
        /\ v.link => issue.writable /\ issue.rev = r.read.rev

After(v) ==
    CASE v.kind \in {"followup", "reject"} -> "active"
      [] v.kind \in {"approve", "cancel", "completion"} -> "done"
      [] OTHER -> job[v.job].status

\* The agent runs the command; what it left out, or the store refuses, changes nothing.
Act ==
    /\ route.step = "decided"
    /\ LET v == route.verdict
       IN  IF Accepts(route)
           THEN /\ IF v.kind \in {"new", "resume", "recovery"} THEN UNCHANGED job
                   ELSE Touch(v.job, After(v), job[v.job].linked \/ v.link)
                /\ task' = IF v.kind \in {"recovery", "completion"}
                           THEN [task EXCEPT ![v.job] = [rev |-> @.rev + 1, open |-> v.kind = "recovery"]]
                           ELSE task
                /\ acted' = [kind |-> v.kind, job |-> v.job, held |-> Assigned, complete |-> route.complete,
                             was |-> route.was, link |-> v.link, seen |-> route.issue, issue |-> issue,
                             is |-> IF v.job = Nobody THEN Nobody ELSE <<job[v.job], task[v.job]>>]
           ELSE UNCHANGED <<job, task, acted>>
    /\ receipt' = (receipt \/ (route.kind = "prompt" /\ ready))
    /\ route' = Idle
    /\ UNCHANGED <<issue, lease, turn, ready, quiet, moves>>

\* A tool is about to be used: with a receipt, discovery is left out.
Tool ==
    /\ route.step = "idle" /\ turn > 0 /\ receipt /\ quiet' = TRUE
    /\ UNCHANGED <<job, task, issue, lease, turn, receipt, ready, route, acted, moves>>

\* Stop, Interrupt, SessionEnd.
TurnEnds ==
    /\ route.step = "idle" /\ receipt /\ receipt' = FALSE
    /\ UNCHANGED <<job, task, issue, lease, turn, ready, route, acted, quiet, moves>>

Next ==
    \/ Others \/ Submit \/ Heartbeat \/ Reassign \/ Candidates \/ Issues
    \/ Judge \/ Recheck \/ Reread \/ Defer \/ Act \/ Tool \/ TurnEnds
    \/ \E k \in Kinds \ {"prompt"} : Assess(k)

Spec == Init /\ [][Next]_vars

----------------------------------------------------------------------------
\* A command that had an effect on a Job found it, its Task and its Issue as the classifier
\* saw them, however long the classifier took.
ActedAsJudged ==
    acted # NoAct =>
        /\ acted.kind \in {"followup", "approve", "reject", "cancel", "policy", "completion"} =>
               acted.is[1] = acted.was[1]
        /\ acted.kind \in {"completion", "recovery"} => acted.is[2] = acted.was[2]
        /\ acted.link => acted.issue = acted.seen

\* A session that holds a Task is not sent to another Job, and a Job is new only when every
\* open one was considered.
NotRedirected ==
    acted # NoAct => acted.held \in {Nobody, acted.job} /\ acted.complete

\* Discovery is left out only in a turn whose facts reached the agent.
QuietWhenTold == quiet => ready

RoutingTrue == ActedAsJudged /\ NotRedirected /\ QuietWhenTold
=============================================================================
