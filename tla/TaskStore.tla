----------------------------- MODULE TaskStore -----------------------------
(***************************************************************************)
(* The lifecycle kernel of the Taskix store (crates/agentix-task): Tasks   *)
(* with their leases and dependencies, the Jobs that group them, the       *)
(* Issues Jobs deliver, and the Projects that own everything.  One action  *)
(* is one committed command: store.rs runs a command in one BEGIN          *)
(* IMMEDIATE transaction and rolls back on any error, so a command whose   *)
(* checks fail changes nothing.  Lease reaping is a transaction of its own.*)
(*                                                                         *)
(* Abstractions.  Identifiers are fresh UUIDs, so the Job of a Task and    *)
(* the Project of a Job or Issue are fixed functions of the identifier and *)
(* "ABSENT" / "DELETED" mean not yet created / removed for good.  Time is  *)
(* the `expired' flag of a lease.  A caller is the session whose current   *)
(* lease token it presents, or None when it presents no token; a caller    *)
(* with an outdated token is refused in every state.  Revisions, names,    *)
(* titles, prompts, conversations, timestamps nobody tests, events and     *)
(* document paths are left out (and with them task.update and the renames),*)
(* as is the creator task.add records, which a claim overwrites before any *)
(* command reads it; an expected_revision can only refuse a command that   *)
(* is otherwise accepted here.                                             *)
(***************************************************************************)
EXTENDS Naturals, FiniteSets

CONSTANTS
    Projects, Jobs, Tasks, Issues,  \* identifiers that may be created
    JobProject, IssueProject,       \* the Project a Job or Issue is created in
    TaskJob,                        \* the Job a Task is created in
    Executors, Sessions,            \* who may hold leases
    Policies,                       \* the review policies requests name
    Commands,                       \* the commands issued in a behaviour
    None, Keep                      \* no value; a request without the field

ASSUME ParentsTyped == /\ JobProject \in [Jobs -> Projects]
                       /\ IssueProject \in [Issues -> Projects]
                       /\ TaskJob \in [Tasks -> Jobs]
ASSUME PoliciesTyped == Policies \subseteq {"required", "none"} /\ Keep \notin Policies
ASSUME NoneIsNobody == /\ None \notin Executors \cup Sessions \cup Issues
                       /\ None \notin {"PLANNING", "EXECUTING"}
                       /\ Keep \notin Issues \cup {None}
                       /\ \A e \in Executors, s \in Sessions, b \in BOOLEAN :
                             None # [executor |-> e, session |-> s, expired |-> b]

VARIABLES
    project,    \* Project status
    issue,      \* Issue records
    job,        \* Job records
    task,       \* Task records
    lease       \* the lease of each Task, or None

vars == <<project, issue, job, task, lease>>

----------------------------------------------------------------------------
(* Records and states *)

TaskStatus == {"TODO", "IN_PROGRESS", "BLOCKED", "WAITING_USER",
               "DONE", "FAILED", "CANCELLED"}
Terminal == {"DONE", "FAILED", "CANCELLED"}
JobStatus == {"ACTIVE", "PENDING_REVIEW", "COMPLETED", "CANCELLED"}
IssueStatus == {"TODO", "ACTIVE", "PENDING_REVIEW", "COMPLETED", "CANCELLED"}
Closed == {"COMPLETED", "CANCELLED"}
Gone == {"ABSENT", "DELETED"}

TaskRecord == [status : TaskStatus \cup Gone, phase : {"PLANNING", "EXECUTING", None},
               started : BOOLEAN, planned : BOOLEAN, deps : SUBSET Tasks,
               systemBlock : BOOLEAN, executor : Executors \cup {None},
               session : Sessions \cup {None}]
JobRecord == [status : JobStatus \cup Gone, policy : {"required", "none"},
              started : BOOLEAN, followup : SUBSET Tasks, rejected : BOOLEAN,
              archived : BOOLEAN, issue : Issues \cup {None}]
IssueRecord == [status : IssueStatus \cup Gone, archived : BOOLEAN]
LeaseRecord == [executor : Executors, session : Sessions, expired : BOOLEAN]

Allows(from, to) ==
    to \in CASE from = "TODO" ->
                  {"IN_PROGRESS", "BLOCKED", "WAITING_USER", "CANCELLED"}
             [] from = "IN_PROGRESS" ->
                  {"DONE", "BLOCKED", "WAITING_USER", "FAILED", "CANCELLED"}
             [] from = "BLOCKED" ->
                  {"IN_PROGRESS", "WAITING_USER", "DONE", "FAILED", "CANCELLED"}
             [] from = "WAITING_USER" ->
                  {"IN_PROGRESS", "BLOCKED", "FAILED", "CANCELLED"}
             [] OTHER -> {}

NewTask == [status |-> "TODO", phase |-> None, started |-> FALSE, planned |-> FALSE,
            deps |-> {}, systemBlock |-> FALSE, executor |-> None, session |-> None]
NewJob == [status |-> "ACTIVE", policy |-> "required", started |-> FALSE,
           followup |-> {}, rejected |-> FALSE, archived |-> FALSE, issue |-> None]
NewIssue == [status |-> "TODO", archived |-> FALSE]

Init ==
    /\ project = [p \in Projects |-> "ABSENT"]
    /\ issue = [i \in Issues |-> [NewIssue EXCEPT !.status = "ABSENT"]]
    /\ job = [j \in Jobs |-> [NewJob EXCEPT !.status = "ABSENT"]]
    /\ task = [t \in Tasks |-> [NewTask EXCEPT !.status = "ABSENT"]]
    /\ lease = [t \in Tasks |-> None]

----------------------------------------------------------------------------
(* Questions the commands ask *)

Exists(t) == task[t].status \notin Gone
TasksOf(js) == {t \in Tasks : TaskJob[t] \in js /\ Exists(t)}
ProjectOf(t) == JobProject[TaskJob[t]]

\* At least one Task that is not cancelled, and all such Tasks DONE.
Ready(tk, j) ==
    LET counted == {t \in Tasks : /\ TaskJob[t] = j
                                  /\ tk[t].status \notin Gone \cup {"CANCELLED"}}
    IN  counted # {} /\ \A t \in counted : tk[t].status = "DONE"

ReadyStatus(policy) == IF policy = "required" THEN "PENDING_REVIEW" ELSE "COMPLETED"

\* Mutant: only direct dependencies are followed.
DependsDirectly(s, t) == t \in task[s].deps

\* t is reached from s along dependencies: every set that holds the
\* dependencies of s and is closed under dependencies holds t.
DependsOn(s, t) ==
    \A C \in SUBSET Tasks :
        (task[s].deps \subseteq C /\ \A u \in C : task[u].deps \subseteq C) => t \in C

\* The owner of a live lease, or anybody without a token if there is no lease.
Authorize(t, caller) ==
    IF lease[t] = None THEN caller = None
    ELSE caller = lease[t].session /\ ~lease[t].expired

Writable(i) == issue[i].status \in {"TODO", "ACTIVE"} /\ ~issue[i].archived
IssueWritable(j) == job[j].issue # None => Writable(job[j].issue)

\* The first start of associated work turns a TODO Issue ACTIVE.
Activate(i) ==
    IF i # None /\ issue[i].status = "TODO"
    THEN [issue EXCEPT ![i].status = "ACTIVE"] ELSE issue

\* Mutant: the Tasks of a cancelled Job stay open.
TaskOpenIgnoringJob(t) == Exists(t) /\ project[ProjectOf(t)] = "OPEN"

\* Guards every Task command but session and deletion commands starts with.
TaskOpen(t) ==
    /\ Exists(t)
    /\ project[ProjectOf(t)] = "OPEN"
    /\ ~job[TaskJob[t]].archived
    /\ job[TaskJob[t]].status # "CANCELLED"

\* Mutant: a Job stays ACTIVE when its last Task finishes.
AggregateNever(j, tk, jb) == jb

\* A Job is submitted when its readiness turns from false to true.
Aggregate(j, tk, jb) ==
    IF jb[j].status = "ACTIVE" /\ ~Ready(task, j) /\ Ready(tk, j)
    THEN [jb EXCEPT ![j].status = ReadyStatus(jb[j].policy), ![j].rejected = FALSE]
    ELSE jb

\* The end of a Task command: store the Task, then aggregate its Job.
StoreTask(t, record, jb) ==
    /\ task' = [task EXCEPT ![t] = record]
    /\ job' = Aggregate(TaskJob[t], task', jb)
    /\ UNCHANGED project

\* A completion policy needs an ACTIVE Job whose last unfinished Task this is.
WithPolicy(j, policy) ==
    IF policy = Keep THEN job ELSE [job EXCEPT ![j].policy = policy]
PolicyAllowed(j, tk, policy) ==
    policy # Keep => /\ job[j].status = "ACTIVE"
                     /\ ~Ready(task, j)
                     /\ Ready(tk, j)

----------------------------------------------------------------------------
(* Task commands *)

AddTask(t) ==
    /\ "task.add" \in Commands
    /\ task[t].status = "ABSENT"
    /\ job[TaskJob[t]].status = "ACTIVE" /\ ~job[TaskJob[t]].archived
    /\ project[ProjectOf(t)] = "OPEN"
    /\ IssueWritable(TaskJob[t])
    /\ task' = [task EXCEPT ![t] = [NewTask EXCEPT !.deps = job[TaskJob[t]].followup]]
    /\ UNCHANGED <<project, issue, job, lease>>

LeaseHeld(e, s) == \E u \in Tasks : /\ lease[u] # None
                                    /\ lease[u].executor = e /\ lease[u].session = s

Claimed(t, e, s) ==
    [task[t] EXCEPT !.status = "IN_PROGRESS", !.phase = "PLANNING",
                    !.systemBlock = FALSE, !.executor = e, !.session = s]
NewLease(e, s) == [executor |-> e, session |-> s, expired |-> FALSE]

\* Mutant: a claim takes the Task from whoever holds it.
ClaimSteals(t, e, s) ==
    /\ TaskOpen(t)
    /\ task[t].status \notin Terminal
    /\ ~LeaseHeld(e, s)
    /\ lease' = [lease EXCEPT ![t] = NewLease(e, s)]
    /\ StoreTask(t, Claimed(t, e, s), job)
    /\ UNCHANGED issue

\* Mutant: an executor session may hold several leases.
ClaimWithoutPairCheck(t, e, s) ==
    /\ TaskOpen(t)
    /\ Allows(task[t].status, "IN_PROGRESS")
    /\ lease[t] = None
    /\ lease' = [lease EXCEPT ![t] = NewLease(e, s)]
    /\ StoreTask(t, Claimed(t, e, s), job)
    /\ UNCHANGED issue

Claim(t, e, s) ==
    /\ TaskOpen(t)
    /\ Allows(task[t].status, "IN_PROGRESS")
    /\ lease[t] = None /\ ~LeaseHeld(e, s)
    /\ lease' = [lease EXCEPT ![t] = NewLease(e, s)]
    /\ StoreTask(t, Claimed(t, e, s), job)
    /\ UNCHANGED issue

ActiveLease(t) == task[t].status = "IN_PROGRESS" /\ lease[t] # None

RegisterPlan(t, caller) ==
    /\ TaskOpen(t)
    /\ Authorize(t, caller)
    /\ ActiveLease(t)
    /\ task' = [task EXCEPT ![t].planned = TRUE]
    /\ UNCHANGED <<project, issue, job, lease>>

DependenciesDone(t) == \A d \in task[t].deps : task[d].status = "DONE"

Start(t, caller) ==
    LET j == TaskJob[t]
    IN  /\ TaskOpen(t)
        /\ Authorize(t, caller)
        /\ ActiveLease(t)
        /\ IssueWritable(j)
        /\ task[t].phase = "PLANNING"
        /\ task[t].planned
        /\ DependenciesDone(t)
        /\ issue' = Activate(job[j].issue)
        /\ StoreTask(t, [task[t] EXCEPT !.phase = "EXECUTING", !.started = TRUE],
                     [job EXCEPT ![j].started = TRUE])
        /\ UNCHANGED lease

Heartbeat(t, caller) ==
    /\ TaskOpen(t)
    /\ Authorize(t, caller)
    /\ lease[t] # None
    /\ lease' = [lease EXCEPT ![t].expired = FALSE]
    /\ StoreTask(t, task[t], job)
    /\ UNCHANGED issue

\* Mutant: a started Task may still be given dependencies.
DependAlways(t, d, caller) ==
    /\ TaskOpen(t)
    /\ Authorize(t, caller)
    /\ Exists(d) /\ ProjectOf(d) = ProjectOf(t) /\ d # t
    /\ ~DependsOn(d, t)
    /\ StoreTask(t, [task[t] EXCEPT !.deps = @ \cup {d}], job)
    /\ UNCHANGED <<issue, lease>>

Depend(t, d, caller) ==
    /\ TaskOpen(t)
    /\ Authorize(t, caller)
    /\ ~task[t].started
    /\ Exists(d) /\ ProjectOf(d) = ProjectOf(t) /\ d # t
    /\ ~DependsOn(d, t)
    /\ StoreTask(t, [task[t] EXCEPT !.deps = @ \cup {d}], job)
    /\ UNCHANGED <<issue, lease>>

Undepend(t, d, caller) ==
    /\ TaskOpen(t)
    /\ Authorize(t, caller)
    /\ ~task[t].started
    /\ Exists(d) /\ ProjectOf(d) = ProjectOf(t) /\ d # t
    /\ StoreTask(t, [task[t] EXCEPT !.deps = @ \ {d}], job)
    /\ UNCHANGED <<issue, lease>>

\* task.retry of a FAILED Task and task.reopen of a DONE or CANCELLED one.
Reopen(t, from, caller) ==
    /\ TaskOpen(t)
    /\ Authorize(t, caller)
    /\ task[t].status \in from
    /\ ~\E u \in Tasks : task[u].started /\ DependsOn(u, t)
    /\ StoreTask(t, [task[t] EXCEPT !.status = "TODO", !.phase = None,
                                    !.systemBlock = FALSE],
                 [job EXCEPT ![TaskJob[t]].status = "ACTIVE"])
    /\ UNCHANGED <<issue, lease>>

Left(t, to) == [task[t] EXCEPT !.status = to, !.phase = None, !.systemBlock = FALSE]

\* The common end of block, release, wait, done, fail and cancel.
Leave(t, to, policy) ==
    /\ PolicyAllowed(TaskJob[t], [task EXCEPT ![t] = Left(t, to)], policy)
    /\ lease' = [lease EXCEPT ![t] = None]
    /\ StoreTask(t, Left(t, to), WithPolicy(TaskJob[t], policy))
    /\ UNCHANGED issue

\* task.block / release, task.wait, task.fail, task.cancel.
SetAside(t, to, caller, policy) ==
    /\ TaskOpen(t)
    /\ Authorize(t, caller)
    /\ Allows(task[t].status, to)
    /\ policy # Keep => to = "CANCELLED"
    /\ Leave(t, to, policy)

\* task.done by the executing owner, or of a BLOCKED Task nobody leases.
Done(t, caller, policy) ==
    /\ TaskOpen(t)
    /\ Authorize(t, caller)
    /\ \/ task[t].status = "BLOCKED"
       \/ ActiveLease(t) /\ task[t].phase = "EXECUTING"
    /\ Allows(task[t].status, "DONE")
    /\ Leave(t, "DONE", policy)

\* task.done submitted by a person editing the Obsidian note.
DoneByHuman(t, policy) ==
    /\ TaskOpen(t)
    /\ task[t].status \notin Terminal
    /\ Leave(t, "DONE", policy)

TaskCommand(t) ==
    \/ AddTask(t)
    \/ \E e \in Executors, s \in Sessions : "task.claim" \in Commands /\ Claim(t, e, s)
    \/ \E caller \in Sessions \cup {None} :
          \/ "plan.register" \in Commands /\ RegisterPlan(t, caller)
          \/ "task.start" \in Commands /\ Start(t, caller)
          \/ "task.heartbeat" \in Commands /\ Heartbeat(t, caller)
          \/ \E d \in Tasks : \/ "task.depend" \in Commands /\ Depend(t, d, caller)
                              \/ "task.undepend" \in Commands /\ Undepend(t, d, caller)
          \/ "task.retry" \in Commands /\ Reopen(t, {"FAILED"}, caller)
          \/ "task.reopen" \in Commands /\ Reopen(t, {"DONE", "CANCELLED"}, caller)
          \/ "task.block" \in Commands /\ SetAside(t, "BLOCKED", caller, Keep)
          \/ "task.wait" \in Commands /\ SetAside(t, "WAITING_USER", caller, Keep)
          \/ "task.fail" \in Commands /\ SetAside(t, "FAILED", caller, Keep)
          \/ \E policy \in Policies \cup {Keep} :
                \/ "task.cancel" \in Commands /\ SetAside(t, "CANCELLED", caller, policy)
                \/ "task.done" \in Commands /\ Done(t, caller, policy)
    \/ \E policy \in Policies \cup {Keep} :
          "task.done.human" \in Commands /\ DoneByHuman(t, policy)

----------------------------------------------------------------------------
(* Job commands *)

JobExists(j) == job[j].status \notin Gone
JobOpen(j) == JobExists(j) /\ project[JobProject[j]] = "OPEN"

\* What the request's `issue' field does to the Job jb, after the command.
Associable(jb, j, link) ==
    link \in Issues =>
        /\ issue[link].status \notin Gone
        /\ IssueProject[link] = JobProject[j]
        /\ jb.status \notin Closed => Writable(link)
\* Mutant: a request without the field is stored as if it had it.
AssociatedAlways(jb, link) == [jb EXCEPT !.issue = link]

Associated(jb, link) == IF link = Keep THEN jb ELSE [jb EXCEPT !.issue = link]

\* Mutant: linking a Job that is already executing leaves its Issue TODO.
AssociatedIssuesUntouched(jb, link) == issue

AssociatedIssues(jb, link) ==
    IF link \in Issues /\ jb.status \notin Closed /\ jb.started
    THEN Activate(link) ELSE issue

\* The end of create, update and followup: associate, then store the Job.
StoreJob(j, jb, link) ==
    /\ Associable(jb, j, link)
    /\ job' = [job EXCEPT ![j] = Associated(jb, link)]
    /\ issue' = AssociatedIssues(jb, link)
    /\ UNCHANGED <<project, task, lease>>

CreateJob(j, policy, link) ==
    /\ job[j].status = "ABSENT"
    /\ project[JobProject[j]] = "OPEN"
    /\ StoreJob(j, [NewJob EXCEPT !.policy = policy], link)

\* job.update of an ACTIVE Job, or a request that only changes the association.
UpdateJob(j, policy, link) ==
    /\ JobOpen(j)
    /\ \/ job[j].status = "ACTIVE" /\ ~job[j].archived
       \/ policy = job[j].policy /\ link # Keep
    /\ StoreJob(j, [job[j] EXCEPT !.policy = policy], link)

\* Unfinished Tasks of the Jobs js become `to'; their leases are dropped.
FinishTasks(js, to) ==
    /\ task' = [t \in Tasks |->
                  IF t \in TasksOf(js) /\ task[t].status \notin Terminal
                  THEN Left(t, to) ELSE task[t]]
    /\ lease' = [t \in Tasks |-> IF t \in TasksOf(js) THEN None ELSE lease[t]]

NoLeases(js) == \A t \in TasksOf(js) : lease[t] = None

CancelJob(j) ==
    /\ JobOpen(j)
    /\ job[j].status \notin Closed
    /\ NoLeases({j})
    /\ FinishTasks({j}, "CANCELLED")
    /\ job' = [job EXCEPT ![j].status = "CANCELLED"]
    /\ UNCHANGED <<project, issue>>

ArchiveJob(j) ==
    /\ JobOpen(j)
    /\ job[j].status \in Closed
    /\ ~job[j].archived
    /\ job' = [job EXCEPT ![j].archived = TRUE]
    /\ UNCHANGED <<project, issue, task, lease>>

UnarchiveJob(j) ==
    /\ JobOpen(j)
    /\ job[j].archived
    /\ job' = [job EXCEPT ![j].archived = FALSE]
    /\ UNCHANGED <<project, issue, task, lease>>

SubmitJob(j, policy) ==
    /\ JobOpen(j)
    /\ ~job[j].archived /\ job[j].status = "ACTIVE"
    /\ Ready(task, j)
    /\ job' = [job EXCEPT ![j] =
                 LET chosen == IF policy = Keep THEN @.policy ELSE policy
                 IN  [@ EXCEPT !.policy = chosen, !.status = ReadyStatus(chosen),
                            !.rejected = FALSE]]
    /\ UNCHANGED <<project, issue, task, lease>>

\* Mutant: an ACTIVE Job is approved without looking at its Tasks.
ApproveJobUnchecked(j) ==
    /\ JobOpen(j)
    /\ ~job[j].archived /\ job[j].status \in {"ACTIVE", "PENDING_REVIEW"}
    /\ job' = [job EXCEPT ![j].status = "COMPLETED", ![j].rejected = FALSE]
    /\ UNCHANGED <<project, issue, task, lease>>

\* job.approve accepts FAILED and CANCELLED work of an ACTIVE Job, but only
\* delivered work of one under review.
ApproveJob(j) ==
    /\ JobOpen(j)
    /\ ~job[j].archived
    /\ \/ /\ job[j].status = "ACTIVE"
          /\ TasksOf({j}) # {}
          /\ \A t \in TasksOf({j}) : task[t].status \in Terminal
       \/ job[j].status = "PENDING_REVIEW" /\ Ready(task, j)
    /\ job' = [job EXCEPT ![j].status = "COMPLETED", ![j].rejected = FALSE]
    /\ UNCHANGED <<project, issue, task, lease>>

\* job.approve from the Obsidian note finishes whatever is unfinished.
ApproveJobByHuman(j) ==
    /\ JobOpen(j)
    /\ ~job[j].archived /\ job[j].status \in {"ACTIVE", "PENDING_REVIEW"}
    /\ FinishTasks({j}, "DONE")
    /\ job' = [job EXCEPT ![j].status = "COMPLETED", ![j].rejected = FALSE]
    /\ UNCHANGED <<project, issue>>

RejectJob(j) ==
    /\ JobOpen(j)
    /\ ~job[j].archived /\ job[j].status = "PENDING_REVIEW"
    /\ job' = [job EXCEPT ![j].status = "ACTIVE", ![j].rejected = TRUE]
    /\ UNCHANGED <<project, issue, task, lease>>

\* Later Tasks of the Job will depend on every Task it has now.
FollowupJob(j, link) ==
    /\ JobOpen(j)
    /\ IssueWritable(j)
    /\ ~job[j].archived /\ job[j].status = "PENDING_REVIEW"
    /\ StoreJob(j, [job[j] EXCEPT !.status = "ACTIVE", !.rejected = FALSE,
                                   !.followup = TasksOf({j})], link)

\* Mutant: Tasks other Jobs depend on are deleted with their Job.
RemovableIgnoringDependents(js) == NoLeases(js)

\* Nothing is leased, and no Task that stays depends on one that goes.
Removable(js) ==
    /\ NoLeases(js)
    /\ \A t \in Tasks : Exists(t) /\ TaskJob[t] \notin js
                           => task[t].deps \cap TasksOf(js) = {}

RemoveTasks(js) ==
    task' = [t \in Tasks |-> IF t \in TasksOf(js)
                             THEN [NewTask EXCEPT !.status = "DELETED"] ELSE task[t]]

DeleteJob(j) ==
    /\ JobExists(j)
    /\ Removable({j})
    /\ RemoveTasks({j})
    /\ job' = [job EXCEPT ![j] = [NewJob EXCEPT !.status = "DELETED"]]
    /\ UNCHANGED <<project, issue, lease>>

JobCommand(j) ==
    \/ \E link \in Issues \cup {None, Keep} :
          \/ \E policy \in Policies :
                \/ "job.create" \in Commands /\ CreateJob(j, policy, link)
                \/ "job.update" \in Commands /\ UpdateJob(j, policy, link)
          \/ "job.followup" \in Commands /\ FollowupJob(j, link)
    \/ "job.cancel" \in Commands /\ CancelJob(j)
    \/ "job.archive" \in Commands /\ ArchiveJob(j)
    \/ "job.unarchive" \in Commands /\ UnarchiveJob(j)
    \/ \E policy \in Policies \cup {Keep} : "job.submit" \in Commands /\ SubmitJob(j, policy)
    \/ "job.approve" \in Commands /\ ApproveJob(j)
    \/ "job.approve.human" \in Commands /\ ApproveJobByHuman(j)
    \/ "job.reject" \in Commands /\ RejectJob(j)
    \/ "job.delete" \in Commands /\ DeleteJob(j)

----------------------------------------------------------------------------
(* Issue and Project commands *)

IssueOpen(i) ==
    /\ issue[i].status \notin Gone
    /\ project[IssueProject[i]] = "OPEN"
    /\ ~issue[i].archived

SetIssue(i, status) ==
    /\ issue' = [issue EXCEPT ![i].status = status]
    /\ UNCHANGED <<project, job, task, lease>>

CreateIssue(i) ==
    /\ issue[i].status = "ABSENT"
    /\ project[IssueProject[i]] = "OPEN"
    /\ issue' = [issue EXCEPT ![i] = NewIssue]
    /\ UNCHANGED <<project, job, task, lease>>

\* New requirement or acceptance criteria withdraw a review request; the
\* content of a terminal Issue cannot change.
UpdateIssueContent(i) ==
    /\ IssueOpen(i)
    /\ issue[i].status \notin Closed
    /\ SetIssue(i, IF issue[i].status = "PENDING_REVIEW"
                   THEN "ACTIVE" ELSE issue[i].status)

StartIssue(i) == IssueOpen(i) /\ issue[i].status = "TODO" /\ SetIssue(i, "ACTIVE")

JobsClosed(i) ==
    \A j \in Jobs : JobExists(j) /\ job[j].issue = i => job[j].status \in Closed

SubmitIssue(i) ==
    /\ IssueOpen(i)
    /\ issue[i].status \in {"TODO", "ACTIVE"}
    /\ JobsClosed(i)
    /\ SetIssue(i, "PENDING_REVIEW")

ApproveIssue(i) ==
    /\ IssueOpen(i)
    /\ issue[i].status = "PENDING_REVIEW"
    /\ JobsClosed(i)
    /\ SetIssue(i, "COMPLETED")

RejectIssue(i) ==
    IssueOpen(i) /\ issue[i].status = "PENDING_REVIEW" /\ SetIssue(i, "ACTIVE")

\* Cancelling an Issue revokes its unfinished Jobs, Tasks and leases.
CancelIssue(i) ==
    LET open == {j \in Jobs : /\ JobExists(j) /\ job[j].issue = i
                              /\ job[j].status \notin Closed}
    IN  /\ IssueOpen(i)
        /\ issue[i].status \notin Closed
        /\ FinishTasks(open, "CANCELLED")
        /\ job' = [j \in Jobs |-> IF j \in open
                                  THEN [job[j] EXCEPT !.status = "CANCELLED"] ELSE job[j]]
        /\ issue' = [issue EXCEPT ![i].status = "CANCELLED"]
        /\ UNCHANGED project

ReopenIssue(i) == IssueOpen(i) /\ issue[i].status \in Closed /\ SetIssue(i, "TODO")

ArchiveIssue(i, archive) ==
    /\ issue[i].status \in Closed
    /\ project[IssueProject[i]] = "OPEN"
    /\ issue[i].archived = ~archive
    /\ issue' = [issue EXCEPT ![i].archived = archive]
    /\ UNCHANGED <<project, job, task, lease>>

IssueCommand(i) ==
    \/ "issue.create" \in Commands /\ CreateIssue(i)
    \/ "issue.update" \in Commands /\ UpdateIssueContent(i)
    \/ "issue.start" \in Commands /\ StartIssue(i)
    \/ "issue.submit" \in Commands /\ SubmitIssue(i)
    \/ "issue.approve" \in Commands /\ ApproveIssue(i)
    \/ "issue.reject" \in Commands /\ RejectIssue(i)
    \/ "issue.cancel" \in Commands /\ CancelIssue(i)
    \/ "issue.reopen" \in Commands /\ ReopenIssue(i)
    \/ \E archive \in BOOLEAN : "issue.archive" \in Commands /\ ArchiveIssue(i, archive)

SetProject(p, status) ==
    /\ project' = [project EXCEPT ![p] = status]
    /\ UNCHANGED <<issue, job, task, lease>>

RegisterProject(p) == project[p] = "ABSENT" /\ SetProject(p, "OPEN")

\* Mutant: the Jobs of a Project are not looked at when it is archived.
ArchiveProjectUnchecked(p) == project[p] = "OPEN" /\ SetProject(p, "ARCHIVED")

ArchiveProject(p) ==
    /\ project[p] = "OPEN"
    /\ \A i \in Issues : IssueProject[i] = p => issue[i].status \in Closed \cup Gone
    /\ \A j \in Jobs : JobProject[j] = p => job[j].status \in Closed \cup Gone
    /\ SetProject(p, "ARCHIVED")

UnarchiveProject(p) == project[p] = "ARCHIVED" /\ SetProject(p, "OPEN")

DeleteProject(p) ==
    LET js == {j \in Jobs : JobProject[j] = p /\ JobExists(j)}
    IN  /\ project[p] \notin Gone
        /\ Removable(js)
        /\ RemoveTasks(js)
        /\ job' = [j \in Jobs |-> IF j \in js
                                  THEN [NewJob EXCEPT !.status = "DELETED"] ELSE job[j]]
        /\ issue' = [i \in Issues |->
                       IF IssueProject[i] = p /\ issue[i].status \notin Gone
                       THEN [NewIssue EXCEPT !.status = "DELETED"] ELSE issue[i]]
        /\ project' = [project EXCEPT ![p] = "DELETED"]
        /\ UNCHANGED lease

ProjectCommand(p) ==
    \/ "project.register" \in Commands /\ RegisterProject(p)
    \/ "project.archive" \in Commands /\ ArchiveProject(p)
    \/ "project.unarchive" \in Commands /\ UnarchiveProject(p)
    \/ "project.delete" \in Commands /\ DeleteProject(p)

----------------------------------------------------------------------------
(* Sessions and the passage of time *)

\* Tasks a session command of session s looks at: those last held by one of the
\* executors of the host it names, or by any executor when it names none.
OfSession(s, hosted) ==
    {t \in Tasks : Exists(t) /\ task[t].session = s /\ task[t].executor \in hosted}

SystemBlocked(ts) ==
    /\ task' = [t \in Tasks |->
                  IF t \in ts THEN [task[t] EXCEPT !.status = "BLOCKED", !.phase = None,
                                                   !.systemBlock = TRUE]
                  ELSE task[t]]
    /\ lease' = [t \in Tasks |-> IF t \in ts THEN None ELSE lease[t]]
    /\ UNCHANGED <<project, issue, job>>

\* session.end and session.interrupt
EndSession(s, hosted) ==
    SystemBlocked({t \in OfSession(s, hosted) : task[t].status = "IN_PROGRESS"})

Resumable(s, hosted) ==
    {t \in OfSession(s, hosted) : task[t].status = "BLOCKED" /\ task[t].systemBlock}

\* The Tasks are claimed one after the other in storage order, and a claim that
\* fails is skipped: each executor without a lease takes back one of its Tasks.
StartSession(s, hosted) ==
    \E ts \in SUBSET Resumable(s, hosted) :
        /\ \A t, u \in ts : task[t].executor = task[u].executor => t = u
        /\ \A t \in ts : ~LeaseHeld(task[t].executor, s)
        /\ \A t \in Resumable(s, hosted) :
              ~LeaseHeld(task[t].executor, s)
                  => \E u \in ts : task[u].executor = task[t].executor
        /\ task' = [t \in Tasks |->
                      IF t \in ts THEN Claimed(t, task[t].executor, s) ELSE task[t]]
        /\ lease' = [t \in Tasks |->
                       IF t \in ts THEN NewLease(task[t].executor, s) ELSE lease[t]]
        /\ UNCHANGED <<project, issue, job>>

HeartbeatSession(s, hosted) ==
    /\ lease' = [t \in Tasks |->
                   IF t \in OfSession(s, hosted) /\ lease[t] # None /\ lease[t].session = s
                   THEN [lease[t] EXCEPT !.expired = FALSE] ELSE lease[t]]
    /\ UNCHANGED <<project, issue, job, task>>

\* DEFAULT_LEASE_SECONDS pass without a heartbeat.
Expire(t) ==
    /\ "time" \in Commands
    /\ lease[t] # None /\ ~lease[t].expired
    /\ lease' = [lease EXCEPT ![t].expired = TRUE]
    /\ UNCHANGED <<project, issue, job, task>>

Expired == {t \in Tasks : lease[t] # None /\ lease[t].expired}

\* reap_expired, the transaction that precedes every command.
Reap == Expired # {} /\ SystemBlocked(Expired)

SessionCommand(s) ==
    \E hosted \in SUBSET Executors :
        \/ "session.end" \in Commands /\ EndSession(s, hosted)
        \/ "session.start" \in Commands /\ StartSession(s, hosted)
        \/ "session.heartbeat" \in Commands /\ HeartbeatSession(s, hosted)

Next ==
    \/ \E t \in Tasks : TaskCommand(t)
    \/ \E j \in Jobs : JobCommand(j)
    \/ \E i \in Issues : IssueCommand(i)
    \/ \E p \in Projects : ProjectCommand(p)
    \/ \E s \in Sessions : SessionCommand(s)
    \/ \E t \in Tasks : Expire(t)
    \/ Reap

Spec == Init /\ [][Next]_vars

----------------------------------------------------------------------------
(* Properties *)

\* Every record has the fields and values the model's Rust types allow.
TypeOK ==
    /\ project \in [Projects -> {"OPEN", "ARCHIVED"} \cup Gone]
    /\ issue \in [Issues -> IssueRecord]
    /\ job \in [Jobs -> JobRecord]
    /\ task \in [Tasks -> TaskRecord]
    /\ lease \in [Tasks -> LeaseRecord \cup {None}]

\* A Task's lease, phase and system block agree with its status, and the lease
\* names the executor and session the Task records.
LeaseMatches(t) ==
    /\ (lease[t] # None) <=> (task[t].status = "IN_PROGRESS")
    /\ (task[t].phase # None) <=> (task[t].status = "IN_PROGRESS")
    /\ lease[t] # None => /\ lease[t].executor = task[t].executor
                          /\ lease[t].session = task[t].session
    /\ task[t].systemBlock => task[t].status = "BLOCKED"

\* A Task is leased exactly while it is IN_PROGRESS, the lease names the
\* executor and session the Task records (session.end finds work by the Task's
\* session), and no executor session holds two leases.
Ownership ==
    /\ \A t \in Tasks : LeaseMatches(t)
    /\ \A t, u \in Tasks :
          (lease[t] # None /\ lease[u] # None /\ t # u)
              => \/ lease[t].executor # lease[u].executor
                 \/ lease[t].session # lease[u].session

\* A Job under review is delivered, a closed Job has no unfinished Task (so a
\* resumed session can never revive closed work), and only closed Jobs are archived.
ReviewedWork ==
    \A j \in Jobs :
        /\ job[j].status = "PENDING_REVIEW" => Ready(task, j)
        /\ job[j].status \in Closed => \A t \in TasksOf({j}) : task[t].status \in Terminal
        /\ job[j].archived => job[j].status \in Closed

\* An archived Project has no open Issue, Job or Task, whatever sessions do.
ArchivedProjectQuiet ==
    \A p \in Projects : project[p] = "ARCHIVED" =>
        /\ \A i \in Issues : IssueProject[i] = p => issue[i].status \in Closed \cup Gone
        /\ \A j \in Jobs : JobProject[j] = p => job[j].status \in Closed \cup Gone
        /\ \A t \in Tasks : ProjectOf(t) = p => task[t].status \in Terminal \cup Gone

\* Once a Task has started executing, each of its dependencies is DONE and
\* stays DONE: it cannot be reopened, deleted or replaced.
StartedAfterDependencies ==
    \A t \in Tasks : task[t].started => DependenciesDone(t)

\* The dependencies have no cycle: no set of Tasks in which each waits for another.
Acyclic ==
    \A S \in SUBSET Tasks :
        (\A t \in S : task[t].deps \cap S # {}) => S = {}

\* Dependencies stay inside one Project and never point at a removed Task.
DependenciesExist ==
    \A t \in Tasks : \A d \in task[t].deps : Exists(d) /\ ProjectOf(d) = ProjectOf(t)

\* Started work keeps its dependencies DONE, and the graph of dependencies stays
\* closed and without cycles (task_depend, follow-ups, reopening and deletion).
DependenciesSound == StartedAfterDependencies /\ Acyclic /\ DependenciesExist

\* A Task executes only while the Issue its Job is linked to is ACTIVE: not
\* while it is unstarted, under review or closed.
ExecutingUnderActiveIssue ==
    \A t \in Tasks :
        (task[t].phase = "EXECUTING" /\ job[TaskJob[t]].issue # None)
            => /\ issue[job[TaskJob[t]].issue].status = "ACTIVE"
               /\ ~issue[job[TaskJob[t]].issue].archived

\* Nothing is open under what was closed: no work in an archived Project and no
\* execution under an Issue that is not ACTIVE.
QuietWhenClosed == ArchivedProjectQuiet /\ ExecutingUnderActiveIssue

\* Delivered work is always noticed: an ACTIVE Job whose Tasks are all finished
\* was either rejected by a reviewer or asked for more work that nobody added yet.
NoLostSubmission ==
    \A j \in Jobs :
        (job[j].status = "ACTIVE" /\ Ready(task, j))
            => job[j].rejected \/ TasksOf({j}) = job[j].followup

\* Two executors never share a Task: a lease passes from one holder to another
\* only through a state in which the Task is not leased.
HandoverStep ==
    \A t \in Tasks :
        (lease[t] # None /\ lease'[t] # None)
            => /\ lease'[t].executor = lease[t].executor
               /\ lease'[t].session = lease[t].session
Handover == [][HandoverStep]_vars

\* A closed Job is reopened only by reopening one of its Tasks, and never once
\* it is cancelled or archived.
ClosedJobStep ==
    \A j \in Jobs :
        (job[j].status \in Closed /\ job'[j].status \notin {job[j].status, "DELETED"})
            => /\ job[j].status = "COMPLETED" /\ ~job[j].archived
               /\ job'[j].status = "ACTIVE"
               /\ \E t \in TasksOf({j}) : /\ task[t].status \in Terminal
                                          /\ task'[t].status = "TODO"
ClosedJobs == [][ClosedJobStep]_vars
============================================================================
