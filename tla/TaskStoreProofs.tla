-------------------------- MODULE TaskStoreProofs --------------------------
(***************************************************************************)
(* Proofs about the Taskix store for any number of Projects, Jobs, Tasks,  *)
(* Issues, executors and sessions, and any set of commands in use.         *)
(***************************************************************************)
EXTENDS TaskStore, TLAPS

----------------------------------------------------------------------------
(* Types *)

\* The records the commands build are records of their types.
LEMMA RecordsTyped ==
    ASSUME TypeOK
    PROVE  /\ NewTask \in TaskRecord /\ [NewTask EXCEPT !.status = "DELETED"] \in TaskRecord
           /\ NewJob \in JobRecord /\ [NewJob EXCEPT !.status = "DELETED"] \in JobRecord
           /\ NewIssue \in IssueRecord
           /\ [NewIssue EXCEPT !.status = "DELETED"] \in IssueRecord
           /\ \A t \in Tasks, to \in TaskStatus : Left(t, to) \in TaskRecord
           /\ \A t \in Tasks, e \in Executors, s \in Sessions :
                 Claimed(t, e, s) \in TaskRecord
           /\ \A e \in Executors, s \in Sessions : NewLease(e, s) \in LeaseRecord
<1>1. /\ NewTask \in TaskRecord /\ [NewTask EXCEPT !.status = "DELETED"] \in TaskRecord
      /\ NewJob \in JobRecord /\ [NewJob EXCEPT !.status = "DELETED"] \in JobRecord
  BY DEF NewTask, NewJob, TaskRecord, JobRecord, TaskStatus, JobStatus, Gone
<1>2. NewIssue \in IssueRecord /\ [NewIssue EXCEPT !.status = "DELETED"] \in IssueRecord
  BY DEF NewIssue, IssueRecord, IssueStatus, Gone
<1>3. ASSUME NEW t \in Tasks, NEW to \in TaskStatus PROVE Left(t, to) \in TaskRecord
  <2>1. task[t] \in TaskRecord
    BY DEF TypeOK
  <2> QED BY <2>1 DEF Left, TaskRecord
<1>4. ASSUME NEW t \in Tasks, NEW e \in Executors, NEW s \in Sessions
      PROVE  Claimed(t, e, s) \in TaskRecord
  <2>1. task[t] \in TaskRecord
    BY DEF TypeOK
  <2> QED BY <2>1 DEF Claimed, TaskRecord, TaskStatus
<1>5. ASSUME NEW e \in Executors, NEW s \in Sessions PROVE NewLease(e, s) \in LeaseRecord
  BY DEF NewLease, LeaseRecord
<1> QED BY <1>1, <1>2, <1>3, <1>4, <1>5

\* Aggregation and a completion policy keep the Jobs typed.
LEMMA JobsTyped ==
    ASSUME TypeOK
    PROVE  /\ \A j \in Jobs, policy \in Policies \cup {Keep} :
                 WithPolicy(j, policy) \in [Jobs -> JobRecord]
           /\ \A j \in Jobs, jb \in [Jobs -> JobRecord] :
                 \A tk : Aggregate(j, tk, jb) \in [Jobs -> JobRecord]
<1>1. ASSUME NEW j \in Jobs, NEW policy \in Policies \cup {Keep}
      PROVE  WithPolicy(j, policy) \in [Jobs -> JobRecord]
  BY PoliciesTyped DEF TypeOK, WithPolicy, JobRecord
<1>2. ASSUME NEW j \in Jobs, NEW jb \in [Jobs -> JobRecord], NEW tk
      PROVE  Aggregate(j, tk, jb) \in [Jobs -> JobRecord]
  <2>1. jb[j] \in JobRecord /\ ReadyStatus(jb[j].policy) \in JobStatus
    BY <1>2 DEF ReadyStatus, JobStatus
  <2>2. [jb[j] EXCEPT !.status = ReadyStatus(jb[j].policy), !.rejected = FALSE] \in JobRecord
    BY <2>1 DEF JobRecord
  <2>3. Aggregate(j, tk, jb) = jb \/ Aggregate(j, tk, jb) = [jb EXCEPT ![j] =
             [jb[j] EXCEPT !.status = ReadyStatus(jb[j].policy), !.rejected = FALSE]]
    BY <1>2 DEF Aggregate
  <2> QED BY <1>2, <2>2, <2>3
<1> QED BY <1>1, <1>2

\* The end of a Task command keeps Projects, Jobs and Tasks typed.
LEMMA StoreTaskTyped ==
    ASSUME TypeOK, NEW t \in Tasks, NEW r \in TaskRecord, NEW jb \in [Jobs -> JobRecord],
           StoreTask(t, r, jb)
    PROVE  /\ project' \in [Projects -> {"OPEN", "ARCHIVED"} \cup Gone]
           /\ job' \in [Jobs -> JobRecord]
           /\ task' \in [Tasks -> TaskRecord]
<1>1. TaskJob[t] \in Jobs
  BY ParentsTyped
<1>2. job' \in [Jobs -> JobRecord]
  BY <1>1, JobsTyped DEF StoreTask
<1> QED BY <1>2 DEF StoreTask, TypeOK

\* An Issue that work starts on stays an Issue.
LEMMA ActivateTyped ==
    ASSUME TypeOK, NEW i \in Issues \cup {None}
    PROVE  Activate(i) \in [Issues -> IssueRecord]
BY NoneIsNobody DEF Activate, TypeOK, IssueRecord, IssueStatus

\* Task commands keep the types.
LEMMA TaskCommandTyped ==
    ASSUME TypeOK, NEW t \in Tasks, TaskCommand(t)
    PROVE  TypeOK'
<1> TaskJob[t] \in Jobs
  BY ParentsTyped
<1> job \in [Jobs -> JobRecord] /\ task[t] \in TaskRecord
  BY DEF TypeOK
<1>1. CASE AddTask(t)
  <2>1. [NewTask EXCEPT !.deps = job[TaskJob[t]].followup] \in TaskRecord
    BY RecordsTyped DEF TaskRecord, JobRecord
  <2> QED BY <1>1, <2>1 DEF AddTask, TypeOK
<1>2. ASSUME NEW e \in Executors, NEW s \in Sessions, Claim(t, e, s) PROVE TypeOK'
  BY <1>2, RecordsTyped, StoreTaskTyped DEF Claim, TypeOK
<1>3. ASSUME NEW caller, RegisterPlan(t, caller) PROVE TypeOK'
  BY <1>3 DEF RegisterPlan, TypeOK, TaskRecord
<1>4. ASSUME NEW caller, Start(t, caller) PROVE TypeOK'
  <2>1. [task[t] EXCEPT !.phase = "EXECUTING", !.started = TRUE] \in TaskRecord
    BY DEF TaskRecord
  <2>2. [job EXCEPT ![TaskJob[t]].started = TRUE] \in [Jobs -> JobRecord]
    BY DEF JobRecord
  <2>3. Activate(job[TaskJob[t]].issue) \in [Issues -> IssueRecord]
    BY ActivateTyped DEF JobRecord
  <2> QED BY <1>4, <2>1, <2>2, <2>3, StoreTaskTyped DEF Start, TypeOK
<1>5. ASSUME NEW caller, Heartbeat(t, caller) PROVE TypeOK'
  <2>1. lease' \in [Tasks -> LeaseRecord \cup {None}]
    BY <1>5 DEF Heartbeat, TypeOK, LeaseRecord
  <2> QED BY <1>5, <2>1, StoreTaskTyped DEF Heartbeat, TypeOK
<1>6. ASSUME NEW d \in Tasks, NEW caller, Depend(t, d, caller) \/ Undepend(t, d, caller)
      PROVE  TypeOK'
  <2>1. /\ [task[t] EXCEPT !.deps = @ \cup {d}] \in TaskRecord
        /\ [task[t] EXCEPT !.deps = @ \ {d}] \in TaskRecord
    BY DEF TaskRecord
  <2> QED BY <1>6, <2>1, StoreTaskTyped DEF Depend, Undepend, TypeOK
<1>7. ASSUME NEW from, NEW caller, Reopen(t, from, caller) PROVE TypeOK'
  <2>1. [task[t] EXCEPT !.status = "TODO", !.phase = None, !.systemBlock = FALSE]
           \in TaskRecord
    BY DEF TaskRecord, TaskStatus
  <2>2. [job EXCEPT ![TaskJob[t]].status = "ACTIVE"] \in [Jobs -> JobRecord]
    BY DEF JobRecord, JobStatus
  <2> QED BY <1>7, <2>1, <2>2, StoreTaskTyped DEF Reopen, TypeOK
<1>8. ASSUME NEW to \in TaskStatus, NEW policy \in Policies \cup {Keep}, Leave(t, to, policy)
      PROVE  TypeOK'
  <2>1. Left(t, to) \in TaskRecord /\ WithPolicy(TaskJob[t], policy) \in [Jobs -> JobRecord]
    BY RecordsTyped, JobsTyped
  <2> QED BY <1>8, <2>1, StoreTaskTyped DEF Leave, TypeOK
<1>9. ASSUME NEW to \in TaskStatus, NEW policy \in Policies \cup {Keep}, NEW caller,
             SetAside(t, to, caller, policy)
      PROVE  TypeOK'
  BY <1>8, <1>9 DEF SetAside
<1>10. ASSUME NEW policy \in Policies \cup {Keep}, NEW caller,
              Done(t, caller, policy) \/ DoneByHuman(t, policy)
       PROVE  TypeOK'
  BY <1>8, <1>10 DEF Done, DoneByHuman, TaskStatus
<1> QED
  BY <1>1, <1>2, <1>3, <1>4, <1>5, <1>6, <1>7, <1>9, <1>10 DEF TaskCommand, TaskStatus

\* The end of create, update and followup keeps the types.
LEMMA StoreJobTyped ==
    ASSUME TypeOK, NEW j \in Jobs, NEW jb \in JobRecord, NEW link \in Issues \cup {None, Keep},
           StoreJob(j, jb, link)
    PROVE  TypeOK'
<1>1. Associated(jb, link) \in JobRecord
  BY DEF Associated, JobRecord
<1>2. AssociatedIssues(jb, link) \in [Issues -> IssueRecord]
  BY ActivateTyped DEF AssociatedIssues, TypeOK
<1> QED BY <1>1, <1>2 DEF StoreJob, TypeOK

\* Finishing the open Tasks of Jobs keeps the types.
LEMMA FinishTasksTyped ==
    ASSUME TypeOK, NEW js, NEW to \in TaskStatus, FinishTasks(js, to)
    PROVE  /\ task' \in [Tasks -> TaskRecord]
           /\ lease' \in [Tasks -> LeaseRecord \cup {None}]
BY RecordsTyped DEF FinishTasks, TypeOK

\* Removing the Tasks of Jobs keeps the types.
LEMMA RemoveTasksTyped ==
    ASSUME TypeOK, NEW js, RemoveTasks(js)
    PROVE  task' \in [Tasks -> TaskRecord]
BY RecordsTyped DEF RemoveTasks, TypeOK

\* Job commands keep the types.
LEMMA JobCommandTyped ==
    ASSUME TypeOK, NEW j \in Jobs, JobCommand(j)
    PROVE  TypeOK'
<1> job \in [Jobs -> JobRecord] /\ job[j] \in JobRecord
  BY DEF TypeOK
<1>1. ASSUME NEW policy \in Policies, NEW link \in Issues \cup {None, Keep},
             CreateJob(j, policy, link) \/ UpdateJob(j, policy, link)
      PROVE  TypeOK'
  <2>1. /\ [NewJob EXCEPT !.policy = policy] \in JobRecord
        /\ [job[j] EXCEPT !.policy = policy] \in JobRecord
    BY PoliciesTyped, RecordsTyped DEF JobRecord
  <2> QED BY <1>1, <2>1, StoreJobTyped DEF CreateJob, UpdateJob
<1>2. ASSUME NEW link \in Issues \cup {None, Keep}, FollowupJob(j, link) PROVE TypeOK'
  <2>1. [job[j] EXCEPT !.status = "ACTIVE", !.rejected = FALSE, !.followup = TasksOf({j})]
           \in JobRecord
    BY DEF JobRecord, JobStatus, TasksOf
  <2> QED BY <1>2, <2>1, StoreJobTyped DEF FollowupJob
<1>3. CASE CancelJob(j)
  <2>1. job' \in [Jobs -> JobRecord]
    BY <1>3 DEF CancelJob, JobRecord, JobStatus
  <2> QED BY <1>3, <2>1, FinishTasksTyped DEF CancelJob, TypeOK, TaskStatus
<1>4. CASE ArchiveJob(j) \/ UnarchiveJob(j)
  <2>1. \A b \in BOOLEAN : [job[j] EXCEPT !.archived = b] \in JobRecord
    BY DEF JobRecord
  <2>2. PICK b \in BOOLEAN : job' = [job EXCEPT ![j] = [job[j] EXCEPT !.archived = b]]
    BY <1>4 DEF ArchiveJob, UnarchiveJob
  <2>3. job' \in [Jobs -> JobRecord]
    BY <2>1, <2>2
  <2> QED BY <1>4, <2>3 DEF ArchiveJob, UnarchiveJob, TypeOK
<1>5. ASSUME NEW policy \in Policies \cup {Keep}, SubmitJob(j, policy) PROVE TypeOK'
  <2> DEFINE chosen == IF policy = Keep THEN job[j].policy ELSE policy
  <2>1. ReadyStatus(chosen) \in JobStatus /\ chosen \in {"required", "none"}
    BY PoliciesTyped DEF ReadyStatus, JobStatus, JobRecord
  <2> HIDE DEF chosen
  <2>2. [job[j] EXCEPT !.policy = chosen, !.status = ReadyStatus(chosen), !.rejected = FALSE]
           \in JobRecord
    BY <2>1 DEF JobRecord
  <2>3. job' = [job EXCEPT ![j] = [job[j] EXCEPT !.policy = chosen,
                                     !.status = ReadyStatus(chosen), !.rejected = FALSE]]
    BY <1>5 DEF SubmitJob, chosen
  <2> QED BY <1>5, <2>2, <2>3 DEF SubmitJob, TypeOK
<1>6. CASE ApproveJob(j) \/ ApproveJobByHuman(j)
  <2>1. [job[j] EXCEPT !.status = "COMPLETED", !.rejected = FALSE] \in JobRecord
    BY DEF JobRecord, JobStatus
  <2>2. job' = [job EXCEPT ![j] = [job[j] EXCEPT !.status = "COMPLETED", !.rejected = FALSE]]
    BY <1>6 DEF ApproveJob, ApproveJobByHuman
  <2>3. job' \in [Jobs -> JobRecord]
    BY <2>1, <2>2
  <2>4. /\ task' \in [Tasks -> TaskRecord]
        /\ lease' \in [Tasks -> LeaseRecord \cup {None}]
    BY <1>6, FinishTasksTyped DEF ApproveJob, ApproveJobByHuman, TypeOK, TaskStatus
  <2> QED BY <1>6, <2>3, <2>4 DEF ApproveJob, ApproveJobByHuman, TypeOK
<1>7. CASE RejectJob(j)
  <2>1. [job[j] EXCEPT !.status = "ACTIVE", !.rejected = TRUE] \in JobRecord
    BY DEF JobRecord, JobStatus
  <2>2. job' = [job EXCEPT ![j] = [job[j] EXCEPT !.status = "ACTIVE", !.rejected = TRUE]]
    BY <1>7 DEF RejectJob
  <2> QED BY <1>7, <2>1, <2>2 DEF RejectJob, TypeOK
<1>8. CASE DeleteJob(j)
  BY <1>8, RecordsTyped, RemoveTasksTyped DEF DeleteJob, TypeOK
<1> QED BY <1>1, <1>2, <1>3, <1>4, <1>5, <1>6, <1>7, <1>8 DEF JobCommand

\* Issue commands keep the types.
LEMMA IssueCommandTyped ==
    ASSUME TypeOK, NEW i \in Issues, IssueCommand(i)
    PROVE  TypeOK'
<1> issue \in [Issues -> IssueRecord] /\ issue[i] \in IssueRecord
  BY DEF TypeOK
<1>1. ASSUME NEW status \in IssueStatus \cup Gone, SetIssue(i, status) PROVE TypeOK'
  <2>1. issue' \in [Issues -> IssueRecord]
    BY <1>1 DEF SetIssue, IssueRecord
  <2> QED BY <1>1, <2>1 DEF SetIssue, TypeOK
<1>2. CASE CreateIssue(i)
  BY <1>2, RecordsTyped DEF CreateIssue, TypeOK
<1>3. CASE UpdateIssueContent(i)
  <2>1. (IF issue[i].status = "PENDING_REVIEW" THEN "ACTIVE" ELSE issue[i].status)
           \in IssueStatus \cup Gone
    BY DEF IssueRecord, IssueStatus
  <2> QED BY <1>1, <1>3, <2>1 DEF UpdateIssueContent
<1>4. CASE StartIssue(i) \/ SubmitIssue(i) \/ ApproveIssue(i) \/ RejectIssue(i) \/ ReopenIssue(i)
  BY <1>1, <1>4 DEF StartIssue, SubmitIssue, ApproveIssue, RejectIssue, ReopenIssue, IssueStatus
<1>5. CASE CancelIssue(i)
  <2>1. PICK open : /\ FinishTasks(open, "CANCELLED")
                    /\ job' = [j \in Jobs |-> IF j \in open
                                  THEN [job[j] EXCEPT !.status = "CANCELLED"] ELSE job[j]]
    BY <1>5 DEF CancelIssue
  <2>2. \A j \in Jobs : job[j] \in JobRecord
                          /\ [job[j] EXCEPT !.status = "CANCELLED"] \in JobRecord
    BY DEF TypeOK, JobRecord, JobStatus
  <2>3. job' \in [Jobs -> JobRecord]
    BY <2>1, <2>2
  <2>4. issue' \in [Issues -> IssueRecord]
    BY <1>5 DEF CancelIssue, IssueRecord, IssueStatus
  <2> QED BY <1>5, <2>1, <2>3, <2>4, FinishTasksTyped DEF CancelIssue, TypeOK, TaskStatus
<1>6. ASSUME NEW archive \in BOOLEAN, ArchiveIssue(i, archive) PROVE TypeOK'
  <2>1. issue' \in [Issues -> IssueRecord]
    BY <1>6 DEF ArchiveIssue, IssueRecord
  <2> QED BY <1>6, <2>1 DEF ArchiveIssue, TypeOK
<1> QED BY <1>2, <1>3, <1>4, <1>5, <1>6 DEF IssueCommand

\* Project commands keep the types.
LEMMA ProjectCommandTyped ==
    ASSUME TypeOK, NEW p \in Projects, ProjectCommand(p)
    PROVE  TypeOK'
<1>1. ASSUME NEW status \in {"OPEN", "ARCHIVED"}, SetProject(p, status) PROVE TypeOK'
  BY <1>1 DEF SetProject, TypeOK
<1>2. CASE DeleteProject(p)
  <2> DEFINE goneJob == [NewJob EXCEPT !.status = "DELETED"]
             goneIssue == [NewIssue EXCEPT !.status = "DELETED"]
  <2>1. goneJob \in JobRecord /\ goneIssue \in IssueRecord
    BY RecordsTyped
  <2> HIDE DEF goneJob, goneIssue
  <2>2. PICK js : job' = [j \in Jobs |-> IF j \in js THEN goneJob ELSE job[j]]
    BY <1>2 DEF DeleteProject, goneJob
  <2>3. PICK is : issue' = [i \in Issues |-> IF i \in is THEN goneIssue ELSE issue[i]]
    <3> DEFINE S == {i \in Issues : IssueProject[i] = p /\ issue[i].status \notin Gone}
    <3>1. issue' = [i \in Issues |-> IF i \in S THEN goneIssue ELSE issue[i]]
      BY <1>2 DEF DeleteProject, goneIssue
    <3> QED BY <3>1
  <2>4. job' \in [Jobs -> JobRecord] /\ issue' \in [Issues -> IssueRecord]
    BY <2>1, <2>2, <2>3 DEF TypeOK
  <2>5. task' \in [Tasks -> TaskRecord]
    BY <1>2, RemoveTasksTyped DEF DeleteProject
  <2>6. project' \in [Projects -> {"OPEN", "ARCHIVED"} \cup Gone]
    BY <1>2 DEF DeleteProject, TypeOK, Gone
  <2> QED BY <1>2, <2>4, <2>5, <2>6 DEF DeleteProject, TypeOK
<1> QED
  BY <1>1, <1>2 DEF ProjectCommand, RegisterProject, ArchiveProject, UnarchiveProject

\* Session commands, expiry and reaping keep the types.
LEMMA SessionsTyped ==
    ASSUME TypeOK
    PROVE  /\ \A s \in Sessions : SessionCommand(s) => TypeOK'
           /\ \A t \in Tasks : Expire(t) => TypeOK'
           /\ Reap => TypeOK'
<1>1. ASSUME NEW ts, SystemBlocked(ts) PROVE TypeOK'
  <2>1. \A t \in Tasks : /\ task[t] \in TaskRecord
                          /\ [task[t] EXCEPT !.status = "BLOCKED", !.phase = None,
                                             !.systemBlock = TRUE] \in TaskRecord
    <3> TAKE t \in Tasks
    <3>1. task[t] \in TaskRecord
      BY DEF TypeOK
    <3> QED BY <3>1 DEF TaskRecord, TaskStatus
  <2>2. task' \in [Tasks -> TaskRecord]
    BY <1>1, <2>1 DEF SystemBlocked
  <2> QED BY <1>1, <2>2 DEF SystemBlocked, TypeOK
<1>2. ASSUME NEW s \in Sessions, NEW hosted \in SUBSET Executors, StartSession(s, hosted)
      PROVE  TypeOK'
  <2>1. PICK ts \in SUBSET Resumable(s, hosted) :
           /\ task' = [t \in Tasks |->
                         IF t \in ts THEN Claimed(t, task[t].executor, s) ELSE task[t]]
           /\ lease' = [t \in Tasks |->
                          IF t \in ts THEN NewLease(task[t].executor, s) ELSE lease[t]]
    BY <1>2 DEF StartSession
  <2>2. \A t \in ts : t \in Tasks /\ task[t].executor \in Executors
    BY <2>1 DEF Resumable, OfSession
  <2>3. task' \in [Tasks -> TaskRecord] /\ lease' \in [Tasks -> LeaseRecord \cup {None}]
    BY <2>1, <2>2, RecordsTyped DEF TypeOK
  <2> QED BY <1>2, <2>3 DEF StartSession, TypeOK
<1>3. \A t \in Tasks : lease[t] # None => [lease[t] EXCEPT !.expired = FALSE] \in LeaseRecord
                                         /\ [lease[t] EXCEPT !.expired = TRUE] \in LeaseRecord
  BY DEF TypeOK, LeaseRecord
<1>4. ASSUME NEW s, NEW hosted, HeartbeatSession(s, hosted) PROVE TypeOK'
  BY <1>3, <1>4 DEF HeartbeatSession, TypeOK
<1>5. ASSUME NEW t \in Tasks, Expire(t) PROVE TypeOK'
  BY <1>3, <1>5 DEF Expire, TypeOK
<1> QED BY <1>1, <1>2, <1>4, <1>5 DEF SessionCommand, EndSession, Reap

\* The initial state is well typed.
LEMMA InitTyped == Init => TypeOK
<1> SUFFICES ASSUME Init PROVE TypeOK
  OBVIOUS
<1>1. [NewTask EXCEPT !.status = "ABSENT"] \in TaskRecord
  BY DEF NewTask, TaskRecord, TaskStatus, Gone
<1>2. [NewJob EXCEPT !.status = "ABSENT"] \in JobRecord
  BY DEF NewJob, JobRecord, JobStatus, Gone
<1>3. [NewIssue EXCEPT !.status = "ABSENT"] \in IssueRecord
  BY DEF NewIssue, IssueRecord, IssueStatus, Gone
<1> QED BY <1>1, <1>2, <1>3 DEF Init, TypeOK, Gone

\* Every step keeps the types.
LEMMA StepTyped == TypeOK /\ [Next]_vars => TypeOK'
<1> SUFFICES ASSUME TypeOK, [Next]_vars PROVE TypeOK'
  OBVIOUS
<1>1. CASE UNCHANGED vars
  BY <1>1 DEF vars, TypeOK
<1>2. CASE Next
  BY <1>2, TaskCommandTyped, JobCommandTyped, IssueCommandTyped, ProjectCommandTyped,
     SessionsTyped DEF Next
<1> QED BY <1>1, <1>2

\* The store's records have the fields and values their Rust types allow, in
\* every state any commands lead to.
THEOREM TypesHold == Spec => []TypeOK
BY InitTyped, StepTyped, PTL DEF Spec

----------------------------------------------------------------------------
(* Ownership *)

\* What a step may do to a Task and its lease: nothing that ownership depends
\* on, take the lease away, or give a free Task to a pair that holds no lease.
Kept(t) ==
    /\ task'[t].status = task[t].status
    /\ (task'[t].phase # None) <=> (task[t].phase # None)
    /\ task'[t].systemBlock = task[t].systemBlock
    /\ task'[t].executor = task[t].executor /\ task'[t].session = task[t].session
    /\ (lease'[t] = None) <=> (lease[t] = None)
    /\ lease[t] # None => /\ lease'[t].executor = lease[t].executor
                          /\ lease'[t].session = lease[t].session
Dropped(t) ==
    /\ lease'[t] = None
    /\ task'[t].status # "IN_PROGRESS" /\ task'[t].phase = None
    /\ task'[t].systemBlock => task'[t].status = "BLOCKED"
Taken(t) ==
    /\ lease[t] = None /\ lease'[t] # None
    /\ task'[t].status = "IN_PROGRESS" /\ task'[t].phase # None /\ ~task'[t].systemBlock
    /\ lease'[t].executor = task'[t].executor /\ lease'[t].session = task'[t].session
    /\ ~LeaseHeld(lease'[t].executor, lease'[t].session)
Moves ==
    /\ \A t \in Tasks : Kept(t) \/ Dropped(t) \/ Taken(t)
    /\ \A t, u \in Tasks :
          Taken(t) /\ Taken(u) /\ t # u
             => \/ lease'[t].executor # lease'[u].executor
                \/ lease'[t].session # lease'[u].session

\* Such steps keep ownership, and hand a lease over only through a free Task.
LEMMA MovesKeepOwnership ==
    ASSUME Ownership, Moves
    PROVE  Ownership' /\ HandoverStep
<1>1. ASSUME NEW t \in Tasks PROVE LeaseMatches(t)'
  BY DEF Ownership, Moves, LeaseMatches, Kept, Dropped, Taken
<1>2. ASSUME NEW t \in Tasks, NEW u \in Tasks, lease'[t] # None, lease'[u] # None, t # u
      PROVE  \/ lease'[t].executor # lease'[u].executor
             \/ lease'[t].session # lease'[u].session
  <2>1. Kept(t) \/ Taken(t)
    BY <1>2 DEF Moves, Dropped
  <2>2. Kept(u) \/ Taken(u)
    BY <1>2 DEF Moves, Dropped
  <2>3. CASE Kept(t) /\ Kept(u)
    BY <1>2, <2>3 DEF Ownership, Kept
  <2>4. CASE Taken(t) /\ Taken(u)
    BY <1>2, <2>4 DEF Moves
  <2>5. CASE Kept(t) /\ Taken(u)
    BY <1>2, <2>5 DEF Kept, Taken, LeaseHeld
  <2>6. CASE Taken(t) /\ Kept(u)
    BY <1>2, <2>6 DEF Kept, Taken, LeaseHeld
  <2> QED BY <2>1, <2>2, <2>3, <2>4, <2>5, <2>6
<1>3. HandoverStep
  BY DEF HandoverStep, Moves, Kept, Dropped, Taken
<1> QED BY <1>1, <1>2, <1>3 DEF Ownership

\* Only one Task changes: it is enough to look at that one.
LEMMA OneTaskMoves ==
    ASSUME NEW t \in Tasks, \A u \in Tasks \ {t} : Kept(u),
           Kept(t) \/ Dropped(t) \/ Taken(t)
    PROVE  Moves
BY DEF Moves, Kept, Taken

\* None is not a lease.
LEMMA LeaseIsSomething == \A r \in LeaseRecord : r # None
<1> TAKE r \in LeaseRecord
<1>1. r = [executor |-> r.executor, session |-> r.session, expired |-> r.expired]
  BY DEF LeaseRecord
<1>2. r.executor \in Executors /\ r.session \in Sessions /\ r.expired \in BOOLEAN
  BY DEF LeaseRecord
<1> QED BY <1>1, <1>2, NoneIsNobody

\* A renewed or expired lease keeps its owner.
LEMMA LeaseFlag ==
    ASSUME TypeOK, NEW t \in Tasks, lease[t] # None, NEW b \in BOOLEAN
    PROVE  /\ [lease[t] EXCEPT !.expired = b] # None
           /\ [lease[t] EXCEPT !.expired = b].executor = lease[t].executor
           /\ [lease[t] EXCEPT !.expired = b].session = lease[t].session
<1>1. lease[t] \in LeaseRecord
  BY DEF TypeOK
<1>2. [lease[t] EXCEPT !.expired = b] \in LeaseRecord
  BY <1>1 DEF LeaseRecord
<1> QED BY <1>1, <1>2, LeaseIsSomething DEF LeaseRecord

\* A Task nobody leases, unless IN_PROGRESS.
LEMMA NoLeaseAtRest ==
    ASSUME Ownership, NEW t \in Tasks, task[t].status # "IN_PROGRESS"
    PROVE  lease[t] = None
BY DEF Ownership, LeaseMatches

\* A step that leaves Tasks and leases alone moves nothing.
LEMMA NothingMoves ==
    ASSUME UNCHANGED <<task, lease>>
    PROVE  Moves
BY DEF Moves, Kept, Taken

\* Task commands move one Task.
LEMMA TaskCommandMoves ==
    ASSUME TypeOK, Ownership, NEW t \in Tasks, TaskCommand(t)
    PROVE  Moves
<1> /\ task \in [Tasks -> TaskRecord] /\ task[t] \in TaskRecord
    /\ lease \in [Tasks -> LeaseRecord \cup {None}]
  BY DEF TypeOK
<1>1. CASE AddTask(t)
  <2>1. lease[t] = None
    BY <1>1, NoLeaseAtRest DEF AddTask
  <2>2. Dropped(t)
    BY <1>1, <2>1 DEF AddTask, Dropped, NewTask
  <2>3. \A u \in Tasks \ {t} : Kept(u)
    BY <1>1 DEF AddTask, Kept
  <2> QED BY <2>2, <2>3, OneTaskMoves
<1>2. ASSUME NEW e \in Executors, NEW s \in Sessions, Claim(t, e, s) PROVE Moves
  <2>1. task' = [task EXCEPT ![t] = Claimed(t, e, s)] /\ lease' = [lease EXCEPT ![t] = NewLease(e, s)]
    BY <1>2 DEF Claim, StoreTask
  <2>2. /\ Claimed(t, e, s).status = "IN_PROGRESS" /\ Claimed(t, e, s).phase = "PLANNING"
        /\ Claimed(t, e, s).systemBlock = FALSE
        /\ Claimed(t, e, s).executor = e /\ Claimed(t, e, s).session = s
    BY DEF Claimed, TaskRecord
  <2>3. NewLease(e, s) # None /\ NewLease(e, s).executor = e /\ NewLease(e, s).session = s
    BY LeaseIsSomething, RecordsTyped DEF NewLease
  <2>4. Taken(t)
    BY <1>2, <2>1, <2>2, <2>3, NoneIsNobody DEF Claim, Taken
  <2>5. \A u \in Tasks \ {t} : Kept(u)
    BY <2>1 DEF Kept
  <2> QED BY <2>4, <2>5, OneTaskMoves
<1>3. ASSUME NEW caller, RegisterPlan(t, caller) PROVE Moves
  <2>1. Kept(t) /\ \A u \in Tasks \ {t} : Kept(u)
    BY <1>3 DEF RegisterPlan, Kept, TaskRecord
  <2> QED BY <2>1, OneTaskMoves
<1>4. ASSUME NEW caller, Start(t, caller) PROVE Moves
  <2>1. task' = [task EXCEPT ![t] = [task[t] EXCEPT !.phase = "EXECUTING", !.started = TRUE]]
        /\ lease' = lease /\ task[t].phase = "PLANNING"
    BY <1>4 DEF Start, StoreTask
  <2>2. Kept(t) /\ \A u \in Tasks \ {t} : Kept(u)
    BY <2>1, NoneIsNobody DEF Kept, TaskRecord
  <2> QED BY <2>2, OneTaskMoves
<1>5. ASSUME NEW caller, Heartbeat(t, caller) PROVE Moves
  <2>1. task' = task /\ lease[t] # None
        /\ lease' = [lease EXCEPT ![t] = [lease[t] EXCEPT !.expired = FALSE]]
    BY <1>5 DEF Heartbeat, StoreTask
  <2>2. Kept(t) /\ \A u \in Tasks \ {t} : Kept(u)
    BY <2>1, LeaseFlag DEF Kept
  <2> QED BY <2>2, OneTaskMoves
<1>6. ASSUME NEW d \in Tasks, NEW caller, Depend(t, d, caller) \/ Undepend(t, d, caller)
      PROVE  Moves
  <2>1. lease' = lease /\ \E S : task' = [task EXCEPT ![t] = [task[t] EXCEPT !.deps = S]]
    BY <1>6 DEF Depend, Undepend, StoreTask
  <2>2. Kept(t) /\ \A u \in Tasks \ {t} : Kept(u)
    BY <2>1 DEF Kept, TaskRecord
  <2> QED BY <2>2, OneTaskMoves
<1>7. ASSUME NEW from \in SUBSET Terminal, NEW caller, Reopen(t, from, caller) PROVE Moves
  <2>1. lease[t] = None
    BY <1>7, NoLeaseAtRest DEF Reopen, Terminal
  <2>2. task' = [task EXCEPT ![t] = [task[t] EXCEPT !.status = "TODO", !.phase = None,
                                                     !.systemBlock = FALSE]]
        /\ lease' = lease
    BY <1>7 DEF Reopen, StoreTask
  <2>3. Dropped(t)
    BY <2>1, <2>2 DEF Dropped, TaskRecord
  <2>4. \A u \in Tasks \ {t} : Kept(u)
    BY <2>2 DEF Kept
  <2> QED BY <2>3, <2>4, OneTaskMoves
<1>8. ASSUME NEW to \in TaskStatus \ {"IN_PROGRESS"}, NEW policy, Leave(t, to, policy)
      PROVE  Moves
  <2>1. task' = [task EXCEPT ![t] = Left(t, to)] /\ lease' = [lease EXCEPT ![t] = None]
    BY <1>8 DEF Leave, StoreTask
  <2>2. Left(t, to).status = to /\ Left(t, to).phase = None /\ Left(t, to).systemBlock = FALSE
    BY DEF Left, TaskRecord
  <2>3. Dropped(t)
    BY <2>1, <2>2 DEF Dropped
  <2>4. \A u \in Tasks \ {t} : Kept(u)
    BY <2>1 DEF Kept
  <2> QED BY <2>3, <2>4, OneTaskMoves
<1>9. ASSUME NEW to \in TaskStatus \ {"IN_PROGRESS"}, NEW caller, NEW policy,
             SetAside(t, to, caller, policy)
      PROVE  Moves
  BY <1>8, <1>9 DEF SetAside
<1>10. ASSUME NEW caller, NEW policy, Done(t, caller, policy) \/ DoneByHuman(t, policy)
       PROVE  Moves
  BY <1>8, <1>10 DEF Done, DoneByHuman, TaskStatus
<1> QED
  BY <1>1, <1>2, <1>3, <1>4, <1>5, <1>6, <1>7, <1>9, <1>10
     DEF TaskCommand, TaskStatus, Terminal

\* Finishing Tasks drops the open ones and keeps the others.
LEMMA FinishTasksMoves ==
    ASSUME TypeOK, Ownership, NEW js, NEW to \in Terminal, FinishTasks(js, to)
    PROVE  Moves
<1>1. ASSUME NEW t \in Tasks PROVE Kept(t) \/ Dropped(t)
  <2>1. task[t] \in TaskRecord
    BY DEF TypeOK
  <2>2. CASE t \in TasksOf(js) /\ task[t].status \notin Terminal
    <3>1. task'[t] = Left(t, to) /\ lease'[t] = None
      BY <2>2 DEF FinishTasks
    <3>2. Left(t, to).status = to /\ Left(t, to).phase = None /\ Left(t, to).systemBlock = FALSE
      BY <2>1 DEF Left, TaskRecord
    <3> QED BY <3>1, <3>2 DEF Dropped, Terminal
  <2>3. CASE t \in TasksOf(js) /\ task[t].status \in Terminal
    <3>1. lease[t] = None
      BY <2>3, NoLeaseAtRest DEF Terminal
    <3> QED BY <2>3, <3>1 DEF FinishTasks, Kept
  <2>4. CASE t \notin TasksOf(js)
    BY <2>4 DEF FinishTasks, Kept
  <2> QED BY <2>2, <2>3, <2>4
<1> QED BY <1>1 DEF Moves, Kept, Dropped, Taken

\* Removing Tasks that are not leased drops them.
LEMMA RemoveTasksMoves ==
    ASSUME Ownership, NEW js, NoLeases(js), RemoveTasks(js), lease' = lease
    PROVE  Moves
<1>1. ASSUME NEW t \in Tasks PROVE Kept(t) \/ Dropped(t)
  <2>1. CASE t \in TasksOf(js)
    <3>1. lease[t] = None /\ task'[t] = [NewTask EXCEPT !.status = "DELETED"]
      BY <2>1 DEF NoLeases, RemoveTasks
    <3> QED BY <3>1 DEF Dropped, NewTask
  <2>2. CASE t \notin TasksOf(js)
    BY <2>2 DEF RemoveTasks, Kept
  <2> QED BY <2>1, <2>2
<1> QED BY <1>1 DEF Moves, Kept, Dropped, Taken

\* Job, Issue and Project commands only finish or remove Tasks.
LEMMA OtherCommandsMove ==
    ASSUME TypeOK, Ownership
    PROVE  /\ \A j \in Jobs : JobCommand(j) => Moves
           /\ \A i \in Issues : IssueCommand(i) => Moves
           /\ \A p \in Projects : ProjectCommand(p) => Moves
<1>1. ASSUME NEW j \in Jobs, JobCommand(j) PROVE Moves
  <2>1. CASE CancelJob(j) \/ ApproveJobByHuman(j)
    BY <2>1, FinishTasksMoves DEF CancelJob, ApproveJobByHuman, Terminal
  <2>2. CASE DeleteJob(j)
    BY <2>2, RemoveTasksMoves DEF DeleteJob, Removable
  <2>3. CASE UNCHANGED <<task, lease>>
    BY <2>3, NothingMoves
  <2> QED BY <1>1, <2>1, <2>2, <2>3
        DEF JobCommand, CreateJob, UpdateJob, FollowupJob, StoreJob, ArchiveJob, UnarchiveJob,
            SubmitJob, ApproveJob, RejectJob
<1>2. ASSUME NEW i \in Issues, IssueCommand(i) PROVE Moves
  <2>1. CASE CancelIssue(i)
    BY <2>1, FinishTasksMoves DEF CancelIssue, Terminal
  <2>2. CASE UNCHANGED <<task, lease>>
    BY <2>2, NothingMoves
  <2> QED BY <1>2, <2>1, <2>2
        DEF IssueCommand, CreateIssue, UpdateIssueContent, StartIssue, SubmitIssue,
            ApproveIssue, RejectIssue, ReopenIssue, ArchiveIssue, SetIssue
<1>3. ASSUME NEW p \in Projects, ProjectCommand(p) PROVE Moves
  <2>1. CASE DeleteProject(p)
    BY <2>1, RemoveTasksMoves DEF DeleteProject, Removable
  <2>2. CASE UNCHANGED <<task, lease>>
    BY <2>2, NothingMoves
  <2> QED BY <1>3, <2>1, <2>2
        DEF ProjectCommand, RegisterProject, ArchiveProject, UnarchiveProject, SetProject
<1> QED BY <1>1, <1>2, <1>3

\* Ending a session and reaping drop leases; a resumed session takes free
\* Tasks, each for another executor.
LEMMA SessionsMove ==
    ASSUME TypeOK, Ownership
    PROVE  /\ \A s \in Sessions : SessionCommand(s) => Moves
           /\ \A t \in Tasks : Expire(t) => Moves
           /\ Reap => Moves
<1>1. ASSUME NEW ts, SystemBlocked(ts) PROVE Moves
  <2>1. ASSUME NEW t \in Tasks PROVE Kept(t) \/ Dropped(t)
    <3>1. task[t] \in TaskRecord
      BY DEF TypeOK
    <3>2. CASE t \in ts
      <4>1. /\ lease'[t] = None
            /\ task'[t] = [task[t] EXCEPT !.status = "BLOCKED", !.phase = None,
                                          !.systemBlock = TRUE]
        BY <1>1, <3>2 DEF SystemBlocked
      <4> QED BY <3>1, <4>1 DEF Dropped, TaskRecord
    <3>3. CASE t \notin ts
      BY <1>1, <3>3 DEF SystemBlocked, Kept
    <3> QED BY <3>2, <3>3
  <2> QED BY <2>1 DEF Moves, Kept, Dropped, Taken
<1>2. ASSUME NEW s \in Sessions, NEW hosted \in SUBSET Executors, StartSession(s, hosted)
      PROVE  Moves
  <2>1. PICK ts \in SUBSET Resumable(s, hosted) :
           /\ \A t, u \in ts : task[t].executor = task[u].executor => t = u
           /\ \A t \in ts : ~LeaseHeld(task[t].executor, s)
           /\ task' = [t \in Tasks |->
                         IF t \in ts THEN Claimed(t, task[t].executor, s) ELSE task[t]]
           /\ lease' = [t \in Tasks |->
                          IF t \in ts THEN NewLease(task[t].executor, s) ELSE lease[t]]
    BY <1>2 DEF StartSession
  <2>2. ASSUME NEW t \in ts
        PROVE  /\ Taken(t) /\ t \in Tasks
               /\ lease'[t].executor = task[t].executor /\ lease'[t].session = s
    <3>1. t \in Tasks /\ task[t].executor \in Executors /\ task[t].status = "BLOCKED"
      BY <2>1, <2>2 DEF Resumable, OfSession
    <3>2. lease[t] = None /\ task[t] \in TaskRecord
      BY <3>1, NoLeaseAtRest DEF TypeOK
    <3> DEFINE e == task[t].executor
    <3>3. task'[t] = Claimed(t, e, s) /\ lease'[t] = NewLease(e, s)
      BY <2>1, <2>2, <3>1
    <3>4. /\ Claimed(t, e, s).status = "IN_PROGRESS" /\ Claimed(t, e, s).phase = "PLANNING"
          /\ Claimed(t, e, s).systemBlock = FALSE
          /\ Claimed(t, e, s).executor = e /\ Claimed(t, e, s).session = s
      BY <3>2 DEF Claimed, TaskRecord
    <3>5. NewLease(e, s) # None /\ NewLease(e, s).executor = e /\ NewLease(e, s).session = s
      BY <3>1, LeaseIsSomething, RecordsTyped DEF NewLease
    <3>6. ~LeaseHeld(e, s)
      BY <2>1, <2>2
    <3> HIDE DEF e
    <3>7. Taken(t) /\ lease'[t].executor = e /\ lease'[t].session = s
      BY <3>2, <3>3, <3>4, <3>5, <3>6, NoneIsNobody DEF Taken
    <3> QED BY <3>1, <3>7 DEF e
  <2>3. ASSUME NEW t \in Tasks, t \notin ts PROVE Kept(t) /\ ~Taken(t)
    BY <2>1, <2>3 DEF Kept, Taken
  <2>4. ASSUME NEW t \in Tasks, NEW u \in Tasks, Taken(t), Taken(u), t # u
        PROVE  lease'[t].executor # lease'[u].executor
    <3>1. t \in ts /\ u \in ts
      BY <2>3, <2>4
    <3>2. task[t].executor # task[u].executor
      BY <2>1, <2>4, <3>1
    <3> QED BY <2>2, <3>1, <3>2
  <2> QED BY <2>2, <2>3, <2>4 DEF Moves
<1>3. ASSUME NEW s, NEW hosted, HeartbeatSession(s, hosted) PROVE Moves
  <2>1. ASSUME NEW t \in Tasks PROVE Kept(t)
    BY <1>3, LeaseFlag DEF HeartbeatSession, Kept
  <2> QED BY <2>1 DEF Moves, Kept, Taken
<1>4. ASSUME NEW t \in Tasks, Expire(t) PROVE Moves
  <2>1. /\ task' = task /\ lease[t] # None
        /\ lease' = [lease EXCEPT ![t] = [lease[t] EXCEPT !.expired = TRUE]]
        /\ lease \in [Tasks -> LeaseRecord \cup {None}]
    BY <1>4 DEF Expire, TypeOK
  <2>2. Kept(t) /\ \A u \in Tasks \ {t} : Kept(u)
    BY <2>1, LeaseFlag DEF Kept
  <2> QED BY <2>2, OneTaskMoves
<1> QED BY <1>1, <1>2, <1>3, <1>4 DEF SessionCommand, EndSession, Reap

\* Every step is such a move.
LEMMA StepMoves ==
    ASSUME TypeOK, Ownership, [Next]_vars
    PROVE  Moves
<1>1. CASE UNCHANGED vars
  BY <1>1, NothingMoves DEF vars
<1>2. CASE Next
  BY <1>2, TaskCommandMoves, OtherCommandsMove, SessionsMove DEF Next
<1> QED BY <1>1, <1>2

\* Nobody owns anything in the beginning.
LEMMA InitOwnership == Init => Ownership
BY DEF Init, Ownership, LeaseMatches, NewTask

\* A Task is leased exactly while it is IN_PROGRESS, by the executor and session
\* it records, and no executor session holds two leases, however claims, expiry,
\* reaping, human edits and resumed sessions interleave.
THEOREM OwnershipHolds == Spec => []Ownership
<1>1. TypeOK /\ Ownership /\ [Next]_vars => Ownership'
  BY StepMoves, MovesKeepOwnership
<1> QED BY <1>1, InitOwnership, TypesHold, PTL DEF Spec

\* A lease never passes from one holder to another in one step.
THEOREM HandoverHolds == Spec => Handover
<1>1. TypeOK /\ Ownership /\ [Next]_vars => [HandoverStep]_vars
  BY StepMoves, MovesKeepOwnership
<1> QED BY <1>1, TypesHold, OwnershipHolds, PTL DEF Spec, Handover
----------------------------------------------------------------------------
(* Delivery *)

Unfinished == TaskStatus \ Terminal
Over == Closed \cup Gone

\* What ReviewedWork and NoLostSubmission say of one Job.
DeliverySound(j) ==
    /\ job[j].status = "PENDING_REVIEW" => Ready(task, j)
    /\ job[j].status \in Closed => \A t \in TasksOf({j}) : task[t].status \in Terminal
    /\ job[j].archived => job[j].status \in Closed
    /\ (job[j].status = "ACTIVE" /\ Ready(task, j))
          => job[j].rejected \/ TasksOf({j}) = job[j].followup

\* What else holds of a Job and its Tasks: a Job that is not there has none, one
\* with an executing Task has been started, and its Issue is of its own Project.
JobSound(j) ==
    /\ DeliverySound(j)
    /\ job[j].status \in Gone => TasksOf({j}) = {}
    /\ \A t \in Tasks : TaskJob[t] = j /\ task[t].phase = "EXECUTING" => job[j].started
    /\ job[j].issue # None => IssueProject[job[j].issue] = JobProject[j]

\* What an archived Project says of its Issues and Jobs; the Tasks follow.
ProjectQuiet(p) ==
    /\ \A i \in Issues : IssueProject[i] = p => issue[i].status \in Over
    /\ \A j \in Jobs : JobProject[j] = p => job[j].status \in Over

\* The inductive invariant of delivery.
Delivery ==
    /\ \A j \in Jobs : JobSound(j)
    /\ \A p \in Projects : project[p] = "ARCHIVED" => ProjectQuiet(p)
    /\ ExecutingUnderActiveIssue

\* What a step may do to what was closed: a Job or an Issue opens only in an open
\* Project, and a Project is archived only when nothing in it is open.
Opens ==
    /\ \A j \in Jobs : job[j].status \in Over /\ job'[j].status \notin Over
                          => project[JobProject[j]] = "OPEN"
    /\ \A i \in Issues : issue[i].status \in Over /\ issue'[i].status \notin Over
                            => project[IssueProject[i]] = "OPEN"
    /\ \A p \in Projects : project'[p] = "ARCHIVED" /\ project[p] # "ARCHIVED"
                              => ProjectQuiet(p) /\ UNCHANGED <<issue, job>>

\* A Task and a Job a step does nothing to that delivery depends on.
SameTask(t) ==
    /\ \/ task'[t].status = task[t].status
       \/ {task[t].status, task'[t].status} \subseteq Unfinished
    /\ task'[t].phase = "EXECUTING" => task[t].phase = "EXECUTING"
SameJob(j) ==
    /\ job'[j].status = job[j].status /\ job'[j].archived = job[j].archived
    /\ job'[j].rejected = job[j].rejected /\ job'[j].followup = job[j].followup
    /\ job'[j].issue = job[j].issue
    /\ job[j].started => job'[j].started

\* A Job whose Tasks only move between unfinished statuses stays sound.
LEMMA SameKeeps ==
    ASSUME NEW j \in Jobs, JobSound(j), SameJob(j),
           \A t \in Tasks : TaskJob[t] = j => SameTask(t)
    PROVE  JobSound(j)'
<1>1. ASSUME NEW t \in Tasks, TaskJob[t] = j
      PROVE  /\ Exists(t)' <=> Exists(t)
             /\ task'[t].status \in Terminal <=> task[t].status \in Terminal
             /\ task'[t].status = "DONE" <=> task[t].status = "DONE"
             /\ task'[t].status = "CANCELLED" <=> task[t].status = "CANCELLED"
  BY <1>1 DEF SameTask, Unfinished, TaskStatus, Terminal, Exists, Gone
<1>2. TasksOf({j})' = TasksOf({j})
  BY <1>1 DEF TasksOf
<1>3. Ready(task', j) <=> Ready(task, j)
  BY <1>1 DEF Ready, Exists
<1>4. DeliverySound(j)'
  BY <1>1, <1>2, <1>3 DEF JobSound, DeliverySound, SameJob, TasksOf
<1> QED BY <1>2, <1>4 DEF JobSound, SameJob, SameTask

\* An Issue that is ACTIVE stays so when work starts under some Issue.
LEMMA ActivateKeeps ==
    ASSUME TypeOK, NEW i, NEW k \in Issues
    PROVE  /\ issue[k].status = "ACTIVE" => Activate(i)[k] = issue[k]
           /\ Activate(i)[k].archived = issue[k].archived
           /\ issue[k].status \in Over => Activate(i)[k] = issue[k]
BY DEF Activate, TypeOK, IssueRecord, Over, Closed, Gone

\* A step that starts no Task and moves no Job to another Issue keeps executing
\* work under ACTIVE Issues.
LEMMA ExecutingKeeps ==
    ASSUME TypeOK, Delivery,
           \A t \in Tasks : task'[t].phase = "EXECUTING" =>
               /\ task[t].phase = "EXECUTING"
               /\ job'[TaskJob[t]].issue = job[TaskJob[t]].issue,
           issue' = issue \/ \E i : issue' = Activate(i)
    PROVE  ExecutingUnderActiveIssue'
<1> SUFFICES ASSUME NEW t \in Tasks, task'[t].phase = "EXECUTING",
                    job'[TaskJob[t]].issue # None
             PROVE  /\ issue'[job'[TaskJob[t]].issue].status = "ACTIVE"
                    /\ ~issue'[job'[TaskJob[t]].issue].archived
  BY DEF ExecutingUnderActiveIssue
<1>1. TaskJob[t] \in Jobs /\ job[TaskJob[t]] \in JobRecord
  BY ParentsTyped DEF TypeOK
<1>2. /\ job'[TaskJob[t]].issue \in Issues
      /\ issue[job'[TaskJob[t]].issue].status = "ACTIVE"
      /\ ~issue[job'[TaskJob[t]].issue].archived
  BY <1>1 DEF Delivery, ExecutingUnderActiveIssue, JobRecord
<1> QED BY <1>2, ActivateKeeps

\* The parts of the invariant put together.
LEMMA DeliveryParts ==
    ASSUME Delivery, \A j \in Jobs : JobSound(j)', Opens, ExecutingUnderActiveIssue'
    PROVE  Delivery'
<1>1. ASSUME NEW p \in Projects, project'[p] = "ARCHIVED" PROVE ProjectQuiet(p)'
  <2>1. CASE project[p] = "ARCHIVED"
    <3>1. /\ \A i \in Issues : IssueProject[i] = p => issue'[i].status \in Over
          /\ \A j \in Jobs : JobProject[j] = p => job'[j].status \in Over
      BY <2>1 DEF Delivery, ProjectQuiet, Opens
    <3> QED BY <3>1 DEF ProjectQuiet
  <2>2. CASE project[p] # "ARCHIVED"
    BY <1>1, <2>2 DEF Opens, ProjectQuiet
  <2> QED BY <2>1, <2>2
<1> QED BY <1>1 DEF Delivery

----------------------------------------------------------------------------
\* What a Task command stores: a finished Task stays as it is or is reopened with
\* its Job, and the rest of the Job is left to aggregation.
Storable(t, r, jb) ==
    /\ TaskOpen(t)
    /\ r.status \in TaskStatus
    /\ \/ /\ jb[TaskJob[t]].status = job[TaskJob[t]].status
          /\ task[t].status \in Terminal => r.status = task[t].status
       \/ /\ jb[TaskJob[t]].status = "ACTIVE" /\ r.status = "TODO"
          /\ task[t].status \in Terminal
    /\ \A j \in Jobs : /\ j # TaskJob[t] => jb[j] = job[j]
                       /\ jb[j].archived = job[j].archived /\ jb[j].issue = job[j].issue
                       /\ jb[j].followup = job[j].followup
                       /\ jb[j].rejected = job[j].rejected
                       /\ job[j].started => jb[j].started
    /\ r.phase = "EXECUTING" => task[t].phase = "EXECUTING" \/ jb[TaskJob[t]].started

\* The end of a Task command leaves every Job sound and opens none in a closed Project.
LEMMA StoreTaskDelivers ==
    ASSUME TypeOK, Delivery, NEW t \in Tasks, NEW r \in TaskRecord,
           NEW jb \in [Jobs -> JobRecord], StoreTask(t, r, jb), Storable(t, r, jb),
           issue' = issue \/ \E i : issue' = Activate(i)
    PROVE  /\ \A j \in Jobs : JobSound(j)'
           /\ Opens
           /\ ClosedJobStep
           /\ \A j \in Jobs : job'[j].issue = job[j].issue
<1>0. PICK k \in Jobs : k = TaskJob[t]
  BY ParentsTyped
<1> TaskOpen(t) /\ r.status \in TaskStatus
  BY DEF Storable
<1> \A j \in Jobs : /\ j # TaskJob[t] => jb[j] = job[j]
                    /\ jb[j].archived = job[j].archived /\ jb[j].issue = job[j].issue
                    /\ jb[j].followup = job[j].followup
                    /\ jb[j].rejected = job[j].rejected
                    /\ job[j].started => jb[j].started
  BY DEF Storable
<1> /\ \/ /\ jb[k].status = job[k].status
          /\ task[t].status \in Terminal => r.status = task[t].status
       \/ /\ jb[k].status = "ACTIVE" /\ r.status = "TODO"
          /\ task[t].status \in Terminal
    /\ r.phase = "EXECUTING" => task[t].phase = "EXECUTING" \/ jb[k].started
  BY <1>0 DEF Storable
<1> /\ k = TaskJob[t] /\ JobSound(k) /\ job[k] \in JobRecord /\ jb[k] \in JobRecord
    /\ \A j \in Jobs : JobSound(j)
  BY <1>0 DEF TypeOK, Delivery
<1>1. task' = [task EXCEPT ![t] = r] /\ job' = Aggregate(k, task', jb) /\ project' = project
  BY DEF StoreTask
<1>2. task'[t] = r /\ \A u \in Tasks \ {t} : task'[u] = task[u]
  BY <1>1 DEF TypeOK
<1>3. /\ Exists(t) /\ project[JobProject[k]] = "OPEN" /\ ~job[k].archived
      /\ job[k].status # "CANCELLED"
  BY DEF TaskOpen, ProjectOf
<1>4. \A j \in Jobs : job'[j].issue = job[j].issue
  BY <1>1 DEF Aggregate
<1>5. \A j \in Jobs \ {k} : job'[j] = job[j]
  BY <1>1 DEF Aggregate
<1>6. \A j \in Jobs \ {k} : JobSound(j)'
  <2> TAKE j \in Jobs \ {k}
  <2>1. \A u \in Tasks : TaskJob[u] = j => SameTask(u)
    BY <1>2 DEF SameTask
  <2> QED BY <1>5, <2>1, SameKeeps DEF SameJob
<1>7. \A u \in Tasks : Exists(u)' <=> Exists(u)
  BY <1>2, <1>3 DEF Exists, TaskStatus, Gone
<1>8. \A j \in Jobs : TasksOf({j})' = TasksOf({j})
  BY <1>7 DEF TasksOf
<1>9. t \in TasksOf({k}) /\ job[k].status \notin Gone
  BY <1>3 DEF TasksOf, JobSound
<1>10. r.status = "TODO" => ~Ready(task', k)
  BY <1>2 DEF Ready, Gone
<1>11. \/ /\ job'[k].status \in {"PENDING_REVIEW", "COMPLETED"} /\ jb[k].status = "ACTIVE"
          /\ Ready(task', k) /\ ~job'[k].archived
       \/ job'[k] = jb[k] /\ ~(jb[k].status = "ACTIVE" /\ ~Ready(task, k) /\ Ready(task', k))
  BY <1>1, <1>3 DEF Aggregate, ReadyStatus
<1>12. ~job'[k].archived /\ job'[k].issue = job[k].issue /\ job'[k].status \notin Gone
       /\ (jb[k].started => job'[k].started)
  BY <1>1, <1>3, <1>4, <1>9 DEF Aggregate, ReadyStatus, Gone
<1>13. Ready(task', k) => \A u \in TasksOf({k}) : task'[u].status \in Terminal
  BY <1>7 DEF Ready, TasksOf, Terminal, Exists
<1>14. DeliverySound(k)'
  <2>1. CASE job'[k].status \in {"PENDING_REVIEW", "COMPLETED"} /\ Ready(task', k)
    BY <1>8, <1>12, <1>13, <2>1 DEF DeliverySound
  <2>2. CASE job'[k] = jb[k] /\ ~(jb[k].status = "ACTIVE" /\ ~Ready(task, k) /\ Ready(task', k))
    <3>1. CASE jb[k].status = "ACTIVE"
      <4>1. CASE r.status = "TODO"
        BY <1>10, <1>12, <2>2, <3>1, <4>1 DEF DeliverySound, Closed
      <4>2. CASE r.status # "TODO"
        <5>1. job[k].status = "ACTIVE" /\ (Ready(task', k) => Ready(task, k))
          BY <2>2, <3>1, <4>2
        <5>2. Ready(task', k) => job[k].rejected \/ TasksOf({k}) = job[k].followup
          BY <5>1 DEF DeliverySound, JobSound
        <5>3. jb[k].rejected = job[k].rejected /\ jb[k].followup = job[k].followup
          OBVIOUS
        <5>4. Ready(task', k) => job'[k].rejected \/ TasksOf({k})' = job'[k].followup
          BY <1>8, <2>2, <5>2, <5>3
        <5>5. job'[k].status = "ACTIVE"
          BY <2>2, <3>1
        <5> QED BY <1>12, <5>4, <5>5 DEF DeliverySound, Closed
      <4> QED BY <4>1, <4>2
    <3>2. CASE jb[k].status # "ACTIVE"
      <4>1. jb[k].status = job[k].status /\ (task[t].status \in Terminal => r.status = task[t].status)
        BY <3>2
      <4>2. CASE job[k].status = "PENDING_REVIEW"
        <5>1. task[t].status \in Terminal
          BY <1>3, <4>2 DEF JobSound, DeliverySound, Ready, Terminal, Exists
        <5>2. \A u \in Tasks : task'[u].status = task[u].status
          BY <1>2, <4>1, <5>1
        <5>3. Ready(task', k)
          BY <4>2, <5>2 DEF JobSound, DeliverySound, Ready
        <5> QED BY <1>12, <2>2, <4>1, <4>2, <5>3 DEF DeliverySound, Closed
      <4>3. CASE job[k].status \in Closed
        <5>1. task[t].status \in Terminal
          BY <1>9, <4>3 DEF JobSound, DeliverySound
        <5>2. \A u \in Tasks : task'[u].status = task[u].status
          BY <1>2, <4>1, <5>1
        <5>3. \A u \in TasksOf({k}) : task'[u].status \in Terminal
          BY <4>3, <5>2 DEF JobSound, DeliverySound, TasksOf
        <5>4. job'[k].status \in Closed
          BY <2>2, <4>1, <4>3
        <5> QED BY <1>8, <1>12, <5>3, <5>4 DEF DeliverySound, Closed
      <4> QED BY <1>9, <3>2, <4>1, <4>2, <4>3 DEF JobRecord, JobStatus, Closed
    <3> QED BY <3>1, <3>2
  <2> QED BY <1>11, <2>1, <2>2
<1>15. JobSound(k)'
  <2>1. \A u \in Tasks : TaskJob[u] = k /\ task'[u].phase = "EXECUTING" => job'[k].started
    BY <1>2, <1>12 DEF JobSound
  <2> QED BY <1>12, <1>14, <2>1 DEF JobSound
<1>16. Opens
  <2>1. \A i \in Issues : issue[i].status \in Over => issue'[i].status \in Over
    BY ActivateKeeps
  <2> QED BY <1>1, <1>3, <1>5, <2>1 DEF Opens
<1>17. ClosedJobStep
  <2> SUFFICES ASSUME job[k].status \in Closed, job'[k].status \notin {job[k].status, "DELETED"}
               PROVE  /\ job[k].status = "COMPLETED" /\ ~job[k].archived
                      /\ job'[k].status = "ACTIVE"
                      /\ \E u \in TasksOf({k}) : /\ task[u].status \in Terminal
                                                 /\ task'[u].status = "TODO"
    BY <1>5 DEF ClosedJobStep
  <2>1. jb[k].status = "ACTIVE" /\ r.status = "TODO" /\ task[t].status \in Terminal
    BY <1>11 DEF Closed
  <2>2. job'[k] = jb[k]
    BY <1>10, <1>11, <2>1
  <2> QED BY <1>2, <1>3, <1>9, <2>1, <2>2 DEF Closed
<1> QED BY <1>4, <1>6, <1>15, <1>16, <1>17

\* Such a command that starts no Task keeps the whole invariant.
LEMMA StoreTaskKeeps ==
    ASSUME TypeOK, Delivery, NEW t \in Tasks, NEW r \in TaskRecord,
           NEW jb \in [Jobs -> JobRecord], StoreTask(t, r, jb), Storable(t, r, jb),
           r.phase = "EXECUTING" => task[t].phase = "EXECUTING",
           issue' = issue
    PROVE  Delivery' /\ ClosedJobStep
<1>1. \A j \in Jobs : job'[j].issue = job[j].issue
  BY StoreTaskDelivers
<1>2. \A u \in Tasks : task'[u].phase = "EXECUTING" => task[u].phase = "EXECUTING"
  BY DEF StoreTask, TypeOK
<1>3. \A u \in Tasks : TaskJob[u] \in Jobs
  BY ParentsTyped
<1>4. ExecutingUnderActiveIssue'
  BY <1>1, <1>2, <1>3, ExecutingKeeps
<1> QED BY <1>4, StoreTaskDelivers, DeliveryParts

\* A step that does nothing delivery depends on keeps it.
LEMMA NothingDelivers ==
    ASSUME TypeOK, Delivery, \A t \in Tasks : SameTask(t), \A j \in Jobs : SameJob(j),
           UNCHANGED <<project, issue>>
    PROVE  Delivery' /\ ClosedJobStep
<1>1. \A j \in Jobs : JobSound(j)'
  BY SameKeeps DEF Delivery
<1>2. Opens /\ ClosedJobStep
  BY DEF Opens, ClosedJobStep, SameJob
<1>3. \A t \in Tasks : task'[t].phase = "EXECUTING" =>
         task[t].phase = "EXECUTING" /\ job'[TaskJob[t]].issue = job[TaskJob[t]].issue
  BY ParentsTyped DEF SameTask, SameJob
<1>4. ExecutingUnderActiveIssue'
  BY <1>3, ExecutingKeeps
<1> QED BY <1>1, <1>2, <1>4, DeliveryParts

\* Task commands keep delivery.
LEMMA TaskCommandDelivers ==
    ASSUME TypeOK, Delivery, NEW t \in Tasks, TaskCommand(t)
    PROVE  Delivery' /\ ClosedJobStep
<1>0. PICK k \in Jobs : k = TaskJob[t]
  BY ParentsTyped
<1> /\ k = TaskJob[t] /\ TaskJob[t] \in Jobs
    /\ job \in [Jobs -> JobRecord] /\ task[t] \in TaskRecord
    /\ task \in [Tasks -> TaskRecord] /\ job[k] \in JobRecord /\ JobSound(k)
  BY <1>0 DEF TypeOK, Delivery
<1> None # "EXECUTING"
  BY NoneIsNobody
<1>1. CASE AddTask(t)
  <2> DEFINE new == [NewTask EXCEPT !.deps = job[TaskJob[t]].followup]
  <2>1. new.status = "TODO" /\ new.phase = None
    BY DEF NewTask
  <2>2. task' = [task EXCEPT ![t] = new] /\ UNCHANGED <<project, issue, job, lease>>
    BY <1>1 DEF AddTask
  <2> HIDE DEF new
  <2>3. task'[t].status = "TODO" /\ task'[t].phase = None
        /\ \A u \in Tasks \ {t} : task'[u] = task[u]
    BY <2>1, <2>2
  <2>4. job[k].status = "ACTIVE" /\ ~job[k].archived
    BY <1>1 DEF AddTask
  <2>5. ~Ready(task', k)
    BY <2>3 DEF Ready, Gone
  <2>6. JobSound(k)'
    <3>1. DeliverySound(k)'
      BY <2>2, <2>4, <2>5 DEF DeliverySound, Closed
    <3> QED BY <2>2, <2>3, <2>4, <3>1 DEF JobSound, Gone
  <2>7. \A j \in Jobs : JobSound(j)'
    <3> TAKE j \in Jobs
    <3>1. CASE j # k
      <4>1. SameJob(j)
        BY <2>2 DEF SameJob
      <4>2. \A u \in Tasks : TaskJob[u] = j => SameTask(u)
        BY <2>3, <3>1 DEF SameTask
      <4> QED BY <4>1, <4>2, SameKeeps DEF Delivery
    <3> QED BY <2>6, <3>1
  <2>8. Opens /\ ClosedJobStep
    BY <2>2 DEF Opens, ClosedJobStep
  <2>9. ExecutingUnderActiveIssue'
    BY <2>2, <2>3, ExecutingKeeps
  <2> QED BY <2>7, <2>8, <2>9, DeliveryParts
<1>2. ASSUME NEW e \in Executors, NEW s \in Sessions, Claim(t, e, s)
      PROVE  Delivery' /\ ClosedJobStep
  <2>1. /\ Claimed(t, e, s) \in TaskRecord /\ Claimed(t, e, s).status = "IN_PROGRESS"
        /\ Claimed(t, e, s).phase = "PLANNING"
    BY RecordsTyped DEF Claimed, TaskRecord
  <2>2. task[t].status \notin Terminal
    BY <1>2 DEF Claim, Allows, Terminal
  <2>3. Storable(t, Claimed(t, e, s), job)
    BY <1>2, <2>1, <2>2 DEF Claim, Storable, TaskStatus
  <2> QED BY <1>2, <2>1, <2>3, StoreTaskKeeps DEF Claim
<1>3. ASSUME NEW caller, RegisterPlan(t, caller) PROVE Delivery' /\ ClosedJobStep
  <2>1. \A u \in Tasks : SameTask(u)
    BY <1>3 DEF RegisterPlan, SameTask, TaskRecord
  <2> QED BY <1>3, <2>1, NothingDelivers DEF RegisterPlan, SameJob
<1>4. ASSUME NEW caller, Start(t, caller) PROVE Delivery' /\ ClosedJobStep
  <2> DEFINE r == [task[t] EXCEPT !.phase = "EXECUTING", !.started = TRUE]
             jb == [job EXCEPT ![TaskJob[t]].started = TRUE]
             i == job[TaskJob[t]].issue
  <2>1. r \in TaskRecord /\ r.status = task[t].status
    BY DEF TaskRecord
  <2>2. /\ jb \in [Jobs -> JobRecord] /\ jb[TaskJob[t]].started
        /\ \A j \in Jobs : /\ j # TaskJob[t] => jb[j] = job[j]
                           /\ jb[j].status = job[j].status
                           /\ jb[j].archived = job[j].archived /\ jb[j].issue = job[j].issue
                           /\ jb[j].followup = job[j].followup
                           /\ jb[j].rejected = job[j].rejected
                           /\ job[j].started => jb[j].started
    BY DEF JobRecord
  <2>3. /\ StoreTask(t, r, jb) /\ TaskOpen(t) /\ task[t].status = "IN_PROGRESS"
        /\ issue' = Activate(i) /\ (i # None => Writable(i)) /\ i \in Issues \cup {None}
    BY <1>4 DEF Start, ActiveLease, IssueWritable, JobRecord
  <2> HIDE DEF r, jb, i
  <2>4. Storable(t, r, jb)
    BY <2>1, <2>2, <2>3 DEF Storable, TaskStatus
  <2>5. /\ \A j \in Jobs : JobSound(j)' /\ job'[j].issue = job[j].issue
        /\ Opens /\ ClosedJobStep
    BY <2>1, <2>2, <2>3, <2>4, StoreTaskDelivers
  <2>6. ASSUME NEW u \in Tasks, task'[u].phase = "EXECUTING", job'[TaskJob[u]].issue # None
        PROVE  /\ issue'[job'[TaskJob[u]].issue].status = "ACTIVE"
               /\ ~issue'[job'[TaskJob[u]].issue].archived
    <3>1. PICK m \in Jobs : m = TaskJob[u]
      BY ParentsTyped
    <3>2. PICK n \in Issues : n = job[m].issue /\ n = job'[TaskJob[u]].issue
      BY <2>5, <2>6, <3>1 DEF TypeOK, JobRecord
    <3>3. CASE u = t
      <4>1. Writable(n) /\ issue' = Activate(n) /\ n # None
        BY <2>3, <2>6, <3>1, <3>2, <3>3 DEF i
      <4> QED BY <3>2, <4>1 DEF Writable, Activate, TypeOK, IssueRecord
    <3>4. CASE u # t
      <4>1. task[u].phase = "EXECUTING"
        BY <2>3, <2>6, <3>4 DEF StoreTask
      <4>2. issue[n].status = "ACTIVE" /\ ~issue[n].archived
        BY <2>6, <3>1, <3>2, <4>1 DEF Delivery, ExecutingUnderActiveIssue
      <4> QED BY <2>3, <3>2, <4>2, ActivateKeeps
    <3> QED BY <3>3, <3>4
  <2>7. ExecutingUnderActiveIssue'
    BY <2>6 DEF ExecutingUnderActiveIssue
  <2> QED BY <2>5, <2>7, DeliveryParts
<1>5. ASSUME NEW caller, Heartbeat(t, caller) PROVE Delivery' /\ ClosedJobStep
  <2>1. Storable(t, task[t], job)
    BY <1>5 DEF Heartbeat, Storable, TaskOpen, Exists, TaskRecord, Gone
  <2> QED BY <1>5, <2>1, StoreTaskKeeps DEF Heartbeat
<1>6. ASSUME NEW d \in Tasks, NEW caller, Depend(t, d, caller) \/ Undepend(t, d, caller)
      PROVE  Delivery' /\ ClosedJobStep
  <2>1. PICK S \in SUBSET Tasks : StoreTask(t, [task[t] EXCEPT !.deps = S], job)
                                 /\ TaskOpen(t) /\ issue' = issue
    <3>1. task[t].deps \cup {d} \in SUBSET Tasks /\ task[t].deps \ {d} \in SUBSET Tasks
      BY DEF TaskRecord
    <3> QED BY <1>6, <3>1 DEF Depend, Undepend
  <2> DEFINE r == [task[t] EXCEPT !.deps = S]
  <2>2. r \in TaskRecord /\ r.status = task[t].status /\ r.phase = task[t].phase
    BY DEF TaskRecord
  <2> HIDE DEF r
  <2>3. Storable(t, r, job)
    BY <2>1, <2>2 DEF Storable, TaskOpen, Exists, TaskRecord, Gone
  <2>4. StoreTask(t, r, job)
    BY <2>1 DEF r
  <2> QED BY <2>1, <2>2, <2>3, <2>4, StoreTaskKeeps
<1>7. ASSUME NEW from \in SUBSET Terminal, NEW caller, Reopen(t, from, caller)
      PROVE  Delivery' /\ ClosedJobStep
  <2> DEFINE r == [task[t] EXCEPT !.status = "TODO", !.phase = None, !.systemBlock = FALSE]
             jb == [job EXCEPT ![TaskJob[t]].status = "ACTIVE"]
  <2>1. r \in TaskRecord /\ r.status = "TODO" /\ r.phase = None
    BY DEF TaskRecord, TaskStatus
  <2>2. /\ jb \in [Jobs -> JobRecord] /\ jb[TaskJob[t]].status = "ACTIVE"
        /\ \A j \in Jobs : /\ j # TaskJob[t] => jb[j] = job[j]
                           /\ jb[j].archived = job[j].archived /\ jb[j].issue = job[j].issue
                           /\ jb[j].followup = job[j].followup
                           /\ jb[j].rejected = job[j].rejected
                           /\ job[j].started => jb[j].started
    BY DEF JobRecord, JobStatus
  <2>3. StoreTask(t, r, jb) /\ TaskOpen(t) /\ task[t].status \in Terminal /\ issue' = issue
    BY <1>7 DEF Reopen
  <2> HIDE DEF r, jb
  <2>4. Storable(t, r, jb)
    BY <2>1, <2>2, <2>3 DEF Storable, TaskStatus
  <2> QED BY <2>1, <2>2, <2>3, <2>4, StoreTaskKeeps
<1>8. ASSUME NEW to \in TaskStatus, NEW policy \in Policies \cup {Keep}, Leave(t, to, policy),
             TaskOpen(t), task[t].status \notin Terminal
      PROVE  Delivery' /\ ClosedJobStep
  <2>1. Left(t, to) \in TaskRecord /\ WithPolicy(TaskJob[t], policy) \in [Jobs -> JobRecord]
    BY RecordsTyped, JobsTyped
  <2>2. Left(t, to).status = to /\ Left(t, to).phase = None
    BY DEF Left, TaskRecord
  <2>3. \A j \in Jobs : LET jb == WithPolicy(TaskJob[t], policy)
                        IN  /\ j # TaskJob[t] => jb[j] = job[j]
                            /\ jb[j].archived = job[j].archived /\ jb[j].issue = job[j].issue
                            /\ jb[j].followup = job[j].followup
                            /\ jb[j].rejected = job[j].rejected
                            /\ jb[j].status = job[j].status
                            /\ job[j].started => jb[j].started
    BY DEF WithPolicy, JobRecord
  <2>4. Storable(t, Left(t, to), WithPolicy(TaskJob[t], policy))
    BY <1>8, <2>2, <2>3 DEF Storable
  <2> QED BY <1>8, <2>1, <2>2, <2>4, StoreTaskKeeps DEF Leave
<1>9. ASSUME NEW to \in TaskStatus, NEW policy \in Policies \cup {Keep}, NEW caller,
             SetAside(t, to, caller, policy)
      PROVE  Delivery' /\ ClosedJobStep
  <2>1. task[t].status \notin Terminal
    BY <1>9 DEF SetAside, Allows, Terminal
  <2> QED BY <1>8, <1>9, <2>1 DEF SetAside
<1>10. ASSUME NEW policy \in Policies \cup {Keep}, NEW caller,
              Done(t, caller, policy) \/ DoneByHuman(t, policy)
       PROVE  Delivery' /\ ClosedJobStep
  BY <1>8, <1>10 DEF Done, DoneByHuman, ActiveLease, TaskStatus, Terminal
<1> QED
  BY <1>1, <1>2, <1>3, <1>4, <1>5, <1>6, <1>7, <1>9, <1>10
     DEF TaskCommand, TaskStatus, Terminal

----------------------------------------------------------------------------
\* An executing Task is there and unfinished.
LEMMA ExecutingUnfinished ==
    ASSUME Ownership, NEW t \in Tasks, task[t].phase = "EXECUTING"
    PROVE  Exists(t) /\ task[t].status \notin Terminal
BY NoneIsNobody DEF Ownership, LeaseMatches, Exists, Gone, Terminal

\* The Job a command stores, before the Issue it names is linked.
JobStorable(j, jb) ==
    /\ project[JobProject[j]] = "OPEN"
    /\ jb.status \notin Gone
    /\ jb.status = "PENDING_REVIEW" => Ready(task, j)
    /\ jb.status \in Closed => \A t \in TasksOf({j}) : task[t].status \in Terminal
    /\ jb.archived => jb.status \in Closed
    /\ (jb.status = "ACTIVE" /\ Ready(task, j))
          => jb.rejected \/ TasksOf({j}) = jb.followup
    /\ \A t \in Tasks : TaskJob[t] = j /\ task[t].phase = "EXECUTING" => jb.started
    /\ jb.issue = job[j].issue \/ jb.issue = None
    /\ job[j].status \in Closed => jb.status = job[j].status

\* The end of create, update and followup keeps delivery: linking an Issue to a
\* Job at work makes the Issue ACTIVE.
LEMMA StoreJobDelivers ==
    ASSUME TypeOK, Ownership, Delivery, NEW j \in Jobs, NEW jb \in JobRecord,
           NEW link \in Issues \cup {None, Keep}, StoreJob(j, jb, link), JobStorable(j, jb)
    PROVE  Delivery' /\ ClosedJobStep
<1> JobSound(j) /\ job[j] \in JobRecord
  BY DEF Delivery, TypeOK
<1> DEFINE new == Associated(jb, link)
<1>1. /\ new.status = jb.status /\ new.archived = jb.archived /\ new.rejected = jb.rejected
      /\ new.followup = jb.followup /\ new.started = jb.started
      /\ new.issue = IF link = Keep THEN jb.issue ELSE link
  BY DEF Associated, JobRecord
<1> HIDE DEF new
<1>2. /\ job' = [job EXCEPT ![j] = new] /\ UNCHANGED <<project, task, lease>>
      /\ issue' = AssociatedIssues(jb, link) /\ Associable(jb, j, link)
  BY DEF StoreJob, new
<1>3. job'[j] = new /\ \A k \in Jobs \ {j} : job'[k] = job[k]
  BY <1>2 DEF TypeOK
<1>4. TasksOf({j})' = TasksOf({j})
  BY <1>2 DEF TasksOf, Exists
<1>5. DeliverySound(j)'
  BY <1>1, <1>2, <1>3, <1>4 DEF DeliverySound, JobStorable
<1>6. JobSound(j)'
  <2>1. new.issue # None => IssueProject[new.issue] = JobProject[j]
    <3>1. link \in Issues => IssueProject[link] = JobProject[j]
      BY <1>2 DEF Associable
    <3>2. link \notin Issues => link = None \/ link = Keep
      OBVIOUS
    <3>3. jb.issue # None => jb.issue = job[j].issue
      BY DEF JobStorable
    <3> QED BY <1>1, <3>1, <3>2, <3>3, NoneIsNobody DEF JobSound
  <2> QED BY <1>1, <1>2, <1>3, <1>4, <1>5, <2>1 DEF JobSound, JobStorable
<1>7. \A k \in Jobs : JobSound(k)'
  <2> TAKE k \in Jobs
  <2>1. CASE k # j
    <3>1. SameJob(k) /\ \A t \in Tasks : SameTask(t)
      BY <1>2, <1>3, <2>1 DEF SameJob, SameTask
    <3> QED BY <3>1, SameKeeps DEF Delivery
  <2> QED BY <1>6, <2>1
<1>8. issue' = issue \/ \E i : issue' = Activate(i)
  BY <1>2 DEF AssociatedIssues
<1>9. Opens /\ ClosedJobStep
  <2>1. \A i \in Issues : issue[i].status \in Over => issue'[i].status \in Over
    BY <1>8, ActivateKeeps
  <2> QED BY <1>1, <1>2, <1>3, <2>1 DEF Opens, ClosedJobStep, JobStorable
<1>10. ASSUME NEW t \in Tasks, task'[t].phase = "EXECUTING", job'[TaskJob[t]].issue # None
       PROVE  /\ issue'[job'[TaskJob[t]].issue].status = "ACTIVE"
              /\ ~issue'[job'[TaskJob[t]].issue].archived
  <2>1. PICK k \in Jobs : k = TaskJob[t]
    BY ParentsTyped
  <2>2. task[t].phase = "EXECUTING"
    BY <1>2, <1>10
  <2>3. CASE job'[k].issue = job[k].issue
    <3>1. PICK n \in Issues : n = job[k].issue
      BY <1>10, <2>1, <2>3 DEF TypeOK, JobRecord
    <3>2. issue[n].status = "ACTIVE" /\ ~issue[n].archived
      BY <1>10, <2>1, <2>2, <2>3, <3>1 DEF Delivery, ExecutingUnderActiveIssue
    <3> QED BY <1>8, <2>1, <2>3, <3>1, <3>2, ActivateKeeps
  <2>4. CASE job'[k].issue # job[k].issue
    <3>1. k = j /\ link \in Issues /\ job'[k].issue = link
      BY <1>1, <1>3, <1>10, <2>1, <2>4 DEF JobStorable
    <3>2. jb.started
      BY <2>1, <2>2, <3>1 DEF JobStorable
    <3>3. jb.status \notin Closed
      <4>1. t \in TasksOf({j}) /\ task[t].status \notin Terminal
        BY <2>1, <2>2, <3>1, ExecutingUnfinished DEF TasksOf
      <4> QED BY <4>1 DEF JobStorable
    <3>4. issue' = Activate(link) /\ Writable(link)
      BY <1>2, <3>1, <3>2, <3>3 DEF AssociatedIssues, Associable
    <3> QED BY <2>1, <3>1, <3>4, NoneIsNobody DEF Writable, Activate, TypeOK, IssueRecord
  <2> QED BY <2>3, <2>4
<1>11. ExecutingUnderActiveIssue'
  BY <1>10 DEF ExecutingUnderActiveIssue
<1> QED BY <1>7, <1>9, <1>11, DeliveryParts

\* Closing Jobs with their unfinished Tasks leaves every Job sound.
LEMMA FinishTasksDelivers ==
    ASSUME TypeOK, Delivery, NEW js \in SUBSET Jobs, NEW to \in Terminal,
           FinishTasks(js, to),
           \A k \in js : job[k].status \in {"ACTIVE", "PENDING_REVIEW"},
           \A k \in Jobs : \/ k \notin js /\ job'[k] = job[k]
                           \/ /\ k \in js /\ job'[k].status \in Closed
                              /\ job'[k].issue = job[k].issue
                              /\ job[k].started => job'[k].started
    PROVE  /\ \A k \in Jobs : JobSound(k)'
           /\ ClosedJobStep
           /\ \A t \in Tasks : task'[t].phase = "EXECUTING" =>
                 /\ task[t].phase = "EXECUTING"
                 /\ TaskJob[t] \in js => task[t].status \in Terminal \/ ~Exists(t)
                 /\ job'[TaskJob[t]].issue = job[TaskJob[t]].issue
<1> None # "EXECUTING" /\ task \in [Tasks -> TaskRecord]
  BY NoneIsNobody DEF TypeOK
<1>1. \A t \in Tasks : \/ task'[t] = task[t] /\ (t \in TasksOf(js) => task[t].status \in Terminal)
                       \/ /\ t \in TasksOf(js) /\ task[t].status \notin Terminal
                          /\ task'[t].status = to /\ task'[t].phase = None
  <2> TAKE t \in Tasks
  <2>1. Left(t, to).status = to /\ Left(t, to).phase = None
    BY DEF Left, TaskRecord
  <2> QED BY <2>1 DEF FinishTasks
<1>2. \A t \in Tasks : Exists(t)' <=> Exists(t)
  BY <1>1 DEF Exists, TasksOf, Gone, Terminal
<1>3. \A k \in Jobs : TasksOf({k})' = TasksOf({k})
  BY <1>2 DEF TasksOf
<1>4. \A k \in js : JobSound(k)'
  <2> TAKE k \in js
  <2> k \in Jobs /\ JobSound(k) /\ job[k] \in JobRecord
    BY DEF Delivery, TypeOK
  <2>1. /\ job'[k].status \in Closed /\ job'[k].issue = job[k].issue
        /\ (job[k].started => job'[k].started)
    OBVIOUS
  <2>2. \A t \in TasksOf({k}) : task'[t].status \in Terminal
    BY <1>1 DEF TasksOf
  <2>3. DeliverySound(k)'
    BY <1>3, <2>1, <2>2 DEF DeliverySound, Closed
  <2>4. \A t \in Tasks : TaskJob[t] = k /\ task'[t].phase = "EXECUTING" => job'[k].started
    BY <1>1, <2>1 DEF JobSound
  <2> QED BY <2>1, <2>3, <2>4 DEF JobSound, Closed, Gone
<1>5. \A k \in Jobs \ js : JobSound(k)'
  <2> TAKE k \in Jobs \ js
  <2>1. SameJob(k) /\ \A t \in Tasks : TaskJob[t] = k => SameTask(t)
    BY <1>1 DEF SameJob, SameTask, TasksOf
  <2> QED BY <2>1, SameKeeps DEF Delivery
<1>6. ClosedJobStep
  BY DEF ClosedJobStep, Closed
<1>7. \A t \in Tasks : task'[t].phase = "EXECUTING" =>
         /\ task[t].phase = "EXECUTING"
         /\ TaskJob[t] \in js => task[t].status \in Terminal \/ ~Exists(t)
         /\ job'[TaskJob[t]].issue = job[TaskJob[t]].issue
  BY <1>1, ParentsTyped DEF TasksOf
<1> QED BY <1>4, <1>5, <1>6, <1>7

\* Deleting Jobs with their Tasks leaves the others sound.
LEMMA RemoveTasksDelivers ==
    ASSUME TypeOK, Ownership, Delivery, NEW js \in SUBSET Jobs, RemoveTasks(js),
           \A k \in Jobs : job'[k] = IF k \in js THEN [NewJob EXCEPT !.status = "DELETED"]
                                     ELSE job[k]
    PROVE  /\ \A k \in Jobs : JobSound(k)'
           /\ ClosedJobStep
           /\ \A t \in Tasks : task'[t].phase = "EXECUTING" =>
                 /\ task[t].phase = "EXECUTING"
                 /\ TaskJob[t] \notin js /\ Exists(t)
                 /\ job'[TaskJob[t]].issue = job[TaskJob[t]].issue
<1> DEFINE gone == [NewTask EXCEPT !.status = "DELETED"]
           goneJob == [NewJob EXCEPT !.status = "DELETED"]
<1>1. gone.status = "DELETED" /\ gone.phase = None
  BY DEF NewTask
<1>2. goneJob.status = "DELETED" /\ goneJob.archived = FALSE /\ goneJob.issue = None
  BY DEF NewJob
<1>3. /\ \A t \in Tasks : task'[t] = IF t \in TasksOf(js) THEN gone ELSE task[t]
      /\ \A k \in Jobs : job'[k] = IF k \in js THEN goneJob ELSE job[k]
  BY DEF RemoveTasks
<1> HIDE DEF gone, goneJob
<1> None # "EXECUTING"
  BY NoneIsNobody
<1>4. \A t \in Tasks : task'[t].phase = "EXECUTING" =>
         /\ task[t].phase = "EXECUTING" /\ Exists(t)
         /\ TaskJob[t] \notin js
         /\ job'[TaskJob[t]].issue = job[TaskJob[t]].issue
  <2> SUFFICES ASSUME NEW t \in Tasks, task'[t].phase = "EXECUTING"
               PROVE  /\ task[t].phase = "EXECUTING" /\ Exists(t)
                      /\ TaskJob[t] \notin js
                      /\ job'[TaskJob[t]].issue = job[TaskJob[t]].issue
    OBVIOUS
  <2>1. task[t].phase = "EXECUTING" /\ t \notin TasksOf(js)
    BY <1>1, <1>3
  <2>2. Exists(t)
    BY <2>1, ExecutingUnfinished
  <2> QED BY <1>3, <2>1, <2>2, ParentsTyped DEF TasksOf
<1>5. \A k \in js : JobSound(k)'
  <2> TAKE k \in js
  <2>1. job'[k] = goneJob
    BY <1>3
  <2>2. TasksOf({k})' = {}
    BY <1>1, <1>3 DEF TasksOf, Exists, Gone
  <2>3. \A t \in Tasks : TaskJob[t] = k => task'[t].phase # "EXECUTING"
    BY <1>4
  <2>4. DeliverySound(k)'
    BY <1>2, <2>1 DEF DeliverySound, Closed
  <2> QED BY <1>2, <2>1, <2>2, <2>3, <2>4 DEF JobSound
<1>6. \A k \in Jobs \ js : JobSound(k)'
  <2> TAKE k \in Jobs \ js
  <2>1. SameJob(k) /\ \A t \in Tasks : TaskJob[t] = k => SameTask(t)
    BY <1>3 DEF SameJob, SameTask, TasksOf
  <2> QED BY <2>1, SameKeeps DEF Delivery
<1>7. ClosedJobStep
  BY <1>2, <1>3 DEF ClosedJobStep
<1> QED BY <1>4, <1>5, <1>6, <1>7

\* Job commands keep delivery.
LEMMA JobCommandDelivers ==
    ASSUME TypeOK, Ownership, Delivery, NEW j \in Jobs, JobCommand(j)
    PROVE  Delivery' /\ ClosedJobStep
<1> /\ job \in [Jobs -> JobRecord] /\ job[j] \in JobRecord /\ JobSound(j)
    /\ DeliverySound(j)
  BY DEF TypeOK, Delivery, JobSound
<1>1. ASSUME NEW policy \in Policies, NEW link \in Issues \cup {None, Keep},
             CreateJob(j, policy, link)
      PROVE  Delivery' /\ ClosedJobStep
  <2> DEFINE jb == [NewJob EXCEPT !.policy = policy]
  <2>1. jb \in JobRecord /\ jb.status = "ACTIVE" /\ ~jb.archived /\ jb.issue = None
    BY PoliciesTyped, RecordsTyped DEF NewJob, JobRecord
  <2>2. project[JobProject[j]] = "OPEN" /\ job[j].status = "ABSENT" /\ StoreJob(j, jb, link)
    BY <1>1 DEF CreateJob
  <2>3. TasksOf({j}) = {}
    BY <2>2 DEF JobSound, Gone
  <2>4. /\ ~Ready(task, j)
        /\ \A t \in Tasks : TaskJob[t] = j => task[t].phase # "EXECUTING"
    BY <2>3, ExecutingUnfinished DEF Ready, TasksOf, Exists
  <2> HIDE DEF jb
  <2>5. JobStorable(j, jb)
    BY <2>1, <2>2, <2>4 DEF JobStorable, Closed, Gone
  <2> QED BY <2>1, <2>2, <2>5, StoreJobDelivers
<1>2. ASSUME NEW policy \in Policies, NEW link \in Issues \cup {None, Keep},
             UpdateJob(j, policy, link)
      PROVE  Delivery' /\ ClosedJobStep
  <2> DEFINE jb == [job[j] EXCEPT !.policy = policy]
  <2>1. /\ jb \in JobRecord /\ jb.status = job[j].status /\ jb.archived = job[j].archived
        /\ jb.rejected = job[j].rejected /\ jb.followup = job[j].followup
        /\ jb.started = job[j].started /\ jb.issue = job[j].issue
    BY PoliciesTyped DEF JobRecord
  <2>2. project[JobProject[j]] = "OPEN" /\ job[j].status \notin Gone /\ StoreJob(j, jb, link)
    BY <1>2 DEF UpdateJob, JobOpen, JobExists
  <2> HIDE DEF jb
  <2>3. JobStorable(j, jb)
    BY <2>1, <2>2 DEF JobStorable, JobSound, DeliverySound
  <2> QED BY <2>1, <2>2, <2>3, StoreJobDelivers
<1>3. ASSUME NEW link \in Issues \cup {None, Keep}, FollowupJob(j, link)
      PROVE  Delivery' /\ ClosedJobStep
  <2> DEFINE jb == [job[j] EXCEPT !.status = "ACTIVE", !.rejected = FALSE,
                                  !.followup = TasksOf({j})]
  <2>1. /\ jb \in JobRecord /\ jb.status = "ACTIVE" /\ jb.archived = job[j].archived
        /\ jb.followup = TasksOf({j})
        /\ jb.started = job[j].started /\ jb.issue = job[j].issue
    BY DEF JobRecord, JobStatus, TasksOf
  <2>2. /\ project[JobProject[j]] = "OPEN" /\ ~job[j].archived
        /\ job[j].status = "PENDING_REVIEW" /\ StoreJob(j, jb, link)
    BY <1>3 DEF FollowupJob, JobOpen
  <2> HIDE DEF jb
  <2>3. JobStorable(j, jb)
    BY <2>1, <2>2 DEF JobStorable, JobSound, Closed, Gone
  <2> QED BY <2>1, <2>2, <2>3, StoreJobDelivers
<1>4. ASSUME NEW jb \in JobRecord, job' = [job EXCEPT ![j] = jb], JobStorable(j, jb),
             UNCHANGED <<project, issue, task, lease>>
      PROVE  Delivery' /\ ClosedJobStep
  <2>1. \A k \in Jobs \ {j} : SameJob(k)
    BY <1>4 DEF SameJob
  <2>2. (\A t \in Tasks : SameTask(t)) /\ TasksOf({j})' = TasksOf({j})
    BY <1>4 DEF SameTask, TasksOf, Exists
  <2>3. DeliverySound(j)'
    BY <1>4, <2>2 DEF DeliverySound, JobStorable
  <2>4. JobSound(j)'
    BY <1>4, <2>2, <2>3 DEF JobSound, JobStorable
  <2>5. \A k \in Jobs : JobSound(k)'
    BY <2>1, <2>2, <2>4, SameKeeps DEF Delivery
  <2>6. Opens /\ ClosedJobStep
    BY <1>4 DEF Opens, ClosedJobStep, JobStorable
  <2>7. ASSUME NEW t \in Tasks, task'[t].phase = "EXECUTING", job'[TaskJob[t]].issue # None
        PROVE  /\ issue'[job'[TaskJob[t]].issue].status = "ACTIVE"
               /\ ~issue'[job'[TaskJob[t]].issue].archived
    <3>1. job'[TaskJob[t]].issue = job[TaskJob[t]].issue
      BY <1>4, <2>7, ParentsTyped DEF JobStorable
    <3> QED BY <1>4, <2>7, <3>1 DEF Delivery, ExecutingUnderActiveIssue
  <2>8. ExecutingUnderActiveIssue'
    BY <2>7 DEF ExecutingUnderActiveIssue
  <2> QED BY <2>5, <2>6, <2>8, DeliveryParts
<1>5. Ready(task, j) => \A t \in TasksOf({j}) : task[t].status \in Terminal
  BY DEF Ready, TasksOf, Terminal, Exists
<1>6. CASE ArchiveJob(j)
  <2> DEFINE jb == [job[j] EXCEPT !.archived = TRUE]
  <2>1. /\ jb \in JobRecord /\ jb.status = job[j].status /\ jb.started = job[j].started
        /\ jb.issue = job[j].issue
    BY DEF JobRecord
  <2>2. /\ project[JobProject[j]] = "OPEN" /\ job[j].status \in Closed
        /\ job' = [job EXCEPT ![j] = jb] /\ UNCHANGED <<project, issue, task, lease>>
    BY <1>6 DEF ArchiveJob, JobOpen
  <2> HIDE DEF jb
  <2>3. JobStorable(j, jb)
    BY <2>1, <2>2 DEF JobStorable, JobSound, DeliverySound, Closed, Gone
  <2> QED BY <1>4, <2>1, <2>2, <2>3
<1>7. CASE UnarchiveJob(j)
  <2> DEFINE jb == [job[j] EXCEPT !.archived = FALSE]
  <2>1. /\ jb \in JobRecord /\ jb.status = job[j].status /\ jb.started = job[j].started
        /\ jb.issue = job[j].issue /\ ~jb.archived /\ jb.rejected = job[j].rejected
        /\ jb.followup = job[j].followup
    BY DEF JobRecord
  <2>2. /\ project[JobProject[j]] = "OPEN" /\ job[j].status \notin Gone
        /\ job' = [job EXCEPT ![j] = jb] /\ UNCHANGED <<project, issue, task, lease>>
    BY <1>7 DEF UnarchiveJob, JobOpen, JobExists
  <2> HIDE DEF jb
  <2>3. JobStorable(j, jb)
    BY <2>1, <2>2 DEF JobStorable, JobSound, DeliverySound
  <2> QED BY <1>4, <2>1, <2>2, <2>3
<1>8. ASSUME NEW policy \in Policies \cup {Keep}, SubmitJob(j, policy)
      PROVE  Delivery' /\ ClosedJobStep
  <2>1. PICK chosen \in {"required", "none"} :
           job' = [job EXCEPT ![j] = [job[j] EXCEPT !.policy = chosen,
                                        !.status = ReadyStatus(chosen), !.rejected = FALSE]]
    <3>1. job[j].policy \in {"required", "none"} /\ (policy # Keep => policy \in {"required", "none"})
      BY PoliciesTyped DEF JobRecord
    <3> QED BY <1>8, <3>1 DEF SubmitJob
  <2> DEFINE to == ReadyStatus(chosen)
             jb == [job[j] EXCEPT !.policy = chosen, !.status = to, !.rejected = FALSE]
  <2>2. to \in {"PENDING_REVIEW", "COMPLETED"}
    BY DEF ReadyStatus
  <2> HIDE DEF to
  <2>3. /\ jb \in JobRecord /\ jb.status = to /\ jb.started = job[j].started
        /\ jb.issue = job[j].issue /\ jb.archived = job[j].archived
    BY <2>2 DEF JobRecord, JobStatus
  <2>4. /\ project[JobProject[j]] = "OPEN" /\ ~job[j].archived /\ job[j].status = "ACTIVE"
        /\ Ready(task, j) /\ UNCHANGED <<project, issue, task, lease>>
    BY <1>8 DEF SubmitJob, JobOpen
  <2>5. job' = [job EXCEPT ![j] = jb]
    BY <2>1 DEF to
  <2> HIDE DEF jb
  <2>6. JobStorable(j, jb)
    BY <1>5, <2>2, <2>3, <2>4 DEF JobStorable, JobSound, Closed, Gone
  <2> QED BY <1>4, <2>3, <2>4, <2>5, <2>6
<1>9. CASE ApproveJob(j)
  <2> DEFINE jb == [job[j] EXCEPT !.status = "COMPLETED", !.rejected = FALSE]
  <2>1. /\ jb \in JobRecord /\ jb.status = "COMPLETED" /\ jb.started = job[j].started
        /\ jb.issue = job[j].issue /\ jb.archived = job[j].archived
    BY DEF JobRecord, JobStatus
  <2>2. /\ project[JobProject[j]] = "OPEN" /\ job[j].status \in {"ACTIVE", "PENDING_REVIEW"}
        /\ \A t \in TasksOf({j}) : task[t].status \in Terminal
        /\ job' = [job EXCEPT ![j] = jb] /\ UNCHANGED <<project, issue, task, lease>>
    BY <1>5, <1>9 DEF ApproveJob, JobOpen
  <2> HIDE DEF jb
  <2>3. JobStorable(j, jb)
    BY <2>1, <2>2 DEF JobStorable, JobSound, Closed, Gone
  <2> QED BY <1>4, <2>1, <2>2, <2>3
<1>10. CASE RejectJob(j)
  <2> DEFINE jb == [job[j] EXCEPT !.status = "ACTIVE", !.rejected = TRUE]
  <2>1. /\ jb \in JobRecord /\ jb.status = "ACTIVE" /\ jb.started = job[j].started
        /\ jb.issue = job[j].issue /\ jb.archived = job[j].archived /\ jb.rejected
    BY DEF JobRecord, JobStatus
  <2>2. /\ project[JobProject[j]] = "OPEN" /\ job[j].status = "PENDING_REVIEW"
        /\ ~job[j].archived
        /\ job' = [job EXCEPT ![j] = jb] /\ UNCHANGED <<project, issue, task, lease>>
    BY <1>10 DEF RejectJob, JobOpen
  <2> HIDE DEF jb
  <2>3. JobStorable(j, jb)
    BY <2>1, <2>2 DEF JobStorable, JobSound, Closed, Gone
  <2> QED BY <1>4, <2>1, <2>2, <2>3
<1>11. CASE CancelJob(j) \/ ApproveJobByHuman(j)
  <2>1. PICK to \in Terminal, jb \in JobRecord :
           /\ FinishTasks({j}, to) /\ job' = [job EXCEPT ![j] = jb]
           /\ jb.status \in Closed /\ jb.issue = job[j].issue /\ jb.started = job[j].started
    <3>1. /\ [job[j] EXCEPT !.status = "CANCELLED"] \in JobRecord
          /\ [job[j] EXCEPT !.status = "COMPLETED", !.rejected = FALSE] \in JobRecord
      BY DEF JobRecord, JobStatus
    <3>2. CASE CancelJob(j)
      <4> DEFINE jb == [job[j] EXCEPT !.status = "CANCELLED"]
      <4>1. jb.status = "CANCELLED" /\ jb.issue = job[j].issue /\ jb.started = job[j].started
        BY DEF JobRecord
      <4>2. FinishTasks({j}, "CANCELLED") /\ job' = [job EXCEPT ![j] = jb]
        BY <3>2 DEF CancelJob
      <4> QED BY <3>1, <4>1, <4>2 DEF Closed, Terminal
    <3>3. CASE ApproveJobByHuman(j)
      <4> DEFINE jb == [job[j] EXCEPT !.status = "COMPLETED", !.rejected = FALSE]
      <4>1. jb.status = "COMPLETED" /\ jb.issue = job[j].issue /\ jb.started = job[j].started
        BY DEF JobRecord
      <4>2. FinishTasks({j}, "DONE") /\ job' = [job EXCEPT ![j] = jb]
        BY <3>3 DEF ApproveJobByHuman
      <4> QED BY <3>1, <4>1, <4>2 DEF Closed, Terminal
    <3> QED BY <1>11, <3>2, <3>3
  <2>2. /\ job[j].status \in {"ACTIVE", "PENDING_REVIEW"}
        /\ UNCHANGED <<project, issue>>
    BY <1>11 DEF CancelJob, ApproveJobByHuman, JobOpen, JobExists, JobRecord, JobStatus,
                 Closed, Gone
  <2>3. \A k \in Jobs : \/ k \notin {j} /\ job'[k] = job[k]
                        \/ /\ k \in {j} /\ job'[k].status \in Closed
                           /\ job'[k].issue = job[k].issue
                           /\ job[k].started => job'[k].started
    BY <2>1
  <2>4. /\ \A k \in Jobs : JobSound(k)'
        /\ ClosedJobStep
        /\ \A t \in Tasks : task'[t].phase = "EXECUTING" =>
              /\ task[t].phase = "EXECUTING"
              /\ job'[TaskJob[t]].issue = job[TaskJob[t]].issue
    <3>1. {j} \in SUBSET Jobs /\ \A k \in {j} : job[k].status \in {"ACTIVE", "PENDING_REVIEW"}
      BY <2>2
    <3>2. FinishTasks({j}, to)
      BY <2>1
    <3> QED BY <2>3, <3>1, <3>2, FinishTasksDelivers
  <2>5. Opens
    BY <2>2, <2>3 DEF Opens, Over
  <2>6. ExecutingUnderActiveIssue'
    BY <2>2, <2>4, ExecutingKeeps
  <2> QED BY <2>4, <2>5, <2>6, DeliveryParts
<1>12. CASE DeleteJob(j)
  <2>1. /\ RemoveTasks({j}) /\ UNCHANGED <<project, issue>>
        /\ \A k \in Jobs : job'[k] = IF k \in {j} THEN [NewJob EXCEPT !.status = "DELETED"]
                                     ELSE job[k]
    BY <1>12 DEF DeleteJob
  <2>2. /\ \A k \in Jobs : JobSound(k)'
        /\ ClosedJobStep
        /\ \A t \in Tasks : task'[t].phase = "EXECUTING" =>
              /\ task[t].phase = "EXECUTING"
              /\ job'[TaskJob[t]].issue = job[TaskJob[t]].issue
    BY <2>1, RemoveTasksDelivers
  <2>3. [NewJob EXCEPT !.status = "DELETED"].status = "DELETED"
    BY DEF NewJob
  <2>4. Opens
    BY <2>1, <2>3 DEF Opens, Over, Gone
  <2>5. ExecutingUnderActiveIssue'
    BY <2>1, <2>2, ExecutingKeeps
  <2> QED BY <2>2, <2>4, <2>5, DeliveryParts
<1> QED BY <1>1, <1>2, <1>3, <1>6, <1>7, <1>8, <1>9, <1>10, <1>11, <1>12 DEF JobCommand

\* Issue commands keep delivery: an Issue with executing work leaves ACTIVE only
\* when its Jobs are closed, or with their Tasks cancelled.
LEMMA IssueCommandDelivers ==
    ASSUME TypeOK, Ownership, Delivery, NEW i \in Issues, IssueCommand(i)
    PROVE  Delivery' /\ ClosedJobStep
<1> issue \in [Issues -> IssueRecord] /\ issue[i] \in IssueRecord
  BY DEF TypeOK
<1>1. ASSUME JobsClosed(i), NEW t \in Tasks, task[t].phase = "EXECUTING"
      PROVE  job[TaskJob[t]].issue # i
  <2>1. PICK k \in Jobs : k = TaskJob[t]
    BY ParentsTyped
  <2>2. t \in TasksOf({k}) /\ task[t].status \notin Terminal
    BY <1>1, <2>1, ExecutingUnfinished DEF TasksOf
  <2>3. job[k].status \notin Gone /\ job[k].status \notin Closed
    BY <2>2 DEF Delivery, JobSound, DeliverySound
  <2> QED BY <1>1, <2>1, <2>3 DEF JobsClosed, JobExists
<1>2. ASSUME NEW r \in IssueRecord, issue' = [issue EXCEPT ![i] = r],
             UNCHANGED <<project, job, task, lease>>,
             issue[i].status \in Over /\ r.status \notin Over => project[IssueProject[i]] = "OPEN",
             issue[i].status = "ACTIVE" /\ ~issue[i].archived
                => (r.status = "ACTIVE" /\ ~r.archived) \/ JobsClosed(i)
      PROVE  Delivery' /\ ClosedJobStep
  <2>1. (\A t \in Tasks : SameTask(t)) /\ \A k \in Jobs : SameJob(k)
    BY <1>2 DEF SameTask, SameJob
  <2>2. \A k \in Jobs : JobSound(k)'
    BY <2>1, SameKeeps DEF Delivery
  <2>3. Opens /\ ClosedJobStep
    BY <1>2 DEF Opens, ClosedJobStep
  <2>4. ASSUME NEW t \in Tasks, task[t].phase = "EXECUTING", job[TaskJob[t]].issue # None
        PROVE  /\ issue'[job[TaskJob[t]].issue].status = "ACTIVE"
               /\ ~issue'[job[TaskJob[t]].issue].archived
    <3>1. PICK n \in Issues : n = job[TaskJob[t]].issue
      BY <2>4, ParentsTyped DEF TypeOK, JobRecord
    <3>2. issue[n].status = "ACTIVE" /\ ~issue[n].archived
      BY <2>4, <3>1 DEF Delivery, ExecutingUnderActiveIssue
    <3>3. CASE n = i
      BY <1>1, <1>2, <2>4, <3>1, <3>2, <3>3
    <3>4. CASE n # i
      BY <1>2, <3>1, <3>2, <3>4
    <3> QED BY <3>3, <3>4
  <2>5. ExecutingUnderActiveIssue'
    BY <1>2, <2>4 DEF ExecutingUnderActiveIssue
  <2> QED BY <2>2, <2>3, <2>5, DeliveryParts
<1>3. ASSUME NEW status \in IssueStatus, SetIssue(i, status),
             issue[i].status \in Over => project[IssueProject[i]] = "OPEN",
             issue[i].status = "ACTIVE" => status = "ACTIVE" \/ JobsClosed(i)
      PROVE  Delivery' /\ ClosedJobStep
  <2> DEFINE r == [issue[i] EXCEPT !.status = status]
  <2>1. r \in IssueRecord /\ r.status = status /\ r.archived = issue[i].archived
    BY DEF IssueRecord
  <2>2. issue' = [issue EXCEPT ![i] = r] /\ UNCHANGED <<project, job, task, lease>>
    BY <1>3 DEF SetIssue
  <2> HIDE DEF r
  <2> QED BY <1>2, <1>3, <2>1, <2>2
<1>4. CASE CreateIssue(i)
  <2>1. NewIssue \in IssueRecord /\ issue[i].status = "ABSENT" /\ project[IssueProject[i]] = "OPEN"
    BY <1>4, RecordsTyped DEF CreateIssue
  <2> QED BY <1>2, <1>4, <2>1 DEF CreateIssue
<1>5. CASE UpdateIssueContent(i) \/ StartIssue(i) \/ RejectIssue(i)
  <2>1. issue[i].status \in IssueStatus
    BY <1>5 DEF UpdateIssueContent, StartIssue, RejectIssue, IssueOpen, IssueRecord
  <2> QED BY <1>3, <1>5, <2>1 DEF UpdateIssueContent, StartIssue, RejectIssue, IssueOpen, IssueStatus
<1>6. CASE SubmitIssue(i) \/ ApproveIssue(i) \/ ReopenIssue(i)
  BY <1>3, <1>6 DEF SubmitIssue, ApproveIssue, ReopenIssue, IssueOpen, IssueStatus, Closed
<1>7. ASSUME NEW archive \in BOOLEAN, ArchiveIssue(i, archive)
      PROVE  Delivery' /\ ClosedJobStep
  <2> DEFINE r == [issue[i] EXCEPT !.archived = archive]
  <2>1. r \in IssueRecord /\ r.status = issue[i].status
    BY DEF IssueRecord
  <2>2. issue' = [issue EXCEPT ![i] = r] /\ UNCHANGED <<project, job, task, lease>>
        /\ issue[i].status \in Closed
    BY <1>7 DEF ArchiveIssue
  <2> HIDE DEF r
  <2> QED BY <1>2, <2>1, <2>2 DEF Closed
<1>8. CASE CancelIssue(i)
  <2> DEFINE open == {j \in Jobs : /\ JobExists(j) /\ job[j].issue = i
                                   /\ job[j].status \notin Closed}
  <2>1. /\ FinishTasks(open, "CANCELLED")
        /\ job' = [j \in Jobs |-> IF j \in open
                                  THEN [job[j] EXCEPT !.status = "CANCELLED"] ELSE job[j]]
        /\ issue' = [issue EXCEPT ![i].status = "CANCELLED"] /\ project' = project
    BY <1>8 DEF CancelIssue
  <2>2. ASSUME NEW k \in Jobs
        PROVE  /\ job[k] \in JobRecord
               /\ [job[k] EXCEPT !.status = "CANCELLED"].status = "CANCELLED"
               /\ [job[k] EXCEPT !.status = "CANCELLED"].issue = job[k].issue
               /\ [job[k] EXCEPT !.status = "CANCELLED"].started = job[k].started
    <3>1. job[k] \in JobRecord
      BY DEF TypeOK
    <3> QED BY <3>1 DEF JobRecord
  <2>3. /\ open \in SUBSET Jobs
        /\ \A k \in open : job[k].status \in {"ACTIVE", "PENDING_REVIEW"}
    BY <2>2 DEF JobExists, Gone, Closed, JobRecord, JobStatus
  <2>4. \A k \in Jobs : k \in open <=> (JobExists(k) /\ job[k].issue = i /\ job[k].status \notin Closed)
    OBVIOUS
  <2> HIDE DEF open
  <2>5. \A k \in Jobs : \/ k \notin open /\ job'[k] = job[k]
                        \/ /\ k \in open /\ job'[k].status \in Closed
                           /\ job'[k].issue = job[k].issue
                           /\ job[k].started => job'[k].started
    BY <2>1, <2>2 DEF Closed
  <2>6. /\ \A k \in Jobs : JobSound(k)'
        /\ ClosedJobStep
        /\ \A t \in Tasks : task'[t].phase = "EXECUTING" =>
              /\ task[t].phase = "EXECUTING"
              /\ TaskJob[t] \in open => task[t].status \in Terminal \/ ~Exists(t)
              /\ job'[TaskJob[t]].issue = job[TaskJob[t]].issue
    BY <2>1, <2>3, <2>5, FinishTasksDelivers DEF Terminal
  <2>7. Opens
    <3>1. \A k \in Issues \ {i} : issue'[k] = issue[k]
      BY <2>1
    <3>2. issue'[i].status = "CANCELLED"
      BY <2>1 DEF IssueRecord
    <3> QED BY <2>1, <2>5, <3>1, <3>2 DEF Opens, Over, Closed
  <2>8. ASSUME NEW t \in Tasks, task'[t].phase = "EXECUTING", job'[TaskJob[t]].issue # None
        PROVE  /\ issue'[job'[TaskJob[t]].issue].status = "ACTIVE"
               /\ ~issue'[job'[TaskJob[t]].issue].archived
    <3>1. PICK k \in Jobs : k = TaskJob[t]
      BY ParentsTyped
    <3>2. task[t].phase = "EXECUTING" /\ job'[k].issue = job[k].issue
      BY <2>6, <2>8, <3>1
    <3>3. t \in TasksOf({k}) /\ task[t].status \notin Terminal /\ Exists(t)
      BY <3>1, <3>2, ExecutingUnfinished DEF TasksOf
    <3>4. k \notin open
      BY <2>6, <2>8, <3>1, <3>3
    <3>5. JobExists(k) /\ job[k].status \notin Closed
      BY <3>3 DEF Delivery, JobSound, DeliverySound, JobExists
    <3>6. PICK n \in Issues : n = job[k].issue /\ n # i
      BY <2>4, <2>8, <3>1, <3>2, <3>4, <3>5 DEF TypeOK, JobRecord
    <3>7. issue[n].status = "ACTIVE" /\ ~issue[n].archived
      BY <2>8, <3>1, <3>2, <3>6 DEF Delivery, ExecutingUnderActiveIssue
    <3> QED BY <2>1, <3>1, <3>2, <3>6, <3>7
  <2>9. ExecutingUnderActiveIssue'
    BY <2>8 DEF ExecutingUnderActiveIssue
  <2> QED BY <2>6, <2>7, <2>9, DeliveryParts
<1> QED BY <1>4, <1>5, <1>6, <1>7, <1>8 DEF IssueCommand

\* Project commands keep delivery.
LEMMA ProjectCommandDelivers ==
    ASSUME TypeOK, Ownership, Delivery, NEW p \in Projects, ProjectCommand(p)
    PROVE  Delivery' /\ ClosedJobStep
<1>1. ASSUME NEW status, SetProject(p, status),
             status = "ARCHIVED" => ProjectQuiet(p)
      PROVE  Delivery' /\ ClosedJobStep
  <2>1. (\A t \in Tasks : SameTask(t)) /\ \A k \in Jobs : SameJob(k)
    BY <1>1 DEF SetProject, SameTask, SameJob
  <2>2. \A k \in Jobs : JobSound(k)'
    BY <2>1, SameKeeps DEF Delivery
  <2>3. Opens /\ ClosedJobStep
    BY <1>1 DEF SetProject, Opens, ClosedJobStep, TypeOK
  <2>4. ExecutingUnderActiveIssue'
    BY <1>1, ExecutingKeeps DEF SetProject
  <2> QED BY <2>2, <2>3, <2>4, DeliveryParts
<1>2. CASE RegisterProject(p) \/ ArchiveProject(p) \/ UnarchiveProject(p)
  BY <1>1, <1>2 DEF RegisterProject, ArchiveProject, UnarchiveProject, ProjectQuiet, Over
<1>3. CASE DeleteProject(p)
  <2> DEFINE js == {j \in Jobs : JobProject[j] = p /\ JobExists(j)}
             goneIssue == [NewIssue EXCEPT !.status = "DELETED"]
             goneJob == [NewJob EXCEPT !.status = "DELETED"]
  <2>1. /\ RemoveTasks(js)
        /\ job' = [j \in Jobs |-> IF j \in js THEN goneJob ELSE job[j]]
        /\ issue' = [i \in Issues |->
                       IF IssueProject[i] = p /\ issue[i].status \notin Gone
                       THEN goneIssue ELSE issue[i]]
        /\ project' = [project EXCEPT ![p] = "DELETED"]
    BY <1>3 DEF DeleteProject
  <2>2. goneIssue.status = "DELETED" /\ goneJob.status = "DELETED"
    BY DEF NewIssue, NewJob
  <2>3. js \in SUBSET Jobs /\ \A k \in Jobs : k \in js <=> JobProject[k] = p /\ JobExists(k)
    OBVIOUS
  <2> HIDE DEF js, goneIssue
  <2>4. /\ \A k \in Jobs : JobSound(k)'
        /\ ClosedJobStep
        /\ \A t \in Tasks : task'[t].phase = "EXECUTING" =>
              /\ task[t].phase = "EXECUTING"
              /\ TaskJob[t] \notin js /\ Exists(t)
              /\ job'[TaskJob[t]].issue = job[TaskJob[t]].issue
    BY <2>1, <2>3, RemoveTasksDelivers
  <2> HIDE DEF goneJob
  <2>5. Opens
    BY <2>1, <2>2 DEF Opens, Over, Gone, TypeOK
  <2>6. ASSUME NEW t \in Tasks, task'[t].phase = "EXECUTING", job'[TaskJob[t]].issue # None
        PROVE  /\ issue'[job'[TaskJob[t]].issue].status = "ACTIVE"
               /\ ~issue'[job'[TaskJob[t]].issue].archived
    <3>1. PICK k \in Jobs : k = TaskJob[t]
      BY ParentsTyped
    <3>2. task[t].phase = "EXECUTING" /\ job'[k].issue = job[k].issue /\ k \notin js /\ Exists(t)
      BY <2>4, <2>6, <3>1
    <3>3. JobExists(k)
      BY <3>1, <3>2 DEF Delivery, JobSound, TasksOf, JobExists
    <3>4. PICK n \in Issues : n = job[k].issue
      BY <2>6, <3>1, <3>2 DEF TypeOK, JobRecord
    <3>5. IssueProject[n] = JobProject[k]
      BY <2>6, <3>1, <3>2, <3>4 DEF Delivery, JobSound
    <3>6. issue[n].status = "ACTIVE" /\ ~issue[n].archived
      BY <2>6, <3>1, <3>2, <3>4 DEF Delivery, ExecutingUnderActiveIssue
    <3> QED BY <2>1, <2>3, <3>1, <3>2, <3>3, <3>4, <3>5, <3>6
  <2>7. ExecutingUnderActiveIssue'
    BY <2>6 DEF ExecutingUnderActiveIssue
  <2> QED BY <2>4, <2>5, <2>7, DeliveryParts
<1> QED BY <1>2, <1>3 DEF ProjectCommand

\* Sessions, expiry and reaping only move Tasks between unfinished statuses.
LEMMA SessionsDeliver ==
    ASSUME TypeOK, Ownership, Delivery
    PROVE  /\ \A s \in Sessions : SessionCommand(s) => Delivery' /\ ClosedJobStep
           /\ \A t \in Tasks : Expire(t) => Delivery' /\ ClosedJobStep
           /\ Reap => Delivery' /\ ClosedJobStep
<1> None # "EXECUTING"
  BY NoneIsNobody
<1>1. ASSUME NEW ts, SystemBlocked(ts), \A t \in ts : t \in Tasks /\ task[t].status = "IN_PROGRESS"
      PROVE  Delivery' /\ ClosedJobStep
  <2>1. ASSUME NEW t \in Tasks PROVE SameTask(t)
    <3>1. task[t] \in TaskRecord
      BY DEF TypeOK
    <3>2. CASE t \in ts
      <4>1. task'[t] = [task[t] EXCEPT !.status = "BLOCKED", !.phase = None, !.systemBlock = TRUE]
        BY <1>1, <3>2 DEF SystemBlocked
      <4>2. task'[t].status = "BLOCKED" /\ task'[t].phase = None
        BY <3>1, <4>1 DEF TaskRecord
      <4> QED BY <1>1, <3>2, <4>2 DEF SameTask, Unfinished, TaskStatus, Terminal
    <3>3. CASE t \notin ts
      BY <1>1, <3>3 DEF SystemBlocked, SameTask
    <3> QED BY <3>2, <3>3
  <2>2. (\A j \in Jobs : SameJob(j)) /\ UNCHANGED <<project, issue>>
    BY <1>1 DEF SystemBlocked, SameJob
  <2> QED BY <2>1, <2>2, NothingDelivers
<1>2. ASSUME NEW s \in Sessions, NEW hosted \in SUBSET Executors, StartSession(s, hosted)
      PROVE  Delivery' /\ ClosedJobStep
  <2>1. PICK ts \in SUBSET Resumable(s, hosted) :
           task' = [t \in Tasks |->
                      IF t \in ts THEN Claimed(t, task[t].executor, s) ELSE task[t]]
    BY <1>2 DEF StartSession
  <2>2. ASSUME NEW t \in Tasks PROVE SameTask(t)
    <3>1. task[t] \in TaskRecord
      BY DEF TypeOK
    <3>2. CASE t \in ts
      <4>1. task[t].status = "BLOCKED" /\ task'[t] = Claimed(t, task[t].executor, s)
        BY <2>1, <3>2 DEF Resumable
      <4>2. task'[t].status = "IN_PROGRESS" /\ task'[t].phase = "PLANNING"
        BY <3>1, <4>1 DEF Claimed, TaskRecord
      <4> QED BY <4>1, <4>2 DEF SameTask, Unfinished, TaskStatus, Terminal
    <3>3. CASE t \notin ts
      BY <2>1, <3>3 DEF SameTask
    <3> QED BY <3>2, <3>3
  <2>3. (\A j \in Jobs : SameJob(j)) /\ UNCHANGED <<project, issue>>
    BY <1>2 DEF StartSession, SameJob
  <2> QED BY <2>2, <2>3, NothingDelivers
<1>3. ASSUME UNCHANGED <<project, issue, job, task>> PROVE Delivery' /\ ClosedJobStep
  <2>1. (\A t \in Tasks : SameTask(t)) /\ \A j \in Jobs : SameJob(j)
    BY <1>3 DEF SameTask, SameJob
  <2> QED BY <1>3, <2>1, NothingDelivers
<1>4. ASSUME NEW s \in Sessions, NEW hosted, EndSession(s, hosted) PROVE Delivery' /\ ClosedJobStep
  BY <1>1, <1>4 DEF EndSession, OfSession
<1>5. ASSUME Reap PROVE Delivery' /\ ClosedJobStep
  <2>1. \A t \in Expired : t \in Tasks /\ task[t].status = "IN_PROGRESS"
    BY DEF Expired, Ownership, LeaseMatches
  <2> QED BY <1>1, <1>5, <2>1 DEF Reap
<1> QED BY <1>2, <1>3, <1>4, <1>5 DEF SessionCommand, HeartbeatSession, Expire

\* Every step keeps delivery and reopens closed Jobs only through their Tasks.
LEMMA StepDelivers ==
    ASSUME TypeOK, Ownership, Delivery, [Next]_vars
    PROVE  Delivery' /\ ClosedJobStep
<1>1. CASE UNCHANGED vars
  <2>1. (\A t \in Tasks : SameTask(t)) /\ \A j \in Jobs : SameJob(j)
    BY <1>1 DEF vars, SameTask, SameJob
  <2> QED BY <1>1, <2>1, NothingDelivers DEF vars
<1>2. CASE Next
  BY <1>2, TaskCommandDelivers, JobCommandDelivers, IssueCommandDelivers,
     ProjectCommandDelivers, SessionsDeliver DEF Next
<1> QED BY <1>1, <1>2

\* Nothing is there in the beginning.
LEMMA InitDelivery == Init => Delivery
<1> SUFFICES ASSUME Init PROVE Delivery
  OBVIOUS
<1>1. \A j \in Jobs : /\ job[j].status = "ABSENT" /\ job[j].archived = FALSE
                      /\ job[j].issue = None
  BY DEF Init, NewJob
<1>2. \A t \in Tasks : task[t].status = "ABSENT" /\ task[t].phase = None
  BY DEF Init, NewTask
<1>3. \A j \in Jobs : JobSound(j)
  BY <1>1, <1>2, NoneIsNobody DEF JobSound, DeliverySound, TasksOf, Exists, Gone, Closed
<1>4. \A p \in Projects : project[p] # "ARCHIVED"
  BY DEF Init
<1> QED BY <1>2, <1>3, <1>4, NoneIsNobody DEF Delivery, ExecutingUnderActiveIssue

\* The invariant of delivery holds in every state.
LEMMA DeliveryHolds == Spec => []Delivery
<1>1. TypeOK /\ Ownership /\ Delivery /\ [Next]_vars => Delivery'
  BY StepDelivers
<1> QED BY <1>1, InitDelivery, TypesHold, OwnershipHolds, PTL DEF Spec

\* A Job under review is delivered, a closed Job has no unfinished Task, and only
\* closed Jobs are archived, whatever reviewers, owners and sessions do.
THEOREM ReviewedWorkHolds == Spec => []ReviewedWork
<1>1. Delivery => ReviewedWork
  BY DEF Delivery, JobSound, DeliverySound, ReviewedWork
<1> QED BY <1>1, DeliveryHolds, PTL

\* An ACTIVE Job whose Tasks are all finished was rejected or waits for the work
\* a follow-up asked for: a delivery is never lost.
THEOREM NoLostSubmissionHolds == Spec => []NoLostSubmission
<1>1. Delivery => NoLostSubmission
  BY DEF Delivery, JobSound, DeliverySound, NoLostSubmission
<1> QED BY <1>1, DeliveryHolds, PTL

\* Nothing is open in an archived Project, and a Task executes only while the
\* Issue of its Job is ACTIVE.
THEOREM QuietWhenClosedHolds == Spec => []QuietWhenClosed
<1>1. ASSUME TypeOK, Delivery PROVE QuietWhenClosed
  <2> SUFFICES ASSUME NEW p \in Projects, project[p] = "ARCHIVED"
               PROVE  /\ \A i \in Issues : IssueProject[i] = p
                                              => issue[i].status \in Closed \cup Gone
                      /\ \A j \in Jobs : JobProject[j] = p
                                            => job[j].status \in Closed \cup Gone
                      /\ \A t \in Tasks : ProjectOf(t) = p
                                             => task[t].status \in Terminal \cup Gone
    BY <1>1 DEF QuietWhenClosed, ArchivedProjectQuiet, Delivery
  <2>1. ProjectQuiet(p)
    BY <1>1 DEF Delivery
  <2>2. ASSUME NEW t \in Tasks, ProjectOf(t) = p PROVE task[t].status \in Terminal \cup Gone
    <3>1. PICK j \in Jobs : j = TaskJob[t] /\ JobProject[j] = p
      BY <2>2, ParentsTyped DEF ProjectOf
    <3>2. job[j].status \in Closed \/ job[j].status \in Gone
      BY <2>1, <3>1 DEF ProjectQuiet, Over
    <3> QED BY <1>1, <3>1, <3>2 DEF Delivery, JobSound, DeliverySound, TasksOf, Exists
  <2> QED BY <2>1, <2>2 DEF ProjectQuiet, Over
<1> QED BY <1>1, DeliveryHolds, TypesHold, PTL

\* A closed Job is reopened only by reopening one of its finished Tasks, and never
\* once it is cancelled or archived.
THEOREM ClosedJobsHolds == Spec => ClosedJobs
<1>1. TypeOK /\ Ownership /\ Delivery /\ [Next]_vars => [ClosedJobStep]_vars
  BY StepDelivers
<1> QED BY <1>1, TypesHold, OwnershipHolds, DeliveryHolds, PTL DEF Spec, ClosedJobs

----------------------------------------------------------------------------
(* Dependencies: work that has started keeps its dependencies DONE,         *)
(* dependencies exist, and they form no cycle.                             *)

\* A follow-up baseline names Tasks the Job has, and a Task that is not there
\* has no dependencies and has not started.
FollowupsExist ==
    \A j \in Jobs : \A t \in job[j].followup : t \in TasksOf({j})
GoneIsBlank ==
    \A t \in Tasks : ~Exists(t) => task[t].deps = {} /\ ~task[t].started

\* The inductive invariant of the dependency graph.
Dependencies ==
    /\ StartedAfterDependencies
    /\ Acyclic
    /\ DependenciesExist
    /\ FollowupsExist
    /\ GoneIsBlank

\* Most commands are quiet: they change no dependency, create and remove no Task,
\* start a Task only after its dependencies, and finish work for good.
QuietTask(t) ==
    /\ task'[t].deps = task[t].deps
    /\ Exists(t)' <=> Exists(t)
    /\ task'[t].started => task[t].started \/ (Exists(t) /\ DependenciesDone(t))
    /\ task[t].status = "DONE" => task'[t].status = "DONE"
QuietJob(j) ==
    job'[j].followup = job[j].followup \/ job'[j].followup \subseteq TasksOf({j})

----------------------------------------------------------------------------
\* Quiet steps keep the dependency invariant.
LEMMA QuietKeeps ==
    ASSUME TypeOK, Dependencies,
           \A t \in Tasks : QuietTask(t), \A j \in Jobs : QuietJob(j)
    PROVE  Dependencies'
<1>1. \A t \in Tasks : task[t].deps \subseteq Tasks
  BY DEF TypeOK, TaskRecord
<1>2. StartedAfterDependencies'
  BY <1>1 DEF Dependencies, StartedAfterDependencies, DependenciesDone, QuietTask
<1>3. Acyclic'
  <2> SUFFICES ASSUME NEW S \in SUBSET Tasks, \A t \in S : task'[t].deps \cap S # {}
               PROVE  S = {}
    BY DEF Acyclic
  <2>1. \A t \in S : task[t].deps \cap S # {}
    BY DEF QuietTask
  <2> QED BY <2>1 DEF Dependencies, Acyclic
<1>4. DependenciesExist'
  BY <1>1 DEF Dependencies, DependenciesExist, QuietTask, ProjectOf
<1>5. FollowupsExist'
  <2> SUFFICES ASSUME NEW j \in Jobs, NEW t \in job'[j].followup PROVE (t \in TasksOf({j}))'
    BY DEF FollowupsExist
  <2>1. t \in TasksOf({j})
    BY DEF Dependencies, FollowupsExist, QuietJob
  <2>2. t \in Tasks /\ TaskJob[t] = j /\ Exists(t)
    BY <2>1 DEF TasksOf
  <2>3. Exists(t)'
    BY <2>2 DEF QuietTask
  <2> QED BY <2>2, <2>3 DEF TasksOf
<1>6. GoneIsBlank'
  <2> SUFFICES ASSUME NEW t \in Tasks, ~Exists(t)' PROVE task'[t].deps = {} /\ ~task'[t].started
    BY DEF GoneIsBlank
  <2>1. ~Exists(t) /\ task[t].deps = {} /\ ~task[t].started
    BY DEF Dependencies, GoneIsBlank, QuietTask
  <2> QED BY <2>1 DEF QuietTask
<1> QED BY <1>2, <1>3, <1>4, <1>5, <1>6 DEF Dependencies

\* Aggregation and completion policies leave the baselines alone.
LEMMA FollowupsUntouched ==
    ASSUME TypeOK, NEW k \in Jobs
    PROVE  /\ \A j \in Jobs : \A policy : WithPolicy(j, policy)[k].followup = job[k].followup
           /\ \A j \in Jobs, jb \in [Jobs -> JobRecord] :
                 \A tk : Aggregate(j, tk, jb)[k].followup = jb[k].followup
<1>1. ASSUME NEW j \in Jobs, NEW policy
      PROVE  WithPolicy(j, policy)[k].followup = job[k].followup
  BY DEF WithPolicy, TypeOK, JobRecord
<1>2. ASSUME NEW j \in Jobs, NEW jb \in [Jobs -> JobRecord], NEW tk
      PROVE  Aggregate(j, tk, jb)[k].followup = jb[k].followup
  BY <1>2 DEF Aggregate, JobRecord
<1> QED BY <1>1, <1>2

\* The end of a Task command stores the Task and keeps the baselines.
LEMMA StoreTaskFollowups ==
    ASSUME TypeOK, NEW t \in Tasks, NEW r, NEW jb \in [Jobs -> JobRecord],
           StoreTask(t, r, jb), NEW j \in Jobs
    PROVE  job'[j].followup = jb[j].followup
BY ParentsTyped, FollowupsUntouched DEF StoreTask

\* The end of a Task command keeps the baselines of the Jobs it is given.
LEMMA StoreTaskJobs ==
    ASSUME TypeOK, NEW t \in Tasks, NEW r, NEW jb \in [Jobs -> JobRecord],
           StoreTask(t, r, jb), \A j \in Jobs : jb[j].followup = job[j].followup
    PROVE  /\ \A j \in Jobs : QuietJob(j)
           /\ task' = [task EXCEPT ![t] = r]
           /\ \A u \in Tasks \ {t} : QuietTask(u)
<1>1. ASSUME NEW j \in Jobs PROVE QuietJob(j)
  BY StoreTaskFollowups DEF QuietJob
<1> QED BY <1>1 DEF StoreTask, QuietTask, TypeOK, Exists

\* The commands that take up, carry on and finish a Task are quiet.
LEMMA TaskCommandQuiet ==
    ASSUME TypeOK, NEW t \in Tasks, NEW caller,
           \/ \E e \in Executors, s \in Sessions : Claim(t, e, s)
           \/ RegisterPlan(t, caller)
           \/ Start(t, caller)
           \/ Heartbeat(t, caller)
           \/ \E policy \in Policies \cup {Keep} :
                 \/ \E to \in {"BLOCKED", "WAITING_USER", "FAILED", "CANCELLED"} :
                       SetAside(t, to, caller, policy)
                 \/ Done(t, caller, policy)
                 \/ DoneByHuman(t, policy)
    PROVE  /\ \A u \in Tasks : QuietTask(u)
           /\ \A j \in Jobs : QuietJob(j)
<1> task \in [Tasks -> TaskRecord] /\ task[t] \in TaskRecord /\ job \in [Jobs -> JobRecord]
  BY DEF TypeOK
<1> TaskJob[t] \in Jobs
  BY ParentsTyped
<1> DEFINE Goal == (\A u \in Tasks : QuietTask(u)) /\ (\A j \in Jobs : QuietJob(j))
<1>1. ASSUME NEW e \in Executors, NEW s \in Sessions, Claim(t, e, s) PROVE Goal
  <2>1. /\ Claimed(t, e, s).deps = task[t].deps /\ Claimed(t, e, s).started = task[t].started
        /\ Claimed(t, e, s).status = "IN_PROGRESS"
    BY DEF Claimed, TaskRecord
  <2>2. task[t].status # "DONE" /\ Exists(t)
    BY <1>1 DEF Claim, Allows, TaskOpen
  <2>3. StoreTask(t, Claimed(t, e, s), job)
    BY <1>1 DEF Claim
  <2>4. QuietTask(t)
    BY <2>1, <2>2, <2>3 DEF StoreTask, QuietTask, Exists, Gone
  <2> QED BY <2>3, <2>4, StoreTaskJobs
<1>2. CASE RegisterPlan(t, caller)
  BY <1>2 DEF RegisterPlan, QuietTask, QuietJob, Exists, TaskRecord
<1>3. CASE Start(t, caller)
  <2> DEFINE r == [task[t] EXCEPT !.phase = "EXECUTING", !.started = TRUE]
             jb == [job EXCEPT ![TaskJob[t]].started = TRUE]
  <2>1. r.deps = task[t].deps /\ r.status = task[t].status
    BY DEF TaskRecord
  <2>2. jb \in [Jobs -> JobRecord] /\ \A j \in Jobs : jb[j].followup = job[j].followup
    <3> DEFINE k == TaskJob[t]
               b == [job[k] EXCEPT !.started = TRUE]
    <3>1. job[k] \in JobRecord /\ k \in Jobs
      OBVIOUS
    <3>2. b \in JobRecord /\ b.followup = job[k].followup
      BY <3>1 DEF JobRecord
    <3>3. jb = [job EXCEPT ![k] = b]
      OBVIOUS
    <3> HIDE DEF b, jb, k
    <3> QED BY <3>1, <3>2, <3>3
  <2>3. StoreTask(t, r, jb) /\ DependenciesDone(t) /\ Exists(t)
    BY <1>3 DEF Start, TaskOpen
  <2> HIDE DEF r, jb
  <2>4. QuietTask(t)
    BY <2>1, <2>3 DEF StoreTask, QuietTask, Exists
  <2> QED BY <2>2, <2>3, <2>4, StoreTaskJobs
<1>4. CASE Heartbeat(t, caller)
  <2>1. StoreTask(t, task[t], job)
    BY <1>4 DEF Heartbeat
  <2>2. QuietTask(t)
    BY <2>1 DEF StoreTask, QuietTask, Exists
  <2> QED BY <2>1, <2>2, StoreTaskJobs
<1>5. ASSUME NEW to \in TaskStatus, NEW policy \in Policies \cup {Keep}, Leave(t, to, policy),
             Exists(t), task[t].status # "DONE"
      PROVE  Goal
  <2>1. /\ Left(t, to).deps = task[t].deps /\ Left(t, to).started = task[t].started
        /\ Left(t, to).status = to
    BY DEF Left, TaskRecord
  <2>2. /\ StoreTask(t, Left(t, to), WithPolicy(TaskJob[t], policy))
        /\ WithPolicy(TaskJob[t], policy) \in [Jobs -> JobRecord]
        /\ \A j \in Jobs : WithPolicy(TaskJob[t], policy)[j].followup = job[j].followup
    BY <1>5, JobsTyped, FollowupsUntouched DEF Leave
  <2>3. QuietTask(t)
    BY <1>5, <2>1, <2>2 DEF StoreTask, QuietTask, Exists, Gone, TaskStatus
  <2> QED BY <2>2, <2>3, StoreTaskJobs
<1>6. ASSUME NEW policy \in Policies \cup {Keep},
             NEW to \in {"BLOCKED", "WAITING_USER", "FAILED", "CANCELLED"},
             SetAside(t, to, caller, policy)
      PROVE  Goal
  <2>1. task[t].status # "DONE" /\ Exists(t) /\ to \in TaskStatus
    BY <1>6 DEF SetAside, Allows, TaskOpen, TaskStatus
  <2> QED BY <1>5, <1>6, <2>1 DEF SetAside
<1>7. ASSUME NEW policy \in Policies \cup {Keep},
             Done(t, caller, policy) \/ DoneByHuman(t, policy)
      PROVE  Goal
  <2>1. task[t].status # "DONE" /\ Exists(t) /\ "DONE" \in TaskStatus
    BY <1>7 DEF Done, DoneByHuman, Allows, TaskOpen, TaskStatus, Terminal
  <2> QED BY <1>5, <1>7, <2>1 DEF Done, DoneByHuman
<1> QED BY <1>1, <1>2, <1>3, <1>4, <1>6, <1>7

\* Sessions and reaping are quiet: they touch Tasks that are IN_PROGRESS or BLOCKED.
LEMMA SessionsQuiet ==
    ASSUME TypeOK, Ownership,
           \/ \E s \in Sessions : SessionCommand(s)
           \/ \E t \in Tasks : Expire(t)
           \/ Reap
    PROVE  /\ \A t \in Tasks : QuietTask(t)
           /\ \A j \in Jobs : QuietJob(j)
<1> DEFINE Goal == (\A t \in Tasks : QuietTask(t)) /\ (\A j \in Jobs : QuietJob(j))
<1>1. ASSUME task' = task, job' = job PROVE Goal
  BY <1>1 DEF QuietTask, QuietJob, Exists
<1>2. ASSUME NEW ts, SystemBlocked(ts), \A t \in ts : t \in Tasks => task[t].status = "IN_PROGRESS"
      PROVE  Goal
  <2>1. ASSUME NEW t \in Tasks PROVE QuietTask(t)
    <3>1. task[t] \in TaskRecord
      BY DEF TypeOK
    <3>2. CASE t \in ts
      <4>1. /\ task[t].status = "IN_PROGRESS"
            /\ task'[t] = [task[t] EXCEPT !.status = "BLOCKED", !.phase = None,
                                          !.systemBlock = TRUE]
        BY <1>2, <3>2 DEF SystemBlocked
      <4>2. /\ task'[t].status = "BLOCKED" /\ task'[t].deps = task[t].deps
            /\ task'[t].started = task[t].started
        BY <3>1, <4>1 DEF TaskRecord
      <4> QED BY <4>1, <4>2 DEF QuietTask, Exists, Gone
    <3>3. CASE t \notin ts
      BY <1>2, <3>3 DEF SystemBlocked, QuietTask, Exists
    <3> QED BY <3>2, <3>3
  <2> QED BY <1>2, <2>1 DEF SystemBlocked, QuietJob
<1>3. ASSUME NEW s \in Sessions, NEW hosted \in SUBSET Executors, StartSession(s, hosted)
      PROVE  Goal
  <2>1. PICK ts \in SUBSET Resumable(s, hosted) :
           task' = [t \in Tasks |->
                      IF t \in ts THEN Claimed(t, task[t].executor, s) ELSE task[t]]
    BY <1>3 DEF StartSession
  <2>2. ASSUME NEW t \in Tasks PROVE QuietTask(t)
    <3>1. task[t] \in TaskRecord
      BY DEF TypeOK
    <3>2. CASE t \in ts
      <4>1. task[t].status = "BLOCKED" /\ task'[t] = Claimed(t, task[t].executor, s)
        BY <2>1, <3>2 DEF Resumable
      <4>2. /\ task'[t].status = "IN_PROGRESS" /\ task'[t].deps = task[t].deps
            /\ task'[t].started = task[t].started
        BY <3>1, <4>1 DEF TaskRecord, Claimed
      <4> QED BY <4>1, <4>2 DEF QuietTask, Exists, Gone
    <3>3. CASE t \notin ts
      BY <2>1, <3>3 DEF QuietTask, Exists
    <3> QED BY <3>2, <3>3
  <2> QED BY <1>3, <2>2 DEF StartSession, QuietJob
<1>4. CASE Reap
  <2>1. \A t \in Expired : t \in Tasks => task[t].status = "IN_PROGRESS"
    BY DEF Expired, Ownership, LeaseMatches
  <2> QED BY <1>2, <1>4, <2>1 DEF Reap
<1>5. ASSUME NEW s \in Sessions, NEW hosted, EndSession(s, hosted) PROVE Goal
  <2>1. \A t \in {u \in OfSession(s, hosted) : task[u].status = "IN_PROGRESS"} :
           t \in Tasks => task[t].status = "IN_PROGRESS"
    OBVIOUS
  <2> QED BY <1>2, <1>5, <2>1 DEF EndSession
<1>6. ASSUME NEW s \in Sessions, NEW hosted, HeartbeatSession(s, hosted) PROVE Goal
  BY <1>1, <1>6 DEF HeartbeatSession
<1>7. ASSUME NEW t \in Tasks, Expire(t) PROVE Goal
  BY <1>1, <1>7 DEF Expire
<1>8. ASSUME NEW s \in Sessions, SessionCommand(s) PROVE Goal
  <2>1. PICK hosted \in SUBSET Executors :
           EndSession(s, hosted) \/ StartSession(s, hosted) \/ HeartbeatSession(s, hosted)
    BY <1>8 DEF SessionCommand
  <2> QED BY <1>3, <1>5, <1>6, <2>1
<1> QED BY <1>4, <1>7, <1>8

\* Finishing Tasks is quiet.
LEMMA FinishTasksQuiet ==
    ASSUME TypeOK, NEW js, NEW to \in Terminal, FinishTasks(js, to), NEW t \in Tasks
    PROVE  QuietTask(t)
<1>1. task[t] \in TaskRecord
  BY DEF TypeOK
<1>2. CASE t \in TasksOf(js) /\ task[t].status \notin Terminal
  <2>1. task'[t] = Left(t, to) /\ Exists(t) /\ task[t].status # "DONE"
    BY <1>2 DEF FinishTasks, TasksOf, Terminal
  <2>2. /\ task'[t].status = to /\ task'[t].deps = task[t].deps
        /\ task'[t].started = task[t].started
    BY <1>1, <2>1 DEF Left, TaskRecord
  <2> QED BY <2>1, <2>2 DEF QuietTask, Exists, Gone, Terminal
<1>3. CASE ~(t \in TasksOf(js) /\ task[t].status \notin Terminal)
  BY <1>3 DEF FinishTasks, QuietTask, Exists
<1> QED BY <1>2, <1>3

\* Job, Issue and Project commands other than deletion are quiet.
LEMMA OthersQuiet ==
    ASSUME TypeOK,
           \/ \E j \in Jobs : JobCommand(j) /\ ~DeleteJob(j)
           \/ \E i \in Issues : IssueCommand(i)
           \/ \E p \in Projects : ProjectCommand(p) /\ ~DeleteProject(p)
    PROVE  /\ \A t \in Tasks : QuietTask(t)
           /\ \A j \in Jobs : QuietJob(j)
<1> job \in [Jobs -> JobRecord]
  BY DEF TypeOK
<1>1. ASSUME task' = task PROVE \A t \in Tasks : QuietTask(t)
  BY <1>1 DEF QuietTask, Exists
<1>2. ASSUME NEW j \in Jobs, JobCommand(j), ~DeleteJob(j)
      PROVE  (\A t \in Tasks : QuietTask(t)) /\ (\A k \in Jobs : QuietJob(k))
  <2> job[j] \in JobRecord
    OBVIOUS
  <2>1. CASE CancelJob(j) \/ ApproveJobByHuman(j)
    <3>1. \A k \in Jobs : QuietJob(k)
      BY <2>1 DEF CancelJob, ApproveJobByHuman, QuietJob, JobRecord
    <3> QED BY <2>1, <3>1, FinishTasksQuiet DEF CancelJob, ApproveJobByHuman, Terminal
  <2>2. ASSUME NEW jb \in JobRecord, NEW link, StoreJob(j, jb, link),
               jb.followup = job[j].followup \/ jb.followup \subseteq TasksOf({j})
        PROVE  (\A t \in Tasks : QuietTask(t)) /\ (\A k \in Jobs : QuietJob(k))
    <3>1. Associated(jb, link).followup = jb.followup
      BY DEF Associated, JobRecord
    <3> QED BY <1>1, <2>2, <3>1 DEF StoreJob, QuietJob
  <2>3. ASSUME NEW policy, NEW link, policy \in Policies,
               CreateJob(j, policy, link) \/ UpdateJob(j, policy, link)
        PROVE  (\A t \in Tasks : QuietTask(t)) /\ (\A k \in Jobs : QuietJob(k))
    <3>1. /\ [NewJob EXCEPT !.policy = policy] \in JobRecord
          /\ [job[j] EXCEPT !.policy = policy] \in JobRecord
      BY <2>3, PoliciesTyped, RecordsTyped DEF JobRecord
    <3>2. /\ [NewJob EXCEPT !.policy = policy].followup = {}
          /\ [job[j] EXCEPT !.policy = policy].followup = job[j].followup
      BY DEF NewJob, JobRecord
    <3> QED BY <2>2, <2>3, <3>1, <3>2 DEF CreateJob, UpdateJob
  <2>4. ASSUME NEW link, FollowupJob(j, link)
        PROVE  (\A t \in Tasks : QuietTask(t)) /\ (\A k \in Jobs : QuietJob(k))
    <3> DEFINE jb == [job[j] EXCEPT !.status = "ACTIVE", !.rejected = FALSE,
                                    !.followup = TasksOf({j})]
    <3>1. jb \in JobRecord /\ jb.followup = TasksOf({j})
      BY DEF JobRecord, JobStatus, TasksOf
    <3>2. StoreJob(j, jb, link)
      BY <2>4 DEF FollowupJob
    <3> HIDE DEF jb
    <3> QED BY <2>2, <3>1, <3>2
  <2>5. CASE ArchiveJob(j) \/ UnarchiveJob(j) \/ ApproveJob(j) \/ RejectJob(j)
    <3>1. \A k \in Jobs : QuietJob(k)
      BY <2>5 DEF ArchiveJob, UnarchiveJob, ApproveJob, RejectJob, QuietJob, JobRecord
    <3> QED BY <1>1, <2>5, <3>1 DEF ArchiveJob, UnarchiveJob, ApproveJob, RejectJob
  <2>6. ASSUME NEW policy, SubmitJob(j, policy)
        PROVE  (\A t \in Tasks : QuietTask(t)) /\ (\A k \in Jobs : QuietJob(k))
    <3>1. \A k \in Jobs : QuietJob(k)
      BY <2>6 DEF SubmitJob, QuietJob, JobRecord
    <3> QED BY <1>1, <2>6, <3>1 DEF SubmitJob
  <2> QED BY <1>2, <2>1, <2>3, <2>4, <2>5, <2>6 DEF JobCommand
<1>3. ASSUME NEW i \in Issues, IssueCommand(i)
      PROVE  (\A t \in Tasks : QuietTask(t)) /\ (\A k \in Jobs : QuietJob(k))
  <2>1. CASE CancelIssue(i)
    <3>1. PICK open : /\ FinishTasks(open, "CANCELLED")
                      /\ job' = [j \in Jobs |-> IF j \in open
                                    THEN [job[j] EXCEPT !.status = "CANCELLED"] ELSE job[j]]
      BY <2>1 DEF CancelIssue
    <3>2. \A k \in Jobs : QuietJob(k)
      BY <3>1 DEF QuietJob, JobRecord
    <3> QED BY <3>1, <3>2, FinishTasksQuiet DEF Terminal
  <2>2. CASE task' = task /\ job' = job
    BY <1>1, <2>2 DEF QuietJob
  <2> QED BY <1>3, <2>1, <2>2
        DEF IssueCommand, CreateIssue, UpdateIssueContent, StartIssue, SubmitIssue,
            ApproveIssue, RejectIssue, ReopenIssue, ArchiveIssue, SetIssue
<1>4. ASSUME NEW p \in Projects, ProjectCommand(p), ~DeleteProject(p)
      PROVE  (\A t \in Tasks : QuietTask(t)) /\ (\A k \in Jobs : QuietJob(k))
  <2>1. task' = task /\ job' = job
    BY <1>4 DEF ProjectCommand, RegisterProject, ArchiveProject, UnarchiveProject, SetProject
  <2> QED BY <1>1, <2>1 DEF QuietJob
<1> QED BY <1>2, <1>3, <1>4

----------------------------------------------------------------------------
(* The commands that change the graph *)

\* A Task is created with dependencies on Tasks of its Job; nothing can depend on
\* it yet, so it closes no cycle.
LEMMA AddTaskKeeps ==
    ASSUME TypeOK, Dependencies, NEW t \in Tasks, AddTask(t)
    PROVE  Dependencies'
<1> DEFINE base == job[TaskJob[t]].followup
<1>1. /\ task'[t].deps = base /\ ~task'[t].started /\ task'[t].status = "TODO"
      /\ \A u \in Tasks \ {t} : task'[u] = task[u]
      /\ job' = job
  BY DEF AddTask, TypeOK, NewTask
<1>2. ~Exists(t) /\ task[t].status # "DONE" /\ Exists(t)'
  BY <1>1 DEF AddTask, Exists, Gone
<1>3. \A u \in Tasks : t \notin task[u].deps
  BY <1>2 DEF Dependencies, DependenciesExist
<1>4. \A u \in base : u \in Tasks \ {t} /\ TaskJob[u] = TaskJob[t] /\ Exists(u)
  BY <1>2, ParentsTyped DEF Dependencies, FollowupsExist, TasksOf
<1>5. \A u \in Tasks \ {t} : Exists(u)' <=> Exists(u)
  BY <1>1 DEF Exists
<1>6. \A u \in Tasks : task[u].deps \subseteq Tasks
  BY DEF TypeOK, TaskRecord
<1> HIDE DEF base
<1>7. StartedAfterDependencies'
  BY <1>1, <1>3, <1>6 DEF Dependencies, StartedAfterDependencies, DependenciesDone
<1>8. DependenciesExist'
  <2> SUFFICES ASSUME NEW u \in Tasks, NEW d \in task'[u].deps
               PROVE  Exists(d)' /\ ProjectOf(d) = ProjectOf(u)
    BY DEF DependenciesExist, ProjectOf
  <2>1. CASE u = t
    BY <1>1, <1>4, <1>5, <2>1 DEF ProjectOf
  <2>2. CASE u # t
    BY <1>1, <1>3, <1>5, <1>6, <2>2 DEF Dependencies, DependenciesExist
  <2> QED BY <2>1, <2>2
<1>9. Acyclic'
  <2> SUFFICES ASSUME NEW S \in SUBSET Tasks, \A u \in S : task'[u].deps \cap S # {}
               PROVE  S = {}
    BY DEF Acyclic
  <2>1. \A u \in S \ {t} : task[u].deps \cap (S \ {t}) # {}
    BY <1>1, <1>3
  <2>2. S \ {t} = {}
    BY <2>1 DEF Dependencies, Acyclic
  <2>3. t \notin S
    BY <1>1, <1>4, <2>2
  <2> QED BY <2>2, <2>3
<1>10. FollowupsExist'
  <2> SUFFICES ASSUME NEW j \in Jobs, NEW u \in job[j].followup
               PROVE  u \in Tasks /\ TaskJob[u] = j /\ Exists(u)'
    BY <1>1 DEF FollowupsExist, TasksOf
  <2>1. u \in Tasks /\ TaskJob[u] = j /\ Exists(u)
    BY DEF Dependencies, FollowupsExist, TasksOf
  <2> QED BY <1>2, <1>5, <2>1
<1>11. GoneIsBlank'
  <2> SUFFICES ASSUME NEW u \in Tasks, ~Exists(u)' PROVE task'[u].deps = {} /\ ~task'[u].started
    BY DEF GoneIsBlank
  <2>1. u # t
    BY <1>2
  <2> QED BY <1>1, <1>5, <2>1 DEF Dependencies, GoneIsBlank
<1> QED BY <1>7, <1>8, <1>9, <1>10, <1>11 DEF Dependencies

\* depends_on finds direct dependencies, and whatever it does not find lies
\* outside a set that is closed under dependencies.
LEMMA DependsOnFacts ==
    ASSUME TypeOK, NEW s \in Tasks, NEW t \in Tasks
    PROVE  /\ t \in task[s].deps => DependsOn(s, t)
           /\ ~DependsOn(s, t) => \E C \in SUBSET Tasks :
                 /\ task[s].deps \subseteq C
                 /\ \A u \in C : task[u].deps \subseteq C
                 /\ t \notin C
BY DEF DependsOn

\* A new edge from t to d closes no cycle when t cannot be reached from d.
LEMMA NewEdgeAcyclic ==
    ASSUME TypeOK, Acyclic, NEW t \in Tasks, NEW d \in Tasks, d # t, ~DependsOn(d, t),
           task'[t].deps = task[t].deps \cup {d},
           \A u \in Tasks \ {t} : task'[u].deps = task[u].deps
    PROVE  Acyclic'
<1>1. PICK C \in SUBSET Tasks : /\ task[d].deps \subseteq C
                               /\ \A u \in C : task[u].deps \subseteq C
                               /\ t \notin C
  BY DependsOnFacts
<1> SUFFICES ASSUME NEW S \in SUBSET Tasks, \A u \in S : task'[u].deps \cap S # {}
             PROVE  S = {}
  BY DEF Acyclic
<1> DEFINE R == S \cap (C \cup {d})
<1>2. \A u \in R : task[u].deps \cap R # {}
  <2> TAKE u \in R
  <2>1. u # t /\ u \in S /\ u \in Tasks
    BY <1>1
  <2>2. task[u].deps \cap S # {}
    BY <2>1
  <2>3. task[u].deps \subseteq C
    BY <1>1
  <2> QED BY <2>2, <2>3
<1>3. R = {}
  BY <1>2 DEF Acyclic
<1>4. \A u \in S : task[u].deps \cap S # {}
  BY <1>3
<1> QED BY <1>4 DEF Acyclic

\* Adding or removing a dependency of a Task that has not started.
LEMMA DependKeeps ==
    ASSUME TypeOK, Dependencies, NEW t \in Tasks, NEW d \in Tasks, NEW caller,
           Depend(t, d, caller) \/ Undepend(t, d, caller)
    PROVE  Dependencies'
<1> task \in [Tasks -> TaskRecord] /\ task[t] \in TaskRecord /\ job \in [Jobs -> JobRecord]
  BY DEF TypeOK
<1>1. PICK S : /\ S = task[t].deps \cup {d} \/ S = task[t].deps \ {d}
               /\ S = task[t].deps \cup {d} => Depend(t, d, caller) \/ S = task[t].deps
               /\ StoreTask(t, [task[t] EXCEPT !.deps = S], job)
  BY DEF Depend, Undepend
<1>2. ~task[t].started /\ Exists(t) /\ Exists(d) /\ ProjectOf(d) = ProjectOf(t) /\ d # t
  BY DEF Depend, Undepend, TaskOpen
<1>3. \A j \in Jobs : job'[j].followup = job[j].followup
  BY <1>1, StoreTaskFollowups
<1>4. /\ task'[t].deps = S /\ task'[t].started = task[t].started
      /\ task'[t].status = task[t].status
      /\ \A u \in Tasks \ {t} : task'[u] = task[u]
  BY <1>1 DEF StoreTask, TaskRecord
<1>5. \A u \in Tasks : (Exists(u)' <=> Exists(u)) /\ task[u].deps \subseteq Tasks
                       /\ task'[u].status = task[u].status
  BY <1>4 DEF Exists, TypeOK, TaskRecord
<1>6. StartedAfterDependencies'
  BY <1>2, <1>4, <1>5 DEF Dependencies, StartedAfterDependencies, DependenciesDone
<1>7. DependenciesExist'
  <2> SUFFICES ASSUME NEW u \in Tasks, NEW v \in task'[u].deps
               PROVE  Exists(v)' /\ ProjectOf(v) = ProjectOf(u)
    BY DEF DependenciesExist, ProjectOf
  <2>1. (v = d /\ u = t) \/ v \in task[u].deps
    BY <1>1, <1>4
  <2> QED BY <1>2, <1>5, <2>1 DEF Dependencies, DependenciesExist
<1>8. Acyclic'
  <2>1. CASE S = task[t].deps \cup {d} /\ Depend(t, d, caller)
    BY <1>2, <1>4, <2>1, NewEdgeAcyclic DEF Depend, Dependencies
  <2>2. CASE S \subseteq task[t].deps
    <3>1. \A u \in Tasks : task'[u].deps \subseteq task[u].deps
      BY <1>4, <2>2
    <3> SUFFICES ASSUME NEW B \in SUBSET Tasks, \A u \in B : task'[u].deps \cap B # {}
                 PROVE  B = {}
      BY DEF Acyclic
    <3>2. \A u \in B : task[u].deps \cap B # {}
      BY <3>1
    <3> QED BY <3>2 DEF Dependencies, Acyclic
  <2> QED BY <1>1, <2>1, <2>2
<1>9. FollowupsExist'
  <2> SUFFICES ASSUME NEW j \in Jobs, NEW u \in job'[j].followup
               PROVE  u \in Tasks /\ TaskJob[u] = j /\ Exists(u)'
    BY DEF FollowupsExist, TasksOf
  <2>1. u \in Tasks /\ TaskJob[u] = j /\ Exists(u)
    BY <1>3 DEF Dependencies, FollowupsExist, TasksOf
  <2> QED BY <1>5, <2>1
<1>10. GoneIsBlank'
  <2> SUFFICES ASSUME NEW u \in Tasks, ~Exists(u)' PROVE task'[u].deps = {} /\ ~task'[u].started
    BY DEF GoneIsBlank
  <2>1. u # t /\ ~Exists(u)
    BY <1>2, <1>5
  <2> QED BY <1>4, <2>1 DEF Dependencies, GoneIsBlank
<1> QED BY <1>6, <1>7, <1>8, <1>9, <1>10 DEF Dependencies

\* A Task some started Task depends on is not reopened.
LEMMA ReopenKeeps ==
    ASSUME TypeOK, Dependencies, NEW t \in Tasks, NEW from, NEW caller, Reopen(t, from, caller)
    PROVE  Dependencies'
<1> task \in [Tasks -> TaskRecord] /\ task[t] \in TaskRecord /\ job \in [Jobs -> JobRecord]
  BY DEF TypeOK
<1> TaskJob[t] \in Jobs
  BY ParentsTyped
<1> DEFINE r == [task[t] EXCEPT !.status = "TODO", !.phase = None, !.systemBlock = FALSE]
           jb == [job EXCEPT ![TaskJob[t]].status = "ACTIVE"]
<1>1. StoreTask(t, r, jb) /\ Exists(t)
  BY DEF Reopen, TaskOpen
<1>2. r.deps = task[t].deps /\ r.started = task[t].started /\ r.status = "TODO"
  BY DEF TaskRecord
<1>3. jb \in [Jobs -> JobRecord] /\ \A j \in Jobs : jb[j].followup = job[j].followup
  BY DEF JobRecord, JobStatus
<1> HIDE DEF r, jb
<1>4. \A j \in Jobs : job'[j].followup = job[j].followup
  BY <1>1, <1>3, StoreTaskFollowups
<1>5. /\ task'[t] = r
      /\ \A u \in Tasks \ {t} : task'[u] = task[u]
  BY <1>1 DEF StoreTask
<1>6. /\ \A u \in Tasks : task'[u].deps = task[u].deps
      /\ \A u \in Tasks : task'[u].started = task[u].started
      /\ \A u \in Tasks : task[u].deps \subseteq Tasks
      /\ \A u \in Tasks : (Exists(u)' <=> Exists(u))
      /\ \A u \in Tasks \ {t} : task'[u].status = task[u].status
  BY <1>1, <1>2, <1>5 DEF Exists, Gone, TypeOK, TaskRecord
<1>7. \A u \in Tasks : task[u].started => t \notin task[u].deps
  BY DependsOnFacts DEF Reopen
<1>8. StartedAfterDependencies'
  BY <1>6, <1>7 DEF Dependencies, StartedAfterDependencies, DependenciesDone
<1>9. DependenciesExist'
  BY <1>6 DEF Dependencies, DependenciesExist, ProjectOf
<1>10. Acyclic'
  <2> SUFFICES ASSUME NEW S \in SUBSET Tasks, \A u \in S : task'[u].deps \cap S # {}
               PROVE  S = {}
    BY DEF Acyclic
  <2>1. \A u \in S : task[u].deps \cap S # {}
    BY <1>6
  <2> QED BY <2>1 DEF Dependencies, Acyclic
<1>11. FollowupsExist'
  <2> SUFFICES ASSUME NEW j \in Jobs, NEW u \in job'[j].followup
               PROVE  u \in Tasks /\ TaskJob[u] = j /\ Exists(u)'
    BY DEF FollowupsExist, TasksOf
  <2>1. u \in Tasks /\ TaskJob[u] = j /\ Exists(u)
    BY <1>4 DEF Dependencies, FollowupsExist, TasksOf
  <2> QED BY <1>6, <2>1
<1>12. GoneIsBlank'
  <2> SUFFICES ASSUME NEW u \in Tasks, ~Exists(u)' PROVE task'[u].deps = {} /\ ~task'[u].started
    BY DEF GoneIsBlank
  <2> QED BY <1>6 DEF Dependencies, GoneIsBlank
<1> QED BY <1>8, <1>9, <1>10, <1>11, <1>12 DEF Dependencies

\* Deletion removes whole Jobs, and no Task that stays depends on one that goes.
LEMMA RemovalKeeps ==
    ASSUME TypeOK, Dependencies, NEW js, Removable(js), RemoveTasks(js),
           \A j \in Jobs \ js : job'[j].followup = job[j].followup,
           \A j \in Jobs : j \in js => job'[j].followup = {}
    PROVE  Dependencies'
<1> DEFINE gone == TasksOf(js)
<1>1. /\ \A t \in gone : task'[t].deps = {} /\ task'[t].started = FALSE /\ ~Exists(t)'
      /\ \A t \in Tasks \ gone : task'[t] = task[t] /\ (Exists(t)' <=> Exists(t))
      /\ gone \subseteq Tasks
  <2>1. \A t \in gone : task'[t] = [NewTask EXCEPT !.status = "DELETED"] /\ t \in Tasks
    BY DEF RemoveTasks, TasksOf
  <2>2. \A t \in gone : /\ task'[t].deps = {} /\ task'[t].started = FALSE
                        /\ task'[t].status = "DELETED"
    BY <2>1 DEF NewTask
  <2>3. \A t \in Tasks \ gone : task'[t] = task[t]
    BY DEF RemoveTasks
  <2> QED BY <2>1, <2>2, <2>3 DEF Exists, Gone
<1>2. \A t \in Tasks \ gone : task[t].deps \subseteq Tasks \ gone
  <2> TAKE t \in Tasks \ gone
  <2>1. task[t].deps \subseteq Tasks
    BY DEF TypeOK, TaskRecord
  <2>2. CASE Exists(t)
    BY <2>1, <2>2 DEF Removable, TasksOf
  <2>3. CASE ~Exists(t)
    BY <2>3 DEF Dependencies, GoneIsBlank
  <2> QED BY <2>1, <2>2, <2>3
<1>3. \A j \in Jobs \ js : \A t \in job[j].followup : t \in Tasks \ gone
  BY DEF Dependencies, FollowupsExist, TasksOf
<1> HIDE DEF gone
<1>4. \A t \in Tasks : task'[t].deps \subseteq task[t].deps
  BY <1>1
<1>5. StartedAfterDependencies'
  BY <1>1, <1>2 DEF Dependencies, StartedAfterDependencies, DependenciesDone
<1>6. DependenciesExist'
  BY <1>1, <1>2 DEF Dependencies, DependenciesExist, ProjectOf
<1>7. Acyclic'
  <2> SUFFICES ASSUME NEW S \in SUBSET Tasks, \A u \in S : task'[u].deps \cap S # {}
               PROVE  S = {}
    BY DEF Acyclic
  <2>1. \A u \in S : task[u].deps \cap S # {}
    BY <1>4
  <2> QED BY <2>1 DEF Dependencies, Acyclic
<1>8. FollowupsExist'
  <2> SUFFICES ASSUME NEW j \in Jobs, NEW u \in job'[j].followup
               PROVE  u \in Tasks /\ TaskJob[u] = j /\ Exists(u)'
    BY DEF FollowupsExist, TasksOf
  <2>1. j \notin js /\ u \in job[j].followup
    OBVIOUS
  <2>2. u \in Tasks /\ TaskJob[u] = j /\ Exists(u)
    BY <2>1 DEF Dependencies, FollowupsExist, TasksOf
  <2> QED BY <1>1, <1>3, <2>1, <2>2
<1>9. GoneIsBlank'
  <2> SUFFICES ASSUME NEW u \in Tasks, ~Exists(u)' PROVE task'[u].deps = {} /\ ~task'[u].started
    BY DEF GoneIsBlank
  <2> QED BY <1>1 DEF Dependencies, GoneIsBlank
<1> QED BY <1>5, <1>6, <1>7, <1>8, <1>9 DEF Dependencies

\* Deleting a Job or a Project.
LEMMA DeletionKeeps ==
    ASSUME TypeOK, Dependencies,
           \/ \E j \in Jobs : DeleteJob(j)
           \/ \E p \in Projects : DeleteProject(p)
    PROVE  Dependencies'
<1> DEFINE goneJob == [NewJob EXCEPT !.status = "DELETED"]
<1>1. goneJob.followup = {}
  BY DEF NewJob
<1>2. PICK js \in SUBSET Jobs : /\ Removable(js) /\ RemoveTasks(js)
                               /\ job' = [j \in Jobs |-> IF j \in js THEN goneJob ELSE job[j]]
  <2>1. ASSUME NEW j \in Jobs, DeleteJob(j)
        PROVE  job' = [k \in Jobs |-> IF k \in {j} THEN goneJob ELSE job[k]]
    BY <2>1 DEF DeleteJob, TypeOK
  <2>2. ASSUME NEW p \in Projects, DeleteProject(p)
        PROVE  LET js == {j \in Jobs : JobProject[j] = p /\ JobExists(j)}
               IN  /\ Removable(js) /\ RemoveTasks(js)
                   /\ job' = [j \in Jobs |-> IF j \in js THEN goneJob ELSE job[j]]
    BY <2>2 DEF DeleteProject
  <2>3. CASE \E j \in Jobs : DeleteJob(j)
    <3>1. PICK j \in Jobs : DeleteJob(j)
      BY <2>3
    <3> WITNESS {j} \in SUBSET Jobs
    <3> QED BY <2>1, <3>1 DEF DeleteJob
  <2>4. CASE \E p \in Projects : DeleteProject(p)
    <3>1. PICK p \in Projects : DeleteProject(p)
      BY <2>4
    <3> DEFINE js == {j \in Jobs : JobProject[j] = p /\ JobExists(j)}
    <3> WITNESS js \in SUBSET Jobs
    <3> QED BY <2>2, <3>1
  <2> QED BY <2>3, <2>4
<1> HIDE DEF goneJob
<1> QED BY <1>1, <1>2, RemovalKeeps

----------------------------------------------------------------------------
\* Every step keeps the dependency invariant.
LEMMA DependenciesStep ==
    ASSUME TypeOK, Ownership, Dependencies, [Next]_vars
    PROVE  Dependencies'
<1>1. CASE UNCHANGED vars
  <2>1. (\A t \in Tasks : QuietTask(t)) /\ (\A j \in Jobs : QuietJob(j))
    BY <1>1 DEF vars, QuietTask, QuietJob, Exists
  <2> QED BY <2>1, QuietKeeps
<1>2. ASSUME NEW t \in Tasks, TaskCommand(t) PROVE Dependencies'
  <2>1. CASE AddTask(t)
    BY <2>1, AddTaskKeeps
  <2>2. ASSUME NEW d \in Tasks, NEW caller, Depend(t, d, caller) \/ Undepend(t, d, caller)
        PROVE  Dependencies'
    BY <2>2, DependKeeps
  <2>3. ASSUME NEW from, NEW caller, Reopen(t, from, caller) PROVE Dependencies'
    BY <2>3, ReopenKeeps
  <2>4. ASSUME NEW caller,
               \/ \E e \in Executors, s \in Sessions : Claim(t, e, s)
               \/ RegisterPlan(t, caller)
               \/ Start(t, caller)
               \/ Heartbeat(t, caller)
               \/ \E policy \in Policies \cup {Keep} :
                     \/ \E to \in {"BLOCKED", "WAITING_USER", "FAILED", "CANCELLED"} :
                           SetAside(t, to, caller, policy)
                     \/ Done(t, caller, policy)
                     \/ DoneByHuman(t, policy)
        PROVE  Dependencies'
    <3>1. (\A u \in Tasks : QuietTask(u)) /\ (\A j \in Jobs : QuietJob(j))
      BY <2>4, TaskCommandQuiet
    <3> QED BY <3>1, QuietKeeps
  <2> QED BY <1>2, <2>1, <2>2, <2>3, <2>4 DEF TaskCommand
<1>3. CASE \/ \E s \in Sessions : SessionCommand(s)
           \/ \E t \in Tasks : Expire(t)
           \/ Reap
  BY <1>3, SessionsQuiet, QuietKeeps
<1>4. CASE (\E j \in Jobs : DeleteJob(j)) \/ (\E p \in Projects : DeleteProject(p))
  BY <1>4, DeletionKeeps
<1>5. CASE \/ \E j \in Jobs : JobCommand(j) /\ ~DeleteJob(j)
           \/ \E i \in Issues : IssueCommand(i)
           \/ \E p \in Projects : ProjectCommand(p) /\ ~DeleteProject(p)
  BY <1>5, OthersQuiet, QuietKeeps
<1> QED BY <1>1, <1>2, <1>3, <1>4, <1>5 DEF Next

\* An empty store has an empty graph.
LEMMA InitDependencies == Init => Dependencies
<1> SUFFICES ASSUME Init PROVE Dependencies
  OBVIOUS
<1>1. \A t \in Tasks : task[t].deps = {} /\ ~task[t].started
  BY DEF Init, NewTask
<1>2. \A j \in Jobs : job[j].followup = {}
  BY DEF Init, NewJob
<1> QED BY <1>1, <1>2 DEF Dependencies, StartedAfterDependencies, DependenciesDone, Acyclic,
                          DependenciesExist, FollowupsExist, GoneIsBlank

\* The dependency invariant holds in every state.
LEMMA DependenciesHold == Spec => []Dependencies
BY InitDependencies, DependenciesStep, TypesHold, OwnershipHolds, PTL DEF Spec

\* For any number of Tasks, and whatever is reopened, deleted, linked or followed
\* up: the dependencies of a started Task are DONE and stay DONE (a DONE Task that
\* started work depends on is not reopened), the graph never has a cycle, and it
\* never leaves the Project nor points at a removed Task.
THEOREM DependenciesSoundHolds == Spec => []DependenciesSound
<1>1. Dependencies => DependenciesSound
  BY DEF Dependencies, DependenciesSound
<1> QED BY <1>1, DependenciesHold, PTL
=============================================================================
