---------------------------- MODULE MCTaskStore ----------------------------
(***************************************************************************)
(* Instances of TaskStore.  The .cfg files choose how many Tasks each of   *)
(* two Jobs of one Project may have, and which commands are issued.        *)
(***************************************************************************)
EXTENDS TaskStore, TLC

CONSTANTS p1, j1, j2, t1, t2, t3, i1, e1, e2, s1, s2

MCTaskJob == [t \in Tasks |-> IF t = t3 THEN j2 ELSE j1]
MCJobProject == [j \in Jobs |-> p1]
MCIssueProject == [i \in Issues |-> p1]

TaskSymmetry == Permutations({t1, t2})
ExecutorSymmetry == Permutations({s1, s2}) \cup Permutations({e1, e2})

ExecutionCommands ==
    {"project.register", "job.create", "job.delete", "task.add", "task.claim",
     "plan.register", "task.start", "task.depend", "task.undepend",
     "task.cancel", "task.fail", "task.done", "task.retry", "task.reopen", "job.followup"}

LeaseCommands ==
    {"project.register", "job.create", "job.cancel", "job.delete", "job.approve.human",
     "task.add", "task.claim", "plan.register", "task.start", "task.heartbeat",
     "task.block", "task.wait", "task.done", "task.done.human", "task.reopen",
     "session.end", "session.start", "session.heartbeat", "time"}

ExecutionAndLeases == ExecutionCommands \cup LeaseCommands

DeliveryCommands ==
    {"project.register", "project.archive", "project.unarchive", "project.delete",
     "job.create", "job.update", "job.cancel", "job.archive", "job.unarchive",
     "job.submit", "job.approve", "job.approve.human", "job.reject", "job.followup",
     "job.delete", "issue.create", "issue.update", "issue.start", "issue.submit",
     "issue.approve", "issue.reject", "issue.cancel", "issue.reopen", "issue.archive",
     "task.add", "task.claim", "plan.register", "task.start", "task.heartbeat",
     "task.block", "task.wait", "task.fail", "task.cancel", "task.done",
     "task.done.human", "task.retry", "task.reopen", "session.end", "session.start",
     "session.heartbeat", "time"}
============================================================================
