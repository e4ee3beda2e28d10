--------------------------- MODULE MemoryPipeline ---------------------------
(***************************************************************************)
(* How a recorded discussion turn becomes searchable memory, and how the   *)
(* cancellation of its Job takes that memory back.  Two databases: the     *)
(* task database keeps an outbox of immutable turn receipts and a history  *)
(* of Job cancellations; the memory database keeps the ingested sources,   *)
(* the leased work queue and the memories.  Between them run the daemon's  *)
(* polling task, its workers, and request handlers that must not answer    *)
(* with revoked memories.                                                  *)
(*                                                                         *)
(* Abstractions.  One Project and one source instance.  A receipt is its   *)
(* outbox sequence; a memory's evidence is the set of receipts it cites;   *)
(* source_jobs is what its only writer index_receipts makes it, the join   *)
(* of `sources' and `binds'.  A source is one extraction chunk and yields  *)
(* at most one candidate batch.  Time is the `expired' flag of a lease;    *)
(* retry backoff only delays a claim and is left out, and so is the author *)
(* of a memory, which only narrows what may be done to it.  A consolidation*)
(* target is chosen when the decision commits: the revision check refuses  *)
(* every decision taken on an older version.  Assessments of further       *)
(* related memories, facts, forgetting, compaction, repository review,     *)
(* embeddings and human edits are left out.                                *)
(***************************************************************************)
EXTENDS Naturals, Sequences, FiniteSets

CONSTANTS
    Turns,          \* discussion turns of the Project
    Jobs,           \* Jobs a turn may be attached to
    Workers,        \* worker slots of the daemon
    Callers,        \* of sync_cancellations: the polling task, and requests
    None,
    MaxConcurrent,  \* max_concurrent_loops
    MaxExtraction,  \* max_extraction_loops_per_project
    MaxAttempts,    \* max_attempts of a work item
    EventPage,      \* cancellation events read by one synchronisation
    MaxOutbox,      \* bound: receipts captured
    MaxEvidence,    \* bound: receipts a candidate cites
    MaxWritten,     \* bound: memories when a user writes one
    FaultKinds,     \* the faults that may happen, of "slow", "call", "crash", "restart"
    MaxFaults       \* bound: faults

ASSUME LimitsPositive ==
    {MaxConcurrent, MaxExtraction, MaxAttempts, EventPage} \subseteq Nat \ {0}
ASSUME BoundsNat == {MaxOutbox, MaxEvidence, MaxWritten, MaxFaults} \subseteq Nat
ASSUME PollCalls == Callers \subseteq {"poll", "request"} /\ "poll" \in Callers
ASSUME NoneIsNothing == None \notin Turns \cup Jobs \cup Workers

VARIABLES
    outbox,         \* memory_source_outbox: turn, Job, acknowledged
    turnJob,        \* discussion_turns.job_id
    jobActive,      \* Jobs not cancelled
    cancels,        \* memory_job_cancellations, with the outbox length then
    sources,        \* receipts ingested
    binds,          \* source_job_turns
    tombstones,     \* cancelled_jobs
    head,           \* source_heads: the receipt enqueued last for a turn, or 0
    work,           \* work_items
    memories,       \* memories: evidence and status
    replayCursor,   \* replay_cursor
    cancelCursor,   \* cancellation_cursor
    poll,           \* the receipt the polling task is at, and how far
    sync,           \* a sync_cancellations call per caller
    request,        \* the retrieval being answered
    lease,          \* per worker, the lease it runs
    faults          \* faults so far

taskDb == <<outbox, turnJob, jobActive, cancels>>
memoryDb == <<sources, binds, tombstones, head, work, memories, replayCursor,
              cancelCursor>>
daemon == <<poll, sync, request, lease>>
vars == <<taskDb, memoryDb, daemon, faults>>

----------------------------------------------------------------------------
Receipts == DOMAIN outbox
TurnOf(r) == outbox[r].turn
JobOf(r) == outbox[r].job

\* A turn's receipts carry consecutive revisions in capture order.
Revision(r) == Cardinality({s \in 1..r : TurnOf(s) = TurnOf(r)})

Idle == [step |-> "idle", receipt |-> 0, replay |-> FALSE]
NoSync == [step |-> "idle", next |-> 0, last |-> 0, size |-> 0, todo |-> {}]
NoRequest == [step |-> "none", began |-> 0, before |-> 0, answer |-> {}]
NoLease == [item |-> 0, generation |-> 0]

NewWork(r, kind, evidence) ==
    [receipt |-> r, kind |-> kind, evidence |-> evidence, state |-> "pending",
     attempts |-> 0, generation |-> 0, owner |-> None, expired |-> FALSE]

Init ==
    /\ outbox = <<>> /\ cancels = <<>>
    /\ turnJob = [t \in Turns |-> None]
    /\ jobActive = Jobs
    /\ sources = {} /\ binds = {} /\ tombstones = {}
    /\ head = [t \in Turns |-> 0]
    /\ work = <<>> /\ memories = <<>>
    /\ replayCursor = 0 /\ cancelCursor = 0
    /\ poll = Idle
    /\ sync = [c \in Callers |-> NoSync]
    /\ request = NoRequest
    /\ lease = [w \in Workers |-> NoLease]
    /\ faults = 0

----------------------------------------------------------------------------
(* The task database: recording, attaching, cancelling.                    *)

capture(t, j) ==
    /\ Len(outbox) < MaxOutbox
    /\ outbox' = Append(outbox, [turn |-> t, job |-> j, acknowledged |-> FALSE])

\* session.record with new messages: captured under the Job bound so far.
RecordTurn(t) ==
    /\ capture(t, turnJob[t])
    /\ UNCHANGED <<turnJob, jobActive, cancels, memoryDb, daemon, faults>>

\* conversation.attach of a recorded turn to an active Job.
AttachTurn(t, j) ==
    /\ \E r \in Receipts : TurnOf(r) = t
    /\ turnJob[t] = None
    /\ j \in jobActive
    /\ capture(t, j)
    /\ turnJob' = [turnJob EXCEPT ![t] = j]
    /\ UNCHANGED <<jobActive, cancels, memoryDb, daemon, faults>>

\* The trigger memory_job_cancelled commits with the Job's update; no command
\* reopens a cancelled Job.
CancelJob(j) ==
    /\ j \in jobActive
    /\ jobActive' = jobActive \ {j}
    /\ cancels' = Append(cancels, [job |-> j, at |-> Len(outbox)])
    /\ UNCHANGED <<outbox, turnJob, memoryDb, daemon, faults>>

----------------------------------------------------------------------------
(* Transactions of the memory database.                                    *)

\* source_jobs: the ingested receipts of turns bound to j.
SourcesOf(j, bs, ss) == {r \in ss : <<TurnOf(r), j>> \in bs}

source_valid(r, bs) == \A j \in tombstones : <<TurnOf(r), j>> \notin bs

RevokeWork(rs) ==
    [i \in DOMAIN work |->
        IF work[i].receipt \in rs /\ work[i].state \in {"pending", "running", "failed"}
        THEN [work[i] EXCEPT !.state = "cancelled", !.owner = None,
                             !.expired = FALSE, !.generation = @ + 1]
        ELSE work[i]]

RevokeMemories(rs) ==
    [m \in DOMAIN memories |->
        IF memories[m].evidence \cap rs # {}
        THEN [memories[m] EXCEPT !.status = "invalidated"]
        ELSE memories[m]]

\* A newer revision cancels the unfinished work of the one before it.
CancelSuperseded(r) ==
    [i \in DOMAIN work |->
        IF work[i].receipt = r /\ work[i].state \in {"pending", "running"}
        THEN [work[i] EXCEPT !.state = "cancelled", !.owner = None, !.expired = FALSE]
        ELSE work[i]]

\* Mutant: the work of an older revision is left in the queue.
EnqueueKeepsPrior(r) ==
    LET prior == head[TurnOf(r)] IN
    IF prior # 0 /\ Revision(prior) >= Revision(r)
    THEN UNCHANGED <<head, work>>
    ELSE /\ work' = Append(work, NewWork(r, "extract", {}))
         /\ head' = [head EXCEPT ![TurnOf(r)] = r]

enqueue_source(r) ==
    LET prior == head[TurnOf(r)] IN
    IF prior # 0 /\ Revision(prior) >= Revision(r)
    THEN UNCHANGED <<head, work>>
    ELSE /\ work' = Append(CancelSuperseded(prior), NewWork(r, "extract", {}))
         /\ head' = [head EXCEPT ![TurnOf(r)] = r]

\* Mutant: a receipt without a Job is bound as well.
BindAlways(r) == binds \cup {<<TurnOf(r), JobOf(r)>>}

BindTurn(r) ==
    IF JobOf(r) = None THEN binds ELSE binds \cup {<<TurnOf(r), JobOf(r)>>}

\* A receipt is stored once; one of a cancelled Job is stored and revoked
\* with the other receipts of its turn, never enqueued.
ingest(r) ==
    LET bs == BindTurn(r)
        ss == sources \cup {r}
        revoked == UNION {SourcesOf(j, bs, ss) :
                              j \in {k \in tombstones : <<TurnOf(r), k>> \in bs}}
    IN  IF r \in sources
        THEN UNCHANGED <<sources, binds, head, work, memories>>
        ELSE /\ sources' = ss
             /\ binds' = bs
             /\ IF source_valid(r, bs)
                THEN enqueue_source(r) /\ UNCHANGED memories
                ELSE /\ work' = RevokeWork(revoked)
                     /\ memories' = RevokeMemories(revoked)
                     /\ UNCHANGED head

----------------------------------------------------------------------------
(* poll_sources: intake of pending receipts, and replay of every receipt   *)
(* in outbox order.  The task is sequential; a failed call is reported and *)
(* the loop goes on, so rounds may take receipts in any order.             *)

PollFree == poll = Idle /\ sync["poll"] = NoSync

Ingest(r, replay) ==
    /\ ingest(r)
    /\ poll' = [step |-> "acknowledge", receipt |-> r, replay |-> replay]
    /\ UNCHANGED <<taskDb, tombstones, replayCursor, cancelCursor, sync, request,
                   lease, faults>>

IntakeSource ==
    /\ PollFree
    /\ \E r \in Receipts : ~outbox[r].acknowledged /\ Ingest(r, FALSE)

\* Mutant: replay skips what was acknowledged before.
ReplayUnacknowledged ==
    /\ PollFree
    /\ replayCursor < Len(outbox)
    /\ ~outbox[replayCursor + 1].acknowledged
    /\ Ingest(replayCursor + 1, TRUE)

ReplaySource ==
    /\ PollFree
    /\ replayCursor < Len(outbox)
    /\ Ingest(replayCursor + 1, TRUE)

AcknowledgeSource ==
    /\ poll.step = "acknowledge"
    /\ outbox' = [outbox EXCEPT ![poll.receipt].acknowledged = TRUE]
    /\ poll' = IF poll.replay THEN [poll EXCEPT !.step = "checkpoint"] ELSE Idle
    /\ UNCHANGED <<turnJob, jobActive, cancels, memoryDb, sync, request, lease,
                   faults>>

checkpoint_replay ==
    /\ poll.step = "checkpoint"
    /\ poll.receipt \in sources
    /\ replayCursor' = poll.receipt
    /\ poll' = Idle
    /\ UNCHANGED <<taskDb, sources, binds, tombstones, head, work, memories,
                   cancelCursor, sync, request, lease, faults>>

----------------------------------------------------------------------------
(* sync_cancellations, by the polling task and by every request.           *)

SmallerOf(a, b) == IF a < b THEN a ELSE b

\* One page of events past the persisted cursor; an empty page is success.
Page ==
    LET size == SmallerOf(EventPage, Len(cancels) - cancelCursor) IN
    [step |-> "sources", next |-> cancelCursor + 1, last |-> cancelCursor + size,
     size |-> size, todo |-> {}]

PollSync ==
    /\ PollFree
    /\ cancelCursor < Len(cancels)
    /\ sync' = [sync EXCEPT !["poll"] = Page]
    /\ UNCHANGED <<taskDb, memoryDb, poll, request, lease, faults>>

\* Mutant: an event of a Job without receipts needs no tombstone.
SyncSkipsUnattached(c) ==
    LET rs == {r \in Receipts : JobOf(r) = cancels[sync[c].next].job} IN
    /\ c \in Callers /\ sync[c].step = "sources"
    /\ sync[c].next <= sync[c].last
    /\ sync' = [sync EXCEPT ![c].step = IF rs = {} THEN "checkpoint" ELSE "bind",
                            ![c].todo = rs]
    /\ UNCHANGED <<taskDb, memoryDb, poll, request, lease, faults>>

SyncReadSources(c) ==
    /\ c \in Callers /\ sync[c].step = "sources"
    /\ sync[c].next <= sync[c].last
    /\ sync' = [sync EXCEPT ![c].step = "bind",
                            ![c].todo = {r \in Receipts :
                                            JobOf(r) = cancels[sync[c].next].job}]
    /\ UNCHANGED <<taskDb, memoryDb, poll, request, lease, faults>>

\* Mutant: only the Job of a turn's ingested receipts counts.
BindIngestedOnly(c) ==
    /\ c \in Callers /\ sync[c].step = "bind"
    /\ \E r \in sync[c].todo :
        /\ \A s \in sync[c].todo : r <= s
        /\ binds' = IF r \in sources THEN BindTurn(r) ELSE binds
        /\ sync' = [sync EXCEPT ![c].todo = @ \ {r}]
    /\ UNCHANGED <<taskDb, sources, tombstones, head, work, memories, replayCursor,
                   cancelCursor, poll, request, lease, faults>>

bind_cancelled_source(c) ==
    /\ c \in Callers /\ sync[c].step = "bind"
    /\ \E r \in sync[c].todo :
        /\ \A s \in sync[c].todo : r <= s
        /\ binds' = BindTurn(r)
        /\ sync' = [sync EXCEPT ![c].todo = @ \ {r}]
    /\ UNCHANGED <<taskDb, sources, tombstones, head, work, memories, replayCursor,
                   cancelCursor, poll, request, lease, faults>>

invalidate_job(c) ==
    LET j == cancels[sync[c].next].job
        rs == SourcesOf(j, binds, sources)
    IN  /\ c \in Callers /\ sync[c].step = "bind" /\ sync[c].todo = {}
        /\ tombstones' = tombstones \cup {j}
        /\ work' = RevokeWork(rs)
        /\ memories' = RevokeMemories(rs)
        /\ sync' = [sync EXCEPT ![c].step = "checkpoint"]
        /\ UNCHANGED <<taskDb, sources, binds, head, replayCursor, cancelCursor, poll,
                       request, lease, faults>>

checkpoint_cancellations(c) ==
    /\ c \in Callers /\ sync[c].step = "checkpoint"
    /\ cancelCursor' = IF cancelCursor < sync[c].next THEN sync[c].next ELSE cancelCursor
    /\ sync' = [sync EXCEPT ![c].step = "sources", ![c].next = @ + 1]
    /\ UNCHANGED <<taskDb, sources, binds, tombstones, head, work, memories,
                   replayCursor, poll, request, lease, faults>>

SyncEnds(c) == c \in Callers /\ sync[c].step = "sources" /\ sync[c].next > sync[c].last

PollSyncEnds ==
    /\ SyncEnds("poll")
    /\ sync' = [sync EXCEPT !["poll"] = NoSync]
    /\ UNCHANGED <<taskDb, memoryDb, poll, request, lease, faults>>

----------------------------------------------------------------------------
(* Application::handle of a retrieval: synchronise, query, synchronise and *)
(* refuse the answer when the cursor moved meanwhile.  `began' is the      *)
(* history of cancellations when the last synchronisation began.           *)

Searchable == {"active", "conflicted"}

RequestBegins ==
    /\ request.step \in {"none", "answered"}
    /\ "request" \in Callers
    /\ request' = [NoRequest EXCEPT !.step = "sync", !.began = Len(cancels)]
    /\ sync' = [sync EXCEPT !["request"] = Page]
    /\ UNCHANGED <<taskDb, memoryDb, poll, lease, faults>>

\* A full page of events is a backlog: the request fails and may be retried.
RequestSyncEnds ==
    /\ SyncEnds("request")
    /\ request' = IF sync["request"].size >= EventPage
                  THEN NoRequest
                  ELSE [request EXCEPT !.step = IF @ = "sync" THEN "mark" ELSE "check"]
    /\ sync' = [sync EXCEPT !["request"] = NoSync]
    /\ UNCHANGED <<taskDb, memoryDb, poll, lease, faults>>

RequestMarks ==
    /\ request.step = "mark"
    /\ request' = [request EXCEPT !.step = "query", !.before = cancelCursor]
    /\ UNCHANGED <<taskDb, memoryDb, poll, sync, lease, faults>>

RequestQueries ==
    /\ request.step = "query"
    /\ request' = [request EXCEPT
                      !.step = "recheck",
                      !.answer = {memories[m].evidence :
                                    m \in {n \in DOMAIN memories :
                                             memories[n].status \in Searchable}}]
    /\ UNCHANGED <<taskDb, memoryDb, poll, sync, lease, faults>>

RequestRechecks ==
    /\ request.step = "recheck" /\ sync["request"] = NoSync
    /\ request' = [request EXCEPT !.began = Len(cancels)]
    /\ sync' = [sync EXCEPT !["request"] = Page]
    /\ UNCHANGED <<taskDb, memoryDb, poll, lease, faults>>

\* Mutant: the answer is given although the cursor moved.
ReturnsAnyway ==
    /\ request.step = "check"
    /\ request' = [NoRequest EXCEPT !.step = "answered"]
    /\ UNCHANGED <<taskDb, memoryDb, poll, sync, lease, faults>>

RequestReturns ==
    /\ request.step = "check"
    /\ request' = IF request.before = cancelCursor
                  THEN [NoRequest EXCEPT !.step = "answered"]
                  ELSE NoRequest
    /\ UNCHANGED <<taskDb, memoryDb, poll, sync, lease, faults>>

\* Mutant: evidence has to exist, revoked or not.
EvidenceExists(E) == E \subseteq sources

EvidenceValid(E) == \A r \in E : r \in sources /\ source_valid(r, binds)
NewMemory(E, status) == [evidence |-> E, status |-> status]

\* memory create and supersede through the API, validated in their
\* transaction like the writes of workers.
UserWrites ==
    /\ Len(memories) < MaxWritten
    /\ \E E \in SUBSET sources :
        /\ Cardinality(E) \in 1..MaxEvidence /\ EvidenceValid(E)
        /\ \/ memories' = Append(memories, NewMemory(E, "active"))
           \/ \E m \in DOMAIN memories :
                /\ memories[m].status \in Searchable
                /\ memories' = Append([memories EXCEPT ![m].status = "superseded"],
                                      NewMemory(E, "active"))
    /\ UNCHANGED <<taskDb, sources, binds, tombstones, head, work, replayCursor,
                   cancelCursor, daemon, faults>>

----------------------------------------------------------------------------
(* The work queue and its workers.                                         *)

Running(kind, ws) ==
    {i \in DOMAIN ws : ws[i].state = "running" /\ ~ws[i].expired /\ ws[i].kind = kind}

\* Mutant: an expired last attempt is left running.
GiveUpNothing == work

\* Leases that expired on their last attempt are given up by the next claim.
GiveUp ==
    [i \in DOMAIN work |->
        IF work[i].state = "running" /\ work[i].expired /\ work[i].attempts >= MaxAttempts
        THEN [work[i] EXCEPT !.state = "failed", !.owner = None, !.expired = FALSE]
        ELSE work[i]]

KindLimit(kind) == IF kind = "consolidate" THEN 1 ELSE MaxExtraction

Claimable(ws) ==
    {i \in DOMAIN ws :
        /\ ws[i].state = "pending" \/ (ws[i].state = "running" /\ ws[i].expired)
        /\ ws[i].attempts < MaxAttempts
        /\ Cardinality(Running(ws[i].kind, ws)) < KindLimit(ws[i].kind)}

HasCapacity ==
    Cardinality(Running("extract", work) \cup Running("consolidate", work)) < MaxConcurrent

claim_work(w) ==
    LET ws == GiveUp IN
    /\ lease[w] = NoLease
    /\ HasCapacity
    /\ \E i \in Claimable(ws) :
        /\ \A k \in Claimable(ws) : i <= k
        /\ work' = [ws EXCEPT ![i] = [ws[i] EXCEPT !.state = "running", !.owner = w,
                                                  !.attempts = @ + 1, !.expired = FALSE,
                                                  !.generation = @ + 1]]
        /\ lease' = [lease EXCEPT ![w] = [item |-> i, generation |-> ws[i].generation + 1]]
    /\ UNCHANGED <<taskDb, sources, binds, tombstones, head, memories, replayCursor,
                   cancelCursor, poll, sync, request, faults>>

\* A claim that finds nothing to lease still gives up what has run out.
claim_nothing(w) ==
    /\ lease[w] = NoLease
    /\ ~HasCapacity \/ Claimable(GiveUp) = {}
    /\ work' = GiveUp
    /\ UNCHANGED <<taskDb, sources, binds, tombstones, head, memories, replayCursor,
                   cancelCursor, daemon, faults>>

\* Mutant: a lease needs no fence.
Unfenced(w) == lease[w].item # 0

\* What fence and work_is_current ask of a lease.
Current(w) ==
    LET i == lease[w].item IN
    /\ i # 0
    /\ work[i].state = "running" /\ ~work[i].expired
    /\ work[i].owner = w /\ work[i].generation = lease[w].generation

Finished(i) == [work EXCEPT ![i] = [@ EXCEPT !.state = "done", !.owner = None]]

complete_extraction(w) ==
    LET i == lease[w].item IN
    /\ Current(w) /\ work[i].kind = "extract"
    /\ \/ work' = Finished(i)
       \/ \E E \in SUBSET sources :
            /\ work[i].receipt \in E /\ Cardinality(E) <= MaxEvidence
            /\ EvidenceValid(E)
            /\ work' = Append(Finished(i), NewWork(work[i].receipt, "consolidate", E))
    /\ lease' = [lease EXCEPT ![w] = NoLease]
    /\ UNCHANGED <<taskDb, sources, binds, tombstones, head, memories, replayCursor,
                   cancelCursor, poll, sync, request, faults>>

\* The decisions on a candidate: discard, create, or reconcile with m.  The
\* content that is stored keeps the candidate's evidence and may cite more.
Consolidated(E) ==
    \/ UNCHANGED memories
    \/ \E F \in SUBSET sources :
        /\ E \subseteq F /\ Cardinality(F) <= MaxEvidence
        /\ EvidenceValid(F)
        /\ \/ memories' = Append(memories, NewMemory(F, "active"))
           \/ \E m \in DOMAIN memories :
                /\ memories[m].status \in Searchable
                /\ \/ /\ EvidenceValid(memories[m].evidence)
                      /\ memories' = [memories EXCEPT ![m].evidence = @ \cup F]
                   \/ memories' = Append([memories EXCEPT ![m].status = "superseded"],
                                         NewMemory(F, "active"))
                   \/ /\ EvidenceValid(memories[m].evidence)
                      /\ memories' = Append([memories EXCEPT ![m].status = "conflicted"],
                                            NewMemory(F, "conflicted"))

complete_consolidation(w) ==
    LET i == lease[w].item IN
    /\ Current(w) /\ work[i].kind = "consolidate"
    /\ Consolidated(work[i].evidence)
    /\ work' = Finished(i)
    /\ lease' = [lease EXCEPT ![w] = NoLease]
    /\ UNCHANGED <<taskDb, sources, binds, tombstones, head, replayCursor, cancelCursor,
                   poll, sync, request, faults>>

\* The loop failed; a permanent provider error is not retried.
fail_work(w) ==
    LET i == lease[w].item IN
    /\ Current(w)
    /\ \E retry \in BOOLEAN :
        work' = [work EXCEPT ![i] = [@ EXCEPT
                    !.owner = None,
                    !.state = IF ~retry \/ work[i].attempts >= MaxAttempts
                              THEN "failed" ELSE "pending"]]
    /\ lease' = [lease EXCEPT ![w] = NoLease]
    /\ UNCHANGED <<taskDb, sources, binds, tombstones, head, memories, replayCursor,
                   cancelCursor, poll, sync, request, faults>>

\* A lease that is no longer current is dropped without a write.
Abandon(w) ==
    /\ lease[w] # NoLease /\ ~Current(w)
    /\ lease' = [lease EXCEPT ![w] = NoLease]
    /\ UNCHANGED <<taskDb, memoryDb, poll, sync, request, faults>>

----------------------------------------------------------------------------
(* Time and faults.                                                        *)

\* Nobody runs the lease any more: its time simply passes.
Orphan(i) == \A w \in Workers : lease[w].item = i => ~Current(w)

Expire(i) ==
    /\ work[i].state = "running" /\ ~work[i].expired
    /\ work' = [work EXCEPT ![i].expired = TRUE]
    /\ UNCHANGED <<taskDb, sources, binds, tombstones, head, memories, replayCursor,
                   cancelCursor, daemon>>

OrphanExpires == \E i \in DOMAIN work : Orphan(i) /\ Expire(i) /\ UNCHANGED faults

Fault(kind) == kind \in FaultKinds /\ faults < MaxFaults /\ faults' = faults + 1

\* The worker outlives its lease.
SlowWorker == Fault("slow") /\ \E i \in DOMAIN work : ~Orphan(i) /\ Expire(i)

\* A database call of the polling task fails: the receipt or page is left.
PollFails ==
    /\ Fault("call")
    /\ poll # Idle \/ sync["poll"] # NoSync
    /\ poll' = Idle
    /\ sync' = [sync EXCEPT !["poll"] = NoSync]
    /\ UNCHANGED <<taskDb, memoryDb, request, lease>>

RequestFails ==
    /\ Fault("call")
    /\ request.step \notin {"none", "answered"}
    /\ request' = NoRequest
    /\ sync' = [sync EXCEPT !["request"] = NoSync]
    /\ UNCHANGED <<taskDb, memoryDb, poll, lease>>

DaemonStops ==
    /\ poll' = Idle
    /\ sync' = [c \in Callers |-> NoSync]
    /\ request' = NoRequest
    /\ lease' = [w \in Workers |-> NoLease]

Crash == Fault("crash") /\ DaemonStops /\ UNCHANGED <<taskDb, memoryDb>>

\* The daemon restarts on a memory database without history: replay and
\* cancellation cursors start from zero, acknowledgements stay.
RestartEmpty ==
    /\ Fault("restart") /\ DaemonStops
    /\ sources' = {} /\ binds' = {} /\ tombstones' = {}
    /\ head' = [t \in Turns |-> 0]
    /\ work' = <<>> /\ memories' = <<>>
    /\ replayCursor' = 0 /\ cancelCursor' = 0
    /\ UNCHANGED taskDb

----------------------------------------------------------------------------
User ==
    \/ \E t \in Turns : RecordTurn(t) \/ \E j \in Jobs : AttachTurn(t, j)
    \/ \E j \in Jobs : CancelJob(j)
    \/ UserWrites

SyncStep(c) ==
    \/ SyncReadSources(c) \/ bind_cancelled_source(c)
    \/ invalidate_job(c) \/ checkpoint_cancellations(c)

PollStep ==
    \/ IntakeSource \/ ReplaySource \/ AcknowledgeSource \/ checkpoint_replay
    \/ PollSync \/ SyncStep("poll") \/ PollSyncEnds

RequestStep ==
    \/ SyncStep("request") \/ RequestSyncEnds \/ RequestMarks \/ RequestQueries
    \/ RequestRechecks \/ RequestReturns

WorkerStep(w) ==
    \/ claim_work(w) \/ claim_nothing(w)
    \/ complete_extraction(w) \/ complete_consolidation(w) \/ fail_work(w) \/ Abandon(w)

Faults == SlowWorker \/ PollFails \/ RequestFails \/ Crash \/ RestartEmpty

Next ==
    \/ User
    \/ PollStep
    \/ RequestBegins \/ RequestStep
    \/ \E w \in Workers : WorkerStep(w)
    \/ OrphanExpires
    \/ Faults

\* The polling task loops for ever, a request runs to its end, a worker slot
\* keeps claiming and ends its loop by a deadline, a lease runs out.  Users
\* and faults owe nothing.
Fairness ==
    /\ WF_vars(PollStep)
    /\ WF_vars(RequestStep)
    /\ \A w \in Workers : WF_vars(WorkerStep(w))
    /\ WF_vars(OrphanExpires)

Spec == Init /\ [][Next]_vars /\ Fairness

----------------------------------------------------------------------------
(* Properties.                                                             *)

Evidence == SUBSET Receipts

WorkRecord ==
    [receipt : Receipts, kind : {"extract", "consolidate"}, evidence : Evidence,
     state : {"pending", "running", "done", "failed", "cancelled"},
     attempts : 0..MaxAttempts, generation : Nat, owner : Workers \cup {None},
     expired : BOOLEAN]

TypeOK ==
    /\ outbox \in Seq([turn : Turns, job : Jobs \cup {None}, acknowledged : BOOLEAN])
    /\ turnJob \in [Turns -> Jobs \cup {None}]
    /\ jobActive \subseteq Jobs
    /\ cancels \in Seq([job : Jobs, at : Nat])
    /\ sources \subseteq Receipts
    /\ binds \subseteq Turns \X Jobs
    /\ tombstones \subseteq Jobs
    /\ head \in [Turns -> {0} \cup Receipts]
    /\ work \in Seq(WorkRecord)
    /\ memories \in Seq([evidence : Evidence,
                         status : Searchable \cup {"superseded", "invalidated"}])
    /\ replayCursor \in {0} \cup Receipts
    /\ cancelCursor \in 0..Len(cancels)
    /\ poll \in [step : {"idle", "acknowledge", "checkpoint"},
                 receipt : {0} \cup Receipts, replay : BOOLEAN]
    /\ sync \in [Callers -> [step : {"idle", "sources", "bind", "checkpoint"},
                             next : Nat, last : Nat, size : Nat, todo : Evidence]]
    /\ request \in [step : {"none", "sync", "mark", "query", "recheck", "check",
                            "answered"},
                    began : Nat, before : Nat, answer : SUBSET Evidence]
    /\ lease \in [Workers -> [item : {0} \cup DOMAIN work, generation : Nat]]
    /\ faults \in Nat

\* Once a receipt of a turn attached to a cancelled Job has been ingested, no
\* searchable memory cites any receipt of that turn, whichever of ingestion,
\* cancellation, extraction and consolidation came first.
RevokedUncited ==
    \A m \in DOMAIN memories : memories[m].status \in Searchable =>
        \A r \in memories[m].evidence, s \in sources :
            TurnOf(r) = TurnOf(s) => JobOf(s) \notin tombstones

\* The state is well formed, and unfinished work always belongs to the newest ingested revision of its turn,
\* and never to a turn known to be of a cancelled Job.
WorkIsCurrent ==
  /\ TypeOK
  /\ \A i \in DOMAIN work : work[i].state \in {"pending", "running"} =>
        LET r == work[i].receipt IN
        /\ r = head[TurnOf(r)]
        /\ \A s \in sources :
            TurnOf(s) = TurnOf(r) => /\ Revision(s) <= Revision(r)
                                     /\ JobOf(s) \notin tombstones

\* "A query started after a committed cancellation cannot return its facts",
\* and neither can one that was running: no answer cites a turn attached to a
\* Job before a cancellation that was committed when the request's last
\* synchronisation began.
AnswersRespectCancellation ==
    [][ (request.step = "check" /\ request'.step = "answered") =>
            \A E \in request.answer, k \in 1..request.began :
                \A r \in E, s \in 1..cancels[k].at :
                    TurnOf(r) = TurnOf(s) => JobOf(s) # cancels[k].job ]_vars

\* Replay never passes a receipt that the memory database does not have, and
\* the cancellation cursor never an event it has not applied.
CursorsCovered ==
    /\ 1..replayCursor \subseteq sources
    /\ \A k \in 1..cancelCursor : cancels[k].job \in tombstones

\* A work item has one result: at most one consolidation item follows from
\* the extraction of a receipt.
OneResultPerItem ==
    \A r \in sources :
        Cardinality({i \in DOMAIN work : work[i].receipt = r
                                        /\ work[i].kind = "consolidate"}) <= 1

\* The outbox drains: receipts are ingested and acknowledged in the end,
\* through failed calls, crashes and a memory database that lost its history.
OutboxDrains ==
    (Receipts # {}) ~> (Receipts = sources /\ \A r \in Receipts : outbox[r].acknowledged)

\* The queue drains: no work item waits or runs for ever.
QueueDrains ==
    (work # <<>>) ~> (\A i \in DOMAIN work :
                         work[i].state \in {"done", "failed", "cancelled"})

\* Outbox and queue both drain.
Drains == OutboxDrains /\ QueueDrains
=============================================================================
