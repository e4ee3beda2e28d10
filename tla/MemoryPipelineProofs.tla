------------------------ MODULE MemoryPipelineProofs ------------------------
(***************************************************************************)
(* Proofs about MemoryPipeline: whatever the number of turns, Jobs,        *)
(* workers and faults, no searchable memory cites a revoked turn, and the  *)
(* two cursors never pass what they stand for.                             *)
(*                                                                         *)
(* RevokedUncited is not inductive alone.  It needs that every ingested    *)
(* receipt of a Job has bound its turn to that Job (Bound), because both   *)
(* the revocation and the evidence check go by the binding, and that a     *)
(* memory cites only ingested receipts (Stored).  A tombstone is a Job the *)
(* synchronisation read from the history, hence Syncing.                   *)
(***************************************************************************)
EXTENDS MemoryPipeline, FiniteSetTheorems, TLAPS

Receipt == [turn : Turns, job : Jobs \cup {None}, acknowledged : BOOLEAN]
Event == [job : Jobs, at : Nat]
Statuses == {"active", "conflicted", "superseded", "invalidated"}
Memory == [evidence : SUBSET Nat, status : Statuses]
SyncCall == [step : {"idle", "sources", "bind", "checkpoint"}, next : Nat, last : Nat,
             size : Nat, todo : SUBSET Nat]
PollState == [step : {"idle", "acknowledge", "checkpoint"}, receipt : Nat,
              replay : BOOLEAN]

Captured ==
    /\ outbox \in Seq(Receipt)
    /\ turnJob \in [Turns -> Jobs \cup {None}]
    /\ jobActive \subseteq Jobs
    /\ cancels \in Seq(Event)

Stored ==
    /\ sources \subseteq DOMAIN outbox
    /\ tombstones \subseteq Jobs
    /\ memories \in Seq(Memory)
    /\ \A m \in DOMAIN memories : memories[m].evidence \subseteq sources

Bound == \A r \in sources : JobOf(r) # None => <<TurnOf(r), JobOf(r)>> \in binds

Syncing ==
    /\ cancelCursor \in 0..Len(cancels)
    /\ sync \in [Callers -> SyncCall]
    /\ \A c \in Callers : sync[c].step # "idle" =>
        /\ sync[c].last <= Len(cancels)
        /\ sync[c].next \in 1..(sync[c].last + 1)
        /\ sync[c].next <= cancelCursor + 1
    /\ \A c \in Callers : sync[c].step \in {"bind", "checkpoint"} =>
        sync[c].next <= sync[c].last
    /\ \A c \in Callers : sync[c].step = "checkpoint" =>
        cancels[sync[c].next].job \in tombstones

Polling ==
    /\ poll \in PollState
    /\ replayCursor \in Nat
    /\ poll.step # "idle" =>
        /\ poll.receipt \in DOMAIN outbox
        /\ poll.replay => poll.receipt = replayCursor + 1
    /\ poll.step = "checkpoint" => poll.replay

Revocable ==
    Captured /\ Stored /\ Bound /\ Syncing /\ Polling /\ RevokedUncited /\ CursorsCovered

----------------------------------------------------------------------------
(* The initial state.                                                      *)

\* The databases begin clean.
LEMMA InitRevocable == Init => Revocable
<1> SUFFICES ASSUME Init PROVE Revocable
  OBVIOUS
<1>1. Captured
  BY DEF Init, Captured
<1>2. Stored /\ Bound /\ RevokedUncited
  BY DEF Init, Stored, Bound, RevokedUncited, Memory
<1>3. Syncing
  BY DEF Init, Syncing, SyncCall, NoSync
<1>4. Polling
  BY DEF Init, Polling, PollState, Idle
<1>5. CursorsCovered
  BY DEF Init, CursorsCovered
<1> QED
  BY <1>1, <1>2, <1>3, <1>4, <1>5 DEF Revocable

----------------------------------------------------------------------------
(* The task database only adds receipts and cancellations.                 *)

\* A captured receipt keeps the old ones.
LEMMA CaptureKeeps ==
    ASSUME Captured, NEW t \in Turns, NEW j \in Jobs \cup {None}, capture(t, j)
    PROVE  /\ outbox' \in Seq(Receipt)
           /\ DOMAIN outbox \subseteq DOMAIN outbox'
           /\ \A r \in DOMAIN outbox : TurnOf(r)' = TurnOf(r) /\ JobOf(r)' = JobOf(r)
<1> DEFINE e == [turn |-> t, job |-> j, acknowledged |-> FALSE]
<1>1. e \in Receipt /\ outbox' = Append(outbox, e)
  BY DEF capture, Receipt
<1>2. \A r \in DOMAIN outbox : outbox'[r] = outbox[r]
  BY <1>1 DEF Captured
<1>3. outbox' \in Seq(Receipt) /\ DOMAIN outbox \subseteq DOMAIN outbox'
  BY <1>1 DEF Captured
<1> QED
  BY <1>2, <1>3 DEF TurnOf, JobOf

\* What only reads receipts survives steps that keep them.
LEMMA ReceiptsKept ==
    ASSUME Stored, Bound, RevokedUncited, CursorsCovered,
           DOMAIN outbox \subseteq DOMAIN outbox',
           \A r \in DOMAIN outbox : TurnOf(r)' = TurnOf(r) /\ JobOf(r)' = JobOf(r),
           UNCHANGED <<sources, binds, tombstones, memories, replayCursor, cancelCursor>>,
           \A k \in 1..cancelCursor : cancels'[k] = cancels[k]
    PROVE  Stored' /\ Bound' /\ RevokedUncited' /\ CursorsCovered'
<1>1. Stored'
  BY DEF Stored
<1>2. Bound'
  BY DEF Stored, Bound
<1>3. RevokedUncited'
  <2> SUFFICES ASSUME NEW m \in DOMAIN memories, memories[m].status \in Searchable,
                      NEW r \in memories[m].evidence, NEW s \in sources,
                      TurnOf(r)' = TurnOf(s)'
               PROVE  JobOf(s)' \notin tombstones
    BY DEF RevokedUncited, Searchable
  <2>1. r \in DOMAIN outbox /\ s \in DOMAIN outbox
    BY DEF Stored
  <2> QED
    BY <2>1 DEF RevokedUncited
<1>4. CursorsCovered'
  BY DEF CursorsCovered
<1> QED
  BY <1>1, <1>2, <1>3, <1>4

\* The turns that Taskix records and the Jobs that it cancels.
LEMMA TaskDbSteps ==
    ASSUME Revocable,
           \/ \E t \in Turns : RecordTurn(t) \/ \E j \in Jobs : AttachTurn(t, j)
           \/ \E j \in Jobs : CancelJob(j)
    PROVE  Revocable'
<1> USE DEF Revocable
<1>1. ASSUME NEW t \in Turns, RecordTurn(t) PROVE Revocable'
  <2>1. capture(t, turnJob[t]) /\ turnJob[t] \in Jobs \cup {None}
    BY <1>1 DEF RecordTurn, Captured
  <2>2. UNCHANGED <<turnJob, jobActive, cancels, sources, binds, tombstones, memories,
                    replayCursor, cancelCursor, poll, sync>>
    BY <1>1 DEF RecordTurn, memoryDb, daemon
  <2>3. Captured'
    BY <2>1, <2>2, CaptureKeeps DEF Captured
  <2>4. Stored' /\ Bound' /\ RevokedUncited' /\ CursorsCovered'
    BY <2>1, <2>2, CaptureKeeps, ReceiptsKept
  <2>5. Syncing' /\ Polling'
    BY <2>1, <2>2, CaptureKeeps DEF Syncing, Polling
  <2> QED
    BY <2>3, <2>4, <2>5
<1>2. ASSUME NEW t \in Turns, NEW j \in Jobs, AttachTurn(t, j) PROVE Revocable'
  <2>1. capture(t, j) /\ turnJob' = [turnJob EXCEPT ![t] = j]
    BY <1>2 DEF AttachTurn
  <2>2. UNCHANGED <<jobActive, cancels, sources, binds, tombstones, memories,
                    replayCursor, cancelCursor, poll, sync>>
    BY <1>2 DEF AttachTurn, memoryDb, daemon
  <2>3. Captured'
    BY <2>1, <2>2, CaptureKeeps DEF Captured
  <2>4. Stored' /\ Bound' /\ RevokedUncited' /\ CursorsCovered'
    BY <2>1, <2>2, CaptureKeeps, ReceiptsKept
  <2>5. Syncing' /\ Polling'
    BY <2>1, <2>2, CaptureKeeps DEF Syncing, Polling
  <2> QED
    BY <2>3, <2>4, <2>5
<1>3. ASSUME NEW j \in Jobs, CancelJob(j) PROVE Revocable'
  <2> DEFINE e == [job |-> j, at |-> Len(outbox)]
  <2>1. UNCHANGED <<outbox, turnJob, sources, binds, tombstones, memories, replayCursor,
                    cancelCursor, poll, sync>>
    BY <1>3 DEF CancelJob, memoryDb, daemon
  <2>2. e \in Event /\ cancels' = Append(cancels, e)
    BY <1>3 DEF CancelJob, Captured, Event
  <2>3. jobActive' \subseteq Jobs
    BY <1>3 DEF CancelJob, Captured
  <2>4. /\ cancels' \in Seq(Event)
        /\ Len(cancels') = Len(cancels) + 1
        /\ \A k \in 1..Len(cancels) : cancels'[k] = cancels[k]
    BY <2>2 DEF Captured
  <2>5. Captured'
    BY <2>1, <2>3, <2>4 DEF Captured
  <2>6. Len(cancels) \in Nat
    BY DEF Captured
  <2>7. Stored' /\ Bound' /\ RevokedUncited' /\ CursorsCovered'
    BY <2>1, <2>4, <2>6, ReceiptsKept DEF Syncing, TurnOf, JobOf
  <2>8. Polling'
    BY <2>1 DEF Polling
  <2>9. Syncing'
    <3>1. cancelCursor' \in 0..Len(cancels')
      BY <2>1, <2>4, <2>6 DEF Syncing
    <3>2. ASSUME NEW c \in Callers, sync[c].step # "idle"
          PROVE  /\ sync[c].last <= Len(cancels')
                 /\ sync[c].next \in 1..(sync[c].last + 1)
                 /\ sync[c].next <= cancelCursor + 1
      BY <3>2, <2>4, <2>6 DEF Syncing, SyncCall
    <3>3. ASSUME NEW c \in Callers, sync[c].step = "checkpoint"
          PROVE  cancels'[sync[c].next].job \in tombstones
      <4>1. sync[c].next \in 1..Len(cancels)
        BY <3>3, <2>6 DEF Syncing, SyncCall
      <4> QED
        BY <4>1, <3>3, <2>4 DEF Syncing
    <3> QED
      BY <2>1, <3>1, <3>2, <3>3 DEF Syncing
  <2> QED
    BY <2>5, <2>7, <2>8, <2>9
<1> QED
  BY <1>1, <1>2, <1>3

----------------------------------------------------------------------------
(* Writing a memory on checked evidence, and revoking receipts.            *)

\* Evidence that passes the check in the writing transaction cites no turn
\* of a cancelled Job.
LEMMA CheckedEvidence ==
    ASSUME Stored, Bound, NEW E, EvidenceValid(E)
    PROVE  /\ E \subseteq sources
           /\ \A r \in E, s \in sources : TurnOf(r) = TurnOf(s) => JobOf(s) \notin tombstones
<1> SUFFICES ASSUME NEW r \in E, NEW s \in sources, TurnOf(r) = TurnOf(s),
                    JobOf(s) \in tombstones
             PROVE  FALSE
  BY DEF EvidenceValid
<1>1. JobOf(s) # None
  BY NoneIsNothing DEF Stored
<1> QED
  BY <1>1 DEF EvidenceValid, source_valid, Bound

\* What the invariant asks of memories, of a sequence that may replace them.
Clean(m) ==
    /\ m.evidence \subseteq sources
    /\ m.status \in Searchable =>
        \A r \in m.evidence, s \in sources :
            TurnOf(r) = TurnOf(s) => JobOf(s) \notin tombstones

AllClean(ms) == ms \in Seq(Memory) /\ \A n \in DOMAIN ms : Clean(ms[n])

\* No stored memory rests on revoked evidence, as every memory write finds them,
LEMMA CleanBefore == Stored /\ RevokedUncited => AllClean(memories)
BY DEF Stored, RevokedUncited, AllClean, Clean

\* and as it leaves them.
LEMMA CleanAfter ==
    ASSUME Stored, AllClean(memories'), UNCHANGED <<outbox, sources, tombstones>>
    PROVE  Stored' /\ RevokedUncited'
BY DEF Stored, RevokedUncited, AllClean, Clean, TurnOf, JobOf, Searchable

\* A memory on checked evidence may be added.
LEMMA AppendClean ==
    ASSUME Captured, Stored, Bound, NEW ms, AllClean(ms), NEW E, EvidenceValid(E),
           NEW status \in Statuses
    PROVE  AllClean(Append(ms, NewMemory(E, status)))
<1> DEFINE m == NewMemory(E, status)
<1>1. E \subseteq sources /\ sources \subseteq Nat
  BY CheckedEvidence DEF Captured, Stored
<1>2. m \in Memory /\ Clean(m)
  BY <1>1, CheckedEvidence DEF Memory, NewMemory, Clean
<1> HIDE DEF m
<1>3. /\ Append(ms, m) \in Seq(Memory)
      /\ \A n \in DOMAIN Append(ms, m) : Append(ms, m)[n] = m \/ (n \in DOMAIN ms /\ Append(ms, m)[n] = ms[n])
  BY <1>2 DEF AllClean
<1> QED
  BY <1>2, <1>3 DEF AllClean, m

\* A memory may leave the search results.
LEMMA RetireClean ==
    ASSUME NEW ms, AllClean(ms), NEW n \in DOMAIN ms, NEW status \in Statuses \ Searchable
    PROVE  AllClean([ms EXCEPT ![n].status = status])
<1> DEFINE ns == [ms EXCEPT ![n].status = status]
<1>1. ms \in Seq(Memory) /\ ms[n] \in Memory
  BY DEF AllClean
<1>2. [ms[n] EXCEPT !.status = status] \in Memory /\ Clean([ms[n] EXCEPT !.status = status])
  BY <1>1 DEF Memory, AllClean, Clean
<1>3. ns \in Seq(Memory) /\ DOMAIN ns = DOMAIN ms
  BY <1>1, <1>2
<1>4. \A k \in DOMAIN ms : ns[k] = IF k = n THEN [ms[n] EXCEPT !.status = status] ELSE ms[k]
  BY <1>1
<1> QED
  BY <1>2, <1>3, <1>4 DEF AllClean

\* A searchable memory may become contested, or gather checked evidence.
LEMMA ContestClean ==
    ASSUME NEW ms, AllClean(ms), NEW n \in DOMAIN ms, ms[n].status \in Searchable
    PROVE  AllClean([ms EXCEPT ![n].status = "conflicted"])
<1> DEFINE e == [ms[n] EXCEPT !.status = "conflicted"]
           ns == [ms EXCEPT ![n].status = "conflicted"]
<1>1. ms \in Seq(Memory) /\ ms[n] \in Memory /\ Clean(ms[n])
  BY DEF AllClean
<1>2. e \in Memory /\ e.evidence = ms[n].evidence
  BY <1>1 DEF Memory, Statuses
<1>3. Clean(e)
  BY <1>1, <1>2 DEF Clean
<1>4. ns \in Seq(Memory) /\ DOMAIN ns = DOMAIN ms
  BY <1>1, <1>2
<1>5. \A k \in DOMAIN ms : ns[k] = IF k = n THEN e ELSE ms[k]
  BY <1>1
<1> QED
  BY <1>3, <1>4, <1>5 DEF AllClean

\* Valid evidence added to a memory keeps it clean.
LEMMA GatherClean ==
    ASSUME Captured, Stored, Bound, NEW ms, AllClean(ms), NEW n \in DOMAIN ms, NEW E,
           EvidenceValid(E), ms[n].status \in Searchable
    PROVE  AllClean([ms EXCEPT ![n].evidence = @ \cup E])
<1> DEFINE e == [ms[n] EXCEPT !.evidence = @ \cup E]
           ns == [ms EXCEPT ![n].evidence = @ \cup E]
<1>1. ms \in Seq(Memory) /\ ms[n] \in Memory /\ Clean(ms[n])
  BY DEF AllClean
<1>2. E \subseteq sources /\ sources \subseteq Nat
  BY CheckedEvidence DEF Captured, Stored
<1>3. e \in Memory /\ e.evidence = ms[n].evidence \cup E /\ e.status = ms[n].status
  BY <1>1, <1>2 DEF Memory
<1>4. Clean(e)
  BY <1>1, <1>3, CheckedEvidence DEF Clean
<1>5. ns \in Seq(Memory) /\ DOMAIN ns = DOMAIN ms
  BY <1>1, <1>3
<1>6. \A k \in DOMAIN ms : ns[k] = IF k = n THEN e ELSE ms[k]
  BY <1>1
<1> QED
  BY <1>4, <1>5, <1>6 DEF AllClean

\* The writes of the user and of consolidation.
LEMMA MemoryWrites ==
    ASSUME Revocable,
           \/ UserWrites
           \/ \E w \in Workers : complete_consolidation(w)
    PROVE  Revocable'
<1> USE DEF Revocable
<1>1. AllClean(memories)
  BY CleanBefore
<1>2. ASSUME NEW F, EvidenceValid(F),
             \/ memories' = Append(memories, NewMemory(F, "active"))
             \/ \E m \in DOMAIN memories :
                  /\ memories[m].status \in Searchable
                  /\ \/ memories' = [memories EXCEPT ![m].evidence = @ \cup F]
                     \/ memories' = Append([memories EXCEPT ![m].status = "superseded"],
                                           NewMemory(F, "active"))
                     \/ memories' = Append([memories EXCEPT ![m].status = "conflicted"],
                                           NewMemory(F, "conflicted"))
      PROVE  AllClean(memories')
  <2>1. CASE memories' = Append(memories, NewMemory(F, "active"))
    BY <1>1, <1>2, <2>1, AppendClean DEF Statuses
  <2>2. ASSUME NEW m \in DOMAIN memories, memories[m].status \in Searchable,
               memories' = [memories EXCEPT ![m].evidence = @ \cup F]
        PROVE  AllClean(memories')
    BY <1>1, <1>2, <2>2, GatherClean
  <2>3. ASSUME NEW m \in DOMAIN memories,
               memories' = Append([memories EXCEPT ![m].status = "superseded"],
                                  NewMemory(F, "active"))
        PROVE  AllClean(memories')
    <3>1. AllClean([memories EXCEPT ![m].status = "superseded"])
      BY <1>1, RetireClean DEF Searchable, Statuses
    <3> QED
      BY <1>2, <2>3, <3>1, AppendClean DEF Statuses
  <2>4. ASSUME NEW m \in DOMAIN memories, memories[m].status \in Searchable,
               memories' = Append([memories EXCEPT ![m].status = "conflicted"],
                                  NewMemory(F, "conflicted"))
        PROVE  AllClean(memories')
    <3>1. AllClean([memories EXCEPT ![m].status = "conflicted"])
      BY <1>1, <2>4, ContestClean
    <3> QED
      BY <1>2, <2>4, <3>1, AppendClean DEF Statuses
  <2> QED
    BY <1>2, <2>1, <2>2, <2>3, <2>4
<1>3. ASSUME UserWrites PROVE AllClean(memories')
  BY <1>3, <1>2 DEF UserWrites
<1>4. AllClean(memories')
  <2>1. ASSUME NEW E, Consolidated(E) PROVE AllClean(memories')
    BY <1>1, <1>2, <2>1 DEF Consolidated
  <2> QED
    BY <1>3, <2>1 DEF complete_consolidation
<1>5. UNCHANGED <<outbox, turnJob, jobActive, cancels, sources, binds, tombstones,
                  replayCursor, cancelCursor, poll, sync>>
  BY DEF UserWrites, complete_consolidation, taskDb, daemon
<1>6. Stored' /\ RevokedUncited'
  BY <1>4, <1>5, CleanAfter
<1>7. Captured' /\ Bound' /\ CursorsCovered'
  BY <1>5 DEF Captured, Bound, CursorsCovered, TurnOf, JobOf
<1>8. Syncing' /\ Polling'
  BY <1>5 DEF Syncing, Polling
<1> QED
  BY <1>6, <1>7, <1>8

----------------------------------------------------------------------------
(* Revocation.                                                             *)

\* Revoking receipts changes no evidence, and what stays searchable cites
\* none of them.
LEMMA RevokeFacts ==
    ASSUME Stored, NEW rs
    PROVE  /\ RevokeMemories(rs) \in Seq(Memory)
           /\ DOMAIN RevokeMemories(rs) = DOMAIN memories
           /\ \A m \in DOMAIN memories :
                /\ RevokeMemories(rs)[m].evidence = memories[m].evidence
                /\ RevokeMemories(rs)[m].status \in Searchable =>
                        /\ memories[m].status \in Searchable
                        /\ memories[m].evidence \cap rs = {}
<1>1. memories \in Seq(Memory)
  BY DEF Stored
<1>2. ASSUME NEW m \in DOMAIN memories
      PROVE  /\ RevokeMemories(rs)[m] \in Memory
             /\ RevokeMemories(rs)[m].evidence = memories[m].evidence
             /\ RevokeMemories(rs)[m].status \in Searchable =>
                    /\ memories[m].status \in Searchable
                    /\ memories[m].evidence \cap rs = {}
  <2>1. memories[m] \in Memory
    BY <1>1
  <2> QED
    BY <2>1 DEF RevokeMemories, Memory, Statuses, Searchable
<1>3. DOMAIN RevokeMemories(rs) = 1..Len(memories) /\ Len(memories) \in Nat
  BY <1>1 DEF RevokeMemories
<1>4. RevokeMemories(rs) \in Seq(Memory)
  BY <1>1, <1>2, <1>3 DEF RevokeMemories
<1> QED
  BY <1>1, <1>2, <1>3, <1>4

\* Whether it comes before or after the cancellation of its Job, an ingested
\* receipt leaves no searchable memory of a revoked turn.
LEMMA IngestKeeps ==
    ASSUME Captured, Stored, Bound, RevokedUncited, CursorsCovered,
           NEW r \in DOMAIN outbox, ingest(r),
           UNCHANGED <<outbox, cancels, tombstones, replayCursor, cancelCursor>>
    PROVE  /\ Stored' /\ Bound' /\ RevokedUncited' /\ CursorsCovered'
           /\ r \in sources'
<1>1. CASE r \in sources
  <2>1. UNCHANGED <<sources, binds, memories>>
    BY <1>1 DEF ingest
  <2> QED
    BY <1>1, <2>1 DEF Stored, Bound, RevokedUncited, CursorsCovered, TurnOf, JobOf, Searchable
<1>2. CASE r \notin sources
  <2> DEFINE bs == BindTurn(r)
             ss == sources \cup {r}
             revoked == UNION {SourcesOf(j, bs, ss) :
                                   j \in {k \in tombstones : <<TurnOf(r), k>> \in bs}}
  <2>1. sources' = ss /\ binds' = bs
    BY <1>2 DEF ingest
  <2>2. binds \subseteq bs /\ (JobOf(r) # None => <<TurnOf(r), JobOf(r)>> \in bs)
    BY DEF BindTurn
  <2>3. Bound'
    BY <2>1, <2>2 DEF Bound, TurnOf, JobOf
  <2>4. None \notin tombstones
    BY NoneIsNothing DEF Stored
  <2>5. ASSUME JobOf(r) \in tombstones PROVE ~source_valid(r, bs)
    BY <2>2, <2>4, <2>5 DEF source_valid
  <2>6. CASE source_valid(r, bs)
    <3>1. UNCHANGED memories
      BY <1>2, <2>6 DEF ingest
    <3>2. Stored'
      BY <2>1, <3>1 DEF Stored
    <3>3. RevokedUncited'
      BY <2>1, <2>5, <2>6, <3>1 DEF RevokedUncited, TurnOf, JobOf, Searchable
    <3> QED
      BY <2>1, <2>3, <3>2, <3>3 DEF CursorsCovered
  <2>7. CASE ~source_valid(r, bs)
    <3>1. memories' = RevokeMemories(revoked)
      BY <1>2, <2>7 DEF ingest
    <3>2. Stored'
      BY <2>1, <3>1, RevokeFacts DEF Stored
    <3> HIDE DEF revoked
    <3>3. ASSUME NEW m \in DOMAIN memories, memories'[m].status \in Searchable,
                 NEW x \in memories'[m].evidence, NEW s \in ss,
                 TurnOf(x) = TurnOf(s), JobOf(s) \in tombstones
          PROVE  FALSE
      <4>1. /\ memories[m].status \in Searchable
            /\ x \in memories[m].evidence
            /\ x \notin revoked
        BY <3>1, <3>3, RevokeFacts
      <4>2. s = r
        BY <3>3, <4>1 DEF RevokedUncited
      <4>3. <<TurnOf(r), JobOf(r)>> \in bs
        BY <2>2, <2>4, <3>3, <4>2
      <4>4. x \in SourcesOf(JobOf(r), bs, ss)
        BY <3>3, <4>1, <4>2, <4>3 DEF SourcesOf, Stored
      <4> QED
        BY <3>3, <4>1, <4>2, <4>3, <4>4 DEF revoked
    <3>4. DOMAIN memories' = DOMAIN memories
      BY <3>1, RevokeFacts
    <3>5. RevokedUncited'
      BY <2>1, <3>3, <3>4 DEF RevokedUncited, TurnOf, JobOf, Searchable
    <3> QED
      BY <2>1, <2>3, <3>2, <3>5 DEF CursorsCovered
  <2> QED
    BY <2>6, <2>7
<1> QED
  BY <1>1, <1>2

\* The steps of the poll that read and confirm the outbox.
LEMMA PollSteps ==
    ASSUME Revocable,
           IntakeSource \/ ReplaySource \/ AcknowledgeSource \/ checkpoint_replay
    PROVE  Revocable'
<1> USE DEF Revocable
<1>1. ASSUME NEW r \in DOMAIN outbox, NEW replay \in BOOLEAN, Ingest(r, replay),
             replay => r = replayCursor + 1
      PROVE  Revocable'
  <2>1. ingest(r) /\ poll' = [step |-> "acknowledge", receipt |-> r, replay |-> replay]
    BY <1>1 DEF Ingest
  <2>2. UNCHANGED <<outbox, turnJob, jobActive, cancels, tombstones, replayCursor,
                    cancelCursor, sync>>
    BY <1>1 DEF Ingest, taskDb
  <2>3. Stored' /\ Bound' /\ RevokedUncited' /\ CursorsCovered'
    BY <2>1, <2>2, IngestKeeps
  <2>4. Captured' /\ Syncing'
    BY <2>2 DEF Captured, Syncing
  <2>5. Polling'
    BY <1>1, <2>1, <2>2 DEF Polling, PollState, Captured
  <2> QED
    BY <2>3, <2>4, <2>5
<1>2. CASE IntakeSource
  BY <1>1, <1>2 DEF IntakeSource, Receipts
<1>3. CASE ReplaySource
  <2>1. replayCursor + 1 \in DOMAIN outbox
    BY <1>3 DEF ReplaySource, Captured, Polling
  <2> QED
    BY <1>1, <1>3, <2>1 DEF ReplaySource
<1>4. CASE AcknowledgeSource
  <2>1. UNCHANGED <<turnJob, jobActive, cancels, sources, binds, tombstones, memories,
                    replayCursor, cancelCursor, sync>>
    BY <1>4 DEF AcknowledgeSource, memoryDb
  <2>2. poll.receipt \in DOMAIN outbox /\ poll.step = "acknowledge"
    BY <1>4 DEF AcknowledgeSource, Polling
  <2> DEFINE e == [outbox[poll.receipt] EXCEPT !.acknowledged = TRUE]
  <2>3. outbox[poll.receipt] \in Receipt
    BY <2>2 DEF Captured
  <2>4. e \in Receipt /\ e.turn = outbox[poll.receipt].turn /\ e.job = outbox[poll.receipt].job
    BY <2>3 DEF Receipt
  <2>5. outbox' = [outbox EXCEPT ![poll.receipt] = e]
    BY <1>4 DEF AcknowledgeSource
  <2> HIDE DEF e
  <2>6. outbox' \in Seq(Receipt) /\ DOMAIN outbox' = DOMAIN outbox
    BY <2>2, <2>4, <2>5 DEF Captured
  <2>7. \A r \in DOMAIN outbox : TurnOf(r)' = TurnOf(r) /\ JobOf(r)' = JobOf(r)
    BY <2>2, <2>4, <2>5 DEF TurnOf, JobOf, Captured
  <2>8. Captured' /\ Syncing'
    BY <2>1, <2>6 DEF Captured, Syncing
  <2>9. Stored' /\ Bound' /\ RevokedUncited' /\ CursorsCovered'
    BY <2>1, <2>6, <2>7, ReceiptsKept
  <2>10. poll' = IF poll.replay THEN [poll EXCEPT !.step = "checkpoint"] ELSE Idle
    BY <1>4 DEF AcknowledgeSource
  <2>11. Polling'
    BY <2>1, <2>2, <2>6, <2>10 DEF Polling, PollState, Idle
  <2> QED
    BY <2>8, <2>9, <2>11
<1>5. CASE checkpoint_replay
  <2>1. UNCHANGED <<outbox, turnJob, jobActive, cancels, sources, binds, tombstones, memories,
                    cancelCursor, sync>>
    BY <1>5 DEF checkpoint_replay, taskDb
  <2>2. /\ replayCursor' = replayCursor + 1 /\ replayCursor' \in sources
        /\ poll' = Idle
    BY <1>5 DEF checkpoint_replay, Polling
  <2>3. Captured' /\ Stored' /\ Bound' /\ RevokedUncited' /\ Syncing'
    BY <2>1 DEF Captured, Stored, Bound, RevokedUncited, Syncing, TurnOf, JobOf, Searchable
  <2>4. CursorsCovered'
    BY <2>1, <2>2 DEF CursorsCovered, Polling
  <2>5. Polling'
    BY <2>2 DEF Polling, PollState, Idle
  <2> QED
    BY <2>3, <2>4, <2>5
<1> QED
  BY <1>2, <1>3, <1>4, <1>5

\* The cancellation feed names Jobs only.
LEMMA CancelledJobs ==
    ASSUME Captured PROVE \A k \in 1..Len(cancels) : cancels[k].job \in Jobs
<1>1. \A k \in 1..Len(cancels) : cancels[k] \in Event
  BY DEF Captured
<1> QED
  BY <1>1 DEF Event

\* The record of a call that goes on to the next event of its page.
LEMMA NextEvent ==
    ASSUME NEW x \in SyncCall
    PROVE  LET e == [x EXCEPT !.step = "sources", !.next = x.next + 1] IN
           e \in SyncCall /\ e.step = "sources" /\ e.next = x.next + 1 /\ e.last = x.last
<1>1. x.next + 1 \in Nat
  BY DEF SyncCall
<1> QED
  BY <1>1 DEF SyncCall

\* Each step of a revocation sync.
LEMMA SyncSteps ==
    ASSUME Revocable, NEW c, SyncStep(c)
    PROVE  Revocable'
<1> USE DEF Revocable
<1>1. c \in Callers
  BY DEF SyncStep, SyncReadSources, bind_cancelled_source, invalidate_job,
         checkpoint_cancellations
<1>2. sync[c] \in SyncCall /\ Len(cancels) \in Nat
  BY <1>1 DEF Syncing, Captured
<1>3. DOMAIN outbox \subseteq Nat
  BY DEF Captured
<1>4. CASE SyncReadSources(c)
  <2> DEFINE rs == {r \in Receipts : JobOf(r) = cancels[sync[c].next].job}
  <2>1. UNCHANGED <<outbox, turnJob, jobActive, cancels, sources, binds, tombstones, memories,
                    replayCursor, cancelCursor, poll>>
    BY <1>4 DEF SyncReadSources, taskDb, memoryDb
  <2>2. /\ sync[c].step = "sources" /\ sync[c].next <= sync[c].last
        /\ sync' = [sync EXCEPT ![c] = [sync[c] EXCEPT !.step = "bind", !.todo = rs]]
    BY <1>4, <1>1 DEF SyncReadSources, Syncing
  <2>3. rs \in SUBSET Nat
    BY <1>3 DEF Receipts
  <2> HIDE DEF rs
  <2>4. Syncing'
    BY <1>1, <1>2, <2>1, <2>2, <2>3 DEF Syncing, SyncCall
  <2>5. Captured' /\ Stored' /\ Bound' /\ RevokedUncited' /\ CursorsCovered' /\ Polling'
    BY <2>1 DEF Captured, Stored, Bound, RevokedUncited, CursorsCovered, Polling, TurnOf, JobOf,
                Searchable
  <2> QED
    BY <2>4, <2>5
<1>5. CASE bind_cancelled_source(c)
  <2>1. PICK r \in sync[c].todo :
            /\ binds' = BindTurn(r)
            /\ sync' = [sync EXCEPT ![c].todo = @ \ {r}]
    BY <1>5 DEF bind_cancelled_source
  <2>2. UNCHANGED <<outbox, turnJob, jobActive, cancels, sources, tombstones, memories,
                    replayCursor, cancelCursor, poll>>
    BY <1>5 DEF bind_cancelled_source, taskDb
  <2>3. Bound'
    BY <2>1, <2>2 DEF Bound, BindTurn, TurnOf, JobOf
  <2>4. Syncing'
    BY <1>1, <1>2, <2>1, <2>2 DEF Syncing, SyncCall
  <2>5. Captured' /\ Stored' /\ RevokedUncited' /\ CursorsCovered' /\ Polling'
    BY <2>2 DEF Captured, Stored, RevokedUncited, CursorsCovered, Polling, TurnOf, JobOf,
                Searchable
  <2> QED
    BY <2>3, <2>4, <2>5
<1>6. CASE invalidate_job(c)
  <2> DEFINE j == cancels[sync[c].next].job
             rs == SourcesOf(j, binds, sources)
  <2>1. /\ sync[c].step = "bind"
        /\ tombstones' = tombstones \cup {j}
        /\ memories' = RevokeMemories(rs)
        /\ sync' = [sync EXCEPT ![c].step = "checkpoint"]
    BY <1>6 DEF invalidate_job
  <2>2. UNCHANGED <<outbox, turnJob, jobActive, cancels, sources, binds, replayCursor,
                    cancelCursor, poll>>
    BY <1>6 DEF invalidate_job, taskDb
  <2>3. sync[c].next \in 1..Len(cancels) /\ j \in Jobs
    <3>1. sync[c].next \in 1..Len(cancels)
      BY <1>1, <1>2, <2>1 DEF Syncing, SyncCall
    <3> QED
      BY <3>1, CancelledJobs
  <2> HIDE DEF rs
  <2>4. Stored'
    BY <2>1, <2>2, <2>3, RevokeFacts DEF Stored
  <2>5. ASSUME NEW m \in DOMAIN memories, memories'[m].status \in Searchable,
               NEW r \in memories'[m].evidence, NEW s \in sources,
               TurnOf(r) = TurnOf(s), JobOf(s) \in tombstones \cup {j}
        PROVE  FALSE
    <3>1. /\ memories[m].status \in Searchable
          /\ r \in memories[m].evidence
          /\ r \notin rs
      BY <2>1, <2>5, RevokeFacts
    <3>2. JobOf(s) = j /\ j # None
      BY <2>3, <2>5, <3>1, NoneIsNothing DEF RevokedUncited
    <3>3. <<TurnOf(r), j>> \in binds /\ r \in sources
      BY <2>5, <3>1, <3>2 DEF Bound, Stored
    <3> QED
      BY <3>1, <3>3 DEF rs, SourcesOf
  <2>6. DOMAIN memories' = DOMAIN memories
    BY <2>1, RevokeFacts
  <2>7. RevokedUncited'
    BY <2>1, <2>2, <2>5, <2>6 DEF RevokedUncited, TurnOf, JobOf, Searchable
  <2>8. Syncing'
    BY <1>1, <1>2, <2>1, <2>2 DEF Syncing, SyncCall
  <2>9. Captured' /\ Bound' /\ CursorsCovered' /\ Polling'
    BY <2>1, <2>2 DEF Captured, Bound, CursorsCovered, Polling, TurnOf, JobOf
  <2> QED
    BY <2>4, <2>7, <2>8, <2>9
<1>7. CASE checkpoint_cancellations(c)
  <2>1. UNCHANGED <<outbox, turnJob, jobActive, cancels, sources, binds, tombstones, memories,
                    replayCursor, poll>>
    BY <1>7 DEF checkpoint_cancellations, taskDb
  <2>2. /\ sync[c].step = "checkpoint"
        /\ cancelCursor' = IF cancelCursor < sync[c].next THEN sync[c].next ELSE cancelCursor
        /\ sync' = [sync EXCEPT ![c] = [sync[c] EXCEPT !.step = "sources",
                                                       !.next = sync[c].next + 1]]
    BY <1>7, <1>1 DEF checkpoint_cancellations, Syncing
  <2>3. /\ sync[c].next \in 1..sync[c].last /\ sync[c].last <= Len(cancels)
        /\ sync[c].next <= cancelCursor + 1
        /\ cancels[sync[c].next].job \in tombstones
    BY <1>1, <1>2, <2>2 DEF Syncing, SyncCall
  <2>4. cancelCursor' \in 0..Len(cancels) /\ cancelCursor <= cancelCursor'
    BY <1>2, <2>2, <2>3 DEF Syncing, SyncCall
  <2>5. CursorsCovered'
    BY <1>2, <2>1, <2>2, <2>3, <2>4 DEF CursorsCovered, Syncing, SyncCall
  <2>6. Syncing'
    <3> DEFINE e == [sync[c] EXCEPT !.step = "sources", !.next = sync[c].next + 1]
    <3>1. /\ e \in SyncCall /\ e.step = "sources" /\ e.next = sync[c].next + 1
          /\ e.last = sync[c].last
      BY <1>2, NextEvent
    <3>2. e.next \in 1..(e.last + 1) /\ e.next <= cancelCursor' + 1
      BY SMTT(30), <1>2, <2>2, <2>3, <2>4, <3>1 DEF SyncCall, Syncing
    <3> HIDE DEF e
    <3>3. sync' = [sync EXCEPT ![c] = e]
      BY <2>2 DEF e
    <3>4. ASSUME NEW d \in Callers, sync'[d].step # "idle"
          PROVE  /\ sync'[d].last <= Len(cancels)
                 /\ sync'[d].next \in 1..(sync'[d].last + 1)
                 /\ sync'[d].next <= cancelCursor' + 1
      <4>1. CASE d = c
        BY <1>1, <2>3, <3>1, <3>2, <3>3, <4>1 DEF Syncing
      <4>2. CASE d # c
        BY <1>2, <2>4, <3>3, <3>4, <4>2 DEF Syncing, SyncCall
      <4> QED
        BY <4>1, <4>2
    <3> QED
      BY <1>1, <2>1, <2>4, <3>1, <3>3, <3>4 DEF Syncing
  <2>7. Captured' /\ Stored' /\ Bound' /\ RevokedUncited' /\ Polling'
    BY <2>1 DEF Captured, Stored, Bound, RevokedUncited, Polling, TurnOf, JobOf, Searchable
  <2> QED
    BY <2>5, <2>6, <2>7
<1> QED
  BY <1>4, <1>5, <1>6, <1>7 DEF SyncStep

----------------------------------------------------------------------------
(* Calls that begin and end, requests, the queue, and faults.              *)

\* A page starts behind the cursor and ends within the history.
LEMMA PageFacts ==
    ASSUME Captured, cancelCursor \in 0..Len(cancels)
    PROVE  /\ Page \in SyncCall /\ Page.step = "sources"
           /\ Page.last <= Len(cancels)
           /\ Page.next \in 1..(Page.last + 1)
           /\ Page.next <= cancelCursor + 1
<1> DEFINE size == SmallerOf(EventPage, Len(cancels) - cancelCursor)
<1>1. Len(cancels) \in Nat /\ EventPage \in Nat
  BY LimitsPositive DEF Captured
<1>2. size \in 0..(Len(cancels) - cancelCursor)
  BY <1>1 DEF SmallerOf
<1> HIDE DEF size
<1>3. Page = [step |-> "sources", next |-> cancelCursor + 1, last |-> cancelCursor + size,
              size |-> size, todo |-> {}]
  BY DEF Page, size
<1> QED
  BY <1>1, <1>2, <1>3 DEF SyncCall

\* A step that leaves both databases' records alone, and starts or ends calls.
LEMMA CallsOnly ==
    ASSUME Revocable,
           UNCHANGED <<outbox, turnJob, jobActive, cancels, sources, binds, tombstones,
                       memories, replayCursor, cancelCursor>>,
           poll' \in {poll, Idle},
           sync' \in [Callers -> SyncCall],
           \A c \in Callers : sync'[c] \in {sync[c], NoSync, Page}
    PROVE  Revocable'
<1> USE DEF Revocable
<1>1. Captured' /\ Stored' /\ Bound' /\ RevokedUncited' /\ CursorsCovered'
  BY DEF Captured, Stored, Bound, RevokedUncited, CursorsCovered, TurnOf, JobOf, Searchable
<1>2. Polling'
  <2>1. CASE poll' = poll
    BY <2>1 DEF Polling
  <2>2. CASE poll' = Idle
    BY <2>2 DEF Polling, PollState, Idle
  <2> QED
    BY <2>1, <2>2
<1>3. Syncing'
  <2>1. NoSync.step = "idle"
    BY DEF NoSync
  <2>2. /\ Page.step = "sources" /\ Page.last <= Len(cancels)
        /\ Page.next \in 1..(Page.last + 1) /\ Page.next <= cancelCursor + 1
    BY PageFacts DEF Syncing
  <2> QED
    BY <2>1, <2>2 DEF Syncing
<1> QED
  BY <1>1, <1>2, <1>3

\* What a call of the sync is before it begins,
LEMMA NoSyncTyped == NoSync \in SyncCall
BY DEF NoSync, SyncCall

\* and when it has read a page.
LEMMA PageTyped == ASSUME Revocable PROVE Page \in SyncCall
BY PageFacts DEF Revocable, Syncing

\* The steps of the calls that sync, and the end of a process.
LEMMA CallSteps ==
    ASSUME Revocable,
           \/ PollSync \/ PollSyncEnds
           \/ RequestBegins \/ RequestSyncEnds \/ RequestMarks \/ RequestQueries
           \/ RequestRechecks \/ RequestReturns
           \/ PollFails \/ RequestFails \/ Crash
    PROVE  Revocable'
<1>1. UNCHANGED <<outbox, turnJob, jobActive, cancels, sources, binds, tombstones,
                  memories, replayCursor, cancelCursor>>
  BY DEF PollSync, PollSyncEnds, RequestBegins, RequestSyncEnds, RequestMarks, RequestQueries,
         RequestRechecks, RequestReturns, PollFails, RequestFails, Crash, taskDb, memoryDb
<1>2. poll' \in {poll, Idle}
  BY DEF PollSync, PollSyncEnds, RequestBegins, RequestSyncEnds, RequestMarks, RequestQueries,
         RequestRechecks, RequestReturns, PollFails, RequestFails, Crash, DaemonStops
<1>3. sync \in [Callers -> SyncCall]
  BY DEF Revocable, Syncing
<1>4. \/ UNCHANGED sync
      \/ \E c : sync' = [sync EXCEPT ![c] = NoSync] \/ sync' = [sync EXCEPT ![c] = Page]
      \/ sync' = [c \in Callers |-> NoSync]
  BY DEF PollSync, PollSyncEnds, RequestBegins, RequestSyncEnds, RequestMarks, RequestQueries,
         RequestRechecks, RequestReturns, PollFails, RequestFails, Crash, DaemonStops
<1>5. /\ sync' \in [Callers -> SyncCall]
      /\ \A c \in Callers : sync'[c] \in {sync[c], NoSync, Page}
  BY <1>3, <1>4, NoSyncTyped, PageTyped
<1> QED
  BY <1>1, <1>2, <1>5, CallsOnly

\* The queue's own steps touch neither receipts nor memories.
LEMMA QueueSteps ==
    ASSUME Revocable,
           \/ \E w \in Workers : \/ claim_work(w) \/ claim_nothing(w)
                                 \/ complete_extraction(w) \/ fail_work(w) \/ Abandon(w)
           \/ OrphanExpires \/ SlowWorker
    PROVE  Revocable'
<1>1. UNCHANGED <<outbox, turnJob, jobActive, cancels, sources, binds, tombstones, memories,
                  replayCursor, cancelCursor, poll, sync>>
  BY DEF claim_work, claim_nothing, complete_extraction, fail_work, Abandon, OrphanExpires,
         SlowWorker, Expire, taskDb, memoryDb, daemon
<1> QED
  BY <1>1 DEF Revocable, Captured, Stored, Bound, Syncing, Polling, RevokedUncited, CursorsCovered,
              TurnOf, JobOf, Searchable

\* A restart with an empty memory database.
LEMMA RestartStep == ASSUME Revocable, RestartEmpty PROVE Revocable'
<1>1. UNCHANGED <<outbox, turnJob, jobActive, cancels>>
  BY DEF RestartEmpty, taskDb
<1>2. /\ sources' = {} /\ tombstones' = {} /\ memories' = <<>>
      /\ replayCursor' = 0 /\ cancelCursor' = 0
      /\ poll' = Idle /\ sync' = [c \in Callers |-> NoSync]
  BY DEF RestartEmpty, DaemonStops
<1>3. Captured' /\ Len(cancels) \in Nat
  BY <1>1 DEF Revocable, Captured
<1>4. Stored' /\ Bound' /\ RevokedUncited' /\ CursorsCovered'
  BY <1>2 DEF Stored, Bound, RevokedUncited, CursorsCovered, Memory
<1>5. Syncing'
  BY <1>1, <1>2, <1>3 DEF Syncing, SyncCall, NoSync
<1>6. Polling'
  BY <1>2 DEF Polling, PollState, Idle
<1> QED
  BY <1>3, <1>4, <1>5, <1>6 DEF Revocable

\* A step that changes nothing.
LEMMA StutterKeeps == ASSUME Revocable, UNCHANGED vars PROVE Revocable'
BY DEF vars, taskDb, memoryDb, daemon, Revocable, Captured, Stored, Bound, Syncing, Polling,
       RevokedUncited, CursorsCovered, TurnOf, JobOf, Searchable

----------------------------------------------------------------------------
\* Every step keeps the invariant.
LEMMA StepRevocable == Revocable /\ [Next]_vars => Revocable'
<1> SUFFICES ASSUME Revocable, [Next]_vars PROVE Revocable'
  OBVIOUS
<1>1. CASE User
  BY <1>1, TaskDbSteps, MemoryWrites DEF User
<1>2. CASE PollStep
  BY <1>2, PollSteps, SyncSteps, CallSteps DEF PollStep
<1>3. CASE RequestBegins \/ RequestStep
  BY <1>3, SyncSteps, CallSteps DEF RequestStep
<1>4. CASE \E w \in Workers : WorkerStep(w)
  BY <1>4, QueueSteps, MemoryWrites DEF WorkerStep
<1>5. CASE OrphanExpires
  BY <1>5, QueueSteps
<1>6. CASE Faults
  BY <1>6, QueueSteps, CallSteps, RestartStep DEF Faults
<1>7. CASE UNCHANGED vars
  BY <1>7, StutterKeeps
<1> QED
  BY <1>1, <1>2, <1>3, <1>4, <1>5, <1>6, <1>7 DEF Next

\* Once a receipt of a turn of a cancelled Job has been ingested, no
\* searchable memory cites that turn: for all sets of turns, Jobs and
\* workers, all limits and any number of faults.
THEOREM RevokedUncitedHolds == Spec => []RevokedUncited
<1>1. Revocable => RevokedUncited
  BY DEF Revocable
<1> QED
  BY <1>1, InitRevocable, StepRevocable, PTL DEF Spec

\* Replay never passes a receipt that was not ingested, and the cancellation
\* cursor never an event that was not applied.
THEOREM CursorsCoveredHolds == Spec => []CursorsCovered
<1>1. Revocable => CursorsCovered
  BY DEF Revocable
<1> QED
  BY <1>1, InitRevocable, StepRevocable, PTL DEF Spec

----------------------------------------------------------------------------
(* The work queue and the answers.                                         *)
(*                                                                         *)
(* Unfinished work belongs to the newest revision of a turn that no known  *)
(* cancellation reaches (WorkIsCurrent, with the type invariant), a work   *)
(* item has one result (OneResultPerItem), and no answer cites what was    *)
(* cancelled before its last check (AnswersRespectCancellation).           *)
(*                                                                         *)
(* None is inductive.  That a new receipt supersedes the work of its turn  *)
(* rests on the head being the newest receipt of every turn that is not    *)
(* revoked (Heads); that an extraction cannot complete twice rests on a    *)
(* receipt being enqueued once and on a finished item staying finished     *)
(* (Sound), under leases of items that exist (Leased).  The cancellation   *)
(* of a Job reaches the work of a turn through its binding, so Revocable   *)
(* is needed as well.  The answers have invariants of their own, at the    *)
(* end of the module.                                                      *)

Kinds == {"extract", "consolidate"}
States == {"pending", "running", "done", "failed", "cancelled"}
WorkItem == [receipt : Nat, kind : Kinds, evidence : SUBSET Nat, state : States,
             attempts : 0..MaxAttempts, generation : Nat, owner : Workers \cup {None},
             expired : BOOLEAN]
LeaseRecord == [item : Nat, generation : Nat]
RequestRecord == [step : {"none", "sync", "mark", "query", "recheck", "check", "answered"},
                  began : Nat, before : Nat, answer : SUBSET SUBSET Nat]

Unfinished(e) == e.state \in {"pending", "running"}

\* Receipt r is the newest of its turn, and nothing known revokes the turn.
UpToDate(r) ==
    /\ r = head[TurnOf(r)]
    /\ \A s \in sources : TurnOf(s) = TurnOf(r) => s <= r /\ JobOf(s) \notin tombstones

\* The items of a receipt: one extraction, and one consolidation once the
\* extraction is done.
Results(ws) ==
    /\ \A i, k \in DOMAIN ws : ws[i].receipt = ws[k].receipt /\ ws[i].kind = ws[k].kind => i = k
    /\ \A i, k \in DOMAIN ws :
        /\ ws[i].receipt = ws[k].receipt
        /\ ws[i].kind = "extract" /\ ws[k].kind = "consolidate"
        => ws[i].state = "done"

\* What the invariant asks of the queue, of a sequence that may replace it.
Sound(ws) ==
    /\ ws \in Seq(WorkItem)
    /\ \A i \in DOMAIN ws :
        /\ ws[i].receipt \in sources /\ ws[i].evidence \subseteq sources
        /\ Unfinished(ws[i]) => UpToDate(ws[i].receipt)
    /\ Results(ws)

Heads ==
    /\ binds \subseteq Turns \X Jobs
    /\ head \in [Turns -> Nat]
    /\ \A t \in Turns : head[t] # 0 => head[t] \in sources /\ TurnOf(head[t]) = t
    /\ \A s \in sources : source_valid(s, binds) => s <= head[TurnOf(s)]

Leased ==
    /\ lease \in [Workers -> LeaseRecord]
    /\ \A w \in Workers : lease[w].item \in {0} \cup DOMAIN work

Asked ==
    /\ request \in RequestRecord
    /\ \A E \in request.answer : E \subseteq DOMAIN outbox
    /\ \A c \in Callers : sync[c].todo \subseteq DOMAIN outbox
    /\ poll.receipt \in {0} \cup DOMAIN outbox
    /\ replayCursor \in {0} \cup DOMAIN outbox
    /\ faults \in Nat

Queued == Heads /\ Sound(work) /\ Leased /\ Asked

----------------------------------------------------------------------------
(* Receipts and revisions.                                                 *)

\* Receipts number the outbox without a gap, and each names a turn.
LEMMA Captures ==
    ASSUME Captured
    PROVE  /\ \A r \in DOMAIN outbox : r \in Nat /\ TurnOf(r) \in Turns /\ JobOf(r) \in Jobs \cup {None}
           /\ DOMAIN outbox \subseteq Nat \ {0}
           /\ \A r \in DOMAIN outbox : 1..r \subseteq DOMAIN outbox
<1>1. \A r \in DOMAIN outbox : outbox[r] \in Receipt /\ r \in Nat \ {0} /\ 1..r \subseteq DOMAIN outbox
  BY DEF Captured
<1> QED
  BY <1>1 DEF Receipt, TurnOf, JobOf

\* Revisions count the receipts of a turn, so they follow the outbox order.
LEMMA RevisionOrder ==
    ASSUME Captured, NEW r \in DOMAIN outbox, NEW s \in DOMAIN outbox, TurnOf(r) = TurnOf(s)
    PROVE  Revision(r) <= Revision(s) <=> r <= s
<1> DEFINE Upto(x) == {y \in 1..x : TurnOf(y) = TurnOf(x)}
<1>1. r \in Nat \ {0} /\ s \in Nat \ {0}
  BY Captures
<1>2. ASSUME NEW x \in {r, s} PROVE IsFiniteSet(Upto(x)) /\ Cardinality(Upto(x)) \in Nat
  <2>1. IsFiniteSet(1..x)
    <3>1. 1 \in Int /\ x \in Int
      BY <1>1
    <3> QED
      BY <3>1, FS_Interval
  <2>2. Upto(x) \in SUBSET (1..x)
    OBVIOUS
  <2>3. IsFiniteSet(Upto(x))
    BY <2>1, <2>2, FS_Subset
  <2> QED
    BY <2>3, FS_CardinalityType
<1>3. ASSUME r <= s PROVE Cardinality(Upto(r)) <= Cardinality(Upto(s))
  <2>1. Upto(r) \in SUBSET Upto(s)
    BY <1>1, <1>3
  <2> QED
    BY <1>2, <2>1, FS_Subset
<1>4. ASSUME s < r PROVE Cardinality(Upto(s)) < Cardinality(Upto(r))
  <2>1. r \notin Upto(s) /\ Upto(s) \cup {r} \in SUBSET Upto(r)
    BY <1>1, <1>4
  <2>2. IsFiniteSet(Upto(s)) /\ Cardinality(Upto(s)) \in Nat
    BY <1>2
  <2> HIDE DEF Upto
  <2>3. Cardinality(Upto(s) \cup {r}) = Cardinality(Upto(s)) + 1
    BY <2>1, <2>2, FS_AddElement
  <2>4. Cardinality(Upto(s) \cup {r}) <= Cardinality(Upto(r))
    BY <1>2, <2>1, FS_Subset
  <2> QED
    BY <1>2, <2>2, <2>3, <2>4
<1>5. Revision(r) = Cardinality(Upto(r)) /\ Revision(s) = Cardinality(Upto(s))
  BY DEF Revision
<1> HIDE DEF Upto
<1> QED
  BY <1>1, <1>2, <1>3, <1>4, <1>5

----------------------------------------------------------------------------
(* Sequences of work items.                                                *)

\* What may happen to an item that stays in the queue: it is leased, given
\* back, finished or revoked, but what is finished is never taken up again.
Aged(e, f) ==
    /\ f \in WorkItem
    /\ f.receipt = e.receipt /\ f.kind = e.kind /\ f.evidence = e.evidence
    /\ Unfinished(f) => Unfinished(e)
    /\ e.state = "done" => f.state = "done"

AllAged(ws, vs) == DOMAIN vs = DOMAIN ws /\ \A i \in DOMAIN ws : Aged(ws[i], vs[i])

\* A queue whose items only age remains sound.
LEMMA AgedSound ==
    ASSUME NEW ws, Sound(ws), NEW vs, vs = [i \in DOMAIN vs |-> vs[i]], AllAged(ws, vs)
    PROVE  Sound(vs) /\ Len(vs) = Len(ws)
<1>1. ws \in Seq(WorkItem) /\ DOMAIN vs = 1..Len(ws) /\ Len(ws) \in Nat
  BY DEF Sound, AllAged
<1>2. vs \in Seq(WorkItem) /\ Len(vs) = Len(ws)
  BY <1>1 DEF AllAged, Aged
<1>3. Results(vs)
  BY DEF Sound, Results, AllAged, Aged
<1>4. ASSUME NEW i \in DOMAIN vs
      PROVE  /\ vs[i].receipt \in sources /\ vs[i].evidence \subseteq sources
             /\ Unfinished(vs[i]) => UpToDate(vs[i].receipt)
  BY DEF Sound, AllAged, Aged
<1> QED
  BY <1>2, <1>3, <1>4 DEF Sound

\* An item changes by itself.
LEMMA OneAged ==
    ASSUME NEW ws, Sound(ws), NEW i \in DOMAIN ws, NEW f, Aged(ws[i], f)
    PROVE  Sound([ws EXCEPT ![i] = f]) /\ DOMAIN [ws EXCEPT ![i] = f] = DOMAIN ws
<1> DEFINE vs == [ws EXCEPT ![i] = f]
<1>1. ws \in Seq(WorkItem) /\ \A k \in DOMAIN ws : ws[k] \in WorkItem
  BY DEF Sound
<1>2. DOMAIN vs = DOMAIN ws /\ \A k \in DOMAIN ws : vs[k] = IF k = i THEN f ELSE ws[k]
  BY <1>1
<1>3. \A k \in DOMAIN ws : Aged(ws[k], ws[k])
  BY <1>1 DEF Aged
<1>4. vs = [k \in DOMAIN vs |-> vs[k]]
  BY <1>1
<1> HIDE DEF vs
<1>5. AllAged(ws, vs)
  BY <1>2, <1>3 DEF AllAged
<1>6. Sound(vs)
  BY <1>4, <1>5, AgedSound
<1> QED
  BY <1>2, <1>6 DEF vs

\* New work is well formed and pending.
LEMMA NewWorkItem ==
    ASSUME NEW r \in Nat, NEW kind \in Kinds, NEW E \in SUBSET Nat
    PROVE  /\ NewWork(r, kind, E) \in WorkItem
           /\ NewWork(r, kind, E).receipt = r /\ NewWork(r, kind, E).kind = kind
           /\ NewWork(r, kind, E).evidence = E /\ NewWork(r, kind, E).state = "pending"
<1>1. 0 \in 0..MaxAttempts /\ "pending" \in States
  BY LimitsPositive DEF States
<1> QED
  BY <1>1 DEF NewWork, WorkItem

\* Appending work keeps at most one result per item,
LEMMA AppendResults ==
    ASSUME NEW ws \in Seq(WorkItem), Results(ws), NEW e \in WorkItem,
           \A i \in DOMAIN ws : ws[i].receipt = e.receipt =>
               e.kind = "consolidate" /\ ws[i].kind = "extract" /\ ws[i].state = "done"
    PROVE  /\ Append(ws, e) \in Seq(WorkItem) /\ Results(Append(ws, e))
           /\ DOMAIN ws \subseteq DOMAIN Append(ws, e)
           /\ \A i \in DOMAIN Append(ws, e) :
                \/ i \in DOMAIN ws /\ Append(ws, e)[i] = ws[i]
                \/ i = Len(ws) + 1 /\ Append(ws, e)[i] = e
<1> DEFINE vs == Append(ws, e)
<1>1. /\ vs \in Seq(WorkItem) /\ DOMAIN ws \subseteq DOMAIN vs
      /\ \A i \in DOMAIN vs : (i \in DOMAIN ws /\ vs[i] = ws[i]) \/ (i = Len(ws) + 1 /\ vs[i] = e)
  OBVIOUS
<1> HIDE DEF vs
<1>2. ASSUME NEW i \in DOMAIN vs, NEW k \in DOMAIN vs, vs[i].receipt = vs[k].receipt,
             vs[i].kind = vs[k].kind
      PROVE  i = k
  BY <1>1, <1>2 DEF Results
<1>3. ASSUME NEW i \in DOMAIN vs, NEW k \in DOMAIN vs, vs[i].receipt = vs[k].receipt,
             vs[i].kind = "extract", vs[k].kind = "consolidate"
      PROVE  vs[i].state = "done"
  BY <1>1, <1>3 DEF Results
<1>4. Results(vs)
  BY <1>2, <1>3 DEF Results
<1> QED
  BY <1>1, <1>4 DEF vs

\* and keeps the work sound.
LEMMA AppendSound ==
    ASSUME NEW ws, Sound(ws), sources \subseteq Nat, NEW r \in sources, UpToDate(r),
           NEW kind \in Kinds, NEW E \in SUBSET sources,
           \A i \in DOMAIN ws : ws[i].receipt = r =>
               kind = "consolidate" /\ ws[i].kind = "extract" /\ ws[i].state = "done"
    PROVE  /\ Sound(Append(ws, NewWork(r, kind, E)))
           /\ DOMAIN ws \subseteq DOMAIN Append(ws, NewWork(r, kind, E))
<1> DEFINE e == NewWork(r, kind, E)
           vs == Append(ws, e)
<1>1. /\ e \in WorkItem /\ e.receipt = r /\ e.kind = kind /\ e.evidence = E
      /\ e.state = "pending"
  BY NewWorkItem
<1> HIDE DEF e
<1>2. /\ vs \in Seq(WorkItem) /\ Results(vs) /\ DOMAIN ws \subseteq DOMAIN vs
      /\ \A i \in DOMAIN vs : (i \in DOMAIN ws /\ vs[i] = ws[i]) \/ (i = Len(ws) + 1 /\ vs[i] = e)
  BY <1>1, AppendResults DEF Sound
<1> HIDE DEF vs
<1>3. \A i \in DOMAIN vs :
        /\ vs[i].receipt \in sources /\ vs[i].evidence \subseteq sources
        /\ Unfinished(vs[i]) => UpToDate(vs[i].receipt)
  BY <1>1, <1>2 DEF Sound
<1>4. Sound(vs)
  BY <1>2, <1>3 DEF Sound
<1> QED
  BY <1>2, <1>4 DEF vs, e

\* A superseded, revoked or given-up item is an aged one.
LEMMA SweepsAge ==
    ASSUME Sound(work), NEW rs, NEW r
    PROVE  /\ Sound(RevokeWork(rs)) /\ DOMAIN RevokeWork(rs) = DOMAIN work
           /\ Sound(CancelSuperseded(r)) /\ DOMAIN CancelSuperseded(r) = DOMAIN work
           /\ Sound(GiveUp) /\ DOMAIN GiveUp = DOMAIN work
<1>1. ASSUME NEW i \in DOMAIN work
      PROVE  /\ Aged(work[i], RevokeWork(rs)[i])
             /\ Aged(work[i], CancelSuperseded(r)[i])
             /\ Aged(work[i], GiveUp[i])
  <2>1. work[i] \in WorkItem
    BY DEF Sound
  <2> DEFINE Dropped(s, g) == [work[i] EXCEPT !.state = s, !.owner = None, !.expired = FALSE,
                                             !.generation = g]
  <2>2. ASSUME NEW s \in {"cancelled", "failed"}, NEW g \in Nat, work[i].state # "done"
        PROVE  Aged(work[i], Dropped(s, g))
    BY <2>1, <2>2 DEF WorkItem, States, Aged, Unfinished
  <2>3. work[i].generation \in Nat /\ work[i].generation + 1 \in Nat
    BY <2>1 DEF WorkItem
  <2>4. Aged(work[i], work[i])
    BY <2>1 DEF Aged
  <2>5. Aged(work[i], RevokeWork(rs)[i])
    <3>1. RevokeWork(rs)[i] = work[i]
          \/ (RevokeWork(rs)[i] = Dropped("cancelled", work[i].generation + 1) /\ work[i].state # "done")
      BY <2>1 DEF RevokeWork, WorkItem
    <3> QED
      BY <2>2, <2>3, <2>4, <3>1
  <2>6. Aged(work[i], CancelSuperseded(r)[i])
    <3>1. CancelSuperseded(r)[i] = work[i]
          \/ (CancelSuperseded(r)[i] = Dropped("cancelled", work[i].generation) /\ work[i].state # "done")
      BY <2>1 DEF CancelSuperseded, WorkItem
    <3> QED
      BY <2>2, <2>3, <2>4, <3>1
  <2>7. Aged(work[i], GiveUp[i])
    <3>1. GiveUp[i] = work[i]
          \/ (GiveUp[i] = Dropped("failed", work[i].generation) /\ work[i].state # "done")
      BY <2>1 DEF GiveUp, WorkItem
    <3> QED
      BY <2>2, <2>3, <2>4, <3>1
  <2> QED
    BY <2>5, <2>6, <2>7
<1>2. /\ DOMAIN RevokeWork(rs) = DOMAIN work /\ DOMAIN CancelSuperseded(r) = DOMAIN work
      /\ DOMAIN GiveUp = DOMAIN work
  BY DEF RevokeWork, CancelSuperseded, GiveUp
<1>3. AllAged(work, RevokeWork(rs)) /\ AllAged(work, CancelSuperseded(r)) /\ AllAged(work, GiveUp)
  BY <1>1, <1>2 DEF AllAged
<1>4. /\ RevokeWork(rs) = [i \in DOMAIN RevokeWork(rs) |-> RevokeWork(rs)[i]]
      /\ CancelSuperseded(r) = [i \in DOMAIN CancelSuperseded(r) |-> CancelSuperseded(r)[i]]
      /\ GiveUp = [i \in DOMAIN GiveUp |-> GiveUp[i]]
  BY <1>2 DEF RevokeWork, CancelSuperseded, GiveUp
<1> QED
  BY <1>2, <1>3, <1>4, AgedSound

\* What a sweep leaves unfinished it was not aimed at.
LEMMA SweepsReach ==
    ASSUME Sound(work), NEW i \in DOMAIN work, NEW rs, NEW r
    PROVE  /\ RevokeWork(rs)[i].receipt = work[i].receipt
           /\ RevokeWork(rs)[i].evidence = work[i].evidence
           /\ Unfinished(RevokeWork(rs)[i]) => Unfinished(work[i]) /\ work[i].receipt \notin rs
           /\ CancelSuperseded(r)[i].receipt = work[i].receipt
           /\ CancelSuperseded(r)[i].evidence = work[i].evidence
           /\ Unfinished(CancelSuperseded(r)[i]) => Unfinished(work[i]) /\ work[i].receipt # r
<1>1. work[i] \in WorkItem
  BY DEF Sound
<1> QED
  BY <1>1 DEF RevokeWork, CancelSuperseded, WorkItem, Unfinished

----------------------------------------------------------------------------
(* Heads, items and leases under the steps of the databases.               *)

\* The queue, the heads and the leases are read against receipts, tombstones
\* and bindings; a step that keeps the first two and adds to the third keeps
\* them.
LEMMA QueueKept ==
    ASSUME Revocable, Heads, Sound(work), Leased,
           \A r \in DOMAIN outbox : TurnOf(r)' = TurnOf(r) /\ JobOf(r)' = JobOf(r),
           UNCHANGED <<sources, tombstones, head, work, lease>>,
           binds \subseteq binds', binds' \subseteq Turns \X Jobs
    PROVE  Heads' /\ Sound(work)' /\ Leased'
<1>1. sources \subseteq DOMAIN outbox
  BY DEF Revocable, Stored
<1>2. Leased'
  BY DEF Leased
<1>3. \A r \in sources : UpToDate(r) => UpToDate(r)'
  BY <1>1 DEF UpToDate
<1>4. Sound(work)'
  BY <1>3 DEF Sound
<1>5. \A s \in sources : source_valid(s, binds)' => source_valid(s, binds)
  BY <1>1 DEF source_valid
<1>6. Heads'
  BY <1>1, <1>5 DEF Heads
<1> QED
  BY <1>2, <1>4, <1>6

\* Binding a turn only adds pairs of turns and Jobs.
LEMMA BindFacts ==
    ASSUME Captured, binds \subseteq Turns \X Jobs, NEW r \in DOMAIN outbox
    PROVE  /\ binds \subseteq BindTurn(r) /\ BindTurn(r) \subseteq Turns \X Jobs
           /\ JobOf(r) # None => <<TurnOf(r), JobOf(r)>> \in BindTurn(r)
BY Captures DEF BindTurn

\* A receipt that is stored becomes the newest of its turn and takes the
\* queue over from the one before it, or its turn is revoked.
LEMMA IngestQueue ==
    ASSUME Revocable, Heads, Sound(work), Leased, NEW r \in DOMAIN outbox, ingest(r),
           UNCHANGED <<outbox, tombstones, lease>>
    PROVE  Heads' /\ Sound(work)' /\ Leased'
<1> DEFINE bs == BindTurn(r)
           ss == sources \cup {r}
           t == TurnOf(r)
           prior == head[t]
           revoked == UNION {SourcesOf(j, bs, ss) :
                                 j \in {k \in tombstones : <<t, k>> \in bs}}
<1>1. /\ sources \subseteq DOMAIN outbox /\ DOMAIN outbox \subseteq Nat \ {0}
      /\ t \in Turns /\ r \in Nat \ {0} /\ None \notin tombstones
      /\ \A s \in DOMAIN outbox : TurnOf(s) \in Turns
  BY Captures, NoneIsNothing DEF Revocable, Stored
<1>2. /\ binds \subseteq bs /\ bs \subseteq Turns \X Jobs
      /\ JobOf(r) # None => <<t, JobOf(r)>> \in bs
  BY BindFacts DEF Revocable, Heads
<1>3. /\ \A s : TurnOf(s)' = TurnOf(s) /\ JobOf(s)' = JobOf(s)
      /\ \A s, b : source_valid(s, b)' = source_valid(s, b)
  BY DEF TurnOf, JobOf, source_valid
<1>4. CASE r \in sources
  <2>1. UNCHANGED <<sources, binds, head, work>>
    BY <1>4 DEF ingest
  <2> QED
    BY <1>3, <2>1, QueueKept DEF Heads
<1>5. CASE r \notin sources
  <2>1. sources' = ss /\ binds' = bs
    BY <1>5 DEF ingest
  <2>2. \A s : source_valid(s, bs) => source_valid(s, binds)
    BY <1>2 DEF source_valid
  <2>3. \A i \in DOMAIN work : work[i].receipt \in sources /\ work[i].evidence \subseteq sources
    BY DEF Sound
  <2>4. CASE source_valid(r, bs)
    <3>1. JobOf(r) \notin tombstones
      BY <1>1, <1>2, <2>4 DEF source_valid
    <3>2. enqueue_source(r)
      BY <1>5, <2>4 DEF ingest
    <3>3. CASE prior # 0 /\ Revision(prior) >= Revision(r)
      <4>1. UNCHANGED <<head, work>>
        BY <3>2, <3>3 DEF enqueue_source
      <4>2. r <= prior
        <5>1. prior \in sources /\ TurnOf(prior) = t
          BY <1>1, <3>3 DEF Heads
        <5>2. Revision(r) <= Revision(prior) <=> r <= prior
          BY <1>1, <5>1, RevisionOrder DEF Revocable
        <5> HIDE DEF prior
        <5> QED
          BY <3>3, <5>2
      <4>3. Heads'
        BY <1>1, <1>2, <1>3, <2>1, <2>2, <4>1, <4>2 DEF Heads
      <4>4. ASSUME NEW q \in sources, UpToDate(q) PROVE UpToDate(q)'
        BY <1>3, <2>1, <3>1, <4>1, <4>2, <4>4 DEF UpToDate
      <4>5. Sound(work)'
        BY <2>1, <4>1, <4>4 DEF Sound
      <4> QED
        BY <4>1, <4>3, <4>5 DEF Leased
    <3>4. CASE ~(prior # 0 /\ Revision(prior) >= Revision(r))
      <4> DEFINE ws == CancelSuperseded(prior)
                 e == NewWork(r, "extract", {})
      <4>1. work' = Append(ws, e) /\ head' = [head EXCEPT ![t] = r]
        BY <3>2, <3>4 DEF enqueue_source
      <4>2. head \in [Turns -> Nat]
        BY DEF Heads
      <4>3. head'[t] = r /\ \A u \in Turns : u # t => head'[u] = head[u]
        BY <1>1, <4>1, <4>2
      <4>4. prior < r
        <5>1. CASE prior = 0
          BY <1>1, <5>1
        <5>2. CASE prior # 0
          <6>1. prior \in sources /\ TurnOf(prior) = t /\ prior \in Nat
            BY <1>1, <4>2, <5>2 DEF Heads
          <6>2. Revision(r) <= Revision(prior) <=> r <= prior
            BY <1>1, <6>1, RevisionOrder DEF Revocable
          <6> HIDE DEF prior
          <6> QED
            BY <1>1, <3>4, <5>2, <6>1, <6>2
        <5> QED
          BY <5>1, <5>2
      <4>5. \A s \in sources : TurnOf(s) = t => s <= prior
        <5> SUFFICES ASSUME NEW s \in sources, TurnOf(s) = t PROVE s <= prior
          OBVIOUS
        <5>1. source_valid(s, binds)
          BY <1>2, <2>4 DEF source_valid
        <5> QED
          BY <5>1 DEF Heads
      <4>6. Heads'
        <5>1. \A s \in sources' : source_valid(s, binds)' => s <= head'[TurnOf(s)]
          BY <1>1, <1>3, <2>1, <2>2, <4>2, <4>3, <4>4, <4>5 DEF Heads
        <5>2. \A u \in Turns : head'[u] # 0 => head'[u] \in sources' /\ TurnOf(head'[u]) = u
          BY <2>1, <4>3 DEF Heads
        <5>3. head' \in [Turns -> Nat]
          BY <1>1, <4>1, <4>2
        <5> HIDE DEF bs
        <5> QED
          BY <1>2, <1>3, <2>1, <5>1, <5>2, <5>3 DEF Heads
      <4>7. UpToDate(r)'
        <5>1. \A s \in sources : TurnOf(s) = t => JobOf(s) \notin tombstones
          BY <1>1, <1>2, <2>4 DEF source_valid, Revocable, Bound
        <5>2. prior \in Nat /\ \A s \in sources : s \in Nat
          BY <1>1, <4>2
        <5> HIDE DEF prior
        <5> QED
          BY <1>1, <1>3, <2>1, <3>1, <4>3, <4>4, <4>5, <5>1, <5>2 DEF UpToDate
      <4>8. ASSUME NEW q \in sources, UpToDate(q), TurnOf(q) # t PROVE UpToDate(q)'
        BY <1>1, <1>3, <2>1, <4>3, <4>8 DEF UpToDate
      <4>9. Sound(ws) /\ DOMAIN ws = DOMAIN work
        BY SweepsAge
      <4>10. ASSUME NEW i \in DOMAIN ws
             PROVE  /\ ws[i].receipt \in sources /\ ws[i].evidence \subseteq sources
                    /\ Unfinished(ws[i]) => TurnOf(ws[i].receipt) # t /\ UpToDate(ws[i].receipt)
        <5>1. /\ ws[i].receipt = work[i].receipt /\ ws[i].evidence = work[i].evidence
              /\ Unfinished(ws[i]) => Unfinished(work[i]) /\ work[i].receipt # prior
          BY <4>9, SweepsReach
        <5> HIDE DEF ws, prior
        <5>2. Unfinished(work[i]) => UpToDate(work[i].receipt)
          BY <4>9 DEF Sound
        <5> QED
          BY <2>3, <4>9, <5>1, <5>2 DEF UpToDate, prior
      <4>11. e \in WorkItem /\ e.receipt = r /\ e.kind = "extract" /\ e.evidence = {}
        BY <1>1, NewWorkItem DEF Kinds
      <4> HIDE DEF ws, e, prior
      <4>12. /\ work' \in Seq(WorkItem) /\ Results(work') /\ DOMAIN work \subseteq DOMAIN work'
             /\ \A i \in DOMAIN work' : (i \in DOMAIN ws /\ work'[i] = ws[i]) \/ work'[i] = e
        BY <1>5, <4>1, <4>9, <4>10, <4>11, AppendResults DEF Sound
      <4>13. ASSUME NEW i \in DOMAIN work'
             PROVE  /\ work'[i].receipt \in sources' /\ work'[i].evidence \subseteq sources'
                    /\ Unfinished(work'[i]) => UpToDate(work[i].receipt)'
        BY <2>1, <4>7, <4>8, <4>10, <4>11, <4>12
      <4>14. Sound(work)'
        BY <4>12, <4>13 DEF Sound, Results, Unfinished
      <4>15. Leased'
        BY <4>12 DEF Leased
      <4> QED
        BY <4>6, <4>14, <4>15
    <3> QED
      BY <3>3, <3>4
  <2>5. CASE ~source_valid(r, bs)
    <3>1. work' = RevokeWork(revoked) /\ UNCHANGED head
      BY <1>5, <2>5 DEF ingest
    <3>2. Heads'
      BY <1>1, <1>2, <1>3, <2>1, <2>2, <2>5, <3>1 DEF Heads
    <3>3. PICK j \in tombstones : <<t, j>> \in bs
      BY <2>5 DEF source_valid
    <3>4. \A q \in sources : TurnOf(q) = t => q \in revoked
      BY <3>3 DEF SourcesOf
    <3> HIDE DEF revoked
    <3>5. Sound(work') /\ DOMAIN work' = DOMAIN work
      BY <3>1, SweepsAge
    <3>6. ASSUME NEW q \in sources, UpToDate(q), q \notin revoked PROVE UpToDate(q)'
      BY <1>3, <2>1, <3>1, <3>4, <3>6 DEF UpToDate
    <3>7. \A i \in DOMAIN work' : Unfinished(work'[i]) => UpToDate(work[i].receipt)'
      <4> SUFFICES ASSUME NEW i \in DOMAIN work', Unfinished(work'[i])
                   PROVE  UpToDate(work[i].receipt)'
        OBVIOUS
      <4>1. work'[i].receipt \notin revoked
        BY <3>1, <3>5, SweepsReach
      <4>2. work'[i].receipt \in sources /\ UpToDate(work'[i].receipt)
        BY <3>5 DEF Sound
      <4> QED
        BY <3>6, <4>1, <4>2
    <3>8. Sound(work)'
      BY <2>1, <3>5, <3>7 DEF Sound, Results, Unfinished
    <3>9. Leased'
      BY <3>5 DEF Leased
    <3> QED
      BY <3>2, <3>8, <3>9
  <2> QED
    BY <2>4, <2>5
<1> QED
  BY <1>4, <1>5

Pipeline == Heads /\ Sound(work) /\ Leased

\* Binding a turn changes nothing in the queue; the cancellation of its Job
\* then finds the turn's work through the binding.
LEMMA SyncQueue ==
    ASSUME Revocable, Pipeline, Asked, NEW c, SyncStep(c)
    PROVE  Pipeline'
<1> USE DEF Pipeline
<1>1. UNCHANGED <<outbox, sources, head, lease>>
  BY DEF SyncStep, SyncReadSources, bind_cancelled_source, invalidate_job,
         checkpoint_cancellations, taskDb, memoryDb
<1>2. \A s : TurnOf(s)' = TurnOf(s) /\ JobOf(s)' = JobOf(s)
  BY <1>1 DEF TurnOf, JobOf
<1>3. CASE SyncReadSources(c) \/ checkpoint_cancellations(c)
  <2>1. UNCHANGED <<binds, tombstones, work>>
    BY <1>3 DEF SyncReadSources, checkpoint_cancellations, memoryDb
  <2> QED
    BY <1>1, <1>2, <2>1, QueueKept DEF Heads
<1>4. CASE bind_cancelled_source(c)
  <2>1. PICK r \in sync[c].todo : binds' = BindTurn(r)
    BY <1>4 DEF bind_cancelled_source
  <2>2. r \in DOMAIN outbox
    BY <1>4, <2>1 DEF bind_cancelled_source, Asked
  <2>3. UNCHANGED <<tombstones, work>>
    BY <1>4 DEF bind_cancelled_source
  <2>4. binds \subseteq binds' /\ binds' \subseteq Turns \X Jobs
    BY <2>1, <2>2, BindFacts DEF Revocable, Heads
  <2> QED
    BY <1>1, <1>2, <2>3, <2>4, QueueKept
<1>5. CASE invalidate_job(c)
  <2> DEFINE j == cancels[sync[c].next].job
             rs == SourcesOf(j, binds, sources)
  <2>1. /\ tombstones' = tombstones \cup {j} /\ work' = RevokeWork(rs) /\ UNCHANGED binds
        /\ c \in Callers /\ sync[c].step = "bind"
    BY <1>5 DEF invalidate_job
  <2>2. j # None
    <3>1. sync[c].next \in 1..Len(cancels)
      BY <2>1 DEF Revocable, Syncing, SyncCall, Captured
    <3>2. j \in Jobs
      BY <3>1, CancelledJobs DEF Revocable
    <3> QED
      BY <3>2, NoneIsNothing
  <2>3. Heads'
    BY <1>1, <1>2, <2>1 DEF Heads, source_valid
  <2>4. Sound(work') /\ DOMAIN work' = DOMAIN work
    BY <2>1, SweepsAge
  <2>5. ASSUME NEW q \in sources, UpToDate(q), q \notin rs PROVE UpToDate(q)'
    <3>1. \A s \in sources : TurnOf(s) = TurnOf(q) => JobOf(s) # j
      <4> SUFFICES ASSUME NEW s \in sources, TurnOf(s) = TurnOf(q), JobOf(s) = j PROVE FALSE
        OBVIOUS
      <4>1. <<TurnOf(q), j>> \in binds
        BY <2>2 DEF Revocable, Bound
      <4> QED
        BY <2>5, <4>1 DEF SourcesOf
    <3> QED
      BY <1>1, <1>2, <2>1, <2>5, <3>1 DEF UpToDate
  <2>6. \A i \in DOMAIN work' : Unfinished(work'[i]) => UpToDate(work[i].receipt)' /\ work'[i].receipt \in sources
    <3> SUFFICES ASSUME NEW i \in DOMAIN work', Unfinished(work'[i])
                 PROVE  UpToDate(work[i].receipt)' /\ work'[i].receipt \in sources
      OBVIOUS
    <3>1. work'[i].receipt \notin rs
      BY <2>1, <2>4, SweepsReach
    <3>2. work'[i].receipt \in sources /\ UpToDate(work'[i].receipt)
      BY <2>4 DEF Sound
    <3> QED
      BY <2>5, <3>1, <3>2
  <2>7. Sound(work)'
    BY <1>1, <2>4, <2>6 DEF Sound, Results, Unfinished
  <2>8. Leased'
    BY <1>1, <2>4 DEF Leased
  <2> QED
    BY <2>3, <2>7, <2>8
<1> QED
  BY <1>3, <1>4, <1>5 DEF SyncStep

\* A step of the queue itself is judged by the items and leases it leaves.
LEMMA QueueMoves ==
    ASSUME Revocable, Heads, Sound(work'), UNCHANGED <<outbox, sources, binds, tombstones, head>>,
           lease' \in [Workers -> LeaseRecord],
           \A w \in Workers : lease'[w].item \in {0} \cup DOMAIN work'
    PROVE  Pipeline'
<1>1. /\ \A s : TurnOf(s)' = TurnOf(s) /\ JobOf(s)' = JobOf(s)
      /\ \A s, b : source_valid(s, b)' = source_valid(s, b)
  BY DEF TurnOf, JobOf, source_valid
<1>2. Heads'
  BY <1>1 DEF Heads
<1>3. \A r \in sources : UpToDate(r) => UpToDate(r)'
  BY <1>1 DEF UpToDate
<1>4. Sound(work)'
  BY <1>3 DEF Sound, Results, Unfinished
<1> QED
  BY <1>2, <1>4 DEF Pipeline, Leased

\* No lease is a lease record on nothing.
LEMMA NoLeaseTyped == NoLease \in LeaseRecord /\ NoLease.item = 0
BY DEF NoLease, LeaseRecord

\* A worker whose lease is current holds an item that is running.
LEMMA CurrentItem ==
    ASSUME Sound(work), Leased, NEW w \in Workers, Current(w)
    PROVE  LET i == lease[w].item IN
           /\ i \in DOMAIN work /\ work[i] \in WorkItem
           /\ work[i].state = "running" /\ Unfinished(work[i])
BY DEF Current, Leased, Sound, Unfinished

\* The steps of a worker keep the queue,
LEMMA LeaseQueue ==
    ASSUME Revocable, Pipeline, NEW w \in Workers, WorkerStep(w)
    PROVE  Pipeline'
<1> USE DEF Pipeline
<1>1. UNCHANGED <<outbox, sources, binds, tombstones, head>>
  BY DEF WorkerStep, claim_work, claim_nothing, complete_extraction, complete_consolidation,
         fail_work, Abandon, taskDb, memoryDb
<1>2. /\ work \in Seq(WorkItem) /\ lease \in [Workers -> LeaseRecord]
      /\ \A x \in Workers : lease[x].item \in {0} \cup DOMAIN work
      /\ \A k \in DOMAIN work : work[k] \in WorkItem
  BY DEF Sound, Leased
<1>3. Sound(GiveUp) /\ DOMAIN GiveUp = DOMAIN work
  BY SweepsAge
<1> DEFINE i == lease[w].item
           Dropped == [lease EXCEPT ![w] = NoLease]
<1>4. Dropped \in [Workers -> LeaseRecord] /\ \A x \in Workers : Dropped[x].item \in {0, lease[x].item}
  BY <1>2, NoLeaseTyped
<1> HIDE DEF i, Dropped
<1>5. CASE claim_work(w)
  <2> DEFINE ws == GiveUp
  <2>1. PICK k \in Claimable(ws) :
            /\ work' = [ws EXCEPT ![k] = [ws[k] EXCEPT !.state = "running", !.owner = w,
                                              !.attempts = @ + 1, !.expired = FALSE,
                                              !.generation = @ + 1]]
            /\ lease' = [lease EXCEPT ![w] = [item |-> k, generation |-> ws[k].generation + 1]]
    BY <1>5 DEF claim_work
  <2> HIDE DEF ws
  <2>2. ws \in Seq(WorkItem) /\ Sound(ws) /\ DOMAIN ws = DOMAIN work
    BY <1>3 DEF ws, Sound
  <2>3. /\ k \in DOMAIN ws /\ ws[k] \in WorkItem /\ Unfinished(ws[k])
        /\ ws[k].attempts < MaxAttempts
    BY <2>2 DEF Claimable, Unfinished
  <2> DEFINE f == [ws[k] EXCEPT !.state = "running", !.owner = w,
                                !.attempts = ws[k].attempts + 1, !.expired = FALSE,
                                !.generation = ws[k].generation + 1]
  <2>4. /\ ws[k].attempts + 1 \in 0..MaxAttempts
        /\ ws[k].generation + 1 \in Nat /\ k \in Nat
    BY SMTT(30), <2>2, <2>3, LimitsPositive DEF WorkItem
  <2>5. f \in WorkItem
    BY <2>3, <2>4 DEF WorkItem, States
  <2>6. Aged(ws[k], f)
    BY <2>3, <2>5 DEF Aged, Unfinished, WorkItem
  <2>7. work' = [ws EXCEPT ![k] = f]
    <3>1. [ws[k] EXCEPT !.state = "running", !.owner = w, !.attempts = @ + 1,
                        !.expired = FALSE, !.generation = @ + 1] = f
      BY <2>3 DEF WorkItem
    <3> HIDE DEF f
    <3> QED
      BY <2>1, <2>2, <2>3, <3>1
  <2> HIDE DEF f
  <2>8. Sound(work') /\ DOMAIN work' = DOMAIN work
    BY <2>2, <2>3, <2>6, <2>7, OneAged
  <2>9. /\ lease' \in [Workers -> LeaseRecord]
        /\ \A x \in Workers : lease'[x].item \in {0} \cup DOMAIN work'
    BY <1>2, <2>1, <2>2, <2>3, <2>4, <2>8 DEF LeaseRecord
  <2> QED
    BY <1>1, <2>8, <2>9, QueueMoves
<1>6. CASE claim_nothing(w)
  <2>1. work' = GiveUp /\ UNCHANGED lease
    BY <1>6 DEF claim_nothing, daemon
  <2> QED
    BY <1>1, <1>2, <1>3, <2>1, QueueMoves
<1>7. ASSUME NEW f, Current(w), Aged(work[i], f), work' = [work EXCEPT ![i] = f], lease' = Dropped
      PROVE  Pipeline'
  <2>1. i \in DOMAIN work
    BY <1>7, CurrentItem DEF i
  <2>2. Sound(work') /\ DOMAIN work' = DOMAIN work
    BY <1>7, <2>1, OneAged
  <2> QED
    BY <1>1, <1>2, <1>4, <1>7, <2>2, QueueMoves
<1>8. ASSUME Current(w)
      PROVE  LET f == [work[i] EXCEPT !.state = "done", !.owner = None] IN
             /\ Aged(work[i], f) /\ f.state = "done" /\ Finished(i) = [work EXCEPT ![i] = f]
  <2>1. work[i] \in WorkItem /\ work[i].state = "running"
    BY <1>8, CurrentItem DEF i
  <2> QED
    BY <2>1 DEF Aged, WorkItem, States, Unfinished, Finished
<1>9. CASE complete_extraction(w)
  <2> DEFINE f == [work[i] EXCEPT !.state = "done", !.owner = None]
             ws == [work EXCEPT ![i] = f]
  <2>1. /\ Current(w) /\ work[i].kind = "extract" /\ lease' = Dropped
        /\ \/ work' = Finished(i)
           \/ \E E \in SUBSET sources : work' = Append(Finished(i), NewWork(work[i].receipt, "consolidate", E))
    BY <1>9 DEF complete_extraction, i, Dropped
  <2>2. Aged(work[i], f) /\ f.state = "done" /\ Finished(i) = ws
    BY <1>8, <2>1
  <2>3. /\ i \in DOMAIN work /\ work[i] \in WorkItem /\ work[i].receipt \in sources
        /\ UpToDate(work[i].receipt) /\ work[i].state = "running"
    BY <2>1, CurrentItem DEF i, Sound
  <2> HIDE DEF f
  <2>4. CASE work' = Finished(i)
    BY <1>7, <2>1, <2>2, <2>4
  <2>5. CASE \E E \in SUBSET sources : work' = Append(Finished(i), NewWork(work[i].receipt, "consolidate", E))
    <3>1. PICK E \in SUBSET sources : work' = Append(ws, NewWork(work[i].receipt, "consolidate", E))
      BY <2>2, <2>5
    <3>2. Sound(ws) /\ DOMAIN ws = DOMAIN work
      BY <2>2, <2>3, OneAged
    <3>3. \A k \in DOMAIN work : ws[k] = IF k = i THEN f ELSE work[k]
      BY <1>2
    <3> HIDE DEF ws
    <3>4. ASSUME NEW k \in DOMAIN ws, ws[k].receipt = work[i].receipt
          PROVE  ws[k].kind = "extract" /\ ws[k].state = "done"
      <4>1. ws[k].kind \in Kinds
        <5>1. ws[k] \in WorkItem
          BY <3>2 DEF Sound
        <5> QED
          BY <5>1 DEF WorkItem
      <4>2. ws[i].kind = "extract" /\ ws[i].state = "done" /\ ws[i].receipt = work[i].receipt
        BY <2>1, <2>2, <2>3, <3>3 DEF Aged
      <4>3. ws[k].kind = "extract"
        <5> SUFFICES ASSUME ws[k].kind = "consolidate" PROVE FALSE
          BY <4>1 DEF Kinds
        <5>1. k # i /\ work[k].kind = "consolidate" /\ work[k].receipt = work[i].receipt
          BY <3>2, <3>3, <3>4, <4>2
        <5> QED
          BY <2>1, <2>3, <3>2, <5>1 DEF Sound, Results
      <4>4. k = i
        BY <2>3, <3>2, <3>4, <4>2, <4>3 DEF Sound, Results
      <4> QED
        BY <4>2, <4>4
    <3>5. sources \subseteq Nat
      BY Captures DEF Revocable, Stored
    <3>6. Sound(work') /\ DOMAIN ws \subseteq DOMAIN work'
      BY <2>3, <3>1, <3>2, <3>4, <3>5, AppendSound DEF Kinds
    <3> QED
      BY <1>1, <1>2, <1>4, <2>1, <3>2, <3>6, QueueMoves
  <2> QED
    BY <2>1, <2>4, <2>5
<1>10. CASE complete_consolidation(w)
  <2>1. Current(w) /\ work' = Finished(i) /\ lease' = Dropped
    BY <1>10 DEF complete_consolidation, i, Dropped
  <2> QED
    BY <1>7, <1>8, <2>1
<1>11. CASE fail_work(w)
  <2>1. PICK st \in {"failed", "pending"} :
            work' = [work EXCEPT ![i] = [@ EXCEPT !.owner = None, !.state = st]]
    BY <1>11 DEF fail_work, i
  <2>2. Current(w) /\ lease' = Dropped
    BY <1>11 DEF fail_work, i, Dropped
  <2> DEFINE f == [work[i] EXCEPT !.owner = None, !.state = st]
  <2>3. work[i] \in WorkItem /\ work[i].state = "running"
    BY <2>2, CurrentItem DEF i
  <2>4. Aged(work[i], f)
    BY <2>3 DEF Aged, WorkItem, States, Unfinished
  <2>5. work' = [work EXCEPT ![i] = f]
    BY <2>1
  <2> HIDE DEF f
  <2> QED
    BY <1>7, <2>2, <2>4, <2>5
<1>12. CASE Abandon(w)
  <2>1. UNCHANGED work /\ lease' = Dropped
    BY <1>12 DEF Abandon, memoryDb, Dropped
  <2> QED
    BY <1>1, <1>2, <1>4, <2>1, QueueMoves
<1> QED
  BY <1>5, <1>6, <1>9, <1>10, <1>11, <1>12 DEF WorkerStep

\* so does the expiry of a lease,
LEMMA ExpireQueue ==
    ASSUME Revocable, Pipeline, NEW i \in DOMAIN work, Expire(i)
    PROVE  Pipeline'
<1> USE DEF Pipeline
<1>1. UNCHANGED <<outbox, sources, binds, tombstones, head, lease>>
  BY DEF Expire, taskDb, daemon
<1> DEFINE f == [work[i] EXCEPT !.expired = TRUE]
<1>2. work[i] \in WorkItem
  BY DEF Sound
<1>3. Aged(work[i], f)
  BY <1>2 DEF Aged, WorkItem, Unfinished
<1>4. work' = [work EXCEPT ![i] = f]
  BY DEF Expire
<1> HIDE DEF f
<1>5. Sound(work') /\ DOMAIN work' = DOMAIN work
  BY <1>3, <1>4, OneAged
<1> QED
  BY <1>1, <1>5, QueueMoves DEF Leased

----------------------------------------------------------------------------
(* Every step keeps the queue and its callers.                             *)

\* and so does every step.
LEMMA StepPipeline ==
    ASSUME Revocable, Queued, [Next]_vars
    PROVE  Pipeline'
<1> USE DEF Queued, Pipeline
<1>1. ASSUME \A r \in DOMAIN outbox : TurnOf(r)' = TurnOf(r) /\ JobOf(r)' = JobOf(r),
             UNCHANGED <<sources, binds, tombstones, head, work, lease>>
      PROVE  Pipeline'
  BY <1>1, QueueKept DEF Heads
<1>2. CASE \E t \in Turns : RecordTurn(t) \/ \E j \in Jobs : AttachTurn(t, j)
  <2>1. PICK t \in Turns, j \in Jobs \cup {None} : capture(t, j)
    BY <1>2 DEF RecordTurn, AttachTurn, Revocable, Captured
  <2>2. UNCHANGED <<sources, binds, tombstones, head, work, lease>>
    BY <1>2 DEF RecordTurn, AttachTurn, memoryDb, daemon
  <2> QED
    BY <1>1, <2>1, <2>2, CaptureKeeps DEF Revocable
<1>3. CASE UserWrites \/ \E j \in Jobs : CancelJob(j)
  BY <1>1, <1>3 DEF UserWrites, CancelJob, memoryDb, daemon, taskDb, TurnOf, JobOf
<1>4. CASE IntakeSource \/ ReplaySource
  <2>1. PICK r \in DOMAIN outbox, replay \in BOOLEAN : Ingest(r, replay)
    <3>1. replayCursor < Len(outbox) => replayCursor + 1 \in DOMAIN outbox
      BY DEF Revocable, Captured, Polling
    <3> QED
      BY <1>4, <3>1 DEF IntakeSource, ReplaySource, Receipts
  <2> QED
    BY <2>1, IngestQueue DEF Ingest, taskDb
<1>5. CASE AcknowledgeSource
  <2>1. UNCHANGED <<sources, binds, tombstones, head, work, lease>>
    BY <1>5 DEF AcknowledgeSource, memoryDb
  <2>2. \A r \in DOMAIN outbox : TurnOf(r)' = TurnOf(r) /\ JobOf(r)' = JobOf(r)
    <3>1. outbox' = [outbox EXCEPT ![poll.receipt].acknowledged = TRUE]
      BY <1>5 DEF AcknowledgeSource
    <3>2. \A r \in DOMAIN outbox : outbox[r] \in Receipt
      BY DEF Revocable, Captured
    <3> QED
      BY <3>1, <3>2 DEF TurnOf, JobOf, Receipt
  <2> QED
    BY <1>1, <2>1, <2>2
<1>6. CASE \E c : SyncStep(c)
  BY <1>6, SyncQueue
<1>7. CASE \/ checkpoint_replay \/ PollSync \/ PollSyncEnds
           \/ RequestBegins \/ RequestSyncEnds \/ RequestMarks \/ RequestQueries
           \/ RequestRechecks \/ RequestReturns \/ PollFails \/ RequestFails
           \/ UNCHANGED vars
  <2>1. UNCHANGED <<outbox, sources, binds, tombstones, head, work, lease>>
    BY <1>7 DEF checkpoint_replay, PollSync, PollSyncEnds, RequestBegins, RequestSyncEnds,
                RequestMarks, RequestQueries, RequestRechecks, RequestReturns, PollFails,
                RequestFails, vars, taskDb, memoryDb, daemon
  <2> QED
    BY <1>1, <2>1 DEF TurnOf, JobOf
<1>8. CASE \E w \in Workers : WorkerStep(w)
  BY <1>8, LeaseQueue
<1>9. CASE OrphanExpires \/ SlowWorker
  BY <1>9, ExpireQueue DEF OrphanExpires, SlowWorker
<1>10. CASE Crash
  <2>1. UNCHANGED <<outbox, sources, binds, tombstones, head, work>>
    BY <1>10 DEF Crash, taskDb, memoryDb
  <2>2. lease' = [w \in Workers |-> NoLease]
    BY <1>10 DEF Crash, DaemonStops
  <2> QED
    BY <2>1, <2>2, QueueMoves, NoLeaseTyped
<1>11. CASE RestartEmpty
  <2>1. /\ sources' = {} /\ binds' = {} /\ head' = [t \in Turns |-> 0] /\ work' = <<>>
        /\ lease' = [w \in Workers |-> NoLease]
    BY <1>11 DEF RestartEmpty, DaemonStops
  <2>2. Heads'
    BY <2>1 DEF Heads
  <2>3. Sound(work)'
    BY <2>1 DEF Sound, Results
  <2>4. Leased'
    BY <2>1, NoLeaseTyped DEF Leased
  <2> QED
    BY <2>2, <2>3, <2>4
<1> QED
  BY <1>2, <1>3, <1>4, <1>5, <1>6, <1>7, <1>8, <1>9, <1>10, <1>11
     DEF Next, User, PollStep, RequestStep, Faults

\* The records of calls in progress name captured receipts.
LEMMA StepAsked ==
    ASSUME Revocable, Asked, [Next]_vars
    PROVE  Asked'
<1>1. DOMAIN outbox \subseteq DOMAIN outbox'
  <2>1. CASE \E t \in Turns : RecordTurn(t) \/ \E j \in Jobs : AttachTurn(t, j)
    <3>1. PICK t \in Turns, j \in Jobs \cup {None} : capture(t, j)
      BY <2>1 DEF RecordTurn, AttachTurn, Revocable, Captured
    <3> QED
      BY <3>1, CaptureKeeps DEF Revocable
  <2>2. CASE AcknowledgeSource
    BY <2>2 DEF AcknowledgeSource
  <2>3. CASE ~AcknowledgeSource /\ ~\E t \in Turns : RecordTurn(t) \/ \E j \in Jobs : AttachTurn(t, j)
    <3>1. UNCHANGED outbox
      BY <2>3 DEF Next, User, CancelJob, UserWrites, PollStep, IntakeSource, ReplaySource, Ingest,
                  checkpoint_replay, PollSync, SyncStep, SyncReadSources, bind_cancelled_source,
                  invalidate_job, checkpoint_cancellations, PollSyncEnds, RequestBegins,
                  RequestStep, RequestSyncEnds, RequestMarks, RequestQueries, RequestRechecks,
                  RequestReturns, WorkerStep, claim_work, claim_nothing, complete_extraction,
                  complete_consolidation, fail_work, Abandon, OrphanExpires, Expire, Faults,
                  SlowWorker, PollFails, RequestFails, Crash, RestartEmpty, vars, taskDb
    <3> QED
      BY <3>1
  <2> QED
    BY <2>1, <2>2, <2>3
<1>2. faults' \in Nat
  <2>1. faults' \in {faults, faults + 1}
    BY DEF Next, User, RecordTurn, AttachTurn, CancelJob, UserWrites, PollStep, IntakeSource,
           ReplaySource, Ingest, AcknowledgeSource,
           checkpoint_replay, PollSync, SyncStep, SyncReadSources, bind_cancelled_source,
           invalidate_job, checkpoint_cancellations, PollSyncEnds, RequestBegins,
           RequestStep, RequestSyncEnds, RequestMarks, RequestQueries, RequestRechecks,
           RequestReturns, WorkerStep, claim_work, claim_nothing, complete_extraction,
           complete_consolidation, fail_work, Abandon, OrphanExpires, Expire, Faults, Fault,
           SlowWorker, PollFails, RequestFails, Crash, RestartEmpty, vars
  <2> QED
    BY <2>1 DEF Asked
<1>3. /\ poll'.receipt \in {0} \cup DOMAIN outbox
      /\ replayCursor' \in {0} \cup DOMAIN outbox
  <2>1. CASE UNCHANGED <<poll, replayCursor>>
    BY <2>1 DEF Asked
  <2>2. CASE IntakeSource \/ ReplaySource
    <3>1. replayCursor < Len(outbox) => replayCursor + 1 \in DOMAIN outbox
      BY DEF Revocable, Captured, Polling
    <3>2. PICK r \in DOMAIN outbox, replay \in BOOLEAN : Ingest(r, replay)
      BY <2>2, <3>1 DEF IntakeSource, ReplaySource, Receipts
    <3> QED
      BY <3>2 DEF Ingest, Asked
  <2>3. CASE AcknowledgeSource
    <3>1. poll'.receipt \in {0, poll.receipt} /\ UNCHANGED replayCursor
      BY <2>3 DEF AcknowledgeSource, memoryDb, Idle, Revocable, Polling, PollState
    <3> QED
      BY <3>1 DEF Asked
  <2>4. CASE checkpoint_replay
    BY <2>4 DEF checkpoint_replay, Idle, Revocable, Polling
  <2>5. CASE PollFails \/ Crash \/ RestartEmpty
    BY <2>5 DEF PollFails, Crash, RestartEmpty, DaemonStops, memoryDb, Idle, Asked
  <2>6. CASE ~(IntakeSource \/ ReplaySource) /\ ~AcknowledgeSource /\ ~checkpoint_replay
             /\ ~(PollFails \/ Crash \/ RestartEmpty)
    <3>1. UNCHANGED <<poll, replayCursor>>
      BY <2>6 DEF Next, User, RecordTurn, AttachTurn, CancelJob, UserWrites, PollStep, PollSync,
                  SyncStep, SyncReadSources, bind_cancelled_source, invalidate_job,
                  checkpoint_cancellations, PollSyncEnds, RequestBegins, RequestStep,
                  RequestSyncEnds, RequestMarks, RequestQueries, RequestRechecks, RequestReturns,
                  WorkerStep, claim_work, claim_nothing, complete_extraction,
                  complete_consolidation, fail_work, Abandon, OrphanExpires, Expire, Faults,
                  SlowWorker, RequestFails, vars, memoryDb, daemon
    <3> QED
      BY <2>1, <3>1
  <2> QED
    BY <2>2, <2>3, <2>4, <2>5, <2>6
<1>4. \A c \in Callers : sync'[c].todo \subseteq DOMAIN outbox
  <2>1. sync \in [Callers -> SyncCall]
    BY DEF Revocable, Syncing
  <2>2. CASE UNCHANGED sync
    BY <2>2 DEF Asked
  <2>3. CASE \E c : SyncReadSources(c)
    <3>1. PICK c \in Callers, rs \in SUBSET DOMAIN outbox :
              sync' = [sync EXCEPT ![c].step = "bind", ![c].todo = rs]
      BY <2>3 DEF SyncReadSources, Receipts
    <3> QED
      BY <2>1, <3>1 DEF Asked, SyncCall
  <2>4. CASE \E c : bind_cancelled_source(c)
    <3>1. PICK c \in Callers : \E r \in sync[c].todo :
                                   sync' = [sync EXCEPT ![c].todo = @ \ {r}]
      BY <2>4 DEF bind_cancelled_source
    <3> QED
      BY <2>1, <3>1 DEF Asked, SyncCall
  <2>5. CASE \E c : invalidate_job(c) \/ checkpoint_cancellations(c)
    <3>1. \A c \in Callers : sync'[c].todo = sync[c].todo
      BY <2>1, <2>5 DEF invalidate_job, checkpoint_cancellations, SyncCall
    <3> QED
      BY <3>1 DEF Asked
  <2>6. CASE \/ PollSync \/ PollSyncEnds \/ RequestBegins \/ RequestSyncEnds
             \/ RequestRechecks \/ PollFails \/ RequestFails \/ Crash \/ RestartEmpty
    <3>1. NoSync.todo = {} /\ Page.todo = {}
      BY DEF NoSync, Page
    <3>2. \/ \E c : sync' = [sync EXCEPT ![c] = NoSync] \/ sync' = [sync EXCEPT ![c] = Page]
          \/ sync' = [c \in Callers |-> NoSync]
      BY <2>6 DEF PollSync, PollSyncEnds, RequestBegins, RequestSyncEnds, RequestRechecks,
                  PollFails, RequestFails, Crash, RestartEmpty, DaemonStops
    <3>3. \A c \in Callers : sync'[c] \in {sync[c], NoSync, Page}
      BY <2>1, <3>2
    <3> QED
      BY <3>1, <3>3 DEF Asked
  <2>7. \/ UNCHANGED sync
        \/ \E c : \/ SyncReadSources(c) \/ bind_cancelled_source(c)
                  \/ invalidate_job(c) \/ checkpoint_cancellations(c)
        \/ PollSync \/ PollSyncEnds \/ RequestBegins \/ RequestSyncEnds
        \/ RequestRechecks \/ PollFails \/ RequestFails \/ Crash \/ RestartEmpty
    BY DEF Next, User, RecordTurn, AttachTurn, CancelJob, UserWrites, PollStep, IntakeSource,
           ReplaySource, Ingest, AcknowledgeSource, checkpoint_replay, SyncStep, RequestStep,
           RequestMarks, RequestQueries, RequestReturns, WorkerStep, claim_work, claim_nothing,
           complete_extraction, complete_consolidation, fail_work, Abandon, OrphanExpires, Expire,
           Faults, SlowWorker, vars, memoryDb, daemon
  <2> QED
    BY <2>2, <2>3, <2>4, <2>5, <2>6, <2>7
<1>5. request' \in RequestRecord /\ \A E \in request'.answer : E \subseteq DOMAIN outbox
  <2>1. request \in RequestRecord /\ \A E \in request.answer : E \subseteq DOMAIN outbox
    BY DEF Asked
  <2>2. NoRequest \in RequestRecord /\ NoRequest.answer = {}
    BY DEF NoRequest, RequestRecord
  <2>3. Len(cancels) \in Nat /\ cancelCursor \in Nat
    BY DEF Revocable, Captured, Syncing
  <2>4. CASE UNCHANGED request \/ request' = NoRequest
    BY <2>1, <2>2, <2>4
  <2>5. CASE RequestBegins
    BY <2>3, <2>5 DEF RequestBegins, NoRequest, RequestRecord
  <2>6. CASE RequestSyncEnds
    BY <2>1, <2>2, <2>6 DEF RequestSyncEnds, RequestRecord
  <2>7. CASE RequestMarks
    BY <2>1, <2>3, <2>7 DEF RequestMarks, RequestRecord
  <2>8. CASE RequestQueries
    <3> DEFINE A == {memories[m].evidence :
                        m \in {n \in DOMAIN memories : memories[n].status \in Searchable}}
    <3>1. request' = [request EXCEPT !.step = "recheck", !.answer = A]
      BY <2>8 DEF RequestQueries
    <3>2. \A E \in A : E \subseteq DOMAIN outbox
      BY DEF Revocable, Stored
    <3>3. A \in SUBSET SUBSET Nat
      BY <3>2, Captures DEF Revocable
    <3> HIDE DEF A
    <3> QED
      BY <2>1, <3>1, <3>2, <3>3 DEF RequestRecord
  <2>9. CASE RequestRechecks
    BY <2>1, <2>3, <2>9 DEF RequestRechecks, RequestRecord
  <2>10. CASE RequestReturns
    BY <2>2, <2>10 DEF RequestReturns, NoRequest, RequestRecord
  <2>11. \/ UNCHANGED request \/ request' = NoRequest
         \/ RequestBegins \/ RequestSyncEnds \/ RequestMarks \/ RequestQueries
         \/ RequestRechecks \/ RequestReturns
    BY DEF Next, User, RecordTurn, AttachTurn, CancelJob, UserWrites, PollStep, IntakeSource,
           ReplaySource, Ingest, AcknowledgeSource, checkpoint_replay, PollSync, SyncStep,
           SyncReadSources, bind_cancelled_source, invalidate_job, checkpoint_cancellations,
           PollSyncEnds, RequestStep, WorkerStep, claim_work, claim_nothing,
           complete_extraction, complete_consolidation, fail_work, Abandon, OrphanExpires, Expire,
           Faults, SlowWorker, PollFails, RequestFails, Crash, RestartEmpty, DaemonStops, vars,
           memoryDb, daemon
  <2> QED
    BY <2>4, <2>5, <2>6, <2>7, <2>8, <2>9, <2>10, <2>11
<1> HIDE DEF Next
<1>6. poll'.receipt \in {0} \cup DOMAIN outbox' /\ replayCursor' \in {0} \cup DOMAIN outbox'
  BY <1>1, <1>3
<1> QED
  BY <1>1, <1>2, <1>4, <1>5, <1>6 DEF Asked

\* The queue begins sound.
LEMMA InitQueued == Init => Queued
<1> SUFFICES ASSUME Init PROVE Queued
  OBVIOUS
<1>1. Heads
  BY DEF Init, Heads
<1>2. Sound(work)
  BY DEF Init, Sound, Results
<1>3. Leased
  BY NoLeaseTyped DEF Init, Leased
<1>4. Asked
  BY DEF Init, Asked, NoRequest, NoSync, Idle, RequestRecord
<1> QED
  BY <1>1, <1>2, <1>3, <1>4 DEF Queued

\* Every step keeps the queue and what surrounds it.
LEMMA StepQueued == Revocable /\ Queued /\ [Next]_vars => Queued'
BY StepPipeline, StepAsked DEF Queued, Pipeline

\* The invariant of both modules.
LEMMA QueuedHolds == Spec => [](Revocable /\ Queued)
<1>1. Init => Revocable /\ Queued
  BY InitRevocable, InitQueued
<1>2. (Revocable /\ Queued) /\ [Next]_vars => (Revocable /\ Queued)'
  BY StepRevocable, StepQueued
<1> QED
  BY <1>1, <1>2, PTL DEF Spec

----------------------------------------------------------------------------
(* What the invariant says.                                                *)

\* The invariant implies the types,
LEMMA Typed == ASSUME Revocable, Queued PROVE TypeOK
<1> USE DEF Revocable, Queued
<1>1. sources \subseteq Receipts /\ Receipts \subseteq Nat /\ 0 \notin Receipts
  BY Captures DEF Stored, Receipts
<1>2. work \in Seq(WorkRecord)
  <2>1. ASSUME NEW i \in DOMAIN work PROVE work[i] \in WorkRecord
    <3>1. work[i] \in WorkItem /\ work[i].receipt \in sources /\ work[i].evidence \subseteq sources
      BY DEF Sound
    <3>2. work[i].receipt \in Receipts /\ work[i].evidence \in Evidence
      BY <1>1, <3>1 DEF Evidence
    <3> QED
      BY <3>1, <3>2 DEF WorkItem, WorkRecord, Kinds, States
  <2> QED
    BY <2>1 DEF Sound
<1> DEFINE MemoryRecord == [evidence : Evidence,
                            status : Searchable \cup {"superseded", "invalidated"}]
<1>3. memories \in Seq(MemoryRecord)
  <2>1. ASSUME NEW m \in DOMAIN memories PROVE memories[m] \in MemoryRecord
    <3>1. memories[m] \in Memory /\ memories[m].evidence \subseteq sources
      BY DEF Stored
    <3>2. memories[m].evidence \in Evidence
      BY <1>1, <3>1 DEF Evidence
    <3> QED
      BY <3>1, <3>2 DEF Memory, Statuses, Searchable
  <2> HIDE DEF MemoryRecord
  <2> QED
    BY <2>1 DEF Stored
<1>4. head \in [Turns -> {0} \cup Receipts]
  BY <1>1 DEF Heads
<1>5. sync \in [Callers -> [step : {"idle", "sources", "bind", "checkpoint"},
                            next : Nat, last : Nat, size : Nat, todo : Evidence]]
  <2>1. ASSUME NEW c \in Callers
        PROVE  sync[c] \in [step : {"idle", "sources", "bind", "checkpoint"},
                            next : Nat, last : Nat, size : Nat, todo : Evidence]
    <3>1. sync[c] \in SyncCall /\ sync[c].todo \in Evidence
      BY DEF Syncing, Asked, Evidence, Receipts
    <3> QED
      BY <3>1 DEF SyncCall
  <2> QED
    BY <2>1 DEF Syncing
<1>6. poll \in [step : {"idle", "acknowledge", "checkpoint"},
                receipt : {0} \cup Receipts, replay : BOOLEAN]
  BY DEF Polling, PollState, Asked, Receipts
<1>7. request \in [step : {"none", "sync", "mark", "query", "recheck", "check", "answered"},
                   began : Nat, before : Nat, answer : SUBSET Evidence]
  <2>1. request \in RequestRecord /\ request.answer \in SUBSET Evidence
    BY DEF Asked, Evidence, Receipts
  <2> QED
    BY <2>1 DEF RequestRecord
<1>8. lease \in [Workers -> [item : {0} \cup DOMAIN work, generation : Nat]]
  BY DEF Leased, LeaseRecord
<1>9. /\ outbox \in Seq([turn : Turns, job : Jobs \cup {None}, acknowledged : BOOLEAN])
      /\ cancels \in Seq([job : Jobs, at : Nat])
      /\ turnJob \in [Turns -> Jobs \cup {None}] /\ jobActive \subseteq Jobs
  BY DEF Captured, Receipt, Event
<1>10. /\ binds \subseteq Turns \X Jobs /\ tombstones \subseteq Jobs
       /\ replayCursor \in {0} \cup Receipts
       /\ cancelCursor \in 0..Len(cancels) /\ faults \in Nat
  BY DEF Heads, Stored, Syncing, Asked, Receipts
<1> QED
  BY <1>1, <1>2, <1>3, <1>4, <1>5, <1>6, <1>7, <1>8, <1>9, <1>10 DEF TypeOK

\* that work is current,
LEMMA WorkCurrent == ASSUME Revocable, Queued PROVE WorkIsCurrent
<1>1. ASSUME NEW i \in DOMAIN work, work[i].state \in {"pending", "running"}
      PROVE  LET r == work[i].receipt IN
             /\ r = head[TurnOf(r)]
             /\ \A s \in sources :
                 TurnOf(s) = TurnOf(r) => /\ Revision(s) <= Revision(r)
                                          /\ JobOf(s) \notin tombstones
  <2> DEFINE r == work[i].receipt
  <2>1. UpToDate(r) /\ r \in DOMAIN outbox /\ sources \subseteq DOMAIN outbox
    BY <1>1 DEF Queued, Sound, Unfinished, Revocable, Stored
  <2>2. \A s \in DOMAIN outbox : TurnOf(s) = TurnOf(r) => (Revision(s) <= Revision(r) <=> s <= r)
    BY <2>1, RevisionOrder DEF Revocable
  <2> HIDE DEF r
  <2>3. /\ r = head[TurnOf(r)]
        /\ \A s \in sources : TurnOf(s) = TurnOf(r) => s <= r /\ JobOf(s) \notin tombstones
    BY <2>1 DEF UpToDate
  <2>4. /\ r = head[TurnOf(r)]
        /\ \A s \in sources : TurnOf(s) = TurnOf(r) => /\ Revision(s) <= Revision(r)
                                                       /\ JobOf(s) \notin tombstones
    BY <2>1, <2>2, <2>3
  <2> QED
    BY <2>4 DEF r
<1> QED
  BY <1>1, Typed DEF WorkIsCurrent

\* and that an item has one result.
LEMMA OneResult == ASSUME Queued PROVE OneResultPerItem
<1> SUFFICES ASSUME NEW r \in sources
             PROVE  Cardinality({i \in DOMAIN work : work[i].receipt = r
                                        /\ work[i].kind = "consolidate"}) <= 1
  BY DEF OneResultPerItem
<1> DEFINE S == {i \in DOMAIN work : work[i].receipt = r /\ work[i].kind = "consolidate"}
<1>1. \A i, k \in S : i = k
  BY DEF Queued, Sound, Results
<1> HIDE DEF S
<1>2. CASE S = {}
  <2>1. Cardinality(S) = 0
    BY <1>2, FS_EmptySet
  <2> QED
    BY <2>1 DEF S
<1>3. CASE S # {}
  <2>1. PICK i : S = {i}
    BY <1>1, <1>3
  <2>2. Cardinality(S) = 1
    BY <2>1, FS_Singleton
  <2> QED
    BY <2>2 DEF S
<1> QED
  BY <1>2, <1>3

\* Unfinished work always belongs to the newest ingested revision of its
\* turn, and never to a turn known to be of a cancelled Job: for all sets of
\* turns, Jobs and workers, all limits and any number of faults.  The type
\* invariant is part of it.
THEOREM WorkIsCurrentHolds == Spec => []WorkIsCurrent
<1>1. Revocable /\ Queued => WorkIsCurrent
  BY WorkCurrent
<1> QED
  BY <1>1, QueuedHolds, PTL

\* No receipt is consolidated twice, whatever the leases, retries and
\* crashes its extraction went through.
THEOREM OneResultPerItemHolds == Spec => []OneResultPerItem
<1>1. Revocable /\ Queued => OneResultPerItem
  BY OneResult
<1> QED
  BY <1>1, QueuedHolds, PTL

----------------------------------------------------------------------------
(* Answers.  A cancellation is read together with the receipts of its Job; *)
(* the turns of those are all the turns the Job will ever have (History),  *)
(* so after the tombstone every one of them is bound (Withdrawn), and what *)
(* a query reads is clean of every event behind the cursor (Answering).    *)

\* The receipt that attached a turn to a Job came before the Job's
\* cancellation, and later receipts of the turn repeat the Job.
History ==
    /\ \A s \in DOMAIN outbox : JobOf(s) # None => turnJob[TurnOf(s)] = JobOf(s)
    /\ \A t \in Turns : turnJob[t] # None =>
        \E s \in DOMAIN outbox : TurnOf(s) = t /\ JobOf(s) = turnJob[t]
    /\ \A k \in 1..Len(cancels) :
        /\ cancels[k].job \notin jobActive
        /\ cancels[k].at \in 0..Len(outbox)
        /\ \A t \in Turns : turnJob[t] = cancels[k].job =>
            \E s \in 1..cancels[k].at : TurnOf(s) = t /\ JobOf(s) = cancels[k].job

\* What is searchable passed the evidence check and still would.
StillValid == \A m \in DOMAIN memories : memories[m].status \in Searchable =>
                  \A r \in memories[m].evidence : source_valid(r, binds)

Withdrawn ==
    /\ tombstones \cap jobActive = {}
    /\ \A t \in Turns : turnJob[t] \in tombstones => <<t, turnJob[t]>> \in binds
    /\ \A c \in Callers : sync[c].step = "bind" =>
        LET e == cancels[sync[c].next] IN
        \A s \in 1..e.at : JobOf(s) = e.job =>
            s \in sync[c].todo \/ <<TurnOf(s), JobOf(s)>> \in binds
    /\ StillValid

\* No piece of evidence in the answer is of a turn that event k cancelled.
CleanOf(k) ==
    \A E \in request.answer : \A r \in E, s \in 1..cancels[k].at :
        TurnOf(r) = TurnOf(s) => JobOf(s) # cancels[k].job

Answering ==
    /\ "request" \in Callers /\ request.step \notin {"sync", "recheck"} =>
        sync["request"].step = "idle"
    /\ request.step \notin {"none", "answered"} => "request" \in Callers
    /\ request.step \in {"query", "recheck", "check"} => request.before <= cancelCursor
    /\ request.step \in {"recheck", "check"} => \A k \in 1..request.before : CleanOf(k)
    /\ request.step = "recheck" /\ sync["request"].step # "idle"
          /\ sync["request"].size < EventPage =>
        request.began <= sync["request"].last
    /\ request.step = "check" => request.began <= cancelCursor

\* What answers rest on, at the beginning,
LEMMA InitAnswers == Init => History /\ Withdrawn /\ Answering
<1> SUFFICES ASSUME Init PROVE History /\ Withdrawn /\ Answering
  OBVIOUS
<1>1. History
  BY DEF Init, History
<1>2. Withdrawn
  BY DEF Init, Withdrawn, StillValid, NoSync
<1>3. Answering
  BY DEF Init, Answering, NoRequest, NoSync
<1> QED
  BY <1>1, <1>2, <1>3

\* The actions that change the task database.
LEMMA TaskDbActions ==
    ASSUME [Next]_vars
    PROVE  \/ \E t \in Turns : RecordTurn(t)
           \/ \E t \in Turns, j \in Jobs : AttachTurn(t, j)
           \/ \E j \in Jobs : CancelJob(j)
           \/ AcknowledgeSource
           \/ UNCHANGED taskDb
BY DEF Next, User, UserWrites, PollStep, IntakeSource, ReplaySource, Ingest, checkpoint_replay,
       PollSync, SyncStep, SyncReadSources, bind_cancelled_source, invalidate_job,
       checkpoint_cancellations, PollSyncEnds, RequestBegins, RequestStep, RequestSyncEnds,
       RequestMarks, RequestQueries, RequestRechecks, RequestReturns, WorkerStep, claim_work,
       claim_nothing, complete_extraction, complete_consolidation, fail_work, Abandon,
       OrphanExpires, Expire, Faults, SlowWorker, PollFails, RequestFails, Crash, RestartEmpty,
       vars, taskDb

\* The task database only grows, and what it recorded stays.
LEMMA TaskDbGrows ==
    ASSUME Revocable, [Next]_vars
    PROVE  /\ outbox' \in Seq(Receipt) /\ Len(outbox) <= Len(outbox')
           /\ \A r \in DOMAIN outbox : TurnOf(r)' = TurnOf(r) /\ JobOf(r)' = JobOf(r)
           /\ Len(cancels) <= Len(cancels')
           /\ \A k \in 1..Len(cancels) : cancels'[k] = cancels[k]
<1>1. outbox \in Seq(Receipt) /\ cancels \in Seq(Event) /\ Len(outbox) \in Nat /\ Len(cancels) \in Nat
  BY DEF Revocable, Captured
<1>2. outbox' \in Seq(Receipt)
  BY StepRevocable DEF Revocable, Captured
<1>3. CASE \E t \in Turns : RecordTurn(t) \/ \E j \in Jobs : AttachTurn(t, j)
  <2>1. PICK t \in Turns, j \in Jobs \cup {None} : capture(t, j)
    BY <1>3 DEF RecordTurn, AttachTurn, Revocable, Captured
  <2>2. UNCHANGED cancels
    BY <1>3 DEF RecordTurn, AttachTurn
  <2>3. Len(outbox') = Len(outbox) + 1
    BY <1>1, <2>1 DEF capture
  <2> QED
    BY <1>1, <1>2, <2>1, <2>2, <2>3, CaptureKeeps DEF Revocable
<1>4. CASE \E j \in Jobs : CancelJob(j)
  <2>1. PICK j \in Jobs : CancelJob(j)
    BY <1>4
  <2>2. UNCHANGED outbox /\ cancels' = Append(cancels, [job |-> j, at |-> Len(outbox)])
    BY <2>1 DEF CancelJob
  <2>3. Len(cancels') = Len(cancels) + 1 /\ \A k \in 1..Len(cancels) : cancels'[k] = cancels[k]
    BY <1>1, <2>2
  <2> QED
    BY <1>1, <1>2, <2>2, <2>3 DEF TurnOf, JobOf
<1>5. CASE AcknowledgeSource
  <2>1. outbox' = [outbox EXCEPT ![poll.receipt].acknowledged = TRUE] /\ UNCHANGED cancels
    BY <1>5 DEF AcknowledgeSource
  <2>2. \A r \in DOMAIN outbox : outbox[r] \in Receipt
    BY <1>1
  <2>3. Len(outbox') = Len(outbox)
    BY <1>1, <1>2, <2>1
  <2>4. \A r \in DOMAIN outbox : TurnOf(r)' = TurnOf(r) /\ JobOf(r)' = JobOf(r)
    BY <2>1, <2>2 DEF TurnOf, JobOf, Receipt
  <2> QED
    BY <1>1, <1>2, <2>1, <2>3, <2>4
<1>6. CASE UNCHANGED taskDb
  BY <1>1, <1>2, <1>6 DEF taskDb, TurnOf, JobOf
<1> QED
  BY <1>3, <1>4, <1>5, <1>6, TaskDbActions

\* after every step: the history,
LEMMA StepHistory == ASSUME Revocable, History, [Next]_vars PROVE History'
<1>1. /\ DOMAIN outbox = 1..Len(outbox) /\ DOMAIN outbox' = 1..Len(outbox')
      /\ Len(outbox) \in Nat /\ Len(outbox') \in Nat /\ Len(cancels) \in Nat
      /\ Len(outbox) <= Len(outbox')
      /\ \A r \in DOMAIN outbox : TurnOf(r)' = TurnOf(r) /\ JobOf(r)' = JobOf(r)
  BY TaskDbGrows DEF Revocable, Captured
<1>2. turnJob \in [Turns -> Jobs \cup {None}] /\ None \notin Jobs
  BY NoneIsNothing DEF Revocable, Captured
<1>3. \A r \in DOMAIN outbox : TurnOf(r) \in Turns /\ JobOf(r) \in Jobs \cup {None}
  BY Captures DEF Revocable
<1>4. ASSUME NEW t \in Turns, NEW j \in Jobs \cup {None}, capture(t, j)
      PROVE  /\ \A s \in DOMAIN outbox' \ DOMAIN outbox : TurnOf(s)' = t /\ JobOf(s)' = j
             /\ Len(outbox') \in DOMAIN outbox' \ DOMAIN outbox
  BY <1>1, <1>4 DEF capture, TurnOf, JobOf, Revocable, Captured
<1>5. ASSUME NEW t \in Turns, RecordTurn(t) PROVE History'
  <2>1. capture(t, turnJob[t]) /\ UNCHANGED <<turnJob, jobActive, cancels>> /\ turnJob[t] \in Jobs \cup {None}
    BY <1>2, <1>5 DEF RecordTurn
  <2>2. \A s \in DOMAIN outbox' : JobOf(s)' # None => turnJob'[TurnOf(s)'] = JobOf(s)'
    BY <1>1, <1>4, <2>1 DEF History
  <2>3. \A u \in Turns : turnJob'[u] # None =>
            \E s \in DOMAIN outbox' : TurnOf(s)' = u /\ JobOf(s)' = turnJob'[u]
    <3> SUFFICES ASSUME NEW u \in Turns, turnJob[u] # None
                 PROVE  \E s \in DOMAIN outbox' : TurnOf(s)' = u /\ JobOf(s)' = turnJob[u]
      BY <2>1
    <3>1. PICK s \in DOMAIN outbox : TurnOf(s) = u /\ JobOf(s) = turnJob[u]
      BY DEF History
    <3>2. s \in DOMAIN outbox'
      BY <1>1
    <3> QED
      BY <1>1, <3>1, <3>2
  <2>4. \A k \in 1..Len(cancels) :
            /\ cancels[k].job \notin jobActive
            /\ cancels[k].at \in 0..Len(outbox')
            /\ \A u \in Turns : turnJob[u] = cancels[k].job =>
                \E s \in 1..cancels[k].at : TurnOf(s)' = u /\ JobOf(s)' = cancels[k].job
    BY <1>1 DEF History
  <2> QED
    BY <2>1, <2>2, <2>3, <2>4 DEF History
<1>6. ASSUME NEW t \in Turns, NEW j \in Jobs, AttachTurn(t, j) PROVE History'
  <2>1. /\ capture(t, j) /\ turnJob' = [turnJob EXCEPT ![t] = j] /\ UNCHANGED <<jobActive, cancels>>
        /\ j \in jobActive /\ turnJob[t] = None
    BY <1>6 DEF AttachTurn
  <2>2. turnJob'[t] = j /\ \A u \in Turns : u # t => turnJob'[u] = turnJob[u]
    BY <1>2, <2>1
  <2>3. \A s \in DOMAIN outbox' : JobOf(s)' # None => turnJob'[TurnOf(s)'] = JobOf(s)'
    BY <1>1, <1>3, <1>4, <2>1, <2>2 DEF History
  <2>4. \A u \in Turns : turnJob'[u] # None =>
            \E s \in DOMAIN outbox' : TurnOf(s)' = u /\ JobOf(s)' = turnJob'[u]
    <3> SUFFICES ASSUME NEW u \in Turns, turnJob'[u] # None
                 PROVE  \E s \in DOMAIN outbox' : TurnOf(s)' = u /\ JobOf(s)' = turnJob'[u]
      OBVIOUS
    <3>1. CASE u = t
      BY <1>4, <2>1, <2>2, <3>1
    <3>2. CASE u # t
      <4>1. PICK s \in DOMAIN outbox : TurnOf(s) = u /\ JobOf(s) = turnJob[u]
        BY <2>2, <3>2 DEF History
      <4>2. s \in DOMAIN outbox'
        BY <1>1
      <4> QED
        BY <1>1, <2>2, <3>2, <4>1, <4>2
    <3> QED
      BY <3>1, <3>2
  <2>5. \A k \in 1..Len(cancels) :
            /\ cancels[k].job \notin jobActive
            /\ cancels[k].at \in 0..Len(outbox')
            /\ \A u \in Turns : turnJob'[u] = cancels[k].job =>
                \E s \in 1..cancels[k].at : TurnOf(s)' = u /\ JobOf(s)' = cancels[k].job
    <3> SUFFICES ASSUME NEW k \in 1..Len(cancels)
                 PROVE  /\ cancels[k].job \notin jobActive
                        /\ cancels[k].at \in 0..Len(outbox')
                        /\ \A u \in Turns : turnJob'[u] = cancels[k].job =>
                            \E s \in 1..cancels[k].at :
                                TurnOf(s)' = u /\ JobOf(s)' = cancels[k].job
      OBVIOUS
    <3>1. cancels[k].job \notin jobActive /\ cancels[k].at \in 0..Len(outbox)
      BY DEF History
    <3>2. ASSUME NEW u \in Turns, turnJob'[u] = cancels[k].job
          PROVE  \E s \in 1..cancels[k].at : TurnOf(s)' = u /\ JobOf(s)' = cancels[k].job
      <4>1. u # t /\ turnJob[u] = cancels[k].job
        BY <2>1, <2>2, <3>1, <3>2
      <4>2. PICK s \in 1..cancels[k].at : TurnOf(s) = u /\ JobOf(s) = cancels[k].job
        BY <4>1 DEF History
      <4>3. s \in DOMAIN outbox
        BY <1>1, <3>1
      <4> QED
        BY <1>1, <4>2, <4>3
    <3> QED
      BY <1>1, <3>1, <3>2
  <2> QED
    BY <2>1, <2>3, <2>4, <2>5 DEF History
<1>7. ASSUME NEW j \in Jobs, CancelJob(j) PROVE History'
  <2> DEFINE e == [job |-> j, at |-> Len(outbox)]
  <2>1. /\ jobActive' = jobActive \ {j} /\ cancels' = Append(cancels, e)
        /\ UNCHANGED <<outbox, turnJob>>
    BY <1>7 DEF CancelJob
  <2>2. Len(cancels') = Len(cancels) + 1
        /\ \A k \in 1..Len(cancels') : (k \in 1..Len(cancels) /\ cancels'[k] = cancels[k]) \/ cancels'[k] = e
    BY <2>1 DEF Revocable, Captured
  <2>3. ASSUME NEW k \in 1..Len(cancels'), cancels'[k] = e
        PROVE  /\ cancels'[k].job \notin jobActive'
               /\ cancels'[k].at \in 0..Len(outbox)
               /\ \A t \in Turns : turnJob[t] = cancels'[k].job =>
                   \E s \in 1..cancels'[k].at : TurnOf(s) = t /\ JobOf(s) = cancels'[k].job
    BY <1>1, <1>2, <2>1, <2>3 DEF History
  <2>4. ASSUME NEW k \in 1..Len(cancels), cancels'[k] = cancels[k]
        PROVE  /\ cancels'[k].job \notin jobActive'
               /\ cancels'[k].at \in 0..Len(outbox)
               /\ \A t \in Turns : turnJob[t] = cancels'[k].job =>
                   \E s \in 1..cancels'[k].at : TurnOf(s) = t /\ JobOf(s) = cancels'[k].job
    BY <2>1, <2>4 DEF History
  <2>5. \A s : TurnOf(s)' = TurnOf(s) /\ JobOf(s)' = JobOf(s)
    BY <2>1 DEF TurnOf, JobOf
  <2> QED
    BY <2>1, <2>2, <2>3, <2>4, <2>5 DEF History
<1>8. CASE AcknowledgeSource
  <2>1. /\ UNCHANGED <<turnJob, jobActive, cancels>>
        /\ outbox' = [outbox EXCEPT ![poll.receipt].acknowledged = TRUE]
    BY <1>8 DEF AcknowledgeSource
  <2>2. DOMAIN outbox' = DOMAIN outbox /\ Len(outbox') = Len(outbox)
    BY <1>1, <2>1, TaskDbGrows DEF Revocable, Captured
  <2> QED
    BY <1>1, <2>1, <2>2 DEF History
<1>9. CASE UNCHANGED taskDb
  BY <1>9 DEF taskDb, History, TurnOf, JobOf
<1> QED
  BY <1>5, <1>6, <1>7, <1>8, <1>9, TaskDbActions

\* The binding a receipt adds is there already when its Job is revoked.
LEMMA BindsKnown ==
    ASSUME Revocable, History, Withdrawn, NEW r \in DOMAIN outbox, NEW s
    PROVE  source_valid(s, BindTurn(r)) <=> source_valid(s, binds)
<1>1. TurnOf(r) \in Turns /\ None \notin tombstones
  BY Captures, NoneIsNothing DEF Revocable, Stored
<1>2. JobOf(r) \in tombstones => <<TurnOf(r), JobOf(r)>> \in binds
  BY <1>1 DEF History, Withdrawn
<1> QED
  BY <1>1, <1>2 DEF BindTurn, source_valid

\* Memories that change by a checked write or a revocation stay valid.
LEMMA WritesValid ==
    ASSUME Revocable, StillValid, NEW F, EvidenceValid(F),
           \/ memories' = Append(memories, NewMemory(F, "active"))
           \/ \E m \in DOMAIN memories :
                \/ memories' = [memories EXCEPT ![m].evidence = @ \cup F]
                   /\ EvidenceValid(memories[m].evidence)
                \/ memories' = Append([memories EXCEPT ![m].status = "superseded"],
                                      NewMemory(F, "active"))
                \/ memories' = Append([memories EXCEPT ![m].status = "conflicted"],
                                      NewMemory(F, "conflicted"))
                   /\ EvidenceValid(memories[m].evidence)
    PROVE  \A n \in DOMAIN memories' : memories'[n].status \in Searchable =>
               \A r \in memories'[n].evidence : source_valid(r, binds)
<1> DEFINE Fit(e) == e.status \in Searchable => \A r \in e.evidence : source_valid(r, binds)
<1>1. memories \in Seq(Memory) /\ \A n \in DOMAIN memories : memories[n] \in Memory /\ Fit(memories[n])
  BY DEF Revocable, Stored, StillValid
<1>2. \A E : EvidenceValid(E) => \A r \in E : source_valid(r, binds)
  BY DEF EvidenceValid
<1>3. \A status : Fit(NewMemory(F, status))
  BY <1>2 DEF NewMemory
<1>4. \A status \in Statuses : NewMemory(F, status) \in Memory
  <2>1. F \subseteq Nat
    BY Captures DEF EvidenceValid, Revocable, Stored
  <2> QED
    BY <2>1 DEF NewMemory, Memory
<1>5. ASSUME NEW ms \in Seq(Memory), NEW e \in Memory, Fit(e), \A n \in DOMAIN ms : Fit(ms[n]),
             memories' = Append(ms, e)
      PROVE  \A n \in DOMAIN memories' : Fit(memories'[n])
  <2>1. \A n \in DOMAIN memories' : (n \in DOMAIN ms /\ memories'[n] = ms[n]) \/ memories'[n] = e
    BY <1>5
  <2> HIDE DEF Fit
  <2> QED
    BY <1>5, <2>1
<1>6. ASSUME NEW m \in DOMAIN memories, NEW status \in Statuses,
             Fit([memories[m] EXCEPT !.status = status])
      PROVE  LET ms == [memories EXCEPT ![m].status = status] IN
             ms \in Seq(Memory) /\ \A n \in DOMAIN ms : Fit(ms[n])
  <2> DEFINE f == [memories[m] EXCEPT !.status = status]
             ms == [memories EXCEPT ![m] = f]
  <2>1. f \in Memory
    BY <1>1 DEF Memory
  <2> HIDE DEF f, Fit
  <2>2. ms \in Seq(Memory) /\ \A n \in DOMAIN ms : Fit(ms[n])
    BY <1>1, <1>6, <2>1 DEF f
  <2> QED
    BY <2>2 DEF f
<1>7. CASE memories' = Append(memories, NewMemory(F, "active"))
  BY <1>1, <1>3, <1>4, <1>5, <1>7 DEF Statuses
<1>8. ASSUME NEW m \in DOMAIN memories, memories' = [memories EXCEPT ![m].evidence = @ \cup F],
             EvidenceValid(memories[m].evidence)
      PROVE  \A n \in DOMAIN memories' : Fit(memories'[n])
  BY <1>1, <1>2, <1>8
<1>9. ASSUME NEW m \in DOMAIN memories,
             memories' = Append([memories EXCEPT ![m].status = "superseded"], NewMemory(F, "active"))
      PROVE  \A n \in DOMAIN memories' : Fit(memories'[n])
  <2>1. Fit([memories[m] EXCEPT !.status = "superseded"])
    BY <1>1 DEF Searchable, Memory
  <2> HIDE DEF Fit
  <2> QED
    BY <1>3, <1>4, <1>5, <1>6, <1>9, <2>1 DEF Statuses
<1>10. ASSUME NEW m \in DOMAIN memories, EvidenceValid(memories[m].evidence),
              memories' = Append([memories EXCEPT ![m].status = "conflicted"], NewMemory(F, "conflicted"))
       PROVE  \A n \in DOMAIN memories' : Fit(memories'[n])
  <2>1. Fit([memories[m] EXCEPT !.status = "conflicted"])
    BY <1>1, <1>2, <1>10 DEF Memory
  <2> HIDE DEF Fit
  <2> QED
    BY <1>3, <1>4, <1>5, <1>6, <1>10, <2>1 DEF Statuses
<1> QED
  BY <1>7, <1>8, <1>9, <1>10

\* what was withdrawn,
LEMMA StepWithdrawn ==
    ASSUME Revocable, Queued, History, Withdrawn, [Next]_vars
    PROVE  Withdrawn'
<1>1. /\ Len(outbox) \in Nat /\ Len(cancels) \in Nat /\ DOMAIN outbox = 1..Len(outbox)
      /\ \A r \in DOMAIN outbox : TurnOf(r)' = TurnOf(r) /\ JobOf(r)' = JobOf(r)
      /\ \A k \in 1..Len(cancels) : cancels'[k] = cancels[k]
      /\ \A k \in 1..Len(cancels) : cancels[k].at \in 0..Len(outbox)
  BY TaskDbGrows DEF Revocable, Captured, History
<1>2. /\ sync \in [Callers -> SyncCall] /\ memories \in Seq(Memory)
      /\ sources \subseteq DOMAIN outbox
      /\ \A c \in Callers : sync[c].step = "bind" => sync[c].next \in 1..Len(cancels)
  BY <1>1 DEF Revocable, Syncing, Stored, SyncCall
<1>3. \A m \in DOMAIN memories : memories[m].evidence \subseteq DOMAIN outbox
  BY <1>2 DEF Revocable, Stored
<1> DEFINE Bindings(c) ==
             sync'[c].step = "bind" =>
                \A s \in 1..cancels'[sync'[c].next].at : JobOf(s)' = cancels'[sync'[c].next].job =>
                    s \in sync'[c].todo \/ <<TurnOf(s)', JobOf(s)'>> \in binds'
\* A call that is not moved by the step keeps what it still has to bind.
<1>4. ASSUME NEW c \in Callers, sync'[c] = sync[c], binds \subseteq binds'
      PROVE  Bindings(c)
  BY SMTT(30), <1>1, <1>2, <1>4 DEF Withdrawn
<1>5. ASSUME binds' = binds, tombstones' = tombstones
      PROVE  \A r \in DOMAIN outbox : source_valid(r, binds)' <=> source_valid(r, binds)
  BY <1>1, <1>5 DEF source_valid
<1>6. CASE \E t \in Turns : RecordTurn(t) \/ \E j \in Jobs : AttachTurn(t, j)
  <2>1. UNCHANGED <<jobActive, sync, binds, tombstones, memories>>
    BY <1>6 DEF RecordTurn, AttachTurn, memoryDb, daemon
  <2>2. \A t \in Turns : turnJob'[t] \in tombstones => turnJob'[t] = turnJob[t]
    BY <1>6 DEF RecordTurn, AttachTurn, Withdrawn, Revocable, Captured
  <2>3. StillValid'
    BY <1>3, <1>5, <2>1 DEF Withdrawn, StillValid, Searchable
  <2> QED
    BY <1>4, <2>1, <2>2, <2>3 DEF Withdrawn
<1>7. CASE (\E j \in Jobs : CancelJob(j)) \/ AcknowledgeSource
  <2>1. UNCHANGED <<turnJob, sync, binds, tombstones, memories>> /\ jobActive' \subseteq jobActive
    BY <1>7 DEF CancelJob, AcknowledgeSource, memoryDb, daemon
  <2>2. StillValid'
    BY <1>3, <1>5, <2>1 DEF Withdrawn, StillValid, Searchable
  <2> QED
    BY <1>4, <2>1, <2>2 DEF Withdrawn
<1>8. CASE UserWrites \/ \E w \in Workers : complete_consolidation(w)
  <2>1. UNCHANGED <<outbox, turnJob, jobActive, sync, binds, tombstones>>
    BY <1>8 DEF UserWrites, complete_consolidation, taskDb, daemon
  <2>2. \A n \in DOMAIN memories' : memories'[n].status \in Searchable =>
            \A r \in memories'[n].evidence : source_valid(r, binds)
    <3>1. CASE UserWrites
      BY <3>1, WritesValid DEF UserWrites, Withdrawn
    <3>2. CASE UNCHANGED memories
      BY <3>2 DEF Withdrawn, StillValid
    <3>3. ASSUME NEW E, Consolidated(E) PROVE UNCHANGED memories \/ \E F \in SUBSET sources :
             /\ EvidenceValid(F)
             /\ \/ memories' = Append(memories, NewMemory(F, "active"))
                \/ \E m \in DOMAIN memories :
                    \/ memories' = [memories EXCEPT ![m].evidence = @ \cup F]
                       /\ EvidenceValid(memories[m].evidence)
                    \/ memories' = Append([memories EXCEPT ![m].status = "superseded"],
                                          NewMemory(F, "active"))
                    \/ memories' = Append([memories EXCEPT ![m].status = "conflicted"],
                                          NewMemory(F, "conflicted"))
                       /\ EvidenceValid(memories[m].evidence)
      BY <3>3 DEF Consolidated
    <3> QED
      BY <1>8, <3>1, <3>2, <3>3, WritesValid DEF complete_consolidation, Withdrawn
  <2>3. \A r : source_valid(r, binds)' <=> source_valid(r, binds)
    BY <2>1 DEF source_valid, TurnOf
  <2>4. StillValid'
    BY <2>1, <2>2, <2>3 DEF StillValid, Searchable
  <2> QED
    BY <1>4, <2>1, <2>4 DEF Withdrawn
<1>9. CASE IntakeSource \/ ReplaySource
  <2>1. PICK r \in DOMAIN outbox, replay \in BOOLEAN : Ingest(r, replay)
    <3>1. replayCursor < Len(outbox) => replayCursor + 1 \in DOMAIN outbox
      BY DEF Revocable, Captured, Polling
    <3> QED
      BY <1>9, <3>1 DEF IntakeSource, ReplaySource, Receipts
  <2>2. ingest(r) /\ UNCHANGED <<outbox, turnJob, jobActive, cancels, tombstones, sync>>
    BY <2>1 DEF Ingest, taskDb
  <2>3. binds' \in {binds, BindTurn(r)} /\ binds \subseteq binds'
    BY <2>2 DEF ingest, BindTurn
  <2>4. \A s : source_valid(s, binds)' <=> source_valid(s, binds)
    <3>1. \A s, b : source_valid(s, b)' <=> source_valid(s, b)
      BY <2>2 DEF source_valid, TurnOf
    <3> QED
      BY <2>2, <2>3, <3>1, BindsKnown DEF source_valid, TurnOf
  <2>5. /\ DOMAIN memories' = DOMAIN memories
        /\ \A m \in DOMAIN memories : memories'[m].status \in Searchable =>
               memories[m].status \in Searchable /\ memories'[m].evidence = memories[m].evidence
    <3>1. UNCHANGED memories \/ \E rs : memories' = RevokeMemories(rs)
      BY <2>2 DEF ingest
    <3> QED
      BY <3>1, RevokeFacts DEF Revocable
  <2>6. StillValid'
    BY <2>4, <2>5 DEF StillValid, Withdrawn, Searchable
  <2> QED
    BY <1>4, <2>2, <2>3, <2>6 DEF Withdrawn
<1>10. CASE \E c : SyncReadSources(c)
  <2>1. PICK c \in Callers : SyncReadSources(c)
    BY <1>10 DEF SyncReadSources
  <2>2. /\ UNCHANGED <<outbox, turnJob, jobActive, cancels, binds, tombstones, memories>>
        /\ sync' = [sync EXCEPT ![c].step = "bind",
                                ![c].todo = {r \in Receipts : JobOf(r) = cancels[sync[c].next].job}]
    BY <2>1 DEF SyncReadSources, taskDb, memoryDb
  <2>3. sync[c].step = "sources" /\ sync[c].next <= sync[c].last /\ sync[c].next \in 1..Len(cancels)
    BY <1>1, <1>2, <2>1 DEF SyncReadSources, Revocable, Syncing, SyncCall
  <2>4. /\ \A d \in Callers \ {c} : sync'[d] = sync[d]
        /\ sync'[c].next = sync[c].next
        /\ sync'[c].todo = {r \in Receipts : JobOf(r) = cancels[sync[c].next].job}
    BY <1>2, <2>2 DEF SyncCall
  <2>5. Bindings(c)
    <3> SUFFICES ASSUME NEW s \in 1..cancels[sync[c].next].at, JobOf(s) = cancels[sync[c].next].job
                 PROVE  s \in sync'[c].todo
      BY <2>2, <2>4 DEF TurnOf, JobOf
    <3>1. s \in Receipts
      BY <1>1, <2>3 DEF Receipts
    <3> QED
      BY <2>4, <3>1
  <2>6. \A d \in Callers : Bindings(d)
    <3>1. binds \subseteq binds'
      BY <2>2
    <3> HIDE DEF Bindings
    <3> QED
      BY <1>4, <2>4, <2>5, <3>1
  <2>7. StillValid'
    BY <1>3, <1>5, <2>2 DEF Withdrawn, StillValid, Searchable
  <2> QED
    BY <2>2, <2>6, <2>7 DEF Withdrawn
<1>11. CASE \E c : bind_cancelled_source(c)
  <2>1. PICK c \in Callers : bind_cancelled_source(c)
    BY <1>11 DEF bind_cancelled_source
  <2>2. PICK r \in sync[c].todo : binds' = BindTurn(r) /\ sync' = [sync EXCEPT ![c].todo = @ \ {r}]
    BY <2>1 DEF bind_cancelled_source
  <2>3. UNCHANGED <<outbox, turnJob, jobActive, cancels, tombstones, memories>>
        /\ r \in DOMAIN outbox /\ sync[c].step = "bind"
    BY <2>1, <2>2 DEF bind_cancelled_source, taskDb, Queued, Asked
  <2>4. binds \subseteq binds' /\ (JobOf(r) # None => <<TurnOf(r), JobOf(r)>> \in binds')
    BY <2>2 DEF BindTurn
  <2>5. /\ \A d \in Callers \ {c} : sync'[d] = sync[d]
        /\ sync'[c].next = sync[c].next /\ sync'[c].step = "bind"
        /\ sync'[c].todo = sync[c].todo \ {r}
    BY <1>2, <2>2, <2>3 DEF SyncCall
  <2>6. cancels[sync[c].next].job # None /\ sync[c].next \in 1..Len(cancels)
    BY <1>2, <2>3, CancelledJobs, NoneIsNothing DEF Revocable
  <2>7. Bindings(c)
    <3> SUFFICES ASSUME NEW s \in 1..cancels[sync[c].next].at, JobOf(s) = cancels[sync[c].next].job
                 PROVE  s \in sync[c].todo \ {r} \/ <<TurnOf(s), JobOf(s)>> \in binds'
      BY <2>3, <2>5, <2>6 DEF TurnOf, JobOf
    <3>1. s \in sync[c].todo \/ <<TurnOf(s), JobOf(s)>> \in binds
      BY <2>3 DEF Withdrawn
    <3> QED
      BY <2>4, <2>6, <3>1
  <2>8. \A d \in Callers : Bindings(d)
    <3> HIDE DEF Bindings
    <3> QED
      BY <1>4, <2>4, <2>5, <2>7
  <2>9. \A s : source_valid(s, binds)' <=> source_valid(s, binds)
    <3>1. \A s, b : source_valid(s, b)' <=> source_valid(s, b)
      BY <2>3 DEF source_valid, TurnOf
    <3> QED
      BY <2>2, <2>3, BindsKnown DEF source_valid, TurnOf
  <2>10. StillValid'
    BY <2>3, <2>9 DEF StillValid, Withdrawn, Searchable
  <2> QED
    BY <2>3, <2>4, <2>8, <2>10 DEF Withdrawn
<1>12. CASE \E c : invalidate_job(c)
  <2>1. PICK c \in Callers : invalidate_job(c)
    BY <1>12 DEF invalidate_job
  <2> DEFINE j == cancels[sync[c].next].job
             rs == SourcesOf(j, binds, sources)
  <2>2. /\ sync[c].step = "bind" /\ sync[c].todo = {}
        /\ tombstones' = tombstones \cup {j}
        /\ memories' = RevokeMemories(rs)
        /\ sync' = [sync EXCEPT ![c].step = "checkpoint"]
        /\ UNCHANGED <<outbox, turnJob, jobActive, cancels, sources, binds>>
    BY <2>1 DEF invalidate_job, taskDb
  <2>3. sync[c].next \in 1..Len(cancels) /\ j \notin jobActive
    BY <1>2, <2>2 DEF History
  <2>4. ASSUME NEW t \in Turns, turnJob[t] = j PROVE <<t, j>> \in binds
    <3>1. PICK s \in 1..cancels[sync[c].next].at : TurnOf(s) = t /\ JobOf(s) = j
      BY <2>3, <2>4 DEF History
    <3> QED
      BY <2>2, <3>1 DEF Withdrawn
  <2>5. \A d \in Callers : Bindings(d)
    <3>1. /\ \A d \in Callers \ {c} : sync'[d] = sync[d]
          /\ sync'[c].step = "checkpoint"
      BY <1>2, <2>2 DEF SyncCall
    <3>2. Bindings(c) /\ binds \subseteq binds'
      BY <2>2, <3>1
    <3> HIDE DEF Bindings
    <3> QED
      BY <1>4, <3>1, <3>2
  <2> HIDE DEF rs
  <2>6. ASSUME NEW m \in DOMAIN memories', memories'[m].status \in Searchable,
               NEW r \in memories'[m].evidence
        PROVE  source_valid(r, binds)'
    <3>1. /\ m \in DOMAIN memories /\ memories[m].status \in Searchable
          /\ r \in memories[m].evidence /\ r \notin rs
      BY <2>2, <2>6, RevokeFacts DEF Revocable
    <3>2. source_valid(r, binds) /\ r \in sources
      BY <3>1 DEF Withdrawn, StillValid, Revocable, Stored
    <3>3. <<TurnOf(r), j>> \notin binds
      BY <3>1, <3>2 DEF rs, SourcesOf
    <3> QED
      BY <2>2, <3>2, <3>3 DEF source_valid, TurnOf
  <2>7. StillValid'
    BY <2>6 DEF StillValid, Searchable
  <2>8. tombstones' \cap jobActive' = {}
    BY <2>2, <2>3 DEF Withdrawn
  <2>9. \A t \in Turns : turnJob'[t] \in tombstones' => <<t, turnJob'[t]>> \in binds'
    BY <2>2, <2>4 DEF Withdrawn
  <2> QED
    BY <2>5, <2>7, <2>8, <2>9 DEF Withdrawn
<1>13. CASE \/ \E c : checkpoint_cancellations(c)
            \/ PollSync \/ PollSyncEnds \/ RequestBegins \/ RequestSyncEnds
            \/ RequestRechecks \/ PollFails \/ RequestFails \/ Crash
  <2>1. UNCHANGED <<outbox, turnJob, jobActive, cancels, binds, tombstones, memories>>
    BY <1>13 DEF checkpoint_cancellations, PollSync, PollSyncEnds, RequestBegins, RequestSyncEnds,
                 RequestRechecks, PollFails, RequestFails, Crash, taskDb, memoryDb
  <2>2. NoSync.step # "bind" /\ Page.step # "bind"
    BY DEF NoSync, Page
  <2>3. \A c \in Callers : sync'[c] = sync[c] \/ sync'[c].step # "bind"
    <3>1. CASE \E c : checkpoint_cancellations(c)
      BY <1>2, <3>1 DEF checkpoint_cancellations, SyncCall
    <3>2. CASE \/ \E c : sync' = [sync EXCEPT ![c] = NoSync] \/ sync' = [sync EXCEPT ![c] = Page]
               \/ sync' = [c \in Callers |-> NoSync]
      <4>1. \A c \in Callers : sync'[c] \in {sync[c], NoSync, Page}
        BY <1>2, <3>2
      <4> QED
        BY <2>2, <4>1
    <3> QED
      BY <1>13, <3>1, <3>2 DEF PollSync, PollSyncEnds, RequestBegins, RequestSyncEnds,
                 RequestRechecks, PollFails, RequestFails, Crash, DaemonStops
  <2>4. \A c \in Callers : Bindings(c)
    <3>1. \A c \in Callers : sync'[c].step # "bind" => Bindings(c)
      OBVIOUS
    <3>2. binds \subseteq binds'
      BY <2>1
    <3> HIDE DEF Bindings
    <3> QED
      BY <1>4, <2>3, <3>1, <3>2
  <2>5. StillValid'
    BY <1>3, <1>5, <2>1 DEF Withdrawn, StillValid, Searchable
  <2> QED
    BY <2>1, <2>4, <2>5 DEF Withdrawn
<1>14. CASE UNCHANGED <<outbox, turnJob, jobActive, cancels, binds, tombstones, memories, sync>>
  <2>1. StillValid'
    BY <1>3, <1>5, <1>14 DEF Withdrawn, StillValid, Searchable
  <2> QED
    BY <1>4, <1>14, <2>1 DEF Withdrawn
<1>15. CASE RestartEmpty
  BY <1>15 DEF RestartEmpty, DaemonStops, Withdrawn, StillValid, NoSync
<1>16. \/ \E t \in Turns : RecordTurn(t) \/ \E j \in Jobs : AttachTurn(t, j)
       \/ (\E j \in Jobs : CancelJob(j)) \/ AcknowledgeSource
       \/ UserWrites \/ \E w \in Workers : complete_consolidation(w)
       \/ IntakeSource \/ ReplaySource
       \/ \E c : \/ SyncReadSources(c) \/ bind_cancelled_source(c)
                 \/ invalidate_job(c) \/ checkpoint_cancellations(c)
       \/ PollSync \/ PollSyncEnds \/ RequestBegins \/ RequestSyncEnds
       \/ RequestRechecks \/ PollFails \/ RequestFails \/ Crash \/ RestartEmpty
       \/ UNCHANGED <<outbox, turnJob, jobActive, cancels, binds, tombstones, memories, sync>>
  BY DEF Next, User, PollStep, checkpoint_replay, SyncStep, RequestStep,
         RequestMarks, RequestQueries, RequestReturns, WorkerStep, claim_work, claim_nothing,
         complete_extraction, fail_work, Abandon, OrphanExpires, Expire,
         Faults, SlowWorker, vars, taskDb, memoryDb, daemon
<1> QED
  BY <1>6, <1>7, <1>8, <1>9, <1>10, <1>11, <1>12, <1>13, <1>14, <1>15, <1>16

\* A query reads nothing that an event behind the cursor has revoked.
LEMMA QueryClean ==
    ASSUME Revocable, History, Withdrawn,
           NEW m \in DOMAIN memories, memories[m].status \in Searchable,
           NEW k \in 1..cancelCursor, NEW r \in memories[m].evidence,
           NEW s \in 1..cancels[k].at, TurnOf(r) = TurnOf(s)
    PROVE  JobOf(s) # cancels[k].job
<1> SUFFICES ASSUME JobOf(s) = cancels[k].job PROVE FALSE
  OBVIOUS
<1>1. k \in 1..Len(cancels) /\ cancels[k].job \in tombstones
  BY DEF Revocable, Syncing, Captured, CursorsCovered
<1>2. s \in DOMAIN outbox /\ r \in DOMAIN outbox
  BY <1>1 DEF History, Revocable, Captured, Stored
<1>3. TurnOf(s) \in Turns /\ JobOf(s) # None
  BY <1>1, <1>2, Captures, NoneIsNothing DEF Revocable, Stored
<1>4. <<TurnOf(s), cancels[k].job>> \in binds
  BY <1>1, <1>2, <1>3 DEF History, Withdrawn
<1> QED
  BY <1>1, <1>4 DEF Withdrawn, StillValid, source_valid

\* A step that leaves the request and its synchronisation where they are.
LEMMA AnsweringKept ==
    ASSUME Revocable, Queued, History, Answering, [Next]_vars,
           UNCHANGED request, cancelCursor <= cancelCursor',
           "request" \in Callers =>
               /\ sync'["request"].step = "idle" <=> sync["request"].step = "idle"
               /\ sync'["request"].last = sync["request"].last
               /\ sync'["request"].size = sync["request"].size,
           cancelCursor' \in Nat
    PROVE  Answering'
<1>1. /\ Len(cancels) \in Nat /\ Len(outbox) \in Nat /\ cancelCursor \in 0..Len(cancels)
      /\ \A r \in DOMAIN outbox : TurnOf(r)' = TurnOf(r) /\ JobOf(r)' = JobOf(r)
      /\ \A k \in 1..Len(cancels) : cancels'[k] = cancels[k]
      /\ \A k \in 1..Len(cancels) : cancels[k].at \in 0..Len(outbox)
      /\ DOMAIN outbox = 1..Len(outbox)
  BY TaskDbGrows DEF Revocable, Captured, Syncing, History
<1>2. /\ \A E \in request.answer : E \subseteq DOMAIN outbox
      /\ request.before \in Nat /\ request.began \in Nat
  BY DEF Queued, Asked, RequestRecord
<1>3. ASSUME NEW k \in 1..Len(cancels), CleanOf(k) PROVE CleanOf(k)'
  <2>1. cancels'[k] = cancels[k] /\ cancels[k].at \in 0..Len(outbox) /\ request' = request
    BY <1>1
  <2>2. SUFFICES ASSUME NEW E \in request.answer, NEW r \in E, NEW s \in 1..cancels[k].at,
                        TurnOf(r)' = TurnOf(s)'
                 PROVE  JobOf(s)' # cancels[k].job
    BY <2>1 DEF CleanOf
  <2>3. r \in DOMAIN outbox /\ s \in DOMAIN outbox
    BY <1>1, <1>2, <2>1
  <2>4. TurnOf(r) = TurnOf(s) /\ JobOf(s)' = JobOf(s)
    BY <1>1, <2>2, <2>3
  <2> QED BY <1>3, <2>2, <2>4 DEF CleanOf
<1>4. request.step \in {"recheck", "check"} => \A k \in 1..request.before : CleanOf(k)'
  BY <1>1, <1>2, <1>3 DEF Answering
<1>5. /\ "request" \in Callers /\ request'.step \notin {"sync", "recheck"} =>
            sync'["request"].step = "idle"
      /\ request'.step \notin {"none", "answered"} => "request" \in Callers
  BY DEF Answering
<1>6. /\ request'.step \in {"query", "recheck", "check"} => request'.before <= cancelCursor'
      /\ request'.step = "check" => request'.began <= cancelCursor'
  BY <1>1, <1>2 DEF Answering
<1>7. /\ request'.step = "recheck" /\ sync'["request"].step # "idle"
              /\ sync'["request"].size < EventPage =>
            request'.began <= sync'["request"].last
  BY DEF Answering
<1> QED
  BY <1>4, <1>5, <1>6, <1>7 DEF Answering

\* The actions of a request, and those that end every call.
LEMMA RequestActions ==
    ASSUME [Next]_vars
    PROVE  \/ RequestBegins \/ RequestSyncEnds \/ RequestMarks \/ RequestQueries
           \/ RequestRechecks \/ RequestReturns \/ RequestFails \/ Crash \/ RestartEmpty
           \/ UNCHANGED request /\ (UNCHANGED <<sync, cancelCursor>>)
           \/ UNCHANGED request /\ \E c \in Callers : SyncStep(c)
           \/ UNCHANGED <<request, cancelCursor>> /\ (PollSync \/ PollSyncEnds \/ PollFails)
BY DEF Next, User, RecordTurn, AttachTurn, CancelJob, UserWrites, PollStep, IntakeSource,
       ReplaySource, Ingest, AcknowledgeSource, checkpoint_replay, PollSync, SyncStep,
       SyncReadSources, bind_cancelled_source, invalidate_job, checkpoint_cancellations,
       PollSyncEnds, RequestStep, WorkerStep, claim_work, claim_nothing,
       complete_extraction, complete_consolidation, fail_work, Abandon, OrphanExpires, Expire,
       Faults, SlowWorker, PollFails, vars, memoryDb, daemon

\* and what a request that is answering read.
LEMMA StepAnswering ==
    ASSUME Revocable, Queued, History, Withdrawn, Answering, [Next]_vars
    PROVE  Answering'
<1>1. /\ sync \in [Callers -> SyncCall] /\ cancelCursor \in 0..Len(cancels)
      /\ cancelCursor \in Nat /\ Len(cancels) \in Nat /\ EventPage \in Nat
      /\ request \in RequestRecord
  BY LimitsPositive DEF Revocable, Syncing, Captured, Queued, Asked
<1>2. NoSync.step = "idle" /\ NoRequest.step = "none"
  BY DEF NoSync, NoRequest
<1>3. CASE \/ RequestReturns \/ RequestFails \/ Crash \/ RestartEmpty
  <2>1. request'.step \in {"none", "answered"}
    BY <1>2, <1>3 DEF RequestReturns, RequestFails, Crash, RestartEmpty, DaemonStops, NoRequest
  <2>2. "request" \in Callers => sync'["request"].step = "idle"
    BY <1>1, <1>2, <1>3 DEF RequestReturns, RequestFails, Crash, RestartEmpty, DaemonStops,
                            Answering
  <2> QED
    BY <2>1, <2>2 DEF Answering
<1>4. CASE RequestBegins
  <2>1. request'.step = "sync" /\ "request" \in Callers
    BY <1>4 DEF RequestBegins, NoRequest
  <2> QED
    BY <2>1 DEF Answering
<1>5. CASE RequestSyncEnds
  <2>1. /\ "request" \in Callers /\ sync["request"].step = "sources"
        /\ sync["request"].next > sync["request"].last
        /\ sync' = [sync EXCEPT !["request"] = NoSync]
        /\ UNCHANGED <<outbox, cancels, cancelCursor>>
    BY <1>5 DEF RequestSyncEnds, SyncEnds, taskDb, memoryDb
  <2>2. sync'["request"].step = "idle"
    BY <1>1, <1>2, <2>1
  <2>3. sync["request"].last <= cancelCursor
    BY <1>1, <2>1 DEF Revocable, Syncing, SyncCall
  <2>4. CASE request' = NoRequest
    BY <1>2, <2>2, <2>4 DEF Answering
  <2>5. CASE sync["request"].size < EventPage /\ request.step = "sync"
             /\ request' = [request EXCEPT !.step = "mark"]
    <3>1. request'.step = "mark"
      BY <1>1, <2>5 DEF RequestRecord
    <3> QED
      BY <2>1, <2>2, <3>1 DEF Answering
  <2>6. CASE sync["request"].size < EventPage /\ request.step # "sync"
             /\ request' = [request EXCEPT !.step = "check"]
    <3>1. request.step = "recheck"
      BY <2>1, <2>6 DEF Answering
    <3>2. /\ request'.step = "check" /\ request'.began = request.began
          /\ request'.before = request.before /\ request'.answer = request.answer
      BY <1>1, <2>6 DEF RequestRecord
    <3>3. request.began <= cancelCursor
      BY <1>1, <2>1, <2>3, <2>6, <3>1 DEF Answering, RequestRecord, SyncCall
    <3>4. \A k \in 1..request.before : CleanOf(k)'
      BY <2>1, <3>1, <3>2 DEF Answering, CleanOf, TurnOf, JobOf
    <3>5. request.before <= cancelCursor
      BY <3>1 DEF Answering
    <3> QED
      BY <2>1, <2>2, <3>2, <3>3, <3>4, <3>5 DEF Answering
  <2>7. sync["request"].size \in Nat
    BY <1>1, <2>1 DEF SyncCall
  <2>8. CASE sync["request"].size >= EventPage
    BY <1>5, <2>4, <2>8 DEF RequestSyncEnds
  <2>9. CASE ~(sync["request"].size >= EventPage)
    <3>1. request' = [request EXCEPT !.step = IF @ = "sync" THEN "mark" ELSE "check"]
      BY <1>5, <2>9 DEF RequestSyncEnds
    <3>2. sync["request"].size < EventPage
      BY <1>1, <2>7, <2>9
    <3> QED
      BY <2>5, <2>6, <3>1, <3>2
  <2> QED
    BY <2>8, <2>9
<1>6. CASE RequestMarks
  <2>1. /\ request.step = "mark" /\ UNCHANGED <<sync, cancelCursor>>
        /\ request'.step = "query" /\ request'.before = cancelCursor
    BY <1>1, <1>6 DEF RequestMarks, memoryDb, RequestRecord
  <2>2. /\ "request" \in Callers /\ sync'["request"].step = "idle"
    BY <2>1 DEF Answering
  <2> QED
    BY <1>1, <2>1, <2>2 DEF Answering
<1>7. CASE RequestQueries
  <2> DEFINE A == {memories[m].evidence :
                      m \in {n \in DOMAIN memories : memories[n].status \in Searchable}}
  <2>1. /\ request.step = "query" /\ UNCHANGED <<outbox, cancels, sync, cancelCursor>>
        /\ request' = [request EXCEPT !.step = "recheck", !.answer = A]
    BY <1>7 DEF RequestQueries, memoryDb, taskDb
  <2>2. /\ request'.step = "recheck" /\ request'.before = request.before /\ request'.answer = A
    BY <1>1, <2>1 DEF RequestRecord
  <2>3. /\ "request" \in Callers /\ sync'["request"].step = "idle"
        /\ request.before <= cancelCursor
    BY <2>1 DEF Answering
  <2>4. ASSUME NEW k \in 1..request.before PROVE CleanOf(k)'
    <3>1. k \in 1..cancelCursor
      BY <1>1, <2>3 DEF RequestRecord
    <3>2. \A E \in A : \A r \in E, s \in 1..cancels[k].at :
              TurnOf(r) = TurnOf(s) => JobOf(s) # cancels[k].job
      BY <3>1, QueryClean
    <3> HIDE DEF A
    <3> QED
      BY <2>1, <2>2, <3>2 DEF CleanOf, TurnOf, JobOf
  <2> HIDE DEF A
  <2> QED
    BY <2>1, <2>2, <2>3, <2>4 DEF Answering
<1>8. CASE RequestRechecks
  <2>1. /\ request.step = "recheck" /\ UNCHANGED <<outbox, cancels, cancelCursor>>
        /\ request' = [request EXCEPT !.began = Len(cancels)]
        /\ sync' = [sync EXCEPT !["request"] = Page]
    BY <1>8 DEF RequestRechecks, memoryDb, taskDb
  <2>2. /\ request'.step = "recheck" /\ request'.before = request.before
        /\ request'.answer = request.answer /\ request'.began = Len(cancels)
    BY <1>1, <2>1 DEF RequestRecord
  <2>3. "request" \in Callers /\ sync'["request"] = Page
    BY <1>1, <2>1 DEF Answering
  <2>4. Page.size < EventPage => Len(cancels) <= Page.last
    <3>1. /\ Page.size = SmallerOf(EventPage, Len(cancels) - cancelCursor)
          /\ Page.last = cancelCursor + SmallerOf(EventPage, Len(cancels) - cancelCursor)
      BY DEF Page
    <3> QED
      BY <1>1, <3>1 DEF SmallerOf
  <2>5. request.before <= cancelCursor /\ \A k \in 1..request.before : CleanOf(k)'
    BY <2>1, <2>2 DEF Answering, CleanOf, TurnOf, JobOf
  <2> QED
    BY <2>1, <2>2, <2>3, <2>4, <2>5 DEF Answering
<1>9. CASE UNCHANGED request /\ (UNCHANGED <<sync, cancelCursor>>)
  BY <1>1, <1>9, AnsweringKept
<1>10. ASSUME UNCHANGED request, NEW c \in Callers, SyncStep(c) PROVE Answering'
  <2>1. /\ cancelCursor' \in Nat /\ cancelCursor <= cancelCursor'
    <3>1. cancelCursor' = cancelCursor \/ (cancelCursor < sync[c].next /\ cancelCursor' = sync[c].next)
      BY <1>10 DEF SyncStep, SyncReadSources, bind_cancelled_source, invalidate_job,
                   checkpoint_cancellations, memoryDb
    <3>2. sync[c].next \in Nat
      BY <1>1 DEF SyncCall
    <3> QED
      BY <1>1, <3>1, <3>2
  <2>2. \A d \in Callers :
            /\ sync'[d].step = "idle" <=> sync[d].step = "idle"
            /\ sync'[d].last = sync[d].last
            /\ sync'[d].size = sync[d].size
    <3>1. CASE SyncReadSources(c)
      BY <1>1, <3>1 DEF SyncReadSources, SyncCall
    <3>2. CASE bind_cancelled_source(c)
      BY <1>1, <3>2 DEF bind_cancelled_source, SyncCall
    <3>3. CASE invalidate_job(c)
      BY <1>1, <3>3 DEF invalidate_job, SyncCall
    <3>4. CASE checkpoint_cancellations(c)
      BY <1>1, <3>4 DEF checkpoint_cancellations, SyncCall
    <3> QED
      BY <1>10, <3>1, <3>2, <3>3, <3>4 DEF SyncStep
  <2> QED
    BY <1>10, <2>1, <2>2, AnsweringKept
<1>11. CASE UNCHANGED <<request, cancelCursor>> /\ (PollSync \/ PollSyncEnds \/ PollFails)
  <2>1. "request" \in Callers => sync'["request"] = sync["request"]
    BY <1>1, <1>11 DEF PollSync, PollSyncEnds, PollFails
  <2> QED
    BY <1>1, <1>11, <2>1, AnsweringKept
<1> QED
  BY <1>3, <1>4, <1>5, <1>6, <1>7, <1>8, <1>9, <1>10, <1>11, RequestActions

\* No answer cites a turn that was attached to a Job before a cancellation
\* committed when the request's last synchronisation began, whatever the
\* polling task applies meanwhile and whatever fails.
THEOREM AnswersRespectCancellationHolds == Spec => AnswersRespectCancellation
<1> DEFINE Inv == Revocable /\ Queued /\ History /\ Withdrawn /\ Answering
           Respected == (request.step = "check" /\ request'.step = "answered") =>
                            \A E \in request.answer, k \in 1..request.began :
                                \A r \in E, s \in 1..cancels[k].at :
                                    TurnOf(r) = TurnOf(s) => JobOf(s) # cancels[k].job
<1>1. Init => Inv
  BY InitRevocable, InitQueued, InitAnswers
<1>2. Inv /\ [Next]_vars => Inv'
  BY StepRevocable, StepQueued, StepHistory, StepWithdrawn, StepAnswering
<1>3. Inv /\ [Next]_vars => [Respected]_vars
  <2> SUFFICES ASSUME Inv, [Next]_vars, request.step = "check", request'.step = "answered"
               PROVE  \A k \in 1..request.began : CleanOf(k)
    BY DEF CleanOf
  <2>1. RequestReturns
    BY RequestActions DEF RequestBegins, RequestSyncEnds, RequestMarks, RequestQueries,
       RequestRechecks, RequestFails, Crash, RestartEmpty, DaemonStops, NoRequest, SyncEnds,
       Answering
  <2>2. request.before = cancelCursor /\ request.began <= cancelCursor
    BY <2>1 DEF RequestReturns, NoRequest, Answering
  <2>3. \A k \in 1..request.before : CleanOf(k)
    BY DEF Answering
  <2> QED
    BY <2>2, <2>3 DEF Queued, Asked, RequestRecord, Revocable, Syncing, Captured
<1> HIDE DEF Inv, Respected
<1>4. Spec => [][Respected]_vars
  BY <1>1, <1>2, <1>3, PTL DEF Spec
<1> QED
  BY <1>4 DEF AnswersRespectCancellation, Respected
=============================================================================
