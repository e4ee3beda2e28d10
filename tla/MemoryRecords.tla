--------------------------- MODULE MemoryRecords ---------------------------
(***************************************************************************)
(* The memory records and the transactions that change them: what the user *)
(* writes (store.rs), what a worker decides about a candidate              *)
(* (consolidation.rs), the splitting of records without a fact             *)
(* (fact_compaction.rs), reviews, and the cancellation of a source.        *)
(*                                                                         *)
(* A quotation is the number of its message, in the order of their dates;  *)
(* each has a source of its own.  Facts have one identity and two values;  *)
(* "none" is a record without a fact.  A worker decides on the revisions   *)
(* it read; the transaction refuses them when they changed.                *)
(***************************************************************************)
EXTENDS Naturals, Sequences, FiniteSets, FiniteSetsExt

CONSTANTS Nobody,
          MaxRecords,   \* bound: records
          MaxWork,      \* bound: work items
          MaxMoves      \* bound: commands, candidates, source changes and forced compactions

VARIABLES
    recs,        \* memories with memory_evidence, memory_versions, memory_compactions, memory_reviews
    suppressed,  \* suppressions
    revoked,     \* the sources of cancelled Jobs
    outdated,    \* the sources a newer revision of the turn replaced
    work,        \* work_items of the consolidation lane
    lease,       \* the running item with the revisions its worker read
    seen,        \* history: the revision of a record that was assessed last
    dropped,     \* history: compactions cancelled because their source was replaced
    authored,    \* history: what the user wrote last in a record
    exempt,      \* history: what a record cited when the quotation was forgotten
    kept,        \* history: quotations that must stay to be found
    moves

vars == <<recs, suppressed, revoked, outdated, work, lease, seen, dropped, authored, exempt,
          kept, moves>>

Ids == 1..MaxRecords
Quotes == {1, 2}
Values == {"x", "y"}
Searchable == {"active", "conflicted"}
Unfinished == {"pending", "running"}

Absent == [status |-> "absent", actor |-> Nobody, rev |-> 0, fact |-> "none", ev |-> {},
           hist |-> {}, dirty |-> FALSE, susp |-> FALSE, work |-> 0, review |-> [rev |-> 0, work |-> 0]]
Contents == [fact : Values \union {"none"}, ev : {{1}, {2}}]
Newest(ev) == Max(ev \union {0})

Init ==
    /\ recs = [i \in Ids |-> Absent]
    /\ suppressed = {} /\ revoked = {} /\ outdated = {}
    /\ work = <<>> /\ lease = Nobody
    /\ seen = [i \in Ids |-> 0] /\ dropped = {}
    /\ authored = [i \in Ids |-> Nobody] /\ exempt = {} /\ kept = {}
    /\ moves = 0

----------------------------------------------------------------------------
(* A transaction: the records as they become, whether every check passed, and *)
(* the records it saved.                                                      *)

Begin == [recs |-> recs, ok |-> TRUE, touched |-> {}]
Require(T, c) == [T EXCEPT !.ok = @ /\ c]

SameIdentity(a, b) == (a.fact = "none") = (b.fact = "none")
EvidenceValid(c) == c.ev \intersect (revoked \union suppressed) = {}

\* validate_memory, validate_version and index.
VersionFine(T, i, r) ==
    LET p == T.recs[i] IN
    /\ r.status \in Searchable => p.status # "invalidated" /\ r.ev \intersect revoked = {}
    /\ p.fact # "none" => r.fact = p.fact
    /\ (r.status = "active" /\ r.fact # "none") =>
          \A j \in Ids \ {i} : T.recs[j].status = "active" => T.recs[j].fact = "none"

\* The row, its version and, by the triggers, its compaction state.
Save(T, i, r) ==
    IF ~T.ok \/ ~VersionFine(T, i, r) THEN [T EXCEPT !.ok = FALSE]
    ELSE [T EXCEPT
            !.touched = @ \union {i},
            !.recs[i] = [r EXCEPT !.rev = T.recs[i].rev + 1,
                                  !.hist = T.recs[i].hist \union r.ev,
                                  !.dirty = r.status \in Searchable /\ r.actor = "agent",
                                  !.susp = FALSE]]

Room(T) == {i \in Ids : T.recs[i].status = "absent"}
Fresh(T) == Min(Room(T))
NewMemory(T, actor, status, c) ==
    IF Room(T) = {} THEN Require(T, FALSE)
    ELSE Save(T, Fresh(T), [Absent EXCEPT !.status = status, !.actor = actor,
                                          !.fact = c.fact, !.ev = c.ev])

Replaceable(p, c) ==
    (p.fact # "none" \/ c.fact # "none") =>
        /\ SameIdentity(p, c)
        /\ (p.actor = "agent" /\ p.fact # c.fact) => Newest(c.ev) >= Newest(p.ev)

\* Mutant: an active fact may stand beside claims in conflict.
SettledAlways(T) == TRUE

CheckSettled(T) ==
    (\E i \in T.touched : T.recs[i].fact # "none") =>
        ~\E i, j \in Ids : /\ T.recs[i].fact # "none" /\ T.recs[j].fact # "none"
                           /\ T.recs[i].status = "active" /\ T.recs[j].status = "conflicted"

Observe(T, ids) == [T EXCEPT !.recs = [i \in Ids |->
                        IF i \in ids THEN [@[i] EXCEPT !.dirty = FALSE] ELSE @[i]]]

Found(R) == UNION {R[i].ev : i \in {j \in Ids : R[j].status \in Searchable}}
Commit(T) == T.ok /\ CheckSettled(T) /\ recs' = T.recs

----------------------------------------------------------------------------
(* Commands of the user *)

Move == moves < MaxMoves /\ moves' = moves + 1
Written(R, i) == [fact |-> R[i].fact, ev |-> R[i].ev, status |-> R[i].status]

\* What the user changed is no longer owed to the agents' bookkeeping.
ByUser(T, i) ==
    /\ Move /\ Commit(T)
    /\ authored' = [j \in Ids |-> IF j \in T.touched THEN Written(T.recs, j) ELSE authored[j]]
    /\ kept' = kept \ recs[i].ev
    /\ UNCHANGED <<revoked, outdated, work, lease, seen, dropped>>

Human(r) == [r EXCEPT !.actor = "human"]

Create(c) ==
    LET T == NewMemory(Begin, "human", "active", c) IN
    /\ EvidenceValid(c) /\ Room(Begin) # {}
    /\ ByUser(T, Fresh(Begin)) /\ UNCHANGED <<suppressed, exempt>>

Update(i, c) ==
    /\ recs[i].status \notin {"absent", "forgotten"} /\ EvidenceValid(c)
    /\ ByUser(Save(Begin, i, Human([recs[i] EXCEPT !.fact = c.fact, !.ev = c.ev])), i)
    /\ UNCHANGED <<suppressed, exempt>>

Supersede(i, c) ==
    LET prior == Human([recs[i] EXCEPT !.status = "superseded"]) IN
    /\ recs[i].status \in Searchable /\ EvidenceValid(c) /\ Replaceable(prior, c)
    /\ ByUser(NewMemory(Save(Begin, i, prior), "human", "active", c), i)
    /\ UNCHANGED <<suppressed, exempt>>

SuppressHistory(T, i) == T.recs[i].hist

SetStatus(i, s) ==
    LET T == Save(Begin, i, Human([recs[i] EXCEPT !.status = s]))
        gone == IF s = "forgotten" THEN SuppressHistory(Begin, i) ELSE {} IN
    /\ recs[i].status \notin {"absent", "forgotten"}
    /\ recs[i].status = "invalidated" => s = "forgotten"
    /\ ByUser(T, i)
    /\ suppressed' = suppressed \union gone
    /\ exempt' = exempt \union {<<j, q>> \in Ids \X gone : q \in recs[j].hist}

----------------------------------------------------------------------------
(* Work *)

NewWork(kind, id, rev, c, receipt) ==
    [kind |-> kind, state |-> "pending", id |-> id, rev |-> rev, fact |-> c.fact, ev |-> c.ev,
     receipt |-> receipt]
Busy(w) == w # 0 /\ work[w].state \in Unfinished

\* complete_extraction hands a candidate on; it may quote a request to forget a record.
Extracted(c, names) ==
    /\ Move /\ Len(work) < MaxWork
    /\ c.ev \intersect (revoked \union outdated) = {}
    /\ names # 0 => recs[names].status # "absent" /\ c.fact = "none"
    /\ work' = Append(work, NewWork("candidate", names, IF names = 0 THEN 0 ELSE recs[names].rev,
                                    c, Newest(c.ev)))
    /\ UNCHANGED <<recs, suppressed, revoked, outdated, lease, seen, dropped, authored, exempt, kept>>

Eligible(i, force) == (force \/ (recs[i].dirty /\ ~recs[i].susp)) /\ ~Busy(recs[i].work)

ScheduleCompaction(i, force) ==
    /\ Len(work) < MaxWork /\ IF force THEN Move ELSE UNCHANGED moves
    /\ recs[i].actor = "agent" /\ recs[i].status \in Searchable /\ Eligible(i, force)
    /\ work' = Append(work, NewWork("compact", i, recs[i].rev, recs[i], Min(recs[i].ev)))
    /\ recs' = [recs EXCEPT ![i] = [@ EXCEPT !.dirty = FALSE, !.susp = FALSE, !.work = Len(work')]]
    /\ UNCHANGED <<suppressed, revoked, outdated, lease, seen, dropped, authored, exempt, kept>>

ScheduleReview(i) ==
    /\ Move /\ Len(work) < MaxWork
    /\ recs[i].actor = "agent" /\ recs[i].status = "active"
    /\ ~Busy(recs[i].review.work)
    /\ \/ recs[i].review.rev # recs[i].rev
       \/ recs[i].review.work # 0 /\ work[recs[i].review.work].state = "cancelled"
    /\ work' = Append(work, NewWork("review", i, recs[i].rev, recs[i], Min(recs[i].ev)))
    /\ recs' = [recs EXCEPT ![i].review = [rev |-> recs[i].rev, work |-> Len(work')]]
    /\ UNCHANGED <<suppressed, revoked, outdated, lease, seen, dropped, authored, exempt, kept>>

SeedCurrent(w) ==
    LET m == recs[work[w].id] IN
    m.rev = work[w].rev /\ m.actor = "agent" /\ m.status \in Searchable

\* A worker takes an item and reads; a compaction whose seed changed ends at once.
Claim(w) ==
    LET obsolete == work[w].kind = "compact" /\ ~SeedCurrent(w) IN
    /\ lease = Nobody /\ work[w].state = "pending"
    /\ work' = [work EXCEPT ![w].state = IF obsolete THEN "done" ELSE "running"]
    /\ lease' = IF obsolete THEN Nobody
                ELSE [work |-> w, view |-> [i \in Ids |-> recs[i].rev]]
    /\ UNCHANGED <<recs, suppressed, revoked, outdated, seen, dropped, authored, exempt, kept, moves>>

\* The attempt fails, for good (compaction_failure) or to be tried again.
FailWork ==
    /\ lease # Nobody
    /\ \E s \in {"pending", "failed"} :
        /\ work' = [work EXCEPT ![lease.work].state = s]
        /\ recs' = [i \in Ids |->
                      IF s = "failed" /\ recs[i].work = lease.work /\ recs[i].rev = work[lease.work].rev
                      THEN [recs[i] EXCEPT !.susp = TRUE] ELSE recs[i]]
        /\ s = "pending" => Move
        /\ s = "failed" => UNCHANGED moves
    /\ lease' = Nobody
    /\ UNCHANGED <<suppressed, revoked, outdated, seen, dropped, authored, exempt, kept>>

Withdrawn(ws) == [w \in DOMAIN work |->
                    IF w \in ws THEN [work[w] EXCEPT !.state = "cancelled"] ELSE work[w]]
Fenced(ws) == IF lease # Nobody /\ lease.work \in ws THEN Nobody ELSE lease

\* enqueue_source: a newer revision of the turn withdraws the work on this one.
SourceReplaced(q) ==
    LET ws == {w \in DOMAIN work : work[w].receipt = q /\ work[w].state \in Unfinished} IN
    /\ Move /\ q \notin outdated
    /\ outdated' = outdated \union {q}
    /\ work' = Withdrawn(ws) /\ lease' = Fenced(ws)
    /\ dropped' = dropped \union {w \in ws : work[w].kind = "compact"}
    /\ UNCHANGED <<recs, suppressed, revoked, seen, authored, exempt, kept>>

\* invalidate_job: work and records that rest on the source go, whoever wrote them.
JobCancelled(q) ==
    LET hit == {i \in Ids : q \in recs[i].ev /\ recs[i].status \notin {"invalidated", "forgotten"}}
        ws == {w \in DOMAIN work : /\ work[w].state \in Unfinished \union {"failed"}
                                   /\ work[w].receipt = q \/ \E i \in hit : recs[i].work = w} IN
    /\ Move /\ q \notin revoked
    /\ revoked' = revoked \union {q}
    /\ recs' = [i \in Ids |-> IF i \in hit THEN Save(Begin, i, [recs[i] EXCEPT !.status = "invalidated"]).recs[i]
                              ELSE recs[i]]
    /\ work' = Withdrawn(ws) /\ lease' = Fenced(ws)
    /\ kept' = kept \ UNION {recs[i].ev : i \in hit}
    /\ UNCHANGED <<suppressed, outdated, seen, dropped, authored, exempt>>

----------------------------------------------------------------------------
(* What a worker's decision does: apply_related, complete_consolidation *)

Agent(r) == [r EXCEPT !.actor = "agent"]
Unchanged(T, i) == T.recs[i].rev = lease.view[i] /\ T.recs[i].status \in Searchable
Retained(i) == [fact |-> "none", ev |-> recs[i].ev]

MayChange(p, do) == p.actor = "human" => do = "conflict"

\* Mutant: a retired record's quotations need not be in what replaces it.
CoversAny(T, r, anchor) == TRUE

Covers(T, r, anchor) ==
    T.recs[r.id].ev \subseteq T.recs[anchor].ev \union (IF r.retained THEN Retained(r.id).ev ELSE {})

\* An assessment r of another record, beside the record anchor the decision made.
ApplyRelated(T, r, anchor) ==
    LET p == T.recs[r.id]
        conflicting == Save(T, anchor, [T.recs[anchor] EXCEPT !.status = "conflicted"])
        known == Require(T, Unchanged(T, r.id) /\ MayChange(p, r.do)) IN
    CASE r.do = "keep" -> Require(T, recs[r.id].rev = lease.view[r.id] /\ recs[r.id].status \in Searchable)
      [] r.do = "supersede" ->
            LET U == IF r.retained THEN NewMemory(known, "agent", "active", Retained(r.id)) ELSE known IN
            IF anchor = 0 THEN Require(T, FALSE)
            ELSE Save(Require(U, /\ p.fact # "none" => Replaceable(p, T.recs[anchor])
                                 /\ Covers(T, r, anchor)
                                 /\ r.retained => EvidenceValid(Retained(r.id))),
                      r.id, [p EXCEPT !.status = "superseded"])
      [] r.do = "conflict" ->
            IF anchor = 0 THEN Require(T, FALSE)
            ELSE Save(Require(IF T.recs[anchor].status = "conflicted" THEN known
                              ELSE [conflicting EXCEPT !.ok = @ /\ known.ok],
                              p.fact # "none" => SameIdentity(p, T.recs[anchor])),
                      r.id, [p EXCEPT !.status = "conflicted"])
      [] r.do = "forget" ->
            \* validate_forget: the candidate's message asks for it, and names the record as it is.
            Save(Require(known, /\ work[lease.work].id = r.id /\ work[lease.work].kind = "candidate"
                                /\ work[lease.work].rev = p.rev),
                 r.id, [p EXCEPT !.status = "forgotten"])

\* The decision's own part: the transaction and the record it is about.
Decide(T, d, c) ==
    LET p == T.recs[d.target]
        U == Require(T, /\ Unchanged(T, d.target) /\ MayChange(p, d.do)
                        /\ (p.fact # "none" \/ c.fact # "none") =>
                              /\ SameIdentity(p, c)
                              /\ d.do = "merge" => p.fact = c.fact
                              /\ d.do = "supersede" => Replaceable(p, c)) IN
    CASE d.do = "create" -> NewMemory(T, "agent", "active", c)
      [] d.do = "merge" -> Save(U, d.target, Agent([p EXCEPT !.fact = c.fact, !.ev = c.ev \union @]))
      [] d.do = "supersede" ->
            NewMemory(Save(U, d.target, [p EXCEPT !.status = "superseded"]), "agent", "active", c)
      [] d.do = "conflict" ->
            Save(NewMemory(U, "agent", "conflicted", c), d.target, [p EXCEPT !.status = "conflicted"])

SeedRule(w, d, r) ==
    w.kind = "compact" =>
        /\ SeedCurrent(lease.work) /\ d.do # "create"
        /\ \/ d.do = "discard" \/ d.target = w.id
           \/ d.do = "merge" /\ r.id = w.id /\ r.do = "supersede" /\ ~r.retained
        /\ r.do # "forget"

Related == {[id |-> 0, do |-> "none", retained |-> FALSE]}
             \union [id : Ids, do : {"keep", "conflict", "forget"}, retained : {FALSE}]
             \union [id : Ids, do : {"supersede"}, retained : BOOLEAN]
Decisions == {[do |-> x, target |-> 0] : x \in {"create", "discard"}}
               \union [do : {"merge", "supersede", "conflict"}, target : Ids]

\* Decisions and assessments of records there are.
Known(i) == i # 0 => recs[i].status # "absent"
Possible == {d \in Decisions : Known(d.target)}
Assessments == {r \in Related : Known(r.id)}

\* The item ends, and what the transaction did is assessed.
Finish(T, ids, leaving, gone) ==
    /\ T.ok /\ CheckSettled(T)
    /\ recs' = Observe(T, ids).recs
    /\ seen' = [i \in Ids |-> IF i \in ids THEN T.recs[i].rev ELSE seen[i]]
    /\ work' = [work EXCEPT ![lease.work].state = "done"]
    /\ lease' = Nobody
    /\ suppressed' = suppressed \union gone
    /\ exempt' = exempt \union {<<j, q>> \in Ids \X gone : q \in T.recs[j].hist}
    /\ kept' = (kept \ leaving)
                 \union UNION {T.recs[i].ev : i \in {j \in T.touched : T.recs[j].status \in Searchable}}
    /\ UNCHANGED <<revoked, outdated, dropped, authored, moves>>

CompleteConsolidation ==
    /\ lease # Nobody
    /\ LET w == work[lease.work] IN
       /\ w.kind = "candidate" \/ (w.kind = "compact" /\ w.fact # "none")
       /\ \E d \in Possible, more \in BOOLEAN :
            LET c == [fact |-> w.fact, ev |-> w.ev \union (IF more THEN Quotes ELSE {})]
                anchors == IF d.do = "discard" THEN {} ELSE
                           IF d.do = "merge" THEN {d.target} ELSE {Fresh(Begin)}
                T == IF d.do = "discard" THEN Begin ELSE Decide(Begin, d, c) IN
            /\ more => d.do # "discard"
            /\ d.do \in {"create", "supersede", "conflict"} => Room(Begin) # {}
            /\ d.do = "discard" \/ EvidenceValid(c)
            /\ T.ok
            /\ \E r \in Assessments :
                 LET U == IF r.id = 0 THEN T
                          ELSE ApplyRelated(T, r, IF anchors = {} THEN 0 ELSE Max(anchors))
                     forgotten == r.do = "forget" IN
                 /\ r.id # 0 => r.id # d.target
                 /\ SeedRule(w, d, r)
                 /\ Finish(U,
                           IF w.kind = "compact" THEN U.touched \union {w.id}
                           ELSE {i \in U.touched : U.recs[i].fact # "none"},
                           (IF d.do = "supersede" THEN recs[d.target].ev ELSE {})
                             \union (IF forgotten THEN recs[r.id].ev ELSE {}),
                           IF forgotten THEN SuppressHistory(U, r.id) ELSE {})

\* complete_fact_compaction: a record without a fact becomes facts that keep its quotations.
ApplyPart(T, do, target, c) ==
    LET p == T.recs[target]
        U == Require(T, /\ Unchanged(T, target) /\ MayChange(p, do)
                        /\ p.fact # "none"
                        /\ do = "merge" => p.fact = c.fact
                        /\ do = "supersede" => Replaceable(p, c)) IN
    CASE do = "create" -> NewMemory(T, "agent", "active", c)
      [] do = "merge" -> Save(U, target, [p EXCEPT !.ev = @ \union c.ev])
      [] do = "supersede" ->
            NewMemory(Save(U, target, [p EXCEPT !.status = "superseded"]), "agent", "active", c)
      [] do = "conflict" ->
            NewMemory(Save(U, target, [p EXCEPT !.status = "conflicted"]), "agent", "conflicted", c)

Retire(T, i) ==
    LET parts == {j \in T.touched : T.recs[j].fact # "none"} IN
    Save(Require(T, /\ T.recs[i].actor = "agent" /\ T.recs[i].fact = "none"
                    /\ T.recs[i].ev \subseteq UNION {T.recs[j].ev : j \in parts}),
         i, [T.recs[i] EXCEPT !.status = "superseded"])

CompleteFactCompaction ==
    /\ lease # Nobody
    /\ LET w == work[lease.work] IN
       /\ w.kind = "compact" /\ w.fact = "none" /\ SeedCurrent(lease.work)
       /\ \E d \in Possible, v \in Values, ev \in {{1}, {2}, {1, 2}}, old \in Ids \union {0} :
            LET c == [fact |-> v, ev |-> ev]
                T == IF d.do = "discard" THEN Begin ELSE Retire(ApplyPart(Begin, d.do, d.target, c), w.id)
                U == IF old = 0 THEN T
                     ELSE Retire(Require(T, Unchanged(Begin, old) /\ old # w.id /\ d.do # "discard"), old) IN
            /\ d.do \in {"create", "supersede", "conflict"} => Room(Begin) # {}
            /\ d.do = "discard" \/ EvidenceValid(c)
            /\ Finish(U, U.touched \union {w.id},
                      IF d.do = "supersede" THEN recs[d.target].ev ELSE {}, {})

\* complete_review: whatever happened to the record meanwhile wins over the review.
CompleteReview ==
    /\ lease # Nobody
    /\ LET w == work[lease.work]
           m == recs[w.id]
           archive == m.rev = w.rev /\ m.actor = "agent" /\ m.status = "active" IN
       /\ w.kind = "review"
       /\ \E yes \in BOOLEAN :
            LET T == IF yes /\ archive THEN Save(Begin, w.id, [m EXCEPT !.status = "archived"]) ELSE Begin IN
            Finish(T, {}, IF yes /\ archive THEN m.ev ELSE {}, {})

Next ==
    \/ \E c \in Contents : Create(c) \/ \E n \in Ids \union {0} : Extracted(c, n)
    \/ \E i \in Ids :
        \/ \E c \in Contents : Update(i, c) \/ Supersede(i, c)
        \/ \E s \in {"active", "conflicted", "archived", "forgotten"} : SetStatus(i, s)
        \/ \E force \in BOOLEAN : ScheduleCompaction(i, force)
        \/ ScheduleReview(i)
    \/ \E w \in DOMAIN work : Claim(w)
    \/ FailWork
    \/ \E q \in Quotes : SourceReplaced(q) \/ JobCancelled(q)
    \/ CompleteConsolidation \/ CompleteFactCompaction \/ CompleteReview

Spec == Init /\ [][Next]_vars

----------------------------------------------------------------------------
\* A fact has one value: at most one active record, and none beside claims in conflict.
OneValue ==
    LET facts == {i \in Ids : recs[i].fact # "none"} IN
    \A i \in facts : recs[i].status = "active" =>
        \A j \in facts \ {i} : recs[j].status \notin Searchable

\* What the user wrote stays as written; agents may only mark it as in conflict.
HumanKept ==
    \A i \in Ids : authored[i] # Nobody =>
        /\ recs[i].actor = "human"
        /\ recs[i].fact = authored[i].fact /\ recs[i].ev = authored[i].ev
        /\ recs[i].status \in {authored[i].status, "conflicted", "invalidated"}

\* A forgotten quotation is not learnt again: only records that cited it then still do.
ForgottenGone ==
    \A i \in Ids : recs[i].status \in Searchable =>
        \A q \in recs[i].ev \intersect suppressed : <<i, q>> \in exempt

\* Merging, splitting and retiring records never loses a quotation: it stays in a record that
\* is searched, unless the user, a newer fact, a review or a cancelled Job took its record away.
EvidenceKept == kept \subseteq Found(recs)

\* Every revision an agent wrote is assessed, or waits to be: no change is overlooked between
\* the dirty flag, the work item and its completion (a work item withdrawn because its source
\* has a newer revision is not scheduled again).
CompactionTracked ==
    \A i \in Ids : (recs[i].actor = "agent" /\ recs[i].status \in Searchable) =>
        \/ recs[i].dirty \/ recs[i].susp \/ Busy(recs[i].work)
        \/ seen[i] = recs[i].rev \/ recs[i].work \in dropped

\* The memory database stays trustworthy whatever users, workers and cancellations do at once.
RecordsSound == OneValue /\ HumanKept /\ ForgottenGone /\ EvidenceKept /\ CompactionTracked
=============================================================================
