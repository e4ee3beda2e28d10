--------------------------- MODULE EmbeddingIndex ---------------------------
(***************************************************************************)
(* Semantic recall: run_embeddings (daemon.rs) with EmbeddingIndex,        *)
(* SemanticRetrieval (embedding_index.rs) and the vectors of one Project   *)
(* (vectors.rs).  A vector is only comparable with vectors of the same     *)
(* model; the provider is called without any lock, so configuration and    *)
(* memory move meanwhile.                                                  *)
(***************************************************************************)
EXTENDS Naturals, FiniteSets

CONSTANTS Nobody,
          Memories,
          Models,      \* fingerprints of the configured embedding models
          First,       \* the model installed at start
          Searches,    \* searches in progress
          MaxMoves     \* bound: writes, reloads, restarts and failing calls

VARIABLES
    memory,    \* memories: revision and whether it can be searched
    profile,   \* embedding_profiles: generation and fingerprint
    vectors,   \* memory_vectors: one row per memory and generation
    failures,  \* embedding_failures: attempts per memory, generation and revision
    installed, \* the runtime: its model and which installation it is
    workers,   \* embedding tasks of the current and of earlier runtimes
    loop,      \* the runtime the scheduling loop saw last
    schedule,  \* active, due and dirty of the Project
    cache,     \* the query vector a retrieval keeps or waits for
    search,    \* searches
    changes,   \* the Project has an entry in the channel of changes
    moves

vars == <<memory, profile, vectors, failures, installed, workers, loop, schedule, cache, search,
          changes, moves>>

NoWorker == [at |-> "none", run |-> 0, model |-> First, gen |-> 0, batch |-> {}]
NoSearch == [at |-> "none", model |-> First, gen |-> 0, vector |-> Nobody]

Init ==
    /\ memory = [m \in Memories |-> [rev |-> 1, live |-> TRUE]]
    /\ profile = [gen |-> 0, model |-> Nobody]
    /\ vectors = {} /\ failures = {}
    /\ installed = [run |-> 1, model |-> First] /\ loop = 1
    /\ workers = NoWorker
    /\ schedule = [active |-> FALSE, due |-> TRUE, dirty |-> FALSE]
    /\ cache = [gen |-> 0, vector |-> Nobody]
    /\ search = [s \in Searches |-> NoSearch]
    /\ changes = FALSE /\ moves = 0

Move == moves < MaxMoves /\ moves' = moves + 1
Rows == <<memory, profile, vectors, failures>>

----------------------------------------------------------------------------
(* The Project's memories, the configuration and the process *)

Write(m) ==
    /\ Move
    /\ \E live \in BOOLEAN :
          memory' = [memory EXCEPT ![m] = [rev |-> @.rev + 1, live |-> live]]
    /\ changes' = TRUE
    /\ UNCHANGED <<profile, vectors, failures, installed, workers, loop, schedule, cache, search>>

\* A new installation has its own index and its own cache of queries.
Reload(f) ==
    /\ Move
    /\ installed' = [run |-> installed.run + 1, model |-> f]
    /\ cache' = [gen |-> 0, vector |-> Nobody]
    /\ search' = [s \in Searches |->
                    IF search[s].at = "embed" THEN [search[s] EXCEPT !.at = "alone"] ELSE search[s]]
    /\ UNCHANGED <<Rows, workers, loop, schedule, changes>>

Restart ==
    /\ Move
    /\ installed' = [installed EXCEPT !.run = @ + 1] /\ loop' = installed.run + 1
    /\ workers' = NoWorker /\ schedule' = [active |-> FALSE, due |-> TRUE, dirty |-> FALSE]
    /\ cache' = [gen |-> 0, vector |-> Nobody]
    /\ search' = [s \in Searches |-> NoSearch] /\ changes' = FALSE
    /\ UNCHANGED Rows

----------------------------------------------------------------------------
(* The loop *)

Pending == {m \in Memories :
    /\ memory[m].live
    /\ ~\E v \in vectors : v.m = m /\ v.gen = profile.gen /\ v.rev = memory[m].rev
    /\ ~\E f \in failures : f.m = m /\ f.gen = profile.gen /\ f.rev = memory[m].rev /\ f.given}

\* A reload aborts the tasks of the old runtime before the loop goes on.
Reinstall ==
    /\ loop # installed.run
    /\ loop' = installed.run /\ workers' = NoWorker
    /\ schedule' = [active |-> FALSE, due |-> TRUE, dirty |-> FALSE]
    /\ UNCHANGED <<Rows, installed, cache, search, changes, moves>>

Spawn ==
    /\ loop = installed.run /\ ~schedule.active /\ schedule.due
    /\ schedule' = [schedule EXCEPT !.active = TRUE]
    /\ workers' = [NoWorker EXCEPT !.at = "activate", !.run = loop, !.model = installed.model]
    /\ UNCHANGED <<Rows, installed, loop, cache, search, changes, moves>>

Notice ==
    /\ changes /\ changes' = FALSE
    /\ schedule' = [schedule EXCEPT !.due = TRUE, !.dirty = @ \/ schedule.active]
    /\ UNCHANGED <<Rows, installed, workers, loop, cache, search, moves>>

\* The task ends: a change seen meanwhile makes the Project due at once.
Finished(w) ==
    /\ workers' = NoWorker
    /\ schedule' = [active |-> FALSE, due |-> schedule.dirty, dirty |-> FALSE]
Elapse ==
    /\ ~schedule.due /\ ~schedule.active /\ Pending # {}
    /\ schedule' = [schedule EXCEPT !.due = TRUE]
    /\ UNCHANGED <<Rows, installed, workers, loop, cache, search, changes, moves>>

----------------------------------------------------------------------------
(* A task: activate, read what is pending, call the provider, write *)

\* Mutant: a profile that returns gets no new generation.
ReservedAgain(f) == IF profile.gen = 0 THEN [gen |-> 1, model |-> f] ELSE [profile EXCEPT !.model = f]

\* reserve_embedding
Reserved(f) == IF profile.model = f THEN profile ELSE [gen |-> profile.gen + 1, model |-> f]

\* Under the lock of the runtime a task activates only while its installation is current.
Activate ==
    /\ workers.at = "activate"
    /\ IF workers.run # installed.run THEN Finished(workers) /\ UNCHANGED profile
       ELSE /\ profile' = Reserved(workers.model)
            /\ workers' = [workers EXCEPT !.at = "read", !.gen = profile'.gen]
            /\ UNCHANGED schedule
    /\ UNCHANGED <<memory, vectors, failures, installed, loop, cache, search, changes, moves>>

Read ==
    LET current == profile = [gen |-> workers.gen, model |-> workers.model] IN
    /\ workers.at = "read"
    /\ IF ~current \/ Pending = {} THEN Finished(workers)
       ELSE /\ workers' = [workers EXCEPT !.at = "embed",
                              !.batch = {[m |-> m, rev |-> memory[m].rev] : m \in Pending}]
            /\ UNCHANGED schedule
    /\ UNCHANGED <<Rows, installed, loop, cache, search, changes, moves>>

Embed == workers.at = "embed" /\ workers' = [workers EXCEPT !.at = "write"]
         /\ UNCHANGED <<Rows, installed, loop, schedule, cache, search, changes, moves>>

Current(b) == profile.gen = workers.gen /\ memory[b.m].live /\ memory[b.m].rev = b.rev

\* put_embedding, one row after another; a row of the batch that moved on is left out.
Put(b) ==
    /\ workers.at = "write" /\ b \in workers.batch
    /\ vectors' = IF Current(b)
                  THEN {v \in vectors : v.m # b.m \/ v.gen # workers.gen}
                         \union {[m |-> b.m, gen |-> workers.gen, rev |-> b.rev, model |-> workers.model]}
                  ELSE vectors
    /\ failures' = IF Current(b) THEN {f \in failures : f.m # b.m \/ f.rev # b.rev \/ f.gen # workers.gen}
                   ELSE failures
    /\ IF workers.batch = {b} THEN Finished(workers)
       ELSE workers' = [workers EXCEPT !.batch = @ \ {b}] /\ UNCHANGED schedule
    /\ UNCHANGED <<memory, profile, installed, loop, cache, search, changes, moves>>

\* The provider rejects one document of the batch, or fails for all of it; after the last
\* attempt a revision is given up.
Fail ==
    /\ workers.at = "embed" /\ Move
    /\ \E some \in SUBSET workers.batch \ {{}}, given \in BOOLEAN :
        LET told == {b \in some : Current(b)} IN
        /\ failures' = {f \in failures : \A b \in told : f.m # b.m \/ f.rev # b.rev \/ f.gen # workers.gen}
                         \union {[m |-> b.m, gen |-> workers.gen, rev |-> b.rev, given |-> given] : b \in told}
        /\ IF some = workers.batch THEN Finished(workers)
           ELSE workers' = [workers EXCEPT !.at = "write", !.batch = @ \ some] /\ UNCHANGED schedule
    /\ UNCHANGED <<memory, profile, vectors, installed, loop, cache, search, changes>>

\* cleanup_derived: rows that no search may use any more.
Cleanup ==
    LET used(r) == r.gen = profile.gen /\ memory[r.m].live /\ memory[r.m].rev = r.rev IN
    /\ \E r \in vectors \union failures : ~used(r)
    /\ vectors' = {v \in vectors : used(v)} /\ failures' = {f \in failures : used(f)}
    /\ UNCHANGED <<memory, profile, installed, workers, loop, schedule, cache, search, changes, moves>>

----------------------------------------------------------------------------
(* A search: the profile, the query's vector, the comparison *)

Comparable(f) == profile.gen > 0 /\ profile.model = f
Begin(s) ==
    /\ search[s].at = "none" /\ Comparable(installed.model) /\ Move
    /\ search' = [search EXCEPT ![s] =
                    [at |-> IF cache.gen = profile.gen /\ cache.vector # Nobody THEN "compare" ELSE "embed",
                     model |-> installed.model, gen |-> profile.gen,
                     vector |-> IF cache.gen = profile.gen THEN cache.vector ELSE Nobody]]
    /\ UNCHANGED <<Rows, installed, workers, loop, schedule, cache, changes>>

\* The query is embedded by the model of the search's runtime and kept for its generation.
Answered(s) ==
    /\ search[s].at \in {"embed", "alone"}
    /\ search' = [search EXCEPT ![s].at = "compare", ![s].vector = search[s].model]
    /\ cache' = IF search[s].at = "embed" THEN [gen |-> search[s].gen, vector |-> search[s].model] ELSE cache
    /\ UNCHANGED <<Rows, installed, workers, loop, schedule, changes, moves>>

\* vector_candidates: only rows of the generation the search began with; then it is over.
Candidates(s) == {v \in vectors : v.gen = search[s].gen /\ profile.gen = search[s].gen}
Compare(s) ==
    /\ search[s].at = "compare" /\ search' = [search EXCEPT ![s] = NoSearch]
    /\ UNCHANGED <<Rows, installed, workers, loop, schedule, cache, changes, moves>>

\* At the deadline the words alone decide (fts_fallback).
GiveUp(s) ==
    /\ search[s].at \in {"embed", "alone"} /\ search' = [search EXCEPT ![s] = NoSearch]
    /\ UNCHANGED <<Rows, installed, workers, loop, schedule, cache, changes, moves>>

Next ==
    \/ \E m \in Memories : Write(m)
    \/ \E f \in Models : Reload(f)
    \/ Restart \/ Reinstall \/ Spawn \/ Notice \/ Elapse
    \/ Activate \/ Read \/ Embed \/ Fail \/ Cleanup
    \/ \E b \in workers.batch : Put(b)
    \/ \E s \in Searches : Begin(s) \/ Answered(s) \/ Compare(s) \/ GiveUp(s)

Spec == Init /\ [][Next]_vars

----------------------------------------------------------------------------
\* Vectors that are compared were made by the same model, whatever was installed while the
\* provider answered.
SameModel ==
    /\ \A v \in vectors : v.gen = profile.gen => v.model = profile.model
    /\ \A s \in Searches : search[s].at = "compare" =>
          \A v \in Candidates(s) : v.model = search[s].vector
=============================================================================
