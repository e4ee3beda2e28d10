------------------------- MODULE CompactionSchedule -------------------------
(***************************************************************************)
(* The scheduling of compactions: run_compactions (daemon.rs) sleeps until *)
(* a notification or a deadline, so a revision that is never noticed is    *)
(* never assessed.  Writers change the rows of one Project and notify      *)
(* after they committed; the loop drains what is due, page by page, and    *)
(* asks for the next deadline in a second read.                            *)
(*                                                                         *)
(* A dirty row is fresh until its debounce passed.  The broadcast channel  *)
(* may overflow: the receiver learns only that it lagged.                  *)
(***************************************************************************)
EXTENDS Naturals, FiniteSets

CONSTANTS Memories,
          Page,       \* compactions scheduled per pass (LIMIT 10)
          MaxMoves    \* bound: writes, reloads, restarts, archivals and errors

VARIABLES
    row,       \* memory_compactions and the state of the work item each names
    owed,      \* notifications of committed transactions that are not sent yet
    channel,   \* compaction_changes: "project", "all" and "lagged"
    runtime,   \* the installed configuration compacts
    archived,  \* the Project's archived_at
    loop,      \* run_compactions: where it is, and the runtime it read
    due,       \* the Project's entry of due: none, now or later
    recover,
    missed,    \* history: the loop looked while the Project was archived
    moves

vars == <<row, owed, channel, runtime, archived, loop, due, recover, missed, moves>>

Busy(r) == r.work \in {"pending", "running"}
Clean == [dirty |-> "no", susp |-> FALSE, work |-> "none", old |-> FALSE]

Init ==
    /\ row \in [Memories -> {Clean, [Clean EXCEPT !.dirty = "ripe"]}]
    /\ owed = 0 /\ channel = {}
    /\ runtime = TRUE /\ archived = FALSE
    /\ loop = [at |-> "top", enabled |-> FALSE]
    /\ due = "none" /\ recover = TRUE /\ missed = FALSE
    /\ moves = 0

Move == moves < MaxMoves /\ moves' = moves + 1
Daemon == <<runtime, loop, due, recover, missed>>

----------------------------------------------------------------------------
(* Writers and workers *)

\* Mutant: the end of a work item notifies nobody.
OwesNothing(n) == UNCHANGED owed

Owes(n) == owed' = owed + n

\* The triggers on memories: an agent's revision is dirty; anybody else's is not.
Write(m) ==
    /\ Move
    /\ \E d \in {"fresh", "no"} :
          row' = [row EXCEPT ![m] = [@ EXCEPT !.dirty = d, !.susp = FALSE, !.old = Busy(row[m])]]
    /\ owed' = owed + 1 /\ UNCHANGED <<channel, archived, Daemon>>

\* A revision of the turn or a cancelled Job withdraws the work and notifies.
Withdraw(m) ==
    /\ Move /\ Busy(row[m])
    /\ row' = [row EXCEPT ![m].work = "cancelled"]
    /\ owed' = owed + 1 /\ UNCHANGED <<channel, archived, Daemon>>

Claim(m) ==
    /\ row[m].work = "pending"
    /\ row' = [row EXCEPT ![m].work = "running"]
    /\ UNCHANGED <<owed, channel, archived, Daemon, moves>>

\* The work is done (observed), turns out obsolete, fails for good, or waits for another try.
Finish(m) ==
    /\ row[m].work = "running"
    /\ \E to \in {"done", "failed", "pending"} :
        /\ to = "pending" => Move
        /\ to # "pending" => UNCHANGED moves
        /\ row' = [row EXCEPT ![m] = [@ EXCEPT !.work = to,
                      !.dirty = IF to = "done" /\ ~row[m].old THEN "no" ELSE @,
                      !.susp = @ \/ (to = "failed" /\ ~row[m].old)]]
    /\ Owes(1) /\ UNCHANGED <<channel, archived, Daemon>>

\* Sending on a channel that nobody empties drops the oldest entry.
Send ==
    /\ owed > 0 /\ owed' = owed - 1
    /\ channel' \in {channel \union {"project"}} \union (IF channel = {} THEN {} ELSE {{"lagged"}})
    /\ UNCHANGED <<row, archived, Daemon, moves>>

Ripen(m) ==
    /\ row[m].dirty = "fresh"
    /\ row' = [row EXCEPT ![m].dirty = "ripe"]
    /\ UNCHANGED <<owed, channel, archived, Daemon, moves>>

\* taskix archives or restores the Project: the memory service is not told.
Archive ==
    /\ Move /\ archived' = ~archived
    /\ UNCHANGED <<row, owed, channel, Daemon>>

----------------------------------------------------------------------------
(* The daemon *)

Reload ==
    /\ Move /\ runtime' = ~runtime
    /\ channel' = channel \union {"all"}
    /\ UNCHANGED <<row, owed, archived, loop, due, recover, missed>>

Restart ==
    /\ Move
    /\ owed' = 0 /\ channel' = {} /\ loop' = [at |-> "top", enabled |-> FALSE]
    /\ due' = "none" /\ recover' = TRUE /\ missed' = FALSE
    /\ UNCHANGED <<row, runtime, archived>>

Goto(p) == loop' = [loop EXCEPT !.at = p]
Kept == UNCHANGED <<owed, channel, runtime, archived>>

\* The top of the loop: without a worker the entries go, and are recovered later.
Top ==
    LET due1 == IF ~runtime THEN "none"
                ELSE IF recover /\ ~archived THEN "now" ELSE due IN
    /\ loop.at = "top"
    /\ recover' = ~runtime
    /\ loop' = [at |-> IF due1 = "now" THEN "check" ELSE "select", enabled |-> runtime]
    /\ due' = IF due1 = "now" THEN "none" ELSE due1
    /\ missed' = (missed \/ (runtime /\ recover /\ archived))
    /\ Kept /\ UNCHANGED <<row, moves>>

Check ==
    /\ loop.at = "check"
    /\ Goto(IF archived THEN "select" ELSE "schedule")
    /\ missed' = archived
    /\ Kept /\ UNCHANGED <<row, due, recover, moves>>

\* schedule_background_compaction: one page of what is ripe; a failed read is retried.
Eligible(m) == row[m].dirty = "ripe" /\ ~row[m].susp /\ ~Busy(row[m])
Schedule ==
    /\ loop.at = "schedule"
    /\ \/ \E ms \in SUBSET {m \in Memories : Eligible(m)} :
            /\ Cardinality(ms) <= Page
            /\ Cardinality(ms) < Page => ms = {m \in Memories : Eligible(m)}
            /\ row' = [m \in Memories |-> IF m \in ms
                         THEN [dirty |-> "no", susp |-> FALSE, work |-> "pending", old |-> FALSE]
                         ELSE row[m]]
            /\ Goto("next") /\ UNCHANGED <<due, moves>>
       \/ Move /\ due' = "later" /\ Goto("select") /\ UNCHANGED row
    /\ Kept /\ UNCHANGED <<recover, missed>>

\* next_compaction_at: whatever is dirty by then, later if its debounce is not over.
NextDue == \E m \in Memories : row[m].dirty # "no" /\ ~row[m].susp /\ ~Busy(row[m])
ReadNext ==
    /\ loop.at = "next"
    /\ due' = IF NextDue THEN "later" ELSE due
    /\ Goto("select") /\ Kept /\ UNCHANGED <<row, recover, missed, moves>>

\* The select: an event, or the deadline.
Receive(e) ==
    /\ loop.at = "select" /\ e \in channel
    /\ channel' = channel \ {e}
    /\ due' = IF e = "project" THEN "now" ELSE due
    /\ recover' = (recover \/ e # "project")
    /\ Goto("top") /\ UNCHANGED <<row, owed, runtime, archived, missed, moves>>
Deadline ==
    /\ loop.at = "select" /\ due = "later"
    /\ due' = "now" /\ Goto("top")
    /\ Kept /\ UNCHANGED <<row, recover, missed, moves>>

Next ==
    \/ \E m \in Memories : Write(m) \/ Withdraw(m) \/ Claim(m) \/ Finish(m) \/ Ripen(m)
    \/ Send \/ Archive \/ Reload \/ Restart
    \/ Top \/ Check \/ Schedule \/ ReadNext \/ Deadline
    \/ \E e \in {"project", "all", "lagged"} : Receive(e)

Spec == Init /\ [][Next]_vars

----------------------------------------------------------------------------
\* A revision to be assessed is never forgotten: while it waits, something will make the loop
\* look at the Project again, unless the Project was archived when it looked, or compaction is
\* switched off and will be recovered.
NoLostWakeup ==
    (\E m \in Memories : row[m].dirty # "no" /\ ~row[m].susp /\ ~Busy(row[m])) =>
        \/ due # "none" \/ channel # {} \/ owed > 0 \/ missed
        \/ recover /\ (loop.at = "top" \/ ~runtime)
        \/ loop.at \in {"check", "schedule", "next"}
=============================================================================
