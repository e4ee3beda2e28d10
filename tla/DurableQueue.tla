---------------------------- MODULE DurableQueue ----------------------------
(***************************************************************************)
(* queue.mjs: the delivery state a terminal extension keeps on disk.       *)
(*                                                                         *)
(* Every change is appended to the journal before it takes effect, so a    *)
(* value of this type is also what a process that starts again finds.      *)
(* Receipts moved to the archive are still found: "receipts" holds both.   *)
(***************************************************************************)
EXTENDS Sequences

CONSTANT None

NewQueue == [items |-> <<>>, paused |-> FALSE, inflight |-> None, uncertain |-> None,
             receipts |-> {}, failures |-> {}]

Peek(q) == IF q.paused \/ q.inflight # None \/ q.items = <<>> THEN None ELSE Head(q.items)
Enqueue(q, m) ==
    IF m \in q.receipts THEN q
    ELSE [q EXCEPT !.items = Append(@, m), !.receipts = @ \union {m}]
Claim(q) == [q EXCEPT !.items = Tail(@), !.inflight = Head(q.items)]
Remember(q, m) == [q EXCEPT !.receipts = @ \union {m}, !.inflight = m]
Finished(q, interrupted) == [q EXCEPT !.inflight = None, !.paused = @ \/ interrupted]
MarkUncertain(q) == [q EXCEPT !.uncertain = q.inflight, !.paused = TRUE]
Fail(q, m) == [MarkUncertain(q) EXCEPT !.failures = @ \union {m}]
Pause(q) == [q EXCEPT !.paused = TRUE]
Resume(q) == IF q.uncertain # None THEN q ELSE [q EXCEPT !.paused = FALSE]
Clear(q, idle) == [q EXCEPT !.items = <<>>, !.uncertain = None, !.paused = FALSE,
                            !.inflight = IF idle THEN None ELSE @]

\* Mutant: a delivery that was under way when the process stopped is tried again.
RestoreAgain(q) ==
    IF q.inflight = None THEN q ELSE [q EXCEPT !.items = <<q.inflight>> \o @, !.inflight = None]
\* DurableQueue.restore and the constructor: what was under way is uncertain now.
Restore(q) ==
    LET lost == IF q.uncertain # None THEN q.uncertain ELSE q.inflight
    IN  [q EXCEPT !.uncertain = lost, !.paused = @ \/ lost # None]
=============================================================================
