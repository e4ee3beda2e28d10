---------------------------- MODULE IssueContent ----------------------------
(***************************************************************************)
(* Prose of an Issue lives in the vault only, the database knows its hash; *)
(* the goal of a Milestone lives in the database and is shown in its note. *)
(* Both are written by commands and, at any moment, by the user's editor.  *)
(*                                                                         *)
(* A command that writes Issue prose puts the whole new text in a journal  *)
(* file named after the text's hash, commits the hash, and publishes later *)
(* under a second hold of the vault's lock.  Saved edits are imported when *)
(* a command or a sync next looks at the note.  A hash is modelled by the  *)
(* text it is of.  Field 1 stands for the two reviewed sections, field 2  *)
(* for the notes, which a review does not cover.                           *)
(***************************************************************************)
EXTENDS Naturals, FiniteSets

CONSTANTS Procs,        \* clients of Taskix, a process each
          Nobody,
          MaxWrites,    \* bound: commands issued and edits saved
          MaxFaults     \* bound: processes stopped

VARIABLES row,          \* the issues row: content hash, status
          legacy,       \* prose still in a row of the old format
          backup,       \* Issue Migration/<id>.md
          doc,          \* prose in the Issue's note
          journal,      \* .issue-content/: text -> hash of the text it was derived from
          receipt,      \* delivery:<issue>: the text last published
          pending,      \* pending_documents has the Issue's key
          goal, note, goalReceipt, goalPending,  \* the Milestone's row, note and keys
          lock, pc, req, \* the vault's lock and the processes
          read,         \* what a process read of the note it is about to replace
          fresh,        \* req's expected revision is still the row's
          writes, faults,
          authored,     \* history: what may be the last text of each field
          prior,        \* history: text of the old row that no note holds
          mistaken      \* history: fields whose last text was taken for the published one

Requirement == 1
Notes == 2
Goal == 3
Fields == {Requirement, Notes}
Texts == {0, 1}
Contents == Texts \X Texts
Empty == <<0, 0>>
None == <<>>
Terminal == {"done"}

issueVars == <<row, legacy, backup, doc, journal, receipt, pending>>
goalVars == <<goal, note, goalReceipt, goalPending>>
vars == <<issueVars, goalVars, lock, pc, req, read, fresh, writes, faults, authored, prior,
          mistaken>>

Staged(c) == journal[c] # None
Registered == receipt # None

(***************************************************************************)
(* projected_issue_content: the journal's text while a note has either the *)
(* journal's base or its text already; anything else is a conflict.        *)
(***************************************************************************)
\* Mutant: a note edited while its publication is pending is not noticed.
AgreesAlways(r, d) == TRUE
Agrees(r, d) == ~Staged(r.content) \/ d \in {None, journal[r.content], r.content}
Projected(r, d) == IF Staged(r.content) THEN r.content ELSE IF d = None THEN Empty ELSE d

ApplyHashes(r, c) ==
    [r EXCEPT !.content = c,
              !.status = IF @ = "review" /\ c[Requirement] # r.content[Requirement]
                         THEN "active" ELSE @]
Closed(r, c) == r.status \in Terminal /\ r.content # c

Go(p, to) == pc' = [pc EXCEPT ![p] = to]
Unlock(p) == lock' = IF lock = p THEN Nobody ELSE lock
Stop(p) == Go(p, "idle") /\ Unlock(p)
\* A process that has ended keeps nothing.
Idle == [op |-> "flush", field |-> Notes, text |-> 0, guarded |-> FALSE]
Ended(p) ==
    /\ Stop(p)
    /\ req' = [req EXCEPT ![p] = Idle]
    /\ read' = [read EXCEPT ![p] = None]
    /\ fresh' = [fresh EXCEPT ![p] = FALSE]
\* Another client's expected revision is stale once the row's revision moved.
Bump(p) == fresh' = [x \in Procs |-> IF x = p THEN fresh[x] ELSE FALSE]
BumpAll == fresh' = [x \in Procs |-> FALSE]
Wrote(f, v) ==
    /\ authored' = [authored EXCEPT ![f] = {v}]
    /\ mistaken' = mistaken \ {f}

Ops == {"create", "write", "touch", "submit", "approve", "reopen", "goal", "sync", "flush"}
OfIssue == {"write", "touch", "submit", "approve", "reopen"}
Imports(op) == op \in {"write", "touch", "sync", "goal"}

\* A client issues a command, perhaps guarded by the revision it saw.
Request(p) ==
    /\ pc[p] = "idle" /\ writes < MaxWrites
    /\ \E op \in Ops, f \in Fields, v \in Texts :
         /\ op \in OfIssue => row.status # "new"
         /\ op = "create" => row.status = "new"
         /\ op \in {"write", "create", "goal"} \/ (f = Notes /\ v = 0)
         /\ op = "goal" => f = Notes
         /\ \E g \in IF op \in {"sync", "flush"} THEN {FALSE} ELSE BOOLEAN :
              req' = [req EXCEPT ![p] = [op |-> op, field |-> f, text |-> v, guarded |-> g]]
    /\ fresh' = [fresh EXCEPT ![p] = TRUE]
    /\ read' = [read EXCEPT ![p] = None]
    /\ writes' = writes + 1
    /\ Go(p, IF req'[p].op = "flush" THEN "publish" ELSE "call")
    /\ UNCHANGED <<issueVars, goalVars, lock, faults, authored, prior, mistaken>>

(***************************************************************************)
(* lock_output, as far as prose is concerned: a row of the old format is   *)
(* exported, then journals that are not of the committed hash, or of one   *)
(* that was published, are removed.                                        *)
(***************************************************************************)
LockOutput(p) ==
    /\ pc[p] \in {"call", "publish"} /\ lock = Nobody
    /\ lock' = p
    /\ Go(p, CASE legacy # None -> IF pc[p] = "call" THEN "migrate" ELSE "migrate2"
               [] OTHER -> IF pc[p] = "call" THEN "cleanup" ELSE "cleanup2")
    /\ UNCHANGED <<issueVars, goalVars, req, read, fresh, writes, faults, authored, prior,
                   mistaken>>

\* migrate_issue_content_rows_locked, the files: a differing note keeps its text
\* and the row's goes to the backup; a missing note is written.
ExportLegacy(p) ==
    /\ pc[p] \in {"migrate", "migrate2"}
    /\ backup' = IF doc \notin {None, legacy} THEN legacy ELSE backup
    /\ doc' = IF doc = None THEN legacy ELSE doc
    /\ read' = [read EXCEPT ![p] = doc']
    /\ Go(p, IF pc[p] = "migrate" THEN "adopt" ELSE "adopt2")
    /\ UNCHANGED <<row, legacy, journal, receipt, pending, goalVars, lock, req, fresh,
                   writes, faults, authored, prior, mistaken>>

\* The same, its commit: the hashes of the note, or for a closed Issue of the old row.
MigrateIssueContent(p) ==
    LET kept == IF row.status \in Terminal THEN legacy ELSE read[p]
    IN  /\ pc[p] \in {"adopt", "adopt2"}
        /\ row' = ApplyHashes([row EXCEPT !.content = legacy], kept)
        /\ pending' = (pending \/ kept # legacy)
        /\ legacy' = None
        /\ prior' = IF read[p] = legacy THEN None ELSE prior
        /\ IF kept # legacy THEN BumpAll ELSE UNCHANGED fresh
        /\ Go(p, IF pc[p] = "adopt" THEN "cleanup" ELSE "cleanup2")
        /\ UNCHANGED <<backup, doc, journal, receipt, goalVars, lock, req, read, writes, faults,
                       authored, mistaken>>

\* The journal of a text that is the one published before, although its note, or another
\* commit in between, has gone on to another.
TakenForPublished ==
    {f \in Fields : /\ receipt = row.content /\ Staged(row.content) /\ doc # None
                    /\ row.content[f] \in authored[f] /\ doc[f] # row.content[f]}

CleanupJournals(p) ==
    [c \in Contents |-> IF c # row.content \/ receipt = c THEN None ELSE journal[c]]

Cleanup(p) ==
    /\ pc[p] \in {"cleanup", "cleanup2"}
    /\ journal' = CleanupJournals(p)
    /\ mistaken' = mistaken \union TakenForPublished
    /\ Go(p, IF pc[p] = "cleanup2" THEN "issue" ELSE
             IF Imports(req[p].op) THEN "import" ELSE "prepare")
    /\ UNCHANGED <<row, legacy, backup, doc, receipt, pending, goalVars, lock, req, read, fresh,
                   writes, faults, authored, prior>>

(***************************************************************************)
(* reconcile_issue_documents_locked and reconcile_milestone_documents_     *)
(* locked: a saved edit of a published note becomes an update of the row.  *)
(* A failed import fails the command that asked for it.                    *)
(***************************************************************************)
\* Not staged: the note's text is the Issue's; its key becomes pending.
ImportIssue(p) ==
    LET edited == Registered /\ doc # None /\ ~Staged(row.content) /\ doc # row.content
        refused == Registered /\ (~Agrees(row, doc) \/ (edited /\ Closed(row, doc)))
        prose == req[p].op = "write"
    IN  /\ IF edited /\ ~refused
           THEN /\ row' = ApplyHashes(row, doc) /\ pending' = TRUE
                \* only a command that writes no prose is carried over its own import
                /\ IF prose THEN BumpAll ELSE Bump(p)
           ELSE UNCHANGED <<row, pending, fresh>>
        /\ IF refused THEN Stop(p) ELSE Go(p, "prepare") /\ UNCHANGED lock
        /\ UNCHANGED <<goal, goalPending>>

GoalChanged == note # goal /\ note # goalReceipt
ImportMilestone(p) ==
    /\ IF GoalChanged /\ goalPending THEN Stop(p) /\ UNCHANGED <<goal, goalPending>>
       ELSE /\ goal' = IF GoalChanged THEN note ELSE goal
            /\ goalPending' = (goalPending \/ GoalChanged)
            /\ Go(p, "prepare") /\ UNCHANGED lock
    /\ UNCHANGED <<row, pending, fresh>>

Reconcile(p) ==
    /\ pc[p] = "import"
    /\ IF req[p].op = "goal" THEN ImportMilestone(p) ELSE ImportIssue(p)
    /\ UNCHANGED <<legacy, backup, doc, journal, receipt, note, goalReceipt, req, read, writes,
                   faults, authored, prior, mistaken>>

(***************************************************************************)
(* The command itself.                                                     *)
(***************************************************************************)
\* issue.apply, the part that accepts or refuses.
Accepted(p, c) ==
    LET op == req[p].op
    IN  /\ req[p].guarded => fresh[p]
        /\ CASE op = "create" -> row.status = "new"
             [] op = "write" -> ~Closed(row, c)
             [] op = "submit" -> row.status = "active"
             [] op = "approve" -> row.status = "review"
             [] op = "reopen" -> row.status \in Terminal
             [] OTHER -> TRUE

\* The text a command leaves: the projected one with its field replaced.
Drafted(p) ==
    LET base == IF req[p].op = "create" THEN Empty ELSE Projected(row, doc)
    IN  [base EXCEPT ![req[p].field] = req[p].text]

\* prepare_issue_content: everything is checked, then the journal is written.
PrepareIssueContent(p) ==
    LET op == req[p].op
        c == Drafted(p)
        prose == op \in {"write", "create"}
    IN  /\ pc[p] = "prepare"
        /\ IF op = "sync" THEN Go(p, "publish") /\ Unlock(p) /\ UNCHANGED journal
           ELSE IF (prose /\ op # "create" /\ ~Agrees(row, doc)) \/ ~Accepted(p, c)
           THEN Stop(p) /\ UNCHANGED journal
           ELSE /\ journal' = IF ~prose THEN journal
                              ELSE [journal EXCEPT ![c] = IF op = "create" THEN Empty
                                                          ELSE Projected(row, doc)]
                /\ read' = [read EXCEPT ![p] = c]
                /\ Go(p, "commit") /\ UNCHANGED lock
        /\ IF pc'[p] # "commit" THEN UNCHANGED read ELSE TRUE
        \* from here on the text may reach the note although its commit fails
        /\ authored' = IF prose /\ pc'[p] = "commit"
                       THEN [authored EXCEPT ![req[p].field] = @ \union {req[p].text}]
                       ELSE authored
        /\ UNCHANGED <<row, legacy, backup, doc, receipt, pending, goalVars, req, fresh, writes,
                       faults, prior, mistaken>>

\* issue.apply, the new row.
Applied(p) ==
    LET op == req[p].op
    IN  CASE op = "create" -> [content |-> read[p], status |-> "active"]
          [] op = "write" -> ApplyHashes(row, read[p])
          [] op = "submit" -> [row EXCEPT !.status = "review"]
          [] op = "approve" -> [row EXCEPT !.status = "done"]
          [] op = "reopen" -> [row EXCEPT !.status = "active"]
          [] OTHER -> row

ExecuteAs(p) ==
    /\ pc[p] = "commit"
    /\ IF req[p].op = "goal"
       THEN /\ goal' = req[p].text /\ goalPending' = TRUE
            /\ Wrote(Goal, req[p].text)
            /\ UNCHANGED <<row, pending, fresh>>
       ELSE /\ row' = Applied(p) /\ pending' = TRUE
            /\ IF req[p].op \in {"write", "create"} THEN Wrote(req[p].field, req[p].text)
               ELSE UNCHANGED <<authored, mistaken>>
            /\ Bump(p)
            /\ UNCHANGED <<goal, goalPending>>
    /\ Unlock(p) /\ Go(p, "publish")
    /\ UNCHANGED <<legacy, backup, doc, journal, receipt, note, goalReceipt, req, read, writes,
                   faults, prior>>

(***************************************************************************)
(* sync_pending: the Issue's note, then the Milestone's.                   *)
(***************************************************************************)
\* issue_document: a staged text must fit the note, any other note keeps its body.
RenderIssue(p) ==
    /\ pc[p] = "issue"
    /\ IF pending /\ row.status # "new" /\ Agrees(row, doc)
       THEN /\ read' = [read EXCEPT ![p] = Projected(row, doc)] /\ Go(p, "write")
       ELSE Go(p, "goal") /\ UNCHANGED read
    /\ UNCHANGED <<issueVars, goalVars, lock, req, fresh, writes, faults, authored, prior,
                   mistaken>>

WriteIssue(p) ==
    /\ pc[p] = "write"
    /\ doc' = read[p] /\ Go(p, "acknowledge")
    /\ UNCHANGED <<row, legacy, backup, journal, receipt, pending, goalVars, lock, req, read,
                   fresh, writes, faults, authored, prior, mistaken>>

AcknowledgeIssue(p) ==
    /\ pc[p] = "acknowledge"
    /\ receipt' = row.content /\ pending' = FALSE
    /\ Go(p, "discard")
    /\ UNCHANGED <<row, legacy, backup, doc, journal, goalVars, lock, req, read, fresh, writes,
                   faults, authored, prior, mistaken>>

DiscardJournal(p) ==
    /\ pc[p] = "discard"
    /\ journal' = [journal EXCEPT ![row.content] = None]
    /\ Go(p, "goal")
    /\ UNCHANGED <<row, legacy, backup, doc, receipt, pending, goalVars, lock, req, read, fresh,
                   writes, faults, authored, prior, mistaken>>

\* render_pending_document imports a Milestone's note before it is replaced.
RenderMilestone(p) ==
    /\ pc[p] = "goal"
    /\ IF goalPending /\ ~GoalChanged
       THEN note' = goal /\ Go(p, "receipt") /\ UNCHANGED <<lock, req, read, fresh>>
       ELSE Ended(p) /\ UNCHANGED note
    /\ UNCHANGED <<issueVars, goal, goalReceipt, goalPending, writes, faults, authored, prior,
                   mistaken>>

AcknowledgeMilestone(p) ==
    /\ pc[p] = "receipt"
    /\ goalReceipt' = goal /\ goalPending' = FALSE
    /\ Ended(p)
    /\ UNCHANGED <<issueVars, goal, note, writes, faults, authored, prior, mistaken>>

(***************************************************************************)
(* The editor and stops.                                                   *)
(***************************************************************************)
\* A save between a process's read of the note and its write may be lost.
Racing(pcs) == \E p \in Procs : pc[p] \in pcs
Saved(f, v, racing) ==
    authored' = [authored EXCEPT ![f] = {v} \union (IF racing THEN @ ELSE {})]
\* A note put back to the text the row's replaces is taken for one nobody touched.
PutBack(f, back, racing) ==
    mistaken' = IF back THEN mistaken \union {f} ELSE IF racing THEN mistaken ELSE mistaken \ {f}

SaveIssue ==
    /\ writes < MaxWrites /\ doc # None
    /\ \E f \in Fields, v \in Texts :
         /\ doc[f] # v
         /\ doc' = [doc EXCEPT ![f] = v]
         /\ LET racing == Racing({"prepare", "commit", "write"})
            IN  /\ PutBack(f, Staged(row.content) /\ doc' = journal[row.content], racing)
                /\ Saved(f, v, racing)
    /\ writes' = writes + 1
    /\ UNCHANGED <<row, legacy, backup, journal, receipt, pending, goalVars, lock, pc, req, read,
                   fresh, faults, prior>>

SaveMilestone ==
    /\ writes < MaxWrites
    /\ \E v \in Texts :
         /\ v # note
         /\ note' = v
         /\ LET racing == Racing({"prepare", "commit"})
            IN  /\ PutBack(Goal, v = goalReceipt /\ v # goal, racing)
                /\ Saved(Goal, v, racing)
    /\ writes' = writes + 1
    /\ UNCHANGED <<issueVars, goal, goalReceipt, goalPending, lock, pc, req, read, fresh, faults,
                   prior>>

Crash(p) ==
    /\ pc[p] # "idle" /\ faults < MaxFaults
    /\ faults' = faults + 1
    /\ Ended(p)
    /\ UNCHANGED <<issueVars, goalVars, writes, authored, prior, mistaken>>

\* A new Project, or one whose Issue is still in the old format.
Init ==
    /\ \/ row = [content |-> Empty, status |-> "new"] /\ legacy = None /\ doc = None
       \/ /\ row \in {[content |-> Empty, status |-> s] : s \in {"active", "review", "done"}}
          /\ legacy = <<1, 0>>
          /\ doc \in {None, legacy, <<0, 1>>}
    /\ backup = None
    /\ receipt = IF legacy # None /\ doc # None THEN legacy ELSE None
    /\ prior = legacy
    /\ journal = [c \in Contents |-> None] /\ pending = FALSE
    /\ goal = 0 /\ note = 0 /\ goalReceipt = 0 /\ goalPending = FALSE
    /\ lock = Nobody
    /\ pc = [p \in Procs |-> "idle"]
    /\ req = [p \in Procs |-> Idle]
    /\ read = [p \in Procs |-> None]
    /\ fresh = [p \in Procs |-> FALSE]
    /\ writes = 0 /\ faults = 0 /\ mistaken = {}
    /\ authored = [f \in Fields \union {Goal} |->
                     IF f = Goal THEN {0} ELSE IF doc # None THEN {doc[f]}
                     ELSE IF legacy # None THEN {legacy[f]} ELSE {0}]

Steps(p) ==
    \/ LockOutput(p) \/ ExportLegacy(p) \/ MigrateIssueContent(p) \/ Cleanup(p)
    \/ Reconcile(p) \/ PrepareIssueContent(p) \/ ExecuteAs(p)
    \/ RenderIssue(p) \/ WriteIssue(p) \/ AcknowledgeIssue(p) \/ DiscardJournal(p)
    \/ RenderMilestone(p) \/ AcknowledgeMilestone(p)

Next ==
    \/ \E p \in Procs : Request(p) \/ Steps(p) \/ Crash(p)
    \/ SaveIssue \/ SaveMilestone

Spec == Init /\ [][Next]_vars

(***************************************************************************)
(* Properties.                                                             *)
(***************************************************************************)
TextOf(f) ==
    IF f = Goal THEN {goal, note}
    ELSE {IF legacy # None THEN legacy[f] ELSE 0} \union
         (IF doc # None THEN {doc[f]} ELSE {}) \union
         (IF Staged(row.content) THEN {row.content[f]} ELSE {})

(* Text that somebody wrote last, by a command that was committed or by saving the note,    *)
(* is in the note or in the journal that a later publication puts into it, and text that a  *)
(* migrated row held and the note does not is in its backup: neither a stop between commit  *)
(* and publication nor an import in between loses it.  A text is known by its hash only, so *)
(* one that restores what was published before can be taken for that: the journal of such a *)
(* commit is removed as delivered (cleanup_issue_content_journals_locked) although the note *)
(* holds a later text, and a note put back to what a pending publication replaces counts as *)
(* untouched.  These texts, and only these, are lost.                                       *)
AuthoredKept ==
    /\ \A f \in DOMAIN authored :
         \/ f \in mistaken \/ (f \in Fields /\ row.status = "new")
         \/ authored[f] \intersect TextOf(f) # {}
    /\ prior \in {None, legacy, backup}
=============================================================================
