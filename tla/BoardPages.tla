----------------------------- MODULE BoardPages -----------------------------
(***************************************************************************)
(* The lists of the task board, shown one page at a time                   *)
(* (agentix-core/src/engine/task_board/browse.rs, task_board/issues.rs,    *)
(* issue_flows.rs, agentix-task/src/browse_page.rs).                       *)
(*                                                                         *)
(* A card shows a page of a list and carries buttons to the pages next to  *)
(* it.  The list grows and shrinks while the card waits, so a button may   *)
(* lead beyond its end.  The rows are numbered from 0; what they say, the  *)
(* filters (each is a list of its own) and the other buttons are left out. *)
(***************************************************************************)
EXTENDS Naturals, FiniteSetsExt

CONSTANTS
    PageSize,
    MarkdownPages,      \* pages the text of a Job takes
    MaxItems,           \* bound on the rows of a list
    None

VARIABLES
    count,              \* rows of the list
    card,               \* the card: [kind, page, pages, rows, total, prev, next]
    reading             \* a list read again because its page was past the end

vars == <<count, card, reading>>

Kinds == {"dashboard", "legacy", "projects", "board", "jobs", "session_jobs", "job",
          "issues", "issue_jobs", "milestones", "issue_milestones", "sessions", "choices"}

Init == count \in 0..MaxItems /\ card = None /\ reading = None

----------------------------------------------------------------------------
DivCeil(n) == (n + PageSize - 1) \div PageSize
PageCount(n) == Max({DivCeil(n), 1})
Rows(offset) == {i \in 0..MaxItems - 1 : offset <= i /\ i < offset + PageSize /\ i < count}

\* page_bounds: the page asked for, or the last one.
PageBounds(page, least) ==
    LET pages == Max({DivCeil(count), least, 1})
        p == Min({page, pages - 1})
    IN  [page |-> p, pages |-> pages, rows |-> Rows(Min({p * PageSize, count}))]

\* add_browse_actions.
\* Mutant: the last page offers a next one.
BrowseActionsBeyond(kind, b) ==
    [kind |-> kind, page |-> b.page, pages |-> b.pages, rows |-> b.rows, total |-> count,
     prev |-> b.page > 0, next |-> b.page + 1 <= b.pages]
BrowseActions(kind, b) ==
    [kind |-> kind, page |-> b.page, pages |-> b.pages, rows |-> b.rows, total |-> count,
     prev |-> b.page > 0, next |-> b.page + 1 < b.pages]

Draw(c) == card' = c /\ reading' = None /\ UNCHANGED count
Again(kind, page) == reading' = [kind |-> kind, page |-> page] /\ UNCHANGED <<count, card>>

\* The rows are read before they are cut into pages.
Listed(page) ==
    LET p == Min({page, PageCount(count) - 1})
    IN  [page |-> p, pages |-> PageCount(count), rows |-> Rows(p * PageSize)]
ShowDashboard(page) == Draw(BrowseActions("dashboard", Listed(page)))
ShowLegacyTasks(page) == Draw(BrowseActions("legacy", Listed(page)))
ShowIssueProjects(page) == Draw(BrowseActions("projects", Listed(page)))

\* The database cuts the page.
BrowseTaskPage(page, least) == PageBounds(page, least)
ProjectJobPage(page) == PageBounds(page, 1)
SessionJobPage(page) == PageBounds(page, 1)
MilestonePage(page) == PageBounds(page, 1)
ShowBoard(page) == Draw(BrowseActions("board", BrowseTaskPage(page, 1)))
ShowProjectJobs(page) == Draw(BrowseActions("jobs", ProjectJobPage(page)))
ShowSessionJobs(page) == Draw(BrowseActions("session_jobs", SessionJobPage(page)))
ShowJob(page) == Draw(BrowseActions("job", BrowseTaskPage(page, MarkdownPages)))
ShowMilestones(page) == Draw(BrowseActions("milestones", MilestonePage(page)))
ShowIssueMilestones(page) == Draw(BrowseActions("issue_milestones", MilestonePage(page)))

\* The page is read at its offset; past the end, the last page is read instead.
Offset(page) ==
    [page |-> Min({page, PageCount(count) - 1}), pages |-> PageCount(count),
     rows |-> Rows(page * PageSize)]
ShowIssues(page) ==
    LET b == Offset(page) IN
    IF page > 0 /\ b.rows = {} THEN Again("issues", b.page) ELSE Draw(BrowseActions("issues", b))
ShowIssueJobs(page) ==
    LET b == Offset(page) IN
    IF page > 0 /\ b.rows = {} THEN Again("issue_jobs", b.page)
    ELSE Draw(BrowseActions("issue_jobs", b))

\* The sessions are counted while they are listed, and the page is taken as it is.
ShowIssueSessions(page) ==
    Draw([kind |-> "sessions", page |-> page, pages |-> None, rows |-> Rows(page * PageSize),
          total |-> count, prev |-> page > 0, next |-> (page + 1) * PageSize < count])
\* Several active Jobs: past the end, the choice starts from the first page.
ShowIssueJobChoices(page) ==
    IF page > 0 /\ Rows(page * PageSize) = {} THEN Again("choices", 0)
    ELSE Draw([kind |-> "choices", page |-> page, pages |-> None, rows |-> Rows(page * PageSize),
               total |-> count, prev |-> page > 0, next |-> (page + 1) * PageSize < count])

Show(kind, page) ==
    \/ kind = "dashboard" /\ ShowDashboard(page)
    \/ kind = "legacy" /\ ShowLegacyTasks(page)
    \/ kind = "projects" /\ ShowIssueProjects(page)
    \/ kind = "board" /\ ShowBoard(page)
    \/ kind = "jobs" /\ ShowProjectJobs(page)
    \/ kind = "session_jobs" /\ ShowSessionJobs(page)
    \/ kind = "job" /\ ShowJob(page)
    \/ kind = "milestones" /\ ShowMilestones(page)
    \/ kind = "issue_milestones" /\ ShowIssueMilestones(page)
    \/ kind = "issues" /\ ShowIssues(page)
    \/ kind = "issue_jobs" /\ ShowIssueJobs(page)
    \/ kind = "sessions" /\ ShowIssueSessions(page)
    \/ kind = "choices" /\ ShowIssueJobChoices(page)

----------------------------------------------------------------------------
Open(kind) == reading = None /\ Show(kind, 0)
Turn ==
    /\ reading = None /\ card # None
    /\ \/ card.prev /\ Show(card.kind, card.page - 1)
       \/ card.next /\ Show(card.kind, card.page + 1)
ReadAgain ==
    /\ reading # None
    /\ \/ reading.kind = "issues" /\ ShowIssues(reading.page)
       \/ reading.kind = "issue_jobs" /\ ShowIssueJobs(reading.page)
       \/ reading.kind = "choices" /\ ShowIssueJobChoices(reading.page)
\* Rows come and go.
Change ==
    /\ count' \in 0..MaxItems /\ count' # count
    /\ UNCHANGED <<card, reading>>

Next == Turn \/ ReadAgain \/ Change \/ \E kind \in Kinds : Open(kind)

\* Whatever page was asked for and however the list changed since, a card of a
\* list with rows shows some of them, and a button forward is on it exactly when
\* rows follow (page_bounds, show_issues, show_issue_job_choices).  The exceptions
\* are the code's: the pages of a Job that hold only its text, and the list of
\* sessions, which is not cut to its end.
PagesLead ==
    card # None =>
       /\ card.kind \notin {"job", "sessions"} /\ card.total > 0 => card.rows # {}
       /\ card.kind # "job" => (card.next <=> (card.page + 1) * PageSize < card.total)
       /\ card.prev <=> card.page > 0
       /\ \A i \in card.rows : i < card.total /\ i \div PageSize = card.page
=============================================================================
