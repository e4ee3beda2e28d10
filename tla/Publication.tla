---------------------------- MODULE Publication ----------------------------
(***************************************************************************)
(* How Taskix keeps the vault's documents in step with its database.       *)
(*                                                                         *)
(* A command commits its rows, the keys of the documents that show them    *)
(* and, for a deletion, a clean-up record in one SQLite transaction; then  *)
(* the process takes the vault's file lock and publishes what is pending,  *)
(* one document after another.  Several processes do this on one database  *)
(* and one vault, each may stop anywhere, and the user may move a project  *)
(* folder.  The project "p" has the jobs j1 (of issue i) and j2 with a     *)
(* task each, and the milestone m; "q" is registered later.  A row is      *)
(* [live, name, mark, up, home]: "mark" stands for every field shown on a  *)
(* document that is neither the name nor a link ("up": the milestone of i, *)
(* the dependencies of t2); for p it is "archived", and "home" the folder  *)
(* that holds the project's own folder.                                    *)
(***************************************************************************)
EXTENDS Naturals, Sequences, FiniteSets

CONSTANTS Procs,        \* processes, each with a client that repeats a lost call
          Issued,       \* the commands clients issue, each <<operation, row>>
          MaxCommands,  \* bound: commands issued
          MaxFaults,    \* bound: processes stopped, writes failed, folders renamed by the user
          Nobody

VARIABLES rows,         \* the tables
          pending,      \* pending_documents: key -> generation, 0 for no row
          registry,     \* document_registry: key -> path, <<>> for no row
          deletions,    \* document_deletions
          receipts,     \* idempotency_keys
          gen,          \* generations given out
          files,        \* the vault: path -> document
          lock,         \* holder of .taskix.lock
          pc, req, batch, key,  \* per process
          faults,
          applied,      \* history: how often each request took effect
          torn          \* history: keys whose process stopped with two files written

db == <<rows, pending, registry, deletions, receipts, gen, applied>>
vars == <<db, files, lock, pc, req, batch, key, faults, torn>>

Tasks == {"t1", "t2"}
Jobs == {"j1", "j2"}
Order == <<"board", "qboard", "base", "i", "j1", "j2", "m", "t1", "t2">>
Keys == {Order[n] : n \in 1..Len(Order)}
JobOf(t) == IF t = "t1" THEN "j1" ELSE "j2"
TasksOf(js) == {t \in Tasks : JobOf(t) \in js}
RowOf(k) == CASE k \in {"board", "base"} -> "p" [] k = "qboard" -> "q" [] OTHER -> k
Owned == {"i", "m"} \union Jobs \union Tasks       \* the rows of project p

(* naming.rs and Project::document_directory: where a document belongs. *)
Dir(r, p) == <<r[p].home, r[p].name>>
Path(r, k) ==
  LET x == RowOf(k)
  IN  <<Dir(r, IF x = "q" THEN "q" ELSE "p"), k, IF x \in {"p", "q"} THEN "" ELSE r[x].name>>

(***************************************************************************)
(* What each document shows.                                               *)
(***************************************************************************)
ProjectLink(r) == <<Dir(r, "p"), r["p"].mark>>

Link(r, k) == <<Path(r, k), r[k].name>>

JobDependencyGraph(r, j) ==
  {<<t, r[t].name, r[t].mark, Path(r, t), IF JobOf(t) = j THEN "" ELSE r[JobOf(t)].name>> :
     t \in TasksOf({j}) \union UNION {r[u].up : u \in TasksOf({j})}}

JobDocument(r, j) ==
  <<r[j], ProjectLink(r), IF j = "j1" THEN Link(r, "i") ELSE <<>>, JobDependencyGraph(r, j),
    UNION {r[t].up : t \in TasksOf({j})}>>

TaskDocument(r, t) == <<r[t], ProjectLink(r), r[JobOf(t)].name, r[JobOf(t)].mark>>

IssueDocument(r) == <<r["i"], ProjectLink(r), {Link(r, m) : m \in r["i"].up}>>

MilestoneDocument(r) ==
  <<r["m"], ProjectLink(r), IF "m" \in r["i"].up THEN <<1, r["i"].mark>> ELSE <<0, 0>>>>

BoardDocument(r, p) == r[p]

Base(r) == Dir(r, "p")

Document(r, k) ==
  CASE k = "board" -> BoardDocument(r, "p") [] k = "qboard" -> BoardDocument(r, "q")
    [] k = "base" -> Base(r) [] k = "i" -> IssueDocument(r) [] k = "m" -> MilestoneDocument(r)
    [] k \in Jobs -> JobDocument(r, k) [] OTHER -> TaskDocument(r, k)

(***************************************************************************)
(* The rows a command loads, and the rows it leaves.                       *)
(***************************************************************************)
(* A command: an operation on a row.  "rebase" is the import of a moved folder. *)
Commands ==
  ({"update"} \X (Owned \union {"p"})) \union ({"rename"} \X {"i", "m", "j1", "t1"})
    \union {<<"link", "i">>, <<"depend", "t2">>, <<"register", "q">>}
    \union ({"delete"} \X {"j1", "j2", "m", "p"})

Parents(r, s) ==
  LET js == s \union {JobOf(t) : t \in s \intersect Tasks}
      is == IF "j1" \in js THEN js \union {"i"} ELSE js
      ms == IF "i" \in is THEN is \union r["i"].up ELSE is
  IN  ms \union (IF ms \intersect Owned # {} THEN {"p"} ELSE {})

Dependents(r, s) == s \union {t \in Tasks : r[t].up \intersect s # {}}

RequestScope(r, c) ==
  LET own == Parents(r, {c[2]})
      wide == IF c[2] = "p" THEN own \union {"i", "m"} \union Jobs ELSE own
      kin == IF c \in {<<"delete", "m">>, <<"rename", "m">>} /\ "m" \in r["i"].up
             THEN wide \union {"i"} ELSE wide
      tasks == IF c[1] \in {"delete", "rebase"} THEN kin \union TasksOf(kin \intersect Jobs) ELSE kin
      back == IF c[1] = "delete" THEN Parents(r, Dependents(r, tasks)) ELSE tasks
  IN  {k \in back : r[k].live}

Removed(c) ==
  CASE c = <<"delete", "p">> -> Owned \union {"p"}
    [] c[1] = "delete" -> {c[2]} \union TasksOf({c[2]})
    [] OTHER -> {}

AvailableKey(r) == IF r["p"].live /\ r["p"].name = "a" THEN "c" ELSE "a"

CheckPendingPaths(c, name) ==
  c[1] = "register" => \A d \in deletions : <<"Projects", name>> # d.directory

Accepted(r, c) ==
  /\ r[c[2]].live = (c[1] # "register")
  /\ c[1] = "delete" => \A t \in Tasks \ Removed(c) : r[t].up \intersect Removed(c) = {}
  /\ c = <<"delete", "m">> => r["i"].up = {}
  /\ CheckPendingPaths(c, AvailableKey(r))

Toggle(x) == IF x = "a" THEN "b" ELSE "a"

Apply(r, c) ==
  CASE c[1] = "update" -> [r EXCEPT ![c[2]].mark = 1 - @]
    [] c[1] = "rename" -> [r EXCEPT ![c[2]].name = Toggle(@)]
    [] c[1] = "link" -> [r EXCEPT !["i"].up = {"m"} \ @]
    [] c[1] = "depend" -> [r EXCEPT !["t2"].up = {"t1"} \ @]
    [] c[1] = "register" -> [r EXCEPT !["q"].live = TRUE, !["q"].name = AvailableKey(r)]
    [] OTHER -> [k \in DOMAIN r |-> [r[k] EXCEPT !.live = @ /\ k \notin Removed(c)]]

(***************************************************************************)
(* The keys whose documents the difference of two states may concern.  Only*)
(* the loaded rows are compared; the tasks and the jobs that link to a row *)
(* come from the tables.                                                   *)
(***************************************************************************)
ProjectKeys(b, a, s) ==
  IF "q" \in s \/ (~b["q"].live /\ a["q"].live) THEN {"qboard"}
  ELSE IF "p" \in s /\ a["p"].live /\ a["p"] # b["p"]
  THEN {"board", "base"} \union {k \in s \intersect ({"i", "m"} \union Jobs) : a[k].live}
         \union {t \in Tasks : a[t].live}
  ELSE {}

Moved(b, a, j) == b[j].name # a[j].name \/ b[j].mark # a[j].mark \/ Path(b, j) # Path(a, j)

JobKeys(b, a, s) ==
  LET changed == {j \in s \intersect Jobs : a[j].live /\ (a[j] # b[j] \/ Path(a, j) # Path(b, j))}
  IN  changed \union (IF changed = {} THEN {} ELSE {"board"})
        \union {t \in TasksOf({j \in changed : Moved(b, a, j)}) : a[t].live}

TaskKeys(b, a, s) ==
  LET changed == {t \in s \intersect Tasks : a[t].live /\ a[t] # b[t]}
      linked == changed \union TasksOf({j \in s \intersect Jobs : a[j].live /\ Moved(b, a, j)})
      related == {JobOf(t) : t \in {u \in Tasks : a[u].live /\ a[u].up \intersect linked # {}}}
  IN  changed \union {JobOf(t) : t \in changed} \union related
        \union (IF changed = {} THEN {} ELSE {"board"})

IssueKeys(b, a, s) ==
  IF "i" \in s /\ a["i"].live /\ (a["i"] # b["i"] \/ Path(a, "i") # Path(b, "i"))
  THEN {"i", "board", "base"} \union b["i"].up \union a["i"].up
         \union (IF Link(a, "i") # Link(b, "i") /\ a["j1"].live THEN {"j1"} ELSE {})
  ELSE {}

MilestoneKeys(b, a, s) ==
  IF "m" \in s /\ a["m"].live /\ (a["m"] # b["m"] \/ Path(a, "m") # Path(b, "m"))
  THEN {"m", "board", "base"}
         \union (IF Link(a, "m") # Link(b, "m") /\ "i" \in s /\ "m" \in a["i"].up THEN {"i"} ELSE {})
  ELSE {}

RemovedKeys(b, a, s) ==
  LET gone == {k \in s : b[k].live /\ ~a[k].live}
  IN  (gone \ {"p"}) \union (IF gone \intersect (Jobs \union {"p"}) # {} THEN {"board"} ELSE {})
        \union (IF "p" \in gone THEN {"base"} ELSE {})

EnqueueChanges(b, a, s) ==
  ProjectKeys(b, a, s) \union JobKeys(b, a, s) \union TaskKeys(b, a, s) \union IssueKeys(b, a, s)
    \union MilestoneKeys(b, a, s) \union RemovedKeys(b, a, s)

(* deletion.rs and issue_store.rs: the clean-up the deletion leaves behind: the *)
(* files the registry names, the ones a row's own path may have, a directory.   *)
Cleanup(b, a, s) ==
  LET gone == {k \in s : b[k].live /\ ~a[k].live}
  IN  IF gone = {} THEN {}
      ELSE {[files |-> {registry[k] : k \in {g \in gone \ {"p", "i", "m"} : registry[g] # <<>>}},
             candidates |-> {<<Path(b, k), k>> : k \in gone \ {"p"}},
             directory |-> IF "p" \in gone THEN Dir(b, "p") ELSE <<>>]}

(* Store::persist: the rows, the clean-up and the pending keys in one commit. *)
Persist(c, after) ==
  LET s == RequestScope(rows, c)
      ks == EnqueueChanges(rows, after, s)
  IN  /\ rows' = after
      /\ gen' = gen + 1
      /\ pending' = [k \in Keys |-> IF k \in ks THEN gen + 1 ELSE pending[k]]
      /\ deletions' = deletions \union Cleanup(rows, after, s)

(***************************************************************************)
(* A process carries out its client's request.                             *)
(***************************************************************************)
Init ==
  /\ rows = [k \in Owned \union {"p", "q"} |->
               [live |-> k # "q", name |-> "a", mark |-> 0, home |-> "Projects",
                up |-> CASE k = "i" -> {"m"} [] k = "t2" -> {"t1"} [] OTHER -> {}]]
  /\ pending = [k \in Keys |-> 0]
  /\ registry = [k \in Keys |-> IF k = "qboard" THEN <<>> ELSE Path(rows, k)]
  /\ files = [f \in {Path(rows, k) : k \in Keys \ {"qboard"}} |-> <<f[2], Document(rows, f[2])>>]
  /\ deletions = {} /\ receipts = {} /\ gen = 0 /\ lock = Nobody
  /\ pc = [p \in Procs |-> "idle"]
  /\ req = [p \in Procs |-> [n |-> 0, c |-> <<>>, at |-> <<>>, then |-> ""]]
  /\ batch = [p \in Procs |-> [k \in Keys |-> 0]]
  /\ key = [p \in Procs |-> 0]
  /\ faults = 0 /\ applied = <<>> /\ torn = {}

Go(p, step) == pc' = [pc EXCEPT ![p] = step]

Request(p) ==
  /\ pc[p] = "idle" /\ Len(applied) < MaxCommands
  /\ \E c \in Issued :
       /\ rows[c[2]].live = (c[1] # "register")
       /\ req' = [req EXCEPT ![p] = [n |-> Len(applied) + 1, c |-> c, at |-> <<>>, then |-> ""]]
  /\ applied' = Append(applied, 0)
  /\ Go(p, "execute")
  /\ UNCHANGED <<rows, pending, registry, deletions, receipts, gen, files, lock, batch, key,
                 faults, torn>>

ReplayedNever(p) == FALSE

(* Store::replay: a key that was seen answers from its row. *)
Replayed(p) == req[p].n \in receipts

(* Service::execute up to its transaction.  With an issue in its scope the command runs under *)
(* the vault's lock, and taking the lock sees to the project's folder first.                  *)
Execute(p) ==
  LET under == "i" \in RequestScope(rows, req[p].c)
  IN  /\ pc[p] = "execute"
      /\ IF Replayed(p) THEN Go(p, "sync") /\ UNCHANGED lock
         ELSE IF under THEN lock = Nobody /\ lock' = p /\ Go(p, "folders")
         ELSE Go(p, "commit") /\ UNCHANGED lock
      /\ req' = [req EXCEPT ![p].then = "commit"]
      /\ UNCHANGED <<db, files, batch, key, faults, torn>>

(* Store::execute_as: the command's guards, the commit with its receipt, or the receipt of a *)
(* call that came before; a refusal ends the call.                                            *)
ExecuteAs(p) ==
  LET n == req[p].n
      c == req[p].c
  IN  /\ pc[p] = "commit"
      /\ IF Replayed(p) THEN Go(p, "sync") /\ UNCHANGED db
         ELSE IF ~Accepted(rows, c) THEN Go(p, "idle") /\ UNCHANGED db
         ELSE /\ Persist(c, Apply(rows, c))
              /\ receipts' = receipts \union {n}
              /\ applied' = [applied EXCEPT ![n] = @ + 1]
              /\ Go(p, "sync")
              /\ UNCHANGED registry
      /\ lock' = IF lock = p THEN Nobody ELSE lock
      /\ UNCHANGED <<files, req, batch, key, faults, torn>>

(***************************************************************************)
(* Publication under the lock: folders first, then clean-up, then pending. *)
(***************************************************************************)
LockOutput(p) ==
  /\ pc[p] = "sync" /\ lock = Nobody
  /\ lock' = p /\ Go(p, "folders")
  /\ req' = [req EXCEPT ![p].then = "cleanup"]
  /\ UNCHANGED <<db, files, batch, key, faults, torn>>

InDir(d) == {f \in DOMAIN files : f[1] = d}

MoveFiles(from, to) ==
  files' = [f \in {<<IF g[1] = from THEN to ELSE g[1], g[2], g[3]>> : g \in DOMAIN files} |->
              IF f[1] = to /\ <<from, f[2], f[3]>> \in DOMAIN files
              THEN files[<<from, f[2], f[3]>>] ELSE files[f]]

RebaseRegistry(r) ==
  registry' = [k \in Keys |->
                 IF registry[k] # <<>> /\ registry[k][1] = Dir(rows, "p")
                 THEN <<Dir(r, "p"), registry[k][2], registry[k][3]>> ELSE registry[k]]

(* rename: the project's rows and the registry follow the folder in one transaction. *)
Rebase(r) ==
  /\ Persist(<<"rebase", "p">>, r)
  /\ RebaseRegistry(r)
  /\ UNCHANGED <<receipts, applied>>

(* reconcile_project_folders_locked: the registered folder is gone and a sibling holds the *)
(* project's board: the user renamed it.                                                   *)
ReconcileProjectFolders(p) ==
  LET old == Dir(rows, "p")
      boards == {f \in DOMAIN files : files[f][1] = "board" /\ f[1][1] = old[1] /\ f[1] # old}
      missing == rows["p"].live /\ registry["board"] # <<>> /\ InDir(old) = {}
  IN  /\ pc[p] = "folders"
      /\ IF missing /\ boards # {}
         THEN \E f \in boards :
                IF rows["q"].live /\ rows["q"].name = f[1][2]
                THEN Go(p, "idle") /\ lock' = Nobody /\ UNCHANGED db    \* conflict
                ELSE /\ Rebase([rows EXCEPT !["p"].name = f[1][2]])
                     /\ Go(p, "relocate") /\ UNCHANGED lock
         ELSE Go(p, "relocate") /\ UNCHANGED <<db, lock>>
      /\ UNCHANGED <<files, req, batch, key, faults, torn>>

Home(r) == IF r["p"].mark = 1 THEN "Archive" ELSE "Projects"

Misplaced == rows["p"].live /\ rows["p"].home # Home(rows)

(* relocate_archived_projects_locked: the folder moves first, the rows follow in a commit of *)
(* their own; a stop in between is recognised by the board at the destination.               *)
MoveProjectFolder(p) ==
  LET old == Dir(rows, "p")
      new == <<Home(rows), rows["p"].name>>
  IN  /\ pc[p] = "relocate"
      /\ IF Misplaced /\ InDir(old) # {} /\ InDir(new) = {} THEN MoveFiles(old, new)
         ELSE UNCHANGED files
      /\ IF Misplaced /\ ((InDir(old) # {} /\ InDir(new) # {}) \/
                          (InDir(old) = {} /\ InDir(new) = {} /\ registry["board"] # <<>>))
         THEN Go(p, "idle") /\ lock' = Nobody          \* conflict: lock_output fails
         ELSE Go(p, "relocated") /\ UNCHANGED lock
      /\ UNCHANGED <<db, req, batch, key, faults, torn>>

RelocateArchivedProjects(p) ==
  /\ pc[p] = "relocated"
  /\ IF Misplaced THEN Rebase([rows EXCEPT !["p"].home = Home(rows)]) ELSE UNCHANGED db
  /\ Go(p, req[p].then)
  /\ UNCHANGED <<files, lock, req, batch, key, faults, torn>>

(* cleanup_deleted_documents: a candidate goes only if it carries the deleted identity. *)
CleanupDeletedDocuments(p) ==
  LET Doomed(d) == {f \in DOMAIN files : f \in d.files \/ <<f, files[f][1]>> \in d.candidates
                                           \/ f[1] = d.directory}
  IN  /\ pc[p] = "cleanup"
      /\ IF deletions = {} THEN /\ Go(p, "batch")
                                /\ UNCHANGED <<deletions, files>>
         ELSE \E d \in deletions :
                /\ files' = [f \in DOMAIN files \ Doomed(d) |-> files[f]]
                /\ deletions' = deletions \ {d}
                /\ UNCHANGED pc
      /\ key' = [key EXCEPT ![p] = 0]
      /\ UNCHANGED <<rows, pending, registry, receipts, gen, applied, lock, req, batch, faults, torn>>

Waiting(g, after) == {n \in 1..Len(Order) : n > after /\ g[Order[n]] # 0}
First(s) == CHOOSE n \in s : \A x \in s : n <= x

(* sync_pending: the generations are read before the documents are rendered. *)
PendingBatch(p) ==
  /\ pc[p] = "batch"
  /\ IF Waiting(pending, key[p]) = {}
     THEN Go(p, "idle") /\ lock' = Nobody /\ UNCHANGED <<batch, key>>
     ELSE /\ batch' = [batch EXCEPT ![p] = pending]
          /\ key' = [key EXCEPT ![p] = First(Waiting(pending, key[p]))]
          /\ Go(p, "render") /\ UNCHANGED lock
  /\ UNCHANGED <<db, files, req, faults, torn>>

(* The document is acknowledged or given up: the next of the batch, or another batch. *)
NextKey(p) ==
  LET rest == Waiting(batch[p], key[p])
  IN  IF rest = {} THEN Go(p, "batch") /\ UNCHANGED key
      ELSE Go(p, "render") /\ key' = [key EXCEPT ![p] = First(rest)]

(* A document of somebody else's at the destination is a conflict; so is a delivery note that *)
(* is neither where the registry nor where the row says and whose revision is not the row's.  *)
Conflict(k, f) ==
  \/ f \in DOMAIN files /\ files[f][1] # k /\ registry[k] # f
  \/ /\ k \in {"i", "m"} /\ registry[k] # <<>> /\ {registry[k], f} \intersect DOMAIN files = {}
     /\ \E g \in InDir(registry[k][1]) : files[g][1] = k /\ files[g][2][1] # rows[k]

(* render_state_locked up to the writes.  A conflict, or a read or write that fails, leaves the *)
(* key pending.                                                                                 *)
RenderState(p) ==
  LET k == Order[key[p]]
      f == Path(rows, k)
  IN  /\ pc[p] = "render"
      /\ IF rows[RowOf(k)].live
         THEN \/ /\ Conflict(k, f) /\ NextKey(p) /\ UNCHANGED <<files, faults>>
              \/ /\ faults < MaxFaults /\ faults' = faults + 1
                 /\ NextKey(p) /\ UNCHANGED files
              \/ /\ ~Conflict(k, f)
                 /\ files' = [g \in DOMAIN files \union {f} |->
                                IF g = f THEN <<k, Document(rows, k)>> ELSE files[g]]
                 /\ Go(p, "remove") /\ UNCHANGED <<key, faults>>
         ELSE Go(p, "remove") /\ UNCHANGED <<files, key, faults>>
      /\ req' = [req EXCEPT ![p].at = IF rows[RowOf(k)].live THEN f ELSE <<>>]
      /\ UNCHANGED <<db, lock, batch, torn>>

(* The file the registry names goes when the document is now elsewhere or nowhere. *)
RemoveOld(p) ==
  LET old == registry[Order[key[p]]]
  IN  /\ pc[p] = "remove"
      /\ files' = [g \in DOMAIN files \ (IF old # req[p].at THEN {old} ELSE {}) |-> files[g]]
      /\ Go(p, "acknowledge")
      /\ UNCHANGED <<db, lock, req, batch, key, faults, torn>>

AcknowledgedAlways(p, k) == TRUE

(* acknowledge_documents: the key is done only at the generation that was read. *)
Acknowledged(p, k) == pending[k] = batch[p][k]

AcknowledgeDocuments(p) ==
  LET k == Order[key[p]]
  IN  /\ pc[p] = "acknowledge"
      /\ registry' = [registry EXCEPT ![k] = req[p].at]
      /\ pending' = [pending EXCEPT ![k] = IF Acknowledged(p, k) THEN 0 ELSE @]
      /\ NextKey(p)
      /\ UNCHANGED <<rows, deletions, receipts, gen, applied, files, lock, req, batch, faults, torn>>

(***************************************************************************)
(* The environment: a process stops, its client repeats the call; the user *)
(* renames the project's folder while nobody publishes.                    *)
(***************************************************************************)
Crash(p) ==
  /\ faults < MaxFaults /\ pc[p] # "idle"
  /\ faults' = faults + 1
  /\ lock' = IF lock = p THEN Nobody ELSE lock
  /\ torn' = IF pc[p] \in {"remove", "acknowledge"} /\ registry[Order[key[p]]] # req[p].at
             THEN torn \union {Order[key[p]]} ELSE torn
  /\ Go(p, "execute")
  /\ UNCHANGED <<db, files, req, batch, key>>

RenameFolder ==
  LET old == Dir(rows, "p")
      new == <<old[1], Toggle(old[2])>>
  IN  /\ faults < MaxFaults /\ lock = Nobody
      /\ rows["p"].live /\ InDir(old) # {} /\ InDir(new) = {}
      /\ faults' = faults + 1
      /\ MoveFiles(old, new)
      /\ UNCHANGED <<db, lock, pc, req, batch, key, torn>>

Next ==
  \/ \E p \in Procs :
       \/ Request(p) \/ Execute(p) \/ ExecuteAs(p) \/ LockOutput(p) \/ ReconcileProjectFolders(p)
       \/ MoveProjectFolder(p) \/ RelocateArchivedProjects(p) \/ CleanupDeletedDocuments(p)
       \/ PendingBatch(p) \/ RenderState(p) \/ RemoveOld(p) \/ AcknowledgeDocuments(p) \/ Crash(p)
  \/ RenameFolder

Spec == Init /\ [][Next]_vars

----------------------------------------------------------------------------
(* Where the user's own move has not been imported yet. *)
Settled == rows["p"].live => InDir(Dir(rows, "p")) # {} \/ registry["board"] = <<>>

(* A document nobody still has to publish is the one its rows call for: it is where the rows *)
(* say, shows what they hold now, including what it shows of other rows, and a deleted row   *)
(* leaves no document.  It relates the keys a commit enqueues, the rows it loaded to find    *)
(* them, the generation that publication acknowledges and the clean-up of deletions.  A      *)
(* process that stops between writing a renamed document and removing its old file may leave *)
(* the first behind when the row is renamed again: there only the current one is promised.   *)
PublishedIsCurrent ==
  \A k \in Keys :
    (pending[k] = 0 /\ deletions = {} /\ Settled /\ ~Misplaced
       /\ \A p \in Procs : pc[p] \in {"remove", "acknowledge"} => Order[key[p]] # k) =>
    LET shown == {<<f, files[f][2]>> : f \in {g \in DOMAIN files : files[g][1] = k}}
        due == IF rows[RowOf(k)].live THEN {<<Path(rows, k), Document(rows, k)>>} ELSE {}
    IN  due \subseteq shown /\ (k \notin torn => shown = due)

(* A request takes effect at most once, however often its client repeats it. *)
AppliedOnce == \A n \in 1..Len(applied) : applied[n] <= 1

Documented == PublishedIsCurrent /\ AppliedOnce
============================================================================
