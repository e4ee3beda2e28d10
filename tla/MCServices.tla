----------------------------- MODULE MCServices -----------------------------
(***************************************************************************)
(* The components that were modelled on their own, side by side: a         *)
(* behaviour is about one of them, chosen at the start (part), and leaves  *)
(* the rest alone.  CodexClient, Notifications and CardWrites keep the     *)
(* names of their variables; v1, v2, ... are those of any other component. *)
(***************************************************************************)
EXTENDS CodexClient, Notifications, CardWrites

CONSTANTS
    a1, a2

VARIABLES
    part,
    v1, v2, v3, v4, v5, v6, v7, v8, v9, v10, v11, v12, v13, v14, v15, v16,
    v17, v18, v19, v20, v21, v22, v23, v24, v25, v26

slots == <<
    v1, v2, v3, v4, v5, v6, v7, v8, v9, v10, v11, v12, v13, v14, v15, v16,
    v17, v18, v19, v20, v21, v22, v23, v24, v25, v26>>
allVars == <<part, slots, vars, cardVars, outboxVars>>

\* A job renamed, the project deleted and one registered.
MCIssued == {<<"rename", "j1">>, <<"delete", "p">>, <<"register", "q">>}

\* Edits of the configuration: another key and agent, another bot, an owner, and two
\* that need a restart.
MCBase == [bot |-> "b", key |-> 1, owners |-> {}, agents |-> {"pi"}, codex |-> 1, fixed |-> 1]
MCConfigs ==
    {MCBase, [MCBase EXCEPT !.key = 2, !.agents = {"pi", "omp"}], [MCBase EXCEPT !.bot = "other"],
     [MCBase EXCEPT !.owners = {"p"}], [MCBase EXCEPT !.codex = 2],
     [MCBase EXCEPT !.fixed = 2, !.owners = {"p"}]}

\* Two conversations that have not browsed, one that has come to a level, and two
\* before the agents of one pane.
MCBrowsed ==
    {[x \in {a1, a2} |-> IF x = a1 THEN level ELSE "none"] :
        level \in {"none", "root", "session", "window"}}
    \cup {[x \in {a1, a2} |-> "agents"]}

I == INSTANCE Interactions WITH
           Conversations <- {a1, a2}, Questions <- {"q"}, Approvals <- {"p"},
           Dialogs <- {"d"}, Parts <- 2, MaxRequests <- 2, MaxMoves <- 2,
           MaxFaults <- 1, native <- v1, seen <- v2, route <- v3, net <- v4,
           queued <- v5, noticed <- v6, pend <- v7, acts <- v8, reply <- v9,
           at <- v10, epoch <- v11, drops <- v12, moves <- v13, faults <- v14,
           answers <- v15, undrawn <- v16, lost <- v17
F == INSTANCE BoardFlows WITH
           Owners <- {a1}, Writers <- {a1, a2}, Sessions <- {"s1", "s2"},
           MaxRevision <- 1, MaxMoves <- 2, at <- v1, epoch <- v2, gen <- v3,
           wgen <- v4, task <- v5, issue <- v6, cards <- v7, input <- v8,
           draft <- v9, exec <- v10, attaching <- v11, pane <- v12,
           moves <- v13, last <- v14, asked <- v15
G == INSTANCE BoardPages WITH
           PageSize <- 2, MarkdownPages <- 2, MaxItems <- 5, None <- Nobody,
           count <- v1, card <- v2, reading <- v3
P == INSTANCE Publication WITH
           Procs <- {a1, a2}, Issued <- MCIssued, MaxCommands <- 2,
           MaxFaults <- 1, rows <- v1, pending <- v2, registry <- v3,
           deletions <- v4, receipts <- v5, gen <- v6, files <- v7,
           lock <- v8, pc <- v9, req <- v10, batch <- v11, key <- v12,
           faults <- v13, applied <- v14, torn <- v15
D == INSTANCE IssueContent WITH
           Procs <- {a1, a2}, MaxWrites <- 2, MaxFaults <- 1, row <- v1,
           legacy <- v2, backup <- v3, doc <- v4, journal <- v5,
           receipt <- v6, pending <- v7, goal <- v8, note <- v9,
           goalReceipt <- v10, goalPending <- v11, lock <- v12, pc <- v13,
           req <- v14, read <- v15, fresh <- v16, writes <- v17,
           faults <- v18, authored <- v19, prior <- v20, mistaken <- v21
B == INSTANCE Bridge WITH
           None <- Nobody, Prompts <- {"p"}, Queued <- {"w"}, MaxSockets <- 2,
           MaxMoves <- 1, MaxCalls <- 2, MaxFaults <- 1, up <- v1, inst <- v2,
           idle <- v3, version <- v4, sock <- v5, registered <- v6,
           sequence <- v7, chain <- v8, sending <- v9, queue <- v10,
           toHub <- v11, toHost <- v12, cut <- v13, entry <- v14,
           reserved <- v15, waiting <- v16, resumed <- v17, reading <- v18,
           known <- v19, told <- v20, calls <- v21, moves <- v22,
           faults <- v23, sent <- v24, thrown <- v25
O == INSTANCE OpenCodeHost WITH
           None <- Nobody, Sessions <- {"s1", "s2"}, First <- "s1",
           Prompts <- {"p"}, Queued <- {"w"}, Asks <- {"a"}, MaxMoves <- 2,
           MaxFaults <- 1, running <- v1, log <- v2, asks <- v3,
           transit <- v4, route <- v5, session <- v6, inst <- v7, get <- v8,
           seed <- v9, switching <- v10, link <- v11, events <- v12,
           turn <- v13, active <- v14, announced <- v15, pending <- v16,
           queue <- v17, sends <- v18, fin <- v19, replay <- v20, pump <- v21,
           shown <- v22, handed <- v23, asked <- v24, moves <- v25,
           faults <- v26
H == INSTANCE ClaudeHost WITH
           Messages <- {"m1", "m2"}, MaxMoves <- 3, MaxFaults <- 1,
           channel <- v1, composer <- v2, running <- v3, line <- v4,
           inbox <- v5, mail <- v6, receipts <- v7, disk <- v8, waiters <- v9,
           active <- v10, sends <- v11, told <- v12, entered <- v13,
           reached <- v14, mixed <- v15, moves <- v16, faults <- v17
M == INSTANCE MemoryRecords WITH
           MaxRecords <- 3, MaxWork <- 3, MaxMoves <- 2, recs <- v1,
           suppressed <- v2, revoked <- v3, outdated <- v4, work <- v5,
           lease <- v6, seen <- v7, dropped <- v8, authored <- v9,
           exempt <- v10, kept <- v11, moves <- v12
E == INSTANCE EmbeddingIndex WITH
           Memories <- {a1, a2}, Models <- {"A", "B"}, First <- "A",
           Searches <- {"s"}, MaxMoves <- 3, memory <- v1, profile <- v2,
           vectors <- v3, failures <- v4, installed <- v5, workers <- v6,
           loop <- v7, schedule <- v8, cache <- v9, search <- v10,
           changes <- v11, moves <- v12
K == INSTANCE CompactionSchedule WITH
           Memories <- {a1, a2}, Page <- 1, MaxMoves <- 2, row <- v1,
           owed <- v2, channel <- v3, runtime <- v4, archived <- v5,
           loop <- v6, due <- v7, recover <- v8, missed <- v9, moves <- v10
N == INSTANCE MemoryNotes WITH
           MaxInodes <- 5, MaxEdits <- 2, MaxRev <- 2, MaxFaults <- 1,
           text <- v1, name <- v2, recovery <- v3, editor <- v4, edits <- v5,
           latest <- v6, rev <- v7, prepared <- v8, published <- v9,
           failed <- v10, sync <- v11, pass <- v12, faults <- v13
T == INSTANCE BackgroundCompletions WITH
           Turns <- {"t1", "t2"}, Capacity <- 2, Concurrency <- 1,
           Recent <- 1, MaxEvents <- 3, MaxMoves <- 1, MaxFaults <- 1,
           closed <- v1, waiting <- v2, running <- v3, recent <- v4,
           job <- v5, card <- v6, notified <- v7, handler <- v8, scope <- v9,
           sends <- v10, clicks <- v11, evicted <- v12, events <- v13,
           moves <- v14, faults <- v15
V == INSTANCE Discussions WITH
           Turns <- {"t1", "t2"}, Jobs <- {"j1", "j2"},
           Parts <- {<<1>>, <<1, 2>>, <<2>>, <<>>}, MaxWrites <- 5,
           turn <- v1, next <- v2, revision <- v3, old <- v4, conv <- v5,
           choice <- v6
J == INSTANCE Routing WITH
           Jobs <- {"j1", "j2"}, Limit <- 2, MaxTurns <- 2, MaxMoves <- 1,
           job <- v1, task <- v2, issue <- v3, lease <- v4, turn <- v5,
           receipt <- v6, ready <- v7, route <- v8, acted <- v9, quiet <- v10,
           moves <- v11
S == INSTANCE TaskExtension WITH
           Sessions <- {"s1", "s2"}, MaxStarts <- 2, MaxTurns <- 1,
           MaxFaults <- 1, st <- v1, active <- v2, tasks <- v3, timers <- v4,
           stopped <- v5, late <- v6, turns <- v7, faults <- v8
Q == INSTANCE TaskPlugin WITH
           Prompts <- {"m1", "m2"}, MaxCalls <- 2, MaxFaults <- 2,
           place <- v1, transcript <- v2, running <- v3, events <- v4,
           plugin <- v5, trimming <- v6, saved <- v7, misled <- v8,
           whole <- v9, routed <- v10, calls <- v11, faults <- v12
R == INSTANCE Reload WITH
           People <- {"p", "q"}, Configs <- MCConfigs, First <- MCBase,
           QueueLimit <- 2, MaxMoves <- 4, MaxAdapters <- 3, file <- v1,
           service <- v2, adapters <- v3, tasks <- v4, identity <- v5,
           call <- v6, inbound <- v7, received <- v8, handled <- v9,
           code <- v10, claim <- v11, codes <- v12, redeemed <- v13,
           claimed <- v14, cut <- v15, builds <- v16, moves <- v17
W == INSTANCE AgentRegistry WITH
           Backends <- {"a", "b"}, Own <- "a", Clients <- {"c1", "c2"},
           Dialogs <- {"d"}, MaxAsks <- 1, MaxMoves <- 3, asked <- v1,
           asks <- v2, stream <- v3, routes <- v4, routing <- v5,
           client <- v6, screen <- v7, observed <- v8, switches <- v9,
           seen <- v10, pending <- v11, inspection <- v12, response <- v13,
           held <- v14, shown <- v15, lost <- v16, went <- v17, tokens <- v18,
           moves <- v19
X == INSTANCE Workspaces WITH
           Conversations <- {a1, a2}, Agents <- {"codex", "pi"},
           Drivers <- {"tmux", "rmux", "rex"}, Browsed <- MCBrowsed,
           None <- Nobody, MaxPanes <- 2, MaxLists <- 3, MaxMoves <- 1,
           MaxFaults <- 1, driver <- v1, panes <- v2, agents <- v3,
           selected <- v4, bound <- v5, lists <- v6, op <- v7, moves <- v8,
           faults <- v9, harmed <- v10, left <- v11, astray <- v12
Z == INSTANCE TerminalControl WITH
           None <- Nobody, Drafts <- {"mine"}, Polls <- {TRUE, FALSE},
           MaxLooks <- 4, MaxMoves <- 3, cli <- v1, keys <- v2, owners <- v3,
           wanted <- v4, card <- v5, offered <- v6, polls <- v7, op <- v8,
           moves <- v9, harmed <- v10
Y == INSTANCE SessionCommands WITH
           First <- "s1", Other <- "s2", Fresh <- {"t1", "t2"},
           HostCommands <- {"model", "rename", "queue_control"},
           None <- Nobody, MaxMessages <- 2, MaxMoves <- 3, running <- v1,
           turns <- v2, events <- v3, readOnly <- v4, bound <- v5,
           active <- v6, subscriptions <- v7, pendingResumes <- v8,
           buttons <- v9, question <- v10, offered <- v11, inbox <- v12,
           said <- v13, work <- v14, moves <- v15, carried <- v16,
           repeated <- v17, made <- v18, adopted <- v19, halfway <- v20,
           told <- v21

\* A component runs alone: the variables it does not have stay as they are.
OfCodexClient(A) == part = "codex" /\ A /\ UNCHANGED <<part, slots, cardVars, outboxVars>>
OfInteractions(A) ==
    /\ part = "interactions" /\ A
    /\ UNCHANGED <<
           part, v18, v19, v20, v21, v22, v23, v24, v25, v26, vars, cardVars,
           outboxVars>>
OfBoardFlows(A) ==
    /\ part = "flows" /\ A
    /\ UNCHANGED <<
           part, v16, v17, v18, v19, v20, v21, v22, v23, v24, v25, v26, vars,
           cardVars, outboxVars>>
OfBoardPages(A) ==
    /\ part = "pages" /\ A
    /\ UNCHANGED <<
           part, v4, v5, v6, v7, v8, v9, v10, v11, v12, v13, v14, v15, v16,
           v17, v18, v19, v20, v21, v22, v23, v24, v25, v26, vars, cardVars,
           outboxVars>>
OfPublication(A) ==
    /\ part = "publication" /\ A
    /\ UNCHANGED <<
           part, v16, v17, v18, v19, v20, v21, v22, v23, v24, v25, v26, vars,
           cardVars, outboxVars>>
\* The two clients are alike, so that one which is alone is the first.
OfIssueContent(A) ==
    /\ part = "content" /\ A /\ (v17' < 2 => v13'[a2] = "idle")
    /\ UNCHANGED <<
           part, v22, v23, v24, v25, v26, vars, cardVars, outboxVars>>
OfBridge(A) == part = "bridge" /\ A /\ UNCHANGED <<part, v26, vars, cardVars, outboxVars>>
OfOpenCodeHost(A) ==
    /\ part = "opencode" /\ A
    /\ UNCHANGED <<
           part, vars, cardVars, outboxVars>>
OfClaudeHost(A) ==
    /\ part = "claude" /\ A
    /\ UNCHANGED <<
           part, v18, v19, v20, v21, v22, v23, v24, v25, v26, vars, cardVars,
           outboxVars>>
OfMemoryRecords(A) ==
    /\ part = "records" /\ A
    /\ UNCHANGED <<
           part, v13, v14, v15, v16, v17, v18, v19, v20, v21, v22, v23, v24,
           v25, v26, vars, cardVars, outboxVars>>
OfEmbeddingIndex(A) ==
    /\ part = "embedding" /\ A
    /\ UNCHANGED <<
           part, v13, v14, v15, v16, v17, v18, v19, v20, v21, v22, v23, v24,
           v25, v26, vars, cardVars, outboxVars>>
OfCompactionSchedule(A) ==
    /\ part = "compactions" /\ A
    /\ UNCHANGED <<
           part, v11, v12, v13, v14, v15, v16, v17, v18, v19, v20, v21, v22,
           v23, v24, v25, v26, vars, cardVars, outboxVars>>
OfMemoryNotes(A) ==
    /\ part = "notes" /\ A
    /\ UNCHANGED <<
           part, v14, v15, v16, v17, v18, v19, v20, v21, v22, v23, v24, v25,
           v26, vars, cardVars, outboxVars>>
OfCardWrites(A) == part = "cards" /\ A /\ UNCHANGED <<part, slots, vars, outboxVars>>
OfBackgroundCompletions(A) ==
    /\ part = "notices" /\ A
    /\ UNCHANGED <<
           part, v16, v17, v18, v19, v20, v21, v22, v23, v24, v25, v26, vars,
           cardVars, outboxVars>>
OfNotifications(A) == part = "outbox" /\ A /\ UNCHANGED <<part, slots, vars, cardVars>>
OfDiscussions(A) ==
    /\ part = "discussions" /\ A
    /\ UNCHANGED <<
           part, v7, v8, v9, v10, v11, v12, v13, v14, v15, v16, v17, v18, v19,
           v20, v21, v22, v23, v24, v25, v26, vars, cardVars, outboxVars>>
OfRouting(A) ==
    /\ part = "routing" /\ A
    /\ UNCHANGED <<
           part, v12, v13, v14, v15, v16, v17, v18, v19, v20, v21, v22, v23,
           v24, v25, v26, vars, cardVars, outboxVars>>
OfTaskExtension(A) ==
    /\ part = "extension" /\ A
    /\ UNCHANGED <<
           part, v9, v10, v11, v12, v13, v14, v15, v16, v17, v18, v19, v20,
           v21, v22, v23, v24, v25, v26, vars, cardVars, outboxVars>>
OfTaskPlugin(A) ==
    /\ part = "plugin" /\ A
    /\ UNCHANGED <<
           part, v13, v14, v15, v16, v17, v18, v19, v20, v21, v22, v23, v24,
           v25, v26, vars, cardVars, outboxVars>>
OfReload(A) ==
    /\ part = "reload" /\ A
    /\ UNCHANGED <<
           part, v18, v19, v20, v21, v22, v23, v24, v25, v26, vars, cardVars,
           outboxVars>>
OfAgentRegistry(A) ==
    /\ part = "registry" /\ A
    /\ UNCHANGED <<
           part, v20, v21, v22, v23, v24, v25, v26, vars, cardVars, outboxVars>>
OfWorkspaces(A) ==
    /\ part = "workspaces" /\ A
    /\ UNCHANGED <<
           part, v13, v14, v15, v16, v17, v18, v19, v20, v21, v22, v23, v24,
           v25, v26, vars, cardVars, outboxVars>>
OfTerminalControl(A) ==
    /\ part = "terminal" /\ A
    /\ UNCHANGED <<
           part, v11, v12, v13, v14, v15, v16, v17, v18, v19, v20, v21, v22,
           v23, v24, v25, v26, vars, cardVars, outboxVars>>
OfSessionCommands(A) ==
    /\ part = "commands" /\ A
    /\ UNCHANGED <<
           part, v22, v23, v24, v25, v26, vars, cardVars, outboxVars>>

PartsInit ==
    /\ part \in {
           "codex", "interactions", "flows", "pages", "publication",
           "content", "bridge", "opencode", "claude", "records", "embedding",
           "compactions", "notes", "cards", "notices", "outbox",
           "discussions", "routing", "extension", "plugin", "reload",
           "registry", "workspaces", "terminal", "commands"}
    /\ Init
    /\ part # "codex" => registered = {} /\ thread = [s \in {a1} |-> "fresh"]
    /\ CardInit
    /\ part # "cards" => TRUE
    /\ OutboxInit
    /\ part # "outbox" => bound = a1
    /\
       \/ part = "codex"
          /\ v1 = 0 /\ v2 = 0 /\ v3 = 0 /\ v4 = 0 /\ v5 = 0 /\ v6 = 0
          /\ v7 = 0 /\ v8 = 0 /\ v9 = 0 /\ v10 = 0 /\ v11 = 0 /\ v12 = 0
          /\ v13 = 0 /\ v14 = 0 /\ v15 = 0 /\ v16 = 0 /\ v17 = 0
          /\ v18 = 0 /\ v19 = 0 /\ v20 = 0 /\ v21 = 0 /\ v22 = 0
          /\ v23 = 0 /\ v24 = 0 /\ v25 = 0 /\ v26 = 0
       \/ part = "interactions" /\ I!Init /\ v10 = a1    \* the conversations are alike
          /\ v18 = 0 /\ v19 = 0 /\ v20 = 0 /\ v21 = 0 /\ v22 = 0
          /\ v23 = 0 /\ v24 = 0 /\ v25 = 0 /\ v26 = 0
       \/ part = "flows" /\ F!Init
          /\ v16 = 0 /\ v17 = 0 /\ v18 = 0 /\ v19 = 0 /\ v20 = 0
          /\ v21 = 0 /\ v22 = 0 /\ v23 = 0 /\ v24 = 0 /\ v25 = 0 /\ v26 = 0
       \/ part = "pages" /\ G!Init
          /\ v4 = 0 /\ v5 = 0 /\ v6 = 0 /\ v7 = 0 /\ v8 = 0 /\ v9 = 0
          /\ v10 = 0 /\ v11 = 0 /\ v12 = 0 /\ v13 = 0 /\ v14 = 0
          /\ v15 = 0 /\ v16 = 0 /\ v17 = 0 /\ v18 = 0 /\ v19 = 0
          /\ v20 = 0 /\ v21 = 0 /\ v22 = 0 /\ v23 = 0 /\ v24 = 0
          /\ v25 = 0 /\ v26 = 0
       \/ part = "publication" /\ P!Init
          /\ v16 = 0 /\ v17 = 0 /\ v18 = 0 /\ v19 = 0 /\ v20 = 0
          /\ v21 = 0 /\ v22 = 0 /\ v23 = 0 /\ v24 = 0 /\ v25 = 0 /\ v26 = 0
       \/ part = "content" /\ D!Init
          /\ v22 = 0 /\ v23 = 0 /\ v24 = 0 /\ v25 = 0 /\ v26 = 0
       \/ part = "bridge" /\ B!Init
          /\ v26 = 0
       \/ part = "opencode" /\ O!Init
       \/ part = "claude" /\ H!Init
          /\ v18 = 0 /\ v19 = 0 /\ v20 = 0 /\ v21 = 0 /\ v22 = 0
          /\ v23 = 0 /\ v24 = 0 /\ v25 = 0 /\ v26 = 0
       \/ part = "records" /\ M!Init
          /\ v13 = 0 /\ v14 = 0 /\ v15 = 0 /\ v16 = 0 /\ v17 = 0
          /\ v18 = 0 /\ v19 = 0 /\ v20 = 0 /\ v21 = 0 /\ v22 = 0
          /\ v23 = 0 /\ v24 = 0 /\ v25 = 0 /\ v26 = 0
       \/ part = "embedding" /\ E!Init
          /\ v13 = 0 /\ v14 = 0 /\ v15 = 0 /\ v16 = 0 /\ v17 = 0
          /\ v18 = 0 /\ v19 = 0 /\ v20 = 0 /\ v21 = 0 /\ v22 = 0
          /\ v23 = 0 /\ v24 = 0 /\ v25 = 0 /\ v26 = 0
       \/ part = "compactions" /\ K!Init
          /\ v11 = 0 /\ v12 = 0 /\ v13 = 0 /\ v14 = 0 /\ v15 = 0
          /\ v16 = 0 /\ v17 = 0 /\ v18 = 0 /\ v19 = 0 /\ v20 = 0
          /\ v21 = 0 /\ v22 = 0 /\ v23 = 0 /\ v24 = 0 /\ v25 = 0 /\ v26 = 0
       \/ part = "notes" /\ N!Init
          /\ v14 = 0 /\ v15 = 0 /\ v16 = 0 /\ v17 = 0 /\ v18 = 0
          /\ v19 = 0 /\ v20 = 0 /\ v21 = 0 /\ v22 = 0 /\ v23 = 0
          /\ v24 = 0 /\ v25 = 0 /\ v26 = 0
       \/ part = "cards"
          /\ v1 = 0 /\ v2 = 0 /\ v3 = 0 /\ v4 = 0 /\ v5 = 0 /\ v6 = 0
          /\ v7 = 0 /\ v8 = 0 /\ v9 = 0 /\ v10 = 0 /\ v11 = 0 /\ v12 = 0
          /\ v13 = 0 /\ v14 = 0 /\ v15 = 0 /\ v16 = 0 /\ v17 = 0
          /\ v18 = 0 /\ v19 = 0 /\ v20 = 0 /\ v21 = 0 /\ v22 = 0
          /\ v23 = 0 /\ v24 = 0 /\ v25 = 0 /\ v26 = 0
       \/ part = "notices" /\ T!Init
          /\ v16 = 0 /\ v17 = 0 /\ v18 = 0 /\ v19 = 0 /\ v20 = 0
          /\ v21 = 0 /\ v22 = 0 /\ v23 = 0 /\ v24 = 0 /\ v25 = 0 /\ v26 = 0
       \/ part = "outbox"
          /\ v1 = 0 /\ v2 = 0 /\ v3 = 0 /\ v4 = 0 /\ v5 = 0 /\ v6 = 0
          /\ v7 = 0 /\ v8 = 0 /\ v9 = 0 /\ v10 = 0 /\ v11 = 0 /\ v12 = 0
          /\ v13 = 0 /\ v14 = 0 /\ v15 = 0 /\ v16 = 0 /\ v17 = 0
          /\ v18 = 0 /\ v19 = 0 /\ v20 = 0 /\ v21 = 0 /\ v22 = 0
          /\ v23 = 0 /\ v24 = 0 /\ v25 = 0 /\ v26 = 0
       \/ part = "discussions" /\ V!Init
          /\ v7 = 0 /\ v8 = 0 /\ v9 = 0 /\ v10 = 0 /\ v11 = 0 /\ v12 = 0
          /\ v13 = 0 /\ v14 = 0 /\ v15 = 0 /\ v16 = 0 /\ v17 = 0
          /\ v18 = 0 /\ v19 = 0 /\ v20 = 0 /\ v21 = 0 /\ v22 = 0
          /\ v23 = 0 /\ v24 = 0 /\ v25 = 0 /\ v26 = 0
       \/ part = "routing" /\ J!Init
          /\ v12 = 0 /\ v13 = 0 /\ v14 = 0 /\ v15 = 0 /\ v16 = 0
          /\ v17 = 0 /\ v18 = 0 /\ v19 = 0 /\ v20 = 0 /\ v21 = 0
          /\ v22 = 0 /\ v23 = 0 /\ v24 = 0 /\ v25 = 0 /\ v26 = 0
       \/ part = "extension" /\ S!Init
          /\ v9 = 0 /\ v10 = 0 /\ v11 = 0 /\ v12 = 0 /\ v13 = 0 /\ v14 = 0
          /\ v15 = 0 /\ v16 = 0 /\ v17 = 0 /\ v18 = 0 /\ v19 = 0
          /\ v20 = 0 /\ v21 = 0 /\ v22 = 0 /\ v23 = 0 /\ v24 = 0
          /\ v25 = 0 /\ v26 = 0
       \/ part = "plugin" /\ Q!Init
          /\ v13 = 0 /\ v14 = 0 /\ v15 = 0 /\ v16 = 0 /\ v17 = 0
          /\ v18 = 0 /\ v19 = 0 /\ v20 = 0 /\ v21 = 0 /\ v22 = 0
          /\ v23 = 0 /\ v24 = 0 /\ v25 = 0 /\ v26 = 0
       \/ part = "reload" /\ R!Init
          /\ v18 = 0 /\ v19 = 0 /\ v20 = 0 /\ v21 = 0 /\ v22 = 0
          /\ v23 = 0 /\ v24 = 0 /\ v25 = 0 /\ v26 = 0
       \/ part = "registry" /\ W!Init
          /\ v20 = 0 /\ v21 = 0 /\ v22 = 0 /\ v23 = 0 /\ v24 = 0
          /\ v25 = 0 /\ v26 = 0
       \/ part = "workspaces" /\ X!Init
          /\ v13 = 0 /\ v14 = 0 /\ v15 = 0 /\ v16 = 0 /\ v17 = 0
          /\ v18 = 0 /\ v19 = 0 /\ v20 = 0 /\ v21 = 0 /\ v22 = 0
          /\ v23 = 0 /\ v24 = 0 /\ v25 = 0 /\ v26 = 0
       \/ part = "terminal" /\ Z!Init
          /\ v11 = 0 /\ v12 = 0 /\ v13 = 0 /\ v14 = 0 /\ v15 = 0
          /\ v16 = 0 /\ v17 = 0 /\ v18 = 0 /\ v19 = 0 /\ v20 = 0
          /\ v21 = 0 /\ v22 = 0 /\ v23 = 0 /\ v24 = 0 /\ v25 = 0 /\ v26 = 0
       \/ part = "commands" /\ Y!Init
          /\ v22 = 0 /\ v23 = 0 /\ v24 = 0 /\ v25 = 0 /\ v26 = 0

PartsNext ==
    \/ OfCodexClient(Next)
    \/ OfInteractions(I!Next)
    \/ OfBoardFlows(F!Next)
    \/ OfBoardPages(G!Next)
    \/ OfPublication(P!Next)
    \/ OfIssueContent(D!Next)
    \/ OfBridge(B!Next)
    \/ OfOpenCodeHost(O!Next)
    \/ OfClaudeHost(H!Next)
    \/ OfMemoryRecords(M!Next)
    \/ OfEmbeddingIndex(E!Next)
    \/ OfCompactionSchedule(K!Next)
    \/ OfMemoryNotes(N!Next)
    \/ OfCardWrites(CardNext)
    \/ OfBackgroundCompletions(T!Next)
    \/ OfNotifications(OutboxNext)
    \/ OfDiscussions(V!Next)
    \/ OfRouting(J!Next)
    \/ OfTaskExtension(S!Next)
    \/ OfTaskPlugin(Q!Next)
    \/ OfReload(R!Next)
    \/ OfAgentRegistry(W!Next)
    \/ OfWorkspaces(X!Next)
    \/ OfTerminalControl(Z!Next)
    \/ OfSessionCommands(Y!Next)

PartsSpec == PartsInit /\ [][PartsNext]_allVars

\* No control of a closed question works, and an open one has one unless its card
\* failed since it was last shown (question_flows.rs); a request of an agent has one
\* token and its terminal's dialog a card only while no request is open, and a card is
\* closed when it no longer counts (registry.rs, registry/terminal.rs).  A command is
\* carried out as its card showed it, nothing typed for a form becomes a prompt
\* (task_board.rs), a card of a list leads to all its rows (browse_page.rs), a command
\* of a session is carried out once, where it was meant, and nothing it made is left
\* without a word (session_flows.rs, commands of client.rs), and a background turn is
\* told of once and after its cleanup (background_completions.rs).
ControlsTrue ==
    /\ part = "interactions" => I!ControlsMatch
    /\ part = "registry" => W!RegistryTrue
    /\ part = "flows" => F!CarriedOutAsShown
    /\ part = "pages" => G!PagesLead
    /\ part = "commands" => Y!CommandsTrue
    /\ part = "notices" => T!NoticesTrue

\* The memory database stays trustworthy whatever users, workers and cancellations do
\* at once (consolidation.rs), compared vectors were made by the same model
\* (vectors.rs), no revision to be assessed is forgotten by the loop that sleeps
\* (daemon.rs), and what a user typed into a note is never lost (projection/files.rs).
MemoryTrue ==
    /\ part = "records" => M!RecordsSound
    /\ part = "embedding" => E!SameModel
    /\ part = "compactions" => K!NoLostWakeup
    /\ part = "notes" => N!NotesKept

\* A request takes effect at most once and what is acknowledged is current
\* (projection.rs, store.rs), no text that somebody wrote last is lost unless it
\* restores what was published before (issue_content.rs), a Job's conversation is what
\* its turns say, in order (discussion.rs), and the agent acts on the Jobs and Issues
\* its prompt was judged by, not on what they became (jev.mjs, lifecycle.mjs).
DocumentsKept ==
    /\ part = "publication" => P!Documented
    /\ part = "content" => D!AuthoredKept
    /\ part = "discussions" => V!DiscussionsTrue
    /\ part = "routing" => J!RoutingTrue

\* A request's message reaches the agent at most once, a prompt again only after a send
\* that threw, an unavailable one never (bridge.rs), the engine sees the conversation
\* as it is (transport.mjs), messages are handed over once, requests shown and turns
\* ended (opencode/runtime.mjs), what Claude was given and what the engine was told
\* agree (claude/session.mjs), a stopped session's lease is not renewed (taskix-manager
\* runtime.mjs) and each prompt is routed once and its turn closed (taskix-manager
\* opencode/runtime.mjs); and in an agent's terminal a launch disturbs nothing that was
\* seen there (agentix-multiplexer lib.rs) and keys do what they were sent for
\* (native_control.rs, interactions.rs). A service that reads its configuration again
\* stays one service: one consumer, one bot, the owners it names, every message
\* (reload.rs).
HostsHonest ==
    /\ part = "bridge" => B!BridgeHonest
    /\ part = "bridge" => B!Informed
    /\ part = "opencode" => O!OpenCodeHonest
    /\ part = "claude" => H!ClaudeHonest
    /\ part = "extension" => S!ExtensionTrue
    /\ part = "plugin" => Q!PluginTrue
    /\ part = "workspaces" => X!WorkspacesTrue
    /\ part = "terminal" => Z!TerminalTrue
    /\ part = "reload" => R!ReloadTrue

=============================================================================
