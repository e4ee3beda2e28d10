-------------------------- MODULE MCDispatchQueue --------------------------
(***************************************************************************)
(* A small instance of DispatchQueue: a reader of a, a transfer between a  *)
(* and b, an operation routing moves from a to b, a reader of b, and a     *)
(* global transition.  The queue holds fewer operations than there are, so *)
(* admission is refused; two run at once.                                  *)
(*                                                                         *)
(* Side by side with it, the Codex client that follows one attached        *)
(* session: a behaviour is one of the two and leaves the other as it       *)
(* started.  What must happen in the end is checked of both.               *)
(***************************************************************************)
EXTENDS DispatchQueue

CONSTANTS a, b, reader, transfer, moving, other, lifecycle, session

VARIABLES
    part,           \* which of the two the behaviour is about
    sets, job, due, registered, awaited, link, wire, thread, served, want, turns, told,
    calls, faults, raced

MCWork == {reader, transfer, moving, other, lifecycle}
MCKeys == {a, b}
MCScopes ==
    [w \in MCWork |->
        CASE w = reader    -> {Access({a}, {})}
          [] w = transfer  -> {KeysScope({a, b})}
          [] w = moving    -> {KeysScope({a}), KeysScope({b})}
          [] w = other     -> {Access({b}, {}), Access({a}, {b})}
          [] w = lifecycle -> {Global}]
MCRoutings ==
    {r \in [MCWork -> UNION {MCScopes[w] : w \in MCWork}] :
        \A w \in MCWork : r[w] \in MCScopes[w]}

C == INSTANCE CodexClient WITH
       Sessions <- {session}, MaxCalls <- 2, MaxFaults <- 1, c <- sets

clientVars == <<sets, job, due, registered, awaited, link, wire, thread, served, want, turns,
                told, calls, faults, raced>>
allVars == <<part, vars, clientVars>>

PartsInit ==
    /\ part \in {"queue", "client"}
    /\ Init /\ C!Init
    /\ part # "queue" => route \in {CHOOSE r \in Routings : TRUE}
    /\ part # "client" => registered = {} /\ thread = [s \in {session} |-> "fresh"]
OfQueue(A) == part = "queue" /\ A /\ UNCHANGED <<part, clientVars>>
OfClient(A) == part = "client" /\ A /\ UNCHANGED <<part, vars>>

\* A client whose calls are used up may stop; the queue never does.
PartsNext == OfQueue(Next) \/ OfClient(C!Next) \/ OfClient(UNCHANGED clientVars)

\* The runtime scans and its workers end (DispatchQueue).  The app-server serves what was
\* written, the client reconnects and its tasks run on (CodexClient).
PartsFairness ==
    /\ WF_allVars(OfQueue(NextReady))
    /\ \A w \in Work : WF_allVars(OfQueue(Finish(w)))
    /\ WF_allVars(OfClient(C!ServeRequest))
    /\ WF_allVars(OfClient(C!Reconnect))
    /\ WF_allVars(OfClient(C!Steps(session)))

PartsSpec == PartsInit /\ [][PartsNext]_allVars /\ PartsFairness

\* An attached session whose client stays is followed in the end, whatever dropped or
\* timed out meanwhile, unless a release or a late response caught it (read_loop,
\* monitor_attached_content).
FollowedInTheEnd == part = "client" => C!FollowedInTheEnd
============================================================================
