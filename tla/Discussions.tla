----------------------------- MODULE Discussions -----------------------------
(***************************************************************************)
(* What was said in a session and the Jobs it belongs to (agentix-task     *)
(* discussion.rs, conversation.rs; taskix-manager discussion.mjs).         *)
(* Hosts, hooks and the engine record turns, again and in parts; an agent  *)
(* gives pending turns to a Job under the revision a classifier saw; a     *)
(* later reply of such a turn is inserted where it belongs.                *)
(*                                                                         *)
(* One session.  A message is <<turn, number>>; texts are left out.        *)
(***************************************************************************)
EXTENDS Naturals, Sequences, FiniteSets, SequencesExt

CONSTANTS Nobody,
          Turns, Jobs,
          Parts,       \* what one record may carry: sequences of message numbers
          MaxWrites    \* bound: revisions of the session

VARIABLES
    turn,       \* discussion_turns: position (0: no row), messages, job
    next,       \* the next position
    revision,   \* discussion_sessions.revision
    old,        \* the session's last activity is beyond the retention
    conv,       \* the conversation of every Job
    choice      \* what a helper selected: the revision it read, the turns and their messages

vars == <<turn, next, revision, old, conv, choice>>

NoTurn == [pos |-> 0, messages |-> <<>>, job |-> Nobody]
NoChoice == [rev |-> 0, turns |-> {}, seen |-> [t \in Turns |-> <<>>]]

Init ==
    /\ turn = [t \in Turns |-> NoTurn] /\ next = 1 /\ revision = 0 /\ old = FALSE
    /\ conv = [j \in Jobs |-> <<>>] /\ choice = NoChoice

----------------------------------------------------------------------------
(* Merging messages *)

New(known, ms) == SelectSeq(ms, LAMBDA m : m \notin Range(known))

\* merge_turn_messages: what is new goes to the end.
MergedTurn(known, ms) == known \o New(known, ms)

Index(s, m) == CHOOSE i \in 1..Len(s) : s[i] = m

\* A new message goes before the next one of its batch that is there already, or before the
\* anchor of the whole batch.
Anchor(s, ms, p, end) ==
    LET known == {q \in (p + 1)..Len(ms) : ms[q] \in Range(s)}
    IN  IF known = {} THEN end ELSE Index(s, ms[CHOOSE q \in known : \A r \in known : q <= r])

\* merge_messages
Merged(s, ms, end) ==
    LET ps == SetToSortSeq({p \in 1..Len(ms) : ms[p] \notin Range(s)}, LAMBDA a, b : a < b)
        Bucket(i) == LET here == SelectSeq(ps, LAMBDA p : Anchor(s, ms, p, end) = i)
                     IN  [k \in 1..Len(here) |-> ms[here[k]]]
    IN  FlattenSeq([i \in 1..(Len(s) + 1) |->
            Bucket(i) \o (IF i <= Len(s) THEN <<s[i]>> ELSE <<>>)])

InOrder(tt, ts) ==
    LET order == SetToSortSeq(ts, LAMBDA a, b : tt[a].pos < tt[b].pos)
    IN  FlattenSeq([i \in 1..Len(order) |-> tt[order[i]].messages])

Of(tt, j) == {t \in Turns : tt[t].pos # 0 /\ tt[t].job = j}

----------------------------------------------------------------------------

\* expire: turns that no Job took are dropped with the session's age.
Kept == IF old THEN [t \in Turns |-> IF turn[t].job = Nobody THEN NoTurn ELSE turn[t]] ELSE turn
Expired == IF old /\ Of(turn, Nobody) # {} THEN 1 ELSE 0

\* Mutant: a late reply is added to the end of the Job's conversation.
BeforeNone(tt, t) == Len(conv[tt[t].job]) + 1

\* The first message of the Job's next turn anchors a late reply.
Before(tt, t) ==
    LET j == tt[t].job
        later == {u \in Of(tt, j) : tt[u].pos > tt[t].pos /\ tt[u].messages # <<>>}
        first == CHOOSE u \in later : \A v \in later : tt[u].pos <= tt[v].pos
    IN  IF later # {} /\ tt[first].messages[1] \in Range(conv[j])
        THEN Index(conv[j], tt[first].messages[1]) ELSE Len(conv[j]) + 1

\* Mutant: recording a turn again leaves the revision.
RevisedNone(changed) == revision + Expired

Revised(changed) == revision + Expired + (IF changed THEN 1 ELSE 0)

\* session.record with a turn: staged, or written into the Job that has the turn.
Record(t, part) ==
    /\ revision < MaxWrites
    /\ LET kept == Kept
           ms == [i \in 1..Len(part) |-> <<t, part[i]>>]
           merged == MergedTurn(kept[t].messages, ms)
           new == kept[t].pos = 0
           tt == [kept EXCEPT ![t].messages = merged, ![t].pos = IF new THEN next ELSE @]
           j == kept[t].job
       IN  /\ turn' = tt
           /\ next' = IF new THEN next + 1 ELSE next
           /\ revision' = Revised(new \/ merged # kept[t].messages)
           /\ conv' = IF j = Nobody \/ merged = kept[t].messages THEN conv
                      ELSE [conv EXCEPT ![j] = Merged(@, merged, Before(tt, t))]
    /\ old' = FALSE /\ UNCHANGED choice

\* session.start
Start ==
    /\ old /\ turn' = Kept /\ revision' = revision + Expired
    /\ UNCHANGED <<next, old, conv, choice>>

Age == ~old /\ next > 1 /\ old' = TRUE /\ UNCHANGED <<turn, next, revision, conv, choice>>

----------------------------------------------------------------------------
(* Giving turns to a Job *)

\* selectDiscussion: the pending turns in one snapshot, and the selected ones.
Select ==
    /\ ~old
    /\ \E ts \in SUBSET Of(turn, Nobody) :
         /\ ts # {}
         /\ choice' = [rev |-> revision, turns |-> ts,
                       seen |-> [t \in Turns |-> IF t \in ts THEN turn[t].messages ELSE <<>>]]
    /\ UNCHANGED <<turn, next, revision, old, conv>>

\* attach, with job.create, job.followup or conversation.attach: under the revision of a
\* choice, or turns that the agent names itself.
Attach(j, ts) ==
    /\ revision < MaxWrites /\ ts # {}
    /\ \A t \in ts : Kept[t].pos # 0 /\ Kept[t].job \in {Nobody, j}
    /\ LET tt == [t \in Turns |-> IF t \in ts THEN [Kept[t] EXCEPT !.job = j] ELSE Kept[t]]
       IN  /\ turn' = tt
           /\ conv' = [conv EXCEPT ![j] = Merged(@, InOrder(tt, Of(tt, j)), Len(@) + 1)]
    /\ revision' = revision + Expired + 1
    /\ UNCHANGED <<next, old>>

AttachChosen(j) ==
    /\ choice.turns # {} /\ choice.rev = revision + Expired
    /\ Attach(j, choice.turns) /\ choice' = NoChoice

AttachNamed(j) ==
    /\ \E t \in Turns : Attach(j, {t})
    /\ UNCHANGED choice

\* The Job is deleted with its turns.
Delete(j) ==
    /\ Of(turn, j) # {}
    /\ turn' = [t \in Turns |-> IF turn[t].job = j THEN NoTurn ELSE turn[t]]
    /\ conv' = [conv EXCEPT ![j] = <<>>]
    /\ UNCHANGED <<next, revision, old, choice>>

Next ==
    \/ Start \/ Age \/ Select
    \/ \E t \in Turns : \E part \in Parts : Record(t, part)
    \/ \E j \in Jobs : AttachChosen(j) \/ AttachNamed(j) \/ Delete(j)

Spec == Init /\ [][Next]_vars

----------------------------------------------------------------------------
\* A Job's conversation is what its turns say, in the order of the turns, whenever they were
\* attached and however late their replies were recorded.
InTurnOrder == \A j \in Jobs : conv[j] = InOrder(turn, Of(turn, j))

\* While a choice can still be carried out its turns are pending and say what was read.
ChoiceHolds ==
    choice.rev = revision + Expired =>
        \A t \in choice.turns : /\ turn[t].pos # 0 /\ turn[t].job = Nobody
                                /\ turn[t].messages = choice.seen[t]

DiscussionsTrue == InTurnOrder /\ ChoiceHolds
=============================================================================
