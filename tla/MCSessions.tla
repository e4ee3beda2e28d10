----------------------------- MODULE MCSessions -----------------------------
(***************************************************************************)
(* The attachment of conversations to sessions, the hand-over to the new   *)
(* session of a client and the cards of the turns, side by side: a         *)
(* behaviour is one of them and the others stay as they started.           *)
(***************************************************************************)
EXTENDS SessionBinding, SessionSwitch, TLC

CONSTANTS
    c1, c2, s1,
    Nobody, Summaries, Concurrency, Window, MaxMoves

VARIABLES
    part,           \* which of them the behaviour is about
    pos, at, gap, e, era, reads, exited, missed, patched, misread, moves, failures

MCStarts == {(c1 :> s1) @@ (c2 :> None)}

\* Two turns: one with two answers, the first of them reported twice, and its prompt in
\* between; one whose history has only its answer.
Step(do, turn, item) == [do |-> do, turn |-> turn, item |-> item]
MCScript ==
    <<Step("start", 1, ""), Step("delta", 1, "a"), Step("user", 1, ""), Step("delta", 1, "b"),
      Step("item", 1, "a"), Step("done", 1, ""),
      Step("start", 2, ""), Step("delta", 2, "c"), Step("done", 2, "")>>

T == INSTANCE TurnCards WITH Script <- MCScript, faults <- failures

cardVars == <<pos, at, gap, e, era, reads, exited, missed, patched, misread, moves, failures>>
allVars == <<part, vars, switchVars, cardVars>>

PartsInit ==
    /\ part \in {"binding", "switch", "cards"}
    /\ Init /\ SwitchInit /\ T!Init
OfBinding(A) == part = "binding" /\ A /\ UNCHANGED <<part, switchVars, cardVars>>
OfSwitch(A) == part = "switch" /\ A /\ UNCHANGED <<part, vars, cardVars>>
OfCards(A) == part = "cards" /\ A /\ UNCHANGED <<part, vars, switchVars>>

PartsNext ==
    \/ OfBinding(Next)
    \/ OfSwitch(SwitchNext)
    \/ OfCards(T!Next)

\* Workers and admitted work get their turns, refreshes recur, turns end and
\* time passes.
Fairness ==
    /\ WF_allVars(OfBinding(Progress))
    /\ WF_allVars(OfSwitch(SwitchProgress))
    /\ SF_allVars(OfSwitch(Refresh))
    /\ WF_allVars(OfSwitch(DeadlinePasses))
    /\ WF_allVars(OfSwitch(TurnEnds))

FairSpec == PartsInit /\ [][PartsNext]_allVars /\ Fairness

\* The newest card of a turn says all the agent said, its result is sent once, Stop
\* belongs to the turn that runs, and input read late replaces nothing (turn_flows.rs,
\* input_recovery.rs).
TurnCardsTrue == T!TurnCardsTrue
=============================================================================
