----------------------------- MODULE CardWrites -----------------------------
(***************************************************************************)
(* One logical card of a conversation (engine/card_writes.rs): every path  *)
(* of the engine that edits it reserves a revision and writes in turn, and *)
(* a write whose answer is lost retires the message, so that the late      *)
(* request cannot change what is shown afterwards.  The provider carries   *)
(* requests out whenever they arrive.                                      *)
(*                                                                         *)
(* A view is named by its revision; enabled says that its buttons work.    *)
(***************************************************************************)
EXTENDS Naturals, FiniteSets

CONSTANTS Nothing,
          Writers,      \* tasks that may edit the card at the same time
          MaxRevision,  \* bound: reserved revisions
          MaxLosses     \* bound: lost answers, rejections and cancelled tasks

VARIABLES
    latest,     \* Card.latest
    disabled,   \* Card.disabled_through
    state,      \* CardState: target, replacement_uncertain, replaced, applied_revision
    lock,       \* the task that holds the state
    writer,     \* every task: its revision, its view's buttons and where it is
    valid,      \* the scope of the delivery still holds (binding and epoch)
    remote,     \* the messages of the conversation, by their number
    underway,       \* requests under way
    confirmed,  \* history: the barrier of the last disable that was answered
    losses

cardVars == <<latest, disabled, state, lock, writer, valid, remote, underway, confirmed, losses>>

Views == [rev : Nat, enabled : BOOLEAN]
ASSUME Apart == MaxRevision \in Nat /\ Nothing \notin Writers \union Nat \union Views

Messages == 1..(MaxRevision + 1)
Resting ==
    [at |-> "rest", num |-> 0, disable |-> FALSE, enabled |-> FALSE,
     previous |-> Nothing, message |-> Nothing]
NewMessage == CHOOSE i \in Messages : remote[i] = Nothing /\ \A j \in 1..(i - 1) : remote[j] # Nothing

CardInit ==
    /\ latest = 0 /\ disabled = 0
    /\ state = [target |-> 1, uncertain |-> FALSE, replaced |-> FALSE, applied |-> 0]
    /\ lock = Nothing
    /\ writer = [w \in Writers |-> Resting]
    /\ valid = TRUE
    /\ remote = [i \in Messages |-> IF i = 1 THEN [rev |-> 0, enabled |-> TRUE] ELSE Nothing]
    /\ underway = {} /\ confirmed = 0 /\ losses = 0

Mishap == losses < MaxLosses /\ losses' = losses + 1
Current(w) == writer[w].disable \/ (writer[w].num = latest /\ valid)
Ends(w) == writer' = [writer EXCEPT ![w] = Resting] /\ lock' = Nothing
At(w, p) == writer' = [writer EXCEPT ![w].at = p]

----------------------------------------------------------------------------
(* Before the request leaves *)

Reserve(w) ==
    /\ writer[w].at = "rest" /\ latest < MaxRevision
    /\ latest' = latest + 1
    /\ writer' = [writer EXCEPT ![w] = [Resting EXCEPT !.at = "start", !.num = latest + 1]]
    /\ UNCHANGED <<disabled, state, lock, valid, remote, underway, confirmed, losses>>

\* Mutant: a button's barrier binds nobody who waits for the card.
BarrierNone == disabled

Barrier == IF latest > disabled THEN latest ELSE disabled

\* disable: whatever was reserved so far must not bring the buttons back.
Press(w) ==
    /\ writer[w].at = "rest" /\ latest > 0
    /\ disabled' = Barrier
    /\ writer' = [writer EXCEPT ![w] = [Resting EXCEPT !.at = "start", !.num = latest, !.disable = TRUE]]
    /\ UNCHANGED <<latest, state, lock, valid, remote, underway, confirmed, losses>>

\* The view is made, without buttons where a later press disabled them, and
\* WriteAttempt::new takes the target.
Attempt(w, p) ==
    /\ lock' = w
    /\ writer' = [writer EXCEPT ![w].at = p, ![w].previous = state.target,
                                ![w].enabled = writer[w].num > disabled]
    /\ state' = [state EXCEPT !.target = Nothing, !.uncertain = (p = "send") \/ @]

Restored(w) == [state EXCEPT !.target = writer[w].previous,
                             !.uncertain = IF writer[w].at \in {"send", "sent"} THEN FALSE ELSE @]

\* update_if and disable: with the state locked, a stale write or one without a target ends.
Enter(w) ==
    /\ writer[w].at = "start" /\ lock = Nothing
    /\ IF \/ ~Current(w)
          \/ state.uncertain /\ ~writer[w].disable
          \/ writer[w].disable /\ (state.applied > writer[w].num \/ state.target = Nothing)
       THEN Ends(w) /\ UNCHANGED state
       ELSE Attempt(w, IF state.target = Nothing THEN "send" ELSE "update")
    /\ UNCHANGED <<latest, disabled, valid, remote, underway, confirmed, losses>>

Request(w) ==
    [by |-> w, rev |-> writer[w].num, disable |-> writer[w].disable,
     enabled |-> writer[w].enabled,
     to |-> writer[w].previous]

\* run_if: the scope is checked once more when the request can leave.
Dispatch(w) ==
    /\ writer[w].at \in {"update", "send"}
    /\ IF Current(w)
       THEN /\ underway' = underway \union {Request(w)}
            /\ At(w, IF writer[w].at = "send" THEN "sent" ELSE "updated")
            /\ UNCHANGED <<state, lock>>
       ELSE Ends(w) /\ state' = Restored(w) /\ UNCHANGED underway
    /\ UNCHANGED <<latest, disabled, valid, remote, confirmed, losses>>

\* A task that is cancelled, or a wait that ends, before anything left.
NotSent(w) ==
    /\ writer[w].at \in {"update", "send"} /\ Mishap
    /\ Ends(w) /\ state' = Restored(w)
    /\ UNCHANGED <<latest, disabled, valid, remote, underway, confirmed>>

----------------------------------------------------------------------------
(* The provider *)

\* The request of the attempt; one that was lost before it may still be under way.
InFlight(w) ==
    {r \in underway : r.by = w /\ r.rev = writer[w].num /\ r.disable = writer[w].disable
                      /\ r.to = writer[w].previous}

Deliver(r) ==
    /\ underway' = underway \ {r}
    /\ IF r.to = Nothing
       THEN /\ remote' = [remote EXCEPT ![NewMessage] = [rev |-> r.rev, enabled |-> r.enabled]]
            /\ writer' = [w \in Writers |-> IF w = r.by /\ writer[w].at = "sent" /\ writer[w].num = r.rev
                                            THEN [writer[w] EXCEPT !.message = NewMessage] ELSE writer[w]]
       ELSE /\ remote' = [remote EXCEPT ![r.to] =
                            IF r.disable THEN [@ EXCEPT !.enabled = FALSE]
                            ELSE [rev |-> r.rev, enabled |-> r.enabled]]
            /\ UNCHANGED writer
    /\ UNCHANGED <<latest, disabled, state, lock, valid, confirmed, losses>>

\* An answer: the request was carried out.
Answered(w) ==
    /\ writer[w].at \in {"updated", "sent"} /\ InFlight(w) = {}
    /\ IF writer[w].at = "updated"
       THEN state' = [Restored(w) EXCEPT !.applied = IF writer[w].disable THEN @ ELSE writer[w].num]
       ELSE state' = [target |-> writer[w].message, uncertain |-> FALSE, replaced |-> TRUE,
                      applied |-> writer[w].num]
    /\ confirmed' = IF writer[w].disable THEN writer[w].num ELSE confirmed
    /\ Ends(w) /\ UNCHANGED <<latest, disabled, valid, remote, underway, losses>>

\* A definite error: nothing happened and nothing will.
Rejected(w) ==
    /\ writer[w].at \in {"updated", "sent"} /\ InFlight(w) # {} /\ Mishap
    /\ underway' = underway \ InFlight(w)
    /\ Ends(w) /\ state' = Restored(w)
    /\ UNCHANGED <<latest, disabled, valid, remote, confirmed>>

\* Mutant: the message stays the card's although its request may still arrive.
AfterLossKept(w) == Restored(w)

\* The attempt stays as it is: the message is retired.
AfterLoss(w) == state

\* The answer is lost: a current update goes on with a replacement, a replacement is uncertain.
Lost(w) ==
    /\ writer[w].at \in {"updated", "sent"} /\ Mishap
    /\ IF writer[w].at = "updated" /\ ~writer[w].disable /\ Current(w)
       THEN /\ state' = [AfterLoss(w) EXCEPT !.uncertain = TRUE]
            /\ writer' = [writer EXCEPT ![w].at = "send", ![w].previous = AfterLoss(w).target]
            /\ UNCHANGED lock
       ELSE Ends(w) /\ state' = AfterLoss(w)
    /\ UNCHANGED <<latest, disabled, valid, remote, underway, confirmed>>

\* The task is cancelled after its request left.
Cancelled(w) ==
    /\ writer[w].at \in {"updated", "sent"} /\ Mishap
    /\ Ends(w) /\ state' = AfterLoss(w)
    /\ UNCHANGED <<latest, disabled, valid, remote, underway, confirmed>>

\* The binding changes: writes of the old scope must not leave any more.
ScopeEnds ==
    /\ valid /\ valid' = FALSE
    /\ UNCHANGED <<latest, disabled, state, lock, writer, remote, underway, confirmed, losses>>

\* The registry forgets an idle card that was never retired or replaced.
Prune ==
    /\ \A w \in Writers : writer[w].at = "rest"
    /\ ~state.replaced /\ state.target # Nothing /\ disabled # 0
    /\ disabled' = 0 /\ state' = [state EXCEPT !.uncertain = FALSE]
    /\ UNCHANGED <<latest, lock, writer, valid, remote, underway, confirmed, losses>>

CardNext ==
    \/ \E w \in Writers : \/ Reserve(w) \/ Press(w) \/ Enter(w) \/ Dispatch(w) \/ NotSent(w)
                          \/ Answered(w) \/ Rejected(w) \/ Lost(w) \/ Cancelled(w)
    \/ \E r \in underway : Deliver(r)
    \/ ScopeEnds \/ Prune

CardSpec == CardInit /\ [][CardNext]_cardVars

----------------------------------------------------------------------------
\* The card shows what was written last, however late lost requests arrive: the message the
\* engine writes to has the applied revision and no request is under way to it.
ShowsLatest ==
    (lock = Nothing /\ state.target # Nothing) =>
        /\ remote[state.target].rev = state.applied
        /\ ~\E r \in underway : r.to = state.target

\* A card has one replacement under way at most, and no second one while the first is uncertain.
NoDuplicates ==
    /\ Cardinality({r \in underway : r.to = Nothing}) <= 1
    /\ state.target # Nothing => ~\E i \in Messages : remote[i] # Nothing /\ remote[i].rev > remote[state.target].rev

\* Buttons that were disabled come back only with a view reserved after the press.
DisabledStay ==
    (lock = Nothing /\ state.target # Nothing /\ remote[state.target].enabled) =>
        remote[state.target].rev > confirmed \/ confirmed = 0

CardTrue == ShowsLatest /\ NoDuplicates /\ DisabledStay
=============================================================================
