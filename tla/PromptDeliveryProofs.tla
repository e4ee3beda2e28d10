------------------------ MODULE PromptDeliveryProofs ------------------------
(***************************************************************************)
(* No input is sent twice, no claim is forgotten while the service is up   *)
(* and its store works, no stopped follow-up is sent, a stop reaches the   *)
(* turn it was meant for, and the inputs of a session reach the agent in   *)
(* the order they were claimed: for every set of inputs and sessions,      *)
(* every order of delivery and all limits.                                 *)
(***************************************************************************)
EXTENDS PromptDelivery, FiniteSetTheorems, TLAPS

----------------------------------------------------------------------------
(* Sequences by their elements *)

Distinct(q) == \A i, j \in 1..Len(q) : q[i] = q[j] => i = j

\* Appending an element, as admission and the ready queue do.
LEMMA RangeAppend ==
    ASSUME NEW S, NEW q \in Seq(S), NEW x \in S
    PROVE  /\ Append(q, x) \in Seq(S)
           /\ SeqRange(Append(q, x)) = SeqRange(q) \cup {x}
           /\ Distinct(q) /\ x \notin SeqRange(q) => Distinct(Append(q, x))
<1> DEFINE r == Append(q, x)
<1>1. r \in Seq(S) /\ Len(r) = Len(q) + 1 /\ r[Len(q) + 1] = x
      /\ \A i \in 1..Len(q) : r[i] = q[i]
  OBVIOUS
<1> HIDE DEF r
<1>2. Len(q) \in Nat
  OBVIOUS
<1>3. \A i \in 1..Len(r) : i \in 1..Len(q) \/ i = Len(q) + 1
  BY <1>1, <1>2
<1>4. SeqRange(r) \subseteq SeqRange(q) \cup {x}
  BY <1>1, <1>3 DEF SeqRange
<1>5. SeqRange(q) \cup {x} \subseteq SeqRange(r)
  <2>1. 1..Len(q) \subseteq 1..Len(r) /\ Len(q) + 1 \in 1..Len(r)
    BY <1>1, <1>2
  <2> QED BY <1>1, <2>1 DEF SeqRange
<1>6. ASSUME Distinct(q), x \notin SeqRange(q) PROVE Distinct(r)
  BY <1>1, <1>3, <1>6 DEF Distinct, SeqRange
<1> QED BY <1>1, <1>4, <1>5, <1>6 DEF r

\* Taking the head, as dispatch does.
LEMMA RangeTail ==
    ASSUME NEW S, NEW q \in Seq(S), q # <<>>
    PROVE  /\ Tail(q) \in Seq(S) /\ Head(q) \in S
           /\ Head(q) \in SeqRange(q)
           /\ SeqRange(Tail(q)) \subseteq SeqRange(q)
           /\ SeqRange(q) = SeqRange(Tail(q)) \cup {Head(q)}
           /\ Distinct(q) => Distinct(Tail(q)) /\ Head(q) \notin SeqRange(Tail(q))
<1> DEFINE r == Tail(q)
<1>1. /\ r \in Seq(S) /\ Head(q) = q[1] /\ q[1] \in S
      /\ Len(q) \in Nat \ {0} /\ Len(r) = Len(q) - 1
      /\ \A i \in 1..Len(r) : r[i] = q[i + 1]
  OBVIOUS
<1> HIDE DEF r
<1>2. 1 \in 1..Len(q) /\ \A i \in 1..Len(r) : i + 1 \in 1..Len(q)
  BY <1>1
<1>3. \A i \in 1..Len(q) : i = 1 \/ (i - 1 \in 1..Len(r) /\ r[i - 1] = q[i])
  BY <1>1
<1>4. SeqRange(r) \subseteq SeqRange(q) /\ Head(q) \in SeqRange(q)
  BY <1>1, <1>2 DEF SeqRange
<1>5. SeqRange(q) \subseteq SeqRange(r) \cup {Head(q)}
  <2>1. ASSUME NEW i \in 1..Len(q) PROVE q[i] \in SeqRange(r) \cup {Head(q)}
    <3>1. CASE i = 1
      BY <1>1, <3>1
    <3>2. CASE i - 1 \in 1..Len(r) /\ r[i - 1] = q[i]
      BY <3>2 DEF SeqRange
    <3> QED BY <1>3, <3>1, <3>2
  <2> QED BY <2>1 DEF SeqRange
<1>6. ASSUME Distinct(q) PROVE Distinct(r) /\ Head(q) \notin SeqRange(r)
  <2>1. \A i, j \in 1..Len(r) : r[i] = r[j] => i + 1 = j + 1
    BY <1>1, <1>2, <1>6 DEF Distinct
  <2>2. Distinct(r)
    BY <2>1 DEF Distinct
  <2>3. ASSUME NEW i \in 1..Len(r), r[i] = q[1] PROVE FALSE
    BY <1>1, <1>2, <1>6, <2>3 DEF Distinct
  <2> QED BY <1>1, <2>2, <2>3 DEF SeqRange
<1> QED BY <1>1, <1>4, <1>5, <1>6 DEF r

\* Appending a whole queue, as an acknowledgement and an attachment do.
LEMMA RangeConcat ==
    ASSUME NEW S, NEW q \in Seq(S), NEW r \in Seq(S)
    PROVE  /\ q \o r \in Seq(S)
           /\ SeqRange(q \o r) = SeqRange(q) \cup SeqRange(r)
           /\ Distinct(q) /\ Distinct(r) /\ SeqRange(q) \cap SeqRange(r) = {}
                => Distinct(q \o r)
<1> DEFINE w == q \o r
<1>1. /\ w \in Seq(S) /\ Len(w) = Len(q) + Len(r) /\ Len(q) \in Nat /\ Len(r) \in Nat
      /\ \A i \in 1..Len(q) : w[i] = q[i]
      /\ \A i \in 1..Len(r) : w[Len(q) + i] = r[i]
  OBVIOUS
<1> HIDE DEF w
<1>2. /\ \A i \in 1..Len(q) : i \in 1..Len(w)
      /\ \A i \in 1..Len(r) : Len(q) + i \in 1..Len(w)
  BY <1>1
<1>3. \A i \in 1..Len(w) :
         \/ i \in 1..Len(q) /\ w[i] = q[i]
         \/ i - Len(q) \in 1..Len(r) /\ w[i] = r[i - Len(q)]
  <2> TAKE i \in 1..Len(w)
  <2>1. CASE i \in 1..Len(q)
    BY <1>1, <2>1
  <2>2. CASE i \notin 1..Len(q)
    <3>1. i - Len(q) \in 1..Len(r) /\ Len(q) + (i - Len(q)) = i
      BY <1>1, <2>2
    <3> QED BY <1>1, <3>1
  <2> QED BY <2>1, <2>2
<1>4. SeqRange(w) \subseteq SeqRange(q) \cup SeqRange(r)
  BY <1>3 DEF SeqRange
<1>5. SeqRange(q) \subseteq SeqRange(w) /\ SeqRange(r) \subseteq SeqRange(w)
  BY <1>1, <1>2 DEF SeqRange
<1>6. ASSUME Distinct(q), Distinct(r), SeqRange(q) \cap SeqRange(r) = {} PROVE Distinct(w)
  <2>1. \A i \in 1..Len(q), j \in 1..Len(r) : q[i] # r[j]
    BY <1>6 DEF SeqRange
  <2>2. SUFFICES ASSUME NEW i \in 1..Len(w), NEW j \in 1..Len(w), w[i] = w[j] PROVE i = j
    BY DEF Distinct
  <2>3. CASE i \in 1..Len(q) /\ j \in 1..Len(q)
    BY <1>1, <1>6, <2>2, <2>3 DEF Distinct
  <2>4. CASE i \notin 1..Len(q) /\ j \notin 1..Len(q)
    <3>1. /\ i - Len(q) \in 1..Len(r) /\ w[i] = r[i - Len(q)]
          /\ j - Len(q) \in 1..Len(r) /\ w[j] = r[j - Len(q)]
      BY <1>3, <2>4
    <3>2. i - Len(q) = j - Len(q)
      BY <1>6, <2>2, <3>1 DEF Distinct
    <3> QED BY <1>1, <2>2, <3>2
  <2> QED BY <1>3, <2>1, <2>2, <2>3, <2>4
<1> QED BY <1>1, <1>4, <1>5, <1>6 DEF w

\* Keeping a follow-up behind a start, at the place of its age.
LEMMA RangeInsert ==
    ASSUME NEW q \in Seq(Inputs), NEW e \in Inputs, NEW own
    PROVE  /\ InsertByAge(q, e, own) \in Seq(Inputs)
           /\ SeqRange(InsertByAge(q, e, own)) = SeqRange(q) \cup {e}
           /\ Distinct(q) /\ e \notin SeqRange(q) => Distinct(InsertByAge(q, e, own))
<1> DEFINE older == {i \in 1..Len(q) : own[q[i]].seq < own[e].seq}
           at == 1 + Cardinality(older)
           r == [i \in 1..(Len(q) + 1) |-> IF i < at THEN q[i] ELSE IF i = at THEN e ELSE q[i - 1]]
<1>1. Len(q) \in Nat /\ 1 \in Int /\ Len(q) \in Int
  OBVIOUS
<1>2. IsFiniteSet(1..Len(q)) /\ Cardinality(1..Len(q)) = Len(q)
  BY <1>1, FS_Interval
<1>3. older \subseteq 1..Len(q)
  OBVIOUS
<1>4. Cardinality(older) \in Nat /\ Cardinality(older) <= Len(q)
  <2> HIDE DEF older
  <2>1. IsFiniteSet(older) /\ Cardinality(older) <= Cardinality(1..Len(q))
    BY <1>2, <1>3, FS_Subset
  <2> QED BY <1>2, <2>1, FS_CardinalityType
<1>5. at \in 1..(Len(q) + 1)
  <2> HIDE DEF older
  <2> QED BY <1>1, <1>4
<1>6. InsertByAge(q, e, own) = r
  BY DEF InsertByAge
<1> HIDE DEF at
<1>7. \A i \in 1..(Len(q) + 1) :
         \/ i < at /\ i \in 1..Len(q) /\ r[i] = q[i]
         \/ i = at /\ r[i] = e
         \/ i > at /\ i - 1 \in 1..Len(q) /\ r[i] = q[i - 1]
  BY <1>1, <1>5
<1>8. r \in [1..(Len(q) + 1) -> Inputs] /\ Len(q) + 1 \in Nat
  <2>1. \A i \in 1..(Len(q) + 1) : r[i] \in Inputs
    BY <1>1, <1>7
  <2> QED BY <1>1, <2>1
<1>9. \A i \in 1..Len(q) : (i < at => r[i] = q[i]) /\ (~(i < at) => r[i + 1] = q[i])
  BY <1>1, <1>5
<1>10. r[at] = e
  BY <1>1, <1>5
<1>11. DOMAIN r = 1..(Len(q) + 1)
  OBVIOUS
<1> HIDE DEF r
<1>12. r \in Seq(Inputs) /\ Len(r) = Len(q) + 1
  BY <1>8, <1>11
<1>13. SeqRange(r) \subseteq SeqRange(q) \cup {e}
  <2>1. ASSUME NEW i \in 1..Len(r) PROVE r[i] \in SeqRange(q) \cup {e}
    <3>1. CASE i = at
      BY <1>10, <3>1
    <3>2. CASE i \in 1..Len(q) /\ r[i] = q[i]
      BY <3>2 DEF SeqRange
    <3>3. CASE i - 1 \in 1..Len(q) /\ r[i] = q[i - 1]
      BY <3>3 DEF SeqRange
    <3> QED BY <1>7, <1>12, <3>1, <3>2, <3>3
  <2> QED BY <2>1 DEF SeqRange
<1>14. SeqRange(q) \cup {e} \subseteq SeqRange(r)
  <2>1. e \in SeqRange(r)
    BY <1>5, <1>10, <1>12 DEF SeqRange
  <2>2. ASSUME NEW i \in 1..Len(q) PROVE q[i] \in SeqRange(r)
    <3>1. i \in 1..Len(r) /\ i + 1 \in 1..Len(r)
      BY <1>1, <1>12
    <3> QED BY <1>9, <3>1 DEF SeqRange
  <2> QED BY <2>1, <2>2 DEF SeqRange
<1>15. ASSUME Distinct(q), e \notin SeqRange(q) PROVE Distinct(r)
  <2>1. \A i \in 1..Len(q) : q[i] # e
    BY <1>15 DEF SeqRange
  <2>2. SUFFICES ASSUME NEW i \in 1..(Len(q) + 1), NEW j \in 1..(Len(q) + 1), r[i] = r[j]
                 PROVE  i = j
    BY <1>12 DEF Distinct
  <2>3. \A k \in 1..Len(q), m \in 1..Len(q) : q[k] = q[m] => k = m
    BY <1>15 DEF Distinct
  <2>4. \A k \in 1..(Len(q) + 1) : k = at <=> r[k] = e
    BY <1>1, <1>5, <1>7, <2>1
  <2>5. CASE i = at \/ j = at
    BY <2>2, <2>4, <2>5
  <2>6. CASE i # at /\ j # at
    <3>1. PICK k \in 1..Len(q) : r[i] = q[k] /\ k = IF i < at THEN i ELSE i - 1
      BY <1>1, <1>5, <1>7, <2>6
    <3>2. PICK m \in 1..Len(q) : r[j] = q[m] /\ m = IF j < at THEN j ELSE j - 1
      BY <1>1, <1>5, <1>7, <2>6
    <3>3. k = m
      BY <2>2, <2>3, <3>1, <3>2
    <3> QED BY <1>1, <1>5, <2>6, <3>1, <3>2, <3>3
  <2> QED BY <2>5, <2>6
<1> QED BY <1>6, <1>12, <1>13, <1>14, <1>15

\* What finish_reattachment makes ready.
LEMMA RangeReady ==
    ASSUME NEW own, IsFiniteSet(Reattaching(own)), ready \in Seq(Inputs),
           \A e \in Reattaching(own) : own[e].seq \in Nat,
           NEW q \in ReadyAfter(own)
    PROVE  /\ q \in Seq(Inputs)
           /\ SeqRange(q) = SeqRange(ready) \cup Reattaching(own)
           /\ Distinct(ready) /\ SeqRange(ready) \cap Reattaching(own) = {} => Distinct(q)
<1>1. PICK r \in ByAge(own, Reattaching(own)) : q = ready \o r
  BY DEF ReadyAfter
<1> DEFINE n == Cardinality(Reattaching(own))
<1>2. n \in Nat
  BY FS_CardinalityType
<1>3. /\ r \in [1..n -> Reattaching(own)] /\ SeqRange(r) = Reattaching(own)
      /\ \A i, j \in 1..n : i < j => own[r[i]].seq < own[r[j]].seq
  BY <1>1 DEF ByAge
<1>4. Reattaching(own) \subseteq Inputs
  BY DEF Reattaching
<1> HIDE DEF n
<1>5. r \in Seq(Inputs) /\ Len(r) = n
  BY <1>2, <1>3, <1>4
<1>6. Distinct(r)
  <2>1. SUFFICES ASSUME NEW i \in 1..n, NEW j \in 1..n, r[i] = r[j], i # j PROVE FALSE
    BY <1>5 DEF Distinct
  <2>2. own[r[i]].seq < own[r[j]].seq \/ own[r[j]].seq < own[r[i]].seq
    BY <1>2, <1>3, <2>1
  <2>3. own[r[i]].seq \in Nat
    BY <1>3, <2>1
  <2> QED BY <2>1, <2>2, <2>3
<1> QED BY <1>1, <1>3, <1>5, <1>6, RangeConcat

----------------------------------------------------------------------------
(* Where an owned input is *)

QueuedWork(e) == [from |-> "queued", input |-> e]

\* A follow-up that waits and is not held back for an attachment.
Free(e) == owned[e] # None /\ owned[e].queued /\ ~owned[e].reattach

Start(s, e) == pending[s] # None /\ pending[s].input = e
Behind(s, e) == pending[s] # None /\ e \in SeqRange(pending[s].queued)
InReady(e) == e \in SeqRange(ready)
InLane(e) == QueuedWork(e) \in SeqRange(lane)
Doing(from, e) == op # None /\ op.from = from /\ op.input = e
Resuming(e) == Doing("queued", e)
Handling(e) == Doing("inbound", e) /\ op.step # "begin"

Sent(e) == rpc[e].state # "none"
Answered(e) ==
    rpc[e].state \in Answers /\ \E s \in Sessions : rpc[e].session = s /\ Start(s, e)

\* The inductive invariant, in parts.  A start is owned, was sent in its session
\* and is no follow-up.
StartsSound ==
    \A s \in Sessions, e \in Inputs :
        Start(s, e) => /\ owned[e] # None /\ ~owned[e].queued /\ owned[e].session = s
                       /\ rpc[e].session = s /\ Sent(e)

\* A follow-up that waits is in one place: behind a start of its session, ready,
\* admitted, or in the operation.
BehindSound ==
    /\ \A s \in Sessions : pending[s] # None => Distinct(pending[s].queued)
    /\ \A s \in Sessions, e \in Inputs : Behind(s, e) => Free(e) /\ owned[e].session = s
ReadySound == Distinct(ready) /\ \A e \in Inputs : InReady(e) => Free(e)
LaneSound == Distinct(lane) /\ \A e \in Inputs : InLane(e) => Free(e)
Apart ==
    \A e \in Inputs :
        /\ InReady(e) => ~InLane(e) /\ ~Resuming(e) /\ \A s \in Sessions : ~Behind(s, e)
        /\ InLane(e) => ~Resuming(e) /\ \A s \in Sessions : ~Behind(s, e)
        /\ Resuming(e) => Free(e) /\ \A s \in Sessions : ~Behind(s, e)

\* An acknowledgement is admitted once, while its start is pending.
AcksSound ==
    \A e \in Inputs :
        /\ AckWork(e) \in SeqRange(lane) => Answered(e) /\ ~Doing("ack", e)
        /\ Doing("ack", e) => Answered(e)

OpSound ==
    op # None =>
        /\ Handling(op.input) => owned[op.input] = None
        /\ op.from = "ack" => op.step = "begin"
        /\ op.step \in {"window", "await"} => Sent(op.input)

Placement ==
    StartsSound /\ BehindSound /\ ReadySound /\ LaneSound /\ Apart /\ AcksSound /\ OpSound

\* A request names its session, and an accepted one its turn.
Requests ==
    \A e \in Inputs : /\ Sent(e) => rpc[e].session \in Sessions
                      /\ rpc[e].state = "accepted" => rpc[e].turn \in Inputs

Finite == IsFiniteSet(Owned) /\ IsFiniteSet({s \in Sessions : pending[s] # None})

\* Only follow-ups are held back, and only for an attachment.
Reattachments ==
    \A e \in Inputs :
        owned[e] # None /\ owned[e].reattach =>
            owned[e].queued /\ (phase = "up" => attaching # None)

\* What the process kept in memory is gone while it is down.
Memory ==
    phase = "down" =>
        /\ op = None /\ lane = <<>> /\ ready = <<>>
        /\ \A s \in Sessions : pending[s] = None
        /\ \A e \in Inputs : owned[e] = None
        /\ doomed = {}

\* An owned input is claimed or fenced, and a claim has an owner or an operation.
Claims ==
    \A e \in Inputs :
        /\ owned[e] # None => event[e] \in {"processing", "uncertain"}
        /\ owned[e] # None /\ phase = "up" => event[e] = "processing"
        /\ Handling(e) => event[e] = "processing"
        /\ phase \in {"up", "closed"} /\ bounds.lost = 0 /\ event[e] = "processing"
              => owned[e] # None \/ Handling(e)

\* While the service is up and no write was lost, an owned input is somewhere.
Somewhere(e) ==
    \/ \E s \in Sessions : Start(s, e) \/ Behind(s, e)
    \/ InReady(e) \/ InLane(e) \/ Resuming(e)
    \/ owned[e].reattach
Kept ==
    phase = "up" /\ bounds.lost = 0 => \A e \in Inputs : owned[e] # None => Somewhere(e)

Bounds == [delivered : SUBSET Inputs, repeated : Nat, restarts : Nat, disruptions : Nat,
           lost : Nat]

\* The history variables that the properties read.
HistoryOK ==
    /\ bounds \in Bounds
    /\ doomed \subseteq Inputs /\ crashed \in BOOLEAN

Carried ==
    /\ TypeOK /\ HistoryOK /\ Requests /\ Finite /\ Reattachments /\ Placement
    /\ Memory /\ Claims /\ Kept

\* What an input that was never sent looks like.
Fresh(e) == accepted[e] = 0 /\ rpc[e].state # "flying"

\* No process was killed and no write was lost.
Reliable == ~crashed /\ bounds.lost = 0

\* An input that may still be sent was not accepted: its event can be claimed, it
\* is being handled, it waits, or the next start of the service gives it back.
SentOnce(e) ==
    /\ event[e] \in {"absent", "failed"} => Fresh(e)
    /\ Handling(e) /\ op.step \in {"handle", "settle"} => Fresh(e)
    /\ Resuming(e) /\ op.step \in {"begin", "handle", "settle"} => Fresh(e)
    /\ phase = "up" /\ owned[e] # None /\ owned[e].queued /\ ~Resuming(e) => Fresh(e)
    /\ rpc[e].state \in {"flying", "refused"} => accepted[e] = 0
    /\ accepted[e] <= 1
    /\ phase \in {"fenced", "down"} /\ event[e] = "processing" /\ ~Handling(e) => Fresh(e)
    /\ phase \in {"fenced", "down"} /\ Resuming(e) => event[e] # "processing"
Once == Reliable => \A e \in Inputs : SentOnce(e)

\* A follow-up that a stop found waiting cannot be claimed again, and what is left
\* of it is cancelled.
NeverSent(e) ==
    /\ event[e] \notin {"absent", "failed"}
    /\ ~Handling(e)
    /\ Resuming(e) => op.step = "begin"
    /\ owned[e] # None => owned[e].queued /\ (owned[e].cancelled \/ phase # "up")
Doomed == \A e \in doomed : NeverSent(e)

----------------------------------------------------------------------------
(* Changes of the table of owned inputs *)

OwnedTable == [Inputs -> QueuedInput \cup {None}]

\* The same input after a change that keeps what it is and where it waits.
Alike(x, y) ==
    /\ y = None <=> x = None
    /\ x # None => /\ y.session = x.session /\ y.queued = x.queued
                   /\ y.reattach = x.reattach /\ (x.cancelled => y.cancelled)

\* Cancelling changes nothing but the flag.
LEMMA Cancels ==
    ASSUME NEW own \in OwnedTable, NEW es
    PROVE  /\ CancelQueued(own, es) \in OwnedTable
           /\ \A e \in Inputs : Alike(own[e], CancelQueued(own, es)[e])
           /\ \A e \in Inputs :
                 e \in es /\ own[e] # None /\ own[e].queued /\ ~own[e].reattach
                    => CancelQueued(own, es)[e].cancelled
<1> DEFINE new == CancelQueued(own, es)
<1>1. ASSUME NEW e \in Inputs
      PROVE  /\ new[e] \in QueuedInput \cup {None} /\ Alike(own[e], new[e])
             /\ e \in es /\ own[e] # None /\ own[e].queued /\ ~own[e].reattach
                   => new[e].cancelled
  <2>1. CASE own[e] = None
    BY <2>1 DEF CancelQueued, Alike
  <2>2. CASE own[e] # None
    <3>1. own[e] \in QueuedInput
      BY <2>2 DEF OwnedTable
    <3>2. [own[e] EXCEPT !.cancelled = TRUE] \in QueuedInput
      BY <3>1 DEF QueuedInput
    <3>3. /\ [own[e] EXCEPT !.cancelled = TRUE].session = own[e].session
          /\ [own[e] EXCEPT !.cancelled = TRUE].queued = own[e].queued
          /\ [own[e] EXCEPT !.cancelled = TRUE].reattach = own[e].reattach
          /\ [own[e] EXCEPT !.cancelled = TRUE].cancelled = TRUE
      BY <3>1 DEF QueuedInput
    <3>4. \/ new[e] = own[e] /\ ~(e \in es /\ own[e].queued /\ ~own[e].reattach)
          \/ new[e] = [own[e] EXCEPT !.cancelled = TRUE]
      BY <2>2 DEF CancelQueued
    <3> QED BY <2>2, <3>1, <3>2, <3>3, <3>4, NoneIsNothing DEF Alike
  <2> QED BY <2>1, <2>2
<1>2. new = [e \in Inputs |-> new[e]]
  BY DEF CancelQueued
<1> HIDE DEF new
<1>3. new \in OwnedTable
  BY <1>1, <1>2 DEF OwnedTable
<1> QED BY <1>1, <1>3 DEF new

\* An attachment that ends releases what waited for it, cancelled if it failed.
LEMMA Finishes ==
    ASSUME NEW own \in OwnedTable, NEW epochs \in Nat \cup {None}
    PROVE  /\ FinishedReattachment(own, epochs) \in OwnedTable
           /\ \A e \in Inputs :
                 LET x == own[e]
                     y == FinishedReattachment(own, epochs)[e]
                 IN  /\ x = None \/ ~x.reattach => y = x
                     /\ x # None /\ x.reattach =>
                           /\ y # None /\ y.session = x.session /\ y.queued = x.queued
                           /\ ~y.reattach /\ (x.cancelled \/ epochs = None => y.cancelled)
<1> DEFINE new == FinishedReattachment(own, epochs)
<1>1. ASSUME NEW e \in Inputs
      PROVE  /\ new[e] \in QueuedInput \cup {None}
             /\ own[e] = None \/ ~own[e].reattach => new[e] = own[e]
             /\ own[e] # None /\ own[e].reattach =>
                   /\ new[e] # None /\ new[e].session = own[e].session
                   /\ new[e].queued = own[e].queued
                   /\ ~new[e].reattach /\ (own[e].cancelled \/ epochs = None => new[e].cancelled)
  <2>1. CASE e \notin Reattaching(own)
    BY <2>1 DEF FinishedReattachment, Reattaching, OwnedTable
  <2>2. CASE e \in Reattaching(own)
    <3>1. own[e] \in QueuedInput
      BY <2>2 DEF OwnedTable, Reattaching
    <3>2. CASE epochs = None
      <4>1. new[e] = [own[e] EXCEPT !.reattach = FALSE, !.cancelled = TRUE]
        BY <2>2, <3>2 DEF FinishedReattachment
      <4>2. /\ new[e] \in QueuedInput /\ new[e].session = own[e].session
            /\ new[e].queued = own[e].queued /\ new[e].reattach = FALSE
            /\ new[e].cancelled = TRUE
        BY <3>1, <4>1 DEF QueuedInput
      <4> QED BY <2>2, <4>2, NoneIsNothing DEF Reattaching
    <3>3. CASE epochs # None
      <4>1. new[e] = [own[e] EXCEPT !.reattach = FALSE, !.epoch = epochs]
        BY <2>2, <3>3 DEF FinishedReattachment
      <4>2. /\ new[e] \in QueuedInput /\ new[e].session = own[e].session
            /\ new[e].queued = own[e].queued /\ new[e].reattach = FALSE
            /\ new[e].cancelled = own[e].cancelled
        BY <3>1, <3>3, <4>1 DEF QueuedInput
      <4> QED BY <2>2, <3>3, <4>2, NoneIsNothing DEF Reattaching
    <3> QED BY <3>2, <3>3
  <2> QED BY <2>1, <2>2
<1>2. new = [e \in Inputs |-> new[e]]
  BY DEF FinishedReattachment
<1> HIDE DEF new
<1>3. new \in OwnedTable
  BY <1>1, <1>2 DEF OwnedTable
<1> QED BY <1>1, <1>3 DEF new

\* Forgetting inputs leaves the others alone.
LEMMA Forgets ==
    ASSUME NEW own \in OwnedTable, NEW es
    PROVE  /\ Forget(own, es) \in OwnedTable
           /\ \A e \in Inputs : Forget(own, es)[e] = IF e \in es THEN None ELSE own[e]
BY DEF Forget, OwnedTable

----------------------------------------------------------------------------
(* Lost writes, and what the history records *)

\* The count of lost writes only grows,
LEMMA Losses ==
    ASSUME HistoryOK, NEW es, IsFiniteSet(es), LoseWrites(es)
    PROVE  /\ bounds' \in Bounds
           /\ bounds'.lost = 0 => bounds.lost = 0 /\ es = {}
<1>1. Cardinality(es) \in Nat /\ (Cardinality(es) = 0 <=> es = {})
  BY FS_CardinalityType, FS_EmptySet
<1>2. bounds' = [bounds EXCEPT !.lost = bounds.lost + Cardinality(es)]
  BY DEF LoseWrites
<1>3. bounds'.lost = bounds.lost + Cardinality(es) /\ bounds.lost \in Nat
  BY <1>2 DEF HistoryOK, Bounds
<1> QED BY <1>1, <1>2, <1>3 DEF HistoryOK, Bounds

\* The writes of one operation are few.
LEMMA FewWrites ==
    ASSUME Finite, Placement, TypeOK, NEW e \in Inputs
    PROVE  /\ \A lost \in SUBSET {e} : IsFiniteSet(lost)
           /\ \A s \in Sessions : Start(s, e) =>
                 /\ SeqRange(pending[s].queued) \subseteq Owned
                 /\ \A lost \in SUBSET ({e} \cup SeqRange(pending[s].queued)) :
                       IsFiniteSet(lost)
                 /\ \A lost \in SUBSET ({e} \cup {}) : IsFiniteSet(lost)
<1>1. IsFiniteSet({e})
  BY FS_Singleton
<1>2. \A lost \in SUBSET {e} : IsFiniteSet(lost)
  BY <1>1, FS_Subset
<1>3. ASSUME NEW s \in Sessions, Start(s, e)
      PROVE  /\ SeqRange(pending[s].queued) \subseteq Owned
             /\ e \in Owned
  <2>1. pending[s] # None
    BY <1>3 DEF Start
  <2>2. pending[s].queued \in Seq(Inputs)
    BY <2>1 DEF TypeOK, Pending
  <2>3. SeqRange(pending[s].queued) \subseteq Inputs
    BY <2>2 DEF SeqRange
  <2> QED BY <1>3, <2>1, <2>3 DEF Placement, StartsSound, BehindSound, Behind, Free, Owned
<1>4. \A lost \in SUBSET Owned : IsFiniteSet(lost)
  BY FS_Subset DEF Finite
<1> QED BY <1>2, <1>3, <1>4

\* The operation of an acknowledgement finds the start it is about.
LEMMA Acknowledges ==
    ASSUME Placement, TypeOK, op # None, op.from = "ack"
    PROVE  /\ op.input \in Inputs /\ rpc[op.input].session \in Sessions
           /\ Start(rpc[op.input].session, op.input)
           /\ rpc[op.input].state \in Answers
<1>1. op.input \in Inputs
  BY DEF TypeOK, Operation
<1> QED BY <1>1 DEF Placement, AcksSound, Answered, Doing

\* The history variables remain well formed.
LEMMA HistoryStep ==
    ASSUME Carried, [Next]_vars
    PROVE  /\ HistoryOK'
           /\ bounds'.lost = 0 => bounds.lost = 0
           /\ Reliable' => Reliable
<1> USE DEF Carried
<1> DEFINE Good == /\ bounds' \in Bounds
                   /\ bounds'.lost = 0 => bounds.lost = 0
                   /\ doomed' \in SUBSET Inputs
                   /\ crashed' \in BOOLEAN /\ (crashed => crashed')
<1>1. SUFFICES Good
  BY DEF HistoryOK, Reliable
<1>2. bounds \in Bounds /\ doomed \in SUBSET Inputs /\ crashed \in BOOLEAN
  BY DEF HistoryOK
<1>3. ASSUME UNCHANGED <<doomed, crashed>>, bounds' \in Bounds,
             bounds'.lost = 0 => bounds.lost = 0
      PROVE  Good
  BY <1>2, <1>3
<1> USE DEF history
<1>4. ASSUME UNCHANGED <<bounds, crashed>>, doomed' \in SUBSET Inputs
      PROVE  Good
  BY <1>2, <1>4
<1>6. /\ [bounds EXCEPT !.restarts = @ + 1] \in Bounds
      /\ [bounds EXCEPT !.restarts = @ + 1].lost = bounds.lost
  BY DEF HistoryOK, Bounds
<1>7. /\ [bounds EXCEPT !.disruptions = @ + 1] \in Bounds
      /\ [bounds EXCEPT !.disruptions = @ + 1].lost = bounds.lost
  BY DEF HistoryOK, Bounds
<1>8. \A e \in Inputs :
         /\ [bounds EXCEPT !.delivered = @ \cup {e}] \in Bounds
         /\ [bounds EXCEPT !.delivered = @ \cup {e}].lost = bounds.lost
         /\ [bounds EXCEPT !.repeated = @ + 1] \in Bounds
         /\ [bounds EXCEPT !.repeated = @ + 1].lost = bounds.lost
  BY DEF HistoryOK, Bounds
<1>9. ASSUME UNCHANGED <<bounds, history>> PROVE Good
  BY <1>2, <1>4, <1>9 DEF history
<1> HIDE DEF Good
<1>10. ASSUME NEW e \in Inputs, Deliver(e) PROVE Good
  BY <1>3, <1>8, <1>10 DEF Deliver
<1>11. CASE Claim
  BY <1>2, <1>4, <1>11 DEF Claim
<1>12. CASE TakeQueued
  <2>1. op.input \in Inputs
    BY <1>12 DEF TakeQueued, At, TypeOK, Operation
  <2>2. CASE UNCHANGED bounds
    BY <1>9, <1>12, <2>2 DEF TakeQueued
  <2>3. ASSUME NEW lost \in SUBSET {op.input}, LoseWrites(lost) PROVE Good
    BY <1>3, <1>12, <2>1, <2>3, FewWrites, Losses DEF TakeQueued
  <2> QED BY <1>12, <2>2, <2>3 DEF TakeQueued
<1>13. CASE SendPrompt
  BY <1>9, <1>13 DEF SendPrompt
<1>14. CASE Settle
  <2>1. op.input \in Inputs
    BY <1>14 DEF Settle, TypeOK, Operation
  <2>2. PICK lost \in SUBSET {op.input} : LoseWrites(lost)
    BY <1>14 DEF Settle
  <2> QED BY <1>3, <1>14, <2>1, <2>2, FewWrites, Losses DEF Settle
<1>15. CASE ApplyAcknowledged
  <2>1. op # None /\ op.from = "ack"
    BY <1>15 DEF ApplyAcknowledged, At
  <2>2. PICK lost \in SUBSET ({op.input} \cup
                 IF HandOn(rpc[op.input].session, op.input) THEN {}
                 ELSE SeqRange(pending[rpc[op.input].session].queued)) : LoseWrites(lost)
    BY <1>15 DEF ApplyAcknowledged
  <2>3. IsFiniteSet(lost)
    <3> HIDE DEF SeqRange
    <3> QED BY <2>1, <2>2, FewWrites, Acknowledges
  <2> QED BY <1>3, <1>15, <2>2, <2>3, Losses DEF ApplyAcknowledged
<1>16. CASE StopCurrent
  <2>1. Reattaching(owned) \in SUBSET Inputs /\ QueuedFor(bound) \in SUBSET Inputs
    BY DEF Reattaching, QueuedFor, Owned
  <2>2. doomed' = doomed \cup Reattaching(owned) \/ doomed' = doomed \cup Reattaching(owned) \cup QueuedFor(bound)
    BY <1>16 DEF StopCurrent
  <2> QED BY <1>2, <1>4, <1>16, <2>1, <2>2 DEF StopCurrent
<1>17. ASSUME LoseMemory, bounds' \in Bounds, bounds'.lost = bounds.lost PROVE Good
  <2>1. crashed' \in BOOLEAN /\ (crashed => crashed') /\ doomed' = {}
    BY <1>2, <1>17 DEF LoseMemory
  <2> QED BY <1>17, <2>1 DEF Good
<1>18. CASE Exit \/ Crash
  BY <1>2, <1>6, <1>17, <1>18 DEF Exit, Crash
<1>19. ASSUME NEW s \in Sessions, SessionExited(s) PROVE Good
  BY <1>3, <1>7, <1>19 DEF SessionExited, Disrupt
<1>20. CASE Reconnected
  BY <1>3, <1>7, <1>20 DEF Reconnected, Disrupt
<1>21. CASE Shutdown \/ WorkerPanics
  BY <1>3, <1>6, <1>21 DEF Shutdown, WorkerPanics
<1>22. CASE NextPending \/ Dispatch \/ DeferPrompt \/ KeepAwaiting \/ Attach \/ Attached
              \/ FenceOwned \/ AbortWorker \/ Restart
  BY <1>9, <1>22 DEF NextPending, Dispatch, DeferPrompt, KeepAwaiting, Attach, Attached,
        FenceOwned, AbortWorker, Restart
<1>23. CASE \/ \E e \in Inputs : AgentAnswers(e)
            \/ \E s \in Sessions : TurnStarted(s) \/ TurnCompleted(s)
  BY <1>9, <1>23 DEF AgentAnswers, TurnStarted, TurnCompleted
<1>24. CASE UNCHANGED vars
  BY <1>9, <1>24 DEF vars
<1> QED BY <1>10, <1>11, <1>12, <1>13, <1>14, <1>15, <1>16, <1>18, <1>19, <1>20, <1>21, <1>22,
           <1>23, <1>24 DEF Next, Progress, Operate

----------------------------------------------------------------------------
(* Types *)

EventsTyped == [Inputs -> EventStatus]

\* The writes of the store keep the events typed.
LEMMA Writes ==
    ASSUME NEW ev \in EventsTyped, NEW es, NEW result
    PROVE  /\ Complete(ev, es) \in EventsTyped /\ Fence(ev, es) \in EventsTyped
           /\ Release(ev, es) \in EventsTyped /\ Settled(ev, es, result) \in EventsTyped
<1>1. /\ \A fs : Complete(ev, fs) \in EventsTyped
      /\ \A fs : Fence(ev, fs) \in EventsTyped
      /\ \A fs : Release(ev, fs) \in EventsTyped
  BY DEF Complete, Fence, Release, EventsTyped, EventStatus
<1> QED BY <1>1 DEF Settled

\* The types, by the part of the state they are about.
StoreTyped == event \in EventsTyped /\ bound \in Sessions \cup {None} /\ epoch \in Nat
QueuesTyped == lane \in Seq(Work) /\ ready \in Seq(Inputs)
OpTyped == op \in Operation \cup {None}
InputsTyped ==
    /\ pending \in [Sessions -> Pending \cup {None}] /\ owned \in OwnedTable /\ nextSeq \in Nat
    /\ attaching \in Attachment \cup {None}
TurnsTyped ==
    /\ active \in [Sessions -> Inputs \cup {None}] /\ live \in [Sessions -> Inputs \cup {None}]
    /\ ended \subseteq Inputs /\ stops \subseteq Inputs
AgentTyped ==
    /\ rpc \in [Inputs -> Request] /\ accepted \in [Inputs -> Nat] /\ generation \in Nat
    /\ phase \in {"up", "closed", "fenced", "down"}
RoomTyped == Cardinality({s \in Sessions : pending[s] # None}) <= MaxPending

\* The types, part by part.
LEMMA TypeParts ==
    /\ TypeOK <=> /\ StoreTyped /\ QueuesTyped /\ OpTyped /\ InputsTyped /\ TurnsTyped
                  /\ AgentTyped /\ RoomTyped
    /\ TypeOK' <=> /\ StoreTyped' /\ QueuesTyped' /\ OpTyped' /\ InputsTyped' /\ TurnsTyped'
                   /\ AgentTyped' /\ RoomTyped'
BY DEF TypeOK, StoreTyped, QueuesTyped, OpTyped, InputsTyped, TurnsTyped, AgentTyped, RoomTyped,
       EventsTyped, OwnedTable

\* The store changes by its writes only.
LEMMA StoreTypes ==
    ASSUME Carried, [Next]_vars PROVE StoreTyped'
<1> USE DEF Carried
<1>1. event \in EventsTyped /\ bound \in Sessions \cup {None} /\ epoch \in Nat
  BY DEF TypeOK, EventsTyped
<1>2. CASE UNCHANGED store
  BY <1>1, <1>2 DEF StoreTyped, store
<1>3. ASSUME NEW e \in Inputs, Deliver(e) PROVE StoreTyped'
  <2>1. [event EXCEPT ![e] = "rejected"] \in EventsTyped
    BY <1>1 DEF EventsTyped, EventStatus
  <2> QED BY <1>1, <1>3, <2>1 DEF Deliver, StoreTyped
<1>4. CASE Claim
  <2>1. [event EXCEPT ![op.input] = "processing"] \in EventsTyped
    BY <1>1 DEF EventsTyped, EventStatus
  <2> QED BY <1>1, <1>4, <2>1 DEF Claim, StoreTyped
<1>5. CASE TakeQueued
  BY <1>1, <1>5, Writes DEF TakeQueued, StoreTyped
<1>6. CASE Settle
  <2>1. event' = event \/ event' = Settled(event, op.input, Outcome)
    BY <1>6 DEF Settle
  <2> QED BY <1>1, <1>6, <2>1, Writes DEF Settle, StoreTyped
<1>7. CASE ApplyAcknowledged
  <2>1. event' \in EventsTyped
    <3>1. event' = event \/ \E es : event' = Complete(Settled(event, op.input, rpc[op.input].state), es)
      BY <1>7 DEF ApplyAcknowledged
    <3> QED BY <1>1, <3>1, Writes
  <2> QED BY <1>1, <1>7, <2>1 DEF ApplyAcknowledged, StoreTyped
<1>8. CASE Attached
  <2>1. attaching.session \in Sessions
    BY <1>8 DEF Attached, TypeOK, Attachment
  <2> QED BY <1>1, <1>8, <2>1 DEF Attached, StoreTyped
<1>9. ASSUME NEW s \in Sessions, SessionExited(s) PROVE StoreTyped'
  BY <1>1, <1>9 DEF SessionExited, StoreTyped
<1>10. CASE WorkerPanics \/ AbortWorker \/ FenceOwned \/ Restart
  <2>1. event' \in EventsTyped
    BY <1>1, <1>10, Writes DEF WorkerPanics, AbortWorker, FenceOwned, Restart, Fenced
  <2> QED BY <1>1, <1>10, <2>1 DEF WorkerPanics, AbortWorker, FenceOwned, Restart, StoreTyped
<1>11. CASE SendPrompt \/ NextPending \/ Dispatch \/ DeferPrompt \/ KeepAwaiting \/ StopCurrent \/ Attach
            \/ Exit \/ Crash \/ Shutdown \/ Reconnected \/ UNCHANGED vars
  BY <1>2, <1>11 DEF SendPrompt, NextPending, Dispatch, DeferPrompt, KeepAwaiting, StopCurrent, Attach,
        Exit, Crash, Shutdown, Reconnected, vars, store
<1>12. CASE \/ \E e \in Inputs : AgentAnswers(e)
            \/ \E s \in Sessions : TurnStarted(s) \/ TurnCompleted(s)
  BY <1>2, <1>12 DEF AgentAnswers, TurnStarted, TurnCompleted
<1> QED BY <1>3, <1>4, <1>5, <1>6, <1>7, <1>8, <1>9, <1>10, <1>11, <1>12 DEF Next, Progress, Operate

\* Operations.
LEMMA OpTypes ==
    ASSUME Carried, [Next]_vars PROVE OpTyped'
<1> USE DEF Carried
<1>1. op \in Operation \cup {None} /\ lane \in Seq(Work)
  BY DEF TypeOK
<1>2. CASE UNCHANGED op \/ op' = None
  BY <1>1, <1>2 DEF OpTyped
<1>3. ASSUME op # None,
             NEW x \in {"begin", "handle", "window", "await", "settle"},
             NEW r \in {None, "ok", "refused"},
             op' = [op EXCEPT !.step = x] \/ op' = [op EXCEPT !.step = x, !.result = r]
      PROVE  OpTyped'
  <2>1. op \in Operation
    BY <1>1, <1>3
  <2> QED BY <1>3, <2>1 DEF Operation, OpTyped
<1>4. CASE Dispatch
  <2>1. Head(lane) \in Work
    BY <1>1, <1>4 DEF Dispatch
  <2> QED BY <1>4, <2>1 DEF Dispatch, OpTyped, Operation, Work
<1>5. CASE Claim \/ TakeQueued \/ KeepAwaiting
  BY <1>2, <1>3, <1>5 DEF Claim, TakeQueued, KeepAwaiting, At, EndOp
<1>6. CASE SendPrompt
  <2>1. op # None
    BY <1>6 DEF SendPrompt, At
  <2>2. \/ op' = None
        \/ \E r \in {"ok", "refused"} : op' = [op EXCEPT !.step = "settle", !.result = r]
        \/ \E x \in {"await", "window"} : op' = [op EXCEPT !.step = x]
    BY <1>6 DEF SendPrompt, QueueWaiting, Send, Result, EndOp
  <2> QED BY <1>2, <1>3, <2>1, <2>2
<1>7. CASE StopCurrent \/ Attach
  <2>1. op # None
    BY <1>7 DEF StopCurrent, Attach, At
  <2>2. \E r \in {"ok", "refused"} : op' = [op EXCEPT !.step = "settle", !.result = r]
    BY <1>7 DEF StopCurrent, Attach, Result
  <2> QED BY <1>2, <1>3, <2>1, <2>2
<1>8. CASE DeferPrompt \/ Settle \/ ApplyAcknowledged \/ WorkerPanics \/ AbortWorker \/ Exit \/ Crash
  BY <1>2, <1>8 DEF DeferPrompt, Settle, ApplyAcknowledged, WorkerPanics, AbortWorker, Exit, Crash,
        LoseMemory, EndOp
<1>9. CASE NextPending \/ Attached \/ FenceOwned \/ Restart \/ Shutdown \/ Reconnected \/ UNCHANGED vars
  BY <1>2, <1>9 DEF NextPending, Attached, FenceOwned, Restart, Shutdown, Reconnected, inputState, vars
<1>10. CASE \/ \E e \in Inputs : AgentAnswers(e) \/ Deliver(e)
            \/ \E s \in Sessions : TurnStarted(s) \/ TurnCompleted(s) \/ SessionExited(s)
  BY <1>2, <1>10 DEF AgentAnswers, Deliver, TurnStarted, TurnCompleted, SessionExited, inputState
<1> QED BY <1>4, <1>5, <1>6, <1>7, <1>8, <1>9, <1>10 DEF Next, Progress, Operate

\* The inputs that wait for an attachment are few, and made ready in order.
LEMMA ReadyAgain ==
    ASSUME TypeOK, Finite, NEW q \in ReadyAfter(owned)
    PROVE  /\ q \in Seq(Inputs)
           /\ SeqRange(q) = SeqRange(ready) \cup Reattaching(owned)
           /\ Distinct(ready) /\ SeqRange(ready) \cap Reattaching(owned) = {} => Distinct(q)
<1>1. Reattaching(owned) \in SUBSET Owned
  BY DEF Reattaching, Owned
<1>2. IsFiniteSet(Reattaching(owned))
  BY <1>1, FS_Subset DEF Finite
<1>3. \A e \in Reattaching(owned) : owned[e].seq \in Nat
  BY DEF Reattaching, TypeOK, QueuedInput
<1>4. ready \in Seq(Inputs)
  BY DEF TypeOK
<1> QED BY <1>2, <1>3, <1>4, RangeReady

\* The queues.
LEMMA QueueTypes ==
    ASSUME Carried, [Next]_vars PROVE QueuesTyped'
<1> USE DEF Carried
<1>1. lane \in Seq(Work) /\ ready \in Seq(Inputs)
  BY DEF TypeOK
<1>2. CASE UNCHANGED <<lane, ready>>
  BY <1>1, <1>2 DEF QueuesTyped
<1>3. ASSUME NEW e \in Inputs, Deliver(e) PROVE QueuesTyped'
  <2>1. [from |-> "inbound", input |-> e] \in Work
    BY DEF Work
  <2>2. lane' \in Seq(Work)
    BY <1>1, <1>3, <2>1 DEF Deliver
  <2> QED BY <1>1, <1>3, <2>2 DEF Deliver, QueuesTyped
<1>4. CASE NextPending
  <2>1. CASE ready # <<>> /\ lane' = Append(lane, [from |-> "queued", input |-> Head(ready)])
             /\ ready' = Tail(ready)
    <3>1. Head(ready) \in Inputs /\ Tail(ready) \in Seq(Inputs)
      BY <1>1, <2>1
    <3>2. [from |-> "queued", input |-> Head(ready)] \in Work
      BY <3>1 DEF Work
    <3> QED BY <1>1, <2>1, <3>1, <3>2 DEF QueuesTyped
  <2>2. ASSUME NEW e \in Acknowledgeable, lane' = Append(lane, AckWork(e)), UNCHANGED ready
        PROVE QueuesTyped'
    <3>1. e \in Inputs
      BY DEF Acknowledgeable, TypeOK, Pending
    <3>2. AckWork(e) \in Work
      BY <3>1 DEF Work, AckWork
    <3> QED BY <1>1, <2>2, <3>2 DEF QueuesTyped
  <2> QED BY <1>4, <2>1, <2>2 DEF NextPending
<1>5. CASE Dispatch
  BY <1>1, <1>5 DEF Dispatch, QueuesTyped
<1>6. CASE SendPrompt
  <2>1. op.input \in Inputs
    BY <1>6 DEF SendPrompt, At, TypeOK, Operation
  <2>2. ready' = ready \/ ready' = Append(ready, op.input)
    BY <1>6 DEF SendPrompt, QueueWaiting
  <2> QED BY <1>1, <1>6, <2>1, <2>2 DEF SendPrompt, QueuesTyped
<1>7. CASE ApplyAcknowledged
  <2>1. Start(rpc[op.input].session, op.input) /\ rpc[op.input].session \in Sessions
    BY <1>7, Acknowledges DEF ApplyAcknowledged, At
  <2>2. pending[rpc[op.input].session].queued \in Seq(Inputs)
    BY <2>1 DEF Start, TypeOK, Pending
  <2>3. ready' = ready \/ ready' = ready \o pending[rpc[op.input].session].queued
    BY <1>7 DEF ApplyAcknowledged
  <2>4. ready' \in Seq(Inputs)
    <3>1. ready \o pending[rpc[op.input].session].queued \in Seq(Inputs)
      BY <1>1, <2>2
    <3> QED BY <1>1, <2>3, <3>1
  <2>5. UNCHANGED lane
    BY <1>7 DEF ApplyAcknowledged
  <2> QED BY <1>1, <2>4, <2>5 DEF QueuesTyped
<1>8. ASSUME NEW q \in ReadyAfter(owned), ready' = q, UNCHANGED lane PROVE QueuesTyped'
  BY <1>1, <1>8, ReadyAgain DEF QueuesTyped
<1>9. CASE StopCurrent \/ Attach \/ Attached
  <2>1. UNCHANGED lane /\ (ready' = ready \/ ready' \in ReadyAfter(owned))
    BY <1>9 DEF StopCurrent, Attach, Attached
  <2> QED BY <1>2, <1>8, <2>1
<1>10. ASSUME NEW s \in Sessions, SessionExited(s) PROVE QueuesTyped'
  <2>1. UNCHANGED lane /\ (ready' = ready \/ ready' \in ReadyAfter(owned))
    BY <1>10 DEF SessionExited
  <2> QED BY <1>2, <1>8, <2>1
<1>11. CASE Exit \/ Crash
  <2>1. lane' = <<>> /\ ready' = <<>>
    BY <1>11 DEF Exit, Crash, LoseMemory
  <2> QED BY <2>1 DEF QueuesTyped
<1>12. CASE \/ Claim \/ TakeQueued \/ DeferPrompt \/ KeepAwaiting \/ Settle \/ FenceOwned \/ AbortWorker
            \/ WorkerPanics \/ Restart \/ Shutdown \/ Reconnected \/ UNCHANGED vars
  BY <1>2, <1>12 DEF Claim, TakeQueued, DeferPrompt, KeepAwaiting, Settle, FenceOwned, AbortWorker,
        WorkerPanics, Restart, Shutdown, Reconnected, inputState, vars
<1>13. CASE \/ \E e \in Inputs : AgentAnswers(e)
            \/ \E s \in Sessions : TurnStarted(s) \/ TurnCompleted(s)
  BY <1>2, <1>13 DEF AgentAnswers, TurnStarted, TurnCompleted, inputState
<1> QED BY <1>3, <1>4, <1>5, <1>6, <1>7, <1>9, <1>10, <1>11, <1>12, <1>13 DEF Next, Progress, Operate

\* A change of a start that keeps its input and what waits behind it.
SameStart(x, y) ==
    /\ y = None <=> x = None
    /\ x # None => y.input = x.input /\ y.queued = x.queued

\* Such a change keeps the table of starts well formed.
LEMMA Touches ==
    ASSUME TypeOK, NEW s \in Sessions, pending[s] # None, NEW y \in Pending,
           y.input = pending[s].input, y.queued = pending[s].queued,
           NEW new, new = [pending EXCEPT ![s] = y]
    PROVE  /\ new \in [Sessions -> Pending \cup {None}]
           /\ \A r \in Sessions : SameStart(pending[r], new[r])
BY NoneIsNothing DEF TypeOK, SameStart

\* The inputs, starts and attachments.
LEMMA InputTypes ==
    ASSUME Carried, [Next]_vars PROVE InputsTyped'
<1> USE DEF Carried
<1>1. /\ pending \in [Sessions -> Pending \cup {None}] /\ owned \in OwnedTable /\ nextSeq \in Nat
      /\ attaching \in Attachment \cup {None}
  BY DEF TypeOK, OwnedTable
<1>2. CASE UNCHANGED <<pending, owned, nextSeq, attaching>>
  BY <1>1, <1>2 DEF InputsTyped
<1>3. CASE TakeQueued \/ Settle
  <2>1. UNCHANGED <<pending, nextSeq, attaching>> /\ (owned' = owned \/ \E es : owned' = Forget(owned, es))
    BY <1>3 DEF TakeQueued, Settle
  <2> QED BY <1>1, <2>1, Forgets DEF InputsTyped
<1>4. CASE SendPrompt
  <2>1. op.input \in Inputs
    BY <1>4 DEF SendPrompt, At, TypeOK, Operation
  <2>2. UNCHANGED <<pending, owned, nextSeq>>
        \/ \E s \in Sessions, b \in BOOLEAN : QueueWaiting(op.input, s, b)
    <3>1. attaching # None => attaching.session \in Sessions
      BY <1>1 DEF Attachment
    <3>2. bound \in Writable => bound \in Sessions
      BY SessionsTyped
    <3> QED BY <1>4, <3>1, <3>2 DEF SendPrompt
  <2>3. ASSUME NEW s \in Sessions, NEW b \in BOOLEAN, QueueWaiting(op.input, s, b)
        PROVE  pending' \in [Sessions -> Pending \cup {None}] /\ owned' \in OwnedTable /\ nextSeq' \in Nat
    <3> DEFINE e == op.input
               new == [session |-> s, epoch |-> epoch, generation |-> generation,
                       queued |-> TRUE, cancelled |-> FALSE, reattach |-> b,
                       seq |-> IF owned[e] # None THEN owned[e].seq ELSE nextSeq]
    <3>1. CASE UNCHANGED <<pending, owned, nextSeq>>
      BY <1>1, <3>1
    <3>2. CASE /\ owned' = [owned EXCEPT ![e] = new]
               /\ nextSeq' = IF owned[e] # None THEN nextSeq ELSE nextSeq + 1
               /\ pending' = IF ~b /\ pending[s] # None
                     THEN [pending EXCEPT ![s].queued = InsertByAge(pending[s].queued, e, owned')]
                     ELSE pending
      <4>1. (IF owned[e] # None THEN owned[e].seq ELSE nextSeq) \in Nat
        BY <1>1, <2>1 DEF OwnedTable, QueuedInput
      <4>2. new \in QueuedInput
        BY <4>1 DEF QueuedInput, TypeOK
      <4>3. owned' \in OwnedTable
        <5> HIDE DEF new
        <5> QED BY <1>1, <2>1, <3>2, <4>2 DEF OwnedTable
      <4>4. nextSeq' \in Nat
        BY <1>1, <3>2
      <4>5. CASE pending[s] # None
        <5>1. pending[s] \in Pending /\ pending[s].queued \in Seq(Inputs)
          BY <1>1, <4>5 DEF Pending
        <5>2. InsertByAge(pending[s].queued, e, owned') \in Seq(Inputs)
          BY <2>1, <5>1, RangeInsert
        <5>3. [pending[s] EXCEPT !.queued = InsertByAge(pending[s].queued, e, owned')] \in Pending
          BY <5>1, <5>2 DEF Pending
        <5> QED BY <1>1, <3>2, <4>3, <4>4, <5>3
      <4> QED BY <1>1, <3>2, <4>3, <4>4, <4>5
    <3> QED BY <2>3, <3>1, <3>2 DEF QueueWaiting
  <2> QED BY <1>1, <1>4, <2>2, <2>3 DEF SendPrompt, InputsTyped
<1>5. CASE DeferPrompt
  <2> DEFINE e == op.input
             s == rpc[e].session
             new == [session |-> s, epoch |-> epoch, generation |-> rpc[e].generation,
                     queued |-> FALSE, cancelled |-> FALSE, reattach |-> FALSE, seq |-> 0]
             start == [input |-> e, stop |-> FALSE, applied |-> FALSE, valid |-> TRUE,
                       observed |-> None, queued |-> <<>>]
  <2>1. e \in Inputs /\ Sent(e)
    BY <1>5 DEF DeferPrompt, At, TypeOK, Operation, Placement, OpSound
  <2>2. s \in Sessions
    BY <2>1 DEF Requests
  <2>3. rpc[e].generation \in Nat
    BY <2>1 DEF TypeOK, Request
  <2>4. new \in QueuedInput
    BY <2>2, <2>3 DEF QueuedInput, TypeOK
  <2>5. start \in Pending
    BY <2>1 DEF Pending
  <2>6. owned' = [owned EXCEPT ![e] = new] /\ pending' = [pending EXCEPT ![s] = start]
    BY <1>5 DEF DeferPrompt
  <2> HIDE DEF e, s, new, start
  <2>7. owned' \in OwnedTable
    BY <1>1, <2>1, <2>4, <2>6 DEF OwnedTable
  <2>8. pending' \in [Sessions -> Pending \cup {None}]
    BY <1>1, <2>2, <2>5, <2>6
  <2>9. UNCHANGED <<nextSeq, attaching>>
    BY <1>5 DEF DeferPrompt
  <2> QED BY <1>1, <2>7, <2>8, <2>9 DEF InputsTyped
<1>6. CASE ApplyAcknowledged
  <2>1. owned' \in OwnedTable
    <3>1. owned' = owned \/ \E es : owned' = Forget(owned, es)
      BY <1>6 DEF ApplyAcknowledged
    <3> QED BY <1>1, <3>1, Forgets
  <2>2. pending' \in [Sessions -> Pending \cup {None}]
    BY <1>1, <1>6 DEF ApplyAcknowledged
  <2> QED BY <1>1, <1>6, <2>1, <2>2 DEF ApplyAcknowledged, InputsTyped
<1>7. FinishedReattachment(owned, None) \in OwnedTable
  BY <1>1, Finishes
<1>8. \A own \in OwnedTable : \A s : CancelSession(own, s) \in OwnedTable
  BY Cancels DEF CancelSession
<1>9. CASE StopCurrent
  <2>1. owned' \in OwnedTable
    BY <1>1, <1>7, <1>8, <1>9 DEF StopCurrent
  <2>2. pending' = pending \/ (bound \in Sessions /\ \E b \in BOOLEAN : pending' = StopRequested(bound, b))
    BY <1>9, SessionsTyped DEF StopCurrent
  <2>3. ASSUME bound \in Sessions, NEW b \in BOOLEAN, pending' = StopRequested(bound, b), pending[bound] # None
        PROVE  pending' \in [Sessions -> Pending \cup {None}]
    <3> DEFINE y == [pending[bound] EXCEPT !.stop = TRUE,
                        !.applied = pending[bound].applied \/ (b /\ pending[bound].valid)]
    <3>1. pending[bound] \in Pending
      BY <1>1, <2>3
    <3>2. y \in Pending
      BY <3>1 DEF Pending
    <3>3. pending' = [pending EXCEPT ![bound] = y]
      BY <2>3 DEF StopRequested
    <3> HIDE DEF y
    <3> QED BY <1>1, <2>3, <3>2, <3>3
  <2>4. pending' \in [Sessions -> Pending \cup {None}]
    BY <1>1, <2>2, <2>3 DEF StopRequested
  <2> QED BY <1>1, <1>9, <2>1, <2>4 DEF StopCurrent, InputsTyped
<1>10. CASE Attach
  <2>1. owned' \in OwnedTable
    BY <1>1, <1>7, <1>10 DEF Attach
  <2>2. op.input \in Inputs
    BY <1>10 DEF Attach, At, TypeOK, Operation
  <2>3. attaching' \in Attachment \cup {None}
    BY <1>10, <2>2, TargetsTyped DEF Attach, Attachment, TypeOK
  <2> QED BY <1>1, <1>10, <2>1, <2>3 DEF Attach, InputsTyped
<1>11. CASE Attached
  <2>1. CancelQueued(owned, Inputs) \in OwnedTable
    BY <1>1, Cancels
  <2>2. \A e \in {None, epoch + 1} : e \in Nat \cup {None}
    BY DEF TypeOK
  <2>3. \A e \in {None, epoch + 1} : FinishedReattachment(CancelQueued(owned, Inputs), e) \in OwnedTable
    BY <2>1, <2>2, Finishes
  <2>4. owned' \in OwnedTable
    BY <1>7, <1>11, <2>3 DEF Attached
  <2> QED BY <1>1, <1>11, <2>4 DEF Attached, InputsTyped
<1>12. ASSUME NEW s \in Sessions, TurnStarted(s) PROVE InputsTyped'
  <2>1. pending' \in [Sessions -> Pending \cup {None}]
    <3>1. CASE pending[s] = None
      BY <1>1, <1>12, <3>1 DEF TurnStarted
    <3>2. CASE pending[s] # None
      <4>1. PICK o \in Inputs \cup {None}, b \in BOOLEAN :
               pending' = [pending EXCEPT ![s] = [pending[s] EXCEPT !.observed = o, !.applied = b]]
        <5>1. pending[s] \in Pending /\ live[s] \in Inputs \cup {None}
          BY <1>1, <3>2 DEF TypeOK
        <5>2. pending[s].observed \in Inputs \cup {None} /\ pending[s].applied \in BOOLEAN
              /\ pending[s].valid \in BOOLEAN /\ pending[s].stop \in BOOLEAN
          BY <5>1 DEF Pending
        <5> QED BY <1>12, <3>2, <5>1, <5>2 DEF TurnStarted
      <4>2. [pending[s] EXCEPT !.observed = o, !.applied = b] \in Pending
        BY <1>1, <3>2 DEF Pending
      <4> QED BY <1>1, <4>1, <4>2
    <3> QED BY <3>1, <3>2
  <2> QED BY <1>1, <1>12, <2>1 DEF TurnStarted, InputsTyped
<1>13. ASSUME NEW s \in Sessions, SessionExited(s) PROVE InputsTyped'
  <2>1. owned' \in OwnedTable
    BY <1>1, <1>7, <1>8, <1>13 DEF SessionExited
  <2>2. pending[s] # None => [pending[s] EXCEPT !.valid = FALSE] \in Pending
    BY <1>1 DEF Pending
  <2>3. pending' \in [Sessions -> Pending \cup {None}]
    BY <1>1, <1>13, <2>2 DEF SessionExited
  <2>4. attaching' \in Attachment \cup {None} /\ nextSeq' \in Nat
    BY <1>1, <1>13 DEF SessionExited
  <2> QED BY <2>1, <2>3, <2>4 DEF InputsTyped
<1>14. CASE Exit \/ Crash
  BY <1>14 DEF Exit, Crash, LoseMemory, InputsTyped, OwnedTable
<1>15. CASE Shutdown \/ WorkerPanics
  BY <1>1, <1>15 DEF Shutdown, WorkerPanics, InputsTyped
<1>16. CASE \/ Claim \/ NextPending \/ Dispatch \/ KeepAwaiting \/ FenceOwned \/ AbortWorker
            \/ Restart \/ Reconnected \/ UNCHANGED vars
  BY <1>2, <1>16 DEF Claim, NextPending, Dispatch, KeepAwaiting, FenceOwned, AbortWorker,
        Restart, Reconnected, inputState, vars
<1>17. CASE \/ \E e \in Inputs : AgentAnswers(e) \/ Deliver(e)
            \/ \E s \in Sessions : TurnCompleted(s)
  BY <1>2, <1>17 DEF AgentAnswers, Deliver, TurnCompleted, inputState
<1> QED BY <1>3, <1>4, <1>5, <1>6, <1>9, <1>10, <1>11, <1>12, <1>13, <1>14, <1>15, <1>16, <1>17
        DEF Next, Progress, Operate

\* The turns.
LEMMA TurnTypes ==
    ASSUME Carried, [Next]_vars PROVE TurnsTyped'
<1> USE DEF Carried
<1>1. /\ active \in [Sessions -> Inputs \cup {None}] /\ live \in [Sessions -> Inputs \cup {None}]
      /\ ended \subseteq Inputs /\ stops \subseteq Inputs
  BY DEF TypeOK
<1>2. CASE UNCHANGED <<active, live, ended, stops>>
  BY <1>1, <1>2 DEF TurnsTyped
<1>3. CASE Settle
  <2>1. op.input \in Inputs
    BY <1>3 DEF Settle, TypeOK, Operation
  <2>2. rpc[op.input].turn \in Inputs \cup {None}
    BY <2>1 DEF TypeOK, Request
  <2> QED BY <1>1, <1>3, <2>2 DEF Settle, TurnsTyped
<1>4. CASE ApplyAcknowledged
  <2>1. op.input \in Inputs
    BY <1>4, Acknowledges DEF ApplyAcknowledged, At
  <2>2. /\ rpc[op.input].turn \in Inputs \cup {None}
        /\ rpc[op.input].state = "accepted" => rpc[op.input].turn \in Inputs
    BY <2>1 DEF TypeOK, Request, Requests
  <2>3. active' \in [Sessions -> Inputs \cup {None}]
    BY <1>1, <1>4, <2>2 DEF ApplyAcknowledged
  <2>4. stops' \subseteq Inputs
    BY <1>1, <1>4, <2>2 DEF ApplyAcknowledged
  <2> QED BY <1>1, <1>4, <2>3, <2>4 DEF ApplyAcknowledged, TurnsTyped
<1>5. CASE StopCurrent
  <2>1. bound \in Writable => bound \in Sessions
    BY SessionsTyped
  <2>2. bound \in Sessions => KnownTurn(bound) \in Inputs \cup {None}
    BY <1>1 DEF KnownTurn, TypeOK, Pending
  <2>3. stops' = stops
        \/ (bound \in Writable /\ KnownTurn(bound) # None /\ stops' = stops \cup {KnownTurn(bound)})
    BY <1>5 DEF StopCurrent
  <2>4. UNCHANGED <<active, live, ended>>
    BY <1>5 DEF StopCurrent, turnState
  <2>5. stops' \subseteq Inputs
    <3> HIDE DEF Carried
    <3> QED BY <1>1, <2>1, <2>2, <2>3
  <2> QED BY <1>1, <2>4, <2>5 DEF TurnsTyped
<1>6. ASSUME NEW s \in Sessions, TurnStarted(s) PROVE TurnsTyped'
  BY <1>1, <1>6 DEF TurnStarted, TurnsTyped
<1>7. ASSUME NEW s \in Sessions, TurnCompleted(s) PROVE TurnsTyped'
  BY <1>1, <1>7 DEF TurnCompleted, TurnsTyped
<1>8. ASSUME NEW s \in Sessions, SessionExited(s) PROVE TurnsTyped'
  BY <1>1, <1>8 DEF SessionExited, TurnsTyped
<1>9. ASSUME NEW e \in Inputs, AgentAnswers(e) PROVE TurnsTyped'
  <2>1. rpc[e].session \in Sessions
    BY <1>9 DEF AgentAnswers, Requests, Sent
  <2>2. (IF live[rpc[e].session] = None THEN e ELSE live[rpc[e].session]) \in Inputs
    BY <1>1, <1>9, <2>1
  <2> QED BY <1>1, <1>9, <2>2 DEF AgentAnswers, TurnsTyped, turnState
<1>10. CASE Exit \/ Crash
  BY <1>1, <1>10 DEF Exit, Crash, LoseMemory, TurnsTyped, agent
<1>11. CASE Restart
  <2>1. active' \in [Sessions -> Inputs \cup {None}]
    BY <1>1, <1>11 DEF Restart
  <2> QED BY <1>1, <1>11, <2>1 DEF Restart, TurnsTyped, agent
<1>12. CASE \/ Claim \/ TakeQueued \/ SendPrompt \/ DeferPrompt \/ KeepAwaiting \/ NextPending
            \/ Dispatch \/ Attach \/ Attached \/ FenceOwned \/ AbortWorker \/ WorkerPanics
            \/ Shutdown \/ Reconnected \/ UNCHANGED vars
  BY <1>2, <1>12 DEF Claim, TakeQueued, SendPrompt, DeferPrompt, KeepAwaiting, NextPending,
        Dispatch, Attach, Attached, FenceOwned, AbortWorker, WorkerPanics,
        Shutdown, Reconnected, turnState, agent, vars
<1>13. ASSUME NEW e \in Inputs, Deliver(e) PROVE TurnsTyped'
  BY <1>2, <1>13 DEF Deliver, turnState, agent
<1> QED BY <1>3, <1>4, <1>5, <1>6, <1>7, <1>8, <1>9, <1>10, <1>11, <1>12, <1>13
        DEF Next, Progress, Operate

\* Requests.  Only three actions touch them: sending, the agent's answer, and the
\* end of the operation that waited for it.
LEMMA RequestSteps ==
    ASSUME Carried, [Next]_vars
    PROVE  \/ UNCHANGED <<rpc, accepted>>
           \/ SendPrompt /\ Send(op.input, bound) /\ bound \in Sessions /\ op.input \in Inputs
              /\ UNCHANGED accepted
           \/ \E e \in Inputs : AgentAnswers(e)
           \/ /\ Settle \/ ApplyAcknowledged
              /\ op.input \in Inputs /\ rpc' = [rpc EXCEPT ![op.input] = NoRequest]
              /\ UNCHANGED accepted
<1> USE DEF Carried
<1>1. op # None => op.input \in Inputs
  BY DEF TypeOK, Operation
<1>2. CASE SendPrompt
  BY <1>1, <1>2, SessionsTyped DEF SendPrompt, At
<1>3. CASE Settle \/ ApplyAcknowledged
  BY <1>1, <1>3 DEF Settle, ApplyAcknowledged, At
<1>4. CASE \/ Claim \/ TakeQueued \/ DeferPrompt \/ KeepAwaiting \/ NextPending \/ StopCurrent
           \/ Dispatch \/ Attach \/ Attached \/ FenceOwned \/ AbortWorker \/ WorkerPanics
           \/ Shutdown \/ Reconnected \/ Exit \/ Crash \/ Restart \/ UNCHANGED vars
  BY <1>4 DEF Claim, TakeQueued, DeferPrompt, KeepAwaiting, NextPending, StopCurrent,
        Dispatch, Attach, Attached, FenceOwned, AbortWorker, WorkerPanics,
        Shutdown, Reconnected, Exit, Crash, Restart, agent, vars
<1>5. ASSUME NEW s \in Sessions, TurnStarted(s) \/ TurnCompleted(s) \/ SessionExited(s)
      PROVE  UNCHANGED <<rpc, accepted>>
  BY <1>5 DEF TurnStarted, TurnCompleted, SessionExited
<1>6. ASSUME NEW e \in Inputs, Deliver(e) PROVE UNCHANGED <<rpc, accepted>>
  BY <1>6 DEF Deliver, agent
<1> QED BY <1>2, <1>3, <1>4, <1>5, <1>6 DEF Next, Progress, Operate

\* What an answer of the agent changes.
LEMMA Answer ==
    ASSUME TypeOK, Requests, NEW e \in Inputs, AgentAnswers(e)
    PROVE  /\ rpc' \in [Inputs -> Request] /\ accepted' \in [Inputs -> Nat]
           /\ rpc[e].state = "flying"
           /\ rpc'[e].state \in Answers /\ rpc'[e].session = rpc[e].session
           /\ rpc'[e].state = "accepted" => rpc'[e].turn \in Inputs
           /\ accepted'[e] = accepted[e] \/ (accepted'[e] = accepted[e] + 1 /\ rpc'[e].state # "refused")
           /\ \A f \in Inputs \ {e} : rpc'[f] = rpc[f] /\ accepted'[f] = accepted[f]
<1> DEFINE s == rpc[e].session
           turn == IF live[s] = None THEN e ELSE live[s]
<1>1. rpc[e] \in Request /\ rpc[e].state = "flying" /\ s \in Sessions /\ accepted[e] \in Nat
  BY DEF TypeOK, AgentAnswers, Requests, Sent
<1>2. turn \in Inputs
  BY <1>1 DEF TypeOK
<1>3. PICK r \in Request :
         /\ rpc' = [rpc EXCEPT ![e] = r] /\ r.session = s
         /\ \/ r.state \in {"refused", "unknown"} /\ accepted' = accepted
            \/ /\ r.state \in {"accepted", "unknown"} /\ r.turn \in Inputs
               /\ accepted' = [accepted EXCEPT ![e] = accepted[e] + 1]
  <2> HIDE DEF turn
  <2>1. CASE rpc' = [rpc EXCEPT ![e].state = "refused"] /\ UNCHANGED accepted
    <3>1. [rpc[e] EXCEPT !.state = "refused"] \in Request
          /\ [rpc[e] EXCEPT !.state = "refused"].state = "refused"
          /\ [rpc[e] EXCEPT !.state = "refused"].session = s
      BY <1>1 DEF Request
    <3> QED BY <2>1, <3>1
  <2>2. CASE rpc' = [rpc EXCEPT ![e].state = "unknown"] /\ UNCHANGED accepted
    <3>1. [rpc[e] EXCEPT !.state = "unknown"] \in Request
          /\ [rpc[e] EXCEPT !.state = "unknown"].state = "unknown"
          /\ [rpc[e] EXCEPT !.state = "unknown"].session = s
      BY <1>1 DEF Request
    <3> QED BY <2>2, <3>1
  <2>3. ASSUME NEW x \in {"accepted", "unknown"},
               rpc' = [rpc EXCEPT ![e] = [rpc[e] EXCEPT !.state = x, !.turn = turn]],
               accepted' = [accepted EXCEPT ![e] = accepted[e] + 1]
        PROVE \E r \in Request :
                 /\ rpc' = [rpc EXCEPT ![e] = r] /\ r.session = s
                 /\ r.state \in {"accepted", "unknown"} /\ r.turn \in Inputs
    <3>1. /\ [rpc[e] EXCEPT !.state = x, !.turn = turn] \in Request
          /\ [rpc[e] EXCEPT !.state = x, !.turn = turn].state = x
          /\ [rpc[e] EXCEPT !.state = x, !.turn = turn].turn = turn
          /\ [rpc[e] EXCEPT !.state = x, !.turn = turn].session = s
      BY <1>1, <1>2 DEF Request
    <3> QED BY <1>2, <2>3, <3>1
  <2>4. \/ rpc' = [rpc EXCEPT ![e].state = "refused"] /\ UNCHANGED accepted
        \/ rpc' = [rpc EXCEPT ![e].state = "unknown"] /\ UNCHANGED accepted
        \/ \E x \in {"accepted", "unknown"} :
              /\ rpc' = [rpc EXCEPT ![e] = [rpc[e] EXCEPT !.state = x, !.turn = turn]]
              /\ accepted' = [accepted EXCEPT ![e] = accepted[e] + 1]
    BY DEF AgentAnswers, turn
  <2> QED BY <2>1, <2>2, <2>3, <2>4
<1>4. rpc' \in [Inputs -> Request] /\ rpc'[e] = r /\ \A f \in Inputs \ {e} : rpc'[f] = rpc[f]
  BY <1>3 DEF TypeOK
<1>5. /\ accepted' \in [Inputs -> Nat] /\ \A f \in Inputs \ {e} : accepted'[f] = accepted[f]
      /\ \/ r.state \in {"refused", "unknown"} /\ accepted'[e] = accepted[e]
         \/ /\ r.state \in {"accepted", "unknown"} /\ r.turn \in Inputs
            /\ accepted'[e] = accepted[e] + 1
  <2>1. accepted \in [Inputs -> Nat]
    BY DEF TypeOK
  <2>2. CASE r.state \in {"refused", "unknown"} /\ accepted' = accepted
    BY <2>1, <2>2
  <2>3. CASE /\ r.state \in {"accepted", "unknown"} /\ r.turn \in Inputs
             /\ accepted' = [accepted EXCEPT ![e] = accepted[e] + 1]
    BY <1>1, <2>1, <2>3
  <2> QED BY <1>3, <2>2, <2>3
<1> QED BY <1>1, <1>3, <1>4, <1>5 DEF Answers

\* The requests and the agent.
LEMMA AgentTypes ==
    ASSUME Carried, [Next]_vars PROVE AgentTyped' /\ Requests'
<1> USE DEF Carried
<1>1. rpc' \in [Inputs -> Request] /\ accepted' \in [Inputs -> Nat] /\ Requests'
  <2>1. rpc \in [Inputs -> Request] /\ accepted \in [Inputs -> Nat]
    BY DEF TypeOK
  <2>2. CASE UNCHANGED <<rpc, accepted>>
    BY <2>1, <2>2 DEF Requests, Sent
  <2>3. ASSUME NEW e \in Inputs, NEW r \in Request, rpc' = [rpc EXCEPT ![e] = r], UNCHANGED accepted,
               r.state # "none" => r.session \in Sessions, r.state # "accepted"
        PROVE  rpc' \in [Inputs -> Request] /\ accepted' \in [Inputs -> Nat] /\ Requests'
    <3>1. rpc' \in [Inputs -> Request] /\ \A f \in Inputs : rpc'[f] = IF f = e THEN r ELSE rpc[f]
      BY <2>1, <2>3
    <3> QED BY <2>1, <2>3, <3>1 DEF Requests, Sent
  <2>4. CASE Send(op.input, bound) /\ bound \in Sessions /\ op.input \in Inputs /\ UNCHANGED accepted
    <3>1. [state |-> "flying", session |-> bound, turn |-> None, generation |-> generation] \in Request
      BY <2>4 DEF Request, TypeOK
    <3> QED BY <2>3, <2>4, <3>1 DEF Send
  <2>5. CASE op.input \in Inputs /\ rpc' = [rpc EXCEPT ![op.input] = NoRequest] /\ UNCHANGED accepted
    <3>1. NoRequest \in Request /\ NoRequest.state = "none"
      BY DEF NoRequest, Request
    <3> QED BY <2>3, <2>5, <3>1
  <2>6. ASSUME NEW e \in Inputs, AgentAnswers(e)
        PROVE  rpc' \in [Inputs -> Request] /\ accepted' \in [Inputs -> Nat] /\ Requests'
    <3>1. rpc[e].session \in Sessions
      BY <2>6 DEF AgentAnswers, Requests, Sent
    <3> QED BY <2>6, <3>1, Answer DEF Requests, Sent
  <2> QED BY <2>2, <2>4, <2>5, <2>6, RequestSteps
<1>2. generation' \in Nat
  <2>1. generation' = generation \/ generation' = generation + 1
    <3>1. CASE \/ Claim \/ TakeQueued \/ DeferPrompt \/ KeepAwaiting \/ NextPending \/ StopCurrent
           \/ Dispatch \/ Attach \/ Attached \/ FenceOwned \/ AbortWorker \/ WorkerPanics
           \/ Shutdown \/ Reconnected \/ Exit \/ Crash \/ Restart \/ UNCHANGED vars
           \/ SendPrompt \/ Settle \/ ApplyAcknowledged
      BY <3>1 DEF Claim, TakeQueued, DeferPrompt, KeepAwaiting, NextPending, StopCurrent,
        Dispatch, Attach, Attached, FenceOwned, AbortWorker, WorkerPanics, SendPrompt, Settle,
        Shutdown, Reconnected, Exit, Crash, Restart, ApplyAcknowledged, agent, vars
    <3>2. ASSUME NEW s \in Sessions, TurnStarted(s) \/ TurnCompleted(s) \/ SessionExited(s)
          PROVE  UNCHANGED generation
      BY <3>2 DEF TurnStarted, TurnCompleted, SessionExited
    <3>3. ASSUME NEW e \in Inputs, Deliver(e) \/ AgentAnswers(e) PROVE UNCHANGED generation
      BY <3>3 DEF Deliver, AgentAnswers, agent
    <3> QED BY <3>1, <3>2, <3>3 DEF Next, Progress, Operate
  <2> QED BY <2>1 DEF TypeOK
<1>3. phase' \in {"up", "closed", "fenced", "down"}
  <2>1. phase' \in {phase, "up", "closed", "fenced", "down"}
    <3>1. CASE \/ Claim \/ TakeQueued \/ DeferPrompt \/ KeepAwaiting \/ NextPending \/ StopCurrent
           \/ Dispatch \/ Attach \/ Attached \/ FenceOwned \/ AbortWorker \/ WorkerPanics
           \/ Shutdown \/ Reconnected \/ Exit \/ Crash \/ Restart \/ UNCHANGED vars
           \/ SendPrompt \/ Settle \/ ApplyAcknowledged
      BY <3>1 DEF Claim, TakeQueued, DeferPrompt, KeepAwaiting, NextPending, StopCurrent,
        Dispatch, Attach, Attached, FenceOwned, AbortWorker, WorkerPanics, SendPrompt, Settle,
        Shutdown, Reconnected, Exit, Crash, Restart, ApplyAcknowledged, LoseMemory, vars
    <3>2. ASSUME NEW s \in Sessions, TurnStarted(s) \/ TurnCompleted(s) \/ SessionExited(s)
          PROVE  UNCHANGED phase
      BY <3>2 DEF TurnStarted, TurnCompleted, SessionExited
    <3>3. ASSUME NEW e \in Inputs, Deliver(e) \/ AgentAnswers(e) PROVE UNCHANGED phase
      BY <3>3 DEF Deliver, AgentAnswers
    <3> QED BY <3>1, <3>2, <3>3 DEF Next, Progress, Operate
  <2> QED BY <2>1 DEF TypeOK
<1> QED BY <1>1, <1>2, <1>3 DEF AgentTyped

\* An attachment that ends and a session that is stopped or left keep who owns what.
LEMMA Rebinds ==
    ASSUME Carried, NEW s
    PROVE  LET shut == FinishedReattachment(owned, None)
           IN  /\ \A own \in {owned, shut, CancelSession(owned, s), CancelSession(shut, s)} :
                    own \in OwnedTable /\ \A e \in Inputs : own[e] = None <=> owned[e] = None
               /\ \A x \in Nat \cup {None} :
                    LET own == FinishedReattachment(CancelQueued(owned, Inputs), x)
                    IN  own \in OwnedTable /\ \A e \in Inputs : own[e] = None <=> owned[e] = None
<1>1. owned \in OwnedTable
  BY DEF Carried, TypeOK, OwnedTable
<1>2. ASSUME NEW own \in OwnedTable
      PROVE  /\ CancelSession(own, s) \in OwnedTable
             /\ \A e \in Inputs : CancelSession(own, s)[e] = None <=> own[e] = None
  BY Cancels DEF CancelSession, Alike
<1>3. ASSUME NEW own \in OwnedTable, NEW x \in Nat \cup {None}
      PROVE  /\ FinishedReattachment(own, x) \in OwnedTable
             /\ \A e \in Inputs : FinishedReattachment(own, x)[e] = None <=> own[e] = None
  BY <1>3, Finishes
<1>4. /\ CancelQueued(owned, Inputs) \in OwnedTable
      /\ \A e \in Inputs : CancelQueued(owned, Inputs)[e] = None <=> owned[e] = None
  BY <1>1, Cancels DEF Alike
<1>5. ASSUME NEW x \in Nat \cup {None}
      PROVE  LET own == FinishedReattachment(CancelQueued(owned, Inputs), x)
             IN  own \in OwnedTable /\ \A e \in Inputs : own[e] = None <=> owned[e] = None
  BY <1>3, <1>4
<1>6. LET shut == FinishedReattachment(owned, None)
      IN  shut \in OwnedTable /\ \A e \in Inputs : shut[e] = None <=> owned[e] = None
  BY <1>1, <1>3
<1> QED BY <1>1, <1>2, <1>5, <1>6

Busy == {s \in Sessions : pending[s] # None}

\* Finitely many inputs are owned and finitely many starts are pending.
LEMMA FiniteStep ==
    ASSUME Carried, [Next]_vars, InputsTyped'
    PROVE  Finite' /\ RoomTyped'
<1> USE DEF Carried
<1>1. IsFiniteSet(Owned) /\ IsFiniteSet(Busy) /\ Cardinality(Busy) <= MaxPending /\ MaxPending \in Nat
  BY LimitsNat DEF Finite, TypeOK, Busy
<1>2. Cardinality(Busy) \in Nat
  BY <1>1, FS_CardinalityType
<1>3. ASSUME NEW x, Owned' \subseteq Owned \cup {x} PROVE IsFiniteSet(Owned')
  <2>1. IsFiniteSet(Owned \cup {x})
    BY <1>1, FS_AddElement
  <2> QED BY <1>3, <2>1, FS_Subset
<1>4. ASSUME Busy' \subseteq Busy PROVE IsFiniteSet(Busy') /\ Cardinality(Busy') <= MaxPending
  <2>1. IsFiniteSet(Busy') /\ Cardinality(Busy') <= Cardinality(Busy)
    BY <1>1, <1>4, FS_Subset
  <2>2. Cardinality(Busy') \in Nat
    BY <2>1, FS_CardinalityType
  <2> QED BY <1>1, <1>2, <2>1, <2>2
<1>5. SUFFICES IsFiniteSet(Owned') /\ IsFiniteSet(Busy') /\ Cardinality(Busy') <= MaxPending
  BY DEF Finite, RoomTyped, Busy
<1>6. ASSUME NEW x, Owned' \subseteq Owned \cup {x}, Busy' \subseteq Busy
      PROVE  IsFiniteSet(Owned') /\ IsFiniteSet(Busy') /\ Cardinality(Busy') <= MaxPending
  BY <1>3, <1>4, <1>6
<1>7. CASE UNCHANGED <<owned, pending>>
  <2>1. Owned' \subseteq Owned \cup {None} /\ Busy' \subseteq Busy
    BY <1>7 DEF Owned, Busy
  <2> QED BY <1>6, <2>1
<1>8. ASSUME UNCHANGED pending, owned' = owned \/ \E es : owned' = Forget(owned, es)
      PROVE  IsFiniteSet(Owned') /\ IsFiniteSet(Busy') /\ Cardinality(Busy') <= MaxPending
  <2>1. Owned' \subseteq Owned \cup {None} /\ Busy' \subseteq Busy
    BY <1>8 DEF Owned, Busy, Forget
  <2> QED BY <1>6, <2>1
<1>9. CASE TakeQueued \/ Settle
  BY <1>8, <1>9 DEF TakeQueued, Settle
<1>10. CASE SendPrompt
  <2>1. Owned' \subseteq Owned \cup {op.input}
    <3>1. owned' = owned \/ \E x : owned' = [owned EXCEPT ![op.input] = x]
      BY <1>10 DEF SendPrompt, QueueWaiting
    <3> QED BY <3>1 DEF Owned, TypeOK
  <2>2. Busy' \subseteq Busy
    <3>1. pending' = pending
          \/ \E s : pending[s] # None /\ \E q : pending' = [pending EXCEPT ![s] = q]
      BY <1>10 DEF SendPrompt, QueueWaiting
    <3> QED BY <3>1 DEF Busy, TypeOK
  <2> QED BY <1>6, <2>1, <2>2
<1>11. CASE DeferPrompt
  <2>1. Owned' \subseteq Owned \cup {op.input}
    <3>1. \E x : owned' = [owned EXCEPT ![op.input] = x]
      BY <1>11 DEF DeferPrompt
    <3> QED BY <3>1 DEF Owned, TypeOK
  <2>2. Busy' \subseteq Busy \cup {rpc[op.input].session} /\ Cardinality(Busy) < MaxPending
    BY <1>11 DEF DeferPrompt, Room, Busy
  <2>3. IsFiniteSet(Busy') /\ Cardinality(Busy') <= MaxPending
    <3>0. PICK r : r = rpc[op.input].session
      OBVIOUS
    <3> DEFINE one == Busy \cup {r}
    <3>1. IsFiniteSet(one) /\ Cardinality(one) <= Cardinality(Busy) + 1
      <4>1. \A x : /\ IsFiniteSet(Busy \cup {x})
                   /\ Cardinality(Busy \cup {x})
                        = IF x \in Busy THEN Cardinality(Busy) ELSE Cardinality(Busy) + 1
        BY <1>1, FS_AddElement
      <4>2. /\ IsFiniteSet(one)
            /\ Cardinality(one) = IF r \in Busy THEN Cardinality(Busy) ELSE Cardinality(Busy) + 1
        BY <4>1
      <4> HIDE DEF one, Carried
      <4> QED BY <1>2, <4>2
    <3> HIDE DEF one
    <3>2. IsFiniteSet(Busy') /\ Cardinality(Busy') <= Cardinality(one)
      BY <2>2, <3>0, <3>1, FS_Subset DEF one
    <3>3. Cardinality(Busy') \in Nat /\ Cardinality(one) \in Nat
      BY <3>1, <3>2, FS_CardinalityType
    <3> QED BY <1>1, <1>2, <2>2, <3>1, <3>2, <3>3
  <2> QED BY <1>3, <2>1, <2>3
<1>12. CASE ApplyAcknowledged
  <2>1. owned' = owned \/ \E es : owned' = Forget(owned, es)
    BY <1>12 DEF ApplyAcknowledged
  <2>2. Owned' \subseteq Owned \cup {None}
    BY <2>1 DEF Owned, Forget
  <2>3. Busy' \subseteq Busy
    BY <1>12 DEF ApplyAcknowledged, Busy, TypeOK
  <2> QED BY <1>6, <2>2, <2>3
<1>13. ASSUME \A e \in Inputs : owned'[e] = None <=> owned[e] = None,
              \A s \in Sessions : pending'[s] = None <=> pending[s] = None
       PROVE  IsFiniteSet(Owned') /\ IsFiniteSet(Busy') /\ Cardinality(Busy') <= MaxPending
  <2>1. Owned' \subseteq Owned \cup {None} /\ Busy' \subseteq Busy
    BY <1>13 DEF Owned, Busy
  <2> QED BY <1>6, <2>1
<1>14. CASE StopCurrent \/ Attach
  <2>1. \E s : owned' \in {owned, FinishedReattachment(owned, None), CancelSession(owned, s),
                           CancelSession(FinishedReattachment(owned, None), s)}
    BY <1>14 DEF StopCurrent, Attach
  <2>2. Owned' \subseteq Owned \cup {None}
    BY <2>1, Rebinds DEF Owned
  <2>3. Busy' \subseteq Busy
    <3>1. pending' = pending \/ \E s : pending[s] # None /\ \E q : pending' = [pending EXCEPT ![s] = q]
      BY <1>14 DEF StopCurrent, Attach, StopRequested
    <3> QED BY <3>1 DEF Busy, TypeOK
  <2> QED BY <1>6, <2>2, <2>3
<1>15. CASE Attached
  <2>1. {None, epoch + 1} \subseteq Nat \cup {None}
    BY DEF TypeOK
  <2>2. \A e \in Inputs : owned'[e] = None <=> owned[e] = None
    <3>1. \/ owned' = FinishedReattachment(owned, None)
          \/ \E x \in Nat \cup {None} :
                owned' = FinishedReattachment(CancelQueued(owned, Inputs), x)
      BY <1>15, <2>1 DEF Attached
    <3> QED BY <3>1, Rebinds
  <2>3. UNCHANGED pending
    BY <1>15 DEF Attached
  <2> QED BY <1>13, <2>2, <2>3
<1>16. ASSUME NEW s \in Sessions, SessionExited(s)
       PROVE  IsFiniteSet(Owned') /\ IsFiniteSet(Busy') /\ Cardinality(Busy') <= MaxPending
  <2>1. owned' \in {CancelSession(owned, s), CancelSession(FinishedReattachment(owned, None), s)}
    BY <1>16 DEF SessionExited
  <2>2. Owned' \subseteq Owned \cup {None}
    BY <2>1, Rebinds DEF Owned
  <2>3. Busy' \subseteq Busy
    BY <1>16 DEF SessionExited, Busy, TypeOK
  <2> QED BY <1>6, <2>2, <2>3
<1>17. ASSUME NEW s \in Sessions, TurnStarted(s)
       PROVE  IsFiniteSet(Owned') /\ IsFiniteSet(Busy') /\ Cardinality(Busy') <= MaxPending
  <2>1. Owned' \subseteq Owned \cup {None}
    BY <1>17 DEF TurnStarted, Owned
  <2>2. Busy' \subseteq Busy
    <3>1. pending' = pending \/ (pending[s] # None /\ \E q : pending' = [pending EXCEPT ![s] = q])
      BY <1>17 DEF TurnStarted
    <3> QED BY <3>1 DEF Busy, TypeOK
  <2> QED BY <1>6, <2>1, <2>2
<1>18. CASE Exit \/ Crash
  <2>1. Owned' \subseteq Owned \cup {None} /\ Busy' \subseteq Busy
    BY <1>18 DEF Exit, Crash, LoseMemory, Owned, Busy
  <2> QED BY <1>6, <2>1
<1>19. CASE \/ Claim \/ NextPending \/ Dispatch \/ KeepAwaiting \/ FenceOwned \/ AbortWorker
            \/ WorkerPanics \/ Shutdown \/ Restart \/ Reconnected \/ UNCHANGED vars
  BY <1>7, <1>19 DEF Claim, NextPending, Dispatch, KeepAwaiting, FenceOwned, AbortWorker,
        WorkerPanics, Shutdown, Restart, Reconnected, inputState, vars
<1>20. ASSUME \/ \E e \in Inputs : AgentAnswers(e) \/ Deliver(e)
              \/ \E s \in Sessions : TurnCompleted(s)
       PROVE  IsFiniteSet(Owned') /\ IsFiniteSet(Busy') /\ Cardinality(Busy') <= MaxPending
  BY <1>7, <1>20 DEF AgentAnswers, Deliver, TurnCompleted, inputState
<1> QED BY <1>9, <1>10, <1>11, <1>12, <1>14, <1>15, <1>16, <1>17, <1>18, <1>19, <1>20
        DEF Next, Progress, Operate

----------------------------------------------------------------------------
(* Places *)

\* An input that no step below adds to a place: what it is does not change, or it
\* is forgotten and was in no place but the operation that ends.
Steady(e) ==
    /\ owned[e] = None => owned'[e] = None
    /\ owned'[e] # None => /\ owned'[e].session = owned[e].session
                           /\ owned'[e].queued = owned[e].queued
                           /\ owned[e].reattach \/ ~owned'[e].reattach
    /\ owned[e] # None /\ owned'[e] = None =>
          /\ ~InReady(e) /\ ~InLane(e)
          /\ \A s \in Sessions : ~Start(s, e) /\ ~Behind(s, e)
          /\ op' = None

\* A queue that only grows by inbound work, and a ready queue that only grows by
\* inputs that waited for an attachment.
SteadyQueues ==
    /\ Distinct(lane') /\ Distinct(ready')
    /\ \A e \in Inputs :
          /\ QueuedWork(e) \in SeqRange(lane') => InLane(e)
          /\ AckWork(e) \in SeqRange(lane') => AckWork(e) \in SeqRange(lane)
          /\ e \in SeqRange(ready') =>
                \/ InReady(e)
                \/ /\ owned[e] # None /\ owned[e].queued /\ owned[e].reattach
                   /\ owned'[e] # None /\ ~owned'[e].reattach

\* The request of a start keeps its session and stays sent, and an answer stays.
SteadyRequests ==
    \A s \in Sessions, e \in Inputs :
        Start(s, e) => /\ rpc'[e].session = rpc[e].session /\ rpc'[e].state # "none"
                       /\ rpc[e].state \in Answers => rpc'[e].state \in Answers

SteadyOp ==
    \/ op' = None
    \/ op # None /\ op' # None /\ op'.from = op.from /\ op'.input = op.input

\* Where every input is steady the placement remains.
LEMMA Stay ==
    ASSUME TypeOK, Placement, \A e \in Inputs : Steady(e), SteadyQueues, SteadyRequests,
           SteadyOp, OpSound', \A s \in Sessions : SameStart(pending[s], pending'[s])
    PROVE  Placement'
<1> USE DEF Placement
<1>1. \A s \in Sessions, e \in Inputs : (Start(s, e)' <=> Start(s, e)) /\ (Behind(s, e)' <=> Behind(s, e))
  BY DEF Start, Behind, SameStart
<1>2. \A e \in Inputs : (InLane(e)' => InLane(e)) /\ (Resuming(e)' => Resuming(e))
                        /\ (Doing("ack", e)' => Doing("ack", e))
  BY DEF InLane, SteadyQueues, Resuming, Doing, SteadyOp
<1>3. \A e \in Inputs : InReady(e)' =>
         InReady(e) \/ (owned[e] # None /\ owned[e].reattach /\ Free(e)')
  BY DEF InReady, SteadyQueues, Free, Steady
<1>4. \A e \in Inputs : Free(e) /\ owned'[e] # None => Free(e)' /\ owned'[e].session = owned[e].session
  BY DEF Free, Steady
<1>5. ASSUME NEW e \in Inputs, owned[e] # None, owned'[e] = None
      PROVE  /\ ~InReady(e)' /\ ~InLane(e)' /\ ~Resuming(e)'
             /\ \A s \in Sessions : ~Start(s, e) /\ ~Behind(s, e)
  BY <1>1, <1>2, <1>3, <1>5 DEF Steady, Resuming, Doing, Free
<1>6. StartsSound'
  <2> SUFFICES ASSUME NEW s \in Sessions, NEW e \in Inputs, Start(s, e)'
               PROVE  /\ owned'[e] # None /\ ~owned'[e].queued /\ owned'[e].session = s
                      /\ rpc'[e].session = s /\ rpc'[e].state # "none"
    BY DEF StartsSound, Sent
  <2>1. Start(s, e) /\ owned[e] # None /\ ~owned[e].queued /\ owned[e].session = s /\ rpc[e].session = s
    BY <1>1 DEF StartsSound
  <2> QED BY <1>5, <2>1 DEF Steady, SteadyRequests
<1>7. BehindSound'
  <2>1. ASSUME NEW s \in Sessions, NEW e \in Inputs, Behind(s, e)' PROVE Free(e)' /\ owned'[e].session = s
    <3>1. Behind(s, e) /\ Free(e) /\ owned[e].session = s
      BY <1>1, <2>1 DEF BehindSound
    <3>2. owned'[e] # None
      BY <1>5, <3>1 DEF Free
    <3> QED BY <1>4, <3>1, <3>2
  <2>2. \A s \in Sessions : pending'[s] # None => Distinct(pending'[s].queued)
    BY DEF BehindSound, SameStart
  <2> QED BY <2>1, <2>2 DEF BehindSound
<1>8. ReadySound'
  <2>1. ASSUME NEW e \in Inputs, InReady(e)' PROVE Free(e)'
    <3>1. CASE InReady(e)
      <4>1. Free(e)
        BY <3>1 DEF ReadySound
      <4>2. owned'[e] # None
        BY <1>5, <2>1, <4>1 DEF Free
      <4> QED BY <1>4, <4>1, <4>2
    <3> QED BY <1>3, <2>1, <3>1
  <2> QED BY <2>1 DEF ReadySound, SteadyQueues
<1>9. LaneSound'
  <2>1. ASSUME NEW e \in Inputs, InLane(e)' PROVE Free(e)'
    <3>1. InLane(e) /\ Free(e)
      BY <1>2, <2>1 DEF LaneSound
    <3>2. owned'[e] # None
      BY <1>5, <2>1, <3>1 DEF Free
    <3> QED BY <1>4, <3>1, <3>2
  <2> QED BY <2>1 DEF LaneSound, SteadyQueues
<1>10. Apart'
  <2>1. ASSUME NEW e \in Inputs, InReady(e)'
        PROVE  ~InLane(e)' /\ ~Resuming(e)' /\ \A s \in Sessions : ~Behind(s, e)'
    <3>1. CASE InReady(e)
      BY <1>1, <1>2, <3>1 DEF Apart
    <3>2. CASE owned[e] # None /\ owned[e].reattach
      BY <1>1, <1>2, <3>2 DEF LaneSound, Apart, BehindSound, Free
    <3> QED BY <1>3, <2>1, <3>1, <3>2
  <2>2. \A e \in Inputs : InLane(e)' => ~Resuming(e)' /\ \A s \in Sessions : ~Behind(s, e)'
    BY <1>1, <1>2 DEF Apart
  <2>3. ASSUME NEW e \in Inputs, Resuming(e)' PROVE Free(e)' /\ \A s \in Sessions : ~Behind(s, e)'
    <3>1. Resuming(e) /\ Free(e)
      BY <1>2, <2>3 DEF Apart
    <3>2. owned'[e] # None
      BY <1>5, <2>3, <3>1 DEF Free
    <3> QED BY <1>1, <1>4, <3>1, <3>2 DEF Apart
  <2> QED BY <2>1, <2>2, <2>3 DEF Apart
<1>11. AcksSound'
  <2>1. ASSUME NEW e \in Inputs, Answered(e) PROVE Answered(e)'
    <3>1. PICK s \in Sessions : rpc[e].session = s /\ Start(s, e)
      BY <2>1 DEF Answered
    <3> QED BY <1>1, <2>1, <3>1 DEF Answered, SteadyRequests
  <2>2. \A e \in Inputs : AckWork(e) \in SeqRange(lane') => Answered(e) /\ ~Doing("ack", e)
    BY DEF SteadyQueues, AcksSound
  <2>3. \A e \in Inputs : Doing("ack", e)' => Answered(e)
    BY <1>2 DEF AcksSound
  <2> QED BY <1>2, <2>1, <2>2, <2>3 DEF AcksSound
<1> QED BY <1>6, <1>7, <1>8, <1>9, <1>10, <1>11

\* A step that moves no input between places.
LEMMA Quiet ==
    ASSUME Carried, UNCHANGED <<owned, lane, ready>>, SteadyOp, OpSound', SteadyRequests,
           \A s \in Sessions : SameStart(pending[s], pending'[s])
    PROVE  Placement'
<1> USE DEF Carried
<1>1. \A e \in Inputs : Steady(e)
  BY DEF Steady
<1>2. SteadyQueues
  BY DEF SteadyQueues, InLane, InReady, Placement, LaneSound, ReadySound
<1> QED BY <1>1, <1>2, Stay

\* A start event names the turn of a start.
LEMMA StartNamed ==
    ASSUME TypeOK, NEW s \in Sessions, TurnStarted(s)
    PROVE  \A r \in Sessions : SameStart(pending[r], pending'[r])
<1>1. CASE pending[s] = None
  BY <1>1 DEF TurnStarted, SameStart
<1>2. CASE pending[s] # None
  <2>1. PICK o \in Inputs \cup {None}, b \in BOOLEAN :
           pending' = [pending EXCEPT ![s] = [pending[s] EXCEPT !.observed = o, !.applied = b]]
    <3>1. pending[s] \in Pending /\ live[s] \in Inputs \cup {None}
      BY <1>2 DEF TypeOK
    <3>2. pending[s].observed \in Inputs \cup {None} /\ pending[s].applied \in BOOLEAN
          /\ pending[s].valid \in BOOLEAN /\ pending[s].stop \in BOOLEAN
      BY <3>1 DEF Pending
    <3> QED BY <1>2, <3>1, <3>2 DEF TurnStarted
  <2>2. PICK y : y = [pending[s] EXCEPT !.observed = o, !.applied = b]
    OBVIOUS
  <2>3. y \in Pending /\ y.input = pending[s].input /\ y.queued = pending[s].queued
    <3>1. pending[s] \in Pending
      BY <1>2 DEF TypeOK
    <3> QED BY <2>2, <3>1 DEF Pending
  <2>4. pending' = [pending EXCEPT ![s] = y]
    BY <2>1, <2>2
  <2> QED BY <1>2, <2>3, <2>4, Touches
<1> QED BY <1>1, <1>2

\* The steps that only go on with the operation or touch none of the queues.
LEMMA PlacementQuiet ==
    ASSUME Carried,
           \/ Claim \/ KeepAwaiting \/ FenceOwned \/ AbortWorker \/ WorkerPanics \/ Shutdown
           \/ Restart \/ Reconnected \/ UNCHANGED vars
           \/ \E s \in Sessions : TurnStarted(s) \/ TurnCompleted(s)
    PROVE  Placement'
<1> USE DEF Carried
<1>1. UNCHANGED <<owned, lane, ready, rpc>>
  <2>1. CASE \/ Claim \/ KeepAwaiting \/ FenceOwned \/ AbortWorker \/ WorkerPanics \/ Shutdown
             \/ Restart \/ Reconnected \/ UNCHANGED vars
    BY <2>1 DEF Claim, KeepAwaiting, FenceOwned, AbortWorker, WorkerPanics, Shutdown, Restart,
          Reconnected, vars, inputState, agent
  <2>2. CASE \E s \in Sessions : TurnStarted(s) \/ TurnCompleted(s)
    BY <2>2 DEF TurnStarted, TurnCompleted, inputState
  <2> QED BY <2>1, <2>2
<1>2. \A s \in Sessions : SameStart(pending[s], pending'[s])
  <2>1. CASE UNCHANGED pending
    BY <2>1 DEF SameStart
  <2>2. CASE \/ Claim \/ KeepAwaiting \/ FenceOwned \/ AbortWorker \/ WorkerPanics \/ Shutdown
             \/ Restart \/ Reconnected \/ UNCHANGED vars
             \/ \E s \in Sessions : TurnCompleted(s)
    BY <2>1, <2>2 DEF Claim, KeepAwaiting, FenceOwned, AbortWorker, WorkerPanics, Shutdown, Restart,
          Reconnected, TurnCompleted, vars, inputState
  <2>3. ASSUME NEW s \in Sessions, TurnStarted(s) PROVE \A r \in Sessions : SameStart(pending[r], pending'[r])
    BY <2>3, StartNamed
  <2> QED BY <2>2, <2>3
<1>3. SteadyRequests
  BY <1>1 DEF SteadyRequests, Placement, StartsSound, Sent
<1>4. OpSound
  BY DEF Placement
<1>5. SteadyOp /\ OpSound'
  <2>1. CASE UNCHANGED op
    BY <1>1, <1>4, <2>1 DEF SteadyOp, OpSound, Sent, Handling, Doing
  <2>2. CASE op' = None
    BY <2>2 DEF SteadyOp, OpSound
  <2>3. CASE Claim \/ KeepAwaiting
    <3>1. op \in Operation
      BY <2>3 DEF Claim, KeepAwaiting, At, TypeOK
    <3>2. CASE op' = None
      BY <2>2, <3>2
    <3>3. CASE Claim /\ event[op.input] \in {"absent", "failed"} /\ op' = [op EXCEPT !.step = "handle"]
      <4>1. op' \in Operation /\ op'.from = op.from /\ op'.input = op.input /\ op'.step = "handle"
        BY <3>1, <3>3 DEF Operation
      <4>2. owned[op.input] = None /\ op.from = "inbound"
        BY <3>1, <3>3 DEF Claims, Operation, Claim, At
      <4> QED BY <1>1, <3>1, <4>1, <4>2, NoneIsNothing DEF SteadyOp, OpSound, Handling, Doing, Operation
    <3>4. CASE KeepAwaiting
      <4>1. op' = [op EXCEPT !.step = "await"] /\ op.step = "window" /\ op.from \in {"inbound", "queued"}
        BY <3>4 DEF KeepAwaiting, At
      <4>2. op' \in Operation /\ op'.from = op.from /\ op'.input = op.input /\ op'.step = "await"
        BY <3>1, <4>1 DEF Operation
      <4> QED BY <1>1, <1>4, <3>1, <4>1, <4>2, NoneIsNothing DEF SteadyOp, OpSound, Handling, Doing, Sent
    <3> QED BY <2>3, <3>2, <3>3, <3>4 DEF Claim, EndOp
  <2>4. CASE \/ FenceOwned \/ AbortWorker \/ WorkerPanics \/ Shutdown \/ Restart \/ Reconnected
             \/ UNCHANGED vars \/ \E s \in Sessions : TurnStarted(s) \/ TurnCompleted(s)
    BY <2>1, <2>2, <2>4 DEF FenceOwned, AbortWorker, WorkerPanics, Shutdown, Restart, Reconnected,
          TurnStarted, TurnCompleted, vars, inputState, EndOp
  <2> QED BY <2>3, <2>4
<1> QED BY <1>1, <1>2, <1>3, <1>5, Quiet

\* Admission adds inbound work of an input that has none.
LEMMA PlacementDeliver ==
    ASSUME Carried, NEW e \in Inputs, Deliver(e) PROVE Placement'
<1> USE DEF Carried
<1>1. /\ UNCHANGED <<op, pending, owned, ready, rpc>>
      /\ lane' = lane \/ (~Admitted(e) /\ lane' = Append(lane, [from |-> "inbound", input |-> e]))
  BY DEF Deliver, agent
<1>2. [from |-> "inbound", input |-> e] \in Work /\ lane \in Seq(Work)
  BY DEF Work, TypeOK
<1>3. \A f \in Inputs : QueuedWork(f) # [from |-> "inbound", input |-> e]
                        /\ AckWork(f) # [from |-> "inbound", input |-> e]
  BY DEF QueuedWork, AckWork
<1>4. Distinct(lane) /\ Distinct(ready)
  BY DEF Placement, LaneSound, ReadySound
<1>5. Distinct(lane') /\ SeqRange(lane') \subseteq SeqRange(lane) \cup {[from |-> "inbound", input |-> e]}
  <2>1. CASE lane' = lane
    BY <1>4, <2>1
  <2>2. CASE ~Admitted(e) /\ lane' = Append(lane, [from |-> "inbound", input |-> e])
    BY <1>2, <1>4, <2>2, RangeAppend DEF Admitted
  <2> QED BY <1>1, <2>1, <2>2
<1>6. SteadyQueues
  BY <1>1, <1>3, <1>4, <1>5 DEF SteadyQueues, InLane, InReady
<1>7. SteadyRequests
  BY <1>1 DEF SteadyRequests, Placement, StartsSound, Sent
<1>8. SteadyOp /\ OpSound'
  BY <1>1 DEF SteadyOp, Placement, OpSound, Sent, Handling, Doing
<1>9. \A f \in Inputs : Steady(f)
  BY <1>1 DEF Steady
<1>10. \A s \in Sessions : SameStart(pending[s], pending'[s])
  BY <1>1 DEF SameStart
<1> QED BY <1>6, <1>7, <1>8, <1>9, <1>10, Stay

\* An answer of the agent.
LEMMA PlacementAnswer ==
    ASSUME Carried, NEW e \in Inputs, AgentAnswers(e) PROVE Placement'
<1> USE DEF Carried
<1>1. UNCHANGED <<op, pending, owned, ready, lane>>
  BY DEF AgentAnswers, inputState
<1>2. /\ rpc[e].state = "flying" /\ rpc'[e].state \in Answers /\ rpc'[e].session = rpc[e].session
      /\ \A f \in Inputs \ {e} : rpc'[f] = rpc[f]
  BY Answer
<1>3. "none" \notin Answers /\ "flying" \notin Answers
  BY DEF Answers
<1>4. SteadyRequests
  BY <1>2, <1>3 DEF SteadyRequests, Placement, StartsSound, Sent
<1>5. op # None => op.input \in Inputs
  BY DEF TypeOK, Operation
<1>6. SteadyOp /\ OpSound'
  BY <1>1, <1>2, <1>3, <1>5 DEF SteadyOp, Placement, OpSound, Sent, Handling, Doing
<1>7. \A s \in Sessions : SameStart(pending[s], pending'[s])
  BY <1>1 DEF SameStart
<1> QED BY <1>1, <1>4, <1>6, <1>7, Quiet

\* The operation on an input that is carried nowhere else.
LEMMA Elsewhere ==
    ASSUME Carried, op # None, op.from = "queued" \/ (op.from = "inbound" /\ op.step # "begin")
    PROVE  /\ op.input \in Inputs
           /\ \A s \in Sessions : ~Start(s, op.input) /\ ~Behind(s, op.input)
           /\ ~InReady(op.input) /\ ~InLane(op.input)
           /\ op.from = "inbound" => owned[op.input] = None
           /\ op.from = "queued" => Free(op.input)
<1> USE DEF Carried, Placement
<1>1. op.input \in Inputs
  BY DEF TypeOK, Operation
<1>2. CASE op.from = "queued"
  <2>1. Resuming(op.input)
    BY <1>2 DEF Resuming, Doing
  <2> QED BY <1>1, <1>2, <2>1 DEF Apart, StartsSound, Free
<1>3. CASE op.from = "inbound" /\ op.step # "begin"
  <2>1. owned[op.input] = None
    BY <1>3 DEF OpSound, Handling, Doing
  <2> QED BY <1>1, <1>3, <2>1 DEF StartsSound, BehindSound, ReadySound, LaneSound, Free
<1> QED BY <1>2, <1>3

\* The end of an operation, which forgets its input or leaves it.
LEMMA PlacementEnds ==
    ASSUME Carried, TakeQueued \/ Settle PROVE Placement'
<1> USE DEF Carried
<1>1. UNCHANGED <<pending, lane, ready>> /\ op # None /\ op \in Operation
  BY DEF TakeQueued, Settle, At, TypeOK
<1>2. op.from = "queued" \/ (op.from = "inbound" /\ op.step # "begin")
  BY DEF TakeQueued, Settle, At, Outcome, Answers
<1>3. \A s \in Sessions : SameStart(pending[s], pending'[s])
  BY <1>1 DEF SameStart
<1>4. SteadyQueues
  BY <1>1 DEF SteadyQueues, InLane, InReady, Placement, LaneSound, ReadySound
<1>5. /\ rpc' = rpc \/ rpc' = [rpc EXCEPT ![op.input] = NoRequest]
      /\ owned' = owned \/ \E es \in SUBSET {op.input} : owned' = Forget(owned, es)
  <2>1. CASE TakeQueued
    BY <2>1 DEF TakeQueued, agent
  <2>2. CASE Settle
    BY <2>2 DEF Settle
  <2> QED BY <2>1, <2>2
<1>6. \A f \in Inputs \ {op.input} : owned'[f] = owned[f] /\ rpc'[f] = rpc[f]
  BY <1>5 DEF Forget, TypeOK
<1>7. owned'[op.input] \in {None, owned[op.input]}
  BY <1>1, <1>2, <1>5, Elsewhere DEF Forget
<1>8. SteadyRequests
  BY <1>1, <1>2, <1>6, Elsewhere DEF SteadyRequests, Placement, StartsSound, Sent
<1>9. CASE op' = None
  <2>1. SteadyOp /\ OpSound'
    BY <1>9 DEF SteadyOp, OpSound
  <2>2. \A f \in Inputs : Steady(f)
    BY <1>1, <1>2, <1>6, <1>7, <1>9, Elsewhere DEF Steady
  <2> QED BY <1>3, <1>4, <1>8, <2>1, <2>2, Stay
<1>10. CASE TakeQueued /\ op' = [op EXCEPT !.step = "handle"] /\ UNCHANGED owned
  <2>1. op.from = "queued"
    BY <1>1, <1>10 DEF TakeQueued, At
  <2>2. op'.from = op.from /\ op'.input = op.input /\ op'.step = "handle" /\ op' \in Operation
    BY <1>1, <1>10 DEF Operation
  <2>3. SteadyOp /\ OpSound'
    BY <1>1, <2>1, <2>2, NoneIsNothing DEF SteadyOp, OpSound, Handling, Doing
  <2> QED BY <1>1, <1>3, <1>8, <1>10, <2>3, Quiet
<1> QED BY <1>9, <1>10 DEF TakeQueued, Settle, EndOp

\* Who owns what, in a table that replaces `owned', and that nothing is held back
\* in it that was not.
Kin(own) ==
    \A e \in Inputs :
        /\ own[e] = None <=> owned[e] = None
        /\ owned[e] # None => /\ own[e].session = owned[e].session
                              /\ own[e].queued = owned[e].queued
                              /\ owned[e].reattach \/ ~own[e].reattach
                              /\ owned[e].cancelled => own[e].cancelled
Freed(own) == \A e \in Reattaching(owned) : ~own[e].reattach

\* The tables that the steps that leave a session may end with.
LEMMA Rebound ==
    ASSUME Carried, NEW s
    PROVE  LET shut == FinishedReattachment(owned, None)
           IN  /\ Kin(owned) /\ Kin(CancelSession(owned, s))
               /\ Kin(shut) /\ Freed(shut)
               /\ Kin(CancelSession(shut, s)) /\ Freed(CancelSession(shut, s))
               /\ \A x \in Nat \cup {None} :
                    LET own == FinishedReattachment(CancelQueued(owned, Inputs), x)
                    IN  Kin(own) /\ Freed(own)
<1> DEFINE shut == FinishedReattachment(owned, None)
<1>1. owned \in OwnedTable
  BY DEF Carried, TypeOK, OwnedTable
<1>2. Kin(owned)
  BY <1>1 DEF Kin, OwnedTable, QueuedInput
<1>3. ASSUME NEW own \in OwnedTable, Kin(own), NEW es
      PROVE  /\ Kin(CancelQueued(own, es)) /\ CancelQueued(own, es) \in OwnedTable
             /\ Freed(own) => Freed(CancelQueued(own, es))
  <2>1. \A e \in Inputs : Alike(own[e], CancelQueued(own, es)[e])
    BY Cancels
  <2>2. CancelQueued(own, es) \in OwnedTable
    BY Cancels
  <2>3. PICK new : new = CancelQueued(own, es)
    OBVIOUS
  <2>4. Kin(new)
    BY <1>3, <2>1, <2>3 DEF Kin, Alike
  <2>5. Freed(own) => Freed(new)
    BY <1>3, <2>1, <2>3 DEF Kin, Alike, Freed, Reattaching
  <2> QED BY <2>2, <2>3, <2>4, <2>5
<1>4. ASSUME NEW own \in OwnedTable, Kin(own), NEW x \in Nat \cup {None}
      PROVE  LET new == FinishedReattachment(own, x)
             IN  Kin(new) /\ Freed(new) /\ new \in OwnedTable
  <2>1. PICK new : new = FinishedReattachment(own, x)
    OBVIOUS
  <2>2. /\ new \in OwnedTable
        /\ \A e \in Inputs :
              /\ own[e] = None \/ ~own[e].reattach => new[e] = own[e]
              /\ own[e] # None /\ own[e].reattach =>
                    /\ new[e] # None /\ new[e].session = own[e].session
                    /\ new[e].queued = own[e].queued
                    /\ ~new[e].reattach /\ (own[e].cancelled => new[e].cancelled)
    BY <1>4, <2>1, Finishes
  <2>3. Kin(new)
    BY <1>4, <2>2 DEF Kin
  <2>4. Freed(new)
    BY <1>4, <2>2 DEF Kin, Freed, Reattaching
  <2> QED BY <2>1, <2>2, <2>3, <2>4
<1>5. Kin(CancelSession(owned, s))
  BY <1>1, <1>2, <1>3 DEF CancelSession
<1>6. Kin(shut) /\ Freed(shut) /\ shut \in OwnedTable
  BY <1>1, <1>2, <1>4
<1>7. Kin(CancelSession(shut, s)) /\ Freed(CancelSession(shut, s))
  <2> HIDE DEF shut
  <2> QED BY <1>3, <1>6 DEF CancelSession
<1>8. ASSUME NEW x \in Nat \cup {None}
      PROVE  LET own == FinishedReattachment(CancelQueued(owned, Inputs), x)
             IN  Kin(own) /\ Freed(own)
  BY <1>1, <1>2, <1>3, <1>4
<1> QED BY <1>2, <1>5, <1>6, <1>7, <1>8

\* Stop, attachment and the end of a session change flags only; they make ready what
\* waited for an attachment, or hold it back as before while the attachment lasts.
LEMMA Leaves ==
    ASSUME Carried,
           StopCurrent \/ Attach \/ Attached \/ \E s \in Sessions : SessionExited(s)
    PROVE  /\ UNCHANGED <<lane, rpc>> /\ Kin(owned')
           /\ \/ /\ ready' = ready
                 /\ \A e \in Inputs : owned[e] # None => owned'[e].reattach = owned[e].reattach
              \/ ready' \in ReadyAfter(owned) /\ Freed(owned')
           /\ attaching' = attaching \/ attaching = None \/ Freed(owned')
<1> DEFINE shut == FinishedReattachment(owned, None)
<1>0. UNCHANGED <<lane, rpc>>
  BY DEF StopCurrent, Attach, Attached, SessionExited, agent
<1>1. CASE StopCurrent \/ Attach \/ \E s \in Sessions : SessionExited(s)
  <2>1. PICK s : /\ \/ ready' = ready /\ owned' \in {owned, CancelSession(owned, s)}
                    \/ ready' \in ReadyAfter(owned) /\ owned' \in {shut, CancelSession(shut, s)}
                 /\ \/ attaching' = attaching \/ attaching = None
                    \/ owned' \in {shut, CancelSession(shut, s)}
    BY <1>1 DEF StopCurrent, Attach, SessionExited
  <2>2. owned' \in {owned, CancelSession(owned, s)} =>
           \A e \in Inputs : owned[e] # None => owned'[e].reattach = owned[e].reattach
    <3>1. owned \in OwnedTable
      BY DEF Carried, TypeOK, OwnedTable
    <3>2. \A e \in Inputs : Alike(owned[e], CancelSession(owned, s)[e])
      BY <3>1, Cancels DEF CancelSession
    <3> QED BY <3>2 DEF Alike
  <2>3. /\ owned' \in {shut, CancelSession(shut, s)} => Freed(owned')
        /\ owned' \in {owned, CancelSession(owned, s), shut, CancelSession(shut, s)} => Kin(owned')
    <3> HIDE DEF shut
    <3> QED BY Rebound DEF shut
  <2> HIDE DEF shut
  <2> QED BY <1>0, <2>1, <2>2, <2>3
<1>2. CASE Attached
  <2>1. {None, epoch + 1} \subseteq Nat \cup {None}
    BY DEF Carried, TypeOK
  <2>2. /\ ready' \in ReadyAfter(owned)
        /\ \/ owned' = shut
           \/ \E x \in Nat \cup {None} :
                 owned' = FinishedReattachment(CancelQueued(owned, Inputs), x)
    BY <1>2, <2>1 DEF Attached
  <2> HIDE DEF shut
  <2>3. Kin(owned') /\ Freed(owned')
    BY <2>2, Rebound DEF shut
  <2> QED BY <1>0, <2>2, <2>3
<1> QED BY <1>1, <1>2

\* A step that only changes the flags of owned inputs, and makes ready those that
\* waited for an attachment when it holds none of them back any longer.
LEMMA PlacementRebinds ==
    ASSUME Carried, UNCHANGED <<lane, rpc>>, Kin(owned'),
           ready' = ready \/ (ready' \in ReadyAfter(owned) /\ Freed(owned')),
           SteadyOp, OpSound', \A s \in Sessions : SameStart(pending[s], pending'[s])
    PROVE  Placement'
<1> USE DEF Carried
<1>1. \A e \in Inputs : Steady(e)
  BY DEF Steady, Kin
<1>2. Distinct(lane) /\ Distinct(ready)
  BY DEF Placement, LaneSound, ReadySound
<1>3. SteadyQueues
  <2>1. CASE ready' = ready
    BY <1>2, <2>1 DEF SteadyQueues, InLane, InReady
  <2>2. CASE ready' \in ReadyAfter(owned) /\ Freed(owned')
    <3>1. SeqRange(ready) \cap Reattaching(owned) = {}
      BY DEF Placement, ReadySound, InReady, Free, Reattaching
    <3>2. Distinct(ready') /\ SeqRange(ready') = SeqRange(ready) \cup Reattaching(owned)
      BY <1>2, <2>2, <3>1, ReadyAgain
    <3>3. \A e \in Reattaching(owned) :
             owned[e] # None /\ owned[e].queued /\ owned[e].reattach
             /\ owned'[e] # None /\ ~owned'[e].reattach
      BY <2>2 DEF Reattaching, Reattachments, Freed, Kin
    <3> QED BY <1>2, <3>2, <3>3 DEF SteadyQueues, InLane, InReady
  <2> QED BY <2>1, <2>2
<1>4. SteadyRequests
  BY DEF SteadyRequests, Placement, StartsSound, Sent
<1> QED BY <1>1, <1>3, <1>4, Stay

\* They keep every start and what waits behind it.
LEMMA StartsLeft ==
    ASSUME Carried,
           StopCurrent \/ Attach \/ Attached \/ \E s \in Sessions : SessionExited(s)
    PROVE  \A s \in Sessions : SameStart(pending[s], pending'[s])
<1> USE DEF Carried
<1>1. CASE UNCHANGED pending
  BY <1>1 DEF SameStart
<1>2. CASE StopCurrent
  <2>1. pending' = pending \/ (bound \in Sessions /\ \E b \in BOOLEAN : pending' = StopRequested(bound, b))
    BY <1>2, SessionsTyped DEF StopCurrent
  <2>2. ASSUME bound \in Sessions, NEW b \in BOOLEAN, pending' = StopRequested(bound, b),
               pending[bound] # None
        PROVE  \A s \in Sessions : SameStart(pending[s], pending'[s])
    <3>1. pending[bound] \in Pending
      BY <2>2 DEF TypeOK
    <3>2. PICK y : y = [pending[bound] EXCEPT !.stop = TRUE,
                           !.applied = pending[bound].applied \/ (b /\ pending[bound].valid)]
      OBVIOUS
    <3>3. y \in Pending /\ y.input = pending[bound].input /\ y.queued = pending[bound].queued
      BY <3>1, <3>2 DEF Pending
    <3>4. pending' = [pending EXCEPT ![bound] = y]
      BY <2>2, <3>2 DEF StopRequested
    <3> HIDE DEF Carried
    <3>5. TypeOK
      BY DEF Carried
    <3> QED BY <2>2, <3>3, <3>4, <3>5, Touches
  <2> QED BY <1>1, <2>1, <2>2 DEF StopRequested
<1>3. ASSUME NEW s \in Sessions, SessionExited(s)
      PROVE  \A r \in Sessions : SameStart(pending[r], pending'[r])
  <2>1. CASE pending[s] # None
    <3>1. pending[s] \in Pending
      BY <2>1 DEF TypeOK
    <3>2. PICK y : y = [pending[s] EXCEPT !.valid = FALSE]
      OBVIOUS
    <3>3. y \in Pending /\ y.input = pending[s].input /\ y.queued = pending[s].queued
      BY <3>1, <3>2 DEF Pending
    <3>4. pending' = [pending EXCEPT ![s] = y]
      BY <1>3, <2>1, <3>2 DEF SessionExited
    <3> HIDE DEF Carried
    <3>5. TypeOK
      BY DEF Carried
    <3> QED BY <2>1, <3>3, <3>4, <3>5, Touches
  <2> QED BY <1>1, <1>3, <2>1 DEF SessionExited
<1> QED BY <1>1, <1>2, <1>3 DEF Attach, Attached

\* Stop, attachment and the end of a session.
LEMMA PlacementLeaves ==
    ASSUME Carried,
           StopCurrent \/ Attach \/ Attached \/ \E s \in Sessions : SessionExited(s)
    PROVE  Placement'
<1> USE DEF Carried
<1>1. UNCHANGED <<lane, rpc>>
  BY DEF StopCurrent, Attach, Attached, SessionExited, agent
<1>2. /\ Kin(owned')
      /\ ready' = ready \/ (ready' \in ReadyAfter(owned) /\ Freed(owned'))
  <2> HIDE DEF Carried
  <2> QED BY Leaves
<1>3. SteadyOp /\ OpSound'
  <2>1. CASE Attached \/ \E s \in Sessions : SessionExited(s)
    <3>1. op' = None
      BY <2>1 DEF Attached, SessionExited, Idle
    <3> QED BY <3>1 DEF SteadyOp, OpSound
  <2>2. CASE StopCurrent \/ Attach
    <3>1. op \in Operation /\ op.from = "inbound" /\ op.step = "handle"
      BY <2>2 DEF StopCurrent, Attach, At, TypeOK
    <3>2. PICK r \in {"ok", "refused"} : op' = [op EXCEPT !.step = "settle", !.result = r]
      BY <2>2 DEF StopCurrent, Attach, Result
    <3>3. op'.from = op.from /\ op'.input = op.input /\ op'.step = "settle" /\ op' \in Operation
      BY <3>1, <3>2 DEF Operation
    <3>4. owned'[op.input] = None
      BY <1>2, <3>1, NoneIsNothing, Elsewhere DEF Kin
    <3> QED BY <3>1, <3>3, <3>4, NoneIsNothing DEF SteadyOp, OpSound, Handling, Doing
  <2> QED BY <2>1, <2>2
<1>4. \A s \in Sessions : SameStart(pending[s], pending'[s])
  <2> HIDE DEF Carried
  <2> QED BY StartsLeft
<1> HIDE DEF Carried
<1> QED BY <1>1, <1>2, <1>3, <1>4, PlacementRebinds

\* The runtime takes the oldest work.
LEMMA PlacementDispatch ==
    ASSUME Carried, Dispatch PROVE Placement'
<1> USE DEF Carried, Placement
<1> DEFINE h == Head(lane)
<1>1. /\ UNCHANGED <<pending, owned, ready, rpc>>
      /\ op = None /\ lane # <<>> /\ lane' = Tail(lane)
      /\ op' = [from |-> h.from, input |-> h.input, step |-> "begin", result |-> None]
  BY DEF Dispatch, agent
<1>2. lane \in Seq(Work)
  BY DEF TypeOK
<1>3. /\ h \in Work /\ h \in SeqRange(lane) /\ h \notin SeqRange(lane')
      /\ SeqRange(lane') \subseteq SeqRange(lane) /\ Distinct(lane')
  BY <1>1, <1>2, RangeTail DEF LaneSound
<1> HIDE DEF h
<1>4. /\ op' # None /\ op'.from = h.from /\ op'.input = h.input /\ op'.step = "begin"
      /\ h = [from |-> h.from, input |-> h.input]
  <2>1. h = [from |-> h.from, input |-> h.input] /\ h.from \in {"inbound", "queued", "ack"}
        /\ h.input \in Inputs
    BY <1>3 DEF Work
  <2>2. op' \in Operation
    BY <1>1, <2>1 DEF Operation
  <2> QED BY <1>1, <2>1, <2>2, NoneIsNothing
<1>5. \A e \in Inputs : /\ Resuming(e)' => h = QueuedWork(e)
                        /\ Doing("ack", e)' => h = AckWork(e)
                        /\ InLane(e)' => InLane(e)
  BY <1>3, <1>4 DEF Resuming, Doing, InLane, QueuedWork, AckWork
<1>6. \A e \in Inputs : Resuming(e)' => InLane(e) /\ ~InLane(e)'
  BY <1>3, <1>5 DEF InLane
<1>7. \A e \in Inputs :
         /\ \A s \in Sessions : (Start(s, e)' <=> Start(s, e)) /\ (Behind(s, e)' <=> Behind(s, e))
         /\ InReady(e)' <=> InReady(e)
         /\ Free(e)' <=> Free(e)
         /\ Answered(e)' <=> Answered(e)
  BY <1>1 DEF Start, Behind, InReady, Free, Answered
<1>8. StartsSound' /\ BehindSound' /\ ReadySound'
  BY <1>1, <1>7 DEF StartsSound, BehindSound, ReadySound, Sent
<1>9. LaneSound'
  BY <1>3, <1>5, <1>7 DEF LaneSound
<1>10. Apart'
  BY <1>5, <1>6, <1>7 DEF Apart, LaneSound
<1>11. AcksSound'
  <2>1. \A e \in Inputs : AckWork(e) \in SeqRange(lane') => Answered(e) /\ h # AckWork(e)
    BY <1>3 DEF AcksSound
  <2>2. \A e \in Inputs : h = AckWork(e) => Answered(e)
    BY <1>3 DEF AcksSound
  <2> QED BY <1>5, <1>7, <2>1, <2>2 DEF AcksSound
<1>12. OpSound'
  BY <1>4 DEF OpSound, Handling, Doing
<1> QED BY <1>8, <1>9, <1>10, <1>11, <1>12

\* What is ready becomes work, and so does an answered start.
LEMMA PlacementNext ==
    ASSUME Carried, NextPending PROVE Placement'
<1> USE DEF Carried, Placement
<1>1. UNCHANGED <<op, pending, owned, rpc>>
  BY DEF NextPending, agent
<1>2. lane \in Seq(Work) /\ ready \in Seq(Inputs)
  BY DEF TypeOK
<1>3. \A e \in Inputs :
         /\ \A s \in Sessions : (Start(s, e)' <=> Start(s, e)) /\ (Behind(s, e)' <=> Behind(s, e))
         /\ Resuming(e)' <=> Resuming(e)
         /\ Doing("ack", e)' <=> Doing("ack", e)
         /\ Free(e)' <=> Free(e)
         /\ Answered(e)' <=> Answered(e)
  BY <1>1 DEF Start, Behind, Resuming, Doing, Free, Answered
<1>4. StartsSound' /\ BehindSound' /\ OpSound'
  BY <1>1, <1>3 DEF StartsSound, BehindSound, OpSound, Sent, Handling, Doing
<1>5. CASE /\ ready # <<>> /\ ready' = Tail(ready)
           /\ lane' = Append(lane, [from |-> "queued", input |-> Head(ready)])
  <2>1. PICK f \in Inputs : f = Head(ready)
    BY <1>2, <1>5
  <2>2. /\ InReady(f) /\ f \notin SeqRange(ready') /\ Distinct(ready')
        /\ SeqRange(ready') \subseteq SeqRange(ready)
    BY <1>2, <1>5, <2>1, RangeTail DEF ReadySound, InReady
  <2>3. QueuedWork(f) \in Work /\ ~InLane(f) /\ lane' = Append(lane, QueuedWork(f))
    BY <1>5, <2>1, <2>2 DEF QueuedWork, Work, Apart
  <2>4. Distinct(lane') /\ SeqRange(lane') = SeqRange(lane) \cup {QueuedWork(f)}
    BY <1>2, <2>3, RangeAppend DEF LaneSound, InLane
  <2>5. \A e \in Inputs : /\ InLane(e)' <=> InLane(e) \/ e = f
                          /\ InReady(e)' => InReady(e) /\ e # f
                          /\ AckWork(e) \in SeqRange(lane') <=> AckWork(e) \in SeqRange(lane)
    BY <2>2, <2>4 DEF InLane, InReady, QueuedWork, AckWork
  <2>6. ReadySound' /\ LaneSound'
    BY <1>3, <2>2, <2>4, <2>5 DEF ReadySound, LaneSound
  <2>7. Apart'
    BY <1>3, <2>2, <2>5 DEF Apart
  <2>8. AcksSound'
    BY <1>3, <2>5 DEF AcksSound
  <2> QED BY <1>4, <2>6, <2>7, <2>8
<1>6. ASSUME NEW f \in Acknowledgeable, rpc[f].state \in Answers, lane' = Append(lane, AckWork(f)),
             UNCHANGED ready
      PROVE  Placement'
  <2>1. f \in Inputs /\ AckWork(f) \notin SeqRange(lane) /\ ~Doing("ack", f)
        /\ \E s \in Sessions : Start(s, f)
    BY DEF Acknowledgeable, TypeOK, Pending, Doing, Start
  <2>2. Answered(f)
    BY <1>6, <2>1 DEF StartsSound, Answered
  <2>3. AckWork(f) \in Work
    BY <2>1 DEF AckWork, Work
  <2>4. Distinct(lane') /\ SeqRange(lane') = SeqRange(lane) \cup {AckWork(f)}
    BY <1>2, <1>6, <2>1, <2>3, RangeAppend DEF LaneSound
  <2>5. \A e \in Inputs : /\ InLane(e)' <=> InLane(e)
                          /\ InReady(e)' <=> InReady(e)
                          /\ AckWork(e) \in SeqRange(lane') => AckWork(e) \in SeqRange(lane) \/ e = f
    BY <1>6, <2>4 DEF InLane, InReady, QueuedWork, AckWork
  <2>6. ReadySound' /\ LaneSound'
    BY <1>3, <1>6, <2>4, <2>5 DEF ReadySound, LaneSound
  <2>7. Apart'
    BY <1>3, <2>5 DEF Apart
  <2>8. AcksSound'
    BY <1>3, <2>1, <2>2, <2>5 DEF AcksSound
  <2> QED BY <1>4, <2>6, <2>7, <2>8
<1> QED BY <1>5, <1>6 DEF NextPending

\* A prompt that waits takes one place: behind the start, for the attachment, or
\* ready again.
LEMMA PlacementQueues ==
    ASSUME Carried, op # None, op.from = "queued" \/ (op.from = "inbound" /\ op.step # "begin"),
           NEW s \in Sessions, NEW b \in BOOLEAN, NEW x \in QueuedInput,
           x.session = s, x.queued, x.reattach = b,
           UNCHANGED <<lane, rpc>>, op' = None, owned' = [owned EXCEPT ![op.input] = x],
           pending' = IF ~b /\ pending[s] # None
                      THEN [pending EXCEPT ![s].queued =
                               InsertByAge(pending[s].queued, op.input, owned')]
                      ELSE pending,
           ready' = IF ~b /\ pending[s] = None THEN Append(ready, op.input) ELSE ready
    PROVE  Placement'
<1> USE DEF Carried, Placement
<1>1. PICK e : e = op.input
  OBVIOUS
<1>2. /\ e \in Inputs /\ ~InReady(e) /\ ~InLane(e)
      /\ \A r \in Sessions : ~Start(r, e) /\ ~Behind(r, e)
  BY <1>1, Elsewhere
<1>3. owned'[e] = x /\ \A f \in Inputs \ {e} : owned'[f] = owned[f]
  BY <1>1, <1>2 DEF TypeOK
<1>4. x # None
  BY NoneIsNothing
<1>5. \A r \in Sessions : pending[r] # None => pending[r] \in Pending /\ pending[r].queued \in Seq(Inputs)
  BY DEF TypeOK, Pending
<1>6. \A r \in Sessions :
         /\ r # s \/ b => pending'[r] = pending[r]
         /\ pending'[r] = None <=> pending[r] = None
         /\ pending[r] # None => pending'[r].input = pending[r].input
  <2>1. CASE pending' = pending
    BY <2>1
  <2>2. CASE ~b /\ pending[s] # None
    <3>1. PICK q : q = InsertByAge(pending[s].queued, op.input, owned')
      OBVIOUS
    <3>2. pending' = [pending EXCEPT ![s] = [pending[s] EXCEPT !.queued = q]]
      BY <2>2, <3>1
    <3>3. q \in Seq(Inputs)
      BY <1>1, <1>2, <1>5, <2>2, <3>1, RangeInsert
    <3>4. PICK y : y = [pending[s] EXCEPT !.queued = q]
      OBVIOUS
    <3>5. y \in Pending /\ y.input = pending[s].input
      BY <1>5, <2>2, <3>3, <3>4 DEF Pending
    <3>6. pending' = [pending EXCEPT ![s] = y]
      BY <3>2, <3>4
    <3>7. pending'[s] = y /\ \A r \in Sessions \ {s} : pending'[r] = pending[r]
      BY <3>6 DEF TypeOK
    <3>8. None \notin Pending
      BY NoneIsNothing
    <3> QED BY <2>2, <3>5, <3>7, <3>8
  <2> QED BY <2>1, <2>2
<1>7. ~b /\ pending[s] # None =>
         /\ Distinct(pending'[s].queued)
         /\ SeqRange(pending'[s].queued) = SeqRange(pending[s].queued) \cup {e}
  <2> SUFFICES ASSUME ~b, pending[s] # None
               PROVE  /\ Distinct(pending'[s].queued)
                      /\ SeqRange(pending'[s].queued) = SeqRange(pending[s].queued) \cup {e}
    OBVIOUS
  <2>1. pending'[s].queued = InsertByAge(pending[s].queued, e, owned')
    BY <1>1, <1>5 DEF TypeOK, Pending
  <2>2. Distinct(pending[s].queued) /\ e \notin SeqRange(pending[s].queued)
    BY <1>2 DEF BehindSound, Behind
  <2>3. pending[s].queued \in Seq(Inputs)
    BY <1>5
  <2>4. PICK q \in Seq(Inputs) : q = pending[s].queued
    BY <2>3
  <2> DEFINE own == owned'
  <2>5. /\ SeqRange(InsertByAge(q, e, own)) = SeqRange(q) \cup {e}
        /\ Distinct(q) /\ e \notin SeqRange(q) => Distinct(InsertByAge(q, e, own))
    <3> HIDE DEF own
    <3> QED BY <1>2, RangeInsert
  <2> QED BY <2>1, <2>2, <2>4, <2>5
<1>8. \A r \in Sessions, f \in Inputs :
         /\ Start(r, f)' <=> Start(r, f)
         /\ Behind(r, f)' <=> Behind(r, f) \/ (f = e /\ r = s /\ ~b /\ pending[s] # None)
  BY <1>2, <1>6, <1>7 DEF Start, Behind
<1>9. ready \in Seq(Inputs)
  BY DEF TypeOK
<1>10. /\ Distinct(ready')
       /\ \A f \in Inputs : InReady(f)' <=> InReady(f) \/ (f = e /\ ~b /\ pending[s] = None)
  <2>1. CASE ~b /\ pending[s] = None
    <3>1. ready' = Append(ready, e)
      BY <1>1, <2>1
    <3> QED BY <1>2, <1>9, <2>1, <3>1, RangeAppend DEF ReadySound, InReady
  <2>2. CASE ~(~b /\ pending[s] = None)
    BY <2>2 DEF ReadySound, InReady
  <2> QED BY <2>1, <2>2
<1>11. /\ Free(e)' <=> ~b
       /\ \A f \in Inputs \ {e} : Free(f)' <=> Free(f)
  BY <1>3, <1>4 DEF Free
<1>12. /\ \A f \in Inputs : (InLane(f)' <=> InLane(f)) /\ ~Resuming(f)' /\ ~Doing("ack", f)'
       /\ \A f \in Inputs : AckWork(f) \in SeqRange(lane') <=> AckWork(f) \in SeqRange(lane)
  BY DEF InLane, Resuming, Doing
<1>13. StartsSound'
  BY <1>2, <1>3, <1>8 DEF StartsSound, Sent
<1>14. BehindSound'
  <2>1. \A r \in Sessions : pending'[r] # None => Distinct(pending'[r].queued)
    BY <1>6, <1>7 DEF BehindSound
  <2>2. ASSUME NEW r \in Sessions, NEW f \in Inputs, Behind(r, f)' PROVE Free(f)' /\ owned'[f].session = r
    BY <1>2, <1>3, <1>8, <1>11, <2>2 DEF BehindSound
  <2> QED BY <2>1, <2>2 DEF BehindSound
<1>15. ReadySound' /\ LaneSound'
  BY <1>2, <1>10, <1>11, <1>12 DEF ReadySound, LaneSound
<1>16. Apart'
  <2>1. ASSUME NEW f \in Inputs
        PROVE  /\ InReady(f)' => ~InLane(f)' /\ ~Resuming(f)' /\ \A r \in Sessions : ~Behind(r, f)'
               /\ InLane(f)' => ~Resuming(f)' /\ \A r \in Sessions : ~Behind(r, f)'
    <3>1. CASE f = e
      BY <1>2, <1>8, <1>10, <1>12, <3>1
    <3>2. CASE f # e
      BY <1>8, <1>10, <1>12, <3>2 DEF Apart
    <3> QED BY <3>1, <3>2
  <2> QED BY <1>12, <2>1 DEF Apart
<1>17. AcksSound'
  <2>1. \A f \in Inputs : Answered(f) => Answered(f)'
    BY <1>8 DEF Answered
  <2> QED BY <1>12, <2>1 DEF AcksSound
<1>18. OpSound'
  BY DEF OpSound
<1> QED BY <1>13, <1>14, <1>15, <1>16, <1>17, <1>18

\* Sending a prompt, or keeping it.
LEMMA PlacementSend ==
    ASSUME Carried, SendPrompt PROVE Placement'
<1> USE DEF Carried
<1>1. /\ UNCHANGED lane
      /\ op \in Operation /\ op # None /\ op.from \in {"inbound", "queued"} /\ op.step = "handle"
  BY DEF SendPrompt, At, TypeOK
<1>2. \/ UNCHANGED <<pending, owned, ready, rpc>> /\ \E r \in {"ok", "refused"} : Result(r)
      \/ UNCHANGED rpc /\ \E s \in Sessions, b \in BOOLEAN : QueueWaiting(op.input, s, b)
      \/ UNCHANGED <<pending, owned, ready>> /\ Send(op.input, bound)
  <2>1. attaching # None => attaching.session \in Sessions
    BY DEF Attachment, TypeOK
  <2>2. bound \in Writable => bound \in Sessions
    BY SessionsTyped
  <2> QED BY <2>1, <2>2 DEF SendPrompt
<1>3. ASSUME UNCHANGED <<pending, owned, ready, rpc>>, NEW r \in {"ok", "refused"}, Result(r)
      PROVE  Placement'
  <2>1. op' \in Operation /\ op'.from = op.from /\ op'.input = op.input /\ op'.step = "settle"
    BY <1>1, <1>3 DEF Operation, Result
  <2>2. op.from = "inbound" => owned[op.input] = None
    BY <1>1, Elsewhere
  <2>3. SteadyOp /\ OpSound'
    BY <1>1, <1>3, <2>1, <2>2, NoneIsNothing DEF SteadyOp, OpSound, Handling, Doing
  <2>4. SteadyRequests
    BY <1>3 DEF SteadyRequests, Placement, StartsSound, Sent
  <2>5. \A s \in Sessions : SameStart(pending[s], pending'[s])
    BY <1>3 DEF SameStart
  <2> QED BY <1>1, <1>3, <2>3, <2>4, <2>5, Quiet
<1>4. ASSUME UNCHANGED rpc, NEW s \in Sessions, NEW b \in BOOLEAN, QueueWaiting(op.input, s, b)
      PROVE  Placement'
  <2>1. CASE UNCHANGED <<pending, owned, ready>> /\ Result("refused")
    BY <1>3, <1>4, <2>1
  <2>2. CASE /\ owned' = [owned EXCEPT ![op.input] =
                      [session |-> s, epoch |-> epoch, generation |-> generation,
                       queued |-> TRUE, cancelled |-> FALSE, reattach |-> b,
                       seq |-> IF owned[op.input] # None THEN owned[op.input].seq ELSE nextSeq]]
             /\ pending' = IF ~b /\ pending[s] # None
                      THEN [pending EXCEPT ![s].queued =
                               InsertByAge(pending[s].queued, op.input, owned')]
                      ELSE pending
             /\ ready' = IF ~b /\ pending[s] = None THEN Append(ready, op.input) ELSE ready
             /\ EndOp
    <3>1. (IF owned[op.input] # None THEN owned[op.input].seq ELSE nextSeq) \in Nat
      BY <1>1, Elsewhere DEF TypeOK, QueuedInput
    <3>2. PICK x : x = [session |-> s, epoch |-> epoch, generation |-> generation,
                       queued |-> TRUE, cancelled |-> FALSE, reattach |-> b,
                       seq |-> IF owned[op.input] # None THEN owned[op.input].seq ELSE nextSeq]
      OBVIOUS
    <3>3. x \in QueuedInput /\ x.session = s /\ x.queued /\ x.reattach = b
      BY <3>1, <3>2 DEF QueuedInput, TypeOK
    <3>4. owned' = [owned EXCEPT ![op.input] = x]
      BY <2>2, <3>2
    <3>5. op' = None
      BY <2>2 DEF EndOp
    <3> HIDE DEF Carried
    <3> QED BY <1>1, <1>4, <2>2, <3>3, <3>4, <3>5, PlacementQueues
  <2> QED BY <1>4, <2>1, <2>2 DEF QueueWaiting
<1>5. CASE UNCHANGED <<pending, owned, ready>> /\ Send(op.input, bound)
  <2>1. op' \in Operation /\ op'.from = op.from /\ op'.input = op.input /\ op'.step \in {"await", "window"}
    BY <1>1, <1>5 DEF Operation, Send
  <2>2. op.from = "inbound" => owned[op.input] = None
    BY <1>1, Elsewhere
  <2>3. /\ rpc'[op.input].state = "flying"
        /\ \A f \in Inputs \ {op.input} : rpc'[f] = rpc[f]
    <3>1. op.input \in Inputs
      BY <1>1, Elsewhere
    <3> QED BY <1>5, <3>1 DEF Send, TypeOK
  <2>4. SteadyOp /\ OpSound'
    BY <1>1, <1>5, <2>1, <2>2, <2>3, NoneIsNothing DEF SteadyOp, OpSound, Handling, Doing, Sent
  <2>5. SteadyRequests
    BY <1>1, <2>3, Elsewhere DEF SteadyRequests, Placement, StartsSound, Sent
  <2>6. \A s \in Sessions : SameStart(pending[s], pending'[s])
    BY <1>5 DEF SameStart
  <2> QED BY <1>1, <1>5, <2>4, <2>5, <2>6, Quiet
<1> QED BY <1>2, <1>3, <1>4, <1>5

\* The acknowledgement of a start is deferred.
LEMMA PlacementDefer ==
    ASSUME Carried, DeferPrompt PROVE Placement'
<1> USE DEF Carried, Placement
<1>1. PICK e, s : e = op.input /\ s = rpc[e].session
  OBVIOUS
<1>2. op # None /\ op.from \in {"inbound", "queued"} /\ op.step = "window"
  BY DEF DeferPrompt, At
<1>3. /\ e \in Inputs /\ ~InReady(e) /\ ~InLane(e)
      /\ \A r \in Sessions : ~Start(r, e) /\ ~Behind(r, e)
  BY <1>1, <1>2, Elsewhere
<1>4. Sent(e) /\ s \in Sessions /\ pending[s] = None
  BY <1>1, <1>2, <1>3 DEF OpSound, Requests, DeferPrompt, Room
<1>5. PICK x : x = [session |-> s, epoch |-> epoch, generation |-> rpc[e].generation,
                    queued |-> FALSE, cancelled |-> FALSE, reattach |-> FALSE, seq |-> 0]
  OBVIOUS
<1>6. PICK p : p = [input |-> e, stop |-> FALSE, applied |-> FALSE, valid |-> TRUE,
                    observed |-> None, queued |-> <<>>]
  OBVIOUS
<1>7. x \in QueuedInput /\ ~x.queued /\ x.session = s
  <2>1. rpc[e].generation \in Nat
    BY <1>3 DEF TypeOK, Request
  <2> QED BY <1>4, <1>5, <2>1 DEF QueuedInput, TypeOK
<1>8. p \in Pending /\ p.input = e /\ p.queued = <<>>
  BY <1>3, <1>6 DEF Pending
<1>9. owned' = [owned EXCEPT ![e] = x] /\ pending' = [pending EXCEPT ![s] = p]
  BY <1>1, <1>5, <1>6 DEF DeferPrompt
<1>10. UNCHANGED <<lane, ready, rpc>> /\ op' = None
  BY DEF DeferPrompt, agent, EndOp
<1>11. /\ owned'[e] = x /\ \A f \in Inputs \ {e} : owned'[f] = owned[f]
       /\ pending'[s] = p /\ \A r \in Sessions \ {s} : pending'[r] = pending[r]
  BY <1>3, <1>4, <1>9 DEF TypeOK
<1>12. x # None /\ p # None
  <2>1. None \notin QueuedInput /\ None \notin Pending
    BY NoneIsNothing
  <2> QED BY <1>7, <1>8, <2>1
<1>13. \A r \in Sessions, f \in Inputs :
          /\ Start(r, f)' <=> Start(r, f) \/ (r = s /\ f = e)
          /\ Behind(r, f)' <=> Behind(r, f)
  BY <1>4, <1>8, <1>11, <1>12 DEF Start, Behind, SeqRange
<1>14. /\ \A f \in Inputs : /\ InLane(f)' <=> InLane(f)
                            /\ InReady(f)' <=> InReady(f)
                            /\ ~Resuming(f)' /\ ~Doing("ack", f)'
                            /\ f # e => (Free(f)' <=> Free(f))
       /\ \A f \in Inputs : AckWork(f) \in SeqRange(lane') <=> AckWork(f) \in SeqRange(lane)
  BY <1>10, <1>11 DEF InLane, InReady, Resuming, Doing, Free
<1>15. StartsSound'
  BY <1>1, <1>3, <1>4, <1>7, <1>10, <1>11, <1>12, <1>13 DEF StartsSound, Sent
<1>16. BehindSound'
  <2>1. \A r \in Sessions : pending'[r] # None => Distinct(pending'[r].queued)
    BY <1>8, <1>11 DEF BehindSound, Distinct
  <2>2. \A r \in Sessions, f \in Inputs : Behind(r, f)' => Free(f)' /\ owned'[f].session = r
    BY <1>3, <1>11, <1>13, <1>14 DEF BehindSound
  <2> QED BY <2>1, <2>2 DEF BehindSound
<1>17. ReadySound' /\ LaneSound'
  BY <1>3, <1>10, <1>14 DEF ReadySound, LaneSound
<1>18. Apart'
  BY <1>13, <1>14 DEF Apart
<1>19. AcksSound'
  <2>1. \A f \in Inputs : Answered(f) => Answered(f)'
    BY <1>10, <1>13 DEF Answered
  <2> QED BY <1>14, <2>1 DEF AcksSound
<1>20. OpSound'
  BY <1>10 DEF OpSound
<1> QED BY <1>15, <1>16, <1>17, <1>18, <1>19, <1>20

\* An acknowledgement removes its start and hands on or gives up what waits.
LEMMA PlacementAcknowledges ==
    ASSUME Carried, ApplyAcknowledged PROVE Placement'
<1> USE DEF Carried, Placement
<1>1. PICK e, s : e = op.input /\ s = rpc[e].session
  OBVIOUS
<1>2. op # None /\ op.from = "ack"
  BY DEF ApplyAcknowledged, At
<1>3. e \in Inputs /\ s \in Sessions /\ Start(s, e) /\ Doing("ack", e)
  BY <1>1, <1>2, Acknowledges DEF Doing
<1> DEFINE q == pending[s].queued
           left == IF HandOn(s, e) THEN {} ELSE SeqRange(q)
<1>4. /\ UNCHANGED lane /\ op' = None
      /\ pending' = [pending EXCEPT ![s] = None] /\ rpc' = [rpc EXCEPT ![e] = NoRequest]
      /\ ready' = IF HandOn(s, e) THEN ready \o q ELSE ready
      /\ owned' = owned \/ \E es : es \subseteq {e} \cup left /\ owned' = Forget(owned, es)
  <2>1. owned' = owned \/ \E es : es \subseteq {e} \cup left /\ owned' = Forget(owned, es)
    <3>1. owned' = owned \/ \E lost : owned' = Forget(owned, {e} \cup (left \ lost))
      BY <1>1 DEF ApplyAcknowledged
    <3>2. \A lost : {e} \cup (left \ lost) \subseteq {e} \cup left
      OBVIOUS
    <3> HIDE DEF left
    <3> QED BY <3>1, <3>2
  <2> QED BY <1>1, <2>1 DEF ApplyAcknowledged, EndOp
<1>5. q \in Seq(Inputs) /\ ready \in Seq(Inputs)
  BY <1>3 DEF Start, TypeOK, Pending
<1>6. \A f \in Inputs : f \in SeqRange(q) <=> Behind(s, f)
  BY <1>3 DEF Behind, Start
<1>7. SeqRange(q) \subseteq Inputs
  BY <1>5 DEF SeqRange
<1>8. /\ pending'[s] = None /\ \A r \in Sessions \ {s} : pending'[r] = pending[r]
      /\ \A f \in Inputs \ {e} : rpc'[f] = rpc[f]
  BY <1>3, <1>4 DEF TypeOK
<1>9. \A f \in Inputs : owned'[f] = owned[f] \/ (owned'[f] = None /\ f \in {e} \cup left)
  <2> HIDE DEF left
  <2> QED BY <1>4 DEF Forget
<1>10. \A f \in Inputs : f # e /\ ~Behind(s, f) => owned'[f] = owned[f]
  BY <1>6, <1>9
<1>11. \A r \in Sessions, f \in Inputs :
          /\ Start(r, f)' <=> Start(r, f) /\ r # s
          /\ Behind(r, f)' <=> Behind(r, f) /\ r # s
  BY <1>8 DEF Start, Behind
<1>12. \A f \in Inputs : InReady(f)' <=> InReady(f) \/ (HandOn(s, e) /\ Behind(s, f))
  BY <1>4, <1>5, <1>6, RangeConcat DEF InReady
<1>13. Distinct(ready')
  <2>1. Distinct(ready) /\ Distinct(q)
    BY <1>3 DEF ReadySound, BehindSound, Start
  <2>2. SeqRange(ready) \cap SeqRange(q) = {}
    BY <1>3, <1>6, <1>7 DEF Apart, InReady
  <2> QED BY <1>4, <1>5, <2>1, <2>2, RangeConcat
<1>14. \A f \in Inputs : (InLane(f)' <=> InLane(f)) /\ ~Resuming(f)' /\ ~Doing("ack", f)'
                         /\ (AckWork(f) \in SeqRange(lane') <=> AckWork(f) \in SeqRange(lane))
  BY <1>4 DEF InLane, Resuming, Doing
<1>15. ~Free(e) /\ ~owned[e].queued /\ \A r \in Sessions : r # s => ~Start(r, e)
  BY <1>3 DEF StartsSound, Free
<1>16. \A f \in Inputs : Free(f) /\ ~Behind(s, f) => Free(f)'
  BY <1>10, <1>15 DEF Free
<1>17. StartsSound'
  <2> SUFFICES ASSUME NEW r \in Sessions, NEW f \in Inputs, Start(r, f)'
               PROVE  /\ owned'[f] # None /\ ~owned'[f].queued /\ owned'[f].session = r
                      /\ rpc'[f].session = r /\ rpc'[f].state # "none"
    BY DEF StartsSound, Sent
  <2>1. Start(r, f) /\ r # s /\ f # e
    BY <1>11, <1>15
  <2>2. ~Behind(s, f)
    BY <1>3, <2>1 DEF StartsSound, BehindSound, Free
  <2> QED BY <1>8, <1>10, <2>1, <2>2 DEF StartsSound, Sent
<1>18. BehindSound'
  <2>1. \A r \in Sessions : pending'[r] # None => Distinct(pending'[r].queued)
    BY <1>8 DEF BehindSound
  <2>2. ASSUME NEW r \in Sessions, NEW f \in Inputs, Behind(r, f)' PROVE Free(f)' /\ owned'[f].session = r
    <3>1. Behind(r, f) /\ r # s /\ Free(f) /\ owned[f].session = r
      BY <1>11, <2>2 DEF BehindSound
    <3>2. f # e /\ ~Behind(s, f)
      BY <1>3, <1>15, <3>1 DEF BehindSound
    <3> QED BY <1>10, <1>16, <3>1, <3>2
  <2> QED BY <2>1, <2>2 DEF BehindSound
<1>19. ReadySound'
  <2>1. ASSUME NEW f \in Inputs, InReady(f)' PROVE Free(f)'
    <3>1. CASE InReady(f)
      BY <1>3, <1>16, <3>1 DEF ReadySound, Apart
    <3>2. CASE HandOn(s, e) /\ Behind(s, f)
      <4>1. Free(f) /\ f # e
        BY <1>3, <1>15, <3>2 DEF BehindSound
      <4>2. owned'[f] = owned[f]
        BY <1>9, <3>2, <4>1
      <4> QED BY <4>1, <4>2 DEF Free
    <3> QED BY <1>12, <2>1, <3>1, <3>2
  <2> QED BY <1>13, <2>1 DEF ReadySound
<1>20. LaneSound'
  BY <1>3, <1>4, <1>14, <1>16 DEF LaneSound, Apart
<1>21. Apart'
  <2>1. ASSUME NEW f \in Inputs, Behind(s, f)
        PROVE  ~InLane(f) /\ \A r \in Sessions : r # s => ~Behind(r, f)
    BY <1>3, <2>1 DEF Apart, BehindSound
  <2> HIDE DEF q, left
  <2> QED BY <1>3, <1>11, <1>12, <1>14, <2>1 DEF Apart
<1>22. AcksSound'
  <2>1. ASSUME NEW f \in Inputs, Answered(f), f # e PROVE Answered(f)'
    <3>1. PICK r \in Sessions : rpc[f].session = r /\ Start(r, f) /\ rpc[f].state \in Answers
      BY <2>1 DEF Answered
    <3>2. r # s
      BY <1>3, <2>1, <3>1 DEF Start
    <3> QED BY <1>8, <1>11, <2>1, <3>1, <3>2 DEF Answered
  <2>2. \A f \in Inputs : AckWork(f) \in SeqRange(lane) => Answered(f) /\ f # e
    BY <1>3 DEF AcksSound
  <2> QED BY <1>14, <2>1, <2>2 DEF AcksSound
<1>23. OpSound'
  BY <1>4 DEF OpSound
<1> QED BY <1>17, <1>18, <1>19, <1>20, <1>21, <1>22, <1>23

\* The process is gone, and its memory with it.
LEMMA PlacementLost ==
    ASSUME LoseMemory PROVE Placement'
<1>1. /\ lane' = <<>> /\ ready' = <<>> /\ op' = None
      /\ \A s \in Sessions : pending'[s] = None
  BY DEF LoseMemory
<1>2. SeqRange(lane') = {} /\ SeqRange(ready') = {} /\ Distinct(lane') /\ Distinct(ready')
  BY <1>1 DEF SeqRange, Distinct
<1>3. \A e \in Inputs : ~InReady(e)' /\ ~InLane(e)' /\ ~Resuming(e)' /\ ~Doing("ack", e)'
  BY <1>1, <1>2 DEF InReady, InLane, Resuming, Doing
<1>4. \A s \in Sessions, e \in Inputs : ~Start(s, e)' /\ ~Behind(s, e)'
  BY <1>1 DEF Start, Behind
<1>5. StartsSound' /\ BehindSound'
  BY <1>1, <1>4 DEF StartsSound, BehindSound
<1>6. ReadySound' /\ LaneSound' /\ Apart'
  BY <1>2, <1>3 DEF ReadySound, LaneSound, Apart
<1>7. AcksSound' /\ OpSound'
  BY <1>1, <1>2, <1>3 DEF AcksSound, OpSound
<1> QED BY <1>5, <1>6, <1>7 DEF Placement

\* Every step keeps each follow-up in one place.
LEMMA PlacementStep ==
    ASSUME Carried, [Next]_vars PROVE Placement'
BY PlacementQuiet, PlacementDeliver, PlacementAnswer, PlacementEnds, PlacementLeaves,
   PlacementDispatch, PlacementNext, PlacementSend, PlacementDefer, PlacementAcknowledges,
   PlacementLost DEF Next, Progress, Operate, Exit, Crash

----------------------------------------------------------------------------
(* Attachments and the process *)

HeldBack(e) == owned[e] # None /\ owned[e].reattach

\* The phase only becomes "up" by a restart.
LEMMA Phases ==
    ASSUME Carried, [Next]_vars
    PROVE  /\ phase' = "up" => phase = "up" \/ Restart
           /\ phase' \in {"up", "closed"} => phase \in {"up", "closed"} \/ Restart
           /\ phase' = "down" => phase = "down" \/ Exit \/ Crash
           /\ phase = "fenced" => phase' \in {"fenced", "down"}
           /\ phase' = "fenced" => phase = "fenced" \/ FenceOwned
           /\ phase = "down" => Restart \/ UNCHANGED <<store, inputState, history, phase>>
<1>1. CASE \/ Claim \/ TakeQueued \/ DeferPrompt \/ KeepAwaiting \/ StopCurrent
           \/ Attach \/ AbortWorker \/ WorkerPanics
           \/ SendPrompt \/ Settle \/ ApplyAcknowledged
  <2>1. op # None
    BY <1>1 DEF Claim, TakeQueued, DeferPrompt, KeepAwaiting, StopCurrent, Attach, AbortWorker, WorkerPanics,
          SendPrompt, Settle, ApplyAcknowledged, At
  <2>2. phase # "down"
    BY <2>1 DEF Carried, Memory
  <2>3. UNCHANGED phase \/ (phase = "up" /\ phase' = "closed")
    BY <1>1 DEF Claim, TakeQueued, DeferPrompt, KeepAwaiting, StopCurrent, Attach, AbortWorker, WorkerPanics,
          SendPrompt, Settle, ApplyAcknowledged, Closed
  <2> QED BY <2>2, <2>3
<1>2. CASE \/ NextPending \/ Dispatch \/ Attached \/ Shutdown
           \/ \E s \in Sessions : TurnStarted(s) \/ TurnCompleted(s) \/ SessionExited(s)
           \/ \E e \in Inputs : Deliver(e)
  BY <1>2 DEF NextPending, Dispatch, Attached, Shutdown, TurnStarted, TurnCompleted, SessionExited,
        Deliver, Closed, Idle
<1>3. CASE \/ FenceOwned \/ Exit \/ Crash \/ Restart
  BY <1>3 DEF FenceOwned, Exit, Crash, Restart, LoseMemory
<1>4. CASE Reconnected \/ UNCHANGED vars \/ \E e \in Inputs : AgentAnswers(e)
  BY <1>4 DEF Reconnected, AgentAnswers, vars
<1> QED BY <1>1, <1>2, <1>3, <1>4 DEF Next, Progress, Operate

\* Every step leaves nothing in the memory of a process that is down.
LEMMA MemoryStep ==
    ASSUME Carried, [Next]_vars PROVE Memory'
<1>1. CASE Exit \/ Crash
  BY <1>1 DEF Exit, Crash, LoseMemory, Memory
<1>2. CASE phase = "down" /\ UNCHANGED <<store, inputState, history, phase>>
  BY <1>2 DEF Carried, Memory, inputState, history
<1>3. CASE Restart
  BY <1>3 DEF Restart, Memory
<1> QED BY <1>1, <1>2, <1>3, Phases DEF Memory

\* Who waits for an attachment is released when there is none any more.
LEMMA ReattachmentStep ==
    ASSUME Carried, [Next]_vars PROVE Reattachments'
<1>1. \A e \in Inputs : HeldBack(e) => owned[e].queued /\ (phase = "up" => attaching # None)
  BY DEF HeldBack, Carried, Reattachments
<1>2. ASSUME \A e \in Inputs : HeldBack(e)' => HeldBack(e) /\ owned'[e].queued = owned[e].queued,
             UNCHANGED attaching, phase' = "up" => phase = "up"
      PROVE  Reattachments'
  BY <1>1, <1>2 DEF Reattachments, HeldBack
<1>3. ASSUME \A e \in Inputs : ~HeldBack(e)' PROVE Reattachments'
  BY <1>3 DEF Reattachments, HeldBack
<1>5. CASE Exit \/ Crash
  <2>1. \A e \in Inputs : ~HeldBack(e)'
    BY <1>5 DEF Exit, Crash, LoseMemory, HeldBack
  <2> QED BY <1>3, <2>1
<1>6. CASE Restart
  <2>1. \A e \in Inputs : ~HeldBack(e)'
    BY <1>6 DEF Restart, inputState, HeldBack, Carried, Memory
  <2> QED BY <1>3, <2>1
<1>7. CASE TakeQueued \/ Settle \/ ApplyAcknowledged
  <2>1. UNCHANGED <<attaching, phase>> /\ (owned' = owned \/ \E es : owned' = Forget(owned, es))
    BY <1>7 DEF TakeQueued, Settle, ApplyAcknowledged
  <2>2. \A e \in Inputs : HeldBack(e)' => HeldBack(e) /\ owned'[e].queued = owned[e].queued
    BY <2>1 DEF HeldBack, Forget
  <2> QED BY <1>2, <2>1, <2>2
<1>8. CASE SendPrompt \/ DeferPrompt
  <2>1. UNCHANGED <<attaching, phase>>
    BY <1>8 DEF SendPrompt, DeferPrompt
  <2>2. \/ UNCHANGED owned
        \/ \E x : owned' = [owned EXCEPT ![op.input] = x] /\ (x.reattach => x.queued /\ attaching # None)
    BY <1>8 DEF SendPrompt, QueueWaiting, DeferPrompt
  <2>3. \A e \in Inputs : HeldBack(e)' => owned'[e].queued /\ (phase = "up" => attaching # None)
    BY <1>1, <2>2 DEF HeldBack, Carried, TypeOK
  <2> QED BY <2>1, <2>3 DEF Reattachments, HeldBack
<1>9. CASE StopCurrent \/ Attach \/ Attached \/ \E s \in Sessions : SessionExited(s)
  <2>1. UNCHANGED phase
    BY <1>9 DEF StopCurrent, Attach, Attached, SessionExited
  <2>2. \A e \in Inputs : HeldBack(e)' => HeldBack(e) /\ owned'[e].queued = owned[e].queued
    BY <1>9, Leaves DEF Kin, HeldBack
  <2>3. CASE attaching' = attaching
    BY <1>2, <2>1, <2>2, <2>3
  <2>4. CASE attaching = None
    BY <1>1, <2>1, <2>2, <2>4 DEF Reattachments, HeldBack
  <2>5. CASE Freed(owned')
    <3>1. \A e \in Inputs : ~HeldBack(e)'
      BY <2>2, <2>5 DEF Freed, HeldBack, Reattaching
    <3> QED BY <1>3, <3>1
  <2> QED BY <1>9, <2>3, <2>4, <2>5, Leaves
<1>10. CASE Shutdown \/ WorkerPanics
  <2>1. UNCHANGED owned /\ phase' = "closed"
    BY <1>10 DEF Shutdown, WorkerPanics
  <2> QED BY <1>1, <2>1 DEF Reattachments, HeldBack
<1>11. CASE \/ Claim \/ NextPending \/ Dispatch \/ KeepAwaiting \/ FenceOwned \/ AbortWorker
            \/ Reconnected \/ UNCHANGED vars
            \/ \E e \in Inputs : AgentAnswers(e) \/ Deliver(e)
            \/ \E s \in Sessions : TurnStarted(s) \/ TurnCompleted(s)
  <2>1. UNCHANGED <<owned, attaching>>
    BY <1>11 DEF Claim, NextPending, Dispatch, KeepAwaiting, FenceOwned, AbortWorker, Reconnected,
          AgentAnswers, Deliver, TurnStarted, TurnCompleted, inputState, vars
  <2>2. phase' = "up" => phase = "up"
    BY <1>11 DEF Claim, NextPending, Dispatch, KeepAwaiting, FenceOwned, AbortWorker, Reconnected,
          AgentAnswers, Deliver, TurnStarted, TurnCompleted, vars
  <2> QED BY <1>2, <2>1, <2>2 DEF HeldBack
<1> QED BY <1>5, <1>6, <1>7, <1>8, <1>9, <1>10, <1>11 DEF Next, Progress, Operate

----------------------------------------------------------------------------
(* Claims *)

\* What the writes of the store do to one event.
LEMMA EachWrite ==
    ASSUME event \in EventsTyped, NEW es
    PROVE  /\ \A ev \in EventsTyped, f \in Inputs :
                 Complete(ev, es)[f] = IF f \in es THEN "completed" ELSE ev[f]
           /\ \A f \in Inputs :
                 /\ Fence(event, es)[f] = IF f \in es /\ event[f] \in {"absent", "processing"}
                                          THEN "uncertain" ELSE event[f]
                 /\ Release(event, es)[f] = IF f \in es /\ event[f] = "processing"
                                            THEN "failed" ELSE event[f]
           /\ \A e \in Inputs : \A r :
                 /\ \A f \in Inputs \ {e} : Settled(event, e, r)[f] = event[f]
                 /\ r \in {"ok", "accepted"} => Settled(event, e, r)[e] = "completed"
                 /\ r = "unknown" => Settled(event, e, r)[e] =
                       IF event[e] \in {"absent", "processing"} THEN "uncertain" ELSE event[e]
                 /\ r \notin {"ok", "accepted", "unknown"} => Settled(event, e, r)[e] =
                       IF event[e] = "processing" THEN "failed" ELSE event[e]
BY DEF EventsTyped, Complete, Fence, Release, Settled

\* The steps after which the same inputs are claimed by the same owners.
LEMMA ClaimsKept ==
    ASSUME Carried, UNCHANGED event,
           \A e \in Inputs : owned'[e] = None <=> owned[e] = None,
           \A e \in Inputs : Handling(e)' <=> Handling(e),
           phase' = "up" => phase = "up",
           phase' \in {"up", "closed"} => phase \in {"up", "closed"},
           bounds'.lost = 0 => bounds.lost = 0
    PROVE  Claims'
<1> USE DEF Carried
<1>1. ASSUME NEW e \in Inputs
      PROVE  /\ owned'[e] # None => event'[e] \in {"processing", "uncertain"}
             /\ owned'[e] # None /\ phase' = "up" => event'[e] = "processing"
             /\ Handling(e)' => event'[e] = "processing"
             /\ phase' \in {"up", "closed"} /\ bounds'.lost = 0 /\ event'[e] = "processing"
                   => owned'[e] # None \/ Handling(e)'
  BY DEF Claims
<1> QED BY <1>1 DEF Claims

\* A prompt that is sent, refused or kept: it becomes owned and its operation ends,
\* or the operation goes on.
LEMMA Waits ==
    ASSUME Carried, SendPrompt \/ DeferPrompt
    PROVE  /\ op \in Operation /\ op # None /\ op.from \in {"inbound", "queued"} /\ op.step # "begin"
           /\ \/ op' = None /\ \E x \in QueuedInput : owned' = [owned EXCEPT ![op.input] = x]
              \/ /\ UNCHANGED owned
                 /\ op' \in Operation /\ op'.from = op.from /\ op'.input = op.input
                 /\ op'.step \in {"settle", "await", "window"}
<1>1. op \in Operation /\ op # None /\ op.from \in {"inbound", "queued"} /\ op.step \in {"handle", "window"}
  BY DEF SendPrompt, DeferPrompt, At, Carried, TypeOK
<1>2. op.input \in Inputs
  BY <1>1 DEF Operation
<1>3. CASE DeferPrompt
  <2>1. rpc[op.input].session \in Sessions /\ rpc[op.input].generation \in Nat
    BY <1>1, <1>2, <1>3 DEF Carried, DeferPrompt, At, Placement, OpSound, Requests, TypeOK, Request
  <2>2. [session |-> rpc[op.input].session, epoch |-> epoch, generation |-> rpc[op.input].generation,
         queued |-> FALSE, cancelled |-> FALSE, reattach |-> FALSE, seq |-> 0] \in QueuedInput
    BY <2>1 DEF QueuedInput, Carried, TypeOK
  <2> QED BY <1>1, <1>3, <2>2 DEF DeferPrompt, EndOp
<1>4. CASE SendPrompt
  <2>1. \/ UNCHANGED owned /\ \E r \in {"ok", "refused"} : op' = [op EXCEPT !.step = "settle", !.result = r]
        \/ UNCHANGED owned /\ \E x \in {"await", "window"} : op' = [op EXCEPT !.step = x]
        \/ \E s \in Sessions, b \in BOOLEAN : QueueWaiting(op.input, s, b)
    <3>1. attaching # None => attaching.session \in Sessions
      BY DEF Attachment, Carried, TypeOK
    <3>2. bound \in Writable => bound \in Sessions
      BY SessionsTyped
    <3> QED BY <1>4, <3>1, <3>2 DEF SendPrompt, Result, Send
  <2>2. \A r \in {"ok", "refused"} :
           /\ [op EXCEPT !.step = "settle", !.result = r] \in Operation
           /\ [op EXCEPT !.step = "settle", !.result = r].from = op.from
           /\ [op EXCEPT !.step = "settle", !.result = r].input = op.input
           /\ [op EXCEPT !.step = "settle", !.result = r].step = "settle"
    BY <1>1 DEF Operation
  <2>3. \A x \in {"await", "window"} :
           /\ [op EXCEPT !.step = x] \in Operation
           /\ [op EXCEPT !.step = x].from = op.from
           /\ [op EXCEPT !.step = x].input = op.input
           /\ [op EXCEPT !.step = x].step = x
    BY <1>1 DEF Operation
  <2>4. ASSUME NEW s \in Sessions, NEW b \in BOOLEAN, QueueWaiting(op.input, s, b)
        PROVE  \/ UNCHANGED owned /\ op' = [op EXCEPT !.step = "settle", !.result = "refused"]
               \/ op' = None /\ \E x \in QueuedInput : owned' = [owned EXCEPT ![op.input] = x]
    <3>1. (IF owned[op.input] # None THEN owned[op.input].seq ELSE nextSeq) \in Nat
      BY <1>2 DEF Carried, TypeOK, QueuedInput
    <3>2. [session |-> s, epoch |-> epoch, generation |-> generation,
           queued |-> TRUE, cancelled |-> FALSE, reattach |-> b,
           seq |-> IF owned[op.input] # None THEN owned[op.input].seq ELSE nextSeq] \in QueuedInput
      BY <3>1 DEF QueuedInput, Carried, TypeOK
    <3> QED BY <2>4, <3>2 DEF QueueWaiting, Result, EndOp
  <2> QED BY <1>1, <2>1, <2>2, <2>3, <2>4
<1> QED BY <1>1, <1>3, <1>4

\* Every step keeps claims and owners together.
LEMMA ClaimsStep ==
    ASSUME Carried, [Next]_vars PROVE Claims'
<1>0. /\ event \in EventsTyped /\ owned \in OwnedTable
      /\ bounds'.lost = 0 => bounds.lost = 0
      /\ op # None => op \in Operation /\ op.input \in Inputs
      /\ \A e \in Inputs :
            /\ owned[e] # None => event[e] \in {"processing", "uncertain"}
            /\ owned[e] # None /\ phase = "up" => event[e] = "processing"
            /\ Handling(e) => event[e] = "processing" /\ owned[e] = None
            /\ phase \in {"up", "closed"} /\ bounds.lost = 0 /\ event[e] = "processing"
                  => owned[e] # None \/ Handling(e)
  <2>1. \A e \in Inputs : Handling(e) => owned[e] = None
    BY DEF Carried, Placement, OpSound, Handling, Doing
  <2>2. bounds'.lost = 0 => bounds.lost = 0
    BY HistoryStep
  <2> QED BY <2>1, <2>2 DEF Carried, Claims, TypeOK, EventsTyped, OwnedTable, Operation
<1> DEFINE Good(e) ==
              /\ owned'[e] # None => event'[e] \in {"processing", "uncertain"}
              /\ owned'[e] # None /\ phase' = "up" => event'[e] = "processing"
              /\ Handling(e)' => event'[e] = "processing"
              /\ phase' \in {"up", "closed"} /\ bounds'.lost = 0 /\ event'[e] = "processing"
                    => owned'[e] # None \/ Handling(e)'
<1>a. ASSUME \A e \in Inputs : Good(e) PROVE Claims'
  BY <1>a DEF Claims
<1>b. op' = None => \A e \in Inputs : ~Handling(e)'
  BY DEF Handling, Doing
<1>1. ASSUME NEW e \in Inputs, Deliver(e) PROVE Claims'
  <2>1. /\ UNCHANGED <<owned, op, phase>>
        /\ event' = event
           \/ (event[e] \in {"absent", "failed"} /\ event' = [event EXCEPT ![e] = "rejected"])
    BY <1>1 DEF Deliver
  <2>2. \A f \in Inputs : Handling(f)' <=> Handling(f)
    BY <2>1 DEF Handling, Doing
  <2>3. ASSUME NEW f \in Inputs PROVE Good(f)
    <3>1. event'[f] = event[f] \/ (f = e /\ event[e] \in {"absent", "failed"} /\ event'[f] = "rejected")
      BY <1>0, <2>1 DEF EventsTyped
    <3> QED BY <1>0, <2>1, <2>2, <3>1
  <2> QED BY <1>a, <2>3
<1>2. CASE Claim
  <2>1. /\ op # None /\ op.from = "inbound" /\ op.step = "begin" /\ UNCHANGED <<owned, phase, bounds>>
    BY <1>2 DEF Claim, At
  <2>2. \A f \in Inputs : ~Handling(f)
    BY <2>1 DEF Handling
  <2>3. CASE event[op.input] \in {"absent", "failed"} /\ event' = [event EXCEPT ![op.input] = "processing"]
             /\ op' = [op EXCEPT !.step = "handle"]
    <3>1. op' \in Operation /\ op'.from = "inbound" /\ op'.input = op.input /\ op'.step = "handle" /\ op' # None
      BY <1>0, <2>1, <2>3, NoneIsNothing DEF Operation
    <3>2. \A f \in Inputs : Handling(f)' <=> f = op.input
      BY <3>1 DEF Handling, Doing
    <3>3. ASSUME NEW f \in Inputs PROVE Good(f)
      <4>1. event'[f] = IF f = op.input THEN "processing" ELSE event[f]
        BY <1>0, <2>3 DEF EventsTyped
      <4> QED BY <1>0, <2>1, <2>2, <3>2, <4>1
    <3> QED BY <1>a, <3>3
  <2>4. CASE op' = None /\ UNCHANGED event
    <3>1. \A f \in Inputs : Good(f)
      BY <1>0, <1>b, <2>1, <2>2, <2>4
    <3> QED BY <1>a, <3>1
  <2> QED BY <1>2, <2>3, <2>4 DEF Claim, EndOp
<1>3. CASE TakeQueued
  <2>1. op # None /\ op.from = "queued" /\ UNCHANGED phase
    BY <1>3 DEF TakeQueued, At
  <2>2. \A f \in Inputs : ~Handling(f)
    BY <2>1 DEF Handling, Doing
  <2>3. CASE op' = [op EXCEPT !.step = "handle"] /\ UNCHANGED <<event, owned, bounds>>
    <3>1. op'.from = "queued"
      BY <1>0, <2>1, <2>3 DEF Operation
    <3>2. \A f \in Inputs : ~Handling(f)'
      BY <3>1 DEF Handling, Doing
    <3>3. \A f \in Inputs : Good(f)
      BY <1>0, <2>1, <2>2, <2>3, <3>2
    <3> QED BY <1>a, <3>3
  <2>4. ASSUME op' = None, NEW es, event' = Complete(event, es), owned' = Forget(owned, es)
        PROVE  Claims'
    <3>1. ASSUME NEW f \in Inputs PROVE Good(f)
      <4>1. event'[f] = IF f \in es THEN "completed" ELSE event[f]
        BY <1>0, <2>4, EachWrite
      <4>2. owned'[f] = IF f \in es THEN None ELSE owned[f]
        BY <1>0, <2>4, Forgets
      <4> QED BY <1>0, <1>b, <2>1, <2>2, <2>4, <4>1, <4>2
    <3> QED BY <1>a, <3>1
  <2> QED BY <1>3, <2>3, <2>4 DEF TakeQueued, EndOp
<1>4. CASE Settle
  <2>1. PICK e \in Inputs : e = op.input
    BY <1>0, <1>4 DEF Settle
  <2>2. PICK lost \in SUBSET {e} :
           /\ LoseWrites(lost)
           /\ event' = IF lost = {} THEN Settled(event, e, Outcome) ELSE event
           /\ owned' = Forget(owned, {e} \ lost)
    BY <1>4, <2>1 DEF Settle
  <2>3. UNCHANGED phase /\ op' = None
    BY <1>4 DEF Settle, EndOp
  <2>4. \A f \in Inputs : Handling(f) => f = e
    BY <2>1 DEF Handling, Doing
  <2>5. CASE lost = {}
    <3>1. ASSUME NEW f \in Inputs PROVE Good(f)
      <4>1. /\ f # e => event'[f] = event[f] /\ owned'[f] = owned[f]
            /\ f = e => owned'[f] = None
        BY <1>0, <2>2, <2>5, EachWrite, Forgets
      <4>2. f = e => event'[f] # "processing"
        <5>1. event' = Settled(event, e, Outcome)
          BY <2>2, <2>5
        <5>2. PICK r : r = Outcome
          OBVIOUS
        <5>3. Settled(event, e, r)[e] # "processing"
          BY <1>0, EachWrite
        <5> QED BY <5>1, <5>2, <5>3
      <4> QED BY <1>0, <1>b, <2>3, <2>4, <4>1, <4>2
    <3> QED BY <1>a, <3>1
  <2>6. CASE lost = {e}
    <3>1. bounds'.lost # 0
      <4>1. IsFiniteSet(lost)
        BY <2>6, FS_Singleton
      <4> QED BY <2>2, <2>6, <4>1, Losses DEF Carried
    <3>2. UNCHANGED event /\ \A f \in Inputs : owned'[f] = owned[f]
      <4>1. {e} \ lost = {} /\ lost # {}
        BY <2>6
      <4> QED BY <1>0, <2>2, <4>1, Forgets
    <3>3. \A f \in Inputs : Good(f)
      BY <1>0, <1>b, <2>3, <3>1, <3>2
    <3> QED BY <1>a, <3>3
  <2> QED BY <2>5, <2>6
<1>5. CASE ApplyAcknowledged
  <2>1. op # None /\ op.from = "ack" /\ UNCHANGED phase /\ op' = None
    BY <1>5 DEF ApplyAcknowledged, At, EndOp
  <2>2. \A f \in Inputs : ~Handling(f)
    BY <2>1 DEF Handling, Doing
  <2>3. CASE UNCHANGED <<event, owned>>
    <3>1. \A f \in Inputs : Good(f)
      BY <1>0, <1>b, <2>1, <2>2, <2>3
    <3> QED BY <1>a, <3>1
  <2>4. ASSUME NEW es, NEW e \in Inputs, NEW r, event' = Complete(Settled(event, e, r), es),
               owned' = Forget(owned, {e} \cup es)
        PROVE  Claims'
    <3>1. ASSUME NEW f \in Inputs PROVE Good(f)
      <4>1. Settled(event, e, r) \in EventsTyped
        BY <1>0, Writes
      <4>2. event'[f] = IF f \in es THEN "completed" ELSE Settled(event, e, r)[f]
        BY <2>4 DEF Complete
      <4>3. (f # e => Settled(event, e, r)[f] = event[f]) /\ Settled(event, e, r)[e] # "processing"
        BY <1>0, EachWrite
      <4>4. owned'[f] = IF f \in {e} \cup es THEN None ELSE owned[f]
        BY <1>0, <2>4, Forgets
      <4> QED BY <1>0, <1>b, <2>1, <2>2, <4>2, <4>3, <4>4
    <3> QED BY <1>a, <3>1
  <2>5. op.input \in Inputs
    BY <1>0, <2>1
  <2>6. \/ UNCHANGED <<event, owned>>
        \/ \E es, r : /\ event' = Complete(Settled(event, op.input, r), es)
                      /\ owned' = Forget(owned, {op.input} \cup es)
    BY <1>5 DEF ApplyAcknowledged
  <2> QED BY <2>3, <2>4, <2>5, <2>6
<1>6. CASE WorkerPanics \/ AbortWorker
  <2>1. /\ UNCHANGED <<owned>> /\ op # None /\ op' = None /\ phase' # "up"
        /\ event' = IF op.from = "inbound" THEN Fence(event, {op.input}) ELSE event
        /\ phase' = "closed" => phase = "up"
    BY <1>6 DEF WorkerPanics, AbortWorker, Fenced, EndOp, Closed
  <2>2. ASSUME NEW f \in Inputs PROVE Good(f)
    <3>1. event'[f] = IF op.from = "inbound" /\ f = op.input /\ event[f] \in {"absent", "processing"}
                      THEN "uncertain" ELSE event[f]
      BY <1>0, <2>1, EachWrite
    <3>2. Handling(f) => op.from = "inbound" /\ f = op.input
      BY DEF Handling, Doing
    <3>3. phase' = "closed" => phase \in {"up", "closed"}
      BY <2>1
    <3> QED BY <1>0, <1>b, <2>1, <3>1, <3>2, <3>3
  <2> QED BY <1>a, <2>2
<1>7. CASE FenceOwned
  <2>1. UNCHANGED <<owned, op>> /\ phase' = "fenced" /\ event' = Fence(event, Owned)
    BY <1>7 DEF FenceOwned, inputState
  <2>2. ASSUME NEW f \in Inputs PROVE Good(f)
    <3>1. event'[f] = IF f \in Owned /\ event[f] \in {"absent", "processing"}
                      THEN "uncertain" ELSE event[f]
      BY <1>0, <2>1, EachWrite
    <3>2. (Handling(f)' <=> Handling(f)) /\ (f \in Owned <=> owned[f] # None)
      BY <2>1 DEF Handling, Doing, Owned
    <3> QED BY <1>0, <2>1, <3>1, <3>2
  <2> QED BY <1>a, <2>2
<1>8. CASE Exit \/ Crash
  <2>1. op' = None /\ phase' = "down" /\ \A f \in Inputs : owned'[f] = None
    BY <1>8 DEF Exit, Crash, LoseMemory
  <2>2. \A f \in Inputs : Good(f)
    BY <1>b, <2>1
  <2> QED BY <1>a, <2>2
<1>9. CASE Restart
  <2>1. op' = None /\ event' = Release(event, Inputs) /\ \A f \in Inputs : owned'[f] = None
    BY <1>9 DEF Restart, inputState, Carried, Memory
  <2>2. \A f \in Inputs : event'[f] # "processing"
    BY <1>0, <2>1, EachWrite
  <2>3. \A f \in Inputs : Good(f)
    BY <1>b, <2>1, <2>2
  <2> QED BY <1>a, <2>3
<1>10. CASE DeferPrompt \/ SendPrompt
  <2>1. UNCHANGED <<event, phase, bounds>> /\ op # None /\ op \in Operation /\ op.step # "begin"
        /\ op.from \in {"inbound", "queued"}
    BY <1>10, Waits DEF DeferPrompt, SendPrompt, store
  <2>2. CASE /\ op' = None
             /\ \E x \in QueuedInput : owned' = [owned EXCEPT ![op.input] = x]
    <3>1. PICK x \in QueuedInput : owned' = [owned EXCEPT ![op.input] = x]
      BY <2>2
    <3>2. x # None
      BY NoneIsNothing
    <3>3. event[op.input] = "processing" \/ (op.from = "queued" /\ owned[op.input] # None)
      <4>1. CASE op.from = "inbound"
        BY <1>0, <2>1, <4>1 DEF Handling, Doing
      <4>2. CASE op.from = "queued"
        BY <2>1, <4>2, Elsewhere DEF Free
      <4> QED BY <2>1, <4>1, <4>2
    <3>4. ASSUME NEW f \in Inputs PROVE Good(f)
      <4>1. owned'[f] = IF f = op.input THEN x ELSE owned[f]
        BY <1>0, <3>1 DEF OwnedTable
      <4>2. Handling(f) => f = op.input
        BY DEF Handling, Doing
      <4> QED BY <1>0, <1>b, <2>1, <2>2, <3>2, <3>3, <4>1, <4>2
    <3> QED BY <1>a, <3>4
  <2>3. CASE /\ UNCHANGED owned
             /\ op' \in Operation /\ op'.from = op.from /\ op'.input = op.input
             /\ op'.step \in {"settle", "await", "window"}
    <3>1. op' # None
      BY <2>3, NoneIsNothing
    <3>2. \A f \in Inputs : Handling(f)' <=> Handling(f)
      BY <2>1, <2>3, <3>1 DEF Handling, Doing
    <3> QED BY <1>0, <2>1, <2>3, <3>2, ClaimsKept
  <2> QED BY <1>10, <2>2, <2>3, Waits
<1>11. ASSUME UNCHANGED <<event, op>>, \A e \in Inputs : owned'[e] = None <=> owned[e] = None,
              phase' = phase \/ (phase' = "closed" /\ phase = "up")
       PROVE  Claims'
  <2>1. \A f \in Inputs : Handling(f)' <=> Handling(f)
    BY <1>11 DEF Handling, Doing
  <2> QED BY <1>0, <1>11, <2>1, ClaimsKept
<1>12. CASE \/ NextPending \/ Shutdown \/ Reconnected \/ UNCHANGED vars
            \/ \E e \in Inputs : AgentAnswers(e)
            \/ \E s \in Sessions : TurnStarted(s) \/ TurnCompleted(s)
  <2>1. /\ UNCHANGED <<event, op, owned>>
        /\ phase' = phase \/ (phase' = "closed" /\ phase = "up")
    BY <1>12 DEF NextPending, Shutdown, Reconnected, AgentAnswers, TurnStarted, TurnCompleted,
          vars, store, inputState, Closed
  <2> QED BY <1>11, <2>1
<1>13. CASE StopCurrent \/ Attach \/ Attached \/ \E s \in Sessions : SessionExited(s)
  <2>1. UNCHANGED <<event, phase>> /\ Kin(owned')
    BY <1>13, Leaves DEF StopCurrent, Attach, Attached, SessionExited, store
  <2>2. CASE Attached \/ \E s \in Sessions : SessionExited(s)
    <3>1. UNCHANGED op
      BY <2>2 DEF Attached, SessionExited
    <3> QED BY <1>11, <2>1, <3>1 DEF Kin
  <2>3. CASE StopCurrent \/ Attach
    <3>1. op \in Operation /\ op # None /\ op.step = "handle"
      BY <1>0, <2>3 DEF StopCurrent, Attach, At
    <3>2. PICK r \in {"ok", "refused"} : op' = [op EXCEPT !.step = "settle", !.result = r]
      BY <2>3 DEF StopCurrent, Attach, Result
    <3>3. op' \in Operation /\ op'.from = op.from /\ op'.input = op.input /\ op'.step = "settle"
      BY <3>1, <3>2 DEF Operation
    <3>4. \A f \in Inputs : Handling(f)' <=> Handling(f)
      BY <3>1, <3>3, NoneIsNothing DEF Handling, Doing
    <3> QED BY <1>0, <2>1, <3>4, ClaimsKept DEF Kin
  <2> QED BY <1>13, <2>2, <2>3
<1>14. CASE Dispatch \/ KeepAwaiting
  <2>1. UNCHANGED <<event, owned, phase>>
    BY <1>14 DEF Dispatch, KeepAwaiting, store
  <2>2. \A f \in Inputs : Handling(f)' <=> Handling(f)
    <3>1. CASE Dispatch
      BY <3>1 DEF Dispatch, Handling, Doing
    <3>2. CASE KeepAwaiting
      <4>1. op \in Operation /\ op # None /\ op.step = "window" /\ op' = [op EXCEPT !.step = "await"]
        BY <1>0, <3>2 DEF KeepAwaiting, At
      <4>2. op' \in Operation /\ op'.from = op.from /\ op'.input = op.input /\ op'.step = "await"
        BY <4>1 DEF Operation
      <4> QED BY <4>1, <4>2, NoneIsNothing DEF Handling, Doing
    <3> QED BY <1>14, <3>1, <3>2
  <2> QED BY <1>0, <2>1, <2>2, ClaimsKept
<1> QED BY <1>1, <1>2, <1>3, <1>4, <1>5, <1>6, <1>7, <1>8, <1>9, <1>10, <1>12, <1>13, <1>14
        DEF Next, Progress, Operate

----------------------------------------------------------------------------
(* Where an owned input goes *)

\* The steps that leave every owned input in a place.
LEMMA KeptStays ==
    ASSUME Carried, UNCHANGED owned,
           phase' = "up" /\ bounds'.lost = 0 => phase = "up" /\ bounds.lost = 0,
           \A s \in Sessions : SameStart(pending[s], pending'[s]),
           \A e \in Inputs : InReady(e) \/ InLane(e) \/ Resuming(e)
                                => InReady(e)' \/ InLane(e)' \/ Resuming(e)'
    PROVE  Kept'
<1>1. SUFFICES ASSUME phase' = "up" /\ bounds'.lost = 0, NEW e \in Inputs, owned'[e] # None
               PROVE  Somewhere(e)'
  BY DEF Kept
<1>2. Somewhere(e)
  BY <1>1 DEF Carried, Kept
<1>3. \A s \in Sessions : (Start(s, e)' <=> Start(s, e)) /\ (Behind(s, e)' <=> Behind(s, e))
  BY DEF Start, Behind, SameStart
<1> QED BY <1>2, <1>3 DEF Somewhere

\* Every step keeps an owned input somewhere.
LEMMA KeptStep ==
    ASSUME Carried, [Next]_vars PROVE Kept'
<1>0. /\ bounds'.lost = 0 => bounds.lost = 0
      /\ phase = "up" /\ bounds.lost = 0 => \A e \in Inputs : owned[e] # None => Somewhere(e)
      /\ op # None => op \in Operation /\ op.input \in Inputs
      /\ owned \in OwnedTable /\ lane \in Seq(Work) /\ ready \in Seq(Inputs)
      /\ pending \in [Sessions -> Pending \cup {None}]
  <2>1. bounds'.lost = 0 => bounds.lost = 0
    BY HistoryStep
  <2> QED BY <2>1 DEF Carried, Kept, TypeOK, OwnedTable, Operation
<1>1. CASE phase' # "up"
  BY <1>1 DEF Kept
<1>2. CASE Restart
  BY <1>2 DEF Restart, inputState, Carried, Memory, Kept
<1>3. ASSUME phase = "up",
             phase' = "up" /\ bounds'.lost = 0 =>
                \A e \in Inputs : owned'[e] # None /\ (owned[e] # None => Somewhere(e)) => Somewhere(e)'
      PROVE  Kept'
  BY <1>0, <1>3 DEF Kept
<1>4. \A s \in Sessions, e \in Inputs : UNCHANGED pending => (Start(s, e)' <=> Start(s, e)) /\ (Behind(s, e)' <=> Behind(s, e))
  BY DEF Start, Behind
<1>5. CASE phase = "up" /\ Dispatch
  <2>1. UNCHANGED <<pending, owned, ready>> /\ op = None /\ lane # <<>> /\ lane' = Tail(lane)
        /\ op' = [from |-> Head(lane).from, input |-> Head(lane).input, step |-> "begin", result |-> None]
    BY <1>5 DEF Dispatch
  <2>2. SeqRange(lane) = SeqRange(lane') \cup {Head(lane)} /\ Head(lane) \in Work
    BY <1>0, <2>1, RangeTail
  <2>3. op' # None
    <3>1. op' \in Operation
      BY <2>1, <2>2 DEF Operation, Work
    <3> QED BY <3>1, NoneIsNothing
  <2>4. \A e \in Inputs : InLane(e) => InLane(e)' \/ Resuming(e)'
    BY <2>1, <2>2, <2>3 DEF InLane, Resuming, Doing, QueuedWork
  <2>5. \A e \in Inputs : ~Resuming(e) /\ (InReady(e) => InReady(e)')
    BY <2>1 DEF Resuming, Doing, InReady
  <2> QED BY <1>3, <1>4, <1>5, <2>1, <2>4, <2>5 DEF Somewhere
<1>6. CASE phase = "up" /\ NextPending
  <2>1. UNCHANGED <<pending, owned, op>>
    BY <1>6 DEF NextPending
  <2>2. \A e \in Inputs : InLane(e) \/ InReady(e) => InLane(e)' \/ InReady(e)'
    <3>1. CASE /\ ready # <<>> /\ ready' = Tail(ready)
               /\ lane' = Append(lane, [from |-> "queued", input |-> Head(ready)])
      <4>1. SeqRange(ready) = SeqRange(ready') \cup {Head(ready)} /\ Head(ready) \in Inputs
        BY <1>0, <3>1, RangeTail
      <4>2. QueuedWork(Head(ready)) \in Work /\ lane' = Append(lane, QueuedWork(Head(ready)))
        BY <3>1, <4>1 DEF Work, QueuedWork
      <4>3. SeqRange(lane') = SeqRange(lane) \cup {QueuedWork(Head(ready))}
        BY <1>0, <4>2, RangeAppend
      <4> QED BY <4>1, <4>3 DEF InLane, InReady
    <3>2. ASSUME NEW e \in Acknowledgeable, lane' = Append(lane, AckWork(e)), UNCHANGED ready
          PROVE  \A f \in Inputs : InLane(f) \/ InReady(f) => InLane(f)' \/ InReady(f)'
      <4>1. e \in Inputs
        BY DEF Acknowledgeable, Carried, TypeOK, Pending
      <4>2. AckWork(e) \in Work
        BY <4>1 DEF Work, AckWork
      <4>3. SeqRange(lane') = SeqRange(lane) \cup {AckWork(e)}
        BY <1>0, <3>2, <4>2, RangeAppend
      <4> QED BY <3>2, <4>3 DEF InLane, InReady
    <3> QED BY <1>6, <3>1, <3>2 DEF NextPending
  <2>3. \A e \in Inputs : Resuming(e) => Resuming(e)'
    BY <2>1 DEF Resuming, Doing
  <2> QED BY <1>3, <1>4, <1>6, <2>1, <2>2, <2>3 DEF Somewhere
<1>7. ASSUME phase = "up", NEW e \in Inputs, Deliver(e) PROVE Kept'
  <2>1. UNCHANGED <<pending, owned, op, ready, phase>>
    BY <1>7 DEF Deliver
  <2>2. SeqRange(lane) \subseteq SeqRange(lane')
    <3>1. [from |-> "inbound", input |-> e] \in Work
      BY DEF Work
    <3>2. lane' = lane \/ lane' = Append(lane, [from |-> "inbound", input |-> e])
      BY <1>7 DEF Deliver
    <3>3. CASE lane' = lane
      BY <3>3
    <3>4. CASE lane' = Append(lane, [from |-> "inbound", input |-> e])
      <4>1. SeqRange(lane') = SeqRange(lane) \cup {[from |-> "inbound", input |-> e]}
        BY <1>0, <3>1, <3>4, RangeAppend
      <4> QED BY <4>1
    <3> QED BY <3>2, <3>3, <3>4
  <2>3. \A f \in Inputs : /\ InReady(f) => InReady(f)'
                          /\ InLane(f) => InLane(f)'
                          /\ Resuming(f) => Resuming(f)'
    BY <2>1, <2>2 DEF InReady, InLane, Resuming, Doing
  <2> QED BY <1>3, <1>4, <1>7, <2>1, <2>3 DEF Somewhere
<1>8. CASE phase = "up" /\ DeferPrompt
  <2>1. PICK e \in Inputs, s \in Sessions : e = op.input /\ s = rpc[e].session
    <3>1. op \in Operation /\ op # None /\ op.step = "window" /\ op.from \in {"inbound", "queued"}
      BY <1>0, <1>8 DEF DeferPrompt, At
    <3> QED BY <1>0, <3>1 DEF Carried, Placement, OpSound, Requests
  <2>2. PICK p : p = [input |-> e, stop |-> FALSE, applied |-> FALSE, valid |-> TRUE,
                      observed |-> None, queued |-> <<>>]
    OBVIOUS
  <2>3. p \in Pending /\ p.input = e
    BY <2>2 DEF Pending
  <2>4. /\ pending[s] = None /\ pending' = [pending EXCEPT ![s] = p]
        /\ UNCHANGED <<lane, ready>> /\ op' = None
        /\ \E x : owned' = [owned EXCEPT ![e] = x]
    BY <1>8, <2>1, <2>2 DEF DeferPrompt, Room, EndOp
  <2>5. p # None
    <3>1. None \notin Pending
      BY NoneIsNothing
    <3> QED BY <2>3, <3>1
  <2>6. Start(s, e)'
    BY <1>0, <2>3, <2>4, <2>5 DEF Start
  <2>7. \A r \in Sessions, f \in Inputs : (Start(r, f) => Start(r, f)') /\ (Behind(r, f) => Behind(r, f)')
    BY <1>0, <2>4 DEF Start, Behind
  <2>8. \A f \in Inputs \ {e} : owned'[f] = owned[f] /\ ~Resuming(f)
    BY <1>0, <2>1, <2>4 DEF OwnedTable, Resuming, Doing
  <2>9. \A f \in Inputs : (InReady(f) => InReady(f)') /\ (InLane(f) => InLane(f)')
    BY <2>4 DEF InReady, InLane
  <2> QED BY <1>3, <1>8, <2>6, <2>7, <2>8, <2>9 DEF Somewhere
<1>9. CASE phase = "up" /\ (StopCurrent \/ Attach \/ Attached \/ \E s \in Sessions : SessionExited(s))
  <2>1. /\ UNCHANGED lane /\ Kin(owned')
        /\ \/ /\ ready' = ready
              /\ \A e \in Inputs : owned[e] # None => owned'[e].reattach = owned[e].reattach
           \/ ready' \in ReadyAfter(owned) /\ Freed(owned')
    BY <1>9, Leaves
  <2>2. \A e \in Inputs : (InReady(e) => InReady(e)') /\ (HeldBack(e) => InReady(e)' \/ owned'[e].reattach)
    <3>1. CASE ready' = ready /\ \A e \in Inputs : owned[e] # None => owned'[e].reattach = owned[e].reattach
      BY <3>1 DEF InReady, HeldBack
    <3>2. CASE ready' \in ReadyAfter(owned)
      <4>1. SeqRange(ready') = SeqRange(ready) \cup Reattaching(owned)
        BY <3>2, ReadyAgain DEF Carried
      <4> QED BY <4>1 DEF InReady, HeldBack, Reattaching
    <3> QED BY <2>1, <3>1, <3>2
  <2>3. \A s \in Sessions : SameStart(pending[s], pending'[s])
    BY <1>9, StartsLeft
  <2>4. \A s \in Sessions, e \in Inputs : (Start(s, e)' <=> Start(s, e)) /\ (Behind(s, e)' <=> Behind(s, e))
    BY <2>3 DEF Start, Behind, SameStart
  <2>5. \A e \in Inputs : ~Resuming(e)
    BY <1>9 DEF StopCurrent, Attach, Attached, SessionExited, Idle, At, Resuming, Doing
  <2>6. \A e \in Inputs : InLane(e) => InLane(e)'
    BY <2>1 DEF InLane
  <2>7. \A e \in Inputs : owned'[e] # None => owned[e] # None
    BY <2>1 DEF Kin
  <2>8. \A e \in Inputs : owned'[e] # None /\ (owned[e] # None => Somewhere(e)) => Somewhere(e)'
    BY <2>2, <2>4, <2>5, <2>6, <2>7 DEF Somewhere, HeldBack
  <2> QED BY <1>3, <1>9, <2>8
<1>10. CASE phase = "up" /\ (TakeQueued \/ Settle)
  <2>1. /\ UNCHANGED <<pending, lane, ready>> /\ op # None
        /\ \/ UNCHANGED owned /\ op' = [op EXCEPT !.step = "handle"]
           \/ op' = None /\ \E lost \in SUBSET {op.input} :
                               LoseWrites(lost) /\ owned' = Forget(owned, {op.input} \ lost)
    BY <1>10 DEF TakeQueued, Settle, At, EndOp
  <2>2. \A f \in Inputs : (InReady(f) => InReady(f)') /\ (InLane(f) => InLane(f)')
    BY <2>1 DEF InReady, InLane
  <2>3. CASE UNCHANGED owned /\ op' = [op EXCEPT !.step = "handle"]
    <3>1. op' \in Operation /\ op'.from = op.from /\ op'.input = op.input
      BY <1>0, <2>1, <2>3 DEF Operation
    <3>2. \A f \in Inputs : Resuming(f) => Resuming(f)'
      BY <2>1, <3>1, NoneIsNothing DEF Resuming, Doing
    <3> QED BY <1>3, <1>4, <1>10, <2>1, <2>2, <2>3, <3>2 DEF Somewhere
  <2>4. ASSUME NEW lost \in SUBSET {op.input}, LoseWrites(lost), op' = None,
               owned' = Forget(owned, {op.input} \ lost)
        PROVE  Kept'
    <3>1. bounds'.lost = 0 => lost = {}
      <4>1. IsFiniteSet(lost)
        BY FS_Singleton, FS_Subset
      <4> QED BY <2>4, <4>1, Losses DEF Carried
    <3>2. lost = {} => owned'[op.input] = None /\ \A f \in Inputs \ {op.input} : owned'[f] = owned[f]
      <4>1. lost = {} => owned' = Forget(owned, {op.input})
        BY <2>4
      <4>2. \A f \in Inputs : Forget(owned, {op.input})[f] = IF f \in {op.input} THEN None ELSE owned[f]
        BY <1>0, Forgets
      <4> QED BY <1>0, <2>1, <4>1, <4>2
    <3>3. \A f \in Inputs \ {op.input} : ~Resuming(f)
      BY DEF Resuming, Doing
    <3> QED BY <1>3, <1>4, <1>10, <2>1, <2>2, <3>1, <3>2, <3>3 DEF Somewhere
  <2> QED BY <2>1, <2>3, <2>4
<1>11. CASE phase = "up" /\ ApplyAcknowledged
  <2>1. PICK e, s : e = op.input /\ s = rpc[e].session
    OBVIOUS
  <2>2. op # None /\ op.from = "ack"
    BY <1>11 DEF ApplyAcknowledged, At
  <2>3. e \in Inputs /\ s \in Sessions /\ Start(s, e)
    BY <2>1, <2>2, Acknowledges DEF Carried
  <2> DEFINE q == pending[s].queued
             left == IF HandOn(s, e) THEN {} ELSE SeqRange(q)
  <2>4. PICK lost \in SUBSET ({e} \cup left) :
           /\ LoseWrites(lost)
           /\ e \in lost \/ owned' = Forget(owned, {e} \cup (left \ lost))
    BY <1>11, <2>1 DEF ApplyAcknowledged
  <2>5. bounds'.lost = 0 => lost = {}
    <3>1. IsFiniteSet(lost)
      BY <2>3, <2>4, FewWrites DEF Carried
    <3> HIDE DEF left, q
    <3> QED BY <2>4, <3>1, Losses DEF Carried
  <2>6. /\ UNCHANGED lane /\ pending' = [pending EXCEPT ![s] = None]
        /\ ready' = IF HandOn(s, e) THEN ready \o q ELSE ready
    BY <1>11, <2>1 DEF ApplyAcknowledged
  <2>7. q \in Seq(Inputs)
    BY <2>3 DEF Start, Carried, TypeOK, Pending
  <2>8. \A f \in Inputs : InReady(f) \/ (HandOn(s, e) /\ f \in SeqRange(q)) => InReady(f)'
    BY <1>0, <2>6, <2>7, RangeConcat DEF InReady
  <2>9. \A r \in Sessions \ {s}, f \in Inputs :
           (Start(r, f) => Start(r, f)') /\ (Behind(r, f) => Behind(r, f)')
    BY <1>0, <2>6 DEF Start, Behind
  <2>10. \A f \in Inputs : Start(s, f) => f = e
    BY <2>3 DEF Start
  <2>11. \A f \in Inputs : (Behind(s, f) => f \in SeqRange(q)) /\ ~Resuming(f) /\ (InLane(f) => InLane(f)')
    BY <2>2, <2>6 DEF Behind, Resuming, Doing, InLane
  <2>12. lost = {} => \A f \in Inputs :
            /\ f \in {e} \cup left => owned'[f] = None
            /\ f \notin {e} \cup left => owned'[f] = owned[f]
    <3> HIDE DEF left, q
    <3>1. lost = {} => owned' = Forget(owned, {e} \cup left)
      BY <2>4
    <3> QED BY <1>0, <3>1, Forgets
  <2>13. ASSUME lost = {}, NEW f \in Inputs, owned'[f] # None, owned[f] # None => Somewhere(f)
         PROVE  Somewhere(f)'
    <3>1. f # e /\ f \notin left /\ owned'[f] = owned[f]
      <4> HIDE DEF left, q
      <4> QED BY <2>12, <2>13
    <3>2. Behind(s, f) => InReady(f)'
      BY <2>8, <2>11, <3>1
    <3> HIDE DEF left, q
    <3> QED BY <2>8, <2>9, <2>10, <2>11, <2>13, <3>1, <3>2 DEF Somewhere
  <2> HIDE DEF left, q
  <2> QED BY <1>3, <1>11, <2>5, <2>13
<1>12. CASE phase = "up" /\ SendPrompt
  <2>1. op \in Operation /\ op # None /\ op.input \in Inputs /\ UNCHANGED <<lane, phase>>
    BY <1>0, <1>12 DEF SendPrompt, At
  <2>2. \A f \in Inputs : Resuming(f) => f = op.input
    BY DEF Resuming, Doing
  <2>3. \/ UNCHANGED <<pending, owned, ready>> /\ op' # None
        \/ \E s \in Sessions, b \in BOOLEAN, x \in QueuedInput :
              /\ x.reattach = b /\ x.session = s /\ op' = None
              /\ owned' = [owned EXCEPT ![op.input] = x]
              /\ pending' = IF ~b /\ pending[s] # None
                            THEN [pending EXCEPT ![s].queued =
                                     InsertByAge(pending[s].queued, op.input, owned')]
                            ELSE pending
              /\ ready' = IF ~b /\ pending[s] = None THEN Append(ready, op.input) ELSE ready
    <3>1. attaching # None => attaching.session \in Sessions
      BY DEF Attachment, Carried, TypeOK
    <3>2. bound \in Writable => bound \in Sessions
      BY SessionsTyped
    <3>3. \/ UNCHANGED <<pending, owned, ready>> /\ \E r \in {"ok", "refused"} : Result(r)
          \/ UNCHANGED <<pending, owned, ready>> /\ Send(op.input, bound)
          \/ \E s \in Sessions, b \in BOOLEAN : QueueWaiting(op.input, s, b)
      BY <1>12, <3>1, <3>2 DEF SendPrompt
    <3>4. \A r \in {"ok", "refused"} : Result(r) => op' # None
      <4>1. \A r \in {"ok", "refused"} : [op EXCEPT !.step = "settle", !.result = r] \in Operation
        BY <2>1 DEF Operation
      <4>2. None \notin Operation
        BY NoneIsNothing
      <4> QED BY <4>1, <4>2 DEF Result
    <3>5. Send(op.input, bound) => op' # None
      <4>1. \A x \in {"await", "window"} : [op EXCEPT !.step = x] \in Operation
        BY <2>1 DEF Operation
      <4>2. None \notin Operation
        BY NoneIsNothing
      <4> QED BY <4>1, <4>2 DEF Send
    <3>6. ASSUME NEW s \in Sessions, NEW b \in BOOLEAN, QueueWaiting(op.input, s, b),
                 ~(UNCHANGED <<pending, owned, ready>> /\ op' # None)
          PROVE  \E x \in QueuedInput :
              /\ x.reattach = b /\ x.session = s /\ op' = None
              /\ owned' = [owned EXCEPT ![op.input] = x]
              /\ pending' = IF ~b /\ pending[s] # None
                            THEN [pending EXCEPT ![s].queued =
                                     InsertByAge(pending[s].queued, op.input, owned')]
                            ELSE pending
              /\ ready' = IF ~b /\ pending[s] = None THEN Append(ready, op.input) ELSE ready
      <4>1. (IF owned[op.input] # None THEN owned[op.input].seq ELSE nextSeq) \in Nat
        BY <2>1 DEF Carried, TypeOK, QueuedInput
      <4>2. PICK x : x = [session |-> s, epoch |-> epoch, generation |-> generation,
                       queued |-> TRUE, cancelled |-> FALSE, reattach |-> b,
                       seq |-> IF owned[op.input] # None THEN owned[op.input].seq ELSE nextSeq]
        OBVIOUS
      <4>3. x \in QueuedInput /\ x.session = s /\ x.reattach = b
        BY <4>1, <4>2 DEF QueuedInput, Carried, TypeOK
      <4>4. ~(UNCHANGED <<pending, owned, ready>> /\ Result("refused"))
        BY <3>4, <3>6
      <4>5. /\ owned' = [owned EXCEPT ![op.input] = x] /\ op' = None
            /\ pending' = IF ~b /\ pending[s] # None
                          THEN [pending EXCEPT ![s].queued =
                                   InsertByAge(pending[s].queued, op.input, owned')]
                          ELSE pending
            /\ ready' = IF ~b /\ pending[s] = None THEN Append(ready, op.input) ELSE ready
        BY <3>6, <4>2, <4>4 DEF QueueWaiting, EndOp
      <4> QED BY <4>3, <4>5
    <3> QED BY <3>3, <3>4, <3>5, <3>6
  <2>4. CASE UNCHANGED <<pending, owned, ready>> /\ op' # None
    <3>1. op'.from = op.from /\ op'.input = op.input
      BY <1>12, <2>4, Waits
    <3>2. \A f \in Inputs : Resuming(f) => Resuming(f)'
      BY <2>4, <3>1 DEF Resuming, Doing
    <3>3. \A f \in Inputs : (InReady(f) => InReady(f)') /\ (InLane(f) => InLane(f)')
      BY <2>1, <2>4 DEF InReady, InLane
    <3> QED BY <1>3, <1>4, <1>12, <2>4, <3>2, <3>3 DEF Somewhere
  <2>5. ASSUME NEW s \in Sessions, NEW b \in BOOLEAN, NEW x \in QueuedInput,
               x.reattach = b, owned' = [owned EXCEPT ![op.input] = x],
               pending' = IF ~b /\ pending[s] # None
                          THEN [pending EXCEPT ![s].queued =
                                   InsertByAge(pending[s].queued, op.input, owned')]
                          ELSE pending,
               ready' = IF ~b /\ pending[s] = None THEN Append(ready, op.input) ELSE ready
        PROVE  Kept'
    <3>1. owned'[op.input] = x /\ \A f \in Inputs \ {op.input} : owned'[f] = owned[f]
      BY <1>0, <2>1, <2>5 DEF OwnedTable
    <3>2. pending[s] # None => pending[s] \in Pending /\ pending[s].queued \in Seq(Inputs)
      BY <1>0 DEF Pending
    <3>3. ASSUME ~b, pending[s] # None
          PROVE  /\ SeqRange(pending'[s].queued) = SeqRange(pending[s].queued) \cup {op.input}
                 /\ pending'[s].input = pending[s].input /\ pending'[s] # None
                 /\ \A r \in Sessions \ {s} : pending'[r] = pending[r]
      <4>1. PICK q : q = InsertByAge(pending[s].queued, op.input, owned')
        OBVIOUS
      <4>2. q \in Seq(Inputs) /\ SeqRange(q) = SeqRange(pending[s].queued) \cup {op.input}
        BY <2>1, <3>2, <3>3, <4>1, RangeInsert
      <4>3. PICK y : y = [pending[s] EXCEPT !.queued = q]
        OBVIOUS
      <4>4. y \in Pending /\ y.input = pending[s].input /\ y.queued = q
        BY <3>2, <3>3, <4>2, <4>3 DEF Pending
      <4>5. pending' = [pending EXCEPT ![s] = y]
        BY <2>5, <3>3, <4>1, <4>3
      <4>6. pending'[s] = y /\ \A r \in Sessions \ {s} : pending'[r] = pending[r]
        BY <1>0, <4>5
      <4>7. None \notin Pending
        BY NoneIsNothing
      <4> QED BY <4>2, <4>4, <4>6, <4>7
    <3>4. \A r \in Sessions, f \in Inputs : (Start(r, f) => Start(r, f)') /\ (Behind(r, f) => Behind(r, f)')
      <4>1. CASE ~b /\ pending[s] # None
        BY <3>3, <4>1 DEF Start, Behind
      <4>2. CASE pending' = pending
        BY <1>4, <4>2
      <4> QED BY <2>5, <4>1, <4>2
    <3>5. PICK e \in Inputs : e = op.input
      BY <2>1
    <3>6. /\ \A f \in Inputs : InReady(f) => InReady(f)'
          /\ ~b /\ pending[s] = None => InReady(e)'
      <4>1. CASE ~b /\ pending[s] = None
        <5>1. SeqRange(ready') = SeqRange(ready) \cup {e}
          BY <1>0, <2>5, <3>5, <4>1, RangeAppend
        <5> QED BY <5>1 DEF InReady
      <4>2. CASE ~(~b /\ pending[s] = None)
        BY <2>5, <4>2 DEF InReady
      <4> QED BY <4>1, <4>2
    <3>7. Somewhere(e)'
      <4>1. ~b /\ pending[s] # None => Behind(s, e)'
        BY <3>3, <3>5 DEF Behind
      <4> QED BY <2>5, <3>1, <3>5, <3>6, <4>1 DEF Somewhere
    <3>8. \A f \in Inputs : InLane(f) => InLane(f)'
      BY <2>1 DEF InLane
    <3> QED BY <1>3, <1>12, <2>2, <3>1, <3>4, <3>5, <3>6, <3>7, <3>8 DEF Somewhere
  <2> QED BY <2>3, <2>4, <2>5
<1>13. ASSUME UNCHANGED <<owned, pending, ready, lane>>,
              UNCHANGED op \/ (op # None /\ op.from # "queued"),
              phase' = "up" => phase = "up"
       PROVE  Kept'
  <2>1. \A e \in Inputs : InReady(e) \/ InLane(e) \/ Resuming(e) => InReady(e)' \/ InLane(e)' \/ Resuming(e)'
    BY <1>13 DEF InReady, InLane, Resuming, Doing
  <2>2. \A s \in Sessions : SameStart(pending[s], pending'[s])
    BY <1>13 DEF SameStart
  <2> QED BY <1>0, <1>13, <2>1, <2>2, KeptStays
<1>14. CASE \/ Claim \/ Reconnected \/ UNCHANGED vars
            \/ \E e \in Inputs : AgentAnswers(e)
            \/ \E s \in Sessions : TurnCompleted(s)
  <2>1. UNCHANGED <<owned, pending, ready, lane, phase>>
        /\ (UNCHANGED op \/ (op # None /\ op.from # "queued"))
    BY <1>14 DEF Claim, Reconnected, AgentAnswers, TurnCompleted, At, vars, inputState
  <2> QED BY <1>13, <2>1
<1>15. CASE phase = "up" /\ KeepAwaiting
  <2>1. /\ UNCHANGED <<owned, pending, ready, lane, phase>> /\ op # None
        /\ op' = [op EXCEPT !.step = "await"]
    BY <1>15 DEF KeepAwaiting, At
  <2>2. op' \in Operation /\ op'.from = op.from /\ op'.input = op.input
    BY <1>0, <2>1 DEF Operation
  <2>3. \A e \in Inputs : InReady(e) \/ InLane(e) \/ Resuming(e) => InReady(e)' \/ InLane(e)' \/ Resuming(e)'
    BY <2>1, <2>2, NoneIsNothing DEF InReady, InLane, Resuming, Doing
  <2>4. \A s \in Sessions : SameStart(pending[s], pending'[s])
    BY <2>1 DEF SameStart
  <2> QED BY <1>0, <1>15, <2>1, <2>3, <2>4, KeptStays
<1>16. ASSUME NEW s \in Sessions, TurnStarted(s) PROVE Kept'
  <2>1. UNCHANGED <<owned, ready, lane, phase, op>>
    BY <1>16 DEF TurnStarted
  <2>2. \A e \in Inputs : InReady(e) \/ InLane(e) \/ Resuming(e) => InReady(e)' \/ InLane(e)' \/ Resuming(e)'
    BY <2>1 DEF InReady, InLane, Resuming, Doing
  <2>3. \A r \in Sessions : SameStart(pending[r], pending'[r])
    BY <1>16, StartNamed DEF Carried
  <2> QED BY <1>0, <2>1, <2>2, <2>3, KeptStays
<1>17. phase' = "up" => phase = "up" \/ Restart
  BY Phases
<1>18. CASE FenceOwned \/ AbortWorker \/ WorkerPanics \/ Shutdown \/ Exit \/ Crash
  BY <1>1, <1>18 DEF FenceOwned, AbortWorker, WorkerPanics, Shutdown, Exit, Crash, LoseMemory
<1>19. CASE phase = "up"
  <2>1. CASE \/ TakeQueued \/ Settle \/ ApplyAcknowledged \/ StopCurrent \/ Attach \/ Attached
             \/ SendPrompt \/ DeferPrompt \/ KeepAwaiting \/ Dispatch \/ NextPending
    BY <1>5, <1>6, <1>8, <1>9, <1>10, <1>11, <1>12, <1>15, <1>19, <2>1
  <2>2. CASE \E e \in Inputs : Deliver(e)
    BY <1>7, <1>19, <2>2
  <2>3. CASE \E s \in Sessions : TurnStarted(s) \/ SessionExited(s)
    BY <1>9, <1>16, <1>19, <2>3
  <2> QED BY <1>2, <1>14, <1>18, <2>1, <2>2, <2>3 DEF Next, Progress, Operate
<1> QED BY <1>1, <1>2, <1>17, <1>19

----------------------------------------------------------------------------
(* The invariant *)

\* The invariant holds initially,
LEMMA CarriedInit == Init => Carried
<1> SUFFICES ASSUME Init PROVE Carried
  OBVIOUS
<1> USE DEF Init
<1>1. /\ op = None /\ lane = <<>> /\ ready = <<>> /\ phase = "up"
      /\ \A s \in Sessions : pending[s] = None
      /\ \A e \in Inputs : owned[e] = None /\ event[e] = "absent" /\ rpc[e] = NoRequest
  OBVIOUS
<1>2. Owned = {} /\ {s \in Sessions : pending[s] # None} = {}
  BY <1>1 DEF Owned
<1>3. Cardinality({}) = 0 /\ IsFiniteSet({})
  BY FS_EmptySet
<1>4. TypeOK
  <2>1. StoreTyped /\ AgentTyped
    BY SessionsTyped DEF StoreTyped, EventsTyped, EventStatus, AgentTyped, NoRequest, Request
  <2>2. QueuesTyped /\ OpTyped /\ InputsTyped /\ TurnsTyped
    BY DEF QueuesTyped, OpTyped, InputsTyped, TurnsTyped, OwnedTable
  <2>3. RoomTyped
    <3>1. MaxPending \in Nat
      BY LimitsNat
    <3>2. Cardinality({s \in Sessions : pending[s] # None}) = 0
      BY <1>2, <1>3
    <3> HIDE DEF Init
    <3> QED BY <3>1, <3>2 DEF RoomTyped
  <2> QED BY <2>1, <2>2, <2>3, TypeParts
<1>5. HistoryOK
  BY DEF HistoryOK, Bounds
<1>6. Finite
  BY <1>2, <1>3 DEF Finite
<1>7. Requests
  BY <1>1 DEF Requests, Sent, NoRequest
<1>8. Placement
  <2>1. SeqRange(lane) = {} /\ SeqRange(ready) = {} /\ Distinct(lane) /\ Distinct(ready)
    BY <1>1 DEF SeqRange, Distinct
  <2>2. StartsSound /\ BehindSound
    BY <1>1 DEF StartsSound, BehindSound, Start, Behind
  <2>3. ReadySound /\ LaneSound /\ Apart
    BY <1>1, <2>1 DEF ReadySound, LaneSound, Apart, InReady, InLane, Resuming, Doing
  <2>4. AcksSound /\ OpSound
    BY <1>1, <2>1 DEF AcksSound, OpSound, Doing
  <2> QED BY <2>2, <2>3, <2>4 DEF Placement
<1>9. Reattachments /\ Memory /\ Claims /\ Kept
  BY <1>1 DEF Reattachments, Memory, Claims, Kept, Handling, Doing
<1> QED BY <1>4, <1>5, <1>6, <1>7, <1>8, <1>9 DEF Carried

\* and every step keeps it.
LEMMA CarriedStep == Carried /\ [Next]_vars => Carried'
<1> SUFFICES ASSUME Carried, [Next]_vars PROVE Carried'
  OBVIOUS
<1>1. InputsTyped'
  BY InputTypes
<1>2. TypeOK'
  BY <1>1, StoreTypes, QueueTypes, OpTypes, TurnTypes, AgentTypes, FiniteStep, TypeParts
<1> QED BY <1>1, <1>2, HistoryStep, AgentTypes, FiniteStep, ReattachmentStep, PlacementStep, MemoryStep,
           ClaimsStep, KeptStep DEF Carried

\* The state of the conversation, its queues and its requests is always well formed,
\* and the engine never keeps more unacknowledged starts than MAX_PENDING.
THEOREM TypesHold == Spec => []TypeOK
<1>1. Carried => TypeOK
  BY DEF Carried
<1> QED BY <1>1, CarriedInit, CarriedStep, PTL DEF Spec

\* The places of an input are one, or none.
LEMMA OnePlace ==
    ASSUME Carried, phase = "up", bounds.lost = 0, NEW e \in Inputs
    PROVE  IF owned[e] = None THEN Places(e) = {} ELSE \E p : Places(e) = {p}
<1> USE DEF Carried, Placement
<1>1. \A p : p \in Places(e) <=>
         \/ \E s \in Sessions : Start(s, e) /\ p = <<"start", s>>
         \/ \E s \in Sessions : Behind(s, e) /\ p = <<"behind", s>>
         \/ \E i \in 1..Len(ready) : ready[i] = e /\ p = <<"ready", i>>
         \/ \E i \in 1..Len(lane) : lane[i] = QueuedWork(e) /\ p = <<"lane", i>>
         \/ Resuming(e) /\ p = <<"op", 0>>
         \/ attaching # None /\ owned[e] # None /\ owned[e].reattach /\ p = <<"attachment", 0>>
  BY DEF Places, Start, Behind, QueuedWork, Resuming, Doing
<1>2. /\ InReady(e) <=> \E i \in 1..Len(ready) : ready[i] = e
      /\ InLane(e) <=> \E i \in 1..Len(lane) : lane[i] = QueuedWork(e)
  BY DEF InReady, InLane, SeqRange
<1>3. \A s \in Sessions : Start(s, e) => owned[e] # None /\ ~owned[e].queued /\ owned[e].session = s
  BY DEF StartsSound
<1>4. /\ \A s \in Sessions : Behind(s, e) => Free(e) /\ owned[e].session = s
      /\ InReady(e) \/ InLane(e) \/ Resuming(e) => Free(e)
  BY DEF BehindSound, ReadySound, LaneSound, Apart
<1>5. owned[e] # None /\ owned[e].reattach => owned[e].queued /\ attaching # None
  BY DEF Reattachments
<1>6. CASE owned[e] = None
  <2>1. \A p : p \notin Places(e)
    BY <1>1, <1>2, <1>3, <1>4, <1>6 DEF Free
  <2> QED BY <1>6, <2>1
<1>7. CASE owned[e] # None
  <2>0. SUFFICES \E p : p \in Places(e) /\ \A q : q \in Places(e) => q = p
    BY <1>7
  <2>1. Somewhere(e)
    BY <1>7 DEF Kept
  <2>2. ASSUME NEW s \in Sessions, Start(s, e) PROVE \E p : p \in Places(e) /\ \A q : q \in Places(e) => q = p
    <3>1. <<"start", s>> \in Places(e)
      BY <1>1, <2>2
    <3>2. \A q : q \in Places(e) => q = <<"start", s>>
      BY <1>1, <1>2, <1>3, <1>4, <1>5, <2>2 DEF Free
    <3> QED BY <3>1, <3>2
  <2>3. ASSUME NEW s \in Sessions, Behind(s, e) PROVE \E p : p \in Places(e) /\ \A q : q \in Places(e) => q = p
    <3>1. <<"behind", s>> \in Places(e)
      BY <1>1, <2>3
    <3>2. ~InReady(e) /\ ~InLane(e) /\ ~Resuming(e)
      BY <2>3 DEF Apart
    <3>3. \A q : q \in Places(e) => q = <<"behind", s>>
      BY <1>1, <1>2, <1>3, <1>4, <2>3, <3>2 DEF Free
    <3> QED BY <3>1, <3>3
  <2>4. CASE InReady(e)
    <3>1. PICK i \in 1..Len(ready) : ready[i] = e
      BY <1>2, <2>4
    <3>2. <<"ready", i>> \in Places(e)
      BY <1>1, <3>1
    <3>3. ~InLane(e) /\ ~Resuming(e) /\ \A s \in Sessions : ~Behind(s, e)
      BY <2>4 DEF Apart
    <3>4. \A j \in 1..Len(ready) : ready[j] = e => j = i
      BY <3>1 DEF ReadySound, Distinct
    <3>5. \A q : q \in Places(e) => q = <<"ready", i>>
      BY <1>1, <1>2, <1>3, <1>4, <2>4, <3>3, <3>4 DEF Free
    <3> QED BY <3>2, <3>5
  <2>5. CASE InLane(e)
    <3>1. PICK i \in 1..Len(lane) : lane[i] = QueuedWork(e)
      BY <1>2, <2>5
    <3>2. <<"lane", i>> \in Places(e)
      BY <1>1, <3>1
    <3>3. ~InReady(e) /\ ~Resuming(e) /\ \A s \in Sessions : ~Behind(s, e)
      BY <2>5 DEF Apart
    <3>4. \A j \in 1..Len(lane) : lane[j] = QueuedWork(e) => j = i
      BY <3>1 DEF LaneSound, Distinct
    <3>5. \A q : q \in Places(e) => q = <<"lane", i>>
      BY <1>1, <1>2, <1>3, <1>4, <2>5, <3>3, <3>4 DEF Free
    <3> QED BY <3>2, <3>5
  <2>6. CASE Resuming(e)
    <3>1. <<"op", 0>> \in Places(e)
      BY <1>1, <2>6
    <3>2. ~InReady(e) /\ ~InLane(e) /\ \A s \in Sessions : ~Behind(s, e)
      BY <2>6 DEF Apart
    <3>3. \A q : q \in Places(e) => q = <<"op", 0>>
      BY <1>1, <1>2, <1>3, <1>4, <2>6, <3>2 DEF Free
    <3> QED BY <3>1, <3>3
  <2>7. CASE owned[e].reattach
    <3>1. <<"attachment", 0>> \in Places(e)
      BY <1>1, <1>5, <1>7, <2>7
    <3>2. \A q : q \in Places(e) => q = <<"attachment", 0>>
      BY <1>1, <1>2, <1>3, <1>4, <1>5, <1>7, <2>7 DEF Free
    <3> QED BY <3>1, <3>2
  <2> QED BY <2>1, <2>2, <2>3, <2>4, <2>5, <2>6, <2>7 DEF Somewhere
<1> QED BY <1>6, <1>7

\* While the service is up and its store works, every claimed event is being handled
\* or owned, and every owned input is in exactly one place from which it goes on: no
\* claim is forgotten, and no input can be sent from two places.
THEOREM ClaimsCarriedHolds == Spec => []ClaimsCarried
<1>1. ASSUME Carried PROVE ClaimsCarried
  <2>1. TypeOK
    BY <1>1 DEF Carried
  <2>2. ASSUME phase = "up", bounds.lost = 0, NEW e \in Inputs
        PROVE  /\ event[e] = "processing" <=>
                  \/ owned[e] # None
                  \/ op # None /\ op.from = "inbound" /\ op.input = e /\ op.step # "begin"
               /\ IF owned[e] = None THEN Places(e) = {} ELSE Cardinality(Places(e)) = 1
    <3>1. event[e] = "processing" <=> owned[e] # None \/ Handling(e)
      BY <1>1, <2>2 DEF Carried, Claims
    <3>2. IF owned[e] = None THEN Places(e) = {} ELSE Cardinality(Places(e)) = 1
      <4>1. IF owned[e] = None THEN Places(e) = {} ELSE \E p : Places(e) = {p}
        BY <1>1, <2>2, OnePlace
      <4>2. \A p : Cardinality({p}) = 1
        BY FS_Singleton
      <4> QED BY <4>1, <4>2
    <3> QED BY <3>1, <3>2 DEF Handling, Doing
  <2> QED BY <2>1, <2>2 DEF ClaimsCarried
<1> QED BY <1>1, CarriedInit, CarriedStep, PTL DEF Spec

----------------------------------------------------------------------------
(* At most once *)

\* A step that leaves the request of an input alone, or ends it, and puts the input
\* nowhere from where it was not sent before.
LEMMA OnceKept ==
    ASSUME NEW e \in Inputs, SentOnce(e),
           rpc'[e] = rpc[e] \/ rpc'[e] = NoRequest, accepted'[e] = accepted[e],
           event'[e] \in {"absent", "failed"} => Fresh(e),
           Handling(e)' /\ op'.step \in {"handle", "settle"} => Fresh(e),
           Resuming(e)' /\ op'.step \in {"begin", "handle", "settle"} => Fresh(e),
           phase' = "up" /\ owned'[e] # None /\ owned'[e].queued /\ ~Resuming(e)' => Fresh(e),
           phase' \in {"fenced", "down"} /\ event'[e] = "processing" /\ ~Handling(e)' => Fresh(e),
           phase' \in {"fenced", "down"} /\ Resuming(e)' => event'[e] # "processing"
    PROVE  SentOnce(e)'
<1>1. NoRequest.state = "none"
  BY DEF NoRequest
<1>2. Fresh(e) => Fresh(e)'
  BY <1>1 DEF Fresh
<1>3. rpc'[e].state \in {"flying", "refused"} => accepted'[e] = 0
  BY <1>1 DEF SentOnce
<1> QED BY <1>2, <1>3 DEF SentOnce

\* Every step keeps that an input that may be sent was not accepted.
LEMMA OnceStep ==
    ASSUME Carried, [Next]_vars, Once PROVE Once'
<1> SUFFICES ASSUME Reliable', NEW e \in Inputs PROVE SentOnce(e)'
  BY DEF Once
<1>0. /\ Reliable /\ bounds'.lost = 0 /\ SentOnce(e)
      /\ event \in EventsTyped /\ owned \in OwnedTable /\ rpc \in [Inputs -> Request]
      /\ op # None => op \in Operation /\ op.input \in Inputs
      /\ op' = None => ~Handling(e)' /\ ~Resuming(e)'
      /\ Handling(e) => owned[e] = None /\ event[e] = "processing"
      /\ InLane(e) => owned[e] # None /\ owned[e].queued
      /\ Resuming(e) => owned[e] # None /\ owned[e].queued
  <2>1. Reliable
    BY HistoryStep
  <2>2. /\ event \in EventsTyped /\ owned \in OwnedTable /\ rpc \in [Inputs -> Request]
        /\ op # None => op \in Operation /\ op.input \in Inputs
    BY DEF Carried, TypeOK, EventsTyped, OwnedTable, Operation
  <2>3. /\ Handling(e) => owned[e] = None /\ event[e] = "processing"
        /\ InLane(e) => owned[e] # None /\ owned[e].queued
        /\ Resuming(e) => owned[e] # None /\ owned[e].queued
    BY DEF Carried, Placement, OpSound, Handling, Doing, Claims, LaneSound, Apart, Free
  <2> QED BY <2>1, <2>2, <2>3 DEF Once, Reliable, Handling, Resuming, Doing
<1>1. ASSUME NEW f \in Inputs, AgentAnswers(f) PROVE SentOnce(e)'
  <2>1. UNCHANGED <<event, op, owned, phase>>
    BY <1>1 DEF AgentAnswers, inputState, store
  <2>2. (Handling(e)' <=> Handling(e)) /\ (Resuming(e)' <=> Resuming(e))
    BY <2>1 DEF Handling, Resuming, Doing
  <2>3. /\ rpc[f].state = "flying" /\ rpc'[f].state \in Answers
        /\ accepted'[f] = accepted[f] \/ (accepted'[f] = accepted[f] + 1 /\ rpc'[f].state # "refused")
        /\ \A g \in Inputs \ {f} : rpc'[g] = rpc[g] /\ accepted'[g] = accepted[g]
    BY <1>1, Answer DEF Carried
  <2>4. CASE e # f
    BY <1>0, <2>1, <2>2, <2>3, <2>4, OnceKept DEF SentOnce
  <2>5. CASE e = f
    <3>1. accepted[e] = 0 /\ ~Fresh(e)
      BY <1>0, <2>3, <2>5 DEF SentOnce, Fresh
    <3>2. accepted'[e] <= 1 /\ (rpc'[e].state \in {"flying", "refused"} => accepted'[e] = 0)
      BY <2>3, <2>5, <3>1 DEF Answers
    <3> QED BY <1>0, <2>1, <2>2, <3>1, <3>2 DEF SentOnce
  <2> QED BY <2>4, <2>5
<1>2. CASE Claim
  <2>1. /\ UNCHANGED <<rpc, accepted, owned, phase>> /\ op \in Operation /\ op # None /\ op.from = "inbound"
        /\ op.step = "begin"
    BY <1>0, <1>2 DEF Claim, At, agent
  <2>2. ~Handling(e) /\ ~Resuming(e)
    BY <2>1 DEF Handling, Resuming, Doing
  <2>3. CASE event[op.input] \in {"absent", "failed"} /\ event' = [event EXCEPT ![op.input] = "processing"]
             /\ op' = [op EXCEPT !.step = "handle"]
    <3>1. op' \in Operation /\ op'.from = "inbound" /\ op'.input = op.input /\ op'.step = "handle" /\ op' # None
      BY <1>0, <2>1, <2>3, NoneIsNothing DEF Operation
    <3>2. (Handling(e)' <=> e = op.input) /\ ~Resuming(e)'
      BY <3>1 DEF Handling, Resuming, Doing
    <3>3. event'[e] = IF e = op.input THEN "processing" ELSE event[e]
      BY <1>0, <2>3 DEF EventsTyped
    <3>4. Handling(e)' => Fresh(e)
      BY <1>0, <2>3, <3>2 DEF SentOnce
    <3> QED BY <1>0, <2>1, <2>2, <3>2, <3>3, <3>4, OnceKept DEF SentOnce
  <2>4. CASE op' = None /\ UNCHANGED event
    BY <1>0, <2>1, <2>2, <2>4, OnceKept DEF SentOnce
  <2> QED BY <1>2, <2>3, <2>4 DEF Claim, EndOp
<1>3. CASE TakeQueued
  <2>1. UNCHANGED <<rpc, accepted, phase>> /\ op \in Operation /\ op # None /\ op.from = "queued"
        /\ op.step = "begin"
    BY <1>0, <1>3 DEF TakeQueued, At, agent
  <2>2. ~Handling(e) /\ (Resuming(e) <=> e = op.input)
    BY <2>1 DEF Handling, Resuming, Doing
  <2>3. CASE op' = [op EXCEPT !.step = "handle"] /\ UNCHANGED <<event, owned, bounds>>
    <3>1. op'.from = "queued" /\ op'.input = op.input /\ op' # None
      BY <1>0, <2>1, <2>3, NoneIsNothing DEF Operation
    <3>2. ~Handling(e)' /\ (Resuming(e)' <=> Resuming(e))
      BY <2>2, <3>1 DEF Handling, Resuming, Doing
    <3>3. Resuming(e) => Fresh(e)
      BY <1>0, <2>1 DEF SentOnce
    <3> QED BY <1>0, <2>1, <2>2, <2>3, <3>2, <3>3, OnceKept DEF SentOnce
  <2>4. ASSUME op' = None, NEW lost \in SUBSET {op.input}, LoseWrites(lost),
               event' = Complete(event, {op.input} \ lost), owned' = Forget(owned, {op.input} \ lost)
        PROVE  SentOnce(e)'
    <3>1. lost = {}
      <4>1. IsFiniteSet(lost)
        BY <1>0, <2>1, <2>4, FewWrites DEF Carried
      <4> QED BY <1>0, <2>4, <4>1, Losses DEF Carried
    <3>2. event'[e] = IF e = op.input THEN "completed" ELSE event[e]
      BY <1>0, <2>4, <3>1 DEF Complete
    <3>3. owned'[e] = IF e = op.input THEN None ELSE owned[e]
      BY <1>0, <2>4, <3>1, Forgets
    <3> QED BY <1>0, <2>1, <2>2, <2>4, <3>2, <3>3, OnceKept DEF SentOnce
  <2> QED BY <1>3, <2>3, <2>4 DEF TakeQueued, EndOp
<1>4. CASE SendPrompt
  <2>1. op \in Operation /\ op # None /\ op.from \in {"inbound", "queued"} /\ op.step = "handle"
        /\ UNCHANGED <<event, phase, accepted>>
    BY <1>0, <1>4 DEF SendPrompt, At, store
  <2>2. PICK i \in Inputs : i = op.input
    BY <1>0, <2>1
  <2>3. SentOnce(i) /\ Fresh(i)
    BY <1>0, <2>1, <2>2 DEF Once, SentOnce, Handling, Resuming, Doing
  <2>4. CASE op' = None /\ UNCHANGED rpc /\ \E x \in QueuedInput : owned' = [owned EXCEPT ![op.input] = x]
    <3>1. e # i => owned'[e] = owned[e] /\ ~Handling(e) /\ ~Resuming(e)
      BY <1>0, <2>1, <2>2, <2>4 DEF OwnedTable, Handling, Resuming, Doing
    <3> QED BY <1>0, <2>1, <2>3, <2>4, <3>1, OnceKept DEF SentOnce
  <2>5. CASE UNCHANGED <<owned, rpc>> /\ op' \in Operation /\ op'.from = op.from /\ op'.input = op.input
    <3>1. op' # None
      BY <2>5, NoneIsNothing
    <3>2. (Handling(e)' => e = i) /\ (Resuming(e)' <=> Resuming(e)) /\ (Resuming(e) => e = i) /\ (Handling(e) => e = i)
      BY <2>1, <2>2, <2>5, <3>1 DEF Handling, Resuming, Doing
    <3> QED BY <1>0, <2>1, <2>3, <2>5, <3>2, OnceKept DEF SentOnce
  <2>6. CASE /\ UNCHANGED owned /\ op' \in Operation /\ op'.from = op.from /\ op'.input = op.input
             /\ op'.step \in {"await", "window"} /\ Send(op.input, bound)
    <3>1. op' # None
      BY <2>6, NoneIsNothing
    <3>2. (Handling(e)' <=> Handling(e)) /\ (Resuming(e)' <=> Resuming(e)) /\ (Resuming(e) \/ Handling(e) => e = i)
      BY <2>1, <2>2, <2>6, <3>1 DEF Handling, Resuming, Doing
    <3>3. rpc' = [rpc EXCEPT ![i] = [state |-> "flying", session |-> bound, turn |-> None, generation |-> generation]]
      BY <2>2, <2>6 DEF Send
    <3>4. CASE e # i
      <4>1. rpc'[e] = rpc[e]
        BY <1>0, <3>3, <3>4
      <4> QED BY <1>0, <2>1, <2>6, <3>2, <3>4, <4>1, OnceKept DEF SentOnce
    <3>5. CASE e = i
      <4>1. rpc'[e].state = "flying" /\ accepted'[e] = 0
        BY <1>0, <2>1, <2>3, <3>3, <3>5 DEF Fresh
      <4>2. event'[e] = "processing" \/ owned[e] # None
        BY <1>0, <2>1, <2>2, <3>5 DEF Handling, Resuming, Doing
      <4>3. event[e] = "processing" \/ event[e] = "uncertain"
        BY <1>0, <2>1, <4>2 DEF Carried, Claims
      <4>4. (Handling(e) \/ Resuming(e)) /\ (Resuming(e) => ~Handling(e))
        BY <2>1, <2>2, <3>5 DEF Handling, Resuming, Doing
      <4>5. phase' \in {"fenced", "down"} /\ event'[e] = "processing" => Handling(e)
        BY <1>0, <2>1, <4>4 DEF SentOnce
      <4>6. Handling(e)' \/ Resuming(e)' => op'.step \notin {"begin", "handle", "settle"}
        BY <2>6
      <4>7. event'[e] \notin {"absent", "failed"} /\ (phase' \in {"fenced", "down"} /\ Resuming(e)' => event'[e] # "processing")
        BY <1>0, <2>1, <3>2, <4>3 DEF SentOnce
      <4>8. ~(phase' = "up" /\ owned'[e] # None /\ owned'[e].queued /\ ~Resuming(e)')
        BY <1>0, <2>6, <3>2, <4>4
      <4>9. ~(phase' \in {"fenced", "down"} /\ event'[e] = "processing" /\ ~Handling(e)')
        BY <3>2, <4>5
      <4>10. accepted'[e] <= 1
        BY <4>1
      <4>11. /\ ~(Handling(e) /\ op.step \in {"handle", "settle"})'
             /\ ~(Resuming(e) /\ op.step \in {"begin", "handle", "settle"})'
        BY <4>6
      <4>12. (rpc[e].state \in {"flying", "refused"} => accepted[e] = 0)'
        BY <4>1
      <4>13. (phase \in {"fenced", "down"} /\ Resuming(e) => event[e] # "processing")'
        BY <4>7
      <4>14. ~(event[e] \in {"absent", "failed"})'
        BY <4>7
      <4> QED BY <4>8, <4>9, <4>10, <4>11, <4>12, <4>13, <4>14 DEF SentOnce
    <3> QED BY <3>4, <3>5
  <2>7. UNCHANGED rpc \/ Send(op.input, bound)
    BY <1>4 DEF SendPrompt
  <2>8. \/ op' = None /\ \E x \in QueuedInput : owned' = [owned EXCEPT ![op.input] = x]
        \/ UNCHANGED owned /\ op' \in Operation /\ op'.from = op.from /\ op'.input = op.input
    BY <1>4, Waits
  <2>9. ASSUME Send(op.input, bound)
        PROVE  op' \in Operation /\ op'.step \in {"await", "window"}
    <3>1. PICK x \in {"await", "window"} : op' = [op EXCEPT !.step = x]
      BY <2>9 DEF Send
    <3> QED BY <2>1, <3>1 DEF Operation
  <2>10. CASE Send(op.input, bound)
    <3>1. op' # None
      BY <2>9, <2>10, NoneIsNothing
    <3> QED BY <2>6, <2>8, <2>9, <2>10, <3>1
  <2> QED BY <2>4, <2>5, <2>7, <2>8, <2>10
<1>5. CASE DeferPrompt
  <2>1. op \in Operation /\ op # None /\ op.step = "window" /\ phase = "up" /\ op' = None
        /\ UNCHANGED <<event, phase, accepted, rpc>>
    BY <1>0, <1>5 DEF DeferPrompt, At, store, agent, Room, Closed, EndOp
  <2>2. \E x : x.queued = FALSE /\ owned' = [owned EXCEPT ![op.input] = x]
    BY <1>5 DEF DeferPrompt
  <2>3. owned'[e] = owned[e] \/ ~owned'[e].queued
    BY <1>0, <2>2 DEF OwnedTable
  <2>4. Resuming(e) => e = op.input
    BY DEF Resuming, Doing
  <2>5. e = op.input => owned'[e].queued = FALSE
    BY <1>0, <2>2 DEF OwnedTable
  <2>6. owned'[e] # None /\ owned'[e].queued => owned[e] # None /\ owned[e].queued /\ ~Resuming(e)
    BY <2>3, <2>4, <2>5
  <2> QED BY <1>0, <2>1, <2>6, OnceKept DEF SentOnce
<1>6. CASE KeepAwaiting
  <2>1. op \in Operation /\ op # None /\ op' = [op EXCEPT !.step = "await"]
        /\ UNCHANGED <<event, phase, accepted, rpc, owned>>
    BY <1>0, <1>6 DEF KeepAwaiting, At, store, agent
  <2>2. op' # None /\ op'.from = op.from /\ op'.input = op.input /\ op'.step = "await"
    BY <2>1, NoneIsNothing DEF Operation
  <2>3. (Handling(e)' <=> Doing("inbound", e)) /\ (Resuming(e)' <=> Resuming(e))
    BY <2>1, <2>2 DEF Handling, Resuming, Doing
  <2>4. Handling(e) => Handling(e)'
    BY <2>3 DEF Handling
  <2> QED BY <1>0, <2>1, <2>2, <2>3, <2>4, OnceKept DEF SentOnce
<1>7. CASE Settle
  <2>1. /\ op \in Operation /\ op # None /\ op' = None /\ UNCHANGED <<phase, accepted>>
        /\ op.from \in {"inbound", "queued"} /\ Outcome \in Answers \cup {"ok"}
        /\ rpc' = [rpc EXCEPT ![op.input] = NoRequest]
    BY <1>0, <1>7 DEF Settle, EndOp
  <2>2. PICK i \in Inputs : i = op.input
    BY <1>0, <2>1
  <2>3. event' = Settled(event, i, Outcome) /\ owned' = Forget(owned, {i})
    <3>1. PICK lost \in SUBSET {i} :
             /\ LoseWrites(lost)
             /\ event' = IF lost = {} THEN Settled(event, i, Outcome) ELSE event
             /\ owned' = Forget(owned, {i} \ lost)
      BY <1>7, <2>2 DEF Settle
    <3>2. IsFiniteSet(lost)
      BY <3>1, FewWrites DEF Carried
    <3>3. lost = {}
      BY <1>0, <3>1, <3>2, Losses DEF Carried
    <3> QED BY <3>1, <3>3
  <2>4. CASE e # i
    <3>1. event'[e] = event[e] /\ owned'[e] = owned[e] /\ rpc'[e] = rpc[e]
      BY <1>0, <2>1, <2>2, <2>3, <2>4, EachWrite, Forgets
    <3>2. ~Handling(e) /\ ~Resuming(e)
      BY <2>2, <2>4 DEF Handling, Resuming, Doing
    <3> QED BY <1>0, <2>1, <3>1, <3>2, OnceKept DEF SentOnce
  <2>5. CASE e = i
    <3>1. owned'[e] = None /\ rpc'[e] = NoRequest /\ accepted'[e] = accepted[e]
      BY <1>0, <2>1, <2>2, <2>3, <2>5, Forgets
    <3>2. /\ Outcome \in {"ok", "accepted"} => event'[e] = "completed"
          /\ Outcome = "unknown" => event'[e] = IF event[e] \in {"absent", "processing"} THEN "uncertain" ELSE event[e]
          /\ Outcome \notin {"ok", "accepted", "unknown"} => event'[e] = IF event[e] = "processing" THEN "failed" ELSE event[e]
      BY <1>0, <2>3, <2>5, EachWrite
    <3>3. Outcome = "refused" => Fresh(e)
      <4>1. (op.step \in {"settle", "window", "await"} /\ (Handling(e) \/ Resuming(e))) \/ Outcome # "refused"
        BY <2>1, <2>2, <2>5 DEF Outcome, Handling, Resuming, Doing
      <4>2. Outcome = "refused" /\ op.step # "settle" => rpc[e].state = "refused"
        BY <2>2, <2>5 DEF Outcome
      <4> QED BY <1>0, <4>1, <4>2 DEF SentOnce, Fresh
    <3>4. event'[e] \in {"absent", "failed"} => Fresh(e)
      BY <1>0, <2>1, <3>2, <3>3 DEF SentOnce, Answers
    <3>5. event'[e] # "processing"
      BY <2>1, <3>2 DEF Answers
    <3> QED BY <1>0, <2>1, <3>1, <3>4, <3>5, OnceKept
  <2> QED BY <2>4, <2>5
<1>8. CASE ApplyAcknowledged
  <2>1. /\ op # None /\ op.from = "ack" /\ op' = None /\ UNCHANGED <<phase, accepted>>
        /\ rpc' = [rpc EXCEPT ![op.input] = NoRequest]
    BY <1>0, <1>8 DEF ApplyAcknowledged, EndOp, At
  <2>2. PICK i \in Inputs : i = op.input
    BY <1>0, <2>1
  <2>3. PICK s \in Sessions : s = rpc[i].session /\ Start(s, i) /\ rpc[i].state \in Answers
    BY <2>1, <2>2, Acknowledges DEF Carried
  <2>4. PICK left : /\ left = IF HandOn(s, i) THEN {} ELSE SeqRange(pending[s].queued)
                    /\ event' = Complete(Settled(event, i, rpc[i].state), left)
                    /\ owned' = Forget(owned, {i} \cup left)
    <3>1. PICK left : left = IF HandOn(s, i) THEN {} ELSE SeqRange(pending[s].queued)
      OBVIOUS
    <3>2. PICK lost \in SUBSET ({i} \cup left) :
             /\ LoseWrites(lost)
             /\ \/ i \in lost
                \/ /\ event' = Complete(Settled(event, i, rpc[i].state), left \ lost)
                   /\ owned' = Forget(owned, {i} \cup (left \ lost))
      BY <1>8, <2>2, <2>3, <3>1 DEF ApplyAcknowledged
    <3>3. IsFiniteSet(lost)
      <4> HIDE DEF SeqRange, HandOn, Start
      <4> QED BY <2>3, <3>1, <3>2, FewWrites DEF Carried
    <3>4. lost = {}
      BY <1>0, <3>2, <3>3, Losses DEF Carried
    <3>5. left \ lost = left
      BY <3>4
    <3> QED BY <3>1, <3>2, <3>4, <3>5
  <2>5. ~Handling(e) /\ ~Resuming(e)
    BY <2>1 DEF Handling, Resuming, Doing
  <2>6. owned'[e] = IF e = i \/ e \in left THEN None ELSE owned[e]
    BY <1>0, <2>4, Forgets
  <2>7. event'[e] = IF e \in left THEN "completed" ELSE Settled(event, i, rpc[i].state)[e]
    <3>1. Settled(event, i, rpc[i].state) \in EventsTyped
      BY <1>0, Writes
    <3> QED BY <1>0, <2>4, <3>1 DEF Complete
  <2>8. CASE e # i
    <3>1. event'[e] = event[e] \/ event'[e] = "completed"
      BY <1>0, <2>7, <2>8, EachWrite
    <3>2. rpc'[e] = rpc[e]
      BY <1>0, <2>1, <2>2, <2>8
    <3> QED BY <1>0, <2>1, <2>5, <2>6, <3>1, <3>2, OnceKept DEF SentOnce
  <2>9. CASE e = i
    <3>1. owned'[e] = None /\ rpc'[e] = NoRequest /\ accepted'[e] = accepted[e]
      BY <1>0, <2>1, <2>2, <2>6, <2>9
    <3>2. /\ event'[e] \in {"absent", "failed"} =>
                event'[e] = event[e] \/ (event[e] = "processing" /\ rpc[e].state = "refused")
          /\ event'[e] # "processing"
      BY <1>0, <2>3, <2>7, <2>9, EachWrite DEF Answers
    <3>3. event'[e] \in {"absent", "failed"} => Fresh(e)
      BY <1>0, <3>2 DEF SentOnce, Fresh
    <3> QED BY <1>0, <2>1, <3>1, <3>2, <3>3, OnceKept
  <2> QED BY <2>8, <2>9
<1>9. CASE StopCurrent \/ Attach
  <2>1. op \in Operation /\ op # None /\ op.from = "inbound" /\ op.step = "handle"
        /\ UNCHANGED <<event, phase, accepted, rpc>>
    BY <1>0, <1>9 DEF StopCurrent, Attach, At, store, agent
  <2>2. \E r : op' = [op EXCEPT !.step = "settle", !.result = r]
    BY <1>9 DEF StopCurrent, Attach, Result
  <2>3. op'.from = "inbound" /\ op'.input = op.input /\ op'.step = "settle"
    BY <2>1, <2>2 DEF Operation
  <2>4. ~Resuming(e) /\ ~Resuming(e)' /\ (Handling(e)' => Handling(e))
    BY <2>1, <2>3 DEF Handling, Resuming, Doing
  <2>5. op' # None
    <3>1. PICK r : op' = [op EXCEPT !.step = "settle", !.result = r] /\ r \in {"ok", "refused"}
      BY <1>9 DEF StopCurrent, Attach, Result
    <3>2. [op EXCEPT !.step = "settle", !.result = r] \in Operation
      BY <2>1, <3>1 DEF Operation
    <3> QED BY <3>1, <3>2, NoneIsNothing
  <2>6. Handling(e) => Handling(e)'
    BY <2>1, <2>3, <2>5 DEF Handling, Doing
  <2>7. (owned'[e] = None <=> owned[e] = None) /\ (owned[e] # None => owned'[e].queued = owned[e].queued)
    BY <1>9, Leaves DEF Kin
  <2> QED BY <1>0, <2>1, <2>4, <2>6, <2>7, OnceKept DEF SentOnce
<1>10. CASE Attached \/ \E s \in Sessions : SessionExited(s)
  <2>1. UNCHANGED <<event, phase, accepted, rpc, op>>
    BY <1>10 DEF Attached, SessionExited, agent
  <2>2. (Handling(e)' <=> Handling(e)) /\ (Resuming(e)' <=> Resuming(e))
    BY <2>1 DEF Handling, Resuming, Doing
  <2>3. (owned'[e] = None <=> owned[e] = None) /\ (owned[e] # None => owned'[e].queued = owned[e].queued)
    BY <1>10, Leaves DEF Kin
  <2> QED BY <1>0, <2>1, <2>2, <2>3, OnceKept DEF SentOnce
<1>11. CASE Dispatch
  <2>1. op = None /\ lane # <<>> /\ phase = "up" /\ UNCHANGED <<event, phase, accepted, rpc, owned>>
        /\ op' = [from |-> Head(lane).from, input |-> Head(lane).input, step |-> "begin", result |-> None]
    BY <1>11 DEF Dispatch, Closed, agent, store
  <2>2. ~Handling(e) /\ ~Resuming(e) /\ ~Handling(e)'
    BY <2>1 DEF Handling, Resuming, Doing
  <2>3. Resuming(e)' => InLane(e)
    <3>1. lane \in Seq(Work)
      BY DEF Carried, TypeOK
    <3>2. Head(lane) \in Work /\ Head(lane) \in SeqRange(lane)
      BY <2>1, <3>1, RangeTail
    <3>3. Resuming(e)' => Head(lane) = QueuedWork(e)
      BY <2>1, <3>2 DEF Resuming, Doing, QueuedWork, Work
    <3> QED BY <3>2, <3>3 DEF InLane
  <2> QED BY <1>0, <2>1, <2>2, <2>3, OnceKept DEF SentOnce
<1>12. CASE \/ NextPending \/ Reconnected \/ UNCHANGED vars \/ Shutdown
            \/ \E s \in Sessions : TurnStarted(s) \/ TurnCompleted(s)
  <2>1. UNCHANGED <<event, accepted, rpc, op, owned>> /\ (UNCHANGED phase \/ phase' = "closed")
    BY <1>12 DEF NextPending, Reconnected, Shutdown, TurnStarted, TurnCompleted, inputState, agent, store, vars
  <2>2. (Handling(e)' <=> Handling(e)) /\ (Resuming(e)' <=> Resuming(e))
    BY <2>1 DEF Handling, Resuming, Doing
  <2> QED BY <1>0, <2>1, <2>2, OnceKept DEF SentOnce
<1>13. ASSUME NEW f \in Inputs, Deliver(f) PROVE SentOnce(e)'
  <2>1. /\ UNCHANGED <<owned, op, phase, accepted, rpc>>
        /\ event' = event \/ event' = [event EXCEPT ![f] = "rejected"]
    BY <1>13 DEF Deliver, agent
  <2>2. (Handling(e)' <=> Handling(e)) /\ (Resuming(e)' <=> Resuming(e))
    BY <2>1 DEF Handling, Resuming, Doing
  <2>3. event'[e] = event[e] \/ event'[e] = "rejected"
    BY <1>0, <2>1 DEF EventsTyped
  <2> QED BY <1>0, <2>1, <2>2, <2>3, OnceKept DEF SentOnce
<1>14. CASE WorkerPanics \/ AbortWorker
  <2>1. op # None /\ op' = None /\ UNCHANGED <<accepted, rpc, owned>> /\ event' = Fenced
        /\ (phase' = "closed" \/ (phase = "fenced" /\ phase' = "fenced"))
    BY <1>14 DEF WorkerPanics, AbortWorker, EndOp, agent
  <2>2. /\ event'[e] \in {"absent", "failed"} => event'[e] = event[e]
        /\ event'[e] = "processing" => event[e] = "processing" /\ ~Handling(e)
    BY <1>0, <2>1, EachWrite DEF Fenced, Handling, Doing
  <2> QED BY <1>0, <2>1, <2>2, OnceKept DEF SentOnce
<1>15. CASE FenceOwned
  <2>1. phase = "closed" /\ phase' = "fenced" /\ UNCHANGED <<accepted, rpc, owned, op, bounds>>
        /\ event' = Fence(event, Owned)
    BY <1>15 DEF FenceOwned, agent, inputState
  <2>2. (Handling(e)' <=> Handling(e)) /\ (Resuming(e)' <=> Resuming(e))
    BY <2>1 DEF Handling, Resuming, Doing
  <2>3. event'[e] = IF owned[e] # None /\ event[e] \in {"absent", "processing"} THEN "uncertain" ELSE event[e]
    BY <1>0, <2>1, EachWrite DEF Owned
  <2>4. event'[e] = "processing" => Handling(e)
    BY <1>0, <2>1, <2>3 DEF Carried, Claims
  <2>5. Resuming(e) => event'[e] # "processing"
    BY <1>0, <2>3
  <2> QED BY <1>0, <2>1, <2>2, <2>3, <2>4, <2>5, OnceKept DEF SentOnce
<1>16. CASE Exit
  <2>1. phase = "fenced" /\ op = None /\ op' = None /\ phase' = "down" /\ owned'[e] = None
        /\ UNCHANGED <<accepted, rpc, event>>
    BY <1>16 DEF Exit, LoseMemory, agent, store
  <2>2. ~Handling(e)
    BY <2>1 DEF Handling, Doing
  <2> QED BY <1>0, <2>1, <2>2, OnceKept DEF SentOnce
<1>17. CASE Crash
  BY <1>0, <1>17 DEF Crash, LoseMemory, Reliable
<1>18. CASE Restart
  <2>1. phase = "down" /\ phase' = "up" /\ UNCHANGED <<accepted, rpc, owned, op>>
        /\ event' = Release(event, Inputs)
    BY <1>18 DEF Restart, agent, inputState
  <2>2. op = None /\ owned[e] = None
    BY <2>1 DEF Carried, Memory
  <2>3. ~Handling(e) /\ ~Resuming(e) /\ ~Handling(e)' /\ ~Resuming(e)'
    BY <2>1, <2>2 DEF Handling, Resuming, Doing
  <2>4. event'[e] = IF event[e] = "processing" THEN "failed" ELSE event[e]
    BY <1>0, <2>1, EachWrite
  <2> QED BY <1>0, <2>1, <2>2, <2>3, <2>4, OnceKept DEF SentOnce
<1>19. CASE \E s \in Sessions : TurnStarted(s) \/ TurnCompleted(s) \/ SessionExited(s)
  BY <1>10, <1>12, <1>19
<1> QED BY <1>1, <1>2, <1>3, <1>4, <1>5, <1>6, <1>7, <1>8, <1>9, <1>10, <1>11, <1>12, <1>13, <1>14,
           <1>15, <1>16, <1>17, <1>18, <1>19 DEF Next, Progress, Operate

\* Redelivered events, queued inputs that are admitted again, late acknowledgements,
\* worker panics and orderly shutdown with restart never make the agent accept an
\* input twice; only a killed process or a lost write may.
THEOREM AtMostOnceHolds == Spec => []AtMostOnce
<1>1. Init => Once
  <2> SUFFICES ASSUME Init, NEW e \in Inputs PROVE SentOnce(e)
    BY DEF Once
  <2>1. /\ op = None /\ owned[e] = None /\ event[e] = "absent" /\ rpc[e].state = "none"
        /\ accepted[e] = 0 /\ phase = "up"
    BY DEF Init, NoRequest
  <2> QED BY <2>1 DEF SentOnce, Fresh, Handling, Resuming, Doing
<1>2. Once => AtMostOnce
  BY DEF Once, SentOnce, AtMostOnce, Reliable
<1>3. Once /\ Carried /\ [Next]_vars => Once'
  BY OnceStep
<1> QED BY <1>1, <1>2, <1>3, CarriedInit, CarriedStep, PTL DEF Spec

----------------------------------------------------------------------------
(* Stopped follow-ups *)

\* A stop cancels every follow-up that it finds waiting; while the service shuts down
\* those held back for an attachment are left to the fence.
LEMMA StopDooms ==
    ASSUME Carried, StopCurrent, NEW e \in Inputs, e \in doomed', e \notin doomed
    PROVE  owned[e] # None /\ owned[e].queued /\ (owned'[e].cancelled \/ phase # "up")
<1> DEFINE shut == FinishedReattachment(owned, None)
           own == IF attaching = None THEN owned ELSE shut
<1>1. owned \in OwnedTable /\ shut \in OwnedTable
  BY Finishes DEF Carried, TypeOK, OwnedTable
<1>2. owned[e] # None /\ owned[e].reattach => owned[e].queued /\ (phase = "up" => attaching # None)
  BY DEF Carried, Reattachments
<1>3. /\ owned[e] # None /\ owned[e].reattach => shut[e] # None /\ shut[e].cancelled
      /\ owned[e] # None /\ ~owned[e].reattach => shut[e] = owned[e]
  <2>1. PICK x \in Nat \cup {None} : x = None
    OBVIOUS
  <2>2. /\ owned[e] # None /\ owned[e].reattach =>
               FinishedReattachment(owned, x)[e] # None /\ FinishedReattachment(owned, x)[e].cancelled
        /\ owned[e] # None /\ ~owned[e].reattach => FinishedReattachment(owned, x)[e] = owned[e]
    BY <1>1, <2>1, Finishes
  <2> QED BY <2>1, <2>2
<1>4. \/ owned' = own /\ e \in Reattaching(owned)
      \/ owned' = CancelSession(own, bound) /\ (e \in Reattaching(owned) \/ e \in QueuedFor(bound))
  BY DEF StopCurrent
<1>5. owned[e] # None /\ owned[e].queued
  BY <1>2, <1>4 DEF Reattaching, QueuedFor, Owned
<1>6. own \in OwnedTable
  BY <1>1
<1>7. CASE owned[e].reattach
  <2>1. CASE phase = "up"
    <3>1. own[e] # None /\ own[e].cancelled
      BY <1>2, <1>3, <1>5, <1>7, <2>1
    <3> HIDE DEF own
    <3>2. CancelSession(own, bound)[e].cancelled
      BY <1>6, <3>1, Cancels DEF CancelSession, Alike
    <3> QED BY <1>4, <1>5, <3>1, <3>2
  <2> QED BY <1>5, <2>1
<1>8. CASE ~owned[e].reattach
  <2>1. owned' = CancelSession(own, bound) /\ owned[e].session = bound
    BY <1>4, <1>8 DEF Reattaching, QueuedFor, Owned
  <2>2. own[e] = owned[e]
    BY <1>3, <1>5, <1>8
  <2> HIDE DEF own
  <2>3. e \in {f \in Inputs : own[f] # None /\ own[f].session = bound}
    BY <1>5, <2>1, <2>2
  <2>4. CancelSession(own, bound)[e].cancelled
    BY <1>5, <1>6, <1>8, <2>2, <2>3, Cancels DEF CancelSession
  <2> QED BY <1>5, <2>1, <2>4
<1> QED BY <1>7, <1>8

\* Only an operation that handles a prompt sends it.
LEMMA SendsOnly ==
    ASSUME Carried, [Next]_vars, NEW e \in Inputs, Sends(e)
    PROVE  SendPrompt /\ Send(e, bound) /\ e = op.input /\ bound \in Sessions
           /\ op # None /\ op.from \in {"inbound", "queued"} /\ op.step = "handle"
<1>1. rpc \in [Inputs -> Request]
  BY DEF Carried, TypeOK
<1>2. rpc'[e] # rpc[e] /\ rpc'[e].state = "flying"
  BY DEF Sends
<1>3. ASSUME NEW f \in Inputs, AgentAnswers(f) PROVE FALSE
  BY <1>2, <1>3, Answer DEF Carried, Answers
<1>4. CASE op.input \in Inputs /\ rpc' = [rpc EXCEPT ![op.input] = NoRequest]
  BY <1>1, <1>2, <1>4 DEF NoRequest
<1>5. CASE SendPrompt /\ Send(op.input, bound) /\ bound \in Sessions /\ op.input \in Inputs
  <2>1. e = op.input
    BY <1>1, <1>2, <1>5 DEF Send
  <2> QED BY <1>5, <2>1 DEF SendPrompt, At
<1> QED BY <1>2, <1>3, <1>4, <1>5, RequestSteps

\* Every step keeps stopped follow-ups from being sent.
LEMMA DoomedStep ==
    ASSUME Carried, [Next]_vars, Doomed PROVE Doomed'
<1> SUFFICES ASSUME NEW e \in Inputs, e \in doomed' PROVE NeverSent(e)'
  <2>1. doomed' \subseteq Inputs
    BY HistoryStep DEF HistoryOK
  <2> QED BY <2>1 DEF Doomed
<1>0. /\ event \in EventsTyped /\ owned \in OwnedTable
      /\ op # None => op \in Operation /\ op.input \in Inputs
      /\ op' = None => ~Handling(e)' /\ ~Resuming(e)'
      /\ Handling(e) => owned[e] = None
      /\ owned[e] # None => event[e] \in {"processing", "uncertain"}
  <2>1. /\ event \in EventsTyped /\ owned \in OwnedTable
        /\ op # None => op \in Operation /\ op.input \in Inputs
    BY DEF Carried, TypeOK, EventsTyped, OwnedTable, Operation
  <2>2. Handling(e) => owned[e] = None
    BY DEF Carried, Placement, OpSound, Handling, Doing
  <2> QED BY <2>1, <2>2 DEF Carried, Claims, Handling, Resuming, Doing
<1> DEFINE Old == e \in doomed /\ NeverSent(e) /\ phase # "down"
<1>a. ASSUME e \in doomed PROVE Old
  BY <1>a DEF Doomed, Carried, Memory
<1>1. CASE Exit \/ Crash
  BY <1>1 DEF Exit, Crash, LoseMemory
<1>2. CASE Restart
  BY <1>2, <1>a DEF Restart, history
<1>3. CASE StopCurrent
  <2>1. /\ op \in Operation /\ op # None /\ op.from = "inbound" /\ op.step = "handle"
        /\ UNCHANGED <<event, phase>>
    BY <1>0, <1>3 DEF StopCurrent, At, store
  <2>2. \E r : op' = [op EXCEPT !.step = "settle", !.result = r]
    BY <1>3 DEF StopCurrent, Result
  <2>3. op'.from = "inbound" /\ op'.input = op.input /\ op'.step = "settle"
    BY <2>1, <2>2 DEF Operation
  <2>4. ~Resuming(e)' /\ (Handling(e)' => Handling(e))
    BY <2>1, <2>3 DEF Handling, Resuming, Doing
  <2>5. Kin(owned')
    BY <1>3, Leaves
  <2>6. CASE e \in doomed
    BY <1>a, <2>1, <2>4, <2>5, <2>6 DEF Kin, NeverSent
  <2>7. CASE e \notin doomed
    <3>1. owned[e] # None /\ owned[e].queued /\ (owned'[e].cancelled \/ phase # "up")
      BY <1>3, <2>7, StopDooms
    <3>2. owned'[e].queued
      BY <2>5, <3>1 DEF Kin
    <3> QED BY <1>0, <2>1, <2>4, <3>1, <3>2 DEF NeverSent
  <2> QED BY <2>6, <2>7
<1>4. CASE Attach \/ Attached \/ \E s \in Sessions : SessionExited(s)
  <2>1. UNCHANGED <<event, phase, doomed>>
    BY <1>4 DEF Attach, Attached, SessionExited, store, history
  <2>2. Kin(owned')
    BY <1>4, Leaves
  <2>3. (Handling(e)' => Handling(e)) /\ (Resuming(e)' => Resuming(e) /\ op' = op)
    <3>1. CASE Attach
      <4>1. /\ op \in Operation /\ op # None /\ op.from = "inbound" /\ op.step = "handle"
        BY <1>0, <3>1 DEF Attach, At
      <4>2. \E r : op' = [op EXCEPT !.step = "settle", !.result = r]
        BY <3>1 DEF Attach, Result
      <4>3. op'.from = "inbound" /\ op'.input = op.input /\ op'.step = "settle"
        BY <4>1, <4>2 DEF Operation
      <4> QED BY <4>1, <4>3 DEF Handling, Resuming, Doing
    <3>2. CASE UNCHANGED op
      BY <3>2 DEF Handling, Resuming, Doing
    <3> QED BY <1>4, <3>1, <3>2 DEF Attached, SessionExited
  <2> QED BY <1>a, <2>1, <2>2, <2>3 DEF Kin, NeverSent
<1>5. CASE SendPrompt \/ DeferPrompt
  <2>1. UNCHANGED <<event, phase, doomed>>
    BY <1>5 DEF SendPrompt, DeferPrompt, store, history
  <2>2. ~Doing("inbound", e) /\ ~Resuming(e)
    BY <1>5, <1>a, <2>1, Waits DEF NeverSent, Handling, Resuming, Doing
  <2>3. e # op.input
    BY <1>5, <2>2, Waits DEF Resuming, Doing
  <2>4. ~Handling(e)' /\ ~Resuming(e)' /\ owned'[e] = owned[e]
    BY <1>0, <1>5, <2>3, Waits DEF Handling, Resuming, Doing, OwnedTable
  <2> QED BY <1>a, <2>1, <2>4 DEF NeverSent
<1>6. CASE Claim \/ KeepAwaiting
  <2>1. UNCHANGED <<owned, phase, doomed>> /\ op # None /\ op \in Operation
    BY <1>0, <1>6 DEF Claim, KeepAwaiting, At, history
  <2>2. \/ op' = None
        \/ op'.from = op.from /\ op'.input = op.input
    BY <1>6, <2>1 DEF Claim, KeepAwaiting, EndOp, Operation
  <2>3. Handling(e)' => Doing("inbound", e)
    BY <1>0, <2>1, <2>2 DEF Handling, Doing
  <2>4. event'[e] = event[e] /\ ~Handling(e)' /\ ~Resuming(e)'
    <3>1. CASE Claim
      <4>1. /\ op.from = "inbound"
            /\ \/ /\ event[op.input] \in {"absent", "failed"}
                  /\ event' = [event EXCEPT ![op.input] = "processing"]
               \/ op' = None /\ event' = event
        BY <3>1 DEF Claim, At, EndOp
      <4>2. op' # None => op.input # e
        BY <1>a, <2>1, <4>1 DEF NeverSent
      <4>3. event'[e] = event[e]
        BY <1>0, <1>a, <2>1, <4>1 DEF EventsTyped, NeverSent
      <4> QED BY <1>0, <2>2, <2>3, <4>1, <4>2, <4>3 DEF Doing, Resuming
    <3>2. CASE KeepAwaiting
      <4>1. op.step = "window" /\ UNCHANGED event
        BY <3>2 DEF KeepAwaiting, At, store
      <4>2. ~Doing("inbound", e) /\ ~Resuming(e)
        BY <1>a, <2>1, <4>1 DEF NeverSent, Handling
      <4> QED BY <1>0, <2>1, <2>2, <2>3, <4>1, <4>2 DEF Doing, Resuming
    <3> QED BY <1>6, <3>1, <3>2
  <2> QED BY <1>a, <2>1, <2>4 DEF NeverSent
<1>7. CASE TakeQueued
  <2>1. op # None /\ op \in Operation /\ op.from = "queued" /\ UNCHANGED <<phase, doomed>>
    BY <1>0, <1>7 DEF TakeQueued, At, history
  <2>2. CASE op' = [op EXCEPT !.step = "handle"] /\ UNCHANGED <<event, owned>> /\ ~Closed /\ ~Stale(op.input)
    <3>1. op'.from = "queued" /\ op'.input = op.input
      BY <2>1, <2>2 DEF Operation
    <3>2. op.input # e
      BY <1>a, <2>1, <2>2 DEF NeverSent, Stale, Closed
    <3>3. ~Handling(e)' /\ ~Resuming(e)'
      BY <3>1, <3>2 DEF Handling, Resuming, Doing
    <3> QED BY <1>a, <2>1, <2>2, <3>3 DEF NeverSent
  <2>3. ASSUME op' = None, NEW es, event' = Complete(event, es), owned' = Forget(owned, es)
        PROVE  NeverSent(e)'
    <3>1. event'[e] \in {event[e], "completed"}
      BY <1>0, <2>3 DEF Complete
    <3>2. owned'[e] \in {owned[e], None}
      BY <1>0, <2>3 DEF Forget
    <3> QED BY <1>0, <1>a, <2>1, <2>3, <3>1, <3>2 DEF NeverSent
  <2> QED BY <1>7, <2>2, <2>3 DEF TakeQueued, EndOp
<1>8. CASE Settle
  <2>1. op # None /\ op.from \in {"inbound", "queued"} /\ op' = None /\ UNCHANGED <<phase, doomed>>
        /\ op.step # "begin" /\ op.input \in Inputs
    BY <1>0, <1>8 DEF Settle, Outcome, EndOp, Answers, history
  <2>2. e # op.input
    BY <1>a, <2>1 DEF NeverSent, Handling, Resuming, Doing
  <2>3. PICK i \in Inputs : i = op.input
    BY <2>1
  <2>4. /\ event' = event \/ event' = Settled(event, i, Outcome)
        /\ \E es \in SUBSET {i} : owned' = Forget(owned, es)
    BY <1>8, <2>3 DEF Settle
  <2>5. event'[e] = event[e] /\ owned'[e] = owned[e]
    BY <1>0, <2>2, <2>3, <2>4, EachWrite DEF Forget
  <2> QED BY <1>0, <1>a, <2>1, <2>5 DEF NeverSent
<1>9. CASE ApplyAcknowledged
  <2>1. /\ op # None /\ op.from = "ack" /\ op' = None /\ UNCHANGED <<phase, doomed>>
    BY <1>9 DEF ApplyAcknowledged, EndOp, At, history
  <2>2. PICK i \in Inputs : i = op.input
    BY <1>0, <2>1
  <2>3. owned[i] # None /\ ~owned[i].queued
    BY <2>1, <2>2, Acknowledges DEF Carried, Placement, StartsSound
  <2>4. e # i
    BY <1>a, <2>1, <2>3 DEF NeverSent
  <2>5. \/ UNCHANGED <<event, owned>>
        \/ \E es, fs : event' = Complete(Settled(event, i, rpc[i].state), es) /\ owned' = Forget(owned, fs)
    BY <1>9, <2>2 DEF ApplyAcknowledged
  <2>6. owned'[e] \in {owned[e], None}
    BY <1>0, <2>5 DEF Forget
  <2>7. event'[e] \in {event[e], "completed"}
    <3>1. Settled(event, i, rpc[i].state)[e] = event[e]
      BY <1>0, <2>4, EachWrite
    <3> QED BY <2>5, <3>1 DEF Complete
  <2> QED BY <1>0, <1>a, <2>1, <2>6, <2>7 DEF NeverSent
<1>10. CASE Dispatch
  <2>1. /\ op = None /\ lane # <<>> /\ UNCHANGED <<event, phase, owned, doomed>>
        /\ op' = [from |-> Head(lane).from, input |-> Head(lane).input, step |-> "begin", result |-> None]
    BY <1>10 DEF Dispatch, store, history
  <2> QED BY <1>a, <2>1 DEF NeverSent, Handling
<1>11. CASE \/ NextPending \/ Reconnected \/ UNCHANGED vars \/ Shutdown
            \/ \E f \in Inputs : AgentAnswers(f) \/ Deliver(f)
            \/ \E s \in Sessions : TurnStarted(s) \/ TurnCompleted(s)
  <2>1. UNCHANGED <<op, owned, doomed>> /\ (UNCHANGED phase \/ phase' = "closed")
    BY <1>11 DEF NextPending, Reconnected, Shutdown, AgentAnswers, Deliver, TurnStarted, TurnCompleted,
          inputState, vars, history
  <2>2. (Handling(e)' <=> Handling(e)) /\ (Resuming(e)' <=> Resuming(e))
    BY <2>1 DEF Handling, Resuming, Doing
  <2>3. event'[e] \in {event[e], "rejected"}
    <3>1. CASE \E f \in Inputs : Deliver(f)
      BY <1>0, <3>1 DEF Deliver, EventsTyped
    <3>2. CASE UNCHANGED event
      BY <3>2
    <3> QED BY <1>11, <3>1, <3>2 DEF NextPending, Reconnected, Shutdown, AgentAnswers, TurnStarted,
          TurnCompleted, store, vars
  <2> QED BY <1>a, <2>1, <2>2, <2>3 DEF NeverSent
<1>12. CASE WorkerPanics \/ AbortWorker \/ FenceOwned
  <2>1. /\ UNCHANGED <<owned, doomed>> /\ phase' # "up" /\ (op' = None \/ op' = op)
        /\ \E es : event' = Fence(event, es) \/ event' = event
    BY <1>12 DEF WorkerPanics, AbortWorker, FenceOwned, Fenced, EndOp, inputState, history
  <2>2. event'[e] \in {event[e], "uncertain"}
    BY <1>0, <2>1 DEF Fence
  <2>3. (Handling(e)' => Handling(e)) /\ (Resuming(e)' => Resuming(e) /\ op' = op)
    BY <1>0, <2>1 DEF Handling, Resuming, Doing
  <2> QED BY <1>a, <2>1, <2>2, <2>3 DEF NeverSent
<1>13. CASE \E s \in Sessions : TurnStarted(s) \/ TurnCompleted(s) \/ SessionExited(s)
  BY <1>4, <1>11, <1>13
<1> QED BY <1>1, <1>2, <1>3, <1>4, <1>5, <1>6, <1>7, <1>8, <1>9, <1>10, <1>11, <1>12, <1>13
        DEF Next, Progress, Operate

\* No follow-up that waited when the user stopped its session is ever sent.
THEOREM StopCancelsHolds == Spec => StopCancels
<1>1. Init => Doomed
  BY DEF Init, Doomed
<1>2. Doomed /\ Carried /\ [Next]_vars => Doomed'
  BY DoomedStep
<1>3. Doomed /\ Carried /\ [Next]_vars => [\A e \in doomed : ~Sends(e)]_vars
  <2> SUFFICES ASSUME Doomed, Carried, [Next]_vars, NEW e \in doomed, Sends(e) PROVE FALSE
    OBVIOUS
  <2>1. e \in Inputs
    BY DEF Carried, HistoryOK
  <2>2. e = op.input /\ op # None /\ op.from \in {"inbound", "queued"} /\ op.step = "handle"
    BY <2>1, SendsOnly
  <2> QED BY <2>2 DEF Doomed, NeverSent, Handling, Resuming, Doing
<1> QED BY <1>1, <1>2, <1>3, CarriedInit, CarriedStep, PTL DEF Spec, StopCancels

----------------------------------------------------------------------------
(* Stopped starts *)

\* Nothing is dated later than now.
Dates ==
    \A e \in Inputs :
        /\ rpc[e].generation <= generation
        /\ owned[e] # None => owned[e].epoch <= epoch /\ owned[e].generation <= generation

\* A start that was stopped is still pending and knows of the stop.
StopsHeld == \A e \in stopped : \E s \in Sessions : Start(s, e) /\ pending[s].stop

\* While a prompt is being sent nothing is pending in its session, and while it may
\* still become a start no turn is known there.
Sending ==
    op # None /\ op.step \in {"window", "await"} =>
        /\ pending[rpc[op.input].session] = None
        /\ op.step = "window" => active[rpc[op.input].session] = None

\* The turn that a start was told to be, p, and whether it was stopped.
Told(p, current, turn, running, over, asked) ==
    /\ p.applied /\ p.observed = None => ~current
    /\ current /\ turn # None => p.observed # None
    /\ p.valid /\ p.observed # None =>
          p.observed \in over \/ (running = p.observed /\ turn = p.observed)
    /\ p.valid /\ p.applied /\ p.observed # None => p.observed \in asked \cup over
Turns ==
    \A s \in Sessions :
        pending[s] # None => Told(pending[s], Current(s), active[s], live[s], ended, stops)

Latched == Dates /\ StopsHeld /\ Sending /\ Turns

\* The epoch and the connection only get newer, and with another session bound the
\* epoch is another.
LEMMA Clock ==
    ASSUME Carried, [Next]_vars
    PROVE  /\ epoch \in Nat /\ epoch' \in {epoch, epoch + 1}
           /\ bound' # bound => epoch' = epoch + 1
           /\ generation \in Nat /\ generation' \in {generation, generation + 1}
<1>0. epoch \in Nat /\ generation \in Nat
  BY DEF Carried, TypeOK
<1>1. CASE \/ Claim \/ TakeQueued \/ SendPrompt \/ DeferPrompt \/ KeepAwaiting \/ Settle
           \/ ApplyAcknowledged \/ StopCurrent \/ Attach \/ Dispatch \/ NextPending
  BY <1>0, <1>1 DEF Claim, TakeQueued, SendPrompt, DeferPrompt, KeepAwaiting, Settle,
        ApplyAcknowledged, StopCurrent, Attach, Dispatch, NextPending, store, agent
<1>2. CASE \/ FenceOwned \/ AbortWorker \/ WorkerPanics \/ Exit \/ Crash \/ Restart \/ Shutdown
           \/ Reconnected \/ UNCHANGED vars
  BY <1>0, <1>2 DEF FenceOwned, AbortWorker, WorkerPanics, Exit, Crash, Restart, Shutdown,
        Reconnected, LoseMemory, store, agent, vars
<1>3. CASE Attached
  BY <1>0, <1>3 DEF Attached, agent
<1>4. ASSUME NEW s \in Sessions, TurnStarted(s) \/ TurnCompleted(s) \/ SessionExited(s)
      PROVE  /\ epoch' \in {epoch, epoch + 1} /\ generation' = generation
             /\ bound' # bound => epoch' = epoch + 1
  BY <1>0, <1>4 DEF TurnStarted, TurnCompleted, SessionExited, store
<1>5. ASSUME NEW e \in Inputs, Deliver(e) \/ AgentAnswers(e)
      PROVE  UNCHANGED <<epoch, bound, generation>>
  BY <1>5 DEF Deliver, AgentAnswers, store, agent
<1> QED BY <1>0, <1>1, <1>2, <1>3, <1>4, <1>5 DEF Next, Progress, Operate

\* What is not held back and what does not wait, cancelling and finishing leave alone.
LEMMA Untouched ==
    ASSUME NEW own \in OwnedTable, NEW e \in Inputs, own[e] # None, ~own[e].queued, ~own[e].reattach
    PROVE  /\ \A es : CancelQueued(own, es)[e] = own[e]
           /\ \A x : FinishedReattachment(own, x)[e] = own[e]
BY DEF CancelQueued, FinishedReattachment, Reattaching

\* Which steps change what is kept of the inputs when a session is left.
LEMMA Rebindings ==
    ASSUME Carried, StopCurrent \/ Attach \/ Attached \/ \E s \in Sessions : SessionExited(s)
    PROVE  \E s : \/ owned' \in {owned, CancelSession(owned, s)}
                  \/ owned' \in {FinishedReattachment(owned, None),
                                 CancelSession(FinishedReattachment(owned, None), s)}
                  \/ /\ Attached /\ epoch' = epoch + 1
                     /\ \E x \in {None, epoch'} :
                           owned' = FinishedReattachment(CancelQueued(owned, Inputs), x)
<1>1. CASE StopCurrent
  BY <1>1 DEF StopCurrent
<1>2. CASE Attach
  BY <1>2 DEF Attach
<1>3. CASE Attached
  BY <1>3 DEF Attached
<1>4. CASE \E s \in Sessions : SessionExited(s)
  BY <1>4 DEF SessionExited
<1> QED BY <1>1, <1>2, <1>3, <1>4

\* Two entries of the same input that agree on its age and connection.
SameAge(x, y) == y # None /\ y.seq = x.seq /\ y.generation = x.generation

\* Cancelling does not date an input anew,
LEMMA CancelDates ==
    ASSUME NEW own \in OwnedTable, NEW es, NEW e \in Inputs, own[e] # None
    PROVE  LET y == CancelQueued(own, es)[e]
           IN  SameAge(own[e], y) /\ y.epoch = own[e].epoch /\ y.reattach = own[e].reattach
<1>1. own[e] \in QueuedInput
  BY DEF OwnedTable
<1>2. LET y == [own[e] EXCEPT !.cancelled = TRUE]
      IN  SameAge(own[e], y) /\ y.epoch = own[e].epoch /\ y.reattach = own[e].reattach
  <2>1. [own[e] EXCEPT !.cancelled = TRUE] \in QueuedInput
    BY <1>1 DEF QueuedInput
  <2>2. [own[e] EXCEPT !.cancelled = TRUE] # None
    BY <2>1, NoneIsNothing
  <2> QED BY <1>1, <2>1, <2>2 DEF QueuedInput, SameAge
<1>3. CancelQueued(own, es)[e] \in {own[e], [own[e] EXCEPT !.cancelled = TRUE]}
  BY DEF CancelQueued
<1> QED BY <1>2, <1>3 DEF SameAge

\* and the end of an attachment dates only what it held back.
LEMMA FinishDates ==
    ASSUME NEW own \in OwnedTable, NEW x \in Nat \cup {None}, NEW e \in Inputs, own[e] # None
    PROVE  LET y == FinishedReattachment(own, x)[e]
           IN  /\ SameAge(own[e], y)
               /\ y.epoch = IF own[e].reattach /\ x # None THEN x ELSE own[e].epoch
<1> PICK y : y = FinishedReattachment(own, x)[e]
  OBVIOUS
<1>1. own[e] \in QueuedInput
  BY DEF OwnedTable
<1>2. y # None
  BY Finishes
<1>3. CASE ~own[e].reattach
  BY <1>2, <1>3 DEF FinishedReattachment, Reattaching, SameAge
<1>4. CASE own[e].reattach /\ x = None
  <2>1. y = [own[e] EXCEPT !.reattach = FALSE, !.cancelled = TRUE]
    BY <1>4 DEF FinishedReattachment, Reattaching
  <2> QED BY <1>1, <1>2, <1>4, <2>1 DEF SameAge, QueuedInput
<1>5. CASE own[e].reattach /\ x # None
  <2>1. y = [own[e] EXCEPT !.reattach = FALSE, !.epoch = x]
    BY <1>5 DEF FinishedReattachment, Reattaching
  <2> QED BY <1>1, <1>2, <1>5, <2>1 DEF SameAge, QueuedInput
<1> QED BY <1>3, <1>4, <1>5

\* Leaving a session dates nothing anew but what was held back for the attachment.
LEMMA Redated ==
    ASSUME Carried, StopCurrent \/ Attach \/ Attached \/ \E s \in Sessions : SessionExited(s),
           NEW e \in Inputs, owned[e] # None
    PROVE  /\ SameAge(owned[e], owned'[e])
           /\ \/ owned'[e].epoch = owned[e].epoch
              \/ owned[e].reattach /\ Attached /\ epoch' = epoch + 1 /\ owned'[e].epoch = epoch'
           /\ ~owned[e].queued => owned'[e] = owned[e]
<1> DEFINE shut == FinishedReattachment(owned, None)
           spare == CancelQueued(owned, Inputs)
<1>1. /\ owned \in OwnedTable /\ owned[e] \in QueuedInput
      /\ owned[e].reattach => owned[e].queued
  BY DEF Carried, TypeOK, OwnedTable, Reattachments
<1>2. PICK x \in Nat \cup {None} : x = None
  OBVIOUS
<1>3. /\ shut \in OwnedTable /\ SameAge(owned[e], shut[e]) /\ shut[e].epoch = owned[e].epoch
  BY <1>1, <1>2, Finishes, FinishDates
<1>4. /\ spare \in OwnedTable /\ SameAge(owned[e], spare[e])
      /\ spare[e].epoch = owned[e].epoch /\ spare[e].reattach = owned[e].reattach
  BY <1>1, Cancels, CancelDates
<1>5. ASSUME ~owned[e].queued PROVE shut[e] = owned[e] /\ spare[e] = owned[e]
  BY <1>1, <1>5, Untouched
<1>6. PICK s : \/ owned' \in {owned, CancelSession(owned, s)}
               \/ owned' \in {shut, CancelSession(shut, s)}
               \/ /\ Attached /\ epoch' = epoch + 1
                  /\ \E y \in {None, epoch'} : owned' = FinishedReattachment(spare, y)
  BY Rebindings
<1>7. ASSUME NEW own \in {owned, shut}, owned' \in {own, CancelSession(own, s)}
      PROVE  /\ SameAge(owned[e], owned'[e]) /\ owned'[e].epoch = owned[e].epoch
             /\ ~owned[e].queued => owned'[e] = owned[e]
  <2>1. /\ own \in OwnedTable /\ SameAge(owned[e], own[e]) /\ own[e].epoch = owned[e].epoch
        /\ ~owned[e].queued => own[e] = owned[e]
    BY <1>1, <1>3, <1>5, <1>7 DEF SameAge
  <2>2. own[e] # None
    BY <2>1 DEF SameAge
  <2> HIDE DEF shut
  <2>3. LET y == CancelSession(own, s)[e]
        IN  SameAge(own[e], y) /\ y.epoch = own[e].epoch
    BY <2>1, <2>2, CancelDates DEF CancelSession
  <2>4. ~owned[e].queued => CancelSession(own, s)[e] = own[e]
    BY <1>1, <2>1, <2>2, Untouched DEF CancelSession
  <2> QED BY <1>7, <2>1, <2>3, <2>4 DEF SameAge
<1>8. ASSUME Attached, NEW y \in {None, epoch'}, owned' = FinishedReattachment(spare, y), epoch' = epoch + 1
      PROVE  /\ SameAge(owned[e], owned'[e])
             /\ owned'[e].epoch = owned[e].epoch \/ (owned[e].reattach /\ owned'[e].epoch = epoch')
             /\ ~owned[e].queued => owned'[e] = owned[e]
  <2>1. y \in Nat \cup {None} /\ spare[e] # None
    BY <1>4, <1>8 DEF Carried, TypeOK, SameAge
  <2> HIDE DEF spare
  <2>2. /\ SameAge(spare[e], owned'[e])
        /\ owned'[e].epoch = IF spare[e].reattach /\ y # None THEN y ELSE spare[e].epoch
    BY <1>4, <1>8, <2>1, FinishDates
  <2>3. ~owned[e].queued => owned'[e] = owned[e]
    BY <1>1, <1>4, <1>5, <1>8, <2>1, Untouched
  <2> QED BY <1>4, <1>8, <2>2, <2>3 DEF SameAge
<1> QED BY <1>6, <1>7, <1>8

----------------------------------------------------------------------------
\* A start that stays keeps its entry.
LEMMA StartStays ==
    ASSUME Carried, [Next]_vars, NEW s \in Sessions, pending[s] # None, pending'[s] # None
    PROVE  LET e == pending[s].input
           IN  /\ e \in Inputs /\ Start(s, e) /\ pending'[s].input = e
               /\ owned[e] # None /\ ~owned[e].queued /\ owned'[e] = owned[e]
<1> PICK e : e = pending[s].input
  OBVIOUS
<1>1. pending \in [Sessions -> Pending \cup {None}] /\ owned \in OwnedTable
  BY DEF Carried, TypeOK, OwnedTable
<1>2. e \in Inputs /\ Start(s, e)
  BY <1>1 DEF Pending, Start
<1>3. owned[e] # None /\ ~owned[e].queued
  BY <1>2 DEF Carried, Placement, StartsSound
<1> DEFINE Good == Start(s, e)' /\ owned'[e] = owned[e]
<1>4. SUFFICES Good
  BY <1>2, <1>3 DEF Start
<1>5. CASE UNCHANGED <<pending, owned>>
  BY <1>2, <1>5 DEF Start
<1>6. CASE TakeQueued \/ Settle
  <2>1. op # None /\ (op.from = "queued" \/ (op.from = "inbound" /\ op.step # "begin"))
    BY <1>6 DEF TakeQueued, Settle, At, Outcome, Answers
  <2>2. op.input # e
    BY <1>2, <2>1, Elsewhere
  <2>3. UNCHANGED pending /\ (owned' = owned \/ \E es \in SUBSET {op.input} : owned' = Forget(owned, es))
    BY <1>6 DEF TakeQueued, Settle
  <2> QED BY <1>1, <1>2, <2>2, <2>3 DEF Forget, Start
<1>7. CASE SendPrompt
  <2>1. op # None /\ op.step = "handle" /\ op.from \in {"inbound", "queued"}
    BY <1>7 DEF SendPrompt, At
  <2>2. op.input # e /\ op.input \in Inputs
    BY <1>2, <2>1, Elsewhere
  <2>3. \/ UNCHANGED <<pending, owned>>
        \/ \E r, b : QueueWaiting(op.input, r, b)
    BY <1>7 DEF SendPrompt
  <2>4. ASSUME NEW r, NEW b, QueueWaiting(op.input, r, b), owned' # owned
        PROVE  Good
    <3>1. \E x : owned' = [owned EXCEPT ![op.input] = x]
      BY <2>4 DEF QueueWaiting
    <3>2. owned'[e] = owned[e]
      BY <1>1, <2>2, <3>1 DEF OwnedTable
    <3>3. \/ pending' = pending
          \/ \E q : pending' = [pending EXCEPT ![r] = [pending[r] EXCEPT !.queued = q]]
      BY <2>4 DEF QueueWaiting
    <3>4. Start(s, e)'
      BY <1>1, <1>2, <3>3 DEF Start, Pending
    <3> QED BY <3>2, <3>4
  <2>5. ASSUME NEW r, NEW b, QueueWaiting(op.input, r, b), owned' = owned
        PROVE  Good
    <3>1. \/ pending' = pending
          \/ \E q : pending' = [pending EXCEPT ![r] = [pending[r] EXCEPT !.queued = q]]
      BY <2>5 DEF QueueWaiting
    <3> QED BY <1>1, <1>2, <2>5, <3>1 DEF Start, Pending
  <2> QED BY <1>5, <2>3, <2>4, <2>5
<1>8. CASE DeferPrompt
  <2>1. op # None /\ op.step = "window" /\ op.from \in {"inbound", "queued"}
    BY <1>8 DEF DeferPrompt, At
  <2>2. op.input # e /\ op.input \in Inputs
    BY <1>2, <2>1, Elsewhere
  <2>3. /\ pending[rpc[op.input].session] = None
        /\ \E x : owned' = [owned EXCEPT ![op.input] = x]
        /\ \E x : pending' = [pending EXCEPT ![rpc[op.input].session] = x]
    BY <1>8 DEF DeferPrompt, Room
  <2>4. s # rpc[op.input].session
    BY <1>2, <2>3 DEF Start
  <2> QED BY <1>1, <1>2, <2>2, <2>3, <2>4 DEF OwnedTable, Start
<1>9. CASE ApplyAcknowledged
  <2>1. op # None /\ op.from = "ack"
    BY <1>9 DEF ApplyAcknowledged, At
  <2>2. PICK r \in Sessions, i \in Inputs : r = rpc[op.input].session /\ i = op.input /\ Start(r, i)
    BY <2>1, Acknowledges DEF Carried
  <2>3. /\ pending' = [pending EXCEPT ![r] = None]
        /\ \/ UNCHANGED owned
           \/ \E es \in SUBSET SeqRange(pending[r].queued) : owned' = Forget(owned, {i} \cup es)
    BY <1>9, <2>2 DEF ApplyAcknowledged
  <2>4. r # s
    BY <1>1, <2>3
  <2>5. i # e
    BY <1>2, <2>2, <2>4 DEF Carried, Placement, StartsSound
  <2>6. e \notin SeqRange(pending[r].queued)
    BY <1>2, <1>3, <2>2 DEF Carried, Placement, BehindSound, Behind, Free, Start
  <2>7. owned'[e] = owned[e]
    BY <1>1, <1>2, <2>3, <2>5, <2>6 DEF Forget
  <2> QED BY <1>1, <1>2, <2>3, <2>4, <2>7 DEF Start
<1>10. CASE StopCurrent \/ Attach \/ Attached \/ \E r \in Sessions : SessionExited(r)
  <2>1. owned'[e] = owned[e]
    BY <1>2, <1>3, <1>10, Redated
  <2>2. SameStart(pending[s], pending'[s])
    BY <1>10, StartsLeft
  <2> QED BY <1>2, <2>1, <2>2 DEF SameStart, Start
<1>11. CASE \E r \in Sessions : TurnStarted(r) \/ TurnCompleted(r)
  <2>1. UNCHANGED owned
    BY <1>11 DEF TurnStarted, TurnCompleted, inputState
  <2>2. SameStart(pending[s], pending'[s])
    BY <1>11, StartNamed DEF TurnCompleted, inputState, SameStart, Carried
  <2> QED BY <1>2, <2>1, <2>2 DEF SameStart, Start
<1>12. CASE Exit \/ Crash
  BY <1>12 DEF Exit, Crash, LoseMemory
<1>13. CASE \/ Claim \/ KeepAwaiting \/ Dispatch \/ NextPending
            \/ FenceOwned \/ AbortWorker \/ WorkerPanics \/ Restart \/ Shutdown
            \/ Reconnected \/ UNCHANGED vars
            \/ \E f \in Inputs : Deliver(f) \/ AgentAnswers(f)
  <2>1. UNCHANGED <<pending, owned>>
    BY <1>13 DEF Claim, KeepAwaiting, Dispatch, NextPending,
          FenceOwned, AbortWorker, WorkerPanics, Restart, Shutdown, Reconnected, vars, inputState,
          Deliver, AgentAnswers
  <2> QED BY <1>5, <2>1
<1> QED BY <1>6, <1>7, <1>8, <1>9, <1>10, <1>11, <1>12, <1>13 DEF Next, Progress, Operate

\* A start that is not current any more never becomes current again.
LEMMA CurrentStays ==
    ASSUME Carried, [Next]_vars, Dates, NEW s \in Sessions, pending[s] # None, pending'[s] # None,
           pending'[s].valid => pending[s].valid
    PROVE  Current(s)' => Current(s)
<1>1. PICK e : e = pending[s].input
  OBVIOUS
<1>2. e \in Inputs /\ pending'[s].input = e /\ owned[e] # None /\ owned'[e] = owned[e]
  BY <1>1, StartStays
<1>3. owned[e].epoch <= epoch /\ owned[e].generation <= generation
  BY <1>2 DEF Dates
<1>4. owned[e].epoch \in Nat /\ owned[e].generation \in Nat
  BY <1>2 DEF Carried, TypeOK, QueuedInput
<1> SUFFICES ASSUME Current(s)' PROVE Current(s)
  OBVIOUS
<1>5. /\ pending'[s].valid /\ owned[e].generation = generation'
      /\ owned[e].epoch = epoch' /\ bound' = s
  BY <1>2 DEF Current
<1>6. generation' = generation /\ epoch' = epoch
  BY <1>3, <1>4, <1>5, Clock
<1>7. bound' = bound
  BY <1>6, Clock
<1> QED BY <1>1, <1>5, <1>6, <1>7 DEF Current

\* What a step leaves of the turn of a start, and of the session that runs it.
LEMMA TurnKept ==
    ASSUME Carried, [Next]_vars, Dates, Turns, NEW s \in Sessions, pending[s] # None, pending'[s] # None,
           pending'[s].observed = pending[s].observed, pending'[s].applied = pending[s].applied,
           pending'[s].valid => pending[s].valid,
           active'[s] = active[s] \/ (~pending'[s].valid /\ active'[s] = None),
           live'[s] = live[s] \/ live[s] = None \/ ~pending'[s].valid,
           ended \subseteq ended', stops \subseteq stops'
    PROVE  Told(pending[s], Current(s), active[s], live[s], ended, stops)'
<1>1. Told(pending[s], Current(s), active[s], live[s], ended, stops)
  BY DEF Turns
<1>2. Current(s)' => Current(s)
  BY CurrentStays
<1>3. Current(s)' => pending'[s].valid
  BY DEF Current
<1> QED BY <1>1, <1>2, <1>3 DEF Told

\* The steps that change the start of a session, or what is known of its turn.
LEMMA TurnStartedTold ==
    ASSUME Carried, Dates, Turns, NEW s \in Sessions, TurnStarted(s), pending'[s] # None
    PROVE  Told(pending[s], Current(s), active[s], live[s], ended, stops)'
<1>1. pending[s] # None /\ pending[s] \in Pending
  BY DEF TurnStarted, Carried, TypeOK
<1> DEFINE adopt == Current(s) /\ pending[s].observed \in {None, live[s]}
           take == pending[s].valid /\ pending[s].stop /\ ~pending[s].applied
<1>2. /\ live[s] # None /\ active[s] # live[s]
      /\ active'[s] = live[s] /\ live' = live /\ ended' = ended
      /\ stops' = IF take THEN stops \cup {live[s]} ELSE stops
  BY <1>1 DEF TurnStarted, Carried, TypeOK
<1>3. /\ pending'[s].observed = IF adopt THEN live[s] ELSE pending[s].observed
      /\ pending'[s].applied = (pending[s].applied \/ take)
      /\ pending'[s].valid = pending[s].valid
  <2>1. pending' = [pending EXCEPT ![s] =
                      [pending[s] EXCEPT
                          !.observed = IF adopt THEN live[s] ELSE pending[s].observed,
                          !.applied = pending[s].applied \/ take]]
    BY <1>1 DEF TurnStarted
  <2> HIDE DEF adopt, take
  <2> QED BY <1>1, <2>1 DEF Carried, TypeOK, Pending
<1>4. Current(s)' => Current(s)
  <2>1. [Next]_vars
    BY DEF Next
  <2> QED BY <1>1, <1>3, <2>1, CurrentStays
<1>5. Told(pending[s], Current(s), active[s], live[s], ended, stops)
  BY <1>1 DEF Turns
<1>6. Current(s) => pending[s].valid
  BY DEF Current
<1> QED BY <1>2, <1>3, <1>4, <1>5, <1>6 DEF Told

\* A stop of the start of the conversation's session.
LEMMA StopTold ==
    ASSUME Carried, Dates, Turns, StopCurrent, NEW s \in Sessions, s = bound, pending'[s] # None
    PROVE  Told(pending[s], Current(s), active[s], live[s], ended, stops)'
<1>0. UNCHANGED <<active, ended, live>> /\ [Next]_vars
  BY DEF StopCurrent, turnState, Next, Progress, Operate
<1>1. pending[s] # None /\ pending[s] \in Pending
  <2>1. SameStart(pending[s], pending'[s])
    BY StartsLeft
  <2> QED BY <2>1 DEF SameStart, Carried, TypeOK
<1> DEFINE turn == KnownTurn(s)
           take == turn # None /\ turn \notin ended
<1>2. \/ pending' = pending /\ stops' = stops
      \/ /\ pending' = StopRequested(s, take)
         /\ stops' = IF take THEN stops \cup {turn} ELSE stops
  BY <1>1 DEF StopCurrent
<1>3. Told(pending[s], Current(s), active[s], live[s], ended, stops)
  BY <1>1 DEF Turns
<1>4. CASE pending' = pending /\ stops' = stops
  BY <1>0, <1>1, <1>4, TurnKept
<1>5. CASE pending' = StopRequested(s, take) /\ stops' = IF take THEN stops \cup {turn} ELSE stops
  <2>1. /\ pending'[s].observed = pending[s].observed /\ pending'[s].valid = pending[s].valid
        /\ pending'[s].applied = (pending[s].applied \/ (take /\ pending[s].valid))
    <3> HIDE DEF take
    <3> QED BY <1>1, <1>5 DEF StopRequested, Carried, TypeOK, Pending
  <2>2. Current(s)' => Current(s)
    BY <1>0, <1>1, <2>1, CurrentStays
  <2>3. Current(s) => pending[s].valid
    BY DEF Current
  <2>4. pending[s].valid => turn = IF active[s] # None THEN active[s] ELSE pending[s].observed
    BY <1>1 DEF KnownTurn
  <2> HIDE DEF turn
  <2> QED BY <1>0, <1>3, <1>5, <2>1, <2>2, <2>3, <2>4 DEF Told
<1> QED BY <1>2, <1>4, <1>5

\* Every step keeps what starts were told.
LEMMA TurnsStep ==
    ASSUME Carried, [Next]_vars, Dates, Turns, Sending PROVE Turns'
<1> SUFFICES ASSUME NEW s \in Sessions, pending'[s] # None
             PROVE  Told(pending[s], Current(s), active[s], live[s], ended, stops)'
  BY DEF Turns
<1> DEFINE Good == Told(pending[s], Current(s), active[s], live[s], ended, stops)'
<1>0. /\ pending \in [Sessions -> Pending \cup {None}]
      /\ active \in [Sessions -> Inputs \cup {None}] /\ live \in [Sessions -> Inputs \cup {None}]
  BY DEF Carried, TypeOK
<1>1. ASSUME pending' = pending, active'[s] = active[s], ended \subseteq ended', stops \subseteq stops',
             live'[s] = live[s] \/ live[s] = None
      PROVE  Good
  BY <1>1, TurnKept
<1>2. CASE UNCHANGED <<pending, turnState, live, stops>>
  BY <1>1, <1>2 DEF turnState
<1>3. CASE SendPrompt
  <2>1. UNCHANGED <<active, ended, live, stops>>
    BY <1>3 DEF SendPrompt, turnState
  <2>2. \/ pending' = pending
        \/ \E r, q : pending[r] # None /\ pending' = [pending EXCEPT ![r] = [pending[r] EXCEPT !.queued = q]]
    <3>1. UNCHANGED pending \/ \E r, b : QueueWaiting(op.input, r, b)
      BY <1>3 DEF SendPrompt
    <3> QED BY <3>1 DEF QueueWaiting
  <2>3. ASSUME NEW r, NEW q, pending[r] # None, pending' = [pending EXCEPT ![r] = [pending[r] EXCEPT !.queued = q]]
        PROVE  Good
    <3>1. pending[s] # None
      BY <1>0, <2>3
    <3>2. pending[s] \in Pending
      BY <1>0, <3>1
    <3>3. /\ pending'[s].observed = pending[s].observed
          /\ pending'[s].applied = pending[s].applied /\ pending'[s].valid = pending[s].valid
      BY <1>0, <2>3, <3>1, <3>2 DEF Pending
    <3> QED BY <2>1, <3>1, <3>3, TurnKept
  <2> QED BY <1>1, <2>1, <2>2, <2>3
<1>4. CASE DeferPrompt
  <2>1. PICK r : r = rpc[op.input].session
    OBVIOUS
  <2>2. /\ UNCHANGED <<active, ended, live, stops>>
        /\ pending' = [pending EXCEPT ![r] =
                 [input |-> op.input, stop |-> FALSE, applied |-> FALSE, valid |-> TRUE,
                  observed |-> None, queued |-> <<>>]]
        /\ active[r] = None
    BY <1>4, <2>1 DEF DeferPrompt, turnState, agent, Sending, At
  <2>3. CASE r = s
    <3>1. /\ ~pending'[s].applied /\ pending'[s].observed = None /\ active'[s] = None
      BY <1>0, <2>2, <2>3
    <3> QED BY <3>1 DEF Told
  <2>4. CASE r # s
    BY <1>0, <2>2, <2>4, TurnKept
  <2> QED BY <2>3, <2>4
<1>5. CASE Settle
  <2>1. UNCHANGED <<pending, ended, live, stops>>
    BY <1>5 DEF Settle
  <2>2. \/ active' = active
        \/ /\ op # None /\ op.step \in {"window", "await"}
           /\ active' = [active EXCEPT ![rpc[op.input].session] = rpc[op.input].turn]
    BY <1>5 DEF Settle, Outcome
  <2>3. CASE active' = active
    BY <1>1, <2>1, <2>3
  <2>4. CASE active' # active
    <3>1. pending[rpc[op.input].session] = None
      BY <2>2, <2>4 DEF Sending
    <3>2. rpc[op.input].session # s
      BY <2>1, <3>1
    <3>3. active'[s] = active[s]
      BY <1>0, <2>2, <2>4, <3>2
    <3> QED BY <1>1, <2>1, <3>3
  <2> QED BY <2>3, <2>4
<1>6. CASE ApplyAcknowledged
  <2>1. PICK r : r = rpc[op.input].session
    OBVIOUS
  <2>2. /\ pending' = [pending EXCEPT ![r] = None] /\ UNCHANGED <<ended, live>>
        /\ stops \subseteq stops'
        /\ active' = active \/ active' = [active EXCEPT ![r] = rpc[op.input].turn]
    BY <1>6, <2>1 DEF ApplyAcknowledged
  <2>3. r # s
    BY <1>0, <2>2
  <2> QED BY <1>0, <2>2, <2>3, TurnKept
<1>7. CASE StopCurrent
  <2>1. CASE s = bound
    BY <1>7, <2>1, StopTold
  <2>2. CASE s # bound
    <3>1. /\ pending'[s] = pending[s] /\ UNCHANGED <<active, ended, live>>
          /\ stops \subseteq stops'
      <4>1. UNCHANGED <<active, ended, live>> /\ stops \subseteq stops'
        BY <1>7 DEF StopCurrent, turnState
      <4>2. pending' = pending \/ \E b : pending' = StopRequested(bound, b)
        BY <1>7 DEF StopCurrent
      <4> QED BY <1>0, <2>2, <4>1, <4>2 DEF StopRequested
    <3> QED BY <1>0, <3>1, TurnKept
  <2> QED BY <2>1, <2>2
<1>8. ASSUME NEW r \in Sessions, TurnStarted(r) PROVE Good
  <2>1. CASE r = s
    BY <1>8, <2>1, TurnStartedTold
  <2>2. CASE r # s
    <3>1. /\ pending'[s] = pending[s] /\ active'[s] = active[s] /\ UNCHANGED <<ended, live>>
          /\ stops \subseteq stops'
      <4>1. /\ UNCHANGED <<ended, live>> /\ stops \subseteq stops'
            /\ active' = [active EXCEPT ![r] = live[r]]
            /\ pending' = pending \/ \E x : pending' = [pending EXCEPT ![r] = x]
        BY <1>8 DEF TurnStarted
      <4> QED BY <1>0, <2>2, <4>1
    <3> QED BY <3>1, TurnKept
  <2> QED BY <2>1, <2>2
<1>9. ASSUME NEW r \in Sessions, TurnCompleted(r) PROVE Good
  <2>1. /\ UNCHANGED <<pending, stops>> /\ live[r] # None
        /\ ended' = ended \cup {live[r]}
        /\ active' = [active EXCEPT ![r] = IF @ = live[r] THEN None ELSE @]
        /\ live' = [live EXCEPT ![r] = None]
    BY <1>9 DEF TurnCompleted, inputState
  <2>2. CASE r # s
    BY <1>0, <1>1, <2>1, <2>2
  <2>3. CASE r = s
    <3>1. /\ active'[s] = active[s] \/ active'[s] = None
      BY <1>0, <2>1, <2>3
    <3>2. Told(pending[s], Current(s), active[s], live[s], ended, stops)
      BY <2>1 DEF Turns
    <3>3. Current(s)' => Current(s)
      BY <2>1, CurrentStays
    <3> QED BY <2>1, <2>3, <3>1, <3>2, <3>3 DEF Told
  <2> QED BY <2>2, <2>3
<1>10. ASSUME NEW r \in Sessions, SessionExited(r) PROVE Good
  <2>1. /\ UNCHANGED <<ended, stops>>
        /\ pending' = IF pending[r] = None THEN pending ELSE [pending EXCEPT ![r].valid = FALSE]
        /\ active' = [active EXCEPT ![r] = None] /\ live' = [live EXCEPT ![r] = None]
    BY <1>10 DEF SessionExited
  <2>2. pending[s] # None /\ pending[s] \in Pending
    BY <1>0, <2>1
  <2>3. CASE r # s
    <3>1. pending'[s] = pending[s] /\ active'[s] = active[s] /\ live'[s] = live[s]
      BY <1>0, <2>1, <2>3
    <3> QED BY <2>1, <2>2, <3>1, TurnKept
  <2>4. CASE r = s
    <3>1. /\ pending'[s].observed = pending[s].observed /\ pending'[s].applied = pending[s].applied
          /\ ~pending'[s].valid /\ active'[s] = None /\ live'[s] = None
      BY <1>0, <2>1, <2>2, <2>4 DEF Pending
    <3> QED BY <2>1, <2>2, <3>1, TurnKept
  <2> QED BY <2>3, <2>4
<1>11. ASSUME NEW e \in Inputs, AgentAnswers(e) PROVE Good
  <2>1. /\ UNCHANGED <<pending, active, ended, stops>>
        /\ live' = live \/ live' = [live EXCEPT ![rpc[e].session] =
                              IF live[rpc[e].session] = None THEN e ELSE live[rpc[e].session]]
    BY <1>11 DEF AgentAnswers, inputState, turnState
  <2>2. live'[s] = live[s] \/ live[s] = None
    BY <1>0, <2>1
  <2> QED BY <1>1, <2>1, <2>2
<1>12. CASE Exit \/ Crash
  BY <1>12 DEF Exit, Crash, LoseMemory
<1>13. CASE Restart
  BY <1>13 DEF Restart, inputState, Carried, Memory
<1>14. CASE \/ Claim \/ TakeQueued \/ KeepAwaiting \/ Dispatch \/ NextPending \/ Attach \/ Attached
            \/ FenceOwned \/ AbortWorker \/ WorkerPanics \/ Shutdown \/ Reconnected \/ UNCHANGED vars
            \/ \E e \in Inputs : Deliver(e)
  BY <1>2, <1>14 DEF Claim, TakeQueued, KeepAwaiting, Dispatch, NextPending, Attach, Attached,
        FenceOwned, AbortWorker, WorkerPanics, Shutdown, Reconnected, vars, Deliver,
        agent, inputState
<1> QED BY <1>3, <1>4, <1>5, <1>6, <1>7, <1>8, <1>9, <1>10, <1>11, <1>12, <1>13, <1>14
        DEF Next, Progress, Operate

\* Every step keeps the session of a prompt being sent clear.
LEMMA SendingStep ==
    ASSUME Carried, [Next]_vars, Sending PROVE Sending'
<1> SUFFICES ASSUME op' # None, op'.step \in {"window", "await"}
             PROVE  /\ pending'[rpc'[op'.input].session] = None
                    /\ op'.step = "window" => active'[rpc'[op'.input].session] = None
  BY DEF Sending
<1>0. /\ op # None => op \in Operation /\ op.input \in Inputs
      /\ active \in [Sessions -> Inputs \cup {None}] /\ rpc \in [Inputs -> Request]
  BY DEF Carried, TypeOK, Operation
<1>1. CASE SendPrompt
  <2>1. op # None /\ op.step = "handle" /\ op \in Operation /\ op.input \in Inputs
    BY <1>0, <1>1 DEF SendPrompt, At
  <2>2. ~(\E r, b : QueueWaiting(op.input, r, b))
    BY <2>1 DEF QueueWaiting, Result, EndOp, Operation
  <2>3. ~(\E r : Result(r))
    BY <2>1 DEF Result, Operation
  <2>4. ~MustWait(bound) /\ Send(op.input, bound) /\ UNCHANGED <<pending, active>>
    BY <1>1, <2>2, <2>3 DEF SendPrompt, turnState
  <2>5. /\ op'.input = op.input /\ rpc'[op.input].session = bound
        /\ op'.step = IF active[bound] # None THEN "await" ELSE "window"
    BY <1>0, <2>1, <2>4 DEF Send, Operation
  <2> QED BY <2>4, <2>5 DEF MustWait
<1>2. CASE KeepAwaiting
  <2>1. /\ op # None /\ op.step = "window" /\ UNCHANGED <<pending, rpc>>
        /\ op' = [op EXCEPT !.step = "await"]
    BY <1>2 DEF KeepAwaiting, At, agent
  <2>2. op'.input = op.input /\ op'.step = "await"
    BY <1>0, <2>1 DEF Operation
  <2> QED BY <2>1, <2>2 DEF Sending
<1>3. CASE \/ Claim \/ TakeQueued \/ StopCurrent \/ Attach
  <2>1. op # None /\ op \in Operation /\ (op' = None \/ op'.step \in {"handle", "settle"})
    BY <1>0, <1>3 DEF Claim, TakeQueued, StopCurrent, Attach, At, EndOp, Result, Operation
  <2> QED BY <2>1
<1>4. CASE Dispatch
  BY <1>4 DEF Dispatch
<1>5. CASE \/ DeferPrompt \/ Settle \/ ApplyAcknowledged \/ AbortWorker \/ WorkerPanics
           \/ Exit \/ Crash
  BY <1>5 DEF DeferPrompt, Settle, ApplyAcknowledged, AbortWorker, WorkerPanics, Exit, Crash,
        EndOp, LoseMemory
<1>6. CASE \/ Attached \/ \E s \in Sessions : TurnStarted(s) \/ TurnCompleted(s) \/ SessionExited(s)
  BY <1>6 DEF Attached, Idle, TurnStarted, TurnCompleted, SessionExited, inputState
<1>7. CASE Restart
  BY <1>7 DEF Restart, Carried, Memory, inputState
<1>8. ASSUME UNCHANGED <<op, pending, active>>, op.input \in Inputs => rpc'[op.input].session = rpc[op.input].session
      PROVE  /\ pending'[rpc'[op'.input].session] = None
             /\ op'.step = "window" => active'[rpc'[op'.input].session] = None
  BY <1>0, <1>8 DEF Sending
<1>9. ASSUME NEW e \in Inputs, AgentAnswers(e)
      PROVE  /\ pending'[rpc'[op'.input].session] = None
             /\ op'.step = "window" => active'[rpc'[op'.input].session] = None
  <2>1. \A f \in Inputs : rpc'[f].session = rpc[f].session
    BY <1>9, Answer DEF Carried
  <2> QED BY <1>8, <1>9, <2>1 DEF AgentAnswers, inputState, turnState
<1>10. CASE \/ NextPending \/ FenceOwned \/ Shutdown \/ Reconnected \/ UNCHANGED vars
            \/ \E e \in Inputs : Deliver(e)
  <2>1. UNCHANGED <<op, pending, active, rpc>>
    BY <1>10 DEF NextPending, FenceOwned, Shutdown, Reconnected, vars, Deliver, inputState, turnState, agent
  <2> QED BY <1>8, <2>1
<1> QED BY <1>1, <1>2, <1>3, <1>4, <1>5, <1>6, <1>7, <1>9, <1>10 DEF Next, Progress, Operate

\* A start that is stopped before its turn is known is kept with the stop until it
\* is acknowledged.
LEMMA StopsHeldStep ==
    ASSUME Carried, [Next]_vars, StopsHeld PROVE StopsHeld'
<1>0. pending \in [Sessions -> Pending \cup {None}]
  BY DEF Carried, TypeOK
<1> DEFINE Good == \A e \in stopped' : \E s \in Sessions : Start(s, e)' /\ pending'[s].stop
<1> SUFFICES Good
  BY DEF StopsHeld
<1>1. ASSUME UNCHANGED <<pending, stopped>> PROVE Good
  BY <1>1 DEF StopsHeld, Start
<1>2. ASSUME stopped' = stopped,
             \A s \in Sessions : pending[s] # None =>
                 /\ pending'[s] # None /\ pending'[s].input = pending[s].input
                 /\ pending[s].stop => pending'[s].stop
      PROVE  Good
  <2> SUFFICES ASSUME NEW e \in stopped PROVE \E s \in Sessions : Start(s, e)' /\ pending'[s].stop
    BY <1>2
  <2>1. PICK s \in Sessions : Start(s, e) /\ pending[s].stop
    BY DEF StopsHeld
  <2> QED BY <1>2, <2>1 DEF Start
<1>3. CASE SendPrompt
  <2>1. stopped' = stopped /\ op.input \in Inputs
    BY <1>3 DEF SendPrompt, At, history, Carried, TypeOK, Operation
  <2>2. CASE pending' = pending
    BY <1>1, <2>1, <2>2
  <2>3. CASE pending' # pending
    <3>1. PICK r, b : QueueWaiting(op.input, r, b)
      BY <1>3, <2>3 DEF SendPrompt
    <3>2. PICK q : q = InsertByAge(pending[r].queued, op.input, owned')
      OBVIOUS
    <3>3. pending[r] # None /\ pending' = [pending EXCEPT ![r] = [pending[r] EXCEPT !.queued = q]]
      BY <2>3, <3>1, <3>2 DEF QueueWaiting
    <3>4. ASSUME NEW s \in Sessions, pending[s] # None
          PROVE  /\ pending'[s] # None /\ pending'[s].input = pending[s].input
                 /\ pending[s].stop => pending'[s].stop
      <4>1. CASE s # r
        BY <1>0, <3>3, <3>4, <4>1
      <4>2. CASE s = r
        <5>1. pending[s] \in Pending
          BY <1>0, <3>4
        <5>2. q \in Seq(Inputs)
          BY <2>1, <3>2, <4>2, <5>1, RangeInsert DEF Pending
        <5>3. PICK x : x = [pending[s] EXCEPT !.queued = q]
          OBVIOUS
        <5>4. x \in Pending /\ x.input = pending[s].input /\ x.stop = pending[s].stop
          BY <5>1, <5>2, <5>3 DEF Pending
        <5>5. pending'[s] = x
          BY <1>0, <3>3, <4>2, <5>3
        <5> QED BY <5>4, <5>5, NoneIsNothing
      <4> QED BY <4>1, <4>2
    <3> QED BY <1>2, <2>1, <3>4
  <2> QED BY <2>2, <2>3
<1>4. CASE DeferPrompt
  <2>1. PICK r : r = rpc[op.input].session
    OBVIOUS
  <2>2. pending[r] = None /\ (\E x : pending' = [pending EXCEPT ![r] = x]) /\ stopped' = stopped
    BY <1>4, <2>1 DEF DeferPrompt, Room, history
  <2> QED BY <1>0, <2>2 DEF StopsHeld, Start
<1>5. CASE ApplyAcknowledged
  <2>1. op # None /\ op.from = "ack"
    BY <1>5 DEF ApplyAcknowledged, At
  <2>2. PICK r \in Sessions, i \in Inputs : r = rpc[op.input].session /\ i = op.input /\ Start(r, i)
    BY <2>1, Acknowledges DEF Carried
  <2>3. pending' = [pending EXCEPT ![r] = None] /\ stopped' = stopped \ {i}
    BY <1>5, <2>2 DEF ApplyAcknowledged
  <2> QED BY <1>0, <2>2, <2>3 DEF StopsHeld, Start
<1>6. CASE StopCurrent
  <2>1. CASE UNCHANGED <<pending, stopped>>
    BY <1>1, <2>1
  <2>2. CASE ~UNCHANGED <<pending, stopped>>
    <3>1. bound \in Sessions
      BY <1>6, <2>2, SessionsTyped DEF StopCurrent
    <3>2. PICK b : pending' = StopRequested(bound, b)
      BY <1>6, <2>2 DEF StopCurrent
    <3>3. stopped' \subseteq stopped \cup (IF pending[bound] = None THEN {} ELSE {pending[bound].input})
      BY <1>6, <2>2 DEF StopCurrent
    <3>4. CASE pending[bound] = None
      BY <3>2, <3>3, <3>4 DEF StopRequested, StopsHeld, Start
    <3>5. CASE pending[bound] # None
      <4>1. PICK x : x = pending'[bound]
        OBVIOUS
      <4>2. /\ x # None /\ x.input = pending[bound].input /\ x.stop
            /\ \A s \in Sessions : s # bound => pending'[s] = pending[s]
        <5>1. pending[bound] \in Pending
          BY <1>0, <3>1, <3>5
        <5>2. /\ x.input = pending[bound].input /\ x.stop
              /\ \A s \in Sessions : s # bound => pending'[s] = pending[s]
          BY <1>0, <3>1, <3>2, <3>5, <4>1, <5>1 DEF StopRequested, Pending
        <5>3. SameStart(pending[bound], pending'[bound])
          BY <1>6, <3>1, StartsLeft
        <5> QED BY <3>5, <4>1, <5>2, <5>3 DEF SameStart
      <4>3. Start(bound, pending[bound].input) /\ \A e : Start(bound, e) => e = pending[bound].input
        BY <3>5 DEF Start
      <4> QED BY <3>1, <3>3, <3>5, <4>1, <4>2 DEF StopsHeld, Start
    <3> QED BY <3>4, <3>5
  <2> QED BY <2>1, <2>2
<1>7. ASSUME NEW r \in Sessions, TurnStarted(r) PROVE Good
  <2>1. \/ pending' = pending
        \/ pending[r] # None /\ \E o, p : pending' = [pending EXCEPT ![r] = [pending[r] EXCEPT !.observed = o, !.applied = p]]
    BY <1>7 DEF TurnStarted
  <2>2. stopped' = stopped
    BY <1>7 DEF TurnStarted, history
  <2>3. ASSUME pending[r] # None, NEW o, NEW p,
               pending' = [pending EXCEPT ![r] = [pending[r] EXCEPT !.observed = o, !.applied = p]]
        PROVE  Good
    <3>1. pending[r] \in Pending /\ pending'[r].input = pending[r].input /\ pending'[r].stop = pending[r].stop
      BY <1>0, <2>3 DEF Pending
    <3>2. SameStart(pending[r], pending'[r]) /\ \A s \in Sessions \ {r} : pending'[s] = pending[s]
      BY <1>0, <1>7, <2>3, StartNamed DEF Carried
    <3>3. \A s \in Sessions : pending[s] # None =>
                 /\ pending'[s] # None /\ pending'[s].input = pending[s].input
                 /\ pending[s].stop => pending'[s].stop
      BY <3>1, <3>2 DEF SameStart
    <3> QED BY <1>2, <2>2, <3>3
  <2> QED BY <1>1, <2>1, <2>2, <2>3
<1>8. ASSUME NEW r \in Sessions, SessionExited(r) PROVE Good
  <2>1. /\ pending' = IF pending[r] = None THEN pending ELSE [pending EXCEPT ![r].valid = FALSE]
        /\ stopped' = stopped
    BY <1>8 DEF SessionExited, history
  <2>2. CASE pending[r] # None
    <3>1. pending[r] \in Pending /\ pending'[r].input = pending[r].input /\ pending'[r].stop = pending[r].stop
          /\ \A s \in Sessions \ {r} : pending'[s] = pending[s]
      BY <1>0, <2>1, <2>2 DEF Pending
    <3>2. SameStart(pending[r], pending'[r])
      BY <1>8, StartsLeft
    <3> QED BY <2>1, <2>2, <3>1, <3>2 DEF StopsHeld, Start, SameStart
  <2> QED BY <1>1, <2>1, <2>2
<1>9. CASE Exit \/ Crash
  BY <1>9 DEF Exit, Crash, LoseMemory
<1>10. CASE \/ Claim \/ TakeQueued \/ KeepAwaiting \/ Settle \/ Dispatch \/ NextPending \/ Attach \/ Attached
            \/ FenceOwned \/ AbortWorker \/ WorkerPanics \/ Shutdown \/ Reconnected \/ UNCHANGED vars
            \/ Restart \/ (\E e \in Inputs : Deliver(e) \/ AgentAnswers(e))
            \/ \E s \in Sessions : TurnCompleted(s)
  <2>1. UNCHANGED <<pending, stopped>>
    BY <1>10 DEF Claim, TakeQueued, KeepAwaiting, Settle, Dispatch, NextPending, Attach, Attached,
        FenceOwned, AbortWorker, WorkerPanics, Shutdown, Reconnected, vars, Deliver, AgentAnswers,
        Restart, TurnCompleted, inputState, history
  <2> QED BY <1>1, <2>1
<1> QED BY <1>3, <1>4, <1>5, <1>6, <1>7, <1>8, <1>9, <1>10 DEF Next, Progress, Operate

\* Only an acknowledgement and the end of the process remove a start.
LEMMA PendingEnds ==
    ASSUME Carried, [Next]_vars, NEW s \in Sessions, pending[s] # None, pending'[s] = None,
           phase' # "down"
    PROVE  ApplyAcknowledged /\ rpc[op.input].session = s
<1>0. pending \in [Sessions -> Pending \cup {None}]
  BY DEF Carried, TypeOK
<1>1. CASE ApplyAcknowledged
  BY <1>0, <1>1 DEF ApplyAcknowledged
<1>2. CASE Exit \/ Crash
  BY <1>2 DEF Exit, Crash, LoseMemory
<1>3. CASE SendPrompt
  <2>1. PICK r, b : QueueWaiting(op.input, r, b)
    BY <1>3 DEF SendPrompt
  <2>2. PICK q : q = InsertByAge(pending[r].queued, op.input, owned')
    OBVIOUS
  <2>3. pending' = pending \/ pending' = [pending EXCEPT ![r] = [pending[r] EXCEPT !.queued = q]]
    BY <2>1, <2>2 DEF QueueWaiting
  <2>4. r = s
    BY <1>0, <2>3
  <2>5. pending[s] \in Pending /\ op.input \in Inputs
    BY <1>0, <1>3 DEF SendPrompt, At, Carried, TypeOK, Operation
  <2>6. q \in Seq(Inputs)
    BY <2>2, <2>4, <2>5, RangeInsert DEF Pending
  <2>7. [pending[s] EXCEPT !.queued = q] \in Pending
    BY <2>5, <2>6 DEF Pending
  <2> QED BY <1>0, <2>3, <2>4, <2>7, NoneIsNothing
<1>4. CASE DeferPrompt
  <2>1. PICK x : x = [input |-> op.input, stop |-> FALSE, applied |-> FALSE, valid |-> TRUE,
                      observed |-> None, queued |-> <<>>]
    OBVIOUS
  <2>2. pending' = [pending EXCEPT ![rpc[op.input].session] = x] /\ op.input \in Inputs
    BY <1>4, <2>1 DEF DeferPrompt, At, Carried, TypeOK, Operation
  <2>3. x \in Pending
    BY <2>1, <2>2 DEF Pending
  <2> QED BY <1>0, <2>2, <2>3, NoneIsNothing
<1>5. CASE StopCurrent \/ Attach \/ Attached \/ \E r \in Sessions : SessionExited(r)
  BY <1>5, StartsLeft DEF SameStart
<1>6. CASE \E r \in Sessions : TurnStarted(r)
  BY <1>6, StartNamed DEF SameStart, Carried
<1>7. CASE \/ Claim \/ TakeQueued \/ KeepAwaiting \/ Settle \/ Dispatch \/ NextPending
           \/ FenceOwned \/ AbortWorker \/ WorkerPanics \/ Shutdown \/ Reconnected \/ UNCHANGED vars
           \/ Restart \/ (\E e \in Inputs : Deliver(e) \/ AgentAnswers(e))
           \/ \E r \in Sessions : TurnCompleted(r)
  <2>1. UNCHANGED pending
    BY <1>7 DEF Claim, TakeQueued, KeepAwaiting, Settle, Dispatch, NextPending,
        FenceOwned, AbortWorker, WorkerPanics, Shutdown, Reconnected, vars, Deliver, AgentAnswers,
        Restart, TurnCompleted, inputState
  <2> QED BY <2>1
<1> QED BY <1>1, <1>2, <1>3, <1>4, <1>5, <1>6, <1>7 DEF Next, Progress, Operate

\* Every step keeps the dates.
LEMMA DatesStep ==
    ASSUME Carried, [Next]_vars, Dates PROVE Dates'
<1>0. /\ rpc \in [Inputs -> Request] /\ owned \in OwnedTable
      /\ op # None => op \in Operation /\ op.input \in Inputs
  BY DEF Carried, TypeOK, OwnedTable, Operation
<1>1. ASSUME NEW e \in Inputs PROVE rpc'[e].generation <= generation'
  <2>1. /\ rpc[e].generation <= generation /\ rpc[e].generation \in Nat
        /\ generation \in Nat /\ generation' \in {generation, generation + 1}
    BY <1>0, Clock DEF Dates, Request
  <2>2. CASE UNCHANGED rpc
    BY <2>1, <2>2
  <2>3. CASE SendPrompt /\ Send(op.input, bound) /\ op.input \in Inputs
    BY <1>0, <2>1, <2>3 DEF Send
  <2>4. CASE rpc' = [rpc EXCEPT ![op.input] = NoRequest] /\ op.input \in Inputs
    BY <1>0, <2>1, <2>4 DEF NoRequest
  <2>5. ASSUME NEW f \in Inputs, AgentAnswers(f) PROVE rpc'[e].generation = rpc[e].generation
    <3>1. rpc[f] \in Request
      BY <1>0
    <3>2. \A x, y : /\ [rpc[f] EXCEPT !.state = x].generation = rpc[f].generation
                    /\ [rpc[f] EXCEPT !.state = x, !.turn = y].generation = rpc[f].generation
      BY <3>1 DEF Request
    <3>3. \/ \E x : rpc' = [rpc EXCEPT ![f] = [rpc[f] EXCEPT !.state = x]]
          \/ \E x, y : rpc' = [rpc EXCEPT ![f] = [rpc[f] EXCEPT !.state = x, !.turn = y]]
      <4>1. PICK y : y = IF live[rpc[f].session] = None THEN f ELSE live[rpc[f].session]
        OBVIOUS
      <4> QED BY <2>5, <4>1 DEF AgentAnswers
    <3>4. ASSUME NEW z, rpc' = [rpc EXCEPT ![f] = z], z.generation = rpc[f].generation
          PROVE  rpc'[e].generation = rpc[e].generation
      BY <1>0, <3>4
    <3>5. CASE \E x : rpc' = [rpc EXCEPT ![f] = [rpc[f] EXCEPT !.state = x]]
      <4>1. PICK x : rpc' = [rpc EXCEPT ![f] = [rpc[f] EXCEPT !.state = x]]
        BY <3>5
      <4> QED BY <3>2, <3>4, <4>1
    <3>6. CASE \E x, y : rpc' = [rpc EXCEPT ![f] = [rpc[f] EXCEPT !.state = x, !.turn = y]]
      <4>1. PICK x, y : rpc' = [rpc EXCEPT ![f] = [rpc[f] EXCEPT !.state = x, !.turn = y]]
        BY <3>6
      <4> QED BY <3>2, <3>4, <4>1
    <3> QED BY <3>3, <3>5, <3>6
  <2> QED BY <2>1, <2>2, <2>3, <2>4, <2>5, RequestSteps
<1>2. ASSUME NEW e \in Inputs, owned'[e] # None
      PROVE  owned'[e].epoch <= epoch' /\ owned'[e].generation <= generation'
  <2> DEFINE Good == owned'[e].epoch <= epoch' /\ owned'[e].generation <= generation'
  <2>1. /\ epoch \in Nat /\ epoch' \in {epoch, epoch + 1}
        /\ generation \in Nat /\ generation' \in {generation, generation + 1}
    BY Clock
  <2>2. owned[e] # None => /\ owned[e].epoch <= epoch /\ owned[e].generation <= generation
                           /\ owned[e].epoch \in Nat /\ owned[e].generation \in Nat
    BY <1>0 DEF Dates, OwnedTable, QueuedInput
  <2>3. CASE owned'[e] = owned[e]
    BY <1>2, <2>1, <2>2, <2>3
  <2>4. CASE StopCurrent \/ Attach \/ Attached \/ \E s \in Sessions : SessionExited(s)
    <3>1. owned[e] # None
      BY <1>2, <2>4, Leaves DEF Kin
    <3>2. SameAge(owned[e], owned'[e]) /\ owned'[e].epoch \in {owned[e].epoch, epoch'}
      BY <2>4, <3>1, Redated
    <3> QED BY <2>1, <2>2, <3>1, <3>2 DEF SameAge
  <2>5. CASE SendPrompt
    <3>1. op # None /\ op.input \in Inputs
      BY <1>0, <2>5 DEF SendPrompt, At
    <3>2. owned' = owned \/ \E r, b : QueueWaiting(op.input, r, b)
      BY <2>5 DEF SendPrompt
    <3>3. ASSUME NEW r, NEW b, QueueWaiting(op.input, r, b), owned' # owned PROVE Good
      <4>1. PICK q : owned' = [owned EXCEPT ![op.input] =
                      [session |-> r, epoch |-> epoch, generation |-> generation,
                       queued |-> TRUE, cancelled |-> FALSE, reattach |-> b, seq |-> q]]
        BY <3>3 DEF QueueWaiting
      <4>2. CASE e = op.input
        <5>1. owned'[e].epoch = epoch /\ owned'[e].generation = generation
          BY <1>0, <4>1, <4>2 DEF OwnedTable
        <5> QED BY <2>1, <5>1
      <4>3. CASE e # op.input
        BY <1>0, <2>3, <4>1, <4>3 DEF OwnedTable
      <4> QED BY <4>2, <4>3
    <3> QED BY <2>3, <3>2, <3>3
  <2>6. CASE DeferPrompt
    <3>1. /\ op # None /\ op.input \in Inputs
          /\ \E r : owned' = [owned EXCEPT ![op.input] =
                 [session |-> r, epoch |-> epoch, generation |-> rpc[op.input].generation,
                  queued |-> FALSE, cancelled |-> FALSE, reattach |-> FALSE, seq |-> 0]]
      BY <1>0, <2>6 DEF DeferPrompt, At
    <3>2. CASE e = op.input
      <4>1. owned'[e].epoch = epoch /\ owned'[e].generation = rpc[e].generation
        BY <1>0, <3>1, <3>2 DEF OwnedTable
      <4>2. rpc[e].generation <= generation /\ rpc[e].generation \in Nat
        BY <1>0 DEF Dates, Request
      <4> QED BY <2>1, <4>1, <4>2
    <3>3. CASE e # op.input
      BY <1>0, <2>3, <3>1, <3>3 DEF OwnedTable
    <3> QED BY <3>2, <3>3
  <2>7. CASE TakeQueued \/ Settle \/ ApplyAcknowledged
    <3>1. owned' = owned \/ \E es : owned' = Forget(owned, es)
      BY <2>7 DEF TakeQueued, Settle, ApplyAcknowledged
    <3>2. owned'[e] = owned[e]
      BY <1>0, <1>2, <3>1 DEF Forget
    <3> QED BY <2>3, <3>2
  <2>8. CASE Exit \/ Crash
    BY <1>2, <2>8 DEF Exit, Crash, LoseMemory
  <2>9. CASE \/ Claim \/ KeepAwaiting \/ Dispatch \/ NextPending
             \/ FenceOwned \/ AbortWorker \/ WorkerPanics \/ Shutdown \/ Reconnected \/ UNCHANGED vars
             \/ Restart \/ (\E f \in Inputs : Deliver(f) \/ AgentAnswers(f))
             \/ \E s \in Sessions : TurnStarted(s) \/ TurnCompleted(s)
    <3>1. UNCHANGED owned
      BY <2>9 DEF Claim, KeepAwaiting, Dispatch, NextPending,
        FenceOwned, AbortWorker, WorkerPanics, Shutdown, Reconnected, vars, Deliver, AgentAnswers,
        Restart, TurnStarted, TurnCompleted, inputState
    <3> QED BY <2>3, <3>1
  <2> QED BY <2>4, <2>5, <2>6, <2>7, <2>8, <2>9 DEF Next, Progress, Operate
<1> QED BY <1>1, <1>2 DEF Dates

\* A stop executed before the turn was known reaches it or the turn is over, unless
\* another turn of the session took it.
THEOREM StopReachesHolds == Spec => StopReaches
<1>1. Init => Latched
  <2>1. SUFFICES ASSUME Init PROVE Latched
    OBVIOUS
  <2>2. /\ \A e \in Inputs : rpc[e].generation = 0 /\ owned[e] = None
        /\ generation = 0 /\ op = None /\ stopped = {}
        /\ \A s \in Sessions : pending[s] = None
    BY <2>1 DEF Init, NoRequest
  <2> QED BY <2>2 DEF Latched, Dates, StopsHeld, Sending, Turns
<1>2. Latched /\ Carried /\ [Next]_vars => Latched'
  BY DatesStep, StopsHeldStep, SendingStep, TurnsStep DEF Latched
<1>3. Latched /\ Carried /\ [Next]_vars =>
        [\A s \in Sessions :
            (StoppedStartAcknowledged(s) /\ ~TakenByAnotherTurn(s)) => StopArrived(s)]_vars
  <2> SUFFICES ASSUME Latched, Carried, [Next]_vars, NEW s \in Sessions,
                      StoppedStartAcknowledged(s), ~TakenByAnotherTurn(s)
               PROVE  StopArrived(s)
    OBVIOUS
  <2>1. ApplyAcknowledged /\ rpc[op.input].session = s
    BY PendingEnds DEF StoppedStartAcknowledged
  <2>2. op # None /\ op.from = "ack"
    BY <2>1 DEF ApplyAcknowledged, At
  <2>3. PICK e \in Inputs : e = op.input /\ Start(s, e) /\ pending[s].input = e
    BY <2>1, <2>2, Acknowledges DEF Carried, Start
  <2>4. /\ pending[s].valid /\ e \in stopped /\ rpc[e].state = "accepted"
        /\ owned[e].generation = generation /\ bounds'.lost = bounds.lost
    BY <2>3 DEF StoppedStartAcknowledged
  <2>5. pending[s].stop
    <3>1. PICK r \in Sessions : Start(r, e) /\ pending[r].stop
      BY <2>4 DEF Latched, StopsHeld
    <3>2. r = s
      BY <2>3, <3>1 DEF Carried, Placement, StartsSound
    <3> QED BY <3>1, <3>2
  <2>6. /\ stops' = IF StopDue(s, rpc[e].turn) THEN stops \cup {rpc[e].turn} ELSE stops
        /\ ended' = ended
    <3>1. PICK lost \in SUBSET ({e} \cup
                 IF HandOn(s, e) THEN {} ELSE SeqRange(pending[s].queued)) :
             /\ LoseWrites(lost)
             /\ \/ e \in lost
                \/ stops' = IF rpc[e].state = "accepted" /\ StopDue(s, rpc[e].turn)
                            THEN stops \cup {rpc[e].turn} ELSE stops
      BY <2>1, <2>3 DEF ApplyAcknowledged
    <3>2. IsFiniteSet(lost)
      BY <2>3, FewWrites DEF Carried
    <3>3. lost = {}
      <4>1. bounds'.lost = bounds.lost + Cardinality(lost) /\ bounds.lost \in Nat
        BY <3>1 DEF LoseWrites, Carried, HistoryOK, Bounds
      <4> QED BY <2>4, <3>2, <4>1, FS_CardinalityType, FS_EmptySet
    <3> QED BY <2>1, <2>4, <3>1, <3>3 DEF ApplyAcknowledged
  <2>7. CASE ~pending[s].applied
    BY <2>3, <2>4, <2>5, <2>6, <2>7 DEF StopDue, StopArrived
  <2>8. CASE pending[s].applied
    <3>1. pending[s].observed = rpc[e].turn /\ rpc[e].turn \in Inputs
      BY <2>3, <2>4, <2>8 DEF TakenByAnotherTurn, Carried, Requests
    <3>2. pending[s].observed # None
      BY <3>1, NoneIsNothing
    <3>3. pending[s] # None
      BY <2>3 DEF Start
    <3>4. pending[s].observed \in stops \cup ended
      BY <2>4, <2>8, <3>2, <3>3 DEF Latched, Turns, Told
    <3> QED BY <2>3, <2>6, <3>1, <3>4 DEF StopArrived
  <2> QED BY <2>7, <2>8
<1> QED BY <1>1, <1>2, <1>3, CarriedInit, CarriedStep, PTL DEF Spec, StopReaches

----------------------------------------------------------------------------
(* The order of the inputs that wait *)

Age(e) == owned[e].seq
Awaits(e) == owned[e] # None /\ owned[e].queued

\* Ages follow the claims: the claims are ordered, what waits was claimed, the older
\* first, and a prompt that was just claimed is claimed after all others.
Marks ==
    /\ claims \in [Inputs -> SUBSET Inputs]
    /\ \A f, g \in Inputs : f \in claims[g] => f \in claims[f] /\ g \in claims[g]
    /\ \A f, g \in Inputs : f \in claims[g] /\ g \in claims[f] => f = g
    /\ \A f \in Inputs : Awaits(f) => f \in claims[f] /\ Age(f) < nextSeq
    /\ \A f, g \in Inputs : Awaits(f) /\ Awaits(g) =>
          /\ Age(f) < Age(g) => f \in claims[g]
          /\ Age(f) = Age(g) => f = g
    /\ At({"inbound"}, "handle") /\ Kind[op.input] = "prompt" =>
          /\ op.input \in claims[op.input]
          /\ \A f \in Inputs : f \in claims[f] => f \in claims[op.input]

\* What a step does to an input that the engine owns.
LEMMA OwnedSteps ==
    ASSUME Carried, [Next]_vars, NEW f \in Inputs, owned'[f] # None
    PROVE  \/ owned'[f] = owned[f]
           \/ /\ StopCurrent \/ Attach \/ Attached \/ \E s \in Sessions : SessionExited(s)
              /\ owned[f] # None /\ owned'[f].seq = owned[f].seq
              /\ owned'[f].queued = owned[f].queued
           \/ /\ f = op.input /\ SendPrompt
              /\ \E r, b : QueueWaiting(f, r, b)
              /\ owned'[f].queued
              /\ owned'[f].seq = IF owned[f] # None THEN owned[f].seq ELSE nextSeq
           \/ f = op.input /\ DeferPrompt /\ ~owned'[f].queued
<1>0. /\ owned \in OwnedTable
      /\ op # None => op \in Operation /\ op.input \in Inputs
  BY DEF Carried, TypeOK, OwnedTable, Operation
<1>1. CASE StopCurrent \/ Attach \/ Attached \/ \E s \in Sessions : SessionExited(s)
  <2>1. owned[f] # None
    BY <1>1, Leaves DEF Kin
  <2>2. SameAge(owned[f], owned'[f])
    BY <1>1, <2>1, Redated
  <2>3. owned'[f].queued = owned[f].queued
    BY <1>1, <2>1, Leaves DEF Kin
  <2> QED BY <1>1, <2>1, <2>2, <2>3 DEF SameAge
<1>2. CASE SendPrompt
  <2>1. op # None /\ op.input \in Inputs
    BY <1>0, <1>2 DEF SendPrompt, At
  <2>2. owned' = owned \/ \E r, b : QueueWaiting(op.input, r, b)
    BY <1>2 DEF SendPrompt
  <2>3. ASSUME NEW r, NEW b, QueueWaiting(op.input, r, b), owned' # owned, f = op.input
        PROVE  owned'[f].queued /\ owned'[f].seq = IF owned[f] # None THEN owned[f].seq ELSE nextSeq
    <3>1. PICK q : /\ q = IF owned[op.input] # None THEN owned[op.input].seq ELSE nextSeq
                   /\ owned' = [owned EXCEPT ![op.input] =
                      [session |-> r, epoch |-> epoch, generation |-> generation,
                       queued |-> TRUE, cancelled |-> FALSE, reattach |-> b, seq |-> q]]
      BY <2>3 DEF QueueWaiting
    <3> QED BY <1>0, <2>3, <3>1 DEF OwnedTable
  <2>4. ASSUME NEW r, NEW b, QueueWaiting(op.input, r, b), f # op.input
        PROVE  owned'[f] = owned[f]
    <3>1. \E x : owned' = owned \/ owned' = [owned EXCEPT ![op.input] = x]
      BY <2>4 DEF QueueWaiting
    <3> QED BY <1>0, <2>1, <2>4, <3>1 DEF OwnedTable
  <2>5. CASE owned' # owned
    <3>1. PICK r, b : QueueWaiting(op.input, r, b)
      BY <2>2, <2>5
    <3>2. CASE f = op.input
      <4>1. /\ owned'[f].queued
            /\ owned'[f].seq = IF owned[f] # None THEN owned[f].seq ELSE nextSeq
        BY <2>3, <2>5, <3>1, <3>2
      <4>2. \E x, y : QueueWaiting(f, x, y)
        BY <3>1, <3>2
      <4> QED BY <1>2, <3>2, <4>1, <4>2
    <3>3. CASE f # op.input
      BY <2>4, <3>1, <3>3
    <3> QED BY <3>2, <3>3
  <2>6. CASE owned' = owned
    BY <2>6
  <2> QED BY <2>5, <2>6
<1>3. CASE DeferPrompt
  <2>1. PICK x : /\ ~x.queued
                 /\ owned' = [owned EXCEPT ![op.input] = x]
    <3>1. PICK r : r = rpc[op.input].session
      OBVIOUS
    <3>2. PICK x : x = [session |-> r, epoch |-> epoch, generation |-> rpc[op.input].generation,
                        queued |-> FALSE, cancelled |-> FALSE, reattach |-> FALSE, seq |-> 0]
      OBVIOUS
    <3>3. owned' = [owned EXCEPT ![op.input] = x]
      BY <1>3, <3>1, <3>2 DEF DeferPrompt
    <3> QED BY <3>2, <3>3
  <2>2. CASE f = op.input
    <3>1. owned'[f] = x
      BY <1>0, <2>1, <2>2 DEF OwnedTable
    <3> QED BY <1>3, <2>1, <2>2, <3>1
  <2>3. CASE f # op.input
    BY <1>0, <2>1, <2>3 DEF OwnedTable
  <2> QED BY <2>2, <2>3
<1>4. CASE TakeQueued \/ Settle \/ ApplyAcknowledged
  <2>1. owned' = owned \/ \E es : owned' = Forget(owned, es)
    BY <1>4 DEF TakeQueued, Settle, ApplyAcknowledged
  <2> QED BY <1>0, <2>1 DEF Forget
<1>5. CASE Exit \/ Crash
  BY <1>5 DEF Exit, Crash, LoseMemory
<1>6. CASE \/ Claim \/ KeepAwaiting \/ Dispatch \/ NextPending
           \/ FenceOwned \/ AbortWorker \/ WorkerPanics \/ Shutdown \/ Reconnected \/ UNCHANGED vars
           \/ Restart \/ (\E e \in Inputs : Deliver(e) \/ AgentAnswers(e))
           \/ \E s \in Sessions : TurnStarted(s) \/ TurnCompleted(s)
  <2>1. UNCHANGED owned
    BY <1>6 DEF Claim, KeepAwaiting, Dispatch, NextPending,
        FenceOwned, AbortWorker, WorkerPanics, Shutdown, Reconnected, vars, Deliver, AgentAnswers,
        Restart, TurnStarted, TurnCompleted, inputState
  <2> QED BY <2>1
<1> QED BY <1>1, <1>2, <1>3, <1>4, <1>5, <1>6 DEF Next, Progress, Operate

\* The claims and the next age: a claim, an input that begins to wait, and the end.
LEMMA ClaimSteps ==
    ASSUME Carried, [Next]_vars
    PROVE  \/ Exit \/ Crash
           \/ Claim /\ UNCHANGED <<owned, nextSeq>>
           \/ /\ claims' = claims
              /\ nextSeq' = nextSeq \/ (SendPrompt /\ owned[op.input] = None /\ nextSeq' = nextSeq + 1)
              /\ At({"inbound"}, "handle")' => op' = op
<1>0. op # None => op \in Operation
  BY DEF Carried, TypeOK
<1>1. CASE Claim
  BY <1>1 DEF Claim
<1>2. CASE SendPrompt
  <2>1. claims' = claims /\ op # None /\ op.step = "handle" /\ op \in Operation
    BY <1>0, <1>2 DEF SendPrompt, At, history
  <2>2. nextSeq' = nextSeq \/ (owned[op.input] = None /\ nextSeq' = nextSeq + 1)
    BY <1>2 DEF SendPrompt, QueueWaiting
  <2>3. op' = None \/ op'.step \in {"settle", "await", "window"}
    <3>1. \/ op' = None \/ (\E r : op' = [op EXCEPT !.step = "settle", !.result = r])
          \/ \E x \in {"await", "window"} : op' = [op EXCEPT !.step = x]
      BY <1>2 DEF SendPrompt, QueueWaiting, Send, EndOp, Result
    <3> QED BY <2>1, <3>1 DEF Operation
  <2> QED BY <1>2, <2>1, <2>2, <2>3 DEF At
<1>3. CASE StopCurrent \/ Attach
  <2>1. UNCHANGED <<claims, nextSeq>> /\ op # None /\ op \in Operation /\ \E r : Result(r)
    BY <1>0, <1>3 DEF StopCurrent, Attach, At, history
  <2>2. op'.step = "settle"
    BY <2>1 DEF Result, Operation
  <2> QED BY <2>1, <2>2 DEF At
<1>4. CASE TakeQueued \/ KeepAwaiting
  <2>1. /\ UNCHANGED <<claims, nextSeq>> /\ op # None /\ op \in Operation
        /\ \/ op' = None
           \/ op.from = "queued" /\ op' = [op EXCEPT !.step = "handle"]
           \/ op' = [op EXCEPT !.step = "await"]
    BY <1>0, <1>4 DEF TakeQueued, KeepAwaiting, At, history, EndOp
  <2> QED BY <2>1 DEF At, Operation
<1>5. CASE \/ DeferPrompt \/ Settle \/ ApplyAcknowledged \/ AbortWorker \/ WorkerPanics
  BY <1>5 DEF DeferPrompt, Settle, ApplyAcknowledged, AbortWorker, WorkerPanics, EndOp, At, history, inputState
<1>6. CASE Dispatch
  BY <1>6 DEF Dispatch, At, history
<1>7. CASE \/ NextPending \/ FenceOwned \/ Shutdown \/ Reconnected \/ UNCHANGED vars \/ Attached
           \/ Restart \/ (\E e \in Inputs : Deliver(e) \/ AgentAnswers(e))
           \/ \E s \in Sessions : TurnStarted(s) \/ TurnCompleted(s) \/ SessionExited(s)
  BY <1>7 DEF NextPending, Attached, SessionExited,
        FenceOwned, Shutdown, Reconnected, vars, Deliver, AgentAnswers,
        Restart, TurnStarted, TurnCompleted, inputState, history
<1> QED BY <1>1, <1>2, <1>3, <1>4, <1>5, <1>6, <1>7 DEF Next, Progress, Operate

\* Every step keeps ages and claims together.
LEMMA MarksStep ==
    ASSUME Carried, [Next]_vars, Marks PROVE Marks'
<1>0. /\ owned \in OwnedTable /\ nextSeq \in Nat
      /\ op # None => op \in Operation /\ op.input \in Inputs
      /\ \A f \in Inputs : Awaits(f) => Age(f) \in Nat
  BY DEF Carried, TypeOK, OwnedTable, Operation, Awaits, Age, QueuedInput
<1>1. CASE Exit \/ Crash
  <2>1. /\ claims' = [e \in Inputs |-> {}] /\ op' = None /\ \A f \in Inputs : owned'[f] = None
    BY <1>1 DEF Exit, Crash, LoseMemory
  <2> QED BY <2>1 DEF Marks, Awaits, At
<1>2. CASE Claim /\ UNCHANGED <<owned, nextSeq>>
  <2>1. op # None /\ op \in Operation /\ op.input \in Inputs
    BY <1>0, <1>2 DEF Claim, At
  <2>2. PICK e \in Inputs : e = op.input
    BY <2>1
  <2>3. CASE op' = None /\ claims' = claims
    BY <1>2, <2>3 DEF Marks, Awaits, Age, At
  <2>4. CASE /\ event[e] \in {"absent", "failed"} /\ op' = [op EXCEPT !.step = "handle"]
             /\ claims' = IF Kind[e] = "prompt" THEN ClaimedLast(e) ELSE claims
    <3>1. op'.input = e
      BY <2>1, <2>2, <2>4 DEF Operation
    <3>2. CASE Kind[e] # "prompt"
      BY <1>2, <2>4, <3>1, <3>2 DEF Marks, Awaits, Age, At
    <3>3. CASE Kind[e] = "prompt"
      <4>1. owned[e] = None
        BY <2>4 DEF Carried, Claims
      <4>2. claims \in [Inputs -> SUBSET Inputs]
        BY DEF Marks
      <4>3. /\ claims' \in [Inputs -> SUBSET Inputs]
            /\ claims'[e] = {g \in Inputs : claims[g] # {}} \cup {e}
            /\ \A f \in Inputs \ {e} : claims'[f] = claims[f] \ {e}
        BY <2>4, <3>3, <4>2 DEF ClaimedLast
      <4>4. \A g \in Inputs : claims[g] # {} <=> g \in claims[g]
        BY <4>2 DEF Marks
      <4>5. \A f, g \in Inputs : f \in claims'[g] => f \in claims'[f] /\ g \in claims'[g]
        <5> SUFFICES ASSUME NEW f \in Inputs, NEW g \in Inputs, f \in claims'[g]
                     PROVE  f \in claims'[f] /\ g \in claims'[g]
          OBVIOUS
        <5>1. CASE g = e
          BY <4>3, <4>4, <5>1
        <5>2. CASE g # e
          BY <4>3, <5>2 DEF Marks
        <5> QED BY <5>1, <5>2
      <4>6. \A f, g \in Inputs : f \in claims'[g] /\ g \in claims'[f] => f = g
        BY <4>3 DEF Marks
      <4>7. \A f \in Inputs : Awaits(f)' => Awaits(f) /\ f # e /\ Age(f)' = Age(f)
        BY <1>2, <4>1 DEF Awaits, Age
      <4>8. \A f \in Inputs : Awaits(f)' => f \in claims'[f] /\ Age(f)' < nextSeq'
        BY <1>2, <4>3, <4>7 DEF Marks
      <4>9. \A f, g \in Inputs : Awaits(f)' /\ Awaits(g)' =>
               /\ Age(f)' < Age(g)' => f \in claims'[g]
               /\ Age(f)' = Age(g)' => f = g
        BY <4>3, <4>7 DEF Marks
      <4>10. \A f \in Inputs : f \in claims'[f] => f \in claims'[e]
        BY <4>3
      <4> HIDE DEF Awaits, Age
      <4> QED BY <3>1, <4>3, <4>5, <4>6, <4>8, <4>9, <4>10 DEF Marks
    <3> QED BY <3>2, <3>3
  <2> QED BY <1>2, <2>2, <2>3, <2>4 DEF Claim, EndOp
<1>3. CASE /\ claims' = claims
           /\ nextSeq' = nextSeq \/ (SendPrompt /\ owned[op.input] = None /\ nextSeq' = nextSeq + 1)
           /\ At({"inbound"}, "handle")' => op' = op
  <2>1. ASSUME NEW f \in Inputs, Awaits(f)'
        PROVE  \/ Awaits(f) /\ Age(f)' = Age(f)
               \/ /\ owned[f] = None /\ Age(f)' = nextSeq /\ f = op.input
                  /\ At({"inbound"}, "handle") /\ Kind[f] = "prompt"
                  /\ nextSeq' = nextSeq + 1
    <3>1. owned'[f] # None /\ owned'[f].queued
      BY <2>1 DEF Awaits
    <3>2. CASE owned'[f] = owned[f]
      BY <3>1, <3>2 DEF Awaits, Age
    <3>3. CASE owned[f] # None /\ owned'[f].seq = owned[f].seq /\ owned'[f].queued = owned[f].queued
      BY <3>1, <3>3 DEF Awaits, Age
    <3>4. CASE /\ f = op.input /\ SendPrompt
               /\ \E r, b : QueueWaiting(f, r, b)
               /\ owned'[f].seq = IF owned[f] # None THEN owned[f].seq ELSE nextSeq
      <4>1. op # None /\ op.step = "handle" /\ op.from \in {"inbound", "queued"} /\ Kind[f] = "prompt"
        BY <3>4 DEF SendPrompt, At
      <4>2. CASE owned[f] # None
        <5>1. op.from = "queued"
          BY <3>4, <4>1, <4>2, Elsewhere
        <5> QED BY <3>4, <4>1, <4>2, <5>1, Elsewhere DEF Free, Awaits, Age
      <4>3. CASE owned[f] = None
        <5>1. op.from = "inbound"
          BY <3>4, <4>1, <4>3, Elsewhere DEF Free
        <5>2. nextSeq' = nextSeq + 1
          <6>1. PICK r, b : QueueWaiting(f, r, b)
            BY <3>4
          <6>2. owned' # owned
            BY <3>1, <4>3
          <6> QED BY <4>3, <6>1, <6>2 DEF QueueWaiting
        <5> QED BY <3>4, <4>1, <4>3, <5>1, <5>2 DEF At, Age
      <4> QED BY <4>2, <4>3
    <3> QED BY <3>1, <3>2, <3>3, <3>4, OwnedSteps
  <2>2. nextSeq' \in {nextSeq, nextSeq + 1}
    BY <1>3
  <2>3. \A f \in Inputs : Awaits(f)' => f \in claims'[f] /\ Age(f)' < nextSeq'
    BY <1>0, <1>3, <2>1, <2>2 DEF Marks
  <2>4. \A f, g \in Inputs : Awaits(f)' /\ Awaits(g)' =>
           /\ Age(f)' < Age(g)' => f \in claims'[g]
           /\ Age(f)' = Age(g)' => f = g
    <3> SUFFICES ASSUME NEW f \in Inputs, NEW g \in Inputs, Awaits(f)', Awaits(g)'
                 PROVE  /\ Age(f)' < Age(g)' => f \in claims'[g]
                        /\ Age(f)' = Age(g)' => f = g
      OBVIOUS
    <3>1. CASE Awaits(f) /\ Age(f)' = Age(f) /\ Awaits(g) /\ Age(g)' = Age(g)
      BY <1>3, <3>1 DEF Marks
    <3>2. CASE Awaits(f) /\ Age(f)' = Age(f) /\ Age(g)' = nextSeq /\ g = op.input
               /\ At({"inbound"}, "handle") /\ Kind[g] = "prompt"
      <4>1. Age(f) < nextSeq /\ f \in claims[f] /\ Age(f) \in Nat
        BY <1>0, <3>2 DEF Marks
      <4>2. f \in claims[g]
        BY <3>2, <4>1 DEF Marks
      <4> QED BY <1>0, <1>3, <3>2, <4>1, <4>2
    <3>3. CASE Awaits(g) /\ Age(g)' = Age(g) /\ Age(f)' = nextSeq
      <4>1. Age(g) < nextSeq /\ Age(g) \in Nat
        BY <1>0, <3>3 DEF Marks
      <4> QED BY <1>0, <3>3, <4>1
    <3>4. CASE f = op.input /\ g = op.input
      BY <1>0, <2>1, <3>4 DEF Marks
    <3> QED BY <2>1, <3>1, <3>2, <3>3, <3>4
  <2>5. At({"inbound"}, "handle")' /\ Kind[op'.input] = "prompt" =>
          /\ op'.input \in claims'[op'.input]
          /\ \A f \in Inputs : f \in claims'[f] => f \in claims'[op'.input]
    <3>1. At({"inbound"}, "handle")' => At({"inbound"}, "handle")
      BY <1>3 DEF At
    <3> HIDE DEF At
    <3> QED BY <1>3, <3>1 DEF Marks
  <2> HIDE DEF Awaits, Age
  <2> QED BY <1>3, <2>3, <2>4, <2>5 DEF Marks
<1> QED BY <1>1, <1>2, <1>3, ClaimSteps

----------------------------------------------------------------------------
(* The order in which follow-ups go on *)

\* In the sequence q some x comes before some y.
Precedes(q, x, y) == \E i, j \in 1..Len(q) : i < j /\ q[i] = x /\ q[j] = y

\* What precedes what after an element was appended.
LEMMA PrecedesAppend ==
    ASSUME NEW S, NEW q \in Seq(S), NEW z \in S, NEW x, NEW y, Precedes(Append(q, z), x, y)
    PROVE  Precedes(q, x, y) \/ (x \in SeqRange(q) /\ y = z)
<1> DEFINE r == Append(q, z)
<1>1. /\ Len(r) = Len(q) + 1 /\ r[Len(q) + 1] = z /\ Len(q) \in Nat
      /\ \A i \in 1..Len(q) : r[i] = q[i]
  OBVIOUS
<1> HIDE DEF r
<1>2. PICK i \in 1..Len(r), j \in 1..Len(r) : i < j /\ r[i] = x /\ r[j] = y
  BY DEF Precedes, r
<1>3. i \in 1..Len(q) /\ r[i] = q[i] /\ (j \in 1..Len(q) \/ j = Len(q) + 1)
  BY <1>1, <1>2
<1> QED BY <1>1, <1>2, <1>3 DEF Precedes, SeqRange

\* What preceded what before the head was taken.
LEMMA PrecedesTail ==
    ASSUME NEW S, NEW q \in Seq(S), q # <<>>, NEW x, NEW y
    PROVE  /\ Precedes(Tail(q), x, y) => Precedes(q, x, y)
           /\ x = Head(q) /\ y \in SeqRange(Tail(q)) => Precedes(q, x, y)
<1> DEFINE r == Tail(q)
<1>1. /\ Head(q) = q[1] /\ Len(q) \in Nat \ {0} /\ Len(r) = Len(q) - 1
      /\ \A i \in 1..Len(r) : r[i] = q[i + 1]
  OBVIOUS
<1> HIDE DEF r
<1>2. \A i \in 1..Len(r) : i + 1 \in 1..Len(q) /\ 1 < i + 1 /\ 1 \in 1..Len(q)
  BY <1>1
<1>3. ASSUME NEW i \in 1..Len(r), NEW j \in 1..Len(r), i < j, r[i] = x, r[j] = y
      PROVE  Precedes(q, x, y)
  <2>1. i + 1 < j + 1 /\ q[i + 1] = x /\ q[j + 1] = y
    BY <1>1, <1>3
  <2> QED BY <1>2, <2>1 DEF Precedes
<1>4. ASSUME NEW j \in 1..Len(r), r[j] = y, x = Head(q) PROVE Precedes(q, x, y)
  BY <1>1, <1>2, <1>4 DEF Precedes
<1>5. Precedes(r, x, y) => Precedes(q, x, y)
  BY <1>3 DEF Precedes
<1>6. x = Head(q) /\ y \in SeqRange(r) => Precedes(q, x, y)
  BY <1>4 DEF SeqRange
<1> QED BY <1>5, <1>6 DEF r

\* What precedes what after a whole sequence was appended.
LEMMA PrecedesConcat ==
    ASSUME NEW S, NEW q \in Seq(S), NEW r \in Seq(S), NEW x, NEW y, Precedes(q \o r, x, y)
    PROVE  Precedes(q, x, y) \/ Precedes(r, x, y) \/ (x \in SeqRange(q) /\ y \in SeqRange(r))
<1> DEFINE w == q \o r
<1>1. /\ Len(w) = Len(q) + Len(r) /\ Len(q) \in Nat /\ Len(r) \in Nat
      /\ \A i \in 1..Len(q) : w[i] = q[i]
      /\ \A i \in 1..Len(r) : w[Len(q) + i] = r[i]
  OBVIOUS
<1> HIDE DEF w
<1>2. PICK i \in 1..Len(w), j \in 1..Len(w) : i < j /\ w[i] = x /\ w[j] = y
  BY DEF Precedes, w
<1>3. ASSUME NEW k \in 1..Len(w)
      PROVE  \/ k \in 1..Len(q) /\ w[k] = q[k]
             \/ k \notin 1..Len(q) /\ k - Len(q) \in 1..Len(r) /\ w[k] = r[k - Len(q)]
  <2>1. CASE k \in 1..Len(q)
    BY <1>1, <2>1
  <2>2. CASE k \notin 1..Len(q)
    <3>1. k - Len(q) \in 1..Len(r) /\ Len(q) + (k - Len(q)) = k
      BY <1>1, <2>2
    <3> QED BY <1>1, <2>2, <3>1
  <2> QED BY <2>1, <2>2
<1>4. CASE i \in 1..Len(q) /\ j \in 1..Len(q)
  BY <1>1, <1>2, <1>4 DEF Precedes
<1>5. CASE i \in 1..Len(q) /\ j \notin 1..Len(q)
  <2>1. x = q[i]
    BY <1>1, <1>2, <1>5
  <2>2. j - Len(q) \in 1..Len(r) /\ y = r[j - Len(q)]
    BY <1>2, <1>3, <1>5
  <2> QED BY <1>5, <2>1, <2>2 DEF SeqRange
<1>6. CASE i \notin 1..Len(q)
  <2>1. j \notin 1..Len(q)
    BY <1>1, <1>2, <1>6
  <2>2. /\ i - Len(q) \in 1..Len(r) /\ x = r[i - Len(q)]
        /\ j - Len(q) \in 1..Len(r) /\ y = r[j - Len(q)]
    BY <1>2, <1>3, <1>6, <2>1
  <2>3. i - Len(q) < j - Len(q)
    BY <1>1, <1>2
  <2> QED BY <2>2, <2>3 DEF Precedes
<1> QED BY <1>4, <1>5, <1>6

\* Work w is executed before the follow-up g, or f is admitted before g.
InFront(w, g) ==
    \/ Doing(w.from, w.input) /\ (InLane(g) \/ InReady(g))
    \/ Precedes(lane, w, QueuedWork(g))
    \/ w \in SeqRange(lane) /\ InReady(g)
Before(f, g) == InFront(QueuedWork(f), g) \/ Precedes(ready, f, g)

\* What may still be sent: it is not stale, or was not when it was taken.
Eligible(f) == ~Stale(f) \/ (Resuming(f) /\ op.step = "handle")

\* Follow-ups that may still be sent go on oldest first,
Line == \A f, g \in Inputs : Before(f, g) /\ Eligible(f) /\ ~Stale(g) => Age(f) < Age(g)

\* so do those behind a start, and when a start that is current is acknowledged
\* no follow-up that may still be sent comes after its acknowledgement.
BehindOrder ==
    \A s \in Sessions : pending[s] # None =>
        \A i, j \in 1..Len(pending[s].queued) :
            i < j => Age(pending[s].queued[i]) < Age(pending[s].queued[j])
Handed ==
    \A s \in Sessions, g \in Inputs :
        pending[s] # None /\ Current(s) /\ InFront(AckWork(pending[s].input), g) => Stale(g)

Ordered == Marks /\ Line /\ BehindOrder /\ Handed

\* What is in front of a follow-up is admitted, and so is the follow-up.
LEMMA BeforePlaced ==
    ASSUME Carried, NEW f \in Inputs, NEW g \in Inputs
    PROVE  /\ Before(f, g) => /\ Resuming(f) \/ InLane(f) \/ InReady(f)
                              /\ InLane(g) \/ InReady(g)
                              /\ Free(f) /\ Free(g)
           /\ \A w : InFront(w, g) => /\ Doing(w.from, w.input) \/ w \in SeqRange(lane)
                                      /\ InLane(g) \/ InReady(g)
                                      /\ Free(g)
<1>1. ASSUME NEW w, InFront(w, g)
      PROVE  /\ Doing(w.from, w.input) \/ w \in SeqRange(lane)
             /\ InLane(g) \/ InReady(g)
  BY <1>1 DEF InFront, Precedes, SeqRange, InLane
<1>2. InLane(g) \/ InReady(g) => Free(g)
  BY DEF Carried, Placement, LaneSound, ReadySound
<1>3. Resuming(f) \/ InLane(f) \/ InReady(f) => Free(f)
  BY DEF Carried, Placement, LaneSound, ReadySound, Apart
<1>4. Precedes(ready, f, g) => InReady(f) /\ InReady(g)
  BY DEF Precedes, InReady, SeqRange
<1>5. QueuedWork(f).from = "queued" /\ QueuedWork(f).input = f
  BY DEF QueuedWork
<1>6. InFront(QueuedWork(f), g) => Resuming(f) \/ InLane(f)
  <2> HIDE DEF QueuedWork
  <2> QED BY <1>1, <1>5 DEF Resuming, InLane
<1> QED BY <1>1, <1>2, <1>3, <1>4, <1>6 DEF Before

\* What may not be sent any more cannot be again, unless an attachment released it.
LEMMA LiveStays ==
    ASSUME Carried, [Next]_vars, Dates, NEW f \in Inputs, owned[f] # None, ~Stale(f)',
           f = op.input /\ (SendPrompt \/ DeferPrompt) => owned'[f] = owned[f]
    PROVE  \/ ~Stale(f) /\ Age(f)' = Age(f)
           \/ owned[f].reattach /\ Attached /\ epoch' = epoch + 1
<1>1. /\ owned[f].epoch <= epoch /\ owned[f].generation <= generation
      /\ owned[f].epoch \in Nat /\ owned[f].generation \in Nat
  BY DEF Dates, Carried, TypeOK, QueuedInput
<1>2. /\ owned'[f] # None /\ ~owned'[f].cancelled /\ owned'[f].generation = generation'
      /\ owned'[f].epoch = epoch' /\ bound' = owned'[f].session
  BY DEF Stale
<1>3. ASSUME owned'[f].seq = owned[f].seq, owned'[f].generation = owned[f].generation,
             owned'[f].epoch = owned[f].epoch, owned'[f].session = owned[f].session,
             owned[f].cancelled => owned'[f].cancelled
      PROVE  ~Stale(f) /\ Age(f)' = Age(f)
  <2>1. generation' = generation /\ epoch' = epoch
    BY <1>1, <1>2, <1>3, Clock
  <2>2. bound' = bound
    BY <2>1, Clock
  <2> QED BY <1>2, <1>3, <2>1, <2>2 DEF Stale, Age
<1>4. CASE owned'[f] = owned[f]
  BY <1>3, <1>4
<1>5. CASE StopCurrent \/ Attach \/ Attached \/ \E s \in Sessions : SessionExited(s)
  <2>1. owned'[f].session = owned[f].session /\ (owned[f].cancelled => owned'[f].cancelled)
    BY <1>5, Leaves DEF Kin
  <2>2. /\ SameAge(owned[f], owned'[f])
        /\ \/ owned'[f].epoch = owned[f].epoch
           \/ owned[f].reattach /\ Attached /\ epoch' = epoch + 1 /\ owned'[f].epoch = epoch'
    BY <1>5, Redated
  <2> QED BY <1>3, <2>1, <2>2 DEF SameAge
<1> QED BY <1>2, <1>4, <1>5, OwnedSteps

\* An attachment that is committed leaves every admitted follow-up behind.
LEMMA Committed ==
    ASSUME Carried, Dates, Attached, epoch' = epoch + 1
    PROVE  /\ \A g \in Inputs : Free(g) => Stale(g)'
           /\ \A s \in Sessions : pending'[s] # None => ~Current(s)'
<1>0. epoch \in Nat /\ owned \in OwnedTable
  BY DEF Carried, TypeOK, OwnedTable
<1>1. [Next]_vars
  BY DEF Next, Progress
<1>2. ASSUME NEW g \in Inputs, Free(g) PROVE Stale(g)'
  <2>1. PICK x \in Nat \cup {None} : owned' = FinishedReattachment(CancelQueued(owned, Inputs), x)
    <3>1. epoch + 1 \in Nat /\ epoch' # epoch
      BY <1>0
    <3>2. PICK x \in {None, epoch + 1} : owned' = FinishedReattachment(CancelQueued(owned, Inputs), x)
      BY <3>1 DEF Attached
    <3> QED BY <3>1, <3>2
  <2>2. CancelQueued(owned, Inputs) \in OwnedTable /\ CancelQueued(owned, Inputs)[g].cancelled
        /\ CancelQueued(owned, Inputs)[g] # None /\ ~CancelQueued(owned, Inputs)[g].reattach
    BY <1>0, <1>2, Cancels DEF Free, Alike
  <2>3. owned'[g] = CancelQueued(owned, Inputs)[g]
    BY <2>1, <2>2, Finishes
  <2> QED BY <2>2, <2>3 DEF Stale
<1>3. ASSUME NEW s \in Sessions, pending'[s] # None, Current(s)' PROVE FALSE
  <2>1. pending[s] # None
    BY <1>3 DEF Attached
  <2>2. PICK e \in Inputs : /\ e = pending[s].input /\ pending'[s].input = e
                            /\ owned[e] # None /\ owned'[e] = owned[e]
    BY <1>1, <1>3, <2>1, StartStays
  <2>3. owned[e].epoch <= epoch /\ owned[e].epoch \in Nat /\ owned[e].epoch = epoch'
    BY <1>0, <1>3, <2>2 DEF Dates, Current, OwnedTable, QueuedInput
  <2> QED BY <1>0, <2>3
<1> QED BY <1>2, <1>3

\* While operations only end and only inbound work is admitted, nothing gets in front
\* of a follow-up but what was there when the follow-up became ready.
LEMMA FrontKept ==
    ASSUME Carried, SteadyOp, NEW w, w.from # "inbound", NEW g \in Inputs,
           lane' = lane \/ \E e \in Inputs : lane' = Append(lane, [from |-> "inbound", input |-> e]),
           InFront(w, g)'
    PROVE  \/ InFront(w, g)
           \/ /\ ~InReady(g) /\ InReady(g)'
              /\ Doing(w.from, w.input) \/ w \in SeqRange(lane)
<1>1. lane \in Seq(Work)
  BY DEF Carried, TypeOK
<1>2. /\ w \in SeqRange(lane') => w \in SeqRange(lane)
      /\ InLane(g)' => InLane(g)
      /\ Precedes(lane', w, QueuedWork(g)) => Precedes(lane, w, QueuedWork(g))
  <2>1. CASE lane' = lane
    BY <2>1 DEF InLane
  <2>2. ASSUME NEW e \in Inputs, lane' = Append(lane, [from |-> "inbound", input |-> e])
        PROVE  /\ w \in SeqRange(lane') => w \in SeqRange(lane)
               /\ InLane(g)' => InLane(g)
               /\ Precedes(lane', w, QueuedWork(g)) => Precedes(lane, w, QueuedWork(g))
    <3>1. PICK x : x = [from |-> "inbound", input |-> e]
      OBVIOUS
    <3>2. x \in Work /\ x.from = "inbound" /\ QueuedWork(g).from = "queued"
      BY <3>1 DEF Work, QueuedWork
    <3>3. x # w /\ x # QueuedWork(g)
      BY <3>2
    <3>4. SeqRange(lane') = SeqRange(lane) \cup {x}
      BY <1>1, <2>2, <3>1, <3>2, RangeAppend
    <3>5. Precedes(lane', w, QueuedWork(g)) => Precedes(lane, w, QueuedWork(g))
      BY <1>1, <2>2, <3>1, <3>2, <3>3, PrecedesAppend
    <3> QED BY <3>3, <3>4, <3>5 DEF InLane
  <2> QED BY <2>1, <2>2
<1>3. Doing(w.from, w.input)' => Doing(w.from, w.input)
  BY DEF SteadyOp, Doing
<1>4. \/ Doing(w.from, w.input) /\ (InLane(g) \/ InReady(g)')
      \/ Precedes(lane, w, QueuedWork(g))
      \/ w \in SeqRange(lane) /\ InReady(g)'
  BY <1>2, <1>3 DEF InFront
<1> QED BY <1>4 DEF InFront

\* Admission and dispatch keep the order.
LEMMA FrontMoves ==
    ASSUME Carried, NextPending \/ Dispatch, NEW w \in Work, w.from # "inbound", NEW g \in Inputs,
           InFront(w, g)'
    PROVE  InFront(w, g) \/ \E f \in Inputs : w = QueuedWork(f) /\ Precedes(ready, f, g)
<1>1. lane \in Seq(Work) /\ ready \in Seq(Inputs) /\ QueuedWork(g) \in Work
  BY DEF Carried, TypeOK, QueuedWork, Work
<1>2. CASE Dispatch
  <2>1. /\ lane # <<>> /\ lane' = Tail(lane) /\ ready' = ready
        /\ op' # None /\ op'.from = Head(lane).from /\ op'.input = Head(lane).input
    <3>1. PICK h \in Work : h = Head(lane)
      BY <1>1, <1>2, RangeTail DEF Dispatch
    <3>2. op' = [from |-> h.from, input |-> h.input, step |-> "begin", result |-> None]
      BY <1>2, <3>1 DEF Dispatch
    <3>3. op' \in Operation
      BY <3>1, <3>2 DEF Operation, Work
    <3> QED BY <1>2, <3>1, <3>2, <3>3, NoneIsNothing DEF Dispatch
  <2>2. /\ Head(lane) \in Work /\ SeqRange(lane) = SeqRange(lane') \cup {Head(lane)}
    BY <1>1, <2>1, RangeTail
  <2>3. Doing(w.from, w.input)' => w = Head(lane)
    BY <2>1, <2>2 DEF Doing, Work
  <2>4. /\ Precedes(lane', w, QueuedWork(g)) => Precedes(lane, w, QueuedWork(g))
        /\ w = Head(lane) /\ QueuedWork(g) \in SeqRange(lane') => Precedes(lane, w, QueuedWork(g))
    BY <1>1, <2>1, PrecedesTail
  <2>5. InReady(g)' <=> InReady(g)
    BY <2>1 DEF InReady
  <2> QED BY <2>2, <2>3, <2>4, <2>5 DEF InFront, InLane
<1>3. ASSUME ready # <<>>, UNCHANGED op, ready' = Tail(ready),
             lane' = Append(lane, [from |-> "queued", input |-> Head(ready)])
      PROVE  InFront(w, g) \/ \E f \in Inputs : w = QueuedWork(f) /\ Precedes(ready, f, g)
  <2>1. PICK h \in Inputs : h = Head(ready)
    BY <1>1, <1>3, RangeTail
  <2>2. QueuedWork(h) \in Work /\ lane' = Append(lane, QueuedWork(h))
    BY <1>3, <2>1 DEF QueuedWork, Work
  <2>3. SeqRange(lane') = SeqRange(lane) \cup {QueuedWork(h)}
    BY <1>1, <2>2, RangeAppend
  <2>4. SeqRange(ready) = SeqRange(ready') \cup {h}
    BY <1>1, <1>3, <2>1, RangeTail
  <2>5. QueuedWork(g) = QueuedWork(h) => g = h
    BY DEF QueuedWork
  <2>6. InLane(g)' => InLane(g) \/ g = h
    BY <2>3, <2>5 DEF InLane
  <2>7. InReady(g)' => InReady(g) /\ g \in SeqRange(ready')
    BY <2>4 DEF InReady
  <2>8. InReady(h)
    BY <2>4 DEF InReady
  <2>9. Doing(w.from, w.input)' => Doing(w.from, w.input)
    BY <1>3 DEF Doing
  <2>10. CASE Doing(w.from, w.input)' /\ (InLane(g)' \/ InReady(g)')
    BY <2>6, <2>7, <2>8, <2>9, <2>10 DEF InFront
  <2>11. CASE Precedes(lane', w, QueuedWork(g))
    <3>1. Precedes(lane, w, QueuedWork(g)) \/ (w \in SeqRange(lane) /\ QueuedWork(g) = QueuedWork(h))
      BY <1>1, <2>2, <2>11, PrecedesAppend
    <3> QED BY <2>5, <2>8, <3>1 DEF InFront
  <2>12. CASE w \in SeqRange(lane') /\ InReady(g)'
    <3>1. w \in SeqRange(lane) \/ w = QueuedWork(h)
      BY <2>3, <2>12
    <3>2. w = QueuedWork(h) => Precedes(ready, h, g)
      BY <1>1, <1>3, <2>1, <2>7, <2>12, PrecedesTail
    <3> QED BY <2>1, <2>7, <2>12, <3>1, <3>2 DEF InFront
  <2> QED BY <2>10, <2>11, <2>12 DEF InFront
<1>4. ASSUME ready = <<>>, UNCHANGED <<op, ready>>, NEW e \in Inputs, lane' = Append(lane, AckWork(e))
      PROVE  InFront(w, g)
  <2>1. AckWork(e) \in Work /\ AckWork(e) # QueuedWork(g)
    <3>1. AckWork(e).from = "ack" /\ QueuedWork(g).from = "queued"
      BY DEF AckWork, QueuedWork
    <3> QED BY <3>1 DEF AckWork, Work
  <2>2. SeqRange(lane') = SeqRange(lane) \cup {AckWork(e)}
    BY <1>1, <1>4, <2>1, RangeAppend
  <2>3. Precedes(lane', w, QueuedWork(g)) => Precedes(lane, w, QueuedWork(g))
    BY <1>1, <1>4, <2>1, PrecedesAppend
  <2>4. ~InReady(g)' /\ (InLane(g)' => InLane(g))
    BY <1>4, <2>1, <2>2 DEF InReady, SeqRange, InLane
  <2>5. Doing(w.from, w.input)' => Doing(w.from, w.input)
    BY <1>4 DEF Doing
  <2> QED BY <2>3, <2>4, <2>5 DEF InFront
<1>5. CASE NextPending
  <2>1. CASE ready # <<>> /\ ready' = Tail(ready) /\ UNCHANGED op
              /\ lane' = Append(lane, [from |-> "queued", input |-> Head(ready)])
    BY <1>3, <2>1
  <2>2. CASE ready = <<>> /\ UNCHANGED <<op, ready>>
             /\ \E e \in Acknowledgeable : lane' = Append(lane, AckWork(e))
    <3>1. Acknowledgeable \subseteq Inputs
      BY DEF Acknowledgeable, Carried, TypeOK, Pending
    <3> QED BY <1>4, <2>2, <3>1
  <2> QED BY <1>5, <2>1, <2>2 DEF NextPending
<1> QED BY <1>2, <1>5

\* Steps in which a session is left.
Leaving == StopCurrent \/ Attach \/ Attached \/ \E s \in Sessions : SessionExited(s)

\* What becomes ready: what an attachment held back, a new input that waits for
\* follow-ups alone, and what was behind a start that is handed on.
LEMMA ReadySteps ==
    ASSUME Carried, [Next]_vars
    PROVE  \/ NextPending \/ Dispatch \/ Exit \/ Crash
           \/ /\ SteadyOp
              /\ lane' = lane \/ \E e \in Inputs : lane' = Append(lane, [from |-> "inbound", input |-> e])
              /\ \/ ready' = ready
                 \/ Leaving /\ ready' \in ReadyAfter(owned) /\ Freed(owned')
                 \/ /\ SendPrompt /\ op' = None /\ lane' = lane /\ ready' = Append(ready, op.input)
                    /\ op # None /\ op.from = "inbound" /\ op.step = "handle"
                    /\ bound \in Sessions /\ pending[bound] = None
                 \/ \E s \in Sessions, e \in Inputs :
                       /\ ApplyAcknowledged /\ Doing("ack", e) /\ Start(s, e) /\ HandOn(s, e)
                       /\ op' = None /\ lane' = lane /\ pending'[s] = None
                       /\ ready' = ready \o pending[s].queued
<1>0. op # None => op \in Operation /\ op.input \in Inputs
  BY DEF Carried, TypeOK, Operation
<1>1. CASE StopCurrent \/ Attach
  <2>1. op # None /\ op.input \in Inputs /\ op \in Operation /\ \E r : Result(r)
    BY <1>0, <1>1 DEF StopCurrent, Attach, At
  <2>2. op' # None /\ op'.from = op.from /\ op'.input = op.input
    <3>1. PICK r : op' = [op EXCEPT !.step = "settle", !.result = r]
      BY <2>1 DEF Result
    <3>2. r \in {None, "ok", "refused"}
      BY <1>1, <2>1, <3>1 DEF StopCurrent, Attach, Result, Operation
    <3>3. op' \in Operation
      BY <2>1, <3>1, <3>2 DEF Operation
    <3> QED BY <2>1, <3>1, <3>3, NoneIsNothing DEF Operation
  <2>3. lane' = lane /\ (ready' = ready \/ (ready' \in ReadyAfter(owned) /\ Freed(owned')))
    BY <1>1, Leaves
  <2> QED BY <1>1, <2>1, <2>2, <2>3 DEF SteadyOp, Leaving
<1>2. CASE Attached \/ \E s \in Sessions : SessionExited(s)
  <2>1. op' = None
    BY <1>2 DEF Attached, SessionExited, Idle
  <2>2. lane' = lane /\ (ready' = ready \/ (ready' \in ReadyAfter(owned) /\ Freed(owned')))
    BY <1>2, Leaves
  <2> QED BY <1>2, <2>1, <2>2 DEF SteadyOp, Leaving
<1>3. CASE SendPrompt \/ DeferPrompt
  <2>1. op # None /\ op \in Operation /\ op.from \in {"inbound", "queued"} /\ op.step # "begin"
        /\ (op' = None \/ (op' \in Operation /\ op'.from = op.from /\ op'.input = op.input))
    BY <1>3, Waits
  <2>2. SteadyOp /\ lane' = lane
    BY <1>3, <2>1, NoneIsNothing DEF SteadyOp, SendPrompt, DeferPrompt
  <2>3. CASE ready' = ready
    BY <2>2, <2>3
  <2>4. CASE ready' # ready
    <3>1. SendPrompt
      BY <1>3, <2>4 DEF DeferPrompt
    <3>2. PICK s \in Sessions : s = bound /\ pending[s] = None /\ MustWait(s) /\ QueueWaiting(op.input, s, FALSE)
      <4>1. ~QueueWaiting(op.input, attaching.session, TRUE)
        BY <2>4 DEF QueueWaiting
      <4>2. bound \in Writable /\ MustWait(bound) /\ QueueWaiting(op.input, bound, FALSE)
        BY <2>4, <3>1, <4>1 DEF SendPrompt
      <4>3. pending[bound] = None
        BY <2>4, <4>2 DEF QueueWaiting
      <4> QED BY <4>2, <4>3, SessionsTyped
    <3>3. op.from = "inbound"
      BY <3>2 DEF MustWait
    <3>4. ready' = Append(ready, op.input) /\ op' = None
      BY <2>4, <3>2 DEF QueueWaiting, EndOp
    <3>5. op.step = "handle"
      BY <3>1 DEF SendPrompt, At
    <3> QED BY <2>1, <2>2, <3>1, <3>2, <3>3, <3>4, <3>5
  <2> QED BY <2>3, <2>4
<1>4. CASE ApplyAcknowledged
  <2>1. PICK e \in Inputs : e = op.input
    BY <1>0, <1>4 DEF ApplyAcknowledged, At
  <2>2. PICK s : s = rpc[e].session
    OBVIOUS
  <2>3. Doing("ack", e) /\ op' = None /\ lane' = lane
    BY <1>4, <2>1 DEF ApplyAcknowledged, At, Doing, EndOp
  <2>4. s \in Sessions /\ Start(s, e)
    BY <2>2, <2>3 DEF Carried, Placement, AcksSound, Answered
  <2>5. pending'[s] = None
    BY <1>4, <2>1, <2>2, <2>4 DEF ApplyAcknowledged, Carried, TypeOK
  <2>6. ready' = IF HandOn(s, e) THEN ready \o pending[s].queued ELSE ready
    BY <1>4, <2>1, <2>2 DEF ApplyAcknowledged
  <2> QED BY <1>4, <2>3, <2>4, <2>5, <2>6 DEF SteadyOp
<1>5. CASE Claim \/ TakeQueued \/ KeepAwaiting
  <2>1. /\ op # None /\ op \in Operation /\ UNCHANGED <<lane, ready>>
        /\ op' = None \/ op' \in {[op EXCEPT !.step = "handle"], [op EXCEPT !.step = "await"]}
    BY <1>0, <1>5 DEF Claim, TakeQueued, KeepAwaiting, At, EndOp
  <2>2. op' = None \/ (op' \in Operation /\ op'.from = op.from /\ op'.input = op.input)
    BY <2>1 DEF Operation
  <2> QED BY <2>1, <2>2, NoneIsNothing DEF SteadyOp
<1>6. CASE Settle \/ AbortWorker \/ WorkerPanics
  BY <1>6 DEF Settle, AbortWorker, WorkerPanics, EndOp, SteadyOp
<1>7. ASSUME NEW e \in Inputs, Deliver(e)
      PROVE  /\ UNCHANGED <<op, ready>>
             /\ lane' = lane \/ lane' = Append(lane, [from |-> "inbound", input |-> e])
  BY <1>7 DEF Deliver
<1>8. CASE \/ FenceOwned \/ Shutdown \/ Reconnected \/ UNCHANGED vars
           \/ Restart \/ (\E e \in Inputs : AgentAnswers(e))
           \/ \E s \in Sessions : TurnStarted(s) \/ TurnCompleted(s)
  <2>1. UNCHANGED <<op, lane, ready>>
    BY <1>8 DEF FenceOwned, Shutdown, Reconnected, vars, AgentAnswers,
        Restart, TurnStarted, TurnCompleted, inputState
  <2> QED BY <2>1 DEF SteadyOp
<1>9. \A e \in Inputs : Deliver(e) => SteadyOp
  BY <1>7 DEF SteadyOp
<1> QED BY <1>1, <1>2, <1>3, <1>4, <1>5, <1>6, <1>7, <1>8, <1>9 DEF Next, Progress, Operate

\* What an attachment held back may be sent only if the attachment was committed.
LEMMA Released ==
    ASSUME Carried, Leaving, NEW g \in Inputs, owned[g] # None, owned[g].reattach,
           ~owned'[g].reattach, ~Stale(g)'
    PROVE  Attached /\ epoch' = epoch + 1
<1> DEFINE shut == FinishedReattachment(owned, None)
<1>1. owned \in OwnedTable
  BY DEF Carried, TypeOK, OwnedTable
<1>2. shut \in OwnedTable /\ shut[g] # None /\ shut[g].cancelled
  <2>1. PICK x \in Nat \cup {None} : x = None
    OBVIOUS
  <2> QED BY <1>1, <2>1, Finishes
<1>3. ~owned'[g].cancelled
  BY DEF Stale
<1>4. PICK s : \/ owned' \in {owned, CancelSession(owned, s)}
               \/ owned' \in {shut, CancelSession(shut, s)}
               \/ Attached /\ epoch' = epoch + 1
  BY Rebindings DEF Leaving
<1>5. CancelSession(owned, s)[g].reattach
  BY <1>1, Cancels DEF CancelSession, Alike
<1>6. CancelSession(shut, s)[g].cancelled
  <2> HIDE DEF shut
  <2> QED BY <1>2, Cancels DEF CancelSession, Alike
<1> QED BY <1>2, <1>3, <1>4, <1>5, <1>6

\* A follow-up that is being sent was taken when it was not stale.
LEMMA HandleSteps ==
    ASSUME Carried, [Next]_vars, op' # None, op'.from = "queued", op'.step = "handle"
    PROVE  \/ op' = op /\ ~SendPrompt /\ ~DeferPrompt
           \/ TakeQueued /\ op # None /\ op'.input = op.input /\ ~Stale(op.input) /\ UNCHANGED owned
<1>0. op # None => op \in Operation /\ op.input \in Inputs
  BY DEF Carried, TypeOK, Operation
<1>1. CASE SendPrompt \/ DeferPrompt
  <2>1. op' = None \/ op'.step \in {"settle", "await", "window"}
    BY <1>1, Waits
  <2> QED BY <2>1
<1>2. CASE StopCurrent \/ Attach
  <2>1. op # None /\ op \in Operation /\ \E r : Result(r)
    BY <1>0, <1>2 DEF StopCurrent, Attach, At
  <2>2. op'.step = "settle"
    BY <2>1 DEF Result, Operation
  <2> QED BY <2>2
<1>3. CASE Claim \/ KeepAwaiting
  <2>1. /\ op # None /\ op \in Operation
        /\ \/ op' = None
           \/ op.from = "inbound" /\ op' = [op EXCEPT !.step = "handle"]
           \/ op' = [op EXCEPT !.step = "await"]
    BY <1>0, <1>3 DEF Claim, KeepAwaiting, At, EndOp
  <2> QED BY <2>1 DEF Operation
<1>4. CASE TakeQueued
  <2>1. /\ op # None /\ op \in Operation /\ op' = [op EXCEPT !.step = "handle"]
        /\ ~Stale(op.input) /\ UNCHANGED owned
    BY <1>0, <1>4 DEF TakeQueued, At, EndOp
  <2> QED BY <1>4, <2>1 DEF Operation
<1>5. CASE Dispatch
  <2>1. op'.step = "begin"
    BY <1>5 DEF Dispatch
  <2> QED BY <2>1
<1>6. CASE \/ Settle \/ ApplyAcknowledged \/ AbortWorker \/ WorkerPanics \/ Exit \/ Crash
  BY <1>6 DEF Settle, ApplyAcknowledged, AbortWorker, WorkerPanics, EndOp, Exit, Crash, LoseMemory
<1>7. CASE /\ \/ NextPending \/ FenceOwned \/ Shutdown \/ Reconnected \/ UNCHANGED vars \/ Attached
              \/ Restart \/ (\E e \in Inputs : Deliver(e) \/ AgentAnswers(e))
              \/ \E s \in Sessions : TurnStarted(s) \/ TurnCompleted(s) \/ SessionExited(s)
           /\ ~SendPrompt /\ ~DeferPrompt
  <2>1. op' = op
    BY <1>7 DEF NextPending, Attached, SessionExited, FenceOwned, Shutdown, Reconnected, vars, Deliver,
        AgentAnswers, Restart, TurnStarted, TurnCompleted, inputState
  <2> QED BY <1>7, <2>1
<1> QED BY <1>1, <1>2, <1>3, <1>4, <1>5, <1>6, <1>7 DEF Next, Progress, Operate

\* What is still owned keeps its age unless it is queued again or becomes a start.
LEMMA AgeStays ==
    ASSUME Carried, [Next]_vars, NEW f \in Inputs, owned[f] # None, owned'[f] # None,
           f = op.input /\ (SendPrompt \/ DeferPrompt) => owned'[f] = owned[f]
    PROVE  Age(f)' = Age(f)
BY OwnedSteps DEF Age

\* What may still be sent could be sent before.
LEMMA EligibleStays ==
    ASSUME Carried, [Next]_vars, Dates, NEW f \in Inputs, Free(f), Eligible(f)',
           f = op.input /\ (SendPrompt \/ DeferPrompt) => owned'[f] = owned[f]
    PROVE  Eligible(f) /\ Age(f)' = Age(f)
<1>1. owned[f] # None /\ ~owned[f].reattach
  BY DEF Free
<1>2. CASE ~Stale(f)'
  <2>1. ~Stale(f) /\ Age(f)' = Age(f)
    BY <1>1, <1>2, LiveStays
  <2> QED BY <2>1 DEF Eligible
<1>3. CASE Resuming(f)' /\ op'.step = "handle"
  <2>1. op' # None /\ op'.from = "queued" /\ op'.input = f
    BY <1>3 DEF Resuming, Doing
  <2>2. CASE op' = op
    <3>1. Carried'
      BY CarriedStep
    <3>2. owned'[f] # None
      BY <1>3, <3>1 DEF Carried, Placement, Apart, Free
    <3>3. Age(f)' = Age(f)
      BY <1>1, <3>2, AgeStays
    <3> QED BY <1>3, <2>1, <2>2, <3>3 DEF Eligible, Resuming, Doing
  <2>3. CASE op # None /\ op'.input = op.input /\ ~Stale(op.input) /\ UNCHANGED owned
    BY <2>1, <2>3 DEF Eligible, Age
  <2> QED BY <1>3, <2>1, <2>2, <2>3, HandleSteps
<1> QED BY <1>2, <1>3 DEF Eligible

\* Where the order held it still holds.
LEMMA LineKept ==
    ASSUME Carried, [Next]_vars, Dates, Line, NEW f \in Inputs, NEW g \in Inputs,
           Before(f, g), Eligible(f)', ~Stale(g)',
           f = op.input /\ (SendPrompt \/ DeferPrompt) => owned'[f] = owned[f]
    PROVE  Age(f)' < Age(g)'
<1>1. Free(f) /\ Free(g) /\ (InLane(g) \/ InReady(g))
  BY BeforePlaced
<1>2. Eligible(f) /\ Age(f)' = Age(f)
  BY <1>1, EligibleStays
<1>3. SendPrompt \/ DeferPrompt => g # op.input
  <2>1. SendPrompt \/ DeferPrompt => /\ op # None /\ op.from \in {"inbound", "queued"}
                                     /\ op.step # "begin"
    BY Waits
  <2> QED BY <1>1, <2>1, Elsewhere
<1>4. ~Stale(g) /\ Age(g)' = Age(g)
  <2>1. owned[g] # None /\ ~owned[g].reattach
    BY <1>1 DEF Free
  <2>2. g = op.input /\ (SendPrompt \/ DeferPrompt) => owned'[g] = owned[g]
    BY <1>3
  <2> QED BY <2>1, <2>2, LiveStays
<1>5. Age(f) < Age(g)
  BY <1>2, <1>4 DEF Line
<1> QED BY <1>2, <1>4, <1>5

\* An input that is kept anew is not in front of anything.
LEMMA SenderLast ==
    ASSUME Carried, SendPrompt \/ DeferPrompt, NEW f \in Inputs, NEW g \in Inputs, f = op.input,
           owned'[f] # owned[f], lane' = lane, ready' = ready \/ ready' = Append(ready, f)
    PROVE  ~Before(f, g)'
<1>1. op # None /\ op.from \in {"inbound", "queued"} /\ op.step # "begin" /\ op' = None
  BY Waits
<1>2. ~InReady(f) /\ ~InLane(f)
  BY <1>1, Elsewhere
<1>3. ready \in Seq(Inputs)
  BY DEF Carried, TypeOK
<1>4. ~Precedes(ready', f, g)
  <2>1. ~Precedes(ready, f, g) /\ f \notin SeqRange(ready)
    BY <1>2 DEF InReady, Precedes, SeqRange
  <2>2. ASSUME ready' = Append(ready, f), Precedes(ready', f, g) PROVE FALSE
    <3>1. Precedes(Append(ready, f), f, g)
      BY <2>2
    <3>2. Precedes(ready, f, g) \/ f \in SeqRange(ready)
      BY <1>3, <3>1, PrecedesAppend
    <3> QED BY <2>1, <3>2
  <2> QED BY <2>1, <2>2
<1>5. ~Precedes(lane, QueuedWork(f), QueuedWork(g)) /\ QueuedWork(f) \notin SeqRange(lane)
  BY <1>2 DEF InLane, Precedes, SeqRange
<1> QED BY <1>1, <1>4, <1>5 DEF Before, InFront, Doing

\* Every step keeps the line.
LEMMA LineStep ==
    ASSUME Carried, [Next]_vars, Dates, Marks, Line, BehindOrder, Handed PROVE Line'
<1> SUFFICES ASSUME NEW f \in Inputs, NEW g \in Inputs, Before(f, g)', Eligible(f)', ~Stale(g)'
             PROVE  Age(f)' < Age(g)'
  BY DEF Line
<1>0. /\ lane \in Seq(Work) /\ ready \in Seq(Inputs)
      /\ QueuedWork(f) \in Work /\ QueuedWork(f).from = "queued" /\ QueuedWork(f).input = f
  BY DEF Carried, TypeOK, QueuedWork, Work
<1>1. CASE NextPending \/ Dispatch
  <2>1. Precedes(ready', f, g) => Precedes(ready, f, g)
    <3>1. ready' = ready \/ (ready # <<>> /\ ready' = Tail(ready))
      BY <1>1 DEF NextPending, Dispatch
    <3> QED BY <1>0, <3>1, PrecedesTail
  <2>2. InFront(QueuedWork(f), g)' => Before(f, g)
    <3>1. ASSUME InFront(QueuedWork(f), g)'
          PROVE  InFront(QueuedWork(f), g) \/ \E e \in Inputs : QueuedWork(f) = QueuedWork(e) /\ Precedes(ready, e, g)
      <4>1. PICK w \in Work : w = QueuedWork(f)
        BY <1>0
      <4>2. InFront(w, g)'
        BY <3>1, <4>1 DEF QueuedWork
      <4>3. w.from # "inbound"
        BY <1>0, <4>1
      <4> QED BY <1>1, <4>1, <4>2, <4>3, FrontMoves
    <3>2. \A e \in Inputs : QueuedWork(f) = QueuedWork(e) => f = e
      BY DEF QueuedWork
    <3> QED BY <3>1, <3>2 DEF Before
  <2>3. Before(f, g) /\ owned' = owned
    BY <1>1, <2>1, <2>2 DEF Before, NextPending, Dispatch
  <2> QED BY <2>3, LineKept
<1>2. CASE Exit \/ Crash
  <2>1. op' = None /\ lane' = <<>> /\ ready' = <<>>
    BY <1>2 DEF Exit, Crash, LoseMemory
  <2> QED BY <2>1 DEF Before, InFront, Precedes, SeqRange, Doing, InReady
<1>3. ASSUME InFront(QueuedWork(f), g)', SteadyOp,
             lane' = lane \/ \E e \in Inputs : lane' = Append(lane, [from |-> "inbound", input |-> e])
      PROVE  \/ Before(f, g)
             \/ ~InReady(g) /\ g \in SeqRange(ready') /\ (Resuming(f) \/ InLane(f))
  <2>1. PICK w : w = QueuedWork(f)
    OBVIOUS
  <2>2. InFront(w, g)' /\ w.from = "queued" /\ w.input = f
    BY <1>0, <1>3, <2>1 DEF QueuedWork
  <2>3. \/ InFront(w, g)
        \/ ~InReady(g) /\ InReady(g)' /\ (Doing(w.from, w.input) \/ w \in SeqRange(lane))
    BY <1>3, <2>2, FrontKept
  <2> QED BY <2>1, <2>2, <2>3 DEF Before, InReady, Resuming, InLane
<1>4. ASSUME SteadyOp, ready' = ready,
             lane' = lane \/ \E e \in Inputs : lane' = Append(lane, [from |-> "inbound", input |-> e])
      PROVE  Age(f)' < Age(g)'
  <2>1. Before(f, g)
    BY <1>3, <1>4 DEF Before, InReady
  <2>2. SendPrompt \/ DeferPrompt => lane' = lane
    BY DEF SendPrompt, DeferPrompt
  <2>3. f = op.input /\ (SendPrompt \/ DeferPrompt) => owned'[f] = owned[f]
    BY <1>4, <2>2, SenderLast
  <2> QED BY <2>1, <2>3, LineKept
<1>5. ASSUME SteadyOp, Leaving, ready' \in ReadyAfter(owned), Freed(owned'),
             lane' = lane \/ \E e \in Inputs : lane' = Append(lane, [from |-> "inbound", input |-> e])
      PROVE  Age(f)' < Age(g)'
  <2>1. PICK r \in ByAge(owned, Reattaching(owned)) : ready' = ready \o r
    BY <1>5 DEF ReadyAfter
  <2>2. /\ r \in Seq(Inputs) /\ SeqRange(r) = Reattaching(owned)
        /\ Precedes(r, f, g) => owned[f].seq < owned[g].seq
    <3>1. PICK n \in Nat : n = Cardinality(Reattaching(owned))
      <4>1. IsFiniteSet(Reattaching(owned))
        <5>1. Reattaching(owned) \subseteq Owned
          BY DEF Reattaching, Owned
        <5> QED BY <5>1, FS_Subset DEF Carried, Finite
      <4> QED BY <4>1, FS_CardinalityType
    <3>2. /\ r \in [1..n -> Reattaching(owned)] /\ SeqRange(r) = Reattaching(owned)
          /\ \A i, j \in 1..n : i < j => owned[r[i]].seq < owned[r[j]].seq
      BY <2>1, <3>1 DEF ByAge
    <3>3. Reattaching(owned) \subseteq Inputs
      BY DEF Reattaching
    <3>4. r \in Seq(Inputs) /\ Len(r) = n
      BY <3>1, <3>2, <3>3
    <3> QED BY <3>2, <3>4 DEF Precedes
  <2>3. ~SendPrompt /\ ~DeferPrompt
    BY <1>5 DEF Leaving, SendPrompt, DeferPrompt, StopCurrent, Attach, Attached, SessionExited, Idle, At
  <2>4. Before(f, g) => Age(f)' < Age(g)'
    BY <2>3, LineKept
  <2>5. ASSUME Free(f), g \in Reattaching(owned) PROVE FALSE
    <3>1. Attached /\ epoch' = epoch + 1
      BY <1>5, <2>5, Released DEF Freed, Reattaching
    <3>2. Stale(f)' /\ op' = None
      BY <2>5, <3>1, Committed DEF Attached
    <3> QED BY <3>2 DEF Eligible, Resuming, Doing
  <2>6. SeqRange(ready') = SeqRange(ready) \cup Reattaching(owned)
    BY <1>0, <2>1, <2>2, RangeConcat
  <2>7. Resuming(f) \/ InLane(f) \/ InReady(f) => Free(f)
    BY DEF Carried, Placement, LaneSound, ReadySound, Apart
  <2>8. CASE InFront(QueuedWork(f), g)'
    <3>1. CASE ~InReady(g) /\ g \in SeqRange(ready') /\ (Resuming(f) \/ InLane(f))
      BY <2>5, <2>6, <2>7, <3>1 DEF InReady
    <3> QED BY <1>3, <1>5, <2>4, <2>8, <3>1
  <2>9. CASE Precedes(ready', f, g)
    <3>1. CASE Precedes(ready, f, g)
      BY <2>4, <3>1 DEF Before
    <3>2. CASE Precedes(r, f, g)
      <4>1. f \in Reattaching(owned) /\ g \in Reattaching(owned)
        BY <2>2, <3>2 DEF Precedes, SeqRange
      <4>2. SameAge(owned[f], owned'[f]) /\ SameAge(owned[g], owned'[g])
        BY <1>5, <4>1, Redated DEF Leaving, Reattaching
      <4> QED BY <2>2, <3>2, <4>2 DEF SameAge, Age
    <3>3. CASE f \in SeqRange(ready) /\ g \in SeqRange(r)
      BY <2>2, <2>5, <2>7, <3>3 DEF InReady
    <3> QED BY <1>0, <2>1, <2>2, <2>9, <3>1, <3>2, <3>3, PrecedesConcat
  <2> QED BY <2>8, <2>9 DEF Before
<1>6. ASSUME SteadyOp, SendPrompt, op' = None, lane' = lane, ready' = Append(ready, op.input),
             op # None, op.from = "inbound", op.step = "handle"
      PROVE  Age(f)' < Age(g)'
  <2>1. PICK e \in Inputs : e = op.input
    BY <1>6, Elsewhere
  <2>2. owned[e] = None /\ ~InReady(e) /\ ~InLane(e)
    BY <1>6, <2>1, Elsewhere
  <2>3. ready' = Append(ready, e) /\ SeqRange(ready') = SeqRange(ready) \cup {e}
    BY <1>0, <1>6, <2>1, RangeAppend
  <2>4. Before(f, g) \/ (g = e /\ (Resuming(f) \/ InLane(f) \/ InReady(f)))
    <3>1. CASE InFront(QueuedWork(f), g)'
      BY <1>3, <1>6, <2>3, <3>1 DEF InReady
    <3>2. CASE Precedes(ready', f, g)
      <4>1. Precedes(ready, f, g) \/ (f \in SeqRange(ready) /\ g = e)
        BY <1>0, <2>3, <3>2, PrecedesAppend
      <4> QED BY <4>1 DEF Before, InReady
    <3> QED BY <3>1, <3>2 DEF Before
  <2>5. f = op.input /\ (SendPrompt \/ DeferPrompt) => owned'[f] = owned[f]
    BY <1>6, SenderLast
  <2>6. CASE g = e /\ (Resuming(f) \/ InLane(f) \/ InReady(f))
    <3>1. Free(f)
      BY <2>6 DEF Carried, Placement, LaneSound, ReadySound, Apart
    <3>2. Age(f)' = Age(f)
      BY <2>5, <3>1, EligibleStays
    <3>3. Age(f) < nextSeq
      BY <3>1 DEF Marks, Awaits, Free
    <3>4. owned'[g] # None
      BY DEF Stale
    <3>5. owned'[g].seq = nextSeq
      <4>1. ~DeferPrompt
        BY <1>6 DEF DeferPrompt, At
      <4> QED BY <2>2, <2>6, <3>4, <4>1, OwnedSteps
    <3> QED BY <3>2, <3>3, <3>5 DEF Age
  <2> QED BY <2>4, <2>5, <2>6, LineKept
<1>7. ASSUME SteadyOp, NEW s \in Sessions, NEW e \in Inputs, ApplyAcknowledged, Doing("ack", e),
             Start(s, e), HandOn(s, e), op' = None, lane' = lane, ready' = ready \o pending[s].queued
      PROVE  Age(f)' < Age(g)'
  <2>1. PICK q \in Seq(Inputs) : q = pending[s].queued
    BY <1>7 DEF Start, Carried, TypeOK, Pending
  <2>2. ready' = ready \o q /\ SeqRange(ready') = SeqRange(ready) \cup SeqRange(q)
    BY <1>0, <1>7, <2>1, RangeConcat
  <2>3. ~SendPrompt /\ ~DeferPrompt
    BY <1>7 DEF ApplyAcknowledged, SendPrompt, DeferPrompt, At
  <2>4. InLane(f) \/ InReady(f) => Stale(f) /\ Free(f)
    <3>1. pending[s] # None /\ Current(s) /\ pending[s].input = e
      BY <1>7 DEF Start, HandOn
    <3>2. InLane(f) \/ InReady(f) => InFront(AckWork(e), f)
      BY <1>7 DEF InFront, AckWork
    <3>3. InLane(f) \/ InReady(f) => Free(f)
      BY DEF Carried, Placement, LaneSound, ReadySound
    <3> QED BY <3>1, <3>2, <3>3 DEF Handed
  <2>5. ~InLane(f) /\ ~InReady(f)
    <3>1. ASSUME InLane(f) \/ InReady(f) PROVE FALSE
      <4>1. Eligible(f)
        BY <2>3, <2>4, <3>1, EligibleStays
      <4>2. ~Resuming(f)
        BY <1>7 DEF Resuming, Doing
      <4> QED BY <2>4, <3>1, <4>1, <4>2 DEF Eligible
    <3> QED BY <3>1
  <2>6. ~InFront(QueuedWork(f), g)'
    <3>1. ~Precedes(lane', QueuedWork(f), QueuedWork(g)) /\ QueuedWork(f) \notin SeqRange(lane')
      BY <1>7, <2>5 DEF InLane, Precedes, SeqRange
    <3> QED BY <1>7, <3>1 DEF InFront, Doing
  <2>7. Precedes(q, f, g)
    <3>1. Precedes(ready', f, g)
      BY <2>6 DEF Before
    <3>2. Precedes(ready, f, g) => InReady(f)
      BY DEF Precedes, InReady, SeqRange
    <3> QED BY <1>0, <2>2, <2>5, <3>1, <3>2, PrecedesConcat DEF InReady
  <2>8. Age(f) < Age(g) /\ Behind(s, f) /\ Behind(s, g)
    BY <1>7, <2>1, <2>7 DEF BehindOrder, Precedes, Start, Behind, SeqRange
  <2>9. Free(f) /\ Free(g)
    BY <2>8 DEF Carried, Placement, BehindSound
  <2>10. Age(f)' = Age(f)
    BY <2>3, <2>9, EligibleStays
  <2>11. Age(g)' = Age(g)
    <3>1. Eligible(g)'
      BY DEF Eligible
    <3> QED BY <2>3, <2>9, <3>1, EligibleStays
  <2> QED BY <2>8, <2>10, <2>11
<1> QED BY <1>1, <1>2, <1>4, <1>5, <1>6, <1>7, ReadySteps

\* How a start begins, and what happens to one until it is acknowledged.
LEMMA PendingSteps ==
    ASSUME Carried, [Next]_vars, NEW s \in Sessions, pending'[s] # None
    PROVE  \/ pending[s] = None /\ DeferPrompt /\ pending'[s].input = op.input /\ pending'[s].queued = <<>>
           \/ /\ pending[s] # None /\ (pending'[s].valid => pending[s].valid)
              /\ \/ pending'[s].queued = pending[s].queued
                 \/ /\ SendPrompt /\ op # None
                    /\ pending'[s].queued = InsertByAge(pending[s].queued, op.input, owned')
<1>0. /\ pending \in [Sessions -> Pending \cup {None}]
      /\ op # None => op.input \in Inputs
      /\ live \in [Sessions -> Inputs \cup {None}]
  BY DEF Carried, TypeOK, Operation
<1>1. CASE DeferPrompt
  <2>1. PICK r : r = rpc[op.input].session
    OBVIOUS
  <2>2. PICK x : /\ x.input = op.input /\ x.queued = <<>>
                 /\ pending[r] = None /\ pending' = [pending EXCEPT ![r] = x]
    <3>1. PICK x : x = [input |-> op.input, stop |-> FALSE, applied |-> FALSE, valid |-> TRUE,
                        observed |-> None, queued |-> <<>>]
      OBVIOUS
    <3> QED BY <1>1, <2>1, <3>1 DEF DeferPrompt, Room
  <2> QED BY <1>0, <1>1, <2>2
<1>2. ASSUME NEW r \in Sessions, NEW x \in Pending, pending[r] # None, pending' = [pending EXCEPT ![r] = x],
             x.valid => pending[r].valid, x.queued = pending[r].queued
      PROVE  pending[s] # None /\ (pending'[s].valid => pending[s].valid)
             /\ pending'[s].queued = pending[s].queued
  BY <1>0, <1>2
<1>3. CASE SendPrompt
  <2>1. op # None /\ op.input \in Inputs
    BY <1>0, <1>3 DEF SendPrompt, At
  <2>2. CASE pending' # pending
    <3>1. PICK r, b : QueueWaiting(op.input, r, b)
      BY <1>3, <2>2 DEF SendPrompt
    <3>2. PICK q : q = InsertByAge(pending[r].queued, op.input, owned')
      OBVIOUS
    <3>3. pending[r] # None /\ pending' = [pending EXCEPT ![r] = [pending[r] EXCEPT !.queued = q]]
      BY <2>2, <3>1, <3>2 DEF QueueWaiting
    <3>4. CASE r # s
      BY <1>0, <3>3, <3>4
    <3>5. CASE r = s
      <4>1. pending[s] \in Pending
        BY <1>0, <3>3, <3>5
      <4>2. q \in Seq(Inputs)
        BY <2>1, <3>2, <3>5, <4>1, RangeInsert DEF Pending
      <4>3. PICK x : x = [pending[s] EXCEPT !.queued = q]
        OBVIOUS
      <4>4. x \in Pending /\ x.valid = pending[s].valid /\ x.queued = q
        BY <4>1, <4>2, <4>3 DEF Pending
      <4>5. pending'[s] = x
        BY <1>0, <3>3, <3>5, <4>3
      <4> QED BY <1>3, <2>1, <3>2, <3>3, <3>5, <4>4, <4>5
    <3> QED BY <3>4, <3>5
  <2> QED BY <2>2
<1>4. CASE ApplyAcknowledged
  <2>1. op # None /\ op.from = "ack"
    BY <1>4 DEF ApplyAcknowledged, At
  <2>2. PICK r \in Sessions : r = rpc[op.input].session
    BY <2>1, Acknowledges DEF Carried
  <2>3. pending' = [pending EXCEPT ![r] = None]
    BY <1>4, <2>2 DEF ApplyAcknowledged
  <2> QED BY <1>0, <2>3
<1>5. CASE StopCurrent
  <2>1. CASE pending' = pending
    BY <2>1
  <2>2. CASE pending' # pending
    <3>1. bound \in Sessions
      BY <1>5, <2>2, SessionsTyped DEF StopCurrent
    <3>2. PICK b \in BOOLEAN : pending' = StopRequested(bound, b)
      BY <1>5, <2>2 DEF StopCurrent
    <3>3. pending[bound] # None /\ pending[bound] \in Pending
      BY <1>0, <2>2, <3>1, <3>2 DEF StopRequested
    <3>4. PICK x : x = [pending[bound] EXCEPT !.stop = TRUE,
                           !.applied = pending[bound].applied \/ (b /\ pending[bound].valid)]
      OBVIOUS
    <3>5. x \in Pending /\ x.valid = pending[bound].valid /\ x.queued = pending[bound].queued
      BY <3>3, <3>4 DEF Pending
    <3>6. pending' = [pending EXCEPT ![bound] = x]
      BY <3>2, <3>3, <3>4 DEF StopRequested
    <3> QED BY <1>2, <3>1, <3>3, <3>5, <3>6
  <2> QED BY <2>1, <2>2
<1>6. ASSUME NEW r \in Sessions, SessionExited(r), pending[r] # None
      PROVE  pending[s] # None /\ (pending'[s].valid => pending[s].valid)
             /\ pending'[s].queued = pending[s].queued
  <2>1. pending[r] \in Pending
    BY <1>0, <1>6
  <2>2. PICK x : x = [pending[r] EXCEPT !.valid = FALSE]
    OBVIOUS
  <2>3. x \in Pending /\ ~x.valid /\ x.queued = pending[r].queued
    BY <2>1, <2>2 DEF Pending
  <2>4. pending' = [pending EXCEPT ![r] = x]
    BY <1>6, <2>2 DEF SessionExited
  <2> QED BY <1>2, <1>6, <2>3, <2>4
<1>7. ASSUME NEW r \in Sessions, TurnStarted(r), pending[r] # None
      PROVE  pending[s] # None /\ (pending'[s].valid => pending[s].valid)
             /\ pending'[s].queued = pending[s].queued
  <2>1. pending[r] \in Pending /\ live[r] \in Inputs \cup {None}
    BY <1>0, <1>7
  <2>2. PICK o \in Inputs \cup {None}, b \in BOOLEAN :
           pending' = [pending EXCEPT ![r] = [pending[r] EXCEPT !.observed = o, !.applied = b]]
    <3>1. pending[r].observed \in Inputs \cup {None} /\ pending[r].applied \in BOOLEAN
          /\ pending[r].valid \in BOOLEAN /\ pending[r].stop \in BOOLEAN
      BY <2>1 DEF Pending
    <3> QED BY <1>7, <2>1, <3>1 DEF TurnStarted
  <2>3. PICK x : x = [pending[r] EXCEPT !.observed = o, !.applied = b]
    OBVIOUS
  <2>4. x \in Pending /\ x.valid = pending[r].valid /\ x.queued = pending[r].queued
    BY <2>1, <2>3 DEF Pending
  <2>5. pending' = [pending EXCEPT ![r] = x]
    BY <2>2, <2>3
  <2> QED BY <1>2, <1>7, <2>4, <2>5
<1>8. CASE Exit \/ Crash
  BY <1>8 DEF Exit, Crash, LoseMemory
<1>9. CASE pending' = pending
  BY <1>9
<1>10. \A r \in Sessions : (TurnStarted(r) \/ SessionExited(r)) /\ pending[r] = None => pending' = pending
  BY DEF TurnStarted, SessionExited
<1>11. CASE \/ Claim \/ TakeQueued \/ KeepAwaiting \/ Settle \/ Attach \/ Dispatch \/ NextPending
            \/ FenceOwned \/ AbortWorker \/ WorkerPanics \/ Shutdown \/ Reconnected \/ UNCHANGED vars
            \/ Restart \/ Attached \/ (\E e \in Inputs : Deliver(e) \/ AgentAnswers(e))
            \/ \E r \in Sessions : TurnCompleted(r)
  BY <1>9, <1>11 DEF Claim, TakeQueued, KeepAwaiting, Settle, Attach, Dispatch, NextPending, FenceOwned,
     AbortWorker, WorkerPanics, Shutdown, Reconnected, vars, Restart, Attached, Deliver, AgentAnswers,
     TurnCompleted, inputState
<1> QED BY <1>1, <1>3, <1>4, <1>5, <1>6, <1>7, <1>8, <1>9, <1>10, <1>11 DEF Next, Progress, Operate

\* A follow-up kept at the place of its age keeps a sorted sequence sorted.
LEMMA InsertSorted ==
    ASSUME NEW q \in Seq(Inputs), NEW e \in Inputs, NEW own,
           own[e].seq \in Nat, \A i \in 1..Len(q) : own[q[i]].seq \in Nat /\ own[q[i]].seq # own[e].seq,
           \A i, j \in 1..Len(q) : i < j => own[q[i]].seq < own[q[j]].seq
    PROVE  LET r == InsertByAge(q, e, own)
           IN  \A i, j \in 1..Len(r) : i < j => own[r[i]].seq < own[r[j]].seq
<1> DEFINE older == {i \in 1..Len(q) : own[q[i]].seq < own[e].seq}
           r == [i \in 1..(Len(q) + 1) |->
                   IF i < 1 + Cardinality(older) THEN q[i]
                   ELSE IF i = 1 + Cardinality(older) THEN e ELSE q[i - 1]]
<1>1. InsertByAge(q, e, own) = r
  BY DEF InsertByAge
<1>2. PICK n \in Nat : n = Len(q)
  OBVIOUS
<1>3. \A m \in Nat : IsFiniteSet(1..m) /\ Cardinality(1..m) = m
  <2> TAKE m \in Nat
  <2>1. 1 \in Int /\ m \in Int
    OBVIOUS
  <2>2. /\ IsFiniteSet(1..m)
        /\ Cardinality(1..m) = IF 1 > m THEN 0 ELSE m - 1 + 1
    BY <2>1, FS_Interval
  <2> QED BY <2>2
<1>4. older \subseteq 1..n
  BY <1>2
<1>5. \A i \in 1..n : i \in older <=> own[q[i]].seq < own[e].seq
  BY <1>2
<1>6. \A i, j \in 1..n : i < j /\ j \in older => i \in older
  <2> HIDE DEF older
  <2> QED BY <1>2, <1>5
<1> HIDE DEF older
<1>7. PICK k \in Nat : k = Cardinality(older)
  <2>1. IsFiniteSet(older)
    BY <1>3, <1>4, FS_Subset
  <2> QED BY <2>1, FS_CardinalityType
<1>8. \A i \in 1..n : i \in older <=> i <= k
  <2> TAKE i \in 1..n
  <2>1. ASSUME i \in older PROVE i <= k
    <3>1. 1..i \subseteq older
      BY <1>6, <2>1
    <3>2. IsFiniteSet(older)
      BY <1>3, <1>4, FS_Subset
    <3>3. Cardinality(1..i) <= Cardinality(older)
      BY <3>1, <3>2, FS_Subset
    <3> QED BY <1>3, <1>7, <3>3
  <2>2. ASSUME i \notin older PROVE k < i
    <3>1. older \subseteq 1..(i - 1)
      BY <1>4, <1>6, <2>2
    <3>2. i - 1 \in Nat
      OBVIOUS
    <3>3. Cardinality(older) <= Cardinality(1..(i - 1))
      BY <1>3, <3>1, <3>2, FS_Subset
    <3> QED BY <1>3, <1>7, <3>2, <3>3
  <2> QED BY <2>1, <2>2
<1>9. Len(r) = n + 1
  BY <1>2
<1>10. \A i \in 1..(n + 1) : r[i] = IF i < 1 + k THEN q[i] ELSE IF i = 1 + k THEN e ELSE q[i - 1]
  BY <1>2, <1>7
<1> HIDE DEF r
<1>11. k <= n
  <2>1. Cardinality(older) <= Cardinality(1..n)
    BY <1>3, <1>4, FS_Subset
  <2> QED BY <1>3, <1>7, <2>1
<1>12. ASSUME NEW i \in 1..(n + 1)
       PROVE  \/ i <= k /\ i \in 1..n /\ r[i] = q[i] /\ own[q[i]].seq < own[e].seq
              \/ i = k + 1 /\ r[i] = e
              \/ i > k + 1 /\ i - 1 \in 1..n /\ r[i] = q[i - 1] /\ own[e].seq < own[q[i - 1]].seq
  <2>1. CASE i <= k
    <3>1. i \in 1..n /\ i < 1 + k
      BY <1>11, <2>1
    <3> QED BY <1>5, <1>8, <1>10, <2>1, <3>1
  <2>2. CASE i = k + 1
    BY <1>10, <2>2
  <2>3. CASE i > k + 1
    <3>1. PICK j \in 1..n : j = i - 1 /\ j > k
      BY <2>3
    <3>2. j \notin older /\ r[i] = q[j]
      BY <1>8, <1>10, <2>3, <3>1
    <3>3. own[e].seq < own[q[j]].seq
      BY <1>2, <1>5, <3>2
    <3> QED BY <2>3, <3>1, <3>2, <3>3
  <2> QED BY <2>1, <2>2, <2>3
<1>13. ASSUME NEW i \in 1..(n + 1), NEW j \in 1..(n + 1), i < j
       PROVE  own[r[i]].seq < own[r[j]].seq
  <2>1. CASE i <= k /\ j <= k
    BY <1>2, <1>12, <1>13, <2>1
  <2>2. CASE i <= k /\ j = k + 1
    BY <1>12, <2>2
  <2>3. CASE i <= k /\ j > k + 1
    <3>1. i \in 1..n /\ j - 1 \in 1..n /\ i < j - 1 /\ r[i] = q[i] /\ r[j] = q[j - 1]
      BY <1>12, <2>3
    <3> QED BY <1>2, <3>1
  <2>4. CASE i = k + 1 /\ j > k + 1
    BY <1>12, <2>4
  <2>5. CASE i > k + 1 /\ j > k + 1
    <3>1. i - 1 \in 1..n /\ j - 1 \in 1..n /\ i - 1 < j - 1 /\ r[i] = q[i - 1] /\ r[j] = q[j - 1]
      BY <1>12, <1>13, <2>5
    <3> QED BY <1>2, <3>1
  <2> QED BY <1>13, <2>1, <2>2, <2>3, <2>4, <2>5
<1> QED BY <1>1, <1>9, <1>13

\* Every step keeps what waits behind a start sorted by age.
LEMMA BehindOrderStep ==
    ASSUME Carried, [Next]_vars, Marks, BehindOrder PROVE BehindOrder'
<1> SUFFICES ASSUME NEW s \in Sessions, pending'[s] # None
             PROVE  \A i, j \in 1..Len(pending'[s].queued) :
                       i < j => owned'[pending'[s].queued[i]].seq < owned'[pending'[s].queued[j]].seq
  BY DEF BehindOrder, Age
<1>1. Carried' /\ Marks'
  BY CarriedStep, MarksStep
<1>2. CASE pending'[s].queued = <<>>
  BY <1>2
<1>3. CASE pending[s] # None
  <2>1. PICK q \in Seq(Inputs) : q = pending[s].queued
    BY <1>3 DEF Carried, TypeOK, Pending
  <2>2. \A i, j \in 1..Len(q) : i < j => owned[q[i]].seq < owned[q[j]].seq
    BY <1>3, <2>1 DEF BehindOrder, Age
  <2>3. \A i \in 1..Len(q) : q[i] \in Inputs /\ Behind(s, q[i]) /\ owned[q[i]] # None
    BY <1>3, <2>1 DEF Behind, SeqRange, Carried, Placement, BehindSound, Free
  <2>4. SendPrompt \/ DeferPrompt => \A i \in 1..Len(q) : q[i] # op.input
    <3>1. SendPrompt \/ DeferPrompt => /\ op # None /\ op.from \in {"inbound", "queued"}
                                       /\ op.step # "begin"
      BY Waits
    <3> QED BY <2>3, <3>1, Elsewhere
  <2>5. ASSUME NEW i \in 1..Len(q), owned'[q[i]] # None
        PROVE  owned'[q[i]].seq = owned[q[i]].seq
    BY <2>3, <2>4, <2>5, AgeStays DEF Age
  <2>6. \A f \in Inputs : pending'[s].queued # <<>> /\ f \in SeqRange(pending'[s].queued)
           => owned'[f] # None /\ owned'[f].queued
    BY <1>1 DEF Carried, Placement, BehindSound, Behind, Free
  <2>7. CASE pending'[s].queued = q
    <3>1. \A i \in 1..Len(q) : owned'[q[i]].seq = owned[q[i]].seq
      BY <2>3, <2>5, <2>6, <2>7 DEF SeqRange
    <3> QED BY <2>2, <2>7, <3>1
  <2>8. CASE SendPrompt /\ op # None /\ pending'[s].queued = InsertByAge(q, op.input, owned')
    <3>1. PICK e \in Inputs : e = op.input
      BY <2>8 DEF Carried, TypeOK, Operation
    <3>2. PICK own : own = owned'
      OBVIOUS
    <3>3. PICK r : r = InsertByAge(q, e, own)
      OBVIOUS
    <3>4. pending'[s].queued = r
      BY <2>8, <3>1, <3>2, <3>3
    <3>5. SeqRange(r) = SeqRange(q) \cup {e} /\ r \in Seq(Inputs)
      BY <3>3, RangeInsert
    <3>6. r # <<>>
      BY <3>5 DEF SeqRange
    <3>7. /\ own[e] # None /\ own[e].queued
          /\ \A i \in 1..Len(q) : own[q[i]] # None /\ own[q[i]].queued
      BY <2>3, <2>6, <3>2, <3>4, <3>5, <3>6 DEF SeqRange
    <3>8. \A f \in Inputs : own[f] # None => own[f].seq \in Nat
      BY <1>1, <3>2 DEF Carried, TypeOK, QueuedInput
    <3>9. \A f, g \in Inputs : own[f] # None /\ own[f].queued /\ own[g] # None /\ own[g].queued
             /\ own[f].seq = own[g].seq => f = g
      BY <1>1, <3>2 DEF Marks, Awaits, Age
    <3>10. \A i \in 1..Len(q) : own[q[i]].seq \in Nat /\ own[q[i]].seq # own[e].seq
      BY <2>3, <2>4, <2>8, <3>1, <3>7, <3>8, <3>9
    <3>11. \A i, j \in 1..Len(q) : i < j => own[q[i]].seq < own[q[j]].seq
      BY <2>2, <2>5, <3>2, <3>7
    <3>12. \A i, j \in 1..Len(r) : i < j => own[r[i]].seq < own[r[j]].seq
      BY <3>3, <3>7, <3>8, <3>10, <3>11, InsertSorted
    <3> QED BY <3>2, <3>4, <3>12
  <2> QED BY <1>3, <2>1, <2>7, <2>8, PendingSteps
<1> QED BY <1>2, <1>3, PendingSteps

\* Nothing that may be sent gets behind the acknowledgement of a current start.
LEMMA HandedStep ==
    ASSUME Carried, [Next]_vars, Dates, Handed PROVE Handed'
<1> SUFFICES ASSUME NEW s \in Sessions, NEW g \in Inputs, pending'[s] # None, Current(s)',
                    InFront(AckWork(pending[s].input), g)', ~Stale(g)'
             PROVE  FALSE
  BY DEF Handed
<1> PICK w : w = AckWork(pending'[s].input)
  OBVIOUS
<1>0. /\ lane \in Seq(Work) /\ ready \in Seq(Inputs)
      /\ w.from = "ack" /\ w.input = pending'[s].input /\ InFront(w, g)'
  BY DEF Carried, TypeOK, AckWork
<1>1. CASE pending[s] = None
  <2>1. PICK e \in Inputs : /\ e = op.input /\ DeferPrompt /\ w = AckWork(e)
                            /\ op # None /\ op.from \in {"inbound", "queued"} /\ op.step # "begin"
    <3>1. DeferPrompt /\ pending'[s].input = op.input
      BY <1>1, PendingSteps
    <3> QED BY <3>1, Waits DEF Operation
  <2>2. op' = None /\ lane' = lane
    BY <2>1 DEF DeferPrompt, EndOp
  <2>3. w \in SeqRange(lane)
    BY <1>0, <2>2 DEF InFront, Doing, Precedes, SeqRange
  <2>4. \E r \in Sessions : Start(r, e)
    BY <2>1, <2>3 DEF Carried, Placement, AcksSound, Answered
  <2> QED BY <2>1, <2>4, Elsewhere
<1>2. CASE pending[s] # None
  <2>1. PICK e \in Inputs : e = pending[s].input /\ pending'[s].input = e
    BY <1>2, StartStays
  <2>2. w = AckWork(e) /\ w \in Work
    BY <2>1 DEF AckWork, Work
  <2>3. Current(s)
    BY <1>2, CurrentStays, PendingSteps
  <2>4. ~InFront(w, g)
    <3>1. ASSUME InFront(w, g) PROVE FALSE
      <4>1. Stale(g)
        BY <1>2, <2>1, <2>2, <2>3, <3>1 DEF Handed
      <4>2. Free(g) /\ (InLane(g) \/ InReady(g))
        BY <3>1, BeforePlaced
      <4>3. SendPrompt \/ DeferPrompt => g # op.input
        <5>1. SendPrompt \/ DeferPrompt => /\ op # None /\ op.from \in {"inbound", "queued"}
                                           /\ op.step # "begin"
          BY Waits
        <5> QED BY <4>2, <5>1, Elsewhere
      <4> QED BY <4>1, <4>2, <4>3, LiveStays DEF Free
    <3> QED BY <3>1
  <2>5. CASE NextPending \/ Dispatch
    <3>1. \E f \in Inputs : w = QueuedWork(f)
      BY <1>0, <2>2, <2>4, <2>5, FrontMoves
    <3> QED BY <1>0, <3>1 DEF QueuedWork
  <2>6. CASE Exit \/ Crash
    BY <2>6 DEF Exit, Crash, LoseMemory
  <2>7. ASSUME SteadyOp, lane' = lane \/ \E f \in Inputs : lane' = Append(lane, [from |-> "inbound", input |-> f])
        PROVE  ~InReady(g) /\ g \in SeqRange(ready')
    BY <1>0, <2>4, <2>7, FrontKept DEF InReady
  <2>8. CASE /\ SteadyOp
             /\ lane' = lane \/ \E f \in Inputs : lane' = Append(lane, [from |-> "inbound", input |-> f])
    <3>1. CASE ready' = ready
      BY <2>7, <2>8, <3>1 DEF InReady
    <3>2. CASE Leaving /\ ready' \in ReadyAfter(owned) /\ Freed(owned')
      <4>1. g \in Reattaching(owned)
        <5>1. IsFiniteSet(Reattaching(owned)) /\ \A f \in Reattaching(owned) : owned[f].seq \in Nat
          <6>1. Reattaching(owned) \subseteq Owned
            BY DEF Reattaching, Owned
          <6>2. \A f \in Inputs : owned[f] # None => owned[f].seq \in Nat
            BY DEF Carried, TypeOK, QueuedInput
          <6> QED BY <6>1, <6>2, FS_Subset DEF Carried, Finite, Reattaching
        <5>2. SeqRange(ready') = SeqRange(ready) \cup Reattaching(owned)
          BY <1>0, <3>2, <5>1, RangeReady
        <5> QED BY <2>7, <2>8, <5>2 DEF InReady
      <4>2. Attached /\ epoch' = epoch + 1
        BY <3>2, <4>1, Released DEF Freed, Reattaching
      <4> QED BY <4>2, Committed
    <3>3. CASE /\ SendPrompt /\ ready' = Append(ready, op.input)
               /\ bound \in Sessions /\ pending[bound] = None
      <4>1. bound' = bound
        BY <3>3 DEF SendPrompt, store
      <4> QED BY <1>2, <3>3, <4>1 DEF Current
    <3>4. ASSUME NEW r \in Sessions, NEW f \in Inputs, ApplyAcknowledged, HandOn(r, f), pending'[r] = None
          PROVE  FALSE
      <4>1. bound' = bound
        BY <3>4 DEF ApplyAcknowledged
      <4> QED BY <3>4, <4>1 DEF HandOn, Current
    <3> QED BY <2>8, <3>1, <3>2, <3>3, <3>4, ReadySteps, <2>5, <2>6
  <2> QED BY <2>5, <2>6, <2>8, ReadySteps
<1> QED BY <1>1, <1>2

\* A prompt is sent when nothing is pending in its session, and what is older and still
\* waits there cannot be sent any more.
LEMMA SentInOrder ==
    ASSUME Carried, [Next]_vars, Ordered PROVE InOrderStep
<1> SUFFICES ASSUME NEW e \in Inputs, Sends(e)
             PROVE  LET s == rpc'[e].session
                    IN  /\ pending[s] = None
                        /\ \A f \in Inputs \ {e} :
                              (ClaimedBefore(f, e) /\ Places(f) # {} /\ owned[f].session = s) => Stale(f)
  BY DEF InOrderStep
<1>1. /\ SendPrompt /\ Send(e, bound) /\ e = op.input /\ bound \in Sessions
      /\ op # None /\ op.from \in {"inbound", "queued"} /\ op.step = "handle"
  BY SendsOnly
<1>2. PICK s \in Sessions : s = bound
  BY <1>1
<1>3. rpc'[e].session = s
  BY <1>1, <1>2 DEF Send, Carried, TypeOK
<1>4. attaching = None /\ ~MustWait(s)
  <2>1. rpc' # rpc
    BY DEF Sends
  <2> QED BY <1>1, <1>2, <2>1 DEF SendPrompt
<1>5. pending[s] = None /\ (op.from = "inbound" => QueuedFor(s) = {})
  BY <1>4 DEF MustWait
<1>6. ASSUME NEW f \in Inputs \ {e}, ClaimedBefore(f, e), Places(f) # {}, owned[f].session = s, ~Stale(f)
      PROVE  FALSE
  <2>1. owned[f] # None
    BY <1>6 DEF Stale
  <2>2. Free(f) /\ (InReady(f) \/ InLane(f))
    <3>1. \/ \E r \in Sessions : Start(r, f) \/ Behind(r, f)
          \/ InReady(f) \/ InLane(f)
      <4>1. ~Resuming(f)
        BY <1>1 DEF Resuming, Doing
      <4> QED BY <1>4, <1>6, <4>1 DEF Places, Start, Behind, InReady, InLane, SeqRange, QueuedWork, Resuming, Doing
    <3>2. ~\E r \in Sessions : Start(r, f) \/ Behind(r, f)
      <4>1. ASSUME NEW r \in Sessions, Start(r, f) \/ Behind(r, f) PROVE owned[f].session = r /\ pending[r] # None
        BY <4>1 DEF Carried, Placement, StartsSound, BehindSound, Start, Behind
      <4> QED BY <1>5, <1>6, <4>1
    <3> QED BY <3>1, <3>2 DEF Carried, Placement, ReadySound, LaneSound
  <2>3. op.from = "queued"
    BY <1>1, <1>5, <1>6, <2>1, <2>2 DEF QueuedFor, Owned, Free
  <2>4. Resuming(e) /\ Free(e)
    BY <1>1, <2>3, Elsewhere DEF Resuming, Doing
  <2>5. Before(e, f) /\ Eligible(e)
    BY <1>1, <2>2, <2>4 DEF Before, InFront, QueuedWork, Resuming, Eligible
  <2>6. Age(e) < Age(f)
    BY <1>6, <2>5 DEF Ordered, Line
  <2>7. e \in claims[f]
    BY <2>2, <2>4, <2>6 DEF Ordered, Marks, Awaits, Free
  <2> QED BY <1>6, <2>7 DEF Ordered, Marks, ClaimedBefore
<1> QED BY <1>3, <1>5, <1>6

\* Inputs of a session reach the agent in the order they were claimed, one start at a
\* time (queue_waiting_prompt, finish_reattachment, apply_prompt_acknowledged).
THEOREM InOrderHolds == Spec => InOrder
<1>1. Init => Carried /\ Dates /\ Ordered
  <2> SUFFICES ASSUME Init PROVE Carried /\ Dates /\ Ordered
    OBVIOUS
  <2>1. Carried
    BY CarriedInit
  <2>2. /\ owned = [e \in Inputs |-> None] /\ rpc = [e \in Inputs |-> NoRequest] /\ generation = 0
        /\ pending = [s \in Sessions |-> None] /\ lane = <<>> /\ ready = <<>> /\ op = None
        /\ claims = [e \in Inputs |-> {}] /\ nextSeq = 1
    BY DEF Init
  <2>3. Dates
    BY <2>2 DEF Dates, NoRequest
  <2>4. Marks
    BY <2>2 DEF Marks, Awaits, At
  <2>5. Line
    BY <2>2 DEF Line, Before, InFront, Precedes, Doing, SeqRange
  <2>6. BehindOrder /\ Handed
    BY <2>2 DEF BehindOrder, Handed
  <2> QED BY <2>1, <2>3, <2>4, <2>5, <2>6 DEF Ordered
<1>2. Carried /\ Dates /\ Ordered /\ [Next]_vars => (Carried /\ Dates /\ Ordered)'
  BY CarriedStep, DatesStep, MarksStep, LineStep, BehindOrderStep, HandedStep DEF Ordered
<1>3. Carried /\ Dates /\ Ordered /\ [Next]_vars => [InOrderStep]_vars
  BY SentInOrder
<1> QED BY <1>1, <1>2, <1>3, PTL DEF Spec, InOrder
=============================================================================
