------------------------ MODULE OutputProofs ------------------------
(***************************************************************************)
(* What the engine shows.  Every notice is told, in order, and repeated    *)
(* only around a failure: for all sets of conversations, requests and      *)
(* refreshers, all pages and any number of failures and stops.  A card     *)
(* shows what was written last, once, with the buttons that work: for any  *)
(* number of tasks that edit it, of revisions and of lost answers.         *)
(***************************************************************************)
EXTENDS Notifications, CardWrites, FiniteSetTheorems, WellFoundedInduction, TLAPS

----------------------------------------------------------------------------
(* The inductive invariant of the outbox *)

Items == SUBSET (({"task"} \X Nat) \union ({"input"} \X Requests))
Rows == [consumer : Consumers, seq : Nat, to : Conversations, items : Items,
         token : Nat \union {Nobody}, due : BOOLEAN]
Entries == Consumers \X Nat \X Items
Typed ==
    /\ happened \in Nat /\ failures \in Nat
    /\ bound \in Conversations \union {Nobody} /\ Conversations # {}
    /\ addressed \in Seq(Conversations \union {Nobody})
    /\ cursor \in [Consumers -> Nat]
    /\ outbox \subseteq Rows /\ IsFiniteSet(outbox)
    /\ status \in [Requests -> {"new", "processing", "failed", "rejected"}]
    /\ reader \in [Refreshers -> Seq(Nat)]
    /\ workers \subseteq [row : Rows, sent : BOOLEAN] /\ IsFiniteSet(workers)
    /\ shown \in [Conversations -> Seq(Entries)]

\* A refresher has read the events that follow those staged, or some staged already.
Follows(q) ==
    \A i \in 1..Len(q) : q[1] <= cursor["tasks"] + 1 /\ q[i] = q[1] + i - 1
Readers == Len(addressed) = cursor["tasks"] /\ \A p \in Refreshers : Follows(reader[p])

\* The rows are numbered by their consumer's cursor.
Numbered ==
    /\ \A x \in outbox : x.seq <= cursor[x.consumer]
    /\ \A x, y \in outbox : x.consumer = y.consumer /\ x.seq = y.seq => x = y

\* A delivery under way holds the oldest row of its conversation, alone, and once it
\* is sent the row was shown.
Holds(w) == w.row \in outbox /\ w.row.token # Nobody /\ w.row.due /\ Oldest(w.row)
Told(w) ==
    \E i \in 1..Len(shown[w.row.to]) :
        shown[w.row.to][i] = <<w.row.consumer, w.row.seq, w.row.items>>
Held ==
    /\ \A w \in workers : Holds(w) /\ (w.sent => Told(w))
    /\ \A v, w \in workers : v.row = w.row => v = w

\* What was shown is not newer than what waits.
Before(e, c) ==
    /\ e[2] <= cursor[e[1]]
    /\ \A x \in outbox : x.to = c /\ x.consumer = e[1] => e[2] <= x.seq
Earlier == \A c \in Conversations : \A i \in 1..Len(shown[c]) : Before(shown[c][i], c)

\* How often a notice was shown: a failure pays for each repetition, and for the next
\* one while the row waits.
Showings(c, k, n) == {i \in 1..Len(shown[c]) : shown[c][i][1] = k /\ shown[c][i][2] = n}
Waits(x) == ~\E w \in workers : w.row = x /\ w.sent
Repeats ==
    /\ \A c \in Conversations, k \in Consumers, n \in Nat :
          Cardinality(Showings(c, k, n)) <= 1 + failures
    /\ \A x \in outbox : Waits(x) => Cardinality(Showings(x.to, x.consumer, x.seq)) <= failures

OutboxInv ==
    Typed /\ Readers /\ Numbered /\ Held /\ Earlier /\ ShownInOrder /\ Repeats /\ NothingUntold

----------------------------------------------------------------------------
(* Tokens, leases and counts *)

\* claim_notifications finds a token: fewer are known than it chooses from.
LEMMA TokenIs ==
  ASSUME IsFiniteSet(outbox), IsFiniteSet(workers)
  PROVE  Token \in Nat
  <1> DEFINE rows == {w.row : w \in workers}
             f == [w \in workers |-> w.row]
             T == outbox \union rows
             N == Cardinality(workers) + Cardinality(outbox) + 1
  <1>1. f \in Surjection(workers, rows)
    BY DEF Surjection
  <1>2. IsFiniteSet(rows) /\ Cardinality(rows) <= Cardinality(workers)
    BY <1>1, FS_Surjection
  <1>3. /\ Cardinality(workers) \in Nat /\ Cardinality(outbox) \in Nat
        /\ Cardinality(rows) \in Nat /\ IsFiniteSet(outbox \cap rows)
        /\ Cardinality(outbox \cap rows) \in Nat
    BY <1>2, FS_CardinalityType, FS_Subset
  <1>4. IsFiniteSet(T) /\ Cardinality(T) < N
    <2> HIDE DEF rows
    <2>1. /\ IsFiniteSet(T)
          /\ Cardinality(T) =
                Cardinality(outbox) + Cardinality(rows) - Cardinality(outbox \cap rows)
      BY <1>2, FS_Union
    <2> QED BY <2>1, <1>2, <1>3
  <1>5. N \in Nat /\ Cardinality(1..N) = N /\ IsFiniteSet(1..N)
    <2> HIDE DEF rows, T
    <2>1. N \in Nat /\ N >= 1
      BY <1>3
    <2> HIDE DEF N
    <2> QED BY <2>1, FS_Interval
  <1>6. \E n \in 1..N : ~\E x \in T : x.token = n
    <2> SUFFICES ASSUME \A n \in 1..N : \E x \in T : x.token = n PROVE FALSE
      OBVIOUS
    <2> DEFINE g == [n \in 1..N |-> CHOOSE x \in T : x.token = n]
    <2> HIDE DEF T, N
    <2>1. \A n \in 1..N : g[n] \in T /\ g[n].token = n
      OBVIOUS
    <2>2. g \in [1..N -> T]
      BY <2>1
    <2> HIDE DEF g
    <2>3. \E m, n \in 1..N : m # n /\ g[m] = g[n]
      BY <2>2, <1>4, <1>5, FS_PigeonHole
    <2> QED BY <2>1, <2>3
  <1>7. Token \in 1..N
    BY <1>6 DEF Token
  <1> QED BY <1>7, <1>5

\* A delivery's lease is on its row and on no other.
LEMMA LeasedIs ==
  ASSUME OutboxInv, NEW w \in workers
  PROVE  Leased(w) = {w.row}
  BY DEF OutboxInv, Held, Holds, Numbered, Leased

\* How often a notice was shown is a number.
LEMMA ShowingsFinite ==
  ASSUME shown \in [Conversations -> Seq(Entries)], NEW c \in Conversations, NEW k, NEW n
  PROVE  IsFiniteSet(Showings(c, k, n)) /\ Cardinality(Showings(c, k, n)) \in Nat
  <1>1. Len(shown[c]) \in Nat
    OBVIOUS
  <1>2. IsFiniteSet(1..Len(shown[c]))
    BY <1>1, FS_Interval
  <1>3. IsFiniteSet(Showings(c, k, n))
    BY <1>2, FS_Subset DEF Showings
  <1> QED BY <1>3, FS_CardinalityType

\* A notice with a number beyond the cursor was never shown.
LEMMA NeverShown ==
  ASSUME OutboxInv, NEW c \in Conversations, NEW k \in Consumers, NEW n \in Nat, n > cursor[k]
  PROVE  Cardinality(Showings(c, k, n)) = 0
  <1>1. Showings(c, k, n) = {}
    <2>1. ASSUME NEW i \in 1..Len(shown[c]), shown[c][i][1] = k, shown[c][i][2] = n PROVE FALSE
      <3>1. n <= cursor[k]
        BY <2>1 DEF OutboxInv, Earlier, Before
      <3>2. cursor[k] \in Nat
        BY DEF OutboxInv, Typed
      <3> QED BY <3>1, <3>2
    <2> QED BY <2>1 DEF Showings
  <1> QED BY <1>1, FS_EmptySet

\* The same row, claimed, given back or extended: what is owed and its order stay.
LEMMA ReplaceRow ==
  ASSUME OutboxInv, NEW x \in outbox, NEW y \in Rows,
         y.consumer = x.consumer, y.seq = x.seq, y.to = x.to, x.items \subseteq y.items,
         outbox' = (outbox \ {x}) \union {y}, UNCHANGED <<cursor, shown>>,
         NEW ws \in SUBSET workers, \A w \in ws : w.row # x
  PROVE  /\ outbox' \subseteq Rows /\ IsFiniteSet(outbox')
         /\ Numbered' /\ Earlier'
         /\ \A w \in ws : Holds(w)' /\ (w.sent => Told(w)') /\ w.row # y
         /\ \A c : Owed(c) \subseteq Owed(c)' /\ (x.to = c => y.items \subseteq Owed(c)')
  <1>1. \A z \in outbox' : z = y \/ (z \in outbox /\ z # x)
    OBVIOUS
  <1>2. \A z \in outbox : z # x => z \in outbox'
    OBVIOUS
  <1>3. y \in outbox'
    OBVIOUS
  <1>4. \A z \in outbox : z.consumer = x.consumer /\ z.seq = x.seq => z = x
    BY DEF OutboxInv, Numbered
  <1>5. outbox' \subseteq Rows
    BY <1>1 DEF OutboxInv, Typed
  <1>6. IsFiniteSet(outbox')
    BY FS_AddElement, FS_RemoveElement DEF OutboxInv, Typed
  <1>7. Numbered'
    BY <1>1, <1>4 DEF OutboxInv, Numbered
  <1>8. \A e, c : Before(e, c) => Before(e, c)'
    BY <1>1 DEF Before
  <1>9. Earlier'
    BY <1>8 DEF OutboxInv, Earlier
  <1>10. ASSUME NEW w \in ws PROVE Holds(w)' /\ (w.sent => Told(w)') /\ w.row # y
    <2>1. Holds(w) /\ (w.sent => Told(w)) /\ w.row # x
      BY DEF OutboxInv, Held
    <2>2. w.row \in outbox'
      BY <2>1, <1>2 DEF Holds
    <2>3. Oldest(w.row)'
      BY <2>1, <1>1 DEF Holds, Oldest
    <2>4. w.sent => Told(w)'
      BY <2>1 DEF Told
    <2>5. w.row # y
      BY <2>1, <1>4 DEF Holds
    <2> QED BY <2>1, <2>2, <2>3, <2>4, <2>5 DEF Holds
  <1>11. ASSUME NEW c
         PROVE  Owed(c) \subseteq Owed(c)' /\ (x.to = c => y.items \subseteq Owed(c)')
    <2>1. x.to = c => y.items \subseteq Owed(c)'
      BY <1>3 DEF Owed
    <2>2. ASSUME NEW t \in Owed(c) PROVE t \in Owed(c)'
      <3>1. PICK z \in outbox : z.to = c /\ t \in z.items
        BY <2>2 DEF Owed
      <3>2. CASE z = x
        BY <3>1, <3>2, <2>1
      <3>3. CASE z # x
        BY <3>1, <3>3, <1>2 DEF Owed
      <3> QED BY <3>2, <3>3
    <2> QED BY <2>1, <2>2
  <1> QED BY <1>5, <1>6, <1>7, <1>9, <1>10, <1>11

\* What was told, and to whom, is told on while nothing is owed less.
LEMMA ToldOn ==
  ASSUME NothingUntold, UNCHANGED <<addressed, status>>,
         \A c : Seen(c) \union Owed(c) \subseteq Seen(c)' \union Owed(c)'
  PROVE  NothingUntold'
  BY DEF NothingUntold

----------------------------------------------------------------------------
(* The steps *)

LEMMA InitOutbox == OutboxInit => OutboxInv
  <1> SUFFICES ASSUME OutboxInit PROVE OutboxInv
    OBVIOUS
  <1>1. Typed
    BY FS_EmptySet DEF OutboxInit, Typed, Consumers
  <1>2. Readers
    BY DEF OutboxInit, Readers, Follows, Consumers
  <1>3. Numbered /\ Held /\ Earlier /\ ShownInOrder
    BY DEF OutboxInit, Numbered, Held, Earlier, ShownInOrder
  <1>4. Repeats
    <2>1. \A c \in Conversations, k \in Consumers, n \in Nat : Showings(c, k, n) = {}
      BY DEF OutboxInit, Showings
    <2>2. Cardinality({}) = 0
      BY FS_EmptySet
    <2>3. failures = 0 /\ outbox = {}
      BY DEF OutboxInit
    <2> QED BY <2>1, <2>2, <2>3 DEF Repeats
  <1>5. NothingUntold
    BY DEF OutboxInit, NothingUntold
  <1> QED BY <1>1, <1>2, <1>3, <1>4, <1>5 DEF OutboxInv

\* What happens outside the outbox: events, another binding, reads and claims.
LEMMA IdleStep ==
  ASSUME OutboxInv, Typed', Readers',
         UNCHANGED <<addressed, cursor, outbox, workers, shown, failures>>,
         \A r \in Requests : status'[r] = "rejected" => status[r] = "rejected"
  PROVE  OutboxInv'
  <1>1. Numbered' /\ Held'
    BY DEF OutboxInv, Numbered, Held, Holds, Told, Oldest
  <1>2. Earlier' /\ ShownInOrder'
    BY DEF OutboxInv, Earlier, Before, ShownInOrder
  <1>3. Repeats'
    BY DEF OutboxInv, Repeats, Showings, Waits
  <1>4. NothingUntold'
    BY DEF OutboxInv, NothingUntold, Seen, Owed
  <1> QED BY <1>1, <1>2, <1>3, <1>4 DEF OutboxInv

LEMMA Outside ==
  ASSUME OutboxInv, Page \in Nat,
         \/ Happen \/ Rebind \/ UNCHANGED outboxVars
         \/ \E p \in Refreshers : Read(p)
         \/ \E r \in Requests : Process(r)
  PROVE  OutboxInv'
  <1>1. Typed /\ Readers
    BY DEF OutboxInv
  <1>2. CASE Happen \/ Rebind \/ UNCHANGED outboxVars
    <2>1. UNCHANGED <<addressed, cursor, outbox, workers, shown, failures, status, reader>>
      BY <1>2 DEF Happen, Rebind, outboxVars
    <2>2. happened' \in Nat /\ bound' \in Conversations \union {Nobody}
      BY <1>1, <1>2 DEF Happen, Rebind, outboxVars, Typed
    <2>3. Typed' /\ Readers'
      BY <2>1, <2>2, <1>1 DEF Typed, Readers, Follows
    <2> QED BY <2>1, <2>3, IdleStep
  <1>3. ASSUME NEW p \in Refreshers, Read(p) PROVE OutboxInv'
    <2> DEFINE n == IF happened - cursor["tasks"] > Page THEN Page ELSE happened - cursor["tasks"]
               q == [i \in 1..n |-> cursor["tasks"] + i]
    <2>1. /\ UNCHANGED <<happened, bound, addressed, cursor, outbox, status, workers, shown, failures>>
          /\ cursor["tasks"] < happened /\ reader' = [reader EXCEPT ![p] = q]
      BY <1>3 DEF Read
    <2>2. cursor["tasks"] \in Nat /\ happened \in Nat
      BY <1>1 DEF Typed, Consumers
    <2>3. n \in Nat
      BY <2>1, <2>2
    <2> HIDE DEF n
    <2>4. q \in Seq(Nat) /\ Len(q) = n /\ \A i \in 1..n : q[i] = cursor["tasks"] + i
      BY <2>2, <2>3
    <2>5. ASSUME NEW i \in 1..Len(q)
          PROVE  q[1] <= cursor'["tasks"] + 1 /\ q[i] = q[1] + i - 1
      <3>1. 1 \in 1..n /\ i \in 1..n
        BY <2>3, <2>4
      <3>2. q[1] = cursor["tasks"] + 1 /\ q[i] = cursor["tasks"] + i
        BY <2>4, <3>1
      <3>3. cursor' = cursor
        BY <2>1
      <3> HIDE DEF q
      <3> QED BY <3>1, <3>2, <3>3, <2>2, <2>3
    <2> HIDE DEF q
    <2>6. Typed'
      BY <2>1, <2>4, <1>1 DEF Typed
    <2>7. Readers'
      <3>1. ASSUME NEW r \in Refreshers PROVE Follows(reader[r])'
        <4>1. CASE r = p
          <5>1. reader'[r] = q
            BY <2>1, <4>1, <1>1 DEF Typed
          <5> QED BY <5>1, <2>5 DEF Follows
        <4>2. CASE r # p
          <5>1. reader'[r] = reader[r] /\ cursor' = cursor
            BY <2>1, <4>2, <1>1 DEF Typed
          <5> QED BY <5>1, <1>1 DEF Readers, Follows
        <4> QED BY <4>1, <4>2
      <3> QED BY <3>1, <2>1, <1>1 DEF Readers
    <2> QED BY <2>1, <2>6, <2>7, IdleStep
  <1>4. ASSUME NEW r \in Requests, Process(r) PROVE OutboxInv'
    <2>1. /\ UNCHANGED <<happened, bound, addressed, cursor, outbox, reader, workers, shown, failures>>
          /\ \/ status' = [status EXCEPT ![r] = "failed"]
             \/ status' = [status EXCEPT ![r] = "processing"]
      BY <1>4 DEF Process
    <2>2. Typed' /\ Readers'
      BY <2>1, <1>1 DEF Typed, Readers, Follows
    <2>3. \A s \in Requests : status'[s] = "rejected" => status[s] = "rejected"
      BY <2>1, <1>1 DEF Typed
    <2> QED BY <2>1, <2>2, <2>3, IdleStep
  <1> QED BY <1>2, <1>3, <1>4

\* claim_notifications: a row nobody delivers, the oldest of its conversation.
LEMMA ClaimKeeps ==
  ASSUME OutboxInv, Claim, Nobody \notin Nat
  PROVE  OutboxInv'
  <1>0. Typed /\ Readers
    BY DEF OutboxInv
  <1>t. PICK t \in Nat : t = Token
    BY <1>0, TokenIs DEF Typed
  <1>1. PICK x \in outbox :
          /\ x.due /\ Free(x) /\ Oldest(x)
          /\ outbox' = (outbox \ {x}) \union {[x EXCEPT !.token = t]}
          /\ workers' = workers \union {[row |-> [x EXCEPT !.token = t], sent |-> FALSE]}
    BY <1>t DEF Claim, Replace
  <1> DEFINE y == [x EXCEPT !.token = t]
             w0 == [row |-> y, sent |-> FALSE]
  <1>2. UNCHANGED <<happened, bound, addressed, cursor, status, reader, shown, failures>>
    BY DEF Claim
  <1>3. x \in Rows
    BY <1>0 DEF Typed
  <1>4. /\ y \in Rows /\ y.consumer = x.consumer /\ y.seq = x.seq /\ y.to = x.to
        /\ y.items = x.items /\ y.due /\ y.token = t
    BY <1>0, <1>1, <1>3 DEF Rows
  <1>5. w0 \in [row : Rows, sent : BOOLEAN] /\ w0.row = y /\ ~w0.sent
    BY <1>4
  <1> HIDE DEF y, w0
  <1>6. outbox' = (outbox \ {x}) \union {y} /\ workers' = workers \union {w0}
    BY <1>1 DEF y, w0
  <1>7. \A w \in workers : w.row # x
    <2> SUFFICES ASSUME NEW w \in workers, w.row = x PROVE FALSE
      OBVIOUS
    <2>1. x.token # Nobody
      BY DEF OutboxInv, Held, Holds
    <2>2. x \in Leased(w)
      BY LeasedIs
    <2> QED BY <2>1, <2>2, <1>1 DEF Free
  <1>8. /\ outbox' \subseteq Rows /\ IsFiniteSet(outbox')
        /\ Numbered' /\ Earlier'
        /\ \A w \in workers : Holds(w)' /\ (w.sent => Told(w)') /\ w.row # y
        /\ \A c : Owed(c) \subseteq Owed(c)'
    BY <1>2, <1>4, <1>6, <1>7, ReplaceRow
  <1>9. IsFiniteSet(workers')
    BY <1>0, <1>6, FS_AddElement DEF Typed
  <1>10. Typed' /\ Readers'
    BY <1>0, <1>2, <1>5, <1>6, <1>8, <1>9 DEF Typed, Readers, Follows
  <1>11. Holds(w0)'
    <2>1. w0.row \in outbox' /\ w0.row.token # Nobody /\ w0.row.due
      BY <1>0, <1>4, <1>5, <1>6
    <2>2. Oldest(w0.row)'
      BY <1>1, <1>3, <1>4, <1>5, <1>6 DEF Oldest, Rows
    <2> QED BY <2>1, <2>2 DEF Holds
  <1>12. Held'
    BY <1>5, <1>6, <1>8, <1>11 DEF OutboxInv, Held
  <1>13. ShownInOrder' /\ NothingUntold'
    BY <1>2, <1>8, ToldOn DEF OutboxInv, ShownInOrder, Seen
  <1>14. Repeats'
    <2>1. \A c, k, n : Showings(c, k, n)' = Showings(c, k, n)
      BY <1>2 DEF Showings
    <2>2. ASSUME NEW z \in outbox', Waits(z)'
          PROVE  Cardinality(Showings(z.to, z.consumer, z.seq)) <= failures
      <3>1. CASE z = y
        <4>1. Waits(x)
          BY <1>7 DEF Waits
        <4> QED BY <3>1, <4>1, <1>4 DEF OutboxInv, Repeats
      <3>2. CASE z \in outbox
        BY <2>2, <3>2, <1>6 DEF OutboxInv, Repeats, Waits
      <3> QED BY <3>1, <3>2, <1>6
    <2> QED BY <2>1, <2>2, <1>2 DEF OutboxInv, Repeats
  <1> QED BY <1>8, <1>10, <1>12, <1>13, <1>14 DEF OutboxInv

\* The end of a backoff.
LEMMA BackoffKeeps ==
  ASSUME OutboxInv, BackoffEnds
  PROVE  OutboxInv'
  <1>0. Typed /\ Readers
    BY DEF OutboxInv
  <1>1. PICK x \in outbox : ~x.due /\ outbox' = (outbox \ {x}) \union {[x EXCEPT !.due = TRUE]}
    BY DEF BackoffEnds, Replace
  <1> DEFINE y == [x EXCEPT !.due = TRUE]
  <1>2. UNCHANGED <<happened, bound, addressed, cursor, status, reader, workers, shown, failures>>
    BY DEF BackoffEnds
  <1>3. x \in Rows
    BY <1>0 DEF Typed
  <1>4. /\ y \in Rows /\ y.consumer = x.consumer /\ y.seq = x.seq /\ y.to = x.to
        /\ y.items = x.items
    BY <1>3 DEF Rows
  <1> HIDE DEF y
  <1>5. outbox' = (outbox \ {x}) \union {y}
    BY <1>1 DEF y
  <1>6. \A w \in workers : w.row # x
    BY <1>1 DEF OutboxInv, Held, Holds
  <1>7. /\ outbox' \subseteq Rows /\ IsFiniteSet(outbox')
        /\ Numbered' /\ Earlier'
        /\ \A w \in workers : Holds(w)' /\ (w.sent => Told(w)')
        /\ \A c : Owed(c) \subseteq Owed(c)'
    BY <1>2, <1>4, <1>5, <1>6, ReplaceRow
  <1>8. Typed' /\ Readers'
    BY <1>0, <1>2, <1>7 DEF Typed, Readers, Follows
  <1>9. Held'
    BY <1>2, <1>7 DEF OutboxInv, Held
  <1>10. ShownInOrder' /\ NothingUntold'
    BY <1>2, <1>7, ToldOn DEF OutboxInv, ShownInOrder, Seen
  <1>11. Repeats'
    <2>1. \A c, k, n : Showings(c, k, n)' = Showings(c, k, n)
      BY <1>2 DEF Showings
    <2>2. ASSUME NEW z \in outbox', Waits(z)'
          PROVE  Cardinality(Showings(z.to, z.consumer, z.seq)) <= failures
      <3>1. CASE z = y
        <4>1. Waits(x)
          BY <1>6 DEF Waits
        <4> QED BY <3>1, <4>1, <1>4 DEF OutboxInv, Repeats
      <3>2. CASE z \in outbox
        BY <2>2, <3>2, <1>2 DEF OutboxInv, Repeats, Waits
      <3> QED BY <3>1, <3>2, <1>5
    <2> QED BY <2>1, <2>2, <1>2 DEF OutboxInv, Repeats
  <1> QED BY <1>7, <1>8, <1>9, <1>10, <1>11 DEF OutboxInv

\* A finite board has a newest notice: numbers below the cursor have a largest.
LEMMA NatMin ==
  ASSUME NEW T \in SUBSET Nat, T # {}
  PROVE  \E m \in T : \A n \in T : m <= n
  <1> DEFINE R == OpToRel(<, Nat)
  <1>1. IsWellFoundedOn(R, Nat)
    BY NatLessThanWellFounded
  <1>2. \A m, n \in Nat : m < n => <<m, n>> \in R
    BY DEF OpToRel
  <1> HIDE DEF R
  <1>3. PICK m \in T : \A n \in T : ~ (<<n, m>> \in R)
    BY <1>1, WFMin
  <1>4. ASSUME NEW n \in T PROVE m <= n
    <2>1. m \in Nat /\ n \in Nat
      OBVIOUS
    <2>2. ~(n < m)
      BY <1>2, <1>3, <2>1
    <2> QED BY <2>1, <2>2
  <1> QED BY <1>4

LEMMA NewestOpen ==
  ASSUME OutboxInv, NEW c, Open(c) # {}
  PROVE  \E x \in Open(c) : \A z \in Open(c) : z.seq <= x.seq
  <1> DEFINE top == cursor["admission"]
             T == {m \in Nat : \E x \in Open(c) : m + x.seq = top}
  <1>1. top \in Nat /\ \A x \in Open(c) : x.seq \in Nat /\ x.seq <= top
    BY DEF OutboxInv, Typed, Numbered, Open, Rows, Consumers
  <1> HIDE DEF top
  <1>2. \A x \in Open(c) : top - x.seq \in T
    BY <1>1
  <1>3. T # {} /\ T \subseteq Nat
    BY <1>2
  <1>4. PICK m \in T : \A n \in T : m <= n
    BY <1>3, NatMin
  <1>5. PICK x \in Open(c) : m + x.seq = top
    BY <1>4
  <1>6. \A z \in Open(c) : z.seq <= x.seq
    BY <1>1, <1>2, <1>4, <1>5
  <1> QED BY <1>6

\* deliver_task_notification: the conversation is shown the row that is held for it.
LEMMA SendKeeps ==
  ASSUME OutboxInv, NEW w \in workers, Send(w)
  PROVE  OutboxInv'
  <1> DEFINE x == w.row
             c == x.to
             e == <<x.consumer, x.seq, x.items>>
             v == [w EXCEPT !.sent = TRUE]
             n == Len(shown[c])
  <1>0. Typed /\ Readers /\ Holds(w) /\ ~w.sent
    BY DEF OutboxInv, Held, Send
  <1>1. /\ workers' = (workers \ {w}) \union {v}
        /\ shown' = [shown EXCEPT ![c] = Append(@, e)]
        /\ UNCHANGED <<happened, bound, addressed, cursor, outbox, status, reader, failures>>
    BY DEF Send
  <1>2. /\ x \in outbox /\ x \in Rows /\ c \in Conversations /\ e \in Entries
        /\ x.consumer \in Consumers /\ x.seq \in Nat
        /\ w \in [row : Rows, sent : BOOLEAN]
    BY <1>0 DEF Typed, Holds, Rows, Entries
  <1>3. v \in [row : Rows, sent : BOOLEAN] /\ v.row = x /\ v.sent
    BY <1>2
  <1>4. shown[c] \in Seq(Entries) /\ n \in Nat
    BY <1>0, <1>2 DEF Typed
  <1>5. e[1] = x.consumer /\ e[2] = x.seq /\ e[3] = x.items
    OBVIOUS
  <1>6. /\ shown' \in [Conversations -> Seq(Entries)]
        /\ Len(shown'[c]) = n + 1 /\ shown'[c][n + 1] = e
        /\ \A i \in 1..n : shown'[c][i] = shown[c][i]
        /\ \A d \in Conversations : d # c => shown'[d] = shown[d]
    <2> DEFINE q == Append(shown[c], e)
    <2>1. q \in Seq(Entries) /\ Len(q) = n + 1 /\ q[n + 1] = e
          /\ \A i \in 1..n : q[i] = shown[c][i]
      BY <1>2, <1>4
    <2>2. shown' = [shown EXCEPT ![c] = q]
      BY <1>1
    <2> HIDE DEF q, e, c
    <2> QED BY <2>1, <2>2, <1>0, <1>2 DEF Typed
  <1> HIDE DEF v, e, c, x, n
  <1>7. /\ x = w.row /\ c = x.to
        /\ \A i \in 1..Len(shown'[c]) : i \in 1..n \/ i = n + 1
        /\ \A i \in 1..n : i \in 1..Len(shown[c]) /\ i \in 1..Len(shown'[c])
        /\ \A i \in 1..Len(shown[c]) : i \in 1..n
        /\ n + 1 \in 1..Len(shown'[c])
    BY <1>4, <1>6 DEF x, c, n
  <1>8. Typed' /\ Readers'
    <2>1. IsFiniteSet(workers')
      BY <1>0, <1>1, FS_AddElement, FS_RemoveElement DEF Typed
    <2> QED BY <2>1, <1>0, <1>1, <1>3, <1>6 DEF Typed, Readers, Follows
  <1>9. Numbered'
    BY <1>1 DEF OutboxInv, Numbered
  <1>10. Held'
    <2>1. ASSUME NEW u \in workers, u # w PROVE Holds(u)' /\ (u.sent => Told(u)') /\ u.row # x
      <3>1. Holds(u) /\ (u.sent => Told(u)) /\ u.row # x
        BY <2>1, <1>7 DEF OutboxInv, Held
      <3>2. Holds(u)'
        BY <3>1, <1>1 DEF Holds, Oldest
      <3>3. u.row.to \in Conversations
        BY <3>1, <1>0 DEF Holds, Typed, Rows
      <3>4. \A i \in 1..Len(shown[u.row.to]) :
               i \in 1..Len(shown'[u.row.to]) /\ shown'[u.row.to][i] = shown[u.row.to][i]
        BY <3>3, <1>6, <1>7 DEF n
      <3>5. u.sent => Told(u)'
        BY <3>1, <3>4 DEF Told
      <3> QED BY <3>1, <3>2, <3>5
    <2>2. Holds(v)'
      BY <1>0, <1>1, <1>3, <1>7 DEF Holds, Oldest
    <2>3. Told(v)'
      BY <1>3, <1>6, <1>7 DEF Told, e
    <2> QED BY <2>1, <2>2, <2>3, <1>1, <1>3 DEF OutboxInv, Held
  <1>11. /\ \A i \in 1..n : shown[c][i][1] = x.consumer => shown[c][i][2] <= x.seq
    BY <1>2, <1>7 DEF OutboxInv, Earlier, Before
  <1>12. Earlier'
    <2>1. ASSUME NEW d \in Conversations, NEW i \in 1..Len(shown'[d])
          PROVE  Before(shown[d][i], d)'
      <3>1. CASE d = c /\ i = n + 1
        <4>1. x.seq <= cursor[x.consumer]
          BY <1>2 DEF OutboxInv, Numbered
        <4>2. \A y \in outbox : y.to = c /\ y.consumer = x.consumer => x.seq <= y.seq
          BY <1>0, <1>2, <1>7 DEF Holds, Oldest, Typed, Rows
        <4> QED BY <3>1, <4>1, <4>2, <1>1, <1>5, <1>6 DEF Before
      <3>2. CASE ~(d = c /\ i = n + 1)
        <4>1. i \in 1..Len(shown[d]) /\ shown'[d][i] = shown[d][i]
          BY <3>2, <1>6, <1>7
        <4>2. Before(shown[d][i], d)
          BY <4>1 DEF OutboxInv, Earlier
        <4> QED BY <4>1, <4>2, <1>1 DEF Before
      <3> QED BY <3>1, <3>2
    <2> QED BY <2>1 DEF Earlier
  <1>13. ShownInOrder'
    <2>1. ASSUME NEW d \in Conversations, NEW i \in 1..Len(shown'[d]), NEW j \in 1..Len(shown'[d]),
                 i < j, shown'[d][i][1] = shown'[d][j][1]
          PROVE  shown'[d][i][2] <= shown'[d][j][2]
      <3>1. CASE d = c /\ j = n + 1
        <4>1. i \in 1..n /\ shown'[d][i] = shown[c][i]
          BY <2>1, <3>1, <1>4, <1>6, <1>7
        <4> QED BY <3>1, <4>1, <2>1, <1>5, <1>6, <1>11
      <3>2. CASE ~(d = c /\ j = n + 1)
        <4>1. /\ i \in 1..Len(shown[d]) /\ shown'[d][i] = shown[d][i]
              /\ j \in 1..Len(shown[d]) /\ shown'[d][j] = shown[d][j]
          BY <2>1, <3>2, <1>4, <1>6, <1>7
        <4> QED BY <4>1, <2>1 DEF OutboxInv, ShownInOrder
      <3> QED BY <3>1, <3>2
    <2> QED BY <2>1 DEF ShownInOrder
  <1>14. Repeats'
    <2> DEFINE S == Showings(c, x.consumer, x.seq)
    <2>1. Cardinality(S) <= failures /\ Cardinality(S) \in Nat /\ IsFiniteSet(S)
          /\ failures \in Nat
      <3>1. Waits(x)
        BY <1>0, <1>7 DEF Waits, OutboxInv, Held
      <3>2. Cardinality(S) <= failures
        BY <3>1, <1>2, <1>7 DEF OutboxInv, Repeats
      <3> QED BY <3>2, <1>0, <1>2, ShowingsFinite DEF Typed
    <2>2. Showings(c, x.consumer, x.seq)' \subseteq S \union {n + 1}
      BY <1>6, <1>7 DEF Showings
    <2>3. /\ IsFiniteSet(S \union {n + 1})
          /\ Cardinality(S \union {n + 1}) \in Nat
          /\ Cardinality(S \union {n + 1}) <= 1 + failures
      <3> HIDE DEF S
      <3>1. /\ IsFiniteSet(S \union {n + 1})
            /\ Cardinality(S \union {n + 1}) =
                  IF n + 1 \in S THEN Cardinality(S) ELSE Cardinality(S) + 1
        BY <2>1, FS_AddElement
      <3> QED BY <3>1, <2>1
    <2>4. Cardinality(Showings(c, x.consumer, x.seq)') <= 1 + failures
      <3> HIDE DEF S
      <3>1. /\ Cardinality(Showings(c, x.consumer, x.seq)') <= Cardinality(S \union {n + 1})
            /\ IsFiniteSet(Showings(c, x.consumer, x.seq)')
        BY <2>2, <2>3, FS_Subset
      <3>2. Cardinality(Showings(c, x.consumer, x.seq)') \in Nat
        BY <3>1, FS_CardinalityType
      <3> QED BY <3>1, <3>2, <2>1, <2>3
    <2>5. ASSUME NEW d \in Conversations, NEW k \in Consumers, NEW m \in Nat,
                 ~(d = c /\ k = x.consumer /\ m = x.seq)
          PROVE  Showings(d, k, m)' = Showings(d, k, m)
      <3>1. CASE d # c
        BY <3>1, <1>6 DEF Showings
      <3>2. CASE d = c
        <4>1. ~(shown'[c][n + 1][1] = k /\ shown'[c][n + 1][2] = m)
          BY <3>2, <2>5, <1>5, <1>6
        <4>2. \A i : i \in 1..Len(shown'[c]) <=> (i \in 1..Len(shown[c]) \/ i = n + 1)
          BY <1>7
        <4>3. \A i \in 1..Len(shown[c]) : shown'[c][i] = shown[c][i]
          BY <1>6 DEF n
        <4>4. n + 1 \notin 1..Len(shown[c])
          BY <1>4 DEF n
        <4> QED BY <3>2, <4>1, <4>2, <4>3, <4>4 DEF Showings
      <3> QED BY <3>1, <3>2
    <2>6. ASSUME NEW d \in Conversations, NEW k \in Consumers, NEW m \in Nat
          PROVE  Cardinality(Showings(d, k, m)') <= 1 + failures'
      <3>1. CASE d = c /\ k = x.consumer /\ m = x.seq
        BY <3>1, <2>4, <1>1
      <3>2. CASE ~(d = c /\ k = x.consumer /\ m = x.seq)
        BY <3>2, <2>5, <1>1 DEF OutboxInv, Repeats
      <3> QED BY <3>1, <3>2
    <2>7. ASSUME NEW z \in outbox', Waits(z)'
          PROVE  Cardinality(Showings(z.to, z.consumer, z.seq)') <= failures'
      <3>1. z \in outbox /\ z # x
        BY <2>7, <1>1, <1>3 DEF Waits
      <3>2. Waits(z)
        BY <3>1, <2>7, <1>1, <1>7 DEF Waits
      <3>3. z.to \in Conversations /\ z.consumer \in Consumers /\ z.seq \in Nat
        BY <3>1, <1>0 DEF Typed, Rows
      <3>4. ~(z.consumer = x.consumer /\ z.seq = x.seq)
        BY <3>1, <1>2 DEF OutboxInv, Numbered
      <3>5. Showings(z.to, z.consumer, z.seq)' = Showings(z.to, z.consumer, z.seq)
        BY <3>3, <3>4, <2>5
      <3> QED BY <3>1, <3>2, <3>5, <1>1 DEF OutboxInv, Repeats
    <2> QED BY <2>6, <2>7 DEF Repeats
  <1>15. NothingUntold'
    <2>1. ASSUME NEW d \in Conversations PROVE Seen(d) \subseteq Seen(d)'
      <3>1. \A i \in 1..Len(shown[d]) :
               i \in 1..Len(shown'[d]) /\ shown'[d][i] = shown[d][i]
        BY <1>6, <1>7 DEF n
      <3> QED BY <3>1 DEF Seen
    <2>2. \A d : Owed(d)' = Owed(d)
      BY <1>1 DEF Owed
    <2>3. \A m \in 1..Len(addressed) : addressed[m] # Nobody => addressed[m] \in Conversations
      BY <1>0 DEF Typed
    <2>4. \A r \in Requests : Home[r] \in Conversations
      BY <1>0 DEF Typed, Home
    <2> QED BY <2>1, <2>2, <2>3, <2>4, <1>1 DEF OutboxInv, NothingUntold
  <1> QED BY <1>8, <1>9, <1>10, <1>12, <1>13, <1>14, <1>15 DEF OutboxInv

\* finish_notification: the row that was shown is gone.
LEMMA AcknowledgeKeeps ==
  ASSUME OutboxInv, NEW w \in workers, Acknowledge(w)
  PROVE  OutboxInv'
  <1> DEFINE x == w.row
  <1>0. Typed /\ Readers /\ Holds(w) /\ Told(w)
    BY DEF OutboxInv, Held, Acknowledge
  <1>1. /\ outbox' = outbox \ {x} /\ workers' = workers \ {w}
        /\ UNCHANGED <<happened, bound, addressed, cursor, status, reader, shown, failures>>
    BY LeasedIs DEF Acknowledge
  <1>2. IsFiniteSet(outbox') /\ IsFiniteSet(workers')
    BY <1>0, <1>1, FS_RemoveElement DEF Typed
  <1>3. Typed' /\ Readers'
    BY <1>0, <1>1, <1>2 DEF Typed, Readers, Follows
  <1>4. Numbered' /\ Earlier' /\ ShownInOrder'
    BY <1>1 DEF OutboxInv, Numbered, Earlier, Before, ShownInOrder
  <1>5. Held'
    <2>1. \A u \in workers' : Holds(u)' /\ (u.sent => Told(u)')
      BY <1>1 DEF OutboxInv, Held, Holds, Oldest, Told
    <2> QED BY <2>1, <1>1 DEF OutboxInv, Held
  <1>6. Repeats'
    <2>1. \A c, k, n : Showings(c, k, n)' = Showings(c, k, n)
      BY <1>1 DEF Showings
    <2>2. \A z \in outbox' : Waits(z)' => Waits(z)
      BY <1>1 DEF Waits
    <2> QED BY <2>1, <2>2, <1>1 DEF OutboxInv, Repeats
  <1>7. ASSUME NEW c PROVE Seen(c) \union Owed(c) \subseteq Seen(c)' \union Owed(c)'
    <2>1. Seen(c)' = Seen(c)
      BY <1>1 DEF Seen
    <2>2. x.to = c => x.items \subseteq Seen(c)
      BY <1>0 DEF Told, Seen
    <2>3. ASSUME NEW t \in Owed(c) PROVE t \in Seen(c)' \union Owed(c)'
      <3>1. PICK z \in outbox : z.to = c /\ t \in z.items
        BY <2>3 DEF Owed
      <3>2. z # x => t \in Owed(c)'
        BY <3>1, <1>1 DEF Owed
      <3> QED BY <3>1, <3>2, <2>1, <2>2
    <2> QED BY <2>1, <2>3
  <1>8. NothingUntold'
    BY <1>1, <1>7, ToldOn DEF OutboxInv
  <1> QED BY <1>3, <1>4, <1>5, <1>6, <1>8 DEF OutboxInv

\* An error, sent or not: the row is given back for a later attempt.
LEMMA FailKeeps ==
  ASSUME OutboxInv, NEW w \in workers, Fail(w)
  PROVE  OutboxInv'
  <1> DEFINE x == w.row
             y == [x EXCEPT !.token = Nobody, !.due = FALSE]
  <1>0. Typed /\ Readers /\ Holds(w)
    BY DEF OutboxInv, Held
  <1>1. /\ outbox' = (outbox \ {x}) \union {y} /\ workers' = workers \ {w}
        /\ failures' = failures + 1
        /\ UNCHANGED <<happened, bound, addressed, cursor, status, reader, shown>>
    BY LeasedIs DEF Fail, Failure
  <1>2. x \in outbox /\ x \in Rows
    BY <1>0 DEF Holds, Typed
  <1>3. /\ y \in Rows /\ y.consumer = x.consumer /\ y.seq = x.seq /\ y.to = x.to
        /\ y.items = x.items
    BY <1>2 DEF Rows
  <1> HIDE DEF y
  <1>4. \A u \in workers' : u \in workers /\ u.row # x
    BY <1>1 DEF OutboxInv, Held
  <1>5. /\ outbox' \subseteq Rows /\ IsFiniteSet(outbox')
        /\ Numbered' /\ Earlier'
        /\ \A u \in workers' : Holds(u)' /\ (u.sent => Told(u)')
        /\ \A c : Owed(c) \subseteq Owed(c)'
    <2> DEFINE ws == workers \ {w}
    <2>1. ws \in SUBSET workers /\ \A u \in ws : u.row # x
      BY <1>1, <1>4
    <2>2. /\ outbox' \subseteq Rows /\ IsFiniteSet(outbox')
          /\ Numbered' /\ Earlier'
          /\ \A u \in ws : Holds(u)' /\ (u.sent => Told(u)')
          /\ \A c : Owed(c) \subseteq Owed(c)'
      <3> HIDE DEF ws, x
      <3> QED BY <2>1, <1>1, <1>2, <1>3, ReplaceRow
    <2> QED BY <2>2, <1>1
  <1>6. IsFiniteSet(workers')
    BY <1>0, <1>1, FS_RemoveElement DEF Typed
  <1>7. Typed' /\ Readers'
    BY <1>0, <1>1, <1>5, <1>6 DEF Typed, Readers, Follows
  <1>8. Held'
    BY <1>1, <1>5 DEF OutboxInv, Held
  <1>9. ShownInOrder' /\ NothingUntold'
    BY <1>1, <1>5, ToldOn DEF OutboxInv, ShownInOrder, Seen
  <1>10. Repeats'
    <2>1. ASSUME NEW c \in Conversations, NEW k \in Consumers, NEW n \in Nat
          PROVE  Cardinality(Showings(c, k, n)') <= failures'
      <3>1. Cardinality(Showings(c, k, n)) <= 1 + failures
        BY DEF OutboxInv, Repeats
      <3>2. Showings(c, k, n)' = Showings(c, k, n)
        BY <1>1 DEF Showings
      <3>3. Cardinality(Showings(c, k, n)) \in Nat /\ failures \in Nat
        BY <1>0, ShowingsFinite DEF Typed
      <3> QED BY <3>1, <3>2, <3>3, <1>1
    <2>2. \A c \in Conversations, k \in Consumers, n \in Nat :
             Cardinality(Showings(c, k, n)') \in Nat /\ failures' \in Nat
      <3>1. \A c, k, n : Showings(c, k, n)' = Showings(c, k, n)
        BY <1>1 DEF Showings
      <3> QED BY <3>1, <1>0, <1>1, ShowingsFinite DEF Typed
    <2>3. \A z \in outbox' : z.to \in Conversations /\ z.consumer \in Consumers /\ z.seq \in Nat
      BY <1>5 DEF Rows
    <2> QED BY <2>1, <2>2, <2>3 DEF Repeats
  <1> QED BY <1>5, <1>7, <1>8, <1>9, <1>10 DEF OutboxInv

\* The runtime stops or crashes: deliveries and refreshes end, rows and leases stay.
LEMMA StopKeeps ==
  ASSUME OutboxInv, Stop
  PROVE  OutboxInv'
  <1>0. Typed /\ Readers
    BY DEF OutboxInv
  <1>1. /\ workers' = {} /\ reader' = [p \in Refreshers |-> <<>>] /\ failures' = failures + 1
        /\ UNCHANGED <<happened, bound, addressed, cursor, outbox, status, shown>>
    BY DEF Stop, Failure
  <1>2. Typed' /\ Readers'
    <2>1. IsFiniteSet(workers')
      BY <1>1, FS_EmptySet
    <2> QED BY <2>1, <1>0, <1>1 DEF Typed, Readers, Follows
  <1>3. Numbered' /\ Earlier' /\ ShownInOrder' /\ Held'
    BY <1>1 DEF OutboxInv, Numbered, Earlier, Before, ShownInOrder, Held
  <1>4. NothingUntold'
    BY <1>1 DEF OutboxInv, NothingUntold, Seen, Owed
  <1>5. Repeats'
    <2>1. ASSUME NEW c \in Conversations, NEW k \in Consumers, NEW n \in Nat
          PROVE  /\ Cardinality(Showings(c, k, n)') <= failures'
                 /\ Cardinality(Showings(c, k, n)') <= 1 + failures'
      <3>1. Cardinality(Showings(c, k, n)) <= 1 + failures
        BY DEF OutboxInv, Repeats
      <3>2. Showings(c, k, n)' = Showings(c, k, n)
        BY <1>1 DEF Showings
      <3>3. Cardinality(Showings(c, k, n)) \in Nat /\ failures \in Nat
        BY <1>0, ShowingsFinite DEF Typed
      <3> QED BY <3>1, <3>2, <3>3, <1>1
    <2>2. \A z \in outbox' : z.to \in Conversations /\ z.consumer \in Consumers /\ z.seq \in Nat
      BY <1>0, <1>1 DEF Typed, Rows
    <2> QED BY <2>1, <2>2 DEF Repeats
  <1> QED BY <1>2, <1>3, <1>4, <1>5 DEF OutboxInv

\* A new row is numbered next: nothing newer was shown or waits.
LEMMA NewRow ==
  ASSUME OutboxInv, NEW k \in Consumers, cursor' = [cursor EXCEPT ![k] = cursor[k] + 1],
         UNCHANGED <<workers, shown, failures>>,
         \/ UNCHANGED outbox
         \/ \E y \in Rows : /\ outbox' = outbox \union {y}
                            /\ y.consumer = k /\ y.seq = cursor[k] + 1
  PROVE  /\ outbox' \subseteq Rows /\ IsFiniteSet(outbox') /\ cursor' \in [Consumers -> Nat]
         /\ Numbered' /\ Held' /\ Earlier' /\ ShownInOrder' /\ Repeats'
         /\ \A c : Seen(c)' = Seen(c) /\ Owed(c) \subseteq Owed(c)'
  <1>0. Typed
    BY DEF OutboxInv
  <1>1. /\ cursor' \in [Consumers -> Nat] /\ cursor'[k] = cursor[k] + 1
        /\ \A h \in Consumers : cursor[h] \in Nat /\ cursor[h] <= cursor'[h]
    BY <1>0 DEF Typed
  <1>2. outbox \subseteq outbox' /\ \A z \in outbox' \ outbox :
           z \in Rows /\ z.consumer = k /\ z.seq = cursor[k] + 1
    OBVIOUS
  <1>3. outbox' \subseteq Rows
    BY <1>0, <1>2 DEF Typed
  <1>4. IsFiniteSet(outbox')
    <2>1. IsFiniteSet(outbox)
      BY <1>0 DEF Typed
    <2>2. \A y : IsFiniteSet(outbox \union {y})
      BY <2>1, FS_AddElement
    <2> QED BY <2>1, <2>2
  <1>5. \A z \in outbox : z.consumer \in Consumers /\ z.seq \in Nat /\ z.seq <= cursor[z.consumer]
                          /\ z.to \in Conversations
    BY <1>0 DEF OutboxInv, Numbered, Typed, Rows
  <1>6. Numbered'
    <2>1. \A z \in outbox' : z.seq <= cursor'[z.consumer]
      BY <1>0, <1>1, <1>2, <1>5
    <2>2. \A x, y \in outbox' : x.consumer = y.consumer /\ x.seq = y.seq => x = y
      <3>1. \A x \in outbox : x.consumer = k => x.seq # cursor[k] + 1
        BY <1>1, <1>5
      <3> QED BY <3>1, <1>2 DEF OutboxInv, Numbered
    <2> QED BY <2>1, <2>2 DEF Numbered
  <1>7. Held'
    <2>1. ASSUME NEW w \in workers PROVE Holds(w)' /\ (w.sent => Told(w)')
      <3>1. Holds(w) /\ (w.sent => Told(w))
        BY DEF OutboxInv, Held
      <3>2. \A z \in outbox' \ outbox : z.consumer = w.row.consumer => z.seq >= w.row.seq
        BY <3>1, <1>1, <1>2, <1>5 DEF Holds
      <3>3. Oldest(w.row)'
        BY <3>1, <3>2 DEF Holds, Oldest
      <3> QED BY <3>1, <3>3, <1>2 DEF Holds, Told
    <2> QED BY <2>1 DEF OutboxInv, Held
  <1>8. Earlier'
    <2>1. ASSUME NEW c \in Conversations, NEW i \in 1..Len(shown[c])
          PROVE  Before(shown[c][i], c)'
      <3>1. Before(shown[c][i], c)
        BY DEF OutboxInv, Earlier
      <3>2. shown[c][i] \in Entries
        BY <1>0 DEF Typed
      <3>3. shown[c][i][1] \in Consumers /\ shown[c][i][2] \in Nat
        BY <3>2 DEF Entries
      <3>4. shown'[c][i] = shown[c][i]
        OBVIOUS
      <3> QED BY <3>1, <3>3, <3>4, <1>1, <1>2 DEF Before
    <2> QED BY <2>1 DEF Earlier
  <1>9. ShownInOrder'
    BY DEF OutboxInv, ShownInOrder
  <1>10. Repeats'
    <2>1. \A c, h, n : Showings(c, h, n)' = Showings(c, h, n)
      BY DEF Showings
    <2>2. ASSUME NEW z \in outbox', Waits(z)'
          PROVE  Cardinality(Showings(z.to, z.consumer, z.seq)) <= failures
      <3>1. CASE z \in outbox
        BY <2>2, <3>1 DEF OutboxInv, Repeats, Waits
      <3>2. CASE z \notin outbox
        <4>1. z \in Rows /\ z.to \in Conversations /\ z.seq \in Nat /\ z.seq > cursor[k]
          BY <3>2, <1>1, <1>2 DEF Rows
        <4>2. Cardinality(Showings(z.to, k, z.seq)) = 0
          BY <4>1, NeverShown
        <4> QED BY <3>2, <4>2, <1>0, <1>2 DEF Typed
      <3> QED BY <3>1, <3>2
    <2> QED BY <2>1, <2>2 DEF OutboxInv, Repeats
  <1>11. \A c : Seen(c)' = Seen(c) /\ Owed(c) \subseteq Owed(c)'
    BY <1>2 DEF Seen, Owed
  <1> QED BY <1>1, <1>3, <1>4, <1>6, <1>7, <1>8, <1>9, <1>10, <1>11

\* stage_notification: the next event of a refresher, staged already or now.
LEMMA StageKeeps ==
  ASSUME OutboxInv, NEW p \in Refreshers, Stage(p)
  PROVE  OutboxInv'
  <1> DEFINE q == reader[p]
             n == Head(q)
             m == cursor["tasks"]
  <1>0. Typed /\ Readers /\ q # <<>> /\ "tasks" \in Consumers
    BY DEF OutboxInv, Stage, Consumers
  <1>1. q \in Seq(Nat) /\ m \in Nat /\ Len(q) \in Nat /\ 1 \in 1..Len(q) /\ n = q[1] /\ n \in Nat
    BY <1>0 DEF Typed
  <1>2. n <= m + 1 /\ \A i \in 1..Len(q) : q[i] = n + i - 1
    BY <1>0, <1>1 DEF Readers, Follows
  <1>5. UNCHANGED <<happened, bound, status, workers, shown, failures>>
        /\ reader' = [reader EXCEPT ![p] = Tail(q)]
    BY DEF Stage
  <1>10. \/ Staged(n) /\ cursor' = [cursor EXCEPT !["tasks"] = IF m < n THEN n ELSE m]
            /\ addressed' = (IF n > Len(addressed) THEN Append(addressed, bound) ELSE addressed)
            /\ outbox' = IF bound = Nobody THEN outbox
                         ELSE outbox \union {Row("tasks", n, bound, {<<"task", n>>})}
         \/ ~Staged(n) /\ UNCHANGED <<cursor, addressed, outbox>>
    BY DEF Stage
  <1> HIDE DEF q, n
  <1>3. /\ Tail(q) \in Seq(Nat) /\ Len(Tail(q)) = Len(q) - 1
        /\ \A i \in 1..Len(Tail(q)) : i + 1 \in 1..Len(q) /\ Tail(q)[i] = q[i + 1]
    BY <1>0, <1>1
  <1>4. \A i \in 1..Len(Tail(q)) : Tail(q)[1] = n + 1 /\ Tail(q)[i] = Tail(q)[1] + i - 1
    <2>1. ASSUME NEW i \in 1..Len(Tail(q))
          PROVE  Tail(q)[1] = n + 1 /\ Tail(q)[i] = Tail(q)[1] + i - 1
      <3>1. 1 \in 1..Len(Tail(q)) /\ i \in Int
        BY <1>1, <1>3
      <3>2. Tail(q)[1] = q[2] /\ 2 \in 1..Len(q) /\ Tail(q)[i] = q[i + 1] /\ i + 1 \in 1..Len(q)
        BY <3>1, <1>3
      <3> QED BY <3>1, <3>2, <1>1, <1>2
    <2> QED BY <2>1
  <1>6. reader' \in [Refreshers -> Seq(Nat)]
    BY <1>0, <1>3, <1>5 DEF Typed
  <1>7. ASSUME cursor'["tasks"] \in Nat, m <= cursor'["tasks"], n <= cursor'["tasks"]
        PROVE  \A r \in Refreshers : Follows(reader[r])'
    <2>1. ASSUME NEW r \in Refreshers PROVE Follows(reader[r])'
      <3>1. CASE r = p
        <4>1. reader'[r] = Tail(q)
          BY <3>1, <1>0, <1>5 DEF Typed
        <4>2. ASSUME NEW i \in 1..Len(Tail(q))
              PROVE  Tail(q)[1] <= cursor'["tasks"] + 1 /\ Tail(q)[i] = Tail(q)[1] + i - 1
          <5>1. Tail(q)[1] = n + 1 /\ Tail(q)[i] = Tail(q)[1] + i - 1
            BY <1>4
          <5>2. n + 1 <= cursor'["tasks"] + 1
            BY <1>1, <1>7
          <5> QED BY <5>1, <5>2
        <4> QED BY <4>1, <4>2 DEF Follows
      <3>2. CASE r # p
        <4>1. reader'[r] = reader[r] /\ Follows(reader[r]) /\ reader[r] \in Seq(Nat)
          BY <3>2, <1>0, <1>5 DEF Typed, Readers
        <4>2. ASSUME NEW i \in 1..Len(reader[r])
              PROVE  /\ reader[r][1] <= cursor'["tasks"] + 1
                     /\ reader[r][i] = reader[r][1] + i - 1
          <5>1. 1 \in 1..Len(reader[r]) /\ reader[r][1] \in Nat
            BY <4>1
          <5>2. reader[r][1] <= m + 1 /\ reader[r][i] = reader[r][1] + i - 1
            BY <4>1 DEF Follows
          <5>3. m \in Nat /\ cursor'["tasks"] \in Nat /\ m <= cursor'["tasks"]
            BY <1>1, <1>7
          <5>4. reader[r][1] <= cursor'["tasks"] + 1
            <6> HIDE DEF m
            <6> QED BY <5>1, <5>2, <5>3
          <5> QED BY <5>2, <5>4
        <4> QED BY <4>1, <4>2 DEF Follows
      <3> QED BY <3>1, <3>2
    <2> QED BY <2>1
  <1>8. CASE ~Staged(n)
    <2>1. UNCHANGED <<cursor, addressed, outbox>>
      BY <1>8, <1>10
    <2>2. Typed'
      BY <2>1, <1>0, <1>5, <1>6 DEF Typed
    <2>3. n <= m
      BY <1>1, <1>8 DEF Staged
    <2>4. Readers'
      BY <2>1, <2>3, <1>0, <1>1, <1>7 DEF Readers
    <2> QED BY <2>1, <2>2, <2>4, <1>5, IdleStep
  <1>9. CASE Staged(n)
    <2>1. n = m + 1 /\ Len(addressed) = m
      BY <1>0, <1>1, <1>2, <1>9 DEF Staged, Readers
    <2>2. cursor' = [cursor EXCEPT !["tasks"] = m + 1] /\ addressed' = Append(addressed, bound)
      BY <2>1, <1>1, <1>9, <1>10
    <2> DEFINE y == Row("tasks", n, bound, {<<"task", n>>})
    <2>3. outbox' = IF bound = Nobody THEN outbox ELSE outbox \union {y}
      BY <1>9, <1>10
    <2>4. bound # Nobody =>
             y \in Rows /\ y.consumer = "tasks" /\ y.seq = m + 1 /\ y.to = bound
             /\ <<"task", n>> \in y.items
      <3>1. {<<"task", n>>} \in Items
        BY <1>1 DEF Items
      <3>2. bound # Nobody => bound \in Conversations
        BY <1>0 DEF Typed
      <3> QED BY <3>1, <3>2, <2>1, <1>0, <1>1 DEF Row, Rows
    <2> HIDE DEF y
    <2>5. /\ outbox' \subseteq Rows /\ IsFiniteSet(outbox') /\ cursor' \in [Consumers -> Nat]
          /\ Numbered' /\ Held' /\ Earlier' /\ ShownInOrder' /\ Repeats'
          /\ \A c : Seen(c)' = Seen(c) /\ Owed(c) \subseteq Owed(c)'
      <3>1. \/ UNCHANGED outbox
            \/ \E z \in Rows : /\ outbox' = outbox \union {z}
                               /\ z.consumer = "tasks" /\ z.seq = cursor["tasks"] + 1
        BY <2>3, <2>4
      <3> QED BY <3>1, <2>2, <1>0, <1>5, NewRow
    <2>6. /\ addressed' \in Seq(Conversations \union {Nobody}) /\ Len(addressed') = m + 1
          /\ addressed'[m + 1] = bound /\ \A i \in 1..m : addressed'[i] = addressed[i]
          /\ \A i \in 1..Len(addressed') : i \in 1..Len(addressed) \/ i = n
      BY <2>1, <2>2, <1>0, <1>1 DEF Typed
    <2>7. Typed'
      BY <2>5, <2>6, <1>0, <1>5, <1>6 DEF Typed
    <2>8. cursor'["tasks"] = m + 1
      BY <2>2, <1>0 DEF Typed
    <2>9. Readers'
      BY <2>1, <2>6, <2>8, <1>1, <1>7 DEF Readers
    <2>10. NothingUntold'
      <3>1. ASSUME NEW i \in 1..Len(addressed'), NEW d, d = addressed'[i], d # Nobody
            PROVE  <<"task", i>> \in Seen(d)' \union Owed(d)'
        <4>1. CASE i = n
          <5>1. d = bound /\ y \in outbox' /\ y.to = d /\ <<"task", i>> \in y.items
            BY <4>1, <3>1, <2>1, <2>3, <2>4, <2>6
          <5> QED BY <5>1 DEF Owed
        <4>2. CASE i \in 1..Len(addressed)
          <5>1. addressed[i] = d
            BY <4>2, <3>1, <2>1, <2>6
          <5>2. <<"task", i>> \in Seen(d) \union Owed(d)
            BY <4>2, <5>1, <3>1 DEF OutboxInv, NothingUntold
          <5> QED BY <5>2, <2>5
        <4> QED BY <4>1, <4>2, <2>6
      <3>2. ASSUME NEW r \in Requests, status'[r] = "rejected"
            PROVE  <<"input", r>> \in Seen(Home[r])' \union Owed(Home[r])'
        BY <3>2, <2>5, <1>5 DEF OutboxInv, NothingUntold
      <3> QED BY <3>1, <3>2 DEF NothingUntold, Seen, Owed
    <2> QED BY <2>5, <2>7, <2>9, <2>10 DEF OutboxInv
  <1> QED BY <1>8, <1>9

\* reject_overloaded: the refusal joins a notice that nobody delivers, or is a new one.
LEMMA RejectKeeps ==
  ASSUME OutboxInv, NEW r \in Requests, Reject(r)
  PROVE  OutboxInv'
  <1> DEFINE c == Home[r]
             t == <<"input", r>>
  <1>0. Typed /\ Readers /\ "admission" \in Consumers
    BY DEF OutboxInv, Consumers
  <1>1. c \in Conversations
    BY <1>0 DEF Typed, Home
  <1>2. /\ status' = [status EXCEPT ![r] = "rejected"]
        /\ UNCHANGED <<happened, bound, addressed, reader, workers, shown, failures>>
    BY DEF Reject
  <1>3. \/ /\ Open(c) # {} /\ UNCHANGED cursor
           /\ LET x == CHOOSE y \in Open(c) : \A z \in Open(c) : z.seq <= y.seq
              IN  outbox' = (outbox \ {x}) \union {[x EXCEPT !.items = @ \union {t}]}
        \/ /\ cursor' = [cursor EXCEPT !["admission"] = cursor["admission"] + 1]
           /\ outbox' = outbox \union {Row("admission", cursor["admission"] + 1, c, {t})}
    BY DEF Reject, Replace
  <1>4. t \in ({"task"} \X Nat) \union ({"input"} \X Requests)
    OBVIOUS
  <1> HIDE DEF c, t
  <1>5. ASSUME \A d : Seen(d)' = Seen(d) /\ Owed(d) \subseteq Owed(d)', t \in Owed(c)'
        PROVE  NothingUntold'
    <2>1. ASSUME NEW i \in 1..Len(addressed), addressed[i] # Nobody
          PROVE  <<"task", i>> \in Seen(addressed[i])' \union Owed(addressed[i])'
      BY <2>1, <1>2, <1>5 DEF OutboxInv, NothingUntold
    <2>2. ASSUME NEW s \in Requests, status'[s] = "rejected"
          PROVE  <<"input", s>> \in Seen(Home[s])' \union Owed(Home[s])'
      <3>1. CASE s = r
        BY <3>1, <1>5 DEF c, t
      <3>2. CASE s # r
        BY <3>2, <2>2, <1>0, <1>2, <1>5 DEF OutboxInv, NothingUntold, Typed
      <3> QED BY <3>1, <3>2
    <2>3. addressed' = addressed
      BY <1>2
    <2> QED BY <2>1, <2>2, <2>3 DEF NothingUntold, Seen, Owed
  <1>6. CASE /\ Open(c) # {} /\ UNCHANGED cursor
             /\ LET x == CHOOSE y \in Open(c) : \A z \in Open(c) : z.seq <= y.seq
                IN  outbox' = (outbox \ {x}) \union {[x EXCEPT !.items = @ \union {t}]}
    <2>1. PICK x \in Open(c) : outbox' = (outbox \ {x}) \union {[x EXCEPT !.items = @ \union {t}]}
      BY <1>6, NewestOpen
    <2> DEFINE y == [x EXCEPT !.items = @ \union {t}]
    <2>2. x \in outbox /\ x \in Rows /\ x.to = c /\ x.token = Nobody
      BY <1>0 DEF Open, Typed
    <2>3. /\ y \in Rows /\ y.consumer = x.consumer /\ y.seq = x.seq /\ y.to = x.to
          /\ y.items = x.items \union {t} /\ x.items \subseteq y.items
      BY <2>2, <1>4 DEF Rows, Items
    <2> HIDE DEF y
    <2>4. outbox' = (outbox \ {x}) \union {y}
      BY <2>1 DEF y
    <2>5. \A w \in workers : w.row # x
      BY <2>2 DEF OutboxInv, Held, Holds
    <2>6. /\ outbox' \subseteq Rows /\ IsFiniteSet(outbox')
          /\ Numbered' /\ Earlier'
          /\ \A w \in workers : Holds(w)' /\ (w.sent => Told(w)')
          /\ \A d : Owed(d) \subseteq Owed(d)' /\ (x.to = d => y.items \subseteq Owed(d)')
      <3>1. UNCHANGED <<cursor, shown>> /\ workers \in SUBSET workers
        BY <1>2, <1>6
      <3> QED BY <3>1, <2>2, <2>3, <2>4, <2>5, ReplaceRow
    <2>7. Typed' /\ Readers'
      BY <2>6, <1>0, <1>2, <1>6 DEF Typed, Readers, Follows
    <2>8. Held' /\ ShownInOrder'
      BY <2>6, <1>2 DEF OutboxInv, Held, ShownInOrder
    <2>9. NothingUntold'
      <3>1. \A d : Seen(d)' = Seen(d)
        BY <1>2 DEF Seen
      <3> QED BY <3>1, <2>2, <2>3, <2>6, <1>5
    <2>10. Repeats'
      <3>1. \A d, k, n : Showings(d, k, n)' = Showings(d, k, n)
        BY <1>2 DEF Showings
      <3>2. ASSUME NEW z \in outbox', Waits(z)'
            PROVE  Cardinality(Showings(z.to, z.consumer, z.seq)) <= failures
        <4>1. CASE z = y
          <5>1. Waits(x)
            BY <2>5 DEF Waits
          <5> QED BY <4>1, <5>1, <2>2, <2>3 DEF OutboxInv, Repeats
        <4>2. CASE z \in outbox
          BY <3>2, <4>2, <1>2 DEF OutboxInv, Repeats, Waits
        <4> QED BY <4>1, <4>2, <2>4
      <3> QED BY <3>1, <3>2, <1>2 DEF OutboxInv, Repeats
    <2> QED BY <2>6, <2>7, <2>8, <2>9, <2>10 DEF OutboxInv
  <1>7. CASE /\ cursor' = [cursor EXCEPT !["admission"] = cursor["admission"] + 1]
             /\ outbox' = outbox \union {Row("admission", cursor["admission"] + 1, c, {t})}
    <2> DEFINE y == Row("admission", cursor["admission"] + 1, c, {t})
    <2>1. /\ y \in Rows /\ y.consumer = "admission" /\ y.seq = cursor["admission"] + 1
          /\ y.to = c /\ y.items = {t}
      <3>1. {t} \in Items
        BY <1>4 DEF Items
      <3>2. cursor["admission"] \in Nat
        BY <1>0 DEF Typed
      <3> QED BY <3>1, <3>2, <1>0, <1>1 DEF Row, Rows
    <2> HIDE DEF y
    <2>2. outbox' = outbox \union {y}
      BY <1>7 DEF y
    <2>3. /\ outbox' \subseteq Rows /\ IsFiniteSet(outbox') /\ cursor' \in [Consumers -> Nat]
          /\ Numbered' /\ Held' /\ Earlier' /\ ShownInOrder' /\ Repeats'
          /\ \A d : Seen(d)' = Seen(d) /\ Owed(d) \subseteq Owed(d)'
      BY <2>1, <2>2, <1>0, <1>2, <1>7, NewRow
    <2>4. cursor'["tasks"] = cursor["tasks"]
      BY <1>0, <1>7 DEF Typed
    <2>5. Typed' /\ Readers'
      BY <2>3, <2>4, <1>0, <1>2 DEF Typed, Readers, Follows
    <2>6. t \in Owed(c)'
      BY <2>1, <2>2 DEF Owed
    <2>7. NothingUntold'
      BY <2>3, <2>6, <1>5
    <2> QED BY <2>3, <2>5, <2>7 DEF OutboxInv
  <1> QED BY <1>3, <1>6, <1>7

LEMMA NextKeeps ==
  ASSUME Page \in Nat, Nobody \notin Nat, OutboxInv, [OutboxNext]_outboxVars
  PROVE  OutboxInv'
  <1>1. CASE Happen \/ Rebind \/ UNCHANGED outboxVars
    BY <1>1, Outside
  <1>2. CASE Claim
    BY <1>2, ClaimKeeps
  <1>3. CASE BackoffEnds
    BY <1>3, BackoffKeeps
  <1>4. CASE Stop
    BY <1>4, StopKeeps
  <1>5. ASSUME NEW p \in Refreshers, Read(p) \/ Stage(p) PROVE OutboxInv'
    BY <1>5, Outside, StageKeeps
  <1>6. ASSUME NEW r \in Requests, Process(r) \/ Reject(r) PROVE OutboxInv'
    BY <1>6, Outside, RejectKeeps
  <1>7. ASSUME NEW w \in workers, Send(w) \/ Acknowledge(w) \/ Fail(w) PROVE OutboxInv'
    BY <1>7, SendKeeps, AcknowledgeKeeps, FailKeeps
  <1> QED BY <1>1, <1>2, <1>3, <1>4, <1>5, <1>6, <1>7 DEF OutboxNext

----------------------------------------------------------------------------
(* The outbox keeps its promise *)

\* A staged event of a bound session and every rejected input is in the outbox until its
\* conversation was shown it; a conversation is shown its notices in the order of the
\* events; and each repetition is paid for by a failure or a stop, however deliveries,
\* refreshes, rejections and crashes interleave (notification_outbox.rs).
THEOREM NotificationsTrueHolds ==
  ASSUME Page \in Nat, Nobody \notin Nat
  PROVE  OutboxSpec => []NotificationsTrue
  <1>1. OutboxInit => OutboxInv
    BY InitOutbox
  <1>2. OutboxInv /\ [OutboxNext]_outboxVars => OutboxInv'
    BY NextKeeps
  <1>3. OutboxInv => NotificationsTrue
    <2> SUFFICES ASSUME OutboxInv PROVE RepeatedOnFailure
      BY DEF OutboxInv, NotificationsTrue
    <2>1. ASSUME NEW c \in Conversations, NEW i \in 1..Len(shown[c])
          PROVE  Cardinality({j \in 1..Len(shown[c]) : shown[c][j][1] = shown[c][i][1]
                                                     /\ shown[c][j][2] = shown[c][i][2]})
                     <= 1 + failures
      <3>1. shown[c][i] \in Entries
        BY DEF OutboxInv, Typed
      <3>2. shown[c][i][1] \in Consumers /\ shown[c][i][2] \in Nat
        BY <3>1 DEF Entries
      <3> QED BY <3>2 DEF OutboxInv, Repeats, Showings
    <2> QED BY <2>1 DEF RepeatedOnFailure
  <1> QED BY <1>1, <1>2, <1>3, PTL DEF OutboxSpec

----------------------------------------------------------------------------
(* The inductive invariant of a card *)

Maybe == Messages \union {Nothing}
Tasks ==
    [at : {"rest", "start", "update", "send", "updated", "sent"}, num : Nat,
     disable : BOOLEAN, enabled : BOOLEAN, previous : Maybe, message : Maybe]
CardTyped ==
    /\ latest \in Nat /\ disabled \in Nat /\ confirmed \in Nat /\ losses \in Nat /\ valid \in BOOLEAN
    /\ state \in [target : Maybe, uncertain : BOOLEAN, replaced : BOOLEAN, applied : Nat]
    /\ lock \in Writers \union {Nothing}
    /\ writer \in [Writers -> Tasks]
    /\ remote \in [Messages -> Views \union {Nothing}]
    /\ underway \subseteq
          [by : Writers, rev : Nat, disable : BOOLEAN, enabled : BOOLEAN, to : Maybe]

\* Whoever writes holds the card, and with it the message it writes to.
Holding(w) == writer[w].at \in {"update", "send", "updated", "sent"}
Locking ==
    /\ \A w \in Writers : Holding(w) <=> lock = w
    /\ lock # Nothing => state.target = Nothing
    /\ \A w \in Writers :
          /\ writer[w].at \in {"update", "updated"} => writer[w].previous \in Messages
          /\ writer[w].at \in {"send", "sent"} =>
                state.uncertain /\ writer[w].previous = Nothing /\ ~writer[w].disable

\* Requests go to messages that exist.
Exists(i) == i \in Messages /\ remote[i] # Nothing
Addressed ==
    /\ state.target # Nothing => Exists(state.target)
    /\ \A w \in Writers : writer[w].at \in {"update", "updated"} => Exists(writer[w].previous)
    /\ \A r \in underway : r.to # Nothing => Exists(r.to)

\* A revision is of one task, and nothing is newer than the latest.
Pending(w) == writer[w].at # "rest" /\ ~writer[w].disable
Revisions ==
    /\ latest <= MaxRevision /\ state.applied <= latest
    /\ \A w \in Writers : writer[w].at # "rest" => writer[w].num <= latest
    /\ \A w \in Writers : Pending(w) => writer[w].num # state.applied
    /\ \A v, w \in Writers : Pending(v) /\ Pending(w) /\ writer[v].num = writer[w].num => v = w

\* A view that was shown, or may be, is of a revision in S.
Within(i, n) == remote[i] # Nothing => remote[i].rev <= n
UpTo(n) ==
    /\ \A i \in Messages : Within(i, n)
    /\ \A r \in underway : ~r.disable => r.rev <= n
\* Of revision applied is the newest view, but for what the task with the card adds.
OfNewest(w) ==
    /\ writer[w].at = "update" => UpTo(state.applied)
    /\ writer[w].at = "updated" /\ writer[w].disable => UpTo(state.applied)
    /\ writer[w].at = "updated" /\ ~writer[w].disable =>
          /\ writer[w].num > state.applied
          /\ \A i \in Messages :
                Within(i, state.applied) \/ (InFlight(w) = {} /\ i = writer[w].previous)
          /\ \A r \in underway \ InFlight(w) : ~r.disable => r.rev <= state.applied
    /\ writer[w].at = "sent" => writer[w].num > state.applied /\ UpTo(writer[w].num)
Newest ==
    /\ UpTo(latest)
    /\ state.target # Nothing => UpTo(state.applied)
    /\ \A w \in Writers : OfNewest(w)

\* The message that is written to shows what was applied, and what is on its way to it is
\* the request of the task with the card.
Silent(i) == \A r \in underway : r.to # i
Quiet(i) == remote[i].enabled => state.applied > confirmed \/ confirmed = 0
Showing(i) == remote[i].rev = state.applied /\ Quiet(i)
Sent(w) == \A r \in InFlight(w) : r.enabled = writer[w].enabled
Answerable(w) ==
    IF InFlight(w) # {} THEN Showing(writer[w].previous)
    ELSE IF writer[w].disable
    THEN /\ remote[writer[w].previous].rev = state.applied
         /\ ~remote[writer[w].previous].enabled
    ELSE remote[writer[w].previous] = [rev |-> writer[w].num, enabled |-> writer[w].enabled]
OfTarget(w) ==
    /\ writer[w].at = "update" => Silent(writer[w].previous) /\ Showing(writer[w].previous)
    /\ writer[w].at = "updated" =>
          /\ \A r \in underway : r.to = writer[w].previous => r \in InFlight(w)
          /\ Sent(w) /\ Answerable(w)
    /\ writer[w].at = "sent" =>
          /\ Sent(w)
          /\ InFlight(w) = {} =>
                /\ Exists(writer[w].message) /\ Silent(writer[w].message)
                /\ remote[writer[w].message] =
                      [rev |-> writer[w].num, enabled |-> writer[w].enabled]
Target ==
    /\ state.target # Nothing => Silent(state.target) /\ Showing(state.target)
    /\ \A w \in Writers : OfTarget(w)

\* A press is remembered as long as somebody may write what it disabled.
OfButtons(w) ==
    /\ writer[w].at = "start" /\ ~writer[w].disable =>
          writer[w].num > confirmed \/ confirmed <= disabled
    /\ Holding(w) /\ writer[w].enabled => writer[w].num > confirmed
    /\ writer[w].at # "rest" /\ writer[w].disable => writer[w].num <= disabled
Buttons ==
    /\ confirmed <= latest
    /\ \A w \in Writers : OfButtons(w)

\* A replacement is sent once: by the task with the card, or nobody sends any more.
Stuck == state.uncertain /\ state.target = Nothing /\ lock = Nothing
Filled(k) == \A i \in Messages : remote[i] # Nothing <=> i <= k
Sends ==
    /\ \A r \in underway : r.to = Nothing =>
          /\ ~r.disable /\ r.rev > state.applied /\ r.rev <= latest
          /\ Stuck \/ \E w \in Writers : writer[w].at = "sent" /\ r \in InFlight(w)
    /\ \A q, r \in underway : q.to = Nothing /\ r.to = Nothing => q = r
    /\ \E k \in Messages :
          /\ Filled(k)
          /\ \/ k <= state.applied + 1
             \/ /\ Silent(Nothing)
                /\ \/ Stuck
                   \/ \E w \in Writers : writer[w].at = "sent" /\ InFlight(w) = {} /\ k <= writer[w].num + 1

CardInv == CardTyped /\ Locking /\ Addressed /\ Revisions /\ Newest /\ Target /\ Buttons /\ Sends

----------------------------------------------------------------------------
(* Every step of a card keeps it *)

LEMMA CardStarts ==
  ASSUME CardInit
  PROVE  CardInv
  <1>1. 1 \in Messages /\ Messages \subseteq Nat
    BY Apart DEF Messages
  <1>11. [rev |-> 0, enabled |-> TRUE] \in Views /\ Nothing \notin Views
    BY Apart DEF Views
  <1>10. remote \in [Messages -> Views \union {Nothing}] /\ remote[1] = [rev |-> 0, enabled |-> TRUE]
         /\ remote[1] # Nothing /\ \A i \in Messages : i # 1 => remote[i] = Nothing
    BY <1>1, <1>11 DEF CardInit
  <1>2. CardTyped
    <2>1. Resting \in Tasks
      BY DEF Resting, Tasks, Maybe
    <2> QED BY <1>1, <1>10, <2>1 DEF CardInit, CardTyped, Maybe
  <1>3. Locking
    BY <1>1, Apart DEF CardInit, Locking, Holding, Resting
  <1>4. Addressed
    BY <1>1, <1>10 DEF CardInit, Addressed, Exists, Resting
  <1>5. Revisions
    BY Apart DEF CardInit, Revisions, Pending, Resting
  <1>6. Newest
    BY <1>1, Apart DEF CardInit, Newest, OfNewest, UpTo, Within, Resting, Views
  <1>7. Target
    BY <1>1, Apart DEF CardInit, Target, OfTarget, Silent, Showing, Quiet, Resting
  <1>8. Buttons
    BY DEF CardInit, Buttons, OfButtons, Holding, Resting
  <1>9. Sends
    <2>1. Filled(1)
      BY <1>1, <1>10 DEF Filled, Messages
    <2> QED BY <1>1, <2>1 DEF CardInit, Sends
  <1> QED BY <1>2, <1>3, <1>4, <1>5, <1>6, <1>7, <1>8, <1>9 DEF CardInv

\* While a task has the card the others wait; while nobody has it all do.
LEMMA OthersWait ==
  ASSUME CardTyped, Locking, NEW w \in Writers, Holding(w)
  PROVE  /\ lock = w /\ lock # Nothing /\ state.target = Nothing
         /\ \A v \in Writers : v # w => writer[v].at \in {"rest", "start"}
  <1>1. lock = w /\ lock # Nothing /\ state.target = Nothing
    BY Apart DEF Locking
  <1>2. ASSUME NEW v \in Writers, v # w PROVE writer[v].at \in {"rest", "start"}
    <2>1. ~Holding(v)
      BY <1>1, <1>2 DEF Locking
    <2> QED BY <2>1 DEF Holding, CardTyped, Tasks
  <1> QED BY <1>1, <1>2

LEMMA AllWait ==
  ASSUME CardTyped, Locking, lock = Nothing
  PROVE  \A v \in Writers : writer[v].at \in {"rest", "start"}
  <1>1. ASSUME NEW v \in Writers PROVE writer[v].at \in {"rest", "start"}
    <2>1. ~Holding(v)
      BY Apart DEF Locking
    <2> QED BY <2>1 DEF Holding, CardTyped, Tasks
  <1> QED BY <1>1

\* Steps of a task before it has the card: what is written does not change.
LEMMA OutsideKeeps ==
  ASSUME CardInv, NEW w \in Writers, NEW t \in Tasks,
         writer[w].at \in {"rest", "start"}, t.at \in {"rest", "start"},
         writer' = [writer EXCEPT ![w] = t], latest' \in Nat, latest <= latest',
         UNCHANGED <<state, lock, remote, underway, confirmed>>
  PROVE  writer' \in [Writers -> Tasks] /\ Locking' /\ Addressed' /\ Newest' /\ Target' /\ Sends'
  <1>1. /\ CardTyped /\ Locking /\ Addressed /\ Revisions /\ Newest /\ Target /\ Sends
        /\ latest \in Nat /\ state.applied \in Nat
    BY DEF CardInv, CardTyped
  <1>2. /\ writer'[w] = t /\ writer'[w].at \in {"rest", "start"}
        /\ \A v \in Writers : v # w => writer'[v] = writer[v]
        /\ writer' \in [Writers -> Tasks]
    BY <1>1 DEF CardTyped
  <1>5. Locking'
    BY <1>1, <1>2 DEF Locking, Holding
  <1>6. Addressed'
    BY <1>1, <1>2 DEF Addressed, Exists
  <1>8. Newest'
    <2>1. \A n : UpTo(n) <=> UpTo(n)'
      BY DEF UpTo, Within
    <2>2. UpTo(latest)'
      BY <1>1 DEF Newest, UpTo, Within, CardTyped, Views
    <2>3. ASSUME NEW v \in Writers PROVE OfNewest(v)'
      <3>1. CASE v = w
        BY <3>1, <1>2 DEF OfNewest
      <3>2. CASE v # w
        <4>1. writer'[v] = writer[v] /\ InFlight(v)' = InFlight(v)
          BY <3>2, <1>2 DEF InFlight
        <4> QED BY <4>1, <1>1, <2>1 DEF Newest, OfNewest, Within
      <3> QED BY <3>1, <3>2
    <2> QED BY <1>1, <2>1, <2>2, <2>3 DEF Newest
  <1>9. Target'
    <2>3. ASSUME NEW v \in Writers PROVE OfTarget(v)'
      <3>1. CASE v = w
        BY <3>1, <1>2 DEF OfTarget
      <3>2. CASE v # w
        <4>1. writer'[v] = writer[v] /\ InFlight(v)' = InFlight(v)
          BY <3>2, <1>2 DEF InFlight
        <4> QED BY <4>1, <1>1 DEF Target, OfTarget, Silent, Showing, Quiet, Exists, Sent, Answerable
      <3> QED BY <3>1, <3>2
    <2> QED BY <2>3, <1>1 DEF Target, Silent, Showing, Quiet
  <1>11. Sends'
    <2>1. ASSUME NEW v \in Writers, writer[v].at = "sent"
          PROVE  writer'[v] = writer[v] /\ InFlight(v)' = InFlight(v)
      BY <1>2, <2>1 DEF InFlight
    <2>2. Stuck' <=> Stuck
      BY DEF Stuck
    <2>3. \A r \in underway : r.rev \in Nat
      BY <1>1 DEF CardTyped
    <2> QED BY <1>1, <2>1, <2>2, <2>3 DEF Sends, Filled, Silent
  <1> QED BY <1>2, <1>5, <1>6, <1>8, <1>9, <1>11

LEMMA ReserveKeeps ==
  ASSUME CardInv, NEW w \in Writers, Reserve(w)
  PROVE  CardInv'
  <1> DEFINE t == [Resting EXCEPT !.at = "start", !.num = latest + 1]
  <1>1. CardTyped /\ Locking /\ Revisions /\ Buttons /\ latest \in Nat
    BY DEF CardInv, CardTyped
  <1>2. /\ UNCHANGED <<disabled, state, lock, valid, remote, underway, confirmed, losses>>
        /\ writer[w].at = "rest" /\ latest < MaxRevision /\ latest' = latest + 1
        /\ writer' = [writer EXCEPT ![w] = t]
    BY DEF Reserve
  <1>3. /\ t \in Tasks /\ t.at = "start" /\ t.num = latest + 1 /\ t.disable = FALSE
        /\ t.enabled = FALSE
    <2> DEFINE n == latest + 1
    <2>1. n \in Nat
      BY <1>1
    <2> HIDE DEF n
    <2>2. LET u == [Resting EXCEPT !.at = "start", !.num = n]
          IN  u \in Tasks /\ u.at = "start" /\ u.num = n /\ u.disable = FALSE /\ u.enabled = FALSE
      BY <2>1 DEF Resting, Tasks, Maybe
    <2> QED BY <2>2 DEF n
  <1> HIDE DEF t
  <1>4. /\ writer' \in [Writers -> Tasks] /\ Locking' /\ Addressed' /\ Newest' /\ Target' /\ Sends'
    <2>1. latest' \in Nat /\ latest <= latest' /\ UNCHANGED <<state, lock, remote, underway, confirmed>>
      BY <1>1, <1>2
    <2>2. writer[w].at \in {"rest", "start"} /\ t.at \in {"rest", "start"}
      BY <1>2, <1>3
    <2> QED BY <1>2, <1>3, <2>1, <2>2, OutsideKeeps
  <1>5. writer'[w] = t /\ \A v \in Writers : v # w => writer'[v] = writer[v]
    BY <1>1, <1>2 DEF CardTyped
  <1>6. CardTyped'
    BY <1>1, <1>2, <1>4 DEF CardTyped
  <1>7. Revisions'
    BY <1>1, <1>2, <1>3, <1>5, Apart DEF Revisions, Pending, CardTyped, Tasks
  <1>8. Buttons'
    <2>1. ASSUME NEW v \in Writers PROVE OfButtons(v)'
      <3>1. CASE v = w
        BY <3>1, <1>1, <1>2, <1>3, <1>5 DEF Buttons, OfButtons, Holding, CardTyped
      <3>2. CASE v # w
        BY <3>2, <1>1, <1>2, <1>5 DEF Buttons, OfButtons, Holding
      <3> QED BY <3>1, <3>2
    <2> QED BY <2>1, <1>1, <1>2 DEF Buttons, CardTyped
  <1> QED BY <1>4, <1>6, <1>7, <1>8 DEF CardInv

LEMMA PressKeeps ==
  ASSUME CardInv, NEW w \in Writers, Press(w)
  PROVE  CardInv'
  <1> DEFINE t == [Resting EXCEPT !.at = "start", !.num = latest, !.disable = TRUE]
  <1>1. CardTyped /\ Locking /\ Revisions /\ Buttons /\ latest \in Nat /\ disabled \in Nat
    BY DEF CardInv, CardTyped
  <1>2. /\ UNCHANGED <<latest, state, lock, valid, remote, underway, confirmed, losses>>
        /\ writer[w].at = "rest" /\ writer' = [writer EXCEPT ![w] = t] /\ disabled' = Barrier
    BY DEF Press
  <1>3. /\ t \in Tasks /\ t.at = "start" /\ t.num = latest /\ t.disable = TRUE
        /\ t.enabled = FALSE
    BY <1>1 DEF Resting, Tasks, Maybe
  <1> HIDE DEF t
  <1>4. /\ writer' \in [Writers -> Tasks] /\ Locking' /\ Addressed' /\ Newest' /\ Target' /\ Sends'
    <2>1. latest' \in Nat /\ latest <= latest' /\ UNCHANGED <<state, lock, remote, underway, confirmed>>
      BY <1>1, <1>2
    <2>2. writer[w].at \in {"rest", "start"} /\ t.at \in {"rest", "start"}
      BY <1>2, <1>3
    <2> QED BY <1>2, <1>3, <2>1, <2>2, OutsideKeeps
  <1>5. /\ writer'[w] = t /\ \A v \in Writers : v # w => writer'[v] = writer[v]
        /\ disabled' \in Nat /\ disabled <= disabled' /\ latest <= disabled'
    BY <1>1, <1>2 DEF CardTyped, Barrier
  <1>6. CardTyped'
    BY <1>1, <1>2, <1>4, <1>5 DEF CardTyped
  <1>7. Revisions'
    BY <1>1, <1>2, <1>3, <1>5 DEF Revisions, Pending
  <1>8. Buttons'
    <2>1. ASSUME NEW v \in Writers PROVE OfButtons(v)'
      <3>1. CASE v = w
        BY <3>1, <1>1, <1>2, <1>3, <1>5 DEF Buttons, OfButtons, Holding
      <3>2. CASE v # w
        BY <3>2, <1>1, <1>2, <1>5 DEF Buttons, OfButtons, Holding, CardTyped, Tasks
      <3> QED BY <3>1, <3>2
    <2> QED BY <2>1, <1>1, <1>2 DEF Buttons
  <1> QED BY <1>4, <1>6, <1>7, <1>8 DEF CardInv

LEMMA RestingIs ==
  Resting \in Tasks /\ Resting.at = "rest"
  BY DEF Resting, Tasks, Maybe

\* While nobody has the card and nobody lost a replacement, none is under way.
LEMMA NothingSent ==
  ASSUME CardInv, ~Stuck, \A v \in Writers : writer[v].at # "sent"
  PROVE  Silent(Nothing) /\ \E k \in Messages : Filled(k) /\ k <= state.applied + 1
  BY DEF CardInv, Sends, Silent

LEMMA EnterKeeps ==
  ASSUME CardInv, NEW w \in Writers, Enter(w)
  PROVE  CardInv'
  <1>1. /\ CardTyped /\ Locking /\ Addressed /\ Revisions /\ Newest /\ Target /\ Buttons /\ Sends
        /\ latest \in Nat /\ disabled \in Nat /\ state.applied \in Nat
    BY DEF CardInv, CardTyped
  <1>2. /\ UNCHANGED <<latest, disabled, valid, remote, underway, confirmed, losses>>
        /\ writer[w].at = "start" /\ lock = Nothing
    BY DEF Enter
  <1>3. \A v \in Writers : writer[v].at \in {"rest", "start"}
    BY <1>1, <1>2, AllWait
  <1>4. CASE Ends(w) /\ UNCHANGED state
    <2>1. /\ writer' = [writer EXCEPT ![w] = Resting] /\ lock' = Nothing /\ state' = state
      BY <1>4 DEF Ends
    <2>2. /\ writer' \in [Writers -> Tasks] /\ Locking' /\ Addressed' /\ Newest' /\ Target' /\ Sends'
      <3>1. latest' \in Nat /\ latest <= latest' /\ UNCHANGED <<state, lock, remote, underway, confirmed>>
        BY <1>1, <1>2, <2>1
      <3>2. writer[w].at \in {"rest", "start"} /\ Resting.at \in {"rest", "start"}
        BY <1>2, RestingIs
      <3> QED BY <2>1, <3>1, <3>2, RestingIs, OutsideKeeps
    <2>3. writer'[w] = Resting /\ \A v \in Writers : v # w => writer'[v] = writer[v]
      BY <1>1, <2>1 DEF CardTyped
    <2>4. CardTyped'
      BY <1>1, <1>2, <2>1, <2>2 DEF CardTyped
    <2>5. Revisions'
      BY <1>1, <1>2, <2>1, <2>3, RestingIs DEF Revisions, Pending
    <2>6. Buttons'
      BY <1>1, <1>2, <2>1, <2>3, RestingIs DEF Buttons, OfButtons, Holding
    <2> QED BY <2>2, <2>4, <2>5, <2>6 DEF CardInv
  <1>5. CASE ~(Ends(w) /\ UNCHANGED state)
    <2> DEFINE p == IF state.target = Nothing THEN "send" ELSE "update"
    <2>1. /\ Current(w) /\ (state.uncertain => writer[w].disable)
          /\ (writer[w].disable => state.target # Nothing)
          /\ Attempt(w, p)
      BY <1>5 DEF Enter
    <2>2. /\ lock' = w
          /\ state' = [state EXCEPT !.target = Nothing, !.uncertain = (p = "send") \/ @]
          /\ writer' = [writer EXCEPT ![w].at = p, ![w].previous = state.target,
                                      ![w].enabled = writer[w].num > disabled]
      BY <2>1 DEF Attempt
    <2>3. /\ \A v \in Writers : v # w => writer'[v] = writer[v]
          /\ writer'[w].at = p /\ writer'[w].previous = state.target
          /\ writer'[w].enabled = (writer[w].num > disabled)
          /\ writer'[w].num = writer[w].num /\ writer'[w].disable = writer[w].disable
          /\ writer'[w].message = writer[w].message /\ writer' \in [Writers -> Tasks]
      <3>1. /\ writer[w] \in Tasks /\ state.target \in Maybe /\ (writer[w].num > disabled) \in BOOLEAN
            /\ p \in {"send", "update"} /\ writer \in [Writers -> Tasks]
        BY <1>1 DEF CardTyped
      <3> DEFINE e == writer[w].num > disabled
                 t == state.target
      <3>2. writer' = [writer EXCEPT ![w] = [writer[w] EXCEPT !.at = p, !.previous = t, !.enabled = e]]
        BY <2>2, <3>1
      <3>3. e \in BOOLEAN /\ t \in Maybe
        BY <3>1
      <3> HIDE DEF e, t, p
      <3> DEFINE u == [writer[w] EXCEPT !.at = p, !.previous = t, !.enabled = e]
      <3>4. /\ u \in Tasks /\ u.at = p /\ u.previous = t /\ u.enabled = e /\ u.num = writer[w].num
            /\ u.disable = writer[w].disable /\ u.message = writer[w].message
        BY <3>1, <3>3 DEF Tasks
      <3> HIDE DEF u
      <3>5. writer' \in [Writers -> Tasks] /\ writer'[w] = u
            /\ \A v \in Writers : v # w => writer'[v] = writer[v]
        BY <3>1, <3>2, <3>4 DEF u
      <3> QED BY <3>4, <3>5 DEF e, t
    <2>4. /\ state'.target = Nothing /\ state'.applied = state.applied /\ lock' # Nothing
          /\ (p = "send" => state'.uncertain)
          /\ state' \in [target : Maybe, uncertain : BOOLEAN, replaced : BOOLEAN, applied : Nat]
      BY <1>1, <2>2, Apart DEF CardTyped, Maybe
    <2>5. state.target \in Maybe /\ (p = "update" <=> state.target # Nothing) /\ p \in {"send", "update"}
      BY <1>1 DEF CardTyped
    <2> HIDE DEF p
    <2>6. CardTyped'
      BY <1>1, <1>2, <2>2, <2>3, <2>4 DEF CardTyped
    <2>7. Locking'
      BY <1>1, <1>3, <2>1, <2>2, <2>3, <2>4, <2>5 DEF Locking, Holding, Maybe
    <2>8. Addressed'
      BY <1>1, <1>2, <1>3, <2>3, <2>4, <2>5 DEF Addressed, Exists
    <2>9. Revisions'
      BY <1>1, <1>2, <2>3, <2>4 DEF Revisions, Pending
    <2>10. Newest'
      <3>1. \A n : UpTo(n) <=> UpTo(n)'
        BY <1>2 DEF UpTo, Within
      <3>2. ASSUME NEW v \in Writers PROVE OfNewest(v)'
        BY <1>1, <1>3, <2>3, <2>4, <2>5, <3>1 DEF Newest, OfNewest
      <3> QED BY <1>1, <1>2, <2>4, <3>1, <3>2 DEF Newest
    <2>11. Target'
      <3>1. ASSUME NEW v \in Writers PROVE OfTarget(v)'
        BY <1>1, <1>2, <1>3, <2>3, <2>4, <2>5 DEF Target, OfTarget, Silent, Showing, Quiet
      <3> QED BY <2>4, <3>1 DEF Target
    <2>12. Buttons'
      <3>1. ASSUME NEW v \in Writers PROVE OfButtons(v)'
        <4>1. CASE v = w
          BY <4>1, <1>1, <1>2, <2>3, <2>5 DEF Buttons, OfButtons, Holding, CardTyped, Tasks
        <4>2. CASE v # w
          BY <4>2, <1>1, <1>2, <2>3 DEF Buttons, OfButtons, Holding
        <4> QED BY <4>1, <4>2
      <3> QED BY <3>1, <1>1, <1>2 DEF Buttons
    <2>13. Sends'
      <3>1. ~Stuck /\ ~Stuck'
        BY <2>1, <2>4 DEF Stuck
      <3>2. Silent(Nothing) /\ \E k \in Messages : Filled(k) /\ k <= state.applied + 1
        BY <1>3, <3>1, NothingSent
      <3> QED BY <3>2, <2>4, <1>2 DEF Sends, Silent, Filled
    <2> QED BY <2>6, <2>7, <2>8, <2>9, <2>10, <2>11, <2>12, <2>13 DEF CardInv
  <1> QED BY <1>4, <1>5

LEMMA ScopeEndsKeeps ==
  ASSUME CardInv, ScopeEnds
  PROVE  CardInv'
  <1>1. /\ CardTyped /\ Locking /\ Addressed /\ Revisions /\ Newest /\ Target /\ Buttons /\ Sends
    BY DEF CardInv
  <1>2. UNCHANGED <<latest, disabled, state, lock, writer, remote, underway, confirmed, losses>> /\ valid' = FALSE
    BY DEF ScopeEnds
  <1>3. CardTyped'
    BY <1>1, <1>2 DEF CardTyped
  <1>4. Locking' /\ Addressed' /\ Revisions' /\ Buttons'
    BY <1>1, <1>2 DEF Locking, Holding, Addressed, Exists, Revisions, Pending, Buttons, OfButtons
  <1>5. \A v \in Writers : InFlight(v)' = InFlight(v)
    BY <1>2 DEF InFlight
  <1>6. Newest'
    BY <1>1, <1>2, <1>5 DEF Newest, OfNewest, UpTo, Within
  <1>7. Target'
    BY <1>1, <1>2, <1>5 DEF Target, OfTarget, Silent, Showing, Quiet, Answerable, Sent, Exists
  <1>8. Sends'
    BY <1>1, <1>2, <1>5 DEF Sends, Stuck, Filled, Silent
  <1> QED BY <1>3, <1>4, <1>6, <1>7, <1>8 DEF CardInv

LEMMA PruneKeeps ==
  ASSUME CardInv, Prune
  PROVE  CardInv'
  <1>1. /\ CardTyped /\ Locking /\ Addressed /\ Revisions /\ Newest /\ Target /\ Buttons /\ Sends
        /\ state.applied \in Nat
    BY DEF CardInv, CardTyped
  <1>2. /\ \A v \in Writers : writer[v].at = "rest"
        /\ state.target # Nothing /\ disabled' = 0 /\ state' = [state EXCEPT !.uncertain = FALSE]
        /\ UNCHANGED <<latest, lock, writer, valid, remote, underway, confirmed, losses>>
    BY DEF Prune
  <1>3. /\ state'.target = state.target /\ state'.applied = state.applied
        /\ state' \in [target : Maybe, uncertain : BOOLEAN, replaced : BOOLEAN, applied : Nat]
    BY <1>1, <1>2 DEF CardTyped
  <1>4. CardTyped'
    BY <1>1, <1>2, <1>3 DEF CardTyped
  <1>5. Locking'
    BY <1>1, <1>2, <1>3 DEF Locking, Holding
  <1>6. Addressed'
    BY <1>1, <1>2, <1>3 DEF Addressed, Exists
  <1>7. Revisions' /\ Buttons'
    BY <1>1, <1>2, <1>3 DEF Revisions, Pending, Buttons, OfButtons, Holding
  <1>8. Newest'
    BY <1>1, <1>2, <1>3 DEF Newest, OfNewest, UpTo, Within
  <1>9. Target'
    BY <1>1, <1>2, <1>3 DEF Target, OfTarget, Silent, Showing, Quiet
  <1>10. Sends'
    <2>1. ~Stuck /\ ~Stuck'
      BY <1>2, <1>3 DEF Stuck
    <2>2. Silent(Nothing) /\ \E k \in Messages : Filled(k) /\ k <= state.applied + 1
      BY <1>2, <2>1, NothingSent
    <2> QED BY <2>2, <1>2, <1>3 DEF Sends, Silent, Filled
  <1> QED BY <1>4, <1>5, <1>6, <1>7, <1>8, <1>9, <1>10 DEF CardInv

\* The task with the card ends: what it leaves behind is the card's again or retired.
LEMMA EndedKeeps ==
  ASSUME CardInv, NEW w \in Writers, Holding(w), Ends(w),
         UNCHANGED <<latest, disabled, valid, remote>>,
         losses' \in Nat, underway' \subseteq underway,
         state' \in [target : Maybe, uncertain : BOOLEAN, replaced : BOOLEAN, applied : Nat],
         state'.applied = state.applied
            \/ (state'.applied = writer[w].num /\ ~writer[w].disable),
         confirmed' = confirmed \/ (confirmed' = writer[w].num /\ writer[w].disable),
         state'.target # Nothing =>
            Exists(state'.target) /\ UpTo(state.applied)' /\ Silent(state.target)' /\ Showing(state.target)',
         Sends'
  PROVE  CardInv'
  <1>1. /\ CardTyped /\ Locking /\ Addressed /\ Revisions /\ Newest /\ Buttons
        /\ writer[w] \in Tasks /\ confirmed \in Nat
    BY DEF CardInv, CardTyped
  <1>2. /\ lock' = Nothing /\ writer' = [writer EXCEPT ![w] = Resting]
        /\ \A v \in Writers : v # w => writer[v].at \in {"rest", "start"}
    BY <1>1, OthersWait DEF Ends
  <1>3. /\ writer'[w].at = "rest" /\ \A v \in Writers : v # w => writer'[v] = writer[v]
        /\ writer' \in [Writers -> Tasks] /\ \A v \in Writers : writer'[v].at \in {"rest", "start"}
    BY <1>1, <1>2, RestingIs DEF CardTyped
  <1>4. CardTyped'
    <2>1. writer[w].num \in Nat
      BY <1>1 DEF Tasks
    <2>2. confirmed' \in Nat
      BY <1>1, <2>1
    <2> QED BY <1>1, <1>2, <1>3, <2>2 DEF CardTyped
  <1>5. Locking'
    BY <1>2, <1>3, Apart DEF Locking, Holding
  <1>6. Addressed'
    BY <1>1, <1>3 DEF Addressed, Exists
  <1>7. Revisions'
    <2>1. writer[w].at # "rest" /\ writer[w].num <= latest
      BY <1>1 DEF Holding, Revisions
    <2>2. state'.applied <= latest'
      BY <1>1, <2>1 DEF Revisions
    <2>3. ASSUME NEW v \in Writers, Pending(v)'
          PROVE  v # w /\ Pending(v) /\ writer'[v] = writer[v]
      BY <1>3, <2>3 DEF Pending
    <2>4. ASSUME NEW v \in Writers, Pending(v)' PROVE writer'[v].num # state'.applied
      <3>1. CASE state'.applied = state.applied
        BY <3>1, <2>3, <2>4, <1>1 DEF Revisions
      <3>2. CASE state'.applied = writer[w].num /\ ~writer[w].disable
        BY <3>2, <2>1, <2>3, <2>4, <1>1 DEF Revisions, Pending
      <3> QED BY <3>1, <3>2
    <2> QED BY <2>2, <2>3, <2>4, <1>1, <1>3 DEF Revisions
  <1>8. Newest'
    <2>1. UpTo(latest)'
      BY <1>1 DEF Newest, UpTo, Within
    <2> QED BY <2>1, <1>3 DEF Newest, OfNewest
  <1>9. Target'
    BY <1>3 DEF Target, OfTarget
  <1>10. Buttons'
    <2>1. /\ writer[w].at # "rest" /\ writer[w].num <= latest
          /\ writer[w].disable => writer[w].num <= disabled
      BY <1>1 DEF Holding, Revisions, Buttons, OfButtons
    <2>2. confirmed' <= latest'
      BY <2>1, <1>1 DEF Buttons
    <2>3. ASSUME NEW v \in Writers PROVE OfButtons(v)'
      <3>1. CASE v = w
        BY <3>1, <1>3 DEF OfButtons, Holding
      <3>2. CASE v # w
        BY <3>2, <1>1, <1>3, <2>1 DEF Buttons, OfButtons, Holding
      <3> QED BY <3>1, <3>2
    <2> QED BY <2>2, <2>3 DEF Buttons
  <1> QED BY <1>4, <1>5, <1>6, <1>7, <1>8, <1>9, <1>10 DEF CardInv

\* While a task that has sent no replacement has the card, none is under way.
LEMMA HeldSilent ==
  ASSUME CardInv, NEW w \in Writers, Holding(w), writer[w].at # "sent"
  PROVE  Silent(Nothing) /\ \E k \in Messages : Filled(k) /\ k <= state.applied + 1
  <1>1. lock # Nothing /\ \A v \in Writers : v # w => writer[v].at \in {"rest", "start"}
    BY OthersWait DEF CardInv
  <1>2. ~Stuck /\ \A v \in Writers : writer[v].at # "sent"
    BY <1>1 DEF Stuck
  <1> QED BY <1>2, NothingSent

\* A replacement is under way for the task that sent it, or it arrived.
LEMMA SentAlone ==
  ASSUME CardInv, NEW w \in Writers, writer[w].at = "sent"
  PROVE  /\ \A r \in underway : r.to = Nothing => r \in InFlight(w)
         /\ \E k \in Messages :
               /\ Filled(k)
               /\ \/ k <= state.applied + 1
                  \/ Silent(Nothing) /\ InFlight(w) = {} /\ k <= writer[w].num + 1
  <1>1. lock # Nothing /\ \A v \in Writers : v # w => writer[v].at \in {"rest", "start"}
    BY OthersWait DEF CardInv, Holding
  <1>2. ~Stuck /\ \A v \in Writers : writer[v].at = "sent" => v = w
    BY <1>1 DEF Stuck
  <1>3. Sends
    BY DEF CardInv
  <1> QED BY <1>2, <1>3 DEF Sends

\* Without a request the card is as it was, and the task may go.
LEMMA UnsentKeeps ==
  ASSUME CardInv, NEW w \in Writers, writer[w].at \in {"update", "send"},
         Ends(w), state' = Restored(w), losses' \in Nat,
         UNCHANGED <<latest, disabled, valid, remote, underway, confirmed>>
  PROVE  CardInv'
  <1>1. /\ CardTyped /\ Locking /\ Addressed /\ Newest /\ Target /\ writer[w] \in Tasks
    BY DEF CardInv, CardTyped
  <1>2. Holding(w) /\ writer[w].at # "sent" /\ lock' = Nothing
    BY DEF Holding, Ends
  <1>3. /\ state' \in [target : Maybe, uncertain : BOOLEAN, replaced : BOOLEAN, applied : Nat]
        /\ state'.applied = state.applied /\ state'.target = writer[w].previous
        /\ writer[w].at = "send" => ~state'.uncertain
    BY <1>1 DEF Restored, CardTyped, Tasks
  <1>4. writer[w].at = "send" => state'.target = Nothing
    BY <1>1, <1>3 DEF Locking
  <1>5. ASSUME state'.target # Nothing
        PROVE  Exists(state'.target) /\ UpTo(state.applied)' /\ Silent(state.target)' /\ Showing(state.target)'
    <2>1. writer[w].at = "update"
      BY <1>4, <1>5
    <2>2. Exists(writer[w].previous) /\ UpTo(state.applied) /\ Silent(writer[w].previous)
          /\ Showing(writer[w].previous)
      BY <1>1, <2>1 DEF Addressed, Newest, OfNewest, Target, OfTarget
    <2> QED BY <2>2, <1>3 DEF UpTo, Within, Silent, Showing, Quiet
  <1>6. Sends'
    <2>1. Silent(Nothing) /\ \E k \in Messages : Filled(k) /\ k <= state.applied + 1
      BY <1>2, HeldSilent
    <2> QED BY <2>1, <1>3 DEF Sends, Silent, Filled
  <1> QED BY <1>2, <1>3, <1>5, <1>6, EndedKeeps

LEMMA NotSentKeeps ==
  ASSUME CardInv, NEW w \in Writers, NotSent(w)
  PROVE  CardInv'
  BY UnsentKeeps DEF NotSent, Mishap, CardInv, CardTyped

\* The request leaves: nothing else is under way to where it goes.
LEMMA DispatchKeeps ==
  ASSUME CardInv, NEW w \in Writers, Dispatch(w)
  PROVE  CardInv'
  <1>1. /\ CardTyped /\ Locking /\ Addressed /\ Revisions /\ Newest /\ Target /\ Buttons /\ Sends
        /\ latest \in Nat /\ state.applied \in Nat /\ writer[w] \in Tasks /\ losses \in Nat
    BY DEF CardInv, CardTyped
  <1>2. /\ UNCHANGED <<latest, disabled, valid, remote, confirmed, losses>>
        /\ writer[w].at \in {"update", "send"}
    BY DEF Dispatch
  <1>3. CASE ~Current(w)
    BY <1>1, <1>2, <1>3, UnsentKeeps DEF Dispatch
  <1>4. CASE Current(w)
    <2> DEFINE q == Request(w)
               p == IF writer[w].at = "send" THEN "sent" ELSE "updated"
    <2>1. /\ underway' = underway \union {q} /\ UNCHANGED <<state, lock>>
          /\ writer' = [writer EXCEPT ![w].at = p]
      BY <1>4 DEF Dispatch, At
    <2>2. /\ q.by = w /\ q.rev = writer[w].num /\ q.disable = writer[w].disable
          /\ q.enabled = writer[w].enabled /\ q.to = writer[w].previous
          /\ q \in [by : Writers, rev : Nat, disable : BOOLEAN, enabled : BOOLEAN, to : Maybe]
      BY <1>1 DEF Request, Tasks
    <2>3. /\ p = "sent" <=> writer[w].at = "send"
          /\ p = "updated" <=> writer[w].at = "update"
          /\ p \in {"sent", "updated"}
      BY <1>2
    <2> HIDE DEF q, p
    <2>4. /\ \A v \in Writers : v # w => writer'[v] = writer[v] /\ writer[v].at \in {"rest", "start"}
          /\ writer'[w].at = p
          /\ writer'[w].num = writer[w].num /\ writer'[w].disable = writer[w].disable
          /\ writer'[w].enabled = writer[w].enabled /\ writer'[w].previous = writer[w].previous
          /\ writer'[w].message = writer[w].message
          /\ writer' \in [Writers -> Tasks]
      <3>1. \A v \in Writers : v # w => writer[v].at \in {"rest", "start"}
        BY <1>1, <1>2, OthersWait DEF Holding
      <3> QED BY <1>1, <2>1, <2>3, <3>1 DEF CardTyped, Tasks
    <2>5. Holding(w) /\ Holding(w)' /\ lock # Nothing /\ state.target = Nothing /\ writer[w].at # "sent"
      BY <1>1, <1>2, <2>3, <2>4, OthersWait DEF Holding
    <2>6. /\ Silent(Nothing) /\ \E k \in Messages : Filled(k) /\ k <= state.applied + 1
      BY <2>5, HeldSilent
    <2>7. \A r \in underway : r.to # q.to
      <3>1. Silent(writer[w].previous)
        <4>1. CASE writer[w].at = "update"
          BY <4>1, <1>1 DEF Target, OfTarget
        <4>2. CASE writer[w].at = "send"
          BY <4>2, <1>1, <2>6 DEF Locking
        <4> QED BY <4>1, <4>2, <1>2
      <3> QED BY <3>1, <2>2 DEF Silent
    <2>8. InFlight(w)' = {q}
      BY <2>1, <2>2, <2>4, <2>7 DEF InFlight
    <2>9. /\ ~writer[w].disable => writer[w].num = latest /\ writer[w].num > state.applied
          /\ writer[w].num \in Nat /\ writer[w].num <= latest
      BY <1>1, <1>2, <1>4 DEF Current, Revisions, Pending, Tasks
    <2>10. CardTyped'
      BY <1>1, <1>2, <2>1, <2>2, <2>4 DEF CardTyped
    <2>11. Locking'
      BY <1>1, <1>2, <2>1, <2>3, <2>4, <2>5 DEF Locking, Holding
    <2>12. Addressed'
      BY <1>1, <1>2, <2>1, <2>2, <2>3, <2>4 DEF Addressed, Exists, Locking
    <2>13. Revisions'
      BY <1>1, <1>2, <2>1, <2>3, <2>4 DEF Revisions, Pending
    <2>14. Newest'
      <3>1. UpTo(latest)'
        BY <1>1, <1>2, <2>1, <2>2, <2>9 DEF Newest, UpTo, Within
      <3>2. ASSUME NEW v \in Writers PROVE OfNewest(v)'
        <4>1. CASE v # w
          BY <4>1, <2>4 DEF OfNewest
        <4>2. CASE v = w /\ writer[w].at = "update"
          <5>1. UpTo(state.applied)
            BY <4>2, <1>1 DEF Newest, OfNewest
          <5> QED BY <4>2, <5>1, <1>2, <2>1, <2>2, <2>3, <2>4, <2>8, <2>9 DEF OfNewest, UpTo, Within
        <4>3. CASE v = w /\ writer[w].at = "send"
          BY <4>3, <3>1, <1>1, <1>2, <2>1, <2>3, <2>4, <2>9 DEF OfNewest, Locking
        <4> QED BY <4>1, <4>2, <4>3, <1>2
      <3> QED BY <3>1, <3>2, <2>1, <2>5 DEF Newest
    <2>15. Target'
      <3>1. ASSUME NEW v \in Writers PROVE OfTarget(v)'
        <4>1. CASE v # w
          BY <4>1, <2>4 DEF OfTarget
        <4>2. CASE v = w /\ writer[w].at = "update"
          <5>1. Silent(writer[w].previous) /\ Showing(writer[w].previous)
            BY <4>2, <1>1 DEF Target, OfTarget
          <5>2. Sent(w)' /\ Answerable(w)'
            BY <5>1, <1>2, <2>1, <2>2, <2>4, <2>8 DEF Sent, Answerable, Showing, Quiet
          <5> QED BY <4>2, <5>1, <5>2, <2>1, <2>2, <2>3, <2>4, <2>8 DEF OfTarget, Silent
        <4>3. CASE v = w /\ writer[w].at = "send"
          BY <4>3, <2>2, <2>3, <2>4, <2>8 DEF OfTarget, Sent
        <4> QED BY <4>1, <4>2, <4>3, <1>2
      <3> QED BY <3>1, <2>1, <2>5 DEF Target
    <2>16. Buttons'
      <3>1. ASSUME NEW v \in Writers PROVE OfButtons(v)'
        BY <1>1, <1>2, <2>3, <2>4, <2>5 DEF Buttons, OfButtons, Holding
      <3> QED BY <3>1, <1>1, <1>2 DEF Buttons
    <2>17. Sends'
      <3>1. \A r \in underway' : r.to = Nothing => r = q /\ writer[w].at = "send"
        BY <1>1, <1>2, <2>1, <2>2, <2>6, Apart DEF Silent, Locking, Messages
      <3>2. writer[w].at = "send" => ~q.disable /\ q.rev > state.applied /\ q.rev <= latest
        BY <1>1, <2>2, <2>9 DEF Locking
      <3>3. writer[w].at = "send" => writer'[w].at = "sent" /\ q \in InFlight(w)'
        BY <2>3, <2>4, <2>8
      <3> QED BY <3>1, <3>2, <3>3, <1>2, <2>1, <2>6 DEF Sends, Filled
    <2> QED BY <2>10, <2>11, <2>12, <2>13, <2>14, <2>15, <2>16, <2>17 DEF CardInv
  <1> QED BY <1>3, <1>4

\* The answer: what was written is what the card shows, and nothing else is on its way there.
LEMMA AnsweredKeeps ==
  ASSUME CardInv, NEW w \in Writers, Answered(w)
  PROVE  CardInv'
  <1>1. /\ CardTyped /\ Locking /\ Addressed /\ Newest /\ Target /\ Buttons
        /\ writer[w] \in Tasks /\ losses \in Nat /\ state.applied \in Nat
    BY DEF CardInv, CardTyped
  <1>2. /\ InFlight(w) = {} /\ Ends(w) /\ UNCHANGED <<latest, disabled, valid, remote, underway, losses>>
        /\ confirmed' = (IF writer[w].disable THEN writer[w].num ELSE confirmed)
        /\ writer[w].at \in {"updated", "sent"}
    BY DEF Answered
  <1>3. Holding(w) /\ lock' = Nothing
    BY <1>2 DEF Holding, Ends
  <1>4. CASE writer[w].at = "updated"
    <2> DEFINE m == writer[w].previous
    <2>1. state' = [Restored(w) EXCEPT !.applied = IF writer[w].disable THEN @ ELSE writer[w].num]
      BY <1>4 DEF Answered
    <2>2. /\ state' \in [target : Maybe, uncertain : BOOLEAN, replaced : BOOLEAN, applied : Nat]
          /\ state'.applied = (IF writer[w].disable THEN state.applied ELSE writer[w].num)
          /\ state'.target = m
      BY <1>1, <2>1 DEF Restored, CardTyped, Tasks
    <2> HIDE DEF m
    <2>3. Exists(m) /\ Silent(m) /\ Answerable(w)
      BY <1>1, <1>2, <1>4 DEF Addressed, Target, OfTarget, Silent, m
    <2>4. Silent(Nothing) /\ \E k \in Messages : Filled(k) /\ k <= state.applied + 1
      BY <1>3, <1>4, HeldSilent
    <2>5. CASE writer[w].disable
      <3>1. UpTo(state.applied)
        BY <1>1, <1>4, <2>5 DEF Newest, OfNewest
      <3>2. remote[m].rev = state.applied /\ ~remote[m].enabled
        BY <1>2, <2>3, <2>5 DEF Answerable, m
      <3>3. Exists(state'.target) /\ UpTo(state.applied)' /\ Silent(state.target)' /\ Showing(state.target)'
        BY <3>1, <3>2, <1>2, <2>2, <2>3, <2>5 DEF UpTo, Within, Silent, Showing, Quiet
      <3>4. Sends'
        BY <2>2, <2>4, <2>5, <1>2 DEF Sends, Silent, Filled
      <3> QED BY <3>3, <3>4, <1>1, <1>2, <1>3, <2>2, <2>5, EndedKeeps
    <2>6. CASE ~writer[w].disable
      <3>1. /\ writer[w].num > state.applied /\ writer[w].num \in Nat
            /\ \A i \in Messages : Within(i, state.applied) \/ i = m
            /\ \A r \in underway : ~r.disable => r.rev <= state.applied
        BY <1>1, <1>2, <1>4, <2>6 DEF Newest, OfNewest, m, Tasks
      <3>2. remote[m] = [rev |-> writer[w].num, enabled |-> writer[w].enabled]
        BY <1>2, <2>3, <2>6 DEF Answerable, m
      <3>3. writer[w].enabled => writer[w].num > confirmed
        BY <1>1, <1>3 DEF Buttons, OfButtons
      <3>4. UpTo(writer[w].num)
        <4>1. ASSUME NEW i \in Messages PROVE Within(i, writer[w].num)
          BY <4>1, <3>1, <3>2, <1>1 DEF Within, CardTyped, Views
        <4>2. \A r \in underway : ~r.disable => r.rev <= writer[w].num
          BY <3>1, <1>1 DEF CardTyped
        <4> QED BY <4>1, <4>2 DEF UpTo
      <3>5. Exists(state'.target) /\ UpTo(state.applied)' /\ Silent(state.target)' /\ Showing(state.target)'
        BY <3>2, <3>3, <3>4, <1>2, <2>2, <2>3, <2>6 DEF UpTo, Within, Silent, Showing, Quiet
      <3>6. Sends'
        BY <2>2, <2>4, <2>6, <3>1, <1>1, <1>2, Apart DEF Sends, Silent, Filled, Messages
      <3> QED BY <3>5, <3>6, <1>1, <1>2, <1>3, <2>2, <2>6, EndedKeeps
    <2> QED BY <2>5, <2>6
  <1>5. CASE writer[w].at = "sent"
    <2> DEFINE m == writer[w].message
    <2>1. state' = [target |-> writer[w].message, uncertain |-> FALSE, replaced |-> TRUE,
                    applied |-> writer[w].num]
      BY <1>5 DEF Answered
    <2>2. /\ state' \in [target : Maybe, uncertain : BOOLEAN, replaced : BOOLEAN, applied : Nat]
          /\ state'.applied = writer[w].num /\ state'.target = m /\ writer[w].num \in Nat
          /\ ~writer[w].disable /\ confirmed' = confirmed
      BY <1>1, <1>2, <1>5, <2>1 DEF Tasks, Locking
    <2> HIDE DEF m
    <2>3. /\ Exists(m) /\ Silent(m)
          /\ remote[m] = [rev |-> writer[w].num, enabled |-> writer[w].enabled]
          /\ UpTo(writer[w].num) /\ writer[w].num > state.applied
      BY <1>1, <1>2, <1>5 DEF Target, OfTarget, Newest, OfNewest, m
    <2>4. writer[w].enabled => writer[w].num > confirmed
      BY <1>1, <1>3 DEF Buttons, OfButtons
    <2>5. Exists(state'.target) /\ UpTo(state.applied)' /\ Silent(state.target)' /\ Showing(state.target)'
      BY <2>2, <2>3, <2>4, <1>2 DEF UpTo, Within, Silent, Showing, Quiet
    <2>6. Sends'
      <3>1. Silent(Nothing) /\ \E k \in Messages : Filled(k) /\ k <= writer[w].num + 1
        BY <1>1, <1>2, <1>5, <2>2, <2>3, SentAlone, Apart DEF Silent, Messages
      <3> QED BY <3>1, <2>2, <1>2 DEF Sends, Silent, Filled
    <2> QED BY <2>2, <2>5, <2>6, <1>1, <1>2, <1>3, EndedKeeps
  <1> QED BY <1>2, <1>4, <1>5

\* A rejected request was not carried out and will not be.
LEMMA RejectedKeeps ==
  ASSUME CardInv, NEW w \in Writers, Rejected(w)
  PROVE  CardInv'
  <1>1. /\ CardTyped /\ Locking /\ Addressed /\ Newest /\ Target
        /\ writer[w] \in Tasks /\ losses \in Nat /\ state.applied \in Nat
    BY DEF CardInv, CardTyped
  <1>2. /\ InFlight(w) # {} /\ Ends(w) /\ UNCHANGED <<latest, disabled, valid, remote, confirmed>>
        /\ underway' = underway \ InFlight(w) /\ state' = Restored(w) /\ losses' = losses + 1
        /\ writer[w].at \in {"updated", "sent"}
    BY DEF Rejected, Mishap
  <1>3. Holding(w) /\ lock' = Nothing /\ losses' \in Nat /\ underway' \subseteq underway
    BY <1>1, <1>2 DEF Holding, Ends
  <1>4. /\ state' \in [target : Maybe, uncertain : BOOLEAN, replaced : BOOLEAN, applied : Nat]
        /\ state'.applied = state.applied /\ state'.target = writer[w].previous
    BY <1>1, <1>2 DEF Restored, CardTyped, Tasks
  <1>5. CASE writer[w].at = "updated"
    <2> DEFINE m == writer[w].previous
    <2>1. Exists(m) /\ (\A r \in underway : r.to = m => r \in InFlight(w)) /\ Showing(m)
      BY <1>1, <1>2, <1>5 DEF Addressed, Target, OfTarget, Answerable
    <2>2. UpTo(state.applied)'
      <3>1. \A i \in Messages : Within(i, state.applied)
        BY <1>1, <1>2, <1>5 DEF Newest, OfNewest, UpTo
      <3>2. \A r \in underway \ InFlight(w) : ~r.disable => r.rev <= state.applied
        BY <1>1, <1>2, <1>5 DEF Newest, OfNewest, UpTo
      <3> QED BY <3>1, <3>2, <1>2, <1>4 DEF UpTo, Within
    <2>3. Silent(state.target)' /\ Showing(state.target)'
      BY <2>1, <1>2, <1>4, <1>5 DEF Silent, Showing, Quiet
    <2>4. Sends'
      <3>1. Silent(Nothing) /\ \E k \in Messages : Filled(k) /\ k <= state.applied + 1
        BY <1>3, <1>5, HeldSilent
      <3> QED BY <3>1, <1>2, <1>3, <1>4 DEF Sends, Silent, Filled
    <2> HIDE DEF m
    <2>5. state'.target = m
      BY <1>4 DEF m
    <2> QED BY <2>1, <2>2, <2>3, <2>4, <2>5, <1>2, <1>3, <1>4, EndedKeeps
  <1>6. CASE writer[w].at = "sent"
    <2>1. state'.target = Nothing
      BY <1>1, <1>4, <1>6 DEF Locking
    <2>2. Sends'
      <3>1. Silent(Nothing)'
        BY <1>2, <1>6, SentAlone DEF Silent
      <3>2. \E k \in Messages : Filled(k) /\ k <= state.applied + 1
        BY <1>2, <1>6, SentAlone
      <3> QED BY <3>1, <3>2, <1>2, <1>4 DEF Sends, Silent, Filled
    <2> QED BY <2>1, <2>2, <1>2, <1>3, <1>4, EndedKeeps
  <1> QED BY <1>2, <1>5, <1>6

\* The message of a lost request is retired.
LEMMA RetiredKeeps ==
  ASSUME CardInv, NEW w \in Writers, writer[w].at \in {"updated", "sent"},
         Ends(w), state' = state, losses' \in Nat,
         UNCHANGED <<latest, disabled, valid, remote, underway, confirmed>>
  PROVE  CardInv'
  <1>1. CardTyped /\ Locking /\ Sends
    BY DEF CardInv
  <1>2. Holding(w) /\ lock' = Nothing
    BY DEF Holding, Ends
  <1>3. state'.target = Nothing
    BY <1>1, <1>2, OthersWait
  <1>4. Sends'
    <2>1. CASE writer[w].at = "updated"
      <3>1. Silent(Nothing) /\ \E k \in Messages : Filled(k) /\ k <= state.applied + 1
        BY <1>2, <2>1, HeldSilent
      <3> QED BY <3>1 DEF Sends, Silent, Filled
    <2>2. CASE writer[w].at = "sent"
      <3>1. Stuck'
        BY <1>1, <1>2, <1>3, <2>2 DEF Stuck, Locking
      <3> QED BY <3>1, <1>1, <2>2, SentAlone DEF Sends, Silent, Filled
    <2> QED BY <2>1, <2>2
  <1>5. state' \in [target : Maybe, uncertain : BOOLEAN, replaced : BOOLEAN, applied : Nat]
    BY <1>1 DEF CardTyped
  <1> QED BY <1>2, <1>3, <1>4, <1>5, EndedKeeps

LEMMA CancelledKeeps ==
  ASSUME CardInv, NEW w \in Writers, Cancelled(w)
  PROVE  CardInv'
  BY RetiredKeeps DEF Cancelled, Mishap, AfterLoss, CardInv, CardTyped

LEMMA LostKeeps ==
  ASSUME CardInv, NEW w \in Writers, Lost(w)
  PROVE  CardInv'
  <1>1. /\ CardTyped /\ Locking /\ Addressed /\ Revisions /\ Newest /\ Target /\ Buttons
        /\ writer[w] \in Tasks /\ losses \in Nat /\ state.applied \in Nat
    BY DEF CardInv, CardTyped
  <1>2. /\ writer[w].at \in {"updated", "sent"} /\ losses' = losses + 1
        /\ UNCHANGED <<latest, disabled, valid, remote, underway, confirmed>>
    BY DEF Lost, Mishap
  <1>3. CASE ~(writer[w].at = "updated" /\ ~writer[w].disable /\ Current(w))
    <2>1. Ends(w) /\ state' = state
      BY <1>3 DEF Lost, AfterLoss
    <2> QED BY <2>1, <1>1, <1>2, RetiredKeeps
  <1>4. CASE writer[w].at = "updated" /\ ~writer[w].disable /\ Current(w)
    <2>1. /\ state' = [state EXCEPT !.uncertain = TRUE] /\ lock' = lock
          /\ writer' = [writer EXCEPT ![w].at = "send", ![w].previous = state.target]
      BY <1>4 DEF Lost, AfterLoss
    <2>2. Holding(w) /\ lock = w /\ lock # Nothing /\ state.target = Nothing
          /\ \A v \in Writers : v # w => writer[v].at \in {"rest", "start"}
      BY <1>1, <1>4, OthersWait DEF Holding
    <2>3. /\ \A v \in Writers : v # w => writer'[v] = writer[v]
          /\ writer'[w].at = "send" /\ writer'[w].previous = Nothing
          /\ writer'[w].num = writer[w].num /\ writer'[w].disable = writer[w].disable
          /\ writer'[w].enabled = writer[w].enabled
          /\ writer' \in [Writers -> Tasks]
      BY <1>1, <2>1, <2>2 DEF CardTyped, Tasks, Maybe
    <2>4. /\ state' \in [target : Maybe, uncertain : BOOLEAN, replaced : BOOLEAN, applied : Nat]
          /\ state'.applied = state.applied /\ state'.target = Nothing /\ state'.uncertain
      BY <1>1, <2>1, <2>2 DEF CardTyped
    <2>5. CardTyped'
      BY <1>1, <1>2, <2>1, <2>3, <2>4 DEF CardTyped
    <2>6. Locking'
      BY <1>1, <1>4, <2>1, <2>2, <2>3, <2>4 DEF Locking, Holding
    <2>7. Addressed'
      BY <1>1, <1>2, <2>3, <2>4 DEF Addressed, Exists
    <2>8. Revisions'
      BY <1>1, <1>2, <1>4, <2>3, <2>4 DEF Revisions, Pending
    <2>9. Newest'
      BY <1>1, <1>2, <2>2, <2>3, <2>4 DEF Newest, OfNewest, UpTo, Within
    <2>10. Target'
      BY <2>2, <2>3, <2>4 DEF Target, OfTarget
    <2>11. Buttons'
      <3>1. ASSUME NEW v \in Writers PROVE OfButtons(v)'
        BY <1>1, <1>2, <1>4, <2>2, <2>3 DEF Buttons, OfButtons, Holding
      <3> QED BY <3>1, <1>1, <1>2 DEF Buttons
    <2>12. Sends'
      <3>1. Silent(Nothing) /\ \E k \in Messages : Filled(k) /\ k <= state.applied + 1
        BY <2>2, <1>4, HeldSilent
      <3> QED BY <3>1, <1>2, <2>4 DEF Sends, Silent, Filled
    <2> QED BY <2>5, <2>6, <2>7, <2>8, <2>9, <2>10, <2>11, <2>12 DEF CardInv
  <1> QED BY <1>3, <1>4

\* A task has one request of its attempt under way.
LEMMA InFlightOnce ==
  ASSUME CardTyped, NEW w \in Writers, Sent(w), NEW r \in InFlight(w)
  PROVE  InFlight(w) = {r}
  <1>1. /\ \A q \in InFlight(w) : q \in underway /\ q.by = r.by /\ q.rev = r.rev
                                  /\ q.disable = r.disable /\ q.to = r.to
        /\ r \in underway
    BY DEF InFlight
  <1>2. \A q \in InFlight(w) : q.enabled = r.enabled
    BY DEF Sent
  <1>3. \A q \in InFlight(w) : q = r
    BY <1>1, <1>2 DEF CardTyped
  <1> QED BY <1>3

\* A request arrives at the message it was sent to: if that is the card's, or the message of the
\* task with the card, the request is that task's.
LEMMA DeliverUpdate ==
  ASSUME CardInv, NEW r \in underway, Deliver(r), r.to # Nothing
  PROVE  CardInv'
  <1> DEFINE m == r.to
  <1>1. /\ CardTyped /\ Locking /\ Addressed /\ Revisions /\ Newest /\ Target /\ Buttons /\ Sends
        /\ latest \in Nat /\ state.applied \in Nat
        /\ r \in [by : Writers, rev : Nat, disable : BOOLEAN, enabled : BOOLEAN, to : Maybe]
    BY DEF CardInv, CardTyped
  <1>2. /\ underway' = underway \ {r}
        /\ remote' = [remote EXCEPT ![m] = IF r.disable THEN [@ EXCEPT !.enabled = FALSE]
                                           ELSE [rev |-> r.rev, enabled |-> r.enabled]]
        /\ UNCHANGED <<writer, latest, disabled, state, lock, valid, confirmed, losses>>
    BY DEF Deliver
  <1>3. Exists(m) /\ m \in Messages /\ remote[m] \in Views
    BY <1>1 DEF Addressed, Exists, CardTyped
  <1>4. /\ remote' \in [Messages -> Views \union {Nothing}]
        /\ \A i \in Messages : i # m => remote'[i] = remote[i]
        /\ remote'[m] \in Views
        /\ r.disable => remote'[m].rev = remote[m].rev /\ ~remote'[m].enabled
        /\ ~r.disable => remote'[m] = [rev |-> r.rev, enabled |-> r.enabled]
    BY <1>1, <1>2, <1>3 DEF CardTyped, Views
  <1>5. \A i \in Messages : remote'[i] # Nothing <=> remote[i] # Nothing
    BY <1>3, <1>4, Apart
  <1>6. \A v \in Writers : InFlight(v)' = InFlight(v) \ {r}
    BY <1>2 DEF InFlight
  <1>7. \A i \in Messages : Silent(i) => i # m /\ remote'[i] = remote[i]
    BY <1>4 DEF Silent
  <1> HIDE DEF m
  <1>8. r.to = m
    BY DEF m
  <1>9. ASSUME NEW n \in Nat, UpTo(n) PROVE UpTo(n)'
    <2>1. ASSUME NEW i \in Messages PROVE Within(i, n)'
      <3>1. Within(i, n)
        BY <1>9 DEF UpTo
      <3> QED BY <3>1, <1>3, <1>4, <1>5, <1>9 DEF Within, UpTo, Exists
    <2> QED BY <2>1, <1>2, <1>9 DEF UpTo
  <1>10. CardTyped'
    BY <1>1, <1>2, <1>4 DEF CardTyped
  <1>11. Locking'
    BY <1>1, <1>2 DEF Locking, Holding
  <1>12. Addressed'
    BY <1>1, <1>2, <1>5 DEF Addressed, Exists
  <1>13. Revisions'
    BY <1>1, <1>2 DEF Revisions, Pending
  <1>14. Newest'
    <2>1. ASSUME NEW v \in Writers PROVE OfNewest(v)'
      <3>1. OfNewest(v) /\ writer'[v] = writer[v] /\ writer[v].num \in Nat /\ state' = state
        BY <1>1, <1>2 DEF Newest, CardTyped, Tasks
      <3>2. /\ (writer[v].at = "update" => UpTo(state.applied))'
            /\ (writer[v].at = "updated" /\ writer[v].disable => UpTo(state.applied))'
        BY <3>1, <1>1, <1>9 DEF OfNewest
      <3>3. (writer[v].at = "sent" => writer[v].num > state.applied /\ UpTo(writer[v].num))'
        BY <3>1, <1>1, <1>9 DEF OfNewest
      <3>4. ASSUME writer[v].at = "updated", ~writer[v].disable
            PROVE  /\ writer[v].num > state.applied
                   /\ \A i \in Messages : Within(i, state.applied)' \/ (InFlight(v)' = {} /\ i = writer[v].previous)
                   /\ \A q \in underway' \ InFlight(v)' : ~q.disable => q.rev <= state.applied
        <4>1. /\ writer[v].num > state.applied
              /\ \A i \in Messages : Within(i, state.applied) \/ (InFlight(v) = {} /\ i = writer[v].previous)
              /\ \A q \in underway \ InFlight(v) : ~q.disable => q.rev <= state.applied
          BY <3>1, <3>4 DEF OfNewest
        <4>2. \A q \in underway' \ InFlight(v)' : ~q.disable => q.rev <= state.applied
          BY <4>1, <1>2, <1>6
        <4>3. ASSUME NEW i \in Messages
              PROVE  Within(i, state.applied)' \/ (InFlight(v)' = {} /\ i = writer[v].previous)
          <5>1. CASE i # m
            BY <5>1, <4>1, <1>2, <1>4, <1>6 DEF Within
          <5>2. CASE i = m /\ r \in InFlight(v)
            <6>1. InFlight(v) = {r}
              BY <5>2, <1>1, <3>4, InFlightOnce DEF Target, OfTarget
            <6>2. InFlight(v)' = {} /\ writer[v].previous = m
              BY <6>1, <5>2, <1>6, <1>8 DEF InFlight
            <6> QED BY <6>2, <5>2
          <5>3. CASE i = m /\ r \notin InFlight(v)
            BY <5>3, <4>1, <1>2, <1>3, <1>4, <1>6 DEF Within, Exists
          <5> QED BY <5>1, <5>2, <5>3
        <4> QED BY <4>1, <4>2, <4>3
      <3> QED BY <3>1, <3>2, <3>3, <3>4 DEF OfNewest
    <2>2. UpTo(latest)' /\ (state.target # Nothing => UpTo(state.applied))'
      BY <1>1, <1>2, <1>9 DEF Newest
    <2> QED BY <2>1, <2>2 DEF Newest
  <1>15. Target'
    <2>1. ASSUME state.target # Nothing PROVE Silent(state.target)' /\ Showing(state.target)'
      <3>1. Silent(state.target) /\ Showing(state.target) /\ state.target \in Messages
        BY <2>1, <1>1 DEF Target, Addressed, Exists
      <3> QED BY <3>1, <1>2, <1>7 DEF Silent, Showing, Quiet
    <2>2. ASSUME NEW v \in Writers PROVE OfTarget(v)'
      <3>1. OfTarget(v) /\ writer'[v] = writer[v] /\ writer[v] \in Tasks
        BY <1>1, <1>2 DEF Target, CardTyped
      <3>2. CASE writer[v].at = "update"
        <4>1. Silent(writer[v].previous) /\ Showing(writer[v].previous) /\ writer[v].previous \in Messages
          BY <3>1, <3>2, <1>1 DEF OfTarget, Locking
        <4> QED BY <4>1, <3>1, <3>2, <1>2, <1>7 DEF OfTarget, Silent, Showing, Quiet
      <3>3. CASE writer[v].at = "updated"
        <4>1. /\ \A q \in underway : q.to = writer[v].previous => q \in InFlight(v)
              /\ Sent(v) /\ Answerable(v) /\ writer[v].previous \in Messages
          BY <3>1, <3>3, <1>1 DEF OfTarget, Locking
        <4>2. (\A q \in underway : q.to = writer[v].previous => q \in InFlight(v))'
          BY <4>1, <3>1, <1>2, <1>6
        <4>3. Sent(v)'
          BY <4>1, <3>1, <1>6 DEF Sent
        <4>4. CASE r \notin InFlight(v)
          <5>1. m # writer[v].previous /\ InFlight(v)' = InFlight(v)
            BY <4>1, <4>4, <1>6, <1>8
          <5>2. Answerable(v)'
            BY <5>1, <4>1, <3>1, <1>2, <1>4 DEF Answerable, Showing, Quiet
          <5> QED BY <5>2, <4>2, <4>3, <3>1, <3>3 DEF OfTarget
        <4>5. CASE r \in InFlight(v)
          <5>1. m = writer[v].previous /\ r.rev = writer[v].num /\ r.disable = writer[v].disable
                /\ r.enabled = writer[v].enabled
            BY <4>5, <4>1, <1>8 DEF InFlight, Sent
          <5>2. InFlight(v) = {r}
            BY <4>1, <4>5, <1>1, InFlightOnce
          <5>3. InFlight(v)' = {} /\ Showing(writer[v].previous)
            BY <5>2, <4>1, <1>6 DEF Answerable
          <5>4. Answerable(v)'
            BY <5>1, <5>3, <3>1, <1>2, <1>4 DEF Answerable, Showing
          <5> QED BY <5>4, <4>2, <4>3, <3>1, <3>3 DEF OfTarget
        <4> QED BY <4>4, <4>5
      <3>4. CASE writer[v].at = "sent"
        <4>1. r \notin InFlight(v) /\ InFlight(v)' = InFlight(v)
          BY <3>4, <1>1, <1>6 DEF InFlight, Locking
        <4>2. Sent(v)'
          BY <4>1, <3>1, <3>4 DEF OfTarget, Sent
        <4>3. ASSUME InFlight(v) = {}
              PROVE  /\ Exists(writer[v].message)' /\ Silent(writer[v].message)'
                     /\ (remote[writer[v].message] = [rev |-> writer[v].num, enabled |-> writer[v].enabled])'
          <5>1. /\ Exists(writer[v].message) /\ Silent(writer[v].message)
                /\ remote[writer[v].message] = [rev |-> writer[v].num, enabled |-> writer[v].enabled]
            BY <4>3, <3>1, <3>4 DEF OfTarget
          <5> QED BY <5>1, <3>1, <1>2, <1>5, <1>7 DEF Exists, Silent
        <4> QED BY <4>1, <4>2, <4>3, <3>1, <3>4 DEF OfTarget
      <3>5. CASE writer[v].at \notin {"update", "updated", "sent"}
        BY <3>1, <3>5 DEF OfTarget
      <3> QED BY <3>2, <3>3, <3>4, <3>5
    <2> QED BY <2>1, <2>2, <1>2 DEF Target
  <1>16. Buttons'
    BY <1>1, <1>2 DEF Buttons, OfButtons, Holding
  <1>17. Sends'
    <2>1. \A q \in underway' : q.to = Nothing => q \in underway /\ q # r
      BY <1>2
    <2>2. \A v \in Writers : \A q \in underway : q # r /\ q \in InFlight(v) => q \in InFlight(v)'
      BY <1>6
    <2>3. \A v \in Writers : InFlight(v) = {} => InFlight(v)' = {}
      BY <1>6
    <2>4. Stuck' = Stuck /\ (Silent(Nothing) => Silent(Nothing)')
      BY <1>2 DEF Stuck, Silent
    <2>5. \A k : Filled(k) => Filled(k)'
      BY <1>5 DEF Filled
    <2> QED BY <2>1, <2>2, <2>3, <2>4, <2>5, <1>1, <1>2 DEF Sends
  <1> QED BY <1>10, <1>11, <1>12, <1>13, <1>14, <1>15, <1>16, <1>17 DEF CardInv

\* The first number nobody has is the next one.
LEMMA NewIs ==
  ASSUME NEW k \in Nat, Filled(k), k + 1 \in Messages
  PROVE  NewMessage = k + 1
  <1>1. Messages \subseteq Nat
    BY DEF Messages
  <1>2. remote[k + 1] = Nothing /\ \A j \in 1..k : remote[j] # Nothing
    BY Apart DEF Filled, Messages
  <1>3. ASSUME NEW i \in Messages, remote[i] = Nothing, \A j \in 1..(i - 1) : remote[j] # Nothing
        PROVE  i = k + 1
    <2>1. ~(i <= k)
      BY <1>3 DEF Filled
    <2>2. ~(i > k + 1)
      BY <1>1, <1>2, <1>3
    <2> QED BY <1>1, <2>1, <2>2
  <1>4. \E i \in Messages : remote[i] = Nothing /\ \A j \in 1..(i - 1) : remote[j] # Nothing
    BY <1>2
  <1> QED BY <1>3, <1>4 DEF NewMessage

\* The one replacement that is under way becomes the newest message.
LEMMA DeliverNew ==
  ASSUME CardInv, NEW r \in underway, Deliver(r), r.to = Nothing
  PROVE  CardInv'
  <1>1. /\ CardTyped /\ Locking /\ Addressed /\ Revisions /\ Newest /\ Target /\ Buttons /\ Sends
        /\ latest \in Nat /\ state.applied \in Nat
        /\ r \in [by : Writers, rev : Nat, disable : BOOLEAN, enabled : BOOLEAN, to : Maybe]
    BY DEF CardInv, CardTyped
  <1>2. /\ ~r.disable /\ r.rev > state.applied /\ r.rev <= latest
        /\ Stuck \/ \E w \in Writers : writer[w].at = "sent" /\ r \in InFlight(w)
        /\ \A q \in underway : q.to = Nothing => q = r
    BY <1>1 DEF Sends
  <1>3. ~Silent(Nothing)
    BY DEF Silent
  <1>4. PICK k \in Messages : Filled(k) /\ k <= state.applied + 1
    BY <1>1, <1>3 DEF Sends
  <1> DEFINE n == k + 1
  <1>5. k \in Nat /\ n \in Messages /\ n \in Nat
    BY <1>1, <1>2, <1>4, Apart DEF Messages, Revisions
  <1>6. NewMessage = n
    BY <1>4, <1>5, NewIs
  <1>7. n # Nothing /\ remote[n] = Nothing /\ n > k
    BY <1>4, <1>5, Apart DEF Filled
  <1> HIDE DEF n
  <1>8. /\ underway' = underway \ {r}
        /\ remote' = [remote EXCEPT ![n] = [rev |-> r.rev, enabled |-> r.enabled]]
        /\ writer' = [w \in Writers |-> IF w = r.by /\ writer[w].at = "sent" /\ writer[w].num = r.rev
                                        THEN [writer[w] EXCEPT !.message = n] ELSE writer[w]]
        /\ UNCHANGED <<latest, disabled, state, lock, valid, confirmed, losses>>
    BY <1>6 DEF Deliver
  <1>9. /\ remote' \in [Messages -> Views \union {Nothing}]
        /\ \A i \in Messages : i # n => remote'[i] = remote[i]
        /\ remote'[n] = [rev |-> r.rev, enabled |-> r.enabled] /\ remote'[n] # Nothing
    <2>1. [rev |-> r.rev, enabled |-> r.enabled] \in Views
      BY <1>1 DEF Views
    <2> QED BY <2>1, <1>1, <1>5, <1>8, Apart DEF CardTyped
  <1>10. /\ writer' \in [Writers -> Tasks]
         /\ \A w \in Writers : /\ writer'[w].at = writer[w].at /\ writer'[w].num = writer[w].num
                               /\ writer'[w].disable = writer[w].disable
                               /\ writer'[w].enabled = writer[w].enabled
                               /\ writer'[w].previous = writer[w].previous
                               /\ r \in InFlight(w) /\ writer[w].at = "sent" => writer'[w].message = n
    <2>1. n \in Maybe /\ writer \in [Writers -> Tasks]
      BY <1>1, <1>5 DEF Maybe, CardTyped
    <2>2. ASSUME NEW w \in Writers
          PROVE  /\ writer'[w] \in Tasks
                 /\ writer'[w].at = writer[w].at /\ writer'[w].num = writer[w].num
                 /\ writer'[w].disable = writer[w].disable
                 /\ writer'[w].enabled = writer[w].enabled
                 /\ writer'[w].previous = writer[w].previous
                 /\ r \in InFlight(w) /\ writer[w].at = "sent" => writer'[w].message = n
      <3>1. CASE w = r.by /\ writer[w].at = "sent" /\ writer[w].num = r.rev
        <4>1. writer'[w] = [writer[w] EXCEPT !.message = n] /\ writer[w] \in Tasks
          BY <3>1, <1>8, <2>1
        <4> QED BY <4>1, <2>1 DEF Tasks
      <3>2. CASE ~(w = r.by /\ writer[w].at = "sent" /\ writer[w].num = r.rev)
        <4>1. writer'[w] = writer[w] /\ writer[w] \in Tasks
          BY <3>2, <1>8, <2>1
        <4> QED BY <4>1, <3>2 DEF InFlight
      <3> QED BY <3>1, <3>2
    <2> QED BY <2>2, <1>8
  <1>11. \A w \in Writers : InFlight(w)' = InFlight(w) \ {r}
    BY <1>8, <1>10 DEF InFlight
  <1>12. /\ state.target = Nothing
         /\ \A w \in Writers : Holding(w) => writer[w].at = "sent" /\ r \in InFlight(w)
    <2>1. CASE Stuck
      BY <2>1, <1>1, Apart DEF Stuck, Locking
    <2>2. CASE \E w \in Writers : writer[w].at = "sent" /\ r \in InFlight(w)
      <3>1. PICK w \in Writers : writer[w].at = "sent" /\ r \in InFlight(w)
        BY <2>2
      <3>2. Holding(w)
        BY <3>1 DEF Holding
      <3>3. state.target = Nothing /\ \A v \in Writers : v # w => writer[v].at \in {"rest", "start"}
        BY <1>1, <3>2, OthersWait
      <3> QED BY <3>1, <3>3 DEF Holding
    <2> QED BY <1>2, <2>1, <2>2
  <1>13. \A w \in Writers : InFlight(w)' = {} \/ ~Holding(w)
    <2>1. ASSUME NEW w \in Writers, Holding(w) PROVE InFlight(w)' = {}
      <3>1. writer[w].at = "sent" /\ r \in InFlight(w) /\ writer[w].previous = Nothing
        BY <2>1, <1>1, <1>12 DEF Locking
      <3>2. \A q \in InFlight(w) : q = r
        BY <3>1, <1>2 DEF InFlight
      <3> QED BY <3>2, <2>1, <1>11
    <2> QED BY <2>1
  <1>14. CardTyped'
    BY <1>1, <1>8, <1>9, <1>10 DEF CardTyped
  <1>15. Locking'
    BY <1>1, <1>8, <1>10 DEF Locking, Holding
  <1>16. Addressed'
    BY <1>1, <1>8, <1>9, <1>10, <1>12 DEF Addressed, Exists
  <1>17. Revisions'
    BY <1>1, <1>8, <1>10 DEF Revisions, Pending
  <1>18. Newest'
    <2>1. ASSUME NEW b \in Nat, UpTo(b), r.rev <= b PROVE UpTo(b)'
      BY <2>1, <1>8, <1>9 DEF UpTo, Within
    <2>2. UpTo(latest)'
      BY <2>1, <1>1, <1>2, <1>8 DEF Newest
    <2>3. ASSUME NEW v \in Writers PROVE OfNewest(v)'
      <3>1. CASE Holding(v)
        <4>1. writer[v].at = "sent" /\ r \in InFlight(v) /\ r.rev = writer[v].num /\ writer[v].num \in Nat
          BY <3>1, <1>1, <1>12 DEF InFlight, CardTyped, Tasks
        <4>2. writer[v].num > state.applied /\ UpTo(writer[v].num)
          BY <4>1, <1>1 DEF Newest, OfNewest
        <4>3. UpTo(writer[v].num)'
          BY <2>1, <4>1, <4>2, <1>10 DEF UpTo, Within
        <4> QED BY <4>1, <4>2, <4>3, <1>8, <1>10 DEF OfNewest
      <3>2. CASE ~Holding(v)
        BY <3>2, <1>10 DEF OfNewest, Holding
      <3> QED BY <3>1, <3>2
    <2> QED BY <2>2, <2>3, <1>8, <1>12 DEF Newest
  <1>19. Target'
    <2>1. ASSUME NEW v \in Writers PROVE OfTarget(v)'
      <3>1. CASE Holding(v)
        <4>1. writer[v].at = "sent" /\ r \in InFlight(v) /\ r.rev = writer[v].num /\ InFlight(v)' = {}
          BY <3>1, <1>12, <1>13 DEF InFlight
        <4>2. r.enabled = writer[v].enabled
          BY <4>1, <1>1 DEF Target, OfTarget, Sent
        <4>3. writer'[v].at = "sent" /\ writer'[v].message = n /\ writer'[v].num = writer[v].num
              /\ writer'[v].enabled = writer[v].enabled
          BY <4>1, <1>10
        <4>4. \A q \in underway' : q.to # n
          BY <1>1, <1>7, <1>8 DEF Addressed, Exists
        <4> QED BY <4>1, <4>2, <4>3, <4>4, <1>5, <1>9 DEF OfTarget, Sent, Exists, Silent
      <3>2. CASE ~Holding(v)
        BY <3>2, <1>10 DEF OfTarget, Holding
      <3> QED BY <3>1, <3>2
    <2> QED BY <2>1, <1>8, <1>12 DEF Target
  <1>20. Buttons'
    <2>1. ASSUME NEW v \in Writers PROVE OfButtons(v)'
      BY <1>1, <1>8, <1>10 DEF Buttons, OfButtons, Holding
    <2> QED BY <2>1, <1>1, <1>8 DEF Buttons
  <1>21. Sends'
    <2>1. Silent(Nothing)'
      BY <1>2, <1>8 DEF Silent
    <2>2. Filled(n)'
      <3>1. ASSUME NEW i \in Messages PROVE remote'[i] # Nothing <=> i <= n
        <4>1. i \in Nat
          BY DEF Messages
        <4>2. CASE i = n
          BY <4>2, <1>5, <1>9
        <4>3. CASE i # n
          BY <4>1, <4>3, <1>4, <1>5, <1>9 DEF Filled, n
        <4> QED BY <4>2, <4>3
      <3> QED BY <3>1 DEF Filled
    <2>3. Stuck' \/ \E w \in Writers : writer'[w].at = "sent" /\ InFlight(w)' = {} /\ n <= writer'[w].num + 1
      <3>1. CASE Stuck
        BY <3>1, <1>8 DEF Stuck
      <3>2. CASE \E w \in Writers : writer[w].at = "sent" /\ r \in InFlight(w)
        <4>1. PICK w \in Writers : writer[w].at = "sent" /\ r \in InFlight(w)
          BY <3>2
        <4>2. writer'[w].at = "sent" /\ InFlight(w)' = {} /\ writer'[w].num = r.rev
          BY <4>1, <1>10, <1>13 DEF Holding, InFlight
        <4>3. n <= r.rev + 1
          BY <1>1, <1>2, <1>4, <1>5 DEF n
        <4> QED BY <4>2, <4>3
      <3> QED BY <1>2, <3>1, <3>2
    <2> QED BY <2>1, <2>2, <2>3, <1>5 DEF Sends, Silent
  <1> QED BY <1>14, <1>15, <1>16, <1>17, <1>18, <1>19, <1>20, <1>21 DEF CardInv

LEMMA CardStepKeeps ==
  ASSUME CardInv, [CardNext]_cardVars
  PROVE  CardInv'
  <1>1. ASSUME NEW w \in Writers,
               \/ Reserve(w) \/ Press(w) \/ Enter(w) \/ Dispatch(w) \/ NotSent(w)
               \/ Answered(w) \/ Rejected(w) \/ Lost(w) \/ Cancelled(w)
        PROVE  CardInv'
    BY <1>1, ReserveKeeps, PressKeeps, EnterKeeps, DispatchKeeps, NotSentKeeps, AnsweredKeeps,
       RejectedKeeps, LostKeeps, CancelledKeeps
  <1>2. ASSUME NEW r \in underway, Deliver(r) PROVE CardInv'
    BY <1>2, DeliverUpdate, DeliverNew
  <1>3. CASE UNCHANGED cardVars
    <2>1. /\ CardTyped /\ Locking /\ Addressed /\ Revisions /\ Newest /\ Target /\ Buttons /\ Sends
          /\ UNCHANGED <<latest, disabled, state, lock, writer, valid, remote, underway, confirmed, losses>>
      BY <1>3 DEF CardInv, cardVars
    <2>2. CardTyped'
      BY <2>1 DEF CardTyped
    <2>3. Locking' /\ Addressed' /\ Revisions' /\ Buttons'
      BY <2>1 DEF Locking, Holding, Addressed, Exists, Revisions, Pending, Buttons, OfButtons
    <2>4. \A v \in Writers : InFlight(v)' = InFlight(v)
      BY <2>1 DEF InFlight
    <2>5. Newest'
      BY <2>1, <2>4 DEF Newest, OfNewest, UpTo, Within
    <2>6. Target'
      BY <2>1, <2>4 DEF Target, OfTarget, Silent, Showing, Quiet, Answerable, Sent, Exists
    <2>7. Sends'
      BY <2>1, <2>4 DEF Sends, Stuck, Filled, Silent
    <2> QED BY <2>2, <2>3, <2>5, <2>6, <2>7 DEF CardInv
  <1> QED BY <1>1, <1>2, <1>3, ScopeEndsKeeps, PruneKeeps DEF CardNext

LEMMA CardTrueFollows ==
  ASSUME CardInv
  PROVE  CardTrue
  <1>1. CardTyped /\ Addressed /\ Newest /\ Target /\ Sends
    BY DEF CardInv
  <1>2. ShowsLatest
    BY <1>1 DEF ShowsLatest, Target, Silent, Showing
  <1>3. NoDuplicates
    <2> DEFINE S == {r \in underway : r.to = Nothing}
    <2>1. Cardinality(S) <= 1
      <3>1. CASE S = {}
        BY <3>1, FS_EmptySet
      <3>2. CASE S # {}
        <4>1. PICK r \in S : TRUE
          BY <3>2
        <4>2. S = {r}
          BY <4>1, <1>1 DEF Sends
        <4>3. Cardinality({r}) = 1
          BY FS_Singleton
        <4> QED BY <4>2, <4>3
      <3> QED BY <3>1, <3>2
    <2>2. ASSUME state.target # Nothing, NEW i \in Messages, remote[i] # Nothing
          PROVE  ~(remote[i].rev > remote[state.target].rev)
      <3>1. remote[i].rev <= state.applied /\ remote[state.target].rev = state.applied
        BY <2>2, <1>1 DEF Newest, UpTo, Within, Target, Showing
      <3> QED BY <3>1, <2>2, <1>1 DEF CardTyped, Views
    <2> QED BY <2>1, <2>2 DEF NoDuplicates
  <1>4. DisabledStay
    BY <1>1 DEF DisabledStay, Target, Showing, Quiet
  <1> QED BY <1>2, <1>3, <1>4 DEF CardTrue

\* The card shows what was written last, is there once, and buttons that were disabled do not come
\* back (engine/card_writes.rs), whatever is lost, rejected, cancelled or late: every edit holds the
\* state while it is under way, and a message whose request was lost is never written to again.
THEOREM CardTrueHolds == CardSpec => []CardTrue
  <1>1. CardInit => CardInv
    BY CardStarts
  <1>2. CardInv /\ [CardNext]_cardVars => CardInv'
    BY CardStepKeeps
  <1>3. CardInv => CardTrue
    BY CardTrueFollows
  <1> QED BY <1>1, <1>2, <1>3, PTL DEF CardSpec
=============================================================================
