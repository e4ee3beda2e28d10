---------------------------- MODULE SessionProofs ----------------------------
(***************************************************************************)
(* The bindings in memory and in the database agree, a shown session is    *)
(* subscribed and not being unsubscribed, and no attachment leaves a       *)
(* subscription behind.  The argument follows a subscription: while it is  *)
(* wanted by an attachment nobody unsubscribes it, a preparation and an    *)
(* unsubscribe of one session are ordered, and whatever ends the last use  *)
(* of a session that is followed leaves an unsubscribe, a preparation or a *)
(* result that is still to be handled.                                     *)
(***************************************************************************)
EXTENDS SessionBinding, SessionSwitch, FiniteSetTheorems, TLAPS

WorkerRecords ==
    [id : Nat, kind : {"prepare", "cleanup"}, request : Requests \cup {None},
     s : Sessions, waits : SUBSET Nat, stage : {"wait", "ok", "failed", "done"}]
Results == [request : Requests, ok : BOOLEAN]
Cleanup == [attachments : [Conversations -> Requests \cup {None}],
            retries : SUBSET Requests, results : SUBSET Results,
            workers : SUBSET WorkerRecords]
TablesTyped ==
    /\ cur \in [Conversations -> Sessions \cup {None}]
    /\ drain \in [Sessions -> Conversations \cup {None}]
    /\ epoch \in [Conversations -> Nat]
    /\ row \in [Conversations -> Rows \cup {None}]
    /\ dbEpoch \in [Conversations -> Nat]
Events == [kind : {"exited", "resumed"}, s : Sessions]
HostTyped ==
    /\ follow \in [Sessions -> {"off", "live", "exited"}]
    /\ running \subseteq Sessions /\ turns \subseteq Sessions
    /\ events \in Seq(Events)
    /\ generation \in Nat /\ up \in BOOLEAN
    /\ contested \subseteq Sessions

\* The tables. A session is in at most one row, a shown one is in the row of its
\* conversation, and one that drains is in none.
OneRow ==
    \A c, d \in Conversations :
        row[c] # None /\ row[d] # None /\ row[c].s = row[d].s => c = d
Agree ==
    \A c \in Conversations :
        /\ cur[c] # None => row[c] = [s |-> cur[c], epoch |-> epoch[c]]
        /\ row[c] # None => row[c].epoch = dbEpoch[c]
Drains == \A s \in Sessions : drain[s] # None => ~Saved(s)
Down ==
    ~up => /\ \A c \in Conversations : cur[c] = None
           /\ \A s \in Sessions : drain[s] = None /\ follow[s] = "off"
           /\ cl = Idle /\ events = <<>>
Consistent == TablesTyped /\ OneRow /\ Agree /\ Drains

\* The workers. Ids are unique, a session has one unsubscribe, and that waits for every
\* preparation of the session that is there.
Shaped(k) ==
    \A w \in k.workers :
        IF w.kind = "prepare"
        THEN /\ w.request \in Requests /\ w.request.prepared
             /\ w.request.s = w.s /\ w.request.id = w.id
             /\ w.stage \in {"wait", "ok", "failed"}
        ELSE w.stage = "wait" \/ (w.stage = "done" /\ w.waits = {})
Distinct(k) == \A w, v \in k.workers : w.id = v.id => w = v
OneCleanup(k) ==
    \A v, w \in k.workers :
        v.kind = "cleanup" /\ w.kind = "cleanup" /\ v.s = w.s => v = w
Ordered(k) ==
    \A w, v \in k.workers :
        w.kind = "prepare" /\ v.kind = "cleanup" /\ w.s = v.s => w.id \in v.waits
Queue(k) == Shaped(k) /\ Distinct(k) /\ OneCleanup(k) /\ Ordered(k)

\* The attachments. A session is wanted by one conversation at most; an attachment being
\* prepared has its worker or result, and no unsubscribe; one that was deferred has
\* an id nobody else uses.
Named(k) ==
    \A c \in Conversations : k.attachments[c] # None => k.attachments[c].c = c
Wanted(k) ==
    \A c, d \in Conversations :
        k.attachments[c] # None /\ k.attachments[d] # None
        /\ (k.attachments[c].s = k.attachments[d].s \/ k.attachments[c].id = k.attachments[d].id)
            => c = d
UnderWay(k, r) == \/ \E w \in k.workers : w.kind = "prepare" /\ w.request = r
                  \/ \E p \in k.results : p.request = r
Promised(k) ==
    \A c \in Conversations :
        LET r == k.attachments[c]
        IN  r # None =>
            IF r.prepared THEN UnderWay(k, r) /\ Cleaning(k, r.s) = {}
            ELSE /\ \A w \in k.workers : w.id # r.id
                 /\ \A p \in k.results : p.request.id # r.id
Retried(k) == \A r \in k.retries : ~r.prepared
Attaching(k) == Named(k) /\ Wanted(k) /\ Promised(k) /\ Retried(k)

\* What the adapter follows (f). A current preparation that succeeded has its
\* subscription; an unsubscribe that was executed and a deferred attachment that waits
\* for none have none.
Subscribed(k, f) ==
    /\ \A w \in k.workers :
          /\ w.kind = "prepare" /\ w.stage = "ok" /\ k.attachments[w.request.c] = w.request
                => f[w.s] # "off"
          /\ w.kind = "cleanup" /\ w.stage = "done" => f[w.s] = "off"
    /\ \A p \in k.results :
          p.ok /\ k.attachments[p.request.c] = p.request => f[p.request.s] # "off"
Dropped(k, f) ==
    \A c \in Conversations :
        LET r == k.attachments[c]
        IN  r # None /\ ~r.prepared /\ Cleaning(k, r.s) = {} =>
                f[r.s] = "off" /\ \A w \in k.workers : w.s # r.s
Sound(k, f) == Queue(k) /\ Attaching(k) /\ Subscribed(k, f) /\ Dropped(k, f)

\* A saved session keeps its subscription, unless it was given up as contested.
Kept ==
    up => \A s \in Sessions :
        Saved(s) /\ s \notin contested => follow[s] # "off" /\ Cleaning(cl, s) = {}

\* A subscription that is neither saved nor draining is dealt with by somebody.
Handled(k, s) ==
    \/ \E v \in k.workers : v.s = s /\ (v.kind = "prepare" \/ v.stage = "wait")
    \/ \E p \in k.results : p.request.s = s
Accounted ==
    \A s \in Sessions :
        follow[s] # "off" => Saved(s) \/ drain[s] # None \/ Handled(cl, s)

Bindings ==
    /\ Consistent /\ Down
    /\ HostTyped
    /\ cl \in Cleanup /\ Sound(cl, follow)
    /\ Kept

----------------------------------------------------------------------------
\* The operations of SubscriptionCleanup, part by part.

\* A new id is in use nowhere.
LEMMA Fresh ==
    ASSUME NEW k, FreeIds(k) # {}
    PROVE  /\ FreshId(k) \in Nat
           /\ \A w \in k.workers : w.id # FreshId(k)
           /\ \A p \in k.results : p.request.id # FreshId(k)
           /\ \A c \in Conversations :
                 k.attachments[c] # None => k.attachments[c].id # FreshId(k)
<1>1. FreshId(k) \in FreeIds(k)
  BY DEF FreshId
<1> QED BY <1>1, LimitsNat DEF FreeIds, IdsInUse, Attachments

\* An unsubscribe that is queued comes behind the preparations of its session.
NewCleanup(k, s, w) ==
    /\ w \in WorkerRecords /\ w.kind = "cleanup" /\ w.s = s /\ w.stage = "wait"
    /\ \A v \in k.workers : v.id # w.id
    /\ \A v \in k.workers : v.kind = "prepare" /\ v.s = s => v.id \in w.waits
    /\ \A p \in k.results : p.request.id # w.id
    /\ \A c \in Conversations : k.attachments[c] # None => k.attachments[c].id # w.id
AtLimit(k) == Cardinality({w \in k.workers : w.kind = "cleanup"}) >= Limit
SameButWorkers(j, k) ==
    /\ j \in Cleanup
    /\ j.attachments = k.attachments /\ j.retries = k.retries /\ j.results = k.results

LEMMA EnqueueParts ==
    ASSUME NEW k \in Cleanup, NEW s \in Sessions, FreeIds(k) # {}
    PROVE  \/ Enqueue(k, s) = k /\ (Targeted(k, s) \/ Cleaning(k, s) # {} \/ AtLimit(k))
           \/ /\ ~Targeted(k, s) /\ Cleaning(k, s) = {}
              /\ SameButWorkers(Enqueue(k, s), k)
              /\ \E w : NewCleanup(k, s, w) /\ Enqueue(k, s).workers = k.workers \cup {w}
<1> DEFINE w == [id |-> FreshId(k), kind |-> "cleanup", request |-> None, s |-> s,
                 waits |-> {x.id : x \in {v \in Preparing(k) : v.s = s}}, stage |-> "wait"]
           stays == Targeted(k, s) \/ Cleaning(k, s) # {} \/ AtLimit(k)
<1>1. CASE stays
  BY <1>1 DEF Enqueue, AtLimit
<1>2. CASE ~stays
  <2>1. Enqueue(k, s) = [k EXCEPT !.workers = @ \cup {w}]
    BY <1>2 DEF Enqueue, AtLimit
  <2>2. w.waits \subseteq Nat
    BY DEF Preparing, Cleanup, WorkerRecords
  <2>3. w \in WorkerRecords
    BY <2>2, Fresh DEF WorkerRecords
  <2>4. NewCleanup(k, s, w)
    BY <2>3, Fresh DEF NewCleanup, Preparing
  <2>5. /\ Enqueue(k, s).workers = k.workers \cup {w}
        /\ SameButWorkers(Enqueue(k, s), k)
    BY <2>1, <2>3 DEF SameButWorkers, Cleanup
  <2> HIDE DEF w
  <2> QED BY <1>2, <2>4, <2>5
<1> QED BY <1>1, <1>2

LEMMA OthersCleaning ==
    ASSUME NEW k \in Cleanup, NEW s \in Sessions, FreeIds(k) # {}
    PROVE  \A t : t # s => Cleaning(Enqueue(k, s), t) = Cleaning(k, t)
<1>1. CASE Enqueue(k, s) = k
  BY <1>1
<1>2. ASSUME NEW w, NewCleanup(k, s, w), Enqueue(k, s).workers = k.workers \cup {w}
      PROVE  \A t : t # s => Cleaning(Enqueue(k, s), t) = Cleaning(k, t)
  BY <1>2 DEF NewCleanup, Cleaning
<1> QED BY <1>1, <1>2, EnqueueParts

\* Attachments are given up, and nothing else changes.
Fewer(j, k) ==
    /\ j \in Cleanup /\ j.workers = k.workers /\ j.results = k.results
    /\ j.retries \subseteq k.retries
    /\ \A c \in Conversations : j.attachments[c] \in {k.attachments[c], None}

LEMMA CancelParts ==
    ASSUME NEW k \in Cleanup, NEW c \in Conversations
    PROVE  Fewer(Cancel(k, c), k) /\ Cancel(k, c).attachments[c] = None
BY DEF Cancel, Fewer, Cleanup

LEMMA CancelSessionParts ==
    ASSUME NEW k \in Cleanup, NEW s \in Sessions
    PROVE  Fewer(CancelSession(k, s), k) /\ ~Targeted(CancelSession(k, s), s)
<1> DEFINE hit == {c \in Conversations : k.attachments[c] # None /\ k.attachments[c].s = s}
           j == CancelSession(k, s)
<1>1. j = [k EXCEPT !.retries = {r \in @ : r.c \notin hit},
                    !.attachments = [c \in Conversations |->
                        IF c \in hit THEN None ELSE k.attachments[c]]]
  BY DEF CancelSession
<1>2. /\ j \in Cleanup /\ j.workers = k.workers /\ j.results = k.results
      /\ j.retries \subseteq k.retries
      /\ j.attachments = [c \in Conversations |-> IF c \in hit THEN None ELSE k.attachments[c]]
  <2>1. j = [attachments |-> [c \in Conversations |->
                               IF c \in hit THEN None ELSE k.attachments[c]],
             retries |-> {r \in k.retries : r.c \notin hit},
             results |-> k.results, workers |-> k.workers]
    BY <1>1 DEF Cleanup
  <2>2. [c \in Conversations |-> IF c \in hit THEN None ELSE k.attachments[c]]
          \in [Conversations -> Requests \cup {None}]
    BY DEF Cleanup
  <2>3. {r \in k.retries : r.c \notin hit} \in SUBSET Requests
    BY DEF Cleanup
  <2>4. k.results \in SUBSET Results /\ k.workers \in SUBSET WorkerRecords
    BY DEF Cleanup
  <2>5. j \in Cleanup
    <3> HIDE DEF hit, j
    <3> QED BY <2>1, <2>2, <2>3, <2>4 DEF Cleanup
  <2>6. {r \in k.retries : r.c \notin hit} \subseteq k.retries
    OBVIOUS
  <2> HIDE DEF hit, j
  <2> QED BY <2>1, <2>5, <2>6
<1> QED BY <1>2 DEF Fewer, Targeted, Attachments

\* An attachment r is started or deferred where nobody else wants its session and nobody
\* uses its id.
Clear(k, r) ==
    /\ r \in Requests
    /\ \A c \in Conversations : k.attachments[c] # None /\ c # r.c =>
          k.attachments[c].s # r.s /\ k.attachments[c].id # r.id
    /\ \A w \in k.workers : w.id # r.id
    /\ \A p \in k.results : p.request.id # r.id

NewPreparation(w, r) ==
    /\ w \in WorkerRecords /\ w.kind = "prepare" /\ w.request = r /\ w.s = r.s
    /\ w.id = r.id /\ w.stage = "wait"

LEMMA PrepareParts ==
    ASSUME NEW k \in Cleanup, NEW r \in Requests
    PROVE  \/ Prepare(k, r) = k
           \/ /\ Prepare(k, r) \in Cleanup
              /\ Prepare(k, r).attachments = [k.attachments EXCEPT ![r.c] = r]
              /\ Prepare(k, r).retries = k.retries /\ Prepare(k, r).results = k.results
              /\ \E w : NewPreparation(w, r) /\ Prepare(k, r).workers = k.workers \cup {w}
<1> DEFINE w == [id |-> r.id, kind |-> "prepare", request |-> r, s |-> r.s,
                 waits |-> {x.id : x \in {v \in Preparing(k) : v.s = r.s} \cup Cleaning(k, r.s)},
                 stage |-> "wait"]
<1>1. CASE Full(k)
  BY <1>1 DEF Prepare
<1>2. CASE ~Full(k)
  <2>1. Prepare(k, r) = [k EXCEPT !.attachments[r.c] = r, !.workers = @ \cup {w}]
    BY <1>2 DEF Prepare
  <2>2. w.waits \subseteq Nat
    BY DEF Preparing, Cleaning, Cleanup, WorkerRecords
  <2>3. w \in WorkerRecords /\ NewPreparation(w, r)
    BY <2>2 DEF WorkerRecords, Requests, NewPreparation
  <2>4. /\ Prepare(k, r).workers = k.workers \cup {w}
        /\ Prepare(k, r).attachments = [k.attachments EXCEPT ![r.c] = r]
        /\ Prepare(k, r).retries = k.retries /\ Prepare(k, r).results = k.results
        /\ Prepare(k, r) \in Cleanup
    <3>1. r.c \in Conversations
      BY DEF Requests
    <3> HIDE DEF w
    <3> QED BY <2>1, <2>3, <3>1 DEF Cleanup
  <2> HIDE DEF w
  <2> QED BY <2>3, <2>4
<1> QED BY <1>1, <1>2

LEMMA DeferParts ==
    ASSUME NEW k \in Cleanup, NEW r \in Requests
    PROVE  /\ Defer(k, r) \in Cleanup
           /\ Defer(k, r).attachments = [k.attachments EXCEPT ![r.c] = r]
           /\ Defer(k, r).retries \subseteq k.retries \cup {r}
           /\ Defer(k, r).results = k.results /\ Defer(k, r).workers = k.workers
<1>1. r.c \in Conversations
  BY DEF Requests
<1> QED BY <1>1 DEF Defer, Cleanup

----------------------------------------------------------------------------
\* Each of them keeps the attachments and the workers sound.

\* Giving up attachments releases nobody's subscription.
LEMMA FewerSound ==
    ASSUME NEW k \in Cleanup, NEW f, NEW j, Sound(k, f), Fewer(j, k)
    PROVE  Sound(j, f)
<1>1. Queue(j)
  BY DEF Sound, Fewer, Queue, Shaped, Distinct, OneCleanup, Ordered
<1>2. \A s : Cleaning(j, s) = Cleaning(k, s)
  BY DEF Fewer, Cleaning
<1>3. Named(j) /\ Wanted(j) /\ Retried(j)
  BY DEF Sound, Attaching, Fewer, Named, Wanted, Retried
<1>4. Promised(j)
  BY <1>2 DEF Sound, Attaching, Fewer, Promised, UnderWay
<1>5. Subscribed(j, f)
  <2>1. \A w \in k.workers : w.kind = "prepare" => w.request \in Requests /\ w.request # None
    BY NoneIsNothing DEF Sound, Queue, Shaped
  <2>2. \A p \in k.results : p.request \in Requests /\ p.request # None
    BY NoneIsNothing DEF Cleanup, Results
  <2> QED BY <2>1, <2>2 DEF Sound, Fewer, Subscribed, Requests
<1>6. Dropped(j, f)
  BY <1>2 DEF Sound, Fewer, Dropped
<1> QED BY <1>1, <1>3, <1>4, <1>5, <1>6 DEF Sound, Attaching

\* An unsubscribe is queued only where no attachment wants the session.
LEMMA EnqueueSound ==
    ASSUME NEW k \in Cleanup, NEW f, NEW s \in Sessions, Sound(k, f), FreeIds(k) # {}
    PROVE  Sound(Enqueue(k, s), f) /\ Enqueue(k, s) \in Cleanup
<1>1. CASE Enqueue(k, s) = k
  BY <1>1
<1>2. CASE Enqueue(k, s) # k
  <2>1. PICK j : j = Enqueue(k, s)
    OBVIOUS
  <2>2. PICK w : NewCleanup(k, s, w) /\ j.workers = k.workers \cup {w}
    BY <1>2, <2>1, EnqueueParts
  <2>3. ~Targeted(k, s) /\ Cleaning(k, s) = {} /\ SameButWorkers(j, k)
    BY <1>2, <2>1, EnqueueParts
  <2>4. Queue(j)
    <3>1. Shaped(j) /\ Distinct(j)
      BY <2>2 DEF NewCleanup, Sound, Queue, Shaped, Distinct
    <3>2. OneCleanup(j)
      BY <2>2, <2>3 DEF NewCleanup, Cleaning, Sound, Queue, OneCleanup
    <3>3. Ordered(j)
      BY <2>2 DEF NewCleanup, Sound, Queue, Ordered
    <3> QED BY <3>1, <3>2, <3>3 DEF Queue
  <2>5. \A r \in Sessions : r # s => Cleaning(j, r) = Cleaning(k, r)
    BY <2>2 DEF NewCleanup, Cleaning
  <2>6. \A c \in Conversations : k.attachments[c] # None =>
           k.attachments[c].s # s /\ k.attachments[c].s \in Sessions
    BY <2>3 DEF Targeted, Attachments, Cleanup, Requests
  <2>7. Named(j) /\ Wanted(j) /\ Retried(j)
    BY <2>3 DEF SameButWorkers, Sound, Attaching, Named, Wanted, Retried
  <2>8. Promised(j)
    BY <2>2, <2>3, <2>5, <2>6 DEF SameButWorkers, NewCleanup, Sound, Attaching, Promised, UnderWay
  <2>9. Subscribed(j, f)
    BY <2>2, <2>3 DEF SameButWorkers, NewCleanup, Sound, Subscribed
  <2>10. Dropped(j, f)
    BY <2>2, <2>3, <2>5, <2>6 DEF SameButWorkers, NewCleanup, Sound, Dropped
  <2> QED BY <2>1, <2>3, <2>4, <2>7, <2>8, <2>9, <2>10 DEF Sound, Attaching, SameButWorkers
<1> QED BY <1>1, <1>2

\* A preparation begins where no unsubscribe is under way.
LEMMA PrepareSound ==
    ASSUME NEW k \in Cleanup, NEW f, NEW r, Sound(k, f), Clear(k, r), r.prepared,
           Cleaning(k, r.s) = {}
    PROVE  Sound(Prepare(k, r), f) /\ Prepare(k, r) \in Cleanup
<1>1. CASE Prepare(k, r) = k
  BY <1>1
<1>2. CASE Prepare(k, r) # k
  <2>0. r \in Requests /\ r.c \in Conversations /\ r # None
    BY NoneIsNothing DEF Clear, Requests
  <2>1. PICK j : j = Prepare(k, r)
    OBVIOUS
  <2>2. PICK w : NewPreparation(w, r) /\ j.workers = k.workers \cup {w}
    BY <1>2, <2>0, <2>1, PrepareParts
  <2>3. /\ j \in Cleanup /\ j.attachments = [k.attachments EXCEPT ![r.c] = r]
        /\ j.retries = k.retries /\ j.results = k.results
    BY <1>2, <2>0, <2>1, PrepareParts
  <2>4. Queue(j)
    <3>1. Shaped(j) /\ Distinct(j)
      BY <2>0, <2>2 DEF NewPreparation, Clear, Sound, Queue, Shaped, Distinct
    <3>2. OneCleanup(j)
      BY <2>2 DEF NewPreparation, Sound, Queue, OneCleanup
    <3>3. Ordered(j)
      BY <2>2 DEF NewPreparation, Cleaning, Sound, Queue, Ordered
    <3> QED BY <3>1, <3>2, <3>3 DEF Queue
  <2>5. \A s : Cleaning(j, s) = Cleaning(k, s)
    BY <2>2 DEF NewPreparation, Cleaning
  <2>6. /\ j.attachments[r.c] = r
        /\ \A c \in Conversations : c # r.c => j.attachments[c] = k.attachments[c]
    BY <2>0, <2>3 DEF Cleanup
  <2>7. Named(j) /\ Wanted(j) /\ Retried(j)
    BY <2>0, <2>3, <2>6 DEF Clear, Sound, Attaching, Named, Wanted, Retried
  <2>8. Promised(j)
    BY <2>2, <2>3, <2>5, <2>6 DEF NewPreparation, Clear, Sound, Attaching, Promised, UnderWay
  <2>9. Subscribed(j, f)
    <3>1. \A p \in k.results : p.request \in Requests /\ p.request # r
      BY DEF Clear, Cleanup, Results
    <3>2. \A v \in k.workers : v.kind = "prepare" => v.request \in Requests /\ v.request # r
      BY DEF Clear, Sound, Queue, Shaped
    <3> QED BY <2>2, <2>3, <2>6, <3>1, <3>2 DEF NewPreparation, Sound, Subscribed, Requests
  <2>10. Dropped(j, f)
    BY <2>0, <2>2, <2>3, <2>5, <2>6 DEF NewPreparation, Clear, Sound, Dropped
  <2> QED BY <2>1, <2>3, <2>4, <2>7, <2>8, <2>9, <2>10 DEF Sound, Attaching
<1> QED BY <1>1, <1>2

\* An attachment is deferred behind an unsubscribe of its session.
LEMMA DeferSound ==
    ASSUME NEW k \in Cleanup, NEW f, NEW r, Sound(k, f), Clear(k, r), ~r.prepared,
           Cleaning(k, r.s) # {}
    PROVE  Sound(Defer(k, r), f) /\ Defer(k, r) \in Cleanup
<1>0. r \in Requests /\ r.c \in Conversations /\ r # None
  BY NoneIsNothing DEF Clear, Requests
<1>1. PICK j : j = Defer(k, r)
  OBVIOUS
<1>2. /\ j \in Cleanup /\ j.attachments = [k.attachments EXCEPT ![r.c] = r]
      /\ j.retries \subseteq k.retries \cup {r} /\ j.results = k.results
      /\ j.workers = k.workers
  BY <1>0, <1>1, DeferParts
<1>3. /\ j.attachments[r.c] = r
      /\ \A c \in Conversations : c # r.c => j.attachments[c] = k.attachments[c]
  BY <1>0, <1>2 DEF Cleanup
<1>4. Queue(j)
  BY <1>2 DEF Sound, Queue, Shaped, Distinct, OneCleanup, Ordered
<1>5. \A s : Cleaning(j, s) = Cleaning(k, s)
  BY <1>2 DEF Cleaning
<1>6. Named(j) /\ Wanted(j) /\ Retried(j)
  BY <1>0, <1>2, <1>3 DEF Clear, Sound, Attaching, Named, Wanted, Retried
<1>7. Promised(j)
  <2>1. \A x : UnderWay(j, x) <=> UnderWay(k, x)
    BY <1>2 DEF UnderWay
  <2>2. ASSUME NEW c \in Conversations, c # r.c, k.attachments[c] # None
        PROVE  LET x == k.attachments[c]
               IN  IF x.prepared THEN UnderWay(j, x) /\ Cleaning(j, x.s) = {}
                   ELSE /\ \A w \in j.workers : w.id # x.id
                        /\ \A p \in j.results : p.request.id # x.id
    BY <1>2, <1>5, <2>1, <2>2 DEF Sound, Attaching, Promised
  <2>3. /\ \A w \in j.workers : w.id # r.id
        /\ \A p \in j.results : p.request.id # r.id
    BY <1>2 DEF Clear
  <2> QED BY <1>3, <2>2, <2>3 DEF Promised
<1>8. Subscribed(j, f)
  <2>1. \A p \in k.results : p.request \in Requests /\ p.request # r
    BY DEF Clear, Cleanup, Results
  <2>2. \A v \in k.workers : v.kind = "prepare" => v.request \in Requests /\ v.request # r
    BY DEF Clear, Sound, Queue, Shaped
  <2> QED BY <1>2, <1>3, <2>1, <2>2 DEF Sound, Subscribed, Requests
<1>9. Dropped(j, f)
  BY <1>2, <1>3, <1>5 DEF Clear, Sound, Dropped
<1> QED BY <1>1, <1>2, <1>4, <1>6, <1>7, <1>8, <1>9 DEF Sound, Attaching

----------------------------------------------------------------------------
\* The tables.

\* A shown session is saved in the row of its conversation, and shown there alone.
LEMMA Shown ==
    ASSUME Consistent
    PROVE  /\ \A c \in Conversations : cur[c] # None =>
                 row[c] # None /\ row[c].s = cur[c] /\ cur[c] \in Sessions /\ Saved(cur[c])
                 /\ drain[cur[c]] = None
           /\ \A c, d \in Conversations : cur[c] # None /\ cur[c] = cur[d] => c = d
           /\ \A s \in Sessions : Bound(s) => Saved(s)
<1>1. \A c \in Conversations : cur[c] # None =>
         row[c] # None /\ row[c].s = cur[c] /\ cur[c] \in Sessions
  <2> SUFFICES ASSUME NEW c \in Conversations, cur[c] # None
               PROVE  row[c] # None /\ row[c].s = cur[c] /\ cur[c] \in Sessions
    OBVIOUS
  <2>1. cur[c] \in Sessions /\ epoch[c] \in Nat /\ row[c] = [s |-> cur[c], epoch |-> epoch[c]]
    BY DEF Consistent, TablesTyped, Agree
  <2>2. row[c] \in Rows
    BY <2>1 DEF Rows
  <2> QED BY <2>1, <2>2, NoneIsNothing
<1>2. \A c \in Conversations : cur[c] # None => Saved(cur[c]) /\ drain[cur[c]] = None
  BY <1>1 DEF Saved, Consistent, Drains
<1>3. \A c, d \in Conversations : cur[c] # None /\ cur[c] = cur[d] => c = d
  BY <1>1 DEF Consistent, OneRow
<1>4. \A s \in Sessions : Bound(s) => Saved(s)
  BY <1>2, NoneIsNothing DEF Bound, Owner
<1> QED BY <1>1, <1>2, <1>3, <1>4

\* Binding a session keeps the tables consistent. It causes at most one unsubscribe, of
\* the session that was saved for the conversation.
LEMMA BindTables ==
    ASSUME Consistent, NEW c \in Conversations, NEW s \in Sessions, NEW k,
           BindSubscribed(c, s, k)
    PROVE  /\ Consistent'
           /\ \A t \in Sessions : Saved(t)' =>
                 t = s \/ (Saved(t) /\ ~(row[c] # None /\ row[c].s = t))
           /\ Saved(s)'
           /\ \/ cl' = k
              \/ \E t \in Sessions : t # s /\ row[c] # None /\ row[c].s = t /\ cl' = Enqueue(k, t)
<1> DEFINE e == dbEpoch[c] + 1
           active == cur[c] \in turns
<1>1. /\ dbEpoch' = [dbEpoch EXCEPT ![c] = e]
      /\ row' = RowsAttached(c, s) /\ AttachAtEpoch(c, s, active, e)
  BY DEF BindSubscribed, SaveBinding
<1>2. e \in Nat /\ dbEpoch'[c] = e /\ \A x \in Conversations : x # c => dbEpoch'[x] = dbEpoch[x]
  BY <1>1 DEF Consistent, TablesTyped
<1>3. [s |-> s, epoch |-> e] \in Rows /\ [s |-> s, epoch |-> e] # None
  BY <1>2, NoneIsNothing DEF Rows
<1>4. /\ row'[c] = [s |-> s, epoch |-> e]
      /\ \A x \in Conversations : x # c =>
            row'[x] = IF row[x] # None /\ row[x].s = s THEN None ELSE row[x]
  BY <1>1 DEF RowsAttached
<1>5. /\ cur'[c] = s /\ epoch'[c] = e
      /\ \A x \in Conversations : x # c => epoch'[x] = epoch[x]
      /\ \A x \in Conversations : x # c =>
            cur'[x] = IF cur[x] = s THEN None ELSE cur[x]
  BY <1>1 DEF AttachAtEpoch, Consistent, TablesTyped
<1>6. TablesTyped'
  <2>1. row' \in [Conversations -> Rows \cup {None}]
    BY <1>1, <1>3 DEF RowsAttached, Consistent, TablesTyped
  <2>2. cur' \in [Conversations -> Sessions \cup {None}] /\ epoch' \in [Conversations -> Nat]
    BY <1>1, <1>2 DEF AttachAtEpoch, Consistent, TablesTyped
  <2>3. drain' \in [Sessions -> Conversations \cup {None}]
    BY <1>1 DEF AttachAtEpoch, Consistent, TablesTyped
  <2> QED BY <1>1, <1>2, <2>1, <2>2, <2>3 DEF Consistent, TablesTyped
<1>7. OneRow'
  BY <1>3, <1>4 DEF Consistent, OneRow
<1>8. Agree'
  <2>1. ASSUME NEW x \in Conversations, x # c, cur'[x] # None
        PROVE  row'[x] = [s |-> cur'[x], epoch |-> epoch'[x]]
    BY <1>4, <1>5, <2>1, Shown DEF Consistent, Agree
  <2>2. ASSUME NEW x \in Conversations, x # c, row'[x] # None
        PROVE  row'[x].epoch = dbEpoch'[x]
    BY <1>2, <1>4, <2>2 DEF Consistent, Agree
  <2>3. /\ row'[c] = [s |-> cur'[c], epoch |-> epoch'[c]]
        /\ row'[c].epoch = dbEpoch'[c]
    BY <1>2, <1>4, <1>5
  <2> QED BY <2>1, <2>2, <2>3 DEF Agree
<1>9. \A t \in Sessions : Saved(t)' =>
         t = s \/ (Saved(t) /\ ~(row[c] # None /\ row[c].s = t))
  BY <1>3, <1>4 DEF Saved, Consistent, OneRow
<1>10. Saved(s)'
  BY <1>3, <1>4 DEF Saved
<1>11. Drains'
  <2> SUFFICES ASSUME NEW t \in Sessions, drain'[t] # None PROVE ~Saved(t)'
    BY DEF Drains
  <2>1. drain' = [x \in Sessions |->
                    CASE cur[c] = s -> drain[x]
                      [] cur[c] # s /\ x = s -> None
                      [] cur[c] # s /\ x # s /\ x = cur[c] -> IF active THEN c ELSE None
                      [] OTHER -> drain[x]]
    BY <1>1 DEF AttachAtEpoch
  <2>2. CASE cur[c] = s
    <3>1. drain'[t] = drain[t] /\ cur[c] # None
      BY <2>1, <2>2, NoneIsNothing
    <3>2. ~Saved(t) /\ Saved(s)
      BY <2>2, <3>1, Shown DEF Consistent, Drains
    <3> QED BY <1>9, <3>2
  <2>3. CASE cur[c] # s /\ t = cur[c]
    <3>1. row[c] # None /\ row[c].s = t
      BY <2>3, Shown, NoneIsNothing
    <3> QED BY <1>9, <2>3, <3>1
  <2>4. CASE cur[c] # s /\ t # cur[c]
    <3>1. t # s /\ drain'[t] = drain[t]
      BY <2>1, <2>4
    <3> QED BY <1>9, <3>1 DEF Consistent, Drains
  <2> QED BY <2>2, <2>3, <2>4
<1>12. \/ cl' = k
       \/ \E t \in Sessions : t # s /\ row[c] # None /\ row[c].s = t /\ cl' = Enqueue(k, t)
  <2>1. row[c] # None => row[c].s \in Sessions
    BY DEF Consistent, TablesTyped, Rows
  <2>2. cur[c] # None => row[c] # None /\ row[c].s = cur[c]
    BY Shown
  <2> QED BY <2>1, <2>2 DEF BindSubscribed
<1> QED BY <1>6, <1>7, <1>8, <1>9, <1>10, <1>11, <1>12 DEF Consistent

LEMMA BindSound ==
    ASSUME Consistent, NEW c \in Conversations, NEW s \in Sessions, NEW k \in Cleanup, NEW f,
           Sound(k, f), FreeIds(k) # {}, BindSubscribed(c, s, k)
    PROVE  /\ Sound(cl', f) /\ cl' \in Cleanup
           /\ \A t \in Sessions : Saved(t)' => Cleaning(cl', t) = Cleaning(k, t)
<1>1. CASE cl' = k
  BY <1>1
<1>2. ASSUME NEW t \in Sessions, t # s, row[c] # None, row[c].s = t, cl' = Enqueue(k, t)
      PROVE  /\ Sound(cl', f) /\ cl' \in Cleanup
             /\ \A r \in Sessions : Saved(r)' => Cleaning(cl', r) = Cleaning(k, r)
  <2>1. Sound(cl', f) /\ cl' \in Cleanup
    BY <1>2, EnqueueSound
  <2>2. ~Saved(t)'
    BY <1>2, BindTables
  <2>3. \A r \in Sessions : r # t => Cleaning(cl', r) = Cleaning(k, r)
    BY <1>2, OthersCleaning
  <2> QED BY <2>1, <2>2, <2>3
<1> QED BY <1>1, <1>2, BindTables

LEMMA TablesStay ==
    ASSUME Consistent, UNCHANGED <<tableVars, dbVars>>
    PROVE  Consistent' /\ \A s : Saved(s)' = Saved(s)
BY DEF Consistent, TablesTyped, OneRow, Agree, Drains, Saved, tableVars, dbVars

\* Neither an attachment that is prepared nor one that is deferred unsubscribes anything.
LEMMA SameCleaning ==
    ASSUME NEW k \in Cleanup, NEW r \in Requests, NEW t
    PROVE  /\ Cleaning(Prepare(k, r), t) = Cleaning(k, t)
           /\ Cleaning(Defer(k, r), t) = Cleaning(k, t)
<1>1. Cleaning(Defer(k, r), t) = Cleaning(k, t)
  BY DeferParts DEF Cleaning
<1>2. Cleaning(Prepare(k, r), t) = Cleaning(k, t)
  <2>1. CASE Prepare(k, r) = k
    BY <2>1
  <2>2. ASSUME NEW w, NewPreparation(w, r), Prepare(k, r).workers = k.workers \cup {w}
        PROVE  Cleaning(Prepare(k, r), t) = Cleaning(k, t)
    BY <2>2 DEF NewPreparation, Cleaning
  <2> QED BY <2>1, <2>2, PrepareParts
<1> QED BY <1>1, <1>2

----------------------------------------------------------------------------
\* The steps of users.

LEMMA AttachStep ==
    ASSUME Bindings, NEW c \in Conversations, NEW s \in Sessions, Attach(c, s)
    PROVE  Bindings'
<1>1. PICK k : k = CancelSession(Cancel(cl, c), s)
  OBVIOUS
<1>2. Fewer(Cancel(cl, c), cl) /\ Sound(Cancel(cl, c), follow) /\ Cancel(cl, c) \in Cleanup
  BY CancelParts, FewerSound DEF Bindings, Fewer
<1>3. Fewer(k, Cancel(cl, c)) /\ Sound(k, follow) /\ k \in Cleanup /\ ~Targeted(k, s)
  BY <1>1, <1>2, CancelSessionParts, FewerSound DEF Fewer
<1>4. \A t : Cleaning(k, t) = Cleaning(cl, t)
  BY <1>2, <1>3 DEF Fewer, Cleaning
<1>5. /\ FreeIds(k) # {}
      /\ cl' = IF cur[c] = s THEN k
               ELSE IF Cleaning(k, s) # {} THEN DeferCleanup(k, c, s)
               ELSE BeginAttachment(k, c, s)
      /\ UNCHANGED <<tableVars, dbVars, hostVars, turns, generation, up, faults, historyVars>>
      /\ up
  BY <1>1 DEF Attach, Ask
<1>6. \A p \in BOOLEAN :
         LET r == Request(c, s, epoch[c], generation, p, FreshId(k))
         IN  r \in Requests /\ r.s = s /\ r.prepared = p /\ Clear(k, r)
  <2> SUFFICES ASSUME NEW p \in BOOLEAN,
                      NEW r, r = Request(c, s, epoch[c], generation, p, FreshId(k))
               PROVE  r \in Requests /\ r.s = s /\ r.prepared = p /\ Clear(k, r)
    OBVIOUS
  <2>1. r \in Requests /\ r.s = s /\ r.prepared = p /\ r.id = FreshId(k)
    BY <1>5, Fresh DEF Request, Requests, Bindings, Consistent, TablesTyped, HostTyped
  <2>2. \A d \in Conversations : k.attachments[d] # None => k.attachments[d].s # s
    BY <1>3 DEF Targeted, Attachments
  <2> QED BY <1>5, <2>1, <2>2, Fresh DEF Clear
<1>7. Sound(cl', follow) /\ cl' \in Cleanup
  BY <1>3, <1>5, <1>6, PrepareSound, DeferSound DEF DeferCleanup, BeginAttachment
<1>8. \A t : Cleaning(cl', t) = Cleaning(cl, t)
  BY <1>3, <1>4, <1>5, <1>6, SameCleaning DEF DeferCleanup, BeginAttachment
<1> QED BY <1>5, <1>7, <1>8, TablesStay
        DEF Bindings, HostTyped, Kept, Down, hostVars, historyVars

LEMMA DetachStep ==
    ASSUME Bindings, NEW c \in Conversations, Detach(c)
    PROVE  Bindings'
<1>1. PICK k : k = Cancel(cl, c)
  OBVIOUS
<1>2. Fewer(k, cl) /\ Sound(k, follow) /\ k \in Cleanup
  BY <1>1, CancelParts, FewerSound DEF Bindings, Fewer
<1>3. FreeIds(k) # {} /\ \A t : Cleaning(k, t) = Cleaning(cl, t)
  <2>1. IdsInUse(k) \subseteq IdsInUse(cl)
    BY <1>2 DEF Fewer, IdsInUse, Attachments
  <2> QED BY <1>2, <2>1 DEF Fewer, Cleaning, Detach, Room, FreeIds
<1>4. UNCHANGED <<hostVars, turns, generation, up, contested>> /\ up
  BY DEF Detach, Ask, historyVars
<1>5. CASE cur[c] = None
  <2>1. UNCHANGED <<tableVars, dbVars>> /\ cl' = k
    BY <1>1, <1>5 DEF Detach
  <2> QED BY <1>2, <1>3, <1>4, <2>1, TablesStay DEF Bindings, HostTyped, Kept, Down, hostVars
<1>6. CASE cur[c] # None
  <2>0. Consistent
    BY DEF Bindings
  <2>1. /\ row' = [row EXCEPT ![c] = None]
        /\ dbEpoch' = [dbEpoch EXCEPT ![c] = @ + 1]
        /\ cur' = [cur EXCEPT ![c] = None]
        /\ epoch' = [epoch EXCEPT ![c] = @ + 1]
        /\ IF cur[c] \in turns
           THEN drain' = [drain EXCEPT ![cur[c]] = c] /\ cl' = k
           ELSE drain' = drain /\ cl' = Enqueue(k, cur[c])
    BY <1>1, <1>6 DEF Detach, DeleteBinding
  <2>2. row[c] # None /\ row[c].s = cur[c] /\ cur[c] \in Sessions
    BY <1>6, <2>0, Shown
  <2>3. \A t \in Sessions : Saved(t)' => Saved(t) /\ t # cur[c]
    BY <2>0, <2>1, <2>2 DEF Saved, Consistent, OneRow, TablesTyped
  <2>4. Consistent'
    <3>1. TablesTyped'
      BY <2>0, <2>1, <2>2 DEF Consistent, TablesTyped
    <3>2. OneRow' /\ Agree'
      BY <2>0, <2>1 DEF Consistent, TablesTyped, OneRow, Agree
    <3>3. Drains'
      BY <2>0, <2>1, <2>2, <2>3 DEF Consistent, TablesTyped, Drains
    <3> QED BY <3>1, <3>2, <3>3 DEF Consistent
  <2>5. Sound(cl', follow) /\ cl' \in Cleanup
    BY <1>2, <1>3, <2>1, <2>2, EnqueueSound
  <2>6. \A t \in Sessions : t # cur[c] => Cleaning(cl', t) = Cleaning(cl, t)
    BY <1>2, <1>3, <2>1, <2>2, OthersCleaning
  <2> QED BY <1>4, <2>3, <2>4, <2>5, <2>6 DEF Bindings, HostTyped, Kept, Down, hostVars
<1> QED BY <1>5, <1>6

\* The replacement is a session nobody knew: it is subscribed before it is bound.
LEMMA ReplaceStep ==
    ASSUME Bindings, NEW c \in Conversations, NEW s \in Sessions, Replace(c, s)
    PROVE  Bindings'
<1>1. /\ up /\ FreeIds(cl) # {}
      /\ ~Targeted(cl, s) /\ \A w \in cl.workers : w.s # s
      /\ \A p \in cl.results : p.request.s # s
      /\ follow' = [follow EXCEPT ![s] = "live"]
      /\ running' = running \cup {s}
      /\ BindSubscribed(c, s, cl)
      /\ UNCHANGED <<turns, events, generation, up, contested>>
  BY DEF Replace, Ask, Room, historyVars
<1>2. Sound(cl, follow')
  <2>1. \A d \in Conversations : cl.attachments[d] # None => cl.attachments[d].s # s
    BY <1>1 DEF Targeted, Attachments
  <2>2. \A t : t # s => follow'[t] = follow[t]
    BY <1>1 DEF Bindings, HostTyped
  <2> QED BY <1>1, <2>1, <2>2 DEF Bindings, Sound, Subscribed, Dropped
<1>3. /\ Sound(cl', follow') /\ cl' \in Cleanup
      /\ \A t \in Sessions : Saved(t)' => Cleaning(cl', t) = Cleaning(cl, t)
  BY <1>1, <1>2, BindSound DEF Bindings
<1>4. Consistent' /\ \A t \in Sessions : Saved(t)' => t = s \/ Saved(t)
  BY <1>1, BindTables DEF Bindings
<1>5. Cleaning(cl, s) = {} /\ follow'[s] = "live"
  BY <1>1 DEF Cleaning, Bindings, HostTyped
<1>6. Kept'
  BY <1>1, <1>3, <1>4, <1>5 DEF Bindings, Kept, HostTyped
<1>7. HostTyped'
  BY <1>1 DEF Bindings, HostTyped
<1> QED BY <1>1, <1>3, <1>4, <1>6, <1>7 DEF Bindings, Down

----------------------------------------------------------------------------
\* The steps of workers.

LEMMA FinishParts ==
    ASSUME NEW k \in Cleanup, NEW w \in k.workers
    PROVE  /\ Finish(k, w) \in Cleanup
           /\ Finish(k, w).attachments = k.attachments
           /\ Finish(k, w).retries = k.retries /\ Finish(k, w).results = k.results
           /\ \A v \in Finish(k, w).workers : \E u \in k.workers \ {w} :
                 v = [u EXCEPT !.waits = @ \ {w.id}]
           /\ \A u \in k.workers \ {w} : [u EXCEPT !.waits = @ \ {w.id}] \in Finish(k, w).workers
<1>1. \A u \in k.workers : [u EXCEPT !.waits = @ \ {w.id}] \in WorkerRecords
  BY DEF Cleanup, WorkerRecords
<1>2. Finish(k, w).workers = {[v EXCEPT !.waits = @ \ {w.id}] : v \in k.workers \ {w}}
  BY DEF Finish, Cleanup
<1> QED BY <1>1, <1>2 DEF Finish, Cleanup

\* Nobody but the worker itself disappears when it ends.
LEMMA FinishQueue ==
    ASSUME NEW k \in Cleanup, NEW w \in k.workers, Queue(k)
    PROVE  /\ Queue(Finish(k, w))
           /\ \A v \in Finish(k, w).workers : \E u \in k.workers \ {w} :
                 /\ v.id = u.id /\ v.kind = u.kind /\ v.s = u.s /\ v.stage = u.stage
                 /\ v.request = u.request
           /\ \A u \in k.workers \ {w} : \E v \in Finish(k, w).workers :
                 /\ v.id = u.id /\ v.kind = u.kind /\ v.s = u.s /\ v.stage = u.stage
                 /\ v.request = u.request
<1> DEFINE j == Finish(k, w)
<1>0. \A u \in k.workers : u \in WorkerRecords
  BY DEF Cleanup
<1>1. \A v \in j.workers : \E u \in k.workers \ {w} :
         /\ v = [u EXCEPT !.waits = @ \ {w.id}]
         /\ v.id = u.id /\ v.kind = u.kind /\ v.s = u.s /\ v.stage = u.stage
         /\ v.request = u.request /\ v.waits = u.waits \ {w.id}
  BY <1>0, FinishParts DEF WorkerRecords
<1>2. \A u \in k.workers \ {w} : \E v \in j.workers :
         /\ v.id = u.id /\ v.kind = u.kind /\ v.s = u.s /\ v.stage = u.stage
         /\ v.request = u.request
  <2> SUFFICES ASSUME NEW u \in k.workers \ {w}
               PROVE  \E v \in j.workers :
                         /\ v.id = u.id /\ v.kind = u.kind /\ v.s = u.s /\ v.stage = u.stage
                         /\ v.request = u.request
    OBVIOUS
  <2>1. PICK v : v = [u EXCEPT !.waits = @ \ {w.id}]
    OBVIOUS
  <2>2. v \in j.workers
    BY <2>1, FinishParts
  <2>3. /\ v.id = u.id /\ v.kind = u.kind /\ v.s = u.s /\ v.stage = u.stage
        /\ v.request = u.request
    BY <1>0, <2>1 DEF WorkerRecords
  <2> QED BY <2>2, <2>3
<1> HIDE DEF j
<1>3. Shaped(j)
  BY <1>1 DEF Queue, Shaped
<1>4. Distinct(j)
  <2> SUFFICES ASSUME NEW v \in j.workers, NEW x \in j.workers, v.id = x.id PROVE v = x
    BY DEF Distinct
  <2>1. PICK u \in k.workers \ {w} : v = [u EXCEPT !.waits = @ \ {w.id}] /\ v.id = u.id
    BY <1>1
  <2>2. PICK y \in k.workers \ {w} : x = [y EXCEPT !.waits = @ \ {w.id}] /\ x.id = y.id
    BY <1>1
  <2>3. u = y
    BY <2>1, <2>2 DEF Queue, Distinct
  <2> QED BY <2>1, <2>2, <2>3
<1>5. OneCleanup(j)
  <2> SUFFICES ASSUME NEW v \in j.workers, NEW x \in j.workers,
                      v.kind = "cleanup", x.kind = "cleanup", v.s = x.s
               PROVE  v = x
    BY DEF OneCleanup
  <2>1. PICK u \in k.workers \ {w} : v.id = u.id /\ v.kind = u.kind /\ v.s = u.s
    BY <1>1
  <2>2. PICK y \in k.workers \ {w} : x.id = y.id /\ x.kind = y.kind /\ x.s = y.s
    BY <1>1
  <2>3. u = y
    BY <2>1, <2>2 DEF Queue, OneCleanup
  <2> QED BY <1>4, <2>1, <2>2, <2>3 DEF Distinct
<1>6. Ordered(j)
  BY <1>1 DEF Queue, Ordered, Distinct
<1> QED BY <1>1, <1>2, <1>3, <1>4, <1>5, <1>6 DEF Queue, j

LEMMA SubscribeStep ==
    ASSUME Bindings, NEW w, Subscribe(w)
    PROVE  Bindings'
<1>1. /\ up /\ w \in cl.workers /\ w.kind = "prepare" /\ w.stage = "wait"
      /\ UNCHANGED <<tableVars, dbVars, running, events, turns, generation, up, contested>>
  BY DEF Subscribe, Preparing, historyVars
<1>2. PICK x \in {"ok", "failed"} :
         cl' = [cl EXCEPT !.workers = (@ \ {w}) \cup {[w EXCEPT !.stage = x]}]
  BY DEF Subscribe
<1>3. PICK y \in {"live", "exited"} : follow' = [follow EXCEPT ![w.s] = y]
  BY DEF Subscribe
<1>4. w \in WorkerRecords /\ w.s \in Sessions
  BY <1>1 DEF Bindings, Cleanup, WorkerRecords
<1>5. PICK v : v = [w EXCEPT !.stage = x]
  OBVIOUS
<1>6. /\ v \in WorkerRecords /\ v.stage = x
      /\ v.id = w.id /\ v.kind = w.kind /\ v.request = w.request /\ v.s = w.s /\ v.waits = w.waits
  BY <1>4, <1>5 DEF WorkerRecords
<1>7. /\ cl' \in Cleanup /\ cl'.workers = (cl.workers \ {w}) \cup {v}
      /\ cl'.attachments = cl.attachments /\ cl'.retries = cl.retries /\ cl'.results = cl.results
  BY <1>2, <1>5, <1>6 DEF Bindings, Cleanup
<1>8. follow'[w.s] # "off" /\ \A t : t # w.s => follow'[t] = follow[t]
  BY <1>3, <1>4 DEF Bindings, HostTyped
<1>9. Queue(cl')
  BY <1>1, <1>6, <1>7 DEF Bindings, Sound, Queue, Shaped, Distinct, OneCleanup, Ordered
<1>10. \A t : Cleaning(cl', t) = Cleaning(cl, t)
  BY <1>1, <1>6, <1>7 DEF Cleaning
<1>11. Attaching(cl')
  <2>1. Named(cl') /\ Wanted(cl') /\ Retried(cl')
    BY <1>7 DEF Bindings, Sound, Attaching, Named, Wanted, Retried
  <2>2. \A r : UnderWay(cl, r) => UnderWay(cl', r)
    BY <1>1, <1>6, <1>7 DEF UnderWay
  <2>3. Promised(cl')
    BY <1>1, <1>6, <1>7, <1>10, <2>2 DEF Bindings, Sound, Attaching, Promised
  <2> QED BY <2>1, <2>3 DEF Attaching
<1>12. Subscribed(cl', follow')
  <2>1. \A u \in cl.workers : u.kind = "cleanup" /\ u.stage = "done" => u.s # w.s
    BY <1>1 DEF Bindings, Sound, Queue, Shaped, Ordered
  <2> QED BY <1>1, <1>6, <1>7, <1>8, <2>1 DEF Bindings, Sound, Subscribed
<1>13. Dropped(cl', follow')
  BY <1>1, <1>6, <1>7, <1>8, <1>10 DEF Bindings, Sound, Dropped
<1>14. HostTyped'
  BY <1>1, <1>3, <1>4 DEF Bindings, HostTyped
<1>15. Kept'
  BY <1>1, <1>8, <1>10, TablesStay DEF Bindings, Kept
<1> QED BY <1>1, <1>7, <1>9, <1>11, <1>12, <1>13, <1>14, <1>15, TablesStay
        DEF Bindings, Sound, Down

\* A preparation that ends leaves its result to the dispatch queue.
LEMMA PostStep ==
    ASSUME Bindings, NEW w, Post(w)
    PROVE  Bindings'
<1>1. /\ up /\ w \in cl.workers /\ w.kind = "prepare" /\ w.stage \in {"ok", "failed"}
      /\ UNCHANGED <<tableVars, dbVars, hostVars, turns, generation, up, contested>>
      /\ cl' = [Finish(cl, w) EXCEPT !.results =
                   @ \cup {[request |-> w.request, ok |-> w.stage = "ok"]}]
  BY DEF Post, Preparing, historyVars
<1>2. PICK p : p = [request |-> w.request, ok |-> w.stage = "ok"]
  OBVIOUS
<1>3. /\ w.request \in Requests /\ w.request.prepared
      /\ w.request.s = w.s /\ w.request.id = w.id
  BY <1>1 DEF Bindings, Sound, Queue, Shaped
<1>4. p \in Results /\ p.request = w.request /\ p.ok = (w.stage = "ok")
  BY <1>2, <1>3 DEF Results
<1>5. PICK k : k = Finish(cl, w)
  OBVIOUS
<1>6. /\ k \in Cleanup /\ k.attachments = cl.attachments /\ k.retries = cl.retries
      /\ k.results = cl.results
  BY <1>1, <1>5, FinishParts DEF Bindings
<1>7. /\ cl' \in Cleanup /\ cl'.attachments = cl.attachments /\ cl'.retries = cl.retries
      /\ cl'.workers = k.workers /\ cl'.results = cl.results \cup {p}
  BY <1>1, <1>2, <1>4, <1>5, <1>6 DEF Cleanup
<1>8. Queue(k)
  BY <1>1, <1>5, FinishQueue DEF Bindings, Sound
<1>9. /\ \A v \in k.workers : \E u \in cl.workers \ {w} :
            /\ v.id = u.id /\ v.kind = u.kind /\ v.s = u.s /\ v.stage = u.stage
            /\ v.request = u.request
      /\ \A u \in cl.workers \ {w} : \E v \in k.workers :
            /\ v.id = u.id /\ v.kind = u.kind /\ v.s = u.s /\ v.stage = u.stage
            /\ v.request = u.request
  BY <1>1, <1>5, FinishQueue DEF Bindings, Sound
<1>10. Queue(cl')
  BY <1>7, <1>8 DEF Queue, Shaped, Distinct, OneCleanup, Ordered
<1>11. \A t : Cleaning(cl', t) = {} <=> Cleaning(cl, t) = {}
  BY <1>1, <1>7, <1>9 DEF Cleaning
<1>12. Attaching(cl')
  <2>1. Named(cl') /\ Wanted(cl') /\ Retried(cl')
    BY <1>7 DEF Bindings, Sound, Attaching, Named, Wanted, Retried
  <2>2. \A r : UnderWay(cl, r) => UnderWay(cl', r)
    <3> SUFFICES ASSUME NEW r, UnderWay(cl, r) PROVE UnderWay(cl', r)
      OBVIOUS
    <3>1. CASE \E q \in cl.results : q.request = r
      BY <3>1, <1>7 DEF UnderWay
    <3>2. CASE r = w.request
      BY <3>2, <1>4, <1>7 DEF UnderWay
    <3>3. ASSUME NEW u \in cl.workers \ {w}, u.kind = "prepare", u.request = r
          PROVE  UnderWay(cl', r)
      BY <3>3, <1>7, <1>9 DEF UnderWay
    <3> QED BY <3>1, <3>2, <3>3 DEF UnderWay
  <2>3. Promised(cl')
    <3>1. ASSUME NEW c \in Conversations, cl.attachments[c] # None, cl.attachments[c].prepared
          PROVE  UnderWay(cl', cl.attachments[c]) /\ Cleaning(cl', cl.attachments[c].s) = {}
      BY <1>11, <2>2, <3>1 DEF Bindings, Sound, Attaching, Promised
    <3>2. ASSUME NEW c \in Conversations, cl.attachments[c] # None, ~cl.attachments[c].prepared
          PROVE  /\ \A v \in cl'.workers : v.id # cl.attachments[c].id
                 /\ \A q \in cl'.results : q.request.id # cl.attachments[c].id
      BY <1>1, <1>3, <1>4, <1>7, <1>9, <3>2 DEF Bindings, Sound, Attaching, Promised
    <3> QED BY <1>7, <3>1, <3>2 DEF Promised
  <2> QED BY <2>1, <2>3 DEF Attaching
<1>13. Subscribed(cl', follow)
  <2>1. /\ w.stage = "ok" /\ cl.attachments[w.request.c] = w.request => follow[w.s] # "off"
    BY <1>1 DEF Bindings, Sound, Subscribed
  <2>2. \A q \in cl'.results :
           q.ok /\ cl'.attachments[q.request.c] = q.request => follow[q.request.s] # "off"
    <3> SUFFICES ASSUME NEW q \in cl'.results, q.ok, cl.attachments[q.request.c] = q.request
                 PROVE  follow[q.request.s] # "off"
      BY <1>7
    <3>1. CASE q \in cl.results
      BY <3>1 DEF Bindings, Sound, Subscribed
    <3>2. CASE q = p
      <4>1. w.stage = "ok"
        BY <1>4, <3>2
      <4> QED BY <1>3, <1>4, <2>1, <3>2, <4>1
    <3> QED BY <1>7, <3>1, <3>2
  <2>3. \A v \in cl'.workers :
          /\ v.kind = "prepare" /\ v.stage = "ok" /\ cl'.attachments[v.request.c] = v.request
                => follow[v.s] # "off"
          /\ v.kind = "cleanup" /\ v.stage = "done" => follow[v.s] = "off"
    BY <1>7, <1>9 DEF Bindings, Sound, Subscribed
  <2> QED BY <2>2, <2>3 DEF Subscribed
<1>14. Dropped(cl', follow)
  BY <1>7, <1>9, <1>11 DEF Bindings, Sound, Dropped
<1> QED BY <1>1, <1>7, <1>10, <1>11, <1>12, <1>13, <1>14, TablesStay
        DEF Bindings, Sound, HostTyped, Kept, Down, hostVars

\* Only a session that nobody is shown and nobody saved, or one that was given up, is
\* unsubscribed.
LEMMA UnsubscribeStep ==
    ASSUME Bindings, NEW w, Unsubscribe(w)
    PROVE  Bindings'
<1>1. /\ up /\ w \in cl.workers /\ w.kind = "cleanup" /\ w.stage = "wait" /\ w.waits = {}
      /\ follow' = [follow EXCEPT ![w.s] = "off"]
      /\ cl' = [cl EXCEPT !.workers = (@ \ {w}) \cup {[w EXCEPT !.stage = "done"]}]
      /\ UNCHANGED <<tableVars, dbVars, running, events, turns, generation, up, contested>>
  BY DEF Unsubscribe
<1>2. w \in WorkerRecords /\ w.s \in Sessions
  BY <1>1 DEF Bindings, Cleanup, WorkerRecords
<1>3. PICK v : v = [w EXCEPT !.stage = "done"]
  OBVIOUS
<1>4. /\ v \in WorkerRecords /\ v.stage = "done"
      /\ v.id = w.id /\ v.kind = w.kind /\ v.request = w.request /\ v.s = w.s /\ v.waits = w.waits
  BY <1>2, <1>3 DEF WorkerRecords
<1>5. /\ cl' \in Cleanup /\ cl'.workers = (cl.workers \ {w}) \cup {v}
      /\ cl'.attachments = cl.attachments /\ cl'.retries = cl.retries /\ cl'.results = cl.results
  BY <1>1, <1>3, <1>4 DEF Bindings, Cleanup
<1>6. follow'[w.s] = "off" /\ \A t : t # w.s => follow'[t] = follow[t]
  BY <1>1, <1>2 DEF Bindings, HostTyped
<1>7. Queue(cl')
  BY <1>1, <1>4, <1>5 DEF Bindings, Sound, Queue, Shaped, Distinct, OneCleanup, Ordered
<1>8. \A t : Cleaning(cl', t) = {} <=> Cleaning(cl, t) = {}
  BY <1>1, <1>4, <1>5 DEF Cleaning
<1>9. Cleaning(cl, w.s) # {}
  BY <1>1 DEF Cleaning
<1>10. Attaching(cl')
  <2>1. Named(cl') /\ Wanted(cl') /\ Retried(cl')
    BY <1>5 DEF Bindings, Sound, Attaching, Named, Wanted, Retried
  <2>2. \A r : UnderWay(cl, r) => UnderWay(cl', r)
    BY <1>1, <1>4, <1>5 DEF UnderWay
  <2>3. Promised(cl')
    <3>1. ASSUME NEW c \in Conversations, cl.attachments[c] # None, cl.attachments[c].prepared
          PROVE  UnderWay(cl', cl.attachments[c]) /\ Cleaning(cl', cl.attachments[c].s) = {}
      BY <1>8, <2>2, <3>1 DEF Bindings, Sound, Attaching, Promised
    <3>2. ASSUME NEW c \in Conversations, cl.attachments[c] # None, ~cl.attachments[c].prepared
          PROVE  /\ \A u \in cl'.workers : u.id # cl.attachments[c].id
                 /\ \A q \in cl'.results : q.request.id # cl.attachments[c].id
      BY <1>1, <1>4, <1>5, <3>2 DEF Bindings, Sound, Attaching, Promised
    <3> QED BY <1>5, <3>1, <3>2 DEF Promised
  <2> QED BY <2>1, <2>3 DEF Attaching
<1>11. Subscribed(cl', follow')
  \* no preparation of the session is there, and no attachment of it is current
  <2>1. \A u \in cl.workers : u.kind = "prepare" => u.s # w.s
    BY <1>1 DEF Bindings, Sound, Queue, Ordered
  <2>2. ASSUME NEW p \in cl.results, p.ok, cl.attachments[p.request.c] = p.request
        PROVE  p.request.s # w.s
    <3>1. p.request \in Requests /\ p.request.c \in Conversations /\ p.request # None
      BY NoneIsNothing DEF Bindings, Cleanup, Results, Requests
    <3>2. p.request.prepared
      BY <2>2, <3>1 DEF Bindings, Sound, Attaching, Promised
    <3> QED BY <1>9, <2>2, <3>1, <3>2 DEF Bindings, Sound, Attaching, Promised
  <2> QED BY <1>1, <1>4, <1>5, <1>6, <2>1, <2>2 DEF Bindings, Sound, Subscribed
<1>12. Dropped(cl', follow')
  <2> SUFFICES ASSUME NEW c \in Conversations, cl.attachments[c] # None,
                      ~cl.attachments[c].prepared, Cleaning(cl', cl.attachments[c].s) = {}
               PROVE  /\ follow'[cl.attachments[c].s] = "off"
                      /\ \A u \in cl'.workers : u.s # cl.attachments[c].s
    BY <1>5 DEF Dropped
  <2>1. /\ follow[cl.attachments[c].s] = "off"
        /\ \A u \in cl.workers : u.s # cl.attachments[c].s
    BY <1>8 DEF Bindings, Sound, Dropped
  <2> QED BY <1>1, <1>4, <1>5, <1>6, <2>1
<1>13. HostTyped'
  BY <1>1, <1>2 DEF Bindings, HostTyped
<1>14. Kept'
  BY <1>1, <1>6, <1>8, <1>9, TablesStay DEF Bindings, Kept
<1> QED BY <1>1, <1>5, <1>7, <1>10, <1>11, <1>12, <1>13, <1>14, TablesStay
        DEF Bindings, Sound, Down

LEMMA FinishCleanupStep ==
    ASSUME Bindings, NEW w, FinishCleanup(w)
    PROVE  Bindings'
<1>1. /\ up /\ w \in cl.workers /\ w.kind = "cleanup" /\ w.stage = "done"
      /\ cl' = [Finish(cl, w) EXCEPT !.retries = @ \cup Woken(cl, w.s)]
      /\ UNCHANGED <<tableVars, dbVars, hostVars, turns, generation, up, contested>>
  BY DEF FinishCleanup, historyVars
<1>2. Woken(cl, w.s) \subseteq Requests /\ \A r \in Woken(cl, w.s) : ~r.prepared
  BY DEF Woken, Attachments, Bindings, Cleanup
<1>3. PICK k : k = Finish(cl, w)
  OBVIOUS
<1>4. /\ k \in Cleanup /\ k.attachments = cl.attachments /\ k.retries = cl.retries
      /\ k.results = cl.results
  BY <1>1, <1>3, FinishParts DEF Bindings
<1>5. /\ cl' \in Cleanup /\ cl'.attachments = cl.attachments
      /\ cl'.retries = cl.retries \cup Woken(cl, w.s)
      /\ cl'.workers = k.workers /\ cl'.results = cl.results
  BY <1>1, <1>2, <1>3, <1>4 DEF Cleanup
<1>6. /\ Queue(k)
      /\ \A v \in k.workers : \E u \in cl.workers \ {w} :
            /\ v.id = u.id /\ v.kind = u.kind /\ v.s = u.s /\ v.stage = u.stage
            /\ v.request = u.request
      /\ \A u \in cl.workers \ {w} : \E v \in k.workers :
            /\ v.id = u.id /\ v.kind = u.kind /\ v.s = u.s /\ v.stage = u.stage
            /\ v.request = u.request
  BY <1>1, <1>3, FinishQueue DEF Bindings, Sound
<1>7. Queue(cl')
  BY <1>5, <1>6 DEF Queue, Shaped, Distinct, OneCleanup, Ordered
<1>8. /\ \A t : Cleaning(cl, t) = {} => Cleaning(cl', t) = {}
      /\ \A t : t # w.s /\ Cleaning(cl', t) = {} => Cleaning(cl, t) = {}
  BY <1>1, <1>5, <1>6 DEF Cleaning
<1>9. Attaching(cl')
  <2>1. Named(cl') /\ Wanted(cl') /\ Retried(cl')
    BY <1>2, <1>5 DEF Bindings, Sound, Attaching, Named, Wanted, Retried
  <2>2. \A r : UnderWay(cl, r) => UnderWay(cl', r)
    <3> SUFFICES ASSUME NEW r, UnderWay(cl, r) PROVE UnderWay(cl', r)
      OBVIOUS
    <3>1. CASE \E q \in cl.results : q.request = r
      BY <3>1, <1>5 DEF UnderWay
    <3>2. ASSUME NEW u \in cl.workers, u.kind = "prepare", u.request = r
          PROVE  UnderWay(cl', r)
      BY <1>1, <3>2, <1>5, <1>6 DEF UnderWay
    <3> QED BY <3>1, <3>2 DEF UnderWay
  <2>3. Promised(cl')
    <3>1. ASSUME NEW c \in Conversations, cl.attachments[c] # None, cl.attachments[c].prepared
          PROVE  UnderWay(cl', cl.attachments[c]) /\ Cleaning(cl', cl.attachments[c].s) = {}
      BY <1>8, <2>2, <3>1 DEF Bindings, Sound, Attaching, Promised
    <3>2. ASSUME NEW c \in Conversations, cl.attachments[c] # None, ~cl.attachments[c].prepared
          PROVE  /\ \A v \in cl'.workers : v.id # cl.attachments[c].id
                 /\ \A q \in cl'.results : q.request.id # cl.attachments[c].id
      BY <1>5, <1>6, <3>2 DEF Bindings, Sound, Attaching, Promised
    <3> QED BY <1>5, <3>1, <3>2 DEF Promised
  <2> QED BY <2>1, <2>3 DEF Attaching
<1>10. Subscribed(cl', follow)
  BY <1>5, <1>6 DEF Bindings, Sound, Subscribed
<1>11. Dropped(cl', follow)
  \* when the unsubscribe of w.s ends, nothing of that session is left
  <2>1. \A u \in cl.workers : u.s = w.s => u = w
    <3>1. w.waits = {}
      BY <1>1 DEF Bindings, Sound, Queue, Shaped
    <3> QED BY <1>1, <3>1 DEF Bindings, Sound, Queue, OneCleanup, Ordered, Cleanup, WorkerRecords
  <2>2. follow[w.s] = "off" /\ \A v \in cl'.workers : v.s # w.s
    BY <1>1, <1>5, <1>6, <2>1 DEF Bindings, Sound, Subscribed
  <2> QED BY <1>5, <1>6, <1>8, <2>2 DEF Bindings, Sound, Dropped
<1> QED BY <1>1, <1>5, <1>7, <1>8, <1>9, <1>10, <1>11, TablesStay
        DEF Bindings, Sound, HostTyped, Kept, Down, hostVars

----------------------------------------------------------------------------
\* The results of workers.

\* An attachment is over: its result or its retry is taken, and it is forgotten.
Over(k, j, r) ==
    /\ j \in Cleanup /\ j.workers = k.workers
    /\ j.results \subseteq k.results /\ j.retries \subseteq k.retries
    /\ \A p \in k.results : p.request # r => p \in j.results
    /\ j.attachments = [k.attachments EXCEPT ![r.c] = IF @ = r THEN None ELSE @]

LEMMA OverSound ==
    ASSUME NEW k \in Cleanup, NEW f, NEW r \in Requests, NEW j, Sound(k, f), Over(k, j, r)
    PROVE  /\ Sound(j, f) /\ \A t : Cleaning(j, t) = Cleaning(k, t)
           /\ FreeIds(k) # {} => FreeIds(j) # {}
<1>1. r.c \in Conversations /\ r # None
  BY NoneIsNothing DEF Requests
<1>2. /\ \A c \in Conversations : j.attachments[c] # None => j.attachments[c] = k.attachments[c]
      /\ j.attachments[r.c] # r
  BY <1>1 DEF Over, Cleanup
<1>3. Queue(j)
  BY DEF Sound, Over, Queue, Shaped, Distinct, OneCleanup, Ordered
<1>4. \A t : Cleaning(j, t) = Cleaning(k, t)
  BY DEF Over, Cleaning
<1>5. Named(j) /\ Wanted(j) /\ Retried(j)
  BY <1>2 DEF Over, Sound, Attaching, Named, Wanted, Retried
<1>6. Promised(j)
  <2>1. ASSUME NEW c \in Conversations, j.attachments[c] # None, j.attachments[c].prepared
        PROVE  UnderWay(j, j.attachments[c]) /\ Cleaning(j, j.attachments[c].s) = {}
    <3>1. j.attachments[c] # r
      BY <1>2, <2>1 DEF Sound, Attaching, Named
    <3>2. UnderWay(k, j.attachments[c]) /\ Cleaning(k, j.attachments[c].s) = {}
      BY <1>2, <2>1 DEF Sound, Attaching, Promised
    <3> QED BY <1>4, <3>1, <3>2 DEF Over, UnderWay
  <2>2. ASSUME NEW c \in Conversations, j.attachments[c] # None, ~j.attachments[c].prepared
        PROVE  /\ \A u \in j.workers : u.id # j.attachments[c].id
               /\ \A q \in j.results : q.request.id # j.attachments[c].id
    BY <1>2, <2>2 DEF Over, Sound, Attaching, Promised
  <2> QED BY <2>1, <2>2 DEF Promised
<1>7. Subscribed(j, f)
  <2>1. \A w \in k.workers : w.kind = "prepare" => w.request \in Requests /\ w.request # None
    BY NoneIsNothing DEF Sound, Queue, Shaped
  <2>2. \A p \in k.results : p.request \in Requests /\ p.request # None
    BY NoneIsNothing DEF Cleanup, Results
  <2> QED BY <1>2, <2>1, <2>2 DEF Sound, Over, Subscribed, Requests
<1>8. Dropped(j, f)
  BY <1>2, <1>4 DEF Over, Sound, Dropped
<1>9. FreeIds(k) # {} => FreeIds(j) # {}
  <2>1. IdsInUse(j) \subseteq IdsInUse(k)
    BY <1>2 DEF Over, IdsInUse, Attachments
  <2> QED BY <2>1 DEF FreeIds
<1> QED BY <1>3, <1>4, <1>5, <1>6, <1>7, <1>8, <1>9 DEF Sound, Attaching

\* A binding is made from a preparation that is current, so the session is subscribed;
\* whatever else became of the preparation, a session that is shown stays subscribed.
LEMMA ApplyPreparedStep ==
    ASSUME Bindings, NEW p, ApplyPrepared(p)
    PROVE  Bindings'
<1>1. PICK r : r = p.request
  OBVIOUS
<1>2. PICK k : k = [cl EXCEPT !.results = @ \ {p},
                              !.attachments[r.c] = IF @ = r THEN None ELSE @]
  OBVIOUS
<1>3. /\ up /\ FreeIds(cl) # {} /\ p \in cl.results
      /\ UNCHANGED <<hostVars, turns, generation, up>>
  BY DEF ApplyPrepared, Room
<1>4. /\ r \in Requests /\ r.c \in Conversations /\ r.s \in Sessions /\ r # None
      /\ \A q \in cl.results : q.request # r => q # p
  BY <1>1, <1>3, NoneIsNothing DEF Bindings, Cleanup, Results, Requests
<1>5. Over(cl, k, r)
  BY <1>2, <1>4 DEF Bindings, Cleanup, Over
<1>6. /\ Sound(k, follow) /\ k \in Cleanup /\ FreeIds(k) # {}
      /\ \A t : Cleaning(k, t) = Cleaning(cl, t)
  BY <1>3, <1>4, <1>5, OverSound DEF Bindings, Over
<1>7. CASE StillCurrent(r) /\ p.ok
  <2>1. BindSubscribed(r.c, r.s, k) /\ UNCHANGED contested
    BY <1>1, <1>2, <1>7 DEF ApplyPrepared
  <2>2. cl.attachments[r.c] = r /\ r.prepared
    BY <1>1, <1>3, <1>4, <1>7 DEF StillCurrent, Bindings, Sound, Attaching, Promised
  <2>3. follow[r.s] # "off" /\ Cleaning(cl, r.s) = {}
    BY <1>1, <1>3, <1>4, <1>7, <2>2 DEF Bindings, Sound, Attaching, Promised, Subscribed
  <2>4. /\ Sound(cl', follow) /\ cl' \in Cleanup
        /\ \A t \in Sessions : Saved(t)' => Cleaning(cl', t) = Cleaning(k, t)
    BY <1>4, <1>6, <2>1, BindSound DEF Bindings
  <2>5. Consistent' /\ \A t \in Sessions : Saved(t)' => t = r.s \/ Saved(t)
    BY <1>4, <2>1, BindTables DEF Bindings
  <2>6. HostTyped'
    BY <1>3, <2>1 DEF Bindings, HostTyped, hostVars
  <2>7. Kept'
    <3> SUFFICES ASSUME NEW t \in Sessions, Saved(t)', t \notin contested
                 PROVE  follow[t] # "off" /\ Cleaning(cl', t) = {}
      BY <1>3, <2>1 DEF Kept, hostVars
    <3>1. Cleaning(cl', t) = Cleaning(cl, t)
      BY <1>6, <2>4
    <3>2. CASE t = r.s
      BY <2>3, <3>1, <3>2
    <3>3. CASE Saved(t)
      BY <1>3, <3>1, <3>3 DEF Bindings, Kept
    <3> QED BY <2>5, <3>2, <3>3
  <2> QED BY <1>3, <2>4, <2>5, <2>6, <2>7 DEF Bindings, Down, hostVars
<1>8. CASE ~(StillCurrent(r) /\ p.ok)
  <2>1. cl' = Release(k, r.s) /\ NoteRelease(r.s) /\ UNCHANGED <<tableVars, dbVars>>
    BY <1>1, <1>2, <1>8 DEF ApplyPrepared
  <2>2. Sound(cl', follow) /\ cl' \in Cleanup
    BY <1>4, <1>6, <2>1, EnqueueSound DEF Release
  <2>3. \A t : t # r.s => Cleaning(cl', t) = Cleaning(k, t)
    BY <1>4, <1>6, <2>1, OthersCleaning DEF Release
  <2>4. /\ contested' = IF Saved(r.s) /\ ~Bound(r.s) THEN contested \cup {r.s} ELSE contested
        /\ Bound(r.s) => cl' = k
    BY <2>1 DEF NoteRelease, Release
  <2>5. HostTyped'
    BY <1>3, <1>4, <2>4 DEF Bindings, HostTyped, hostVars
  <2>6. Kept'
    BY <1>3, <1>4, <1>6, <2>1, <2>3, <2>4, TablesStay DEF Bindings, Kept, hostVars
  <2> QED BY <1>3, <2>1, <2>2, <2>5, <2>6, TablesStay DEF Bindings, Down, hostVars
<1> QED BY <1>7, <1>8

LEMMA ApplyDeferredStep ==
    ASSUME Bindings, NEW r, ApplyDeferred(r)
    PROVE  Bindings'
<1>1. PICK k : k = [cl EXCEPT !.retries = @ \ {r},
                              !.attachments[r.c] = IF @ = r THEN None ELSE @]
  OBVIOUS
<1>2. /\ up /\ r \in cl.retries
      /\ cl' = IF ~StillCurrent(r) THEN k
               ELSE IF Cleaning(k, r.s) # {} THEN Defer(k, r)
               ELSE Prepare(k, [r EXCEPT !.prepared = TRUE])
      /\ UNCHANGED <<tableVars, dbVars, hostVars, turns, generation, up, contested>>
  BY <1>1 DEF ApplyDeferred, historyVars
<1>3. /\ r \in Requests /\ r.c \in Conversations /\ r.s \in Sessions /\ r # None
      /\ ~r.prepared
  BY <1>2, NoneIsNothing DEF Bindings, Cleanup, Requests, Sound, Attaching, Retried
<1>4. Over(cl, k, r)
  BY <1>1, <1>3 DEF Bindings, Cleanup, Over
<1>5. /\ Sound(k, follow) /\ k \in Cleanup
      /\ \A t : Cleaning(k, t) = Cleaning(cl, t)
  BY <1>3, <1>4, OverSound DEF Bindings, Over
<1>6. PICK x : x = [r EXCEPT !.prepared = TRUE]
  OBVIOUS
<1>7. x \in Requests /\ x.prepared /\ x.c = r.c /\ x.s = r.s /\ x.id = r.id
  BY <1>3, <1>6 DEF Requests
<1>8. ASSUME StillCurrent(r)
      PROVE  Clear(k, r) /\ Clear(k, x)
  <2>1. cl.attachments[r.c] = r
    BY <1>8 DEF StillCurrent
  <2>2. /\ \A w \in cl.workers : w.id # r.id
        /\ \A q \in cl.results : q.request.id # r.id
    BY <1>3, <2>1 DEF Bindings, Sound, Attaching, Promised
  <2>3. \A c \in Conversations : k.attachments[c] # None => k.attachments[c] = cl.attachments[c]
    BY <1>3, <1>4 DEF Over, Bindings, Cleanup
  <2>4. \A c \in Conversations : k.attachments[c] # None /\ c # r.c =>
           k.attachments[c].s # r.s /\ k.attachments[c].id # r.id
    BY <1>3, <2>1, <2>3 DEF Bindings, Sound, Attaching, Wanted
  <2> QED BY <1>3, <1>4, <1>7, <2>2, <2>4 DEF Clear, Over
<1>9. Sound(cl', follow) /\ cl' \in Cleanup
  <2>1. CASE ~StillCurrent(r)
    BY <1>2, <1>5, <2>1
  <2>2. CASE StillCurrent(r) /\ Cleaning(k, r.s) # {}
    BY <1>2, <1>3, <1>5, <1>8, <2>2, DeferSound
  <2>3. CASE StillCurrent(r) /\ Cleaning(k, r.s) = {}
    <3>1. cl' = Prepare(k, x)
      BY <1>2, <1>6, <2>3
    <3> QED BY <1>5, <1>7, <1>8, <2>3, <3>1, PrepareSound
  <2> QED BY <2>1, <2>2, <2>3
<1>10. \A t : Cleaning(cl', t) = Cleaning(cl, t)
  BY <1>2, <1>3, <1>5, <1>6, <1>7, SameCleaning
<1> QED BY <1>2, <1>9, <1>10, TablesStay
        DEF Bindings, HostTyped, Kept, Down, hostVars

----------------------------------------------------------------------------
\* Turns and the process of a session.

LEMMA TurnStep ==
    ASSUME Bindings, NEW s \in Sessions, TurnStarted(s) \/ TurnCompleted(s)
    PROVE  Bindings'
<1>1. CASE TurnStarted(s)
  <2>1. /\ turns' = turns \cup {s}
        /\ UNCHANGED <<tableVars, dbVars, cl, hostVars, generation, up, contested>>
    BY <1>1 DEF TurnStarted, historyVars
  <2>2. HostTyped' /\ Down'
    BY <2>1 DEF Bindings, HostTyped, Down, tableVars, hostVars
  <2> QED BY <2>1, <2>2, TablesStay DEF Bindings, Kept, hostVars
<1>2. CASE TurnCompleted(s)
  <2>1. /\ up /\ FreeIds(cl) # {} /\ turns' = turns \ {s}
        /\ IF ~Bound(s) /\ drain[s] # None
           THEN drain' = [drain EXCEPT ![s] = None] /\ cl' = Enqueue(cl, s)
           ELSE UNCHANGED <<drain, cl>>
        /\ UNCHANGED <<cur, epoch, dbVars, hostVars, generation, up, contested>>
    BY <1>2 DEF TurnCompleted, Room, historyVars
  <2>2. HostTyped' /\ Down'
    BY <2>1 DEF Bindings, HostTyped, Down, hostVars
  <2>3. /\ Consistent' /\ \A t : Saved(t)' = Saved(t)
    <3>1. \A t \in Sessions : drain'[t] \in {drain[t], None}
      BY <2>1 DEF Bindings, Consistent, TablesTyped
    <3>2. drain' \in [Sessions -> Conversations \cup {None}]
      BY <2>1 DEF Bindings, Consistent, TablesTyped
    <3> QED BY <2>1, <3>1, <3>2
            DEF Bindings, Consistent, TablesTyped, OneRow, Agree, Drains, Saved, dbVars
  <2>4. Sound(cl', follow') /\ cl' \in Cleanup
    BY <2>1, EnqueueSound DEF Bindings, hostVars
  <2>5. \A t \in Sessions : Saved(t) => Cleaning(cl', t) = Cleaning(cl, t)
    BY <2>1, OthersCleaning DEF Bindings, Consistent, Drains
  <2> QED BY <2>1, <2>2, <2>3, <2>4, <2>5 DEF Bindings, Kept, hostVars
<1> QED BY <1>1, <1>2

LEMMA HostStep ==
    ASSUME Bindings, NEW s \in Sessions, HostExits(s) \/ HostStarts(s)
    PROVE  Bindings'
<1>1. /\ UNCHANGED <<tableVars, dbVars, cl, turns, generation, up, contested>>
      /\ running' \in {running \cup {s}, running \ {s}}
  BY DEF HostExits, HostStarts, historyVars
<1>2. \/ UNCHANGED <<follow, events>>
      \/ \E x \in {"live", "exited"}, y \in {"resumed", "exited"} :
            /\ up /\ follow[s] # "off" /\ follow' = [follow EXCEPT ![s] = x]
            /\ events' = Append(events, [kind |-> y, s |-> s])
  BY DEF HostExits, HostStarts
<1>3. /\ follow' \in [Sessions -> {"off", "live", "exited"}]
      /\ \A t \in Sessions : follow'[t] = "off" <=> follow[t] = "off"
  BY <1>2 DEF Bindings, HostTyped
<1>4. events' \in Seq(Events)
  <2>1. \A y \in {"resumed", "exited"} : [kind |-> y, s |-> s] \in Events
    BY DEF Events
  <2> QED BY SMTT(30), <1>2, <2>1 DEF Bindings, HostTyped
<1>5. HostTyped'
  BY <1>1, <1>3, <1>4 DEF Bindings, HostTyped
<1>6. Subscribed(cl, follow') /\ Dropped(cl, follow')
  <2>1. \A w \in cl.workers : w.s \in Sessions
    BY DEF Bindings, Cleanup, WorkerRecords
  <2>2. \A p \in cl.results : p.request.s \in Sessions
    BY DEF Bindings, Cleanup, Results, Requests
  <2>3. \A c \in Conversations : cl.attachments[c] # None => cl.attachments[c].s \in Sessions
    BY DEF Bindings, Cleanup, Requests
  <2> QED BY <1>3, <2>1, <2>2, <2>3 DEF Bindings, Sound, Subscribed, Dropped
<1>7. Kept'
  BY <1>1, <1>3, TablesStay DEF Bindings, Kept
<1>8. Down'
  BY <1>1, <1>2 DEF Bindings, Down, tableVars
<1> QED BY <1>1, <1>5, <1>6, <1>7, <1>8, TablesStay DEF Bindings, Sound

LEMMA EventTyped ==
    ASSUME HostTyped, events # <<>>
    PROVE  /\ Head(events).s \in Sessions
           /\ Tail(events) \in Seq(Events)
<1>1. Head(events) \in Events /\ Tail(events) \in Seq(Events)
  BY DEF HostTyped
<1> QED BY <1>1 DEF Events

\* The row of a suspended binding stays, and so does its subscription.
LEMMA HandleExitStep ==
    ASSUME Bindings, HandleExit
    PROVE  Bindings'
<1>1. PICK s : s = Head(events).s
  OBVIOUS
<1>2. /\ up /\ events # <<>> /\ events' = Tail(events)
      /\ cl' = CancelSession(cl, s) /\ turns' = turns \ {s}
      /\ UNCHANGED <<drain, follow, running, generation, up, contested>>
      /\ IF Bound(s)
         THEN LET c == CHOOSE x \in Owner(s) : TRUE IN
              /\ SuspendBinding(c)
              /\ cur' = [cur EXCEPT ![c] = None]
              /\ epoch' = [epoch EXCEPT ![c] = @ + 1]
         ELSE UNCHANGED <<dbVars, cur, epoch>>
  BY <1>1 DEF HandleExit, historyVars
<1>3. s \in Sessions /\ HostTyped'
  BY <1>1, <1>2, EventTyped DEF Bindings, HostTyped
<1>4. /\ Sound(cl', follow') /\ cl' \in Cleanup
      /\ \A t : Cleaning(cl', t) = Cleaning(cl, t)
  <2>1. Fewer(cl', cl)
    BY <1>2, <1>3, CancelSessionParts DEF Bindings
  <2> QED BY <1>2, <2>1, FewerSound DEF Bindings, Fewer, Cleaning
<1>5. Consistent' /\ \A t : Saved(t)' = Saved(t)
  <2>1. CASE ~Bound(s)
    BY <1>2, <2>1, TablesStay DEF Bindings, tableVars, dbVars
  <2>2. CASE Bound(s)
    <3>1. PICK c \in Owner(s) : /\ SuspendBinding(c)
                                /\ cur' = [cur EXCEPT ![c] = None]
                                /\ epoch' = [epoch EXCEPT ![c] = @ + 1]
      BY <1>2, <2>2 DEF Bound
    <3>2. c \in Conversations /\ cur[c] = s /\ Consistent
      BY <3>1 DEF Owner, Bindings
    <3>3. row[c] # None /\ row[c] \in Rows /\ row[c].s = s
      BY <1>3, <3>2, NoneIsNothing, Shown DEF Consistent, TablesTyped
    <3>4. PICK e \in Nat : e = dbEpoch[c] + 1
      BY <3>2 DEF Consistent, TablesTyped
    <3>5. /\ dbEpoch' = [dbEpoch EXCEPT ![c] = e]
          /\ row' = [row EXCEPT ![c] = [@ EXCEPT !.epoch = e]]
      BY <3>1, <3>4 DEF SuspendBinding
    <3>6. PICK y : y = [row[c] EXCEPT !.epoch = e]
      OBVIOUS
    <3>7. y \in Rows /\ y # None /\ y.s = s /\ y.epoch = e
      BY <3>3, <3>6, NoneIsNothing DEF Rows
    <3>8. row' = [row EXCEPT ![c] = y]
      BY <3>5, <3>6
    <3>9. TablesTyped'
      <4>1. row' \in [Conversations -> Rows \cup {None}]
        BY <3>2, <3>7, <3>8 DEF Consistent, TablesTyped
      <4>2. dbEpoch' \in [Conversations -> Nat] /\ epoch' \in [Conversations -> Nat]
        BY <3>1, <3>2, <3>4, <3>5 DEF Consistent, TablesTyped
      <4>3. cur' \in [Conversations -> Sessions \cup {None}]
        BY <3>1, <3>2 DEF Consistent, TablesTyped
      <4> QED BY <1>2, <3>2, <4>1, <4>2, <4>3 DEF Consistent, TablesTyped
    <3>10. /\ row'[c] = y
           /\ \A d \in Conversations : d # c => row'[d] = row[d] /\ dbEpoch'[d] = dbEpoch[d]
           /\ dbEpoch'[c] = e /\ cur'[c] = None
           /\ \A d \in Conversations : d # c => cur'[d] = cur[d] /\ epoch'[d] = epoch[d]
      BY <3>1, <3>2, <3>5, <3>8 DEF Consistent, TablesTyped
    <3>11. OneRow' /\ Agree'
      BY <3>2, <3>3, <3>7, <3>10 DEF Consistent, OneRow, Agree
    <3>12. \A t : Saved(t)' = Saved(t)
      <4> SUFFICES ASSUME NEW t PROVE Saved(t)' <=> Saved(t)
        BY DEF Saved
      <4> QED BY <3>2, <3>3, <3>7, <3>10 DEF Saved
    <3>13. Drains'
      BY <1>2, <3>2, <3>12 DEF Consistent, Drains
    <3> QED BY <3>9, <3>11, <3>12, <3>13 DEF Consistent
  <2> QED BY <2>1, <2>2
<1>6. Kept'
  BY <1>2, <1>4, <1>5 DEF Bindings, Kept
<1> QED BY <1>2, <1>3, <1>4, <1>5, <1>6 DEF Bindings, Down

\* The binding that returns is the saved one, and nobody is shown that session.
LEMMA HandleResumeStep ==
    ASSUME Bindings, HandleResume
    PROVE  Bindings'
<1>1. PICK s : s = Head(events).s
  OBVIOUS
<1>2. PICK saved : saved = {c \in Conversations : row[c] # None /\ row[c].s = s}
  OBVIOUS
<1>3. /\ up /\ events # <<>> /\ events' = Tail(events)
      /\ UNCHANGED <<dbVars, cl, follow, running, turns, generation, up, contested>>
      /\ IF saved # {} /\ \A c \in saved : cur[c] # s
         THEN LET c == CHOOSE x \in saved : TRUE
              IN  AttachAtEpoch(c, s, FALSE, row[c].epoch)
         ELSE UNCHANGED tableVars
  BY <1>1, <1>2 DEF HandleResume, historyVars
<1>4. s \in Sessions /\ HostTyped'
  BY <1>1, <1>3, EventTyped DEF Bindings, HostTyped
<1>5. \A t : Saved(t)' = Saved(t)
  BY <1>3 DEF Saved, dbVars
<1>6. Consistent'
  <2>1. CASE UNCHANGED tableVars
    BY <1>3, <2>1, TablesStay DEF Bindings
  <2>2. CASE saved # {} /\ \A c \in saved : cur[c] # s
    <3>1. PICK c \in saved : AttachAtEpoch(c, s, FALSE, row[c].epoch)
      BY <1>3, <2>2
    <3>2. /\ c \in Conversations /\ row[c] # None /\ row[c].s = s /\ row[c] \in Rows
          /\ Consistent
      BY <1>2, <3>1 DEF Bindings, Consistent, TablesTyped
    <3>3. cur[c] = None
      BY <2>2, <3>1, <3>2, Shown
    <3>4. /\ cur' = [x \in Conversations |->
                        IF x = c THEN s ELSE IF cur[x] = s THEN None ELSE cur[x]]
          /\ epoch' = [epoch EXCEPT ![c] = row[c].epoch]
      BY <3>1 DEF AttachAtEpoch
    <3>5. drain' \in [Sessions -> Conversations \cup {None}]
          /\ \A t \in Sessions : drain'[t] \in {drain[t], None}
      BY <3>1, <3>3, <1>4, NoneIsNothing DEF AttachAtEpoch, Bindings, Consistent, TablesTyped
    <3>6. row[c].epoch \in Nat /\ row[c] = [s |-> s, epoch |-> row[c].epoch]
      BY <3>2 DEF Rows
    <3>7. TablesTyped'
      BY <1>3, <1>4, <3>2, <3>4, <3>5, <3>6 DEF Consistent, TablesTyped, dbVars
    <3>8. OneRow' /\ Agree'
      BY <1>3, <3>2, <3>4, <3>6, Shown DEF Consistent, TablesTyped, OneRow, Agree, dbVars
    <3>9. Drains'
      BY <1>5, <3>2, <3>5 DEF Consistent, Drains
    <3> QED BY <3>7, <3>8, <3>9 DEF Consistent
  <2> QED BY <1>3, <2>1, <2>2
<1> QED BY <1>3, <1>4, <1>5, <1>6 DEF Bindings, Kept, Down

LEMMA ReconnectStep ==
    ASSUME Bindings, Reconnect
    PROVE  Bindings'
<1>1. /\ up /\ generation' = generation + 1
      /\ UNCHANGED <<tableVars, dbVars, cl, hostVars, turns, up, contested>>
  BY DEF Reconnect, historyVars
<1> QED BY <1>1, TablesStay DEF Bindings, HostTyped, Kept, Down, hostVars

LEMMA IdleSound ==
    ASSUME NEW f
    PROVE  Sound(Idle, f) /\ Idle \in Cleanup /\ \A t : Cleaning(Idle, t) = {}
BY DEF Idle, Cleanup, Cleaning, Sound, Queue, Shaped, Distinct, OneCleanup, Ordered,
       Attaching, Named, Wanted, Promised, Retried, Subscribed, Dropped

LEMMA CrashStep ==
    ASSUME Bindings, Crash
    PROVE  Bindings'
<1>1. /\ up' = FALSE
      /\ cur' = [c \in Conversations |-> None]
      /\ drain' = [s \in Sessions |-> None]
      /\ epoch' = [c \in Conversations |-> 0]
      /\ cl' = Idle /\ follow' = [s \in Sessions |-> "off"] /\ events' = <<>>
      /\ generation' = 0 /\ contested' = {}
      /\ UNCHANGED <<row, dbEpoch, running, turns>>
  BY DEF Crash, dbVars
<1>2. Consistent'
  BY <1>1 DEF Bindings, Consistent, TablesTyped, OneRow, Agree, Drains
<1>3. HostTyped'
  <2>1. events' \in Seq(Events)
    BY <1>1
  <2>2. follow' \in [Sessions -> {"off", "live", "exited"}]
    BY <1>1
  <2>3. contested' \subseteq Sessions /\ generation' \in Nat
    BY <1>1
  <2>4. up' \in BOOLEAN
    BY <1>1
  <2> QED BY <1>1, <2>1, <2>2, <2>3, <2>4 DEF Bindings, HostTyped
<1> QED BY <1>1, <1>2, <1>3, IdleSound DEF Bindings, Kept, Down

\* What is restored is shown as it was saved, and followed.
LEMMA RestartStep ==
    ASSUME Bindings, Restart
    PROVE  Bindings'
<1>1. /\ ~up /\ up' = TRUE /\ UNCHANGED <<drain, cl, running, events, generation, contested>>
      /\ cl = Idle /\ events = <<>>
      /\ \A s \in Sessions : drain[s] = None
  BY DEF Restart, historyVars, Bindings, Down
<1>2. PICK rejected \in SUBSET Conversations :
       LET kept == {c \in Conversations : row[c] # None} \ rejected IN
       /\ row' = [c \in Conversations |-> IF c \in rejected THEN None ELSE row[c]]
       /\ dbEpoch' = [c \in Conversations |->
                         dbEpoch[c] + (IF c \in rejected THEN 1 ELSE 0)]
       /\ cur' = [c \in Conversations |-> IF c \in kept THEN row[c].s ELSE None]
       /\ epoch' = [c \in Conversations |-> IF c \in kept THEN row[c].epoch ELSE 0]
       /\ follow' = [s \in Sessions |->
                        IF \E c \in kept : row[c].s = s
                        THEN RestoredStatus(s) ELSE "off"]
       /\ turns' = {s \in turns : \E c \in kept : row[c].s = s}
  BY DEF Restart
<1>3. \A c \in Conversations : row[c] # None =>
         row[c] \in Rows /\ row[c].s \in Sessions /\ row[c].epoch \in Nat
         /\ row[c] = [s |-> row[c].s, epoch |-> row[c].epoch]
  BY DEF Bindings, Consistent, TablesTyped, Rows
<1>4. \A c \in Conversations : dbEpoch[c] \in Nat
  BY DEF Bindings, Consistent, TablesTyped
<1>5. TablesTyped'
  <2>1. /\ row' \in [Conversations -> Rows \cup {None}]
        /\ cur' \in [Conversations -> Sessions \cup {None}]
        /\ epoch' \in [Conversations -> Nat]
    BY <1>2, <1>3
  <2>2. dbEpoch' \in [Conversations -> Nat]
    BY <1>2, <1>4
  <2> QED BY <1>1, <2>1, <2>2 DEF Bindings, Consistent, TablesTyped
<1>6. OneRow'
  BY <1>2 DEF Bindings, Consistent, OneRow
<1>7. Agree'
  <2> SUFFICES ASSUME NEW c \in Conversations
               PROVE  /\ cur'[c] # None => row'[c] = [s |-> cur'[c], epoch |-> epoch'[c]]
                      /\ row'[c] # None => row'[c].epoch = dbEpoch'[c]
    BY DEF Agree
  <2>1. CASE row[c] = None \/ c \in rejected
    BY <1>2, <2>1
  <2>2. CASE row[c] # None /\ c \notin rejected
    <3>1. row'[c] = row[c] /\ cur'[c] = row[c].s /\ epoch'[c] = row[c].epoch
          /\ dbEpoch'[c] = dbEpoch[c]
      BY <1>2, <1>4, <2>2
    <3> QED BY <1>3, <2>2, <3>1 DEF Bindings, Consistent, Agree
  <2> QED BY <2>1, <2>2
<1>8. Drains'
  BY <1>1 DEF Drains
<1>9. HostTyped'
  <2>1. follow' \in [Sessions -> {"off", "live", "exited"}]
    BY <1>2 DEF RestoredStatus
  <2> QED BY <1>1, <1>2, <2>1 DEF Bindings, HostTyped
<1>10. Kept'
  <2> SUFFICES ASSUME NEW s \in Sessions, Saved(s)'
               PROVE  follow'[s] # "off" /\ Cleaning(cl', s) = {}
    BY DEF Kept
  <2>1. PICK c \in Conversations : row[c] # None /\ c \notin rejected /\ row[c].s = s
    BY <1>2 DEF Saved
  <2> QED BY <1>1, <1>2, <2>1, IdleSound DEF RestoredStatus
<1> QED BY <1>1, <1>5, <1>6, <1>7, <1>8, <1>9, <1>10, IdleSound
        DEF Bindings, Consistent, Down

LEMMA InitBindings == Init => Bindings
<1> SUFFICES ASSUME Init PROVE Bindings
  OBVIOUS
<1>1. /\ cur \in [Conversations -> Sessions \cup {None}]
      /\ \A c, d \in Conversations : cur[c] = cur[d] /\ cur[c] # None => c = d
  BY StartsTyped DEF Init
<1>2. /\ drain = [s \in Sessions |-> None]
      /\ dbEpoch = [c \in Conversations |-> IF cur[c] = None THEN 0 ELSE 1]
      /\ epoch = dbEpoch
      /\ row = [c \in Conversations |->
                   IF cur[c] = None THEN None ELSE [s |-> cur[c], epoch |-> 1]]
      /\ cl = Idle /\ up = TRUE /\ turns = {} /\ running = Sessions /\ events = <<>>
      /\ generation = 0 /\ contested = {}
      /\ follow = [s \in Sessions |-> IF Bound(s) THEN "live" ELSE "off"]
  BY DEF Init
<1>3. \A c \in Conversations : cur[c] # None =>
         [s |-> cur[c], epoch |-> 1] \in Rows /\ [s |-> cur[c], epoch |-> 1] # None
  BY <1>1, NoneIsNothing DEF Rows
<1>4. TablesTyped
  BY <1>1, <1>2, <1>3 DEF TablesTyped
<1>5. OneRow /\ Agree /\ Drains
  BY <1>1, <1>2, <1>3 DEF OneRow, Agree, Drains
<1>6. HostTyped
  BY <1>2 DEF HostTyped
<1>7. Kept
  <2> SUFFICES ASSUME NEW s \in Sessions, Saved(s)
               PROVE  follow[s] # "off" /\ Cleaning(cl, s) = {}
    BY DEF Kept
  <2>1. Bound(s)
    BY <1>2, <1>3 DEF Saved, Bound, Owner
  <2> QED BY <1>2, <2>1, IdleSound
<1> QED BY <1>2, <1>4, <1>5, <1>6, <1>7, IdleSound DEF Bindings, Consistent, Down

\* Every step keeps the bindings.
LEMMA NextBindings == Bindings /\ [Next]_vars => Bindings'
<1> SUFFICES ASSUME Bindings, [Next]_vars PROVE Bindings'
  OBVIOUS
<1>1. ASSUME NEW c \in Conversations, NEW s \in Sessions, Attach(c, s) \/ Replace(c, s)
      PROVE  Bindings'
  BY <1>1, AttachStep, ReplaceStep
<1>2. ASSUME NEW c \in Conversations, Detach(c)
      PROVE  Bindings'
  BY <1>2, DetachStep
<1>3. ASSUME NEW w \in cl.workers, Worker(w)
      PROVE  Bindings'
  BY <1>3, SubscribeStep, PostStep, UnsubscribeStep, FinishCleanupStep DEF Worker
<1>4. ASSUME NEW p \in cl.results, ApplyPrepared(p)
      PROVE  Bindings'
  BY <1>4, ApplyPreparedStep
<1>5. ASSUME NEW r \in cl.retries, ApplyDeferred(r)
      PROVE  Bindings'
  BY <1>5, ApplyDeferredStep
<1>6. ASSUME NEW s \in Sessions,
             TurnStarted(s) \/ TurnCompleted(s) \/ HostExits(s) \/ HostStarts(s)
      PROVE  Bindings'
  BY <1>6, TurnStep, HostStep
<1>7. CASE HandleExit \/ HandleResume \/ Reconnect \/ Crash \/ Restart
  BY <1>7, HandleExitStep, HandleResumeStep, ReconnectStep, CrashStep, RestartStep
<1>8. CASE UNCHANGED vars
  <2>1. UNCHANGED <<tableVars, dbVars, cl, hostVars, turns, generation, up, contested>>
    BY <1>8 DEF vars, historyVars
  <2>2. HostTyped' /\ Down'
    BY <2>1 DEF Bindings, HostTyped, Down, tableVars, hostVars
  <2> QED BY <2>1, <2>2, TablesStay DEF Bindings, Kept, hostVars
<1> QED BY <1>1, <1>2, <1>3, <1>4, <1>5, <1>6, <1>7, <1>8 DEF Next

LEMMA BindingsHold == Spec => []Bindings
<1> QED BY InitBindings, NextBindings, PTL DEF Spec

\* What the invariant says of a state: the table agrees with its rows, and a shown session
\* is subscribed.
LEMMA BindingsAgree ==
    ASSUME Bindings
    PROVE  TableAgreesWithRows /\ BoundIsFollowed
<1>1. /\ \A c \in Conversations : cur[c] # None => row[c] = [s |-> cur[c], epoch |-> epoch[c]]
      /\ \A c \in Conversations : row[c] # None => row[c].epoch = dbEpoch[c]
  BY DEF Bindings, Consistent, Agree
<1>2. \A s \in Sessions : Cardinality(Owner(s)) <= 1
  <2> SUFFICES ASSUME NEW s \in Sessions PROVE Cardinality(Owner(s)) <= 1
    OBVIOUS
  <2>1. CASE Owner(s) = {}
    BY <2>1, FS_EmptySet
  <2>2. CASE Owner(s) # {}
    <3>1. PICK c : c \in Owner(s)
      BY <2>2
    <3>2. Owner(s) = {c}
      BY <3>1, Shown, NoneIsNothing DEF Owner, Bindings
    <3> QED BY <3>2, FS_Singleton
  <2> QED BY <2>1, <2>2
<1>3. BoundIsFollowed
  <2> SUFFICES ASSUME NEW c \in Conversations, cur[c] # None, cur[c] \notin contested
               PROVE  follow[cur[c]] # "off" /\ Cleaning(cl, cur[c]) = {}
    BY DEF BoundIsFollowed
  <2>1. cur[c] \in Sessions /\ Saved(cur[c]) /\ up
    BY Shown DEF Bindings, Down, HostTyped
  <2> QED BY <2>1 DEF Bindings, Kept
<1> QED BY <1>1, <1>2, <1>3 DEF TableAgreesWithRows

\* The bindings in memory and in the database agree after every handler, crash and
\* restart, and a session that is shown is followed and not being unsubscribed
\* (commit_binding, commit_detach, enqueue, prepare).
THEOREM TablesAndSubscriptions == Spec => [](TableAgreesWithRows /\ BoundIsFollowed)
<1>1. Bindings => TableAgreesWithRows /\ BoundIsFollowed
  BY BindingsAgree
<1> QED BY <1>1, BindingsHold, PTL

----------------------------------------------------------------------------
\* No subscription is left behind, as long as the queue of unsubscribes (128 in the code)
\* has room for every session.
Small == IsFiniteSet(Sessions) /\ Cardinality(Sessions) <= Limit

LEMMA RoomForCleanup ==
    ASSUME Small, NEW k \in Cleanup, OneCleanup(k), NEW s \in Sessions, Cleaning(k, s) = {}
    PROVE  ~AtLimit(k)
<1> DEFINE W == {w \in k.workers : w.kind = "cleanup"}
           g == [w \in W |-> w.s]
<1>1. IsFiniteSet(Sessions \ {s}) /\ Cardinality(Sessions \ {s}) = Cardinality(Sessions) - 1
  BY FS_RemoveElement DEF Small
<1>2. g \in Injection(W, Sessions \ {s})
  <2>1. \A w \in W : w.s \in Sessions \ {s}
    BY DEF Cleanup, WorkerRecords, Cleaning
  <2>2. \A v, w \in W : v.s = w.s => v = w
    BY DEF OneCleanup
  <2> QED BY <2>1, <2>2 DEF Injection, IsInjective
<1>3. Cardinality(W) <= Cardinality(Sessions) - 1 /\ Cardinality(W) \in Nat
  <2> HIDE DEF W, g
  <2> QED BY <1>1, <1>2, FS_Injection, FS_CardinalityType
<1>4. Cardinality(Sessions) \in Nat /\ Limit \in Nat
  BY FS_CardinalityType, LimitsNat DEF Small
<1> QED BY <1>3, <1>4 DEF Small, AtLimit

\* Unless the adapter does not follow the session, its unsubscribe is under way once it
\* was asked for, or an attachment that needs it is.
LEMMA EnqueueHandles ==
    ASSUME Small, NEW k \in Cleanup, NEW f, Sound(k, f), FreeIds(k) # {}, NEW s \in Sessions
    PROVE  /\ \A t : Handled(k, t) => Handled(Enqueue(k, s), t)
           /\ f[s] # "off" => Handled(Enqueue(k, s), s)
<1>1. ASSUME NEW w, NewCleanup(k, s, w), Enqueue(k, s).workers = k.workers \cup {w},
             SameButWorkers(Enqueue(k, s), k)
      PROVE  /\ \A t : Handled(k, t) => Handled(Enqueue(k, s), t)
             /\ Handled(Enqueue(k, s), s)
  BY <1>1 DEF NewCleanup, SameButWorkers, Handled
<1>2. CASE Cleaning(k, s) # {} /\ Enqueue(k, s) = k
  BY <1>2 DEF Cleaning, Handled, Sound, Subscribed, Queue, Shaped
<1>3. CASE Cleaning(k, s) = {} /\ Targeted(k, s) /\ Enqueue(k, s) = k
  <2>1. PICK c \in Conversations : k.attachments[c] # None /\ k.attachments[c].s = s
    BY <1>3 DEF Targeted, Attachments
  <2>2. CASE ~k.attachments[c].prepared
    BY <1>3, <2>1, <2>2 DEF Sound, Dropped
  <2>3. CASE k.attachments[c].prepared
    BY <1>3, <2>1, <2>3 DEF Sound, Attaching, Promised, UnderWay, Queue, Shaped, Handled
  <2> QED BY <1>3, <2>2, <2>3
<1>4. ~(Cleaning(k, s) = {} /\ AtLimit(k))
  BY RoomForCleanup DEF Sound, Queue
<1> QED BY <1>1, <1>2, <1>3, <1>4, EnqueueParts

\* Handing out the attachments leaves what is under way.
LEMMA HandledStays ==
    ASSUME NEW j, NEW k, k.workers \subseteq j.workers, k.results \subseteq j.results
    PROVE  \A t : Handled(k, t) => Handled(j, t)
BY DEF Handled

LEMMA StartGrows ==
    ASSUME NEW k \in Cleanup, NEW r \in Requests
    PROVE  /\ k.workers \subseteq Prepare(k, r).workers /\ k.results \subseteq Prepare(k, r).results
           /\ k.workers \subseteq Defer(k, r).workers /\ k.results \subseteq Defer(k, r).results
<1>1. k.workers \subseteq Defer(k, r).workers /\ k.results \subseteq Defer(k, r).results
  BY DeferParts
<1>2. ASSUME NEW w, Prepare(k, r).workers = k.workers \cup {w}
      PROVE  k.workers \subseteq Prepare(k, r).workers
  BY <1>2
<1> QED BY <1>1, <1>2, PrepareParts

\* Binding a session accounts for the one it replaces.
LEMMA BindAccounts ==
    ASSUME Small, Consistent, NEW c \in Conversations, NEW s \in Sessions, NEW k \in Cleanup,
           NEW f, Sound(k, f), FreeIds(k) # {}, BindSubscribed(c, s, k)
    PROVE  \A t \in Sessions :
              f[t] # "off" /\ (t = s \/ Saved(t) \/ drain[t] # None \/ Handled(k, t))
                  => Saved(t)' \/ drain'[t] # None \/ Handled(cl', t)
<1> SUFFICES ASSUME NEW t \in Sessions, f[t] # "off",
                    t = s \/ Saved(t) \/ drain[t] # None \/ Handled(k, t)
             PROVE  Saved(t)' \/ drain'[t] # None \/ Handled(cl', t)
  OBVIOUS
<1>1. /\ row' = RowsAttached(c, s)
      /\ drain' = [x \in Sessions |->
                    CASE cur[c] = s -> drain[x]
                      [] cur[c] # s /\ x = s -> None
                      [] cur[c] # s /\ x # s /\ x = cur[c] -> IF cur[c] \in turns THEN c ELSE None
                      [] OTHER -> drain[x]]
  BY DEF BindSubscribed, SaveBinding, AttachAtEpoch
<1>2. Saved(s)'
  BY BindTables
<1>3. CASE t # s /\ ~(row[c] # None /\ row[c].s = t) /\ Saved(t)
  BY <1>1, <1>3 DEF RowsAttached, Saved
<1>4. CASE t # s /\ row[c] # None /\ row[c].s = t
  <2>1. CASE cur[c] = t /\ cur[c] \in turns
    BY <1>1, <1>4, <2>1, NoneIsNothing
  <2>2. CASE cur[c] # None /\ cur[c] # t
    BY <1>4, <2>2, Shown
  <2>3. CASE cur[c] = None \/ (cur[c] = t /\ cur[c] \notin turns)
    <3>1. cl' = Enqueue(k, t)
      BY <1>4, <2>3, NoneIsNothing DEF BindSubscribed
    <3> QED BY <3>1, EnqueueHandles
  <2> QED BY <2>1, <2>2, <2>3
<1>5. CASE t # s /\ ~Saved(t)
  <2>1. CASE Handled(k, t)
    BY <2>1, BindTables, EnqueueHandles
  <2>2. CASE drain[t] # None
    <3>1. t # cur[c]
      BY <1>5, Shown, NoneIsNothing
    <3> QED BY <1>1, <1>5, <2>2, <3>1
  <2> QED BY <1>5, <2>1, <2>2
<1> QED BY <1>2, <1>3, <1>4, <1>5

LEMMA DetachAccounts ==
    ASSUME Small, Bindings, Accounted, NEW c \in Conversations, Detach(c)
    PROVE  Accounted'
<1>1. PICK k : k = Cancel(cl, c)
  OBVIOUS
<1>2. Fewer(k, cl) /\ Sound(k, follow) /\ k \in Cleanup
  BY <1>1, CancelParts, FewerSound DEF Bindings, Fewer
<1>3. FreeIds(k) # {} /\ \A t : Handled(cl, t) => Handled(k, t)
  <2>1. IdsInUse(k) \subseteq IdsInUse(cl)
    BY <1>2 DEF Fewer, IdsInUse, Attachments
  <2> QED BY <1>2, <2>1 DEF Fewer, Handled, Detach, Room, FreeIds
<1>4. follow' = follow
  BY DEF Detach, hostVars
<1>5. CASE cur[c] = None
  <2>1. UNCHANGED <<tableVars, dbVars>> /\ cl' = k
    BY <1>1, <1>5 DEF Detach
  <2> QED BY <1>3, <1>4, <2>1 DEF Accounted, Saved, tableVars, dbVars
<1>6. CASE cur[c] # None
  <2>1. /\ row' = [row EXCEPT ![c] = None]
        /\ IF cur[c] \in turns
           THEN drain' = [drain EXCEPT ![cur[c]] = c] /\ cl' = k
           ELSE drain' = drain /\ cl' = Enqueue(k, cur[c])
    BY <1>1, <1>6 DEF Detach, DeleteBinding
  <2>2. row[c] # None /\ row[c].s = cur[c] /\ cur[c] \in Sessions
    BY <1>6, Shown DEF Bindings
  <2>3. \A t \in Sessions : Saved(t) /\ t # cur[c] => Saved(t)'
    BY <2>1, <2>2 DEF Saved, Bindings, Consistent, TablesTyped
  <2>4. \A t : Handled(cl, t) => Handled(cl', t)
    BY <1>2, <1>3, <2>1, <2>2, EnqueueHandles
  <2>5. \A t \in Sessions : drain[t] # None => drain'[t] # None
    BY <2>1, <2>2, NoneIsNothing DEF Bindings, Consistent, TablesTyped
  <2>6. follow[cur[c]] # "off" => drain'[cur[c]] # None \/ Handled(cl', cur[c])
    <3>1. CASE cur[c] \in turns
      BY <2>1, <2>2, <3>1, NoneIsNothing DEF Bindings, Consistent, TablesTyped
    <3>2. CASE cur[c] \notin turns
      BY <1>2, <1>3, <2>1, <2>2, <3>2, EnqueueHandles
    <3> QED BY <3>1, <3>2
  <2> QED BY <1>4, <2>3, <2>4, <2>5, <2>6 DEF Accounted
<1> QED BY <1>5, <1>6

LEMMA UserAccounts ==
    ASSUME Small, Bindings, Accounted, NEW c \in Conversations, NEW s \in Sessions,
           Attach(c, s) \/ Replace(c, s)
    PROVE  Accounted'
<1>1. CASE Attach(c, s)
  <2>1. UNCHANGED <<tableVars, dbVars, hostVars>>
    BY <1>1 DEF Attach
  <2>2. PICK k : k = CancelSession(Cancel(cl, c), s)
    OBVIOUS
  <2>3. k \in Cleanup /\ k.workers = cl.workers /\ k.results = cl.results
    <3>1. Fewer(Cancel(cl, c), cl)
      BY CancelParts DEF Bindings
    <3>2. Fewer(k, Cancel(cl, c))
      BY <2>2, <3>1, CancelSessionParts DEF Fewer
    <3> QED BY <3>1, <3>2 DEF Fewer
  <2>4. FreeIds(k) # {}
        /\ cl' = IF cur[c] = s THEN k
                 ELSE IF Cleaning(k, s) # {} THEN DeferCleanup(k, c, s)
                 ELSE BeginAttachment(k, c, s)
    BY <1>1, <2>2 DEF Attach
  <2>5. \A p \in BOOLEAN : Request(c, s, epoch[c], generation, p, FreshId(k)) \in Requests
    BY <2>4, Fresh DEF Request, Requests, Bindings, Consistent, TablesTyped, HostTyped
  <2>6. cl.workers \subseteq cl'.workers /\ cl.results \subseteq cl'.results
    BY <2>3, <2>4, <2>5, StartGrows DEF DeferCleanup, BeginAttachment
  <2> QED BY <2>1, <2>6, HandledStays DEF Accounted, Saved, tableVars, dbVars, hostVars
<1>2. CASE Replace(c, s)
  <2>1. /\ FreeIds(cl) # {} /\ ~Targeted(cl, s) /\ \A w \in cl.workers : w.s # s
        /\ \A p \in cl.results : p.request.s # s
        /\ follow' = [follow EXCEPT ![s] = "live"] /\ BindSubscribed(c, s, cl)
    BY <1>2 DEF Replace, Room
  <2>2. Sound(cl, follow')
    <3>1. \A d \in Conversations : cl.attachments[d] # None => cl.attachments[d].s # s
      BY <2>1 DEF Targeted, Attachments
    <3>2. \A t : t # s => follow'[t] = follow[t]
      BY <2>1 DEF Bindings, HostTyped
    <3> QED BY <2>1, <3>1, <3>2 DEF Bindings, Sound, Subscribed, Dropped
  <2>3. \A t \in Sessions :
           follow'[t] # "off" => t = s \/ Saved(t) \/ drain[t] # None \/ Handled(cl, t)
    BY <2>1 DEF Accounted, Bindings, HostTyped
  <2> QED BY <2>1, <2>2, <2>3, BindAccounts DEF Bindings, Accounted
<1> QED BY <1>1, <1>2

LEMMA WorkerAccounts ==
    ASSUME Bindings, Accounted, NEW w \in cl.workers, Worker(w)
    PROVE  Accounted'
<1>0. /\ UNCHANGED <<tableVars, dbVars>>
      /\ w \in WorkerRecords /\ w.s \in Sessions
  BY DEF Worker, Subscribe, Post, Unsubscribe, FinishCleanup, Bindings, Cleanup, WorkerRecords
<1>1. CASE Subscribe(w)
  <2>1. PICK x \in {"ok", "failed"}, y \in {"live", "exited"} :
           /\ cl' = [cl EXCEPT !.workers = (@ \ {w}) \cup {[w EXCEPT !.stage = x]}]
           /\ follow' = [follow EXCEPT ![w.s] = y]
    BY <1>1 DEF Subscribe
  <2>2. w.kind = "prepare"
    BY <1>1 DEF Subscribe, Preparing
  <2>3. PICK v : v = [w EXCEPT !.stage = x]
    OBVIOUS
  <2>4. v.kind = "prepare" /\ v.s = w.s
    BY <1>0, <2>2, <2>3 DEF WorkerRecords
  <2>5. cl'.workers = (cl.workers \ {w}) \cup {v} /\ cl'.results = cl.results
    BY <2>1, <2>3 DEF Bindings, Cleanup
  <2>6. Handled(cl', w.s) /\ \A t : Handled(cl, t) => Handled(cl', t)
    BY <2>2, <2>4, <2>5 DEF Handled
  <2>7. \A t \in Sessions : t # w.s => follow'[t] = follow[t]
    BY <2>1 DEF Bindings, HostTyped
  <2> QED BY <1>0, <2>6, <2>7 DEF Accounted, Saved, tableVars, dbVars
<1>2. CASE Post(w)
  <2>1. /\ w.kind = "prepare" /\ follow' = follow
        /\ cl' = [Finish(cl, w) EXCEPT !.results =
                     @ \cup {[request |-> w.request, ok |-> w.stage = "ok"]}]
    BY <1>2 DEF Post, Preparing, hostVars
  <2>2. PICK p : p = [request |-> w.request, ok |-> w.stage = "ok"]
    OBVIOUS
  <2>3. p.request.s = w.s
    BY <2>1, <2>2 DEF Bindings, Sound, Queue, Shaped
  <2>4. /\ cl'.workers = Finish(cl, w).workers /\ cl'.results = cl.results \cup {p}
    BY <2>1, <2>2, FinishParts DEF Bindings, Cleanup
  <2>5. \A t : Handled(cl, t) => Handled(cl', t)
    <3>1. \A u \in cl.workers \ {w} : \E v \in cl'.workers :
             v.kind = u.kind /\ v.s = u.s /\ v.stage = u.stage
      BY <2>4, FinishQueue DEF Bindings, Sound
    <3>2. Handled(cl', w.s)
      BY <2>3, <2>4 DEF Handled
    <3> QED BY <2>4, <3>1, <3>2 DEF Handled
  <2> QED BY <1>0, <2>1, <2>5 DEF Accounted, Saved, tableVars, dbVars
<1>3. CASE Unsubscribe(w)
  <2>1. /\ follow' = [follow EXCEPT ![w.s] = "off"]
        /\ cl' = [cl EXCEPT !.workers = (@ \ {w}) \cup {[w EXCEPT !.stage = "done"]}]
    BY <1>3 DEF Unsubscribe
  <2>2. cl.workers \ {w} \subseteq cl'.workers /\ cl'.results = cl.results
    BY <2>1 DEF Bindings, Cleanup
  <2>3. \A t : t # w.s /\ Handled(cl, t) => Handled(cl', t)
    BY <2>2 DEF Handled
  <2>4. follow'[w.s] = "off" /\ \A t : t # w.s => follow'[t] = follow[t]
    BY <1>0, <2>1 DEF Bindings, HostTyped
  <2> QED BY <1>0, <2>3, <2>4 DEF Accounted, Saved, tableVars, dbVars
<1>4. CASE FinishCleanup(w)
  <2>1. /\ w.kind = "cleanup" /\ w.stage = "done" /\ follow' = follow
        /\ cl' = [Finish(cl, w) EXCEPT !.retries = @ \cup Woken(cl, w.s)]
    BY <1>4 DEF FinishCleanup, hostVars
  <2>2. cl'.workers = Finish(cl, w).workers /\ cl'.results = cl.results
    BY <2>1, FinishParts DEF Bindings, Cleanup
  <2>3. \A t : Handled(cl, t) => Handled(cl', t)
    BY <2>1, <2>2, FinishQueue DEF Handled, Bindings, Sound
  <2> QED BY <1>0, <2>1, <2>3 DEF Accounted, Saved, tableVars, dbVars
<1> QED BY <1>1, <1>2, <1>3, <1>4 DEF Worker

LEMMA ResultAccounts ==
    ASSUME Small, Bindings, Accounted, NEW p \in cl.results, ApplyPrepared(p)
    PROVE  Accounted'
<1>1. PICK r : r = p.request
  OBVIOUS
<1>2. PICK k : k = [cl EXCEPT !.results = @ \ {p},
                              !.attachments[r.c] = IF @ = r THEN None ELSE @]
  OBVIOUS
<1>3. FreeIds(cl) # {} /\ follow' = follow
  BY DEF ApplyPrepared, Room, hostVars
<1>4. r \in Requests /\ r.c \in Conversations /\ r.s \in Sessions
  BY <1>1 DEF Bindings, Cleanup, Results, Requests
<1>5. Over(cl, k, r)
  BY <1>1, <1>2, <1>4 DEF Bindings, Cleanup, Over
<1>6. /\ Sound(k, follow) /\ k \in Cleanup /\ FreeIds(k) # {}
  BY <1>3, <1>4, <1>5, OverSound DEF Bindings, Over
<1>7. \A t : t # r.s /\ Handled(cl, t) => Handled(k, t)
  BY <1>5 DEF Over, Handled
<1>8. CASE StillCurrent(r) /\ p.ok
  <2>1. BindSubscribed(r.c, r.s, k)
    BY <1>1, <1>2, <1>8 DEF ApplyPrepared
  <2> QED BY <1>3, <1>4, <1>6, <1>7, <2>1, BindAccounts DEF Bindings, Accounted
<1>9. CASE ~(StillCurrent(r) /\ p.ok)
  <2>1. cl' = Release(k, r.s) /\ UNCHANGED <<tableVars, dbVars>>
    BY <1>1, <1>2, <1>9 DEF ApplyPrepared
  <2>2. \A t : Handled(k, t) => Handled(cl', t)
    BY <1>4, <1>6, <2>1, EnqueueHandles DEF Release
  <2>3. Bound(r.s) \/ (follow[r.s] # "off" => Handled(cl', r.s))
    <3>1. CASE ~Bound(r.s) /\ Targeted(k, r.s)
      <4>1. Enqueue(k, r.s) = k
        BY <3>1 DEF Enqueue
      <4> QED BY <1>4, <1>6, <2>1, <3>1, <4>1, EnqueueHandles DEF Release
    <3>2. CASE ~Bound(r.s) /\ ~Targeted(k, r.s)
      BY <1>4, <1>6, <2>1, <3>2, EnqueueHandles DEF Release
    <3> QED BY <3>1, <3>2
  <2>4. Bound(r.s) => Saved(r.s)
    BY <1>4, Shown DEF Bindings
  <2> QED BY <1>3, <1>7, <2>1, <2>2, <2>3, <2>4 DEF Accounted, Saved, tableVars, dbVars
<1> QED BY <1>8, <1>9

LEMMA RetryAccounts ==
    ASSUME Bindings, Accounted, NEW r \in cl.retries, ApplyDeferred(r)
    PROVE  Accounted'
<1>1. PICK k : k = [cl EXCEPT !.retries = @ \ {r},
                              !.attachments[r.c] = IF @ = r THEN None ELSE @]
  OBVIOUS
<1>2. /\ cl' = IF ~StillCurrent(r) THEN k
               ELSE IF Cleaning(k, r.s) # {} THEN Defer(k, r)
               ELSE Prepare(k, [r EXCEPT !.prepared = TRUE])
      /\ UNCHANGED <<tableVars, dbVars, hostVars>>
  BY <1>1 DEF ApplyDeferred
<1>3. r \in Requests /\ [r EXCEPT !.prepared = TRUE] \in Requests /\ r.c \in Conversations
  BY DEF Bindings, Cleanup, Requests
<1>4. k \in Cleanup /\ k.workers = cl.workers /\ k.results = cl.results
  BY <1>1, <1>3 DEF Bindings, Cleanup
<1>5. cl.workers \subseteq cl'.workers /\ cl.results \subseteq cl'.results
  BY <1>2, <1>3, <1>4, StartGrows
<1> QED BY <1>2, <1>5, HandledStays DEF Accounted, Saved, tableVars, dbVars, hostVars

LEMMA HostAccounts ==
    ASSUME Small, Bindings, Accounted, NEW s \in Sessions,
           TurnStarted(s) \/ TurnCompleted(s) \/ HostExits(s) \/ HostStarts(s)
    PROVE  Accounted'
<1>1. CASE TurnStarted(s)
  BY <1>1 DEF TurnStarted, Accounted, Saved, tableVars, dbVars, hostVars
<1>2. CASE TurnCompleted(s)
  <2>1. /\ FreeIds(cl) # {} /\ UNCHANGED <<dbVars, hostVars>>
        /\ IF ~Bound(s) /\ drain[s] # None
           THEN drain' = [drain EXCEPT ![s] = None] /\ cl' = Enqueue(cl, s)
           ELSE UNCHANGED <<drain, cl>>
    BY <1>2 DEF TurnCompleted, Room
  <2>2. /\ \A t : Handled(cl, t) => Handled(cl', t)
        /\ cl' = Enqueue(cl, s) => (follow[s] # "off" => Handled(cl', s))
    BY <2>1, EnqueueHandles DEF Bindings
  <2>3. \A t \in Sessions : t # s => drain'[t] = drain[t]
    BY <2>1 DEF Bindings, Consistent, TablesTyped
  <2>4. drain'[s] = drain[s] \/ cl' = Enqueue(cl, s)
    BY <2>1
  <2> QED BY <2>1, <2>2, <2>3, <2>4 DEF Accounted, Saved, dbVars, hostVars
<1>3. CASE HostExits(s) \/ HostStarts(s)
  <2>1. /\ UNCHANGED <<tableVars, dbVars, cl>>
        /\ \/ follow' = follow
           \/ follow[s] # "off" /\ \E x \in {"live", "exited"} : follow' = [follow EXCEPT ![s] = x]
    BY <1>3 DEF HostExits, HostStarts
  <2>2. \A t \in Sessions : follow'[t] # "off" => follow[t] # "off"
    BY <2>1 DEF Bindings, HostTyped
  <2> QED BY <2>1, <2>2 DEF Accounted, Saved, tableVars, dbVars
<1> QED BY <1>1, <1>2, <1>3

LEMMA EventAccounts ==
    ASSUME Bindings, Accounted, HandleExit \/ HandleResume \/ Reconnect \/ Crash \/ Restart
    PROVE  Accounted'
<1>1. CASE HandleExit
  <2>1. PICK s : s = Head(events).s
    OBVIOUS
  <2>2. /\ events # <<>> /\ cl' = CancelSession(cl, s) /\ UNCHANGED <<drain, follow>>
        /\ IF Bound(s)
           THEN LET c == CHOOSE x \in Owner(s) : TRUE IN SuspendBinding(c)
           ELSE UNCHANGED dbVars
    BY <1>1, <2>1 DEF HandleExit
  <2>3. s \in Sessions
    BY <2>1, <2>2, EventTyped DEF Bindings
  <2>4. \A t : Handled(cl', t) <=> Handled(cl, t)
    BY <2>2, <2>3, CancelSessionParts DEF Bindings, Fewer, Handled
  <2>5. \A t : Saved(t) => Saved(t)'
    <3>1. CASE ~Bound(s)
      BY <2>2, <3>1 DEF Saved, dbVars
    <3>2. CASE Bound(s)
      <4>1. PICK c \in Owner(s) : SuspendBinding(c)
        BY <2>2, <3>2 DEF Bound
      <4>2. c \in Conversations /\ cur[c] = s
        BY <4>1 DEF Owner
      <4>3. row[c] # None /\ row[c] \in Rows
        BY <2>3, <4>2, NoneIsNothing, Shown DEF Bindings, Consistent, TablesTyped
      <4>4. PICK y : y = [row[c] EXCEPT !.epoch = dbEpoch[c] + 1]
        OBVIOUS
      <4>5. y.s = row[c].s /\ y \in Rows /\ y # None
        BY <4>2, <4>3, <4>4, NoneIsNothing DEF Rows, Bindings, Consistent, TablesTyped
      <4>6. row' = [row EXCEPT ![c] = y]
        BY <4>1, <4>4 DEF SuspendBinding
      <4> QED BY <4>2, <4>5, <4>6 DEF Saved, Bindings, Consistent, TablesTyped
    <3> QED BY <3>1, <3>2
  <2> QED BY <2>2, <2>4, <2>5 DEF Accounted
<1>2. CASE HandleResume
  <2>1. PICK s : s = Head(events).s
    OBVIOUS
  <2>2. /\ UNCHANGED <<dbVars, cl, follow>>
        /\ \/ UNCHANGED drain
           \/ \E c \in Conversations :
                 /\ row[c] # None /\ row[c].s = s /\ cur[c] # s
                 /\ AttachAtEpoch(c, s, FALSE, row[c].epoch)
    BY <1>2, <2>1 DEF HandleResume, tableVars
  <2>3. ASSUME NEW c \in Conversations, row[c] # None, row[c].s = s, cur[c] # s,
               AttachAtEpoch(c, s, FALSE, row[c].epoch)
        PROVE  \A t \in Sessions : drain'[t] = drain[t] \/ Saved(t)
    <3>1. cur[c] = None
      BY <2>3, Shown DEF Bindings
    <3> QED BY <2>3, <3>1, NoneIsNothing DEF AttachAtEpoch, Saved
  <2> QED BY <2>2, <2>3 DEF Accounted, Saved, dbVars
<1>3. CASE Reconnect
  BY <1>3 DEF Reconnect, Accounted, Saved, tableVars, dbVars, hostVars
<1>4. CASE Crash
  BY <1>4 DEF Crash, Accounted
<1>5. CASE Restart
  <2>1. PICK rejected \in SUBSET Conversations :
         LET kept == {c \in Conversations : row[c] # None} \ rejected IN
         /\ row' = [c \in Conversations |-> IF c \in rejected THEN None ELSE row[c]]
         /\ follow' = [s \in Sessions |->
                          IF \E c \in kept : row[c].s = s
                          THEN RestoredStatus(s) ELSE "off"]
    BY <1>5 DEF Restart
  <2>2. \A t \in Sessions : follow'[t] # "off" => Saved(t)'
    BY <2>1 DEF Saved
  <2> QED BY <2>2 DEF Accounted
<1> QED BY <1>1, <1>2, <1>3, <1>4, <1>5

LEMMA InitAccounted == Init => Accounted
<1> SUFFICES ASSUME Init, NEW s \in Sessions, follow[s] # "off"
             PROVE  Saved(s)
  BY DEF Accounted
<1>1. Bound(s)
  BY DEF Init
<1> QED BY <1>1, InitBindings, Shown DEF Bindings

\* As long as every session can have its unsubscribe (at the capacity of 128 the code says
\* "retaining remote subscription"), a shown session is subscribed, the table agrees with
\* its rows and, when nothing is under way, no subscription is left that nobody is shown,
\* waits for or has saved (release_unused_attachment, handle_turn_completed, commit_detach).
THEOREM BindingsTrueHolds ==
    ASSUME IsFiniteSet(Sessions), Cardinality(Sessions) <= Limit
    PROVE  Spec => []BindingsTrue
<1>0. Small
  BY DEF Small
<1>1. Init => Accounted
  BY InitAccounted
<1>2. Bindings /\ Accounted /\ [Next]_vars => Accounted'
  <2> SUFFICES ASSUME Bindings, Accounted, [Next]_vars PROVE Accounted'
    OBVIOUS
  <2>1. CASE UNCHANGED vars
    BY <2>1 DEF vars, tableVars, dbVars, hostVars, Accounted, Saved
  <2> QED BY <1>0, <2>1, UserAccounts, DetachAccounts, WorkerAccounts, ResultAccounts,
             RetryAccounts, HostAccounts, EventAccounts DEF Next
<1>3. Bindings /\ Accounted => BindingsTrue
  <2> SUFFICES ASSUME Bindings, Accounted PROVE BindingsTrue
    OBVIOUS
  <2>1. TableAgreesWithRows /\ BoundIsFollowed
    BY BindingsAgree
  <2>2. NothingLeftFollowed
    BY DEF NothingLeftFollowed, Quiet, Accounted, Handled
  <2> QED BY <2>1, <2>2 DEF BindingsTrue, SubscriptionsMatch
<1> QED BY <1>1, <1>2, <1>3, BindingsHold, PTL DEF Spec

----------------------------------------------------------------------------
(***************************************************************************)
(* A message that waits for the new session is handed over at most once,   *)
(* in order, and none disappears.  Two workers may hold a copy of the      *)
(* stored record; the argument says what the record must look like while a *)
(* message is with a worker, so that nobody sends the next one, and why a  *)
(* copy that is written back under its revision is the record itself.      *)
(***************************************************************************)
SwitchSpec == SwitchInit /\ [][SwitchNext]_switchVars

Ends == SwitchSessions \cup {NoSession}
Messages == [id : Nat, sending : BOOLEAN]
Switches ==
    [old : Ends, target : Ends, candidate : Ends, epoch : Nat, paused : BOOLEAN,
     messages : Seq(Messages), rev : 1..4]
Copies ==
    [pc : {"idle", "enqueue", "attach", "send", "taken", "failed"},
     sw : Switches \cup {NoSession}, to : Ends, m : Nat]

\* The parts of the invariant are about a record x, the binding b, what is shown h,
\* the copies k, the draft d, the accepted n, the sent q and the told t: a handler
\* that drains the queue at its end is looked at before and after that.
Typed(x, b, h, k, d, n, q) ==
    /\ x \in Switches \cup {NoSession}
    /\ b \in [s : Ends, epoch : Nat]
    /\ h \in Ends /\ (h # NoSession => h = b.s)
    /\ k \in [Workers -> Copies]
    /\ d \in Nat /\ n \in Nat /\ q \in Seq(Nat)

Past(q, m) == \A i \in 1..Len(q) : q[i] < m
InSend(p) == p.pc \in {"send", "taken", "failed"}
HeadSends(x) == x.messages # <<>> /\ x.messages[1].sending
Ascending(q, n) ==
    /\ \A i \in 1..Len(q) : q[i] \in 1..n
    /\ \A i, j \in 1..Len(q) : i < j => q[i] < q[j]
Drafted(d, n, q) == d # 0 => d <= n /\ Past(q, d)

\* What a worker holds: the new session it waits for, or the message it sends, which is
\* the head of its copy.
Holds(p, n) ==
    /\ p.pc = "idle" <=> p.sw = NoSession
    /\ p.pc = "attach" =>
           p.sw.target = NoSession /\ ~p.sw.paused /\ p.to # NoSession
    /\ InSend(p) =>
           /\ HeadSends(p.sw) /\ p.sw.messages[1].id = p.m /\ p.m \in 1..n
           /\ p.sw.target # NoSession /\ ~p.sw.paused
Sender(p, d, q) ==
    /\ p.pc = "send" => d = 0 /\ Past(q, p.m)
    /\ InSend(p) /\ d # 0 => p.pc = "taken" /\ p.m = d

\* A copy that has the revision of the record is the record, and what it sent is known.
Current(p, x) == p.pc # "idle" /\ x # NoSession /\ p.sw.rev = x.rev
Elements(q) == {q[i] : i \in 1..Len(q)}
Fenced(p, x, d, q, t) ==
    Current(p, x) =>
        /\ p.sw = x
        /\ p.pc = "taken" => p.m = d \/ p.m \in t \cup Elements(q)

\* The record: ids ascend, only the head may be with a worker.
Line(x, b, n) ==
    x # NoSession =>
        /\ x.epoch <= b.epoch
        /\ \A i \in 1..Len(x.messages) : x.messages[i].id \in 1..n
        /\ \A i, j \in 1..Len(x.messages) :
              i < j => x.messages[i].id < x.messages[j].id
        /\ \A i \in 1..Len(x.messages) :
              x.messages[i].sending => i = 1 /\ x.target # NoSession

\* What still waits comes after all that was sent, is being sent or is a draft; the head
\* may be the draft itself.
Live(x, b) == x # NoSession /\ x.epoch = b.epoch
Ahead(x, b, k, d, q) ==
    Live(x, b) =>
        \A i \in 1..Len(x.messages) : ~x.messages[i].sending =>
            /\ Past(q, x.messages[i].id)
            /\ \A w \in Workers : InSend(k[w]) => k[w].m < x.messages[i].id
            /\ \/ d < x.messages[i].id
               \/ i = 1 /\ d = x.messages[1].id /\ x.target # NoSession /\ ~x.paused
Follows(x, b) == Live(x, b) /\ x.target # NoSession => b.s = x.target

\* While a message is with a worker no other is taken from the queue. The worker of the
\* conversation leaves the record to nobody else; the event worker may lose it.
Alone(k) == \A v, w \in Workers : InSend(k[v]) /\ InSend(k[w]) => v = w
Guarded(x, b, k) ==
    /\ \A w \in Workers :
          InSend(k[w]) /\ Live(x, b) /\ x.target # NoSession => HeadSends(x)
    /\ InSend(k["conversation"]) =>
          x # NoSession /\ HeadSends(x) /\ x.target # NoSession
    /\ InSend(k["event"]) /\ x # NoSession /\ x.target = NoSession =>
          x.candidate = NoSession
Parted(x, k) ==
    InSend(k["event"]) /\ k["conversation"].pc = "attach"
        => ~Current(k["conversation"], x)

Known(x, n, q, t) == \A m \in 1..n : m \in Queued(x) \cup t \cup Elements(q)

Switching(x, b, h, k, d, n, q, t) ==
    /\ Typed(x, b, h, k, d, n, q)
    /\ Ascending(q, n) /\ Drafted(d, n, q)
    /\ \A w \in Workers : Holds(k[w], n) /\ Sender(k[w], d, q) /\ Fenced(k[w], x, d, q, t)
    /\ Alone(k) /\ Parted(x, k)
    /\ Line(x, b, n) /\ Ahead(x, b, k, d, q) /\ Follows(x, b) /\ Guarded(x, b, k)
    /\ Known(x, n, q, t)

\* Messages that were in no queue or left it unsent.
Gone == told \cup unsaved
SwitchInv == Switching(sw, bound, shown, copy, draft, accepted, sent, Gone)

\* The value for "no session" is no session and no record.
NothingApart == NoSession \notin SwitchSessions /\ NoSession \notin Switches

----------------------------------------------------------------------------
\* Queues by their elements.

LEMMA Appended ==
    ASSUME NEW S, NEW q \in Seq(S), NEW e \in S
    PROVE  /\ Append(q, e) \in Seq(S) /\ Len(q) \in Nat
           /\ Len(Append(q, e)) = Len(q) + 1 /\ Append(q, e)[Len(q) + 1] = e
           /\ \A i \in 1..Len(q) : Append(q, e)[i] = q[i]
           /\ \A i \in 1..Len(Append(q, e)) : i \in 1..Len(q) \/ i = Len(q) + 1
<1> DEFINE r == Append(q, e)
<1>1. /\ r \in Seq(S) /\ Len(q) \in Nat /\ Len(r) = Len(q) + 1
      /\ r[Len(q) + 1] = e /\ \A i \in 1..Len(q) : r[i] = q[i]
  OBVIOUS
<1> HIDE DEF r
<1>2. \A i \in 1..Len(r) : i \in 1..Len(q) \/ i = Len(q) + 1
  BY <1>1
<1> QED BY <1>1, <1>2 DEF r

LEMMA Dequeued ==
    ASSUME NEW S, NEW q \in Seq(S), q # <<>>
    PROVE  /\ Tail(q) \in Seq(S) /\ Len(q) \in Nat \ {0} /\ Len(Tail(q)) = Len(q) - 1
           /\ q[1] \in S
           /\ \A i \in 1..Len(Tail(q)) : Tail(q)[i] = q[i + 1] /\ i + 1 \in 2..Len(q)
           /\ \A i \in 1..Len(q) : i = 1 \/ (i - 1 \in 1..Len(Tail(q)) /\ Tail(q)[i - 1] = q[i])
<1> DEFINE r == Tail(q)
<1>1. /\ r \in Seq(S) /\ Len(q) \in Nat \ {0} /\ Len(r) = Len(q) - 1 /\ q[1] \in S
      /\ \A i \in 1..Len(r) : r[i] = q[i + 1]
  OBVIOUS
<1> HIDE DEF r
<1>2. \A i \in 1..Len(r) : i + 1 \in 2..Len(q)
  BY <1>1
<1>3. \A i \in 1..Len(q) : i = 1 \/ (i - 1 \in 1..Len(r) /\ r[i - 1] = q[i])
  BY <1>1
<1> QED BY <1>1, <1>2, <1>3 DEF r

LEMMA Replaced ==
    ASSUME NEW S, NEW q \in Seq(S), q # <<>>, NEW e \in S
    PROVE  LET r == [q EXCEPT ![1] = e] IN
           /\ r \in Seq(S) /\ Len(q) \in Nat \ {0} /\ Len(r) = Len(q) /\ r[1] = e
           /\ r # <<>> /\ 1 \in 1..Len(q)
           /\ \A i \in 1..Len(q) : i # 1 => r[i] = q[i]
  OBVIOUS

\* The elements of a queue with one more.
LEMMA AppendedElements ==
    ASSUME NEW q \in Seq(Nat), NEW m \in Nat
    PROVE  Elements(Append(q, m)) = Elements(q) \cup {m}
<1>1. \A i \in 1..Len(q) : i \in 1..Len(Append(q, m)) /\ Append(q, m)[i] = q[i]
  BY Appended
<1>2. Len(q) + 1 \in 1..Len(Append(q, m)) /\ Append(q, m)[Len(q) + 1] = m
  BY Appended
<1>3. \A i \in 1..Len(Append(q, m)) : i \in 1..Len(q) \/ i = Len(q) + 1
  BY Appended
<1> QED BY <1>1, <1>2, <1>3 DEF Elements

\* A message that follows everything sent.
LEMMA SentNext ==
    ASSUME NEW q \in Seq(Nat), NEW n \in Nat, NEW m \in 1..n, Ascending(q, n), Past(q, m)
    PROVE  /\ Append(q, m) \in Seq(Nat) /\ Ascending(Append(q, m), n)
           /\ Elements(Append(q, m)) = Elements(q) \cup {m}
           /\ \A j \in Nat : m < j /\ Past(q, j) => Past(Append(q, m), j)
<1>1. /\ Append(q, m) \in Seq(Nat) /\ Len(q) \in Nat
      /\ Len(Append(q, m)) = Len(q) + 1 /\ Append(q, m)[Len(q) + 1] = m
      /\ \A i \in 1..Len(q) : Append(q, m)[i] = q[i]
      /\ \A i \in 1..Len(Append(q, m)) : i \in 1..Len(q) \/ i = Len(q) + 1
  BY Appended
<1> DEFINE r == Append(q, m)
<1> HIDE DEF r
<1>2. \A i, j \in 1..Len(r) : i < j => r[i] < r[j]
  <2> SUFFICES ASSUME NEW i \in 1..Len(r), NEW j \in 1..Len(r), i < j PROVE r[i] < r[j]
    OBVIOUS
  <2>1. i \in 1..Len(q)
    BY <1>1 DEF r
  <2>2. CASE j \in 1..Len(q)
    BY <2>1, <2>2, <1>1 DEF r, Ascending
  <2>3. CASE j = Len(q) + 1
    BY <2>1, <2>3, <1>1 DEF r, Past
  <2> QED BY <2>2, <2>3, <1>1 DEF r
<1>3. \A i \in 1..Len(r) : r[i] \in 1..n
  BY <1>1 DEF r, Ascending
<1>4. \A j \in Nat : m < j /\ Past(q, j) => Past(r, j)
  BY <1>1 DEF r, Past
<1>5. Elements(r) = Elements(q) \cup {m}
  BY AppendedElements DEF r
<1> QED BY <1>1, <1>2, <1>3, <1>4, <1>5 DEF r, Ascending

\* A revision nobody carries.
LEMMA FreshRecord ==
    ASSUME copy \in [Workers -> Copies], sw \in Switches \cup {NoSession}
    PROVE  /\ FreshRevision \in 1..4
           /\ \A w \in Workers : copy[w].sw # NoSession => copy[w].sw.rev # FreshRevision
           /\ sw # NoSession => sw.rev # FreshRevision
<1> DEFINE a == IF copy["conversation"].sw # NoSession THEN copy["conversation"].sw.rev ELSE 1
           b == IF copy["event"].sw # NoSession THEN copy["event"].sw.rev ELSE 1
           c == IF sw # NoSession THEN sw.rev ELSE 1
<1>1. a \in 1..4 /\ b \in 1..4 /\ c \in 1..4
  BY DEF Workers, Copies, Switches
<1>2. Revisions \subseteq {a, b, c}
  BY DEF Revisions, Workers
<1> HIDE DEF a, b, c
<1>3. \E r \in 1..4 : r # a /\ r # b /\ r # c
  <2>1. (1 # a /\ 1 # b /\ 1 # c) \/ (2 # a /\ 2 # b /\ 2 # c)
        \/ (3 # a /\ 3 # b /\ 3 # c) \/ (4 # a /\ 4 # b /\ 4 # c)
    BY <1>1
  <2> QED BY <2>1
<1>4. FreshRevision \in 1..4 /\ FreshRevision \notin Revisions
  BY <1>2, <1>3 DEF FreshRevision
<1> QED BY <1>4 DEF Revisions
----------------------------------------------------------------------------
\* What leaves the invariant as it is: the record is written again with a revision of
\* its own, forgotten, a worker lets go of its copy, the user is told more, a draft goes
\* away, or the conversation is bound anew.

Unknown(k, r) == \A w \in Workers : k[w].sw # NoSession => k[w].sw.rev # r

LEMMA Changed ==
    ASSUME NothingApart, NEW x, NEW b, NEW h, NEW k, NEW d, NEW n, NEW q, NEW t,
           Switching(x, b, h, k, d, n, q, t), NEW y \in Switches, Unknown(k, y.rev),
           Line(y, b, n), Ahead(y, b, k, d, q), Follows(y, b), Guarded(y, b, k),
           Known(y, n, q, t)
    PROVE  Switching(y, b, h, k, d, n, q, t)
<1>1. \A w \in Workers : ~Current(k[w], y)
  BY DEF Switching, Current, Holds, Unknown
<1>2. Typed(y, b, h, k, d, n, q)
  BY DEF Switching, Typed
<1>3. Parted(y, k) /\ \A w \in Workers : Fenced(k[w], y, d, q, t)
  BY <1>1 DEF Parted, Fenced, Workers
<1> QED BY <1>2, <1>3 DEF Switching

SameLine(y, x) == y.messages = x.messages /\ y.target = x.target /\ y.epoch = x.epoch

\* Pausing keeps what comes after a draft: the draft is not at the head of a record that
\* is live and paused.
LEMMA Rewritten ==
    ASSUME NothingApart, NEW x \in Switches, NEW b, NEW h, NEW k, NEW d, NEW n, NEW q, NEW t,
           Switching(x, b, h, k, d, n, q, t), NEW y \in Switches, Unknown(k, y.rev),
           SameLine(y, x),
           y.paused => x.paused \/ d = 0 \/ x.target = NoSession \/ x.epoch # b.epoch
                       \/ HeadSends(x),
           y.candidate = x.candidate \/ y.candidate = NoSession
               \/ y.target # NoSession \/ ~InSend(k["event"])
    PROVE  Switching(y, b, h, k, d, n, q, t)
<1>1. x # NoSession /\ y # NoSession
  BY DEF NothingApart
<1>2. Line(y, b, n) /\ Follows(y, b) /\ Known(y, n, q, t)
  BY <1>1 DEF Switching, Line, Follows, Known, Queued, Live, SameLine
<1>3. Guarded(y, b, k)
  BY <1>1 DEF Switching, Guarded, Live, SameLine, HeadSends
<1>4. Ahead(y, b, k, d, q)
  <2> SUFFICES ASSUME Live(y, b), NEW i \in 1..Len(y.messages), ~y.messages[i].sending
               PROVE  /\ Past(q, y.messages[i].id)
                      /\ \A w \in Workers : InSend(k[w]) => k[w].m < y.messages[i].id
                      /\ \/ d < y.messages[i].id
                         \/ /\ i = 1 /\ d = y.messages[1].id /\ y.target # NoSession
                            /\ ~y.paused
    BY DEF Ahead
  <2>1. Live(x, b) /\ i \in 1..Len(x.messages) /\ ~x.messages[i].sending
    BY <1>1 DEF Live, SameLine
  <2>2. /\ Past(q, x.messages[i].id)
        /\ \A w \in Workers : InSend(k[w]) => k[w].m < x.messages[i].id
        /\ \/ d < x.messages[i].id
           \/ i = 1 /\ d = x.messages[1].id /\ x.target # NoSession /\ ~x.paused
    BY <2>1 DEF Switching, Ahead
  <2>3. CASE y.paused /\ ~x.paused
    <3>1. x.messages[i].id \in 1..n /\ n \in Nat
      BY <2>1 DEF Switching, Line, Live, Typed
    <3>2. d = 0 \/ x.target = NoSession \/ HeadSends(x)
      BY <2>1, <2>3 DEF Live
    <3>3. d = 0 => d < x.messages[i].id
      BY <3>1
    <3> QED BY <2>1, <2>2, <3>2, <3>3 DEF SameLine, HeadSends
  <2>4. CASE ~(y.paused /\ ~x.paused)
    BY <2>2, <2>4 DEF SameLine
  <2> QED BY <2>3, <2>4
<1> QED BY <1>2, <1>3, <1>4, Changed

\* The record goes: its messages are sent or told, and no worker of the conversation is
\* inside a send.
LEMMA Forgotten ==
    ASSUME NothingApart, NEW x, NEW b, NEW h, NEW k, NEW d, NEW n, NEW q, NEW t,
           Switching(x, b, h, k, d, n, q, t), ~InSend(k["conversation"]),
           Known(NoSession, n, q, t)
    PROVE  Switching(NoSession, b, h, k, d, n, q, t)
<1>1. Typed(NoSession, b, h, k, d, n, q)
  BY DEF Switching, Typed
<1>2. Line(NoSession, b, n) /\ Ahead(NoSession, b, k, d, q) /\ Follows(NoSession, b)
  BY DEF Line, Ahead, Follows, Live
<1>3. Guarded(NoSession, b, k) /\ Parted(NoSession, k)
  BY DEF Guarded, Live, Parted, Current
<1>4. \A w \in Workers : Fenced(k[w], NoSession, d, q, t)
  BY DEF Fenced, Current
<1> QED BY <1>1, <1>2, <1>3, <1>4 DEF Switching

LEMMA IdleCopy ==
    ASSUME NothingApart
    PROVE  /\ NoCopy \in Copies /\ ~InSend(NoCopy) /\ NoCopy.pc = "idle" /\ NoCopy.sw = NoSession
           /\ \A n, d, q, x, t : Holds(NoCopy, n) /\ Sender(NoCopy, d, q) /\ Fenced(NoCopy, x, d, q, t)
  BY DEF NoCopy, Copies, Ends, InSend, Holds, Sender, Fenced, Current

LEMMA Released ==
    ASSUME NothingApart, NEW x, NEW b, NEW h, NEW k, NEW d, NEW n, NEW q, NEW t,
           Switching(x, b, h, k, d, n, q, t), NEW w \in Workers
    PROVE  Switching(x, b, h, [k EXCEPT ![w] = NoCopy], d, n, q, t)
<1> DEFINE j == [k EXCEPT ![w] = NoCopy]
<1>1. /\ j \in [Workers -> Copies]
      /\ \A v \in Workers : j[v] = k[v] \/ j[v] = NoCopy
  BY IdleCopy DEF Switching, Typed
<1> HIDE DEF j
<1>2. Typed(x, b, h, j, d, n, q)
  BY <1>1 DEF Switching, Typed
<1>3. \A v \in Workers : Holds(j[v], n) /\ Sender(j[v], d, q) /\ Fenced(j[v], x, d, q, t)
  BY <1>1, IdleCopy DEF Switching
<1>4. \A v \in Workers : InSend(j[v]) => InSend(k[v]) /\ j[v] = k[v]
  BY <1>1, IdleCopy
<1>5. Alone(j)
  BY <1>4 DEF Switching, Alone
<1>6. Parted(x, j)
  BY <1>1, <1>4, IdleCopy DEF Switching, Parted, Workers
<1>7. Ahead(x, b, j, d, q)
  BY <1>4 DEF Switching, Ahead
<1>8. Guarded(x, b, j)
  BY <1>4 DEF Switching, Guarded, Workers
<1> QED BY <1>2, <1>3, <1>5, <1>6, <1>7, <1>8 DEF Switching, j

LEMMA ToldMore ==
    ASSUME NEW x, NEW b, NEW h, NEW k, NEW d, NEW n, NEW q, NEW t, NEW u, t \subseteq u,
           Switching(x, b, h, k, d, n, q, t)
    PROVE  Switching(x, b, h, k, d, n, q, u)
<1>1. \A w \in Workers : Fenced(k[w], x, d, q, u)
  BY DEF Switching, Fenced
<1>2. Known(x, n, q, u)
  BY DEF Switching, Known
<1> QED BY <1>1, <1>2 DEF Switching

LEMMA DraftGone ==
    ASSUME NEW x, NEW b, NEW h, NEW k, NEW d, NEW n, NEW q, NEW t, NEW u,
           t \subseteq u, d = 0 \/ d \in u \/ \A w \in Workers : InSend(k[w]) => ~Current(k[w], x),
           NothingApart,
           Switching(x, b, h, k, d, n, q, t)
    PROVE  Switching(x, b, h, k, 0, n, q, u)
<1>1. Typed(x, b, h, k, 0, n, q)
  BY DEF Switching, Typed
<1>2. Drafted(0, n, q) /\ Known(x, n, q, u)
  BY DEF Drafted, Switching, Known
<1>3. \A w \in Workers : Sender(k[w], 0, q) /\ Fenced(k[w], x, 0, q, u)
  <2> SUFFICES ASSUME NEW w \in Workers
               PROVE  Sender(k[w], 0, q) /\ Fenced(k[w], x, 0, q, u)
    OBVIOUS
  <2>1. Sender(k[w], d, q) /\ Fenced(k[w], x, d, q, t) /\ Holds(k[w], n) /\ n \in Nat
    BY DEF Switching, Typed
  <2>2. Sender(k[w], 0, q)
    BY <2>1 DEF Sender
  <2>3. k[w].pc = "taken" => k[w].m # 0 /\ InSend(k[w])
    BY <2>1 DEF Holds, InSend
  <2> QED BY <2>1, <2>2, <2>3 DEF Fenced
<1>4. Ahead(x, b, k, 0, q)
  <2> SUFFICES ASSUME Live(x, b), NEW i \in 1..Len(x.messages), ~x.messages[i].sending
               PROVE  /\ Past(q, x.messages[i].id)
                      /\ \A w \in Workers : InSend(k[w]) => k[w].m < x.messages[i].id
                      /\ 0 < x.messages[i].id
    BY DEF Ahead
  <2>1. x.messages[i].id \in 1..n /\ n \in Nat
    BY DEF Switching, Line, Live, Typed
  <2> QED BY <2>1 DEF Switching, Ahead
<1> QED BY <1>1, <1>2, <1>3, <1>4 DEF Switching

LEMMA BoundAnew ==
    ASSUME NothingApart, NEW x, NEW b, NEW h, NEW k, NEW d, NEW n, NEW q, NEW t,
           Switching(x, b, h, k, d, n, q, t),
           NEW c \in [s : Ends, epoch : Nat], c.epoch = b.epoch + 1,
           NEW g \in Ends, g # NoSession => g = c.s
    PROVE  Switching(x, c, g, k, d, n, q, t)
<1>1. b.epoch \in Nat /\ (x # NoSession => x.epoch \in Nat)
  BY DEF Switching, Typed, Switches
<1>2. Line(x, c, n) /\ ~Live(x, c)
  BY <1>1 DEF Switching, Line, Live
<1>3. Ahead(x, c, k, d, q) /\ Follows(x, c) /\ Guarded(x, c, k)
  BY <1>2 DEF Switching, Ahead, Follows, Guarded
<1> QED BY <1>2, <1>3 DEF Switching, Typed

\* A worker takes a copy and waits for the agent to attach the new session.
LEMMA WaitsForAgent ==
    ASSUME NothingApart, NEW x \in Switches, NEW b, NEW h, NEW k, NEW d, NEW n, NEW q, NEW t,
           Switching(x, b, h, k, d, n, q, t), NEW w \in Workers, NEW s \in SwitchSessions,
           x.target = NoSession, ~x.paused, ~InSend(k["event"])
    PROVE  Switching(x, b, h,
               [k EXCEPT ![w] = [pc |-> "attach", sw |-> x, to |-> s, m |-> 0]],
               d, n, q, t)
<1> DEFINE p == [pc |-> "attach", sw |-> x, to |-> s, m |-> 0]
           j == [k EXCEPT ![w] = p]
<1>0. x # NoSession /\ s # NoSession
  BY DEF NothingApart
<1>1. /\ p \in Copies /\ p.pc = "attach" /\ p.sw = x /\ p.to = s
  BY DEF Copies, Ends
<1>2. k \in [Workers -> Copies]
  BY DEF Switching, Typed
<1>3. /\ j \in [Workers -> Copies]
      /\ \A v \in Workers : j[v] = k[v] \/ j[v] = p
  BY <1>1, <1>2
<1> HIDE DEF j, p
<1>4. ~InSend(p) /\ Holds(p, n) /\ Sender(p, d, q) /\ Fenced(p, x, d, q, t)
  BY <1>0, <1>1 DEF InSend, Holds, Sender, Fenced
<1>5. \A v \in Workers : InSend(j[v]) => InSend(k[v]) /\ j[v] = k[v]
  BY <1>3, <1>4
<1>6. \A v \in Workers : Holds(j[v], n) /\ Sender(j[v], d, q) /\ Fenced(j[v], x, d, q, t)
  BY <1>3, <1>4 DEF Switching
<1>7. Typed(x, b, h, j, d, n, q)
  BY <1>3 DEF Switching, Typed
<1>8. Alone(j) /\ Ahead(x, b, j, d, q) /\ Guarded(x, b, j)
  BY <1>5 DEF Switching, Alone, Ahead, Guarded, Workers
<1>9. Parted(x, j)
  BY <1>5 DEF Parted, Workers
<1> QED BY <1>6, <1>7, <1>8, <1>9 DEF Switching, j, p
----------------------------------------------------------------------------
\* Writes of the record.

LEMMA SavedRecord ==
    ASSUME NothingApart, SwitchInv, NEW x \in Switches
    PROVE  /\ Revised(x) \in Switches /\ Unknown(copy, Revised(x).rev)
           /\ SameLine(Revised(x), x) /\ Revised(x).rev = FreshRevision
           /\ Revised(x).candidate = x.candidate /\ Revised(x).paused = x.paused
           /\ Revised(x).old = x.old
<1>1. copy \in [Workers -> Copies] /\ sw \in Switches \cup {NoSession}
  BY DEF SwitchInv, Switching, Typed
<1>2. FreshRevision \in 1..4 /\ Unknown(copy, FreshRevision)
  BY <1>1, FreshRecord DEF Unknown
<1> QED BY <1>2 DEF Revised, Switches, SameLine

\* The head of the queue is marked or unmarked, or leaves.
LEMMA HeadMarked ==
    ASSUME NothingApart, SwitchInv, NEW x \in Switches, x.messages # <<>>, NEW v \in BOOLEAN
    PROVE  LET y == Revised([x EXCEPT !.messages[1].sending = v]) IN
           /\ y \in Switches /\ y.rev = FreshRevision
           /\ y.target = x.target /\ y.epoch = x.epoch /\ y.paused = x.paused
           /\ y.candidate = x.candidate
           /\ Len(y.messages) = Len(x.messages) /\ Len(x.messages) \in Nat
           /\ y.messages # <<>> /\ 1 \in 1..Len(x.messages)
           /\ y.messages[1].sending = v /\ y.messages[1].id = x.messages[1].id
           /\ \A i \in 1..Len(x.messages) : i # 1 => y.messages[i] = x.messages[i]
           /\ \A i \in 1..Len(x.messages) : y.messages[i].id = x.messages[i].id
<1> DEFINE u == x.messages
           f == [u[1] EXCEPT !.sending = v]
           r == [u EXCEPT ![1] = f]
           z == [x EXCEPT !.messages = r]
           y == Revised([x EXCEPT !.messages[1].sending = v])
<1>1. u \in Seq(Messages) /\ u # <<>>
  BY DEF Switches
<1>2. u[1] \in Messages /\ Len(u) \in Nat
  BY <1>1, Dequeued
<1>3. f \in Messages /\ f.sending = v /\ f.id = u[1].id
  BY <1>2 DEF Messages
<1>4. /\ r \in Seq(Messages) /\ Len(r) = Len(u) /\ r[1] = f /\ r # <<>>
      /\ 1 \in 1..Len(u)
      /\ \A i \in 1..Len(u) : i # 1 => r[i] = u[i]
  <2> HIDE DEF u, f
  <2> QED BY <1>1, <1>3, Replaced
<1>5. [x EXCEPT !.messages[1].sending = v] = z
  OBVIOUS
<1>6. z \in Switches /\ z.messages = r /\ z.target = x.target /\ z.epoch = x.epoch
      /\ z.paused = x.paused /\ z.candidate = x.candidate
  <2> HIDE DEF r
  <2> QED BY <1>4 DEF Switches
<1>7. /\ y \in Switches /\ y.rev = FreshRevision /\ y.messages = r
      /\ y.target = x.target /\ y.epoch = x.epoch
      /\ y.paused = x.paused /\ y.candidate = x.candidate
  <2>1. y = Revised(z)
    BY <1>5
  <2> HIDE DEF z, y, r
  <2> QED BY <1>6, <2>1, SavedRecord DEF SameLine
<1> HIDE DEF f, r, z, y
<1> QED BY <1>2, <1>3, <1>4, <1>7 DEF u, y

LEMMA HeadGone ==
    ASSUME NothingApart, SwitchInv, NEW x \in Switches, x.messages # <<>>
    PROVE  LET y == Revised([x EXCEPT !.messages = Tail(@)]) IN
           /\ y \in Switches /\ y.rev = FreshRevision
           /\ y.target = x.target /\ y.epoch = x.epoch /\ y.paused = x.paused
           /\ y.candidate = x.candidate
           /\ Len(y.messages) = Len(x.messages) - 1 /\ Len(x.messages) \in Nat
           /\ \A i \in 1..Len(y.messages) :
                 y.messages[i] = x.messages[i + 1] /\ i + 1 \in 2..Len(x.messages)
           /\ Queued(x) \subseteq Queued(y) \cup {x.messages[1].id}
<1> DEFINE u == x.messages
           z == [x EXCEPT !.messages = Tail(u)]
           y == Revised([x EXCEPT !.messages = Tail(@)])
<1>1. u \in Seq(Messages) /\ u # <<>>
  BY DEF Switches
<1>2. /\ Tail(u) \in Seq(Messages) /\ Len(u) \in Nat /\ Len(Tail(u)) = Len(u) - 1
      /\ \A i \in 1..Len(Tail(u)) : Tail(u)[i] = u[i + 1] /\ i + 1 \in 2..Len(u)
      /\ \A i \in 1..Len(u) : i = 1 \/ (i - 1 \in 1..Len(Tail(u)) /\ Tail(u)[i - 1] = u[i])
  <2> HIDE DEF u
  <2> QED BY <1>1, Dequeued
<1>3. z \in Switches /\ z.messages = Tail(u) /\ z.target = x.target /\ z.epoch = x.epoch
      /\ z.paused = x.paused /\ z.candidate = x.candidate
  BY <1>2 DEF Switches
<1>4. /\ y \in Switches /\ y.rev = FreshRevision /\ y.messages = Tail(u)
      /\ y.target = x.target /\ y.epoch = x.epoch
      /\ y.paused = x.paused /\ y.candidate = x.candidate
  <2>1. y = Revised(z)
    OBVIOUS
  <2> HIDE DEF z, y, u
  <2> QED BY <1>3, <2>1, SavedRecord DEF SameLine
<1>5. x # NoSession /\ y # NoSession
  BY <1>4 DEF NothingApart
<1> HIDE DEF y
<1>6. Queued(x) \subseteq Queued(y) \cup {x.messages[1].id}
  BY <1>2, <1>4, <1>5 DEF Queued
<1> QED BY <1>2, <1>4, <1>6 DEF y, u

----------------------------------------------------------------------------
\* drain_session_switch keeps the invariant: it takes a message only when none is with a
\* worker, and then the message follows all that was sent.

LEMMA MarksHead ==
    ASSUME NothingApart, SwitchInv, NEW x \in Switches, NEW b, NEW h, NEW d, NEW n, NEW t,
           NEW w \in Workers, NEW k, k = [copy EXCEPT ![w] = NoCopy],
           Switching(x, b, h, k, d, n, sent, t),
           CanDrain(x, h, b, d), x.messages # <<>>, ~x.messages[1].sending,
           NEW y, y = MarkedSending(x)
    PROVE  /\ Switching(y, b, h,
                 [k EXCEPT ![w] = [pc |-> "send", sw |-> y, to |-> NoSession,
                                   m |-> y.messages[1].id]],
                 d, n, sent, t)
           /\ y # NoSession /\ y # x /\ ~y.paused
<1> DEFINE m == x.messages[1].id
           p == [pc |-> "send", sw |-> y, to |-> NoSession, m |-> y.messages[1].id]
           j == [k EXCEPT ![w] = p]
<1>1. /\ y \in Switches /\ y.rev = FreshRevision
      /\ y.target = x.target /\ y.epoch = x.epoch /\ y.paused = x.paused
      /\ y.candidate = x.candidate
      /\ Len(y.messages) = Len(x.messages) /\ Len(x.messages) \in Nat
      /\ y.messages # <<>> /\ 1 \in 1..Len(x.messages)
      /\ y.messages[1].sending = TRUE /\ y.messages[1].id = m
      /\ \A i \in 1..Len(x.messages) : i # 1 => y.messages[i] = x.messages[i]
      /\ \A i \in 1..Len(x.messages) : y.messages[i].id = x.messages[i].id
  BY HeadMarked DEF MarkedSending
<1>2. x # NoSession /\ y # NoSession
  BY <1>1 DEF NothingApart
<1>3. /\ d = 0 /\ x.target # NoSession /\ ~x.paused /\ Live(x, b)
  BY <1>2 DEF CanDrain, Live
<1>4. y # x /\ ~y.paused /\ HeadSends(y)
  BY <1>1, <1>3 DEF HeadSends
<1>5. \A v \in Workers : ~InSend(k[v])
  BY <1>3 DEF Switching, Guarded, HeadSends
<1>6. /\ Past(sent, m) /\ m \in 1..n /\ m \in Nat
      /\ \A i \in 1..Len(x.messages) : i # 1 => m < x.messages[i].id
  <2>1. 1 \in 1..Len(x.messages) /\ m \in 1..n /\ n \in Nat
    BY <1>1, <1>2 DEF Switching, Line, Typed
  <2>2. Past(sent, m)
    BY <1>1, <1>3 DEF Switching, Ahead
  <2>3. \A i \in 1..Len(x.messages) : i # 1 => 1 < i
    OBVIOUS
  <2> QED BY <2>1, <2>2, <2>3, <1>2 DEF Switching, Line
<1>7. /\ p \in Copies /\ p.pc = "send" /\ p.sw = y /\ p.m = m /\ InSend(p)
  BY <1>1, <1>6 DEF Copies, Ends, InSend
<1>8. /\ j \in [Workers -> Copies] /\ j[w] = p
      /\ \A v \in Workers : v # w => j[v] = k[v]
  BY <1>7 DEF Switching, Typed
<1> HIDE DEF j, p, m
<1>9. /\ Holds(p, n) /\ Sender(p, d, sent) /\ Fenced(p, y, d, sent, t)
  BY <1>1, <1>2, <1>3, <1>4, <1>6, <1>7 DEF Holds, Sender, Fenced, m
<1>10. copy \in [Workers -> Copies] /\ Unknown(copy, y.rev)
  BY <1>1, FreshRecord DEF SwitchInv, Switching, Typed, Unknown
<1>11. \A v \in Workers : v # w => ~Current(k[v], y)
  <2> SUFFICES ASSUME NEW v \in Workers, v # w PROVE ~Current(k[v], y)
    OBVIOUS
  <2>1. k[v] = copy[v] /\ Holds(k[v], n)
    BY <1>10 DEF Switching
  <2> QED BY <2>1, <1>10 DEF Unknown, Current, Holds
<1>12. \A v \in Workers :
          /\ Holds(j[v], n) /\ Sender(j[v], d, sent) /\ Fenced(j[v], y, d, sent, t)
          /\ InSend(j[v]) => v = w
  <2> SUFFICES ASSUME NEW v \in Workers
               PROVE  /\ Holds(j[v], n) /\ Sender(j[v], d, sent)
                      /\ Fenced(j[v], y, d, sent, t)
                      /\ InSend(j[v]) => v = w
    OBVIOUS
  <2>1. CASE v = w
    BY <2>1, <1>8, <1>9
  <2>2. CASE v # w
    BY <2>2, <1>5, <1>8, <1>11 DEF Switching, Fenced
  <2> QED BY <2>1, <2>2
<1>13. Typed(y, b, h, j, d, n, sent)
  BY <1>1, <1>8 DEF Switching, Typed
<1>14. Alone(j)
  BY <1>12 DEF Alone
<1>15. Parted(y, j)
  <2>1. CASE w = "event"
    BY <2>1, <1>8, <1>11 DEF Parted, Workers
  <2>2. CASE w # "event"
    BY <2>2, <1>12 DEF Parted, Workers
  <2> QED BY <2>1, <2>2
<1>16. Line(y, b, n)
  BY <1>1, <1>2, <1>3, <1>4 DEF Switching, Line, HeadSends
<1>17. Ahead(y, b, j, d, sent)
  <2> SUFFICES ASSUME NEW i \in 1..Len(y.messages), ~y.messages[i].sending
               PROVE  /\ Past(sent, y.messages[i].id)
                      /\ \A v \in Workers : InSend(j[v]) => j[v].m < y.messages[i].id
                      /\ d < y.messages[i].id
    BY DEF Ahead
  <2>1. i \in 1..Len(x.messages) /\ i # 1 /\ y.messages[i] = x.messages[i]
    BY <1>1
  <2>2. x.messages[i].id \in 1..n /\ n \in Nat /\ ~x.messages[i].sending
    BY <2>1, <1>2 DEF Switching, Line, Typed
  <2>3. Past(sent, x.messages[i].id)
    BY <2>1, <2>2, <1>3 DEF Switching, Ahead
  <2>4. \A v \in Workers : InSend(j[v]) => j[v].m = m
    BY <1>7, <1>8, <1>12
  <2> QED BY <2>1, <2>2, <2>3, <2>4, <1>3, <1>6
<1>18. Follows(y, b) /\ Guarded(y, b, j)
  BY <1>1, <1>2, <1>3, <1>4 DEF Switching, Follows, Guarded, Live
<1>19. Known(y, n, sent, t)
  <2>1. Queued(y) = Queued(x)
    BY <1>1, <1>2 DEF Queued
  <2> QED BY <2>1 DEF Switching, Known
<1> QED BY <1>2, <1>4, <1>12, <1>13, <1>14, <1>15, <1>16, <1>17, <1>18, <1>19
         DEF Switching, j, p

LEMMA Drained ==
    ASSUME NothingApart, SwitchInv, NEW x \in Switches \cup {NoSession},
           NEW b, NEW h, NEW d, NEW n, NEW t, NEW turn,
           NEW w \in Workers, ~InSend(copy[w]),
           Switching(x, b, h, copy, d, n, sent, t),
           Drain(w, x, h, b, d, turn)
    PROVE  Switching(sw', b, h, copy', d, n, sent, t)
<1> DEFINE k == [copy EXCEPT ![w] = NoCopy]
<1>1. Switching(x, b, h, k, d, n, sent, t)
  BY Released
<1>2. copy \in [Workers -> Copies]
  BY DEF SwitchInv, Switching, Typed
<1>3. \A r \in {x, NoSession} : DrainTo(w, x, r) => sw' = r /\ copy' = k
  BY DEF DrainTo
<1>4. CASE sw' = x /\ copy' = k
  BY <1>1, <1>4
<1>5. CASE /\ CanDrain(x, h, b, d) /\ x.messages = <<>>
           /\ sw' = NoSession /\ copy' = k
  <2>1. x \in Switches /\ x # NoSession
    BY <1>5 DEF CanDrain
  <2>2. Queued(x) = {} /\ ~HeadSends(x)
    BY <1>5, <2>1 DEF Queued, HeadSends
  <2>3. ~InSend(k["conversation"])
    BY <1>1, <2>2 DEF Switching, Guarded
  <2>4. Known(NoSession, n, sent, t)
    BY <1>1, <2>2 DEF Switching, Known
  <2> HIDE DEF k
  <2> QED BY <1>1, <1>5, <2>3, <2>4, Forgotten
<1>6. CASE /\ CanDrain(x, h, b, d) /\ x.messages # <<>> /\ ~x.messages[1].sending
           /\ DrainTo(w, x, MarkedSending(x))
  <2>1. x \in Switches
    BY <1>6 DEF CanDrain
  <2> DEFINE y == MarkedSending(x)
  <2> DEFINE p == [pc |-> "send", sw |-> y, to |-> NoSession, m |-> y.messages[1].id]
  <2>2. /\ Switching(y, b, h, [k EXCEPT ![w] = p], d, n, sent, t)
        /\ y # NoSession /\ y # x /\ ~y.paused
    <3> HIDE DEF y
    <3>1. y = MarkedSending(x)
      BY DEF y
    <3> HIDE DEF k
    <3>2. k = [copy EXCEPT ![w] = NoCopy]
      BY DEF k
    <3> QED BY <1>1, <1>6, <2>1, <3>1, <3>2, MarksHead
  <2>3. sw' = y /\ copy' = [copy EXCEPT ![w] = p]
    <3> HIDE DEF y
    <3> QED BY <1>6, <2>2 DEF DrainTo, y
  <2>4. [k EXCEPT ![w] = p] = [copy EXCEPT ![w] = p]
    BY <1>2
  <2> HIDE DEF k, y, p
  <2> QED BY <2>2, <2>3, <2>4
<1> HIDE DEF k
<1> QED BY <1>3, <1>4, <1>5, <1>6 DEF Drain
----------------------------------------------------------------------------
\* The handlers.

USE DEF SwitchInv, Gone

\* An expired switch is forgotten, one that waits for an answer gets a new deadline.
LEMMA ExpiryKeeps ==
    ASSUME NothingApart, SwitchInv, NEW t,
           t = IF Expires THEN Gone \cup Queued(sw) ELSE Gone
    PROVE  /\ Switching(AfterExpire, bound, shown, copy, draft, accepted, sent, t)
           /\ AfterExpire \in Switches \cup {NoSession}
           /\ AfterExpire # NoSession => SameLine(AfterExpire, sw) /\ sw \in Switches
<1>1. sw \in Switches \cup {NoSession}
  BY DEF Switching, Typed
<1>2. CASE Extends
  <2>1. sw \in Switches /\ ~Expires
    BY <1>1, <1>2 DEF Extends, Expires
  <2>2. /\ Revised(sw) \in Switches /\ Unknown(copy, Revised(sw).rev)
        /\ SameLine(Revised(sw), sw)
        /\ Revised(sw).candidate = sw.candidate /\ Revised(sw).paused = sw.paused
    BY <2>1, SavedRecord
  <2>3. Switching(Revised(sw), bound, shown, copy, draft, accepted, sent, Gone)
    BY <2>1, <2>2, Rewritten
  <2> QED BY <1>2, <2>1, <2>2, <2>3 DEF AfterExpire
<1>3. CASE Expires /\ ~Extends
  <2>1. ~InSend(copy["conversation"])
    BY <1>3 DEF Switching, Guarded, Expires
  <2>2. Switching(sw, bound, shown, copy, draft, accepted, sent, t)
    BY ToldMore
  <2>3. Known(NoSession, accepted, sent, t)
    BY <1>3 DEF Switching, Known, Queued
  <2>4. Switching(NoSession, bound, shown, copy, draft, accepted, sent, t)
    BY <2>1, <2>2, <2>3, Forgotten
  <2> QED BY <1>3, <2>4 DEF AfterExpire
<1>4. CASE ~Expires /\ ~Extends
  BY <1>1, <1>4 DEF AfterExpire, SameLine
<1> QED BY <1>2, <1>3, <1>4

\* A switch begins with an empty queue.
LEMMA Begins ==
    ASSUME NothingApart, SwitchInv, NEW t,
           Switching(NoSession, bound, shown, copy, draft, accepted, sent, t)
    PROVE  Switching(NewSwitch, bound, shown, copy, draft, accepted, sent, t)
<1> DEFINE y == NewSwitch
<1>1. FreshRevision \in 1..4 /\ Unknown(copy, FreshRevision)
  BY FreshRecord DEF Switching, Typed, Unknown
<1>2. /\ y \in Switches /\ y.messages = <<>> /\ y.target = NoSession
      /\ y.candidate = NoSession /\ y.epoch = bound.epoch /\ y.rev = FreshRevision
  BY <1>1 DEF NewSwitch, Switches, Switching, Typed, Ends
<1> HIDE DEF y
<1>3. bound.epoch \in Nat /\ ~InSend(copy["conversation"])
  BY DEF Switching, Typed, Guarded
<1>4. \A i \in 1..Len(y.messages) : FALSE
  BY <1>2
<1>5. Line(y, bound, accepted) /\ Ahead(y, bound, copy, draft, sent)
  BY <1>2, <1>3, <1>4 DEF Line, Ahead
<1>6. Follows(y, bound) /\ Guarded(y, bound, copy)
  BY <1>2, <1>3 DEF Follows, Guarded
<1>7. Known(y, accepted, sent, t)
  <2>1. Queued(NoSession) = {}
    BY DEF Queued
  <2> QED BY <2>1 DEF Switching, Known
<1>8. Switching(y, bound, shown, copy, draft, accepted, sent, t)
  BY <1>1, <1>2, <1>5, <1>6, <1>7, Changed
<1> QED BY <1>8 DEF y

\* send_prompt: the message follows all that was sent, and whatever becomes of it, the
\* worker and the record know.
LEMMA SendKeeps ==
    ASSUME NothingApart, SwitchInv, NEW w \in Workers, Send(w)
    PROVE  SwitchInv'
<1> DEFINE m == copy[w].m
<1>1. /\ copy \in [Workers -> Copies] /\ draft = 0 /\ Past(sent, m) /\ m \in 1..accepted
      /\ accepted \in Nat /\ sent \in Seq(Nat) /\ InSend(copy[w])
      /\ Holds(copy[w], accepted)
  BY DEF Send, Switching, Typed, Holds, Sender, InSend
<1>2. copy[w].m = m
  OBVIOUS
<1> DEFINE r == Append(sent, m)
<1> HIDE DEF m
<1>3. /\ r \in Seq(Nat) /\ Ascending(r, accepted)
      /\ Elements(r) = Elements(sent) \cup {m}
      /\ \A j \in Nat : m < j /\ Past(sent, j) => Past(r, j)
  BY <1>1, SentNext DEF Switching
<1> HIDE DEF r
<1>4. \E c \in {"taken", "failed"} :
         /\ copy' = [copy EXCEPT ![w].pc = c]
         /\ \/ sent' = r /\ draft' = 0
            \/ sent' = sent /\ draft' = m /\ c = "taken"
            \/ sent' = sent /\ draft' = 0 /\ c = "failed"
  BY <1>1, <1>2 DEF Send, r
<1>4a. UNCHANGED <<sw, bound, shown, accepted, Gone>>
  BY DEF Send, bindVars
<1>5. /\ copy' \in [Workers -> Copies]
      /\ copy'[w].sw = copy[w].sw /\ copy'[w].m = m /\ copy'[w].pc \in {"taken", "failed"}
      /\ \A v \in Workers : v # w => copy'[v] = copy[v]
      /\ \/ sent' = r /\ draft' = 0
         \/ sent' = sent /\ draft' = m /\ copy'[w].pc = "taken"
         \/ sent' = sent /\ draft' = 0 /\ copy'[w].pc = "failed"
  <2> PICK c \in {"taken", "failed"} :
         /\ copy' = [copy EXCEPT ![w].pc = c]
         /\ \/ sent' = r /\ draft' = 0
            \/ sent' = sent /\ draft' = m /\ c = "taken"
            \/ sent' = sent /\ draft' = 0 /\ c = "failed"
    BY <1>4
  <2>1. copy[w] \in Copies /\ [copy[w] EXCEPT !.pc = c] \in Copies
    BY <1>1 DEF Copies
  <2>2. copy' = [copy EXCEPT ![w] = [copy[w] EXCEPT !.pc = c]]
    OBVIOUS
  <2> QED BY <1>1, <1>2, <2>1, <2>2 DEF Copies
<1>6. \A v \in Workers : InSend(copy'[v]) <=> InSend(copy[v])
  BY <1>1, <1>5 DEF InSend
<1>7. \A v \in Workers : InSend(copy[v]) => v = w
  BY <1>1 DEF Switching, Alone
<1>8. Typed(sw, bound, shown, copy', draft', accepted, sent')
  BY <1>1, <1>3, <1>5 DEF Switching, Typed
<1>9. Ascending(sent', accepted) /\ Drafted(draft', accepted, sent')
  BY <1>1, <1>3, <1>5 DEF Switching, Drafted
<1>10. Elements(sent) \subseteq Elements(sent')
  BY <1>3, <1>5
<1>11. \A v \in Workers : /\ Holds(copy'[v], accepted) /\ Sender(copy'[v], draft', sent')
                          /\ Fenced(copy'[v], sw, draft', sent', Gone)
  <2>1. Holds(copy'[w], accepted) /\ Sender(copy'[w], draft', sent')
    BY <1>1, <1>2, <1>3, <1>5 DEF Holds, Sender, InSend
  <2>2. Fenced(copy'[w], sw, draft', sent', Gone)
    <3>1. Current(copy'[w], sw) => Current(copy[w], sw)
      BY <1>1, <1>5 DEF Current, InSend
    <3>2. copy'[w].pc = "taken" => m = draft' \/ m \in Elements(sent')
      BY <1>3, <1>5
    <3> QED BY <1>5, <3>1, <3>2 DEF Switching, Fenced
  <2>3. ASSUME NEW v \in Workers, v # w
        PROVE  /\ Holds(copy'[v], accepted) /\ Sender(copy'[v], draft', sent')
               /\ Fenced(copy'[v], sw, draft', sent', Gone)
    <3>1. copy'[v] = copy[v] /\ ~InSend(copy[v]) /\ copy[v].pc # "taken" /\ copy[v].pc # "send"
      BY <1>5, <1>7, <2>3 DEF InSend
    <3> QED BY <3>1 DEF Switching, Sender, Fenced
  <2> QED BY <2>1, <2>2, <2>3
<1>12. Alone(copy') /\ Guarded(sw, bound, copy')
  BY <1>6 DEF Switching, Alone, Guarded, Workers
<1>13. Parted(sw, copy')
  BY <1>1, <1>5, <1>6, <1>7 DEF Switching, Parted, Current, Workers, InSend
<1>14. Ahead(sw, bound, copy', draft', sent')
  <2> SUFFICES ASSUME Live(sw, bound), NEW i \in 1..Len(sw.messages),
                      ~sw.messages[i].sending
               PROVE  /\ Past(sent', sw.messages[i].id)
                      /\ \A v \in Workers : InSend(copy'[v]) => copy'[v].m < sw.messages[i].id
                      /\ draft' < sw.messages[i].id
    BY DEF Ahead
  <2>1. /\ Past(sent, sw.messages[i].id) /\ m < sw.messages[i].id
        /\ sw.messages[i].id \in 1..accepted
    BY <1>1, <1>2 DEF Switching, Ahead, Line, Live
  <2>2. \A v \in Workers : InSend(copy'[v]) => copy'[v].m = m
    BY <1>5, <1>6, <1>7
  <2> QED BY <1>1, <1>3, <1>5, <2>1, <2>2
<1>15. Known(sw, accepted, sent', Gone)
  BY <1>10 DEF Switching, Known
<1>16. Switching(sw, bound, shown, copy', draft', accepted, sent', Gone)
  BY <1>8, <1>9, <1>11, <1>12, <1>13, <1>14, <1>15 DEF Switching
<1> QED BY <1>4a, <1>16
\* Without its head the queue is as it was.
LEMMA TailKeeps ==
    ASSUME NothingApart, NEW x \in Switches, NEW b, NEW h, NEW k, NEW n, NEW q, NEW t, NEW d,
           Switching(x, b, h, k, d, n, q, t), NEW y \in Switches,
           y.target = x.target, y.epoch = x.epoch, y.paused = x.paused,
           x.target # NoSession,
           Len(y.messages) = Len(x.messages) - 1, Len(x.messages) \in Nat,
           \A i \in 1..Len(y.messages) :
               y.messages[i] = x.messages[i + 1] /\ i + 1 \in 2..Len(x.messages),
           ~InSend(k["conversation"]),
           \A w \in Workers : Live(x, b) => ~InSend(k[w])
    PROVE  /\ Line(y, b, n) /\ Ahead(y, b, k, d, q)
           /\ Follows(y, b) /\ Guarded(y, b, k)
<1>1. x # NoSession /\ y # NoSession
  BY DEF NothingApart
<1>2. \A i \in 1..Len(x.messages) :
         x.messages[i].id \in 1..n /\ (x.messages[i].sending => i = 1)
  BY <1>1 DEF Switching, Line
<1>3. \A i \in 1..Len(y.messages) : i + 1 \in 1..Len(x.messages) /\ i + 1 # 1
  OBVIOUS
<1>4. Line(y, b, n)
  <2>1. \A i \in 1..Len(y.messages) :
           y.messages[i].id \in 1..n /\ ~y.messages[i].sending
    BY <1>2, <1>3
  <2>2. \A i, j \in 1..Len(y.messages) : i < j => y.messages[i].id < y.messages[j].id
    <3> SUFFICES ASSUME NEW i \in 1..Len(y.messages), NEW j \in 1..Len(y.messages), i < j
                 PROVE  y.messages[i].id < y.messages[j].id
      OBVIOUS
    <3>1. i + 1 \in 1..Len(x.messages) /\ j + 1 \in 1..Len(x.messages) /\ i + 1 < j + 1
      BY <1>3
    <3>2. x.messages[i + 1].id < x.messages[j + 1].id
      BY <1>1, <3>1 DEF Switching, Line
    <3> QED BY <3>2
  <2> QED BY <1>1, <2>1, <2>2 DEF Switching, Line
<1>5. Ahead(y, b, k, d, q)
  <2> SUFFICES ASSUME Live(y, b), NEW i \in 1..Len(y.messages), ~y.messages[i].sending
               PROVE  Past(q, y.messages[i].id) /\ d < y.messages[i].id
    <3>1. Live(y, b) => Live(x, b)
      BY <1>1 DEF Live
    <3> QED BY <3>1 DEF Ahead
  <2>1. Live(x, b) /\ i + 1 \in 1..Len(x.messages) /\ ~x.messages[i + 1].sending
    BY <1>1, <1>3 DEF Live
  <2>2. Past(q, x.messages[i + 1].id) /\ d < x.messages[i + 1].id
    BY <1>3, <2>1 DEF Switching, Ahead
  <2>3. y.messages[i] = x.messages[i + 1]
    OBVIOUS
  <2> QED BY <2>2, <2>3
<1>6. Follows(y, b) /\ Guarded(y, b, k)
  BY <1>1 DEF Switching, Follows, Guarded, Live
<1> QED BY <1>4, <1>5, <1>6

LEMMA PausedRecord ==
    ASSUME NothingApart, SwitchInv, NEW x \in Switches, NEW v \in BOOLEAN
    PROVE  LET y == Revised([x EXCEPT !.paused = v]) IN
           /\ y \in Switches /\ Unknown(copy, y.rev) /\ SameLine(y, x)
           /\ y.paused = v /\ y.candidate = x.candidate
<1> DEFINE z == [x EXCEPT !.paused = v]
<1>1. /\ z \in Switches /\ SameLine(z, x) /\ z.paused = v /\ z.candidate = x.candidate
  BY DEF Switches, SameLine
<1> HIDE DEF z
<1>2. /\ Revised(z) \in Switches /\ Unknown(copy, Revised(z).rev) /\ SameLine(Revised(z), z)
      /\ Revised(z).candidate = z.candidate /\ Revised(z).paused = z.paused
  BY <1>1, SavedRecord
<1> QED BY <1>1, <1>2 DEF SameLine, z

LEMMA CandidateRecord ==
    ASSUME NothingApart, SwitchInv, NEW x \in Switches, NEW s \in SwitchSessions
    PROVE  LET y == Revised([x EXCEPT !.candidate = s]) IN
           /\ y \in Switches /\ Unknown(copy, y.rev) /\ SameLine(y, x)
           /\ y.paused = x.paused
<1> DEFINE z == [x EXCEPT !.candidate = s]
<1>1. z \in Switches /\ SameLine(z, x) /\ z.paused = x.paused
  BY DEF Switches, SameLine, Ends
<1> HIDE DEF z
<1>2. /\ Revised(z) \in Switches /\ Unknown(copy, Revised(z).rev) /\ SameLine(Revised(z), z)
      /\ Revised(z).paused = z.paused
  BY <1>1, SavedRecord
<1> QED BY <1>1, <1>2 DEF SameLine, z

\* The record after a send: paused, the head unmarked as it is a draft, or the head gone
\* as it is known.
LEMMA FinishKeeps ==
    ASSUME NothingApart, SwitchInv, NEW w \in Workers, FinishSend(w)
    PROVE  SwitchInv'
<1> DEFINE k == [copy EXCEPT ![w] = NoCopy]
           y == Revised(AfterSend(w))
<1>1. Switching(sw, bound, shown, k, draft, accepted, sent, Gone)
  BY Released
<1>2. /\ InSend(copy[w]) /\ copy' = k /\ copy[w] \in Copies
      /\ sw' = IF CopyIsCurrent(copy[w].sw) THEN y ELSE sw
      /\ UNCHANGED <<bound, shown, draft, accepted, sent, Gone>>
  BY DEF FinishSend, InSend, bindVars, logVars, Switching, Typed
<1>3. CASE ~CopyIsCurrent(copy[w].sw)
  BY <1>1, <1>2, <1>3
<1>4. CASE CopyIsCurrent(copy[w].sw)
  <2>1. /\ copy[w].sw = sw /\ sw # NoSession /\ sw \in Switches
        /\ Holds(copy[w], accepted)
        /\ copy[w].pc = "taken" => copy[w].m = draft \/ copy[w].m \in Gone \cup Elements(sent)
    BY <1>2, <1>4 DEF CopyIsCurrent, Switching, Fenced, Current, InSend, Typed
  <2>2. /\ HeadSends(sw) /\ sw.messages[1].id = copy[w].m /\ copy[w].m \in 1..accepted
        /\ sw.target # NoSession /\ ~sw.paused /\ accepted \in Nat
    BY <1>2, <2>1 DEF Holds, Switching, Typed
  <2>3. \A v \in Workers : ~InSend(k[v])
    BY <1>2, IdleCopy DEF Switching, Alone, Typed
  <2>4. \A r : Unknown(copy, r) => Unknown(k, r)
    BY IdleCopy DEF Unknown, Switching, Typed
  <2>5. Unknown(copy, FreshRevision)
    BY FreshRecord DEF Switching, Typed, Unknown
  <2> HIDE DEF k
  <2>6. CASE copy[w].pc = "failed"
    <3> DEFINE z == Revised([sw EXCEPT !.paused = TRUE])
    <3>1. y = z
      BY <2>1, <2>6 DEF AfterSend
    <3>2. z \in Switches /\ Unknown(copy, z.rev) /\ SameLine(z, sw) /\ z.candidate = sw.candidate
      BY <2>1, PausedRecord
    <3> HIDE DEF z, y
    <3>3. Switching(z, bound, shown, k, draft, accepted, sent, Gone)
      BY <1>1, <2>1, <2>2, <2>4, <3>2, Rewritten
    <3> QED BY <1>2, <1>4, <3>1, <3>3
  <2>7. CASE copy[w].pc # "failed" /\ draft # 0
    <3> DEFINE z == Revised([sw EXCEPT !.messages[1].sending = FALSE])
    <3>1. y = z
      BY <2>1, <2>7 DEF AfterSend
    <3>2. /\ z \in Switches /\ z.rev = FreshRevision
          /\ z.target = sw.target /\ z.epoch = sw.epoch /\ z.paused = sw.paused
          /\ z.candidate = sw.candidate
          /\ Len(z.messages) = Len(sw.messages) /\ Len(sw.messages) \in Nat
          /\ 1 \in 1..Len(sw.messages)
          /\ z.messages[1].sending = FALSE /\ z.messages[1].id = sw.messages[1].id
          /\ \A i \in 1..Len(sw.messages) : i # 1 => z.messages[i] = sw.messages[i]
          /\ \A i \in 1..Len(sw.messages) : z.messages[i].id = sw.messages[i].id
      BY <2>1, <2>2, HeadMarked DEF HeadSends
    <3> HIDE DEF z, y
    <3>3. z # NoSession /\ Unknown(k, z.rev)
      BY <2>4, <2>5, <3>2 DEF NothingApart
    <3>4. draft = copy[w].m /\ Past(sent, draft)
      BY <1>2, <2>7 DEF Switching, Sender, Drafted
    <3>5. Line(z, bound, accepted)
      BY <2>1, <3>2 DEF Switching, Line
    <3>6. Ahead(z, bound, k, draft, sent)
      <4> SUFFICES ASSUME Live(z, bound), NEW i \in 1..Len(z.messages),
                          ~z.messages[i].sending
                   PROVE  /\ Past(sent, z.messages[i].id)
                          /\ \/ draft < z.messages[i].id
                             \/ /\ i = 1 /\ draft = z.messages[1].id
                                /\ z.target # NoSession /\ ~z.paused
        BY <2>3 DEF Ahead
      <4>1. CASE i = 1
        BY <2>2, <3>2, <3>4, <4>1
      <4>2. CASE i # 1
        <5>1. Live(sw, bound) /\ i \in 1..Len(sw.messages) /\ z.messages[i] = sw.messages[i]
          BY <2>1, <3>2, <4>2 DEF Live
        <5> QED BY <2>1, <4>2, <5>1 DEF Switching, Ahead
      <4> QED BY <4>1, <4>2
    <3>7. Follows(z, bound) /\ Guarded(z, bound, k)
      BY <2>1, <2>2, <2>3, <3>2 DEF Switching, Follows, Guarded, Live, Workers
    <3>8. Known(z, accepted, sent, Gone)
      <4>1. Queued(z) = Queued(sw)
        BY <2>1, <3>2, <3>3 DEF Queued
      <4> QED BY <4>1 DEF Switching, Known
    <3>9. Switching(z, bound, shown, k, draft, accepted, sent, Gone)
      BY <1>1, <3>2, <3>3, <3>5, <3>6, <3>7, <3>8, Changed
    <3> QED BY <1>2, <1>4, <3>1, <3>9
  <2>8. CASE copy[w].pc # "failed" /\ draft = 0
    <3> DEFINE z == Revised([sw EXCEPT !.messages = Tail(@)])
    <3>1. y = z
      BY <2>1, <2>8 DEF AfterSend
    <3>2. /\ z \in Switches /\ z.rev = FreshRevision
          /\ z.target = sw.target /\ z.epoch = sw.epoch /\ z.paused = sw.paused
          /\ z.candidate = sw.candidate
          /\ Len(z.messages) = Len(sw.messages) - 1 /\ Len(sw.messages) \in Nat
          /\ \A i \in 1..Len(z.messages) :
                z.messages[i] = sw.messages[i + 1] /\ i + 1 \in 2..Len(sw.messages)
          /\ Queued(sw) \subseteq Queued(z) \cup {sw.messages[1].id}
      BY <2>1, <2>2, HeadGone DEF HeadSends
    <3> HIDE DEF z, y
    <3>3. z # NoSession /\ Unknown(k, z.rev)
      BY <2>4, <2>5, <3>2 DEF NothingApart
    <3>4. copy[w].m \in Gone \cup Elements(sent)
      <4>1. copy[w].pc = "taken"
        BY <2>8 DEF FinishSend
      <4> QED BY <2>1, <2>2, <2>8, <4>1
    <3>5. /\ Line(z, bound, accepted) /\ Ahead(z, bound, k, draft, sent)
          /\ Follows(z, bound) /\ Guarded(z, bound, k)
      <4>1. ~InSend(k["conversation"])
        BY <2>3 DEF Workers
      <4> QED BY <1>1, <2>1, <2>2, <2>3, <2>8, <3>2, <4>1, TailKeeps
    <3>6. Known(z, accepted, sent, Gone)
      BY <2>2, <3>2, <3>4 DEF Switching, Known
    <3>7. Switching(z, bound, shown, k, draft, accepted, sent, Gone)
      BY <1>1, <3>2, <3>3, <3>5, <3>6, Changed
    <3> QED BY <1>2, <1>4, <3>1, <3>7
  <2> QED BY <2>6, <2>7, <2>8
<1> QED BY <1>3, <1>4
\* What the conversation's messages do: begin, fail, give up or retry a switch.

LEMMA RequestKeeps ==
    ASSUME NothingApart, SwitchInv, RequestNewSession
    PROVE  SwitchInv'
<1> DEFINE x == AfterExpire
<1>1. /\ Gone' = IF Expires THEN Gone \cup Queued(sw) ELSE Gone
      /\ UNCHANGED <<bound, shown, copy, draft, accepted, sent>>
  BY DEF RequestNewSession, bindVars
<1>2. /\ Switching(x, bound, shown, copy, draft, accepted, sent, Gone')
      /\ x \in Switches \cup {NoSession}
  BY <1>1, ExpiryKeeps
<1> HIDE DEF x
<1>3. CASE sw' = x
  BY <1>1, <1>2, <1>3
<1>4. CASE x = NoSession /\ sw' = NewSwitch
  BY <1>1, <1>2, <1>4, Begins
<1>5. CASE /\ x # NoSession /\ Retryable(x)
           /\ sw' = Revised([x EXCEPT !.paused = FALSE])
  <2> DEFINE y == Revised([x EXCEPT !.paused = FALSE])
  <2>1. x \in Switches
    BY <1>2, <1>5
  <2>2. y \in Switches /\ Unknown(copy, y.rev) /\ SameLine(y, x) /\ y.paused = FALSE
        /\ y.candidate = x.candidate
    BY <2>1, PausedRecord
  <2> HIDE DEF y
  <2>3. Switching(y, bound, shown, copy, draft, accepted, sent, Gone')
    BY <1>2, <2>1, <2>2, Rewritten
  <2> QED BY <1>1, <1>5, <2>3 DEF y
<1> QED BY <1>3, <1>4, <1>5 DEF RequestNewSession, x

LEMMA StartedKeeps ==
    ASSUME NothingApart, SwitchInv, NativeSwitchStarted
    PROVE  SwitchInv'
<1>1. /\ sw = NoSession /\ sw' = NewSwitch
      /\ UNCHANGED <<bound, shown, copy, draft, accepted, sent, Gone>>
  BY DEF NativeSwitchStarted, bindVars, logVars
<1>2. Switching(NewSwitch, bound, shown, copy, draft, accepted, sent, Gone)
  BY <1>1, Begins
<1> QED BY <1>1, <1>2

\* A pause, of a switch without its session or with nothing to wait for.
LEMMA Pauses ==
    ASSUME NothingApart, SwitchInv, NEW x \in Switches, NEW b, NEW h, NEW d, NEW n, NEW t,
           Switching(x, b, h, copy, d, n, sent, t),
           d = 0 \/ x.target = NoSession \/ x.epoch # b.epoch \/ HeadSends(x)
    PROVE  Switching(Revised([x EXCEPT !.paused = TRUE]), b, h, copy, d, n, sent, t)
<1> DEFINE y == Revised([x EXCEPT !.paused = TRUE])
<1>1. y \in Switches /\ Unknown(copy, y.rev) /\ SameLine(y, x) /\ y.candidate = x.candidate
  BY PausedRecord
<1> HIDE DEF y
<1>2. Switching(y, b, h, copy, d, n, sent, t)
  BY <1>1, Rewritten
<1> QED BY <1>2 DEF y

LEMMA FailsKeeps ==
    ASSUME NothingApart, SwitchInv, SwitchFails \/ TargetReadOnly
    PROVE  SwitchInv'
<1>1. /\ sw \in Switches /\ sw' = Revised([sw EXCEPT !.paused = TRUE])
      /\ draft = 0 \/ sw.target = NoSession
      /\ UNCHANGED <<bound, shown, copy, draft, accepted, sent, Gone>>
  BY DEF SwitchFails, TargetReadOnly, CanDrain, bindVars, logVars, Switching, Typed
<1>2. Switching(Revised([sw EXCEPT !.paused = TRUE]), bound, shown, copy, draft,
                accepted, sent, Gone)
  BY <1>1, Pauses
<1> QED BY <1>1, <1>2

\* cancel_session_switch, when the conversation is bound otherwise: what waits is kept,
\* paused, for the user to decide.
LEMMA CancelKeeps ==
    ASSUME NothingApart, SwitchInv, NEW x \in Switches \cup {NoSession},
           NEW b, NEW h, NEW d, NEW n, NEW t,
           Switching(x, b, h, copy, d, n, sent, t), ~Live(x, b)
    PROVE  Switching(Cancelled(x), b, h, copy, d, n, sent, t)
<1>1. CASE x = NoSession
  BY <1>1 DEF Cancelled
<1>2. CASE x # NoSession /\ x.messages = <<>>
  <2>1. Queued(x) = {} /\ ~HeadSends(x)
    BY <1>2 DEF Queued, HeadSends
  <2>2. ~InSend(copy["conversation"]) /\ Known(NoSession, n, sent, t)
    BY <2>1 DEF Switching, Guarded, Known
  <2>3. Cancelled(x) = NoSession
    BY <1>2 DEF Cancelled
  <2> QED BY <2>2, <2>3, Forgotten
<1>3. CASE x # NoSession /\ x.messages # <<>>
  <2>1. x \in Switches /\ x.epoch # b.epoch
    BY <1>3 DEF Live
  <2>2. Cancelled(x) = Revised([x EXCEPT !.paused = TRUE])
    BY <1>3 DEF Cancelled
  <2>3. Switching(Revised([x EXCEPT !.paused = TRUE]), b, h, copy, d, n, sent, t)
    BY <2>1, Pauses
  <2> QED BY <2>2, <2>3
<1> QED BY <1>1, <1>2, <1>3

LEMMA RebindKeeps ==
    ASSUME NothingApart, SwitchInv, NEW s \in Ends, Rebind(s)
    PROVE  SwitchInv'
<1>1. /\ draft' = 0 /\ Gone' = Gone \cup ({draft} \ {0})
      /\ sw' = Cancelled(sw) /\ shown' = s
      /\ bound' = [s |-> s, epoch |-> bound.epoch + 1]
      /\ UNCHANGED <<copy, accepted, sent>>
  BY DEF Rebind
<1>2. /\ bound' \in [s : Ends, epoch : Nat] /\ bound'.epoch = bound.epoch + 1
      /\ bound'.s = s /\ sw \in Switches \cup {NoSession} /\ bound.epoch \in Nat
      /\ Gone \subseteq Gone' /\ (draft = 0 \/ draft \in Gone')
  BY <1>1 DEF Switching, Typed
<1>3. Switching(sw, bound, shown, copy, 0, accepted, sent, Gone')
  BY <1>2, DraftGone
<1>4. Switching(sw, bound', s, copy, 0, accepted, sent, Gone')
  BY <1>2, <1>3, BoundAnew
<1>5. ~Live(sw, bound')
  <2>1. sw # NoSession => sw.epoch <= bound.epoch /\ sw.epoch \in Nat
    BY <1>2 DEF Switching, Line, Switches
  <2> QED BY <1>2, <2>1 DEF Live
<1>6. Switching(Cancelled(sw), bound', s, copy, 0, accepted, sent, Gone')
  BY <1>2, <1>4, <1>5, CancelKeeps
<1> QED BY <1>1, <1>6

LEMMA ClearKeeps ==
    ASSUME NothingApart, SwitchInv, ClearQueue
    PROVE  SwitchInv'
<1>1. /\ Gone' = Gone \cup Queued(sw) /\ sw # NoSession /\ sw \in Switches
      /\ ~InSend(copy["conversation"])
      /\ UNCHANGED <<bound, shown, copy, draft, accepted, sent>>
  BY DEF ClearQueue, Free, bindVars, InSend, Switching, Typed
<1>2. Switching(sw, bound, shown, copy, draft, accepted, sent, Gone')
  BY <1>1, ToldMore
<1>3. \A m \in 1..accepted : m \in Gone' \cup Elements(sent)
  BY <1>1 DEF Switching, Known
<1>4. CASE sw' = NoSession
  <2>1. Known(NoSession, accepted, sent, Gone')
    BY <1>3 DEF Known
  <2> QED BY <1>1, <1>2, <1>4, <2>1, Forgotten
<1>5. CASE /\ ~(sw.paused \/ sw.target # NoSession)
           /\ sw' = Revised([sw EXCEPT !.messages = <<>>])
  <2> DEFINE z == [sw EXCEPT !.messages = <<>>]
             y == Revised(z)
  <2>1. /\ z \in Switches /\ z.messages = <<>> /\ z.target = sw.target
        /\ z.epoch = sw.epoch /\ z.candidate = sw.candidate
    <3>1. <<>> \in Seq(Messages)
      OBVIOUS
    <3> QED BY <1>1, <3>1 DEF Switches
  <2> HIDE DEF z
  <2>2. /\ y \in Switches /\ Unknown(copy, y.rev) /\ y.messages = <<>>
        /\ y.target = NoSession /\ y.epoch = sw.epoch /\ y.candidate = sw.candidate
    BY <1>5, <2>1, SavedRecord DEF SameLine
  <2> HIDE DEF y
  <2>3. \A i \in 1..Len(y.messages) : FALSE
    BY <2>2
  <2>4. /\ Line(y, bound, accepted) /\ Ahead(y, bound, copy, draft, sent)
        /\ Follows(y, bound)
    BY <1>1, <2>2, <2>3 DEF Switching, Line, Ahead, Follows
  <2>5. Guarded(y, bound, copy) /\ Known(y, accepted, sent, Gone')
    BY <1>1, <1>3, <1>5, <2>2 DEF Switching, Guarded, Known
  <2>6. Switching(y, bound, shown, copy, draft, accepted, sent, Gone')
    BY <1>2, <2>2, <2>4, <2>5, Changed
  <2> QED BY <1>1, <1>5, <2>6 DEF y, z
<1> QED BY <1>4, <1>5 DEF ClearQueue
\* enqueue_switch_prompt: a new message comes after all there are.
LEMMA Joins ==
    ASSUME NothingApart, SwitchInv, NEW x \in Switches, NEW t,
           Switching(x, bound, shown, copy, draft, accepted, sent, t)
    PROVE  LET y == Revised([x EXCEPT !.messages =
                        Append(@, [id |-> accepted + 1, sending |-> FALSE])])
           IN  y \in Switches
               /\ Switching(y, bound, shown, copy, draft, accepted + 1, sent, t)
<1> DEFINE f == [id |-> accepted + 1, sending |-> FALSE]
           u == x.messages
           r == Append(u, f)
           z == [x EXCEPT !.messages = r]
           y == Revised(z)
<1>1. /\ u \in Seq(Messages) /\ accepted \in Nat /\ f \in Messages
      /\ f.id = accepted + 1 /\ ~f.sending /\ x # NoSession
  BY DEF Switches, Switching, Typed, Messages, NothingApart
<1> HIDE DEF f
<1>2. /\ r \in Seq(Messages) /\ Len(u) \in Nat /\ Len(r) = Len(u) + 1 /\ r[Len(u) + 1] = f
      /\ \A i \in 1..Len(u) : r[i] = u[i]
      /\ \A i \in 1..Len(r) : i \in 1..Len(u) \/ i = Len(u) + 1
  <2> HIDE DEF u
  <2> QED BY <1>1, Appended
<1> HIDE DEF r
<1>3. /\ z \in Switches /\ z.messages = r /\ z.target = x.target /\ z.epoch = x.epoch
      /\ z.paused = x.paused /\ z.candidate = x.candidate
  BY <1>2 DEF Switches
<1> HIDE DEF z
<1>4. /\ y \in Switches /\ Unknown(copy, y.rev) /\ y.messages = r /\ y.target = x.target
      /\ y.epoch = x.epoch /\ y.paused = x.paused /\ y.candidate = x.candidate
      /\ y # NoSession
  BY <1>3, SavedRecord DEF SameLine, NothingApart
<1> HIDE DEF y
<1>5. Typed(y, bound, shown, copy, draft, accepted + 1, sent)
  BY <1>1, <1>4 DEF Switching, Typed
<1>6. Ascending(sent, accepted + 1) /\ Drafted(draft, accepted + 1, sent)
  BY <1>1 DEF Switching, Typed, Ascending, Drafted
<1>7. \A w \in Workers : /\ Holds(copy[w], accepted + 1) /\ Sender(copy[w], draft, sent)
                         /\ ~Current(copy[w], y)
  BY <1>1, <1>4 DEF Switching, Holds, Unknown, Current
<1>8. Parted(y, copy) /\ \A w \in Workers : Fenced(copy[w], y, draft, sent, t)
  BY <1>7 DEF Parted, Fenced, Workers
<1>9. Line(y, bound, accepted + 1)
  <2>1. \A i \in 1..Len(u) : u[i].id \in 1..accepted /\ u[i].id < f.id
    BY <1>1 DEF Switching, Line
  <2>2. \A i \in 1..Len(r) : r[i].id \in 1..accepted + 1
    <3> SUFFICES ASSUME NEW i \in 1..Len(r) PROVE r[i].id \in 1..accepted + 1
      OBVIOUS
    <3>1. CASE i \in 1..Len(u)
      <4>1. r[i] = u[i] /\ u[i].id \in 1..accepted
        BY <1>2, <2>1, <3>1
      <4> QED BY <1>1, <4>1
    <3>2. CASE i = Len(u) + 1
      <4>1. r[i].id = accepted + 1
        BY <1>1, <1>2, <3>2
      <4> QED BY <1>1, <4>1
    <3> QED BY <1>2, <3>1, <3>2
  <2>3. \A i, j \in 1..Len(r) : i < j => r[i].id < r[j].id
    <3> SUFFICES ASSUME NEW i \in 1..Len(r), NEW j \in 1..Len(r), i < j
                 PROVE  r[i].id < r[j].id
      OBVIOUS
    <3>1. i \in 1..Len(u)
      BY <1>2
    <3>2. CASE j \in 1..Len(u)
      BY <1>1, <1>2, <3>1, <3>2 DEF Switching, Line
    <3>3. CASE j = Len(u) + 1
      BY <1>2, <2>1, <3>1, <3>3
    <3> QED BY <1>2, <3>2, <3>3
  <2>4. \A i \in 1..Len(r) : r[i].sending => i = 1 /\ x.target # NoSession
    BY <1>1, <1>2 DEF Switching, Line
  <2> QED BY <1>1, <1>4, <2>2, <2>3, <2>4 DEF Switching, Line
<1>10. Ahead(y, bound, copy, draft, sent)
  <2> SUFFICES ASSUME Live(y, bound), NEW i \in 1..Len(r), ~r[i].sending
               PROVE  /\ Past(sent, r[i].id)
                      /\ \A w \in Workers : InSend(copy[w]) => copy[w].m < r[i].id
                      /\ \/ draft < r[i].id
                         \/ /\ i = 1 /\ draft = r[1].id /\ x.target # NoSession /\ ~x.paused
    BY <1>4 DEF Ahead
  <2>1. CASE i \in 1..Len(u)
    BY <1>1, <1>2, <1>4, <2>1 DEF Switching, Ahead, Live
  <2>2. CASE i = Len(u) + 1
    <3>1. Past(sent, accepted + 1)
      BY <1>1 DEF Switching, Ascending, Past, Typed
    <3>2. \A w \in Workers : InSend(copy[w]) => copy[w].m < accepted + 1
      BY <1>1 DEF Switching, Holds
    <3>3. draft < accepted + 1
      BY <1>1 DEF Switching, Drafted, Typed
    <3> QED BY <1>1, <1>2, <2>2, <3>1, <3>2, <3>3
  <2> QED BY <1>2, <2>1, <2>2
<1>11. Follows(y, bound)
  BY <1>1, <1>4 DEF Switching, Follows, Live
<1>12. Guarded(y, bound, copy)
  <2>1. HeadSends(x) => HeadSends(y)
    <3> SUFFICES ASSUME HeadSends(x) PROVE HeadSends(y)
      OBVIOUS
    <3>1. u # <<>> /\ u[1].sending /\ 1 \in 1..Len(u)
      <4>1. u # <<>> /\ u[1].sending
        BY DEF HeadSends
      <4> HIDE DEF u
      <4> QED BY <1>1, <4>1, Dequeued
    <3>2. r # <<>> /\ r[1] = u[1]
      BY <1>2, <3>1
    <3> QED BY <1>4, <3>1, <3>2 DEF HeadSends
  <2> QED BY <1>1, <1>4, <2>1 DEF Switching, Guarded, Live
<1>13. Known(y, accepted + 1, sent, t)
  <2>1. \A i \in 1..Len(u) : i \in 1..Len(r) /\ r[i].id = u[i].id
    BY <1>2
  <2>2. Queued(x) \subseteq Queued(y)
    BY <1>1, <1>4, <2>1 DEF Queued
  <2>3. accepted + 1 \in Queued(y)
    <3>1. Len(u) + 1 \in 1..Len(r) /\ r[Len(u) + 1].id = accepted + 1
      BY <1>1, <1>2
    <3> QED BY <1>4, <3>1 DEF Queued
  <2>4. \A m \in 1..accepted + 1 : m \in 1..accepted \/ m = accepted + 1
    BY <1>1
  <2> QED BY <2>2, <2>3, <2>4 DEF Switching, Known
<1>14. Switching(y, bound, shown, copy, draft, accepted + 1, sent, t)
  BY <1>5, <1>6, <1>7, <1>8, <1>9, <1>10, <1>11, <1>12, <1>13 DEF Switching
<1> QED BY <1>4, <1>14 DEF y, z, r, f

\* The worker of the conversation reads the record it will write.
LEMMA Reads ==
    ASSUME NothingApart, NEW x \in Switches, NEW b, NEW h, NEW k, NEW d, NEW n, NEW q, NEW t,
           Switching(x, b, h, k, d, n, q, t), NEW w \in Workers
    PROVE  Switching(x, b, h,
               [k EXCEPT ![w] = [pc |-> "enqueue", sw |-> x, to |-> NoSession, m |-> 0]],
               d, n, q, t)
<1> DEFINE p == [pc |-> "enqueue", sw |-> x, to |-> NoSession, m |-> 0]
           j == [k EXCEPT ![w] = p]
<1>0. x # NoSession
  BY DEF NothingApart
<1>1. p \in Copies /\ p.pc = "enqueue" /\ p.sw = x
  BY DEF Copies, Ends
<1>2. k \in [Workers -> Copies]
  BY DEF Switching, Typed
<1>3. /\ j \in [Workers -> Copies]
      /\ \A v \in Workers : j[v] = k[v] \/ j[v] = p
  BY <1>1, <1>2
<1> HIDE DEF j, p
<1>4. ~InSend(p) /\ Holds(p, n) /\ Sender(p, d, q) /\ Fenced(p, x, d, q, t)
  BY <1>0, <1>1 DEF InSend, Holds, Sender, Fenced
<1>5. \A v \in Workers : InSend(j[v]) => InSend(k[v]) /\ j[v] = k[v]
  BY <1>3, <1>4
<1>6. \A v \in Workers : Holds(j[v], n) /\ Sender(j[v], d, q) /\ Fenced(j[v], x, d, q, t)
  BY <1>3, <1>4 DEF Switching
<1>7. Typed(x, b, h, j, d, n, q)
  BY <1>3 DEF Switching, Typed
<1>8. Alone(j) /\ Ahead(x, b, j, d, q) /\ Guarded(x, b, j)
  BY <1>5 DEF Switching, Alone, Ahead, Guarded, Workers
<1>9. Parted(x, j)
  BY <1>1, <1>3, <1>5 DEF Switching, Parted, Workers
<1> QED BY <1>6, <1>7, <1>8, <1>9 DEF Switching, j, p

LEMMA EnqueueKeeps ==
    ASSUME NothingApart, SwitchInv, EnqueuePrompt
    PROVE  SwitchInv'
<1> DEFINE x == AfterExpire
<1>1. /\ Gone' = IF Expires THEN Gone \cup Queued(sw) ELSE Gone
      /\ sw' = x /\ "conversation" \in Workers
      /\ UNCHANGED <<bound, shown, draft, accepted, sent>>
  BY DEF EnqueuePrompt, Expire, bindVars, Workers
<1>2. /\ Switching(x, bound, shown, copy, draft, accepted, sent, Gone')
      /\ x \in Switches \cup {NoSession}
  BY <1>1, ExpiryKeeps
<1> HIDE DEF x
<1>3. CASE UNCHANGED copy
  BY <1>1, <1>2, <1>3
<1>4. CASE /\ x # NoSession
           /\ copy' = [copy EXCEPT !["conversation"] =
                          [pc |-> "enqueue", sw |-> x, to |-> NoSession, m |-> 0]]
  <2>1. Switching(x, bound, shown, copy', draft, accepted, sent, Gone')
    BY <1>1, <1>2, <1>4, Reads
  <2> QED BY <1>1, <2>1
<1> QED BY <1>3, <1>4 DEF EnqueuePrompt, x

\* A message that is accepted although its save was refused is known at once.
LEMMA LostKnown ==
    ASSUME NEW x, NEW b, NEW h, NEW k, NEW d, NEW n, NEW q, NEW t,
           Switching(x, b, h, k, d, n, q, t)
    PROVE  Switching(x, b, h, k, d, n + 1, q, t \cup {n + 1})
<1>1. n \in Nat /\ \A m \in 1..n + 1 : m \in 1..n \/ m = n + 1
  <2>1. n \in Nat
    BY DEF Switching, Typed
  <2> QED BY <2>1
<1>2. 1..n \subseteq 1..n + 1
  BY <1>1
<1>3. Typed(x, b, h, k, d, n + 1, q)
  BY <1>1 DEF Switching, Typed
<1>4. Ascending(q, n + 1) /\ Drafted(d, n + 1, q)
  BY <1>1, <1>2 DEF Switching, Typed, Ascending, Drafted
<1>5. \A w \in Workers : Holds(k[w], n + 1) /\ Fenced(k[w], x, d, q, t \cup {n + 1})
  BY <1>2 DEF Switching, Holds, Fenced
<1>6. Line(x, b, n + 1)
  BY <1>2 DEF Switching, Line
<1>7. Known(x, n + 1, q, t \cup {n + 1})
  BY <1>1 DEF Switching, Known
<1> QED BY <1>3, <1>4, <1>5, <1>6, <1>7 DEF Switching

\* The record that is saved is the one that was read.
LEMMA SaveKeeps ==
    ASSUME NothingApart, SwitchInv, SavePrompt
    PROVE  SwitchInv'
<1> DEFINE x == copy["conversation"].sw
           y == Revised([x EXCEPT !.messages =
                    Append(@, [id |-> accepted + 1, sending |-> FALSE])])
<1>1. /\ "conversation" \in Workers /\ copy["conversation"].pc = "enqueue"
      /\ ~InSend(copy["conversation"])
      /\ sw \in Switches \cup {NoSession}
      /\ UNCHANGED <<bound, shown, draft, sent, told>>
  BY DEF SavePrompt, InSend, bindVars, Workers, Switching, Typed
<1>2. CASE /\ copy' = [copy EXCEPT !["conversation"] = NoCopy]
           /\ UNCHANGED <<sw, accepted, unsaved>>
  <2>1. Switching(sw, bound, shown, [copy EXCEPT !["conversation"] = NoCopy], draft,
                  accepted, sent, Gone)
    BY <1>1, Released
  <2> QED BY <1>1, <1>2, <2>1
<1>3. CASE /\ CopyIsCurrent(x) /\ accepted' = accepted + 1
           /\ Drain("conversation", y, shown, bound, draft, busy)
           /\ UNCHANGED unsaved
  <2>1. x = sw /\ sw \in Switches
    BY <1>1, <1>3 DEF CopyIsCurrent, Switching, Fenced, Current
  <2>2. y \in Switches /\ Switching(y, bound, shown, copy, draft, accepted + 1, sent, Gone)
    <3> HIDE DEF x, Gone
    <3> QED BY <2>1, Joins
  <2> HIDE DEF y
  <2>3. Switching(sw', bound, shown, copy', draft, accepted + 1, sent, Gone)
    BY <1>1, <1>3, <2>2, Drained
  <2> QED BY <1>1, <1>3, <2>3
<1>4. CASE /\ accepted' = accepted + 1 /\ unsaved' = unsaved \cup {accepted + 1}
           /\ Drain("conversation", sw, shown, bound, draft, busy)
  <2>1. Switching(sw, bound, shown, copy, draft, accepted + 1, sent,
                  Gone \cup {accepted + 1})
    BY LostKnown
  <2>2. Gone' = Gone \cup {accepted + 1}
    BY <1>1, <1>4
  <2> HIDE DEF Gone
  <2>3. Switching(sw', bound, shown, copy', draft, accepted + 1, sent, Gone')
    BY <1>1, <1>4, <2>1, <2>2, Drained
  <2> QED BY <1>1, <1>4, <2>3
<1> HIDE DEF x, y
<1> QED BY <1>2, <1>3, <1>4 DEF SavePrompt, x, y

\* replace_session on an event and on a refresh.
LEMMA BeginsReplace ==
    ASSUME NothingApart, SwitchInv, NEW x \in Switches, NEW t,
           Switching(x, bound, shown, copy, draft, accepted, sent, t),
           NEW w \in Workers, NEW s \in SwitchSessions, x.target = NoSession, ~x.paused,
           ~InSend(copy["event"]), BeginReplace(w, x, s)
    PROVE  Switching(sw', bound, shown, copy', draft, accepted, sent, t)
<1> DEFINE y == Revised([x EXCEPT !.candidate = s])
<1>1. y \in Switches /\ Unknown(copy, y.rev) /\ SameLine(y, x) /\ y.paused = x.paused
  BY CandidateRecord
<1>2. sw' = y
  BY DEF BeginReplace
<1>3. copy' = [copy EXCEPT ![w] = [pc |-> "attach", sw |-> y, to |-> s, m |-> 0]]
  BY DEF BeginReplace
<1> HIDE DEF y
<1>4. Switching(y, bound, shown, copy, draft, accepted, sent, t)
  BY <1>1, Rewritten
<1>5. Switching(y, bound, shown,
          [copy EXCEPT ![w] = [pc |-> "attach", sw |-> y, to |-> s, m |-> 0]],
          draft, accepted, sent, t)
  BY <1>1, <1>4, WaitsForAgent DEF SameLine
<1> QED BY <1>2, <1>3, <1>5

LEMMA ReplacedKeeps ==
    ASSUME NothingApart, SwitchInv, NEW s \in SwitchSessions, SessionReplaced(s)
    PROVE  SwitchInv'
<1> DEFINE x == AfterExpire
<1>1. /\ Gone' = IF Expires THEN Gone \cup Queued(sw) ELSE Gone
      /\ ~InSend(copy["event"]) /\ "event" \in Workers
      /\ Waiting(x) /\ BeginReplace("event", x, s)
      /\ UNCHANGED <<bound, shown, draft, accepted, sent>>
  BY DEF SessionReplaced, Expire, Free, InSend, bindVars, Workers
<1>2. /\ Switching(x, bound, shown, copy, draft, accepted, sent, Gone')
      /\ x \in Switches \cup {NoSession}
  BY <1>1, ExpiryKeeps
<1> HIDE DEF x
<1>3. x \in Switches /\ x.target = NoSession /\ ~x.paused
  BY <1>1, <1>2 DEF Waiting
<1>4. Switching(sw', bound, shown, copy', draft, accepted, sent, Gone')
  BY <1>1, <1>2, <1>3, BeginsReplace
<1> QED BY <1>1, <1>4

\* Another session was replaced: this switch may have expired.
LEMMA OtherKeeps ==
    ASSUME NothingApart, SwitchInv, OtherReplaced
    PROVE  SwitchInv'
<1>1. /\ Gone' = IF Expires THEN Gone \cup Queued(sw) ELSE Gone
      /\ sw' = AfterExpire /\ UNCHANGED <<bound, shown, copy, draft, accepted, sent>>
  BY DEF OtherReplaced, Expire, bindVars
<1>2. Switching(AfterExpire, bound, shown, copy, draft, accepted, sent, Gone')
  BY <1>1, ExpiryKeeps
<1> QED BY <1>1, <1>2

\* complete_session_switch: the record is the one the worker read, so no message of it is
\* with a worker, and the queue moves to the new session as it is.
LEMMA CompleteKeeps ==
    ASSUME NothingApart, SwitchInv, NEW w \in Workers, CompleteReplace(w)
    PROVE  SwitchInv'
<1> DEFINE s == copy[w].to
           z == [sw EXCEPT !.target = s, !.epoch = @ + 1]
           y == Revised(z)
           b == [s |-> s, epoch |-> sw.epoch + 1]
<1>1. /\ Gone' = IF Expires THEN Gone \cup Queued(sw) ELSE Gone
      /\ copy[w].pc = "attach" /\ copy[w] \in Copies /\ Holds(copy[w], accepted)
      /\ UNCHANGED <<draft, accepted, sent>>
  BY DEF CompleteReplace, Expire, Switching, Typed
<1>2. ~InSend(copy[w])
  BY <1>1 DEF InSend
<1>3. CASE /\ sw' = AfterExpire /\ copy' = [copy EXCEPT ![w] = NoCopy]
           /\ UNCHANGED <<bound, shown>>
  <2>1. Switching(AfterExpire, bound, shown, copy, draft, accepted, sent, Gone')
    BY <1>1, ExpiryKeeps
  <2>2. Switching(AfterExpire, bound, shown, [copy EXCEPT ![w] = NoCopy], draft, accepted,
                  sent, Gone')
    BY <2>1, Released
  <2> QED BY <1>1, <1>3, <2>2
<1>4. ASSUME ~Expires, ~Extends, CanComplete(copy[w].sw),
             bound' = [s |-> s, epoch |-> copy[w].sw.epoch + 1], shown' = s,
             Drain(w, Revised([copy[w].sw EXCEPT !.target = s, !.epoch = @ + 1]), s,
                   [s |-> s, epoch |-> copy[w].sw.epoch + 1], draft, FALSE)
      PROVE  SwitchInv'
  <2>1. /\ copy[w].sw = sw /\ sw \in Switches /\ sw # NoSession /\ Current(copy[w], sw)
        /\ bound.epoch = sw.epoch /\ Gone' = Gone
    BY <1>1, <1>4 DEF CanComplete, CopyIsCurrent, Current, Switching, Fenced, Typed
  <2>2. bound' = b /\ Drain(w, y, s, b, draft, FALSE)
    BY <1>4, <2>1
  <2>3. sw.target = NoSession /\ s # NoSession /\ s \in Ends /\ sw.epoch \in Nat
    BY <1>1, <2>1 DEF Holds, Copies, Switches
  <2>4. \A v \in Workers : ~InSend(copy[v])
    <3>1. CASE w = "conversation"
      BY <1>1, <1>2, <2>1, <3>1 DEF Switching, Parted, Workers
    <3>2. CASE w = "event"
      BY <1>2, <2>1, <2>3, <3>2 DEF Switching, Guarded, Workers
    <3> QED BY <3>1, <3>2 DEF Workers
  <2>5. /\ z \in Switches /\ z.target = s /\ z.epoch = sw.epoch + 1
        /\ z.messages = sw.messages
    <3>1. s \in Ends /\ sw.epoch + 1 \in Nat /\ sw \in Switches
      BY <2>1, <2>3
    <3> HIDE DEF s
    <3> QED BY <3>1 DEF Switches
  <2>6. /\ b \in [s : Ends, epoch : Nat] /\ b.s = s /\ b.epoch = sw.epoch + 1
    BY <2>3
  <2> HIDE DEF z
  <2>7. /\ y \in Switches /\ Unknown(copy, y.rev) /\ y.messages = sw.messages
        /\ y.target = s /\ y.epoch = b.epoch /\ y # NoSession
    BY <2>5, <2>6, SavedRecord DEF SameLine, NothingApart
  <2> HIDE DEF y, b
  <2>8. Switching(sw, b, s, copy, draft, accepted, sent, Gone)
    BY <2>1, <2>3, <2>6, BoundAnew
  <2>9. Line(y, b, accepted)
    BY <2>1, <2>3, <2>6, <2>7 DEF Switching, Line
  <2>10. Ahead(y, b, copy, draft, sent)
    BY <2>1, <2>3, <2>4, <2>7 DEF Switching, Ahead, Live
  <2>11. Follows(y, b) /\ Guarded(y, b, copy)
    BY <2>4, <2>6, <2>7 DEF Follows, Guarded, Workers
  <2>12. Known(y, accepted, sent, Gone)
    BY <2>1, <2>7 DEF Switching, Known, Queued
  <2>13. Switching(y, b, s, copy, draft, accepted, sent, Gone)
    BY <2>7, <2>8, <2>9, <2>10, <2>11, <2>12, Changed
  <2>14. Switching(sw', b, s, copy', draft, accepted, sent, Gone)
    BY <1>2, <2>2, <2>7, <2>13, Drained
  <2> QED BY <1>1, <1>4, <2>1, <2>2, <2>14
<1> HIDE DEF z, y, b
<1> QED BY <1>3, <1>4 DEF CompleteReplace, bindVars

LEMMA NotYetKeeps ==
    ASSUME NothingApart, SwitchInv, NEW w \in Workers, ReplaceNotYet(w)
    PROVE  SwitchInv'
<1>1. /\ copy' = [copy EXCEPT ![w] = NoCopy]
      /\ UNCHANGED <<sw, bound, shown, draft, accepted, sent, Gone>>
  BY DEF ReplaceNotYet, bindVars, logVars
<1> QED BY <1>1, Released

\* refresh_session_switch
LEMMA RefreshKeeps ==
    ASSUME NothingApart, SwitchInv, Refresh
    PROVE  SwitchInv'
<1> DEFINE x == AfterExpire
<1>1. /\ Gone' = IF Expires THEN Gone \cup Queued(sw) ELSE Gone
      /\ ~InSend(copy["conversation"]) /\ "conversation" \in Workers
      /\ UNCHANGED <<bound, shown, draft, accepted, sent>>
  BY DEF Refresh, Expire, Free, InSend, bindVars, Workers
<1>2. /\ Switching(x, bound, shown, copy, draft, accepted, sent, Gone')
      /\ x \in Switches \cup {NoSession}
  BY <1>1, ExpiryKeeps
<1> HIDE DEF x
<1>3. CASE sw' = x /\ UNCHANGED copy
  BY <1>1, <1>2, <1>3
<1>4. CASE /\ x # NoSession /\ bound.s # NoSession /\ ~SameEpoch(x)
           /\ sw' = Cancelled(x) /\ UNCHANGED copy
  <2>1. ~Live(x, bound)
    BY <1>4 DEF SameEpoch, Live
  <2>2. Switching(Cancelled(x), bound, shown, copy, draft, accepted, sent, Gone')
    BY <1>2, <2>1, CancelKeeps
  <2> QED BY <1>1, <1>4, <2>2
<1>5. CASE /\ x # NoSession /\ ~x.paused /\ x.target = NoSession
           /\ x.candidate # NoSession /\ BeginReplace("conversation", x, x.candidate)
  <2>1. x \in Switches /\ x.candidate \in SwitchSessions
    BY <1>2, <1>5 DEF Switches, Ends
  <2>2. ~InSend(copy["event"])
    BY <1>2, <1>5 DEF Switching, Guarded
  <2>3. Switching(sw', bound, shown, copy', draft, accepted, sent, Gone')
    BY <1>1, <1>2, <1>5, <2>1, <2>2, BeginsReplace
  <2> QED BY <1>1, <2>3
<1>6. CASE /\ x # NoSession /\ SomeSending(x)
           /\ sw' = PauseUncertain(x) /\ UNCHANGED copy
  <2>1. x \in Switches
    BY <1>2, <1>6
  <2>2. HeadSends(x)
    <3>1. PICK i \in 1..Len(x.messages) : x.messages[i].sending
      BY <1>6 DEF SomeSending
    <3>2. i = 1
      BY <1>2, <1>6, <3>1 DEF Switching, Line
    <3>3. x.messages # <<>>
      BY <3>1, <3>2
    <3> QED BY <3>1, <3>2, <3>3 DEF HeadSends
  <2>3. Switching(Revised([x EXCEPT !.paused = TRUE]), bound, shown, copy, draft,
                  accepted, sent, Gone')
    BY <1>2, <2>1, <2>2, Pauses
  <2> QED BY <1>1, <1>6, <2>3 DEF PauseUncertain
<1>7. CASE Drain("conversation", x, shown, bound, draft, busy)
  <2>1. Switching(sw', bound, shown, copy', draft, accepted, sent, Gone')
    BY <1>1, <1>2, <1>7, Drained
  <2> QED BY <1>1, <2>1
<1> QED BY <1>3, <1>4, <1>5, <1>6, <1>7 DEF Refresh, x
\* resolve_terminal_input and cancel_pending_reply. The head is the draft, or what waits
\* comes after it.
LEMMA CancelDraftKeeps ==
    ASSUME NothingApart, SwitchInv, DraftCancelled
    PROVE  SwitchInv'
<1>1. /\ draft' = 0 /\ ~InSend(copy["conversation"]) /\ shown # NoSession
      /\ UNCHANGED <<bound, shown, copy, accepted, sent>>
  BY DEF DraftCancelled, Free, InSend, bindVars
<1>2. CASE ~HeadWaits
  <2>1. Gone' = Gone \cup {draft} /\ sw' = sw
    BY <1>2 DEF DraftCancelled
  <2>2. Gone \subseteq Gone' /\ draft \in Gone'
    BY <2>1
  <2>3. Switching(sw, bound, shown, copy, 0, accepted, sent, Gone')
    BY <2>2, DraftGone
  <2> QED BY <1>1, <2>1, <2>3
<1>3. CASE HeadWaits
  <2> DEFINE y == Revised([sw EXCEPT !.messages = Tail(@)])
  <2>1. /\ Gone' = Gone \cup {sw.messages[1].id} /\ sw' = y
        /\ sw \in Switches /\ sw # NoSession /\ sw.messages # <<>> /\ ~HeadSends(sw)
        /\ sw.target # NoSession
    BY <1>1, <1>3 DEF DraftCancelled, HeadWaits, HeadSends, Switching, Typed
  <2>2. /\ y \in Switches /\ y.rev = FreshRevision
        /\ y.target = sw.target /\ y.epoch = sw.epoch /\ y.paused = sw.paused
        /\ y.candidate = sw.candidate
        /\ Len(y.messages) = Len(sw.messages) - 1 /\ Len(sw.messages) \in Nat
        /\ \A i \in 1..Len(y.messages) :
              y.messages[i] = sw.messages[i + 1] /\ i + 1 \in 2..Len(sw.messages)
        /\ Queued(sw) \subseteq Queued(y) \cup {sw.messages[1].id}
    BY <2>1, HeadGone
  <2> HIDE DEF y
  <2>3. y # NoSession /\ Unknown(copy, y.rev)
    BY <2>2, FreshRecord DEF NothingApart, Switching, Typed, Unknown
  <2>4. \A w \in Workers : Live(sw, bound) => ~InSend(copy[w])
    BY <2>1 DEF Switching, Guarded
  <2>5. /\ Line(y, bound, accepted) /\ Ahead(y, bound, copy, draft, sent)
        /\ Follows(y, bound) /\ Guarded(y, bound, copy)
    BY <1>1, <2>1, <2>2, <2>4, TailKeeps
  <2>6. Switching(sw, bound, shown, copy, draft, accepted, sent, Gone')
    BY <2>1, ToldMore
  <2>7. Known(y, accepted, sent, Gone')
    BY <2>1, <2>2 DEF Switching, Known
  <2>8. Switching(y, bound, shown, copy, draft, accepted, sent, Gone')
    BY <2>2, <2>3, <2>5, <2>6, <2>7, Changed
  <2>9. \A w \in Workers : InSend(copy[w]) => ~Current(copy[w], y)
    BY <2>3 DEF Switching, Holds, Unknown, Current
  <2>10. Switching(y, bound, shown, copy, 0, accepted, sent, Gone')
    BY <2>8, <2>9, DraftGone
  <2> QED BY <1>1, <2>1, <2>10
<1> QED BY <1>2, <1>3

LEMMA ConfirmDraftKeeps ==
    ASSUME NothingApart, SwitchInv, DraftConfirmed
    PROVE  SwitchInv'
<1>1. /\ draft' = 0 /\ draft # 0 /\ shown # NoSession
      /\ ~InSend(copy["conversation"]) /\ "conversation" \in Workers
      /\ UNCHANGED <<bound, shown, accepted, Gone>>
  BY DEF DraftConfirmed, Free, InSend, bindVars, Workers
<1>2. /\ accepted \in Nat /\ draft \in Nat /\ sent \in Seq(Nat)
      /\ sw \in Switches \cup {NoSession}
  BY DEF Switching, Typed
<1>3. CASE HeadWaits /\ sw.messages[1].id = draft
  <2>1. /\ Drain("conversation", sw, shown, bound, 0, busy) /\ UNCHANGED sent
    BY <1>3 DEF DraftConfirmed
  <2>2. sw \in Switches /\ sw # NoSession /\ sw.target # NoSession /\ ~HeadSends(sw)
    BY <1>1, <1>2, <1>3 DEF HeadWaits, HeadSends
  <2>3. \A w \in Workers : ~Current(copy[w], sw) \/ ~InSend(copy[w])
    BY <2>2 DEF Switching, Holds, Fenced
  <2>4. Switching(sw, bound, shown, copy, 0, accepted, sent, Gone)
    BY <2>3, DraftGone
  <2>5. Switching(sw', bound, shown, copy', 0, accepted, sent, Gone)
    BY <1>1, <1>2, <2>1, <2>4, Drained
  <2> QED BY <1>1, <2>1, <2>5
<1>4. CASE ~(HeadWaits /\ sw.messages[1].id = draft)
  <2> DEFINE r == Append(sent, draft)
  <2>1. sent' = r /\ UNCHANGED <<sw, copy>>
    BY <1>4 DEF DraftConfirmed
  <2>2. draft \in 1..accepted /\ Past(sent, draft)
    BY <1>1, <1>2 DEF Switching, Drafted
  <2>3. /\ r \in Seq(Nat) /\ Ascending(r, accepted)
        /\ Elements(r) = Elements(sent) \cup {draft}
        /\ \A j \in Nat : draft < j /\ Past(sent, j) => Past(r, j)
    BY <1>2, <2>2, SentNext DEF Switching
  <2> HIDE DEF r
  <2>4. Typed(sw, bound, shown, copy, 0, accepted, r) /\ Drafted(0, accepted, r)
    BY <2>3 DEF Switching, Typed, Drafted
  <2>5. \A w \in Workers : Sender(copy[w], 0, r) /\ Fenced(copy[w], sw, 0, r, Gone)
    BY <1>1, <2>3 DEF Switching, Sender, Fenced
  <2>6. Ahead(sw, bound, copy, 0, r)
    <3> SUFFICES ASSUME Live(sw, bound), NEW i \in 1..Len(sw.messages),
                        ~sw.messages[i].sending
                 PROVE  Past(r, sw.messages[i].id) /\ 0 < sw.messages[i].id
                        /\ \A w \in Workers : InSend(copy[w]) => copy[w].m < sw.messages[i].id
      BY DEF Ahead
    <3>1. sw # NoSession /\ sw.messages[i].id \in 1..accepted
      BY DEF Switching, Line, Live
    <3>2. draft < sw.messages[i].id
      <4>1. SUFFICES ASSUME i = 1, draft = sw.messages[1].id, sw.target # NoSession,
                            ~sw.paused
                     PROVE  FALSE
        BY DEF Switching, Ahead
      <4>2. shown = sw.target
        BY <1>1, <4>1 DEF Switching, Follows, Typed
      <4>3. sw.messages # <<>> /\ ~sw.messages[1].sending
        BY <4>1
      <4> QED BY <1>4, <3>1, <4>1, <4>2, <4>3 DEF HeadWaits
    <3> QED BY <1>2, <2>3, <3>1, <3>2 DEF Switching, Ahead
  <2>7. Known(sw, accepted, r, Gone)
    BY <2>3 DEF Switching, Known
  <2>8. Switching(sw, bound, shown, copy, 0, accepted, r, Gone)
    BY <2>3, <2>4, <2>5, <2>6, <2>7 DEF Switching
  <2> QED BY <1>1, <2>1, <2>8
<1> QED BY <1>3, <1>4

\* control_switch_queue and the end of a turn let the queue go on.
LEMMA ResumeKeeps ==
    ASSUME NothingApart, SwitchInv, ResumeQueue
    PROVE  SwitchInv'
<1> DEFINE y == Revised([sw EXCEPT !.paused = FALSE])
<1>1. /\ sw \in Switches /\ sw.target # NoSession
      /\ ~InSend(copy["conversation"]) /\ "conversation" \in Workers
      /\ Drain("conversation", y, shown, bound, draft, busy)
      /\ UNCHANGED <<bound, shown, draft, accepted, sent, Gone>>
  BY DEF ResumeQueue, Free, InSend, bindVars, logVars, Switching, Typed, Workers
<1>2. /\ y \in Switches /\ Unknown(copy, y.rev) /\ SameLine(y, sw) /\ y.paused = FALSE
      /\ y.candidate = sw.candidate
  BY <1>1, PausedRecord
<1> HIDE DEF y
<1>3. Switching(y, bound, shown, copy, draft, accepted, sent, Gone)
  BY <1>1, <1>2, Rewritten
<1>4. Switching(sw', bound, shown, copy', draft, accepted, sent, Gone)
  BY <1>1, <1>2, <1>3, Drained
<1> QED BY <1>1, <1>4

LEMMA TurnEndsKeeps ==
    ASSUME NothingApart, SwitchInv, TurnEnds
    PROVE  SwitchInv'
<1>1. /\ ~InSend(copy["event"]) /\ "event" \in Workers
      /\ Drain("event", sw, shown, bound, draft, FALSE)
      /\ sw \in Switches \cup {NoSession}
      /\ UNCHANGED <<bound, shown, draft, accepted, sent, Gone>>
  BY DEF TurnEnds, Free, InSend, bindVars, logVars, Switching, Typed, Workers
<1>2. Switching(sw', bound, shown, copy', draft, accepted, sent, Gone)
  BY <1>1, Drained
<1> QED BY <1>1, <1>2

\* The session exits, resumes; the service stops and starts.
LEMMA Shows ==
    ASSUME NEW x, NEW b, NEW h, NEW k, NEW d, NEW n, NEW q, NEW t,
           Switching(x, b, h, k, d, n, q, t), NEW g \in {NoSession, b.s}
    PROVE  Switching(x, b, g, k, d, n, q, t)
  BY DEF Switching, Typed, Ends

LEMMA ExitKeeps ==
    ASSUME NothingApart, SwitchInv, SessionExits
    PROVE  SwitchInv'
<1>1. UNCHANGED <<sw, copy, accepted, sent>>
  BY DEF SessionExits
<1>2. CASE draft' = 0 /\ Gone' = Gone \cup ({draft} \ {0}) /\ UNCHANGED bindVars
  <2>1. Gone \subseteq Gone' /\ (draft = 0 \/ draft \in Gone') /\ UNCHANGED <<bound, shown>>
    BY <1>2 DEF bindVars
  <2>2. Switching(sw, bound, shown, copy, 0, accepted, sent, Gone')
    BY <2>1, DraftGone
  <2> QED BY <1>1, <1>2, <2>1, <2>2
<1>3. CASE /\ shown' = NoSession /\ bound' = [bound EXCEPT !.epoch = @ + 1]
           /\ UNCHANGED <<draft, Gone>>
  <2>1. bound' \in [s : Ends, epoch : Nat] /\ bound'.epoch = bound.epoch + 1
    BY SMTT(30), <1>3 DEF Switching, Typed
  <2>2. NoSession \in Ends
    BY DEF Ends
  <2>3. Switching(sw, bound', NoSession, copy, draft, accepted, sent, Gone)
    BY <2>1, <2>2, BoundAnew
  <2> QED BY <1>1, <1>3, <2>3
<1> QED BY <1>2, <1>3 DEF SessionExits

LEMMA ServiceKeeps ==
    ASSUME NothingApart, SwitchInv, SessionResumes \/ Stop \/ Start
    PROVE  SwitchInv'
<1>1. CASE SessionResumes \/ Start
  <2>1. shown' = bound.s /\ UNCHANGED <<sw, bound, copy, draft, accepted, sent, Gone>>
    BY <1>1 DEF SessionResumes, Start, logVars
  <2>2. Switching(sw, bound, bound.s, copy, draft, accepted, sent, Gone)
    BY Shows
  <2> QED BY <2>1, <2>2
<1>2. CASE Stop
  <2> DEFINE k == [w \in Workers |-> NoCopy]
             j == [copy EXCEPT !["conversation"] = NoCopy]
  <2>1. /\ copy' = k /\ draft' = 0 /\ shown' = NoSession
        /\ UNCHANGED <<sw, bound, accepted, sent, Gone>>
    BY <1>2 DEF Stop, logVars
  <2>2. "conversation" \in Workers /\ "event" \in Workers
    BY DEF Workers
  <2>3. Switching(sw, bound, shown, j, draft, accepted, sent, Gone)
    BY <2>2, Released
  <2> HIDE DEF j
  <2>4. Switching(sw, bound, shown, [j EXCEPT !["event"] = NoCopy], draft, accepted, sent, Gone)
    BY <2>2, <2>3, Released
  <2>5. [j EXCEPT !["event"] = NoCopy] = k
    BY DEF j, Workers, Switching, Typed
  <2>6. \A w \in Workers : ~InSend(k[w])
    BY IdleCopy
  <2> HIDE DEF k
  <2>7. Switching(sw, bound, shown, k, 0, accepted, sent, Gone)
    BY <2>4, <2>5, <2>6, DraftGone
  <2>8. Switching(sw, bound, NoSession, k, 0, accepted, sent, Gone)
    BY <2>7, Shows
  <2> QED BY <2>1, <2>8
<1> QED BY <1>1, <1>2

LEMMA SwitchStarts ==
    ASSUME NothingApart, SwitchInit
    PROVE  SwitchInv
<1>1. PICK s \in SwitchSessions : bound = [s |-> s, epoch |-> 1] /\ shown = s
  BY DEF SwitchInit
<1>2. /\ sw = NoSession /\ copy = [w \in Workers |-> NoCopy]
      /\ draft = 0 /\ accepted = 0 /\ sent = <<>>
  BY DEF SwitchInit
<1>3. Len(sent) = 0 /\ sent \in Seq(Nat)
  BY <1>2
<1>4. Typed(sw, bound, shown, copy, draft, accepted, sent)
  BY <1>1, <1>2, <1>3, IdleCopy DEF Typed, Ends
<1>5. \A w \in Workers :
         /\ ~InSend(copy[w]) /\ Holds(copy[w], accepted) /\ Sender(copy[w], draft, sent)
         /\ Fenced(copy[w], sw, draft, sent, Gone)
  BY <1>2, IdleCopy
<1>6. Ascending(sent, accepted) /\ Drafted(draft, accepted, sent)
  BY <1>2, <1>3 DEF Ascending, Drafted
<1>7. Alone(copy) /\ Parted(sw, copy) /\ Guarded(sw, bound, copy)
  BY <1>2, <1>5 DEF Alone, Parted, Guarded, Live, Workers
<1>8. /\ Line(sw, bound, accepted) /\ Ahead(sw, bound, copy, draft, sent)
      /\ Follows(sw, bound)
  BY <1>2 DEF Line, Ahead, Follows, Live
<1>9. Known(sw, accepted, sent, Gone)
  BY <1>2 DEF Known
<1> QED BY <1>4, <1>5, <1>6, <1>7, <1>8, <1>9 DEF Switching

\* Every step keeps the invariant.
LEMMA SwitchSteps ==
    ASSUME NothingApart, SwitchInv, [SwitchNext]_switchVars
    PROVE  SwitchInv'
<1>1. CASE UNCHANGED switchVars \/ AskChoice \/ AnswerChoice \/ DeadlinePasses
  <2>1. UNCHANGED <<sw, bound, shown, copy, draft, accepted, sent, Gone>>
    BY <1>1 DEF switchVars, bindVars, logVars, AskChoice, AnswerChoice, DeadlinePasses
  <2> QED BY <2>1
<1>2. ASSUME NEW w \in Workers,
             Send(w) \/ FinishSend(w) \/ CompleteReplace(w) \/ ReplaceNotYet(w)
      PROVE  SwitchInv'
  BY <1>2, SendKeeps, FinishKeeps, CompleteKeeps, NotYetKeeps
<1>3. CASE \/ NativeSwitchStarted \/ RequestNewSession \/ EnqueuePrompt \/ SavePrompt
           \/ SwitchFails \/ OtherReplaced
  BY <1>3, StartedKeeps, RequestKeeps, EnqueueKeeps, SaveKeeps, FailsKeeps, OtherKeeps
<1>4. ASSUME NEW s \in SwitchSessions, SessionReplaced(s) PROVE SwitchInv'
  BY <1>4, ReplacedKeeps
<1>5. CASE Refresh \/ DraftCancelled \/ DraftConfirmed \/ ClearQueue \/ ResumeQueue
  BY <1>5, RefreshKeeps, CancelDraftKeeps, ConfirmDraftKeeps, ClearKeeps, ResumeKeeps
<1>6. CASE TurnEnds \/ TargetReadOnly
  BY <1>6, TurnEndsKeeps, FailsKeeps
<1>7. ASSUME NEW s \in SwitchSessions \cup {NoSession}, Rebind(s) PROVE SwitchInv'
  BY <1>7, RebindKeeps DEF Ends
<1>8. CASE SessionExits \/ SessionResumes \/ Stop \/ Start
  BY <1>8, ExitKeeps, ServiceKeeps
<1> QED BY <1>1, <1>2, <1>3, <1>4, <1>5, <1>6, <1>7, <1>8 DEF SwitchNext

\* A queued message is handed over at most once, in the order of acceptance, and none
\* that was saved disappears without the user being told (session_switch.rs,
\* terminal_input.rs), for any number of sessions, messages, switches and upsets.
THEOREM MessagesAccountedHolds ==
    ASSUME NothingApart
    PROVE  SwitchSpec => []MessagesAccounted
<1>1. SwitchInit => SwitchInv
  BY SwitchStarts
<1>2. SwitchInv /\ [SwitchNext]_switchVars => SwitchInv'
  BY SwitchSteps
<1>3. SwitchInv => MessagesAccounted
  BY DEF Switching, Ascending, Known, Elements, MessagesAccounted, SentInOrder, NoSilentLoss
<1> HIDE DEF SwitchInv
<1> QED BY <1>1, <1>2, <1>3, PTL DEF SwitchSpec
=============================================================================
