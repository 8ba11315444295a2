------------------------- MODULE PaidRecoveryProofs -------------------------
(***************************************************************************)
(* Proofs about PaidRecovery for every number of backends, runs, nodes,    *)
(* starts, records, faults and crashes.                                    *)
(***************************************************************************)
EXTENDS PaidRecovery, FiniteSetTheorems, TLAPS

USE NamesAssumption, BoundAssumption, ValuesAssumption

-----------------------------------------------------------------------------
(* The store: what each operation may leave of the records.                *)

StoreState == [recs : SUBSET Record, err : BOOLEAN, boot : BOOLEAN, bad : Nat, ok : BOOLEAN]

\* Every provider ID that canvas G shows has a record in R.
Seeded(R, G) == \A n \in Carried(G) : Journaled(R, n, G[n])

\* The store as a process finds it.
LEMMA StoreTyped ==
  ASSUME TypeOK, NEW p \in Proc
  PROVE  /\ Store(p) \in StoreState /\ Store(p).recs = records /\ Store(p).ok
         /\ Store(p).boot = bootErr[p] /\ Store(p).err = storageErr[p] /\ Store(p).bad = faults
  BY DEF TypeOK, Store, StoreState

\* A refusal changes nothing but the answer.
LEMMA RefusedFacts ==
  ASSUME NEW st \in StoreState
  PROVE  /\ Refused(st) \in StoreState /\ Refused(st).recs = st.recs /\ Refused(st).boot = st.boot
         /\ Refused(st).err = st.err /\ ~Refused(st).ok
  BY DEF Refused, StoreState

\* A lock or reload that fails changes no record (_journal_lock, _reload_locked).
LEMMA UnreadFacts ==
  ASSUME NEW st \in StoreState, NEW x \in Unread(st)
  PROVE  x \in StoreState /\ x.recs = st.recs /\ x.boot = st.boot /\ x.err = st.err /\ ~x.ok
<1> DEFINE q == Refused(st)
<1>1. q \in StoreState /\ q.recs = st.recs /\ q.boot = st.boot /\ q.err = st.err /\ ~q.ok
  BY RefusedFacts
<1>2. x = [q EXCEPT !.bad = q.bad + 1]
  BY DEF Unread
<1> HIDE DEF q
<1> QED BY <1>1, <1>2 DEF StoreState

\* A save leaves the records it was given or those before, and says so (_persist).
LEMMA SavedFacts ==
  ASSUME NEW st \in StoreState, NEW R \in SUBSET Record, NEW x \in Saved(st, R)
  PROVE  x \in StoreState /\ x.recs \in {st.recs, R} /\ x.boot = st.boot /\ (x.ok => x.recs = R)
<1>1. CASE x = [st EXCEPT !.recs = R]
  BY <1>1 DEF StoreState
<1>2. ASSUME NEW s \in Unread(st), NEW W \in {st.recs, R}, x = Torn(s, W)
      PROVE  x \in StoreState /\ x.recs \in {st.recs, R} /\ x.boot = st.boot /\ ~x.ok
  <2>1. s \in StoreState /\ s.boot = st.boot /\ ~s.ok /\ W \in SUBSET Record
    BY <1>2, UnreadFacts DEF StoreState
  <2> QED BY <1>2, <2>1 DEF StoreState, Torn
<1>3. \/ x = [st EXCEPT !.recs = R]
      \/ \E s \in Unread(st), W \in {st.recs, R} : x = Torn(s, W)
  BY DEF Saved
<1> QED BY <1>1, <1>2, <1>3

\* Seeding adds records of its own only (graph-<source>-<uuid>), for all the canvas carries.
LEMMA AdditionsFacts ==
  ASSUME NEW R \in SUBSET Record, NEW G \in Canvas
  PROVE  /\ Additions(R, G) \in SUBSET Record /\ \A x \in Additions(R, G) : x.run = Seed
         /\ Seeded(R \cup Additions(R, G), G)
<1>1. \A n \in Carried(G) : G[n] \in Id
  BY DEF Carried, Canvas
<1>2. \A n \in {m \in Carried(G) : ~Journaled(R, m, G[m])} :
        [run |-> Seed, node |-> n, id |-> G[n]] \in Record
  BY <1>1 DEF Carried, Record
<1>3. Additions(R, G) \in SUBSET Record /\ \A x \in Additions(R, G) : x.run = Seed
  BY <1>2 DEF Additions
<1>4. ASSUME NEW n \in Carried(G) PROVE Journaled(R \cup Additions(R, G), n, G[n])
  <2>1. CASE Journaled(R, n, G[n])
    BY <2>1 DEF Journaled
  <2>2. CASE ~Journaled(R, n, G[n])
    <3>1. [run |-> Seed, node |-> n, id |-> G[n]] \in Additions(R, G)
      BY <2>2 DEF Additions
    <3> QED BY <3>1 DEF Journaled
  <2> QED BY <2>1, <2>2
<1> QED BY <1>3, <1>4 DEF Seeded

\* ensure_many adds seeded records and nothing else, all of them when it returns.
LEMMA EnsuredFacts ==
  ASSUME NEW st \in StoreState, st.ok, NEW res, NEW G \in Canvas, NEW x \in Ensured(st, res, G)
  PROVE  /\ x \in StoreState /\ x.boot = st.boot /\ st.recs \subseteq x.recs
         /\ \A y \in x.recs \ st.recs : y.run = Seed
         /\ x.ok => Seeded(x.recs, G)
<1> DEFINE more == st.recs \cup Additions(st.recs, G)
<1>1. more \in SUBSET Record /\ Seeded(more, G) /\ \A y \in more \ st.recs : y.run = Seed
  BY AdditionsFacts DEF StoreState
<1>2. CASE x = st /\ Carried(G) = {}
  BY <1>2 DEF Seeded
<1>3. CASE x = Refused(st)
  BY <1>3, RefusedFacts
<1>4. CASE x \in Unread(st)
  BY <1>4, UnreadFacts
<1>5. CASE x = st /\ more = st.recs
  BY <1>1, <1>5
<1>6. CASE x \in Saved(st, more)
  BY <1>1, <1>6, SavedFacts
<1> HIDE DEF more
<1>7. (x = st /\ Carried(G) = {}) \/ x = Refused(st) \/ x \in Unread(st) \/ (x = st /\ more = st.recs)
      \/ x \in Saved(st, more)
  BY DEF Ensured, more
<1> QED BY <1>2, <1>3, <1>4, <1>5, <1>6, <1>7

\* verify_writable changes no record.
LEMMA VerifiedFacts ==
  ASSUME NEW st \in StoreState, NEW x \in Verified(st)
  PROVE  x \in StoreState /\ x.recs = st.recs /\ x.boot = st.boot
<1>1. CASE x = [st EXCEPT !.err = FALSE]
  BY <1>1 DEF StoreState
<1>2. ASSUME NEW s \in Unread(st), x = [s EXCEPT !.err = TRUE]
      PROVE  x \in StoreState /\ x.recs = st.recs /\ x.boot = st.boot
  BY <1>2, UnreadFacts DEF StoreState
<1> QED BY <1>1, <1>2 DEF Verified

\* The records once that of run r and node n has this ID.
Updated(R, r, n, id) ==
  {y \in R : ~(y.run = r /\ y.node = n)} \cup {[run |-> r, node |-> n, id |-> id]}

\* set replaces the record of its run and node, or keeps every record.
LEMMA SetInFacts ==
  ASSUME NEW st \in StoreState, NEW res, NEW r \in Run, NEW n \in Node, NEW id \in Id,
         NEW x \in SetIn(st, res, r, n, id), st.ok
  PROVE  /\ x \in StoreState /\ x.boot = st.boot
         /\ x.recs \in {st.recs, Updated(st.recs, r, n, id)}
         /\ x.ok => Journaled(x.recs, n, id)
<1> DEFINE R == Updated(st.recs, r, n, id)
<1>1. R \in SUBSET Record /\ Journaled(R, n, id)
  <2>1. st.recs \in SUBSET Record /\ [run |-> r, node |-> n, id |-> id] \in Record
    BY DEF StoreState, Record
  <2> QED BY <2>1 DEF Journaled, Updated
<1>2. CASE x = Refused(st)
  BY <1>2, RefusedFacts
<1>3. CASE x \in Unread(st)
  BY <1>3, UnreadFacts
<1>4. CASE x = st /\ Journaled(st.recs, n, id)
  BY <1>4
<1>5. x = Refused(st) \/ x \in Unread(st) \/ (x = st /\ Journaled(st.recs, n, id)) \/ x \in Saved(st, R)
  BY DEF SetIn, Updated
<1> HIDE DEF R
<1>6. CASE x \in Saved(st, R)
  BY <1>1, <1>6, SavedFacts DEF R
<1> QED BY <1>2, <1>3, <1>4, <1>5, <1>6 DEF R

\* delete takes the records it names at most.
LEMMA RemovedFacts ==
  ASSUME NEW st \in StoreState, NEW R, NEW x \in Removed(st, R)
  PROVE  x \in StoreState /\ x.boot = st.boot /\ x.recs \in {st.recs, st.recs \ R}
<1>1. CASE x \in Unread(st)
  BY <1>1, UnreadFacts
<1>2. CASE x = Swept(st, st.recs \ R)
  BY <1>2 DEF StoreState, Swept
<1>3. ASSUME NEW s \in Unread(st), NEW W \in {st.recs, st.recs \ R}, x = Swept(s, W)
      PROVE  x \in StoreState /\ x.boot = st.boot /\ x.recs \in {st.recs, st.recs \ R}
  <2>1. s \in StoreState /\ s.boot = st.boot /\ W \in SUBSET Record
    BY <1>3, UnreadFacts DEF StoreState
  <2> QED BY <1>3, <2>1 DEF StoreState, Swept
<1>4. \/ x \in Unread(st) \/ x = Swept(st, st.recs \ R)
      \/ \E s \in Unread(st), W \in {st.recs, st.recs \ R} : x = Swept(s, W)
  BY DEF Removed
<1> QED BY <1>1, <1>2, <1>3, <1>4

\* What an operation that only adds leaves: no record is lost, and a bootstrap error
\* goes away only when the whole canvas of the process is in the journal.
Grown(p, x) ==
  /\ x \in StoreState
  /\ records \subseteq x.recs
  /\ x.boot = bootErr[p] \/ Seeded(x.recs, graph[p])

\* The bootstrap retry of admission clears the error for a seeded canvas only.
LEMMA RebootedFacts ==
  ASSUME TypeOK, NEW p \in Proc, NEW x \in Rebooted(p)
  PROVE  /\ Grown(p, x)
         /\ \A y \in x.recs \ records : y.run = Seed
         /\ x.ok => ~bootErr[p] \/ Seeded(x.recs, graph[p])
<1>1. /\ Store(p) \in StoreState /\ Store(p).recs = records /\ Store(p).ok
      /\ Store(p).boot = bootErr[p]
  BY StoreTyped
<1>2. CASE ~bootErr[p]
  BY <1>1, <1>2 DEF Rebooted, Grown
<1>3. CASE bootErr[p]
  <2>1. graph[p] \in Canvas
    BY DEF TypeOK
  <2>2. PICK s \in Ensured(Store(p), reservations[p], graph[p]) :
          \E v \in IF s.ok THEN Verified(s) ELSE {s} : x = [v EXCEPT !.boot = ~v.ok]
    BY <1>3 DEF Rebooted
  <2>3. PICK v \in IF s.ok THEN Verified(s) ELSE {s} : x = [v EXCEPT !.boot = ~v.ok]
    BY <2>2
  <2>4. /\ s \in StoreState /\ records \subseteq s.recs
        /\ \A y \in s.recs \ records : y.run = Seed
        /\ s.ok => Seeded(s.recs, graph[p])
    BY <1>1, <2>1, EnsuredFacts
  <2>5. v \in StoreState /\ v.recs = s.recs /\ (~s.ok => v = s)
    BY <2>3, <2>4, VerifiedFacts
  <2>6. x \in StoreState /\ x.recs = v.recs /\ x.boot = ~v.ok /\ x.ok = v.ok
    BY <2>3, <2>5 DEF StoreState
  <2> QED BY <1>3, <2>4, <2>5, <2>6 DEF Grown
<1> QED BY <1>2, <1>3

\* The fence of a mutation passes only when the whole canvas is in the journal.
LEMMA FencedFacts ==
  ASSUME TypeOK, NEW p \in Proc, NEW x \in Fenced(p)
  PROVE  /\ Grown(p, x)
         /\ \A y \in x.recs \ records : y.run = Seed
         /\ x.ok => Seeded(x.recs, graph[p])
<1>1. /\ Store(p) \in StoreState /\ Store(p).recs = records /\ Store(p).ok
      /\ Store(p).boot = bootErr[p]
  BY StoreTyped
<1>2. PICK s \in Ensured(Store(p), reservations[p], graph[p]) :
        \/ x = s
        \/ s.ok /\ \E v \in Verified(s) : x = [v EXCEPT !.boot = ~v.ok, !.ok = TRUE]
  BY DEF Fenced
<1>3. graph[p] \in Canvas
  BY DEF TypeOK
<1>4. /\ s \in StoreState /\ records \subseteq s.recs /\ s.boot = bootErr[p]
      /\ \A y \in s.recs \ records : y.run = Seed
      /\ s.ok => Seeded(s.recs, graph[p])
  BY <1>1, <1>3, EnsuredFacts
<1>5. CASE x = s
  BY <1>4, <1>5 DEF Grown
<1>6. ASSUME NEW v \in Verified(s), s.ok, x = [v EXCEPT !.boot = ~v.ok, !.ok = TRUE]
      PROVE  x \in StoreState /\ x.recs = s.recs /\ x.ok
  <2>1. v \in StoreState /\ v.recs = s.recs
    BY <1>4, VerifiedFacts
  <2> QED BY <1>6, <2>1 DEF StoreState
<1> QED BY <1>2, <1>4, <1>5, <1>6 DEF Grown

\* Checkpoints of supplied IDs add records of run r and of the nodes that supplied them.
LEMMA CheckpointedFacts ==
  ASSUME NEW st \in StoreState, NEW r \in Run, NEW pay, NEW D \in SUBSET Reruns(pay)
  PROVE  LET c == Checkpointed(st, r, pay, D) IN
         /\ c \in StoreState /\ st.recs \subseteq c.recs /\ c.boot = st.boot /\ c.ok = st.ok
         /\ \A y \in c.recs \ st.recs : y.run = r /\ y.node \in D /\ y.id = pay[y.node]
<1> DEFINE new == {[run |-> r, node |-> n, id |-> pay[n]] : n \in {m \in D : ~Journaled(st.recs, m, pay[m])}}
<1>1. \A n \in D : n \in Node /\ pay[n] \in Id
  BY DEF Reruns
<1>2. new \in SUBSET Record
  BY <1>1 DEF Record
<1>3. \A y \in new : y.run = r /\ y.node \in D /\ y.id = pay[y.node]
  OBVIOUS
<1> HIDE DEF new
<1>4. Checkpointed(st, r, pay, D) = [st EXCEPT !.recs = st.recs \cup new]
  BY DEF Checkpointed, new, StoreState
<1> QED BY <1>2, <1>3, <1>4 DEF StoreState

\* What registering the checkpoints of run r may leave: the records there were, and
\* records of run r for the nodes that supplied an ID.
Supplied(R, r, pay, x) ==
  /\ x \in StoreState
  /\ R \subseteq x.recs
  /\ \A y \in x.recs \ R : y.run = r /\ y.node \in Reruns(pay) /\ y.id = pay[y.node]

\* Registration of a run that has no record yet loses none (prepare_recovery_journal).
LEMMA RegisteredFacts ==
  ASSUME NEW st \in StoreState, st.ok, NEW res, NEW r \in Run, NEW pay,
         \A y \in st.recs : y.run # r, NEW x \in Registered(st, res, r, pay)
  PROVE  Supplied(st.recs, r, pay, x) /\ x.boot = st.boot
<1>1. CASE x = Checkpointed(st, r, pay, Reruns(pay))
  <2>1. Reruns(pay) \in SUBSET Reruns(pay)
    OBVIOUS
  <2> QED BY <1>1, <2>1, CheckpointedFacts DEF Supplied
<1>2. ASSUME NEW n \in Reruns(pay), NEW D \in SUBSET (Reruns(pay) \ {n}),
             NEW c, c = Checkpointed(st, r, pay, D),
             x \in SetIn(c, Unset(res, c.recs), r, n, pay[n])
      PROVE  Supplied(st.recs, r, pay, x) /\ x.boot = st.boot
  <2>1. /\ c \in StoreState /\ st.recs \subseteq c.recs /\ c.boot = st.boot /\ c.ok
        /\ \A y \in c.recs \ st.recs : y.run = r /\ y.node \in D /\ y.id = pay[y.node]
    <3>1. D \in SUBSET Reruns(pay)
      OBVIOUS
    <3> QED BY <1>2, <3>1, CheckpointedFacts
  <2>2. n \in Node /\ pay[n] \in Id
    BY DEF Reruns
  <2> DEFINE new == [run |-> r, node |-> n, id |-> pay[n]]
             kept == {y \in c.recs : ~(y.run = r /\ y.node = n)}
  <2>3. kept = c.recs
    BY <2>1
  <2>4. new.run = r /\ new.node = n /\ new.id = pay[n]
    OBVIOUS
  <2>5. /\ x \in StoreState /\ x.boot = c.boot
        /\ x.recs \in {c.recs, Updated(c.recs, r, n, pay[n])}
    BY <1>2, <2>1, <2>2, SetInFacts
  <2>6. Updated(c.recs, r, n, pay[n]) = kept \cup {new}
    BY DEF Updated
  <2> HIDE DEF new, kept
  <2> QED BY <2>1, <2>3, <2>4, <2>5, <2>6 DEF Supplied
<1>3. \/ x = Checkpointed(st, r, pay, Reruns(pay))
      \/ \E n \in Reruns(pay) : \E D \in SUBSET (Reruns(pay) \ {n}) :
           \E c : /\ c = Checkpointed(st, r, pay, D)
                  /\ x \in SetIn(c, Unset(res, c.recs), r, n, pay[n])
  BY DEF Registered
<1> QED BY <1>1, <1>2, <1>3

\* The journal of a run that has been admitted: seeded records and records of the run for
\* supplied IDs were added; the nodes that start afresh had neither record nor parameter.
LEMMA PreparedFacts ==
  ASSUME TypeOK, NEW p \in Proc, NEW r \in Run, NEW pay,
         \A y \in records : y.run # r, NEW x \in Prepared(p, r, pay)
  PROVE  /\ Grown(p, x)
         /\ \A y \in x.recs \ records :
              y.run = Seed \/ (y.run = r /\ y.node \in Reruns(pay) /\ y.id = pay[y.node])
         /\ x.ok => /\ ~bootErr[p] \/ Seeded(x.recs, graph[p])
                    /\ \A n \in Blanks(pay) : graph[p][n] = NoId /\ \A y \in records : y.node # n
<1>1. PICK s \in Rebooted(p) :
        \/ x = s /\ ~s.ok
        \/ x = Refused(s)
        \/ x \in Unread(s)
        \/ \E u \in Unread(s) : x = [u EXCEPT !.err = TRUE]
        \/ /\ s.ok /\ ~Stale(p, s.recs, pay)
           /\ x \in Registered(s, Reserved(s.recs, r, pay), r, pay)
  BY DEF Prepared
<1>2. /\ Grown(p, s) /\ \A y \in s.recs \ records : y.run = Seed
      /\ s.ok => ~bootErr[p] \/ Seeded(s.recs, graph[p])
  BY RebootedFacts
<1>3. s \in StoreState /\ records \subseteq s.recs /\ (s.boot = bootErr[p] \/ Seeded(s.recs, graph[p]))
  BY <1>2 DEF Grown
<1>4. CASE x = s /\ ~s.ok
  BY <1>2, <1>4
<1>5. CASE x = Refused(s)
  BY <1>2, <1>3, <1>5, RefusedFacts DEF Grown
<1>6. CASE x \in Unread(s)
  BY <1>2, <1>3, <1>6, UnreadFacts DEF Grown
<1>7. ASSUME NEW u \in Unread(s), x = [u EXCEPT !.err = TRUE]
      PROVE  x \in StoreState /\ x.recs = s.recs /\ x.boot = s.boot /\ ~x.ok
  <2>1. u \in StoreState /\ u.recs = s.recs /\ u.boot = s.boot /\ ~u.ok
    BY <1>3, UnreadFacts
  <2> QED BY <1>7, <2>1 DEF StoreState
<1>8. CASE s.ok /\ ~Stale(p, s.recs, pay) /\ x \in Registered(s, Reserved(s.recs, r, pay), r, pay)
  <2>1. \A y \in s.recs : y.run # r
    BY <1>2
  <2>2. Supplied(s.recs, r, pay, x) /\ x.boot = s.boot
    BY <1>3, <1>8, <2>1, RegisteredFacts
  <2>3. \A n \in Blanks(pay) : graph[p][n] = NoId /\ \A y \in s.recs : y.node # n
    BY <1>8 DEF Stale
  <2>4. Seeded(s.recs, graph[p]) => Seeded(x.recs, graph[p])
    BY <2>2 DEF Seeded, Supplied, Journaled
  <2> QED BY <1>2, <1>3, <1>8, <2>2, <2>3, <2>4 DEF Grown, Supplied
<1> QED BY <1>1, <1>2, <1>3, <1>4, <1>5, <1>6, <1>7, <1>8 DEF Grown

-----------------------------------------------------------------------------
(* The inductive invariant.                                                *)

Locked == holds \cup pending
Recorded(R, n, s) == \E x \in R : x.node = n /\ x.id[1] = s
KeptIn(R, d) == d[1] \in Locked \/ Recorded(R, d[1], d[2])

\* A process works on a run or a mutation exactly while it owns the lifecycle.
LifecycleIsOwned ==
  \A p \in Proc :
    /\ lifecycle = p <=> runOf[p] # NoRun
    /\ runOf[p] # NoRun => up[p]
    /\ commit[p] # NoCommit <=> runOf[p] = Mutation
    /\ runOf[p] \in Run => runOf[p] \in used
    /\ runOf[p] \notin Run => fresh[p] = {} /\ \A n \in Node : stage[p][n] = "none"

\* The journal has no record of a run that is still to come.
RecordsAreOfUsedRuns == \A x \in records : x.run \in used \cup {Seed}

\* The canvas that predates the journal: its start is in the file and in the memory of
\* every backend, each of which still has to seed it.
Unseeded(n) ==
  /\ lifecycle = NoProc
  /\ graphFile[n] # NoId /\ graphFile[n][1] = 0
  /\ \A p \in Proc : up[p] => bootErr[p] /\ graph[p][n] # NoId /\ graph[p][n][1] = 0

\* Every start that may be billed is locked or recorded, or is that one.
KeptOrUnseeded == \A d \in due : KeptIn(records, d) \/ (d[2] = 0 /\ Unseeded(d[1]))

\* A leased node is locked, and its one start is where its handler is.
LeasedAt(p) ==
  \A n \in fresh[p] :
    /\ n \in Locked /\ stage[p][n] # "none"
    /\ \A d \in due : d[1] = n =>
         /\ stage[p][n] # "ready"
         /\ stage[p][n] = "sent" => d[2] = ident[p][n][1]
         /\ stage[p][n] \in {"polling", "done"} => n \in holds \/ Recorded(records, n, d[2])
LeasedAreLocked == \A p \in Proc : LeasedAt(p)

\* A handler that has something to publish knows its ID.
IdentAt(p) ==
  \A n \in Node :
    stage[p][n] \in {"sent", "polling"} \/ (stage[p][n] = "ready" /\ n \notin fresh[p]) =>
      ident[p][n] \in Id
IdentIsKnown == \A p \in Proc : IdentAt(p)

\* What a run has recorded is the start its handler works with.
RecordsAt(p) ==
  \A x \in records : x.run = runOf[p] =>
    /\ ident[p][x.node] # NoId /\ ident[p][x.node][1] = x.id[1]
    /\ x.node \in fresh[p] => stage[p][x.node] \notin {"ready", "sent"}
RecordsOfTheRun == \A p \in Proc : runOf[p] \in Run => RecordsAt(p)

\* Rolling a commit back would lose no start.
CommitKeepsStarts ==
  \A p \in Proc : commit[p] # NoCommit =>
    \A d \in due : KeptIn(records \ commit[p].additions, d)

RecoveryInv ==
  /\ TypeOK /\ LifecycleIsOwned /\ RecordsAreOfUsedRuns /\ KeptOrUnseeded /\ LeasedAreLocked
  /\ IdentIsKnown /\ RecordsOfTheRun /\ CommitKeepsStarts /\ OneStartPerNode

\* A backend that has seeded its canvas, or had nothing to seed, has every start in the
\* journal or locked.
LEMMA DueIsJournaled ==
  ASSUME TypeOK, KeptOrUnseeded, NEW p \in Proc, up[p], NEW R, records \subseteq R,
         ~bootErr[p] \/ Seeded(R, graph[p])
  PROVE  \A d \in due : KeptIn(R, d)
<1> SUFFICES ASSUME NEW d \in due PROVE KeptIn(R, d)
  OBVIOUS
<1>1. CASE KeptIn(records, d)
  BY <1>1 DEF KeptIn, Recorded
<1>2. CASE ~KeptIn(records, d)
  <2>1. d[2] = 0 /\ Unseeded(d[1]) /\ d[1] \in Node
    BY <1>2 DEF KeptOrUnseeded, TypeOK
  <2>2. graph[p][d[1]] # NoId /\ graph[p][d[1]][1] = 0 /\ Seeded(R, graph[p])
    BY <2>1 DEF Unseeded
  <2>3. Journaled(R, d[1], graph[p][d[1]])
    BY <2>1, <2>2 DEF Seeded, Carried
  <2> QED BY <2>1, <2>2, <2>3 DEF Journaled, KeptIn, Recorded
<1> QED BY <1>1, <1>2

\* The first state: at most the start that a canvas of before the journal carries.
LEMMA InitHolds == Init => RecoveryInv
<1> SUFFICES ASSUME Init PROVE RecoveryInv
  OBVIOUS
<1>1. <<0, "op">> \in Id /\ <<0, "op">>[1] = 0 /\ 0 \in Start
  BY DEF Id, Start
<1>2. Blank \in Canvas
  BY DEF Blank, Canvas
<1>3. /\ graphFile \in Canvas /\ \A n \in Node : graphFile[n] \in {NoId, <<0, "op">>}
      /\ \A m, n \in Node : graphFile[m] # NoId /\ graphFile[n] # NoId => m = n
  <2>1. CASE graphFile = Blank
    BY <1>2, <2>1 DEF Blank
  <2>2. ASSUME NEW n0 \in Node, graphFile = [Blank EXCEPT ![n0] = <<0, "op">>]
        PROVE  /\ graphFile \in Canvas /\ \A n \in Node : graphFile[n] \in {NoId, <<0, "op">>}
               /\ \A m, n \in Node : graphFile[m] # NoId /\ graphFile[n] # NoId => m = n
    BY <1>1, <2>2 DEF Blank, Canvas
  <2> QED BY <2>1, <2>2 DEF Init
<1>4. /\ due \subseteq Node \X Start
      /\ \A d \in due : d[2] = 0 /\ graphFile[d[1]] # NoId /\ d[1] \in Node
  BY <1>1 DEF Init
<1>5. TypeOK
  BY <1>2, <1>3, <1>4 DEF Init, TypeOK, Stages
<1>6. LifecycleIsOwned /\ RecordsAreOfUsedRuns /\ LeasedAreLocked /\ RecordsOfTheRun /\ CommitKeepsStarts
  BY DEF Init, LifecycleIsOwned, RecordsAreOfUsedRuns, LeasedAreLocked, LeasedAt, RecordsOfTheRun,
         CommitKeepsStarts
<1>7. IdentIsKnown
  BY DEF Init, IdentIsKnown, IdentAt
<1>8. KeptOrUnseeded
  <2>1. \A n \in Node : graphFile[n] # NoId => Unseeded(n)
    BY <1>1, <1>3 DEF Init, Unseeded
  <2> QED BY <1>4, <2>1 DEF KeptOrUnseeded
<1>9. OneStartPerNode
  BY <1>3, <1>4 DEF OneStartPerNode
<1> QED BY <1>5, <1>6, <1>7, <1>8, <1>9 DEF RecoveryInv

\* What a process leaves in the store is well typed.
LEMMA LeaveTyped ==
  ASSUME TypeOK, NEW p \in Proc, NEW st \in StoreState, Leave(p, st)
  PROVE  /\ records' \subseteq Record /\ faults' \in Nat
         /\ storageErr' \in [Proc -> BOOLEAN] /\ bootErr' \in [Proc -> BOOLEAN]
         /\ records' = st.recs /\ bootErr'[p] = st.boot
         /\ \A q \in Proc \ {p} : bootErr'[q] = bootErr[q]
  BY DEF Leave, TypeOK, StoreState

\* An operation that only adds to the journal, while nobody owns the lifecycle, keeps all.
LEMMA AddingKeeps ==
  ASSUME RecoveryInv, NEW p \in Proc, up[p], lifecycle = NoProc, NEW st, Grown(p, st), Leave(p, st),
         UNCHANGED <<graphFile, lifecycle, up, runOf, stage, fresh, ident, graph, commit, due, starts, crashes>>,
         reservations' = reservations, holds' \subseteq Node, pending' \subseteq Node, Locked' = Locked,
         used \subseteq used', used' \subseteq Run, \A x \in records' \ records : x.run \in used' \cup {Seed}
  PROVE  RecoveryInv'
<1>1. /\ st \in StoreState /\ records \subseteq st.recs
      /\ st.boot = bootErr[p] \/ Seeded(st.recs, graph[p])
  BY DEF Grown
<1>2. TypeOK /\ LifecycleIsOwned /\ RecordsAreOfUsedRuns /\ KeptOrUnseeded /\ LeasedAreLocked
      /\ IdentIsKnown /\ RecordsOfTheRun /\ CommitKeepsStarts /\ OneStartPerNode
  BY DEF RecoveryInv
<1>3. /\ records' = st.recs /\ bootErr'[p] = st.boot /\ \A q \in Proc \ {p} : bootErr'[q] = bootErr[q]
  BY <1>1, <1>2, LeaveTyped
<1>4. TypeOK'
  BY <1>1, <1>2, LeaveTyped DEF TypeOK
<1>5. \A q \in Proc : runOf[q] = NoRun /\ fresh[q] = {} /\ commit[q] = NoCommit
  BY <1>2 DEF LifecycleIsOwned
<1>6. LifecycleIsOwned'
  BY <1>2 DEF LifecycleIsOwned
<1>7. RecordsAreOfUsedRuns'
  BY <1>2 DEF RecordsAreOfUsedRuns
<1>8. KeptOrUnseeded'
  <2>1. CASE ~bootErr[p] \/ Seeded(st.recs, graph[p])
    <3>1. \A d \in due : KeptIn(st.recs, d)
      BY <1>1, <1>2, <2>1, DueIsJournaled
    <3>2. \A d \in due : KeptIn(records, d)'
      BY <1>3, <3>1 DEF KeptIn
    <3> QED BY <3>2 DEF KeptOrUnseeded
  <2>2. CASE bootErr[p] /\ st.boot = bootErr[p]
    <3>1. \A n \in Node : Unseeded(n) => Unseeded(n)'
      BY <1>3, <2>2 DEF Unseeded
    <3>2. \A d \in due : KeptIn(records, d) => KeptIn(records, d)'
      BY <1>1, <1>3 DEF KeptIn, Recorded
    <3>3. \A d \in due : d[1] \in Node
      BY <1>2 DEF TypeOK
    <3> QED BY <1>2, <3>1, <3>2, <3>3 DEF KeptOrUnseeded
  <2>3. bootErr[p] \in BOOLEAN
    BY <1>2 DEF TypeOK
  <2> QED BY <1>1, <2>1, <2>2, <2>3
<1>9. LeasedAreLocked' /\ RecordsOfTheRun' /\ CommitKeepsStarts'
  BY <1>5 DEF LeasedAreLocked, LeasedAt, RecordsOfTheRun, CommitKeepsStarts
<1>10. IdentIsKnown' /\ OneStartPerNode'
  BY <1>2 DEF IdentIsKnown, IdentAt, OneStartPerNode
<1> QED BY <1>4, <1>6, <1>7, <1>8, <1>9, <1>10 DEF RecoveryInv

-----------------------------------------------------------------------------
(* The steps that belong to the owner of the lifecycle.                    *)

\* One process owns the lifecycle: the others have no run, no lease and no commit.
LEMMA OwnerFacts ==
  ASSUME RecoveryInv, NEW p \in Proc, runOf[p] # NoRun
  PROVE  /\ lifecycle = p /\ up[p]
         /\ \A q \in Proc \ {p} : /\ runOf[q] = NoRun /\ commit[q] = NoCommit /\ fresh[q] = {}
                                  /\ \A n \in Node : stage[q][n] = "none"
         /\ \A d \in due : KeptIn(records, d)
<1>1. LifecycleIsOwned /\ KeptOrUnseeded
  BY DEF RecoveryInv
<1>2. lifecycle = p /\ up[p] /\ lifecycle # NoProc
  BY <1>1 DEF LifecycleIsOwned
<1>3. \A q \in Proc \ {p} : runOf[q] = NoRun
  BY <1>1, <1>2 DEF LifecycleIsOwned
<1>4. \A q \in Proc \ {p} : /\ commit[q] = NoCommit /\ fresh[q] = {}
                            /\ \A n \in Node : stage[q][n] = "none"
  BY <1>1, <1>3 DEF LifecycleIsOwned
<1>5. \A d \in due : KeptIn(records, d)
  BY <1>1, <1>2 DEF KeptOrUnseeded, Unseeded
<1> QED BY <1>2, <1>3, <1>4, <1>5

\* A step of a handler of the run keeps all if it keeps what concerns the run.
LEMMA HandlerKeeps ==
  ASSUME RecoveryInv, NEW p \in Proc, runOf[p] \in Run, TypeOK',
         UNCHANGED <<lifecycle, up, runOf, fresh, commit, used>>,
         \A q \in Proc \ {p} : stage'[q] = stage[q],
         \A x \in records' \ records : x.run = runOf[p],
         \A d \in due' : KeptIn(records, d)',
         LeasedAt(p)', IdentAt(p)', RecordsAt(p)', OneStartPerNode'
  PROVE  RecoveryInv'
<1>1. LifecycleIsOwned /\ RecordsAreOfUsedRuns
  BY DEF RecoveryInv
<1>2. /\ lifecycle = p /\ up[p]
      /\ \A q \in Proc \ {p} : /\ runOf[q] = NoRun /\ commit[q] = NoCommit /\ fresh[q] = {}
                               /\ \A n \in Node : stage[q][n] = "none"
  BY OwnerFacts
<1>3. LifecycleIsOwned'
  BY <1>1, <1>2 DEF LifecycleIsOwned
<1>4. RecordsAreOfUsedRuns'
  BY <1>1 DEF RecordsAreOfUsedRuns, LifecycleIsOwned
<1>5. KeptOrUnseeded'
  BY DEF KeptOrUnseeded
<1>6. LeasedAreLocked' /\ RecordsOfTheRun'
  BY <1>2 DEF LeasedAreLocked, LeasedAt, RecordsOfTheRun
<1>7. IdentIsKnown'
  BY <1>2 DEF IdentIsKnown, IdentAt
<1>8. CommitKeepsStarts'
  BY <1>1, <1>2 DEF CommitKeepsStarts, LifecycleIsOwned
<1> QED BY <1>3, <1>4, <1>5, <1>6, <1>7, <1>8 DEF RecoveryInv

\* The end of a run or of a commit keeps all if every start stays kept.
LEMMA EndingKeeps ==
  ASSUME RecoveryInv, NEW p \in Proc, runOf[p] # NoRun, TypeOK',
         lifecycle' = NoProc, runOf'[p] = NoRun, commit'[p] = NoCommit, fresh'[p] = {},
         \A n \in Node : stage'[p][n] = "none",
         \A q \in Proc \ {p} : /\ runOf'[q] = runOf[q] /\ commit'[q] = commit[q]
                              /\ fresh'[q] = fresh[q] /\ stage'[q] = stage[q],
         used' = used, due' = due, records' \subseteq records, \A d \in due : KeptIn(records, d)'
  PROVE  RecoveryInv'
<1>1. LifecycleIsOwned /\ RecordsAreOfUsedRuns /\ OneStartPerNode
  BY DEF RecoveryInv
<1>2. \A q \in Proc \ {p} : /\ runOf[q] = NoRun /\ commit[q] = NoCommit /\ fresh[q] = {}
                            /\ \A n \in Node : stage[q][n] = "none"
  BY OwnerFacts
<1>3. \A q \in Proc : /\ runOf'[q] = NoRun /\ commit'[q] = NoCommit /\ fresh'[q] = {}
                     /\ \A n \in Node : stage'[q][n] = "none"
  BY <1>2
<1>4. LifecycleIsOwned'
  BY <1>3 DEF LifecycleIsOwned
<1>5. RecordsAreOfUsedRuns' /\ OneStartPerNode'
  BY <1>1 DEF RecordsAreOfUsedRuns, OneStartPerNode
<1>6. KeptOrUnseeded'
  BY DEF KeptOrUnseeded
<1>7. LeasedAreLocked' /\ RecordsOfTheRun' /\ CommitKeepsStarts'
  BY <1>3 DEF LeasedAreLocked, LeasedAt, RecordsOfTheRun, CommitKeepsStarts
<1>8. IdentIsKnown'
  BY <1>3 DEF IdentIsKnown, IdentAt
<1> QED BY <1>4, <1>5, <1>6, <1>7, <1>8 DEF RecoveryInv

\* A handler moves from one stage to another, and no other handler does.
LEMMA MoveFacts ==
  ASSUME TypeOK, NEW p \in Proc, NEW n \in Node, NEW from, NEW to \in Stages, Move(p, n, from, to)
  PROVE  /\ runOf[p] \in Run /\ stage[p][n] = from /\ stage' \in [Proc -> [Node -> Stages]]
         /\ \A q \in Proc \ {p} : stage'[q] = stage[q]
         /\ stage'[p][n] = to /\ \A m \in Node \ {n} : stage'[p][m] = stage[p][m]
  BY DEF Move, Owner, TypeOK

-----------------------------------------------------------------------------
(* One lemma per action.                                                   *)

\* The paid POST leaves: the one start of a node that had none.
LEMMA PostKeeps ==
  ASSUME RecoveryInv, NEW p \in Proc, NEW n \in Node, Post(p, n)
  PROVE  RecoveryInv'
<1>1. /\ TypeOK /\ LeasedAt(p) /\ IdentAt(p) /\ OneStartPerNode
      /\ runOf[p] \in Run => RecordsAt(p)
  BY DEF RecoveryInv, LeasedAreLocked, IdentIsKnown, RecordsOfTheRun
<1>2. /\ n \in fresh[p] /\ starts < MaxStarts /\ starts' = starts + 1
      /\ ident' = [ident EXCEPT ![p][n] = <<starts + 1, "op">>]
      /\ due' = due \cup {<<n, starts + 1>>} /\ Move(p, n, "ready", "sent")
      /\ UNCHANGED <<records, graphFile, holds, pending, lifecycle, up, runOf, fresh, reservations,
                     storageErr, bootErr, graph, commit, used, faults, crashes>>
  BY DEF Post, guard
<1>3. "sent" \in Stages
  BY DEF Stages
<1>4. /\ runOf[p] \in Run /\ stage[p][n] = "ready" /\ stage' \in [Proc -> [Node -> Stages]]
      /\ \A q \in Proc \ {p} : stage'[q] = stage[q]
      /\ stage'[p][n] = "sent" /\ \A m \in Node \ {n} : stage'[p][m] = stage[p][m]
  BY <1>1, <1>2, <1>3, MoveFacts
<1>5. \A d \in due : d[1] # n
  BY <1>1, <1>2, <1>4 DEF LeasedAt
<1>6. <<starts + 1, "op">> \in Id /\ starts + 1 \in Start /\ starts + 1 \in Nat
  BY <1>1, <1>2 DEF TypeOK, Id, Start
<1>7. /\ ident' \in [Proc -> Canvas] /\ ident'[p][n] = <<starts + 1, "op">>
      /\ \A m \in Node \ {n} : ident'[p][m] = ident[p][m]
  <2>1. ident \in [Proc -> Canvas] /\ ident[p] \in Canvas
    BY <1>1 DEF TypeOK
  <2>2. [ident[p] EXCEPT ![n] = <<starts + 1, "op">>] \in Canvas
    BY <1>6, <2>1 DEF Canvas
  <2> QED BY <1>2, <2>1, <2>2 DEF Canvas
<1>8. TypeOK'
  BY <1>1, <1>2, <1>4, <1>6, <1>7 DEF TypeOK
<1>9. \A d \in due' : KeptIn(records, d)'
  <2>1. \A d \in due : KeptIn(records, d)
    BY <1>4, OwnerFacts
  <2>2. n \in Locked
    BY <1>1, <1>2 DEF LeasedAt
  <2> QED BY <1>2, <2>1, <2>2 DEF KeptIn, Locked
<1>10. LeasedAt(p)'
  BY <1>1, <1>2, <1>4, <1>5, <1>7 DEF LeasedAt, Locked, TypeOK
<1>11. IdentAt(p)'
  BY <1>1, <1>2, <1>4, <1>6, <1>7 DEF IdentAt
<1>12. RecordsAt(p)'
  BY <1>1, <1>2, <1>4, <1>7 DEF RecordsAt, TypeOK, Record
<1>13. OneStartPerNode'
  BY <1>1, <1>2, <1>5 DEF OneStartPerNode
<1> QED BY <1>2, <1>4, <1>8, <1>9, <1>10, <1>11, <1>12, <1>13, HandlerKeeps

\* A denial ends the one start of its node.
LEMMA DeniedKeeps ==
  ASSUME RecoveryInv, NEW p \in Proc, NEW n \in Node, Denied(p, n)
  PROVE  RecoveryInv'
<1>1. /\ TypeOK /\ LeasedAt(p) /\ IdentAt(p) /\ OneStartPerNode
      /\ runOf[p] \in Run => RecordsAt(p)
  BY DEF RecoveryInv, LeasedAreLocked, IdentIsKnown, RecordsOfTheRun
<1>2. /\ Move(p, n, "sent", "done") /\ due' = due \ {<<n, ident[p][n][1]>>}
      /\ UNCHANGED <<records, graphFile, holds, pending, lifecycle, up, runOf, fresh, ident, reservations,
                     storageErr, bootErr, graph, commit, starts, used, faults, crashes>>
  BY DEF Denied, guard
<1>3. "done" \in Stages
  BY DEF Stages
<1>4. /\ runOf[p] \in Run /\ stage[p][n] = "sent" /\ stage' \in [Proc -> [Node -> Stages]]
      /\ \A q \in Proc \ {p} : stage'[q] = stage[q]
      /\ stage'[p][n] = "done" /\ \A m \in Node \ {n} : stage'[p][m] = stage[p][m]
  BY <1>1, <1>2, <1>3, MoveFacts
<1>5. TypeOK'
  BY <1>1, <1>2, <1>4 DEF TypeOK
<1>6. \A d \in due : KeptIn(records, d) /\ d = <<d[1], d[2]>>
  BY <1>1, <1>4, OwnerFacts DEF TypeOK
<1>7. \A d \in due' : KeptIn(records, d)'
  BY <1>2, <1>6 DEF KeptIn, Locked
<1>8. n \in fresh[p] => \A d \in due' : d[1] # n
  BY <1>1, <1>2, <1>4, <1>6 DEF LeasedAt
<1>9. LeasedAt(p)'
  BY <1>1, <1>2, <1>4, <1>8 DEF LeasedAt, Locked, TypeOK
<1>10. IdentAt(p)'
  BY <1>1, <1>2, <1>4 DEF IdentAt
<1>11. RecordsAt(p)'
  BY <1>1, <1>2, <1>4 DEF RecordsAt, TypeOK, Record
<1>12. OneStartPerNode'
  BY <1>1, <1>2 DEF OneStartPerNode
<1> QED BY <1>2, <1>4, <1>5, <1>7, <1>9, <1>10, <1>11, <1>12, HandlerKeeps

\* An answer without an ID is a hold.
LEMMA AmbiguousKeeps ==
  ASSUME RecoveryInv, NEW p \in Proc, NEW n \in Node, Ambiguous(p, n)
  PROVE  RecoveryInv'
<1>1. /\ TypeOK /\ LeasedAt(p) /\ IdentAt(p) /\ OneStartPerNode
      /\ runOf[p] \in Run => RecordsAt(p)
  BY DEF RecoveryInv, LeasedAreLocked, IdentIsKnown, RecordsOfTheRun
<1>2. /\ Move(p, n, "sent", "done") /\ holds' = holds \cup {n} /\ pending' = pending \ {n}
      /\ UNCHANGED <<records, graphFile, lifecycle, up, runOf, fresh, ident, reservations, storageErr,
                     bootErr, graph, commit, due, starts, used, faults, crashes>>
  BY DEF Ambiguous
<1>3. "done" \in Stages
  BY DEF Stages
<1>4. /\ runOf[p] \in Run /\ stage[p][n] = "sent" /\ stage' \in [Proc -> [Node -> Stages]]
      /\ \A q \in Proc \ {p} : stage'[q] = stage[q]
      /\ stage'[p][n] = "done" /\ \A m \in Node \ {n} : stage'[p][m] = stage[p][m]
  BY <1>1, <1>2, <1>3, MoveFacts
<1>5. TypeOK' /\ Locked' = Locked \cup {n}
  BY <1>1, <1>2, <1>4 DEF TypeOK, Locked
<1>6. \A d \in due' : KeptIn(records, d)'
  BY <1>2, <1>4, <1>5, OwnerFacts DEF KeptIn
<1>7. LeasedAt(p)'
  BY <1>1, <1>2, <1>4, <1>5 DEF LeasedAt, TypeOK
<1>8. IdentAt(p)' /\ RecordsAt(p)'
  BY <1>1, <1>2, <1>4 DEF IdentAt, RecordsAt, TypeOK, Record
<1>9. OneStartPerNode'
  BY <1>1, <1>2 DEF OneStartPerNode
<1> QED BY <1>2, <1>4, <1>5, <1>6, <1>7, <1>8, <1>9, HandlerKeeps

\* A handler that gives up ends its part: nothing was sent, or the checkpoint is there.
LEMMA GiveUpKeeps ==
  ASSUME RecoveryInv, NEW p \in Proc, NEW n \in Node, GiveUp(p, n)
  PROVE  RecoveryInv'
<1>1. /\ TypeOK /\ LeasedAt(p) /\ IdentAt(p) /\ OneStartPerNode
      /\ runOf[p] \in Run => RecordsAt(p)
  BY DEF RecoveryInv, LeasedAreLocked, IdentIsKnown, RecordsOfTheRun
<1>2. /\ Move(p, n, "ready", "done") \/ Move(p, n, "polling", "done")
      /\ UNCHANGED <<records, graphFile, holds, pending, lifecycle, up, runOf, fresh, ident, reservations,
                     storageErr, bootErr, graph, commit, due, starts, used, faults, crashes>>
  BY DEF GiveUp, guard
<1>3. "done" \in Stages
  BY DEF Stages
<1>4. /\ runOf[p] \in Run /\ stage[p][n] \in {"ready", "polling"} /\ stage' \in [Proc -> [Node -> Stages]]
      /\ \A q \in Proc \ {p} : stage'[q] = stage[q]
      /\ stage'[p][n] = "done" /\ \A m \in Node \ {n} : stage'[p][m] = stage[p][m]
  BY <1>1, <1>2, <1>3, MoveFacts
<1>5. TypeOK'
  BY <1>1, <1>2, <1>4 DEF TypeOK
<1>6. \A d \in due' : KeptIn(records, d)'
  BY <1>2, <1>4, OwnerFacts DEF KeptIn, Locked
<1>7. LeasedAt(p)'
  <2>1. fresh[p] \subseteq Node
    BY <1>1 DEF TypeOK
  <2>2. ASSUME n \in fresh[p], NEW d \in due, d[1] = n
        PROVE  n \in holds \/ Recorded(records, n, d[2])
    BY <1>1, <1>4, <2>2 DEF LeasedAt
  <2> QED BY <1>1, <1>2, <1>4, <2>1, <2>2 DEF LeasedAt, Locked, Recorded
<1>8. IdentAt(p)' /\ RecordsAt(p)'
  BY <1>1, <1>2, <1>4 DEF IdentAt, RecordsAt, TypeOK, Record
<1>9. OneStartPerNode'
  BY <1>1, <1>2 DEF OneStartPerNode
<1> QED BY <1>2, <1>4, <1>5, <1>6, <1>7, <1>8, <1>9, HandlerKeeps

\* A release lets go of the intents of its run: what was started is held or recorded.
LEMMA ReleaseKeeps ==
  ASSUME RecoveryInv, NEW p \in Proc, Release(p)
  PROVE  RecoveryInv'
<1>1. /\ TypeOK /\ LeasedAt(p) /\ IdentAt(p) /\ OneStartPerNode
      /\ runOf[p] \in Run => RecordsAt(p)
  BY DEF RecoveryInv, LeasedAreLocked, IdentIsKnown, RecordsOfTheRun
<1>2. /\ runOf[p] \in Run /\ \A n \in Node : stage[p][n] \in {"none", "done"}
      /\ pending' = pending \ fresh[p] /\ lifecycle' = NoProc
      /\ runOf' = [runOf EXCEPT ![p] = NoRun]
      /\ stage' = [stage EXCEPT ![p] = [n \in Node |-> "none"]]
      /\ fresh' = [fresh EXCEPT ![p] = {}]
      /\ ident' = [ident EXCEPT ![p] = Blank]
      /\ reservations' = [reservations EXCEPT ![p] = {k \in @ : k[1] # runOf[p]}]
      /\ UNCHANGED <<records, graphFile, holds, up, storageErr, bootErr, graph, commit, due, starts,
                     used, faults, crashes>>
  BY DEF Release
<1>3. Blank \in Canvas /\ [n \in Node |-> "none"] \in [Node -> Stages]
  BY DEF Blank, Canvas, Stages
<1>4. {k \in reservations[p] : k[1] # runOf[p]} \in SUBSET (Run \X Node)
  BY <1>1 DEF TypeOK
<1>5. TypeOK'
  BY <1>1, <1>2, <1>3, <1>4 DEF TypeOK
<1>6. \A d \in due : KeptIn(records, d)'
  <2> SUFFICES ASSUME NEW d \in due PROVE KeptIn(records, d)'
    OBVIOUS
  <2>1. KeptIn(records, d) /\ d[1] \in Node
    BY <1>1, <1>2, OwnerFacts DEF TypeOK
  <2>2. CASE d[1] \in fresh[p]
    BY <1>1, <1>2, <2>1, <2>2 DEF LeasedAt, KeptIn, Locked
  <2>3. CASE d[1] \notin fresh[p]
    BY <1>2, <2>1, <2>3 DEF KeptIn, Locked
  <2> QED BY <2>2, <2>3
<1>7. LifecycleIsOwned
  BY DEF RecoveryInv
<1>8. /\ commit'[p] = NoCommit /\ runOf'[p] = NoRun /\ fresh'[p] = {}
      /\ \A n \in Node : stage'[p][n] = "none"
      /\ \A q \in Proc \ {p} : /\ runOf'[q] = runOf[q] /\ commit'[q] = commit[q]
                              /\ fresh'[q] = fresh[q] /\ stage'[q] = stage[q]
  BY <1>1, <1>2, <1>7 DEF TypeOK, LifecycleIsOwned
<1> QED BY <1>2, <1>5, <1>6, <1>8, EndingKeeps

\* The end of a commit, whatever the canvas and the journal are then.
LEMMA UnfenceKeeps ==
  ASSUME RecoveryInv, NEW p \in Proc, commit[p] # NoCommit, Unfence(p),
         records' \subseteq records, graphFile' \in Canvas, graph' \in [Proc -> Canvas],
         storageErr' \in [Proc -> BOOLEAN], bootErr' \in [Proc -> BOOLEAN], faults' \in Nat,
         \A d \in due : KeptIn(records, d)'
  PROVE  RecoveryInv'
<1>1. TypeOK /\ LifecycleIsOwned
  BY DEF RecoveryInv
<1>2. /\ lifecycle' = NoProc /\ runOf' = [runOf EXCEPT ![p] = NoRun]
      /\ commit' = [commit EXCEPT ![p] = NoCommit]
      /\ UNCHANGED <<holds, pending, up, stage, fresh, ident, reservations, due, starts, used, crashes>>
  BY DEF Unfence
<1>3. TypeOK'
  BY <1>1, <1>2 DEF TypeOK
<1>4. runOf[p] = Mutation /\ fresh[p] = {} /\ \A n \in Node : stage[p][n] = "none"
  BY <1>1 DEF LifecycleIsOwned
<1>5. /\ commit'[p] = NoCommit /\ runOf'[p] = NoRun /\ fresh'[p] = {}
      /\ \A n \in Node : stage'[p][n] = "none"
      /\ \A q \in Proc \ {p} : /\ runOf'[q] = runOf[q] /\ commit'[q] = commit[q]
                              /\ fresh'[q] = fresh[q] /\ stage'[q] = stage[q]
  BY <1>1, <1>2, <1>4 DEF TypeOK
<1> QED BY <1>2, <1>3, <1>4, <1>5, EndingKeeps

\* A canvas that is on disk ends its commit.
LEMMA SaveCanvasKeeps ==
  ASSUME RecoveryInv, NEW p \in Proc, SaveCanvas(p)
  PROVE  RecoveryInv'
<1>1. TypeOK /\ LifecycleIsOwned
  BY DEF RecoveryInv
<1>2. /\ commit[p] # NoCommit /\ graphFile' = commit[p].candidate
      /\ graph' = [graph EXCEPT ![p] = commit[p].candidate]
      /\ Unfence(p) /\ UNCHANGED <<records, storageErr, bootErr, faults>>
  BY DEF SaveCanvas
<1>3. commit[p].candidate \in Canvas
  BY <1>1, <1>2 DEF TypeOK, Commit
<1>4. \A d \in due : KeptIn(records, d)'
  BY <1>1, <1>2, OwnerFacts DEF LifecycleIsOwned, KeptIn, Locked, Unfence
<1> QED BY <1>1, <1>2, <1>3, <1>4, UnfenceKeeps DEF TypeOK

\* A rollback takes back the records of its attempt and no start's.
LEMMA RollBackKeeps ==
  ASSUME RecoveryInv, NEW p \in Proc, RollBack(p)
  PROVE  RecoveryInv'
<1>1. TypeOK /\ LifecycleIsOwned /\ CommitKeepsStarts
  BY DEF RecoveryInv
<1>2. commit[p] # NoCommit /\ Unfence(p) /\ UNCHANGED <<graphFile, graph>>
  BY DEF RollBack
<1> DEFINE st == [Store(p) EXCEPT !.bad = @ + 1]
           R == commit[p].additions
<1>3. PICK s \in IF R = {} THEN {st} ELSE Removed(st, R) : Leave(p, s)
  BY DEF RollBack
<1>4. st \in StoreState /\ st.recs = records
  BY <1>1, StoreTyped DEF StoreState
<1> HIDE DEF st
<1>5. s \in StoreState /\ s.recs \in {records, records \ R}
  BY <1>3, <1>4, RemovedFacts
<1> HIDE DEF R
<1>6. /\ records' \subseteq Record /\ faults' \in Nat
      /\ storageErr' \in [Proc -> BOOLEAN] /\ bootErr' \in [Proc -> BOOLEAN]
      /\ records' = s.recs
  BY <1>1, <1>3, <1>5, LeaveTyped
<1>7. \A d \in due : KeptIn(records \ R, d)
  BY <1>1, <1>2 DEF CommitKeepsStarts, R
<1>8. \A d \in due : KeptIn(records, d)'
  BY <1>2, <1>5, <1>6, <1>7 DEF KeptIn, Recorded, Locked, Unfence
<1> QED BY <1>1, <1>2, <1>5, <1>6, <1>8, UnfenceKeeps DEF TypeOK

\* A checkpoint replaces a record of the same start at most, and a fresh one that is not
\* in the journal becomes a hold (_sync_provider_recovery_to_cli_graph).
LEMMA PublishFacts ==
  ASSUME TypeOK, NEW p \in Proc, NEW n \in Node, runOf[p] \in Run, LeasedAt(p), RecordsAt(p),
         NEW id \in Id, ident[p][n] \in Id, ident[p][n][1] = id[1], Publish(p, n, id)
  PROVE  /\ records' \subseteq Record /\ faults' \in Nat
         /\ storageErr' \in [Proc -> BOOLEAN] /\ bootErr' \in [Proc -> BOOLEAN]
         /\ reservations' \in [Proc -> SUBSET (Run \X Node)]
         /\ graph' \in [Proc -> Canvas] /\ graphFile' \in Canvas
         /\ holds' \subseteq Node /\ pending' \subseteq Node
         /\ Locked' = Locked /\ holds \subseteq holds'
         /\ \A x \in records' \ records : x.run = runOf[p] /\ x.node = n /\ x.id = id
         /\ \A m \in Node, t \in Start : Recorded(records, m, t) => Recorded(records', m, t)
         /\ n \in fresh[p] => n \in holds' \/ Recorded(records', n, id[1])
<1>1. PICK st \in SetIn(Store(p), reservations[p], runOf[p], n, id), saved \in BOOLEAN :
        /\ Leave(p, [st EXCEPT !.bad = IF ~saved /\ graph[p][n] # id THEN @ + 1 ELSE @])
        /\ reservations' = IF st.ok THEN [reservations EXCEPT ![p] = @ \ {<<runOf[p], n>>}] ELSE reservations
        /\ holds' = holds \cup Unsaved(p, n, st) /\ pending' = pending \ Unsaved(p, n, st)
        /\ graph' = [graph EXCEPT ![p][n] = id]
        /\ graphFile' \in {graphFile, graph'[p]}
  BY DEF Publish
<1> DEFINE new == [run |-> runOf[p], node |-> n, id |-> id]
           rest == {y \in records : ~(y.run = runOf[p] /\ y.node = n)}
<1>2. Store(p) \in StoreState /\ Store(p).recs = records /\ Store(p).ok
  BY StoreTyped
<1>3. /\ st \in StoreState
      /\ st.recs = records \/ st.recs = rest \cup {new}
      /\ st.ok => Journaled(st.recs, n, id)
  <2> DEFINE q == Store(p)
  <2>1. /\ st \in SetIn(q, reservations[p], runOf[p], n, id)
        /\ q \in StoreState /\ q.recs = records /\ q.ok
    BY <1>1, <1>2
  <2> HIDE DEF q, new, rest
  <2>2. /\ st \in StoreState
        /\ st.recs \in {q.recs, Updated(q.recs, runOf[p], n, id)}
        /\ st.ok => Journaled(st.recs, n, id)
    BY <2>1, SetInFacts
  <2> QED BY <2>1, <2>2 DEF Updated, new, rest
<1>4. new.run = runOf[p] /\ new.node = n /\ new.id = id
  OBVIOUS
<1> DEFINE bad == IF ~saved /\ graph[p][n] # id THEN st.bad + 1 ELSE st.bad
           last == [st EXCEPT !.bad = bad]
<1>5. last \in StoreState /\ last.recs = st.recs
  BY <1>3 DEF StoreState
<1>6. Leave(p, last)
  BY <1>1, <1>3 DEF StoreState
<1> HIDE DEF new, rest, bad, last
<1>7. /\ records' \subseteq Record /\ faults' \in Nat
      /\ storageErr' \in [Proc -> BOOLEAN] /\ bootErr' \in [Proc -> BOOLEAN]
      /\ records' = st.recs
  BY <1>5, <1>6, LeaveTyped
<1>8. graph' \in [Proc -> Canvas] /\ graphFile' \in Canvas
  <2>1. graph[p] \in Canvas
    BY DEF TypeOK
  <2>2. [graph[p] EXCEPT ![n] = id] \in Canvas
    BY <2>1 DEF Canvas
  <2> QED BY <1>1, <2>1, <2>2 DEF TypeOK
<1>9. reservations' \in [Proc -> SUBSET (Run \X Node)]
  BY <1>1 DEF TypeOK
<1>10. Unsaved(p, n, st) \subseteq {n} \cap fresh[p] /\ fresh[p] \subseteq Locked
  BY DEF Unsaved, LeasedAt
<1>11. holds' \subseteq Node /\ pending' \subseteq Node /\ Locked' = Locked /\ holds \subseteq holds'
  BY <1>1, <1>10 DEF TypeOK, Locked
<1>12. \A x \in records' \ records : x.run = runOf[p] /\ x.node = n /\ x.id = id
  BY <1>3, <1>4, <1>7 DEF rest
<1>13. ASSUME NEW m \in Node, NEW t \in Start, Recorded(records, m, t)
       PROVE  Recorded(records', m, t)
  <2>1. PICK x \in records : x.node = m /\ x.id[1] = t
    BY <1>13 DEF Recorded
  <2>2. CASE x \in st.recs
    BY <1>7, <2>1, <2>2 DEF Recorded
  <2>3. CASE x \notin st.recs
    <3>1. x.run = runOf[p] /\ x.node = n /\ new \in st.recs
      BY <1>3, <2>3 DEF rest
    <3>2. ident[p][n][1] = x.id[1]
      BY <3>1 DEF RecordsAt
    <3> QED BY <1>4, <1>7, <2>1, <3>1, <3>2 DEF Recorded
  <2> QED BY <2>2, <2>3
<1>14. n \in fresh[p] => n \in holds' \/ Recorded(records', n, id[1])
  BY <1>1, <1>3, <1>7 DEF Unsaved, Journaled, Recorded
<1> QED BY <1>7, <1>8, <1>9, <1>11, <1>12, <1>13, <1>14

\* A handler that publishes the ID it works with keeps all.
LEMMA PublishKeeps ==
  ASSUME RecoveryInv, NEW p \in Proc, NEW n \in Node,
         NEW from \in {"ready", "sent", "polling"}, NEW to \in {"polling", "done"},
         Move(p, n, from, to), from = "ready" => n \notin fresh[p],
         NEW id \in Id, ident[p][n] \in Id, ident[p][n][1] = id[1], Publish(p, n, id),
         ident' = ident \/ ident' = [ident EXCEPT ![p][n] = id],
         UNCHANGED <<lifecycle, up, runOf, fresh, commit, due, starts, used, crashes>>
  PROVE  RecoveryInv'
<1>1. /\ TypeOK /\ LeasedAt(p) /\ IdentAt(p) /\ OneStartPerNode
      /\ runOf[p] \in Run => RecordsAt(p)
  BY DEF RecoveryInv, LeasedAreLocked, IdentIsKnown, RecordsOfTheRun
<1>2. to \in Stages /\ to \notin {"ready", "sent", "none"}
  BY DEF Stages
<1>3. /\ runOf[p] \in Run /\ stage[p][n] = from /\ stage' \in [Proc -> [Node -> Stages]]
      /\ \A q \in Proc \ {p} : stage'[q] = stage[q]
      /\ stage'[p][n] = to /\ \A m \in Node \ {n} : stage'[p][m] = stage[p][m]
  BY <1>1, <1>2, MoveFacts
<1>4. /\ records' \subseteq Record /\ faults' \in Nat
      /\ storageErr' \in [Proc -> BOOLEAN] /\ bootErr' \in [Proc -> BOOLEAN]
      /\ reservations' \in [Proc -> SUBSET (Run \X Node)]
      /\ graph' \in [Proc -> Canvas] /\ graphFile' \in Canvas
      /\ holds' \subseteq Node /\ pending' \subseteq Node
  BY <1>1, <1>3, PublishFacts
<1>5. /\ Locked' = Locked /\ holds \subseteq holds'
      /\ \A x \in records' \ records : x.run = runOf[p] /\ x.node = n /\ x.id = id
      /\ \A m \in Node, t \in Start : Recorded(records, m, t) => Recorded(records', m, t)
      /\ n \in fresh[p] => n \in holds' \/ Recorded(records', n, id[1])
  BY <1>1, <1>3, PublishFacts
<1>6. /\ ident' \in [Proc -> Canvas] /\ ident'[p][n] \in Id /\ ident'[p][n][1] = id[1]
      /\ \A m \in Node \ {n} : ident'[p][m] = ident[p][m]
  <2>1. ident \in [Proc -> Canvas] /\ ident[p] \in Canvas
    BY <1>1 DEF TypeOK
  <2>2. [ident[p] EXCEPT ![n] = id] \in Canvas
    BY <2>1 DEF Canvas
  <2> QED BY <2>1, <2>2 DEF Canvas
<1>7. TypeOK'
  BY <1>1, <1>3, <1>4, <1>6 DEF TypeOK
<1>8. \A d \in due : d[1] \in Node /\ d[2] \in Start
  BY <1>1 DEF TypeOK
<1>9. \A d \in due' : KeptIn(records, d)'
  BY <1>3, <1>5, <1>8, OwnerFacts DEF KeptIn
<1>10. LeasedAt(p)'
  <2> SUFFICES ASSUME NEW m \in fresh[p]
               PROVE  /\ m \in Locked /\ stage'[p][m] # "none"
                      /\ \A d \in due : d[1] = m =>
                           /\ stage'[p][m] # "ready"
                           /\ stage'[p][m] = "sent" => d[2] = ident'[p][m][1]
                           /\ stage'[p][m] \in {"polling", "done"} =>
                                m \in holds' \/ Recorded(records', m, d[2])
    BY <1>5 DEF LeasedAt
  <2>1. m \in Node /\ m \in Locked /\ stage[p][m] # "none"
    BY <1>1 DEF TypeOK, LeasedAt
  <2>2. CASE m # n
    BY <1>1, <1>3, <1>5, <1>6, <1>8, <2>1, <2>2 DEF LeasedAt
  <2>3. CASE m = n
    <3>1. \A d \in due : d[1] = n => n \in holds' \/ Recorded(records', n, d[2])
      BY <1>1, <1>3, <1>5, <1>8, <2>3 DEF LeasedAt
    <3> QED BY <1>2, <1>3, <2>1, <2>3, <3>1
  <2> QED BY <2>2, <2>3
<1>11. IdentAt(p)'
  BY <1>1, <1>2, <1>3, <1>6 DEF IdentAt
<1>12. RecordsAt(p)'
  <2> SUFFICES ASSUME NEW x \in records', x.run = runOf[p]
               PROVE  /\ ident'[p][x.node] # NoId /\ ident'[p][x.node][1] = x.id[1]
                      /\ x.node \in fresh[p] => stage'[p][x.node] \notin {"ready", "sent"}
    BY DEF RecordsAt
  <2>1. x.node \in Node
    BY <1>4 DEF Record
  <2>2. CASE x.node = n
    BY <1>1, <1>2, <1>3, <1>5, <1>6, <2>2 DEF RecordsAt
  <2>3. CASE x.node # n
    BY <1>1, <1>3, <1>5, <1>6, <2>1, <2>3 DEF RecordsAt
  <2> QED BY <2>2, <2>3
<1>13. OneStartPerNode'
  BY <1>1 DEF OneStartPerNode
<1> QED BY <1>3, <1>5, <1>7, <1>9, <1>10, <1>11, <1>12, <1>13, HandlerKeeps

\* The POST was accepted, or a rerun starts from the ID it was given.
LEMMA AcceptedKeeps ==
  ASSUME RecoveryInv, NEW p \in Proc, NEW n \in Node, Accepted(p, n)
  PROVE  RecoveryInv'
<1>1. IdentAt(p) /\ TypeOK
  BY DEF RecoveryInv, IdentIsKnown
<1>2. /\ Publish(p, n, ident[p][n]) /\ ident' = ident
      /\ UNCHANGED <<lifecycle, up, runOf, fresh, commit, due, starts, used, crashes>>
  BY DEF Accepted
<1>3. PICK from \in {"ready", "sent"}, to \in {"polling", "done"} :
        Move(p, n, from, to) /\ (from = "ready" => n \notin fresh[p])
  BY DEF Accepted
<1>4. ident[p][n] \in Id
  BY <1>1, <1>3 DEF IdentAt, Move
<1> QED BY <1>2, <1>3, <1>4, PublishKeeps

\* The operation is done: the checkpoint moves on to the world of the same start.
LEMMA LandedKeeps ==
  ASSUME RecoveryInv, NEW p \in Proc, NEW n \in Node, Landed(p, n)
  PROVE  RecoveryInv'
<1> DEFINE id == <<ident[p][n][1], "world">>
<1>1. IdentAt(p) /\ TypeOK
  BY DEF RecoveryInv, IdentIsKnown
<1>2. /\ Move(p, n, "polling", "done") /\ Publish(p, n, id)
      /\ ident' = [ident EXCEPT ![p][n] = id]
      /\ UNCHANGED <<lifecycle, up, runOf, fresh, commit, due, starts, used, crashes>>
  BY DEF Landed
<1>3. ident[p][n] \in Id
  BY <1>1, <1>2 DEF IdentAt, Move
<1>4. id \in Id /\ id[1] = ident[p][n][1]
  BY <1>3 DEF Id
<1> HIDE DEF id
<1>5. "polling" \in {"ready", "sent", "polling"} /\ "done" \in {"polling", "done"} /\ "polling" # "ready"
  OBVIOUS
<1> QED BY <1>2, <1>3, <1>4, <1>5, PublishKeeps

\* Nobody owns the lifecycle: no process has a run, a lease or a commit.
LEMMA FreeFacts ==
  ASSUME RecoveryInv, lifecycle = NoProc, NEW q \in Proc
  PROVE  /\ runOf[q] = NoRun /\ commit[q] = NoCommit /\ fresh[q] = {}
         /\ \A n \in Node : stage[q][n] = "none"
<1>1. LifecycleIsOwned
  BY DEF RecoveryInv
<1> QED BY <1>1 DEF LifecycleIsOwned

\* A step that leaves the lifecycle free has the starts and the records to keep.
LEMMA FreeKeeps ==
  ASSUME RecoveryInv, lifecycle = NoProc, TypeOK', KeptOrUnseeded', RecordsAreOfUsedRuns', OneStartPerNode',
         UNCHANGED <<lifecycle, runOf, stage, fresh, commit>>
  PROVE  RecoveryInv'
<1>1. \A q \in Proc : /\ runOf[q] = NoRun /\ commit[q] = NoCommit /\ fresh[q] = {}
                     /\ \A n \in Node : stage[q][n] = "none"
  BY FreeFacts
<1>2. LifecycleIsOwned'
  BY <1>1 DEF LifecycleIsOwned
<1>3. LeasedAreLocked' /\ RecordsOfTheRun' /\ CommitKeepsStarts'
  BY <1>1 DEF LeasedAreLocked, LeasedAt, RecordsOfTheRun, CommitKeepsStarts
<1>4. IdentIsKnown'
  BY <1>1 DEF IdentIsKnown, IdentAt
<1> QED BY <1>2, <1>3, <1>4 DEF RecoveryInv

\* An unlock takes the starts of its node with it.
LEMMA AcknowledgeKeeps ==
  ASSUME RecoveryInv, NEW p \in Proc, NEW n \in Node, Acknowledge(p, n)
  PROVE  RecoveryInv'
<1>1. /\ TypeOK /\ LifecycleIsOwned /\ RecordsAreOfUsedRuns /\ KeptOrUnseeded /\ LeasedAreLocked
      /\ IdentIsKnown /\ RecordsOfTheRun /\ CommitKeepsStarts /\ OneStartPerNode
  BY DEF RecoveryInv
<1>2. /\ lifecycle = NoProc /\ holds' = (holds \cup pending) \ {n} /\ pending' = {}
      /\ due' = {d \in due : d[1] # n}
      /\ UNCHANGED <<records, graphFile, lifecycle, up, runOf, stage, fresh, ident, reservations,
                     storageErr, bootErr, graph, commit, starts, used, faults, crashes>>
  BY DEF Acknowledge, memory
<1>3. TypeOK'
  BY <1>1, <1>2 DEF TypeOK
<1>4. \A d \in due' : KeptIn(records, d) => KeptIn(records, d)'
  BY <1>2 DEF KeptIn, Locked
<1>5. \A m \in Node : Unseeded(m) => Unseeded(m)'
  BY <1>2 DEF Unseeded
<1>6. KeptOrUnseeded'
  BY <1>1, <1>2, <1>4, <1>5 DEF KeptOrUnseeded, TypeOK
<1>7. RecordsAreOfUsedRuns' /\ OneStartPerNode'
  BY <1>1, <1>2 DEF RecordsAreOfUsedRuns, OneStartPerNode
<1> QED BY <1>2, <1>3, <1>6, <1>7, FreeKeeps

\* The whole canvas of a process over the file: a start that only the file knew is in it.
LEMMA EditElsewhereKeeps ==
  ASSUME RecoveryInv, NEW p \in Proc, EditElsewhere(p)
  PROVE  RecoveryInv'
<1>1. /\ TypeOK /\ LifecycleIsOwned /\ RecordsAreOfUsedRuns /\ KeptOrUnseeded /\ LeasedAreLocked
      /\ IdentIsKnown /\ RecordsOfTheRun /\ CommitKeepsStarts /\ OneStartPerNode
  BY DEF RecoveryInv
<1>2. /\ up[p] /\ graphFile' = graph[p]
      /\ UNCHANGED <<records, holds, pending, lifecycle, up, runOf, stage, fresh, ident, reservations,
                     storageErr, bootErr, graph, commit, due, starts, used, faults, crashes>>
  BY DEF EditElsewhere, guard, memory
<1>3. TypeOK'
  BY <1>1, <1>2 DEF TypeOK
<1>4. \A m \in Node : Unseeded(m) => Unseeded(m)'
  BY <1>2 DEF Unseeded
<1>5. \A d \in due' : KeptIn(records, d) => KeptIn(records, d)'
  BY <1>2 DEF KeptIn, Locked
<1>6. KeptOrUnseeded'
  BY <1>1, <1>2, <1>4, <1>5 DEF KeptOrUnseeded, TypeOK
<1>7. LifecycleIsOwned' /\ RecordsAreOfUsedRuns' /\ OneStartPerNode'
  BY <1>1, <1>2 DEF LifecycleIsOwned, RecordsAreOfUsedRuns, OneStartPerNode
<1>8. LeasedAreLocked' /\ IdentIsKnown' /\ RecordsOfTheRun'
  BY <1>1, <1>2 DEF LeasedAreLocked, LeasedAt, Locked, IdentIsKnown, IdentAt, RecordsOfTheRun, RecordsAt
<1>9. CommitKeepsStarts'
  BY <1>1, <1>2 DEF CommitKeepsStarts, KeptIn, Locked
<1> QED BY <1>3, <1>6, <1>7, <1>8, <1>9 DEF RecoveryInv

\* A crash loses what a process had in memory and frees what it owned.
LEMMA CrashKeeps ==
  ASSUME RecoveryInv, NEW p \in Proc, Crash(p)
  PROVE  RecoveryInv'
<1>1. /\ TypeOK /\ LifecycleIsOwned /\ RecordsAreOfUsedRuns /\ KeptOrUnseeded /\ LeasedAreLocked
      /\ IdentIsKnown /\ RecordsOfTheRun /\ CommitKeepsStarts /\ OneStartPerNode
  BY DEF RecoveryInv
<1>2. /\ up' = [up EXCEPT ![p] = FALSE]
      /\ lifecycle' = IF lifecycle = p THEN NoProc ELSE lifecycle
      /\ runOf' = [runOf EXCEPT ![p] = NoRun]
      /\ stage' = [stage EXCEPT ![p] = [n \in Node |-> "none"]]
      /\ fresh' = [fresh EXCEPT ![p] = {}]
      /\ ident' = [ident EXCEPT ![p] = Blank]
      /\ graph' = [graph EXCEPT ![p] = Blank]
      /\ bootErr' = [bootErr EXCEPT ![p] = FALSE]
      /\ commit' = [commit EXCEPT ![p] = NoCommit]
      /\ UNCHANGED <<records, graphFile, holds, pending, due, starts, used, faults>>
  BY DEF Crash
<1>3. /\ reservations' = [reservations EXCEPT ![p] = {}]
      /\ storageErr' = [storageErr EXCEPT ![p] = FALSE] /\ crashes' = crashes + 1
  BY DEF Crash
<1>4. Blank \in Canvas /\ [n \in Node |-> "none"] \in [Node -> Stages]
  BY DEF Blank, Canvas, Stages
<1>5. TypeOK'
  <2>1. /\ records' \subseteq Record /\ graphFile' \in Canvas
        /\ holds' \subseteq Node /\ pending' \subseteq Node /\ lifecycle' \in Proc \cup {NoProc}
        /\ up' \in [Proc -> BOOLEAN] /\ runOf' \in [Proc -> Run \cup {NoRun, Mutation}]
        /\ stage' \in [Proc -> [Node -> Stages]] /\ fresh' \in [Proc -> SUBSET Node]
    BY <1>1, <1>2, <1>4 DEF TypeOK
  <2>2. /\ ident' \in [Proc -> Canvas] /\ graph' \in [Proc -> Canvas]
        /\ bootErr' \in [Proc -> BOOLEAN] /\ storageErr' \in [Proc -> BOOLEAN]
    BY <1>1, <1>2, <1>3, <1>4 DEF TypeOK
  <2>3. /\ commit' \in [Proc -> Commit \cup {NoCommit}] /\ reservations' \in [Proc -> SUBSET (Run \X Node)]
        /\ due' \subseteq Node \X Start /\ used' \subseteq Run /\ {starts, faults, crashes}' \subseteq Nat
    BY <1>1, <1>2, <1>3 DEF TypeOK
  <2> QED BY <2>1, <2>2, <2>3 DEF TypeOK
<1>6. /\ runOf'[p] = NoRun /\ commit'[p] = NoCommit /\ fresh'[p] = {} /\ ~up'[p]
      /\ \A n \in Node : stage'[p][n] = "none"
      /\ \A q \in Proc \ {p} : /\ runOf'[q] = runOf[q] /\ commit'[q] = commit[q]
                              /\ fresh'[q] = fresh[q] /\ stage'[q] = stage[q]
      /\ \A q \in Proc \ {p} : /\ up'[q] = up[q] /\ bootErr'[q] = bootErr[q] /\ graph'[q] = graph[q]
                              /\ ident'[q] = ident[q]
  BY <1>1, <1>2 DEF TypeOK
<1>8. CASE runOf[p] # NoRun
  <2>1. lifecycle = p /\ \A d \in due : KeptIn(records, d)'
    BY <1>2, <1>8, OwnerFacts DEF KeptIn, Locked
  <2> QED BY <1>2, <1>5, <1>6, <1>8, <2>1, EndingKeeps
<1>9. CASE runOf[p] = NoRun
  <2>1. lifecycle' = lifecycle /\ lifecycle # p
    BY <1>1, <1>2, <1>9 DEF LifecycleIsOwned
  <2>2. LifecycleIsOwned' /\ RecordsAreOfUsedRuns' /\ OneStartPerNode'
    BY <1>1, <1>2, <1>6, <2>1 DEF LifecycleIsOwned, RecordsAreOfUsedRuns, OneStartPerNode
  <2>3. KeptOrUnseeded'
    <3>1. \A m \in Node : Unseeded(m) => Unseeded(m)'
      BY <1>2, <1>6, <2>1 DEF Unseeded
    <3>2. \A d \in due : KeptIn(records, d) => KeptIn(records, d)'
      BY <1>2 DEF KeptIn, Locked
    <3> QED BY <1>1, <1>2, <3>1, <3>2 DEF KeptOrUnseeded, TypeOK
  <2>4. LeasedAreLocked'
    BY <1>1, <1>2, <1>6 DEF LeasedAreLocked, LeasedAt, Locked
  <2>5. IdentIsKnown'
    BY <1>1, <1>6 DEF IdentIsKnown, IdentAt
  <2>6. RecordsOfTheRun'
    BY <1>1, <1>2, <1>6 DEF RecordsOfTheRun, RecordsAt
  <2>7. CommitKeepsStarts'
    BY <1>1, <1>2, <1>6 DEF CommitKeepsStarts, KeptIn, Locked
  <2> QED BY <1>5, <2>2, <2>3, <2>4, <2>5, <2>6, <2>7 DEF RecoveryInv
<1> QED BY <1>8, <1>9

\* A boot seeds what the file carries, or says that it could not.
LEMMA BootKeeps ==
  ASSUME RecoveryInv, NEW p \in Proc, Boot(p)
  PROVE  RecoveryInv'
<1>1. /\ TypeOK /\ LifecycleIsOwned /\ RecordsAreOfUsedRuns /\ KeptOrUnseeded /\ LeasedAreLocked
      /\ IdentIsKnown /\ RecordsOfTheRun /\ CommitKeepsStarts /\ OneStartPerNode
  BY DEF RecoveryInv
<1>2. /\ ~up[p] /\ up' = [up EXCEPT ![p] = TRUE] /\ graph' = [graph EXCEPT ![p] = graphFile]
      /\ UNCHANGED <<graphFile, lifecycle, runOf, stage, fresh, ident, reservations, commit,
                     due, starts, used, crashes>>
  BY DEF Boot
<1>3. CASE lifecycle = NoProc /\ Promote /\ \E st \in Ensured(Store(p), {}, graphFile) :
                                              Leave(p, [st EXCEPT !.boot = ~st.ok])
  <2>1. PICK st \in Ensured(Store(p), {}, graphFile) : Leave(p, [st EXCEPT !.boot = ~st.ok])
    BY <1>3
  <2>2. /\ Store(p) \in StoreState /\ Store(p).recs = records /\ Store(p).ok /\ graphFile \in Canvas
    BY <1>1, StoreTyped DEF TypeOK
  <2>3. /\ st \in StoreState /\ records \subseteq st.recs /\ \A y \in st.recs \ records : y.run = Seed
        /\ st.ok => Seeded(st.recs, graphFile)
    BY <2>2, EnsuredFacts
  <2> DEFINE last == [st EXCEPT !.boot = ~st.ok]
  <2>4. last \in StoreState /\ last.recs = st.recs /\ last.boot = ~st.ok
    BY <2>3 DEF StoreState
  <2>5. Leave(p, last)
    BY <2>1
  <2> HIDE DEF last
  <2>6. /\ records' \subseteq Record /\ faults' \in Nat
        /\ storageErr' \in [Proc -> BOOLEAN] /\ bootErr' \in [Proc -> BOOLEAN]
        /\ records' = st.recs /\ bootErr'[p] = ~st.ok
        /\ \A q \in Proc \ {p} : bootErr'[q] = bootErr[q]
    BY <1>1, <2>4, <2>5, LeaveTyped
  <2>7. Locked' = Locked /\ holds' \subseteq Node /\ pending' \subseteq Node
    BY <1>1, <1>3 DEF Promote, Locked, TypeOK
  <2>8. TypeOK'
    BY <1>1, <1>2, <2>6, <2>7 DEF TypeOK
  <2>9. RecordsAreOfUsedRuns' /\ OneStartPerNode'
    BY <1>1, <1>2, <2>3, <2>6 DEF RecordsAreOfUsedRuns, OneStartPerNode
  <2>10. KeptOrUnseeded'
    <3> SUFFICES ASSUME NEW d \in due PROVE KeptIn(records, d)' \/ (d[2] = 0 /\ Unseeded(d[1])')
      BY <1>2 DEF KeptOrUnseeded
    <3>1. d[1] \in Node
      BY <1>1 DEF TypeOK
    <3>2. CASE KeptIn(records, d)
      BY <2>3, <2>6, <2>7, <3>2 DEF KeptIn, Recorded
    <3>3. CASE d[2] = 0 /\ Unseeded(d[1]) /\ st.ok
      <4>1. graphFile[d[1]] # NoId /\ graphFile[d[1]][1] = 0
        BY <3>3 DEF Unseeded
      <4>2. Journaled(records', d[1], graphFile[d[1]])
        BY <2>3, <2>6, <3>1, <3>3, <4>1 DEF Seeded, Carried
      <4> QED BY <3>3, <4>1, <4>2 DEF Journaled, KeptIn, Recorded
    <3>4. CASE d[2] = 0 /\ Unseeded(d[1]) /\ ~st.ok
      <4>1. /\ up'[p] /\ graph'[p] = graphFile
            /\ \A q \in Proc \ {p} : up'[q] = up[q] /\ graph'[q] = graph[q]
        BY <1>1, <1>2 DEF TypeOK
      <4> QED BY <1>2, <2>6, <3>4, <4>1 DEF Unseeded
    <3> QED BY <1>1, <3>2, <3>3, <3>4 DEF KeptOrUnseeded
  <2> QED BY <1>2, <1>3, <2>8, <2>9, <2>10, <1>1, FreeKeeps
<1>4. CASE /\ Carried(graphFile) = {} \/ lifecycle # NoProc
           /\ bootErr' = [bootErr EXCEPT ![p] = Carried(graphFile) # {}]
           /\ UNCHANGED <<records, storageErr, holds, pending, faults>>
  <2>1. TypeOK'
    BY <1>1, <1>2, <1>4 DEF TypeOK
  <2>2. runOf[p] = NoRun
    BY <1>1, <1>2 DEF LifecycleIsOwned
  <2>3. \A q \in Proc \ {p} : up'[q] = up[q]
    BY <1>1, <1>2 DEF TypeOK
  <2>4. LifecycleIsOwned' /\ RecordsAreOfUsedRuns' /\ OneStartPerNode'
    BY <1>1, <1>2, <1>4, <2>2, <2>3 DEF LifecycleIsOwned, RecordsAreOfUsedRuns, OneStartPerNode
  <2>5. \A d \in due : KeptIn(records, d)
    BY <1>1, <1>4 DEF KeptOrUnseeded, Unseeded, Carried, TypeOK
  <2>6. KeptOrUnseeded'
    BY <1>2, <1>4, <2>5 DEF KeptOrUnseeded, KeptIn, Locked
  <2>7. LeasedAreLocked' /\ IdentIsKnown' /\ RecordsOfTheRun'
    BY <1>1, <1>2, <1>4 DEF LeasedAreLocked, LeasedAt, Locked, IdentIsKnown, IdentAt, RecordsOfTheRun, RecordsAt
  <2>8. CommitKeepsStarts'
    BY <1>1, <1>2, <1>4 DEF CommitKeepsStarts, KeptIn, Locked
  <2> QED BY <2>1, <2>4, <2>6, <2>7, <2>8 DEF RecoveryInv
<1> QED BY <1>3, <1>4 DEF Boot

\* A run is admitted only with every start in the journal or locked, and none of its
\* fresh nodes has one.
LEMMA ClaimKeeps ==
  ASSUME RecoveryInv, NEW p \in Proc, NEW r \in Run, NEW pay, Claim(p, r, pay)
  PROVE  RecoveryInv'
<1>1. /\ TypeOK /\ LifecycleIsOwned /\ RecordsAreOfUsedRuns /\ KeptOrUnseeded /\ LeasedAreLocked
      /\ IdentIsKnown /\ RecordsOfTheRun /\ CommitKeepsStarts /\ OneStartPerNode
  BY DEF RecoveryInv
<1>2. /\ up[p] /\ lifecycle = NoProc /\ r \notin used /\ used' = used \cup {r}
      /\ UNCHANGED <<graphFile, up, graph, commit, due, starts, crashes>>
  BY DEF Claim
<1>3. PICK st \in Prepared(p, r, pay) :
        /\ Leave(p, st)
        /\ \/ UNCHANGED <<guard, runOf, stage, fresh, ident, reservations>>
           \/ Promote /\ UNCHANGED <<lifecycle, runOf, stage, fresh, ident, reservations>>
           \/ /\ st.ok /\ (Blanks(pay) = {} \/ holds \cup pending = {})
              /\ holds' = holds \cup pending
              /\ pending' = Blanks(pay)
              /\ lifecycle' = p
              /\ runOf' = [runOf EXCEPT ![p] = r]
              /\ stage' = [stage EXCEPT ![p] = [n \in Node |-> IF n \in Blanks(pay) \cup Reruns(pay)
                                                              THEN "ready" ELSE "none"]]
              /\ fresh' = [fresh EXCEPT ![p] = Blanks(pay)]
              /\ ident' = [ident EXCEPT ![p] = [n \in Node |-> IF n \in Reruns(pay) THEN pay[n] ELSE NoId]]
              /\ reservations' = [reservations EXCEPT ![p] = Unset(Reserved(st.recs, r, pay), st.recs)]
  BY DEF Claim
<1>4. \A y \in records : y.run # r
  BY <1>1, <1>2 DEF RecordsAreOfUsedRuns
<1>5. /\ Grown(p, st)
      /\ \A y \in st.recs \ records :
           y.run = Seed \/ (y.run = r /\ y.node \in Reruns(pay) /\ y.id = pay[y.node])
      /\ st.ok => /\ ~bootErr[p] \/ Seeded(st.recs, graph[p])
                  /\ \A n \in Blanks(pay) : graph[p][n] = NoId /\ \A y \in records : y.node # n
  BY <1>1, <1>4, PreparedFacts
<1>6. st \in StoreState /\ records \subseteq st.recs
  BY <1>5 DEF Grown
<1>7. /\ records' \subseteq Record /\ faults' \in Nat
      /\ storageErr' \in [Proc -> BOOLEAN] /\ bootErr' \in [Proc -> BOOLEAN]
      /\ records' = st.recs
  BY <1>1, <1>3, <1>6, LeaveTyped
<1>8. used' \subseteq Run /\ \A x \in records' \ records : x.run \in used' \cup {Seed}
  BY <1>1, <1>2, <1>5, <1>7 DEF TypeOK
<1>9. CASE UNCHANGED <<guard, runOf, stage, fresh, ident, reservations>>
  <2>1. Locked' = Locked /\ holds' \subseteq Node /\ pending' \subseteq Node /\ lifecycle' = lifecycle
    BY <1>1, <1>9 DEF guard, Locked, TypeOK
  <2> QED BY <1>2, <1>3, <1>5, <1>8, <1>9, <2>1, AddingKeeps
<1>10. CASE Promote /\ UNCHANGED <<lifecycle, runOf, stage, fresh, ident, reservations>>
  <2>1. Locked' = Locked /\ holds' \subseteq Node /\ pending' \subseteq Node
    BY <1>1, <1>10 DEF Promote, Locked, TypeOK
  <2> QED BY <1>2, <1>3, <1>5, <1>8, <1>10, <2>1, AddingKeeps
<1>11. CASE /\ st.ok /\ (Blanks(pay) = {} \/ holds \cup pending = {})
            /\ holds' = holds \cup pending
            /\ pending' = Blanks(pay)
            /\ lifecycle' = p
            /\ runOf' = [runOf EXCEPT ![p] = r]
            /\ stage' = [stage EXCEPT ![p] = [n \in Node |-> IF n \in Blanks(pay) \cup Reruns(pay)
                                                            THEN "ready" ELSE "none"]]
            /\ fresh' = [fresh EXCEPT ![p] = Blanks(pay)]
            /\ ident' = [ident EXCEPT ![p] = [n \in Node |-> IF n \in Reruns(pay) THEN pay[n] ELSE NoId]]
            /\ reservations' = [reservations EXCEPT ![p] = Unset(Reserved(st.recs, r, pay), st.recs)]
  <2> DEFINE part == [n \in Node |-> IF n \in Blanks(pay) \cup Reruns(pay) THEN "ready" ELSE "none"]
             known == [n \in Node |-> IF n \in Reruns(pay) THEN pay[n] ELSE NoId]
             left == Unset(Reserved(st.recs, r, pay), st.recs)
  <2>1. /\ Blanks(pay) \subseteq Node /\ Reruns(pay) \subseteq Node /\ Blanks(pay) \cap Reruns(pay) = {}
        /\ \A n \in Reruns(pay) : pay[n] \in Id
    BY DEF Blanks, Reruns
  <2>2. /\ part \in [Node -> Stages] /\ \A n \in Node : part[n] \in {"ready", "none"}
        /\ \A n \in Node : part[n] = "ready" <=> n \in Blanks(pay) \cup Reruns(pay)
    BY DEF Stages
  <2>3. known \in Canvas /\ \A n \in Reruns(pay) : known[n] = pay[n]
    BY <2>1 DEF Canvas
  <2>4. left \in SUBSET (Run \X Node)
    <3>1. Reserved(st.recs, r, pay) \in SUBSET (Run \X Node)
      BY <2>1 DEF Reserved
    <3> QED BY <3>1 DEF Unset
  <2>5. /\ lifecycle' = p /\ runOf' = [runOf EXCEPT ![p] = r] /\ stage' = [stage EXCEPT ![p] = part]
        /\ fresh' = [fresh EXCEPT ![p] = Blanks(pay)] /\ ident' = [ident EXCEPT ![p] = known]
        /\ reservations' = [reservations EXCEPT ![p] = left]
    BY <1>11
  <2> HIDE DEF part, known, left
  <2>6. holds' \subseteq Node /\ pending' \subseteq Node /\ Locked \subseteq Locked'
        /\ Blanks(pay) \subseteq Locked'
    BY <1>1, <1>11, <2>1 DEF TypeOK, Locked
  <2>7. TypeOK'
    BY <1>1, <1>2, <1>7, <1>8, <2>1, <2>2, <2>3, <2>4, <2>5, <2>6 DEF TypeOK
  <2>8. \A d \in due : KeptIn(st.recs, d) /\ d[1] \in Node
    BY <1>1, <1>2, <1>5, <1>6, <1>11, DueIsJournaled DEF TypeOK
  <2>9. \A d \in due : d[1] \notin Blanks(pay)
    <3> SUFFICES ASSUME NEW d \in due, d[1] \in Blanks(pay) PROVE FALSE
      OBVIOUS
    <3>1. d[1] \notin Locked
      BY <1>11 DEF Locked
    <3>2. ~Recorded(records, d[1], d[2])
      BY <1>5, <1>11 DEF Recorded
    <3>3. Unseeded(d[1])
      BY <1>1, <3>1, <3>2 DEF KeptOrUnseeded, KeptIn
    <3> QED BY <1>2, <1>5, <1>11, <3>3 DEF Unseeded
  <2>10. \A q \in Proc : /\ runOf[q] = NoRun /\ commit[q] = NoCommit /\ fresh[q] = {}
                        /\ \A n \in Node : stage[q][n] = "none"
    BY <1>2, FreeFacts
  <2>11. /\ runOf'[p] = r /\ stage'[p] = part /\ fresh'[p] = Blanks(pay) /\ ident'[p] = known
         /\ commit' = commit
         /\ \A q \in Proc \ {p} : runOf'[q] = NoRun /\ fresh'[q] = {} /\ stage'[q] = stage[q]
    BY <1>1, <1>2, <2>5, <2>10 DEF TypeOK
  <2>12. LifecycleIsOwned'
    BY <1>2, <2>5, <2>10, <2>11 DEF LifecycleIsOwned
  <2>13. RecordsAreOfUsedRuns'
    BY <1>1, <1>2, <1>8 DEF RecordsAreOfUsedRuns
  <2>14. KeptOrUnseeded'
    BY <1>2, <1>7, <2>6, <2>8 DEF KeptOrUnseeded, KeptIn
  <2>15. LeasedAreLocked'
    BY <1>2, <2>1, <2>2, <2>6, <2>9, <2>11 DEF LeasedAreLocked, LeasedAt
  <2>16. IdentIsKnown'
    BY <2>1, <2>2, <2>3, <2>10, <2>11 DEF IdentIsKnown, IdentAt
  <2>17. RecordsOfTheRun'
    <3>1. \A x \in records' : x.run = r => x.node \in Reruns(pay) /\ x.id = pay[x.node]
      BY <1>4, <1>5, <1>7
    <3>2. RecordsAt(p)'
      BY <2>1, <2>3, <2>11, <3>1 DEF RecordsAt
    <3> QED BY <2>11, <3>2 DEF RecordsOfTheRun
  <2>18. CommitKeepsStarts' /\ OneStartPerNode'
    BY <1>1, <1>2, <2>10 DEF CommitKeepsStarts, OneStartPerNode
  <2> QED BY <2>7, <2>12, <2>13, <2>14, <2>15, <2>16, <2>17, <2>18 DEF RecoveryInv
<1> QED BY <1>3, <1>9, <1>10, <1>11

\* The fence promotes the intents of a dead owner and nothing else.
LEMMA FenceFacts ==
  ASSUME TypeOK, NEW p \in Proc, Fence(p)
  PROVE  /\ up[p] /\ lifecycle = NoProc /\ Locked' = Locked
         /\ holds' \subseteq Node /\ pending' \subseteq Node
  BY DEF Fence, Promote, Locked, TypeOK

\* A commit begins only with every start in the journal or locked already.
LEMMA BeginCommitKeeps ==
  ASSUME RecoveryInv, NEW p \in Proc, BeginCommit(p)
  PROVE  RecoveryInv'
<1>1. /\ TypeOK /\ LifecycleIsOwned /\ RecordsAreOfUsedRuns /\ KeptOrUnseeded /\ LeasedAreLocked
      /\ IdentIsKnown /\ RecordsOfTheRun /\ CommitKeepsStarts /\ OneStartPerNode
  BY DEF RecoveryInv
<1>2. /\ Fence(p)
      /\ UNCHANGED <<graphFile, up, stage, fresh, ident, reservations, graph, due, starts, used, crashes>>
  BY DEF BeginCommit
<1>3. /\ up[p] /\ lifecycle = NoProc /\ Locked' = Locked
      /\ holds' \subseteq Node /\ pending' \subseteq Node
  BY <1>1, <1>2, FenceFacts
<1>4. PICK st \in Fenced(p) :
        \/ Leave(p, st) /\ UNCHANGED <<lifecycle, runOf, commit>>
        \/ /\ st.ok
           /\ \E C \in Edited(p) \cup Replaced(p, st) : \E s \in Ensured(st, reservations[p], C) :
                /\ Leave(p, s)
                /\ \/ UNCHANGED <<lifecycle, runOf, commit>>
                   \/ /\ s.ok /\ lifecycle' = p /\ runOf' = [runOf EXCEPT ![p] = Mutation]
                      /\ commit' = [commit EXCEPT ![p] = [candidate |-> C, additions |-> s.recs \ st.recs]]
  BY DEF BeginCommit
<1>5. /\ Grown(p, st) /\ \A y \in st.recs \ records : y.run = Seed
      /\ st.ok => Seeded(st.recs, graph[p])
  BY <1>1, FencedFacts
<1>6. /\ st \in StoreState /\ records \subseteq st.recs
      /\ st.boot = bootErr[p] \/ Seeded(st.recs, graph[p])
  BY <1>5 DEF Grown
<1>7. used' = used /\ used' \subseteq Run
  BY <1>1, <1>2 DEF TypeOK
<1>8. CASE Leave(p, st) /\ UNCHANGED <<lifecycle, runOf, commit>>
  <2>1. \A x \in records' \ records : x.run \in used' \cup {Seed}
    BY <1>1, <1>5, <1>6, <1>8, LeaveTyped
  <2> QED BY <1>2, <1>3, <1>5, <1>7, <1>8, <2>1, AddingKeeps
<1>9. ASSUME st.ok, NEW C \in Edited(p) \cup Replaced(p, st), NEW s \in Ensured(st, reservations[p], C),
             Leave(p, s),
             \/ UNCHANGED <<lifecycle, runOf, commit>>
             \/ /\ s.ok /\ lifecycle' = p /\ runOf' = [runOf EXCEPT ![p] = Mutation]
                /\ commit' = [commit EXCEPT ![p] = [candidate |-> C, additions |-> s.recs \ st.recs]]
      PROVE  RecoveryInv'
  <2>1. C \in Canvas
    <3>1. graph[p] \in Canvas /\ Issued \subseteq Id
      BY <1>1 DEF TypeOK, Issued
    <3>2. Edited(p) \subseteq Canvas
      BY <3>1 DEF Edited, Canvas
    <3>3. Replaced(p, st) \subseteq Canvas
      BY <3>1 DEF Replaced, Canvas
    <3> QED BY <1>9, <3>2, <3>3
  <2>2. /\ s \in StoreState /\ s.boot = st.boot /\ st.recs \subseteq s.recs
        /\ \A y \in s.recs \ st.recs : y.run = Seed
    BY <1>6, <1>9, <2>1, EnsuredFacts
  <2>3. Grown(p, s)
    BY <1>6, <2>2 DEF Grown, Seeded, Journaled
  <2>4. /\ records' \subseteq Record /\ faults' \in Nat
        /\ storageErr' \in [Proc -> BOOLEAN] /\ bootErr' \in [Proc -> BOOLEAN]
        /\ records' = s.recs
    BY <1>1, <1>9, <2>2, LeaveTyped
  <2>5. \A x \in records' \ records : x.run \in used' \cup {Seed}
    BY <1>5, <2>2, <2>4
  <2>6. CASE UNCHANGED <<lifecycle, runOf, commit>>
    BY <1>2, <1>3, <1>7, <1>9, <2>3, <2>5, <2>6, AddingKeeps
  <2>7. CASE /\ lifecycle' = p /\ runOf' = [runOf EXCEPT ![p] = Mutation]
             /\ commit' = [commit EXCEPT ![p] = [candidate |-> C, additions |-> s.recs \ st.recs]]
    <3> DEFINE c == [candidate |-> C, additions |-> s.recs \ st.recs]
    <3>1. c \in Commit /\ c.additions = s.recs \ st.recs /\ c # NoCommit
      BY <2>1, <2>2 DEF Commit, StoreState
    <3>2. commit' = [commit EXCEPT ![p] = c]
      BY <2>7
    <3> HIDE DEF c
    <3>3. TypeOK'
      <4>1. /\ lifecycle' \in Proc \cup {NoProc} /\ runOf' \in [Proc -> Run \cup {NoRun, Mutation}]
            /\ commit' \in [Proc -> Commit \cup {NoCommit}]
        BY <1>1, <2>7, <3>1, <3>2 DEF TypeOK
      <4> QED BY <1>1, <1>2, <1>3, <2>4, <4>1 DEF TypeOK
    <3>4. \A q \in Proc : /\ runOf[q] = NoRun /\ commit[q] = NoCommit /\ fresh[q] = {}
                         /\ \A n \in Node : stage[q][n] = "none"
      BY <1>3, FreeFacts
    <3>5. /\ runOf'[p] = Mutation /\ commit'[p] = c
          /\ \A q \in Proc \ {p} : runOf'[q] = NoRun /\ commit'[q] = NoCommit
      BY <1>1, <2>7, <3>2, <3>4 DEF TypeOK
    <3>6. LifecycleIsOwned'
      <4>1. lifecycle' = p /\ up'[p] /\ fresh' = fresh /\ stage' = stage
        BY <1>2, <1>3, <2>7
      <4> QED BY <3>1, <3>4, <3>5, <4>1 DEF LifecycleIsOwned
    <3>7. RecordsAreOfUsedRuns' /\ OneStartPerNode'
      BY <1>1, <1>2, <2>5 DEF RecordsAreOfUsedRuns, OneStartPerNode
    <3>8. \A d \in due : KeptIn(st.recs, d)
      BY <1>1, <1>3, <1>5, <1>6, <1>9, DueIsJournaled
    <3>9. KeptOrUnseeded'
      BY <1>2, <1>3, <2>2, <2>4, <3>8 DEF KeptOrUnseeded, KeptIn, Recorded
    <3>10. CommitKeepsStarts'
      <4>1. st.recs \subseteq records' \ c.additions
        BY <2>2, <2>4, <3>1
      <4>2. \A d \in due' : KeptIn(records \ c.additions, d)'
        BY <1>2, <1>3, <3>8, <4>1 DEF KeptIn, Recorded
      <4> QED BY <3>5, <4>2 DEF CommitKeepsStarts
    <3>11. LeasedAreLocked' /\ IdentIsKnown'
      BY <1>2, <3>4 DEF LeasedAreLocked, LeasedAt, IdentIsKnown, IdentAt
    <3>12. RecordsOfTheRun'
      BY <3>5 DEF RecordsOfTheRun
    <3> QED BY <3>3, <3>6, <3>7, <3>9, <3>10, <3>11, <3>12 DEF RecoveryInv
  <2> QED BY <1>9, <2>6, <2>7
<1> QED BY <1>4, <1>8, <1>9

\* Forgetting a record gives up its start and no other.
LEMMA ForgetKeeps ==
  ASSUME RecoveryInv, NEW p \in Proc, NEW x \in Record, Forget(p, x)
  PROVE  RecoveryInv'
<1>1. /\ TypeOK /\ LifecycleIsOwned /\ RecordsAreOfUsedRuns /\ KeptOrUnseeded /\ LeasedAreLocked
      /\ IdentIsKnown /\ RecordsOfTheRun /\ CommitKeepsStarts /\ OneStartPerNode
  BY DEF RecoveryInv
<1>2. /\ Fence(p)
      /\ UNCHANGED <<lifecycle, up, runOf, stage, fresh, ident, reservations, commit, starts, used, crashes>>
  BY DEF Forget
<1>3. /\ up[p] /\ lifecycle = NoProc /\ Locked' = Locked
      /\ holds' \subseteq Node /\ pending' \subseteq Node
  BY <1>1, <1>2, FenceFacts
<1>4. PICK st \in Fenced(p) :
        IF ~st.ok THEN Leave(p, st) /\ UNCHANGED <<graph, graphFile, due>>
        ELSE /\ due' = due \ {<<x.node, x.id[1]>>}
             /\ \E s \in Removed(st, {x}) :
                  /\ Leave(p, s)
                  /\ IF s.ok /\ graph[p][x.node] = x.id
                       THEN /\ graph' = [graph EXCEPT ![p][x.node] = NoId]
                            /\ graphFile' \in {graph'[p]} \cup (IF faults < MaxFaults THEN {graphFile} ELSE {})
                       ELSE UNCHANGED <<graph, graphFile>>
  BY DEF Forget
<1>5. /\ Grown(p, st) /\ \A y \in st.recs \ records : y.run = Seed
      /\ st.ok => Seeded(st.recs, graph[p])
  BY <1>1, FencedFacts
<1>6. st \in StoreState /\ records \subseteq st.recs
  BY <1>5 DEF Grown
<1>7. CASE ~st.ok
  <2>1. Leave(p, st) /\ UNCHANGED <<graph, graphFile, due>>
    BY <1>4, <1>7
  <2>2. \A y \in records' \ records : y.run \in used' \cup {Seed}
    BY <1>1, <1>5, <1>6, <2>1, LeaveTyped
  <2>3. used' = used /\ used' \subseteq Run
    BY <1>1, <1>2 DEF TypeOK
  <2> QED BY <1>2, <1>3, <1>5, <2>1, <2>2, <2>3, AddingKeeps
<1>8. CASE st.ok
  <2>1. due' = due \ {<<x.node, x.id[1]>>}
    BY <1>4, <1>8
  <2>2. PICK s \in Removed(st, {x}) :
          /\ Leave(p, s)
          /\ \/ UNCHANGED <<graph, graphFile>>
             \/ /\ graph' = [graph EXCEPT ![p][x.node] = NoId]
                /\ graphFile' \in {graph'[p], graphFile}
    BY <1>4, <1>8
  <2>3. s \in StoreState /\ s.recs \in {st.recs, st.recs \ {x}}
    BY <1>6, RemovedFacts
  <2>4. /\ records' \subseteq Record /\ faults' \in Nat
        /\ storageErr' \in [Proc -> BOOLEAN] /\ bootErr' \in [Proc -> BOOLEAN]
        /\ records' = s.recs
    BY <1>1, <2>2, <2>3, LeaveTyped
  <2>5. graph' \in [Proc -> Canvas] /\ graphFile' \in Canvas
    <3>1. graph \in [Proc -> Canvas] /\ graph[p] \in Canvas /\ graphFile \in Canvas
      BY <1>1 DEF TypeOK
    <3>2. [graph[p] EXCEPT ![x.node] = NoId] \in Canvas
      BY <3>1 DEF Canvas
    <3>3. [graph EXCEPT ![p][x.node] = NoId] = [graph EXCEPT ![p] = [graph[p] EXCEPT ![x.node] = NoId]]
      OBVIOUS
    <3> QED BY <2>2, <3>1, <3>2, <3>3
  <2>6. TypeOK'
    BY <1>1, <1>2, <1>3, <2>1, <2>4, <2>5 DEF TypeOK
  <2>7. \A d \in due : KeptIn(st.recs, d) /\ d = <<d[1], d[2]>>
    BY <1>1, <1>3, <1>5, <1>6, <1>8, DueIsJournaled DEF TypeOK
  <2>8. KeptOrUnseeded'
    BY <1>3, <2>1, <2>3, <2>4, <2>7 DEF KeptOrUnseeded, KeptIn, Recorded
  <2>9. RecordsAreOfUsedRuns' /\ OneStartPerNode'
    BY <1>1, <1>2, <1>5, <2>1, <2>3, <2>4 DEF RecordsAreOfUsedRuns, OneStartPerNode
  <2> QED BY <1>2, <1>3, <2>6, <2>8, <2>9, FreeKeeps
<1>9. st.ok \in BOOLEAN
  BY <1>6 DEF StoreState
<1> QED BY <1>7, <1>8, <1>9

-----------------------------------------------------------------------------
(* The theorems.                                                           *)

\* Every step of the journal, the canvas and the guard keeps the invariant.
LEMMA StepKeeps == RecoveryInv /\ [Next]_vars => RecoveryInv'
<1> SUFFICES ASSUME RecoveryInv, [Next]_vars PROVE RecoveryInv'
  OBVIOUS
<1>1. CASE UNCHANGED vars
  <2> USE <1>1 DEF vars, guard, memory
  <2>1. (TypeOK /\ LifecycleIsOwned /\ RecordsAreOfUsedRuns /\ OneStartPerNode)'
    BY DEF RecoveryInv, TypeOK, LifecycleIsOwned, RecordsAreOfUsedRuns, OneStartPerNode
  <2>2. KeptOrUnseeded'
    BY DEF RecoveryInv, KeptOrUnseeded, KeptIn, Locked, Unseeded
  <2>3. (LeasedAreLocked /\ IdentIsKnown)'
    BY DEF RecoveryInv, LeasedAreLocked, LeasedAt, Locked, IdentIsKnown, IdentAt
  <2>4. (RecordsOfTheRun /\ CommitKeepsStarts)'
    BY DEF RecoveryInv, RecordsOfTheRun, RecordsAt, CommitKeepsStarts, KeptIn, Locked
  <2> QED BY <2>1, <2>2, <2>3, <2>4 DEF RecoveryInv
<1>2. ASSUME NEW p \in Proc, Boot(p) \/ Crash(p) \/ EditElsewhere(p)
      PROVE  RecoveryInv'
  BY <1>2, BootKeeps, CrashKeeps, EditElsewhereKeeps
<1>3. ASSUME NEW p \in Proc, NEW r \in Run, NEW pay \in Payloads, Claim(p, r, pay)
      PROVE  RecoveryInv'
  BY <1>3, ClaimKeeps
<1>4. ASSUME NEW p \in Proc, NEW n \in Node,
             Post(p, n) \/ Denied(p, n) \/ Ambiguous(p, n) \/ Accepted(p, n) \/ Landed(p, n) \/ GiveUp(p, n)
               \/ Acknowledge(p, n)
      PROVE  RecoveryInv'
  BY <1>4, PostKeeps, DeniedKeeps, AmbiguousKeeps, AcceptedKeeps, LandedKeeps, GiveUpKeeps, AcknowledgeKeeps
<1>5. ASSUME NEW p \in Proc, Release(p) \/ BeginCommit(p) \/ SaveCanvas(p) \/ RollBack(p)
      PROVE  RecoveryInv'
  BY <1>5, ReleaseKeeps, BeginCommitKeeps, SaveCanvasKeeps, RollBackKeeps
<1>6. ASSUME NEW p \in Proc, NEW x \in Record, Forget(p, x)
      PROVE  RecoveryInv'
  BY <1>6, ForgetKeeps
<1> QED BY <1>1, <1>2, <1>3, <1>4, <1>5, <1>6 DEF Next

\* The inductive invariant of the recovery journal holds of every reachable state.
THEOREM RecoveryInvAlways == Spec => []RecoveryInv
<1> QED BY InitHolds, StepKeeps, PTL DEF Spec

\* Every variable keeps its type in every reachable state.
THEOREM TypeCorrect == Spec => []TypeOK
<1>1. RecoveryInv => TypeOK
  BY DEF RecoveryInv
<1> QED BY <1>1, RecoveryInvAlways, PTL

\* A start that may be billed stays remembered on disk until the person gives it up
\* (_sync_provider_recovery_to_cli_graph, hold_nondurable_recovery, ensure_many).
THEOREM KeptOrHeldAlways == Spec => []KeptOrHeld
<1>1. RecoveryInv => KeptOrHeld
  <2> SUFFICES ASSUME RecoveryInv, NEW d \in due PROVE Remembered(d[1], d[2])
    BY DEF KeptOrHeld
  <2>1. KeptIn(records, d) \/ (d[2] = 0 /\ Unseeded(d[1]))
    BY DEF RecoveryInv, KeptOrUnseeded
  <2> QED BY <2>1 DEF KeptIn, Recorded, Locked, Unseeded, Remembered
<1> QED BY <1>1, RecoveryInvAlways, PTL

\* A node never has two unresolved starts, however many backends and tabs there are
\* (_claim_fresh_paid_worldlabs_starts refuses what a record, a lock or its canvas knows).
THEOREM OneStartPerNodeAlways == Spec => []OneStartPerNode
<1>1. RecoveryInv => OneStartPerNode
  BY DEF RecoveryInv
<1> QED BY <1>1, RecoveryInvAlways, PTL

\* A rollback of a canvas commit loses no start: what it takes back are records of its own
\* attempt (_commit_graph_candidate_with_recoveries, delete_many_exact).
THEOREM CommitKeepsStartsAlways == Spec => []CommitKeepsStarts
<1>1. RecoveryInv => CommitKeepsStarts
  BY DEF RecoveryInv
<1> QED BY <1>1, RecoveryInvAlways, PTL
-----------------------------------------------------------------------------
(* Room in the journal: its limit, and what a run has reserved of it.      *)

\* A file that every process can read and save: within MAX_RECOVERY_RECORDS.
Fits(R) == R \in SUBSET Record /\ IsFiniteSet(R) /\ Cardinality(R) <= MaxRecords

\* A subset of a finite set has no more elements, and a set minus one of its own has fewer.
LEMMA SubsetCounts ==
  ASSUME NEW S, IsFiniteSet(S), NEW T, T \subseteq S
  PROVE  /\ IsFiniteSet(T) /\ Cardinality(T) \in Nat /\ Cardinality(S) \in Nat
         /\ Cardinality(T) <= Cardinality(S)
  BY FS_Subset, FS_CardinalityType

\* A limit that holds of a finite set holds of its subsets.
LEMMA FitsBelow ==
  ASSUME NEW S, Fits(S), NEW T, T \subseteq S
  PROVE  Fits(T)
<1>1. IsFiniteSet(T) /\ Cardinality(T) \in Nat /\ Cardinality(S) \in Nat /\ Cardinality(T) <= Cardinality(S)
  BY SubsetCounts DEF Fits
<1> QED BY <1>1, BoundAssumption DEF Fits

\* The image of a finite set has no more elements than the set.
LEMMA ImageCounts ==
  ASSUME NEW D, IsFiniteSet(D), NEW T, NEW f \in Surjection(D, T)
  PROVE  IsFiniteSet(T) /\ Cardinality(T) \in Nat /\ Cardinality(T) <= Cardinality(D)
  BY FS_Surjection, FS_CardinalityType

\* Disjoint finite sets are counted apart.
LEMMA UnionCounts ==
  ASSUME NEW S, IsFiniteSet(S), NEW T, IsFiniteSet(T)
  PROVE  /\ IsFiniteSet(S \cup T) /\ Cardinality(S \cup T) \in Nat
         /\ Cardinality(S) \in Nat /\ Cardinality(T) \in Nat
         /\ Cardinality(S \cup T) <= Cardinality(S) + Cardinality(T)
         /\ S \cap T = {} => Cardinality(S \cup T) = Cardinality(S) + Cardinality(T)
<1>1. /\ IsFiniteSet(S \cup T)
      /\ Cardinality(S \cup T) = Cardinality(S) + Cardinality(T) - Cardinality(S \cap T)
  BY FS_Union
<1>2. IsFiniteSet(S \cap T) /\ (S \cap T = {} => Cardinality(S \cap T) = 0)
  BY FS_Intersection, FS_EmptySet
<1>3. /\ Cardinality(S) \in Nat /\ Cardinality(T) \in Nat /\ Cardinality(S \cap T) \in Nat
      /\ Cardinality(S \cup T) \in Nat
  BY <1>1, <1>2, FS_CardinalityType
<1> QED BY <1>1, <1>2, <1>3

\* The checkpoints that a canvas G brings for the nodes D, under run r.
Brought(r, G, D) == {[run |-> r, node |-> n, id |-> G[n]] : n \in D}

\* There is one for each node at most.
LEMMA BroughtCounts ==
  ASSUME NEW r, NEW G, NEW D \in SUBSET Node
  PROVE  /\ IsFiniteSet(D) /\ IsFiniteSet(Brought(r, G, D))
         /\ Cardinality(D) \in Nat /\ Cardinality(Brought(r, G, D)) \in Nat
         /\ Cardinality(Brought(r, G, D)) <= Cardinality(D)
<1> DEFINE f == [n \in D |-> [run |-> r, node |-> n, id |-> G[n]]]
<1>1. IsFiniteSet(D) /\ Cardinality(D) \in Nat
  BY SubsetCounts, FiniteAssumption
<1>2. f \in Surjection(D, Brought(r, G, D))
  BY DEF Surjection, Brought
<1> HIDE DEF f
<1> QED BY <1>1, <1>2, ImageCounts

\* The keys of run r for the nodes D.
Keys(r, D) == {<<r, n>> : n \in D}

\* There is exactly one for each node.
LEMMA KeysCount ==
  ASSUME NEW r, NEW D \in SUBSET Node
  PROVE  IsFiniteSet(Keys(r, D)) /\ Cardinality(Keys(r, D)) = Cardinality(D)
<1> DEFINE f == [n \in D |-> <<r, n>>]
<1>1. IsFiniteSet(D)
  BY SubsetCounts, FiniteAssumption
<1>2. f \in [D -> Keys(r, D)] /\ \A a, b \in D : f[a] = f[b] => a = b
  BY DEF Keys
<1>3. \A k \in Keys(r, D) : \E n \in D : f[n] = k
  BY DEF Keys
<1> HIDE DEF f
<1>4. f \in Bijection(D, Keys(r, D))
  BY <1>2, <1>3 DEF Bijection, Injection, Surjection, IsInjective
<1> QED BY <1>1, <1>4, FS_Bijection DEF ExistsBijection

\* A save of a file that fits leaves one that fits (_persist).
LEMMA SavedFits ==
  ASSUME NEW st \in StoreState, Fits(st.recs), NEW R, Fits(R), NEW x \in Saved(st, R)
  PROVE  Fits(x.recs)
  BY SavedFacts DEF Fits

\* ensure_many counts the records, those it adds and the reservations before it saves.
LEMMA EnsuredFits ==
  ASSUME NEW st \in StoreState, st.ok, Fits(st.recs), NEW res, IsFiniteSet(res), NEW G \in Canvas,
         NEW x \in Ensured(st, res, G)
  PROVE  Fits(x.recs)
<1> DEFINE more == st.recs \cup Additions(st.recs, G)
           D == {m \in Carried(G) : ~Journaled(st.recs, m, G[m])}
<1>1. more \in SUBSET Record
  BY AdditionsFacts DEF StoreState
<1>2. D \in SUBSET Node /\ Additions(st.recs, G) = Brought(Seed, G, D)
  BY DEF Carried, Additions, Brought
<1> HIDE DEF D
<1>3. IsFiniteSet(more) /\ Cardinality(more) \in Nat
  BY <1>2, BroughtCounts, UnionCounts DEF Fits
<1>4. Cardinality(res) \in Nat
  BY FS_CardinalityType
<1>5. CASE x.recs = st.recs
  BY <1>5
<1> HIDE DEF more
<1>6. CASE x \in Saved(st, more) /\ HasRoom(more, res)
  <2>1. Fits(more)
    BY <1>1, <1>3, <1>4, <1>6, BoundAssumption DEF Fits, HasRoom
  <2> QED BY <1>6, <2>1, SavedFits
<1>7. \/ x = st \/ x = Refused(st) \/ x \in Unread(st)
      \/ x \in Saved(st, more) /\ HasRoom(more, res)
  BY DEF Ensured, more
<1> QED BY <1>5, <1>6, <1>7, RefusedFacts, UnreadFacts

\* set adds a record only where a reservation of another key leaves room for it.
LEMMA SetInRoom ==
  ASSUME NEW st \in StoreState, st.ok, NEW res, NEW r \in Run, NEW n \in Node, NEW id \in Id,
         NEW x \in SetIn(st, res, r, n, id)
  PROVE  \/ x.recs = st.recs \/ HasKey(st.recs, r, n)
         \/ ~(Cardinality(st.recs) + Cardinality(res \ {<<r, n>>}) >= MaxRecords)
<1> DEFINE R == Updated(st.recs, r, n, id)
<1>1. R \in SUBSET Record
  <2>1. st.recs \in SUBSET Record /\ [run |-> r, node |-> n, id |-> id] \in Record
    BY DEF StoreState, Record
  <2> QED BY <2>1 DEF Updated
<1>2. \/ x = st \/ x = Refused(st) \/ x \in Unread(st)
      \/ /\ x \in Saved(st, R) /\ ~Journaled(st.recs, n, id)
         /\ HasKey(st.recs, r, n) \/ ~(Cardinality(st.recs) + Cardinality(res \ {<<r, n>>}) >= MaxRecords)
  BY DEF SetIn, Updated
<1> HIDE DEF R
<1>3. x \in Saved(st, R) => x.recs \in {st.recs, R}
  BY <1>1, SavedFacts
<1> QED BY <1>2, <1>3, RefusedFacts, UnreadFacts DEF R

\* A known identity keeps its first record.
LEMMA SetInKnown ==
  ASSUME NEW st \in StoreState, NEW res, NEW r, NEW n, NEW id, NEW x \in SetIn(st, res, r, n, id),
         Journaled(st.recs, n, id)
  PROVE  x.recs = st.recs
<1>1. x = st \/ x = Refused(st) \/ x \in Unread(st)
  BY DEF SetIn
<1> QED BY <1>1, RefusedFacts, UnreadFacts

\* The bootstrap retry of admission keeps the limit.
LEMMA RebootedFits ==
  ASSUME TypeOK, NEW p \in Proc, IsFiniteSet(reservations[p]), Fits(records), NEW x \in Rebooted(p)
  PROVE  Fits(x.recs)
<1>1. /\ Store(p) \in StoreState /\ Store(p).recs = records /\ Store(p).ok /\ graph[p] \in Canvas
  BY StoreTyped DEF TypeOK
<1>2. CASE x = Store(p)
  BY <1>1, <1>2
<1>3. ASSUME NEW s \in Ensured(Store(p), reservations[p], graph[p]),
             NEW v \in IF s.ok THEN Verified(s) ELSE {s}, x = [v EXCEPT !.boot = ~v.ok]
      PROVE  Fits(x.recs)
  <2> DEFINE q == Store(p)
  <2>1. q \in StoreState /\ q.ok /\ Fits(q.recs) /\ s \in Ensured(q, reservations[p], graph[p])
    BY <1>1
  <2> HIDE DEF q
  <2>2. s \in StoreState /\ Fits(s.recs)
    BY <1>1, <2>1, EnsuredFacts, EnsuredFits
  <2>3. v \in StoreState /\ v.recs = s.recs
    BY <1>3, <2>2, VerifiedFacts
  <2>4. x.recs = v.recs
    BY <1>3, <2>3 DEF StoreState
  <2> QED BY <2>2, <2>3, <2>4
<1>4. \/ x = Store(p)
      \/ \E s \in Ensured(Store(p), reservations[p], graph[p]) :
           \E v \in IF s.ok THEN Verified(s) ELSE {s} : x = [v EXCEPT !.boot = ~v.ok]
  BY DEF Rebooted
<1> QED BY <1>2, <1>3, <1>4

\* The fence of a mutation keeps it as well.
LEMMA FencedFits ==
  ASSUME TypeOK, NEW p \in Proc, IsFiniteSet(reservations[p]), Fits(records), NEW x \in Fenced(p)
  PROVE  Fits(x.recs)
<1>1. /\ Store(p) \in StoreState /\ Store(p).recs = records /\ Store(p).ok /\ graph[p] \in Canvas
  BY StoreTyped DEF TypeOK
<1>2. PICK s \in Ensured(Store(p), reservations[p], graph[p]) :
        \/ x = s
        \/ s.ok /\ \E v \in Verified(s) : x = [v EXCEPT !.boot = ~v.ok, !.ok = TRUE]
  BY DEF Fenced
<1> DEFINE q == Store(p)
<1>3. q \in StoreState /\ q.ok /\ Fits(q.recs) /\ s \in Ensured(q, reservations[p], graph[p])
  BY <1>1, <1>2
<1> HIDE DEF q
<1>4. s \in StoreState /\ Fits(s.recs)
  BY <1>1, <1>3, EnsuredFacts, EnsuredFits
<1>5. ASSUME NEW v \in Verified(s), x = [v EXCEPT !.boot = ~v.ok, !.ok = TRUE]
      PROVE  x.recs = s.recs
  <2>1. v \in StoreState /\ v.recs = s.recs
    BY <1>4, VerifiedFacts
  <2> QED BY <1>5, <2>1 DEF StoreState
<1> QED BY <1>2, <1>4, <1>5

\* The nodes whose supplied ID the journal R lacks.
Unknown(R, pay) == {m \in Reruns(pay) : ~Journaled(R, m, pay[m])}

\* A run reserves one key per fresh node and per unknown ID (reserve, reserve_checkpoints).
LEMMA ReservedCounts ==
  ASSUME NEW R, NEW r, NEW pay
  PROVE  /\ Blanks(pay) \in SUBSET Node /\ Unknown(R, pay) \in SUBSET Node
         /\ Reserved(R, r, pay) = Keys(r, Blanks(pay) \cup Unknown(R, pay))
         /\ IsFiniteSet(Reserved(R, r, pay))
         /\ Cardinality(Blanks(pay)) \in Nat /\ Cardinality(Unknown(R, pay)) \in Nat
         /\ Cardinality(Reserved(R, r, pay)) = Cardinality(Blanks(pay)) + Cardinality(Unknown(R, pay))
<1>1. /\ Blanks(pay) \in SUBSET Node /\ Unknown(R, pay) \in SUBSET Node
      /\ Blanks(pay) \cap Unknown(R, pay) = {}
  BY ValuesAssumption DEF Blanks, Unknown, Reruns
<1>2. Reserved(R, r, pay) = Keys(r, Blanks(pay) \cup Unknown(R, pay))
  BY DEF Reserved, Keys, Unknown
<1>3. IsFiniteSet(Blanks(pay)) /\ IsFiniteSet(Unknown(R, pay))
  BY <1>1, SubsetCounts, FiniteAssumption
<1>4. /\ Cardinality(Blanks(pay)) \in Nat /\ Cardinality(Unknown(R, pay)) \in Nat
      /\ Cardinality(Blanks(pay) \cup Unknown(R, pay)) = Cardinality(Blanks(pay)) + Cardinality(Unknown(R, pay))
  BY <1>1, <1>3, UnionCounts
<1>5. /\ IsFiniteSet(Keys(r, Blanks(pay) \cup Unknown(R, pay)))
      /\ Cardinality(Keys(r, Blanks(pay) \cup Unknown(R, pay))) = Cardinality(Blanks(pay) \cup Unknown(R, pay))
  BY <1>1, KeysCount
<1> QED BY <1>1, <1>2, <1>4, <1>5

\* The checkpoints of the nodes D are among those of all the supplied IDs.
LEMMA CheckpointedBrings ==
  ASSUME NEW st \in StoreState, st.ok, NEW r \in Run, NEW pay, NEW D \in SUBSET Reruns(pay)
  PROVE  LET c == Checkpointed(st, r, pay, D) IN
         /\ c \in StoreState /\ c.ok /\ st.recs \subseteq c.recs
         /\ c.recs = st.recs \cup Brought(r, pay, D \cap Unknown(st.recs, pay))
         /\ \A y \in c.recs \ st.recs : y.run = r /\ y.node \in D
<1> DEFINE c == Checkpointed(st, r, pay, D)
           new == {[run |-> r, node |-> n, id |-> pay[n]] : n \in {m \in D : ~Journaled(st.recs, m, pay[m])}}
<1>1. new = Brought(r, pay, D \cap Unknown(st.recs, pay))
  <2>1. {m \in D : ~Journaled(st.recs, m, pay[m])} = D \cap Unknown(st.recs, pay)
    BY DEF Unknown
  <2> QED BY <2>1 DEF Brought
<1> HIDE DEF new
<1>2. c = [st EXCEPT !.recs = st.recs \cup new]
  BY DEF Checkpointed, new, StoreState
<1>3. c.recs = st.recs \cup new
  BY <1>2 DEF StoreState
<1>4. /\ c \in StoreState /\ c.ok /\ st.recs \subseteq c.recs
      /\ \A y \in c.recs \ st.recs : y.run = r /\ y.node \in D
  BY CheckpointedFacts
<1> QED BY <1>1, <1>3, <1>4

\* Whatever the registration of the supplied IDs leaves, it stays within what was reserved.
LEMMA RegisteredBelow ==
  ASSUME NEW st \in StoreState, st.ok, NEW res, NEW r \in Run, NEW pay,
         \A y \in st.recs : y.run # r, NEW x \in Registered(st, res, r, pay)
  PROVE  /\ x.recs \subseteq st.recs \cup Brought(r, pay, Unknown(st.recs, pay))
         /\ x.ok => Unknown(x.recs, pay) = {}
<1> DEFINE top == st.recs \cup Brought(r, pay, Unknown(st.recs, pay))
<1>1. CASE x = Checkpointed(st, r, pay, Reruns(pay))
  <2>1. Reruns(pay) \in SUBSET Reruns(pay) /\ Reruns(pay) \cap Unknown(st.recs, pay) = Unknown(st.recs, pay)
    BY DEF Unknown
  <2>2. x.recs = top
    <3> DEFINE D == Reruns(pay)
    <3>1. D \in SUBSET Reruns(pay) /\ D \cap Unknown(st.recs, pay) = Unknown(st.recs, pay)
      BY <2>1
    <3> HIDE DEF D
    <3>2. Checkpointed(st, r, pay, D).recs = st.recs \cup Brought(r, pay, D \cap Unknown(st.recs, pay))
      BY <3>1, CheckpointedBrings
    <3> QED BY <1>1, <3>1, <3>2 DEF D
  <2>3. \A m \in Reruns(pay) : Journaled(top, m, pay[m])
    <3> SUFFICES ASSUME NEW m \in Reruns(pay) PROVE Journaled(top, m, pay[m])
      OBVIOUS
    <3>1. CASE Journaled(st.recs, m, pay[m])
      BY <3>1 DEF Journaled
    <3>2. CASE ~Journaled(st.recs, m, pay[m])
      <4>1. [run |-> r, node |-> m, id |-> pay[m]] \in top
        BY <3>2 DEF Brought, Unknown
      <4> QED BY <4>1 DEF Journaled
    <3> QED BY <3>1, <3>2
  <2> QED BY <2>2, <2>3 DEF Unknown
<1>2. ASSUME NEW n \in Reruns(pay), NEW D \in SUBSET (Reruns(pay) \ {n}),
             NEW c, c = Checkpointed(st, r, pay, D),
             x \in SetIn(c, Unset(res, c.recs), r, n, pay[n])
      PROVE  x.recs \subseteq top
  <2>1. /\ c \in StoreState /\ c.ok /\ st.recs \subseteq c.recs
        /\ c.recs = st.recs \cup Brought(r, pay, D \cap Unknown(st.recs, pay))
        /\ \A y \in c.recs \ st.recs : y.run = r /\ y.node \in D
    <3>1. D \in SUBSET Reruns(pay)
      OBVIOUS
    <3> QED BY <1>2, <3>1, CheckpointedBrings
  <2>2. n \in Node /\ pay[n] \in Id /\ n \notin D
    BY DEF Reruns
  <2>3. c.recs \subseteq top
    BY <2>1 DEF Brought
  <2>4. \/ x.recs = c.recs
        \/ x.recs = Updated(c.recs, r, n, pay[n]) /\ ~Journaled(c.recs, n, pay[n])
    <3> DEFINE u == Unset(res, c.recs)
               id == pay[n]
    <3>1. x \in SetIn(c, u, r, n, id) /\ id \in Id
      BY <1>2, <2>2
    <3> HIDE DEF u, id
    <3>2. x.recs = c.recs \/ (x.recs = Updated(c.recs, r, n, id) /\ ~Journaled(c.recs, n, id))
      <4>1. x.recs \in {c.recs, Updated(c.recs, r, n, id)}
        BY <2>1, <2>2, <3>1, SetInFacts
      <4>2. Journaled(c.recs, n, id) => x.recs = c.recs
        BY <2>1, <3>1, SetInKnown
      <4> QED BY <4>1, <4>2
    <3> QED BY <3>2 DEF id
  <2>5. CASE x.recs = Updated(c.recs, r, n, pay[n]) /\ ~Journaled(c.recs, n, pay[n])
    <3>1. n \in Unknown(st.recs, pay)
      BY <2>1, <2>5 DEF Journaled, Unknown
    <3>2. [run |-> r, node |-> n, id |-> pay[n]] \in top
      BY <3>1 DEF Brought
    <3> HIDE DEF top
    <3> QED BY <2>3, <2>5, <3>2 DEF Updated
  <2> QED BY <2>3, <2>4, <2>5
<1>3. \/ x = Checkpointed(st, r, pay, Reruns(pay))
      \/ /\ ~x.ok
         /\ \E n \in Reruns(pay) : \E D \in SUBSET (Reruns(pay) \ {n}) :
              \E c : /\ c = Checkpointed(st, r, pay, D)
                     /\ x \in SetIn(c, Unset(res, c.recs), r, n, pay[n])
  BY DEF Registered
<1> QED BY <1>1, <1>2, <1>3

\* A run is admitted only with room for every checkpoint it can still publish, and what a
\* refused admission saved is within the limit.
LEMMA PreparedFits ==
  ASSUME TypeOK, NEW p \in Proc, NEW r \in Run, NEW pay, \A y \in records : y.run # r,
         reservations[p] = {}, Fits(records), NEW x \in Prepared(p, r, pay)
  PROVE  /\ Fits(x.recs)
         /\ x.ok => /\ Reserved(x.recs, r, pay) = Keys(r, Blanks(pay))
                    /\ Cardinality(x.recs) + Cardinality(Keys(r, Blanks(pay))) <= MaxRecords
<1>1. PICK s \in Rebooted(p) :
        \/ x = s /\ ~s.ok
        \/ x = Refused(s)
        \/ x \in Unread(s)
        \/ \E u \in Unread(s) : x = [u EXCEPT !.err = TRUE]
        \/ /\ s.ok /\ x \in Registered(s, Reserved(s.recs, r, pay), r, pay)
           /\ HasRoom(s.recs, reservations[p] \cup Reserved(s.recs, r, pay))
  BY DEF Prepared
<1>2. s \in StoreState /\ \A y \in s.recs \ records : y.run = Seed
  BY RebootedFacts DEF Grown
<1>3. IsFiniteSet(reservations[p])
  BY FS_EmptySet
<1>4. Fits(s.recs)
  BY <1>3, RebootedFits
<1>5. CASE x = s /\ ~s.ok
  BY <1>4, <1>5
<1>6. CASE x = Refused(s)
  BY <1>2, <1>4, <1>6, RefusedFacts
<1>7. CASE x \in Unread(s)
  BY <1>2, <1>4, <1>7, UnreadFacts
<1>8. ASSUME NEW u \in Unread(s), x = [u EXCEPT !.err = TRUE]
      PROVE  x.recs = s.recs /\ ~x.ok
  <2>1. u \in StoreState /\ u.recs = s.recs /\ ~u.ok
    BY <1>2, UnreadFacts
  <2> QED BY <1>8, <2>1 DEF StoreState
<1>9. CASE /\ s.ok /\ x \in Registered(s, Reserved(s.recs, r, pay), r, pay)
           /\ HasRoom(s.recs, reservations[p] \cup Reserved(s.recs, r, pay))
  <2> DEFINE U == Unknown(s.recs, pay)
             new == Brought(r, pay, U)
             B == Blanks(pay)
  <2>1. \A y \in s.recs : y.run # r
    BY <1>2, NamesAssumption
  <2>2. x.recs \subseteq s.recs \cup new /\ (x.ok => Unknown(x.recs, pay) = {})
    BY <1>2, <1>9, <2>1, RegisteredBelow
  <2>3. /\ B \in SUBSET Node /\ U \in SUBSET Node /\ Cardinality(B) \in Nat /\ Cardinality(U) \in Nat
        /\ Cardinality(Reserved(s.recs, r, pay)) = Cardinality(B) + Cardinality(U)
    BY ReservedCounts
  <2>4. Reserved(x.recs, r, pay) = Keys(r, B \cup Unknown(x.recs, pay))
    BY ReservedCounts
  <2>5. reservations[p] \cup Reserved(s.recs, r, pay) = Reserved(s.recs, r, pay)
    OBVIOUS
  <2>6. Cardinality(Keys(r, B)) = Cardinality(B)
    BY <2>3, KeysCount
  <2>7. /\ IsFiniteSet(new) /\ Cardinality(new) \in Nat /\ Cardinality(new) <= Cardinality(U)
    BY <2>3, BroughtCounts
  <2> HIDE DEF U, new, B
  <2>8. /\ IsFiniteSet(s.recs \cup new) /\ Cardinality(s.recs \cup new) \in Nat /\ Cardinality(s.recs) \in Nat
        /\ Cardinality(s.recs \cup new) <= Cardinality(s.recs) + Cardinality(new)
    BY <1>4, <2>7, UnionCounts DEF Fits
  <2>9. /\ IsFiniteSet(x.recs) /\ Cardinality(x.recs) \in Nat
        /\ Cardinality(x.recs) <= Cardinality(s.recs \cup new)
    BY <2>2, <2>8, SubsetCounts
  <2>10. Cardinality(s.recs) + (Cardinality(B) + Cardinality(U)) <= MaxRecords
    BY <1>9, <2>3, <2>5, <2>8, BoundAssumption DEF HasRoom
  <2>11. Cardinality(x.recs) + Cardinality(B) <= MaxRecords
    BY <2>3, <2>7, <2>8, <2>9, <2>10, BoundAssumption
  <2>12. x.recs \in SUBSET Record
    BY PreparedFacts DEF Grown, StoreState
  <2>13. Fits(x.recs)
    BY <2>3, <2>9, <2>11, <2>12, BoundAssumption DEF Fits
  <2>14. x.ok => Reserved(x.recs, r, pay) = Keys(r, B)
    BY <2>2, <2>4
  <2> QED BY <2>6, <2>11, <2>13, <2>14 DEF B
<1> QED BY <1>1, <1>4, <1>5, <1>6, <1>7, <1>8, <1>9

\* A process has room for what it reserved; only a run has reservations, all under its own
\* name, one for each fresh node that has yet to publish its checkpoint.
RoomAt(p) ==
  /\ IsFiniteSet(reservations[p])
  /\ \A k \in reservations[p] : k[1] = runOf[p]
  /\ runOf[p] \notin Run => reservations[p] = {}
  /\ Cardinality(records) + Cardinality(Unset(reservations[p], records)) <= MaxRecords
  /\ \A n \in fresh[p] : stage[p][n] \in {"ready", "sent"} => <<runOf[p], n>> \in reservations[p]

\* The candidate of a commit is in the journal with every ID it shows.
CommitIsSeeded == \A p \in Proc : commit[p] # NoCommit => Seeded(records, commit[p].candidate)

RoomInv == Fits(records) /\ CommitIsSeeded /\ \A p \in Proc : RoomAt(p)

\* A process without reservations needs no room.
LEMMA NoReservation ==
  ASSUME NEW R, Fits(R)
  PROVE  /\ IsFiniteSet({}) /\ Unset({}, R) = {}
         /\ Cardinality(R) + Cardinality(Unset({}, R)) <= MaxRecords
<1>1. Unset({}, R) = {}
  BY DEF Unset
<1>2. IsFiniteSet({}) /\ Cardinality({}) = 0
  BY FS_EmptySet
<1>3. Cardinality(R) \in Nat
  BY FS_CardinalityType DEF Fits
<1> QED BY <1>1, <1>2, <1>3 DEF Fits

\* A process that has no run keeps its room whatever the others save, within the limit.
LEMMA IdleRoom ==
  ASSUME NEW q \in Proc, RoomAt(q), runOf[q] \notin Run, fresh'[q] = {}, Fits(records'),
         reservations'[q] \subseteq reservations[q]
  PROVE  RoomAt(q)'
<1>1. reservations'[q] = {}
  BY DEF RoomAt
<1> QED BY <1>1, NoReservation DEF RoomAt

\* A step that saves no record and reserves nothing keeps the room of a process whose run,
\* leases and stages it leaves alone.
LEMMA SameRoom ==
  ASSUME NEW q \in Proc, RoomAt(q), records' = records, reservations'[q] = reservations[q],
         runOf'[q] = runOf[q], fresh'[q] = fresh[q],
         \A n \in fresh[q] : stage'[q][n] \in {"ready", "sent"} => stage[q][n] \in {"ready", "sent"}
  PROVE  RoomAt(q)'
<1>1. Unset(reservations[q], records)' = Unset(reservations[q], records)
  BY DEF Unset
<1> QED BY <1>1 DEF RoomAt

\* The first state: an empty journal and no run.
LEMMA InitRoom == Init => RoomInv
<1> SUFFICES ASSUME Init PROVE RoomInv
  OBVIOUS
<1>1. Fits(records)
  BY FS_EmptySet, BoundAssumption DEF Init, Fits
<1>2. \A p \in Proc : RoomAt(p)
  BY <1>1, NoReservation DEF Init, RoomAt
<1>3. CommitIsSeeded
  BY DEF Init, CommitIsSeeded
<1> QED BY <1>1, <1>2, <1>3 DEF RoomInv

-----------------------------------------------------------------------------
(* Room: one lemma per kind of step.                                       *)

\* A step of a handler that publishes nothing.
LEMMA QuietRoom ==
  ASSUME TypeOK, RoomInv, NEW p \in Proc, NEW n \in Node,
         Post(p, n) \/ Denied(p, n) \/ Ambiguous(p, n) \/ GiveUp(p, n)
  PROVE  RoomInv'
<1>1. /\ UNCHANGED <<records, reservations, runOf, fresh, commit>>
      /\ \/ Move(p, n, "ready", "sent") \/ Move(p, n, "sent", "done")
         \/ Move(p, n, "ready", "done") \/ Move(p, n, "polling", "done")
  BY DEF Post, Denied, Ambiguous, GiveUp, guard
<1>2. \A q \in Proc : \A m \in Node :
        stage'[q][m] \in {"ready", "sent"} => stage[q][m] \in {"ready", "sent"}
  <2>1. {"sent", "done"} \subseteq Stages
    BY DEF Stages
  <2>2. /\ \A q \in Proc \ {p} : stage'[q] = stage[q]
        /\ \A m \in Node \ {n} : stage'[p][m] = stage[p][m]
        /\ stage'[p][n] = "done" \/ (stage'[p][n] = "sent" /\ stage[p][n] = "ready")
    BY <1>1, <2>1, MoveFacts
  <2> QED BY <2>2
<1>3. \A q \in Proc : fresh[q] \subseteq Node
  BY DEF TypeOK
<1>4. \A q \in Proc : RoomAt(q)'
  BY <1>1, <1>2, <1>3, SameRoom DEF RoomInv
<1> QED BY <1>1, <1>4 DEF RoomInv, CommitIsSeeded

\* An unlock, an edit of the canvas without an ID, or no step.
LEMMA AsideRoom ==
  ASSUME RoomInv, UNCHANGED <<records, reservations, runOf, fresh, stage, commit>>
  PROVE  RoomInv'
<1>1. \A q \in Proc : RoomAt(q)'
  BY SameRoom DEF RoomInv
<1> QED BY <1>1 DEF RoomInv, CommitIsSeeded

\* The end of a run, of a commit or of a process: nothing was added, and its reservations go.
LEMMA EndingRoom ==
  ASSUME RoomInv, NEW p \in Proc, records' \subseteq records, reservations'[p] = {}, fresh'[p] = {},
         commit'[p] = NoCommit,
         \A q \in Proc \ {p} : /\ runOf'[q] = runOf[q] /\ reservations'[q] = reservations[q]
                              /\ fresh'[q] = fresh[q] /\ stage'[q] = stage[q] /\ commit'[q] = commit[q],
         \/ records' = records
         \/ \A q \in Proc \ {p} : runOf[q] \notin Run /\ fresh[q] = {} /\ commit[q] = NoCommit
  PROVE  RoomInv'
<1>1. Fits(records')
  BY FitsBelow DEF RoomInv
<1>2. RoomAt(p)'
  BY <1>1, NoReservation DEF RoomAt
<1>3. ASSUME NEW q \in Proc \ {p} PROVE RoomAt(q)'
  <2>1. RoomAt(q)
    BY DEF RoomInv
  <2>2. CASE records' = records
    BY <2>1, <2>2, SameRoom
  <2>3. CASE runOf[q] \notin Run /\ fresh[q] = {}
    BY <1>1, <2>1, <2>3, IdleRoom
  <2> QED BY <2>2, <2>3
<1>4. CommitIsSeeded'
  BY DEF RoomInv, CommitIsSeeded
<1> QED BY <1>1, <1>2, <1>3, <1>4 DEF RoomInv

\* Release, Crash, SaveCanvas and RollBack.
LEMMA EndRoom ==
  ASSUME RecoveryInv, RoomInv, NEW p \in Proc, Release(p) \/ Crash(p) \/ SaveCanvas(p) \/ RollBack(p)
  PROVE  RoomInv'
<1>1. TypeOK /\ LifecycleIsOwned /\ RoomAt(p)
  BY DEF RecoveryInv, RoomInv
<1>2. CASE Release(p)
  <2>1. reservations'[p] = {}
    BY <1>1, <1>2 DEF Release, TypeOK, RoomAt
  <2>2. commit[p] = NoCommit
    BY <1>1, <1>2, NamesAssumption DEF Release, LifecycleIsOwned
  <2> QED BY <1>1, <1>2, <2>1, <2>2, EndingRoom DEF Release, TypeOK
<1>3. CASE Crash(p)
  BY <1>1, <1>3, EndingRoom DEF Crash, TypeOK
<1>4. CASE SaveCanvas(p) \/ RollBack(p)
  <2>1. /\ commit[p] # NoCommit /\ Unfence(p)
        /\ UNCHANGED <<stage, fresh, reservations>>
        /\ runOf' = [runOf EXCEPT ![p] = NoRun] /\ commit' = [commit EXCEPT ![p] = NoCommit]
    BY <1>4 DEF SaveCanvas, RollBack, Unfence
  <2>2. runOf[p] = Mutation
    BY <1>1, <2>1 DEF LifecycleIsOwned
  <2>3. fresh[p] = {} /\ reservations[p] = {}
    BY <1>1, <2>2, NamesAssumption DEF LifecycleIsOwned, RoomAt
  <2>4. \A q \in Proc \ {p} : runOf[q] = NoRun /\ fresh[q] = {} /\ commit[q] = NoCommit
    BY <2>2, NamesAssumption, OwnerFacts
  <2>5. records' \subseteq records
    <3>1. CASE SaveCanvas(p)
      BY <3>1 DEF SaveCanvas
    <3>2. CASE RollBack(p)
      <4> DEFINE st == [Store(p) EXCEPT !.bad = @ + 1]
                 R == commit[p].additions
      <4>1. PICK s \in IF R = {} THEN {st} ELSE Removed(st, R) : Leave(p, s)
        BY <3>2 DEF RollBack
      <4>2. st \in StoreState /\ st.recs = records
        BY <1>1, StoreTyped DEF StoreState
      <4> HIDE DEF st, R
      <4>3. s.recs \in {records, records \ R}
        BY <4>1, <4>2, RemovedFacts
      <4> QED BY <4>1, <4>3 DEF Leave
    <3> QED BY <1>4, <3>1, <3>2
  <2> QED BY <1>1, <2>1, <2>3, <2>4, <2>5, NamesAssumption, EndingRoom DEF TypeOK
<1> QED BY <1>2, <1>3, <1>4

\* A step that leaves the lifecycle free keeps room if it keeps the limit.
LEMMA FreeRoom ==
  ASSUME RecoveryInv, RoomInv, lifecycle = NoProc, Fits(records'), UNCHANGED <<fresh, commit, reservations>>
  PROVE  RoomInv'
<1>1. \A q \in Proc : runOf[q] = NoRun /\ fresh[q] = {} /\ commit[q] = NoCommit
  BY FreeFacts
<1>2. \A q \in Proc : RoomAt(q)'
  BY <1>1, NamesAssumption, IdleRoom DEF RoomInv
<1> QED BY <1>1, <1>2 DEF RoomInv, CommitIsSeeded

\* What an idle process finds: no reservation, and a journal that fits.
LEMMA IdleFacts ==
  ASSUME RecoveryInv, RoomInv, lifecycle = NoProc, NEW p \in Proc
  PROVE  reservations[p] = {} /\ IsFiniteSet(reservations[p]) /\ Fits(records)
<1>1. runOf[p] = NoRun
  BY FreeFacts
<1> QED BY <1>1, NamesAssumption DEF RoomInv, RoomAt

\* A boot, a commit that begins, and a Forget: the fence and the seeding keep the limit.
LEMMA FencedRoom ==
  ASSUME RecoveryInv, RoomInv, NEW p \in Proc,
         Boot(p) \/ BeginCommit(p) \/ \E x \in Record : Forget(p, x)
  PROVE  RoomInv'
<1>1. TypeOK
  BY DEF RecoveryInv
<1>2. Store(p) \in StoreState /\ Store(p).recs = records /\ Store(p).ok
  BY <1>1, StoreTyped
<1>3. ASSUME lifecycle = NoProc, NEW st \in Fenced(p)
      PROVE  st \in StoreState /\ Fits(st.recs)
  <2>1. IsFiniteSet(reservations[p]) /\ Fits(records)
    BY <1>3, IdleFacts
  <2> QED BY <1>1, <2>1, FencedFits, FencedFacts DEF Grown
<1>4. CASE Boot(p)
  <2>1. UNCHANGED <<runOf, stage, fresh, reservations, commit>>
    BY <1>4 DEF Boot
  <2>2. CASE records' = records
    BY <2>1, <2>2, AsideRoom
  <2>3. ASSUME lifecycle = NoProc, NEW st \in Ensured(Store(p), {}, graphFile),
               Leave(p, [st EXCEPT !.boot = ~st.ok])
        PROVE  RoomInv'
    <3> DEFINE q == Store(p)
    <3>1. q \in StoreState /\ q.ok /\ Fits(q.recs) /\ st \in Ensured(q, {}, graphFile) /\ graphFile \in Canvas
      BY <1>1, <1>2, <2>3 DEF RoomInv, TypeOK
    <3> HIDE DEF q
    <3>2. st \in StoreState /\ Fits(st.recs)
      BY <3>1, EnsuredFacts, EnsuredFits, FS_EmptySet
    <3>3. records' = st.recs
      BY <2>3, <3>2 DEF Leave, StoreState
    <3> QED BY <2>1, <2>3, <3>2, <3>3, FreeRoom
  <2> QED BY <1>4, <2>2, <2>3 DEF Boot
<1>5. CASE BeginCommit(p)
  <2>1. lifecycle = NoProc /\ UNCHANGED <<stage, fresh, reservations>>
    BY <1>5 DEF BeginCommit, Fence
  <2>2. PICK st \in Fenced(p) :
          \/ Leave(p, st) /\ UNCHANGED <<runOf, commit>>
          \/ /\ st.ok
             /\ \E C \in Edited(p) \cup Replaced(p, st) : \E s \in Ensured(st, reservations[p], C) :
                  /\ Leave(p, s)
                  /\ \/ UNCHANGED <<runOf, commit>>
                     \/ /\ s.ok /\ runOf' = [runOf EXCEPT ![p] = Mutation]
                        /\ commit' = [commit EXCEPT ![p] = [candidate |-> C, additions |-> s.recs \ st.recs]]
    BY <1>5 DEF BeginCommit
  <2>3. st \in StoreState /\ Fits(st.recs)
    BY <1>3, <2>1
  <2>4. CASE Leave(p, st) /\ UNCHANGED <<runOf, commit>>
    BY <2>1, <2>3, <2>4, FreeRoom DEF Leave
  <2>5. ASSUME st.ok, NEW C \in Edited(p) \cup Replaced(p, st), NEW s \in Ensured(st, reservations[p], C),
               Leave(p, s),
               \/ UNCHANGED <<runOf, commit>>
               \/ /\ s.ok /\ runOf' = [runOf EXCEPT ![p] = Mutation]
                  /\ commit' = [commit EXCEPT ![p] = [candidate |-> C, additions |-> s.recs \ st.recs]]
        PROVE  RoomInv'
    <3>1. C \in Canvas
      <4>1. graph[p] \in Canvas /\ Issued \subseteq Id
        BY <1>1, ValuesAssumption DEF TypeOK, Issued
      <4>2. Edited(p) \subseteq Canvas
        BY <4>1 DEF Edited, Canvas
      <4>3. Replaced(p, st) \subseteq Canvas
        BY <4>1 DEF Replaced, Canvas
      <4> QED BY <2>5, <4>2, <4>3
    <3>2. IsFiniteSet(reservations[p])
      BY <2>1, IdleFacts
    <3>3. Fits(s.recs) /\ (s.ok => Seeded(s.recs, C)) /\ records' = s.recs
      BY <2>3, <2>5, <3>1, <3>2, EnsuredFacts, EnsuredFits DEF Leave
    <3>4. CASE UNCHANGED <<runOf, commit>>
      BY <2>1, <3>3, <3>4, FreeRoom
    <3>5. CASE /\ s.ok
               /\ commit' = [commit EXCEPT ![p] = [candidate |-> C, additions |-> s.recs \ st.recs]]
      <4>1. \A q \in Proc : runOf[q] = NoRun /\ fresh[q] = {} /\ commit[q] = NoCommit
        BY <2>1, FreeFacts
      <4>2. \A q \in Proc : RoomAt(q)'
        BY <2>1, <3>3, <4>1, NamesAssumption, IdleRoom DEF RoomInv
      <4>3. CommitIsSeeded'
        BY <1>1, <3>3, <3>5, <4>1 DEF CommitIsSeeded, TypeOK
      <4> QED BY <3>3, <4>2, <4>3 DEF RoomInv
    <3> QED BY <2>5, <3>4, <3>5
  <2> QED BY <2>2, <2>4, <2>5
<1>6. ASSUME NEW x \in Record, Forget(p, x) PROVE RoomInv'
  <2>1. lifecycle = NoProc /\ UNCHANGED <<fresh, commit, reservations>>
    BY <1>6 DEF Forget, Fence
  <2>2. PICK st \in Fenced(p) : Leave(p, st) \/ \E s \in Removed(st, {x}) : Leave(p, s)
    BY <1>6 DEF Forget
  <2>3. st \in StoreState /\ Fits(st.recs)
    BY <1>3, <2>1
  <2>4. records' \subseteq st.recs
    BY <2>2, <2>3, RemovedFacts DEF Leave
  <2> QED BY <2>1, <2>3, <2>4, FitsBelow, FreeRoom
<1> QED BY <1>4, <1>5, <1>6

\* A checkpoint takes the room that was reserved for it: a new record replaces its own key's,
\* or was one reservation of those the limit counts.
LEMMA CheckpointRoom ==
  ASSUME NEW R, Fits(R), NEW S \in SUBSET (Run \X Node), IsFiniteSet(S),
         Cardinality(R) + Cardinality(Unset(S, R)) <= MaxRecords,
         NEW r \in Run, NEW n \in Node, NEW id \in Id, NEW W, W = Updated(R, r, n, id),
         HasKey(R, r, n) \/ ~(Cardinality(R) + Cardinality(S \ {<<r, n>>}) >= MaxRecords)
  PROVE  Fits(W) /\ Cardinality(W) + Cardinality(Unset(S, W)) <= MaxRecords
<1> DEFINE new == [run |-> r, node |-> n, id |-> id]
           rest == {y \in R : ~(y.run = r /\ y.node = n)}
<1>1. new \in Record /\ new.run = r /\ new.node = n
  BY DEF Record
<1>2. W = rest \cup {new} /\ rest \subseteq R
  BY DEF Updated
<1>3. W \in SUBSET Record /\ HasKey(W, r, n)
  BY <1>1, <1>2 DEF Fits, HasKey
<1>4. /\ IsFiniteSet(R) /\ Cardinality(R) \in Nat /\ IsFiniteSet(rest) /\ Cardinality(rest) \in Nat
      /\ Cardinality(rest) <= Cardinality(R)
  BY <1>2, SubsetCounts DEF Fits
<1>5. /\ IsFiniteSet(W) /\ Cardinality(W) \in Nat /\ Cardinality(W) <= Cardinality(rest) + 1
  <2> HIDE DEF new, rest
  <2>1. IsFiniteSet(W) /\ Cardinality(W) = IF new \in rest THEN Cardinality(rest) ELSE Cardinality(rest) + 1
    BY <1>2, <1>4, FS_AddElement
  <2> QED BY <1>4, <2>1
<1>6. /\ Unset(S, W) \subseteq S \ {<<r, n>>} /\ Unset(S, W) \subseteq Unset(S, R)
  <2>1. ASSUME NEW k \in S, ~HasKey(W, k[1], k[2])
        PROVE  k # <<r, n>> /\ ~HasKey(R, k[1], k[2])
    <3>1. k # <<r, n>>
      BY <1>3, <2>1
    <3>2. ASSUME NEW y \in R, y.run = k[1], y.node = k[2] PROVE FALSE
      <4>1. y \in rest \/ (k[1] = r /\ k[2] = n)
        BY <3>2
      <4>2. k = <<k[1], k[2]>>
        BY <2>1
      <4> QED BY <1>2, <2>1, <3>1, <3>2, <4>1, <4>2 DEF HasKey
    <3> QED BY <3>1, <3>2 DEF HasKey
  <2> QED BY <2>1 DEF Unset
<1>7. Unset(S, R) \subseteq S /\ S \ {<<r, n>>} \subseteq S
  BY DEF Unset
<1>8. /\ IsFiniteSet(Unset(S, R)) /\ IsFiniteSet(S \ {<<r, n>>})
      /\ Cardinality(Unset(S, R)) \in Nat /\ Cardinality(S \ {<<r, n>>}) \in Nat
  BY <1>7, SubsetCounts
<1>9. /\ Cardinality(Unset(S, W)) \in Nat
      /\ Cardinality(Unset(S, W)) <= Cardinality(Unset(S, R))
      /\ Cardinality(Unset(S, W)) <= Cardinality(S \ {<<r, n>>})
  BY <1>6, <1>8, SubsetCounts
<1> HIDE DEF new, rest
<1>10. Cardinality(W) + Cardinality(Unset(S, W)) <= MaxRecords
  <2>1. CASE HasKey(R, r, n)
    <3>1. PICK y \in R : y.run = r /\ y.node = n
      BY <2>1 DEF HasKey
    <3>2. rest \subseteq R \ {y}
      BY <3>1 DEF rest
    <3>3. /\ IsFiniteSet(R \ {y}) /\ Cardinality(R \ {y}) = Cardinality(R) - 1
      BY <1>4, <3>1, FS_RemoveElement
    <3>4. Cardinality(rest) <= Cardinality(R) - 1
      BY <3>2, <3>3, SubsetCounts
    <3> QED BY <1>4, <1>5, <1>8, <1>9, <3>4, BoundAssumption
  <2>2. CASE ~(Cardinality(R) + Cardinality(S \ {<<r, n>>}) >= MaxRecords)
    BY <1>4, <1>5, <1>8, <1>9, <2>2, BoundAssumption
  <2> QED BY <2>1, <2>2
<1>11. Fits(W)
  BY <1>3, <1>5, <1>9, <1>10, BoundAssumption DEF Fits
<1> QED BY <1>10, <1>11

\* A handler that publishes the ID it works with.
LEMMA PublishRoom ==
  ASSUME RecoveryInv, RoomInv, NEW p \in Proc, NEW n \in Node, Accepted(p, n) \/ Landed(p, n)
  PROVE  RoomInv'
<1>1. TypeOK /\ IdentAt(p) /\ LifecycleIsOwned /\ RoomAt(p) /\ Fits(records)
  BY DEF RecoveryInv, IdentIsKnown, RoomInv
<1>2. UNCHANGED <<runOf, fresh, commit>>
  BY DEF Accepted, Landed
<1>3. PICK from \in {"ready", "sent", "polling"}, to \in {"polling", "done"}, id \in Id :
        Move(p, n, from, to) /\ Publish(p, n, id)
  <2>1. CASE Accepted(p, n)
    <3>1. PICK from \in {"ready", "sent"}, to \in {"polling", "done"} :
            Move(p, n, from, to) /\ (from = "ready" => n \notin fresh[p])
      BY <2>1 DEF Accepted
    <3>2. ident[p][n] \in Id /\ Publish(p, n, ident[p][n])
      BY <1>1, <2>1, <3>1 DEF IdentAt, Move, Accepted
    <3> QED BY <3>1, <3>2
  <2>2. CASE Landed(p, n)
    <3> DEFINE id == <<ident[p][n][1], "world">>
    <3>1. ident[p][n] \in Id /\ Publish(p, n, id) /\ Move(p, n, "polling", "done")
      BY <1>1, <2>2 DEF IdentAt, Move, Landed
    <3>2. id \in Id
      BY <3>1 DEF Id
    <3> QED BY <3>1, <3>2
  <2> QED BY <2>1, <2>2
<1>4. /\ runOf[p] \in Run /\ \A q \in Proc \ {p} : stage'[q] = stage[q]
      /\ stage'[p][n] \notin {"ready", "sent"} /\ \A m \in Node \ {n} : stage'[p][m] = stage[p][m]
  <2>1. to \in Stages
    BY DEF Stages
  <2> QED BY <1>1, <1>3, <2>1, MoveFacts
<1>5. PICK st \in SetIn(Store(p), reservations[p], runOf[p], n, id) :
        /\ records' = st.recs
        /\ reservations' = reservations \/ reservations' = [reservations EXCEPT ![p] = @ \ {<<runOf[p], n>>}]
  <2>1. PICK st \in SetIn(Store(p), reservations[p], runOf[p], n, id), saved \in BOOLEAN :
          /\ Leave(p, [st EXCEPT !.bad = IF ~saved /\ graph[p][n] # id THEN @ + 1 ELSE @])
          /\ reservations' = IF st.ok THEN [reservations EXCEPT ![p] = @ \ {<<runOf[p], n>>}] ELSE reservations
    BY <1>3 DEF Publish
  <2> DEFINE q == Store(p)
  <2>2. /\ st \in SetIn(q, reservations[p], runOf[p], n, id) /\ q \in StoreState /\ q.ok
    BY <1>1, <2>1, StoreTyped
  <2> HIDE DEF q
  <2>3. st \in StoreState
    BY <1>3, <1>4, <2>2, SetInFacts
  <2>4. records' = st.recs
    BY <2>1, <2>3 DEF Leave, StoreState
  <2> QED BY <2>1, <2>4
<1> DEFINE S == reservations[p]
           T == reservations'[p]
           r == runOf[p]
<1>6. /\ S \in SUBSET (Run \X Node) /\ IsFiniteSet(S) /\ T \subseteq S /\ S \ {<<r, n>>} \subseteq T
      /\ \A q \in Proc \ {p} : reservations'[q] = reservations[q]
      /\ Cardinality(records) + Cardinality(Unset(S, records)) <= MaxRecords
  BY <1>1, <1>5 DEF TypeOK, RoomAt
<1> HIDE DEF S, T, r
<1>7. Fits(records') /\ Cardinality(records') + Cardinality(Unset(S, records')) <= MaxRecords
  <2>1. CASE records' = records
    BY <1>1, <1>6, <2>1
  <2>2. CASE records' # records
    <3> DEFINE q == Store(p)
    <3>1. q \in StoreState /\ q.ok /\ q.recs = records /\ st \in SetIn(q, S, r, n, id) /\ r \in Run
      BY <1>1, <1>4, <1>5, StoreTyped DEF S, r
    <3> HIDE DEF q
    <3>2. st.recs \in {records, Updated(records, r, n, id)}
      BY <1>3, <3>1, SetInFacts
    <3>3. \/ st.recs = records \/ HasKey(records, r, n)
          \/ ~(Cardinality(records) + Cardinality(S \ {<<r, n>>}) >= MaxRecords)
      BY <1>3, <3>1, SetInRoom
    <3> QED BY <1>1, <1>3, <1>5, <1>6, <2>2, <3>1, <3>2, <3>3, CheckpointRoom
  <2> QED BY <2>1, <2>2
<1>8. /\ IsFiniteSet(T) /\ Cardinality(Unset(T, records')) \in Nat /\ Cardinality(Unset(S, records')) \in Nat
      /\ Cardinality(Unset(T, records')) <= Cardinality(Unset(S, records'))
  <2>1. Unset(T, records') \subseteq Unset(S, records') /\ Unset(S, records') \subseteq S
    BY <1>6 DEF Unset
  <2>2. IsFiniteSet(Unset(S, records'))
    BY <1>6, <2>1, SubsetCounts
  <2> QED BY <1>6, <2>1, <2>2, SubsetCounts
<1>9. Cardinality(records') \in Nat
  BY <1>7, FS_CardinalityType DEF Fits
<1>10. Cardinality(records') + Cardinality(Unset(T, records')) <= MaxRecords
  BY <1>7, <1>8, <1>9, BoundAssumption
<1>11. RoomAt(p)'
  <2>1. \A k \in T : k[1] = r
    BY <1>1, <1>6 DEF RoomAt, S, r
  <2>2. \A m \in fresh[p] : stage'[p][m] \in {"ready", "sent"} => <<r, m>> \in T
    <3> SUFFICES ASSUME NEW m \in fresh[p], stage'[p][m] \in {"ready", "sent"} PROVE <<r, m>> \in T
      OBVIOUS
    <3>1. m \in Node /\ m # n
      BY <1>1, <1>4 DEF TypeOK
    <3>2. <<r, m>> \in S
      BY <1>1, <1>4, <3>1 DEF RoomAt, S, r
    <3> QED BY <1>6, <3>1, <3>2
  <2>3. Unset(reservations[p], records)' = Unset(T, records')
    BY DEF Unset, T
  <2> QED BY <1>2, <1>4, <1>8, <1>10, <2>1, <2>2, <2>3 DEF RoomAt, T, r
<1>12. \A q \in Proc \ {p} : RoomAt(q)'
  <2>1. runOf[p] # NoRun
    BY <1>4, NamesAssumption
  <2>2. \A q \in Proc \ {p} : runOf[q] \notin Run /\ fresh[q] = {}
    BY <2>1, NamesAssumption, OwnerFacts
  <2> QED BY <1>2, <1>6, <1>7, <2>2, IdleRoom DEF RoomInv
<1>13. CommitIsSeeded'
  <2>1. \A q \in Proc : commit[q] = NoCommit
    BY <1>1, <1>4, NamesAssumption, OwnerFacts DEF LifecycleIsOwned
  <2> QED BY <1>2, <2>1 DEF CommitIsSeeded
<1> QED BY <1>7, <1>11, <1>12, <1>13 DEF RoomInv

\* An admitted run has room for every checkpoint of its fresh nodes; a refused one keeps
\* the limit (reserve, reserve_checkpoints).
LEMMA ClaimRoom ==
  ASSUME RecoveryInv, RoomInv, NEW p \in Proc, NEW r \in Run, NEW pay, Claim(p, r, pay)
  PROVE  RoomInv'
<1>1. TypeOK /\ RecordsAreOfUsedRuns
  BY DEF RecoveryInv
<1>2. lifecycle = NoProc /\ r \notin used /\ UNCHANGED commit
  BY DEF Claim
<1>3. PICK st \in Prepared(p, r, pay) :
        /\ Leave(p, st)
        /\ \/ UNCHANGED <<runOf, stage, fresh, ident, reservations>>
           \/ /\ st.ok
              /\ runOf' = [runOf EXCEPT ![p] = r]
              /\ fresh' = [fresh EXCEPT ![p] = Blanks(pay)]
              /\ reservations' = [reservations EXCEPT ![p] = Unset(Reserved(st.recs, r, pay), st.recs)]
  BY DEF Claim
<1>4. \A y \in records : y.run # r
  BY <1>1, <1>2, NamesAssumption DEF RecordsAreOfUsedRuns
<1>5. reservations[p] = {} /\ Fits(records)
  BY <1>2, IdleFacts
<1>6. /\ Fits(st.recs)
      /\ st.ok => /\ Reserved(st.recs, r, pay) = Keys(r, Blanks(pay))
                  /\ Cardinality(st.recs) + Cardinality(Keys(r, Blanks(pay))) <= MaxRecords
  BY <1>1, <1>4, <1>5, PreparedFits
<1>7. records' = st.recs
  BY <1>3 DEF Leave
<1>8. CASE UNCHANGED <<runOf, stage, fresh, ident, reservations>>
  BY <1>2, <1>6, <1>7, <1>8, FreeRoom
<1>9. CASE /\ st.ok
           /\ runOf' = [runOf EXCEPT ![p] = r]
           /\ fresh' = [fresh EXCEPT ![p] = Blanks(pay)]
           /\ reservations' = [reservations EXCEPT ![p] = Unset(Reserved(st.recs, r, pay), st.recs)]
  <2> DEFINE B == Blanks(pay)
             S == Unset(Keys(r, B), st.recs)
  <2>1. /\ runOf'[p] = r /\ fresh'[p] = B /\ reservations'[p] = S
        /\ \A q \in Proc \ {p} : runOf'[q] = runOf[q] /\ fresh'[q] = fresh[q] /\ reservations'[q] = reservations[q]
    BY <1>1, <1>6, <1>9 DEF TypeOK
  <2>2. B \in SUBSET Node /\ B \cap Reruns(pay) = {}
    BY ValuesAssumption DEF Blanks, Reruns
  <2>3. \A y \in st.recs : y.run = r => y.node \in Reruns(pay)
    <3>1. \A y \in st.recs \ records : y.run = Seed \/ (y.run = r /\ y.node \in Reruns(pay))
      BY <1>1, <1>4, PreparedFacts
    <3> QED BY <1>4, <3>1, NamesAssumption
  <2>4. Unset(Keys(r, B), st.recs) = Keys(r, B)
    <3>1. \A k \in Keys(r, B) : ~HasKey(st.recs, k[1], k[2])
      BY <2>2, <2>3 DEF HasKey, Keys
    <3> HIDE DEF B
    <3> QED BY <3>1 DEF Unset
  <2>5. IsFiniteSet(Keys(r, B)) /\ \A k \in Keys(r, B) : k[1] = r
    <3>1. IsFiniteSet(Keys(r, B))
      BY <2>2, KeysCount
    <3>2. \A k \in Keys(r, B) : k[1] = r
      BY DEF Keys
    <3> QED BY <3>1, <3>2
  <2>6. S = Keys(r, B)
    BY <2>4
  <2>7. \A n \in B : <<r, n>> \in Keys(r, B)
    BY DEF Keys
  <2>8. Unset(reservations[p], records)' = Unset(S, st.recs)
    BY <1>7, <2>1 DEF Unset
  <2> HIDE DEF B, S
  <2>9. RoomAt(p)'
    <3> DEFINE K == Keys(r, B)
    <3>1. reservations'[p] = K /\ Unset(K, st.recs) = K /\ S = K
      BY <2>1, <2>4, <2>6
    <3>2. /\ IsFiniteSet(K) /\ \A k \in K : k[1] = r
          /\ Cardinality(records') + Cardinality(K) <= MaxRecords
          /\ \A n \in B : <<r, n>> \in K
      BY <1>6, <1>7, <1>9, <2>5, <2>7 DEF B
    <3> HIDE DEF K
    <3>3. Unset(reservations[p], records)' = K
      BY <2>8, <3>1
    <3> QED BY <2>1, <3>1, <3>2, <3>3 DEF RoomAt
  <2>10. \A q \in Proc : runOf[q] = NoRun /\ fresh[q] = {} /\ commit[q] = NoCommit
    BY <1>2, FreeFacts
  <2>11. \A q \in Proc \ {p} : RoomAt(q)'
    BY <1>6, <1>7, <2>1, <2>10, NamesAssumption, IdleRoom DEF RoomInv
  <2>12. CommitIsSeeded'
    BY <1>2, <2>10 DEF CommitIsSeeded
  <2> QED BY <1>6, <1>7, <2>9, <2>11, <2>12 DEF RoomInv
<1> QED BY <1>3, <1>8, <1>9

\* Every step keeps room.
LEMMA StepRoom == RecoveryInv /\ RoomInv /\ [Next]_vars => RoomInv'
<1> SUFFICES ASSUME RecoveryInv, RoomInv, [Next]_vars PROVE RoomInv'
  OBVIOUS
<1>1. TypeOK
  BY DEF RecoveryInv
<1>2. CASE UNCHANGED vars
  BY <1>2, AsideRoom DEF vars, memory
<1>3. ASSUME NEW p \in Proc, Boot(p) \/ BeginCommit(p) \/ \E x \in Record : Forget(p, x)
      PROVE  RoomInv'
  BY <1>3, FencedRoom
<1>4. ASSUME NEW p \in Proc, Crash(p) \/ Release(p) \/ SaveCanvas(p) \/ RollBack(p)
      PROVE  RoomInv'
  BY <1>4, EndRoom
<1>5. ASSUME NEW p \in Proc, EditElsewhere(p) \/ \E n \in Node : Acknowledge(p, n)
      PROVE  RoomInv'
  BY <1>5, AsideRoom DEF EditElsewhere, Acknowledge, memory
<1>6. ASSUME NEW p \in Proc, NEW r \in Run, NEW pay \in Payloads, Claim(p, r, pay)
      PROVE  RoomInv'
  BY <1>6, ClaimRoom
<1>7. ASSUME NEW p \in Proc, NEW n \in Node,
             Post(p, n) \/ Denied(p, n) \/ Ambiguous(p, n) \/ GiveUp(p, n) \/ Accepted(p, n) \/ Landed(p, n)
      PROVE  RoomInv'
  BY <1>1, <1>7, QuietRoom, PublishRoom
<1> QED BY <1>2, <1>3, <1>4, <1>5, <1>6, <1>7 DEF Next

\* The limit of the journal, the room of every run and the seeding of every commit hold of
\* every reachable state.
THEOREM RoomInvAlways == Spec => []RoomInv
<1> QED BY InitRoom, StepRoom, RecoveryInvAlways, PTL DEF Spec

\* An accepted paid start is never refused its record for want of room: what the processes
\* journaled and what one reserved stay within MAX_RECOVERY_RECORDS (reserve, set, ensure_many).
THEOREM RoomIsKeptAlways == Spec => []RoomIsKept
<1>1. RoomInv => RoomIsKept
  BY DEF RoomInv, RoomAt, RoomIsKept
<1> QED BY <1>1, RoomInvAlways, PTL

\* A canvas is committed only with every provider ID it shows in the journal already,
\* whatever happened between the seeding and the save (_commit_graph_candidate_with_recoveries).
THEOREM CommittedIdsAlways == Spec => CommittedIdsAreJournaled
<1>1. RoomInv /\ [Next]_vars =>
        [\A p \in Proc : commit[p] # NoCommit /\ commit'[p] = NoCommit /\ graph'[p] = commit[p].candidate =>
           \A n \in Carried(graph'[p]) : Journaled(records, n, graph'[p][n])]_vars
  BY DEF RoomInv, CommitIsSeeded, Seeded
<1> QED BY <1>1, RoomInvAlways, PTL DEF Spec, CommittedIdsAreJournaled
=============================================================================
