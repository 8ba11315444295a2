---------------------- MODULE ProviderStartGuardProofs ----------------------
(***************************************************************************)
(* Proofs about ProviderStartGuard for every number of processes, runs,    *)
(* keys, faults and crashes: its types, its safety promises, and that it   *)
(* implements the ledger of PaidStarts.                                    *)
(***************************************************************************)
EXTENDS ProviderStartGuard, TLAPS

USE KindAssumption, NamesAssumption, BoundAssumption

-----------------------------------------------------------------------------
(* What a reload, a promotion and each saved journal are, key by key.      *)

\* A reload keeps the holds that only memory has: a key is held by what memory says, if it says
\* anything, and the Stops are those of the file.
LEMMA MergedFacts ==
  ASSUME TypeOK, NEW p \in Proc
  PROVE  /\ Merged(p) \in Journal
         /\ Merged(p).stops = disk.stops
         /\ Merged(p).filter = disk.filter
         /\ \A k \in Key :
              /\ Merged(p).amb[k] = IF hold[p][k] # NoRun THEN hold[p][k] ELSE disk.amb[k]
              /\ Merged(p).pend[k] = IF hold[p][k] # NoRun THEN NoRun ELSE disk.pend[k]
  BY DEF TypeOK, Merged, Journal, Slots

\* A promotion turns every intent into a hold.
LEMMA PromotedFacts ==
  ASSUME NEW j \in Journal
  PROVE  /\ Promoted(j) \in Journal
         /\ Promoted(j).stops = j.stops
         /\ Promoted(j).filter = j.filter
         /\ \A k \in Key :
              /\ Promoted(j).amb[k] = IF j.pend[k] # NoRun THEN j.pend[k] ELSE j.amb[k]
              /\ Promoted(j).pend[k] = NoRun
  BY DEF Promoted, Journal, Slots, NoRecord

\* A journal that loses no hold, forgets no intent and invents no intent.
Keeps(j) ==
  \A k \in Key :
    /\ disk.amb[k] # NoRun => j.amb[k] # NoRun
    /\ disk.pend[k] # NoRun => j.pend[k] = disk.pend[k] \/ j.amb[k] # NoRun
    /\ j.pend[k] # NoRun => j.pend[k] = disk.pend[k]

\* A journal that denies every run the file denies.
Denies(j) == \A r \in Run : Denied(disk, r) => Denied(j, r)

\* Both together: no intent is left, and no key that was owed is free.
LEMMA RecoveredFacts ==
  ASSUME TypeOK, NEW p \in Proc
  PROVE  /\ Recovered(p) \in Journal /\ Keeps(Recovered(p)) /\ Denies(Recovered(p))
         /\ Recovered(p).stops = disk.stops
         /\ Recovered(p).filter = disk.filter
         /\ \A k \in Key :
              /\ Recovered(p).pend[k] = NoRun
              /\ disk.amb[k] # NoRun \/ disk.pend[k] # NoRun => Recovered(p).amb[k] # NoRun
  BY MergedFacts, PromotedFacts DEF Recovered, Keeps, Denies, Denied

\* A claim writes intents for the keys asked for, and forgets no hold.
LEMMA IntendedFacts ==
  ASSUME TypeOK, NEW p \in Proc, NEW r \in Run, NEW K \in SUBSET Key
  PROVE  /\ Intended(p, r, K) \in Journal /\ Denies(Intended(p, r, K))
         /\ \A k \in Key :
              /\ Intended(p, r, K).amb[k] = Recovered(p).amb[k]
              /\ Intended(p, r, K).pend[k] = IF k \in K THEN r ELSE NoRun
<1> DEFINE q == Recovered(p)
<1>1. q \in Journal /\ q.stops = disk.stops /\ q.filter = disk.filter
  BY RecoveredFacts
<1> HIDE DEF q
<1> DEFINE j == [q EXCEPT !.pend = [k \in Key |-> IF k \in K THEN r ELSE NoRun]]
<1>2. j \in Journal /\ j.stops = q.stops /\ j.filter = q.filter /\ j.amb = q.amb
      /\ \A k \in Key : j.pend[k] = IF k \in K THEN r ELSE NoRun
  BY <1>1 DEF Journal, Slots
<1> QED BY <1>1, <1>2 DEF q, Intended, Denies, Denied

\* A hold is written over the intent of its key, and denies what was denied.
LEMMA HeldFacts ==
  ASSUME TypeOK, NEW p \in Proc, NEW k \in Key, active[p][k] # NoRun
  PROVE  /\ Held(p, k) \in Journal /\ Keeps(Held(p, k)) /\ Denies(Held(p, k))
         /\ Held(p, k).amb[k] # NoRun
<1> DEFINE m == Merged(p)
<1>1. /\ m \in Journal /\ m.stops = disk.stops /\ m.filter = disk.filter
      /\ \A i \in Key : /\ m.amb[i] = IF hold[p][i] # NoRun THEN hold[p][i] ELSE disk.amb[i]
                        /\ m.pend[i] = IF hold[p][i] # NoRun THEN NoRun ELSE disk.pend[i]
  BY MergedFacts
<1> HIDE DEF m
<1>2. active[p][k] \in Run
  BY DEF TypeOK, Slots
<1> DEFINE j == [m EXCEPT !.pend[k] = NoRun, !.amb[k] = active[p][k]]
<1>3. /\ j \in Journal /\ j.stops = m.stops /\ j.filter = m.filter
      /\ \A i \in Key : /\ j.amb[i] = IF i = k THEN active[p][k] ELSE m.amb[i]
                        /\ j.pend[i] = IF i = k THEN NoRun ELSE m.pend[i]
  BY <1>1, <1>2 DEF Journal, Slots
<1>4. Held(p, k) = j
  BY DEF Held, m
<1> HIDE DEF j
<1> QED BY <1>1, <1>2, <1>3, <1>4 DEF Keeps, Denies, Denied

\* A release takes away intents of its own keys only.
LEMMA ClosedFacts ==
  ASSUME TypeOK, NEW p \in Proc, NEW K \in SUBSET Key
  PROVE  /\ Closed(p, K) \in Journal /\ Denies(Closed(p, K))
         /\ \A k \in Key :
              /\ Closed(p, K).amb[k] = IF hold[p][k] # NoRun THEN hold[p][k] ELSE disk.amb[k]
              /\ Closed(p, K).pend[k] = IF k \in K \/ hold[p][k] # NoRun THEN NoRun ELSE disk.pend[k]
<1> DEFINE m == Merged(p)
<1>1. /\ m \in Journal /\ m.stops = disk.stops /\ m.filter = disk.filter
      /\ \A i \in Key : /\ m.amb[i] = IF hold[p][i] # NoRun THEN hold[p][i] ELSE disk.amb[i]
                        /\ m.pend[i] = IF hold[p][i] # NoRun THEN NoRun ELSE disk.pend[i]
  BY MergedFacts
<1> HIDE DEF m
<1> DEFINE j == [m EXCEPT !.pend = [k \in Key |-> IF k \in K THEN NoRun ELSE @[k]]]
<1>2. /\ j \in Journal /\ j.stops = m.stops /\ j.filter = m.filter /\ j.amb = m.amb
      /\ \A i \in Key : j.pend[i] = IF i \in K THEN NoRun ELSE m.pend[i]
  BY <1>1 DEF Journal, Slots
<1>3. Closed(p, K) = j
  BY DEF Closed, m
<1> HIDE DEF j
<1> QED BY <1>1, <1>2, <1>3 DEF Denies, Denied

\* A Stop and a compaction deny whom they name and whoever was denied, and free no key.
LEMMA StopFacts ==
  ASSUME TypeOK, NEW p \in Proc, NEW r \in Run
  PROVE  /\ Cancelled(p, r) \in Journal /\ Keeps(Cancelled(p, r)) /\ Denies(Cancelled(p, r))
         /\ Denied(Cancelled(p, r), r)
         /\ Compacted(p, r) \in Journal /\ Keeps(Compacted(p, r)) /\ Denies(Compacted(p, r))
<1> DEFINE m == Merged(p)
<1>1. /\ m \in Journal /\ m.stops = disk.stops /\ m.filter = disk.filter
      /\ \A i \in Key : /\ m.amb[i] = IF hold[p][i] # NoRun THEN hold[p][i] ELSE disk.amb[i]
                        /\ m.pend[i] = IF hold[p][i] # NoRun THEN NoRun ELSE disk.pend[i]
  BY MergedFacts
<1>2. HashBits[r] \subseteq Bits
  BY DEF Bits
<1> HIDE DEF m
<1> DEFINE c == [m EXCEPT !.stops = @ \cup {r}]
           d == [m EXCEPT !.stops = @ \ {r}, !.filter = @ \cup HashBits[r]]
<1>3. c \in Journal /\ c.stops = m.stops \cup {r} /\ c.filter = m.filter
      /\ c.amb = m.amb /\ c.pend = m.pend
  BY <1>1 DEF Journal
<1>4. d \in Journal /\ d.stops = m.stops \ {r} /\ d.filter = m.filter \cup HashBits[r]
      /\ d.amb = m.amb /\ d.pend = m.pend
  BY <1>1, <1>2 DEF Journal
<1>5. Cancelled(p, r) = c /\ Compacted(p, r) = d
  BY DEF Cancelled, Compacted, m
<1> HIDE DEF c, d
<1>6. Denies(c) /\ Denied(c, r) /\ Denies(d)
  BY <1>1, <1>3, <1>4 DEF Denies, Denied
<1>7. Keeps(c) /\ Keeps(d)
  BY <1>1, <1>3, <1>4 DEF Keeps
<1> QED BY <1>3, <1>4, <1>5, <1>6, <1>7

\* An acknowledgement frees its key and no other.
LEMMA UnlockedFacts ==
  ASSUME TypeOK, NEW p \in Proc, NEW k \in Key
  PROVE  /\ Unlocked(p, k) \in Journal /\ Denies(Unlocked(p, k))
         /\ \A i \in Key :
              /\ Unlocked(p, k).amb[i] = IF i = k THEN NoRun ELSE Recovered(p).amb[i]
              /\ Unlocked(p, k).pend[i] = NoRun
<1> DEFINE q == Recovered(p)
<1>1. q \in Journal /\ q.stops = disk.stops /\ q.filter = disk.filter
      /\ \A i \in Key : q.pend[i] = NoRun
  BY RecoveredFacts
<1> HIDE DEF q
<1> DEFINE j == [q EXCEPT !.amb[k] = NoRun]
<1>2. /\ j \in Journal /\ j.stops = q.stops /\ j.filter = q.filter /\ j.pend = q.pend
      /\ \A i \in Key : j.amb[i] = IF i = k THEN NoRun ELSE q.amb[i]
  BY <1>1 DEF Journal, Slots
<1>3. Unlocked(p, k) = j
  BY DEF Unlocked, q
<1> HIDE DEF j
<1> QED BY <1>1, <1>2, <1>3 DEF q, Denies, Denied

\* The file after a save is the old one or the new one, and a process forgets
\* a nondurable hold only when the file has a hold of that key.
LEMMA PersistFacts ==
  ASSUME TypeOK, NEW p \in Proc, NEW j \in Journal, NEW w \in Writes, Persist(p, j, w)
  PROVE  /\ disk' \in {disk, j}
         /\ w = "ok" => disk' = j
         /\ disk' \in Journal /\ faults' \in Nat /\ hold' \in [Proc -> Slots]
         /\ \A i \in Proc, k \in Key :
              hold'[i][k] = hold[i][k] \/ disk'.amb[k] # NoRun
  BY DEF Persist, Save, Kept, TypeOK, Slots, Writes

\* A read that fails is at most a fault more.
LEMMA UnreadType ==
  ASSUME NEW op, faults \in Nat, Unread(op)
  PROVE  faults' \in Nat
  BY DEF Unread

-----------------------------------------------------------------------------
(* Type correctness.                                                       *)

\* PromoteAbandoned leaves the file, or writes the recovery, and drops no hold that is not on it.
LEMMA PromoteFacts ==
  ASSUME TypeOK, NEW p \in Proc, PromoteAbandoned(p)
  PROVE  /\ disk' \in {disk, Recovered(p)}
         /\ disk' # disk => flock = NoProc
         /\ disk' \in Journal /\ faults' \in Nat /\ hold' \in [Proc -> Slots]
         /\ err' \in [Proc -> BOOLEAN]
         /\ \A i \in Proc, k \in Key : hold'[i][k] = hold[i][k] \/ disk'.amb[k] # NoRun
<1>1. CASE UNCHANGED <<disk, hold, faults>> /\ err' = [err EXCEPT ![p] = FALSE]
  BY <1>1 DEF TypeOK
<1>2. CASE Free /\ \E w \in Writes : /\ Persist(p, Recovered(p), w)
                                     /\ err' = [err EXCEPT ![p] = w # "ok"]
  <2>1. PICK w \in Writes : /\ Persist(p, Recovered(p), w)
                            /\ err' = [err EXCEPT ![p] = w # "ok"]
    BY <1>2
  <2>2. err' \in [Proc -> BOOLEAN]
    BY <2>1 DEF TypeOK
  <2> QED BY <1>2, <2>1, <2>2, RecoveredFacts, PersistFacts DEF Free
<1> QED BY <1>1, <1>2 DEF PromoteAbandoned

\* Hold leaves the file or writes the hold, which is in memory if it is not on the file.
LEMMA HoldFacts ==
  ASSUME TypeOK, NEW p \in Proc, NEW k \in Key, active[p][k] # NoRun, Hold(p, k)
  PROVE  /\ disk' \in {disk, Held(p, k)}
         /\ disk' \in Journal /\ faults' \in Nat /\ hold' \in [Proc -> Slots]
         /\ err' \in [Proc -> BOOLEAN]
         /\ disk'.amb[k] # NoRun \/ hold'[p][k] # NoRun
         /\ \A q \in Proc, i \in Key : hold'[q][i] = NoRun => hold[q][i] = NoRun \/ disk'.amb[i] # NoRun
<1>1. PICK w \in Writes :
        /\ Save(Held(p, k), w)
        /\ err' = [err EXCEPT ![p] = w # "ok"]
        /\ hold' = IF w = "ok" THEN [hold EXCEPT ![p] = Kept(p, Held(p, k))]
                               ELSE [hold EXCEPT ![p][k] = active[p][k]]
  BY DEF Hold
<1>2. Held(p, k) \in Journal /\ Held(p, k).amb[k] # NoRun
  BY HeldFacts
<1>3. active[p][k] \in Run
  BY DEF TypeOK, Slots
<1>4. disk' \in {disk, Held(p, k)} /\ disk' \in Journal /\ faults' \in Nat
  BY <1>1, <1>2 DEF Save, TypeOK
<1>5. err' \in [Proc -> BOOLEAN]
  BY <1>1 DEF TypeOK
<1>6. CASE w = "ok"
  <2>1. disk' = Held(p, k) /\ hold' = [hold EXCEPT ![p] = Kept(p, Held(p, k))]
    BY <1>1, <1>6 DEF Save
  <2>2. Kept(p, Held(p, k)) \in Slots
    BY DEF Kept, TypeOK, Slots
  <2>3. hold' \in [Proc -> Slots]
    BY <2>1, <2>2 DEF TypeOK
  <2>4. \A q \in Proc, i \in Key : hold'[q][i] = hold[q][i] \/ disk'.amb[i] # NoRun
    BY <2>1 DEF Kept, TypeOK
  <2> QED BY <1>2, <1>4, <1>5, <2>1, <2>3, <2>4
<1>7. CASE w # "ok"
  <2>1. hold' = [hold EXCEPT ![p][k] = active[p][k]]
    BY <1>1, <1>7
  <2>2. /\ hold' \in [Proc -> Slots] /\ hold'[p][k] # NoRun
        /\ \A q \in Proc, i \in Key : hold'[q][i] = NoRun => hold[q][i] = NoRun
    BY <2>1, <1>3 DEF TypeOK, Slots
  <2> QED BY <1>4, <1>5, <2>2
<1> QED BY <1>6, <1>7

\* Release leaves the file or closes its leases, and touches no other process's holds.
LEMMA ReleaseFacts ==
  ASSUME TypeOK, NEW p \in Proc, Release(p)
  PROVE  /\ disk' \in {disk, Closed(p, Leases(p))}
         /\ disk' \in Journal /\ faults' \in Nat /\ hold' \in [Proc -> Slots]
         /\ err' \in [Proc -> BOOLEAN]
         /\ \A q \in Proc \ {p} : hold'[q] = hold[q]
<1> DEFINE done == Closed(p, Leases(p))
           paid == Taken(active[p])
           pend == Merged(p).pend
           fallback == [k \in Key |-> IF k \in paid /\ pend[k] # NoRun THEN pend[k] ELSE hold[p][k]]
           lost == [k \in Key |-> IF k \in paid THEN active[p][k] ELSE hold[p][k]]
<1>1. Leases(p) \in SUBSET Key /\ done \in Journal
  BY ClosedFacts DEF Leases, Taken
<1>2. pend \in Slots
  BY MergedFacts DEF Journal
<1>3. Kept(p, done) \in Slots /\ fallback \in Slots /\ lost \in Slots
  BY <1>2 DEF Kept, TypeOK, Slots
<1>4. \/ \E w \in Writes :
           /\ Save(done, w)
           /\ err' = [err EXCEPT ![p] = w # "ok"]
           /\ hold' = [hold EXCEPT ![p] = IF w = "ok" THEN Kept(p, done) ELSE fallback]
      \/ /\ Unread("release") /\ err' = [err EXCEPT ![p] = TRUE]
         /\ hold' = [hold EXCEPT ![p] = lost] /\ UNCHANGED disk
  BY DEF Release, TypeOK
<1> HIDE DEF done, pend, fallback, lost
<1>5. CASE \E w \in Writes :
             /\ Save(done, w)
             /\ err' = [err EXCEPT ![p] = w # "ok"]
             /\ hold' = [hold EXCEPT ![p] = IF w = "ok" THEN Kept(p, done) ELSE fallback]
  BY <1>1, <1>3, <1>5 DEF Save, TypeOK, done
<1>6. CASE Unread("release") /\ err' = [err EXCEPT ![p] = TRUE]
           /\ hold' = [hold EXCEPT ![p] = lost] /\ UNCHANGED disk
  BY <1>3, <1>6, UnreadType DEF TypeOK
<1> QED BY <1>4, <1>5, <1>6

\* A step of one start moves the phase of that start alone.
LEMMA StepFacts ==
  ASSUME TypeOK, NEW p \in Proc, NEW k \in Key, NEW from, NEW to \in Phases, Step(p, k, from, to)
  PROVE  /\ phase' \in [Proc -> [Key -> Phases]]
         /\ phase[p][k] \in from /\ phase'[p][k] = to
         /\ \A q \in Proc, i \in Key : q # p \/ i # k => phase'[q][i] = phase[q][i]
  BY DEF Step, TypeOK

\* A claim either takes the lifecycle with exactly the leases it asked for, or
\* takes nothing.
LEMMA ClaimFacts ==
  ASSUME TypeOK, NEW p \in Proc, NEW r \in Run, NEW K \in SUBSET Key, NEW R \in SUBSET Key,
         Claim(p, r, K, R)
  PROVE  /\ flock' \in Proc \cup {NoProc}
         /\ lifeRun' \in [Proc -> Run \cup {NoRun, Mutation}]
         /\ active' \in [Proc -> Slots] /\ recovering' \in [Proc -> Slots]
         /\ phase' \in [Proc -> [Key -> Phases]]
         /\ \A q \in Proc \ {p} : /\ lifeRun'[q] = lifeRun[q] /\ active'[q] = active[q]
                                  /\ recovering'[q] = recovering[q] /\ phase'[q] = phase[q]
         /\ \/ UNCHANGED <<flock, lifeRun, active, recovering, phase>>
            \/ /\ disk' = Intended(p, r, K) /\ flock' = p /\ lifeRun'[p] = r
               /\ \A k \in Key :
                    /\ active'[p][k] = IF k \in K THEN r ELSE NoRun
                    /\ recovering'[p][k] = IF k \in R THEN r ELSE NoRun
                    /\ phase'[p][k] = IF k \in K THEN "ready" ELSE "none"
<1> DEFINE fresh == [k \in Key |-> IF k \in K THEN r ELSE NoRun]
           polls == [k \in Key |-> IF k \in R THEN r ELSE NoRun]
           steps == [k \in Key |-> IF k \in K THEN "ready" ELSE "none"]
<1>1. fresh \in Slots /\ polls \in Slots /\ steps \in [Key -> Phases]
  BY DEF Slots, Phases
<1>2. /\ \A k \in Key : fresh[k] = IF k \in K THEN r ELSE NoRun
      /\ \A k \in Key : polls[k] = IF k \in R THEN r ELSE NoRun
      /\ \A k \in Key : steps[k] = IF k \in K THEN "ready" ELSE "none"
  OBVIOUS
<1>3. \/ UNCHANGED <<flock, lifeRun, active, recovering, phase>>
      \/ /\ disk' = Intended(p, r, K) /\ flock' = p
         /\ lifeRun' = [lifeRun EXCEPT ![p] = r]
         /\ active' = [active EXCEPT ![p] = fresh]
         /\ recovering' = [recovering EXCEPT ![p] = polls]
         /\ phase' = [phase EXCEPT ![p] = steps]
  BY DEF Claim, Persist, Save
<1> HIDE DEF fresh, polls, steps
<1>4. CASE UNCHANGED <<flock, lifeRun, active, recovering, phase>>
  BY <1>4 DEF TypeOK
<1>5. CASE /\ disk' = Intended(p, r, K) /\ flock' = p
           /\ lifeRun' = [lifeRun EXCEPT ![p] = r]
           /\ active' = [active EXCEPT ![p] = fresh]
           /\ recovering' = [recovering EXCEPT ![p] = polls]
           /\ phase' = [phase EXCEPT ![p] = steps]
  BY <1>1, <1>2, <1>5 DEF TypeOK
<1> QED BY <1>3, <1>4, <1>5

\* Every action keeps the types.
LEMMA TypeStep == TypeOK /\ [Next]_vars => TypeOK'
<1> SUFFICES ASSUME TypeOK, [Next]_vars PROVE TypeOK'
  OBVIOUS
<1>1. ASSUME NEW p \in Proc, Start(p) PROVE TypeOK'
  <2>1. disk' \in Journal /\ faults' \in Nat /\ hold' \in [Proc -> Slots] /\ err' \in [Proc -> BOOLEAN]
    BY <1>1, PromoteFacts, UnreadType DEF Start, TypeOK
  <2> QED BY <1>1, <2>1 DEF Start, TypeOK, history
<1>2. ASSUME NEW p \in Proc, Inspect(p) PROVE TypeOK'
  <2>1. disk' \in Journal /\ faults' \in Nat /\ hold' \in [Proc -> Slots] /\ err' \in [Proc -> BOOLEAN]
    BY <1>2, PromoteFacts, UnreadType DEF Inspect, TypeOK
  <2> QED BY <1>2, <2>1 DEF Inspect, TypeOK, history, procVars
<1>3. ASSUME NEW p \in Proc, Crash(p) PROVE TypeOK'
  BY <1>3 DEF Crash, TypeOK, history, NoRecord, Slots, Phases
<1>4. ASSUME NEW p \in Proc, NEW r \in Run, NEW K \in SUBSET Key, NEW R \in SUBSET Key,
             Claim(p, r, K, R)
      PROVE  TypeOK'
  <2>1. PICK w \in Writes : Persist(p, Intended(p, r, K), w) /\ err' = [err EXCEPT ![p] = w # "ok"]
    BY <1>4 DEF Claim
  <2>2. disk' \in Journal /\ faults' \in Nat /\ hold' \in [Proc -> Slots]
    BY <2>1, IntendedFacts, PersistFacts
  <2>3. err' \in [Proc -> BOOLEAN]
    BY <2>1 DEF TypeOK
  <2>4. /\ flock' \in Proc \cup {NoProc}
        /\ lifeRun' \in [Proc -> Run \cup {NoRun, Mutation}]
        /\ active' \in [Proc -> Slots] /\ recovering' \in [Proc -> Slots]
        /\ phase' \in [Proc -> [Key -> Phases]]
    BY <1>4, ClaimFacts
  <2> QED BY <1>4, <2>2, <2>3, <2>4 DEF Claim, TypeOK, history
<1>5. ASSUME NEW p \in Proc, NEW r \in Run, NEW K \in SUBSET Key, ClaimRefused(p, r, K)
      PROVE  TypeOK'
  <2>1. disk' \in Journal /\ faults' \in Nat /\ hold' \in [Proc -> Slots]
    BY <1>5, RecoveredFacts, PersistFacts DEF ClaimRefused
  <2> QED BY <1>5, <2>1 DEF ClaimRefused, TypeOK, history, procVars
<1>6. ASSUME NEW p \in Proc, NEW k \in Key, Post(p, k) \/ Accounted(p, k) PROVE TypeOK'
  <2>1. phase' \in [Proc -> [Key -> Phases]]
    <3>1. Step(p, k, {"ready"}, "sent") \/ Step(p, k, {"sent"}, "settled")
      BY <1>6 DEF Post, Accounted
    <3>2. "sent" \in Phases /\ "settled" \in Phases
      BY DEF Phases
    <3> QED BY <3>1, <3>2, StepFacts
  <2>2. active[p][k] # NoRun => <<k, active[p][k]>> \in Key \X Run
    BY DEF TypeOK, Slots
  <2>3. owed' \subseteq Key \X Run
    BY <1>6, <2>2 DEF Post, Accounted, TypeOK, StartOf, Leased
  <2> QED BY <1>6, <2>1, <2>3 DEF Post, Accounted, TypeOK, guardVars
<1>7. ASSUME NEW p \in Proc, NEW k \in Key, MarkAmbiguous(p, k) \/ HoldNondurable(p, k)
      PROVE  TypeOK'
  <2>1. disk' \in Journal /\ faults' \in Nat /\ hold' \in [Proc -> Slots] /\ err' \in [Proc -> BOOLEAN]
    BY <1>7, HoldFacts, UnreadType DEF MarkAmbiguous, HoldNondurable, Leased, TypeOK
  <2>2. phase' \in [Proc -> [Key -> Phases]]
    BY <1>7, StepFacts DEF MarkAmbiguous, HoldNondurable, Phases
  <2> QED BY <1>7, <2>1, <2>2 DEF MarkAmbiguous, HoldNondurable, TypeOK, history
<1>8. ASSUME NEW p \in Proc, Release(p) PROVE TypeOK'
  <2>1. disk' \in Journal /\ faults' \in Nat /\ hold' \in [Proc -> Slots] /\ err' \in [Proc -> BOOLEAN]
    BY <1>8, ReleaseFacts
  <2>2. /\ flock' \in Proc \cup {NoProc}
        /\ lifeRun' \in [Proc -> Run \cup {NoRun, Mutation}]
        /\ active' \in [Proc -> Slots] /\ recovering' \in [Proc -> Slots]
        /\ phase' \in [Proc -> [Key -> Phases]]
        /\ halted' \in [Proc -> BOOLEAN]
        /\ UNCHANGED <<up, history, crashes>>
    BY <1>8 DEF Release, TypeOK, NoRecord, Slots, Phases
  <2> QED BY <2>1, <2>2 DEF TypeOK, history
<1>9. ASSUME NEW p \in Proc, NEW r \in Run, RecordCancelIntent(p, r) PROVE TypeOK'
  <2>1. disk' \in Journal /\ faults' \in Nat /\ hold' \in [Proc -> Slots]
    BY <1>9, StopFacts, PersistFacts DEF RecordCancelIntent, TypeOK
  <2>2. err' \in [Proc -> BOOLEAN] /\ stopped' \subseteq Run
    BY <1>9 DEF RecordCancelIntent, TypeOK
  <2> QED BY <1>9, <2>1, <2>2 DEF RecordCancelIntent, TypeOK, procVars
<1>10. ASSUME NEW p \in Proc, NEW r \in Run, CompactCancelIntent(p, r) PROVE TypeOK'
  <2>1. disk' \in Journal /\ faults' \in Nat /\ hold' \in [Proc -> Slots]
    BY <1>10, StopFacts, PersistFacts DEF CompactCancelIntent
  <2> QED BY <1>10, <2>1 DEF CompactCancelIntent, TypeOK, procVars, history
<1>11. ASSUME NEW p \in Proc, PollStop(p) PROVE TypeOK'
  BY <1>11, UnreadType DEF PollStop, TypeOK, history
<1>12. ASSUME NEW p \in Proc, NEW k \in Key, NEW r \in Run, Acknowledge(p, k, r) PROVE TypeOK'
  <2>1. disk' \in Journal /\ faults' \in Nat /\ hold' \in [Proc -> Slots]
    BY <1>12, UnlockedFacts, PersistFacts DEF Acknowledge
  <2> QED BY <1>12, <2>1 DEF Acknowledge, TypeOK, procVars
<1>13. ASSUME NEW p \in Proc, Reread(p) PROVE TypeOK'
  BY <1>13 DEF Reread, TypeOK, procVars, history
<1>14. ASSUME NEW p \in Proc, BeginMutation(p) PROVE TypeOK'
  <2>1. disk' \in Journal /\ faults' \in Nat /\ hold' \in [Proc -> Slots]
    BY <1>14, RecoveredFacts, PersistFacts DEF BeginMutation, TypeOK
  <2>2. flock' \in Proc \cup {NoProc} /\ lifeRun' \in [Proc -> Run \cup {NoRun, Mutation}]
    BY <1>14 DEF BeginMutation, TypeOK
  <2> QED BY <1>14, <2>1, <2>2 DEF BeginMutation, TypeOK, history
<1>15. ASSUME NEW p \in Proc, EndMutation(p) PROVE TypeOK'
  BY <1>15 DEF EndMutation, TypeOK, guardVars, history
<1>16. ASSUME UNCHANGED vars PROVE TypeOK'
  BY <1>16 DEF vars, procVars, guardVars, history, TypeOK
<1> QED
  BY <1>1, <1>2, <1>3, <1>4, <1>5, <1>6, <1>7, <1>8, <1>9, <1>10, <1>11, <1>12, <1>13, <1>14,
     <1>15, <1>16 DEF Next, Settle

\* The state always has the types of the code's fields, whatever crashes,
\* failed saves and interleavings of the processes happened.
THEOREM TypeCorrect == Spec => []TypeOK
<1>1. Init => TypeOK
  BY DEF Init, TypeOK, Empty, Journal, NoRecord, Slots, Phases
<1> QED BY <1>1, TypeStep, PTL DEF Spec

-----------------------------------------------------------------------------
(* A Stop that was recorded is never forgotten.                            *)

\* No step of any process writes a journal that denies fewer runs.
LEMMA DenialStep == TypeOK /\ [Next]_vars => Denies(disk')
<1> SUFFICES ASSUME TypeOK, [Next]_vars PROVE Denies(disk')
  OBVIOUS
<1>1. Denies(disk)
  BY DEF Denies
<1>2. ASSUME NEW p \in Proc, Start(p) \/ Inspect(p) PROVE Denies(disk')
  BY <1>1, <1>2, PromoteFacts, RecoveredFacts DEF Start, Inspect
<1>3. ASSUME NEW p \in Proc, NEW r \in Run, NEW K \in SUBSET Key, NEW R \in SUBSET Key,
             Claim(p, r, K, R)
      PROVE  Denies(disk')
  BY <1>1, <1>3, IntendedFacts, PersistFacts DEF Claim
<1>4. ASSUME NEW p \in Proc, NEW r \in Run, NEW K \in SUBSET Key, ClaimRefused(p, r, K)
      PROVE  Denies(disk')
  BY <1>1, <1>4, RecoveredFacts, PersistFacts DEF ClaimRefused
<1>5. ASSUME NEW p \in Proc, NEW k \in Key, MarkAmbiguous(p, k) \/ HoldNondurable(p, k)
      PROVE  Denies(disk')
  BY <1>1, <1>5, HoldFacts, HeldFacts DEF MarkAmbiguous, HoldNondurable, Leased
<1>6. ASSUME NEW p \in Proc, Release(p) PROVE Denies(disk')
  <2>1. Leases(p) \in SUBSET Key
    BY DEF Leases, Taken
  <2> QED BY <1>1, <1>6, <2>1, ReleaseFacts, ClosedFacts
<1>7. ASSUME NEW p \in Proc, NEW r \in Run, RecordCancelIntent(p, r) \/ CompactCancelIntent(p, r)
      PROVE  Denies(disk')
  BY <1>1, <1>7, StopFacts, PersistFacts DEF RecordCancelIntent, CompactCancelIntent
<1>8. ASSUME NEW p \in Proc, NEW k \in Key, NEW r \in Run, Acknowledge(p, k, r)
      PROVE  Denies(disk')
  BY <1>1, <1>8, UnlockedFacts, PersistFacts DEF Acknowledge
<1>9. ASSUME NEW p \in Proc, BeginMutation(p) PROVE Denies(disk')
  BY <1>1, <1>9, RecoveredFacts, PersistFacts DEF BeginMutation
<1>10. CASE disk' = disk
  BY <1>1, <1>10
<1> QED
  BY <1>2, <1>3, <1>4, <1>5, <1>6, <1>7, <1>8, <1>9, <1>10
  DEF Next, Settle, Crash, Post, Accounted, PollStop, Reread, EndMutation, vars

\* A step forgets no recorded Stop, and records one only once it denies its run.
LEMMA StopStep == TypeOK /\ StopIsPermanent /\ [Next]_vars => StopIsPermanent'
<1> SUFFICES ASSUME TypeOK, StopIsPermanent, [Next]_vars PROVE StopIsPermanent'
  OBVIOUS
<1>1. Denies(disk') /\ stopped \subseteq Run
  BY DenialStep DEF TypeOK
<1>2. CASE stopped' = stopped
  BY <1>1, <1>2 DEF StopIsPermanent, Denies
<1>3. ASSUME NEW p \in Proc, NEW r \in Run, RecordCancelIntent(p, r) PROVE StopIsPermanent'
  <2>1. stopped' \subseteq stopped \cup {r} /\ (r \in stopped' => Denied(disk', r) \/ r \in stopped)
    BY <1>3, StopFacts, PersistFacts DEF RecordCancelIntent, Writes
  <2> QED BY <1>1, <2>1 DEF StopIsPermanent, Denies
<1> QED
  BY <1>2, <1>3
  DEF Next, Settle, Start, Inspect, Crash, Claim, ClaimRefused, Post, Accounted, MarkAmbiguous,
      HoldNondurable, Release, CompactCancelIntent, PollStop, Acknowledge, Reread,
      BeginMutation, EndMutation, vars, history

\* A Stop whose recording succeeded denies its run for ever, through every
\* crash, lost write, promotion and compaction (record_cancel_intent,
\* acknowledge_cancel_intent, _admission_error).
THEOREM StopsAreKept == Spec => []StopIsPermanent
<1>1. Init => StopIsPermanent
  BY DEF Init, StopIsPermanent
<1> QED BY <1>1, StopStep, TypeCorrect, PTL DEF Spec

-----------------------------------------------------------------------------
(* One owner of the lifecycle.                                             *)

\* While nobody holds the lifecycle flock there is no lease.
LEMMA NoOwnerNoLease ==
  ASSUME TypeOK, OneOwner, flock = NoProc
  PROVE  \A p \in Proc : /\ lifeRun[p] = NoRun
                         /\ \A k \in Key : active[p][k] = NoRun /\ recovering[p][k] = NoRun
  BY DEF OneOwner

\* Each step hands the lifecycle to one backend at most (_acquire_lifecycle).
LEMMA OwnerStep == TypeOK /\ OneOwner /\ [Next]_vars => OneOwner'
<1> SUFFICES ASSUME TypeOK, OneOwner, [Next]_vars PROVE OneOwner'
  OBVIOUS
<1>1. CASE UNCHANGED <<flock, lifeRun, active, recovering>>
  BY <1>1 DEF OneOwner
<1>2. ASSUME NEW p \in Proc,
             lifeRun' = [lifeRun EXCEPT ![p] = NoRun],
             active' = [active EXCEPT ![p] = NoRecord],
             recovering' = [recovering EXCEPT ![p] = NoRecord],
             flock' = IF flock = p THEN NoProc ELSE flock
      PROVE  OneOwner'
  <2>1. ASSUME NEW q \in Proc PROVE lifeRun'[q] # NoRun <=> flock' = q
    BY <1>2 DEF OneOwner, TypeOK
  <2>2. ASSUME NEW q \in Proc, NEW k \in Key
        PROVE  /\ active'[q][k] \in {NoRun, lifeRun'[q]} /\ recovering'[q][k] \in {NoRun, lifeRun'[q]}
               /\ NoRun \in {active'[q][k], recovering'[q][k]}
    BY <1>2 DEF OneOwner, TypeOK, NoRecord
  <2> QED BY <2>1, <2>2 DEF OneOwner
<1>3. ASSUME NEW p \in Proc, NEW r \in Run, NEW K \in SUBSET Key, NEW R \in SUBSET Key,
             Claim(p, r, K, R)
      PROVE  OneOwner'
  <2>1. flock = NoProc /\ K \cap R = {}
    BY <1>3 DEF Claim, ClaimGuard, Free
  <2>2. CASE UNCHANGED <<flock, lifeRun, active, recovering, phase>>
    BY <1>1, <2>2
  <2>3. CASE /\ flock' = p /\ lifeRun'[p] = r
             /\ \A k \in Key : /\ active'[p][k] = IF k \in K THEN r ELSE NoRun
                               /\ recovering'[p][k] = IF k \in R THEN r ELSE NoRun
    <3>1. ASSUME NEW q \in Proc \ {p}
          PROVE  lifeRun'[q] = NoRun /\ \A k \in Key : active'[q][k] = NoRun /\ recovering'[q][k] = NoRun
      <4>1. lifeRun'[q] = lifeRun[q] /\ active'[q] = active[q] /\ recovering'[q] = recovering[q]
        BY <1>3, ClaimFacts
      <4> QED BY <2>1, <4>1, NoOwnerNoLease
    <3> QED BY <2>1, <2>3, <3>1 DEF OneOwner
  <2> QED BY <1>3, <2>2, <2>3, ClaimFacts
<1>4. ASSUME NEW p \in Proc, Crash(p) PROVE OneOwner'
  BY <1>2, <1>4 DEF Crash
<1>5. ASSUME NEW p \in Proc, Release(p) PROVE OneOwner'
  <2>1. flock = p
    BY <1>5 DEF Release, Leases, Taken, OneOwner
  <2> QED BY <1>2, <1>5, <2>1 DEF Release
<1>6. ASSUME NEW p \in Proc, BeginMutation(p) PROVE OneOwner'
  <2>1. flock = NoProc /\ UNCHANGED <<active, recovering>>
    BY <1>6 DEF BeginMutation, Free
  <2>2. CASE UNCHANGED <<flock, lifeRun>>
    BY <1>1, <2>1, <2>2
  <2>3. CASE flock' = p /\ lifeRun' = [lifeRun EXCEPT ![p] = Mutation]
    BY <2>1, <2>3, NoOwnerNoLease DEF OneOwner, TypeOK
  <2> QED BY <1>6, <2>2, <2>3 DEF BeginMutation
<1>7. ASSUME NEW p \in Proc, EndMutation(p) PROVE OneOwner'
  <2>1. flock = p /\ \A k \in Key : active[p][k] = NoRun /\ recovering[p][k] = NoRun
    BY <1>7 DEF EndMutation, OneOwner, TypeOK, Slots
  <2> QED BY <1>7, <2>1 DEF EndMutation, OneOwner, TypeOK
<1> QED
  BY <1>1, <1>3, <1>4, <1>5, <1>6, <1>7
  DEF Next, Settle, Start, Inspect, ClaimRefused, Post, Accounted, MarkAmbiguous, HoldNondurable,
      RecordCancelIntent, CompactCancelIntent, PollStop, Acknowledge, Reread, vars, procVars

\* Paid leases of two backends, or a paid lease and a graph mutation of
\* another backend, never coexist (_acquire_lifecycle, exclusive_lifecycle).
THEOREM OneOwnerAlways == Spec => []OneOwner
<1>1. Init => OneOwner
  BY DEF Init, OneOwner, NoRecord
<1> QED BY <1>1, OwnerStep, TypeCorrect, PTL DEF Spec

-----------------------------------------------------------------------------
(* A start that may be billed is never forgotten and never paid for twice. *)

Covered == PossiblyBilledIsHeld /\ NoSecondStart /\ LeasesAreCovered

\* A step that keeps every hold and intent of the file, and drops a hold of
\* memory only behind one on disk, keeps the starts covered.
LEMMA QuietStep ==
  ASSUME TypeOK, TypeOK', OneOwner, OneOwner', Covered, Keeps(disk'),
         Over(disk) => disk' = disk,
         \A p \in Proc, k \in Key : hold[p][k] # NoRun => hold'[p][k] # NoRun \/ disk'.amb[k] # NoRun,
         UNCHANGED <<active, phase>>, owed' \subseteq owed,
         \A p \in Proc : lifeRun'[p] \in Run => lifeRun'[p] = lifeRun[p]
  PROVE  Covered'
<1>1. PossiblyBilledIsHeld'
  BY DEF Covered, PossiblyBilledIsHeld, Keeps, TypeOK
<1>2. NoSecondStart'
  BY DEF Covered, NoSecondStart
<1>3. ASSUME NEW p \in Proc, NEW k \in Key, active[p][k] # NoRun
      PROVE  /\ disk'.amb[k] # NoRun \/ disk'.pend[k] = active[p][k]
             /\ phase[p][k] = "settled" /\ StartOf(p, k) \in owed =>
                  disk'.amb[k] # NoRun \/ hold'[p][k] # NoRun \/ Over(disk')
  BY <1>3 DEF Covered, LeasesAreCovered, Leased, Keeps, TypeOK
<1>4. ASSUME NEW p \in Proc, NEW k \in Key, lifeRun'[p] \in Run, disk'.pend[k] # NoRun
      PROVE  disk'.pend[k] = active[p][k]
  BY <1>4 DEF Covered, LeasesAreCovered, Keeps
<1>5. LeasesAreCovered'
  BY <1>3, <1>4 DEF Covered, LeasesAreCovered, Leased, StartOf
<1> QED BY <1>1, <1>2, <1>5 DEF Covered

\* With no lease and no lifecycle run there is nothing to cover but the debt.
LEMMA IdleStep ==
  ASSUME TypeOK', OneOwner', flock' = NoProc, PossiblyBilledIsHeld', NoSecondStart'
  PROVE  Covered'
<1>1. \A p \in Proc : lifeRun'[p] = NoRun /\ \A k \in Key : active'[p][k] = NoRun
  BY DEF OneOwner
<1> QED BY <1>1 DEF Covered, LeasesAreCovered, Leased

\* While p has a paid lease, it has the only leases, all of its lifecycle run.
LEMMA LeaseFacts ==
  ASSUME TypeOK, OneOwner, NEW p \in Proc, Leases(p) # {}
  PROVE  /\ flock = p /\ lifeRun[p] \in Run
         /\ \A q \in Proc \ {p}, k \in Key : lifeRun[q] = NoRun /\ active[q][k] = NoRun
<1>1. PICK k \in Key : active[p][k] # NoRun \/ recovering[p][k] # NoRun
  BY DEF Leases, Taken
<1>2. lifeRun[p] \in Run
  BY <1>1 DEF TypeOK, OneOwner, Slots
<1>3. flock = p
  BY <1>2 DEF OneOwner
<1> QED BY <1>2, <1>3 DEF OneOwner

\* A backend that dies leaves the file as it was, and no lease of its own.
LEMMA CrashStep ==
  ASSUME TypeOK, TypeOK', OneOwner, OneOwner', Covered, NEW p \in Proc, Crash(p)
  PROVE  Covered'
<1>1. /\ UNCHANGED <<disk, owed>>
      /\ \A k \in Key : active'[p][k] = NoRun
      /\ lifeRun'[p] = NoRun
      /\ \A q \in Proc \ {p} : /\ active'[q] = active[q] /\ phase'[q] = phase[q]
                               /\ hold'[q] = hold[q] /\ lifeRun'[q] = lifeRun[q]
  BY DEF Crash, TypeOK, NoRecord, history
<1>2. PossiblyBilledIsHeld' /\ NoSecondStart' /\ (Over(disk) <=> Over(disk'))
  BY <1>1 DEF Covered, PossiblyBilledIsHeld, NoSecondStart
<1>3. ASSUME NEW q \in Proc, NEW k \in Key, active'[q][k] # NoRun
      PROVE  /\ q # p /\ active[q][k] # NoRun /\ active'[q][k] = active[q][k]
             /\ phase'[q][k] = phase[q][k] /\ hold'[q][k] = hold[q][k]
  BY <1>1, <1>3
<1>4. ASSUME NEW q \in Proc, NEW k \in Key, lifeRun'[q] \in Run, disk'.pend[k] # NoRun
      PROVE  disk'.pend[k] = active'[q][k]
  BY <1>1, <1>4 DEF Covered, LeasesAreCovered
<1>5. ASSUME NEW q \in Proc, NEW k \in Key, active'[q][k] # NoRun
      PROVE  /\ phase'[q][k] # "none"
             /\ disk'.amb[k] # NoRun \/ disk'.pend[k] = active'[q][k]
             /\ phase'[q][k] = "ready" => <<k, active'[q][k]>> \notin owed'
             /\ phase'[q][k] = "settled" /\ <<k, active'[q][k]>> \in owed' =>
                  disk'.amb[k] # NoRun \/ hold'[q][k] # NoRun \/ Over(disk')
             /\ \A s \in owed' : KindOf[s[1]] = KindOf[k] => s[2] = active'[q][k]
  BY <1>1, <1>2, <1>3, <1>5 DEF Covered, LeasesAreCovered, Leased, StartOf
<1>6. LeasesAreCovered'
  BY <1>4, <1>5 DEF LeasesAreCovered, Leased, StartOf
<1> QED BY <1>2, <1>6 DEF Covered

\* The file still shows every start that is owed.
LEMMA DebtFacts ==
  ASSUME TypeOK, PossiblyBilledIsHeld, NEW s \in owed
  PROVE  /\ s[1] \in Key /\ s[2] \in Run
         /\ disk.amb[s[1]] # NoRun \/ (disk.pend[s[1]] = s[2] /\ disk.pend[s[1]] # NoRun)
<1>1. s \in Key \X Run
  BY DEF TypeOK
<1>2. s[1] \in Key /\ s[2] \in Run
  BY <1>1
<1>3. disk.amb[s[1]] # NoRun \/ disk.pend[s[1]] = s[2]
  BY DEF PossiblyBilledIsHeld
<1> QED BY <1>2, <1>3

\* A claim makes an intent of every start it leases, in a file that shows every debt.
LEMMA ClaimStep ==
  ASSUME TypeOK, TypeOK', OneOwner, OneOwner', Covered,
         NEW p \in Proc, NEW r \in Run, NEW K \in SUBSET Key, NEW R \in SUBSET Key,
         Claim(p, r, K, R)
  PROVE  Covered'
<1>1. /\ flock = NoProc /\ owed' = owed
      /\ \A k \in K, h \in Key : Recovered(p).amb[h] # NoRun => KindOf[h] # KindOf[k]
  BY DEF Claim, ClaimGuard, Free, Blocked, Taken, history
<1>2. PICK w \in Writes : Persist(p, Intended(p, r, K), w)
  BY DEF Claim
<1>3. disk' \in {disk, Intended(p, r, K)}
  BY <1>2, IntendedFacts, PersistFacts
<1>4. ASSUME NEW s \in owed PROVE s[1] \in Key /\ Recovered(p).amb[s[1]] # NoRun
  BY DebtFacts, RecoveredFacts DEF Covered
<1>5. PossiblyBilledIsHeld' /\ NoSecondStart'
  BY <1>1, <1>3, <1>4, IntendedFacts DEF Covered, PossiblyBilledIsHeld, NoSecondStart
<1>6. CASE UNCHANGED <<flock, lifeRun, active, recovering, phase>>
  BY <1>1, <1>5, <1>6, IdleStep
<1>7. CASE /\ disk' = Intended(p, r, K) /\ flock' = p /\ lifeRun'[p] = r
           /\ \A k \in Key :
                /\ active'[p][k] = IF k \in K THEN r ELSE NoRun
                /\ recovering'[p][k] = IF k \in R THEN r ELSE NoRun
                /\ phase'[p][k] = IF k \in K THEN "ready" ELSE "none"
  <2>1. ASSUME NEW q \in Proc \ {p}
        PROVE  lifeRun'[q] = NoRun /\ \A k \in Key : active'[q][k] = NoRun
    BY <1>7, TypeOK', OneOwner' DEF OneOwner
  <2>2. \A s \in owed, k \in K : KindOf[s[1]] # KindOf[k]
    BY <1>1, <1>4
  <2>3. ASSUME NEW k \in K
        PROVE  /\ active'[p][k] = r /\ phase'[p][k] = "ready" /\ disk'.pend[k] = r
               /\ StartOf(p, k)' \notin owed'
    BY <1>1, <1>7, <2>2, IntendedFacts DEF StartOf
  <2>4. \A k \in Key : disk'.pend[k] # NoRun => disk'.pend[k] = active'[p][k]
    BY <1>7, IntendedFacts
  <2>5. \A k \in Key : active'[p][k] # NoRun => k \in K
    BY <1>7
  <2>6. LeasesAreCovered'
    BY <1>1, <2>1, <2>2, <2>3, <2>4, <2>5 DEF LeasesAreCovered, Leased
  <2> QED BY <1>5, <2>6 DEF Covered
<1> QED BY <1>6, <1>7, ClaimFacts

\* The POST of a lease, and an answer that accounts for it, keep it covered.
LEMMA HandlerStep ==
  ASSUME TypeOK, TypeOK', OneOwner, OneOwner', Covered, NEW p \in Proc, NEW k \in Key,
         Post(p, k) \/ Accounted(p, k)
  PROVE  Covered'
<1>1. /\ active[p][k] # NoRun
      /\ UNCHANGED <<disk, hold, active, lifeRun>>
      /\ \/ phase[p][k] = "ready" /\ phase'[p][k] = "sent" /\ owed' = owed \cup {<<k, active[p][k]>>}
         \/ phase[p][k] = "sent" /\ phase'[p][k] = "settled" /\ owed' = owed \ {<<k, active[p][k]>>}
      /\ \A q \in Proc, i \in Key : q # p \/ i # k => phase'[q][i] = phase[q][i]
  <2>1. "sent" \in Phases /\ "settled" \in Phases
    BY DEF Phases
  <2>2. CASE Post(p, k)
    BY <2>1, <2>2, StepFacts DEF Post, Leased, StartOf, guardVars
  <2>3. CASE Accounted(p, k)
    BY <2>1, <2>3, StepFacts DEF Accounted, Leased, StartOf, guardVars
  <2> QED BY <2>2, <2>3
<1>2. \A q \in Proc, i \in Key : active[q][i] # NoRun => q = p /\ active[q][i] = active[p][k]
  BY <1>1 DEF OneOwner
<1>3. PossiblyBilledIsHeld'
  BY <1>1 DEF Covered, PossiblyBilledIsHeld, LeasesAreCovered, Leased
<1>4. \A s \in owed : KindOf[s[1]] = KindOf[k] => s[2] = active[p][k]
  BY <1>1 DEF Covered, LeasesAreCovered, Leased
<1>5. NoSecondStart'
  BY <1>1, <1>4 DEF Covered, NoSecondStart
<1>6. ASSUME NEW i \in Key, active[p][i] # NoRun
      PROVE  /\ phase'[p][i] # "none"
             /\ disk.amb[i] # NoRun \/ disk.pend[i] = active[p][i]
             /\ phase'[p][i] = "ready" => <<i, active[p][i]>> \notin owed'
             /\ phase'[p][i] = "settled" /\ <<i, active[p][i]>> \in owed' =>
                  disk.amb[i] # NoRun \/ hold[p][i] # NoRun \/ Over(disk)
             /\ \A s \in owed' : KindOf[s[1]] = KindOf[i] => s[2] = active[p][i]
  <2>1. active[p][i] = active[p][k]
    BY <1>2, <1>6
  <2>2. CASE i = k
    BY <1>1, <1>4, <2>2 DEF Covered, LeasesAreCovered, Leased
  <2>3. CASE i # k
    BY <1>1, <1>6, <2>1, <2>3 DEF Covered, LeasesAreCovered, Leased, StartOf
  <2> QED BY <2>2, <2>3
<1>7. \A q \in Proc, i \in Key :
        lifeRun[q] \in Run /\ disk.pend[i] # NoRun => disk.pend[i] = active[q][i]
  BY DEF Covered, LeasesAreCovered
<1>8. LeasesAreCovered'
  BY <1>1, <1>2, <1>6, <1>7 DEF LeasesAreCovered, Leased, StartOf
<1> QED BY <1>3, <1>5, <1>8 DEF Covered

\* Where the mark itself cannot fail to read, a settled doubtful start is held.
LEMMA SettleStep ==
  ASSUME TypeOK, TypeOK', OneOwner, OneOwner', Covered, "mark" \notin Unreadable,
         NEW p \in Proc, NEW k \in Key, MarkAmbiguous(p, k) \/ HoldNondurable(p, k)
  PROVE  Covered'
<1>1. /\ active[p][k] # NoRun /\ phase[p][k] \in {"sent", "doubt"} /\ phase'[p][k] \in {"doubt", "settled"}
      /\ \A q \in Proc, i \in Key : q # p \/ i # k => phase'[q][i] = phase[q][i]
      /\ UNCHANGED <<active, lifeRun, owed>>
  <2>1. "doubt" \in Phases /\ "settled" \in Phases
    BY DEF Phases
  <2>2. CASE MarkAmbiguous(p, k)
    BY <2>1, <2>2, StepFacts DEF MarkAmbiguous, Leased, history
  <2>3. CASE HoldNondurable(p, k)
    BY <2>1, <2>3, StepFacts DEF HoldNondurable, Leased, history
  <2> QED BY <2>2, <2>3
<1>2. \/ Hold(p, k)
      \/ Over(disk) /\ UNCHANGED <<disk, hold>>
  BY DEF MarkAmbiguous, HoldNondurable, Unread
<1>3. /\ Keeps(disk')
      /\ Over(disk) => disk' = disk
      /\ \A q \in Proc, i \in Key : hold[q][i] # NoRun => hold'[q][i] # NoRun \/ disk'.amb[i] # NoRun
      /\ disk'.amb[k] # NoRun \/ hold'[p][k] # NoRun \/ Over(disk')
  <2>1. CASE Hold(p, k)
    <3>1. disk' \in {disk, Held(p, k)} /\ ~Over(disk)
      BY <1>1, <2>1, HoldFacts DEF Hold, Readable
    <3>2. Keeps(disk) /\ Keeps(Held(p, k))
      BY <1>1, HeldFacts DEF Keeps
    <3> QED BY <1>1, <2>1, <3>1, <3>2, HoldFacts
  <2>2. CASE Over(disk) /\ UNCHANGED <<disk, hold>>
    BY <2>2 DEF Keeps
  <2> QED BY <1>2, <2>1, <2>2
<1>4. PossiblyBilledIsHeld' /\ NoSecondStart'
  BY <1>1, <1>3, DebtFacts DEF Covered, PossiblyBilledIsHeld, NoSecondStart, Keeps
<1>5. ASSUME NEW q \in Proc, NEW i \in Key, active[q][i] # NoRun
      PROVE  /\ phase'[q][i] # "none"
             /\ disk'.amb[i] # NoRun \/ disk'.pend[i] = active[q][i]
             /\ phase'[q][i] = "ready" => <<i, active[q][i]>> \notin owed
             /\ phase'[q][i] = "settled" /\ <<i, active[q][i]>> \in owed =>
                  disk'.amb[i] # NoRun \/ hold'[q][i] # NoRun \/ Over(disk')
             /\ \A s \in owed : KindOf[s[1]] = KindOf[i] => s[2] = active[q][i]
  <2>1. /\ phase[q][i] # "none"
        /\ disk.amb[i] # NoRun \/ disk.pend[i] = active[q][i]
        /\ phase[q][i] = "ready" => <<i, active[q][i]>> \notin owed
        /\ phase[q][i] = "settled" /\ <<i, active[q][i]>> \in owed =>
             disk.amb[i] # NoRun \/ hold[q][i] # NoRun \/ Over(disk)
        /\ \A s \in owed : KindOf[s[1]] = KindOf[i] => s[2] = active[q][i]
    BY <1>5 DEF Covered, LeasesAreCovered, Leased, StartOf
  <2>2. disk'.amb[i] # NoRun \/ disk'.pend[i] = active[q][i]
    BY <1>3, <1>5, <2>1 DEF Keeps
  <2>3. CASE q = p /\ i = k
    BY <1>1, <1>3, <2>1, <2>2, <2>3
  <2>4. CASE q # p \/ i # k
    <3>1. phase'[q][i] = phase[q][i]
      BY <1>1, <2>4
    <3>2. disk.amb[i] # NoRun \/ hold[q][i] # NoRun \/ Over(disk) =>
            disk'.amb[i] # NoRun \/ hold'[q][i] # NoRun \/ Over(disk')
      BY <1>3 DEF Keeps
    <3> QED BY <2>1, <2>2, <3>1, <3>2
  <2> QED BY <2>3, <2>4
<1>6. ASSUME NEW q \in Proc, NEW i \in Key, lifeRun[q] \in Run, disk'.pend[i] # NoRun
      PROVE  disk'.pend[i] = active[q][i]
  BY <1>3, <1>6 DEF Covered, LeasesAreCovered, Keeps
<1>7. LeasesAreCovered'
  BY <1>1, <1>5, <1>6 DEF LeasesAreCovered, Leased, StartOf
<1> QED BY <1>4, <1>7 DEF Covered

\* release_run drops the intents of its run only: what the run owes has a hold.
LEMMA ReleaseStep ==
  ASSUME TypeOK, TypeOK', OneOwner, OneOwner', Covered, NEW p \in Proc, Release(p)
  PROVE  Covered'
<1>1. /\ Leases(p) # {} /\ flock' = NoProc /\ owed' = owed
      /\ \A k \in Key : phase[p][k] \notin {"sent", "doubt"}
  BY DEF Release, history
<1>2. lifeRun[p] \in Run
  BY <1>1, LeaseFacts
<1>3. \/ ~Over(disk) /\ disk' \in {disk, Closed(p, Leases(p))}
      \/ disk' = disk
  BY ReleaseFacts DEF Release, Readable
<1>4. Leases(p) \in SUBSET Key
  BY DEF Leases, Taken
<1>5. ASSUME NEW s \in owed, ~Over(disk)
      PROVE  \/ Closed(p, Leases(p)).amb[s[1]] # NoRun
             \/ Closed(p, Leases(p)).pend[s[1]] = s[2]
  <2> DEFINE k == s[1]
  <2>1. s = <<k, s[2]>> /\ k \in Key /\ (disk.amb[k] # NoRun \/ (disk.pend[k] = s[2] /\ disk.pend[k] # NoRun))
    <3>1. s \in Key \X Run
      BY DEF TypeOK
    <3> QED BY <3>1, DebtFacts DEF Covered
  <2>2. CASE disk.amb[k] # NoRun \/ hold[p][k] # NoRun
    BY <1>4, <2>1, <2>2, ClosedFacts
  <2>3. CASE disk.amb[k] = NoRun /\ hold[p][k] = NoRun
    <3>1. disk.pend[k] = s[2] /\ active[p][k] = s[2] /\ active[p][k] # NoRun
      BY <1>2, <2>1, <2>3 DEF Covered, LeasesAreCovered
    <3>2. s = StartOf(p, k)
      BY <2>1, <3>1 DEF StartOf
    <3>3. phase[p][k] \notin {"none", "ready", "settled"}
      BY <1>5, <2>1, <2>3, <3>1, <3>2 DEF Covered, LeasesAreCovered, Leased
    <3>4. phase[p][k] \in Phases
      BY <2>1 DEF TypeOK
    <3> QED BY <1>1, <2>1, <3>3, <3>4 DEF Phases
  <2> QED BY <2>2, <2>3
<1>6. PossiblyBilledIsHeld'
  BY <1>1, <1>3, <1>5 DEF Covered, PossiblyBilledIsHeld
<1>7. NoSecondStart'
  BY <1>1 DEF Covered, NoSecondStart
<1> QED BY <1>1, <1>6, <1>7, IdleStep

\* A person unlocks one node, while nothing is leased.
LEMMA AcknowledgeStep ==
  ASSUME TypeOK, TypeOK', OneOwner, OneOwner', Covered,
         NEW p \in Proc, NEW k \in Key, NEW r \in Run, Acknowledge(p, k, r)
  PROVE  Covered'
<1>1. /\ flock = NoProc /\ flock' = flock
      /\ owed' = {s \in owed : s[1] # k}
      /\ disk' \in {disk, Unlocked(p, k)}
  BY UnlockedFacts, PersistFacts DEF Acknowledge, Free
<1>2. ASSUME NEW s \in owed, s[1] # k
      PROVE  disk'.amb[s[1]] # NoRun \/ disk'.pend[s[1]] = s[2]
  BY <1>1, <1>2, DebtFacts, UnlockedFacts, RecoveredFacts DEF Covered
<1>3. PossiblyBilledIsHeld' /\ NoSecondStart'
  BY <1>1, <1>2 DEF Covered, PossiblyBilledIsHeld, NoSecondStart
<1> QED BY <1>1, <1>3, IdleStep

\* Each step keeps every start that may be billed covered.
LEMMA CoverStep ==
  ASSUME "mark" \notin Unreadable
  PROVE  TypeOK /\ OneOwner /\ Covered /\ [Next]_vars => Covered'
<1> SUFFICES ASSUME TypeOK, OneOwner, Covered, [Next]_vars PROVE Covered'
  OBVIOUS
<1>1. TypeOK' /\ OneOwner'
  BY TypeStep, OwnerStep
<1> DEFINE Forgets == \E p \in Proc, k \in Key :
                        hold[p][k] # NoRun /\ hold'[p][k] = NoRun /\ disk'.amb[k] = NoRun
<1>2. Keeps(disk)
  BY DEF Keeps
<1>3. ASSUME NEW p \in Proc, Start(p) \/ Inspect(p) PROVE Covered'
  <2>1. \/ UNCHANGED <<disk, hold>>
        \/ PromoteAbandoned(p) /\ Readable
    BY <1>3 DEF Start, Inspect
  <2>2. Keeps(disk') /\ ~Forgets /\ (Over(disk) => disk' = disk)
    BY <1>2, <2>1, PromoteFacts, RecoveredFacts DEF Readable
  <2> QED BY <1>1, <1>3, <2>2, QuietStep DEF Start, Inspect, procVars, history
<1>4. ASSUME NEW p \in Proc, NEW r \in Run, NEW K \in SUBSET Key, ClaimRefused(p, r, K)
      PROVE  Covered'
  <2>1. Keeps(disk') /\ ~Forgets /\ ~Over(disk)
    BY <1>2, <1>4, RecoveredFacts, PersistFacts DEF ClaimRefused, ClaimGuard, Readable
  <2> QED BY <1>1, <1>4, <2>1, QuietStep DEF ClaimRefused, procVars, history
<1>5. ASSUME NEW p \in Proc, NEW r \in Run, RecordCancelIntent(p, r) \/ CompactCancelIntent(p, r)
      PROVE  Covered'
  <2>1. Keeps(disk') /\ ~Forgets /\ ~Over(disk)
    BY <1>2, <1>5, StopFacts, PersistFacts DEF RecordCancelIntent, CompactCancelIntent, Readable
  <2> QED BY <1>1, <1>5, <2>1, QuietStep DEF RecordCancelIntent, CompactCancelIntent, procVars, history
<1>6. ASSUME NEW p \in Proc, BeginMutation(p) PROVE Covered'
  <2>1. Keeps(disk') /\ ~Forgets /\ ~Over(disk)
    BY <1>2, <1>6, RecoveredFacts, PersistFacts DEF BeginMutation, Readable
  <2>2. \A q \in Proc : lifeRun'[q] \in Run => lifeRun'[q] = lifeRun[q]
    BY <1>6 DEF BeginMutation, TypeOK
  <2> QED BY <1>1, <1>6, <2>1, <2>2, QuietStep DEF BeginMutation, history
<1>7. ASSUME NEW p \in Proc, EndMutation(p) PROVE Covered'
  <2>1. \A q \in Proc : lifeRun'[q] \in Run => lifeRun'[q] = lifeRun[q]
    BY <1>7 DEF EndMutation, TypeOK
  <2> QED BY <1>1, <1>2, <1>7, <2>1, QuietStep DEF EndMutation, guardVars, history
<1>8. CASE UNCHANGED <<disk, flock, lifeRun, active, recovering, phase, hold, owed>>
  BY <1>1, <1>2, <1>8, QuietStep
<1> QED
  BY <1>1, <1>3, <1>4, <1>5, <1>6, <1>7, <1>8,
     CrashStep, ClaimStep, HandlerStep, SettleStep, ReleaseStep, AcknowledgeStep
  DEF Next, Settle, PollStop, Reread, vars, procVars, guardVars, history

\* Every reachable state covers every start that may be billed.
LEMMA CoverAlways ==
  ASSUME "mark" \notin Unreadable
  PROVE  Spec => []Covered
<1>1. Init => Covered
  BY DEF Init, Covered, PossiblyBilledIsHeld, NoSecondStart, LeasesAreCovered, Leased, NoRecord, Empty
<1>2. TypeOK /\ OneOwner /\ Covered /\ [Next]_vars => Covered'
  BY CoverStep
<1> QED BY <1>1, <1>2, TypeCorrect, OneOwnerAlways, PTL DEF Spec

\* Whatever crashes, fails to save or is stopped, a start that may have been
\* billed stays on disk as a hold or as its own intent -- as long as the mark
\* of an ambiguous answer can read the journal (the run GuardUnreadMark shows
\* that it must).
THEOREM PossiblyBilledStarts ==
  ASSUME "mark" \notin Unreadable
  PROVE  Spec => []PossiblyBilledIsHeld
<1>1. Covered => PossiblyBilledIsHeld
  BY DEF Covered
<1> QED BY <1>1, CoverAlways, PTL

\* Under the same condition no run pays for a start while a start of the same
\* kind by another run may still be billed.
THEOREM NoSecondStarts ==
  ASSUME "mark" \notin Unreadable
  PROVE  Spec => []NoSecondStart
<1>1. Covered => NoSecondStart
  BY DEF Covered
<1> QED BY <1>1, CoverAlways, PTL

\* Under the same condition every paid lease is covered by a hold or by its own
\* intent, and was admitted while nothing of its kind was owed
\* (ProviderStartGuard.claim, _merge_nondurable_holds_locked).
THEOREM LeasesCoveredAlways ==
  ASSUME "mark" \notin Unreadable
  PROVE  Spec => []LeasesAreCovered
<1>1. Covered => LeasesAreCovered
  BY DEF Covered
<1> QED BY <1>1, CoverAlways, PTL

-----------------------------------------------------------------------------
(* The guard implements the ledger of PaidStarts.                          *)

\* A start runs while some backend holds its paid lease.
LEMMA RunningFacts ==
  ASSUME TypeOK
  PROVE  \A s : s \in RunningStarts <=>
                  \E p \in Proc, k \in Key : active[p][k] # NoRun /\ s = <<k, active[p][k]>>
<1>1. \A p \in Proc, k \in Key : active[p][k] \in Run \cup {NoRun}
  BY DEF TypeOK, Slots
<1>2. \A s \in RunningStarts : \E p \in Proc, k \in Key : s = <<k, active[p][k]>> /\ s \in Key \X Run
  BY DEF RunningStarts
<1>3. ASSUME NEW p \in Proc, NEW k \in Key, active[p][k] # NoRun
      PROVE  <<k, active[p][k]>> \in RunningStarts
  BY <1>1, <1>3 DEF RunningStarts
<1> QED BY <1>1, <1>2, <1>3

\* While nobody holds the lifecycle no start runs.
LEMMA NothingRuns ==
  ASSUME TypeOK, OneOwner, flock = NoProc
  PROVE  RunningStarts = {}
  BY NoOwnerNoLease, RunningFacts

\* A step that leaves the leases leaves the running starts.
LEMMA SameLeases == active' = active => RunningStarts' = RunningStarts
  BY DEF RunningStarts

\* A backend that dies, or a run that is over, ends what ran in that backend.
LEMMA EndSteps ==
  ASSUME TypeOK, TypeOK', OneOwner, NEW p \in Proc, active' = [active EXCEPT ![p] = NoRecord],
         UNCHANGED <<owed, stopped>>
  PROVE  Ledger!End \/ UNCHANGED <<RunningStarts, owed, stopped>>
<1>1. CASE Leases(p) # {}
  <2>1. \A q \in Proc, k \in Key : active'[q][k] = NoRun
    BY <1>1, LeaseFacts DEF TypeOK, NoRecord
  <2>2. RunningStarts' = {}
    BY <2>1 DEF RunningStarts
  <2> QED BY <2>2 DEF Ledger!End
<1>2. CASE Leases(p) = {}
  <2>1. \A k \in Key : active[p][k] = NoRun
    BY <1>2 DEF Leases, Taken
  <2>2. active[p] \in [Key -> Run \cup {NoRun}]
    BY DEF TypeOK, Slots
  <2>3. active[p] = NoRecord
    BY <2>1, <2>2 DEF NoRecord
  <2>4. active' = active
    BY <2>3 DEF TypeOK
  <2> QED BY <2>4, SameLeases
<1> QED BY <1>1, <1>2

\* A claim that takes the lifecycle admits its run alone, before any Stop of it, and with
\* no kind that is owed (ProviderStartGuard.claim).
LEMMA AdmitStep ==
  ASSUME TypeOK, TypeOK', OneOwner, Covered, StopIsPermanent,
         NEW p \in Proc, NEW r \in Run, NEW K \in SUBSET Key, NEW R \in SUBSET Key,
         Claim(p, r, K, R)
  PROVE  Ledger!Admit(r, K) \/ UNCHANGED <<RunningStarts, owed, stopped>>
<1>1. /\ flock = NoProc /\ owed' = owed /\ stopped' = stopped /\ ~Denied(disk, r)
      /\ \A k \in K, h \in Key : Recovered(p).amb[h] # NoRun => KindOf[h] # KindOf[k]
  BY DEF Claim, ClaimGuard, Free, Admissible, Blocked, Taken, history
<1>2. CASE active' = active
  BY <1>1, <1>2, SameLeases
<1>3. CASE \A k \in Key : active'[p][k] = IF k \in K THEN r ELSE NoRun
  <2>1. RunningStarts = {}
    BY <1>1, NothingRuns
  <2>2. r \notin stopped
    BY <1>1 DEF StopIsPermanent
  <2>3. ASSUME NEW s \in owed, NEW k \in K PROVE KindOf[s[1]] # KindOf[k]
    <3>1. s[1] \in Key /\ Recovered(p).amb[s[1]] # NoRun
      BY DebtFacts, RecoveredFacts DEF Covered
    <3> QED BY <1>1, <3>1
  <2>4. \A q \in Proc \ {p}, k \in Key : active'[q][k] = NoRun
    <3>1. \A q \in Proc \ {p} : active'[q] = active[q]
      BY ClaimFacts
    <3> QED BY <1>1, <3>1, NoOwnerNoLease
  <2>5. ASSUME NEW s PROVE s \in RunningStarts' <=> s \in K \X {r}
    <3>1. s \in RunningStarts' <=> s \in Key \X Run /\ \E q \in Proc, k \in Key : s = <<k, active'[q][k]>>
      BY DEF RunningStarts
    <3>2. s \in Key \X Run => s[2] # NoRun
      OBVIOUS
    <3>3. s \in RunningStarts' <=> s \in Key \X Run /\ \E k \in Key : s = <<k, active'[p][k]>>
      BY <2>4, <3>1, <3>2
    <3>4. s \in RunningStarts' <=> \E k \in K : s = <<k, r>>
      BY <1>3, <3>2, <3>3
    <3> QED BY <3>4
  <2>6. RunningStarts' = K \X {r}
    BY <2>5
  <2> QED BY <1>1, <2>1, <2>2, <2>3, <2>6 DEF Ledger!Admit
<1>4. \/ active' = active
      \/ \A k \in Key : active'[p][k] = IF k \in K THEN r ELSE NoRun
  BY ClaimFacts
<1> QED BY <1>2, <1>3, <1>4

\* A POST sends, and an answer accounts for, a start that runs.
LEMMA HandlerRefines ==
  ASSUME TypeOK, NEW p \in Proc, NEW k \in Key, Post(p, k) \/ Accounted(p, k)
  PROVE  \E s \in Key \X Run : Ledger!Send(s) \/ Ledger!Account(s)
<1>1. active[p][k] # NoRun /\ active' = active /\ stopped' = stopped
  BY DEF Post, Accounted, Leased
<1>2. StartOf(p, k) \in Key \X Run
  BY <1>1 DEF StartOf, TypeOK, Slots
<1>3. StartOf(p, k) \in RunningStarts /\ RunningStarts' = RunningStarts
  BY <1>1, RunningFacts, SameLeases DEF StartOf
<1>4. owed' = owed \cup {StartOf(p, k)} \/ owed' = owed \ {StartOf(p, k)}
  BY DEF Post, Accounted
<1> QED BY <1>1, <1>2, <1>3, <1>4 DEF Ledger!Send, Ledger!Account

\* Each step of the guard is one step of the ledger, or none.
LEMMA RefineStep ==
  ASSUME TypeOK, TypeOK', OneOwner, Covered, StopIsPermanent, [Next]_vars
  PROVE  [Ledger!Next]_<<RunningStarts, owed, stopped>>
<1> DEFINE Refined == [Ledger!Next]_<<RunningStarts, owed, stopped>>
<1>1. ASSUME NEW p \in Proc, Crash(p) \/ Release(p) PROVE Refined
  BY <1>1, EndSteps DEF Crash, Release, history, Ledger!Next
<1>2. ASSUME NEW p \in Proc, NEW r \in Run, NEW K \in SUBSET Key, NEW R \in SUBSET Key,
             Claim(p, r, K, R)
      PROVE  Refined
  BY <1>2, AdmitStep DEF Ledger!Next
<1>3. ASSUME NEW p \in Proc, NEW k \in Key, Post(p, k) \/ Accounted(p, k) PROVE Refined
  BY <1>3, HandlerRefines DEF Ledger!Next
<1>4. ASSUME NEW p \in Proc, NEW r \in Run, RecordCancelIntent(p, r) PROVE Refined
  <2>1. active' = active /\ owed' = owed /\ stopped' \in {stopped, stopped \cup {r}}
    BY <1>4 DEF RecordCancelIntent, procVars
  <2> QED BY <2>1, SameLeases DEF Ledger!Next, Ledger!Stop
<1>5. ASSUME NEW p \in Proc, NEW k \in Key, NEW r \in Run, Acknowledge(p, k, r) PROVE Refined
  <2>1. flock = NoProc /\ active' = active /\ stopped' = stopped /\ owed' = {s \in owed : s[1] # k}
    BY <1>5 DEF Acknowledge, Free, procVars
  <2> QED BY <2>1, NothingRuns, SameLeases DEF Ledger!Next, Ledger!Unlock
<1>6. CASE UNCHANGED <<active, owed, stopped>>
  BY <1>6, SameLeases
<1> QED
  BY <1>1, <1>2, <1>3, <1>4, <1>5, <1>6
  DEF Next, Settle, Start, Inspect, ClaimRefused, MarkAmbiguous, HoldNondurable, CompactCancelIntent,
      PollStop, Reread, BeginMutation, EndMutation, vars, procVars, history

\* Nobody is owed and nothing runs at first.
LEMMA RefineInit == Init => Ledger!Init
  BY DEF Init, Ledger!Init, RunningStarts, NoRecord

\* The guard implements the ledger its users rely on: through journals, promotions, failed
\* writes and crashes a run starts alone, not after its Stop and with no kind that is owed,
\* and what is owed goes only by an answer or by a person -- under the same condition.
THEOREM GuardImplementsLedger ==
  ASSUME "mark" \notin Unreadable
  PROVE  Spec => ImplementsPaidStarts
<1>1. TypeOK /\ TypeOK' /\ OneOwner /\ Covered /\ StopIsPermanent /\ [Next]_vars
        => [Ledger!Next]_<<RunningStarts, owed, stopped>>
  BY RefineStep
<1>2. Spec => []Covered
  BY CoverAlways
<1>3. Ledger!Spec <=> Ledger!Init /\ [][Ledger!Next]_<<RunningStarts, owed, stopped>>
  BY DEF Ledger!Spec, Ledger!vars
<1> QED BY RefineInit, <1>1, <1>2, <1>3, TypeCorrect, OneOwnerAlways, StopsAreKept, PTL DEF Spec, ImplementsPaidStarts

-----------------------------------------------------------------------------
(* A hold leaves the journal only by a person, alone, while nobody pays.   *)

LeavesAlone ==
  \A k \in Key : disk.amb[k] # NoRun /\ disk'.amb[k] = NoRun =>
    flock = NoProc /\ \A i \in Key \ {k} : disk.amb[i] # NoRun => disk'.amb[i] # NoRun

\* No step but an acknowledgement writes a journal with fewer holds (_reload_locked,
\* _promote_pending_locked, release_run).
LEMMA LeaveStep == TypeOK /\ [Next]_vars => LeavesAlone
<1> SUFFICES ASSUME TypeOK, [Next]_vars PROVE LeavesAlone
  OBVIOUS
<1>0. CASE Keeps(disk')
  BY <1>0 DEF LeavesAlone, Keeps
<1>1. Keeps(disk)
  BY DEF Keeps
<1>2. ASSUME NEW p \in Proc, Start(p) \/ Inspect(p) PROVE Keeps(disk')
  BY <1>1, <1>2, PromoteFacts, RecoveredFacts DEF Start, Inspect
<1>3. ASSUME NEW p \in Proc, NEW r \in Run, NEW K \in SUBSET Key, NEW R \in SUBSET Key,
             Claim(p, r, K, R)
      PROVE  LeavesAlone
  <2>1. disk' \in {disk, Intended(p, r, K)}
    BY <1>3, IntendedFacts, PersistFacts DEF Claim
  <2> QED BY <2>1, IntendedFacts, RecoveredFacts DEF LeavesAlone
<1>4. ASSUME NEW p \in Proc, NEW r \in Run, NEW K \in SUBSET Key, ClaimRefused(p, r, K)
      PROVE  Keeps(disk')
  BY <1>1, <1>4, RecoveredFacts, PersistFacts DEF ClaimRefused
<1>5. ASSUME NEW p \in Proc, NEW k \in Key, MarkAmbiguous(p, k) \/ HoldNondurable(p, k)
      PROVE  Keeps(disk')
  BY <1>1, <1>5, HoldFacts, HeldFacts DEF MarkAmbiguous, HoldNondurable, Leased
<1>6. ASSUME NEW p \in Proc, Release(p) PROVE LeavesAlone
  <2>1. Leases(p) \in SUBSET Key
    BY DEF Leases, Taken
  <2>2. disk' \in {disk, Closed(p, Leases(p))}
    BY <1>6, ReleaseFacts
  <2>3. \A k \in Key : disk.amb[k] # NoRun => disk'.amb[k] # NoRun
    BY <2>1, <2>2, ClosedFacts
  <2> QED BY <2>3 DEF LeavesAlone
<1>7. ASSUME NEW p \in Proc, NEW r \in Run, RecordCancelIntent(p, r) \/ CompactCancelIntent(p, r)
      PROVE  Keeps(disk')
  BY <1>1, <1>7, StopFacts, PersistFacts DEF RecordCancelIntent, CompactCancelIntent
<1>8. ASSUME NEW p \in Proc, NEW k \in Key, NEW r \in Run, Acknowledge(p, k, r)
      PROVE  LeavesAlone
  <2>1. flock = NoProc /\ disk' \in {disk, Unlocked(p, k)}
    BY <1>8, UnlockedFacts, PersistFacts DEF Acknowledge, Free
  <2> QED BY <2>1, UnlockedFacts, RecoveredFacts DEF LeavesAlone
<1>9. ASSUME NEW p \in Proc, BeginMutation(p) PROVE Keeps(disk')
  BY <1>1, <1>9, RecoveredFacts, PersistFacts DEF BeginMutation
<1>10. CASE disk' = disk
  BY <1>10 DEF LeavesAlone
<1> QED
  BY <1>0, <1>2, <1>3, <1>4, <1>5, <1>6, <1>7, <1>8, <1>9, <1>10
  DEF Next, Settle, Crash, Post, Accounted, PollStop, Reread, EndMutation, vars

\* A hold goes only while no run and no edit owns the lifecycle, and takes no other hold
\* with it (acknowledge).
THEOREM HoldsLeaveAloneAlways == Spec => HoldsLeaveAlone
<1>1. TypeOK /\ [Next]_vars => [LeavesAlone]_vars
  BY LeaveStep
<1> QED BY <1>1, TypeCorrect, PTL DEF Spec, HoldsLeaveAlone, LeavesAlone
=============================================================================
