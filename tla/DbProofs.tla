------------------------------ MODULE DbProofs ------------------------------
(* The safety of Db and of CppDb for any keys, callers and clock bound, from  *)
(* the same facts about the index of deadlines.                               *)
EXTENDS Db, CppDb, WellFoundedInduction, TLAPS

\* The index of deadlines.

\* A non-empty set of instants has a least one.
LEMMA MinOfInstants ==
    ASSUME NEW S \in SUBSET Nat, S # {}
    PROVE  Min(S) \in S /\ \A t \in S : Min(S) <= t
<1> DEFINE Less == {p \in Nat \X Nat : p[1] < p[2]}
<1>1. IsWellFoundedOn(Less, Nat)
  BY NatLessThanWellFounded DEF OpToRel
<1> HIDE DEF Less
<1>2. \E x \in S : \A y \in S : <<y, x>> \notin Less
  BY <1>1, WFMin
<1>3. PICK x \in S : \A y \in S : <<y, x>> \notin Less
  BY <1>2
<1>4. ASSUME NEW y \in S
      PROVE  x <= y
  <2>1. x \in Nat /\ y \in Nat /\ <<y, x>> \notin Less
    BY <1>3
  <2> QED BY <2>1 DEF Less
<1> QED BY <1>3, <1>4 DEF Min

\* The purge task is told the earliest instant of the index (db.rs:333-340).
LEMMA NextExpirationIsEarliest ==
    ASSUME NEW exps \in SUBSET (Nat \X Keys)
    PROVE  /\ NextExpiration(exps) \in Nat \cup {None}
           /\ \A e \in exps : /\ NextExpiration(exps) # None
                              /\ NextExpiration(exps) <= e[1]
<1>1. CASE exps = {}
  BY <1>1 DEF NextExpiration
<1>2. CASE exps # {}
  <2> DEFINE S == {e[1] : e \in exps}
  <2>1. S \in SUBSET Nat /\ S # {}
    BY <1>2
  <2>2. Min(S) \in S /\ \A t \in S : Min(S) <= t
    BY <2>1, MinOfInstants
  <2>3. NextExpiration(exps) = Min(S)
    BY <1>2 DEF NextExpiration
  <2> QED BY <2>1, <2>2, <2>3, ExpirationsAssumption DEF ExpirationsAssumption
<1> QED BY <1>1, <1>2

\* Membership in the index, pair by pair.
LEMMA IndexesByPair ==
    ASSUME NEW table \in [Keys -> Entry \cup {None}],
           NEW exps \in SUBSET (Nat \X Keys)
    PROVE  Indexes(exps, table) <=>
             \A t \in Nat, k \in Keys :
                 <<t, k>> \in exps <=> /\ table[k] # None
                                       /\ table[k].expires_at # None
                                       /\ table[k].expires_at = t
<1> DEFINE P(t, k) == /\ table[k] # None
                      /\ table[k].expires_at # None
                      /\ table[k].expires_at = t
<1> DEFINE I == UNION {IndexOf(k, table[k]) : k \in Keys}
<1>1. \A k \in Keys : IndexOf(k, table[k]) \in SUBSET (Nat \X Keys)
  BY DEF IndexOf, Entry
<1>2. I \in SUBSET (Nat \X Keys)
  BY <1>1
<1>3. ASSUME NEW t \in Nat, NEW k \in Keys
      PROVE  <<t, k>> \in I <=> P(t, k)
  <2>1. <<t, k>> \in I <=> \E j \in Keys : <<t, k>> \in IndexOf(j, table[j])
    OBVIOUS
  <2>2. ASSUME NEW j \in Keys
        PROVE  <<t, k>> \in IndexOf(j, table[j]) <=> j = k /\ P(t, j)
    BY DEF IndexOf
  <2> QED BY <2>1, <2>2
<1>4. exps = I <=> \A t \in Nat, k \in Keys : <<t, k>> \in exps <=> <<t, k>> \in I
  BY <1>2
<1> QED BY <1>3, <1>4 DEF Indexes

\* A set keeps the index exact: the previous pair of the key goes, and only
\* that pair (db.rs:183-207, db.cpp:48-63).
LEMMA ReindexKeepsIndex ==
    ASSUME NEW table \in [Keys -> Entry \cup {None}],
           NEW exps \in SUBSET (Nat \X Keys),
           Indexes(exps, table),
           NEW k \in Keys, NEW entry \in Entry
    PROVE  LET exps2 == Reindex(exps, k, table[k], entry)
           IN  /\ exps2 \in SUBSET (Nat \X Keys)
               /\ Indexes(exps2, [table EXCEPT ![k] = entry])
<1> DEFINE exps2 == Reindex(exps, k, table[k], entry)
           table2 == [table EXCEPT ![k] = entry]
<1>1. exps2 \in SUBSET (Nat \X Keys)
  BY DEF Reindex, IndexOf, Entry
<1>2. table2 \in [Keys -> Entry \cup {None}]
  OBVIOUS
<1>3. entry # None
  BY ExpirationsAssumption DEF ExpirationsAssumption, Entry
<1>4. ASSUME NEW t \in Nat, NEW j \in Keys
      PROVE  <<t, j>> \in exps2 <=> /\ table2[j] # None
                                    /\ table2[j].expires_at # None
                                    /\ table2[j].expires_at = t
  <2>1. <<t, j>> \in exps <=> /\ table[j] # None
                              /\ table[j].expires_at # None
                              /\ table[j].expires_at = t
    BY IndexesByPair
  <2>2. <<t, j>> \in IndexOf(k, entry) <=>
            j = k /\ entry.expires_at # None /\ entry.expires_at = t
    BY <1>3 DEF IndexOf
  <2>3. <<t, j>> \in IndexOf(k, table[k]) <=>
            /\ j = k
            /\ table[k] # None
            /\ table[k].expires_at # None
            /\ table[k].expires_at = t
    BY DEF IndexOf
  <2> QED BY <1>3, <2>1, <2>2, <2>3 DEF Reindex
<1>5. Indexes(exps2, table2)
  BY <1>1, <1>2, <1>4, IndexesByPair
<1> QED BY <1>1, <1>5

\* Only a key whose own deadline is past loses its entry to a purge.
LEMMA PurgeTakesExpired ==
    ASSUME NEW table \in [Keys -> Entry \cup {None}],
           NEW exps \in SUBSET (Nat \X Keys),
           Indexes(exps, table),
           NEW t \in Nat, NEW e \in Due(exps, t)
    PROVE  /\ e[2] \in Keys
           /\ table[e[2]] # None
           /\ table[e[2]].expires_at # None
           /\ table[e[2]].expires_at = e[1]
           /\ e[1] <= t
<1>1. e = <<e[1], e[2]>> /\ e[1] \in Nat /\ e[2] \in Keys /\ e \in exps
  BY DEF Due
<1> QED BY <1>1, IndexesByPair DEF Due

\* A purge keeps the index exact (db.rs:309-319, db.cpp:108-116).
LEMMA PurgeKeepsIndex ==
    ASSUME NEW table \in [Keys -> Entry \cup {None}],
           NEW exps \in SUBSET (Nat \X Keys),
           Indexes(exps, table),
           NEW t \in Nat
    PROVE  /\ exps \ Due(exps, t) \in SUBSET (Nat \X Keys)
           /\ Purged(table, exps, t) \in [Keys -> Entry \cup {None}]
           /\ Indexes(exps \ Due(exps, t), Purged(table, exps, t))
<1> DEFINE exps2 == exps \ Due(exps, t)
           table2 == Purged(table, exps, t)
<1>1. exps2 \in SUBSET (Nat \X Keys)
  OBVIOUS
<1>2. table2 \in [Keys -> Entry \cup {None}]
  BY DEF Purged
<1>3. ASSUME NEW u \in Nat, NEW j \in Keys
      PROVE  <<u, j>> \in exps2 <=> /\ table2[j] # None
                                    /\ table2[j].expires_at # None
                                    /\ table2[j].expires_at = u
  <2>1. <<u, j>> \in exps <=> /\ table[j] # None
                              /\ table[j].expires_at # None
                              /\ table[j].expires_at = u
    BY IndexesByPair
  <2>2. CASE \E e \in Due(exps, t) : e[2] = j
    <3>1. PICK e \in Due(exps, t) : e[2] = j
      BY <2>2
    <3>2. table[j].expires_at = e[1] /\ e[1] <= t
      BY <3>1, PurgeTakesExpired
    <3>3. table2[j] = None
      BY <2>2 DEF Purged
    <3>4. <<u, j>> \in exps => <<u, j>> \in Due(exps, t)
      BY <2>1, <3>2 DEF Due
    <3> QED BY <3>3, <3>4
  <2>3. CASE ~\E e \in Due(exps, t) : e[2] = j
    <3>1. table2[j] = table[j]
      BY <2>3 DEF Purged
    <3>2. <<u, j>> \notin Due(exps, t)
      BY <2>3
    <3> QED BY <2>1, <3>1, <3>2
  <2> QED BY <2>2, <2>3
<1>4. Indexes(exps2, table2)
  BY <1>1, <1>2, <1>3, IndexesByPair
<1> QED BY <1>1, <1>2, <1>4

-----------------------------------------------------------------------------
\* The original Db.

\* The inductive invariant: waiting is reasoned about from the index.
IInv == TypeOK /\ IndexAgrees /\ NoMissedDeadline /\ ShutdownNotMissed

LEMMA DeadlineType ==
    ASSUME NEW t \in Nat, NEW expire \in Durations \cup {None}
    PROVE  Deadline(t, expire) \in Nat \cup {None}
  BY ExpirationsAssumption DEF ExpirationsAssumption, Deadline

LEMMA InitIInv == Init => IInv
<1> SUFFICES ASSUME Init PROVE IInv
  OBVIOUS
<1> USE DEF Init
<1>1. TypeOK
  BY ExpirationsAssumption DEF TypeOK, ExpirationsAssumption
<1>2. IndexAgrees
  BY DEF IndexAgrees, Indexes, IndexOf
<1>3. NoMissedDeadline /\ ShutdownNotMissed
  BY DEF NoMissedDeadline, ShutdownNotMissed
<1> QED BY <1>1, <1>2, <1>3 DEF IInv

LEMMA SetIInv ==
    ASSUME IInv, NEW c \in Callers, NEW k \in Keys, NEW v \in Values,
           NEW expire \in Durations \cup {None}, Set(c, k, v, expire)
    PROVE  IInv'
<1> DEFINE when == Deadline(now, expire)
           entry == [data |-> v, expires_at |-> when]
<1>1. when \in Nat \cup {None} /\ entry \in Entry
  BY DeadlineType DEF IInv, TypeOK, Entry
<1>2. /\ entries' = [entries EXCEPT ![k] = entry]
      /\ expirations' = Reindex(expirations, k, entries[k], entry)
      /\ notifying' = IF IsNext(expirations, when) THEN notifying \cup {c}
                                                   ELSE notifying
      /\ UNCHANGED <<shutdown, now, pc, wakeAt, permit, notified>>
      /\ ~shutdown
  BY DEF Set
<1> HIDE DEF when, entry
<1>3. expirations' \in SUBSET (Nat \X Keys) /\ IndexAgrees'
  BY <1>1, <1>2, ReindexKeepsIndex DEF IInv, TypeOK, IndexAgrees
<1>4. TypeOK'
  BY <1>1, <1>2, <1>3 DEF IInv, TypeOK
<1>5. NoMissedDeadline'
  <2> SUFFICES ASSUME pc \in {"select", "parked"}, ~Signalled',
                      NEW e \in expirations'
               PROVE  wakeAt # None /\ wakeAt <= e[1]
    BY <1>2 DEF NoMissedDeadline
  <2>1. ~Signalled /\ ~IsNext(expirations, when)
    BY <1>2 DEF Signalled
  <2>2. \A f \in expirations : wakeAt # None /\ wakeAt <= f[1]
    BY <1>2, <2>1 DEF IInv, NoMissedDeadline
  <2>3. e \in expirations \/ (when # None /\ e = <<when, k>>)
    BY <1>1, <1>2 DEF Reindex, IndexOf, entry
  <2>4. CASE when # None /\ e = <<when, k>>
    <3>1. PICK f \in expirations : ~(f[1] > when)
      BY <2>1, <2>4 DEF IsNext
    <3>2. f[1] \in Nat /\ when \in Nat
      BY <1>1, <2>4 DEF IInv, TypeOK
    <3>3. wakeAt \in Nat /\ wakeAt <= f[1] /\ wakeAt # None
      BY <2>2 DEF IInv, TypeOK
    <3> QED BY <2>4, <3>1, <3>2, <3>3
  <2> QED BY <2>2, <2>3, <2>4
<1>6. ShutdownNotMissed'
  BY <1>2 DEF ShutdownNotMissed
<1> QED BY <1>3, <1>4, <1>5, <1>6 DEF IInv

LEMMA ShutdownIInv == IInv /\ ShutdownPurgeTask => IInv'
  BY DEF IInv, TypeOK, IndexAgrees, NoMissedDeadline, ShutdownNotMissed,
         Signalled, ShutdownPurgeTask

LEMMA NotifyIInv ==
    ASSUME IInv, NEW c \in Callers \cup {Guard}, NotifyOne(c)
    PROVE  IInv'
<1>1. Signalled'
  BY DEF NotifyOne, Deliver, Signalled
<1>2. TypeOK' /\ IndexAgrees'
  BY DEF IInv, TypeOK, IndexAgrees, NotifyOne, Deliver, state
<1> QED BY <1>1, <1>2 DEF IInv, NoMissedDeadline, ShutdownNotMissed

LEMMA PurgeExpiredKeysIInv == IInv /\ PurgeExpiredKeys => IInv'
<1> SUFFICES ASSUME IInv, PurgeExpiredKeys PROVE IInv'
  OBVIOUS
<1>1. /\ expirations' = expirations \ Due(expirations, now)
      /\ entries' = Purged(entries, expirations, now)
      /\ wakeAt' = NextExpiration(expirations')
      /\ pc' = "select"
      /\ ~shutdown
      /\ UNCHANGED <<shutdown, now, permit, notified, notifying>>
  BY DEF PurgeExpiredKeys, signal
<1>2. /\ expirations' \in SUBSET (Nat \X Keys)
      /\ entries' \in [Keys -> Entry \cup {None}]
      /\ IndexAgrees'
  BY <1>1, PurgeKeepsIndex DEF IInv, TypeOK, IndexAgrees
<1>3. /\ wakeAt' \in Nat \cup {None}
      /\ \A e \in expirations' : wakeAt' # None /\ wakeAt' <= e[1]
  BY <1>1, <1>2, NextExpirationIsEarliest
<1>4. TypeOK'
  BY <1>1, <1>2, <1>3 DEF IInv, TypeOK
<1>5. NoMissedDeadline' /\ ShutdownNotMissed'
  BY <1>1, <1>3 DEF NoMissedDeadline, ShutdownNotMissed
<1> QED BY <1>2, <1>4, <1>5 DEF IInv

LEMMA NextIInv == IInv /\ [Next]_vars => IInv'
<1> SUFFICES ASSUME IInv, [Next]_vars PROVE IInv'
  OBVIOUS
<1> USE DEF IInv, TypeOK, IndexAgrees, NoMissedDeadline, ShutdownNotMissed,
            Signalled, state, signal
<1>1. CASE \E c \in Callers, k \in Keys, v \in Values,
              expire \in Durations \cup {None} : Set(c, k, v, expire)
  BY <1>1, SetIInv
<1>2. CASE ShutdownPurgeTask
  BY <1>2, ShutdownIInv
<1>3. CASE \E c \in Callers \cup {Guard} : NotifyOne(c)
  BY <1>3, NotifyIInv
<1>4. CASE CheckShutdown
  BY <1>4 DEF CheckShutdown
<1>5. CASE PurgeExpiredKeys
  BY <1>5, PurgeExpiredKeysIInv
<1>6. CASE PurgeSkipped
  BY <1>6 DEF PurgeSkipped
<1>7. CASE PollTimer
  BY <1>7 DEF PollTimer
<1>8. CASE PollNotified
  BY <1>8 DEF PollNotified
<1>9. CASE Park
  BY <1>9 DEF Park
<1>10. CASE WakeNotified
  BY <1>10 DEF WakeNotified
<1>11. CASE WakeTimer
  BY <1>11 DEF WakeTimer
<1>12. CASE Tick
  BY <1>12 DEF Tick
<1>13. CASE UNCHANGED vars
  BY <1>13 DEF vars
<1> QED BY <1>1, <1>2, <1>3, <1>4, <1>5, <1>6, <1>7, <1>8, <1>9, <1>10,
           <1>11, <1>12, <1>13 DEF Next, PurgeTask

\* Every reachable state satisfies the inductive invariant.
THEOREM Invariance == Spec => []IInv
  BY InitIInv, NextIInv, PTL DEF Spec

\* Type correctness of the Db (db.rs:61-86).
THEOREM TypeCorrect == Spec => []TypeOK
  BY Invariance, PTL DEF IInv

\* The index of deadlines is exact for ever (db.rs:192-207, 309-319).
THEOREM IndexCorrect == Spec => []IndexAgrees
  BY Invariance, PTL DEF IInv

\* The purge task never sleeps through a deadline (db.rs:161-179, 209-218).
THEOREM DeadlinesNotMissed == Spec => []NoMissedDeadline
  BY Invariance, PTL DEF IInv

\* The purge task never sleeps through the shutdown (db.rs:273-284).
THEOREM ShutdownSeen == Spec => []ShutdownNotMissed
  BY Invariance, PTL DEF IInv

-----------------------------------------------------------------------------
\* The safety part of ImplementsStore.

LEMMA InitStore == Init => Store!Init
  BY DEF Init, Store!Init

LEMMA NextStore ==
    IInv /\ [Next]_vars => [Store!Next]_<<entries, now, ~shutdown>>
<1> SUFFICES ASSUME IInv, [Next]_vars
             PROVE  [Store!Next]_<<entries, now, ~shutdown>>
  OBVIOUS
<1> USE DEF state, signal
<1>1. CASE \E c \in Callers, k \in Keys, v \in Values,
              expire \in Durations \cup {None} : Set(c, k, v, expire)
  <2>1. PICK c \in Callers, k \in Keys, v \in Values,
             expire \in Durations \cup {None} : Set(c, k, v, expire)
    BY <1>1
  <2>2. Store!Deadline(now, expire) = Deadline(now, expire)
    BY DEF Store!Deadline, Deadline
  <2>3. Store!Set(k, v, expire)
    BY <2>1, <2>2 DEF Set, Store!Set
  <2> QED BY <2>3 DEF Store!Next
<1>2. CASE ShutdownPurgeTask
  BY <1>2 DEF ShutdownPurgeTask, Store!Next, Store!Close
<1>3. CASE PurgeExpiredKeys
  <2> DEFINE S == {k \in Keys : \E e \in Due(expirations, now) : e[2] = k}
  <2>1. \A k \in S : Store!Expired(k)
    BY PurgeTakesExpired DEF IInv, TypeOK, IndexAgrees, Store!Expired
  <2>2. entries' = [k \in Keys |-> IF k \in S THEN None ELSE entries[k]]
    BY <1>3 DEF PurgeExpiredKeys, Purged
  <2>3. Store!Purge(S)
    BY <1>3, <2>1, <2>2 DEF PurgeExpiredKeys, Store!Purge
  <2> QED BY <2>3 DEF Store!Next
<1>4. CASE Tick
  BY <1>4 DEF Tick, Store!Next, Store!Tick
<1>5. CASE \/ \E c \in Callers \cup {Guard} : NotifyOne(c)
           \/ CheckShutdown \/ PurgeSkipped \/ PollTimer \/ PollNotified
           \/ Park \/ WakeNotified \/ WakeTimer
  BY <1>5 DEF NotifyOne, CheckShutdown, PurgeSkipped, PollTimer, PollNotified,
              Park, WakeNotified, WakeTimer
<1>6. CASE UNCHANGED vars
  BY <1>6 DEF vars
<1> QED BY <1>1, <1>2, <1>3, <1>4, <1>5, <1>6 DEF Next, PurgeTask

\* Every behaviour of the Db is one of the promised store: no value is lost
\* before its deadline, or for a deadline it no longer has (db.rs:158-219,
\* 290-322).
THEOREM ImplementsSafeStore == Spec => Store!SafeSpec
<1>1. Init => Store!Init
  BY InitStore
<1>2. IInv /\ [Next]_vars => [Store!Next]_<<entries, now, ~shutdown>>
  BY NextStore
<1> QED BY <1>1, <1>2, Invariance, PTL DEF Spec, Store!SafeSpec, Store!vars

-----------------------------------------------------------------------------
\* The translated Db: the same entries, index, flag and clock.

\* The inductive invariant.
CppIInv == CppTypeOK /\ IndexAgrees /\ NothingMissed

LEMMA CppInitIInv == CppInit => CppIInv
<1> SUFFICES ASSUME CppInit PROVE CppIInv
  OBVIOUS
<1> USE DEF CppInit
<1>1. CppTypeOK
  BY ExpirationsAssumption DEF CppTypeOK, ExpirationsAssumption
<1>2. IndexAgrees
  BY DEF IndexAgrees, Indexes, IndexOf
<1>3. NothingMissed
  BY DEF NothingMissed
<1> QED BY <1>1, <1>2, <1>3 DEF CppIInv

LEMMA CppSetIInv ==
    ASSUME CppIInv, NEW k \in Keys, NEW v \in Values,
           NEW expire \in Durations \cup {None}, CppSet(k, v, expire)
    PROVE  CppIInv'
<1> DEFINE when == Deadline(now, expire)
           entry == [data |-> v, expires_at |-> when]
<1>1. when \in Nat \cup {None} /\ entry \in Entry
  BY ExpirationsAssumption
     DEF CppIInv, CppTypeOK, Entry, Deadline, ExpirationsAssumption
<1>2. /\ entries' = [entries EXCEPT ![k] = entry]
      /\ expirations' = Reindex(expirations, k, entries[k], entry)
      /\ task' = IF IsNext(expirations, when) THEN Cancelled ELSE task
      /\ UNCHANGED <<shutdown, now, expiry>>
  BY DEF CppSet
<1> HIDE DEF when, entry
<1>3. expirations' \in SUBSET (Nat \X Keys) /\ IndexAgrees'
  BY <1>1, <1>2, ReindexKeepsIndex
     DEF CppIInv, CppTypeOK, IndexAgrees
<1>4. CppTypeOK'
  BY <1>1, <1>2, <1>3 DEF CppIInv, CppTypeOK, Cancelled
<1>5. NothingMissed'
  <2> SUFFICES ASSUME task' = "waiting", NEW e \in expirations'
               PROVE  ~shutdown /\ expiry # None /\ expiry <= e[1]
    <3>1. task' = "waiting" => ~shutdown'
      BY <1>2 DEF CppIInv, NothingMissed, Cancelled
    <3> QED BY <1>2, <3>1 DEF NothingMissed
  <2>1. task = "waiting" /\ ~IsNext(expirations, when)
    BY <1>2 DEF Cancelled
  <2>2. ~shutdown /\ \A f \in expirations : expiry # None /\ expiry <= f[1]
    BY <2>1 DEF CppIInv, NothingMissed
  <2>3. e \in expirations \/ (when # None /\ e = <<when, k>>)
    BY <1>1, <1>2 DEF Reindex, IndexOf, entry
  <2>4. CASE when # None /\ e = <<when, k>>
    <3>1. PICK f \in expirations : ~(f[1] > when)
      BY <2>1, <2>4 DEF IsNext
    <3>2. f[1] \in Nat /\ when \in Nat
      BY <1>1, <2>4 DEF CppIInv, CppTypeOK
    <3>3. expiry \in Nat /\ expiry <= f[1] /\ expiry # None
      BY <2>2 DEF CppIInv, CppTypeOK
    <3> QED BY <2>2, <2>4, <3>1, <3>2, <3>3
  <2> QED BY <2>2, <2>3, <2>4
<1> QED BY <1>3, <1>4, <1>5 DEF CppIInv

LEMMA CppPurgeIInv == CppIInv /\ PurgeTaskIteration => CppIInv'
<1> SUFFICES ASSUME CppIInv, PurgeTaskIteration PROVE CppIInv'
  OBVIOUS
<1>1. /\ expirations' = expirations \ Due(expirations, now)
      /\ entries' = Purged(entries, expirations, now)
      /\ expiry' = NextExpiration(expirations')
      /\ task' = "waiting"
      /\ ~shutdown
      /\ UNCHANGED <<shutdown, now>>
  BY DEF PurgeTaskIteration
<1>2. /\ expirations' \in SUBSET (Nat \X Keys)
      /\ entries' \in [Keys -> Entry \cup {None}]
      /\ IndexAgrees'
  BY <1>1, PurgeKeepsIndex DEF CppIInv, CppTypeOK, IndexAgrees
<1>3. /\ expiry' \in Nat \cup {None}
      /\ \A e \in expirations' : expiry' # None /\ expiry' <= e[1]
  BY <1>1, <1>2, NextExpirationIsEarliest
<1>4. CppTypeOK'
  BY <1>1, <1>2, <1>3 DEF CppIInv, CppTypeOK
<1>5. NothingMissed'
  BY <1>1, <1>3 DEF NothingMissed
<1> QED BY <1>2, <1>4, <1>5 DEF CppIInv

LEMMA CppNextIInv == CppIInv /\ [CppNext]_cppVars => CppIInv'
<1> SUFFICES ASSUME CppIInv, [CppNext]_cppVars PROVE CppIInv'
  OBVIOUS
<1> USE DEF CppIInv, CppTypeOK, IndexAgrees, NothingMissed
<1>1. CASE \E k \in Keys, v \in Values, expire \in Durations \cup {None} :
              CppSet(k, v, expire)
  BY <1>1, CppSetIInv
<1>2. CASE CppShutdownPurgeTask
  BY <1>2 DEF CppShutdownPurgeTask, Cancelled
<1>3. CASE TimerExpires
  BY <1>3 DEF TimerExpires
<1>4. CASE PurgeTaskIteration
  BY <1>4, CppPurgeIInv
<1>5. CASE PurgeTaskBreaks
  BY <1>5 DEF PurgeTaskBreaks
<1>6. CASE CppTick
  BY <1>6 DEF CppTick
<1>7. CASE UNCHANGED cppVars
  BY <1>7 DEF cppVars
<1> QED BY <1>1, <1>2, <1>3, <1>4, <1>5, <1>6, <1>7 DEF CppNext, CppPurgeTask

\* Every reachable state satisfies the inductive invariant.
THEOREM CppInvariance == CppSpec => []CppIInv
  BY CppInitIInv, CppNextIInv, PTL DEF CppSpec

\* Type correctness of the C++ Db (db.hpp:198-216).
THEOREM CppTypeCorrect == CppSpec => []CppTypeOK
  BY CppInvariance, PTL DEF CppIInv

\* The index of deadlines is exact for ever (db.cpp:48-63, 108-116).
THEOREM CppIndexCorrect == CppSpec => []IndexAgrees
  BY CppInvariance, PTL DEF CppIInv

\* A cancel() that is not remembered is enough on one thread: the task never
\* waits past a deadline, nor after the shutdown (db.cpp:65-71, 89-96).
THEOREM CppNeverMissed == CppSpec => []NothingMissed
  BY CppInvariance, PTL DEF CppIInv

-----------------------------------------------------------------------------
\* The safety part of ImplementsStore.

LEMMA CppNextStore ==
    CppIInv /\ [CppNext]_cppVars => [Store!Next]_<<entries, now, ~shutdown>>
<1> SUFFICES ASSUME CppIInv, [CppNext]_cppVars
             PROVE  [Store!Next]_<<entries, now, ~shutdown>>
  OBVIOUS
<1>1. CASE \E k \in Keys, v \in Values, expire \in Durations \cup {None} :
              CppSet(k, v, expire)
  <2>1. PICK k \in Keys, v \in Values, expire \in Durations \cup {None} :
              CppSet(k, v, expire)
    BY <1>1
  <2>2. Store!Deadline(now, expire) = Deadline(now, expire)
    BY DEF Store!Deadline, Deadline
  <2>3. Store!Set(k, v, expire)
    BY <2>1, <2>2 DEF CppSet, Store!Set
  <2> QED BY <2>3 DEF Store!Next
<1>2. CASE CppShutdownPurgeTask
  BY <1>2 DEF CppShutdownPurgeTask, Store!Next, Store!Close
<1>3. CASE PurgeTaskIteration
  <2> DEFINE S == {k \in Keys : \E e \in Due(expirations, now) : e[2] = k}
  <2>1. \A k \in S : Store!Expired(k)
    BY PurgeTakesExpired
       DEF CppIInv, CppTypeOK, IndexAgrees, Store!Expired
  <2>2. entries' = [k \in Keys |-> IF k \in S THEN None ELSE entries[k]]
    BY <1>3 DEF PurgeTaskIteration, Purged
  <2>3. Store!Purge(S)
    BY <1>3, <2>1, <2>2 DEF PurgeTaskIteration, Store!Purge
  <2> QED BY <2>3 DEF Store!Next
<1>4. CASE CppTick
  BY <1>4 DEF CppTick, Store!Next, Store!Tick
<1>5. CASE TimerExpires \/ PurgeTaskBreaks
  BY <1>5 DEF TimerExpires, PurgeTaskBreaks
<1>6. CASE UNCHANGED cppVars
  BY <1>6 DEF cppVars
<1> QED BY <1>1, <1>2, <1>3, <1>4, <1>5, <1>6 DEF CppNext, CppPurgeTask

\* Every behaviour of the translated Db is one of the promised store, as every
\* behaviour of the original is (db.cpp:30-72, 98-119).
THEOREM CppImplementsSafeStore == CppSpec => Store!SafeSpec
<1>1. CppInit => Store!Init
  BY DEF CppInit, Store!Init
<1>2. CppIInv /\ [CppNext]_cppVars => [Store!Next]_<<entries, now, ~shutdown>>
  BY CppNextStore
<1> QED BY <1>1, <1>2, CppInvariance, PTL DEF CppSpec, Store!SafeSpec, Store!vars
=============================================================================
