----------------------------- MODULE Expirations -----------------------------
(* What both Dbs keep under their mutex: the entries and beside them an index *)
(* of deadlines, a BTreeSet of (Instant, String) in db.rs, a std::set of      *)
(* (TimePoint, string) in db.hpp, ordered by instant, then key.               *)
EXTENDS Naturals, FiniteSetsExt

CONSTANTS Keys, Values,
          Durations,  \* the time-to-live values a caller may ask for
          None,       \* no entry, no deadline, no wake-up time
          MaxTime     \* bound on the clock

ASSUME ExpirationsAssumption ==
    /\ Durations \subseteq Nat
    /\ MaxTime \in Nat
    /\ None \notin Nat
    /\ None \notin [data : Values, expires_at : Nat \cup {None}]

VARIABLES
    entries,      \* State.entries: the entry of every key, None when absent
    expirations,  \* State.expirations: the set of (instant, key)
    shutdown,     \* State.shutdown
    now           \* the clock

state == <<entries, expirations, shutdown>>

Entry == [data : Values, expires_at : Nat \cup {None}]

\* The instant a value set at t with an optional time-to-live expires.
Deadline(t, expire) == IF expire = None THEN None ELSE t + expire

\* The pair under which an entry is indexed, if it is.
IndexOf(k, entry) ==
    IF entry = None THEN {}
    ELSE IF entry.expires_at = None THEN {} ELSE {<<entry.expires_at, k>>}

\* A set moves the key from its previous pair to the new one, in this order.
ReindexInsertFirst(exps, k, prev, entry) ==
    (exps \cup IndexOf(k, entry)) \ IndexOf(k, prev)
ReindexKeepsPrevious(exps, k, prev, entry) ==
    exps \cup IndexOf(k, entry)
Reindex(exps, k, prev, entry) ==
    (exps \ IndexOf(k, prev)) \cup IndexOf(k, entry)

\* A new deadline that becomes the next one must be told to the purge task.
IsNextInverted(exps, when) ==
    when # None /\ (exps = {} \/ \E e \in exps : e[1] < when)
IsNext(exps, when) == when # None /\ \A e \in exps : e[1] > when

\* The instant of the first pair.
NextExpiration(exps) ==
    IF exps = {} THEN None ELSE Min({e[1] : e \in exps})

\* The pairs a purge at time t takes off the front, and what it leaves.
Due(exps, t) == {e \in exps : e[1] <= t}

Purged(table, exps, t) ==
    [k \in Keys |-> IF \E e \in Due(exps, t) : e[2] = k THEN None
                                                        ELSE table[k]]

-----------------------------------------------------------------------------
\* The index holds exactly the deadlines of the stored entries.
Indexes(exps, table) == exps = UNION {IndexOf(k, table[k]) : k \in Keys}

\* So it is at every moment, though Rust takes the previous pair out after it
\* stored the new entry (db.rs:183-207) and the translation before
\* (db.cpp:48-63), and a purge takes a pair and its entry out together.  A stale
\* pair would drop a value that was set again with a later deadline or with none.
IndexAgrees == Indexes(expirations, entries)

\* Each Db implements the store both promise, purging included (db.rs:158-219,
\* 290-366; db.cpp:30-72, 98-147).
Store == INSTANCE ExpiringStore WITH store <- entries, open <- ~shutdown
ImplementsStore == Store!Spec
=============================================================================
