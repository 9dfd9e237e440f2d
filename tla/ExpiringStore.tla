--------------------------- MODULE ExpiringStore ---------------------------
(* What a mini-redis Db promises to its callers, whatever wakes its purge    *)
(* task: a key holds the last value set, a value without a deadline stays,   *)
(* a value with a deadline is never dropped before it, and is dropped        *)
(* eventually once the deadline is past, for as long as the Db is open.      *)
EXTENDS Naturals

CONSTANTS Keys,       \* the key space
          Values,     \* the payloads
          Durations,  \* the time-to-live values a caller may ask for
          None        \* no entry, or an entry that does not expire

VARIABLES store,  \* the entry of every key, None when it has none
          now,    \* the clock
          open    \* the Db has not been shut down

vars == <<store, now, open>>

Entry == [data : Values, expires_at : Nat \cup {None}]

Expired(k) == /\ store[k] # None
              /\ store[k].expires_at # None
              /\ store[k].expires_at <= now

Init == /\ store = [k \in Keys |-> None]
        /\ now = 0
        /\ open = TRUE

Deadline(t, expire) == IF expire = None THEN None ELSE t + expire

Set(k, v, expire) ==
    /\ open
    /\ store' = [store EXCEPT ![k] = [data |-> v,
                                      expires_at |-> Deadline(now, expire)]]
    /\ UNCHANGED <<now, open>>

\* Any number of expired keys go at once, and nothing else does.
Purge(S) ==
    /\ open
    /\ \A k \in S : Expired(k)
    /\ store' = [k \in Keys |-> IF k \in S THEN None ELSE store[k]]
    /\ UNCHANGED <<now, open>>

Tick == /\ now' = now + 1
        /\ UNCHANGED <<store, open>>

Close == /\ open
         /\ open' = FALSE
         /\ UNCHANGED <<store, now>>

Next == \/ \E k \in Keys, v \in Values, expire \in Durations \cup {None} :
              Set(k, v, expire)
        \/ \E S \in SUBSET Keys : Purge(S)
        \/ Tick
        \/ Close

PurgeOf(k) == \E S \in SUBSET Keys : k \in S /\ Purge(S)

Fairness == \A k \in Keys : WF_vars(PurgeOf(k))

Spec == Init /\ [][Next]_vars /\ Fairness

SafeSpec == Init /\ [][Next]_vars
=============================================================================
