-------------------------------- MODULE CppDb --------------------------------
(* The key-value half of translated-cpp/src/db.cpp.  One thread runs the      *)
(* io_context (server_main.cpp:58), so the code between two co_awaits is one  *)
(* step: `set` with its notification, or an iteration of `purge_task` from    *)
(* the check of the flag to the next wait.  The steady_timer that stands for  *)
(* tokio's Notify keeps no permit: cancel() completes the wait under way, and *)
(* does nothing when there is none.                                           *)
EXTENDS Expirations

VARIABLES
    task,         \* purge_task: "ready" to resume, "waiting" on notify, "done"
    expiry        \* notify.expires_at(), None for TimePoint::max()

cppVars == <<entries, expirations, shutdown, now, task, expiry>>

CppInit == /\ entries = [k \in Keys |-> None]
           /\ expirations = {}
           /\ shutdown = FALSE
           /\ now = 0
           /\ task = "ready"
           /\ expiry = None

\* shared_->notify.cancel(): the task of a completed wait is ready to resume.
Cancelled == IF task = "waiting" THEN "ready" ELSE task

CppSet(k, v, expire) ==
    LET when == Deadline(now, expire)
        entry == [data |-> v, expires_at |-> when]
    IN  /\ ~shutdown
        /\ entries' = [entries EXCEPT ![k] = entry]
        /\ expirations' = Reindex(expirations, k, entries[k], entry)
        /\ task' = IF IsNext(expirations, when) THEN Cancelled ELSE task
        /\ UNCHANGED <<shutdown, now, expiry>>

\* ~DbDropGuard, when server_run returns.
ShutdownQuietly ==
    /\ ~shutdown
    /\ shutdown' = TRUE
    /\ UNCHANGED <<entries, expirations, now, task, expiry>>
CppShutdownPurgeTask ==
    /\ ~shutdown
    /\ shutdown' = TRUE
    /\ task' = Cancelled
    /\ UNCHANGED <<entries, expirations, now, expiry>>

\* The timer's expiry makes the waiting task ready.
TimerExpires ==
    /\ task = "waiting"
    /\ expiry # None /\ expiry <= now
    /\ task' = "ready"
    /\ UNCHANGED <<entries, expirations, shutdown, now, expiry>>

PurgeTaskIteration ==
    /\ task = "ready"
    /\ ~shutdown
    /\ expirations' = expirations \ Due(expirations, now)
    /\ entries' = Purged(entries, expirations, now)
    /\ expiry' = NextExpiration(expirations')
    /\ task' = "waiting"
    /\ UNCHANGED <<shutdown, now>>

PurgeTaskBreaks ==
    /\ task = "ready"
    /\ shutdown
    /\ task' = "done"
    /\ UNCHANGED <<entries, expirations, shutdown, now, expiry>>

CppTick == /\ now < MaxTime
           /\ now' = now + 1
           /\ UNCHANGED <<entries, expirations, shutdown, task, expiry>>

CppPurgeTask == TimerExpires \/ PurgeTaskIteration \/ PurgeTaskBreaks

CppNext == \/ \E k \in Keys, v \in Values, expire \in Durations \cup {None} :
                 CppSet(k, v, expire)
           \/ CppShutdownPurgeTask
           \/ CppPurgeTask
           \/ CppTick

\* The io_context runs what is ready and completes timers that expire.
CppFairness == WF_cppVars(CppPurgeTask)

CppSpec == CppInit /\ [][CppNext]_cppVars /\ CppFairness

-----------------------------------------------------------------------------
\* Types of the state.
CppTypeOK ==
    /\ entries \in [Keys -> Entry \cup {None}]
    /\ expirations \in SUBSET (Nat \X Keys)
    /\ shutdown \in BOOLEAN
    /\ now \in Nat
    /\ task \in {"ready", "waiting", "done"}
    /\ expiry \in Nat \cup {None}

\* While purge_task waits no deadline is before its timer, and the Db is not
\* shut down, although cancel() is not remembered (db.cpp:41-46, 65-71, 89-96).
NothingMissed ==
    task = "waiting" =>
        /\ ~shutdown
        /\ \A e \in expirations : expiry # None /\ expiry <= e[1]

\* The purge task ends once the guard is destroyed.
CppPurgeTaskEnds == shutdown ~> task = "done"
=============================================================================
