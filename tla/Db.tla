--------------------------------- MODULE Db ---------------------------------
(* The key-value half of original-rust/src/db.rs: `Db::set` called from many *)
(* handler tasks, the background `purge_expired_tasks`, and the `Notify`     *)
(* through which the former wakes the latter.  A critical section under the  *)
(* `State` mutex is one step.  `notify_one` comes after the mutex is         *)
(* released (db.rs:212-218), so it is a step of its own.                     *)
EXTENDS Expirations

CONSTANTS Callers,  \* tasks that hold a clone of the Db
          Guard     \* the DbDropGuard

ASSUME DbAssumption == Guard \notin Callers

VARIABLES
    pc,           \* where purge_expired_tasks is
    wakeAt,       \* what its last purge_expired_keys returned
    permit,       \* the permit a Notify stores when no one waits on it
    notified,     \* the parked task's `Notified` future has been completed
    notifying     \* callers that released the mutex and will call notify_one

vars == <<entries, expirations, shutdown, now, pc, wakeAt, permit, notified,
          notifying>>

signal == <<permit, notified, notifying>>

-----------------------------------------------------------------------------

Init == /\ entries = [k \in Keys |-> None]
        /\ expirations = {}
        /\ shutdown = FALSE
        /\ now = 0
        /\ pc = "check"
        /\ wakeAt = None
        /\ permit = FALSE
        /\ notified = FALSE
        /\ notifying = {}

\* `set` up to the release of the mutex.  Whether the purge task must be told
\* is decided against the index as it was before the previous entry left it.
Set(c, k, v, expire) ==
    LET when == Deadline(now, expire)
        entry == [data |-> v, expires_at |-> when]
    IN  /\ ~shutdown
        /\ c \notin notifying
        /\ entries' = [entries EXCEPT ![k] = entry]
        /\ expirations' = Reindex(expirations, k, entries[k], entry)
        /\ notifying' = IF IsNext(expirations, when) THEN notifying \cup {c}
                                                    ELSE notifying
        /\ UNCHANGED <<shutdown, now, pc, wakeAt, permit, notified>>

\* What `get` returns: the stored data, whatever its deadline.
Get(k) == IF entries[k] = None THEN None ELSE entries[k].data

\* The DbDropGuard goes when `run` ends, after every handler is gone.
ShutdownPurgeTask ==
    /\ ~shutdown
    /\ notifying = {}
    /\ shutdown' = TRUE
    /\ notifying' = {Guard}
    /\ UNCHANGED <<entries, expirations, now, pc, wakeAt, permit, notified>>

\* tokio's Notify::notify_one: complete the waiting future, or keep a permit
\* for the next one.  A timer that is cancelled would forget instead.
DeliverOrForget ==
    /\ notified' = (notified \/ pc = "parked")
    /\ UNCHANGED permit
Deliver ==
    IF pc = "parked" /\ ~notified
    THEN notified' = TRUE /\ UNCHANGED permit
    ELSE permit' = TRUE /\ UNCHANGED notified

NotifyOne(c) ==
    /\ c \in notifying
    /\ notifying' = notifying \ {c}
    /\ Deliver
    /\ UNCHANGED <<state, now, pc, wakeAt>>

-----------------------------------------------------------------------------
\* purge_expired_tasks

\* while !shared.is_shutdown()
CheckShutdown ==
    /\ pc = "check"
    /\ pc' = IF shutdown THEN "done" ELSE "purge"
    /\ UNCHANGED <<state, now, wakeAt, signal>>

PurgeExpiredKeys ==
    /\ pc = "purge"
    /\ ~shutdown
    /\ pc' = "select"
    /\ expirations' = expirations \ Due(expirations, now)
    /\ entries' = Purged(entries, expirations, now)
    /\ wakeAt' = NextExpiration(expirations')
    /\ UNCHANGED <<shutdown, now, signal>>

\* purge_expired_keys returns None at once when the Db is shutting down.
PurgeSkipped ==
    /\ pc = "purge"
    /\ shutdown
    /\ pc' = "select"
    /\ wakeAt' = None
    /\ UNCHANGED <<state, now, signal>>

TimerDue == wakeAt # None /\ wakeAt <= now

\* First poll of the select!: either branch may be polled first.
PollTimer ==
    /\ pc = "select"
    /\ TimerDue
    /\ pc' = "check"
    /\ UNCHANGED <<state, now, wakeAt, signal>>

PollNotified ==
    /\ pc = "select"
    /\ permit
    /\ pc' = "check"
    /\ permit' = FALSE
    /\ UNCHANGED <<state, now, wakeAt, notified, notifying>>

ParkUnasked ==
    /\ pc = "select"
    /\ ~TimerDue
    /\ pc' = "parked"
    /\ UNCHANGED <<state, now, wakeAt, signal>>
Park ==
    /\ pc = "select"
    /\ ~permit
    /\ ~TimerDue
    /\ pc' = "parked"
    /\ UNCHANGED <<state, now, wakeAt, signal>>

WakeNotified ==
    /\ pc = "parked"
    /\ notified
    /\ pc' = "check"
    /\ notified' = FALSE
    /\ UNCHANGED <<state, now, wakeAt, permit, notifying>>

\* The timer wins; a Notified future dropped after it was completed hands its
\* notification back as a permit.
WakeTimer ==
    /\ pc = "parked"
    /\ TimerDue
    /\ pc' = "check"
    /\ permit' = (permit \/ notified)
    /\ notified' = FALSE
    /\ UNCHANGED <<state, now, wakeAt, notifying>>

PurgeTask == \/ CheckShutdown
             \/ PurgeExpiredKeys
             \/ PurgeSkipped
             \/ PollTimer
             \/ PollNotified
             \/ Park
             \/ WakeNotified
             \/ WakeTimer

Tick == /\ now < MaxTime
        /\ now' = now + 1
        /\ UNCHANGED <<state, pc, wakeAt, signal>>

Next == \/ \E c \in Callers, k \in Keys, v \in Values,
              expire \in Durations \cup {None} : Set(c, k, v, expire)
        \/ ShutdownPurgeTask
        \/ \E c \in Callers \cup {Guard} : NotifyOne(c)
        \/ PurgeTask
        \/ Tick

\* The executor polls the task whenever it is woken, and a caller that left
\* the critical section runs on to its notify_one.
Fairness == /\ WF_vars(PurgeTask)
            /\ \A c \in Callers \cup {Guard} : WF_vars(NotifyOne(c))

Spec == Init /\ [][Next]_vars /\ Fairness

-----------------------------------------------------------------------------
\* Types of the state.
TypeOK ==
    /\ entries \in [Keys -> Entry \cup {None}]
    /\ expirations \in SUBSET (Nat \X Keys)
    /\ shutdown \in BOOLEAN
    /\ now \in Nat
    /\ pc \in {"check", "purge", "select", "parked", "done"}
    /\ wakeAt \in Nat \cup {None}
    /\ permit \in BOOLEAN
    /\ notified \in BOOLEAN
    /\ notifying \in SUBSET (Callers \cup {Guard})

\* Someone is about to wake the purge task, or already has.
Signalled == permit \/ notified \/ notifying # {}

\* No deadline is slept through: while the task sleeps, or has decided how
\* long to sleep, an expiration before its alarm has a notification under way
\* (db.rs:161-179, 209-218, 352-365).
NoMissedDeadline ==
    pc \in {"select", "parked"} /\ ~shutdown /\ ~Signalled =>
        \A e \in expirations : wakeAt # None /\ wakeAt <= e[1]

\* Shutdown cannot slip between the task's check of the flag and its wait:
\* once the flag is set, a task past the check has a notification under way
\* (db.rs:273-284, 346-366).
ShutdownNotMissed ==
    shutdown /\ pc \in {"purge", "select", "parked"} => Signalled

\* The purge task ends once the guard is dropped (db.rs:99-118, 348).
PurgeTaskEnds == shutdown ~> pc = "done"
=============================================================================
