# Models of reverse-rewrite

The repository holds programs in pairs and triples: an original, a rewrite in
Rust or C++, and a translation of one into the other.  This directory keeps TLA+
modules of them, the TLC runs that check the modules on small instances, and
proofs that TLAPS checks for every instance.  The question asked of each pair is
the same: what does the original promise, and does the translation keep it?

Paths below are relative to the repository's root; `mini-redis` is
`03-mini-redis`, `R/` is `03-mini-redis/original-rust/src/` and `C/` is
`03-mini-redis/translated-cpp/src/`.

## 1. Inventory

### mini-redis: Db (`R/db.rs`, `C/db.hpp`, `C/db.cpp`)

*State.* `entries` (value and optional deadline), `expirations` (an ordered set of
(deadline, key) pairs), `pub_sub` (channel to broadcast sender), `shutdown`; in
Rust behind one mutex with a `Notify` next to it, in C++ behind one mutex with a
`steady_timer` whose `cancel()` replaces the `Notify`.  *Operations.* `get`,
`set`, `subscribe`, `publish`, `shutdown_purge_task`, and the background purge
task, which sleeps until the next deadline or until it is notified.
*Interaction.* Connection handlers call it, from several threads in Rust and from
one in C++; the guard object shuts the purge task down when the server ends.
*Hard.* `set` decides under the lock whether to wake the task and wakes it after
the unlock; the task checks the flag, then purges, then waits, each step under its
own lock; the index must follow the entries through overwrites.  *Correct* means:
only values past their own deadline disappear, every such value eventually does,
the index is exact, and neither a deadline nor the shutdown is slept through.

### mini-redis: pub/sub sessions (`R/cmd/subscribe.rs`, `C/command.cpp`)

*State.* The channels a client subscribes to with what is pending for each, the
commands it has sent, the frames written to it.  *Operations.* SUBSCRIBE and
UNSUBSCRIBE (with and without channels), any other command (an error), messages,
shutdown, disconnection.  *Interaction.* Publishers feed the broadcast channels;
the session races three sources: messages, the socket, the shutdown.  Rust does so
with `select!`; C++ builds it by hand: one `wake_timer` that each source cancels, a
readability callback and a watcher coroutine.  *Hard.* Wake-ups that come while
nobody waits; lag; a channel subscribed twice; confirmations that must agree with
the messages around them.  *Correct* means: no message outside a confirmed
subscription, none twice or out of order, none left waiting, and a session that
ends with the shutdown and with its client.

### mini-redis: server (`R/server.rs`, `R/shutdown.rs`, `C/server.cpp`, `C/shutdown.hpp`, `C/server_main.cpp`)

*State.* Connection permits (a semaphore in Rust, a counter in C++), the accept
loop with its exponential back-off, a handler per connection, the shutdown signal,
and what tells the server that the last handler is gone (an mpsc channel in Rust, a
timer in C++).  *Hard.* Permits on every path out of a connection or an accept;
shutdown at every point; who ends the final wait.  *Correct* means: permits are
conserved, the server stops only when no handler is left, and it does stop.

### mini-redis: frames, connection, commands (`frame.*`, `connection.*`, `parse.*`, `cmd/*`, `C/command.cpp`)

*State.* A connection has a buffer of what was read and not parsed.  *Operations.*
`check` and `parse` of RESP frames, `write_frame`, `read_frame`, and for each command
`parse_frames`, `into_frame` and `apply`.  *Interaction.* `read_frame` is a branch of the
handler's `select!` and is dropped between two reads when another branch comes first.
*Hard.* Frames cut at every byte; what `check` counts is what is thrown away after
`parse`; a client of one version talks to a server of the other.  *Correct* means: the
frames are those of the whole stream wherever the reads stop, the server reads the very
commands a client's calls are, and the calls return what the store says.

### mini-redis: clients (`R/clients/*`, `C/client.cpp`)

*State.* `Client`: a connection.  `Subscriber`: the list of its channels, which its
server does not know of.  `BufferedClient`: a channel of 32 requests to one task that
makes calls on one `Client` for any number of callers, each of which waits on a
oneshot.  *Hard.* `Subscriber` takes the next frame for the confirmation of its
request although a message may come first, and counts on its own list to know how many
to expect; callers of a `BufferedClient` may give up, the connection may end while
others wait.  *Correct* means: the list agrees with the frames, a call fails only for a
reason, each caller gets the answer to its own request, and every call comes to an end.

### coreutils: cat, echo, tr (`02-coreutils`)

Three versions each (C, Rust, C++).  `cat` keeps a line state (at line start, blank
kept, carriage return pending) across buffers and files; `tr` expands sets and runs
delete, squeeze and translate; `echo` parses escapes.  *Hard.* State carried over a
buffer boundary; agreement of the three versions.

### fish: wgetopt, timer, color (`04-fish-shell`)

`wgetopt` scans `argv` for options and permutes it while it does: it keeps the index
of the next element, the range of skipped non-options before it and the rest of a
cluster of short options; each call returns one option.  `timer` subtracts resource
times; `color` parses names and finds palette entries.  Three versions each.  *Hard.*
The permutation, short clusters, abbreviations; subtraction that may go below zero.
*Correct* means, for `wgetopt`: options come back in order with their arguments, no
argument is lost, and the three versions agree.

### hexyl (`01-hexyl`)

Two versions.  `main.rs` parses byte counts with signs, units and blocks and skips or
seeks; `print_all` fills a line from a reader with short reads, squeezes lines that
repeat, and knows where it is in the input.  *Hard.* Short reads, the last line, skips
in an input that cannot seek, counts at the limit of `i64`.  *Correct* means: what is
printed depends on the arguments and the bytes alone, never on the reads.

### Left out

Terminal colours, command-line wrappers, `timer`, `color`, `echo`, the site and the
articles keep no state and wait for nothing.  The articles are quoted where they claim
something about the code.

## 2. Modules

| module | models |
|---|---|
| `ExpiringStore` | abstract: what both Dbs promise |
| `Expirations` | the state both Dbs share, its index, and the store it stands for |
| `Db` | `R/db.rs`: entries, index, `Notify`, purge task, shutdown |
| `CppDb` | `C/db.cpp`: the same on one thread with a cancelled timer |
| `MCDb` | either Db, on the same keys and clock |
| `DbProofs` | proofs about the index and both Dbs |
| `SubscriberFrames` | frames to a subscriber and what they must satisfy |
| `Subscribe` | `R/cmd/subscribe.rs` with tokio's broadcast channels |
| `Subscriber`, `MCSubscriber` | the `Subscriber` of `R/clients/client.rs`, composed with `Subscribe` |
| `SubscriberProofs` | proofs about the Rust session, with any client and with a `Subscriber` |
| `CppSubscribe`, `MCCppSubscribe` | `CmdSubscribe::apply` of `C/command.cpp` |
| `CppSubscribeProofs` | proofs about it |
| `Server` | `R/server.rs` |
| `CppServer` | `C/server.cpp` with `C/shutdown.hpp` |
| `ServerProofs`, `CppServerProofs` | proofs about the two servers |
| `Cat`, `MCCat` | `cat` of `cat.c`, `write_lines` of `cat.rs` and `cat.cpp` |
| `WGetopt`, `MCWGetopt` | `wgetopt.cpp` of fish, `wgetopt.rs` and its translation |
| `ScannedArgv` | reference: what the calls are to return and how they are to leave argv |
| `WGetoptProofs` | proofs that the indices stay in order, that the versions agree and that the calls return the options of argv |
| `Frames` | `frame.rs`, `frame.cpp`: `check`, `parse`, and `write_value` of the connections |
| `Commands` | `parse.rs`, `cmd/*`, the one-shot commands of `command.cpp`, and what clients make of an answer |
| `Reading` | a program that reads in pieces: what is left of its input |
| `Connection` | `read_frame` of `connection.rs` and `connection.cpp`, on `Frames` |
| `Hexyl` | `main.rs` from its byte counts on, `input.rs`, `print_all` of `lib.rs` |
| `Tr` | `operation.rs`, `simd.rs` and `tr.rs`; the filters of `tr.c` |
| `CoreutilsProofs` | proofs that the three versions of `cat` print the same, and `cat.c` the listing of its input; that both versions of `tr` write what the sets mean |
| `MCPieces` | the inputs of `Connection`, `Hexyl` and `Tr`, and their composition |
| `StoreCalls` | abstract: what callers of a `BufferedClient` are promised |
| `BufferedClient`, `MCBuffered` | `buffered_client.rs`, with its callers and the server's end |
| `ReadingProofs` | proofs that `read_frame` returns the same frames however the stream is cut, that what a client of either version calls a server of either version reads, and that `hexyl` prints what it is asked for; and that `BufferedClient` implements `StoreCalls` |

**Db.**  The mutex makes each locked section one action.  What lies between two
sections is where the interleavings are: `Set` ends with the decision to notify and
`NotifyOne` is a later step of the same caller; the task's check of the flag, its
purge and its polling of the timer and of the `Notified` future are steps of their
own.  `Deliver` is tokio's `notify_one`: it completes a waiter or stores one permit;
`Park` polls `Notified`, which takes a stored permit.  Time is a clock that ticks; the
deadline of a `set` is fixed from the clock as `Instant::now() + duration` is, which
happens under the lock.

**CppDb.**  One thread runs the `io_context`, so a handler runs from one `co_await`
to the next without interruption; `cancel()` completes only a wait that is under way
and leaves nothing behind otherwise (no permit).

**Subscribe and CppSubscribe.**  One client session.  `Write` suspends the session in
`write_frame`; everything others do may happen there.  In Rust others may also act
between any two steps of the task, as the runtime has several threads; in C++ only
while the loop is suspended.  A command is a kind and its channels: `malformed` is a
frame no command accepts, `garbage` bytes that are no frame.  The broadcast channel of
Rust keeps `Capacity` messages per receiver and drops the oldest; that of C++ has no
limit.

**Server and CppServer.**  A command is opaque, except that a SUBSCRIBE keeps the
handler in its own loop.  `MAX_CONNECTIONS` (250) and the longest back-off (64 s) are
constants of the modules.

**Cat.**  Two machines are fed the same bytes: `c` is `cat()` of `cat.c`, `r` is
`write_lines`, which `cat.rs` and `cat.cpp` have in common.  A byte is text, a tab, a
carriage return or a newline; how each shows is a token (`^I`, `^M`, a number, ...).
`EndOfBuffer` is any place where `read()` may have returned or a file ends: the inner
loops of all three versions stop there, the flags stay.  The line number of C is the
last one printed, that of the others the next.  `MCCat` has the reference: the
`Listing` of the whole input, defined without any state.

**WGetopt.**  Three scanners, one per version, on the same argv; `NextOpt` is one call
of each.  Where the versions do the same there is one operator, where they differ it
takes the version: `Exchange` is the loop of swaps in the original (`SwapLoop`) and
`rotate_left` or `std::rotate` in the others, and only the original never takes for a
short option what it tried as a long one.  `Listed` are the characters of `shortopts`: the
options and the colon, which is looked up like one.  A character is a letter, an argument a sequence
of them; `text` is what is left of a cluster.  `strayed` marks a version that was called
again after an unknown option in the middle of a cluster (see below).  `ScannedArgv` has
the reference: `Scan` takes the elements one after the other, without permuting anything, and
says for each place what is returned of the elements from there on, which of them are used and
which are left.  It is a recursive function of the place.  The index of a long option that
`wgetopt_long` reports is left out, and so are empty arguments.

**Connection, Frames, Commands.**  A byte is a member of a small alphabet (the five
markers, CR, LF, digits, a letter); `<<"GET">>` and the like are words that stand for
themselves where only equality counts.  Where the versions differ an operator takes the
version: numbers (both stop at the first byte that is no digit, but the `atoi` of Rust
takes a sign before them), text that is not UTF-8, `SET` with an option and no number.
`Connection` calls `read_frame` until it returns no frame; `Cancel` is the `select!` that
drops it.  The inputs of a conversation are what the other end writes (`IntoFrame`,
`Answers`), of either version: `job.v` reads, `job.peer` wrote.  The calls of a client are
those its types allow: a key or a channel is text in Rust and any bytes in C++ (`Text`), an
expiration is counted in microseconds and is whole milliseconds in C++ (`Micros`).  A Rust
server refuses a command with a key that is not text and ends the connection (`Refused`), so
that only the calls before it are answered (`Served`).

**Subscriber.**  `EXTENDS Subscribe`: the client of the session is either any client, as
for the other properties, or a `Subscriber`, whose calls write commands and read the
session's frames.  `call` is the method under way and how many confirmations it waits
for; `list` is `subscribed_channels`.  The methods take `&mut self`, so the program may go on
after a call that failed; `astray` says that it did, with whatever confirmations that call
left unread.  The program may drop the `Subscriber` at any time.

**BufferedClient and StoreCalls.**  `senders` are the callers in `tx.send`, in the order
of the semaphore's queue; a caller may give up at any point.  `TaskEnds` is `recv`
returning `None`.  `StoreCalls` has no task, no queue and no connection but the fact that
it is open: each call takes effect on the store at some moment, then returns what it
answered.  `effect` is the history variable that says when: the set of what the store
answered to a call, empty until it took effect.

**Hexyl and Tr.**  A line of output is its position, its bytes and its characters;
digits, borders and colours are left out.  `Line`, `Mark` and `Row` stand for the
printing functions of `lib.rs`.  A byte of `tr` is a number up to `MaxByte`, so that the
complement is small; a set is the sequence of its items, after the grammar.  Both tools
are compared with a definition without state (`Expected`, `PrintsWhatIsAskedFor`).

### External code

Modelled from how `src/` uses it and marked external in the map: tokio's `Notify`,
asio's timers and readability waits, the programs that use a client, and the other end
of a socket.

## 3. Runs

| run | question | result |
|---|---|---|
| `db` | two keys, two values, time-to-lives 0, 1, 2 or none, the purge task and the shutdown in every order; in Rust with two callers, in C++ on one thread | holds |
| `subscribe` | Rust session with any client or with a `Subscriber`: two channels, two further commands or calls of every kind, also after one that failed, three messages, capacity two | holds |
| `subscriber_waits` | does an `unsubscribe` from all return, also after a call that failed? | no: it waits for a confirmation that is not sent |
| `cpp_subscribe` | C++ session, the hand-built `select!`: two channels, two further commands of every kind, two messages | holds |
| `cpp_subscribe_lost` | is every pending message written? | no: lost wake-up |
| `server` | three clients, two permits, failing accepts, a shutdown at any time | holds |
| `cpp_server` | the same for the counter and `done_timer` | holds |
| `cat` | all options, every input of up to five bytes, every way to cut it | holds |
| `cat_squeeze` | with `-s`, are only repeated blank lines left out? | no |
| `wgetopt` | every argv of up to three arguments of twenty-two kinds, or five of four, in every ordering, with and without long options | holds |
| `pieces` | frames, commands, hexyl and tr, each on many inputs and every way to cut them | holds |
| `buffered` | three callers of a `BufferedClient`, a queue of one, three calls; callers give up, the server closes | holds |

What each property says is written above its definition.  In short:

- both Dbs: `IndexAgrees` (the index is exactly the deadlines of the entries) and
  `ImplementsStore` (refinement of `ExpiringStore`, its fairness included: expired values do
  disappear).  `Db`: `NoMissedDeadline` and `ShutdownNotMissed` (a task that sleeps has
  nothing to wake for, or a notification is under way), `PurgeTaskEnds`.  `CppDb`:
  `NothingMissed`, `CppPurgeTaskEnds`.
- sessions: `MessagesWithinSubscriptions`, `MessagesOnceInOrder`, `MessagesWritten` (a
  pending message is written, but for the four ways in which the Rust loop drops it: its
  end, an unsubscribe, a second SUBSCRIBE, and `Capacity` later messages),
  `LoopEnds` (with the shutdown and with the client), `SocketAndShutdownWatched`,
  `CommandsApplied`; with a `Subscriber` also `ListAgrees` (its list and the frames, until
  a call fails), `FailsOnlyFor` (the reasons a call may fail for, an earlier failure among
  them) and `CallsReturn` (but for an `unsubscribe` from all after a failure).
- servers: `PermitsConserved`, `ActiveCounts`, `StoppedMeansDrained`,
  `NoCommandAfterShutdown`, `DoneTimerWatched`, `ShutdownCompletes`,
  `ClosedConnectionsEnd`, `ShutdownCompletesWithoutClients`.
- `Cat`: `ListsInput` (C prints the listing of the input, however it is cut),
  `VersionsAgree` (the others print the same, except with `-s` after a cut line).
- `WGetopt`: `IndicesInOrder` (what `exchange` and `next_opt` assert), `VersionsAgree`,
  `ReturnsOptions` (the calls return what `Scan` of `ScannedArgv` says and leave argv with
  what was used first, both groups in their order).
- `pieces`: `FramesIndependentOfReads` (also under cancellation),
  `CheckCountsWhatParseReads`, `CallsRoundTrip` (client to server and back, either
  version at either end), `PrintsWhatIsAskedFor` (hexyl, as its code reads its arguments
  and squeezes; the help promises more, see below), `FiltersIndependentOfReads` (tr:
  the Rust filters and those of C write what the sets mean).
- `buffered`: `ImplementsCalls` (refinement of `StoreCalls`) and `CallsReturn`.

The type invariants of the modules with proofs are theorems of those and are not
checked again by TLC.

### Where code and documents disagree

TLC shows those that name a run (`cpp_subscribe_lost`, `cat_squeeze`, `subscriber_waits`):
it checks one property, which says what a comment or an article says, and which TLC finds
violated.  The others were met while the code was read, and where a property of a passing
run makes an exception for one, this is said.

- `get` does not look at `expires_at` (`R/db.rs:151`): between the deadline and the
  purge it returns the expired value, against its doc comment (lines 142-144).
  `ImplementsStore` allows it and asks that the purge comes.
- A second SUBSCRIBE to a channel replaces the receiver (`R/cmd/subscribe.rs:191`) and
  drops what was pending, against `articles/03-concurrency.md:46`.  An exception of
  `MessagesWritten`.
- In C++ a message published while the drain is suspended in `write_frame`, to a
  channel the drain has passed, cancels a timer nobody waits on; the loop then waits
  without looking again (`C/command.cpp:340`).  Run `cpp_subscribe_lost`.
- In C++ a second SUBSCRIBE adds a second receiver (`C/command.cpp:332`): messages come
  twice and the count is of receivers.
- In C++ an idle client holds up the shutdown for as long as it likes
  (`C/server.cpp:38`), where the handlers of Rust end on the notification;
  `ShutdownCompletesWithoutClients` says what is left.
- In C++ a server that gave up accepting does not end its process (`C/server.cpp:123`):
  the signal set and the acceptor closer go on waiting.
- `write_new_line` of `cat.rs:610` and `cat.cpp:312` sets `one_blank_kept` for any newline
  that comes first in a buffer, also when it ends a line of text; with `-s` the blank line
  after it is then dropped, so the output depends on where `read()` stopped.  `cat.c`
  keeps `newlines` at -1 there.  Run `cat_squeeze`.
- After an unknown option that more text follows (`-xa`), `handle_short_opt` has already
  passed the element while its text is left (`wgetopt.rs:331-336`).  A caller that stops
  there sees nothing of it.  One that goes on decodes the text as part of the next element;
  `wopt_index` can then pass `argc`, and the assertion of the next call fails
  (`wgetopt.rs:168`, and the same in both C++ versions).  The properties of `WGetopt` hold
  up to there, which is what `strayed` says.
- `accept` gives up on the eighth failed try (pauses of 1, 2, ..., 64 seconds, then one
  more try), where its comment says the sixth (`R/server.rs:276`).
- A message of an earlier subscription that comes before a confirmation makes `subscribe`
  or `unsubscribe` of the `Subscriber` fail (`R/clients/client.rs:349`, `:479`).  The call
  that failed leaves its confirmations unread and the list as it was: from then on list
  and server may disagree, later calls may fail on what was left unread, and an
  `unsubscribe` from all may wait for a confirmation that never comes, against the comment
  of lines 466-468.  Run `subscriber_waits`.  `FailsOnlyFor` and `ListAgrees` say exactly how
  far things go well.
- In C++ `Subscriber::unsubscribe` erases one entry of a channel the list holds twice and
  is never an error; in Rust it removes all and fails.
- The C++ `SET` accepts `EX` or `PX` without a number as no expiration
  (`C/command.cpp:143` catches the end of the frame wherever it is met).
- A C++ client may send a key or a channel that is not UTF-8 (`C/client.hpp:42`,
  `C/command.cpp:117`); a Rust server refuses it (`R/parse.rs:64`) and ends the connection
  without an answer, where a C++ server takes it.  `CallsRoundTrip` says so.
- `set_expires` of the Rust client drops what is below a millisecond
  (`R/cmd/set.rs:157`): 500 microseconds become `PX 0`, and the value has expired when it is
  set.  `CallsRoundTrip` says so.
- `hexyl` squeezes only after a line of one repeated byte (`lib.rs:797`), where the help
  of `--no-squeezing` (`main.rs:94-96`) speaks of any identical lines.  The
  `Listing` of `PrintsWhatIsAskedFor` squeezes as the code does.
- `hexyl --display-offset` refuses a negative value (`main.rs:393`), which its help
  (`main.rs:47-50`) calls valid and relative to the end of the file.
  `PrintsWhatIsAskedFor` has the error.
- `hexyl --block-size` with a hexadecimal number prints nothing and succeeds
  (`main.rs:301-308` returns from `run`), and a read that fails is skipped by `print_all`
  (`lib.rs:715`, `if let Ok`), which then goes on with the line as it was, or, within a line
  (`lib.rs:725`), tries again without end.
- `tr` in Rust drops `[\0*]` from the second set (`operation.rs:251`), has the space in
  `[:graph:]` and not in `[:print:]` (`operation.rs:172-193`), where C has it the other way
  round, and accepts any class of the first
  set opposite `[:lower:]` or `[:upper:]` of the second.
- `copy_exact` of `splice.rs` asks for all of a piece after a `splice` that may have moved
  part of it, and the pipe it reads from is still open for writing: it would wait for bytes
  that have gone.  Splice is not modelled.
- Deadlines overflow for huge expirations: in Rust with a panic that poisons the mutex
  (`R/db.rs:170`), in C++ silently (`C/command.cpp:132`).  Expirations are bounded here.

### Bounds

Two keys and two callers are the least that let one key's deadline overtake another's
and one caller's notification race the other's; the clock runs to a bound that lets
every deadline pass.  Two channels are the least for a drain to pass one.  Two further
commands let a channel be subscribed, left and subscribed again; two or three messages
let one be read, one be pending and one be lost to lag.  The commands of any client are two
SUBSCRIBEs, an UNSUBSCRIBE and an unknown command; the calls of a `Subscriber` name no channel,
one, both, or one twice, and two of them after the first are enough for one to fail and the
other to find what it left.  Three clients and two permits
make the limit bind while connections end and begin.  A back-off bound of 2 gives two
pauses before accepting fails for good.  Five bytes hold a line cut before its newline
with two blank lines after it, and a carriage return with text on both sides; the flags
of both machines repeat after three.  Three arguments hold an operand before an option
that takes the third; the twenty-two kinds are each way an option can take or refuse an
argument, be abbreviated or be unknown, and a colon among options.  Five arguments of four kinds give exchanges of
every pair of lengths up to a total of five, several in one scan.

`pieces`: every stream of up to four bytes of ten kinds, and two or three of a dozen
fragments, which nest arrays, announce too much and end anywhere; conversations of up to
two calls, six that both clients make, for Rust with expirations of less than a millisecond
and of no whole number of them, for C++ with keys that are not UTF-8; hexyl with lines of two bytes, files of four lines and all pairs of a
dozen counts; tr with ten first and sixteen second sets and every option, and every run of
up to six of three bytes, which is what the step of two needs to land on each side of a
repeat.  `MaxCount` stands for `i64::MAX` and lies just under five of the largest unit, so
that counts overflow.  `buffered`: three callers and a queue of one make a caller wait for
a place while another waits for an answer; three calls let a set come between two gets.

### Fairness

*Db, CppDb*: the purge task runs when it is ready (tokio and asio run what is ready),
and in Rust a caller past its critical section goes on to its `notify_one`; callers need not
call, and the clock need not tick.  *Subscribe*: weak fairness of the task's own
steps; strong fairness of each ready branch of `select!` and each ready stream of the
`StreamMap`, because both poll from a random start, so that a branch that is ready
again and again is not passed over for ever.  *CppSubscribe, CppServer*: the
`io_context` runs what is ready, and a client reads what it is sent.  *Server*: as for
Subscribe; in both servers clients need not send, and need not close.  In both servers
what a client sent before it closed is finite, so that the end of its stream is read.
*Subscriber*: the program polls the call it is in; it need not call.  *BufferedClient*: the
runtime polls the task and the senders that have a place, and the server applies what it
has read while the connection is open; nobody need call, and the server need not close.
`Connection`, `Hexyl`, `Tr`, `Cat` and `WGetopt` have no liveness: they stop at the end
of their input, which the runs reach in every state graph.

## 4. Proofs

Eight modules hold theorems, all without bounds on keys, callers, values, time,
clients, connections, channels, commands, messages, the length of the input or the
number of arguments.

*DbProofs.*  First the lemmas both Dbs rest on: what `Reindex` and `Purged` do to the
index, and that `NextExpiration` is the least deadline.  For `Db`, `IndexCorrect`,
`DeadlinesNotMissed`, `ShutdownSeen` and `TypeCorrect`
follow from one inductive invariant: the type invariant, `IndexAgrees`, and for the
two wake-up properties what the task knows at each of its program points: a task that
has decided what to wait for either decided on the present index and flag, or a caller
that changed them still has to notify, or the notification is stored.  Without the last
part neither property is inductive, since the change and its notification are separate
steps.  `ImplementsSafeStore` shows with the same invariant that every step is a step
of `ExpiringStore` or leaves it alone; the purge step needs `IndexAgrees`: a pair in
the index must be the present deadline of its key.  The theorems about `CppDb`, whose
names begin with `Cpp` as its actions do, are the same; here a handler is one step, and the
invariant only has to say that a waiting `purge_task` waits for the first deadline:
`CppNeverMissed` is the `NothingMissed` that the run checks.

*SubscriberProofs.*  `AnyClient` is about the loop alone, with a client that sends what
it likes; the others are about the composition with a `Subscriber`.  For the frames the
invariant (`LoopIInv`) says that the keys of the `StreamMap` are exactly the channels the
frames written leave the client subscribed to, that what is pending for a channel is in
order and newer than what was written of it, and that nothing written is newer than what
was published.  `ListCorrect` needs `CallInv`: how far a call has come, in terms of the
frames it has read.  `FailuresExplained` needs most, `AlignInv`: client and server take
their steps at different times, so it says that the confirmations the call still waits
for are those in the frames not yet read, followed by those the loop has still to write
for the command it is in (`Taken`), or that the command of the call is the next that
makes the loop answer (`Waiting`): commands before it in the inbox can only be
unsubscribes that were left with no channel to leave, unless one of them is malformed,
which ends the session.  Client and server are in step (`InStep`) until the program calls
again after a call that failed; from then on only `LoopIInv` and the types are kept
(`IInv == LoopIInv /\ SessionTypes /\ (~astray => InStep)`), and `FailsOnlyFor` holds for the
reason it names.  None of this is in the two properties, and neither is inductive
by itself: a frame not read yet is what the next step of the client depends on.

*CppSubscribeProofs.*  `NoStrayMessages`: every entry of `subscriptions` is of a channel
with a confirmation and no later end of it.  Unlike in Rust the converse fails, since
a channel may have several entries, and is not needed.  `AlwaysWatched`: the property is
inductive with one addition, that the watcher was woken by the signal and nothing else;
its proof is the case analysis over timer, callback and watcher that the loop was
written against.

*ReadingProofs: frames.*  `FramesAlwaysTheSame` and `CheckAlwaysCounts` are about
`SpecConnection`: a connection over which any sequence of bytes comes, in either version,
cut anywhere and with reads given up anywhere (the run has the same actions and some of
these inputs).  The invariant (`ReachedInv`) is that the buffer and what is left are the
input from a place on, that the frames that are out and those of the input from that
place are the frames of the whole input, and that a read is only asked for when
`parse_frame` finds the buffer incomplete (`AsksInv`), without which the end of the stream
could drop a frame.  It is kept because more bytes change nothing that was decided
(`ParseFrameStable`): what check or parse reads at one place of a buffer it reads there of
every longer one, or else the buffer was incomplete and what it lacks is read
(`SameOrNeedsMore`).  This is shown for lines, numbers and bulks, for one place
(`CheckAtLocal`, `ParseAtLocal`), then for whole frames.  In Rust a buffer that check
accepts and parse finds incomplete is an error; that this error is one of every longer
buffer too needs `CountsMore`: check, after as many frames as parse read, is where parse
is.  The same lemma gives `CheckAlwaysCounts`; its delicate case is a null, which check
skips as four bytes without looking at them and parse reads as a line.
`check`, `parse` and the reading of the whole input are recursive functions; that they exist is
shown from the end of the buffer backwards (`Backwards`), since each frame ends after it
began: for `parse`, which continues where the parts of an array end, only together with
that bound (`ParsesFrom`).

`BufferedImplementsCalls` is the refinement of `StoreCalls`, for any
callers, queue and number of calls.  The invariant says of each call where it is (with its
caller, in the queue, with the task, on the connection, answered) and that it is in one
place only, so that the answer the task reads is that of the request it holds; what the
server applied and has not been read is what `effect` holds of that call.  A caller that
gives up once its request is in the queue leaves it there, which is why the invariant speaks of the calls
and not of those that wait.

*ReadingProofs: calls.*  `CallsAlwaysRoundTrip` is about `SpecCalls`: any number of calls of
either version, with any values and messages, any keys and channels and any expirations that
the client's types allow, and a server of either version, over a connection cut anywhere.  A connection is the one of
`FramesAlwaysTheSame`, so that it is enough to look at the whole of what one end writes.
`At(b, p, s)` says that the bytes `s` stand in `b` from place `p` on.  First the digits:
`write_decimal` writes a number whose `Value` is that number, and `atoi` reads the digits up
to the first byte that is none, of either version (`DecimalAt`).  Then each value is parsed
where it is written (`ValueAt`), then the parts of an array one after the other, then a frame
of either kind (`FrameAt`), then the frames of the whole stream (`StreamRead`), by a first place
at which it would not be.  What is left is about frames: `from_frame` undoes `into_frame` for every command,
but for what an expiration loses below a millisecond and for what a Rust server refuses, of
which nothing is made; and each call up to the first refused makes of an answer what the store
answered, for the answers either version writes.  Numbers are unbounded here where the code
has 64 bits, and expirations are of less than 2^63 nanoseconds, which is what the C++ keeps
them in.

*ReadingProofs: hexyl.*  `HexylPrintsWhatIsAskedFor` is about `SpecHexyl`: any input, any
texts as arguments, any positive width and group.  `Meaning` says what the arguments ask for:
an error, nothing, or a count of bytes from a place on with a position; the texts are read by
the operators of the code, and the run compares them with meanings written by hand.  The
invariant `HexylIInv` keeps that meaning (`JobIInv`) and says in each phase where the program is
in its input (`Phases`).  While bytes are skipped, what was read and what is still to be skipped add up
to the offset (`Skipping`).  In `print_all` there is a number of lines done (`Progress`): the
output is the listing of those lines, the bytes in `line` are the next ones of the input, and the
squeezer is as the lines done leave it (`Squeezes`): whether the last of them is of one byte,
which, and whether a star stands for it.  That last part is what makes the property inductive,
since the squeezer decides from it about a line it has not seen.  `SqueezeRepeats` and `SqueezePrints` then
say that a full line adds what the reference has for it, `ListingDone` that the end of the
input adds the rest, `OrderedByGroups` that reversing each group is what the little-endian
panel does.  A C array counts its bytes (`Including`).  The constants are naturals, and a row
of the array holds at least one byte (`HexylAssumption`).

*ServerProofs.*  `PermitsAlwaysConserved`, `ConnectionLimit` and `StopsDrained` follow
from the type invariant, `PermitsConserved` itself and the fact that a server past its
`select!` has dropped its listener; without that fact `StoppedMeansDrained` is not
inductive, since an accept could start a handler.  `NoLateCommand` needs where a
handler that saw the shutdown can be: at the head of its loop, or past it.

*CppServerProofs.*  `AlwaysCounted`, `NeverWaitsInVain` and `StopsDrained` need what the
counter says of the accept loop: it awaits an accept only below the limit, and a woken
or finished `server_run` has counted down to zero.

*CoreutilsProofs: cat.*  `PrintTheSame` is a simulation between the two machines: `SamePlace` says
which value of `newlines` goes with which flags and that the line counters are one
apart, `SameHeld` when both hold back a carriage
return, `SameOutput` that the outputs agree, and `TextBefore` ties the
flags to the last byte read, so that a cut before a newline is known to be one.  The
exception for `-s` is part of the invariant, as the code makes it.  `PrintsListing` has
`ListInv`: what is printed, with the carriage return held back, is `Listing` of what was
read; `newlines` says of the last two bytes whether they are blank lines, and the line
counter how many bytes before begin a numbered line.  A byte more leaves the pieces of the
bytes before as they are (`SamePieces`), but for a carriage return that a newline follows,
which shows as `^M`: that one is what cat.c holds back (`HoldsReturn`).  `Listing` joins the
pieces with the library's recursive `FlattenSeq`; that it is defined, and by one piece
more grows by that piece, is shown at the first place where it would not
(`FlattensSome`, `FlattensOnce`).

*CoreutilsProofs: tr.*  `TrFiltersIndependentOfReads` is about `SpecTr`: any flags, any
sets of items and any input of bytes, cut anywhere.  What both versions come to is `Deduped`: what
the readers make of the input, with a byte of the squeeze set dropped when it is the same as the
one before it.  It can be done piece by piece, if the last byte of a piece is remembered
(`DedupedConcat`); that is the invariant `TrIInv`: both filters have written `Deduped` of
`Reader` of what was read, the Rust keeps its last byte in `previous`, and the C keeps it in
`char_to_squeeze` if it is of the squeeze set (`CharOf`).  The two keep different things, and a
`char_to_squeeze` that kept less would let a run through that two buffers share.
`SqueezeFilterIs` is the C.  Its search by twos has passed no byte of the set that repeats
another (`SearchIs`, where the look-back at the end of the buffer is needed), so that a turn writes
what is left of the part it passes, and drops the run that follows (`TurnEnds`,
`TurnGoesOn`); a first buffer place from which it does not, counted from the end, cannot exist
(`FilterSolved`).  `TranslateAllIs` and `ProcessChunkIs` are the Rust, with and without `-s`; the
latter says that counting a single byte first changes nothing.  The rest is about the sets.
The loop that builds the table maps each byte by its last place in the first set (`TableIs`);
`SecondNoStar`, `SecondStar`, `ExtendedNoStar` and `ExtendedStar` say that the second set, as the
code fills its star and as the loop goes on with its last byte, stands at each place for what
`Extended` has there; and `ExpectedWritten` that `Expected` is then `Deduped` of the whole.
Sets that the code refuses are left out (`Sets # {}`), since nothing is written for them.
`TrAssumption` gives the classes names that no other item has, and bytes as members.

*WGetoptProofs.*  `IndicesStayInOrder`: the invariant is `Ready`, which adds to
`InOrder` that text left over belongs to an element within argv; without it
`handle_short_opt` could pass `argc`.  Within a call the proof goes from part to part
(`Looking`, `Decoding`, `Called`), one lemma for each function of the code.  `Least`, that
a nonempty set of naturals has a least element, stands for induction on the elements
skipped.  `VersionsAlwaysAgree` rests on `SwapLoopRotates`: a pass of the loop of swaps leaves a
smaller range whose rotation is the same, so a smallest range that the loop does not rotate
cannot exist; that the loop is defined at all is shown by the rotation, which satisfies its
equation.  Between two calls the invariant adds to `Ready` that argv holds `argc`
arguments, and `Inside`: text left in a cluster belongs to an element that begins with a short
option.  Without that, the rewrites, but not the original, could take for a short option what
was tried as a long one.  Once one version strays, all have.
`OptionsAlwaysReturned` compares what was returned so far with what there is still to return.
The invariant (`Tells`) has three cases: no call was made yet (`NotBegun`), the calls have ended
as `Scan` says (`AllTold`), or they are between (`Underway`).  Between, argv
stands like this (`Stands`): the elements used and those left, which the two ranges tell apart,
are the ones given up to the index, each group in its order, and from the index on argv is as
it was given; and what the whole argv calls for is what was returned, used and left so far
(`Sofar`) followed by what the rest calls for (`RestOf`), where the rest may begin within a
cluster.  `ReturnsOptions` by itself says nothing of argv until the end, nor of what the calls
still to come will find.  An exchange keeps the two groups and the order in each
(`ExchangeGroups`), whatever their lengths.  Then there is a lemma for each part of a call:
what is passed over (`LeftTold`, `PermutedTold`), the ways to end (`EndFinishes`,
`NonOptionEnds`), a short option (`ShortScans`: a cluster without its first character is a
cluster again) and a long one (`HandleLongOptScans`, with `FindMatchIsOne` for what may be
abbreviated).  That `Scan` is defined is shown from the last element backwards (`Solvable`).

The assumptions are on the types of the constants: `ExpirationsAssumption` on the type
of deadlines; for the servers finitely many clients and a positive limit;
`SubscribeAssumption` (the commands are sequences of channels with one of the four kinds, a
broadcast channel keeps at least one message, `NoStream` is no sequence), `SubscriberAssumption`
(a call names channels) and `CppSubscribeAssumption` the same; `StoreCallsAssumption`,
that the number of calls is a natural number; and `WGetoptAssumption`: an argv has
a first element, options are characters, and a long option has one of the three types;
`SubscribersAssumption`, that a count of subscribers is a natural number; and
`HexylAssumption` and `TrAssumption` above.  Options of wgetopt are neither `-`, `=` nor `:`.
Channels need not be finitely many.

What stays with TLC:

- everything that must eventually happen, since the proof system has no support for
  fairness: `ImplementsStore` is proved for the safety part of `ExpiringStore` only.

Every invariant that a passing run checks is stated by a theorem.

The induction theorems of the library cannot be used either, so each recursive function here has
its own argument from a first counterexample (`Least`): `check`, `parse`, `FlattenSeq`, the
digits of a number, the loop of swaps, `Scan`, `squeeze_filter`, the loop over a piece and the one that
builds the table of `tr`.

## 5. Plan

Done: Db, CppDb, both sessions, the Subscriber, both servers, frames, connection and
commands, BufferedClient, cat, tr, hexyl, wgetopt; proofs for both Dbs, both sessions and
the Subscriber, both servers, BufferedClient, `read_frame`, the round trip of a call, hexyl,
cat, tr and wgetopt.

These modules have no recursive operators where they need none, for that purpose.

## 6. Not modelled

- `hexyl` in C++, the digits, characters and borders of a line, colours, and panels
  derived from a terminal: layout, and a read that fails.
- `tr`: the grammar of a set (`from_str`), the set expansion of `tr.c` and of the C++, which
  resolves ranges on text.
- `cat`: opening files, refusing to write a file to itself, `splice` and
  `copy_file_range`, whose failures are those of the kernel.
- `wgetopt`: empty arguments and the index of a long option.
- clients: connecting, `BlockingClient` (the same calls on a runtime of its own), the C++
  `Subscriber`.
- `timer`, `color`, `echo`, the command lines: functions of their arguments, without state
  that outlives a call, reads in pieces or anything concurrent.
- `db.hpp`'s `async_recv`, which nothing calls, and expirations that overflow.
