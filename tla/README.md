# A TLA+ model of the multi-client media streaming server

The repository is a C++17 media server (one thread per client, a line protocol
`GET`/`LIST`/`QUIT` over TCP, files streamed in chunks) and a download client.
This directory holds TLA+ modules translated from its source, TLC
configurations that check them on small instances, and TLAPS proofs: of the
safety of the server's life cycle and of its logger for every number of
sessions, threads and signals, of a transfer for every size, chunk and fault, of
listings and paths for every directory and request line, and of both
refinements. Every invariant that a passing run checks is also the statement of
a theorem.

Paths below are relative to the repository's root (`src/Server.cpp`, ...).

## Inventory

| Component | State | Operations | Talks to |
| --- | --- | --- | --- |
| `Server` | `is_running_`, `workers_` under `workers_mutex_`, `server_socket_`, `next_session_id_`, static `running_instance_` | `start`, `accept_loop`, `cleanup_finished_sessions`, `stop`, `handle_signal`, `~Server` | makes sessions and their threads; is stopped by an owner thread, by a signal, by its destructor |
| `ClientSession` | `is_active_`, `socket_` | `run`, `stop`, `handle_get`, `handle_list` | one worker thread runs it; the thread in `Server::stop` stops it |
| `Socket` | `fd_`, a plain `int` | `accept`, `send_all`, `recv_all`, `recv_line`, `shutdown`, `close` | shared by the worker and the stopper without a lock |
| client (`do_get`, `do_list`) | bytes received, output file | request, header, receive loop, write, `QUIT` | the session, over TCP |
| `FileManager` | canonical root | `init`, `get_file_size`, `open_binary_file`, `list_files`, path resolution | read by every session |
| `Protocol` | none | `parse_request`, response builders | pure functions |
| `Logger` | level, file, mutex | `init`, `set_level`, `log_string`, `~Logger` | everybody, the signal handler too |
| option parsing | `ServerConfig` | the two `main` functions | |

What is hard here, and what would make each part right:

* **Life cycle.** `stop()` may come at any moment of `accept_loop` and of any
  number of workers, from another thread, from a signal handler on top of
  whatever thread was running, and from the destructor. It must end the accept
  loop, wake and join every worker, close every descriptor, and do this once.
  `cleanup_finished_sessions` joins while it holds the mutex, so it may only
  wait for workers that are really at their end.
* **Descriptors.** `Socket::close` tests and clears a plain `int` from two
  threads.
* **Transfer.** The file may change between the size, the open and the reads;
  sends and receives are partial; either end may go away; the server has
  timeouts, the client has none. The client must say SUCCESS only with all the
  bytes, and both ends must come to an end.

* **Requests.** `list_files` reads a directory that other processes change, and
  one error code serves the iterator, the type and the size of every entry. A
  name goes from the directory through a response line to the client and back
  through a request line to `resolve_safe_path`; it should be the same name.
* **Logging.** Every thread and the signal handler log through one mutex, up to
  and during the destruction of the logger.

`PROJECT.json` lists these as hazards, each at its line, with the properties
that would catch it.

## Modules

| Module | What it is |
| --- | --- |
| `Server` | life cycle of the server and its worker threads, with its properties |
| `ServerInvariant` | the inductive invariant `IInv` of `Server`, part by part |
| `ServerProofs` | TLAPS proofs: `IInv` is inductive, the safety properties follow |
| `MCServer` | `Server` and `IInv` for TLC |
| `ServerLifecycle` | abstract specification: what the server promises its owner and its sessions |
| `ServerLifecycleProofs` | TLAPS proof that `Server` implements `ServerLifecycle` |
| `Streaming` | one `GET` from end to end: session, client, TCP, file, faults |
| `FileTransfer` | abstract specification: what a `GET` promises |
| `StreamingInvariant` | the inductive invariant `StreamInv` of `Streaming` |
| `StreamingProofs` | TLAPS proofs: `StreamInv`, the safety properties, the refinement |
| `MCStreaming` | `Streaming` and `StreamInv` for TLC |
| `Protocol` | operators: requests and responses as lines of tokens |
| `FileManager` | operators: paths, links, `resolve_safe_path`, what an entry is |
| `Requests` | one request of any kind: `run`, `handle_list`, `list_files` step by step, `handle_get` up to its header, `do_list`; extends the two above |
| `ProtocolProofs` | TLAPS proofs about lines, words and numbers |
| `FileManagerProofs` | TLAPS proofs about `resolve_safe_path` for every name |
| `RequestsInvariant` | the inductive invariants `RequestsInv` and `ListingInv` of `Requests` |
| `RequestsProofs` | TLAPS proofs: `RequestsInv`, listings, what a GET opens and refuses |
| `ListingProofs` | TLAPS proofs: types, `ListingInv`, a list on its way to the client and back as a GET; extends the other three |
| `MCRequests` | a media directory and request lines for `Requests` |
| `Logger` | the logger's mutex, level and sinks, used by threads and a handler |
| `LoggerProofs` | TLAPS proofs about `Logger` |
| `MCLogger` | `Logger` for TLC |

Definitions marked "Mutant" are deliberate errors (a dropped lock, an
off-by-one, a missing reset). They are part of no specification; each is put in
the place of the definition behind it to see that a property notices.

### Server

Three kinds of processes, each with a program counter, interleaved at every
access to something shared:

* the thread that runs `start()` (`mpc`): `StartInit`, `StartPublish`
  (`running_instance_` and the handlers), `StartListen` (create, bind, listen:
  one step, because nobody else looks at the socket before `is_running_` is
  set), `StartRun`, then `accept_loop`: the loop test, the call of `accept`, its
  result, the cleanup (lock, one step per vector entry, unlock) and the push
  (lock, thread, unlock);
* the callers of `stop()` (`spc`): `"owner"`, `"handler"`, `"dtor"`. Each goes
  through the compare-exchange, `shutdown` and `close` of the listener, the
  mutex, `ClientSession::stop` of every session (compare-exchange, shutdown,
  the test of `fd_` and the `::close` as separate steps), the joins, the clear;
* the workers (`wpc`): `ClientSession::run`, with receive, handler and the
  two-step `close`.

A handler runs on top of a thread (`sigOn`), which makes no step meanwhile.
`std::terminate` (a joinable thread destroyed, `std::thread`'s constructor or
`join` throwing, an exception out of a request's handler: `HandleThrows`) is the
variable `crash`, after which nothing moves. An entry that leaves `workers_`
runs `~ClientSession` and `~Socket`, which closes what is still open (`Release`;
in the model as in the code there is nothing left to close then). `ended` and
`startFailed` are history variables used by the properties.

`ExternalStop` tells the two ways the code is used apart: `FALSE` for
`server_main`, where only a signal stops the server; `TRUE` for the tests, where
another thread owns it, may call `stop()` and joins the thread that ran
`start()`. The destructor runs when `start()` and a `stop()` of the owner, if
there was one, have returned, so the behaviours of `FALSE` are among those of
`TRUE`.

Abstractions: `workers_` is a set, because the vector is always in session-id
order and every loop visits it in that order (`IsFirst`); a request is only
what it does to `is_active_`; a descriptor is "open or not" and `closes` counts
`::close` calls, so the reuse of a closed number by another socket is counted as
a double close and not followed further; one handler activation runs at a time
(a second SIGTERM on top of a SIGINT handler is not modelled); Logger's mutex is
in `Logger`, not here.

`ServerLifecycle` says the same without threads: a server starts, serves, drains
and goes; sessions open in the order of their ids and are over once; after a
stop at most the connection that was already being accepted becomes a session;
the server goes only when no session is open, or the process dies. The mapping
(`Life`, at the end of `Server`) takes the phase from where the main thread is
and from `is_running_`, and a session's state from its worker's.

### Streaming and FileTransfer

The session's thread (`spc`) and the client (`cpc`), with the kernel's buffers
between them: `c2s` holds request lines, `reply` the response line, `s2c` the
bytes behind it, at most `BufCap` of them. A byte of the file is its position,
so order, loss and duplication are visible. `GetSend` and `ClientRecv` move one
byte at a time, which covers every partial `::send` and `::recv`. A header may
arrive in two parts (`GetHeaderPart`), and then be all there ever is:
`CutNumbers` gives the numbers a cut header can show, the size without its last
digits, for sizes of any number of digits. A client whose disk fails may also
end by the exception of `canonical(out_path)`, behind its "SUCCESS" and before
QUIT (`ClientThrows`).

A behaviour has a set of `faults`, chosen at the start from `FaultSets`: the
file shrinks, grows or is removed and comes back (`FileChanges`), the file
system refuses (`denied`), the connection is reset, `ClientSession::stop` comes
(`StopCas`, `StopShutdown`), the client is killed, its disk fails, sends are
cut, the server's timeouts expire. A send to an end that is closed fails at
once; the kernel may accept some bytes first, which nobody reads.

`FileTransfer` has three variables: the size announced, the bytes delivered (a
prefix of the file, counted), the outcome. `Streaming` is shown to implement it
with the refinement mapping at its end; a byte out of order maps to a value no
step of `FileTransfer` produces.

### Protocol, FileManager and Requests

A line is a sequence of tokens and a file name too: a piece of a word, a dot or
two, a slash, a blank, a NUL. This is just enough to tell the cases of
`parse_request` and `resolve_safe_path` apart: blanks before, inside and behind
a name, hidden names, names that start with two dots, ".." as a component,
absolute names, links to a file below the root, out of it and to nothing. A path
is the sequence of its components; `Canonical` models `weakly_canonical`, which
follows links as far as the path exists and normalises the rest: `Walk` goes
from the root along the components, `Enter` by one, and a name whose path exists
up to its last component `Reaches` what it names. `Links` gives every link its
last target, so a chain of links is one link. `FilesAssumption` says this and
what any file system gives: a file is not a directory, a file below the root is
reached through directories, and the names on the way are not empty, "." or ".."
and hold no slash and no NUL (`IsName`). `RequestsAssumption` says that `Order`
sorts the names that can appear, and that sizes are written in digits.

In `Requests` the session makes one step per access to the file system: the
iterator (`ScanOpen`), each entry (`ScanEntry`, in any order), its size
(`ScanSize`), the end (`ScanBreak` when the error code of the previous entry is
still set, `ScanEnd`), or the exception of the iterator's `++` (`ScanThrow`).
The sort and `build_list_response` belong to the step that leaves the scan.
Between any two of them `DirectoryChanges` may create or remove a file or a
link, and the iterator may notice or not. A response may be cut anywhere
(`SendFail`). The client runs `do_list`, or sends one other line and looks at
the first line of the answer. A GET asks twice: `GetSize` resolves the name and
keeps the size, which the header will show; `GetOpen` resolves it again and
opens what is there by then. Each may be refused although the file is there
(`GetDenied`: an error of `weakly_canonical` or `file_size`, a file that cannot
be opened), which `denied` remembers. `known` and `steady` remember which files
existed at some moment, or at every moment, of the scan.

### Logger

One context per thread and one for the handler, which runs on top of a thread
and stops it meanwhile. `log_string` is five steps: lock, level, file, console,
unlock. The handler logs whatever it finds, as `handle_signal` does before it
looks at `running_instance_`; this goes on while `~Logger` runs, because nothing
removes the handlers.

## Runs

| Run | Configuration | Result |
| --- | --- | --- |
| `owner` | 3 sessions, a second thread calls `stop()`, under fairness; 492 153 states | passes |
| `signals` | 2 sessions, 2 signals on the main thread or worker 1, perhaps a second thread that calls `stop()`, under fairness; 469 711 states | passes |
| `orphan` | `EveryWorkerJoined` | violated |
| `double_close` | `NoDoubleClose` | violated |
| `self_deadlock` | `HandlerNeverWaitsForItself` | violated |
| `lost_signal` | `SignalEndsServer` | violated |
| `faults` | one GET, no fault or all of them; 214 181 states | passes |
| `requests` | 27 request lines, 10 files and links, one change, all faults; 576 104 states | passes |
| `outside` | `ServedInside` | violated |
| `list_skips` | `EveryFileListed` | violated |
| `list_cut` | `ListedInFull` | violated |
| `logger` | 2 workers, main, one signal; 250 000 states | passes |

What the passing runs show:

* `owner`: the cleanup's join under the mutex waits only for workers that have
  left their last request (`CleanupNeverWaitsForClient`); neither loop over
  `workers_` has the vector changed under it (`IteratorsValid`); no finished
  session is skipped (`EndedSessionsReaped`); a server destroyed without
  `std::terminate` leaves no thread (`NoThreadLeak`) and an ended worker no open
  descriptor (`NoDescriptorLeak`); `stop()` always finds the listening socket
  (`StopFindsListener`). Deadlock is checked: no state short of the end of the
  process is stuck. `LifecycleSpec`: the server implements `ServerLifecycle`.
  `ShutdownCompletes`: once `stop()` has won the compare-exchange, the server is
  destroyed (or terminated by the orphan of the finding below), whatever clients
  do.
* `signals`: the inductive invariant; of the owner, a handler and the destructor
  one at a time is in the body of `stop()`, and never the destructor
  (`OnlyOneStopper`); `running_instance_` dangles only after a failed `start()`;
  a handler that has passed the compare-exchange, on the main thread or on a
  worker, ends the server or the process, unless it waits for a mutex that its
  own thread holds or whose holder is joining its thread
  (`SignalShutdownCompletes`). Ending the process includes the case that the
  handler on a worker joins its own thread, which throws (`StopJoinSelf`).
  Deadlock is not checked here, because the handler can wait for ever.
* `faults`: the inductive invariant `StreamInv`; `TransferIntegrity`,
  `SendsWithinAnnounced`, the refinement `TransferSpec`, both ends finish
  (`ClientEnds`, `SessionEnds`), and without faults an existing file arrives
  (`TransferSucceeds`). At SUCCESS the whole file has been written
  (`SavedOnSuccess`), unless a write failed: nothing looks at the result of
  `outfile.write`, so the client of the model, as the one of the code, then
  reports bytes as saved that are not.
* `requests`: the inductive invariants `RequestsInv` and `ListingInv`; a listing
  holds only files that existed during the scan and all that existed throughout
  it, unless the scan was given up (`ListingBounds`); the client shows what was
  listed (`ShownIsListed`), and what it shows can be fetched
  (`ShownCanBeFetched`), with the exceptions each property names: names with
  blanks, links that lead out or to a name that starts with two dots; a plain
  name is not refused (`PlainNamesServed`), except one that starts with two
  dots, if the file system lets the server look at the file and open it; what a
  GET opens lies below the root, or is the target of a link in it that the name
  reached through something that is no directory (`OpensInside`). That there is
  such a name is the finding of the run `outside`. Deadlock is checked; every
  behaviour is finite, so this also shows that client and session end.
* `logger`: the file and the console show the same records in the same order
  (`SinksAgree`); a call of `log_string` returns unless the handler interrupted
  the holder of the mutex and waits for it (`CallsReturn`). In that case the
  whole process stops, which is why deadlock is not checked.

What the violated ones show (details, with the quoted lines, in `PROJECT.json`):

1. `orphan`: `stop()` between `accept()` and the push of the new worker leaves a
   joinable thread behind, and `~Server` calls `std::terminate`.
2. `double_close`: `stop()` and the end of `run()` both close the descriptor.
3. `self_deadlock`: the handler waits for the mutex its own thread holds. With
   `SignalTargets = {1}` the same property fails for a handler on a worker, when
   the main thread joins that worker under the mutex.
4. `lost_signal`: a signal before `is_running_ = true` is forgotten.
5. `outside`: a GET whose name goes through a component that is no directory and
   back is checked without the link at its end, which the open then follows out
   of the media directory. The same link's own name is refused.
6. `list_skips`: the error code of one entry, here a link to nothing, ends the
   scan at the next one. Nothing changes in this run; a file removed between its
   entry and its size has the same effect, which is in the model (`ScanSize`)
   and excused by `gaveUp` in `ListingBounds`.
7. `list_cut`: a LIST response that ends inside its header is shown as an empty
   list, with success.

### Bounds

Two sessions are enough for every pair of pool operations to meet (one session
being reaped or stopped while another is accepted or runs); three are needed for
"erase skips the next entry" to matter between two others. Two signals let one
handler run after another has emptied the server. The proofs lift both bounds
for the safety properties.

In `Streaming`, server chunks of 3 bytes, client chunks of 4 and buffers of 2
make chunks of one side span chunks of the other and make every send block in
the middle. Sizes are 0 (no loop iteration), 3 (one full chunk, less than the
client's) and 10 (one byte more than three chunks, and two digits, so that a cut
header can show another number), with one change of the file to any size up to
11.

The directory of `MCRequests` has one entry of each kind that the code treats
differently, with and without the link to nothing at the start. One change is
enough for a file to vanish or appear at each step of a scan or between the two
looks of a GET; it also means that the iterator returns no entry twice. A LIST
there has fewer than ten files; that a count of several digits survives the way
is proved (`DecimalNumber`). In `Logger` two workers, the main thread and the
handler make each one call.

### Fairness

A thread that can make a step eventually makes it: weak fairness of the main
thread's own steps, of every caller of `stop()`, of the handler's and the
destructor's steps, and of every worker's own steps. In `Server` nothing that
depends on the outside is fair: that a client connects, sends, reads or leaves;
an error of `accept`; a timeout, which the configuration may turn off; the
owner's decision; a signal. A blocked receive fails fairly only when the socket
was shut down, a blocked accept only when the listener was: this is what
`stop()` relies on. Weak fairness is enough for the mutex because nobody
competes for it for ever: `stop()` runs once, and the main thread's loop ends
with it.

The callers of `stop()` share one weak fairness condition (`StopOwnStep`), which
is weaker than one for each: at most one of them is in the body.

In `Streaming` timeouts are fair when they are among the faults, because
`socket_timeout_sec` is 30 by default and no option changes it. `ClientEnds`
needs them: a file that became too short leaves the client waiting until the
server's receive times out. Without timeouts and other faults a GET ends by
itself.

In `Logger` a context inside `log_string` goes on, and so do a handler that is
done and the destructor; nobody has to log or to end. The mutex is not fair: a
caller gets it because the others make finitely many calls. `Requests` needs no
fairness, see above.

## Proofs

`ServerProofs` proves `Spec => []IInv`, and from it nine of the properties
above, for every `MaxSessions`, `MaxSignals` and `SignalTargets` and both values
of `ExternalStop`, from `ConstantsAssumption` alone.

The properties are not inductive by themselves. That cleanup waits only for
workers at their end, for example, needs that `is_active_` is FALSE in front of
a receive or a handler only while `stop()` holds the mutex (`ActiveInv`), which
needs to know where the mutex is held (`MutexInv`), that the session under
construction cannot be stopped yet, and that live workers are in `workers_`
(`ThreadInv`). `RunningInv` says what `is_running_` implies about the listener
and about who is inside `stop()`; `CallerInv` when the destructor may run and on
which thread a handler is; `InstanceInv` and `ReapInv` are the strengthenings of
the two history properties; `DescriptorInv` relates `fd_` to the calls of
`::close`. TLC checks `IInv` in the run `signals`.

There is one lemma per part of the invariant and in it one step per action that
can disturb it. `WorkerStep` is the fact about a worker's step that most of them
use.

`LoggerProofs` proves `TypeOK` and `SinksAgree` for every set of workers, every
`MaxLogs` and `MaxSignals`, from `LoggerAssumption`. That the sinks agree needs
to know that at most one context is between its two writes (`MutexInv`: a
context is inside a critical section if and only if it holds the mutex) and that
the log file is opened before anybody has written to the console (`EarlyInv`).

### The server implements ServerLifecycle

`LifecycleRefinement` shows that every step of every thread, caller and handler
is a step of `ServerLifecycle` or changes nothing it can see. `IInv` supplies
what the abstract guards ask for: a worker is made only where the abstract
server may open a session, its id is the next one (`OrderInv`: every id below
`next_session_id_` has its thread, but for the one in `accept_loop`'s hands),
and the server is destroyed without `std::terminate` only when no worker is
left (`NoThreadLeak`).

### Streaming

`StreamingProofs` proves `Spec => []StreamInv`, for every set of file sizes,
both chunk sizes, every buffer capacity, every choice of faults and number of
file changes, from `StreamingAssumption`. `TransferIntegrity` alone is not
inductive: that the next byte received is the next byte of the file needs that
the bytes received, in flight, and still to be sent from the buffer are
consecutive (`BytesInv`), that no second GET starts on the connection and no
QUIT is answered in the middle (`RequestInv`), and that the number the client
took from the header, also from one cut short, is either the announced size or
comes with a connection that is already closed (`HeaderInv`). `CountInv` then
gives the number of bytes at success, received and written.
`TransferRefinement` maps every step to `Announce`, `Deliver`, `Succeed`, `Fail`
or a stutter.

### Paths and requests

Most of what is claimed here rests on recursive definitions (paths, lines,
numbers). The library's induction rules take an operator as their parameter,
which the installed provers cannot instantiate, so induction is used as "a
nonempty set of numbers has a least element" (`Least`), applied to the set of
counterexamples, and the existence of a recursive function as one lemma
(`Recursion`) about a step given as a function.

`FileManagerProofs` proves two theorems for every state of the file system and
all links.

* `ResolvedInside`: what `resolve_safe_path` returns starts with the root, for
  every name. `Walk` is well defined and yields paths (`WalkExists`,
  `WalkType`); a longest common prefix of two paths exists (`CommonPrefix`); if
  it is shorter than the root, the relative path starts with ".." and is refused
  (`RelativeInside`).
* `PlainResolved`, the other direction: the plain name of a path below the root
  is resolved to that path, or to the target of a link at its end, unless that
  is outside or its first component starts with two dots. The components of a
  joined name are the ones it was joined from (`SplitJoin`), the walk along them
  passes only directories (`CanonicalBelow`), and the relative path of what it
  reaches does not start with ".." (`RelativeBelow`).

`RequestsProofs` proves `Spec => []RequestsInv` from `FilesAssumption` and
`RequestsAssumption`, then:

* `ListingBounded`: `ListingBounds` for every directory, every order of its
  entries, any number of changes and every fault. In the middle of the loop the
  files that stay are found, still to be visited, or the one whose size is being
  asked for (`ScanInv`); that they are still visible means that
  `is_regular_file` and the test for hidden names let them through. The scan
  starts from an empty result because a connection carries at most one request
  before QUIT (`OneRequestInv`).
* `GetStaysInside`: `OpensInside` for all request lines, all links and all
  changes between the two looks at a name, without further hypotheses. The path
  that is opened starts with the root (`ResolvedInside`). If the name reaches
  it, no link is left to follow at its end and what is opened is the path itself
  (`OpenedInside`); if not, the open may follow one link, which is below the
  root, and this is the only way out.
* `PlainServed`: `PlainNamesServed`. The session works on the name in the
  client's line, and in an unchanged directory whose file system refuses nothing
  it is answered with an error only if it did not lead to a file
  (`RefusedInv`); `parse_request` finds the name behind "GET "
  unchanged (`GetParsed`), and `PlainResolved` finds the file.

`ProtocolProofs` proves `DecimalNumber`: the digits written for a number are
read as that number, for every number; and the lemmas about joining lines to a
stream and cutting it at the first newline, and a line at its first blank.

`ListingProofs` proves `TypeOK` of `Requests`, without further hypotheses, and
from it and `RequestsInv` that `ListingInv` is inductive: until the session's
response is cut or the connection is reset, the lines `do_list` has printed, the
ones in flight and the ones not yet sent are the list, in order, and the count
it has read is their number. What makes this work is that the answer is complete
before it is sent, that the session sends nothing else before it has got another
line (`SessionInv`), and that the client sends no QUIT before it has printed the
last line (`FlightInv`). `ListShown` (`ShownIsListed`) is then immediate.
`ShownFetchable` (`ShownCanBeFetched`) takes a printed name back through
`parse_request` (a name without blanks is not trimmed or cut) and
`PlainResolved`.

The last three theorems assume `NoNewlines`: no name in the media directory
holds a newline. The assumption is needed, since `build_list_response` writes
names as they are and a newline in one would end its line; `PROJECT.json` lists
this as a hazard. Proving `ShownFetchable` also showed that the property needs
one exception which the directory of `MCRequests` does not contain: a link below
the root to a file whose name starts with two dots is listed under the link's
name, but `resolve_safe_path` refuses it as if it led out.

### Only model-checked

The liveness properties (`ShutdownCompletes`, `SignalShutdownCompletes`,
`TransferSucceeds`, `ClientEnds`, `SessionEnds`, `CallsReturn`), because the
proof system does not reason about fairness, and the absence of deadlock in
`owner`, `faults` and `requests`, because it does not reason about `ENABLED`.

## Not modelled

* Option parsing of both `main` functions, except the table of log levels. It is
  sequential and a unit test reaches it; the narrowing of a port to 16 bits is
  listed as a hazard.
* `recv_line`'s length limit, `get_peer_info`, the move operations of `Socket`;
  `file_exists` and `get_level`, which change nothing and which the program
  never calls.
* A change of the directory inside one call of `get_file_size` or
  `open_binary_file`, between its own look-ups; between the two calls it is
  modelled.
* The number of free descriptors: `accept_loop` retries when there is none.
* `enable_console_`, which is always true, and the text of log lines.
* Memory allocation failures, and a crash of the server's host: nothing is
  persisted that a restart would read.

## Plan

Done: the life cycle, the transfer, requests with paths and listings, and the
logger, each with its inductive invariant and its proofs; both refinements; the
way of a listing to the client and back as a request.

Left: the number of free descriptors, which would let a property speak about
`accept_loop` when there is none; names with newlines in a run of their own, if
the protocol is ever to say what should happen to them.
