# Verification of audio_tool_api

`audio_tool_api` is a C++ HTTP API server (boost::asio and beast, MySQL
Connector, FFmpeg).  One accept thread takes sockets from the kernel and hands
them to work threads; each work thread runs a few asynchronous workers that
read a request, authenticate it against the database, run a handler and write
the answer.  Handlers keep users, sessions, projects and files in the database
and transcode uploaded audio to WAV in memory.  The repository has no tests and
no documentation, so what it says of itself are its comments, log messages and
error texts.

This directory holds TLA+ modules of that program, the TLC configurations that
check them on small instances, and proofs for all values of the constants that
TLAPS checks.  `PROJECT.json` lists the runs, gives for every definition the
source lines it models, for every property a mutation of the code that breaks
it, and the hazards of the code with the properties that cover them.  Paths
below are relative to `src/audio_tool_api/`.

    tlc -workers 2 -config server_safety.cfg MCHttpServer
    tlapm HttpServerProofs.tla

## 1. Inventory

| Component | State | Operations | What is hard | What makes it correct |
|---|---|---|---|---|
| Accept thread and work threads (`http/http_server.*`, `http/http_work_thread.*`, `http/http_connection.*`) | a queue per thread, `*conn` of the thread, the workers' connections, the atomic `open_connections`, `is_running` | `raw_accept`, `enqueue`, `dequeue` with work stealing, construction and destruction of connections, `stop` | limit check and counting are apart; loads of other threads are read without a lock; stealing races dequeueing; shared ownership by several threads | one owner per connection, an exact counter, the limit, no use after close, nothing lost, queues drain, a stop is noticed |
| HTTP worker (`http/http_worker.*`, `http/http_response.*`, `http/http_exception.*`, `http/routes.h`) | `conn`, `parser_`, `buffer_`, `request_`, `response`, all reused | `start`, `read_handler`, `process`, `build_response`, `write_handler`, `close_socket` | members that outlive a connection; eight exits; exceptions in catch clauses | one answer per request, to its sender; the worker becomes free |
| HTTP request (`http/http_request.*`, `http/multipart_parser.*`) | path, `url_params`, files; parser state, `mark`, `lookbehind` | the constructor | pieces emitted from two buffers, bytes read again, look-alikes of the boundary | parameters and files are what the client wrote |
| Database connection (`utilities/database.*`, `handlers/base_handler.*`) | process-wide mutex, `_is_open`, the server's sessions | `query`/`raw_query`, `open`, `close` | manual lock around calls that throw; shared driver | connecting is serialised, sessions are bounded and closed, requests are answered |
| Query results (`utilities/database.h`, `utilities/database.cpp`) | prepared statement, `did_execute`, the driver's cursor, the iterators | `set_param`, `execute`, `row_count`, `row`, `begin`, `end`, `++`, `*`, fields | the statement is executed by whatever comes first; one cursor for `row`, fields and all iterators | executed once with its parameters; each row once and in order |
| Users and sessions (`handlers/auth.*`, `models/user.*`, `models/session.*`) | tables `users`, `sessions`; the handler's objects | login, registration, OAuth, look-up and refresh of tokens | statements of several requests interleave without transactions; hashes compared with `strcmp`; an id nobody initialised; expiry between two statements | a token authenticates a user that was named for it; sessions end |
| Projects and files (`handlers/project.*`, `handlers/files.*`, `models/project.*`, `models/file.*`) | tables `projects`, `files` | create, save, list, upload | insert and confirm are apart; errors of the insertion are swallowed | an answer names what the request stored; files belong to their sender |
| Audio processor AP (`audio/audio_processor.*`) | input and output buffers, the FFmpeg contexts | `process`, its init functions and I/O callbacks | nested drain loops; ignored results; a growing buffer | no frame lost, repeated or overtaken; the content is what was written; it ends |
| Process life (`main.cpp`, `utilities/stats_client.*`, `utilities/config.h`) | `is_running` of main and of the server, `handle_stop`, `global_stats` and what it points to | the signal handler, start-up, `raw_accept` as main sees it, `free_stats` | a signal between any two statements; two flags for one stop; threads that nobody joins use what main frees | a stop ends the process; freed memory is used at the edges of its life only |
| Conversions (`utilities/base64.*`, `utilities/requests.h`) | a group of three or four bytes | `base64_encode`, `base64_decode`, `url_encode` | the last group is encoded by code of its own; which bytes a form value may hold as they are | what was encoded is what is read |
| Second processor (`audio/processor.*`) | a sample FIFO, the contexts | `execute` and everything it calls; no handler calls it | two loops around a FIFO whose ends have different frame sizes; any step may fail and goes to one cleanup | samples pass once and in order; the cleanup frees what was allocated |
| Not built or without a caller | | | | TLS listener and session, websockets, `async_audio_tool_api`, `managed_thread` |
| Vendored | | | | JSON, moodycamel queues |

How they interact: the signal handler clears a flag the accept thread reads.
The accept thread makes an `http_connection` from a socket and pushes it on a
work thread's lock-free queue.  Work threads take connections from their own or
each other's queue and start a worker, whose completion handlers run on that
thread.  A handler lives inside one completion handler and owns a
`db::Connection` and an AP; it meets the handlers of other threads only in the
mutex of `database.cpp` and in the tables.  All threads write statistics through
one `stats_client`, which main makes before and deletes after the server runs;
nobody joins the work threads, since each of them shares the ownership of the
vector that holds it, so they run on while main returns.

## 2. Modules

| Module | Models | Composed with |
|---|---|---|
| `HttpServer` | accept thread, work threads, ownership and counting of connections | |
| `ConnectionLifecycle` | abstract: what the server promises about a connection | |
| `HttpServerRefinement` | the refinement mapping from `HttpServer` to `ConnectionLifecycle` | both |
| `HttpServerProofs` | proofs about both and the refinement | |
| `HttpWorker`, `HttpWorkerProofs` | one worker, one connection after the other | |
| `MultipartParser`, `HttpRequest` | the constructor of `http_request` | `HttpRequest` extends the parser |
| `DatabaseConnection` | lazy opening, the mutex, exceptions, sessions | |
| `QueryCursor` | one `db::Query` from its parameters to its destruction | |
| `DatabaseProofs` | proofs about the connection and the cursor | |
| `Sessions`, `Projects`, `ProjectsProofs` | the API's requests, statement by statement, over shared tables | `Projects` extends `Sessions` |
| `OutputBuffer`, `Transcoder` | AP and its output buffer | `Transcoder` extends the buffer |
| `AudioProcessor` | the second processor | extends `OutputBuffer`: both have such a buffer |
| `AudioProofs` | proofs about both processors | |
| `ProcessLife`, `ProcessLifeProofs` | main, the signal handler, the stats client and its users | |
| `Encoding` | base64 and the form encoding | |
| `ConversionsProofs` | proofs about the parser, the target and the encodings | |
| `SequenceLemmas` | what the proofs need of sequences, sums, folds and recursion | |
| `MC*` | constants for TLC | |

Four `MC` modules put two specifications side by side: `MCProcess` (`HttpWorker`
and `ProcessLife`), `MCDatabase` (`DatabaseConnection` and `QueryCursor`),
`MCConversions` (`HttpRequest` and `Encoding`), `MCTranscoder` (`Transcoder` and
`AudioProcessor`).  The two do not interact at this level of detail.  Each
behaviour belongs to one of them while the other is in a state in which it has
ended, so the run checks the union of the two state spaces, not their product,
and a property of one says nothing new about behaviours of the other.

### HttpServer
A step of the accept thread is the code between two accesses to shared memory:
the check of `open_connections`, the accept, one reading of one thread's load,
the enqueueing, the return of `enqueue` (which drops a reference).  A work
thread's timer tick is one `try_dequeue`; a miss is followed by one reading per
thread and one attempt to steal.  Ownership is the C++ `shared_ptr`: `queue`,
`held` (`*conn` of the thread), `wconn` (the worker) and `aref` (the parameter
of `enqueue`); `Destroy` runs when the last of them goes and decrements the
counter.  Until `thread_runner` has set up a thread, readings of its load by
others are any value an unsynchronised read may give.  `fds` are open
descriptors; it shows connections that are destroyed without `close_socket`.
Handlers are assumed not to throw out of the completion handler here;
`HttpWorker` shows what does.

### HttpWorker
The worker's asynchronous operations as phases.  `parser` and `request` are the
sets of clients whose bytes they hold, so that a leftover is visible.  Of `response` it
is the header fields a handler has set (a session token, a location), by the client they were
set for: `start` and `close_socket` renew the object, and `build_response` sets fields next to
those it has.  `FieldsOwn` says that none is ever sent to another client, also not after
a read or a write failed or with the answer of a handler that sets none.
`Results` enumerates, for a kind of request, every status the exits of
`process` can produce; `down` is an exception no handler catches.

### MultipartParser and HttpRequest
One action per parser state and one byte per step; states that fall through in
C share an action.  `first` and `sent` are history variables: where the part's
data began, and what the client made the body of.  `FilesExact` compares the files with
these parts, laid out by `Encoded` as RFC 2046 has a client write them; `Writable` says
which parts can be written that way: a head of header lines, and data in which no line begins
with the boundary.  `Characters` are the characters of a target.  The URL is read one
character per step.

### DatabaseConnection
`Lock`, `Connect` and `SetSchema` are the three calls of `open`; `OpenThrows` is an
exception from either of the last two, which leaves the mutex locked, as the
code does.  The database server goes up and down.

### QueryCursor
A caller uses a query in one of the five ways the model classes and the comment in
`database.h` use one: it only executes it, asks for a row after counting or
without, walks the rows after counting, or walks them.  A row is no copy:
its fields are read at the driver's cursor, which `row()` and `operator*` move and
`operator++` does not; the iterator counts for itself.  `answer` is the result
set, rows being distinct.  The server may refuse the statement.

### Sessions and Projects
A step is one SQL statement and the code up to the next; other requests' statements
come in between.  Ids, guids and tokens are positions in tables.  The
schema is not in the repository: an email may or may not be unique, so inserting it
again may succeed or throw, and no property assumes that it is unique.

Passwords are compared by `strcmp` over two hashes of 128 bytes (`models/user.cpp:74`).  `like`
of a user's row are the passwords whose hashes agree with hers up to the first zero byte, so
that a wrong password may match; a hash without one (about 60% of random ones)
has no `like`, `strcmp` reads past both arrays, and the right password may match or not
(`MayMatch`, `MayDiffer`).  After a registration whose check fails in this way, `put` creates a
session for the `user.id` that nothing initialised: any number (`Insert`).  So the
properties speak of what the code can guarantee: a token runs as a user that was
`Named` when it was given out, by an email and, except by Google, a password that strcmp may take for
hers, unless it came from a registration that `MayHaveFailed`.
`Sessions` holds the actions up to the handler; `Projects` adds those of the
handlers that need a user, and its `ApiSpec` is the specification of both.

### OutputBuffer and Transcoder
`process` as phases, with the loops of `filter_encode_write` and `encode_write`
as actions that repeat.  Frames are numbers, one packet of the encoder is one
byte of the file.  FFmpeg is external: a demuxer that may fail at any packet, a decoder
with a delay, a filter that may hold frames back until it is told the end, an encoder without
delay, a muxer that hands out chunks of any size.  `av_read_frame` may fail anywhere, and `process`
takes it for the end (`EndOfInput`), so the answer is of the packets that were read
(`PacketsRead`), which may not be all.  The decoder is not
flushed at the end either: `FinishedIsWhole` states what is missing then.  A decoder
that holds frames may refuse a packet, or take it and come to hold more.

### AudioProcessor
`execute` with its loops: read and decode until the FIFO holds a frame, encode
while it does, and flush.  Samples are numbers, and sample `n` becomes byte `n` of the
file, so that timestamps, FIFO and file can be compared.  Every call may fail; `open` is
the set of contexts that are allocated.  `FrameSize` stands for the literal
`output_frame_size` of 1024*1024*20 and is 3, so that frames of the decoder are smaller
and larger than what the FIFO lacks.  The end of the file may come while the decoder holds any number of
frames: the flush packet is never refused, one frame is received for it, and as
`finished` is set by then, it is freed (`dropped`); those behind it are never asked for.

### ProcessLife
Every statement of `main` that changes state, the two stores of the signal handler
as two steps that come between any others, and `raw_accept` as far as main
waits for it (its inner life is `HttpServer`).  A connection is a number of uses of
`stats()` still to come; `stats()` fetches a pointer, `send` follows it later.
`signal()` restarts system calls, so a signal does not wake `accept`.

### Encoding
One step per round of the C++ loops, `char_array_3` and `char_array_4` included;
`Rfc4648` and `Unescaped` are the reference definitions: base64 by the bits of
the input, and how a server reads a form value.

## 3. Runs

Deadlock is checked except where the modelled program stops by itself (a
request is done, a worker has no more clients, the process has ended, parsing or
transcoding is over).

| Run | Instance | Shows |
|---|---|---|
| `server_safety` | 4 sockets, 2 threads, 1 worker each, limit 2 (3 connections at once) | ownership, counter, limit, socket use, retention, and that the server implements `ConnectionLifecycle` |
| `server_live` | 2 sockets, 2 threads, 2 workers each, limit 1 | nothing is lost with enough workers; queues drain, a stop is noticed, every socket is closed |
| `server_clients` | 3 sockets, 2 threads, 1 worker each, limit 2, all threads started | the accept thread does not wait for ever |
| `server_drop` (violation) | 3 sockets, 1 thread, 1 worker | a connection is dropped with its socket open |
| `worker_answers` | 3 clients, one of each kind of route; and a process with 3 clients of 2 uses of the stats client each, limit 1, 2 signals | one answer each, with no header field of another's, the worker comes back; and freed memory is used at the edges only, a stop ends the process |
| `worker_stale` (violation) | as above | the second client of a worker gets the answer to the first one's request |
| `worker_escape` (violation) | as above | an exception leaves `process` |
| `request` | part data of up to 4 bytes, two parts with heads of no, one and two lines, every cut, 3 bytes after the first delimiter; targets of up to 5 characters and a few of 9 or 10; and tokens of up to 4 and form values of up to 3 bytes out of 7 and 13 | files and parameters are what the client wrote; and base64 and the form encoding are read back as what was encoded |
| `db` | 3 threads, 4 requests; and a query with up to 3 parameters and 3 rows in 5 ways of use | serialised connecting, sessions, answers; and the statement executed once, every row once |
| `db_retry` (violation) | 2 threads, 2 requests | one failed attempt to connect blocks every later one |
| `api` | 3 requests from 22 plans of logins, registrations, OAuth and uses; one user at the start, whose hash is told from the other password's, taken for it, or has no zero byte; clock 0..1, sessions of length 1 | who is authenticated, what is stored and named, when sessions end |
| `transcode` | up to 4 packets of 0 to 2 frames or corrupt, delay 0 or 1, first buffer of 1 byte; and recordings of up to 3 packets of frames of 1 or 2 samples, encoded in frames of 3 | frames, buffer and termination; and samples and contexts of the second processor |

### Why the bounds are enough
Four sockets with a limit of two let the limit be reached, freed and reached
again while a thread still retains a closed connection; two threads are needed
and sufficient for stealing, whose victim is one thread at a time.  `MaxOpen`
stands for the literal 800 and is small so that it matters.  One worker a thread
makes the case without a free worker frequent.  In `db` there are more requests than
threads, otherwise the session bound could not fail.  In `api` three requests allow
two uses of one session to interleave after the login that made it; with sessions of length
one, a clock of two values passes the end of each that was made at 0 while requests are
between two statements.  In `request` four
bytes are enough for the longest near-boundary (`CR LF - -`) directly before
another `CR` or the true delimiter; the boundary `--b` has a repeated byte.
In `transcode` the buffer is doubled two rounds in one call and several times in a run;
with frames of one and two samples the FIFO reaches `FrameSize` exactly, passes it, and
is partly full at the end.  A token of four bytes has a full group and a
remainder of one, one of three or less every other remainder; the bytes of `MCTokens` are
all zeros, all ones or change at each place where a group is cut into sextets, those
of `MCFields` stand at the borders of every range `url_encode` tells apart.  In
`ProcessLife` two signals are enough for a second one to arrive in the middle of what the first
began, three clients for the limit to be passed by one and refused to another, two
uses for a pointer to be fetched before and after each step of `free_stats`.  In
`QueryCursor` three rows give a loop a first, an inner and a last round.

Bounded in the guards: `MaxTime` (the clock of `Sessions`) and `MaxSignals`; all other
variables are bounded by the finite sets of sockets, requests, inputs and uploads.

### Fairness
Threads are scheduled by the operating system: weak fairness of the accept
thread's own steps, of every thread's start and of its timer ticks
(`ThreadFairness`).  That a blocked `::accept` returns, or a client sends or reads
anything, is never assumed there; where a property needs it
(`AcceptorUnblocks`, `EverySocketCloses`) it is named `ClientFairness` and is
strong, since an io_context runs ready handlers in order, between ticks.  In
`DatabaseConnection` the mutex and the choice between another query and the
answer are strongly fair (a mutex that is free again and again is obtained, a
handler has finitely many queries); calls to the database return or throw.  The
worker needs weak fairness of its handlers, the transcoder of its only thread.
`LifeFairness` is weak fairness of main, of the signal handler once it has
begun and of every thread that serves; it also says that `accept` returns in the end,
because clients keep connecting, without which a stop is noticed by nobody: the handler
does not interrupt `accept`.

## 4. Disagreements between the code and what it says

* `server_drop`: `dequeue` drops a connection when all workers of the thread
  are busy; the destructor logs "HTTP Connection closed improperly"
  (`http/http_connection.h:33`).  As many workers as the configuration gives a thread
  (`num_workers`) face 801 admitted connections.
* `worker_stale`: the parser is never renewed, although `http/session.cpp:55`
  says "Make the request empty before reading, otherwise the operation behavior
  is undefined."
* `worker_escape`: serialising an answer throws outside the `try`, or inside a
  catch clause; the catch-all says "Unhandled exception caught by the server".
* `db_retry`: an exception while connecting keeps the mutex; the client is told
  "Please wait and try again".
* Not a run: "This handler always forwards" (`handlers/auth.cpp:113`) holds
  for `runtime_error` only (`handlers/auth.cpp:143`); JSON errors and the null
  string of `get_email` end in a 500.  `GoogleGarbled` is that step.
* Not a run: the loop of `process` ends at any negative result of
  `av_read_frame`, under the comment "No more packets to read" (`audio/audio_processor.cpp:343`).
  A file that cannot be read to its end is stored as far as it could be, and answered
  with 200.  `EndOfInput` is that step; `FinishedIsWhole` speaks of the packets read.
* Not a run: `finished` is said to mean "the end of file has been reached
  and all data has been decoded" (`audio/processor.cpp:438`).  It is set before the decoder is flushed,
  and the frame that the flush gives is freed (`audio/processor.cpp:613`).  With a decoder that
  delays, or a last packet of several frames, the end of the recording is missing from a
  file that is written without an error; `SamplesExact` says how much.
* Not a run: `row[0]` is documented (`utilities/database.h:89`), but the field's
  constructor makes a `std::string` of a null pointer first
  (`utilities/database.h:185`).  No caller uses an index.
* Not a run: a SIGINT between the assignment of `handle_stop` and `http_server::start`
  clears a flag that `start` then sets again, so the server accepts on
  although main is told to stop, until a second signal; nothing in the repository promises otherwise.
  `StopEndsProcess` therefore starts at `Started`.

## 5. Proofs

TLAPS checks, for all values of the constants that satisfy the named assumptions
(`ConstantsAssumption`, `WorkerAssumption`, `SessionsAssumption` and so on: sets are
finite where they are counted, sizes are positive, inputs are sequences):

* `HttpServerProofs`: `TypeOK`, `OneOwner`, `CountExact`, `WithinLimit`,
  `SocketUsable`, `RetentionBound`; with more workers than the limit also
  `NothingLost` and `ClosedProperly`.  None is inductive: `OneOwner` needs
  that a socket in the accept thread's hands was never queued, `CountExact` that a
  reference exists for everything alive, and `WithinLimit` that nobody else
  raises the counter between check and enqueue.  `IInv` joins `TypeOK`, the bounds of
  the scans, who may own what (`Owners`), the counter (`Counting`), that unseen
  sockets are fresh (`Fresh`) and the limit at each place of the accept thread
  (`Limit`).  `Inductive` goes through the actions by the few things they do to
  connections: append, pop, start, close, hold, destroy.
* The same module: every step is a step of `ConnectionLifecycle` or a stutter under the
  mapping `Status`, `alive`: enqueueing admits, dispatching begins or loses, closing
  finishes, dropping a reference forgets.
* `DatabaseProofs`: `ConnectSerialised`, `SessionsClosed`, `SessionBound` and the types of
  the connection, from an invariant that says which thread may hold the mutex
  and accounts for every session by an open handler or the lost mutex.  The
  bound needs the argument that a leaked session costs the mutex, so that at most one leaks.
  And `RowsExact` for every result, parameters and way of use.  The
  invariant says where the cursor is at every call (`Place`), that inside a loop's body the
  iterator is one row behind it (`Iterating`), and how far the parameters are
  bound (`Binding`).
* `HttpWorkerProofs`: `TypeOK`, `FieldsOwn` and `AnsweredOnce`.  `FieldsOwn`
  needs that the fields of `response` are at every moment those of the connection that
  is served, and none between two; `AnsweredOnce` that an answered connection neither
  waits nor is served (`Settled`).
* `ProcessLifeProofs`: `CrashOnlyAtEdges` for any number of clients, uses and signals,
  from when the stats client exists (`StatsLife`), what a signal and the place of main say of
  each other (`Stopping`), and that nobody is served before the server accepts.
* `ProjectsProofs`: types, `ServedAsOwner`, `SessionsOfUsers`, `FilesOfOwner`,
  `StoredIsOwn`, `RefreshNeverShortens` and `ExpiredForGood` for any requests and any
  rows in `users` at the start, whatever their hashes.  `IInv` says what a request knows at each
  statement: of a login, a registration or an OAuth return that the user it goes on with is one it
  has named, or that it is a registration whose check may have failed (`Proven`, `LoginOK`), and the
  same of every session it has inserted (`SessionsOwned`); of a request with a token that its
  user is the session's (`TokenOK`); of a creation or an upload that `LAST_INSERT_ID()` is of its own row (`StoredOK`).  The proof
  separates three concerns: the tables only grow, and a row keeps what others rely on (`Grow`,
  `Keep`); a request's variables are changed by its own steps only (`Others`); hence what a
  request knows stays true while others run (`LoginStays`, `TokenStays`, `StoredStays`),
  and only its own steps remain (`LoginStep`, `TokenStep`, `StoredStep`).  `Proven`
  stays true because rows are only added.  `RefreshNeverShortens` needs `Aged`: no session lasts
  longer than one refreshed now.

* `AudioProofs`: `BufferExact`, `FramesConserved` and `FinishedIsWhole` of AP,
  `ContextsHeld`, `SamplesExact` and `BufferExact` of the second processor, for every upload,
  decoder delay, first size of the buffer and chunking.  The buffer's invariant (`Exact`) is
  element by element: the bytes below the offset are those written, and offset and room
  add up to the size; doubling keeps the former because the offset is at most the old
  size.  For the frames, `Kept` says that the file, what the muxer and its callback hold
  and what is on its way from the decoder are, read in this order (`Stream`), the header and
  all frames demuxed.  No step changes that sequence, but it takes `Stages` to know where
  frames can be (none overtakes another because `encode` begins only when the filter has
  been emptied into `enc`), `Prefix` that they are those of the first packets of the upload, and
  `Lagging` that with one frame to a packet the decoder withholds no more than its
  delay; with several nothing bounds what it withholds.  For the samples the same with the FIFO;
  `SamplesLag` counts the frame dropped in the flush among those the decoder withheld, and
  `SamplesKept` counts the samples written, which is the timestamp.  `Held` lists the contexts each place of `execute` relies on.
* `ConversionsProofs`, of the request's body: `TypeOK`, `PartExact` for every body whatever,
  and `FilesExact` for every list of parts that are `Writable`, every boundary and every place
  where the body is cut off.  `Matched` says that the lookbehind buffer holds the bytes that looked
  like a boundary, `Held` that these and what the callback has collected are the bytes of
  the part.  `Layout` says which byte of the written body is where, by induction over the parts;
  `PlaceInv` which of them the parser looks at in each state: how much of a head has been
  read (`AtHead`), where in the data it is or where a look-alike of the boundary began
  (`AtData`, `AtLookalike`), or between which parts it is (`Between`).  Two arguments carry
  it.  A look-alike begins and ends in the data, or is the boundary behind it: a
  boundary holds no CR, so the one that ends the data is not in its middle.  And one that
  is complete inside the data would be a line that begins with the boundary, of which a
  `Writable` part has none (`BoundaryIsTheEnd`).  Without that hypothesis the statement is false for
  any parser of multipart bodies; the run checks it for all such parts.
* The same module, of the target: `TargetExact` for every target (it speaks of
  those with at most one separator).  `Fresh` says what has been collected before
  a separator, `PathIsBefore` and `Reading` what has been after it, as pieces of the
  target between its `Cuts`; `Ended` and `AllEnded` that the parameters stored are
  those of the fields read, the last one winning.
* The same module, of the encodings: `EncodingExact` for every token and form value.  Base64 goes by
  groups: after `g` rounds the code is that of the first `3 * g` bytes (`Encodes`) and the
  decoded text these bytes (`Decoded`), where the step from bytes to sextets is
  arithmetic on three numbers and the rest is where they stand; the last group is a
  case of its own, as it is in the code.  That a server reads the form value as it was is by
  induction over what has been written (`ReadAs`).
* `SequenceLemmas`: what the proofs need of concatenations, sums and folds, among it that
  `FlattenSeq` distributes over `\o`.  The library states induction for a
  predicate, which the provers cannot instantiate; `Induction` states it for a set
  of numbers, from the well-foundedness of `<`, and `Recursion` derives from it that a
  primitive recursive function exists, so that `CHOOSE` definitions like `FoldLeft` and
  `Encoded` can be unfolded.

Every invariant that a passing run checks is also a theorem.  Only model-checked, since
liveness under fairness and `ENABLED` are out of the provers' reach, are `Answered`, `WorkerComesBack`,
`StopEndsProcess`, `QueueDrains`, `StopNoticed`, `EverySocketCloses`, `AcceptorUnblocks` and
`ProcessEnds`; and the runs that show a violation, which need no proof.

## 6. Not modelled, and limits

* The JSON library (`utilities/json.hpp`, vendored in one header of 20,406 of the
  repository's 26,373 lines of implementation) and the moodycamel queues: third-party code, used through their
  interface.  What they promise is part of the models: a consumer takes an
  enqueued element once; serialising what is not UTF-8 throws.
* The TLS listener and session, the websocket server, `managed_thread`, the timer and
  the test handler: not compiled, without a user, or without state.
* The shared message buffer of `stats_client.cpp:60`: two threads that send at once
  mix their statistics in every build, and the repository promises nothing about it.
* Set-up of AP: one step per init function, its many failures one outcome; the test
  of sample formats, time bases and the freeing at the end are left out.
* The custom I/O contexts of `AudioProcessor`: `avio_closep` is called on one that
  `avio_open` did not make, which is undefined for the allocator; the model takes it as
  leaving the context allocated.
* `execute` of the second processor returns 0 whether or not it failed, since `ret` is
  lost; nobody reads it.
* Allocation failure, except where a run-time error has a path of its own.
* Of password hashing only the comparison of two hashes is modelled; token generation
  (unique by assumption), JSON and SQL text are not.
* The reading of another thread's load: `load_factor` adds up a queue's length and a flag
  per worker one after the other, the model reads their sum at one moment.  A wrong reading
  alone breaks nothing the server must keep: it only chooses another queue.
* `socket->assign` throwing for a descriptor the kernel has just given
  (`http/http_connection.h:42`), and exceptions for running out of memory before the `try` of
  `process`.
* The number in an answer whose `create` failed: the file's `id` is then uninitialised
  (`models/file.h`, `handlers/files.cpp:39`), and the answer is 200 with no guid.  The models' answers name
  a file by the guid.
* `is_deleted`, which saving a project reads and writes back; nothing sets it.
* Serialisation of headers and the search for `boundary=` in a content type.
* `HttpWorker` and `DatabaseConnection` are checked apart: `process` sees the
  database as a set of results.  What a lost mutex does to a worker follows
  from both: the handler blocks, and with it the thread (`db_retry`).
* That two requests save one project at once needs no property: `update` writes both fields in
  one statement, and the later one wins.
* In `Transcoder` data that is no audio may crash the process (`crashed`), since
  the result of `avformat_open_input` is ignored; no text of the repository says otherwise.
* `Sessions` with a clock of two values cannot show a session that is
  refreshed many times; `RefreshNeverShortens` and `ExpiredForGood` are
  properties of single steps, so that longer histories add no new step.

* Listed nowhere as a hazard, being of the same kind as a listed one: the two sessions a login
  leaves behind (`models/user.cpp:76`), the exception types of the OAuth exchange
  (`handlers/auth.cpp:143`), a second `?` in a target (`http/http_request.cpp:21`; `TargetExact`
  has it) and `throw` without an exception in the encoder (`audio/audio_processor.cpp:449`).

## 7. Plan

Done, in this order: the server core and its proofs, the worker, the database
connection and its proofs, sessions, projects, the request parser, the
transcoder and the proof of its buffer; then the query cursor, the life of the process,
the conversions and the second processor, and the proofs of the worker, the cursor, the
life of the process, and sessions and projects; then the proofs of the parser, the target, the
encodings and the two processors.  What would add most next:

1. A composition of worker and database: a lost mutex and the worker that waits.
2. An abstract specification of the API, tables and answers only, that `Projects` implements
   for requests one at a time, and what of it survives their interleaving.

A new module's question joins an existing run where the two do not interact, as
described in section 2.
