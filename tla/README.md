# TLA+ models of QtWebApp

QtWebApp is a web server library in C++/Qt: an HTTP and WebSocket server with a
pool of threads (`httpserver`), a fork of the QtWebSockets module
(`qtwebsockets`), a template engine (`templateengine`), a logger (`logging`) and
a service framework (`qtservice`). Three demo applications (`Demo1` to `Demo3`)
show how they are put together. This directory holds TLA+ models of the parts
whose correctness depends on the order of events, configurations to check them
with TLC, and proofs for TLAPS.

## The parts of the system

| Part | State it keeps | Operations | What makes it hard | What makes it correct |
|---|---|---|---|---|
| `HttpListener`, `HttpConnectionHandlerPool` (listener thread) | the pool of handlers, whether it listens, SSL configuration | `listen`, `incomingConnection`, `getConnectionHandler`, `cleanup` (timer), `close` | reads `busy` of other threads, waits for other threads in `close` and `cleanup` | at most `maxThreads` connections, no idle handler refused, no handler deleted with a connection, `close` returns |
| `HttpConnectionHandler` (one thread each) | `busy`, one socket used for one connection after the other, `m_type`, `m_WebSocket`, `readTimer`, `currentRequest`, which slots are connected | `handleConnection`, `encrypted`, `read`, `readHttp`, `websocketTextMessage`, `websocketbinaryFrameReceived`, `readTimeout`, `disconnected`, `run` | one object for many connections, slots that run inside other slots, reuse by the listener at any moment | one connection at a time, the timer and the request belong to it, the handler becomes free in the end |
| `HttpRequest` | status, sizes, headers, body or multipart file | `readFromSocket` and what it calls | size limits over partial input | accepts what fits, refuses what does not, never stays between |
| `HttpResponse` | status, headers, `sentHeaders`, `sentLastPart`, `chunkedMode` | `write`, `flush`, `redirect`, `setHeader` | the framing is chosen at the first write and used after `service` | a client can always tell where a response ends |
| `HttpSession`, `HttpSessionStore` | sessions by id, data shared by reference count, last access | `getSession`, `removeSession`, expiry timer, copies and assignments | threads share data; the lock is dropped between check and use | data lives as long as a copy, a session that was removed or found expired never comes back |
| `StaticFileController`, `TemplateCache`, `TemplateLoader` | `QCache` of documents with age | `service`, `getTemplate` | use after unlock, store after a later change | no document older than `cacheTime`, none used after it is deleted |
| `HttpCookie` | the fields of a cookie | constructor from text, `toByteArray`, `splitCSV` | parts without `=`, quotes | what is written is read again |
| `Template` | a string | `setVariable`, `setCondition`, `loop` | overlapping tags | pure functions |
| `Logger`, `FileLogger`, `DualFileLogger` | thread-local buffers, file, settings, four mutexes | `msgHandler`, `log`, `write`, `rotate`, `refreshSettings`, timers | logging about the logger while it is locked | no deadlock, order of messages, number of backups |
| `QWebSocket`, `QWebSocketFrame`, `QWebSocketDataProcessor` | frame being read, message being joined, closing handshake | `processData`, `readFrame`, `process`, `close`, `ping` | fragments, control frames between them, both ends closing | messages arrive whole and in order, one close frame |
| `QWebSocketHandshakeRequest`, `-Response`, `QWebSocketPrivate::processHandshake` | lines and headers read so far | `readHandshake`, `processHandshake` | several responses on one socket, a socket that is opened again | connected means that both ends agree |
| `QWebSocketServer`, `QSslServer` | queue of pending connections | `handshakeReceived`, `nextPendingConnection`, `close`; not used by the HTTP server | queue limit, checked twice with slots of the application in between | every web socket is handed out, waits, or is refused |
| `QtService`, `QtServiceController` on Unix | a local socket, one cache per client | `start`, `sendCommand`, `slotReady` | commands arrive in parts, processes are killed | each command runs once, nobody waits for nothing |
| the same on Windows | three threads, a condition, what the service control manager was told | `start`, `handler`, `serviceMain`, `handleCustomEvent`, `stop`, `install` | a control is handled in another thread than it arrives in; the manager starts the service again | controls are served, a controller is told what is so |

The listener accepts a connection, picks a handler and posts the descriptor to
the event queue of that handler's thread. The handler reads requests from its
socket, calls `HttpRequestHandler::service` (in the demos a mapper to the static
file controller, the template engine and the session store, which are shared by
all threads), writes the response and waits for the next request, an upgrade to
a WebSocket, a timeout or the end of the connection. All parts log.

## Modules

| Module | Models |
|---|---|
| `ConnectionPool` | listener, pool and handlers, their threads, the sockets and the clients, with the properties |
| `AdmissionControl` | what the pool promises to clients, without threads: at most `Capacity` connections are served, and one is turned away only while that many are |
| `ConnectionPool_proofs` | the inductive invariant and the theorems about safety; that `ConnectionPool` implements `AdmissionControl` |
| `SessionStore` | sessions shared by handler threads and the clean-up timer, with their counts and locks |
| `SessionMap` | what the store promises: sessions that appear once, leave when they are removed or expired, and never come back |
| `SessionStore_proofs` | the inductive invariant of the store, its safety, and that it implements `SessionMap` |
| `HttpRequest`, `HttpResponse` | the parser and the response as operators on records |
| `HttpExchange` | one connection: the loop of `readHttp` around the two, the network and the application |
| `HttpCookie` | a cookie that is written and read again, and the cookies of a request |
| `Ordering` | numbers in their order: what the reference definitions of texts are made of |
| `QCache` | Qt's cache, from how the two caches below use it |
| `StaticFileController` | threads that serve files through a cache |
| `TemplateCache` | threads that load templates, with a `TemplateCache` or a plain `TemplateLoader` |
| `Template` | the replacement of variables, conditions and loops, turn by turn |
| `FileLogger` | `Logger` and `FileLogger` with their threads, files, timers and restarts |
| `WebSocketFrame` | frames: how they are written and read |
| `WebSocketConnection` | two ends of an open web socket, or one and a foreign client |
| `WebSocketHandshake` | clients and a server that become web sockets |
| `ServiceControl` | the service and its controllers on Unix |
| `ServiceWindows` | the three threads of the service on Windows |
| `ServiceManager` | the controllers of that service and the service control manager; extends `ServiceWindows` |
| `Http_proofs` | the inductive invariants of a connection with its requests and responses and of the step a server keeps with its client, of the file cache and of the search for templates; what `QCache` keeps |
| `Text_proofs` | what `splitCSV` has after every character of a text, what is read of a cookie that was written or sent back, and how far each turn of a template's loops has expanded it |
| `FileLogger_proofs` | the inductive invariant of the loggers and their five safety properties |
| `WebSocket_proofs` | the inductive invariants of the handshake, of the end of a connection, and of the messages and pongs that arrive on it |
| `ServiceControl_proofs`, `Service_proofs` | the inductive invariants of the service on Unix and on Windows, and their safety |
| `MCConnectionPool`, `MCFileLogger`, `MCTemplateCache`, `MCWebSocket`, `MCParts` | sets, symmetries and compositions for TLC |

A module whose name has `MC` in front only gives the constants their values. Two of
them also compose. `MCWebSocket` has the open connection and the handshake side by
side. `MCParts` has seven parts that share no state: in each behaviour the variable
`part` says which of them moves, so that one run checks them all without
multiplying their states.

### ConnectionPool and the code

Every slot or method that changes state is one action, because a slot runs to
its end in its thread. There are three exceptions, where other threads can act
in between. `readHttp` is split into `StartReadHttp`, `ReadRequest` (one turn of
its loop), `FinishRequest` and `LeaveReadHttp`, because `service` may take any
time and because `writeToSocket` may run the slot `disconnected()` in the midst
of it (`DisconnectedInService`). The destructor of a handler is split into
setting `victim` (`Cleanup` or `DeleteNextHandler`: the listener thread waits)
and `ThreadExit` (the event loop of the handler ends). The destructor of the
pool is `CloseListener`, one `DeleteNextHandler` for each handler, and
`PoolDestroyed`.

| Code | Model |
|---|---|
| `HttpListener::pool`, `isListening` | `server` |
| `sslConfiguration`, decided by `loadSslConfig` | `ssl`, chosen from `SslModes` when a pool is created |
| `HttpConnectionHandlerPool::pool` | `pool` |
| a thread in `~HttpConnectionHandler` | `victim` |
| `busy`, `m_type` | `busy`, `type` |
| state of the socket, `isOpen()`, its descriptor | `state`, `open`, `conn` |
| signals connected to the handler | `slots` |
| `readTimer` running, `currentRequest` | `timer` and `request`, which name the connection they were started or filled for |
| posted `handleConnection` events | `queue` |
| unread bytes of a connection | `stream`, a sequence of whole messages |
| the client has closed its end | not in `alive` |

`disconnectFromHost` and `close` depend on whether all output has been sent;
the choice is `drained`. `status` is a history variable. `MaxSent` bounds the
messages of all clients together and is the only bound that the code does not have.
Operators marked `Mutant` are not part of the model: each is a variant of the
definition below it with a plausible mistake, which one property must reject.

A message of `stream` starts with at least one complete line. `read()` returns and
waits while there is no line (`canReadLine`); the model lets the message arrive later
instead. Connections of signals are a set: a slot that was connected twice, as after
a WebSocket over SSL, takes its own duplicate away when it runs first.

Left out in `ConnectionPool`: the contents of requests and responses (see
`HttpExchange`), reading certificates, the choice of the address, and Qt itself, whose sockets, timers and event loops are
modelled from how the code uses them. `busy` is a plain `bool` read by another
thread without synchronisation; the model reads and writes it atomically, as all
platforms of Qt do for one byte.

### The session store

A thread calls the store from application code at any moment. Each function is cut
where the code gives up a lock: `getSession` is `GetSession` (the id is checked
under the mutex, which is released), then `FoundSession`, `CreateSession` or
`NoSession` under the mutex again, then `Touch` (`setLastAccess`, without it).
`removeSession` is `RemoveSession` (its argument is a copy), `EraseRemoved`,
`Erased` and `RemoveReturns`. `sessionTimerEvent` is `TimerEvent`, one `TimerVisit`
for each session, a `TimerErase` for each that was found expired, and `TimerReturns`; it
keeps the mutex all the time. Between the look at a session and its erasure
(`httpsessionstore.cpp:110` and `:114`) the session may be used by a thread that has a copy; it is
erased all the same (`Condemned`, and `Condemn` and `Expire` of `SessionMap`).

The reference count is decremented under the read lock, `httpsession.cpp:62` and
`:80`, so two threads may do so at once. A destructor is therefore four steps:
`LoadCount`, `StoreCount`, `Unlock`, `DeleteData`. `drop` is where a thread is in
them and `value` is what it compares with zero. Sections under the write lock are
single steps that wait for the readers (`CanLockForWrite`). Objects of type
`HttpSession` are named by their thread and variable: `session`, `copy`, and `old`
for the object that an assignment or the map is giving up. Ids are never reused
(they are UUIDs), hence an id and its data have one name.

### Requests and responses

A request is a sequence of tokens, one for each byte that can be told apart: `cr`,
`lf`, what stands in a line before them, the bytes of a body, the lines of a
multipart body. The network delivers any piece at any moment (`arrived`), and
`ReadFromSocket` and `Checked` are one turn of the loop of `readHttp`: which of `readRequest`,
`readHeader` and `readBody` is called depends on the status, and what each takes
depends on the two limits and on `currentSize`, which the code counts as it does
(a line that comes in two pieces is counted more than once). A `Content-Length` may be
negative: it passes the checks, nothing is read for it, and the request is complete.

`ParseMultiPartFile` is the code's parser line by line, with the state it keeps
between lines. The headers of a part go on to an empty line, and a boundary among them is a line
like others; a part without an empty line yields nothing; the boundary after the headers
of a file that has no line of data uses a null pointer (`httprequest.cpp:475`), which is the status
"crashed" of a request. The clients of `MCParts` do not send such a body (a browser sends
an empty line for an empty file), so the run does not reach that state; the proofs allow it.

The application makes any calls of `write`, `setHeader` and `redirect`, or throws.
`setHeader` replaces a value: a service may set `Connection` to `close` or `keep-alive` over what
`readHttp` has set, or `connection` beside it.

### Caches and templates

A thread of `StaticFileController` is at the look-up, at the reading of a piece, or
at the insertion, which are the sections between locks and the reads between them.
Meanwhile files are replaced in place by longer or shorter ones (`ReplaceFile`), so that a reader that has
checked the size finds another end; they are removed (`RemoveFile`: who has opened one reads on)
and made again (`CreateFile`, with the bound that no thread still reads the removed one);
some cannot be read. A file that grows behind the check of its size
(`staticfilecontroller.cpp:82`) is cached although it is above `maxCachedFileSize`: the
model does so, no document says that it may not, and there is no property about it. In `TemplateCache` the
mutex is held while the file is read, but not while the document is copied
(`templatecache.cpp:26`, `:35`): that is a step of its own. `Template` has one step
for each turn of a loop in `setVariable`, `setCondition` and `loop`.

### The logger

`thread[t].at` is where a thread is: in `msgHandler` (with the recursive mutex of
the handler), in `log` (with `Logger::mutex`), or, for the main thread, in one of
the timer events. Everything under `Logger::mutex` that touches one file is a step;
`rotate` is a step for each file it removes or renames, any of which may fail, and
after any of which the program may be killed. What a killed program had written but
not flushed is lost; the next start finds the files as they are.

### Web sockets

A frame travels as the units that `readFrame` reads at once: header, extended
length, mask, payload. An end of `WebSocketConnection` is a `QWebSocket` with its
event loop, which reads a frame and may wait inside it for more. Slots of the
application run inside `processData` and may send, ping or close. A foreign client
follows a script of legal and illegal units and closes when it likes. The connection
may break between any two units.

`WebSocketHandshake` has clients and a server of this library and foreign ones, line by
line. A connection is lost at any point (`ConnectionLost`), also within the headers, of which
`processHandshake` may or may not take notice (`qwebsocket_p.cpp:982`). A `QWebSocket` may be opened again:
`OpenAgain` gives it another connection and leaves the state of the handshake, the status and
the headers as they are, since `open` resets none of them and `processHandshake` only what it finds
in the state `AllDone` (`:946`). `handshakeReceived` of the server is two steps, `CheckHandshake` up
to the signal `originAuthenticationRequired` and `AnswerHandshake`. In its slots the
application may change the limit, take web sockets from the queue or close the server, and
an event loop in a slot may run the whole handshake of another connection; such loops may end in any order.

### Services

On Unix a service binds a socket file. A client sends one line, in two pieces, and
waits for the answer, or starts the service, which is another process. Any process may be
killed. The service caches pieces by the address of the socket object, and an
address can come again (`Addresses`). On Windows three threads share
`QtServiceSysPrivate`; each step lies between two points at which the code locks,
unlocks, waits or is called by the system. The service control manager keeps what
it was told and passes on one control at a time; any call to it may fail. When the process has ended the
manager may start another one, at any time and as often as it likes (`StartedByManager`);
`carried` has the controllers whose control the present process has handled, `formerly` those of
the processes before it. Each report tells the whole status, also that of `setServiceFlags`
(`qtservice_win.cpp:670`), which is "stopped" until `handler` has set it for the first time. Reading the status and
`SetServiceStatus` are one step.

## Runs

| Run | Instance | Checks |
|---|---|---|
| `pool_safety` | 3 connections, 2 handlers, `MaxThreads` 2, `MinThreads` 0, 2 messages of all kinds, SSL on or off, failing descriptors | `TypeOK`, `OneConnectionPerHandler`, `ReadTimerArmed`, `NoForeignRequest`, `CleanupSparesConnections` |
| `pool_service` | 3 connections, 2 handlers, `MaxThreads` 2, `MinThreads` 1, 1 message, plain TCP | `BusyMeansInUse`, `ImplementsAdmission`, `HandlersAreFreed`, `CloseReturns`, `PoolShrinks` |
| `pool_ssl` | SSL | `BusyMeansInUse`, violated |
| `pool_reuse` | WebSockets | `SocketClosedBeforeReuse`, violated |
| `pool_close` | plain HTTP | `CloseServesAccepted`, violated |
| `session_store` | 2 handler threads and the timer, 2 sessions, expiration 0, 2 calls | `TypeOK`, `CopiesAlive`, `ImplementsSessionMap`, `OneSessionPerClient`, `ExpiredSessionsLeave` |
| `session_lock` | the same | `LockedDataAlive`, violated |
| `parts` | seven parts, see below | `SizesLimited`, `RefusedForAReason`, `RequestsKeptApart`, `EndOfResponseKnown`, `TurnsReadSomething`; `SplitsAtSemicolons`, `CookieSurvives`; `HitsAreRecent`; `BestTemplateFound`; `FlatTextsExpanded`; `CommandsObeyedOnce`, `NobodyWaitsInVain`; `ControlsAreServed`, `ControllersAreTold` |
| `template_reuse` | 2 threads, 1 template, no translation | `EntryAlive`, violated |
| `file_logger` | 2 threads that log and the timers, 2 file names, 3 calls, 1 change of the settings, 1 fault | `MessagesInOrder`, `ImportantMessagesKept`, `BackupsLimited`, `BuffersApart`, `NobodyStuck` |
| `websocket` | one open connection with 2 messages or pings; or 2 connections in the handshake, one of them with a foreign end | `FramesReassembled`, `CloseFrameIsLast`, `BothEndsUpgrade`, `UpgradesKept`, `BothEndsDisconnect` |
| `websocket_close` | one open connection whose slots of `aboutToClose()` write | `LastDataPrecedesClose`, violated |

Two handlers and three connections are the least with which both handlers are
used at once, a third connection is rejected, and a handler is reused or deleted
while the other works. Two messages are the least for pipelined requests, for a
request after a part of one, and for a message on an upgraded connection. The
order of events is not bounded: a connection may be accepted, rejected, dropped,
timed out or closed at any point. The safety run uses the symmetry of handlers
and of connections; the liveness run does not.

The bounds of the other runs:

- `session_store`: a lost decrement, a deletion and an expiry each need two threads
  and one session; two sessions let a request meet one that is gone and one that is
  new. A session with `Expiration` 0 expires after one tick. Two calls let one thread
  look a session up while the other copies or removes it; the number of destructors, ticks and
  timer events is not bounded.
- `parts`, requests: `MaxSize` 13 and `MaxMultiPartSize` 12 lie among the sizes of
  the scripts, so that each limit is reached, met exactly and exceeded; the pieces
  may have any length. Up to 2 calls of the response: a header that is replaced and a write,
  a length and a write, a redirect and what follows it.
- `parts`, caches: 2 threads, 3 requests or 2 loads; 4 paths, one of each kind (a file that is there, a
  directory, a forbidden one, one that cannot be read); a file is replaced, removed or made
  once, with size 0 or 2, below and above the size that is cached, so it can grow or shrink while it is read; the
  time of the cache is one tick, so that entries expire while a slow thread reads.
  Threads and addresses are symmetric.
- `parts`, text: all templates of up to 4 tokens, enough for two sections or for one with a
  variable, and those of 5 tokens of a condition with `else`; all cookie texts of up
  to 4 characters.
- `parts`, services: 3 clients and 2 processes are needed for two concurrent starts
  and a command, 2 addresses for one that comes again; 2 controllers, one that stops the service and one
  that installs, starts or uninstalls it meanwhile, so that it may run again between two polls;
  2 controls of a process, which may also come from other programs (pause, resume, stop
  and user codes); one turn of the loop in `stop`, which the code repeats ten times. That
  controllers pause, resume and send codes at the same time is only proved.
- `file_logger`: files of one or two messages, up to three backups, levels below,
  at and above the limits; the three settings differ in everything. Symmetric in the threads.
- `websocket`: `Short` 3, `Medium` 4, `TopBit` 9, `FrameSize` 2, `MaxFrame` 5 and
  `MaxMessage` 6 keep the order of 125, 65535, 2^63 and the limits, with payloads
  on both sides of each. Our ends send a text of one character of two bytes, which fits a frame. The scripts of
  foreign clients have longer messages of both kinds; the first is what an end of ours writes of three
  bytes, two frames and the cut within a character. That our ends send messages in several frames both ways
  is only proved. A ping has four bytes. In the handshake one connection of two
  has a foreign client or server, so that the other one may be opened from it again or
  come between its two steps; a queue of 1 and a limit changed between 1 and 2 fill meanwhile.

The violated properties of the pool are statements of the repository that the code
does not keep. With SSL the slot `disconnected()` is connected only when the
handshake is complete, so a connection that ends earlier, by the read timeout
for example, leaves a handler that is busy for ever (`pool_ssl`). When a
WebSocket client drops its connection, the socket object is not closed, and the
assertion in `handleConnection` fails on the next use of the handler
(`pool_reuse`). `close()` does not wait for connections whose
`handleConnection` event is still queued; they are thrown away (`pool_close`).

Three more are violated. Two threads that drop the last two copies of a session
both hold its read lock; the first to see zero deletes the lock that the other one
has still to unlock, so `HttpSession` is not "thread safe" (`session_lock`).
`getTemplate` copies the document of a cache entry after it has released the mutex,
when another thread may have deleted it (`template_reuse`). `close()` of a web
socket writes the close frame before it emits `aboutToClose()`, so that what an
application writes in answer to that signal is lost (`websocket_close`).

### What the properties except

Some properties hold except for something that the code does and the model has as well;
each exception is part of the property and named in its comment.

- `RequestsKeptApart`: not if a piece ended between CR and LF, when the LF is read as
  an empty line, nor after a request that was refused, nor if the client announced a length
  that is not that of the body (several lengths must all be it; a length in a folded
  header counts as wrong).
- `RefusedForAReason`: a request is refused for its first line or its size (`Reason`), except
  that a line in pieces is counted more than once, that a multipart body is refused
  when it has exactly the size of the limit (`httprequest.cpp:190`), and that nothing is
  said once a length was wrong or a piece ended between CR and LF.
- `EndOfResponseKnown`: an application that sets `connection: close` in lower case, which `write`
  understands and `readHttp` does not, and a `Content-Length`, and sends less, decides for itself. And on
  a request of HTTP/1.0 a service that replaces the `Connection: close` of `readHttp`
  (`httpconnectionhandler.cpp:337`) by `keep-alive` gets the chunked mode, which that client
  does not know.
- `CookieSurvives`: the flags `Secure` and `HttpOnly` are never read
  (`httpcookie.cpp:42`). Since nothing is escaped, the application has to take care of what
  `CookiesReadable` says: no `;` or `"` in a text and no blank at its ends, a name that is not
  empty, has no `=` and is not that of an attribute, and in a jar one cookie of each name.
- `FlatTextsExpanded` is about texts in which sections do not nest; with a missing end
  tag the loops of `Template` never end.
- `BothEndsUpgrade`: on a `QWebSocket` that was opened again after it had lost its connection within the
  headers (`inherited`), the status and the other headers may be those of the old response; the key, which is new, is
  always that of the new one. The comment "Reset handshake on a new connection."
  (`qwebsocket_p.cpp:946`) does not hold there.
- `UpgradesKept`: a web socket may be neither in the queue nor handed out if, while the slots of
  `originAuthenticationRequired` decided on it, the limit was lowered or another web
  socket was made (`crowded`); `addPendingConnection` then drops it silently.
- `ControllersAreTold`: a controller that has stopped the service is told so; that it is stopped is promised until the
  manager starts it again, and what a later process does is no matter of the old controllers (`formerly`).
- `CommandsObeyedOnce`: not for a client whose socket has the address of one that
  was closed within a line, whose piece is still in the cache.
- `ControlsAreServed`: not if the program was shut down or called `quit` by itself,
  which the manager is not told as `STOP_PENDING`: then a handler may wait for an event
  loop that has ended (`qtservice_win.cpp:638`) and `RUNNING` may be told after `STOPPED`.
- `NobodyStuck`: not if `open()` fails in a timer event, when its warning comes back
  to `log` with the mutex held. `MessagesInOrder`: not once a buffer was switched off with
  messages in it, which are written late if it is switched on again.

### Fairness

`FairSpec` assumes weak fairness of the steps that the program takes by itself:
event loops deliver posted events, `readyRead`, `disconnected` and timers (Qt's
event loop handles all sources in each turn); `service` returns (the library
cannot ensure that and its users must); the clean-up timer repeats; the
destructors go on. `SocketDisconnects` and `FinishRequest` also assume that TCP
delivers the last output or gives the connection up: a client that keeps a
connection open and never reads is not covered, and the code has no timeout
against it. Nothing is assumed of clients: they may stay silent for ever,
and new connections need not be accepted.
`HandlersAreFreed`, `CloseReturns` and `PoolShrinks` hold under these
assumptions in plain TCP, with descriptors that work; the first fails with SSL
as `pool_ssl` shows.

In `SessionStore`, a thread that is in a function of the library goes on
(`Continue`), and the timer fires again and finishes its loop. A visit of the timer
waits for the write lock of a session while handler threads lock it again and again
for reading; `TimerVisit` is strongly fair because `QReadWriteLock` lets a waiting
writer go before new readers. Application code need not end. In
`WebSocketConnection`, the event loop of each end runs (`Run(e)`), its slots return,
and the peer's system takes what is written; a foreign client need do nothing, and
the timeout of `waitForReadyRead` ends a frame that never becomes complete.
The other modules state safety only and need no fairness. The runs `parts`,
`file_logger` and `websocket` switch the check for deadlocks off, since
what they model really may come to an end: a script, a process, a closed connection
(`NobodyStuck`, `NobodyWaitsInVain` and `ControlsAreServed` say what waiting is allowed).

## Proofs

`ConnectionPool_proofs` proves, for any set of connections, any finite set of
handlers, any limits and any set of messages, that `Spec` implies always
`TypeOK`, `OneConnectionPerHandler`, `ReadTimerArmed`, `NoForeignRequest` and
`CleanupSparesConnections`, and, when there is no SSL and descriptors do not
fail (`PlainTcp`), `BusyMeansInUse`. The only assumption is
`ConstantsAssumption` of `ConnectionPool`.

None of these properties is inductive. `IInv` strengthens them by what the
fields of a handler owe each other and what the listener relies on:

- `SocketFits`: a socket has a connection exactly if it is not unconnected; a
  handler with a connection or an event is busy; it never has both, nor two events.
- `RequestFits`, `TimerFits`: the request and the timer are those of the
  connection; inside `service` the request is, which is what the timer is restarted for.
- `PlainFits`: without SSL a busy handler has a connection, and every connection
  has a slot that waits for its end: the argument that `pool_ssl` breaks.
- `PoolFits`: objects outside the pool are as constructed; a handler that the
  clean-up timer deletes is not busy, and cannot become so while the listener
  waits for it.
- `OwnersFit`: a connection has one owner and is accepted, and every accepted
  connection has an owner.

Most steps of a handler only let go of a connection or keep it. The lemma
`BecomesPreserves` says once that such a step preserves `IInv`, and the lemmas
about `Unconnected`, `DisconnectFromHost` and `CloseSocket` say once what closing
does; each slot then has to show only that the record of its handler still fits.
The steps in which a connection changes hands (`IncomingConnection`,
`HandleConnection`, `ThreadExit`) are proved on their own. TLC checked `IInv` and
`PoolBounded` on the instances of `pool_safety` and `pool_service` as well.

It proves, again for `PlainTcp`, that `Spec` implies
`ImplementsAdmission`. The code limits handlers, `AdmissionControl` limits
connections. `UsersServed` is the bridge: which handler has which connection is
a bijection between the handlers in use (`Users`) and the accepted connections.
With `PoolBounded` (the pool keeps to `maxThreads`) a free handler or room in the
pool then means room to serve (`RoomToServe`), and a full pool of busy handlers
that many connections (`NoRoomToServe`, the one place that needs `PlainTcp`: with
SSL a busy handler may have no connection, and connections are turned away while
none is served). Every step of a handler keeps its connection or finishes it;
all others stutter.

`SessionStore_proofs` proves, for any finite set of threads, any sessions and any
expiration time, that `Spec` implies always `TypeOK` and `CopiesAlive`, and that it
implies `ImplementsSessionMap` and `OneSessionPerClient`. It assumes only
`ConstantsAssumption` of `SessionStore`.

`CopiesAlive` is what is at stake: threads decrement the count under a read
lock, so a decrement can be lost. The argument is that only decrements can be lost, and then the count
is too high. The owners of data are the objects that point to it and its node in the map.
`Counted` says that the count is never less than the number of owners; that the
value which a thread has loaded and not yet stored is not less either, although
others store meanwhile (a new owner would need the write lock, which waits for this
reader); and that a thread which saw zero saw it when there was no owner left, after
which there never is one. `LoopFits` (the loop of the timer has the mutex and visits
only stored sessions) and `CallsFit` (a thread in a call of the store is in no
destructor) complete `IInv`. `TimerFits` is proved with it: the timer has a copy of a session only in
its loop, and between the look at an expired session and its erasure it does nothing else. The lemmas `OneMoreOwner`, `NoMoreOwners` and `SameOwners`
say once what a step does that adds an owner, moves or drops one, or changes none.
`UnbornFits` (a session that was never stored has not aged) and `ClientsFit` (the id a thread has looked
up is that of its response, or its cookie) carry the last two theorems. For the map, `TimerVisit` is the step that condemns an expired session and
`TimerErase` the one with which it leaves; what others do to it in between changes
nothing for the map. That a lost
decrement leaks data is allowed by all of them, and happens.

`Http_proofs` has three parts, each about its own specification.

- For any scripts of requests, limits and calls of the application, `Spec` of
  `HttpExchange` implies always `SizesLimited`, `EndOfResponseKnown`,
  `TurnsReadSomething`, `RequestsKeptApart` and `RefusedForAReason` (`SizesAssumption`:
  the limits are natural numbers; `ScriptsAssumption`: a request is sequences of
  tokens, has a first line, and its header lines are known ones without line breaks in them).
  `ExchangeInv` relates what was read
  from the socket to what the parser counted. `HeadFits` and `BodyFits` say that
  `currentSize` is never less than the number of bytes read since the request began, that it is within the
  limit while the parser waits, and that a body is shorter than announced until it is
  complete; a line that is counted twice is why the converse is false. `ResponseFits` says how
  the headers that were sent tell the end of the body, and `ServiceFits` that the connection
  is closed if they do not, for services that replace `Connection` as they like: the value the handler
  wanted is then gone, but there is one, and `closes` is what the handler decided. `TurnsReadSomething` needs that a parser which waits has
  room left for a byte under its limit; a turn that reads nothing of a body has a negative length and
  makes the request complete. `RequestsKeptApart` says of the fields of a well-formed multipart body what
  the code's parser finds: `InPart` is where the parser is after each line of such a body, `PartAdded` what
  the end of a part adds.

  The last two are about the step that the server keeps with its client, which no state of
  the parser alone tells. `StepInv` says, as long as nothing of what the properties except
  has happened (`KeepsStep`), which bytes of which request were read and what the parser has of them
  (`InStep`): how many lines of the head, of which the last may be cut (`LinesRead`), the lengths
  among them (`HeadersFrom`), the begin of the body; that a request which was
  served has all of its bytes and no other (`DoneFits`); and that `currentSize` is the number of bytes
  read if no line was counted twice, which is what a refusal needs for a reason. `StepFits` puts it
  together: after k requests the server stands where the client ended the k-th (`Place`).
- For any files, threads, sizes and limits, `StaticSpec` implies always `HitsAreRecent`
  (`StaticAssumption`). `StaticInv` says of each document, in the
  cache or still being read, that all it has was in the file when its reading began
  or later (`HasContents`), and of a response that was a hit the same for the `cacheTime`
  (`ReaderFits`). Time, and files that are replaced, removed or made again, only add to what was there, and a
  thread reads on in what was current since it began (`FilesMove`). What the cache keeps are the lemmas about
  `QCache`, of `Used`, `Insert` and one entry per key (`OnePerKey`).
- For any names, locales, sizes and loaders, with or without a cache, `TemplateSpec`
  implies always `BestTemplateFound` if `TemplateCacheTime` is not negative
  (`TemplateAssumption`). A negative time, which no document speaks of, would ask for
  documents of the future. `TemplateInv` says that the names which are
  not pending any more are those that were tried (`SearchFits`), that each had its document
  within the time (`TrialsFit`), and that the entry which a loader holds outside
  the mutex is one for the name it looks for (`PlaceFits`). That this entry is
  still alive is not so, see `template_reuse`; a loader that reads a deleted one is
  out of the search.

`Text_proofs` proves, for any cookies and texts, that `CookieSpec` implies always
`SplitsAtSemicolons` (`TextsAssumption`: texts are sequences of characters). `SplitInv` says what
`splitCSV` has when it has read p characters of a text t: the cuts among them (`CutsTo`)
are the semicolons with an even number of quotes before them, which is what `inString` tells;
in `buffer` are the unquoted characters since the last cut (`BufferAt`); in `list` the parts between the
cuts that are not empty (`ListAt`). The reference definition takes the numbers of a set in their order
(`InOrder`), by their rank. `OneMoreInOrder` says that a number above all of
them comes last and leaves the others where they are, so that one more character, one more cut and
one more part that is not empty each make the sequence longer by one (`FullMore`,
`PartsMore`, `CutMore`). At the end, the end of the text is the last cut (`CutsAtEnd`).

It proves, too, that `CookieSpec` implies always `CookieSurvives`, for all cookies and jars
that are `CookiesReadable`. `MCParts` assumes this of its cookies and jars, so `parts` shows that
there are such. `WrittenAs` says of a text that its parts are those of a sequence, the last
without a cut behind it; appending a semicolon, a blank and a text without separators appends that
text to the parts (`BlankWritten`). Attribute by attribute, `CookieIsTold` follows what
`toByteArray` writes: the first part has the name and the value, and each other part either no name
(the flags) or that of an attribute with its value (`CookieTold`), among them every attribute that is not
empty (`HasPart`). `JarIsTold` does it for the header of a client, by the number of its
cookies. `SurviveInv` then says what has been read when the constructor, or `extractCookies`, is at
a part: the fields that the parts so far have told (`ReadSoFar`), or as many cookies of the jar
(`JarRead`); `ReadNext` is one turn of the loop, `ReadAll` its end.

Its third part proves, for any templates and calls, that `EngineSpec` implies always
`FlatTextsExpanded`, and so that no call with a flat text waits for ever on an end tag
(`TemplatesAssumption`: texts are sequences, repetitions a natural number, and a numbered sub-name is
not the tag of a loop). The property speaks of the end only. `EngineInv` says of each turn that
the text is, up to some token of the original, what the reference makes of it and from there on what it was before
the pass, and that the search goes on where it finds the next tag that is still to be
replaced and none that was inserted (`UpTo`). `Flat` joins what stands in the place of the tokens from one
place to another, so that a turn only moves the place: `PassAt` is where a pass is, and `PassReplaces` says that
the next tag, its end and its `else` are found where they are in the original (`SectionFound`),
since the text from the pass on is still that of the original. A pass may do so for any
tokens before and after it that fit (`PassFits`); `LoopPass`, `IfPass` and `IfnotPass` say
that the reference fits, with sections replaced by nothing that has their tag. The second pass of
`setCondition` begins at the first place of what the first has left (`AfterIf`). A variable
needs no section but may contain itself: `VariableAt` has the search behind what was inserted.

`FileLogger_proofs` proves, for any threads, files, backups and settings, that `Spec`
implies always `NobodyStuck`, `BackupsLimited`, `ImportantMessagesKept`,
`BuffersApart` and `MessagesInOrder`. It assumes `ConstantsAssumption`, which keeps
the main thread and the others apart, and `SettingsAssumption` (settings are natural
numbers). The inductive invariant is `Inv`:

- `LocksFit`: where a thread is that has a mutex, which is all that `NobodyStuck` needs.
- `DiskInv`: while `rotate` is at its second or third loop, the backups it has counted
  are there (`Rotates`), so that it never renames what is missing; without faults the
  numbers of the backups have one gap at most, the one that the renaming moves down
  (`NumbersFit`); an important message lies in the flushed part of a file or in a
  backup (`ImportantFit`), which is why a crash between any two renamings loses none.
- `BuffersFit`: an unwritten message is in one place only, its own thread's.
- `OrderFits`: every file is in order, each backup lies before the file and before
  the backups with a lower number, and all that is written lies before all that is
  not (`Before`). `MessagesInOrder` alone is not inductive, since it does not see
  what is still in the buffers.

`WebSocket_proofs` has three parts.

- For any connections, scripts of foreign servers and
  limits that change at any time, `HandshakeSpec` implies always `BothEndsUpgrade` and
  `UpgradesKept` (assumption: `HandshakeAssumption`, the types of the scripts and
  limits). `HandshakeInv` adds that our server gives the key to no connection but those it
  upgrades (`AnswersFit`); that the key among the headers a client looks at was read on this connection,
  and status and headers after one status line unless they were `inherited` (`HeadersFit`): several responses may follow
  one another on a socket, and a `QWebSocket` may be opened again; and that there is a place
  in the queue for each connection that slots decide on, unless it is in `crowded` (`PlacesFit`).
- For any messages, limits and foreign clients, `ConnectionSpec` implies always
  `CloseFrameIsLast`, if no slot of `aboutToClose()` writes (`~ WritesLast`); the run
  `websocket_close` shows that it is false otherwise. `ClosingInv` says what keeps a close
  frame last: an end that has sent it runs the slots of `aboutToClose()` and
  dispatches no frame, or has closed its socket (`WritesFit`).
- For any messages, sizes, limits and masking keys, `ConnectionSpec` implies always
  `FramesReassembled`, whether `aboutToClose()` writes or not (`SizesAssumption`,
  `MessagesAssumption`). The property sees only what was signalled. What is still in the buffer, on the wire,
  in a frame half read or in the processor is in none of the lists it compares, so `FramingInv`
  has to say what it will become. `After` is what one more unit makes of an end
  (`Receiver`), no matter when it is read, and `IsRun` a whole sequence of them. `Reads` says
  that an end which went on to read all that was written for it would only ever signal a begin of
  what its peer meant to send, and, while the peer can write, would end between two messages
  with all of them (`Settled`) or have stopped. `Answers` says the same of pings and pongs, which go round
  both ends: the pongs to come are the answers given so far. A step that reads moves along the run
  (`After` is what `ReadUnit` and the dispatch do); a step that writes makes it longer
  (`ReadsMore`), by frames of which the lemmas `MessageLeads`, `PingLeads`, `PongLeads` and
  `CloseLeads` say what they make of a receiver at rest: masking twice is the identity, the
  pieces of a message join to it and its text decodes across frames as it does whole, and a frame
  or message over a limit makes the receiver stop. `SocketsFit` says when nothing more can arrive.

  A foreign client sends any units. The theorem supposes of its scripts (`ScriptsRead`) that a script
  names the messages its units hold: read one after the other they signal no others. It says
  then that no interleaving with our own pings, closes and timeouts makes others of
  them. TLC checks `FramesReassembled` on the scripts of the run, which satisfy it.

`ServiceControl_proofs` proves, for any services, clients, addresses and calls, that
`ServiceSpec` implies always `NobodyWaitsInVain` and `CommandsObeyedOnce`, under
`ServiceAssumption` (the names of nobody are no services, clients or addresses; a
client calls operations that exist). `ControlInv` says of each client's
socket that it is its own (`LinksFit`), of the cache of a service that it has a
complete line only while `slotReady` is at that address (`LinesFit`), and of
each line that its two pieces are on their way or in the cache, in order, until it
is obeyed and answered, once (`CallsFit`). A client that has inherited another's
piece at its address is left out of the last part, but not of `NobodyWaitsInVain`.

`Service_proofs` proves, for any controllers and any number of controls, that
`ManagerSpec` implies always `ControlsAreServed` and `ControllersAreTold`. It
assumes `ThreadAssumption` (no thread is called `NoThread`). `ProcessInv` is about the
three threads: who has the mutex (`LocksFit`); `serviceMain` and the handler thread
never wait at the same time, since the manager sends nothing but `interrogate` before
the service runs (`OneIsServed`), so the one event in the queue is that of the thread that waits
(`EventsFit`); when the loop has ended, the manager was told of it by `STOP_PENDING`
(`EndAnnounced`, the part that does not hold after an unannounced end).
All of this begins anew when the manager starts another process (`StartProcess` puts the threads back).
`ManagerInv` connects a controller with the control that is carried out for it
(`SenderFits`) and says that a process which has handled a stop serves no control after it
(`StopFits`, `Settled`), so that `STOPPED` once told remains true as long as that
process is the last one (`HasEnded`); of an earlier one nothing is left but that it has handled the control (`formerly`).

Only model-checked is

- liveness under fairness (`HandlersAreFreed`, `CloseReturns`, `PoolShrinks`,
  `ExpiredSessionsLeave`, `BothEndsDisconnect`), which is out of the provers' reach.

No operator can be given to the library's theorems about induction. What can be said as a set
of numbers is proved by `NaturalsFollow` (in `FileLogger_proofs`, `Http_proofs`,
`Text_proofs` and `WebSocket_proofs`: if 0 is in the set, and n + 1 with n, then all are).

## Not modelled

- Library and system: Qt's event loops, sockets, timers and `QCache`, the kernel, the
  heap and the service control manager are modelled from how the code uses them.
- Text: `urlDecode`, dates, formatting of log lines (but what a line shows of
  its thread and variables is modelled), the key of a handshake, JSON and MIME names.
- `ConnectionPool`: a read timeout that every piece of a body restarts, so that a slow
  client holds a handler (`httpconnectionhandler.cpp:303`), and a client that never reads
  (`httpresponse.cpp:84`), against which the code has nothing that could be checked. A
  descriptor that fails leaves its handler busy (`httpconnectionhandler.cpp:159`).
- `HttpRequest`: a temporary file that cannot be created or written
  (`httprequest.cpp:180`, `:189`), whose result the code does not look at.
- `FileLogger`: `DualFileLogger`, the destructors, and messages that the main thread
  logs itself other than the warnings of `open()`.
- Web sockets: the destructor (`closeGoingAway`), `pauseAccepting`, opening a `QWebSocket` that is
  already open, reasons longer than a control frame can hold, failing writes, proxies and
  the SSL configuration. `bytesWritten` is connected twice and
  `aboutToClose` emitted twice; nothing in the model depends on it.
- Services: `-e` and `-b`, `logMessage`, the event filter of Windows and the getters. On Unix two concurrent
  starts may unlink each other's socket file (`qtunixserversocket.cpp:73`, `:89`):
  `ServiceControl` has it, but no document says what should happen, hence there is no property. The destruction of
  the mutex while a handler may still hold it (`qtservice_win.cpp:841`) is memory management
  that the model does not show.
- The demo applications, which create these objects once, and the vendored build files.

## What is left

The runs `parts` and `websocket` compose nothing across processes that share state: a
composition of `HttpExchange` with `ConnectionPool` would show requests and timeouts
together, at the price of smaller instances.
