# cangjie_stdx: a verification project

TLA+ models of the parts of `stdx` whose correctness hangs on the order in which threads, timers and
peers act, or on what each of many error paths cleans up, the TLC configurations that check them on small instances, and proofs, checked by TLAPS, of
what holds for every size.  Paths are relative to `src/src/stdx/` of the repository unless they start
with `doc/`.

## 1. The system

`stdx` is a set of libraries of the Cangjie language.  Most of the code is sequential transformation of
data; the state that several actors share is in `net/http`, `net/tls`, `actors`, `string_intern` and the
loggers.  A native layer in C stands between the libraries and OpenSSL: it owns contexts, certificates,
keys, buffers and callbacks, and finds OpenSSL itself at run time.  The table is the inventory; "hard" is what a test would hardly reach.

| Part | State it keeps | Operations, and who calls them | Hard | What makes it correct | Here |
|---|---|---|---|---|---|
| Frame queue `collection_multi_level_queue.cj` | queues and counters per priority, a total, a monitor | `send` by handlers, users, readers; `receive` by the write thread; `close` | counters and queues are separate atomics; wake-ups are skipped when nobody seems to wait | no drifting counter, no lost wake-up, priority, nobody left after close | `SPMCLevelQueue`, proofs |
| Accept loop and coroutine pool `server.cj`, `coroutine_pool.cj` | accepted connections, task queue, workers, running tasks | `serve`, `submit`, `Worker.run`, `close`, `closeGracefully` | idle timeouts against submit; close against everything; `workersMutex` held while waiting | every connection has one holder, is served or closed; close returns | `ServicePool`, proofs |
| HTTP/2 client connection `http_client2_0.cj`, `stream_client.cj` | stream map, counters, statuses, output queue, cache of early headers | user threads, write thread, read thread, timers | ids claimed and loaded apart; headers enqueued out of order; shutdown in the middle of a request | streams open in order, frames in order, every request ends | `H2Client`, proofs |
| HTTP/2 server connection `http_server2_0.cj`, `stream_server2_0.cj` | stream map, pool of Stream objects, two counters, statuses, queue | read thread, handlers, timers, write thread | several closers of one stream; recycled objects; resets | counters come back to zero; a response keeps to its stream | `H2Server`, proofs |
| HTTP/1.1 client `http_client1_1.cj`, `http_body.cj`, `client.cj` | linked lists of pooled and used connections, `connNum`, `lifeState` | users, sending threads, two timers per connection, close | a timer that fires while the connection is re-used; lists changed by all | no timer hits a re-used connection; the count follows the connections | `Http1Client`, proofs |
| Actors `actors/*` | mailbox (one queue or one per priority), semaphore, futures | clients post and get; one thread executes; the finalizer cancels | semaphore notifies only at zero; timed gets | order, priority, every call executed, every get returns | `ActorDispatcher`, proofs |
| HTTP/1.1 server, distributor, upgrade `http_server1_1.cj`, `http_distributor.cj`, `http_engine_conn.cj` | keep-alive loop, handlers by path | service task per connection | close against a request in progress | one response per request | later |
| HTTP/2 engine map, GOAWAY, settings, windows, shutdown | engines per server, windows, acknowledgements | all HTTP/2 threads | a request on an engine that is closing; windows updated by two threads | windows never overrun; requests above the announced id are retried or fail | later |
| Pools and rings `pool.cj`, `collection_queue.cj` | rings with atomic indices | producers, consumers, a cleaner | put against get against clean | nothing lost or handed out twice | later |
| Frames, HPACK | dynamic tables of both ends | read and write threads | size updates, eviction | both ends agree | later |
| WebSocket `websocket*.cj` | read and write state, close flags | users | fragments, control frames, closing handshake | one message at a time | later |
| TLS stream `net/tls/stream.cj`, `buffer.cj`, `native/tls_bio.c`, `native/tls-impl.c` | five locks, `pendingRead`, two buffers, the native connection | `read`, `write`, `handshake`, `close` by different threads; timers of close | lock order; buffers that grow while they are sent; close against blocked operations | two pipes in order, nobody blocked after close, no use of freed state | `TlsPipes`, `TlsEngine`, `TlsStream` |
| TLS native glue `net/tls/native` | contexts, certificates, sessions, protocol lists handed to OpenSSL | some forty functions, each with its own clean-up | failure after any step | everything released once or handed over | `TlsCalls`, `NativeCalls` |
| Keyless provider `provider*.c` | keys with a reference count, signature and decryption contexts, a list of callbacks | OpenSSL's provider calls in handshakes of any thread; registrations | contexts copied and released while keys are; two registrations for one key | keys live as long as they are held; a registered callback is found | `KeylessCalls`, `KeylessKeys`, `KeylessRegistry`, proofs |
| Keys and certificates `crypto/keys/native`, `crypto/x509/native` | parsed keys, passwords, certificates under construction | some forty functions | failure after any step; secrets in released memory | as above, and secrets wiped | `CryptoCalls`, `NativeCalls` |
| Loader of OpenSSL `dynamicLoader/opensslSymbols.c` | configured paths, two handles with owner flags, cached symbols | `SetPath`, first use of a symbol by any thread, the end of the program | configuration against load; one library for both | accepted paths are used; handles closed once | `OpenSslLoader`, proofs |
| TLS socket, sessions `tls_socket.cj`, `sessions.cj` | a state machine by compare-and-swap, a session store | handshake, close, finalizer | all three at once | one of them frees the socket | not modelled |
| String interning | cache by hash code, eviction lists | any thread | two misses at once; equal hash codes | the interned string equals the given one | later |
| Loggers | queue, log thread, attributes | any thread, close | log after close | order, nothing lost before close | later |
| JSON streams, zlib and tar streams, digests, cookies, URL | state of one object | its one user | protocol of calls | data | later, in part |
| `syntax`, `chir`, serialization, fuzz, unittest, macros, plugin, effect, loaders, build | trees, converters, wrappers | one caller | none between actors | data | not modelled |

How they interact: `Server.serve` accepts connections and submits them to the pool; a worker runs the
protocol's service (HTTP/1.1 or HTTP/2) on the connection.  An HTTP/2 connection, on either side, has a
read thread, a write thread that takes frames from its `SPMCLevelQueue`, and threads of users or
handlers that put frames in.  The client keeps one HTTP/1.1 engine (a pool of connections) and one
HTTP/2 engine (one connection) per server.  TLS sits under both: its stream moves encrypted bytes between
the socket and two buffers, and gives OpenSSL windows of them through `tls_bio.c`; the native glue makes
the contexts and certificates it uses, and the keyless provider asks a callback of the program for
signatures made with keys it does not have.  All native functions reach OpenSSL through the loader.  `PROJECT.json` has the full list of
components and of hazards, each hazard at its line and with the properties that would catch it.

## 2. The models

All modules are written one atomic access at a time where threads share state without a lock; what runs
under a lock that every other access takes as well is one step.

- **`SPMCLevelQueue`**: senders, receivers and one closer; `queue`, `quit`, `sendq`, `size`, `recvq` are
  the atomics of the class, `owner` holds `recvMon`.  `late` and `due` are history: a call of send that
  began after close, and what was visible to a scan.  `Timeouts` lets parked receivers wake.
- **`ServicePool`**: `Accept..SubmitFail` are the serve loop and `submit`, `Worker*` the worker, `Close*`
  both forms of close.  The service of a connection is one step (`ServeEnd`).  Policies Block and Discard
  are left out, since no caller passes them; so are `updateCert` and `updateCA`.
- **`ActorDispatcher`**: posts, the semaphore's `signal` and `wait` step by step, the scan of the priority
  queues, futures with and without timeout, and the finalizer.  A closure is one step and posts nothing.
- **`H2Client`**: `Count..OpenConn` are `send` of `HttpClientEngine2`, `Write` the frames of a request,
  `Writer*` the write thread with `cacheMap`, `Read*` the read thread, `Shutdown*` the end.  The output
  queue is two sequences and a flag, as `SPMCLevelQueue` justifies.  `FirstAlone` keeps every other user
  from beginning while the first takes its id; the code does not, and two first requests that begin at once
  get one id (section 6), after which little can be said of their streams.  `Troubles` is the set of things
  that may go wrong in one behaviour.  The purge
  of a stream and the decrement of the counter are one step; a user who closes a body early, windows,
  push and settings are left out.
- **`H2Server`**: `Read*` is the read thread with the creation, the limit and the resets of streams,
  `Handler*` the handlers, `Timer*` the read timers, `Writer*` the write thread.  Adding a new stream to
  the map, its counter, status and enqueueing are one step, as are a compare-and-swap and the assignment
  that follows it at once.  The HashMap that the write thread reads without the mutex is taken as atomic.
  `stolen` and `overwritten` are history: requests whose Stream object was recycled under a thread that
  still used it, and those whose status was assigned over a newer one.  The code is known to misbehave
  for them (section 6), so the properties speak of the others.  Windows, push, settings, GOAWAY, shutdown
  and request bodies are left out.
- **`Http1Client`**: `lists` are the intrusive lists themselves (`head`, `prev`, `next`), because `remove`
  on the wrong list is what could go wrong.  `GetConn..Enlist` is `getConn`; `Send..Respond` is
  `sendRequestTimeout` with its sending thread; `Fail` the retry; `ReadBody` and `CloseBody` the body
  providers; `Arm`, `Cancel`, `TimerWins`, `TimerCloses` the timers with `lifeState`; `ReturnConn`,
  `PutConn`, `CloseConnInUse`, `EngineClose`, `Upgrade` the rest.  One of the two indices is modelled.
  The timer's test and compare-and-swap are one step, as are those of `returnConn`; tasks of a closed
  connection are dropped, as they do nothing.  Which exceptions are retried is a free choice of one
  retry; 1xx responses, CONNECT, proxies and redirects are left out.

- **`TlsPipes`** is what a TLS stream promises: two channels that deliver records in order, each at most
  once.  **`TlsEngine`** is what a native call answers: `Bio*` are the windows of `tls_bio.c`, `Ssl*` and
  `CJ_TLS_DYN_*` the functions of `tls-impl.c`; `SSL_*` stand for OpenSSL, whose records are two pieces of
  data or one of control; a `Request` among the latter is one that OpenSSL answers on its own while it
  reads (`Answer`, as a key update is), so that a reader has bytes to send.
  **`TlsStream`** is `stream.cj` with `buffer.cj`: `Lock`, `End` the operations'
  locks; `Try*` the native calls under `sslLock`; `FlushCheck`, `GetOutgoingBatch`, `SocketWrite`,
  `CommitWritten` the flush; `IfReadNeeded`, `SocketRead`, `CommitRead` the fill; `TryLock`, `TimerFires`,
  `CloseImpl`, `CloseSocket` the close.  What happens under `sslLock`, which is never held across a wait, is
  one step, as is taking `fillLock` or `flushLock` with the first look at what there is to do.  `batch.copy`
  is the array that `socket.write` still sends from when the buffer has taken a larger one.  One thread
  writes after its handshake, one reads, one closes; more readers would only queue at `readLock`.
  `StreamIsTwoPipes` is the refinement: `written` counts a record from the moment OpenSSL has accepted it,
  `arrived` is what the peer can decode of `heard`.
- **`NativeSteps`** is a vocabulary for native functions, **`TlsCalls`**, **`KeylessCalls`** and
  **`CryptoCalls`** describe the functions in it: a function is a set of scripts, one for each case of its
  arguments, and a script the sequence of steps that create, read, hand over, wipe and release objects,
  with the clean-up of each step that may fail.  A function that another one calls is part of its
  scripts.  Wiping is as partial as the code's: of a parsed key the numbers that `WipePrivateKeyData` asks
  for, of a key of another type, or one that OpenSSL keeps to itself, nothing (`KindsOfKey`).
  **`NativeCalls`** carries a script out, with any step failing that can; loops run at most
  twice, which is enough for a second iteration to meet what the first left.
- **`KeylessKeys`**: `holds` is every pointer to a key, of OpenSSL's handles and of contexts, one that an
  init has not stored yet included; `refCnt` the code's count.  OpenSSL keeps a handle during a call that
  uses it (`from`).  An init of a signature context gives up the key of an earlier init
  (`SigInitInternal`), one of an asymcipher context stores over it (`AcInitStores`); `lost` counts the
  references that are gone that way.
  **`KeylessRegistry`**: the callbacks and their rwlock, one step between two accesses.
- **`OpenSslLoader`**: `configured`, `started` and the paths under the configuration lock, `once` the
  `pthread_once`, the handles with their owner flags, `cached` the symbols.  `installed` is which libraries
  can be opened.  The dlopen build; the linked-symbol build and Windows differ in where a symbol is looked
  for first.
- **`MCNative`** composes these: they share nothing but the process, so a behaviour is one of a call, of
  the keys, of the registry or of the loader (`part`).

## 3. The runs

Each has its own question; `PROJECT.json` states it and lists a mutant for every property of a passing
run, a plausible slip of the code that the property detects.

| Run | Instance | Shows |
|---|---|---|
| `spmc` | 2 senders, 2 receivers, 2 priorities, 1 send each, close | counters never drift; no lost wake-up, not even with the help of the timeout; priority respected for what is visible; close leaves nobody |
| `pool` | 3 connections, 2 workers, queue of 1, closeGracefully | one holder for each connection, the accept gate counts right, close returns, everything is served but for two named exceptions |
| `actor` | 2 clients, 3 posts, 2 priorities, capacity 2, both mailboxes | permits match calls, order, priority, every call executed, every get returns |
| `h2c_streams` | 2 requests with body and trailer, limit 1, one trouble at a time | frames in order, ended streams leave the map, shutdown releases everybody |
| `h2c_live` | 3 requests, limit 1, no trouble | opened in order, the limit passed by at most one, all headers go out |
| `h2c_fails` | 2 requests, one may fail | violation: the write thread waits for headers that never come |
| `h2s` | 2 requests, limit 1, resets or timers | counters balance, responses keep to their stream and order, handled streams leave the map |
| `h2s_limit` | 3 requests, limit 1, resets | violation: a stream counted off twice lets one too many in |
| `h1c` | pool of 2, 3 connections; 2 requests with timers, or with drops and close, or upgrades and close; 3 with last responses, or nothing wrong | no timer hits a pooled or re-used connection; one user per connection; lists and count follow |
| `h1c_leak` | 2 requests, pool of 1 | violation: a refused upgrade makes a later request keep its connection |
| `native` | every native function described; 2 keys, 2 handles, 2 signature contexts and one of asymcipher, `MaxLost` 1; 2 threads, 2 key ids; 3 threads that load, any libraries installed | nothing read after release, lost, dangling or unwiped; keys live while held and, but for what an asymcipher context overwrites, not longer; callbacks found; accepted paths used, handles closed once |
| `tls` | a handshake, then two of read, write, close, with two records each way when nothing goes wrong, or all three with a peer that asks; buffers of 3 that grow to 12 | the stream implements two pipes; close releases every operation; a read gets what was sent; nothing freed is used |

**Why the bounds are enough.** Every race in the code is between two threads about one object, or three
where a third takes the place of one that left: two senders and two receivers let one overtake another
at each level; a limit, a capacity and a pool of one or two are reached, passed and freed again; three
requests over a pool of two make one wait or be refused while another returns.  Counts of calls are
bounded in the guards (`MaxSends`, `MaxPosts`, `MaxNodes`, `MaxReqs`), nothing else is.  Symmetry is used
for threads and requests that only differ by name and in runs without temporal properties.  Deadlock is
checked in `native`; elsewhere it is not because the models end: all threads done, nothing left to do; that nobody waits for
ever is stated by properties (`ClosedParksNobody`, `CloseReturns`, `GetReturns`, `HeadersAreSent`,
`ClosedReleasesAll`, `ReadDelivers`).  In `tls` a record is two pieces and a buffer has
three places, so that records are split and joined and lie across the end of a batch; `SizeLimit`, at which
`grow` throws, is four times `BufferSize` as in the code (16384 and 65536 bytes), and `CompactThreshold` is
0, so that a buffer is compacted when it is empty or has no room behind its content and a batch may
begin behind the start of its array.  `Scenarios` (`MCTls`) bounds what users and peer do: read and
close, write and close, read and write with a peer that may hang up or stop and a socket that may
fail; two records each way, which show their order, without such troubles; and `PeerAsks`, in which the
write buffer is full while a batch is in the socket: the reader sends its answer, a writer's bytes fill
the buffer and stay there because close has begun, and close, which takes `writeLock` next, finds no room for
its close_notify.  The buffer then grows while the socket sends from the old array.  Three places are
the fewest with which that array then has room before the batch, which must not be used.  `KeylessKeys` has two keys, handles and
signature contexts because a copied context needs a source, and a key that is replaced another; `MaxLost`
bounds how often an asymcipher context overwrites a reference.

**Fairness** (`pool`, `actor`, `h2c_live` and `tls`): the language's threads are scheduled, so
each thread that can go on does (weak fairness per thread); services and closures end.  Nothing obliges
a client to connect, a user to begin, a peer to answer or a timeout to fire, but for the timed wait of a
future's `get`, whose expiry is the code's own promise, and the timer that close sets before it tries to shut
a TLS stream down (`TimerFires`).  A socket call fails for sure only once its socket is closed; that it may
fail before is `SocketFails`, outside the fairness.

## 4. The proofs

- `SPMCLevelQueueProofs!TypeCorrect`: the types, for all sets of threads and numbers of priorities.  A
  send only begins below `MaxSends`, and uses an element it has counted: `CallBegun` is the strengthening.
- `SPMCLevelQueueProofs!CountersCorrect`: `CountersAccount` for every instance.  `sendq[p]` is changed by
  senders after they add and by receivers after they take, so the invariant has the threads in flight on
  both sides; each step moves one thread into or out of one of those finite sets.  `CloserQuit` adds that
  a priority being drained has quit.
- `SPMCLevelQueueProofs!WakeupCorrect`: `NoLostWakeup` for every instance.  The argument needs that
  `recvq` is the number of receivers between raising and lowering it (`RecvqCounts`): a sender that reads 0
  then knows that every receiver will still test the counters under the monitor.
- `SPMCLevelQueueProofs!CloseReleases`: `ClosedParksNobody`.  A receiver tests `closed` only when it enters
  the monitor; `MonitorHeld` keeps close out until it parks, so close finds it parked and wakes it.
- `SPMCLevelQueueProofs!LateSendFails`: `SendAfterCloseFails`.  `FlagsRaised` follows close through the
  priorities: when it stores `closed` every quit flag is up, and none is ever lowered.
- `SPMCLevelQueueProofs!PriorityCorrect`: `PriorityRespected`.  A scan skips a priority whose counter is 0.
  With `CountersCorrect` such a queue holds no more elements than it has senders between adding and
  counting; `DueVisible` says that each of these has its own element behind every one that was visible
  when the scan began, and an injection into the places behind shows that there is no room for it.
  `AllOld` and `NoTwins` (what is queued or due stems from distinct calls already begun) make it inductive.
- `ServicePoolProofs!PoolBounded`: the pool has at most `Capacity` workers, although `submit` reads the
  size outside the mutex.  `BoundInv` says why: only the serve loop adds workers, so the size it read can
  only have shrunk.
- `ServicePoolProofs!ConnectionsHeldOnce` and `GateIsExact`: `OneHolder` and `GateCounts` for every number of
  connections, workers and tasks.  `OneHolder` counts the places of a connection, the inductive invariant
  has instead that two places with one connection are one place, that the task queue holds no connection
  twice and nothing that is served, and that an open connection has a place.  For the gate, each step adds
  one connection to the finite set of pending ones or removes one, when it raises or lowers `activeConns`.
- `ActorDispatcherProofs!ActorInvariant`, from which `MailboxIsTyped`, `PermitsAreCalls`, `ScanNeverEmpty`,
  `HighestIsTaken`, `CallsRunInOrder` and `NoCallAbandoned` follow: `PermitsAccount`, `HighestFirst`,
  `InOrder` and `NothingAbandoned` for every number of clients, priorities and posts and every capacity.
  `Located` says where each call is (with its client, queued once, with the consumer, or run), `InLine`
  that the queues and what was run keep the order of a client's posts.  `ScanRight` is what a scan has
  learnt: no call that was due is above the priorities still to be scanned, and one that was due is
  there; a permit is what makes the last true, so a scan that holds one never ends without a call
  (`PermitBuysCall`, which the code's `remove` relies on when it returns the last element it saw).
- `H2ClientProofs!ClientTypes` and `MapIsBounded`: `TypeOK` and `StreamsBounded` for every number of requests
  and every limit, also when the first ids are taken at once.  `Numbers` says that `lastStreamId` is twice
  the number of requests that have taken an id, less one; `Counts` that the counter covers the requests
  that are refused, on their way to the map, and in it.  The test `active > MaxStreams` uses the value
  before the addition, whence the one stream too many.
- `H2ClientProofs!NobodyIsLeft` and `ShutdownLeavesNobody`: with `FirstAlone`, `ShutdownReleases` for every
  number of requests and all troubles at once.  `Unique`, `Placed` and `AllKnown` tie ids, map and frames
  together: a frame is about a request that has started to write, so no thread purges a stream that is
  not yet connected.  `Released` says that a request that writes or waits has its stream in the map, not
  Closed, or a closed queue; the step that makes a stream Closed has closed its queue first, which for the
  write thread rests on the status it read (`wseen = "HalfClosedRemote"`).
- `H2ClientProofs!HeadersKeepOrder`: with `FirstAlone`, `OpenedInOrder`.  `Ranks`: every id up to `lastSendId` is
  open, and none beyond the next; `Sent`: a frame the write thread has is of an open stream or of the next
  one, and what it saw as Idle is still not open, since no other thread opens streams.  The reset of a stream that
  is not open breaks `Ranks`, which is how the deviation in section 6 was found.
- `H2ClientProofs!FramesKeepOrder`, from `FramesLineUp`: with `FirstAlone`, `FramesInOrder`, resets included.  `Lined`
  gives each frame of a stream a rank (headers, data, trailers) and says that the ranks ascend along the hand of
  the write thread, the cache, the queue and what the request has still to write.  `Follow` ties what is to
  come to the wire: no headers after headers, no data before them and none twice, trailers after the data.
  Two kinds of stream escape it.  One whose frames are taken by nobody any more (`Gone`: off the map, or the
  connection ends) keeps its wire.  One that a reset overtook while its headers were cached (`Stuck`) has
  a cache that is never read again, because `lastSendId` has passed its id; its data may come to the hand of the
  write thread, which finds the stream lost and drops it.  `StatusFits` and `SeenFits` tie the status, and what
  the write thread read of it, to the wire: that, and not the queue, is what the code decides by.
- `H2ClientProofs!EndedStreamsLeave`: with `FirstAlone`, `EndedIsPurged`.  `Answered`: when the server's end has been
  read and dealt with, the stream is `HalfClosedRemote` or a reset for it is on its way; `Asked`: the end of the
  request is still to come, is in a stuck cache, or has made the stream `HalfClosedLocal`.  When nothing is on
  its way both hold at once, and the status has one value: so the stream has left the map.  Both are claimed
  of streams that are in the map and were not overwritten (`Exempt`).  `Quits` is why a request that stopped
  writing breaks nothing: a queue is quit only together with a reset, which comes, or when the
  stream is lost; `Causes` that a connection does not end without a cause.
- `H2ServerProofs!ServerTypes` and `StreamsCountedOnce`: `TypeOK` and `CountsBalance` for every number of
  requests, every limit and width of the counters.  `Sound` and `Linked` hold whatever goes wrong: an object
  has the name of the last stream it was given to, is mapped under that name only, and is in the pool only
  when that stream has left the map.  On a connection without resets, until an object is stolen
  (`Calm`), `Users` adds that threads use an object under the name it has, and `Claims` that a stream
  whose object is not marked as counted is in the map and has no thread about to count it off, and that
  it has one such thread at most.  Each step then adds one stream to the finite set of counted ones
  together with the increment (`Adds`), takes one out together with the decrement (`Drops`), or moves the
  duty to count it off from the object to the thread that marks it (`Stays`).
- `H2ServerProofs!ResponsesKeepOrder` and `HandledStreamsLeave`: `ResponseInOrder` and `HandledIsPurged`, resets
  included.  `Owned`: a thread that works on an object which has another stream's name by now has both streams
  in `stolen`, so a stream that is not there is worked on under its own name.  `Ordered` has the stages of a
  response: each frame waits, is in the hand of the write thread, or is on the wire, none before its handler has
  sent it, and the last one behind the first unless the first was dropped, for the stream was over.  A reset
  is written only when its stream has left the map (`ResetsOf`), so nothing follows it.  `Leaving` says that a
  closed stream has somebody who is about to take it out of the map (`Doomed`), and that a handler is done
  only then or while its last frame is still to be dealt with; the statuses that two threads assign over
  each other do not disturb that, and `HandledStreamsLeave` needs no exception for them.
- `Http1ClientProofs!StaleTimers`, `PoolIsFree`, `HeldListed` and `PoolSizeBounds`: `StaleNeverKills`,
  `PooledIsFree`, `HeldIsListed` and `NumAccounts` for every number of requests, every size of the pool and
  every mixture of troubles in which upgrades and timeouts do not meet (`TroublesApart`).  A list is the
  smallest set that holds its head and what follows, so what a removal or an insertion does to it is shown
  without induction: `Wf` has the two lists linked both ways and apart, and `PrependAdds` and `RemoveTakes` are
  the lemmas that every step uses.  `Owned` and `Kept` tie the lists to the requests and to `closed`.
  `OnTime` is why a stale timer is harmless: it is armed for this use or an earlier one, two at most win
  during one use, so the four values between two uses are never used up; and a request gives its connection
  back only in a state in which none has won.  `Counted` has the sets behind `connNum`; each step adds to or
  takes from them one element together with the counter.  The hypothesis is needed: an upgraded request
  takes its connection over without a look at `lifeState`, and a timer that has won would remove it from a
  list that it is not in and count it off twice (a hazard in `PROJECT.json`).
- `QueueLemmas` has the facts about `Head`, `Tail`, `Append` and the range of a sequence that these need.

- `NativeProofs!KeysStayAlive` and `KeysAreReleased`: `KeyAlive` and `KeyReleased` for every number of
  keys, handles and contexts.  `RefsAccount` is the strengthening: the count of a live key is the number of
  its holders and of the references to it that asymcipher contexts have overwritten, so a context that drops its
  key leaves the count above zero as long as somebody else holds it.  `KeyReleased` is claimed of the keys
  that have lost no reference: those that have are never released (section 6).
  `ComingKept` says that a slot an operation is about to fill is empty, so that filling it adds one
  holder; emptying and filling a slot change the set of holders by one element of a finite set.
- `NativeProofs!CallbacksAreFound`: `RegisteredIsFound` for every number of threads, ids and
  callbacks.  The list needs two strengthenings: an id has one entry (`OneEntry`), which holds because what
  a writer found is still so when it links an entry in (`EntryRight`, from `LockKept`); and an id that was
  stored has a callback in some entry (`StoredIsThere`), which the search, by `FindsEntry`, then returns.
- `NativeProofs!AcceptedPathsAreUsed` and `LibrariesAreClosed`: `AcceptedIsUsed` and
  `HandlesBalanced` for every number of threads.  `OneLoads` says that one thread at most is between the
  beginning and the end of `pthread_once` and raises `started` before it looks at the configuration;
  `Followed` carries accepted paths from there to the handles and the symbols.  `OpenAccounts` counts the
  opens of a file by the owner flags, which the close clears.

Every module states its types (`TypeOK`); they are proved wherever a safety property is, the others hold on
the instances and take no place among the properties of the runs.

The assumptions are those of the modules' ASSUME: finite disjoint sets of threads, positive bounds.
`FirstAlone`, where a theorem has it, is a hypothesis about the program that uses the client: its first
request on a connection has its id before the second begins.  `TroublesApart` restricts what one engine of
the HTTP/1.1 client may meet, as the bullet above says.

Only model-checked:

- The liveness properties: fairness and ENABLED are out of the prover's reach.
- `NoUseAfterFree`, `NothingLost` and `SecretsWiped` of `NativeCalls`.  The module has no constants: its functions
  and the values of its choices are a fixed finite set, and the run goes through every path of every one of
  them, so that there is nothing left for a theorem to generalise.  Carrying out a script is besides
  recursion over a sequence, which the prover has no induction for.
- `NeverMisused` of `TlsStream`.  It depends on the limit of the buffers against what may wait in them, in the
  instance twelve places for records of two pieces; a theorem would have to assume a limit that is large enough.
- That the TLS stream implements two pipes (`StreamIsTwoPipes`).  The refinement compares what the peer has heard
  with the records written, by a selection over a sequence; what that computes is induction over data.

## 5. What is left

Not modelled, in the order of their weight:

1. HTTP/2 engine map, GOAWAY, settings, shutdown and hand-back of pooled streams, flow control.
2. The TLS socket's state machine and sessions above the stream; HTTP/1.1 server and upgrade; WebSocket;
   `ConcurrentRing` pools; string interning; loggers.
3. Of the native code, the data: padding of RSA signatures, DER, PEM, protocol lists.  These are
   conversions that tests compare with known values.
4. The native writer of syntax trees (`syntax/native`), a sequential conversion of the compiler's tree into
   a buffer, has no state that outlives a call.
5. Sequential protocols: JSON, zlib and tar streams, cookies.

Of what the runs check, the invariants that depend on more than a walk over a sequence are proved.  Worth
proving when the models above are extended: that `CountsBalance` of the server survives resets with
`activeClientRstStreamNum` in the sum, as the code means it to, and the refinement of `TlsStream`.

## 6. Known deviations

Shown by a run (findings in `PROJECT.json`): a failed request that blocks the write thread; the limit of
concurrent streams passed after a reset; `isUpgraded` kept by a pooled connection.

Reached by a model outside the runs: a connection stranded in the pool's queue (`ServicePool` with worker
timeouts: submit counts a worker that has timed out and is not yet removed; `Deserted` names the case), and two first requests of an HTTP/2
connection that get one id (`H2Client` with `FirstAlone = FALSE`: the compare-and-swap to 1 is followed by a
separate load).  A third concerns resets: `http_client2_0.cj:336` records "last sent max streamid" and line 407
says "cache headers, resend when previous header is sent", but the reset of a stream that is still Idle is
not written and counts as sent all the same (`parseFrame` returns true, lines 359-362), so that the
headers of the stream after it overtake those of the stream before: `InOrder` of `H2Client` is violated with three plain
requests, a limit of two and `Troubles = {{"reset"}}`, and `OpenedInOrder` excludes behaviours with resets.

Seen while modelling and left outside the properties, each a hazard or an exception named in a property:
a task added to the pool's queue after close; the client's limit tested with `>` and so one too high; a
stream of the client or the server whose two threads matched the same status and that stays mapped; a
Stream object recycled while in use; the reset of a stream of the client that overtakes its headers;
`close` of a response already read, which closes a connection that is back in the pool or somebody
else's; an upgrade taken over while its timer has won, or counted off twice together with `close` of
the engine (hence the negative lower bound of `connNum` in `Http1Client!TypeOK`).

In the native code, each an exception named in a property (`KnownReads`, `KnownLeaks`, `KnownUnwiped`, `KeyReleased`):

- objects lost when a later step fails: the method or cipher context of `CreateContext`, `CreateMethod` and
  `GetAllCipherSuites`, the certificate reference of `AlwaysAccepting`, a number in `KeylessImportRsa` and
  `KeylessRsaInvokeRemote`, the serial number of `CreateCert`, names and extensions that cannot be pushed
  (`AddName`, `ReqAddExtension`), the elements of the list in `GetX509ExtKeyUsage`;
- `KeylessAcFreectx` reads the context it has released when `CJ_KEYLESS_DEBUG` is set;
- `KeylessAcDecryptInit` and `KeylessAcEncryptInit` (`provider_asymcipher.c:336-337`, `597-598`) store the
  new key of a context over the earlier one without giving it up, as the signature inits do: a context
  that is initialised again loses a reference, and its earlier key is never released;
- `CJX509DecryptPrivateKey` leaves the password as it is when an argument is missing (`keys.c:584-594`), and
  `DYN_CJX509EncryptPrivateKey` when it has no place for the exception, although the comments (`keys.c:600-604`,
  `keys.c:518-520`) speak of every return path; `keys.cj` passes all arguments, so its users do not get there;
- `CJX509DecryptPrivateKey` (`keys.c:614`) releases the decrypted key unwiped when no buffer can be had, and
  `DecryptKey` leaves a copy of the key when its secure buffer cannot be allocated;
- `WipePrivateKeyData` is best effort, as its comment says (`keys.c:424-435`): keys that OpenSSL keeps to itself
  and types without accessors (the default branch, `keys.c:491-493`) are not wiped, and of an RSA key the
  exponents and the modulus are, the primes and what is computed from them not; `SecretsWiped` asks for no more
  than the function does;
- `opensslSymbols.c:383-397` says that a lookup asks the other library "provided the two handles are
  different"; `FindDlopenedFunction` asks it only when they are the same, so a symbol of libssl whose name
  does not begin like the others is found only because `dlsym` also searches dependencies.

Outside the models: a registration that reads `PROVIDER_CTX` while the provider is torn
down; a TLS reader that waits in `flush` behind a writer whose peer does not read; an end of file without
close_notify that `read` reports as the end of the stream.
