# A TLA+ model of caddy-openappsec

caddy-openappsec is a Caddy middleware that has every HTTP request inspected
by an open-appsec engine, a separate process, before it reaches the origin.
This directory holds TLA+ modules for the parts of it that share state, block,
fail or race, the TLC configurations that check them on small instances, and
TLAPS proofs of what matters most for every instance. `PROJECT.json` lists the
components, the runs, the lines of source behind each definition, the hazards
and the theorems. Paths below are relative to the repository.

To check: `tlc -config Ring.cfg RingSteps` (likewise for each run below), and
`tlapm SharedMemoryProofs.tla` (likewise for each `*Proofs` module).

## 1. Inventory

| Part | State | Operations | Talks to | What is hard | What makes it correct |
|---|---|---|---|---|---|
| Ring queue, `internal/transport/linux/ring.go` | positions, management entries, data segments in shared memory | `push`, `peek`, `pop` | the engine's process | wrap-around, skipped tails, messages of several segments; two processes without a lock | a FIFO queue of whole messages; unread data is never overwritten; calls look atomic |
| Shared-memory connection, `ring_linux.go`, `unix_linux.go` | mutex, comm socket, echo buffer, mappings | `Send`, `Signal`, `Recv`, `RecvQueued`, `Close` | ring, comm socket | the mutex is held over a blocking read; echoes arrive cut up; unmapping | each echo counted once; no use after unmap; a `Recv` leaves at its deadline |
| In-memory transport, `internal/transport/memory` | registry, listener queue, pair queues, one-place notifications, closed flags | `Listen`, `Dial`, `Accept`, `Send`, `Recv`, `Close` | mock engine | the waits start after the unlock | no lost wake-up; order; close wakes; a dialed pair is accepted |
| TCP transport, `internal/transport/socket` | mutexes, socket deadlines, watchdogs | `Send`, `Recv`, `Close` | peer | three deferred steps after the unlock share one deadline | frames stay whole; watchdogs end; close unblocks |
| Dialers and handshake, `internal/app/dialer*.go`, `handshake.go` | two connections per dial | `Dial`, `DialKeepAlive` | transports, engine | engine crash or silence, or the context's end, in each phase | nothing left open; ready means handshaked; ends |
| Engine connection, `internal/app/conn.go`, `policy.go`, `internal/protocol/session.go` | current connection, session ids, flow lock, receive lock | `SendRequest`, `SendResponse`, `send`, `reconnect`, `await`, `EndRequest` | transport, pool | concurrent sessions, reused ids, redials, crashes, the verdict budget | own verdict or none; unique ids; one session per ring; ends |
| Life cycle and keep-alive, `conn.go`, `keepalive.go` | keep-alive socket, ticker, back-off, stop channel | `keepAliveLoop`, `reconnect`, `Close` | dialer | `Close` against redials and keep-alives; the ticker against the engine's expiry | nothing leaks; `Close` returns; the engine does not forget the worker |
| Pool, `internal/app/pool.go` with `app.go`, `handler.go` | entry per address with a reference count | `Acquire`, `Release` | requests, handlers, applications | waits, failing dials, cancellations, reloads | nobody loses a connection in use; nothing leaks; waiters wake |
| Middleware, `internal/handler/handler.go`, `body.go` | per request | `Provision`, `ServeHTTP`, `forward` | policy, origin | two `fail_open` switches, engine outages, malformed addresses and overlong fields | condemned requests are blocked; the bytes are the client's; the engine saw the client's request |
| Configuration, `internal/config`, `internal/handler/caddyfile.go` | the handler's fields | Caddyfile and JSON parsing, `SetDefaults`, `Validate` | middleware, dialers | repeated options, sizes with units, values a frame cannot carry | only a valid configuration serves, with the values that were written |
| Codecs, `internal/protocol` | none | encoders and parsers of every frame | connection, engine | field widths and length prefixes | what is parsed is what was encoded |
| Response writer, `internal/handler/response.go`, `internal/body/response.go`, `recompress.go` | status, buffer, passthrough flags | `WriteHeader`, `Write`, `Flush`, `finalize` | origin, net/http | the switch from buffering to streaming, calls in any order | no byte lost, but by a late `WriteHeader`; cap; status and length |
| Mock engine, `internal/mock` | connections, down flag, scripts | accept loop, `handleConn`, `dispatch`, `SetEngineDown` | transports | down while accepting | no served connection survives it |
| Commands, platform stub, body helpers | none that is shared | | | | not modelled, section 7 |

A request runs through the parts in this order: the middleware buffers the body
and asks the policy; the policy acquires the pooled connection, which the pool
dials if it is the first user; the session writes its frames, rings the
doorbell on the shared-memory transport and waits; the middleware enforces the
verdict and forwards; the response writer passes the origin's answer on. The
keep-alive goroutine, redials, cancelled clients, configuration reloads and
engine crashes happen at any time in between.

## 2. Modules

| Module | Models | State and actions against the code |
|---|---|---|
| `MessageQueue` | abstract: what a one-way queue promises | `Put` and `Get` of whole messages |
| `RingQueue` | `ring.go` | `mgmt`, `data`, `readPos`, `writePos` are the header and segments; `Push`, `Peek` and `Recv` (peek, copy, pop) are one call each |
| `RingSteps` | `ring.go` as two processes run it | `mem` is the shared memory; `stores` are the stores a push has still to make, `rd` the receiver's place and locals; the variables of `RingQueue` are carried along and step when push stores the write position and when pop has looked behind its message |
| `VerdictFlow`, `MCVerdictFlow` | `conn.go`, `policy.go`, `session.go`, mock `serve.go` | `pc` is the line a session stands at; `cur` is `Conn.conn`, `held` the snapshot a call took of it; `flow` and `recvMu` are the locks; `up`, `down`, `signals`, `echoes` are what is under way on each connection; a ring takes `RingSize` frames, and a frame waits for `HasRoom` as `Send` polls for it, flow lock in hand |
| `ConnPool` | `pool.go` and its users | `entry` is what the map holds for the address; the entry objects outlive it, as in Go; a request comes back, a handler or application is one instance and acquires with a registration timeout (`Timed`) |
| `ConnLifecycle` | `Conn` as an object, `keepalive.go` | `loop` is the keep-alive goroutine, `redial` and `closer` the callers; `open` the sockets of the process; `due` and `ticked` are the timer or ticker, `silence` how long the engine has not heard of the worker, all in units that `TimePasses` counts |
| `RingConn` | `ringConn` | `mu`, `echoBuf`, `closed` by name; a ring is a count. `queued()`, which nothing calls, is left out; the doorbell's write always finds room on the socket, since the ring fills first |
| `MemoryPipe` | one direction of `memory.Conn` | one step per critical section |
| `MemoryEngine` | the mock engine over the in-memory listener, composed with `MemoryPipe` | `registry`, `pending`, `shut`, `bell` are the registry and the listener; `loop` is the accept loop with the connection in its hands; `life` and `doomed` are how far `SetEngineDown` got; the connection `Main` is the pipe, from attachment to handler |
| `SocketConn` | one direction of `socket.conn`, either way | one step per blocking or deferred operation, the watchdog goroutine apart; a frame moves in three units, two of header and one of payload, and a call may fail at each; the peer may leave, and a frame may be over the maximum |
| `Handshake` | dialers | one step per `Dial`, `Send`, `Recv`, `OpenRing`, on the transport the configuration chose |
| `Wire` | `protocol/frame.go` | a frame is a sequence of digits to the base `Base`; a layout is a list of fields with their widths; `Encode` cuts a number to its width, `Read` fails at the end of the frame as the cursor does |
| `Frames` | `protocol/*.go`, mock `frame.go` | one layout per frame, `ParseVerdict` and the web responses with their error returns, `classify` |
| `Configuration` | `internal/config`, `caddyfile.go` | a source is a list of lines; `LineFails`, `Parsed`, `SetDefaults`, `Valid` |
| `Inspection`, `MCInspection` | `ServeHTTP`, `Provision`, fail-open policy | `pc` is the stage of one request, `config` the handler's fields, `seen` what the engine has parsed out of the frames, `said` its verdict and `verdict` what the handler got of it |
| `ResponseWriter` | `responseWriter` over `ResponseBuffer` | `WriteHeader`, `Write` and `Flush` come in any order and number, with informational statuses too; bytes are numbered; the client's view is `sentStatus`, `sentLength`, `wire`; `meant` and `abandoned` are histories of the last final status that could be sent and of what a late `WriteHeader` left behind |
| `*Proofs` | theorems of `RingQueue` and `RingConn` (`SharedMemoryProofs`), `MemoryEngine` with its `MemoryPipe` and `SocketConn` (`TransportProofs`), `VerdictFlow`, `ConnPool`, `ConnLifecycle`, `Handshake`, `ResponseWriter`, and of `Inspection` with `Configuration`, `Frames` and `Wire` (`InspectionProofs`) | section 5 |

The engine is another program. On the memory and socket transports the models
use the mock of `internal/mock`; on the shared-memory transport the engine is
external and does what `docs/attachment-protocol.md` and the code that talks to
it expect: a doorbell makes it drain the ring and answer the frames of the
session that rang. It may crash, restart, hang or never answer.

Definitions whose comment says "mutant" are not part of the specifications:
each is a plausible slip in the code, kept to show that the property named for
it in `PROJECT.json` notices.

## 3. Runs

| Run | Shows | Bounds and why they are enough |
|---|---|---|
| `Ring` | load by load and store by store: what the receiver gets is explained by whole calls one after the other (`CallsLookAtomic`), which implement `MessageQueue` (`RingIsQueue`), keep unread segments (`UnreadPreserved`) and put sizes only on first segments (`HeadIsMessageStart`); every message comes back (`EveryMessageReturned`) | 6 segments, messages of one and two segments, at most 2 unread (one transaction), 6 in all: positions wrap twice, tails are skipped with and without unread messages in front |
| `RingOverrun` (violation) | `push` overwrites unread segments once more than a transaction is queued | 5 segments |
| `Flow` | concurrent sessions: `UniqueSessions`, `OneSessionPerRing`, `VerdictIsOwn`, `HealthyEngineAnswers`, `EverySessionEnds` | seven deployments: two sessions on shared memory with a sufficient and an arbitrary budget, an oversized body and a response inspection, on a socket and in memory, with one crash and restart, and once with a ring of 4 frames, less than two transactions; three sessions with the engine gone. Two sessions are what a stolen frame or a kept lock needs, three a reused id |
| `Pool` | `InUseIsOpen`, `NoOrphan`, `AcquireReturns` with a request, a handler and an application, failing dials, a cancelled request, `Stop` called twice | two requests, one to dial and one to wait, a handler and an application; two entry objects: the one in the map and one being closed or still held by a waiter (the proofs cover any number) |
| `LifeTeardown` | two `Close`, two redials and the keep-alive loop: `NothingLeftOpen`, `OpenIsOwned`, `CloseReturns`; the engine hears of the worker before it forgets it (`RegistrationKept`) | one crash, back-off from 1 to 3 units (it reaches its cap), an interval of 2 units against an expiry of 3: the smallest in which a late tick would show |
| `RingConnShared` | two senders, two receivers and `Close`: `EchoConsumedOnce`, `NoUseAfterUnmap`, `DeadlineEndsAll` | a ring of one message (so that it fills), echoes of two bytes (so that they split); the receivers have deadlines, the senders none |
| `MemoryEngine` | two clients, an engine that accepts, serves, hangs up and goes down: `WaiterIsWoken`, `RecvReturns`, `NoServedConnEscapes`, `DialedIsAccepted`, refinement `PipeIsQueue` | two sends and two dials outnumber the one-place notifications; one engine, since a successor shares with it no more than the registry entry that it waits for |
| `SocketClose` | two calls, one with a deadline, both cancellable, `Close`: `WatchdogEndsWithCall`, `FrameAligned`, `CloseUnblocks` | two calls are what sharing a deadline takes; both directions, a peer that leaves, frames over the maximum; at most two units of room at a time, so that a call blocks inside every frame |
| `Handshake` | two dials, one with a deadline, one cancellable, on each transport: `NothingLeftBehind`, `ReadyIsHandshaked`, `DialEnds` | one crash, silence, every kind of reply |
| `InspectRequests` | every mode, switch, body, verdict and outage, with every frame encoded and parsed: `CondemnedIsBlocked`, `UninspectedOnlyIfOpen`, `OriginalBytes`, `InspectedIsSent`, `ServesWhatIsConfigured` | bytes of 12 values (`Base`; worker ids below 100, `Decimal`), so that a text of 144 bytes overflows a two-byte length and one of 12 a one-byte length; addresses with, without and with a bad port; all verdict kinds and web responses; two outages: one while provisioning and one while waiting; configurations with repeated, missing, unknown and overlong values |
| `InspectFailClosed` (violation) | with `fail_open false` on the handler alone, requests are forwarded uninspected while the engine is down | |
| `ResponsePass` | `NoOtherByteLost`, `BufferBounded`, `StatusPreserved`, `LengthMatches` with `WriteHeader`, `Write` and `Flush` in any order | a cap of 3, writes of 0 to 4 bytes, up to 7 bytes: below, at and above the cap in every split; an informational and two final statuses, so that one can displace another |

Deadlock is checked in `Flow`; the others switch it off because the system may
stop there: all calls have returned, the bounds on sends, dials or crashes are
used up, or nobody is obliged to call again.

### Fairness

* `Ring`: both processes keep running inside their calls and the reader keeps
  polling; nobody is obliged to start a push.
* `Flow`: every goroutine that can run does, and the timer of the verdict
  budget fires (`Owed`). A client need not cancel and a redial need not end,
  since it has no deadline. The engine is owed nothing: it may crash for good,
  leave the ring full, or never answer.
* `Pool`: a goroutine whose wait is over runs, and a user with a registration
  timeout (handler, application) gets out of its dial or wait when it passes.
  Nothing is assumed of a request's dial, which has no deadline, nor of
  `Conn.Close`. Nobody has to acquire or release.
* `LifeTeardown`: goroutines run; the stop channel is strongly fair, because
  Go's `select` picks among ready cases at random and does not pass one over
  for ever.
* `RingConnShared`, `SocketClose`: goroutines run and a mutex is not withheld
  for ever (`sync.Mutex` hands over to a starving waiter), hence strong fairness
  per caller. In `RingConnShared` the contexts of receivers have a deadline, as
  `FailOpenPolicy.await` gives them, and it passes; `Send` and `Signal` run under
  the request's context, which has none.
* `MemoryEngine`, `Handshake`: a goroutine inside a call keeps running; a
  deadline passes; nobody has to cancel.

## 4. Where code and documents part

Two runs end in a counterexample, and their findings quote the sentences:

* `RingOverrun`: `enoughMemory` moves the read position by a whole array when
  the message reaches the end of it, also when the write position is below the
  read position, and accepts messages that do not fit.
* `InspectFailClosed`: the handler's `fail_open` never reaches the policy,
  which reads `engine.fail_open`, true by default.

Other behaviours met while modelling follow. Where a model has one, a property
that it would break excludes it by the condition named here; where no condition
is named, no property is about it:

* Flow (`Orderly`): an id whose session timed out is handed out again and its
  late verdict then matches the next session (`session.go:29`). Two sessions on
  one memory or socket connection drop each other's frames (`policy.go:193`; the
  comment at `conn.go:74` says recvMu prevents it). Response inspections on
  shared memory ring no doorbell (`conn.go:350`;
  `docs/attachment-protocol.md:530-532`). After an engine restart a push into
  shared memory still succeeds, so `send` does not redial (`conn.go:275`;
  `docs/integration.md:494-498`). A redial in the middle of a transaction leaves
  its first frames behind.
* Flow (`Hangs`): a request's context has no deadline before `await` gives it
  one. `Send` polls a full ring for as long as nobody drains it
  (`ring_linux.go:183-206`), with the flow lock held, and a redial waits in the
  handshake for as long as the engine is silent (`conn.go:164`,
  `unix_linux.go:100-134`). The sessions behind wait for the flow lock. The
  comment in `policy.go` bounds only the wait for the verdict; so
  `EverySessionEnds` is about sessions that do not hang there for ever.
* Pool (`stray`): a handler whose `Provision` failed, and an application whose
  `Cleanup` stops it a second time, release a reference they do not have, and
  may close the connection under others (`handler.go:166`, `app.go:79`). A
  cancelled last waiter leaves the entry in the map at zero references with its
  connection open (`pool.go:76`), where the next `Acquire` finds it; hence
  `NoOrphan` asks no more than that. The shared dial runs under the first
  caller's context: if that is a request's (`policy.go:66`, `pool.go:53`), it
  may never end at a silent engine, and the requests that wait for it hang with
  it (`MayHang` in `AcquireReturns`).
* Response (`abandoned`): `WriteHeader` is accepted until the header is out,
  also after a `Write` that was buffered. For an event stream or a
  Content-Length over the cap it then switches to passing through and sends the
  header, but not what is in the buffer (`response.go:50-61`), and `finalize`
  adds nothing (`110-112`): those bytes are lost, against "so no bytes are lost"
  (`64-66`), and the length that was declared is wrong. `NoOtherByteLost` is
  about the bytes other than these.
* Response (`meant`): of several `WriteHeader` calls the last wins, where
  net/http keeps the first. An informational status counts as the status: it
  displaces a final one that was recorded, and in a stream it sets `wroteHeader`
  and swallows the final one, so that the client gets 200 (`46-49`, `58-60`).
* Response (`early`): `Flush` on a response that is still buffered makes
  net/http send 200. An event stream written without `WriteHeader` is buffered.
* Inspection: learn mode still applies injections, where `handler.go:37-38` and
  `config/handler.go:46-47` say that verdicts are only logged
  (`InjectedInLearnMode`, excluded in `OriginalBytes`); `Content-Length` stays
  the client's after a body injection; an unreadable body is forwarded (`broken`
  in `UninspectedOnlyIfOpen`). A `RemoteAddr` without a port is sent as it is,
  where the comment of `remoteIP` promises the loopback address. Headers are
  sent in the random order of a Go map, where the comment says sorted. The
  status and body of a CUSTOM_RESPONSE are ignored by `writeBlock`, which sends
  the configured page, where `verdict.go:14-17`, `README.md:15` and the
  attachment protocol say that the client gets the verdict's own response;
  `CondemnedIsBlocked` asks that such a request is blocked and says nothing of
  the content. The `custom_headers` are attached to nothing (`README.md:123`
  says they are). A DELAYED verdict is final. A string of 64 KiB or more has its
  length cut off and garbles its frame (`RequestFits` in `InspectedIsSent`), and
  a body is one chunk, so that on shared memory one above 0xfffc bytes is never
  inspected although `body_buffer_limit` is 10 MiB by default. A DROP whose web
  response does not parse is no verdict, and the request falls to the fail-open
  switch.
* Configuration: `Validate` bounds neither `worker_id` nor the length of
  `family_name`, which the registration frame cuts to a byte; the engine then
  refuses the second phase, and `Provision` or the requests fail. The keep-alive
  frame carries `worker_id`, the registration `worker_id + 1`.
* Socket (`torn`): a call cut off inside a header, or between header and
  payload, leaves part of a frame, and the next call goes on behind it. The
  deferred unlock runs before the deadline is cleared, so the next call may meet
  a foreign deadline, or lose its own.
* Life cycle (`hung`): a keep-alive `Send` has no deadline, and `Close` waits
  for it. The first retry waits twice the minimum. The default keep-alive
  interval of 300 s equals the engine's expiry, although `config.go:23-26` says
  it must stay below; `RegistrationKept` assumes that it does. After an engine
  restart the first ticks go into the dead socket, and the registration may
  lapse before the loop has redialed.
* Policy: the comment on the verdict budget computes 20 x 150 ms = 3 s; the
  defaults are 15 times 3000 ms.
* Pool: the process-global pool keeps its first caller's configuration and
  dialer (`pool.go:131-141`). It is "keyed by registration address"
  (`docs/integration.md:54-55`), but a reload with another address dials the
  first one under the new key.
* Shared-memory connection: `Close` waits for the mutex of a blocked `Recv`, and
  only the caller's deadline ends that. A `Send` under a request's context polls
  a full ring without end (`Polls` in `DeadlineEndsAll`); it lets go of the
  mutex between polls, so `Close` gets its turn all the same.
* Handshake: a dial made for a request has no deadline; `unixConn.Recv` heeds
  deadlines and not cancellation (excluded in `DialEnds`); when `OpenRing` fails
  nobody closes the comm connection (place `"noring"`).
* Pipe: with two receivers, two sends leave one notification and one receiver
  sleeps beside a queued payload. `Conn.recvMu` keeps it to one.
* Mock engine: closing the listener leaves the pairs open that were dialed and
  never accepted, where `SetEngineDown` says it "closes every live connection"
  (`engine.go:132-133`); their clients wait until their own deadline.
  `NoServedConnEscapes` and `DialedIsAccepted` are worded accordingly. Both
  REQUEST_START and REQUEST_END take a scripted verdict from the queue, where
  `SetNextVerdict` says REQUEST_START.
* Ring: a message longer than half the ring may be refused by an empty ring, and
  since only a push moves the write position, for good; the theorem
  `EmptyRingTakesMessages` is about messages up to that. While a push that wraps
  has written its skip marks and not its write position, a pop that frees the
  last message takes the marks for the tail behind it and moves the read
  position past the write position (`ring.go:299`; `overtaken` in `RingSteps`).

## 5. Proofs

Each holds for every value of the constants that satisfies the module's named
assumption.

* `SharedMemoryProofs`, from `RingAssumption` (sizes are positive and below the
  two magic values). `RingTypeCorrect`: positions stay in the array and entries
  are sizes or magic values, in a ring of any geometry. It rests on
  `SkipEndExists`, the run of skip entries that `peek` walks ends at the array's
  end at the latest, and on `PushStaysInArray`. `HeadsAreMessageStarts`: a size
  entry is on a first segment, overruns included; inductive together with the
  types, because `push` marks continuations in the same call.
  `OneSegmentNeverOverruns`: when every message fits one segment, `push` leaves
  unread segments alone; the lemma `RoomIsFree` isolates the condition under
  which `enoughMemory` is right. `OneSegmentNeverCorrupt`: then no operation
  reports corruption and freed segments are marked free. Its invariant
  `OneSegmentInv` adds that unread segments hold sizes, since the entry at the
  read position has to be one. `EmptyRingTakesMessages`: an empty ring accepts
  any message of at most half its segments. From `RingConnAssumption`, about the
  connection over the rings: `EchoesAreConsumedOnce`: the bytes on the socket
  and in `echoBuf` are what the engine has written less what was consumed
  (`StreamInv`), for every echo length and every split.
  `UnmappedRingsAreLeftAlone`: an action property; `LockInv` says that whoever
  reads echoes and pops holds the mutex, `CloseInv` that the rings are unmapped
  only behind the flag that is set under it.
* `VerdictFlowProofs`, from `FlowAssumption`. `SessionsAreUnique` and
  `FlowLockExcludes`, for any number of sessions, transport, budget and crashes.
  `UniqueSessions` is not inductive: `Reclaim` could hand out an id in use.
  `SessionInv` adds that ids are odd and below the counter while in use, so
  taking back the id just below the counter uncovers nothing.
  `VerdictsAreOwn` and `HealthyEngineIsHeard` are about the shared-memory
  transport with a sufficient budget (`Orderly`), for any number of requests,
  oversized bodies, crashes and restarts. Since a session gives its id back
  before the next begins, all of them carry id 3, and ids keep nothing apart;
  what does is that nothing of one session is left when the next begins.
  `OrderlyInv` says so, and how far the exchange is at every line: `Written`
  (the ring holds what has left `todo`), `Rung` (the doorbell is under way),
  `Answered` (the answers are there with their echo, the final verdict last and
  only last), `Clean`. Failure is harmless for two reasons the invariant names:
  an oversized body makes the session redial before it fails, and the fresh
  ring is empty (`RedialKeeps`); a crash leaves answers only on a dead
  connection, on which no later session gets past its doorbell. That the
  budget does not run out follows from the same facts (`GiveUpKeeps`).
* `ConnPoolProofs`. `UsersKeepTheirConn`: for any number of users, while every
  release gives back something acquired, a connection in use is open and the
  one in the map. `PoolInv` says that the reference count of the entry is the
  number of users that dial, wait or hold it (`Counted`), and where each user
  may point; without the count the last release could not be recognised.
  `NoConnIsLost`: no open connection is outside the map with nobody to close
  it. `OrphanInv` says that an open connection is that of the entry in the map
  or in the hands of a user that closes it (`Held`); it is inductive together
  with `PoolInv`, which says that a failing dial has nothing open to lose.
* `TransportProofs`, from `PipeAssumption` and `EngineAssumption`.
  `OneReceiverIsWoken`: with one receiver no wake-up is lost, for any number of
  senders; `WaiterIsWoken` with the types is inductive then.
  `PipeImplementsQueue`: the pipe implements `MessageQueue`, each step being a
  `Put`, a `Get` or a stutter (`PipeStepIsQueueStep`). Every step of the
  composition is a step of the pipe or leaves it alone (`EngineStepIsPipeStep`),
  so it inherits both (`HandlerIsWoken`, `EngineReadsQueue`).
  `DownEngineServesNobody`: for any number of clients and engines no served
  connection is open once `SetEngineDown` has returned. `NoServedConnEscapes`
  speaks of the end alone; `EngineInv` says where an open served connection is
  before it: in `conns` while the engine is up, then in the snapshot that is
  still to be closed, and that the accept loop holds only connections of its own
  engine. On TCP, from `SocketAssumption`: `WatchdogsEndWithTheirCalls` and
  `FramesStayAligned`, for any number of calls, deadlines and cancellations.
  `SocketInv` says that the mutex belongs to the one call that is between its
  lock and its unlock (`MutexInv`), that a call has no watchdog before it arms
  one (`WatchdogInv`), and that the stream is one or two thirds into a frame
  exactly while a call is inside its header or at its payload (`FrameInv`):
  alignment at the start of one call alone says nothing about the next.
* `ConnLifecycleProofs`, from `LifecycleAssumption`. `ConnectionsAreOwned` and
  `CloseLeavesNothingOpen`, for any number of redials and closes. `OwnInv` says
  which of `Conn.conn`, the keep-alive loop and the redials in progress owns
  each open connection (`Owned`) and that none has two owners (`Distinct`):
  without the second, closing the replaced connection could close another's.
  `WorkerIsRemembered`, for every interval below the expiry: the silence and
  what is left to the next tick never exceed one interval (`OnTime`), because
  each tick finds the loop waiting and its keep-alive goes out before the next.
  Its hypothesis `BoundsSuffice` concerns the model's bounds alone: they leave
  every redial its dial and the loop its attempt. `LifeTeardown` satisfies it.
* `HandshakeProofs`. `FailedDialLeavesNothing` and `ReadyDialIsHandshaked`, for
  any number of dials on every transport. `DialInv` ties the place of each dial
  to the connection it has open (`ConnInv`) and to the frames the engine has
  answered on it (`ServedInv`).
* `ResponseWriterProofs`. `NoOtherByteIsLost`, `BufferStaysBounded`,
  `StatusIsPreserved` and `LengthIsRight`, for every limit, status and split and
  for the calls in every order. What they leave out is what section 4 lists:
  bytes abandoned by a late `WriteHeader` (and the length then declared), and
  final statuses displaced by an informational one or by an early `Flush`.
  `WriterInv` says what each mode implies for header, buffer and wire
  (`ModeInv`), and where the bytes are: a response that is buffered has an empty
  wire and all of its bytes in the buffer, one that is passed through has them
  all on the wire but for an abandoned prefix, so that moving from one to the
  other keeps the order (`ByteInv`, with the lemmas `BytesJoin` and `CutJoins`
  about runs of numbered bytes).
* `InspectionProofs`, from `BaseAssumption`, `MaxIntAssumption` and
  `InspectionAssumption`, which says that requests, verdicts and accepted lines
  have the types of the Go structs (`IsRequest`, `IsVerdict`, `IsSource`): for
  every configuration, request, verdict and schedule of outages.
  `CondemnedNeverPass` and `OnlyOpenHandlersForward` rest on `PostureInv`, which
  ties each place of the handler to the verdict it holds and to what the engine
  said: a request is forwarded only with a verdict that the engine gave, one
  that the policy made up, or none because the handler fails open.
  `CondemnedNeverPass` asks for the configured page after a DROP only.
  `OriginGetsOriginalBytes`, which leaves out an INJECT in learn mode, adds
  `BytesInv` (the body is the client's until the injections are applied),
  `ServedAsConfigured` has `ConfigInv` (a handler that was provisioned serves
  the source, defaulted, and past `Validate`). `EngineSeesTheRequest` has
  `SeenInv`: from the session's opening on, what the engine has parsed is the
  request that is being served, its headers in one order, its body and its end.
  All of them need to know what a frame is when it has been parsed. `ReadBack`:
  a layout reads back every message whose numbers fit their fields, wherever it
  stands in a frame; it is proved field by field from `NumberBack` (the digits
  of a number that fits are its digits) and `Taken`. From it, whatever the
  verdict, kind and session id survive (`HeadSurvives`); a DROP within its sizes
  keeps its page (`PageSurvives`) and an INJECT its injections
  (`InjectionsSurvive`); and the registration frames keep the name the engine
  compares (`EngineRecognises`). The engine tries every parser of a request on
  every frame; a parser gets the data type a frame begins with whatever its own
  layout is (`TypeRead`), so each takes only its own frames (`OwnParser`). Its
  own it gives back whole (`StartHeard`, `BulkHeard`, `BodyHeard`, `EndHeard`):
  a text either fits by assumption or because it is inside a frame that the ring
  took (`TextInside`). `SentIsHeard` puts the transaction together from them.
  The recursive functions of `Wire` are unfolded with `SetInduction`, an
  induction over subsets of `Nat`, which a prover can instantiate where it
  cannot instantiate an operator.

Left to TLC: everything under fairness (`EveryMessageReturned`,
`EverySessionEnds`, `AcquireReturns`, `CloseReturns`, `DialEnds`,
`DialedIsAccepted` and the like), since the prover does no liveness and no
`ENABLED`; and the refinement `RingIsQueue` and `CallsLookAtomic`, whose argument
is about every sequence of stores.

## 6. Plan

Done, in this order: ring queue; verdict flow; pool; response writer;
middleware; in-memory pipe; TCP connection; life cycle; shared-memory
connection; handshake; the ring store by store; codecs and configuration with
the middleware; the keep-alive clock; the in-memory listener with the mock
engine; the proofs of section 5.

Next:

1. Proofs: `CallsLookAtomic` and `RingIsQueue` for one-segment messages.
2. Session ids modulo 2^32, with `SessionInv` over a window of ids.
3. A composition of pool, life cycle and verdict flow: a `Release` that closes
   while a session is in flight; several addresses in one pool.
4. The TCP listener.

## 7. Not modelled

The chunker, the decompressor and `inspectBody` (no caller in the request
path), `Pool.Close` (called by tests only), the platform stub (a dialer that
always fails, which is a case of the others), the TCP listener (a thin wrapper
of `net.Listener`), commands and test harness, logging and metrics, the
Caddyfile lexer and Caddy's module life cycle beyond Provision, Start, Stop and
Cleanup, and from the mock engine its scripted verdicts and frame records.
