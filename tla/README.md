# Formal models of the UseKotlin trading client

The repository is an Android client for a brokerage: screens for login, quotes,
orders and queries (`src/app`), a protocol client with encryption and sessions
(`src/trade`), and a long-connection socket library
(`src/socket-client`, `src/socket-common-interface`, `src/socket-core`). This
directory holds TLA+ models of the parts whose correctness depends on the order
in which threads, callbacks and packets happen to come, or on arithmetic at the
boundaries of buffers, TLC configurations that check them on small instances, and
proofs for all instances.

Paths below are shortened: `SC` is
`src/socket-client/src/main/java/com/xuhao/didi/socket/client`, `SI`
`src/socket-common-interface/src/main/java/com/xuhao/didi/socket/common/interfaces`,
`CO` `src/socket-core/src/main/java/com/xuhao/didi/core`, `TR`
`src/trade/src/main/java/com/ez08/trade`, `CPP` `src/trade/src/main/cpp`, `APP`
`src/app/src/main/java/com/god/kotlin`.

## 1. Inventory

| Component | State | Operations | What is hard | What makes it correct |
|---|---|---|---|---|
| **AbsLoopThread** (`SI/basic`) | `thread`, `isStop`, `isShutdown`, `ioException` | `start`, `shutdown`, `shutdown(e)`, `run` | several live java threads run one object's `run()`; `run()` is not synchronized | fields agree; a stopped object runs out of threads; `isShutdown` cannot stay false |
| **ConnectionManagerImpl** (`SC/impl/client`) | socket, handler, IO manager, connect thread, `isConnectionPermitted`, `isDisconnecting` | `connect`, connect thread, `disconnect(e)`, disconnect thread, `isConnect` | connect, disconnect, network and reconnect threads share plain fields | one socket at a time, none forgotten; each attempt answered; each loss announced once, after closing |
| **IOThreadManager, Duplex threads** (`SC/impl/client/iothreads`) | reader, writer, streams | `startEngine`, `close(e)`, start and shutdown callbacks | either thread may die first, before the other has started | both end once closed; the end of one connection never ends the next |
| **ActionDispatcher, ActionHandler** (`SC/impl/client/action`) | listener list and its lock, main-looper queue | `registerReceiver`, `unRegisterReceiver`, `sendBroadcast`, dispatch | listeners run while the list is locked and call back into the manager | no wait cycle; every posted callback ends |
| **Reconnect managers** (`SC/sdk/client/connection`) | `mDetach`, failure counter, loop | `attach`, `detach`, three callbacks, the loop | tests before locks; restart of a loop that is winding down | keeps trying until detached; not after |
| **PulseManager** (`SC/impl/client`) | loop, lose counter, dead flag | `pulse`, `feed`, `trigger`, `dead` | answers and ticks race; restart as above | a dead peer is noticed; a live one is not disconnected |
| **ReaderImpl, WriterImpl** (`CO/iocore`) | `mRemainingBuf`, `mQueue` | `read`, `offer`, `write` | packet boundaries inside reads; end of stream | packets whole, once, in order |
| **ManagerHolder, OkSocket** (`SC/impl/client`) | managers by address | `getConnection`, address switch | cache with replacement | one manager per address |
| **Client** (`TR/net/Client.java`) | `state`, `sessionId`, `aesKey`, `loginCallback`, `mRequestTable` | `connect`, `send`, `sendBiz`, `logout`, `throwException`, five socket callbacks | session outlives the connection, key and login do not | state and key are those of the connection; sessions resumed; requests answered |
| **Login and navigation screens** (`APP`) | activity stack, verification code asked for | listeners, jumps, back, login, reset | several screens listen at once, a finishing one included | a login screen gets its code |
| **Order batches** (`APP/trade/SellViewModel.kt`, `IpoViewModel.kt`, `TradeSeveralView1.kt`) | `total`, `temp`, `collection`, result | split, collect | answers synchronous or late, overlapping batches, a break in the middle | a report has each order of its batch once |
| **Trade screens and quotes** (`APP/trade`) | selected stock, price, quantity, largest quantity, busy dialog, confirmation | search, quote, submit, confirm | answers for an earlier selection; fields read when the dialog is answered | what is shown belongs to the selection; what is ordered was confirmed |
| **Packet formats** (`TR/net`) | `AbsResponse.body` | decode, decrypt, decompress | the key of one connection, the answer of another | the body is what the server sent |
| **Crypto and compression** (`CPP`) | static private half of the key | AES, CBC, key exchange, CompressGZ, UnCompressGZ | in-place decryption, last blocks, windows of the input | decryption inverts encryption, decompression inverts compression |
| **Repository and queries** (`APP/data`, `APP/query`, `APP/transfer`) | none | one request and one parse per query | - | - |
| **Widgets, options, text parsing, preferences, superseded protocol code** | - | - | - | - |

How they interact. A screen calls `Client` on the main thread. `Client` sends
through the connection manager, whose writer thread encodes; the reader thread
decodes and posts to the main looper, where `ActionDispatcher` calls the
listeners: `Client`'s adapter (which calls the screens' listeners), the
`ActionHandler` of the connection, the reconnect manager. The last two call
`disconnect(e)` and `connect()` on the manager again. `Client`'s adapter starts and
feeds the heartbeat, takes the key of the connection from the native library, and
has `AbsResponse` decrypt and decompress every answer before the callback of the
request, which is a method of a view model, gets it.

## 2. Modules

| Module | Models | Uses |
|---|---|---|
| `LoopThread` | `AbsLoopThread`: one loop object, many threads | - |
| `LoopThread_proofs` | its safety for all constants | `LoopThread` |
| `ListenerPromise` | what `ISocketActionListener` promises: connected, lost, connected, lost | - |
| `Connection` | manager, connect, disconnect and IO threads, handlers, looper, reconnect manager | `LoopThread` for the reconnect loops, implements `ListenerPromise` |
| `Connection_proofs` | its types, what an attempt reports of itself and who may interfere with a disconnect, for all constants and any timing | `Connection` |
| `TradeClient` | `Client.java`, the activities, the server as seen on the wire | relies on the order `ListenerPromise` gives |
| `TradeClient_proofs` | its types for all constants | `TradeClient` |
| `PacketChannel`, `PacketChannel_proofs` | a FIFO channel of whole packets, and its safety | - |
| `PacketStream` | `WriterImpl` and `ReaderImpl` on a byte stream | implements `PacketChannel` |
| `PacketStream_proofs` | that it does, for all constants | `PacketStream` |
| `Pulse` | `PulseManager`, its loop, the manager methods around it, the callbacks that start and feed it | `LoopThread`, one instance a heartbeat |
| `Pulse_proofs` | its types and `DiesOnlyUnfed` for all constants | `Pulse` |
| `OrderPage` | the pages that place orders and their view models, over the request table of `Client` | - |
| `OrderPage_proofs` | its five properties for all constants | `OrderPage` |
| `Bytes`, `Aes` | words of bytes; `aes_x86core.c` from its tables to whole blocks | `Aes` uses `Bytes` |
| `Rijndael` | the standard's definition of the cipher, the reference for `Aes`; nothing in it is code | `Bytes` |
| `Cbc` | `AES_cbc128_encrypt` and `AES_cbc128_decrypt` a block at a time, the cipher a parameter | - |
| `Gzip` | `ZlibDll.cpp`: compression and decompression a window at a time, over a small model of zlib | - |
| `KeyExchange` | `GenerateKey.cpp` and the entry points of `native-jni.cpp` that use it | - |
| `Response` | a reply from the server's text to `AbsResponse.body`, over several connections | composes `Cbc`, `Gzip`, `KeyExchange` |
| `Response_proofs` | the properties of `Response` and of `Cbc` on its own for all constants, and what `KeyExchange` and `Gzip` compute | `Response` |
| `MC*` | the constants of the runs; `MCResponse` puts `Aes` in the place of the cipher | |

### State and actions against the code

**LoopThread.** `thread`, `isStop`, `isShutdown`, `ioException` are the fields;
`phase` is the place of each java thread in `run()`. `start()` and `shutdown()`
hold the object's monitor: one step each. `run()` takes a step per shared access:
`Enter`, `TestStop`, the body returning or throwing, `MarkShutdown`, `Finish`.
`SeeShutdown`/`GuardedStart` is the "if (isShutdown()) start()" of
`DefaultReconnectManager` and `PulseManager`, two steps as the flag is read
outside the monitor.

**Connection.** `m` holds the fields of `ConnectionManagerImpl`; `conn`, `io`,
`disc` are the threads of attempts, connections and disconnects, `hd` the
`ActionHandler`s, `rm` and the loop variables the reconnect managers, `queue` and
`main` the main looper. Every access to a shared field is a step. `connect()` is
`synchronized` and touches the listener list in the middle, so it is a sequence of
steps (`call.at`) during which the manager's monitor is held; the looper holds the
list's monitor from `Dispatch` to the end of the last listener. Three points of
the code that the model relies on:

- `DefaultReconnectManager.equals` compares classes, so whichever reconnect
  manager is registered is "the" one: registering a second is a no-op and
  unregistering removes whichever is there.
- `attach()` of a detached manager detaches it first, which then unregisters
  nothing more; it is merged into `ConnectAttach`.
- A field is read and then called (`mSocket.connect`, `mManager.close`); the two
  are one step.

`Conns` are recycled once nothing refers to them (`Free`), so behaviours are
unbounded although the set has two members.

**TradeClient.** `client` holds the fields of `Client`, `ui` the activity stack as
far as the listeners see it, `link` the connection, `up` and `down` packets on the
wire, `inbox` the callbacks posted. A handler is a function on the part of the
state it changes, composed as the Java calls are (`Logout` is `ThrowException` is
`Disconnect`), so one `Dispatch` is one whole callback with every listener it
reaches. A finished activity stays registered until it is destroyed (`ui.gone`).
The server is external: key exchange, login by password or session, codes,
answers, kicks. It answers nothing before the key exchange.

**PacketStream.** `java.nio.ByteBuffer` is a record of array, position and limit.
`reader.at` is the place in `read()`; a byte is named by its packet and place, so
a wrong copy shows as a wrong byte. Chunks of every length up to the configured
sizes may be read. A null buffer is an empty one.

**Pulse.** A connection has its own PulseManager (`resolveManager()` makes it), so
everything of it is indexed by connection: the fields `isDead`, `mLoseTimes`,
`mSendable`, and a loop of `LoopThread`. The body of the loop is a step per access
to a field that others write (`at` is the line): test of `isDead` with the
`shutdown()` it makes, count, send or give up, sleep. An interrupt ends a sleep
with an exception, which ends the thread (`BodyThrows`). `getPulseManager()` and
`pulse()` are two steps of the main thread (`OnKey`, `Pulse`), and `pulse()` two
more, as it reads `isShutdown` after it has shut the loop down; all of it holds the
PulseManager's monitor, so a `dead()` waits. `send()` writes to the socket the
manager has at that moment. The server may go silent for ever. `unfed` and `pulsed`
are history.

**OrderPage.** Everything runs on the main thread, so a gesture or a callback, with
the observers it wakes, is a step. `server` are the requests with a callback in
`mRequestTable`; one asked without a login goes nowhere, and `sendBiz()` refuses at
once, which is why `Split` applies `collect` to all the orders there (the recursive
function `collectAll`) and before `total` is raised for the remainder, in the order
of the code. The stock of a quote stands for its price. `dialog` is the confirmation: `submit` computes the
number of orders and the remainder, `Confirm` reads everything else again. `batch`,
`cancelled`, `refused`, `lost` are history.

**Cbc.** Memory is a function from rows to sixteen bytes, as the pointers move by
sixteen only. Encryption writes `cipher` and decryption works on `body` in place, as
`decrypt()` does. The cipher and the exclusive-or of bytes are constants, about
which the proof assumes no more than it needs.

**Aes.** A key schedule is a sequence of words, a block a function from columns to
bytes. The 32-bit shifts and masks of the tables become sequences of four bytes
(`Word`, `Rotate`). The table `Te4` is literal; `Te` and `Td` are computed from it and its
inverse `Td4`, in the way the comments of the source say. All 256 entries of `Te`, `Te4`, `Td` and
`Td4` in `aes_x86core.c:133-462` have been compared with what these formulas give, and are
equal. The unrolled rounds are a recursive function.

**Gzip.** In the model of zlib one code stands for a byte or for two equal bytes, so
compressed and plain lengths differ and a window may end anywhere; `Deflate` may keep
output back, and may or may not report the end of the stream in the turn that fills
the buffer. The head, the trailer, `GetGZHead`, `check_header` and `get_byte` work on
the bytes of the file. `get_byte` is described by what the k-th call gives and what k
calls leave (`ByteAt`, `Skip`).

**Response.** The server compresses with `CompressGZ` or another program, or not at
all, and encrypts or not; the client runs `Handle`, `Decrypt`, `Unpress`,
`UnCompress`, `UnpressReturn`, which are the constructor of `AbsResponse` with its
two native calls. The private half of the key exchange is the set `mx` of at most
one number, replaced at every connection.

## 3. Timing assumptions

What restricts the interleavings or the inputs of the runs, with what happens without it.
No theorem about `Connection` or `Pulse` assumes any of it; `Prompt` and the guard of `Response`
are part of their models, so of the theorems about them too.

- `Timely` (Connection): a person's action and the reconnect delay (seconds)
  come when the threads have nothing left to do (`Settled`); a network answer
  comes when no `connect()` call is in progress and the reconnect loops sleep
  (`LoopsRest`). Runs `connection_races` and `deadlock` drop it: the reconnect
  delay is no shorter than the connect timeout, so a wake-up and a failure may
  well coincide, and a listener may call `connect()` from a callback. Without it
  `PermissionIsRecoverable`, `DisconnectIsExclusive`, `NoOrphanSocket`,
  `DetachedNeverConnects` and `KeepsPromise` fail: `connect()` clears
  `isDisconnecting` during a disconnect, and may store its socket before the disconnect
  thread clears the field; a detached manager connects when it is
  detached between the test of `mDetach` and the lock; a disconnect thread
  announces the loss of the next attempt's socket; and a `close()` between
  publishing `mManager` and `startEngine()` leaves a writer thread that nobody
  stops. A `SHUTDOWN` of an older connection, which nothing tells from one of the
  newer, is dispatched beside a newer connection only without it. These are one race
  each in the same few lines; they are listed as hazards without a property,
  as there the code does not keep one.
- `Fragile` (Connection): the connections the network may break. All, but in
  `connection_races`, where the second one only closes when it is asked to, as the run
  is about calls and has no assumption about timing to keep it small.
- `Prompt` (TradeClient): a connect attempt takes longer than a posted callback or
  a started activity waits, and than the reader of the last connection, a thread of
  its own, takes to post what it holds. With a main thread slower than that a business
  request can be queued before the new connection has logged in; with a reader slower
  than that a session update of the last connection may be read after the key of the next
  (`SessionIsResumed` fails).
- `LateReads` (TradeClient): packets posted after the loss of their connection, but before
  the next attempt. Run `resumed` has them, `session` has not: with them
  `LoginIsTruthful` fails, as the code sets `LOGIN` whatever the connection.
- `Response` makes a connection when the exchange of the last one has been
  handled: the private half is that of the latest connection, whichever the answer
  belongs to. The server is the repository's own `CompressGZ` and
  `AES_cbc128_encrypt`, which the application does not call, or another compressor, and
  the `dwRawSize` it sends is the true one.
- `inOrder` (OrderPage): a variable, chosen in the initial state, as the server may
  answer in the order it is asked or in any other. Only `PageSettles` needs the order:
  a late quote of the last stock is shown for the selected one otherwise.

## 4. Runs

`expect` is what TLC must answer. All bounds are constants of the cfg files.

| Run | Expect | Bounds | Shows |
|---|---|---|---|
| `loop_restart` | pass | 1 object, 3 threads, 1 caller, 1 exception | The object knows its thread (`ThreadIsKnown`); `isShutdown` recovers; a stopped object runs out of threads. Three threads: one winding down, one not yet scheduled, one new. |
| `connection_reconnect` | pass | 2 attempts at a time, 2 disconnect threads, 1 reconnect manager, 1 `connect()`, endless breaks and refusals | Liveness of the automatic reconnection: attempts answered, breaks announced, IO threads end, the client keeps trying. |
| `connection_calls` | pass | as above, 2 managers, 2 calls out of connect, disconnect, disconnect(e) | No socket forgotten, one disconnect at a time and `isDisconnecting` its flag, a loss announced when its socket is closed, permission back, a manager detached in its sleep stays quiet (`DetachedNeverConnects`), and the announcements implement `ListenerPromise`. |
| `connection_races` | pass | `Timely` dropped, no automatic reconnection; 2 attempts, the first breakable, 1 disconnect thread, 2 calls of any kind, `connect()` from `onSocketDisconnection()` included | What an attempt reports of itself is so until it is told (`OutcomesAreTrue`), although a disconnect thread may clear `mSocket` under it; only `connect()` takes the manager from a running disconnect (`OnlyConnectIntrudes`). |
| `deadlock` | violation | `Timely` dropped | `connect()` and a dispatch wait for each other's monitor; the attempt is never answered. |
| `session` | pass | 4 gestures of every kind, 2 faults | `LOGIN` only on an accepted connection, requests only there, key of the right connection. Login, logout or loss, login again and a request fit into four gestures. |
| `resumed` | pass | 3 gestures without back, 1 fault, late packets, no kicks | A login screen gets its code, a session is resumed or given up, a queued request is answered or its loss seen. |
| `chunks` | pass | bodies of 0, 1, 6 and 7 bytes, header 2, write 3, read 5, limit 6 | Packets whole, once, in order (implements `PacketChannel`), none held back. A read may span a body end, a whole packet and half a header. |
| `body` | pass | replies of 1, 16 and 85 bytes, 5 kinds of archive, 2 connections, windows of 36 bytes, modulus 23, 2 private halves | Both ends have one key (`SameKey`), a body is its reply (`BodyIsReply`), decryption undoes encryption, the cipher of the tables is the standard one at all three key lengths, decompression neither reads nor turns past a file of one member. |
| `crc_check` | violation | 1 connection, files of `CompressGZ` | `UnCompressGZ` finds a data error in every intact file and reports success. |
| `heartbeat` | pass | 2 connections, 2 threads a loop, 2 loses, 1 answer on its way, 1 posted | A connection is given up only after unanswered heartbeats in a row, although late callbacks start and feed the next connection's heartbeat and two threads may count; a dead heartbeat ends although `pulse()` may still start it; a silent server is noticed after one `pulse()`. |
| `orders` | pass | 2 stocks, one of them tradable, quantities 1 to 3, 6 requests, 1 break | A report has each order of its batch once and they add up; the page blocks exactly while it waits; what it shows settles on the stock it shows; what is ordered was confirmed. |

`CHECK_DEADLOCK FALSE` stands where the system may stop: no call left to make, an
idle link with the bound of gestures reached, an ended stream, a heartbeat whose
last connection is gone, a page whose bound of requests is reached and which has
nothing more to wait for.

Why the bounds are enough. In `Connection` an attempt can at most meet the
remains of the previous one (its IO threads, its handler, its disconnect thread),
so two sets of attempt objects, recycled, cover the overlaps; a second disconnect
thread shows `DisconnectIsExclusive`. A reconnect loop has one thread identity
there: the overlap of two threads of one loop is the subject of `loop_restart`.
The calls are bounded, breaks and refusals are not. In `connection_races` two calls and a
break are an attempt, whatever ends it, and an attempt or a disconnect beside that; both its
properties are proved for any number of each.

In `Pulse` the second connection shows what the remains of the first do to it; two
loses tell one from two in a row, and two threads of a loop are the old one and the
new one. In `OrderPage` six requests are a search with its quote and quantity and a
split into an order and a remainder, or two overlapping batches of three; three
shares in orders of two have a remainder of one. In `Response` a text of 85 bytes
compresses to more than one window of 36, one of 16 fills a block exactly, and one
byte is refused by `CompressGZ`, so that every branch of its caller is taken. The
length of a window does not enter the code but as a bound. `CodeIsRijndael`
compares the cipher of the tables, its key schedules and its inverse with `Rijndael`
on the blocks and keys of the run; every round of them is exercised.

### Fairness

`LoopThread` and `Connection` assume weak fairness of each thread: the JVM runs
every started thread. The network need not break a connection or write anything,
so a writer is only sure to end after `close()` interrupted it; a reader sees the
broken stream. In `TradeClient` the looper, the started activities, the reader, the
disconnect and reconnect threads and the server are fair; the user, faults and
kicks are not. `PacketStream` assumes a fair writer and a fair reader. `Pulse` has
each thread of a loop, the disconnect thread, the looper and `pulse()` fair, the
server and the user not: a sleep ends, an answer need not come. `Response` and
`OrderPage` have safety properties only, and no fairness. No strong fairness is used.

### Findings

| Run | Where | What |
|---|---|---|
| `deadlock` | `ActionDispatcher.java:280` | List lock then manager (dispatch, `disconnect(e)`), manager then list lock (`connect()` in the reconnect thread). |
| `crc_check` | `ZlibDll.cpp:197` | The trailer has been taken off the length, so the CRC is never read; the error it gives is ignored, and a damaged text passes like an intact one. |

Known without a run of their own, with the constants that show them:

| Where | What | How it shows |
|---|---|---|
| `ConnectionManagerImpl.java:303-305` | The loss is announced before `mSocket = null`: the socket of an attempt made from that callback is cleared. The trading client connects there only after a logout or a rejected login (`MainActivity.onDisConnect`). | `NoOrphanSocket` under `MCConnection_races.cfg` |
| `ActionHandler.java:41` | The START of the second IO thread resets the "called" flag that the SHUTDOWN of the first has set (`ActionHandler.java:49`): one connection may be disconnected twice. The second finds nothing to do. | a history of the disconnects in `HandlerHandles` |
| `ActionHandler.java:45` | Nothing tells whose `SHUTDOWN` it is: dispatched while a newer connection is being made, it disconnects that one. | under `MCConnection_races.cfg`, `main.at = "d1" /\ main.ev.type = "SHUTDOWN" => main.ev.conn = m.io` |
| `MainActivity.kt:22` | Back and enter again: `connect()` is refused on a live connection, there is no key exchange and so no verification code. | `LoginScreenIsServed` with every gesture, 3 of them, no faults, no rejects |
| `ReaderImpl.java:125` | A stream that ends inside a body is no error: a zero-filled packet is delivered. | `InOrder` with `CutsInBody = TRUE` |
| `PulseManager.java:132` | `dead()` sets `mLoseTimes` to 0 where `pulse()` sets -1. A loop between its sleep and its count when `dead()` comes then counts to 1: with `setPulseFeedLoseTimes(1)` it gives the connection up although no heartbeat was missed. The default is 5 (`OkSocketOptions.java:407`). | `DiesOnlyUnfed` without its `~isDead[k]`, with `LoseTimes = 1` |
| `PulseManager.java:70` | A second `pulse()` stops a running heartbeat and does not start it, as `isShutdown` is not set yet; nothing watches the connection then. `IPulse.java:9` says "开始心跳" (start the heartbeat). It comes of an answer to the key exchange of the last connection that is handled when the next one is up. | `SilenceIsNoticed` with `pulsed[k] >= 1` and `~> socket # k` |
| `TR/net/biz/STradeGateError.java:14` | One request at a time is allowed on a socket; `SellViewModel.kt:93` sends all orders of a split at once. | `Len(server) <= 1` in `OrderPage` |
| `Client.java` | A `SESSION_UPDATE` queued behind `logout()` brings the session back and the next key exchange logs in with it; when `ACCEPTED` was delivered but `UPDATE` lost with the connection, the menu stays without a login; entries of lost requests stay in `mRequestTable` for ever. | seen in `TradeClient` |
| `MenuActivity.kt:29` | A kick may jump to the login screen twice; a kick on the splash screen leaves the session. | seen in `TradeClient` |
| `ZlibDll.cpp:204` | "Check for such files" of concatenated files: the bytes that `get_byte()` takes between two members are not in `total_in`, so input is left over and `UnCompressGZ` refuses the file, even one that fits one window. | `gz.ret # "ERRNO"` in `Response` with archives `members` and windows of 200 |
| `ZlibDll.cpp:420` | What `get_byte()` does not count is also handed over again. Between two members the loop may so turn more often than there are windows, and `check_header` looks for the end of a name that goes over the border of a window in the first window, again and again when that has no zero. `BoundedByFile` leaves files of several members out. | archives `members`: `LoopEnds` with windows of 40 or 44; with 20, `StringEnd` has no value |
| `ZlibDll.cpp:26` | `GetGZHead` takes bit 0 of the flags (text) for the extra field, which `check_header` has as bit 2. | neither `CompressGZ` nor the archives of the run set it |

## 5. Proofs

Every theorem holds for all values of the constants that the assumptions of its
module and its own hypothesis allow. Each inductive invariant was first checked by
TLC on the constants of a run. The type invariants are checked by runs as well, but for
that of `LoopThread`, which is only proved.

| Module | Theorem | States | Hypothesis |
|---|---|---|---|
| `LoopThread_proofs` | `LoopTypeCorrect`, `CurrentThreadLoops`, `ShutdownFlagIsTruthful` | `TypeOK`, `ThreadIsKnown`, `ShutdownFlagRecovers` | - |
| `PacketChannel_proofs` | `ChannelIsFifo` | `DeliveredInOrder` | - |
| `PacketStream_proofs` | `StreamTypeCorrect` | `TypeOK` | - |
| | `StreamIsChannel` | `InOrder` | `~CutsInBody` |
| `TradeClient_proofs` | `TradeTypeCorrect` | `TypeOK` | - |
| `OrderPage_proofs` | `PageTypeCorrect`, `OrdersWhatIsConfirmed`, `BlockedWhileWaiting`, `PageSettled`, `ReportsWholeBatch` | `PageTypeOK`, `OrderAsConfirmed`, `BusyIsWaiting`, `PageSettles`, `ReportIsWhole` | - |
| `Response_proofs` | `KeysAgreed` | `SameKey` | - |
| | `RepliesArrive`, `CipherInBuffers`, `RepliesDecrypted` | `BodyIsReply`, `CbcTypeOK`, `DecryptedIsPlain` | `CipherInverts` |
| | `UnCompressBounded` | `BoundedByFile` | `CipherInverts`, `"padded" \notin Archives` |
| | `CbcTypeCorrect`, `DecryptionUndoesEncryption` | `CbcTypeOK`, `DecryptedIsPlain`, of `CbcSpec` | `Invertible` |
| `Pulse_proofs` | `PulseTypeCorrect`, `GivesUpOnlyUnfed` | `PulseTypeOK`, `DiesOnlyUnfed` | - |
| `Connection_proofs` | `ConnectionTypeCorrect`, `OutcomesTruthful`, `DisconnectIsIntrudedByConnectOnly` | `TypeOK`, `OutcomesAreTrue`, `OnlyConnectIntrudes` | - |

The hypotheses are conditions of the code, not of the prover, but for
`"padded" \notin Archives`, without which TLC has found no counterexample either.
`~CutsInBody`: the stream does not end inside a body (`ReaderImpl.java:125` delivers what
it has, and TLC shows `InOrder` false). `CipherInverts` and
`Invertible` say of the cipher, a parameter there, what `CodeIsRijndael` shows of the
code on the blocks of a run: it maps blocks to blocks and back under the same key, every key
that may be agreed on or every key at all. The assumptions on constants say that null
values are none of the objects, that bounds are numbers, in `Cbc` that the
exclusive-or of bytes undoes itself, and in `Response` that the texts are those of the
model of zlib, that their archives fit the buffers, and that a digest is a key.

**LoopThread.** `LoopInv` is `TypeOK`, `ThreadIffNotStopped`,
`CurrentThreadKeepsLooping` and `ShutdownFlagRecovers`. They are needed together: a
thread leaves the loop in `TestStop` only if `isStop` is set, and that it is then not
the current one follows from `ThreadIffNotStopped`.

**Cbc.** Every row written is the cipher of its plain row mixed with the row before
(`Chained`), and while decryption is at a row, that row and all after it still hold
ciphertext, and `ivec` is the ciphertext of the row before, though that row of `body`
is already plain. This is the point where in-place decryption could go wrong. The
steps of `CbcSpec` may encrypt anything under any key; those of `Response` use the
same lemmas.

**KeyExchange.** `BN_mod_exp` is a recursive function; `PowerRuns` ties it to the
remainders of the powers, from which `PowerOfPower` gets that `(g^x)^y` and `(g^y)^x`
leave the same one. `KeyInv` then says that the private half in the static variable
and the public half in `inbox` are those of the latest connection. Nothing is
assumed of modulus and generator but that they are numbers and the modulus is not 0.

**Response.** `ReplyInv` follows an answer from one end to the other. `HeadInv` and
`WireInv`: what is sent is the text, or a gzip file of it, and `dwRawSize` its length;
while `CompressGZ` is at work `Zipping` says that its last loop is not left before all the
codes are out. `CipherInv`: the rows encrypted are those of `wire`, under the key of
the server, and decrypted under the same one, which needs `KeyInv`. `GzInv`: the
state of `UnCompressGZ` is `Reading`, `Finished` or `Returned`. Before each turn whole
windows have been taken, and the text written is what their codes stand for; that it
is a prefix of the text, so that the buffer is not full while codes are left, comes
from `CodesProperties` and `GivenOfPrefix`. The last turn meets the end of the stream
with no byte of the data behind it, which is what ends the loop, by an error that
nobody reads (section 4, `crc_check`). `HeadOfMember` computes where `GetGZHead` finds
the codes and the length, with the optional fields of a header or without.

**PacketStream implements PacketChannel.** The sizes of the packets, of the header,
of what one write or read takes and of the packet limit are arbitrary. `StreamInv`
puts all that is ever written on one line, `sent`, with the end of every packet
offered on it: what the writer has written, the stream, `mRemainingBuf`, the header
and the body being read are runs of that line, one after the other, and there is
nothing between them (`Streaming`). Every read only moves the borders. `BufferInv`
says which buffers are empty at which place of `read()`; without "a header or a body
that is not full has emptied `mRemainingBuf`" the next chunk would not follow it on
the line. `WholePacket` then says that a header and a body that are complete are the
next packet offered. Each step is a step of the channel or a stutter
(`ChannelStep`), so `ChannelIsFifo` is a theorem about the code. That an oversized
packet fails the reader is part of it: such a reader delivers nothing more.

**TradeClient.** The type invariant alone, composed as the callbacks are: each call of the
main thread takes a state of the types to one (`StateOK`), and so does the whole callback.
It includes that a request has its number before it is in the table.

**OrderPage.** Five invariants. `TypeInv` bounds what a view model collects: never
more lines than the orders it waits for, which needs an induction over the orders of
a batch that `sendBiz()` refuses at once (`CollectAllRuns`). `Unchanged`: nothing
types over the page while the question is up, if no search and no quote was on its
way. `OneWait`: it is one search or one batch that the page waits for; the
unanswered orders of a batch and the answers it still counts go together one to one
(`Counted`), so that the report comes with the last answer, whichever it is.
`Settling`: the last quote, and the last quantity, still to come is that of the stock
on the page. `Reporting`: each order of a batch that nothing disturbed is on its way or
in the collection, and in one of them once, and the quantities of its lines add up to what was
confirmed. With none on its way, as many lines as orders are collected, all different, so
they are a reordering of the batch, and the sum over the report is the sum over the
batch.

**Pulse.** Any callback may come at any time, so a loop may have several threads, all counting
on one `mLoseTimes`, and a callback of one connection may feed the heartbeat of another.
`Counted` therefore compares the counter with `Behind`, the heartbeats that nothing fed,
those counted and not yet sent included, whichever thread they are of: `mLoseTimes` is less
than `Behind`, or `Behind` has reached the limit anyway. Counting raises both sides by one,
sending moves a heartbeat from one part of `Behind` to the other, feeding sets `mLoseTimes` to -1.
Only `dead()` sets it back to 0 without a heartbeat, so `Counted` is about heartbeats
that are not dead, and `Owned` says that the manager's own, and any not yet made, is not.
The limit -1 switches the count off, and no thread gives up then.

**Connection.** The types need more than themselves only where a step uses a field
another thread may clear: a `connect()` in progress has its attempt, and a reconnect
manager it is about to detach is not null (`ManagerTyped`).

`OnlyConnectIntrudes` follows from `DisconnectHasManager`, which each step is shown to
keep or to be the first of a `connect()`: from `disconnect(e)` to the last lines of its thread
`isDisconnecting` is set and no other disconnect thread works, so that whoever resets
the flag is the one it belongs to. `connect()` resets it whatever is at work, and the theorem
says that the harm of section 3 begins there and nowhere else.

`OutcomesAreTrue` needs what the place of a connect thread says of its IO threads
(`ThreadsInv`: none before `startEngine()`, both after), whoever changed the fields of the
manager in between. The thread has nothing more to do with them once it has reported, and an
attempt is not begun again while its outcome is posted or in dispatch (`Owed`, `Free`), so what
is posted stays true (`Stays`), and there is one outcome an attempt (`OutcomesInv`).

Induction. The library's induction theorems take an operator as a parameter and
cannot be used; `OrderPage_proofs` and `Response_proofs` have induction as a lemma about sets
(`Induction`: a set that has 0 and, with every number, the next has them all), proved
from the pigeonhole principle for finite sets in one and from a least counterexample in
the other. What a recursive definition computes is then a statement about the set of the
lengths or exponents for which it holds (`PowerRuns`, `FlattenJoins`,
`CollectAllRuns`). Definitions by recursion are
recursive functions in the modules proved about.

Only model-checked:

- All liveness: fairness and ENABLED are
  outside the prover.
- `NoOrphanSocket`, `DisconnectIsExclusive`, `AnnouncedWhenClosed`, `PermissionIsRecoverable`,
  `DetachedNeverConnects` and `KeepsPromise` (Connection): they are checked under `Timely`, and
  a theorem with that hypothesis would say little of the code, whose delays do not guarantee it.
- `LoginIsTruthful` and `KeyIsOfConnection` (TradeClient), for the same reason: `Prompt`, and
  no late reads.
- `CodeIsRijndael`: `Aes` and `Rijndael` compute with tables over data, in recursive
  operators, which the prover does not take. That the cipher inverts is therefore a
  hypothesis of the theorems that need it.
- `BoundedByFile` of files padded with zeros (`padded`): the loop looks for a next member in
  them, and what it meets there depends on the bytes and on where a window ends.

## 6. Not modelled

Parts of modelled code:

- `AbsLoopThread.beforeLoop()` is part of `Enter`; an exception in it is not modelled (no override
  throws one that a property depends on).
- `disconnect(e)` from the thread of the heartbeat (`PulseManager.java:133`) is in `Pulse`; in
  `Connection` only the main thread calls it.
- `sendBiz()` is called by the main thread in `TradeClient`. `TradeActivity.kt:121-127` asks for
  the holdings from a loop of its own, where the test of the state (`Client.java:242`) races with
  the callbacks; such a request fails or is answered like any other.
- The readers of successive connections share the one packet in hand (`held`) in `TradeClient`;
  `Prompt` makes the last one post it before the next connection is up.
- A negative body length (`ReaderImpl.java:97`) and an `IOException` inside a body
  (`ReaderImpl.java:137`), both of which throw, like a stream that ends in a header.
- `OrderPage.Break` drops every answer that is still to come at once; in the code one that was posted
  before the disconnection may still find its callback.
- The price of an order is that of the last quote in `OrderPage`; taps on a level or a limit and typed prices
  (`AbsTradeView.kt:70-76`, `160-166`) are left out.

Whole parts:

- `option()` while connected, `switchConnectionInfo`, the backup address and the
  SIMPLEX mode: the application never uses them. `isConnectionHolden` is always
  TRUE, so the manager holder never forgets a connection.
- `PulseManager.trigger()` and `setOkOptions()`: no caller in the application.
- The OpenSSL headers under `CPP/openssl`: 36,483 of the 38,649 lines of C and C++,
  vendored declarations and macros with no behaviour of this program. Big numbers,
  MD5 and zlib are external and modelled as the code uses them (a power modulo a
  small number, a digest that is a constant, the codes of section 2). Of the
  project's own native code, AES, CBC, gzip and the key exchange are modelled; what
  is left are JNI conversions of arrays.
- Memory that the native code does not free: it changes no result.
- The quote types of the market, transfer and fixed-price pages: other fields of the
  same answers. The list of holdings and its polling fill a list. The account type
  dialog, the phone check and its 60 s countdown enable and disable a button.
- Repository and queries: one request and one parse each, without state.
- Packet formats, text parsing: data without control, the fields apart that
  `AbsResponse` reads (`btCompressFlag`, `bEncrypt`, `dwRawSize`).
- Widgets, options, preferences, superseded protocol code.

## 7. Plan

Done: `LoopThread`, `Connection`, `TradeClient`, `PacketStream`, `Pulse`,
`OrderPage`, `Response` and the modules it composes, and proofs about them.
What is left:

1. Padded files in `UnCompressBounded`: an invariant for the bytes that `get_byte()` takes
   after the last member, or windows for which it fails.
2. The background request of `TradeActivity` and a reader for each connection in `TradeClient`, so
   that `KeyIsOfConnection` and `LoginIsTruthful` can be restated for what the code does
   with late packets.
3. `ManagerHolder` and the address switch, if the application comes to use several
   addresses.
