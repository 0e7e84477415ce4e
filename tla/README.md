# TLA+ models of irpc

TLA+ models of irpc (`src/`): the low-level client session, the high-level
client's connection cache, fail modes (Failbackup among them) and Fork, the
five selectors, the server's serving loops and graceful shutdown, the
server's request pipeline, and the wire codec. TLC checks
them.
`PROJECT.json` records four things:

- which module definition models which source lines (`map`);
- the TLC runs;
- the mutants that show each checked property can fail;
- the findings and the hazards.

## 1. Inventory of the system

### Components, their state and their operations

| Component | Source | State | Operations |
|---|---|---|---|
| Client session | `client/client.go`, `client_connect.go` | `pending` (seq → Call), `closing`, `shutdown`, `pluginClosed`, the conn, one `client.mutex` | Go/Call/send (not under `src/`), the `input` read loop, `Close`, `heartbeat`, `handleServerRequest` |
| xClient cache and call modes | `client/xclient_cache_client.go`, `xclient_call.go` | `cachedClient` (endpoint → Client), the singleflight group, `c.mu`, breakers | `selectClient`, `getCachedClient`, `generateClient`, `removeClient`, `Call` in Failfast/Failtry/Failover/Failbackup, `wrapCall`, `Go` |
| Fork | `client/xclient_fork.go` | the result channel `done`, a MultiError | `Fork` |
| Selectors | `client/selector_*.go` | round-robin index, weighted current weights, hash ring | `Select`, `UpdateServer` |
| Server | `server/server_serve.go`, `server.go`, `server_base.go` | `ln`, `activeConn`, `inShutdown`, `doneChan`, `handlerMsgNum`, one `writeCh` per conn | `ServeListener`, `serveConn`, handler goroutines, `serveAsyncWrite`, `Shutdown`, `Close` |
| Server request pipeline | `server/server.go`, `server_serve.go` | per request: heartbeat and oneway bits, auth result, the response written | `readRequest`, `auth`, `handleRequest`, `handleRequestForFunction`, `handleError`, `sendResponse` |
| Server registry | `server/server_register.go`, `service.go`, `server_base.go`, `server.go` (`AddHandler`) | `serviceMap` (path → service with a method map and a function map) under `serviceMapMu`, `router` (path.method → handler) with no lock | `Register`, `RegisterName`, `RegisterFunction`, `RegisterFunctionName`, `AddHandler`, `getService` |
| Server plugin container | `server/plugin_container.go` | `plugins`, the list in registration order, with no lock | `Add`, `Remove`, one `Do*` loop per extension point |
| Message codec | `protocol/message.go` | the 12-byte header and the length-prefixed parts | `Encode`, `Decode`, `encodeMetadata`, `decodeMetadata` |

### Interactions

- **Client session.** Each low-level `Client` runs two goroutines: a read loop and, optionally, a heartbeat. User goroutines call it concurrently. All of them share `client.mutex`.
- **xClient.** Many goroutines share one cache of `Client`s under `c.mu`. A failing call evicts its client with `removeClient`, and that calls `Client.Close`.
- **Server.** Each accepted connection gets one `serveConn` goroutine. Each request gets one handler goroutine, counted in `handlerMsgNum`. The handler looks its route up in the registry, which the user may still be filling while requests arrive. With AsyncWrite, each connection also gets one writer goroutine. `Shutdown` and `Close` race with all of these.

### Hard behaviours

These are the interleavings that unit tests hardly reach. Each is listed in `hazards`:

- a server disconnect racing a heartbeat and a user `Close`;
- a response racing a cancel;
- two callers missing the cache at the same time;
- an eviction racing a shutdown;
- a handler that has not yet been counted when `Shutdown` polls;
- a `writeCh` closed under a running handler;
- a Fork signal read before its error is appended, and a timer racing late replies;
- a pooled message buffer reused by a shorter message, and a uint32 length that wraps;
- a selector update that changes the list under a kept index or ring;
- a Failbackup reply racing the backup timer and the caller's cancel;
- an auth failure closing a connection while earlier handlers still run;
- registration calls on one path in an order that panics or drops functions, racing the handlers' lookups.

### Properties per component

**Client session**
- Every call returns, and returns success only with its own response (`CallSessionRefined`).
- A call is completed once.
- `Close` never brings the process down.

**xClient**
- Attempts are bounded by `Retries`.
- Only uncovered errors evict a client.
- The cache never holds a client that the xClient itself closed.
- One connection is dialed per endpoint.
- Eviction never brings the process down.
- Failbackup returns an error only if the primary's Go failed or a received reply failed, and it always returns.
- Once an endpoint's breaker has tripped, each caller gets at most one more dial to it.
- A connection a `ConnCreated` plugin rejects is not left open.

**Fork**
- Fork returns nil only if some call succeeded.
- It returns an error only after a timeout or when every call failed.
- Fork and all its goroutines finish.

**Selectors**
- Round robin is even over every window of `len(servers)` selections.
- Smooth weighted round robin picks each server exactly its weight per window.
- It never picks a non-positive weight while a positive one is listed.
- The consistent hash returns only listed endpoints, and every listed one can be returned.

**Message codec**
- Every encoding decodes to its message.
- A decoded message never carries bytes an earlier message left in a pooled buffer.
- A metadata length that overruns the frame gives `ErrMetaKVMissing`.

**Server**
- Every goroutine returns after `Shutdown` or `Close`.
- A graceful `Shutdown` answers every request already read.
- No response is lost to a closed `writeCh`.
- Every connection the accept plugins let in is reported to the close plugins once.

**Server request pipeline**
- Handlers run only for heartbeats and authenticated requests; nothing is read after a failed auth.
- A oneway request is never answered; no request is answered twice.
- Every two-way request is answered while its connection is open.
- A failed request is answered with status Error.

**Server registry**
- No service without a method or a function is ever installed.
- A registered function stays callable.
- Registering never brings the process down.

## 2. Plan

The modules are built in order of importance. Items 1 to 8 exist now:

1. **`RPCClient`** (done). The client session.
2. **`XClientCache`** (done). The cache with Failfast, Failtry and Failover. It uses the session only through `IsClosing`, `IsShutdown` and `Close`, and reproduces the double unlock of `Close` (`CloseCli`).
3. **`ServerShutdown`** (done). The server.
4. **`XClientFork`** (done). Fork's fan-out, the `done` channel, the timer, and the MultiError appended after the signal.
5. **`Selector`** (done). All five selectors as `newSelector` builds them. Smooth weighted round robin (`nextWeighted`) is a RECURSIVE operator, checked against the reference "each server `weight` times per window".
6. **`MessageCodec`** (done). `Encode`, `Decode`, `encodeMetadata` and `decodeMetadata` byte for byte, with uint32 arithmetic, over both readers (pooled server message and fresh client message).
7. **`XClientFailbackup`** (done). Failbackup's two requests, the backup timer, the caller's cancel and the eviction on a failed backup `Go`.
8. **`ServerRequest`** (done). One connection's request branch: `readRequest` errors, the rate limit, auth, heartbeats, the handler goroutine and every error path of `handleRequest`.
9. **An abstract `CallSession`** (done). What the client promises each call: it returns once, success only with the server's answer to that call, and it always returns unless the process died. `RPCClient` refines it (`CallSessionRefined`).
10. **The registry in `ServerRequest`** (done). Registration calls race the requests, and the route of each request is looked up when its handler runs.
11. **Header bit packing** (`message_type.go`) as operators checked against the field accessors, and `handleServerRequest` (next).
12. **The server plugin container in `ServerRequest`** (done). `Add`, `Remove` and the hook loop whose results `readRequest` and `handleRequest` use.
13. **`DoPostConnAccept` and `DoPostConnClose` in `ServerShutdown`** (done).
14. **The breaker gate and `Connect`'s outcomes in `XClientCache`** (done). This includes the `DoConnCreated` rejection.

## 3. Modules and how they correspond to the code

### `RPCClient` (client/client.go)

**Variables.** These are the `Client` fields: `pending`, `closing`, `shutdown`, `pluginClosed`, plus the conn being open. The model adds:
- a per-call state;
- `result` and `returned`, for `call.Error` and what `Call` returned;
- `doneCount`, which counts strobes of `call.Done`;
- an abstract peer server: a FIFO `toServer` of requests, and `toClient` of responses written in any order;
- `crashed`, for the fatal double unlock.

**Actions**

| Action | Code it models |
|---|---|
| `ReadResponse`, `ReadFail`, `ReaderDrain` | `input()` |
| `HeartbeatTick`, `HeartbeatCheck` | `heartbeat()` |
| `UserClose`, and `CloseClient` inside `HeartbeatCheck` | `Close()` |
| `GoRegister`, `GoWrite`, `CallReturn`, `CallCancel` | `Go`/`Call`/`send`, modelled from spec 4.4 because they are not under `src/` |
| `ServerRead`, `ServerReply`, `ServerClose` | the peer server |

`HeartbeatCheck` chooses freely whether the deadline has already passed (`ctx.Err()` at line 239).

**Refinement.** `CS == INSTANCE CallSession WITH st <- ..., ret <- returned, down <- crashed` maps the call states:
- `unused` and `idle` are abstract `idle`;
- `sending` and `waiting` are `pending`;
- every other state is `returned`.

`CallSessionRefined == CS!Spec` is checked as a PROPERTY. It includes the abstract weak fairness on `Return`, so it states that every call returns unless the process died.

### `CallSession` (abstract)

**Variables.** `st` (per call: `idle`, `pending` or `returned`), `ret` (what it returned), `answered` (the calls the server answered normally) and `down`.

**Actions.**
- `Issue(c)` issues a call.
- `Answer(c)` records the server's normal answer to an issued call, possibly after the call has returned.
- `Return(c, r)` returns a pending call once. `r = "ok"` is allowed only if `c` was answered.
- `Die` is a fatal error of the process.

The module has no map entries: it is a specification of what the code promises, not a translation of it.

### `XClientCache` (client/xclient_cache_client.go, xclient_call.go)

**Per-caller state**
- a program counter;
- the selected key `k`;
- the client in hand;
- `err`, the Call's error, and `getErr`, the last `getCachedClient` error;
- `retries`.

**Shared state**
- `cachedClient`;
- the dialed clients, each with its endpoint and its closing and shutdown flags.

**Actions**
- `getCachedClient` is split at its three critical sections: `GetCachedLookup`, `GetCachedDial` and `GetCachedInstall`. The unlock at line 55 is where the dial race lives.
- `removeClient` is split at its unlock: `RemoveClientLocked` and `RemoveClientClose`.
- `ConnectionLost` is the environment: it ends a client's read loop.

**Breaker and Connect**
- `brkFails` counts the `Fail` calls each endpoint's breaker received.
- The breaker is supplied by the user through `GenBreaker`, so its implementation is not under `src/`. The model takes the consecutive-failure breaker that the `Breaker` interface names: `BreakerReady` holds while there are fewer than `Threshold` failures. `Success` is never called under `src/`, so the count never resets. The breaker's time window lives in user code and is left out.
- `GetCachedLookup` starts with the gate at line 40, where an endpoint that is not ready gets `ErrBreakerOpen`. The gate is read before `c.mu` is taken, and the dial comes one or two steps later.
- `ConnectOutcomes` lists what `Client.Connect` can return:
  - a connected client;
  - a dial error;
  - with `ConnPluginCanFail`, a conn that was dialled and then rejected by `DoConnCreated`. Connect returns at line 64 without closing it.
- `GetCachedDial` draws one outcome. On either error it calls `BreakerFail`, which is `generateClient`'s `Fail`.

**What is abstracted**
- The selector is a free choice of endpoint.
- A `Client.Call` is one of four outcomes: nil, ServiceError, context error, or a transport error that may also shut the client down.

**The fail mode** is a variable chosen in `Init` from `FailModes`, so one run covers all three modes.

### `ServerShutdown` (server/server_serve.go, server.go, server_base.go)

**State**
- one program counter for the accept loop;
- one for `Shutdown`;
- one per `serveConn` goroutine;
- one per handler goroutine: a request is `<<conn, index>>`;
- `handlerMsgNum`;
- `writeCh` as an open flag plus a buffer of capacity 1;
- the writer goroutines;
- `doneChan` as a close counter;
- `activeConn`, and the conns that have been read-closed and closed;
- the responses that were answered, dropped on a closed conn, or lost to a panicking send.

**How the code maps**
- The defers of `serveConn` run in the order Go runs them. `ServeExit` closes `writeCh` first, then waits for `doneChan` when shut down, then runs `closeConn`.
- `HandlerStart` is the increment inside the goroutine (line 263).
- `HandlerReply` is `writeResponse` plus the deferred decrement.
- `AsyncWrite` is a variable chosen in `Init`.
- `Accept` draws the result of `DoPostConnAccept`. A rejected conn is closed (by the plugin and again by the loop), ends in state `rejected`, and is never made active.
- `DoPostConnClose(S)` adds one to `closeNotified` for each conn in `S`. `closeConn` calls it with the one conn it closes; `Shutdown`'s final step and `Close` call it with every active conn.

### `XClientFork` (client/xclient_fork.go)

**State.** Fork's own program counter (`start`, `collect`, `check`, `returned`), the endpoints that got a cached client, `l`, the `done` channel as a queue with capacity `DoneCapacity(len(clients))`, one program counter per goroutine, each call's outcome, the MultiError as a set, the evicted endpoints, what Fork returned, and `lateReply` (a goroutine wrote `*reply` after Fork returned).

**Actions.** `ForkStart` is lines 14-56: a free subset of endpoints gets a client, and with none Fork returns `ErrXClientNoServer`. Each goroutine is `GoCall` (`wrapCall` and the reply copy), `GoSignal` (`done <- e == nil`), `GoEvict` (`removeClient` on an uncovered error) and `GoAppend` (`err.Append`), in the code's order. `ForkReceive`, `ForkTimeout` and `ForkCheck` are the select loop and the final `err.Error() == "[]"` test.

### `Selector` (client/selector*.go, ping_utils.go)

**State.** The select mode (chosen in `Init`, as `newSelector` switches on it), `s.servers` (keys, or `Weighted` records for the two weighted selectors), round robin's `s.i`, the consistent hash's ring as a set of keys, and ghost counts of picks per key, selections and updates since the last update.

**Actions.** One Select per selector (`SelectRandom`, `SelectRoundRobin`, `SelectWeighted` for both weighted ones, `SelectHash`) and one UpdateServer per slice shape (`UpdateServerList`, `UpdateServerWeighted`, `UpdateServerHash`). A discovery map is a free subset of keys with free metadata, ranged over in a free order. `Ping` is what the code does: 1000 for an unresolvable host and otherwise 0, because the pinger is created but never run, so every resolvable host gets weight 191. The jump hash is abstracted to its set of keys; which one a request hashes to is free.

### `XClientFailbackup` (client/xclient_call.go:107-160, 199-227)

**State.** Call's program counter (`start`, `wait1`, `wait2`, `returned`), the client `k` selected at line 34, per request (primary, backup) its state, endpoint and reply, `ctxDone`, what Call returned and from which reply, and the evicted endpoints.

**Actions.** `Primary` is line 34 and the primary's `Go`; `Wait1Ctx` and `Wait1Reply` are the first select; `Backup` is the timer firing and the backup's `Go`, with the eviction of `k` on its failure and the return of the primary's error; `Wait2Ctx` and `Wait2Reply(i)` are the second select; `Complete(i)` is the low-level client delivering a reply (a context error only once ctx is done); `CancelCtx` is the caller. A `Go` either fails (`ErrXClientShutdown`, no server, an open breaker or a dial error) or sends to some endpoint.

### `ServerRequest` (server/server.go:112-262, server_serve.go:218-374)

**State.**
- `serveConn`'s loop: `loop` or `closed`.
- The number of requests read.
- Per request:
  - its header bits (heartbeat, oneway), its path, its name, and whether its codec is known;
  - its auth result, and whether the rate limiter rejected it;
  - its handler goroutine;
  - the route its handler took;
  - whether some step of its handling failed;
  - the statuses of the responses written for it.
- The registry:
  - `svc` is `serviceMap`. Each service has its method set, its function set, and `fnMade`, which says whether its function map was ever made;
  - `router` is the set of `AddHandler` pairs;
  - `regs` counts the registration calls;
  - `fnReg` records the functions registered successfully;
  - `down` is a registration panic.

**How the code maps**
- `ServeRead` is the request branch of the loop: a read error returns, `ErrReqReachLimit` is answered by `handleError` and the loop continues, a heartbeat skips `auth`, a failed auth is answered and the loop returns, anything else spawns the handler.
- `Handle(i)` is the whole handler goroutine: a heartbeat is echoed, a router request is left to its handler (its `Context` is not under `src/`), anything else runs `handleRequest` and, unless oneway, `sendResponse`, whatever error it returned. The failing step (decode, PreCall, the call, PostCall, encode) is a free choice.
- `HandleRequest` gives the response's status. The lookups that fail call `res.HandleError` themselves. `ErrAtDefer` is the value `defer res.HandleError(err)` binds at line 142: `err` is still nil there, so the deferred call does nothing.
- `Write` is `writeResponse`; after `serveConn` has returned, the response is lost.
- `Route(r)` is the lookup order of `serveConn` and `handleRequest`: a router handler, then `getService`, the codec, the methods, and then the functions. A nil function map reads as empty.
- `RegisterCall` is one user call. It is one of the following:
  - `Register(p, M, nameOK)`: `register` with `checkServiceName`. The receiver's suitable methods are the chosen set `M`, an empty set is an error, and the new service replaces whatever was under the path;
  - `RegisterFunction(p, f, sigOK)`: `registerFunction`. A rejected signature stores nothing. On a service made by `register`, the write into its nil function map panics;
  - `AddHandler(p, m)`.

  - `AddPlugin(pl)` and `RemovePlugin(pl)`: `pluginContainer.Add` with one plugin, and `Remove`, which drops every copy (`SequencesExt`'s `Remove`).

  Each call is one atomic step, so the unlocked accesses (`handleRequest` after `getService`, `AddHandler`, and the plugin list) are listed as hazards, not checked.
- The plugin list starts as any list of distinct plugins the user installed before serving (`InstalledPlugins`).
- `DoHook(pl, hook, out, i)` is the loop every `Do*` function of the container runs, and it is RECURSIVE over the index. `out[i]` is what the i-th plugin returns. A plugin that implements the hook is called, and its first error returns at once. The result records the error and the plugins called. `DoPreReadRequest`, `DoPostReadRequest`, `DoPreCall` and `DoPostCall` apply it to the installed list.
- `ServeRead` reads a request only when `DoPreReadRequest` returned nil. `Serve(r, e)` is the rest of the branch for the result `e` of `DoPostReadRequest`:
  - `ErrReqReachLimit` is answered and the loop goes on;
  - another error returns;
  - nil goes on to auth.
- A handler's PreCall or PostCall step can fail only if an installed plugin implements that hook.
- The hooks whose results the server discards (`_ = ...`) change no state and are left out.

### `MessageCodec` (protocol/message.go)

**State.** The pooled `m.data` backing array, the frame last read, the decode result (kind, fields, the highest index any slice reached), which reader decoded it, and `crashed` for a panic in the client's read loop.

**Operators.** `EncodeWith`, `encodeMetadata`, `Decode`, `decodeMetadata` (RECURSIVE `MetaLoop`) work on byte sequences. uint32 values are `[hi, lo]` pairs so that `n+sl` wraps at 2^32 exactly. Go slicing is bounded by `cap`, so a slice of a reused `m.data` can reach the previous message's bytes, and a bound past `cap` is a panic.

**Actions.** `ServerReadRequest` decodes into a pooled message (a panic is recovered by `serveConn`); `ClientInput` decodes into a fresh `NewMessage`, where a panic ends the process. Frames are every encoding of every small message, and three corruptions: a huge metadata key length, an `SPLen` past the path, and a `TotalLen` that leaves out the payload.

## 4. Runs

All numbers are from TLC with 2 workers.

| Run | Config | Expect | Shows |
|---|---|---|---|
| `client_session` | `MCRPCClient.cfg` | pass, about 309k states, 1.5 minutes | `CallSessionRefined`, the refinement of the abstract `CallSession`, with 2 callers (one with a deadline), 1 heartbeat tick and 1 user `Close` |
| `client_heartbeat_crash` | `MCRPCClientHeartbeatCrash.cfg` | violation | A server disconnect, then a failed heartbeat `Close`, then a double unlock |
| `xclient_cache` | `MCXClientCache.cfg` | pass, about 4M states, 1.5 minutes | 2 callers, 2 endpoints, all three modes, `Retries` = 1. A breaker trips after 1 failure, and a `ConnCreated` plugin may reject. `DialsPastOpenBreakerBounded` holds: after a trip, each caller gets at most one more dial |
| `server_shutdown` | `MCServerShutdown.cfg` | pass, about 301k states, 1.5 minutes | `Shutdown` with an expiring ctx, and `Close`, in both write modes, with an accept plugin that may reject. `AdmittedConnsCloseNotified`: every admitted connection eventually reaches the close plugins |
| `server_shutdown_unanswered` | `MCServerShutdownAnswersAll.cfg` | violation | A request read before `Shutdown`, but not yet counted, is never answered |
| `server_request` | `MCServerRequest.cfg` | pass, about 579k states, under 2 minutes | `AuthGate`, `OnewayNeverAnswered`, a single response per request (`TypeOK`), `NoEmptyService`, `HooksStopAtFirstError` and `EveryRequestAnswered` over 2 requests of every kind and any installed list of 2 plugins, racing 2 registration or plugin calls |
| `server_request_failure_reported` | `MCServerRequestFailureReported.cfg` | violation | A request whose method fails is answered with status Normal |
| `selectors` | `MCSelector.cfg` | pass, about 25k states, 2 minutes | all five selectors: `RoundRobinEven`, `SmoothWindowExact`, `ZeroWeightNeverSelected`, `IcmpWeightMatchesTable`, `SelectedIsListed` |
| `xclient_fork` | `MCXClientFork.cfg` | pass, about 27k states | `ForkErrorOnlyOnFailure` and `ForkAllFinish` over 3 endpoints |
| `xclient_fork_nil_on_failure` | `MCXClientForkNilOnFailure.cfg` | violation | The last `done <- false` is read before its `Append`, and Fork returns nil |
| `xclient_failbackup` | `MCXClientFailbackup.cfg` | pass, about 1.5k states | `ErrorIsPrimaryOrReceived` and `FailbackupReturns` over 2 endpoints, every `Go` and reply outcome, a cancel at any time |
| `codec` | `MCMessageCodec.cfg` | pass, about 12k states | `RoundTrip` and `NoReadBeyondFrame` over valid and corrupt frames |

### Further reproductions

These configs check one property each and TLC finds it violated. They are kept beside the runs above and listed as hazards in `PROJECT.json`:

- `MCRPCClientDoneTwice.cfg` (`CallDoneOnce`): the drain completes a call that `GoWrite` or `Close` completes again.
- `MCXClientCacheDialRace.cfg` (`OneOpenClientPerEndpoint`): two dials for one endpoint; the first client is leaked.
- `MCXClientCacheEvictCrash.cfg` (`NoFatalUnlock` of `XClientCache`): eviction closes a client twice.
- `MCXClientForkLateReply.cfg` (`NoReplyWriteAfterReturn`): after Fork returned, another goroutine's success still writes `*reply`.
- `MCSelectorIcmpPanic.cfg` (`NoUpdatePanic`): a key without `@` makes `createICMPWeighted` panic.
- `MCSelectorUnreachable.cfg` (`UnreachableNeverSelected`): with only unreachable hosts, weight 0 servers are still selected.
- `MCServerShutdownWriteChPanic.cfg` (`NoSendOnClosedWriteCh`): with AsyncWrite, a counted handler's response is lost to the closed `writeCh`.
- `MCSelectorHashEmptyMeta.cfg` (`ListedIsSelectable`): an update keeping an endpoint with metadata `""` removes it from the hash.
- `MCMessageCodecMetaWrap.cfg` (`MetaOverrunIsKVMissing`): a key length of 2^32-1 wraps the bound check and the slice panics.
- `MCXClientFailbackupEvictUnused.cfg` (`EvictOnlyFailedEndpoint`): a failed backup `Go` evicts the client selected at line 34, which no request used.
- `MCXClientFailbackupNilNoReply.cfg` (`NilMeansReply`): when the backup's `Go` fails after the primary was sent, Failbackup returns nil without any reply.
- `MCXClientFailbackupFirstSuccess.cfg` (`FirstSuccessWins`): a failed primary reply is returned while the backup may still succeed.
- `MCServerRequestRegistryPanic.cfg` (`NoRegistrationPanic`): `Register` then `RegisterFunction` on the same path writes into a nil map.
- `MCServerRequestFunctionDropped.cfg` (`FunctionStaysRegistered`): `RegisterFunction` then `Register` on the same path drops the function.
- `MCServerRequestPostHooks.cfg` (`PostHooksReachAll`): with two `PostReadRequest` plugins, an error from the first means the second is never called.
- `MCXClientCacheConnLeak.cfg` (`NoOrphanConnection`): one caller and one endpoint. A `ConnCreated` plugin rejects the dialled conn, and it stays open with no owner.
- `MCServerShutdownCloseTwice.cfg` (`PostConnCloseOnce`): one connection. `Shutdown` closes it and reports it to the close plugins, then its `serveConn` fails its read and `closeConn` reports it again.

### Bounds, and why they are enough

**RPCClient.** Two user calls and one heartbeat give three concurrent completers of a call: the read loop, `Close`, and the writer or a cancel. That is one more than any race needs. One user `Close` plus the heartbeat's `Close` gives the second `Close`.

**XClientCache**
- Two callers on one endpoint are all the dial race needs.
- Two endpoints let Failover move between servers.
- `Retries` = 1 makes the loop run twice.
- `MaxDials` = 3 allows re-dials after evictions, and a conn rejected by a plugin. A dial beyond the bound fails, which is a real `Connect` error path. The run passed with `MaxDials` = 4 as well, but took over 5 minutes.
- `Threshold` = 1 makes the first failed dial trip the breaker. With two callers, the bound `Threshold - 1 + 2` is reached: `BreakerReadyOffByOne` goes past it.

**ServerShutdown.** Two connections with one request each are enough for `Close`, `Shutdown` and the handlers to interleave across connections. They are also enough for one connection to be rejected by the accept plugin while the other is served.

**XClientFork.** Three endpoints, any subset of them with a client, and every outcome for each: enough for a success to race two failures and for the timer to fire between any two steps.

**Selector.** Three keys and weights -1..2 give windows of up to 6 selections; 8 selections between updates cover a full window and the start of the next. Two updates let `s.i` and the ring outlive a change of list. `RttBound` = 1100 covers every case of `CalculateWeight`.

**XClientFailbackup.** One call, two endpoints and every outcome of both `Go`s and both replies; the cancel can come at any point. Failbackup never sends more than two requests.

**ServerRequest.** Two requests on one connection, each of every kind: enough for a failed auth to be followed by a request that must not be read, and for a rate-limited request to be followed by a normal one. Three requests passed as well before the registry was added (2.2M states, under 4 minutes), but they add no new path. One path and two names, with two registration calls, cover these cases:
- `Register` then `RegisterFunction` on the same path, and the reverse;
- a name that is a method, a function, a router handler or nothing;
- a request read before any registration and handled after it.

Two plugins are enough for two plugins to share a hook in either order:
- a rate limiter, implementing `PostReadRequest`;
- a plugin implementing every hook the server uses.

A heartbeat's path, name, codec and auth result take one value, because nothing reads them.

**MessageCodec.** One path, one method, two metadata keys of lengths 1 and 2, values of length 0 and 1, and payloads of length 0 and 6, so that a longer earlier message leaves bytes in the pooled buffer. Two decodes in a row are enough for a pooled buffer to be reused.

**Symmetry.** It is used only in the safety-only run, over the callers and the endpoints.

## 5. Fairness

**RPCClient.** Weak fairness applies to the goroutines the runtime keeps scheduling:
- the callers;
- the read loop;
- the heartbeat;
- the peer's reading and replying.

User `Close`, server disconnects and deadlines are not fair: they may never happen.

**ServerShutdown.** Weak fairness applies to `serveConn`, the handlers, the writers, the accept loop, and `Shutdown` once it has been called. The poll is fair only on its `handlerMsgNum = 0` exit, because the ticker re-checks it every second. The clients, the calls of `Shutdown` and `Close`, and the ctx deadline are not fair.

**XClientFork.** Fork's own steps and every goroutine are weakly fair. The one-minute timer is not: `ForkAllFinish` must hold without it, because Fork waits for it only when a goroutine is stuck.

**XClientFailbackup.** Call's steps, the low-level client's completion of a sent request and the `BackupLatency` timer are weakly fair; the caller's cancel is not.

**ServerRequest.** Each handler goroutine is weakly fair. Reading and registering are not: the client may never send again, and the user may never register again.

**RPCClient refinement.** The abstract `CallSession` assumes weak fairness of each call's `Return`. The refinement check shows that `RPCClient`'s own fairness implies it: the fair read loop, callers and heartbeat.

**XClientCache, Selector, MessageCodec.** No liveness is checked, so they have no fairness. Selectors and readers are passive and may stop anywhere, so these runs do not check deadlock.

## 6. Findings

These are the violation runs above. `PROJECT.json` holds the details.

1. **`Client.Close` unlocks twice** when the client is closing or shut down (`client.go:296-298`). This is a fatal runtime error, not the documented `ErrShutdown`. `heartbeat()` reaches it after a server disconnect, and `removeClient` reaches it on every uncovered error, because it closes the client twice (`MCXClientCacheEvictCrash.cfg`).
2. **`Shutdown` can return with requests unanswered.** The in-flight counter is incremented inside the handler goroutine (`server_serve.go:263`).
3. **Service errors reach the client as successes.** `defer res.HandleError(err)` (`server.go:142`) binds `res` and `err` while both are still nil, so it never marks the response. An error from decoding the args, a plugin, the method itself (or a recovered panic) or encoding the reply is answered with status Normal and no `__irpc_error__`. When the method fails, `err` is also overwritten by the reply's encoding (line 206). The client then completes the call with a nil error. Spec §7 says such errors surface as `ServiceError`.
4. **Fork returns nil when every call failed.** A goroutine signals `done` before it appends its error (`xclient_fork.go:71`), so the final `err.Error() == "[]"` test can run first.

The further reproductions add:
- The read loop does not delete pending calls after completing them (`client.go:187-190`).
- `getCachedClient` can dial twice (`xclient_cache_client.go:55-68`).
- Fork's goroutines write `*reply` after Fork returned (`xclient_fork.go:69`).
- `createICMPWeighted` panics on a key without `@` (`selector_weightedICMP.go:41`).
- Servers of weight 0 are selected, contrary to the comment at `ping_utils.go:29`.
- With AsyncWrite, handlers can lose their responses to `serveConn`'s `close(writeCh)` (`server_serve.go:202`).
- The consistent hash drops listed endpoints whose new metadata is `""` (`selector_consistent_hash.go:36`).
- A metadata key length near 2^32 panics in `decodeMetadata` (`message.go:349-353`) instead of returning `ErrMetaKVMissing`. The client's read loop has no recover, so this crashes the client process.
- Failbackup evicts a client no request used (`xclient_call.go:139-141`).
- Failbackup returns nil with no reply when the backup's `Go` fails (line 142).
- Failbackup returns the primary's failure while the backup may still succeed (line 148).
- `RegisterFunction` on a path registered with `Register` panics on the nil function map (`server_register.go:194`).
- `Register` on a path that has functions replaces the service and drops them (`server_register.go:102`).
- Every `Post*` loop of the server's plugin container stops at the first error (`plugin_container.go:178` and the others). Spec 163 says `Post*` errors are aggregated or logged.
- A connection that a `ConnCreated` plugin rejects is never closed (`client_connect.go:62-65`), and `DoConnCreateFailed` is skipped.
- `DoPostConnClose` is called twice for every connection that `Shutdown` or `Close` closes while it is served: once by them (`server.go:410`, `server.go:332`), and once by `serveConn`'s `closeConn` (`server_base.go:19`).

## 7. What is not modelled, and why

**Not modelled yet:**
- `handleServerRequest`, the bidirectional channel;
- the router handlers' `Context` writes (not under `src/`);
- `SendMessage`;
- `Restart`;
- the header bit packing of `message_type.go`.

Section 2 plans these.

**Not modelled at all:**
- the reflection inside registration (`suitableMethods` and the signature checks), abstracted to a chosen method set and a boolean; `UnregisterAll`, which only calls the plugins;
- the server plugin hooks whose results are discarded, and `DoRegister`/`DoUnregister` (aggregated errors that change no state);
- the rest of the client plugin container: every result is discarded except `DoConnCreated`'s, which is modelled in `Connect`'s outcomes. Spec 163 says `Pre*` errors short-circuit the operation, but `wrapCall` ignores `DoPreCall`'s error (`xclient_call.go:184`). That is visible by reading the code, with no interleaving for a model to add;
- a `PreReadRequest` plugin returning `ErrReqReachLimit`. It makes `handleError` dereference a nil request (`server_serve.go:340`), and the recover closes the connection. The model cannot tell this from any other read failure (hazard note);
- the gateways and JSON-RPC;
- compression, the codecs, logging, listeners and discovery backends;
- the jump hash function and the ICMP pinger, library code whose effect is abstracted as above.

These are either out of the core's scope (spec §1) or library I/O, with no state that a model checker adds to.
