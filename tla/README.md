# A verification project for ext-zookeeper

ext-zookeeper is a PHP extension (C++, Swoole/phpx) over a vendored copy of the
single-threaded ZooKeeper C client. This directory holds TLA+ modules that model
the client as its source defines it, TLC configurations that check them on small
instances, and TLAPS proofs of their main properties for every value of the
constants. `PROJECT.json` maps every definition to the lines it models.

Paths below are relative to the repository root; line numbers without a file are
those of `src/zk/zookeeper.c`.

## The system

| Component | State it keeps | Operations | What makes it correct |
|---|---|---|---|
| Connection handle (`zookeeper.c`, `zk_adaptor.h`, `st_adaptor.c`) | `state`, `fd`, `connect_index`, `client_id`, `input_buffer`, `ref_counter`, `close_requested` | `zookeeper_init`, `zookeeper_interest`, `zookeeper_process`, `handle_error`, `zookeeper_close` | no use after free, no forgotten or reused descriptor, the address index in bounds, terminal states terminal, a deferred close happens |
| Request queues and completions | `to_send`, `to_process`, `sent_requests`, `completions_to_process` | `zoo_aget` and its siblings, `process_completions`, `free_completions` | every request completed at most once and in order, none forgotten while the handle lives; a reply matched with its own request |
| Authentication | `auth_h` | `zoo_add_auth`, `auth_completion_func`, `send_auth_info` | every credential sent on every session, each answered, with its own answer |
| Packet framing (`send_buffer`, `recv_buffer`) | `curr_offset` of the packet at the head of a queue | `flush_send_queue`, `check_events` | the byte stream is a sequence of whole packets |
| Watches (`zk_hashtable.c`) | three tables: path to list of watchers | registration, `collectWatchers`, `deliverWatchers`, SetWatches on reconnect | one-shot, none lost on reconnect, none called for another event |
| Keepalive and deadlines | `last_recv`, `last_send`, `last_ping`, `next_deadline`, `recv_timeout` | `zookeeper_interest` | a silent peer is given up in time, an idle session kept alive |
| PHP binding (`src/php/api.cc`, `zklib.cc`) | the handle in the object, the watcher callable, a `QueryResult` on the caller's stack | `zk_dispatch`, the methods, `watch_func` | a method returns its own result; no completion writes to a result that is gone |
| Paths, chroot | `chroot` | `isValidPath`, `prepend_string`, `sub_string` | exactly the valid paths pass, and mean below the chroot what the caller meant |
| Host list | `addrs`, `addrs_count` | `getaddrs` | every usable address of every host once, within what is allocated |
| Asynchronous API, multi (`zoo_aget` ... `zoo_amulti`, `deserialize_response`, `deserialize_multi`) | a request and its completion | ten calls and the multi request | the completion reads the record that was sent, each operation of a multi its own |
| Records (`recordio.c`, `zookeeper.jute.c`) | an archive's buffer, length and offset | one writer and reader per type, one pair per record | nothing outside the buffer, what is read is what was written or an error, what is left can be freed |
| ACL conversion (`zklib.cc`) | | `convert_array_to_acl` | the ACL that was passed |
| Synchronous API, hash table, logging, `cli.c`, `winport.c` | | | not used by the extension, third-party, output only, or not part of it: not modelled |

How they interact. A PHP method queues one asynchronous request with a pointer to
a `QueryResult`, then `zk_dispatch` (api.cc:66) loops over `zookeeper_interest`,
`select` and `zookeeper_process` until the completion has cleared `running`.
Connecting, timeouts and pings happen inside `zookeeper_interest`; reading,
writing, matching replies and running completions inside `zookeeper_process`. Both
may fail in `handle_error`, which closes the socket, fails every outstanding
request and moves on to the next server. Watcher events are put on the queue of
completions; running one calls a PHP callable in the middle of whichever of these
functions was active.

What is hard. There is one thread and no preemption. The difficulty is
re-entrancy: `process_completions` runs user code below `handle_error` (twice in
one call), `check_events` and `zookeeper_process`, and that code may submit
requests, close the handle, or (a PHP watcher that calls `get()`) poll the same
handle again. Every assignment those functions make after the call works on
state the user code may have changed. The second difficulty is failure: the
connection may be lost, hang or be refused at any point, the session may have
expired, a credential may be rejected, the handle may be closed: each of these
has to end every outstanding request, and once. (Closing the handle does not, see Findings.) `PROJECT.json` lists the hazards with the line
where each bites.

## Modules

| Module | Contents |
|---|---|
| `ZkHandle` | the handle: connection, queues, completions, authentication, close, re-entrancy |
| `ZkPromise` | abstract specification: what the handle promises about requests |
| `ZkWatches` | the watch tables, their events, their re-registration after a reconnect |
| `ZkDispatch` | the PHP methods: `zk_dispatch`, `wait`, results on the stack, watchers that call methods |
| `ZkSocket` | the socket byte by byte, and the clock: partly sent and received packets, pings, timeouts |
| `ZkJute` | the sixty records of the protocol, as lists of fields |
| `ZkRecords`, `ZkRecords_MC` | the archives that write and read them |
| `ZkPaths` | paths and the chroot, as operators |
| `ZkHosts` | `getaddrs`: from the list of hosts to the array of addresses |
| `ZkCalls`, `ZkCalls_MC` | one call from its arguments to its completion, on top of `ZkPaths`, `ZkHosts` and `ZkJute` |
| `ZkSequences` | lemmas about queues, stacks and functions by recursion, for the proofs |
| `ZkHandle_proof`, `ZkHandle_flat_proof` | proofs about `ZkHandle`: for every application, and for those whose watchers do not poll |
| `ZkWatches_proof`, `ZkDispatch_proof`, `ZkSocket_proof`, `ZkRecords_proof` | proofs about the module of that name |
| `ZkCalls_proof` | proofs about `ZkCalls`, with `ZkPaths` and `ZkHosts` |

How they fit. `ZkHandle` has the control of the C client with packets as units. `ZkSocket`
opens up what it takes as atomic: bytes and time. `ZkWatches` and `ZkDispatch` reduce the
handle to what `ZkHandle` shows of it (answers in order, an error that first runs the session
watchers and then fails everything) and add the tables and the PHP methods. `ZkCalls`
follows a single call, whose travelling is the others' subject; `ZkRecords` shows that a
record that is sent is the record that is read, which `ZkCalls` uses by comparing records
instead of bytes.

### ZkHandle

*State.* One variable per field of `zhandle_t` that matters, named after it.
Packets and completions are records of a kind and a number. `stack` is the C call
stack: what is left to do of each function that is suspended, innermost last.

| Frame | The rest of the function |
|---|---|
| `epilog` | `api_epilog` at the end of an API function (1837) |
| `process` | the loop of `zookeeper_process` and the completions after it (2238-2347) |
| `checkEvents` | `check_events` after the CONNECTED session event (1822) |
| `handleError` | `handle_error` from `cleanup_bufs` on (1273), with its `rc` |
| `completions` | the loop of `process_completions` (2152) |
| `watcher` | user code |

*Actions.* An action is everything a function does between two points where user
code may run. `zookeeper_interest` is split by outcome (`InterestWrap`,
`InterestConnect`, `InterestConnectNow`, `InterestConnectFails`,
`InterestTimeout`, `InterestPing`), `check_events` likewise (`ProcessConnected`,
`ProcessFails`, `ProcessWrite`, `ProcessNothing`, `ProcessRead`,
`ProcessEstablished`, `ProcessExpired`). The loop of `zookeeper_process` takes one
packet at a time. An API function that fails goes through `handle_error`: first
`HandleError` (close the socket, queue the session event), then the watchers, then
`HandleErrorTail`. `Submit` stands for `zoo_aget` and the other asynchronous calls,
which share one body: validate, `add_completion`, queue, flush.

*User code.* `UserTurn` holds at top level and inside a watcher. There the
application may submit, add a credential or close. `MayPoll` says when it may call
`zookeeper_interest` and `zookeeper_process`: always at top level, inside a watcher
only if `Reentrant` (and, as a bound, while the stack is lower than `MaxStack`).
Completions run no user code: the only ones the extension passes
(api.cc:128-323) store into the `QueryResult`.

*Environment.* The server answers packets in order, may have forgotten the session
(a handshake's answer with another id), may reject a credential, may send events. The
connection may break (`down`) or go silent (`hung`) at any time; both directions
are FIFO until then and their contents are lost with the connection. A packet
is atomic except that a part of it may have been read when a call returns. If
`check_events` forgets such a part (1822, after a nested poll), what follows it on the
connection is taken for the length of a new packet: `CutShort` leaves the client waiting for bytes that
never come, or the connection lost, and nothing behind it is read as what it is.

*Time* is abstracted: the receive deadline may have passed at any call, a ping may
be due whenever nothing is outstanding.

*External.* Server, network, Swoole's socket hooks, the PHP engine. When a
hook yields, another coroutine may run inside a function of the client; that is not
modelled.

### ZkPromise

Requests are numbered as accepted. Each is completed at most once, in order. A live session
may be lost, after which nothing more is accepted; completions of what was
accepted still run. A handle that is freed with everything answered is `closed`; one that is
freed with requests outstanding is `dropped`, by a step of its own (`Drop`), and they are
never completed. No completion runs after either. `ZkHandle!Promise`
instantiates the module: `issued` is the number of accepted requests, `outcomes` the
completions that ran, `phase` is `lost` in an unrecoverable state of a handle that is not freed.

The module says what the code does. The comment in `destroy` (419) says more, that outstanding
completions are called; `CompletedByClose`, that `Drop` never happens, is false (see Findings).

### ZkWatches

*State.* `tables` holds the three hash tables (active_node_watchers,
active_exist_watchers, active_child_watchers), `lastZxid` is `last_zxid`. The
connection is reduced to what `ZkHandle` shows of it: packets are handled in order, an
error runs the session watchers (`HandleError`), then drops what was under way and
fails the outstanding requests (`HandleErrorTail`). `outbox` is `to_send` with what the
server has not read yet, `inbox` what the server has sent. The default watcher of a
handle is one of the watchers. `stack` is again the C call stack; a `watcher` frame has
the rest of the delivery list and whether it delivers a session event.

*Actions.* `ProcessReply` moves a registration to the table its result code selects
(zk_hashtable.c:326), `ProcessEvent` takes the watchers of an event out of the tables
(260) and queues them as a completion, `DeliverWatchers` and `NextWatcher` call them
(272), with user code after each. `Establish` queues SetWatches in front (1408).

*Left out.* Reconnects by a watcher below `handle_error`, AUTH and PING packets and
sessions that end: see `ZkHandle`. `ReplyHasRequest` (below) is a fault of that kind, so
what `ZkWatches` shows holds as long as packets stay in step. `zoo_set_watcher` is not
modelled.

*External.* The server: znodes with czxid, mzxid and pzxid, one-shot data and child
watches per connection, and what it does with SetWatches (an event for a path that
changed since the given zxid, a watch for the others). A server never goes back behind
what the client has seen, as ZooKeeper's handshake makes sure.

*History variables.* `since` (zxid of the read that set the watchers of a path), `seen`
(newest zxid shown by a completion), `owed` (registrations minus calls). The zxid in an
event is history too: on the wire it is -1.

### ZkDispatch

*State.* `results` is the memory of each `QueryResult`, `Gone` when its method has returned;
`stack` has a frame for each method in the loop of `zk_dispatch` or `wait` (`loop` before
`zookeeper_interest`, `poll` before `zookeeper_process`), for a call of the client that is
suspended, for `handle_error` below its watchers, for `process_completions` and for a PHP
watcher. `method` and `left` are history.

*Actions.* `Call` is any method whose request is accepted, `DispatchDone` and `MethodReturns` its
end, `LoopFails` what the loop does with an error (`errCode`, `false`). `Interest*` and
`Process*` are the outcomes of the two polls. A completion writes into the `QueryResult` of its
request if it still exists (`Completed`); `ResultsAlive` is about those that do not.
`watch_func` calls a PHP watcher, who may call methods (at most `MaxNested` deep).

A method whose request is refused makes no request and does not dispatch: `Refused` puts down in `refusal`
what the client answered and what is then in `errCode`, until `RefusedReturns`. `Methods` has what
the methods differ in: the completion, whether it registers a watcher, what it answers (its own result, or `null`
in `watch` and `true` in `watchChildren` whatever came of the request), and whether it sets `errCode`
when it is refused (`tells`: all but these two). `setAcl` may also reject its arguments before
it asks the client, and then there is no code.

*Abstracted.* Which descriptor is polled, and packets: a poll may find nothing, a part of a
packet (`ProcessPartial`, at most `MaxPartial` times), an answer, an event or a failure.
Swoole's coroutine mode is not modelled: `select` is.

### ZkSocket

*State.* `toSend` and `input` with their `curr_offset`s, `outstanding` and `auths` the lengths of
the request queue and the credential list. `idleRecv` and `idleSend` are the ages of
`last_recv` and `last_send`, in ticks; `left` is what is left of the timeout of `select`.
`partial`, `inbound`, `pos` and `broken` are the other side: bytes of an incomplete packet
that the server holds, answers on their way, bytes of the first one already read, the end of the
stream. `torn`, `cut` and `waiting` are history.

*Actions.* `FlushSendQueue` takes any number of whole packets and any part of the next. `Reads`
is `recv_buffer`: the header, then in the same call as much of the body as there is.
`Interest`, `InterestPings`, `InterestTimesOut` and the others are the outcomes of
`zookeeper_interest`; `Sleep` computes the timeout. `Tick` lets time pass while `select` sleeps,
and while the application is late, `Late` ticks at most.

*Abstracted.* A length has 2 bytes, bodies 1 or 2; a third of `recv_timeout` is `Third` ticks.
Ages are kept only as far as they are compared.

### ZkJute and ZkRecords

A record is the list of its fields: the generated `serialize_X`, `deserialize_X` and
`deallocate_X` all walk the same list, and a nested record stands in place of its field.
A behaviour of `ZkRecords` is one record: its fields are written one by one, with any of a few
contents each; the bytes arrive whole or cut anywhere; the same fields are read. `out` and `in` are the
archives (`len`, `off`), `rc` the variable of the reading function, `got` what is in
memory, with where each pointer points: a record on the stack is uninitialised, the
elements of a vector come from `calloc`, so a pointer that was not read is `wild` in one and null
in the other. `EndVector` assigns `rc` without looking at it, as the generated code does.
A byte is a digit in base `Base`, so that numbers of every width keep their sign and overflow.

### ZkPaths, ZkHosts and ZkCalls

`ZkPaths` translates `isValidPath` into the condition under which its loop stops (`Rejects`) and
compares it with what a valid path is (`WellFormed`: no empty component, no `.` or `..`, no
control character). `ZkHosts` is `getaddrs` host by host: a host is what its text and the
resolver make of it. `Collect` appends its addresses and grows the array, `Shuffle` swaps.
The extension calls `zoo_deterministic_conn_order(1)` and so does not shuffle; other users of
the client do.

In `ZkCalls` a handle is made (`zookeeper_init`), one call turns its arguments into a request
(`Submit`, `setAcl`, `zoo_amulti`), the server answers or the connection is lost, and the
completion reads the answer. Each function of the API is the operation, the record of its request and the type of
its completion, which the code chooses in three places. `deserialize_multi` is a loop of
`TakeEntry`. A create operation of a multi request has its flags: its path is checked for a
sequential node if they say so. `zoo_amulti` goes on after an operation with a bad path and frees the
path of that one once more, or a pointer nobody has set (3174, 3186, 3201, 3214): where it may, the call ends in
the stage `undefined`, and nothing is said of what follows.

*External.* The server's answers (`Response`, `Item`) and the resolver.

## Properties

| Property | Says |
|---|---|
| `RequestLedger` | completions run + completions ready + outstanding requests = accepted requests, in order, nothing twice |
| `PipelineMatches` | `sent_requests` lists exactly what is on its way on this connection, reply, packet or unsent, in this order |
| `ConnectIndexInBounds` | `connect_index` is an index of `addrs` or `addrs_count` |
| `DescriptorOwned` | a closed descriptor number stays in `zh->fd` only while `handle_error` is suspended, and no open one is forgotten |
| `NoUseAfterFree` | the handle is freed only when no function of the client is suspended |
| `LossIsFinal` | expiry and authentication failure are never left |
| `NothingOwedAfterLoss` | a lost session has nothing outstanding once the call that found out has returned |
| `WaitingAuthOnItsWay` | in an established session a pending credential is sent, to be sent, or answered |
| `KeepsPromise` | the handle implements `ZkPromise`: completions run at most once, in order, for accepted requests only, no request is accepted in a lost session, and nothing runs on a freed handle |
| `CompletedByClose` | a handle that is freed has completed every request (false, see Findings) |
| `RequestAnswered`, `AuthAnswered`, `CloseHappens` | liveness |
| `WatchCovered` | in a session, a watcher in a table is backed by a watch of the server, an event under way or a queued SetWatches |
| `EventBeforeData` | no completion shows a change before the watchers of that change are called |
| `OneShot` | a watcher is called for events at most as often as a reply registered it |
| `OnlyNewChanges` | a watcher is collected only for a change after the read that set it |
| `WatchFires` | liveness: a watcher whose znode changed leaves its table |
| `ResultsAlive` | a completion still to run has its `QueryResult` on the stack, with two exceptions the code makes: a method left on ZNOTHING, and `addAuth` left by a failed ping |
| `HonestAnswer` | a method that returns `result.retval` (nine of the eleven) answers, once its completion has run, what that completion stored; `watch` answers `null` and `watchChildren` `true` in any case, and are left out |
| `FailureTold` | a request of any method that was accepted and failed has set `errCode`, to its own error if the server answered it; one that was refused has set it to the client's code, except by `watch` and `watchChildren` and where `setAcl` rejects its arguments itself, which return false and set nothing |
| `OuterFirst` | a method is not answered before one it was called inside of |
| `MethodsReturn` | liveness: every method returns |
| `FramesWhole` | a byte sent always continues the packet the server has begun, unless a credential was put in front of a partly sent packet |
| `Aligned` | the offset in the input buffer is in step with the stream |
| `GiveUpInTime` | the last packet received is never older than two thirds of `recv_timeout`, plus what the application is late |
| `PingInTime` | with nothing under way the last packet sent is never older than a third |
| `PromptServerKept` | a server is given up only when it has owed an answer for about a third |
| `WithinBounds` | no archive is written or read outside its buffer |
| `RoundTrip` | what arrives whole is read as it was written, to the last byte, unless a string is null |
| `NoSilentLoss` | a record without vectors that is read with success is what was written |
| `SafeToFree` | what a successful read leaves can be deallocated |
| `AddressesKept` | `addrs` has every usable address once and fits its allocation; after a failure none |
| `RequestFaithful` | absolute paths are refused exactly when not valid, and arrive below the chroot as they were passed; a multi request is sent only if the paths of all its operations are valid; an ACL of like entries arrives as it was passed |
| `ReplyReadable` | each function's completion reads the record its operation is answered with |
| `MultiInOrder` | each operation of a multi request is told its own outcome, the caller that of the one that failed |
| `TypeOK` | the type invariant, one in each module |

## Runs

Bounds of `ZkHandle`: `MaxXid` requests, `MaxAuth` credentials, `NumServers` addresses, `MaxPipe`
packets under way before the environment or a ping adds one more, `MaxStack` stack
height at which a watcher still calls the API. Deadlock checking is off in the runs of
`ZkHandle`, `ZkWatches` and `ZkDispatch`, where the program may stop: a handle that was freed, or
that is lost and that nobody closes, all calls made. The others never stop but where they
say so (`Over`, `Done`).

| Run | Bounds | States | Shows |
|---|---|---|---|
| `handle` | 2 servers, 1 request, 1 credential, pipe 1, `FairSpec` | 0.18 million | `TypeOK`, `PipelineMatches`, `ConnectIndexInBounds`, `DescriptorOwned`, `NothingOwedAfterLoss`, `WaitingAuthOnItsWay`, `RequestAnswered`, `AuthAnswered`, `CloseHappens` when watchers do not poll |
| `handle_reentrant` | 1 server, 2 requests, `Reentrant` | 1.5 million | `RequestLedger`, `NoUseAfterFree`, `LossIsFinal`, `KeepsPromise` when watchers poll too |
| `handle_close`, `handle_authowner`, `handle_replyassert` | 1 server, the smallest that shows it | | one violation each, see Findings |
| `watches` | 1 path, 2 watchers, 2 requests, 2 writes, 2 lost connections, watchers poll, `FairSpec` | 1.0 million | `TypeOK`, `WatchCovered`, `EventBeforeData`, `OneShot`, `OnlyNewChanges`, `WatchFires` |
| `dispatch` | 3 accepted calls of `addAuth`, `setAcl`, `watch`, any number of refused ones, one level of nesting, 1 partial packet, `FairSpec` | 0.31 million | `TypeOK`, `ResultsAlive`, `HonestAnswer`, `FailureTold`, `OuterFirst`, `MethodsReturn` |
| `dispatch_nothing` | the same | | a violation, see Findings |
| `socket` | 2 requests, 1 credential, 2 pings, a third of 3 ticks, 1 tick late | 0.53 million | `TypeOK`, `FramesWhole`, `Aligned`, `GiveUpInTime`, `PingInTime`, `PromptServerKept` |
| `records` | all records; base 4, int 2 and long 3 bytes, 2 bytes allocated at first, vectors of 2, contents of 0 and 3 bytes | 2.4 million | `TypeOK`, `WithinBounds`, `RoundTrip`, `NoSilentLoss`, `SafeToFree` |
| `calls` | all paths of up to 5 characters out of 4, 5 connect strings, lists of up to 3 of 8 kinds of hosts, multi requests of up to 3 operations | 0.27 million | `AddressesKept`, `RequestFaithful`, `ReplyReadable`, `MultiInOrder` |
| `calls_loss` | the same | | a violation, see Findings |

Why the bounds are enough. Two requests are the least that can be reordered, matched
wrongly, or be partly answered when the connection is lost; two servers the least
for the index to move and wrap; two credentials the least for one to take the
other's answer. `handle` has one request because the liveness properties cost most of its time: the
request, the credential, the handshake and a ping are what can be out of step there. The order among several requests is
in `handle_reentrant` (`RequestLedger`), and `PipelineMatches` is proved for any number. A run
of its safety properties alone with two requests and two packets (2.2 million states) passed as well. Connections may fail any number of times, since nothing
counts them. Stack height 9 allows a watcher, inside it a call that fails and runs
another watcher, and inside that a third call.

For watches: the tables never relate two paths; two watchers are the least for a list that
is suspended in the middle; two writes the least for a change and its undoing, or for a znode
that is deleted and created again unseen; two lost connections the least for a SetWatches
that is lost itself. A run with three requests and one lost connection (7.5 million
states) passed as well.

For methods: three calls are the least for a watcher's method inside another one with a
third request queued behind both. `addAuth`, `setAcl` and `watch` stand for the eleven methods: they
differ in whether the request waits in the queue or in the credential list, whether it
registers a watcher, whether the method returns its own result, and whether one that is refused says why; the
others are one of these with another completion (`setAcl` alone has a check of its own, `watchChildren` differs from `watch` in the constant it answers). For the socket: two requests and a ping make a head that is partly
sent, one behind it and one in front; two bytes of length and one or two of body make every
cut a partial length, a partial body or a boundary; a third of three ticks leaves a tick
before, at and after each deadline. For records: two bytes of first allocation and contents of three
make every `resize_buffer` case happen (no, one and two doublings), two elements are the least for a
failure behind an element that was read. For calls: five characters hold a `..` between two
other characters and a chroot of two; three operations have one before and one behind the one that fails.

`ZkHandle`'s constants are the application's calls, not the state: every queue is
bounded by them, so the runs are exhaustive for these calls.

### Fairness

`FairSpec` assumes of

- the functions of the client and of watchers: that they go on and return
  (weak fairness of `Continue`);
- the server: that a server that is up answers (weak fairness of `ServerStep`);
- the clock: that when a peer stays silent the deadline passes (strong fairness of
  `InterestTimeout` on a hung peer: the application comes back again and again
  between other calls);
- the application: that it keeps dispatching as `zk_dispatch` does. `select`
  reports a condition that persists, so whatever is ready again and again is done
  in the end: strong fairness of reading, writing what is queued, finishing a connect, noticing a
  broken connection; weak fairness of connecting while there is no descriptor.

`ZkWatches!FairSpec` assumes weak fairness of all steps but requests, writes and errors:
these are bounded, so each of the others is taken in the end, and no choice among them
matters.

`ZkDispatch!FairSpec` assumes that the program does not stop inside a method (weak fairness of
its own steps); that a watcher does not call `wait()`, or methods that are refused, for ever and a `wait()` in a
watcher ends (strong fairness: a busy connection may keep it going between two times);
that the server answers when it has something to answer, and that the closed descriptor
`handle_error` leaves behind for a watcher that polls fails in the end.

Nothing is assumed of the network: connections may fail forever, and every request
is then completed by a connection loss. Nothing is assumed of the API calls.

## Findings

Each is a run TLC reports as violated.

- `CompletedByClose`: a handle closed outside of any call with a request outstanding is freed
  without its completion being called. `destroy` says that it calls outstanding completions (419), but
  `cleanup_bufs` only queues them (1225), and nobody runs that queue any more.
- `AuthAnsweredForItself`: the first AUTH answer completes every pending
  credential, also one that is still queued.
- `ReplyHasRequest`: with nested polls the assertion at 2305 can fail. In the shortest
  trace a CONNECTED watcher polls, the connection times out and it starts the next one;
  line 1822 then clears `input_buffer`, and the handshake's answer is read as the reply to
  a request that does not exist.
- `NothingIsNoError`: `zk_dispatch` ends on any code but ZOK (api.cc:108). When a packet arrives in pieces
  `zookeeper_process` returns ZNOTHING, "not an error": the method returns false and its
  request stays outstanding with a pointer to a `QueryResult` that is gone, which is why
  `ResultsAlive` makes an exception of it.
- `EntryForEveryHeader`: a multi request that is outstanding when the connection is lost
  gets an answer of a header alone, in which `deserialize_multi` never finds the end; the
  assertion at 2030 fails when its entries are used up. The extension has no multi request.

Seen on the way and stated in the models as the code has it: a refused `watch` or `watchChildren` returns
false with the `errCode` of an earlier failure (api.cc:669, 686), and so does `setAcl` when it rejects its arguments
(614); `watchChildren` returns true although its request failed (690); `zoo_amulti` frees a path twice after a bad
one (3174), and the extension does not call it; `ConnectIndexInBounds` fails with `Reentrant`, because `handle_error` increments
`connect_index` after its session watcher, and so do `DescriptorOwned`, `PipelineMatches` and
`WaitingAuthOnItsWay`, because it goes on with a connection the watcher has made; a credential added while a packet is partly sent cuts
that packet (`cut` in `ZkSocket`); an ACL array becomes copies of its first entry; a vector
whose elements cannot be read is a success.

The ones with nested polls need a watcher that polls. `tests/swoole_zookeeper/testWatch.phpt`
shows that PHP watchers are expected to call methods of the object. The extension passes no default watcher context
(`watch_func` returns at once without one), so there PHP code runs in session events
only while a watch is active, from the second session on; the model covers any user of
the client.

## Proofs

`ZkHandle_proof` proves, for all values of the constants, `Reentrant` included, from
`HandleAssumption` alone:

| Theorem | Statement |
|---|---|
| `TypeCorrect` | `Spec => []TypeOK` |
| `Ledger` | `Spec => []RequestLedger` |
| `FreedUnused` | `Spec => []NoUseAfterFree` |
| `LossFinal` | `Spec => LossIsFinal` |
| `Implements` | `Spec => KeepsPromise` |

*Types.* `TypeOK` is inductive; one lemma per group of actions.

*Ledger.* `RequestLedger` is inductive given `TypeOK`. Each action does one of
five things to the three parts of the ledger (keep them, run the first completion, drop an event, move the
head of `sent_requests` to the ready ones, move all of them), and one lemma covers
each.

*Freed handle.* `NoUseAfterFree` is not inductive: nothing in it says why
`ref_counter = 1` in `api_epilog` means that this is the last frame. `StackInv` says it:
`ref_counter` is the number of `epilog` frames on the stack, the outermost frame, if any,
is an `epilog`, and a freed handle has an empty stack. `EpilogCount` counts the frames.

*Loss.* `LossIsFinal` fails at the actions that assign `state` from the socket or from
a packet, unless a lost handle has neither. `LossInv` says that it may have a
descriptor or unprocessed packets only while the tail of
`handle_error` is pending on the stack with no `process` frame above it.

*Refinement.* `Implements` shows that `Init` implies `Promise!Init` and that every
step is a step of `ZkPromise` or a stutter, under `TypeOK`, `StackInv`, `LossInv`
and `RequestLedger`: running a completion is `Complete`, since the ledger makes it the next one;
submitting is `Issue`, losing the session `Lose`, freeing the handle `Close` if nothing is owed and `Drop` if something
is. The theorem does not say that requests are answered: that is liveness while the handle lives (`RequestAnswered`), and false when it is closed.

`ZkHandle_flat_proof` proves the rest of what the runs of `ZkHandle` check, under the hypothesis `~Reentrant`
of its theorems, and else for all values of the constants:

| Theorem | Statement |
|---|---|
| `Descriptors` | `Spec => []DescriptorOwned` |
| `IndexBounded` | `Spec => []ConnectIndexInBounds` |
| `LossSettles` | `Spec => []NothingOwedAfterLoss` |
| `InOrder` | `Spec => []PipelineMatches` |
| `CredentialsTravel` | `Spec => []WaitingAuthOnItsWay` |

*Why the hypothesis.* With watchers that poll, TLC finds `DescriptorOwned`, `ConnectIndexInBounds`,
`PipelineMatches` and `WaitingAuthOnItsWay` violated with one server, one request and one credential:
a watcher below `handle_error` starts the next connection, and what `handle_error` still has to do
hits that one. Watchers of these theorems may submit, add credentials and close.

*The argument.* API calls that poll do not nest then, so the stack is one chain of calls (`Nested`). It
tells who is suspended, hence who has closed the descriptor (`Descriptor`) and whether
`connect_index` has moved (`Index`: an open descriptor means an index below `addrs_count`).
`Settled` says of a lost session that nothing is outstanding, or the tail of `handle_error` is still to come.
The four places a request passes (`to_send`, the server, its answers, `to_process`)
are four consecutive pieces of one line in the order of `sent_requests` (`Lined`); joining, cutting and appending to
lines are lemmas. A waiting credential has an AUTH packet in that line or is still to be sent by
the end of the handshake (`WaitingTravels`).

`ZkWatches_proof` proves, from `WatchesAssumption`, for every set of paths, watchers and operations:

| Theorem | Statement |
|---|---|
| `TypeCorrect` | `Spec => []TypeOK` |
| `NoWatcherForgotten` | `Spec => []WatchCovered` |
| `EventsFirst` | `Spec => []EventBeforeData` |
| `NoCallTwice` | `Spec => []OneShot` |
| `NoOldNews` | `Spec => []OnlyNewChanges` |

*Safe.* `WatchCovered` says nothing of changes that have happened already, nor of replies that will register
a watcher. `Safe` says for a registration what the server and the packets behind it owe to it: a watch
or an event; if the znode has changed already, the event; and the event before any packet that
shows the change. `Vouched` says it of a reply on its way, for the table its code selects.
*Reset.* After a reconnect, SetWatches is the first request of its connection, and until the server reads it there
is neither an answer nor a watch; it names `last_zxid` and all watched paths, and `Fresh` (the
client has not been shown a change its watchers wait for) makes the server's comparison with that zxid right.
*Lined.* The first `n` outstanding requests are answered in the inbox in this order, the others are in the outbox.
*Zxids, Shown.* Packets come in the order of the zxids they carry, `last_zxid` follows them, and so does what the application has seen.
*Paid.* For each watcher, its table entries, the lists of events ready to be delivered and the
deliveries that are suspended are together at most the calls it is owed: this is `OneShot` before the
call, and counts frames and queue elements by `Count`.

`ZkDispatch_proof` proves, from `DispatchAssumption`, for any number of calls and any depth of nesting:

| Theorem | Statement |
|---|---|
| `TypeCorrect` | `Spec => []TypeOK` |
| `Alive` | `Spec => []ResultsAlive` |
| `Honest` | `Spec => []HonestAnswer` |
| `Told` | `Spec => []FailureTold` |
| `InnerLast` | `Spec => []OuterFirst` |

`Honest` is about the methods that return `result.retval`, `Told` about accepted requests and refused ones (`RefusalInv`: that of
a method that says why it was refused holds the client's code).

None of the four is inductive, since none says when a method may go on. `Cover` does: a completion
that is ready has `process_completions` above the frames of its method, and when the connection is lost a
request that is out has the tail of `handle_error` above them. `Stacked` is the order of the calls on the stack (what may lie on
what, and inner methods have later requests), `Queue` that requests complete in order and that all
later ones are still there (`OuterFirst`), `Fate` that `running` is set exactly while the completion is to come, `Truth`
that a method whose call is about to fail is not told a success any more, `Turn` and `Left` how a method may
leave its request behind: with ZNOTHING, or as a credential with a lost connection.

`ZkSocket_proof` proves, from `SocketAssumption`, for all bounds, lengths and timeouts:

| Theorem | Statement |
|---|---|
| `TypeCorrect` | `Spec => []TypeOK` |
| `GivenUpInTime` | `Spec => []GiveUpInTime` |
| `WholeFrames` | `Spec => []FramesWhole` |
| `InAlignment` | `Spec => []Aligned` |
| `PingsInTime` | `Spec => []PingInTime` |
| `PromptServer` | `Spec => PromptServerKept`, an action property |

`GiveUpInTime` is not inductive, since nothing in it keeps `select` from sleeping past the
deadline; `Deadline` adds that what is left of the sleep ends at the deadline. Every step that lets time pass
takes as much from the sleep or adds as much to the lateness. The bytes: `InStep` relates the offset of the
input buffer to the position in the stream for each state of the connection, `Framed` what the server holds of a
packet to what is sent of the head of `to_send`. The clocks: `Booked` says that `sent_requests` counts what is under
way (unless the stream was torn), so that a quiet connection is one without anything outstanding;
`Timely` that with nothing under way `select` wakes up for the ping (`Resting`), and that a server that owes an answer has been silent
about as long as it has owed it (`Owing`), from which `PromptServerKept` follows.

`ZkRecords_proof` proves, for every record of `ZkJute`, every set of contents, and wherever the input is cut:

| Theorem | Statement |
|---|---|
| `AlwaysWithinBounds` | `Spec => []WithinBounds` |
| `TypeCorrect` | `Spec => []TypeOK` |
| `FreeIsSafe` | `Spec => []SafeToFree` |
| `ReadAsWritten` | `Spec => []RoundTrip` |
| `NothingLost` | `Spec => []NoSilentLoss` |

*Assumptions.* `SizesAssumption`: a byte counts an even number of values, at least four, and a `long` has no fewer bytes
than an `int` (256, 4 and 8 in the code). `LengthsAssumption`: the length of a text and the count of a
vector are positive numbers of an `int`, as the code stores them in an `int32_t`. `TextsAssumption`:
texts are sequences of bytes.

*Pointers.* `SafeToFree` needs that an error stays: a pointer that was not read lies outside of vectors, behind a failure, and
no end of a vector is left that would forget it (`Reported`).

*Numbers.* A number is written as its digits in base `Base`, highest first (`zoo_htonll` of `InMemory`), and read by
`Signed`, a recursive function over these digits. `ReadBack` says that what is read is the number: the recursion of
`Signed` is unrolled digit by digit (`Horner`, `Digits`, `NextDigit`).

*The trail.* The writer leaves a trail (`Written`): for each field the fields that were left and the place reached. The reader is on
it as long as nothing has failed (`Kept`), the fields left to it being the writer's but for the marks of
the ends of vectors (`Stripped`). If all bytes arrive nothing fails; without vectors an error is never forgotten, so
success means that nothing has failed.

`ZkCalls_proof` proves, for every list of hosts, every block size, every path and every number of operations:

| Theorem | Statement |
|---|---|
| `AddressesComplete` | `Spec => []AddressesKept` |
| `FaithfulRequests` | `Spec => []RequestFaithful` |
| `RightRecord` | `Spec => []ReplyReadable` |
| `InOrderOfOperations` | `Spec => []MultiInOrder` |

*Assumptions.* `HostsAssumption`. `ListsAssumption`: the resolver's answers are finite lists, and an address stands for
one place in one of them, so that "once" counts places and two equal `sockaddr`s are two addresses.
`ControlAssumption`: a control character is none of `/`, `.` and the digit that stands for a number.
`CallsAssumption`: paths and connect strings are sequences of characters, a multi request has finitely many operations, an array
has a first entry and so on.

*Addresses.* While hosts are left, the array has each usable address of the first `d` hosts once (`Complete`, `Rest`), where the
hosts left are those behind `d`. `Collect` is unrolled address by address; a swap neither loses nor doubles one.

*Completions.* The answer of a multi request and its list of entries are both taken from the front; each is what is behind a
number `k` in a list that does not change (`Behind`, `First`), and `k` is the same for both, for what the completions have been
told and for the code of the caller (`ToldSoFar`). When the connection is lost the answer is empty and the end is never
read (`Lost`), so that `MultiInOrder`, which is about answered requests, has nothing to say.

*Paths.* `isValidPath` looks at one character and the two before it, `WellFormed` at components. They meet in the slashes of the path:
`Neighbours` are two with none between them, and one behind the path counts; a rejected character finds two neighbours with a fault between
them (for a control character the nearest on each side), and a fault finds a rejected character (`CheckFails`, `FaultFound`). That the server
appends a number changes only the verdict at the end (`NumberedPaths`); behind a valid chroot the checks are those of the path, since a
valid chroot does not end in a slash (`JoinedChecks`). `ChrootInv` says that a handle with addresses has such a chroot.
`RequestFaithful` is about paths that begin with `/`: another is refused without a chroot, but behind one it may pass, and
any path of a single character then stands for the chroot itself.

`ZkSequences` has what these proofs share: what pushing, popping and cutting do to a
queue or stack, `Count` of its elements, and functions by recursion. The library's induction theorems take an
operator as a parameter, which no prover here can instantiate. `Climb` is the induction they need with a
set in its place, and `Recursion` the existence of a recursive function on `0 .. n` with the step given as a
function; a definition `f[n \in Nat] == ...` is then shown to unroll by naming that function.

Model-checked only, and why:

- `RequestAnswered`, `AuthAnswered`, `CloseHappens`, `WatchFires`, `MethodsReturn`: liveness under
  fairness, and with it `ENABLED`, is out of the prover's reach.
- `DescriptorOwned`, `ConnectIndexInBounds`, `PipelineMatches` and `WaitingAuthOnItsWay` with watchers that poll
  are false. `NothingOwedAfterLoss` held there with one request, and is neither checked nor proved for more.

## Plan

1. `ZkHandle`, `ZkPromise`: done; all safety properties proved, five of them without `Reentrant`.
2. `ZkWatches`, `ZkDispatch`, `ZkSocket`: done; all safety properties proved.
3. `ZkJute`, `ZkRecords`: done; all properties proved.
4. `ZkPaths`, `ZkHosts`, `ZkCalls`: done; all properties proved.
5. `zoo_set_watcher` and the destruction of the watch tables.

## Not modelled

- The synchronous API (from 3524 on): written for the threaded build; in the build the extension uses its
  calls would not wait, and the extension makes none.
- The hash table (`hashtable/`): third-party; a table is a set of watchers in `ZkWatches`.
- Logging (`zk_log.c`): output only. `cli.c`: an example program. `winport.c`: not compiled here.
- Swoole's coroutine mode: the hooks are outside the repository, and so is what runs while one yields.
- Of the binding, `getState`, `getClientId`, `setDebugLevel`, `setLogStream` and
  `setDeterministicConnOrder`, which read or set one value, and `my_data_completion` and the other completions
  nothing passes.
- `zoo_set_watcher` and `destroy_zk_hashtable`.
- Numbers that would wrap: the 32-bit `xid`; memory that runs out.
