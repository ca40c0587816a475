------------------------------ MODULE ZkHandle ------------------------------
(***************************************************************************)
(* The connection handle (zhandle_t) of the vendored single-threaded       *)
(* ZooKeeper C client: connection life cycle, request queues, completions, *)
(* authentication, deferred destruction, and the re-entrancy of callbacks. *)
(*                                                                         *)
(* There is one thread.  What makes the code hard is that user code runs   *)
(* in the MIDDLE of a handler, whenever process_completions() delivers a   *)
(* watcher event, and may call the API again.  The C call stack is         *)
(* therefore explicit: "stack" holds what is left to do of each suspended  *)
(* function, the innermost last.  Everything a function does between two   *)
(* points where user code may run is one action.                           *)
(*                                                                         *)
(* Accepted requests are numbered 1, 2, ... as get_xid() numbers them; the *)
(* entries of the auth list are numbered by their position.  The server    *)
(* and the network are external.                                           *)
(***************************************************************************)
EXTENDS Integers, Sequences

CONSTANTS NumServers,   \* addrs_count
          MaxXid,       \* bound: requests the application issues
          MaxAuth,      \* bound: credentials the application adds
          MaxPipe,      \* bound: packets under way before a ping, an event or a batch of credentials
          MaxStack,     \* bound: stack height at which a watcher still calls the API
          Reentrant     \* may a watcher poll the handle, as zk_dispatch() does?

ASSUME HandleAssumption ==
    /\ NumServers \in Nat \ {0}
    /\ MaxXid \in Nat
    /\ MaxAuth \in Nat
    /\ MaxPipe \in Nat
    /\ MaxStack \in Nat
    /\ Reentrant \in BOOLEAN

VARIABLES
    state,        \* zh->state
    fd,           \* zh->fd
    connectIndex, \* zh->connect_index, 0-based
    clientId,     \* zh->client_id: 0 before the first session
    inputBuffer,  \* zh->input_buffer
    toSend,       \* zh->to_send
    toProcess,    \* zh->to_process
    sentRequests, \* zh->sent_requests, the xids
    completionsToProcess, \* zh->completions_to_process
    authList,     \* zh->auth_h: each entry's completion, NULLed when called
    closeRequested, \* zh->close_requested
    refCounter,   \* zh->ref_counter
    freed,        \* free(zh) has run
    nextXid,      \* get_xid()
    stack,        \* suspended functions, innermost last
    callbacks,    \* history: completions run, in order
    peer,         \* the connection under fd, as the network sees it
    toServer,     \* packets sent on it and not yet handled by the server
    fromServer,   \* packets the server sent on it and not yet read
    granted       \* history: credentials the server has accepted

queues   == <<toSend, toProcess, sentRequests, completionsToProcess>>
session  == <<connectIndex, clientId, authList, nextXid>>
lifetime == <<closeRequested, refCounter, freed>>
history  == <<callbacks, granted>>
network  == <<peer, toServer, fromServer>>
vars == <<state, fd, inputBuffer, stack, queues, session, lifetime, history, network>>

-----------------------------------------------------------------------------
States == {"NOTCONNECTED", "ZERO", "CONNECTING", "ASSOCIATING", "CONNECTED",
           "EXPIRED_SESSION", "AUTH_FAILED"}
Unrecoverable == {"EXPIRED_SESSION", "AUTH_FAILED"}   \* the states below 0

Codes == {"ZOK", "ZCONNECTIONLOSS", "ZOPERATIONTIMEOUT", "ZSYSTEMERROR",
          "ZSESSIONEXPIRED", "ZAUTHFAILED", "ZRUNTIMEINCONSISTENCY", "ZCLOSING"}

\* NoFd is -1; a Closed descriptor is a number that is no longer (or never
\* was) an open socket of this handle.
FdStates == {"NoFd", "Open", "Closed"}

\* "empty" is an allocated buffer with nothing read, "partial" one that holds
\* the first bytes of a packet.
InputBuffers == {"NULL", "empty", "partial", "primer"}

Packets   == [kind : {"connect", "request", "auth", "setWatches", "ping"}, id : Nat]
Responses == [kind : {"primer", "reply", "auth", "setWatches", "ping", "event"},
              id : Nat, ok : BOOLEAN]
Completions == [kind : {"reply", "event"}, id : Nat, rc : Codes]
Frames == [fn : {"epilog", "handleError", "checkEvents", "process", "completions", "watcher"},
           rc : Codes]
Callbacks == [xid : Nat, rc : Codes]

Packet(k, n)     == [kind |-> k, id |-> n]
Response(k, n, b) == [kind |-> k, id |-> n, ok |-> b]
Frame(f)         == [fn |-> f, rc |-> "ZOK"]
Push(s, f)       == Append(s, Frame(f))
Event            == [kind |-> "event", id |-> 0, rc |-> "ZOK"]

Top   == stack[Len(stack)]
Below == SubSeq(stack, 1, Len(stack) - 1)
TopIs(f) == stack # <<>> /\ Top.fn = f

IsUnrecoverable == state \in Unrecoverable

\* The application has control: at top level, or inside a watcher.
UserTurn == ~freed /\ (stack = <<>> \/ TopIs("watcher"))
\* ... and may poll the handle (zookeeper_interest, zookeeper_process).
MayPoll == /\ UserTurn
           /\ ~IsUnrecoverable
           /\ stack = <<>> \/ (Reentrant /\ Len(stack) < MaxStack)

Init ==
    /\ state = "NOTCONNECTED" /\ fd = "NoFd" /\ connectIndex = 0 /\ clientId = 0
    /\ inputBuffer = "NULL"
    /\ toSend = <<>> /\ toProcess = <<>> /\ sentRequests = <<>>
    /\ completionsToProcess = <<>> /\ authList = <<>>
    /\ closeRequested = FALSE /\ refCounter = 0 /\ freed = FALSE
    /\ nextXid = 1 /\ stack = <<>> /\ callbacks = <<>>
    /\ peer = "none" /\ toServer = <<>> /\ fromServer = <<>> /\ granted = {}

-----------------------------------------------------------------------------
(* Pieces of handlers.                                                     *)

\* flush_send_queue(zh, 0) over the queue q: as many packets as the socket
\* takes, none unless the session is established on an open socket.
FlushSendQueue(q) ==
    \E k \in 0 .. (IF state = "CONNECTED" /\ fd = "Open" THEN Len(q) ELSE 0) :
        /\ toSend' = SubSeq(q, k + 1, Len(q))
        /\ toServer' = toServer \o SubSeq(q, 1, k)

\* close(zh->fd): a no-op when the number is not an open socket.
\* (faulty: the socket stays open)
CloseFdForgotten == UNCHANGED <<fd, peer, toServer, fromServer>>

CloseFd == /\ fd' = "Closed"
           /\ peer' = "none" /\ toServer' = <<>> /\ fromServer' = <<>>

\* free_completions(): every outstanding request gets a faked reply, queued
\* behind what completions_to_process already holds ...
FakedReplies(rc) == [i \in 1 .. Len(sentRequests) |->
                        [kind |-> "reply", id |-> sentRequests[i], rc |-> rc]]

\* (faulty: the queue keeps its entries)
FreeCompletionsKeepsQueue(rc) ==
    /\ completionsToProcess' = completionsToProcess \o FakedReplies(rc)
    /\ UNCHANGED sentRequests
\* (faulty: callCompletion is 0, the requests are dropped)
FreeCompletionsSilently(rc) ==
    /\ UNCHANGED completionsToProcess
    /\ sentRequests' = <<>>

FreeCompletions(rc) ==
    /\ completionsToProcess' = completionsToProcess \o FakedReplies(rc)
    /\ sentRequests' = <<>>

\* ... and every pending auth completion is called at once.
CallAuthCompletions(rc) ==
    authList' = [i \in 1 .. Len(authList) |->
                    IF authList[i] = "waiting" THEN rc ELSE authList[i]]

\* cleanup_bufs(zh, 1, rc).  The primer buffer is not freed.
CleanupInput == inputBuffer' = IF inputBuffer = "primer" THEN "primer" ELSE "NULL"

\* (faulty: packets of the old connection stay queued)
CleanupBufsKeepsSendQueue(rc) ==
    /\ UNCHANGED toSend /\ toProcess' = <<>>
    /\ FreeCompletions(rc) /\ CallAuthCompletions(rc)
    /\ CleanupInput
\* (faulty: free_completions() forgets the credentials)
CleanupBufsForgetsAuth(rc) ==
    /\ toSend' = <<>> /\ toProcess' = <<>>
    /\ FreeCompletions(rc) /\ UNCHANGED authList
    /\ CleanupInput

CleanupBufs(rc) ==
    /\ toSend' = <<>> /\ toProcess' = <<>>
    /\ FreeCompletions(rc) /\ CallAuthCompletions(rc)
    /\ CleanupInput

\* handle_error() up to the point where it may run user code: s is the state
\* at its entry, base the stack of its callers.
HandleError(base, s, rc) ==
    LET rest == Append(base, [fn |-> "handleError", rc |-> rc])
    IN  /\ state' = s
        /\ CloseFd
        /\ IF s \in Unrecoverable \cup {"CONNECTED"}
             THEN /\ completionsToProcess' = Append(completionsToProcess, Event)
                  /\ stack' = Push(rest, "completions")
             ELSE /\ stack' = rest
                  /\ UNCHANGED completionsToProcess

\* An API call that fails in handle_error() after api_prolog().
FailInApi(s, rc) ==
    /\ HandleError(Push(stack, "epilog"), s, rc)
    /\ refCounter' = refCounter + 1
    /\ UNCHANGED <<inputBuffer, toSend, toProcess, sentRequests, session,
                   closeRequested, freed, history>>

-----------------------------------------------------------------------------
(* zookeeper_interest()                                                    *)

\* (faulty: off by one)
AllTriedByOne == connectIndex = NumServers + 1
\* Only == is tested.
AllTried == connectIndex = NumServers

\* All addresses have been tried: start over, without connecting yet.
InterestWrap ==
    /\ MayPoll /\ fd = "NoFd" /\ AllTried
    /\ connectIndex' = 0
    /\ UNCHANGED <<state, fd, inputBuffer, stack, queues, clientId, authList,
                   nextXid, lifetime, history, network>>

\* An index beyond addrs is undefined behaviour; the model follows it for one
\* address more (a bound).
MayConnect == MayPoll /\ fd = "NoFd" /\ ~AllTried /\ connectIndex <= NumServers + 1

\* connect() is in progress.
InterestConnect ==
    /\ MayConnect
    /\ fd' = "Open" /\ state' = "CONNECTING" /\ peer' = "up"
    /\ toServer' = <<>> /\ fromServer' = <<>>
    /\ UNCHANGED <<inputBuffer, stack, queues, session, lifetime, history>>

\* connect() succeeded at once: the handshake is sent (prime_connection).
InterestConnectNow ==
    /\ MayConnect
    /\ fd' = "Open" /\ state' = "ASSOCIATING" /\ peer' = "up" /\ inputBuffer' = "primer"
    /\ toServer' = <<Packet("connect", clientId)>> /\ fromServer' = <<>>
    /\ UNCHANGED <<stack, queues, session, lifetime, history>>

\* socket(), connect() or the handshake's send() failed.
InterestConnectFails ==
    /\ MayConnect
    /\ \E rc \in {"ZSYSTEMERROR", "ZCONNECTIONLOSS"} : FailInApi(state, rc)

\* Nothing was received for two thirds of recv_timeout.  Time is abstracted:
\* the application may be late enough for this at any call.
InterestTimeout ==
    /\ MayPoll /\ fd # "NoFd"
    /\ FailInApi(state, "ZOPERATIONTIMEOUT")

\* Nothing was sent for a third of recv_timeout and no request is outstanding.
InterestPing ==
    /\ MayPoll /\ fd # "NoFd" /\ state = "CONNECTED" /\ sentRequests = <<>>
    /\ Len(toSend) + Len(toServer) + Len(fromServer) < MaxPipe
    /\ FlushSendQueue(Append(toSend, Packet("ping", 0)))
    /\ UNCHANGED <<state, fd, inputBuffer, stack, toProcess, sentRequests,
                   completionsToProcess, session, lifetime, history, peer, fromServer>>

Interest == InterestWrap \/ InterestConnect \/ InterestConnectNow \/ InterestConnectFails
            \/ InterestTimeout \/ InterestPing

-----------------------------------------------------------------------------
(* zookeeper_process(): check_events()                                     *)

\* check_events() succeeded: the loop of zookeeper_process() follows.
ToProcessLoop == /\ stack' = Push(Push(stack, "epilog"), "process")
                 /\ refCounter' = refCounter + 1

\* The non-blocking connect finished: prime_connection().
ProcessConnected ==
    /\ MayPoll /\ fd = "Open" /\ state = "CONNECTING" /\ peer # "down"
    /\ state' = "ASSOCIATING" /\ inputBuffer' = "primer"
    /\ toServer' = Append(toServer, Packet("connect", clientId))
    /\ ToProcessLoop
    /\ UNCHANGED <<fd, queues, session, closeRequested, freed, history, peer, fromServer>>

\* It failed, or a send() or recv() did; what the call had sent is lost with
\* the connection.
ProcessFails ==
    /\ MayPoll /\ \/ fd = "Open" /\ peer = "down"
                  \/ fd = "Closed"
    /\ FailInApi(state, "ZCONNECTIONLOSS")

\* The socket is writable, or nothing happened at all.  Without anything to
\* send or to run this call has no effect.
ProcessWrite ==
    /\ MayPoll /\ fd # "NoFd"
    /\ toSend # <<>> \/ toProcess # <<>> \/ completionsToProcess # <<>>
    /\ FlushSendQueue(toSend)
    /\ ToProcessLoop
    /\ UNCHANGED <<state, fd, inputBuffer, toProcess, sentRequests,
                   completionsToProcess, session, closeRequested, freed, history,
                   peer, fromServer>>

\* What to_send holds may be sent first; then recv_buffer() gets nothing, or
\* part of a packet: ZNOTHING.
ProcessNothing ==
    /\ MayPoll /\ fd = "Open"
    /\ FlushSendQueue(toSend)
    /\ \/ /\ inputBuffer = "NULL"
          /\ inputBuffer' = "empty"
       \/ /\ inputBuffer \in {"NULL", "empty"} /\ fromServer # <<>>
          /\ inputBuffer' = "partial"
    /\ UNCHANGED <<state, fd, stack, toProcess, sentRequests, completionsToProcess,
                   session, lifetime, history, peer, fromServer>>

Readable == MayPoll /\ fd = "Open" /\ fromServer # <<>>

\* What to_send holds may be sent first; then a whole packet is read and queued
\* for the loop of zookeeper_process().
ProcessRead ==
    /\ Readable /\ inputBuffer # "primer"
    /\ FlushSendQueue(toSend)
    /\ fromServer' = Tail(fromServer)
    /\ toProcess' = Append(toProcess, Head(fromServer))
    /\ inputBuffer' = "NULL"
    /\ ToProcessLoop
    /\ UNCHANGED <<state, fd, sentRequests, completionsToProcess, session,
                   closeRequested, freed, history, peer>>

\* send_auth_info() puts each credential in front of to_send, in list order,
\* so that the last one comes first.
\* (faulty: only accepted ones, as if the packet of a waiting one were still queued)
AcceptedCredentials ==
    IF \E i \in DOMAIN authList : authList[i] = "waiting" THEN <<>>
    ELSE [i \in 1 .. Len(authList) |-> Packet("auth", Len(authList) + 1 - i)]

AllCredentials == [i \in 1 .. Len(authList) |-> Packet("auth", Len(authList) + 1 - i)]

\* The handshake's answer: the session is established.  send_set_watches()
\* puts its packet in front of to_send if a watch is active, the credentials
\* go in front of that.
ProcessEstablished ==
    LET id == Head(fromServer).id
    IN  /\ Readable /\ inputBuffer = "primer"
        /\ clientId \in {0, id}
        /\ fromServer' = Tail(fromServer)
        /\ clientId' = id /\ state' = "CONNECTED"
        /\ \E watches \in {<<>>, <<Packet("setWatches", 0)>>} :
               toSend' = AllCredentials \o watches \o toSend
        /\ inputBuffer' = "NULL"
        /\ completionsToProcess' = Append(completionsToProcess, Event)
        /\ stack' = Push(Push(Push(Push(stack, "epilog"), "process"), "checkEvents"),
                         "completions")
        /\ refCounter' = refCounter + 1
        /\ UNCHANGED <<fd, toProcess, sentRequests, connectIndex, authList, nextXid,
                       closeRequested, freed, history, peer, toServer>>

\* The server does not know the session any more.
ProcessExpired ==
    /\ Readable /\ inputBuffer = "primer"
    /\ clientId \notin {0, Head(fromServer).id}
    /\ FailInApi("EXPIRED_SESSION", "ZSESSIONEXPIRED")

CheckEvents == ProcessConnected \/ ProcessFails \/ ProcessWrite \/ ProcessNothing
               \/ ProcessRead \/ ProcessEstablished \/ ProcessExpired

-----------------------------------------------------------------------------
(* The suspended functions go on.                                          *)

\* A nested call has begun to read a packet, and the bytes it has read are
\* dropped with input_buffer.  The rest is taken for the length of a packet: 0
\* ends the connection; one that is negative, too large or simply wrong has the
\* client wait for bytes that never come, or lose the connection over what it
\* makes of those that do.  Nothing behind it is read as what it is.
CutShort ==
    /\ inputBuffer \in {"partial", "primer"} /\ fromServer # <<>>
    /\ fromServer' = <<>>
    /\ peer' \in {"hung", "down"}

\* check_events() after the CONNECTED session event: input_buffer = 0.  Nothing
\* need have been read of a handshake's answer yet.
CheckEventsTail ==
    /\ TopIs("checkEvents")
    /\ inputBuffer' = "NULL"
    /\ \/ CutShort
       \/ /\ inputBuffer = "partial" => fromServer = <<>>
          /\ UNCHANGED <<peer, fromServer>>
    /\ stack' = Below
    /\ UNCHANGED <<state, fd, queues, session, lifetime, history, toServer>>

\* The loop of zookeeper_process() is over: process_completions(), then the epilog.
ProcessDone ==
    /\ TopIs("process") /\ toProcess = <<>>
    /\ stack' = Push(Below, "completions")
    /\ UNCHANGED <<state, fd, inputBuffer, queues, session, lifetime, history, network>>

Received(k) == TopIs("process") /\ toProcess # <<>> /\ Head(toProcess).kind = k

\* Everything else is taken for the answer to a request; a handshake's answer
\* read as an ordinary packet has its protocol version, 0, for an xid.
ReplyReceived == Received("reply") \/ Received("primer")
ReplyXid == IF Head(toProcess).kind = "primer" THEN 0 ELSE Head(toProcess).id

\* Ping and SetWatches replies are dropped.
ProcessIgnored ==
    /\ Received("ping") \/ Received("setWatches")
    /\ toProcess' = Tail(toProcess)
    /\ UNCHANGED <<state, fd, inputBuffer, stack, toSend, sentRequests,
                   completionsToProcess, session, lifetime, history, network>>

ProcessEvent ==
    /\ Received("event")
    /\ toProcess' = Tail(toProcess)
    /\ completionsToProcess' = Append(completionsToProcess, Event)
    /\ UNCHANGED <<state, fd, inputBuffer, stack, toSend, sentRequests, session,
                   lifetime, history, network>>

\* (faulty: the completion is given the state instead of the code)
AuthCodeIsState(ok) == IF ok THEN "CONNECTED" ELSE "AUTH_FAILED"
AuthCode(ok) == IF ok THEN "ZOK" ELSE "ZAUTHFAILED"

\* auth_completion_func(): one answer serves every pending credential.
ProcessAuth ==
    /\ Received("auth")
    /\ toProcess' = Tail(toProcess)
    /\ CallAuthCompletions(AuthCode(Head(toProcess).ok))
    /\ IF Head(toProcess).ok
         THEN UNCHANGED <<state, fd, stack, completionsToProcess, network>>
         ELSE HandleError(Below, "AUTH_FAILED", "ZAUTHFAILED")
    /\ UNCHANGED <<inputBuffer, toSend, sentRequests, connectIndex, clientId, nextXid,
                   lifetime, history>>

\* The answer to the oldest outstanding request.
ProcessReply ==
    /\ ReplyReceived /\ sentRequests # <<>>
    /\ ReplyXid = Head(sentRequests)
    /\ toProcess' = Tail(toProcess)
    /\ sentRequests' = Tail(sentRequests)
    /\ completionsToProcess' = Append(completionsToProcess,
           [kind |-> "reply", id |-> Head(sentRequests), rc |-> "ZOK"])
    /\ UNCHANGED <<state, fd, inputBuffer, stack, toSend, session, lifetime, history,
                   network>>

\* An answer to something else: the request goes back to the front of the
\* queue and the connection is given up.
ProcessOutOfOrder ==
    /\ ReplyReceived /\ sentRequests # <<>>
    /\ ReplyXid # Head(sentRequests)
    /\ toProcess' = Tail(toProcess)
    /\ HandleError(Below, state, "ZRUNTIMEINCONSISTENCY")
    /\ UNCHANGED <<inputBuffer, toSend, sentRequests, session, lifetime, history>>

\* zookeeper_close() has emptied the queue meanwhile (ZOOKEEPER-804).
ProcessAfterClose ==
    /\ ReplyReceived /\ sentRequests = <<>> /\ closeRequested
    /\ toProcess' = Tail(toProcess)
    /\ stack' = Below
    /\ UNCHANGED <<state, fd, inputBuffer, toSend, sentRequests, completionsToProcess,
                   session, lifetime, history, network>>

\* process_completions(): run the completion of a request ...
RunCompletion ==
    /\ TopIs("completions") /\ completionsToProcess # <<>>
    /\ Head(completionsToProcess).kind = "reply"
    /\ completionsToProcess' = Tail(completionsToProcess)
    /\ callbacks' = Append(callbacks, [xid |-> Head(completionsToProcess).id,
                                       rc |-> Head(completionsToProcess).rc])
    /\ UNCHANGED <<state, fd, inputBuffer, stack, toSend, toProcess, sentRequests,
                   session, lifetime, granted, network>>

\* ... enter the watchers of an event ...
RunWatcher ==
    /\ TopIs("completions") /\ completionsToProcess # <<>>
    /\ Head(completionsToProcess).kind = "event"
    /\ completionsToProcess' = Tail(completionsToProcess)
    /\ stack' = Push(stack, "watcher")
    /\ UNCHANGED <<state, fd, inputBuffer, toSend, toProcess, sentRequests, session,
                   lifetime, history, network>>

\* ... until there is nothing left.
CompletionsDone ==
    /\ TopIs("completions") /\ completionsToProcess = <<>>
    /\ stack' = Below
    /\ UNCHANGED <<state, fd, inputBuffer, queues, session, lifetime, history, network>>

WatcherReturns ==
    /\ ~freed /\ TopIs("watcher")
    /\ stack' = Below
    /\ UNCHANGED <<state, fd, inputBuffer, queues, session, lifetime, history, network>>

\* (faulty: an expired session is connected to again)
StateAlwaysZero == "ZERO"
StateAfterError == IF IsUnrecoverable THEN state ELSE "ZERO"

\* handle_error() after its session event: cleanup_bufs(), forget the
\* descriptor, move on to the next address, then process_completions().
HandleErrorTail ==
    /\ TopIs("handleError")
    /\ CleanupBufs(Top.rc)
    /\ fd' = "NoFd"
    /\ peer' = "none" /\ toServer' = <<>> /\ fromServer' = <<>>
    /\ connectIndex' = connectIndex + 1
    /\ state' = StateAfterError
    /\ stack' = Push(Below, "completions")
    /\ UNCHANGED <<clientId, nextXid, lifetime, history>>

-----------------------------------------------------------------------------
(* zookeeper_close() and api_epilog()                                      *)

\* destroy() and free(): the completions it queues are never run.
Destroy ==
    /\ freed' = TRUE
    /\ CleanupBufs("ZCLOSING")
    /\ IF fd = "NoFd" THEN UNCHANGED <<fd, state>> ELSE fd' = "NoFd" /\ state' = "ZERO"
    /\ peer' = "none" /\ toServer' = <<>> /\ fromServer' = <<>>

\* (faulty: tests the counter after one decrement too many)
CloseDueLate == refCounter = 0 /\ closeRequested
\* The last reference goes away after a close was requested.
CloseDue == refCounter = 1 /\ closeRequested

Epilog ==
    /\ TopIs("epilog")
    /\ stack' = Below
    /\ refCounter' = refCounter - 1
    /\ IF CloseDue
         THEN Destroy
         ELSE UNCHANGED <<freed, state, fd, inputBuffer, queues, authList, network>>
    /\ UNCHANGED <<connectIndex, clientId, nextXid, closeRequested, history>>

\* (faulty: off by one)
NotInUseByOne == refCounter <= 1
\* No function of the client is suspended.
NotInUse == refCounter = 0

\* Called inside a callback: the requests are failed, the handle stays.
CloseInCallback ==
    /\ UserTurn /\ ~NotInUse
    /\ closeRequested' = TRUE
    /\ FreeCompletions("ZCLOSING")
    /\ CallAuthCompletions("ZCLOSING")
    /\ UNCHANGED <<state, fd, inputBuffer, stack, toSend, toProcess, connectIndex,
                   clientId, nextXid, refCounter, freed, history, network>>

\* Called at top level.  The close packet it sends ends the session, whose
\* fate on the server is not modelled.
CloseAtTop ==
    /\ UserTurn /\ NotInUse
    /\ closeRequested' = TRUE
    /\ refCounter' = 1
    /\ Destroy
    /\ UNCHANGED <<stack, connectIndex, clientId, nextXid, history>>

-----------------------------------------------------------------------------
(* The asynchronous API                                                    *)

\* (faulty: a lost session still takes requests)
AcceptsUntilClose == ~closeRequested
Accepts == ~IsUnrecoverable /\ ~closeRequested

\* zoo_aget() and its siblings: add_completion(), queue, then a best effort to send.
Submit ==
    /\ UserTurn /\ Accepts
    /\ nextXid <= MaxXid
    /\ nextXid' = nextXid + 1
    /\ sentRequests' = Append(sentRequests, nextXid)
    /\ FlushSendQueue(Append(toSend, Packet("request", nextXid)))
    /\ UNCHANGED <<state, fd, inputBuffer, stack, toProcess, completionsToProcess,
                   connectIndex, clientId, authList, lifetime, history, peer, fromServer>>

\* add_completion() refuses once a close was requested; to_send is still flushed.
SubmitRefused ==
    /\ UserTurn /\ ~IsUnrecoverable /\ closeRequested
    /\ toSend # <<>>
    /\ FlushSendQueue(toSend)
    /\ UNCHANGED <<state, fd, inputBuffer, stack, toProcess, sentRequests,
                   completionsToProcess, session, lifetime, history, peer, fromServer>>

\* (faulty: an established session is not told)
SendsAuthInHandshake == state = "ASSOCIATING"
SendsAuthNow == state \in {"CONNECTED", "ASSOCIATING"}

\* zoo_add_auth(): remembered for every later connection, and queued in
\* front of to_send if this one is far enough.
AddAuth ==
    /\ UserTurn /\ ~IsUnrecoverable /\ state # "ZERO"
    /\ Len(authList) < MaxAuth
    /\ authList' = Append(authList, "waiting")
    /\ toSend' = IF SendsAuthNow
                   THEN <<Packet("auth", Len(authList) + 1)>> \o toSend
                   ELSE toSend
    /\ UNCHANGED <<state, fd, inputBuffer, stack, toProcess, sentRequests,
                   completionsToProcess, connectIndex, clientId, nextXid, lifetime,
                   history, network>>

Api == Submit \/ SubmitRefused \/ AddAuth \/ CloseInCallback \/ CloseAtTop

-----------------------------------------------------------------------------
(* The server and the network, external to the repository.                 *)

\* One packet is handled, in order.  A session the server has forgotten, or
\* a new one, gets an id of its own.
ServerStep ==
    /\ peer = "up" /\ toServer # <<>>
    /\ toServer' = Tail(toServer)
    /\ LET p == Head(toServer)
       IN  \/ /\ p.kind = "connect"
              /\ \E id \in IF p.id = 0 THEN {1} ELSE {0, p.id} :
                     fromServer' = Append(fromServer, Response("primer", id, TRUE))
              /\ UNCHANGED granted
           \/ /\ p.kind = "request"
              /\ fromServer' = Append(fromServer, Response("reply", p.id, TRUE))
              /\ UNCHANGED granted
           \/ /\ p.kind = "auth"
              /\ \E ok \in BOOLEAN :
                     /\ fromServer' = Append(fromServer, Response("auth", p.id, ok))
                     /\ granted' = IF ok THEN granted \cup {p.id} ELSE granted
           \/ /\ p.kind \in {"setWatches", "ping"}
              /\ fromServer' = Append(fromServer, Response(p.kind, 0, TRUE))
              /\ UNCHANGED granted
    /\ UNCHANGED <<state, fd, inputBuffer, stack, queues, session, lifetime, callbacks, peer>>

\* A watched node changed.
ServerEvent ==
    /\ peer = "up" /\ state = "CONNECTED"
    /\ Len(toSend) + Len(toServer) + Len(fromServer) < MaxPipe
    /\ fromServer' = Append(fromServer, Response("event", 0, TRUE))
    /\ UNCHANGED <<state, fd, inputBuffer, stack, queues, session, lifetime, history,
                   peer, toServer>>

\* The peer stops answering, or the connection breaks.
PeerFails ==
    /\ \/ peer = "up" /\ peer' \in {"hung", "down"}
       \/ peer = "hung" /\ peer' = "down"
    /\ UNCHANGED <<state, fd, inputBuffer, stack, queues, session, lifetime, history,
                   toServer, fromServer>>

Environment == ServerStep \/ ServerEvent \/ PeerFails

-----------------------------------------------------------------------------
Continue == \/ CheckEventsTail \/ ProcessDone \/ ProcessIgnored \/ ProcessEvent
            \/ ProcessAuth \/ ProcessReply \/ ProcessOutOfOrder \/ ProcessAfterClose
            \/ RunCompletion \/ RunWatcher \/ CompletionsDone \/ WatcherReturns
            \/ HandleErrorTail \/ Epilog

Next == Interest \/ CheckEvents \/ Continue \/ Api \/ Environment

Spec == Init /\ [][Next]_vars

-----------------------------------------------------------------------------
(* Safety                                                                  *)

TypeOK ==
    /\ state \in States /\ fd \in FdStates
    /\ connectIndex \in Nat /\ clientId \in Nat
    /\ inputBuffer \in InputBuffers
    /\ toSend \in Seq(Packets) /\ toProcess \in Seq(Responses)
    /\ sentRequests \in Seq(Nat) /\ completionsToProcess \in Seq(Completions)
    /\ authList \in Seq({"waiting"} \cup Codes)
    /\ closeRequested \in BOOLEAN /\ refCounter \in Int /\ freed \in BOOLEAN
    /\ nextXid \in Nat /\ stack \in Seq(Frames) /\ callbacks \in Seq(Callbacks)
    /\ peer \in {"none", "up", "hung", "down"}
    /\ toServer \in Seq(Packets) /\ fromServer \in Seq(Responses)
    /\ granted \subseteq Nat

\* The completions already run, those about to run and the outstanding
\* requests are, in this order, all the requests accepted so far: no request
\* is lost, none is completed twice, and completions run in the order of the
\* calls, whatever mixture of replies, connection losses, expiry and closing
\* ended the requests.
FirstSent == nextXid - Len(sentRequests)
ReplyAt(i) == completionsToProcess[i].kind = "reply"

LedgerCalled  == \A i \in DOMAIN callbacks : callbacks[i].xid = i
LedgerReady   ==
    /\ \A i \in DOMAIN completionsToProcess :
           ReplyAt(i) => completionsToProcess[i].id \in Len(callbacks) + 1 .. FirstSent - 1
    /\ \A x \in Len(callbacks) + 1 .. FirstSent - 1 :
           \E i \in DOMAIN completionsToProcess : ReplyAt(i) /\ completionsToProcess[i].id = x
    /\ \A i, j \in DOMAIN completionsToProcess :
           ReplyAt(i) /\ ReplyAt(j) /\ i < j
             => completionsToProcess[i].id < completionsToProcess[j].id
LedgerSent    == \A i \in DOMAIN sentRequests : sentRequests[i] = FirstSent + i - 1
LedgerCount   == Len(callbacks) < FirstSent
RequestLedger == LedgerCalled /\ LedgerReady /\ LedgerSent /\ LedgerCount

ErrorPending == \E i \in DOMAIN stack : stack[i].fn = "handleError"

\* Everything under way on this connection, the next packet to process first.
Pipeline == toProcess \o fromServer \o toServer \o toSend
Carriers(s) == {k \in DOMAIN s : s[k].kind \in {"request", "reply"}}

\* sent_requests lists exactly the requests whose reply, packet or unsent
\* packet is still on its way on THIS connection, in that order: "at" says
\* where.  This is why zookeeper_process() may match a reply with the head of
\* the queue, and why a request failed by a connection loss is never sent on
\* the next one.
PipelineMatches ==
    ~ErrorPending /\ ~closeRequested =>
        \E at \in [DOMAIN sentRequests -> DOMAIN Pipeline] :
            /\ \A i, j \in DOMAIN at : i < j => at[i] < at[j]
            /\ Carriers(Pipeline) = {at[i] : i \in DOMAIN at}
            /\ \A i \in DOMAIN at : Pipeline[at[i]].id = sentRequests[i]

\* connect_index is an index into addrs, or addrs_count, where
\* zookeeper_interest() wraps it: incremented by every failure, it is compared
\* with == only.
ConnectIndexInBounds == connectIndex \in 0 .. NumServers

\* zookeeper_process() asserts that a reply finds a request waiting for it,
\* unless zookeeper_close() has emptied the queue.
ReplyHasRequest == ReplyReceived /\ ~closeRequested => sentRequests # <<>>

\* A credential's completion reports success only if the server has accepted
\* that credential.
AuthAnsweredForItself ==
    \A i \in DOMAIN authList : authList[i] = "ZOK" => i \in granted

\* As long as a session is established, a credential that still waits for an
\* answer is on its way: sent, or about to be, or just answered, also one
\* that was added before the session existed.
OnItsWay(i) ==
    \/ \E k \in DOMAIN toSend : toSend[k] = Packet("auth", i)
    \/ \E k \in DOMAIN toServer : toServer[k] = Packet("auth", i)
    \/ \E k \in DOMAIN fromServer : fromServer[k].kind = "auth"
    \/ \E k \in DOMAIN toProcess : toProcess[k].kind = "auth"
WaitingAuthOnItsWay ==
    state = "CONNECTED" /\ ~ErrorPending =>
        \A i \in DOMAIN authList : authList[i] = "waiting" => OnItsWay(i)

\* A closed descriptor stays in zh->fd only while handle_error() is suspended
\* in a session watcher, and handle_error() never forgets an open one.
DescriptorOwned ==
    /\ fd = "Closed" => ErrorPending
    /\ TopIs("handleError") => fd = "Closed"

\* Once the session is lost for good and the API call that found out has
\* returned, nothing is left outstanding: no later call will process it.
NothingOwedAfterLoss ==
    IsUnrecoverable /\ stack = <<>> =>
        /\ sentRequests = <<>> /\ completionsToProcess = <<>> /\ toSend = <<>>
        /\ fd = "NoFd"
        /\ \A i \in DOMAIN authList : authList[i] # "waiting"

\* The handle is freed only when no function of the client is left that
\* would use it, although zookeeper_close() may be called inside any watcher.
NoUseAfterFree == freed => stack = <<>>

\* Expiry and authentication failure are final.
LossIsFinal == [][IsUnrecoverable /\ ~freed => state' = state]_vars

-----------------------------------------------------------------------------
(* What the application is promised                                        *)

\* The requests as ZkPromise counts them, the session as it sees it.
Unanswered == Len(callbacks) < nextXid - 1
Promise == INSTANCE ZkPromise WITH
    issued   <- nextXid - 1,
    outcomes <- callbacks,
    phase    <- IF freed THEN IF Unanswered THEN "dropped" ELSE "closed"
                ELSE IF IsUnrecoverable THEN "lost" ELSE "live"

\* The handle keeps the promise: completions run once, in order, none for a
\* request that was refused, none after free(zh), whatever calls are nested
\* in whatever watchers (zookeeper.c:1225).
KeepsPromise == Promise!Spec

\* "call any outstanding completions with a special error code", says
\* destroy() (zookeeper.c:419): when the handle is freed, every request that
\* was accepted has been completed.
CompletedByClose == freed => ~Unanswered

-----------------------------------------------------------------------------
(* Liveness                                                                *)

\* The application keeps driving the handle as zk_dispatch() does: whatever
\* zookeeper_interest() asks for, and whatever select() finds ready again and
\* again, is eventually done.
Dispatch ==
    /\ WF_vars(InterestWrap \/ InterestConnect \/ InterestConnectNow \/ InterestConnectFails)
    /\ SF_vars(ProcessConnected /\ peer = "up")
    /\ SF_vars(ProcessFails)
    /\ SF_vars(ProcessWrite /\ toSend' # toSend)
    /\ SF_vars(ProcessRead \/ ProcessEstablished \/ ProcessExpired)

\* Functions that were entered go on, watchers return, a server that is up
\* answers, and the clock reaches the deadline of a peer that is silent.
Fairness ==
    /\ WF_vars(Continue)
    /\ WF_vars(ServerStep)
    /\ SF_vars(InterestTimeout /\ peer = "hung")
    /\ Dispatch

FairSpec == Spec /\ Fairness

\* Every accepted request is completed, by its reply or by the failure of the
\* connection, or the application frees the handle.
RequestAnswered ==
    \A n \in 1 .. MaxXid : nextXid > n ~> Len(callbacks) >= n \/ freed

\* So is every credential, also one added before the connection exists.
AuthAnswered ==
    \A i \in 1 .. MaxAuth :
        Len(authList) >= i ~> Len(authList) >= i /\ authList[i] # "waiting"

\* A close deferred by zookeeper_close() does happen.
CloseHappens == closeRequested ~> freed
=============================================================================
