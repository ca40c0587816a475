----------------------------- MODULE ZkDispatch -----------------------------
(***************************************************************************)
(* The PHP methods of Swoole\ZooKeeper (src/php/api.cc).  A method submits *)
(* one asynchronous request with the address of a QueryResult on its own   *)
(* stack, then zk_dispatch() polls the handle until the completion has     *)
(* cleared `running`.  Completions and watchers run below those polls, and *)
(* a watcher is a PHP callable that may call methods again.                *)
(*                                                                         *)
(* The handle is reduced to what ZkHandle shows of it: requests are        *)
(* answered in order, an error first runs the session watchers, then fails *)
(* everything outstanding.  Descriptors and packets are abstracted.        *)
(***************************************************************************)
EXTENDS Integers, Sequences, FiniteSets, SequencesExt

CONSTANTS
    Used,          \* the names of the methods that are called
    MaxCalls,      \* bound: calls that submit a request
    MaxNested,     \* bound: how deep a watcher is that calls methods
    MaxPartial     \* bound: methods that see a packet arrive in pieces

Requests == 1 .. MaxCalls

VARIABLES
    session,    \* of the handle: see Sessions
    pending,    \* sent_requests: the requests outstanding, in order
    auths,      \* the requests that wait for the answer to a credential
    ready,      \* completions_to_process
    watches,    \* number of watchers registered by watch() and watchChildren()
    callable,   \* a PHP watcher has been set
    stack,      \* the calls under way, innermost last
    method,     \* the method of each request made so far
    results,    \* its QueryResult, Gone when the method has returned
    left,       \* history: the error on which the method left a request outstanding
    refusal     \* a call that is about to return false without a request

handle == <<session, pending, auths, ready, watches>>
memory == <<method, results, left>>
caller == <<callable, refusal>>
vars == <<handle, caller, memory, stack>>

-----------------------------------------------------------------------------
(* The methods: the completion each passes; what it returns when           *)
(* zk_dispatch() is over ("own": result.retval); whether it sets errCode    *)
(* when the client refuses its request.                                    *)

Own(c) == [completion |-> c, answer |-> "own", tells |-> TRUE, watches |-> FALSE, auth |-> FALSE]
Watching(c, a) == [Own(c) EXCEPT !.watches = TRUE, !.answer = a, !.tells = FALSE]

get         == Own("data")
addAuth     == [Own("void") EXCEPT !.auth = TRUE]
getAcl      == Own("acl")
exists      == Own("stat")
create      == Own("string")
set         == Own("silent_stat")
delete      == Own("void")
getChildren == Own("strings")
setAcl      == Own("set_acl")
watch       == Watching("data", "null")
watchChildren == Watching("strings", "true")

Methods == [get |-> get, addAuth |-> addAuth, getAcl |-> getAcl, exists |-> exists,
            create |-> create, set |-> set, delete |-> delete, getChildren |-> getChildren,
            setAcl |-> setAcl, watch |-> watch, watchChildren |-> watchChildren]

DispatchAssumption == /\ Used \subseteq DOMAIN Methods
                      /\ MaxCalls \in Nat /\ MaxNested \in Nat /\ MaxPartial \in Nat
ASSUME DispatchAssumption

Failures == {"ZCONNECTIONLOSS", "ZOPERATIONTIMEOUT", "ZSESSIONEXPIRED", "ZAUTHFAILED"}
Codes    == Failures \cup {"ZOK", "ZNONODE", "ZNOTHING", "ZINVALIDSTATE", "ZBADARGUMENTS"}
Values   == {"null", "true", "false", "name", "data", "names", "stat+acl", "gone"}

\* closing: handle_error() is running the session watchers; the descriptor is
\* closed, the state not yet reset.
Sessions == {"down", "connecting", "established", "closing", "lost"}

\* The completions: what each stores for a request that succeeded.  A failed
\* one stores false in all of them.
my_string_completion      == "name"
my_silent_data_completion == "data"
my_strings_completion     == "names"
my_void_completion        == "true"
my_stat_completion        == "true"
my_silent_stat_completion == "true"
my_acl_completion         == "stat+acl"
my_set_acl_completion     == "true"

Stored == [string |-> my_string_completion, data |-> my_silent_data_completion,
           strings |-> my_strings_completion, void |-> my_void_completion,
           stat |-> my_stat_completion, silent_stat |-> my_silent_stat_completion,
           acl |-> my_acl_completion, set_acl |-> my_set_acl_completion]

Result(running, error, value) == [running |-> running, error |-> error, retval |-> value]
QueryResult == Result(TRUE, "ZOK", "null")
Gone        == Result(FALSE, "ZOK", "gone")

\* The value a completion with code rc stores for request r.
Value(r, rc) == IF rc = "ZOK" THEN Stored[Methods[method[r]].completion] ELSE "false"

\* (faulty: the completion does not look at rc)
CompletedUnchecked(S, rc) ==
    [r \in Requests |-> IF r \in S /\ results[r] # Gone
                           THEN Result(FALSE, rc, Value(r, "ZOK")) ELSE results[r]]

\* The results after the completions of the requests S have run with code rc.
Completed(S, rc) ==
    [r \in Requests |-> IF r \in S /\ results[r] # Gone THEN Result(FALSE, rc, Value(r, rc))
                                                     ELSE results[r]]

-----------------------------------------------------------------------------
(* Frames: a method in the loop of zk_dispatch() or wait(), before         *)
(* zookeeper_interest() ("loop") or zookeeper_process() ("poll"); an        *)
(* API call that will return rc to that loop; handle_error() from           *)
(* cleanup_bufs() on; process_completions(); a PHP watcher; a method that   *)
(* returns, having set errCode to rc ("ZOK": having left it alone).         *)

FrameKinds == {"loop", "poll", "call", "tail", "completions", "watcher", "return"}
Frame(fn, r, rc) == [fn |-> fn, req |-> r, rc |-> rc]   \* req 0: the method is wait()
Inner(fn, rc)    == Frame(fn, 0, rc)

Top   == Last(stack)
Below == Front(stack)
TopIs(fn) == stack # <<>> /\ Top.fn = fn
In(fn)  == TopIs(fn) /\ Top.req # 0      \* in zk_dispatch()
Waiting(fn) == TopIs(fn) /\ Top.req = 0  \* in wait()

Watchers == Cardinality({i \in 1 .. Len(stack) : stack[i].fn = "watcher"})

\* A call refused with rc, and what it has set errCode to ("ZOK": left it alone).
Refusal(m, rc, code) == [method |-> m, rc |-> rc, errCode |-> code]
NoRefusal == Refusal("none", "ZOK", "ZOK")

UserTurn == /\ refusal = NoRefusal
            /\ stack = <<>> \/ (TopIs("watcher") /\ Watchers <= MaxNested)

Init == /\ session = "down" /\ pending = <<>> /\ auths = {} /\ ready = <<>> /\ watches = 0
        /\ callable = FALSE /\ stack = <<>>
        /\ method = [r \in Requests |-> "none"]
        /\ results = [r \in Requests |-> QueryResult]
        /\ left = [r \in Requests |-> "ZOK"]
        /\ refusal = NoRefusal

Calls == Cardinality({r \in Requests : method[r] # "none"})

\* (faulty: add_to_front)
QueuedFirst(r) == <<r>> \o pending

Queued(r) == Append(pending, r)

\* The request is accepted: zk_dispatch() begins.
Call(m) ==
    LET r == Calls + 1
    IN  /\ UserTurn /\ session # "lost" /\ r \in Requests
        /\ method' = [method EXCEPT ![r] = m]
        /\ IF Methods[m].auth THEN auths' = auths \cup {r} /\ UNCHANGED pending
                              ELSE pending' = Queued(r) /\ UNCHANGED auths
        /\ stack' = Append(stack, Frame("loop", r, "ZOK"))
        /\ UNCHANGED <<session, ready, watches, caller, results, left>>

\* What the client refuses a request with: a path that is not valid, a session
\* that is lost, a credential while the state is 0 (handle_error() has reset it;
\* "down" is the initial state, too).  setAcl() looks at its arguments first and
\* then has no code ("ZOK").
Refusals(m) ==
    {rc \in Codes :
        \/ rc = "ZBADARGUMENTS" /\ ~Methods[m].auth
        \/ rc = "ZINVALIDSTATE" /\ (session = "lost" \/ (Methods[m].auth /\ session = "down"))
        \/ rc = "ZOK" /\ m = "setAcl"}

\* (faulty: the method returns false before it sets errCode)
RefusedSilently(m) ==
    /\ UserTurn
    /\ \E rc \in Refusals(m) : refusal' = Refusal(m, rc, "ZOK")
    /\ UNCHANGED <<handle, callable, memory, stack>>

\* The request is refused: no zk_dispatch().
Refused(m) ==
    /\ UserTurn
    /\ \E rc \in Refusals(m) :
           refusal' = Refusal(m, rc, IF Methods[m].tells THEN rc ELSE "ZOK")
    /\ UNCHANGED <<handle, callable, memory, stack>>

RefusedReturns ==
    /\ refusal # NoRefusal
    /\ refusal' = NoRefusal
    /\ UNCHANGED <<handle, callable, memory, stack>>

wait == /\ UserTurn
        /\ stack' = Append(stack, Frame("loop", 0, "ZOK"))
        /\ UNCHANGED <<handle, caller, memory>>

setWatcher == /\ UserTurn /\ ~callable
              /\ callable' = TRUE
              /\ UNCHANGED <<handle, memory, stack, refusal>>

-----------------------------------------------------------------------------
(* How a method ends.                                                      *)

\* (faulty: result.error is not looked at)
DispatchDoneSilent ==
    /\ In("loop") /\ ~results[Top.req].running
    /\ stack' = Append(Below, Frame("return", Top.req, "ZOK"))
    /\ UNCHANGED <<handle, caller, memory>>

\* The loop has seen running = false.
DispatchDone ==
    /\ In("loop") /\ ~results[Top.req].running
    /\ stack' = Append(Below, Frame("return", Top.req, results[Top.req].error))
    /\ UNCHANGED <<handle, caller, memory>>

\* zookeeper_interest() or zookeeper_process() has returned an error to the loop
\* on top of the stack s, which ends whatever has become of the request.
LoopFails(s, rc) ==
    LET r == Last(s).req
    IN  /\ IF r = 0 THEN stack' = Front(s) /\ UNCHANGED results
           ELSE /\ stack' = Append(Front(s), Frame("return", r, rc))
                /\ results' = [results EXCEPT ![r].retval = "false"]
        /\ UNCHANGED <<caller, method, left>>

Answer(r) == IF Methods[method[r]].answer = "own" THEN results[r].retval
                                                  ELSE Methods[method[r]].answer

\* The QueryResult is on the stack of the method.
MethodReturns ==
    LET r == Top.req
    IN  /\ TopIs("return")
        /\ left' = IF results[r].running THEN [left EXCEPT ![r] = Top.rc] ELSE left
        /\ results' = [results EXCEPT ![r] = Gone]
        /\ stack' = Below
        /\ UNCHANGED <<handle, caller, method>>

\* The loop goes on at fn.
Goto(fn) == Append(Below, Frame(fn, Top.req, "ZOK"))
Running  == Top.req # 0 => results[Top.req].running

-----------------------------------------------------------------------------
(* zookeeper_interest()                                                    *)

InterestOK ==
    /\ TopIs("loop") /\ Running /\ session # "lost"
    /\ session' = IF session = "down" THEN "connecting" ELSE session
    /\ stack' = Goto("poll")
    /\ UNCHANGED <<pending, auths, ready, watches, caller, memory>>

InterestRefused ==
    /\ TopIs("loop") /\ Running /\ session = "lost"
    /\ LoopFails(stack, "ZINVALIDSTATE")
    /\ UNCHANGED handle

\* (faulty: a busy connection is pinged, too)
BusyPingFails ==
    /\ TopIs("loop") /\ Running /\ session = "established"
    /\ LoopFails(stack, "ZCONNECTIONLOSS")
    /\ UNCHANGED handle

\* send_ping() fails: no handle_error().
InterestPingFails ==
    /\ TopIs("loop") /\ Running /\ session = "established" /\ pending = <<>>
    /\ LoopFails(stack, "ZCONNECTIONLOSS")
    /\ UNCHANGED handle

\* wait() gives up when nothing happened before the next deadline, or when
\* there is no descriptor to wait for.
WaitReturns ==
    /\ Waiting("poll") \/ (Waiting("loop") /\ session = "down")
    /\ stack' = Below
    /\ UNCHANGED <<handle, caller, memory>>

\* PROCESS_SESSION_EVENT: the watchers of watch() hear of it as well.
Reply(r, rc) == [kind |-> "reply", req |-> r, rc |-> rc]
Event(kind)  == [kind |-> kind, req |-> 0, rc |-> "ZOK"]

\* handle_error(): the session watchers run first, then "tail".
HandleError(rc, lost) ==
    LET s == Append(Append(Goto("loop"), Inner("call", rc)), Inner("tail", rc))
    IN  IF lost \/ session \in {"established", "closing"}
          THEN /\ session' = IF lost THEN "lost" ELSE "closing"
               /\ ready' = Append(ready, Event("session"))
               /\ stack' = Append(s, Inner("completions", "ZOK"))
          ELSE UNCHANGED <<session, ready>> /\ stack' = s

InterestFails ==
    /\ TopIs("loop") /\ Running /\ session # "lost"
    /\ \E rc \in {"ZCONNECTIONLOSS", "ZOPERATIONTIMEOUT"} :
           /\ rc = "ZCONNECTIONLOSS" => session = "down"
           /\ HandleError(rc, FALSE)
    /\ UNCHANGED <<pending, auths, watches, caller, memory>>

\* (faulty: the requests are forgotten)
Forgotten(rc) == <<>>

Failed(rc) == [i \in 1 .. Len(pending) |-> Reply(pending[i], rc)]

\* handle_error() from cleanup_bufs() on: the completions of credentials run at
\* once, the others are queued and run next.
HandleErrorTail ==
    /\ TopIs("tail")
    /\ ready' = ready \o Failed(Top.rc)
    /\ pending' = <<>> /\ auths' = {}
    /\ results' = Completed(auths, Top.rc)
    /\ session' = IF session = "lost" THEN "lost" ELSE "down"
    /\ stack' = Append(Below, Inner("completions", "ZOK"))
    /\ UNCHANGED <<watches, caller, method, left>>

\* The API call returns to its loop.
CallReturns ==
    /\ TopIs("call")
    /\ LoopFails(Below, Top.rc)
    /\ UNCHANGED handle

-----------------------------------------------------------------------------
(* zookeeper_process()                                                     *)

\* Nothing for the application in it: a timeout of select(), a packet written,
\* the answer to a ping.
ProcessNothing ==
    /\ TopIs("poll")
    /\ stack' = Goto("loop")
    /\ UNCHANGED <<handle, caller, memory>>

\* The packet is not complete yet.
ProcessPartial ==
    /\ TopIs("poll") /\ session \in {"connecting", "established"}
    /\ Cardinality({r \in Requests : left[r] = "ZNOTHING"}) < MaxPartial
    /\ LoopFails(stack, "ZNOTHING")
    /\ UNCHANGED handle

ThenCompletions == stack' = Append(Goto("loop"), Inner("completions", "ZOK"))

\* The handshake is answered.
ProcessEstablished ==
    /\ TopIs("poll") /\ session = "connecting"
    /\ session' = "established"
    /\ ready' = Append(ready, Event("session"))
    /\ ThenCompletions
    /\ UNCHANGED <<pending, auths, watches, caller, memory>>

\* The reply to the first request outstanding; activateWatcher() registers the
\* watcher of a watch() that succeeded.
ProcessReply ==
    LET r == Head(pending)
    IN  /\ TopIs("poll") /\ session = "established" /\ pending # <<>>
        /\ \E rc \in {"ZOK", "ZNONODE"} :
               /\ ready' = Append(ready, Reply(r, rc))
               /\ watches' = IF rc = "ZOK" /\ Methods[method[r]].watches
                               THEN watches + 1 ELSE watches
        /\ pending' = Tail(pending)
        /\ ThenCompletions
        /\ UNCHANGED <<session, auths, caller, memory>>

\* (faulty: the event is not matched with a watcher)
ProcessStrangeEvent ==
    /\ TopIs("poll") /\ session = "established"
    /\ watches' = watches - 1
    /\ ready' = Append(ready, Event("node"))
    /\ ThenCompletions
    /\ UNCHANGED <<session, pending, auths, caller, memory>>

\* A node has changed: its watcher leaves the tables.
ProcessEvent ==
    /\ TopIs("poll") /\ session = "established" /\ watches > 0
    /\ watches' = watches - 1
    /\ ready' = Append(ready, Event("node"))
    /\ ThenCompletions
    /\ UNCHANGED <<session, pending, auths, caller, memory>>

\* auth_completion_func(): the completions of all credentials run at once.
ProcessAuth ==
    /\ TopIs("poll") /\ session = "established" /\ auths # {}
    /\ auths' = {}
    /\ \/ /\ results' = Completed(auths, "ZOK")
          /\ stack' = Goto("loop")
          /\ UNCHANGED <<session, ready>>
       \/ /\ results' = Completed(auths, "ZAUTHFAILED")
          /\ HandleError("ZAUTHFAILED", TRUE)
    /\ UNCHANGED <<pending, watches, caller, method, left>>

ProcessFails ==
    /\ TopIs("poll")
    /\ \/ session # "lost" /\ HandleError("ZCONNECTIONLOSS", FALSE)
       \/ session = "connecting" /\ HandleError("ZSESSIONEXPIRED", TRUE)
    /\ UNCHANGED <<pending, auths, watches, caller, memory>>

-----------------------------------------------------------------------------
(* process_completions() and user code                                     *)

RunCompletion ==
    LET c == Head(ready)
    IN  /\ TopIs("completions") /\ ready # <<>> /\ c.kind = "reply"
        /\ ready' = Tail(ready)
        /\ results' = Completed({c.req}, c.rc)
        /\ UNCHANGED <<session, pending, auths, watches, caller, method, left, stack>>

\* watch_func() calls the PHP callable, if there is one; session events reach
\* it only through a watcher in the tables.
watch_func ==
    LET c == Head(ready)
    IN  /\ TopIs("completions") /\ ready # <<>> /\ c.kind # "reply"
        /\ ready' = Tail(ready)
        /\ stack' = IF callable /\ (c.kind = "node" \/ watches > 0)
                      THEN Append(stack, Inner("watcher", "ZOK")) ELSE stack
        /\ UNCHANGED <<session, pending, auths, watches, caller, memory>>

CompletionsDone ==
    /\ TopIs("completions") /\ ready = <<>>
    /\ stack' = Below
    /\ UNCHANGED <<handle, caller, memory>>

WatcherReturns ==
    /\ TopIs("watcher") /\ refusal = NoRefusal
    /\ stack' = Below
    /\ UNCHANGED <<handle, caller, memory>>

-----------------------------------------------------------------------------
Interest == InterestOK \/ InterestRefused \/ InterestPingFails \/ InterestFails
Process  == ProcessNothing \/ ProcessPartial \/ ProcessEstablished \/ ProcessReply
            \/ ProcessEvent \/ ProcessAuth \/ ProcessFails
Unwind   == HandleErrorTail \/ CallReturns \/ RunCompletion \/ watch_func
            \/ CompletionsDone \/ WatcherReturns

Next == \/ \E m \in Used : Call(m) \/ Refused(m)
        \/ RefusedReturns \/ wait \/ setWatcher \/ WaitReturns \/ DispatchDone \/ MethodReturns
        \/ Interest \/ Process \/ Unwind

Spec == Init /\ [][Next]_vars

\* The program does not stop inside a method; a watcher does not call wait(), or
\* methods that are refused, for ever, nor does that wait() always find something
\* to do; the server answers; a descriptor that handle_error() has closed fails in
\* the end.
FairSpec == /\ Spec
            /\ WF_vars(\/ RefusedReturns \/ DispatchDone \/ MethodReturns
                       \/ Interest \/ ProcessNothing \/ Unwind)
            /\ \A n \in 1 .. MaxNested : /\ SF_vars(WatcherReturns /\ Watchers = n)
                                         /\ SF_vars(WaitReturns /\ Watchers = n)
            /\ SF_vars(\/ ProcessEstablished \/ ProcessReply \/ ProcessAuth
                       \/ session = "closing" /\ (InterestFails \/ ProcessFails))

-----------------------------------------------------------------------------
(* Properties                                                              *)

TypeOK ==
    /\ session \in Sessions /\ pending \in Seq(Requests) /\ auths \subseteq Requests
    /\ ready \in Seq([kind : {"reply", "node", "session"}, req : 0 .. MaxCalls, rc : Codes])
    /\ watches \in Nat /\ callable \in BOOLEAN
    /\ stack \in Seq([fn : FrameKinds, req : 0 .. MaxCalls, rc : Codes])
    /\ method \in [Requests -> Used \cup {"none"}]
    /\ results \in [Requests -> [running : BOOLEAN, error : Codes, retval : Values]]
    /\ left \in [Requests -> Codes]
    /\ refusal \in [method : Used \cup {"none"}, rc : Codes, errCode : Codes]

OnStack(r) == \E i \in 1 .. Len(stack) :
                 stack[i].fn \in {"loop", "poll", "return"} /\ stack[i].req = r
Owed == (Range(pending) \cup auths \cup {ready[i].req : i \in 1 .. Len(ready)}) \ {0}

\* A completion that is still to run writes to a QueryResult that exists: the
\* method that owns it is on the stack.  The exceptions are what the code allows:
\* addAuth() left by a failed ping, and a method left on ZNOTHING (api.cc:80, :108).
ResultsAlive ==
    \A r \in Owed : \/ OnStack(r)
                    \/ left[r] = "ZNOTHING"
                    \/ left[r] = "ZCONNECTIONLOSS" /\ Methods[method[r]].auth

\* The nine methods that return result.retval answer with what their own
\* completion has stored, once it has run: nothing on the way, a nested method, a
\* lost connection or the answer to another request, changes it, and false never
\* hides a success (api.cc:80, :363).  watch() and watchChildren() answer null and
\* true whatever has happened (api.cc:673, :690); what became of their request is
\* only told by errCode.
HonestAnswer ==
    /\ TopIs("return") /\ ~results[Top.req].running
    /\ Methods[method[Top.req]].answer = "own"
    => Answer(Top.req) = Value(Top.req, results[Top.req].error)

\* What errCode tells (api.cc:80, :113).  A request that was accepted and failed,
\* also one of watch() or watchChildren(), has set it to the error of the request
\* or to that of the connection that failed below it.  A request that was refused
\* has set it to the client's code, unless the method is watch() or
\* watchChildren(), which return false without a word (api.cc:669, :686), or
\* setAcl() has rejected the arguments itself (api.cc:614).
FailureTold ==
    /\ TopIs("return") /\ results[Top.req].retval = "false" =>
          LET own == results[Top.req].error
          IN  /\ Top.rc # "ZOK"
              /\ own \notin Failures \cup {"ZOK"} => Top.rc = own
    /\ refusal.method \notin {"watch", "watchChildren"} => refusal.errCode = refusal.rc

\* A method whose request was made inside another one is not answered before
\* it: when it is, the loop around it has only to end (api.cc:73).
OuterFirst ==
    \A i, j \in 1 .. Len(stack) :
        LET f == stack[i]  g == stack[j]
        IN  i < j /\ f.req # 0 /\ g.req # 0 /\ ~Methods[method[f.req]].auth
            /\ ~Methods[method[g.req]].auth /\ ~results[g.req].running
            => ~results[f.req].running

\* ZNOTHING is not an error (include/zookeeper.h): no method fails with it.
NothingIsNoError == TopIs("return") => Top.rc # "ZNOTHING"

\* Whatever happens below them, the methods return: no QueryResult waits for a
\* completion that never runs (api.cc:73).  wait() itself may poll for ever.
MethodsReturn == []<>(\A r \in Requests : ~OnStack(r))
=============================================================================
