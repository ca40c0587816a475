----------------------------- MODULE ZkWatches ------------------------------
(***************************************************************************)
(* The watches of a handle (zk_hashtable.c): three tables of one-shot      *)
(* watchers, filled by the replies to requests that carry a registration,  *)
(* emptied by watch events, set again on the server after a reconnect.     *)
(*                                                                         *)
(* Of the connection this module keeps what ZkHandle says of it: packets   *)
(* are handled in order, a failure runs session watchers, drops everything *)
(* under way and fails the outstanding requests, and a reply belongs to    *)
(* the oldest of them.  Left to ZkHandle: a watcher that reconnects while  *)
(* handle_error() is under way, sessions that end, AUTH and PING packets.  *)
(* The server, with its znodes and its own watches, is external.           *)
(***************************************************************************)
EXTENDS Integers, Sequences, FiniteSets, SequencesExt

CONSTANTS Paths,          \* server paths of znodes
          Watchers,       \* pairs of a watcher function and its context
          DefaultWatcher, \* zh->watcher with zh->context
          MaxRequests,    \* bound: requests the application issues
          MaxWrites,      \* bound: changes made to znodes
          MaxErrors,      \* bound: connections that fail
          MaxDepth        \* bound: stack height at which a watcher still polls the handle

ASSUME WatchesAssumption ==
    /\ IsFiniteSet(Paths) /\ IsFiniteSet(Watchers) /\ DefaultWatcher \in Watchers
    /\ MaxRequests \in Nat /\ MaxWrites \in Nat /\ MaxErrors \in Nat /\ MaxDepth \in Nat

VARIABLES
    tables,       \* active_node_watchers, active_exist_watchers, active_child_watchers
    lastZxid,     \* zh->last_zxid
    conn,         \* "down", "up", or "failed": handle_error() is under way
    sentRequests, \* zh->sent_requests
    ready,        \* zh->completions_to_process
    stack,        \* suspended functions, innermost last
    outbox,       \* to_send and what the server has not read of the socket
    inbox,        \* what the server has sent and zookeeper_process() has not handled
    node,         \* the znodes: existence and the zxids of their last changes
    zxid,         \* the server's last change
    serverData,   \* paths of this connection's data watches on the server
    serverChild,  \* ... and of its child watches
    since,        \* history: the state of the znode the watchers of a path were set on
    seen,         \* history: the latest state a completion has shown the application
    owed,         \* history: registrations of a watcher minus its calls for an event
    errors, requests \* bounds

client == <<tables, lastZxid, conn, sentRequests, ready, stack>>
server == <<outbox, inbox, node, zxid, serverData, serverChild>>
ghosts == <<since, seen, owed>>
vars == <<client, server, ghosts, errors, requests>>

-----------------------------------------------------------------------------
Kinds == {"node", "exist", "child"}
Types == {"CREATED", "CHANGED", "DELETED", "CHILD"}
Ops   == {"get", "exists", "getChildren"}

Registrations == {{}} \cup {{w} : w \in Watchers}  \* {} is a null pointer
Requests == [op : Ops, path : Paths, watcher : Registrations]
Events   == [type : Types, path : Paths, zxid : Nat]
SetWatches == [zxid : Nat, paths : [Kinds -> SUBSET Paths]]

Outgoing == [request : Requests] \cup [setWatches : SetWatches]
Incoming == [reply : {"ZOK", "ZNONODE"}, zxid : Nat] \cup [event : Events]
            \cup [setWatches : {"ZOK"}, zxid : Nat]
Ready    == [seen : Nat] \cup [event : Events, watchers : SUBSET Watchers]
            \cup [session : SUBSET Watchers]
Frames   == [fn : {"completions", "handleError"}]
            \cup [fn : {"watcher"}, todo : SUBSET Watchers, session : BOOLEAN]

Has(r, f) == f \in DOMAIN r
Top   == stack[Len(stack)]
Below == SubSeq(stack, 1, Len(stack) - 1)
TopIs(f) == stack # <<>> /\ Top.fn = f

Completions == [fn |-> "completions"]
UserTurn == stack = <<>> \/ TopIs("watcher")
MayPoll  == UserTurn /\ Len(stack) <= MaxDepth

Init ==
    /\ tables = [k \in Kinds |-> [p \in Paths |-> {}]]
    /\ lastZxid = 0 /\ conn = "down" /\ sentRequests = <<>> /\ ready = <<>> /\ stack = <<>>
    /\ outbox = <<>> /\ inbox = <<>>
    /\ node \in [Paths -> [exists : BOOLEAN, created : {1}, data : {1}, children : {1}]]
    /\ zxid = 1 /\ serverData = {} /\ serverChild = {}
    /\ since = [k \in Kinds |-> [p \in Paths |-> 0]]
    /\ seen = 0 /\ owed = [w \in Watchers |-> 0]
    /\ errors = 0 /\ requests = 0

-----------------------------------------------------------------------------
(* The tables                                                              *)

\* data_result_checker(), exists_result_checker(), child_result_checker():
\* the table a registration goes to, if any.
ResultChecker(op, rc) ==
    CASE op \in {"get", "exists"} /\ rc = "ZOK"     -> {"node"}
      [] op = "exists" /\ rc = "ZNONODE"            -> {"exist"}
      [] op = "getChildren" /\ rc = "ZOK"           -> {"child"}
      [] OTHER                                      -> {}

\* activateWatcher(): a watcher that is already there is not added again.
ActivateWatcher(r, rc) ==
    tables' = [k \in Kinds |-> [p \in Paths |->
                  IF k \in ResultChecker(r.op, rc) /\ p = r.path
                    THEN tables[k][p] \cup r.watcher ELSE tables[k][p]]]

\* The tables collectWatchers() looks into for an event.
\* (faulty: a node that is deleted keeps its child watchers)
CollectsNodeOnly(type) == IF type = "CHILD" THEN {"child"} ELSE {"node", "exist"}

Collects(type) == CASE type \in {"CREATED", "CHANGED"} -> {"node", "exist"}
                    [] type = "CHILD"                  -> {"child"}
                    [] type = "DELETED"                -> Kinds

\* add_for_event(): the watchers move from the tables to a delivery list.
Collected(e) == UNION {tables[k][e.path] : k \in Collects(e.type)}
\* (faulty: hashtable_search() instead of hashtable_remove())
RemainingAll(e) == tables
Remaining(e) == [k \in Kinds |-> [p \in Paths |->
                    IF k \in Collects(e.type) /\ p = e.path THEN {} ELSE tables[k][p]]]

\* collectWatchers() for a session event: the default watcher and all those of
\* the tables, copied, not moved.
SessionWatchers == {DefaultWatcher} \cup UNION {tables[k][p] : k \in Kinds, p \in Paths}

\* send_set_watches(): collect_keys() of each table, in front of to_send.
WatchedPaths == [k \in Kinds |-> {p \in Paths : tables[k][p] # {}}]
SetWatchesPacket == [setWatches |-> [zxid |-> lastZxid, paths |-> WatchedPaths]]

\* (faulty: queued behind the requests)
WithSetWatchesLast(q) ==
    IF \A k \in Kinds : WatchedPaths[k] = {} THEN q ELSE Append(q, SetWatchesPacket)
\* (faulty: nothing is sent when one of the tables is empty)
WithSetWatchesOfAll(q) ==
    IF \E k \in Kinds : WatchedPaths[k] = {} THEN q ELSE <<SetWatchesPacket>> \o q

WithSetWatches(q) ==
    IF \A k \in Kinds : WatchedPaths[k] = {} THEN q ELSE <<SetWatchesPacket>> \o q

-----------------------------------------------------------------------------
(* The handle                                                              *)

\* zoo_awget(), zoo_awexists(), zoo_awget_children() and, with a null watcher,
\* their plain forms.
Request ==
    /\ UserTurn /\ requests < MaxRequests
    /\ requests' = requests + 1
    /\ \E r \in Requests :
           /\ sentRequests' = Append(sentRequests, r)
           /\ outbox' = Append(outbox, [request |-> r])
    /\ UNCHANGED <<tables, lastZxid, conn, ready, stack, inbox, node, zxid, serverData,
                   serverChild, ghosts, errors>>

\* check_events(): the session is established on a new connection.
Establish ==
    /\ MayPoll /\ conn = "down"
    /\ conn' = "up"
    /\ outbox' = WithSetWatches(outbox)
    /\ ready' = Append(ready, [session |-> SessionWatchers])
    /\ stack' = Append(stack, Completions)
    /\ UNCHANGED <<tables, lastZxid, sentRequests, inbox, node, zxid, serverData,
                   serverChild, ghosts, errors, requests>>

\* handle_error(): close the socket, tell the watchers of a session ...
HandleError ==
    /\ MayPoll /\ conn # "failed" /\ errors < MaxErrors
    /\ errors' = errors + 1
    /\ IF conn = "down"
         THEN /\ stack' = Append(stack, [fn |-> "handleError"])
              /\ UNCHANGED <<conn, ready>>
         ELSE /\ conn' = "failed"
              /\ ready' = Append(ready, [session |-> SessionWatchers])
              /\ stack' = stack \o <<[fn |-> "handleError"], Completions>>
    /\ inbox' = <<>> /\ serverData' = {} /\ serverChild' = {}
    /\ UNCHANGED <<tables, lastZxid, sentRequests, outbox, node, zxid, ghosts, requests>>

\* ... and drop what was under way.  The faked replies of the outstanding
\* requests activate no watcher.
HandleErrorTail ==
    /\ TopIs("handleError")
    /\ conn' = "down"
    /\ outbox' = <<>> /\ inbox' = <<>> /\ serverData' = {} /\ serverChild' = {}
    /\ sentRequests' = <<>>
    /\ ready' = ready \o [i \in 1 .. Len(sentRequests) |-> [seen |-> 0]]
    /\ stack' = Append(Below, Completions)
    /\ UNCHANGED <<tables, lastZxid, node, zxid, ghosts, errors, requests>>

\* (faulty: the -1 of a watch event is taken for a zxid)
ZxidAlways(z) == z
\* zookeeper_process(): last_zxid follows the header of every packet.
NewLastZxid(z) == IF z > 0 THEN z ELSE lastZxid

\* zookeeper_process() handles one packet, then process_completions() runs.
Received(f) == MayPoll /\ conn = "up" /\ inbox # <<>> /\ Has(Head(inbox), f)

\* The reply to the oldest request.  The watcher is active before the
\* completion runs.
ProcessReply ==
    LET m == Head(inbox)
        r == Head(sentRequests)
        k == ResultChecker(r.op, m.reply)
    IN  /\ Received("reply") /\ sentRequests # <<>>
        /\ inbox' = Tail(inbox) /\ sentRequests' = Tail(sentRequests)
        /\ lastZxid' = NewLastZxid(m.zxid)
        /\ ActivateWatcher(r, m.reply)
        /\ since' = [i \in Kinds |-> [p \in Paths |->
                        IF i \in k /\ p = r.path /\ r.watcher # {}
                          THEN m.zxid ELSE since[i][p]]]
        /\ owed' = [w \in Watchers |-> owed[w] + IF k # {} /\ w \in r.watcher THEN 1 ELSE 0]
        /\ ready' = Append(ready, [seen |-> m.zxid])
        /\ stack' = Append(stack, Completions)
        /\ UNCHANGED <<conn, outbox, node, zxid, serverData, serverChild, seen, errors,
                       requests>>

\* The reply to SetWatches is dropped, after its header was looked at.
ProcessSetWatches ==
    /\ Received("setWatches")
    /\ inbox' = Tail(inbox)
    /\ lastZxid' = NewLastZxid(Head(inbox).zxid)
    /\ stack' = Append(stack, Completions)
    /\ UNCHANGED <<tables, conn, sentRequests, ready, outbox, node, zxid, serverData,
                   serverChild, ghosts, errors, requests>>

\* A watch event; its header carries zxid -1.
ProcessEvent ==
    LET e == Head(inbox).event
    IN  /\ Received("event")
        /\ inbox' = Tail(inbox)
        /\ lastZxid' = NewLastZxid(-1)
        /\ tables' = Remaining(e)
        /\ ready' = Append(ready, [event |-> e, watchers |-> Collected(e)])
        /\ stack' = Append(stack, Completions)
        /\ UNCHANGED <<conn, sentRequests, outbox, node, zxid, serverData, serverChild,
                       ghosts, errors, requests>>

\* process_completions(): run the completion of a request ...
RunCompletion ==
    /\ TopIs("completions") /\ ready # <<>> /\ Has(Head(ready), "seen")
    /\ ready' = Tail(ready)
    /\ seen' = IF Head(ready).seen > seen THEN Head(ready).seen ELSE seen
    /\ UNCHANGED <<tables, lastZxid, conn, sentRequests, stack, server, since, owed, errors,
                   requests>>

\* do_foreach_watcher() calls the watchers ws one after the other; each runs
\* user code.  Their order in the list is left open.
CallOneOf(base, ws, session) ==
    \E w \in ws :
        /\ stack' = Append(base, [fn |-> "watcher", todo |-> ws \ {w}, session |-> session])
        /\ owed' = IF session THEN owed ELSE [owed EXCEPT ![w] = @ - 1]

\* ... or deliverWatchers() for an event ...
DeliverWatchers ==
    LET c  == Head(ready)
        ws == IF Has(c, "session") THEN c.session ELSE c.watchers
    IN  /\ TopIs("completions") /\ ready # <<>> /\ ~Has(c, "seen")
        /\ ready' = Tail(ready)
        /\ IF ws = {} THEN UNCHANGED <<stack, owed>>
                      ELSE CallOneOf(stack, ws, Has(c, "session"))
        /\ UNCHANGED <<tables, lastZxid, conn, sentRequests, server, since, seen, errors,
                       requests>>

NextWatcher ==
    /\ TopIs("watcher") /\ Top.todo # {}
    /\ CallOneOf(Below, Top.todo, Top.session)
    /\ UNCHANGED <<tables, lastZxid, conn, sentRequests, ready, server, since, seen, errors,
                   requests>>

\* ... until nothing is left.
Return ==
    /\ \/ TopIs("watcher") /\ Top.todo = {}
       \/ TopIs("completions") /\ ready = <<>>
    /\ stack' = Below
    /\ UNCHANGED <<tables, lastZxid, conn, sentRequests, ready, server, ghosts, errors,
                   requests>>

-----------------------------------------------------------------------------
(* The server (external)                                                   *)

WatchEvent(type, p, z) == [event |-> [type |-> type, path |-> p, zxid |-> z]]

\* A read: the answer, and the watch that comes with a registration.
ServerReply ==
    LET r  == Head(outbox).request
        rc == IF node[r.path].exists THEN "ZOK" ELSE "ZNONODE"
        watched == IF r.watcher = {} THEN {} ELSE {r.path}
    IN  /\ conn = "up" /\ outbox # <<>> /\ Has(Head(outbox), "request")
        /\ outbox' = Tail(outbox)
        /\ inbox' = Append(inbox, [reply |-> rc, zxid |-> zxid])
        /\ serverData' = IF r.op = "exists" \/ (r.op = "get" /\ rc = "ZOK")
                           THEN serverData \cup watched ELSE serverData
        /\ serverChild' = IF r.op = "getChildren" /\ rc = "ZOK"
                            THEN serverChild \cup watched ELSE serverChild
        /\ UNCHANGED <<node, zxid, client, ghosts, errors, requests>>

LastChange(k, p) == CASE k = "exist" -> node[p].created
                      [] k = "node"  -> node[p].data
                      [] k = "child" -> node[p].children

\* What became of a watched path since zxid z, if anything.
Missed(k, p, z) ==
    {t \in Types :
        \/ t = "CREATED" /\ k = "exist" /\ node[p].exists
        \/ t = "DELETED" /\ k # "exist" /\ ~node[p].exists
        \/ t = "CHANGED" /\ k = "node"  /\ node[p].exists /\ LastChange(k, p) > z
        \/ t = "CHILD"   /\ k = "child" /\ node[p].exists /\ LastChange(k, p) > z}

\* Events for the watches that would have fired meanwhile; the others are set.
ServerSetWatches ==
    LET s      == Head(outbox).setWatches
        fired  == UNION {UNION {{WatchEvent(t, p, LastChange(k, p)) : t \in Missed(k, p, s.zxid)} :
                                    p \in s.paths[k]} : k \in Kinds}
        Set(k) == {p \in s.paths[k] : Missed(k, p, s.zxid) = {}}
    IN  /\ conn = "up" /\ outbox # <<>> /\ Has(Head(outbox), "setWatches")
        /\ outbox' = Tail(outbox)
        /\ inbox' = inbox \o SetToSeq(fired) \o <<[setWatches |-> "ZOK", zxid |-> zxid]>>
        /\ serverData' = serverData \cup Set("node") \cup Set("exist")
        /\ serverChild' = serverChild \cup Set("child")
        /\ UNCHANGED <<node, zxid, client, ghosts, errors, requests>>

\* Somebody changes a znode; the watches on it fire once.
ServerWrite(p, type) ==
    LET now     == zxid + 1
        byData  == type # "CHILD" /\ p \in serverData
        byChild == type \in {"CHILD", "DELETED"} /\ p \in serverChild
    IN  /\ now <= 1 + MaxWrites
        /\ node[p].exists = (type # "CREATED")
        /\ zxid' = now
        /\ node' = [node EXCEPT ![p] =
               [exists   |-> type # "DELETED",
                created  |-> IF type = "CREATED" THEN now ELSE node[p].created,
                data     |-> IF type = "CHILD" THEN node[p].data ELSE now,
                children |-> IF type = "CHANGED" THEN node[p].children ELSE now]]
        /\ inbox' = IF byData \/ byChild THEN Append(inbox, WatchEvent(type, p, now)) ELSE inbox
        /\ serverData' = IF byData THEN serverData \ {p} ELSE serverData
        /\ serverChild' = IF byChild THEN serverChild \ {p} ELSE serverChild
        /\ UNCHANGED <<outbox, client, ghosts, errors, requests>>

-----------------------------------------------------------------------------
\* What must go on for watches to be told: the application polls, callbacks
\* return, the network and the server answer.
Progress ==
    \/ Establish \/ HandleErrorTail
    \/ ProcessReply \/ ProcessSetWatches \/ ProcessEvent
    \/ RunCompletion \/ DeliverWatchers \/ NextWatcher \/ Return
    \/ ServerReply \/ ServerSetWatches

Next ==
    \/ Progress
    \/ Request
    \/ HandleError
    \/ \E p \in Paths, type \in Types : ServerWrite(p, type)

Spec == Init /\ [][Next]_vars

\* Requests, writes and errors are bounded, so that Progress comes to an end:
\* one condition covers all its actions.
FairSpec == Spec /\ WF_vars(Progress)

-----------------------------------------------------------------------------
(* Properties                                                              *)

\* Every variable has its type.
TypeOK ==
    /\ tables \in [Kinds -> [Paths -> SUBSET Watchers]]
    /\ lastZxid \in 0 .. 1 + MaxWrites /\ zxid \in 1 .. 1 + MaxWrites
    /\ conn \in {"down", "up", "failed"}
    /\ sentRequests \in Seq(Requests) /\ ready \in Seq(Ready) /\ stack \in Seq(Frames)
    /\ outbox \in Seq(Outgoing) /\ inbox \in Seq(Incoming)
    /\ serverData \subseteq Paths /\ serverChild \subseteq Paths
    /\ since \in [Kinds -> [Paths -> Nat]] /\ seen \in Nat
    /\ errors \in 0 .. MaxErrors /\ requests \in 0 .. MaxRequests

\* While a session is connected, no watcher waits in a table in vain: for each
\* path of each table (collectWatchers(), activateWatcher()) the server holds a
\* watch, or the event that collects the watcher is under way, or
\* send_set_watches() has queued the path.
WatchCovered ==
    conn = "up" =>
        \A k \in Kinds, p \in Paths : tables[k][p] # {} =>
            \/ p \in IF k = "child" THEN serverChild ELSE serverData
            \/ \E i \in DOMAIN inbox : /\ Has(inbox[i], "event")
                                       /\ inbox[i].event.path = p
                                       /\ k \in Collects(inbox[i].event.type)
            \/ \E i \in DOMAIN outbox : /\ Has(outbox[i], "setWatches")
                                        /\ p \in outbox[i].setWatches.paths[k]

\* The znode is not what it was when the watchers were set.
Outdated(k, p) == LastChange(k, p) > since[k][p] /\ (k = "exist" => node[p].exists)

\* No completion shows the application the effect of a change before the
\* watchers of that change are called: neither while they wait in a table, with
\* a reconnect in between (send_set_watches() goes in front of the queued
\* requests), nor once zookeeper_process() has collected them.  Not included:
\* the rest of a delivery list whose first watcher polls the handle itself.
EventBeforeData ==
    /\ \A k \in Kinds, p \in Paths :
           tables[k][p] # {} /\ Outdated(k, p) => seen < LastChange(k, p)
    /\ \A i \in DOMAIN ready :
           Has(ready[i], "event") /\ ready[i].watchers # {} => seen < ready[i].event.zxid

\* A watcher is called for events at most as often as a reply has registered
\* it: do_foreach_watcher() never calls one that add_for_event() left behind.
OneShot == \A w \in Watchers : owed[w] >= 0

\* A watcher is collected only for a change made after the read that set it:
\* the zxid that send_set_watches() sends hides from the server what the
\* application has already been told.
OnlyNewChanges ==
    \A i \in DOMAIN inbox : Has(inbox[i], "event") =>
        LET e == inbox[i].event
        IN  \A k \in Collects(e.type) :
                tables[k][e.path] # {} => e.zxid > since[k][e.path]

\* A watcher whose znode has changed does not stay in its table: the event
\* arrives, or after a reconnect the answer to SetWatches takes its place.
WatchFires ==
    \A k \in Kinds, p \in Paths :
        (tables[k][p] # {} /\ Outdated(k, p)) ~> ~(tables[k][p] # {} /\ Outdated(k, p))
=============================================================================
