------------------------------- MODULE ZkCalls ------------------------------
(***************************************************************************)
(* One call of the asynchronous API of zookeeper.c, from the arguments to  *)
(* the completion: a handle is made of a connect string, the call turns    *)
(* its arguments into a request, the server answers with the record its    *)
(* operation has, or the connection is lost and the client answers itself, *)
(* and the completion reads the record its type says.  A multi request     *)
(* carries several operations and its completion one entry for each.       *)
(* Paths come from ZkPaths, the handle's addresses from ZkHosts, the       *)
(* records from ZkJute; when the call travels is the subject of ZkHandle.  *)
(***************************************************************************)
EXTENDS ZkPaths, ZkHosts, ZkJute

CONSTANTS
    Suffixes,     \* connect strings from their first "/" on
    ClientPaths,  \* what callers pass as a path
    OpPaths,      \* and in the operations of a multi request
    Arrays,       \* what PHP callers pass as an ACL: sequences of entries
    Broken,       \* the entries without permissions or a scheme
    MaxOps,       \* the most operations of a multi request
    PlainHosts    \* calls are made on the handles of this host list only

(* Paths are character by character, an array has a first entry. *)
ASSUME CallsAssumption ==
    /\ Suffixes \subseteq Seq(STRING) /\ ClientPaths \subseteq Seq(STRING)
    /\ OpPaths \subseteq Seq(STRING) /\ MaxOps \in Nat
    /\ \A array \in Arrays : array \in Seq({array[i] : i \in DOMAIN array})

NoPath == <<"none">>

VARIABLES
    chroot,       \* of the handle
    call,         \* the call: its function and arguments
    stage,        \* "idle", "refused", "undefined", "asked", "answered", "multi", "told", "aborted"
    rc,           \* what it returned, then the code of the answer
    sent,         \* the operations the server gets, each with its path
    wire,         \* the records of the answer still to be read
    clist,        \* the entries of a multi completion still to be answered
    mhdr,         \* the multi header read last
    results       \* what the completions are told

callVars == <<call, stage, rc, sent, wire, clist, mhdr, results>>
vars == <<hostVars, chroot, callVars>>

(* ------------------------------ the handle ----------------------------- *)

ZeroHeader == [type |-> "0", done |-> FALSE, err |-> "ZOK"]

Init ==
    /\ HostsInit /\ chroot = NoPath
    /\ call = [fn |-> "none", type |-> "none"] /\ stage = "idle" /\ rc = "ZOK" /\ sent = <<>> /\ wire = <<>>
    /\ clist = <<>> /\ mhdr = ZeroHeader /\ results = <<>>

(* zookeeper_init() refuses a chroot that is no path before it looks up hosts. *)
zookeeper_init ==
    /\ chroot = NoPath
    /\ \E s \in Suffixes :
        /\ chroot' = ChrootOf(s)
        /\ IF ChrootOf(s) # NoChroot /\ ~isValidPath(s, FALSE)
           THEN resolving' = "failed" /\ UNCHANGED <<hostlist, hosts, addrs, alen, shuffle>>
           ELSE StartResolving
    /\ UNCHANGED callVars

getaddrs == Resolve /\ UNCHANGED <<chroot, callVars>>

(* ----------------------------- the functions --------------------------- *)

(* A function of the API: its operation, the record of its request, the type
   of its completion and whether its path may be that of a sequential node. *)
Function(op, request, completion) == [op |-> op, request |-> request, completion |-> completion]

ChildrenOnly == Function("ZOO_GETCHILDREN2_OP", GetChildren2Request, "COMPLETION_STRINGLIST")  \* (faulty)

zoo_awget           == Function("ZOO_GETDATA_OP", GetDataRequest, "COMPLETION_DATA")
zoo_aset            == Function("ZOO_SETDATA_OP", SetDataRequest, "COMPLETION_STAT")
zoo_acreate         == Function("ZOO_CREATE_OP", CreateRequest, "COMPLETION_STRING")
zoo_adelete         == Function("ZOO_DELETE_OP", DeleteRequest, "COMPLETION_VOID")
zoo_awexists        == Function("ZOO_EXISTS_OP", ExistsRequest, "COMPLETION_STAT")
zoo_awget_children  == Function("ZOO_GETCHILDREN_OP", GetChildrenRequest, "COMPLETION_STRINGLIST")
zoo_awget_children2 == Function("ZOO_GETCHILDREN2_OP", GetChildren2Request, "COMPLETION_STRINGLIST_STAT")
zoo_async           == Function("ZOO_SYNC_OP", SyncRequest, "COMPLETION_STRING")
zoo_aget_acl        == Function("ZOO_GETACL_OP", GetACLRequest, "COMPLETION_ACLLIST")
zoo_aset_acl        == Function("ZOO_SETACL_OP", SetACLRequest, "COMPLETION_VOID")

Functions == {zoo_awget, zoo_aset, zoo_acreate, zoo_adelete, zoo_awexists, zoo_awget_children,
              zoo_awget_children2, zoo_async, zoo_aget_acl}

(* Request_path_init(). *)
PathError(path, sequence, state) ==
    IF ~isValidPath(prepend_string(chroot, path), sequence) THEN "ZBADARGUMENTS"
    ELSE IF state = "unrecoverable" THEN "ZINVALIDSTATE"
    ELSE "ZOK"

(* The state of the handle when it is called; add_completion() takes nothing
   while it closes, and the caller is told ZMARSHALLINGERROR. *)
States == {"open", "closing", "unrecoverable"}
Added(state) == IF state = "closing" THEN "ZMARSHALLINGERROR" ELSE "ZOK"

Ready == resolving = "ok" /\ hostlist = PlainHosts /\ stage = "idle"

(* convert_array_to_acl(): as many entries as the array has, each made of the
   first.  An array whose first entry is broken is refused. *)
Refused(array) == array # <<>> /\ array[1] \in Broken
convert_array_to_acl(array) == [i \in DOMAIN array |-> array[1]]

Submit(fn, path, sequence, state, array) ==
    LET error == PathError(path, sequence, state)
        code == IF error = "ZOK" THEN Added(state) ELSE error
    IN  /\ call' = [fn |-> fn.op, path |-> path, sequence |-> sequence, acl |-> array, type |-> fn.completion]
        /\ rc' = code /\ stage' = IF code = "ZOK" THEN "asked" ELSE "refused"
        /\ sent' = IF code # "ZOK" THEN <<>>
                   ELSE <<[op |-> fn.op, request |-> fn.request, path |-> prepend_string(chroot, path),
                          acl |-> convert_array_to_acl(array)]>>
        /\ UNCHANGED <<hostVars, chroot, wire, clist, mhdr, results>>

Call ==
    /\ Ready
    /\ \E fn \in Functions, path \in ClientPaths, state \in States, sequence \in BOOLEAN :
        /\ sequence => fn = zoo_acreate
        /\ Submit(fn, path, sequence, state, <<>>)

setAcl ==
    /\ Ready
    /\ \E path \in ClientPaths, array \in Arrays, state \in States :
        /\ ~Refused(array)
        /\ Submit(zoo_aset_acl, path, FALSE, state, array)

(* ---------------------------- multi requests --------------------------- *)

zoo_check == Function("ZOO_CHECK_OP", CheckVersionRequest, "COMPLETION_VOID")
OpFunctions == {zoo_acreate, zoo_adelete, zoo_aset, zoo_check}

QueuedFirst(list, entry) == <<entry>> \o list      \* (faulty: add_to_front)

Queued(list, entry) == Append(list, entry)

(* The entries in the order of the operations, queued one by one. *)
Entries(ops) ==
    LET list[i \in 0..Len(ops)] ==
            IF i = 0 THEN <<>> ELSE Queued(list[i - 1], [index |-> i, type |-> ops[i].fn.completion])
    IN  list[Len(ops)]

(* A create operation of a sequential node is checked like zoo_acreate(). *)
Operation == {op \in [fn : OpFunctions, path : OpPaths, sequence : BOOLEAN] :
                op.sequence => op.fn = zoo_acreate}

OpError(op, state) == PathError(op.path, op.sequence, state)

(* One bad path and nothing is sent, but every operation is looked at.  The path
   of each is freed in the end, also that of the bad one, which Request_path_init()
   has freed if it was made with the chroot, and those behind it, which were never
   set: what follows is undefined. *)
zoo_amulti ==
    /\ Ready
    /\ \E n \in 0..MaxOps, state \in States : \E ops \in [1..n -> Operation] :
        LET bad == {i \in 1..n : OpError(ops[i], state) # "ZOK"}
            code == IF bad # {} THEN "ZMARSHALLINGERROR" ELSE Added(state)
            wild == \E i \in bad : chroot # NoChroot \/ i < n
        IN  /\ call' = [fn |-> "ZOO_MULTI_OP", ops |-> ops, type |-> "COMPLETION_MULTI"]
            /\ rc' = code
            /\ stage' \in IF code = "ZOK" THEN {"asked"}
                         ELSE IF wild THEN {"refused", "undefined"} ELSE {"refused"}
            /\ clist' = IF code = "ZOK" THEN Entries(ops) ELSE <<>>
            /\ sent' = IF code # "ZOK" THEN <<>>
                       ELSE [i \in 1..n |-> [op |-> ops[i].fn.op, request |-> ops[i].fn.request,
                                             path |-> prepend_string(chroot, ops[i].path), acl |-> <<>>]]
            /\ UNCHANGED <<hostVars, chroot, wire, mhdr, results>>

(* An operation that is none of the four. *)
UnknownOp ==
    /\ Ready
    /\ call' = [fn |-> "ZOO_MULTI_OP", ops |-> <<>>, type |-> "COMPLETION_MULTI"]
    /\ rc' = "ZUNIMPLEMENTED" /\ stage' = "refused"
    /\ UNCHANGED <<hostVars, chroot, sent, wire, clist, mhdr, results>>

(* ------------------------------ the server ----------------------------- *)

(* The record of each operation's answer, as the protocol names it. *)
Response(op) ==
    CASE op = "ZOO_GETDATA_OP"      -> GetDataResponse
      [] op = "ZOO_SETDATA_OP"      -> SetDataResponse
      [] op = "ZOO_CREATE_OP"       -> CreateResponse
      [] op = "ZOO_EXISTS_OP"       -> ExistsResponse
      [] op = "ZOO_GETCHILDREN_OP"  -> GetChildrenResponse
      [] op = "ZOO_GETCHILDREN2_OP" -> GetChildren2Response
      [] op = "ZOO_SYNC_OP"         -> SyncResponse
      [] op = "ZOO_GETACL_OP"       -> GetACLResponse
      [] op = "ZOO_SETACL_OP"       -> SetACLResponse
      [] OTHER                      -> <<>>       \* delete and check

Answer(records, code) ==
    /\ stage = "asked" /\ stage' = "answered"
    /\ wire' = records /\ rc' = code
    /\ UNCHANGED <<hostVars, chroot, call, sent, clist, mhdr, results>>

Item(op) == [type |-> op, done |-> FALSE, err |-> "ZOK", record |-> Response(op)]
ErrorItem(code) == [type |-> "-1", done |-> FALSE, err |-> code, record |-> ErrorResponse]
End == [type |-> "-1", done |-> TRUE, err |-> "-1"]

ServerAnswers ==
    /\ call.type # "COMPLETION_MULTI"
    /\ \/ Answer(<<[record |-> Response(call.fn)]>>, "ZOK")
       \/ Answer(<<>>, "ZNONODE")

(* All the operations of a multi request succeed, or one fails: those before
   it are undone and those behind it not tried. *)
ServerAnswersMulti ==
    /\ call.type = "COMPLETION_MULTI"
    /\ LET n == Len(sent) IN
        \/ Answer([i \in 1..n |-> Item(sent[i].op)] \o <<End>>, "ZOK")
        \/ \E f \in 1..n :
            Answer([i \in 1..n |-> ErrorItem(IF i < f THEN "ZOK" ELSE IF i = f THEN "ZNODEEXISTS"
                                             ELSE "ZRUNTIMEINCONSISTENCY")] \o <<End>>, "ZOK")

(* free_completions(): the client's own answer has a header and nothing else. *)
ConnectionLost == Answer(<<>>, "ZCONNECTIONLOSS")

(* ---------------------------- the completion --------------------------- *)

(* deserialize_response(): the record read for each type of completion. *)
RecordRead(type) ==
    CASE type = "COMPLETION_DATA"            -> GetDataResponse
      [] type = "COMPLETION_STAT"            -> SetDataResponse
      [] type = "COMPLETION_STRINGLIST"      -> GetChildrenResponse
      [] type = "COMPLETION_STRINGLIST_STAT" -> GetChildren2Response
      [] type = "COMPLETION_STRING"          -> CreateResponse
      [] type = "COMPLETION_ACLLIST"         -> GetACLResponse
      [] OTHER                               -> <<>>

(* What a completion is told: a code and, if it is ZOK, the record it was
   read as, beside the record that was there. *)
Told(index, type, err, items) ==
    [index |-> index, err |-> err,
     read |-> IF err = "ZOK" THEN RecordRead(type) ELSE <<>>,
     there |-> IF err = "ZOK" /\ items # <<>> THEN Head(items).record ELSE <<>>]

deserialize_response ==
    /\ stage = "answered" /\ call.type # "COMPLETION_MULTI"
    /\ results' = <<Told(1, call.type, rc, wire)>>
    /\ stage' = "told"
    /\ UNCHANGED <<hostVars, chroot, call, rc, sent, wire, clist, mhdr>>

(* deserialize_MultiHeader(): what cannot be read leaves the header as it is. *)
HeaderIn(items) ==
    IF items = <<>> THEN mhdr
    ELSE [type |-> Head(items).type, done |-> Head(items).done, err |-> Head(items).err]

StartMulti ==
    /\ stage = "answered" /\ call.type = "COMPLETION_MULTI"
    /\ stage' = "multi" /\ rc' = "ZOK" /\ mhdr' = HeaderIn(wire)
    /\ UNCHANGED <<hostVars, chroot, call, sent, wire, clist, results>>

(* The first error is the whole request's, unless it only says that another
   operation failed. *)
Worse(code, err) == IF code = "ZOK" /\ err # "ZRUNTIMEINCONSISTENCY" THEN err ELSE code

(* One turn of the loop: the next entry takes the next record. *)
TakeEntry ==
    /\ stage = "multi" /\ ~mhdr.done /\ clist # <<>>
    /\ LET entry == Head(clist) IN
        IF mhdr.type = "-1"
        THEN /\ rc' = Worse(rc, mhdr.err)
             /\ results' = Append(results, [index |-> entry.index, err |-> mhdr.err, read |-> <<>>, there |-> <<>>])
        ELSE /\ results' = Append(results, Told(entry.index, entry.type, mhdr.err, wire))
             /\ UNCHANGED rc
    /\ LET rest == IF wire = <<>> THEN <<>> ELSE Tail(wire) IN wire' = rest /\ mhdr' = HeaderIn(rest)
    /\ clist' = Tail(clist)
    /\ UNCHANGED <<hostVars, chroot, call, stage, sent>>

(* assert(entry) *)
NoEntry ==
    /\ stage = "multi" /\ ~mhdr.done /\ clist = <<>>
    /\ stage' = "aborted"
    /\ UNCHANGED <<hostVars, chroot, call, rc, sent, wire, clist, mhdr, results>>

EndMulti ==
    /\ stage = "multi" /\ mhdr.done
    /\ stage' = "told"
    /\ UNCHANGED <<hostVars, chroot, call, rc, sent, wire, clist, mhdr, results>>

(* ------------------------------- the whole ----------------------------- *)

Over ==
    \/ stage \in {"refused", "undefined", "told", "aborted"}
    \/ resolving = "failed"
    \/ resolving = "ok" /\ hostlist # PlainHosts

Next ==
    \/ zookeeper_init \/ getaddrs
    \/ Call \/ setAcl \/ zoo_amulti \/ UnknownOp
    \/ ServerAnswers \/ ServerAnswersMulti \/ ConnectionLost
    \/ deserialize_response \/ StartMulti \/ TakeEntry \/ NoEntry \/ EndMulti
    \/ Over /\ UNCHANGED vars

Spec == Init /\ [][Next]_vars

(* ------------------------------ properties ----------------------------- *)

(* A path that begins with "/" is refused exactly when it is not well formed,
   and one that is sent is, below the handle's chroot, the path the caller
   gave; the operations of a multi request are sent only if the paths of all of
   them are; an ACL whose entries are all alike arrives as it was passed:
   isValidPath(), prepend_string(), sub_string(), convert_array_to_acl(). *)
Absolute(path) == path # <<>> /\ path[1] = "/"
Alike(array) == \A i, j \in DOMAIN array : array[i] = array[j]

RequestFaithful ==
    /\ stage \in {"asked", "refused"} /\ call.type # "COMPLETION_MULTI" =>
        /\ Absolute(call.path) =>
            /\ rc = "ZBADARGUMENTS" <=> ~WellFormedFor(call.path, call.sequence)
            /\ stage = "asked" => sub_string(chroot, sent[1].path) = call.path
        /\ stage = "asked" /\ Alike(call.acl) => sent[1].acl = call.acl
    /\ stage = "asked" /\ call.type = "COMPLETION_MULTI" =>
        \A i \in DOMAIN sent :
            Absolute(call.ops[i].path) =>
                /\ WellFormedFor(call.ops[i].path, call.ops[i].sequence)
                /\ sub_string(chroot, sent[i].path) = call.ops[i].path

(* The completion of each function reads the record the server answers its
   operation with: the functions' completion types, deserialize_response(). *)
ReadsWhatIsThere(type, result) ==
    result.err = "ZOK" /\ type # "COMPLETION_VOID" => result.read = result.there

ReplyReadable ==
    stage = "told" /\ call.type # "COMPLETION_MULTI" => ReadsWhatIsThere(call.type, results[1])

(* A multi request the server has answered tells each operation's completion
   that operation's own outcome, and its caller the code of the operation that
   failed: zoo_amulti(), deserialize_multi(). *)
MultiInOrder ==
    stage = "told" /\ call.type = "COMPLETION_MULTI" =>
        /\ Len(results) = Len(sent)
        /\ \A i \in DOMAIN results :
            /\ results[i].index = i
            /\ ReadsWhatIsThere(call.ops[i].fn.completion, results[i])
        /\ rc = "ZOK" <=> \A i \in DOMAIN results : results[i].err = "ZOK"
        /\ rc # "ZOK" => rc # "ZRUNTIMEINCONSISTENCY" /\ \E i \in DOMAIN results : results[i].err = rc

(* deserialize_multi() asserts that there is an entry for every header that
   does not end the request. *)
EntryForEveryHeader == ~(stage = "multi" /\ ~mhdr.done /\ clist = <<>>)
=============================================================================
