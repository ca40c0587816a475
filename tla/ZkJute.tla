------------------------------- MODULE ZkJute -------------------------------
(***************************************************************************)
(* The records of the protocol, zookeeper.jute.c: each is the list of its  *)
(* fields in the order in which serialize_X writes and deserialize_X reads *)
(* them.  A nested record stands in place of its field, because starting   *)
(* and ending a record does nothing in the archives of recordio.c.         *)
(***************************************************************************)
EXTENDS Sequences

jint    == [type |-> "int"]
jlong   == [type |-> "long"]
jbool   == [type |-> "bool"]
ustring == [type |-> "ustring"]
buffer  == [type |-> "buffer"]
vector(record) == [type |-> "vector", of |-> record]

Id                     == <<ustring, ustring>>
ACL                    == <<jint>> \o Id
Stat                   == <<jlong, jlong, jlong, jlong, jint, jint, jint, jlong, jint, jint, jlong>>
StatPersisted          == <<jlong, jlong, jlong, jlong, jint, jint, jint, jlong, jlong>>
StatPersistedV1        == <<jlong, jlong, jlong, jlong, jint, jint, jint, jlong>>
ConnectRequest         == <<jint, jlong, jint, jlong, buffer>>
ConnectResponse        == <<jint, jint, jlong, buffer>>
String_vector          == <<vector(<<ustring>>)>>
SetWatches             == <<jlong>> \o String_vector \o String_vector \o String_vector
RequestHeader          == <<jint, jint>>
MultiHeader            == <<jint, jbool, jint>>
AuthPacket             == <<jint, ustring, buffer>>
ReplyHeader            == <<jint, jlong, jint>>
GetDataRequest         == <<ustring, jbool>>
SetDataRequest         == <<ustring, buffer, jint>>
SetDataResponse        == Stat
GetSASLRequest         == <<buffer>>
SetSASLRequest         == <<buffer>>
SetSASLResponse        == <<buffer>>
ACL_vector             == <<vector(ACL)>>
CreateRequest          == <<ustring, buffer>> \o ACL_vector \o <<jint>>
DeleteRequest          == <<ustring, jint>>
GetChildrenRequest     == <<ustring, jbool>>
GetChildren2Request    == <<ustring, jbool>>
CheckVersionRequest    == <<ustring, jint>>
GetMaxChildrenRequest  == <<ustring>>
GetMaxChildrenResponse == <<jint>>
SetMaxChildrenRequest  == <<ustring, jint>>
SyncRequest            == <<ustring>>
SyncResponse           == <<ustring>>
GetACLRequest          == <<ustring>>
SetACLRequest          == <<ustring>> \o ACL_vector \o <<jint>>
SetACLResponse         == Stat
WatcherEvent           == <<jint, jint, ustring>>
ErrorResponse          == <<jint>>
CreateResponse         == <<ustring>>
ExistsRequest          == <<ustring, jbool>>
ExistsResponse         == Stat
GetDataResponse        == <<buffer>> \o Stat
GetChildrenResponse    == String_vector
GetChildren2Response   == String_vector \o Stat
GetACLResponse         == ACL_vector \o Stat
LearnerInfo            == <<jlong, jint>>
Id_vector              == <<vector(Id)>>
QuorumPacket           == <<jint, jlong, buffer>> \o Id_vector
QuorumAuthPacket       == <<jlong, jint, buffer>>
FileHeader             == <<jint, jint, jlong>>
TxnHeader              == <<jlong, jint, jlong, jlong, jint>>
CreateTxnV0            == <<ustring, buffer>> \o ACL_vector \o <<jbool>>
CreateTxn              == CreateTxnV0 \o <<jint>>
DeleteTxn              == <<ustring>>
SetDataTxn             == <<ustring, buffer, jint>>
CheckVersionTxn        == <<ustring, jint>>
SetACLTxn              == <<ustring>> \o ACL_vector \o <<jint>>
SetMaxChildrenTxn      == <<ustring, jint>>
CreateSessionTxn       == <<jint>>
ErrorTxn               == <<jint>>
Txn                    == <<jint, buffer>>
Txn_vector             == <<vector(Txn)>>
MultiTxn               == Txn_vector

Records == {
    Id, ACL, Stat, StatPersisted, StatPersistedV1, ConnectRequest, ConnectResponse, String_vector,
    SetWatches, RequestHeader, MultiHeader, AuthPacket, ReplyHeader, GetDataRequest, SetDataRequest,
    SetDataResponse, GetSASLRequest, SetSASLRequest, SetSASLResponse, ACL_vector, CreateRequest,
    DeleteRequest, GetChildrenRequest, GetChildren2Request, CheckVersionRequest,
    GetMaxChildrenRequest, GetMaxChildrenResponse, SetMaxChildrenRequest, SyncRequest, SyncResponse,
    GetACLRequest, SetACLRequest, SetACLResponse, WatcherEvent, ErrorResponse, CreateResponse,
    ExistsRequest, ExistsResponse, GetDataResponse, GetChildrenResponse, GetChildren2Response,
    GetACLResponse, LearnerInfo, Id_vector, QuorumPacket, QuorumAuthPacket, FileHeader, TxnHeader,
    CreateTxnV0, CreateTxn, DeleteTxn, SetDataTxn, CheckVersionTxn, SetACLTxn, SetMaxChildrenTxn,
    CreateSessionTxn, ErrorTxn, Txn, Txn_vector, MultiTxn }
=============================================================================
