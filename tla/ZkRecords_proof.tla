-------------------------- MODULE ZkRecords_proof --------------------------
(***************************************************************************)
(* The records of zookeeper.jute.c through the archives of recordio.c, for *)
(* every record, every text, every size of a byte, an int, a long and a    *)
(* first allocation, and wherever the input is cut: the archives stay      *)
(* within their buffers, what is left by a read that reports success can   *)
(* be deallocated, what arrives whole is read back as it was written, and  *)
(* a record without a vector is read back so or its reading fails.         *)
(*                                                                         *)
(* The writer leaves a trail: the fields left to write and the place       *)
(* reached before and behind each field.  The reader is on it as long as   *)
(* nothing has failed.                                                     *)
(***************************************************************************)
EXTENDS ZkRecords, ZkSequences

-----------------------------------------------------------------------------
(* Numbers                                                                 *)

\* The sizes are natural numbers, and a byte counts an even number of values.
LEMMA Sizes ==
    /\ Base \in Nat /\ Base >= 4 /\ IntSize \in Nat /\ LongSize \in Nat /\ Alloc \in Nat
    /\ 1 <= IntSize /\ IntSize <= LongSize
    /\ \E b \in Nat : Base = 2 * b
<1>1. Base \in Nat /\ Base >= 4 /\ Base % 2 = 0
  BY SizesAssumption DEF SizesAssumption
<1>2. Base \div 2 \in Nat /\ Base = 2 * (Base \div 2)
  BY <1>1
<1> QED
  BY <1>1, <1>2, SizesAssumption DEF SizesAssumption

\* The powers of the base.
LEMMA Powers ==
    /\ \A n \in Nat : Power[n] \in Nat /\ Power[n] >= 1 /\ Power[n + 1] = Base * Power[n]
    /\ Power[0] = 1
<1> DEFINE F == [x \in Nat \X (Nat \ {0}) |-> Base * x[1]]
<1>1. F \in [Nat \X (Nat \ {0}) -> Nat] /\ \A x \in Nat, i \in Nat \ {0} : F[<<x, i>>] = Base * x
  <2>1. \A x \in Nat : Base * x \in Nat
    BY Sizes
  <2> QED
    BY <2>1
<1> HIDE DEF F
<1>2. PICK g \in [Nat -> Nat] : \A n \in Nat : Unrolls(g, 1, F, n)
  BY <1>1, RecursionNat
<1>3. ASSUME NEW i \in Nat PROVE g[i] = IF i = 0 THEN 1 ELSE Base * g[i - 1]
  <2>1. g[i] = IF i = 0 THEN 1 ELSE F[<<g[i - 1], i>>]
    BY <1>2 DEF Unrolls
  <2>2. i # 0 => F[<<g[i - 1], i>>] = Base * g[i - 1]
    BY <1>1
  <2> QED
    BY <2>1, <2>2
<1>4. g = [i \in Nat |-> IF i = 0 THEN 1 ELSE Base * g[i - 1]]
  BY <1>3
<1>5. Power = [i \in Nat |-> IF i = 0 THEN 1 ELSE Base * Power[i - 1]]
  BY <1>4 DEF Power
<1>6. ASSUME NEW n \in Nat PROVE Power[n] \in Nat /\ Power[n] >= 1
  <2> DEFINE T == {i \in Nat : Power[i] \in Nat /\ Power[i] >= 1}
  <2>1. 0 \in T
    BY <1>5
  <2>2. ASSUME NEW i \in 1 .. n, i - 1 \in T PROVE i \in T
    <3>1. PICK p \in Nat : p = Power[i - 1] /\ p >= 1
      BY <2>2
    <3>2. Power[i] = Base * p
      BY <1>5, <3>1
    <3>3. Base * p \in Nat /\ Base * p >= 1
      BY <3>1, Sizes
    <3> QED
      BY <3>2, <3>3
  <2> HIDE DEF T
  <2>3. 0 .. n \subseteq T
    BY <2>1, <2>2, Climb
  <2> QED
    BY <2>3 DEF T
<1>7. \A n \in Nat : Power[n + 1] = Base * Power[n]
  BY <1>5
<1> QED
  BY <1>5, <1>6, <1>7

\* They are even, and they grow.
LEMMA PowersGrow ==
    ASSUME NEW n \in Nat, n >= 1
    PROVE  /\ Power[n] >= 4
           /\ \E h \in Nat : Power[n] = 2 * h
           /\ \A m \in 0 .. n : Power[m] <= Power[n]
<1>1. PICK k \in Nat, p \in Nat : k + 1 = n /\ p = Power[k] /\ p >= 1
  <2>1. n - 1 \in Nat /\ (n - 1) + 1 = n
    OBVIOUS
  <2> QED
    BY <2>1, Powers
<1>2. Power[n] = Base * p
  BY <1>1, Powers
<1>3. Base * p >= 4
  BY <1>1, Sizes
<1>4. PICK b \in Nat : Base = 2 * b
  BY Sizes
<1>5. Base * p = 2 * (b * p) /\ b * p \in Nat
  BY <1>1, <1>4
<1>6. ASSUME NEW m \in 0 .. n PROVE Power[m] <= Power[n]
  <2> DEFINE T == {i \in Nat : Power[m] <= Power[m + i]}
  <2>1. 0 \in T
    BY Powers
  <2>2. ASSUME NEW i \in 1 .. n - m, i - 1 \in T PROVE i \in T
    <3>1. PICK q \in Nat, r \in Nat : q = Power[m + (i - 1)] /\ r = Power[m] /\ r <= q
      BY <2>2, Powers
    <3>2. Power[m + i] = Base * q
      <4>1. m + (i - 1) \in Nat /\ m + (i - 1) + 1 = m + i
        OBVIOUS
      <4> QED
        BY <3>1, <4>1, Powers
    <3>3. q <= Base * q
      BY <3>1, Sizes
    <3>4. PICK z \in Nat : z = Base * q
      BY Sizes
    <3> QED
      BY <3>1, <3>2, <3>3, <3>4
  <2> HIDE DEF T
  <2>3. n - m \in Nat /\ n - m \in 0 .. n - m
    OBVIOUS
  <2>4. n - m \in T
    BY <2>1, <2>2, <2>3, Climb
  <2>5. m + (n - m) = n
    OBVIOUS
  <2> QED
    BY <2>4, <2>5 DEF T
<1> QED
  BY <1>2, <1>3, <1>5, <1>6

\* A number of size bytes is written as size bytes.
LEMMA Digits ==
    ASSUME NEW v \in Int, NEW size \in Nat
    PROVE  /\ InMemory(v, size) \in Seq(0 .. Base - 1) /\ Len(InMemory(v, size)) = size
           /\ zoo_htonll(InMemory(v, size)) \in Seq(0 .. Base - 1)
           /\ Len(zoo_htonll(InMemory(v, size))) = size
           /\ \A i \in 1 .. size : zoo_htonll(InMemory(v, size))[i] =
                                       ((v + Power[size]) \div Power[size - i]) % Base
<1> DEFINE s == InMemory(v, size)
           d(i) == ((v + Power[size]) \div Power[i - 1]) % Base
<1>1. ASSUME NEW i \in 1 .. size PROVE d(i) \in 0 .. Base - 1
  <2>1. i - 1 \in Nat
    OBVIOUS
  <2>2. PICK p \in Nat, q \in Nat : p = Power[i - 1] /\ p >= 1 /\ q = Power[size]
    BY <2>1, Powers
  <2>3. (v + q) \div p \in Int
    BY <2>2
  <2>4. \A x \in Int : x % Base \in 0 .. Base - 1
    BY Sizes
  <2> QED
    BY <2>2, <2>3, <2>4
<1> HIDE DEF d
<1>2. s = [i \in 1 .. size |-> d(i)]
  BY DEF InMemory, d
<1>3. s \in Seq(0 .. Base - 1) /\ Len(s) = size
  BY <1>1, <1>2
<1> DEFINE t == zoo_htonll(s)
<1>4. t = [i \in 1 .. size |-> s[size + 1 - i]]
  BY <1>3 DEF zoo_htonll
<1>5. \A i \in 1 .. size : s[size + 1 - i] \in 0 .. Base - 1 /\ s[size + 1 - i] = d(size + 1 - i)
  BY <1>1, <1>2
<1> HIDE DEF s, t
<1>6. t \in Seq(0 .. Base - 1) /\ Len(t) = size
  BY <1>4, <1>5
<1>7. \A i \in 1 .. size : t[i] = d(size + 1 - i)
  BY <1>4, <1>5
<1>8. ASSUME NEW i \in 1 .. size
      PROVE  t[i] = ((v + Power[size]) \div Power[size - i]) % Base
  <2>1. size + 1 - i - 1 = size - i
    OBVIOUS
  <2> QED
    BY <1>7, <2>1 DEF d
<1> QED
  BY <1>3, <1>6, <1>8 DEF s, t

\* One more digit.
LEMMA Horner ==
    ASSUME NEW x \in Nat, NEW p \in Nat, NEW d \in Nat, NEW b \in Nat, x < p, d < b
    PROVE  x * b + d \in Nat /\ x * b + d < b * p
<1>1. PICK y \in Nat : p = x + 1 + y
  <2>1. p - x - 1 \in Nat /\ p = x + 1 + (p - x - 1)
    OBVIOUS
  <2> QED
    BY <2>1
<1>2. b * p = x * b + b + b * y
  BY <1>1
<1>3. x * b \in Nat /\ b * y \in Nat
  OBVIOUS
<1> QED
  BY <1>2, <1>3

\* What bytes are read as.
LEMMA UnsignedSteps ==
    ASSUME NEW s \in Seq(0 .. Base - 1)
    PROVE  \E u \in [0 .. Len(s) -> Nat] :
              /\ u[0] = 0 /\ Unsigned(s) = u[Len(s)]
              /\ \A i \in 1 .. Len(s) : u[i] = u[i - 1] * Base + s[i]
              /\ \A i \in 0 .. Len(s) : u[i] < Power[i]
<1>1. PICK n \in Nat : n = Len(s) /\ \A i \in 1 .. n : s[i] \in 0 .. Base - 1
  BY LenProperties, ElementOfSeq
<1> DEFINE F == [x \in Nat \X (1 .. n) |-> x[1] * Base + s[x[2]]]
<1>2. F \in [Nat \X (1 .. n) -> Nat] /\ \A x \in Nat, i \in 1 .. n : F[<<x, i>>] = x * Base + s[i]
  <2>1. ASSUME NEW x \in Nat, NEW i \in 1 .. n PROVE x * Base + s[i] \in Nat
    <3>1. x * Base \in Nat /\ s[i] \in Nat
      BY <1>1, Sizes
    <3> QED
      BY <3>1
  <2> QED
    BY <2>1
<1> HIDE DEF F
<1>3. PICK g \in [0 .. n -> Nat] : Unrolls(g, 0, F, n)
  BY <1>2, Recursion
<1>4. ASSUME NEW i \in 0 .. n PROVE g[i] = IF i = 0 THEN 0 ELSE g[i - 1] * Base + s[i]
  <2>1. i # 0 => i \in 1 .. n /\ g[i - 1] \in Nat
    BY <1>3
  <2> QED
    BY <1>2, <1>3, <2>1 DEF Unrolls
<1>5. g = [i \in 0 .. Len(s) |-> IF i = 0 THEN 0 ELSE g[i - 1] * Base + s[i]]
  BY <1>1, <1>3, <1>4
<1>6. PICK u : /\ u = [i \in 0 .. Len(s) |-> IF i = 0 THEN 0 ELSE u[i - 1] * Base + s[i]]
               /\ Unsigned(s) = u[Len(s)]
  BY <1>5 DEF Unsigned
<1>7. u[0] = 0 /\ \A i \in 1 .. n : u[i] = u[i - 1] * Base + s[i]
  BY <1>1, <1>6
<1> DEFINE T == {i \in 0 .. n : u[i] \in Nat /\ u[i] < Power[i]}
<1>8. 0 \in T
  <2>1. 0 \in 0 .. n /\ u[0] \in Nat /\ u[0] < 1
    BY <1>7
  <2> QED
    BY <2>1, Powers
<1>9. ASSUME NEW i \in 1 .. n, i - 1 \in T PROVE i \in T
  <2>1. i - 1 \in Nat /\ (i - 1) + 1 = i
    OBVIOUS
  <2>2. Power[i - 1] \in Nat /\ Power[i] = Base * Power[i - 1]
    BY <2>1, Powers
  <2>3. s[i] \in Nat /\ s[i] < Base
    BY <1>1, Sizes
  <2>4. u[i - 1] \in Nat /\ u[i - 1] < Power[i - 1]
    BY <1>9
  <2>5. u[i - 1] * Base + s[i] \in Nat /\ u[i - 1] * Base + s[i] < Base * Power[i - 1]
    BY <2>2, <2>3, <2>4, Horner, Sizes
  <2> QED
    BY <1>7, <2>2, <2>5
<1> HIDE DEF T
<1>10. 0 .. n \subseteq T
  BY <1>8, <1>9, Climb
<1>11. \A i \in 0 .. n : u[i] \in Nat /\ u[i] < Power[i]
  BY <1>10 DEF T
<1>12. u \in [0 .. Len(s) -> Nat]
  BY <1>1, <1>6, <1>11
<1> QED
  BY <1>1, <1>6, <1>7, <1>11, <1>12

\* ... with their sign.
LEMMA SignedRange ==
    ASSUME NEW s \in Seq(0 .. Base - 1), Len(s) >= 1
    PROVE  /\ Signed(s) \in Int
           /\ Signed(s) \in -(Power[Len(s)] \div 2) .. (Power[Len(s)] \div 2 - 1)
<1>1. PICK n \in Nat : n = Len(s) /\ n >= 1
  BY LenProperties
<1>2. PICK x \in Nat, p \in Nat, h \in Nat :
          x = Unsigned(s) /\ p = Power[n] /\ x < p /\ p = 2 * h
  <2>1. Power[n] \in Nat /\ \E h \in Nat : Power[n] = 2 * h
    BY <1>1, Powers, PowersGrow
  <2>2. Unsigned(s) \in Nat /\ Unsigned(s) < Power[n]
    BY <1>1, UnsignedSteps
  <2> QED
    BY <2>1, <2>2
<1>3. Signed(s) = IF 2 * x >= p THEN x - p ELSE x
  BY <1>1, <1>2 DEF Signed
<1>4. p \div 2 = h
  BY <1>2
<1> QED
  BY <1>1, <1>2, <1>3, <1>4

-----------------------------------------------------------------------------
(* Fields                                                                  *)

\* The fields of records, and the mark at the end of a vector.
Elementary == {jint, jlong, jbool, ustring, buffer}
Given == Elementary \cup {vector(r) : r \in {<<ustring>>, ACL, Id, Txn}}
Fields == Given \cup {endVector}

\* Every record is a list of such fields, and what is in its vectors is too.
LEMMA GivenLists ==
    /\ \A r \in {<<ustring>>, ACL, Id, Txn} : r \in Seq(Given)
    /\ \A r \in Records : r \in Seq(Given)
<1>1. \A s, t \in Seq(Given) : s \o t \in Seq(Given)
  OBVIOUS
<1>2. Elementary \subseteq Given /\ \A r \in {<<ustring>>, ACL, Id, Txn} : vector(r) \in Given
  BY DEF Given
<1>3. /\ <<jint>> \in Seq(Given) /\ <<jlong>> \in Seq(Given) /\ <<jbool>> \in Seq(Given)
      /\ <<ustring>> \in Seq(Given) /\ <<buffer>> \in Seq(Given)
  BY <1>2 DEF Elementary
<1>4. /\ Id \in Seq(Given) /\ Txn \in Seq(Given) /\ Stat \in Seq(Given)
      /\ StatPersisted \in Seq(Given) /\ StatPersistedV1 \in Seq(Given)
  BY <1>2 DEF Id, Txn, Stat, StatPersisted, StatPersistedV1, Elementary
<1>5. ACL \in Seq(Given)
  BY <1>1, <1>3, <1>4 DEF ACL
<1>6. /\ String_vector \in Seq(Given) /\ ACL_vector \in Seq(Given)
      /\ Id_vector \in Seq(Given) /\ Txn_vector \in Seq(Given)
  BY <1>2 DEF String_vector, ACL_vector, Id_vector, Txn_vector
<1>7. /\ ConnectRequest \in Seq(Given) /\ ConnectResponse \in Seq(Given) /\ RequestHeader \in Seq(Given)
      /\ MultiHeader \in Seq(Given) /\ AuthPacket \in Seq(Given) /\ ReplyHeader \in Seq(Given)
      /\ GetDataRequest \in Seq(Given) /\ SetDataRequest \in Seq(Given)
  BY <1>2 DEF ConnectRequest, ConnectResponse, RequestHeader, MultiHeader, AuthPacket, ReplyHeader,
              GetDataRequest, SetDataRequest, Elementary
<1>8. /\ GetSASLRequest \in Seq(Given) /\ SetSASLRequest \in Seq(Given)
      /\ SetSASLResponse \in Seq(Given) /\ DeleteRequest \in Seq(Given)
      /\ GetChildrenRequest \in Seq(Given) /\ GetChildren2Request \in Seq(Given)
      /\ CheckVersionRequest \in Seq(Given) /\ GetMaxChildrenRequest \in Seq(Given)
      /\ GetMaxChildrenResponse \in Seq(Given) /\ SetMaxChildrenRequest \in Seq(Given)
  BY <1>2 DEF GetSASLRequest, SetSASLRequest, SetSASLResponse, DeleteRequest, GetChildrenRequest,
              GetChildren2Request, CheckVersionRequest, GetMaxChildrenRequest,
              GetMaxChildrenResponse, SetMaxChildrenRequest, Elementary
<1>9. /\ SyncRequest \in Seq(Given) /\ SyncResponse \in Seq(Given) /\ GetACLRequest \in Seq(Given)
      /\ WatcherEvent \in Seq(Given) /\ ErrorResponse \in Seq(Given) /\ CreateResponse \in Seq(Given)
      /\ ExistsRequest \in Seq(Given) /\ LearnerInfo \in Seq(Given) /\ QuorumAuthPacket \in Seq(Given)
      /\ FileHeader \in Seq(Given) /\ TxnHeader \in Seq(Given) /\ DeleteTxn \in Seq(Given)
  BY <1>2 DEF SyncRequest, SyncResponse, GetACLRequest, WatcherEvent, ErrorResponse, CreateResponse,
              ExistsRequest, LearnerInfo, QuorumAuthPacket, FileHeader, TxnHeader, DeleteTxn, Elementary
<1>10. /\ SetDataTxn \in Seq(Given) /\ CheckVersionTxn \in Seq(Given) /\ SetMaxChildrenTxn \in Seq(Given)
       /\ CreateSessionTxn \in Seq(Given) /\ ErrorTxn \in Seq(Given)
       /\ <<ustring, buffer>> \in Seq(Given) /\ <<jint, jlong, buffer>> \in Seq(Given)
  BY <1>2 DEF SetDataTxn, CheckVersionTxn, SetMaxChildrenTxn, CreateSessionTxn, ErrorTxn, Elementary
<1>11. /\ SetWatches \in Seq(Given) /\ SetACLRequest \in Seq(Given) /\ SetACLTxn \in Seq(Given)
       /\ CreateRequest \in Seq(Given) /\ CreateTxnV0 \in Seq(Given) /\ QuorumPacket \in Seq(Given)
  BY <1>1, <1>3, <1>6, <1>10 DEF SetWatches, SetACLRequest, SetACLTxn, CreateRequest, CreateTxnV0, QuorumPacket
<1>12. /\ SetDataResponse \in Seq(Given) /\ SetACLResponse \in Seq(Given) /\ ExistsResponse \in Seq(Given)
       /\ GetDataResponse \in Seq(Given) /\ GetChildrenResponse \in Seq(Given)
       /\ GetChildren2Response \in Seq(Given) /\ GetACLResponse \in Seq(Given)
       /\ CreateTxn \in Seq(Given) /\ MultiTxn \in Seq(Given)
  BY <1>1, <1>3, <1>4, <1>6, <1>11 DEF SetDataResponse, SetACLResponse, ExistsResponse, GetDataResponse,
       GetChildrenResponse, GetChildren2Response, GetACLResponse, CreateTxn, MultiTxn
<1> QED
  BY <1>3, <1>4, <1>5, <1>6, <1>7, <1>8, <1>9, <1>10, <1>11, <1>12 DEF Records

\* A mark is not one of them.
LEMMA NoMark ==
    /\ Given \subseteq Fields /\ endVector \notin Given
    /\ \A f \in Given : f.type \in {"int", "long", "bool", "ustring", "buffer", "vector"}
    /\ \A f \in Elementary : f.type # "vector"
    /\ \A f \in Fields : f.type = "endVector" => f = endVector
BY DEF Given, Fields, Elementary, jint, jlong, jbool, ustring, buffer, vector, endVector

\* With the marks there are more lists.
LEMMA FieldLists ==
    /\ \A s \in Seq(Given) : s \in Seq(Fields)
    /\ \A r \in Records : r \in Seq(Fields)
<1>1. \A s \in Seq(Given) : s \in Seq(Fields)
  BY NoMark
<1> QED
  BY <1>1, GivenLists

\* What a field of a vector is made of.
LEMMA VectorOf ==
    ASSUME NEW f \in Fields, f.type = "vector"
    PROVE  f.of \in Seq(Given) /\ f.of \in Seq(Fields)
<1>1. f \in {vector(r) : r \in {<<ustring>>, ACL, Id, Txn}}
  BY DEF Fields, Given, Elementary, jint, jlong, jbool, ustring, buffer, endVector
<1>2. PICK r \in {<<ustring>>, ACL, Id, Txn} : f = vector(r)
  BY <1>1
<1>3. f.of = r
  BY <1>2 DEF vector
<1> QED
  BY <1>3, GivenLists, FieldLists

\* A sequence again and again.
LEMMA RepeatedOnce ==
    ASSUME NEW S, NEW n \in Nat, n >= 1, NEW s \in Seq(S)
    PROVE  Repeat(n, s) \in Seq(S)
<1> DEFINE q == [i \in 1 .. n |-> s]
<1>1. Len(q) = n /\ \A i \in 1 .. n : q[i] = s
  OBVIOUS
<1> DEFINE F == [x \in Seq(S) \X (1 .. n) |-> x[1] \o s]
<1>2. \A x \in Seq(S) : x \o s \in Seq(S)
  BY ConcatProperties
<1>3. F \in [Seq(S) \X (1 .. n) -> Seq(S)] /\ \A x \in Seq(S), i \in 1 .. n : F[<<x, i>>] = x \o s
  BY <1>2
<1> HIDE DEF F, q
<1>4. <<>> \in Seq(S)
  OBVIOUS
<1>5. PICK b : b = <<>>
  OBVIOUS
<1>6. PICK g \in [0 .. n -> Seq(S)] : Unrolls(g, b, F, n)
  BY <1>3, <1>4, <1>5, Recursion
<1>7. ASSUME NEW i \in 1 .. n
      PROVE  g[i] = IF i = 1 THEN q[i] ELSE g[i - 1] \o q[i]
  <2>1. g[i - 1] \in Seq(S)
    BY <1>6
  <2>2. g[i] = F[<<g[i - 1], i>>]
    BY <1>6 DEF Unrolls
  <2>3. g[i] = g[i - 1] \o s
    BY <1>3, <2>1, <2>2
  <2>4. CASE i = 1
    <3>1. g[i - 1] = <<>>
      BY <1>5, <1>6, <2>4 DEF Unrolls
    <3>2. <<>> \o s = s
      BY ConcatEmptySeq
    <3> QED
      BY <1>1, <2>3, <2>4, <3>1, <3>2
  <2>5. CASE i # 1
    BY <1>1, <2>3, <2>5
  <2> QED
    BY <2>4, <2>5
<1> DEFINE h == [i \in 1 .. Len(q) |-> g[i]]
<1>8. ASSUME NEW i \in 1 .. n
      PROVE  h[i] = IF i = 1 THEN q[i] ELSE h[i - 1] \o q[i]
  <2>1. h[i] = g[i] /\ (i # 1 => h[i - 1] = g[i - 1])
    BY <1>1
  <2>2. CASE i = 1
    BY <1>7, <2>1, <2>2
  <2>3. CASE i # 1
    BY <1>7, <2>1, <2>3
  <2> QED
    BY <2>2, <2>3
<1>9. h = [i \in 1 .. Len(q) |-> h[i]]
  OBVIOUS
<1> HIDE DEF h
<1>10. h = [i \in 1 .. Len(q) |-> IF i = 1 THEN q[i] ELSE h[i - 1] \o q[i]]
  BY <1>1, <1>8, <1>9, Zenon
<1>11. PICK u : /\ u = [i \in 1 .. Len(q) |-> IF i = 1 THEN q[i] ELSE u[i - 1] \o q[i]]
                /\ FlattenSeq(q) = u[Len(q)]
  <2>1. Len(q) # 0
    BY <1>1
  <2> QED
    BY <2>1, <1>10, Zenon DEF FlattenSeq
<1>12. u[1] = s
  BY <1>1, <1>11
<1>13. ASSUME NEW i \in 1 .. n, i # 1 PROVE u[i] = u[i - 1] \o s
  BY <1>1, <1>11, <1>13
<1> DEFINE T == {i \in 0 .. n : i # 0 => u[i] \in Seq(S)}
<1>14. 0 \in T
  OBVIOUS
<1>15. ASSUME NEW i \in 1 .. n, i - 1 \in T PROVE i \in T
  <2>1. CASE i = 1
    BY <1>12, <2>1
  <2>2. CASE i # 1
    <3>1. u[i - 1] \in Seq(S)
      BY <1>15, <2>2
    <3>2. u[i] \in Seq(S)
      BY <1>2, <1>13, <2>2, <3>1
    <3> QED
      BY <3>2
  <2> QED
    BY <2>1, <2>2
<1> HIDE DEF T
<1>16. 0 .. n \subseteq T
  BY <1>14, <1>15, Climb
<1>17. u[n] \in Seq(S)
  BY <1>16 DEF T
<1> QED
  BY <1>1, <1>11, <1>17 DEF Repeat, q

\* Or not at all.
LEMMA Repeated ==
    ASSUME NEW S, NEW n \in Int, NEW s \in Seq(S)
    PROVE  Repeat(n, s) \in Seq(S)
<1>1. CASE n >= 1
  BY <1>1, RepeatedOnce
<1>2. CASE ~ n >= 1
  <2>1. [i \in 1 .. n |-> s] = <<>>
    <3>1. 1 .. n = {}
      BY <1>2
    <3> QED
      BY <3>1
  <2>2. FlattenSeq(<<>>) = <<>>
    BY DEF FlattenSeq
  <2> QED
    BY <2>1, <2>2 DEF Repeat
<1> QED
  BY <1>1, <1>2

-----------------------------------------------------------------------------
(* Bounds                                                                  *)

(* A function on 1..n has the length n. *)
LEMMA LengthOfFunction ==
    ASSUME NEW n \in Nat, NEW f, f = [i \in 1..n |-> f[i]]
    PROVE  Len(f) = n
<1> DEFINE S == {f[i] : i \in 1..n}
<1>1. f \in [1..n -> S]
  OBVIOUS
<1>2. f \in Seq(S)
  BY <1>1
<1> QED
  BY <1>1, <1>2

(* A number of size bytes fills size bytes. *)
LEMMA NumberLength ==
    ASSUME NEW v, NEW size \in Nat
    PROVE  Len(zoo_htonll(InMemory(v, size))) = size
<1> DEFINE s == InMemory(v, size)
<1>1. s = [i \in 1..size |-> s[i]]
  BY DEF InMemory
<1>2. Len(s) = size
  BY <1>1, LengthOfFunction
<1> DEFINE t == zoo_htonll(s)
<1>3. t = [i \in 1..size |-> t[i]]
  BY <1>2 DEF zoo_htonll
<1> HIDE DEF t
<1>4. Len(t) = size
  BY <1>3, LengthOfFunction
<1> QED
  BY <1>4 DEF t

(* The archives' lengths and offsets are natural numbers, and what is copied
   behind a length is a sequence. *)
BoundsInv ==
    /\ out.len \in Nat /\ out.off \in Nat
    /\ in.len \in Nat /\ in.off \in Nat
    /\ copy \in Seq(0..(Base - 1))
    /\ WithinBounds

(* Whatever is put, the archive has room for it. *)
LEMMA PutFits ==
    ASSUME BoundsInv, NEW s, Len(s) \in Nat, Put(s)
    PROVE  /\ out'.len \in Nat /\ out'.off \in Nat
           /\ out'.off <= out'.len
<1> DEFINE need == out.len + Len(s)
<1>1. PICK size \in out.len..2 * need :
         /\ IF Fits(out.len - out.off, Len(s)) THEN size = out.len
            ELSE size >= need /\ size < 2 * need
         /\ out' = [len |-> size, off |-> out.off + Len(s)]
  BY DEF Put
<1>2. out'.len = size /\ out'.off = out.off + Len(s)
  BY <1>1
<1>3. PICK n \in Nat : n = Len(s)
  OBVIOUS
<1>4. size \in Nat /\ out.off + n <= size
  BY <1>1, <1>3 DEF BoundsInv, WithinBounds, Fits
<1> QED
  BY <1>2, <1>3, <1>4 DEF BoundsInv

(* The steps that write change no input and leave a sequence to be copied. *)
LEMMA WritingStep ==
    ASSUME BoundsInv, WriteNumber \/ WriteText \/ Copy \/ WriteNull \/ WriteVector
    PROVE  BoundsInv'
<1>1. CASE WriteNumber
  <2>1. PICK v : Put(zoo_htonll(InMemory(v, SizeOf(Head(todo)))))
    BY <1>1 DEF WriteNumber
  <2>2. SizeOf(Head(todo)) \in Nat
    BY SizesAssumption DEF SizeOf, SizesAssumption
  <2>3. Len(zoo_htonll(InMemory(v, SizeOf(Head(todo))))) \in Nat
    BY <2>2, NumberLength
  <2>4. /\ out'.len \in Nat /\ out'.off \in Nat
        /\ out'.off <= out'.len
    BY <2>1, <2>3, PutFits
  <2>5. UNCHANGED <<in, copy>>
    BY <1>1, <2>1 DEF WriteNumber, Put
  <2> QED
    BY <2>4, <2>5 DEF BoundsInv, WithinBounds
<1>2. CASE WriteText
  <2>1. PICK s \in Texts : Put(zoo_htonll(InMemory(Len(s), IntSize))) /\ copy' = s
    BY <1>2 DEF WriteText
  <2>2. Len(zoo_htonll(InMemory(Len(s), IntSize))) \in Nat
    BY NumberLength, SizesAssumption DEF SizesAssumption
  <2>3. /\ out'.len \in Nat /\ out'.off \in Nat
        /\ out'.off <= out'.len
    BY <2>1, <2>2, PutFits
  <2>4. copy' \in Seq(0..(Base - 1))
    BY <2>1, TextsAssumption DEF TextsAssumption
  <2>5. UNCHANGED in
    BY <2>1 DEF Put
  <2> QED
    BY <2>3, <2>4, <2>5 DEF BoundsInv, WithinBounds
<1>3. CASE Copy
  <2>1. Put(copy) /\ copy' = <<>>
    BY <1>3 DEF Copy
  <2>2. Len(copy) \in Nat
    BY DEF BoundsInv
  <2>3. /\ out'.len \in Nat /\ out'.off \in Nat
        /\ out'.off <= out'.len
    BY <2>1, <2>2, PutFits
  <2>4. UNCHANGED in /\ copy' \in Seq(0..(Base - 1))
    BY <2>1 DEF Put
  <2> QED
    BY <2>3, <2>4 DEF BoundsInv, WithinBounds
<1>4. CASE WriteNull
  <2>1. Put(zoo_htonll(InMemory(-1, IntSize))) /\ UNCHANGED copy
    BY <1>4 DEF WriteNull
  <2>2. Len(zoo_htonll(InMemory(-1, IntSize))) \in Nat
    BY NumberLength, SizesAssumption DEF SizesAssumption
  <2>3. /\ out'.len \in Nat /\ out'.off \in Nat
        /\ out'.off <= out'.len
    BY <2>1, <2>2, PutFits
  <2> QED
    BY <2>1, <2>3 DEF BoundsInv, WithinBounds, Put
<1>5. CASE WriteVector
  <2>1. PICK n : Put(zoo_htonll(InMemory(n, IntSize)))
    BY <1>5 DEF WriteVector
  <2>2. Len(zoo_htonll(InMemory(n, IntSize))) \in Nat
    BY NumberLength, SizesAssumption DEF SizesAssumption
  <2>3. /\ out'.len \in Nat /\ out'.off \in Nat
        /\ out'.off <= out'.len
    BY <2>1, <2>2, PutFits
  <2>4. UNCHANGED <<in, copy>>
    BY <1>5, <2>1 DEF WriteVector, Put
  <2> QED
    BY <2>3, <2>4 DEF BoundsInv, WithinBounds
<1> QED
  BY <1>1, <1>2, <1>3, <1>4, <1>5

(* An input that is cut holds no more than what was written. *)
LEMMA ArriveStep ==
    ASSUME BoundsInv, Arrive
    PROVE  BoundsInv'
<1>1. PICK n \in 0..out.off : in' = [len |-> n, off |-> 0]
  BY DEF Arrive
<1>2. in'.len = n /\ in'.off = 0
  BY <1>1
<1>3. UNCHANGED <<out, copy>>
  BY DEF Arrive
<1> QED
  BY <1>1, <1>2, <1>3 DEF BoundsInv, WithinBounds

(* A read that advances by no more than what is left stays inside. *)
LEMMA ReadStays ==
    ASSUME BoundsInv, NEW code, NEW advance \in Nat, advance <= Left, NEW field, NEW next,
           Read(code, advance, field, next)
    PROVE  BoundsInv'
<1>1. in' = [in EXCEPT !.off = in.off + advance] /\ UNCHANGED <<out, copy>>
  BY DEF Read
<1>2. PICK a \in Nat : a = in.off + advance
  BY DEF BoundsInv
<1> QED
  BY <1>1 DEF BoundsInv, WithinBounds, Left

(* So do all the steps that read. *)
LEMMA ReadingStep ==
    ASSUME BoundsInv, \/ Skip \/ ReadNumber \/ NoLength \/ TooLong
                \/ ReadText \/ ReadNegative \/ NoCount \/ ReadVector
    PROVE  BoundsInv'
<1>1. Left \in Nat
  BY DEF BoundsInv, WithinBounds, Left
<1>2. IntSize \in Nat
  BY SizesAssumption DEF SizesAssumption
<1>3. CASE Skip
  <2>1. PICK code, field, next : Read(code, 0, field, next)
    BY <1>3 DEF Skip
  <2> QED
    BY <1>1, <2>1, ReadStays
<1>4. CASE ReadNumber
  <2> DEFINE f == Head(todo)
  <2>1. SizeOf(f) \in Nat
    BY SizesAssumption DEF SizeOf, SizesAssumption
  <2>2. CASE Left < SizeOf(f) /\ Read("E2BIG", 0, Unset(f), <<>>)
    BY <1>1, <2>2, ReadStays
  <2>3. CASE /\ Left >= SizeOf(f)
             /\ Read("ok", SizeOf(f), Field(<<Signed(Coming(SizeOf(f)))>>, "none"), <<>>)
    <3>1. PICK field : Read("ok", SizeOf(f), field, <<>>)
      BY <2>3
    <3>2. SizeOf(f) <= Left
      BY <1>1, <2>1, <2>3
    <3> HIDE DEF f
    <3> QED
      BY <2>1, <3>1, <3>2, ReadStays
  <2> QED
    BY <1>4, <2>2, <2>3 DEF ReadNumber
<1>5. CASE NoLength
  BY <1>1, <1>5, ReadStays DEF NoLength
<1>6. CASE TooLong
  <2>1. Read("E2BIG", IntSize, Unset(Head(todo)), <<>>) /\ IntSize <= Left
    BY <1>1, <1>2, <1>6 DEF TooLong
  <2> QED
    BY <1>2, <2>1, ReadStays
<1>7. CASE ReadText
  <2>1. PICK n, field : /\ n \in (-1)..(Left - IntSize) /\ n >= 0
                        /\ Read("ok", IntSize + n, field, <<>>)
    BY <1>7 DEF ReadText, Copies
  <2>2. IntSize + n \in Nat /\ IntSize + n <= Left
    BY <1>1, <1>2, <2>1
  <2> QED
    BY <2>1, <2>2, ReadStays
<1>8. CASE ReadNegative
  <2>1. PICK code, field : Read(code, IntSize, field, <<>>) /\ IntSize <= Left
    BY <1>1, <1>2, <1>8 DEF ReadNegative
  <2> QED
    BY <1>2, <2>1, ReadStays
<1>9. CASE NoCount
  <2>1. PICK field, next : Read("E2BIG", 0, field, next)
    BY <1>9 DEF NoCount
  <2> QED
    BY <1>1, <2>1, ReadStays
<1>10. CASE ReadVector
  <2>1. PICK field, next : Read("ok", IntSize, field, next) /\ IntSize <= Left
    BY <1>1, <1>2, <1>10 DEF ReadVector
  <2> QED
    BY <1>2, <2>1, ReadStays
<1> QED
  BY <1>3, <1>4, <1>5, <1>6, <1>7, <1>8, <1>9, <1>10

(* Nothing is written yet. *)
LEMMA InitBounds == Init => BoundsInv
BY SizesAssumption DEF Init, BoundsInv, WithinBounds, SizesAssumption

(* Every step stays in bounds. *)
LEMMA NextBounds == BoundsInv /\ [Next]_vars => BoundsInv'
<1> SUFFICES ASSUME BoundsInv, [Next]_vars PROVE BoundsInv'
  OBVIOUS
<1>1. CASE WriteNumber \/ WriteText \/ Copy \/ WriteNull \/ WriteVector
  BY <1>1, WritingStep
<1>2. CASE Arrive
  BY <1>2, ArriveStep
<1>3. CASE \/ Skip \/ ReadNumber \/ NoLength \/ TooLong
           \/ ReadText \/ ReadNegative \/ NoCount \/ ReadVector
  BY <1>3, ReadingStep
<1>4. CASE EndVector
  BY <1>4 DEF EndVector, BoundsInv, WithinBounds
<1>5. CASE UNCHANGED vars
  BY <1>5 DEF vars, BoundsInv, WithinBounds
<1> QED
  BY <1>1, <1>2, <1>3, <1>4, <1>5 DEF Next

(* Whatever is written and wherever what arrives is cut, the archives neither
   write behind their allocation nor read behind their input (recordio.c). *)
THEOREM AlwaysWithinBounds == Spec => []WithinBounds
<1>1. BoundsInv => WithinBounds
  BY DEF BoundsInv
<1> QED
  BY InitBounds, NextBounds, <1>1, PTL DEF Spec

-----------------------------------------------------------------------------
(* Types, and pointers that nobody has set                                 *)

Pointers == {"none", "null", "heap", "wild"}
Codes == {"ok", "E2BIG", "EINVAL", "ENOMEM"}
InRange(v) == v \in -(Power[LongSize] \div 2) .. (Power[LongSize] \div 2 - 1)

\* The fields that are written and read.
Legal(f) == f.ptr \in Pointers /\ (f.ptr = "none" /\ f.val # <<>> => InRange(f.val[1]))
LegalIn(s, W) == s \in Seq(W) /\ \A f \in W : Legal(f)
Values(s) == \E W : LegalIn(s, W)

Typed ==
    /\ record \in Records /\ phase \in {"write", "read"} /\ rc \in Codes
    /\ bytes \in Seq(0 .. Base - 1) /\ out.off = Len(bytes) /\ in.len <= Len(bytes)
    /\ todo \in Seq(Fields)
    /\ Values(sent) /\ Values(got)

\* A pointer is left unset only outside of vectors, and only by a failure, which then
\* stays.
Unsets(s) == \E i \in 1 .. Len(s) : s[i].ptr = "wild"
Marks(s) == \E i \in 1 .. Len(s) : s[i] = endVector
Reported ==
    /\ phase = "write" => rc = "ok" /\ got = <<>>
    /\ Unsets(got) => rc # "ok" /\ ~Marks(todo)

RecordsInv == BoundsInv /\ Typed /\ Reported

\* One more field.
LEMMA ValuesAppend ==
    ASSUME NEW s, Values(s), NEW f, Legal(f)
    PROVE  /\ Values(Append(s, f))
           /\ Unsets(Append(s, f)) => Unsets(s) \/ f.ptr = "wild"
           /\ Len(s) \in Nat
<1>1. PICK W : s \in Seq(W) /\ \A x \in W : Legal(x)
  BY DEF Values, LegalIn
<1> DEFINE X == W \cup {f}
<1>2. s \in Seq(X) /\ f \in X /\ \A x \in X : Legal(x)
  BY <1>1
<1> HIDE DEF X
<1>3. /\ Append(s, f) \in Seq(X) /\ Len(Append(s, f)) = Len(s) + 1 /\ Len(s) \in Nat
      /\ \A i \in 1 .. Len(s) : Append(s, f)[i] = s[i]
      /\ Append(s, f)[Len(s) + 1] = f
  BY <1>2
<1>4. Values(Append(s, f))
  BY <1>2, <1>3 DEF Values, LegalIn
<1>5. ASSUME NEW i \in 1 .. Len(s) + 1, Append(s, f)[i].ptr = "wild"
      PROVE  Unsets(s) \/ f.ptr = "wild"
  <2>1. i \in 1 .. Len(s) \/ i = Len(s) + 1
    BY <1>3
  <2> QED
    BY <1>3, <1>5, <2>1 DEF Unsets
<1> QED
  BY <1>3, <1>4, <1>5 DEF Unsets

\* The number written is one that fits, whatever its size.
LEMMA NumberRange ==
    ASSUME Values(sent), NEW f \in Fields, f.type \in {"int", "long", "bool"}
    PROVE  /\ SizeOf(f) \in 1 .. LongSize
           /\ Number(f) \in -(Power[SizeOf(f)] \div 2) .. (Power[SizeOf(f)] \div 2 - 1)
           /\ InRange(Number(f))
<1>1. PICK n \in Nat : n = Len(sent)
  BY DEF Values, LegalIn
<1>2. SizeOf(f) \in 1 .. LongSize
  BY Sizes DEF SizeOf
<1>3. PICK z \in Nat : z = SizeOf(f) /\ z >= 1 /\ z <= LongSize
  BY <1>2, Sizes
<1>4. PICK p \in Nat, h \in Nat : p = Power[z] /\ p = 2 * h /\ h >= 2
  <2>1. Power[z] \in Nat /\ Power[z] >= 4
    BY <1>3, Powers, PowersGrow
  <2>2. PICK h \in Nat : Power[z] = 2 * h
    BY <1>3, PowersGrow
  <2> QED
    BY <2>1, <2>2
<1>5. PICK g \in Nat : Power[LongSize] = 2 * g
  BY Sizes, PowersGrow
<1>6. p <= Power[LongSize]
  <2>1. z \in 0 .. LongSize /\ LongSize \in Nat /\ LongSize >= 1
    BY <1>3, Sizes
  <2>2. \A m \in 0 .. LongSize : Power[m] <= Power[LongSize]
    BY <2>1, PowersGrow
  <2> QED
    BY <1>4, <2>1, <2>2
<1>7. p \div 2 = h /\ Power[LongSize] \div 2 = g /\ h <= g
  BY <1>4, <1>5, <1>6
<1>8. Number(f) \in -h .. h - 1
  <2>1. CASE f.type = "bool"
    <3>1. Number(f) = n % 2
      BY <1>1, <2>1 DEF Number
    <3> QED
      BY <1>4, <3>1
  <2>2. CASE f.type # "bool"
    <3>1. Number(f) = ((7 * n + 3) % p) - h
      BY <1>1, <1>3, <1>4, <1>7, <2>2 DEF Number
    <3>2. (7 * n + 3) % p \in 0 .. p - 1
      <4>1. 7 * n + 3 \in Nat /\ p > 0
        BY <1>4
      <4> QED
        BY <4>1
    <3> QED
      BY <1>4, <3>1, <3>2
  <2> QED
    BY <2>1, <2>2
<1> QED
  BY <1>2, <1>3, <1>4, <1>7, <1>8 DEF InRange

\* Whatever is put becomes bytes.
LEMMA PutTyped ==
    ASSUME Typed, BoundsInv, NEW s \in Seq(0 .. Base - 1), Put(s)
    PROVE  /\ bytes' = bytes \o s /\ bytes' \in Seq(0 .. Base - 1)
           /\ out'.off = Len(bytes') /\ in'.len <= Len(bytes')
           /\ UNCHANGED <<record, phase, in, rc, got>>
<1>1. bytes' = bytes \o s /\ UNCHANGED <<record, phase, in, rc, got>>
  BY DEF Put
<1>2. bytes' \in Seq(0 .. Base - 1) /\ Len(bytes') = Len(bytes) + Len(s) /\ Len(bytes) \in Nat /\ Len(s) \in Nat
  BY <1>1, JoinFacts DEF Typed
<1>3. PICK size : out' = [len |-> size, off |-> out.off + Len(s)]
  BY DEF Put
<1>4. out'.off = out.off + Len(s)
  BY <1>3
<1> QED
  BY <1>1, <1>2, <1>4 DEF Typed, BoundsInv

\* What is left without the first field.
LEMMA TodoRest ==
    ASSUME Typed, todo # <<>>
    PROVE  /\ Head(todo) \in Fields /\ Tail(todo) \in Seq(Fields)
           /\ Marks(Tail(todo)) => Marks(todo)
           /\ <<>> \o Tail(todo) = Tail(todo)
<1>1. todo \in Seq(Fields)
  BY DEF Typed
<1>2. /\ Head(todo) \in Fields /\ Tail(todo) \in Seq(Fields)
      /\ Len(todo) \in Nat \ {0} /\ Len(Tail(todo)) = Len(todo) - 1
      /\ \A i \in 1 .. Len(todo) - 1 : Tail(todo)[i] = todo[i + 1]
  BY <1>1
<1>3. ASSUME NEW i \in 1 .. Len(todo) - 1, Tail(todo)[i] = endVector PROVE Marks(todo)
  <2>1. i + 1 \in 1 .. Len(todo)
    BY <1>2
  <2> QED
    BY <1>2, <1>3, <2>1 DEF Marks
<1>4. <<>> \o Tail(todo) = Tail(todo)
  BY <1>2, ConcatEmptySeq
<1> QED
  BY <1>2, <1>3, <1>4 DEF Marks

\* The steps that write keep the types.
LEMMA WritingTyped ==
    ASSUME RecordsInv, WriteNumber \/ WriteText \/ Copy \/ WriteNull \/ WriteVector
    PROVE  Typed' /\ Reported'
<1>1. Typed /\ BoundsInv /\ Reported
  BY DEF RecordsInv
<1>2. ASSUME NEW s \in Seq(0 .. Base - 1), Put(s), todo' \in Seq(Fields), Values(sent'),
             phase = "write" \/ todo' = todo
      PROVE  Typed' /\ Reported'
  <2>1. /\ bytes' \in Seq(0 .. Base - 1) /\ out'.off = Len(bytes') /\ in'.len <= Len(bytes')
        /\ record' = record /\ phase' = phase /\ rc' = rc /\ got' = got
    BY <1>1, <1>2, PutTyped
  <2>2. Typed'
    BY <1>1, <1>2, <2>1 DEF Typed
  <2>3. phase = "write" => ~Unsets(got)
    BY <1>1 DEF Reported, Unsets
  <2>4. Reported'
    BY <1>1, <1>2, <2>1, <2>3 DEF Reported
  <2> QED
    BY <2>2, <2>4
<1>3. Writing({"int", "long", "bool"}) \/ Writing({"ustring", "buffer"}) \/ Writing({"vector"}) =>
          /\ phase = "write" /\ todo # <<>> /\ Head(todo) \in Fields /\ Tail(todo) \in Seq(Fields)
  BY <1>1, TodoRest DEF Writing
<1>4. CASE WriteNumber
  <2> DEFINE f == Head(todo)
  <2>1. PICK v : /\ v = Number(f) /\ Put(zoo_htonll(InMemory(v, SizeOf(f))))
                 /\ sent' = Append(sent, Field(<<v>>, "none")) /\ todo' = Tail(todo)
    BY <1>4 DEF WriteNumber
  <2>2. f \in Fields /\ f.type \in {"int", "long", "bool"} /\ phase = "write" /\ todo' \in Seq(Fields)
    BY <1>3, <1>4, <2>1 DEF WriteNumber, Writing
  <2>3. SizeOf(f) \in 1 .. LongSize /\ InRange(v) /\ v \in -(Power[SizeOf(f)] \div 2) .. (Power[SizeOf(f)] \div 2 - 1)
    BY <1>1, <2>1, <2>2, NumberRange DEF Typed
  <2>4. v \in Int /\ SizeOf(f) \in Nat
    BY <2>3, Sizes
  <2> HIDE DEF f
  <2>5. zoo_htonll(InMemory(v, SizeOf(f))) \in Seq(0 .. Base - 1)
    BY <2>4, Digits
  <2>6. Legal(Field(<<v>>, "none"))
    BY <2>3 DEF Legal, Field, Pointers
  <2>7. Values(sent')
    BY <1>1, <2>1, <2>6, ValuesAppend DEF Typed
  <2> QED
    BY <1>2, <2>1, <2>2, <2>5, <2>7
<1>5. CASE WriteText
  <2>1. PICK s \in Texts : /\ Put(zoo_htonll(InMemory(Len(s), IntSize)))
                           /\ sent' = Append(sent, Field(s, "heap"))
    BY <1>5 DEF WriteText
  <2>2. todo' = Tail(todo) /\ Writing({"ustring", "buffer"})
    BY <1>5 DEF WriteText
  <2>3. Len(s) \in Int
    BY TextsAssumption DEF TextsAssumption
  <2>4. zoo_htonll(InMemory(Len(s), IntSize)) \in Seq(0 .. Base - 1)
    BY <2>3, Sizes, Digits
  <2>5. Legal(Field(s, "heap"))
    BY DEF Legal, Field, Pointers
  <2>6. Values(sent')
    BY <1>1, <2>1, <2>5, ValuesAppend DEF Typed
  <2> QED
    BY <1>2, <1>3, <2>1, <2>2, <2>4, <2>6
<1>6. CASE Copy
  <2>1. Put(copy) /\ todo' = todo /\ sent' = sent
    BY <1>6 DEF Copy
  <2>2. copy \in Seq(0 .. Base - 1) /\ todo \in Seq(Fields) /\ Values(sent)
    BY <1>1 DEF BoundsInv, Typed
  <2> QED
    BY <1>2, <2>1, <2>2
<1>7. CASE WriteNull
  <2>1. /\ Put(zoo_htonll(InMemory(-1, IntSize))) /\ todo' = Tail(todo) /\ Writing({"ustring", "buffer"})
        /\ \E f \in {Null, NullString} : sent' = Append(sent, f)
    BY <1>7 DEF WriteNull
  <2>2. zoo_htonll(InMemory(-1, IntSize)) \in Seq(0 .. Base - 1)
    BY Sizes, Digits
  <2>3. Legal(Null) /\ Legal(NullString)
    BY DEF Legal, Null, NullString, Field, Pointers
  <2>4. Values(sent')
    BY <1>1, <2>1, <2>3, ValuesAppend DEF Typed
  <2> QED
    BY <1>2, <1>3, <2>1, <2>2, <2>4
<1>8. CASE WriteVector
  <2>1. PICK n \in 0 .. MaxCount :
            /\ Put(zoo_htonll(InMemory(n, IntSize)))
            /\ todo' = Repeat(n, Head(todo).of) \o Tail(todo)
            /\ sent' = Append(sent, Field(<<n>>, "heap"))
    BY <1>8 DEF WriteVector
  <2>2. Writing({"vector"}) /\ Head(todo).type = "vector"
    BY <1>8 DEF WriteVector, Writing
  <2>3. n \in Int
    BY <2>1
  <2>4. zoo_htonll(InMemory(n, IntSize)) \in Seq(0 .. Base - 1)
    BY <2>3, Sizes, Digits
  <2>5. Legal(Field(<<n>>, "heap"))
    BY DEF Legal, Field, Pointers
  <2>6. Values(sent')
    BY <1>1, <2>1, <2>5, ValuesAppend DEF Typed
  <2>7. Repeat(n, Head(todo).of) \in Seq(Fields)
    BY <1>3, <2>2, <2>3, VectorOf, Repeated
  <2>8. todo' \in Seq(Fields)
    BY <1>3, <2>1, <2>2, <2>7, ConcatProperties
  <2> QED
    BY <1>2, <1>3, <2>1, <2>2, <2>4, <2>6, <2>8
<1> QED
  BY <1>4, <1>5, <1>6, <1>7, <1>8

\* So does the arrival of the bytes.
LEMMA ArriveTyped ==
    ASSUME RecordsInv, Arrive
    PROVE  Typed' /\ Reported'
<1>1. Typed /\ BoundsInv /\ Reported
  BY DEF RecordsInv
<1>2. PICK n \in 0 .. out.off : in' = [len |-> n, off |-> 0]
  BY DEF Arrive
<1>3. in'.len = n /\ n <= Len(bytes)
  BY <1>1, <1>2 DEF Typed
<1>4. /\ phase' = "read" /\ todo' = record /\ phase = "write"
      /\ UNCHANGED <<record, out, bytes, copy, rc, sent, got>>
  BY DEF Arrive
<1>5. Typed'
  BY <1>1, <1>3, <1>4, FieldLists DEF Typed
<1>6. got' = <<>> /\ ~Unsets(got')
  BY <1>1, <1>4 DEF Reported, Unsets
<1>7. Reported'
  BY <1>4, <1>6 DEF Reported
<1> QED
  BY <1>5, <1>7

\* A read that leaves a pointer unset fails outside of vectors, and behind a failure
\* nothing is read.
LEMMA ReadTyped ==
    ASSUME RecordsInv, phase = "read", todo # <<>>,
           NEW code \in Codes, NEW advance, NEW field, Legal(field), NEW next \in Seq(Fields),
           Read(code, advance, field, next),
           field.ptr = "wild" => code # "ok" /\ ~Marks(todo) /\ next = <<>>,
           rc # "ok" => code = rc /\ next = <<>>
    PROVE  Typed' /\ Reported'
<1>1. Typed /\ BoundsInv /\ Reported
  BY DEF RecordsInv
<1>2. /\ rc' = code /\ in' = [in EXCEPT !.off = in.off + advance]
      /\ got' = Append(got, field) /\ todo' = next \o Tail(todo)
      /\ UNCHANGED <<record, phase, out, bytes, copy, sent>>
  BY DEF Read
<1>3. Tail(todo) \in Seq(Fields) /\ <<>> \o Tail(todo) = Tail(todo) /\ (Marks(Tail(todo)) => Marks(todo))
  BY <1>1, TodoRest
<1>4. Values(got') /\ (Unsets(got') => Unsets(got) \/ field.ptr = "wild")
  BY <1>1, <1>2, ValuesAppend DEF Typed
<1>5. todo' \in Seq(Fields)
  BY <1>2, <1>3, ConcatProperties
<1>6. in'.len = in.len
  BY <1>1, <1>2 DEF BoundsInv
<1>7. Typed'
  BY <1>1, <1>2, <1>4, <1>5, <1>6 DEF Typed
<1>8. ASSUME Unsets(got') PROVE rc' # "ok" /\ ~Marks(todo')
  <2>1. code # "ok" /\ next = <<>> /\ ~Marks(todo)
    BY <1>1, <1>4, <1>8 DEF Reported
  <2> QED
    BY <1>2, <1>3, <2>1
<1>9. Reported'
  BY <1>2, <1>8 DEF Reported
<1> QED
  BY <1>7, <1>9

\* What is left unset.
LEMMA UnsetLegal ==
    ASSUME NEW f
    PROVE  Legal(Unset(f)) /\ (Unset(f).ptr = "wild" => ~Marks(todo))
BY DEF Legal, Unset, Field, Null, Pointers, InVector, Marks

\* Bytes that are there are bytes, and a number read is in range.
LEMMA Comes ==
    ASSUME RecordsInv, NEW n \in 1 .. LongSize, n <= Left
    PROVE  /\ Coming(n) \in Seq(0 .. Base - 1) /\ Len(Coming(n)) = n
           /\ \A i \in 1 .. n : Coming(n)[i] = bytes[in.off + i]
           /\ Signed(Coming(n)) \in Int /\ InRange(Signed(Coming(n)))
<1>1. Typed /\ BoundsInv
  BY DEF RecordsInv
<1>2. PICK o \in Nat, m \in Nat : o = in.off /\ m = Len(bytes) /\ o + n <= m
  BY <1>1, Sizes DEF Typed, BoundsInv, WithinBounds, Left
<1>3. bytes \in Seq(0 .. Base - 1) /\ \A i \in o + 1 .. o + n : bytes[i] \in 0 .. Base - 1
  <2>1. bytes \in Seq(0 .. Base - 1)
    BY <1>1 DEF Typed
  <2>2. \A i \in 1 .. m : bytes[i] \in 0 .. Base - 1
    BY <1>2, <2>1, ElementOfSeq
  <2>3. \A i \in o + 1 .. o + n : i \in 1 .. m
    BY <1>2
  <2> QED
    BY <2>1, <2>2, <2>3
<1> DEFINE s == SubSeq(bytes, o + 1, o + n)
<1>4. /\ s \in Seq(0 .. Base - 1)
      /\ Len(s) = IF o + 1 <= o + n THEN o + n - (o + 1) + 1 ELSE 0
      /\ \A i \in 1 .. o + n - (o + 1) + 1 : s[i] = bytes[o + 1 + i - 1]
  <2>1. PICK B : B = 0 .. Base - 1
    OBVIOUS
  <2>2. /\ bytes \in Seq(B) /\ o + 1 \in Int /\ o + n \in Int
        /\ \A i \in o + 1 .. o + n : bytes[i] \in B
    BY <1>2, <1>3, <2>1
  <2> QED
    BY <2>1, <2>2, SubSeqProperties
<1>5. o + n - (o + 1) + 1 = n /\ o + 1 <= o + n /\ \A i \in 1 .. n : o + 1 + i - 1 = o + i
  BY <1>2
<1> HIDE DEF s
<1>6. Len(s) = n /\ \A i \in 1 .. n : s[i] = bytes[o + i]
  BY <1>4, <1>5
<1>7. Signed(s) \in Int /\ Signed(s) \in -(Power[n] \div 2) .. (Power[n] \div 2 - 1)
  BY <1>4, <1>6, SignedRange
<1>8. PICK h \in Nat, g \in Nat : Power[n] = 2 * h /\ Power[LongSize] = 2 * g
  BY Sizes, PowersGrow
<1>9. Power[n] <= Power[LongSize]
  <2>1. n \in 0 .. LongSize
    OBVIOUS
  <2> QED
    BY <2>1, Sizes, PowersGrow
<1>10. Power[n] \div 2 = h /\ Power[LongSize] \div 2 = g /\ h <= g
  BY <1>8, <1>9
<1>11. InRange(Signed(s))
  BY <1>7, <1>10 DEF InRange
<1>12. s = Coming(n)
  BY <1>2 DEF s, Coming
<1> QED
  BY <1>2, <1>4, <1>6, <1>7, <1>11, <1>12

\* The steps that read keep the types.
LEMMA ReadingTyped ==
    ASSUME RecordsInv, \/ Skip \/ ReadNumber \/ NoLength \/ TooLong
                       \/ ReadText \/ ReadNegative \/ NoCount \/ ReadVector
    PROVE  Typed' /\ Reported'
<1>1. Typed /\ BoundsInv /\ Reported
  BY DEF RecordsInv
<1>2. /\ \A T : Reading(T) => phase = "read" /\ todo # <<>> /\ Head(todo).type \in T
      /\ <<>> \in Seq(Fields) /\ {"ok", "E2BIG", "EINVAL", "ENOMEM"} = Codes
  BY DEF Reading, Codes
<1>3. \A v : Legal(Field(v, "heap")) /\ Legal(Field(v, "null")) /\ Field(v, "heap").ptr # "wild"
                 /\ Field(v, "null").ptr # "wild" /\ Field(v, "none").ptr # "wild"
  BY DEF Legal, Field, Pointers
<1>4. ASSUME NEW code \in Codes, NEW advance, code # "ok", rc # "ok" => code = rc, NEW f, NEW T, Reading(T),
             Read(code, advance, Unset(f), <<>>)
      PROVE  Typed' /\ Reported'
  BY <1>2, <1>4, ReadTyped, UnsetLegal
<1>5. ASSUME NEW advance, NEW field, Legal(field), field.ptr # "wild", NEW T, Reading(T),
             NEW code \in Codes, rc = "ok", NEW next \in Seq(Fields), Read(code, advance, field, next)
      PROVE  Typed' /\ Reported'
  BY <1>2, <1>5, ReadTyped
<1>6. CASE Skip
  BY <1>1, <1>2, <1>4, <1>6 DEF Skip, Typed
<1>7. CASE ReadNumber
  <2> DEFINE f == Head(todo)
             t == {"int", "long", "bool"}
  <2>1. Reading(t) /\ rc = "ok" /\ f.type \in t
    BY <1>2, <1>7 DEF ReadNumber
  <2>2. SizeOf(f) \in 1 .. LongSize
    BY Sizes DEF SizeOf
  <2>3. CASE Left < SizeOf(f) /\ Read("E2BIG", 0, Unset(f), <<>>)
    <3> HIDE DEF f, t
    <3> QED
      BY <1>2, <1>4, <2>1, <2>3
  <2>4. CASE /\ Left >= SizeOf(f)
             /\ Read("ok", SizeOf(f), Field(<<Signed(Coming(SizeOf(f)))>>, "none"), <<>>)
    <3>1. PICK v : v = Signed(Coming(SizeOf(f))) /\ Read("ok", SizeOf(f), Field(<<v>>, "none"), <<>>)
      BY <2>4
    <3>2. InRange(v)
      <4>1. SizeOf(f) <= Left
        BY <1>1, <2>2, <2>4, Sizes DEF BoundsInv, Left
      <4> HIDE DEF f
      <4> QED
        BY <2>2, <3>1, <4>1, Comes
    <3>3. Legal(Field(<<v>>, "none"))
      BY <3>2 DEF Legal, Field, Pointers
    <3> HIDE DEF f, t
    <3> QED
      BY <1>2, <1>3, <1>5, <2>1, <3>1, <3>3
  <2> QED
    BY <1>7, <2>3, <2>4 DEF ReadNumber
<1>8. CASE NoLength
  BY <1>2, <1>4, <1>8 DEF NoLength
<1>9. CASE TooLong
  BY <1>2, <1>4, <1>9 DEF TooLong
<1>10. CASE ReadText
  <2>1. PICK advance, v : Reading({"ustring", "buffer"}) /\ rc = "ok" /\ Read("ok", advance, Field(v, "heap"), <<>>)
    BY <1>10 DEF ReadText
  <2> QED
    BY <1>2, <1>3, <1>5, <2>1
<1>11. CASE ReadNegative
  <2>1. Reading({"ustring", "buffer"}) /\ rc = "ok"
    BY <1>11 DEF ReadNegative
  <2>2. CASE Read("EINVAL", IntSize, Unset(Head(todo)), <<>>)
    BY <1>2, <1>4, <2>1, <2>2
  <2>3. CASE Read("ENOMEM", IntSize, Unset(Head(todo)), <<>>)
    BY <1>2, <1>4, <2>1, <2>3
  <2>4. CASE Read("ok", IntSize, Null, <<>>)
    BY <1>2, <1>3, <1>5, <2>1, <2>4 DEF Null
  <2> QED
    BY <1>11, <2>2, <2>3, <2>4 DEF ReadNegative
<1>12. ASSUME NEW n \in Int, Reading({"vector"}) PROVE Elements(n) \in Seq(Fields)
  <2>1. Head(todo) \in Fields /\ Head(todo).type = "vector"
    BY <1>1, <1>2, <1>12, TodoRest
  <2>2. Repeat(n, Head(todo).of) \in Seq(Fields)
    BY <2>1, VectorOf, Repeated
  <2>3. <<endVector>> \in Seq(Fields)
    BY DEF Fields
  <2> QED
    BY <2>2, <2>3, ConcatProperties DEF Elements
<1>13. CASE NoCount
  <2>1. PICK n \in 0 .. MaxCount : Read("E2BIG", 0, Field(<<n>>, "heap"), Elements(n))
    BY <1>13 DEF NoCount
  <2>2. Reading({"vector"}) /\ rc = "ok" /\ n \in Int
    BY <1>13, <2>1 DEF NoCount
  <2> QED
    BY <1>2, <1>3, <1>5, <1>12, <2>1, <2>2
<1>14. CASE ReadVector
  <2>1. PICK n, p : /\ n = TextLength /\ p \in {"null", "heap"}
                    /\ Read("ok", IntSize, Field(<<n>>, p), Elements(n))
    BY <1>14 DEF ReadVector
  <2>2. Reading({"vector"}) /\ rc = "ok" /\ Left >= IntSize
    BY <1>14 DEF ReadVector
  <2>3. n \in Int
    <3>1. IntSize \in 1 .. LongSize /\ IntSize <= Left
      BY <1>1, <2>2, Sizes DEF BoundsInv, Left
    <3> QED
      BY <2>1, <3>1, Comes DEF TextLength
  <2> QED
    BY <1>2, <1>3, <1>5, <1>12, <2>1, <2>2, <2>3
<1> QED
  BY <1>6, <1>7, <1>8, <1>9, <1>10, <1>11, <1>13, <1>14

\* The end of a vector forgets a failure, but nothing is unset then.
LEMMA EndVectorTyped ==
    ASSUME RecordsInv, EndVector
    PROVE  Typed' /\ Reported'
<1>1. Typed /\ BoundsInv /\ Reported
  BY DEF RecordsInv
<1>2. /\ rc' = "ok" /\ todo' = Tail(todo) /\ todo # <<>> /\ Head(todo).type = "endVector" /\ phase = "read"
      /\ UNCHANGED <<record, phase, out, bytes, copy, in, sent, got>>
  BY DEF EndVector, Reading
<1>3. Tail(todo) \in Seq(Fields) /\ Head(todo) \in Fields
  BY <1>1, <1>2, TodoRest
<1>4. Head(todo) = endVector
  BY <1>2, <1>3 DEF Fields, Given, Elementary, vector, jint, jlong, jbool, ustring, buffer
<1>5. Marks(todo)
  <2>1. 1 \in 1 .. Len(todo) /\ todo[1] = endVector
    BY <1>1, <1>2, <1>4 DEF Typed
  <2> QED
    BY <2>1 DEF Marks
<1>6. ~Unsets(got)
  BY <1>1, <1>5 DEF Reported
<1>7. Typed'
  BY <1>1, <1>2, <1>3 DEF Typed, Codes
<1>8. Reported'
  BY <1>2, <1>6 DEF Reported
<1> QED
  BY <1>7, <1>8

\* The record that is about to be written.
LEMMA InitTyped == Init => RecordsInv
<1> SUFFICES ASSUME Init PROVE RecordsInv
  OBVIOUS
<1>1. Values(<<>>) /\ ~Unsets(<<>>)
  <2>1. LegalIn(<<>>, {})
    BY DEF LegalIn
  <2>2. Values(<<>>)
    BY <2>1, Zenon DEF Values
  <2>3. 1 .. Len(<<>>) = {}
    OBVIOUS
  <2> QED
    BY <2>2, <2>3 DEF Unsets
<1>2. Typed
  BY <1>1, FieldLists DEF Init, Typed, Codes
<1>3. Reported
  BY <1>1 DEF Init, Reported
<1> QED
  BY <1>2, <1>3, InitBounds DEF RecordsInv

\* Every step.
LEMMA NextTyped == RecordsInv /\ [Next]_vars => RecordsInv'
<1> SUFFICES ASSUME RecordsInv, [Next]_vars PROVE RecordsInv'
  OBVIOUS
<1>1. BoundsInv'
  BY NextBounds DEF RecordsInv
<1>2. CASE WriteNumber \/ WriteText \/ Copy \/ WriteNull \/ WriteVector
  BY <1>1, <1>2, WritingTyped DEF RecordsInv
<1>3. CASE Arrive
  BY <1>1, <1>3, ArriveTyped DEF RecordsInv
<1>4. CASE \/ Skip \/ ReadNumber \/ NoLength \/ TooLong
           \/ ReadText \/ ReadNegative \/ NoCount \/ ReadVector
  BY <1>1, <1>4, ReadingTyped DEF RecordsInv
<1>5. CASE EndVector
  BY <1>1, <1>5, EndVectorTyped DEF RecordsInv
<1>6. CASE UNCHANGED vars
  BY <1>1, <1>6 DEF RecordsInv, vars, Typed, Reported
<1> QED
  BY <1>2, <1>3, <1>4, <1>5, <1>6 DEF Next

\* Every number written or read is one of its size, whatever the size, and the archive has
\* used as many bytes as it holds (recordio.c).
THEOREM TypeCorrect == Spec => []TypeOK
<1>1. RecordsInv => TypeOK
  <2> SUFFICES ASSUME RecordsInv PROVE TypeOK
    OBVIOUS
  <2>1. Typed
    BY DEF RecordsInv
  <2>2. ASSUME NEW s, Values(s), NEW f \in ToSet(s) PROVE Legal(f)
    <3>1. PICK W : s \in Seq(W) /\ \A x \in W : Legal(x)
      BY <2>2 DEF Values, LegalIn
    <3>2. f \in W
      BY <2>2, <3>1 DEF ToSet
    <3> QED
      BY <3>1, <3>2
  <2>3. \A f \in ToSet(sent) \cup ToSet(got) : Legal(f)
    BY <2>1, <2>2 DEF Typed
  <2> QED
    BY <2>1, <2>3 DEF Typed, TypeOK, Legal, InRange, Codes, Pointers
<1> QED
  BY InitTyped, NextTyped, <1>1, PTL DEF Spec

\* What a read that reports success leaves can be deallocated, although the end of a vector
\* forgets what failed inside of it: only outside of vectors is a pointer left unset, and
\* nothing resets the code there (zookeeper.jute.c).
THEOREM FreeIsSafe == Spec => []SafeToFree
<1>1. RecordsInv => SafeToFree
  <2> SUFFICES ASSUME RecordsInv, rc = "ok", NEW i \in DOMAIN got, Frees(got[i]) PROVE got[i].ptr = "heap"
    BY DEF SafeToFree
  <2>1. PICK W : got \in Seq(W) /\ \A x \in W : Legal(x)
    BY DEF RecordsInv, Typed, Values, LegalIn
  <2>2. i \in 1 .. Len(got) /\ got[i] \in W
    BY <2>1
  <2>3. got[i].ptr # "wild"
    BY <2>2 DEF RecordsInv, Reported, Unsets
  <2> QED
    BY <2>1, <2>2, <2>3 DEF Legal, Pointers, Frees
<1> QED
  BY InitTyped, NextTyped, <1>1, PTL DEF Spec

-----------------------------------------------------------------------------
(* What is written is read back                                            *)

\* A quotient and what it leaves.
LEMMA DivMod ==
    ASSUME NEW w \in Nat, NEW m \in Nat, m >= 1
    PROVE  /\ w \div m \in Nat /\ w % m \in 0 .. m - 1
           /\ w = m * (w \div m) + (w % m)
<1>1. w \div m \in Int /\ w % m \in 0 .. m - 1
  OBVIOUS
<1>2. w = m * (w \div m) + (w % m)
  OBVIOUS
<1>3. w \div m >= 0
  OBVIOUS
<1> QED
  BY <1>1, <1>2, <1>3

\* The same, named.
LEMMA Divided ==
    ASSUME NEW w \in Nat, NEW m \in Nat, m >= 1
    PROVE  \E q \in Nat : \E r \in Nat :
               q = w \div m /\ r = w % m /\ r \in 0 .. m - 1 /\ w = m * q + r
<1>1. w \div m \in Nat /\ w % m \in Nat
  BY DivMod
<1> QED
  BY <1>1, DivMod

\* There is no other one.
LEMMA DivUnique ==
    ASSUME NEW w \in Nat, NEW m \in Nat, m >= 1, NEW q \in Nat, NEW r \in 0 .. m - 1, w = m * q + r
    PROVE  w \div m = q
OBVIOUS

Twice(w, p, b) == w \div (b * p) = (w \div p) \div b
Due(w, p, b, q, a, c) == a + c * q = w \div (b * p)
Carried(w, p, b, q, a, c) == (a * b + ((w \div p) % b)) + c * (b * q) = w \div p

\* Dividing twice is dividing once.
LEMMA DivDiv ==
    ASSUME NEW w \in Nat, NEW p \in Nat, p >= 1, NEW b \in Nat, b >= 1
    PROVE  Twice(w, p, b)
<1>1. PICK x \in Nat, r \in Nat : x = w \div p /\ r \in 0 .. p - 1 /\ w = p * x + r
  BY Divided
<1>2. PICK y \in Nat, d \in Nat : y = x \div b /\ d \in 0 .. b - 1 /\ x = b * y + d
  BY Divided
<1>3. p * x = (b * p) * y + p * d
  <2>1. p * (b * y + d) = p * (b * y) + p * d /\ p * (b * y) = (b * p) * y
    OBVIOUS
  <2> QED
    BY <1>2, <2>1
<1>4. p * d + r \in 0 .. b * p - 1
  <2>1. d * p + r \in Nat /\ d * p + r < p * b
    <3>1. d < b /\ r < p
      BY <1>1, <1>2
    <3> QED
      BY <3>1, Horner
  <2>2. d * p = p * d /\ p * b = b * p /\ b * p \in Nat
    OBVIOUS
  <2> QED
    BY <2>1, <2>2
<1>5. b * p \in Nat /\ b * p >= 1
  OBVIOUS
<1>6. PICK m \in Nat, z \in Nat : m = b * p /\ z = p * d + r /\ m >= 1 /\ z \in 0 .. m - 1
  BY <1>4, <1>5
<1>7. w = m * y + z
  <2>1. (b * p) * y \in Nat /\ p * d \in Nat /\ p * x \in Nat
    BY <1>3
  <2> QED
    BY <1>1, <1>3, <1>6, <2>1
<1>8. w \div m = y
  BY <1>6, <1>7, DivUnique
<1> QED
  BY <1>1, <1>2, <1>6, <1>8 DEF Twice

\* One digit more: what a and the carry c make of w in units of B * p, the next
\* digit completes in units of p.
LEMMA NextDigit ==
    ASSUME NEW w \in Nat, NEW p \in Nat, p >= 1, NEW B \in Nat, B >= 1,
           NEW q \in Nat, NEW a \in Nat, NEW c \in {0, 1}, Due(w, p, B, q, a, c)
    PROVE  Carried(w, p, B, q, a, c)
<1>1. PICK x \in Nat : x = w \div p
  BY Divided
<1>2. PICK y \in Nat, d \in Nat : y = x \div B /\ d = x % B /\ x = B * y + d
  <2>1. \E y \in Nat : \E d \in Nat :
            y = x \div B /\ d = x % B /\ d \in 0 .. B - 1 /\ x = B * y + d
    BY Divided
  <2> QED
    BY <2>1
<1>3. w \div (B * p) = y
  <2>1. w \div (B * p) = (w \div p) \div B
    <3>1. p >= 1 /\ B >= 1
      OBVIOUS
    <3>2. Twice(w, p, B)
      BY <3>1, DivDiv
    <3> QED
      BY <3>2 DEF Twice
  <2> QED
    BY <1>1, <1>2, <2>1
<1>4. PICK e \in Nat : e = c * q /\ B * e = c * (B * q)
  <2>1. CASE c = 0
    <3>1. 0 * q = 0 /\ B * 0 = 0 /\ 0 * (B * q) = 0
      OBVIOUS
    <3> QED
      BY <2>1, <3>1
  <2>2. CASE c = 1
    <3>1. 1 * q = q /\ 1 * (B * q) = B * q
      OBVIOUS
    <3> QED
      BY <2>2, <3>1
  <2> QED
    BY <2>1, <2>2
<1>5. a + e = y
  BY <1>3, <1>4 DEF Due
<1>6. B * (a + e) = a * B + B * e /\ a * B \in Nat /\ B * e \in Nat
  OBVIOUS
<1>7. (a * B + d) + B * e = x
  <2>1. B * y = a * B + B * e
    BY <1>5, <1>6
  <2> QED
    BY <1>2, <1>6, <2>1
<1> QED
  BY <1>1, <1>2, <1>4, <1>7 DEF Carried

\* The digits of a number make the number.
LEMMA ReadBack ==
    ASSUME NEW n \in Nat, n >= 1,
           NEW v \in -(Power[n] \div 2) .. (Power[n] \div 2 - 1)
    PROVE  Signed(zoo_htonll(InMemory(v, n))) = v
<1>1. PICK P \in Nat, h \in Nat : P = Power[n] /\ P = 2 * h /\ P >= 4
  BY Powers, PowersGrow
<1>2. P \div 2 = h /\ v \in Int /\ v >= -h /\ v < h
  BY <1>1
<1>3. PICK w \in Nat : w = v + P
  BY <1>1, <1>2
<1>4. PICK c \in {0, 1} : c = w \div P /\ (v >= 0 => c = 1) /\ (v < 0 => c = 0)
  <2>1. CASE v >= 0
    <3>1. v \in 0 .. P - 1 /\ w = P * 1 + v
      BY <1>1, <1>2, <1>3, <2>1
    <3>2. w \div P = 1
      BY <1>1, <3>1, DivUnique
    <3> QED
      BY <2>1, <3>2
  <2>2. CASE v < 0
    <3>1. w \in 0 .. P - 1 /\ w = P * 0 + w
      BY <1>1, <1>2, <1>3, <2>2
    <3>2. w \div P = 0
      BY <1>1, <3>1, DivUnique
    <3> QED
      BY <2>2, <3>2
  <2> QED
    BY <1>2, <2>1, <2>2
<1> DEFINE t == zoo_htonll(InMemory(v, n))
<1>5. /\ t \in Seq(0 .. Base - 1) /\ Len(t) = n
      /\ \A i \in 1 .. n : t[i] = (w \div Power[n - i]) % Base
  <2>1. /\ zoo_htonll(InMemory(v, n)) \in Seq(0 .. Base - 1)
        /\ Len(zoo_htonll(InMemory(v, n))) = n
        /\ \A i \in 1 .. n : zoo_htonll(InMemory(v, n))[i] =
                                 ((v + Power[n]) \div Power[n - i]) % Base
    BY <1>2, Digits
  <2> QED
    BY <1>1, <1>3, <2>1
<1> HIDE DEF t
<1>6. PICK u \in [0 .. n -> Nat] :
          /\ u[0] = 0 /\ Unsigned(t) = u[n]
          /\ \A i \in 1 .. n : u[i] = u[i - 1] * Base + t[i]
  BY <1>5, UnsignedSteps
<1> DEFINE T == {i \in 0 .. n : u[i] + c * Power[i] = w \div Power[n - i]}
<1>7. 0 \in T
  <2>1. n - 0 = n /\ 0 \in 0 .. n /\ u[0] + c * Power[0] = c
    BY <1>4, <1>6, Powers
  <2> QED
    BY <1>1, <1>4, <2>1
<1>8. ASSUME NEW i \in 1 .. n, i - 1 \in T PROVE i \in T
  <2>1. PICK m \in Nat, j \in Nat : m = n - i /\ j = i - 1 /\ m + 1 = n - (i - 1) /\ j + 1 = i
    BY <1>5
  <2>2. PICK p \in Nat, q \in Nat, B \in Nat :
            /\ p = Power[m] /\ p >= 1 /\ q = Power[j] /\ B = Base /\ B >= 4
            /\ Power[m + 1] = B * p /\ Power[j + 1] = B * q
    <3>1. Power[m] \in Nat /\ Power[m] >= 1 /\ Power[j] \in Nat /\ Base \in Nat /\ Base >= 4
      BY Powers, Sizes
    <3>2. Power[m + 1] = Base * Power[m] /\ Power[j + 1] = Base * Power[j]
      BY Powers
    <3> QED
      BY <3>1, <3>2
  <2>3. PICK a \in Nat : a = u[i - 1] /\ a + c * q = w \div (B * p)
    <3>1. u[i - 1] \in Nat
      BY <1>6
    <3>2. u[i - 1] + c * Power[i - 1] = w \div Power[n - (i - 1)]
      BY <1>8
    <3> QED
      BY <2>1, <2>2, <3>1, <3>2
  <2>4. u[i] = a * B + ((w \div p) % B)
    <3>1. u[i] = u[i - 1] * Base + t[i] /\ t[i] = (w \div Power[n - i]) % Base
      BY <1>5, <1>6
    <3> QED
      BY <2>1, <2>2, <2>3, <3>1
  <2>5. (a * B + ((w \div p) % B)) + c * (B * q) = w \div p
    <3>1. B >= 1 /\ p >= 1 /\ a + c * q = w \div (B * p)
      BY <2>2, <2>3
    <3> HIDE <1>6, <1>8, <2>2, <2>3
    <3> QED
      <4>1. /\ w \in Nat /\ p \in Nat /\ B \in Nat /\ q \in Nat /\ a \in Nat /\ c \in {0, 1}
            /\ p >= 1 /\ B >= 1 /\ Due(w, p, B, q, a, c)
        BY <3>1 DEF Due
      <4>2. Carried(w, p, B, q, a, c)
        BY <4>1, NextDigit
      <4> QED
        BY <4>2 DEF Carried
  <2>6. u[i] + c * Power[i] = w \div Power[n - i]
    <3>1. Power[i] = B * q
      BY <2>1, <2>2
    <3> QED
      BY <2>1, <2>2, <2>4, <2>5, <3>1
  <2> QED
    BY <2>6
<1> HIDE DEF T
<1>9. 0 .. n \subseteq T
  BY <1>7, <1>8, Climb
<1>10. u[n] + c * P = w
  <2>1. u[n] + c * Power[n] = w \div Power[n - n]
    BY <1>9 DEF T
  <2>2. w \div 1 = w /\ n - n = 0
    OBVIOUS
  <2> QED
    BY <1>1, <2>1, <2>2, Powers
<1>11. PICK U \in Nat : U = Unsigned(t) /\ U + c * P = v + P
  <2>1. u[n] \in Nat
    BY <1>6
  <2> QED
    BY <1>3, <1>6, <1>10, <2>1
<1>12. Signed(t) = IF 2 * U >= P THEN U - P ELSE U
  BY <1>1, <1>5, <1>11 DEF Signed
<1>13. CASE v >= 0
  <2>1. U = v /\ ~ 2 * U >= P
    BY <1>1, <1>2, <1>4, <1>11, <1>13
  <2> QED
    BY <1>12, <2>1 DEF t
<1>14. CASE v < 0
  <2>1. U = v + P /\ 2 * U >= P
    BY <1>1, <1>2, <1>4, <1>11, <1>14
  <2>2. U - P = v
    BY <1>1, <1>2, <2>1
  <2> QED
    BY <1>12, <2>1, <2>2 DEF t
<1> QED
  BY <1>2, <1>13, <1>14

-----------------------------------------------------------------------------
(* What is written, as bytes                                               *)

\* The bytes of a number of a size, and of a field; the values a field can have; and what
\* stands in place of a field once its value is known: for a vector, its elements.
Numbers == {"int", "long", "bool"}
TextTypes == {"ustring", "buffer"}
Wire(v, size) == zoo_htonll(InMemory(v, size))
Encoding(f, v) ==
    IF f.type \in Numbers THEN Wire(v.val[1], SizeOf(f))
    ELSE IF f.type = "vector" THEN Wire(v.val[1], IntSize)
    ELSE IF v.ptr = "heap" THEN Wire(Len(v.val), IntSize) \o v.val
    ELSE Wire(-1, IntSize)

IntegersOf(size) == -(Power[size] \div 2) .. (Power[size] \div 2 - 1)
Fitting(f, v) ==
    \/ f.type \in Numbers /\ \E x \in IntegersOf(SizeOf(f)) : v = Field(<<x>>, "none")
    \/ f.type \in TextTypes /\ \E s \in Texts : v = Field(s, "heap")
    \/ f.type = "buffer" /\ v = Null
    \/ f.type = "ustring" /\ v = NullString
    \/ f.type = "vector" /\ \E n \in 0 .. MaxCount : v = Field(<<n>>, "heap")

After(f, v) == IF f.type = "vector" THEN Repeat(v.val[1], f.of) ELSE <<>>

Bytes == 0 .. Base - 1

\* The number of a length or a count, and null's, is one an int holds, and is read back.
LEMMA Lengths ==
    /\ \A s \in Texts : s \in Seq(Bytes) /\ Len(s) \in IntegersOf(IntSize) /\ Len(s) \in Nat
    /\ \A n \in 0 .. MaxCount : n \in IntegersOf(IntSize)
    /\ -1 \in IntegersOf(IntSize)
<1>1. PICK P \in Nat, h \in Nat : P = Power[IntSize] /\ P = 2 * h /\ P >= 4
  BY Sizes, Powers, PowersGrow
<1>2. P \div 2 = h /\ IntegersOf(IntSize) = -h .. h - 1
  BY <1>1 DEF IntegersOf
<1>3. ASSUME NEW s \in Texts PROVE s \in Seq(Bytes) /\ Len(s) \in -h .. h - 1 /\ Len(s) \in Nat
  <2>1. s \in Seq(0 .. Base - 1)
    BY TextsAssumption DEF TextsAssumption
  <2>2. Len(s) \in Nat /\ s \in Seq(Bytes)
    BY <2>1 DEF Bytes
  <2>3. 2 * Len(s) < P
    BY <1>1, LengthsAssumption DEF LengthsAssumption
  <2> QED
    BY <1>1, <2>2, <2>3
<1>4. ASSUME NEW n \in 0 .. MaxCount PROVE n \in -h .. h - 1
  <2>1. MaxCount \in Nat /\ 2 * MaxCount < P
    BY <1>1, LengthsAssumption, TextsAssumption DEF LengthsAssumption, TextsAssumption
  <2> QED
    BY <1>1, <2>1
<1> QED
  BY <1>1, <1>2, <1>3, <1>4

\* A number on the wire.
LEMMA WireFacts ==
    ASSUME NEW n \in Nat, n >= 1, NEW v \in IntegersOf(n)
    PROVE  Wire(v, n) \in Seq(Bytes) /\ Len(Wire(v, n)) = n /\ Signed(Wire(v, n)) = v
<1>1. Signed(zoo_htonll(InMemory(v, n))) = v
  BY ReadBack DEF IntegersOf
<1>2. v \in Int
  <2>1. PICK h \in Nat : Power[n] = 2 * h
    BY PowersGrow
  <2>2. Power[n] \div 2 = h
    BY <2>1
  <2> QED
    BY <2>1, <2>2 DEF IntegersOf
<1>3. /\ zoo_htonll(InMemory(v, n)) \in Seq(0 .. Base - 1)
      /\ Len(zoo_htonll(InMemory(v, n))) = n
  BY <1>2, Digits
<1> QED
  BY <1>1, <1>3 DEF Wire, Bytes

\* The size of a number is a size.
LEMMA SizeFacts ==
    ASSUME NEW f
    PROVE  SizeOf(f) \in Nat /\ SizeOf(f) >= 1
BY Sizes DEF SizeOf

\* The bytes of a field are bytes, and those of its length come first.
LEMMA EncodingFacts ==
    ASSUME NEW f \in Given, NEW v, Fitting(f, v)
    PROVE  /\ Encoding(f, v) \in Seq(Bytes)
           /\ f.type \in Numbers => /\ Len(Encoding(f, v)) = SizeOf(f)
                                    /\ v = Field(<<Signed(Encoding(f, v))>>, "none")
           /\ f.type \notin Numbers => Len(Encoding(f, v)) >= IntSize
           /\ After(f, v) \in Seq(Given)
<1>0. f.type \in {"int", "long", "bool", "ustring", "buffer", "vector"} /\ IntSize \in Nat /\ IntSize >= 1
  BY NoMark, Sizes
<1>1. CASE f.type \in Numbers
  <2>1. PICK x \in IntegersOf(SizeOf(f)) : v = Field(<<x>>, "none")
    BY <1>1 DEF Fitting, Numbers, TextTypes
  <2>2. Encoding(f, v) = Wire(x, SizeOf(f))
    BY <1>1, <2>1 DEF Encoding, Field
  <2>3. /\ Wire(x, SizeOf(f)) \in Seq(Bytes) /\ Len(Wire(x, SizeOf(f))) = SizeOf(f)
        /\ Signed(Wire(x, SizeOf(f))) = x
    BY SizeFacts, WireFacts
  <2>4. After(f, v) = <<>> /\ <<>> \in Seq(Given)
    BY <1>1 DEF After, Numbers
  <2>5. v = Field(<<Signed(Encoding(f, v))>>, "none")
    BY <2>1, <2>2, <2>3
  <2> QED
    BY <1>1, <2>2, <2>3, <2>4, <2>5
<1>2. CASE f.type = "vector"
  <2>1. PICK n \in 0 .. MaxCount : v = Field(<<n>>, "heap")
    BY <1>2 DEF Fitting, Numbers, TextTypes
  <2>2. Encoding(f, v) = Wire(n, IntSize) /\ After(f, v) = Repeat(n, f.of)
    BY <1>2, <2>1 DEF Encoding, Field, Numbers, After
  <2>3. Wire(n, IntSize) \in Seq(Bytes) /\ Len(Wire(n, IntSize)) = IntSize
    BY <1>0, Lengths, WireFacts
  <2>4. f.of \in Seq(Given)
    BY <1>2, NoMark, VectorOf
  <2>5. Repeat(n, f.of) \in Seq(Given)
    BY <2>4, Repeated
  <2> QED
    BY <1>0, <1>2, <2>2, <2>3, <2>5 DEF Numbers
<1>3. CASE f.type \in TextTypes
  <2>1. After(f, v) = <<>> /\ <<>> \in Seq(Given)
    BY <1>3 DEF After, TextTypes
  <2>2. CASE \E s \in Texts : v = Field(s, "heap")
    <3>1. PICK s \in Texts : v = Field(s, "heap")
      BY <2>2
    <3>2. Encoding(f, v) = Wire(Len(s), IntSize) \o s
      BY <1>3, <3>1 DEF Encoding, Field, Numbers, TextTypes
    <3>3. /\ Wire(Len(s), IntSize) \in Seq(Bytes) /\ Len(Wire(Len(s), IntSize)) = IntSize
          /\ s \in Seq(Bytes) /\ Len(s) \in Nat
      BY <1>0, Lengths, WireFacts
    <3>4. PICK w : w = Wire(Len(s), IntSize)
      OBVIOUS
    <3>5. w \o s \in Seq(Bytes) /\ Len(w \o s) = Len(w) + Len(s)
      BY <3>3, <3>4
    <3> QED
      BY <1>0, <1>3, <2>1, <3>2, <3>3, <3>4, <3>5 DEF Numbers, TextTypes
  <2>3. CASE v = Null \/ v = NullString
    <3>0. v.ptr = "null" /\ f.type \notin Numbers /\ f.type # "vector"
      BY <1>3, <2>3 DEF Null, NullString, Field, Numbers, TextTypes
    <3>1. Encoding(f, v) = Wire(-1, IntSize)
      BY <3>0 DEF Encoding
    <3>2. Wire(-1, IntSize) \in Seq(Bytes) /\ Len(Wire(-1, IntSize)) = IntSize
      BY <1>0, Lengths, WireFacts
    <3> QED
      BY <1>0, <1>3, <2>1, <3>1, <3>2 DEF Numbers, TextTypes
  <2> QED
    BY <1>3, <2>2, <2>3 DEF Fitting, Numbers, TextTypes
<1> QED
  BY <1>0, <1>1, <1>2, <1>3 DEF Numbers, TextTypes

-----------------------------------------------------------------------------
(* The trail of the writer                                                 *)

\* The field at the head of s is written as v at a, and t is left to write at b.
Follows(s, t, a, b, all, v) ==
    /\ s # <<>> /\ Fitting(Head(s), v)
    /\ t = After(Head(s), v) \o Tail(s)
    /\ b = a + Len(Encoding(Head(s), v)) /\ b <= Len(all)
    /\ \A i \in 1 .. Len(Encoding(Head(s), v)) : all[a + i] = Encoding(Head(s), v)[i]

\* The fields left and the place reached before and behind each field written.
Trail(fs, at, n, all, r, vs) ==
    /\ fs \in [0 .. n -> Seq(Given)] /\ at \in [0 .. n -> Nat]
    /\ fs[0] = r /\ at[0] = 0
    /\ \A k \in 1 .. n : Follows(fs[k - 1], fs[k], at[k - 1], at[k], all, vs[k])

Led(fs, at, n, all, r, vs, rest) ==
    Trail(fs, at, n, all, r, vs) /\ fs[n] = rest /\ at[n] = Len(all)

Written(all, r, vs, rest) == \E fs, at : Led(fs, at, Len(vs), all, r, vs, rest)

\* More bytes behind change nothing.
LEMMA FollowsStill ==
    ASSUME NEW all \in Seq(Bytes), NEW e \in Seq(Bytes), NEW a \in Nat, NEW b, NEW v,
           NEW s \in Seq(Given), NEW t, Follows(s, t, a, b, all, v)
    PROVE  Follows(s, t, a, b, all \o e, v)
<1>1. /\ Len(all \o e) = Len(all) + Len(e) /\ Len(all) \in Nat /\ Len(e) \in Nat
      /\ \A i \in 1 .. Len(all) : (all \o e)[i] = all[i]
  BY JoinFacts
<1>2. Head(s) \in Given /\ s # <<>> /\ Fitting(Head(s), v)
  BY DEF Follows
<1>3. PICK w \in Seq(Bytes) : w = Encoding(Head(s), v)
  BY <1>2, EncodingFacts
<1>4. /\ t = After(Head(s), v) \o Tail(s) /\ b = a + Len(w) /\ b <= Len(all)
      /\ \A i \in 1 .. Len(w) : all[a + i] = w[i]
  BY <1>3 DEF Follows
<1>5. Len(w) \in Nat
  OBVIOUS
<1> HIDE <1>3
<1>6. ASSUME NEW i \in 1 .. Len(w) PROVE (all \o e)[a + i] = w[i]
  <2>1. a + i \in 1 .. Len(all)
    BY <1>1, <1>4, <1>5
  <2> QED
    BY <1>1, <1>4, <2>1
<1>7. b <= Len(all \o e)
  BY <1>1, <1>4, <1>5
<1> QED
  BY <1>2, <1>3, <1>4, <1>6, <1>7 DEF Follows

\* One more field written.
LEMMA WriteOne ==
    ASSUME NEW all \in Seq(Bytes), NEW r, NEW V, NEW vs \in Seq(V), NEW rest \in Seq(Given),
           Written(all, r, vs, rest), rest # <<>>, NEW v, Fitting(Head(rest), v)
    PROVE  Written(all \o Encoding(Head(rest), v), r, Append(vs, v), After(Head(rest), v) \o Tail(rest))
<1>1. PICK n \in Nat : n = Len(vs)
  OBVIOUS
<1>2. PICK fs, at : Led(fs, at, n, all, r, vs, rest)
  BY <1>1 DEF Written
<1>3. /\ fs \in [0 .. n -> Seq(Given)] /\ at \in [0 .. n -> Nat]
      /\ fs[0] = r /\ at[0] = 0 /\ fs[n] = rest /\ at[n] = Len(all)
      /\ \A k \in 1 .. n : Follows(fs[k - 1], fs[k], at[k - 1], at[k], all, vs[k])
  BY <1>2 DEF Led, Trail
<1>4. PICK f : f = Head(rest) /\ f \in Given /\ Fitting(f, v) /\ Tail(rest) \in Seq(Given)
  OBVIOUS
<1>5. PICK e \in Seq(Bytes) : e = Encoding(f, v)
  BY <1>4, EncodingFacts
<1>6. PICK t \in Seq(Given) : t = After(f, v) \o Tail(rest)
  <2>1. After(f, v) \in Seq(Given)
    BY <1>4, EncodingFacts
  <2>2. After(f, v) \o Tail(rest) \in Seq(Given)
    BY <1>4, <2>1, ConcatProperties
  <2> QED
    BY <2>2
<1>7. PICK ws : ws = Append(vs, v)
  OBVIOUS
<1>8. PICK al : al = all \o e
  OBVIOUS
<1>9. /\ al \in Seq(Bytes) /\ Len(al) = Len(all) + Len(e) /\ Len(all) \in Nat /\ Len(e) \in Nat
      /\ \A i \in 1 .. Len(e) : al[Len(all) + i] = e[i]
  BY <1>8, JoinFacts
<1>10. /\ Len(ws) = n + 1 /\ ws[n + 1] = v
       /\ \A k \in 1 .. n : ws[k] = vs[k]
  <2>1. vs \in Seq(V \cup {v}) /\ v \in V \cup {v}
    OBVIOUS
  <2> QED
    BY <1>1, <1>7, <2>1
<1> DEFINE gs == [k \in 0 .. n + 1 |-> IF k = n + 1 THEN t ELSE fs[k]]
           bt == [k \in 0 .. n + 1 |-> IF k = n + 1 THEN Len(al) ELSE at[k]]
<1>11. /\ gs \in [0 .. n + 1 -> Seq(Given)] /\ bt \in [0 .. n + 1 -> Nat]
       /\ gs[n + 1] = t /\ bt[n + 1] = Len(al)
       /\ \A k \in 0 .. n : gs[k] = fs[k] /\ bt[k] = at[k]
  BY <1>3, <1>9
<1> HIDE DEF gs, bt
<1>12. Follows(rest, t, Len(all), Len(al), al, v)
  BY <1>4, <1>5, <1>6, <1>9 DEF Follows
<1>13. ASSUME NEW k \in 1 .. n + 1
       PROVE  Follows(gs[k - 1], gs[k], bt[k - 1], bt[k], al, ws[k])
  <2>1. CASE k = n + 1
    <3>1. gs[k - 1] = rest /\ bt[k - 1] = Len(all) /\ gs[k] = t /\ bt[k] = Len(al) /\ ws[k] = v
      BY <1>3, <1>10, <1>11, <2>1
    <3> QED
      BY <1>12, <3>1
  <2>2. CASE k # n + 1
    <3>1. k \in 1 .. n /\ k - 1 \in 0 .. n /\ k \in 0 .. n
      BY <2>2
    <3>2. Follows(fs[k - 1], fs[k], at[k - 1], at[k], all, vs[k])
      BY <1>3, <3>1
    <3>3. fs[k - 1] \in Seq(Given) /\ at[k - 1] \in Nat
      BY <1>3, <3>1
    <3>4. Follows(fs[k - 1], fs[k], at[k - 1], at[k], all \o e, vs[k])
      BY <3>2, <3>3, FollowsStill
    <3> QED
      BY <1>8, <1>10, <1>11, <3>1, <3>4
  <2> QED
    BY <2>1, <2>2
<1>14. gs[0] = r /\ bt[0] = 0
  BY <1>3, <1>11
<1>15. Led(gs, bt, n + 1, al, r, ws, t)
  BY <1>11, <1>13, <1>14 DEF Led, Trail
<1> QED
  BY <1>4, <1>5, <1>6, <1>7, <1>8, <1>10, <1>15 DEF Written

\* What a number is written as, and what follows it.
LEMMA NumberFits ==
    ASSUME NEW f, f.type \in Numbers, NEW x \in IntegersOf(SizeOf(f)), NEW v, v = Field(<<x>>, "none")
    PROVE  Fitting(f, v) /\ Encoding(f, v) = Wire(x, SizeOf(f)) /\ After(f, v) = <<>>
BY DEF Fitting, Encoding, After, Field, Numbers

\* A text, behind its length.
LEMMA TextFits ==
    ASSUME NEW f, f.type \in TextTypes, NEW s \in Texts, NEW v, v = Field(s, "heap")
    PROVE  Fitting(f, v) /\ Encoding(f, v) = Wire(Len(s), IntSize) \o s /\ After(f, v) = <<>>
BY DEF Fitting, Encoding, After, Field, Numbers, TextTypes

\* A null text, by its length alone.
LEMMA NullFits ==
    ASSUME NEW f, f.type \in TextTypes, NEW v, v = IF f.type = "buffer" THEN Null ELSE NullString
    PROVE  Fitting(f, v) /\ Encoding(f, v) = Wire(-1, IntSize) /\ After(f, v) = <<>>
<1>1. v.ptr = "null" /\ f.type \notin Numbers /\ f.type # "vector"
  BY DEF Null, NullString, Field, Numbers, TextTypes
<1>2. Encoding(f, v) = Wire(-1, IntSize)
  BY <1>1 DEF Encoding
<1>3. Fitting(f, v)
  BY DEF Fitting, TextTypes
<1> QED
  BY <1>1, <1>2, <1>3 DEF After

\* A vector, by its count; its elements follow.
LEMMA CountFits ==
    ASSUME NEW f, f.type = "vector", NEW n \in 0 .. MaxCount, NEW v, v = Field(<<n>>, "heap")
    PROVE  Fitting(f, v) /\ Encoding(f, v) = Wire(n, IntSize) /\ After(f, v) = Repeat(n, f.of)
BY DEF Fitting, Encoding, After, Field, Numbers

\* While the record is written, its bytes are those of the fields behind it.
WrittenSoFar ==
    /\ phase = "write" => Written(bytes \o copy, record, sent, todo)
    /\ phase = "read" => copy = <<>>

\* What is left to write has no marks.
LEMMA LedLeft ==
    ASSUME NEW all, NEW r, NEW V, NEW vs \in Seq(V), NEW rest, Written(all, r, vs, rest)
    PROVE  rest \in Seq(Given)
<1>1. PICK n \in Nat : n = Len(vs)
  OBVIOUS
<1>2. PICK fs, at : Led(fs, at, n, all, r, vs, rest)
  BY <1>1 DEF Written
<1>3. fs \in [0 .. n -> Seq(Given)] /\ fs[n] = rest /\ n \in 0 .. n
  BY <1>1, <1>2 DEF Led, Trail
<1> QED
  BY <1>3

\* Nothing written leaves the record to write.
LEMMA InitWritten == Init => WrittenSoFar
<1> SUFFICES ASSUME Init PROVE WrittenSoFar
  OBVIOUS
<1>1. record \in Seq(Given)
  BY GivenLists DEF Init
<1>2. bytes \o copy = <<>> /\ Len(<<>>) = 0 /\ Len(sent) = 0 /\ todo = record /\ phase = "write"
  BY DEF Init
<1> DEFINE fs == [k \in 0 .. 0 |-> record]
           at == [k \in 0 .. 0 |-> 0]
<1>3. /\ fs \in [0 .. 0 -> Seq(Given)] /\ at \in [0 .. 0 -> Nat]
      /\ fs[0] = record /\ at[0] = 0
  BY <1>1
<1> HIDE DEF fs, at
<1>4. Led(fs, at, 0, <<>>, record, sent, record)
  BY <1>3 DEF Led, Trail
<1>5. Written(bytes \o copy, record, sent, todo)
  BY <1>2, <1>4 DEF Written
<1> QED
  BY <1>2, <1>5 DEF WrittenSoFar

\* Each step of the writer writes one field, or the bytes of the text whose length is
\* written.
LEMMA WritingWritten ==
    ASSUME RecordsInv, WrittenSoFar, WriteNumber \/ WriteText \/ Copy \/ WriteNull \/ WriteVector
    PROVE  WrittenSoFar'
<1>1. Typed /\ BoundsInv /\ bytes \in Seq(Bytes) /\ copy \in Seq(Bytes)
  BY DEF RecordsInv, BoundsInv, Typed, Bytes
<1>2. ASSUME NEW s, Put(s)
      PROVE  bytes' = bytes \o s /\ phase' = phase /\ record' = record
  BY <1>2 DEF Put
<1>3. PICK V : sent \in Seq(V)
  BY <1>1 DEF Typed, Values, LegalIn
<1>4. CASE Copy
  <2>1. /\ copy # <<>> /\ copy' = <<>> /\ todo' = todo /\ sent' = sent
        /\ bytes' = bytes \o copy /\ phase' = phase /\ record' = record
    BY <1>2, <1>4 DEF Copy
  <2>2. phase = "write"
    BY <1>1, <2>1 DEF WrittenSoFar, Typed
  <2>3. bytes' \o copy' = bytes \o copy
    <3>1. bytes \o copy \in Seq(Bytes)
      BY <1>1, ConcatProperties
    <3> QED
      BY <2>1, <3>1, ConcatEmptySeq
  <2> QED
    BY <2>1, <2>2, <2>3 DEF WrittenSoFar
<1>5. ASSUME phase = "write", copy = <<>>, todo # <<>>,
             NEW v, Fitting(Head(todo), v), sent' = Append(sent, v),
             todo' = After(Head(todo), v) \o Tail(todo), phase' = phase, record' = record,
             bytes' \o copy' = bytes \o Encoding(Head(todo), v)
      PROVE  WrittenSoFar'
  <2>1. bytes \o copy = bytes
    BY <1>1, <1>5, ConcatEmptySeq
  <2>2. Written(bytes, record, sent, todo)
    BY <1>5, <2>1 DEF WrittenSoFar
  <2>3. todo \in Seq(Given)
    BY <1>3, <2>2, LedLeft
  <2>4. Written(bytes \o Encoding(Head(todo), v), record, Append(sent, v), After(Head(todo), v) \o Tail(todo))
    BY <1>1, <1>3, <1>5, <2>2, <2>3, WriteOne
  <2> QED
    BY <1>5, <2>4 DEF WrittenSoFar
<1>6. ASSUME NEW types, Writing(types)
      PROVE  /\ phase = "write" /\ copy = <<>> /\ todo # <<>> /\ Head(todo).type \in types
             /\ Head(todo) \in Fields /\ <<>> \o Tail(todo) = Tail(todo)
  BY <1>1, <1>6, TodoRest DEF Writing
<1>7. ASSUME NEW s \in Seq(Bytes) PROVE (bytes \o s) \o <<>> = bytes \o s
  <2>1. bytes \o s \in Seq(Bytes)
    BY <1>1, ConcatProperties
  <2> QED
    BY <2>1, ConcatEmptySeq
<1>8. CASE WriteNumber
  <2>1. PICK f : f = Head(todo)
    OBVIOUS
  <2>2. PICK x : /\ x = Number(f) /\ Put(zoo_htonll(InMemory(x, SizeOf(f))))
                 /\ sent' = Append(sent, Field(<<x>>, "none")) /\ todo' = Tail(todo) /\ copy' = copy
    BY <1>8, <2>1 DEF WriteNumber
  <2>3. /\ phase = "write" /\ copy = <<>> /\ todo # <<>> /\ f.type \in Numbers /\ f \in Fields
        /\ <<>> \o Tail(todo) = Tail(todo)
    BY <1>6, <1>8, <2>1 DEF WriteNumber, Numbers
  <2>4. x \in IntegersOf(SizeOf(f))
    BY <1>1, <2>2, <2>3, NumberRange DEF IntegersOf, Typed, Numbers
  <2>5. PICK v : v = Field(<<x>>, "none")
    OBVIOUS
  <2>6. Fitting(f, v) /\ Encoding(f, v) = Wire(x, SizeOf(f)) /\ After(f, v) = <<>>
    BY <2>3, <2>4, <2>5, NumberFits
  <2>7. Wire(x, SizeOf(f)) \in Seq(Bytes)
    BY <2>4, SizeFacts, WireFacts
  <2>8. bytes' = bytes \o Wire(x, SizeOf(f)) /\ phase' = phase /\ record' = record
    BY <1>2, <2>2 DEF Wire
  <2>9. bytes' \o copy' = bytes \o Encoding(f, v)
    BY <1>7, <2>2, <2>3, <2>6, <2>7, <2>8
  <2>10. todo' = After(f, v) \o Tail(todo)
    BY <2>2, <2>3, <2>6
  <2> QED
    BY <1>5, <2>1, <2>2, <2>3, <2>5, <2>6, <2>8, <2>9, <2>10
<1>9. CASE WriteText
  <2>1. PICK f : f = Head(todo)
    OBVIOUS
  <2>2. PICK s \in Texts : /\ Put(zoo_htonll(InMemory(Len(s), IntSize))) /\ copy' = s
                           /\ sent' = Append(sent, Field(s, "heap")) /\ todo' = Tail(todo)
    BY <1>9 DEF WriteText
  <2>3. /\ phase = "write" /\ copy = <<>> /\ todo # <<>> /\ f.type \in TextTypes
        /\ <<>> \o Tail(todo) = Tail(todo)
    BY <1>6, <1>9, <2>1 DEF WriteText, TextTypes
  <2>4. PICK v : v = Field(s, "heap")
    OBVIOUS
  <2>5. Fitting(f, v) /\ Encoding(f, v) = Wire(Len(s), IntSize) \o s /\ After(f, v) = <<>>
    BY <2>3, <2>4, TextFits
  <2>6. s \in Seq(Bytes) /\ Wire(Len(s), IntSize) \in Seq(Bytes)
    BY Lengths, Sizes, WireFacts
  <2>7. bytes' = bytes \o Wire(Len(s), IntSize) /\ phase' = phase /\ record' = record
    BY <1>2, <2>2 DEF Wire
  <2>8. (bytes \o Wire(Len(s), IntSize)) \o s = bytes \o (Wire(Len(s), IntSize) \o s)
    BY <1>1, <2>6, ConcatAssociative
  <2>9. bytes' \o copy' = bytes \o Encoding(f, v)
    BY <2>2, <2>5, <2>7, <2>8
  <2>10. todo' = After(f, v) \o Tail(todo)
    BY <2>2, <2>3, <2>5
  <2> QED
    BY <1>5, <2>1, <2>2, <2>3, <2>4, <2>5, <2>7, <2>9, <2>10
<1>10. CASE WriteNull
  <2>1. PICK f : f = Head(todo)
    OBVIOUS
  <2>2. PICK v : /\ v = IF f.type = "buffer" THEN Null ELSE NullString
                 /\ Put(zoo_htonll(InMemory(-1, IntSize)))
                 /\ sent' = Append(sent, v) /\ todo' = Tail(todo) /\ copy' = copy
    BY <1>10, <2>1 DEF WriteNull
  <2>3. /\ phase = "write" /\ copy = <<>> /\ todo # <<>> /\ f.type \in TextTypes
        /\ <<>> \o Tail(todo) = Tail(todo)
    BY <1>6, <1>10, <2>1 DEF WriteNull, TextTypes
  <2>4. Fitting(f, v) /\ Encoding(f, v) = Wire(-1, IntSize) /\ After(f, v) = <<>>
    BY <2>2, <2>3, NullFits
  <2>5. Wire(-1, IntSize) \in Seq(Bytes)
    BY Lengths, Sizes, WireFacts
  <2>6. bytes' = bytes \o Wire(-1, IntSize) /\ phase' = phase /\ record' = record
    BY <1>2, <2>2 DEF Wire
  <2>7. bytes' \o copy' = bytes \o Encoding(f, v)
    BY <1>7, <2>2, <2>3, <2>4, <2>5, <2>6
  <2>8. todo' = After(f, v) \o Tail(todo)
    BY <2>2, <2>3, <2>4
  <2> QED
    BY <1>5, <2>1, <2>2, <2>3, <2>4, <2>6, <2>7, <2>8
<1>11. CASE WriteVector
  <2>1. PICK f : f = Head(todo)
    OBVIOUS
  <2>2. PICK n \in 0 .. MaxCount :
            /\ Put(zoo_htonll(InMemory(n, IntSize)))
            /\ todo' = Repeat(n, f.of) \o Tail(todo)
            /\ sent' = Append(sent, Field(<<n>>, "heap")) /\ copy' = copy
    BY <1>11, <2>1 DEF WriteVector
  <2>3. /\ phase = "write" /\ copy = <<>> /\ todo # <<>> /\ f.type = "vector"
    BY <1>6, <1>11, <2>1 DEF WriteVector
  <2>4. PICK v : v = Field(<<n>>, "heap")
    OBVIOUS
  <2>5. Fitting(f, v) /\ Encoding(f, v) = Wire(n, IntSize) /\ After(f, v) = Repeat(n, f.of)
    BY <2>3, <2>4, CountFits
  <2>6. Wire(n, IntSize) \in Seq(Bytes)
    BY Lengths, Sizes, WireFacts
  <2>7. bytes' = bytes \o Wire(n, IntSize) /\ phase' = phase /\ record' = record
    BY <1>2, <2>2 DEF Wire
  <2>8. bytes' \o copy' = bytes \o Encoding(f, v)
    BY <1>7, <2>2, <2>3, <2>5, <2>6, <2>7
  <2> QED
    BY <1>5, <2>1, <2>2, <2>3, <2>4, <2>5, <2>7, <2>8
<1> QED
  BY <1>4, <1>8, <1>9, <1>10, <1>11

-----------------------------------------------------------------------------
(* The reader on the writer's trail                                        *)

\* s is t without its marks: r counts the fields of t up to each place.
Ranks(r, t, s) ==
    /\ r \in [0 .. Len(t) -> 0 .. Len(s)] /\ r[0] = 0 /\ r[Len(t)] = Len(s)
    /\ \A j \in 1 .. Len(t) : t[j] = endVector => r[j] = r[j - 1]
    /\ \A j \in 1 .. Len(t) : t[j] # endVector => r[j] = r[j - 1] + 1 /\ s[r[j]] = t[j]
Stripped(t, s) == \E r : Ranks(r, t, s)

\* Without marks nothing is stripped.
LEMMA StripNone ==
    ASSUME NEW s \in Seq(Given)
    PROVE  Stripped(s, s)
<1>1. PICK n \in Nat : n = Len(s)
  OBVIOUS
<1> DEFINE r == [i \in 0 .. n |-> i]
<1>2. r \in [0 .. n -> 0 .. n] /\ \A i \in 0 .. n : r[i] = i
  OBVIOUS
<1> HIDE DEF r
<1>3. ASSUME NEW j \in 1 .. n PROVE s[j] # endVector /\ r[j] = r[j - 1] + 1 /\ s[r[j]] = s[j]
  <2>1. s[j] \in Given /\ j \in 0 .. n /\ j - 1 \in 0 .. n
    BY <1>1
  <2> QED
    BY <1>2, <2>1, NoMark
<1>4. Ranks(r, s, s)
  BY <1>1, <1>2, <1>3 DEF Ranks
<1> QED
  BY <1>4 DEF Stripped

\* Nothing left stripped is nothing left.
LEMMA StripEnd ==
    ASSUME NEW s \in Seq(Given), Stripped(<<>>, s)
    PROVE  s = <<>>
<1>1. PICK r : Ranks(r, <<>>, s)
  BY DEF Stripped
<1>2. Len(s) = 0
  BY <1>1 DEF Ranks
<1> QED
  BY <1>2

\* The head of what is left: a mark, or the next field.
LEMMA StripHead ==
    ASSUME NEW t \in Seq(Fields), t # <<>>, NEW s \in Seq(Given), Stripped(t, s)
    PROVE  /\ Head(t) = endVector => Stripped(Tail(t), s)
           /\ Head(t) # endVector => s # <<>> /\ Head(s) = Head(t) /\ Stripped(Tail(t), Tail(s))
<1>1. PICK r : Ranks(r, t, s)
  BY DEF Stripped
<1>2. PICK n \in Nat, m \in Nat : n = Len(t) /\ n >= 1 /\ m = Len(s)
  <2>1. Len(t) \in Nat /\ Len(s) \in Nat /\ Len(t) # 0
    BY EmptySeq
  <2> QED
    BY <2>1
<1>3. /\ r \in [0 .. n -> 0 .. m] /\ r[0] = 0 /\ r[n] = m
      /\ \A j \in 1 .. n : t[j] = endVector => r[j] = r[j - 1]
      /\ \A j \in 1 .. n : t[j] # endVector => r[j] = r[j - 1] + 1 /\ s[r[j]] = t[j]
  BY <1>1, <1>2 DEF Ranks
<1>4. PICK u \in Seq(Fields) : u = Tail(t)
  <2>1. Tail(t) \in Seq(Fields)
    OBVIOUS
  <2> QED
    BY <2>1
<1>5. Len(u) = n - 1 /\ Head(t) = t[1] /\ \A j \in 1 .. n - 1 : u[j] = t[j + 1]
  BY <1>2, <1>4
<1>6. CASE Head(t) = endVector
  <2> DEFINE q == [j \in 0 .. n - 1 |-> r[j + 1]]
  <2>1. \A j \in 0 .. n - 1 : q[j] = r[j + 1] /\ r[j + 1] \in 0 .. m
    BY <1>2, <1>3
  <2>2. q \in [0 .. n - 1 -> 0 .. m]
    BY <2>1
  <2> HIDE DEF q
  <2>3. r[1] = 0
    BY <1>2, <1>3, <1>5, <1>6
  <2>4. q[0] = 0 /\ q[n - 1] = m
    BY <1>2, <1>3, <2>1, <2>3
  <2>5. ASSUME NEW j \in 1 .. n - 1
        PROVE  /\ u[j] = endVector => q[j] = q[j - 1]
               /\ u[j] # endVector => q[j] = q[j - 1] + 1 /\ s[q[j]] = u[j]
    <3>1. j + 1 \in 1 .. n /\ j \in 0 .. n - 1 /\ j - 1 \in 0 .. n - 1 /\ (j - 1) + 1 = j /\ (j + 1) - 1 = j
      BY <1>2
    <3>2. u[j] = t[j + 1] /\ q[j] = r[j + 1] /\ q[j - 1] = r[j]
      BY <1>5, <2>1, <3>1
    <3> QED
      BY <1>3, <3>1, <3>2
  <2>6. Ranks(q, u, s)
    BY <1>2, <1>5, <2>2, <2>4, <2>5 DEF Ranks
  <2> QED
    BY <1>4, <1>6, <2>6 DEF Stripped
<1>7. CASE Head(t) # endVector
  <2>1. r[1] = 1 /\ s[1] = t[1] /\ m >= 1
    <3>1. 1 \in 1 .. n /\ 1 \in 0 .. n /\ t[1] # endVector
      BY <1>2, <1>5, <1>7
    <3>2. r[1] = r[1 - 1] + 1 /\ s[r[1]] = t[1] /\ r[1] \in 0 .. m
      BY <1>3, <3>1
    <3> QED
      BY <1>3, <3>2
  <2>2. s # <<>> /\ Head(s) = s[1]
    BY <1>2, <2>1
  <2>3. PICK v \in Seq(Given) : v = Tail(s)
    <3>1. Tail(s) \in Seq(Given)
      BY <2>2
    <3> QED
      BY <3>1
  <2>4. Len(v) = m - 1 /\ \A j \in 1 .. m - 1 : v[j] = s[j + 1]
    BY <1>2, <2>2, <2>3
  <2> DEFINE T == {i \in 0 .. n : i >= 1 => r[i] >= 1}
  <2>5. 0 \in T
    BY <1>2
  <2>6. ASSUME NEW i \in 1 .. n, i - 1 \in T PROVE i \in T
    <3>1. CASE i = 1
      BY <2>1, <3>1
    <3>2. CASE i # 1
      <4>1. r[i - 1] >= 1 /\ i - 1 \in 0 .. n /\ r[i - 1] \in 0 .. m
        BY <1>3, <2>6, <3>2
      <4>2. r[i] = r[i - 1] \/ r[i] = r[i - 1] + 1
        BY <1>3
      <4> QED
        BY <4>1, <4>2
    <3> QED
      BY <3>1, <3>2
  <2> HIDE DEF T
  <2>7. \A i \in 1 .. n : r[i] \in 1 .. m
    <3>1. 0 .. n \subseteq T
      BY <1>2, <2>5, <2>6, Climb
    <3> QED
      BY <1>3, <3>1 DEF T
  <2> DEFINE q == [j \in 0 .. n - 1 |-> r[j + 1] - 1]
  <2>8. \A j \in 0 .. n - 1 : q[j] = r[j + 1] - 1 /\ r[j + 1] - 1 \in 0 .. m - 1
    <3>1. \A j \in 0 .. n - 1 : j + 1 \in 1 .. n
      BY <1>2
    <3> QED
      BY <1>2, <2>7, <3>1
  <2>9. q \in [0 .. n - 1 -> 0 .. m - 1]
    BY <2>8
  <2> HIDE DEF q
  <2>10. q[0] = 0 /\ q[n - 1] = m - 1
    <3>1. 0 \in 0 .. n - 1 /\ n - 1 \in 0 .. n - 1 /\ 0 + 1 = 1 /\ (n - 1) + 1 = n
      BY <1>2
    <3>2. q[0] = r[1] - 1 /\ q[n - 1] = r[n] - 1
      BY <2>8, <3>1
    <3> QED
      BY <1>3, <2>1, <3>2
  <2>11. ASSUME NEW j \in 1 .. n - 1
         PROVE  /\ u[j] = endVector => q[j] = q[j - 1]
                /\ u[j] # endVector => q[j] = q[j - 1] + 1 /\ v[q[j]] = u[j]
    <3>1. j + 1 \in 1 .. n /\ j \in 1 .. n /\ j \in 0 .. n - 1 /\ j - 1 \in 0 .. n - 1 /\ (j - 1) + 1 = j /\ (j + 1) - 1 = j
      BY <1>2
    <3>2. u[j] = t[j + 1] /\ r[j] \in 1 .. m /\ r[j + 1] \in 1 .. m
      BY <1>5, <2>7, <3>1
    <3>0. q[j] = r[j + 1] - 1 /\ q[j - 1] = r[(j - 1) + 1] - 1
      BY <2>8, <3>1
    <3>a. PICK z \in 1 .. m, k \in 1 .. m : z = r[j] /\ k = r[j + 1] /\ q[j] = k - 1 /\ q[j - 1] = z - 1
      BY <3>0, <3>1, <3>2
    <3>3. CASE u[j] = endVector
      <4>1. k = z
        BY <1>3, <3>1, <3>2, <3>3, <3>a
      <4> QED
        BY <3>3, <3>a, <4>1
    <3>4. CASE u[j] # endVector
      <4>1. r[j + 1] = r[j] + 1 /\ s[r[j + 1]] = t[j + 1]
        BY <1>3, <3>1, <3>2, <3>4
      <4>2. k = z + 1 /\ s[k] = u[j]
        BY <3>2, <3>a, <4>1
      <4>3. q[j] = z /\ q[j - 1] = z - 1 /\ z \in 1 .. m - 1
        BY <3>a, <4>2
      <4>4. v[z] = s[z + 1]
        BY <2>4, <4>3
      <4> QED
        BY <3>4, <4>2, <4>3, <4>4
    <3> QED
      BY <3>3, <3>4
  <2>12. Ranks(q, u, v)
    BY <1>2, <1>5, <2>4, <2>9, <2>10, <2>11 DEF Ranks
  <2> QED
    BY <1>4, <1>5, <1>7, <2>1, <2>2, <2>3, <2>12 DEF Stripped
<1> QED
  BY <1>6, <1>7

\* Two lists stripped one behind the other.
LEMMA StripJoin ==
    ASSUME NEW t \in Seq(Fields), NEW s \in Seq(Given), Stripped(t, s),
           NEW u \in Seq(Fields), NEW v \in Seq(Given), Stripped(u, v)
    PROVE  Stripped(t \o u, s \o v)
<1>1. PICK r : Ranks(r, t, s)
  BY DEF Stripped
<1>2. PICK q : Ranks(q, u, v)
  BY DEF Stripped
<1>3. PICK n \in Nat, m \in Nat, a \in Nat, b \in Nat : n = Len(t) /\ m = Len(s) /\ a = Len(u) /\ b = Len(v)
  OBVIOUS
<1>4. PICK x \in Seq(Fields), y \in Seq(Given) : x = t \o u /\ y = s \o v
  BY JoinFacts
<1>5. /\ Len(x) = n + a /\ Len(y) = m + b
      /\ \A j \in 1 .. n : x[j] = t[j]
      /\ \A j \in 1 .. a : x[n + j] = u[j]
      /\ \A j \in 1 .. m : y[j] = s[j]
      /\ \A j \in 1 .. b : y[m + j] = v[j]
  BY <1>3, <1>4, JoinFacts
<1>6. /\ r \in [0 .. n -> 0 .. m] /\ r[0] = 0 /\ r[n] = m
      /\ \A j \in 1 .. n : t[j] = endVector => r[j] = r[j - 1]
      /\ \A j \in 1 .. n : t[j] # endVector => r[j] = r[j - 1] + 1 /\ s[r[j]] = t[j]
  BY <1>1, <1>3 DEF Ranks
<1>7. /\ q \in [0 .. a -> 0 .. b] /\ q[0] = 0 /\ q[a] = b
      /\ \A j \in 1 .. a : u[j] = endVector => q[j] = q[j - 1]
      /\ \A j \in 1 .. a : u[j] # endVector => q[j] = q[j - 1] + 1 /\ v[q[j]] = u[j]
  BY <1>2, <1>3 DEF Ranks
<1> DEFINE w == [j \in 0 .. n + a |-> IF j <= n THEN r[j] ELSE m + q[j - n]]
<1>8. /\ \A j \in 0 .. n : w[j] = r[j] /\ r[j] \in 0 .. m
      /\ \A j \in 0 .. a : w[n + j] = m + q[j] /\ q[j] \in 0 .. b
  <2>1. ASSUME NEW j \in 0 .. a PROVE w[n + j] = m + q[j]
    <3>1. CASE j = 0
      BY <1>6, <1>7, <3>1
    <3>2. CASE j # 0
      BY <3>2
    <3> QED
      BY <3>1, <3>2
  <2> QED
    BY <1>6, <1>7, <2>1
<1>f. w = [j \in 0 .. n + a |-> w[j]]
  OBVIOUS
<1> HIDE DEF w
<1>9. w \in [0 .. n + a -> 0 .. m + b]
  <2>1. ASSUME NEW j \in 0 .. n + a PROVE w[j] \in 0 .. m + b
    <3>1. CASE j <= n
      <4>1. j \in 0 .. n
        BY <3>1
      <4>2. w[j] = r[j] /\ r[j] \in 0 .. m
        BY <1>8, <4>1
      <4> QED
        BY <4>2
    <3>2. CASE j > n
      <4>1. j - n \in 0 .. a /\ n + (j - n) = j
        BY <3>2
      <4>2. w[j] = m + q[j - n] /\ q[j - n] \in 0 .. b
        BY <1>8, <4>1
      <4> QED
        BY <4>2
    <3> QED
      BY <3>1, <3>2
  <2> QED
    BY <1>f, <2>1
<1>10. w[0] = 0 /\ w[n + a] = m + b
  <2>1. 0 \in 0 .. n /\ a \in 0 .. a
    OBVIOUS
  <2>2. w[0] = r[0] /\ w[n + a] = m + q[a]
    BY <1>8, <2>1
  <2> QED
    BY <1>6, <1>7, <2>2
<1>11. ASSUME NEW j \in 1 .. n + a
       PROVE  /\ x[j] = endVector => w[j] = w[j - 1]
              /\ x[j] # endVector => w[j] = w[j - 1] + 1 /\ y[w[j]] = x[j]
  <2>1. CASE j <= n
    <3>1. j \in 1 .. n /\ j \in 0 .. n /\ j - 1 \in 0 .. n
      BY <2>1
    <3>2. x[j] = t[j] /\ w[j] = r[j] /\ w[j - 1] = r[j - 1] /\ r[j] \in 0 .. m /\ r[j - 1] \in 0 .. m
      BY <1>5, <1>8, <3>1
    <3>3. x[j] # endVector => r[j] \in 1 .. m /\ y[r[j]] = s[r[j]]
      BY <1>5, <1>6, <3>1, <3>2
    <3> QED
      BY <1>6, <3>1, <3>2, <3>3
  <2>2. CASE j > n
    <3>1. PICK i \in 1 .. a : n + i = j
      <4>1. j - n \in 1 .. a /\ n + (j - n) = j
        BY <2>2
      <4> QED
        BY <4>1
    <3>2. i \in 0 .. a /\ i - 1 \in 0 .. a /\ n + (i - 1) = j - 1
      BY <3>1
    <3>3. x[j] = u[i] /\ w[j] = m + q[i] /\ w[j - 1] = m + q[i - 1] /\ q[i] \in 0 .. b /\ q[i - 1] \in 0 .. b
      BY <1>5, <1>8, <3>1, <3>2
    <3>4. PICK z \in 0 .. b, k \in 0 .. b : z = q[i - 1] /\ k = q[i]
      BY <3>3
    <3>5. /\ u[i] = endVector => k = z
          /\ u[i] # endVector => k = z + 1 /\ v[k] = u[i]
      BY <1>7, <3>1, <3>4
    <3>6. u[i] # endVector => k \in 1 .. b
      <4>1. k = z + 1 => k \in 1 .. b
        OBVIOUS
      <4> QED
        BY <3>5, <4>1
    <3>7. u[i] # endVector => y[m + k] = v[k]
      BY <1>5, <3>6
    <3>8. w[j] = m + k /\ w[j - 1] = m + z /\ x[j] = u[i]
      BY <3>3, <3>4
    <3>9. CASE u[i] = endVector
      BY <3>5, <3>8, <3>9
    <3>10. CASE u[i] # endVector
      <4>1. m + k = (m + z) + 1
        BY <3>5, <3>10
      <4>2. y[m + k] = u[i]
        BY <3>5, <3>7, <3>10
      <4> QED
        BY <3>8, <3>10, <4>1, <4>2
    <3> QED
      BY <3>9, <3>10
  <2> QED
    BY <2>1, <2>2
<1>12. Ranks(w, x, y)
  BY <1>3, <1>5, <1>9, <1>10, <1>11 DEF Ranks
<1> QED
  BY <1>4, <1>12 DEF Stripped

\* The elements of a vector and the mark behind them.
LEMMA StripElements ==
    ASSUME NEW s \in Seq(Given), NEW u \in Seq(Fields), NEW v \in Seq(Given), Stripped(u, v)
    PROVE  /\ (s \o <<endVector>>) \o u \in Seq(Fields)
           /\ Stripped((s \o <<endVector>>) \o u, s \o v)
<1>1. s \in Seq(Fields) /\ <<endVector>> \in Seq(Fields) /\ <<>> \in Seq(Given)
  BY FieldLists DEF Fields
<1>2. Stripped(<<endVector>>, <<>>)
  <2> DEFINE r == [i \in 0 .. 1 |-> 0]
  <2>1. Ranks(r, <<endVector>>, <<>>)
    BY DEF Ranks
  <2> QED
    BY <2>1 DEF Stripped
<1>3. Stripped(s \o <<endVector>>, s \o <<>>)
  BY <1>1, <1>2, StripNone, StripJoin
<1>4. PICK x \in Seq(Fields) : x = s \o <<endVector>>
  BY <1>1, JoinFacts
<1>5. Stripped(x, s)
  BY <1>3, <1>4, ConcatEmptySeq
<1>6. Stripped(x \o u, s \o v) /\ x \o u \in Seq(Fields)
  BY <1>5, StripJoin, JoinFacts
<1> QED
  BY <1>4, <1>6

\* The reader has read the first fields as they were written, and stands where the writer
\* stood behind them.
Kept(fs, at) ==
    /\ Len(got) <= Len(sent) /\ \A i \in 1 .. Len(got) : got[i] = sent[i]
    /\ in.off = at[Len(got)] /\ Stripped(todo, fs[Len(got)])

Whole == in.len = Len(bytes) /\ \A i \in 1 .. Len(sent) : sent[i] # NullString
Scalar == \A i \in 1 .. Len(record) : record[i].type # "vector"

Reader(fs, at) ==
    /\ Led(fs, at, Len(sent), bytes, record, sent, <<>>)
    /\ Whole => rc = "ok" /\ Kept(fs, at)
    /\ Scalar => todo \in Seq(Elementary) /\ (rc = "ok" => Kept(fs, at))

Faithful == RecordsInv /\ WrittenSoFar /\ (phase = "read" => \E fs, at : Reader(fs, at))

\* The field to read next is v, and its bytes come next.
StandsNext(e) == \A i \in 1 .. Len(e) : bytes[in.off + i] = e[i]
Expected(fs, at, f, v) ==
    /\ Len(got) + 1 <= Len(sent) /\ v = sent[Len(got) + 1]
    /\ f \in Given /\ Fitting(f, v)
    /\ at[Len(got) + 1] = in.off + Len(Encoding(f, v)) /\ at[Len(got) + 1] <= Len(bytes)
    /\ StandsNext(Encoding(f, v))
    /\ \E s \in Seq(Given) : Stripped(Tail(todo), s) /\ fs[Len(got) + 1] = After(f, v) \o s

\* The parts of the state the lemmas below need.
LEMMA SequencesHere ==
    ASSUME RecordsInv
    PROVE  /\ bytes \in Seq(Bytes) /\ Len(bytes) \in Nat /\ in.off \in Nat /\ in.len \in Nat
           /\ in.len <= Len(bytes) /\ in.off <= in.len
           /\ Len(sent) \in Nat /\ Len(got) \in Nat /\ todo \in Seq(Fields)
           /\ \E V : sent \in Seq(V)
           /\ \E V : got \in Seq(V)
<1>1. Typed /\ BoundsInv
  BY DEF RecordsInv
<1>2. \E V : sent \in Seq(V)
  BY <1>1 DEF Typed, Values, LegalIn
<1>3. \E V : got \in Seq(V)
  BY <1>1 DEF Typed, Values, LegalIn
<1>4. bytes \in Seq(Bytes)
  BY <1>1 DEF Typed, Bytes
<1> QED
  BY <1>1, <1>2, <1>3, <1>4 DEF Typed, BoundsInv, WithinBounds

\* There is a next field.
LEMMA ExpectedNext ==
    ASSUME RecordsInv, NEW fs, NEW at, Led(fs, at, Len(sent), bytes, record, sent, <<>>), Kept(fs, at),
           todo # <<>>, Head(todo) # endVector
    PROVE  \E v : Expected(fs, at, Head(todo), v)
<1>1. PICK n \in Nat, k \in Nat : n = Len(sent) /\ k = Len(got)
  BY SequencesHere
<1>2. /\ fs \in [0 .. n -> Seq(Given)] /\ at \in [0 .. n -> Nat] /\ fs[n] = <<>>
      /\ \A i \in 1 .. n : Follows(fs[i - 1], fs[i], at[i - 1], at[i], bytes, sent[i])
  BY <1>1 DEF Led, Trail
<1>3. k <= n /\ in.off = at[k] /\ Stripped(todo, fs[k])
  BY <1>1 DEF Kept
<1>4. PICK s \in Seq(Given) : s = fs[k]
  BY <1>2, <1>3
<1>5. PICK t \in Seq(Fields) : t = todo
  BY SequencesHere
<1>6. s # <<>> /\ Head(s) = Head(t) /\ Stripped(Tail(t), Tail(s))
  <2>1. t # <<>> /\ Head(t) # endVector /\ Stripped(t, s)
    BY <1>3, <1>4, <1>5
  <2> QED
    BY <2>1, StripHead
<1>7. k + 1 <= n
  BY <1>2, <1>3, <1>4, <1>6
<1>8. k + 1 \in 1 .. n /\ (k + 1) - 1 = k
  BY <1>7
<1>9. Follows(fs[(k + 1) - 1], fs[k + 1], at[(k + 1) - 1], at[k + 1], bytes, sent[k + 1])
  BY <1>2, <1>8
<1>10. PICK v : v = sent[k + 1]
  OBVIOUS
<1>11. Follows(s, fs[k + 1], in.off, at[k + 1], bytes, v)
  BY <1>3, <1>4, <1>8, <1>9, <1>10
<1>12. Head(s) \in Given /\ Tail(s) \in Seq(Given)
  BY <1>6
<1> QED
  BY <1>1, <1>5, <1>6, <1>7, <1>10, <1>11, <1>12 DEF Follows, Expected, StandsNext

\* Bytes that come are copied.
LEMMA ComingBytes ==
    ASSUME RecordsInv, NEW a \in Nat, NEW w \in Seq(Bytes), in.off + a + Len(w) <= Len(bytes),
           \A i \in 1 .. Len(w) : bytes[in.off + a + i] = w[i]
    PROVE  SubSeq(bytes, in.off + a + 1, in.off + a + Len(w)) = w
<1>1. PICK b \in Nat, m \in Nat, n \in Nat : b = in.off + a /\ m = Len(w) /\ n = Len(bytes) /\ b + m <= n
  BY SequencesHere
<1>2. bytes \in Seq(Bytes)
  BY SequencesHere
<1>3. PICK q : q = SubSeq(bytes, b + 1, b + m)
  OBVIOUS
<1>4. /\ q \in Seq(Bytes) /\ Len(q) = m
      /\ \A i \in 1 .. m : q[i] = bytes[b + i]
  <2>1. PICK c \in Int, d \in Int : c = b + 1 /\ d = b + m
    OBVIOUS
  <2>2. \A i \in c .. d : bytes[i] \in Bytes
    BY <1>1, <1>2, <2>1
  <2>3. /\ SubSeq(bytes, c, d) \in Seq(Bytes)
        /\ Len(SubSeq(bytes, c, d)) = IF c <= d THEN d - c + 1 ELSE 0
        /\ \A i \in 1 .. d - c + 1 : SubSeq(bytes, c, d)[i] = bytes[c + i - 1]
    BY <2>2, SubSeqProperties
  <2>4. d - c + 1 = m /\ (c <= d \/ m = 0) /\ \A i \in 1 .. m : c + i - 1 = b + i
    BY <2>1
  <2> QED
    BY <1>3, <2>1, <2>3, <2>4
<1>5. q = w
  BY <1>1, <1>4
<1> QED
  BY <1>1, <1>3, <1>5

\* So a length or a count is read as it was written.
LEMMA LengthComes ==
    ASSUME RecordsInv, NEW x \in IntegersOf(IntSize), NEW e, StandsNext(e), in.off + Len(e) <= Len(bytes),
           NEW w \in Seq(Bytes), e = Wire(x, IntSize) \o w
    PROVE  /\ TextLength = x /\ Len(e) = IntSize + Len(w)
           /\ SubSeq(bytes, in.off + IntSize + 1, in.off + IntSize + Len(w)) = w
<1>1. PICK u \in Seq(Bytes) : u = Wire(x, IntSize) /\ Len(u) = IntSize /\ Signed(u) = x
  <2>1. IntSize \in Nat /\ IntSize >= 1
    BY Sizes
  <2>2. Wire(x, IntSize) \in Seq(Bytes) /\ Len(Wire(x, IntSize)) = IntSize /\ Signed(Wire(x, IntSize)) = x
    BY <2>1, WireFacts
  <2> QED
    BY <2>2
<1>2. PICK a \in Nat, m \in Nat, o \in Nat : a = IntSize /\ m = Len(w) /\ o = in.off
  <2>1. IntSize \in Nat /\ Len(w) \in Nat /\ in.off \in Nat
    BY Sizes, SequencesHere
  <2> QED
    BY <2>1
<1>3. /\ Len(e) = a + m
      /\ \A i \in 1 .. a : e[i] = u[i]
      /\ \A i \in 1 .. m : e[a + i] = w[i]
  <2>1. /\ Len(u \o w) = Len(u) + Len(w)
        /\ \A i \in 1 .. Len(u) : (u \o w)[i] = u[i]
        /\ \A i \in 1 .. Len(w) : (u \o w)[Len(u) + i] = w[i]
    BY JoinFacts
  <2>2. e = u \o w
    BY <1>1
  <2> QED
    BY <1>1, <1>2, <2>1, <2>2
<1>4. Len(bytes) \in Nat /\ o + (a + m) <= Len(bytes) /\ \A i \in 1 .. a + m : bytes[o + i] = e[i]
  BY <1>2, <1>3, SequencesHere DEF StandsNext
<1>5. SubSeq(bytes, in.off + 0 + 1, in.off + 0 + Len(u)) = u
  <2>1. in.off + 0 + Len(u) <= Len(bytes) /\ 0 \in Nat
    BY <1>1, <1>2, <1>4
  <2>2. ASSUME NEW i \in 1 .. Len(u) PROVE bytes[in.off + 0 + i] = u[i]
    <3>1. in.off + 0 + i = o + i /\ i \in 1 .. a /\ i \in 1 .. a + m
      BY <1>1, <1>2
    <3> QED
      BY <1>3, <1>4, <3>1
  <2> QED
    BY <2>1, <2>2, ComingBytes
<1>6. SubSeq(bytes, in.off + a + 1, in.off + a + Len(w)) = w
  <2>1. in.off + a + Len(w) <= Len(bytes)
    BY <1>2, <1>4
  <2>2. ASSUME NEW i \in 1 .. Len(w) PROVE bytes[in.off + a + i] = w[i]
    <3>1. in.off + a + i = o + (a + i) /\ i \in 1 .. m /\ a + i \in 1 .. a + m
      BY <1>2
    <3> QED
      BY <1>3, <1>4, <3>1
  <2> QED
    BY <2>1, <2>2, ComingBytes
<1>7. Coming(IntSize) = u
  <2>1. in.off + 0 + 1 = in.off + 1 /\ in.off + 0 + Len(u) = in.off + IntSize
    BY <1>1, <1>2
  <2> QED
    BY <1>5, <2>1 DEF Coming
<1> QED
  BY <1>1, <1>2, <1>3, <1>6, <1>7 DEF TextLength

\* A field read as it was written keeps the reader on the trail.
LEMMA ReadRight ==
    ASSUME RecordsInv, NEW fs, NEW at, Kept(fs, at), NEW f, NEW v, Expected(fs, at, f, v),
           NEW next, Read("ok", Len(Encoding(f, v)), v, next),
           Stripped(next \o Tail(todo), fs[Len(got) + 1])
    PROVE  rc' = "ok" /\ Kept(fs, at)'
<1>1. /\ rc' = "ok" /\ got' = Append(got, v) /\ todo' = next \o Tail(todo) /\ sent' = sent
      /\ in' = [in EXCEPT !.off = in.off + Len(Encoding(f, v))]
  BY DEF Read
<1>2. PICK k \in Nat, n \in Nat : k = Len(got) /\ n = Len(sent)
  BY SequencesHere
<1>3. k + 1 <= n /\ v = sent[k + 1] /\ at[k + 1] = in.off + Len(Encoding(f, v))
  BY <1>2 DEF Expected
<1>4. in'.off = at[k + 1]
  <2>1. in.off \in Nat /\ in.len \in Nat
    BY SequencesHere
  <2> QED
    BY <1>1, <1>3, <2>1
<1>5. /\ Len(got') = k + 1 /\ got'[k + 1] = v
      /\ \A i \in 1 .. k : got'[i] = got[i]
  <2>1. PICK V : got \in Seq(V)
    BY SequencesHere
  <2>2. got \in Seq(V \cup {v}) /\ v \in V \cup {v}
    BY <2>1
  <2> QED
    BY <1>1, <1>2, <2>2
<1>6. ASSUME NEW i \in 1 .. k + 1 PROVE got'[i] = sent[i]
  <2>1. CASE i = k + 1
    BY <1>3, <1>5, <2>1
  <2>2. CASE i # k + 1
    <3>1. i \in 1 .. k
      BY <2>2
    <3> QED
      BY <1>2, <1>5, <3>1 DEF Kept
  <2> QED
    BY <2>1, <2>2
<1>7. Stripped(todo', fs[k + 1])
  BY <1>1, <1>2
<1> QED
  BY <1>1, <1>2, <1>3, <1>4, <1>5, <1>6, <1>7 DEF Kept

\* What is left behind a field that is not a vector.
LEMMA Rest ==
    ASSUME RecordsInv, NEW fs, NEW at, NEW f, f = Head(todo), todo # <<>>, NEW v, Expected(fs, at, f, v),
           f.type # "vector"
    PROVE  Stripped(<<>> \o Tail(todo), fs[Len(got) + 1])
<1>1. PICK s \in Seq(Given) : Stripped(Tail(todo), s) /\ fs[Len(got) + 1] = After(f, v) \o s
  BY DEF Expected
<1>2. <<>> \o Tail(todo) = Tail(todo)
  BY TodoRest DEF RecordsInv
<1>3. After(f, v) \o s = s
  <2>1. After(f, v) = <<>>
    BY DEF After
  <2> QED
    BY <2>1, ConcatEmptySeq
<1> QED
  BY <1>1, <1>2, <1>3

\* A step that reads either fails, which it does not when everything has arrived and no
\* string is null, or reads the next field as it was written.
LEMMA NumberOutcome ==
    ASSUME RecordsInv, NEW fs, NEW at, Kept(fs, at), NEW f, f = Head(todo), NEW v, Expected(fs, at, f, v),
           ReadNumber
    PROVE  (rc' = "ok" /\ Kept(fs, at)') \/ (rc' # "ok" /\ ~Whole)
<1>1. PICK e : e = Encoding(f, v)
  OBVIOUS
<1>2. /\ f \in Given /\ Fitting(f, v) /\ in.off + Len(e) <= Len(bytes) /\ StandsNext(e)
  BY <1>1 DEF Expected
<1>3. f.type \in Numbers /\ f.type # "vector" /\ todo # <<>>
  BY DEF ReadNumber, Reading, Numbers
<1>4. e \in Seq(Bytes) /\ Len(e) = SizeOf(f) /\ v = Field(<<Signed(e)>>, "none")
  BY <1>1, <1>2, <1>3, EncodingFacts
<1>5. /\ in.off \in Nat /\ in.len \in Nat /\ Len(e) \in Nat /\ Len(bytes) \in Nat
  BY <1>4, SequencesHere
<1>6. CASE Left < SizeOf(f) /\ Read("E2BIG", 0, Unset(f), <<>>)
  <2>1. rc' = "E2BIG"
    BY <1>6 DEF Read
  <2>2. in.len # Len(bytes)
    BY <1>2, <1>4, <1>5, <1>6 DEF Left
  <2> QED
    BY <2>1, <2>2 DEF Whole
<1>7. CASE Read("ok", SizeOf(f), Field(<<Signed(Coming(SizeOf(f)))>>, "none"), <<>>)
  <2>1. SubSeq(bytes, in.off + 0 + 1, in.off + 0 + Len(e)) = e
    <3>1. in.off + 0 + Len(e) <= Len(bytes) /\ \A i \in 1 .. Len(e) : in.off + 0 + i = in.off + i
      BY <1>2, <1>5
    <3>2. \A i \in 1 .. Len(e) : bytes[in.off + 0 + i] = e[i]
      BY <1>2, <3>1 DEF StandsNext
    <3> QED
      BY <1>4, <3>1, <3>2, ComingBytes
  <2>2. Coming(SizeOf(f)) = e
    <3>1. in.off + 0 + 1 = in.off + 1 /\ in.off + 0 + Len(e) = in.off + SizeOf(f)
      BY <1>4, <1>5
    <3> QED
      BY <2>1, <3>1 DEF Coming
  <2>3. Read("ok", Len(Encoding(f, v)), v, <<>>)
    BY <1>1, <1>4, <1>7, <2>2
  <2>4. Stripped(<<>> \o Tail(todo), fs[Len(got) + 1])
    BY <1>3, Rest
  <2> QED
    BY <2>3, <2>4, ReadRight
<1>8. \/ Left < SizeOf(f) /\ Read("E2BIG", 0, Unset(f), <<>>)
      \/ Read("ok", SizeOf(f), Field(<<Signed(Coming(SizeOf(f)))>>, "none"), <<>>)
  BY DEF ReadNumber
<1> QED
  BY <1>6, <1>7, <1>8

\* The same of a string or a buffer.
LEMMA TextOutcome ==
    ASSUME RecordsInv, NEW fs, NEW at, Kept(fs, at), NEW f, f = Head(todo), NEW v, Expected(fs, at, f, v),
           NoLength \/ TooLong \/ ReadText \/ ReadNegative
    PROVE  (rc' = "ok" /\ Kept(fs, at)') \/ (rc' # "ok" /\ ~Whole)
<1>1. PICK e : e = Encoding(f, v)
  OBVIOUS
<1>2. /\ f \in Given /\ Fitting(f, v) /\ in.off + Len(e) <= Len(bytes) /\ StandsNext(e)
      /\ Len(got) + 1 <= Len(sent) /\ v = sent[Len(got) + 1]
  BY <1>1 DEF Expected
<1>3. f.type \in TextTypes /\ f.type \notin Numbers /\ f.type # "vector" /\ todo # <<>>
  BY DEF NoLength, TooLong, ReadText, ReadNegative, Reading, Numbers, TextTypes
<1>4. e \in Seq(Bytes) /\ Len(e) >= IntSize
  BY <1>1, <1>2, <1>3, EncodingFacts
<1>5. /\ in.off \in Nat /\ in.len \in Nat /\ Len(e) \in Nat /\ Len(bytes) \in Nat
      /\ IntSize \in Nat /\ Len(got) \in Nat /\ Len(sent) \in Nat
  BY <1>4, SequencesHere, Sizes
<1>6. Stripped(<<>> \o Tail(todo), fs[Len(got) + 1])
  BY <1>3, Rest
<1>7. CASE NoLength
  <2>1. rc' = "E2BIG" /\ Left < IntSize
    BY <1>7 DEF NoLength, Read
  <2>2. in.len # Len(bytes)
    BY <1>2, <1>4, <1>5, <2>1 DEF Left
  <2> QED
    BY <2>1, <2>2 DEF Whole
<1>8. CASE \E s \in Texts : v = Field(s, "heap")
  <2>1. PICK s \in Texts : v = Field(s, "heap")
    BY <1>8
  <2>2. e = Wire(Len(s), IntSize) \o s
    BY <1>1, <1>3, <2>1, TextFits
  <2>3. s \in Seq(Bytes) /\ Len(s) \in IntegersOf(IntSize) /\ Len(s) \in Nat
    BY Lengths
  <2>4. /\ TextLength = Len(s) /\ Len(e) = IntSize + Len(s)
        /\ SubSeq(bytes, in.off + IntSize + 1, in.off + IntSize + Len(s)) = s
    BY <1>2, <2>2, <2>3, LengthComes
  <2>5. CASE TooLong
    <3>1. rc' = "E2BIG" /\ Left - IntSize < TextLength
      BY <2>5 DEF TooLong, Read
    <3>2. in.len # Len(bytes)
      BY <1>2, <1>5, <2>3, <2>4, <3>1 DEF Left
    <3> QED
      BY <3>1, <3>2 DEF Whole
  <2>6. CASE ReadText
    <3>1. PICK n \in (-1) .. (Left - IntSize) :
              /\ n = TextLength
              /\ Read("ok", IntSize + n, Field(SubSeq(bytes, in.off + IntSize + 1, in.off + IntSize + n), "heap"), <<>>)
      BY <2>6 DEF ReadText
    <3>2. Read("ok", Len(Encoding(f, v)), v, <<>>)
      BY <1>1, <2>1, <2>4, <3>1
    <3> QED
      BY <1>6, <3>2, ReadRight
  <2>7. ~ReadNegative
    BY <2>3, <2>4 DEF ReadNegative
  <2> QED
    BY <1>7, <2>5, <2>6, <2>7
<1>9. CASE \/ f.type = "buffer" /\ v = Null
           \/ f.type = "ustring" /\ v = NullString
  <2>1. v = IF f.type = "buffer" THEN Null ELSE NullString
    BY <1>9
  <2>2. e = Wire(-1, IntSize)
    BY <1>1, <1>3, <2>1, NullFits
  <2>3. Wire(-1, IntSize) \o <<>> = Wire(-1, IntSize) /\ <<>> \in Seq(Bytes) /\ -1 \in IntegersOf(IntSize)
    <3>1. Wire(-1, IntSize) \in Seq(Bytes) /\ -1 \in IntegersOf(IntSize)
      BY <1>5, Lengths, Sizes, WireFacts
    <3> QED
      BY <3>1, ConcatEmptySeq
  <2>4. TextLength = -1 /\ Len(e) = IntSize
    <3>1. e = Wire(-1, IntSize) \o <<>>
      BY <2>2, <2>3
    <3>2. TextLength = -1 /\ Len(e) = IntSize + Len(<<>>)
      BY <1>2, <2>3, <3>1, LengthComes
    <3> QED
      BY <1>5, <3>2
  <2>5. ~TooLong
    BY <1>5, <2>4 DEF TooLong, Left
  <2>6. ~ReadText
    BY <2>4 DEF ReadText, Copies
  <2>7. CASE ReadNegative
    <3>1. CASE f.type = "ustring"
      <4>1. rc' = "EINVAL"
        BY <2>7, <3>1 DEF ReadNegative, Read
      <4>2. sent[Len(got) + 1] = NullString /\ Len(got) + 1 \in 1 .. Len(sent)
        BY <1>2, <1>5, <1>9, <3>1
      <4> QED
        BY <4>1, <4>2 DEF Whole
    <3>2. CASE f.type = "buffer"
      <4>1. Read("ok", IntSize, Null, <<>>)
        BY <2>4, <2>7, <3>2 DEF ReadNegative
      <4>2. Read("ok", Len(Encoding(f, v)), v, <<>>)
        BY <1>1, <2>1, <2>4, <3>2, <4>1
      <4> QED
        BY <1>6, <4>2, ReadRight
    <3> QED
      BY <1>9, <3>1, <3>2
  <2> QED
    BY <1>7, <2>5, <2>6, <2>7
<1> QED
  BY <1>2, <1>3, <1>8, <1>9 DEF Fitting

\* The same of a vector.
LEMMA VectorOutcome ==
    ASSUME RecordsInv, NEW fs, NEW at, Kept(fs, at), NEW f, f = Head(todo), NEW v, Expected(fs, at, f, v),
           NoCount \/ ReadVector
    PROVE  (rc' = "ok" /\ Kept(fs, at)') \/ (rc' # "ok" /\ ~Whole)
<1>1. PICK e : e = Encoding(f, v)
  OBVIOUS
<1>2. /\ f \in Given /\ Fitting(f, v) /\ in.off + Len(e) <= Len(bytes) /\ StandsNext(e)
  BY <1>1 DEF Expected
<1>3. f.type = "vector" /\ f.type \notin Numbers /\ f.type \notin TextTypes /\ todo # <<>>
  BY DEF NoCount, ReadVector, Reading, Numbers, TextTypes
<1>4. e \in Seq(Bytes) /\ Len(e) >= IntSize
  BY <1>1, <1>2, <1>3, EncodingFacts
<1>5. /\ in.off \in Nat /\ in.len \in Nat /\ Len(e) \in Nat /\ Len(bytes) \in Nat /\ IntSize \in Nat
  BY <1>4, SequencesHere, Sizes
<1>6. CASE NoCount
  <2>1. rc' = "E2BIG" /\ Left < IntSize
    BY <1>6 DEF NoCount, Read
  <2>2. in.len # Len(bytes)
    BY <1>2, <1>4, <1>5, <2>1 DEF Left
  <2> QED
    BY <2>1, <2>2 DEF Whole
<1>7. CASE ReadVector
  <2>1. PICK n \in 0 .. MaxCount : v = Field(<<n>>, "heap")
    BY <1>2, <1>3 DEF Fitting
  <2>2. Encoding(f, v) = Wire(n, IntSize) /\ After(f, v) = Repeat(n, f.of)
    BY <1>3, <2>1, CountFits
  <2>3. n \in IntegersOf(IntSize) /\ Wire(n, IntSize) \in Seq(Bytes) /\ <<>> \in Seq(Bytes)
    BY <1>5, Lengths, Sizes, WireFacts
  <2>4. TextLength = n /\ Len(e) = IntSize
    <3>1. e = Wire(n, IntSize) \o <<>>
      BY <1>1, <2>2, <2>3, ConcatEmptySeq
    <3>2. TextLength = n /\ Len(e) = IntSize + Len(<<>>)
      BY <1>2, <2>3, <3>1, LengthComes
    <3> QED
      BY <1>5, <3>2
  <2>5. Read("ok", IntSize, v, Elements(n))
    <3>1. ~ n < 0
      BY <2>1
    <3> QED
      BY <1>7, <2>1, <2>4, <3>1 DEF ReadVector
  <2>6. PICK s \in Seq(Given) : Stripped(Tail(todo), s) /\ fs[Len(got) + 1] = After(f, v) \o s
    BY DEF Expected
  <2>7. Repeat(n, f.of) \in Seq(Given)
    <3>1. f \in Fields /\ f.of \in Seq(Given) /\ n \in Int
      BY <1>2, <1>3, <2>1, NoMark, VectorOf
    <3> QED
      BY <3>1, Repeated
  <2>8. Tail(todo) \in Seq(Fields)
    BY <1>3, TodoRest DEF RecordsInv
  <2>9. Stripped((Repeat(n, f.of) \o <<endVector>>) \o Tail(todo), Repeat(n, f.of) \o s)
    BY <2>6, <2>7, <2>8, StripElements
  <2>10. Stripped(Elements(n) \o Tail(todo), fs[Len(got) + 1])
    BY <2>2, <2>6, <2>9 DEF Elements
  <2>11. Read("ok", Len(Encoding(f, v)), v, Elements(n))
    BY <1>1, <2>4, <2>5
  <2> QED
    BY <2>10, <2>11, ReadRight
<1> QED
  BY <1>6, <1>7

\* The bytes arrive, and the reader stands at the head of the trail.
LEMMA ArriveFaithful ==
    ASSUME RecordsInv, WrittenSoFar, Arrive
    PROVE  \E fs, at : Reader(fs, at)'
<1>1. /\ phase = "write" /\ todo = <<>> /\ copy = <<>> /\ todo' = record
      /\ UNCHANGED <<record, bytes, rc, sent, got>> /\ in'.off = 0
  BY DEF Arrive
<1>2. rc = "ok" /\ got = <<>> /\ record \in Records
  BY <1>1 DEF RecordsInv, Reported, Typed
<1>3. Written(bytes, record, sent, <<>>)
  <2>1. bytes \o copy = bytes
    <3>1. bytes \in Seq(Bytes)
      BY SequencesHere
    <3> QED
      BY <1>1, <3>1, ConcatEmptySeq
  <2> QED
    BY <1>1, <2>1 DEF WrittenSoFar
<1>4. PICK fs, at : Led(fs, at, Len(sent), bytes, record, sent, <<>>)
  BY <1>3 DEF Written
<1>5. fs[0] = record /\ at[0] = 0 /\ Len(got) = 0 /\ Len(sent) \in Nat
  BY <1>2, <1>4, SequencesHere DEF Led, Trail
<1>6. record \in Seq(Given)
  BY <1>2, GivenLists
<1>7. Kept(fs, at)'
  BY <1>1, <1>2, <1>5, <1>6, StripNone DEF Kept
<1>8. Scalar => record \in Seq(Elementary)
  <2>1. ASSUME Scalar, NEW i \in 1 .. Len(record) PROVE record[i] \in Elementary
    <3>1. record[i] \in Given /\ record[i].type # "vector"
      BY <1>6, <2>1 DEF Scalar
    <3> QED
      BY <3>1 DEF Given, vector
  <2> QED
    BY <1>6, <2>1
<1>9. Reader(fs, at)'
  BY <1>1, <1>2, <1>4, <1>7, <1>8 DEF Reader, Scalar
<1> QED
  BY <1>9

\* Whatever is read, the reader stays on the trail as long as nothing fails; and what fails,
\* outside of vectors, stays failed.
LEMMA ReadingFaithful ==
    ASSUME RecordsInv, NEW fs, NEW at, Reader(fs, at),
           \/ Skip \/ ReadNumber \/ NoLength \/ TooLong
           \/ ReadText \/ ReadNegative \/ NoCount \/ ReadVector
    PROVE  Reader(fs, at)'
<1>1. PICK f : f = Head(todo)
  OBVIOUS
<1>2. PICK code, advance, field, next :
          /\ Read(code, advance, field, next)
          /\ f.type # "vector" => next = <<>>
  <2>1. CASE Skip
    BY <2>1 DEF Skip
  <2>2. CASE ReadNumber
    <3>1. \/ Read("E2BIG", 0, Unset(f), <<>>)
          \/ Read("ok", SizeOf(f), Field(<<Signed(Coming(SizeOf(f)))>>, "none"), <<>>)
      BY <1>1, <2>2 DEF ReadNumber
    <3> QED
      BY <3>1
  <2>3. CASE NoLength
    BY <2>3 DEF NoLength
  <2>4. CASE TooLong
    BY <2>4 DEF TooLong
  <2>5. CASE ReadText
    BY <2>5 DEF ReadText
  <2>6. CASE ReadNegative
    <3>1. \/ Read("EINVAL", IntSize, Unset(f), <<>>)
          \/ Read("ok", IntSize, Null, <<>>)
          \/ Read("ENOMEM", IntSize, Unset(f), <<>>)
      BY <1>1, <2>6 DEF ReadNegative
    <3> QED
      BY <3>1
  <2>7. CASE NoCount
    <3>1. f.type = "vector" /\ \E n \in 0 .. MaxCount : Read("E2BIG", 0, Field(<<n>>, "heap"), Elements(n))
      BY <1>1, <2>7 DEF NoCount, Reading
    <3> QED
      BY <3>1
  <2>8. CASE ReadVector
    <3>1. f.type = "vector"
      BY <1>1, <2>8 DEF ReadVector, Reading
    <3>2. Read("ok", IntSize, Field(<<TextLength>>, IF TextLength < 0 THEN "null" ELSE "heap"), Elements(TextLength))
      BY <2>8 DEF ReadVector
    <3> QED
      BY <3>1, <3>2
  <2> QED
    BY <2>1, <2>2, <2>3, <2>4, <2>5, <2>6, <2>7, <2>8
<1>3. /\ UNCHANGED <<record, bytes, sent>> /\ in'.len = in.len /\ todo' = next \o Tail(todo)
  <2>1. in.off \in Nat /\ in.len \in Nat
    BY SequencesHere
  <2> QED
    BY <1>2, <2>1 DEF Read
<1>4. (Whole' <=> Whole) /\ (Scalar' <=> Scalar)
  BY <1>3 DEF Whole, Scalar
<1>5. Led(fs, at, Len(sent), bytes, record, sent, <<>>)' /\ Led(fs, at, Len(sent), bytes, record, sent, <<>>)
  BY <1>3 DEF Reader
<1>6. todo # <<>> /\ f.type # "endVector"
  BY <1>1 DEF Skip, ReadNumber, NoLength, TooLong, ReadText, ReadNegative, NoCount, ReadVector, Reading
<1>7. Scalar => todo' \in Seq(Elementary)
  <2>1. SUFFICES ASSUME Scalar PROVE todo' \in Seq(Elementary)
    OBVIOUS
  <2>2. todo \in Seq(Elementary)
    BY <2>1 DEF Reader
  <2>3. f \in Elementary /\ Tail(todo) \in Seq(Elementary)
    BY <1>1, <1>6, <2>2
  <2>4. <<>> \o Tail(todo) = Tail(todo)
    BY <2>3, ConcatEmptySeq
  <2> QED
    BY <1>2, <1>3, <2>3, <2>4, NoMark
<1>8. CASE Skip
  <2>1. rc # "ok" /\ rc' = rc
    BY <1>8 DEF Skip, Read
  <2>2. ~Whole
    BY <2>1 DEF Reader
  <2> QED
    BY <1>4, <1>5, <1>7, <2>1, <2>2 DEF Reader
<1>9. CASE ReadNumber \/ NoLength \/ TooLong \/ ReadText \/ ReadNegative \/ NoCount \/ ReadVector
  <2>1. rc = "ok"
    BY <1>9 DEF ReadNumber, NoLength, TooLong, ReadText, ReadNegative, NoCount, ReadVector
  <2>2. CASE Kept(fs, at)
    <3>1. Head(todo) # endVector
      BY <1>1, <1>6 DEF endVector
    <3>2. PICK v : Expected(fs, at, f, v)
      BY <1>1, <1>5, <1>6, <2>2, <3>1, ExpectedNext
    <3>4. (rc' = "ok" /\ Kept(fs, at)') \/ (rc' # "ok" /\ ~Whole)
      <4>1. CASE ReadNumber
        BY <1>1, <2>2, <3>2, <4>1, NumberOutcome
      <4>2. CASE NoLength \/ TooLong \/ ReadText \/ ReadNegative
        BY <1>1, <2>2, <3>2, <4>2, TextOutcome
      <4>3. CASE NoCount \/ ReadVector
        BY <1>1, <2>2, <3>2, <4>3, VectorOutcome
      <4> QED
        BY <1>9, <4>1, <4>2, <4>3
    <3> QED
      BY <1>4, <1>5, <1>7, <3>4 DEF Reader
  <2>3. CASE ~Kept(fs, at)
    <3>1. ~Whole /\ ~Scalar
      BY <2>1, <2>3 DEF Reader
    <3> QED
      BY <1>4, <1>5, <3>1 DEF Reader
  <2> QED
    BY <2>2, <2>3
<1> QED
  BY <1>8, <1>9

\* At the end of a vector the reader forgets what failed, but there was nothing to forget.
LEMMA EndVectorFaithful ==
    ASSUME RecordsInv, NEW fs, NEW at, Reader(fs, at), EndVector
    PROVE  Reader(fs, at)'
<1>1. /\ rc' = "ok" /\ todo' = Tail(todo) /\ UNCHANGED <<record, bytes, in, sent, got>>
      /\ todo # <<>> /\ Head(todo).type = "endVector"
  BY DEF EndVector, Reading
<1>2. Head(todo) = endVector /\ todo \in Seq(Fields)
  BY <1>1, NoMark, TodoRest DEF RecordsInv, Typed
<1>3. ~Scalar
  <2>1. SUFFICES ASSUME todo \in Seq(Elementary) PROVE FALSE
    BY DEF Reader
  <2>2. endVector \in Elementary
    BY <1>1, <1>2, <2>1
  <2> QED
    BY <2>2, NoMark DEF Given
<1>4. Kept(fs, at) => Kept(fs, at)'
  <2>1. SUFFICES ASSUME Kept(fs, at) PROVE Kept(fs, at)'
    OBVIOUS
  <2>2. PICK k \in Nat, n \in Nat : k = Len(got) /\ n = Len(sent) /\ k <= n
    BY <2>1, SequencesHere DEF Kept
  <2>3. PICK s \in Seq(Given) : s = fs[k]
    BY <2>2 DEF Reader, Led, Trail
  <2>4. Stripped(todo, s)
    BY <2>1, <2>2, <2>3 DEF Kept
  <2>5. Stripped(Tail(todo), s)
    BY <1>1, <1>2, <2>4, StripHead
  <2> QED
    BY <1>1, <2>1, <2>2, <2>3, <2>5 DEF Kept
<1> QED
  BY <1>1, <1>3, <1>4 DEF Reader, Whole, Scalar

\* At first there is no reader.
LEMMA InitFaithful == Init => Faithful
BY InitTyped, InitWritten DEF Faithful, Init

\* Every step keeps the reader on the trail of the writer.
LEMMA NextFaithful == Faithful /\ [Next]_vars => Faithful'
<1> SUFFICES ASSUME Faithful, [Next]_vars PROVE Faithful'
  OBVIOUS
<1>1. RecordsInv /\ WrittenSoFar /\ RecordsInv'
  BY NextTyped DEF Faithful
<1>2. CASE WriteNumber \/ WriteText \/ Copy \/ WriteNull \/ WriteVector
  <2>1. WrittenSoFar'
    BY <1>1, <1>2, WritingWritten
  <2>2. phase = "write"
    <3>1. copy # <<>> => phase = "write"
      BY <1>1 DEF WrittenSoFar, RecordsInv, Typed
    <3> QED
      BY <1>2, <3>1 DEF WriteNumber, WriteText, Copy, WriteNull, WriteVector, Writing
  <2>3. phase' = phase
    BY <1>2 DEF WriteNumber, WriteText, Copy, WriteNull, WriteVector, Put
  <2> QED
    BY <1>1, <2>1, <2>2, <2>3 DEF Faithful
<1>3. CASE Arrive
  <2>1. phase' = "read" /\ copy' = <<>>
    BY <1>3 DEF Arrive
  <2>2. \E fs, at : Reader(fs, at)'
    BY <1>1, <1>3, ArriveFaithful
  <2> QED
    BY <1>1, <2>1, <2>2 DEF Faithful, WrittenSoFar
<1>4. CASE \/ Skip \/ ReadNumber \/ NoLength \/ TooLong
           \/ ReadText \/ ReadNegative \/ NoCount \/ ReadVector \/ EndVector
  <2>1. phase = "read"
    BY <1>4 DEF Skip, ReadNumber, NoLength, TooLong, ReadText, ReadNegative, NoCount, ReadVector,
                EndVector, Reading
  <2>2. phase' = phase /\ copy' = copy
    BY <1>4 DEF Skip, ReadNumber, NoLength, TooLong, ReadText, ReadNegative, NoCount, ReadVector,
                EndVector, Read
  <2>3. PICK fs, at : Reader(fs, at)
    BY <2>1 DEF Faithful
  <2>4. Reader(fs, at)'
    BY <1>1, <1>4, <2>3, ReadingFaithful, EndVectorFaithful
  <2> QED
    BY <1>1, <2>1, <2>2, <2>4 DEF Faithful, WrittenSoFar
<1>5. CASE UNCHANGED vars
  <2>1. WrittenSoFar'
    BY <1>1, <1>5 DEF vars, WrittenSoFar
  <2>2. ASSUME NEW fs, NEW at, Reader(fs, at) PROVE Reader(fs, at)'
    BY <1>5, <2>2 DEF vars, Reader, Kept, Whole, Scalar
  <2> QED
    BY <1>1, <1>5, <2>1, <2>2 DEF Faithful, vars
<1> QED
  BY <1>2, <1>3, <1>4, <1>5 DEF Next

\* At the end everything sent is read.
LEMMA AllKept ==
    ASSUME RecordsInv, NEW fs, NEW at, Led(fs, at, Len(sent), bytes, record, sent, <<>>), Kept(fs, at),
           todo = <<>>
    PROVE  got = sent /\ in.off = Len(bytes)
<1>1. PICK n \in Nat, k \in Nat : n = Len(sent) /\ k = Len(got) /\ k <= n
  BY SequencesHere DEF Kept
<1>2. /\ fs \in [0 .. n -> Seq(Given)] /\ at \in [0 .. n -> Nat] /\ at[n] = Len(bytes)
      /\ \A i \in 1 .. n : Follows(fs[i - 1], fs[i], at[i - 1], at[i], bytes, sent[i])
  BY <1>1 DEF Led, Trail
<1>3. PICK s \in Seq(Given) : s = fs[k]
  BY <1>1, <1>2
<1>4. s = <<>>
  <2>1. Stripped(<<>>, s)
    BY <1>1, <1>3 DEF Kept
  <2> QED
    BY <2>1, StripEnd
<1>5. k = n
  <2>1. SUFFICES ASSUME k < n PROVE FALSE
    BY <1>1
  <2>2. k + 1 \in 1 .. n /\ (k + 1) - 1 = k
    BY <1>1, <2>1
  <2>3. Follows(fs[(k + 1) - 1], fs[k + 1], at[(k + 1) - 1], at[k + 1], bytes, sent[k + 1])
    BY <1>2, <2>2
  <2> QED
    BY <1>3, <1>4, <2>2, <2>3 DEF Follows
<1>6. got = sent
  <2>1. PICK V : got \in Seq(V)
    BY SequencesHere
  <2>2. PICK W : sent \in Seq(W)
    BY SequencesHere
  <2>3. \A i \in 1 .. Len(got) : got[i] = sent[i]
    BY DEF Kept
  <2>4. PICK a \in Seq(V \cup W), b \in Seq(V \cup W) : a = got /\ b = sent
    BY <2>1, <2>2
  <2>5. Len(a) = Len(b) /\ \A i \in 1 .. Len(a) : a[i] = b[i]
    BY <1>1, <1>5, <2>3, <2>4
  <2>6. a = b
    BY <2>5, SeqEqual
  <2> QED
    BY <2>4, <2>6
<1>7. in.off = at[k]
  BY <1>1 DEF Kept
<1> QED
  BY <1>2, <1>5, <1>6, <1>7

\* What arrives whole, no string of it null, is read back field by field as it was written,
\* to the last byte, whatever the record, the texts and the sizes (zookeeper.jute.c and
\* recordio.c).
THEOREM ReadAsWritten == Spec => []RoundTrip
<1>1. Faithful => RoundTrip
  <2> SUFFICES ASSUME Faithful, Done, in.len = Len(bytes), NullString \notin ToSet(sent)
               PROVE  rc = "ok" /\ got = sent /\ in.off = in.len
    BY DEF RoundTrip
  <2>1. RecordsInv /\ phase = "read" /\ todo = <<>>
    BY DEF Faithful, Done
  <2>2. PICK fs, at : Reader(fs, at)
    BY <2>1 DEF Faithful
  <2>3. Whole
    BY DEF Whole, ToSet
  <2> QED
    BY <2>1, <2>2, <2>3, AllKept DEF Reader
<1> QED
  BY InitFaithful, NextFaithful, <1>1, PTL DEF Spec

\* A record without a vector whose reading reports success is the record that was written,
\* wherever the input was cut: the client's headers, connect response and statistics.
THEOREM NothingLost == Spec => []NoSilentLoss
<1>1. Faithful => NoSilentLoss
  <2> SUFFICES ASSUME Faithful, Done, rc = "ok", \A i \in DOMAIN record : record[i].type # "vector"
               PROVE  got = sent
    BY DEF NoSilentLoss
  <2>1. RecordsInv /\ phase = "read" /\ todo = <<>>
    BY DEF Faithful, Done
  <2>2. PICK fs, at : Reader(fs, at)
    BY <2>1 DEF Faithful
  <2>3. Scalar
    <3>1. record \in Seq(Given)
      BY <2>1, GivenLists DEF RecordsInv, Typed
    <3> QED
      BY <3>1 DEF Scalar
  <2> QED
    BY <2>1, <2>2, <2>3, AllKept DEF Reader
<1> QED
  BY InitFaithful, NextFaithful, <1>1, PTL DEF Spec
=============================================================================
