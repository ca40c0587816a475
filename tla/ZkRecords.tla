----------------------------- MODULE ZkRecords -----------------------------
(***************************************************************************)
(* Record serialisation: recordio.c, the archives that write and read the  *)
(* five jute types, and zookeeper.jute.c, the records of the protocol.     *)
(*                                                                         *)
(* One behaviour is one record: its fields are written one by one into a   *)
(* growing archive, the bytes arrive whole or cut short, and the same      *)
(* fields are read back out of them.  A record is the list of its fields;  *)
(* the generated serialize_X and deserialize_X walk the same list, and so  *)
(* does deallocate_X to free what its fields point to.                     *)
(*                                                                         *)
(* A byte is a digit in base Base; an int has IntSize and a long LongSize  *)
(* of them (256, 4 and 8 in the code).                                     *)
(***************************************************************************)
EXTENDS ZkJute, Integers, SequencesExt

CONSTANTS
    Base, IntSize, LongSize,
    Alloc,          \* what create_buffer_oarchive() allocates, 128 in the code
    MaxDoublings,   \* bound on the doublings of one resize_buffer()
    Texts,          \* the contents of strings and buffers
    MaxCount        \* the longest vector

ASSUME SizesAssumption == /\ Base \in Nat \ 0..3 /\ Base % 2 = 0
                          /\ IntSize \in Nat \ {0} /\ LongSize \in Nat \ {0} /\ IntSize <= LongSize
                          /\ Alloc \in Nat \ {0} /\ MaxDoublings \in Nat
ASSUME TextsAssumption == Texts \subseteq Seq(0..(Base - 1)) /\ MaxCount \in Nat

(* The values of n bytes; a length and a count are positive in an int. *)
Power[n \in Nat] == IF n = 0 THEN 1 ELSE Base * Power[n - 1]
ASSUME LengthsAssumption == /\ \A s \in Texts : 2 * Len(s) < Power[IntSize]
                            /\ 2 * MaxCount < Power[IntSize]

(* ------------------------------ the state ------------------------------ *)

VARIABLES
    record,     \* the record on its way
    phase,      \* "write", then "read"
    todo,       \* the fields still to write or to read
    out,        \* the output archive: what is allocated and how much is used
    bytes,      \* what its buffer holds, then what arrived
    copy,       \* the bytes of the string or buffer whose length is written
    in,         \* the input archive: the bytes it has and how many are read
    rc,         \* what the reading function is about to return
    sent, got   \* the fields written and the fields read

vars == <<record, phase, todo, out, bytes, copy, in, rc, sent, got>>

(* A field's value, and where its pointer points: "none" for a number,
   "null", "heap", or "wild" for one nobody has set. *)
Field(val, ptr) == [val |-> val, ptr |-> ptr]
Null == Field(<<>>, "null")
NullString == Field(<<-1>>, "null")     \* which no reader accepts

Init ==
    /\ record \in Records /\ todo = record /\ phase = "write"
    /\ out = [len |-> Alloc, off |-> 0] /\ in = [len |-> 0, off |-> 0]
    /\ bytes = <<>> /\ copy = <<>> /\ sent = <<>> /\ got = <<>> /\ rc = "ok"

(* ------------------------------ conversions ---------------------------- *)

(* A number as the bytes of the wire, most significant first: the memory of
   a little-endian machine, which htonl() and zoo_htonll() turn round. *)
InMemory(v, size) == [i \in 1..size |-> ((v + Power[size]) \div Power[i - 1]) % Base]
zoo_htonll(s) == [i \in 1..Len(s) |-> s[Len(s) + 1 - i]]
Unsigned(s) ==
    LET upto[i \in 0..Len(s)] == IF i = 0 THEN 0 ELSE upto[i - 1] * Base + s[i]
    IN  upto[Len(s)]
Signed(s) == IF 2 * Unsigned(s) >= Power[Len(s)] THEN Unsigned(s) - Power[Len(s)] ELSE Unsigned(s)

SizeOf(f) == CASE f.type = "int" -> IntSize [] f.type = "long" -> LongSize [] OTHER -> 1

(* The numbers written: one for each place in the record, of either sign. *)
Number(f) ==
    IF f.type = "bool" THEN Len(sent) % 2
    ELSE ((7 * Len(sent) + 3) % Power[SizeOf(f)]) - (Power[SizeOf(f)] \div 2)

(* ------------------------------- writing ------------------------------- *)

FitsAlmost(free, size) == free + 1 >= size      \* (faulty: an off-by-one)
Fits(free, size) == free >= size

(* Copy s behind what is written.  Without room, resize_buffer() doubles the
   allocation until it is size larger. *)
Put(s) ==
    /\ \E size \in out.len..2 * (out.len + Len(s)) :
        /\ \E k \in 0..MaxDoublings : size = out.len * 2^k
        /\ IF Fits(out.len - out.off, Len(s)) THEN size = out.len
           ELSE size >= out.len + Len(s) /\ size < 2 * (out.len + Len(s))
        /\ out' = [len |-> size, off |-> out.off + Len(s)]
    /\ bytes' = bytes \o s
    /\ UNCHANGED <<record, phase, in, rc, got>>

Writing(types) == phase = "write" /\ copy = <<>> /\ todo # <<>> /\ Head(todo).type \in types

WriteNumber ==
    /\ Writing({"int", "long", "bool"})
    /\ LET v == Number(Head(todo)) IN
        /\ Put(zoo_htonll(InMemory(v, SizeOf(Head(todo)))))
        /\ sent' = Append(sent, Field(<<v>>, "none"))
    /\ todo' = Tail(todo) /\ UNCHANGED copy

WriteText ==
    /\ Writing({"ustring", "buffer"})
    /\ \E s \in Texts :
        /\ Put(zoo_htonll(InMemory(Len(s), IntSize)))
        /\ copy' = s
        /\ sent' = Append(sent, Field(s, "heap"))
    /\ todo' = Tail(todo)

Copy == copy # <<>> /\ Put(copy) /\ copy' = <<>> /\ UNCHANGED <<todo, sent>>

(* A null string or buffer has length -1 and no bytes. *)
WriteNull ==
    /\ Writing({"ustring", "buffer"})
    /\ Put(zoo_htonll(InMemory(-1, IntSize)))
    /\ sent' = Append(sent, IF Head(todo).type = "buffer" THEN Null ELSE NullString)
    /\ todo' = Tail(todo) /\ UNCHANGED copy

Repeat(n, s) == FlattenSeq([i \in 1..n |-> s])

WriteVector ==
    /\ Writing({"vector"})
    /\ \E n \in 0..MaxCount :
        /\ Put(zoo_htonll(InMemory(n, IntSize)))
        /\ todo' = Repeat(n, Head(todo).of) \o Tail(todo)
        /\ sent' = Append(sent, Field(<<n>>, "heap"))
    /\ UNCHANGED copy

(* The whole record is written and some of its bytes arrive. *)
Arrive ==
    /\ phase = "write" /\ todo = <<>> /\ copy = <<>>
    /\ \E n \in 0..out.off : in' = [len |-> n, off |-> 0]
    /\ phase' = "read" /\ todo' = record
    /\ UNCHANGED <<record, out, bytes, copy, rc, sent, got>>

(* ------------------------------- reading ------------------------------- *)

Left == in.len - in.off
Coming(n) == SubSeq(bytes, in.off + 1, in.off + n)

(* The end of a vector stands in todo behind its elements. *)
endVector == [type |-> "endVector"]
InVector == \E i \in 1..Len(todo) : todo[i] = endVector

UnsetInVector(f) ==     \* (faulty: the elements of a vector come from malloc())
    IF f.type \in {"int", "long", "bool"} THEN Field(<<>>, "none") ELSE Field(<<>>, "wild")

(* What a pointer that is not set points to: the records are uninitialised
   memory, the elements of a vector come from calloc(). *)
Unset(f) ==
    IF f.type \in {"int", "long", "bool"} THEN Field(<<>>, "none")
    ELSE IF InVector THEN Null ELSE Field(<<>>, "wild")

Reading(types) == phase = "read" /\ todo # <<>> /\ Head(todo).type \in types

Read(code, advance, field, next) ==
    /\ rc' = code
    /\ in' = [in EXCEPT !.off = in.off + advance]
    /\ got' = Append(got, field)
    /\ todo' = next \o Tail(todo)
    /\ UNCHANGED <<record, phase, out, bytes, copy, sent>>

(* rc = rc ? rc : ...: behind a failure nothing more is read. *)
Skip ==
    /\ Reading({"int", "long", "bool", "ustring", "buffer", "vector"}) /\ rc # "ok"
    /\ Read(rc, 0, Unset(Head(todo)), <<>>)

ReadNumber ==
    /\ Reading({"int", "long", "bool"}) /\ rc = "ok"
    /\ LET f == Head(todo) IN
        \/ Left < SizeOf(f) /\ Read("E2BIG", 0, Unset(f), <<>>)
        \/ Left >= SizeOf(f) /\ Read("ok", SizeOf(f), Field(<<Signed(Coming(SizeOf(f)))>>, "none"), <<>>)

(* The length first; then as many bytes, if they are there. *)
TextLength == Signed(Coming(IntSize))

NoLength ==
    /\ Reading({"ustring", "buffer"}) /\ rc = "ok" /\ Left < IntSize
    /\ Read("E2BIG", 0, Unset(Head(todo)), <<>>)

TooLong ==
    /\ Reading({"ustring", "buffer"}) /\ rc = "ok" /\ Left >= IntSize
    /\ Left - IntSize < TextLength
    /\ Read("E2BIG", IntSize, Unset(Head(todo)), <<>>)

CopiesAlways(f, n) == f.type = "buffer" => n >= 0     \* (faulty: no test for a null string)
Copies(f, n) == n >= 0

ReadText ==
    /\ Reading({"ustring", "buffer"}) /\ rc = "ok" /\ Left >= IntSize
    /\ \E n \in (-1)..(Left - IntSize) :
        /\ n = TextLength /\ Copies(Head(todo), n)
        /\ Read("ok", IntSize + n, Field(SubSeq(bytes, in.off + IntSize + 1, in.off + IntSize + n), "heap"),
                <<>>)

ReadNegative ==
    /\ Reading({"ustring", "buffer"}) /\ rc = "ok" /\ Left >= IntSize
    /\ TextLength < 0 /\ ~Copies(Head(todo), TextLength)
    /\ LET f == Head(todo) IN
        \/ f.type = "ustring" /\ Read("EINVAL", IntSize, Unset(f), <<>>)
        \/ f.type = "buffer" /\ TextLength = -1 /\ Read("ok", IntSize, Null, <<>>)
        \/ f.type = "buffer" /\ TextLength < -1 /\ Read("ENOMEM", IntSize, Unset(f), <<>>)

(* A vector whose count cannot be read has whatever count was in memory; a
   negative count leaves nothing allocated. *)
ElementsAndOne(n) == Repeat(n + 1, Head(todo).of) \o <<endVector>>    \* (faulty: i <= v->count)
Elements(n) == Repeat(n, Head(todo).of) \o <<endVector>>

NoCount ==
    /\ Reading({"vector"}) /\ rc = "ok" /\ Left < IntSize
    /\ \E n \in 0..MaxCount : Read("E2BIG", 0, Field(<<n>>, "heap"), Elements(n))

ReadVector ==
    /\ Reading({"vector"}) /\ rc = "ok" /\ Left >= IntSize
    /\ Read("ok", IntSize, Field(<<TextLength>>, IF TextLength < 0 THEN "null" ELSE "heap"),
            Elements(TextLength))

(* rc = in->end_vector(): the failure of an element is forgotten. *)
EndVector ==
    /\ Reading({"endVector"})
    /\ rc' = "ok" /\ todo' = Tail(todo)
    /\ UNCHANGED <<record, phase, out, bytes, copy, in, sent, got>>

Done == phase = "read" /\ todo = <<>>

Next ==
    \/ WriteNumber \/ WriteText \/ Copy \/ WriteNull \/ WriteVector \/ Arrive
    \/ Skip \/ ReadNumber \/ NoLength \/ TooLong \/ ReadText \/ ReadNegative \/ NoCount \/ ReadVector \/ EndVector
    \/ Done /\ UNCHANGED vars

Spec == Init /\ [][Next]_vars

(* ------------------------------ properties ----------------------------- *)

(* Every number, offset and return code stays in its range, and the archive
   has used as much of its buffer as it has written. *)
TypeOK ==
    /\ phase \in {"write", "read"} /\ rc \in {"ok", "E2BIG", "EINVAL", "ENOMEM"}
    /\ out.off = Len(bytes) /\ bytes \in Seq(0..(Base - 1))
    /\ \A f \in ToSet(sent) \cup ToSet(got) :
        /\ f.ptr \in {"none", "null", "heap", "wild"}
        /\ f.ptr = "none" /\ f.val # <<>> =>
            f.val[1] \in -(Power[LongSize] \div 2)..(Power[LongSize] \div 2 - 1)

(* No byte is written behind what is allocated and none is read behind what
   arrived, however the archive grows and wherever the input is cut:
   resize_buffer() and the tests of recordio.c that answer E2BIG. *)
WithinBounds == out.off <= out.len /\ in.off <= in.len

(* What arrives whole is read back as it was written, to the last byte, unless
   a string of it is null. *)
RoundTrip ==
    Done /\ in.len = Len(bytes) /\ NullString \notin ToSet(sent) =>
        rc = "ok" /\ got = sent /\ in.off = in.len

(* A record without a vector that is read with success is the record that was
   written: a cut input and a null string are both reported.  The client reads
   its headers, its connect response and the statistics this way. *)
NoSilentLoss ==
    Done /\ rc = "ok" /\ (\A i \in DOMAIN record : record[i].type # "vector") => got = sent

(* Whatever a read that reports success leaves can be deallocated: each pointer
   is null or its own, even where a vector has hidden a failure. *)
Frees(f) == f.ptr \notin {"none", "null"}
SafeToFree == Done /\ rc = "ok" => \A i \in DOMAIN got : Frees(got[i]) => got[i].ptr = "heap"
=============================================================================
