------------------------------ MODULE ZkSocket ------------------------------
(***************************************************************************)
(* The socket of a handle, byte by byte and in time: packets are sent and  *)
(* received in pieces (send_buffer, recv_buffer), and zookeeper_interest() *)
(* decides from the age of the last packet sent and received when to ping, *)
(* when to give the server up and how long select() may sleep.             *)
(*                                                                         *)
(* ZkHandle has what the packets mean.  Here they have a kind, a header of *)
(* Header bytes and a body; time passes in ticks, Third of which are a     *)
(* third of recv_timeout.  The network and the server are external.        *)
(***************************************************************************)
EXTENDS Integers, Sequences, SequencesExt, FiniteSetsExt

CONSTANTS
    Third,     \* recv_timeout / 3, in ticks
    Late,      \* ticks the application may come late to zookeeper_interest()
    MaxOut,    \* bound: requests under way
    MaxAuth,   \* bound: credentials
    MaxPings   \* bound: pings under way

SocketAssumption == /\ Third \in Nat \ {0} /\ Late \in Nat
                    /\ MaxOut \in Nat /\ MaxAuth \in Nat /\ MaxPings \in Nat \ {0}
ASSUME SocketAssumption

Header == 2
Body   == [primer |-> 1, reply |-> 2, auth |-> 1, ping |-> 1]   \* of what the server sends
PacketSize == Header + 1                                          \* of what the client sends
RequestKinds == {"request", "auth", "ping"}
AnswerTo == [request |-> "reply", auth |-> "auth", ping |-> "ping"]

VARIABLES
    state,       \* zh->state
    toSend,      \* zh->to_send: kind and curr_offset
    input,       \* zh->input_buffer: curr_offset and len; see NoBuffer
    outstanding, \* length of zh->sent_requests
    auths,       \* length of the auth list
    partial,     \* bytes of an incomplete packet that the server holds
    torn,        \* history: the server got a byte that does not continue it
    cut,         \* history: a packet was put before one that is partly sent
    inbound,     \* the answers the server owes or has sent
    pos,         \* bytes of the first one that have been read
    broken,      \* the server has closed the connection
    phase,       \* the application: "app", or "poll" inside select()
    left,        \* what is left of the timeout of select()
    late,        \* ticks since it should have called zookeeper_interest()
    idleRecv,    \* age of zh->last_recv
    idleSend,    \* age of zh->last_send
    waiting      \* history: how long the server has been silent while owing an answer

client  == <<state, toSend, input, outstanding, auths>>
network == <<partial, torn, cut, inbound, pos, broken>>
clock   == <<phase, left, late, idleRecv, idleSend, waiting>>
vars    == <<client, network, clock>>

-----------------------------------------------------------------------------
Packet(kind) == [kind |-> kind, off |-> 0]
Buffer(off, len) == [off |-> off, len |-> len]
NoBuffer == Buffer(0, 0)
\* The primer has no header of its own: its first bytes are the length.
Primer   == Buffer(Header, Header + Body.primer)
Size(kind) == Header + Body[kind]

Init == /\ state = "ZERO" /\ toSend = <<>> /\ input = NoBuffer /\ outstanding = 0 /\ auths = 0
        /\ partial = 0 /\ torn = FALSE /\ cut = FALSE
        /\ inbound = <<>> /\ pos = 0 /\ broken = FALSE
        /\ phase = "app" /\ left = 0 /\ late = 0
        /\ idleRecv = 0 /\ idleSend = 0 /\ waiting = 0

Unanswered == state \in {"CONNECTING", "ASSOCIATING"} \/ toSend # <<>> \/ torn \/ inbound # <<>>

-----------------------------------------------------------------------------
(* Sending                                                                 *)

\* (faulty: curr_offset is not updated)
RestFromStart(q, k, m) == SubSeq(q, k + 1, Len(q))

\* What is left of the queue q when k packets and m bytes of the next have
\* been taken.
Rest(q, k, m) == LET s == SubSeq(q, k + 1, Len(q))
                 IN  IF s = <<>> THEN s ELSE [s EXCEPT ![1].off = m]

Started(q) == IF q = <<>> THEN 0 ELSE q[1].off   \* bytes of the head already sent

\* n bytes of the stream of answers are read.
Consume(n, answers) ==
    IF n = 0 \/ pos + n < Size(answers[1]) THEN pos' = pos + n /\ inbound' = answers
    ELSE inbound' = Tail(answers) /\ pos' = pos + n - Size(answers[1])

\* flush_send_queue(zh, 0): the socket takes what it likes.  last_send is set
\* only when a packet is complete.  In the same step n bytes are read.
FlushSendQueue(q, n) ==
    \E k \in 0 .. Len(q), m \in 0 .. PacketSize - 1 :
        LET sent == k > 0 \/ m > Started(q)
        IN  /\ k = 0 => m >= Started(q)
            /\ k = Len(q) => m = 0
            /\ state # "CONNECTED" => ~sent
            /\ toSend' = Rest(q, k, m)
            /\ idleSend' = IF k > 0 THEN 0 ELSE idleSend
            /\ torn' = (torn \/ (sent /\ Started(q) # partial))
            /\ partial' = IF sent THEN m ELSE partial
            /\ Consume(n, IF torn' THEN inbound
                          ELSE inbound \o [i \in 1 .. k |-> AnswerTo[q[i].kind]])

\* zoo_aget() and the others: adaptor_send_queue(zh, 0) at once.
Submit ==
    /\ phase = "app" /\ outstanding < MaxOut
    /\ outstanding' = outstanding + 1
    /\ FlushSendQueue(Append(toSend, Packet("request")), 0)
    /\ UNCHANGED <<state, input, auths, cut, broken, phase, left, late, idleRecv, waiting>>

\* zoo_add_auth(): send_last_auth_info() puts the packet at the head of to_send
\* and leaves it there.
AddAuth ==
    /\ phase = "app" /\ auths < MaxAuth
    /\ auths' = auths + 1
    /\ toSend' = IF state \in {"CONNECTED", "ASSOCIATING"} THEN <<Packet("auth")>> \o toSend
                                                           ELSE toSend
    /\ cut' = (cut \/ (toSend' # toSend /\ Started(toSend) > 0))
    /\ UNCHANGED <<state, input, outstanding, partial, torn, inbound, pos,
                   broken, clock>>

-----------------------------------------------------------------------------
(* zookeeper_interest()                                                    *)

RecvTo == 2 * Third - idleRecv
\* (faulty: half of the time to receive)
SendToLate == 2 * Third - idleSend

SendTo == Third - idleSend
\* (faulty: a ping when the time to receive is up)
PingDueLate == state = "CONNECTED" /\ RecvTo <= 0 /\ outstanding = 0

PingDue == state = "CONNECTED" /\ SendTo <= 0 /\ outstanding = 0
\* send_to once a ping has been sent or a request is under way
NextSend == IF state = "CONNECTED" /\ SendTo > 0 THEN SendTo ELSE Third

\* prime_connection() writes the handshake to the new socket.
Primed == state' = "ASSOCIATING" /\ input' = Primer /\ inbound' = <<"primer">>

InterestConnects ==
    /\ phase = "app" /\ state = "ZERO"
    /\ \/ state' = "CONNECTING" /\ UNCHANGED <<input, inbound>>
       \/ Primed
    /\ phase' = "poll" /\ left' = Third /\ late' = 0 /\ idleRecv' = 0 /\ idleSend' = 0
    /\ UNCHANGED <<toSend, outstanding, auths, partial, torn, cut, pos, broken, waiting>>

\* handle_error(): cleanup_bufs() forgets everything but the credentials.
Lost == /\ state' = "ZERO" /\ toSend' = <<>> /\ input' = NoBuffer /\ outstanding' = 0
        /\ partial' = 0 /\ torn' = FALSE /\ cut' = FALSE
        /\ inbound' = <<>> /\ pos' = 0 /\ broken' = FALSE
        /\ phase' = "app" /\ left' = 0 /\ late' = 0
        /\ idleRecv' = 0 /\ idleSend' = 0 /\ waiting' = 0
        /\ UNCHANGED auths

InterestTimesOut == phase = "app" /\ state # "ZERO" /\ RecvTo <= 0 /\ Lost

\* (faulty: the greater value as the timeout)
SleepLonger == phase' = "poll" /\ late' = 0 /\ left' = Max({RecvTo, NextSend})

\* Sleep until the next deadline.
Sleep == phase' = "poll" /\ late' = 0 /\ left' = Min({RecvTo, NextSend})

Interest ==
    /\ phase = "app" /\ state # "ZERO" /\ RecvTo > 0 /\ ~PingDue
    /\ Sleep
    /\ UNCHANGED <<state, toSend, input, outstanding, auths, network, idleRecv, idleSend, waiting>>

Pings == Len(SelectSeq(toSend, LAMBDA p : p.kind = "ping"))
         + Len(SelectSeq(inbound, LAMBDA k : k = "ping"))

InterestPings ==
    /\ phase = "app" /\ RecvTo > 0 /\ PingDue /\ Pings < MaxPings
    /\ FlushSendQueue(Append(toSend, Packet("ping")), 0)
    /\ Sleep
    /\ UNCHANGED <<state, input, outstanding, auths, cut, broken, idleRecv, waiting>>

\* send_ping() fails: an error, but no handle_error().
InterestPingFails ==
    /\ phase = "app" /\ RecvTo > 0 /\ PingDue /\ Pings < MaxPings /\ broken
    /\ toSend' = Append(toSend, Packet("ping"))
    /\ UNCHANGED <<state, input, outstanding, auths, network, clock>>

-----------------------------------------------------------------------------
(* zookeeper_process(): check_events()                                     *)

\* The non-blocking connect has ended; prime_connection().
ProcessConnected ==
    /\ phase = "poll" /\ state = "CONNECTING"
    /\ Primed
    /\ phase' = "app" /\ left' = 0
    /\ UNCHANGED <<toSend, outstanding, auths, partial, torn, cut, pos, broken,
                   late, idleRecv, idleSend, waiting>>

\* handle_error(): a refused connect, a failed send, or a recv() that finds the
\* end of the stream.
ProcessFails ==
    /\ phase = "poll" /\ state # "ZERO"
    /\ broken \/ state = "CONNECTING"
    /\ Lost

Remaining == FoldSeq(LAMBDA k, n : n + Size(k), 0 - pos, inbound)

\* recv_buffer(): the header first, then as much of the body as there is, in
\* one call.  Received(h, b) is the buffer after h and b bytes of them.
Received(h, b) ==
    LET len == IF h > 0 /\ input.off + h = Header THEN Body[inbound[1]] ELSE input.len
    IN  Buffer(input.off + h + b, len)
\* (faulty: len is not looked at)
ReadsPast(h, b) ==
    /\ h + b \in 1 .. Remaining
    /\ IF input.off < Header THEN h \in 1 .. Header - input.off ELSE h = 0
    /\ input.off + h < Header => b = 0

Reads(h, b) ==
    LET r == Received(h, b)
    IN  /\ h + b \in 1 .. Remaining
        /\ IF input.off < Header THEN h \in 1 .. Header - input.off ELSE h = 0
        /\ input.off + h < Header => b = 0
        /\ b > 0 => r.off <= Header + r.len
Complete(r) == r.off >= Header /\ r.off = Header + r.len

\* (faulty: zh->input_buffer = 0, as after a packet that is complete)
KeptNothing(r) == NoBuffer

\* What is kept of a packet that is not complete.
Kept(r) == r

\* A part of a packet: ZNOTHING, last_recv is not touched.
ProcessPart ==
    /\ phase = "poll" /\ state \in {"ASSOCIATING", "CONNECTED"}
    /\ \E h \in 0 .. Header, b \in 0 .. Header :
           /\ Reads(h, b) /\ ~Complete(Received(h, b))
           /\ input' = Kept(Received(h, b))
           /\ FlushSendQueue(toSend, h + b)
    /\ phase' = "app" /\ left' = 0
    /\ UNCHANGED <<state, outstanding, auths, cut, broken, late, idleRecv, waiting>>

\* A reply, or the answer to a ping or a credential.
ProcessPacket ==
    /\ phase = "poll" /\ state = "CONNECTED"
    /\ \E h \in 0 .. Header, b \in 0 .. Header :
           /\ Reads(h, b) /\ Complete(Received(h, b))
           /\ FlushSendQueue(toSend, h + b)
    /\ outstanding' = IF inbound[1] = "reply" THEN outstanding - 1 ELSE outstanding
    /\ input' = NoBuffer /\ idleRecv' = 0 /\ waiting' = 0
    /\ phase' = "app" /\ left' = 0
    /\ UNCHANGED <<state, auths, cut, broken, late>>

\* The handshake is answered: send_auth_info() puts the credentials in front.
ProcessPrimer ==
    /\ phase = "poll" /\ state = "ASSOCIATING"
    /\ \E b \in 1 .. Header + Body.primer :
           Reads(0, b) /\ Complete(Received(0, b)) /\ Consume(b, inbound)
    /\ state' = "CONNECTED"
    /\ toSend' = [i \in 1 .. auths |-> Packet("auth")] \o toSend
    /\ input' = NoBuffer /\ idleRecv' = 0 /\ waiting' = 0
    /\ phase' = "app" /\ left' = 0
    /\ UNCHANGED <<outstanding, auths, partial, torn, cut, broken, late, idleSend>>

\* Nothing to read: to_send is writable, or select() has timed out.
ProcessNothing ==
    /\ phase = "poll" /\ state \in {"ASSOCIATING", "CONNECTED"}
    /\ (toSend # <<>> /\ state = "CONNECTED") \/ left = 0
    /\ FlushSendQueue(toSend, 0)
    /\ phase' = "app" /\ left' = 0
    /\ UNCHANGED <<state, input, outstanding, auths, cut, broken, late, idleRecv, waiting>>

-----------------------------------------------------------------------------
(* The server and the clock                                                *)

ServerCloses ==
    /\ state \in {"ASSOCIATING", "CONNECTED"} /\ ~broken
    /\ broken' = TRUE
    /\ UNCHANGED <<client, partial, torn, cut, inbound, pos, clock>>

\* select() sleeps, or the application is late.  The ages that are compared with
\* Third need not grow beyond it.
Tick ==
    /\ state # "ZERO"
    /\ \/ phase = "poll" /\ left > 0 /\ left' = left - 1 /\ UNCHANGED late
       \/ /\ phase = "poll" => left = 0
          /\ late < Late /\ late' = late + 1 /\ UNCHANGED left
    /\ idleRecv' = idleRecv + 1
    /\ idleSend' = Min({idleSend + 1, Third + Late + 1})
    /\ waiting' = IF Unanswered THEN Min({waiting + 1, Third}) ELSE 0
    /\ UNCHANGED <<client, network, phase>>

Next == \/ Submit \/ AddAuth
        \/ InterestConnects \/ InterestTimesOut \/ Interest \/ InterestPings \/ InterestPingFails
        \/ ProcessConnected \/ ProcessFails \/ ProcessPart \/ ProcessPacket \/ ProcessPrimer
        \/ ProcessNothing
        \/ ServerCloses \/ Tick

Spec == Init /\ [][Next]_vars

-----------------------------------------------------------------------------
(* Properties                                                              *)

TypeOK ==
    /\ state \in {"ZERO", "CONNECTING", "ASSOCIATING", "CONNECTED"}
    /\ toSend \in Seq([kind : RequestKinds, off : 0 .. PacketSize - 1])
    /\ input.off \in 0 .. 2 * Header + Body.primer /\ input.len \in 0 .. Header + Body.primer
    /\ outstanding \in 0 .. MaxOut /\ auths \in 0 .. MaxAuth
    /\ partial \in 0 .. PacketSize - 1 /\ torn \in BOOLEAN /\ cut \in BOOLEAN
    /\ inbound \in Seq(DOMAIN Body) /\ pos \in Nat
    /\ broken \in BOOLEAN /\ phase \in {"app", "poll"}
    /\ {left, late, idleRecv, idleSend, waiting} \subseteq Nat

\* The server can tell packets apart: a byte always continues the packet it
\* has begun.  The exception the code allows is a credential that is put in
\* front of a packet already partly sent (zookeeper.c:1353, :1077).
FramesWhole == torn => cut

\* A packet is read from its first byte: the offset in the input buffer is in
\* step with the stream (zookeeper.c:1493, :1786).
Aligned == state # "ZERO" => pos = IF state = "ASSOCIATING" THEN input.off - Header ELSE input.off

\* A silent server is given up after two thirds of recv_timeout and no later,
\* whatever else goes on (zookeeper.c:1689).
GiveUpInTime == idleRecv <= 2 * Third + Late

\* With nothing under way, no more than a third of recv_timeout passes before
\* the server hears of the client again (zookeeper.c:1709).
PingInTime == phase = "poll" /\ state = "CONNECTED" /\ ~Unanswered => idleSend <= Third + Late

\* A server that answers is kept: one that is given up has owed an answer for
\* about a third of recv_timeout (zookeeper.c:1692).
PromptServerKept == [][InterestTimesOut => waiting >= Third - Late]_vars
=============================================================================
