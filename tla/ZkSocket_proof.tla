--------------------------- MODULE ZkSocket_proof ---------------------------
(***************************************************************************)
(* The socket's invariants for every recv_timeout, every lateness of the    *)
(* application and any number of requests, credentials and pings.           *)
(*                                                                         *)
(* None of them is inductive.  DataInv relates the packets in to_send, what *)
(* the server holds of a packet, the answers on their way and the requests  *)
(* that are counted: FramesWhole and Aligned follow.  Deadline says that    *)
(* select() never sleeps past the time the server is given up: GiveUpInTime *)
(* follows.  Timely adds what the ages have to do with each other while     *)
(* nothing is under way and while an answer is owed: PingInTime and         *)
(* PromptServerKept follow.                                                 *)
(***************************************************************************)
EXTENDS ZkSocket, ZkSequences

-----------------------------------------------------------------------------
(* Packets, answers and what is read of them                               *)

\* What to_send holds.
PacketRecords == [kind : RequestKinds, off : 0 .. PacketSize - 1]
Requests == {p \in PacketRecords : p.kind = "request"}
Answers(q, k) == [i \in 1 .. k |-> AnswerTo[q[i].kind]]
Kinds == {"primer", "reply", "auth", "ping"}

\* The sizes of the packets.
LEMMA SizeFacts ==
    /\ Header = 2 /\ PacketSize = 3 /\ DOMAIN Body = Kinds
    /\ Body.primer = 1
    /\ \A k \in Kinds : /\ Body[k] \in 1 .. 2 /\ Size(k) = 2 + Body[k]
                        /\ (Body[k] = 2 <=> k = "reply")
BY DEF Header, PacketSize, Body, Size, Kinds

\* The server answers each packet it has got, a request with a reply.
LEMMA AnswersFacts ==
    ASSUME NEW q \in Seq(PacketRecords), NEW k \in 0 .. Len(q)
    PROVE  /\ Answers(q, k) \in Seq(Kinds) /\ Len(Answers(q, k)) = k
           /\ Count(Answers(q, k), {"reply"}) = Count(SubSeq(q, 1, k), Requests)
<1>1. Len(q) \in Nat /\ k \in Nat /\ k <= Len(q) /\ \A i \in 1 .. Len(q) : q[i] \in PacketRecords
  BY LenProperties, ElementOfSeq
<1>2. \A r \in RequestKinds : AnswerTo[r] \in Kinds /\ (AnswerTo[r] = "reply" <=> r = "request")
  BY DEF RequestKinds, AnswerTo, Kinds
<1>3. \A i \in 1 .. k : /\ q[i] \in PacketRecords /\ q[i].kind \in RequestKinds
                        /\ AnswerTo[q[i].kind] \in Kinds
                        /\ AnswerTo[q[i].kind] = "reply" <=> q[i] \in Requests
  BY <1>1, <1>2 DEF PacketRecords, Requests
<1>4. Answers(q, k) \in Seq(Kinds)
  BY <1>1, <1>3, IsASeq DEF Answers
<1>5. Answers(q, k) \in [1 .. k -> Kinds]
  BY <1>3 DEF Answers
<1>6. Len(Answers(q, k)) = k
  BY <1>1, <1>4, <1>5, LenProperties
<1>7. /\ SubSeq(q, 1, k) \in Seq(PacketRecords) /\ Len(SubSeq(q, 1, k)) = k
      /\ \A i \in 1 .. k : SubSeq(q, 1, k)[i] = q[i]
  BY CutFacts
<1>8. \A i \in 1 .. k : Answers(q, k)[i] \in {"reply"} <=> SubSeq(q, 1, k)[i] \in Requests
  BY <1>3, <1>7 DEF Answers
<1>9. /\ Len(Answers(q, k)) = Len(SubSeq(q, 1, k))
      /\ \A i \in 1 .. Len(Answers(q, k)) :
             Answers(q, k)[i] \in {"reply"} <=> SubSeq(q, 1, k)[i] \in Requests
  BY <1>6, <1>7, <1>8
<1>10. Count(Answers(q, k), {"reply"}) = Count(SubSeq(q, 1, k), Requests)
  <2> DEFINE a == Answers(q, k)
             s == SubSeq(q, 1, k)
  <2>1. Len(a) = Len(s) /\ \A i \in 1 .. Len(a) : a[i] \in {"reply"} <=> s[i] \in Requests
    BY <1>9
  <2> HIDE DEF a, s
  <2>2. Count(a, {"reply"}) = Count(s, Requests)
    BY <2>1, CountAlike
  <2> QED
    BY <2>2 DEF a, s
<1> QED
  BY <1>4, <1>6, <1>10

\* What is left of a queue when k packets and m bytes have been sent.
LEMMA RestFacts ==
    ASSUME NEW q \in Seq(PacketRecords), NEW k \in 0 .. Len(q), NEW m \in 0 .. PacketSize - 1,
           k = Len(q) => m = 0
    PROVE  /\ Rest(q, k, m) \in Seq(PacketRecords)
           /\ Started(Rest(q, k, m)) = m
           /\ Rest(q, k, m) = <<>> <=> k = Len(q)
           /\ Count(Rest(q, k, m), Requests) = Count(SubSeq(q, k + 1, Len(q)), Requests)
<1> DEFINE s == SubSeq(q, k + 1, Len(q))
<1>1. /\ s \in Seq(PacketRecords) /\ Len(s) = Len(q) - k /\ Len(q) \in Nat
      /\ Rest(q, k, m) = IF s = <<>> THEN s ELSE [s EXCEPT ![1].off = m]
  BY CutFacts, LenProperties DEF Rest
<1> HIDE DEF s
<1>2. s = <<>> <=> k = Len(q)
  BY <1>1, EmptySeq
<1>3. CASE s = <<>>
  BY <1>1, <1>2, <1>3 DEF Started, s
<1>4. CASE s # <<>>
  <2>1. 1 \in 1 .. Len(s) /\ s[1] \in PacketRecords
    BY <1>1, <1>4, EmptySeq, ElementOfSeq
  <2> DEFINE p == [s[1] EXCEPT !.off = m]
             r == [s EXCEPT ![1] = p]
  <2>2. p \in PacketRecords /\ p.off = m /\ p.kind = s[1].kind
    BY <2>1 DEF PacketRecords
  <2>3. [s EXCEPT ![1].off = m] = r
    OBVIOUS
  <2>4. /\ r \in Seq(PacketRecords) /\ Len(r) = Len(s)
        /\ \A j \in 1 .. Len(s) : r[j] = IF j = 1 THEN p ELSE s[j]
    BY <1>1, <2>1, <2>2, ExceptSeq
  <2> HIDE DEF p, r
  <2>5. r[1] = p /\ r # <<>>
    BY <2>1, <2>4, EmptySeq
  <2>6. Started(r) = m
    BY <2>2, <2>5 DEF Started
  <2>7. \A j \in 1 .. Len(r) : r[j] \in Requests <=> s[j] \in Requests
    BY <1>1, <2>1, <2>2, <2>4, ElementOfSeq DEF Requests
  <2>8. Count(r, Requests) = Count(s, Requests)
    BY <2>4, <2>7, CountAlike
  <2> QED
    BY <1>1, <1>2, <1>4, <2>3, <2>4, <2>5, <2>6, <2>8 DEF s
<1> QED
  BY <1>3, <1>4

\* The type invariant of the data.
Typed ==
    /\ state \in {"ZERO", "CONNECTING", "ASSOCIATING", "CONNECTED"}
    /\ toSend \in Seq(PacketRecords)
    /\ outstanding \in 0 .. MaxOut /\ auths \in 0 .. MaxAuth
    /\ partial \in 0 .. PacketSize - 1 /\ torn \in BOOLEAN /\ cut \in BOOLEAN
    /\ inbound \in Seq(Kinds) /\ pos \in Nat
    /\ broken \in BOOLEAN

\* The stream of answers with what the server answers to a call of flush_send_queue(), before
\* anything is read from it.
Flushed(q, all) ==
    /\ all \in Seq(Kinds)
    /\ Len(inbound) \in Nat /\ Len(all) \in Nat /\ Len(inbound) <= Len(all)
    /\ \A i \in 1 .. Len(inbound) : all[i] = inbound[i]
    /\ torn => torn'
    /\ torn' => all = inbound
    /\ state # "CONNECTED" => all = inbound /\ torn' = torn /\ partial' = partial
    /\ Started(q) = partial => torn' = torn
    /\ Started(q) = partial => Started(toSend') = partial'
    /\ Count(toSend', Requests) + Count(all, {"reply"})
          <= Count(q, Requests) + Count(inbound, {"reply"})
    /\ ~torn' => Count(toSend', Requests) + Count(all, {"reply"})
                    = Count(q, Requests) + Count(inbound, {"reply"})
    /\ q = <<>> => toSend' = <<>> /\ all = inbound /\ idleSend' = idleSend /\ torn' = torn
    /\ q # <<>> => toSend' # <<>> \/ torn' \/ all # <<>>
    /\ idleSend' = idleSend \/ (idleSend' = 0 /\ (torn' \/ all # <<>>))

\* A call of flush_send_queue(): its packets are sent whole and in order, what has
\* been sent is answered and every request is still on one side or the other.
LEMMA FlushFacts ==
    ASSUME Typed, NEW q \in Seq(PacketRecords), NEW n, FlushSendQueue(q, n)
    PROVE  /\ toSend' \in Seq(PacketRecords)
           /\ partial' \in 0 .. PacketSize - 1 /\ torn' \in BOOLEAN
           /\ \E all : Flushed(q, all) /\ Consume(n, all)
<1>1. PICK k \in 0 .. Len(q), m \in 0 .. PacketSize - 1 :
          LET sent == k > 0 \/ m > Started(q)
          IN  /\ k = 0 => m >= Started(q)
              /\ k = Len(q) => m = 0
              /\ state # "CONNECTED" => ~sent
              /\ toSend' = Rest(q, k, m)
              /\ idleSend' = IF k > 0 THEN 0 ELSE idleSend
              /\ torn' = (torn \/ (sent /\ Started(q) # partial))
              /\ partial' = IF sent THEN m ELSE partial
              /\ Consume(n, IF torn' THEN inbound ELSE inbound \o Answers(q, k))
  BY DEF FlushSendQueue, Answers
<1> DEFINE all == IF torn' THEN inbound ELSE inbound \o Answers(q, k)
<1>2. /\ Len(q) \in Nat /\ k \in Nat /\ k <= Len(q) /\ m \in 0 .. 2
      /\ Len(inbound) \in Nat /\ inbound \in Seq(Kinds)
  BY LenProperties DEF Typed, PacketSize, Header
<1>3. /\ toSend' \in Seq(PacketRecords) /\ Started(toSend') = m
      /\ toSend' = <<>> <=> k = Len(q)
      /\ Count(toSend', Requests) = Count(SubSeq(q, k + 1, Len(q)), Requests)
  BY <1>1, RestFacts
<1>4. /\ Answers(q, k) \in Seq(Kinds) /\ Len(Answers(q, k)) = k
      /\ Count(Answers(q, k), {"reply"}) = Count(SubSeq(q, 1, k), Requests)
  BY AnswersFacts
<1>5. /\ inbound \o Answers(q, k) \in Seq(Kinds)
      /\ Len(inbound \o Answers(q, k)) = Len(inbound) + k
      /\ \A i \in 1 .. Len(inbound) : (inbound \o Answers(q, k))[i] = inbound[i]
  BY <1>2, <1>4, JoinFacts
<1>6. Count(inbound \o Answers(q, k), {"reply"})
          = Count(inbound, {"reply"}) + Count(SubSeq(q, 1, k), Requests)
  <2>1. Count(inbound \o Answers(q, k), {"reply"})
          = Count(inbound, {"reply"}) + Count(Answers(q, k), {"reply"})
    BY <1>2, <1>4, CountJoin
  <2> QED
    BY <1>4, <2>1
<1>7. Count(q, Requests) = Count(SubSeq(q, 1, k), Requests) + Count(toSend', Requests)
  <2>1. Count(q, Requests) = Count(SubSeq(q, 1, k), Requests)
                                + Count(SubSeq(q, k + 1, Len(q)), Requests)
    BY CountCut
  <2> QED
    BY <1>3, <2>1
<1>8. PICK c1 \in Nat, c2 \in Nat, c3 \in Nat :
          /\ c1 = Count(SubSeq(q, 1, k), Requests) /\ c2 = Count(toSend', Requests)
          /\ c3 = Count(inbound, {"reply"})
  <2>1. SubSeq(q, 1, k) \in Seq(PacketRecords)
    BY CutFacts
  <2> QED
    BY <1>2, <1>3, <2>1, CountType
<1>9. Started(q) \in 0 .. 2
  <2>1. q # <<>> => q[1] \in PacketRecords
    BY <1>2, EmptySeq, ElementOfSeq
  <2> QED
    BY <2>1 DEF Started, PacketRecords, PacketSize, Header
<1>10. all \in Seq(Kinds) /\ Len(all) \in Nat /\ Len(inbound) <= Len(all)
       /\ \A i \in 1 .. Len(inbound) : all[i] = inbound[i]
  <2>1. CASE torn'
    BY <1>2, <2>1
  <2>2. CASE ~torn'
    BY <1>2, <1>5, <2>2
  <2> QED
    BY <2>1, <2>2
<1>11. /\ Count(q, Requests) = c1 + c2
       /\ Count(all, {"reply"}) = IF torn' THEN c3 ELSE c3 + c1
  BY <1>6, <1>7, <1>8
<1>12. k = 0 => all = inbound
  <2>1. k = 0 => Answers(q, k) = <<>>
    BY <1>4, EmptySeq
  <2> QED
    BY <1>2, <2>1, ConcatEmptySeq
<1>13. k > 0 /\ ~torn' => all # <<>>
  BY <1>2, <1>5, EmptySeq
<1>14. q = <<>> <=> Len(q) = 0
  BY EmptySeq
<1> HIDE DEF all
<1>15. torn' => all = inbound
  BY DEF all
<1>16. /\ torn \in BOOLEAN /\ torn' \in BOOLEAN /\ (torn => torn')
       /\ partial' \in 0 .. 2 /\ partial \in 0 .. 2
  BY <1>1, <1>2 DEF Typed, PacketSize, Header
<1>17. /\ Count(toSend', Requests) + Count(all, {"reply"})
            <= Count(q, Requests) + Count(inbound, {"reply"})
       /\ ~torn' => Count(toSend', Requests) + Count(all, {"reply"})
                    = Count(q, Requests) + Count(inbound, {"reply"})
  BY <1>8, <1>11
<1>18. q = <<>> => k = 0 /\ m = 0 /\ Started(q) = 0
  BY <1>1, <1>2, <1>14 DEF Started
<1>19. q = <<>> => toSend' = <<>> /\ all = inbound /\ idleSend' = idleSend /\ torn' = torn
  BY <1>1, <1>3, <1>12, <1>14, <1>16, <1>18
<1>20. q # <<>> => toSend' # <<>> \/ torn' \/ all # <<>>
  BY <1>2, <1>3, <1>13, <1>14
<1>21. idleSend' = idleSend \/ (idleSend' = 0 /\ (torn' \/ all # <<>>))
  BY <1>1, <1>13
<1>22. state # "CONNECTED" => all = inbound /\ torn' = torn /\ partial' = partial
  BY <1>1, <1>2, <1>12, <1>16
<1>23. Started(q) = partial => torn' = torn /\ Started(toSend') = partial'
  BY <1>1, <1>2, <1>3, <1>9, <1>16
<1>24. Flushed(q, all)
  BY <1>2, <1>10, <1>15, <1>16, <1>17, <1>19, <1>20, <1>21, <1>22, <1>23 DEF Flushed
<1>25. Consume(n, all)
  BY <1>1 DEF all
<1> QED
  BY <1>3, <1>16, <1>24, <1>25 DEF PacketSize, Header

\* The input buffer is in step with the stream, state by state.
InStep ==
    /\ state \in {"ZERO", "CONNECTING"} => inbound = <<>> /\ pos = 0 /\ input = NoBuffer
    /\ state = "ASSOCIATING" => /\ inbound = <<"primer">> /\ pos < Header + Body.primer
                                /\ input = Buffer(Header + pos, Header + Body.primer)
    /\ state = "CONNECTED" =>
           /\ input \in [off : Nat, len : Nat] /\ input.off = pos
           /\ inbound = <<>> => pos = 0
           /\ pos < Header => input.len = 0
           /\ pos >= Header => input.len = Body[inbound[1]] /\ pos < Size(inbound[1])

\* What the server holds of a packet is what has been sent of the head of to_send.
Framed ==
    /\ state # "CONNECTED" => Started(toSend) = 0 /\ partial = 0 /\ ~torn
    /\ ~cut => ~torn /\ Started(toSend) = partial

\* Requests not sent yet, and replies not read yet.
UnderWay == Count(toSend, Requests) + Count(inbound, {"reply"})
\* zh->sent_requests has every request under way.
Booked == UnderWay <= outstanding /\ (~torn => UnderWay = outstanding)

DataInv == Typed /\ InStep /\ Framed /\ Booked

\* What is left of the time select() sleeps.
Ahead == IF phase = "poll" THEN left ELSE 0
\* The server has been silent for a third of recv_timeout and for as long as it has owed
\* an answer, at most.
Owing ==
    /\ waiting \in Nat /\ waiting <= Third
    /\ waiting < Third => idleRecv <= Third + Late + waiting
\* Nothing is under way.
Quiet == state = "CONNECTED" /\ ~Unanswered
\* select() wakes up in time for a ping, and last_recv is not older than last_send.
Resting ==
    /\ idleRecv + Ahead <= Third + late
    /\ idleSend <= Third + Late => idleRecv <= idleSend
    /\ phase = "poll" => idleSend + left <= Third + late
Timely == Owing /\ (Quiet => Resting)

\* There is nothing to read of a stream without answers.
LEMMA EmptyStream ==
    ASSUME inbound = <<>>, pos \in Nat
    PROVE  Remaining = 0 - pos
<1>1. DOMAIN <<>> = {}
  OBVIOUS
<1> QED
  BY <1>1 DEF Remaining, FoldSeq, FoldFunction, FoldFunctionOnSet, MapThenFoldSet

\* What is in front of the stream when something is.
LEMMA FirstAnswer ==
    ASSUME Typed, inbound # <<>>
    PROVE  /\ Len(inbound) \in Nat \ {0} /\ inbound[1] \in Kinds
           /\ Body[inbound[1]] \in 1 .. 2 /\ Size(inbound[1]) = 2 + Body[inbound[1]]
BY EmptySeq, ElementOfSeq, SizeFacts DEF Typed

\* What one call of recv_buffer() reads: it ends where the packet ends.
LEMMA ReadsFacts ==
    ASSUME DataInv, state \in {"ASSOCIATING", "CONNECTED"},
           NEW h \in 0 .. Header, NEW b \in Nat, Reads(h, b)
    PROVE  /\ h + b \in Nat \ {0} /\ inbound # <<>>
           /\ state = "CONNECTED" =>
                  LET r == Received(h, b)
                  IN  /\ r \in [off : Nat, len : Nat] /\ r.off = pos + (h + b)
                      /\ r.off < Header => r.len = 0
                      /\ r.off >= Header => r.len = Body[inbound[1]]
                      /\ Complete(r) <=> pos + (h + b) = Size(inbound[1])
                      /\ ~Complete(r) /\ pos + (h + b) >= Header =>
                             pos + (h + b) < Size(inbound[1])
           /\ state = "ASSOCIATING" =>
                  LET r == Received(h, b)
                  IN  /\ r = Buffer(Header + (pos + (h + b)), Header + Body.primer)
                      /\ Complete(r) <=> pos + (h + b) = Header + Body.primer
                      /\ ~Complete(r) => pos + (h + b) < Header + Body.primer
<1>1. pos \in Nat /\ Header = 2 /\ h \in 0 .. 2 /\ Body.primer = 1
  BY SizeFacts DEF DataInv, Typed
<1>2. h + b \in 1 .. Remaining
  BY DEF Reads
<1>3. h + b \in Nat \ {0}
  BY <1>1, <1>2
<1>4. inbound # <<>>
  <2> SUFFICES ASSUME inbound = <<>> PROVE FALSE
    OBVIOUS
  <2>1. h + b \in 1 .. (0 - pos)
    BY <1>1, <1>2, EmptyStream
  <2> QED
    BY <1>1, <2>1
<1>5. /\ Body[inbound[1]] \in 1 .. 2 /\ Size(inbound[1]) = 2 + Body[inbound[1]]
  BY <1>4, FirstAnswer DEF DataInv
<1>6. /\ IF input.off < 2 THEN h \in 1 .. 2 - input.off ELSE h = 0
      /\ input.off + h < 2 => b = 0
      /\ b > 0 => Received(h, b).off <= 2 + Received(h, b).len
  BY <1>1 DEF Reads
<1>7. /\ Received(h, b).off = input.off + h + b
      /\ Received(h, b).len = IF h > 0 /\ input.off + h = 2 THEN Body[inbound[1]] ELSE input.len
      /\ Received(h, b) = [off |-> Received(h, b).off, len |-> Received(h, b).len]
  BY <1>1 DEF Received, Buffer
<1> DEFINE r == Received(h, b)
<1>8. Complete(r) <=> r.off >= 2 /\ r.off = 2 + r.len
  BY <1>1 DEF Complete
<1> HIDE DEF r
<1>9. CASE state = "CONNECTED"
  <2>1. /\ input.off = pos /\ input.len \in Nat
        /\ pos < 2 => input.len = 0
        /\ pos >= 2 => input.len = Body[inbound[1]] /\ pos < 2 + Body[inbound[1]]
    BY <1>1, <1>5, <1>9 DEF DataInv, InStep
  <2>2. /\ r.off = pos + (h + b)
        /\ r.off < 2 => r.len = 0
        /\ r.off >= 2 => r.len = Body[inbound[1]]
        /\ b > 0 => r.off <= 2 + r.len
        /\ r.len \in Nat
    BY <1>1, <1>5, <1>6, <1>7, <2>1 DEF r
  <2>3. r \in [off : Nat, len : Nat]
    BY <1>1, <1>7, <2>2 DEF r
  <2>4. b = 0 /\ r.off >= 2 => r.off < 2 + Body[inbound[1]]
    BY <1>1, <1>5, <1>6, <2>1, <2>2
  <2>5. Complete(r) <=> pos + (h + b) = Size(inbound[1])
    BY <1>1, <1>3, <1>5, <1>8, <2>2, <2>4
  <2>6. ~Complete(r) /\ pos + (h + b) >= 2 => pos + (h + b) < Size(inbound[1])
    BY <1>1, <1>3, <1>5, <1>8, <2>2, <2>4
  <2> QED
    BY <1>1, <1>3, <1>4, <1>9, <2>2, <2>3, <2>5, <2>6 DEF r
<1>10. CASE state = "ASSOCIATING"
  <2>1. input = [off |-> 2 + pos, len |-> 3] /\ pos < 3
    BY <1>1, <1>10 DEF DataInv, InStep, Buffer
  <2>2. h = 0 /\ input.off = 2 + pos /\ input.len = 3
    BY <1>1, <1>6, <2>1
  <2>3. r.off = 2 + (pos + (h + b)) /\ r.len = 3 /\ r = [off |-> r.off, len |-> r.len]
    BY <1>1, <1>7, <2>2 DEF r
  <2>4. r = Buffer(2 + (pos + (h + b)), 2 + 1)
    BY <2>3 DEF Buffer
  <2>5. Complete(r) <=> pos + (h + b) = 2 + 1
    BY <1>1, <1>8, <2>3
  <2>6. ~Complete(r) => pos + (h + b) < 2 + 1
    BY <1>1, <1>3, <1>6, <2>2, <2>3, <2>5 DEF r
  <2> QED
    BY <1>1, <1>3, <1>4, <1>10, <2>4, <2>5, <2>6 DEF r
<1> QED
  BY <1>9, <1>10

\* flush_send_queue() when no packet is read to its end with it.
LEMMA FlushUnread ==
    ASSUME DataInv, NEW q \in Seq(PacketRecords), NEW n \in Nat, FlushSendQueue(q, n),
           n = 0 \/ (inbound # <<>> /\ pos + n < Size(inbound[1]))
    PROVE  /\ toSend' \in Seq(PacketRecords)
           /\ partial' \in 0 .. PacketSize - 1 /\ torn' \in BOOLEAN
           /\ pos' = pos + n /\ Flushed(q, inbound')
<1>1. Typed
  BY DEF DataInv
<1>2. PICK all : Flushed(q, all) /\ Consume(n, all)
  BY <1>1, FlushFacts
<1>3. inbound # <<>> => all[1] = inbound[1]
  BY <1>1, <1>2, FirstAnswer DEF Flushed
<1>4. pos' = pos + n /\ inbound' = all
  BY <1>2, <1>3 DEF Consume
<1> QED
  BY <1>1, <1>2, <1>4, FlushFacts

\* ... and when one is.
LEMMA FlushRead ==
    ASSUME DataInv, NEW q \in Seq(PacketRecords), NEW n \in Nat \ {0}, FlushSendQueue(q, n),
           inbound # <<>>, pos + n = Size(inbound[1])
    PROVE  /\ toSend' \in Seq(PacketRecords)
           /\ partial' \in 0 .. PacketSize - 1 /\ torn' \in BOOLEAN
           /\ \E all : /\ Flushed(q, all) /\ all # <<>> /\ all[1] = inbound[1]
                       /\ pos' = 0 /\ inbound' = Tail(all)
<1>1. Typed
  BY DEF DataInv
<1>2. PICK all : Flushed(q, all) /\ Consume(n, all)
  BY <1>1, FlushFacts
<1>3. all[1] = inbound[1] /\ all # <<>>
  BY <1>1, <1>2, FirstAnswer, EmptySeq DEF Flushed
<1>4. pos \in Nat /\ Size(inbound[1]) \in Nat
  BY <1>1, FirstAnswer DEF Typed
<1>5. ~(n = 0 \/ pos + n < Size(all[1])) /\ pos + n - Size(all[1]) = 0
  BY <1>3, <1>4
<1>6. inbound' = Tail(all) /\ pos' = 0
  BY <1>2, <1>5 DEF Consume
<1> QED
  BY <1>1, <1>2, <1>3, <1>6, FlushFacts

\* What a call that only sends keeps, whatever it does besides: d requests are new in q.
LEMMA SendKeeps ==
    ASSUME DataInv, NEW q \in Seq(PacketRecords), NEW n \in Nat, FlushSendQueue(q, n),
           n = 0 \/ (inbound # <<>> /\ pos + n < Size(inbound[1])),
           Started(q) = Started(toSend),
           NEW d \in Nat, Count(q, Requests) = Count(toSend, Requests) + d,
           outstanding' = outstanding + d, UNCHANGED <<state, cut>>
    PROVE  /\ toSend' \in Seq(PacketRecords) /\ inbound' \in Seq(Kinds) /\ pos' = pos + n
           /\ partial' \in 0 .. PacketSize - 1 /\ torn' \in BOOLEAN
           /\ inbound # <<>> => inbound' # <<>> /\ inbound'[1] = inbound[1]
           /\ state # "CONNECTED" => inbound' = inbound
           /\ Framed' /\ Booked'
<1>1. /\ toSend' \in Seq(PacketRecords)
      /\ partial' \in 0 .. PacketSize - 1 /\ torn' \in BOOLEAN
      /\ pos' = pos + n /\ Flushed(q, inbound')
  BY FlushUnread
<1>2. inbound # <<>> => inbound' # <<>> /\ inbound'[1] = inbound[1]
  BY <1>1, FirstAnswer, EmptySeq DEF Flushed, DataInv
<1>3. Framed'
  BY <1>1 DEF Flushed, DataInv, Framed
<1>4. Booked'
  <2>1. PICK c1 \in Nat, c2 \in Nat, c3 \in Nat, c4 \in Nat :
            /\ c1 = Count(toSend, Requests) /\ c2 = Count(inbound, {"reply"})
            /\ c3 = Count(toSend', Requests) /\ c4 = Count(inbound', {"reply"})
    BY <1>1, CountType DEF DataInv, Typed, Flushed
  <2>2. outstanding \in Nat /\ torn \in BOOLEAN
    BY DEF DataInv, Typed
  <2>3. /\ c1 + c2 <= outstanding /\ (~torn => c1 + c2 = outstanding)
        /\ c3 + c4 <= (c1 + d) + c2 /\ (~torn' => c3 + c4 = (c1 + d) + c2)
        /\ torn => torn'
    BY <1>1, <2>1 DEF DataInv, Booked, UnderWay, Flushed
  <2>4. c3 + c4 <= outstanding' /\ (~torn' => c3 + c4 = outstanding')
    BY <2>2, <2>3
  <2> QED
    BY <2>1, <2>4 DEF Booked, UnderWay
<1> QED
  BY <1>1, <1>2, <1>3, <1>4 DEF Flushed

\* The input buffer stays in step when nothing is read.
LEMMA InStepStays ==
    ASSUME DataInv, UNCHANGED <<state, input, pos>>,
           inbound # <<>> => inbound' # <<>> /\ inbound'[1] = inbound[1],
           state # "CONNECTED" => inbound' = inbound
    PROVE  InStep'
<1>1. pos \in Nat /\ Header = 2
  BY SizeFacts DEF DataInv, Typed
<1>2. state = "CONNECTED" /\ pos >= Header => inbound # <<>>
  BY <1>1 DEF DataInv, InStep
<1>3. CASE state = "CONNECTED"
  BY <1>2, <1>3 DEF DataInv, InStep, Size
<1>4. CASE state # "CONNECTED"
  BY <1>4 DEF DataInv, InStep
<1> QED
  BY <1>3, <1>4

\* A request or a ping is a new packet at the end of to_send.
LEMMA NewPacket ==
    ASSUME Typed, NEW k \in RequestKinds
    PROVE  /\ Append(toSend, Packet(k)) \in Seq(PacketRecords)
           /\ Append(toSend, Packet(k)) # <<>>
           /\ Started(Append(toSend, Packet(k))) = Started(toSend)
           /\ Count(Append(toSend, Packet(k)), Requests)
                = Count(toSend, Requests) + (IF k = "request" THEN 1 ELSE 0)
<1>1. Packet(k) \in PacketRecords /\ (Packet(k) \in Requests <=> k = "request")
      /\ Packet(k).off = 0
  BY DEF Packet, PacketRecords, Requests, PacketSize, Header
<1>2. toSend \in Seq(PacketRecords) /\ Len(toSend) \in Nat
  BY LenProperties DEF Typed
<1> DEFINE a == Append(toSend, Packet(k))
<1>3. /\ a \in Seq(PacketRecords) /\ a # <<>>
      /\ \A i \in 1 .. Len(toSend) : a[i] = toSend[i]
      /\ a[Len(toSend) + 1] = Packet(k)
  BY <1>1, <1>2, AppendProperties
<1>4. Count(a, Requests) = Count(toSend, Requests) + (IF Packet(k) \in Requests THEN 1 ELSE 0)
  BY <1>1, <1>2, CountAppend
<1> HIDE DEF a
<1>5. CASE toSend = <<>>
  <2>1. Len(toSend) = 0
    BY <1>2, <1>5, EmptySeq
  <2>2. a[1] = Packet(k)
    BY <1>3, <2>1
  <2>3. Started(a) = Started(toSend)
    BY <1>1, <1>3, <1>5, <2>2 DEF Started
  <2> QED
    BY <1>1, <1>3, <1>4, <2>3 DEF a
<1>6. CASE toSend # <<>>
  <2>1. 1 \in 1 .. Len(toSend)
    BY <1>2, <1>6, EmptySeq
  <2>2. Started(a) = Started(toSend)
    BY <1>3, <1>6, <2>1 DEF Started
  <2> QED
    BY <1>1, <1>3, <1>4, <2>2 DEF a
<1> QED
  BY <1>5, <1>6

\* Credentials in front of a queue.
LEMMA Credentials ==
    ASSUME Typed, NEW n \in Nat
    PROVE  LET all == [i \in 1 .. n |-> Packet("auth")] \o toSend
           IN  /\ all \in Seq(PacketRecords)
               /\ Count(all, Requests) = Count(toSend, Requests)
               /\ Started(toSend) = 0 => Started(all) = 0
               /\ toSend # <<>> => all # <<>>
<1> DEFINE a == [i \in 1 .. n |-> Packet("auth")]
           all == a \o toSend
<1>1. Packet("auth") \in PacketRecords /\ Packet("auth") \notin Requests /\ Packet("auth").off = 0
  BY DEF Packet, PacketRecords, Requests, PacketSize, Header, RequestKinds
<1>2. toSend \in Seq(PacketRecords) /\ Len(toSend) \in Nat
  BY LenProperties DEF Typed
<1>3. a \in Seq(PacketRecords)
  BY <1>1, IsASeq
<1>4. Len(a) = n /\ \A i \in 1 .. n : a[i] = Packet("auth")
  BY <1>1, <1>3, LenProperties
<1>5. Count(a, Requests) = 0
  BY <1>1, <1>3, <1>4, CountType
<1>6. /\ all \in Seq(PacketRecords) /\ Len(all) = n + Len(toSend)
      /\ \A i \in 1 .. n : all[i] = Packet("auth")
      /\ \A i \in 1 .. Len(toSend) : all[n + i] = toSend[i]
  BY <1>2, <1>3, <1>4, JoinFacts
<1>7. Count(all, Requests) = Count(toSend, Requests)
  <2>1. Count(all, Requests) = Count(a, Requests) + Count(toSend, Requests)
    BY <1>2, <1>3, CountJoin
  <2>2. Count(toSend, Requests) \in Nat
    BY <1>2, CountType
  <2> QED
    BY <1>5, <2>1, <2>2
<1>8. Len(all) = 0 <=> all = <<>>
  BY <1>6, EmptySeq
<1>9. Len(toSend) = 0 <=> toSend = <<>>
  BY <1>2, EmptySeq
<1>10. toSend # <<>> => all # <<>>
  BY <1>2, <1>6, <1>8, <1>9
<1> HIDE DEF a, all
<1>11. Started(toSend) = 0 => Started(all) = 0
  <2>1. CASE n > 0
    <3>1. all[1] = Packet("auth")
      BY <1>6, <2>1
    <3> QED
      BY <1>1, <3>1 DEF Started
  <2>2. CASE n = 0 /\ toSend # <<>>
    <3>1. all[0 + 1] = toSend[1]
      BY <1>2, <1>6, <1>9, <2>2
    <3> QED
      BY <1>10, <2>2, <3>1 DEF Started
  <2>3. CASE n = 0 /\ toSend = <<>>
    BY <1>2, <1>6, <1>8, <1>9, <2>3 DEF Started
  <2> QED
    BY <2>1, <2>2, <2>3
<1> QED
  BY <1>6, <1>7, <1>10, <1>11 DEF a, all

\* DataInv holds before anything is sent.
LEMMA InitData == Init => DataInv
<1> SUFFICES ASSUME Init PROVE DataInv
  OBVIOUS
<1>1. MaxOut \in Nat /\ MaxAuth \in Nat /\ Late \in Nat
  BY SocketAssumption DEF SocketAssumption
<1>2. Typed
  <2>1. <<>> \in Seq(PacketRecords) /\ <<>> \in Seq(Kinds)
    BY EmptySeq
  <2>2. 0 \in 0 .. MaxOut /\ 0 \in 0 .. MaxAuth /\ 0 \in 0 .. PacketSize - 1
    BY <1>1 DEF PacketSize, Header
  <2> QED
    BY <2>1, <2>2 DEF Init, Typed, PacketSize, Header
<1>3. InStep
  BY DEF Init, InStep
<1>4. Framed
  BY DEF Init, Framed, Started
<1>5. Booked
  <2>1. Count(toSend, Requests) = 0 /\ Count(inbound, {"reply"}) = 0
    BY CountNone DEF Init
  <2> QED
    BY <2>1 DEF Init, Booked, UnderWay
<1> QED
  BY <1>2, <1>3, <1>4, <1>5 DEF DataInv

\* handle_error() and cleanup_bufs() establish DataInv anew.
LEMMA LostData ==
    ASSUME DataInv, Lost
    PROVE  DataInv'
<1>1. MaxOut \in Nat /\ MaxAuth \in Nat /\ Late \in Nat
  BY SocketAssumption DEF SocketAssumption
<1>2. Typed'
  <2>1. <<>> \in Seq(PacketRecords) /\ <<>> \in Seq(Kinds)
    BY EmptySeq
  <2>2. 0 \in 0 .. MaxOut /\ 0 \in 0 .. MaxAuth /\ 0 \in 0 .. PacketSize - 1
    BY <1>1 DEF PacketSize, Header
  <2> QED
    BY <2>1, <2>2 DEF Lost, DataInv, Typed, PacketSize, Header
<1>3. InStep'
  BY DEF Lost, InStep
<1>4. Framed'
  BY DEF Lost, Framed, Started
<1>5. Booked'
  <2>1. Count(toSend', Requests) = 0 /\ Count(inbound', {"reply"}) = 0
    BY CountNone DEF Lost
  <2> QED
    BY <2>1 DEF Lost, Booked, UnderWay
<1> QED
  BY <1>2, <1>3, <1>4, <1>5 DEF DataInv

\* A call that puts packets at the end of to_send and sends, without reading.
LEMMA SendOnly ==
    ASSUME DataInv, NEW q \in Seq(PacketRecords), FlushSendQueue(q, 0),
           Started(q) = Started(toSend),
           NEW d \in Nat, Count(q, Requests) = Count(toSend, Requests) + d,
           outstanding' = outstanding + d, outstanding' <= MaxOut,
           UNCHANGED <<state, input, auths, cut, broken>>
    PROVE  DataInv'
<1>0. pos \in Nat /\ Typed /\ outstanding \in Nat /\ MaxOut \in Nat
  BY SocketAssumption DEF SocketAssumption, DataInv, Typed
<1>1. /\ toSend' \in Seq(PacketRecords) /\ inbound' \in Seq(Kinds) /\ pos' = pos + 0
      /\ partial' \in 0 .. PacketSize - 1 /\ torn' \in BOOLEAN
      /\ inbound # <<>> => inbound' # <<>> /\ inbound'[1] = inbound[1]
      /\ state # "CONNECTED" => inbound' = inbound
      /\ Framed' /\ Booked'
  BY SendKeeps
<1>2. pos' = pos
  BY <1>0, <1>1
<1>3. InStep'
  BY <1>1, <1>2, InStepStays
<1>4. outstanding' \in 0 .. MaxOut
  BY <1>0
<1>5. Typed'
  BY <1>0, <1>1, <1>2, <1>4 DEF Typed
<1> QED
  BY <1>1, <1>3, <1>5 DEF DataInv

\* A credential is put in front of everything.
LEMMA AddAuthData ==
    ASSUME DataInv, AddAuth
    PROVE  DataInv'
<1>0. /\ Typed /\ MaxAuth \in Nat /\ auths \in Nat /\ pos \in Nat
      /\ toSend \in Seq(PacketRecords) /\ partial \in 0 .. 2
  BY SocketAssumption DEF SocketAssumption, DataInv, Typed, PacketSize, Header
<1>1. UNCHANGED <<state, input, outstanding, partial, torn, inbound, pos, broken>>
  BY DEF AddAuth
<1>2. auths' \in 0 .. MaxAuth
  BY <1>0 DEF AddAuth
<1>3. InStep'
  BY <1>1, InStepStays
<1>4. CASE toSend' = toSend
  <2>1. cut' = cut
    BY <1>0, <1>4 DEF AddAuth, Typed
  <2>2. Framed' /\ Booked'
    BY <1>1, <1>4, <2>1 DEF DataInv, Framed, Booked, UnderWay
  <2>3. Typed'
    BY <1>0, <1>1, <1>2, <1>4, <2>1 DEF Typed
  <2> QED
    BY <1>3, <2>2, <2>3 DEF DataInv
<1>5. CASE toSend' # toSend
  <2>1. toSend' = [i \in 1 .. 1 |-> Packet("auth")] \o toSend
    <3>1. [i \in 1 .. 1 |-> Packet("auth")] = <<Packet("auth")>>
      OBVIOUS
    <3> QED
      BY <1>5, <3>1 DEF AddAuth
  <2>2. /\ toSend' \in Seq(PacketRecords)
        /\ Count(toSend', Requests) = Count(toSend, Requests)
        /\ Started(toSend) = 0 => Started(toSend') = 0
    BY <1>0, <2>1, Credentials
  <2>3. cut' = (cut \/ Started(toSend) > 0)
    BY <1>5 DEF AddAuth
  <2>4. Booked'
    BY <1>1, <2>2 DEF DataInv, Booked, UnderWay
  <2>5. cut' \in BOOLEAN
    BY <2>3 DEF DataInv, Typed
  <2>6. Started(toSend) \in 0 .. 2
    <3>1. toSend # <<>> => toSend[1] \in PacketRecords
      BY <1>0, EmptySeq, ElementOfSeq
    <3> QED
      BY <3>1 DEF Started, PacketRecords, PacketSize, Header
  <2>9. ~cut' => ~cut /\ ~(Started(toSend) > 0)
    BY <2>3
  <2>10. ~cut' => ~torn /\ Started(toSend) = 0 /\ partial = 0
    BY <2>6, <2>9 DEF DataInv, Framed
  <2>7. Framed'
    BY <1>1, <2>2, <2>10 DEF DataInv, Framed
  <2>8. Typed'
    BY <1>0, <1>1, <1>2, <2>2, <2>5 DEF Typed
  <2> QED
    BY <1>3, <2>4, <2>7, <2>8 DEF DataInv
<1> QED
  BY <1>4, <1>5

\* The handshake begins.
LEMMA ConnectData ==
    ASSUME DataInv, state \in {"ZERO", "CONNECTING"},
           \/ state' = "CONNECTING" /\ UNCHANGED <<input, inbound>>
           \/ Primed,
           UNCHANGED <<toSend, outstanding, auths, partial, torn, cut, pos, broken>>
    PROVE  DataInv'
<1>0. /\ Header = 2 /\ Body.primer = 1 /\ pos = 0 /\ inbound = <<>> /\ input = NoBuffer
  BY SizeFacts DEF DataInv, InStep
<1>1. inbound' \in Seq(Kinds) /\ Count(inbound', {"reply"}) = Count(inbound, {"reply"})
  <2>1. "primer" \in Kinds /\ "primer" \notin {"reply"}
    BY DEF Kinds
  <2>2. <<"primer">> \in Seq(Kinds) /\ <<>> \in Seq(Kinds)
    BY <2>1
  <2>3. Count(<<"primer">>, {"reply"}) = 0 /\ Count(<<>>, {"reply"}) = 0
    BY <2>1, CountOne, CountNone
  <2> QED
    BY <1>0, <2>2, <2>3 DEF Primed
<1>2. Typed'
  BY <1>1 DEF Primed, DataInv, Typed
<1>3. InStep'
  BY <1>0 DEF Primed, Primer, InStep, Buffer
<1>4. Framed'
  BY DEF Primed, DataInv, Framed
<1>5. Booked'
  BY <1>1 DEF DataInv, Booked, UnderWay
<1> QED
  BY <1>2, <1>3, <1>4, <1>5 DEF DataInv

\* A part of a packet is read.
LEMMA PartData ==
    ASSUME DataInv, ProcessPart
    PROVE  DataInv'
<1>0. Typed /\ pos \in Nat /\ outstanding \in Nat /\ toSend \in Seq(PacketRecords)
      /\ Header = 2 /\ Body.primer = 1
  BY SizeFacts DEF DataInv, Typed
<1>1. PICK h \in 0 .. Header, b \in 0 .. Header :
          /\ Reads(h, b) /\ ~Complete(Received(h, b))
          /\ input' = Kept(Received(h, b))
          /\ FlushSendQueue(toSend, h + b)
  BY DEF ProcessPart
<1>2. /\ state \in {"ASSOCIATING", "CONNECTED"}
      /\ UNCHANGED <<state, outstanding, auths, cut, broken>>
  BY DEF ProcessPart
<1> DEFINE n == h + b
           r == Received(h, b)
<1>3. /\ n \in Nat \ {0} /\ inbound # <<>>
      /\ state = "CONNECTED" =>
             /\ r \in [off : Nat, len : Nat] /\ r.off = pos + n
             /\ r.off < Header => r.len = 0
             /\ r.off >= Header => r.len = Body[inbound[1]]
             /\ pos + n >= Header => pos + n < Size(inbound[1])
      /\ state = "ASSOCIATING" =>
             /\ r = Buffer(Header + (pos + n), Header + Body.primer)
             /\ pos + n < Header + Body.primer
  <2>1. b \in Nat
    BY <1>0
  <2> QED
    BY <1>1, <1>2, <2>1, ReadsFacts
<1>4. input' = r /\ FlushSendQueue(toSend, n)
  BY <1>1 DEF Kept
<1> HIDE DEF n, r
<1>5. pos + n < Size(inbound[1])
  <2>1. CASE state = "CONNECTED"
    BY <1>0, <1>3, <2>1, FirstAnswer
  <2>2. CASE state = "ASSOCIATING"
    <3>1. inbound[1] = "primer" /\ Size(inbound[1]) = 3
      BY <1>0, <2>2, SizeFacts DEF DataInv, InStep, Kinds
    <3> QED
      BY <1>0, <1>3, <2>2, <3>1
  <2> QED
    BY <1>2, <2>1, <2>2
<1>6. Count(toSend, Requests) = Count(toSend, Requests) + 0 /\ outstanding' = outstanding + 0
  <2>1. Count(toSend, Requests) \in Nat
    BY <1>0, CountType
  <2> QED
    BY <1>0, <1>2, <2>1
<1>7. /\ toSend' \in Seq(PacketRecords) /\ inbound' \in Seq(Kinds) /\ pos' = pos + n
      /\ partial' \in 0 .. PacketSize - 1 /\ torn' \in BOOLEAN
      /\ inbound # <<>> => inbound' # <<>> /\ inbound'[1] = inbound[1]
      /\ state # "CONNECTED" => inbound' = inbound
      /\ Framed' /\ Booked'
  <2>1. n \in Nat /\ 0 \in Nat
    BY <1>3
  <2> QED
    BY <1>0, <1>2, <1>3, <1>4, <1>5, <1>6, <2>1, SendKeeps
<1>8. InStep'
  <2>1. CASE state = "CONNECTED"
    BY <1>0, <1>2, <1>3, <1>4, <1>5, <1>7, <2>1 DEF InStep, Size
  <2>2. CASE state = "ASSOCIATING"
    <3>1. inbound' = <<"primer">>
      BY <1>7, <2>2 DEF DataInv, InStep
    <3> QED
      BY <1>2, <1>3, <1>4, <1>7, <2>2, <3>1 DEF InStep
  <2> QED
    BY <1>2, <2>1, <2>2
<1>9. pos' \in Nat
  BY <1>0, <1>3, <1>7
<1>10. Typed'
  BY <1>0, <1>2, <1>7, <1>9 DEF Typed
<1> QED
  BY <1>7, <1>8, <1>10 DEF DataInv

\* A packet is read to its end.
LEMMA PacketData ==
    ASSUME DataInv, ProcessPacket
    PROVE  DataInv'
<1>0. Typed /\ pos \in Nat /\ outstanding \in 0 .. MaxOut /\ toSend \in Seq(PacketRecords)
      /\ Header = 2 /\ MaxOut \in Nat /\ torn \in BOOLEAN
  BY SizeFacts, SocketAssumption DEF DataInv, Typed, SocketAssumption
<1>1. PICK h \in 0 .. Header, b \in 0 .. Header :
          /\ Reads(h, b) /\ Complete(Received(h, b))
          /\ FlushSendQueue(toSend, h + b)
  BY DEF ProcessPacket
<1>2. /\ state = "CONNECTED" /\ input' = NoBuffer
      /\ outstanding' = IF inbound[1] = "reply" THEN outstanding - 1 ELSE outstanding
      /\ UNCHANGED <<state, auths, cut, broken>>
  BY DEF ProcessPacket
<1>3. h + b \in Nat \ {0} /\ inbound # <<>> /\ pos + (h + b) = Size(inbound[1])
  <2>1. b \in Nat
    BY <1>0
  <2> QED
    BY <1>1, <1>2, <2>1, ReadsFacts
<1>4. /\ toSend' \in Seq(PacketRecords)
      /\ partial' \in 0 .. PacketSize - 1 /\ torn' \in BOOLEAN
      /\ \E all : /\ Flushed(toSend, all) /\ all # <<>> /\ all[1] = inbound[1]
                  /\ pos' = 0 /\ inbound' = Tail(all)
  BY <1>0, <1>1, <1>3, FlushRead
<1>5. PICK all : /\ Flushed(toSend, all) /\ all # <<>> /\ all[1] = inbound[1]
                 /\ pos' = 0 /\ inbound' = Tail(all)
  BY <1>4
<1>6. all \in Seq(Kinds) /\ Tail(all) \in Seq(Kinds)
  BY <1>5, HeadTailProperties DEF Flushed
<1>7. Count(all, {"reply"}) = Count(inbound', {"reply"})
                                + (IF inbound[1] = "reply" THEN 1 ELSE 0)
  <2>1. Count(all, {"reply"}) = Count(Tail(all), {"reply"})
                                    + (IF all[1] \in {"reply"} THEN 1 ELSE 0)
    BY <1>5, <1>6, CountTail
  <2> QED
    BY <1>5, <2>1
<1>8. InStep'
  BY <1>0, <1>2, <1>5 DEF InStep, NoBuffer, Buffer
<1>9. Framed'
  BY <1>2, <1>4, <1>5 DEF Flushed, DataInv, Framed
<1>10. PICK c1 \in Nat, c2 \in Nat, c3 \in Nat, c4 \in Nat :
           /\ c1 = Count(toSend, Requests) /\ c2 = Count(inbound, {"reply"})
           /\ c3 = Count(toSend', Requests) /\ c4 = Count(inbound', {"reply"})
  BY <1>0, <1>4, <1>5, <1>6, CountType DEF Typed
<1>11. /\ c1 + c2 <= outstanding /\ (~torn => c1 + c2 = outstanding)
       /\ c3 + (c4 + (IF inbound[1] = "reply" THEN 1 ELSE 0)) <= c1 + c2
       /\ ~torn' => c3 + (c4 + (IF inbound[1] = "reply" THEN 1 ELSE 0)) = c1 + c2
       /\ torn => torn'
  BY <1>5, <1>7, <1>10 DEF DataInv, Booked, UnderWay, Flushed
<1>12. c3 + c4 <= outstanding' /\ (~torn' => c3 + c4 = outstanding')
       /\ outstanding' \in 0 .. MaxOut
  BY <1>0, <1>2, <1>11
<1>13. Booked'
  BY <1>10, <1>12 DEF Booked, UnderWay
<1>14. Typed'
  BY <1>0, <1>2, <1>4, <1>5, <1>6, <1>12 DEF Typed
<1> QED
  BY <1>8, <1>9, <1>13, <1>14 DEF DataInv

\* The handshake is answered.
LEMMA PrimerData ==
    ASSUME DataInv, ProcessPrimer
    PROVE  DataInv'
<1>0. Typed /\ pos \in Nat /\ Header = 2 /\ Body.primer = 1 /\ auths \in Nat
  BY SizeFacts, SocketAssumption DEF DataInv, Typed, SocketAssumption
<1>1. PICK b \in 1 .. Header + Body.primer :
          Reads(0, b) /\ Complete(Received(0, b)) /\ Consume(b, inbound)
  BY DEF ProcessPrimer
<1>2. /\ state = "ASSOCIATING" /\ state' = "CONNECTED" /\ input' = NoBuffer
      /\ toSend' = [i \in 1 .. auths |-> Packet("auth")] \o toSend
      /\ UNCHANGED <<outstanding, auths, partial, torn, cut, broken>>
  BY DEF ProcessPrimer
<1>3. pos + (0 + b) = Header + Body.primer
  <2>1. b \in Nat /\ 0 \in 0 .. Header
    BY <1>0
  <2> QED
    BY <1>1, <1>2, <2>1, ReadsFacts
<1>4. inbound = <<"primer">> /\ Size("primer") = 3
  BY <1>2, SizeFacts DEF DataInv, InStep, Kinds
<1>5. inbound' = <<>> /\ pos' = 0
  <2>1. b \in Nat \ {0} /\ pos + b = 3
    BY <1>0, <1>1, <1>3
  <2>2. inbound[1] = "primer" /\ Tail(inbound) = <<>>
    BY <1>4
  <2>3. ~(b = 0 \/ pos + b < Size(inbound[1])) /\ pos + b - Size(inbound[1]) = 0
    BY <1>0, <1>4, <2>1, <2>2
  <2> QED
    BY <1>1, <2>2, <2>3 DEF Consume
<1>6. /\ toSend' \in Seq(PacketRecords)
      /\ Count(toSend', Requests) = Count(toSend, Requests)
      /\ Started(toSend) = 0 => Started(toSend') = 0
  BY <1>0, <1>2, Credentials
<1>7. InStep'
  BY <1>0, <1>2, <1>5 DEF InStep, NoBuffer, Buffer
<1>8. Framed'
  BY <1>2, <1>6 DEF DataInv, Framed
<1>9. Count(inbound, {"reply"}) = Count(inbound', {"reply"})
  BY <1>4, <1>5, CountOne, CountNone
<1>10. Booked'
  BY <1>2, <1>6, <1>9 DEF DataInv, Booked, UnderWay
<1>11. inbound' \in Seq(Kinds)
  BY <1>5, EmptySeq
<1>12. Typed'
  BY <1>0, <1>2, <1>5, <1>6, <1>11 DEF Typed
<1> QED
  BY <1>7, <1>8, <1>10, <1>12 DEF DataInv

\* What touches neither packets nor the state.
LEMMA SameData ==
    ASSUME DataInv, UNCHANGED <<state, toSend, input, outstanding, auths, partial, torn, cut,
                                inbound, pos>>,
           broken' \in BOOLEAN
    PROVE  DataInv'
BY DEF DataInv, Typed, InStep, Framed, Booked, UnderWay

\* Every step preserves DataInv: the packets stay whole and the requests counted.
LEMMA NextData == DataInv /\ [Next]_vars => DataInv'
<1> SUFFICES ASSUME DataInv, [Next]_vars PROVE DataInv'
  OBVIOUS
<1>0. /\ Typed /\ toSend \in Seq(PacketRecords) /\ broken \in BOOLEAN
      /\ outstanding \in 0 .. MaxOut /\ MaxOut \in Nat
      /\ Count(toSend, Requests) = Count(toSend, Requests) + 0 /\ outstanding = outstanding + 0
  <2>1. /\ Typed /\ toSend \in Seq(PacketRecords) /\ broken \in BOOLEAN
        /\ outstanding \in 0 .. MaxOut /\ MaxOut \in Nat
    BY SocketAssumption DEF SocketAssumption, DataInv, Typed
  <2>2. Count(toSend, Requests) \in Nat
    BY <2>1, CountType
  <2> QED
    BY <2>1, <2>2
<1>1. CASE Submit
  <2>1. /\ Append(toSend, Packet("request")) \in Seq(PacketRecords)
        /\ Started(Append(toSend, Packet("request"))) = Started(toSend)
        /\ Count(Append(toSend, Packet("request")), Requests) = Count(toSend, Requests) + 1
    BY <1>0, NewPacket DEF RequestKinds
  <2>2. outstanding' = outstanding + 1 /\ outstanding' <= MaxOut
    BY <1>0, <1>1 DEF Submit
  <2> QED
    BY <1>1, <2>1, <2>2, SendOnly DEF Submit
<1>2. CASE AddAuth
  BY <1>2, AddAuthData
<1>3. CASE InterestConnects
  BY <1>3, ConnectData DEF InterestConnects
<1>4. CASE InterestTimesOut
  BY <1>4, LostData DEF InterestTimesOut
<1>5. CASE Interest
  BY <1>0, <1>5, SameData DEF Interest, network
<1>6. CASE InterestPings
  <2>1. /\ Append(toSend, Packet("ping")) \in Seq(PacketRecords)
        /\ Started(Append(toSend, Packet("ping"))) = Started(toSend)
        /\ Count(Append(toSend, Packet("ping")), Requests) = Count(toSend, Requests) + 0
    BY <1>0, NewPacket DEF RequestKinds
  <2>2. outstanding' = outstanding + 0 /\ outstanding' <= MaxOut
    BY <1>0, <1>6 DEF InterestPings
  <2> QED
    BY <1>6, <2>1, <2>2, SendOnly DEF InterestPings
<1>7. CASE InterestPingFails
  <2>1. /\ toSend' \in Seq(PacketRecords) /\ Started(toSend') = Started(toSend)
        /\ Count(toSend', Requests) = Count(toSend, Requests)
    BY <1>0, <1>7, NewPacket DEF RequestKinds, InterestPingFails
  <2>2. UNCHANGED <<state, input, outstanding, auths, partial, torn, cut, inbound, pos, broken>>
    BY <1>7 DEF InterestPingFails, network
  <2>3. InStep'
    BY <2>2, InStepStays
  <2>4. Typed' /\ Framed' /\ Booked'
    BY <2>1, <2>2 DEF DataInv, Typed, Framed, Booked, UnderWay
  <2> QED
    BY <2>3, <2>4 DEF DataInv
<1>8. CASE ProcessConnected
  BY <1>8, ConnectData DEF ProcessConnected
<1>9. CASE ProcessFails
  BY <1>9, LostData DEF ProcessFails
<1>10. CASE ProcessPart
  BY <1>10, PartData
<1>11. CASE ProcessPacket
  BY <1>11, PacketData
<1>12. CASE ProcessPrimer
  BY <1>12, PrimerData
<1>13. CASE ProcessNothing
  <2>1. outstanding' = outstanding + 0 /\ outstanding' <= MaxOut
    BY <1>0, <1>13 DEF ProcessNothing
  <2> QED
    BY <1>0, <1>13, <2>1, SendOnly DEF ProcessNothing
<1>14. CASE ServerCloses
  BY <1>0, <1>14, SameData DEF ServerCloses, client
<1>15. CASE Tick
  BY <1>0, <1>15, SameData DEF Tick, client, network
<1>16. CASE UNCHANGED vars
  BY <1>0, <1>16, SameData DEF vars, client, network
<1> QED
  BY <1>1, <1>2, <1>3, <1>4, <1>5, <1>6, <1>7, <1>8, <1>9, <1>10, <1>11, <1>12, <1>13, <1>14,
     <1>15, <1>16 DEF Next

-----------------------------------------------------------------------------
(* The deadline                                                            *)

Clock ==
    /\ phase \in {"app", "poll"}
    /\ left \in Nat /\ late \in Nat /\ idleRecv \in Nat /\ idleSend \in Nat
    /\ late <= Late

\* What is left of select()'s timeout ends at the deadline.
Deadline ==
    idleRecv + (IF phase = "poll" THEN left ELSE 0) <= 2 * Third + late

DeadlineInv == Clock /\ Deadline

\* The smaller one of two numbers.
LEMMA MinOfTwo ==
    ASSUME NEW a \in Int, NEW b \in Int
    PROVE  Min({a, b}) \in {a, b} /\ Min({a, b}) <= a /\ Min({a, b}) <= b
<1>1. \E x \in {a, b} : \A y \in {a, b} : x <= y
  <2>1. CASE a <= b
    BY <2>1
  <2>2. CASE b <= a
    BY <2>2
  <2> QED
    BY <2>1, <2>2
<1>2. /\ Min({a, b}) \in {a, b}
      /\ \A y \in {a, b} : Min({a, b}) <= y
  BY <1>1 DEF Min
<1> QED
  BY <1>2

\* The timeout of select() does not reach beyond the deadline.
LEMMA SleepInTime ==
    ASSUME Clock, RecvTo > 0, Sleep
    PROVE  /\ phase' = "poll" /\ late' = 0
           /\ left' \in Nat /\ left' <= 2 * Third - idleRecv
<1>1. Third \in Nat \ {0}
  BY SocketAssumption DEF SocketAssumption
<1>2. RecvTo \in Int /\ RecvTo = 2 * Third - idleRecv
  BY <1>1 DEF Clock, RecvTo
<1>3. NextSend \in Int /\ NextSend > 0
  BY <1>1 DEF Clock, NextSend, SendTo
<1>4. left' = Min({RecvTo, NextSend})
  BY DEF Sleep
<1>5. left' \in {RecvTo, NextSend} /\ left' <= RecvTo
  BY <1>2, <1>3, <1>4, MinOfTwo
<1>6. left' \in Nat
  BY <1>2, <1>3, <1>5
<1> QED
  BY <1>2, <1>5, <1>6 DEF Sleep

LEMMA BackInTheApplication ==
    ASSUME DeadlineInv, phase' = "app", left' = 0, late' = late,
           idleRecv' \in {0, idleRecv}, idleSend' \in {0, idleSend}
    PROVE  DeadlineInv'
<1>1. Third \in Nat
  BY SocketAssumption DEF SocketAssumption
<1>2. Clock'
  BY DEF DeadlineInv, Clock
<1>3. idleRecv <= 2 * Third + late
  BY <1>1 DEF DeadlineInv, Clock, Deadline
<1>4. idleRecv' + 0 <= 2 * Third + late'
  <2>1. late \in Nat /\ idleRecv \in Nat
    BY DEF DeadlineInv, Clock
  <2>2. CASE idleRecv' = 0
    <3>1. 0 + 0 <= 2 * Third + late
      BY <1>1, <2>1
    <3> QED
      BY <2>2, <3>1
  <2>3. CASE idleRecv' = idleRecv
    <3>1. idleRecv + 0 <= 2 * Third + late
      BY <1>3, <2>1
    <3> QED
      BY <2>3, <3>1
  <2> QED
    BY <2>2, <2>3
<1>5. Deadline'
  <2>1. (IF phase' = "poll" THEN left' ELSE 0) = 0
    OBVIOUS
  <2> QED
    BY <1>4, <2>1 DEF Deadline
<1> QED
  BY <1>2, <1>5 DEF DeadlineInv

\* handle_error() starts anew.
LEMMA ConnectionLost ==
    ASSUME Lost
    PROVE  DeadlineInv'
BY SocketAssumption DEF SocketAssumption, Lost, DeadlineInv, Clock, Deadline

\* There is no deadline before the first connection.
LEMMA InitDeadline == Init => DeadlineInv
BY SocketAssumption DEF SocketAssumption, Init, DeadlineInv, Clock, Deadline

\* No step of the client, the server or the clock passes the deadline.
LEMMA NextDeadline == DeadlineInv /\ [Next]_vars => DeadlineInv'
<1> SUFFICES ASSUME DeadlineInv, [Next]_vars PROVE DeadlineInv'
  OBVIOUS
<1> USE DEF DeadlineInv
<1>0. Third \in Nat \ {0} /\ Late \in Nat
  BY SocketAssumption DEF SocketAssumption
<1>1. CASE Submit
  <2>1. idleSend' \in {0, idleSend}
    BY <1>1 DEF Submit, FlushSendQueue
  <2>2. UNCHANGED <<phase, left, late, idleRecv>>
    BY <1>1 DEF Submit
  <2> QED
    BY <2>1, <2>2 DEF Clock, Deadline
<1>2. CASE AddAuth
  BY <1>2 DEF AddAuth, clock, Clock, Deadline
<1>3. CASE InterestConnects
  BY <1>0, <1>3 DEF InterestConnects, Clock, Deadline
<1>4. CASE InterestTimesOut
  BY <1>4, ConnectionLost DEF InterestTimesOut
<1>5. CASE Interest
  <2>1. RecvTo > 0 /\ Sleep /\ UNCHANGED <<idleRecv, idleSend>>
    BY <1>5 DEF Interest
  <2> QED
    BY <1>0, <2>1, SleepInTime DEF Clock, Deadline
<1>6. CASE InterestPings
  <2>1. RecvTo > 0 /\ Sleep /\ UNCHANGED idleRecv
    BY <1>6 DEF InterestPings
  <2>2. idleSend' \in {0, idleSend}
    BY <1>6 DEF InterestPings, FlushSendQueue
  <2> QED
    BY <1>0, <2>1, <2>2, SleepInTime DEF Clock, Deadline
<1>7. CASE InterestPingFails
  BY <1>7 DEF InterestPingFails, clock, Clock, Deadline
<1>8. CASE ProcessConnected
  BY <1>8, BackInTheApplication DEF ProcessConnected
<1>9. CASE ProcessFails
  BY <1>9, ConnectionLost DEF ProcessFails
<1>10. CASE ProcessPart
  <2>1. idleSend' \in {0, idleSend}
    BY <1>10 DEF ProcessPart, FlushSendQueue
  <2> QED
    BY <1>10, <2>1, BackInTheApplication DEF ProcessPart
<1>11. CASE ProcessPacket
  <2>1. idleSend' \in {0, idleSend}
    BY <1>11 DEF ProcessPacket, FlushSendQueue
  <2> QED
    BY <1>11, <2>1, BackInTheApplication DEF ProcessPacket
<1>12. CASE ProcessPrimer
  BY <1>12, BackInTheApplication DEF ProcessPrimer
<1>13. CASE ProcessNothing
  <2>1. idleSend' \in {0, idleSend}
    BY <1>13 DEF ProcessNothing, FlushSendQueue
  <2> QED
    BY <1>13, <2>1, BackInTheApplication DEF ProcessNothing
<1>14. CASE ServerCloses
  BY <1>14 DEF ServerCloses, clock, Clock, Deadline
<1>15. CASE Tick
  <2>1. idleSend' \in Nat
    <3>1. PICK a \in Nat, b \in Nat : a = idleSend + 1 /\ b = Third + Late + 1
      BY <1>0 DEF Clock
    <3>2. Min({a, b}) \in {a, b}
      BY MinOfTwo
    <3>3. idleSend' = Min({a, b})
      BY <1>15, <3>1 DEF Tick
    <3> QED
      BY <3>2, <3>3
  <2>2. idleRecv' = idleRecv + 1 /\ UNCHANGED phase
    BY <1>15 DEF Tick
  <2>3. CASE phase = "poll" /\ left > 0 /\ left' = left - 1 /\ UNCHANGED late
    BY <2>1, <2>2, <2>3 DEF Clock, Deadline
  <2>4. CASE /\ phase = "poll" => left = 0
             /\ late < Late /\ late' = late + 1 /\ UNCHANGED left
    BY <1>0, <2>1, <2>2, <2>4 DEF Clock, Deadline
  <2> QED
    BY <1>15, <2>3, <2>4 DEF Tick
<1>16. CASE UNCHANGED vars
  BY <1>16 DEF vars, clock, Clock, Deadline
<1> QED
  BY <1>1, <1>2, <1>3, <1>4, <1>5, <1>6, <1>7, <1>8, <1>9, <1>10, <1>11, <1>12, <1>13, <1>14,
     <1>15, <1>16 DEF Next

\* zookeeper_interest() gives a silent server up no later than the application
\* itself is late, for every recv_timeout and whatever else goes on.
THEOREM GivenUpInTime == Spec => []GiveUpInTime
<1>1. DeadlineInv => GiveUpInTime
  BY SocketAssumption DEF SocketAssumption, DeadlineInv, Clock, Deadline, GiveUpInTime
<1> QED
  BY InitDeadline, NextDeadline, <1>1, PTL DEF Spec

-----------------------------------------------------------------------------
(* Silence and rest                                                        *)

\* A counter that is capped by b and counts one more.
LEMMA LessByOne ==
    ASSUME NEW a \in Nat, NEW b \in Nat
    PROVE  Min({a + 1, b}) \in Nat /\ Min({a + 1, b}) <= b
           /\ (Min({a + 1, b}) < b => Min({a + 1, b}) = a + 1)
<1> DEFINE c == a + 1
<1>1. c \in Int /\ c \in Nat
  OBVIOUS
<1> HIDE DEF c
<1>2. Min({c, b}) \in {c, b} /\ Min({c, b}) <= b
  BY <1>1, MinOfTwo
<1>3. Min({c, b}) \in Nat /\ (Min({c, b}) < b => Min({c, b}) = c)
  BY <1>1, <1>2
<1> QED
  BY <1>2, <1>3 DEF c

\* With nothing on its way, no request is under way.
LEMMA NothingUnderWay ==
    ASSUME DataInv, ~Unanswered
    PROVE  toSend = <<>> /\ inbound = <<>> /\ outstanding = 0
<1>1. toSend = <<>> /\ ~torn /\ inbound = <<>>
  BY DEF Unanswered
<1>2. UnderWay = 0
  BY <1>1, CountNone DEF UnderWay
<1> QED
  BY <1>1, <1>2 DEF DataInv, Booked

\* Whatever a call sends leaves the server something to answer.
LEMMA FlushUnanswered ==
    ASSUME DataInv, NEW q \in Seq(PacketRecords), NEW n \in Nat, FlushSendQueue(q, n),
           n = 0 \/ (inbound # <<>> /\ pos + n < Size(inbound[1])),
           UNCHANGED state, ~Unanswered'
    PROVE  /\ q = <<>> /\ idleSend' = idleSend /\ inbound = <<>>
           /\ q = toSend => ~Unanswered
<1>1. pos' = pos + n /\ Flushed(q, inbound')
  BY FlushUnread
<1>2. /\ toSend' = <<>> /\ ~torn' /\ inbound' = <<>>
      /\ state \notin {"CONNECTING", "ASSOCIATING"}
  BY DEF Unanswered
<1>3. q = <<>> /\ idleSend' = idleSend /\ ~torn
  BY <1>1, <1>2 DEF Flushed
<1>4. inbound = <<>>
  <2>1. Len(inbound') = 0
    BY <1>1, <1>2, EmptySeq DEF Flushed
  <2>2. Len(inbound) = 0
    BY <1>1, <2>1 DEF Flushed
  <2> QED
    BY <2>2, EmptySeq DEF DataInv, Typed
<1> QED
  BY <1>2, <1>3, <1>4 DEF Unanswered

\* A packet that is not complete is not read to its end.
LEMMA PartLeft ==
    ASSUME DataInv, state \in {"ASSOCIATING", "CONNECTED"},
           NEW h \in 0 .. Header, NEW b \in Nat, Reads(h, b), ~Complete(Received(h, b))
    PROVE  /\ h + b \in Nat \ {0} /\ inbound # <<>>
           /\ pos + (h + b) < Size(inbound[1])
<1>0. Typed /\ pos \in Nat /\ Header = 2 /\ Body.primer = 1
  BY SizeFacts DEF DataInv, Typed
<1> DEFINE n == h + b
<1>1. /\ n \in Nat \ {0} /\ inbound # <<>>
      /\ state = "CONNECTED" /\ pos + n >= Header => pos + n < Size(inbound[1])
      /\ state = "ASSOCIATING" => pos + n < Header + Body.primer
  BY ReadsFacts
<1> HIDE DEF n
<1>2. ASSUME state = "CONNECTED" PROVE pos + n < Size(inbound[1])
  <2>1. Size(inbound[1]) \in Nat /\ Size(inbound[1]) >= Header
    BY <1>0, <1>1, FirstAnswer
  <2> QED
    BY <1>0, <1>1, <1>2, <2>1
<1>3. ASSUME state = "ASSOCIATING" PROVE pos + n < Size(inbound[1])
  <2>1. inbound[1] = "primer" /\ Size(inbound[1]) = 3
    BY <1>0, <1>3, SizeFacts DEF DataInv, InStep, Kinds
  <2> QED
    BY <1>0, <1>1, <1>3, <2>1
<1>4. n \in Nat \ {0} /\ inbound # <<>> /\ pos + n < Size(inbound[1])
  BY <1>1, <1>2, <1>3
<1> QED
  BY <1>4 DEF n

\* Every step keeps the ages of the last packets in step with the time select() sleeps
\* and with the time an answer has been owed.
LEMMA NextTimely ==
    ASSUME DataInv, Clock, Clock', Timely, [Next]_vars
    PROVE  Timely'
<1>0. /\ Third \in Nat \ {0} /\ Late \in Nat /\ Typed /\ toSend \in Seq(PacketRecords)
      /\ late \in Nat /\ late <= Late /\ left \in Nat /\ idleRecv \in Nat /\ idleSend \in Nat
      /\ left' \in Nat /\ late' \in Nat /\ late' <= Late
      /\ idleRecv' \in Nat /\ idleSend' \in Nat
      /\ phase \in {"app", "poll"} /\ phase' \in {"app", "poll"}
      /\ waiting \in Nat /\ waiting <= Third
      /\ waiting < Third => idleRecv <= Third + Late + waiting
  BY SocketAssumption DEF SocketAssumption, DataInv, Typed, Clock, Timely, Owing
<1>n. /\ Third \in Nat /\ Late \in Nat /\ late \in Nat /\ left \in Nat
      /\ idleRecv \in Nat /\ idleSend \in Nat /\ waiting \in Nat
  BY <1>0
<1>p. PICK left2 \in Nat, late2 \in Nat, idleRecv2 \in Nat, idleSend2 \in Nat :
          left' = left2 /\ late' = late2 /\ idleRecv' = idleRecv2 /\ idleSend' = idleSend2
  BY <1>0
<1>o. ASSUME waiting' = waiting, idleRecv' \in {0, idleRecv}
      PROVE  Owing'
  BY <1>0, <1>o DEF Owing
\* The server owes an answer now, or is not to be pinged.
<1>a. ASSUME state' # "CONNECTED" \/ Unanswered', waiting' = waiting, idleRecv' \in {0, idleRecv}
      PROVE  Timely'
  BY <1>o, <1>a DEF Timely, Quiet
\* Nothing was on its way before either.
<1>b. ASSUME UNCHANGED <<state, idleRecv, late, waiting>>,
             ~Unanswered' => ~Unanswered /\ idleSend' = idleSend,
             phase' = "app"
      PROVE  Timely'
  <2>1. CASE Unanswered'
    BY <1>a, <1>b, <2>1
  <2>2. CASE ~Unanswered' /\ state = "CONNECTED"
    <3>1. Resting /\ idleSend' = idleSend
      BY <1>b, <2>2 DEF Timely, Quiet
    <3>2. Ahead' = 0 /\ Ahead \in Nat
      BY <1>0, <1>b DEF Ahead
    <3>3. idleRecv' + Ahead' <= Third + late'
      BY <1>0, <1>b, <3>1, <3>2 DEF Resting
    <3>4. Resting'
      BY <1>b, <3>1, <3>3 DEF Resting
    <3> QED
      BY <1>o, <1>b, <3>4 DEF Timely
  <2> QED
    BY <1>a, <1>b, <2>1, <2>2
\* Something has arrived.
<1>c. ASSUME waiting' = 0, idleRecv' = 0, phase' = "app"
      PROVE  Timely'
  <2>1. Ahead' = 0
    BY <1>c DEF Ahead
  <2>2. idleRecv' + Ahead' <= Third + late' /\ idleRecv' <= idleSend'
    <3>1. 0 + 0 <= Third + late' /\ 0 <= idleSend'
      BY <1>n, <1>p
    <3> QED
      BY <1>c, <2>1, <3>1
  <2>3. Resting'
    BY <1>c, <2>2 DEF Resting
  <2>4. Owing'
    BY <1>0, <1>c DEF Owing
  <2> QED
    BY <2>3, <2>4 DEF Timely
<1>1. CASE Submit
  <2>1. /\ Append(toSend, Packet("request")) \in Seq(PacketRecords)
        /\ Append(toSend, Packet("request")) # <<>>
    BY <1>0, NewPacket DEF RequestKinds
  <2>2. /\ FlushSendQueue(Append(toSend, Packet("request")), 0) /\ UNCHANGED state
        /\ waiting' = waiting /\ idleRecv' = idleRecv
    BY <1>1 DEF Submit
  <2>3. Unanswered'
    BY <2>1, <2>2, FlushUnanswered
  <2> QED
    BY <2>2, <2>3, <1>a
<1>2. CASE AddAuth
  <2>1. UNCHANGED <<state, torn, inbound, clock>>
    BY <1>2 DEF AddAuth
  <2>2. toSend' = toSend \/ toSend' = <<Packet("auth")>> \o toSend
    BY <1>2 DEF AddAuth
  <2>3. toSend # <<>> => toSend' # <<>>
    <3>1. [i \in 1 .. 1 |-> Packet("auth")] = <<Packet("auth")>>
      OBVIOUS
    <3> QED
      BY <1>0, <2>2, <3>1, Credentials
  <2>4. ~Unanswered' => ~Unanswered
    BY <2>1, <2>3 DEF Unanswered
  <2> QED
    BY <2>1, <2>4 DEF clock, Timely, Owing, Quiet, Resting, Ahead
<1>3. CASE InterestConnects
  BY <1>3, <1>a DEF InterestConnects, Primed
<1>4. CASE InterestTimesOut
  BY <1>4, <1>c DEF InterestTimesOut, Lost
<1>5. CASE Interest
  <2>1. /\ RecvTo > 0 /\ ~PingDue /\ Sleep /\ waiting' = waiting
        /\ UNCHANGED <<state, toSend, torn, inbound, idleRecv, idleSend>>
    BY <1>5 DEF Interest, network
  <2>2. Unanswered' <=> Unanswered
    BY <2>1 DEF Unanswered
  <2>3. CASE state # "CONNECTED" \/ Unanswered
    BY <1>a, <2>1, <2>2, <2>3
  <2>4. CASE state = "CONNECTED" /\ ~Unanswered
    <3>1. outstanding = 0
      BY <2>4, NothingUnderWay
    <3>2. SendTo > 0 /\ SendTo = Third - idleSend /\ NextSend = SendTo /\ SendTo \in Int
      BY <1>0, <2>1, <2>4, <3>1 DEF PingDue, NextSend, SendTo
    <3>3. RecvTo \in Int
      BY <1>0 DEF RecvTo
    <3>4. left' <= Third - idleSend /\ late' = 0 /\ phase' = "poll"
      BY <2>1, <3>2, <3>3, MinOfTwo DEF Sleep
    <3>5. idleSend < Third /\ idleRecv <= idleSend
      <4>1. Resting
        BY <2>4 DEF Timely, Quiet
      <4>2. SendTo > 0 /\ SendTo = Third - idleSend
        BY <3>2
      <4>3. idleSend < Third
        BY <1>0, <4>2
      <4>4. idleSend <= Third + Late => idleRecv <= idleSend
        BY <4>1 DEF Resting
      <4> QED
        BY <1>0, <4>3, <4>4
    <3>6. idleRecv' + left' <= Third + late' /\ idleSend' + left' <= Third + late'
      <4>1. idleRecv' = idleRecv /\ idleSend' = idleSend /\ late' = 0
        BY <2>1, <3>4
      <4>2. idleRecv + left' <= Third /\ idleSend + left' <= Third
        <5>1. left' <= Third - idleSend
          BY <3>4
        <5> QED
          BY <1>n, <1>p, <3>5, <5>1
      <4>3. idleRecv + left' <= Third + 0 /\ idleSend + left' <= Third + 0
        BY <1>n, <1>p, <4>2
      <4> QED
        BY <4>1, <4>3
    <3>7. Ahead' = left'
      BY <3>4 DEF Ahead
    <3>8. Resting'
      BY <2>1, <3>4, <3>5, <3>6, <3>7 DEF Resting
    <3> QED
      BY <1>o, <2>1, <3>8 DEF Timely
  <2> QED
    BY <2>3, <2>4
<1>6. CASE InterestPings
  <2>1. /\ Append(toSend, Packet("ping")) \in Seq(PacketRecords)
        /\ Append(toSend, Packet("ping")) # <<>>
    BY <1>0, NewPacket DEF RequestKinds
  <2>2. /\ FlushSendQueue(Append(toSend, Packet("ping")), 0) /\ UNCHANGED state
        /\ waiting' = waiting /\ idleRecv' = idleRecv
    BY <1>6 DEF InterestPings
  <2>3. Unanswered'
    BY <2>1, <2>2, FlushUnanswered
  <2> QED
    BY <2>2, <2>3, <1>a
<1>7. CASE InterestPingFails
  <2>1. toSend' # <<>>
    BY <1>0, <1>7, NewPacket DEF RequestKinds, InterestPingFails
  <2> QED
    BY <1>7, <1>a, <2>1 DEF InterestPingFails, Unanswered, clock
<1>8. CASE ProcessConnected
  BY <1>8, <1>a DEF ProcessConnected, Primed
<1>9. CASE ProcessFails
  BY <1>9, <1>c DEF ProcessFails, Lost
<1>10. CASE ProcessPart
  <2>1. PICK h \in 0 .. Header, b \in 0 .. Header :
            Reads(h, b) /\ ~Complete(Received(h, b)) /\ FlushSendQueue(toSend, h + b)
    BY <1>10 DEF ProcessPart
  <2>2. b \in Nat /\ state \in {"ASSOCIATING", "CONNECTED"}
        /\ UNCHANGED state /\ waiting' = waiting /\ idleRecv' = idleRecv
    BY <1>10, SizeFacts DEF ProcessPart
  <2> DEFINE n == h + b
  <2>3. n \in Nat \ {0} /\ inbound # <<>> /\ pos + n < Size(inbound[1])
        /\ FlushSendQueue(toSend, n)
    BY <2>1, <2>2, PartLeft
  <2> HIDE DEF n
  <2>4. Unanswered'
    <3>1. n \in Nat
      BY <2>3
    <3> QED
      BY <1>0, <2>2, <2>3, <3>1, FlushUnanswered
  <2> QED
    BY <1>a, <2>2, <2>4
<1>11. CASE ProcessPacket
  BY <1>11, <1>c DEF ProcessPacket
<1>12. CASE ProcessPrimer
  BY <1>12, <1>c DEF ProcessPrimer
<1>13. CASE ProcessNothing
  <2>1. /\ FlushSendQueue(toSend, 0) /\ phase' = "app"
        /\ UNCHANGED <<state, late, idleRecv, waiting>>
    BY <1>13 DEF ProcessNothing
  <2>2. ~Unanswered' => ~Unanswered /\ idleSend' = idleSend
    BY <1>0, <2>1, FlushUnanswered
  <2> QED
    BY <1>b, <2>1, <2>2
<1>14. CASE ServerCloses
  BY <1>14 DEF ServerCloses, client, clock, Timely, Owing, Quiet, Resting, Ahead, Unanswered
<1>15. CASE Tick
  <2>1. /\ UNCHANGED <<state, toSend, torn, inbound, phase>> /\ state # "ZERO"
        /\ idleRecv' = idleRecv + 1
        /\ idleSend' = Min({idleSend + 1, Third + Late + 1})
        /\ waiting' = IF Unanswered THEN Min({waiting + 1, Third}) ELSE 0
    BY <1>15 DEF Tick, client, network
  <2>2. Unanswered' <=> Unanswered
    BY <2>1 DEF Unanswered
  <2>3. \/ phase = "poll" /\ left > 0 /\ left' = left - 1 /\ late' = late
        \/ /\ phase = "poll" => left = 0
           /\ late' = late + 1 /\ left' = left
    BY <1>15 DEF Tick
  <2>4. CASE Unanswered
    <3>1. waiting' \in Nat /\ waiting' <= Third /\ (waiting' < Third => waiting' = waiting + 1)
      BY <1>0, <2>1, <2>4, LessByOne
    <3>2. waiting' < Third => idleRecv' <= Third + Late + waiting'
      <4>1. idleRecv' = idleRecv + 1
        BY <2>1
      <4> QED
        BY <1>0, <3>1, <4>1
    <3> QED
      BY <2>2, <2>4, <3>1, <3>2 DEF Timely, Owing, Quiet
  <2>5. CASE ~Unanswered
    <3>1. waiting' = 0 /\ Resting
      <4>1. state = "CONNECTED"
        BY <1>0, <2>1, <2>5 DEF Unanswered, Typed
      <4> QED
        BY <2>1, <2>5, <4>1 DEF Timely, Quiet
    <3>2. /\ idleRecv + Ahead <= Third + late
          /\ idleSend <= Third + Late => idleRecv <= idleSend
          /\ phase = "poll" => idleSend + left <= Third + late
      BY <3>1 DEF Resting
    <3>3. idleRecv' = idleRecv + 1 /\ phase' = phase
      BY <2>1
    <3>4. PICK c \in Nat : c = Third + Late + 1
      BY <1>0
    <3>5. /\ idleSend' <= c /\ (idleSend' < c => idleSend' = idleSend + 1)
          /\ idleSend' <= idleSend + 1
      <4>1. idleSend' = Min({idleSend + 1, c})
        BY <2>1, <3>4
      <4>2. idleSend' <= c /\ (idleSend' < c => idleSend' = idleSend + 1)
        BY <1>0, <3>4, <4>1, LessByOne
      <4>3. idleSend + 1 \in Int /\ c \in Int
        BY <1>0, <3>4
      <4>4. idleSend' <= idleSend + 1
        BY <4>1, <4>3, MinOfTwo
      <4> QED
        BY <4>2, <4>4
    <3>6. idleSend' <= Third + Late => idleRecv' <= idleSend'
      BY <1>0, <3>2, <3>3, <3>4, <3>5
    <3>7. ASSUME phase = "poll" /\ left > 0 /\ left' = left - 1 /\ late' = late
          PROVE  Resting'
      <4>1. Ahead = left /\ Ahead' = left'
        BY <2>1, <3>7 DEF Ahead
      <4>2. idleRecv + left <= Third + late /\ idleSend + left <= Third + late
        BY <3>2, <3>7, <4>1
      <4>3. left' = left - 1 /\ late' = late /\ left > 0
        BY <3>7
      <4>4. idleRecv' + left' <= Third + late' /\ idleSend' + left' <= Third + late'
        <5>1. idleSend' <= idleSend + 1 /\ idleRecv' = idleRecv + 1
          BY <3>3, <3>5
        <5> QED
          BY <1>n, <1>p, <4>2, <4>3, <5>1
      <4> QED
        BY <3>6, <4>1, <4>4 DEF Resting
    <3>8. ASSUME (phase = "poll" => left = 0) /\ late' = late + 1 /\ left' = left
          PROVE  Resting'
      <4>1. Ahead = 0 /\ Ahead' = 0
        BY <2>1, <3>8 DEF Ahead
      <4>2. late' = late + 1
        BY <3>8
      <4>3. idleRecv' + Ahead' <= Third + late'
        BY <1>0, <3>2, <3>3, <4>1, <4>2
      <4>4. phase = "poll" => left' = 0 /\ idleSend <= Third + late
        BY <1>0, <3>2, <3>8
      <4>5. phase' = "poll" => idleSend' + left' <= Third + late'
        <5>1. idleSend' <= idleSend + 1 /\ phase' = phase
          BY <3>3, <3>5
        <5>2. ASSUME phase = "poll" PROVE idleSend' + left' <= Third + late'
          <6>1. left' = 0 /\ idleSend <= Third + late
            BY <4>4, <5>2
          <6> QED
            BY <1>n, <1>p, <4>2, <5>1, <6>1
        <5> QED
          BY <5>1, <5>2
      <4> QED
        BY <3>6, <4>3, <4>5 DEF Resting
    <3>9. Resting'
      BY <2>3, <3>7, <3>8
    <3>10. idleRecv' <= Third + Late + 0
      <4>1. PICK ahead2 \in Nat : Ahead' = ahead2
        BY <1>0 DEF Ahead
      <4>2. idleRecv' + Ahead' <= Third + late' /\ late' <= Late
        BY <1>0, <3>9 DEF Resting
      <4> QED
        BY <1>n, <1>p, <4>1, <4>2
    <3>11. Owing'
      <4>1. waiting' = 0
        BY <3>1
      <4> QED
        BY <1>0, <3>10, <4>1 DEF Owing
    <3> QED
      BY <3>9, <3>11 DEF Timely
  <2> QED
    BY <2>4, <2>5
<1>16. CASE UNCHANGED vars
  BY <1>16 DEF vars, client, network, clock, Timely, Owing, Quiet, Resting, Ahead, Unanswered
<1> QED
  BY <1>1, <1>2, <1>3, <1>4, <1>5, <1>6, <1>7, <1>8, <1>9, <1>10, <1>11, <1>12, <1>13, <1>14,
     <1>15, <1>16 DEF Next

-----------------------------------------------------------------------------
(* The theorems                                                            *)

\* The inductive invariant but for the deadline.
SocketInv == DataInv /\ Clock /\ Timely

\* The invariant holds before the first connection.
LEMMA InitSocket == Init => SocketInv
<1> SUFFICES ASSUME Init PROVE SocketInv
  OBVIOUS
<1>1. DataInv
  BY InitData
<1>2. Third \in Nat /\ Late \in Nat
  BY SocketAssumption DEF SocketAssumption
<1>3. Clock
  BY <1>2 DEF Init, Clock
<1>4. Timely
  <2>1. ~Quiet
    BY DEF Init, Quiet
  <2>2. Owing
    BY <1>2 DEF Init, Owing
  <2> QED
    BY <2>1, <2>2 DEF Timely
<1> QED
  BY <1>1, <1>3, <1>4 DEF SocketInv

\* Every step preserves the invariant and the deadline.
LEMMA NextSocket == SocketInv /\ Deadline /\ [Next]_vars => SocketInv' /\ Deadline'
<1> SUFFICES ASSUME SocketInv, Deadline, [Next]_vars PROVE SocketInv' /\ Deadline'
  OBVIOUS
<1>1. DataInv'
  BY NextData DEF SocketInv
<1>2. Clock' /\ Deadline'
  BY NextDeadline DEF SocketInv, DeadlineInv
<1>3. Timely'
  BY <1>2, NextTimely DEF SocketInv
<1> QED
  BY <1>1, <1>2, <1>3 DEF SocketInv

\* The invariant holds in every state.
LEMMA InvariantHolds == Spec => [](SocketInv /\ Deadline)
<1>1. Init => Deadline
  BY InitDeadline DEF DeadlineInv
<1> QED
  BY InitSocket, NextSocket, <1>1, PTL DEF Spec

\* zh->input_buffer holds no more than a packet.
LEMMA BufferBounds ==
    ASSUME DataInv
    PROVE  /\ input.off \in 0 .. 2 * Header + Body.primer
           /\ input.len \in 0 .. Header + Body.primer
<1>1. /\ Header = 2 /\ Body.primer = 1 /\ pos \in Nat /\ Typed
      /\ 2 * Header + Body.primer = 5 /\ Header + Body.primer = 3
  BY SizeFacts DEF DataInv, Typed
<1>2. input.off \in 0 .. 5 /\ input.len \in 0 .. 3
  <2>1. CASE state \in {"ZERO", "CONNECTING"}
    BY <2>1 DEF DataInv, InStep, NoBuffer, Buffer
  <2>2. CASE state = "ASSOCIATING"
    <3>1. input.off = 2 + pos /\ input.len = 3 /\ pos < 3
      BY <1>1, <2>2 DEF DataInv, InStep, Buffer
    <3> QED
      BY <1>1, <3>1
  <2>3. CASE state = "CONNECTED"
    <3>1. /\ input.off = pos
          /\ pos < 2 => input.len = 0
          /\ pos >= 2 => input.len = Body[inbound[1]] /\ pos < Size(inbound[1])
          /\ inbound = <<>> => pos = 0
      BY <1>1, <2>3 DEF DataInv, InStep
    <3>2. CASE pos < 2
      BY <1>1, <3>1, <3>2
    <3>3. CASE pos >= 2
      <4>1. inbound[1] \in Kinds
        <5>1. inbound # <<>>
          BY <1>1, <3>1, <3>3
        <5> QED
          BY <1>1, <5>1, EmptySeq, ElementOfSeq DEF Typed
      <4>2. Body[inbound[1]] \in 1 .. 2 /\ Size(inbound[1]) = 2 + Body[inbound[1]]
        BY <4>1, SizeFacts
      <4> QED
        BY <1>1, <3>1, <3>3, <4>2
    <3> QED
      BY <1>1, <3>2, <3>3
  <2> QED
    BY <1>1, <2>1, <2>2, <2>3 DEF Typed
<1> QED
  BY <1>1, <1>2

\* Every variable keeps its range: recv_buffer() reads within a packet, and outstanding,
\* which zookeeper_interest() compares with 0, never counts below it.
THEOREM TypeCorrect == Spec => []TypeOK
<1>1. SocketInv => TypeOK
  <2> SUFFICES ASSUME SocketInv PROVE TypeOK
    OBVIOUS
  <2>1. /\ input.off \in 0 .. 2 * Header + Body.primer
        /\ input.len \in 0 .. Header + Body.primer
    BY BufferBounds DEF SocketInv
  <2>2. {left, late, idleRecv, idleSend, waiting} \subseteq Nat /\ phase \in {"app", "poll"}
    BY DEF SocketInv, Clock, Timely, Owing
  <2>3. Typed /\ DOMAIN Body = Kinds
    BY SizeFacts DEF SocketInv, DataInv
  <2> QED
    BY <2>1, <2>2, <2>3 DEF Typed, TypeOK, PacketRecords
<1> QED
  BY InvariantHolds, <1>1, PTL

\* The server can tell packets apart unless a credential was put in front of a packet
\* already partly sent: every other path through to_send keeps packets whole
\* (zookeeper.c:1077, :1353).
THEOREM WholeFrames == Spec => []FramesWhole
<1>1. SocketInv => FramesWhole
  BY DEF SocketInv, DataInv, Framed, FramesWhole
<1> QED
  BY InvariantHolds, <1>1, PTL

\* recv_buffer() is in step with the stream: a packet is read from its first byte,
\* however its bytes arrive (zookeeper.c:1493, :1786).
THEOREM InAlignment == Spec => []Aligned
<1>1. SocketInv => Aligned
  <2> SUFFICES ASSUME SocketInv, state # "ZERO" 
               PROVE  pos = IF state = "ASSOCIATING" THEN input.off - Header ELSE input.off
    BY DEF Aligned
  <2>1. InStep /\ pos \in Nat /\ Header = 2
        /\ state \in {"CONNECTING", "ASSOCIATING", "CONNECTED"}
    BY SizeFacts DEF SocketInv, DataInv, Typed
  <2>2. CASE state = "CONNECTING"
    BY <2>1, <2>2 DEF InStep, NoBuffer, Buffer
  <2>3. CASE state = "ASSOCIATING"
    <3>1. input.off = 2 + pos
      BY <2>1, <2>3 DEF InStep, Buffer
    <3>2. pos = input.off - 2
      BY <2>1, <3>1
    <3> QED
      BY <2>1, <2>3, <3>2
  <2>4. CASE state = "CONNECTED"
    BY <2>1, <2>4 DEF InStep
  <2> QED
    BY <2>1, <2>2, <2>3, <2>4
<1> QED
  BY InvariantHolds, <1>1, PTL

\* With nothing under way the server hears of the client at least once in a third of
\* recv_timeout, for every recv_timeout (zookeeper.c:1709).
THEOREM PingsInTime == Spec => []PingInTime
<1>1. SocketInv => PingInTime
  <2> SUFFICES ASSUME SocketInv, phase = "poll", state = "CONNECTED", ~Unanswered
               PROVE  idleSend <= Third + Late
    BY DEF PingInTime
  <2>1. /\ Third \in Nat /\ Late \in Nat /\ late \in Nat /\ left \in Nat /\ idleSend \in Nat
        /\ late <= Late
    BY SocketAssumption DEF SocketAssumption, SocketInv, Clock
  <2>2. idleSend + left <= Third + late
    BY DEF SocketInv, Timely, Quiet, Resting
  <2> QED
    BY <2>1, <2>2
<1> QED
  BY InvariantHolds, <1>1, PTL

\* zookeeper_interest() gives up no server that answers: an action property, for every
\* recv_timeout and every lateness of the application (zookeeper.c:1692).
THEOREM PromptServer == Spec => PromptServerKept
<1>1. SocketInv => (InterestTimesOut => waiting >= Third - Late)
  <2> SUFFICES ASSUME SocketInv, InterestTimesOut PROVE waiting >= Third - Late
    OBVIOUS
  <2>1. /\ Third \in Nat \ {0} /\ Late \in Nat /\ idleRecv \in Nat /\ waiting \in Nat
    BY SocketAssumption DEF SocketAssumption, SocketInv, Clock, Timely, Owing
  <2>2. 2 * Third - idleRecv <= 0
    BY DEF InterestTimesOut, RecvTo
  <2>3. waiting <= Third /\ (waiting < Third => idleRecv <= Third + Late + waiting)
    BY DEF SocketInv, Timely, Owing
  <2> QED
    BY <2>1, <2>2, <2>3
<1> QED
  BY InvariantHolds, <1>1, PTL DEF PromptServerKept
=============================================================================
